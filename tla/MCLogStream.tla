---------------------------- MODULE MCLogStream ----------------------------
(***************************************************************************)
(* A small instance of the log stream: the two streams a container writes, *)
(* with more lines than an answer holds, and a clock that is finer than    *)
(* the timestamps, so that lines are cut off and lines share a timestamp.  *)
(***************************************************************************)
EXTENDS LogStream

CONSTANTS stdout, stderr

MCStream == {stdout, stderr}
=============================================================================
