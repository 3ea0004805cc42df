---------------------------- MODULE MCJobService ----------------------------
(***************************************************************************)
(* job-service under an open environment: anyone may create, cancel, or    *)
(* report any callback status for any job at any time.                     *)
(* Bound: MaxCalls requests are received altogether.                       *)
(***************************************************************************)
EXTENDS JobService, TLC

CONSTANTS j1, j2, MaxCalls

VARIABLE calls    \* requests received so far

MCOneJob == [j \in Job |-> 2]
MCTwoJobs == (j1 :> 0) @@ (j2 :> 1)

MCInit == ServiceInit /\ calls = 0

MCReceive ==
  /\ calls < MaxCalls
  /\ calls' = calls + 1
  /\ \E h \in Handler : Receive(h)

MCStep ==
  /\ \E h \in Handler : HandlerStep(h) \/ Abort(h)
  /\ UNCHANGED calls

MCSpec == MCInit /\ [][MCReceive \/ MCStep]_<<serviceVars, calls>>

Sessions == Permutations(Handler)
=============================================================================
