--------------------------- MODULE MCOrchestrator ---------------------------
(***************************************************************************)
(* The orchestrator with job-service as an open environment and the        *)
(* containers.  A behaviour submits jobs other than j3 and is about their  *)
(* dispatch, or submits j3 and is about stopping its tasks.                *)
(* Bounds: MaxSubmissions records on the one topic, MaxCancellations on    *)
(* the other, MaxTakeovers.                                                *)
(***************************************************************************)
EXTENDS Orchestrator, TLC

CONSTANTS j1, j2, j3, MaxSubmissions, MaxCancellations

MCRetries == (j1 :> 2) @@ (j2 :> 0) @@ (j3 :> 1)
MCSharedTag == [j \in Job |-> j1]

Stops == \E o \in DOMAIN submissions : submissions[o] = j3

MCSubmit(j) ==
  /\ Len(submissions) < MaxSubmissions
  /\ submissions # << >> => (Stops <=> j = j3)
  /\ Stops => Launched = DOMAIN submissions
  /\ Submit(j)

-----------------------------------------------------------------------------
(* Dispatch: neither the containers nor the cancellation consumer touch     *)
(* anything the worker or the consumer group reads.                         *)

MCWorkerDies(r) ==
  /\ ~Stops
  /\ MayCrash
  /\ owner = r \/ worker[r] # Free
  /\ WorkerDies(r)
  /\ UNCHANGED cancelVars

MCWorkerStep(r) == ~Stops /\ WorkerStep(r)
MCTakeover(r) == ~Stops /\ Takeover(r)

MCDispatch ==
  \/ \E r \in Replica : MCWorkerStep(r) \/ MCTakeover(r) \/ MCWorkerDies(r)
  \/ ~Stops /\ AutoCommit

-----------------------------------------------------------------------------
(* Stopping: all that matters of the workers is that they launch, and of    *)
(* the containers that they may end any time (Vanish stands for any end).   *)

MCLaunch(o) ==
  /\ Stops
  /\ o \in DOMAIN submissions \ Launched
  /\ RunTask(submissions[o], o, TRUE)
  /\ OnlyTasksChange

MCRequestStop(j) ==
  /\ Stops
  /\ Len(cancellations) < MaxCancellations
  /\ RequestStop(j)

MCStopperDies(r) ==
  /\ Stops
  /\ MayCrash
  /\ cancelOwner = r \/ Stopping(r)
  /\ StopperDies(r)
  /\ UNCHANGED <<submissions, cancellations, task, consumerVars, faultVars>>

MCContainer(t) ==
  /\ Stops
  /\ Killed(t) \/ Vanish(t)
  /\ OnlyTasksChange

MCStopping ==
  \/ Stops /\ CancelStep
  \/ \E r \in Replica : MCStopperDies(r)
  \/ \E o \in DOMAIN submissions : MCLaunch(o)
  \/ \E t \in DOMAIN task : MCContainer(t)
  \/ MCRequestStop(j3)

-----------------------------------------------------------------------------
\* One replica owns both partitions at first; which one makes no difference.
MCInit ==
  /\ OrchestratorInit
  /\ owner = CHOOSE r \in Replica : TRUE
  /\ cancelOwner = owner

MCNext == MCDispatch \/ MCStopping \/ \E j \in Job : MCSubmit(j)

MCSpec == MCInit /\ [][MCNext]_orchestratorVars

\* The event loop of every replica keeps running, the group coordinator assigns
\* a partition whose owner died, and ECS kills what it was told to stop.
\* Nothing says that spark-submit ever ends.
MCFairness ==
  /\ \A r \in Replica :
       /\ WF_orchestratorVars(MCWorkerStep(r))
       /\ WF_orchestratorVars(Stops /\ StopperStep(r) /\ UNCHANGED <<consumerVars, faultVars>>)
  /\ WF_orchestratorVars(owner = NoReplica /\ \E r \in Replica : MCTakeover(r))
  /\ WF_orchestratorVars(Stops /\ cancelOwner = NoReplica
                           /\ (\E r \in Replica : CancelTakeover(r))
                           /\ UNCHANGED <<consumerVars, faultVars>>)
  /\ WF_orchestratorVars(\E o \in DOMAIN submissions : MCLaunch(o))
  /\ \A t \in 1..MaxSubmissions :
       WF_orchestratorVars(t \in DOMAIN task /\ Stops /\ Killed(t) /\ OnlyTasksChange)

MCFairSpec == MCSpec /\ MCFairness

EverySubmissionSettled == \A o \in 1..MaxSubmissions : EverySubmissionSettles(o)

EveryStopRequestObeyed ==
  \A c \in 1..MaxCancellations : \A t \in 1..MaxSubmissions : RequestObeyed(c, t)
=============================================================================
