------------------------------- MODULE MCEndings -------------------------------
(***************************************************************************)
(* Two things that are switched off while they work, in one run: the       *)
(* capture of a meeting and the watch of a workspace.  They share no       *)
(* state; a behaviour is one of the first or one of the second, as part    *)
(* says.  The second is an instance of the module of its theorems, so that *)
(* these are theorems about the run (MeetingCaptureProofs).                *)
(***************************************************************************)
EXTENDS MeetingCapture

CONSTANTS Items, Commands, MaxCommands, MaxBatches, MaxCrashes, NoItem

\* Rows of batch_runs are numbered from one.
ASSUME BatchAssumption == MaxBatches \in Nat

VARIABLES part, row, handle, loop, ticker, command, run, did, item, wanted, spent

watchVars == <<row, handle, loop, ticker, command, run, did, item, wanted, spent>>
Watch == INSTANCE WorkspaceWatchProofs WITH Handlers <- Commands, handler <- command

MCInit ==
  /\ part \in {"capture", "watch"}
  /\ Init /\ Watch!Init
  /\ part = "watch" => ~enabled /\ policy = "dialogue"

MCNext ==
  /\ part' = part
  /\ \/ part = "capture" /\ Next /\ UNCHANGED watchVars
     \/ part = "watch" /\ Watch!Next /\ UNCHANGED vars

\* The fairness of each, as its module states it: the ticker ticks where there is one,
\* and nothing else of the part that is not looked at is ever enabled.
MCFairness ==
  /\ Fairness
  /\ WF_watchVars(Watch!LoopStep) /\ WF_watchVars(Watch!TickReconcile)
  /\ WF_watchVars(part = "watch" /\ Watch!Tick)
  /\ \A h \in Commands : WF_watchVars(Watch!HandlerStep(h))

MCSpec == MCInit /\ [][MCNext]_<<part, vars, watchVars>> /\ MCFairness

-----------------------------------------------------------------------------

\* The types of the variables of both; a handle in the tracker has a goroutine.
TypesOK == TypeOK /\ Watch!TypeOK

\* An item that a batch has recorded as completed is not begun again, by this batch or
\* a later one, wherever the process crashed.  (processWorkspaceWatchIteration)
CompletedOnce == Watch!CompletedOnce

\* Who is asked to stop stops, even when the watch is started again in between.
\* (runWorkspaceWatchLoop)
StopEnds == Watch!StopEnds

\* A watch that is enabled has a goroutine in the end, or is disabled again.
\* (reconcileWorkspaceWatches)
EnabledIsWatched == Watch!EnabledIsWatched

=============================================================================
