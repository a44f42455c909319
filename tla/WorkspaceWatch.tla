----------------------------- MODULE WorkspaceWatch -----------------------------
(***************************************************************************)
(* The watch of a workspace: a goroutine that works through the open items *)
(* of the workspace, one by one, each by a prompt to the app server        *)
(* (src/internal/web/workspace_watch.go), as a watch or as a batch with an *)
(* end and perhaps a limit (chat_batch.go).                                *)
(*                                                                         *)
(* Whether it should run is a row of the store, which the goroutine itself *)
(* writes as well as the commands; whether it runs is a handle in the      *)
(* tracker.  A reconciler compares the two every two seconds, and at once  *)
(* after a start.  A crash loses the handle and the goroutines and keeps   *)
(* the store.                                                              *)
(*                                                                         *)
(* There is one workspace, its items all match the filter of a batch, and  *)
(* the store does not fail.  A limit is a limit of one item.  A watch that *)
(* waits may go on at any time, so the channel that wakes it is left out.  *)
(* An item that has left the inbox does not come back.                     *)
(***************************************************************************)
EXTENDS Naturals, FiniteSets

CONSTANTS Items,       \* the items that may turn up in the inbox
          Handlers,    \* HTTP requests and chat actions under way at a time
          MaxCommands, \* bound: commands given
          MaxBatches,  \* bound: rows of batch_runs
          MaxCrashes,  \* bound: crashes
          NoItem

VARIABLES row,     \* the workspace_watches row
          handle,  \* the workspaceWatchHandle in the tracker
          loop,    \* the goroutine of runWorkspaceWatchLoop and its locals
          ticker,  \* the goroutine of the reconciler: "idle" or what it listed
          handler, \* handler[h]: the locals of a command
          run,     \* run[b]: the rows of batch_runs
          did,     \* did[b][i]: the rows of batch_run_items
          item,    \* item[i]: where the item is
          wanted,  \* FALSE from a stop by a user to the next start
          spent    \* commands given and crashes

vars == <<row, handle, loop, ticker, handler, run, did, item, wanted, spent>>
goroutines == <<loop, ticker, handler>>
batches == <<run, did>>

Batches == 1..MaxBatches
Modes == {"watch", "all", "limited"}   \* a watch, a batch, a batch with a limit
Row == [enabled : BOOLEAN, batch : 0..MaxBatches, mode : Modes]
NoRow == [enabled |-> FALSE, batch |-> 0, mode |-> "watch"]
NoHandle == [on |-> FALSE, stop |-> FALSE]
NewLoop == [pc |-> "none", row |-> NoRow, item |-> NoItem, disable |-> FALSE]
NewHandler == [pc |-> "idle", row |-> NoRow]

Init ==
  /\ row = NoRow /\ handle = NoHandle
  /\ loop = NewLoop /\ ticker = "idle"
  /\ handler = [h \in Handlers |-> NewHandler]
  /\ run = [b \in Batches |-> "none"]
  /\ did = [b \in Batches |-> [i \in Items |-> "none"]]
  /\ item = [i \in Items |-> "absent"]
  /\ wanted = FALSE /\ spent = [commands |-> 0, crashes |-> 0]

Inbox == {i \in Items : item[i] = "inbox"}
NextBatch(b) == run[b] = "none" /\ \A c \in Batches : c < b => run[c] # "none"
Counted(b) == {i \in Items : did[b][i] \in {"completed", "failed"}}

-----------------------------------------------------------------------------
(* The tracker and the reconciler.                                         *)

StopRequested == [handle EXCEPT !.stop = handle.on]   \* requestStop

LaunchesUntracked(enabled) ==
  IF ~enabled THEN handle' = StopRequested /\ loop' = loop
  ELSE IF handle.on THEN UNCHANGED <<handle, loop>>
  ELSE handle' = handle /\ loop' = [NewLoop EXCEPT !.pc = "top"]

\* What a reconciler does with the row it has read: stop what is not enabled,
\* wake or launch what is.
Reconcile(enabled) ==
  IF ~enabled THEN handle' = StopRequested /\ loop' = loop
  ELSE IF handle.on THEN UNCHANGED <<handle, loop>>
  ELSE handle' = [NoHandle EXCEPT !.on = TRUE] /\ loop' = [NewLoop EXCEPT !.pc = "top"]

Tick ==
  /\ ticker = "idle"
  /\ ticker' = IF row.enabled THEN "enabled" ELSE "disabled"
  /\ UNCHANGED <<row, handle, loop, handler, batches, item, wanted, spent>>
TickReconcile ==
  /\ ticker # "idle" /\ ticker' = "idle"
  /\ Reconcile(ticker = "enabled")
  /\ UNCHANGED <<row, handler, batches, item, wanted, spent>>

-----------------------------------------------------------------------------
(* runWorkspaceWatchLoop.                                                  *)

At(p) == loop.pc = p
Goto(p) == loop' = [loop EXCEPT !.pc = p]
Leave(p) == loop' = [NewLoop EXCEPT !.pc = p]   \* with no local that is used again
LoopOnly == UNCHANGED <<row, handle, ticker, handler, batches, item, wanted, spent>>

ReadRow ==
  /\ At("top")
  /\ loop' = IF row.enabled \/ handle.stop THEN [loop EXCEPT !.pc = "ensure", !.row = row]
             ELSE [loop EXCEPT !.pc = "exit"]
  /\ LoopOnly

\* ensureWorkspaceWatchBatch: a batch that is not finished is gone on with ...
KeepBatch ==
  /\ At("ensure") /\ loop.row.batch # 0 /\ run[loop.row.batch] = "running"
  /\ Goto("limit") /\ LoopOnly
NewBatch ==
  /\ At("ensure") /\ ~(loop.row.batch # 0 /\ run[loop.row.batch] = "running")
  /\ \E b \in Batches :
       /\ NextBatch(b)
       /\ run' = [run EXCEPT ![b] = "running"]
       /\ loop' = [loop EXCEPT !.pc = "attach", !.row.batch = b]
  /\ UNCHANGED <<row, handle, ticker, handler, did, item, wanted, spent>>

\* ... or else the whole row is written as it was read, with a new batch, and read
\* again, by when a start may have taken the batch from it; the mode stays.
AttachBatch ==
  /\ At("attach")
  /\ row' = loop.row
  /\ Goto("attached")
  /\ UNCHANGED <<handle, ticker, handler, batches, item, wanted, spent>>
ReadAttached ==
  /\ At("attached")
  /\ loop' = [loop EXCEPT !.pc = "limit", !.row = [row EXCEPT !.mode = loop.row.mode]]
  /\ LoopOnly

\* workspaceWatchLimitReached, before and after an item.
LimitReached ==
  loop.row.mode = "limited" /\ loop.row.batch # 0 /\ Counted(loop.row.batch) # {}
Finish(disables) ==
  loop' = [loop EXCEPT !.pc = "finish", !.item = NoItem, !.disable = disables]
CheckLimit ==
  /\ At("limit")
  /\ IF LimitReached THEN Finish(TRUE) ELSE Goto("next")
  /\ LoopOnly

AsRead == ~loop.row.enabled
Stopping == handle.stop \/ ~loop.row.enabled
NextItem ==
  /\ At("next") /\ Inbox # {}
  /\ \E i \in Inbox : loop' = [loop EXCEPT !.pc = "mark", !.item = i]
  /\ LoopOnly
NoNextItem ==
  /\ At("next") /\ Inbox = {}
  /\ IF loop.row.mode # "watch" THEN Finish(TRUE)
     ELSE IF Stopping THEN Finish(FALSE)
     ELSE Leave("wait")
  /\ LoopOnly

\* waitWorkspaceWatch: the poll interval is over, or somebody wakes the watch before.
Wait == At("wait") /\ Leave("top") /\ LoopOnly

\* processWorkspaceWatchIteration.  Without a batch nothing is noted.
Note(status) ==
  did' = [b \in Batches |-> IF b # loop.row.batch THEN did[b]
                            ELSE [did[b] EXCEPT ![loop.item] = status]]
MarkRunning ==
  /\ At("mark") /\ Note("running") /\ Goto("work")
  /\ UNCHANGED <<row, handle, ticker, handler, run, item, wanted, spent>>
NotedAtOnce ==
  /\ At("work")
  /\ \/ Note("completed") /\ Goto("triage")
     \/ did' = did /\ Goto("failed")
  /\ UNCHANGED <<row, handle, ticker, handler, run, item, wanted, spent>>
Work ==
  /\ At("work")
  /\ Goto("triage") \/ Goto("failed")
  /\ LoopOnly
NoteFailed ==
  /\ At("failed") /\ Note("failed") /\ Goto("later")
  /\ UNCHANGED <<row, handle, ticker, handler, run, item, wanted, spent>>

\* An item that somebody else has done cannot be triaged; done by the watch it is
\* noted after it is triaged.
Triage(to) == item' = [item EXCEPT ![loop.item] = IF @ = "done" THEN "done" ELSE to]
TriageLater ==
  /\ At("later") /\ Triage("deferred") /\ Goto("after")
  /\ UNCHANGED <<row, handle, ticker, handler, batches, wanted, spent>>
TriageDone ==
  /\ At("triage") /\ Triage("done")
  /\ Goto(IF item[loop.item] = "done" THEN "after" ELSE "note")
  /\ UNCHANGED <<row, handle, ticker, handler, batches, wanted, spent>>
NoteCompleted ==
  /\ At("note") /\ Note("completed") /\ Goto("after")
  /\ UNCHANGED <<row, handle, ticker, handler, run, item, wanted, spent>>

AfterItem ==
  /\ At("after")
  /\ IF LimitReached THEN Finish(TRUE)
     ELSE IF Stopping THEN Finish(FALSE)
     ELSE Leave("top")
  /\ LoopOnly

FinishBatch ==
  /\ At("finish")
  /\ run' = [b \in Batches |-> IF b = loop.row.batch THEN "completed" ELSE run[b]]
  /\ Leave(IF loop.disable THEN "disable" ELSE "exit")
  /\ UNCHANGED <<row, handle, ticker, handler, did, item, wanted, spent>>
Disable ==
  /\ At("disable")
  /\ row' = [row EXCEPT !.enabled = FALSE]
  /\ Goto("exit")
  /\ UNCHANGED <<handle, ticker, handler, batches, item, wanted, spent>>

\* The deferred finish of the tracker.
LeftBehind == handle
Finished == NoHandle
Exit ==
  /\ At("exit")
  /\ handle' = Finished /\ loop' = NewLoop
  /\ UNCHANGED <<row, ticker, handler, batches, item, wanted, spent>>

-----------------------------------------------------------------------------
(* The commands: HTTP requests and chat actions, which read and write the  *)
(* row and then ask the tracker, and the tools of the MCP server, which    *)
(* only write the row.                                                     *)

Idle(h) == handler[h].pc = "idle" /\ spent.commands < MaxCommands
Spend == spent' = [spent EXCEPT !.commands = @ + 1]
Enter(h, p, r) == handler' = [handler EXCEPT ![h] = [pc |-> p, row |-> r]]
Asked(h, p) == handler[h].pc = p

Start(h) ==
  /\ Idle(h) /\ Spend
  /\ row' = [enabled |-> TRUE, batch |-> 0, mode |-> "watch"] /\ wanted' = TRUE
  /\ Enter(h, "list", NoRow)
  /\ UNCHANGED <<handle, loop, ticker, batches, item>>
Stop(h) ==
  /\ Idle(h) /\ Spend
  /\ row' = [row EXCEPT !.enabled = FALSE] /\ wanted' = FALSE
  /\ Enter(h, "ask", NoRow)
  /\ UNCHANGED <<handle, loop, ticker, batches, item>>
RequestStop(h) ==
  /\ Asked(h, "ask")
  /\ handle' = StopRequested
  /\ Enter(h, "idle", NoRow)
  /\ UNCHANGED <<row, loop, ticker, batches, item, wanted, spent>>

\* batch_limit, and batch_configure and review_policy, which keep the mode: the
\* row is written with what it said when it was read.
Load(h, modes) ==
  /\ Idle(h) /\ Spend
  /\ \E mode \in modes : Enter(h, "save", [row EXCEPT !.mode = mode])
  /\ UNCHANGED <<row, handle, loop, ticker, batches, item, wanted>>
BatchLimit(h) == Load(h, {"limited"})
BatchConfigure(h) == Load(h, {row.mode})
Save(h) ==
  /\ Asked(h, "save")
  /\ row' = handler[h].row
  /\ Enter(h, IF handler[h].row.enabled THEN "list" ELSE "idle", NoRow)
  /\ UNCHANGED <<handle, loop, ticker, batches, item, wanted, spent>>

\* batch_work: refused while the tracker has a handle, or when there is nothing to
\* do.  Its reads of the configuration, the handle and the candidates (in this order)
\* are one step here; what they read may be stale by the steps that use it.
BatchWork(h) ==
  /\ Idle(h) /\ Spend
  /\ ~handle.on /\ Inbox # {}
  /\ LET mode == IF row.mode = "limited" THEN "limited" ELSE "all"
     IN  Enter(h, "create", [enabled |-> TRUE, batch |-> 0, mode |-> mode])
  /\ UNCHANGED <<row, handle, loop, ticker, batches, item, wanted>>
CreateBatch(h) ==
  /\ Asked(h, "create")
  /\ \E b \in Batches :
       /\ NextBatch(b)
       /\ run' = [run EXCEPT ![b] = "running"]
       /\ Enter(h, "begin", [handler[h].row EXCEPT !.batch = b])
  /\ UNCHANGED <<row, handle, loop, ticker, did, item, wanted, spent>>
BeginBatch(h) ==
  /\ Asked(h, "begin")
  /\ row' = handler[h].row /\ wanted' = TRUE
  /\ Enter(h, "list", NoRow)
  /\ UNCHANGED <<handle, loop, ticker, batches, item, spent>>

\* The reconciler run by a command.
List(h) ==
  /\ Asked(h, "list")
  /\ Enter(h, "reconcile", row)
  /\ UNCHANGED <<row, handle, loop, ticker, batches, item, wanted, spent>>
CommandReconcile(h) ==
  /\ Asked(h, "reconcile")
  /\ Reconcile(handler[h].row.enabled)
  /\ Enter(h, "idle", NoRow)
  /\ UNCHANGED <<row, ticker, batches, item, wanted, spent>>

ToolStart ==
  /\ spent.commands < MaxCommands /\ Spend
  /\ row' = [enabled |-> TRUE, batch |-> 0, mode |-> "watch"] /\ wanted' = TRUE
  /\ UNCHANGED <<handle, goroutines, batches, item>>
ToolStop ==
  /\ spent.commands < MaxCommands /\ Spend
  /\ row' = [row EXCEPT !.enabled = FALSE]
  /\ UNCHANGED <<handle, goroutines, batches, item, wanted>>

-----------------------------------------------------------------------------
(* Items come in and are done by others; the process may crash.            *)

Arrive(i) ==
  /\ item[i] = "absent"
  /\ item' = [item EXCEPT ![i] = "inbox"]
  /\ UNCHANGED <<row, handle, goroutines, batches, wanted, spent>>
DoneByUser(i) ==
  /\ item[i] = "inbox"
  /\ item' = [item EXCEPT ![i] = "done"]
  /\ UNCHANGED <<row, handle, goroutines, batches, wanted, spent>>

Crash ==
  /\ spent.crashes < MaxCrashes
  /\ spent' = [spent EXCEPT !.crashes = @ + 1]
  /\ handle' = NoHandle /\ loop' = NewLoop /\ ticker' = "idle"
  /\ handler' = [h \in Handlers |-> NewHandler]
  /\ UNCHANGED <<row, batches, item, wanted>>

LoopStep ==
  \/ ReadRow \/ KeepBatch \/ NewBatch \/ AttachBatch \/ ReadAttached \/ CheckLimit
  \/ NextItem \/ NoNextItem \/ Wait \/ MarkRunning \/ Work \/ NoteFailed \/ TriageLater
  \/ TriageDone \/ NoteCompleted \/ AfterItem \/ FinishBatch \/ Disable \/ Exit
HandlerStep(h) ==
  \/ RequestStop(h) \/ Save(h) \/ CreateBatch(h) \/ BeginBatch(h)
  \/ List(h) \/ CommandReconcile(h)
Command(h) == Start(h) \/ Stop(h) \/ BatchLimit(h) \/ BatchConfigure(h) \/ BatchWork(h)

Next ==
  \/ LoopStep \/ Tick \/ TickReconcile
  \/ \E h \in Handlers : Command(h) \/ HandlerStep(h)
  \/ ToolStart \/ ToolStop
  \/ \E i \in Items : Arrive(i) \/ DoneByUser(i)
  \/ Crash

Spec == Init /\ [][Next]_vars

\* The goroutines run, a prompt has a timeout, and the ticker ticks; nobody has to
\* give a command, and no item has to come.
Fairness ==
  /\ WF_vars(LoopStep) /\ WF_vars(Tick) /\ WF_vars(TickReconcile)
  /\ \A h \in Handlers : WF_vars(HandlerStep(h))
FairSpec == Spec /\ Fairness

-----------------------------------------------------------------------------

\* The type of the state; a handle in the tracker has a goroutine that will take it
\* out again, and only a running batch is worked at.
TypeOK ==
  /\ row \in Row
  /\ handle \in [on : BOOLEAN, stop : BOOLEAN]
  /\ loop.pc \in {"none", "top", "ensure", "attach", "attached", "limit", "next", "wait",
                  "mark", "work", "failed", "later", "triage", "note", "after", "finish",
                  "disable", "exit"}
  /\ loop.row \in Row /\ loop.item \in Items \cup {NoItem} /\ loop.disable \in BOOLEAN
  /\ ticker \in {"idle", "enabled", "disabled"}
  /\ \A h \in Handlers : handler[h].row \in Row
  /\ run \in [Batches -> {"none", "running", "completed"}]
  /\ did \in [Batches -> [Items -> {"none", "running", "completed", "failed"}]]
  /\ item \in [Items -> {"absent", "inbox", "done", "deferred"}]
  /\ handle.on <=> loop.pc # "none"

\* An item that a batch has recorded as completed is not begun again, by this batch or
\* a later one, wherever the process crashed: it is taken from the inbox before it is
\* recorded.
CompletedOnce ==
  [][\A i \in Items : (\E b \in Batches : did[b][i] = "completed")
       => \A b \in Batches : did'[b][i] = "running" => did[b][i] = "running"]_vars

\* Who is asked to stop stops, even when the watch is started again in between.
StopEnds == handle.stop ~> ~handle.on

\* A watch that is enabled has a goroutine, also when it was enabled by a tool, while
\* another goroutine was just ending, or before a crash; or it is disabled again.
EnabledIsWatched == row.enabled ~> (loop.pc # "none" \/ ~row.enabled)

\* What a user is told of a stop: the watch ends after the current item.  No item is
\* begun by a goroutine that has not been asked to stop once the stop is answered.
StopIsHeeded ==
  [][/\ loop.pc = "next" /\ loop'.pc = "mark"
     /\ ~wanted /\ \A h \in Handlers : ~Asked(h, "ask")
       => handle.stop]_vars

=============================================================================
