------------------------- MODULE WorkspaceWatchProofs -------------------------
(***************************************************************************)
(* Proofs about WorkspaceWatch, for any number of items, commands, batches *)
(* and crashes: the tracker has a handle just while there is a goroutine   *)
(* (TypeCorrect), and an item that a batch has recorded as completed is    *)
(* not begun again (NothingTwice).                                         *)
(***************************************************************************)
EXTENDS WorkspaceWatch, TLAPS

\* Rows of batch_runs are numbered from one; 0 stands for no batch.
CountsBatches == MaxBatches \in Nat

-----------------------------------------------------------------------------
(* Types.                                                                  *)

LoopSteps == {"none", "top", "ensure", "attach", "attached", "limit", "next", "wait",
              "mark", "work", "failed", "later", "triage", "note", "after", "finish",
              "disable", "exit"}
Loop == [pc : LoopSteps, row : Row, item : Items \cup {NoItem}, disable : BOOLEAN]
Handler == [pc : {"idle", "list", "ask", "save", "create", "begin", "reconcile"}, row : Row]

\* The type invariant with the whole records of the goroutines.
TypeInv == TypeOK /\ loop \in Loop /\ handler \in [Handlers -> Handler]

\* An empty row and the locals of a goroutine that begins are well typed.
LEMMA NewTyped ==
  ASSUME CountsBatches
  PROVE  NoRow \in Row /\ NewHandler \in Handler /\ \A p \in LoopSteps : [NewLoop EXCEPT !.pc = p] \in Loop
<1>1. NoRow \in Row
  BY DEF CountsBatches, NoRow, Row, Modes
<1> QED
  BY <1>1 DEF NewHandler, Handler, NewLoop, Loop

\* The initial state is well typed.
LEMMA TypeInit ==
  ASSUME CountsBatches, Init
  PROVE  TypeInv
<1>1. NewLoop \in Loop
  BY NewTyped DEF NewLoop, Loop, LoopSteps
<1> QED
  BY <1>1, NewTyped DEF Init, TypeInv, TypeOK, NoHandle, NewLoop, NewHandler, Loop, Handler

\* A reconciler keeps the types of what it changes.
LEMMA TypeReconcile ==
  ASSUME CountsBatches, TypeInv, NEW enabled \in BOOLEAN, Reconcile(enabled)
  PROVE  /\ handle' \in [on : BOOLEAN, stop : BOOLEAN] /\ loop' \in Loop
         /\ handle'.on <=> loop'.pc # "none"
<1>1. CASE ~enabled
  BY <1>1 DEF Reconcile, StopRequested, TypeInv, TypeOK
<1>2. CASE enabled /\ handle.on
  BY <1>2 DEF Reconcile, TypeInv, TypeOK
<1>3. CASE enabled /\ ~handle.on
  BY <1>3, NewTyped DEF Reconcile, NoHandle, NewLoop, LoopSteps
<1> QED
  BY <1>1, <1>2, <1>3

\* Where the goroutine goes its locals are well typed.
LEMMA TypeGoes ==
  ASSUME CountsBatches, TypeInv
  PROVE  /\ \A p \in LoopSteps : Leave(p) \/ Goto(p) => loop' \in Loop /\ loop'.pc = p
         /\ \A disables \in BOOLEAN : Finish(disables) => loop' \in Loop /\ loop'.pc = "finish"
<1>1. \A p \in LoopSteps : Leave(p) => loop' \in Loop /\ loop'.pc = p
  BY NewTyped DEF Leave, NewLoop
<1>2. \A p \in LoopSteps : Goto(p) => loop' \in Loop /\ loop'.pc = p
  BY DEF Goto, TypeInv, Loop
<1>3. \A disables \in BOOLEAN : Finish(disables) => loop' \in Loop /\ loop'.pc = "finish"
  BY DEF Finish, TypeInv, Loop, LoopSteps
<1> QED
  BY <1>1, <1>2, <1>3

\* Steps of the goroutine that change nothing but its locals.
LEMMA TypeLocal ==
  ASSUME CountsBatches, TypeInv,
         ReadRow \/ KeepBatch \/ ReadAttached \/ CheckLimit \/ NextItem \/ NoNextItem
           \/ Wait \/ Work \/ AfterItem
  PROVE  TypeInv'
<1> SUFFICES loop' \in Loop /\ loop'.pc # "none" /\ loop.pc # "none" /\ LoopOnly
  BY DEF LoopOnly, batches, TypeInv, TypeOK, Loop, LoopSteps, Row
<1> USE DEF TypeInv, TypeOK, Loop, LoopSteps, At, Goto
<1>1. CASE ReadRow
  BY <1>1 DEF ReadRow
<1>2. CASE KeepBatch
  BY <1>2 DEF KeepBatch
<1>3. CASE ReadAttached
  <2>1. [row EXCEPT !.mode = loop.row.mode] \in Row
    BY DEF Row
  <2> QED
    BY <1>3, <2>1 DEF ReadAttached
<1>4. CASE CheckLimit
  BY <1>4 DEF CheckLimit, Finish
<1>5. CASE NextItem
  BY <1>5 DEF NextItem, Inbox
<1>6. CASE NoNextItem
  BY <1>6, TypeGoes DEF NoNextItem
<1>7. CASE Wait
  BY <1>7, NewTyped DEF Wait, Leave, NewLoop
<1>8. CASE Work
  BY <1>8 DEF Work
<1>9. CASE AfterItem
  BY <1>9, TypeGoes DEF AfterItem
<1> QED
  BY <1>1, <1>2, <1>3, <1>4, <1>5, <1>6, <1>7, <1>8, <1>9

\* What is noted of an item is well typed.
LEMMA TypeNote ==
  ASSUME TypeInv, NEW status \in {"running", "completed", "failed"}, Note(status)
  PROVE  did' \in [Batches -> [Items -> {"none", "running", "completed", "failed"}]]
BY DEF Note, TypeInv, TypeOK

\* Steps of the goroutine that write: the batch, the row, the item, the tracker.
LEMMA TypeWrite ==
  ASSUME CountsBatches, TypeInv,
         NewBatch \/ AttachBatch \/ MarkRunning \/ NoteFailed \/ TriageLater \/ TriageDone
           \/ NoteCompleted \/ FinishBatch \/ Disable \/ Exit
  PROVE  TypeInv'
<1> USE DEF TypeInv, TypeOK, Loop, LoopSteps, At, Goto
<1>1. CASE NewBatch
  <2>1. PICK b \in Batches :
          /\ run' = [run EXCEPT ![b] = "running"]
          /\ loop' = [loop EXCEPT !.pc = "attach", !.row.batch = b]
    BY <1>1 DEF NewBatch
  <2>2. b \in 0..MaxBatches
    BY DEF Batches, CountsBatches
  <2>3. [loop.row EXCEPT !.batch = b] \in Row
    BY <2>2 DEF Row
  <2>4. loop' \in Loop /\ loop'.pc = "attach"
    BY <2>1, <2>3 DEF Row
  <2> QED
    BY <1>1, <2>1, <2>4 DEF NewBatch
<1>2. CASE AttachBatch
  BY <1>2 DEF AttachBatch, batches
<1>3. CASE MarkRunning
  BY <1>3, TypeNote DEF MarkRunning
<1>4. CASE NoteFailed
  BY <1>4, TypeNote DEF NoteFailed
<1>5. CASE TriageLater
  BY <1>5 DEF TriageLater, Triage, batches
<1>6. CASE TriageDone
  BY <1>6 DEF TriageDone, Triage, batches
<1>7. CASE NoteCompleted
  BY <1>7, TypeNote DEF NoteCompleted
<1>8. CASE FinishBatch
  <2>1. run' \in [Batches -> {"none", "running", "completed"}]
    BY <1>8 DEF FinishBatch
  <2>2. loop' \in Loop /\ loop'.pc # "none"
    BY <1>8, TypeGoes DEF FinishBatch
  <2> QED
    BY <1>8, <2>1, <2>2 DEF FinishBatch
<1>9. CASE Disable
  BY <1>9 DEF Disable, Row, batches
<1>10. CASE Exit
  BY <1>10, NewTyped DEF Exit, Finished, NoHandle, NewLoop, batches
<1> QED
  BY <1>1, <1>2, <1>3, <1>4, <1>5, <1>6, <1>7, <1>8, <1>9, <1>10

\* The commands and their handlers.
LEMMA TypeCommand ==
  ASSUME CountsBatches, TypeInv, NEW h \in Handlers, Command(h) \/ HandlerStep(h)
  PROVE  TypeInv'
<1> USE DEF TypeInv, TypeOK, Enter, Asked, Idle, batches
<1>r. NoRow \in Row /\ 0 \in 0..MaxBatches
  BY NewTyped DEF CountsBatches
<1>h. \A p \in {"idle", "list", "ask", "save", "create", "begin", "reconcile"}, r \in Row :
        Enter(h, p, r) => handler' \in [Handlers -> Handler]
  BY DEF Handler
<1>k. ASSUME UNCHANGED <<handle, loop, ticker, batches, item>>, row' \in Row,
             handler' \in [Handlers -> Handler]
      PROVE  TypeInv'
  BY <1>k DEF Handler
<1>1. CASE Start(h)
  <2>1. row' \in Row
    BY <1>1, <1>r DEF Start, Row, Modes
  <2> QED
    BY <1>1, <2>1, <1>r, <1>h, <1>k DEF Start
<1>2. CASE Stop(h)
  <2>1. row' \in Row
    BY <1>2 DEF Stop, Row
  <2> QED
    BY <1>2, <2>1, <1>r, <1>h, <1>k DEF Stop
<1>3. ASSUME NEW modes \in SUBSET Modes, Load(h, modes)
      PROVE  TypeInv'
  <2>1. PICK mode \in modes : Enter(h, "save", [row EXCEPT !.mode = mode])
    BY <1>3 DEF Load
  <2>2. [row EXCEPT !.mode = mode] \in Row
    BY DEF Row
  <2> QED
    BY <1>3, <2>1, <2>2, <1>h, <1>k DEF Load
<1>4. CASE BatchLimit(h) \/ BatchConfigure(h)
  <2>1. {"limited"} \in SUBSET Modes /\ {row.mode} \in SUBSET Modes
    BY DEF Modes, Row
  <2> QED
    BY <1>4, <1>3, <2>1 DEF BatchLimit, BatchConfigure
<1>5. CASE BatchWork(h)
  <2> DEFINE r == [enabled |-> TRUE, batch |-> 0,
                   mode |-> IF row.mode = "limited" THEN "limited" ELSE "all"]
  <2>1. r \in Row
    BY <1>r DEF Row, Modes
  <2>2. Enter(h, "create", r)
    BY <1>5 DEF BatchWork
  <2>3. handler' \in [Handlers -> Handler]
    BY <2>1, <2>2, <1>h
  <2> QED
    BY <1>5, <2>3, <1>k DEF BatchWork
<1>6. CASE RequestStop(h)
  <2>1. handler' \in [Handlers -> Handler]
    BY <1>6, <1>r, <1>h DEF RequestStop
  <2> QED
    BY <1>6, <2>1 DEF RequestStop, StopRequested, Handler
<1>7. CASE Save(h)
  <2>1. row' \in Row
    BY <1>7 DEF Save, Handler
  <2>2. handler' \in [Handlers -> Handler]
    BY <1>7, <1>r, <1>h DEF Save
  <2> QED
    BY <1>7, <2>1, <2>2, <1>k DEF Save
<1>8. CASE CreateBatch(h)
  <2>1. PICK b \in Batches :
          /\ run' = [run EXCEPT ![b] = "running"]
          /\ Enter(h, "begin", [handler[h].row EXCEPT !.batch = b])
    BY <1>8 DEF CreateBatch
  <2>2. [handler[h].row EXCEPT !.batch = b] \in Row
    <3>1. handler[h].row \in Row /\ b \in 0..MaxBatches
      BY DEF Handler, Batches, CountsBatches
    <3> QED
      BY <3>1 DEF Row
  <2>3. handler' \in [Handlers -> Handler]
    BY <2>1, <2>2, <1>h
  <2> QED
    BY <1>8, <2>1, <2>3 DEF CreateBatch, Handler
<1>9. CASE BeginBatch(h)
  <2>1. row' \in Row
    BY <1>9 DEF BeginBatch, Handler
  <2> QED
    BY <1>9, <2>1, <1>r, <1>h, <1>k DEF BeginBatch
<1>10. CASE List(h)
  BY <1>10, <1>h, <1>k DEF List
<1>11. CASE CommandReconcile(h)
  <2>1. handler[h].row.enabled \in BOOLEAN
    BY DEF Handler, Row
  <2>2. /\ handle' \in [on : BOOLEAN, stop : BOOLEAN] /\ loop' \in Loop
        /\ handle'.on <=> loop'.pc # "none"
    BY <1>11, <2>1, TypeReconcile DEF CommandReconcile
  <2>3. handler' \in [Handlers -> Handler]
    BY <1>11, <1>r, <1>h DEF CommandReconcile
  <2> QED
    BY <1>11, <2>2, <2>3 DEF CommandReconcile, Loop, LoopSteps, Handler
<1> QED
  BY <1>1, <1>2, <1>4, <1>5, <1>6, <1>7, <1>8, <1>9, <1>10, <1>11 DEF Command, HandlerStep

\* Every step keeps the types.
LEMMA TypeStep ==
  ASSUME CountsBatches, TypeInv, [Next]_vars
  PROVE  TypeInv'
<1>1. CASE UNCHANGED vars
  BY <1>1 DEF vars, TypeInv, TypeOK, Loop, Handler
<1>2. CASE LoopStep
  BY <1>2, TypeLocal, TypeWrite DEF LoopStep
<1>3. CASE Tick
  BY <1>3 DEF Tick, batches, TypeInv, TypeOK, Loop, Handler
<1>4. CASE TickReconcile
  <2>1. /\ handle' \in [on : BOOLEAN, stop : BOOLEAN] /\ loop' \in Loop
        /\ handle'.on <=> loop'.pc # "none"
    BY <1>4, TypeReconcile DEF TickReconcile
  <2> QED
    BY <1>4, <2>1 DEF TickReconcile, batches, TypeInv, TypeOK, Loop, LoopSteps, Handler
<1>5. ASSUME NEW h \in Handlers, Command(h) \/ HandlerStep(h)
      PROVE  TypeInv'
  BY <1>5, TypeCommand
<1>6. CASE ToolStart \/ ToolStop
  <2>1. row' \in Row
    <3>1. row \in Row /\ 0 \in 0..MaxBatches
      BY DEF TypeInv, TypeOK, CountsBatches
    <3>2. CASE ToolStart
      BY <3>1, <3>2 DEF ToolStart, Row, Modes
    <3>3. CASE ToolStop
      BY <3>1, <3>3 DEF ToolStop, Row
    <3> QED
      BY <1>6, <3>2, <3>3
  <2> QED
    BY <1>6, <2>1 DEF ToolStart, ToolStop, goroutines, batches, TypeInv, TypeOK, Loop, Handler
<1>7. ASSUME NEW i \in Items, Arrive(i) \/ DoneByUser(i)
      PROVE  TypeInv'
  BY <1>7 DEF Arrive, DoneByUser, goroutines, batches, TypeInv, TypeOK, Loop, Handler
<1>8. CASE Crash
  BY <1>8, NewTyped DEF Crash, batches, NoHandle, NewLoop, TypeInv, TypeOK, Loop, LoopSteps, Handler
<1> QED
  BY <1>1, <1>2, <1>3, <1>4, <1>5, <1>6, <1>7, <1>8 DEF Next

\* The state is well typed, and the tracker has a handle just while there is a
\* goroutine that will take it out again.  (workspaceWatchTracker)
THEOREM TypeCorrect ==
  ASSUME CountsBatches
  PROVE  Spec => []TypeOK
<1>1. Init => TypeInv
  BY TypeInit
<1>2. TypeInv /\ [Next]_vars => TypeInv'
  BY TypeStep
<1>3. TypeInv => TypeOK
  BY DEF TypeInv
<1> QED
  BY <1>1, <1>2, <1>3, PTL DEF Spec

-----------------------------------------------------------------------------
(* Nothing is done twice.                                                  *)

\* What is recorded as completed was taken from the inbox before: an item is in the
\* inbox when it is chosen, and no batch has recorded it until it is marked.
NotedInv ==
  /\ \A b \in Batches, i \in Items : did[b][i] = "completed" => item[i] = "done"
  /\ \A i \in Items :
       loop.item = i => /\ At("note") => item[i] = "done"
                        /\ At("mark") => \A b \in Batches : did[b][i] # "completed"

\* Nothing is recorded at first.
LEMMA NotedInit == Init => NotedInv
BY DEF Init, NotedInv, NewLoop, At

\* An item that is done stays done, whoever changes items.
LEMMA DoneStays ==
  ASSUME TypeInv, [Next]_vars
  PROVE  \A i \in Items : item[i] = "done" => item'[i] = "done"
<1>1. CASE UNCHANGED item
  BY <1>1
<1>2. CASE TriageLater \/ TriageDone
  BY <1>2 DEF TriageLater, TriageDone, Triage, TypeInv, TypeOK
<1>3. ASSUME NEW i \in Items, Arrive(i) \/ DoneByUser(i)
      PROVE  \A j \in Items : item[j] = "done" => item'[j] = "done"
  BY <1>3 DEF Arrive, DoneByUser, TypeInv, TypeOK
<1>4. CASE LoopStep /\ ~TriageLater /\ ~TriageDone
  BY <1>1, <1>4 DEF LoopStep, LoopOnly, ReadRow, KeepBatch, NewBatch, AttachBatch, ReadAttached,
     CheckLimit, NextItem, NoNextItem, Wait, MarkRunning, Work, NoteFailed, NoteCompleted,
     AfterItem, FinishBatch, Disable, Exit
<1>5. ASSUME NEW h \in Handlers, Command(h) \/ HandlerStep(h)
      PROVE  UNCHANGED item
  BY <1>5 DEF Command, HandlerStep, Start, Stop, BatchLimit, BatchConfigure, Load, BatchWork,
     RequestStop, Save, CreateBatch, BeginBatch, List, CommandReconcile
<1>6. CASE Tick \/ TickReconcile \/ ToolStart \/ ToolStop \/ Crash
  BY <1>1, <1>6 DEF Tick, TickReconcile, ToolStart, ToolStop, Crash
<1> QED
  BY <1>1, <1>2, <1>3, <1>4, <1>5, <1>6 DEF Next, vars

\* Batches record an item at three steps, and begin one at the first only.
LEMMA Records ==
  ASSUME TypeInv, [Next]_vars
  PROVE  \/ UNCHANGED did
         \/ MarkRunning \/ NoteFailed \/ NoteCompleted
<1>1. CASE LoopStep
  BY <1>1 DEF LoopStep, LoopOnly, batches, ReadRow, KeepBatch, NewBatch, AttachBatch, ReadAttached,
     CheckLimit, NextItem, NoNextItem, Wait, Work, TriageLater, TriageDone, AfterItem,
     FinishBatch, Disable, Exit
<1>2. ASSUME NEW h \in Handlers, Command(h) \/ HandlerStep(h)
      PROVE  UNCHANGED did
  BY <1>2 DEF Command, HandlerStep, Start, Stop, BatchLimit, BatchConfigure, Load, BatchWork,
     RequestStop, Save, CreateBatch, BeginBatch, List, CommandReconcile, batches
<1>3. CASE \/ Tick \/ TickReconcile \/ ToolStart \/ ToolStop \/ Crash
           \/ \E i \in Items : Arrive(i) \/ DoneByUser(i)
  BY <1>3 DEF Tick, TickReconcile, ToolStart, ToolStop, Crash, Arrive, DoneByUser, batches
<1> QED
  BY <1>1, <1>2, <1>3 DEF Next, vars

\* The goroutine comes to the marking of an item, and to the recording of its
\* completion, at one step each.
LEMMA Comes ==
  ASSUME TypeInv, [Next]_vars
  PROVE  /\ At("mark")' => NextItem \/ loop' = loop
         /\ At("note")' => TriageDone \/ loop' = loop
<1> USE DEF At, Goto, TypeInv, Loop
<1>1. CASE LoopStep
  <2>1. CASE ReadRow \/ KeepBatch \/ NewBatch \/ AttachBatch \/ ReadAttached \/ CheckLimit
    BY <2>1 DEF ReadRow, KeepBatch, NewBatch, AttachBatch, ReadAttached, CheckLimit, Finish
  <2>2. CASE NextItem
    BY <2>2 DEF NextItem
  <2>3. CASE NoNextItem \/ Wait \/ AfterItem \/ FinishBatch
    BY <2>3 DEF NoNextItem, Wait, AfterItem, FinishBatch, Finish, Leave, NewLoop
  <2>4. CASE MarkRunning \/ Work \/ NoteFailed \/ TriageLater \/ TriageDone \/ NoteCompleted
    BY <2>4 DEF MarkRunning, Work, NoteFailed, TriageLater, TriageDone, NoteCompleted
  <2>5. CASE Disable \/ Exit
    BY <2>5 DEF Disable, Exit, NewLoop
  <2> QED
    BY <1>1, <2>1, <2>2, <2>3, <2>4, <2>5 DEF LoopStep
<1>2. ASSUME NEW h \in Handlers, Command(h) \/ HandlerStep(h)
      PROVE  loop' = loop \/ loop'.pc = "top"
  BY <1>2 DEF Command, HandlerStep, Start, Stop, BatchLimit, BatchConfigure, Load, BatchWork,
     RequestStop, Save, CreateBatch, BeginBatch, List, CommandReconcile, Reconcile, NewLoop
<1>3. CASE Tick \/ TickReconcile \/ ToolStart \/ ToolStop \/ Crash
  BY <1>3 DEF Tick, TickReconcile, Reconcile, NewLoop, ToolStart, ToolStop, Crash, goroutines
<1>4. CASE \E i \in Items : Arrive(i) \/ DoneByUser(i)
  BY <1>4 DEF Arrive, DoneByUser, goroutines
<1> QED
  BY <1>1, <1>2, <1>3, <1>4 DEF Next, vars

\* Every step keeps what is known of the records.
LEMMA NotedStep ==
  ASSUME TypeInv, NotedInv, [Next]_vars
  PROVE  NotedInv'
<1>1. ASSUME NEW b \in Batches, NEW i \in Items, did'[b][i] = "completed"
      PROVE  item'[i] = "done"
  <2>1. did[b][i] = "completed" \/ (At("note") /\ loop.item = i)
    <3>1. CASE MarkRunning \/ NoteFailed
      BY <1>1, <3>1 DEF MarkRunning, NoteFailed, Note, TypeInv, TypeOK
    <3>2. CASE NoteCompleted
      BY <1>1, <3>2 DEF NoteCompleted, Note, TypeInv, TypeOK
    <3> QED
      BY <1>1, <3>1, <3>2, Records
  <2> QED
    BY <2>1, DoneStays DEF NotedInv
<1>2. ASSUME NEW i \in Items, loop'.item = i, At("note")'
      PROVE  item'[i] = "done"
  <2>1. CASE TriageDone
    BY <1>2, <2>1 DEF TriageDone, Triage, Goto, At, TypeInv, TypeOK, Loop
  <2>2. CASE loop' = loop
    BY <1>2, <2>2, DoneStays DEF NotedInv, At
  <2> QED
    BY <1>2, <2>1, <2>2, Comes
<1>3. ASSUME NEW i \in Items, loop'.item = i, At("mark")', NEW b \in Batches
      PROVE  did'[b][i] # "completed"
  <2>1. CASE NextItem
    <3>1. item[i] = "inbox" /\ did' = did
      BY <1>3, <2>1 DEF NextItem, Inbox, LoopOnly, batches, TypeInv, Loop
    <3> QED
      BY <3>1 DEF NotedInv
  <2>2. CASE loop' = loop
    <3>1. ~MarkRunning /\ ~NoteFailed /\ ~NoteCompleted
      BY <1>3, <2>2 DEF At, MarkRunning, NoteFailed, NoteCompleted, Goto, TypeInv, Loop
    <3> QED
      BY <1>3, <2>2, <3>1, Records DEF NotedInv, At
  <2> QED
    BY <1>3, <2>1, <2>2, Comes
<1> QED
  BY <1>1, <1>2, <1>3 DEF NotedInv, At

\* An item that a batch has recorded as completed is not begun again, by this batch or
\* a later one, whatever commands come and wherever the process crashes.
\* (processWorkspaceWatchIteration)
THEOREM NothingTwice ==
  ASSUME CountsBatches
  PROVE  Spec => CompletedOnce
<1> DEFINE Once == \A i \in Items : (\E b \in Batches : did[b][i] = "completed")
                     => \A b \in Batches : did'[b][i] = "running" => did[b][i] = "running"
<1>1. Init => TypeInv /\ NotedInv
  BY TypeInit, NotedInit
<1>2. TypeInv /\ NotedInv /\ [Next]_vars => (TypeInv /\ NotedInv)'
  BY TypeStep, NotedStep
<1>3. TypeInv /\ NotedInv /\ [Next]_vars => [Once]_vars
  <2> SUFFICES ASSUME TypeInv, NotedInv, [Next]_vars,
                      NEW i \in Items, \E b \in Batches : did[b][i] = "completed",
                      NEW b \in Batches, did'[b][i] = "running"
               PROVE  did[b][i] = "running"
    OBVIOUS
  <2>1. CASE UNCHANGED did
    BY <2>1
  <2>2. CASE MarkRunning
    <3>1. loop.item # i
      BY <2>2 DEF MarkRunning, NotedInv
    <3> QED
      BY <2>2, <3>1 DEF MarkRunning, Note, TypeInv, TypeOK
  <2>3. CASE NoteFailed \/ NoteCompleted
    BY <2>3 DEF NoteFailed, NoteCompleted, Note, TypeInv, TypeOK
  <2> QED
    BY <2>1, <2>2, <2>3, Records
<1>4. (Spec => [][Once]_vars) => (Spec => CompletedOnce)
  BY DEF CompletedOnce
<1> QED
  BY <1>1, <1>2, <1>3, <1>4, PTL DEF Spec

=============================================================================
