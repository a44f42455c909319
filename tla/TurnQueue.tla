------------------------------ MODULE TurnQueue ------------------------------
(***************************************************************************)
(* The chat turn queue of the slopshell server                             *)
(* (src/internal/web/chat_queue.go): the chatTurnTracker, the one worker   *)
(* goroutine per session that runs its turns, the cancel and /stop         *)
(* commands that cancel and drain, and App.Shutdown.                       *)
(*                                                                         *)
(* One action is one critical section of chatTurnTracker.mu (or one read   *)
(* of the shutdown context) with the local code up to the next one.        *)
(*                                                                         *)
(* A turn is named by the user message it answers.  A worker goroutine is  *)
(* named by the turn whose enqueue started it: enqueue returns startWorker *)
(* for at most one turn per worker, so wpc[t] is the program counter of    *)
(* the goroutine t started, "none" if t started none.                      *)
(***************************************************************************)
EXTENDS Naturals, Sequences, FiniteSets

CONSTANTS Sessions,     \* chat sessions
          Turns,        \* user messages that ask for a turn
          Clients,      \* goroutines that run the cancel endpoint, /stop, ...
          SessionOf,    \* the session of a turn
          Modes,        \* output modes
          ModeOf,       \* the output mode a turn is submitted with
          DefaultMode,  \* turnOutputModeVoice, for a missing entry
          NoTurn        \* messageID 0, or no entry in the active map

ASSUME SessionOfAssumption == SessionOf \in [Turns -> Sessions]
ASSUME ModeAssumption == ModeOf \in [Turns -> Modes] /\ DefaultMode \in Modes
ASSUME NoTurnAssumption == NoTurn \notin Turns

VARIABLES
  active,      \* active[s]: the registered turn of s, or NoTurn
  canceling,   \* canceling[s]: the canceling flag of the active entry
  queue,       \* queue[s]: the counter of queued turns
  messageID,   \* messageID[s]: one of the six parallel option lists
  outputMode,  \* outputMode[s]: another one
  worker,      \* worker[s]: the flag that a worker exists
  wpc,         \* program counter of the worker goroutine
  wturn,       \* the turn the worker holds
  cancelled,   \* turns whose context was cancelled
  outcome,     \* what became of a turn
  runMode,     \* the output mode a turn was dequeued with
  client,      \* the goroutine that cancels the work of a session
  shut         \* how far App.Shutdown got

tracker == <<active, canceling, queue, messageID, outputMode, worker>>
vars == <<active, canceling, queue, messageID, outputMode, worker,
          wpc, wturn, cancelled, outcome, runMode, client, shut>>

WorkerPc == {"none", "spawn", "top", "take", "idle", "check", "turn", "run",
             "finish", "done"}
Ended == {"ended", "cancelled", "cleared", "dropped"}
Outcome == {"new", "accepted", "queued", "taken"} \cup Ended
ClientPc == {"idle", "clear", "drainActive", "drainQueued"}
Reply == {"none", "nothing"}
ShutPc == {"open", "requested", "draining", "quiet", "timedout", "closed",
           "closedBusy"}

Client == [pc : ClientPc, session : Sessions, waits : BOOLEAN,
           any : BOOLEAN, held : SUBSET Turns, reply : Reply]

\* A worker goroutine exists, or the enqueuer is about to start it.
Live(w) == wpc[w] \notin {"none", "done"}
WorkersOf(s) == {w \in Turns : SessionOf[w] = s /\ Live(w)}
\* The goroutine is between its dequeue and the return of runAssistantTurn.
Holding(w) == wpc[w] \in {"check", "turn", "run", "finish"}
HeldBy(s) == {wturn[w] : w \in {v \in WorkersOf(s) : Holding(v)}}

\* The turn's goroutine runs after the WaitGroup's Add and before its Done.
Counted(w) == wpc[w] \notin {"none", "spawn", "done"}

shutdownRequested == shut # "open"
storeOpen == shut \notin {"closed", "closedBusy"}

\* What the critical sections test and compute.  Each is preceded by the
\* deviation that a run must detect (see the mutants of PROJECT.json).
ClaimsAlways(s) == TRUE
ClaimsWorker(s) == ~worker[s]
AnyTime(s) == TRUE
HasQueued(s) == queue[s] > 0
QueueEmpty(s) == queue[s] = 0
NeverOwns(w) == FALSE
OwnsEntry(w) == active[SessionOf[w]] = wturn[w]
NeverStops(w) == FALSE
StopsAtTop(w) == shutdownRequested
MarksOnly(s) == {}
ContextOf(s) == {active[s]} \ {NoTurn}
Entries(list) == {list[i] : i \in 1..Len(list)}
LastOr(list, default) == IF list = <<>> THEN default ELSE list[Len(list)]
FirstOr(list, default) == IF list = <<>> THEN default ELSE Head(list)
RestOf(list) == IF list = <<>> THEN <<>> ELSE Tail(list)
KeepModes(s) == outputMode[s]
RestOfModes(s) == IF queue[s] = 1 THEN <<>> ELSE RestOf(outputMode[s])

Init ==
  /\ active = [s \in Sessions |-> NoTurn]
  /\ canceling = [s \in Sessions |-> FALSE]
  /\ queue = [s \in Sessions |-> 0]
  /\ messageID = [s \in Sessions |-> <<>>]
  /\ outputMode = [s \in Sessions |-> <<>>]
  /\ worker = [s \in Sessions |-> FALSE]
  /\ wpc = [t \in Turns |-> "none"]
  /\ wturn = [t \in Turns |-> NoTurn]
  /\ cancelled = {}
  /\ outcome = [t \in Turns |-> "new"]
  /\ runMode = ModeOf
  /\ client \in [Clients -> [pc : {"idle"}, session : Sessions, waits : {FALSE},
                             any : {FALSE}, held : {{}}, reply : {"none"}]]
  /\ shut = "open"

-----------------------------------------------------------------------------
(* The handlers that ask for a turn.                                       *)

\* The user message is stored; a closed store refuses it.
AddChatMessage(t) ==
  /\ outcome[t] = "new"
  /\ storeOpen
  /\ outcome' = [outcome EXCEPT ![t] = "accepted"]
  /\ UNCHANGED <<tracker, wpc, wturn, cancelled, runMode, client, shut>>

\* enqueue appends to every list under one lock and claims the worker flag.
Enqueue(t) ==
  LET s == SessionOf[t] IN
  /\ outcome[t] = "accepted"
  /\ messageID' = [messageID EXCEPT ![s] = Append(@, t)]
  /\ outputMode' = [outputMode EXCEPT ![s] = Append(@, ModeOf[t])]
  /\ queue' = [queue EXCEPT ![s] = @ + 1]
  /\ worker' = [worker EXCEPT ![s] = TRUE]
  /\ wpc' = [wpc EXCEPT ![t] = IF ClaimsWorker(s) THEN "spawn" ELSE @]
  /\ outcome' = [outcome EXCEPT ![t] = "queued"]
  /\ UNCHANGED <<active, canceling, wturn, cancelled, runMode, client, shut>>

\* startAssistantTurnWorker: workerWG.Add(1) and the go statement.
StartWorker(t) ==
  /\ wpc[t] = "spawn"
  /\ wpc' = [wpc EXCEPT ![t] = "top"]
  /\ UNCHANGED <<tracker, wturn, cancelled, outcome, runMode, client, shut>>

-----------------------------------------------------------------------------
(* The worker goroutine: runAssistantTurnQueue.                            *)

\* The worker stops when shutdown was requested; its flag stays set.
LoopTop(w) ==
  /\ wpc[w] = "top"
  /\ wpc' = [wpc EXCEPT ![w] = IF StopsAtTop(w) THEN "done" ELSE "take"]
  /\ UNCHANGED <<tracker, wturn, cancelled, outcome, runMode, client, shut>>

\* dequeue finds nothing.
DequeueNothing(w) ==
  /\ wpc[w] = "take"
  /\ queue[SessionOf[w]] = 0
  /\ wpc' = [wpc EXCEPT ![w] = "idle"]
  /\ UNCHANGED <<tracker, wturn, cancelled, outcome, runMode, client, shut>>

\* dequeue takes the head of every list; a missing entry is defaulted.
Dequeue(w) ==
  LET s == SessionOf[w]
      t == FirstOr(messageID[s], NoTurn)
      last == queue[s] = 1
  IN
  /\ wpc[w] = "take"
  /\ HasQueued(s)
  /\ queue' = [queue EXCEPT ![s] = @ - 1]
  /\ messageID' = [messageID EXCEPT ![s] = IF last THEN <<>> ELSE RestOf(@)]
  /\ outputMode' = [outputMode EXCEPT ![s] = RestOfModes(s)]
  /\ wturn' = [wturn EXCEPT ![w] = t]
  /\ outcome' = [outcome EXCEPT ![t] = "taken"]
  /\ runMode' = [runMode EXCEPT ![t] = FirstOr(outputMode[s], DefaultMode)]
  /\ wpc' = [wpc EXCEPT ![w] = "check"]
  /\ UNCHANGED <<active, canceling, worker, cancelled, client, shut>>

\* markIdleIfEmpty gives the flag back only if the queue is still empty.
MarkIdleIfEmpty(w) ==
  LET s == SessionOf[w]
      empty == QueueEmpty(s)
  IN
  /\ wpc[w] = "idle"
  /\ worker' = [worker EXCEPT ![s] = IF empty THEN FALSE ELSE @]
  /\ wpc' = [wpc EXCEPT ![w] = IF empty THEN "done" ELSE "top"]
  /\ UNCHANGED <<active, canceling, queue, messageID, outputMode, wturn,
                 cancelled, outcome, runMode, client, shut>>

\* The second shutdown check drops the turn that was just dequeued.
CheckShutdown(w) ==
  /\ wpc[w] = "check"
  /\ IF shutdownRequested
     THEN /\ wpc' = [wpc EXCEPT ![w] = "done"]
          /\ wturn' = [wturn EXCEPT ![w] = NoTurn]
          /\ outcome' = [outcome EXCEPT ![wturn[w]] = "dropped"]
     ELSE /\ wpc' = [wpc EXCEPT ![w] = "turn"]
          /\ UNCHANGED <<wturn, outcome>>
  /\ UNCHANGED <<tracker, cancelled, runMode, client, shut>>

\* runAssistantTurn returns without registering: a local action handled the
\* message, the live edit took it, or an error ended the turn early.
EndUnregistered(w) ==
  /\ wpc[w] = "turn"
  /\ outcome' = [outcome EXCEPT ![wturn[w]] = "ended"]
  /\ wturn' = [wturn EXCEPT ![w] = NoTurn]
  /\ wpc' = [wpc EXCEPT ![w] = "top"]
  /\ UNCHANGED <<tracker, cancelled, runMode, client, shut>>

\* registerActiveChatTurn; a previous run that is still there is cancelled.
Register(w) ==
  LET s == SessionOf[w] IN
  /\ wpc[w] = "turn"
  /\ active' = [active EXCEPT ![s] = wturn[w]]
  /\ canceling' = [canceling EXCEPT ![s] = FALSE]
  /\ cancelled' = cancelled \cup ({active[s]} \ {NoTurn, wturn[w]})
  /\ wpc' = [wpc EXCEPT ![w] = "run"]
  /\ UNCHANGED <<queue, messageID, outputMode, worker, wturn, outcome,
                 runMode, client, shut>>

\* The model answers or fails; cancellation may come too late to matter.
EndRun(w) ==
  /\ wpc[w] = "run"
  /\ outcome' = [outcome EXCEPT ![wturn[w]] = "ended"]
  /\ wpc' = [wpc EXCEPT ![w] = "finish"]
  /\ UNCHANGED <<tracker, wturn, cancelled, runMode, client, shut>>

\* The request returns context.Canceled.
EndCancelled(w) ==
  /\ wpc[w] = "run"
  /\ wturn[w] \in cancelled
  /\ outcome' = [outcome EXCEPT ![wturn[w]] = "cancelled"]
  /\ wpc' = [wpc EXCEPT ![w] = "finish"]
  /\ UNCHANGED <<tracker, wturn, cancelled, runMode, client, shut>>

\* The deferred cancel() and unregister, which removes the entry only if it is
\* the worker's own.
Unregister(w) ==
  LET s == SessionOf[w]
      own == OwnsEntry(w)
  IN
  /\ wpc[w] = "finish"
  /\ active' = [active EXCEPT ![s] = IF own THEN NoTurn ELSE @]
  /\ canceling' = [canceling EXCEPT ![s] = IF own THEN FALSE ELSE @]
  /\ cancelled' = cancelled \cup {wturn[w]}
  /\ wturn' = [wturn EXCEPT ![w] = NoTurn]
  /\ wpc' = [wpc EXCEPT ![w] = "top"]
  /\ UNCHANGED <<queue, messageID, outputMode, worker, outcome, runMode,
                 client, shut>>

-----------------------------------------------------------------------------
(* Cancelling the work of a session: cancelChatWork, and for the cancel    *)
(* endpoint and /stop (waits) waitForChatWorkDrain.  The companion's       *)
(* interrupt and the cancel_work action do not wait.                       *)

\* cancelActive marks and cancels a run that is not being cancelled already.
CancelActive(c, s, waits) ==
  LET hit == active[s] # NoTurn /\ ~canceling[s] IN
  /\ client[c].pc = "idle"
  /\ storeOpen
  /\ canceling' = [canceling EXCEPT ![s] = @ \/ hit]
  /\ cancelled' = IF hit THEN cancelled \cup ContextOf(s) ELSE cancelled
  /\ client' = [client EXCEPT ![c] =
       [pc |-> "clear", session |-> s, waits |-> waits, any |-> hit,
        held |-> HeldBy(s), reply |-> "none"]]
  /\ UNCHANGED <<active, queue, messageID, outputMode, worker, wpc, wturn,
                 outcome, runMode, shut>>

\* The command returns.  Of its answers only "nothing is running" is kept, for
\* NothingRunningIsTrue.
Answer(c, r) ==
  client' = [client EXCEPT ![c] =
    [pc |-> "idle", session |-> @.session, waits |-> FALSE, any |-> FALSE,
     held |-> IF r = "nothing" THEN @.held ELSE {}, reply |-> r]]

\* clearQueued empties the counter and every list.
ClearQueued(c) ==
  LET s == client[c].session IN
  /\ client[c].pc = "clear"
  /\ queue' = [queue EXCEPT ![s] = 0]
  /\ messageID' = [messageID EXCEPT ![s] = <<>>]
  /\ outputMode' = [outputMode EXCEPT ![s] = <<>>]
  /\ outcome' = [t \in Turns |-> IF t \in Entries(messageID[s])
                                 THEN "cleared" ELSE outcome[t]]
  /\ IF client[c].waits
     THEN client' = [client EXCEPT ![c] =
            [@ EXCEPT !.any = client[c].any \/ HasQueued(s), !.pc = "drainActive"]]
     ELSE Answer(c, "none")
  /\ UNCHANGED <<active, canceling, worker, wpc, wturn, cancelled, runMode,
                 shut>>

\* The drain loop reads the two counts one after the other.
DrainActive(c) ==
  /\ client[c].pc = "drainActive"
  /\ active[client[c].session] = NoTurn
  /\ client' = [client EXCEPT ![c].pc = "drainQueued"]
  /\ UNCHANGED <<tracker, wpc, wturn, cancelled, outcome, runMode, shut>>

\* Both were zero: the command answers, otherwise it polls again.
DrainQueued(c) ==
  /\ client[c].pc = "drainQueued"
  /\ IF queue[client[c].session] = 0
     THEN Answer(c, IF client[c].any THEN "none" ELSE "nothing")
     ELSE client' = [client EXCEPT ![c].pc = "drainActive"]
  /\ UNCHANGED <<tracker, wpc, wturn, cancelled, outcome, runMode, shut>>

\* A drain without a deadline.
NoDeadline(c) == FALSE

\* Three seconds are over, and the last look saw work.
DrainTimeout(c) ==
  LET s == client[c].session IN
  /\ \/ client[c].pc = "drainActive" /\ active[s] # NoTurn
     \/ client[c].pc = "drainQueued" /\ queue[s] > 0
  /\ Answer(c, "none")
  /\ UNCHANGED <<tracker, wpc, wturn, cancelled, outcome, runMode, shut>>

-----------------------------------------------------------------------------
(* App.Shutdown.                                                           *)

ShutdownCancel ==
  /\ shut = "open"
  /\ shut' = "requested"
  /\ UNCHANGED <<tracker, wpc, wturn, cancelled, outcome, runMode, client>>

\* cancelAll takes the whole active map and cancels every run in it.
CancelAll ==
  /\ shut = "requested"
  /\ cancelled' = cancelled \cup ({active[s] : s \in Sessions} \ {NoTurn})
  /\ active' = [s \in Sessions |-> NoTurn]
  /\ canceling' = [s \in Sessions |-> FALSE]
  /\ shut' = "draining"
  /\ UNCHANGED <<queue, messageID, outputMode, worker, wpc, wturn, outcome,
                 runMode, client>>

\* waitForAssistantWorkers: the WaitGroup is down to zero ...
WorkersDone ==
  /\ shut = "draining"
  /\ \A w \in Turns : ~Counted(w)
  /\ shut' = "quiet"
  /\ UNCHANGED <<tracker, wpc, wturn, cancelled, outcome, runMode, client>>

\* ... or the caller's context ends first.
WaitExpired ==
  /\ shut = "draining"
  /\ \E w \in Turns : Counted(w)
  /\ shut' = "timedout"
  /\ UNCHANGED <<tracker, wpc, wturn, cancelled, outcome, runMode, client>>

CloseStore ==
  /\ shut \in {"quiet", "timedout"}
  /\ shut' = IF shut = "quiet" THEN "closed" ELSE "closedBusy"
  /\ UNCHANGED <<tracker, wpc, wturn, cancelled, outcome, runMode, client>>

-----------------------------------------------------------------------------
Submit(t) == AddChatMessage(t) \/ Enqueue(t)
\* The steps a goroutine takes without waiting for the model service.
WorkerStep(w) ==
  \/ StartWorker(w) \/ LoopTop(w) \/ DequeueNothing(w) \/ Dequeue(w)
  \/ MarkIdleIfEmpty(w) \/ CheckShutdown(w) \/ EndUnregistered(w)
  \/ Register(w) \/ EndCancelled(w) \/ Unregister(w)
Cancel(c) == \E s \in Sessions, waits \in BOOLEAN : CancelActive(c, s, waits)
CancelStep(c) ==
  ClearQueued(c) \/ DrainActive(c) \/ DrainQueued(c) \/ DrainTimeout(c)
Shutdown ==
  ShutdownCancel \/ CancelAll \/ WorkersDone \/ WaitExpired \/ CloseStore

Next ==
  \/ \E t \in Turns : Submit(t) \/ WorkerStep(t) \/ EndRun(t)
  \/ \E c \in Clients : Cancel(c) \/ CancelStep(c)
  \/ Shutdown

Spec == Init /\ [][Next]_vars

\* Goroutines are scheduled, a drain ends by its deadline, and a cancelled
\* request returns.  Nothing forces a request that nobody cancelled to end.
Fairness ==
  /\ \A w \in Turns : WF_vars(WorkerStep(w))
  /\ \A c \in Clients : WF_vars(CancelStep(c)) /\ SF_vars(DrainTimeout(c))

FairSpec == Spec /\ Fairness

-----------------------------------------------------------------------------
(* Properties.                                                             *)

\* Every variable has its type (the tracker's fields, the goroutines' local
\* state); in particular the queue counter never goes below zero.
TypeOK ==
  /\ active \in [Sessions -> Turns \cup {NoTurn}]
  /\ canceling \in [Sessions -> BOOLEAN]
  /\ queue \in [Sessions -> Nat]
  /\ messageID \in [Sessions -> Seq(Turns)]
  /\ outputMode \in [Sessions -> Seq(Modes)]
  /\ worker \in [Sessions -> BOOLEAN]
  /\ wpc \in [Turns -> WorkerPc]
  /\ wturn \in [Turns -> Turns \cup {NoTurn}]
  /\ cancelled \in SUBSET Turns
  /\ outcome \in [Turns -> Outcome]
  /\ runMode \in [Turns -> Modes]
  /\ client \in [Clients -> Client]
  /\ shut \in ShutPc

\* A session never has two worker goroutines, although enqueue, markIdleIfEmpty
\* and the go statement are separate steps of different goroutines: two workers
\* would run two turns on one app-server thread.
OneWorkerPerSession ==
  \A s \in Sessions : \A v, w \in WorkersOf(s) : v = w

\* While the server is not shutting down, a session with queued turns has a
\* worker that will look at the queue again: the wakeup is not lost between a
\* dequeue that found nothing and markIdleIfEmpty.
NoStrandedQueue ==
  \A s \in Sessions :
    queue[s] > 0 /\ ~shutdownRequested => WorkersOf(s) # {}

\* The counter and the parallel option lists describe the same turns in the same
\* order, so that a turn runs with the options its own message asked for.
OptionsStayPaired ==
  /\ \A s \in Sessions :
       /\ Len(messageID[s]) = queue[s]
       /\ Len(outputMode[s]) = queue[s]
       /\ \A i \in 1..queue[s] : outputMode[s][i] = ModeOf[messageID[s][i]]
  /\ \A t \in Turns : runMode[t] = ModeOf[t]

\* The active map tells the truth about registered runs: an entry belongs to a
\* worker of its session that runs that turn, and until cancelAll empties the map
\* every run has its entry, so that /stop and the activity report can see it.
ActiveIsRunning ==
  \A s \in Sessions :
    /\ active[s] # NoTurn =>
         \E w \in WorkersOf(s) : wpc[w] \in {"run", "finish"} /\ wturn[w] = active[s]
    /\ shut \in {"open", "requested"} =>
         \A w \in WorkersOf(s) : wpc[w] = "run" => active[s] = wturn[w]

\* When Shutdown closes the store because its wait succeeded, no worker holds a
\* turn and none will take one: not even a worker whose flag was claimed before
\* the shutdown and whose WaitGroup.Add comes after the wait.
QuietClose ==
  shut = "closed" => \A w \in Turns : ~Holding(w)

\* What the code's waiting commands tell the user: the drain that found nothing to
\* cancel answers "No assistant turn is currently running." (chat.go:383), so no
\* turn a worker held when the command began may still be executing.
NothingRunningIsTrue ==
  \A c \in Clients :
    client[c].pc = "idle" /\ client[c].reply = "nothing" =>
      \A t \in client[c].held : outcome[t] # "taken"

\* A waiting turn is served: it is taken or cleared, or a registered run of its
\* session is in progress (how long a run takes is up to the model service).
QueueIsServed ==
  \A t \in Turns :
    outcome[t] = "queued" ~> \/ outcome[t] # "queued"
                             \/ active[SessionOf[t]] # NoTurn
                             \/ shutdownRequested

\* A cancelled run releases its session, however long the model would take.
CancelReleasesSession ==
  \A s \in Sessions : canceling[s] ~> ~canceling[s]

\* The cancel endpoint and /stop answer, even if work never drains.
CommandsReturn ==
  \A c \in Clients : client[c].pc # "idle" ~> client[c].pc = "idle"

-----------------------------------------------------------------------------
(* The inductive invariants behind the safety properties (TurnQueueProofs). *)

\* A worker between its dequeue and the end of its turn holds a real turn.
HoldsATurn == \A w \in Turns : Holding(w) => wturn[w] \in Turns

\* The worker flag stands for the one worker of the session.
WorkerInv ==
  /\ OneWorkerPerSession
  /\ \A w \in Turns : Live(w) => worker[SessionOf[w]]
  /\ shut = "open" => \A s \in Sessions : worker[s] => WorkersOf(s) # {}
  /\ \A s \in Sessions : queue[s] > 0 => worker[s]
  /\ \A t \in Turns : wpc[t] # "none" => outcome[t] \notin {"new", "accepted"}

\* After a successful wait every goroutine that still comes stops at once.
QuietInv ==
  shut \in {"quiet", "closed"} =>
    \A w \in Turns : wpc[w] \in {"none", "spawn", "top", "done"}

-----------------------------------------------------------------------------
(* The refinement: the FIFO is the messageID list, a session executes the   *)
(* turn its worker holds until the turn has its outcome.                    *)

Executing(s) == {t \in HeldBy(s) : outcome[t] = "taken"}

Chat == INSTANCE ChatTurns WITH
          pending <- messageID,
          executing <- [s \in Sessions |-> Executing(s)],
          over <- {t \in Turns : outcome[t] \in Ended}

\* The tracker, its workers and the cancel commands implement one FIFO executor
\* per session (module ChatTurns): order, mutual exclusion, no turn twice.
ImplementsChatTurns == Chat!Spec
=============================================================================
