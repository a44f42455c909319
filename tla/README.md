# Slopshell: TLA+ models, checks and proofs

Slopshell is a Go server (`src/internal/web`, with SQLite in
`src/internal/store`) that talks to people through a browser, a phone or a
terminal, and to a model through an app server (a websocket service that runs
codex threads). This directory holds TLA+ models of the parts of it where
goroutines, timers and connections interleave, TLC configurations that check
them on small instances, and TLAPS proofs of the results that matter most for
all instances.

- [The system](#the-system)
- [What is modelled](#what-is-modelled)
- [The runs](#the-runs)
- [Where code and documents disagree](#where-code-and-documents-disagree)
- [What is proved](#what-is-proved)
- [What is only model-checked](#what-is-only-model-checked)
- [What is not modelled](#what-is-not-modelled)
- [The plan](#the-plan)
- [Running it](#running-it)

## The system

| component | state it keeps | operations | interacts with | what is hard |
|---|---|---|---|---|
| **Chat turn queue** (`chat_queue.go`, `chat_turn.go`) | per session: active runs, a counter and six parallel option lists, a worker flag; a wait group | enqueue, dequeue, register, unregister, cancel, drain, `Shutdown` | HTTP handlers, `/stop`, `/clear`, the voice and companion triggers enqueue; the session pool runs the turn | one worker per session is claimed and given back in different goroutines; cancel and drain look at two places; shutdown against a worker that starts |
| **App-server session pool** (`chat_queue.go`, `workspace_focus.go`, `appserver/session.go`) | one websocket per binding session, the thread of every chat session, `closed` of every connection, the focus | find, reuse, open, pool, fail, cancel; `/clear`, `/compact`, change of model, change of focus, `Shutdown` | turns, commands, the app server | the pool's lock is not held while a connection is opened; the binding is looked up several times; closing happens under a reader |
| **Voice turn controller** (`turn/controller.go`, `turn_ws.go`) | pending words, a timer, frames of speech, playback, profile | segment, flush, reset, close, frames, profile, playback | the voice websocket; its signals go out through goroutines of their own | a timer whose callback has started cannot be stopped; signals overtake each other |
| **App-server turns** (`appserver/session.go`, `client.go`) | per connection: the socket, `closed`, the number of the next request | start a turn, read until it is complete, fail, cancel, close | the pool hands connections out; the app server speaks; approvals are asked in the reader's callback | a connection outlives its turns and may have two readers; closing happens under a reader |
| **Tool approvals** (`chat_approval.go`) | a pending map, a channel of one answer each | ask, answer, cancel | a turn waits in the reader's callback; a client answers | answer against cancel; an answer is taken out of the map in one step and sent in another |
| **Companion** (`companion_*.go`, `chat_participant.go`) | one pending turn per chat session, an event log per meeting | trigger, interrupt, suppress, finish | the turn queue; meeting transcripts | decisions are taken from a log read earlier; the note follows the enqueue; not every turn reports its end |
| **Meeting capture** (`chat_participant.go`, `projects_companion.go`, `live_policy.go`) | per websocket: active and its session; the session rows; the companion's configuration; the live policy | start, stop, disconnect; switch meeting mode on and off | the hub's websockets, the store | a start under way while the mode is switched off |
| **Chat hub** (`ws_hub.go`) | sets of sockets | join, leave, broadcast | every part that reports | sockets that close while written |
| **Workspace watches, batches** (`workspace_watch.go`, `chat_batch.go`) | the row of a watch, the batches and their items, a handle per goroutine | start, stop, limit, configure, run a batch; reconcile | items, the app server, the tools of the MCP server | the goroutine writes the row that the commands write; ends while it is started; crashes |
| **Items** (`items.go`, `items_gesture.go`, `items_gtd_status.go`, `store_domain_item.go`, ...) | the row of an item, the note, message or task it comes from, the snapshot behind an undo banner | triage and edit endpoints, gestures and their undo, the GTD status of a note, the resurfacer | notes, mail servers, Todoist, every view | the source, the row and the undo are written in separate steps, each of which may fail |
| **Sources, mail, sync** | bindings, backoff per account, action log | poll, push, apply, retry | providers | retries and duplicates |
| **Confirmations, tunnels, plugins** | small maps | ask, confirm, open, close | turns | answer against expiry |
| **Store** | SQLite | statements | all | migrations |
| **Speech, hotword training, canvas, terminal daemon, LLM cache, clients** | see `PROJECT.json` | | | mostly I/O and data |

What makes the modelled components correct:

- *Turn queue*: a session runs one turn at a time, in the order of the
  messages, each with the options of its own message and never twice; nothing
  is stranded; a command that reports that nothing runs is right; nothing runs
  when the store is closed.
- *Session pool*: no websocket is leaked; a turn runs on a connection opened
  for its workspace, model and approval policy; threads never cross
  workspaces; a thread that a command promised to leave is left; a resumed
  thread knows the chat.
- *App-server turn and approvals*: an answer is the turn's own; a cancelled or
  completed turn ends; the service gets the decision whose client was told it
  was taken; a request that can be answered has somebody waiting.
- *Companion*: who addresses it in a quiet moment is answered.
- *Meeting capture*: off means off, also for a start under way; what is active
  is open in the store, and what is open belongs to somebody or is being ended.
- *Watch*: what is enabled is watched; who is asked to stop stops; nothing that
  is recorded as completed is done again; a stop is not undone.
- *Items*: an undo that is answered leaves the row as it was before the gesture,
  and its source if it agreed with the row. The code promises less for a source
  that stays done: a task, which no marker speaks of, and a message that was
  archived by a call that reported an error.
- *Turn controller*: words are neither lost nor said twice nor carried over a
  reset; pending text has a timer; a closed connection is silent; an
  interruption has its frames.

`PROJECT.json` lists each hazard at its line with the properties that would
catch it going wrong.

## What is modelled

| module | models | composed of |
|---|---|---|
| `ChatTurns` | what a session's executor promises: a FIFO and one turn at a time | |
| `TurnQueue` | tracker, workers, cancel and drain, `App.Shutdown` | implements `ChatTurns` (`INSTANCE ... WITH`) |
| `MCTurnQueue` | the maps of turns to sessions and modes for TLC | extends `TurnQueue` |
| `TurnQueueProofs` | theorems | extends `TurnQueue` |
| `TurnController` | controller, timer callbacks and writers of the voice socket | |
| `TurnControllerProofs` | theorems | extends `TurnController` |
| `MCReturns` | the controller and the queue in one run | extends `TurnController`, `INSTANCE TurnQueue` |
| `AppSessions` | the pool, the turns that use it, the commands that sweep it | |
| `MCAppSessions` | two instances in one run: interleaved, and one thing at a time | extends `AppSessions` |
| `AppSessionsProofs` | theorems | extends `MCAppSessions` |
| `AppServerTurn` | the reader of a turn, its connection, the service, approvals and the clients that answer them | |
| `AppServerTurnProofs` | theorems | extends `AppServerTurn` |
| `Companion` | segments of a meeting, the policy, the pending turn, the queue as far as it is seen | |
| `CompanionProofs` | theorems | extends `Companion` |
| `ItemGestures` | an item's row, its source, the requests of windows and their undos | |
| `ItemGesturesProofs` | theorems, those of `MCAnswers` among them | extends `MCAnswers` |
| `MCAnswers` | items, turns and the companion in one run | extends `ItemGestures`, `INSTANCE AppServerTurnProofs`, `INSTANCE CompanionProofs` |
| `MeetingCapture` | captures, their clients, the requests that switch the mode | |
| `MeetingCaptureProofs` | theorems, those of `MCEndings` among them | extends `MCEndings` |
| `WorkspaceWatch` | a watch, its goroutine, reconciler and commands, batches, crashes | |
| `WorkspaceWatchProofs` | theorems | extends `WorkspaceWatch` |
| `MCEndings` | capture and watch in one run | extends `MeetingCapture`, `INSTANCE WorkspaceWatchProofs` |

Each module is parameterised by constants whose assumptions are named and
evaluated by TLC. `PROJECT.json` maps every definition to the lines it
translates. Some operators come in pairs, e.g. `NeverOwns` and `OwnsEntry`:
the second is what the code computes, the first what a plausible mistake there
would compute. The first is not used by the specification; it is put in the
place of the second to see that the properties notice.

### TurnQueue

One action is one critical section of `chatTurnTracker.mu`, or one read of the
shutdown context, with the local code up to the next one. A turn is named by
the user message it answers, a worker goroutine by the turn whose enqueue
started it.

- *Submit*: `AddChatMessage` (the message is stored, which a closed store
  refuses), `Enqueue` (lists, counter and worker flag under one lock),
  `StartWorker` (`workerWG.Add(1)` and `go`, in a step of its own because a
  shutdown may come in between).
- *Worker*: `LoopTop`, `Dequeue` or `DequeueNothing`, `MarkIdleIfEmpty`,
  `CheckShutdown`, then the turn: `EndUnregistered` for one that never
  registers (a local action, a live edit, an early error), or `Register`,
  `EndRun` or `EndCancelled`, `Unregister`. A run may end at any time or never.
- *Commands*: `Cancel` and `/stop`: `CancelActive`, `ClearQueued`, then the
  polling drain as `DrainActive`, `DrainQueued`, `DrainTimeout`, and `Answer`.
- *Shutdown*: `ShutdownCancel`, `CancelAll`, then the wait, which succeeds
  (`WorkersDone`) or expires (`WaitExpired`), then `CloseStore`.

Of the six parallel lists two are kept, the message and the output mode: all
six are appended to and cut at the same places. What a run does with its
prompt is left out. The companion's interrupt and the `cancel_work` action
cancel without a drain, a prefix of what a client does here.

The refinement: `pending` is the message list, a session executes the turn its
worker holds until the turn has an outcome, `over` is every turn with one.

### TurnController

One action is one critical section of `Controller.mu`, the expiry of a timer,
or one goroutine of `emitLocked` writing to the socket. The text of a turn is
the sequence of the numbers of its segments, so that losing, repeating or
reordering words is visible; whether a text looks complete is a choice (the
classifier is a table of phrases), but the backchannel rule, which drops a
segment, is translated. Of the signals only the finalized turns are kept in
flight: no property tells the others apart. `loud` is an observer that counts
consecutive loud frames independently of the controller's counter; it
saturates at 4, the largest threshold. Metrics and the amount of audio to roll
back are left out.

`Expire` moves a timer from `running` to `fired`: from then on `Stop` is too
late and the callback, `Flush`, waits for the lock, as `time.AfterFunc` allows.

### AppSessions

A session stands for its workspace as well, since every workspace has one chat
session (`GetOrCreateChatSessionForWorkspace`). `BindingOf` is
`appSessionBindingForChatSessionID`: the focused workspace's session if one is
focused explicitly, the session itself otherwise. Connections are numbered as
they are opened, and a thread has the number of the connection that started
it, so "older" is "smaller".

- *A turn*: `BeginTurn` (the worker's last look at the shutdown), `BindWorkspace`
  and `ReadThread` (two statements of the store), `LookUp`, `Reuse` or `Discard`, `Dial` (which resumes the stored thread or
  starts one) or `DialFails`, `PoolSession`, `SaveThread`, then `EndUnsent` for a
  prompt that is empty or refused by a plugin, or `StartTurn`, and `Answered`,
  `ServiceError` or `ReadError`. A failed turn gives up its connection in
  `RebindFailed`, `TakeFailed`, `CloseFailed`, which look the binding up again.
- *The fallback* (`Legacy...`): a private connection which never enters the
  pool, hence not in `open`, with a thread that is stored.
- *Cancel*: `CancelTurn` makes the `AfterFunc` of the turn due, `CloseDue` runs
  it, possibly long after the turn has ended.
- *Commands*: `SetFocus`, `Clear` (`CancelSession` for each session, the sweep,
  `ResetAllThreads`, one more close), `Compact` (also a change of the
  workspace's model, which does the same), `Shutdown`; `SwapPool`, `CloseOne`,
  `Swept` are the sweep they share.

A connection has two flags, as in the code: `closed` is `Session.closed`, which
`markClosed` sets without closing the socket; `open` says that the socket is
open. Two observers are no part of the code: `told`, the threads that were sent
the history of the chat, and `forgotten`, per session the newest thread a
finished `/clear` or `/compact` has promised to leave; a turn notes it in `avoid`
when it begins. Fields a step no longer needs are reset to keep the state space
small. Fast and transient turns run on private connections that store no
thread, so they do not appear. A Shutdown whose wait for the workers expires is
not continued here (TurnQueue has it), since it promises nothing about
connections.

### AppServerTurn

A turn is one call of `SendTurnInputWithParams`, or of `SendPromptStream`, whose
connection is its own (`DialPrivate`). One action is one message read, one
critical section, or one case of the `select` that waits for an approval.

- *Begin*: `Reuse`, or `OpenSession` and `PoolSession`; `RefuseClosed` or
  `AllocID`; `SendStart` or `SendFails`. `allocID` is not locked, so `NextIDs` lets
  two callers get one number.
- *Read*: `ReadResponse` (after which the loop goes on without a look at its
  end), `ReadForeign` (a response to another request, after which it does look),
  `ReadFailure`, `ReadFails`, `ReadText`, `ReadCompleted`. `Return` is the end of the loop, with an error if there was no
  text. `Fail` marks the session closed and leaves its socket open; `Release` is
  `closeAppSession`, which takes whatever connection is pooled by then.
- *Approvals*: `ReadApproval` stores and shows the request, `TakeDecision` and
  `GiveUp` are the two cases of the `select`, `Forget` and `Respond` follow. A client
  takes the entry out under the lock (`TakeApproval`) and sends without it
  (`Deliver`).
- *Cancel*: `Cancel` makes what is registered with the context due, `CloseDue` is
  the `AfterFunc` in its goroutine.
- *External*: `Svc...` and `HangUp`. What is assumed of the service: it answers a
  `turn/start` before it speaks of the turn, asks one approval at a time and
  waits for the answer, and is silent about a turn it has completed.

`shared` observes which turns ever ran beside another on their connection, `said`
what clients were told. Two turns that share a connection do take each other's
messages, which is the code's behaviour (the pool is keyed by the binding
session, and nothing serialises the turns of two chat sessions focused on one
workspace); the properties exempt them.

### Companion

Every segment is judged in a goroutine of its own: `Commit`, `ReadSegments`,
`Judge`, then what is read of the chat (`ReadRunning`, `ReadQueued`,
`ReadPending`), `CancelWork` and `Interrupt`, `Enqueue`, `Note`, `LogTriggered`. The
events of a meeting are reduced to what the policy computes from them:
`pendingIn`, the segment whose answer has not ended, and `recent`, whether an end
is less than eight seconds old. The queue and the worker are those of
`TurnQueue` without what the companion does not see. `calm` is an observer: the
segment was an address and was heard while nothing was queued, running, judged
or just ended.

What the model makes visible and no document excludes: an end that is logged as
"assistant_turn_suppressed" is no end for the policy; a wake word passes the gate
and is then not an address for the policy; segments carry no speaker, so that
the follow-up of a speaker never happens.

### MeetingCapture

A websocket is its reading goroutine: `Start`, `CheckPolicy`, `CreateSession`,
`Activate` under `participantMu`, `Stop` and `EndSession`, `Disconnect`,
`ReleaseOnLeave`. A request loads and saves the configuration, or reads and sets
the policy, then sweeps: `Snapshot`, `Visit`, `ReleaseVisited`, `EndVisited`, and
over the rows that are still open `ListOpen`, `Sweep`.

### WorkspaceWatch

The goroutine (`ReadRow` to `Exit`), the reconciler's (`Tick`, `TickReconcile`), and
the commands. Commands of the HTTP server and the chat write the row and then
ask the tracker, in two steps; the tools of the MCP server only write the row
(`ToolStart`, `ToolStop`). `batch_limit` and `batch_configure` write what they read
(`Load`, `Save`), as does the goroutine (`AttachBatch`). `Crash` keeps the row, the
batches and the items.

What the model makes visible and no document excludes: a goroutine that was
launched from an old list and is asked to stop still makes a batch and may take
an item; a start over a running watch forgets its batch, which stays "running";
a failed item is deferred and comes back as "next", where the watch does not
look; an item done by the user meanwhile stays "running" in its batch.

### ItemGestures

A request of a window is a pipeline, and each step is one call or one statement:
`Begin` reads the item (an item that is done is not completed again); `AskSource`
has the note, the message or the task changed first where the code does so;
`ParseNote`, `CheckNote` and `MirrorNote` read the note that was written, check the
transition and bring it into the row; `ReadRow` reads the row and refuses or
computes the update, `SaveRow` writes it without looking again; `TellSource` is
what complete does after the row was written, whose failure is only reported.
`CallFails` is an error of a call to the source, which may have had its effect.
`BeginUndo` takes the snapshot from the banner and `Restore` writes it into the row,
past the state machine. `Resurface` and `Edit` are what happens without a window:
deferred items come back, and sources are edited elsewhere.

What a source can tell apart differs: a note has every state, a message is in the
inbox or archived, a task is open or completed (`Counterpart`). Three observers
are no part of the code: `alone`, the windows besides whose gesture nothing has
changed anything, `agreed`, whether source and row agreed before the gesture, and
`sent`, which bounds the requests. A window stays in `alone` over every step of its
own gesture, one that fails with its effect included. Only `CallFails` takes it out:
a request that ends there hands out no snapshot, so there is nothing to undo; the
gesture of complete whose `TellSource` fails does hand one out, stays in `alone`, and
its result says so (`syncError`, which no step reads). Deletion, creation, review, children, titles,
the follow-up date of a note, errors of the store and the periodic syncs are left
out.

What the model makes visible and no document excludes: the snapshot of an undo
is written whatever happened to the row since the gesture; of two requests at a
time one may update a row whose state it did not check.

### The modules that put models into one run

`MCAnswers` checks three models, `MCReturns` and `MCEndings` two each. The models
share no state and none disables the other: `part` is chosen at the start, the
behaviours are those of one model, and the fairness of each is that of its
module. In `MCReturns` the voice connection is looked at in two parts, its words
and its frames, which have only `Reset` and `Close` in common. `MCAppSessions` is two
instances of one model: `inOrder` is chosen at the start and says which steps are
taken.

`MCAnswers` and `MCEndings` take a model as an instance of the module of its theorems
(`INSTANCE AppServerTurnProofs`): the definitions are the same, and its theorems are
facts about the run. What such a theorem assumes of its constants, `MCAnswers` and
`MCEndings` state as assumptions of theirs (`TurnAssumption`, `RoomAssumption`,
`BatchAssumption`), which TLC evaluates.

## The runs

| run | instance | states | shows |
|---|---|---|---|
| `turn_queue` | 1 session, 3 turns of 2 modes, 1 client, shutdown | 1 197 437 | one worker, no stranded turn, paired options, truthful active map, quiet close, refinement of `ChatTurns` |
| `returns` | 4 segments, 1 interruption, 2 profiles; 1 session, 2 messages, 1 command; fair | 101 962 | no word lost, repeated or carried over, timers, silence after close, earned interruptions, segments settle; turns are served, a cancel releases the session, commands return |
| `app_sessions` | 2 sessions, 2 connections, 1 client: interleaved with focus and shutdown, or in order with 2 configurations, `/clear` and `/compact` | 2 197 037 (view) | no leak, quiet shutdown, threads keep their workspace, turns run as bound; forgotten threads stay forgotten |
| `answers` | 2 windows, 2 requests and their undos, every kind of source; 2 turns, 2 connections, 1 approval, 1 fault; 3 segments, 1 turn of the user | 2 148 513 (symmetry) | an answered undo restores the row, and its source but for what stays done unmarked; own answers; the companion answers |
| `app_server_turn` | 2 turns, 2 connections, 1 approval, 2 decisions, 1 client, 1 fault, texts in one turn, fair | 393 486 | given decisions, a reader for every request; cancelled and completed turns return |
| `endings` | 2 clients, 1 request at a time, 3 changes of mode; 1 item, 2 commands, 1 crash, fair | 344 620 | off means off, sessions end; a watch stops, is not forgotten, does nothing twice |
| `stop_says_nothing_running`, `compact_keeps_focused_thread`, `resumed_without_history`, `stop_is_overwritten`, `off_request_overtaken`, `undo_is_refused` | as needed | until the violation | see below |

Why these bounds are enough to be worth something. A worker's life needs a turn
to start it, one to find in the queue and one to arrive while the queue is found
empty: three turns. Two sessions of the queue share nothing but the shutdown,
and the proofs cover any number. Three segments are a text, the one that
continues it while the old callback is late, and the one that the callback must
not disturb; the fourth comes after an interruption. Two connections are the pooled one and its replacement, which is
what leaks and mismatches need; two sessions are one that is focused and one
that is not; a client that executes one command after another meets turns in
every state, and commands against commands are covered by the proofs of the
same properties for any number of clients. Every safety property of
`app_sessions` is also proved without bounds. The violation
runs of `AppSessions` take commands and turns one at a time (`OneAtATime`): the
counterexamples need no interleaving.

Two windows and two requests are a gesture with its undo and another request that
comes between any two of their steps; two gestures of one window; and their
undos. `UndoRestores` is also proved for any number.

Two turns are what a connection that outlives its first turn needs, and one fault
is a cancel, a refusal, an error or a hang-up at any point; the wire holds one
message, so that what an earlier turn left on it meets the next reader. Three
segments are one whose answer is pending, one that interrupts it and one that is
heard afterwards. Two clients of a capture are one that starts under way of the
sweep and one that owns what the sweep ends; three changes switch meeting mode
off, on and off again. Two commands and a crash are a start, a stop and what is
left of them; eight batches are never used up (with fewer than seven the bound
itself keeps a goroutine from going on).

The run marked with a view identifies, where turns and commands interleave,
states that differ in the observers only: no guard and no update of another
variable reads an observer, and of the properties that say something there only
the type invariant mentions them, whose theorem covers every state. Symmetry
permutes the windows, which no definition and no property tells apart; the run
has no liveness property.

`CHECK_DEADLOCK FALSE` is set throughout: the server stops after a shutdown, a
voice connection closes, and turns, segments and connections are bounded.

### Fairness

- *TurnQueue*: every worker step is weakly fair (goroutines are scheduled),
  except `EndRun`: the model may hang for ever. `EndCancelled` is fair, because
  cancelling the context closes the connection under the reader. A client's
  steps are weakly fair and `DrainTimeout` is strongly fair: the drain polls, so
  the timeout is not continuously enabled, but its deadline is absolute.
- *TurnController*: expiry, callbacks and writers are weakly fair. Nothing makes
  the speaker speak. (`MCReturns` states this and the queue's fairness for the part
  that is looked at.)
- *AppServerTurn*: the turn's goroutine, an `AfterFunc` that is due and a client's
  handler that holds an answer are weakly fair. Nothing makes the service speak, a
  client answer, or anybody cancel.
- *MeetingCapture*: goroutines of websockets are weakly fair, requests strongly:
  they wait for `participantMu`, which clients may take again and again, and a
  `sync.Mutex` hands itself over to a waiter that has starved.
- *WorkspaceWatch*: goroutine, ticker and commands under way are weakly fair; a
  prompt has a timeout (`workspaceWatchProcessTimeout`). No command has to be given
  and no item has to come.

## Where code and documents disagree

Six runs end in a counterexample to what the code or a document of the
repository says. `PROJECT.json` quotes the lines.

1. *`/stop` can say that nothing runs while something does.* A turn between its
   dequeue and its registration, or one that a local action handles and that
   never registers, is neither in the active map nor in the queue.
2. *`/compact` under an explicit focus keeps the thread.* It closes the
   connection of the focused workspace's session and resets the thread of the
   chat session. The next turn resumes the focused session's thread.
3. *A "resumed" thread may know nothing.* The fresh connection is pooled and its
   thread stored before the first prompt is known to be sent. If that turn ends
   unsent, the next one sends only its last message.
4. *A stop of a watch can be undone by the watch.* The goroutine that creates a
   batch writes the row back as it read it. A stop in between is overwritten; the
   goroutine ends, the reconciler launches the next, which begins new items.
5. *Meeting mode can be switched off and capture go on.* A request that saves the
   companion's configuration stops captures only if the configuration it loaded was
   enabled; another request may have enabled it since, and a client started. With
   one request at a time `OffMeansOff` holds, is checked and proved.
6. *The undo of a gesture can be refused by the undo itself.* The status of a note is
   set back and mirrored into the row first, by the state machine, which lets an
   item leave "done" for the inbox only. The undo fails with the note set back
   and the row done. Two undos are answered and reverse less than they claim: a task
   that a gesture completed stays completed, since nothing in the snapshot says so,
   and a message stays archived if the archive took effect and reported an error,
   since complete then leaves the marker unset and returns `sync_error`
   (`items_gesture.go:180`). The comment of the snapshot promises to reverse "any
   upstream side-effect that ran"; `UndoReverses` fails with either source too, the
   run takes the note. What `UndoRestores` shows is what is left: an undo that is
   answered has always restored the row, and the source of a row it agreed with,
   except that a task, or the message of a gesture that reported an error, may have
   stayed done. A note, and a message whose call succeeded or had no effect, are not
   excepted.

Without a focus, and with commands and turns one after the other,
`app_sessions` shows that `/clear` and `/compact` keep their promise. When
they do interleave, `/clear` can keep a thread as well: it cannot see a turn that
prepares itself, and that turn pools a connection on its old thread after the
sweep (`StaysForgotten` without `OneAtATime` and with three connections finds it).

## What is proved

All theorems hold for every value of the constants that satisfies the named
assumptions: any numbers of sessions, turns, clients, segments, connections.

**TurnQueueProofs.** `TypeInv` is the type invariant with `OptionsStayPaired`
and "a worker between dequeue and end holds a real turn": they are one induction, because
the dequeue is typed only if the lists are as long as the counter says.
`WorkerInv` adds to `OneWorkerPerSession` that a live worker has its flag, that
until a shutdown a flag has its worker, and that a nonempty queue has its flag;
without these the claim of the flag would prove nothing. From it follow
`OneWorker` and `NoTurnStranded`. `ActiveMapIsTrue` uses that a session's one
worker is the only one to register and unregister. `ClosesQuietly` uses
`QuietInv`: once the wait has succeeded, a goroutine that still comes is at the
top of its loop, where it sees the request. `Implements` is the refinement of
`ChatTurns`: `ServeInv` says what a turn's steps have in common with the state of its
session (a turn waits in one queue and once, a turn a worker holds is not waiting
and has no outcome), and from it each action maps to `Submit`, `Start`, `Finish`, a
clearing of the queue, or nothing.

**TurnControllerProofs.** `TimerInv` (`TextIsTimed` and `NoTimerLeaks` together)
is inductive with the type invariant; the numbers of timers only grow, so a late
callback's number is never that of a newer timer. `FreshInv`, the pending words
are newer than the last reset, gives `ResetsSeparateTurns`. `ClosedIsSilent` is
an action property of every step. `YieldsAreEarned` compares the controller's
counter of loud frames with the observer's. `SegmentsOnce` is an induction over
where a segment is: not heard yet, pending, in a signal under way, delivered,
dropped, or lost at a reset, and in one place only.

**AppSessionsProofs.** `TypeInv` is the type invariant with `ThreadInv`: what a
turn refers to (the thread it will resume, the connection it looked up or
opened) was made in its workspace and, past the reuse test, with its
configuration. This is carried through every step of the turn, which is why
neither a moving focus nor a foreign command can break `ThreadsStayHome` and
`TurnsRunAsBound`. `LeakInv` says of every open connection who is responsible
for it (the pool, the turn that opened it, or a client that sweeps) and that
only clients in a sweep or a close hold connections; it gives `NothingLeaks`.
`QuietInv` says that once Shutdown's wait was over no turn runs and, once the
pool was emptied, nothing is in it; with `LeakInv` it gives
`ShutdownClosesAll`.

`NothingOldIsResumed` is about the other instance of `MCAppSessions`, where turns and
commands come one at a time: its hypothesis is the constraint of the run
(`[][InInstance]`), because without it the specification violates what it says. From
the count in `OneAtATime` it uses that of two actors one is idle, which needs finite
sets of sessions and clients (`FinitelyMany`). `OrderInv` says where an old thread
could still come from, and that it does not: whatever is stored for a session, in the
pool or with the turn at work is newer than what the session was promised to leave
(`Stored`, `Follows`), and a command under way has already dropped, step by step, what
it is going to promise (`Drops`): `/clear` the pool, then the threads, `/compact` the
pooled connection of its session, then its thread. Nothing refills the pool in
between, since no turn runs; that is where an interleaved turn breaks the promise.

**AppServerTurnProofs.** `RequestInv` says where an approval is between the
service's question and its answer: with the turn that asked, which is at the step
that goes with the pending entry, the channel or the hand of a client. It gives
`PendingIsRead` and `DecisionsAreGiven`, for any numbers of turns, connections and
faults.

`AnswersAreOwn` is harder, because it is about all turns a connection has ever
carried: what an earlier turn left unread must not be taken for the answer of the
next. `AnswerInv` keeps an account. `Balance`: on an open session, the completions
the service still owes, those on the wire and those a reader has read are together no
more than the readers; so a reader that returns takes one with it, and when the last
has returned nothing is left. `Tidy`: what is on the wire ends with a completion,
or the service goes on; so with no completion left the wire is empty. `Alone` says
that who shares its connection is known to, and `Own` follows a turn that does not: the
service speaks on its connection for it only, and the last text on the wire, or in its
hand when the wire has none, is the last the service said for it. Cardinalities need
finite sets; that finitely many turns have begun (`Few`) is part of the invariant and not
an assumption on `Turns`. The steps are sorted into a few kinds first (a turn that
leaves, is registered, sends, reads, returns, a service that speaks), and each kind is
shown to keep each part of the account.

**MeetingCaptureProofs.** `Owned` with the type invariant: every open session
belongs to an active websocket, a step that is about to end it, or a sweep that
will still see it. It gives `SessionsAreOwned` for any requests. `OffStopsAll` and
`CapturesAreOpen` assume that requests come one at a time (`OneRequest`), which the
server does not see to; the finding above shows what is lost without it.

**ItemGesturesProofs.** `KeepInv` speaks of the windows besides whose gesture
nothing has changed anything: the snapshot is the row before the gesture; a source
that agreed with the row before and whose gesture has no marker still agrees with the
snapshot, or is done and may stay so (a task, or the message of a gesture with
`syncError`); and an undo of a gesture with a marker sets the source back before it
restores the row. From it follows `UndoesRestore`, with the same exception and no
other; the row is restored in every case.

**WorkspaceWatchProofs.** `TypeCorrect` includes that the tracker has a handle just
while a goroutine runs. `NotedInv` says that what a batch has recorded as completed is
done, that an item whose completion is about to be recorded is done, and that no
batch has recorded the one that is about to be marked. It holds over a crash because
the item is taken out of the inbox before it is recorded, and it gives `NothingTwice`,
that is `CompletedOnce`. The theorems assume only that `MaxBatches` is a number.

**CompanionProofs.** `CalmInv` follows an address that was heard while nothing went on:
until its turn is queued nothing is queued or running and no other segment is judged,
so none of the four ways to be turned back is open, neither the gate nor the cool-down
nor a busy chat nor a stale pending answer, which is interrupted. It gives
`AddressesAreAnswered`, that is `AddressIsAnswered`, for any rooms, segments and turns
of the user; 0 must not be a room.

**The runs that combine.** A behaviour of `MCAnswers` or `MCEndings` is, in the variables
of each model, a behaviour of that model (`ItemPart`, `TurnPart`, `MeetingPart`,
`CapturePart`, `WatchPart`: a step of one part leaves the others' variables as they
are). With the theorems of the instanced modules this gives `AllTyped`, `AnswersAreOwn`
and `AddressesAreAnswered` of the first (`ItemGesturesProofs`) and `AllTyped` and
`DoneIsDone` of the second (`MeetingCaptureProofs`), in the very words of the properties
the runs check.

With these, every invariant of the passing runs, every action property and the
refinement of `ChatTurns` are theorems.

## What is only model-checked

- Liveness (`QueueIsServed`, `CancelReleasesSession`, `CommandsReturn`,
  `EverySegmentSettles`, `CancelledTurnsReturn`, `CompletedTurnsReturn`,
  `OffEndsSessions`, `StopEnds`, `EnabledIsWatched`): fairness and `ENABLED` are out
  of the prover's reach.
- The counterexamples of the six runs that end in one. Of two of them a theorem says
  what is true instead: `OffStopsAll` under one request at a time, and
  `NothingOldIsResumed` without a focus and with one thing at a time.

## What is not modelled

`PROJECT.json` lists every component with its reason. In short: what a turn says
(prompts, intents, tools, rendering), the providers and their formats, speech and
device input, the clients, and the SQL of the store are data or I/O; they are most
of the repository's lines. The server's own clients reach the models as commands,
messages and audio events in any order.

The loops around sources (polling, push, the refresh queue of mail, account sync)
do have concurrency: a running sync is joined, a message may be queued again
between its listing and its removal. Nothing in the repository says what a
reader may rely on there, except that mirrored rows come to agree with their
source, which ends at the providers. Confirmations are one entry per chat
session, read and written by the session's one worker.

## The plan

Done: `TurnQueue` with `ChatTurns`, `TurnController`, `AppSessions`, the turn's reader
with its approvals, the companion, meeting capture, watches and batches, and items,
all with proofs of their safety properties.

Left, in the order of importance:

1. **Theorems beside the findings**: under which conditions `NothingRunningIsTrue`,
   `ResumedThreadKnowsChat`, `StopIsHeeded` and `UndoReverses` do hold, with the
   invariants behind them, as `OffStopsAll` and `NothingOldIsResumed` have it.
2. **Abstract specifications** of the pool (a workspace has a connection and a thread,
   a command replaces both) and of the watch (on or off, items done once), with
   `AppSessions` and `WorkspaceWatch` shown to implement them where they do.
3. **AppServerTurn composed with AppSessions**: the pool's rule of when two turns
   share a connection as the environment of the reader.
4. **Sources** as the environment of `ItemGestures`: the periodic syncs instead of an
   edit that is never mirrored.
5. **Items**: children and review.
6. **Hotword training**: the generation inside a pipeline runs without the claim that a
   generation on its own makes, so two generations may write one status, and without
   the list of models that goes with the claim.

## Running it

    tlc -workers 2 -config MCTurnQueue.cfg MCTurnQueue
    tlc -workers 2 -config MCReturns.cfg MCReturns
    tlc -workers 2 -config MCAppSessions.cfg MCAppSessions
    tlapm ItemGesturesProofs.tla

`PROJECT.json` names the module and configuration of each run, the mutants that
show that each property can fail, the lines each definition translates, and the
theorems.
