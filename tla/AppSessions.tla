----------------------------- MODULE AppSessions -----------------------------
(***************************************************************************)
(* The pool of persistent app-server sessions (App.chatAppSessions,        *)
(* src/internal/web/chat_queue.go, with src/internal/appserver/session.go): *)
(* how a turn finds or opens the connection it runs on, how a failed or    *)
(* cancelled turn gives it up, and the commands that close sessions        *)
(* (/clear, /compact, a change of workspace focus, Shutdown).              *)
(*                                                                         *)
(* A chat session stands for its workspace too: every workspace has one    *)
(* (GetOrCreateChatSessionForWorkspace), and its turns run in the focused  *)
(* workspace when one is set explicitly.  One action is one critical       *)
(* section of App.mu or Session.mu, or one database statement.             *)
(*                                                                         *)
(* Connections are numbered in the order they are opened; a thread has the *)
(* number of the connection that started it, 0 is none.                    *)
(***************************************************************************)
EXTENDS Naturals, FiniteSets

CONSTANTS Sessions,   \* chat sessions, and the workspaces they belong to
          Clients,    \* goroutines that execute commands
          Configs,    \* models and thread parameters (approval policy)
          Commands,   \* the kinds of command the clients may issue
          Focusable,  \* bound: workspaces that are focused explicitly
          NoFocus,    \* no workspace is focused explicitly
          MaxConns    \* bound: connections opened

ASSUME SessionsAssumption == Sessions # {}
ASSUME MaxConnsAssumption == MaxConns \in Nat
ASSUME ConfigsAssumption == Configs # {}
ASSUME CommandsAssumption ==
  Commands \subseteq {"focus", "clear", "compact", "shutdown"}
ASSUME FocusableAssumption == Focusable \subseteq Sessions
ASSUME NoFocusAssumption == NoFocus \notin Sessions

VARIABLES
  focus,      \* the explicitly focused workspace
  threadOf,   \* AppThreadID of each chat session (database)
  pool,       \* chatAppSessions: the connection of each binding session
  made,       \* how many connections were opened
  info,       \* what a connection was opened with
  open,       \* connections whose websocket is open
  closed,     \* connections whose Session.closed is set
  doomed,     \* cancelled turns' connections: the AfterFunc is due
  told,       \* threads that were sent the history of their chat
  turn,       \* the turn each session's worker executes
  client,     \* the command each client executes
  down,       \* how far Shutdown got: "up", "requested", "down"
  forgotten   \* observer: threads a command promised to leave

sessions == <<pool, made, info, open, closed>>
vars == <<focus, threadOf, pool, made, info, open, closed, doomed, told, turn,
          client, down, forgotten>>
\* The state without its observers, which no step depends on: a VIEW for runs.
system == <<focus, threadOf, sessions, doomed, turn, client, down>>

ConnIds == 1..MaxConns
ConnOrNone == 0..MaxConns
Conn == [workspace : Sessions, config : Configs, thread : ConnOrNone]

TurnPc == {"idle", "begin", "bind", "look", "reuse", "dial", "pool", "save",
           "start", "turn", "failed", "take", "close",
           "legacy", "legacyDial", "legacyTurn"}
Turn == [pc : TurnPc, key : Sessions, config : Configs, resume : ConnOrNone,
         conn : ConnOrNone, resumed : BOOLEAN, avoid : ConnOrNone]

ClientPc == {"idle", "cancel", "wait", "swap", "sweep", "reset", "rebind",
             "take", "close"}
Client == [pc : ClientPc, kind : Commands \cup {"none"}, session : Sessions,
           key : Sessions, todo : SUBSET Sessions, closing : SUBSET ConnIds,
           old : ConnOrNone]

BindingOf(s) == IF focus = NoFocus THEN s ELSE focus
WithNil == {pool[s] : s \in Sessions}
Pooled == {pool[s] : s \in Sessions} \ {0}
Running(s) == turn[s].pc = "turn"
Idle(s) == turn[s].pc = "idle"
Closing == UNION {client[k].closing : k \in Clients}
InHand == {turn[s].conn : s \in {t \in Sessions : turn[t].pc \in {"pool", "close"}}}
Blank == [pc |-> "idle", key |-> CHOOSE s \in Sessions : TRUE,
          config |-> CHOOSE c \in Configs : TRUE, resume |-> 0, conn |-> 0,
          resumed |-> FALSE, avoid |-> 0]
Failed == [Blank EXCEPT !.pc = "failed"]
NoCommand == [pc |-> "idle", kind |-> "none",
              session |-> CHOOSE s \in Sessions : TRUE,
              key |-> CHOOSE s \in Sessions : TRUE,
              todo |-> {}, closing |-> {}, old |-> 0]

\* What the steps test and compute.  Each is preceded by the deviation that a
\* run must detect (see the mutants of PROJECT.json).
AnyUsable(s) == turn[s].conn \in (1..made) \ closed
Reusable(s) ==
  /\ turn[s].conn \in (1..made) \ closed
  /\ info[turn[s].conn].workspace = turn[s].key
  /\ info[turn[s].conn].config = turn[s].config
KeepsOld(k) == {}
Replaced(k) == {pool[k]}
SavesForFocus(s) == BindingOf(s)
SavesFor(s) == turn[s].key
Watched(s) == {turn[s].conn}
KeepsThreads(s) == threadOf[s]
ForgetsThread(s) == 0

Init ==
  /\ focus = NoFocus
  /\ threadOf = [s \in Sessions |-> 0]
  /\ pool = [s \in Sessions |-> 0]
  /\ made = 0
  /\ info = [c \in ConnIds |-> [workspace |-> CHOOSE s \in Sessions : TRUE,
                                config |-> CHOOSE x \in Configs : TRUE,
                                thread |-> 0]]
  /\ open = {}
  /\ closed = {}
  /\ doomed = {}
  /\ told = {}
  /\ turn = [s \in Sessions |-> Blank]
  /\ client = [k \in Clients |-> NoCommand]
  /\ down = "up"
  /\ forgotten = [s \in Sessions |-> 0]

-----------------------------------------------------------------------------
(* A turn of session s: runCodexAssistantTurn and getOrCreateAppSession.   *)

\* A turn's step that moves only its own record, or that record and `open`.
Close(conns) ==
  /\ open' = open \ conns
  /\ closed' = closed \cup (conns \ {0})
Goes(s, record) == turn' = [turn EXCEPT ![s] = record]
GoesTo(s, pc) == turn' = [turn EXCEPT ![s].pc = pc]

\* The worker has taken a turn and seen no shutdown; turns that never ask for
\* a connection are left out.
BeginTurn(s) ==
  /\ turn[s].pc = "idle"
  /\ down = "up"
  /\ Goes(s, [Blank EXCEPT !.pc = "begin", !.avoid = forgotten[s]])
  /\ UNCHANGED <<focus, threadOf, sessions, doomed, told, client, down,
                 forgotten>>

\* Its workspace is the focused one or its own, its profile any.
BindWorkspace(s) ==
  /\ turn[s].pc = "begin"
  /\ \E x \in Configs :
       Goes(s, [turn[s] EXCEPT !.pc = "bind", !.key = BindingOf(s), !.config = x])
  /\ UNCHANGED <<focus, threadOf, sessions, doomed, told, client, down,
                 forgotten>>

\* GetOrCreateChatSessionForWorkspace reads the thread to resume.
ReadThread(s) ==
  /\ turn[s].pc = "bind"
  /\ Goes(s, [turn[s] EXCEPT !.pc = "look", !.resume = threadOf[turn[s].key]])
  /\ UNCHANGED <<focus, threadOf, sessions, doomed, told, client, down,
                 forgotten>>

LookUp(s) ==
  /\ turn[s].pc = "look"
  /\ Goes(s, [turn[s] EXCEPT !.pc = "reuse", !.conn = pool[turn[s].key]])
  /\ UNCHANGED <<focus, threadOf, sessions, doomed, told, client, down,
                 forgotten>>

\* The pooled session is open and matches: its thread knows the chat.
Reuse(s) ==
  /\ turn[s].pc = "reuse"
  /\ Reusable(s)
  /\ Goes(s, [turn[s] EXCEPT !.pc = "start", !.resume = 0, !.resumed = TRUE])
  /\ UNCHANGED <<focus, threadOf, sessions, doomed, told, client, down,
                 forgotten>>

\* Otherwise it is closed, whoever uses it.
Discard(s) ==
  /\ turn[s].pc = "reuse"
  /\ ~Reusable(s)
  /\ Close({turn[s].conn})
  /\ Goes(s, [turn[s] EXCEPT !.pc = "dial", !.conn = 0])
  /\ UNCHANGED <<focus, threadOf, pool, made, info, doomed, told, client, down,
                 forgotten>>

\* openSession: the service resumes the thread, or starts one.
Dial(s) ==
  LET c == made + 1
      Opened(thread) == [workspace |-> turn[s].key, config |-> turn[s].config,
                         thread |-> thread] IN
  /\ turn[s].pc = "dial"
  /\ made < MaxConns
  /\ made' = c
  /\ open' = open \cup {c}
  /\ \E thread \in {turn[s].resume, c} \ {0} :
       /\ info' = [info EXCEPT ![c] = Opened(thread)]
       /\ Goes(s, [turn[s] EXCEPT !.pc = "pool", !.conn = c, !.resume = 0,
                                  !.resumed = (thread # c)])
  /\ UNCHANGED <<focus, threadOf, pool, closed, doomed, told, client, down,
                 forgotten>>

\* The dial fails or its 15 seconds pass: the turn runs unpooled.
DialFails(s) ==
  /\ turn[s].pc = "dial"
  /\ Goes(s, [turn[s] EXCEPT !.pc = "legacy", !.resume = 0])
  /\ UNCHANGED <<focus, threadOf, sessions, doomed, told, client, down,
                 forgotten>>

\* Whatever the pool holds by now is closed and replaced.
PoolSession(s) ==
  LET k == turn[s].key IN
  /\ turn[s].pc = "pool"
  /\ Close(Replaced(k))
  /\ pool' = [pool EXCEPT ![k] = turn[s].conn]
  /\ GoesTo(s, IF turn[s].resumed THEN "start" ELSE "save")
  /\ UNCHANGED <<focus, threadOf, made, info, doomed, told, client, down,
                 forgotten>>

\* UpdateChatSessionThread(bindingSessionID, appSess.ThreadID()).
SaveThread(s) ==
  /\ turn[s].pc = "save"
  /\ threadOf' = [threadOf EXCEPT ![SavesFor(s)] = info[turn[s].conn].thread]
  /\ GoesTo(s, "start")
  /\ UNCHANGED <<focus, sessions, doomed, told, client, down, forgotten>>

\* The prompt is empty or a plugin's hook refuses it: nothing is sent.
EndUnsent(s) ==
  /\ turn[s].pc = "start"
  /\ Goes(s, Blank)
  /\ UNCHANGED <<focus, threadOf, sessions, doomed, told, client, down,
                 forgotten>>

\* The turn is registered; a closed session refuses it, else turn/start is
\* written: the whole history to a new thread, the last message to a resumed one.
StartTurn(s) ==
  LET refused == turn[s].conn \in closed IN
  /\ turn[s].pc = "start"
  /\ Goes(s, IF refused THEN Failed ELSE [turn[s] EXCEPT !.pc = "turn"])
  /\ told' = IF refused \/ turn[s].resumed
             THEN told ELSE told \cup {info[turn[s].conn].thread}
  /\ UNCHANGED <<focus, threadOf, sessions, doomed, client, down, forgotten>>

Answered(s) ==
  /\ Running(s)
  /\ turn[s].conn \in open
  /\ Goes(s, Blank)
  /\ UNCHANGED <<focus, threadOf, sessions, doomed, told, client, down,
                 forgotten>>

\* The service reports an error or hangs up: markClosed, the socket stays.
ServiceError(s) ==
  /\ Running(s)
  /\ turn[s].conn \in open
  /\ closed' = closed \cup {turn[s].conn}
  /\ Goes(s, Failed)
  /\ UNCHANGED <<focus, threadOf, pool, made, info, open, doomed, told, client,
                 down, forgotten>>

\* Somebody closed the socket under the reader.
ReadError(s) ==
  /\ Running(s)
  /\ turn[s].conn \notin open
  /\ Goes(s, Failed)
  /\ UNCHANGED <<focus, threadOf, sessions, doomed, told, client, down,
                 forgotten>>

\* A user cancels the running turn: its context's AfterFunc will close the
\* session, even when the turn has ended meanwhile.
CancelTurn(s) ==
  /\ Running(s)
  /\ doomed' = doomed \cup Watched(s)
  /\ UNCHANGED <<focus, threadOf, sessions, told, turn, client, down,
                 forgotten>>

CloseDue(c) ==
  /\ c \in doomed
  /\ doomed' = doomed \ {c}
  /\ Close({c})
  /\ UNCHANGED <<focus, threadOf, pool, made, info, told, turn, client, down,
                 forgotten>>

\* closeAppSession after a failed turn: the binding is looked up again.
RebindFailed(s) ==
  /\ turn[s].pc = "failed"
  /\ Goes(s, [turn[s] EXCEPT !.pc = "take", !.key = BindingOf(s)])
  /\ UNCHANGED <<focus, threadOf, sessions, doomed, told, client, down,
                 forgotten>>

TakeFailed(s) ==
  /\ turn[s].pc = "take"
  /\ pool' = [pool EXCEPT ![turn[s].key] = 0]
  /\ Goes(s, [turn[s] EXCEPT !.pc = "close", !.conn = pool[turn[s].key]])
  /\ UNCHANGED <<focus, threadOf, made, info, open, closed, doomed, told,
                 client, down, forgotten>>

CloseFailed(s) ==
  /\ turn[s].pc = "close"
  /\ Close({turn[s].conn})
  /\ Goes(s, Blank)
  /\ UNCHANGED <<focus, threadOf, pool, made, info, doomed, told, client, down,
                 forgotten>>

-----------------------------------------------------------------------------
(* runAssistantTurnLegacy: one turn on a connection and a thread of its    *)
(* own, which becomes the thread of the binding session.                   *)

LegacyBind(s) ==
  /\ turn[s].pc = "legacy"
  /\ Goes(s, [turn[s] EXCEPT !.pc = "legacyDial", !.key = BindingOf(s)])
  /\ UNCHANGED <<focus, threadOf, sessions, doomed, told, client, down,
                 forgotten>>

\* thread_started: the thread is saved before the turn is sent.
LegacyThread(s) ==
  LET c == made + 1 IN
  /\ turn[s].pc = "legacyDial"
  /\ made < MaxConns
  /\ made' = c
  /\ info' = [info EXCEPT ![c] = [workspace |-> turn[s].key, thread |-> c,
                                  config |-> turn[s].config]]
  /\ threadOf' = [threadOf EXCEPT ![SavesFor(s)] = c]
  /\ Goes(s, [turn[s] EXCEPT !.pc = "legacyTurn", !.conn = c])
  /\ UNCHANGED <<focus, pool, open, closed, doomed, told, client, down,
                 forgotten>>

LegacySend(s) ==
  /\ turn[s].pc = "legacyTurn"
  /\ told' = told \cup {turn[s].conn}
  /\ Goes(s, Blank)
  /\ UNCHANGED <<focus, threadOf, sessions, doomed, client, down, forgotten>>

LegacyFails(s) ==
  /\ turn[s].pc \in {"legacyDial", "legacyTurn"}
  /\ Goes(s, Blank)
  /\ UNCHANGED <<focus, threadOf, sessions, doomed, told, client, down,
                 forgotten>>

-----------------------------------------------------------------------------
(* The commands.                                                           *)

Issue(k, kind, pc) ==
  /\ kind \in Commands
  /\ client[k].pc = "idle"
  /\ client' = [client EXCEPT ![k] = [NoCommand EXCEPT !.pc = pc, !.kind = kind]]
IssueFor(k, kind, s, pc) ==
  /\ kind \in Commands
  /\ client[k].pc = "idle"
  /\ client' = [client EXCEPT ![k] =
       [NoCommand EXCEPT !.pc = pc, !.kind = kind, !.session = s, !.old = made,
                         !.todo = IF kind = "clear" THEN Sessions ELSE {}]]
Finish(k) == client' = [client EXCEPT ![k] = NoCommand]
Moves(k, pc) == client' = [client EXCEPT ![k].pc = pc]
\* From now on no turn of s that starts later may run on threads up to n.
Forget(s, n) == forgotten' = [forgotten EXCEPT ![s] = IF @ < n THEN n ELSE @]
ForgetAll(n) ==
  forgotten' = [s \in Sessions |-> IF forgotten[s] < n THEN n ELSE forgotten[s]]

\* setFocusedWorkspace writes the focus, then closes every session.
SetFocus(k) ==
  /\ Issue(k, "focus", "swap")
  /\ focus' \in Focusable \cup {NoFocus}
  /\ UNCHANGED <<threadOf, sessions, doomed, told, turn, down, forgotten>>

Clear(k, s) ==
  /\ IssueFor(k, "clear", s, "cancel")
  /\ UNCHANGED <<focus, threadOf, sessions, doomed, told, turn, down,
                 forgotten>>

\* cancelChatWork of one session after the other; each drain may time out.
CancelSession(k) ==
  /\ client[k].pc = "cancel"
  /\ \E s \in client[k].todo :
       /\ client' = [client EXCEPT ![k].todo = @ \ {s}]
       /\ doomed' = IF Running(s) THEN doomed \cup Watched(s) ELSE doomed
  /\ UNCHANGED <<focus, threadOf, sessions, told, turn, down, forgotten>>

CancelDone(k) ==
  /\ client[k].pc = "cancel"
  /\ client[k].todo = {}
  /\ Moves(k, "swap")
  /\ UNCHANGED <<focus, threadOf, sessions, doomed, told, turn, down,
                 forgotten>>

\* Shutdown cancels every turn and waits for the workers.
Shutdown(k) ==
  /\ down = "up"
  /\ Issue(k, "shutdown", "wait")
  /\ down' = "requested"
  /\ doomed' = doomed \cup UNION {Watched(t) : t \in {t \in Sessions : Running(t)}}
  /\ UNCHANGED <<focus, threadOf, sessions, told, turn, forgotten>>

NoWait == TRUE
WorkersIdle == \A s \in Sessions : Idle(s)
WorkersDone(k) ==
  /\ client[k].pc = "wait"
  /\ WorkersIdle
  /\ Moves(k, "swap")
  /\ UNCHANGED <<focus, threadOf, sessions, doomed, told, turn, down,
                 forgotten>>

\* closeAllAppSessions and clearAllAgentsAndContexts empty the map at once ...
SwapPool(k) ==
  /\ client[k].pc = "swap"
  /\ pool' = [s \in Sessions |-> 0]
  /\ client' = [client EXCEPT ![k].pc = "sweep", ![k].closing = Pooled]
  /\ UNCHANGED <<focus, threadOf, made, info, open, closed, doomed, told, turn,
                 down, forgotten>>

\* ... and close its sessions one by one.
CloseOne(k) ==
  /\ client[k].pc = "sweep"
  /\ \E c \in client[k].closing :
       /\ Close({c})
       /\ client' = [client EXCEPT ![k].closing = @ \ {c}]
  /\ UNCHANGED <<focus, threadOf, pool, made, info, doomed, told, turn, down,
                 forgotten>>

Swept(k) ==
  /\ client[k].pc = "sweep"
  /\ client[k].closing = {}
  /\ IF client[k].kind = "clear" THEN Moves(k, "reset") ELSE Finish(k)
  /\ down' = IF client[k].kind = "shutdown" THEN "down" ELSE down
  /\ UNCHANGED <<focus, threadOf, sessions, doomed, told, turn, forgotten>>

ResetAllThreads(k) ==
  /\ client[k].pc = "reset"
  /\ client[k].kind = "clear"
  /\ threadOf' = [s \in Sessions |-> ForgetsThread(s)]
  /\ Moves(k, "rebind")
  /\ UNCHANGED <<focus, sessions, doomed, told, turn, down, forgotten>>

\* /compact, and a new chat model: closeAppSession first.
Compact(k, s) ==
  /\ IssueFor(k, "compact", s, "rebind")
  /\ UNCHANGED <<focus, threadOf, sessions, doomed, told, turn, down,
                 forgotten>>

Rebind(k) ==
  /\ client[k].pc = "rebind"
  /\ client' = [client EXCEPT ![k].pc = "take",
                              ![k].key = BindingOf(client[k].session)]
  /\ UNCHANGED <<focus, threadOf, sessions, doomed, told, turn, down,
                 forgotten>>

TakeSession(k) ==
  LET s == client[k].key IN
  /\ client[k].pc = "take"
  /\ pool' = [pool EXCEPT ![s] = 0]
  /\ client' = [client EXCEPT ![k].pc = "close",
                              ![k].closing = {pool[s]} \ {0}]
  /\ UNCHANGED <<focus, threadOf, made, info, open, closed, doomed, told, turn,
                 down, forgotten>>

CloseTaken(k) ==
  /\ client[k].pc = "close"
  /\ Close(client[k].closing)
  /\ IF client[k].kind = "compact"
     THEN /\ client' = [client EXCEPT ![k].pc = "reset", ![k].closing = {}]
          /\ UNCHANGED forgotten
     ELSE Finish(k) /\ ForgetAll(client[k].old)
  /\ UNCHANGED <<focus, threadOf, pool, made, info, doomed, told, turn, down>>

\* The command then resets the thread of the session it was given.
ResetThread(k) ==
  LET s == client[k].session IN
  /\ client[k].pc = "reset"
  /\ client[k].kind = "compact"
  /\ threadOf' = [threadOf EXCEPT ![s] = ForgetsThread(s)]
  /\ Finish(k)
  /\ Forget(s, client[k].old)
  /\ UNCHANGED <<focus, sessions, doomed, told, turn, down>>

-----------------------------------------------------------------------------
TurnStep(s) ==
  \/ BeginTurn(s) \/ BindWorkspace(s) \/ ReadThread(s) \/ LookUp(s)
  \/ Reuse(s) \/ Discard(s) \/ Dial(s) \/ DialFails(s) \/ PoolSession(s)
  \/ SaveThread(s) \/ EndUnsent(s) \/ StartTurn(s) \/ Answered(s) \/ ServiceError(s)
  \/ ReadError(s) \/ RebindFailed(s) \/ TakeFailed(s) \/ CloseFailed(s)
  \/ LegacyBind(s) \/ LegacyThread(s) \/ LegacySend(s) \/ LegacyFails(s)

IssueStep(k) ==
  \/ SetFocus(k) \/ Shutdown(k)
  \/ \E s \in Sessions : Clear(k, s) \/ Compact(k, s)

CommandStep(k) ==
  \/ CancelSession(k) \/ CancelDone(k) \/ WorkersDone(k)
  \/ SwapPool(k) \/ CloseOne(k) \/ Swept(k) \/ ResetAllThreads(k)
  \/ Rebind(k) \/ TakeSession(k) \/ CloseTaken(k) \/ ResetThread(k)

Next ==
  \/ \E s \in Sessions : TurnStep(s) \/ CancelTurn(s)
  \/ \E c \in ConnIds : CloseDue(c)
  \/ \E k \in Clients : CommandStep(k) \/ IssueStep(k)

Spec == Init /\ [][Next]_vars

\* Turns and commands one after the other, never two at a time: a constraint of
\* runs.
OneAtATime ==
  Cardinality({s \in Sessions : turn'[s].pc # "idle"})
    + Cardinality({k \in Clients : client'[k].pc # "idle"}) <= 1

-----------------------------------------------------------------------------
\* Types of the variables; connections are numbered without gaps.
TypeOK ==
  /\ focus \in Sessions \cup {NoFocus}
  /\ threadOf \in [Sessions -> 0..made]
  /\ pool \in [Sessions -> 0..made]
  /\ made \in ConnOrNone
  /\ info \in [ConnIds -> Conn]
  /\ open \in SUBSET (1..made)
  /\ closed \in SUBSET (1..made)
  /\ doomed \in SUBSET (1..made)
  /\ told \in SUBSET (1..made)
  /\ turn \in [Sessions -> Turn]
  /\ client \in [Clients -> Client]
  /\ down \in {"up", "requested", "down"}
  /\ forgotten \in [Sessions -> ConnOrNone]

\* No websocket is lost (getOrCreateAppSession opens it without a lock while
\* others replace, sweep or drop pool entries): every open connection is in the
\* pool, or with the turn that opened it, or in the hands of who closes it.
NoLeak == open \subseteq Pooled \cup InHand \cup Closing

\* When Shutdown's wait for the workers succeeded, the only connections open
\* are those another command is about to close.
QuietShutdown == down = "down" => open \subseteq Closing

\* Threads never cross workspaces, though the focus may change between the
\* lookup of the binding, the dial and the write of the thread: a session's
\* stored thread, and the one a turn runs on, were started in its workspace.
ThreadsKeepWorkspace ==
  /\ \A s \in Sessions : threadOf[s] # 0 => info[threadOf[s]].workspace = s
  /\ \A s \in Sessions : Running(s) =>
       info[info[turn[s].conn].thread].workspace = turn[s].key

\* A turn runs on a connection opened for its workspace, model and approval
\* policy, whoever opened it.
TurnRunsAsBound ==
  \A s \in Sessions : Running(s) =>
    /\ info[turn[s].conn].workspace = turn[s].key
    /\ info[turn[s].conn].config = turn[s].config

\* A turn whose prompt is "for a resumed thread: only the latest user message"
\* (chat_prompt.go:298) runs on a thread that was sent the chat before.
ResumedThreadKnowsChat ==
  \A s \in Sessions :
    Running(s) /\ turn[s].resumed => info[turn[s].conn].thread \in told

\* A turn that begins after /clear or /compact returned never runs on a thread
\* from before it ("Next message starts a fresh app-server thread").
StaysForgotten ==
  \A s \in Sessions :
    Running(s) => info[turn[s].conn].thread > turn[s].avoid
=============================================================================
