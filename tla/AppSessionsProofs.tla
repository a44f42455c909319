--------------------------- MODULE AppSessionsProofs ---------------------------
(***************************************************************************)
(* Proofs about AppSessions for any sets of chat sessions, clients and     *)
(* model configurations and any number of connections: its types, that a   *)
(* turn runs on a connection and a thread of the workspace it was bound    *)
(* to, that no connection is leaked, that a quiet Shutdown closes them     *)
(* all, and that turns and commands which come one at a time leave behind  *)
(* the threads that /clear and /compact promise to leave (MCAppSessions).  *)
(***************************************************************************)
EXTENDS MCAppSessions, FiniteSetTheorems, TLAPS

USE SessionsAssumption, MaxConnsAssumption, ConfigsAssumption,
    CommandsAssumption, FocusableAssumption, NoFocusAssumption

\* Where a turn is on its way to, or on, a connection it may use.
OnConn == {"pool", "save", "start", "turn"}

\* What a turn's record refers to, among m connections opened as conns says,
\* belongs to the workspace it was bound to.
Refs(r, m, conns) ==
  /\ r.conn \in 0..m /\ r.resume \in 0..m
  /\ r.resume # 0 => /\ r.pc \in {"look", "reuse", "dial"}
                     /\ conns[r.resume].workspace = r.key
  /\ r.pc \in OnConn => /\ r.conn # 0
                        /\ conns[r.conn].workspace = r.key
                        /\ conns[r.conn].config = r.config
  /\ r.pc = "legacyTurn" => r.conn # 0

\* A thread belongs to the workspace of every connection on it, and of the
\* session that stores it.
Threads ==
  /\ \A c \in 1..made : /\ info[c].thread \in 1..made
                        /\ info[info[c].thread].workspace = info[c].workspace
  /\ \A s \in Sessions : threadOf[s] # 0 => info[threadOf[s]].workspace = s

ThreadInv ==
  /\ Threads
  /\ \A s \in Sessions : Refs(turn[s], made, info)
  /\ \A k \in Clients : client[k].closing \subseteq 1..made

TypeInv == TypeOK /\ ThreadInv

-----------------------------------------------------------------------------
(* The records of the model.                                               *)

\* A turn that has ended, or failed, is typed.
LEMMA BlankTyped ==
  /\ Blank \in Turn /\ Failed \in Turn
  /\ Blank.pc = "idle" /\ Failed.pc = "failed"
  /\ Blank.conn = 0 /\ Failed.conn = 0
  /\ Blank.resume = 0 /\ Failed.resume = 0
<1>1. \E s \in Sessions : TRUE
  OBVIOUS
<1>2. \E c \in Configs : TRUE
  OBVIOUS
<1>3. (CHOOSE s \in Sessions : TRUE) \in Sessions
  BY <1>1
<1>4. (CHOOSE c \in Configs : TRUE) \in Configs
  BY <1>2
<1>5. Blank \in Turn /\ Blank.pc = "idle" /\ Blank.conn = 0 /\ Blank.resume = 0
  BY <1>3, <1>4 DEF Blank, Turn, TurnPc, ConnOrNone
<1>. QED
  BY <1>5 DEF Failed, Turn, TurnPc

\* A client without a command is typed.
LEMMA NoCommandTyped ==
  /\ NoCommand \in Client
  /\ NoCommand.pc = "idle" /\ NoCommand.kind = "none"
  /\ NoCommand.closing = {}
<1>1. (CHOOSE s \in Sessions : TRUE) \in Sessions
  OBVIOUS
<1>. QED
  BY <1>1 DEF NoCommand, Client, ClientPc, ConnOrNone

-----------------------------------------------------------------------------
(* Type correctness.                                                       *)

\* The program starts in a well-typed state.
LEMMA InitTypeInv == Init => TypeInv
<1> SUFFICES ASSUME Init
             PROVE  TypeInv
  OBVIOUS
<1>1. (CHOOSE s \in Sessions : TRUE) \in Sessions
  OBVIOUS
<1>2. (CHOOSE x \in Configs : TRUE) \in Configs
  OBVIOUS
<1>3. info \in [ConnIds -> Conn]
  BY <1>1, <1>2 DEF Init, Conn, ConnOrNone
<1>4. TypeOK
  BY <1>3, BlankTyped, NoCommandTyped DEF Init, TypeOK, ConnOrNone
<1>5. ThreadInv
  BY BlankTyped, NoCommandTyped DEF Init, ThreadInv, Threads, Refs, OnConn
<1>. QED
  BY <1>4, <1>5 DEF TypeInv

\* Every step of a turn keeps the record of the turn in its type.
LEMMA TurnTyped ==
  ASSUME TypeInv, NEW s \in Sessions, TurnStep(s)
  PROVE  turn' \in [Sessions -> Turn]
<1>. USE BlankTyped
<1>1. /\ turn \in [Sessions -> Turn] /\ focus \in Sessions \cup {NoFocus}
      /\ threadOf \in [Sessions -> ConnOrNone] /\ pool \in [Sessions -> ConnOrNone]
      /\ forgotten \in [Sessions -> ConnOrNone]
      /\ made + 1 \in Nat /\ 0 \in ConnOrNone
      /\ made < MaxConns => made + 1 \in ConnOrNone
      /\ BindingOf(s) \in Sessions /\ made + 1 # 0
  BY DEF TypeInv, TypeOK, ConnOrNone, BindingOf
<1>0. CASE BeginTurn(s)
  <2>1. [Blank EXCEPT !.pc = "begin", !.avoid = forgotten[s]] \in Turn
    BY <1>1 DEF Turn, TurnPc
  <2>. QED
    BY <1>0, <1>1, <2>1 DEF BeginTurn, Goes
<1>2. CASE BindWorkspace(s)
  <2>1. PICK x \in Configs :
          Goes(s, [turn[s] EXCEPT !.pc = "bind", !.key = BindingOf(s),
                                  !.config = x])
    BY <1>2 DEF BindWorkspace
  <2>2. [turn[s] EXCEPT !.pc = "bind", !.key = BindingOf(s), !.config = x] \in Turn
    BY <1>1 DEF Turn, TurnPc
  <2>. QED
    BY <1>1, <2>1, <2>2 DEF Goes
<1>3. CASE ReadThread(s)
  BY <1>1, <1>3 DEF ReadThread, Turn, TurnPc, Goes
<1>4. CASE LookUp(s)
  BY <1>1, <1>4 DEF LookUp, Turn, TurnPc, Goes
<1>5. CASE Reuse(s)
  BY <1>1, <1>5 DEF Reuse, Turn, TurnPc, Goes
<1>6. CASE Discard(s)
  BY <1>1, <1>6 DEF Discard, Turn, TurnPc, Goes
<1>7. CASE Dial(s)
  <2>1. PICK thread \in {turn[s].resume, made + 1} \ {0} :
          Goes(s, [turn[s] EXCEPT !.pc = "pool", !.conn = made + 1, !.resume = 0,
                                  !.resumed = (thread # made + 1)])
    BY <1>7 DEF Dial
  <2>2. made + 1 \in ConnOrNone /\ (thread # made + 1) \in BOOLEAN
    BY <1>1, <1>7 DEF Dial
  <2>3. [turn[s] EXCEPT !.pc = "pool", !.conn = made + 1, !.resume = 0,
                        !.resumed = (thread # made + 1)] \in Turn
    BY <1>1, <2>2 DEF Turn, TurnPc
  <2>. QED
    BY <1>1, <2>1, <2>3 DEF Goes
<1>8. CASE DialFails(s)
  BY <1>1, <1>8 DEF DialFails, Turn, TurnPc, Goes
<1>9. CASE PoolSession(s)
  BY <1>1, <1>9 DEF PoolSession, Turn, TurnPc, GoesTo
<1>10. CASE SaveThread(s)
  BY <1>1, <1>10 DEF SaveThread, Turn, TurnPc, GoesTo
<1>11. CASE EndUnsent(s)
  BY <1>1, <1>11 DEF EndUnsent, Turn, TurnPc, Goes
<1>12. CASE StartTurn(s)
  BY <1>1, <1>12 DEF StartTurn, Turn, TurnPc, Goes
<1>13. CASE Answered(s)
  BY <1>1, <1>13 DEF Answered, Turn, TurnPc, Goes
<1>14. CASE ServiceError(s)
  BY <1>1, <1>14 DEF ServiceError, Turn, TurnPc, Goes
<1>15. CASE ReadError(s)
  BY <1>1, <1>15 DEF ReadError, Turn, TurnPc, Goes
<1>16. CASE RebindFailed(s)
  BY <1>1, <1>16 DEF RebindFailed, Turn, TurnPc, Goes
<1>17. CASE TakeFailed(s)
  BY <1>1, <1>17 DEF TakeFailed, Turn, TurnPc, Goes
<1>18. CASE CloseFailed(s)
  BY <1>1, <1>18 DEF CloseFailed, Turn, TurnPc, Goes
<1>19. CASE LegacyBind(s)
  BY <1>1, <1>19 DEF LegacyBind, Turn, TurnPc, Goes
<1>20. CASE LegacyThread(s)
  BY <1>1, <1>20 DEF LegacyThread, Turn, TurnPc, Goes
<1>21. CASE LegacySend(s)
  BY <1>1, <1>21 DEF LegacySend, Turn, TurnPc, Goes
<1>22. CASE LegacyFails(s)
  BY <1>1, <1>22 DEF LegacyFails, Turn, TurnPc, Goes
<1>. QED
  BY <1>0, <1>2, <1>3, <1>4, <1>5, <1>6, <1>7, <1>8, <1>9, <1>10, <1>11, <1>12,
     <1>13, <1>14, <1>15, <1>16, <1>17, <1>18, <1>19, <1>20, <1>21, <1>22
     DEF TurnStep

\* What the pool holds, and what is taken from it, are connections.
LEMMA PooledTyped ==
  ASSUME TypeOK
  PROVE  /\ Pooled \subseteq 1..made
         /\ Pooled \subseteq ConnIds
         /\ \A s \in Sessions : {pool[s]} \ {0} \subseteq ConnIds
BY DEF TypeOK, Pooled, ConnIds, ConnOrNone

\* Every step of a command keeps the record of the client in its type.
LEMMA ClientTyped ==
  ASSUME TypeOK, NEW k \in Clients, CommandStep(k) \/ IssueStep(k)
  PROVE  client' \in [Clients -> Client]
<1>. USE NoCommandTyped
<1>1. /\ client \in [Clients -> Client]
      /\ made \in ConnOrNone
      /\ \A s \in Sessions : BindingOf(s) \in Sessions
  BY DEF TypeOK, BindingOf
<1>2. CASE CancelSession(k)
  BY <1>1, <1>2 DEF CancelSession, Client, ClientPc
<1>3. CASE CancelDone(k)
  BY <1>1, <1>3 DEF CancelDone, Client, ClientPc, Moves
<1>4. CASE WorkersDone(k)
  BY <1>1, <1>4 DEF WorkersDone, Client, ClientPc, Moves
<1>5. CASE SwapPool(k)
  BY <1>1, <1>5, PooledTyped DEF SwapPool, Client, ClientPc
<1>6. CASE CloseOne(k)
  BY <1>1, <1>6 DEF CloseOne, Client, ClientPc
<1>7. CASE Swept(k)
  BY <1>1, <1>7 DEF Swept, Client, ClientPc, Moves, Finish
<1>8. CASE ResetAllThreads(k)
  BY <1>1, <1>8 DEF ResetAllThreads, Client, ClientPc, Moves
<1>9. CASE Rebind(k)
  BY <1>1, <1>9 DEF Rebind, Client, ClientPc
<1>10. CASE TakeSession(k)
  BY <1>1, <1>10, PooledTyped DEF TakeSession, Client, ClientPc
<1>11. CASE CloseTaken(k)
  BY <1>1, <1>11 DEF CloseTaken, Client, ClientPc, Finish
<1>12. CASE ResetThread(k)
  BY <1>1, <1>12 DEF ResetThread, Client, ClientPc, Finish
<1>13. CASE SetFocus(k)
  BY <1>1, <1>13 DEF SetFocus, Client, ClientPc, Issue
<1>14. CASE Shutdown(k)
  BY <1>1, <1>14 DEF Shutdown, Client, ClientPc, Issue
<1>15. ASSUME NEW s \in Sessions, Clear(k, s)
      PROVE  client' \in [Clients -> Client]
  BY <1>1, <1>15 DEF Clear, IssueFor, Client, ClientPc
<1>16. ASSUME NEW s \in Sessions, Compact(k, s)
      PROVE  client' \in [Clients -> Client]
  BY <1>1, <1>16 DEF Compact, IssueFor, Client, ClientPc
<1>. QED
  BY <1>2, <1>3, <1>4, <1>5, <1>6, <1>7, <1>8, <1>9, <1>10, <1>11, <1>12, <1>13,
     <1>14, <1>15, <1>16 DEF CommandStep, IssueStep

\* Closing connections keeps the two sets of connections typed.
LEMMA CloseTyped ==
  ASSUME TypeOK, NEW C, C \subseteq 0..made, Close(C)
  PROVE  open' \in SUBSET (1..made) /\ closed' \in SUBSET (1..made)
BY DEF TypeOK, Close

\* The running turns, whose cancellation dooms their connections.
LEMMA WatchedTyped ==
  ASSUME ThreadInv
  PROVE  \A s \in Sessions : Running(s) => Watched(s) \subseteq 1..made
BY DEF ThreadInv, Refs, Running, Watched, OnConn

\* Every step of a turn keeps every variable in its type.
LEMMA TurnStepTyped ==
  ASSUME TypeOK, ThreadInv, NEW s \in Sessions, TurnStep(s)
  PROVE  TypeOK'
<1>1. turn' \in [Sessions -> Turn]
  BY TurnTyped DEF TypeInv
<1>2. /\ turn[s] \in Turn /\ turn[s].key \in Sessions /\ turn[s].config \in Configs
      /\ turn[s].conn \in 0..made /\ turn[s].resume \in 0..made
      /\ turn[s].pc \in OnConn => turn[s].conn \in 1..made
      /\ turn[s].pc = "legacyTurn" => turn[s].conn \in 1..made
      /\ turn[s].pc \in OnConn => info[turn[s].conn].thread \in 1..made
      /\ made \in Nat
  BY DEF TypeOK, ThreadInv, Threads, Refs, Turn, OnConn, ConnOrNone
<1>3. /\ threadOf \in [Sessions -> 0..made] /\ pool \in [Sessions -> 0..made]
      /\ info \in [ConnIds -> Conn]
  BY DEF TypeOK
<1>4. CASE \/ BeginTurn(s) \/ BindWorkspace(s) \/ ReadThread(s)
           \/ LookUp(s) \/ Reuse(s) \/ DialFails(s) \/ EndUnsent(s)
           \/ Answered(s) \/ ReadError(s) \/ RebindFailed(s) \/ LegacyBind(s) \/ LegacyFails(s)
  BY <1>1, <1>4
     DEF TypeOK, sessions, BeginTurn, BindWorkspace, ReadThread, LookUp, Reuse,
         DialFails, EndUnsent, Answered, ReadError, RebindFailed, LegacyBind, LegacyFails
<1>5. CASE Discard(s)
  <2>1. open' \in SUBSET (1..made) /\ closed' \in SUBSET (1..made)
    BY <1>2, <1>5, CloseTyped DEF Discard
  <2>. QED
    BY <1>1, <1>5, <2>1 DEF TypeOK, Discard
<1>6. CASE Dial(s)
  <2>1. made' = made + 1 /\ made' \in ConnOrNone /\ made' \in ConnIds
    BY <1>2, <1>6 DEF Dial, ConnOrNone, ConnIds
  <2>2. info' \in [ConnIds -> Conn]
    <3>1. PICK thread \in {turn[s].resume, made + 1} \ {0} :
            info' = [info EXCEPT ![made + 1] = [workspace |-> turn[s].key,
                       config |-> turn[s].config, thread |-> thread]]
      BY <1>6 DEF Dial
    <3>2. thread \in ConnOrNone
      BY <1>2, <2>1 DEF ConnOrNone
    <3>3. [workspace |-> turn[s].key, config |-> turn[s].config,
           thread |-> thread] \in Conn
      BY <1>2, <3>2 DEF Conn
    <3>. QED
      BY <1>3, <3>1, <3>3
  <2>3. /\ threadOf' \in [Sessions -> 0..made'] /\ pool' \in [Sessions -> 0..made']
        /\ open' \in SUBSET (1..made') /\ closed' \in SUBSET (1..made')
        /\ doomed' \in SUBSET (1..made') /\ told' \in SUBSET (1..made')
    BY <1>2, <1>3, <1>6, <2>1 DEF TypeOK, Dial
  <2>. QED
    BY <1>1, <1>6, <2>1, <2>2, <2>3 DEF TypeOK, Dial
<1>7. CASE PoolSession(s)
  <2>1. open' \in SUBSET (1..made) /\ closed' \in SUBSET (1..made)
    BY <1>2, <1>3, <1>7, CloseTyped DEF PoolSession, Replaced
  <2>2. pool' \in [Sessions -> 0..made]
    BY <1>2, <1>3, <1>7 DEF PoolSession
  <2>. QED
    BY <1>1, <1>7, <2>1, <2>2 DEF TypeOK, PoolSession
<1>8. CASE SaveThread(s)
  <2>1. threadOf' \in [Sessions -> 0..made]
    BY <1>2, <1>3, <1>8 DEF SaveThread, OnConn, SavesFor
  <2>. QED
    BY <1>1, <1>8, <2>1 DEF TypeOK, SaveThread, sessions
<1>9. CASE StartTurn(s)
  <2>1. told' \in SUBSET (1..made)
    BY <1>2, <1>9 DEF StartTurn, OnConn, TypeOK
  <2>. QED
    BY <1>1, <1>9, <2>1 DEF TypeOK, StartTurn, sessions
<1>10. CASE ServiceError(s)
  BY <1>1, <1>2, <1>10 DEF TypeOK, ServiceError
<1>11. CASE TakeFailed(s)
  <2>1. pool' \in [Sessions -> 0..made]
    BY <1>2, <1>3, <1>11 DEF TakeFailed
  <2>. QED
    BY <1>1, <1>11, <2>1 DEF TypeOK, TakeFailed
<1>12. CASE CloseFailed(s)
  <2>1. open' \in SUBSET (1..made) /\ closed' \in SUBSET (1..made)
    BY <1>2, <1>12, CloseTyped DEF CloseFailed
  <2>. QED
    BY <1>1, <1>12, <2>1 DEF TypeOK, CloseFailed
<1>13. CASE LegacyThread(s)
  <2>1. made' = made + 1 /\ made' \in ConnOrNone /\ made' \in ConnIds
    BY <1>2, <1>13 DEF LegacyThread, ConnOrNone, ConnIds
  <2>2. info' \in [ConnIds -> Conn]
    <3>1. [workspace |-> turn[s].key, thread |-> made + 1,
           config |-> turn[s].config] \in Conn
      BY <1>2, <2>1 DEF Conn
    <3>. QED
      BY <1>3, <1>13, <3>1 DEF LegacyThread
  <2>3. /\ threadOf' \in [Sessions -> 0..made'] /\ pool' \in [Sessions -> 0..made']
        /\ open' \in SUBSET (1..made') /\ closed' \in SUBSET (1..made')
        /\ doomed' \in SUBSET (1..made') /\ told' \in SUBSET (1..made')
    BY <1>2, <1>3, <1>13, <2>1 DEF TypeOK, LegacyThread, SavesFor
  <2>. QED
    BY <1>1, <1>13, <2>1, <2>2, <2>3 DEF TypeOK, LegacyThread
<1>14. CASE LegacySend(s)
  <2>1. told' \in SUBSET (1..made)
    BY <1>2, <1>14 DEF LegacySend, TypeOK
  <2>. QED
    BY <1>1, <1>14, <2>1 DEF TypeOK, LegacySend, sessions
<1>. QED
  BY <1>4, <1>5, <1>6, <1>7, <1>8, <1>9, <1>10, <1>11, <1>12, <1>13, <1>14
     DEF TurnStep

\* Every step of a command keeps every variable in its type.
LEMMA CommandStepTyped ==
  ASSUME TypeOK, ThreadInv, NEW k \in Clients, CommandStep(k) \/ IssueStep(k)
  PROVE  TypeOK'
<1>1. client' \in [Clients -> Client]
  BY ClientTyped
<1>2. /\ client[k] \in Client /\ client[k].session \in Sessions
      /\ client[k].key \in Sessions /\ client[k].old \in ConnOrNone
      /\ made \in Nat /\ forgotten \in [Sessions -> ConnOrNone]
      /\ threadOf \in [Sessions -> 0..made] /\ pool \in [Sessions -> 0..made]
      /\ doomed \in SUBSET (1..made) /\ client[k].closing \subseteq 0..made
  BY DEF TypeOK, ThreadInv, Client, ConnOrNone
<1>3. CASE \/ CancelDone(k) \/ WorkersDone(k) \/ Swept(k) \/ Rebind(k)
           \/ SetFocus(k) \/ \E s \in Sessions : Clear(k, s) \/ Compact(k, s)
  BY <1>1, <1>3
     DEF TypeOK, sessions, CancelDone, WorkersDone, Swept, Rebind, SetFocus,
         Clear, Compact
<1>4. CASE CancelSession(k)
  <2>1. PICK s \in client[k].todo :
          doomed' = IF Running(s) THEN doomed \cup Watched(s) ELSE doomed
    BY <1>4 DEF CancelSession
  <2>2. s \in Sessions
    BY <1>2 DEF Client
  <2>3. doomed' \in SUBSET (1..made)
    BY <1>2, <2>1, <2>2, WatchedTyped
  <2>. QED
    BY <1>1, <1>4, <2>3 DEF TypeOK, CancelSession, sessions
<1>5. CASE Shutdown(k)
  <2>1. UNION {Watched(t) : t \in {t \in Sessions : Running(t)}} \subseteq 1..made
    BY WatchedTyped
  <2>2. doomed' \in SUBSET (1..made)
    BY <1>2, <1>5, <2>1 DEF Shutdown
  <2>. QED
    BY <1>1, <1>5, <2>2 DEF TypeOK, Shutdown, sessions
<1>6. CASE SwapPool(k)
  <2>1. pool' \in [Sessions -> 0..made]
    BY <1>2, <1>6 DEF SwapPool
  <2>. QED
    BY <1>1, <1>6, <2>1 DEF TypeOK, SwapPool
<1>7. CASE CloseOne(k)
  <2>1. PICK c \in client[k].closing : Close({c})
    BY <1>7 DEF CloseOne
  <2>2. open' \in SUBSET (1..made) /\ closed' \in SUBSET (1..made)
    BY <1>2, <2>1, CloseTyped
  <2>. QED
    BY <1>1, <1>7, <2>2 DEF TypeOK, CloseOne
<1>8. CASE ResetAllThreads(k)
  <2>1. threadOf' \in [Sessions -> 0..made]
    BY <1>2, <1>8 DEF ResetAllThreads, ForgetsThread
  <2>. QED
    BY <1>1, <1>8, <2>1 DEF TypeOK, ResetAllThreads, sessions
<1>9. CASE TakeSession(k)
  <2>1. pool' \in [Sessions -> 0..made]
    BY <1>2, <1>9 DEF TakeSession
  <2>. QED
    BY <1>1, <1>9, <2>1 DEF TypeOK, TakeSession
<1>10. CASE CloseTaken(k)
  <2>1. open' \in SUBSET (1..made) /\ closed' \in SUBSET (1..made)
    BY <1>2, <1>10, CloseTyped DEF CloseTaken
  <2>2. forgotten' \in [Sessions -> ConnOrNone]
    BY <1>2, <1>10 DEF CloseTaken, ForgetAll
  <2>. QED
    BY <1>1, <1>10, <2>1, <2>2 DEF TypeOK, CloseTaken
<1>11. CASE ResetThread(k)
  <2>1. threadOf' \in [Sessions -> 0..made]
    BY <1>2, <1>11 DEF ResetThread, ForgetsThread
  <2>2. forgotten' \in [Sessions -> ConnOrNone]
    BY <1>2, <1>11 DEF ResetThread, Forget
  <2>. QED
    BY <1>1, <1>11, <2>1, <2>2 DEF TypeOK, ResetThread, sessions
<1>. QED
  BY <1>3, <1>4, <1>5, <1>6, <1>7, <1>8, <1>9, <1>10, <1>11
     DEF CommandStep, IssueStep

\* Every step keeps every variable in its type.
LEMMA TypeStep == TypeInv /\ [Next]_vars => TypeOK'
<1> SUFFICES ASSUME TypeOK, ThreadInv, [Next]_vars
             PROVE  TypeOK'
  BY DEF TypeInv
<1>1. ASSUME NEW s \in Sessions, CancelTurn(s)
      PROVE  TypeOK'
  BY <1>1, WatchedTyped DEF CancelTurn, TypeOK, sessions
<1>2. ASSUME NEW c \in ConnIds, CloseDue(c)
      PROVE  TypeOK'
  BY <1>2 DEF CloseDue, TypeOK, Close
<1>3. CASE UNCHANGED vars
  BY <1>3 DEF vars, TypeOK
<1>. QED
  BY <1>1, <1>2, <1>3, TurnStepTyped, CommandStepTyped DEF Next

-----------------------------------------------------------------------------
(* Threads and connections keep their workspace.                           *)

\* A step that opens nothing, stores no thread and gives one turn a record that
\* refers to its own workspace keeps the invariant.
LEMMA RefsFrame ==
  ASSUME TypeOK, ThreadInv, NEW s \in Sessions, NEW r, Refs(r, made, info), Goes(s, r),
         UNCHANGED <<made, info, threadOf, client>>
  PROVE  ThreadInv'
<1>1. Threads' /\ \A k \in Clients : client'[k].closing \subseteq 1..made'
  BY DEF ThreadInv, Threads
<1>2. \A t \in Sessions : turn'[t] = IF t = s THEN r ELSE turn[t]
  BY DEF Goes, TypeOK
<1>3. \A t \in Sessions : Refs(turn'[t], made, info)
  BY <1>2 DEF ThreadInv
<1>. QED
  BY <1>1, <1>3 DEF ThreadInv, Refs

\* A step that opens the next connection on thread th of workspace w keeps what
\* the others refer to.
LEMMA RefsGrow ==
  ASSUME TypeOK, ThreadInv, NEW s \in Sessions, NEW w \in Sessions, NEW x,
         made < MaxConns, made' = made + 1, client' = client,
         NEW th \in 1..(made + 1), th # made + 1 => info[th].workspace = w,
         info' = [info EXCEPT ![made + 1] =
                    [workspace |-> w, config |-> x, thread |-> th]],
         NEW r, Goes(s, r), Refs(r, made + 1, info'),
         \/ threadOf' = threadOf
         \/ threadOf' = [threadOf EXCEPT ![w] = made + 1]
  PROVE  ThreadInv'
<1>1. /\ made \in Nat /\ made + 1 \in ConnIds /\ 1..made \subseteq ConnIds
      /\ info \in [ConnIds -> Conn]
      /\ threadOf \in [Sessions -> 0..made]
  BY DEF TypeOK, ConnOrNone, ConnIds
<1>2. /\ \A c \in 1..made : info'[c] = info[c]
      /\ info'[made + 1].workspace = w /\ info'[made + 1].thread = th
  BY <1>1
<1>3. Threads'
  <2>1. \A c \in 1..made : /\ info'[c].thread \in 1..made'
                           /\ info'[info'[c].thread].workspace = info'[c].workspace
    BY <1>1, <1>2 DEF ThreadInv, Threads
  <2>2. /\ info'[made + 1].thread \in 1..made'
        /\ info'[info'[made + 1].thread].workspace = info'[made + 1].workspace
    BY <1>1, <1>2
  <2>3. ASSUME NEW t \in Sessions, threadOf'[t] # 0
        PROVE  info'[threadOf'[t]].workspace = t
    <3>1. CASE threadOf' = threadOf
      BY <1>1, <1>2, <2>3, <3>1 DEF ThreadInv, Threads
    <3>2. CASE threadOf' = [threadOf EXCEPT ![w] = made + 1]
      BY <1>1, <1>2, <2>3, <3>2 DEF ThreadInv, Threads
    <3>. QED
      BY <3>1, <3>2
  <2>4. \A c \in 1..made' : c \in 1..made \/ c = made + 1
    BY <1>1
  <2>. QED
    BY <2>1, <2>2, <2>3, <2>4 DEF Threads
<1>4. \A t \in Sessions : Refs(turn'[t], made + 1, info')
  <2> SUFFICES ASSUME NEW t \in Sessions
               PROVE  Refs(turn'[t], made + 1, info')
    OBVIOUS
  <2>1. CASE t = s
    BY <2>1 DEF Goes, TypeOK
  <2>2. CASE t # s
    <3>1. turn'[t] = turn[t] /\ Refs(turn[t], made, info)
      BY <2>2 DEF Goes, TypeOK, ThreadInv
    <3>. QED
      BY <1>1, <1>2, <3>1 DEF Refs, OnConn
  <2>. QED
    BY <2>1, <2>2
<1>5. \A k \in Clients : client'[k].closing \subseteq 1..made'
  BY <1>1 DEF ThreadInv
<1>. QED
  BY <1>3, <1>4, <1>5 DEF ThreadInv

\* A turn only ever refers to threads and connections of its own workspace.
LEMMA TurnStepRefs ==
  ASSUME TypeOK, ThreadInv, NEW s \in Sessions, TurnStep(s)
  PROVE  ThreadInv'
<1>. USE BlankTyped DEF GoesTo
<1>1. /\ turn \in [Sessions -> Turn] /\ turn[s] \in Turn /\ made \in Nat
      /\ turn[s].key \in Sessions
      /\ Refs(turn[s], made, info)
      /\ threadOf \in [Sessions -> 0..made] /\ pool \in [Sessions -> 0..made]
  BY DEF TypeOK, ThreadInv, Turn, ConnOrNone
<1>2. \A t \in Sessions : threadOf[t] # 0 => info[threadOf[t]].workspace = t
  BY DEF ThreadInv, Threads
<1>3. Refs(Blank, made, info) /\ Refs(Failed, made, info)
  BY <1>1 DEF Refs, OnConn
<1>4. CASE \/ EndUnsent(s) \/ Answered(s) \/ ReadError(s) \/ LegacyFails(s)
           \/ LegacySend(s) \/ ServiceError(s) \/ CloseFailed(s)
  BY <1>3, <1>4, RefsFrame
     DEF sessions, EndUnsent, Answered, ReadError, LegacyFails, LegacySend,
         ServiceError, CloseFailed
<1>0. CASE BeginTurn(s)
  <2>1. Refs([Blank EXCEPT !.pc = "begin", !.avoid = forgotten[s]], made, info)
    BY <1>1 DEF Refs, OnConn, Turn
  <2>. QED
    BY <1>0, <2>1, RefsFrame DEF BeginTurn, sessions
<1>5. CASE BindWorkspace(s)
  <2>1. PICK x \in Configs :
          Goes(s, [turn[s] EXCEPT !.pc = "bind", !.key = BindingOf(s),
                                  !.config = x])
    BY <1>5 DEF BindWorkspace
  <2>2. Refs([turn[s] EXCEPT !.pc = "bind", !.key = BindingOf(s), !.config = x],
             made, info)
    BY <1>1, <1>5 DEF Refs, OnConn, Turn, BindWorkspace
  <2>. QED
    BY <1>5, <2>1, <2>2, RefsFrame DEF BindWorkspace, sessions
<1>6. CASE ReadThread(s)
  <2>1. Refs([turn[s] EXCEPT !.pc = "look", !.resume = threadOf[turn[s].key]],
             made, info)
    BY <1>1, <1>2 DEF Refs, OnConn, Turn
  <2>. QED
    BY <1>6, <2>1, RefsFrame DEF ReadThread, sessions
<1>7. CASE LookUp(s)
  <2>1. Refs([turn[s] EXCEPT !.pc = "reuse", !.conn = pool[turn[s].key]],
             made, info)
    BY <1>1, <1>7 DEF Refs, OnConn, Turn, LookUp
  <2>. QED
    BY <1>7, <2>1, RefsFrame DEF LookUp, sessions
<1>8. CASE Reuse(s)
  <2>1. Refs([turn[s] EXCEPT !.pc = "start", !.resume = 0, !.resumed = TRUE],
             made, info)
    BY <1>1, <1>8 DEF Refs, OnConn, Turn, Reuse, Reusable
  <2>. QED
    BY <1>8, <2>1, RefsFrame DEF Reuse, sessions
<1>9. CASE Discard(s)
  <2>1. Refs([turn[s] EXCEPT !.pc = "dial", !.conn = 0], made, info)
    BY <1>1, <1>9 DEF Refs, OnConn, Turn, Discard
  <2>. QED
    BY <1>9, <2>1, RefsFrame DEF Discard
<1>10. CASE DialFails(s)
  <2>1. Refs([turn[s] EXCEPT !.pc = "legacy", !.resume = 0], made, info)
    BY <1>1 DEF Refs, OnConn, Turn
  <2>. QED
    BY <1>10, <2>1, RefsFrame DEF DialFails, sessions
<1>11. CASE PoolSession(s)
  <2>1. \A pc \in {"start", "save"} : Refs([turn[s] EXCEPT !.pc = pc], made, info)
    BY <1>1, <1>11 DEF Refs, OnConn, Turn, PoolSession
  <2>2. \E pc \in {"start", "save"} : Goes(s, [turn[s] EXCEPT !.pc = pc])
    BY <1>1, <1>11 DEF PoolSession, Goes
  <2>. QED
    BY <1>11, <2>1, <2>2, RefsFrame DEF PoolSession
<1>12. CASE SaveThread(s)
  <2>1. Refs([turn[s] EXCEPT !.pc = "start"], made, info)
    BY <1>1, <1>12 DEF Refs, OnConn, Turn, SaveThread
  <2>2. turn[s].conn \in 1..made /\ info[turn[s].conn].workspace = turn[s].key
    BY <1>1, <1>12 DEF Refs, OnConn, SaveThread
  <2>3. threadOf' = [threadOf EXCEPT ![turn[s].key] = info[turn[s].conn].thread]
    BY <1>12 DEF SaveThread, SavesFor
  <2>4. info[info[turn[s].conn].thread].workspace = turn[s].key
    BY <2>2 DEF ThreadInv, Threads
  <2>5. UNCHANGED <<made, info, client>>
    BY <1>12 DEF SaveThread, sessions
  <2>6. Threads'
    BY <1>1, <2>3, <2>4, <2>5 DEF ThreadInv, Threads
  <2>7. \A t \in Sessions : Refs(turn'[t], made, info)
    BY <1>1, <1>12, <2>1 DEF SaveThread, ThreadInv
  <2>. QED
    BY <2>5, <2>6, <2>7 DEF ThreadInv
<1>13. CASE StartTurn(s)
  <2>1. Refs([turn[s] EXCEPT !.pc = "turn"], made, info)
    BY <1>1, <1>13 DEF Refs, OnConn, Turn, StartTurn
  <2>. QED
    BY <1>3, <1>13, <2>1, RefsFrame DEF StartTurn, sessions
<1>14. CASE RebindFailed(s)
  <2>1. turn[s].resume = 0
    BY <1>1, <1>14 DEF Refs, RebindFailed
  <2>2. Refs([turn[s] EXCEPT !.pc = "take", !.key = BindingOf(s)], made, info)
    BY <1>1, <2>1 DEF Refs, OnConn, Turn
  <2>. QED
    BY <1>14, <2>2, RefsFrame DEF RebindFailed, sessions
<1>15. CASE TakeFailed(s)
  <2>1. Refs([turn[s] EXCEPT !.pc = "close", !.conn = pool[turn[s].key]], made, info)
    BY <1>1, <1>15 DEF Refs, OnConn, Turn, TakeFailed
  <2>. QED
    BY <1>15, <2>1, RefsFrame DEF TakeFailed
<1>16. CASE LegacyBind(s)
  <2>1. turn[s].resume = 0
    BY <1>1, <1>16 DEF Refs, LegacyBind
  <2>2. Refs([turn[s] EXCEPT !.pc = "legacyDial", !.key = BindingOf(s)], made, info)
    BY <1>1, <2>1 DEF Refs, OnConn, Turn
  <2>. QED
    BY <1>16, <2>2, RefsFrame DEF LegacyBind, sessions
<1>17. CASE Dial(s)
  <2>1. PICK th \in {turn[s].resume, made + 1} \ {0} :
          /\ info' = [info EXCEPT ![made + 1] = [workspace |-> turn[s].key,
                        config |-> turn[s].config, thread |-> th]]
          /\ Goes(s, [turn[s] EXCEPT !.pc = "pool", !.conn = made + 1, !.resume = 0,
                                     !.resumed = (th # made + 1)])
    BY <1>17 DEF Dial
  <2>2. th \in 1..(made + 1) /\ (th # made + 1 => info[th].workspace = turn[s].key)
    BY <1>1, <2>1 DEF Refs
  <2>3. made + 1 \in ConnIds /\ info \in [ConnIds -> Conn]
    BY <1>1, <1>17 DEF Dial, ConnIds, TypeOK
  <2>4. /\ info'[made + 1].workspace = turn[s].key
        /\ info'[made + 1].config = turn[s].config
    BY <2>1, <2>3
  <2>5. Refs([turn[s] EXCEPT !.pc = "pool", !.conn = made + 1, !.resume = 0,
                             !.resumed = (th # made + 1)], made + 1, info')
    BY <1>1, <2>4 DEF Refs, OnConn, Turn
  <2>. QED
    BY <1>1, <1>17, <2>1, <2>2, <2>5, RefsGrow DEF Dial
<1>18. CASE LegacyThread(s)
  <2>1. /\ info' = [info EXCEPT ![made + 1] = [workspace |-> turn[s].key,
                      config |-> turn[s].config, thread |-> made + 1]]
        /\ Goes(s, [turn[s] EXCEPT !.pc = "legacyTurn", !.conn = made + 1])
    BY <1>18 DEF LegacyThread
  <2>2. turn[s].resume = 0
    BY <1>1, <1>18 DEF Refs, LegacyThread
  <2>3. Refs([turn[s] EXCEPT !.pc = "legacyTurn", !.conn = made + 1], made + 1, info')
    BY <1>1, <2>2 DEF Refs, OnConn, Turn
  <2>. QED
    <3>1. /\ made < MaxConns /\ made' = made + 1 /\ client' = client
          /\ threadOf' = [threadOf EXCEPT ![turn[s].key] = made + 1]
          /\ made + 1 \in 1..(made + 1)
      BY <1>1, <1>18 DEF LegacyThread, SavesFor
    <3>. QED
      BY <1>1, <2>1, <2>3, <3>1, RefsGrow
<1>. QED
  BY <1>0, <1>4, <1>5, <1>6, <1>7, <1>8, <1>9, <1>10, <1>11, <1>12, <1>13, <1>14,
     <1>15, <1>16, <1>17, <1>18
     DEF TurnStep

\* The commands forget threads, and close what the pool held.
LEMMA ThreadStep == TypeInv /\ [Next]_vars => ThreadInv'
<1> SUFFICES ASSUME TypeOK, ThreadInv, [Next]_vars
             PROVE  ThreadInv'
  BY DEF TypeInv
<1>1. ASSUME NEW s \in Sessions, CancelTurn(s)
      PROVE  ThreadInv'
  BY <1>1 DEF CancelTurn, ThreadInv, Threads, sessions
<1>2. ASSUME NEW c \in ConnIds, CloseDue(c)
      PROVE  ThreadInv'
  BY <1>2 DEF CloseDue, ThreadInv, Threads
<1>3. ASSUME NEW k \in Clients, CommandStep(k) \/ IssueStep(k)
      PROVE  ThreadInv'
  <2>1. UNCHANGED <<made, info, turn>>
    BY <1>3 DEF CommandStep, IssueStep, sessions, CancelSession, CancelDone,
      WorkersDone, SwapPool, CloseOne, Swept, ResetAllThreads, Rebind,
      TakeSession, CloseTaken, ResetThread, SetFocus, Shutdown, Clear, Compact
  <2>2. \A s \in Sessions : threadOf'[s] = threadOf[s] \/ threadOf'[s] = 0
    BY <1>3 DEF CommandStep, IssueStep, sessions, CancelSession, CancelDone,
      WorkersDone, SwapPool, CloseOne, Swept, ResetAllThreads, Rebind,
      TakeSession, CloseTaken, ResetThread, SetFocus, Shutdown, Clear, Compact,
      ForgetsThread, TypeOK
  <2>3. Threads'
    BY <2>1, <2>2 DEF ThreadInv, Threads
  <2>4. client'[k].closing \subseteq 1..made
    <3>1. client \in [Clients -> Client] /\ client[k].closing \subseteq 1..made
      BY DEF ThreadInv, TypeOK
    <3>2. CASE \/ SwapPool(k) \/ TakeSession(k)
      <4>1. client[k].key \in Sessions /\ pool \in [Sessions -> 0..made]
        BY <3>1 DEF TypeOK, Client
      <4>2. client'[k].closing \subseteq Pooled
        BY <3>1, <3>2, <4>1 DEF SwapPool, TakeSession, Pooled, Client
      <4>. QED
        BY <4>2, PooledTyped
    <3>3. CASE \/ CancelSession(k) \/ CancelDone(k) \/ WorkersDone(k) \/ Rebind(k)
               \/ ResetAllThreads(k)
      BY <3>1, <3>3
         DEF CancelSession, CancelDone, WorkersDone, Rebind, ResetAllThreads,
             Moves, Client
    <3>4. CASE CloseOne(k)
      BY <3>1, <3>4 DEF CloseOne, Client
    <3>5. CASE CloseTaken(k)
      BY <3>1, <3>5, NoCommandTyped DEF CloseTaken, Finish, Client
    <3>6. CASE ResetThread(k) \/ Swept(k)
      BY <3>1, <3>6, NoCommandTyped DEF ResetThread, Swept, Finish, Moves, Client
    <3>7. CASE SetFocus(k) \/ Shutdown(k)
      <4>1. client'[k].closing = {}
        <5>1. CASE SetFocus(k)
          BY <3>1, <5>1, NoCommandTyped DEF SetFocus, Issue, Client
        <5>2. CASE Shutdown(k)
          BY <3>1, <5>2, NoCommandTyped DEF Shutdown, Issue, Client
        <5>. QED
          BY <3>7, <5>1, <5>2
      <4>. QED
        BY <4>1
    <3>8. ASSUME NEW s \in Sessions, Clear(k, s) \/ Compact(k, s)
          PROVE  client'[k].closing \subseteq 1..made
      <4>1. \E kind, pc : IssueFor(k, kind, s, pc)
        BY <3>8 DEF Clear, Compact
      <4>2. client'[k].closing = {}
        BY <3>1, <4>1, NoCommandTyped DEF IssueFor, Client
      <4>. QED
        BY <4>2
    <3>. QED
      BY <1>3, <3>2, <3>3, <3>4, <3>5, <3>6, <3>7, <3>8 DEF CommandStep, IssueStep
  <2>5. \A j \in Clients : j # k => client'[j] = client[j]
    BY <1>3 DEF CommandStep, IssueStep, CancelSession, CancelDone, TypeOK,
      WorkersDone, SwapPool, CloseOne, Swept, ResetAllThreads, Rebind,
      TakeSession, CloseTaken, ResetThread, SetFocus, Shutdown, Clear, Compact,
      Finish, Moves, Issue, IssueFor
  <2>. QED
    BY <2>1, <2>3, <2>4, <2>5 DEF ThreadInv
<1>4. CASE UNCHANGED vars
  BY <1>4 DEF vars, ThreadInv, Threads
<1>. QED
  BY <1>1, <1>2, <1>3, <1>4, TurnStepRefs DEF Next

\* Types and references hold of every reachable state.
THEOREM Typing == Spec => []TypeInv
<1>1. TypeInv /\ [Next]_vars => TypeInv'
  BY TypeStep, ThreadStep DEF TypeInv
<1>. QED
  BY InitTypeInv, <1>1, PTL DEF Spec

\* Every variable stays in its type: connections are numbered without gaps, and
\* nothing refers to one that was never opened.
THEOREM TypeCorrect == Spec => []TypeOK
<1>1. TypeInv => TypeOK
  BY DEF TypeInv
<1>. QED
  BY Typing, <1>1, PTL

\* A turn runs on a connection of its own workspace, model and approval policy.
THEOREM TurnsRunAsBound == Spec => []TurnRunsAsBound
<1>1. TypeInv => TurnRunsAsBound
  BY DEF TypeInv, ThreadInv, Refs, OnConn, TurnRunsAsBound, Running
<1>. QED
  BY Typing, <1>1, PTL

\* Threads never cross workspaces, whatever the focus does.
THEOREM ThreadsStayHome == Spec => []ThreadsKeepWorkspace
<1>1. TypeInv => ThreadsKeepWorkspace
  <2> SUFFICES ASSUME TypeInv
               PROVE  ThreadsKeepWorkspace
    OBVIOUS
  <2>1. ASSUME NEW s \in Sessions, Running(s)
        PROVE  info[info[turn[s].conn].thread].workspace = turn[s].key
    <3>1. turn[s].conn \in 1..made /\ info[turn[s].conn].workspace = turn[s].key
      BY <2>1 DEF TypeInv, ThreadInv, Refs, OnConn, Running
    <3>. QED
      BY <3>1 DEF TypeInv, ThreadInv, Threads
  <2>. QED
    BY <2>1 DEF ThreadsKeepWorkspace, TypeInv, ThreadInv, Threads
<1>. QED
  BY Typing, <1>1, PTL

-----------------------------------------------------------------------------
(* No connection is leaked.                                                *)

\* Somebody is responsible for connection c.
Held(c) ==
  \/ \E s \in Sessions : pool[s] = c
  \/ \E s \in Sessions : turn[s].pc \in {"pool", "close"} /\ turn[s].conn = c
  \/ \E k \in Clients : c \in client[k].closing

\* Every open connection is held, and a client holds some only while it closes
\* them.
LeakInv ==
  /\ \A c \in open : Held(c)
  /\ \A k \in Clients : client[k].pc \notin {"sweep", "close"} =>
                          client[k].closing = {}

\* A step that only moves a turn that holds nothing keeps what others hold.
LEMMA HeldFrame ==
  ASSUME TypeOK, NEW s \in Sessions, NEW r, Goes(s, r),
         turn[s].pc \notin {"pool", "close"}, UNCHANGED <<pool, client>>,
         NEW c, Held(c)
  PROVE  Held(c)'
BY DEF Held, Goes, TypeOK

\* A turn's step loses no connection.
LEMMA TurnStepHeld ==
  ASSUME TypeOK, ThreadInv, LeakInv, NEW s \in Sessions, TurnStep(s)
  PROVE  LeakInv'
<1>. USE DEF GoesTo
<1>1. /\ turn \in [Sessions -> Turn] /\ turn[s] \in Turn
      /\ pool \in [Sessions -> 0..made] /\ turn[s].key \in Sessions
      /\ open \subseteq 1..made /\ made \in Nat
  BY DEF TypeOK, Turn, ConnOrNone
<1>2. client' = client
  BY DEF TurnStep, sessions, BeginTurn, BindWorkspace, ReadThread, LookUp,
    Reuse, Discard, Dial, DialFails, PoolSession, SaveThread, EndUnsent, StartTurn, Answered,
    ServiceError, ReadError, RebindFailed, TakeFailed, CloseFailed, LegacyBind,
    LegacyThread, LegacySend, LegacyFails
<1>3. SUFFICES ASSUME NEW c \in open'
               PROVE  Held(c)'
  BY <1>2 DEF LeakInv
<1>4. c \in open => Held(c)
  BY DEF LeakInv
<1>5. CASE \/ BeginTurn(s) \/ BindWorkspace(s) \/ ReadThread(s)
           \/ LookUp(s) \/ Reuse(s) \/ DialFails(s) \/ SaveThread(s) \/ EndUnsent(s) \/ StartTurn(s)
           \/ Answered(s) \/ ReadError(s) \/ RebindFailed(s) \/ LegacyBind(s)
           \/ LegacySend(s) \/ LegacyFails(s)
  <2>1. /\ turn[s].pc \notin {"pool", "close"} /\ UNCHANGED <<pool, open>>
        /\ \E r : Goes(s, r)
    BY <1>5 DEF sessions, BeginTurn, BindWorkspace, ReadThread, LookUp, Reuse,
      DialFails, SaveThread, EndUnsent, StartTurn, Answered, ReadError, RebindFailed,
      LegacyBind, LegacySend, LegacyFails, Running, Goes
  <2>. QED
    BY <1>2, <1>4, <2>1, HeldFrame
<1>6. CASE Discard(s) \/ LegacyThread(s) \/ ServiceError(s)
  <2>1. /\ turn[s].pc \notin {"pool", "close"} /\ pool' = pool
        /\ open' \subseteq open /\ \E r : Goes(s, r)
    BY <1>6 DEF Discard, Close, LegacyThread, ServiceError, Running, Goes
  <2>. QED
    BY <1>2, <1>4, <2>1, HeldFrame
<1>7. CASE Dial(s)
  <2>1. CASE c \in open
    <3>1. turn[s].pc \notin {"pool", "close"} /\ pool' = pool /\ \E r : Goes(s, r)
      BY <1>7 DEF Dial, Goes
    <3>. QED
      BY <1>2, <1>4, <2>1, <3>1, HeldFrame
  <2>2. CASE c = made + 1
    <3>1. turn'[s].pc = "pool" /\ turn'[s].conn = made + 1
      BY <1>1, <1>7 DEF Dial, Goes, Turn
    <3>. QED
      BY <2>2, <3>1 DEF Held
  <2>. QED
    BY <1>7, <2>1, <2>2 DEF Dial
<1>8. CASE PoolSession(s)
  <2>1. c # pool[turn[s].key] /\ c \in open
    BY <1>8 DEF PoolSession, Close, Replaced
  <2>2. Held(c)
    BY <1>4, <2>1
  <2>3. pool'[turn[s].key] = turn[s].conn
    BY <1>1, <1>8 DEF PoolSession
  <2>4. \A t \in Sessions : t # turn[s].key => pool'[t] = pool[t]
    BY <1>1, <1>8 DEF PoolSession
  <2>5. \A t \in Sessions : t # s => turn'[t] = turn[t]
    BY <1>1, <1>8 DEF PoolSession
  <2>. QED
    BY <1>1, <1>2, <2>1, <2>2, <2>3, <2>4, <2>5 DEF Held
<1>9. CASE TakeFailed(s)
  <2>1. c \in open /\ Held(c)
    BY <1>4, <1>9 DEF TakeFailed
  <2>2. turn'[s].pc = "close" /\ turn'[s].conn = pool[turn[s].key]
    BY <1>1, <1>9 DEF TakeFailed, Goes, Turn
  <2>3. \A t \in Sessions : t # turn[s].key => pool'[t] = pool[t]
    BY <1>1, <1>9 DEF TakeFailed
  <2>4. /\ \A t \in Sessions : t # s => turn'[t] = turn[t]
        /\ turn[s].pc = "take"
    BY <1>1, <1>9 DEF TakeFailed, Goes
  <2>. QED
    BY <1>1, <1>2, <2>1, <2>2, <2>3, <2>4 DEF Held
<1>10. CASE CloseFailed(s)
  <2>1. c \in open /\ Held(c) /\ c # turn[s].conn
    BY <1>4, <1>10 DEF CloseFailed, Close
  <2>2. /\ \A t \in Sessions : t # s => turn'[t] = turn[t]
        /\ pool' = pool
    BY <1>1, <1>10 DEF CloseFailed, Goes
  <2>. QED
    BY <1>1, <1>2, <2>1, <2>2 DEF Held
<1>. QED
  BY <1>5, <1>6, <1>7, <1>8, <1>9, <1>10 DEF TurnStep

\* A command's step loses no connection: what it takes from the pool it closes.
LEMMA CommandStepHeld ==
  ASSUME TypeOK, ThreadInv, LeakInv, NEW k \in Clients,
         CommandStep(k) \/ IssueStep(k)
  PROVE  LeakInv'
<1>. USE NoCommandTyped
<1>1. /\ client \in [Clients -> Client] /\ client[k] \in Client
      /\ pool \in [Sessions -> 0..made] /\ client[k].key \in Sessions
      /\ open \subseteq 1..made
  BY DEF TypeOK, Client
<1>2. \A j \in Clients : j # k => client'[j] = client[j]
  BY <1>1 DEF CommandStep, IssueStep, CancelSession, CancelDone, WorkersDone,
    SwapPool, CloseOne, Swept, ResetAllThreads, Rebind, TakeSession, CloseTaken,
    ResetThread, SetFocus, Shutdown, Clear, Compact, Finish, Moves, Issue,
    IssueFor
<1>3. turn' = turn
  BY DEF CommandStep, IssueStep, CancelSession, CancelDone, WorkersDone,
    SwapPool, CloseOne, Swept, ResetAllThreads, Rebind, TakeSession, CloseTaken,
    ResetThread, SetFocus, Shutdown, Clear, Compact
<1>4. client[k].pc \notin {"sweep", "close"} => client[k].closing = {}
  BY DEF LeakInv
<1>5. CASE \/ CancelSession(k) \/ CancelDone(k) \/ WorkersDone(k)
           \/ ResetAllThreads(k) \/ Rebind(k) \/ ResetThread(k) \/ Swept(k)
           \/ SetFocus(k) \/ Shutdown(k)
           \/ \E s \in Sessions : Clear(k, s) \/ Compact(k, s)
  <2>1. /\ client[k].closing = {} /\ UNCHANGED <<pool, open>>
    BY <1>4, <1>5 DEF CancelSession, CancelDone, WorkersDone, ResetAllThreads,
      Rebind, ResetThread, Swept, SetFocus, Shutdown, Clear, Compact, sessions,
      Issue, IssueFor
  <2>2. client'[k].closing = {}
    <3>1. CASE \/ CancelSession(k) \/ CancelDone(k) \/ WorkersDone(k)
               \/ ResetAllThreads(k) \/ Rebind(k)
      BY <1>1, <2>1, <3>1
         DEF CancelSession, CancelDone, WorkersDone, ResetAllThreads, Rebind,
             Moves, Client
    <3>2. CASE ResetThread(k)
      BY <1>1, <3>2 DEF ResetThread, Finish
    <3>3. CASE Swept(k)
      BY <1>1, <2>1, <3>3 DEF Swept, Finish, Moves, Client
    <3>4. ASSUME NEW s \in Sessions, Clear(k, s) \/ Compact(k, s)
          PROVE  client'[k].closing = {}
      <4>1. \E kind, pc : IssueFor(k, kind, s, pc)
        BY <3>4 DEF Clear, Compact
      <4>. QED
        BY <1>1, <4>1 DEF IssueFor, Client
    <3>5. CASE SetFocus(k) \/ Shutdown(k)
      <4>1. \E kind, pc : Issue(k, kind, pc)
        BY <3>5 DEF SetFocus, Shutdown
      <4>. QED
        BY <1>1, <4>1 DEF Issue, Client
    <3>. QED
      BY <1>5, <3>1, <3>2, <3>3, <3>4, <3>5
  <2>. QED
    BY <1>2, <1>3, <2>1, <2>2 DEF LeakInv, Held
<1>6. CASE SwapPool(k)
  <2>1. client'[k].closing = Pooled /\ client'[k].pc = "sweep" /\ open' = open
    BY <1>1, <1>6 DEF SwapPool, Client
  <2>2. client[k].closing = {}
    BY <1>4, <1>6 DEF SwapPool
  <2>3. ASSUME NEW c \in open
        PROVE  Held(c)'
    <3>1. Held(c) /\ c # 0
      BY <1>1 DEF LeakInv
    <3>2. CASE \E s \in Sessions : pool[s] = c
      BY <2>1, <3>1, <3>2 DEF Held, Pooled
    <3>3. CASE ~\E s \in Sessions : pool[s] = c
      BY <1>2, <1>3, <2>2, <3>1, <3>3 DEF Held
    <3>. QED
      BY <3>2, <3>3
  <2>. QED
    BY <1>2, <2>1, <2>3 DEF LeakInv
<1>7. CASE CloseOne(k)
  <2>1. PICK c \in client[k].closing :
          /\ Close({c})
          /\ client' = [client EXCEPT ![k].closing = @ \ {c}]
    BY <1>7 DEF CloseOne
  <2>2. /\ client'[k].closing = client[k].closing \ {c}
        /\ client'[k].pc = "sweep" /\ open' = open \ {c} /\ pool' = pool
    BY <1>1, <1>7, <2>1 DEF CloseOne, Close, Client
  <2>. QED
    BY <1>2, <1>3, <2>2 DEF LeakInv, Held
<1>8. CASE TakeSession(k)
  <2>1. /\ client'[k].closing = {pool[client[k].key]} \ {0}
        /\ client'[k].pc = "close" /\ open' = open
    BY <1>1, <1>8 DEF TakeSession, Client
  <2>2. client[k].closing = {}
    BY <1>4, <1>8 DEF TakeSession
  <2>3. \A s \in Sessions : s # client[k].key => pool'[s] = pool[s]
    BY <1>1, <1>8 DEF TakeSession
  <2>4. ASSUME NEW c \in open
        PROVE  Held(c)'
    <3>1. Held(c) /\ c # 0
      BY <1>1 DEF LeakInv
    <3>2. CASE c = pool[client[k].key]
      BY <2>1, <3>1, <3>2 DEF Held
    <3>3. CASE c # pool[client[k].key]
      BY <1>2, <1>3, <2>2, <2>3, <3>1, <3>3 DEF Held
    <3>. QED
      BY <3>2, <3>3
  <2>. QED
    BY <1>2, <2>1, <2>4 DEF LeakInv
<1>9. CASE CloseTaken(k)
  <2>1. client'[k].closing = {} /\ pool' = pool /\ open' = open \ client[k].closing
    BY <1>1, <1>9 DEF CloseTaken, Close, Finish, Client
  <2>. QED
    BY <1>2, <1>3, <2>1 DEF LeakInv, Held
<1>. QED
  BY <1>5, <1>6, <1>7, <1>8, <1>9 DEF CommandStep, IssueStep

\* No step loses a connection.
LEMMA LeakStep == TypeInv /\ LeakInv /\ [Next]_vars => LeakInv'
<1> SUFFICES ASSUME TypeOK, ThreadInv, LeakInv, [Next]_vars
             PROVE  LeakInv'
  BY DEF TypeInv
<1>1. ASSUME NEW s \in Sessions, CancelTurn(s)
      PROVE  LeakInv'
  BY <1>1 DEF CancelTurn, sessions, LeakInv, Held
<1>2. ASSUME NEW c \in ConnIds, CloseDue(c)
      PROVE  LeakInv'
  BY <1>2 DEF CloseDue, Close, LeakInv, Held
<1>3. CASE UNCHANGED vars
  BY <1>3 DEF vars, LeakInv, Held
<1>. QED
  BY <1>1, <1>2, <1>3, TurnStepHeld, CommandStepHeld DEF Next

\* Somebody is always responsible for every open connection.
THEOREM LeakInvariant == Spec => []LeakInv
<1>1. Init => LeakInv
  BY NoCommandTyped DEF Init, LeakInv
<1>. QED
  BY <1>1, Typing, LeakStep, PTL DEF Spec

\* No websocket to the app server is ever leaked, for any number of sessions,
\* commands and connections.
THEOREM NothingLeaks == Spec => []NoLeak
<1>1. TypeInv /\ LeakInv => NoLeak
  BY DEF TypeInv, TypeOK, LeakInv, Held, NoLeak, Pooled, InHand, Closing
<1>. QED
  BY <1>1, Typing, LeakInvariant, PTL

-----------------------------------------------------------------------------
(* A quiet Shutdown closes every connection.                               *)

\* The client that executes Shutdown has seen the workers idle.
Waited(k) == client[k].kind = "shutdown" /\ client[k].pc \in {"swap", "sweep"}

\* Once Shutdown has begun no turn starts; when the wait is over all workers are
\* idle, and once the pool was emptied nobody fills it again.
QuietInv ==
  /\ \A k \in Clients : client[k].kind = "shutdown" => down # "up"
  /\ \A k \in Clients : client[k].pc = "cancel" => client[k].kind # "shutdown"
  /\ (down = "down" \/ \E k \in Clients : Waited(k)) =>
       down # "up" /\ \A s \in Sessions : turn[s].pc = "idle"
  /\ (down = "down" \/ \E k \in Clients : Waited(k) /\ client[k].pc = "sweep") =>
       \A s \in Sessions : pool[s] = 0

\* While Shutdown closes, the workers stay idle and the pool stays empty.
LEMMA QuietTurn ==
  ASSUME TypeOK, QuietInv, NEW s \in Sessions, TurnStep(s)
  PROVE  QuietInv'
<1>1. UNCHANGED <<client, down>>
  BY DEF TurnStep, sessions, BeginTurn, BindWorkspace, ReadThread, LookUp,
    Reuse, Discard, Dial, DialFails, PoolSession, SaveThread, EndUnsent, StartTurn, Answered,
    ServiceError, ReadError, RebindFailed, TakeFailed, CloseFailed, LegacyBind,
    LegacyThread, LegacySend, LegacyFails
<1>2. ~(down # "up" /\ turn[s].pc = "idle")
  BY DEF TurnStep, BeginTurn, BindWorkspace, ReadThread, LookUp, Reuse, Discard,
    Dial, DialFails, PoolSession, SaveThread, EndUnsent, StartTurn, Answered,
    ServiceError, ReadError, RebindFailed, TakeFailed, CloseFailed, LegacyBind,
    LegacyThread, LegacySend, LegacyFails, Running
<1>3. ~(down = "down" \/ \E k \in Clients : Waited(k))
  BY <1>2 DEF QuietInv
<1>. QED
  BY <1>1, <1>3 DEF QuietInv, Waited

\* A command's step keeps the state Shutdown waited for.
LEMMA QuietCommand ==
  ASSUME TypeOK, QuietInv, NEW k \in Clients, CommandStep(k) \/ IssueStep(k)
  PROVE  QuietInv'
<1>. USE NoCommandTyped
<1>1. /\ client \in [Clients -> Client] /\ client[k] \in Client
      /\ pool \in [Sessions -> 0..made]
  BY DEF TypeOK
<1>2. \A j \in Clients : j # k => client'[j] = client[j]
  BY <1>1 DEF CommandStep, IssueStep, CancelSession, CancelDone, WorkersDone,
    SwapPool, CloseOne, Swept, ResetAllThreads, Rebind, TakeSession, CloseTaken,
    ResetThread, SetFocus, Shutdown, Clear, Compact, Finish, Moves, Issue,
    IssueFor
<1>3. turn' = turn
  BY DEF CommandStep, IssueStep, CancelSession, CancelDone, WorkersDone,
    SwapPool, CloseOne, Swept, ResetAllThreads, Rebind, TakeSession, CloseTaken,
    ResetThread, SetFocus, Shutdown, Clear, Compact
<1>4. \A s \in Sessions : pool[s] = 0 => pool'[s] = 0
  BY <1>1 DEF CommandStep, IssueStep, CancelSession, CancelDone, WorkersDone,
    SwapPool, CloseOne, Swept, ResetAllThreads, Rebind, TakeSession, CloseTaken,
    ResetThread, SetFocus, Shutdown, Clear, Compact, sessions
<1>5. CASE Shutdown(k)
  <2>1. client'[k].pc = "wait" /\ down = "up" /\ down' = "requested"
    BY <1>1, <1>5 DEF Shutdown, Issue, Client
  <2>. QED
    BY <1>2, <1>3, <1>4, <2>1 DEF QuietInv, Waited
<1>6. CASE WorkersDone(k)
  <2>1. /\ client'[k].pc = "swap" /\ client'[k].kind = client[k].kind
        /\ down' = down /\ \A s \in Sessions : turn[s].pc = "idle"
    BY <1>1, <1>6 DEF WorkersDone, WorkersIdle, Idle, Moves, Client
  <2>. QED
    BY <1>2, <1>3, <1>4, <2>1 DEF QuietInv, Waited
<1>7. CASE SwapPool(k)
  <2>1. /\ client'[k].pc = "sweep" /\ client'[k].kind = client[k].kind
        /\ client[k].pc = "swap"
        /\ down' = down /\ \A s \in Sessions : pool'[s] = 0
    BY <1>1, <1>7 DEF SwapPool, Client
  <2>. QED
    BY <1>2, <1>3, <2>1 DEF QuietInv, Waited
<1>8. CASE Swept(k)
  <2>1. /\ client[k].pc = "sweep"
        /\ down' = IF client[k].kind = "shutdown" THEN "down" ELSE down
        /\ \/ client'[k] = NoCommand
           \/ client'[k].pc = "reset" /\ client'[k].kind = client[k].kind
    BY <1>1, <1>8 DEF Swept, Finish, Moves, Client
  <2>2. client'[k].kind = "shutdown" => client[k].kind = "shutdown"
    BY <2>1
  <2>3. ~(client'[k].pc \in {"swap", "sweep"})
    BY <2>1
  <2>. QED
    BY <1>2, <1>3, <1>4, <2>1, <2>2, <2>3 DEF QuietInv, Waited
<1>9. CASE SetFocus(k) \/ \E s \in Sessions : Clear(k, s) \/ Compact(k, s)
  <2>1. client'[k].kind # "shutdown" /\ down' = down
    <3>1. CASE SetFocus(k)
      BY <1>1, <3>1 DEF SetFocus, Issue, Client
    <3>2. ASSUME NEW s \in Sessions, Clear(k, s)
          PROVE  client'[k].kind # "shutdown" /\ down' = down
      BY <1>1, <3>2 DEF Clear, IssueFor, Client
    <3>3. ASSUME NEW s \in Sessions, Compact(k, s)
          PROVE  client'[k].kind # "shutdown" /\ down' = down
      BY <1>1, <3>3 DEF Compact, IssueFor, Client
    <3>. QED
      BY <1>9, <3>1, <3>2, <3>3
  <2>. QED
    BY <1>2, <1>3, <1>4, <2>1 DEF QuietInv, Waited
<1>10. CASE CancelDone(k)
  <2>1. /\ client'[k].kind = client[k].kind /\ down' = down
        /\ client[k].pc = "cancel"
    BY <1>1, <1>10 DEF CancelDone, Moves, Client
  <2>2. client[k].kind # "shutdown"
    BY <2>1 DEF QuietInv
  <2>. QED
    BY <1>2, <1>3, <1>4, <2>1, <2>2 DEF QuietInv, Waited
<1>11. CASE \/ CancelSession(k) \/ CloseOne(k)
            \/ ResetAllThreads(k) \/ Rebind(k) \/ TakeSession(k)
            \/ CloseTaken(k) \/ ResetThread(k)
  <2>1. down' = down
    BY <1>11 DEF CancelSession, CloseOne, ResetAllThreads, Rebind, TakeSession,
      CloseTaken, ResetThread
  <2>2. \/ client'[k].kind = client[k].kind /\ client'[k].pc = client[k].pc
        \/ /\ client'[k].kind \in {client[k].kind, "none"}
           /\ client'[k].pc \notin {"cancel", "swap", "sweep"}
    <3>1. CASE CancelSession(k)
      <4>1. PICK s \in client[k].todo :
              client' = [client EXCEPT ![k].todo = @ \ {s}]
        BY <3>1 DEF CancelSession
      <4>. QED
        BY <1>1, <4>1 DEF Client
    <3>2. CASE CloseOne(k)
      <4>1. PICK c \in client[k].closing :
              client' = [client EXCEPT ![k].closing = @ \ {c}]
        BY <3>2 DEF CloseOne
      <4>. QED
        BY <1>1, <4>1 DEF Client
    <3>3. CASE ResetAllThreads(k)
      BY <1>1, <3>3 DEF ResetAllThreads, Moves, Client
    <3>4. CASE Rebind(k)
      BY <1>1, <3>4 DEF Rebind, Client
    <3>5. CASE TakeSession(k)
      BY <1>1, <3>5 DEF TakeSession, Client
    <3>6. CASE CloseTaken(k)
      BY <1>1, <3>6 DEF CloseTaken, Finish, Client
    <3>7. CASE ResetThread(k)
      BY <1>1, <3>7 DEF ResetThread, Finish, Client
    <3>. QED
      BY <1>11, <3>1, <3>2, <3>3, <3>4, <3>5, <3>6, <3>7
  <2>. QED
    BY <1>2, <1>3, <1>4, <2>1, <2>2 DEF QuietInv, Waited
<1>. QED
  BY <1>5, <1>6, <1>7, <1>8, <1>9, <1>10, <1>11 DEF CommandStep, IssueStep

\* No step disturbs what Shutdown waited for.
LEMMA QuietStep == TypeInv /\ QuietInv /\ [Next]_vars => QuietInv'
<1> SUFFICES ASSUME TypeOK, QuietInv, [Next]_vars
             PROVE  QuietInv'
  BY DEF TypeInv
<1>1. ASSUME NEW s \in Sessions, CancelTurn(s)
      PROVE  QuietInv'
  BY <1>1 DEF CancelTurn, sessions, QuietInv, Waited
<1>2. ASSUME NEW c \in ConnIds, CloseDue(c)
      PROVE  QuietInv'
  BY <1>2 DEF CloseDue, QuietInv, Waited
<1>3. CASE UNCHANGED vars
  BY <1>3 DEF vars, sessions, QuietInv, Waited
<1>. QED
  BY <1>1, <1>2, <1>3, QuietTurn, QuietCommand DEF Next

\* Once its wait succeeded, Shutdown works on a server where nothing runs.
THEOREM QuietInvariant == Spec => []QuietInv
<1>1. Init => QuietInv
  BY NoCommandTyped DEF Init, QuietInv, Waited
<1>. QED
  BY <1>1, Typing, QuietStep, PTL DEF Spec

\* A Shutdown whose workers ended in time leaves no connection open but those
\* another command is about to close, for any number of sessions and commands.
THEOREM ShutdownClosesAll == Spec => []QuietShutdown
<1>1. TypeInv /\ LeakInv /\ QuietInv => QuietShutdown
  <2> SUFFICES ASSUME TypeOK, LeakInv, QuietInv, down = "down",
                      NEW c \in open
               PROVE  c \in Closing
    BY DEF TypeInv, QuietShutdown
  <2>1. c # 0 /\ Held(c)
    BY DEF TypeOK, LeakInv
  <2>2. \A s \in Sessions : pool[s] = 0 /\ turn[s].pc = "idle"
    BY DEF QuietInv
  <2>. QED
    BY <2>1, <2>2 DEF Held, Closing
<1>. QED
  BY <1>1, Typing, LeakInvariant, QuietInvariant, PTL

-----------------------------------------------------------------------------
(* What a command promised to leave stays left, while turns and commands   *)
(* come one at a time (inOrder, see MCAppSessions).                        *)

\* Of the turns and the commands at most one is in progress.
Alone ==
  /\ \A s, t \in Sessions : ~Idle(s) /\ ~Idle(t) => s = t
  /\ \A k, l \in Clients : client[k].pc # "idle" /\ client[l].pc # "idle" => k = l
  /\ \A s \in Sessions, k \in Clients : Idle(s) \/ client[k].pc = "idle"

\* No thread that session s may still come to is one it was promised to leave.
Newer(n, s) == n # 0 => n > forgotten[s]
Stored ==
  \A s \in Sessions :
    /\ forgotten[s] <= made
    /\ Newer(threadOf[s], s)
    /\ pool[s] # 0 => Newer(info[pool[s]].thread, s)

\* A turn, whose workspace is its own, has looked at nothing else.
Follows(r, s) ==
  /\ r.pc \in {"begin", "bind", "look", "reuse", "dial"} \cup OnConn => r.avoid = forgotten[s]
  /\ r.pc \notin {"idle", "begin", "failed"} => r.key = s
  /\ Newer(r.resume, s)
  /\ r.pc \in OnConn \cup {"reuse"} /\ r.conn # 0 => Newer(info[r.conn].thread, s)

\* A command that will promise to leave what was opened so far drops it step by step:
\* /clear the whole pool and then every stored thread, /compact its own session's.
Drops(d) ==
  /\ d.pc = "idle" => d.kind = "none"
  /\ d.pc \in {"cancel", "reset", "rebind", "take", "close"} => d.kind \in {"clear", "compact"}
  /\ d.kind \in {"clear", "compact"} => d.old = made
  /\ d.kind = "clear" =>
       /\ d.pc \in {"sweep", "reset", "rebind", "take", "close"} => \A s \in Sessions : pool[s] = 0
       /\ d.pc \in {"rebind", "take", "close"} => \A s \in Sessions : threadOf[s] = 0
  /\ d.kind = "compact" =>
       /\ d.pc \in {"take", "close", "reset"} => d.key = d.session
       /\ d.pc \in {"close", "reset"} => pool[d.session] = 0

OrderInv ==
  /\ focus = NoFocus
  /\ Alone
  /\ Stored
  /\ \A s \in Sessions : Follows(turn[s], s)
  /\ \A k \in Clients : Drops(client[k])

\* There are finitely many sessions and goroutines.
FinitelyMany == IsFiniteSet(Sessions) /\ IsFiniteSet(Clients)

\* A set with at most one element has no two.
LEMMA AtMostOne ==
  ASSUME NEW S, IsFiniteSet(S), Cardinality(S) <= 1
  PROVE  \A x, y \in S : x = y
<1>1. Cardinality(S) \in Nat
  BY FS_CardinalityType
<1>2. CASE Cardinality(S) = 0
  BY <1>2, FS_EmptySet
<1>3. CASE Cardinality(S) = 1
  BY <1>3, FS_Singleton
<1>. QED
  BY <1>1, <1>2, <1>3

\* The constraint of the run, in terms of who is at work.
LEMMA InOrderAlone ==
  ASSUME FinitelyMany, OneAtATime
  PROVE  Alone'
<1> DEFINE T == {s \in Sessions : turn'[s].pc # "idle"}
           C == {k \in Clients : client'[k].pc # "idle"}
<1>1. IsFiniteSet(T) /\ IsFiniteSet(C)
  BY FS_Subset DEF FinitelyMany
<1>2. Cardinality(T) \in Nat /\ Cardinality(C) \in Nat
  BY <1>1, FS_CardinalityType
<1>3. Cardinality(T) + Cardinality(C) <= 1
  BY DEF OneAtATime
<1>4. (T = {} <=> Cardinality(T) = 0) /\ (C = {} <=> Cardinality(C) = 0)
  BY <1>1, FS_EmptySet
<1> HIDE DEF T, C
<1>5. (\A s, t \in T : s = t) /\ (\A k, l \in C : k = l) /\ (T = {} \/ C = {})
  BY <1>1, <1>2, <1>3, <1>4, AtMostOne
<1>. QED
  BY <1>5 DEF T, C, Alone, Idle

\* A turn that is at work is alone, and changes nothing of the commands.
LEMMA TurnAlone ==
  ASSUME TypeOK, OrderInv, Alone', NEW s \in Sessions, TurnStep(s)
  PROVE  /\ UNCHANGED <<client, forgotten, focus>>
         /\ \A k \in Clients : client[k].pc = "idle"
         /\ \A t \in Sessions : t # s => turn'[t] = turn[t] /\ turn[t].pc = "idle"
<1>1. UNCHANGED <<client, forgotten, focus>>
  BY DEF TurnStep, sessions, BeginTurn, BindWorkspace, ReadThread, LookUp,
    Reuse, Discard, Dial, DialFails, PoolSession, SaveThread, EndUnsent, StartTurn, Answered,
    ServiceError, ReadError, RebindFailed, TakeFailed, CloseFailed, LegacyBind,
    LegacyThread, LegacySend, LegacyFails
<1>2. \A t \in Sessions : t # s => turn'[t] = turn[t]
  BY DEF TypeOK, Goes, GoesTo, TurnStep, BeginTurn, BindWorkspace, ReadThread, LookUp,
    Reuse, Discard, Dial, DialFails, PoolSession, SaveThread, EndUnsent, StartTurn, Answered,
    ServiceError, ReadError, RebindFailed, TakeFailed, CloseFailed, LegacyBind,
    LegacyThread, LegacySend, LegacyFails
<1>3. CASE BeginTurn(s)
  <2>1. turn'[s].pc = "begin"
    BY <1>3, BlankTyped DEF BeginTurn, Goes, TypeOK, Turn
  <2>. QED
    BY <1>1, <1>2, <2>1 DEF Alone, Idle
<1>4. CASE turn[s].pc # "idle"
  BY <1>1, <1>2, <1>4 DEF OrderInv, Alone, Idle
<1>5. BeginTurn(s) \/ turn[s].pc # "idle"
  BY DEF TurnStep, BindWorkspace, ReadThread, LookUp, Reuse, Discard,
    Dial, DialFails, PoolSession, SaveThread, EndUnsent, StartTurn, Answered,
    ServiceError, ReadError, RebindFailed, TakeFailed, CloseFailed, LegacyBind,
    LegacyThread, LegacySend, LegacyFails, Running
<1>. QED
  BY <1>1, <1>2, <1>3, <1>4, <1>5

\* So of a turn's step only its own record and what is stored matter.
LEMMA TurnFrame ==
  ASSUME TypeInv, OrderInv, Alone', NEW s \in Sessions, TurnStep(s),
         Stored', Follows(turn[s], s)'
  PROVE  OrderInv'
<1>1. /\ UNCHANGED <<client, forgotten, focus>>
      /\ \A k \in Clients : client[k].pc = "idle"
      /\ \A t \in Sessions : t # s => turn'[t] = turn[t] /\ turn[t].pc = "idle"
  BY TurnAlone DEF TypeInv
<1>2. ASSUME NEW t \in Sessions, t # s
      PROVE  Follows(turn[t], t)'
  <2>1. turn'[t] = turn[t] /\ turn[t].pc = "idle" /\ turn[t].resume = 0
    BY <1>1, <1>2 DEF TypeInv, ThreadInv, Refs
  <2>. QED
    BY <2>1 DEF Follows, Newer, OnConn
<1>3. ASSUME NEW k \in Clients
      PROVE  Drops(client[k])'
  BY <1>1 DEF OrderInv, Drops
<1>. QED
  BY <1>1, <1>2, <1>3 DEF OrderInv

\* A turn never comes to a thread that its session was promised to leave.
LEMMA TurnOrder ==
  ASSUME TypeInv, OrderInv, Alone', NEW s \in Sessions, TurnStep(s)
  PROVE  OrderInv'
<1>. USE BlankTyped DEF Goes, GoesTo
<1>1. /\ turn \in [Sessions -> Turn] /\ turn[s] \in Turn /\ made \in Nat
      /\ forgotten \in [Sessions -> ConnOrNone] /\ forgotten[s] \in Nat
      /\ threadOf \in [Sessions -> 0..made] /\ pool \in [Sessions -> 0..made]
      /\ info \in [ConnIds -> Conn]
      /\ Refs(turn[s], made, info) /\ Follows(turn[s], s) /\ Stored
      /\ BindingOf(s) = s
  BY DEF TypeInv, TypeOK, ThreadInv, OrderInv, BindingOf, ConnOrNone
<1>2. forgotten' = forgotten
  BY TurnAlone DEF TypeInv
<1>3. ASSUME UNCHANGED <<threadOf, pool, made, info>>
      PROVE  Stored'
  BY <1>1, <1>2, <1>3 DEF Stored, Newer
<1>4. CASE \/ EndUnsent(s) \/ Answered(s) \/ ReadError(s) \/ LegacyFails(s)
           \/ LegacySend(s) \/ ServiceError(s) \/ CloseFailed(s)
  <2>1. turn'[s] \in {Blank, Failed} /\ UNCHANGED <<threadOf, pool, made, info>>
    BY <1>1, <1>4 DEF EndUnsent, Answered, ReadError, LegacyFails, LegacySend,
      ServiceError, CloseFailed, sessions
  <2>2. Follows(turn[s], s)'
    BY <2>1 DEF Follows, Newer, OnConn
  <2>. QED
    BY <1>3, <2>1, <2>2, TurnFrame
<1>5. CASE \/ BeginTurn(s) \/ BindWorkspace(s) \/ ReadThread(s) \/ LookUp(s)
           \/ Reuse(s) \/ Discard(s) \/ DialFails(s)
  <2>0. UNCHANGED <<threadOf, pool, made, info>>
    BY <1>5 DEF BeginTurn, BindWorkspace, ReadThread, LookUp, Reuse, Discard, DialFails, sessions
  <2>1. ASSUME BeginTurn(s)
       PROVE  Follows(turn[s], s)'
    BY <1>1, <1>2, <2>1 DEF BeginTurn, Follows, Newer, OnConn, Turn
  <2>2. ASSUME BindWorkspace(s)
       PROVE  Follows(turn[s], s)'
    <3>1. PICK x \in Configs :
            turn' = [turn EXCEPT ![s] = [turn[s] EXCEPT !.pc = "bind", !.key = s, !.config = x]]
      BY <1>1, <2>2 DEF BindWorkspace
    <3>2. /\ turn'[s].pc = "bind" /\ turn'[s].key = s /\ turn'[s].resume = turn[s].resume
          /\ turn'[s].avoid = turn[s].avoid
      BY <1>1, <3>1 DEF Turn
    <3>3. turn[s].pc = "begin"
      BY <2>2 DEF BindWorkspace
    <3>. QED
      BY <1>1, <1>2, <3>2, <3>3 DEF Follows, Newer, OnConn
  <2>3. ASSUME ReadThread(s)
       PROVE  Follows(turn[s], s)'
    BY <1>1, <1>2, <2>0, <2>3 DEF ReadThread, Follows, Newer, OnConn, Turn, Stored
  <2>4. ASSUME LookUp(s)
       PROVE  Follows(turn[s], s)'
    BY <1>1, <1>2, <2>0, <2>4 DEF LookUp, Follows, Newer, OnConn, Turn, Stored
  <2>5. ASSUME Reuse(s)
       PROVE  Follows(turn[s], s)'
    BY <1>1, <1>2, <2>0, <2>5 DEF Reuse, Reusable, Follows, Newer, OnConn, Turn
  <2>6. ASSUME Discard(s)
       PROVE  Follows(turn[s], s)'
    BY <1>1, <1>2, <2>0, <2>6 DEF Discard, Follows, Newer, OnConn, Turn
  <2>7. ASSUME DialFails(s)
       PROVE  Follows(turn[s], s)'
    BY <1>1, <1>2, <2>0, <2>7 DEF DialFails, Follows, Newer, OnConn, Turn
  <2>. QED
    BY <1>3, <1>5, <2>0, <2>1, <2>2, <2>3, <2>4, <2>5, <2>6, <2>7, TurnFrame
<1>6. CASE RebindFailed(s) \/ LegacyBind(s) \/ StartTurn(s)
  <2>0. UNCHANGED <<threadOf, pool, made, info>>
    BY <1>6 DEF RebindFailed, LegacyBind, StartTurn, sessions
  <2>1. ASSUME RebindFailed(s)
       PROVE  Follows(turn[s], s)'
    BY <1>1, <1>2, <2>0, <2>1 DEF RebindFailed, Follows, Newer, OnConn, Turn
  <2>2. ASSUME LegacyBind(s)
       PROVE  Follows(turn[s], s)'
    BY <1>1, <1>2, <2>0, <2>2 DEF LegacyBind, Follows, Newer, OnConn, Turn
  <2>3. ASSUME StartTurn(s)
       PROVE  Follows(turn[s], s)'
    <3>1. turn'[s] = Failed \/ turn'[s] = [turn[s] EXCEPT !.pc = "turn"]
      BY <1>1, <2>3 DEF StartTurn
    <3>. QED
      BY <1>1, <1>2, <2>0, <2>3, <3>1 DEF StartTurn, Follows, Newer, OnConn, Turn
  <2>. QED
    BY <1>3, <1>6, <2>0, <2>1, <2>2, <2>3, TurnFrame
<1>7. CASE PoolSession(s)
  <2>1. /\ turn[s].key = s /\ turn[s].conn # 0 /\ Newer(info[turn[s].conn].thread, s)
        /\ pool' = [pool EXCEPT ![s] = turn[s].conn]
        /\ UNCHANGED <<threadOf, made, info>>
    BY <1>1, <1>7 DEF PoolSession, Follows, Refs, OnConn
  <2>2. Stored'
    BY <1>1, <1>2, <2>1 DEF Stored, Newer
  <2>3. \E pc \in {"start", "save"} : turn'[s] = [turn[s] EXCEPT !.pc = pc]
    BY <1>1, <1>7 DEF PoolSession
  <2>4. Follows(turn[s], s)'
    BY <1>1, <1>2, <1>7, <2>1, <2>3 DEF PoolSession, Follows, Newer, OnConn, Turn
  <2>. QED
    BY <2>2, <2>4, TurnFrame
<1>8. CASE SaveThread(s)
  <2>1. /\ turn[s].key = s /\ Newer(info[turn[s].conn].thread, s)
        /\ threadOf' = [threadOf EXCEPT ![s] = info[turn[s].conn].thread]
        /\ UNCHANGED <<pool, made, info>>
    BY <1>1, <1>8 DEF SaveThread, SavesFor, Follows, Refs, OnConn, sessions
  <2>2. Stored'
    BY <1>1, <1>2, <2>1 DEF Stored, Newer
  <2>3. Follows(turn[s], s)'
    BY <1>1, <1>2, <1>8, <2>1 DEF SaveThread, Follows, Newer, OnConn, Turn
  <2>. QED
    BY <2>2, <2>3, TurnFrame
<1>9. CASE TakeFailed(s)
  <2>1. /\ pool' = [pool EXCEPT ![s] = 0] /\ UNCHANGED <<threadOf, made, info>>
    BY <1>1, <1>9 DEF TakeFailed, Follows, OnConn
  <2>2. Stored'
    BY <1>1, <1>2, <2>1 DEF Stored, Newer
  <2>3. Follows(turn[s], s)'
    BY <1>1, <1>2, <1>9, <2>1 DEF TakeFailed, Follows, Newer, OnConn, Turn
  <2>. QED
    BY <2>2, <2>3, TurnFrame
<1>10. CASE Dial(s) \/ LegacyThread(s)
  <2>1. /\ turn[s].key = s /\ made' = made + 1 /\ pool' = pool /\ made + 1 \in ConnIds
        /\ made + 1 > forgotten[s]
        /\ threadOf' = threadOf \/ threadOf' = [threadOf EXCEPT ![s] = made + 1]
    <3>1. made < MaxConns /\ made' = made + 1 /\ pool' = pool
      BY <1>10 DEF Dial, LegacyThread
    <3>2. turn[s].key = s
      BY <1>1, <1>10 DEF Dial, LegacyThread, Follows
    <3>3. threadOf' = threadOf \/ threadOf' = [threadOf EXCEPT ![s] = made + 1]
      BY <1>10, <3>2 DEF Dial, LegacyThread, SavesFor
    <3>4. made + 1 > forgotten[s]
      BY <1>1 DEF Stored
    <3>. QED
      BY <1>1, <3>1, <3>2, <3>3, <3>4 DEF ConnIds
  <2>2. PICK th \in {turn[s].resume, made + 1} \ {0} :
          /\ info' = [info EXCEPT ![made + 1] = [workspace |-> turn[s].key,
                        config |-> turn[s].config, thread |-> th]]
          /\ turn'[s].conn = made + 1 /\ turn'[s].key = s
          /\ turn'[s].avoid = turn[s].avoid /\ Newer(turn'[s].resume, s)
          /\ \/ turn'[s].pc = "pool" /\ turn[s].pc = "dial"
             \/ turn'[s].pc = "legacyTurn"
    <3>1. CASE Dial(s)
      <4>1. PICK th \in {turn[s].resume, made + 1} \ {0} :
              /\ info' = [info EXCEPT ![made + 1] = [workspace |-> turn[s].key,
                            config |-> turn[s].config, thread |-> th]]
              /\ turn' = [turn EXCEPT ![s] =
                   [turn[s] EXCEPT !.pc = "pool", !.conn = made + 1, !.resume = 0,
                                   !.resumed = (th # made + 1)]]
        BY <3>1 DEF Dial
      <4>2. turn[s].pc = "dial"
        BY <3>1 DEF Dial
      <4>. QED
        BY <1>1, <2>1, <4>1, <4>2 DEF Turn, Newer
    <3>2. CASE LegacyThread(s)
      <4>1. /\ info' = [info EXCEPT ![made + 1] = [workspace |-> turn[s].key,
                          config |-> turn[s].config, thread |-> made + 1]]
            /\ turn' = [turn EXCEPT ![s] =
                 [turn[s] EXCEPT !.pc = "legacyTurn", !.conn = made + 1]]
        BY <1>1, <3>2 DEF LegacyThread
      <4>2. made + 1 \in {turn[s].resume, made + 1} \ {0}
        BY <1>1
      <4>. QED
        BY <1>1, <2>1, <4>1, <4>2 DEF Turn, Follows
    <3>. QED
      BY <1>10, <3>1, <3>2
  <2>3. Newer(th, s)
    BY <1>1, <2>1 DEF Follows, Newer
  <2>4. info'[made + 1].thread = th /\ \A c \in 1..made : info'[c] = info[c]
    BY <1>1, <2>1, <2>2 DEF ConnIds
  <2>5. Stored'
    BY <1>1, <1>2, <2>1, <2>4 DEF Stored, Newer, ConnOrNone
  <2>6. Follows(turn[s], s)'
    BY <1>1, <1>2, <2>2, <2>3, <2>4 DEF Follows, Newer, OnConn
  <2>. QED
    BY <2>5, <2>6, TurnFrame
<1>. QED
  BY <1>4, <1>5, <1>6, <1>7, <1>8, <1>9, <1>10 DEF TurnStep

\* A command that is at work is alone too.
LEMMA CommandAlone ==
  ASSUME TypeOK, OrderInv, Alone', NEW k \in Clients, CommandStep(k) \/ IssueStep(k)
  PROVE  /\ UNCHANGED <<turn, made, info>>
         /\ \A s \in Sessions : turn[s].pc = "idle"
         /\ \A l \in Clients : l # k => client'[l] = client[l] /\ client[l].pc = "idle"
<1>. USE NoCommandTyped
<1>1. UNCHANGED <<turn, made, info>>
  BY DEF CommandStep, IssueStep, CancelSession, CancelDone, WorkersDone,
    SwapPool, CloseOne, Swept, ResetAllThreads, Rebind, TakeSession, CloseTaken,
    ResetThread, SetFocus, Shutdown, Clear, Compact, sessions
<1>2. \A l \in Clients : l # k => client'[l] = client[l]
  BY DEF TypeOK, CommandStep, IssueStep, CancelSession, CancelDone, WorkersDone,
    SwapPool, CloseOne, Swept, ResetAllThreads, Rebind, TakeSession, CloseTaken,
    ResetThread, SetFocus, Shutdown, Clear, Compact, Finish, Moves, Issue,
    IssueFor
<1>3. CASE IssueStep(k)
  <2>1. PICK pc \in {"swap", "wait", "cancel", "rebind"}, r \in Client :
          client'[k] = [r EXCEPT !.pc = pc]
    <3>1. CASE SetFocus(k)
      <4>1. client'[k] = [[NoCommand EXCEPT !.kind = "focus"] EXCEPT !.pc = "swap"]
        BY <3>1 DEF SetFocus, Issue, TypeOK, Client
      <4>2. [NoCommand EXCEPT !.kind = "focus"] \in Client
        BY <3>1 DEF SetFocus, Issue, Client
      <4>. QED
        BY <4>1, <4>2
    <3>2. CASE Shutdown(k)
      <4>1. client'[k] = [[NoCommand EXCEPT !.kind = "shutdown"] EXCEPT !.pc = "wait"]
        BY <3>2 DEF Shutdown, Issue, TypeOK, Client
      <4>2. [NoCommand EXCEPT !.kind = "shutdown"] \in Client
        BY <3>2 DEF Shutdown, Issue, Client
      <4>. QED
        BY <4>1, <4>2
    <3>3. ASSUME NEW s \in Sessions, NEW kind, NEW pc \in {"cancel", "rebind"},
                 IssueFor(k, kind, s, pc)
          PROVE  client'[k].pc = pc /\ client'[k] \in Client
      BY <3>3 DEF IssueFor, TypeOK, Client, ClientPc
    <3>4. CASE \E s \in Sessions : Clear(k, s) \/ Compact(k, s)
      <4>1. client'[k].pc \in {"cancel", "rebind"} /\ client'[k] \in Client
        BY <3>3, <3>4 DEF Clear, Compact
      <4>2. client'[k] = [client'[k] EXCEPT !.pc = client'[k].pc]
        BY <4>1 DEF Client
      <4>. QED
        BY <4>1, <4>2
    <3>. QED
      BY <1>3, <3>1, <3>2, <3>4 DEF IssueStep
  <2>2. client'[k].pc # "idle"
    BY <2>1 DEF Client
  <2>. QED
    BY <1>1, <1>2, <2>2 DEF Alone, Idle
<1>4. CASE client[k].pc # "idle"
  BY <1>1, <1>2, <1>4 DEF OrderInv, Alone, Idle
<1>5. IssueStep(k) \/ client[k].pc # "idle"
  BY DEF CommandStep, CancelSession, CancelDone, WorkersDone, SwapPool, CloseOne, Swept,
    ResetAllThreads, Rebind, TakeSession, CloseTaken, ResetThread
<1>. QED
  BY <1>1, <1>2, <1>3, <1>4, <1>5

\* So of a command's step only its own record and what is stored matter.
LEMMA CommandFrame ==
  ASSUME TypeInv, OrderInv, Alone', focus' = focus,
         NEW k \in Clients, CommandStep(k) \/ IssueStep(k),
         Stored', Drops(client[k])'
  PROVE  OrderInv'
<1>1. /\ UNCHANGED <<turn, made, info>>
      /\ \A s \in Sessions : turn[s].pc = "idle"
      /\ \A l \in Clients : l # k => client'[l] = client[l] /\ client[l].pc = "idle"
  BY CommandAlone DEF TypeInv
<1>2. ASSUME NEW s \in Sessions
      PROVE  Follows(turn[s], s)'
  <2>1. turn'[s] = turn[s] /\ turn[s].pc = "idle" /\ turn[s].resume = 0
    BY <1>1 DEF TypeInv, ThreadInv, Refs
  <2>. QED
    BY <2>1 DEF Follows, Newer, OnConn
<1>3. ASSUME NEW l \in Clients, l # k
      PROVE  Drops(client[l])'
  BY <1>1, <1>3 DEF OrderInv, Drops
<1>. QED
  BY <1>2, <1>3 DEF OrderInv

\* A command drops all it promises to leave before it says that it has.
LEMMA CommandOrder ==
  ASSUME TypeInv, OrderInv, Alone', focus' = focus,
         NEW k \in Clients, CommandStep(k) \/ IssueStep(k)
  PROVE  OrderInv'
<1>. USE NoCommandTyped
<1> DEFINE d == client[k]
           e == client'[k]
<1>1. /\ client \in [Clients -> Client] /\ d \in Client /\ made \in Nat
      /\ forgotten \in [Sessions -> ConnOrNone] /\ forgotten \in [Sessions -> Nat]
      /\ threadOf \in [Sessions -> 0..made] /\ pool \in [Sessions -> 0..made]
      /\ d.session \in Sessions /\ d.key \in Sessions
      /\ Drops(d) /\ Stored
      /\ BindingOf(d.session) = d.session
  BY DEF TypeInv, TypeOK, OrderInv, BindingOf, ConnOrNone, Client
<1>2. UNCHANGED <<turn, made, info>>
  BY CommandAlone DEF TypeInv
<1>3. ASSUME UNCHANGED <<threadOf, pool, forgotten>>
      PROVE  Stored'
  BY <1>2, <1>3, <1>1 DEF Stored, Newer
<1>4. CASE IssueStep(k)
  <2>1. UNCHANGED <<threadOf, pool, forgotten>>
    BY <1>4 DEF IssueStep, SetFocus, Shutdown, Clear, Compact, sessions
  <2>2. ASSUME SetFocus(k) \/ Shutdown(k)
        PROVE  Drops(client[k])'
    <3>1. e.pc \in {"swap", "wait"} /\ e.kind \in {"focus", "shutdown"}
      <4>1. CASE SetFocus(k)
        BY <1>1, <4>1 DEF SetFocus, Issue, Client
      <4>2. CASE Shutdown(k)
        BY <1>1, <4>2 DEF Shutdown, Issue, Client
      <4>. QED
        BY <2>2, <4>1, <4>2
    <3>. QED
      BY <3>1 DEF Drops
  <2>3. ASSUME NEW s \in Sessions, Clear(k, s) \/ Compact(k, s)
        PROVE  Drops(client[k])'
    <3>1. /\ e.old = made
          /\ \/ e.pc = "cancel" /\ e.kind = "clear"
             \/ e.pc = "rebind" /\ e.kind = "compact"
      <4>1. CASE Clear(k, s)
        BY <1>1, <4>1 DEF Clear, IssueFor, Client
      <4>2. CASE Compact(k, s)
        BY <1>1, <4>2 DEF Compact, IssueFor, Client
      <4>. QED
        BY <2>3, <4>1, <4>2
    <3>. QED
      BY <1>2, <3>1 DEF Drops
  <2>. QED
    BY <1>3, <1>4, <2>1, <2>2, <2>3, CommandFrame DEF IssueStep
<1>5. CASE CancelSession(k) \/ CancelDone(k) \/ WorkersDone(k) \/ CloseOne(k)
  <2>1. UNCHANGED <<threadOf, pool, forgotten>>
    BY <1>5 DEF CancelSession, CancelDone, WorkersDone, CloseOne, sessions
  <2>2. /\ e.kind = d.kind /\ e.old = d.old /\ e.session = d.session /\ e.key = d.key
        /\ \/ e.pc = d.pc
           \/ e.pc = "swap" /\ d.pc \in {"cancel", "wait"}
        /\ d.pc # "idle"
    <3>1. CASE CancelSession(k)
      <4>1. PICK s \in d.todo : client' = [client EXCEPT ![k].todo = @ \ {s}]
        BY <3>1 DEF CancelSession
      <4>2. d.pc = "cancel"
        BY <3>1 DEF CancelSession
      <4>. QED
        BY <1>1, <4>1, <4>2 DEF Client
    <3>2. CASE CloseOne(k)
      <4>1. PICK c \in d.closing : client' = [client EXCEPT ![k].closing = @ \ {c}]
        BY <3>2 DEF CloseOne
      <4>2. d.pc = "sweep"
        BY <3>2 DEF CloseOne
      <4>. QED
        BY <1>1, <4>1, <4>2 DEF Client
    <3>3. CASE CancelDone(k) \/ WorkersDone(k)
      BY <1>1, <3>3 DEF CancelDone, WorkersDone, Moves, Client
    <3>. QED
      BY <1>5, <3>1, <3>2, <3>3
  <2>3. Drops(client[k])'
    BY <1>1, <1>2, <2>1, <2>2 DEF Drops
  <2>. QED
    BY <1>3, <2>1, <2>3, CommandFrame
<1>6. CASE SwapPool(k)
  <2>1. /\ \A s \in Sessions : pool'[s] = 0
        /\ UNCHANGED <<threadOf, forgotten>> /\ d.pc = "swap"
        /\ e = [d EXCEPT !.pc = "sweep", !.closing = Pooled]
    BY <1>1, <1>6 DEF SwapPool
  <2>2. Stored'
    BY <1>1, <1>2, <2>1 DEF Stored, Newer
  <2>3. e.pc = "sweep" /\ e.kind = d.kind /\ e.old = d.old /\ e.session = d.session
    BY <1>1, <2>1 DEF Client
  <2>4. Drops(client[k])'
    BY <1>1, <1>2, <2>1, <2>3 DEF Drops
  <2>. QED
    BY <2>2, <2>4, CommandFrame
<1>7. CASE Swept(k)
  <2>1. UNCHANGED <<threadOf, pool, forgotten>> /\ d.pc = "sweep"
    BY <1>7 DEF Swept, sessions
  <2>2. \/ e = NoCommand
        \/ d.kind = "clear" /\ e = [d EXCEPT !.pc = "reset"]
    BY <1>1, <1>7 DEF Swept, Finish, Moves
  <2>3. Drops(client[k])'
    BY <1>1, <1>2, <2>1, <2>2 DEF Drops, Client
  <2>. QED
    BY <1>3, <2>1, <2>3, CommandFrame
<1>8. CASE ResetAllThreads(k)
  <2>1. /\ \A s \in Sessions : threadOf'[s] = 0
        /\ UNCHANGED <<pool, forgotten>> /\ d.pc = "reset" /\ d.kind = "clear"
        /\ e = [d EXCEPT !.pc = "rebind"]
    BY <1>1, <1>8 DEF ResetAllThreads, ForgetsThread, Moves, sessions
  <2>2. Stored'
    BY <1>1, <1>2, <2>1 DEF Stored, Newer
  <2>3. Drops(client[k])'
    BY <1>1, <1>2, <2>1 DEF Drops, Client
  <2>. QED
    BY <2>2, <2>3, CommandFrame
<1>9. CASE Rebind(k)
  <2>1. UNCHANGED <<threadOf, pool, forgotten>> /\ d.pc = "rebind"
    BY <1>9 DEF Rebind, sessions
  <2>2. /\ e.pc = "take" /\ e.key = d.session /\ e.session = d.session
        /\ e.kind = d.kind /\ e.old = d.old
    BY <1>1, <1>9 DEF Rebind, Client
  <2>3. Drops(client[k])'
    BY <1>1, <1>2, <2>1, <2>2 DEF Drops
  <2>. QED
    BY <1>3, <2>1, <2>3, CommandFrame
<1>10. CASE TakeSession(k)
  <2>1. /\ pool' = [pool EXCEPT ![d.key] = 0]
        /\ UNCHANGED <<threadOf, forgotten>> /\ d.pc = "take"
    BY <1>10 DEF TakeSession
  <2>2. Stored'
    BY <1>1, <1>2, <2>1 DEF Stored, Newer
  <2>3. /\ e.pc = "close" /\ e.key = d.key /\ e.session = d.session
        /\ e.kind = d.kind /\ e.old = d.old
    BY <1>1, <1>10 DEF TakeSession, Client
  <2>4. Drops(client[k])'
    BY <1>1, <1>2, <2>1, <2>3 DEF Drops
  <2>. QED
    BY <2>2, <2>4, CommandFrame
<1>11. CASE CloseTaken(k)
  <2>1. UNCHANGED <<threadOf, pool>> /\ d.pc = "close"
    BY <1>11 DEF CloseTaken
  <2>2. CASE d.kind = "compact"
    <3>1. /\ UNCHANGED forgotten
          /\ e.pc = "reset" /\ e.key = d.key /\ e.session = d.session
          /\ e.kind = d.kind /\ e.old = d.old
      BY <1>1, <1>11, <2>2 DEF CloseTaken, Client
    <3>2. Drops(client[k])'
      BY <1>1, <1>2, <2>1, <2>2, <3>1 DEF Drops
    <3>. QED
      BY <1>3, <2>1, <3>1, <3>2, CommandFrame
  <2>3. CASE d.kind # "compact"
    <3>1. d.kind = "clear" /\ d.old = made /\ \A s \in Sessions : pool[s] = 0 /\ threadOf[s] = 0
      BY <1>1, <2>1, <2>3 DEF Drops
    <3>2. e = NoCommand /\ \A s \in Sessions : forgotten'[s] = IF forgotten[s] < made THEN made ELSE forgotten[s]
      BY <1>1, <1>11, <2>3, <3>1 DEF CloseTaken, Finish, ForgetAll
    <3>3. Stored'
      BY <1>1, <1>2, <2>1, <3>1, <3>2 DEF Stored, Newer
    <3>4. Drops(client[k])'
      BY <3>2 DEF Drops
    <3>. QED
      BY <3>3, <3>4, CommandFrame
  <2>. QED
    BY <2>2, <2>3
<1>12. CASE ResetThread(k)
  <2>1. /\ d.pc = "reset" /\ d.kind = "compact" /\ e = NoCommand /\ pool' = pool
        /\ threadOf' = [threadOf EXCEPT ![d.session] = 0]
        /\ forgotten' = [forgotten EXCEPT ![d.session] =
                           IF forgotten[d.session] < d.old THEN d.old ELSE forgotten[d.session]]
    BY <1>1, <1>12 DEF ResetThread, Finish, Forget, ForgetsThread, sessions
  <2>2. d.old = made /\ pool[d.session] = 0
    BY <1>1, <2>1 DEF Drops
  <2>3. Stored'
    BY <1>1, <1>2, <2>1, <2>2 DEF Stored, Newer
  <2>4. Drops(client[k])'
    BY <2>1 DEF Drops
  <2>. QED
    BY <2>3, <2>4, CommandFrame
<1>. QED
  BY <1>4, <1>5, <1>6, <1>7, <1>8, <1>9, <1>10, <1>11, <1>12 DEF CommandStep

\* No step of the instance where all comes in order disturbs the invariant.
LEMMA OrderStep ==
  ASSUME FinitelyMany, TypeInv, inOrder => OrderInv, [MCNext]_<<vars, inOrder>>,
         [InInstance]_<<vars, inOrder>>
  PROVE  (inOrder => OrderInv)'
<1>1. CASE UNCHANGED <<vars, inOrder>>
  BY <1>1 DEF vars, sessions, OrderInv, Alone, Idle, Stored, Follows, Newer, Drops
<1>2. CASE ~UNCHANGED <<vars, inOrder>>
  <2> SUFFICES ASSUME inOrder' PROVE OrderInv'
    OBVIOUS
  <2>1. Next /\ inOrder /\ OrderInv /\ OneAtATime /\ focus' = focus
    BY <1>2 DEF MCNext, InInstance
  <2>2. Alone'
    BY <2>1, InOrderAlone
  <2>3. ASSUME NEW s \in Sessions, CancelTurn(s)
        PROVE  OrderInv'
    BY <2>1, <2>3 DEF CancelTurn, sessions, OrderInv, Alone, Idle, Stored, Follows, Newer, Drops
  <2>4. ASSUME NEW c \in ConnIds, CloseDue(c)
        PROVE  OrderInv'
    BY <2>1, <2>4 DEF CloseDue, OrderInv, Alone, Idle, Stored, Follows, Newer, Drops
  <2>. QED
    BY <2>1, <2>2, <2>3, <2>4, TurnOrder, CommandOrder DEF Next
<1>. QED
  BY <1>1, <1>2

\* While turns and commands come one at a time, a turn that begins after /clear or
\* /compact returned never runs on a thread from before it, for any number of sessions,
\* profiles and connections.  (closeAppSession, clearAllAgentsAndContexts)
THEOREM NothingOldIsResumed ==
  ASSUME FinitelyMany
  PROVE  MCSpec /\ [][InInstance]_<<vars, inOrder>> => []ForgottenInOrder
<1> DEFINE Inv == TypeInv /\ (inOrder => OrderInv)
<1>1. MCInit => Inv
  <2> SUFFICES ASSUME Init PROVE TypeInv /\ OrderInv
    BY DEF MCInit
  <2>1. TypeInv
    BY InitTypeInv
  <2>2. OrderInv
    BY BlankTyped, NoCommandTyped
       DEF Init, OrderInv, Alone, Idle, Stored, Follows, Newer, Drops, OnConn
  <2>. QED
    BY <2>1, <2>2
<1>2. Inv /\ [MCNext]_<<vars, inOrder>> /\ [InInstance]_<<vars, inOrder>> => Inv'
  <2> SUFFICES ASSUME Inv, [MCNext]_<<vars, inOrder>>, [InInstance]_<<vars, inOrder>>
               PROVE  Inv'
    OBVIOUS
  <2>1. [Next]_vars
    BY DEF MCNext
  <2>2. TypeInv'
    BY <2>1, TypeStep, ThreadStep DEF TypeInv
  <2>. QED
    BY <2>2, OrderStep
<1>3. Inv => ForgottenInOrder
  <2> SUFFICES ASSUME TypeInv, OrderInv, NEW s \in Sessions, Running(s)
               PROVE  info[turn[s].conn].thread > turn[s].avoid
    BY DEF ForgottenInOrder, StaysForgotten
  <2>1. Follows(turn[s], s) /\ turn[s].pc = "turn" /\ turn[s].conn \in 1..made
    BY DEF OrderInv, Running, TypeInv, ThreadInv, Refs, OnConn
  <2>2. info[turn[s].conn].thread # 0
    BY <2>1 DEF TypeInv, ThreadInv, Threads
  <2>. QED
    BY <2>1, <2>2 DEF Follows, Newer, OnConn
<1>. QED
  BY <1>1, <1>2, <1>3, PTL DEF MCSpec

=============================================================================
