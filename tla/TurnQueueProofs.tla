--------------------------- MODULE TurnQueueProofs ---------------------------
(***************************************************************************)
(* Theorems about TurnQueue for any sets of sessions, turns and clients.   *)
(*                                                                         *)
(* The typing of the queue needs to know that the counter agrees with the  *)
(* option lists (otherwise dequeue would fall back to message 0), so type  *)
(* correctness, the pairing of the lists and "a worker that runs holds a   *)
(* turn" are proved together.  The worker invariant then says what the     *)
(* worker flag means.  The last part shows that the queue implements       *)
(* ChatTurns: ServeInv says where a turn is, and every step maps to one of  *)
(* ChatTurns or to none.                                                   *)
(***************************************************************************)
EXTENDS TurnQueue, SequenceTheorems, TLAPS

TypeInv == TypeOK /\ OptionsStayPaired /\ HoldsATurn

USE SessionOfAssumption, ModeAssumption, NoTurnAssumption

-----------------------------------------------------------------------------
(* The lists and the records of the model.                                 *)

\* The head of a nonempty option list is one of its entries: dequeue's default
\* is not used.
LEMMA FirstTyped ==
  ASSUME NEW S, NEW list \in Seq(S), NEW default, Len(list) > 0
  PROVE  FirstOr(list, default) = list[1] /\ FirstOr(list, default) \in S
  BY DEF FirstOr

\* Dropping the head keeps the other entries, in order.
LEMMA RestTyped ==
  ASSUME NEW S, NEW list \in Seq(S), Len(list) > 0
  PROVE  /\ RestOf(list) \in Seq(S)
         /\ Len(RestOf(list)) = Len(list) - 1
         /\ \A i \in 1..(Len(list) - 1) : RestOf(list)[i] = list[i + 1]
  BY DEF RestOf

\* A cancelling goroutine moves on.
LEMMA ClientPcUpdate ==
  ASSUME NEW r \in Client, NEW p \in ClientPc
  PROVE  [r EXCEPT !.pc = p] \in Client
  BY DEF Client

\* A cancelling goroutine moves on and remembers whether it cancelled anything.
LEMMA ClientUpdate ==
  ASSUME NEW r \in Client, NEW p \in ClientPc, NEW b \in BOOLEAN
  PROVE  [r EXCEPT !.any = b, !.pc = p] \in Client
  BY DEF Client

\* A cancelling goroutine answers.
LEMMA AnswerTyped ==
  ASSUME TypeOK, NEW c \in Clients, NEW r \in Reply, Answer(c, r)
  PROVE  client' \in [Clients -> Client]
<1>1. client[c] \in Client
  BY DEF TypeOK
<1>2. [pc |-> "idle", session |-> client[c].session, waits |-> FALSE, any |-> FALSE,
       held |-> IF r = "nothing" THEN client[c].held ELSE {}, reply |-> r] \in Client
  BY <1>1 DEF Client, ClientPc, Reply
<1>. QED
  BY <1>2 DEF Answer, TypeOK

-----------------------------------------------------------------------------
(* Type correctness.                                                       *)

\* The program starts in a well-typed state.
LEMMA InitTypeInv == Init => TypeInv
<1> SUFFICES ASSUME Init
             PROVE  TypeInv
  OBVIOUS
<1>1. client \in [Clients -> Client]
  <2> SUFFICES ASSUME NEW c \in Clients
               PROVE  client[c] \in Client
    BY DEF Init
  <2>1. client[c] \in [pc : {"idle"}, session : Sessions, waits : {FALSE},
                       any : {FALSE}, held : {{}}, reply : {"none"}]
    BY DEF Init
  <2>. QED
    BY <2>1 DEF Client, ClientPc, Reply
<1>2. TypeOK
  BY <1>1 DEF Init, TypeOK, WorkerPc, Outcome, ShutPc
<1>3. OptionsStayPaired /\ HoldsATurn
  BY DEF Init, OptionsStayPaired, HoldsATurn, Holding
<1>. QED
  BY <1>2, <1>3 DEF TypeInv


\* Every step keeps every variable in its type.
LEMMA TypeStep == TypeInv /\ [Next]_vars => TypeOK'
<1> SUFFICES ASSUME TypeOK, OptionsStayPaired, HoldsATurn, [Next]_vars
             PROVE  TypeOK'
  BY DEF TypeInv
<1>1. ASSUME NEW t \in Turns, AddChatMessage(t)
      PROVE  TypeOK'
  BY <1>1 DEF AddChatMessage, TypeOK, tracker, Outcome, Ended
<1>2. ASSUME NEW t \in Turns, Enqueue(t)
      PROVE  TypeOK'
  BY <1>2 DEF Enqueue, TypeOK, tracker, ClaimsWorker, WorkerPc, Outcome,
         Ended
<1>3. ASSUME NEW t \in Turns, StartWorker(t)
      PROVE  TypeOK'
  BY <1>3 DEF StartWorker, TypeOK, tracker, WorkerPc
<1>4. ASSUME NEW w \in Turns, LoopTop(w)
      PROVE  TypeOK'
  BY <1>4 DEF LoopTop, TypeOK, tracker, StopsAtTop, shutdownRequested,
         WorkerPc
<1>5. ASSUME NEW w \in Turns, DequeueNothing(w)
      PROVE  TypeOK'
  BY <1>5 DEF DequeueNothing, TypeOK, tracker, WorkerPc
<1>6. ASSUME NEW w \in Turns, Dequeue(w)
      PROVE  TypeOK'
  BY <1>6, FirstTyped, RestTyped DEF Dequeue, TypeOK, OptionsStayPaired,
         HasQueued, RestOfModes, WorkerPc, Outcome, Ended
<1>7. ASSUME NEW w \in Turns, MarkIdleIfEmpty(w)
      PROVE  TypeOK'
  BY <1>7 DEF MarkIdleIfEmpty, TypeOK, tracker, QueueEmpty, WorkerPc
<1>8. ASSUME NEW w \in Turns, CheckShutdown(w)
      PROVE  TypeOK'
  BY <1>8 DEF CheckShutdown, TypeOK, tracker, shutdownRequested, WorkerPc,
         Outcome, Ended
<1>9. ASSUME NEW w \in Turns, EndUnregistered(w)
      PROVE  TypeOK'
  BY <1>9 DEF EndUnregistered, TypeOK, tracker, WorkerPc, Outcome, Ended
<1>10. ASSUME NEW w \in Turns, Register(w)
      PROVE  TypeOK'
  BY <1>10 DEF Register, TypeOK, tracker, WorkerPc
<1>11. ASSUME NEW w \in Turns, EndRun(w)
      PROVE  TypeOK'
  BY <1>11 DEF EndRun, TypeOK, tracker, WorkerPc, Outcome, Ended
<1>12. ASSUME NEW w \in Turns, EndCancelled(w)
      PROVE  TypeOK'
  BY <1>12 DEF EndCancelled, TypeOK, tracker, WorkerPc, Outcome, Ended
<1>13. ASSUME NEW w \in Turns, Unregister(w)
      PROVE  TypeOK'
  BY <1>13 DEF Unregister, TypeOK, HoldsATurn, Holding, OwnsEntry, WorkerPc
<1>14. ASSUME NEW c \in Clients, NEW s \in Sessions, NEW b \in BOOLEAN,
             CancelActive(c, s, b)
      PROVE  TypeOK'
  <2>1. HeldBy(s) \in SUBSET Turns
    BY DEF HeldBy, HoldsATurn, WorkersOf
  <2>2. [pc |-> "clear", session |-> s, waits |-> b,
         any |-> active[s] # NoTurn /\ ~canceling[s],
         held |-> HeldBy(s), reply |-> "none"] \in Client
    BY <2>1 DEF Client, ClientPc, Reply
  <2>. QED
    BY <1>14, <2>2 DEF CancelActive, TypeOK, ContextOf
<1>15. ASSUME NEW c \in Clients, ClearQueued(c)
      PROVE  TypeOK'
  <2>1. client[c].session \in Sessions
    BY DEF TypeOK, Client
  <2>2. CASE client[c].waits
    <3>. DEFINE any == client[c].any \/ HasQueued(client[c].session)
                next == [client[c] EXCEPT !.any = any, !.pc = "drainActive"]
    <3>1. next \in Client
      <4>1. any \in BOOLEAN
        OBVIOUS
      <4>2. client[c] \in Client /\ "drainActive" \in ClientPc
        BY DEF TypeOK, ClientPc
      <4>. HIDE DEF any
      <4>. QED
        BY <4>1, <4>2, ClientUpdate
    <3>2. client' = [client EXCEPT ![c] = next]
      BY <1>15, <2>2 DEF ClearQueued
    <3>3. client' \in [Clients -> Client]
      <4>. HIDE DEF next
      <4>. QED
        BY <3>1, <3>2 DEF TypeOK
    <3>. QED
      BY <1>15, <2>1, <3>3 DEF ClearQueued, TypeOK, Outcome, Ended
  <2>3. CASE ~client[c].waits
    <3>1. client' \in [Clients -> Client]
      BY <1>15, <2>3, AnswerTyped DEF ClearQueued, Reply
    <3>. QED
      BY <1>15, <2>1, <3>1 DEF ClearQueued, TypeOK, Outcome, Ended
  <2>. QED
    BY <2>2, <2>3
<1>16. ASSUME NEW c \in Clients, DrainActive(c)
      PROVE  TypeOK'
  <2>1. [client[c] EXCEPT !.pc = "drainQueued"] \in Client
    BY ClientPcUpdate DEF TypeOK, ClientPc
  <2>. QED
    BY <1>16, <2>1 DEF DrainActive, TypeOK, tracker
<1>17. ASSUME NEW c \in Clients, DrainQueued(c)
      PROVE  TypeOK'
  <2>1. [client[c] EXCEPT !.pc = "drainActive"] \in Client
    BY ClientPcUpdate DEF TypeOK, ClientPc
  <2>2. client' \in [Clients -> Client]
    BY <1>17, <2>1, AnswerTyped DEF DrainQueued, TypeOK, Reply
  <2>. QED
    BY <1>17, <2>2 DEF DrainQueued, TypeOK, tracker
<1>18. ASSUME NEW c \in Clients, DrainTimeout(c)
      PROVE  TypeOK'
  BY <1>18, AnswerTyped DEF DrainTimeout, TypeOK, tracker, Reply
<1>19. CASE ShutdownCancel
  BY <1>19 DEF ShutdownCancel, TypeOK, tracker, ShutPc
<1>20. CASE CancelAll
  BY <1>20 DEF CancelAll, TypeOK, tracker, ShutPc
<1>21. CASE WorkersDone
  BY <1>21 DEF WorkersDone, TypeOK, tracker, Counted, ShutPc
<1>22. CASE WaitExpired
  BY <1>22 DEF WaitExpired, TypeOK, tracker, ShutPc
<1>23. CASE CloseStore
  BY <1>23 DEF CloseStore, TypeOK, tracker, ShutPc
<1>24. CASE UNCHANGED vars
  BY <1>24 DEF vars, TypeOK
<1>. QED
  BY <1>1, <1>2, <1>3, <1>4, <1>5, <1>6, <1>7, <1>8, <1>9, <1>10, <1>11,
     <1>12, <1>13, <1>14, <1>15, <1>16, <1>17, <1>18, <1>19, <1>20, <1>21,
     <1>22, <1>23, <1>24 DEF Next, Submit, WorkerStep, Cancel, CancelStep,
     Shutdown

\* The lists move together: enqueue appends to all, dequeue takes the head of
\* all, clearQueued empties all.
LEMMA PairedStep == TypeInv /\ [Next]_vars => OptionsStayPaired'
<1> SUFFICES ASSUME TypeOK, OptionsStayPaired, [Next]_vars
             PROVE  OptionsStayPaired'
  BY DEF TypeInv
<1>1. ASSUME NEW t \in Turns, AddChatMessage(t)
      PROVE  OptionsStayPaired'
  BY <1>1 DEF AddChatMessage, OptionsStayPaired, tracker
<1>2. ASSUME NEW t \in Turns, Enqueue(t)
      PROVE  OptionsStayPaired'
  <2>. DEFINE s == SessionOf[t]
  <2>1. s \in Sessions /\ queue[s] \in Nat /\ messageID[s] \in Seq(Turns)
        /\ outputMode[s] \in Seq(Modes) /\ ModeOf[t] \in Modes
    BY DEF TypeOK
  <2>2. /\ Len(messageID'[s]) = queue'[s] /\ Len(outputMode'[s]) = queue'[s]
        /\ \A i \in 1..queue'[s] : outputMode'[s][i] = ModeOf[messageID'[s][i]]
    BY <1>2, <2>1 DEF Enqueue, TypeOK, OptionsStayPaired
  <2>3. \A r \in Sessions : r # s => /\ messageID'[r] = messageID[r]
                                     /\ outputMode'[r] = outputMode[r]
                                     /\ queue'[r] = queue[r]
    BY <1>2 DEF Enqueue, TypeOK
  <2>. QED
    BY <1>2, <2>2, <2>3 DEF Enqueue, OptionsStayPaired
<1>3. ASSUME NEW t \in Turns, StartWorker(t)
      PROVE  OptionsStayPaired'
  BY <1>3 DEF StartWorker, OptionsStayPaired, tracker
<1>4. ASSUME NEW w \in Turns, LoopTop(w)
      PROVE  OptionsStayPaired'
  BY <1>4 DEF LoopTop, OptionsStayPaired, tracker
<1>5. ASSUME NEW w \in Turns, DequeueNothing(w)
      PROVE  OptionsStayPaired'
  BY <1>5 DEF DequeueNothing, OptionsStayPaired, tracker
<1>6. ASSUME NEW w \in Turns, Dequeue(w)
      PROVE  OptionsStayPaired'
  <2>. DEFINE s == SessionOf[w]
              t == FirstOr(messageID[s], NoTurn)
  <2>1. s \in Sessions /\ queue[s] \in Nat /\ messageID[s] \in Seq(Turns)
        /\ outputMode[s] \in Seq(Modes)
    BY DEF TypeOK
  <2>2. /\ queue[s] > 0 /\ Len(messageID[s]) = queue[s] /\ Len(outputMode[s]) = queue[s]
        /\ \A i \in 1..queue[s] : outputMode[s][i] = ModeOf[messageID[s][i]]
    BY <1>6, <2>1 DEF Dequeue, HasQueued, OptionsStayPaired
  <2>3. t \in Turns /\ t = messageID[s][1]
        /\ FirstOr(outputMode[s], DefaultMode) = outputMode[s][1]
    BY <2>1, <2>2, FirstTyped
  <2>4. FirstOr(outputMode[s], DefaultMode) = ModeOf[t]
    BY <2>1, <2>2, <2>3
  <2>5. runMode' = [runMode EXCEPT ![t] = ModeOf[t]]
    BY <1>6, <2>4 DEF Dequeue
  <2>6. \A u \in Turns : runMode'[u] = ModeOf[u]
    BY <2>3, <2>5 DEF TypeOK, OptionsStayPaired
  <2>7. queue'[s] = queue[s] - 1
    BY <1>6, <2>1 DEF Dequeue, TypeOK
  <2>8. /\ Len(messageID'[s]) = queue'[s] /\ Len(outputMode'[s]) = queue'[s]
        /\ \A i \in 1..queue'[s] : outputMode'[s][i] = ModeOf[messageID'[s][i]]
    <3>1. CASE queue[s] = 1
      BY <1>6, <2>1, <2>7, <3>1 DEF Dequeue, RestOfModes, TypeOK
    <3>2. CASE queue[s] # 1
      <4>1. messageID'[s] = RestOf(messageID[s]) /\ outputMode'[s] = RestOf(outputMode[s])
        BY <1>6, <2>1, <3>2 DEF Dequeue, RestOfModes, TypeOK
      <4>2. /\ Len(messageID'[s]) = queue'[s] /\ Len(outputMode'[s]) = queue'[s]
            /\ \A i \in 1..queue'[s] : /\ messageID'[s][i] = messageID[s][i + 1]
                                       /\ outputMode'[s][i] = outputMode[s][i + 1]
        BY <2>1, <2>2, <2>7, <4>1, RestTyped
      <4>3. \A i \in 1..queue'[s] : i + 1 \in 1..queue[s]
        BY <2>1, <2>2, <2>7
      <4>. QED
        BY <2>2, <4>2, <4>3
    <3>. QED
      BY <3>1, <3>2
  <2>9. \A r \in Sessions : r # s => /\ messageID'[r] = messageID[r]
                                     /\ outputMode'[r] = outputMode[r]
                                     /\ queue'[r] = queue[r]
    BY <1>6 DEF Dequeue, TypeOK
  <2>. QED
    BY <2>6, <2>8, <2>9 DEF OptionsStayPaired
<1>7. ASSUME NEW w \in Turns, MarkIdleIfEmpty(w)
      PROVE  OptionsStayPaired'
  BY <1>7 DEF MarkIdleIfEmpty, OptionsStayPaired, tracker
<1>8. ASSUME NEW w \in Turns, CheckShutdown(w)
      PROVE  OptionsStayPaired'
  BY <1>8 DEF CheckShutdown, OptionsStayPaired, tracker
<1>9. ASSUME NEW w \in Turns, EndUnregistered(w)
      PROVE  OptionsStayPaired'
  BY <1>9 DEF EndUnregistered, OptionsStayPaired, tracker
<1>10. ASSUME NEW w \in Turns, Register(w)
      PROVE  OptionsStayPaired'
  BY <1>10 DEF Register, OptionsStayPaired, tracker
<1>11. ASSUME NEW w \in Turns, EndRun(w)
      PROVE  OptionsStayPaired'
  BY <1>11 DEF EndRun, OptionsStayPaired, tracker
<1>12. ASSUME NEW w \in Turns, EndCancelled(w)
      PROVE  OptionsStayPaired'
  BY <1>12 DEF EndCancelled, OptionsStayPaired, tracker
<1>13. ASSUME NEW w \in Turns, Unregister(w)
      PROVE  OptionsStayPaired'
  BY <1>13 DEF Unregister, OptionsStayPaired, tracker
<1>14. ASSUME NEW c \in Clients, NEW s \in Sessions, NEW b \in BOOLEAN,
             CancelActive(c, s, b)
      PROVE  OptionsStayPaired'
  BY <1>14 DEF CancelActive, OptionsStayPaired, tracker
<1>15. ASSUME NEW c \in Clients, ClearQueued(c)
      PROVE  OptionsStayPaired'
  BY <1>15 DEF ClearQueued, OptionsStayPaired, TypeOK
<1>16. ASSUME NEW c \in Clients, DrainActive(c)
      PROVE  OptionsStayPaired'
  BY <1>16 DEF DrainActive, OptionsStayPaired, tracker
<1>17. ASSUME NEW c \in Clients, DrainQueued(c)
      PROVE  OptionsStayPaired'
  BY <1>17 DEF DrainQueued, OptionsStayPaired, tracker
<1>18. ASSUME NEW c \in Clients, DrainTimeout(c)
      PROVE  OptionsStayPaired'
  BY <1>18 DEF DrainTimeout, OptionsStayPaired, tracker
<1>19. CASE ShutdownCancel
  BY <1>19 DEF ShutdownCancel, OptionsStayPaired, tracker
<1>20. CASE CancelAll
  BY <1>20 DEF CancelAll, OptionsStayPaired, tracker
<1>21. CASE WorkersDone
  BY <1>21 DEF WorkersDone, OptionsStayPaired, tracker
<1>22. CASE WaitExpired
  BY <1>22 DEF WaitExpired, OptionsStayPaired, tracker
<1>23. CASE CloseStore
  BY <1>23 DEF CloseStore, OptionsStayPaired, tracker
<1>24. CASE UNCHANGED vars
  BY <1>24 DEF vars, OptionsStayPaired
<1>. QED
  BY <1>1, <1>2, <1>3, <1>4, <1>5, <1>6, <1>7, <1>8, <1>9, <1>10, <1>11,
     <1>12, <1>13, <1>14, <1>15, <1>16, <1>17, <1>18, <1>19, <1>20, <1>21,
     <1>22, <1>23, <1>24 DEF Next, Submit, WorkerStep, Cancel, CancelStep,
     Shutdown

\* A worker gets a turn from dequeue and keeps it until the turn ended.
LEMMA HoldsStep == TypeInv /\ [Next]_vars => HoldsATurn'
<1> SUFFICES ASSUME TypeOK, OptionsStayPaired, HoldsATurn, [Next]_vars
             PROVE  HoldsATurn'
  BY DEF TypeInv
<1>1. ASSUME NEW t \in Turns, AddChatMessage(t)
      PROVE  HoldsATurn'
  BY <1>1 DEF AddChatMessage, HoldsATurn, Holding
<1>2. ASSUME NEW t \in Turns, Enqueue(t)
      PROVE  HoldsATurn'
  BY <1>2 DEF Enqueue, HoldsATurn, Holding, TypeOK, ClaimsWorker
<1>3. ASSUME NEW t \in Turns, StartWorker(t)
      PROVE  HoldsATurn'
  BY <1>3 DEF StartWorker, HoldsATurn, Holding, TypeOK
<1>4. ASSUME NEW w \in Turns, LoopTop(w)
      PROVE  HoldsATurn'
  BY <1>4 DEF LoopTop, HoldsATurn, Holding, TypeOK, StopsAtTop,
         shutdownRequested
<1>5. ASSUME NEW w \in Turns, DequeueNothing(w)
      PROVE  HoldsATurn'
  BY <1>5 DEF DequeueNothing, HoldsATurn, Holding, TypeOK
<1>6. ASSUME NEW w \in Turns, Dequeue(w)
      PROVE  HoldsATurn'
  BY <1>6, FirstTyped DEF Dequeue, HoldsATurn, Holding, TypeOK,
         OptionsStayPaired, HasQueued
<1>7. ASSUME NEW w \in Turns, MarkIdleIfEmpty(w)
      PROVE  HoldsATurn'
  BY <1>7 DEF MarkIdleIfEmpty, HoldsATurn, Holding, TypeOK, QueueEmpty
<1>8. ASSUME NEW w \in Turns, CheckShutdown(w)
      PROVE  HoldsATurn'
  BY <1>8 DEF CheckShutdown, HoldsATurn, Holding, TypeOK, shutdownRequested
<1>9. ASSUME NEW w \in Turns, EndUnregistered(w)
      PROVE  HoldsATurn'
  BY <1>9 DEF EndUnregistered, HoldsATurn, Holding, TypeOK
<1>10. ASSUME NEW w \in Turns, Register(w)
      PROVE  HoldsATurn'
  BY <1>10 DEF Register, HoldsATurn, Holding, TypeOK
<1>11. ASSUME NEW w \in Turns, EndRun(w)
      PROVE  HoldsATurn'
  BY <1>11 DEF EndRun, HoldsATurn, Holding, TypeOK
<1>12. ASSUME NEW w \in Turns, EndCancelled(w)
      PROVE  HoldsATurn'
  BY <1>12 DEF EndCancelled, HoldsATurn, Holding, TypeOK
<1>13. ASSUME NEW w \in Turns, Unregister(w)
      PROVE  HoldsATurn'
  BY <1>13 DEF Unregister, HoldsATurn, Holding, TypeOK, OwnsEntry
<1>14. ASSUME NEW c \in Clients, NEW s \in Sessions, NEW b \in BOOLEAN,
             CancelActive(c, s, b)
      PROVE  HoldsATurn'
  BY <1>14 DEF CancelActive, HoldsATurn, Holding
<1>15. ASSUME NEW c \in Clients, ClearQueued(c)
      PROVE  HoldsATurn'
  BY <1>15 DEF ClearQueued, HoldsATurn, Holding
<1>16. ASSUME NEW c \in Clients, DrainActive(c)
      PROVE  HoldsATurn'
  BY <1>16 DEF DrainActive, HoldsATurn, Holding
<1>17. ASSUME NEW c \in Clients, DrainQueued(c)
      PROVE  HoldsATurn'
  BY <1>17 DEF DrainQueued, HoldsATurn, Holding
<1>18. ASSUME NEW c \in Clients, DrainTimeout(c)
      PROVE  HoldsATurn'
  BY <1>18 DEF DrainTimeout, HoldsATurn, Holding
<1>19. CASE ShutdownCancel
  BY <1>19 DEF ShutdownCancel, HoldsATurn, Holding
<1>20. CASE CancelAll
  BY <1>20 DEF CancelAll, HoldsATurn, Holding
<1>21. CASE WorkersDone
  BY <1>21 DEF WorkersDone, HoldsATurn, Holding
<1>22. CASE WaitExpired
  BY <1>22 DEF WaitExpired, HoldsATurn, Holding
<1>23. CASE CloseStore
  BY <1>23 DEF CloseStore, HoldsATurn, Holding
<1>24. CASE UNCHANGED vars
  BY <1>24 DEF vars, HoldsATurn, Holding
<1>. QED
  BY <1>1, <1>2, <1>3, <1>4, <1>5, <1>6, <1>7, <1>8, <1>9, <1>10, <1>11,
     <1>12, <1>13, <1>14, <1>15, <1>16, <1>17, <1>18, <1>19, <1>20, <1>21,
     <1>22, <1>23, <1>24 DEF Next, Submit, WorkerStep, Cancel, CancelStep,
     Shutdown

\* Type correctness of the tracker, its workers and the commands.
THEOREM Typing == Spec => []TypeInv
<1>1. TypeInv /\ [Next]_vars => TypeInv'
  BY TypeStep, PairedStep, HoldsStep DEF TypeInv
<1>2. QED
  BY InitTypeInv, <1>1, PTL DEF Spec

\* Every variable has its type in every reachable state.
THEOREM TypeCorrect == Spec => []TypeOK
<1>1. TypeInv => TypeOK
  BY DEF TypeInv
<1>2. QED
  BY Typing, <1>1, PTL

\* A turn always runs with the options of its own message.
THEOREM OptionsPaired == Spec => []OptionsStayPaired
<1>1. TypeInv => OptionsStayPaired
  BY DEF TypeInv
<1>2. QED
  BY Typing, <1>1, PTL

-----------------------------------------------------------------------------
(* One worker per session.                                                 *)

\* Initially no session has a worker or a queue.
LEMMA InitWorkerInv == Init => WorkerInv
  BY DEF Init, WorkerInv, OneWorkerPerSession, WorkersOf, Live

\* A worker is started only by the enqueue that claimed the flag, and the flag
\* is given back only by the worker that ends with an empty queue.
LEMMA WorkerInvStep == TypeInv /\ WorkerInv /\ [Next]_vars => WorkerInv'
<1> SUFFICES ASSUME TypeOK, HoldsATurn, WorkerInv, [Next]_vars
             PROVE  WorkerInv'
  BY DEF TypeInv
<1>1. ASSUME NEW t \in Turns, AddChatMessage(t)
      PROVE  WorkerInv'
  BY <1>1 DEF AddChatMessage, WorkerInv, OneWorkerPerSession, WorkersOf,
         Live, TypeOK, tracker
<1>2. ASSUME NEW t \in Turns, Enqueue(t)
      PROVE  WorkerInv'
  BY <1>2 DEF Enqueue, WorkerInv, OneWorkerPerSession, WorkersOf, Live,
         TypeOK, tracker, ClaimsWorker
<1>3. ASSUME NEW t \in Turns, StartWorker(t)
      PROVE  WorkerInv'
  BY <1>3 DEF StartWorker, WorkerInv, OneWorkerPerSession, WorkersOf, Live,
         TypeOK, tracker
<1>4. ASSUME NEW w \in Turns, LoopTop(w)
      PROVE  WorkerInv'
  BY <1>4 DEF LoopTop, WorkerInv, OneWorkerPerSession, WorkersOf, Live,
         TypeOK, tracker, StopsAtTop, shutdownRequested
<1>5. ASSUME NEW w \in Turns, DequeueNothing(w)
      PROVE  WorkerInv'
  BY <1>5 DEF DequeueNothing, WorkerInv, OneWorkerPerSession, WorkersOf,
         Live, TypeOK, tracker
<1>6. ASSUME NEW w \in Turns, Dequeue(w)
      PROVE  WorkerInv'
  BY <1>6 DEF Dequeue, WorkerInv, OneWorkerPerSession, WorkersOf, Live,
         TypeOK, tracker, HasQueued
<1>7. ASSUME NEW w \in Turns, MarkIdleIfEmpty(w)
      PROVE  WorkerInv'
  <2>. DEFINE s == SessionOf[w]
  <2>1. CASE QueueEmpty(s)
    <3>1. /\ \A v \in Turns : v # w => wpc'[v] = wpc[v]
          /\ wpc[w] = "idle" /\ wpc'[w] = "done" /\ s \in Sessions
          /\ \A r \in Sessions : r # s => worker'[r] = worker[r]
          /\ worker'[s] = FALSE
          /\ queue' = queue /\ queue[s] = 0 /\ outcome' = outcome /\ shut' = shut
      BY <1>7, <2>1, SessionOfAssumption
         DEF MarkIdleIfEmpty, QueueEmpty, TypeOK
    <3>2. \A v \in Turns : SessionOf[v] = s /\ v # w => ~Live(v)
      BY <3>1 DEF WorkerInv, OneWorkerPerSession, WorkersOf, Live
    <3>3. \A v \in Turns : Live(v)' => v # w /\ Live(v)
      BY <3>1 DEF Live
    <3>4. OneWorkerPerSession'
      BY <3>3 DEF WorkerInv, OneWorkerPerSession, WorkersOf
    <3>5. \A v \in Turns : Live(v)' => worker'[SessionOf[v]]
      <4> SUFFICES ASSUME NEW v \in Turns, Live(v)'
                   PROVE  worker'[SessionOf[v]]
        OBVIOUS
      <4>1. Live(v) /\ SessionOf[v] # s /\ SessionOf[v] \in Sessions
        BY <3>2, <3>3, SessionOfAssumption
      <4>2. worker[SessionOf[v]]
        BY <4>1 DEF WorkerInv
      <4>. QED
        BY <3>1, <4>1, <4>2
    <3>6. \A r \in Sessions : shut' = "open" /\ worker'[r] => WorkersOf(r)' # {}
      <4> SUFFICES ASSUME NEW r \in Sessions, shut' = "open", worker'[r]
                   PROVE  WorkersOf(r)' # {}
        OBVIOUS
      <4>1. r # s /\ worker[r] /\ shut = "open"
        BY <3>1
      <4>2. PICK v \in Turns : SessionOf[v] = r /\ Live(v)
        BY <4>1 DEF WorkerInv, WorkersOf
      <4>3. v # w /\ Live(v)'
        BY <3>1, <4>1, <4>2 DEF Live
      <4>. QED
        BY <4>2, <4>3 DEF WorkersOf
    <3>7. \A r \in Sessions : queue'[r] > 0 => worker'[r]
      <4> SUFFICES ASSUME NEW r \in Sessions, queue'[r] > 0
                   PROVE  worker'[r]
        OBVIOUS
      <4>1. queue[r] > 0 /\ r # s
        BY <3>1
      <4>2. worker[r]
        BY <4>1 DEF WorkerInv
      <4>. QED
        BY <3>1, <4>1, <4>2
    <3>8. \A t \in Turns : wpc'[t] # "none" => outcome'[t] \notin {"new", "accepted"}
      BY <3>1 DEF WorkerInv
    <3>. QED
      BY <3>4, <3>5, <3>6, <3>7, <3>8 DEF WorkerInv
  <2>2. CASE ~QueueEmpty(s)
    <3>1. /\ \A v \in Turns : v # w => wpc'[v] = wpc[v]
          /\ wpc[w] = "idle" /\ wpc'[w] = "top"
          /\ worker' = worker /\ queue' = queue /\ outcome' = outcome /\ shut' = shut
      BY <1>7, <2>2 DEF MarkIdleIfEmpty, TypeOK
    <3>. QED
      BY <3>1 DEF WorkerInv, OneWorkerPerSession, WorkersOf, Live
  <2>. QED
    BY <2>1, <2>2
<1>8. ASSUME NEW w \in Turns, CheckShutdown(w)
      PROVE  WorkerInv'
  <2>1. /\ \A v \in Turns : v # w => wpc'[v] = wpc[v]
        /\ wpc[w] = "check" /\ wpc'[w] \in {"done", "turn"}
        /\ shut = "open" => wpc'[w] = "turn"
        /\ worker' = worker /\ queue' = queue /\ shut' = shut
        /\ \A t \in Turns : outcome'[t] \in {outcome[t], "dropped"}
    BY <1>8 DEF CheckShutdown, shutdownRequested, tracker, TypeOK
  <2>. QED
    BY <2>1 DEF WorkerInv, OneWorkerPerSession, WorkersOf, Live
<1>9. ASSUME NEW w \in Turns, EndUnregistered(w)
      PROVE  WorkerInv'
  BY <1>9 DEF EndUnregistered, WorkerInv, OneWorkerPerSession, WorkersOf,
         Live, TypeOK, tracker
<1>10. ASSUME NEW w \in Turns, Register(w)
      PROVE  WorkerInv'
  BY <1>10 DEF Register, WorkerInv, OneWorkerPerSession, WorkersOf, Live,
         TypeOK, tracker
<1>11. ASSUME NEW w \in Turns, EndRun(w)
      PROVE  WorkerInv'
  BY <1>11 DEF EndRun, WorkerInv, OneWorkerPerSession, WorkersOf, Live,
         TypeOK, tracker
<1>12. ASSUME NEW w \in Turns, EndCancelled(w)
      PROVE  WorkerInv'
  BY <1>12 DEF EndCancelled, WorkerInv, OneWorkerPerSession, WorkersOf, Live,
         TypeOK, tracker
<1>13. ASSUME NEW w \in Turns, Unregister(w)
      PROVE  WorkerInv'
  BY <1>13 DEF Unregister, WorkerInv, OneWorkerPerSession, WorkersOf, Live,
         TypeOK, tracker, OwnsEntry
<1>14. ASSUME NEW c \in Clients, NEW s \in Sessions, NEW b \in BOOLEAN,
             CancelActive(c, s, b)
      PROVE  WorkerInv'
  BY <1>14 DEF CancelActive, WorkerInv, OneWorkerPerSession, WorkersOf, Live,
         TypeOK, tracker
<1>15. ASSUME NEW c \in Clients, ClearQueued(c)
      PROVE  WorkerInv'
  BY <1>15 DEF ClearQueued, WorkerInv, OneWorkerPerSession, WorkersOf, Live,
         TypeOK, tracker, Entries, Answer
<1>16. ASSUME NEW c \in Clients, DrainActive(c)
      PROVE  WorkerInv'
  BY <1>16 DEF DrainActive, WorkerInv, OneWorkerPerSession, WorkersOf, Live,
         TypeOK, tracker
<1>17. ASSUME NEW c \in Clients, DrainQueued(c)
      PROVE  WorkerInv'
  BY <1>17 DEF DrainQueued, WorkerInv, OneWorkerPerSession, WorkersOf, Live,
         TypeOK, tracker, Answer
<1>18. ASSUME NEW c \in Clients, DrainTimeout(c)
      PROVE  WorkerInv'
  BY <1>18 DEF DrainTimeout, WorkerInv, OneWorkerPerSession, WorkersOf, Live,
         TypeOK, tracker, Answer
<1>19. CASE ShutdownCancel
  BY <1>19 DEF ShutdownCancel, WorkerInv, OneWorkerPerSession, WorkersOf,
         Live, TypeOK, tracker
<1>20. CASE CancelAll
  BY <1>20 DEF CancelAll, WorkerInv, OneWorkerPerSession, WorkersOf, Live,
         TypeOK, tracker
<1>21. CASE WorkersDone
  BY <1>21 DEF WorkersDone, WorkerInv, OneWorkerPerSession, WorkersOf, Live,
         TypeOK, tracker, Counted
<1>22. CASE WaitExpired
  BY <1>22 DEF WaitExpired, WorkerInv, OneWorkerPerSession, WorkersOf, Live,
         TypeOK, tracker
<1>23. CASE CloseStore
  BY <1>23 DEF CloseStore, WorkerInv, OneWorkerPerSession, WorkersOf, Live,
         TypeOK, tracker
<1>24. CASE UNCHANGED vars
  BY <1>24 DEF vars, WorkerInv, OneWorkerPerSession, WorkersOf, Live
<1>. QED
  BY <1>1, <1>2, <1>3, <1>4, <1>5, <1>6, <1>7, <1>8, <1>9, <1>10, <1>11,
     <1>12, <1>13, <1>14, <1>15, <1>16, <1>17, <1>18, <1>19, <1>20, <1>21,
     <1>22, <1>23, <1>24 DEF Next, Submit, WorkerStep, Cancel, CancelStep,
     Shutdown

\* The worker invariant holds in every reachable state.
THEOREM WorkerInvariant == Spec => []WorkerInv
<1>1. QED
  BY InitWorkerInv, WorkerInvStep, Typing, PTL DEF Spec

\* A session never has two worker goroutines.
THEOREM OneWorker == Spec => []OneWorkerPerSession
<1>1. WorkerInv => OneWorkerPerSession
  BY DEF WorkerInv
<1>2. QED
  BY WorkerInvariant, <1>1, PTL

\* Queued turns of a running server have a worker that will look at the queue.
THEOREM NoTurnStranded == Spec => []NoStrandedQueue
<1>1. WorkerInv => NoStrandedQueue
  BY DEF WorkerInv, NoStrandedQueue, shutdownRequested
<1>2. QED
  BY WorkerInvariant, <1>1, PTL

-----------------------------------------------------------------------------
(* The shutdown.                                                           *)

\* A goroutine started after the wait sees the cancelled shutdown context.
LEMMA QuietInvStep == TypeInv /\ QuietInv /\ [Next]_vars => QuietInv'
<1> SUFFICES ASSUME TypeOK, QuietInv, [Next]_vars
             PROVE  QuietInv'
  BY DEF TypeInv
<1>1. ASSUME NEW t \in Turns, AddChatMessage(t)
      PROVE  QuietInv'
  BY <1>1 DEF AddChatMessage, QuietInv, TypeOK, tracker
<1>2. ASSUME NEW t \in Turns, Enqueue(t)
      PROVE  QuietInv'
  BY <1>2 DEF Enqueue, QuietInv, TypeOK, tracker, ClaimsWorker, WorkerPc
<1>3. ASSUME NEW t \in Turns, StartWorker(t)
      PROVE  QuietInv'
  BY <1>3 DEF StartWorker, QuietInv, TypeOK, tracker, WorkerPc
<1>4. ASSUME NEW w \in Turns, LoopTop(w)
      PROVE  QuietInv'
  BY <1>4 DEF LoopTop, QuietInv, TypeOK, tracker, StopsAtTop,
         shutdownRequested, WorkerPc
<1>5. ASSUME NEW w \in Turns, DequeueNothing(w)
      PROVE  QuietInv'
  BY <1>5 DEF DequeueNothing, QuietInv, TypeOK, tracker, WorkerPc
<1>6. ASSUME NEW w \in Turns, Dequeue(w)
      PROVE  QuietInv'
  BY <1>6 DEF Dequeue, QuietInv, TypeOK, tracker, HasQueued, WorkerPc
<1>7. ASSUME NEW w \in Turns, MarkIdleIfEmpty(w)
      PROVE  QuietInv'
  BY <1>7 DEF MarkIdleIfEmpty, QuietInv, TypeOK, tracker, QueueEmpty,
         WorkerPc
<1>8. ASSUME NEW w \in Turns, CheckShutdown(w)
      PROVE  QuietInv'
  BY <1>8 DEF CheckShutdown, QuietInv, TypeOK, tracker, shutdownRequested,
         WorkerPc
<1>9. ASSUME NEW w \in Turns, EndUnregistered(w)
      PROVE  QuietInv'
  BY <1>9 DEF EndUnregistered, QuietInv, TypeOK, tracker, WorkerPc
<1>10. ASSUME NEW w \in Turns, Register(w)
      PROVE  QuietInv'
  BY <1>10 DEF Register, QuietInv, TypeOK, tracker, WorkerPc
<1>11. ASSUME NEW w \in Turns, EndRun(w)
      PROVE  QuietInv'
  BY <1>11 DEF EndRun, QuietInv, TypeOK, tracker, WorkerPc
<1>12. ASSUME NEW w \in Turns, EndCancelled(w)
      PROVE  QuietInv'
  BY <1>12 DEF EndCancelled, QuietInv, TypeOK, tracker, WorkerPc
<1>13. ASSUME NEW w \in Turns, Unregister(w)
      PROVE  QuietInv'
  BY <1>13 DEF Unregister, QuietInv, TypeOK, tracker, OwnsEntry, WorkerPc
<1>14. ASSUME NEW c \in Clients, NEW s \in Sessions, NEW b \in BOOLEAN,
             CancelActive(c, s, b)
      PROVE  QuietInv'
  BY <1>14 DEF CancelActive, QuietInv, TypeOK, tracker
<1>15. ASSUME NEW c \in Clients, ClearQueued(c)
      PROVE  QuietInv'
  BY <1>15 DEF ClearQueued, QuietInv, TypeOK, tracker
<1>16. ASSUME NEW c \in Clients, DrainActive(c)
      PROVE  QuietInv'
  BY <1>16 DEF DrainActive, QuietInv, TypeOK, tracker
<1>17. ASSUME NEW c \in Clients, DrainQueued(c)
      PROVE  QuietInv'
  BY <1>17 DEF DrainQueued, QuietInv, TypeOK, tracker
<1>18. ASSUME NEW c \in Clients, DrainTimeout(c)
      PROVE  QuietInv'
  BY <1>18 DEF DrainTimeout, QuietInv, TypeOK, tracker
<1>19. CASE ShutdownCancel
  BY <1>19 DEF ShutdownCancel, QuietInv, TypeOK, tracker, WorkerPc
<1>20. CASE CancelAll
  BY <1>20 DEF CancelAll, QuietInv, TypeOK, tracker, WorkerPc
<1>21. CASE WorkersDone
  BY <1>21 DEF WorkersDone, QuietInv, TypeOK, tracker, Counted, WorkerPc
<1>22. CASE WaitExpired
  BY <1>22 DEF WaitExpired, QuietInv, TypeOK, tracker, WorkerPc
<1>23. CASE CloseStore
  BY <1>23 DEF CloseStore, QuietInv, TypeOK, tracker, WorkerPc
<1>24. CASE UNCHANGED vars
  BY <1>24 DEF vars, QuietInv
<1>. QED
  BY <1>1, <1>2, <1>3, <1>4, <1>5, <1>6, <1>7, <1>8, <1>9, <1>10, <1>11,
     <1>12, <1>13, <1>14, <1>15, <1>16, <1>17, <1>18, <1>19, <1>20, <1>21,
     <1>22, <1>23, <1>24 DEF Next, Submit, WorkerStep, Cancel, CancelStep,
     Shutdown

\* A store closed after a successful wait is closed under no running turn.
THEOREM ClosesQuietly == Spec => []QuietClose
<1>1. Init => QuietInv
  BY DEF Init, QuietInv
<1>2. QuietInv => QuietClose
  BY DEF QuietInv, QuietClose, Holding
<1>3. QED
  BY <1>1, <1>2, QuietInvStep, Typing, PTL DEF Spec

-----------------------------------------------------------------------------
(* The active map.                                                         *)

\* ActiveIsRunning without the sets of workers.
ActiveInv ==
  /\ \A s \in Sessions : active[s] # NoTurn =>
       \E w \in Turns : /\ SessionOf[w] = s /\ wpc[w] \in {"run", "finish"}
                        /\ wturn[w] = active[s]
  /\ shut \in {"open", "requested"} =>
       \A w \in Turns : wpc[w] = "run" => active[SessionOf[w]] = wturn[w]

\* Only the session's one worker registers and unregisters.
LEMMA ActiveStep == TypeInv /\ WorkerInv /\ ActiveInv /\ [Next]_vars => ActiveInv'
<1> SUFFICES ASSUME TypeOK, HoldsATurn, WorkerInv, ActiveInv, [Next]_vars
             PROVE  ActiveInv'
  BY DEF TypeInv
<1>1. ASSUME NEW t \in Turns, AddChatMessage(t)
      PROVE  ActiveInv'
  BY <1>1 DEF AddChatMessage, ActiveInv, tracker
<1>2. ASSUME NEW t \in Turns, Enqueue(t)
      PROVE  ActiveInv'
  <2>1. /\ \A v \in Turns : v # t => wpc'[v] = wpc[v] /\ wturn'[v] = wturn[v]
        /\ wpc[t] \notin {"run", "finish"} /\ wpc'[t] \notin {"run", "finish"}
        /\ active' = active /\ shut' = shut
    BY <1>2 DEF Enqueue, TypeOK, WorkerInv, tracker, ClaimsWorker
  <2>. QED
    BY <2>1 DEF ActiveInv
<1>3. ASSUME NEW t \in Turns, StartWorker(t)
      PROVE  ActiveInv'
  <2>1. /\ \A v \in Turns : v # t => wpc'[v] = wpc[v] /\ wturn'[v] = wturn[v]
        /\ wpc[t] \notin {"run", "finish"} /\ wpc'[t] \notin {"run", "finish"}
        /\ active' = active /\ shut' = shut
    BY <1>3 DEF StartWorker, TypeOK, tracker
  <2>. QED
    BY <2>1 DEF ActiveInv
<1>4. ASSUME NEW w \in Turns, LoopTop(w)
      PROVE  ActiveInv'
  <2>1. /\ \A v \in Turns : v # w => wpc'[v] = wpc[v] /\ wturn'[v] = wturn[v]
        /\ wpc[w] \notin {"run", "finish"} /\ wpc'[w] \notin {"run", "finish"}
        /\ active' = active /\ shut' = shut
    BY <1>4 DEF LoopTop, TypeOK, tracker
  <2>. QED
    BY <2>1 DEF ActiveInv
<1>5. ASSUME NEW w \in Turns, DequeueNothing(w)
      PROVE  ActiveInv'
  <2>1. /\ \A v \in Turns : v # w => wpc'[v] = wpc[v] /\ wturn'[v] = wturn[v]
        /\ wpc[w] \notin {"run", "finish"} /\ wpc'[w] \notin {"run", "finish"}
        /\ active' = active /\ shut' = shut
    BY <1>5 DEF DequeueNothing, TypeOK, tracker
  <2>. QED
    BY <2>1 DEF ActiveInv
<1>6. ASSUME NEW w \in Turns, Dequeue(w)
      PROVE  ActiveInv'
  <2>1. /\ \A v \in Turns : v # w => wpc'[v] = wpc[v] /\ wturn'[v] = wturn[v]
        /\ wpc[w] \notin {"run", "finish"} /\ wpc'[w] \notin {"run", "finish"}
        /\ active' = active /\ shut' = shut
    BY <1>6 DEF Dequeue, TypeOK, tracker
  <2>. QED
    BY <2>1 DEF ActiveInv
<1>7. ASSUME NEW w \in Turns, MarkIdleIfEmpty(w)
      PROVE  ActiveInv'
  <2>1. /\ \A v \in Turns : v # w => wpc'[v] = wpc[v] /\ wturn'[v] = wturn[v]
        /\ wpc[w] \notin {"run", "finish"} /\ wpc'[w] \notin {"run", "finish"}
        /\ active' = active /\ shut' = shut
    BY <1>7 DEF MarkIdleIfEmpty, TypeOK, tracker
  <2>. QED
    BY <2>1 DEF ActiveInv
<1>8. ASSUME NEW w \in Turns, CheckShutdown(w)
      PROVE  ActiveInv'
  <2>1. /\ \A v \in Turns : v # w => wpc'[v] = wpc[v] /\ wturn'[v] = wturn[v]
        /\ wpc[w] \notin {"run", "finish"} /\ wpc'[w] \notin {"run", "finish"}
        /\ active' = active /\ shut' = shut
    BY <1>8 DEF CheckShutdown, TypeOK, tracker
  <2>. QED
    BY <2>1 DEF ActiveInv
<1>9. ASSUME NEW w \in Turns, EndUnregistered(w)
      PROVE  ActiveInv'
  <2>1. /\ \A v \in Turns : v # w => wpc'[v] = wpc[v] /\ wturn'[v] = wturn[v]
        /\ wpc[w] \notin {"run", "finish"} /\ wpc'[w] \notin {"run", "finish"}
        /\ active' = active /\ shut' = shut
    BY <1>9 DEF EndUnregistered, TypeOK, tracker
  <2>. QED
    BY <2>1 DEF ActiveInv
<1>10. ASSUME NEW w \in Turns, Register(w)
      PROVE  ActiveInv'
  <2>1. \A v \in Turns : SessionOf[v] = SessionOf[w] /\ v # w
                           => wpc[v] \notin {"run", "finish"}
    BY <1>10 DEF Register, WorkerInv, OneWorkerPerSession, WorkersOf, Live
  <2>2. \A v \in Turns : v # w => wpc'[v] = wpc[v] /\ wturn'[v] = wturn[v]
    BY <1>10 DEF Register, TypeOK
  <2>3. /\ SessionOf[w] \in Sessions /\ wturn[w] \in Turns /\ wturn'[w] = wturn[w]
        /\ wpc'[w] = "run" /\ active'[SessionOf[w]] = wturn[w]
        /\ \A s \in Sessions : s # SessionOf[w] => active'[s] = active[s]
        /\ shut' = shut
    BY <1>10 DEF Register, TypeOK, HoldsATurn, Holding
  <2>. QED
    BY <2>1, <2>2, <2>3 DEF ActiveInv
<1>11. ASSUME NEW w \in Turns, EndRun(w)
      PROVE  ActiveInv'
  <2>1. /\ \A v \in Turns : v # w => wpc'[v] = wpc[v]
        /\ wpc[w] = "run" /\ wpc'[w] = "finish"
        /\ active' = active /\ wturn' = wturn /\ shut' = shut
    BY <1>11 DEF EndRun, TypeOK, tracker
  <2>. QED
    BY <2>1 DEF ActiveInv
<1>12. ASSUME NEW w \in Turns, EndCancelled(w)
      PROVE  ActiveInv'
  <2>1. /\ \A v \in Turns : v # w => wpc'[v] = wpc[v]
        /\ wpc[w] = "run" /\ wpc'[w] = "finish"
        /\ active' = active /\ wturn' = wturn /\ shut' = shut
    BY <1>12 DEF EndCancelled, TypeOK, tracker
  <2>. QED
    BY <2>1 DEF ActiveInv
<1>13. ASSUME NEW w \in Turns, Unregister(w)
      PROVE  ActiveInv'
  <2>1. \A v \in Turns : SessionOf[v] = SessionOf[w] /\ v # w
                           => wpc[v] \notin {"run", "finish"}
    BY <1>13 DEF Unregister, WorkerInv, OneWorkerPerSession, WorkersOf, Live
  <2>2. \A v \in Turns : v # w => wpc'[v] = wpc[v] /\ wturn'[v] = wturn[v]
    BY <1>13 DEF Unregister, TypeOK
  <2>3. active[SessionOf[w]] # NoTurn => active[SessionOf[w]] = wturn[w]
    BY <2>1 DEF ActiveInv
  <2>4. /\ SessionOf[w] \in Sessions /\ wpc'[w] = "top" /\ shut' = shut
        /\ active'[SessionOf[w]] = NoTurn
        /\ \A s \in Sessions : s # SessionOf[w] => active'[s] = active[s]
    BY <1>13, <2>3 DEF Unregister, OwnsEntry, TypeOK
  <2>. QED
    BY <2>1, <2>2, <2>4 DEF ActiveInv
<1>14. ASSUME NEW c \in Clients, NEW s \in Sessions, NEW b \in BOOLEAN,
             CancelActive(c, s, b)
      PROVE  ActiveInv'
  BY <1>14 DEF CancelActive, ActiveInv, tracker
<1>15. ASSUME NEW c \in Clients, ClearQueued(c)
      PROVE  ActiveInv'
  BY <1>15 DEF ClearQueued, ActiveInv, tracker
<1>16. ASSUME NEW c \in Clients, DrainActive(c)
      PROVE  ActiveInv'
  BY <1>16 DEF DrainActive, ActiveInv, tracker
<1>17. ASSUME NEW c \in Clients, DrainQueued(c)
      PROVE  ActiveInv'
  BY <1>17 DEF DrainQueued, ActiveInv, tracker
<1>18. ASSUME NEW c \in Clients, DrainTimeout(c)
      PROVE  ActiveInv'
  BY <1>18 DEF DrainTimeout, ActiveInv, tracker
<1>19. CASE ShutdownCancel
  BY <1>19 DEF ShutdownCancel, ActiveInv, tracker, TypeOK
<1>20. CASE CancelAll
  BY <1>20 DEF CancelAll, ActiveInv, tracker, TypeOK
<1>21. CASE WorkersDone
  BY <1>21 DEF WorkersDone, ActiveInv, tracker, TypeOK
<1>22. CASE WaitExpired
  BY <1>22 DEF WaitExpired, ActiveInv, tracker, TypeOK
<1>23. CASE CloseStore
  BY <1>23 DEF CloseStore, ActiveInv, tracker, TypeOK
<1>24. CASE UNCHANGED vars
  BY <1>24 DEF vars, ActiveInv
<1>. QED
  BY <1>1, <1>2, <1>3, <1>4, <1>5, <1>6, <1>7, <1>8, <1>9, <1>10, <1>11,
     <1>12, <1>13, <1>14, <1>15, <1>16, <1>17, <1>18, <1>19, <1>20, <1>21,
     <1>22, <1>23, <1>24 DEF Next, Submit, WorkerStep, Cancel, CancelStep,
     Shutdown

\* The active map names exactly the runs in progress, until cancelAll empties it.
THEOREM ActiveMapIsTrue == Spec => []ActiveIsRunning
<1>1. Init => ActiveInv
  BY DEF Init, ActiveInv
<1>2. ActiveInv => ActiveIsRunning
  BY DEF ActiveInv, ActiveIsRunning, WorkersOf, Live
<1>3. QED
  BY <1>1, <1>2, ActiveStep, Typing, WorkerInvariant, PTL DEF Spec

-----------------------------------------------------------------------------
(* The refinement of ChatTurns.                                            *)

\* The worker holds a turn that has no outcome yet.
Working(w) == wpc[w] \in {"check", "turn", "run"}

\* Where a turn is, is what its outcome says: in the list of its session, once,
\* or with one worker of its session, or over.
QueuedInv ==
  \A s \in Sessions :
    /\ \A i \in 1..Len(messageID[s]) :
         outcome[messageID[s][i]] = "queued" /\ SessionOf[messageID[s][i]] = s
    /\ \A i, j \in 1..Len(messageID[s]) : messageID[s][i] = messageID[s][j] => i = j
HeldInv ==
  \A w \in Turns :
    /\ Working(w) => outcome[wturn[w]] = "taken" /\ SessionOf[wturn[w]] = SessionOf[w]
    /\ wpc[w] = "finish" => outcome[wturn[w]] \in Ended
ServeInv == QueuedInv /\ HeldInv

\* Two workers never hold the same turn.
LEMMA HeldOnce ==
  ASSUME TypeInv, WorkerInv, HeldInv, NEW v \in Turns, NEW w \in Turns,
         Working(v), Working(w), wturn[v] = wturn[w]
  PROVE  v = w
<1>1. SessionOf[v] = SessionOf[w] /\ Live(v) /\ Live(w) /\ SessionOf[v] \in Sessions
  BY DEF HeldInv, Working, Live
<1>. QED
  BY <1>1 DEF WorkerInv, OneWorkerPerSession, WorkersOf

\* A session executes the turns its working goroutines hold.
RunsOf(s) == {wturn[w] : w \in {v \in Turns : SessionOf[v] = s /\ Working(v)}}
ExecutesRuns == \A s \in Sessions : Executing(s) = RunsOf(s)

\* The turns without outcome among those held are the ones of the working goroutines.
LEMMA ExecutingIs == TypeInv /\ HeldInv => ExecutesRuns
<1> SUFFICES ASSUME TypeInv, HeldInv, NEW s \in Sessions
             PROVE  Executing(s) = RunsOf(s)
  BY DEF ExecutesRuns
<1>1. ASSUME NEW t \in Executing(s)
      PROVE  t \in RunsOf(s)
  <2>1. PICK w \in Turns : SessionOf[w] = s /\ Holding(w) /\ wturn[w] = t
                           /\ outcome[t] = "taken"
    BY <1>1 DEF Executing, HeldBy, WorkersOf
  <2>. QED
    BY <2>1 DEF HeldInv, Working, Holding, Ended, RunsOf
<1>2. ASSUME NEW w \in Turns, SessionOf[w] = s, Working(w)
      PROVE  wturn[w] \in Executing(s)
  BY <1>2 DEF Executing, HeldBy, WorkersOf, Live, Holding, Working, HeldInv
<1>. QED
  BY <1>1, <1>2 DEF RunsOf

\* The same in the next state.
LEMMA ExecutingNext == TypeInv' /\ HeldInv' => ExecutesRuns'
  BY ExecutingIs, PTL

\* A turn that a goroutine holds gets its outcome: nothing else is touched.
LEMMA EndsHeld ==
  ASSUME TypeInv, WorkerInv, ServeInv, NEW w \in Turns, NEW o \in Ended, Working(w),
         outcome' = [outcome EXCEPT ![wturn[w]] = o],
         \A v \in Turns : v # w => wpc'[v] = wpc[v] /\ wturn'[v] = wturn[v],
         \/ wpc'[w] \in {"top", "done"}
         \/ wpc'[w] = "finish" /\ wturn'[w] = wturn[w],
         messageID' = messageID
  PROVE  ServeInv'
<1>1. wturn[w] \in Turns /\ outcome[wturn[w]] = "taken"
  BY DEF TypeInv, HoldsATurn, Holding, Working, ServeInv, HeldInv
<1>2. \A t \in Turns : outcome[t] # "taken" => outcome'[t] = outcome[t]
  BY <1>1 DEF TypeInv, TypeOK
<1>3. outcome'[wturn[w]] \in Ended
  BY <1>1 DEF TypeInv, TypeOK
<1>4. QueuedInv'
  <2>1. \A s \in Sessions : \A i \in 1..Len(messageID[s]) : messageID[s][i] \in Turns
    BY DEF TypeInv, TypeOK
  <2>. QED
    BY <1>2, <2>1 DEF ServeInv, QueuedInv
<1>5. HeldInv'
  <2> SUFFICES ASSUME NEW v \in Turns
               PROVE  /\ Working(v)' => outcome'[wturn'[v]] = "taken"
                                        /\ SessionOf[wturn'[v]] = SessionOf[v]
                      /\ wpc'[v] = "finish" => outcome'[wturn'[v]] \in Ended
    BY DEF HeldInv
  <2>1. CASE v = w
    BY <1>3, <2>1 DEF Working
  <2>2. CASE v # w
    <3>1. wpc'[v] = wpc[v] /\ wturn'[v] = wturn[v] /\ (Working(v)' <=> Working(v))
      BY <2>2 DEF Working
    <3>2. ASSUME Working(v)
          PROVE  outcome'[wturn[v]] = "taken" /\ SessionOf[wturn[v]] = SessionOf[v]
      <4>1. wturn[v] # wturn[w]
        BY <2>2, <3>2, HeldOnce DEF ServeInv
      <4>. QED
        BY <3>2, <4>1 DEF ServeInv, HeldInv, TypeInv, TypeOK
    <3>3. ASSUME wpc[v] = "finish"
          PROVE  outcome'[wturn[v]] \in Ended
      <4>1. wturn[v] \in Turns /\ outcome[wturn[v]] \in Ended
        BY <3>3 DEF ServeInv, HeldInv, TypeInv, HoldsATurn, Holding
      <4>. QED
        BY <1>2, <4>1 DEF Ended
    <3>. QED
      BY <3>1, <3>2, <3>3
  <2>. QED
    BY <2>1, <2>2
<1>. QED
  BY <1>4, <1>5 DEF ServeInv

\* Goroutines that hold nothing move: the lists, what is held and the outcomes stay.
LEMMA MovesServe ==
  ASSUME ServeInv, messageID' = messageID,
         \A t \in Turns : outcome'[t] = outcome[t] \/ outcome[t] \notin {"queued", "taken"} \cup Ended,
         \A v \in Turns : \/ wpc'[v] \notin {"check", "turn", "run", "finish"}
                          \/ wpc'[v] = wpc[v] /\ wturn'[v] = wturn[v]
                          \/ Working(v) /\ Working(v)' /\ wturn'[v] = wturn[v],
         TypeInv
  PROVE  ServeInv'
<1>1. \A s \in Sessions : \A i \in 1..Len(messageID[s]) : messageID[s][i] \in Turns
  BY DEF TypeInv, TypeOK
<1>2. QueuedInv'
  BY <1>1 DEF ServeInv, QueuedInv
<1>3. \A v \in Turns : Working(v) \/ wpc[v] = "finish" => wturn[v] \in Turns
  BY DEF TypeInv, HoldsATurn, Holding, Working
<1>4. HeldInv'
  BY <1>3 DEF ServeInv, HeldInv, Working
<1>. QED
  BY <1>2, <1>4 DEF ServeInv

\* Every step leaves every turn where its outcome says it is.
LEMMA ServeStep == TypeInv /\ WorkerInv /\ ServeInv /\ [Next]_vars => ServeInv'
<1> SUFFICES ASSUME TypeInv, WorkerInv, ServeInv, [Next]_vars
             PROVE  ServeInv'
  OBVIOUS
<1>. USE DEF TypeInv
<1>1. ASSUME NEW t \in Turns, AddChatMessage(t)
      PROVE  ServeInv'
  BY <1>1, MovesServe DEF AddChatMessage, TypeOK, tracker, Ended
<1>2. ASSUME NEW t \in Turns, Enqueue(t)
      PROVE  ServeInv'
  <2>. DEFINE s == SessionOf[t]
  <2>1. /\ s \in Sessions /\ messageID[s] \in Seq(Turns) /\ outcome[t] = "accepted"
        /\ outcome'[t] = "queued"
        /\ \A u \in Turns : u # t => outcome'[u] = outcome[u]
    BY <1>2 DEF Enqueue, TypeOK
  <2>2. /\ messageID'[s] = Append(messageID[s], t)
        /\ \A r \in Sessions : r # s => messageID'[r] = messageID[r]
    BY <1>2, <2>1 DEF Enqueue, TypeOK
  <2>3. /\ Len(messageID'[s]) = Len(messageID[s]) + 1
        /\ messageID'[s][Len(messageID[s]) + 1] = t
        /\ \A i \in 1..Len(messageID[s]) : messageID'[s][i] = messageID[s][i]
    BY <2>1, <2>2
  <2>4. \A r \in Sessions : \A i \in 1..Len(messageID[r]) :
          messageID[r][i] \in Turns \ {t}
    BY <2>1 DEF ServeInv, QueuedInv, TypeOK
  <2>5. ASSUME NEW r \in Sessions
        PROVE  /\ \A i \in 1..Len(messageID'[r]) :
                    outcome'[messageID'[r][i]] = "queued" /\ SessionOf[messageID'[r][i]] = r
               /\ \A i, j \in 1..Len(messageID'[r]) :
                    messageID'[r][i] = messageID'[r][j] => i = j
    <3>1. CASE r # s
      BY <2>1, <2>2, <2>4, <3>1 DEF ServeInv, QueuedInv
    <3>2. CASE r = s
      <4>1. \A i \in 1..Len(messageID'[s]) :
              i \in 1..Len(messageID[s]) \/ i = Len(messageID[s]) + 1
        BY <2>1, <2>3
      <4>2. \A i \in 1..Len(messageID[s]) :
              /\ messageID'[s][i] \in Turns \ {t}
              /\ outcome[messageID'[s][i]] = "queued" /\ SessionOf[messageID'[s][i]] = s
        BY <2>1, <2>3, <2>4 DEF ServeInv, QueuedInv
      <4>3. \A i \in 1..Len(messageID'[s]) :
              outcome'[messageID'[s][i]] = "queued" /\ SessionOf[messageID'[s][i]] = s
        BY <2>1, <2>3, <4>1, <4>2
      <4>4. \A i, j \in 1..Len(messageID[s]) :
              messageID'[s][i] = messageID'[s][j] => i = j
        BY <2>1, <2>3 DEF ServeInv, QueuedInv
      <4>5. \A i, j \in 1..Len(messageID'[s]) :
              messageID'[s][i] = messageID'[s][j] => i = j
        BY <2>3, <4>1, <4>2, <4>4
      <4>. QED
        BY <3>2, <4>3, <4>5
    <3>. QED
      BY <3>1, <3>2
  <2>6. \A v \in Turns : (wpc'[v] = wpc[v] /\ wturn'[v] = wturn[v]) \/ wpc'[v] = "spawn"
    BY <1>2 DEF Enqueue, TypeOK
  <2>7. \A v \in Turns : Working(v) \/ wpc[v] = "finish" =>
          wturn[v] \in Turns \ {t}
    BY <2>1 DEF ServeInv, HeldInv, HoldsATurn, Holding, Working, Ended
  <2>8. HeldInv'
    BY <2>1, <2>6, <2>7 DEF ServeInv, HeldInv, Working
  <2>. QED
    BY <2>5, <2>8 DEF ServeInv, QueuedInv
<1>3. ASSUME NEW t \in Turns, StartWorker(t)
      PROVE  ServeInv'
  BY <1>3, MovesServe DEF StartWorker, TypeOK, tracker
<1>4. ASSUME NEW w \in Turns, LoopTop(w)
      PROVE  ServeInv'
  BY <1>4, MovesServe DEF LoopTop, TypeOK, tracker
<1>5. ASSUME NEW w \in Turns, DequeueNothing(w)
      PROVE  ServeInv'
  BY <1>5, MovesServe DEF DequeueNothing, TypeOK, tracker
<1>6. ASSUME NEW w \in Turns, Dequeue(w)
      PROVE  ServeInv'
  <2>. DEFINE s == SessionOf[w]
              t == messageID[s][1]
  <2>1. /\ s \in Sessions /\ messageID[s] \in Seq(Turns)
        /\ queue[s] > 0 /\ queue[s] \in Nat /\ Len(messageID[s]) = queue[s]
        /\ messageID \in [Sessions -> Seq(Turns)] /\ outcome \in [Turns -> Outcome]
    BY <1>6 DEF Dequeue, HasQueued, TypeOK, OptionsStayPaired
  <2>2. FirstOr(messageID[s], NoTurn) = t /\ t \in Turns
    BY <2>1, FirstTyped
  <2>3. outcome[t] = "queued" /\ SessionOf[t] = s
    BY <2>1 DEF ServeInv, QueuedInv
  <2>4. outcome'[t] = "taken" /\ \A u \in Turns : u # t => outcome'[u] = outcome[u]
    BY <1>6, <2>1, <2>2 DEF Dequeue
  <2>5. /\ \A r \in Sessions : r # s => messageID'[r] = messageID[r]
        /\ Len(messageID'[s]) = Len(messageID[s]) - 1
        /\ \A i \in 1..(Len(messageID[s]) - 1) : messageID'[s][i] = messageID[s][i + 1]
    <3>1. CASE queue[s] = 1
      BY <1>6, <2>1, <3>1 DEF Dequeue
    <3>2. CASE queue[s] # 1
      <4>1. messageID' = [messageID EXCEPT ![s] = RestOf(@)]
        BY <1>6, <3>2 DEF Dequeue
      <4>. QED
        BY <2>1, <4>1, RestTyped
    <3>. QED
      BY <3>1, <3>2
  <2>6. ASSUME NEW r \in Sessions
        PROVE  /\ \A i \in 1..Len(messageID'[r]) :
                    outcome'[messageID'[r][i]] = "queued" /\ SessionOf[messageID'[r][i]] = r
               /\ \A i, j \in 1..Len(messageID'[r]) :
                    messageID'[r][i] = messageID'[r][j] => i = j
    <3>1. CASE r # s
      <4>1. \A i \in 1..Len(messageID[r]) : messageID[r][i] \in Turns \ {t}
        BY <2>1, <2>3, <3>1 DEF ServeInv, QueuedInv
      <4>. QED
        BY <2>4, <2>5, <3>1, <4>1 DEF ServeInv, QueuedInv
    <3>2. CASE r = s
      <4>1. \A i \in 1..(Len(messageID[s]) - 1) :
              i + 1 \in 1..Len(messageID[s]) /\ messageID[s][i + 1] \in Turns \ {t}
        <5>1. \A i \in 1..(Len(messageID[s]) - 1) :
                i + 1 \in 1..Len(messageID[s]) /\ i + 1 # 1 /\ 1 \in 1..Len(messageID[s])
          BY <2>1
        <5>. QED
          BY <2>1, <5>1 DEF ServeInv, QueuedInv
      <4>2. \A i \in 1..(Len(messageID[s]) - 1) :
              outcome[messageID[s][i + 1]] = "queued" /\ SessionOf[messageID[s][i + 1]] = s
        BY <4>1 DEF ServeInv, QueuedInv
      <4>3. \A i, j \in 1..(Len(messageID[s]) - 1) :
              messageID[s][i + 1] = messageID[s][j + 1] => i = j
        <5>1. \A i, j \in 1..(Len(messageID[s]) - 1) :
                messageID[s][i + 1] = messageID[s][j + 1] => i + 1 = j + 1
          BY <4>1 DEF ServeInv, QueuedInv
        <5>. QED
          BY <5>1
      <4>4. \A i \in 1..Len(messageID'[s]) :
              i \in 1..(Len(messageID[s]) - 1) /\ messageID'[s][i] = messageID[s][i + 1]
        BY <2>5
      <4>5. \A i \in 1..Len(messageID'[s]) :
              outcome'[messageID'[s][i]] = "queued" /\ SessionOf[messageID'[s][i]] = s
        BY <2>4, <4>1, <4>2, <4>4
      <4>6. \A i, j \in 1..Len(messageID'[s]) :
              messageID'[s][i] = messageID'[s][j] => i = j
        BY <4>3, <4>4
      <4>. QED
        BY <3>2, <4>5, <4>6
    <3>. QED
      BY <3>1, <3>2
  <2>7. /\ \A v \in Turns : v # w => wpc'[v] = wpc[v] /\ wturn'[v] = wturn[v]
        /\ wpc'[w] = "check" /\ wturn'[w] = t
    BY <1>6, <2>2 DEF Dequeue, TypeOK
  <2>8. \A v \in Turns : Working(v) \/ wpc[v] = "finish" => wturn[v] \in Turns \ {t}
    BY <2>3 DEF ServeInv, HeldInv, HoldsATurn, Holding, Working, Ended
  <2>9. HeldInv'
    BY <2>3, <2>4, <2>7, <2>8 DEF ServeInv, HeldInv, Working
  <2>. QED
    BY <2>6, <2>9 DEF ServeInv, QueuedInv
<1>7. ASSUME NEW w \in Turns, MarkIdleIfEmpty(w)
      PROVE  ServeInv'
  BY <1>7, MovesServe DEF MarkIdleIfEmpty, TypeOK
<1>8. ASSUME NEW w \in Turns, CheckShutdown(w)
      PROVE  ServeInv'
  <2>1. CASE shutdownRequested
    BY <1>8, <2>1, EndsHeld DEF CheckShutdown, TypeOK, tracker, Working, Ended
  <2>2. CASE ~shutdownRequested
    BY <1>8, <2>2, MovesServe DEF CheckShutdown, TypeOK, tracker, Working
  <2>. QED
    BY <2>1, <2>2
<1>9. ASSUME NEW w \in Turns, EndUnregistered(w)
      PROVE  ServeInv'
  BY <1>9, EndsHeld DEF EndUnregistered, TypeOK, tracker, Working, Ended
<1>10. ASSUME NEW w \in Turns, Register(w)
      PROVE  ServeInv'
  BY <1>10, MovesServe DEF Register, TypeOK, Working
<1>11. ASSUME NEW w \in Turns, EndRun(w)
      PROVE  ServeInv'
  BY <1>11, EndsHeld DEF EndRun, TypeOK, tracker, Working, Ended
<1>12. ASSUME NEW w \in Turns, EndCancelled(w)
      PROVE  ServeInv'
  BY <1>12, EndsHeld DEF EndCancelled, TypeOK, tracker, Working, Ended
<1>13. ASSUME NEW w \in Turns, Unregister(w)
      PROVE  ServeInv'
  BY <1>13, MovesServe DEF Unregister, TypeOK
<1>14. ASSUME NEW c \in Clients, NEW s \in Sessions, NEW b \in BOOLEAN,
             CancelActive(c, s, b)
      PROVE  ServeInv'
  BY <1>14, MovesServe DEF CancelActive
<1>15. ASSUME NEW c \in Clients, ClearQueued(c)
      PROVE  ServeInv'
  <2>. DEFINE s == client[c].session
  <2>1. s \in Sessions /\ messageID[s] \in Seq(Turns)
    BY DEF TypeOK, Client
  <2>2. /\ messageID'[s] = <<>> /\ Len(messageID'[s]) = 0
        /\ \A r \in Sessions : r # s => messageID'[r] = messageID[r]
        /\ wpc' = wpc /\ wturn' = wturn
        /\ \A t \in Turns : t \notin Entries(messageID[s]) => outcome'[t] = outcome[t]
    BY <1>15, <2>1 DEF ClearQueued, TypeOK
  <2>3. \A t \in Entries(messageID[s]) : outcome[t] = "queued" /\ SessionOf[t] = s
    BY <2>1 DEF Entries, ServeInv, QueuedInv
  <2>4. QueuedInv'
    <3>1. \A r \in Sessions : \A i \in 1..Len(messageID[r]) :
            r # s => messageID[r][i] \in Turns \ Entries(messageID[s])
      <4>1. \A r \in Sessions : \A i \in 1..Len(messageID[r]) :
              messageID[r][i] \in Turns /\ SessionOf[messageID[r][i]] = r
        BY DEF ServeInv, QueuedInv, TypeOK
      <4>. QED
        BY <2>3, <4>1
    <3>. QED
      BY <2>2, <3>1 DEF ServeInv, QueuedInv
  <2>5. HeldInv'
    <3>1. \A v \in Turns : Working(v) \/ wpc[v] = "finish" =>
            wturn[v] \in Turns \ Entries(messageID[s])
      BY <2>3 DEF ServeInv, HeldInv, HoldsATurn, Holding, Working, Ended
    <3>. QED
      BY <2>2, <3>1 DEF ServeInv, HeldInv, Working
  <2>. QED
    BY <2>4, <2>5 DEF ServeInv
<1>16. ASSUME NEW c \in Clients, DrainActive(c) \/ DrainQueued(c) \/ DrainTimeout(c)
      PROVE  ServeInv'
  BY <1>16, MovesServe DEF DrainActive, DrainQueued, DrainTimeout, tracker
<1>17. CASE ShutdownCancel \/ CancelAll \/ WorkersDone \/ WaitExpired \/ CloseStore
  BY <1>17, MovesServe
     DEF ShutdownCancel, CancelAll, WorkersDone, WaitExpired, CloseStore, tracker
<1>18. CASE UNCHANGED vars
  BY <1>18, MovesServe DEF vars
<1>. QED
  BY <1>1, <1>2, <1>3, <1>4, <1>5, <1>6, <1>7, <1>8, <1>9, <1>10, <1>11,
     <1>12, <1>13, <1>14, <1>15, <1>16, <1>17, <1>18
  DEF Next, Submit, WorkerStep, Cancel, CancelStep, Shutdown

\* The turns of ChatTurns that are over.
Over == {t \in Turns : outcome[t] \in Ended}

\* What both states are known to satisfy.
RefInv == TypeInv /\ WorkerInv /\ ServeInv

\* Steps that ChatTurns does not see: no list, no outcome that counts and no turn
\* that a goroutine works on changes.
LEMMA Unseen ==
  ASSUME RefInv, RefInv', messageID' = messageID, Over' = Over,
         \A v \in Turns : Working(v)' <=> Working(v),
         \A v \in Turns : Working(v) => wturn'[v] = wturn[v]
  PROVE  UNCHANGED Chat!vars
<1>1. ExecutesRuns /\ ExecutesRuns'
  BY ExecutingIs, ExecutingNext DEF RefInv, ServeInv
<1>2. \A s \in Sessions : RunsOf(s)' = RunsOf(s)
  BY DEF RunsOf
<1>3. \A s \in Sessions : Executing(s)' = Executing(s)
  BY <1>1, <1>2 DEF ExecutesRuns
<1>. QED
  BY <1>3 DEF Chat!vars, Over

\* The turn that a goroutine works on gets its outcome: the session finishes it.
LEMMA Finishes ==
  ASSUME RefInv, RefInv', NEW w \in Turns, NEW o \in Ended, Working(w), ~Working(w)',
         outcome' = [outcome EXCEPT ![wturn[w]] = o],
         \A v \in Turns : v # w => wpc'[v] = wpc[v] /\ wturn'[v] = wturn[v],
         messageID' = messageID
  PROVE  Chat!Finish(SessionOf[w])
<1>. DEFINE s == SessionOf[w]
            t == wturn[w]
<1>1. s \in Sessions /\ t \in Turns /\ outcome \in [Turns -> Outcome]
  BY DEF RefInv, TypeInv, TypeOK, HoldsATurn, Holding, Working
<1>2. ExecutesRuns /\ ExecutesRuns'
  BY ExecutingIs, ExecutingNext DEF RefInv, ServeInv
<1>3. \A v \in Turns : SessionOf[v] = s /\ Working(v) => v = w
  BY <1>1 DEF RefInv, WorkerInv, OneWorkerPerSession, WorkersOf, Live, Working
<1>4. RunsOf(s) = {t} /\ RunsOf(s)' = {}
  BY <1>3 DEF RunsOf, Working
<1>5. \A r \in Sessions : r # s => RunsOf(r)' = RunsOf(r)
  <2> SUFFICES ASSUME NEW r \in Sessions, r # s
               PROVE  RunsOf(r)' = RunsOf(r)
    OBVIOUS
  <2>1. \A v \in Turns : SessionOf[v] = r =>
          (Working(v)' <=> Working(v)) /\ wturn'[v] = wturn[v]
    BY DEF Working
  <2>. QED
    BY <2>1 DEF RunsOf
<1>6. Executing(s) = {t} /\ Executing(s)' = {}
      /\ \A r \in Sessions : r # s => Executing(r)' = Executing(r)
  BY <1>1, <1>2, <1>4, <1>5 DEF ExecutesRuns
<1>7. [r \in Sessions |-> Executing(r)]'
        = [[r \in Sessions |-> Executing(r)] EXCEPT ![s] = {}]
  BY <1>6
<1>8. Over' = Over \cup {t}
  BY <1>1 DEF Over
<1>. QED
  BY <1>1, <1>6, <1>7, <1>8 DEF Chat!Finish, Over

\* enqueue submits a turn that no list, no goroutine and no outcome knows.
LEMMA EnqueueSubmits ==
  ASSUME RefInv, RefInv', NEW t \in Turns, Enqueue(t)
  PROVE  Chat!Submit(t)
<1>1. ExecutesRuns /\ ExecutesRuns'
  BY ExecutingIs, ExecutingNext DEF RefInv, ServeInv
<1>2. outcome[t] = "accepted" /\ outcome'[t] = "queued"
      /\ \A u \in Turns : u # t => outcome'[u] = outcome[u]
  BY DEF Enqueue, RefInv, TypeInv, TypeOK
<1>3. t \notin Chat!Known
  <2>1. ASSUME NEW s \in Sessions, t \in Executing(s)
        PROVE  FALSE
    BY <1>2, <2>1 DEF Executing
  <2>2. ASSUME NEW s \in Sessions, NEW i \in 1..Len(messageID[s]), messageID[s][i] = t
        PROVE  FALSE
    BY <1>2, <2>2 DEF RefInv, ServeInv, QueuedInv
  <2>3. t \notin Over
    BY <1>2 DEF Over, Ended
  <2>. QED
    BY <2>1, <2>2, <2>3 DEF Chat!Known, Over
<1>4. messageID' = [messageID EXCEPT ![SessionOf[t]] = Append(@, t)]
  BY DEF Enqueue
<1>5. Over' = Over
  BY <1>2 DEF Over, Ended
<1>6. \A v \in Turns : (Working(v)' <=> Working(v)) /\ wturn'[v] = wturn[v]
  BY DEF Enqueue, Working, RefInv, TypeInv, TypeOK, WorkerInv
<1>7. \A s \in Sessions : Executing(s)' = Executing(s)
  <2>1. \A s \in Sessions : RunsOf(s)' = RunsOf(s)
    BY <1>6 DEF RunsOf
  <2>. QED
    BY <1>1, <2>1 DEF ExecutesRuns
<1>. QED
  BY <1>3, <1>4, <1>5, <1>7 DEF Chat!Submit, Over

\* dequeue starts the oldest turn of a session that executes nothing.
LEMMA DequeueStarts ==
  ASSUME RefInv, RefInv', NEW w \in Turns, Dequeue(w)
  PROVE  Chat!Start(SessionOf[w])
<1>. DEFINE s == SessionOf[w]
            t == messageID[s][1]
<1>1. ExecutesRuns /\ ExecutesRuns'
  BY ExecutingIs, ExecutingNext DEF RefInv, ServeInv
<1>2. /\ s \in Sessions /\ messageID[s] \in Seq(Turns) /\ messageID[s] # <<>>
      /\ queue[s] \in Nat /\ Len(messageID[s]) = queue[s] /\ Len(messageID[s]) > 0
      /\ messageID \in [Sessions -> Seq(Turns)] /\ outcome \in [Turns -> Outcome]
  BY DEF Dequeue, HasQueued, RefInv, TypeInv, TypeOK, OptionsStayPaired
<1>3. /\ FirstOr(messageID[s], NoTurn) = t /\ Head(messageID[s]) = t
      /\ t \in Turns /\ outcome[t] = "queued"
  BY <1>2, FirstTyped DEF RefInv, ServeInv, QueuedInv
<1>4. messageID' = [messageID EXCEPT ![s] = Tail(@)]
  <2>1. CASE queue[s] = 1
    <3>1. Tail(messageID[s]) \in Seq(Turns) /\ Len(Tail(messageID[s])) = 0
      BY <1>2, <2>1
    <3>2. Tail(messageID[s]) = <<>>
      BY <3>1, EmptySeq
    <3>. QED
      BY <2>1, <3>2 DEF Dequeue
  <2>2. CASE queue[s] # 1
    <3>1. RestOf(messageID[s]) = Tail(messageID[s])
      BY <1>2 DEF RestOf
    <3>. QED
      BY <2>2, <3>1 DEF Dequeue
  <2>. QED
    BY <2>1, <2>2
<1>5. /\ wpc[w] = "take" /\ wpc'[w] = "check" /\ wturn'[w] = t
      /\ \A v \in Turns : v # w => wpc'[v] = wpc[v] /\ wturn'[v] = wturn[v]
  BY <1>3 DEF Dequeue, RefInv, TypeInv, TypeOK
<1>6. \A v \in Turns : SessionOf[v] = s => ~Working(v)
  <2>1. ASSUME NEW v \in Turns, SessionOf[v] = s, Working(v)
        PROVE  v = w
    <3>1. v \in WorkersOf(s) /\ w \in WorkersOf(s)
      BY <1>5, <2>1 DEF WorkersOf, Live, Working
    <3>. QED
      BY <1>2, <3>1 DEF RefInv, WorkerInv, OneWorkerPerSession
  <2>. QED
    BY <1>5, <2>1 DEF Working
<1>7. RunsOf(s) = {} /\ RunsOf(s)' = {t}
  BY <1>5, <1>6 DEF RunsOf, Working
<1>8. \A r \in Sessions : r # s => RunsOf(r)' = RunsOf(r)
  <2> SUFFICES ASSUME NEW r \in Sessions, r # s
               PROVE  RunsOf(r)' = RunsOf(r)
    OBVIOUS
  <2>1. \A v \in Turns : SessionOf[v] = r =>
          (Working(v)' <=> Working(v)) /\ wturn'[v] = wturn[v]
    BY <1>5 DEF Working
  <2>. QED
    BY <2>1 DEF RunsOf
<1>9. Executing(s) = {} /\ Executing(s)' = {t}
      /\ \A r \in Sessions : r # s => Executing(r)' = Executing(r)
  BY <1>1, <1>2, <1>7, <1>8 DEF ExecutesRuns
<1>10. [r \in Sessions |-> Executing(r)]'
         = [[r \in Sessions |-> Executing(r)] EXCEPT ![s] = {t}]
  BY <1>9
<1>11. Over' = Over
  BY <1>2, <1>3 DEF Over, Dequeue, Ended
<1>. QED
  BY <1>2, <1>3, <1>4, <1>9, <1>10, <1>11 DEF Chat!Start, Over

\* clearQueued clears the list of its session as a whole.
LEMMA ClearClears ==
  ASSUME RefInv, RefInv', NEW c \in Clients, ClearQueued(c)
  PROVE  \E s \in Sessions : Chat!ClearPending(s)
<1>. DEFINE s == client[c].session
<1>1. ExecutesRuns /\ ExecutesRuns'
  BY ExecutingIs, ExecutingNext DEF RefInv, ServeInv
<1>2. s \in Sessions /\ messageID[s] \in Seq(Turns)
  BY DEF RefInv, TypeInv, TypeOK, Client
<1>3. Entries(messageID[s]) \in SUBSET Turns
  BY <1>2 DEF Entries
<1>4. \A t \in Turns : outcome'[t] = IF t \in Entries(messageID[s]) THEN "cleared"
                                                                    ELSE outcome[t]
  BY DEF ClearQueued
<1>5. Over' = Over \cup Entries(messageID[s])
  BY <1>3, <1>4 DEF Over, Ended
<1>6. messageID' = [messageID EXCEPT ![s] = <<>>] /\ wpc' = wpc /\ wturn' = wturn
  BY DEF ClearQueued
<1>7. \A r \in Sessions : Executing(r)' = Executing(r)
  <2>1. \A r \in Sessions : RunsOf(r)' = RunsOf(r)
    BY <1>6 DEF RunsOf, Working
  <2>. QED
    BY <1>1, <2>1 DEF ExecutesRuns
<1>. QED
  BY <1>2, <1>5, <1>6, <1>7 DEF Chat!ClearPending, Over, Entries

\* Every step of the tracker is a step of ChatTurns, or one it does not see.
LEMMA StepImplements ==
  ASSUME RefInv, RefInv', [Next]_vars
  PROVE  [Chat!Next]_(Chat!vars)
<1>. USE DEF RefInv, TypeInv
<1>1. ASSUME NEW t \in Turns, AddChatMessage(t)
      PROVE  UNCHANGED Chat!vars
  BY <1>1, Unseen DEF AddChatMessage, TypeOK, tracker, Over, Ended, Working
<1>2. ASSUME NEW t \in Turns, Enqueue(t)
      PROVE  Chat!Next
  BY <1>2, EnqueueSubmits DEF Chat!Next
<1>3. ASSUME NEW t \in Turns, StartWorker(t)
      PROVE  UNCHANGED Chat!vars
  BY <1>3, Unseen DEF StartWorker, TypeOK, tracker, Over, Working
<1>4. ASSUME NEW w \in Turns, LoopTop(w)
      PROVE  UNCHANGED Chat!vars
  BY <1>4, Unseen DEF LoopTop, TypeOK, tracker, Over, Working
<1>5. ASSUME NEW w \in Turns, DequeueNothing(w)
      PROVE  UNCHANGED Chat!vars
  BY <1>5, Unseen DEF DequeueNothing, TypeOK, tracker, Over, Working
<1>6. ASSUME NEW w \in Turns, Dequeue(w)
      PROVE  Chat!Next
  BY <1>6, DequeueStarts DEF Chat!Next, TypeOK
<1>7. ASSUME NEW w \in Turns, MarkIdleIfEmpty(w)
      PROVE  UNCHANGED Chat!vars
  BY <1>7, Unseen DEF MarkIdleIfEmpty, TypeOK, Over, Working
<1>8. ASSUME NEW w \in Turns, CheckShutdown(w)
      PROVE  [Chat!Next]_(Chat!vars)
  <2>1. CASE shutdownRequested
    <3>1. /\ outcome' = [outcome EXCEPT ![wturn[w]] = "dropped"] /\ messageID' = messageID
          /\ Working(w) /\ ~Working(w)' /\ "dropped" \in Ended
          /\ \A v \in Turns : v # w => wpc'[v] = wpc[v] /\ wturn'[v] = wturn[v]
      BY <1>8, <2>1 DEF CheckShutdown, TypeOK, tracker, Working, Ended
    <3>. QED
      BY <3>1, Finishes DEF Chat!Next, TypeOK
  <2>2. CASE ~shutdownRequested
    BY <1>8, <2>2, Unseen DEF CheckShutdown, TypeOK, tracker, Over, Working
  <2>. QED
    BY <2>1, <2>2
<1>9. ASSUME NEW w \in Turns, EndUnregistered(w) \/ EndRun(w) \/ EndCancelled(w)
      PROVE  Chat!Next
  <2>1. PICK o \in Ended : outcome' = [outcome EXCEPT ![wturn[w]] = o]
    BY <1>9 DEF EndUnregistered, EndRun, EndCancelled, Ended
  <2>2. /\ messageID' = messageID /\ Working(w) /\ ~Working(w)'
        /\ \A v \in Turns : v # w => wpc'[v] = wpc[v] /\ wturn'[v] = wturn[v]
    BY <1>9 DEF EndUnregistered, EndRun, EndCancelled, TypeOK, tracker, Working
  <2>. QED
    BY <2>1, <2>2, Finishes DEF Chat!Next, TypeOK
<1>10. ASSUME NEW w \in Turns, Register(w)
       PROVE  UNCHANGED Chat!vars
  BY <1>10, Unseen DEF Register, TypeOK, Over, Working
<1>11. ASSUME NEW w \in Turns, Unregister(w)
       PROVE  UNCHANGED Chat!vars
  BY <1>11, Unseen DEF Unregister, TypeOK, Over, Working
<1>12. ASSUME NEW c \in Clients, NEW s \in Sessions, NEW b \in BOOLEAN,
              CancelActive(c, s, b)
       PROVE  UNCHANGED Chat!vars
  BY <1>12, Unseen DEF CancelActive, Over, Working
<1>13. ASSUME NEW c \in Clients, ClearQueued(c)
       PROVE  Chat!Next
  BY <1>13, ClearClears DEF Chat!Next
<1>14. ASSUME NEW c \in Clients, DrainActive(c) \/ DrainQueued(c) \/ DrainTimeout(c)
       PROVE  UNCHANGED Chat!vars
  BY <1>14, Unseen DEF DrainActive, DrainQueued, DrainTimeout, tracker, Over, Working
<1>15. CASE ShutdownCancel \/ CancelAll \/ WorkersDone \/ WaitExpired \/ CloseStore
  BY <1>15, Unseen
     DEF ShutdownCancel, CancelAll, WorkersDone, WaitExpired, CloseStore, tracker,
         Over, Working
<1>16. CASE UNCHANGED vars
  BY <1>16, Unseen DEF vars, Over, Working
<1>. QED
  BY <1>1, <1>2, <1>3, <1>4, <1>5, <1>6, <1>7, <1>8, <1>9, <1>10, <1>11,
     <1>12, <1>13, <1>14, <1>15, <1>16
  DEF Next, Submit, WorkerStep, Cancel, CancelStep, Shutdown

\* Nothing is accepted, executing or over when the server starts.
LEMMA InitImplements == Init => Chat!Init
  BY DEF Init, Chat!Init, Executing, HeldBy, WorkersOf, Live, Ended

\* The tracker, its workers, the cancel commands and the shutdown implement one FIFO
\* executor per session (chatTurnTracker, runAssistantTurnQueue): turns start in the
\* order of their messages, one at a time, and none starts twice.
THEOREM Implements == Spec => ImplementsChatTurns
<1>1. Init => ServeInv
  BY DEF Init, ServeInv, QueuedInv, HeldInv, Working
<1>2. Spec => []RefInv
  BY <1>1, ServeStep, Typing, WorkerInvariant, PTL DEF Spec, RefInv
<1>3. RefInv /\ RefInv' /\ [Next]_vars => [Chat!Next]_(Chat!vars)
  BY StepImplements
<1>. QED
  BY <1>2, <1>3, InitImplements, PTL DEF Spec, ImplementsChatTurns, Chat!Spec
=============================================================================
