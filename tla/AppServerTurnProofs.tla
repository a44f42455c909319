-------------------------- MODULE AppServerTurnProofs --------------------------
(***************************************************************************)
(* Proofs about AppServerTurn for any number of turns, connections,        *)
(* approval requests and clients: its types, that a request which clients  *)
(* can answer has its reader, that the service is given the decision whose *)
(* client was told that it was taken, and that a turn alone on its         *)
(* connection returns its own answer.                                      *)
(***************************************************************************)
EXTENDS AppServerTurn, FiniteSetTheorems, SequenceTheorems, TLAPS

\* The bounds are natural numbers.
LEMMA BoundsAreNat ==
  MaxTexts \in Nat /\ MaxWire \in Nat /\ MaxConns \in Nat /\ MaxFaults \in Nat
BY BoundAssumption

\* Connection 0, for no connection, is none of the connections.
LEMMA ZeroIsNone == 0 \notin Conns
BY DEF Conns

-----------------------------------------------------------------------------
(* What the helpers of the actions do to the types.                        *)

\* The fields of a call: a turn that has begun has a connection.
LEMMA CallFields ==
  ASSUME TypeOK, NEW t \in Turns
  PROVE  /\ call[t] \in AnyCall
         /\ ~At(t, "idle") => call[t].conn \in Conns
         /\ InCallback(call[t]) <=> call[t].asked # NoRequest
         /\ InCallback(call[t]) => call[t].asked \in Requests
         /\ At(t, "respond") => call[t].decision \in Decisions \cup {"cancel"}
<1>1. call[t] \in Call
  BY DEF TypeOK
<1>2. /\ call[t] \in AnyCall
      /\ call[t].pc # "idle" => call[t].conn # 0
      /\ InCallback(call[t]) <=> call[t].asked # NoRequest
      /\ call[t].pc = "respond" => call[t].decision # ""
  BY <1>1 DEF Call
<1>3. /\ call[t].asked \in Requests \cup {NoRequest}
      /\ call[t].decision \in Decisions \cup {"", "cancel"}
  BY <1>2 DEF AnyCall
<1>4. call[t].pc # "idle" => call[t].conn \in Conns
  <2>1. call[t].conn \in 0..MaxConns
    BY <1>2 DEF AnyCall
  <2>2. ASSUME NEW n \in 0..MaxConns, n # 0 PROVE n \in Conns
    BY <2>2, BoundsAreNat DEF Conns
  <2>. QED
    BY <1>2, <2>1, <2>2
<1>5. InCallback(call[t]) => call[t].asked \in Requests
  BY <1>2, <1>3
<1>6. call[t].pc = "respond" => call[t].decision \in Decisions \cup {"cancel"}
  BY <1>2, <1>3
<1>. QED
  BY <1>2, <1>4, <1>5, <1>6 DEF At

\* Shutting sockets (conn.Close) keeps the sockets and the wire in their types.
LEMMA ShutTyped ==
  ASSUME TypeOK, NEW C, Shut(C)
  PROVE  open' \subseteq Conns /\ wire' \in [Conns -> Seq(Message)]
<1>1. <<>> \in Seq(Message)
  OBVIOUS
<1>. QED
  BY <1>1 DEF TypeOK, Shut

\* Closing sessions (Session.Close) keeps flags, sockets and the wire in their types.
LEMMA CloseTyped ==
  ASSUME TypeOK, NEW C, Close(C)
  PROVE  /\ closed' \in [Conns -> BOOLEAN]
         /\ open' \subseteq Conns /\ wire' \in [Conns -> Seq(Message)]
BY ShutTyped DEF Close, TypeOK

\* A reader that receives has a connection, and what it receives is a message.
LEMMA ReceivesTyped ==
  ASSUME TypeOK, NEW t \in Turns, NEW kind, Receives(t, kind)
  PROVE  /\ call[t].conn \in Conns /\ Incoming(t) \in Message
         /\ Incoming(t) \in AnyMessage
         /\ open' \subseteq Conns /\ wire' \in [Conns -> Seq(Message)]
<1>1. call[t].conn \in Conns /\ wire[call[t].conn] \in Seq(Message)
  BY DEF Receives, TypeOK
<1>2. wire[call[t].conn] # <<>>
  BY DEF Receives
<1>3. /\ Head(wire[call[t].conn]) \in Message
      /\ Tail(wire[call[t].conn]) \in Seq(Message)
  BY <1>1, <1>2
<1>4. /\ open' = open /\ open \subseteq Conns
      /\ wire \in [Conns -> Seq(Message)]
      /\ wire' = [wire EXCEPT ![call[t].conn] = Tail(@)]
  BY DEF Receives, TypeOK
<1>. QED
  BY <1>1, <1>3, <1>4 DEF Incoming, Message

\* A turn whose call becomes c.
LEMMA UpdateTyped ==
  ASSUME TypeOK, NEW t \in Turns, NEW c \in Call, Update(t, c)
  PROVE  call' \in [Turns -> Call]
BY DEF TypeOK, Update

\* A turn that goes on elsewhere, its request and its connection as before.
LEMMA GotoTyped ==
  ASSUME TypeOK, NEW t \in Turns, ~At(t, "idle"), NEW p \in Pc, Goto(t, p),
         p # "respond",
         InCallback(call[t]) <=> p \in {"ask", "forget", "respond"}
  PROVE  call' \in [Turns -> Call]
<1>. DEFINE c == [call[t] EXCEPT !.pc = p]
<1>1. call[t] \in AnyCall /\ call[t] \in Call
  BY CallFields DEF TypeOK
<1>2. c \in AnyCall /\ c.pc = p /\ c.conn = call[t].conn /\ c.asked = call[t].asked
  BY <1>1 DEF AnyCall
<1>3. c \in Call
  BY <1>1, <1>2 DEF Call, InCallback, At
<1>4. Update(t, c)
  BY DEF Goto
<1>. QED
  BY <1>3, <1>4, UpdateTyped

\* A call that fails, and a call that returns.
LEMMA FailTyped ==
  ASSUME TypeOK, NEW t \in Turns, ~At(t, "idle"), ~InCallback(call[t]), Fail(t)
  PROVE  /\ call' \in [Turns -> Call]
         /\ closed' \in [Conns -> BOOLEAN] /\ armed' \subseteq Turns
<1>. DEFINE c == [call[t] EXCEPT !.pc = "release", !.rpc = 0,
                    !.result = IF t \in cancelled THEN "cancelled" ELSE "failed"]
<1>1. call[t] \in AnyCall /\ call[t] \in Call
  BY CallFields DEF TypeOK
<1>2. /\ c \in AnyCall /\ c.pc = "release" /\ c.conn = call[t].conn
      /\ c.asked = call[t].asked
  BY <1>1 DEF AnyCall, Pc
<1>3. c \in Call
  BY <1>1, <1>2 DEF Call, InCallback, At
<1>4. Update(t, c)
  BY DEF Fail
<1>5. call' \in [Turns -> Call]
  BY <1>3, <1>4, UpdateTyped
<1>. QED
  BY <1>5 DEF Fail, MarkClosed, TypeOK

\* A turn that leaves its read loop keeps calls, flags and AfterFuncs in their types.
LEMMA ReturnTyped ==
  ASSUME TypeOK, NEW t \in Turns, At(t, "read"), NEW c \in Call, c.pc = "read",
         Return(t, c)
  PROVE  /\ call' \in [Turns -> Call]
         /\ closed' \in [Conns -> BOOLEAN] /\ armed' \subseteq Turns
<1>0. ~At(t, "idle") /\ ~InCallback(call[t])
  BY DEF At, InCallback
<1>1. CASE c.message = NoText
  BY <1>0, <1>1, FailTyped DEF Return
<1>2. CASE c.message # NoText
  <2>. DEFINE d == [c EXCEPT !.pc = IF call[t].private THEN "release" ELSE "done",
                             !.rpc = 0, !.result = "ok"]
  <2>1. c \in AnyCall /\ c.conn # 0 /\ c.asked = NoRequest
    BY DEF Call, InCallback
  <2>2. /\ d \in AnyCall /\ d.pc \in {"release", "done"} /\ d.conn = c.conn
        /\ d.asked = c.asked
    BY <2>1 DEF AnyCall, Pc
  <2>3. d \in Call
    BY <2>1, <2>2 DEF Call, InCallback
  <2>4. Update(t, d)
    BY <1>2 DEF Return
  <2>5. call' \in [Turns -> Call]
    BY <2>3, <2>4, UpdateTyped
  <2>. QED
    BY <1>2, <2>5 DEF Return, sessions, TypeOK
<1>. QED
  BY <1>1, <1>2

\* A step that takes a message and makes c of its call.
LEMMA ReadTyped ==
  ASSUME TypeOK, NEW t \in Turns, NEW kind, Receives(t, kind), NEW c \in Call,
         c.pc = "read", Return(t, c) \/ GoOn(t, c),
         UNCHANGED <<approvals, service, observers>>
  PROVE  TypeOK'
<1>1. At(t, "read")
  BY DEF Receives
<1>2. /\ call' \in [Turns -> Call]
      /\ closed' \in [Conns -> BOOLEAN] /\ armed' \subseteq Turns
  <2>1. CASE Return(t, c)
    BY <1>1, <2>1, ReturnTyped
  <2>2. CASE GoOn(t, c)
    BY <2>2, UpdateTyped DEF GoOn, context, sessions, TypeOK
  <2>. QED
    BY <2>1, <2>2
<1>3. UNCHANGED <<cancelled, due, pool, conns, nextID>>
  BY DEF Return, Fail, GoOn, context, sessions
<1>. QED
  BY <1>2, <1>3, ReceivesTyped DEF TypeOK, approvals, service, observers

-----------------------------------------------------------------------------
(* Type correctness.                                                       *)

\* The initial state is well typed.
LEMMA TypeInit == Init => TypeOK
<1> SUFFICES ASSUME Init PROVE TypeOK
  OBVIOUS
<1>. USE BoundsAreNat
<1>1. NewCall \in Call
  <2>1. NewCall \in AnyCall
    BY DEF NewCall, AnyCall, Pc, Text
  <2>. QED
    BY <2>1 DEF NewCall, Call, InCallback
<1>2. NoService \in Service
  BY DEF NoService, Service
<1>3. <<>> \in Seq(Message)
  OBVIOUS
<1>4. /\ call \in [Turns -> Call] /\ svc \in [Turns -> Service]
      /\ wire \in [Conns -> Seq(Message)]
  BY <1>1, <1>2, <1>3 DEF Init
<1>5. /\ cancelled \subseteq Turns /\ armed \subseteq Turns /\ due \subseteq Turns
      /\ closed \in [Conns -> BOOLEAN] /\ nextID \in [Conns -> Nat]
      /\ pending \subseteq Requests /\ open \subseteq Conns /\ shared \subseteq Turns
  BY DEF Init
<1>9. pool \in 0..MaxConns /\ conns \in 0..MaxConns /\ faults \in 0..MaxFaults
  <2>1. pool = 0 /\ conns = 0 /\ faults = 0
    BY Zenon DEF Init
  <2>. QED
    BY <2>1
<1>6. /\ channel \in [Requests -> Decisions \cup {""}]
      /\ said \in [Requests -> Decisions \cup {""}]
  BY Zenon DEF Init
<1>7. hand \in [Clients -> {NoHand} \cup [request : Requests, decision : Decisions]]
  BY Zenon DEF Init
<1>8. answered \in [Requests -> {<<>>} \cup ((Decisions \cup {"cancel"}) \X Turns)]
  BY Zenon DEF Init
<1>. QED
  BY <1>4, <1>5, <1>6, <1>7, <1>8, <1>9 DEF TypeOK

\* The steps up to turn/start keep the types.
LEMMA TypeBegin ==
  ASSUME TypeOK, NEW t \in Turns, Begin(t)
  PROVE  TypeOK'
<1>. USE BoundsAreNat
<1>0. /\ call[t] \in AnyCall /\ pool \in 0..MaxConns
      /\ conns \in 0..MaxConns /\ nextID \in [Conns -> Nat]
      /\ ~At(t, "idle") => call[t].conn \in Conns
      /\ InCallback(call[t]) <=> call[t].asked # NoRequest
  BY CallFields DEF TypeOK
<1>1. CASE Reuse(t)
  <2>. DEFINE c == [call[t] EXCEPT !.pc = "check", !.conn = pool]
  <2>1. At(t, "idle") /\ pool # 0 /\ pool \in 0..MaxConns
    BY <1>0, <1>1 DEF Reuse, Usable
  <2>2. c \in AnyCall /\ c.pc = "check" /\ c.conn = pool /\ c.asked = call[t].asked
    BY <1>0, <2>1 DEF AnyCall, Pc
  <2>3. c \in Call
    BY <1>0, <2>1, <2>2 DEF Call, InCallback, At
  <2>4. call' \in [Turns -> Call]
    BY <1>1, <2>3, UpdateTyped DEF Reuse
  <2>. QED
    BY <1>1, <2>4 DEF Reuse, TypeOK, context, sessions, approvals, network,
         service, observers
<1>2. CASE OpenSession(t)
  <2>1. At(t, "idle") /\ conns' \in Conns /\ conns' \in 0..MaxConns /\ conns' # 0
    BY <1>0, <1>2 DEF OpenSession, Conns
  <2>. DEFINE c == [call[t] EXCEPT !.pc = "pool", !.conn = conns']
  <2>2. c \in AnyCall /\ c.pc = "pool" /\ c.conn = conns' /\ c.asked = call[t].asked
    BY <1>0, <2>1 DEF AnyCall, Pc
  <2>3. c \in Call
    BY <1>0, <2>1, <2>2 DEF Call, InCallback, At
  <2>4. call' \in [Turns -> Call]
    BY <1>2, <2>3, UpdateTyped DEF OpenSession
  <2>5. /\ open' \subseteq Conns /\ wire' \in [Conns -> Seq(Message)]
        /\ nextID' \in [Conns -> Nat]
    <3>1. <<>> \in Seq(Message)
      OBVIOUS
    <3>2. open \subseteq Conns /\ wire \in [Conns -> Seq(Message)]
      BY DEF TypeOK
    <3>. QED
      BY <1>0, <1>2, <2>1, <3>1, <3>2 DEF OpenSession
  <2>. QED
    BY <1>2, <2>1, <2>4, <2>5 DEF OpenSession, TypeOK, context, approvals, service,
         observers
<1>3. CASE PoolSession(t)
  <2>1. ~At(t, "idle") /\ ~InCallback(call[t])
    BY <1>3 DEF PoolSession, At, InCallback
  <2>2. call' \in [Turns -> Call]
    BY <1>3, <2>1, GotoTyped DEF PoolSession, Pc
  <2>3. /\ closed' \in [Conns -> BOOLEAN]
        /\ open' \subseteq Conns /\ wire' \in [Conns -> Seq(Message)]
    BY <1>3, CloseTyped DEF PoolSession
  <2>4. pool' \in 0..MaxConns
    BY <1>0, <1>3, <2>1 DEF PoolSession, Conns
  <2>. QED
    BY <1>3, <2>2, <2>3, <2>4 DEF PoolSession, TypeOK, context, approvals, service,
         observers
<1>4. CASE DialPrivate(t)
  <2>1. At(t, "idle") /\ conns' \in Conns /\ conns' \in 0..MaxConns /\ conns' # 0
    BY <1>0, <1>4 DEF DialPrivate, Conns
  <2>. DEFINE c == [call[t] EXCEPT !.pc = "send", !.private = TRUE,
                      !.conn = conns', !.rpc = 3]
  <2>2. c \in AnyCall /\ c.pc = "send" /\ c.conn = conns' /\ c.asked = call[t].asked
    BY <1>0, <2>1 DEF AnyCall, Pc
  <2>3. c \in Call
    BY <1>0, <2>1, <2>2 DEF Call, InCallback, At
  <2>4. call' \in [Turns -> Call]
    BY <1>4, <2>3, UpdateTyped DEF DialPrivate
  <2>5. open' \subseteq Conns /\ armed' \subseteq Turns
    <3>1. open \subseteq Conns /\ armed \subseteq Turns
      BY DEF TypeOK
    <3>. QED
      BY <1>4, <2>1, <3>1 DEF DialPrivate
  <2>. QED
    BY <1>4, <2>1, <2>4, <2>5 DEF DialPrivate, TypeOK, approvals, service, observers
<1>5. CASE RefuseClosed(t)
  <2>. DEFINE c == [call[t] EXCEPT !.pc = "release", !.result = "failed"]
  <2>1. ~At(t, "idle") /\ ~InCallback(call[t])
    BY <1>5 DEF RefuseClosed, At, InCallback
  <2>2. /\ c \in AnyCall /\ c.pc = "release" /\ c.conn = call[t].conn
        /\ c.asked = call[t].asked
    BY <1>0 DEF AnyCall, Pc
  <2>3. c \in Call
    BY <1>0, <2>1, <2>2, ZeroIsNone DEF Call, InCallback
  <2>4. call' \in [Turns -> Call]
    BY <1>5, <2>3, UpdateTyped DEF RefuseClosed
  <2>. QED
    BY <1>5, <2>4 DEF RefuseClosed, TypeOK, context, sessions, approvals, network,
         service, observers
<1>6. CASE AllocID(t)
  <2>1. ~At(t, "idle") /\ ~InCallback(call[t])
    BY <1>6 DEF AllocID, At, InCallback
  <2>2. NextIDs(t) \subseteq Nat
    <3>1. nextID[call[t].conn] \in Nat
      BY <1>0, <2>1
    <3>2. \A u \in Turns : call[u].rpc \in Nat
      BY CallFields DEF AnyCall
    <3>. QED
      BY <3>1, <3>2 DEF NextIDs, Beside
  <2>3. PICK id \in Nat :
          /\ nextID' = [nextID EXCEPT ![call[t].conn] = id + 1]
          /\ Update(t, [call[t] EXCEPT !.pc = "send", !.rpc = id])
    BY <1>6, <2>2 DEF AllocID
  <2>. DEFINE c == [call[t] EXCEPT !.pc = "send", !.rpc = id]
  <2>4. c \in AnyCall /\ c.pc = "send" /\ c.conn = call[t].conn /\ c.asked = call[t].asked
    BY <1>0 DEF AnyCall, Pc
  <2>5. c \in Call
    BY <1>0, <2>1, <2>4, ZeroIsNone DEF Call, InCallback
  <2>6. call' \in [Turns -> Call]
    BY <2>3, <2>5, UpdateTyped
  <2>7. nextID' \in [Conns -> Nat]
    <3>1. id + 1 \in Nat
      OBVIOUS
    <3>. QED
      BY <1>0, <2>3, <3>1
  <2>8. shared' \subseteq Turns
    BY <1>6 DEF AllocID, TypeOK, Beside
  <2>. QED
    BY <1>6, <2>6, <2>7, <2>8 DEF AllocID, TypeOK, context, approvals, network, service
<1>7. CASE SendStart(t)
  <2>1. ~At(t, "idle") /\ ~InCallback(call[t])
    BY <1>7 DEF SendStart, At, InCallback
  <2>2. call' \in [Turns -> Call]
    BY <1>7, <2>1, GotoTyped DEF SendStart, Pc
  <2>3. [NoService EXCEPT !.phase = "asked", !.id = call[t].rpc] \in Service
    <3>1. NoService \in Service
      BY DEF NoService, Service
    <3>2. call[t].rpc \in Nat
      BY <1>0 DEF AnyCall
    <3>. QED
      BY <3>1, <3>2 DEF Service
  <2>4. svc' \in [Turns -> Service]
    BY <1>7, <2>3 DEF SendStart, TypeOK
  <2>5. armed' \subseteq Turns /\ due' \subseteq Turns
    BY <1>7 DEF SendStart, TypeOK
  <2>. QED
    BY <1>7, <2>2, <2>4, <2>5 DEF SendStart, TypeOK, sessions, approvals, network,
         observers
<1>8. CASE SendFails(t)
  <2>1. ~At(t, "idle") /\ ~InCallback(call[t])
    BY <1>8 DEF SendFails, At, InCallback
  <2>2. /\ call' \in [Turns -> Call]
        /\ closed' \in [Conns -> BOOLEAN] /\ armed' \subseteq Turns
    BY <1>8, <2>1, FailTyped DEF SendFails
  <2>. QED
    BY <1>8, <2>2 DEF SendFails, Fail, TypeOK, approvals, network, service, observers
<1>. QED
  BY <1>1, <1>2, <1>3, <1>4, <1>5, <1>6, <1>7, <1>8 DEF Begin

\* The steps of the read loop keep the types.
LEMMA TypeRead ==
  ASSUME TypeOK, NEW t \in Turns, ReadStep(t)
  PROVE  TypeOK'
<1>0. /\ call[t] \in AnyCall
      /\ ~At(t, "idle") => call[t].conn \in Conns
      /\ InCallback(call[t]) <=> call[t].asked # NoRequest
  BY CallFields
<1>1. CASE ReadResponse(t)
  <2>. DEFINE c == [call[t] EXCEPT !.seen = TRUE]
  <2>1. At(t, "read") /\ Receives(t, "response")
    BY <1>1 DEF ReadResponse, Receives
  <2>2. /\ c \in AnyCall /\ c.conn = call[t].conn /\ c.pc = call[t].pc
        /\ c.asked = call[t].asked
    BY <1>0 DEF AnyCall
  <2>3. c \in Call /\ c.pc = "read"
    BY <1>0, ZeroIsNone, <2>1, <2>2 DEF Call, InCallback, At
  <2>4. GoOn(t, c)
    BY <1>1 DEF ReadResponse, GoOn
  <2>5. UNCHANGED <<approvals, service, observers>>
    BY <1>1 DEF ReadResponse
  <2>. QED
    BY <2>1, <2>3, <2>4, <2>5, ReadTyped
<1>2. CASE ReadForeign(t)
  <2>1. PICK kind \in {"response", "refusal"} : Receives(t, kind)
    BY <1>2 DEF ReadForeign
  <2>2. call[t] \in Call /\ call[t].pc = "read"
    BY <2>1 DEF Receives, At, TypeOK
  <2>3. /\ Return(t, call[t]) \/ GoOn(t, call[t])
        /\ UNCHANGED <<approvals, service, observers>>
    BY <1>2 DEF ReadForeign
  <2>. QED
    BY <2>1, <2>2, <2>3, ReadTyped
<1>3. CASE ReadFailure(t)
  <2>1. /\ ~At(t, "idle") /\ ~InCallback(call[t])
        /\ \E kind \in {"refusal", "error"} : Receives(t, kind)
    BY <1>3 DEF ReadFailure, Receives, At, InCallback
  <2>2. /\ open' \subseteq Conns /\ wire' \in [Conns -> Seq(Message)]
    BY <2>1, ReceivesTyped
  <2>3. /\ call' \in [Turns -> Call]
        /\ closed' \in [Conns -> BOOLEAN] /\ armed' \subseteq Turns
    BY <1>3, <2>1, FailTyped DEF ReadFailure
  <2>. QED
    BY <1>3, <2>2, <2>3 DEF ReadFailure, Fail, TypeOK, approvals, service, observers
<1>4. CASE ReadFails(t)
  <2>1. ~At(t, "idle") /\ ~InCallback(call[t])
    BY <1>4 DEF ReadFails, At, InCallback
  <2>2. /\ call' \in [Turns -> Call]
        /\ closed' \in [Conns -> BOOLEAN] /\ armed' \subseteq Turns
    BY <1>4, <2>1, FailTyped DEF ReadFails
  <2>. QED
    BY <1>4, <2>2 DEF ReadFails, Fail, TypeOK, approvals, network, service, observers
<1>5. CASE ReadText(t)
  <2>. DEFINE c == [call[t] EXCEPT !.message = Incoming(t).text]
  <2>1. At(t, "read") /\ Receives(t, "text")
    BY <1>5 DEF ReadText, Receives
  <2>2. /\ c \in AnyCall /\ c.conn = call[t].conn /\ c.pc = call[t].pc
        /\ c.asked = call[t].asked
    <3>1. Incoming(t).text \in Text
      BY <2>1, ReceivesTyped DEF AnyMessage
    <3>. QED
      BY <1>0, <3>1 DEF AnyCall
  <2>3. c \in Call /\ c.pc = "read"
    BY <1>0, ZeroIsNone, <2>1, <2>2 DEF Call, InCallback, At
  <2>4. Return(t, c) \/ GoOn(t, c)
    BY <1>5 DEF ReadText
  <2>5. UNCHANGED <<approvals, service, observers>>
    BY <1>5 DEF ReadText
  <2>. QED
    BY <2>1, <2>3, <2>4, <2>5, ReadTyped
<1>6. CASE ReadCompleted(t)
  <2>. DEFINE c == [call[t] EXCEPT !.completed = TRUE]
  <2>1. At(t, "read") /\ Receives(t, "completed")
    BY <1>6 DEF ReadCompleted, Receives
  <2>2. /\ c \in AnyCall /\ c.conn = call[t].conn /\ c.pc = call[t].pc
        /\ c.asked = call[t].asked
    BY <1>0 DEF AnyCall
  <2>3. c \in Call /\ c.pc = "read"
    BY <1>0, ZeroIsNone, <2>1, <2>2 DEF Call, InCallback, At
  <2>4. Return(t, c) \/ GoOn(t, c)
    BY <1>6 DEF ReadCompleted
  <2>5. UNCHANGED <<approvals, service, observers>>
    BY <1>6 DEF ReadCompleted
  <2>. QED
    BY <2>1, <2>3, <2>4, <2>5, ReadTyped
<1>7. CASE ReadApproval(t)
  <2>. DEFINE c == [call[t] EXCEPT !.pc = "ask", !.asked = Incoming(t).request]
  <2>1. At(t, "read") /\ Receives(t, "approval")
    BY <1>7 DEF ReadApproval, Receives
  <2>2. Incoming(t).request \in Requests /\ Incoming(t).request # NoRequest
    <3>1. Incoming(t).kind = "approval"
      BY <2>1 DEF Receives
    <3>. QED
      BY <2>1, <3>1, ReceivesTyped DEF Message, AnyMessage
  <2>3. /\ c \in AnyCall /\ c.pc = "ask" /\ c.conn = call[t].conn
        /\ c.asked = Incoming(t).request
    BY <1>0, <2>2 DEF AnyCall, Pc
  <2>4. c \in Call
    BY <1>0, ZeroIsNone, <2>1, <2>2, <2>3 DEF Call, InCallback, At
  <2>5. call' \in [Turns -> Call]
    BY <1>7, <2>4, UpdateTyped DEF ReadApproval
  <2>6. /\ open' \subseteq Conns /\ wire' \in [Conns -> Seq(Message)]
    BY <2>1, ReceivesTyped
  <2>. QED
    BY <1>7, <2>2, <2>5, <2>6 DEF ReadApproval, TypeOK, context, sessions,
         service, observers
<1>. QED
  BY <1>1, <1>2, <1>3, <1>4, <1>5, <1>6, <1>7 DEF ReadStep

\* The steps of the approval callback keep the types.
LEMMA TypeCallback ==
  ASSUME TypeOK, NEW t \in Turns, CallbackStep(t)
  PROVE  TypeOK'
<1>. DEFINE r == call[t].asked
<1>0. /\ call[t] \in AnyCall
      /\ ~At(t, "idle") => call[t].conn \in Conns
      /\ InCallback(call[t]) <=> call[t].asked # NoRequest
      /\ InCallback(call[t]) => call[t].asked \in Requests
  BY CallFields
<1>1. CASE TakeDecision(t)
  <2>. DEFINE c == [call[t] EXCEPT !.pc = "respond", !.decision = channel[r]]
  <2>1. ~At(t, "idle") /\ InCallback(call[t])
    BY <1>1 DEF TakeDecision, At, InCallback
  <2>2. channel[r] \in Decisions
    BY <1>0, <1>1, <2>1 DEF TakeDecision, HasDecision, TypeOK
  <2>3. /\ c \in AnyCall /\ c.pc = "respond" /\ c.conn = call[t].conn
        /\ c.asked = call[t].asked /\ c.decision # ""
    BY <1>0, <2>2, DecisionAssumption DEF AnyCall, Pc
  <2>4. c \in Call
    BY <1>0, <2>1, <2>3, ZeroIsNone DEF Call, InCallback
  <2>5. call' \in [Turns -> Call]
    BY <1>1, <2>4, UpdateTyped DEF TakeDecision
  <2>6. channel' \in [Requests -> Decisions \cup {""}]
    BY <1>1 DEF TakeDecision, TypeOK
  <2>. QED
    BY <1>1, <2>5, <2>6 DEF TakeDecision, TypeOK, context, sessions, network,
         service, observers
<1>2. CASE GiveUp(t)
  <2>1. ~At(t, "idle") /\ InCallback(call[t])
    BY <1>2 DEF GiveUp, At, InCallback
  <2>2. call' \in [Turns -> Call]
    BY <1>2, <2>1, GotoTyped DEF GiveUp, Pc
  <2>. QED
    BY <1>2, <2>2 DEF GiveUp, TypeOK, context, sessions, approvals, network,
         service, observers
<1>3. CASE Forget(t)
  <2>. DEFINE c == [call[t] EXCEPT !.pc = "respond", !.decision = "cancel"]
  <2>1. ~At(t, "idle") /\ InCallback(call[t])
    BY <1>3 DEF Forget, At, InCallback
  <2>2. /\ c \in AnyCall /\ c.pc = "respond" /\ c.conn = call[t].conn
        /\ c.asked = call[t].asked /\ c.decision = "cancel"
    BY <1>0 DEF AnyCall, Pc
  <2>3. c \in Call
    BY <1>0, <2>1, <2>2, ZeroIsNone DEF Call, InCallback
  <2>4. call' \in [Turns -> Call]
    BY <1>3, <2>3, UpdateTyped DEF Forget
  <2>5. pending' \subseteq Requests
    BY <1>3 DEF Forget, RemovePending, TypeOK
  <2>. QED
    BY <1>3, <2>4, <2>5 DEF Forget, TypeOK, context, sessions, network, service,
         observers
<1>4. CASE Respond(t)
  <2>. DEFINE c == [call[t] EXCEPT !.pc = "read", !.asked = NoRequest, !.decision = ""]
  <2>1. ~At(t, "idle") /\ InCallback(call[t])
    BY <1>4 DEF Respond, At, InCallback
  <2>2. /\ c \in AnyCall /\ c.pc = "read" /\ c.conn = call[t].conn
        /\ c.asked = NoRequest
    BY <1>0 DEF AnyCall, Pc
  <2>3. c \in Call
    BY <1>0, <2>1, <2>2, ZeroIsNone DEF Call, InCallback
  <2>4. call' \in [Turns -> Call]
    BY <1>4, <2>3, UpdateTyped DEF Respond
  <2>5. svc' \in [Turns -> Service]
    <3>1. svc \in [Turns -> Service]
      BY DEF TypeOK
    <3>2. ASSUME NEW u \in Turns
          PROVE  [svc[u] EXCEPT !.waits = NoRequest] \in Service
      BY <3>1 DEF Service
    <3>3. CASE call[t].conn \in open
      BY <1>4, <3>1, <3>2, <3>3 DEF Respond
    <3>4. CASE call[t].conn \notin open
      BY <1>4, <3>1, <3>4 DEF Respond, service
    <3>. QED
      BY <3>3, <3>4
  <2>6. answered' \in [Requests -> {<<>>} \cup ((Decisions \cup {"cancel"}) \X Turns)]
    <3>1. /\ <<call[t].decision, t>> \in (Decisions \cup {"cancel"}) \X Turns
          /\ answered \in [Requests -> {<<>>} \cup ((Decisions \cup {"cancel"}) \X Turns)]
      BY <1>4, CallFields DEF Respond, TypeOK
    <3>2. CASE call[t].conn \in open
      BY <1>4, <3>1, <3>2, Zenon DEF Respond
    <3>3. CASE call[t].conn \notin open
      BY <1>4, <3>1, <3>3 DEF Respond, service
    <3>. QED
      BY <3>2, <3>3
  <2>. QED
    BY <1>4, <2>4, <2>5, <2>6 DEF Respond, TypeOK, context, sessions, approvals,
         network, observers
<1>. QED
  BY <1>1, <1>2, <1>3, <1>4 DEF CallbackStep

\* A fault is counted.
LEMMA FaultsTyped ==
  ASSUME TypeOK
  PROVE  faults \in 0..MaxFaults /\ (Fault => faults' \in 0..MaxFaults)
<1>1. faults \in 0..MaxFaults
  BY DEF TypeOK
<1>. QED
  BY <1>1, BoundsAreNat DEF Fault

\* A message that is sent.
LEMMA EmitTyped ==
  ASSUME TypeOK, NEW t \in Turns, NEW m \in Message, Emit(t, m)
  PROVE  call[t].conn \in Conns /\ wire' \in [Conns -> Seq(Message)]
<1>1. call[t].conn \in Conns /\ wire \in [Conns -> Seq(Message)]
  BY DEF Emit, TypeOK
<1>2. Append(wire[call[t].conn], m) \in Seq(Message)
  BY <1>1
<1>. QED
  BY <1>1, <1>2 DEF Emit

\* The messages of the service, other than requests for an approval.
LEMMA NewMessageTyped ==
  ASSUME NEW kind \in {"response", "refusal", "text", "completed", "error"}
  PROVE  /\ NewMessage(kind) \in Message
         /\ \A id \in Nat : [NewMessage(kind) EXCEPT !.id = id] \in Message
         /\ \A text \in Text : [NewMessage(kind) EXCEPT !.text = text] \in Message
<1>1. NoText \in Text
  BY DEF Text
<1>2. /\ NewMessage(kind) \in AnyMessage /\ NewMessage(kind).request = NoRequest
      /\ NewMessage(kind).kind = kind
  BY <1>1 DEF NewMessage, AnyMessage
<1>3. ASSUME NEW id \in Nat
      PROVE  [NewMessage(kind) EXCEPT !.id = id] \in Message
  BY <1>2 DEF Message, AnyMessage
<1>4. ASSUME NEW text \in Text
      PROVE  [NewMessage(kind) EXCEPT !.text = text] \in Message
  BY <1>2 DEF Message, AnyMessage
<1>. QED
  BY <1>2, <1>3, <1>4 DEF Message

\* A request for an approval is a message.
LEMMA ApprovalTyped ==
  ASSUME NEW r \in Requests
  PROVE  [NewMessage("approval") EXCEPT !.request = r] \in Message
<1>. DEFINE m == [NewMessage("approval") EXCEPT !.request = r]
<1>1. NoText \in Text
  BY DEF Text
<1>2. m \in AnyMessage /\ m.request = r /\ m.kind = "approval"
  BY <1>1 DEF NewMessage, AnyMessage
<1>. QED
  BY <1>2, RequestAssumption DEF Message

\* The steps of the service keep the types.
LEMMA TypeService ==
  ASSUME TypeOK, NEW t \in Turns, SvcStep(t)
  PROVE  TypeOK'
<1>. USE BoundsAreNat
<1>0. svc \in [Turns -> Service] /\ svc[t] \in Service
  BY DEF TypeOK
<1>1. ASSUME NEW m \in Message, Emit(t, m), svc' \in [Turns -> Service],
             Fault \/ NoFault
      PROVE  TypeOK'
  <2>1. wire' \in [Conns -> Seq(Message)]
    BY <1>1, EmitTyped
  <2>2. faults' \in 0..MaxFaults
    BY <1>1, FaultsTyped DEF NoFault
  <2>. QED
    BY <1>1, <2>1, <2>2 DEF Emit, TypeOK, context, sessions, approvals
<1>2. CASE SvcRespond(t)
  <2>1. [NewMessage("response") EXCEPT !.id = svc[t].id] \in Message
    BY <1>0, NewMessageTyped DEF Service
  <2>2. [svc[t] EXCEPT !.phase = "working", !.id = 0] \in Service
    BY <1>0 DEF Service
  <2>3. svc' \in [Turns -> Service]
    BY <1>0, <1>2, <2>2 DEF SvcRespond
  <2>. QED
    BY <1>1, <1>2, <2>1, <2>3 DEF SvcRespond
<1>3. CASE SvcRefuse(t)
  <2>1. [NewMessage("refusal") EXCEPT !.id = svc[t].id] \in Message
    BY <1>0, NewMessageTyped DEF Service
  <2>2. [svc[t] EXCEPT !.phase = "refused", !.id = 0] \in Service
    BY <1>0 DEF Service
  <2>3. svc' \in [Turns -> Service]
    BY <1>0, <1>3, <2>2 DEF SvcRefuse
  <2>. QED
    BY <1>1, <1>3, <2>1, <2>3 DEF SvcRefuse
<1>4. CASE SvcText(t)
  <2>1. svc[t].texts \in 0..MaxTexts /\ svc[t].texts < MaxTexts
    BY <1>0, <1>4 DEF SvcText, Service
  <2>2. svc[t].texts + 1 \in 1..MaxTexts /\ svc[t].texts + 1 \in 0..MaxTexts
    BY <2>1
  <2>3. <<t, svc[t].texts + 1>> \in Text
    BY <2>2 DEF Text
  <2>4. [NewMessage("text") EXCEPT !.text = <<t, svc[t].texts + 1>>] \in Message
    BY <2>3, NewMessageTyped
  <2>5. [svc[t] EXCEPT !.texts = @ + 1] \in Service
    BY <1>0, <2>2 DEF Service
  <2>6. svc' \in [Turns -> Service]
    BY <1>0, <1>4, <2>5 DEF SvcText
  <2>. QED
    BY <1>1, <1>4, <2>4, <2>6 DEF SvcText
<1>5. CASE SvcError(t)
  <2>1. NewMessage("error") \in Message
    BY NewMessageTyped
  <2>2. [svc[t] EXCEPT !.erred = TRUE] \in Service
    BY <1>0 DEF Service
  <2>3. svc' \in [Turns -> Service]
    BY <1>0, <1>5, <2>2 DEF SvcError
  <2>. QED
    BY <1>1, <1>5, <2>1, <2>3 DEF SvcError
<1>6. CASE SvcComplete(t)
  <2>1. NewMessage("completed") \in Message
    BY NewMessageTyped
  <2>2. [svc[t] EXCEPT !.phase = "completed"] \in Service
    BY <1>0 DEF Service
  <2>3. svc' \in [Turns -> Service]
    BY <1>0, <1>6, <2>2 DEF SvcComplete
  <2>. QED
    BY <1>1, <1>6, <2>1, <2>3 DEF SvcComplete
<1>7. ASSUME NEW r \in Requests, SvcAsk(t, r)
      PROVE  TypeOK'
  <2>1. [NewMessage("approval") EXCEPT !.request = r] \in Message
    BY ApprovalTyped
  <2>2. [svc[t] EXCEPT !.waits = r] \in Service
    BY <1>0 DEF Service
  <2>3. svc' \in [Turns -> Service]
    BY <1>0, <1>7, <2>2 DEF SvcAsk
  <2>. QED
    BY <1>1, <1>7, <2>1, <2>3 DEF SvcAsk
<1>. QED
  BY <1>2, <1>3, <1>4, <1>5, <1>6, <1>7 DEF SvcStep

\* Every step keeps the types.
LEMMA TypeStep == TypeOK /\ [Next]_vars => TypeOK'
<1> SUFFICES ASSUME TypeOK, [Next]_vars PROVE TypeOK'
  OBVIOUS
<1>. USE BoundsAreNat
<1>1. ASSUME NEW t \in Turns, Release(t) PROVE TypeOK'
  <2>1. ~At(t, "idle") /\ ~InCallback(call[t])
    BY <1>1 DEF Release, At, InCallback
  <2>2. call' \in [Turns -> Call]
    BY <1>1, <2>1, GotoTyped DEF Release, Pc
  <2>3. /\ closed' \in [Conns -> BOOLEAN]
        /\ open' \subseteq Conns /\ wire' \in [Conns -> Seq(Message)]
    BY <1>1, CloseTyped DEF Release
  <2>4. pool' \in 0..MaxConns
    <3>1. pool \in 0..MaxConns
      BY DEF TypeOK
    <3>2. pool' = pool \/ pool' = 0
      BY <1>1 DEF Release
    <3>. QED
      BY <3>1, <3>2
  <2>. QED
    BY <1>1, <2>2, <2>3, <2>4 DEF Release, TypeOK, context, approvals, service,
         observers
<1>2. ASSUME NEW t \in Turns, Cancel(t) PROVE TypeOK'
  <2>1. faults' \in 0..MaxFaults
    BY <1>2, FaultsTyped DEF Cancel
  <2>. QED
    BY <1>2, <2>1 DEF Cancel, TypeOK, sessions, approvals, network, service
<1>3. ASSUME NEW t \in Turns, CloseDue(t) PROVE TypeOK'
  <2>1. /\ closed' \in [Conns -> BOOLEAN]
        /\ open' \subseteq Conns /\ wire' \in [Conns -> Seq(Message)]
    BY <1>3, CloseTyped DEF CloseDue
  <2>. QED
    BY <1>3, <2>1 DEF CloseDue, TypeOK, approvals, service, observers
<1>4. ASSUME NEW k \in Clients, Deliver(k) PROVE TypeOK'
  <2>1. hand[k] \in [request : Requests, decision : Decisions]
    BY <1>4 DEF Deliver, TypeOK
  <2>2. hand[k].request \in Requests /\ hand[k].decision \in Decisions
    BY <2>1
  <2>3. /\ channel' \in [Requests -> Decisions \cup {""}]
        /\ said' \in [Requests -> Decisions \cup {""}]
    BY <1>4, <2>2 DEF Deliver, TypeOK
  <2>4. hand' \in [Clients -> {NoHand} \cup [request : Requests, decision : Decisions]]
    BY <1>4, Zenon DEF Deliver, TypeOK
  <2>. QED
    BY <1>4, <2>3, <2>4 DEF Deliver, TypeOK, context, sessions, network, service
<1>5. ASSUME NEW k \in Clients, NEW r \in Requests, NEW d \in Decisions,
             TakeApproval(k, r, d)
      PROVE  TypeOK'
  <2>1. [request |-> r, decision |-> d] \in [request : Requests, decision : Decisions]
    OBVIOUS
  <2>2. hand' \in [Clients -> {NoHand} \cup [request : Requests, decision : Decisions]]
    BY <1>5, <2>1, Zenon DEF TakeApproval, TypeOK
  <2>. QED
    BY <1>5, <2>2 DEF TakeApproval, TakenOut, TypeOK, context, sessions, network,
         service, observers
<1>6. ASSUME NEW c \in Conns, HangUp(c) PROVE TypeOK'
  <2>1. open' \subseteq Conns /\ wire' \in [Conns -> Seq(Message)]
    BY <1>6, ShutTyped DEF HangUp
  <2>2. faults' \in 0..MaxFaults
    BY <1>6, FaultsTyped DEF HangUp
  <2>. QED
    BY <1>6, <2>1, <2>2 DEF HangUp, TypeOK, context, sessions, approvals, service
<1>7. CASE UNCHANGED vars
  BY <1>7 DEF TypeOK, vars, context, sessions, approvals, network, service, observers
<1>. QED
  BY <1>1, <1>2, <1>3, <1>4, <1>5, <1>6, <1>7, TypeBegin, TypeRead, TypeCallback,
     TypeService DEF Next, TurnStep

\* Every variable has its type; a call that has begun has a connection, and it has a
\* request exactly while it waits for the answer or gives it.
THEOREM Typed == Spec => []TypeOK
BY TypeInit, TypeStep, PTL DEF Spec

-----------------------------------------------------------------------------
(* The life of a request: sent once, read once, asked by one reader, then  *)
(* taken and answered once by a client, or given up.                       *)

\* The request r is on its way to the server, at place i of connection c.
OnWire(r, c, i) == i \in 1..Len(wire[c]) /\ wire[c][i].request = r
Travels(r) == \E c \in Conns : \E i \in Nat : OnWire(r, c, i)
Asked(r) == \E t \in Turns : call[t].asked = r
InHand(r) == \E k \in Clients : hand[k].request = r
\* The service has sent r.
Sent(r) == answered[r] # <<>> \/ \E t \in Turns : svc[t].waits = r
\* No client has answered r, or is about to.
Untouched(r) == ~InHand(r) /\ channel[r] = "" /\ said[r] = ""
Unsent(t) == call[t].pc \in {"idle", "pool", "check", "send"}

\* A turn that is not sent is unknown to the service, and what was not sent is nowhere.
NothingBefore ==
  /\ \A t \in Turns : Unsent(t) => svc[t] = NoService
  /\ \A r \in Requests : ~Sent(r) =>
       ~Travels(r) /\ ~Asked(r) /\ r \notin pending /\ Untouched(r)
\* A request travels once, before everything else.
TravelsOnce ==
  /\ \A r \in Requests, c, d \in Conns : \A i, j \in Nat :
       OnWire(r, c, i) /\ OnWire(r, d, j) => c = d /\ i = j
  /\ \A r \in Requests : Travels(r) =>
       ~Asked(r) /\ r \notin pending /\ Untouched(r) /\ answered[r] = <<>>
OneReader ==
  \A t, u \in Turns : call[t].asked = call[u].asked /\ call[t].asked # NoRequest => t = u
\* One client answers it, if nobody has given it up.
AnsweredOnce ==
  /\ \A r \in pending : Untouched(r)
  /\ \A j, k \in Clients :
       hand[j].request = hand[k].request /\ hand[j].request # NoRequest => j = k
  /\ \A r \in Requests : InHand(r) => channel[r] = "" /\ said[r] = ""
  /\ \A r \in Requests : channel[r] # "" => channel[r] = said[r]
\* The reader goes on with what the client was told, or was cancelled.
ReaderHeeds ==
  \A t \in Turns :
    /\ At(t, "forget") => t \in cancelled
    /\ At(t, "respond") => \/ call[t].decision = said[call[t].asked]
                           \/ call[t].decision = "cancel" /\ t \in cancelled

RequestInv ==
  /\ NothingBefore /\ TravelsOnce /\ OneReader /\ AnsweredOnce /\ ReaderHeeds
  /\ PendingHasReader /\ DecisionIsGiven

\* Steps that leave the requests alone: messages may be read, lost and sent, but not
\* requests, and calls go on outside of the callback.
QuietWire ==
  \A c \in Conns :
    \/ wire'[c] = wire[c]
    \/ wire'[c] = <<>>
    \/ wire[c] # <<>> /\ wire'[c] = Tail(wire[c])
    \/ \E m \in Message : m.request = NoRequest /\ wire'[c] = Append(wire[c], m)
QuietCalls ==
  \A t \in Turns :
    /\ call'[t].asked = call[t].asked
    /\ InCallback(call[t]) => /\ call'[t].pc = call[t].pc
                              /\ call'[t].decision = call[t].decision
    /\ InCallback(call'[t]) => InCallback(call[t])
    /\ Unsent(t)' => Unsent(t)
QuietService ==
  \A t \in Turns : /\ svc'[t].waits = svc[t].waits
                   /\ Unsent(t)' => svc'[t] = svc[t]
Quiet ==
  /\ QuietWire /\ QuietCalls /\ QuietService
  /\ UNCHANGED <<pending, channel, hand, answered, said>>
  /\ cancelled \subseteq cancelled'

\* What is on the wire afterwards was there before, at the same place or the next.
LEMMA WireMoves ==
  ASSUME TypeOK, QuietWire, NEW c \in Conns
  PROVE  \E k \in {0, 1} : \A r \in Requests, i \in Nat :
           OnWire(r, c, i)' => OnWire(r, c, i + k)
<1>1. wire[c] \in Seq(Message) /\ Len(wire[c]) \in Nat
  <2>1. wire[c] \in Seq(Message)
    BY DEF TypeOK
  <2>. QED
    BY <2>1
<1>2. CASE wire'[c] = wire[c]
  <2>1. \A r \in Requests, i \in Nat : OnWire(r, c, i)' => OnWire(r, c, i + 0)
    BY <1>2 DEF OnWire
  <2>. QED
    BY <2>1
<1>3. CASE wire'[c] = <<>>
  <2>1. \A r \in Requests, i \in Nat : ~OnWire(r, c, i)'
    BY <1>3 DEF OnWire
  <2>. QED
    BY <2>1
<1>4. CASE wire[c] # <<>> /\ wire'[c] = Tail(wire[c])
  <2>1. /\ Len(wire'[c]) = Len(wire[c]) - 1
        /\ \A i \in 1..Len(wire'[c]) : wire'[c][i] = wire[c][i + 1]
    BY <1>1, <1>4
  <2>2. \A r \in Requests, i \in Nat : OnWire(r, c, i)' => OnWire(r, c, i + 1)
    BY <1>1, <2>1 DEF OnWire
  <2>. QED
    BY <2>2
<1>5. ASSUME NEW m \in Message, m.request = NoRequest, wire'[c] = Append(wire[c], m)
      PROVE  \A r \in Requests, i \in Nat : OnWire(r, c, i)' => OnWire(r, c, i + 0)
  <2>1. /\ Len(wire'[c]) = Len(wire[c]) + 1
        /\ wire'[c][Len(wire[c]) + 1] = m
        /\ \A i \in 1..Len(wire[c]) : wire'[c][i] = wire[c][i]
    BY <1>1, <1>5
  <2> SUFFICES ASSUME NEW r \in Requests, NEW i \in Nat, OnWire(r, c, i)'
               PROVE  OnWire(r, c, i)
    OBVIOUS
  <2>2. i # Len(wire[c]) + 1
    BY <1>5, <2>1, RequestAssumption DEF OnWire
  <2>. QED
    BY <1>1, <2>1, <2>2 DEF OnWire
<1>. QED
  BY <1>2, <1>3, <1>4, <1>5 DEF QuietWire

\* If no request is put on a wire, what travels travelled before, and once.
LEMMA WireKeeps ==
  ASSUME TypeOK, QuietWire, TravelsOnce
  PROVE  /\ \A r \in Requests : Travels(r)' => Travels(r)
         /\ \A r \in Requests, c, d \in Conns : \A i, j \in Nat :
              OnWire(r, c, i)' /\ OnWire(r, d, j)' => c = d /\ i = j
<1>1. ASSUME NEW r \in Requests, Travels(r)' PROVE Travels(r)
  <2>1. PICK c \in Conns, i \in Nat : OnWire(r, c, i)'
    BY <1>1 DEF Travels
  <2>2. PICK k \in {0, 1} : OnWire(r, c, i + k)
    BY <2>1, WireMoves
  <2>. QED
    BY <2>2 DEF Travels
<1>2. ASSUME NEW r \in Requests, NEW c \in Conns, NEW d \in Conns, NEW i \in Nat,
             NEW j \in Nat, OnWire(r, c, i)', OnWire(r, d, j)'
      PROVE  c = d /\ i = j
  <2>1. PICK k \in {0, 1} : \A q \in Requests, n \in Nat :
          OnWire(q, c, n)' => OnWire(q, c, n + k)
    BY WireMoves
  <2>2. PICK l \in {0, 1} : OnWire(r, d, j + l)
    BY <1>2, WireMoves
  <2>3. OnWire(r, c, i + k)
    BY <1>2, <2>1
  <2>4. c = d
    BY <2>2, <2>3 DEF TravelsOnce
  <2>5. OnWire(r, c, j + k)
    BY <1>2, <2>1, <2>4
  <2>6. i + k = j + k
    BY <2>3, <2>5 DEF TravelsOnce
  <2>. QED
    BY <2>4, <2>6
<1>. QED
  BY <1>1, <1>2

\* A step that leaves the requests alone keeps the invariant about them.
LEMMA QuietStep ==
  ASSUME TypeOK, RequestInv, Quiet
  PROVE  RequestInv'
<1>1. /\ \A r \in Requests : Travels(r)' => Travels(r)
      /\ \A r \in Requests, c, d \in Conns : \A i, j \in Nat :
           OnWire(r, c, i)' /\ OnWire(r, d, j)' => c = d /\ i = j
  BY WireKeeps DEF RequestInv, Quiet
<1>2. \A r \in Requests : /\ Asked(r)' <=> Asked(r)
                          /\ Sent(r)' <=> Sent(r)
                          /\ InHand(r)' <=> InHand(r)
                          /\ Untouched(r)' <=> Untouched(r)
  BY DEF Quiet, QuietCalls, QuietService, Asked, Sent, InHand, Untouched
<1>3. NothingBefore'
  BY <1>1, <1>2 DEF RequestInv, NothingBefore, Quiet, QuietCalls, QuietService
<1>4. TravelsOnce'
  BY <1>1, <1>2 DEF RequestInv, TravelsOnce, Quiet
<1>5. OneReader'
  BY DEF RequestInv, OneReader, Quiet, QuietCalls
<1>6. AnsweredOnce'
  <2>1. pending \subseteq Requests
    BY DEF TypeOK
  <2>. QED
    BY <1>2, <2>1 DEF RequestInv, AnsweredOnce, Quiet
<1>7. ReaderHeeds'
  BY DEF RequestInv, ReaderHeeds, Quiet, QuietCalls, At, InCallback
<1>8. PendingHasReader'
  BY DEF RequestInv, PendingHasReader, Quiet, QuietCalls, InCallback
<1>9. DecisionIsGiven'
  BY DEF RequestInv, DecisionIsGiven, Quiet
<1>. QED
  BY <1>3, <1>4, <1>5, <1>6, <1>7, <1>8, <1>9 DEF RequestInv

\* A turn outside of its callback that stays outside leaves the requests alone.
LEMMA UpdateQuiet ==
  ASSUME TypeOK, NEW t \in Turns, NEW c, Update(t, c), c.asked = NoRequest,
         ~InCallback(call[t]), ~InCallback(c),
         c.pc \in {"idle", "pool", "check", "send"} => Unsent(t)
  PROVE  QuietCalls
<1>1. call[t].asked = NoRequest
  BY CallFields
<1>2. \A u \in Turns : call'[u] = IF u = t THEN c ELSE call[u]
  BY DEF Update, TypeOK
<1>. QED
  BY <1>1, <1>2 DEF QuietCalls, Unsent

\* So does one that only goes on to its next step.
LEMMA GotoQuiet ==
  ASSUME TypeOK, NEW t \in Turns, NEW p \in Pc, Goto(t, p), ~InCallback(call[t]),
         p \notin {"ask", "forget", "respond"},
         p \in {"idle", "pool", "check", "send"} => Unsent(t)
  PROVE  QuietCalls
<1>. DEFINE c == [call[t] EXCEPT !.pc = p]
<1>1. call[t] \in AnyCall /\ call[t].asked = NoRequest
  BY CallFields
<1>2. c.pc = p /\ c.asked = NoRequest
  BY <1>1 DEF AnyCall
<1>3. ~InCallback(c)
  BY <1>2 DEF InCallback
<1>4. Update(t, c)
  BY DEF Goto
<1>. HIDE DEF c
<1>. QED
  BY <1>2, <1>3, <1>4, UpdateQuiet

\* So does one that fails (markClosed and the error of the turn).
LEMMA FailQuiet ==
  ASSUME TypeOK, NEW t \in Turns, Fail(t), ~InCallback(call[t])
  PROVE  QuietCalls /\ cancelled' = cancelled
<1>. DEFINE c == [call[t] EXCEPT !.pc = "release", !.rpc = 0,
                    !.result = IF t \in cancelled THEN "cancelled" ELSE "failed"]
<1>1. call[t] \in AnyCall /\ call[t].asked = NoRequest
  BY CallFields
<1>2. c.pc = "release" /\ c.asked = NoRequest
  BY <1>1 DEF AnyCall
<1>3. ~InCallback(c)
  BY <1>2 DEF InCallback
<1>4. Update(t, c) /\ cancelled' = cancelled
  BY DEF Fail
<1>. HIDE DEF c
<1>. QED
  BY <1>2, <1>3, <1>4, UpdateQuiet

\* Shutting sockets drops what is on them and puts nothing there.
LEMMA ShutQuiet == ASSUME NEW C, Shut(C) PROVE QuietWire
BY DEF Shut, QuietWire

\* Receiving takes a message off the wire and puts nothing there.
LEMMA ReceivesQuiet ==
  ASSUME TypeOK, NEW t \in Turns, NEW kind, Receives(t, kind)
  PROVE  QuietWire
BY ReceivesTyped DEF Receives, QuietWire, TypeOK

\* The service speaks without asking: no request is put on the wire.
LEMMA EmitQuiet ==
  ASSUME TypeOK, NEW t \in Turns, NEW m \in Message, m.request = NoRequest, Emit(t, m)
  PROVE  QuietWire
BY EmitTyped DEF Emit, QuietWire, TypeOK

-----------------------------------------------------------------------------
(* The steps of the calls that leave the requests alone.                   *)

\* The steps up to turn/start leave the requests alone.
LEMMA QuietBegin ==
  ASSUME TypeOK, RequestInv, NEW t \in Turns, Begin(t)
  PROVE  Quiet
<1>0. call[t] \in AnyCall
  BY CallFields
<1>1. CASE Reuse(t)
  <2>. DEFINE c == [call[t] EXCEPT !.pc = "check", !.conn = pool]
  <2>1. ~InCallback(call[t]) /\ Unsent(t) /\ call[t].asked = NoRequest
    BY <1>1, CallFields DEF Reuse, At, InCallback, Unsent
  <2>2. c.asked = NoRequest /\ ~InCallback(c)
    BY <1>0, <2>1 DEF AnyCall, InCallback
  <2>3. Update(t, c)
    BY <1>1 DEF Reuse
  <2>4. QuietCalls
    BY <2>1, <2>2, <2>3, UpdateQuiet
  <2>. QED
    BY <1>1, <2>4 DEF Reuse, Quiet, QuietWire, QuietService, context, approvals,
         network, service, observers
<1>2. CASE OpenSession(t)
  <2>. DEFINE c == [call[t] EXCEPT !.pc = "pool", !.conn = conns']
  <2>1. ~InCallback(call[t]) /\ Unsent(t) /\ call[t].asked = NoRequest
    BY <1>2, CallFields DEF OpenSession, At, InCallback, Unsent
  <2>2. c.asked = NoRequest /\ ~InCallback(c)
    BY <1>0, <2>1 DEF AnyCall, InCallback
  <2>3. Update(t, c)
    BY <1>2 DEF OpenSession
  <2>4. QuietCalls
    BY <2>1, <2>2, <2>3, UpdateQuiet
  <2>. QED
    BY <1>2, <2>4 DEF OpenSession, Quiet, QuietWire, QuietService, context, approvals,
         service, observers
<1>3. CASE PoolSession(t)
  <2>1. ~InCallback(call[t]) /\ Unsent(t)
    BY <1>3 DEF PoolSession, At, InCallback, Unsent
  <2>2. QuietCalls
    BY <1>3, <2>1, GotoQuiet DEF PoolSession, Pc
  <2>. QED
    BY <1>3, <2>2, ShutQuiet DEF PoolSession, Close, Quiet, QuietService, context,
         approvals, service, observers
<1>4. CASE DialPrivate(t)
  <2>. DEFINE c == [call[t] EXCEPT !.pc = "send", !.private = TRUE, !.conn = conns',
                      !.rpc = 3]
  <2>1. ~InCallback(call[t]) /\ Unsent(t) /\ call[t].asked = NoRequest
    BY <1>4, CallFields DEF DialPrivate, At, InCallback, Unsent
  <2>2. c.asked = NoRequest /\ ~InCallback(c)
    BY <1>0, <2>1 DEF AnyCall, InCallback
  <2>3. Update(t, c)
    BY <1>4 DEF DialPrivate
  <2>4. QuietCalls
    BY <2>1, <2>2, <2>3, UpdateQuiet
  <2>. QED
    BY <1>4, <2>4 DEF DialPrivate, Quiet, QuietWire, QuietService, approvals,
         service, observers
<1>5. CASE RefuseClosed(t)
  <2>. DEFINE c == [call[t] EXCEPT !.pc = "release", !.result = "failed"]
  <2>1. ~InCallback(call[t]) /\ Unsent(t) /\ call[t].asked = NoRequest
    BY <1>5, CallFields DEF RefuseClosed, At, InCallback, Unsent
  <2>2. c.asked = NoRequest /\ ~InCallback(c)
    BY <1>0, <2>1 DEF AnyCall, InCallback
  <2>3. Update(t, c)
    BY <1>5 DEF RefuseClosed
  <2>4. QuietCalls
    BY <2>1, <2>2, <2>3, UpdateQuiet
  <2>. QED
    BY <1>5, <2>4 DEF RefuseClosed, Quiet, QuietWire, QuietService, context, approvals,
         network, service, observers
<1>6. CASE AllocID(t)
  <2>1. ~InCallback(call[t]) /\ Unsent(t) /\ call[t].asked = NoRequest
    BY <1>6, CallFields DEF AllocID, At, InCallback, Unsent
  <2>2. PICK id : Update(t, [call[t] EXCEPT !.pc = "send", !.rpc = id])
    BY <1>6 DEF AllocID
  <2>. DEFINE c == [call[t] EXCEPT !.pc = "send", !.rpc = id]
  <2>3. c.asked = NoRequest /\ ~InCallback(c)
    BY <1>0, <2>1 DEF AnyCall, InCallback
  <2>4. QuietCalls
    BY <2>1, <2>2, <2>3, UpdateQuiet
  <2>. QED
    BY <1>6, <2>4 DEF AllocID, Quiet, QuietWire, QuietService, context, approvals,
         network, service
<1>7. CASE SendStart(t)
  <2>1. ~InCallback(call[t]) /\ Unsent(t)
    BY <1>7 DEF SendStart, At, InCallback, Unsent
  <2>2. QuietCalls
    BY <1>7, <2>1, GotoQuiet DEF SendStart, Pc
  <2>3. svc[t] = NoService
    BY <2>1 DEF RequestInv, NothingBefore
  <2>4. ~Unsent(t)' /\ svc'[t].waits = NoRequest
    <3>1. call'[t].pc = "read"
      BY <1>0, <1>7 DEF SendStart, Goto, Update, TypeOK, AnyCall
    <3>2. svc'[t] = [NoService EXCEPT !.phase = "asked", !.id = call[t].rpc]
      BY <1>7 DEF SendStart, TypeOK
    <3>. QED
      BY <3>1, <3>2 DEF Unsent, NoService
  <2>5. \A u \in Turns : u # t => svc'[u] = svc[u]
    BY <1>7 DEF SendStart, TypeOK
  <2>6. QuietService
    BY <2>3, <2>4, <2>5 DEF QuietService, NoService
  <2>. QED
    BY <1>7, <2>2, <2>6 DEF SendStart, Quiet, QuietWire, approvals, network, observers
<1>8. CASE SendFails(t)
  <2>1. ~InCallback(call[t])
    BY <1>8 DEF SendFails, At, InCallback
  <2>2. QuietCalls /\ cancelled' = cancelled
    BY <1>8, <2>1, FailQuiet DEF SendFails
  <2>. QED
    BY <1>8, <2>2 DEF SendFails, Quiet, QuietWire, QuietService, approvals, network,
         service, observers
<1>. QED
  BY <1>1, <1>2, <1>3, <1>4, <1>5, <1>6, <1>7, <1>8 DEF Begin

\* A reader that takes anything but a request.
LEMMA QuietRead ==
  ASSUME TypeOK, NEW t \in Turns, ReadStep(t), ~ReadApproval(t)
  PROVE  Quiet
<1>0. call[t] \in AnyCall
  BY CallFields
<1>1. ASSUME NEW kind, Receives(t, kind), NEW c, c.asked = NoRequest, c.pc = "read",
             Return(t, c) \/ GoOn(t, c), UNCHANGED <<approvals, service, observers>>
      PROVE  Quiet
  <2>1. ~InCallback(call[t]) /\ ~InCallback(c)
    BY <1>1 DEF Receives, At, InCallback
  <2>2. QuietCalls /\ cancelled' = cancelled
    <3>1. CASE GoOn(t, c)
      BY <1>1, <2>1, <3>1, UpdateQuiet DEF GoOn, context
    <3>2. CASE Return(t, c) /\ c.message = NoText
      BY <2>1, <3>2, FailQuiet DEF Return
    <3>3. CASE Return(t, c) /\ c.message # NoText
      <4>. DEFINE d == [c EXCEPT !.pc = IF call[t].private THEN "release" ELSE "done",
                                 !.rpc = 0, !.result = "ok"]
      <4>1. d.asked = NoRequest /\ d.pc \in {"release", "done"}
        BY <1>1
      <4>2. Update(t, d) /\ cancelled' = cancelled
        BY <3>3 DEF Return
      <4>3. ~InCallback(d)
        BY <4>1 DEF InCallback
      <4>. HIDE DEF d
      <4>. QED
        BY <2>1, <4>1, <4>2, <4>3, UpdateQuiet
    <3>. QED
      BY <1>1, <3>1, <3>2, <3>3
  <2>3. QuietWire
    BY <1>1, ReceivesQuiet
  <2>. QED
    BY <1>1, <2>2, <2>3 DEF Quiet, QuietService, approvals, service, observers
<1>2. At(t, "read") => call[t].asked = NoRequest
  BY CallFields DEF At, InCallback
<1>3. CASE ReadResponse(t)
  <2>. DEFINE c == [call[t] EXCEPT !.seen = TRUE]
  <2>1. /\ c.asked = NoRequest /\ c.pc = "read" /\ GoOn(t, c) /\ Receives(t, "response")
        /\ UNCHANGED <<approvals, service, observers>>
    BY <1>0, <1>2, <1>3 DEF ReadResponse, Receives, GoOn, At, AnyCall
  <2>. HIDE DEF c
  <2>. QED
    BY <1>1, <2>1
<1>4. CASE ReadForeign(t)
  <2>1. PICK kind \in {"response", "refusal"} : Receives(t, kind)
    BY <1>4 DEF ReadForeign
  <2>2. /\ call[t].asked = NoRequest /\ call[t].pc = "read"
        /\ GoOn(t, call[t]) \/ Return(t, call[t])
        /\ UNCHANGED <<approvals, service, observers>>
    BY <1>2, <1>4, <2>1 DEF ReadForeign, Receives, At
  <2>. QED
    BY <1>1, <2>1, <2>2
<1>5. CASE ReadFailure(t)
  <2>1. ~InCallback(call[t]) /\ QuietWire
    BY <1>5, ReceivesQuiet DEF ReadFailure, Receives, At, InCallback
  <2>2. QuietCalls /\ cancelled' = cancelled
    BY <1>5, <2>1, FailQuiet DEF ReadFailure
  <2>. QED
    BY <1>5, <2>1, <2>2 DEF ReadFailure, Quiet, QuietService, approvals, service,
         observers
<1>6. CASE ReadFails(t)
  <2>1. ~InCallback(call[t])
    BY <1>6 DEF ReadFails, At, InCallback
  <2>2. QuietCalls /\ cancelled' = cancelled
    BY <1>6, <2>1, FailQuiet DEF ReadFails
  <2>. QED
    BY <1>6, <2>2 DEF ReadFails, Quiet, QuietWire, QuietService, approvals, network,
         service, observers
<1>7. CASE ReadText(t)
  <2>. DEFINE c == [call[t] EXCEPT !.message = Incoming(t).text]
  <2>1. /\ c.asked = NoRequest /\ c.pc = "read" /\ (GoOn(t, c) \/ Return(t, c))
        /\ Receives(t, "text") /\ UNCHANGED <<approvals, service, observers>>
    BY <1>0, <1>2, <1>7 DEF ReadText, Receives, At, AnyCall
  <2>. HIDE DEF c
  <2>. QED
    BY <1>1, <2>1
<1>8. CASE ReadCompleted(t)
  <2>. DEFINE c == [call[t] EXCEPT !.completed = TRUE]
  <2>1. /\ c.asked = NoRequest /\ c.pc = "read" /\ (GoOn(t, c) \/ Return(t, c))
        /\ Receives(t, "completed") /\ UNCHANGED <<approvals, service, observers>>
    BY <1>0, <1>2, <1>8 DEF ReadCompleted, Receives, At, AnyCall
  <2>. HIDE DEF c
  <2>. QED
    BY <1>1, <2>1
<1>. QED
  BY <1>3, <1>4, <1>5, <1>6, <1>7, <1>8 DEF ReadStep

-----------------------------------------------------------------------------
(* The steps that move a request.                                          *)

\* A request that is read is nowhere on the wire.
LEMMA ApprovalRead ==
  ASSUME TypeOK, TravelsOnce, NEW t \in Turns, Receives(t, "approval"),
         NEW r, r = Incoming(t).request
  PROVE  r \in Requests /\ Travels(r) /\ ~Travels(r)'
<1> SUFFICES ASSUME NEW d, d = call[t].conn
             PROVE  r \in Requests /\ Travels(r) /\ ~Travels(r)'
  OBVIOUS
<1>1. /\ d \in Conns /\ wire[d] \in Seq(Message) /\ wire[d] # <<>>
      /\ wire \in [Conns -> Seq(Message)] /\ wire' = [wire EXCEPT ![d] = Tail(@)]
  BY DEF Receives, TypeOK
<1>2. r \in Requests
  <2>1. Incoming(t).kind = "approval"
    BY DEF Receives
  <2>. QED
    BY <2>1, ReceivesTyped DEF Message, AnyMessage
<1>3. OnWire(r, d, 1)
  BY <1>1 DEF OnWire, Incoming
<1>4. ASSUME NEW c \in Conns, NEW i \in Nat, OnWire(r, c, i)'
      PROVE  FALSE
  <2>1. CASE c = d
    <3>1. /\ Len(wire'[d]) = Len(wire[d]) - 1 /\ Len(wire[d]) \in Nat
          /\ \A n \in 1..Len(wire'[d]) : wire'[d][n] = wire[d][n + 1]
      BY <1>1
    <3>2. OnWire(r, d, i + 1)
      BY <1>4, <2>1, <3>1 DEF OnWire
    <3>3. i + 1 = 1
      BY <1>1, <1>2, <1>3, <3>2 DEF TravelsOnce
    <3>. QED
      BY <1>4, <3>3 DEF OnWire
  <2>2. CASE c # d
    <3>1. wire'[c] = wire[c]
      BY <1>1, <2>2
    <3>2. OnWire(r, c, i)
      BY <1>4, <3>1 DEF OnWire
    <3>. QED
      BY <1>1, <1>2, <1>3, <2>2, <3>2 DEF TravelsOnce
  <2>. QED
    BY <2>1, <2>2
<1>. QED
  BY <1>1, <1>2, <1>3, <1>4 DEF Travels

\* handleAppServerApprovalRequest: the request leaves the wire and has its one reader.
LEMMA InvReadApproval ==
  ASSUME TypeOK, RequestInv, NEW t \in Turns, ReadApproval(t)
  PROVE  RequestInv'
<1> SUFFICES ASSUME NEW r, r = Incoming(t).request
             PROVE  RequestInv'
  OBVIOUS
<1>1. /\ Receives(t, "approval") /\ At(t, "read") /\ pending' = pending \cup {r}
      /\ UNCHANGED <<context, sessions, channel, hand, service, observers>>
  BY DEF ReadApproval, Receives
<1>2. /\ r \in Requests /\ Travels(r) /\ ~Travels(r)'
      /\ \A q \in Requests : Travels(q)' => Travels(q)
      /\ \A q \in Requests, c, d \in Conns : \A i, j \in Nat :
           OnWire(q, c, i)' /\ OnWire(q, d, j)' => c = d /\ i = j
  BY <1>1, ApprovalRead, ReceivesQuiet, WireKeeps DEF RequestInv
<1>3. ~Asked(r) /\ r \notin pending /\ Untouched(r) /\ answered[r] = <<>> /\ Sent(r)
  BY <1>2 DEF RequestInv, TravelsOnce, NothingBefore
<1>4. /\ call'[t].asked = r /\ call'[t].pc = "ask"
      /\ \A u \in Turns : u # t => call'[u] = call[u]
  <2>1. call[t] \in AnyCall
    BY CallFields
  <2>. QED
    BY <2>1 DEF ReadApproval, Update, TypeOK, AnyCall
<1>5. call[t].asked = NoRequest /\ r # NoRequest
  BY <1>1, <1>2, CallFields, RequestAssumption DEF At, InCallback
<1>6. /\ \A q \in Requests : /\ q # r => (Asked(q)' <=> Asked(q))
                             /\ Sent(q)' <=> Sent(q)
                             /\ InHand(q)' <=> InHand(q)
                             /\ Untouched(q)' <=> Untouched(q)
      /\ pending \subseteq Requests
  <2>1. \A q \in Requests : q # r => (Asked(q)' <=> Asked(q))
    BY <1>4, <1>5, RequestAssumption DEF Asked
  <2>2. \A q \in Requests : /\ Sent(q)' <=> Sent(q)
                            /\ InHand(q)' <=> InHand(q)
                            /\ Untouched(q)' <=> Untouched(q)
    BY <1>1 DEF Sent, InHand, Untouched, service, observers
  <2>3. pending \subseteq Requests
    BY DEF TypeOK
  <2>. QED
    BY <2>1, <2>2, <2>3
<1>7. NothingBefore'
  BY <1>1, <1>2, <1>3, <1>4, <1>6 DEF RequestInv, NothingBefore, Unsent, service
<1>8. TravelsOnce'
  BY <1>1, <1>2, <1>6 DEF RequestInv, TravelsOnce, service
<1>9. OneReader'
  BY <1>3, <1>4 DEF RequestInv, OneReader, Asked
<1>10. AnsweredOnce'
  BY <1>1, <1>2, <1>3, <1>6 DEF RequestInv, AnsweredOnce, observers
<1>11. ReaderHeeds'
  BY <1>1, <1>4 DEF RequestInv, ReaderHeeds, At, observers, context
<1>12. PendingHasReader'
  BY <1>1, <1>4 DEF RequestInv, PendingHasReader, At
<1>13. DecisionIsGiven'
  BY <1>1 DEF RequestInv, DecisionIsGiven, service, observers, context
<1>. QED
  BY <1>7, <1>8, <1>9, <1>10, <1>11, <1>12, <1>13 DEF RequestInv

\* What a step in the callback leaves of the wire, the service and the readers.
LEMMA CallbackKeeps ==
  ASSUME TypeOK, RequestInv, NEW t \in Turns, InCallback(call[t]),
         wire' = wire, UNCHANGED <<svc, answered, said, cancelled>>,
         \A u \in Turns : u # t => call'[u] = call[u],
         call'[t].asked = call[t].asked, InCallback(call'[t]),
         \A r \in Requests : Untouched(r) => Untouched(r)',
         pending' \subseteq pending
  PROVE  NothingBefore' /\ TravelsOnce' /\ OneReader' /\ DecisionIsGiven'
<1>1. \A r \in Requests : /\ Asked(r)' <=> Asked(r)
                          /\ Sent(r)' <=> Sent(r)
                          /\ Travels(r)' <=> Travels(r)
  BY DEF Asked, Sent, Travels, OnWire
<1>2. NothingBefore'
  BY <1>1 DEF RequestInv, NothingBefore, Unsent, InCallback
<1>3. TravelsOnce'
  BY <1>1 DEF RequestInv, TravelsOnce, OnWire
<1>4. OneReader'
  BY DEF RequestInv, OneReader
<1>5. DecisionIsGiven'
  BY DEF RequestInv, DecisionIsGiven
<1>. QED
  BY <1>2, <1>3, <1>4, <1>5

\* The select's first case: the decision leaves the channel for the reader.
LEMMA InvTakeDecision ==
  ASSUME TypeOK, RequestInv, NEW t \in Turns, TakeDecision(t)
  PROVE  RequestInv'
<1>. DEFINE r == call[t].asked
<1>1. /\ InCallback(call[t]) /\ r \in Requests /\ channel[r] # ""
      /\ channel' = [channel EXCEPT ![r] = ""]
      /\ UNCHANGED <<context, sessions, pending, hand, network, service, observers>>
  BY CallFields DEF TakeDecision, HasDecision, At, InCallback
<1>2. /\ call'[t].asked = r /\ call'[t].pc = "respond"
      /\ call'[t].decision = channel[r] /\ InCallback(call'[t])
      /\ \A u \in Turns : u # t => call'[u] = call[u]
  <2>1. call[t] \in AnyCall
    BY CallFields
  <2>. QED
    BY <2>1 DEF TakeDecision, Update, TypeOK, AnyCall, InCallback
<1>3. channel \in [Requests -> Decisions \cup {""}]
  BY DEF TypeOK
<1>4. \A q \in Requests : Untouched(q) => Untouched(q)'
  BY <1>1, <1>3 DEF Untouched, InHand, observers
<1>5. NothingBefore' /\ TravelsOnce' /\ OneReader' /\ DecisionIsGiven'
  BY <1>1, <1>2, <1>4, CallbackKeeps DEF network, service, observers, context
<1>6. channel[r] = said[r] /\ ~Untouched(r) /\ r \notin pending
  BY <1>1 DEF RequestInv, AnsweredOnce, Untouched
<1>7. AnsweredOnce'
  <2>1. \A q \in Requests : InHand(q)' <=> InHand(q)
    BY <1>1 DEF InHand
  <2>2. pending \subseteq Requests
    BY DEF TypeOK
  <2>. QED
    BY <1>1, <1>3, <1>4, <2>1, <2>2 DEF RequestInv, AnsweredOnce, observers
<1>8. ReaderHeeds'
  BY <1>1, <1>2, <1>6 DEF RequestInv, ReaderHeeds, At, observers, context
<1>9. PendingHasReader'
  <2>1. ASSUME NEW q \in pending PROVE \E u \in Turns : /\ call'[u].asked = q
                                                        /\ call'[u].pc \in {"ask", "forget"}
    <3>1. PICK u \in Turns : call[u].asked = q /\ call[u].pc \in {"ask", "forget"}
      BY DEF RequestInv, PendingHasReader
    <3>2. u # t
      BY <1>6, <3>1
    <3>. QED
      BY <1>2, <3>1, <3>2
  <2>. QED
    BY <1>1, <2>1 DEF PendingHasReader
<1>. QED
  BY <1>5, <1>7, <1>8, <1>9 DEF RequestInv

\* The select's second case: the context is done, the reader goes to its removal.
LEMMA InvGiveUp ==
  ASSUME TypeOK, RequestInv, NEW t \in Turns, GiveUp(t)
  PROVE  RequestInv'
<1>1. /\ InCallback(call[t]) /\ t \in cancelled
      /\ UNCHANGED <<context, sessions, approvals, network, service, observers>>
  BY DEF GiveUp, ContextDone, At, InCallback
<1>2. /\ call'[t].asked = call[t].asked /\ call'[t].pc = "forget"
      /\ InCallback(call'[t])
      /\ \A u \in Turns : u # t => call'[u] = call[u]
  <2>1. call[t] \in AnyCall
    BY CallFields
  <2>. QED
    BY <2>1 DEF GiveUp, Goto, Update, TypeOK, AnyCall, InCallback
<1>3. /\ \A q \in Requests : Untouched(q)' <=> Untouched(q)
      /\ \A q \in Requests : InHand(q)' <=> InHand(q)
      /\ pending \subseteq Requests
  BY <1>1 DEF Untouched, InHand, observers, approvals, TypeOK
<1>4. NothingBefore' /\ TravelsOnce' /\ OneReader' /\ DecisionIsGiven'
  BY <1>1, <1>2, <1>3, CallbackKeeps DEF network, service, observers, context, approvals
<1>5. AnsweredOnce'
  BY <1>1, <1>3 DEF RequestInv, AnsweredOnce, observers, approvals
<1>6. ReaderHeeds'
  BY <1>1, <1>2 DEF RequestInv, ReaderHeeds, At, observers, context
<1>7. PendingHasReader'
  BY <1>1, <1>2 DEF RequestInv, PendingHasReader, approvals
<1>. QED
  BY <1>4, <1>5, <1>6, <1>7 DEF RequestInv

\* removePendingAppServerApproval: the request cannot be answered any more.
LEMMA InvForget ==
  ASSUME TypeOK, RequestInv, NEW t \in Turns, Forget(t)
  PROVE  RequestInv'
<1>. DEFINE r == call[t].asked
<1>1. /\ InCallback(call[t]) /\ r \in Requests /\ pending' = pending \ {r}
      /\ UNCHANGED <<context, sessions, channel, hand, network, service, observers>>
  BY CallFields DEF Forget, RemovePending, At, InCallback
<1>2. /\ call'[t].asked = r /\ call'[t].pc = "respond"
      /\ call'[t].decision = "cancel" /\ InCallback(call'[t])
      /\ \A u \in Turns : u # t => call'[u] = call[u]
  <2>1. call[t] \in AnyCall
    BY CallFields
  <2>. QED
    BY <2>1 DEF Forget, Update, TypeOK, AnyCall, InCallback
<1>3. /\ \A q \in Requests : Untouched(q)' <=> Untouched(q)
      /\ \A q \in Requests : InHand(q)' <=> InHand(q)
      /\ pending \subseteq Requests
  BY <1>1 DEF Untouched, InHand, observers, TypeOK
<1>4. NothingBefore' /\ TravelsOnce' /\ OneReader' /\ DecisionIsGiven'
  BY <1>1, <1>2, <1>3, CallbackKeeps DEF network, service, observers, context
<1>5. AnsweredOnce'
  BY <1>1, <1>3 DEF RequestInv, AnsweredOnce, observers
<1>6. ReaderHeeds'
  <2>1. t \in cancelled
    BY DEF Forget, RequestInv, ReaderHeeds
  <2>. QED
    BY <1>1, <1>2, <2>1 DEF RequestInv, ReaderHeeds, At, observers, context
<1>7. PendingHasReader'
  BY <1>1, <1>2 DEF RequestInv, PendingHasReader
<1>. QED
  BY <1>4, <1>5, <1>6, <1>7 DEF RequestInv

\* The callback's answer reaches the service, and the request is over.
LEMMA InvRespond ==
  ASSUME TypeOK, RequestInv, NEW t \in Turns, Respond(t)
  PROVE  RequestInv'
<1> SUFFICES ASSUME NEW r, r = call[t].asked
             PROVE  RequestInv'
  OBVIOUS
<1>1. /\ InCallback(call[t]) /\ At(t, "respond") /\ r \in Requests /\ r # NoRequest
      /\ UNCHANGED <<context, sessions, approvals, network, observers>>
  BY CallFields, RequestAssumption DEF Respond, At, InCallback
<1>2. /\ call'[t].asked = NoRequest /\ call'[t].pc = "read"
      /\ \A u \in Turns : u # t => call'[u] = call[u]
  <2>1. call[t] \in AnyCall
    BY CallFields
  <2>. QED
    BY <2>1 DEF Respond, Update, TypeOK, AnyCall
<1>3. /\ \A u \in Turns : svc[u].waits # r => svc'[u] = svc[u]
      /\ \A q \in Requests : q # r => answered'[q] = answered[q]
      /\ \/ answered'[r] = <<call[t].decision, t>>
         \/ answered'[r] = answered[r] /\ svc' = svc
  <2>1. CASE call[t].conn \in open
    BY <1>1, <2>1 DEF Respond, TypeOK
  <2>2. CASE call[t].conn \notin open
    BY <2>2 DEF Respond, service
  <2>. QED
    BY <2>1, <2>2
<1>4. \A q \in Requests : /\ Asked(q)' => Asked(q) /\ q # r
                          /\ Sent(q) => Sent(q)'
                          /\ Travels(q)' <=> Travels(q)
                          /\ InHand(q)' <=> InHand(q)
                          /\ Untouched(q)' <=> Untouched(q)
  <2>1. \A q \in Requests : Asked(q)' => Asked(q) /\ q # r
    BY <1>1, <1>2, RequestAssumption DEF Asked, RequestInv, OneReader
  <2>2. ASSUME NEW q \in Requests, Sent(q) PROVE Sent(q)'
    <3>1. CASE q = r /\ answered'[r] = <<call[t].decision, t>>
      BY <3>1 DEF Sent
    <3>2. CASE answered'[r] = answered[r] /\ svc' = svc
      BY <1>3, <2>2, <3>2 DEF Sent
    <3>3. CASE q # r
      BY <1>3, <2>2, <3>3 DEF Sent
    <3>. QED
      BY <1>3, <3>1, <3>2, <3>3
  <2>3. \A q \in Requests : /\ Travels(q)' <=> Travels(q)
                            /\ InHand(q)' <=> InHand(q)
                            /\ Untouched(q)' <=> Untouched(q)
    BY <1>1 DEF Travels, OnWire, InHand, Untouched, approvals, network, observers
  <2>. QED
    BY <2>1, <2>2, <2>3
<1>5. r \notin pending
  BY <1>1 DEF RequestInv, PendingHasReader, OneReader, At
<1>6. NothingBefore'
  <2>1. ASSUME NEW u \in Turns, Unsent(u)' PROVE svc'[u] = NoService
    <3>1. u # t /\ Unsent(u)
      BY <1>2, <2>1 DEF Unsent
    <3>2. svc[u] = NoService
      BY <3>1 DEF RequestInv, NothingBefore
    <3>. QED
      BY <1>1, <1>3, <3>2 DEF NoService
  <2>2. ASSUME NEW q \in Requests, ~Sent(q)'
        PROVE  (~Travels(q) /\ ~Asked(q) /\ q \notin pending /\ Untouched(q))'
    BY <1>1, <1>4, <2>2 DEF RequestInv, NothingBefore, approvals
  <2>. QED
    BY <2>1, <2>2 DEF NothingBefore
<1>7. TravelsOnce'
  <2>1. Asked(r)
    BY DEF Asked
  <2>2. ASSUME NEW q \in Requests, Travels(q)'
        PROVE  (~Asked(q) /\ q \notin pending /\ Untouched(q) /\ answered[q] = <<>>)'
    BY <1>1, <1>3, <1>4, <2>1, <2>2 DEF RequestInv, TravelsOnce, approvals
  <2>3. \A q \in Requests, c, d \in Conns : \A i, j \in Nat :
          OnWire(q, c, i)' /\ OnWire(q, d, j)' => c = d /\ i = j
    BY <1>1 DEF RequestInv, TravelsOnce, OnWire, network
  <2>. QED
    BY <2>2, <2>3 DEF TravelsOnce
<1>8. OneReader'
  BY <1>2 DEF RequestInv, OneReader
<1>9. AnsweredOnce'
  <2>1. pending \subseteq Requests
    BY DEF TypeOK
  <2>. QED
    BY <1>1, <1>4, <2>1 DEF RequestInv, AnsweredOnce, approvals, observers
<1>10. ReaderHeeds'
  BY <1>1, <1>2 DEF RequestInv, ReaderHeeds, At, context, observers
<1>11. PendingHasReader'
  <2>1. pending' = pending
    BY <1>1 DEF approvals
  <2>2. ASSUME NEW q \in pending
        PROVE  \E u \in Turns : call'[u].asked = q /\ call'[u].pc \in {"ask", "forget"}
    <3>1. PICK u \in Turns : call[u].asked = q /\ call[u].pc \in {"ask", "forget"}
      BY DEF RequestInv, PendingHasReader
    <3>2. u # t
      BY <1>5, <3>1
    <3>. QED
      BY <1>2, <3>1, <3>2
  <2>. QED
    BY <2>1, <2>2 DEF PendingHasReader
<1>12. DecisionIsGiven'
  <2>1. said' = said /\ cancelled' = cancelled
    BY <1>1 DEF observers, context
  <2>2. \/ call[t].decision = said[r]
        \/ call[t].decision = "cancel" /\ t \in cancelled
    BY <1>1 DEF RequestInv, ReaderHeeds
  <2>3. ASSUME NEW q \in Requests, answered'[q] # <<>>
        PROVE  \/ answered'[q][1] = said[q]
               \/ answered'[q][1] = "cancel" /\ answered'[q][2] \in cancelled
    <3>1. CASE answered'[q] = answered[q]
      BY <2>3, <3>1 DEF RequestInv, DecisionIsGiven
    <3>2. CASE q = r /\ answered'[r] = <<call[t].decision, t>>
      BY <2>2, <3>2
    <3>. QED
      BY <1>3, <3>1, <3>2
  <2>. QED
    BY <2>1, <2>3 DEF DecisionIsGiven
<1>. QED
  BY <1>6, <1>7, <1>8, <1>9, <1>10, <1>11, <1>12 DEF RequestInv

\* resolvePendingAppServerApproval: the entry leaves the map for one client's hand.
LEMMA InvTakeApproval ==
  ASSUME TypeOK, RequestInv, NEW k \in Clients, NEW r \in Requests,
         NEW d \in Decisions, TakeApproval(k, r, d)
  PROVE  RequestInv'
<1>1. /\ r \in pending /\ hand[k] = NoHand /\ pending' = pending \ {r}
      /\ hand' = [hand EXCEPT ![k] = [request |-> r, decision |-> d]]
      /\ UNCHANGED <<call, context, sessions, channel, network, service, observers>>
  BY DEF TakeApproval, TakenOut
<1>2. /\ hand'[k].request = r /\ hand[k].request = NoRequest /\ r # NoRequest
      /\ \A j \in Clients : j # k => hand'[j] = hand[j]
  <2>1. \A j \in Clients : hand'[j] = IF j = k THEN [request |-> r, decision |-> d]
                                      ELSE hand[j]
    BY <1>1 DEF TypeOK
  <2>2. NoHand.request = NoRequest
    BY DEF NoHand
  <2>. QED
    BY <1>1, <2>1, <2>2, RequestAssumption
<1>3. /\ Untouched(r) /\ Sent(r) /\ ~Travels(r)
  BY <1>1 DEF RequestInv, AnsweredOnce, NothingBefore, TravelsOnce
<1>4. \A q \in Requests : /\ Asked(q)' <=> Asked(q)
                          /\ Sent(q)' <=> Sent(q)
                          /\ Travels(q)' <=> Travels(q)
                          /\ q # r => (InHand(q)' <=> InHand(q))
                          /\ q # r => (Untouched(q)' <=> Untouched(q))
  <2>1. \A q \in Requests : /\ Asked(q)' <=> Asked(q)
                            /\ Sent(q)' <=> Sent(q)
                            /\ Travels(q)' <=> Travels(q)
    BY <1>1 DEF Asked, Sent, Travels, OnWire, network, service
  <2>2. \A q \in Requests : q # r => (InHand(q)' <=> InHand(q))
    BY <1>2, RequestAssumption DEF InHand
  <2>3. \A q \in Requests : q # r => (Untouched(q)' <=> Untouched(q))
    BY <1>1, <2>2 DEF Untouched, observers
  <2>. QED
    BY <2>1, <2>2, <2>3
<1>5. pending \subseteq Requests
  BY DEF TypeOK
<1>6. NothingBefore'
  BY <1>1, <1>3, <1>4 DEF RequestInv, NothingBefore, Unsent, service
<1>7. TravelsOnce'
  BY <1>1, <1>3, <1>4 DEF RequestInv, TravelsOnce, OnWire, network, service
<1>8. OneReader' /\ ReaderHeeds' /\ DecisionIsGiven'
  BY <1>1 DEF RequestInv, OneReader, ReaderHeeds, DecisionIsGiven, At, context, service,
              observers
<1>9. AnsweredOnce'
  <2>1. \A q \in pending' : Untouched(q)'
    BY <1>1, <1>4, <1>5 DEF RequestInv, AnsweredOnce
  <2>2. \A i, j \in Clients :
          hand'[i].request = hand'[j].request /\ hand'[i].request # NoRequest => i = j
    <3>1. \A j \in Clients : hand[j].request # r
      BY <1>3 DEF Untouched, InHand
    <3>2. \A i, j \in Clients :
            hand[i].request = hand[j].request /\ hand[i].request # NoRequest => i = j
      BY DEF RequestInv, AnsweredOnce
    <3>. QED
      BY <1>2, <3>1, <3>2
  <2>3. \A q \in Requests : InHand(q)' => channel'[q] = "" /\ said'[q] = ""
    BY <1>1, <1>3, <1>4 DEF RequestInv, AnsweredOnce, Untouched, observers
  <2>4. \A q \in Requests : channel'[q] # "" => channel'[q] = said'[q]
    BY <1>1 DEF RequestInv, AnsweredOnce, observers
  <2>. QED
    BY <2>1, <2>2, <2>3, <2>4 DEF AnsweredOnce
<1>10. PendingHasReader'
  BY <1>1 DEF RequestInv, PendingHasReader
<1>. QED
  BY <1>6, <1>7, <1>8, <1>9, <1>10 DEF RequestInv

\* The client's decision goes from its hand to the channel of one place.
LEMMA InvDeliver ==
  ASSUME TypeOK, RequestInv, NEW k \in Clients, Deliver(k)
  PROVE  RequestInv'
<1> SUFFICES ASSUME NEW r, r = hand[k].request, NEW d, d = hand[k].decision
             PROVE  RequestInv'
  OBVIOUS
<1>1. /\ r \in Requests /\ d \in Decisions /\ r # NoRequest
      /\ UNCHANGED <<call, context, sessions, pending, network, service>>
  <2>1. hand[k] \in [request : Requests, decision : Decisions]
    BY DEF Deliver, TypeOK
  <2>. QED
    BY <2>1, RequestAssumption DEF Deliver
<1>2. InHand(r) /\ channel[r] = "" /\ said[r] = "" /\ r \notin pending
  BY <1>1 DEF InHand, RequestInv, AnsweredOnce, Untouched
<1>3. Sent(r) /\ ~Travels(r)
  BY <1>1, <1>2 DEF RequestInv, NothingBefore, TravelsOnce, Untouched
<1>4. /\ hand'[k] = NoHand /\ \A j \in Clients : j # k => hand'[j] = hand[j]
      /\ channel'[r] = d /\ said'[r] = d
      /\ \A q \in Requests : q # r => channel'[q] = channel[q] /\ said'[q] = said[q]
  BY <1>1, <1>2 DEF Deliver, TypeOK
<1>5. \A q \in Requests : InHand(q)' <=> InHand(q) /\ q # r
  <2>1. hand'[k].request = NoRequest
    <3>1. NoHand.request = NoRequest
      BY DEF NoHand
    <3>. QED
      BY <1>4, <3>1
  <2>2. \A j \in Clients : hand[j].request = r => j = k
    BY <1>1 DEF RequestInv, AnsweredOnce
  <2>. QED
    BY <1>1, <1>4, <2>1, <2>2, RequestAssumption DEF InHand
<1>6. \A q \in Requests : /\ Asked(q)' <=> Asked(q)
                          /\ Sent(q)' <=> Sent(q)
                          /\ Travels(q)' <=> Travels(q)
                          /\ q # r => (Untouched(q)' <=> Untouched(q))
  <2>1. \A q \in Requests : /\ Asked(q)' <=> Asked(q)
                            /\ Sent(q)' <=> Sent(q)
                            /\ Travels(q)' <=> Travels(q)
    BY <1>1 DEF Asked, Sent, Travels, OnWire, network, service
  <2>. QED
    BY <1>4, <1>5, <2>1 DEF Untouched
<1>7. NothingBefore'
  BY <1>1, <1>3, <1>6 DEF RequestInv, NothingBefore, Unsent, service
<1>8. TravelsOnce'
  BY <1>1, <1>3, <1>6 DEF RequestInv, TravelsOnce, OnWire, network, service
<1>9. OneReader' /\ PendingHasReader'
  BY <1>1 DEF RequestInv, OneReader, PendingHasReader
<1>10. AnsweredOnce'
  <2>1. pending \subseteq Requests
    BY DEF TypeOK
  <2>2. \A q \in pending' : Untouched(q)'
    BY <1>1, <1>2, <1>6, <2>1 DEF RequestInv, AnsweredOnce
  <2>3. \A i, j \in Clients :
          hand'[i].request = hand'[j].request /\ hand'[i].request # NoRequest => i = j
    <3>1. hand'[k].request = NoRequest
      <4>1. NoHand.request = NoRequest
        BY DEF NoHand
      <4>. QED
        BY <1>4, <4>1
    <3>2. \A i, j \in Clients :
            hand[i].request = hand[j].request /\ hand[i].request # NoRequest => i = j
      BY DEF RequestInv, AnsweredOnce
    <3>. QED
      BY <1>4, <3>1, <3>2
  <2>4. \A q \in Requests : InHand(q)' => channel'[q] = "" /\ said'[q] = ""
    BY <1>4, <1>5 DEF RequestInv, AnsweredOnce
  <2>5. \A q \in Requests : channel'[q] # "" => channel'[q] = said'[q]
    BY <1>4 DEF RequestInv, AnsweredOnce
  <2>. QED
    BY <2>2, <2>3, <2>4, <2>5 DEF AnsweredOnce
<1>11. ReaderHeeds'
  <2>1. ASSUME NEW u \in Turns, At(u, "respond"), call[u].asked = r
        PROVE  call[u].decision = "cancel" /\ u \in cancelled
    <3>1. call[u].decision # ""
      BY <2>1, CallFields, DecisionAssumption
    <3>. QED
      BY <1>2, <2>1, <3>1 DEF RequestInv, ReaderHeeds
  <2>2. \A u \in Turns : At(u, "respond") => call[u].asked \in Requests
    BY CallFields DEF At, InCallback
  <2>. QED
    BY <1>1, <1>4, <2>1, <2>2 DEF RequestInv, ReaderHeeds, At, context
<1>12. DecisionIsGiven'
  <2>1. answered[r] # <<>> => answered[r][1] # ""
    BY <1>1, DecisionAssumption DEF TypeOK
  <2>. QED
    BY <1>1, <1>2, <1>4, <2>1 DEF RequestInv, DecisionIsGiven, context, service
<1>. QED
  BY <1>7, <1>8, <1>9, <1>10, <1>11, <1>12 DEF RequestInv

\* The service asks: a request that was nowhere travels, once.
LEMMA InvSvcAsk ==
  ASSUME TypeOK, RequestInv, NEW t \in Turns, NEW r \in Requests, SvcAsk(t, r)
  PROVE  RequestInv'
<1>. DEFINE m == [NewMessage("approval") EXCEPT !.request = r]
<1> SUFFICES ASSUME NEW d, d = call[t].conn
             PROVE  RequestInv'
  OBVIOUS
<1>1. /\ svc[t].phase = "working" /\ svc[t].waits = NoRequest /\ ~Sent(r)
      /\ d \in Conns /\ wire' = [wire EXCEPT ![d] = Append(@, m)]
      /\ svc' = [svc EXCEPT ![t].waits = r]
      /\ UNCHANGED <<call, context, sessions, approvals, answered, said>>
  BY DEF SvcAsk, Works, Emit, Sent, TypeOK
<1>2. ~Travels(r) /\ ~Asked(r) /\ r \notin pending /\ Untouched(r) /\ answered[r] = <<>>
  BY <1>1 DEF RequestInv, NothingBefore, Sent
<1>3. svc'[t].waits = r /\ \A u \in Turns : u # t => svc'[u] = svc[u]
  <2>1. svc \in [Turns -> Service] /\ svc[t] \in Service
    BY DEF TypeOK
  <2>. QED
    BY <1>1, <2>1 DEF Service
<1>4. /\ wire \in [Conns -> Seq(Message)] /\ m \in Message /\ m.request = r
      /\ wire'[d] = Append(wire[d], m) /\ wire[d] \in Seq(Message)
      /\ \A c \in Conns : c # d => wire'[c] = wire[c]
  <2>1. wire \in [Conns -> Seq(Message)] /\ m \in Message
    BY ApprovalTyped DEF TypeOK
  <2>2. m.request = r
    BY DEF NewMessage
  <2>. QED
    BY <1>1, <2>1, <2>2
<1>. HIDE DEF m
<1>5. ASSUME NEW q \in Requests, NEW c \in Conns, NEW i \in Nat, OnWire(q, c, i)'
      PROVE  \/ OnWire(q, c, i)
             \/ q = r /\ c = d /\ i = Len(wire[d]) + 1
  <2>1. CASE c # d
    BY <1>4, <1>5, <2>1 DEF OnWire
  <2>2. CASE c = d
    <3>1. /\ Len(wire'[d]) = Len(wire[d]) + 1 /\ Len(wire[d]) \in Nat
          /\ wire'[d][Len(wire[d]) + 1] = m
          /\ \A n \in 1..Len(wire[d]) : wire'[d][n] = wire[d][n]
      BY <1>4
    <3>2. i \in 1..(Len(wire[d]) + 1) /\ wire'[d][i].request = q
      BY <1>5, <2>2, <3>1 DEF OnWire
    <3>3. CASE i = Len(wire[d]) + 1
      BY <1>4, <2>2, <3>1, <3>2, <3>3
    <3>4. CASE i \in 1..Len(wire[d])
      BY <2>2, <3>1, <3>2, <3>4 DEF OnWire
    <3>. QED
      BY <3>1, <3>2, <3>3, <3>4
  <2>. QED
    BY <2>1, <2>2
<1>6. \A q \in Requests : q # r /\ Travels(q)' => Travels(q)
  BY <1>5 DEF Travels
<1>7. \A q \in Requests, c, e \in Conns : \A i, j \in Nat :
        OnWire(q, c, i)' /\ OnWire(q, e, j)' => c = e /\ i = j
  <2>1. \A c \in Conns, i \in Nat : ~OnWire(r, c, i)
    BY <1>2 DEF Travels
  <2> SUFFICES ASSUME NEW q \in Requests, NEW c \in Conns, NEW e \in Conns,
                      NEW i \in Nat, NEW j \in Nat, OnWire(q, c, i)', OnWire(q, e, j)'
               PROVE  c = e /\ i = j
    OBVIOUS
  <2>2. CASE q = r
    BY <1>5, <2>1, <2>2
  <2>3. CASE q # r
    BY <1>5, <2>3 DEF RequestInv, TravelsOnce
  <2>. QED
    BY <2>2, <2>3
<1>8. \A q \in Requests : /\ Asked(q)' <=> Asked(q)
                          /\ Sent(q) => Sent(q)'
                          /\ InHand(q)' <=> InHand(q)
                          /\ Untouched(q)' <=> Untouched(q)
  <2>1. \A q \in Requests : /\ Asked(q)' <=> Asked(q)
                            /\ InHand(q)' <=> InHand(q)
                            /\ Untouched(q)' <=> Untouched(q)
    BY <1>1 DEF Asked, InHand, Untouched, approvals
  <2>2. \A q \in Requests : Sent(q) => Sent(q)'
    BY <1>1, <1>3, RequestAssumption DEF Sent
  <2>. QED
    BY <2>1, <2>2
<1>9. Sent(r)'
  BY <1>3 DEF Sent
<1>10. NothingBefore'
  <2>1. ~Unsent(t)
    BY <1>1 DEF RequestInv, NothingBefore, NoService
  <2>2. \A u \in Turns : Unsent(u)' => svc'[u] = NoService
    BY <1>1, <1>3, <2>1 DEF RequestInv, NothingBefore, Unsent
  <2>3. ASSUME NEW q \in Requests, ~Sent(q)'
        PROVE  (~Travels(q) /\ ~Asked(q) /\ q \notin pending /\ Untouched(q))'
    BY <1>1, <1>6, <1>8, <1>9, <2>3 DEF RequestInv, NothingBefore, approvals
  <2>. QED
    BY <2>2, <2>3 DEF NothingBefore
<1>11. TravelsOnce'
  BY <1>1, <1>2, <1>6, <1>7, <1>8 DEF RequestInv, TravelsOnce, approvals
<1>12. OneReader' /\ ReaderHeeds' /\ PendingHasReader' /\ DecisionIsGiven'
  BY <1>1 DEF RequestInv, OneReader, ReaderHeeds, PendingHasReader, DecisionIsGiven, At,
              context, approvals
<1>13. AnsweredOnce'
  <2>1. pending \subseteq Requests
    BY DEF TypeOK
  <2>. QED
    BY <1>1, <1>8, <2>1 DEF RequestInv, AnsweredOnce, approvals
<1>. QED
  BY <1>10, <1>11, <1>12, <1>13 DEF RequestInv

-----------------------------------------------------------------------------
(* The other steps, and the theorems.                                      *)

\* What the service says of a turn, other than requests.
LEMMA QuietSvc ==
  ASSUME TypeOK, RequestInv, NEW t \in Turns, SvcStep(t),
         \A r \in Requests : ~SvcAsk(t, r)
  PROVE  Quiet
<1>0. svc \in [Turns -> Service] /\ svc[t] \in Service
  BY DEF TypeOK
<1>1. ASSUME NEW m \in Message, m.request = NoRequest, Emit(t, m),
             svc[t].phase \in {"asked", "working"},
             svc'[t].waits = svc[t].waits, \A u \in Turns : u # t => svc'[u] = svc[u]
      PROVE  Quiet
  <2>1. ~Unsent(t)
    BY <1>1 DEF RequestInv, NothingBefore, NoService
  <2>2. QuietWire
    BY <1>1, EmitQuiet
  <2>. QED
    BY <1>1, <2>1, <2>2 DEF Emit, Quiet, QuietCalls, QuietService, Unsent, context,
         approvals
<1>2. CASE SvcRespond(t)
  <2>. DEFINE m == [NewMessage("response") EXCEPT !.id = svc[t].id]
  <2>1. m \in Message /\ m.request = NoRequest
    BY <1>0, NewMessageTyped DEF Service, NewMessage
  <2>2. svc'[t].waits = svc[t].waits /\ \A u \in Turns : u # t => svc'[u] = svc[u]
    BY <1>0, <1>2 DEF SvcRespond, Service
  <2>. QED
    BY <1>1, <1>2, <2>1, <2>2 DEF SvcRespond
<1>3. CASE SvcRefuse(t)
  <2>. DEFINE m == [NewMessage("refusal") EXCEPT !.id = svc[t].id]
  <2>1. m \in Message /\ m.request = NoRequest
    BY <1>0, NewMessageTyped DEF Service, NewMessage
  <2>2. svc'[t].waits = svc[t].waits /\ \A u \in Turns : u # t => svc'[u] = svc[u]
    BY <1>0, <1>3 DEF SvcRefuse, Service
  <2>. QED
    BY <1>1, <1>3, <2>1, <2>2 DEF SvcRefuse
<1>4. CASE SvcText(t)
  <2>. DEFINE m == [NewMessage("text") EXCEPT !.text = <<t, svc[t].texts + 1>>]
  <2>1. svc[t].texts \in 0..MaxTexts /\ svc[t].texts < MaxTexts
    BY <1>0, <1>4 DEF SvcText, Service
  <2>2. <<t, svc[t].texts + 1>> \in Text
    BY <2>1, BoundsAreNat DEF Text
  <2>3. m \in Message /\ m.request = NoRequest
    BY <2>2, NewMessageTyped DEF NewMessage
  <2>4. svc'[t].waits = svc[t].waits /\ \A u \in Turns : u # t => svc'[u] = svc[u]
    BY <1>0, <1>4 DEF SvcText, Service
  <2>. QED
    BY <1>1, <1>4, <2>3, <2>4 DEF SvcText, Works
<1>5. CASE SvcError(t)
  <2>1. NewMessage("error") \in Message /\ NewMessage("error").request = NoRequest
    BY NewMessageTyped DEF NewMessage
  <2>2. svc'[t].waits = svc[t].waits /\ \A u \in Turns : u # t => svc'[u] = svc[u]
    BY <1>0, <1>5 DEF SvcError, Service
  <2>. QED
    BY <1>1, <1>5, <2>1, <2>2 DEF SvcError, Works
<1>6. CASE SvcComplete(t)
  <2>1. NewMessage("completed") \in Message /\ NewMessage("completed").request = NoRequest
    BY NewMessageTyped DEF NewMessage
  <2>2. svc'[t].waits = svc[t].waits /\ \A u \in Turns : u # t => svc'[u] = svc[u]
    BY <1>0, <1>6 DEF SvcComplete, Service
  <2>. QED
    BY <1>1, <1>6, <2>1, <2>2 DEF SvcComplete, Works
<1>. QED
  BY <1>2, <1>3, <1>4, <1>5, <1>6 DEF SvcStep

\* Initially no request is anywhere.
LEMMA RequestInit == Init => RequestInv
<1> SUFFICES ASSUME Init PROVE RequestInv
  OBVIOUS
<1>1. /\ \A t \in Turns : /\ call[t] = NewCall /\ svc[t] = NoService
                          /\ call[t].asked = NoRequest /\ call[t].pc = "idle"
      /\ \A r \in Requests : channel[r] = "" /\ said[r] = "" /\ answered[r] = <<>>
      /\ \A k \in Clients : hand[k].request = NoRequest
      /\ pending = {}
      /\ \A c \in Conns : wire[c] = <<>>
  BY DEF Init, NewCall, NoHand
<1>2. \A r \in Requests : ~Travels(r) /\ ~Asked(r) /\ Untouched(r)
  <2>1. \A r \in Requests : ~Travels(r)
    <3>1. \A c \in Conns, i \in Nat : i \notin 1..Len(wire[c])
      <4>1. \A c \in Conns : Len(wire[c]) = 0
        <5>1. Len(<<>>) = 0
          OBVIOUS
        <5>. QED
          BY <1>1, <5>1, Zenon
      <4>. QED
        BY <4>1
    <3>. QED
      BY <3>1 DEF Travels, OnWire
  <2>2. \A r \in Requests : ~Asked(r) /\ Untouched(r)
    BY <1>1, RequestAssumption DEF Asked, Untouched, InHand
  <2>. QED
    BY <2>1, <2>2
<1>3. NothingBefore /\ TravelsOnce
  BY <1>1, <1>2 DEF NothingBefore, TravelsOnce, Travels
<1>4. OneReader /\ AnsweredOnce /\ ReaderHeeds /\ PendingHasReader
  BY <1>1, <1>2 DEF OneReader, AnsweredOnce, Untouched, ReaderHeeds, At, PendingHasReader
<1>5. DecisionIsGiven
  BY <1>1 DEF DecisionIsGiven
<1>. QED
  BY <1>3, <1>4, <1>5 DEF RequestInv

\* Every step keeps each request in one place.
LEMMA RequestStep == TypeOK /\ RequestInv /\ [Next]_vars => RequestInv'
<1> SUFFICES ASSUME TypeOK, RequestInv, [Next]_vars PROVE RequestInv'
  OBVIOUS
<1>1. ASSUME NEW t \in Turns, TurnStep(t) PROVE RequestInv'
  <2>1. CASE Begin(t)
    BY <2>1, QuietBegin, QuietStep
  <2>2. CASE ReadStep(t) /\ ~ReadApproval(t)
    BY <2>2, QuietRead, QuietStep
  <2>3. CASE ReadApproval(t)
    BY <2>3, InvReadApproval
  <2>4. CASE CallbackStep(t)
    BY <2>4, InvTakeDecision, InvGiveUp, InvForget, InvRespond DEF CallbackStep
  <2>5. CASE Release(t)
    <3>1. ~InCallback(call[t])
      BY <2>5 DEF Release, At, InCallback
    <3>2. QuietCalls
      BY <2>5, <3>1, GotoQuiet DEF Release, Pc
    <3>3. QuietWire
      BY <2>5, ShutQuiet DEF Release, Close
    <3>4. Quiet
      BY <2>5, <3>2, <3>3 DEF Release, Quiet, QuietService, context, approvals, service,
           observers
    <3>. QED
      BY <3>4, QuietStep
  <2>. QED
    BY <1>1, <2>1, <2>2, <2>3, <2>4, <2>5 DEF TurnStep
<1>2. ASSUME NEW t \in Turns, Cancel(t) PROVE RequestInv'
  <2>1. Quiet
    BY <1>2 DEF Cancel, Quiet, QuietWire, QuietCalls, QuietService, Unsent, approvals,
         network, service
  <2>. QED
    BY <2>1, QuietStep
<1>3. ASSUME NEW t \in Turns, CloseDue(t) PROVE RequestInv'
  <2>1. Quiet
    BY <1>3, ShutQuiet DEF CloseDue, Close, Quiet, QuietCalls, QuietService, Unsent,
         approvals, service, observers
  <2>. QED
    BY <2>1, QuietStep
<1>4. ASSUME NEW t \in Turns, SvcStep(t) PROVE RequestInv'
  BY <1>4, QuietSvc, QuietStep, InvSvcAsk
<1>5. ASSUME NEW c \in Conns, HangUp(c) PROVE RequestInv'
  <2>1. Quiet
    BY <1>5, ShutQuiet DEF HangUp, Quiet, QuietCalls, QuietService, Unsent, context,
         approvals, service
  <2>. QED
    BY <2>1, QuietStep
<1>6. CASE UNCHANGED vars
  <2>1. Quiet
    BY <1>6 DEF vars, Quiet, QuietWire, QuietCalls, QuietService, Unsent, context,
         approvals, network, service, observers
  <2>. QED
    BY <2>1, QuietStep
<1>. QED
  BY <1>1, <1>2, <1>3, <1>4, <1>5, <1>6, InvDeliver, InvTakeApproval DEF Next

\* A request for an approval is in one place at a time, from the service to the reader
\* that asks for it, to its answer (handleAppServerApprovalRequest).
THEOREM RequestsAreTracked == Spec => [](TypeOK /\ RequestInv)
<1>1. Init => TypeOK /\ RequestInv
  BY TypeInit, RequestInit
<1>2. TypeOK /\ RequestInv /\ [Next]_vars => (TypeOK /\ RequestInv)'
  BY TypeStep, RequestStep
<1>. QED
  BY <1>1, <1>2, PTL DEF Spec

\* A request that clients can answer has a reader that waits for the answer.
\* (removePendingAppServerApproval)
THEOREM PendingIsRead == Spec => []PendingHasReader
<1>1. TypeOK /\ RequestInv => PendingHasReader
  BY DEF RequestInv
<1>. QED
  BY <1>1, RequestsAreTracked, PTL

\* The service gets the decision whose client was told that it was taken, or the cancel
\* of a turn that was cancelled.  (resolvePendingAppServerApproval)
THEOREM DecisionsAreGiven == Spec => []DecisionIsGiven
<1>1. TypeOK /\ RequestInv => DecisionIsGiven
  BY DEF RequestInv
<1>. QED
  BY <1>1, RequestsAreTracked, PTL

-----------------------------------------------------------------------------
(* Answers.  The messages on a connection do not name their turn.  What    *)
(* keeps an answer from another turn's messages is a count: on an open     *)
(* session every reader has one completion to come at most.  A turn that   *)
(* finds no reader finds a clean wire, and one that stays alone reads      *)
(* nothing but its own.                                                    *)

\* A turn that reads, and one that uses its connection.
Readers == {"read", "ask", "forget", "respond"}
IsReading(t) == call[t].pc \in Readers
IsActive(t) == IsReading(t) \/ At(t, "send")

\* A turn that has not sent its turn/start has nothing, and the service knows
\* nothing of it.
Fresh ==
  /\ pool \in 0..conns /\ open \subseteq 1..conns
  /\ \A t \in Turns : call[t].conn \in 0..conns
  /\ \A t \in Turns : Unsent(t) =>
       /\ ~call[t].completed /\ call[t].message = NoText /\ call[t].result = "none"
       /\ svc[t].phase = "none"
  /\ \A c \in Conns : c \notin open => wire[c] = <<>>

\* A closed socket has lost what was on its way, whatever a step does with it.
LEMMA FreshShut ==
  ASSUME TypeOK, Fresh, NEW C, Shut(C)
  PROVE  /\ open' \subseteq open
         /\ \A c \in Conns : c \notin open' => wire'[c] = <<>>
BY DEF Fresh, Shut

\* A message is taken from an open socket.
LEMMA FreshReceives ==
  ASSUME TypeOK, Fresh, NEW t \in Turns, NEW kind, Receives(t, kind)
  PROVE  /\ open' = open
         /\ \A c \in Conns : c \notin open' => wire'[c] = <<>>
<1>1. call[t].conn \in open /\ open' = open
  BY DEF Receives
<1>2. wire' = [wire EXCEPT ![call[t].conn] = Tail(wire[call[t].conn])]
  BY DEF Receives
<1>. QED
  BY <1>1, <1>2 DEF Fresh, TypeOK

\* The service speaks on an open socket.
LEMMA FreshEmit ==
  ASSUME TypeOK, Fresh, NEW t \in Turns, NEW m, Emit(t, m)
  PROVE  /\ UNCHANGED <<call, pool, conns, open, closed, shared>>
         /\ \A c \in Conns : c \notin open' => wire'[c] = <<>>
<1>1. /\ call[t].conn \in open
      /\ UNCHANGED <<call, pool, conns, open, closed, shared>>
  BY DEF Emit, sessions
<1>2. wire' = [wire EXCEPT ![call[t].conn] = Append(wire[call[t].conn], m)]
  BY DEF Emit
<1>. QED
  BY <1>1, <1>2 DEF Fresh, TypeOK

\* A step that leaves the connections' numbers, changes t's call so that it is not
\* unsent or has as little as before, and adds nothing for an unsent turn.
LEMMA FreshUpdate ==
  ASSUME TypeOK, Fresh, NEW t \in Turns, NEW d, Update(t, d),
         d.conn = call[t].conn,
         conns' = conns, open' \subseteq open, pool' \in 0..conns,
         \A c \in Conns : c \notin open' => wire'[c] = <<>>,
         \A u \in Turns : svc'[u].phase = svc[u].phase,
         d.pc \in {"idle", "pool", "check", "send"} =>
           /\ Unsent(t)
           /\ d.completed = call[t].completed /\ d.message = call[t].message
           /\ d.result = call[t].result
  PROVE  Fresh'
<1>1. /\ call'[t] = d
      /\ \A u \in Turns \ {t} : call'[u] = call[u]
  BY DEF Update, TypeOK
<1>2. \A u \in Turns : call'[u].conn \in 0..conns'
  BY <1>1 DEF Fresh
<1>3. ASSUME NEW u \in Turns, Unsent(u)'
      PROVE  /\ ~call'[u].completed /\ call'[u].message = NoText
             /\ call'[u].result = "none" /\ svc'[u].phase = "none"
  BY <1>1, <1>3 DEF Fresh, Unsent
<1>. QED
  BY <1>2, <1>3 DEF Fresh

\* The steps up to turn/start leave nothing to a turn that has not sent it.
LEMMA FreshBegin ==
  ASSUME TypeOK, TypeOK', Fresh, NEW t \in Turns, Begin(t)
  PROVE  Fresh'
<1>0. call[t] \in AnyCall /\ conns \in 0..MaxConns /\ pool \in 0..MaxConns
  BY CallFields DEF TypeOK
<1>. USE BoundsAreNat
<1>1. CASE Reuse(t)
  <2>. DEFINE d == [call[t] EXCEPT !.pc = "check", !.conn = pool]
  <2>1. /\ d.pc = "check" /\ d.conn = pool /\ d.completed = call[t].completed
        /\ d.message = call[t].message /\ d.result = call[t].result
    BY <1>0 DEF AnyCall
  <2>2. call' = [call EXCEPT ![t] = d]
    BY <1>1 DEF Reuse, Update
  <2>3. call'[t] = d /\ \A u \in Turns \ {t} : call'[u] = call[u]
    BY <2>2 DEF TypeOK
  <2>4. UNCHANGED <<pool, conns, open, wire, svc>> /\ Unsent(t)
    BY <1>1 DEF Reuse, sessions, network, service, At, Unsent
  <2>. QED
    BY <2>1, <2>3, <2>4 DEF Fresh, Unsent
<1>2. CASE OpenSession(t)
  <2>. DEFINE d == [call[t] EXCEPT !.pc = "pool", !.conn = conns']
  <2>1. /\ d.pc = "pool" /\ d.conn = conns' /\ d.completed = call[t].completed
        /\ d.message = call[t].message /\ d.result = call[t].result
    BY <1>0 DEF AnyCall
  <2>2. call' = [call EXCEPT ![t] = d]
    BY <1>2 DEF OpenSession, Update
  <2>3. call'[t] = d /\ \A u \in Turns \ {t} : call'[u] = call[u]
    BY <2>2 DEF TypeOK
  <2>4. UNCHANGED <<pool, svc>> /\ Unsent(t) /\ conns' = conns + 1
    BY <1>2 DEF OpenSession, service, At, Unsent
  <2>5. \A c \in Conns : c \notin open' => wire'[c] = <<>>
    BY <1>2 DEF OpenSession, Fresh
  <2>6. open' \subseteq 1..conns'
    BY <1>0, <1>2 DEF OpenSession, Fresh
  <2>. HIDE DEF d
  <2>7. pool' \in 0..conns' /\ \A u \in Turns : call'[u].conn \in 0..conns'
    <3>1. conns' \in 0..conns' /\ 0..conns \subseteq 0..conns'
      BY <1>0, <2>4
    <3>. QED
      BY <2>1, <2>3, <2>4, <3>1 DEF Fresh
  <2>. QED
    BY <2>1, <2>3, <2>4, <2>5, <2>6, <2>7 DEF Fresh, Unsent
<1>3. CASE PoolSession(t)
  <2>. DEFINE d == [call[t] EXCEPT !.pc = "check"]
  <2>1. /\ d.pc = "check" /\ d.conn = call[t].conn /\ d.completed = call[t].completed
        /\ d.message = call[t].message /\ d.result = call[t].result
    BY <1>0 DEF AnyCall
  <2>2. Update(t, d) /\ Shut({pool}) /\ pool' \in 0..conns /\ conns' = conns
        /\ svc' = svc /\ Unsent(t)
    BY <1>3 DEF PoolSession, Goto, Close, service, At, Unsent, Fresh
  <2>. HIDE DEF d
  <2>. QED
    BY <2>1, <2>2, FreshShut, FreshUpdate
<1>4. CASE DialPrivate(t)
  <2>. DEFINE d == [call[t] EXCEPT !.pc = "send", !.private = TRUE, !.conn = conns',
                  !.rpc = 3]
  <2>1. /\ d.pc = "send" /\ d.conn = conns' /\ d.completed = call[t].completed
        /\ d.message = call[t].message /\ d.result = call[t].result
    BY <1>0 DEF AnyCall
  <2>2. call' = [call EXCEPT ![t] = d]
    BY <1>4 DEF DialPrivate, Update
  <2>3. call'[t] = d /\ \A u \in Turns \ {t} : call'[u] = call[u]
    BY <2>2 DEF TypeOK
  <2>4. UNCHANGED <<pool, svc, wire>> /\ Unsent(t) /\ conns' = conns + 1
    BY <1>4 DEF DialPrivate, service, At, Unsent
  <2>5. \A c \in Conns : c \notin open' => wire'[c] = <<>>
    BY <1>4 DEF DialPrivate, Fresh
  <2>6. open' \subseteq 1..conns'
    BY <1>0, <1>4 DEF DialPrivate, Fresh
  <2>. HIDE DEF d
  <2>7. pool' \in 0..conns' /\ \A u \in Turns : call'[u].conn \in 0..conns'
    <3>1. conns' \in 0..conns' /\ 0..conns \subseteq 0..conns'
      BY <1>0, <2>4
    <3>. QED
      BY <2>1, <2>3, <2>4, <3>1 DEF Fresh
  <2>. QED
    BY <2>1, <2>3, <2>4, <2>5, <2>6, <2>7 DEF Fresh, Unsent
<1>5. CASE RefuseClosed(t)
  <2>. DEFINE d == [call[t] EXCEPT !.pc = "release", !.result = "failed"]
  <2>1. d.pc = "release" /\ d.conn = call[t].conn
    BY <1>0 DEF AnyCall
  <2>2. Update(t, d) /\ UNCHANGED <<pool, conns, open, wire, svc>>
    BY <1>5 DEF RefuseClosed, sessions, network, service
  <2>3. \A c \in Conns : c \notin open' => wire'[c] = <<>>
    BY <2>2 DEF Fresh
  <2>4. pool' \in 0..conns /\ open' \subseteq open
    BY <2>2 DEF Fresh
  <2>. HIDE DEF d
  <2>. QED
    BY <2>1, <2>2, <2>3, <2>4, FreshUpdate
<1>6. CASE AllocID(t)
  <2>1. PICK id : Update(t, [call[t] EXCEPT !.pc = "send", !.rpc = id])
    BY <1>6 DEF AllocID
  <2>. DEFINE d == [call[t] EXCEPT !.pc = "send", !.rpc = id]
  <2>2. /\ d.pc = "send" /\ d.conn = call[t].conn /\ d.completed = call[t].completed
        /\ d.message = call[t].message /\ d.result = call[t].result
    BY <1>0 DEF AnyCall
  <2>3. Update(t, d) /\ UNCHANGED <<pool, conns, open, wire, svc>> /\ Unsent(t)
    BY <1>6, <2>1 DEF AllocID, network, service, At, Unsent
  <2>4. \A c \in Conns : c \notin open' => wire'[c] = <<>>
    BY <2>3 DEF Fresh
  <2>5. pool' \in 0..conns /\ open' \subseteq open
    BY <2>3 DEF Fresh
  <2>. HIDE DEF d
  <2>. QED
    BY <2>2, <2>3, <2>4, <2>5, FreshUpdate
<1>7. CASE SendStart(t)
  <2>. DEFINE d == [call[t] EXCEPT !.pc = "read"]
  <2>1. d.pc = "read" /\ d.conn = call[t].conn
    BY <1>0 DEF AnyCall
  <2>2. /\ call' = [call EXCEPT ![t] = d]
        /\ UNCHANGED <<pool, conns, open, wire>>
    BY <1>7 DEF SendStart, Goto, Update, sessions, network
  <2>3. \A u \in Turns \ {t} : call'[u] = call[u] /\ svc'[u] = svc[u]
    BY <1>7, <2>2 DEF SendStart, TypeOK
  <2>4. call'[t] = d
    BY <2>2 DEF TypeOK
  <2>. HIDE DEF d
  <2>. QED
    BY <2>1, <2>2, <2>3, <2>4 DEF Fresh, Unsent
<1>8. CASE SendFails(t)
  <2>. DEFINE d == [call[t] EXCEPT !.pc = "release", !.rpc = 0,
                  !.result = IF t \in cancelled THEN "cancelled" ELSE "failed"]
  <2>1. d.pc = "release" /\ d.conn = call[t].conn
    BY <1>0 DEF AnyCall
  <2>2. Update(t, d) /\ UNCHANGED <<pool, conns, open, wire, svc>>
    BY <1>8 DEF SendFails, Fail, network, service
  <2>3. \A c \in Conns : c \notin open' => wire'[c] = <<>>
    BY <2>2 DEF Fresh
  <2>4. pool' \in 0..conns /\ open' \subseteq open
    BY <2>2 DEF Fresh
  <2>. HIDE DEF d
  <2>. QED
    BY <2>1, <2>2, <2>3, <2>4, FreshUpdate
<1>. QED
  BY <1>1, <1>2, <1>3, <1>4, <1>5, <1>6, <1>7, <1>8 DEF Begin


-----------------------------------------------------------------------------
(* Counting completions.                                                   *)

Completions(s) == {i \in 1..Len(s) : s[i].kind = "completed"}
TextsIn(s) == {i \in 1..Len(s) : s[i].kind = "text"}
OneIf(b) == IF b THEN 1 ELSE 0

\* Two finite sets that agree but for one element.
LEMMA CountOne ==
  ASSUME NEW S, NEW T, NEW x, IsFiniteSet(S), S \ {x} = T \ {x}
  PROVE  /\ IsFiniteSet(T)
         /\ \E n \in Nat : /\ Cardinality(S) = n + OneIf(x \in S)
                         /\ Cardinality(T) = n + OneIf(x \in T)
<1>. DEFINE R == S \ {x}
<1>1. IsFiniteSet(R)
  BY FS_RemoveElement
<1>2. ASSUME NEW U, U \ {x} = R
      PROVE  IsFiniteSet(U) /\ Cardinality(U) = Cardinality(R) + OneIf(x \in U)
  <2>1. CASE x \in U
    <3>1. U = R \cup {x} /\ x \notin R
      BY <1>2, <2>1
    <3>. HIDE DEF R
    <3>. QED
      BY <1>1, <2>1, <3>1, FS_AddElement DEF OneIf
  <2>2. CASE x \notin U
    <3>1. U = R
      BY <1>2, <2>2
    <3>2. Cardinality(R) \in Nat
      BY <1>1, FS_CardinalityType
    <3>. HIDE DEF R
    <3>. QED
      BY <1>1, <2>2, <3>1, <3>2 DEF OneIf
  <2>. QED
    BY <2>1, <2>2
<1>3. Cardinality(R) \in Nat
  BY <1>1, FS_CardinalityType
<1>. QED
  BY <1>2, <1>3

\* The completions on a wire are finitely many.
LEMMA FiniteCompletions ==
  ASSUME NEW s \in Seq(Message)
  PROVE  IsFiniteSet(Completions(s)) /\ Cardinality(Completions(s)) \in Nat
<1>1. IsFiniteSet(1..Len(s))
  BY FS_Interval
<1>2. Completions(s) \in SUBSET (1..Len(s))
  BY DEF Completions
<1>. QED
  BY <1>1, <1>2, FS_Subset, FS_CardinalityType

\* A reader takes one completion off the wire, or none.
LEMMA CountTail ==
  ASSUME NEW s \in Seq(Message), s # <<>>
  PROVE  Cardinality(Completions(s)) =
           Cardinality(Completions(Tail(s))) + OneIf(Head(s).kind = "completed")
<1>. DEFINE E == Completions(s)
            F == Completions(Tail(s))
            f == [i \in F |-> i + 1]
<1>1. /\ Tail(s) \in Seq(Message) /\ Len(Tail(s)) = Len(s) - 1
      /\ \A i \in 1..Len(Tail(s)) : Tail(s)[i] = s[i + 1]
      /\ Head(s) = s[1] /\ Len(s) \in Nat \ {0}
  BY HeadTailProperties
<1>2. f \in Bijection(F, E \ {1})
  <2>1. ASSUME NEW i \in F PROVE i + 1 \in E \ {1}
    BY <1>1, <2>1 DEF Completions
  <2>2. ASSUME NEW j \in E \ {1} PROVE \E i \in F : i + 1 = j
    <3>1. j - 1 \in F
      BY <1>1, <2>2 DEF Completions
    <3>2. (j - 1) + 1 = j
      BY <2>2 DEF Completions
    <3>. QED
      BY <3>1, <3>2
  <2>3. \A i, j \in F : f[i] = f[j] => i = j
    BY DEF Completions
  <2>4. f \in [F -> E \ {1}] /\ \A i \in F : f[i] = i + 1
    BY <2>1
  <2>5. \A j \in E \ {1} : \E i \in F : f[i] = j
    BY <2>2, <2>4
  <2>. HIDE DEF f, F, E
  <2>. QED
    BY <2>3, <2>4, <2>5 DEF Bijection, Injection, IsInjective, Surjection
<1>3. ExistsBijection(F, E \ {1})
  BY <1>2 DEF ExistsBijection
<1>4. IsFiniteSet(F) /\ IsFiniteSet(E) /\ Cardinality(F) \in Nat
  BY <1>1, FiniteCompletions
<1>5. Cardinality(E \ {1}) = Cardinality(F) /\ IsFiniteSet(E \ {1})
  BY <1>3, <1>4, FS_Bijection
<1>6. (E \ {1}) \ {1} = E \ {1}
  OBVIOUS
<1>7. PICK n \in Nat : /\ Cardinality(E \ {1}) = n + OneIf(1 \in E \ {1})
                        /\ Cardinality(E) = n + OneIf(1 \in E)
  <2>. HIDE DEF E
  <2>. QED
    BY <1>5, <1>6, CountOne
<1>8. 1 \notin E \ {1} /\ (1 \in E <=> Head(s).kind = "completed")
  BY <1>1 DEF Completions
<1>. HIDE DEF E, F
<1>9. QED
  BY <1>5, <1>7, <1>8 DEF OneIf, E, F

\* The service puts one completion on it, or none.
LEMMA CountAppend ==
  ASSUME NEW s \in Seq(Message), NEW m \in Message
  PROVE  Cardinality(Completions(Append(s, m))) =
           Cardinality(Completions(s)) + OneIf(m.kind = "completed")
<1>. DEFINE E == Completions(s)
            F == Completions(Append(s, m))
            n == Len(s) + 1
<1>1. /\ Append(s, m) \in Seq(Message) /\ Len(Append(s, m)) = n
      /\ \A i \in 1..Len(s) : Append(s, m)[i] = s[i]
      /\ Append(s, m)[n] = m /\ Len(s) \in Nat
  BY AppendProperties
<1>2. E \ {n} = F \ {n} /\ n \notin E /\ (n \in F <=> m.kind = "completed")
  BY <1>1 DEF Completions
<1>3. IsFiniteSet(E)
  BY FiniteCompletions
<1>4. PICK k \in Nat : /\ Cardinality(E) = k + OneIf(n \in E)
                        /\ Cardinality(F) = k + OneIf(n \in F)
  <2>. HIDE DEF E, F, n
  <2>. QED
    BY <1>2, <1>3, CountOne
<1>. HIDE DEF E, F
<1>5. QED
  BY <1>2, <1>4 DEF OneIf, E, F

-----------------------------------------------------------------------------
(* The inductive invariant.                                                *)

Active(c) == {t \in Turns : call[t].conn = c /\ IsActive(t)}
Reading(c) == {t \in Turns : call[t].conn = c /\ IsReading(t)}
Read(c) == {t \in Reading(c) : call[t].completed}
Unfinished(t) == svc[t].phase \in {"asked", "working", "refused"}
Busy(c) == {t \in Turns : call[t].conn = c /\ Unfinished(t)}
LastText(t) == IF svc[t].texts = 0 THEN NoText ELSE <<t, svc[t].texts>>

\* Finitely many turns have begun.
Begun == {t \in Turns : ~At(t, "idle")}
Few == IsFiniteSet(Begun)

\* On an open session every reader has at most one completion to come, be it still
\* with the service, on the wire, or read.
Balance ==
  \A c \in Conns : ~closed[c] =>
    Cardinality(Busy(c)) + Cardinality(Completions(wire[c])) + Cardinality(Read(c))
      <= Cardinality(Reading(c))

\* What is on the wire ends with a completion, or the service goes on.
Tidy ==
  \A c \in Conns : wire[c] # <<>> =>
    Busy(c) # {} \/ Len(wire[c]) \in Completions(wire[c])

\* A turn that shares its connection is known to.
Alone == \A t \in Turns \ shared : IsActive(t) => Active(call[t].conn) = {t}

\* What the reader of t has and what is on its wire is what the service said for t.
Exact(t, s) ==
  /\ call[t].completed => svc[t].phase = "completed" /\ s = <<>>
  /\ \A i \in Completions(s) : i = Len(s) /\ svc[t].phase = "completed"
  /\ TextsIn(s) = {} => call[t].message = LastText(t)
  /\ \A i \in TextsIn(s) : (\A j \in TextsIn(s) : j <= i) => s[i].text = LastText(t)
Answered(t) ==
  ~IsActive(t) /\ svc[t].phase = "completed" /\ call[t].message = <<t, svc[t].texts>>
Own(t) ==
  /\ IsActive(t) => Busy(call[t].conn) \subseteq {t}
  /\ At(t, "send") => wire[call[t].conn] = <<>>
  /\ IsReading(t) /\ call[t].conn \in open => Exact(t, wire[call[t].conn])
  /\ call[t].result = "ok" => Answered(t)
AllOwn == \A t \in Turns \ shared : Own(t)

AnswerInv == Fresh /\ Few /\ Balance /\ Tidy /\ Alone /\ AllOwn

-----------------------------------------------------------------------------
(* The kinds of steps.                                                     *)

\* A turn is left as it is, and a turn moves within its phase.
SameService(u) == svc'[u].phase = svc[u].phase /\ svc'[u].texts = svc[u].texts
Kept(u) == call'[u] = call[u] /\ SameService(u)
Like(u) ==
  /\ call'[u].conn = call[u].conn /\ call'[u].completed = call[u].completed
  /\ call'[u].message = call[u].message /\ call'[u].result = call[u].result
  /\ IsReading(u)' <=> IsReading(u)
  /\ At(u, "send")' <=> At(u, "send")
  /\ At(u, "idle")' <=> At(u, "idle")
  /\ SameService(u)
KeepOthers(t) == \A u \in Turns \ {t} : Kept(u)

\* Messages are lost with their socket, or stay; sessions are not reopened.
Lossy ==
  /\ \A c \in Conns : wire'[c] = wire[c] \/ wire'[c] = <<>>
  /\ \A c \in open' : wire'[c] = wire[c] /\ (c \in open \/ c = conns + 1)
StayClosed == \A c \in Conns : closed[c] => closed'[c]
\* The reader of t takes a message.
Taken(t) ==
  LET c == call[t].conn IN
  /\ c \in open /\ wire[c] # <<>>
  /\ wire' = [wire EXCEPT ![c] = Tail(wire[c])]
  /\ open' = open

Still == (\A u \in Turns : Like(u)) /\ Lossy /\ StayClosed /\ shared' = shared

\* t goes on before its request is sent, or gives up.
Leaves(t) ==
  /\ KeepOthers(t) /\ SameService(t) /\ StayClosed /\ shared' = shared
  /\ ~IsActive(t)' /\ ~At(t, "idle")' /\ call'[t].result # "ok"
  /\ call'[t].conn = call[t].conn \/ svc[t].phase = "none"
  /\ IsReading(t) => closed'[call[t].conn]
  /\ Lossy \/ (IsReading(t) /\ Taken(t))

\* t has its number and is about to send its request.
Neighbours(t) == Active(call'[t].conn) \ {t}
Sets(t) ==
  /\ KeepOthers(t) /\ SameService(t) /\ StayClosed
  /\ Unsent(t) /\ ~At(t, "send") /\ At(t, "send")'
  /\ ~call'[t].completed /\ call'[t].message = NoText /\ call'[t].result = "none"
  /\ wire' = wire /\ \A c \in open' : c \in open \/ c = conns + 1
  /\ \/ call'[t].conn = conns + 1 /\ conns + 1 \in Conns
     \/ call'[t].conn = call[t].conn /\ ~closed[call[t].conn] /\ call[t].conn \in Conns
  /\ shared \subseteq shared'
  /\ Neighbours(t) # {} => {t} \cup Neighbours(t) \subseteq shared'

Sends(t) ==
  /\ KeepOthers(t) /\ At(t, "send") /\ IsReading(t)' /\ UNCHANGED <<wire, open, closed, shared>>
  /\ ~call'[t].completed /\ call'[t].message = NoText /\ call'[t].result # "ok"
  /\ call'[t].conn = call[t].conn
  /\ svc'[t].phase = "asked" /\ svc'[t].texts = 0

\* What the message that t's reader takes makes of its locals.
After(t) ==
  LET m == Incoming(t) IN
  [completed |-> IF m.kind = "completed" THEN TRUE ELSE call[t].completed,
   message |-> IF m.kind = "text" THEN m.text ELSE call[t].message]
Reads(t) ==
  /\ KeepOthers(t) /\ SameService(t) /\ UNCHANGED <<closed, shared>>
  /\ IsReading(t) /\ IsReading(t)' /\ Taken(t)
  /\ call'[t].conn = call[t].conn /\ call'[t].result = call[t].result
  /\ call'[t].completed = After(t).completed
  /\ call'[t].message = After(t).message
Returns(t) ==
  /\ KeepOthers(t) /\ SameService(t) /\ UNCHANGED <<closed, shared>>
  /\ IsReading(t) /\ ~IsActive(t)' /\ ~At(t, "idle")' /\ Taken(t)
  /\ call'[t].conn = call[t].conn
  /\ After(t).completed
  /\ call'[t].message = After(t).message /\ call'[t].message # NoText

Says(t, m) ==
  LET c == call[t].conn IN
  /\ call' = call /\ (\A u \in Turns \ {t} : SameService(u))
  /\ UNCHANGED <<open, closed, shared>>
  /\ c \in Conns /\ c \in open /\ wire' = [wire EXCEPT ![c] = Append(wire[c], m)]
  /\ m \in Message
  /\ svc[t].phase \in {"asked", "working"}
  /\ IF m.kind = "completed" THEN svc'[t].phase = "completed"
                             ELSE svc'[t].phase \in {"working", "refused"}
  /\ IF m.kind = "text"
     THEN svc'[t].texts = svc[t].texts + 1 /\ m.text = <<t, svc'[t].texts>>
     ELSE svc'[t].texts = svc[t].texts

OneOf ==
  \/ Still
  \/ \E t \in Turns : \/ Leaves(t) \/ Sets(t) \/ Sends(t) \/ Reads(t) \/ Returns(t)
                      \/ \E m \in Message : Says(t, m)

-----------------------------------------------------------------------------
(* What the kinds of steps do to the invariant.                            *)

\* The turns of a connection are finitely many.
LEMMA FewOnConnection ==
  ASSUME TypeOK, Fresh, Few, NEW c
  PROVE  /\ IsFiniteSet(Busy(c)) /\ IsFiniteSet(Reading(c)) /\ IsFiniteSet(Read(c))
         /\ Cardinality(Busy(c)) \in Nat /\ Cardinality(Reading(c)) \in Nat
         /\ Cardinality(Read(c)) \in Nat
<1>1. Busy(c) \in SUBSET Begun
  BY DEF Busy, Unfinished, Begun, Fresh, Unsent, At
<1>2. Reading(c) \in SUBSET Begun /\ Read(c) \in SUBSET Begun
  BY DEF Reading, Read, IsReading, Readers, Begun, At
<1>. QED
  BY <1>1, <1>2, FS_Subset, FS_CardinalityType DEF Few

\* The readers of a connection with an open session have a completion each at most;
\* without readers the connection is clean.
LEMMA Clean ==
  ASSUME TypeOK, Fresh, Few, Balance, Tidy, NEW c \in Conns, ~closed[c], Reading(c) = {}
  PROVE  wire[c] = <<>> /\ Busy(c) = {}
<1>1. wire[c] \in Seq(Message)
  BY DEF TypeOK
<1>2. /\ IsFiniteSet(Busy(c)) /\ Cardinality(Busy(c)) \in Nat
      /\ Cardinality(Read(c)) \in Nat
      /\ IsFiniteSet(Completions(wire[c])) /\ Cardinality(Completions(wire[c])) \in Nat
  BY <1>1, FewOnConnection, FiniteCompletions
<1>3. Cardinality(Reading(c)) = 0
  BY FS_EmptySet
<1>4. Cardinality(Busy(c)) = 0 /\ Cardinality(Completions(wire[c])) = 0
  BY <1>2, <1>3 DEF Balance
<1>5. Busy(c) = {} /\ Completions(wire[c]) = {}
  BY <1>2, <1>4, FS_EmptySet
<1>. QED
  BY <1>5 DEF Tidy

\* A step of t changes the sets of a connection by t alone.
LEMMA SetsButOne ==
  ASSUME NEW t \in Turns, KeepOthers(t), NEW c
  PROVE  /\ Busy(c)' \ {t} = Busy(c) \ {t}
         /\ Reading(c)' \ {t} = Reading(c) \ {t}
         /\ Read(c)' \ {t} = Read(c) \ {t}
         /\ Active(c)' \ {t} = Active(c) \ {t}
<1>1. \A u \in Turns \ {t} : call'[u] = call[u] /\ svc'[u].phase = svc[u].phase
  BY DEF KeepOthers, Kept, SameService
<1>2. Busy(c)' \ {t} = Busy(c) \ {t}
  BY <1>1 DEF Busy, Unfinished
<1>3. Reading(c)' \ {t} = Reading(c) \ {t}
  BY <1>1 DEF Reading, IsReading
<1>4. Read(c)' \ {t} = Read(c) \ {t}
  BY <1>1 DEF Read, Reading, IsReading
<1>5. Active(c)' \ {t} = Active(c) \ {t}
  BY <1>1 DEF Active, IsActive, IsReading, At
<1>. QED
  BY <1>2, <1>3, <1>4, <1>5

\* How many turns a step of t leaves in the sets of a connection: as many but for t.
LEMMA CountButOne ==
  ASSUME TypeOK, Fresh, Few, NEW t \in Turns, KeepOthers(t), NEW c
  PROVE  \E b, r, d \in Nat :
           /\ Cardinality(Busy(c)) = b + OneIf(t \in Busy(c))
           /\ Cardinality(Busy(c)') = b + OneIf(t \in Busy(c)')
           /\ Cardinality(Reading(c)) = r + OneIf(t \in Reading(c))
           /\ Cardinality(Reading(c)') = r + OneIf(t \in Reading(c)')
           /\ Cardinality(Read(c)) = d + OneIf(t \in Read(c))
           /\ Cardinality(Read(c)') = d + OneIf(t \in Read(c)')
<1>1. IsFiniteSet(Busy(c)) /\ IsFiniteSet(Reading(c)) /\ IsFiniteSet(Read(c))
  BY FewOnConnection
<1>2. PICK b \in Nat : /\ Cardinality(Busy(c)) = b + OneIf(t \in Busy(c))
                        /\ Cardinality(Busy(c)') = b + OneIf(t \in Busy(c)')
  BY <1>1, SetsButOne, CountOne
<1>3. PICK r \in Nat : /\ Cardinality(Reading(c)) = r + OneIf(t \in Reading(c))
                        /\ Cardinality(Reading(c)') = r + OneIf(t \in Reading(c)')
  BY <1>1, SetsButOne, CountOne
<1>4. PICK d \in Nat : /\ Cardinality(Read(c)) = d + OneIf(t \in Read(c))
                        /\ Cardinality(Read(c)') = d + OneIf(t \in Read(c)')
  BY <1>1, SetsButOne, CountOne
<1>. QED
  BY <1>2, <1>3, <1>4

\* What a step of another turn must leave alone for u to keep what is its own.
LEMMA OwnKept ==
  ASSUME NEW u \in Turns, Own(u), Like(u),
         IsActive(u) => Busy(call[u].conn)' \subseteq {u},
         IsActive(u) => /\ wire'[call[u].conn] \in {wire[call[u].conn], <<>>}
                        /\ call[u].conn \in open' =>
                             /\ call[u].conn \in open
                             /\ wire'[call[u].conn] = wire[call[u].conn]
  PROVE  Own(u)'
<1>. DEFINE c == call[u].conn
<1>1. /\ call'[u].conn = c /\ call'[u].completed = call[u].completed
      /\ call'[u].message = call[u].message /\ call'[u].result = call[u].result
      /\ svc'[u].phase = svc[u].phase /\ svc'[u].texts = svc[u].texts
      /\ IsReading(u)' <=> IsReading(u)
      /\ At(u, "send")' <=> At(u, "send")
  BY DEF Like, SameService
<1>2. IsActive(u)' <=> IsActive(u)
  BY <1>1 DEF IsActive
<1>3. IsActive(u)' => Busy(call[u].conn)' \subseteq {u}
  BY <1>2
<1>4. At(u, "send")' => wire'[c] = <<>>
  BY <1>1 DEF Own, IsActive
<1>5. LastText(u)' = LastText(u)
  BY <1>1 DEF LastText
<1>6. ASSUME IsReading(u)', c \in open' PROVE Exact(u, wire[c])' /\ wire'[c] = wire[c]
  <2>1. IsActive(u) /\ IsReading(u) /\ c \in open /\ wire'[c] = wire[c]
    BY <1>1, <1>6 DEF IsActive
  <2>2. Exact(u, wire[c])
    BY <2>1 DEF Own
  <2>. QED
    BY <1>1, <1>5, <2>1, <2>2 DEF Exact
<1>7. call'[u].result = "ok" => Answered(u)'
  BY <1>1, <1>2 DEF Own, Answered
<1>. QED
  BY <1>1, <1>3, <1>4, <1>6, <1>7 DEF Own

\* Steps within the phase of every turn.
LEMMA StillKeeps ==
  ASSUME TypeOK, TypeOK', AnswerInv, Fresh', Still
  PROVE  AnswerInv'
<1>1. /\ \A u \in Turns : Like(u)
      /\ Lossy /\ StayClosed /\ shared' = shared
  BY DEF Still
<1>2. ASSUME NEW c
      PROVE  /\ Busy(c)' = Busy(c) /\ Reading(c)' = Reading(c)
             /\ Read(c)' = Read(c) /\ Active(c)' = Active(c)
  BY <1>1 DEF Like, SameService, Busy, Unfinished, Reading, Read, Active, IsActive
<1>3. Few'
  <2>1. Begun' = Begun
    BY <1>1 DEF Begun, Like
  <2>. QED
    BY <2>1 DEF AnswerInv, Few
<1>4. Balance'
  <2> SUFFICES ASSUME NEW c \in Conns, ~closed'[c]
               PROVE  Cardinality(Busy(c)') + Cardinality(Completions(wire[c])')
                        + Cardinality(Read(c)') <= Cardinality(Reading(c)')
    BY DEF Balance
  <2>1. ~closed[c]
    BY <1>1 DEF StayClosed
  <2>2. Cardinality(Busy(c)) + Cardinality(Completions(wire[c])) + Cardinality(Read(c))
          <= Cardinality(Reading(c))
    BY <2>1 DEF AnswerInv, Balance
  <2>3. /\ Cardinality(Busy(c)) \in Nat /\ Cardinality(Reading(c)) \in Nat
        /\ Cardinality(Read(c)) \in Nat /\ Cardinality(Completions(wire[c])) \in Nat
    BY FewOnConnection, FiniteCompletions DEF AnswerInv, TypeOK
  <2>4. \/ Cardinality(Completions(wire'[c])) = Cardinality(Completions(wire[c]))
        \/ Cardinality(Completions(wire'[c])) = 0
    <3>1. wire'[c] = wire[c] \/ wire'[c] = <<>>
      BY <1>1 DEF Lossy
    <3>2. Completions(<<>>) = {}
      BY DEF Completions
    <3>. QED
      BY <3>1, <3>2, FS_EmptySet
  <2>. QED
    BY <1>2, <2>2, <2>3, <2>4
<1>5. Tidy'
  BY <1>1, <1>2 DEF AnswerInv, Tidy, Lossy
<1>6. Alone'
  BY <1>1, <1>2 DEF AnswerInv, Alone, Like, IsActive
<1>7. AllOwn'
  <2> SUFFICES ASSUME NEW u \in Turns \ shared PROVE Own(u)'
    BY <1>1 DEF AllOwn
  <2>1. Own(u) /\ Like(u)
    BY <1>1 DEF AnswerInv, AllOwn
  <2>2. IsActive(u) => Busy(call[u].conn)' \subseteq {u}
    BY <1>2, <2>1 DEF Own, Like
  <2>3. ASSUME IsActive(u)
        PROVE  /\ wire'[call[u].conn] \in {wire[call[u].conn], <<>>}
               /\ call[u].conn \in open' =>
                    /\ call[u].conn \in open
                    /\ wire'[call[u].conn] = wire[call[u].conn]
    <3>1. call[u].conn \in Conns /\ call[u].conn \in 0..conns /\ conns \in Nat
      <4>1. ~At(u, "idle") /\ conns \in 0..MaxConns
        BY <2>3 DEF IsActive, IsReading, Readers, At, TypeOK
      <4>. QED
        BY <4>1, CallFields, BoundsAreNat DEF AnswerInv, Fresh
    <3>2. call[u].conn # conns + 1
      BY <3>1
    <3>. QED
      BY <1>1, <3>1, <3>2 DEF Lossy
  <2>. QED
    BY <2>1, <2>2, <2>3, OwnKept
<1>. QED
  BY <1>3, <1>4, <1>5, <1>6, <1>7 DEF AnswerInv

\* An active turn has a connection, older than one that is dialled now.
LEMMA ActiveHasConn ==
  ASSUME TypeOK, Fresh, NEW u \in Turns, IsActive(u)
  PROVE  /\ call[u].conn \in Conns /\ call[u].conn # conns + 1
         /\ ~At(u, "idle") /\ wire[call[u].conn] \in Seq(Message)
<1>1. ~At(u, "idle") /\ conns \in 0..MaxConns
  BY DEF IsActive, IsReading, Readers, At, TypeOK
<1>2. call[u].conn \in Conns /\ call[u].conn \in 0..conns /\ conns \in Nat
  BY <1>1, CallFields, BoundsAreNat DEF Fresh
<1>3. call[u].conn # conns + 1
  BY <1>2
<1>4. wire \in [Conns -> Seq(Message)]
  BY DEF TypeOK
<1>. QED
  BY <1>1, <1>2, <1>3, <1>4

\* A turn that is as it was is like it was.
LEMMA KeptIsLike ==
  ASSUME NEW u, Kept(u)
  PROVE  Like(u)
BY DEF Kept, Like, IsReading, At

\* The turns that have begun stay few.
LEMMA FewKept ==
  ASSUME TypeOK, Few, NEW t \in Turns, KeepOthers(t)
  PROVE  Few'
<1>1. Begun' \subseteq Begun \cup {t}
  BY DEF Begun, KeepOthers, Kept, At
<1>2. IsFiniteSet(Begun \cup {t})
  BY FS_AddElement DEF Few
<1>. QED
  BY <1>1, <1>2, FS_Subset DEF Few

\* Losing what is on a wire takes no turn's own.
LEMMA LossyCount ==
  ASSUME TypeOK, Lossy, NEW c \in Conns
  PROVE  \/ Cardinality(Completions(wire'[c])) = Cardinality(Completions(wire[c]))
         \/ Cardinality(Completions(wire'[c])) = 0
<1>1. wire'[c] = wire[c] \/ wire'[c] = <<>>
  BY DEF Lossy
<1>2. Completions(<<>>) = {}
  BY DEF Completions
<1>. QED
  BY <1>1, <1>2, FS_EmptySet

\* The sum of a connection, written out.
LEMMA BalanceHas ==
  ASSUME TypeOK, Fresh, Few, Balance, NEW c \in Conns, ~closed[c]
  PROVE  /\ Cardinality(Busy(c)) + Cardinality(Completions(wire[c]))
              + Cardinality(Read(c)) <= Cardinality(Reading(c))
         /\ Cardinality(Busy(c)) \in Nat /\ Cardinality(Reading(c)) \in Nat
         /\ Cardinality(Read(c)) \in Nat /\ Cardinality(Completions(wire[c])) \in Nat
BY FewOnConnection, FiniteCompletions DEF Balance, TypeOK

\* Taking a message leaves the end of a wire as it is.
LEMMA TidyTaken ==
  ASSUME TypeOK, Fresh, NEW t \in Turns, IsReading(t), Taken(t),
         NEW c \in Conns, wire'[c] # <<>>
  PROVE  /\ wire[c] # <<>>
         /\ Len(wire[c]) \in Completions(wire[c]) => Len(wire'[c]) \in Completions(wire'[c])
<1>1. /\ wire[call[t].conn] # <<>>
      /\ wire' = [wire EXCEPT ![call[t].conn] = Tail(wire[call[t].conn])]
  BY DEF Taken
<1>2. call[t].conn \in Conns /\ wire[call[t].conn] \in Seq(Message)
  BY ActiveHasConn DEF IsActive
<1>3. CASE c = call[t].conn
  <2>1. wire'[c] = Tail(wire[c])
    BY <1>1, <1>3 DEF TypeOK
  <2>2. /\ Tail(wire[c]) \in Seq(Message) /\ Len(Tail(wire[c])) = Len(wire[c]) - 1
        /\ \A i \in 1..Len(Tail(wire[c])) : Tail(wire[c])[i] = wire[c][i + 1]
        /\ Len(wire[c]) \in Nat
    BY <1>1, <1>2, <1>3, HeadTailProperties
  <2>3. Len(Tail(wire[c])) \in Nat \ {0}
    <3>1. ASSUME NEW s \in Seq(Message), s # <<>> PROVE Len(s) \in Nat \ {0}
      BY <3>1, EmptySeq, LenProperties
    <3>. QED
      BY <2>1, <2>2, <3>1
  <2>. QED
    BY <1>1, <1>3, <2>1, <2>2, <2>3 DEF Completions
<1>4. CASE c # call[t].conn
  <2>1. wire'[c] = wire[c]
    BY <1>1, <1>4 DEF TypeOK
  <2>. QED
    BY <2>1
<1>. QED
  BY <1>3, <1>4

\* What another turn takes comes from another wire.
LEMMA OwnWireKept ==
  ASSUME TypeOK, Fresh, Alone, NEW t \in Turns, NEW u \in Turns \ shared, u # t,
         IsActive(u),
         Lossy \/ (IsReading(t) /\ Taken(t))
  PROVE  /\ wire'[call[u].conn] \in {wire[call[u].conn], <<>>}
         /\ call[u].conn \in open' =>
              /\ call[u].conn \in open
              /\ wire'[call[u].conn] = wire[call[u].conn]
<1>. DEFINE c == call[u].conn
<1>1. c \in Conns /\ c # conns + 1
  BY ActiveHasConn
<1>2. CASE Lossy
  BY <1>1, <1>2 DEF Lossy
<1>3. CASE IsReading(t) /\ Taken(t)
  <2>1. Active(c) = {u}
    BY DEF Alone
  <2>2. call[t].conn # c
    BY <1>3, <2>1 DEF Active, IsActive
  <2>3. wire'[c] = wire[c] /\ open' = open
    BY <1>1, <1>3, <2>2 DEF Taken, TypeOK
  <2>. QED
    BY <2>3
<1>. QED
  BY <1>2, <1>3

\* A turn goes on before its request, or gives up.
LEMMA LeavesKeeps ==
  ASSUME TypeOK, TypeOK', AnswerInv, Fresh', NEW t \in Turns, Leaves(t)
  PROVE  AnswerInv'
<1>. USE DEF AnswerInv
<1>1. /\ KeepOthers(t) /\ SameService(t) /\ StayClosed /\ shared' = shared
      /\ ~IsActive(t)' /\ ~At(t, "idle")' /\ call'[t].result # "ok"
      /\ call'[t].conn = call[t].conn \/ svc[t].phase = "none"
      /\ IsReading(t) => closed'[call[t].conn]
      /\ Lossy \/ (IsReading(t) /\ Taken(t))
  BY DEF Leaves
<1>2. \A c : Busy(c)' = Busy(c)
  <2> SUFFICES ASSUME NEW c PROVE Busy(c)' = Busy(c)
    OBVIOUS
  <2>1. Busy(c)' \ {t} = Busy(c) \ {t}
    BY <1>1, SetsButOne
  <2>2. t \in Busy(c)' <=> t \in Busy(c)
    BY <1>1 DEF Busy, Unfinished, SameService
  <2>. QED
    BY <2>1, <2>2
<1>3. \A c : Active(c)' = Active(c) \ {t}
  BY <1>1, SetsButOne DEF Active
<1>4. Few'
  BY <1>1, FewKept
<1>5. Balance'
  <2> SUFFICES ASSUME NEW c \in Conns, ~closed'[c]
               PROVE  Cardinality(Busy(c)') + Cardinality(Completions(wire[c])')
                        + Cardinality(Read(c)') <= Cardinality(Reading(c)')
    BY DEF Balance
  <2>1. ~closed[c] /\ t \notin Reading(c) /\ t \notin Reading(c)'
    BY <1>1 DEF StayClosed, Reading, IsActive
  <2>2. Reading(c)' = Reading(c) /\ Read(c)' = Read(c)
    <3>1. /\ Reading(c)' \ {t} = Reading(c) \ {t}
          /\ Read(c)' \ {t} = Read(c) \ {t}
      BY <1>1, SetsButOne
    <3>2. t \notin Read(c) /\ t \notin Read(c)'
      BY <2>1 DEF Read
    <3>. QED
      BY <2>1, <3>1, <3>2
  <2>3. \/ Cardinality(Completions(wire'[c])) = Cardinality(Completions(wire[c]))
        \/ Cardinality(Completions(wire'[c])) = 0
    <3>1. CASE IsReading(t) /\ Taken(t)
      <4>1. c # call[t].conn
        BY <2>1, <3>1 DEF Reading
      <4>2. wire'[c] = wire[c]
        BY <3>1, <4>1 DEF Taken, TypeOK
      <4>. QED
        BY <4>2
    <3>. QED
      BY <1>1, <3>1, LossyCount
  <2>. QED
    BY <1>2, <2>1, <2>2, <2>3, BalanceHas
<1>6. Tidy'
  <2> SUFFICES ASSUME NEW c \in Conns, wire'[c] # <<>>
               PROVE  Busy(c)' # {} \/ Len(wire'[c]) \in Completions(wire'[c])
    BY DEF Tidy
  <2>1. CASE Lossy
    BY <1>2, <2>1 DEF Lossy, Tidy
  <2>2. CASE IsReading(t) /\ Taken(t)
    BY <1>2, <2>2, TidyTaken DEF Tidy
  <2>. QED
    BY <1>1, <2>1, <2>2
<1>7. Alone'
  <2> SUFFICES ASSUME NEW u \in Turns \ shared, IsActive(u)'
               PROVE  Active(call[u].conn)' = {u}
    BY <1>1 DEF Alone
  <2>1. u # t
    BY <1>1
  <2>2. Kept(u)
    BY <1>1, <2>1 DEF KeepOthers
  <2>3. call'[u] = call[u] /\ IsActive(u)
    BY <2>2 DEF Kept, IsActive, IsReading, At
  <2>4. Active(call[u].conn) = {u}
    BY <2>3 DEF Alone
  <2>. QED
    BY <1>3, <2>1, <2>3, <2>4
<1>8. AllOwn'
  <2> SUFFICES ASSUME NEW u \in Turns \ shared PROVE Own(u)'
    BY <1>1 DEF AllOwn
  <2>1. CASE u = t
    BY <1>1, <2>1 DEF Own, IsActive
  <2>2. CASE u # t
    <3>1. Own(u) /\ Kept(u)
      BY <1>1, <2>2 DEF AllOwn, KeepOthers
    <3>2. Like(u)
      BY <3>1, KeptIsLike
    <3>3. IsActive(u) => Busy(call[u].conn)' \subseteq {u}
      BY <1>2, <3>1 DEF Own, Kept
    <3>4. IsActive(u) => /\ wire'[call[u].conn] \in {wire[call[u].conn], <<>>}
                         /\ call[u].conn \in open' =>
                              /\ call[u].conn \in open
                              /\ wire'[call[u].conn] = wire[call[u].conn]
      BY <1>1, <2>2, OwnWireKept
    <3>. QED
      BY <3>1, <3>2, <3>3, <3>4, OwnKept
  <2>. QED
    BY <2>1, <2>2
<1>. QED
  BY <1>4, <1>5, <1>6, <1>7, <1>8

\* A turn takes its number: with no neighbour on an open session the connection is
\* clean.
LEMMA SetsKeeps ==
  ASSUME TypeOK, TypeOK', AnswerInv, Fresh', NEW t \in Turns, Sets(t)
  PROVE  AnswerInv'
<1>. USE DEF AnswerInv
<1>1. /\ KeepOthers(t) /\ SameService(t) /\ StayClosed
      /\ Unsent(t) /\ ~At(t, "send") /\ At(t, "send")'
      /\ ~call'[t].completed /\ call'[t].message = NoText /\ call'[t].result = "none"
      /\ wire' = wire /\ shared \subseteq shared'
      /\ Neighbours(t) # {} => {t} \cup Neighbours(t) \subseteq shared'
  BY DEF Sets
<1>2. /\ ~IsReading(t) /\ ~IsReading(t)' /\ ~IsActive(t) /\ IsActive(t)'
      /\ svc[t].phase = "none" /\ svc'[t].phase = "none"
  BY <1>1 DEF IsReading, IsActive, Readers, At, Unsent, SameService, Fresh
<1>3. Lossy
  <2>1. \A c \in open' : c \in open \/ c = conns + 1
    BY DEF Sets
  <2>. QED
    BY <1>1, <2>1 DEF Lossy
<1>4. \A c : Busy(c)' = Busy(c) /\ Reading(c)' = Reading(c) /\ Read(c)' = Read(c)
  <2> SUFFICES ASSUME NEW c
               PROVE  Busy(c)' = Busy(c) /\ Reading(c)' = Reading(c) /\ Read(c)' = Read(c)
    OBVIOUS
  <2>1. /\ t \notin Busy(c) /\ t \notin Busy(c)'
        /\ t \notin Reading(c) /\ t \notin Reading(c)'
        /\ t \notin Read(c) /\ t \notin Read(c)'
    BY <1>2 DEF Busy, Unfinished, Reading, Read
  <2>2. /\ Busy(c)' \ {t} = Busy(c) \ {t}
        /\ Reading(c)' \ {t} = Reading(c) \ {t}
        /\ Read(c)' \ {t} = Read(c) \ {t}
    BY <1>1, SetsButOne
  <2>. QED
    BY <2>1, <2>2
<1>5. Few'
  BY <1>1, FewKept
<1>6. Balance'
  <2> SUFFICES ASSUME NEW c \in Conns, ~closed'[c]
               PROVE  Cardinality(Busy(c)') + Cardinality(Completions(wire[c])')
                        + Cardinality(Read(c)') <= Cardinality(Reading(c)')
    BY DEF Balance
  <2>1. ~closed[c]
    BY <1>1 DEF StayClosed
  <2>. QED
    BY <1>1, <1>4, <2>1, BalanceHas
<1>7. Tidy'
  BY <1>1, <1>4 DEF Tidy
<1>8. Alone'
  <2> SUFFICES ASSUME NEW u \in Turns \ shared', IsActive(u)'
               PROVE  Active(call[u].conn)' = {u}
    BY DEF Alone
  <2>1. CASE u = t
    <3>1. Active(call'[t].conn) \ {t} = {}
      BY <1>1, <2>1 DEF Neighbours
    <3>2. Active(call[t].conn)' \ {t} = {}
      BY <1>1, <3>1, SetsButOne
    <3>3. t \in Active(call[t].conn)'
      BY <1>2 DEF Active
    <3>. QED
      BY <2>1, <3>2, <3>3
  <2>2. CASE u # t
    <3>1. Kept(u) /\ u \notin shared
      BY <1>1, <2>2 DEF KeepOthers
    <3>2. call'[u] = call[u] /\ IsActive(u)
      BY <3>1 DEF Kept, IsActive, IsReading, At
    <3>3. Active(call[u].conn) = {u}
      BY <3>1, <3>2 DEF Alone
    <3>4. Active(call[u].conn)' \ {t} = {u}
      BY <1>1, <2>2, <3>2, <3>3, SetsButOne
    <3>5. call'[t].conn # call[u].conn
      <4>1. SUFFICES ASSUME call'[t].conn = call[u].conn PROVE FALSE
        OBVIOUS
      <4>2. u \in Neighbours(t)
        BY <2>2, <3>3, <4>1 DEF Neighbours
      <4>. QED
        BY <1>1, <4>2
    <3>6. t \notin Active(call[u].conn)'
      BY <3>2, <3>5 DEF Active
    <3>. QED
      BY <3>4, <3>6
  <2>. QED
    BY <2>1, <2>2
<1>9. AllOwn'
  <2> SUFFICES ASSUME NEW u \in Turns \ shared' PROVE Own(u)'
    BY DEF AllOwn
  <2>1. CASE u = t
    <3>. DEFINE c == call'[t].conn
    <3>1. Active(c) \ {t} = {}
      BY <1>1, <2>1 DEF Neighbours
    <3>2. wire[c] = <<>> /\ Busy(c) = {}
      <4>1. CASE c = conns + 1 /\ conns + 1 \in Conns
        <5>1. conns \in Nat
          <6>1. conns \in 0..MaxConns
            BY DEF TypeOK
          <6>. QED
            BY <6>1, BoundsAreNat
        <5>2. \A v \in Turns : call[v].conn # c
          BY <4>1, <5>1 DEF Fresh
        <5>3. c \notin open
          BY <4>1, <5>1 DEF Fresh
        <5>. QED
          BY <4>1, <5>2, <5>3 DEF Fresh, Busy
      <4>2. CASE c = call[t].conn /\ ~closed[call[t].conn] /\ call[t].conn \in Conns
        <5>1. Reading(c) = {}
          BY <1>2, <3>1 DEF Reading, Active, IsActive
        <5>. HIDE DEF c
        <5>. QED
          BY <4>2, <5>1, Clean
      <4>. QED
        BY <4>1, <4>2 DEF Sets
    <3>3. (IsActive(t) => Busy(call[t].conn) \subseteq {t})'
      BY <1>4, <3>2
    <3>4. (At(t, "send") => wire[call[t].conn] = <<>>)'
      BY <1>1, <3>2
    <3>. QED
      BY <1>1, <1>2, <2>1, <3>3, <3>4 DEF Own
  <2>2. CASE u # t
    <3>1. Own(u) /\ Kept(u) /\ u \notin shared
      BY <1>1, <2>2 DEF AllOwn, KeepOthers
    <3>2. Like(u)
      BY <3>1, KeptIsLike
    <3>3. IsActive(u) => Busy(call[u].conn)' \subseteq {u}
      BY <1>4, <3>1 DEF Own, Kept
    <3>4. IsActive(u) => /\ wire'[call[u].conn] \in {wire[call[u].conn], <<>>}
                         /\ call[u].conn \in open' =>
                              /\ call[u].conn \in open
                              /\ wire'[call[u].conn] = wire[call[u].conn]
      BY <1>3, <2>2, <3>1, OwnWireKept
    <3>. QED
      BY <3>1, <3>2, <3>3, <3>4, OwnKept
  <2>. QED
    BY <2>1, <2>2
<1>. QED
  BY <1>5, <1>6, <1>7, <1>8, <1>9

\* A turn sends its request and begins to read.
LEMMA SendsKeeps ==
  ASSUME TypeOK, TypeOK', AnswerInv, Fresh', NEW t \in Turns, Sends(t)
  PROVE  AnswerInv'
<1>. USE DEF AnswerInv
<1>. DEFINE c0 == call[t].conn
<1>1. /\ KeepOthers(t) /\ At(t, "send") /\ IsReading(t)'
      /\ wire' = wire /\ open' = open /\ closed' = closed /\ shared' = shared
      /\ ~call'[t].completed /\ call'[t].message = NoText /\ call'[t].result # "ok"
      /\ call'[t].conn = c0
      /\ svc'[t].phase = "asked" /\ svc'[t].texts = 0
  BY DEF Sends
<1>2. /\ ~IsReading(t) /\ IsActive(t) /\ IsActive(t)' /\ ~At(t, "send")'
      /\ svc[t].phase = "none"
  BY <1>1 DEF IsReading, IsActive, Readers, At, Unsent, Fresh
<1>3. Lossy
  BY <1>1 DEF Lossy
<1>4. Few'
  BY <1>1, FewKept
<1>5. Balance'
  <2> SUFFICES ASSUME NEW c \in Conns, ~closed'[c]
               PROVE  Cardinality(Busy(c)') + Cardinality(Completions(wire[c])')
                        + Cardinality(Read(c)') <= Cardinality(Reading(c)')
    BY DEF Balance
  <2>1. ~closed[c]
    BY <1>1
  <2>2. PICK b, r, d \in Nat :
           /\ Cardinality(Busy(c)) = b + OneIf(t \in Busy(c))
           /\ Cardinality(Busy(c)') = b + OneIf(t \in Busy(c)')
           /\ Cardinality(Reading(c)) = r + OneIf(t \in Reading(c))
           /\ Cardinality(Reading(c)') = r + OneIf(t \in Reading(c)')
           /\ Cardinality(Read(c)) = d + OneIf(t \in Read(c))
           /\ Cardinality(Read(c)') = d + OneIf(t \in Read(c)')
    BY <1>1, CountButOne
  <2>3. /\ t \notin Busy(c) /\ t \notin Reading(c) /\ t \notin Read(c)
        /\ t \notin Read(c)'
        /\ t \in Busy(c)' <=> t \in Reading(c)'
    BY <1>1, <1>2 DEF Busy, Unfinished, Reading, Read
  <2>. QED
    BY <1>1, <2>1, <2>2, <2>3, BalanceHas DEF OneIf
<1>6. \A c : Busy(c) \subseteq Busy(c)'
  <2> SUFFICES ASSUME NEW c PROVE Busy(c) \subseteq Busy(c)'
    OBVIOUS
  <2>1. t \notin Busy(c) /\ Busy(c)' \ {t} = Busy(c) \ {t}
    BY <1>1, <1>2, SetsButOne DEF Busy, Unfinished
  <2>. QED
    BY <2>1
<1>7. Tidy'
  BY <1>1, <1>6 DEF Tidy
<1>8. \A c : Active(c)' = Active(c)
  <2> SUFFICES ASSUME NEW c PROVE Active(c)' = Active(c)
    OBVIOUS
  <2>1. Active(c)' \ {t} = Active(c) \ {t}
    BY <1>1, SetsButOne
  <2>2. t \in Active(c)' <=> t \in Active(c)
    BY <1>1, <1>2 DEF Active
  <2>. QED
    BY <2>1, <2>2
<1>9. Alone'
  <2> SUFFICES ASSUME NEW u \in Turns \ shared, IsActive(u)'
               PROVE  Active(call[u].conn)' = {u}
    BY <1>1 DEF Alone
  <2>1. call'[u].conn = call[u].conn /\ IsActive(u)
    BY <1>1, <1>2 DEF KeepOthers, Kept, IsActive, IsReading, At
  <2>. QED
    BY <1>8, <2>1 DEF Alone
<1>10. AllOwn'
  <2> SUFFICES ASSUME NEW u \in Turns \ shared PROVE Own(u)'
    BY <1>1 DEF AllOwn
  <2>0. Own(u)
    BY DEF AllOwn
  <2>1. CASE u = t
    <3>1. wire[c0] = <<>> /\ Busy(c0) \subseteq {t}
      BY <1>1, <1>2, <2>0, <2>1 DEF Own
    <3>2. Busy(c0)' \subseteq {t}
      BY <1>1, <3>1, SetsButOne
    <3>3. LastText(t)' = NoText
      BY <1>1 DEF LastText
    <3>4. Exact(t, <<>>)'
      <4>1. Completions(<<>>) = {} /\ TextsIn(<<>>) = {}
        BY DEF Completions, TextsIn
      <4>. QED
        BY <1>1, <3>3, <4>1 DEF Exact
    <3>. QED
      BY <1>1, <1>2, <2>1, <3>1, <3>2, <3>4 DEF Own
  <2>2. CASE u # t
    <3>1. Kept(u)
      BY <1>1, <2>2 DEF KeepOthers
    <3>2. Like(u)
      BY <3>1, KeptIsLike
    <3>3. ASSUME IsActive(u) PROVE Busy(call[u].conn)' \subseteq {u}
      <4>1. Active(call[u].conn) = {u}
        BY <3>3 DEF Alone
      <4>2. c0 # call[u].conn
        BY <1>2, <2>2, <4>1 DEF Active
      <4>3. t \notin Busy(call[u].conn)'
        BY <1>1, <3>1, <4>2 DEF Busy, Kept
      <4>. QED
        BY <1>1, <2>0, <3>1, <3>3, <4>3, SetsButOne DEF Own, Kept
    <3>4. IsActive(u) => /\ wire'[call[u].conn] \in {wire[call[u].conn], <<>>}
                         /\ call[u].conn \in open' =>
                              /\ call[u].conn \in open
                              /\ wire'[call[u].conn] = wire[call[u].conn]
      BY <1>1
    <3>. QED
      BY <2>0, <3>2, <3>3, <3>4, OwnKept
  <2>. QED
    BY <2>1, <2>2
<1>. QED
  BY <1>4, <1>5, <1>7, <1>9, <1>10

\* A reader takes the next message of what is its own.
LEMMA ExactTail ==
  ASSUME NEW t \in Turns, NEW s \in Seq(Message), s # <<>>, s = wire[call[t].conn],
         Exact(t, s)
  PROVE  /\ ~call[t].completed
         /\ Incoming(t).kind = "completed" =>
              svc[t].phase = "completed" /\ Tail(s) = <<>> /\ call[t].message = LastText(t)
         /\ \A i \in Completions(Tail(s)) : i = Len(Tail(s)) /\ svc[t].phase = "completed"
         /\ TextsIn(Tail(s)) = {} => After(t).message = LastText(t)
         /\ \A i \in TextsIn(Tail(s)) :
              (\A j \in TextsIn(Tail(s)) : j <= i) => Tail(s)[i].text = LastText(t)
<1>. DEFINE z == Tail(s)
<1>1. /\ z \in Seq(Message) /\ Len(z) = Len(s) - 1
      /\ \A i \in 1..Len(z) : z[i] = s[i + 1]
      /\ Incoming(t) = s[1] /\ Len(s) \in Nat \ {0} /\ Len(z) \in Nat
  BY HeadTailProperties, EmptySeq DEF Incoming
<1>. HIDE DEF z
<1>2. ~call[t].completed
  BY DEF Exact
<1>3. ASSUME Incoming(t).kind = "completed"
      PROVE  svc[t].phase = "completed" /\ z = <<>> /\ call[t].message = LastText(t)
  <2>1. 1 \in Completions(s)
    BY <1>1, <1>3 DEF Completions
  <2>2. svc[t].phase = "completed" /\ Len(s) = 1
    BY <2>1 DEF Exact
  <2>3. z = <<>>
    BY <1>1, <2>2, EmptySeq
  <2>4. TextsIn(s) = {}
    BY <1>1, <1>3, <2>2 DEF TextsIn
  <2>. QED
    BY <2>2, <2>3, <2>4 DEF Exact
<1>4. ASSUME NEW i \in Completions(z)
      PROVE  i = Len(z) /\ svc[t].phase = "completed"
  <2>1. i + 1 \in Completions(s) /\ i \in 1..Len(z)
    BY <1>1, <1>4 DEF Completions
  <2>. QED
    BY <1>1, <2>1 DEF Exact
<1>5. \A i \in TextsIn(z) : i + 1 \in TextsIn(s) /\ s[i + 1] = z[i] /\ i \in Nat
  BY <1>1 DEF TextsIn
<1>6. \A j \in TextsIn(s) : j \in Nat /\ (j = 1 \/ j - 1 \in TextsIn(z))
  BY <1>1 DEF TextsIn
<1>7. 1 \in TextsIn(s) <=> Incoming(t).kind = "text"
  BY <1>1 DEF TextsIn
<1>8. ASSUME TextsIn(z) = {} PROVE After(t).message = LastText(t)
  <2>1. CASE Incoming(t).kind = "text"
    <3>1. 1 \in TextsIn(s) /\ \A j \in TextsIn(s) : j <= 1
      BY <1>6, <1>7, <1>8, <2>1
    <3>2. s[1].text = LastText(t)
      BY <3>1 DEF Exact
    <3>. QED
      BY <1>1, <2>1, <3>2 DEF After
  <2>2. CASE Incoming(t).kind # "text"
    <3>1. TextsIn(s) = {}
      BY <1>6, <1>7, <1>8, <2>2
    <3>. QED
      BY <2>2, <3>1 DEF After, Exact
  <2>. QED
    BY <2>1, <2>2
<1>9. ASSUME NEW i \in TextsIn(z), \A j \in TextsIn(z) : j <= i
      PROVE  z[i].text = LastText(t)
  <2>1. i + 1 \in TextsIn(s) /\ s[i + 1] = z[i] /\ i \in Nat
    BY <1>5, <1>9
  <2>2. \A j \in TextsIn(s) : j <= i + 1
    BY <1>6, <1>9, <2>1
  <2>. QED
    BY <2>1, <2>2 DEF Exact
<1>. QED
  BY <1>2, <1>3, <1>4, <1>8, <1>9 DEF z

\* A taken message leaves the other wires, and the tail of its own.
LEMMA TakenWire ==
  ASSUME TypeOK, Fresh, NEW t \in Turns, IsReading(t), Taken(t)
  PROVE  /\ call[t].conn \in Conns /\ call[t].conn \in open /\ open' = open
         /\ wire[call[t].conn] \in Seq(Message) /\ wire[call[t].conn] # <<>>
         /\ wire'[call[t].conn] = Tail(wire[call[t].conn])
         /\ \A c \in Conns \ {call[t].conn} : wire'[c] = wire[c]
         /\ Incoming(t) \in Message
<1>1. /\ wire[call[t].conn] # <<>> /\ call[t].conn \in open /\ open' = open
      /\ wire' = [wire EXCEPT ![call[t].conn] = Tail(wire[call[t].conn])]
  BY DEF Taken
<1>2. call[t].conn \in Conns /\ wire[call[t].conn] \in Seq(Message)
  BY ActiveHasConn DEF IsActive
<1>3. Incoming(t) \in Message
  BY <1>1, <1>2 DEF Incoming
<1>4. wire \in [Conns -> Seq(Message)]
  BY DEF TypeOK
<1>. QED
  BY <1>1, <1>2, <1>3, <1>4

\* A turn takes a message and reads on.
LEMMA ReadsKeeps ==
  ASSUME TypeOK, TypeOK', AnswerInv, Fresh', NEW t \in Turns, Reads(t)
  PROVE  AnswerInv'
<1>. USE DEF AnswerInv
<1>. DEFINE c0 == call[t].conn
<1>1. /\ KeepOthers(t) /\ SameService(t) /\ closed' = closed /\ shared' = shared
      /\ IsReading(t) /\ IsReading(t)' /\ Taken(t)
      /\ call'[t].conn = c0 /\ call'[t].result = call[t].result
      /\ call'[t].completed = After(t).completed
      /\ call'[t].message = After(t).message
  BY DEF Reads
<1>2. IsActive(t) /\ IsActive(t)' /\ ~At(t, "send")'
  BY <1>1 DEF IsReading, IsActive, Readers, At
<1>3. /\ c0 \in Conns /\ c0 \in open /\ open' = open
      /\ wire[c0] \in Seq(Message) /\ wire[c0] # <<>> /\ wire'[c0] = Tail(wire[c0])
      /\ \A c \in Conns \ {c0} : wire'[c] = wire[c]
  BY <1>1, TakenWire
<1>4. After(t).completed <=> call[t].completed \/ Incoming(t).kind = "completed"
  BY DEF After
<1>5. Few'
  BY <1>1, FewKept
<1>6. \A c : Busy(c)' = Busy(c) /\ Active(c)' = Active(c)
  <2> SUFFICES ASSUME NEW c PROVE Busy(c)' = Busy(c) /\ Active(c)' = Active(c)
    OBVIOUS
  <2>1. Busy(c)' \ {t} = Busy(c) \ {t} /\ Active(c)' \ {t} = Active(c) \ {t}
    BY <1>1, SetsButOne
  <2>2. t \in Busy(c)' <=> t \in Busy(c)
    BY <1>1 DEF Busy, Unfinished, SameService
  <2>3. t \in Active(c)' <=> t \in Active(c)
    BY <1>1, <1>2 DEF Active
  <2>. QED
    BY <2>1, <2>2, <2>3
<1>7. Balance'
  <2> SUFFICES ASSUME NEW c \in Conns, ~closed'[c]
               PROVE  Cardinality(Busy(c)') + Cardinality(Completions(wire[c])')
                        + Cardinality(Read(c)') <= Cardinality(Reading(c)')
    BY DEF Balance
  <2>1. ~closed[c]
    BY <1>1
  <2>2. PICK b, r, d \in Nat :
           /\ Cardinality(Busy(c)) = b + OneIf(t \in Busy(c))
           /\ Cardinality(Busy(c)') = b + OneIf(t \in Busy(c)')
           /\ Cardinality(Reading(c)) = r + OneIf(t \in Reading(c))
           /\ Cardinality(Reading(c)') = r + OneIf(t \in Reading(c)')
           /\ Cardinality(Read(c)) = d + OneIf(t \in Read(c))
           /\ Cardinality(Read(c)') = d + OneIf(t \in Read(c)')
    BY <1>1, CountButOne
  <2>3. t \in Reading(c)' <=> t \in Reading(c)
    BY <1>1 DEF Reading
  <2>4. CASE c = c0
    <3>1. Cardinality(Completions(wire[c])) =
            Cardinality(Completions(wire'[c])) + OneIf(Incoming(t).kind = "completed")
      BY <1>3, <2>4, CountTail DEF Incoming
    <3>2. wire'[c] \in Seq(Message)
      BY DEF TypeOK
    <3>3. Cardinality(Completions(wire'[c])) \in Nat
      BY <3>2, FiniteCompletions
    <3>4. t \in Read(c)' => t \in Read(c) \/ Incoming(t).kind = "completed"
      BY <1>1, <1>4, <2>4 DEF Read, Reading
    <3>. QED
      BY <1>6, <2>1, <2>2, <2>3, <3>1, <3>3, <3>4, BalanceHas DEF OneIf
  <2>5. CASE c # c0
    <3>1. wire'[c] = wire[c] /\ t \notin Read(c) /\ t \notin Read(c)'
      BY <1>1, <1>3, <2>5 DEF Read, Reading
    <3>. QED
      BY <1>6, <2>1, <2>2, <2>3, <3>1, BalanceHas DEF OneIf
  <2>. QED
    BY <2>4, <2>5
<1>8. Tidy'
  <2> SUFFICES ASSUME NEW c \in Conns, wire'[c] # <<>>
               PROVE  Busy(c)' # {} \/ Len(wire'[c]) \in Completions(wire'[c])
    BY DEF Tidy
  <2>. QED
    BY <1>1, <1>6, TidyTaken DEF Tidy
<1>9. Alone'
  <2> SUFFICES ASSUME NEW u \in Turns \ shared, IsActive(u)'
               PROVE  Active(call[u].conn)' = {u}
    BY <1>1 DEF Alone
  <2>1. call'[u].conn = call[u].conn /\ IsActive(u)
    BY <1>1, <1>2 DEF KeepOthers, Kept, IsActive, IsReading, At
  <2>. QED
    BY <1>6, <2>1 DEF Alone
<1>10. AllOwn'
  <2> SUFFICES ASSUME NEW u \in Turns \ shared PROVE Own(u)'
    BY <1>1 DEF AllOwn
  <2>0. Own(u)
    BY DEF AllOwn
  <2>1. CASE u = t
    <3>. DEFINE s == wire[c0]
    <3>1. Exact(t, s)
      BY <1>1, <1>3, <2>0, <2>1 DEF Own
    <3>2. /\ ~call[t].completed
          /\ Incoming(t).kind = "completed" =>
               svc[t].phase = "completed" /\ Tail(s) = <<>> /\ call[t].message = LastText(t)
          /\ \A i \in Completions(Tail(s)) : i = Len(Tail(s)) /\ svc[t].phase = "completed"
          /\ TextsIn(Tail(s)) = {} => After(t).message = LastText(t)
          /\ \A i \in TextsIn(Tail(s)) :
               (\A j \in TextsIn(Tail(s)) : j <= i) => Tail(s)[i].text = LastText(t)
      BY <1>3, <3>1, ExactTail
    <3>3. LastText(t)' = LastText(t) /\ svc'[t].phase = svc[t].phase
      BY <1>1 DEF LastText, SameService
    <3>4. Exact(t, wire[c0])'
      BY <1>1, <1>3, <1>4, <3>2, <3>3 DEF Exact
    <3>5. Busy(call[t].conn)' \subseteq {t}
      BY <1>1, <1>2, <1>6, <2>0, <2>1 DEF Own
    <3>6. call'[t].result # "ok"
      BY <1>1, <1>2, <2>0, <2>1 DEF Own, Answered
    <3>. QED
      BY <1>1, <1>2, <2>1, <3>4, <3>5, <3>6 DEF Own
  <2>2. CASE u # t
    <3>1. Kept(u)
      BY <1>1, <2>2 DEF KeepOthers
    <3>2. Like(u)
      BY <3>1, KeptIsLike
    <3>3. IsActive(u) => Busy(call[u].conn)' \subseteq {u}
      BY <1>6, <2>0, <3>1 DEF Own, Kept
    <3>4. IsActive(u) => /\ wire'[call[u].conn] \in {wire[call[u].conn], <<>>}
                         /\ call[u].conn \in open' =>
                              /\ call[u].conn \in open
                              /\ wire'[call[u].conn] = wire[call[u].conn]
      BY <1>1, <2>2, OwnWireKept
    <3>. QED
      BY <2>0, <3>2, <3>3, <3>4, OwnKept
  <2>. QED
    BY <2>1, <2>2
<1>. QED
  BY <1>5, <1>7, <1>8, <1>9, <1>10

\* A turn takes the message that ends its loop, and returns its answer.
LEMMA ReturnsKeeps ==
  ASSUME TypeOK, TypeOK', AnswerInv, Fresh', NEW t \in Turns, Returns(t)
  PROVE  AnswerInv'
<1>. USE DEF AnswerInv
<1>. DEFINE c0 == call[t].conn
<1>1. /\ KeepOthers(t) /\ SameService(t) /\ closed' = closed /\ shared' = shared
      /\ IsReading(t) /\ ~IsActive(t)' /\ Taken(t)
      /\ call'[t].conn = c0 /\ After(t).completed
      /\ call'[t].message = After(t).message /\ call'[t].message # NoText
  BY DEF Returns
<1>2. IsActive(t) /\ ~IsReading(t)' /\ ~At(t, "send")'
  BY <1>1 DEF IsActive
<1>3. /\ c0 \in Conns /\ c0 \in open /\ open' = open
      /\ wire[c0] \in Seq(Message) /\ wire[c0] # <<>> /\ wire'[c0] = Tail(wire[c0])
      /\ \A c \in Conns \ {c0} : wire'[c] = wire[c]
  BY <1>1, TakenWire
<1>4. call[t].completed \/ Incoming(t).kind = "completed"
  BY <1>1 DEF After
<1>5. Few'
  BY <1>1, FewKept
<1>6. \A c : Busy(c)' = Busy(c) /\ Active(c)' = Active(c) \ {t}
  <2> SUFFICES ASSUME NEW c PROVE Busy(c)' = Busy(c) /\ Active(c)' = Active(c) \ {t}
    OBVIOUS
  <2>1. Busy(c)' \ {t} = Busy(c) \ {t} /\ Active(c)' \ {t} = Active(c) \ {t}
    BY <1>1, SetsButOne
  <2>2. t \in Busy(c)' <=> t \in Busy(c)
    BY <1>1 DEF Busy, Unfinished, SameService
  <2>3. t \notin Active(c)'
    BY <1>1, <1>2 DEF Active
  <2>. QED
    BY <2>1, <2>2, <2>3
<1>7. Balance'
  <2> SUFFICES ASSUME NEW c \in Conns, ~closed'[c]
               PROVE  Cardinality(Busy(c)') + Cardinality(Completions(wire[c])')
                        + Cardinality(Read(c)') <= Cardinality(Reading(c)')
    BY DEF Balance
  <2>1. ~closed[c]
    BY <1>1
  <2>2. PICK b, r, d \in Nat :
           /\ Cardinality(Busy(c)) = b + OneIf(t \in Busy(c))
           /\ Cardinality(Busy(c)') = b + OneIf(t \in Busy(c)')
           /\ Cardinality(Reading(c)) = r + OneIf(t \in Reading(c))
           /\ Cardinality(Reading(c)') = r + OneIf(t \in Reading(c)')
           /\ Cardinality(Read(c)) = d + OneIf(t \in Read(c))
           /\ Cardinality(Read(c)') = d + OneIf(t \in Read(c)')
    BY <1>1, CountButOne
  <2>3. t \notin Reading(c)' /\ t \notin Read(c)'
    BY <1>2 DEF Reading, Read
  <2>4. CASE c = c0
    <3>1. Cardinality(Completions(wire[c])) =
            Cardinality(Completions(wire'[c])) + OneIf(Incoming(t).kind = "completed")
      BY <1>3, <2>4, CountTail DEF Incoming
    <3>2. wire'[c] \in Seq(Message)
      BY DEF TypeOK
    <3>3. Cardinality(Completions(wire'[c])) \in Nat
      BY <3>2, FiniteCompletions
    <3>4. t \in Reading(c) /\ (t \in Read(c) \/ Incoming(t).kind = "completed")
      BY <1>1, <1>4, <2>4 DEF Read, Reading
    <3>. QED
      BY <1>6, <2>1, <2>2, <2>3, <3>1, <3>3, <3>4, BalanceHas DEF OneIf
  <2>5. CASE c # c0
    <3>1. wire'[c] = wire[c] /\ t \notin Read(c) /\ t \notin Reading(c)
      BY <1>1, <1>3, <2>5 DEF Read, Reading
    <3>. QED
      BY <1>6, <2>1, <2>2, <2>3, <3>1, BalanceHas DEF OneIf
  <2>. QED
    BY <2>4, <2>5
<1>8. Tidy'
  <2> SUFFICES ASSUME NEW c \in Conns, wire'[c] # <<>>
               PROVE  Busy(c)' # {} \/ Len(wire'[c]) \in Completions(wire'[c])
    BY DEF Tidy
  <2>. QED
    BY <1>1, <1>6, TidyTaken DEF Tidy
<1>9. Alone'
  <2> SUFFICES ASSUME NEW u \in Turns \ shared, IsActive(u)'
               PROVE  Active(call[u].conn)' = {u}
    BY <1>1 DEF Alone
  <2>1. u # t /\ call'[u].conn = call[u].conn /\ IsActive(u)
    BY <1>1, <1>2 DEF KeepOthers, Kept, IsActive, IsReading, At
  <2>. QED
    BY <1>6, <2>1 DEF Alone
<1>10. AllOwn'
  <2> SUFFICES ASSUME NEW u \in Turns \ shared PROVE Own(u)'
    BY <1>1 DEF AllOwn
  <2>0. Own(u)
    BY DEF AllOwn
  <2>1. CASE u = t
    <3>. DEFINE s == wire[c0]
    <3>1. Exact(t, s)
      BY <1>1, <1>3, <2>0, <2>1 DEF Own
    <3>2. /\ ~call[t].completed
          /\ Incoming(t).kind = "completed" =>
               svc[t].phase = "completed" /\ Tail(s) = <<>> /\ call[t].message = LastText(t)
          /\ TextsIn(Tail(s)) = {} => After(t).message = LastText(t)
      BY <1>3, <3>1, ExactTail
    <3>3. svc[t].phase = "completed" /\ Tail(s) = <<>>
      BY <1>4, <3>2
    <3>4. TextsIn(<<>>) = {}
      BY DEF TextsIn
    <3>5. call'[t].message = LastText(t)
      BY <1>1, <3>2, <3>3, <3>4
    <3>6. call'[t].message = <<t, svc[t].texts>>
      BY <1>1, <3>5 DEF LastText
    <3>. QED
      BY <1>1, <1>2, <2>1, <3>3, <3>6 DEF Own, Answered, SameService
  <2>2. CASE u # t
    <3>1. Kept(u)
      BY <1>1, <2>2 DEF KeepOthers
    <3>2. Like(u)
      BY <3>1, KeptIsLike
    <3>3. IsActive(u) => Busy(call[u].conn)' \subseteq {u}
      BY <1>6, <2>0, <3>1 DEF Own, Kept
    <3>4. IsActive(u) => /\ wire'[call[u].conn] \in {wire[call[u].conn], <<>>}
                         /\ call[u].conn \in open' =>
                              /\ call[u].conn \in open
                              /\ wire'[call[u].conn] = wire[call[u].conn]
      BY <1>1, <2>2, OwnWireKept
    <3>. QED
      BY <2>0, <3>2, <3>3, <3>4, OwnKept
  <2>. QED
    BY <2>1, <2>2
<1>. QED
  BY <1>5, <1>7, <1>8, <1>9, <1>10

\* What the service says next of a turn is on the wire as its own.
LEMMA ExactAppend ==
  ASSUME NEW t \in Turns, NEW s \in Seq(Message), NEW m \in Message,
         Exact(t, s), call' = call, svc[t].phase # "completed",
         svc[t].texts \in Nat,
         IF m.kind = "completed" THEN svc'[t].phase = "completed" ELSE TRUE,
         IF m.kind = "text"
         THEN svc'[t].texts = svc[t].texts + 1 /\ m.text = <<t, svc'[t].texts>>
         ELSE svc'[t].texts = svc[t].texts
  PROVE  /\ ~call[t].completed
         /\ \A i \in Completions(Append(s, m)) :
              i = Len(Append(s, m)) /\ svc'[t].phase = "completed"
         /\ TextsIn(Append(s, m)) = {} => call'[t].message = LastText(t)'
         /\ \A i \in TextsIn(Append(s, m)) :
              (\A j \in TextsIn(Append(s, m)) : j <= i) => Append(s, m)[i].text = LastText(t)'
<1>. DEFINE z == Append(s, m)
            n == Len(z)
<1>1. /\ z \in Seq(Message) /\ n = Len(s) + 1 /\ Len(s) \in Nat
      /\ \A i \in 1..Len(s) : z[i] = s[i]
      /\ z[n] = m
  BY AppendProperties
<1>. HIDE DEF z
<1>2. ~call[t].completed /\ Completions(s) = {}
  BY DEF Exact
<1>3. ASSUME NEW i \in Completions(z) PROVE i = n /\ svc'[t].phase = "completed"
  <2>1. i \in 1..Len(s) => i \in Completions(s)
    BY <1>1, <1>3 DEF Completions
  <2>2. i = n
    BY <1>1, <1>2, <1>3, <2>1 DEF Completions
  <2>. QED
    BY <1>1, <1>3, <2>2 DEF Completions
<1>4. CASE m.kind = "text"
  <2>1. n \in TextsIn(z) /\ \A i \in TextsIn(z) : i \in 1..n
    BY <1>1, <1>4 DEF TextsIn
  <2>2. LastText(t)' = m.text
    BY <1>4 DEF LastText
  <2>3. ASSUME NEW i \in TextsIn(z), \A j \in TextsIn(z) : j <= i
        PROVE  z[i].text = LastText(t)'
    <3>1. i = n
      BY <1>1, <2>1, <2>3
    <3>. QED
      BY <1>1, <2>2, <3>1
  <2>. QED
    BY <1>2, <1>3, <2>1, <2>3 DEF z
<1>5. CASE m.kind # "text"
  <2>1. TextsIn(z) = TextsIn(s) /\ \A i \in TextsIn(s) : z[i] = s[i]
    BY <1>1, <1>5 DEF TextsIn
  <2>2. LastText(t)' = LastText(t)
    BY <1>5 DEF LastText
  <2>. QED
    BY <1>2, <1>3, <2>1, <2>2 DEF z, Exact
<1>. QED
  BY <1>4, <1>5

\* The service says something of a turn.
LEMMA SaysKeeps ==
  ASSUME TypeOK, TypeOK', AnswerInv, Fresh', NEW t \in Turns, NEW m \in Message,
         Says(t, m)
  PROVE  AnswerInv'
<1>. USE DEF AnswerInv
<1>. DEFINE c0 == call[t].conn
<1>1. /\ call' = call /\ (\A u \in Turns \ {t} : SameService(u))
      /\ open' = open /\ closed' = closed /\ shared' = shared
      /\ c0 \in Conns /\ c0 \in open /\ wire' = [wire EXCEPT ![c0] = Append(wire[c0], m)]
      /\ svc[t].phase \in {"asked", "working"}
      /\ IF m.kind = "completed" THEN svc'[t].phase = "completed"
                                 ELSE svc'[t].phase \in {"working", "refused"}
      /\ IF m.kind = "text"
         THEN svc'[t].texts = svc[t].texts + 1 /\ m.text = <<t, svc'[t].texts>>
         ELSE svc'[t].texts = svc[t].texts
  BY DEF Says
<1>2. /\ wire \in [Conns -> Seq(Message)] /\ svc[t] \in Service
      /\ \A u \in Turns : IsActive(u) => call[u].conn \in Conns
  BY ActiveHasConn DEF TypeOK
<1>3. /\ wire'[c0] = Append(wire[c0], m) /\ wire[c0] \in Seq(Message)
      /\ \A c \in Conns \ {c0} : wire'[c] = wire[c]
  BY <1>1, <1>2
<1>4. KeepOthers(t)
  BY <1>1 DEF KeepOthers, Kept
<1>5. \A c : Reading(c)' = Reading(c) /\ Read(c)' = Read(c) /\ Active(c)' = Active(c)
  BY <1>1 DEF Reading, Read, Active, IsActive, IsReading, At
<1>6. /\ t \in Busy(c0)
      /\ m.kind = "completed" <=> t \notin Busy(c0)'
      /\ \A c : c # c0 => Busy(c)' = Busy(c)
  <2>1. t \in Busy(c0) /\ (m.kind = "completed" <=> t \notin Busy(c0)')
    BY <1>1 DEF Busy, Unfinished
  <2>2. ASSUME NEW c, c # c0 PROVE Busy(c)' = Busy(c)
    <3>1. t \notin Busy(c) /\ t \notin Busy(c)'
      BY <1>1, <2>2 DEF Busy
    <3>. QED
      BY <1>4, <3>1, SetsButOne
  <2>. QED
    BY <2>1, <2>2
<1>7. Few'
  BY <1>4, FewKept
<1>8. Balance'
  <2> SUFFICES ASSUME NEW c \in Conns, ~closed'[c]
               PROVE  Cardinality(Busy(c)') + Cardinality(Completions(wire[c])')
                        + Cardinality(Read(c)') <= Cardinality(Reading(c)')
    BY DEF Balance
  <2>1. ~closed[c]
    BY <1>1
  <2>2. CASE c = c0
    <3>1. PICK b, r, d \in Nat :
             /\ Cardinality(Busy(c)) = b + OneIf(t \in Busy(c))
             /\ Cardinality(Busy(c)') = b + OneIf(t \in Busy(c)')
             /\ Cardinality(Reading(c)) = r + OneIf(t \in Reading(c))
             /\ Cardinality(Reading(c)') = r + OneIf(t \in Reading(c)')
             /\ Cardinality(Read(c)) = d + OneIf(t \in Read(c))
             /\ Cardinality(Read(c)') = d + OneIf(t \in Read(c)')
      BY <1>4, CountButOne
    <3>2. Cardinality(Completions(wire'[c])) =
            Cardinality(Completions(wire[c])) + OneIf(m.kind = "completed")
      BY <1>3, <2>2, CountAppend
    <3>3. t \in Busy(c) /\ (m.kind = "completed" <=> t \notin Busy(c)')
      BY <1>1, <1>6, <2>2
    <3>4. Reading(c)' = Reading(c) /\ Read(c)' = Read(c)
      BY <1>5
    <3>5. Cardinality(Busy(c)) = Cardinality(Busy(c)') + OneIf(m.kind = "completed")
      BY <3>1, <3>3 DEF OneIf
    <3>6. Cardinality(Busy(c)') \in Nat /\ OneIf(m.kind = "completed") \in Nat
      BY <3>1 DEF OneIf
    <3>. QED
      BY <2>1, <3>2, <3>4, <3>5, <3>6, BalanceHas
  <2>3. CASE c # c0
    BY <1>3, <1>5, <1>6, <2>1, <2>3, BalanceHas
  <2>. QED
    BY <2>2, <2>3
<1>9. Tidy'
  <2> SUFFICES ASSUME NEW c \in Conns, wire'[c] # <<>>
               PROVE  Busy(c)' # {} \/ Len(wire'[c]) \in Completions(wire'[c])
    BY DEF Tidy
  <2>1. CASE c = c0 /\ m.kind = "completed"
    <3>1. /\ Len(wire'[c]) = Len(wire[c]) + 1 /\ Len(wire[c]) \in Nat
          /\ wire'[c][Len(wire[c]) + 1] = m
      BY <1>3, <2>1, AppendProperties
    <3>. QED
      BY <2>1, <3>1 DEF Completions
  <2>2. CASE c = c0 /\ m.kind # "completed"
    BY <1>1, <1>6, <2>2
  <2>3. CASE c # c0
    BY <1>3, <1>6, <2>3 DEF Tidy
  <2>. QED
    BY <2>1, <2>2, <2>3
<1>10. Alone'
  BY <1>1, <1>5 DEF Alone, IsActive, IsReading, At
<1>11. AllOwn'
  <2> SUFFICES ASSUME NEW u \in Turns \ shared PROVE Own(u)'
    BY <1>1 DEF AllOwn
  <2>0. Own(u)
    BY DEF AllOwn
  <2>1. CASE u = t
    <3>0. (IsActive(t)' <=> IsActive(t)) /\ (IsReading(t)' <=> IsReading(t))
          /\ (At(t, "send")' <=> At(t, "send"))
      BY <1>1 DEF IsActive, IsReading, At
    <3>1. call'[t].result # "ok"
      BY <1>1, <2>0, <2>1 DEF Own, Answered
    <3>2. ~At(t, "send")
      BY <1>1 DEF Fresh, Unsent, At
    <3>3. IsActive(t)' => Busy(call[t].conn)' \subseteq {t}
      BY <1>1, <1>4, <2>0, <2>1, <3>0, SetsButOne DEF Own
    <3>4. ASSUME IsReading(t) PROVE Exact(t, wire[c0])'
      <4>1. Exact(t, wire[c0]) /\ svc[t].texts \in Nat
        <5>1. svc[t].texts \in Nat
          BY <1>2, BoundsAreNat DEF Service
        <5>. QED
          BY <1>1, <2>0, <2>1, <3>4, <5>1 DEF Own
      <4>2. svc[t].phase # "completed"
        BY <1>1
      <4>3. /\ ~call[t].completed
            /\ \A i \in Completions(Append(wire[c0], m)) :
                 i = Len(Append(wire[c0], m)) /\ svc'[t].phase = "completed"
            /\ TextsIn(Append(wire[c0], m)) = {} => call'[t].message = LastText(t)'
            /\ \A i \in TextsIn(Append(wire[c0], m)) :
                 (\A j \in TextsIn(Append(wire[c0], m)) : j <= i)
                   => Append(wire[c0], m)[i].text = LastText(t)'
        BY <1>1, <1>3, <4>1, <4>2, ExactAppend
      <4>. QED
        BY <1>1, <1>3, <4>3 DEF Exact
    <3>. QED
      BY <1>1, <2>1, <3>0, <3>1, <3>2, <3>3, <3>4 DEF Own
  <2>2. CASE u # t
    <3>1. Kept(u)
      BY <1>4, <2>2 DEF KeepOthers
    <3>2. Like(u)
      BY <3>1, KeptIsLike
    <3>3. IsActive(u) => call[u].conn # c0
      BY <1>6, <2>0, <2>2 DEF Own
    <3>4. IsActive(u) => Busy(call[u].conn)' \subseteq {u}
      BY <1>1, <1>6, <2>0, <3>3 DEF Own
    <3>5. IsActive(u) => /\ wire'[call[u].conn] \in {wire[call[u].conn], <<>>}
                         /\ call[u].conn \in open' =>
                              /\ call[u].conn \in open
                              /\ wire'[call[u].conn] = wire[call[u].conn]
      BY <1>1, <1>2, <1>3, <3>3
    <3>. QED
      BY <2>0, <3>2, <3>4, <3>5, OwnKept
  <2>. QED
    BY <2>1, <2>2
<1>. QED
  BY <1>7, <1>8, <1>9, <1>10, <1>11

-----------------------------------------------------------------------------
(* Of which kind a step is, and that it leaves nothing to those who have not sent. *)

\* A step that changes t's call only.
LEMMA UpdateKeeps ==
  ASSUME TypeOK, NEW t \in Turns, NEW d, Update(t, d)
  PROVE  /\ call'[t] = d /\ \A u \in Turns \ {t} : call'[u] = call[u]
         /\ (\A u \in Turns \ {t} : SameService(u)) => KeepOthers(t)
<1>1. call'[t] = d /\ \A u \in Turns \ {t} : call'[u] = call[u]
  BY DEF Update, TypeOK
<1>. QED
  BY <1>1 DEF KeepOthers, Kept

\* Sockets shut or left alone.
LEMMA LossyShut ==
  ASSUME TypeOK, NEW C, Shut(C)
  PROVE  Lossy
BY DEF Lossy, Shut, TypeOK

\* Where nothing is sent or shut, nothing is lost.
LEMMA LossySame ==
  ASSUME UNCHANGED <<open, wire>>
  PROVE  Lossy
BY DEF Lossy

\* Closing sessions loses messages and reopens no session.
LEMMA CloseCloses ==
  ASSUME TypeOK, NEW C, Close(C)
  PROVE  Lossy /\ StayClosed
<1>1. Lossy
  BY LossyShut DEF Close
<1>2. StayClosed
  BY DEF Close, StayClosed
<1>. QED
  BY <1>1, <1>2

\* What is fresh stays it in a step after which no more is unsent.
LEMMA FreshKept ==
  ASSUME TypeOK, Fresh, conns' = conns, pool' \in 0..conns, open' \subseteq open,
         \A c \in Conns : c \notin open' => wire'[c] = <<>>,
         \A u \in Turns : Like(u),
         \A u \in Turns : Unsent(u)' => Unsent(u)
  PROVE  Fresh'
<1>1. \A u \in Turns : /\ call'[u].conn = call[u].conn
                       /\ call'[u].completed = call[u].completed
                       /\ call'[u].message = call[u].message
                       /\ call'[u].result = call[u].result
                       /\ svc'[u].phase = svc[u].phase
  BY DEF Like, SameService
<1>. QED
  BY <1>1 DEF Fresh

\* Steps of the approvals, of cancellations and of the network.
LEMMA StillAside ==
  ASSUME TypeOK, Fresh, UNCHANGED <<call, pool, conns, svc, shared>>,
         StayClosed, (\E C : Shut(C)) \/ UNCHANGED <<open, wire>>
  PROVE  Still /\ Fresh'
<1>1. \A u \in Turns : Like(u) /\ (Unsent(u)' => Unsent(u))
  BY DEF Like, SameService, IsReading, At, Unsent
<1>2. Lossy
  BY LossyShut, LossySame
<1>3. open' \subseteq open /\ \A c \in Conns : c \notin open' => wire'[c] = <<>>
  <2>1. CASE \E C : Shut(C)
    BY <2>1, FreshShut
  <2>2. CASE UNCHANGED <<open, wire>>
    BY <2>2 DEF Fresh
  <2>. QED
    BY <2>1, <2>2
<1>4. conns' = conns /\ pool' \in 0..conns
  BY DEF Fresh
<1>. QED
  BY <1>1, <1>2, <1>3, <1>4, FreshKept DEF Still

\* Steps of t within its phase.
LEMMA StillUpdate ==
  ASSUME TypeOK, Fresh, NEW t \in Turns, NEW d, Update(t, d),
         d.conn = call[t].conn, d.completed = call[t].completed,
         d.message = call[t].message, d.result = call[t].result,
         \/ d.pc \in Readers /\ IsReading(t)
         \/ d.pc = "check" /\ At(t, "pool")
         \/ d.pc = "done" /\ At(t, "release"),
         \A u \in Turns : SameService(u),
         conns' = conns, pool' \in 0..conns, shared' = shared, StayClosed,
         (\E C : Shut(C)) \/ UNCHANGED <<open, wire>>
  PROVE  Still /\ Fresh'
<1>1. call'[t] = d /\ \A u \in Turns \ {t} : call'[u] = call[u]
  BY UpdateKeeps
<1>2. Like(t) /\ (Unsent(t)' => Unsent(t))
  BY <1>1 DEF Like, IsReading, Readers, At, Unsent
<1>3. \A u \in Turns \ {t} : Like(u) /\ (Unsent(u)' => Unsent(u))
  BY <1>1 DEF Like, IsReading, At, Unsent
<1>4. Lossy
  BY LossyShut, LossySame
<1>5. open' \subseteq open /\ \A c \in Conns : c \notin open' => wire'[c] = <<>>
  <2>1. CASE \E C : Shut(C)
    BY <2>1, FreshShut
  <2>2. CASE UNCHANGED <<open, wire>>
    BY <2>2 DEF Fresh
  <2>. QED
    BY <2>1, <2>2
<1>. QED
  BY <1>2, <1>3, <1>4, <1>5, FreshKept DEF Still

\* A turn that fails.
LEMMA FailLeaves ==
  ASSUME TypeOK, Fresh, NEW t \in Turns, At(t, "send") \/ At(t, "read"), Fail(t),
         (\E kind : Receives(t, kind)) \/ UNCHANGED network,
         UNCHANGED <<service, observers>>
  PROVE  Leaves(t) /\ Fresh'
<1>. DEFINE d == [call[t] EXCEPT !.pc = "release", !.rpc = 0,
                    !.result = IF t \in cancelled THEN "cancelled" ELSE "failed"]
<1>0. call[t] \in AnyCall /\ ~At(t, "idle")
  BY CallFields DEF At
<1>1. d.pc = "release" /\ d.conn = call[t].conn /\ d.result # "ok"
  BY <1>0 DEF AnyCall
<1>2. /\ Update(t, d) /\ closed' = [closed EXCEPT ![call[t].conn] = TRUE]
      /\ UNCHANGED <<pool, conns, svc, shared>>
  BY DEF Fail, MarkClosed, service, observers
<1>. HIDE DEF d
<1>3. call'[t] = d /\ KeepOthers(t) /\ SameService(t)
  BY <1>2, UpdateKeeps DEF SameService
<1>4. StayClosed /\ closed'[call[t].conn]
  BY <1>0, <1>2, CallFields DEF StayClosed, TypeOK
<1>5. ~IsActive(t)' /\ ~At(t, "idle")'
  BY <1>1, <1>3 DEF IsActive, IsReading, Readers, At
<1>6. Lossy \/ (IsReading(t) /\ Taken(t))
  <2>1. CASE \E kind : Receives(t, kind)
    BY <2>1 DEF Receives, Taken, IsReading, Readers, At
  <2>2. CASE UNCHANGED network
    BY <2>2, LossySame DEF network
  <2>. QED
    BY <2>1, <2>2
<1>7. open' \subseteq open /\ \A c \in Conns : c \notin open' => wire'[c] = <<>>
  <2>1. CASE \E kind : Receives(t, kind)
    BY <2>1, FreshReceives
  <2>2. CASE UNCHANGED network
    BY <2>2 DEF Fresh, network
  <2>. QED
    BY <2>1, <2>2
<1>8. pool' \in 0..conns /\ \A u \in Turns : svc'[u].phase = svc[u].phase
  BY <1>2 DEF Fresh
<1>9. Fresh'
  BY <1>1, <1>2, <1>7, <1>8, FreshUpdate
<1>. QED
  BY <1>1, <1>2, <1>3, <1>4, <1>5, <1>6, <1>9 DEF Leaves

\* The steps up to turn/start.
LEMMA KindBegin ==
  ASSUME TypeOK, Fresh, NEW t \in Turns, Begin(t)
  PROVE  Still \/ Leaves(t) \/ Sets(t) \/ Sends(t)
<1>0. call[t] \in AnyCall /\ conns \in 0..MaxConns
  BY CallFields DEF TypeOK
<1>1. CASE Reuse(t)
  <2>. DEFINE d == [call[t] EXCEPT !.pc = "check", !.conn = pool]
  <2>1. d.pc = "check" /\ d.result = call[t].result
    BY <1>0 DEF AnyCall
  <2>2. /\ Update(t, d) /\ At(t, "idle") /\ UNCHANGED <<svc, open, wire, closed, shared>>
    BY <1>1 DEF Reuse, sessions, network, service, observers
  <2>. HIDE DEF d
  <2>3. call'[t] = d /\ KeepOthers(t) /\ SameService(t)
    BY <2>2, UpdateKeeps DEF SameService
  <2>4. /\ ~IsActive(t)' /\ ~At(t, "idle")' /\ ~IsReading(t) /\ call'[t].result # "ok"
        /\ svc[t].phase = "none"
    BY <2>1, <2>2, <2>3 DEF IsActive, IsReading, Readers, At, Fresh, Unsent
  <2>. QED
    BY <2>2, <2>3, <2>4, LossySame DEF Leaves, StayClosed
<1>2. CASE OpenSession(t)
  <2>. DEFINE d == [call[t] EXCEPT !.pc = "pool", !.conn = conns']
  <2>1. d.pc = "pool" /\ d.result = call[t].result
    BY <1>0 DEF AnyCall
  <2>2. /\ Update(t, d) /\ At(t, "idle") /\ UNCHANGED <<svc, closed, shared>>
    BY <1>2 DEF OpenSession, service, observers
  <2>. HIDE DEF d
  <2>3. call'[t] = d /\ KeepOthers(t) /\ SameService(t)
    BY <2>2, UpdateKeeps DEF SameService
  <2>4. /\ ~IsActive(t)' /\ ~At(t, "idle")' /\ ~IsReading(t) /\ call'[t].result # "ok"
        /\ svc[t].phase = "none"
    BY <2>1, <2>2, <2>3 DEF IsActive, IsReading, Readers, At, Fresh, Unsent
  <2>5. Lossy
    <3>1. pool # conns'
      BY <1>0, <1>2, BoundsAreNat DEF OpenSession, Fresh
    <3>2. \A c \in open' : c \in Conns
      <4>1. conns' \in Conns
        BY <1>0, <1>2, BoundsAreNat DEF OpenSession, Conns
      <4>2. open \subseteq Conns
        BY DEF TypeOK
      <4>. QED
        BY <1>2, <4>1, <4>2 DEF OpenSession
    <3>. QED
      BY <1>2, <3>1, <3>2 DEF OpenSession, Lossy
  <2>. QED
    BY <2>2, <2>3, <2>4, <2>5 DEF Leaves, StayClosed
<1>3. CASE PoolSession(t)
  <2>. DEFINE d == [call[t] EXCEPT !.pc = "check"]
  <2>1. /\ d.pc = "check" /\ d.conn = call[t].conn /\ d.completed = call[t].completed
        /\ d.message = call[t].message /\ d.result = call[t].result
    BY <1>0 DEF AnyCall
  <2>2. /\ Update(t, d) /\ Close({pool}) /\ At(t, "pool") /\ pool' \in 0..conns
        /\ UNCHANGED <<svc, conns, shared>>
    BY <1>3 DEF PoolSession, Goto, service, observers, Fresh
  <2>3. StayClosed /\ Shut({pool}) /\ \A u \in Turns : SameService(u)
    BY <2>2, CloseCloses DEF Close, SameService
  <2>. HIDE DEF d
  <2>. QED
    BY <2>1, <2>2, <2>3, StillUpdate
<1>4. CASE DialPrivate(t)
  <2>. DEFINE d == [call[t] EXCEPT !.pc = "send", !.private = TRUE, !.conn = conns',
                  !.rpc = 3]
  <2>1. /\ d.pc = "send" /\ d.conn = conns' /\ d.completed = call[t].completed
        /\ d.message = call[t].message /\ d.result = call[t].result
    BY <1>0 DEF AnyCall
  <2>2. /\ Update(t, d) /\ At(t, "idle") /\ UNCHANGED <<svc, closed, wire, shared>>
        /\ conns' = conns + 1 /\ open' = open \cup {conns'}
    BY <1>4 DEF DialPrivate, service, observers
  <2>3. conns + 1 \in Conns
    BY <1>0, <1>4, BoundsAreNat DEF DialPrivate, Conns
  <2>. HIDE DEF d
  <2>4. call'[t] = d /\ KeepOthers(t) /\ SameService(t)
    BY <2>2, UpdateKeeps DEF SameService
  <2>5. Unsent(t) /\ ~At(t, "send") /\ At(t, "send")'
    BY <2>1, <2>2, <2>4 DEF At, Unsent
  <2>6. ~call'[t].completed /\ call'[t].message = NoText /\ call'[t].result = "none"
    BY <2>1, <2>4, <2>5 DEF Fresh
  <2>7. Neighbours(t) = {}
    <3>1. conns \in Nat /\ \A u \in Turns : call[u].conn \in 0..conns
      BY <1>0, BoundsAreNat DEF Fresh
    <3>2. \A u \in Turns : call[u].conn # call'[t].conn
      BY <2>1, <2>2, <2>4, <3>1
    <3>. QED
      BY <3>2 DEF Neighbours, Active
  <2>8. \A c \in open' : c \in open \/ c = conns + 1
    BY <2>2
  <2>9. call'[t].conn = conns + 1 /\ StayClosed
    BY <2>1, <2>2, <2>4 DEF StayClosed
  <2>. QED
    BY <2>2, <2>3, <2>4, <2>5, <2>6, <2>7, <2>8, <2>9 DEF Sets
<1>5. CASE RefuseClosed(t)
  <2>. DEFINE d == [call[t] EXCEPT !.pc = "release", !.result = "failed"]
  <2>1. d.pc = "release" /\ d.result = "failed" /\ d.conn = call[t].conn
    BY <1>0 DEF AnyCall
  <2>2. /\ Update(t, d) /\ At(t, "check") /\ UNCHANGED <<svc, open, wire, closed, shared>>
    BY <1>5 DEF RefuseClosed, sessions, network, service, observers
  <2>. HIDE DEF d
  <2>3. call'[t] = d /\ KeepOthers(t) /\ SameService(t)
    BY <2>2, UpdateKeeps DEF SameService
  <2>4. ~IsActive(t)' /\ ~At(t, "idle")' /\ ~IsReading(t) /\ call'[t].result # "ok"
    BY <2>1, <2>2, <2>3 DEF IsActive, IsReading, Readers, At
  <2>. QED
    BY <2>1, <2>2, <2>3, <2>4, LossySame DEF Leaves, StayClosed
<1>6. CASE AllocID(t)
  <2>1. PICK id : Update(t, [call[t] EXCEPT !.pc = "send", !.rpc = id])
    BY <1>6 DEF AllocID
  <2>. DEFINE d == [call[t] EXCEPT !.pc = "send", !.rpc = id]
  <2>2. /\ d.pc = "send" /\ d.conn = call[t].conn /\ d.completed = call[t].completed
        /\ d.message = call[t].message /\ d.result = call[t].result
    BY <1>0 DEF AnyCall
  <2>3. /\ Update(t, d) /\ At(t, "check") /\ ~closed[call[t].conn]
        /\ UNCHANGED <<svc, open, closed, wire, conns>>
        /\ shared' = IF Beside(t) = {} THEN shared ELSE shared \cup {t} \cup Beside(t)
    BY <1>6, <2>1 DEF AllocID, network, service
  <2>. HIDE DEF d
  <2>4. call'[t] = d /\ KeepOthers(t) /\ SameService(t)
    BY <2>3, UpdateKeeps DEF SameService
  <2>5. Unsent(t) /\ ~At(t, "send") /\ At(t, "send")' /\ ~At(t, "idle")
    BY <2>2, <2>3, <2>4 DEF At, Unsent
  <2>6. ~call'[t].completed /\ call'[t].message = NoText /\ call'[t].result = "none"
    BY <2>2, <2>4, <2>5 DEF Fresh
  <2>7. call[t].conn \in Conns /\ call'[t].conn = call[t].conn
    BY <2>2, <2>4, <2>5, CallFields
  <2>8. Neighbours(t) = Beside(t)
    BY <2>7 DEF Neighbours, Beside, Active, IsActive, IsReading, Readers, At
  <2>9. \A c \in open' : c \in open \/ c = conns + 1
    BY <2>3
  <2>10. /\ shared \subseteq shared'
         /\ Neighbours(t) # {} => {t} \cup Neighbours(t) \subseteq shared'
    BY <2>3, <2>8
  <2>11. StayClosed
    BY <2>3 DEF StayClosed
  <2>. QED
    BY <2>3, <2>4, <2>5, <2>6, <2>7, <2>9, <2>10, <2>11 DEF Sets
<1>7. CASE SendStart(t)
  <2>. DEFINE d == [call[t] EXCEPT !.pc = "read"]
              v == [NoService EXCEPT !.phase = "asked", !.id = call[t].rpc]
  <2>1. /\ d.pc = "read" /\ d.conn = call[t].conn /\ d.completed = call[t].completed
        /\ d.message = call[t].message /\ d.result = call[t].result
    BY <1>0 DEF AnyCall
  <2>2. v.phase = "asked" /\ v.texts = 0
    BY DEF NoService
  <2>3. /\ Update(t, d) /\ At(t, "send") /\ svc' = [svc EXCEPT ![t] = v]
        /\ UNCHANGED <<open, wire, closed, shared>>
    BY <1>7 DEF SendStart, Goto, sessions, network, observers
  <2>4. svc'[t] = v /\ \A u \in Turns \ {t} : svc'[u] = svc[u]
    BY <2>3 DEF TypeOK
  <2>. HIDE DEF d, v
  <2>5. call'[t] = d /\ KeepOthers(t)
    BY <2>3, <2>4, UpdateKeeps DEF SameService
  <2>6. IsReading(t)' /\ Unsent(t)
    BY <2>1, <2>3, <2>5 DEF IsReading, Readers, At, Unsent
  <2>7. ~call'[t].completed /\ call'[t].message = NoText /\ call'[t].result = "none"
    BY <2>1, <2>5, <2>6 DEF Fresh
  <2>. QED
    BY <2>1, <2>2, <2>3, <2>4, <2>5, <2>6, <2>7 DEF Sends
<1>8. CASE SendFails(t)
  BY <1>8, FailLeaves DEF SendFails
<1>. QED
  BY <1>1, <1>2, <1>3, <1>4, <1>5, <1>6, <1>7, <1>8 DEF Begin

\* What Receives takes, for a call whose locals become d.
LEMMA ReceivesReads ==
  ASSUME TypeOK, Fresh, NEW t \in Turns, NEW kind, Receives(t, kind), NEW d, Update(t, d),
         d.conn = call[t].conn, d.result = call[t].result, d.pc \in Readers,
         d.completed = After(t).completed, d.message = After(t).message,
         UNCHANGED <<pool, conns, closed, svc, shared>>
  PROVE  Reads(t) /\ Fresh'
<1>1. call'[t] = d /\ KeepOthers(t) /\ SameService(t)
  BY UpdateKeeps DEF SameService
<1>2. IsReading(t) /\ IsReading(t)' /\ Taken(t)
  BY <1>1 DEF Receives, Taken, IsReading, Readers, At
<1>3. Fresh'
  <2>1. open' \subseteq open /\ \A c \in Conns : c \notin open' => wire'[c] = <<>>
    BY FreshReceives
  <2>2. pool' \in 0..conns /\ \A u \in Turns : svc'[u].phase = svc[u].phase
    BY DEF Fresh
  <2>3. d.pc \notin {"idle", "pool", "check", "send"}
    BY DEF Readers
  <2>. QED
    BY <2>1, <2>2, <2>3, FreshUpdate
<1>. QED
  BY <1>1, <1>2, <1>3 DEF Reads

\* The end of the loop, for a call whose locals have become c.
LEMMA ReturnKind ==
  ASSUME TypeOK, Fresh, NEW t \in Turns, NEW kind, Receives(t, kind), NEW c, c \in AnyCall,
         c.conn = call[t].conn, c.message = After(t).message, After(t).completed,
         Return(t, c), UNCHANGED <<service, observers>>
  PROVE  (Leaves(t) \/ Returns(t)) /\ Fresh'
<1>1. CASE c.message = NoText
  <2>1. Fail(t) /\ At(t, "read")
    BY <1>1 DEF Return, Receives
  <2>. QED
    BY <2>1, FailLeaves
<1>2. CASE c.message # NoText
  <2>. DEFINE d == [c EXCEPT !.pc = IF call[t].private THEN "release" ELSE "done",
                             !.rpc = 0, !.result = "ok"]
  <2>1. d.pc \in {"release", "done"} /\ d.conn = c.conn /\ d.message = c.message
    BY DEF AnyCall
  <2>2. Update(t, d) /\ UNCHANGED <<pool, conns, closed, svc, shared>>
    BY <1>2 DEF Return, sessions, service, observers
  <2>. HIDE DEF d
  <2>3. call'[t] = d /\ KeepOthers(t) /\ SameService(t)
    BY <2>2, UpdateKeeps DEF SameService
  <2>4. IsReading(t) /\ ~IsActive(t)' /\ ~At(t, "idle")' /\ Taken(t)
    BY <2>1, <2>3 DEF Receives, Taken, IsActive, IsReading, Readers, At
  <2>5. Fresh'
    <3>1. open' \subseteq open /\ \A x \in Conns : x \notin open' => wire'[x] = <<>>
      BY FreshReceives
    <3>2. pool' \in 0..conns /\ \A u \in Turns : svc'[u].phase = svc[u].phase
      BY <2>2 DEF Fresh
    <3>. QED
      BY <2>1, <2>2, <3>1, <3>2, FreshUpdate
  <2>. QED
    BY <1>2, <2>1, <2>2, <2>3, <2>4, <2>5 DEF Returns
<1>. QED
  BY <1>1, <1>2

\* The steps of a reader.
LEMMA KindRead ==
  ASSUME TypeOK, Fresh, NEW t \in Turns, ReadStep(t)
  PROVE  (Leaves(t) \/ Reads(t) \/ Returns(t)) /\ Fresh'
<1>0. call[t] \in AnyCall /\ call \in [Turns -> Call]
  BY CallFields DEF TypeOK
<1>1. CASE ReadResponse(t)
  <2>. DEFINE d == [call[t] EXCEPT !.seen = TRUE]
  <2>1. /\ d.pc = call[t].pc /\ d.conn = call[t].conn /\ d.completed = call[t].completed
        /\ d.message = call[t].message /\ d.result = call[t].result
    BY <1>0 DEF AnyCall
  <2>2. Receives(t, "response") /\ Update(t, d) /\ UNCHANGED <<pool, conns, closed, svc, shared>>
    BY <1>1 DEF ReadResponse, sessions, service, observers
  <2>3. After(t).completed = call[t].completed /\ After(t).message = call[t].message
    BY <2>2 DEF Receives, After
  <2>4. call[t].pc \in Readers
    BY <2>2 DEF Receives, At, Readers
  <2>. HIDE DEF d
  <2>. QED
    BY <2>1, <2>2, <2>3, <2>4, ReceivesReads
<1>2. CASE ReadForeign(t)
  <2>1. PICK kind \in {"response", "refusal"} : Receives(t, kind)
    BY <1>2 DEF ReadForeign
  <2>2. /\ IF Ends(call[t]) THEN Return(t, call[t]) ELSE GoOn(t, call[t])
        /\ UNCHANGED <<service, observers>>
    BY <1>2 DEF ReadForeign
  <2>3. After(t).completed = call[t].completed /\ After(t).message = call[t].message
    BY <2>1 DEF Receives, After
  <2>4. call[t].pc \in Readers
    BY <2>1 DEF Receives, At, Readers
  <2>5. CASE GoOn(t, call[t])
    <3>1. Update(t, call[t]) /\ UNCHANGED <<pool, conns, closed, svc, shared>>
      BY <2>2, <2>5 DEF GoOn, sessions, service, observers
    <3>. QED
      BY <2>1, <2>3, <2>4, <3>1, ReceivesReads
  <2>6. CASE Ends(call[t]) /\ Return(t, call[t])
    <3>1. After(t).completed
      BY <2>3, <2>6 DEF Ends
    <3>. QED
      BY <1>0, <2>1, <2>2, <2>3, <2>6, <3>1, ReturnKind
  <2>. QED
    BY <2>2, <2>5, <2>6
<1>3. CASE ReadFailure(t)
  <2>1. (\E kind : Receives(t, kind)) /\ Fail(t) /\ At(t, "read")
        /\ UNCHANGED <<service, observers>>
    BY <1>3 DEF ReadFailure, Receives
  <2>. QED
    BY <2>1, FailLeaves
<1>4. CASE ReadFails(t)
  BY <1>4, FailLeaves DEF ReadFails
<1>5. CASE ReadText(t)
  <2>. DEFINE c == [call[t] EXCEPT !.message = Incoming(t).text]
  <2>1. /\ c.pc = call[t].pc /\ c.conn = call[t].conn /\ c.completed = call[t].completed
        /\ c.message = Incoming(t).text /\ c.result = call[t].result
    BY <1>0 DEF AnyCall
  <2>2. /\ Receives(t, "text") /\ UNCHANGED <<service, observers>>
        /\ GoOn(t, c) \/ (Ends(c) /\ Return(t, c))
    BY <1>5 DEF ReadText
  <2>3. c \in AnyCall
    <3>1. Incoming(t) \in AnyMessage
      BY <2>2, ReceivesTyped
    <3>. QED
      BY <1>0, <3>1 DEF AnyCall, AnyMessage
  <2>4. After(t).completed = call[t].completed /\ After(t).message = Incoming(t).text
    BY <2>2 DEF Receives, After
  <2>5. call[t].pc \in Readers
    BY <2>2 DEF Receives, At, Readers
  <2>. HIDE DEF c
  <2>6. CASE GoOn(t, c)
    <3>1. Update(t, c) /\ UNCHANGED <<pool, conns, closed, svc, shared>>
      BY <2>2, <2>6 DEF GoOn, sessions, service, observers
    <3>. QED
      BY <2>1, <2>2, <2>4, <2>5, <3>1, ReceivesReads
  <2>7. CASE Ends(c) /\ Return(t, c)
    <3>1. After(t).completed /\ c.message = After(t).message
      BY <2>1, <2>4, <2>7 DEF Ends
    <3>. QED
      BY <2>1, <2>2, <2>3, <2>7, <3>1, ReturnKind
  <2>. QED
    BY <2>2, <2>6, <2>7
<1>6. CASE ReadCompleted(t)
  <2>. DEFINE c == [call[t] EXCEPT !.completed = TRUE]
  <2>1. /\ c.pc = call[t].pc /\ c.conn = call[t].conn /\ c.completed = TRUE
        /\ c.message = call[t].message /\ c.result = call[t].result /\ c \in AnyCall
    BY <1>0 DEF AnyCall
  <2>2. /\ Receives(t, "completed") /\ UNCHANGED <<service, observers>>
        /\ IF Ends(c) THEN Return(t, c) ELSE GoOn(t, c)
    BY <1>6 DEF ReadCompleted
  <2>4. After(t).completed = TRUE /\ After(t).message = call[t].message
    BY <2>2 DEF Receives, After
  <2>5. call[t].pc \in Readers
    BY <2>2 DEF Receives, At, Readers
  <2>. HIDE DEF c
  <2>6. CASE GoOn(t, c)
    <3>1. Update(t, c) /\ UNCHANGED <<pool, conns, closed, svc, shared>>
      BY <2>2, <2>6 DEF GoOn, sessions, service, observers
    <3>. QED
      BY <2>1, <2>2, <2>4, <2>5, <3>1, ReceivesReads
  <2>7. CASE Return(t, c)
    BY <2>1, <2>2, <2>4, <2>7, ReturnKind
  <2>. QED
    BY <2>2, <2>6, <2>7
<1>7. CASE ReadApproval(t)
  <2>. DEFINE d == [call[t] EXCEPT !.pc = "ask", !.asked = Incoming(t).request]
  <2>1. /\ d.pc = "ask" /\ d.conn = call[t].conn /\ d.completed = call[t].completed
        /\ d.message = call[t].message /\ d.result = call[t].result
    BY <1>0 DEF AnyCall
  <2>2. Receives(t, "approval") /\ Update(t, d) /\ UNCHANGED <<pool, conns, closed, svc, shared>>
    BY <1>7 DEF ReadApproval, sessions, service, observers
  <2>3. After(t).completed = call[t].completed /\ After(t).message = call[t].message
    BY <2>2 DEF Receives, After
  <2>4. d.pc \in Readers
    BY <2>1 DEF Readers
  <2>. HIDE DEF d
  <2>. QED
    BY <2>1, <2>2, <2>3, <2>4, ReceivesReads
<1>. QED
  BY <1>1, <1>2, <1>3, <1>4, <1>5, <1>6, <1>7 DEF ReadStep

\* The steps of a reader in its callback, and the release.
LEMMA KindCallback ==
  ASSUME TypeOK, Fresh, NEW t \in Turns, CallbackStep(t) \/ Release(t)
  PROVE  Still /\ Fresh'
<1>0. call[t] \in AnyCall
  BY CallFields
<1>1. CASE TakeDecision(t)
  <2>. DEFINE d == [call[t] EXCEPT !.pc = "respond", !.decision = channel[call[t].asked]]
  <2>1. /\ d.pc = "respond" /\ d.conn = call[t].conn /\ d.completed = call[t].completed
        /\ d.message = call[t].message /\ d.result = call[t].result
    BY <1>0 DEF AnyCall
  <2>2. /\ Update(t, d) /\ At(t, "ask")
        /\ UNCHANGED <<pool, conns, closed, svc, open, wire, shared>>
    BY <1>1 DEF TakeDecision, sessions, network, service, observers
  <2>3. /\ d.pc \in Readers /\ IsReading(t) /\ pool' \in 0..conns /\ StayClosed
        /\ \A u \in Turns : SameService(u)
    BY <2>1, <2>2 DEF Readers, IsReading, At, Fresh, StayClosed, SameService
  <2>. HIDE DEF d
  <2>. QED
    BY <2>1, <2>2, <2>3, StillUpdate
<1>2. CASE GiveUp(t)
  <2>. DEFINE d == [call[t] EXCEPT !.pc = "forget"]
  <2>1. /\ d.pc = "forget" /\ d.conn = call[t].conn /\ d.completed = call[t].completed
        /\ d.message = call[t].message /\ d.result = call[t].result
    BY <1>0 DEF AnyCall
  <2>2. /\ Update(t, d) /\ At(t, "ask")
        /\ UNCHANGED <<pool, conns, closed, svc, open, wire, shared>>
    BY <1>2 DEF GiveUp, Goto, sessions, network, service, observers
  <2>3. /\ d.pc \in Readers /\ IsReading(t) /\ pool' \in 0..conns /\ StayClosed
        /\ \A u \in Turns : SameService(u)
    BY <2>1, <2>2 DEF Readers, IsReading, At, Fresh, StayClosed, SameService
  <2>. HIDE DEF d
  <2>. QED
    BY <2>1, <2>2, <2>3, StillUpdate
<1>3. CASE Forget(t)
  <2>. DEFINE d == [call[t] EXCEPT !.pc = "respond", !.decision = "cancel"]
  <2>1. /\ d.pc = "respond" /\ d.conn = call[t].conn /\ d.completed = call[t].completed
        /\ d.message = call[t].message /\ d.result = call[t].result
    BY <1>0 DEF AnyCall
  <2>2. /\ Update(t, d) /\ At(t, "forget")
        /\ UNCHANGED <<pool, conns, closed, svc, open, wire, shared>>
    BY <1>3 DEF Forget, sessions, network, service, observers
  <2>3. /\ d.pc \in Readers /\ IsReading(t) /\ pool' \in 0..conns /\ StayClosed
        /\ \A u \in Turns : SameService(u)
    BY <2>1, <2>2 DEF Readers, IsReading, At, Fresh, StayClosed, SameService
  <2>. HIDE DEF d
  <2>. QED
    BY <2>1, <2>2, <2>3, StillUpdate
<1>4. CASE Respond(t)
  <2>. DEFINE d == [call[t] EXCEPT !.pc = "read", !.asked = NoRequest, !.decision = ""]
              r == call[t].asked
  <2>1. /\ d.pc = "read" /\ d.conn = call[t].conn /\ d.completed = call[t].completed
        /\ d.message = call[t].message /\ d.result = call[t].result
    BY <1>0 DEF AnyCall
  <2>2. /\ Update(t, d) /\ At(t, "respond")
        /\ UNCHANGED <<pool, conns, closed, open, wire, shared>>
    BY <1>4 DEF Respond, sessions, network, observers
  <2>3. \A u \in Turns : SameService(u)
    <3> SUFFICES ASSUME NEW u \in Turns PROVE SameService(u)
      OBVIOUS
    <3>1. svc[u] \in Service
      BY DEF TypeOK
    <3>2. svc'[u] = svc[u] \/ svc'[u] = [svc[u] EXCEPT !.waits = NoRequest]
      BY <1>4 DEF Respond, service
    <3>. QED
      BY <3>1, <3>2 DEF SameService, Service
  <2>4. d.pc \in Readers /\ IsReading(t) /\ pool' \in 0..conns /\ StayClosed
    BY <2>1, <2>2 DEF Readers, IsReading, At, Fresh, StayClosed
  <2>. HIDE DEF d
  <2>. QED
    BY <2>1, <2>2, <2>3, <2>4, StillUpdate
<1>5. CASE Release(t)
  <2>. DEFINE d == [call[t] EXCEPT !.pc = "done"]
  <2>1. /\ d.pc = "done" /\ d.conn = call[t].conn /\ d.completed = call[t].completed
        /\ d.message = call[t].message /\ d.result = call[t].result
    BY <1>0 DEF AnyCall
  <2>2. /\ Update(t, d) /\ At(t, "release") /\ (\E C : Close(C)) /\ pool' \in {pool, 0}
        /\ UNCHANGED <<conns, svc, shared>>
    BY <1>5 DEF Release, Goto, service, observers
  <2>3. (\E C : Shut(C)) /\ StayClosed
    BY <2>2, CloseCloses DEF Close
  <2>4. pool' \in 0..conns /\ \A u \in Turns : SameService(u)
    <3>1. pool \in 0..conns
      BY DEF Fresh
    <3>2. conns \in 0..MaxConns
      BY DEF TypeOK
    <3>3. 0 \in 0..conns
      BY <3>2, BoundsAreNat
    <3>. QED
      BY <2>2, <3>1, <3>3 DEF SameService
  <2>. HIDE DEF d
  <2>. QED
    BY <2>1, <2>2, <2>3, <2>4, StillUpdate
<1>. QED
  BY <1>1, <1>2, <1>3, <1>4, <1>5 DEF CallbackStep

\* What the service says.
LEMMA KindService ==
  ASSUME TypeOK, Fresh, NEW t \in Turns, SvcStep(t)
  PROVE  (\E m \in Message : Says(t, m)) /\ Fresh'
<1>0. svc[t] \in Service /\ svc \in [Turns -> Service] /\ NoRequest \notin Requests
  BY RequestAssumption DEF TypeOK
<1>1. ASSUME NEW m, Emit(t, m), NEW v, svc' = [svc EXCEPT ![t] = v],
             svc[t].phase \in {"asked", "working"}
      PROVE  /\ Fresh' /\ svc'[t] = v /\ \A u \in Turns \ {t} : SameService(u)
             /\ UNCHANGED <<call, open, closed, shared>>
             /\ call[t].conn \in Conns /\ call[t].conn \in open
             /\ wire' = [wire EXCEPT ![call[t].conn] = Append(wire[call[t].conn], m)]
  <2>1. /\ UNCHANGED <<call, pool, conns, open, closed, shared>>
        /\ \A c \in Conns : c \notin open' => wire'[c] = <<>>
    BY <1>1, FreshEmit
  <2>2. svc'[t] = v /\ \A u \in Turns \ {t} : svc'[u] = svc[u]
    BY <1>0, <1>1
  <2>3. ~Unsent(t)
    BY <1>1 DEF Fresh
  <2>4. Fresh'
    BY <2>1, <2>2, <2>3 DEF Fresh, Unsent
  <2>5. call[t].conn \in Conns
    BY <2>3, CallFields DEF Unsent, At
  <2>. QED
    BY <1>1, <2>1, <2>2, <2>4, <2>5 DEF Emit, SameService
<1>2. CASE SvcRespond(t)
  <2>. DEFINE m == [NewMessage("response") EXCEPT !.id = svc[t].id]
              v == [svc[t] EXCEPT !.phase = "working", !.id = 0]
  <2>1. m \in Message /\ m.kind = "response"
    <3>1. svc[t].id \in Nat
      BY <1>0 DEF Service
    <3>. QED
      BY <1>0, <3>1 DEF NewMessage, Message, AnyMessage, Text
  <2>2. v.phase = "working" /\ v.texts = svc[t].texts
    BY <1>0 DEF Service
  <2>3. Emit(t, m) /\ svc' = [svc EXCEPT ![t] = v] /\ svc[t].phase \in {"asked", "working"}
    BY <1>2 DEF SvcRespond
  <2>. HIDE DEF m, v
  <2>. QED
    BY <1>1, <2>1, <2>2, <2>3 DEF Says
<1>3. CASE SvcRefuse(t)
  <2>. DEFINE m == [NewMessage("refusal") EXCEPT !.id = svc[t].id]
              v == [svc[t] EXCEPT !.phase = "refused", !.id = 0]
  <2>1. m \in Message /\ m.kind = "refusal"
    <3>1. svc[t].id \in Nat
      BY <1>0 DEF Service
    <3>. QED
      BY <1>0, <3>1 DEF NewMessage, Message, AnyMessage, Text
  <2>2. v.phase = "refused" /\ v.texts = svc[t].texts
    BY <1>0 DEF Service
  <2>3. Emit(t, m) /\ svc' = [svc EXCEPT ![t] = v] /\ svc[t].phase \in {"asked", "working"}
    BY <1>3 DEF SvcRefuse
  <2>. HIDE DEF m, v
  <2>. QED
    BY <1>1, <2>1, <2>2, <2>3 DEF Says
<1>4. CASE SvcText(t)
  <2>. DEFINE m == [NewMessage("text") EXCEPT !.text = <<t, svc[t].texts + 1>>]
              v == [svc[t] EXCEPT !.texts = @ + 1]
  <2>1. m \in Message /\ m.kind = "text" /\ m.text = <<t, svc[t].texts + 1>>
    <3>1. svc[t].texts \in 0..MaxTexts /\ svc[t].texts < MaxTexts
      BY <1>0, <1>4 DEF SvcText, Service
    <3>2. <<t, svc[t].texts + 1>> \in Text
      BY <3>1, BoundsAreNat DEF Text
    <3>. QED
      BY <1>0, <3>2 DEF NewMessage, Message, AnyMessage
  <2>2. v.phase = svc[t].phase /\ v.texts = svc[t].texts + 1
    BY <1>0 DEF Service
  <2>3. Emit(t, m) /\ svc' = [svc EXCEPT ![t] = v] /\ svc[t].phase = "working"
    BY <1>4 DEF SvcText, Works
  <2>. HIDE DEF m, v
  <2>4. svc[t].phase \in {"asked", "working"}
    BY <2>3
  <2>. QED
    BY <1>1, <2>1, <2>2, <2>3, <2>4 DEF Says
<1>5. CASE SvcError(t)
  <2>. DEFINE m == NewMessage("error")
              v == [svc[t] EXCEPT !.erred = TRUE]
  <2>1. m \in Message /\ m.kind = "error"
    BY <1>0 DEF NewMessage, Message, AnyMessage, Text
  <2>2. v.phase = svc[t].phase /\ v.texts = svc[t].texts
    BY <1>0 DEF Service
  <2>3. Emit(t, m) /\ svc' = [svc EXCEPT ![t] = v] /\ svc[t].phase = "working"
    BY <1>5 DEF SvcError, Works
  <2>. HIDE DEF m, v
  <2>4. svc[t].phase \in {"asked", "working"}
    BY <2>3
  <2>. QED
    BY <1>1, <2>1, <2>2, <2>3, <2>4 DEF Says
<1>6. CASE SvcComplete(t)
  <2>. DEFINE m == NewMessage("completed")
              v == [svc[t] EXCEPT !.phase = "completed"]
  <2>1. m \in Message /\ m.kind = "completed"
    BY <1>0 DEF NewMessage, Message, AnyMessage, Text
  <2>2. v.phase = "completed" /\ v.texts = svc[t].texts
    BY <1>0 DEF Service
  <2>3. Emit(t, m) /\ svc' = [svc EXCEPT ![t] = v] /\ svc[t].phase = "working"
    BY <1>6 DEF SvcComplete, Works
  <2>. HIDE DEF m, v
  <2>4. svc[t].phase \in {"asked", "working"}
    BY <2>3
  <2>. QED
    BY <1>1, <2>1, <2>2, <2>3, <2>4 DEF Says
<1>7. ASSUME NEW r \in Requests, SvcAsk(t, r)
      PROVE  (\E m \in Message : Says(t, m)) /\ Fresh'
  <2>. DEFINE m == [NewMessage("approval") EXCEPT !.request = r]
              v == [svc[t] EXCEPT !.waits = r]
  <2>1. m \in Message /\ m.kind = "approval"
    BY <1>0 DEF NewMessage, Message, AnyMessage, Text
  <2>2. v.phase = svc[t].phase /\ v.texts = svc[t].texts
    BY <1>0 DEF Service
  <2>3. Emit(t, m) /\ svc' = [svc EXCEPT ![t] = v] /\ svc[t].phase = "working"
    BY <1>7 DEF SvcAsk, Works
  <2>. HIDE DEF m, v
  <2>4. svc[t].phase \in {"asked", "working"}
    BY <2>3
  <2>. QED
    BY <1>1, <2>1, <2>2, <2>3, <2>4 DEF Says
<1>. QED
  BY <1>2, <1>3, <1>4, <1>5, <1>6, <1>7 DEF SvcStep

\* Cancellations, approvals that clients answer, and a service that hangs up.
LEMMA KindAside ==
  ASSUME TypeOK, Fresh,
         \/ \E t \in Turns : Cancel(t) \/ CloseDue(t)
         \/ \E k \in Clients : \/ Deliver(k)
                               \/ \E r \in Requests, d \in Decisions : TakeApproval(k, r, d)
         \/ \E c \in Conns : HangUp(c)
         \/ UNCHANGED vars
  PROVE  Still /\ Fresh'
<1>1. UNCHANGED <<call, pool, conns, svc, shared>>
  BY DEF Cancel, CloseDue, Deliver, TakeApproval, HangUp, vars, context, sessions,
     approvals, network, service, observers
<1>2. StayClosed
  <2>1. (\E C : Close(C)) \/ closed' = closed
    BY DEF Cancel, CloseDue, Deliver, TakeApproval, HangUp, vars, sessions
  <2>. QED
    BY <2>1, CloseCloses DEF StayClosed
<1>3. (\E C : Shut(C)) \/ UNCHANGED <<open, wire>>
  BY DEF Cancel, CloseDue, Deliver, TakeApproval, HangUp, Close, vars, network
<1>. QED
  BY <1>1, <1>2, <1>3, StillAside

-----------------------------------------------------------------------------

\* Initially nothing is anybody's.
LEMMA AnswerInit == Init => AnswerInv
<1> SUFFICES ASSUME Init PROVE AnswerInv
  OBVIOUS
<1>1. TypeOK
  BY TypeInit
<1>2. /\ pool = 0 /\ conns = 0 /\ open = {}
      /\ \A t \in Turns : call[t] = NewCall /\ svc[t] = NoService
      /\ \A c \in Conns : wire[c] = <<>>
  BY Zenon DEF Init
<1>3. \A t \in Turns : /\ call[t].pc = "idle" /\ call[t].conn = 0 /\ ~call[t].completed
                      /\ call[t].message = NoText /\ call[t].result = "none"
                      /\ svc[t].phase = "none"
  <2>1. /\ NewCall.pc = "idle" /\ NewCall.conn = 0 /\ ~NewCall.completed
        /\ NewCall.message = NoText /\ NewCall.result = "none"
    BY DEF NewCall
  <2>2. NoService.phase = "none"
    BY DEF NoService
  <2>. QED
    BY <1>2, <2>1, <2>2 DEF NoText
<1>4. Fresh
  BY <1>2, <1>3 DEF Fresh
<1>5. \A t \in Turns : ~IsActive(t) /\ ~IsReading(t) /\ ~At(t, "send") /\ At(t, "idle")
                      /\ ~Unfinished(t)
  BY <1>3 DEF IsActive, IsReading, Readers, At, Unfinished
<1>6. Few
  <2>1. Begun = {}
    BY <1>5 DEF Begun
  <2>. QED
    BY <2>1, FS_EmptySet DEF Few
<1>7. Balance
  <2>1. Completions(<<>>) = {}
    BY DEF Completions
  <2>2. ASSUME NEW c \in Conns PROVE Busy(c) = {} /\ Reading(c) = {} /\ Read(c) = {}
    BY <1>5 DEF Busy, Reading, Read
  <2>3. Cardinality({}) = 0
    BY FS_EmptySet
  <2>4. ASSUME NEW c \in Conns
        PROVE  /\ Cardinality(Busy(c)) = 0 /\ Cardinality(Reading(c)) = 0
               /\ Cardinality(Read(c)) = 0 /\ Cardinality(Completions(wire[c])) = 0
    BY <1>2, <2>1, <2>2, <2>3
  <2>. QED
    BY <2>4 DEF Balance
<1>8. Tidy /\ Alone
  BY <1>2, <1>5 DEF Tidy, Alone
<1>9. AllOwn
  BY <1>3, <1>5 DEF AllOwn, Own
<1>. QED
  BY <1>4, <1>6, <1>7, <1>8, <1>9 DEF AnswerInv

\* Every step keeps what is a turn's own.
LEMMA AnswerStep == TypeOK /\ AnswerInv /\ [Next]_vars => AnswerInv'
<1> SUFFICES ASSUME TypeOK, AnswerInv, [Next]_vars PROVE AnswerInv'
  OBVIOUS
<1>1. TypeOK' /\ Fresh
  BY TypeStep DEF AnswerInv
<1>2. ASSUME NEW t \in Turns, Begin(t) PROVE AnswerInv'
  <2>1. Fresh'
    BY <1>1, <1>2, FreshBegin
  <2>2. Still \/ Leaves(t) \/ Sets(t) \/ Sends(t)
    BY <1>1, <1>2, KindBegin
  <2>. QED
    BY <1>1, <2>1, <2>2, StillKeeps, LeavesKeeps, SetsKeeps, SendsKeeps
<1>3. ASSUME NEW t \in Turns, ReadStep(t) PROVE AnswerInv'
  <2>1. (Leaves(t) \/ Reads(t) \/ Returns(t)) /\ Fresh'
    BY <1>1, <1>3, KindRead
  <2>. QED
    BY <1>1, <2>1, LeavesKeeps, ReadsKeeps, ReturnsKeeps
<1>4. ASSUME NEW t \in Turns, CallbackStep(t) \/ Release(t) PROVE AnswerInv'
  BY <1>1, <1>4, KindCallback, StillKeeps
<1>5. ASSUME NEW t \in Turns, SvcStep(t) PROVE AnswerInv'
  BY <1>1, <1>5, KindService, SaysKeeps
<1>6. CASE \/ \E t \in Turns : Cancel(t) \/ CloseDue(t)
           \/ \E k \in Clients : \/ Deliver(k)
                                 \/ \E r \in Requests, d \in Decisions : TakeApproval(k, r, d)
           \/ \E c \in Conns : HangUp(c)
           \/ UNCHANGED vars
  <2>1. Still /\ Fresh'
    BY <1>1, <1>6, KindAside
  <2>. QED
    BY <1>1, <2>1, StillKeeps
<1>. QED
  BY <1>2, <1>3, <1>4, <1>5, <1>6 DEF Next, TurnStep

\* Every behaviour keeps the account of requests, completions and texts of each connection.
THEOREM AnswersAreTracked == Spec => [](TypeOK /\ AnswerInv)
<1>1. Init => TypeOK /\ AnswerInv
  BY TypeInit, AnswerInit
<1>2. TypeOK /\ AnswerInv /\ [Next]_vars => (TypeOK /\ AnswerInv)'
  BY TypeStep, AnswerStep
<1>. QED
  BY <1>1, <1>2, PTL DEF Spec

\* A turn alone on its connection returns its own last text, after its own end.
THEOREM AnswersAreOwn == Spec => []AnswerIsOwn
<1>1. AnswerInv => AnswerIsOwn
  BY DEF AnswerInv, AllOwn, Own, Answered, AnswerIsOwn
<1>. QED
  BY <1>1, AnswersAreTracked, PTL
=============================================================================
