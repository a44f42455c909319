---------------------------- MODULE AppServerTurn ----------------------------
(***************************************************************************)
(* A turn on an app-server connection: Session.SendTurnInputWithParams and *)
(* readTurnUntilComplete (src/internal/appserver/session.go), the approval *)
(* requests that arrive in the middle of it                                *)
(* (src/internal/web/chat_approval.go), the clients that answer them and   *)
(* the cancellation of the turn.  Client.SendPromptStream                  *)
(* (appserver/client.go), whose reader is the same, is the turn that dials *)
(* a connection of its own.                                                *)
(*                                                                         *)
(* The service behind the websocket is external: it answers a turn/start,  *)
(* says texts, asks for approvals and completes.  A text is named by its   *)
(* turn and a number.                                                      *)
(*                                                                         *)
(* Turns of two chat sessions can be bound to one workspace and then to    *)
(* one connection.  Each of them reads from it: a message goes to          *)
(* whichever reader comes first.                                           *)
(***************************************************************************)
EXTENDS Naturals, Sequences, FiniteSets

CONSTANTS Turns,      \* calls of SendTurnInputWithParams or SendPromptStream
          Requests,   \* approval requests of the service
          Clients,    \* websocket handlers that answer approvals
          Decisions,  \* what they answer, after normalizeApprovalDecision
          Talkers,    \* bound: turns in which the service says texts
          MaxTexts,   \* bound: texts of one turn
          MaxWire,    \* bound: messages on their way on one connection
          MaxConns,   \* bound: connections dialled
          MaxFaults,  \* bound: cancellations, errors and lost connections
          NoRequest

ASSUME RequestAssumption == NoRequest \notin Requests
ASSUME TalkersAssumption == Talkers \subseteq Turns
ASSUME DecisionAssumption == Decisions \subseteq {"accept", "decline", "cancel"}
ASSUME BoundAssumption ==
  {MaxTexts, MaxWire, MaxConns, MaxFaults} \subseteq Nat

VARIABLES
  \* the server
  call,      \* call[t]: the locals of a call and where it is
  cancelled, \* turns whose context is cancelled
  armed,     \* turns whose AfterFunc is registered
  due,       \* turns whose AfterFunc runs in a goroutine of its own
  pool,      \* the pooled connection, 0 if none
  conns,     \* connections dialled so far
  closed,    \* closed[c]: Session.closed
  nextID,    \* nextID[c]: Session.nextID
  pending,   \* pendingApprovals
  channel,   \* channel[r]: DecisionCh, "" while empty
  hand,      \* what a client's handler has taken out of the map
  \* the network and the service
  open,      \* connections whose socket is open
  wire,      \* wire[c]: messages on their way to the server
  svc,       \* what the service does for a turn
  answered,  \* answered[r]: the decision the service received, and the turn
             \* whose reader gave it
  \* observers
  said,      \* said[r]: the answer whose sender was told it was taken
  shared,    \* turns that ran beside another one on their connection
  faults     \* counts to MaxFaults

context == <<cancelled, armed, due>>
sessions == <<pool, conns, closed, nextID>>
approvals == <<pending, channel, hand>>
network == <<open, wire>>
service == <<svc, answered>>
observers == <<said, shared, faults>>
vars == <<call, context, sessions, approvals, network, service, observers>>

Conns == 1..MaxConns
NoText == <<>>
Text == {NoText} \cup (Turns \X (1..MaxTexts))
AnyMessage ==
  [kind : {"response", "refusal", "text", "approval", "completed", "error"},
   id : Nat, text : Text, request : Requests \cup {NoRequest}]
Message == {m \in AnyMessage : (m.kind = "approval") <=> (m.request # NoRequest)}
Pc == {"idle", "pool", "check", "send", "read", "ask", "forget", "respond",
       "release", "done"}
InCallback(c) == c.pc \in {"ask", "forget", "respond"}
AnyCall == [pc : Pc, private : BOOLEAN, conn : 0..MaxConns, rpc : Nat,
            seen : BOOLEAN, completed : BOOLEAN, message : Text,
            asked : Requests \cup {NoRequest}, decision : Decisions \cup {"", "cancel"},
            result : {"none", "ok", "failed", "cancelled"}]
Call == {c \in AnyCall : /\ c.pc # "idle" => c.conn # 0
                         /\ InCallback(c) <=> (c.asked # NoRequest)
                         /\ c.pc = "respond" => c.decision # ""}
NewCall == [pc |-> "idle", private |-> FALSE, conn |-> 0, rpc |-> 0,
            seen |-> FALSE, completed |-> FALSE, message |-> NoText,
            asked |-> NoRequest, decision |-> "", result |-> "none"]
Service == [phase : {"none", "asked", "working", "completed", "refused"}, id : Nat,
            texts : 0..MaxTexts, erred : BOOLEAN, waits : Requests \cup {NoRequest}]
NoService == [phase |-> "none", id |-> 0, texts |-> 0, erred |-> FALSE,
              waits |-> NoRequest]
NoHand == [request |-> NoRequest, decision |-> ""]

At(t, p) == call[t].pc = p
Update(t, c) == call' = [call EXCEPT ![t] = c]
Goto(t, p) == Update(t, [call[t] EXCEPT !.pc = p])

\* The turns that use t's connection beside t.
Beside(t) == {u \in Turns \ {t} : /\ call[u].conn = call[t].conn
                                  /\ call[u].pc \in {"send", "read", "ask", "forget", "respond"}}
Usable(c) == c # 0 /\ ~closed[c]

\* Closing sockets loses what was on its way.
Shut(C) ==
  /\ open' = open \ C
  /\ wire' = [c \in Conns |-> IF c \in C THEN <<>> ELSE wire[c]]
\* Session.Close: the flag and the socket.
Close(C) ==
  /\ closed' = [c \in Conns |-> closed[c] \/ c \in C]
  /\ Shut(C)

Fault == faults < MaxFaults /\ faults' = faults + 1

Init ==
  /\ call = [t \in Turns |-> NewCall]
  /\ cancelled = {} /\ armed = {} /\ due = {}
  /\ pool = 0 /\ conns = 0
  /\ closed = [c \in Conns |-> FALSE]
  /\ nextID = [c \in Conns |-> 1]
  /\ pending = {}
  /\ channel = [r \in Requests |-> ""]
  /\ hand = [k \in Clients |-> NoHand]
  /\ open = {}
  /\ wire = [c \in Conns |-> <<>>]
  /\ svc = [t \in Turns |-> NoService]
  /\ answered = [r \in Requests |-> <<>>]
  /\ said = [r \in Requests |-> ""]
  /\ shared = {}
  /\ faults = 0

-----------------------------------------------------------------------------
(* The beginning of a turn.                                                *)

\* The pooled connection is reused if its session is open.
Reuse(t) ==
  /\ At(t, "idle") /\ Usable(pool)
  /\ Update(t, [call[t] EXCEPT !.pc = "check", !.conn = pool])
  /\ UNCHANGED <<context, sessions, approvals, network, service, observers>>

\* openSession: dial, handshake and thread/start, which use the numbers 1 and
\* 2.  An unusable pooled session is closed first.
OpenSession(t) ==
  /\ At(t, "idle") /\ ~Usable(pool)
  /\ conns < MaxConns
  /\ conns' = conns + 1
  /\ open' = (open \ {pool}) \cup {conns'}
  /\ wire' = [c \in Conns |-> IF c = pool THEN <<>> ELSE wire[c]]
  /\ nextID' = [nextID EXCEPT ![conns'] = 3]
  /\ Update(t, [call[t] EXCEPT !.pc = "pool", !.conn = conns'])
  /\ UNCHANGED <<context, pool, closed, approvals, service, observers>>

\* The new session replaces and closes the pooled one.
PoolSession(t) ==
  /\ At(t, "pool")
  /\ pool' = call[t].conn
  /\ Close({pool})
  /\ Goto(t, "check")
  /\ UNCHANGED <<context, conns, nextID, approvals, service, observers>>

\* SendPromptStream dials for itself; its turn/start has the number 3, and its
\* context closes the socket from the start.
DialPrivate(t) ==
  /\ At(t, "idle")
  /\ conns < MaxConns
  /\ conns' = conns + 1
  /\ open' = open \cup {conns'}
  /\ armed' = armed \cup {t}
  /\ Update(t, [call[t] EXCEPT !.pc = "send", !.private = TRUE, !.conn = conns',
                  !.rpc = 3])
  /\ UNCHANGED <<cancelled, due, pool, closed, nextID, approvals, wire, service,
                 observers>>

\* "session is closed"
RefuseClosed(t) ==
  /\ At(t, "check") /\ closed[call[t].conn]
  /\ Update(t, [call[t] EXCEPT !.pc = "release", !.result = "failed"])
  /\ UNCHANGED <<context, sessions, approvals, network, service, observers>>

\* allocID increments without a lock: two calls at a time may get one number.
NextIDs(t) ==
  {nextID[call[t].conn]} \cup {call[u].rpc : u \in {v \in Beside(t) : At(v, "send")}}
AllocID(t) ==
  /\ At(t, "check") /\ ~closed[call[t].conn]
  /\ \E id \in NextIDs(t) :
       /\ nextID' = [nextID EXCEPT ![call[t].conn] = id + 1]
       /\ Update(t, [call[t] EXCEPT !.pc = "send", !.rpc = id])
  /\ shared' = IF Beside(t) = {} THEN shared ELSE shared \cup {t} \cup Beside(t)
  /\ UNCHANGED <<context, pool, conns, closed, approvals, network, service, said,
                 faults>>

\* The turn/start request; context.AfterFunc closes the session on a cancel.
SendStart(t) ==
  /\ At(t, "send") /\ call[t].conn \in open
  /\ svc' = [svc EXCEPT ![t] = [NoService EXCEPT !.phase = "asked", !.id = call[t].rpc]]
  /\ IF call[t].private THEN UNCHANGED <<armed, due>>
     ELSE IF t \in cancelled THEN due' = due \cup {t} /\ armed' = armed
     ELSE armed' = armed \cup {t} /\ due' = due
  /\ Goto(t, "read")
  /\ UNCHANGED <<cancelled, sessions, approvals, network, answered, observers>>

\* markClosed on the way out of a turn that fails.
KeepOpen(t) == closed
MarkClosed(t) == [closed EXCEPT ![call[t].conn] = TRUE]

\* The call returns an error.  contextErr: if its context is cancelled it is
\* the cancellation.  The AfterFunc is stopped.
Fail(t) ==
  /\ closed' = MarkClosed(t)
  /\ armed' = armed \ {t}
  /\ Update(t, [call[t] EXCEPT !.pc = "release", !.rpc = 0,
                  !.result = IF t \in cancelled THEN "cancelled" ELSE "failed"])
  /\ UNCHANGED <<cancelled, due, pool, conns, nextID>>

SendFails(t) ==
  /\ At(t, "send") /\ call[t].conn \notin open
  /\ Fail(t)
  /\ UNCHANGED <<approvals, network, service, observers>>

-----------------------------------------------------------------------------
(* readTurnUntilComplete.                                                  *)

Incoming(t) == Head(wire[call[t].conn])
\* t's reader takes a message of this kind from the connection.
Receives(t, kind) ==
  /\ At(t, "read") /\ call[t].conn \in open
  /\ wire[call[t].conn] # <<>> /\ Incoming(t).kind = kind
  /\ wire' = [wire EXCEPT ![call[t].conn] = Tail(@)]
  /\ open' = open
IsMine(t) == Incoming(t).id = call[t].rpc

\* The response to turn/start, after which the loop goes on without a look at
\* its end.
ReadResponse(t) ==
  /\ Receives(t, "response") /\ IsMine(t)
  /\ Update(t, [call[t] EXCEPT !.seen = TRUE])
  /\ UNCHANGED <<context, sessions, approvals, service, observers>>

\* An error response or an error notification.
ReadFailure(t) ==
  /\ \/ Receives(t, "refusal") /\ IsMine(t)
     \/ Receives(t, "error")
  /\ Fail(t)
  /\ UNCHANGED <<approvals, service, observers>>

\* The socket was closed, on either side.
ReadFails(t) ==
  /\ At(t, "read") /\ call[t].conn \notin open
  /\ Fail(t)
  /\ UNCHANGED <<approvals, network, service, observers>>

\* The end of the loop's body, for a call whose locals have become c: it
\* returns if its request was answered and a turn completed, with an error if
\* there was no text.
EndsWithText(c) == c.seen /\ c.completed /\ c.message # NoText
Ends(c) == c.seen /\ c.completed
Return(t, c) ==
  IF c.message = NoText
  THEN Fail(t)
  ELSE /\ armed' = armed \ {t}
       /\ Update(t, [c EXCEPT !.pc = IF call[t].private THEN "release" ELSE "done",
                              !.rpc = 0, !.result = "ok"])
       /\ UNCHANGED <<cancelled, due, sessions>>
GoOn(t, c) == Update(t, c) /\ UNCHANGED <<context, sessions>>

\* The response to another call, an error or not, says nothing to this one and
\* reaches the end of the loop.
ReadForeign(t) ==
  /\ Receives(t, "response") \/ Receives(t, "refusal")
  /\ ~IsMine(t)
  /\ IF Ends(call[t]) THEN Return(t, call[t]) ELSE GoOn(t, call[t])
  /\ UNCHANGED <<approvals, service, observers>>

\* An agentMessage item goes on at once, the other events that carry a text
\* reach the end of the loop.
ReadText(t) ==
  LET c == [call[t] EXCEPT !.message = Incoming(t).text] IN
  /\ Receives(t, "text")
  /\ GoOn(t, c) \/ (Ends(c) /\ Return(t, c))
  /\ UNCHANGED <<approvals, service, observers>>

ReadCompleted(t) ==
  LET c == [call[t] EXCEPT !.completed = TRUE] IN
  /\ Receives(t, "completed")
  /\ IF Ends(c) THEN Return(t, c) ELSE GoOn(t, c)
  /\ UNCHANGED <<approvals, service, observers>>

\* closeAppSession takes the pooled session, whichever it is by now, and closes
\* it; SendPromptStream closes its own socket.
Release(t) ==
  /\ At(t, "release")
  /\ IF call[t].private THEN Close({call[t].conn}) /\ pool' = pool
     ELSE Close({pool}) /\ pool' = 0
  /\ Goto(t, "done")
  /\ UNCHANGED <<context, conns, nextID, approvals, service, observers>>

-----------------------------------------------------------------------------
(* Approvals.                                                              *)

\* The request is stored under a token and shown to the clients; the reader
\* waits in its callback.
ReadApproval(t) ==
  /\ Receives(t, "approval")
  /\ pending' = pending \cup {Incoming(t).request}
  /\ Update(t, [call[t] EXCEPT !.pc = "ask", !.asked = Incoming(t).request])
  /\ UNCHANGED <<context, sessions, channel, hand, service, observers>>

\* The two cases of the select.  If both are ready, either may be taken.
NeverWaits(r) == TRUE
HasDecision(r) == channel[r] # ""
TakeDecision(t) ==
  LET r == call[t].asked IN
  /\ At(t, "ask") /\ HasDecision(r)
  /\ Update(t, [call[t] EXCEPT !.pc = "respond", !.decision = channel[r]])
  /\ channel' = [channel EXCEPT ![r] = ""]
  /\ UNCHANGED <<context, sessions, pending, hand, network, service, observers>>

IgnoresContext(t) == FALSE
ContextDone(t) == t \in cancelled
GiveUp(t) ==
  /\ At(t, "ask") /\ ContextDone(t)
  /\ Goto(t, "forget")
  /\ UNCHANGED <<context, sessions, approvals, network, service, observers>>

\* removePendingAppServerApproval, and "cancel" for the service.
LeavePending(t) == pending
RemovePending(t) == pending \ {call[t].asked}
Forget(t) ==
  /\ At(t, "forget")
  /\ pending' = RemovePending(t)
  /\ Update(t, [call[t] EXCEPT !.pc = "respond", !.decision = "cancel"])
  /\ UNCHANGED <<context, sessions, channel, hand, network, service, observers>>

\* ev.Respond; an error of the write is dropped and the reader reads on.
Respond(t) ==
  LET r == call[t].asked IN
  /\ At(t, "respond")
  /\ IF call[t].conn \in open
     THEN /\ answered' = [answered EXCEPT ![r] = <<call[t].decision, t>>]
          /\ svc' = [u \in Turns |-> IF svc[u].waits = r
                                     THEN [svc[u] EXCEPT !.waits = NoRequest]
                                     ELSE svc[u]]
     ELSE UNCHANGED service
  /\ Update(t, [call[t] EXCEPT !.pc = "read", !.asked = NoRequest, !.decision = ""])
  /\ UNCHANGED <<context, sessions, approvals, network, observers>>

\* resolvePendingAppServerApproval takes the entry out under the lock ...
StillThere(r) == pending
TakenOut(r) == pending \ {r}
TakeApproval(k, r, d) ==
  /\ hand[k] = NoHand /\ r \in pending
  /\ hand' = [hand EXCEPT ![k] = [request |-> r, decision |-> d]]
  /\ pending' = TakenOut(r)
  /\ UNCHANGED <<call, context, sessions, channel, network, service, observers>>

\* ... and sends without it, dropping the decision if the buffer is full.  The
\* client is not told of an error.
Deliver(k) ==
  LET r == hand[k].request IN
  /\ hand[k] # NoHand
  /\ channel' = [channel EXCEPT ![r] = IF @ = "" THEN hand[k].decision ELSE @]
  /\ said' = [said EXCEPT ![r] = hand[k].decision]
  /\ hand' = [hand EXCEPT ![k] = NoHand]
  /\ UNCHANGED <<call, context, sessions, pending, network, service, shared, faults>>

-----------------------------------------------------------------------------
(* Cancellation.                                                           *)

\* The turn is registered as active; its context is cancelled, and what is
\* registered with the context starts to run.
Cancel(t) ==
  /\ call[t].pc \in {"check", "send", "read", "ask", "forget", "respond"}
  /\ t \notin cancelled
  /\ cancelled' = cancelled \cup {t}
  /\ due' = due \cup (armed \cap {t})
  /\ armed' = armed \ {t}
  /\ Fault
  /\ UNCHANGED <<call, sessions, approvals, network, service, said, shared>>

\* Session.Close, possibly long after the turn has ended.
CloseDue(t) ==
  /\ t \in due
  /\ due' = due \ {t}
  /\ Close({call[t].conn})
  /\ UNCHANGED <<call, cancelled, armed, pool, conns, nextID, approvals, service,
                 observers>>

-----------------------------------------------------------------------------
(* The service: external.  It answers a turn/start before it says anything *)
(* about the turn, and says nothing more once it has completed it.         *)

Emit(t, m) ==
  LET c == call[t].conn IN
  /\ c \in open /\ Len(wire[c]) < MaxWire
  /\ wire' = [wire EXCEPT ![c] = Append(@, m)]
  /\ UNCHANGED <<call, context, sessions, approvals, open, answered, said, shared>>
NewMessage(kind) == [kind |-> kind, id |-> 0, text |-> NoText, request |-> NoRequest]
NoFault == faults' = faults
Works(t) == svc[t].phase = "working" /\ svc[t].waits = NoRequest

SvcRespond(t) ==
  /\ svc[t].phase = "asked"
  /\ svc' = [svc EXCEPT ![t].phase = "working", ![t].id = 0]
  /\ Emit(t, [NewMessage("response") EXCEPT !.id = svc[t].id]) /\ NoFault

SvcRefuse(t) ==
  /\ svc[t].phase = "asked"
  /\ svc' = [svc EXCEPT ![t].phase = "refused", ![t].id = 0]
  /\ Emit(t, [NewMessage("refusal") EXCEPT !.id = svc[t].id]) /\ Fault

SvcText(t) ==
  /\ Works(t) /\ t \in Talkers /\ svc[t].texts < MaxTexts
  /\ svc' = [svc EXCEPT ![t].texts = @ + 1]
  /\ Emit(t, [NewMessage("text") EXCEPT !.text = <<t, svc[t].texts + 1>>]) /\ NoFault

SvcAsk(t, r) ==
  /\ Works(t)
  /\ answered[r] = <<>> /\ \A u \in Turns : svc[u].waits # r
  /\ svc' = [svc EXCEPT ![t].waits = r]
  /\ Emit(t, [NewMessage("approval") EXCEPT !.request = r]) /\ NoFault

\* An error does not keep the service from going on.
SvcError(t) ==
  /\ Works(t) /\ ~svc[t].erred
  /\ svc' = [svc EXCEPT ![t].erred = TRUE]
  /\ Emit(t, NewMessage("error")) /\ Fault

SvcComplete(t) ==
  /\ Works(t)
  /\ svc' = [svc EXCEPT ![t].phase = "completed"]
  /\ Emit(t, NewMessage("completed")) /\ NoFault

\* The service hangs up.  What it said before was read first, or is lost.
HangUp(c) ==
  /\ c \in open
  /\ Shut({c})
  /\ Fault
  /\ UNCHANGED <<call, context, sessions, approvals, service, said, shared>>

-----------------------------------------------------------------------------

Begin(t) ==
  \/ Reuse(t) \/ OpenSession(t) \/ PoolSession(t) \/ DialPrivate(t)
  \/ RefuseClosed(t) \/ AllocID(t) \/ SendStart(t) \/ SendFails(t)

ReadStep(t) ==
  \/ ReadResponse(t) \/ ReadForeign(t) \/ ReadFailure(t) \/ ReadFails(t)
  \/ ReadText(t) \/ ReadCompleted(t) \/ ReadApproval(t)

CallbackStep(t) == TakeDecision(t) \/ GiveUp(t) \/ Forget(t) \/ Respond(t)

SvcStep(t) ==
  \/ SvcRespond(t) \/ SvcRefuse(t) \/ SvcText(t) \/ SvcError(t) \/ SvcComplete(t)
  \/ \E r \in Requests : SvcAsk(t, r)

\* The goroutine of the turn.
TurnStep(t) == Begin(t) \/ ReadStep(t) \/ CallbackStep(t) \/ Release(t)

Next ==
  \/ \E t \in Turns : TurnStep(t) \/ Cancel(t) \/ CloseDue(t) \/ SvcStep(t)
  \/ \E k \in Clients : \/ Deliver(k)
                        \/ \E r \in Requests, d \in Decisions : TakeApproval(k, r, d)
  \/ \E c \in Conns : HangUp(c)

Spec == Init /\ [][Next]_vars

\* A goroutine that can go on does: turns, AfterFuncs and handlers.  Nothing
\* makes the service speak, a client answer or anybody cancel.
Fairness ==
  /\ \A t \in Turns : WF_vars(TurnStep(t)) /\ WF_vars(CloseDue(t))
  /\ \A k \in Clients : WF_vars(Deliver(k))
FairSpec == Spec /\ Fairness

-----------------------------------------------------------------------------

\* The types of the variables.
TypeOK ==
  /\ call \in [Turns -> Call]
  /\ cancelled \subseteq Turns /\ armed \subseteq Turns /\ due \subseteq Turns
  /\ pool \in 0..MaxConns /\ conns \in 0..MaxConns
  /\ closed \in [Conns -> BOOLEAN] /\ nextID \in [Conns -> Nat]
  /\ pending \subseteq Requests /\ channel \in [Requests -> Decisions \cup {""}]
  /\ hand \in [Clients -> {NoHand} \cup [request : Requests, decision : Decisions]]
  /\ open \subseteq Conns /\ wire \in [Conns -> Seq(Message)]
  /\ svc \in [Turns -> Service]
  /\ answered \in [Requests -> {<<>>} \cup ((Decisions \cup {"cancel"}) \X Turns)]
  /\ said \in [Requests -> Decisions \cup {""}] /\ shared \subseteq Turns
  /\ faults \in 0..MaxFaults

\* A turn that had its connection for itself returns the last text the service
\* said in that very turn: nothing that an earlier turn left on the connection
\* is taken for its answer, and it does not return before its end.
\* (readTurnUntilComplete, markClosed)
AnswerIsOwn ==
  \A t \in Turns \ shared :
    call[t].result = "ok" => /\ svc[t].phase = "completed"
                             /\ call[t].message = <<t, svc[t].texts>>

\* The service gets the decision whose client was told that it was taken, or a
\* cancel of a turn that was cancelled; of two clients one is told of an error.
\* (resolvePendingAppServerApproval, requestAppServerApproval)
DecisionIsGiven ==
  \A r \in Requests : answered[r] # <<>> =>
    \/ answered[r][1] = said[r]
    \/ answered[r][1] = "cancel" /\ answered[r][2] \in cancelled

\* A request that clients can answer has exactly one reader waiting for the
\* answer: no answer is accepted for a turn that is over.
\* (removePendingAppServerApproval)
PendingHasReader ==
  \A r \in pending : \E t \in Turns : call[t].asked = r /\ call[t].pc \in {"ask", "forget"}

\* A cancelled turn ends, whatever it waits for: the service, a client or its
\* turn to write.  (context.AfterFunc in SendTurnInputWithParams, ctx.Done in
\* requestAppServerApproval)
CancelledTurnsReturn ==
  \A t \in Turns : (t \in cancelled) ~> At(t, "done")

\* A turn the service has completed returns, unless another turn read from the
\* same connection.  (readTurnUntilComplete)
CompletedTurnsReturn ==
  \A t \in Turns : svc[t].phase = "completed" ~> (At(t, "done") \/ t \in shared)

=============================================================================
