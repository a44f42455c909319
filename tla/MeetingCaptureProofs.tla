-------------------------- MODULE MeetingCaptureProofs --------------------------
(***************************************************************************)
(* Proofs about MeetingCapture, for any number of clients, sessions and    *)
(* changes of the mode.  What is left of a session has an owner            *)
(* (SessionsAreOwned) whatever requests run beside each other.  That       *)
(* switching off means off, and that a client that captures has an open    *)
(* session, holds while one request at a time changes the mode.            *)
(* The last section is about the run that has the capture beside the watch *)
(* of a workspace (MCEndings): each part keeps what it promises there.     *)
(***************************************************************************)
EXTENDS MCEndings, TLAPS

\* Requests that change the mode come one after the other.
OneRequest == \A g, h \in Handlers : g = h

-----------------------------------------------------------------------------
(* Types.                                                                  *)

\* The initial state is well typed.
LEMMA TypeInit == Init => TypeOK
<1> SUFFICES ASSUME Init PROVE TypeOK
  OBVIOUS
<1>1. NewConn \in Conn /\ NewHandler \in Handler
  <2>1. 0 \in 0..MaxSessions
    BY MeetingBound
  <2>2. NewHandler \in AnyHandler
    BY DEF NewHandler, AnyHandler
  <2>. QED
    BY <2>1, <2>2 DEF NewConn, Conn, NewHandler, Handler
<1> QED
  BY <1>1, MeetingBound DEF Init, TypeOK

\* A request that sets a policy has one, and one that releases a capture has its client.
LEMMA HandlerShape ==
  ASSUME NEW d \in Handler
  PROVE  /\ d.pc = "set" => d.policy \in Policies
         /\ d.pc = "release" => d.at \in Conns
BY DEF Handler

\* A released capture is well typed.
LEMMA ReleasedTyped ==
  ASSUME TypeOK, NEW c \in Conns
  PROVE  Released(c) \in Conn
<1>1. conn[c] \in Conn /\ 0 \in 0..MaxSessions
  BY MeetingBound DEF TypeOK
<1> QED
  BY <1>1 DEF Released, Conn

\* The steps of a websocket's goroutine keep the types.
LEMMA TypeConn ==
  ASSUME TypeOK, NEW c \in Conns, ConnStep(c) \/ Start(c) \/ Stop(c) \/ Disconnect(c)
  PROVE  TypeOK'
<1> USE MeetingBound DEF TypeOK
<1>0. conn[c] \in Conn
  OBVIOUS
<1>s. 0 \in 0..MaxSessions /\ Sessions \subseteq 0..MaxSessions
  BY DEF Sessions
<1>1. CASE CheckPolicy(c)
  BY <1>0, <1>1 DEF CheckPolicy, Conn
<1>2. CASE CreateSession(c)
  <2>1. PICK s \in Sessions :
          /\ session' = [session EXCEPT ![s] = "open"]
          /\ conn' = [conn EXCEPT ![c] = [@ EXCEPT !.pc = "activate", !.session = s]]
    BY <1>2 DEF CreateSession
  <2>2. [conn[c] EXCEPT !.pc = "activate", !.session = s] \in Conn
    BY <1>0, <1>s DEF Conn
  <2>. QED
    BY <1>2, <2>1, <2>2 DEF CreateSession
<1>3. CASE Activate(c)
  BY <1>0, <1>3 DEF Activate, Conn
<1>4. CASE EndSession(c)
  BY <1>0, <1>4, <1>s DEF EndSession, Conn
<1>5. CASE ReleaseOnLeave(c)
  BY <1>0, <1>5, <1>s DEF ReleaseOnLeave, Released, Conn
<1>6. CASE Start(c)
  BY <1>0, <1>6 DEF Start, Conn
<1>7. CASE Stop(c)
  BY <1>0, <1>7, <1>s DEF Stop, Released, Conn
<1>8. CASE Disconnect(c)
  BY <1>0, <1>8 DEF Disconnect, Leaving, Conn
<1> QED
  BY <1>1, <1>2, <1>3, <1>4, <1>5, <1>6, <1>7, <1>8 DEF ConnStep

\* What a websocket's record says: it has a session while it captures or is
\* about to, a session to end while it ends one, and neither once it is gone.
Shaped ==
  \A c \in Conns :
    /\ conn[c].session # 0 <=> (conn[c].active \/ conn[c].pc = "activate")
    /\ conn[c].ending # 0 <=> conn[c].pc \in {"end", "bye"}
    /\ conn[c].active => conn[c].pc \in {"read", "left"}

\* So do those of a request.
RequestStep(h) ==
  \/ HandlerStep(h)
  \/ \E p \in Patches : LoadConfig(h, p)
  \/ \E p \in Policies : ReadPolicy(h, p)

\* The steps of a request keep the types.
LEMMA TypeHandler ==
  ASSUME TypeOK, Shaped, NEW h \in Handlers, RequestStep(h)
  PROVE  TypeOK'
<1> USE MeetingBound DEF TypeOK
<1>0. handler[h] \in Handler /\ NewHandler \in Handler
  BY DEF NewHandler, Handler, AnyHandler
<1>t. /\ handler[h].pc = "set" => handler[h].policy \in Policies
      /\ handler[h].pc = "release" => handler[h].at \in Conns
  BY <1>0, HandlerShape
<1>e. handler[h].ending \subseteq Sessions
  BY <1>0 DEF Handler, AnyHandler
<1>1. CASE SaveConfig(h)
  <2>1. Patched(h) \in BOOLEAN
    BY <1>0 DEF Patched, Handler, AnyHandler
  <2>. QED
    BY <1>0, <1>1, <2>1 DEF SaveConfig, StopsOrDone, Handler, AnyHandler
<1>2. CASE SetPolicy(h)
  <2>1. handler[h].policy \in Policies
    BY <1>t, <1>2 DEF SetPolicy
  <2>. QED
    BY <1>0, <1>2, <2>1 DEF SetPolicy, StopsOrDone, Handler, AnyHandler
<1>3. CASE Snapshot(h)
  BY <1>0, <1>3 DEF Snapshot, Handler, AnyHandler
<1>4. CASE ReleaseVisited(h)
  <2> DEFINE c == handler[h].at
  <2>1. c \in Conns
    BY <1>t, <1>4 DEF ReleaseVisited
  <2>2. conn[c] \in Conn
    BY <2>1
  <2>3. CASE StillCaptures(c)
    <3> DEFINE r == [handler[h] EXCEPT !.pc = "end", !.ending = {conn[c].session}, !.at = 0]
    <3>1. Released(c) \in Conn
      BY <2>1, ReleasedTyped
    <3>2. conn[c].session \in Sessions
      BY <2>1, <2>2, <2>3 DEF Conn, Sessions, StillCaptures, Shaped
    <3>3. r \in Handler
      BY <1>0, <3>2 DEF Handler, AnyHandler
    <3>4. handler' = [handler EXCEPT ![h] = r] /\ conn' = [conn EXCEPT ![c] = Released(c)]
      BY <1>4, <2>3 DEF ReleaseVisited
    <3>5. UNCHANGED <<enabled, policy, session, changes>>
      BY <1>4 DEF ReleaseVisited
    <3> HIDE DEF r
    <3>. QED
      BY <3>1, <3>3, <3>4, <3>5
  <2>4. CASE ~StillCaptures(c)
    <3> DEFINE r == [handler[h] EXCEPT !.pc = "visit", !.at = 0]
    <3>1. r \in Handler
      BY <1>0 DEF Handler, AnyHandler
    <3>2. handler' = [handler EXCEPT ![h] = r] /\ conn' = conn
      BY <1>4, <2>4 DEF ReleaseVisited
    <3>3. UNCHANGED <<enabled, policy, session, changes>>
      BY <1>4 DEF ReleaseVisited
    <3> HIDE DEF r
    <3>. QED
      BY <3>1, <3>2, <3>3
  <2>. QED
    BY <2>3, <2>4
<1>5. CASE EndVisited(h)
  BY <1>0, <1>5 DEF EndVisited, Handler, AnyHandler
<1>6. CASE ListOpen(h)
  BY <1>0, <1>6 DEF ListOpen, Handler, AnyHandler
<1>7. CASE Sweep(h)
  <2>1. CASE handler[h].ending = {}
    BY <1>0, <1>7, <2>1 DEF Sweep
  <2>2. CASE handler[h].ending # {}
    <3>1. PICK s \in handler[h].ending :
            /\ session' = [session EXCEPT ![s] = "ended"]
            /\ handler' = [handler EXCEPT ![h].ending = @ \ {s}]
      BY <1>7, <2>2, Zenon DEF Sweep
    <3>2. handler' \in [Handlers -> Handler]
      BY <1>0, <3>1 DEF Handler, AnyHandler
    <3>3. session' \in [Sessions -> {"none", "open", "ended"}]
      BY <1>e, <3>1
    <3>. QED
      BY <1>7, <3>2, <3>3 DEF Sweep
  <2>. QED
    BY <2>1, <2>2
<1>8. CASE \E c \in Conns : Visit(h, c)
  <2>1. PICK c \in Conns : Visit(h, c)
    BY <1>8
  <2> DEFINE r == [handler[h] EXCEPT !.todo = @ \ {c},
                                     !.pc = IF conn[c].active THEN "release" ELSE "visit",
                                     !.at = IF conn[c].active THEN c ELSE @]
  <2>2. handler' = [handler EXCEPT ![h] = r]
    BY <2>1 DEF Visit
  <2>3. r \in Handler
    BY <1>0 DEF Handler, AnyHandler
  <2>4. UNCHANGED <<enabled, policy, conn, session, changes>>
    BY <2>1 DEF Visit
  <2> HIDE DEF r
  <2>. QED
    BY <2>2, <2>3, <2>4
<1>9. CASE \E p \in Patches : LoadConfig(h, p)
  <2>1. PICK p \in Patches : LoadConfig(h, p)
    BY <1>9
  <2> DEFINE r == [NewHandler EXCEPT !.pc = "save", !.patch = p, !.current = enabled]
  <2>2. r \in Handler
    BY <1>0 DEF Handler, AnyHandler, NewHandler
  <2>3. Begin(h, r) /\ UNCHANGED <<enabled, policy, conn, session>>
    BY <2>1 DEF LoadConfig
  <2> HIDE DEF r
  <2>. QED
    BY <2>2, <2>3 DEF Begin
<1>10. CASE \E p \in Policies : ReadPolicy(h, p)
  <2>1. PICK p \in Policies : ReadPolicy(h, p)
    BY <1>10
  <2> DEFINE b == policy = "meeting"
  <2> DEFINE r == [NewHandler EXCEPT !.pc = "set", !.policy = p, !.current = b]
  <2>2. r \in Handler
    <3>1. b \in BOOLEAN
      OBVIOUS
    <3> HIDE DEF b
    <3>. QED
      BY <1>0, <3>1 DEF Handler, AnyHandler, NewHandler
  <2>3. Begin(h, r) /\ UNCHANGED <<enabled, policy, conn, session>>
    BY <2>1 DEF ReadPolicy
  <2> HIDE DEF r
  <2>. QED
    BY <2>2, <2>3 DEF Begin
<1> QED
  BY <1>1, <1>2, <1>3, <1>4, <1>5, <1>6, <1>7, <1>8, <1>9, <1>10 DEF RequestStep, HandlerStep

-----------------------------------------------------------------------------
(* Who owns a session.                                                     *)

\* The two sorts of steps.
ClientStep(c) == ConnStep(c) \/ Start(c) \/ Stop(c) \/ Disconnect(c)

\* A step is one of a client, one of a request, or none.
LEMMA StepCases ==
  ASSUME [Next]_vars
  PROVE  \/ \E c \in Conns : ClientStep(c)
         \/ \E h \in Handlers : RequestStep(h)
         \/ UNCHANGED vars
BY DEF Next, ClientStep, RequestStep

\* A request has sessions to end only where it ends some.
EndsWhereItEnds ==
  \A h \in Handlers : handler[h].pc \notin {"end", "sweep"} => handler[h].ending = {}

Owned == Shaped /\ EndsWhereItEnds /\ OpenHasOwner

\* Initially nothing is open, so everything open has its owner.
LEMMA OwnedInit == Init => Owned
<1> SUFFICES ASSUME Init PROVE Owned
  OBVIOUS
<1>1. Shaped
  BY DEF Init, Shaped, NewConn
<1>2. EndsWhereItEnds
  BY DEF Init, EndsWhereItEnds, NewHandler
<1>3. OpenHasOwner
  BY DEF Init, OpenHasOwner
<1> QED
  BY <1>1, <1>2, <1>3 DEF Owned

\* What the requests do to their locals, field by field.
LEMMA BeginFacts ==
  ASSUME TypeOK, NEW h \in Handlers,
         (\E p \in Patches : LoadConfig(h, p)) \/ (\E p \in Policies : ReadPolicy(h, p))
  PROVE  /\ handler[h].pc = "idle"
         /\ handler'[h].pc \in {"save", "set"}
         /\ handler'[h].pc = "save" => handler'[h].current = enabled
         /\ handler'[h].pc = "set" => (handler'[h].current <=> policy = "meeting")
         /\ handler'[h].ending = {}
         /\ UNCHANGED <<enabled, policy, conn, session>>
         /\ \A g \in Handlers : g # h => handler'[g] = handler[g]
<1>1. CASE \E p \in Patches : LoadConfig(h, p)
  <2>1. PICK p \in Patches : LoadConfig(h, p)
    BY <1>1
  <2> DEFINE r == [NewHandler EXCEPT !.pc = "save", !.patch = p, !.current = enabled]
  <2>2. Begin(h, r) /\ UNCHANGED <<enabled, policy, conn, session>>
    BY <2>1 DEF LoadConfig
  <2>3. r.pc = "save" /\ r.current = enabled /\ r.ending = {}
    BY DEF NewHandler
  <2> HIDE DEF r
  <2>. QED
    BY <2>2, <2>3 DEF Begin, Idle, TypeOK
<1>2. CASE \E p \in Policies : ReadPolicy(h, p)
  <2>1. PICK p \in Policies : ReadPolicy(h, p)
    BY <1>2
  <2> DEFINE b == policy = "meeting"
  <2> DEFINE r == [NewHandler EXCEPT !.pc = "set", !.policy = p, !.current = b]
  <2>2. Begin(h, r) /\ UNCHANGED <<enabled, policy, conn, session>>
    BY <2>1 DEF ReadPolicy
  <2>3. r.pc = "set" /\ r.current = b /\ r.ending = {}
    <3> HIDE DEF b
    <3>. QED
      BY DEF NewHandler
  <2>4. r.current <=> policy = "meeting"
    BY <2>3
  <2> HIDE DEF r, b
  <2>. QED
    BY <2>2, <2>3, <2>4 DEF Begin, Idle, TypeOK
<1> QED
  BY <1>1, <1>2

\* What the sweep's look at one client does.
LEMMA VisitFacts ==
  ASSUME TypeOK, NEW h \in Handlers, NEW c \in Conns, Visit(h, c)
  PROVE  /\ handler'[h].pc = IF conn[c].active THEN "release" ELSE "visit"
         /\ conn[c].active => handler'[h].at = c
         /\ handler'[h].todo = handler[h].todo \ {c}
         /\ handler'[h].ending = handler[h].ending
         /\ \A g \in Handlers : g # h => handler'[g] = handler[g]
<1> DEFINE r == [handler[h] EXCEPT !.todo = @ \ {c},
                                   !.pc = IF conn[c].active THEN "release" ELSE "visit",
                                   !.at = IF conn[c].active THEN c ELSE @]
<1>1. handler' = [handler EXCEPT ![h] = r]
  BY DEF Visit
<1>2. /\ r.pc = IF conn[c].active THEN "release" ELSE "visit"
      /\ conn[c].active => r.at = c
      /\ r.todo = handler[h].todo \ {c}
      /\ r.ending = handler[h].ending
  <2>1. handler[h] \in AnyHandler
    BY DEF TypeOK, Handler
  <2>. QED
    BY <2>1 DEF AnyHandler
<1> HIDE DEF r
<1> QED
  BY <1>1, <1>2 DEF TypeOK

\* What releasing the visited client does, under its participantMu.
LEMMA ReleaseFacts ==
  ASSUME TypeOK, Shaped, NEW h \in Handlers, ReleaseVisited(h)
  PROVE  /\ handler[h].at \in Conns
         /\ ~Locked(handler[h].at)
         /\ \/ /\ conn[handler[h].at].active
               /\ conn[handler[h].at].session \in Sessions
               /\ conn' = [conn EXCEPT ![handler[h].at] = Released(handler[h].at)]
               /\ handler'[h].pc = "end"
               /\ handler'[h].ending = {conn[handler[h].at].session}
            \/ /\ ~conn[handler[h].at].active /\ conn' = conn
               /\ handler'[h].pc = "visit"
               /\ handler'[h].ending = handler[h].ending
         /\ handler'[h].todo = handler[h].todo
         /\ \A g \in Handlers : g # h => handler'[g] = handler[g]
         /\ UNCHANGED <<enabled, policy, session>>
<1> DEFINE c == handler[h].at
<1>1. c \in Conns
  BY HandlerShape DEF ReleaseVisited, TypeOK
<1>2. conn[c] \in Conn /\ handler[h] \in AnyHandler
  BY <1>1 DEF TypeOK, Handler
<1>3. CASE StillCaptures(c)
  <2> DEFINE r == [handler[h] EXCEPT !.pc = "end", !.ending = {conn[c].session}, !.at = 0]
  <2>1. handler' = [handler EXCEPT ![h] = r] /\ conn' = [conn EXCEPT ![c] = Released(c)]
    BY <1>3 DEF ReleaseVisited
  <2>2. r.pc = "end" /\ r.ending = {conn[c].session} /\ r.todo = handler[h].todo
    BY <1>2 DEF AnyHandler
  <2>3. conn[c].active /\ conn[c].session \in Sessions
    BY <1>1, <1>2, <1>3 DEF Conn, Sessions, StillCaptures, Shaped
  <2>4. ~Locked(c) /\ UNCHANGED <<enabled, policy, session>>
    BY DEF ReleaseVisited
  <2> HIDE DEF r
  <2>. QED
    BY <1>1, <2>1, <2>2, <2>3, <2>4 DEF TypeOK
<1>4. CASE ~StillCaptures(c)
  <2> DEFINE r == [handler[h] EXCEPT !.pc = "visit", !.at = 0]
  <2>1. handler' = [handler EXCEPT ![h] = r] /\ conn' = conn
    BY <1>4 DEF ReleaseVisited
  <2>2. r.pc = "visit" /\ r.ending = handler[h].ending /\ r.todo = handler[h].todo
    BY <1>2 DEF AnyHandler
  <2>3. ~conn[c].active
    BY <1>4 DEF StillCaptures
  <2>4. ~Locked(c) /\ UNCHANGED <<enabled, policy, session>>
    BY DEF ReleaseVisited
  <2> HIDE DEF r
  <2>. QED
    BY <1>1, <2>1, <2>2, <2>3, <2>4 DEF TypeOK
<1> QED
  BY <1>3, <1>4

\* What ending one of the listed rows does.
LEMMA SweepFacts ==
  ASSUME TypeOK, NEW h \in Handlers, Sweep(h)
  PROVE  /\ \/ /\ handler[h].ending = {} /\ session' = session
               /\ handler'[h].pc = "idle" /\ handler'[h].ending = {}
            \/ \E s \in handler[h].ending :
                 /\ session' = [session EXCEPT ![s] = "ended"]
                 /\ handler'[h].pc = "sweep"
                 /\ handler'[h].ending = handler[h].ending \ {s}
         /\ \A g \in Handlers : g # h => handler'[g] = handler[g]
         /\ handler[h].pc = "sweep" /\ UNCHANGED <<enabled, policy, conn>>
<1>1. CASE handler[h].ending = {}
  <2>1. handler' = [handler EXCEPT ![h] = NewHandler] /\ session' = session
    BY <1>1 DEF Sweep
  <2>2. handler[h].pc = "sweep" /\ UNCHANGED <<enabled, policy, conn>>
    BY DEF Sweep
  <2>. QED
    BY <1>1, <2>1, <2>2 DEF NewHandler, TypeOK
<1>2. CASE handler[h].ending # {}
  <2>1. PICK s \in handler[h].ending :
          /\ session' = [session EXCEPT ![s] = "ended"]
          /\ handler' = [handler EXCEPT ![h].ending = @ \ {s}]
    BY <1>2, Zenon DEF Sweep
  <2>2. handler[h].pc = "sweep" /\ UNCHANGED <<enabled, policy, conn>>
    BY DEF Sweep
  <2>3. handler[h] \in AnyHandler
    BY DEF TypeOK, Handler
  <2>4. /\ handler'[h].pc = "sweep"
        /\ handler'[h].ending = handler[h].ending \ {s}
        /\ \A g \in Handlers : g # h => handler'[g] = handler[g]
    BY <2>1, <2>2, <2>3 DEF TypeOK, AnyHandler
  <2>. QED
    BY <2>1, <2>2, <2>4
<1> QED
  BY <1>1, <1>2

\* A client's step leaves every client with a session where it needs one.
LEMMA ShapedClient ==
  ASSUME TypeOK, Shaped, NEW c \in Conns, ClientStep(c)
  PROVE  Shaped'
<1> USE DEF TypeOK, Shaped
<1>0. conn[c] \in Conn
  OBVIOUS
<1>1. CASE CheckPolicy(c)
  BY <1>0, <1>1 DEF CheckPolicy, Conn
<1>2. CASE CreateSession(c)
  <2>1. PICK s \in Sessions :
          conn' = [conn EXCEPT ![c] = [@ EXCEPT !.pc = "activate", !.session = s]]
    BY <1>2 DEF CreateSession
  <2>2. s # 0
    BY DEF Sessions
  <2>3. conn[c].pc = "create"
    BY <1>2 DEF CreateSession
  <2>. QED
    BY <1>0, <2>1, <2>2, <2>3 DEF Conn
<1>3. CASE Activate(c)
  BY <1>0, <1>3 DEF Activate, Conn
<1>4. CASE EndSession(c)
  BY <1>0, <1>4 DEF EndSession, Conn
<1>5. CASE ReleaseOnLeave(c)
  BY <1>0, <1>5 DEF ReleaseOnLeave, Released, Conn
<1>6. CASE Start(c)
  BY <1>0, <1>6 DEF Start, Reads, Conn
<1>7. CASE Stop(c)
  BY <1>0, <1>7 DEF Stop, Reads, Released, Conn
<1>8. CASE Disconnect(c)
  BY <1>0, <1>8 DEF Disconnect, Reads, Leaving, Conn
<1> QED
  BY <1>1, <1>2, <1>3, <1>4, <1>5, <1>6, <1>7, <1>8 DEF ClientStep, ConnStep

\* So does a request's step.
LEMMA ShapedRequest ==
  ASSUME TypeOK, Shaped, NEW h \in Handlers, RequestStep(h)
  PROVE  Shaped'
<1>1. CASE conn' = conn
  BY <1>1 DEF Shaped
<1>2. CASE ReleaseVisited(h)
  <2> DEFINE c == handler[h].at
  <2>1. /\ c \in Conns
        /\ \/ conn' = conn
           \/ conn[c].active /\ conn' = [conn EXCEPT ![c] = Released(c)]
    BY <1>2, ReleaseFacts
  <2> HIDE DEF c
  <2>2. conn[c] \in Conn
    BY <2>1 DEF TypeOK
  <2>3. CASE conn[c].active /\ conn' = [conn EXCEPT ![c] = Released(c)]
    <3>1. /\ Released(c).session = 0 /\ Released(c).active = FALSE
          /\ Released(c).pc = conn[c].pc /\ Released(c).ending = conn[c].ending
      BY <2>2 DEF Released, Conn
    <3>2. conn[c].pc # "activate"
      BY <2>1, <2>3 DEF Shaped
    <3>. QED
      BY <2>1, <2>3, <3>1, <3>2 DEF Shaped, TypeOK
  <2>. QED
    BY <1>1, <2>1, <2>3
<1> QED
  BY <1>1, <1>2 DEF RequestStep, HandlerStep, SaveConfig, SetPolicy, Snapshot, EndVisited,
       ListOpen, Sweep, Visit, LoadConfig, ReadPolicy

\* A request ends only sessions it noted.
LEMMA EndsRequest ==
  ASSUME TypeOK, Shaped, EndsWhereItEnds, NEW h \in Handlers, RequestStep(h)
  PROVE  EndsWhereItEnds'
<1> USE DEF EndsWhereItEnds
<1>0. handler[h] \in AnyHandler /\ handler \in [Handlers -> Handler]
  BY DEF TypeOK, Handler
<1>1. CASE SaveConfig(h)
  BY <1>0, <1>1 DEF SaveConfig, StopsOrDone, NewHandler, AnyHandler
<1>2. CASE SetPolicy(h)
  BY <1>0, <1>2 DEF SetPolicy, StopsOrDone, NewHandler, AnyHandler
<1>3. CASE Snapshot(h)
  BY <1>0, <1>3 DEF Snapshot, AnyHandler
<1>4. CASE ReleaseVisited(h)
  <2>1. handler[h].pc = "release"
    BY <1>4 DEF ReleaseVisited
  <2>. QED
    BY <1>4, <2>1, ReleaseFacts
<1>5. CASE EndVisited(h)
  BY <1>0, <1>5 DEF EndVisited, AnyHandler
<1>6. CASE ListOpen(h)
  BY <1>0, <1>6 DEF ListOpen, AnyHandler
<1>7. CASE Sweep(h)
  BY <1>7, SweepFacts
<1>8. CASE \E c \in Conns : Visit(h, c)
  <2>1. PICK c \in Conns : Visit(h, c)
    BY <1>8
  <2>2. handler[h].pc = "visit"
    BY <2>1 DEF Visit
  <2>. QED
    BY <2>1, <2>2, VisitFacts
<1>9. CASE (\E p \in Patches : LoadConfig(h, p)) \/ (\E p \in Policies : ReadPolicy(h, p))
  BY <1>9, BeginFacts
<1> QED
  BY <1>1, <1>2, <1>3, <1>4, <1>5, <1>6, <1>7, <1>8, <1>9 DEF RequestStep, HandlerStep

\* Every session keeps an owner when a client moves ...
LEMMA OwnerClient ==
  ASSUME TypeOK, Owned, NEW c \in Conns, ClientStep(c)
  PROVE  OpenHasOwner'
<1> USE DEF TypeOK, Owned, Shaped, OpenHasOwner
<1>0. conn[c] \in Conn
  OBVIOUS
<1>1. CASE CheckPolicy(c)
  BY <1>0, <1>1 DEF CheckPolicy, Conn
<1>2. CASE CreateSession(c)
  <2>1. PICK s \in Sessions :
          /\ session' = [session EXCEPT ![s] = "open"]
          /\ conn' = [conn EXCEPT ![c] = [@ EXCEPT !.pc = "activate", !.session = s]]
    BY <1>2 DEF CreateSession
  <2>2. conn[c].pc = "create" /\ handler' = handler
    BY <1>2 DEF CreateSession
  <2>3. conn[c].session = 0
    BY <1>0, <2>2 DEF Conn
  <2>. QED
    BY <1>0, <2>1, <2>2, <2>3 DEF Conn, Sessions
<1>3. CASE Activate(c)
  BY <1>0, <1>3 DEF Activate, Conn
<1>4. CASE EndSession(c)
  BY <1>0, <1>4 DEF EndSession, Conn, Sessions
<1>5. CASE ReleaseOnLeave(c)
  BY <1>0, <1>5 DEF ReleaseOnLeave, Released, Conn, Sessions
<1>6. CASE Start(c)
  <2>1. conn' = conn \/ conn' = [conn EXCEPT ![c] = [@ EXCEPT !.pc = "config"]]
    BY <1>6 DEF Start
  <2>2. UNCHANGED <<session, handler>>
    BY <1>6 DEF Start
  <2>. QED
    BY <1>0, <2>1, <2>2 DEF Conn
<1>7. CASE Stop(c)
  BY <1>0, <1>7 DEF Stop, Reads, Released, Conn, Sessions
<1>8. CASE Disconnect(c)
  BY <1>0, <1>8 DEF Disconnect, Reads, Leaving, Conn
<1> QED
  BY <1>1, <1>2, <1>3, <1>4, <1>5, <1>6, <1>7, <1>8 DEF ClientStep, ConnStep

\* ... and when a request does.
LEMMA OwnerRequest ==
  ASSUME TypeOK, Owned, NEW h \in Handlers, RequestStep(h)
  PROVE  OpenHasOwner'
<1> USE DEF Owned, OpenHasOwner, EndsWhereItEnds
<1>0. handler[h] \in AnyHandler /\ handler \in [Handlers -> Handler]
  BY DEF TypeOK, Handler
<1>1. CASE SaveConfig(h)
  BY <1>0, <1>1 DEF SaveConfig, StopsOrDone, AnyHandler
<1>2. CASE SetPolicy(h)
  BY <1>0, <1>2 DEF SetPolicy, StopsOrDone, AnyHandler
<1>3. CASE Snapshot(h)
  BY <1>0, <1>3 DEF Snapshot, AnyHandler
<1>4. CASE ReleaseVisited(h)
  <2> DEFINE c == handler[h].at
  <2>1. handler[h].pc = "release"
    BY <1>4 DEF ReleaseVisited
  <2>2. c \in Conns /\ conn \in [Conns -> Conn] /\ conn[c] \in Conn
    BY <1>4, ReleaseFacts DEF TypeOK
  <2>3. \A g \in Handlers : g # h => handler'[g] = handler[g]
    BY <1>4, ReleaseFacts
  <2>4. session' = session
    BY <1>4, ReleaseFacts
  <2>5. CASE /\ conn[c].active
             /\ conn' = [conn EXCEPT ![c] = Released(c)]
             /\ handler'[h].ending = {conn[c].session}
    <3>1. /\ Released(c).pc = conn[c].pc /\ Released(c).ending = conn[c].ending
      BY <2>2 DEF Released, Conn
    <3> HIDE DEF c
    <3>. QED
      BY <2>1, <2>2, <2>3, <2>4, <2>5, <3>1
  <2>6. CASE conn' = conn /\ handler'[h].ending = handler[h].ending
    BY <2>3, <2>4, <2>6
  <2>. QED
    BY <1>4, <2>5, <2>6, ReleaseFacts
<1>5. CASE EndVisited(h)
  BY <1>0, <1>5 DEF EndVisited, AnyHandler
<1>6. CASE ListOpen(h)
  BY <1>0, <1>6 DEF ListOpen, AnyHandler
<1>7. CASE Sweep(h)
  <2>1. /\ conn' = conn
        /\ \A g \in Handlers : g # h => handler'[g] = handler[g]
    BY <1>7, SweepFacts
  <2>2. CASE handler[h].ending = {} /\ session' = session
    BY <2>1, <2>2
  <2>3. CASE \E s \in handler[h].ending : /\ session' = [session EXCEPT ![s] = "ended"]
                                          /\ handler'[h].ending = handler[h].ending \ {s}
    <3>1. PICK s \in handler[h].ending : /\ session' = [session EXCEPT ![s] = "ended"]
                                         /\ handler'[h].ending = handler[h].ending \ {s}
      BY <2>3
    <3>2. s \in Sessions /\ session \in [Sessions -> {"none", "open", "ended"}]
      BY <1>0 DEF TypeOK, AnyHandler
    <3>3. \A u \in Sessions : session'[u] = "open" => u # s /\ session[u] = "open"
      BY <3>1, <3>2
    <3>. QED
      BY <2>1, <3>1, <3>3
  <2>. QED
    BY <1>7, <2>2, <2>3, SweepFacts
<1>8. CASE \E c \in Conns : Visit(h, c)
  <2>1. PICK c \in Conns : Visit(h, c)
    BY <1>8
  <2>2. UNCHANGED <<conn, session>>
    BY <2>1 DEF Visit
  <2>. QED
    BY <2>1, <2>2, VisitFacts
<1>9. CASE (\E p \in Patches : LoadConfig(h, p)) \/ (\E p \in Policies : ReadPolicy(h, p))
  <2>1. handler[h].pc = "idle" /\ UNCHANGED <<conn, session>>
    BY <1>9, BeginFacts
  <2>2. \A g \in Handlers : g # h => handler'[g] = handler[g]
    BY <1>9, BeginFacts
  <2>. QED
    BY <2>1, <2>2
<1> QED
  BY <1>1, <1>2, <1>3, <1>4, <1>5, <1>6, <1>7, <1>8, <1>9 DEF RequestStep, HandlerStep

\* Every step keeps the types and the owners.
LEMMA TypeStep == TypeOK /\ Owned /\ [Next]_vars => TypeOK' /\ Owned'
<1> SUFFICES ASSUME TypeOK, Owned, [Next]_vars
             PROVE  TypeOK' /\ Owned'
  OBVIOUS
<1>1. CASE \E c \in Conns : ClientStep(c)
  <2>1. PICK c \in Conns : ClientStep(c)
    BY <1>1
  <2>2. TypeOK'
    BY <2>1, TypeConn DEF ClientStep
  <2>3. Shaped' /\ OpenHasOwner'
    BY <2>1, ShapedClient, OwnerClient DEF Owned
  <2>4. handler' = handler
    BY <2>1 DEF ClientStep, ConnStep, CheckPolicy, CreateSession, Activate, EndSession,
         ReleaseOnLeave, Start, Stop, Disconnect
  <2>5. EndsWhereItEnds'
    BY <2>4 DEF EndsWhereItEnds, Owned
  <2>. QED
    BY <2>2, <2>3, <2>5 DEF Owned
<1>2. CASE \E h \in Handlers : RequestStep(h)
  BY <1>2, TypeHandler, ShapedRequest, EndsRequest, OwnerRequest DEF Owned
<1>3. CASE UNCHANGED vars
  BY <1>3 DEF vars, TypeOK, Owned, Shaped, EndsWhereItEnds, OpenHasOwner
<1> QED
  BY <1>1, <1>2, <1>3, StepCases

\* Every reachable state is typed, and a websocket's session and its state agree: it has
\* one while it captures.  (handleParticipantStart, releaseParticipantSession)
THEOREM Typed == Spec => [](TypeOK /\ Owned)
<1>1. Init => TypeOK /\ Owned
  BY TypeInit, OwnedInit
<1> QED
  BY <1>1, TypeStep, PTL DEF Spec

\* Whatever requests run beside each other, an open session has a client, or somebody
\* is about to end it.  (handleChatWS, releaseParticipantSession)
THEOREM SessionsAreOwned == Spec => []OpenHasOwner
<1>1. Owned => OpenHasOwner
  BY DEF Owned
<1> QED
  BY <1>1, Typed, PTL

-----------------------------------------------------------------------------
(* One request at a time.                                                  *)

\* c captures, or has passed the checks that could refuse it.
Risk(c) ==
  \/ conn[c].active
  \/ conn[c].pc \in {"create", "activate"}
  \/ conn[c].pc = "config" /\ (policy = "meeting" \/ ~enabled)

Stopping(h) == handler[h].pc \in {"snapshot", "visit", "release", "end", "sweep"}

\* The request on whose list c still is.
WillSee(h, c) ==
  \/ handler[h].pc \in {"visit", "release", "end"} /\ c \in handler[h].todo
  \/ handler[h].pc = "release" /\ c = handler[h].at

\* A request knows the mode it is about to change, and stops what is captured only when
\* capture is not wanted; then it comes to every client that is at risk.
KnowsMode ==
  \A h \in Handlers :
    /\ handler[h].pc = "save" => handler[h].current = enabled
    /\ handler[h].pc = "set" => (handler[h].current <=> policy = "meeting")
    /\ Stopping(h) => ~Wanted
ComesToAll ==
  \/ Wanted
  \/ \E h \in Handlers : handler[h].pc = "snapshot"
  \/ \A c \in Conns : Risk(c) => \E h \in Handlers : WillSee(h, c)

\* The sessions that are held are open, those that are about to end were open once, and
\* no session is both or held twice.
HeldIsOpen == \A c \in Conns : conn[c].session # 0 => session[conn[c].session] = "open"
EndingIsKnown ==
  /\ \A c \in Conns : conn[c].ending # 0 => session[conn[c].ending] # "none"
  /\ \A h \in Handlers : \A s \in handler[h].ending : session[s] # "none"
HeldAlone ==
  \A c \in Conns : conn[c].session # 0 =>
    /\ \A d \in Conns : conn[c].session # conn[d].ending
    /\ \A d \in Conns : d # c => conn[c].session # conn[d].session
    /\ \A h \in Handlers : conn[c].session \notin handler[h].ending
ModeInv == KnowsMode /\ ComesToAll
HeldInv == HeldIsOpen /\ EndingIsKnown /\ HeldAlone

\* A client that moves puts nothing at risk when capture is not wanted.
LEMMA RiskClient ==
  ASSUME TypeOK, ~Wanted, NEW c \in Conns, ClientStep(c)
  PROVE  /\ Risk(c)' => Risk(c)
         /\ \A d \in Conns : d # c => conn'[d] = conn[d]
         /\ UNCHANGED <<enabled, policy, handler>>
<1> USE DEF TypeOK
<1>0. conn[c] \in Conn
  OBVIOUS
<1>1. CASE CheckPolicy(c)
  BY <1>0, <1>1 DEF CheckPolicy, Conn, Risk
<1>2. CASE CreateSession(c)
  <2>1. PICK s \in Sessions :
          conn' = [conn EXCEPT ![c] = [@ EXCEPT !.pc = "activate", !.session = s]]
    BY <1>2 DEF CreateSession
  <2>2. conn[c].pc = "create" /\ UNCHANGED <<enabled, policy, handler>>
    BY <1>2 DEF CreateSession
  <2>. QED
    BY <1>0, <2>1, <2>2 DEF Conn, Risk
<1>3. CASE Activate(c)
  BY <1>0, <1>3 DEF Activate, Conn, Risk
<1>4. CASE EndSession(c)
  BY <1>0, <1>4 DEF EndSession, Conn, Risk
<1>5. CASE ReleaseOnLeave(c)
  BY <1>0, <1>5 DEF ReleaseOnLeave, Released, Conn, Risk
<1>6. CASE Start(c)
  <2>1. \/ conn' = conn
        \/ enabled /\ conn' = [conn EXCEPT ![c] = [@ EXCEPT !.pc = "config"]]
    BY <1>6 DEF Start
  <2>2. ~conn[c].active /\ UNCHANGED <<enabled, policy, handler>>
    BY <1>6 DEF Start
  <2>. QED
    BY <1>0, <2>1, <2>2 DEF Conn, Risk, Wanted
<1>7. CASE Stop(c)
  BY <1>0, <1>7 DEF Stop, Reads, Released, Conn, Risk
<1>8. CASE Disconnect(c)
  BY <1>0, <1>8 DEF Disconnect, Reads, Leaving, Conn, Risk
<1> QED
  BY <1>1, <1>2, <1>3, <1>4, <1>5, <1>6, <1>7, <1>8 DEF ClientStep, ConnStep

\* A client's step keeps what a switched-off mode has in store for every capture.
LEMMA ModeClient ==
  ASSUME TypeOK, ModeInv, NEW c \in Conns, ClientStep(c)
  PROVE  ModeInv'
<1>1. UNCHANGED <<enabled, policy, handler>>
  BY DEF ClientStep, ConnStep, CheckPolicy, CreateSession, Activate, EndSession,
       ReleaseOnLeave, Start, Stop, Disconnect
<1>2. KnowsMode'
  BY <1>1 DEF ModeInv, KnowsMode, Stopping, Wanted
<1>3. CASE Wanted \/ \E h \in Handlers : handler[h].pc = "snapshot"
  BY <1>1, <1>2, <1>3 DEF ModeInv, ComesToAll, Wanted
<1>4. CASE ~Wanted /\ \A d \in Conns : Risk(d) => \E h \in Handlers : WillSee(h, d)
  <2>1. \A d \in Conns : Risk(d)' => Risk(d)
    BY <1>4, RiskClient DEF Risk
  <2>2. \A d \in Conns, h \in Handlers : WillSee(h, d) => WillSee(h, d)'
    BY <1>1 DEF WillSee
  <2>. QED
    BY <1>2, <1>4, <2>1, <2>2 DEF ModeInv, ComesToAll
<1> QED
  BY <1>2, <1>3, <1>4 DEF ModeInv, ComesToAll

\* What is at risk depends on the websockets and the mode.
LEMMA SameRisk ==
  ASSUME UNCHANGED <<enabled, policy, conn>>
  PROVE  (Wanted' <=> Wanted) /\ \A c \in Conns : Risk(c)' <=> Risk(c)
BY DEF Wanted, Risk

\* A request changes the mode, or comes to the next client.
LEMMA ModeRequest ==
  ASSUME OneRequest, TypeOK, Shaped, ModeInv, NEW h \in Handlers, RequestStep(h)
  PROVE  ModeInv'
<1>0. /\ handler[h] \in AnyHandler /\ handler[h] \in Handler
      /\ handler \in [Handlers -> Handler]
      /\ \A g \in Handlers : g = h
  BY DEF TypeOK, Handler, OneRequest
<1>k. /\ handler[h].pc = "save" => handler[h].current = enabled
      /\ handler[h].pc = "set" => (handler[h].current <=> policy = "meeting")
      /\ Stopping(h) => ~Wanted
  BY DEF ModeInv, KnowsMode
<1>w. \/ Wanted
      \/ handler[h].pc = "snapshot"
      \/ \A c \in Conns : Risk(c) => WillSee(h, c)
  BY <1>0 DEF ModeInv, ComesToAll
<1>g. SUFFICES /\ handler'[h].pc = "save" => handler'[h].current = enabled'
               /\ handler'[h].pc = "set" => (handler'[h].current <=> policy' = "meeting")
               /\ Stopping(h)' => ~Wanted'
               /\ \/ Wanted'
                  \/ handler'[h].pc = "snapshot"
                  \/ \A c \in Conns : Risk(c)' => WillSee(h, c)'
  BY <1>0 DEF ModeInv, KnowsMode, ComesToAll
<1>1. CASE SaveConfig(h)
  <2>1. /\ handler[h].pc = "save" /\ enabled' = Patched(h) /\ UNCHANGED <<policy, conn>>
        /\ handler' = [handler EXCEPT ![h] = IF handler[h].current /\ ~Patched(h)
                                             THEN [@ EXCEPT !.pc = "snapshot"]
                                             ELSE NewHandler]
    BY <1>1 DEF SaveConfig, StopsOrDone
  <2>2. handler[h].current = enabled /\ Patched(h) \in BOOLEAN /\ enabled \in BOOLEAN
    BY <1>0, <1>k, <2>1 DEF Patched, AnyHandler, TypeOK
  <2>3. CASE enabled /\ ~enabled'
    <3>1. handler'[h].pc = "snapshot"
      BY <1>0, <2>1, <2>2, <2>3 DEF AnyHandler
    <3>. QED
      BY <2>3, <3>1 DEF Wanted
  <2>4. CASE ~enabled \/ enabled'
    <3>1. handler'[h].pc = "idle"
      BY <1>0, <2>1, <2>2, <2>4 DEF NewHandler
    <3>2. Wanted \/ \A c \in Conns : ~Risk(c)
      BY <1>w, <2>1 DEF WillSee
    <3>3. Wanted' \/ \A c \in Conns : ~Risk(c)'
      BY <2>1, <2>2, <2>4, <3>2 DEF Wanted, Risk
    <3>. QED
      BY <3>1, <3>3 DEF Stopping
  <2>. QED
    BY <2>2, <2>3, <2>4
<1>2. CASE SetPolicy(h)
  <2> DEFINE stops == /\ policy # handler[h].policy
                      /\ handler[h].current /\ handler[h].policy = "dialogue"
  <2>1. /\ handler[h].pc = "set" /\ policy' = handler[h].policy /\ UNCHANGED <<enabled, conn>>
        /\ handler' = [handler EXCEPT ![h] = IF stops THEN [@ EXCEPT !.pc = "snapshot"]
                                             ELSE NewHandler]
    BY <1>2 DEF SetPolicy, StopsOrDone
  <2>2. handler[h].current <=> policy = "meeting"
    BY <1>k, <2>1
  <2>3. policy \in Policies /\ policy' \in Policies
    BY <1>0, <2>1, HandlerShape DEF TypeOK
  <2>4. CASE stops
    <3>1. handler'[h].pc = "snapshot" /\ policy' = "dialogue"
      BY <1>0, <2>1, <2>4 DEF AnyHandler
    <3>. QED
      BY <3>1 DEF Wanted
  <2>5. CASE ~stops
    <3>1. handler'[h].pc = "idle"
      BY <1>0, <2>1, <2>5 DEF NewHandler
    <3>2. policy' = policy \/ policy' = "meeting"
      BY <2>1, <2>2, <2>3, <2>5 DEF Policies
    <3>3. Wanted \/ \A c \in Conns : ~Risk(c)
      BY <1>w, <2>1 DEF WillSee
    <3>4. Wanted' \/ \A c \in Conns : ~Risk(c)'
      BY <2>1, <3>2, <3>3 DEF Wanted, Risk
    <3>. QED
      BY <3>1, <3>4 DEF Stopping
  <2>. QED
    BY <2>4, <2>5
<1>3. CASE Snapshot(h)
  <2>1. /\ handler[h].pc = "snapshot" /\ UNCHANGED <<enabled, policy, conn>>
        /\ handler'[h].pc = "visit"
        /\ handler'[h].todo = {c \in Conns : conn[c].pc # "gone"}
    BY <1>0, <1>3 DEF Snapshot, AnyHandler
  <2>2. ~Wanted'
    BY <1>k, <2>1, SameRisk DEF Stopping
  <2>3. \A c \in Conns : Risk(c)' => WillSee(h, c)'
    BY <2>1, SameRisk DEF Risk, WillSee, Shaped
  <2>. QED
    BY <2>1, <2>2, <2>3 DEF Stopping
<1>4. CASE ReleaseVisited(h)
  <2>0. PICK c \in Conns : c = handler[h].at
    BY <1>4, ReleaseFacts
  <2>1. /\ ~Locked(c) /\ handler[h].pc = "release"
        /\ handler'[h].pc \in {"visit", "end"} /\ handler'[h].todo = handler[h].todo
        /\ UNCHANGED <<enabled, policy>>
    BY <1>4, <2>0, ReleaseFacts DEF ReleaseVisited
  <2>2. ~Wanted /\ ~Wanted'
    BY <1>k, <2>1 DEF Stopping, Wanted
  <2>3. \/ conn' = [conn EXCEPT ![c] = Released(c)]
        \/ ~conn[c].active /\ conn' = conn
    BY <1>4, <2>0, ReleaseFacts
  <2>4. conn \in [Conns -> Conn] /\ conn[c] \in Conn
    BY DEF TypeOK
  <2>5. Released(c).pc = conn[c].pc /\ Released(c).active = FALSE
    BY <2>4 DEF Released, Conn
  <2>6. ~Risk(c)' /\ \A d \in Conns : d # c /\ Risk(d)' => Risk(d)
    BY <2>1, <2>3, <2>4, <2>5 DEF Risk, Locked
  <2>7. \A d \in Conns : d # c /\ WillSee(h, d) => WillSee(h, d)'
    BY <2>0, <2>1 DEF WillSee
  <2>. QED
    BY <1>w, <2>1, <2>2, <2>6, <2>7
<1>5. CASE EndVisited(h)
  <2>1. /\ handler[h].pc = "end" /\ UNCHANGED <<enabled, policy, conn>>
        /\ handler'[h].pc = "visit" /\ handler'[h].todo = handler[h].todo
    BY <1>0, <1>5 DEF EndVisited, AnyHandler
  <2>. QED
    BY <1>k, <1>w, <2>1, SameRisk DEF Stopping, WillSee
<1>6. CASE ListOpen(h)
  <2>1. /\ handler[h].pc = "visit" /\ handler[h].todo = {}
        /\ handler'[h].pc = "sweep" /\ UNCHANGED <<enabled, policy, conn>>
    BY <1>0, <1>6 DEF ListOpen, AnyHandler
  <2>. QED
    BY <1>k, <1>w, <2>1, SameRisk DEF Stopping, WillSee
<1>7. CASE Sweep(h)
  <2>1. /\ handler[h].pc = "sweep" /\ UNCHANGED <<enabled, policy, conn>>
        /\ handler'[h].pc \in {"sweep", "idle"}
    BY <1>7, SweepFacts
  <2>. QED
    BY <1>k, <1>w, <2>1, SameRisk DEF Stopping, WillSee
<1>8. CASE \E c \in Conns : Visit(h, c)
  <2>1. PICK c \in Conns : Visit(h, c)
    BY <1>8
  <2>2. /\ handler[h].pc = "visit" /\ ~Locked(c) /\ UNCHANGED <<enabled, policy, conn>>
    BY <2>1 DEF Visit, MayLook
  <2>3. \A d \in Conns : Risk(d) /\ WillSee(h, d) => WillSee(h, d)'
    BY <2>1, <2>2, VisitFacts DEF Risk, WillSee, Locked
  <2>4. handler'[h].pc \in {"visit", "release"}
    BY <2>1, VisitFacts
  <2>. QED
    BY <1>k, <1>w, <2>2, <2>3, <2>4, SameRisk DEF Stopping
<1>9. CASE (\E p \in Patches : LoadConfig(h, p)) \/ (\E p \in Policies : ReadPolicy(h, p))
  <2>1. /\ handler[h].pc = "idle" /\ handler'[h].pc \in {"save", "set"}
        /\ handler'[h].pc = "save" => handler'[h].current = enabled
        /\ handler'[h].pc = "set" => (handler'[h].current <=> policy = "meeting")
        /\ UNCHANGED <<enabled, policy, conn>>
    BY <1>9, BeginFacts
  <2>. QED
    BY <1>w, <2>1, SameRisk DEF Stopping, WillSee
<1> QED
  BY <1>1, <1>2, <1>3, <1>4, <1>5, <1>6, <1>7, <1>8, <1>9 DEF RequestStep, HandlerStep

\* What the sessions' rows say of the sessions in hand, for each kind of step: a
\* websocket takes the next row, gives up the one it holds, or ends one ...
LEMMA HeldClient ==
  ASSUME TypeOK, Shaped, HeldInv, NEW c \in Conns, ClientStep(c)
  PROVE  HeldInv'
<1> USE DEF HeldInv, HeldIsOpen, EndingIsKnown, HeldAlone
<1>0. /\ conn[c] \in Conn /\ conn \in [Conns -> Conn]
      /\ \A d \in Conns : conn[d] \in Conn
      /\ session \in [Sessions -> {"none", "open", "ended"}]
  BY DEF TypeOK
<1>s. \A d \in Conns : /\ conn[d].session # 0 => conn[d].session \in Sessions
                       /\ conn[d].ending # 0 => conn[d].ending \in Sessions
  BY <1>0 DEF Conn, Sessions
<1>h. \A h \in Handlers : handler[h].ending \subseteq Sessions
  BY DEF TypeOK, Handler, AnyHandler
<1>1. CASE CheckPolicy(c) \/ Start(c) \/ Disconnect(c) \/ Activate(c)
  <2>1. UNCHANGED <<session, handler>>
    BY <1>1 DEF CheckPolicy, Start, Disconnect, Activate
  <2>2. \A d \in Conns : conn'[d].session = conn[d].session /\ conn'[d].ending = conn[d].ending
    <3>1. CASE Start(c)
      <4>1. conn' = conn \/ conn' = [conn EXCEPT ![c] = [@ EXCEPT !.pc = "config"]]
        BY <3>1 DEF Start
      <4>. QED
        BY <1>0, <4>1 DEF Conn
    <3>2. CASE CheckPolicy(c)
      BY <1>0, <3>2 DEF CheckPolicy, Conn
    <3>3. CASE Disconnect(c)
      BY <1>0, <3>3 DEF Disconnect, Leaving, Conn
    <3>4. CASE Activate(c)
      BY <1>0, <3>4 DEF Activate, Conn
    <3>. QED
      BY <1>1, <3>1, <3>2, <3>3, <3>4
  <2>. QED
    BY <2>1, <2>2
<1>2. CASE CreateSession(c)
  <2>1. PICK s \in Sessions :
          /\ session[s] = "none"
          /\ session' = [session EXCEPT ![s] = "open"]
          /\ conn' = [conn EXCEPT ![c] = [@ EXCEPT !.pc = "activate", !.session = s]]
    BY <1>2 DEF CreateSession, Fresh
  <2>2. conn'[c].session = s /\ conn'[c].ending = conn[c].ending /\ handler' = handler
    BY <1>0, <1>2, <2>1 DEF Conn, CreateSession
  <2>3. \A d \in Conns : d # c => conn'[d] = conn[d]
    BY <1>0, <2>1
  <2>4. HeldIsOpen'
    BY <1>0, <1>s, <2>1, <2>2, <2>3
  <2>5. EndingIsKnown'
    BY <1>0, <1>s, <1>h, <2>1, <2>2, <2>3
  <2>6. HeldAlone'
    BY <1>0, <1>s, <1>h, <2>1, <2>2, <2>3 DEF Sessions
  <2>. QED
    BY <2>4, <2>5, <2>6
<1>3. CASE EndSession(c)
  <2> DEFINE s == conn[c].ending
  <2>1. /\ s # 0 /\ session' = [session EXCEPT ![s] = "ended"] /\ handler' = handler
    BY <1>3 DEF EndSession
  <2>2. /\ conn'[c].session = conn[c].session /\ conn'[c].ending = 0
        /\ \A d \in Conns : d # c => conn'[d] = conn[d]
    BY <1>0, <1>3 DEF EndSession, Conn
  <2>3. HeldIsOpen'
    BY <1>0, <1>s, <2>1, <2>2
  <2>4. EndingIsKnown'
    BY <1>0, <1>s, <1>h, <2>1, <2>2
  <2>5. HeldAlone'
    BY <1>s, <2>1, <2>2
  <2>. QED
    BY <2>3, <2>4, <2>5
<1>4. CASE Stop(c) \/ ReleaseOnLeave(c)
  <2>1. /\ UNCHANGED <<session, handler>>
        /\ \A d \in Conns : d # c => conn'[d] = conn[d]
    BY <1>0, <1>4 DEF Stop, ReleaseOnLeave
  <2>2. \/ /\ conn[c].active /\ conn'[c].session = 0
           /\ conn'[c].ending = conn[c].session
        \/ conn'[c].session = conn[c].session /\ conn'[c].ending = conn[c].ending
    <3>1. CASE Stop(c)
      BY <1>0, <3>1 DEF Stop, Released, Conn
    <3>2. CASE ReleaseOnLeave(c) /\ conn[c].active
      BY <1>0, <3>2 DEF ReleaseOnLeave, Released, Conn
    <3>3. CASE ReleaseOnLeave(c) /\ ~conn[c].active
      BY <1>0, <3>3 DEF ReleaseOnLeave, Conn
    <3>. QED
      BY <1>4, <3>1, <3>2, <3>3
  <2>. QED
    BY <1>s, <2>1, <2>2 DEF Shaped
<1> QED
  BY <1>1, <1>2, <1>3, <1>4 DEF ClientStep, ConnStep

\* ... and a request takes what websockets gave up, or what is open when nobody holds any.
LEMMA HeldRequest ==
  ASSUME OneRequest, TypeOK, Owned, ModeInv, HeldInv, NEW h \in Handlers, RequestStep(h)
  PROVE  HeldInv'
<1> USE DEF HeldInv, HeldIsOpen, EndingIsKnown, HeldAlone
<1>0. /\ handler[h] \in AnyHandler /\ handler \in [Handlers -> Handler]
      /\ session \in [Sessions -> {"none", "open", "ended"}]
      /\ \A d \in Conns : conn[d] \in Conn
      /\ \A g \in Handlers : g = h
  BY DEF TypeOK, Handler, OneRequest
<1>s. \A d \in Conns : /\ conn[d].session # 0 => conn[d].session \in Sessions
                       /\ conn[d].ending # 0 => conn[d].ending \in Sessions
  BY <1>0 DEF Conn, Sessions
<1>h. handler[h].ending \subseteq Sessions
  BY <1>0 DEF AnyHandler
<1>e. handler[h].pc \notin {"end", "sweep"} => handler[h].ending = {}
  BY DEF Owned, EndsWhereItEnds
<1>1. CASE /\ UNCHANGED <<conn, session>> 
           /\ handler'[h].ending \subseteq handler[h].ending
  BY <1>0, <1>1
<1>2. CASE SaveConfig(h) \/ SetPolicy(h) \/ Snapshot(h)
  <2>1. UNCHANGED <<conn, session>>
    BY <1>2 DEF SaveConfig, SetPolicy, Snapshot
  <2>2. handler'[h].ending = {} \/ handler'[h].ending = handler[h].ending
    <3>1. CASE SaveConfig(h)
      BY <1>0, <3>1 DEF SaveConfig, StopsOrDone, NewHandler, AnyHandler
    <3>2. CASE SetPolicy(h)
      BY <1>0, <3>2 DEF SetPolicy, StopsOrDone, NewHandler, AnyHandler
    <3>3. CASE Snapshot(h)
      BY <1>0, <3>3 DEF Snapshot, AnyHandler
    <3>. QED
      BY <1>2, <3>1, <3>2, <3>3
  <2>. QED
    BY <1>1, <2>1, <2>2
<1>3. CASE ReleaseVisited(h)
  <2>0. PICK c \in Conns : c = handler[h].at
    BY <1>3, ReleaseFacts DEF Owned
  <2>1. session' = session /\ handler[h].ending = {}
    BY <1>3, <1>e, ReleaseFacts DEF ReleaseVisited
  <2>2. CASE conn' = conn /\ handler'[h].ending = handler[h].ending
    BY <1>1, <2>1, <2>2
  <2>3. CASE /\ conn[c].active /\ conn' = [conn EXCEPT ![c] = Released(c)]
             /\ handler'[h].ending = {conn[c].session}
    <3>1. /\ conn'[c].session = 0 /\ conn'[c].ending = conn[c].ending
          /\ \A d \in Conns : d # c => conn'[d] = conn[d]
      BY <1>0, <2>3 DEF Released, Conn, TypeOK
    <3>2. conn[c].session # 0
      BY <2>3 DEF Owned, Shaped
    <3>. QED
      BY <1>0, <1>s, <2>1, <2>3, <3>1, <3>2
  <2>. QED
    BY <1>3, <2>0, <2>2, <2>3, ReleaseFacts DEF Owned
<1>4. CASE EndVisited(h)
  <2>1. /\ conn' = conn /\ handler'[h].ending = {}
        /\ session' = [s \in Sessions |-> IF s \in handler[h].ending THEN "ended" ELSE session[s]]
    BY <1>0, <1>4 DEF EndVisited, AnyHandler
  <2>. QED
    BY <1>0, <1>s, <2>1
<1>5. CASE ListOpen(h)
  <2>1. /\ handler[h].pc = "visit" /\ handler[h].todo = {}
        /\ handler'[h].ending = {s \in Sessions : session[s] = "open"}
        /\ UNCHANGED <<conn, session>>
    BY <1>0, <1>5 DEF ListOpen, AnyHandler
  <2>2. ~Wanted /\ handler[h].pc # "snapshot" /\ \A c \in Conns : ~WillSee(h, c)
    BY <2>1 DEF ModeInv, KnowsMode, Stopping, WillSee
  <2>3. \A c \in Conns : ~Risk(c)
    BY <1>0, <2>2 DEF ModeInv, ComesToAll
  <2>4. \A c \in Conns : conn[c].session = 0
    BY <2>3 DEF Risk, Owned, Shaped
  <2>. QED
    BY <1>0, <2>1, <2>4
<1>6. CASE Sweep(h)
  <2>1. conn' = conn
    BY <1>6, SweepFacts
  <2>2. CASE handler[h].ending = {} /\ session' = session /\ handler'[h].ending = {}
    BY <1>1, <2>1, <2>2
  <2>3. CASE \E s \in handler[h].ending : /\ session' = [session EXCEPT ![s] = "ended"]
                                          /\ handler'[h].ending = handler[h].ending \ {s}
    BY <1>0, <1>s, <1>h, <2>1, <2>3
  <2>. QED
    BY <1>6, <2>2, <2>3, SweepFacts
<1>7. CASE \E c \in Conns : Visit(h, c)
  <2>1. UNCHANGED <<conn, session>>
    BY <1>7 DEF Visit
  <2>. QED
    BY <1>1, <1>7, <2>1, VisitFacts
<1>8. CASE (\E p \in Patches : LoadConfig(h, p)) \/ (\E p \in Policies : ReadPolicy(h, p))
  BY <1>1, <1>8, BeginFacts
<1> QED
  BY <1>2, <1>3, <1>4, <1>5, <1>6, <1>7, <1>8 DEF RequestStep, HandlerStep

CaptureInv == TypeOK /\ Owned /\ ModeInv /\ HeldInv

\* The initial state satisfies the whole invariant.
LEMMA CaptureInit == Init => CaptureInv
<1> SUFFICES ASSUME Init PROVE CaptureInv
  OBVIOUS
<1>1. ModeInv
  BY DEF Init, ModeInv, KnowsMode, ComesToAll, Stopping, Risk, NewConn, NewHandler
<1>2. HeldInv
  BY DEF Init, HeldInv, HeldIsOpen, EndingIsKnown, HeldAlone, NewConn, NewHandler
<1> QED
  BY <1>1, <1>2, TypeInit, OwnedInit DEF CaptureInv

\* With one request at a time, every step keeps the whole invariant.
LEMMA CaptureStep == OneRequest /\ CaptureInv /\ [Next]_vars => CaptureInv'
<1> SUFFICES ASSUME OneRequest, CaptureInv, [Next]_vars PROVE CaptureInv'
  OBVIOUS
<1> USE DEF CaptureInv
<1>1. TypeOK' /\ Owned'
  BY TypeStep
<1>2. CASE \E c \in Conns : ClientStep(c)
  BY <1>1, <1>2, ModeClient, HeldClient DEF Owned
<1>3. CASE \E h \in Handlers : RequestStep(h)
  BY <1>1, <1>3, ModeRequest, HeldRequest DEF Owned
<1>4. CASE UNCHANGED vars
  <2>1. ModeInv'
    BY <1>4 DEF vars, ModeInv, KnowsMode, ComesToAll, Stopping, Wanted, Risk, WillSee
  <2>2. HeldInv'
    BY <1>4 DEF vars, HeldInv, HeldIsOpen, EndingIsKnown, HeldAlone
  <2>. QED
    BY <1>1, <2>1, <2>2
<1> QED
  BY <1>2, <1>3, <1>4, StepCases

\* While requests that change the mode come one after the other, nobody captures once it is
\* off and the request has returned.  (stopParticipantCaptureSessions)
THEOREM OffStopsAll == ASSUME OneRequest PROVE Spec => []OffMeansOff
<1>1. CaptureInv => OffMeansOff
  <2> SUFFICES ASSUME CaptureInv, \A h \in Handlers : Idle(h), ~Wanted, NEW c \in Conns
               PROVE  ~conn[c].active
    BY DEF OffMeansOff
  <2>1. ~Risk(c)
    BY DEF CaptureInv, ModeInv, ComesToAll, Idle, WillSee
  <2>. QED
    BY <2>1 DEF Risk
<1>2. CaptureInv /\ [Next]_vars => CaptureInv'
  BY CaptureStep
<1> QED
  BY <1>1, <1>2, CaptureInit, PTL DEF Spec

\* Then a client that captures has an open session too: nobody ends it behind its back.
\* (releaseParticipantSession, stopParticipantCaptureSessions)
THEOREM CapturesAreOpen == ASSUME OneRequest PROVE Spec => []CaptureIsOpen
<1>1. CaptureInv => CaptureIsOpen
  BY DEF CaptureInv, HeldInv, HeldIsOpen, CaptureIsOpen, Owned, Shaped
<1>2. CaptureInv /\ [Next]_vars => CaptureInv'
  BY CaptureStep
<1> QED
  BY <1>1, <1>2, CaptureInit, PTL DEF Spec

-----------------------------------------------------------------------------
(* The capture beside the watch.                                           *)

\* Of a behaviour of the two, what is the meeting's is a behaviour of the capture.
LEMMA CapturePart == MCSpec => Spec
<1>1. MCInit => Init
  BY DEF MCInit
<1>2. [MCNext]_<<part, vars, watchVars>> => [Next]_vars
  BY DEF MCNext
<1>. QED
  BY <1>1, <1>2, PTL DEF MCSpec, Spec

\* What is the workspace's is a behaviour of the watch.
LEMMA WatchPart == MCSpec => Watch!Spec
<1>1. MCInit => Watch!Init
  BY DEF MCInit
<1>2. [MCNext]_<<part, vars, watchVars>> => [Watch!Next]_Watch!vars
  BY DEF MCNext, watchVars, Watch!vars
<1>. QED
  BY <1>1, <1>2, PTL DEF MCSpec, Watch!Spec

\* The two keep their types beside each other, and a watch has its handle in the
\* tracker just while it has a goroutine.  (workspaceWatchTracker)
THEOREM AllTyped == MCSpec => []TypesOK
<1>1. Watch!Spec => []Watch!TypeOK
  BY BatchAssumption, Watch!TypeCorrect DEF Watch!CountsBatches
<1>. QED
  BY <1>1, CapturePart, WatchPart, Typed, PTL DEF TypesOK

\* An item that a batch has recorded as completed is not begun again.
\* (processWorkspaceWatchIteration)
THEOREM DoneIsDone == MCSpec => CompletedOnce
<1>1. Watch!Spec => Watch!CompletedOnce
  BY BatchAssumption, Watch!NothingTwice DEF Watch!CountsBatches
<1>2. Watch!Spec => CompletedOnce
  BY <1>1 DEF CompletedOnce
<1>. QED
  BY <1>2, WatchPart


=============================================================================
