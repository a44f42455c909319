----------------------------- MODULE MeetingCapture -----------------------------
(***************************************************************************)
(* Capture of a meeting: a client that starts and stops it on its chat     *)
(* websocket and may go away (src/internal/web/chat_participant.go,        *)
(* chat.go), and the requests that switch meeting mode on and off          *)
(* (live_policy.go, projects_companion.go).  What is heard in between is   *)
(* the subject of Companion.                                               *)
(*                                                                         *)
(* Capture needs both the companion of the workspace to be enabled and the *)
(* live policy to be "meeting".  Who switches one of them off has to stop  *)
(* what is being captured, while clients start and stop on their own.      *)
(*                                                                         *)
(* There is one workspace, so every session matches the one whose          *)
(* companion is disabled.  Database errors are left out.                   *)
(***************************************************************************)
EXTENDS Naturals, FiniteSets

CONSTANTS Conns,       \* chat websockets
          Handlers,    \* HTTP requests under way at a time
          MaxSessions, \* bound: participant sessions
          MaxChanges   \* bound: requests that change the mode

ASSUME MeetingBound == {MaxSessions, MaxChanges} \subseteq Nat

VARIABLES enabled,  \* CompanionEnabled of the workspace, in the store
          policy,   \* App.livePolicy
          conn,     \* conn[c]: the websocket and its reading goroutine
          session,  \* session[s]: the rows of participant_sessions
          handler,  \* handler[h]: the locals of a request
          changes   \* counts to MaxChanges

vars == <<enabled, policy, conn, session, handler, changes>>

Sessions == 1..MaxSessions
Policies == {"meeting", "dialogue"}
Patches == {"on", "off", "other"}   \* companion_enabled in a patch, or not in it

Conn == [pc : {"read", "config", "create", "activate", "end", "left", "bye", "gone"},
         active : BOOLEAN, session : 0..MaxSessions, ending : 0..MaxSessions]
NewConn == [pc |-> "read", active |-> FALSE, session |-> 0, ending |-> 0]
AnyHandler == [pc : {"idle", "save", "set", "snapshot", "visit", "release", "end",
                     "sweep"},
               patch : Patches \cup {""}, policy : Policies \cup {""}, current : BOOLEAN,
               todo : SUBSET Conns, at : Conns \cup {0}, ending : SUBSET Sessions]
Handler == {r \in AnyHandler : /\ r.pc = "set" => r.policy \in Policies
                               /\ r.pc = "release" => r.at \in Conns}
NewHandler == [pc |-> "idle", patch |-> "", policy |-> "", current |-> FALSE,
               todo |-> {}, at |-> 0, ending |-> {}]

Reads(c) == conn[c].pc = "read"
\* handleParticipantStart holds participantMu from its first line to its last.
Locked(c) == conn[c].pc \in {"config", "create", "activate"}
Wanted == enabled /\ policy = "meeting"

Init ==
  /\ enabled \in BOOLEAN /\ policy \in Policies
  /\ conn = [c \in Conns |-> NewConn]
  /\ session = [s \in Sessions |-> "none"]
  /\ handler = [h \in Handlers |-> NewHandler]
  /\ changes = 0

-----------------------------------------------------------------------------
(* The reading goroutine of a websocket.                                   *)

\* The bound on sessions.
RowsLeft == Cardinality({s \in Sessions : session[s] = "none"})
              > Cardinality({c \in Conns : Locked(c)})

\* handleParticipantStart locks, then reads the configuration ...
Start(c) ==
  /\ Reads(c) /\ ~conn[c].active /\ RowsLeft
  /\ IF enabled THEN conn' = [conn EXCEPT ![c].pc = "config"] ELSE conn' = conn
  /\ UNCHANGED <<enabled, policy, session, handler, changes>>

\* ... and the policy, and refuses if capture is not wanted.
CheckPolicy(c) ==
  /\ conn[c].pc = "config"
  /\ conn' = [conn EXCEPT ![c].pc = IF policy = "meeting" THEN "create" ELSE "read"]
  /\ UNCHANGED <<enabled, policy, session, handler, changes>>

Fresh(s) == session[s] = "none" /\ \A u \in Sessions : u < s => session[u] # "none"
CreateSession(c) ==
  /\ conn[c].pc = "create"
  /\ \E s \in Sessions :
       /\ Fresh(s)
       /\ session' = [session EXCEPT ![s] = "open"]
       /\ conn' = [conn EXCEPT ![c].pc = "activate", ![c].session = s]
  /\ UNCHANGED <<enabled, policy, handler, changes>>

Activate(c) ==
  /\ conn[c].pc = "activate"
  /\ conn' = [conn EXCEPT ![c].pc = "read", ![c].active = TRUE]
  /\ UNCHANGED <<enabled, policy, session, handler, changes>>

\* releaseParticipantSession: the flag and the session number under the lock.
Forgotten(c) == conn[c]
Released(c) == [conn[c] EXCEPT !.active = FALSE, !.session = 0]

\* participant_stop: release, then the end of the row in the store.
Stop(c) ==
  /\ Reads(c) /\ conn[c].active
  /\ conn' = [conn EXCEPT ![c] = [Released(c) EXCEPT !.pc = "end",
                                                     !.ending = conn[c].session]]
  /\ UNCHANGED <<enabled, policy, session, handler, changes>>

EndSession(c) ==
  /\ conn[c].pc \in {"end", "bye"} /\ conn[c].ending # 0
  /\ session' = [session EXCEPT ![conn[c].ending] = "ended"]
  /\ conn' = [conn EXCEPT ![c].ending = 0,
                          ![c].pc = IF @ = "end" THEN "read" ELSE "gone"]
  /\ UNCHANGED <<enabled, policy, handler, changes>>

\* The client is gone: what it captured is released, then it is unregistered.
LeaveAtOnce(c) == [conn[c] EXCEPT !.pc = "gone"]
Leaving(c) == [conn[c] EXCEPT !.pc = "left"]
Disconnect(c) ==
  /\ Reads(c)
  /\ conn' = [conn EXCEPT ![c] = Leaving(c)]
  /\ UNCHANGED <<enabled, policy, session, handler, changes>>

ReleaseOnLeave(c) ==
  /\ conn[c].pc = "left"
  /\ conn' = [conn EXCEPT ![c] =
                IF conn[c].active
                THEN [Released(c) EXCEPT !.pc = "bye", !.ending = conn[c].session]
                ELSE [conn[c] EXCEPT !.pc = "gone"]]
  /\ UNCHANGED <<enabled, policy, session, handler, changes>>

-----------------------------------------------------------------------------
(* The requests.                                                           *)

Idle(h) == handler[h].pc = "idle"
Begin(h, r) ==
  /\ Idle(h) /\ changes < MaxChanges
  /\ changes' = changes + 1
  /\ handler' = [handler EXCEPT ![h] = r]

\* A PUT of the companion's configuration loads it, applies the patch to what
\* it loaded and saves the whole.
LoadConfig(h, p) ==
  /\ Begin(h, [NewHandler EXCEPT !.pc = "save", !.patch = p, !.current = enabled])
  /\ UNCHANGED <<enabled, policy, conn, session>>

Patched(h) == CASE handler[h].patch = "on" -> TRUE
                [] handler[h].patch = "off" -> FALSE
                [] OTHER -> handler[h].current
NeverStops(h, stops) == handler' = [handler EXCEPT ![h] = NewHandler]
StopsOrDone(h, stops) ==
  handler' = [handler EXCEPT ![h] = IF stops THEN [@ EXCEPT !.pc = "snapshot"]
                                    ELSE NewHandler]
SaveConfig(h) ==
  /\ handler[h].pc = "save"
  /\ enabled' = Patched(h)
  /\ StopsOrDone(h, handler[h].current /\ ~Patched(h))
  /\ UNCHANGED <<policy, conn, session, changes>>

\* A POST of the live policy reads it, and sets it if it differs by then.
ReadPolicy(h, p) ==
  /\ Begin(h, [NewHandler EXCEPT !.pc = "set", !.policy = p,
                                 !.current = (policy = "meeting")])
  /\ UNCHANGED <<enabled, policy, conn, session>>

SetPolicy(h) ==
  /\ handler[h].pc = "set"
  /\ policy' = handler[h].policy
  /\ StopsOrDone(h, /\ policy # handler[h].policy
                    /\ handler[h].current /\ handler[h].policy = "dialogue")
  /\ UNCHANGED <<enabled, conn, session, changes>>

\* stopParticipantCaptureSessions.  forEachChatConn copies the registered
\* websockets and visits them in any order.
Snapshot(h) ==
  /\ handler[h].pc = "snapshot"
  /\ handler' = [handler EXCEPT ![h].pc = "visit",
                                ![h].todo = {c \in Conns : conn[c].pc # "gone"}]
  /\ UNCHANGED <<enabled, policy, conn, session, changes>>

\* Looks under the lock whether it captures, for which a start is waited for.
LookAtOnce(c) == TRUE
MayLook(c) == ~Locked(c)
Visit(h, c) ==
  /\ handler[h].pc = "visit" /\ c \in handler[h].todo /\ MayLook(c)
  /\ handler' = [handler EXCEPT ![h].todo = @ \ {c},
                                ![h].pc = IF conn[c].active THEN "release" ELSE "visit",
                                ![h].at = IF conn[c].active THEN c ELSE @]
  /\ UNCHANGED <<enabled, policy, conn, session, changes>>

\* Between the look and the release the client may have stopped by itself.
AsSeen(c) == TRUE
StillCaptures(c) == conn[c].active
ReleaseVisited(h) ==
  LET c == handler[h].at IN
  /\ handler[h].pc = "release" /\ ~Locked(c)
  /\ IF StillCaptures(c)
     THEN /\ conn' = [conn EXCEPT ![c] = Released(c)]
          /\ handler' = [handler EXCEPT ![h].pc = "end", ![h].ending = {conn[c].session},
                                        ![h].at = 0]
     ELSE conn' = conn /\ handler' = [handler EXCEPT ![h].pc = "visit", ![h].at = 0]
  /\ UNCHANGED <<enabled, policy, session, changes>>

EndVisited(h) ==
  /\ handler[h].pc = "end"
  /\ session' = [s \in Sessions |-> IF s \in handler[h].ending THEN "ended" ELSE session[s]]
  /\ handler' = [handler EXCEPT ![h].pc = "visit", ![h].ending = {}]
  /\ UNCHANGED <<enabled, policy, conn, changes>>

\* The sessions that are still open in the store, whoever left them.
ListOpen(h) ==
  /\ handler[h].pc = "visit" /\ handler[h].todo = {}
  /\ handler' = [handler EXCEPT ![h].pc = "sweep",
                                ![h].ending = {s \in Sessions : session[s] = "open"}]
  /\ UNCHANGED <<enabled, policy, conn, session, changes>>

Sweep(h) ==
  /\ handler[h].pc = "sweep"
  /\ IF handler[h].ending = {}
     THEN session' = session /\ handler' = [handler EXCEPT ![h] = NewHandler]
     ELSE \E s \in handler[h].ending :
            /\ session' = [session EXCEPT ![s] = "ended"]
            /\ handler' = [handler EXCEPT ![h].ending = @ \ {s}]
  /\ UNCHANGED <<enabled, policy, conn, changes>>

-----------------------------------------------------------------------------

\* What a goroutine does without waiting for its client.
ConnStep(c) ==
  \/ CheckPolicy(c) \/ CreateSession(c) \/ Activate(c) \/ EndSession(c)
  \/ ReleaseOnLeave(c)
HandlerStep(h) ==
  \/ SaveConfig(h) \/ SetPolicy(h) \/ Snapshot(h) \/ ReleaseVisited(h)
  \/ EndVisited(h) \/ ListOpen(h) \/ Sweep(h) \/ \E c \in Conns : Visit(h, c)

Next ==
  \/ \E c \in Conns : ConnStep(c) \/ Start(c) \/ Stop(c) \/ Disconnect(c)
  \/ \E h \in Handlers : \/ HandlerStep(h)
                         \/ \E p \in Patches : LoadConfig(h, p)
                         \/ \E p \in Policies : ReadPolicy(h, p)

Spec == Init /\ [][Next]_vars

\* Goroutines that can go on do; clients and requests come or do not.  A waiter
\* gets a sync.Mutex in the end, however often others take it.
Fairness ==
  /\ \A c \in Conns : WF_vars(ConnStep(c))
  /\ \A h \in Handlers : SF_vars(HandlerStep(h))
FairSpec == Spec /\ Fairness

-----------------------------------------------------------------------------

\* The types of the variables.
TypeOK ==
  /\ enabled \in BOOLEAN /\ policy \in Policies
  /\ conn \in [Conns -> Conn]
  /\ session \in [Sessions -> {"none", "open", "ended"}]
  /\ handler \in [Handlers -> Handler]
  /\ changes \in 0..MaxChanges

\* "Disabling Meeting live mode is an exit action: any active participant
\* capture session must stop immediately" (docs/meeting-notes-privacy.md:20):
\* once the request that switched it off has returned nobody captures, also not
\* a client whose start was under way.
OffMeansOff ==
  (\A h \in Handlers : Idle(h)) /\ ~Wanted => \A c \in Conns : ~conn[c].active

\* A client that captures has an open session: what is heard is not thrown away
\* behind its back.  (stopParticipantCaptureSessions, releaseParticipantSession)
CaptureIsOpen ==
  \A c \in Conns : conn[c].active => session[conn[c].session] = "open"

\* A session that is open in the store has a client, or somebody is about to
\* end it: none stays open for ever behind a client that has left.
\* (handleChatWS, releaseParticipantSession)
OpenHasOwner ==
  \A s \in Sessions : session[s] = "open" =>
    \/ \E c \in Conns : conn[c].pc # "gone" /\ s \in {conn[c].session, conn[c].ending}
    \/ \E h \in Handlers : s \in handler[h].ending

\* When meeting mode is off every session ends, though a request that switches
\* it off waits for clients that start and stop.  (participantMu)
OffEndsSessions == ~Wanted ~> (Wanted \/ \A s \in Sessions : session[s] # "open")

=============================================================================
