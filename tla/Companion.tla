------------------------------- MODULE Companion -------------------------------
(***************************************************************************)
(* How the companion of a meeting answers: every piece of speech is        *)
(* transcribed and judged in a goroutine of its own                        *)
(* (src/internal/web/chat_participant.go, companion_gate.go,               *)
(* companion_policy.go, live_edit.go), an answer is a turn of the chat     *)
(* session, and what has been triggered and has ended is kept twice: in    *)
(* the events of the meeting, from which the policy is computed, and in    *)
(* companionTurns, one pending turn per chat session.  A turn tells that   *)
(* it has ended through the second, and not every turn does.               *)
(*                                                                         *)
(* There is one chat session.  Its queue and its worker are those of       *)
(* TurnQueue, reduced to what the companion sees of them.  Live policy     *)
(* "meeting" and the gate are on.  Transcribed segments carry no speaker,  *)
(* so the follow-up of a speaker cannot be recognised and is left out.     *)
(***************************************************************************)
EXTENDS Naturals, Sequences, FiniteSets

CONSTANTS Rooms,       \* participant sessions of the workspace
          MaxSegments, \* bound: segments heard
          MaxUserTurns \* bound: turns the user sends himself

VARIABLES seg,       \* seg[k]: a committed segment and the locals of its goroutine
          pendingIn, \* latestPendingCompanionSegment of a room's events
          recent,    \* rooms whose last answer ended less than eight seconds ago
          tracker,   \* companionTurns of the chat session
          queue,     \* queued turns: the segment a turn answers, 0 for the user's
          active,    \* the turn the worker is at
          sent       \* counts to MaxUserTurns

vars == <<seg, pendingIn, recent, tracker, queue, active, sent>>
chat == <<queue, active>>
events == <<pendingIn, recent>>

Segments == 1..MaxSegments
None == [room |-> 0, segment |-> 0]
Idle == [turn |-> 0, phase |-> "idle", canceling |-> FALSE, ends |-> None]

\* What is said: to the companion, after a wake word that is not its name or with
\* nothing but noise after it, an edit of the document, or anything else.
Kinds == {"address", "wake", "edit", "talk"}

Segment == [pc : {"none", "segments", "events", "running", "queued", "pending",
                  "cancel", "interrupt", "enqueue", "note", "trigger", "done"},
            kind : Kinds, room : Rooms \cup {0}, latest : BOOLEAN, cooling : BOOLEAN,
            target : 0..MaxSegments, interrupts : BOOLEAN, busy : BOOLEAN,
            calm : BOOLEAN, result : {"", "suppressed", "cooldown", "busy", "triggered"}]
NewSegment ==
  [pc |-> "none", kind |-> "talk", room |-> 0, latest |-> FALSE, cooling |-> FALSE,
   target |-> 0, interrupts |-> FALSE, busy |-> FALSE, calm |-> FALSE, result |-> ""]

Init ==
  /\ seg = [k \in Segments |-> NewSegment]
  /\ pendingIn = [r \in Rooms |-> 0] /\ recent = {}
  /\ tracker = None
  /\ queue = <<>> /\ active = Idle /\ sent = 0

At(k, p) == seg[k].pc = p
\* The goroutine is over: of its locals an observer keeps what became of a segment
\* that was heard while nothing went on.
Result(k, what) ==
  [seg EXCEPT ![k] = [NewSegment EXCEPT !.pc = "done", !.room = seg[k].room,
                        !.calm = seg[k].calm, !.result = IF seg[k].calm THEN what ELSE ""]]
\* The goroutine goes on and uses none of the locals it has set again.
GoneOnTo(k, p) ==
  [NewSegment EXCEPT !.pc = p, !.room = seg[k].room, !.calm = seg[k].calm]
GoOnTo(k, p) == [seg EXCEPT ![k] = GoneOnTo(k, p)]
IsLatest(k) == \A j \in Segments : seg[j].room = seg[k].room => j <= k

\* An event in the log of a meeting: the policy counts these four as the end of
\* an answer, "assistant_turn_suppressed" it does not know.
Ending == {"assistant_turn_completed", "assistant_turn_failed",
           "assistant_turn_cancelled", "assistant_interrupted"}
\* A segment is compared with every end that is logged when it is judged, the ends
\* that are later than the segment too.
LogEnd(r, k, event, segs) ==
  IF event \in Ending
  THEN /\ pendingIn' = [pendingIn EXCEPT ![r] = IF @ = k THEN 0 ELSE @]
       /\ recent' = recent \cup {r}
       /\ seg' = [j \in Segments |->
                    IF segs[j].room = r /\ segs[j].pc \in {"segments", "events"}
                    THEN [segs[j] EXCEPT !.cooling = TRUE] ELSE segs[j]]
  ELSE UNCHANGED events /\ seg' = segs

\* Nothing is queued or running, no answer has just ended and no other segment is
\* being judged: an observer's view.
Quiet(r) == /\ queue = <<>> /\ active = Idle /\ r \notin recent
            /\ \A k \in Segments : seg[k].pc \in {"none", "done"}
Disturbed == [k \in Segments |-> IF At(k, "done") THEN seg[k]
                                 ELSE [seg[k] EXCEPT !.calm = FALSE]]

-----------------------------------------------------------------------------
(* The goroutine of a segment.                                             *)

\* AddParticipantSegment; the numbers are those of the rows.
Commit(r, kind) ==
  \E k \in Segments :
    /\ At(k, "none") /\ \A j \in 1..(k - 1) : ~At(j, "none")
    /\ seg' = [Disturbed EXCEPT ![k].pc = "segments", ![k].kind = kind, ![k].room = r,
                                ![k].cooling = (r \in recent),
                                ![k].calm = (kind = "address" /\ Quiet(r))]
    /\ UNCHANGED <<events, tracker, chat, sent>>

\* maybeTriggerCompanionResponse lists the segments ...
ReadSegments(k) ==
  /\ At(k, "segments")
  /\ seg' = [seg EXCEPT ![k].pc = "events", ![k].latest = IsLatest(k)]
  /\ UNCHANGED <<events, tracker, chat, sent>>

\* ... and the events, and judges.  The gate lets an address of the companion or
\* of its wake word pass; the policy knows the address only.
PassesGate(k) == seg[k].latest /\ seg[k].kind \in {"address", "wake"}
Suppressed(k) == seg[k].kind # "address"
Pending(k) == pendingIn[seg[k].room]

Judge(k) ==
  /\ At(k, "events")
  /\ seg' =
       IF ~PassesGate(k)
       THEN IF seg[k].kind = "edit" THEN GoOnTo(k, "enqueue")
            ELSE Result(k, "suppressed")
       ELSE IF Suppressed(k) THEN Result(k, "suppressed")
       ELSE IF Pending(k) # 0
       THEN [seg EXCEPT ![k] = [GoneOnTo(k, "running") EXCEPT !.interrupts = TRUE,
                                                              !.target = Pending(k)]]
       ELSE IF seg[k].cooling THEN Result(k, "cooldown")
       ELSE GoOnTo(k, "running")
  /\ UNCHANGED <<events, tracker, chat, sent>>

\* Whether the chat is busy: the turn that runs, then the queue, each under the
\* lock of its own call ...
ReadRunning(k) ==
  /\ At(k, "running")
  /\ seg' = [seg EXCEPT ![k].pc = "queued",
               ![k].busy = active.phase \in {"running", "log"} /\ ~active.canceling]
  /\ UNCHANGED <<events, tracker, chat, sent>>
ReadQueued(k) ==
  /\ At(k, "queued")
  /\ seg' = [seg EXCEPT ![k].pc = "pending", ![k].busy = @ \/ queue # <<>>]
  /\ UNCHANGED <<events, tracker, chat, sent>>

\* ... and whether it is busy with the answer this one interrupts.
KnownOnly(k) ==
  IF seg[k].interrupts THEN tracker = [room |-> seg[k].room, segment |-> seg[k].target]
  ELSE ~seg[k].busy
MayGoOn(k) ==
  \/ ~seg[k].busy
  \/ /\ seg[k].interrupts
     /\ tracker = [room |-> seg[k].room, segment |-> seg[k].target]
ReadPending(k) ==
  /\ At(k, "pending")
  /\ seg' = IF MayGoOn(k)
            THEN IF seg[k].interrupts
                 THEN [seg EXCEPT ![k].pc = "cancel", ![k].busy = FALSE]
                 ELSE GoOnTo(k, "enqueue")
            ELSE Result(k, "busy")
  /\ UNCHANGED <<events, tracker, chat, sent>>

\* cancelChatWork: the registered run, whosever it is by now, and the queue.
CancelWork(k) ==
  /\ At(k, "cancel")
  /\ active' = [active EXCEPT !.canceling = @ \/ active.phase \in {"running", "log"}]
  /\ queue' = <<>>
  /\ seg' = [seg EXCEPT ![k].pc = "interrupt"]
  /\ UNCHANGED <<events, tracker, sent>>

\* interruptCompanionPendingTurn.
Interrupt(k) ==
  /\ At(k, "interrupt")
  /\ tracker' = None
  /\ LogEnd(seg[k].room, seg[k].target, "assistant_interrupted",
            GoOnTo(k, "enqueue"))
  /\ UNCHANGED <<chat, sent>>

\* The turn is enqueued before it is noted, and noted before it is logged.
Enqueue(k) ==
  /\ At(k, "enqueue")
  /\ queue' = Append(queue, k)
  /\ seg' = [seg EXCEPT ![k].pc = "note"]
  /\ UNCHANGED <<events, tracker, active, sent>>
Note(k) ==
  /\ At(k, "note")
  /\ tracker' = [room |-> seg[k].room, segment |-> k]
  /\ seg' = [seg EXCEPT ![k].pc = "trigger"]
  /\ UNCHANGED <<events, chat, sent>>
LogTriggered(k) ==
  /\ At(k, "trigger")
  /\ pendingIn' = [pendingIn EXCEPT ![seg[k].room] = k]
  /\ seg' = Result(k, "triggered")
  /\ UNCHANGED <<recent, tracker, chat, sent>>

-----------------------------------------------------------------------------
(* The chat session.                                                       *)

UserSends ==
  /\ sent < MaxUserTurns /\ sent' = sent + 1
  /\ queue' = Append(queue, 0)
  /\ seg' = Disturbed
  /\ UNCHANGED <<events, tracker, active>>

BeginTurn ==
  /\ active = Idle /\ queue # <<>>
  /\ active' = [Idle EXCEPT !.turn = Head(queue), !.phase = "early"]
  /\ queue' = Tail(queue)
  /\ UNCHANGED <<seg, events, tracker, sent>>

\* registerActiveChatTurn.
Register ==
  /\ active.phase = "early"
  /\ active' = [active EXCEPT !.phase = "running"]
  /\ UNCHANGED <<seg, events, tracker, queue, sent>>

\* A turn that ends before it is registered, for an empty prompt or a hook that
\* blocks it, does not report.
EndUnreported ==
  /\ active.phase = "early"
  /\ active' = Idle
  /\ UNCHANGED <<seg, events, tracker, queue, sent>>

\* finishCompanionPendingTurn takes what is pending, whichever turn that is ...
Report ==
  /\ active.phase \in {"early", "running"}
  /\ active' = [active EXCEPT !.phase = IF @ = "early" THEN "earlylog" ELSE "log",
                              !.ends = tracker]
  /\ tracker' = None
  /\ UNCHANGED <<seg, events, queue, sent>>

\* ... and logs the end of that one.  A turn that applied a live edit or a local
\* action without an answer was suppressed.
AlwaysPending == FALSE
NothingPending == active.ends = None
LogReport ==
  /\ active.phase \in {"earlylog", "log"}
  /\ active' = Idle
  /\ \E event \in {"assistant_turn_completed", "assistant_turn_suppressed"} :
       IF NothingPending THEN UNCHANGED <<events, seg>>
       ELSE LogEnd(active.ends.room, active.ends.segment, event, seg)
  /\ UNCHANGED <<tracker, queue, sent>>

\* Eight seconds after the last end.
CoolDown(r) ==
  /\ r \in recent
  /\ recent' = recent \ {r}
  /\ UNCHANGED <<seg, pendingIn, tracker, chat, sent>>

-----------------------------------------------------------------------------

SegmentStep(k) ==
  \/ ReadSegments(k) \/ Judge(k) \/ ReadRunning(k) \/ ReadQueued(k) \/ ReadPending(k)
  \/ CancelWork(k) \/ Interrupt(k) \/ Enqueue(k) \/ Note(k) \/ LogTriggered(k)

Next ==
  \/ \E r \in Rooms : CoolDown(r) \/ \E kind \in Kinds : Commit(r, kind)
  \/ \E k \in Segments : SegmentStep(k)
  \/ UserSends \/ BeginTurn \/ Register \/ EndUnreported \/ Report \/ LogReport

Spec == Init /\ [][Next]_vars

-----------------------------------------------------------------------------

\* The types of the variables.
TypeOK ==
  /\ seg \in [Segments -> Segment]
  /\ pendingIn \in [Rooms -> 0..MaxSegments]
  /\ recent \subseteq Rooms
  /\ tracker \in [room : Rooms \cup {0}, segment : 0..MaxSegments]
  /\ queue \in Seq(0..MaxSegments)
  /\ active.phase \in {"idle", "early", "running", "earlylog", "log"}

\* Who addresses the companion while nothing else goes on gets an answer, whatever
\* earlier turns have left in the events or in companionTurns: turns that ended
\* without a report, ended before they were noted or logged, or were reported by
\* the end of another.  (maybeTriggerCompanionResponse)
AddressIsAnswered ==
  \A k \in Segments : At(k, "done") /\ seg[k].calm => seg[k].result = "triggered"

=============================================================================
