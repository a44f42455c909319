---------------------------- MODULE CompanionProofs ----------------------------
(***************************************************************************)
(* Proofs about Companion, for any number of rooms, segments and turns of  *)
(* the user: who addresses the companion while nothing else goes on gets   *)
(* an answer (AddressesAreAnswered), whatever pendingIn, recent and        *)
(* tracker hold from earlier turns.                                        *)
(***************************************************************************)
EXTENDS Companion, SequenceTheorems, TLAPS

\* Rows are numbered from one, so 0 is no segment, and it is no room.
Numbered == MaxSegments \in Nat /\ 0 \notin Rooms

-----------------------------------------------------------------------------
(* Types.                                                                  *)

\* What companionTurns may hold: nothing, or a segment and its room.
Noted == {None} \cup [room : Rooms, segment : Segments]
Active == [turn : 0..MaxSegments, phase : {"idle", "early", "running", "earlylog", "log"},
           canceling : BOOLEAN, ends : Noted]

\* The type invariant, with what is known of a row: it has a room from its commit on,
\* and rows are taken in their order.
TypeInv ==
  /\ TypeOK
  /\ tracker \in Noted /\ active \in Active
  /\ \A k \in Segments : IF At(k, "none") THEN seg[k].room = 0 ELSE seg[k].room \in Rooms
  /\ \A j, k \in Segments : At(j, "none") /\ j <= k => At(k, "none")

\* The same of the segments alone.
SegTyped(segs) ==
  /\ segs \in [Segments -> Segment]
  /\ \A k \in Segments : IF segs[k].pc = "none" THEN segs[k].room = 0 ELSE segs[k].room \in Rooms
  /\ \A j, k \in Segments : segs[j].pc = "none" /\ j <= k => segs[k].pc = "none"

\* Nothing is noted and nobody is heard at first.
LEMMA TypeInit ==
  ASSUME Numbered, Init
  PROVE  TypeInv
<1>1. 0 \in 0..MaxSegments
  BY DEF Numbered
<1>2. NewSegment \in Segment
  BY <1>1 DEF NewSegment, Segment, Kinds
<1>3. seg \in [Segments -> Segment] /\ \A k \in Segments : seg[k] = NewSegment
  BY <1>2 DEF Init
<1>4. queue \in Seq(0..MaxSegments)
  BY DEF Init
<1> QED
  BY <1>1, <1>3, <1>4 DEF Init, TypeInv, TypeOK, None, Idle, Noted, Active, At, NewSegment

\* An ended goroutine, and one that goes on, is well typed.
LEMMA TypeMoves ==
  ASSUME Numbered, TypeInv, NEW k \in Segments, ~At(k, "none")
  PROVE  /\ SegTyped(seg)
         /\ \A what \in {"", "suppressed", "cooldown", "busy", "triggered"} : SegTyped(Result(k, what))
         /\ \A p \in {"running", "enqueue"} : GoneOnTo(k, p) \in Segment /\ SegTyped(GoOnTo(k, p))
<1>0. 0 \in 0..MaxSegments /\ seg[k] \in Segment /\ "talk" \in Kinds
  BY DEF Numbered, TypeInv, TypeOK, Kinds
<1>1. SegTyped(seg)
  BY DEF TypeInv, TypeOK, SegTyped, At
<1>2. ASSUME NEW s \in Segment, s.room = seg[k].room, s.pc # "none"
      PROVE  SegTyped([seg EXCEPT ![k] = s])
  BY <1>1, <1>2 DEF SegTyped, At
<1>3. ASSUME NEW what \in {"", "suppressed", "cooldown", "busy", "triggered"}
      PROVE  SegTyped(Result(k, what))
  <2>1. PICK w \in {"", "suppressed", "cooldown", "busy", "triggered"} :
          w = IF seg[k].calm THEN what ELSE ""
    OBVIOUS
  <2> DEFINE s == [NewSegment EXCEPT !.pc = "done", !.room = seg[k].room,
                     !.calm = seg[k].calm, !.result = w]
  <2>2. Result(k, what) = [seg EXCEPT ![k] = s]
    BY <2>1 DEF Result
  <2>3. s \in Segment /\ s.room = seg[k].room /\ s.pc # "none"
    BY <1>0 DEF NewSegment, Segment
  <2> HIDE DEF s
  <2> QED
    BY <2>2, <2>3, <1>2
<1>4. ASSUME NEW p \in {"running", "enqueue"}
      PROVE  GoneOnTo(k, p) \in Segment /\ SegTyped(GoOnTo(k, p))
  <2>1. /\ GoneOnTo(k, p) \in Segment /\ GoneOnTo(k, p).room = seg[k].room
        /\ GoneOnTo(k, p).pc # "none"
    BY <1>0 DEF GoneOnTo, NewSegment, Segment
  <2> QED
    BY <2>1, <1>2 DEF GoOnTo
<1> QED
  BY <1>1, <1>3, <1>4

\* What an end that is logged does: of the goroutines it changes nothing but whether
\* those that judge find that an answer has just ended.
LEMMA EndLogged ==
  ASSUME Numbered, TypeInv, NEW r \in Rooms, NEW k, NEW event, NEW segs, SegTyped(segs),
         LogEnd(r, k, event, segs)
  PROVE  /\ pendingIn' \in [Rooms -> 0..MaxSegments] /\ recent' \subseteq Rooms
         /\ SegTyped(seg')
         /\ \A j \in Segments :
              \/ seg'[j] = segs[j]
              \/ segs[j].pc \in {"segments", "events"} /\ seg'[j] = [segs[j] EXCEPT !.cooling = TRUE]
<1>0. pendingIn \in [Rooms -> 0..MaxSegments] /\ recent \subseteq Rooms /\ 0 \in 0..MaxSegments
  BY DEF TypeInv, TypeOK, Numbered
<1>1. CASE event \notin Ending
  BY <1>0, <1>1 DEF LogEnd, events
<1>2. CASE event \in Ending
  <2>1. pendingIn' \in [Rooms -> 0..MaxSegments] /\ recent' \subseteq Rooms
    BY <1>0, <1>2 DEF LogEnd
  <2>2. seg' = [j \in Segments |->
                  IF segs[j].room = r /\ segs[j].pc \in {"segments", "events"}
                  THEN [segs[j] EXCEPT !.cooling = TRUE] ELSE segs[j]]
    BY <1>2 DEF LogEnd
  <2>3. ASSUME NEW j \in Segments
        PROVE  [segs[j] EXCEPT !.cooling = TRUE] \in Segment
    <3>1. segs[j] \in Segment
      BY DEF SegTyped
    <3> QED
      BY <3>1 DEF Segment
  <2>4. \A j \in Segments :
              \/ seg'[j] = segs[j]
              \/ segs[j].pc \in {"segments", "events"} /\ seg'[j] = [segs[j] EXCEPT !.cooling = TRUE]
    BY <2>2
  <2>5. ASSUME NEW j \in Segments
        PROVE  seg'[j].pc = segs[j].pc /\ seg'[j].room = segs[j].room
    <3>1. segs[j] \in Segment
      BY DEF SegTyped
    <3>2. /\ [segs[j] EXCEPT !.cooling = TRUE].pc = segs[j].pc
          /\ [segs[j] EXCEPT !.cooling = TRUE].room = segs[j].room
      BY <3>1 DEF Segment
    <3> QED
      BY <2>4, <3>2
  <2>6. seg' \in [Segments -> Segment]
    BY <2>2, <2>3 DEF SegTyped
  <2> QED
    BY <2>1, <2>4, <2>5, <2>6 DEF SegTyped
<1> QED
  BY <1>1, <1>2

\* The variables of the meeting and of the chat.
RestTyped ==
  /\ pendingIn \in [Rooms -> 0..MaxSegments] /\ recent \subseteq Rooms
  /\ tracker \in Noted /\ queue \in Seq(0..MaxSegments) /\ active \in Active

LEMMA TypeParts ==
  ASSUME Numbered
  PROVE  TypeInv <=> SegTyped(seg) /\ RestTyped
<1>1. \A n \in Noted : n \in [room : Rooms \cup {0}, segment : 0..MaxSegments]
  BY DEF Numbered, Noted, None, Segments
<1> QED
  BY <1>1 DEF TypeInv, TypeOK, SegTyped, RestTyped, At, Active

\* Locals of a goroutine that are set one by one stay well typed.
LEMMA TypeSet ==
  ASSUME Numbered, TypeInv, NEW k \in Segments, ~At(k, "none"),
         NEW s \in Segment, s.room = seg[k].room, s.pc # "none"
  PROVE  SegTyped([seg EXCEPT ![k] = s])
BY DEF TypeInv, TypeOK, SegTyped, At

\* The goroutine of a segment, while it judges.
LEMMA TypeJudging ==
  ASSUME Numbered, TypeInv, NEW k \in Segments,
         ReadSegments(k) \/ Judge(k) \/ ReadRunning(k) \/ ReadQueued(k) \/ ReadPending(k)
  PROVE  TypeInv'
<1>0. /\ seg[k] \in Segment /\ SegTyped(seg) /\ RestTyped
      /\ pendingIn[seg[k].room] \in 0..MaxSegments \/ At(k, "none")
  BY TypeParts DEF SegTyped, RestTyped, At
<1>1. ~At(k, "none")
  BY DEF ReadSegments, Judge, ReadRunning, ReadQueued, ReadPending, At
<1>2. SegTyped(seg')
  <2>1. CASE ReadSegments(k)
    <3>1. IsLatest(k) \in BOOLEAN
      BY DEF IsLatest
    <3>2. PICK l \in BOOLEAN : l = IsLatest(k)
      BY <3>1
    <3>3. [seg[k] EXCEPT !.pc = "events", !.latest = l] \in Segment
      BY <1>0 DEF Segment
    <3>4. seg' = [seg EXCEPT ![k] = [seg[k] EXCEPT !.pc = "events", !.latest = l]]
      BY <2>1, <3>2, <1>0 DEF ReadSegments, SegTyped
    <3> QED
      BY <3>3, <3>4, <1>0, <1>1, TypeSet DEF Segment
  <2>2. CASE Judge(k)
    <3> DEFINE s == [GoneOnTo(k, "running") EXCEPT !.interrupts = TRUE, !.target = Pending(k)]
    <3>1. GoneOnTo(k, "running") \in Segment
      BY <1>1, TypeMoves
    <3>2. GoneOnTo(k, "running").room = seg[k].room /\ GoneOnTo(k, "running").pc = "running"
      BY DEF GoneOnTo, NewSegment
    <3>3. s \in Segment
      BY <3>1, <1>0, <1>1 DEF Segment, Pending
    <3>4. s.room = seg[k].room /\ s.pc # "none"
      BY <3>1, <3>2 DEF Segment
    <3>5. SegTyped([seg EXCEPT ![k] = s])
      BY <3>3, <3>4, <1>1, TypeSet
    <3> HIDE DEF s
    <3>6. \/ seg' = [seg EXCEPT ![k] = s]
          \/ seg' \in {Result(k, "suppressed"), Result(k, "cooldown")}
          \/ seg' \in {GoOnTo(k, "enqueue"), GoOnTo(k, "running")}
      BY <2>2 DEF Judge, s
    <3> QED
      BY <3>5, <3>6, <1>1, TypeMoves
  <2>3. CASE ReadRunning(k)
    <3>1. PICK b \in BOOLEAN : b = (active.phase \in {"running", "log"} /\ ~active.canceling)
      OBVIOUS
    <3>2. [seg[k] EXCEPT !.pc = "queued", !.busy = b] \in Segment
      BY <1>0 DEF Segment
    <3>3. seg' = [seg EXCEPT ![k] = [seg[k] EXCEPT !.pc = "queued", !.busy = b]]
      BY <2>3, <3>1, <1>0 DEF ReadRunning, SegTyped
    <3> QED
      BY <3>2, <3>3, <1>0, <1>1, TypeSet DEF Segment
  <2>4. CASE ReadQueued(k)
    <3>1. PICK b \in BOOLEAN : b = (seg[k].busy \/ queue # <<>>)
      OBVIOUS
    <3>2. [seg[k] EXCEPT !.pc = "pending", !.busy = b] \in Segment
      BY <1>0 DEF Segment
    <3>3. seg' = [seg EXCEPT ![k] = [seg[k] EXCEPT !.pc = "pending", !.busy = b]]
      BY <2>4, <3>1, <1>0 DEF ReadQueued, SegTyped
    <3> QED
      BY <3>2, <3>3, <1>0, <1>1, TypeSet DEF Segment
  <2>5. CASE ReadPending(k)
    <3>1. [seg[k] EXCEPT !.pc = "cancel", !.busy = FALSE] \in Segment
      BY <1>0 DEF Segment
    <3>2. \/ seg' = [seg EXCEPT ![k] = [seg[k] EXCEPT !.pc = "cancel", !.busy = FALSE]]
          \/ seg' = GoOnTo(k, "enqueue") \/ seg' = Result(k, "busy")
      BY <2>5, <1>0 DEF ReadPending, SegTyped
    <3>3. SegTyped([seg EXCEPT ![k] = [seg[k] EXCEPT !.pc = "cancel", !.busy = FALSE]])
      BY <3>1, <1>0, <1>1, TypeSet DEF Segment
    <3> QED
      BY <3>2, <3>3, <1>1, TypeMoves
  <2> QED
    BY <2>1, <2>2, <2>3, <2>4, <2>5
<1>3. RestTyped'
  BY <1>0 DEF ReadSegments, Judge, ReadRunning, ReadQueued, ReadPending, events, chat, RestTyped
<1> QED
  BY <1>2, <1>3, TypeParts DEF TypeInv, TypeOK, SegTyped, RestTyped, At, Noted, None, Segments, Numbered, Active

\* The goroutine of a segment, once it answers.
LEMMA TypeAnswering ==
  ASSUME Numbered, TypeInv, NEW k \in Segments,
         CancelWork(k) \/ Interrupt(k) \/ Enqueue(k) \/ Note(k) \/ LogTriggered(k)
  PROVE  SegTyped(seg') /\ RestTyped'
<1>0. seg[k] \in Segment /\ SegTyped(seg) /\ RestTyped /\ 0 \in 0..MaxSegments
  BY TypeParts DEF SegTyped, Numbered
<1>1. ~At(k, "none")
  BY DEF CancelWork, Interrupt, Enqueue, Note, LogTriggered, At
<1>2. seg[k].room \in Rooms /\ k \in 0..MaxSegments
  BY <1>0, <1>1 DEF SegTyped, At, Segments, Numbered
<1>3. ASSUME NEW p \in {"interrupt", "note", "trigger"}, seg' = [seg EXCEPT ![k].pc = p]
      PROVE  SegTyped(seg')
  <2>1. [seg[k] EXCEPT !.pc = p] \in Segment
    BY <1>0 DEF Segment
  <2>2. seg' = [seg EXCEPT ![k] = [seg[k] EXCEPT !.pc = p]]
    BY <1>3, <1>0 DEF SegTyped
  <2> QED
    BY <2>1, <2>2, <1>0, <1>1, TypeSet DEF Segment
<1>4. CASE CancelWork(k)
  <2>1. PICK b \in BOOLEAN : b = (active.canceling \/ active.phase \in {"running", "log"})
    OBVIOUS
  <2>2. active' = [active EXCEPT !.canceling = b]
    BY <1>4, <1>0, <2>1 DEF CancelWork, RestTyped, Active
  <2>3. active' \in Active
    BY <1>0, <2>2 DEF RestTyped, Active
  <2>4. queue' \in Seq(0..MaxSegments)
    BY <1>4 DEF CancelWork
  <2> QED
    BY <1>0, <1>3, <1>4, <2>3, <2>4 DEF CancelWork, events, RestTyped
<1>5. CASE Interrupt(k)
  <2>1. SegTyped(GoOnTo(k, "enqueue"))
    BY <1>1, TypeMoves
  <2>2. LogEnd(seg[k].room, seg[k].target, "assistant_interrupted", GoOnTo(k, "enqueue"))
    BY <1>5 DEF Interrupt
  <2>3. SegTyped(seg') /\ pendingIn' \in [Rooms -> 0..MaxSegments] /\ recent' \subseteq Rooms
    BY <1>2, <2>1, <2>2, EndLogged
  <2>4. tracker' \in Noted /\ UNCHANGED <<queue, active>>
    BY <1>5 DEF Interrupt, Noted, chat
  <2> QED
    BY <1>0, <2>3, <2>4 DEF RestTyped
<1>6. CASE Enqueue(k)
  <2>1. queue' \in Seq(0..MaxSegments)
    BY <1>6, <1>0, <1>2 DEF Enqueue, RestTyped
  <2> QED
    BY <1>0, <1>3, <1>6, <2>1 DEF Enqueue, events, RestTyped
<1>7. CASE Note(k)
  <2>1. tracker' \in Noted
    BY <1>7, <1>2 DEF Note, Noted
  <2> QED
    BY <1>0, <1>3, <1>7, <2>1 DEF Note, events, chat, RestTyped
<1>8. CASE LogTriggered(k)
  <2>1. SegTyped(seg')
    BY <1>8, <1>1, TypeMoves DEF LogTriggered
  <2> QED
    BY <1>0, <1>2, <1>8, <2>1 DEF LogTriggered, chat, RestTyped
<1> QED
  BY <1>4, <1>5, <1>6, <1>7, <1>8

\* Whoever is disturbed is well typed.
LEMMA TypeDisturbed ==
  ASSUME Numbered, TypeInv
  PROVE  /\ SegTyped(Disturbed)
         /\ \A j \in Segments :
              Disturbed[j] = IF At(j, "done") THEN seg[j] ELSE [seg[j] EXCEPT !.calm = FALSE]
<1>1. SegTyped(seg)
  BY TypeParts
<1>2. ASSUME NEW j \in Segments
      PROVE  /\ Disturbed[j] \in Segment
             /\ Disturbed[j].pc = seg[j].pc /\ Disturbed[j].room = seg[j].room
  <2>1. seg[j] \in Segment
    BY <1>1 DEF SegTyped
  <2>2. [seg[j] EXCEPT !.calm = FALSE] \in Segment
    BY <2>1 DEF Segment
  <2>3. /\ [seg[j] EXCEPT !.calm = FALSE].pc = seg[j].pc
        /\ [seg[j] EXCEPT !.calm = FALSE].room = seg[j].room
    BY <2>1 DEF Segment
  <2> QED
    BY <2>1, <2>2, <2>3 DEF Disturbed
<1>3. Disturbed \in [Segments -> Segment]
  BY <1>2 DEF Disturbed
<1>4. SegTyped(Disturbed)
  BY <1>1, <1>2, <1>3 DEF SegTyped
<1> QED
  BY <1>4, Zenon DEF Disturbed

\* The commit of a segment.
LEMMA TypeCommit ==
  ASSUME Numbered, TypeInv, NEW r \in Rooms, NEW kind \in Kinds, Commit(r, kind)
  PROVE  SegTyped(seg') /\ RestTyped'
<1>1. PICK k \in Segments :
        /\ At(k, "none") /\ \A j \in 1..(k - 1) : ~At(j, "none")
        /\ seg' = [Disturbed EXCEPT ![k].pc = "segments", ![k].kind = kind, ![k].room = r,
                                    ![k].cooling = (r \in recent),
                                    ![k].calm = (kind = "address" /\ Quiet(r))]
        /\ UNCHANGED <<events, tracker, chat, sent>>
  BY DEF Commit
<1>2. PICK c \in BOOLEAN : c = (r \in recent)
  <2>1. (r \in recent) \in BOOLEAN
    OBVIOUS
  <2> WITNESS (r \in recent) \in BOOLEAN
  <2> QED
    OBVIOUS
<1>q. PICK q \in BOOLEAN : q = (kind = "address" /\ Quiet(r))
  BY Zenon DEF Quiet
<1>3. Disturbed[k] \in Segment /\ SegTyped(Disturbed)
  BY TypeDisturbed DEF SegTyped
<1> DEFINE s == [Disturbed[k] EXCEPT !.pc = "segments", !.kind = kind, !.room = r,
                                     !.cooling = c, !.calm = q]
<1>4. s \in Segment /\ s.pc = "segments" /\ s.room = r
  BY <1>3 DEF Segment
<1>5. seg' = [Disturbed EXCEPT ![k] = s]
  BY <1>1, <1>2, <1>q, <1>3 DEF SegTyped
<1> HIDE DEF s
<1>6. \A j \in Segments : Disturbed[j].pc = "none" => k <= j
  <2> SUFFICES ASSUME NEW j \in Segments, Disturbed[j].pc = "none"
               PROVE  k <= j
    OBVIOUS
  <2>1. seg[j] \in Segment
    BY TypeParts DEF SegTyped
  <2>2. [seg[j] EXCEPT !.calm = FALSE].pc = seg[j].pc
    BY <2>1 DEF Segment
  <2>3. At(j, "none")
    BY <2>2, TypeDisturbed DEF At
  <2> QED
    BY <2>3, <1>1 DEF Segments, Numbered
<1>7. SegTyped(seg')
  BY <1>3, <1>4, <1>5, <1>6 DEF SegTyped, Segments, Numbered
<1> QED
  BY <1>1, <1>7, TypeParts DEF RestTyped, events, chat

\* The chat session and the meeting's clock.
LEMMA TypeChat ==
  ASSUME Numbered, TypeInv,
         UserSends \/ BeginTurn \/ Register \/ EndUnreported \/ Report \/ LogReport
           \/ \E r \in Rooms : CoolDown(r)
  PROVE  SegTyped(seg') /\ RestTyped'
<1>0. SegTyped(seg) /\ RestTyped /\ 0 \in 0..MaxSegments /\ None \in Noted
  BY TypeParts DEF Numbered, Noted
<1>1. Idle \in Active
  BY <1>0 DEF Idle, Active
<1>2. CASE UserSends
  <2>1. queue' \in Seq(0..MaxSegments)
    BY <1>0, <1>2 DEF UserSends, RestTyped
  <2>2. SegTyped(seg')
    BY <1>2, TypeDisturbed DEF UserSends
  <2> QED
    BY <1>0, <1>2, <2>1, <2>2 DEF UserSends, events, RestTyped
<1>3. CASE BeginTurn
  <2>1. Head(queue) \in 0..MaxSegments /\ Tail(queue) \in Seq(0..MaxSegments)
    BY <1>0, <1>3, HeadTailProperties DEF BeginTurn, RestTyped
  <2>2. active' \in Active /\ queue' \in Seq(0..MaxSegments)
    BY <1>1, <1>3, <2>1 DEF BeginTurn, Active
  <2> QED
    BY <1>0, <1>3, <2>2 DEF BeginTurn, events, RestTyped
<1>4. CASE Register
  <2>1. active' \in Active
    BY <1>0, <1>4 DEF Register, RestTyped, Active
  <2> QED
    BY <1>0, <1>4, <2>1 DEF Register, events, RestTyped
<1>5. CASE EndUnreported
  BY <1>0, <1>1, <1>5 DEF EndUnreported, events, RestTyped
<1>6. CASE Report
  <2>1. PICK p \in {"earlylog", "log"} :
          active' = [active EXCEPT !.phase = p, !.ends = tracker]
    BY <1>6, <1>0 DEF Report, RestTyped, Active
  <2>2. active' \in Active
    BY <1>0, <2>1 DEF RestTyped, Active
  <2> QED
    BY <1>0, <1>6, <2>2 DEF Report, events, RestTyped
<1>7. CASE LogReport
  <2>1. active' \in Active /\ UNCHANGED <<tracker, queue>>
    BY <1>1, <1>7 DEF LogReport
  <2>2. CASE NothingPending
    BY <1>0, <1>7, <2>1, <2>2 DEF LogReport, events, RestTyped
  <2>3. CASE ~NothingPending
    <3>1. active.ends.room \in Rooms
      BY <1>0, <2>3 DEF NothingPending, RestTyped, Active, Noted
    <3>2. PICK event : LogEnd(active.ends.room, active.ends.segment, event, seg)
      BY <1>7, <2>3 DEF LogReport
    <3>3. SegTyped(seg') /\ pendingIn' \in [Rooms -> 0..MaxSegments] /\ recent' \subseteq Rooms
      BY <1>0, <3>1, <3>2, EndLogged
    <3> QED
      BY <1>0, <2>1, <3>3 DEF RestTyped
  <2> QED
    BY <2>2, <2>3
<1>8. ASSUME NEW r \in Rooms, CoolDown(r)
      PROVE  SegTyped(seg') /\ RestTyped'
  BY <1>0, <1>8 DEF CoolDown, chat, RestTyped
<1> QED
  BY <1>2, <1>3, <1>4, <1>5, <1>6, <1>7, <1>8

\* Every step keeps the types.
LEMMA TypeStep ==
  ASSUME Numbered, TypeInv, [Next]_vars
  PROVE  TypeInv'
<1>0. \A n \in Noted : n \in [room : Rooms \cup {0}, segment : 0..MaxSegments]
  BY DEF Numbered, Noted, None, Segments
<1>1. SegTyped(seg') /\ RestTyped' => TypeInv'
  BY <1>0 DEF TypeInv, TypeOK, SegTyped, RestTyped, At, Active
<1>2. CASE UNCHANGED vars
  BY <1>1, <1>2, TypeParts DEF vars, events, chat, RestTyped
<1>3. ASSUME NEW k \in Segments, SegmentStep(k)
      PROVE  TypeInv'
  BY <1>1, <1>3, TypeJudging, TypeAnswering DEF SegmentStep
<1>4. ASSUME NEW r \in Rooms, CoolDown(r) \/ \E kind \in Kinds : Commit(r, kind)
      PROVE  TypeInv'
  BY <1>1, <1>4, TypeCommit, TypeChat
<1>5. CASE UserSends \/ BeginTurn \/ Register \/ EndUnreported \/ Report \/ LogReport
  BY <1>1, <1>5, TypeChat
<1> QED
  BY <1>2, <1>3, <1>4, <1>5 DEF Next

\* The state is well typed: what companionTurns holds is a segment of a room, or nothing.
\* (companionPendingTurnTracker)
THEOREM TypeCorrect ==
  ASSUME Numbered
  PROVE  Spec => []TypeOK
<1>1. Init => TypeInv
  BY TypeInit
<1>2. TypeInv /\ [Next]_vars => TypeInv'
  BY TypeStep
<1>3. TypeInv => TypeOK
  BY DEF TypeInv
<1> QED
  BY <1>1, <1>2, <1>3, PTL DEF Spec

-----------------------------------------------------------------------------
(* An address is answered.                                                 *)

\* The steps of a goroutine before it has queued its turn, and what stays as it was
\* when a calm one began: nothing is queued or running, and nobody else is judged.
Early == {"segments", "events", "running", "queued", "pending", "cancel", "interrupt"}
Undisturbed(k) ==
  /\ queue = <<>> /\ active.phase = "idle"
  /\ \A j \in Segments : j # k => seg[j].pc \in {"none", "done"}

\* A calm address finds nothing on its way that turns it back.
CalmInv ==
  \A k \in Segments : seg[k].calm =>
    /\ seg[k].pc \in Early => Undisturbed(k)
    /\ seg[k].pc \in {"segments", "events"} => seg[k].kind = "address" /\ ~seg[k].cooling
    /\ At(k, "segments") => IsLatest(k)
    /\ At(k, "events") => seg[k].latest
    /\ seg[k].pc \in {"queued", "pending"} => ~seg[k].busy
    /\ At(k, "done") => seg[k].result = "triggered"

\* What the step of a goroutine leaves of the others.
LEMMA OthersStay ==
  ASSUME Numbered, TypeInv, CalmInv, NEW k \in Segments, SegmentStep(k),
         NEW j \in Segments, j # k
  PROVE  /\ seg'[j].pc = seg[j].pc
         /\ seg'[j].calm => seg[j].calm /\ seg'[j] = seg[j] /\ seg[j].pc \notin Early
<1>0. /\ SegTyped(seg) /\ seg[j] \in Segment /\ seg[k].pc \notin {"none", "done"}
  BY TypeParts DEF SegTyped, SegmentStep, ReadSegments, Judge, ReadRunning, ReadQueued,
     ReadPending, CancelWork, Interrupt, Enqueue, Note, LogTriggered, At
<1>1. seg[j].calm => seg[j].pc \notin Early
  BY <1>0 DEF CalmInv, Undisturbed
<1>2. CASE Interrupt(k)
  <2> DEFINE segs == GoOnTo(k, "enqueue")
  <2>1. SegTyped(segs) /\ segs[j] = seg[j]
    <3>1. SegTyped(segs)
      BY <1>0, TypeMoves DEF At
    <3>2. segs[j] = seg[j]
      BY <1>0 DEF GoOnTo, SegTyped
    <3> QED
      BY <3>1, <3>2
  <2>2. seg[k].room \in Rooms
    BY <1>0 DEF SegTyped
  <2>3. LogEnd(seg[k].room, seg[k].target, "assistant_interrupted", segs)
    BY <1>2 DEF Interrupt
  <2> HIDE DEF segs
  <2>4. \/ seg'[j] = seg[j]
        \/ seg[j].pc \in {"segments", "events"} /\ seg'[j] = [seg[j] EXCEPT !.cooling = TRUE]
    BY <2>1, <2>2, <2>3, EndLogged
  <2>5. /\ [seg[j] EXCEPT !.cooling = TRUE].pc = seg[j].pc
        /\ [seg[j] EXCEPT !.cooling = TRUE].calm = seg[j].calm
    BY <1>0 DEF Segment
  <2> QED
    BY <1>1, <2>4, <2>5 DEF Early
<1>3. CASE ~Interrupt(k)
  <2>1. seg'[j] = seg[j]
    <3>1. CASE ReadSegments(k)
      BY <1>0, <3>1 DEF ReadSegments, SegTyped
    <3>2. CASE Judge(k)
      BY <1>0, <3>2 DEF Judge, Result, GoOnTo, SegTyped
    <3>3. CASE ReadRunning(k)
      BY <1>0, <3>3 DEF ReadRunning, SegTyped
    <3>4. CASE ReadQueued(k) \/ ReadPending(k)
      BY <1>0, <3>4 DEF ReadQueued, ReadPending, Result, GoOnTo, SegTyped
    <3>5. CASE CancelWork(k) \/ Enqueue(k) \/ Note(k) \/ LogTriggered(k)
      BY <1>0, <3>5 DEF CancelWork, Enqueue, Note, LogTriggered, Result, SegTyped
    <3> QED
      BY <1>3, <3>1, <3>2, <3>3, <3>4, <3>5 DEF SegmentStep
  <2> QED
    BY <1>1, <2>1
<1> QED
  BY <1>2, <1>3

\* While nothing else goes on, the goroutine of an address goes its whole way.
LEMMA CalmGoesOn ==
  ASSUME Numbered, TypeInv, CalmInv, NEW k \in Segments, SegmentStep(k), seg'[k].calm
  PROVE  /\ seg[k].calm
         /\ seg'[k].pc \in Early => queue' = <<>> /\ active'.phase = "idle"
         /\ seg'[k].pc = "events" =>
              seg'[k].kind = "address" /\ ~seg'[k].cooling /\ seg'[k].latest
         /\ seg'[k].pc # "segments"
         /\ seg'[k].pc \in {"queued", "pending"} => ~seg'[k].busy
         /\ seg'[k].pc = "done" => seg'[k].result = "triggered"
<1>0. SegTyped(seg) /\ seg[k] \in Segment
  BY TypeParts DEF SegTyped
<1>u. seg[k].calm /\ seg[k].pc \in Early => queue = <<>> /\ active.phase = "idle"
  BY DEF CalmInv, Undisturbed
<1>1. CASE ReadSegments(k)
  <2>1. seg'[k] = [seg[k] EXCEPT !.pc = "events", !.latest = IsLatest(k)]
    BY <1>0, <1>1 DEF ReadSegments, SegTyped
  <2>2. /\ seg'[k].pc = "events" /\ seg'[k].calm = seg[k].calm /\ seg'[k].kind = seg[k].kind
        /\ seg'[k].cooling = seg[k].cooling /\ seg'[k].latest = IsLatest(k)
    BY <1>0, <2>1, Zenon DEF Segment
  <2> QED
    BY <1>1, <1>u, <2>2 DEF ReadSegments, CalmInv, At, Early, chat
<1>2. CASE Judge(k)
  <2> DEFINE s == [GoneOnTo(k, "running") EXCEPT !.interrupts = TRUE, !.target = Pending(k)]
  <2>1. s.pc = "running" /\ s.calm = seg[k].calm
    BY DEF GoneOnTo, NewSegment
  <2> HIDE DEF s
  <2>2. seg[k].calm => PassesGate(k) /\ ~Suppressed(k) /\ ~seg[k].cooling
    BY <1>2 DEF Judge, CalmInv, At, PassesGate, Suppressed
  <2>3. seg[k].calm => seg'[k] \in {s, GoneOnTo(k, "running")}
    BY <1>0, <1>2, <2>2 DEF Judge, s, GoOnTo, SegTyped
  <2>4. GoneOnTo(k, "running").pc = "running"
    BY DEF GoneOnTo, NewSegment
  <2>5. seg[k].calm
    <3>1. \/ seg'[k] \in {s, GoneOnTo(k, "running"), GoneOnTo(k, "enqueue")}
          \/ \E what \in {"suppressed", "cooldown"} : seg' = Result(k, what)
      BY <1>0, <1>2 DEF Judge, s, GoOnTo, SegTyped
    <3>2. \A what : Result(k, what)[k].calm = seg[k].calm
      BY <1>0 DEF Result, NewSegment, SegTyped
    <3>3. GoneOnTo(k, "running").calm = seg[k].calm /\ GoneOnTo(k, "enqueue").calm = seg[k].calm
      BY DEF GoneOnTo, NewSegment
    <3> QED
      BY <2>1, <3>1, <3>2, <3>3
  <2> QED
    BY <1>2, <1>u, <2>1, <2>3, <2>4, <2>5 DEF Judge, At, Early, chat
<1>3. CASE ReadRunning(k)
  <2>1. PICK b \in BOOLEAN : b = (active.phase \in {"running", "log"} /\ ~active.canceling)
    OBVIOUS
  <2>2. seg'[k] = [seg[k] EXCEPT !.pc = "queued", !.busy = b]
    BY <1>0, <1>3, <2>1 DEF ReadRunning, SegTyped
  <2>3. seg'[k].pc = "queued" /\ seg'[k].calm = seg[k].calm /\ seg'[k].busy = b
    BY <1>0, <2>2 DEF Segment
  <2>4. active.phase = "idle" => ~b
    BY <2>1
  <2> QED
    BY <1>3, <1>u, <2>3, <2>4 DEF ReadRunning, At, Early, chat
<1>4. CASE ReadQueued(k)
  <2>1. PICK b \in BOOLEAN : b = (seg[k].busy \/ queue # <<>>)
    OBVIOUS
  <2>2. seg'[k] = [seg[k] EXCEPT !.pc = "pending", !.busy = b]
    BY <1>0, <1>4, <2>1 DEF ReadQueued, SegTyped
  <2>3. seg'[k].pc = "pending" /\ seg'[k].calm = seg[k].calm /\ seg'[k].busy = b
    <3>1. seg'[k].pc = "pending" /\ seg'[k].calm = seg[k].calm
      BY <1>0, <2>2 DEF Segment
    <3>2. "busy" \in DOMAIN seg[k]
      BY <1>0 DEF Segment
    <3>3. seg'[k].busy = b
      BY <2>2, <3>2
    <3> QED
      BY <3>1, <3>3
  <2>4. seg[k].calm => ~seg[k].busy
    BY <1>4 DEF ReadQueued, CalmInv, At
  <2> QED
    BY <1>4, <1>u, <2>1, <2>3, <2>4 DEF ReadQueued, At, Early, chat
<1>5. CASE ReadPending(k)
  <2>1. seg[k].calm => MayGoOn(k)
    BY <1>5 DEF ReadPending, CalmInv, At, MayGoOn
  <2>2. /\ [seg[k] EXCEPT !.pc = "cancel", !.busy = FALSE].pc = "cancel"
        /\ [seg[k] EXCEPT !.pc = "cancel", !.busy = FALSE].calm = seg[k].calm
    BY <1>0 DEF Segment
  <2>3. /\ GoneOnTo(k, "enqueue").pc = "enqueue" /\ GoneOnTo(k, "enqueue").calm = seg[k].calm
        /\ Result(k, "busy")[k].calm = seg[k].calm
    BY <1>0 DEF GoneOnTo, Result, NewSegment, SegTyped
  <2>4. \/ seg'[k] = [seg[k] EXCEPT !.pc = "cancel", !.busy = FALSE]
        \/ seg'[k] = GoneOnTo(k, "enqueue")
        \/ seg' = Result(k, "busy") /\ ~MayGoOn(k)
    BY <1>0, <1>5 DEF ReadPending, GoOnTo, SegTyped
  <2> QED
    BY <1>5, <1>u, <2>1, <2>2, <2>3, <2>4 DEF ReadPending, At, Early, chat
<1>6. CASE CancelWork(k)
  <2>1. seg'[k].pc = "interrupt" /\ seg'[k].calm = seg[k].calm
    BY <1>0, <1>6 DEF CancelWork, SegTyped, Segment
  <2>2. active'.phase = active.phase
    <3>1. PICK b \in BOOLEAN : b = (active.canceling \/ active.phase \in {"running", "log"})
      OBVIOUS
    <3>2. active' = [active EXCEPT !.canceling = b] /\ active \in Active
      BY <1>6, <3>1, TypeParts DEF CancelWork, RestTyped, Active
    <3> QED
      BY <3>2 DEF Active
  <2> QED
    BY <1>6, <1>u, <2>1, <2>2 DEF CancelWork, At, Early
<1>7. CASE Interrupt(k)
  <2> DEFINE segs == GoOnTo(k, "enqueue")
  <2>1. SegTyped(segs) /\ seg[k].room \in Rooms
    BY <1>0, <1>7, TypeMoves DEF Interrupt, At, SegTyped
  <2>2. segs[k].pc = "enqueue" /\ segs[k].calm = seg[k].calm
    BY <1>0 DEF GoOnTo, GoneOnTo, NewSegment, SegTyped
  <2>3. LogEnd(seg[k].room, seg[k].target, "assistant_interrupted", segs)
    BY <1>7 DEF Interrupt
  <2> HIDE DEF segs
  <2>4. seg'[k] = segs[k]
    BY <2>1, <2>2, <2>3, EndLogged
  <2> QED
    BY <2>2, <2>4 DEF Early
<1>8. CASE Enqueue(k) \/ Note(k)
  <2>1. seg'[k].pc \in {"note", "trigger"} /\ seg'[k].calm = seg[k].calm
    <3>1. PICK p \in {"note", "trigger"} : seg' = [seg EXCEPT ![k].pc = p]
      BY <1>8 DEF Enqueue, Note
    <3>2. seg'[k] = [seg[k] EXCEPT !.pc = p]
      BY <1>0, <3>1 DEF SegTyped
    <3> QED
      BY <1>0, <3>2 DEF Segment
  <2> QED
    BY <2>1 DEF Early
<1>9. CASE LogTriggered(k)
  <2>1. seg'[k].pc = "done" /\ seg'[k].calm = seg[k].calm
    BY <1>0, <1>9 DEF LogTriggered, Result, NewSegment, SegTyped
  <2>2. seg[k].calm => seg'[k].result = "triggered"
    BY <1>0, <1>9 DEF LogTriggered, Result, NewSegment, SegTyped
  <2> QED
    BY <2>1, <2>2 DEF Early
<1> QED
  BY <1>1, <1>2, <1>3, <1>4, <1>5, <1>6, <1>7, <1>8, <1>9 DEF SegmentStep

\* The commit of a segment: a calm one finds all as it should be.
LEMMA CalmBegins ==
  ASSUME Numbered, TypeInv, CalmInv, NEW r \in Rooms, NEW kind \in Kinds, Commit(r, kind)
  PROVE  CalmInv'
<1>1. PICK k \in Segments :
        /\ At(k, "none") /\ \A j \in 1..(k - 1) : ~At(j, "none")
        /\ seg' = [Disturbed EXCEPT ![k].pc = "segments", ![k].kind = kind, ![k].room = r,
                                    ![k].cooling = (r \in recent),
                                    ![k].calm = (kind = "address" /\ Quiet(r))]
        /\ UNCHANGED <<events, tracker, chat, sent>>
  BY DEF Commit
<1>2. PICK c \in BOOLEAN : c = (r \in recent)
  <2>1. (r \in recent) \in BOOLEAN
    OBVIOUS
  <2> WITNESS (r \in recent) \in BOOLEAN
  <2> QED
    OBVIOUS
<1>3. PICK q \in BOOLEAN : q = (kind = "address" /\ Quiet(r))
  BY Zenon DEF Quiet
<1>4. /\ Disturbed[k] \in Segment /\ SegTyped(Disturbed) /\ SegTyped(seg)
  BY TypeDisturbed, TypeParts DEF SegTyped
<1> DEFINE s == [Disturbed[k] EXCEPT !.pc = "segments", !.kind = kind, !.room = r,
                                     !.cooling = c, !.calm = q]
<1>5. /\ s.pc = "segments" /\ s.kind = kind /\ s.room = r /\ s.cooling = c /\ s.calm = q
  BY <1>4 DEF Segment
<1>6. seg' = [Disturbed EXCEPT ![k] = s]
  BY <1>1, <1>2, <1>3, <1>4 DEF SegTyped
<1> HIDE DEF s
<1>7. ASSUME NEW j \in Segments, j # k
      PROVE  /\ seg'[j].pc = seg[j].pc /\ seg'[j].room = seg[j].room
             /\ seg'[j].calm => seg'[j] = seg[j] /\ At(j, "done")
  <2>1. seg'[j] = IF At(j, "done") THEN seg[j] ELSE [seg[j] EXCEPT !.calm = FALSE]
    BY <1>4, <1>6, <1>7, TypeDisturbed DEF SegTyped
  <2>2. seg[j] \in Segment
    BY <1>4 DEF SegTyped
  <2>3. /\ [seg[j] EXCEPT !.calm = FALSE].pc = seg[j].pc
        /\ [seg[j] EXCEPT !.calm = FALSE].room = seg[j].room
        /\ [seg[j] EXCEPT !.calm = FALSE].calm = FALSE
    BY <2>2 DEF Segment
  <2> QED
    BY <2>1, <2>3
<1>8. seg'[k] = s
  BY <1>4, <1>6 DEF SegTyped
<1>9. q => /\ kind = "address" /\ ~c /\ queue = <<>> /\ active.phase = "idle"
           /\ \A j \in Segments : seg[j].pc \in {"none", "done"}
  <2> SUFFICES ASSUME q
               PROVE  /\ kind = "address" /\ ~c /\ queue = <<>> /\ active.phase = "idle"
                      /\ \A j \in Segments : seg[j].pc \in {"none", "done"}
    OBVIOUS
  <2>1. kind = "address" /\ Quiet(r)
    BY <1>3
  <2>2. ~c
    BY <1>2, <2>1 DEF Quiet
  <2>3. queue = <<>> /\ active.phase = "idle"
    BY <2>1 DEF Quiet, Idle
  <2>4. \A j \in Segments : seg[j].pc \in {"none", "done"}
    BY <2>1 DEF Quiet
  <2> QED
    BY <2>1, <2>2, <2>3, <2>4
<1>10. \A j \in Segments : seg'[j].room = r => j <= k
  <2> SUFFICES ASSUME NEW j \in Segments, j > k
               PROVE  seg'[j].room # r
    BY DEF Segments, Numbered
  <2>1. seg[j].pc = "none"
    BY <1>1, <1>4 DEF SegTyped, At, Segments
  <2> QED
    BY <2>1, <1>4, <1>7 DEF SegTyped, Numbered, Segments
<1> SUFFICES ASSUME NEW j \in Segments, seg'[j].calm
             PROVE  /\ seg'[j].pc \in Early => Undisturbed(j)'
                    /\ seg'[j].pc \in {"segments", "events"} =>
                         seg'[j].kind = "address" /\ ~seg'[j].cooling
                    /\ seg'[j].pc = "segments" => IsLatest(j)'
                    /\ seg'[j].pc = "events" => seg'[j].latest
                    /\ seg'[j].pc \in {"queued", "pending"} => ~seg'[j].busy
                    /\ seg'[j].pc = "done" => seg'[j].result = "triggered"
  BY DEF CalmInv, At
<1>11. CASE j # k
  BY <1>7, <1>11 DEF CalmInv, At, Early
<1>12. CASE j = k
  <2>1. Undisturbed(k)'
    BY <1>1, <1>5, <1>7, <1>8, <1>9, <1>12 DEF Undisturbed, chat
  <2>2. IsLatest(k)'
    BY <1>5, <1>8, <1>10 DEF IsLatest
  <2> QED
    BY <1>5, <1>8, <1>9, <1>12, <2>1, <2>2
<1> QED
  BY <1>11, <1>12

\* The chat session: while an address is calm nothing runs in it, and a turn that the
\* user sends is the end of the calm.
LEMMA CalmInChat ==
  ASSUME Numbered, TypeInv, CalmInv,
         UserSends \/ BeginTurn \/ Register \/ EndUnreported \/ Report \/ LogReport
           \/ \E r \in Rooms : CoolDown(r)
  PROVE  CalmInv'
<1>0. SegTyped(seg)
  BY TypeParts
<1>1. CASE UserSends
  <2> SUFFICES ASSUME NEW k \in Segments, seg'[k].calm
               PROVE  seg'[k] = seg[k] /\ At(k, "done")
    BY DEF CalmInv, At, Early
  <2>1. seg'[k] = IF At(k, "done") THEN seg[k] ELSE [seg[k] EXCEPT !.calm = FALSE]
    BY <1>1, TypeDisturbed DEF UserSends
  <2>2. [seg[k] EXCEPT !.calm = FALSE].calm = FALSE
    BY <1>0 DEF SegTyped, Segment
  <2> QED
    BY <2>1, <2>2
<1>2. CASE BeginTurn \/ Register \/ EndUnreported \/ Report
  <2>1. ~(queue = <<>> /\ active.phase = "idle") /\ seg' = seg
    BY <1>2 DEF BeginTurn, Register, EndUnreported, Report
  <2> QED
    BY <2>1 DEF CalmInv, Undisturbed, IsLatest, At
<1>3. CASE LogReport
  <2>1. active.phase # "idle"
    BY <1>3 DEF LogReport
  <2>2. \A k \in Segments : \/ seg'[k] = seg[k]
                           \/ /\ seg[k].pc \in {"segments", "events"}
                              /\ seg'[k] = [seg[k] EXCEPT !.cooling = TRUE]
    <3>1. CASE NothingPending
      BY <1>3, <3>1 DEF LogReport
    <3>2. CASE ~NothingPending
      <4>1. active.ends.room \in Rooms
        BY <3>2, TypeParts DEF NothingPending, RestTyped, Active, Noted
      <4>2. PICK event : LogEnd(active.ends.room, active.ends.segment, event, seg)
        BY <1>3, <3>2 DEF LogReport
      <4> QED
        BY <1>0, <4>1, <4>2, EndLogged
    <3> QED
      BY <3>1, <3>2
  <2>3. ASSUME NEW k \in Segments, seg'[k].calm
        PROVE  seg'[k] = seg[k] /\ seg[k].pc \notin Early
    <3>1. [seg[k] EXCEPT !.cooling = TRUE].calm = seg[k].calm
      BY <1>0 DEF SegTyped, Segment
    <3>2. seg[k].calm
      BY <2>2, <2>3, <3>1
    <3> QED
      BY <2>1, <2>2, <3>2 DEF CalmInv, Undisturbed, Early
  <2> QED
    BY <2>3 DEF CalmInv, At, Early
<1>4. CASE \E r \in Rooms : CoolDown(r)
  BY <1>4 DEF CoolDown, chat, CalmInv, Undisturbed, IsLatest, At
<1> QED
  BY <1>1, <1>2, <1>3, <1>4

\* Every step leaves a calm address on its way.
LEMMA CalmStep ==
  ASSUME Numbered, TypeInv, CalmInv, [Next]_vars
  PROVE  CalmInv'
<1>1. CASE UNCHANGED vars
  BY <1>1 DEF vars, chat, CalmInv, Undisturbed, IsLatest, At
<1>2. ASSUME NEW k \in Segments, SegmentStep(k)
      PROVE  CalmInv'
  <2>1. ASSUME NEW j \in Segments, j # k, seg'[j].calm
        PROVE  seg[j].calm /\ seg'[j] = seg[j] /\ seg'[j].pc \notin Early
    BY <1>2, <2>1, OthersStay
  <2>2. ASSUME seg'[k].calm, seg'[k].pc \in Early
        PROVE  Undisturbed(k)'
    <3>1. seg[k].calm /\ queue' = <<>> /\ active'.phase = "idle"
      BY <1>2, <2>2, CalmGoesOn
    <3>2. seg[k].pc \in Early
      <4>1. seg[k].pc \in {"enqueue", "note", "trigger"} => seg'[k].pc \in {"note", "trigger", "done"}
        <5>0. SegTyped(seg)
          BY TypeParts
        <5>1. CASE Enqueue(k) \/ Note(k)
          BY <5>0, <5>1 DEF Enqueue, Note, SegTyped, Segment
        <5>2. CASE LogTriggered(k)
          BY <5>0, <5>2 DEF LogTriggered, Result, NewSegment, SegTyped
        <5> QED
          BY <1>2, <5>1, <5>2 DEF SegmentStep, ReadSegments, Judge, ReadRunning, ReadQueued,
             ReadPending, CancelWork, Interrupt, At
      <4>2. seg[k].pc \in Early \cup {"enqueue", "note", "trigger"}
        BY <1>2 DEF SegmentStep, ReadSegments, Judge, ReadRunning, ReadQueued, ReadPending,
           CancelWork, Interrupt, Enqueue, Note, LogTriggered, At, Early
      <4> QED
        BY <2>2, <4>1, <4>2 DEF Early
    <3>3. \A j \in Segments : j # k => seg'[j].pc = seg[j].pc
      BY <1>2, OthersStay
    <3> QED
      BY <3>1, <3>2, <3>3 DEF CalmInv, Undisturbed
  <2>3. ASSUME seg'[k].calm
        PROVE  /\ seg'[k].pc = "events" =>
                    seg'[k].kind = "address" /\ ~seg'[k].cooling /\ seg'[k].latest
               /\ seg'[k].pc # "segments"
               /\ seg'[k].pc \in {"queued", "pending"} => ~seg'[k].busy
               /\ seg'[k].pc = "done" => seg'[k].result = "triggered"
    BY <1>2, <2>3, CalmGoesOn
  <2> QED
    BY <2>1, <2>2, <2>3 DEF CalmInv, At, Early
<1>3. ASSUME NEW r \in Rooms, CoolDown(r) \/ \E kind \in Kinds : Commit(r, kind)
      PROVE  CalmInv'
  BY <1>3, CalmBegins, CalmInChat
<1>4. CASE UserSends \/ BeginTurn \/ Register \/ EndUnreported \/ Report \/ LogReport
  BY <1>4, CalmInChat
<1> QED
  BY <1>1, <1>2, <1>3, <1>4 DEF Next

\* Who addresses the companion while nothing else goes on gets an answer, whatever
\* earlier turns have left in the events or in companionTurns.
\* (maybeTriggerCompanionResponse)
THEOREM AddressesAreAnswered ==
  ASSUME Numbered
  PROVE  Spec => []AddressIsAnswered
<1>1. Init => TypeInv /\ CalmInv
  <2>1. ASSUME Init, NEW k \in Segments
        PROVE  ~seg[k].calm
    <3>1. seg[k] = NewSegment
      BY <2>1 DEF Init
    <3>2. ~NewSegment.calm
      BY DEF NewSegment
    <3> QED
      BY <3>1, <3>2
  <2> QED
    BY <2>1, TypeInit DEF CalmInv
<1>2. TypeInv /\ CalmInv /\ [Next]_vars => (TypeInv /\ CalmInv)'
  BY TypeStep, CalmStep
<1>3. CalmInv => AddressIsAnswered
  BY DEF CalmInv, AddressIsAnswered
<1> QED
  BY <1>1, <1>2, <1>3, PTL DEF Spec

=============================================================================
