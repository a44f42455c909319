-------------------------- MODULE ItemGesturesProofs --------------------------
(***************************************************************************)
(* Theorems about the gestures on an item: the types, and that an undo     *)
(* which is answered restores what the gesture found.                      *)
(*                                                                         *)
(* The second rests on what the windows remember while nobody else changes *)
(* anything.  If the source agreed with the row and a gesture's markers    *)
(* are both unset, then the source still agrees with the state the         *)
(* snapshot has, or is done: a completed task has no marker, and neither   *)
(* has a message whose archive was reported to have failed.  A gesture     *)
(* whose marker is set has its undo tell the source before the row is      *)
(* restored.                                                               *)
(*                                                                         *)
(* MCAnswers has the gestures beside an app-server turn and a companion.   *)
(* The last theorems say that what was proved of each holds of the three.  *)
(***************************************************************************)
EXTENDS MCAnswers, TLAPS

\* A marker names the kind of source that was told.
Marked(x) == (x.md => source = "markdown") /\ (x.mail => source = "email")
MarkersInv == \A w \in Windows : Marked(request[w]) /\ Marked(undo[w])

\* Where a request may be.
Placed(q) ==
  /\ q.at # "idle" => q.op # ""
  /\ q.at = "read" => q.op # "undo"
  /\ q.at = "after" => source \in {"email", "todoist"}
TypeInv == TypeOK /\ MarkersInv /\ \A w \in Windows : Placed(request[w])

-----------------------------------------------------------------------------

LEMMA GoalStates == \A op \in DOMAIN Goal : Goal[op] \in States
BY DEF Goal, States

LEMMA BlankEntry == ASSUME NEW s \in States PROVE Blank(s) \in Entry
BY DEF Blank, Entry

LEMMA NewIsRequest == NewRequest \in Request /\ ~NewRequest.md /\ ~NewRequest.mail
<1>1. Blank("inbox") \in Entry
  BY BlankEntry DEF States
<1>2. Untouched \in Change
  BY DEF Untouched, Change
<1> QED BY <1>1, <1>2 DEF NewRequest, Request, States

Undo == [on : BOOLEAN, last : BOOLEAN, item : Entry, md : BOOLEAN, mail : BOOLEAN,
         agreed : BOOLEAN, syncError : BOOLEAN]

LEMMA NoUndoIsUndo == NoUndo \in Undo /\ ~NoUndo.md /\ ~NoUndo.mail
<1>1. Blank("inbox") \in Entry
  BY BlankEntry DEF States
<1> QED BY <1>1 DEF NoUndo, Undo

\* What a request writes has the type of a change.
LEMMA ChangeTypes ==
  ASSUME NEW s \in States, NEW t \in States
  PROVE  StateWrite(s) \in Change /\ UpdateItem(t, s) \in Change
BY DEF StateWrite, UpdateItem, Untouched, Change

LEMMA UpdatedIsEntry ==
  ASSUME NEW i \in Entry, NEW u \in Change
  PROVE  Updated(i, u) \in Entry
BY DEF Updated, Kept, Entry, Change

LEMMA WriteIsChange ==
  ASSUME NEW r \in Request, r.op \in Ops, NEW i \in Entry
  PROVE  Write(r, i) \in Change
<1>1. r.to \in States /\ i.state \in States /\ r.actor \in Actors \cup {NoActor}
      /\ r.follow \in BOOLEAN
  BY DEF Request, Entry
<1>2. StateWrite(r.to) \in Change /\ UpdateItem(i.state, r.to) \in Change
  BY <1>1, ChangeTypes
<1>3. CASE r.op \in ByState
  BY <1>2, <1>3 DEF Write
<1> DEFINE set == [Untouched EXCEPT !.state = r.to]
           update == UpdateItem(i.state, r.to)
<1> set \in Change
  BY <1>1 DEF Change, Untouched
<1>4. CASE r.op = "defer"
  <2>1. Write(r, i) = [update EXCEPT !.visible = TRUE, !.follow = TRUE]
    BY <1>4 DEF Write, ByState, Closing
  <2> QED BY <1>2, <2>1 DEF Change
<1>5. CASE r.op = "delegate"
  <2>1. Write(r, i) = [update EXCEPT !.actor = r.actor,
                                     !.follow = IF r.follow THEN TRUE ELSE @]
    BY <1>5 DEF Write, ByState, Closing
  <2> QED BY <1>1, <1>2, <2>1 DEF Change
<1>6. CASE r.op = "update"
  <2>1. Write(r, i) = [update EXCEPT !.follow = IF r.follow THEN TRUE ELSE @]
    BY <1>6 DEF Write, ByState, Closing
  <2> QED BY <1>1, <1>2, <2>1 DEF Change
<1>7. CASE r.op \in {"triageDone", "completeBy"}
  BY <1>1, <1>7 DEF Write, ByState, Closing, Change, Untouched
<1>8. CASE r.op = "later"
  <2>1. Write(r, i) = [set EXCEPT !.visible = TRUE]
    BY <1>8 DEF Write, ByState, Closing
  <2> QED BY <2>1 DEF Change
<1>9. CASE r.op = "triageDelegate"
  <2>1. Write(r, i) = [set EXCEPT !.actor = r.actor, !.visible = FALSE]
    BY <1>9 DEF Write, ByState, Closing
  <2> QED BY <1>1, <2>1 DEF Change
<1>10. CASE r.op = "someday"
  <2>1. Write(r, i) = [set EXCEPT !.visible = FALSE, !.follow = FALSE]
    BY <1>10 DEF Write, ByState, Closing
  <2> QED BY <2>1 DEF Change
<1>11. CASE r.op = "assign"
  <2>1. Write(r, i) = [set EXCEPT !.actor = r.actor]
    BY <1>11 DEF Write, ByState, Closing
  <2> QED BY <1>1, <2>1 DEF Change
<1>12. CASE r.op = "unassign"
  <2>1. Write(r, i) = [set EXCEPT !.actor = NoActor, !.visible = FALSE, !.follow = FALSE]
    BY <1>12 DEF Write, ByState, Closing
  <2> QED BY <2>1 DEF Change
<1> QED BY <1>3, <1>4, <1>5, <1>6, <1>7, <1>8, <1>9, <1>10, <1>11, <1>12
        DEF Ops, Goal, Naming, ByState, Closing

LEMMA CounterpartTypes == ASSUME NEW s \in States PROVE Counterpart(s) \in States
BY DEF Counterpart, States

\* What a request reads and where it goes have the type of a request.
LEMMA StepsTyped ==
  ASSUME TypeInv, NEW w \in Windows
  PROVE  /\ request[w] \in Request /\ undo[w] \in Undo
         /\ Marked(request[w]) /\ Marked(undo[w]) /\ Placed(request[w])
BY DEF TypeInv, TypeOK, MarkersInv, Undo

\* After a step of window w that gives it request q and undo u, all are typed.
LEMMA RestTyped ==
  ASSUME TypeInv, NEW w \in Windows, source' = source,
         NEW q \in Request, request' = [request EXCEPT ![w] = q],
         NEW u \in Undo, undo' = [undo EXCEPT ![w] = u],
         Marked(q), Marked(u), Placed(q),
         entry' \in Entry, remote' \in States, alone' \subseteq Windows,
         sent' \in 0..MaxRequests
  PROVE  TypeInv'
<1>1. /\ request \in [Windows -> Request] /\ undo \in [Windows -> Undo]
      /\ source \in Sources
  BY DEF TypeInv, TypeOK, Undo
<1>2. request' \in [Windows -> Request] /\ undo' \in [Windows -> Undo]
  BY <1>1
<1>3. \A v \in Windows : request'[v] \in {request[v], q} /\ undo'[v] \in {undo[v], u}
  BY <1>1
<1>4. \A v \in Windows : Marked(request[v]) /\ Marked(undo[v]) /\ Placed(request[v])
  BY StepsTyped
<1>5. MarkersInv'
  BY <1>3, <1>4 DEF MarkersInv, Marked
<1>6. \A v \in Windows : Placed(request[v])'
  BY <1>3, <1>4 DEF Placed
<1>7. \A v \in Windows : ~(undo'[v].md /\ undo'[v].mail)
  BY <1>5 DEF MarkersInv, Marked
<1> QED BY <1>1, <1>2, <1>5, <1>6, <1>7 DEF TypeInv, TypeOK, Undo

\* The request goes on, or ends.
LEMMA GoToTyped ==
  ASSUME TypeInv, NEW w \in Windows, UNCHANGED <<source, sent>>,
         NEW r \in Request, Marked(r), r.op # "",
         NEW at \in {"source", "parse", "check", "mirror", "read", "save", "restore"},
         at = "read" => r.op # "undo",
         GoTo(w, r, at) \/ End(w),
         entry' \in Entry, remote' \in States, alone' \subseteq Windows
  PROVE  TypeInv'
<1>1. undo' = [undo EXCEPT ![w] = undo[w]]
  BY DEF GoTo, End, TypeInv, TypeOK
<1>2. sent' \in 0..MaxRequests
  BY DEF TypeInv, TypeOK
<1>3. undo[w] \in Undo /\ Marked(undo[w])
  BY StepsTyped
<1>4. CASE GoTo(w, r, at)
  <2> DEFINE q == [r EXCEPT !.at = at]
  <2>1. q \in Request /\ q.md = r.md /\ q.mail = r.mail /\ q.at = at /\ q.op = r.op
    BY DEF Request
  <2>2. request' = [request EXCEPT ![w] = q]
    BY <1>4 DEF GoTo
  <2>3. Marked(q) /\ Placed(q)
    BY <2>1 DEF Marked, Placed
  <2> HIDE DEF q
  <2> QED BY <1>1, <1>2, <1>3, <2>1, <2>2, <2>3, RestTyped
<1>5. CASE End(w)
  <2>1. request' = [request EXCEPT ![w] = NewRequest]
    BY <1>5 DEF End
  <2>2. Marked(NewRequest) /\ Placed(NewRequest) /\ NewRequest \in Request
    BY NewIsRequest DEF Marked, NewRequest, Placed
  <2> QED BY <1>1, <1>2, <1>3, <2>1, <2>2, RestTyped
<1> QED BY <1>4, <1>5

\* The request returns its result.
LEMMA AnswerTyped ==
  ASSUME TypeInv, NEW w \in Windows, source' = source,
         NEW r \in Request, Marked(r), Answer(w, r),
         entry' \in Entry, remote' \in States, alone' \subseteq Windows,
         sent' \in 0..MaxRequests
  PROVE  TypeInv'
<1>1. request' = [request EXCEPT ![w] = NewRequest]
  BY DEF Answer
<1>2. Marked(NewRequest) /\ Placed(NewRequest) /\ NewRequest \in Request
  BY NewIsRequest DEF Marked, NewRequest, Placed
<1>3. undo[w] \in Undo /\ Marked(undo[w])
  BY StepsTyped
<1>4. CASE r.op \in Gestures
  <2> DEFINE u == [on |-> TRUE, last |-> TRUE, item |-> r.item, md |-> r.md,
                   mail |-> r.mail, agreed |-> r.agreed, syncError |-> r.syncError]
  <2>1. u \in Undo /\ Marked(u)
    BY DEF Undo, Request, Marked
  <2>2. undo' = [undo EXCEPT ![w] = u]
    BY <1>4 DEF Answer
  <2> HIDE DEF u
  <2> QED BY <1>1, <1>2, <2>1, <2>2, RestTyped
<1>5. CASE r.op \notin Gestures
  <2>1. undo' = [undo EXCEPT ![w] = undo[w]]
    BY <1>5 DEF Answer, TypeInv, TypeOK
  <2> QED BY <1>1, <1>2, <1>3, <2>1, RestTyped
<1> QED BY <1>4, <1>5

LEMMA BaseTyped ==
  ASSUME TypeInv
  PROVE  entry \in Entry /\ remote \in States /\ alone \subseteq Windows
         /\ sent \in 0..MaxRequests /\ source \in Sources
BY DEF TypeInv, TypeOK

\* What a window asks for.
Asked(op, to, actor, follow) ==
  /\ op \in Ops /\ to \in States /\ actor \in Actors \cup {NoActor} /\ follow \in BOOLEAN

LEMMA BeginTyped ==
  ASSUME TypeInv, NEW w \in Windows, NEW op, NEW to, NEW actor, NEW follow,
         Asked(op, to, actor, follow), Begin(w, op, to, actor, follow)
  PROVE  TypeInv'
<1> DEFINE r == [NewRequest EXCEPT !.op = op, !.to = to, !.actor = actor,
                                   !.follow = follow, !.item = entry, !.agreed = Agrees]
           at == IF AsksFirst(r) THEN "source" ELSE "read"
<1> USE BaseTyped
<1>1. r \in Request /\ Marked(r) /\ r.op = op
  <2>1. Agrees \in BOOLEAN
    BY DEF Agrees
  <2> QED BY <2>1, NewIsRequest DEF Request, Marked, Asked
<1>2. UNCHANGED <<source, entry, remote>> /\ sent' \in 0..MaxRequests
      /\ alone' \subseteq Windows
  BY ItemBound DEF Begin
<1>3. CASE op \in Closing /\ entry.state = "done"
  <2>1. Answer(w, r)
    BY <1>3 DEF Begin
  <2> HIDE DEF r
  <2> QED BY <1>1, <1>2, <2>1, AnswerTyped
<1>4. CASE ~(op \in Closing /\ entry.state = "done")
  <2> DEFINE q == IF op \in Gestures THEN [r EXCEPT !.at = at]
                  ELSE [r EXCEPT !.at = at, !.item = NewRequest.item, !.agreed = FALSE]
             u == [undo[w] EXCEPT !.last = FALSE]
  <2>1. request' = [request EXCEPT ![w] = q] /\ undo' = [undo EXCEPT ![w] = u]
    BY <1>4 DEF Begin, TypeInv, TypeOK
  <2>2. at \in {"source", "read"}
    OBVIOUS
  <2> HIDE DEF at, r
  <2>3. q \in Request /\ Marked(q) /\ Placed(q)
    <3>1. NewRequest.item \in Entry
      BY NewIsRequest DEF Request
    <3>2. op # "" /\ op # "undo"
      BY DEF Asked, Ops, Goal, Naming
    <3> QED BY <1>1, <2>2, <3>1, <3>2 DEF Request, Marked, Placed
  <2>4. u \in Undo /\ Marked(u)
    BY StepsTyped DEF Undo, Marked
  <2> HIDE DEF q, u
  <2> QED BY <1>2, <2>1, <2>3, <2>4, RestTyped
<1> QED BY <1>3, <1>4

LEMMA BeginUndoTyped ==
  ASSUME TypeInv, NEW w \in Windows, BeginUndo(w)
  PROVE  TypeInv'
<1> DEFINE u == undo[w]
           r == [NewRequest EXCEPT !.op = "undo", !.to = u.item.state, !.item = u.item,
                                   !.md = u.md, !.mail = u.mail, !.agreed = u.agreed,
                                   !.syncError = u.syncError]
           at == IF AsksFirst(r) THEN "source" ELSE "restore"
           q == [r EXCEPT !.at = at]
<1> USE BaseTyped
<1>1. u \in Undo /\ Marked(u)
  BY StepsTyped
<1>2. r \in Request /\ Marked(r) /\ r.op = "undo"
  <2>1. u.item.state \in States
    BY <1>1 DEF Undo, Entry
  <2> QED BY <1>1, <2>1, NewIsRequest DEF Request, Marked, Undo
<1>3. at \in {"source", "restore"}
  OBVIOUS
<1>4. request' = [request EXCEPT ![w] = q] /\ undo' = [undo EXCEPT ![w] = NoUndo]
      /\ UNCHANGED <<source, entry, remote, sent>> /\ alone' \subseteq Windows
  BY DEF BeginUndo
<1> HIDE DEF u, r, at
<1>5. q \in Request /\ Marked(q) /\ Placed(q)
  BY <1>2, <1>3 DEF Request, Marked, Placed
<1>6. NoUndo \in Undo /\ Marked(NoUndo)
  BY NoUndoIsUndo DEF Marked
<1> HIDE DEF q
<1> QED BY <1>4, <1>5, <1>6, RestTyped

LEMMA WitnessTyped ==
  ASSUME TypeInv, NEW w \in Windows, Witness(w)
  PROVE  alone' \subseteq Windows
BY BaseTyped DEF Witness

LEMMA AskSourceTyped ==
  ASSUME TypeInv, NEW w \in Windows, AskSource(w)
  PROVE  TypeInv'
<1> DEFINE r == request[w]
           ran == [r EXCEPT !.md = source = "markdown", !.mail = source = "email"]
<1> USE BaseTyped
<1>1. r \in Request
  BY StepsTyped
<1>2. ran \in Request /\ Marked(ran) /\ ran.op # "" /\ ran.op = r.op
  BY <1>1, StepsTyped DEF Request, Marked, Placed, AskSource
<1>3. remote' \in States
  <2>1. r.to \in States /\ "inbox" \in States
    BY <1>1 DEF Request, States
  <2> QED BY <2>1, CounterpartTypes DEF AskSource
<1>4. UNCHANGED <<source, entry, sent>> /\ alone' \subseteq Windows
  BY WitnessTyped DEF AskSource
<1>5. GoTo(w, ran, "parse") \/ GoTo(w, ran, ToRow(r))
  BY DEF AskSource
<1>6. ToRow(r) \in {"restore", "read"} /\ (ToRow(r) = "read" => r.op # "undo")
  BY DEF ToRow
<1> HIDE DEF ran, r
<1> QED BY <1>2, <1>3, <1>4, <1>5, <1>6, GoToTyped

LEMMA NoteStepTyped ==
  ASSUME TypeInv, NEW w \in Windows, ParseNote(w) \/ CheckNote(w) \/ MirrorNote(w)
  PROVE  TypeInv'
<1> DEFINE r == request[w]
<1> USE BaseTyped
<1>1. r \in Request /\ Marked(r) /\ r.op # "" /\ UNCHANGED <<source, remote, sent>>
  BY StepsTyped DEF ParseNote, CheckNote, MirrorNote, Placed
<1>2. CASE ParseNote(w)
  <2> DEFINE q == [r EXCEPT !.note = remote]
  <2>1. q \in Request /\ Marked(q) /\ q.op = r.op
    BY <1>1 DEF Request, Marked
  <2>2. GoTo(w, q, "check") /\ UNCHANGED <<entry, alone>>
    BY <1>2 DEF ParseNote
  <2> HIDE DEF q
  <2> QED BY <1>1, <2>1, <2>2, GoToTyped
<1>3. CASE CheckNote(w)
  <2> DEFINE q == [r EXCEPT !.write = UpdateItem(entry.state, r.note), !.note = "inbox"]
  <2>1. q \in Request /\ Marked(q) /\ q.op = r.op
    <3>1. r.note \in States /\ entry.state \in States /\ "inbox" \in States
      BY <1>1 DEF Request, Entry, States
    <3>2. UpdateItem(entry.state, r.note) \in Change
      BY <3>1, ChangeTypes
    <3> QED BY <1>1, <3>1, <3>2 DEF Request, Marked
  <2>2. (GoTo(w, q, "mirror") \/ End(w)) /\ UNCHANGED <<entry, alone>>
    BY <1>3 DEF CheckNote
  <2> HIDE DEF q
  <2> QED BY <1>1, <2>1, <2>2, GoToTyped
<1>4. CASE MirrorNote(w)
  <2> DEFINE q == [r EXCEPT !.write = Untouched]
  <2>1. q \in Request /\ Marked(q) /\ q.op = r.op
    <3>1. Untouched \in Change
      BY DEF Untouched, Change
    <3> QED BY <1>1, <3>1 DEF Request, Marked
  <2>2. GoTo(w, q, ToRow(r)) /\ alone' \subseteq Windows
    BY <1>4, WitnessTyped DEF MirrorNote
  <2>3. entry' \in Entry
    BY <1>1, <1>4, UpdatedIsEntry DEF MirrorNote, Request
  <2>4. ToRow(r) \in {"restore", "read"} /\ (ToRow(r) = "read" => r.op # "undo")
    BY DEF ToRow
  <2> HIDE DEF q, r
  <2> QED BY <1>1, <2>1, <2>2, <2>3, <2>4, GoToTyped
<1> QED BY <1>2, <1>3, <1>4

LEMMA CallFailsTyped ==
  ASSUME TypeInv, NEW w \in Windows, CallFails(w)
  PROVE  TypeInv'
<1> USE BaseTyped
<1>1. remote' \in States
  <2>1. request[w].to \in States
    BY StepsTyped DEF Request
  <2> QED BY <2>1, CounterpartTypes DEF CallFails
<1>2. UNCHANGED <<source, entry, sent>> /\ alone' \subseteq Windows /\ End(w)
  BY DEF CallFails
<1>3. request[w] \in Request /\ Marked(request[w]) /\ request[w].op # ""
  BY StepsTyped DEF Placed, CallFails
<1> QED BY <1>1, <1>2, <1>3, GoToTyped

LEMMA ReadRowTyped ==
  ASSUME TypeInv, NEW w \in Windows, ReadRow(w)
  PROVE  TypeInv'
<1> DEFINE r == request[w]
           q == [r EXCEPT !.write = Write(r, entry), !.to = "inbox",
                          !.actor = NoActor, !.follow = FALSE]
<1> USE BaseTyped
<1>1. r \in Request /\ Marked(r) /\ r.op \in Ops
  BY StepsTyped DEF ReadRow, Placed, Request
<1>2. r.op # "" /\ r.op # "undo"
  BY <1>1 DEF Ops, Goal, Naming
<1>3. Write(r, entry) \in Change
  BY <1>1, WriteIsChange
<1>4. q \in Request /\ Marked(q) /\ q.op = r.op
  BY <1>1, <1>3 DEF Request, Marked, States
<1>5. (GoTo(w, q, "save") \/ End(w)) /\ UNCHANGED <<source, entry, remote, alone, sent>>
  BY DEF ReadRow
<1> HIDE DEF q, r
<1> QED BY <1>2, <1>4, <1>5, GoToTyped

LEMMA SaveRowTyped ==
  ASSUME TypeInv, NEW w \in Windows, SaveRow(w)
  PROVE  TypeInv'
<1> DEFINE r == request[w]
           q == [r EXCEPT !.write = Untouched, !.at = "after"]
<1> USE BaseTyped
<1>1. r \in Request /\ Marked(r) /\ r.op # ""
  BY StepsTyped DEF SaveRow, Placed
<1>2. entry' \in Entry /\ UNCHANGED <<source, remote, sent>> /\ alone' \subseteq Windows
  BY <1>1, UpdatedIsEntry, WitnessTyped DEF SaveRow, Request
<1>3. CASE AsksAfter(r)
  <2>1. q \in Request /\ Marked(q) /\ Placed(q)
    <3>1. Untouched \in Change
      BY DEF Untouched, Change
    <3> QED BY <1>1, <1>3, <3>1 DEF Request, Marked, Placed, AsksAfter
  <2>2. request' = [request EXCEPT ![w] = q] /\ undo' = [undo EXCEPT ![w] = undo[w]]
    BY <1>1, <1>3 DEF SaveRow, GoTo, TypeInv, TypeOK, Request
  <2>3. undo[w] \in Undo /\ Marked(undo[w])
    BY StepsTyped
  <2> HIDE DEF q, r
  <2> QED BY <1>2, <2>1, <2>2, <2>3, RestTyped
<1>4. CASE ~AsksAfter(r)
  BY <1>1, <1>2, <1>4, AnswerTyped DEF SaveRow
<1> QED BY <1>3, <1>4

LEMMA TellSourceTyped ==
  ASSUME TypeInv, NEW w \in Windows, TellSource(w)
  PROVE  TypeInv'
<1> DEFINE r == request[w]
           q == [r EXCEPT !.mail = source = "email"]
           failed == [r EXCEPT !.syncError = TRUE]
<1> USE BaseTyped
<1>1. r \in Request /\ Marked(r) /\ UNCHANGED <<source, entry, sent>>
  BY StepsTyped DEF TellSource
<1>2. q \in Request /\ Marked(q) /\ failed \in Request /\ Marked(failed)
  BY <1>1 DEF Request, Marked
<1>3. remote' \in States /\ alone' \subseteq Windows
  BY WitnessTyped DEF TellSource, States
<1>4. Answer(w, q) \/ Answer(w, failed)
  BY DEF TellSource
<1> HIDE DEF q, failed, r
<1> QED BY <1>1, <1>2, <1>3, <1>4, AnswerTyped

LEMMA RestoreTyped ==
  ASSUME TypeInv, NEW w \in Windows, Restore(w)
  PROVE  TypeInv'
<1> USE BaseTyped
<1>1. request[w] \in Request /\ Marked(request[w]) /\ request[w].op # ""
  BY StepsTyped DEF Restore, Placed
<1>2. entry' \in Entry /\ UNCHANGED <<source, remote, sent>> /\ alone' \subseteq Windows
      /\ End(w)
  BY <1>1, WitnessTyped DEF Restore, Request
<1> QED BY <1>1, <1>2, GoToTyped

\* The steps of nobody's window.
LEMMA OutsideTyped ==
  ASSUME TypeInv, Resurface \/ Edit
  PROVE  TypeInv'
<1>1. UNCHANGED <<source, request, undo, sent>> /\ alone' = {}
  BY DEF Resurface, Edit
<1>2. entry' \in Entry /\ remote' \in States
  <2>1. CASE Resurface
    BY <2>1, BaseTyped DEF Resurface, Entry, States
  <2>2. CASE Edit
    BY <2>2, BaseTyped, ItemStates, CounterpartTypes DEF Edit
  <2> QED BY <2>1, <2>2
<1> QED BY <1>1, <1>2 DEF TypeInv, TypeOK, MarkersInv, Marked, Placed

\* Next, window by window.
LEMMA Steps ==
  ASSUME TypeInv, Next
  PROVE  \/ \E w \in Windows : \E op, to, actor, follow :
              Asked(op, to, actor, follow) /\ Begin(w, op, to, actor, follow)
         \/ \E w \in Windows : BeginUndo(w)
         \/ \E w \in Windows : RequestStep(w)
         \/ Resurface \/ Edit
<1>1. CASE \E w \in Windows, op \in Ops :
             \E to \in (IF op \in Naming THEN Targets ELSE {Goal[op]}),
                actor \in (IF op \in {"delegate", "triageDelegate", "assign", "completeBy"}
                           THEN Actors ELSE {NoActor}),
                follow \in (IF op \in {"delegate", "update"} THEN BOOLEAN ELSE {FALSE}) :
               Begin(w, op, to, actor, follow)
  <2>1. PICK w \in Windows, op \in Ops :
             \E to \in (IF op \in Naming THEN Targets ELSE {Goal[op]}),
                actor \in (IF op \in {"delegate", "triageDelegate", "assign", "completeBy"}
                           THEN Actors ELSE {NoActor}),
                follow \in (IF op \in {"delegate", "update"} THEN BOOLEAN ELSE {FALSE}) :
               Begin(w, op, to, actor, follow)
    BY <1>1
  <2>2. PICK to \in (IF op \in Naming THEN Targets ELSE {Goal[op]}),
             actor \in (IF op \in {"delegate", "triageDelegate", "assign", "completeBy"}
                        THEN Actors ELSE {NoActor}),
             follow \in (IF op \in {"delegate", "update"} THEN BOOLEAN ELSE {FALSE}) :
               Begin(w, op, to, actor, follow)
    BY <2>1
  <2>3. to \in States
    <3>1. CASE op \in Naming
      BY <2>2, <3>1, ItemStates
    <3>2. CASE op \notin Naming
      BY <2>2, <3>2, GoalStates DEF Ops
    <3> QED BY <3>1, <3>2
  <2>4. Asked(op, to, actor, follow)
    BY <2>2, <2>3 DEF Asked
  <2> QED BY <2>2, <2>4
<1> QED BY <1>1 DEF Next

LEMMA TypeNext == TypeInv /\ [Next]_vars => TypeInv'
<1> SUFFICES ASSUME TypeInv, [Next]_vars PROVE TypeInv'
  OBVIOUS
<1>1. CASE Next
  <2>1. CASE \E w \in Windows : \E op, to, actor, follow :
               Asked(op, to, actor, follow) /\ Begin(w, op, to, actor, follow)
    BY <2>1, BeginTyped
  <2>2. CASE \E w \in Windows : BeginUndo(w)
    BY <2>2, BeginUndoTyped
  <2>3. ASSUME NEW w \in Windows, RequestStep(w) PROVE TypeInv'
    BY <2>3, AskSourceTyped, NoteStepTyped, CallFailsTyped, ReadRowTyped, SaveRowTyped,
       TellSourceTyped, RestoreTyped DEF RequestStep
  <2> QED BY <1>1, <2>1, <2>2, <2>3, OutsideTyped, Steps
<1>2. CASE UNCHANGED vars
  BY <1>2 DEF vars, TypeInv, TypeOK, MarkersInv, Marked, Placed
<1> QED BY <1>1, <1>2

LEMMA TypeInit == Init => TypeInv
<1> SUFFICES ASSUME Init PROVE TypeInv
  OBVIOUS
<1>1. entry \in Entry /\ remote \in States
  BY ItemStates, BlankEntry, CounterpartTypes DEF Init, Blank
<1>2. request \in [Windows -> Request] /\ undo \in [Windows -> Undo]
      /\ \A w \in Windows : request[w] = NewRequest /\ undo[w] = NoUndo
  BY NewIsRequest, NoUndoIsUndo DEF Init
<1>3. NewRequest.at = "idle"
  BY DEF NewRequest
<1>4. \A w \in Windows : ~request[w].md /\ ~request[w].mail /\ ~undo[w].md /\ ~undo[w].mail
  BY <1>2, NewIsRequest, NoUndoIsUndo
<1>5. alone \subseteq Windows /\ sent \in 0..MaxRequests /\ source \in Sources
  BY ItemBound DEF Init
<1> QED BY <1>1, <1>2, <1>3, <1>4, <1>5 DEF TypeInv, TypeOK, MarkersInv, Marked, Placed, Undo

\* Every reachable state is typed, and no snapshot remembers two sources.
THEOREM Typed == Spec => []TypeOK
<1>1. TypeInv => TypeOK
  BY DEF TypeInv
<1> QED BY TypeInit, TypeNext, <1>1, PTL DEF Spec

-----------------------------------------------------------------------------

\* What a window's request r may say of the state its gesture found: a closing gesture
\* goes on only with an item that was not done, and so does whatever tells a mailbox.
\* A task is only ever told that it is done.
Found(r) ==
  /\ source = "todoist" /\ r.at = "source" => r.to = "done"
  /\ r.op \in Closing \/ r.op \notin Gestures \cup {"undo"} => r.item.state # "done"
  /\ source = "email" /\ (r.at = "source" \/ r.mail) => r.item.state # "done"
  /\ r.op = "undo" => r.to = r.item.state
  /\ r.at = "after" => r.op = "complete"

\* What the snapshot u says, and that no request is under way while it is the latest.
Snapped(w) ==
  /\ undo[w].mail => undo[w].item.state # "done"
  /\ request[w].at # "idle" => ~undo[w].last

\* Status s of the source agrees with the state in x, or the source stays done.
AgreesWith(x, s) ==
  x.agreed => s = Counterpart(x.item.state) \/ (MayStayDone(x) /\ s = "done")
Untold(x, s) == ~x.md /\ ~x.mail => AgreesWith(x, s)

\* What holds while nothing but window w's gesture and its undo change anything.
Alone(w) ==
  source # "local" =>
    /\ request[w].op \in Gestures => Untold(request[w], remote)
    /\ undo[w].on /\ undo[w].last => Untold(undo[w], remote)
    /\ request[w].op = "undo" /\ request[w].at # "source" => AgreesWith(request[w], remote)

Keeps(w) == Found(request[w]) /\ Snapped(w) /\ (w \in alone => Alone(w))
KeepInv == \A w \in Windows : Keeps(w)

\* A window that does not step keeps what it has, for it is alone only if nothing changed.
LEMMA Aside ==
  ASSUME NEW w \in Windows, Keeps(w), source' = source,
         request'[w] = request[w], undo'[w] = undo[w],
         w \in alone' => w \in alone /\ remote' = remote
  PROVE  Keeps(w)'
<1>1. CASE w \in alone'
  BY <1>1 DEF Keeps, Found, Snapped, Alone, Untold, AgreesWith, MayStayDone, Counterpart
<1>2. CASE w \notin alone'
  BY <1>2 DEF Keeps, Found, Snapped
<1> QED BY <1>1, <1>2

\* A step of window w, which has request q and undo u afterwards.
LEMMA StepKeeps ==
  ASSUME TypeInv, KeepInv, NEW w \in Windows, source' = source,
         NEW q, request' = [request EXCEPT ![w] = q],
         NEW u, undo' = [undo EXCEPT ![w] = u],
         \A v \in Windows \ {w} : v \in alone' => v \in alone /\ remote' = remote,
         Keeps(w)'
  PROVE  KeepInv'
<1> SUFFICES ASSUME NEW v \in Windows PROVE Keeps(v)'
  BY DEF KeepInv
<1>1. CASE v = w
  BY <1>1
<1>2. CASE v # w
  <2>1. request'[v] = request[v] /\ undo'[v] = undo[v]
    BY <1>2 DEF TypeInv, TypeOK
  <2> QED BY <1>2, <2>1, Aside DEF KeepInv
<1> QED BY <1>1, <1>2

LEMMA WitnessAside ==
  ASSUME TypeInv, NEW w \in Windows, Witness(w)
  PROVE  /\ \A v \in Windows \ {w} : v \in alone' => v \in alone /\ remote' = remote
         /\ w \in alone' => w \in alone
BY DEF Witness

\* A request that has ended says nothing.
LEMMA EndKeeps ==
  ASSUME TypeInv, KeepInv, NEW w \in Windows, source' = source,
         request[w].at # "idle", End(w),
         \A v \in Windows \ {w} : v \in alone' => v \in alone /\ remote' = remote
  PROVE  KeepInv'
<1>1. request' = [request EXCEPT ![w] = NewRequest] /\ undo' = [undo EXCEPT ![w] = undo[w]]
      /\ request'[w] = NewRequest /\ undo'[w] = undo[w]
  BY DEF End, TypeInv, TypeOK
<1>2. NewRequest.op = "" /\ NewRequest.at = "idle" /\ NewRequest.item.state = "inbox"
  BY DEF NewRequest, Blank
<1>3. ~undo[w].last /\ (undo[w].mail => undo[w].item.state # "done")
  BY DEF KeepInv, Keeps, Snapped
<1>4. Keeps(w)'
  BY <1>1, <1>2, <1>3 DEF Keeps, Found, Snapped, Alone, Gestures, Closing
<1> QED BY <1>1, <1>4, StepKeeps

\* A gesture that is answered leaves a snapshot that says what it did.
LEMMA AnswerKeeps ==
  ASSUME TypeInv, KeepInv, NEW w \in Windows, source' = source,
         NEW r, Answer(w, r), r.op \in Gestures \/ ~undo[w].last,
         r.op \in Gestures /\ r.mail => r.item.state # "done",
         r.op \in Gestures /\ w \in alone' /\ source # "local" => Untold(r, remote'),
         \A v \in Windows \ {w} : v \in alone' => v \in alone /\ remote' = remote
  PROVE  KeepInv'
<1>1. request' = [request EXCEPT ![w] = NewRequest] /\ request'[w] = NewRequest
  BY DEF Answer, TypeInv, TypeOK
<1>2. NewRequest.op = "" /\ NewRequest.at = "idle" /\ NewRequest.item.state = "inbox"
  BY DEF NewRequest, Blank
<1>3. CASE r.op \in Gestures
  <2> DEFINE u == [on |-> TRUE, last |-> TRUE, item |-> r.item, md |-> r.md,
                   mail |-> r.mail, agreed |-> r.agreed, syncError |-> r.syncError]
  <2>1. undo' = [undo EXCEPT ![w] = u] /\ undo'[w] = u
    BY <1>3 DEF Answer, TypeInv, TypeOK
  <2>2. /\ u.on /\ u.last /\ u.item = r.item /\ u.md = r.md /\ u.mail = r.mail
        /\ u.agreed = r.agreed /\ u.syncError = r.syncError
    OBVIOUS
  <2> HIDE DEF u
  <2>3. Keeps(w)'
    BY <1>1, <1>2, <1>3, <2>1, <2>2
       DEF Keeps, Found, Snapped, Alone, Untold, AgreesWith, MayStayDone, Counterpart,
           Gestures, Closing
  <2> QED BY <1>1, <2>1, <2>3, StepKeeps
<1>4. CASE r.op \notin Gestures
  <2>1. undo' = [undo EXCEPT ![w] = undo[w]] /\ undo'[w] = undo[w]
    BY <1>4 DEF Answer, TypeInv, TypeOK
  <2>2. ~undo[w].last /\ (undo[w].mail => undo[w].item.state # "done")
    BY <1>4 DEF KeepInv, Keeps, Snapped
  <2>3. Keeps(w)'
    BY <1>1, <1>2, <2>1, <2>2 DEF Keeps, Found, Snapped, Alone, Gestures, Closing
  <2> QED BY <1>1, <2>1, <2>3, StepKeeps
<1> QED BY <1>3, <1>4

\* A request that goes on from r, past the source.
LEMMA GoToKeeps ==
  ASSUME TypeInv, KeepInv, NEW w \in Windows, source' = source, request[w].at # "idle",
         NEW r \in Request, NEW at, GoTo(w, r, at),
         at \in {"parse", "check", "mirror", "read", "save", "after", "restore"},
         at = "after" => r.op = "complete",
         r.op \in Closing \/ r.op \notin Gestures \cup {"undo"} => r.item.state # "done",
         source = "email" /\ r.mail => r.item.state # "done",
         r.op = "undo" => r.to = r.item.state,
         w \in alone' /\ source # "local"
           => /\ r.op \in Gestures => Untold(r, remote')
              /\ r.op = "undo" => AgreesWith(r, remote'),
         \A v \in Windows \ {w} : v \in alone' => v \in alone /\ remote' = remote
  PROVE  KeepInv'
<1> DEFINE q == [r EXCEPT !.at = at]
<1>1. request' = [request EXCEPT ![w] = q] /\ undo' = [undo EXCEPT ![w] = undo[w]]
      /\ request'[w] = q /\ undo'[w] = undo[w]
  BY DEF GoTo, TypeInv, TypeOK
<1>2. /\ q.at = at /\ q.op = r.op /\ q.to = r.to /\ q.item = r.item /\ q.md = r.md
      /\ q.mail = r.mail /\ q.agreed = r.agreed /\ q.syncError = r.syncError
  BY DEF Request
<1>3. ~undo[w].last /\ (undo[w].mail => undo[w].item.state # "done")
  BY DEF KeepInv, Keeps, Snapped
<1> HIDE DEF q
<1>4. Found(q)'
  BY <1>2 DEF Found
<1>5. w \in alone' /\ source # "local"
        => /\ q.op \in Gestures => Untold(q, remote')
           /\ q.op = "undo" => AgreesWith(q, remote')
  BY <1>2 DEF Untold, AgreesWith, MayStayDone, Counterpart
<1>6. Keeps(w)'
  BY <1>1, <1>3, <1>4, <1>5
     DEF Keeps, Snapped, Alone, Untold, AgreesWith, MayStayDone, Counterpart
<1> QED BY <1>1, <1>6, StepKeeps

\* What is known of a request that is under way.
LEMMA UnderWay ==
  ASSUME TypeInv, KeepInv, NEW w \in Windows, request[w].at # "idle"
  PROVE  /\ request[w] \in Request /\ Marked(request[w]) /\ Found(request[w])
         /\ ~undo[w].last /\ (w \in alone => Alone(w))
BY StepsTyped DEF KeepInv, Keeps, Snapped

LEMMA BeginKeeps ==
  ASSUME TypeInv, KeepInv, NEW w \in Windows, NEW op, NEW to, NEW actor, NEW follow,
         Asked(op, to, actor, follow), Begin(w, op, to, actor, follow)
  PROVE  KeepInv'
<1> DEFINE r == [NewRequest EXCEPT !.op = op, !.to = to, !.actor = actor,
                                   !.follow = follow, !.item = entry, !.agreed = Agrees]
           at == IF AsksFirst(r) THEN "source" ELSE "read"
<1>1. UNCHANGED <<source, entry, remote>>
      /\ alone' = (IF op \in Gestures THEN alone \cup {w} ELSE alone)
  BY DEF Begin
<1>2. \A v \in Windows \ {w} : v \in alone' => v \in alone /\ remote' = remote
  BY <1>1
<1>3. /\ r.op = op /\ r.item = entry /\ r.agreed = Agrees /\ ~r.md /\ ~r.mail
      /\ NewRequest.item.state = "inbox"
  BY DEF NewRequest, Blank
<1>4. op # "undo"
  BY DEF Asked, Ops, Goal, Naming
<1>5. source # "local" /\ Agrees => remote = Counterpart(entry.state)
  BY DEF Agrees
<1>6. CASE op \in Closing /\ entry.state = "done"
  <2>1. Answer(w, r) /\ op \in Gestures
    BY <1>6 DEF Begin, Closing, Gestures
  <2> HIDE DEF r
  <2>2. source # "local" => Untold(r, remote')
    BY <1>1, <1>3, <1>5 DEF Untold, AgreesWith, Counterpart
  <2> QED BY <1>1, <1>2, <1>3, <2>1, <2>2, AnswerKeeps
<1>7. CASE ~(op \in Closing /\ entry.state = "done")
  <2> DEFINE q == IF op \in Gestures THEN [r EXCEPT !.at = at]
                  ELSE [r EXCEPT !.at = at, !.item = NewRequest.item, !.agreed = FALSE]
             u == [undo[w] EXCEPT !.last = FALSE]
  <2>1. request' = [request EXCEPT ![w] = q] /\ undo' = [undo EXCEPT ![w] = u]
    BY <1>7 DEF Begin, TypeInv, TypeOK
  <2>2. request'[w] = q /\ undo'[w] = u
    BY <2>1 DEF TypeInv, TypeOK
  <2>3. ~u.last /\ u.mail = undo[w].mail /\ u.item = undo[w].item
    BY StepsTyped DEF Undo
  <2>4. undo[w].mail => undo[w].item.state # "done"
    BY DEF KeepInv, Keeps, Snapped
  <2>5. /\ q.op = op /\ q.at = at /\ ~q.md /\ ~q.mail
        /\ op \in Gestures => q.item = entry /\ q.agreed = Agrees
        /\ op \notin Gestures => q.item.state = "inbox"
    BY <1>3 DEF NewRequest
  <2>6. at = "source" /\ source = "email" /\ op \in Gestures => entry.state # "done"
    BY <1>3, <1>4 DEF AsksFirst, MovesMail, Gestures
  <2>7. at \in {"source", "read"}
    OBVIOUS
  <2>8. at = "source" /\ source = "todoist" => q.to = "done"
    BY <1>3 DEF AsksFirst, ClosesTask, NewRequest
  <2> HIDE DEF q, u, at, r
  <2>9. Found(request[w])'
    BY <1>1, <1>4, <1>7, <2>2, <2>5, <2>6, <2>7, <2>8 DEF Found, Gestures, Closing
  <2>10. Keeps(w)'
    BY <1>1, <1>4, <1>5, <2>2, <2>3, <2>4, <2>5, <2>9
       DEF Keeps, Snapped, Alone, Untold, AgreesWith, Counterpart
  <2> QED BY <1>1, <1>2, <2>1, <2>10, StepKeeps
<1> QED BY <1>6, <1>7

LEMMA BeginUndoKeeps ==
  ASSUME TypeInv, KeepInv, NEW w \in Windows, BeginUndo(w)
  PROVE  KeepInv'
<1> DEFINE u == undo[w]
           r == [NewRequest EXCEPT !.op = "undo", !.to = u.item.state, !.item = u.item,
                                   !.md = u.md, !.mail = u.mail, !.agreed = u.agreed,
                                   !.syncError = u.syncError]
           at == IF AsksFirst(r) THEN "source" ELSE "restore"
           q == [r EXCEPT !.at = at]
<1>1. request' = [request EXCEPT ![w] = q] /\ undo' = [undo EXCEPT ![w] = NoUndo]
      /\ UNCHANGED <<source, entry, remote>> /\ u.on
      /\ alone' = (IF u.last THEN alone ELSE alone \ {w})
  BY DEF BeginUndo
<1>2. request'[w] = q /\ undo'[w] = NoUndo
  BY <1>1 DEF TypeInv, TypeOK
<1>3. ~NoUndo.mail /\ ~NoUndo.last /\ ~NoUndo.on
  BY DEF NoUndo
<1>4. u \in Undo /\ Marked(u) /\ Snapped(w) /\ (w \in alone => Alone(w))
  BY StepsTyped DEF KeepInv, Keeps
<1>5. /\ r.op = "undo" /\ r.to = u.item.state /\ r.item = u.item /\ r.md = u.md
      /\ r.mail = u.mail /\ r.agreed = u.agreed
  BY DEF NewRequest
<1>6. /\ q.op = "undo" /\ q.to = u.item.state /\ q.item = u.item /\ q.mail = u.mail
      /\ q.agreed = u.agreed /\ q.syncError = u.syncError /\ q.at = at
  BY DEF NewRequest
<1>7. (source = "email" /\ at = "source" => u.mail) /\ (source = "todoist" => at # "source")
  BY <1>5 DEF AsksFirst, MovesMail, ClosesTask
<1>8. at # "source" => ~u.md /\ ~u.mail
  BY <1>4, <1>5 DEF AsksFirst, MovesMail, WritesNote, Marked
<1>9. at \in {"source", "restore"}
  OBVIOUS
<1> HIDE DEF q, at, r
<1>10. Found(request[w])'
  BY <1>1, <1>2, <1>4, <1>6, <1>7, <1>9 DEF Found, Snapped, Closing
<1>11. w \in alone' /\ source # "local" /\ at # "source" => AgreesWith(request[w], remote)'
  <2>1. w \in alone' => w \in alone /\ u.last
    BY <1>1
  <2> QED BY <1>1, <1>2, <1>4, <1>6, <1>8, <2>1
         DEF Alone, Untold, AgreesWith, MayStayDone, Counterpart
<1>12. Keeps(w)'
  BY <1>1, <1>2, <1>3, <1>6, <1>10, <1>11 DEF Keeps, Snapped, Alone, Gestures
<1> QED BY <1>1, <1>12, StepKeeps

LEMMA AskSourceKeeps ==
  ASSUME TypeInv, KeepInv, NEW w \in Windows, AskSource(w)
  PROVE  KeepInv'
<1> DEFINE r == request[w]
           ran == [r EXCEPT !.md = source = "markdown", !.mail = source = "email"]
<1>1. /\ r.at = "source" /\ UNCHANGED <<source, entry, sent>> /\ Witness(w)
      /\ remote' = Counterpart(IF source = "email" /\ r.op = "undo" THEN "inbox" ELSE r.to)
      /\ GoTo(w, ran, "parse") \/ GoTo(w, ran, ToRow(r))
  BY DEF AskSource
<1>2. r \in Request /\ Found(r)
  BY <1>1, UnderWay
<1>3. /\ ran.op = r.op /\ ran.to = r.to /\ ran.item = r.item /\ ran.agreed = r.agreed
      /\ ran.md = (source = "markdown") /\ ran.mail = (source = "email") /\ ran \in Request
  BY <1>2 DEF Request
<1>4. ToRow(r) \in {"restore", "read"}
  BY DEF ToRow
<1>5. source = "email" => r.item.state # "done"
  BY <1>1, <1>2 DEF Found
<1>6. /\ r.op = "undo" /\ source \in {"markdown", "email"}
           => remote' = Counterpart(r.item.state)
      /\ source = "todoist" => remote' = "done"
  BY <1>1, <1>2, <1>5 DEF Found, Counterpart
<1>7. source # "local" => /\ ran.op \in Gestures => Untold(ran, remote')
                          /\ ran.op = "undo" => AgreesWith(ran, remote')
  <2>1. source \in {"local", "markdown", "email", "todoist"}
    BY BaseTyped, ItemSources
  <2> HIDE DEF ran, r
  <2> QED BY <1>1, <1>3, <1>6, <2>1
          DEF Untold, AgreesWith, MayStayDone, Counterpart, Gestures
<1>8. \A v \in Windows \ {w} : v \in alone' => v \in alone /\ remote' = remote
  BY <1>1, WitnessAside
<1>9. /\ ran.op \in Closing \/ ran.op \notin Gestures \cup {"undo"}
           => ran.item.state # "done"
      /\ source = "email" /\ ran.mail => ran.item.state # "done"
      /\ ran.op = "undo" => ran.to = ran.item.state
  BY <1>2, <1>3, <1>5 DEF Found
<1>10. PICK at \in {"parse", "restore", "read"} : GoTo(w, ran, at)
  BY <1>1, <1>4
<1>11. request[w].at # "idle" /\ source' = source /\ ran \in Request
  BY <1>1, <1>3
<1> HIDE DEF ran, r
<1> QED BY <1>7, <1>8, <1>9, <1>10, <1>11, GoToKeeps

\* Past the source a request keeps what it may say, as long as the source does not change.
LEMMA OnwardKeeps ==
  ASSUME TypeInv, KeepInv, NEW w \in Windows, UNCHANGED <<source, remote>>,
         request[w].at \notin {"idle", "source"},
         NEW r \in Request, NEW at, GoTo(w, r, at),
         at \in {"check", "mirror", "read", "save", "after", "restore"},
         at = "after" => r.op = "complete",
         r.op = request[w].op, r.item = request[w].item, r.agreed = request[w].agreed,
         r.md = request[w].md, r.mail = request[w].mail,
         r.syncError = request[w].syncError,
         r.op = "undo" => r.to = request[w].to,
         \A v \in Windows : v \in alone' => v \in alone
  PROVE  KeepInv'
<1>1. Found(request[w]) /\ (w \in alone => Alone(w)) /\ request[w].at # "idle"
  BY UnderWay
<1>2. w \in alone' /\ source # "local"
        => /\ r.op \in Gestures => Untold(r, remote')
           /\ r.op = "undo" => AgreesWith(r, remote')
  BY <1>1 DEF Alone, Untold, AgreesWith, MayStayDone, Counterpart
<1>3. /\ r.op \in Closing \/ r.op \notin Gestures \cup {"undo"} => r.item.state # "done"
      /\ source = "email" /\ r.mail => r.item.state # "done"
      /\ r.op = "undo" => r.to = r.item.state
  BY <1>1 DEF Found
<1> QED BY <1>1, <1>2, <1>3, GoToKeeps

LEMMA NoteStepKeeps ==
  ASSUME TypeInv, KeepInv, NEW w \in Windows, ParseNote(w) \/ CheckNote(w) \/ MirrorNote(w)
  PROVE  KeepInv'
<1> DEFINE r == request[w]
<1>1. /\ UNCHANGED <<source, remote>> /\ r.at \notin {"idle", "source"}
      /\ \A v \in Windows : v \in alone' => v \in alone
  BY DEF ParseNote, CheckNote, MirrorNote, Witness
<1>2. r \in Request
  BY StepsTyped
<1>3. CASE ParseNote(w)
  <2> DEFINE q == [r EXCEPT !.note = remote]
  <2>1. q \in Request /\ GoTo(w, q, "check")
    BY <1>2, <1>3, BaseTyped DEF Request, ParseNote
  <2>2. /\ q.op = r.op /\ q.item = r.item /\ q.agreed = r.agreed /\ q.md = r.md
        /\ q.mail = r.mail /\ q.to = r.to /\ q.syncError = r.syncError
    BY <1>2 DEF Request
  <2> HIDE DEF q
  <2> QED BY <1>1, <2>1, <2>2, OnwardKeeps
<1>4. CASE CheckNote(w)
  <2> DEFINE q == [r EXCEPT !.write = UpdateItem(entry.state, r.note), !.note = "inbox"]
  <2>1. q \in Request
    <3>1. r.note \in States /\ entry.state \in States /\ "inbox" \in States
      BY <1>2, BaseTyped DEF Request, Entry, States
    <3>2. UpdateItem(entry.state, r.note) \in Change
      BY <3>1, ChangeTypes
    <3> QED BY <1>2, <3>1, <3>2 DEF Request
  <2>2. GoTo(w, q, "mirror") \/ End(w)
    BY <1>4 DEF CheckNote
  <2>3. /\ q.op = r.op /\ q.item = r.item /\ q.agreed = r.agreed /\ q.md = r.md
        /\ q.mail = r.mail /\ q.to = r.to /\ q.syncError = r.syncError
    BY <1>2 DEF Request
  <2> HIDE DEF q
  <2>4. CASE GoTo(w, q, "mirror")
    BY <1>1, <2>1, <2>3, <2>4, OnwardKeeps
  <2>5. CASE End(w)
    BY <1>1, <2>5, EndKeeps
  <2> QED BY <2>2, <2>4, <2>5
<1>5. CASE MirrorNote(w)
  <2> DEFINE q == [r EXCEPT !.write = Untouched]
  <2>1. q \in Request /\ GoTo(w, q, ToRow(r))
    <3>1. Untouched \in Change
      BY DEF Untouched, Change
    <3> QED BY <1>2, <1>5, <3>1 DEF Request, MirrorNote
  <2>2. /\ q.op = r.op /\ q.item = r.item /\ q.agreed = r.agreed /\ q.md = r.md
        /\ q.mail = r.mail /\ q.to = r.to /\ q.syncError = r.syncError
    BY <1>2 DEF Request
  <2>3. ToRow(r) \in {"restore", "read"}
    BY DEF ToRow
  <2> HIDE DEF q
  <2> QED BY <1>1, <2>1, <2>2, <2>3, OnwardKeeps
<1> QED BY <1>3, <1>4, <1>5

LEMMA CallFailsKeeps ==
  ASSUME TypeInv, KeepInv, NEW w \in Windows, CallFails(w)
  PROVE  KeepInv'
<1>1. /\ request[w].at # "idle" /\ source' = source /\ End(w)
      /\ \A v \in Windows \ {w} : v \in alone' => v \in alone /\ remote' = remote
  BY DEF CallFails
<1> QED BY <1>1, EndKeeps

LEMMA ReadRowKeeps ==
  ASSUME TypeInv, KeepInv, NEW w \in Windows, ReadRow(w)
  PROVE  KeepInv'
<1> DEFINE r == request[w]
           q == [r EXCEPT !.write = Write(r, entry), !.to = "inbox",
                          !.actor = NoActor, !.follow = FALSE]
<1>1. /\ r.at = "read" /\ UNCHANGED <<source, remote, alone>>
      /\ GoTo(w, q, "save") \/ End(w)
  BY DEF ReadRow
<1>2. r \in Request /\ r.op \in Ops /\ r.op # "undo"
  BY <1>1, StepsTyped DEF Placed, Request
<1>3. q \in Request
  BY <1>2, WriteIsChange, BaseTyped DEF Request, States
<1>4. /\ q.op = r.op /\ q.item = r.item /\ q.agreed = r.agreed /\ q.md = r.md
      /\ q.mail = r.mail /\ q.syncError = r.syncError
  BY <1>2 DEF Request
<1> HIDE DEF q
<1>5. CASE GoTo(w, q, "save")
  BY <1>1, <1>2, <1>3, <1>4, <1>5, OnwardKeeps
<1>6. CASE End(w)
  BY <1>1, <1>6, EndKeeps
<1> QED BY <1>1, <1>5, <1>6

LEMMA SaveRowKeeps ==
  ASSUME TypeInv, KeepInv, NEW w \in Windows, SaveRow(w)
  PROVE  KeepInv'
<1> DEFINE r == request[w]
           q == [r EXCEPT !.write = Untouched]
<1>1. /\ r.at = "save" /\ UNCHANGED <<source, remote>> /\ Witness(w)
      /\ \A v \in Windows : v \in alone' => v \in alone
  BY DEF SaveRow, Witness
<1>2. r \in Request /\ Found(r) /\ ~undo[w].last /\ (w \in alone => Alone(w)) /\ Marked(r)
  BY <1>1, UnderWay
<1>3. CASE AsksAfter(r)
  <2>1. q \in Request /\ GoTo(w, q, "after") /\ r.op = "complete"
    <3>1. Untouched \in Change
      BY DEF Untouched, Change
    <3> QED BY <1>2, <1>3, <3>1 DEF Request, SaveRow, AsksAfter
  <2>2. /\ q.op = r.op /\ q.item = r.item /\ q.agreed = r.agreed /\ q.md = r.md
        /\ q.mail = r.mail /\ q.to = r.to /\ q.syncError = r.syncError
    BY <1>2 DEF Request
  <2> HIDE DEF q
  <2> QED BY <1>1, <2>1, <2>2, OnwardKeeps
<1>4. CASE ~AsksAfter(r)
  <2>1. Answer(w, r)
    BY <1>4 DEF SaveRow
  <2>2. r.op \in Gestures /\ r.mail => r.item.state # "done"
    BY <1>2 DEF Found, Marked
  <2>3. r.op \in Gestures /\ w \in alone' /\ source # "local" => Untold(r, remote')
    BY <1>1, <1>2 DEF Alone, Untold, AgreesWith, MayStayDone, Counterpart
  <2>4. \A v \in Windows \ {w} : v \in alone' => v \in alone /\ remote' = remote
    BY <1>1
  <2> QED BY <1>1, <1>2, <2>1, <2>2, <2>3, <2>4, AnswerKeeps
<1> QED BY <1>3, <1>4

LEMMA TellSourceKeeps ==
  ASSUME TypeInv, KeepInv, NEW w \in Windows, TellSource(w)
  PROVE  KeepInv'
<1> DEFINE r == request[w]
           q == [r EXCEPT !.mail = source = "email"]
           failed == [r EXCEPT !.syncError = TRUE]
<1>1. r.at = "after" /\ UNCHANGED <<source, entry, sent>> /\ Witness(w)
      /\ remote' \in {remote, "done"}
  BY DEF TellSource
<1>2. r \in Request /\ Found(r) /\ ~undo[w].last /\ (w \in alone => Alone(w))
  BY <1>1, UnderWay
<1>3. r.op = "complete" /\ r.item.state # "done" /\ source \in {"email", "todoist"}
  BY <1>1, <1>2, StepsTyped DEF Found, Closing, Placed
<1>4. /\ q.op = r.op /\ q.item = r.item /\ q.mail = (source = "email")
      /\ failed.op = r.op /\ failed.item = r.item /\ failed.agreed = r.agreed
      /\ failed.md = r.md /\ failed.mail = r.mail /\ failed.syncError
  BY <1>2 DEF Request
<1>5. (\A v \in Windows \ {w} : v \in alone' => v \in alone /\ remote' = remote)
      /\ (w \in alone' => w \in alone)
  BY <1>1, WitnessAside
<1>6. CASE remote' = "done" /\ Answer(w, q)
  <2>1. Untold(q, remote')
    BY <1>1, <1>3, <1>4, <1>6 DEF Untold, AgreesWith, MayStayDone
  <2> HIDE DEF q
  <2> QED BY <1>1, <1>2, <1>3, <1>4, <1>5, <1>6, <2>1, AnswerKeeps
<1>7. CASE Answer(w, failed)
  <2>1. w \in alone' => Untold(failed, remote')
    BY <1>1, <1>2, <1>3, <1>4, <1>5
       DEF Alone, Untold, AgreesWith, MayStayDone, Counterpart, Gestures
  <2>2. source = "email" /\ failed.mail => failed.item.state # "done"
    BY <1>3, <1>4
  <2> HIDE DEF failed
  <2> QED BY <1>1, <1>2, <1>3, <1>4, <1>5, <1>7, <2>1, <2>2, AnswerKeeps
<1> QED BY <1>6, <1>7 DEF TellSource

LEMMA RestoreKeeps ==
  ASSUME TypeInv, KeepInv, NEW w \in Windows, Restore(w)
  PROVE  KeepInv'
<1>1. request[w].at # "idle" /\ source' = source /\ End(w) /\ Witness(w)
  BY DEF Restore
<1> QED BY <1>1, WitnessAside, EndKeeps

LEMMA OutsideKeeps ==
  ASSUME TypeInv, KeepInv, Resurface \/ Edit
  PROVE  KeepInv'
<1>1. UNCHANGED <<source, request, undo>> /\ alone' = {}
  BY DEF Resurface, Edit
<1> QED BY <1>1, Aside DEF KeepInv

LEMMA KeepNext == TypeInv /\ KeepInv /\ [Next]_vars => KeepInv'
<1> SUFFICES ASSUME TypeInv, KeepInv, [Next]_vars PROVE KeepInv'
  OBVIOUS
<1>1. CASE Next
  <2>1. CASE \E w \in Windows : \E op, to, actor, follow :
               Asked(op, to, actor, follow) /\ Begin(w, op, to, actor, follow)
    BY <2>1, BeginKeeps
  <2>2. CASE \E w \in Windows : BeginUndo(w)
    BY <2>2, BeginUndoKeeps
  <2>3. ASSUME NEW w \in Windows, RequestStep(w) PROVE KeepInv'
    BY <2>3, AskSourceKeeps, NoteStepKeeps, CallFailsKeeps, ReadRowKeeps, SaveRowKeeps,
       TellSourceKeeps, RestoreKeeps DEF RequestStep
  <2> QED BY <1>1, <2>1, <2>2, <2>3, OutsideKeeps, Steps
<1>2. CASE UNCHANGED vars
  <2>1. UNCHANGED <<source, remote, request, undo, alone>>
    BY <1>2 DEF vars
  <2> QED BY <2>1, Aside DEF KeepInv
<1> QED BY <1>1, <1>2

LEMMA KeepInit == Init => KeepInv
<1> SUFFICES ASSUME Init, NEW w \in Windows PROVE Keeps(w)
  BY DEF KeepInv
<1>1. request[w] = NewRequest /\ undo[w] = NoUndo /\ w \notin alone
  BY DEF Init
<1>2. NewRequest.op = "" /\ NewRequest.at = "idle" /\ NewRequest.item.state = "inbox"
      /\ ~NoUndo.mail /\ ~NoUndo.last
  BY DEF NewRequest, Blank, NoUndo
<1> QED BY <1>1, <1>2 DEF Keeps, Found, Snapped, Closing

\* While nothing but a gesture and its undo change anything, a snapshot with neither marker
\* means that the source, if it agreed with the row, does so still, or that it stays done:
\* the task of Todoist, or the message of a gesture that reported a sync error.
THEOREM SnapshotsAreTrue == Spec => [](TypeInv /\ KeepInv)
BY TypeInit, KeepInit, TypeNext, KeepNext, PTL DEF Spec

\* Only Restore ends an undo that has come to the row.
LEMMA RestoreEnds ==
  ASSUME TypeInv, Next, NEW w \in Windows, request[w].at = "restore",
         request'[w] # request[w]
  PROVE  Restore(w) \/ alone' = {}
<1>1. ASSUME NEW v \in Windows, NEW q, request' = [request EXCEPT ![v] = q] PROVE v = w
  BY <1>1 DEF TypeInv, TypeOK
<1>2. CASE \E v \in Windows : \E op, to, actor, follow :
             Asked(op, to, actor, follow) /\ Begin(v, op, to, actor, follow)
  <2>1. PICK v \in Windows : \E op, to, actor, follow : Begin(v, op, to, actor, follow)
    BY <1>2
  <2>2. v = w
    BY <1>1, <2>1 DEF Begin, Answer
  <2> QED BY <2>1, <2>2 DEF Begin
<1>3. CASE \E v \in Windows : BeginUndo(v)
  <2>1. PICK v \in Windows : BeginUndo(v)
    BY <1>3
  <2>2. v = w
    BY <1>1, <2>1 DEF BeginUndo
  <2> QED BY <2>1, <2>2 DEF BeginUndo
<1>4. CASE \E v \in Windows : RequestStep(v)
  <2>1. PICK v \in Windows : RequestStep(v)
    BY <1>4
  <2>2. v = w
    BY <1>1, <2>1 DEF RequestStep, AskSource, ParseNote, CheckNote, MirrorNote, CallFails,
                      ReadRow, SaveRow, TellSource, Restore, GoTo, End, Answer
  <2> QED BY <2>1, <2>2 DEF RequestStep, AskSource, ParseNote, CheckNote, MirrorNote,
                            CallFails, ReadRow, SaveRow, TellSource
<1>5. CASE Resurface \/ Edit
  BY <1>5 DEF Resurface, Edit
<1> QED BY <1>2, <1>3, <1>4, <1>5, Steps

\* An undo that is answered restores the row, and the source where it agreed with the row
\* when the gesture came, but for a task and a message that stay done: see UndoRestores.
\* For any windows and any number of requests.
THEOREM UndoesRestore == Spec => UndoRestores
<1> DEFINE Restored(w) ==
      /\ entry' = request[w].item
      /\ request[w].agreed
           => Agrees' \/ (MayStayDone(request[w]) /\ remote' = "done")
<1>1. ASSUME TypeInv, KeepInv, [Next]_vars, NEW w \in Windows, UndoEnds(w),
             request[w].at = "restore"
      PROVE  Restored(w)
  <2>1. Restore(w)
    <3>1. request'[w] # request[w] /\ alone' # {}
      BY <1>1 DEF UndoEnds
    <3>2. Next
      BY <1>1, <3>1 DEF vars
    <3> QED BY <1>1, <3>1, <3>2, RestoreEnds
  <2>2. entry' = request[w].item /\ UNCHANGED <<source, remote>> /\ w \in alone
        /\ request[w].op = "undo"
    BY <1>1, <2>1 DEF Restore, Witness, UndoEnds
  <2>3. Alone(w)
    BY <1>1, <2>2 DEF KeepInv, Keeps
  <2>4. CASE source = "local"
    BY <2>2, <2>4 DEF Agrees
  <2>5. CASE source # "local"
    <3>1. AgreesWith(request[w], remote)
      BY <1>1, <2>2, <2>3, <2>5 DEF Alone
    <3> QED BY <2>2, <3>1 DEF Agrees, AgreesWith, Counterpart
  <2> QED BY <2>4, <2>5
<1>2. TypeInv /\ KeepInv /\ [Next]_vars
        => [\A w \in Windows : UndoEnds(w) /\ request[w].at = "restore" => Restored(w)]_vars
  BY <1>1
<1> QED BY <1>2, SnapshotsAreTrue, PTL DEF Spec, UndoRestores

-----------------------------------------------------------------------------
(* The gestures beside the turn and the companion.                         *)

\* Of a behaviour of the three, what is the item's is a behaviour of the gestures.
LEMMA ItemPart == MCSpec => Spec
<1>1. MCInit => Init
  BY DEF MCInit
<1>2. [MCNext]_<<part, vars, callVars, companionVars>> => [Next]_vars
  BY DEF MCNext
<1>. QED
  BY <1>1, <1>2, PTL DEF MCSpec, Spec

\* What is the call's is a behaviour of the turn.
LEMMA TurnPart == MCSpec => Turn!Spec
<1>1. MCInit => Turn!Init
  BY DEF MCInit
<1>2. [MCNext]_<<part, vars, callVars, companionVars>> => [Turn!Next]_Turn!vars
  BY DEF MCNext, callVars, Turn!vars, Turn!context, Turn!sessions, Turn!approvals,
     Turn!network, Turn!service, Turn!observers
<1>. QED
  BY <1>1, <1>2, PTL DEF MCSpec, Turn!Spec

\* What is the meeting's is a behaviour of the companion.
LEMMA MeetingPart == MCSpec => Meeting!Spec
<1>1. MCInit => Meeting!Init
  BY DEF MCInit
<1>2. [MCNext]_<<part, vars, callVars, companionVars>> => [Meeting!Next]_Meeting!vars
  BY DEF MCNext, companionVars, Meeting!vars, Meeting!chat
<1>. QED
  BY <1>1, <1>2, PTL DEF MCSpec, Meeting!Spec

\* The three keep their types beside each other.
THEOREM AllTyped == MCSpec => []TypesOK
<1>1. Turn!Spec => []Turn!TypeOK
  BY TurnAssumption, Turn!Typed
<1>2. Meeting!Spec => []Meeting!TypeOK
  BY RoomAssumption, Meeting!TypeCorrect DEF Meeting!Numbered
<1>. QED
  BY <1>1, <1>2, ItemPart, TurnPart, MeetingPart, Typed, PTL DEF TypesOK

\* A turn alone on its connection returns its own last text, after its own end.
THEOREM AnswersAreOwn == MCSpec => []AnswerIsOwn
<1>1. Turn!Spec => []Turn!AnswerIsOwn
  BY TurnAssumption, Turn!AnswersAreOwn
<1>. QED
  BY <1>1, TurnPart, PTL DEF AnswerIsOwn

\* Who addresses the companion while nothing else goes on gets an answer.
THEOREM AddressesAreAnswered == MCSpec => []AddressIsAnswered
<1>1. Meeting!Spec => []Meeting!AddressIsAnswered
  BY RoomAssumption, Meeting!AddressesAreAnswered DEF Meeting!Numbered
<1>. QED
  BY <1>1, MeetingPart, PTL DEF AddressIsAnswered

=============================================================================
