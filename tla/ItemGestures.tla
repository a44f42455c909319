----------------------------- MODULE ItemGestures -----------------------------
(***************************************************************************)
(* An item of the GTD lists, the place it comes from, and the windows that *)
(* change it: the triage and edit endpoints (web/items.go), the swipe      *)
(* gestures and their undo (web/items_gesture.go), the GTD status that is  *)
(* written through to a note (web/items_gtd_status.go).                    *)
(*                                                                         *)
(* A request is a pipeline.  What the source has to accept comes first;    *)
(* after a note was written the projection of it is refreshed into the     *)
(* row; then the row is read, the change is checked against what was read, *)
(* and the row is updated without looking again.  Only complete tells a    *)
(* mail server or Todoist after the row was written.                       *)
(*                                                                         *)
(* Left out: deletion, creation, review, children and titles; the periodic *)
(* syncs of the sources; the follow-up date of a note; errors of the       *)
(* store.  A time is there or not, and is due whenever the resurfacer says *)
(* so.                                                                     *)
(***************************************************************************)
EXTENDS Naturals

CONSTANTS Sources,     \* where the item may come from
          Windows,     \* browser windows; each has one request at a time
          Targets,     \* states that requests name, and that the item begins in
          Actors,      \* to whom an item may be given
          MaxRequests, \* bound: requests that are not undos
          NoActor, Keep

States == {"inbox", "next", "waiting", "deferred", "someday", "review", "done"}

ASSUME ItemStates == Targets \subseteq States
ASSUME ItemSources == Sources \subseteq {"local", "markdown", "email", "todoist"}
ASSUME NobodyIsNobody == NoActor \notin Actors
ASSUME ItemBound == MaxRequests \in Nat

VARIABLES source,  \* where the item comes from
          entry,   \* the row of items
          remote,  \* the status in the note; "done" or "inbox" of a mail or a task
          request, \* request[w]: the locals of the handler of a window's request
          undo,    \* undo[w]: the snapshot behind the window's undo banner; agreed (the
                   \* source agreed with the row) and syncError (the gesture reported
                   \* one) are not sent, and only the properties read them
          alone,   \* the windows but for which nothing changed since their gesture
          sent     \* counts to MaxRequests

vars == <<source, entry, remote, request, undo, alone, sent>>

Gestures == {"complete", "drop", "dropUpstream", "defer", "delegate"}
Closing == {"complete", "drop", "dropUpstream"}

\* The state a request is for, where it does not name one itself.
Goal == [complete |-> "done", drop |-> "done", dropUpstream |-> "done",
         defer |-> "deferred", delegate |-> "waiting", next |-> "next",
         triageDone |-> "done", later |-> "deferred", triageDelegate |-> "waiting",
         someday |-> "someday", assign |-> "waiting", unassign |-> "inbox",
         completeBy |-> "done"]
Naming == {"status", "state", "update"}
Ops == DOMAIN Goal \cup Naming

Entry == [state : States, actor : Actors \cup {NoActor}, visible : BOOLEAN,
          follow : BOOLEAN]
Change == [state : States \cup {Keep}, actor : Actors \cup {NoActor, Keep},
           visible : BOOLEAN \cup {Keep}, follow : BOOLEAN \cup {Keep}]
Untouched == [state |-> Keep, actor |-> Keep, visible |-> Keep, follow |-> Keep]

\* An UPDATE of the columns that u does not keep.
Kept(new, old) == IF new = Keep THEN old ELSE new
Updated(i, u) == [state |-> Kept(u.state, i.state), actor |-> Kept(u.actor, i.actor),
                  visible |-> Kept(u.visible, i.visible),
                  follow |-> Kept(u.follow, i.follow)]

Blank(s) == [state |-> s, actor |-> NoActor, visible |-> FALSE, follow |-> FALSE]
NewRequest == [at |-> "idle", op |-> "", to |-> "inbox", actor |-> NoActor,
               follow |-> FALSE, item |-> Blank("inbox"), md |-> FALSE,
               mail |-> FALSE, agreed |-> FALSE, syncError |-> FALSE, note |-> "inbox",
               write |-> Untouched]
NoUndo == [on |-> FALSE, last |-> FALSE, item |-> Blank("inbox"), md |-> FALSE, mail |-> FALSE,
           agreed |-> FALSE, syncError |-> FALSE]

\* What a source says of an item in state s: a note has every state, a message is in the
\* inbox or archived, a task is open or completed.
Counterpart(s) == IF source = "markdown" \/ s = "done" THEN s ELSE "inbox"
Agrees == source = "local" \/ remote = Counterpart(entry.state)

Init ==
  /\ source \in Sources
  /\ entry \in {Blank(s) : s \in Targets}
  /\ remote = Counterpart(entry.state)
  /\ request = [w \in Windows |-> NewRequest]
  /\ undo = [w \in Windows |-> NoUndo]
  /\ alone = {} /\ sent = 0

-----------------------------------------------------------------------------

\* Who has seen nothing change but by itself, after a step of window w.
Witness(w) == alone' = IF entry' = entry /\ remote' = remote THEN alone ELSE alone \cap {w}

\* A handler returns, with an error or without a snapshot.
End(w) == /\ request' = [request EXCEPT ![w] = NewRequest]
          /\ UNCHANGED undo

\* A gesture returns its result, in which r is the snapshot; other requests return none.
Answer(w, r) ==
  /\ request' = [request EXCEPT ![w] = NewRequest]
  /\ undo' = IF r.op \in Gestures
             THEN [undo EXCEPT ![w] = [on |-> TRUE, last |-> TRUE, item |-> r.item,
                                       md |-> r.md, mail |-> r.mail, agreed |-> r.agreed,
                                       syncError |-> r.syncError]]
             ELSE undo

GoTo(w, r, at) == /\ request' = [request EXCEPT ![w] = [r EXCEPT !.at = at]]
                  /\ UNCHANGED undo

\* Whether a request has a note changed first; an undo does not, as if the gesture had not.
WritesForward(r) == \/ r.op \in Closing /\ r.item.state # "done"
                    \/ r.op \in {"defer", "delegate", "status"}

\* Whether request r has its source accept the change before the row is written.
WritesNote(r) == \/ r.op \in Closing /\ r.item.state # "done"
                 \/ r.op \in {"defer", "delegate", "status"}
                 \/ r.op = "undo" /\ r.md
MovesMail(r) == \/ r.op \in {"status", "state"} /\ r.to # r.item.state /\ r.to \in {"done", "inbox"}
                \/ r.op \in {"dropUpstream", "triageDone"} /\ r.item.state # "done"
                \/ r.op = "undo" /\ r.mail
ClosesTask(r) == /\ r.op \in {"status", "state", "update", "triageDone", "completeBy",
                              "dropUpstream"}
                 /\ r.to = "done" /\ r.item.state # "done"
AsksFirst(r) == \/ source = "markdown" /\ WritesNote(r)
                \/ source = "email" /\ MovesMail(r)
                \/ source = "todoist" /\ ClosesTask(r)
AsksAfter(r) == r.op = "complete" /\ source \in {"email", "todoist"}

\* What r goes on with once the source has accepted it.
ToRow(r) == IF r.op = "undo" THEN "restore" ELSE "read"

\* A window sends a request, and its handler reads the item.  An item that is done is not
\* completed or dropped again.
Begin(w, op, to, actor, follow) ==
  LET r == [NewRequest EXCEPT !.op = op, !.to = to, !.actor = actor, !.follow = follow,
                              !.item = entry, !.agreed = Agrees]
      at == IF AsksFirst(r) THEN "source" ELSE "read"
  IN /\ request[w].at = "idle" /\ sent < MaxRequests
     /\ sent' = sent + 1
     /\ alone' = IF op \in Gestures THEN alone \cup {w} ELSE alone
     /\ IF op \in Closing /\ entry.state = "done"
        THEN Answer(w, r)
        ELSE /\ request' = [request EXCEPT ![w] =
                  IF op \in Gestures THEN [r EXCEPT !.at = at]
                  ELSE [r EXCEPT !.at = at, !.item = NewRequest.item, !.agreed = FALSE]]
             /\ undo' = [undo EXCEPT ![w].last = FALSE]
     /\ UNCHANGED <<source, entry, remote>>

\* The undo banner is clicked, which hides it.
BeginUndo(w) ==
  LET u == undo[w]
      r == [NewRequest EXCEPT !.op = "undo", !.to = u.item.state, !.item = u.item,
                              !.md = u.md, !.mail = u.mail, !.agreed = u.agreed,
                              !.syncError = u.syncError]
  IN /\ request[w].at = "idle" /\ u.on
     /\ request' = [request EXCEPT ![w] = [r EXCEPT !.at = IF AsksFirst(r) THEN "source"
                                                           ELSE "restore"]]
     /\ undo' = [undo EXCEPT ![w] = NoUndo]
     /\ alone' = IF u.last THEN alone ELSE alone \ {w}
     /\ UNCHANGED <<source, entry, remote, sent>>

\* The source takes the change.  The tool that writes notes may report the note it
\* wrote, whose projection is then refreshed.
AskSource(w) ==
  LET r == request[w]
      ran == [r EXCEPT !.md = source = "markdown", !.mail = source = "email"]
  IN /\ r.at = "source"
     /\ remote' = Counterpart(IF source = "email" /\ r.op = "undo" THEN "inbox" ELSE r.to)
     /\ \/ source = "markdown" /\ GoTo(w, ran, "parse")
        \/ GoTo(w, ran, ToRow(r))
     /\ UNCHANGED <<source, entry, sent>>
     /\ Witness(w)

ParseNote(w) ==
  LET r == request[w]
  IN /\ r.at = "parse"
     /\ GoTo(w, [r EXCEPT !.note = remote], "check")
     /\ UNCHANGED <<source, entry, remote, alone, sent>>

\* The state machine of the rows: from done an item goes only back to the inbox.
Transition(from, to) == from = "done" => to \in {"done", "inbox"}

\* The columns of an update that sets the state, for an item in state from.
UpdateItem(from, to) ==
  LET times == IF to = "next" \/ (to = "inbox" /\ from # "inbox") THEN FALSE ELSE Keep
  IN [Untouched EXCEPT !.state = to, !.visible = times, !.follow = times]

\* The refreshed projection goes into the row like any update; if it is refused so is
\* the request, and the note stays as written.
CheckNote(w) ==
  LET r == request[w]
  IN /\ r.at = "check"
     /\ IF Transition(entry.state, r.note)
        THEN GoTo(w, [r EXCEPT !.write = UpdateItem(entry.state, r.note), !.note = "inbox"],
                  "mirror")
        ELSE End(w)
     /\ UNCHANGED <<source, entry, remote, alone, sent>>

MirrorNote(w) ==
  LET r == request[w]
  IN /\ r.at = "mirror"
     /\ entry' = Updated(entry, r.write)
     /\ GoTo(w, [r EXCEPT !.write = Untouched], ToRow(r))
     /\ UNCHANGED <<source, remote, sent>>
     /\ Witness(w)

\* A call to the source, or the parse of a note, fails: with or without an effect.  The
\* request answers an error and no snapshot, so its window has nothing to undo any more.
CallFails(w) ==
  LET r == request[w]
  IN /\ r.at \in {"source", "parse"}
     /\ remote' \in {remote} \cup IF r.at = "source" THEN {Counterpart(r.to)} ELSE {}
     /\ End(w)
     /\ alone' = IF remote' = remote THEN alone \ {w} ELSE {}
     /\ UNCHANGED <<source, entry, sent>>

-----------------------------------------------------------------------------

\* Requests that go through the state machine, and what the others refuse.
ByTransition == Gestures \cup Naming \cup {"next"}
Refused(r, i) ==
  \/ r.op \in ByTransition /\ ~Transition(i.state, r.to)
  \/ r.op \notin ByTransition /\ i.state = "done"
  \/ r.op = "unassign" /\ i.actor = NoActor
  \/ r.op = "completeBy" /\ i.actor # r.actor

\* The columns request r updates, when it has read i.
ByState == Closing \cup {"status", "state", "next"}
StateWrite(to) ==
  LET times == IF to \in {"inbox", "next"} THEN FALSE ELSE Keep
  IN [Untouched EXCEPT !.state = to, !.visible = times, !.follow = times]
Write(r, i) ==
  LET set == [Untouched EXCEPT !.state = r.to]
      update == UpdateItem(i.state, r.to)
  IN IF r.op \in ByState THEN StateWrite(r.to) ELSE
     [defer          |-> [update EXCEPT !.visible = TRUE, !.follow = TRUE],
      delegate       |-> [update EXCEPT !.actor = r.actor, !.follow = IF r.follow THEN TRUE ELSE @],
      update         |-> [update EXCEPT !.follow = IF r.follow THEN TRUE ELSE @],
      triageDone     |-> set,
      later          |-> [set EXCEPT !.visible = TRUE],
      triageDelegate |-> [set EXCEPT !.actor = r.actor, !.visible = FALSE],
      someday        |-> [set EXCEPT !.visible = FALSE, !.follow = FALSE],
      assign         |-> [set EXCEPT !.actor = r.actor],
      unassign       |-> [set EXCEPT !.actor = NoActor, !.visible = FALSE, !.follow = FALSE],
      completeBy     |-> set][r.op]

ReadRow(w) ==
  LET r == request[w]
  IN /\ r.at = "read"
     /\ IF Refused(r, entry) THEN End(w)
        ELSE GoTo(w, [r EXCEPT !.write = Write(r, entry), !.to = "inbox",
                               !.actor = NoActor, !.follow = FALSE], "save")
     /\ UNCHANGED <<source, entry, remote, alone, sent>>

SaveRow(w) ==
  LET r == request[w]
  IN /\ r.at = "save"
     /\ entry' = Updated(entry, r.write)
     /\ IF AsksAfter(r) THEN GoTo(w, [r EXCEPT !.write = Untouched], "after")
        ELSE Answer(w, r)
     /\ UNCHANGED <<source, remote, sent>>
     /\ Witness(w)

\* Complete tells the source after the row.  A call that fails may have had its effect; the
\* gesture reports it, and the snapshot it hands out does not say that the source was told.
TellSource(w) ==
  LET r == request[w]
  IN /\ r.at = "after"
     /\ \/ /\ remote' = "done"
           /\ Answer(w, [r EXCEPT !.mail = source = "email"])
        \/ /\ remote' \in {remote, "done"}
           /\ Answer(w, [r EXCEPT !.syncError = TRUE])
     /\ UNCHANGED <<source, entry, sent>>
     /\ Witness(w)

\* An undo writes its snapshot into the row, past the state machine.
Restore(w) ==
  LET r == request[w]
  IN /\ r.at = "restore"
     /\ entry' = r.item
     /\ End(w)
     /\ UNCHANGED <<source, remote, sent>>
     /\ Witness(w)

\* The resurfacer: a deferred item one of whose times has come is next.
Resurface ==
  /\ entry.state = "deferred" /\ (entry.visible \/ entry.follow)
  /\ entry' = [entry EXCEPT !.state = "next"]
  /\ alone' = {}
  /\ UNCHANGED <<source, remote, request, undo, sent>>

\* Somebody edits the note, moves the message, reopens or completes the task.
Edit ==
  /\ source # "local"
  /\ \E s \in Targets : remote' = Counterpart(s)
  /\ remote' # remote
  /\ alone' = {}
  /\ UNCHANGED <<source, entry, request, undo, sent>>

RequestStep(w) ==
  \/ AskSource(w) \/ ParseNote(w) \/ CheckNote(w) \/ MirrorNote(w) \/ CallFails(w)
  \/ ReadRow(w) \/ SaveRow(w) \/ TellSource(w) \/ Restore(w)

Next ==
  \/ \E w \in Windows, op \in Ops :
       \E to \in (IF op \in Naming THEN Targets ELSE {Goal[op]}),
          actor \in (IF op \in {"delegate", "triageDelegate", "assign", "completeBy"}
                     THEN Actors ELSE {NoActor}),
          follow \in (IF op \in {"delegate", "update"} THEN BOOLEAN ELSE {FALSE}) :
         Begin(w, op, to, actor, follow)
  \/ \E w \in Windows : BeginUndo(w) \/ RequestStep(w)
  \/ Resurface \/ Edit

Spec == Init /\ [][Next]_vars

-----------------------------------------------------------------------------

Request == [at : {"idle", "source", "parse", "check", "mirror", "read", "save", "after",
                  "restore"},
            op : Ops \cup {"", "undo"}, to : States, actor : Actors \cup {NoActor},
            follow : BOOLEAN, item : Entry, md : BOOLEAN, mail : BOOLEAN,
            agreed : BOOLEAN, syncError : BOOLEAN, note : States, write : Change]

\* The types of the variables; a snapshot remembers the note or the mail, never both.
TypeOK ==
  /\ source \in Sources
  /\ entry \in Entry /\ remote \in States
  /\ request \in [Windows -> Request]
  /\ undo \in [Windows -> [on : BOOLEAN, last : BOOLEAN, item : Entry, md : BOOLEAN,
                           mail : BOOLEAN, agreed : BOOLEAN, syncError : BOOLEAN]]
  /\ alone \subseteq Windows
  /\ sent \in 0..MaxRequests
  /\ \A w \in Windows : ~(undo[w].md /\ undo[w].mail)

\* Window w's undo ends, and nothing but the gesture and it has changed anything.
UndoEnds(w) == /\ request[w].op = "undo" /\ request'[w].op # "undo"
               /\ w \in alone'

\* What an undo has no marker for, and leaves done: a task of Todoist, and a message whose
\* archive took effect but was reported to have failed.
MayStayDone(x) == source = "todoist" \/ x.syncError

\* An undo that is answered leaves the row as it was before the gesture, whatever the
\* gesture had written where and wherever the item comes from.  If the source agreed with
\* the row then, it does now, with two exceptions: a task may stay completed, and the
\* message of a gesture that reported a sync error may stay archived.
\* (handleItemGestureUndo, gestureComplete)
UndoRestores ==
  [][\A w \in Windows :
       UndoEnds(w) /\ request[w].at = "restore"
         => /\ entry' = request[w].item
            /\ request[w].agreed
                 => Agrees' \/ (MayStayDone(request[w]) /\ remote' = "done")]_vars

\* An undo none of whose calls fails reverses the gesture, wherever the item comes from.
\* It does not: a note's item that is done may be refused its prior state, a task stays
\* completed, and a message stays archived whose archive was reported to have failed.
\* (revertGestureMarkdownSyncBack, runItemGestureUpstreamComplete, gestureComplete)
UndoReverses ==
  [][\A w \in Windows :
       UndoEnds(w) => entry' = request[w].item /\ (request[w].agreed => Agrees')]_vars

=============================================================================
