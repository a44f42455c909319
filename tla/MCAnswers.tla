------------------------------- MODULE MCAnswers -------------------------------
(***************************************************************************)
(* Three ways to an answer, in one run: the gestures on an item and their  *)
(* undo, the app-server turn and its approvals, and the companion of a     *)
(* meeting, for which a turn is queued.  They share no state; a behaviour  *)
(* is one of the first, the second or the third, as part says.  The second *)
(* and the third are instances of the modules of their theorems, so that   *)
(* these are theorems about the run (ItemGesturesProofs).                  *)
(***************************************************************************)
EXTENDS ItemGestures, TLC

CONSTANTS Turns, Requests, Clients, Decisions, Talkers, MaxTexts, MaxWire, MaxConns,
          MaxFaults, NoRequest,
          Rooms, MaxSegments, MaxUserTurns

\* What AppServerTurn and Companion assume of their constants.
ASSUME TurnAssumption ==
  /\ NoRequest \notin Requests /\ Talkers \subseteq Turns
  /\ Decisions \subseteq {"accept", "decline", "cancel"}
  /\ {MaxTexts, MaxWire, MaxConns, MaxFaults} \subseteq Nat
ASSUME RoomAssumption == MaxSegments \in Nat /\ 0 \notin Rooms

VARIABLES part,
          call, cancelled, armed, due, pool, conns, closed, nextID, pending, channel,
          hand, open, wire, svc, answered, said, shared, faults,
          seg, pendingIn, recent, tracker, queue, active, told

callVars == <<call, cancelled, armed, due, pool, conns, closed, nextID, pending, channel,
              hand, open, wire, svc, answered, said, shared, faults>>
companionVars == <<seg, pendingIn, recent, tracker, queue, active, told>>
Turn == INSTANCE AppServerTurnProofs
Meeting == INSTANCE CompanionProofs WITH sent <- told

\* The windows are interchangeable.
WindowSymmetry == Permutations(Windows)

MCInit ==
  /\ part \in {"item", "turn", "companion"}
  /\ Init /\ Turn!Init /\ Meeting!Init
  /\ part # "item" => source = "local" /\ entry.state = "inbox"

MCNext ==
  /\ part' = part
  /\ \/ part = "item" /\ Next /\ UNCHANGED <<callVars, companionVars>>
     \/ part = "turn" /\ Turn!Next /\ UNCHANGED <<vars, companionVars>>
     \/ part = "companion" /\ Meeting!Next /\ UNCHANGED <<vars, callVars>>

MCSpec == MCInit /\ [][MCNext]_<<part, vars, callVars, companionVars>>

-----------------------------------------------------------------------------

\* The types of the variables of all three.
TypesOK == TypeOK /\ Turn!TypeOK /\ Meeting!TypeOK

\* A turn that ran on its connection alone returns its own last text.
\* (readTurnUntilComplete)
AnswerIsOwn == Turn!AnswerIsOwn

\* Who addresses the companion while nothing else goes on gets an answer, whatever
\* earlier turns have left in the events or in companionTurns.
\* (maybeTriggerCompanionResponse)
AddressIsAnswered == Meeting!AddressIsAnswered

=============================================================================
