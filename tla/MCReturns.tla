------------------------------- MODULE MCReturns -------------------------------
(***************************************************************************)
(* Two things that wait for their turn, in one run: the segments of a      *)
(* voice connection and the messages of a chat session.  They share no     *)
(* state; a behaviour is one of the first or one of the second, as part    *)
(* says.  The words of a voice connection and its barge-in frames share    *)
(* Reset and Close only, and are looked at one at a time.                  *)
(***************************************************************************)
EXTENDS TurnController

CONSTANTS Sessions, Messages, Cancellers, Modes, DefaultMode, NoTurn

VARIABLES part, active, canceling, queue, messageID, outputMode, worker, wpc, wturn,
          cancelled, outcome, runMode, client, shut

queueVars == <<active, canceling, queue, messageID, outputMode, worker, wpc, wturn,
               cancelled, outcome, runMode, client, shut>>

\* All messages go to one session, in the default mode.
Queue == INSTANCE TurnQueue
         WITH Turns <- Messages, Clients <- Cancellers,
              SessionOf <- [m \in Messages |-> CHOOSE s \in Sessions : TRUE],
              ModeOf <- [m \in Messages |-> DefaultMode]

MCInit ==
  /\ part \in {"words", "frames", "queue"}
  /\ Init /\ Queue!Init
  /\ part # "frames" => profile = CHOOSE p \in Profiles : TRUE

MCNext ==
  /\ part' = part
  /\ \/ part = "words" /\ Next /\ UNCHANGED <<bargeIn, queueVars>>
     \/ part = "frames" /\ Next /\ UNCHANGED <<heard, queueVars>>
     \/ part = "queue" /\ Queue!Next /\ UNCHANGED vars

\* The fairness of each, as its module states it, for the part that is looked at.
MCFairness ==
  /\ \A n \in Numbers : /\ WF_vars(part = "words" /\ Timer(n))
                        /\ WF_vars(part = "words" /\ WriteFrom(n))
  /\ \A w \in Messages : WF_queueVars(part = "queue" /\ Queue!WorkerStep(w))
  /\ \A c \in Cancellers : /\ WF_queueVars(part = "queue" /\ Queue!CancelStep(c))
                           /\ SF_queueVars(part = "queue" /\ Queue!DrainTimeout(c))

MCSpec == MCInit /\ [][MCNext]_<<part, vars, queueVars>> /\ MCFairness

-----------------------------------------------------------------------------

\* A waiting turn is served: it is taken or cleared, or a registered run of its session
\* is in progress.  (runAssistantTurnQueue)
QueueIsServed == Queue!QueueIsServed

\* A cancelled run releases its session, however long the model would take.
\* (cancelActive)
CancelReleasesSession == Queue!CancelReleasesSession

\* The cancel endpoint and /stop answer, even if work never drains.
\* (cancelChatWorkAndWait)
CommandsReturn == Queue!CommandsReturn

=============================================================================
