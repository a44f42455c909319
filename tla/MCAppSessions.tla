----------------------------- MODULE MCAppSessions -----------------------------
(***************************************************************************)
(* Two instances of AppSessions in one run.  Where inOrder is false, turns *)
(* and commands interleave, a workspace is focused and the pool shut down; *)
(* where it is true they come one at a time, with two profiles, /clear and *)
(* /compact, and no explicit focus.                                        *)
(***************************************************************************)
EXTENDS AppSessions

VARIABLE inOrder

MCInit == Init /\ inOrder \in BOOLEAN
MCNext == Next /\ inOrder' = inOrder
MCSpec == MCInit /\ [][MCNext]_<<vars, inOrder>>

\* A constraint of the run: which steps an instance takes.
InInstance ==
  IF inOrder
  THEN OneAtATime /\ focus' = focus
  ELSE /\ \A k \in Clients : client'[k].kind \notin {"clear", "compact"}
       /\ \A s \in Sessions : turn'[s].config = Blank.config

\* The observers matter only where turns come in order.
MCView == <<inOrder, system, IF inOrder THEN <<told, forgotten>> ELSE <<>> >>

\* When turns and commands come one at a time, a turn that begins after /clear or
\* /compact returned never runs on a thread from before it ("Next message starts a
\* fresh app-server thread", chat.go:467).
ForgottenInOrder == inOrder => StaysForgotten

=============================================================================
