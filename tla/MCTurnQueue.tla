----------------------------- MODULE MCTurnQueue -----------------------------
(***************************************************************************)
(* Instances of TurnQueue for TLC: one session with two or three turns of  *)
(* two modes, and a second session with a turn of its own.                 *)
(***************************************************************************)
EXTENDS TurnQueue

CONSTANTS s1, s2, m1, m2, m3, voice, silent

\* m1 and m2 belong to s1, m3 to s2 if there are two sessions.
MCSessionOf == [t \in Turns |-> IF t = m3 /\ s2 \in Sessions THEN s2 ELSE s1]
MCModeOf == [t \in Turns |-> IF t = m2 THEN silent ELSE voice]
=============================================================================
