------------------------------ MODULE ChatTurns ------------------------------
(***************************************************************************)
(* What the chat runtime promises the users of a chat session, without     *)
(* its tracker, its worker goroutines or its locks: every session has a    *)
(* FIFO of accepted turns and executes at most one turn at a time; a turn  *)
(* leaves the FIFO from its head, or with the whole FIFO when the work of  *)
(* the session is cancelled; a turn that ended or was cleared never comes  *)
(* back.  Module TurnQueue is shown to implement this specification.       *)
(***************************************************************************)
EXTENDS Naturals, Sequences

CONSTANTS Sessions,     \* chat sessions
          Turns,        \* turns, each submitted at most once
          SessionOf     \* the session a turn belongs to

VARIABLES pending,      \* pending[s]: accepted turns of s, oldest first
          executing,    \* executing[s]: the turns s executes now
          over          \* turns that ended or were cleared

vars == <<pending, executing, over>>

Known == over \cup (UNION {executing[s] : s \in Sessions})
              \cup (UNION {{pending[s][i] : i \in 1..Len(pending[s])} : s \in Sessions})

Init ==
  /\ pending = [s \in Sessions |-> <<>>]
  /\ executing = [s \in Sessions |-> {}]
  /\ over = {}

\* A turn is accepted at the end of its session's FIFO.
Submit(t) ==
  /\ t \notin Known
  /\ pending' = [pending EXCEPT ![SessionOf[t]] = Append(@, t)]
  /\ UNCHANGED <<executing, over>>

\* The oldest turn starts, and only when nothing of the session executes.
Start(s) ==
  /\ executing[s] = {}
  /\ pending[s] # <<>>
  /\ executing' = [executing EXCEPT ![s] = {Head(pending[s])}]
  /\ pending' = [pending EXCEPT ![s] = Tail(@)]
  /\ UNCHANGED over

\* The executing turn ends: completed, failed, cancelled or dropped.
Finish(s) ==
  \E t \in executing[s] :
    /\ executing' = [executing EXCEPT ![s] = {}]
    /\ over' = over \cup {t}
    /\ UNCHANGED pending

\* Cancelling the work of a session empties its FIFO as a whole.
ClearPending(s) ==
  /\ over' = over \cup {pending[s][i] : i \in 1..Len(pending[s])}
  /\ pending' = [pending EXCEPT ![s] = <<>>]
  /\ UNCHANGED executing

Next ==
  \/ \E t \in Turns : Submit(t)
  \/ \E s \in Sessions : Start(s) \/ Finish(s) \/ ClearPending(s)

Spec == Init /\ [][Next]_vars
=============================================================================
