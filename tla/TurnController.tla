---------------------------- MODULE TurnController ----------------------------
(***************************************************************************)
(* The voice turn controller (src/internal/turn/controller.go) as the turn *)
(* websocket drives it (src/internal/web/turn_ws.go): transcript segments  *)
(* are collected until the speaker's turn is complete or a continuation    *)
(* timer runs out, and loud speech during playback interrupts it.          *)
(*                                                                         *)
(* One action is one critical section of Controller.mu, the expiry of a    *)
(* timer, or one goroutine of emitLocked that writes to the websocket.     *)
(* Texts are sequences of segment numbers; whether a text looks complete   *)
(* is a choice.  Of the signals only the finalized turns are kept in       *)
(* flight: the others carry nothing a property tells apart.                *)
(***************************************************************************)
EXTENDS Integers, Sequences, FiniteSets

CONSTANTS MaxSegments,  \* segments the speaker utters on one connection
          MaxYields,    \* interruptions by loud speech on one connection
          Profiles      \* the turn policy profiles the client asks for

ASSUME BoundsAssumption == MaxSegments \in Nat /\ MaxYields \in Nat
ASSUME ProfilesAssumption == Profiles \subseteq {"balanced", "patient", "assertive"}

VARIABLES
  heard,      \* number of the last segment that arrived
  pending,    \* pendingText: the segments that wait for a continuation
  timer,      \* the timer field: the number of its AfterFunc, or 0 for nil
  schedules,  \* the AfterFunc calls so far
  running,    \* timers that tick
  fired,      \* timers that expired; their callback waits for the lock
  closed,     \* Close was called
  air,        \* finalized turns whose goroutine has not written them yet
  sent,       \* finalized turns as the client received them
  dropped,    \* segments that were answered otherwise, forgotten or muted
  forgotten,  \* value of heard at the last Reset
  profile, playback,
  frames,     \* bargeInFrames
  loud,       \* an observer: loud frames, up to 4, since the last quiet one, the
              \* last interruption, reset or speech start, and the last time
              \* nothing was played
  yields      \* speech_overlap signals so far

text == <<heard, pending, timer, schedules, running, fired, air, sent, dropped,
          forgotten>>
bargeIn == <<profile, playback, frames, loud, yields>>
vars == <<heard, pending, timer, schedules, running, fired, closed, air, sent,
          dropped, forgotten, profile, playback, frames, loud, yields>>

Numbers == 1..MaxSegments
Words(list) == {list[i] : i \in 1..Len(list)}

\* BargeInConsecutive
Consecutive == [balanced |-> 3, patient |-> 4, assertive |-> 2]

\* The parts of the critical sections.  Each is preceded by the deviation that a
\* run must detect (see the mutants of PROJECT.json).
KeepTicking == running
Stopped == running \ {timer}                       \* stopTimerLocked
ArmedThenStopped(n) == Stopped
Armed(n) == Stopped \cup {n}                       \* scheduleFinalizeLocked
KeepText == pending
Cleared == <<>>
EmitAnyway(turn) == air \cup {turn}
Emitted(turn) == IF closed THEN air ELSE air \cup {turn}
Muted(turn) == IF closed THEN Words(turn) ELSE {}  \* what emitLocked discards
KeepFrames == frames
NoFrames == 0

Init ==
  /\ heard = 0 /\ pending = <<>> /\ timer = 0 /\ schedules = 0
  /\ running = {} /\ fired = {} /\ closed = FALSE
  /\ air = {} /\ sent = <<>> /\ dropped = {} /\ forgotten = 0
  /\ profile \in Profiles /\ playback = FALSE
  /\ frames = 0 /\ loud = 0 /\ yields = 0

-----------------------------------------------------------------------------
(* ConsumeSegment: the words so far and the new segment are classified.     *)

\* A segment may be empty, one of the backchannel phrases, or other speech.
Kinds == {"empty", "phrase", "speech"}
Combined(kind) == IF kind = "empty" THEN pending ELSE Append(pending, heard + 1)
OnlyPhrases(kind, interrupted) == pending = <<>> /\ kind = "phrase" /\ interrupted
IsBackchannel(kind, interrupted) ==
  \/ Combined(kind) = <<>>
  \/ pending = <<>> /\ kind = "phrase" /\ interrupted

Hear ==
  /\ ~closed
  /\ heard < MaxSegments
  /\ heard' = heard + 1
  /\ UNCHANGED <<fired, closed, sent, forgotten, bargeIn>>

Backchannel(kind, interrupted) ==
  /\ Hear
  /\ IsBackchannel(kind, interrupted)
  /\ dropped' = dropped \cup {heard + 1}
  /\ UNCHANGED <<pending, timer, schedules, running, air>>

\* The text waits for its continuation, with a new timer.
ContinueListening(kind, interrupted) ==
  /\ Hear
  /\ ~IsBackchannel(kind, interrupted)
  /\ pending' = Combined(kind)
  /\ schedules' = schedules + 1
  /\ timer' = schedules + 1
  /\ running' = Armed(schedules + 1)
  /\ dropped' = IF kind = "empty" THEN dropped \cup {heard + 1} ELSE dropped
  /\ UNCHANGED air

\* The text is complete.
FinalizeSegment(kind, interrupted) ==
  /\ Hear
  /\ ~IsBackchannel(kind, interrupted)
  /\ pending' = Cleared
  /\ timer' = 0
  /\ running' = Stopped
  /\ air' = Emitted(Combined(kind))
  /\ dropped' = IF kind = "empty" THEN dropped \cup {heard + 1} ELSE dropped
  /\ UNCHANGED schedules

-----------------------------------------------------------------------------
(* The continuation timer.                                                  *)

\* The runtime starts the callback in a goroutine; Stop comes too late from now on.
Expire(n) ==
  /\ n \in running
  /\ running' = running \ {n}
  /\ fired' = fired \cup {n}
  /\ UNCHANGED <<heard, pending, timer, schedules, closed, air, sent, dropped,
                 forgotten, bargeIn>>

\* Flush takes whatever is pending, even if it waits for a newer timer.
Flush(n) ==
  /\ n \in fired
  /\ fired' = fired \ {n}
  /\ timer' = 0
  /\ running' = Stopped
  /\ IF pending = <<>>
     THEN UNCHANGED <<pending, air, dropped>>
     ELSE /\ pending' = Cleared
          /\ air' = Emitted(pending)
          /\ dropped' = dropped \cup Muted(pending)
  /\ UNCHANGED <<heard, schedules, closed, sent, forgotten, bargeIn>>

\* turn_reset, and turn_listen_state with active = false.
Reset ==
  /\ ~closed
  /\ dropped' = dropped \cup Words(pending)
  /\ pending' = Cleared
  /\ timer' = 0
  /\ running' = Stopped
  /\ forgotten' = heard
  /\ frames' = 0 /\ loud' = 0
  /\ UNCHANGED <<heard, schedules, fired, closed, air, sent, profile, playback,
                 yields>>

\* The read loop of the websocket ended.
Close ==
  /\ ~closed
  /\ closed' = TRUE
  /\ timer' = 0
  /\ running' = Stopped
  /\ UNCHANGED <<heard, pending, schedules, fired, air, sent, dropped, forgotten,
                 bargeIn>>

\* The goroutines of emitLocked write in any order; a closed socket takes nothing.
Write(turn) ==
  /\ turn \in air
  /\ ~closed
  /\ air' = air \ {turn}
  /\ sent' = Append(sent, turn)
  /\ UNCHANGED <<heard, pending, timer, schedules, running, fired, closed,
                 dropped, forgotten, bargeIn>>

-----------------------------------------------------------------------------
(* Barge-in.                                                                *)

\* turn_config; the frames that were counted stay.
SetProfile(p) ==
  /\ ~closed
  /\ profile' = p
  /\ UNCHANGED <<text, closed, playback, frames, loud, yields>>

UpdatePlayback(playing) ==
  /\ ~closed
  /\ playback' = playing
  /\ frames' = IF playing THEN frames ELSE 0
  /\ loud' = IF playing THEN loud ELSE 0
  /\ UNCHANGED <<text, closed, profile, yields>>

\* The client's own barge-in signal; it restarts the count in every case.
HandleSpeechStart ==
  /\ ~closed
  /\ frames' = 0 /\ loud' = 0
  /\ UNCHANGED <<text, closed, profile, playback, yields>>

\* A frame below the threshold, or one that interrupts nothing.
QuietFrame ==
  /\ ~closed
  /\ frames' = NoFrames
  /\ loud' = 0
  /\ UNCHANGED <<text, closed, profile, playback, yields>>

Counted == IF loud < 4 THEN loud + 1 ELSE loud

\* The threshold is exceeded while the assistant speaks, by the server's or by
\* the client's account.
LoudFrame(interrupted) ==
  /\ ~closed
  /\ interrupted \/ playback
  /\ IF frames + 1 < Consecutive[profile]
     THEN /\ frames' = frames + 1
          /\ loud' = Counted
          /\ UNCHANGED yields
     ELSE /\ yields < MaxYields
          /\ frames' = 0
          /\ loud' = 0
          /\ yields' = yields + 1
  /\ UNCHANGED <<text, closed, profile, playback>>

-----------------------------------------------------------------------------
ConsumeSegment ==
  \E kind \in Kinds, interrupted \in BOOLEAN :
    \/ Backchannel(kind, interrupted)
    \/ ContinueListening(kind, interrupted)
    \/ FinalizeSegment(kind, interrupted)
Playback ==
  \/ \E p \in Profiles : SetProfile(p)
  \/ \E playing \in BOOLEAN : UpdatePlayback(playing)
  \/ \E interrupted \in BOOLEAN : LoudFrame(interrupted)
  \/ HandleSpeechStart \/ QuietFrame
Timer(n) == Expire(n) \/ Flush(n)
WriteFrom(n) == \E turn \in air : turn[1] = n /\ Write(turn)

Next ==
  \/ ConsumeSegment \/ Reset \/ Close \/ Playback
  \/ \E n \in Numbers : Timer(n) \/ WriteFrom(n)

Spec == Init /\ [][Next]_vars

\* Timers expire, callbacks and writers are goroutines that get scheduled.
\* Nothing makes the speaker speak.
Fairness == \A n \in Numbers : WF_vars(Timer(n)) /\ WF_vars(WriteFrom(n))

FairSpec == Spec /\ Fairness

-----------------------------------------------------------------------------
(* Properties.                                                             *)

\* Every variable has its type; finalized turns are never empty.
TypeOK ==
  /\ heard \in 0..MaxSegments /\ schedules \in 0..heard /\ forgotten \in 0..heard
  /\ pending \in Seq(Numbers)
  /\ timer \in 0..schedules
  /\ running \subseteq 1..schedules /\ fired \subseteq 1..schedules
  /\ closed \in BOOLEAN /\ playback \in BOOLEAN
  /\ air \subseteq Seq(Numbers) \ {<<>>}
  /\ sent \in Seq(Seq(Numbers) \ {<<>>})
  /\ dropped \subseteq Numbers
  /\ profile \in Profiles
  /\ frames \in 0..3 /\ loud \in 0..4 /\ yields \in 0..MaxYields

\* Text that waits for its continuation is never forgotten: on an open connection
\* its timer ticks or its callback is about to take the lock, whatever stale
\* callbacks, resets and reschedulings came in between.
PendingIsTimed ==
  pending # <<>> /\ ~closed => timer \in running \cup fired

\* No timer is leaked: the one that ticks is the one stopTimerLocked can reach,
\* and after Close none ticks.
NoOrphanTimer ==
  /\ running \subseteq {timer}
  /\ closed => running = {}

\* What the user said is neither lost nor said twice: every segment that arrived
\* is in exactly one place (waiting, in one finalized turn, or dropped for a
\* reason), and within a turn the words keep their order, although the timer's
\* callback races the next segment for the pending text.
Turns == air \cup {sent[i] : i \in 1..Len(sent)}
EverySegmentOnce ==
  /\ 1..heard = dropped \cup Words(pending) \cup UNION {Words(turn) : turn \in Turns}
  /\ dropped \cap (Words(pending) \cup UNION {Words(turn) : turn \in Turns}) = {}
  /\ \A turn \in Turns : Words(pending) \cap Words(turn) = {}
  /\ \A turn, other \in Turns : turn # other => Words(turn) \cap Words(other) = {}
  /\ \A turn \in air : \A i \in 1..Len(sent) : sent[i] # turn
  /\ \A i, j \in 1..Len(sent) : sent[i] = sent[j] => i = j
  /\ \A turn \in Turns \cup {pending} :
       \A i, j \in 1..Len(turn) : i < j => turn[i] < turn[j]

\* A turn that is finalized after a reset holds no words from before it, even if
\* the timer of those words had expired when the reset came.
ResetSeparates ==
  [][\A turn \in air' \ air : \A n \in Words(turn) : n > forgotten]_vars

\* Nothing is emitted or received once the connection is closed, although a
\* callback may still hold pending text then.
NothingAfterClose ==
  [][closed => air' \subseteq air /\ sent' = sent /\ closed']_vars

\* Loud speech interrupts playback only after as many consecutive loud frames as
\* the profile in force asks for, whatever profile switches come between them:
\* the frames before a quiet one, a reset, a speech start or the end of the
\* playback do not count.
YieldIsEarned ==
  [][yields' # yields => loud + 1 >= Consecutive[profile]]_vars

\* The inductive strengthening of PendingIsTimed and NoOrphanTimer, and what
\* ResetSeparates rests on: the pending words came after the last reset.
TimerInv == PendingIsTimed /\ NoOrphanTimer
FreshInv == \A n \in Words(pending) : forgotten < n /\ n <= heard

\* Every segment is settled: it reaches the client in a finalized turn or is
\* dropped, unless the connection closes.
EverySegmentSettles ==
  \A n \in Numbers :
    heard >= n ~> \/ n \in dropped \/ closed
                  \/ \E i \in 1..Len(sent) : n \in Words(sent[i])
=============================================================================
