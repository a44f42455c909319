------------------------- MODULE TurnControllerProofs -------------------------
(***************************************************************************)
(* Proofs about TurnController for any number of segments, interruptions   *)
(* and any set of profiles: its types, that pending text always has a      *)
(* timer, that no timer is leaked, that a reset separates turns, that a    *)
(* closed connection is silent, that loud speech interrupts only after     *)
(* enough frames, and that no word is lost or said twice.                  *)
(***************************************************************************)
EXTENDS TurnController, TLAPS

\* The words of a text are its members, and appending adds one word.
LEMMA AppendWords ==
  ASSUME NEW S, NEW list \in Seq(S), NEW n \in S
  PROVE  /\ Append(list, n) \in Seq(S) \ {<<>>}
         /\ Words(Append(list, n)) = Words(list) \cup {n}
<1>1. /\ Append(list, n) \in Seq(S)
      /\ Len(Append(list, n)) = Len(list) + 1
      /\ Len(list) \in Nat
  OBVIOUS
<1>2. \A i \in 1..Len(list) : Append(list, n)[i] = list[i]
  OBVIOUS
<1>3. Append(list, n)[Len(list) + 1] = n
  OBVIOUS
<1>4. 1..(Len(list) + 1) = (1..Len(list)) \cup {Len(list) + 1}
  BY <1>1
<1>5. Append(list, n) # <<>>
  BY <1>1
<1>. QED
  BY <1>1, <1>2, <1>3, <1>4, <1>5 DEF Words

\* A text that is not a backchannel is not empty, and consists of pending words
\* and the new segment.
LEMMA CombinedTyped ==
  ASSUME TypeOK, NEW kind \in Kinds, NEW b \in BOOLEAN, Hear,
         ~IsBackchannel(kind, b)
  PROVE  /\ Combined(kind) \in Seq(Numbers) \ {<<>>}
         /\ Words(Combined(kind)) \subseteq Words(pending) \cup {heard + 1}
<1>1. heard + 1 \in Numbers /\ pending \in Seq(Numbers)
  BY BoundsAssumption DEF TypeOK, Hear, Numbers
<1>2. CASE kind = "empty"
  BY <1>1, <1>2 DEF Combined, IsBackchannel
<1>3. CASE kind # "empty"
  BY <1>1, <1>3, AppendWords DEF Combined
<1>. QED
  BY <1>2, <1>3

\* The words of a typed text are segment numbers.
LEMMA WordsTyped ==
  ASSUME NEW list \in Seq(Numbers)
  PROVE  Words(list) \subseteq Numbers
  BY DEF Words

-----------------------------------------------------------------------------
\* Type correctness is kept by every step.
LEMMA TypeStep == TypeOK /\ [Next]_vars => TypeOK'
<1> SUFFICES ASSUME TypeOK, [Next]_vars
             PROVE  TypeOK'
  OBVIOUS
<1>. USE BoundsAssumption, ProfilesAssumption
<1>1. ASSUME NEW kind \in Kinds, NEW b \in BOOLEAN, Backchannel(kind, b)
      PROVE  TypeOK'
  BY <1>1 DEF Backchannel, Hear, TypeOK, bargeIn, Numbers
<1>2. ASSUME NEW kind \in Kinds, NEW b \in BOOLEAN, ContinueListening(kind, b)
      PROVE  TypeOK'
  <2>1. Combined(kind) \in Seq(Numbers)
    BY <1>2, CombinedTyped DEF ContinueListening
  <2>2. /\ heard + 1 \in Numbers /\ heard' = heard + 1
        /\ schedules' = schedules + 1 /\ schedules \in 0..heard
    BY <1>2 DEF ContinueListening, Hear, TypeOK, Numbers
  <2>3. running' \subseteq 1..schedules'
    BY <1>2, <2>2 DEF ContinueListening, Armed, Stopped, TypeOK
  <2>4. dropped' \subseteq Numbers
    BY <1>2, <2>2 DEF ContinueListening, TypeOK
  <2>. QED
    BY <1>2, <2>1, <2>2, <2>3, <2>4
       DEF ContinueListening, Hear, TypeOK, bargeIn, Numbers
<1>3. ASSUME NEW kind \in Kinds, NEW b \in BOOLEAN, FinalizeSegment(kind, b)
      PROVE  TypeOK'
  <2>1. Combined(kind) \in Seq(Numbers) \ {<<>>}
    BY <1>3, CombinedTyped DEF FinalizeSegment
  <2>2. /\ heard + 1 \in Numbers /\ heard' = heard + 1
    BY <1>3 DEF FinalizeSegment, Hear, TypeOK, Numbers
  <2>3. air' \subseteq Seq(Numbers) \ {<<>>}
    BY <1>3, <2>1 DEF FinalizeSegment, Emitted, TypeOK
  <2>4. dropped' \subseteq Numbers /\ pending' \in Seq(Numbers)
    BY <1>3, <2>2 DEF FinalizeSegment, TypeOK, Cleared
  <2>. QED
    BY <1>3, <2>2, <2>3, <2>4
       DEF FinalizeSegment, Hear, TypeOK, bargeIn, Numbers, Stopped
<1>4. ASSUME NEW n \in Numbers, Expire(n)
      PROVE  TypeOK'
  BY <1>4 DEF Expire, TypeOK, bargeIn
<1>5. ASSUME NEW n \in Numbers, Flush(n)
      PROVE  TypeOK'
  <2>1. pending' \in Seq(Numbers) /\ air' \subseteq Seq(Numbers) \ {<<>>}
    <3>1. CASE pending = <<>>
      BY <1>5, <3>1 DEF Flush, TypeOK
    <3>2. CASE pending # <<>>
      <4>1. pending \in Seq(Numbers) \ {<<>>}
        BY <3>2 DEF TypeOK
      <4>2. pending' = <<>> /\ air' \subseteq air \cup {pending}
        BY <1>5, <3>2 DEF Flush, Cleared, Emitted
      <4>. QED
        BY <4>1, <4>2 DEF TypeOK
    <3>. QED
      BY <3>1, <3>2
  <2>2. dropped' \subseteq Numbers
    BY <1>5, WordsTyped DEF Flush, TypeOK, Muted
  <2>. QED
    BY <1>5, <2>1, <2>2 DEF Flush, TypeOK, bargeIn, Stopped
<1>6. CASE Reset
  <2>1. dropped' \subseteq Numbers /\ pending' \in Seq(Numbers)
    BY <1>6, WordsTyped DEF Reset, TypeOK, Cleared
  <2>. QED
    BY <1>6, <2>1 DEF Reset, TypeOK, Stopped
<1>7. CASE Close
  BY <1>7 DEF Close, TypeOK, bargeIn, Stopped
<1>8. ASSUME NEW turn \in air, Write(turn)
      PROVE  TypeOK'
  BY <1>8 DEF Write, TypeOK, bargeIn
<1>9. CASE Playback
  <2>1. CASE HandleSpeechStart
    BY <2>1 DEF HandleSpeechStart, TypeOK, text
  <2>5. CASE QuietFrame
    BY <2>5 DEF QuietFrame, NoFrames, TypeOK, text
  <2>2. ASSUME NEW p \in Profiles, SetProfile(p)
        PROVE  TypeOK'
    BY <2>2 DEF SetProfile, TypeOK, text
  <2>3. ASSUME NEW b \in BOOLEAN, UpdatePlayback(b)
        PROVE  TypeOK'
    BY <2>3 DEF UpdatePlayback, TypeOK, text
  <2>4. ASSUME NEW b \in BOOLEAN, LoudFrame(b)
        PROVE  TypeOK'
    <3>1. Consecutive[profile] \in 2..4
      BY DEF Consecutive, TypeOK
    <3>2. frames' \in 0..3 /\ loud' \in 0..4 /\ yields' \in 0..MaxYields
      BY <2>4, <3>1 DEF LoudFrame, Counted, TypeOK
    <3>. QED
      BY <2>4, <3>2 DEF LoudFrame, TypeOK, text
  <2>. QED
    BY <1>9, <2>1, <2>2, <2>3, <2>4, <2>5 DEF Playback
<1>10. CASE UNCHANGED vars
  BY <1>10 DEF vars, TypeOK
<1>. QED
  BY <1>1, <1>2, <1>3, <1>4, <1>5, <1>6, <1>7, <1>8, <1>9, <1>10
     DEF Next, ConsumeSegment, Timer, WriteFrom

\* Every reachable state is typed; no finalized turn is empty.
THEOREM TypeCorrect == Spec => []TypeOK
<1>1. Init => TypeOK
  <2> SUFFICES ASSUME Init
               PROVE  TypeOK
    OBVIOUS
  <2>1. pending \in Seq(Numbers) /\ sent \in Seq(Seq(Numbers) \ {<<>>})
    BY DEF Init
  <2>2. heard \in 0..MaxSegments /\ yields \in 0..MaxYields
    BY BoundsAssumption DEF Init
  <2>3. /\ schedules \in 0..heard /\ forgotten \in 0..heard
        /\ timer \in 0..schedules
        /\ frames \in 0..3 /\ loud \in 0..4
    BY DEF Init
  <2>4. /\ running \subseteq 1..schedules /\ fired \subseteq 1..schedules
        /\ air \subseteq Seq(Numbers) \ {<<>>} /\ dropped \subseteq Numbers
        /\ closed \in BOOLEAN /\ playback \in BOOLEAN /\ profile \in Profiles
    BY DEF Init
  <2>. QED
    BY <2>1, <2>2, <2>3, <2>4 DEF TypeOK
<1>. QED
  BY <1>1, TypeStep, PTL DEF Spec

-----------------------------------------------------------------------------
(* The timer of the pending text.                                          *)

\* TimerInv is kept: every step that leaves text pending arms a timer and every
\* step that clears the field stops the timer it names.
LEMMA TimerStep == TypeOK /\ TimerInv /\ [Next]_vars => TimerInv'
<1> SUFFICES ASSUME TypeOK, TimerInv, [Next]_vars
             PROVE  TimerInv'
  OBVIOUS
<1>. USE DEF TimerInv, PendingIsTimed, NoOrphanTimer
<1>1. ASSUME NEW kind \in Kinds, NEW b \in BOOLEAN, Backchannel(kind, b)
      PROVE  TimerInv'
  BY <1>1 DEF Backchannel, Hear
<1>2. ASSUME NEW kind \in Kinds, NEW b \in BOOLEAN, ContinueListening(kind, b)
      PROVE  TimerInv'
  BY <1>2 DEF ContinueListening, Hear, Armed, Stopped
<1>3. ASSUME NEW kind \in Kinds, NEW b \in BOOLEAN, FinalizeSegment(kind, b)
      PROVE  TimerInv'
  BY <1>3 DEF FinalizeSegment, Hear, Stopped, Cleared
<1>4. ASSUME NEW n \in Numbers, Expire(n)
      PROVE  TimerInv'
  BY <1>4 DEF Expire
<1>5. ASSUME NEW n \in Numbers, Flush(n)
      PROVE  TimerInv'
  BY <1>5 DEF Flush, Stopped, Cleared
<1>6. CASE Reset
  BY <1>6 DEF Reset, Stopped, Cleared
<1>7. CASE Close
  BY <1>7 DEF Close, Stopped
<1>8. ASSUME NEW turn \in air, Write(turn)
      PROVE  TimerInv'
  BY <1>8 DEF Write
<1>9. CASE Playback
  BY <1>9 DEF Playback, SetProfile, UpdatePlayback, HandleSpeechStart,
         QuietFrame, LoudFrame, text
<1>10. CASE UNCHANGED vars
  BY <1>10 DEF vars
<1>. QED
  BY <1>1, <1>2, <1>3, <1>4, <1>5, <1>6, <1>7, <1>8, <1>9, <1>10
     DEF Next, ConsumeSegment, Timer, WriteFrom

\* PendingIsTimed and NoOrphanTimer together are inductive.
THEOREM TimerInvariant == Spec => []TimerInv
<1>1. Init => TimerInv
  BY DEF Init, TimerInv, PendingIsTimed, NoOrphanTimer
<1>. QED
  BY <1>1, TimerStep, TypeCorrect, PTL DEF Spec

\* Text that waits on an open connection has a timer that ticks or has fired.
THEOREM TextIsTimed == Spec => []PendingIsTimed
<1>1. TimerInv => PendingIsTimed
  BY DEF TimerInv
<1>. QED
  BY <1>1, TimerInvariant, PTL

\* No timer ticks beyond the reach of stopTimerLocked, and none after Close.
THEOREM NoTimerLeaks == Spec => []NoOrphanTimer
<1>1. TimerInv => NoOrphanTimer
  BY DEF TimerInv
<1>. QED
  BY <1>1, TimerInvariant, PTL

-----------------------------------------------------------------------------
(* Resets and the end of the connection.                                   *)

\* The pending words are younger than the last reset.
LEMMA FreshStep == TypeOK /\ FreshInv /\ [Next]_vars => FreshInv'
<1> SUFFICES ASSUME TypeOK, FreshInv, [Next]_vars
             PROVE  FreshInv'
  OBVIOUS
<1>0. heard \in Nat /\ forgotten \in 0..heard
  BY DEF TypeOK
<1>1. ASSUME NEW kind \in Kinds, NEW b \in BOOLEAN, Backchannel(kind, b)
      PROVE  FreshInv'
  <2>1. pending' = pending /\ forgotten' = forgotten /\ heard' = heard + 1
    BY <1>1 DEF Backchannel, Hear
  <2>2. Words(pending)' = Words(pending) /\ Words(pending) \subseteq Numbers
    BY <2>1, WordsTyped DEF TypeOK, Words
  <2>. QED
    BY <1>0, <2>1, <2>2, BoundsAssumption DEF FreshInv, Numbers
<1>2. ASSUME NEW kind \in Kinds, NEW b \in BOOLEAN, ContinueListening(kind, b)
      PROVE  FreshInv'
  <2>1. /\ pending' = Combined(kind)
        /\ forgotten' = forgotten /\ heard' = heard + 1
    BY <1>2 DEF ContinueListening, Hear
  <2>2. Words(pending)' \subseteq Words(pending) \cup {heard + 1}
    BY <1>2, <2>1, CombinedTyped DEF ContinueListening, Words
  <2>3. Words(pending) \subseteq Numbers
    BY WordsTyped DEF TypeOK
  <2>. QED
    BY <1>0, <2>1, <2>2, <2>3, BoundsAssumption DEF FreshInv, Numbers
<1>3. ASSUME pending' = <<>>
      PROVE  FreshInv'
  BY <1>3 DEF FreshInv, Words
<1>4. ASSUME pending' = pending, forgotten' = forgotten, heard' = heard
      PROVE  FreshInv'
  BY <1>4 DEF FreshInv, Words
<1>5. ASSUME NEW n \in Numbers, Timer(n)
      PROVE  FreshInv'
  <2>1. CASE Expire(n)
    BY <1>4, <2>1 DEF Expire
  <2>2. CASE Flush(n)
    BY <1>3, <1>4, <2>2 DEF Flush, Cleared
  <2>. QED
    BY <1>5, <2>1, <2>2 DEF Timer
<1>6. ASSUME NEW turn \in air, Write(turn)
      PROVE  FreshInv'
  BY <1>4, <1>6 DEF Write
<1>7. CASE Playback
  BY <1>4, <1>7 DEF Playback, SetProfile, UpdatePlayback, HandleSpeechStart,
         QuietFrame, LoudFrame, text
<1>8. ASSUME NEW kind \in Kinds, NEW b \in BOOLEAN, FinalizeSegment(kind, b)
      PROVE  FreshInv'
  BY <1>3, <1>8 DEF FinalizeSegment, Cleared
<1>9. CASE Reset \/ Close \/ UNCHANGED vars
  BY <1>3, <1>4, <1>9 DEF Reset, Close, Cleared, vars
<1>. QED
  BY <1>1, <1>2, <1>5, <1>6, <1>7, <1>8, <1>9
     DEF Next, ConsumeSegment, WriteFrom

\* The pending words are always younger than the last reset.
THEOREM PendingIsFresh == Spec => []FreshInv
<1>1. Init => FreshInv
  BY DEF Init, FreshInv, Words
<1>. QED
  BY <1>1, FreshStep, TypeCorrect, PTL DEF Spec

\* No step finalizes a turn with words from before the last reset: the words come
\* from the pending text or are the new segment.
THEOREM ResetsSeparateTurns == Spec => ResetSeparates
<1>. DEFINE Fresh == \A turn \in air' \ air : \A n \in Words(turn) : n > forgotten
<1>1. TypeOK /\ FreshInv /\ [Next]_vars => [Fresh]_vars
  <2> SUFFICES ASSUME TypeOK, FreshInv, Next, vars' # vars
               PROVE  Fresh
    OBVIOUS
  <2>0. heard \in Nat /\ forgotten \in 0..heard
    BY DEF TypeOK
  <2>1. ASSUME NEW kind \in Kinds, NEW b \in BOOLEAN, FinalizeSegment(kind, b)
        PROVE  Fresh
    <3>1. air' \ air \subseteq {Combined(kind)}
      BY <2>1 DEF FinalizeSegment, Emitted
    <3>2. Words(Combined(kind)) \subseteq Words(pending) \cup {heard + 1}
      BY <2>1, CombinedTyped DEF FinalizeSegment
    <3>3. Words(pending) \subseteq Numbers
      BY WordsTyped DEF TypeOK
    <3>. QED
      BY <2>0, <3>1, <3>2, <3>3, BoundsAssumption DEF FreshInv, Numbers
  <2>2. ASSUME NEW n \in Numbers, Flush(n)
        PROVE  Fresh
    <3>1. air' \ air \subseteq {pending}
      BY <2>2 DEF Flush, Emitted
    <3>2. Words(pending) \subseteq Numbers
      BY WordsTyped DEF TypeOK
    <3>. QED
      BY <2>0, <3>1, <3>2, BoundsAssumption DEF FreshInv, Numbers
  <2>3. ASSUME air' \subseteq air
        PROVE  Fresh
    BY <2>3
  <2>4. ASSUME NEW kind \in Kinds, NEW b \in BOOLEAN,
               Backchannel(kind, b) \/ ContinueListening(kind, b)
        PROVE  Fresh
    BY <2>3, <2>4 DEF Backchannel, ContinueListening
  <2>5. ASSUME NEW n \in Numbers, Expire(n) \/ WriteFrom(n)
        PROVE  Fresh
    BY <2>3, <2>5 DEF Expire, WriteFrom, Write
  <2>6. CASE Reset \/ Close \/ Playback
    BY <2>3, <2>6 DEF Reset, Close, Playback, SetProfile, UpdatePlayback,
           HandleSpeechStart, QuietFrame, LoudFrame, text
  <2>. QED
    BY <2>1, <2>2, <2>4, <2>5, <2>6 DEF Next, ConsumeSegment, Timer
<1>. QED
  BY <1>1, TypeCorrect, PendingIsFresh, PTL DEF Spec, ResetSeparates

\* A closed connection stays closed and neither emits nor receives anything.
THEOREM ClosedIsSilent == Spec => NothingAfterClose
<1>1. [Next]_vars => [closed => air' \subseteq air /\ sent' = sent /\ closed']_vars
  <2> SUFFICES ASSUME Next, closed
               PROVE  air' \subseteq air /\ sent' = sent /\ closed'
    OBVIOUS
  <2>1. PICK n \in Numbers : Expire(n) \/ Flush(n)
    BY DEF Next, ConsumeSegment, Backchannel, ContinueListening,
           FinalizeSegment, Hear, Reset, Close, Playback, SetProfile,
           UpdatePlayback, HandleSpeechStart, QuietFrame, LoudFrame, Timer,
           WriteFrom, Write
  <2>. QED
    BY <2>1 DEF Expire, Flush, Emitted
<1>. QED
  BY <1>1, PTL DEF Spec, NothingAfterClose

-----------------------------------------------------------------------------
(* Interruptions.                                                          *)

\* The controller counts no frame the observer has not counted.
CountInv == frames <= loud

\* Every step keeps the controller's count below the frames that were loud.
LEMMA CountStep == TypeOK /\ CountInv /\ [Next]_vars => CountInv'
<1> SUFFICES ASSUME TypeOK, CountInv, [Next]_vars
             PROVE  CountInv'
  OBVIOUS
<1>. USE DEF CountInv
<1>0. frames \in 0..3 /\ loud \in 0..4 /\ Consecutive[profile] \in 2..4
  BY ProfilesAssumption DEF TypeOK, Consecutive
<1>1. ASSUME UNCHANGED bargeIn
      PROVE  CountInv'
  BY <1>1 DEF bargeIn
<1>2. CASE Playback
  BY <1>0, <1>2 DEF Playback, SetProfile, UpdatePlayback, HandleSpeechStart, QuietFrame,
         NoFrames, LoudFrame, Counted
<1>3. CASE Reset
  BY <1>0, <1>3 DEF Reset
<1>4. CASE UNCHANGED vars
  BY <1>4 DEF vars
<1>. QED
  BY <1>1, <1>2, <1>3, <1>4 DEF Next, ConsumeSegment, Backchannel, ContinueListening,
     FinalizeSegment, Hear, Close, Timer, Expire, Flush, WriteFrom, Write

\* Loud speech interrupts only after as many consecutive loud frames as the profile in
\* force asks for.  (HandleSpeechProbability)
THEOREM YieldsAreEarned == Spec => YieldIsEarned
<1>1. Init => CountInv
  BY DEF Init, CountInv
<1>2. TypeOK /\ CountInv /\ [Next]_vars
        => [yields' # yields => loud + 1 >= Consecutive[profile]]_vars
  <2> SUFFICES ASSUME TypeOK, CountInv, Next, yields' # yields
               PROVE  loud + 1 >= Consecutive[profile]
    OBVIOUS
  <2>1. PICK b \in BOOLEAN : LoudFrame(b)
    BY DEF Next, ConsumeSegment, Backchannel, ContinueListening, FinalizeSegment, Hear,
       Close, Reset, Timer, Expire, Flush, WriteFrom, Write, bargeIn, Playback, SetProfile,
       UpdatePlayback, HandleSpeechStart, QuietFrame
  <2>2. frames \in 0..3 /\ loud \in 0..4 /\ Consecutive[profile] \in 2..4
    BY ProfilesAssumption DEF TypeOK, Consecutive
  <2>. QED
    BY <2>1, <2>2 DEF LoudFrame, CountInv
<1>. QED
  BY <1>1, <1>2, CountStep, TypeCorrect, PTL DEF Spec, YieldIsEarned

-----------------------------------------------------------------------------
(* No word is lost or said twice.                                          *)

\* The words of a text that is not a backchannel, exactly; they keep their order.
LEMMA CombinedWords ==
  ASSUME TypeOK, EverySegmentOnce, NEW kind \in Kinds, NEW b \in BOOLEAN, Hear,
         ~IsBackchannel(kind, b)
  PROVE  /\ Combined(kind) \in Seq(Numbers) \ {<<>>}
         /\ Words(Combined(kind)) =
              Words(pending) \cup (IF kind = "empty" THEN {} ELSE {heard + 1})
         /\ \A i, j \in 1..Len(Combined(kind)) : i < j => Combined(kind)[i] < Combined(kind)[j]
<1>1. heard + 1 \in Numbers /\ pending \in Seq(Numbers) /\ heard \in Nat
  BY BoundsAssumption DEF TypeOK, Hear, Numbers
<1>2. Words(pending) \subseteq 1..heard
  BY DEF EverySegmentOnce
<1>3. \A i, j \in 1..Len(pending) : i < j => pending[i] < pending[j]
  BY DEF EverySegmentOnce
<1>4. CASE kind = "empty"
  BY <1>1, <1>3, <1>4, CombinedTyped DEF Combined
<1>5. CASE kind # "empty"
  <2>1. Combined(kind) = Append(pending, heard + 1)
    BY <1>5 DEF Combined
  <2>2. \A i \in 1..Len(pending) : pending[i] <= heard /\ pending[i] \in Nat
    BY <1>1, <1>2 DEF Words
  <2>3. \A i, j \in 1..Len(Combined(kind)) : i < j => Combined(kind)[i] < Combined(kind)[j]
    BY <1>1, <1>3, <2>1, <2>2
  <2>. QED
    BY <1>1, <1>5, <2>1, <2>3, AppendWords
<1>. QED
  BY <1>4, <1>5

\* The words of all turns.
Said == UNION {Words(turn) : turn \in Turns}

\* A turn made of pending words (flushLocked) says what was pending, and only that.
LEMMA NewTurn ==
  ASSUME TypeOK, EverySegmentOnce, NEW new \in Seq(Numbers) \ {<<>>},
         Words(new) \cap Said = {}, Words(new) \cap dropped' = {},
         \A i, j \in 1..Len(new) : i < j => new[i] < new[j],
         air' = air \cup {new}, sent' = sent, pending' = <<>>,
         1..heard' = dropped' \cup Said \cup Words(new), dropped' \cap Said = {}
  PROVE  EverySegmentOnce'
<1>1. Turns' = Turns \cup {new}
  BY DEF Turns
<1>2. Words(new) # {}
  BY DEF Words
<1>3. Words(pending') = {}
  BY DEF Words
<1>4. \A turn \in Turns : Words(turn) \subseteq Said
  BY DEF Said
<1>5. \A turn \in Turns : turn # new /\ Words(turn) \cap Words(new) = {}
  BY <1>2, <1>4
<1>6. Said' = Said \cup Words(new)
  BY <1>1 DEF Said, Words
<1>7. \A turn \in air' : \A i \in 1..Len(sent') : sent'[i] # turn
  BY <1>5 DEF EverySegmentOnce, Turns
<1>8. \A turn, other \in Turns' : turn # other => Words(turn) \cap Words(other) = {}
  BY <1>1, <1>5 DEF EverySegmentOnce
<1>9. \A turn \in Turns' \cup {pending'} : \A i, j \in 1..Len(turn) : i < j => turn[i] < turn[j]
  BY <1>1 DEF EverySegmentOnce
<1>10. /\ 1..heard' = dropped' \cup Words(pending') \cup Said'
       /\ dropped' \cap (Words(pending') \cup Said') = {}
  BY <1>3, <1>6
<1>11. \A i, j \in 1..Len(sent') : sent'[i] = sent'[j] => i = j
  BY DEF EverySegmentOnce
<1>. QED
  BY <1>3, <1>7, <1>8, <1>9, <1>10, <1>11 DEF EverySegmentOnce, Said, Words

\* Words that move without a new turn.
LEMMA SameTurns ==
  ASSUME TypeOK, EverySegmentOnce, air' = air, sent' = sent,
         1..heard' = dropped' \cup Words(pending') \cup Said,
         dropped' \cap (Words(pending') \cup Said) = {}, Words(pending') \cap Said = {},
         \A i, j \in 1..Len(pending') : i < j => pending'[i] < pending'[j]
  PROVE  EverySegmentOnce'
<1>1. Turns' = Turns /\ Said' = Said
  BY DEF Said, Turns
<1>2. \A turn \in Turns : Words(pending') \cap Words(turn) = {}
  BY DEF Said
<1>. QED
  BY <1>1, <1>2 DEF EverySegmentOnce, Said, Words

\* Every step says, keeps or drops each segment once.
LEMMA OnceStep == TypeOK /\ EverySegmentOnce /\ [Next]_vars => EverySegmentOnce'
<1> SUFFICES ASSUME TypeOK, EverySegmentOnce, [Next]_vars
             PROVE  EverySegmentOnce'
  OBVIOUS
<1>0. /\ heard \in Nat /\ 1..heard = dropped \cup Words(pending) \cup Said
      /\ dropped \cap (Words(pending) \cup Said) = {} /\ Words(pending) \cap Said = {}
      /\ \A i, j \in 1..Len(pending) : i < j => pending[i] < pending[j]
      /\ Words(<<>>) = {}
  <2>1. heard \in Nat
    BY DEF TypeOK
  <2>2. /\ 1..heard = dropped \cup Words(pending) \cup Said
        /\ dropped \cap (Words(pending) \cup Said) = {}
        /\ \A i, j \in 1..Len(pending) : i < j => pending[i] < pending[j]
    BY DEF EverySegmentOnce, Said
  <2>3. Words(pending) \cap Said = {}
    <3>1. \A turn \in Turns : Words(pending) \cap Words(turn) = {}
      BY DEF EverySegmentOnce
    <3>. QED
      BY <3>1 DEF Said
  <2>4. Words(<<>>) = {}
    BY DEF Words
  <2>. QED
    BY <2>1, <2>2, <2>3, <2>4
<1>1. 1..(heard + 1) = 1..heard \cup {heard + 1} /\ heard + 1 \notin 1..heard
  BY <1>0
<1>2. ASSUME NEW kind \in Kinds, NEW b \in BOOLEAN, Backchannel(kind, b)
      PROVE  EverySegmentOnce'
  <2>1. /\ pending' = pending /\ air' = air /\ sent' = sent /\ heard' = heard + 1
        /\ dropped' = dropped \cup {heard + 1}
    BY <1>2 DEF Backchannel, Hear
  <2>2. Words(pending') = Words(pending)
    BY <2>1
  <2>3. 1..heard' = dropped' \cup Words(pending') \cup Said
    BY <1>0, <1>1, <2>1, <2>2
  <2>4. dropped' \cap (Words(pending') \cup Said) = {} /\ Words(pending') \cap Said = {}
    BY <1>0, <1>1, <2>1, <2>2
  <2>. QED
    BY <1>0, <2>1, <2>3, <2>4, SameTurns
<1>3. ASSUME NEW kind \in Kinds, NEW b \in BOOLEAN, ContinueListening(kind, b)
      PROVE  EverySegmentOnce'
  <2> DEFINE new == IF kind = "empty" THEN {} ELSE {heard + 1}
  <2>1. /\ pending' = Combined(kind) /\ air' = air /\ sent' = sent /\ heard' = heard + 1
        /\ dropped' = dropped \cup ({heard + 1} \ new)
    BY <1>3 DEF ContinueListening, Hear
  <2>2. /\ Words(pending') = Words(pending) \cup new
        /\ \A i, j \in 1..Len(pending') : i < j => pending'[i] < pending'[j]
    BY <1>3, <2>1, CombinedWords DEF ContinueListening
  <2>3. new \subseteq {heard + 1}
    OBVIOUS
  <2> HIDE DEF new
  <2>4. 1..heard' = dropped' \cup Words(pending') \cup Said
    BY <1>0, <1>1, <2>1, <2>2, <2>3
  <2>5. dropped' \cap (Words(pending') \cup Said) = {} /\ Words(pending') \cap Said = {}
    BY <1>0, <1>1, <2>1, <2>2, <2>3
  <2>. QED
    BY <2>1, <2>2, <2>4, <2>5, SameTurns
<1>4. ASSUME NEW kind \in Kinds, NEW b \in BOOLEAN, FinalizeSegment(kind, b)
      PROVE  EverySegmentOnce'
  <2> DEFINE new == IF kind = "empty" THEN {} ELSE {heard + 1}
  <2> DEFINE turn == Combined(kind)
  <2>1. /\ pending' = <<>> /\ air' = air \cup {turn} /\ sent' = sent /\ heard' = heard + 1
        /\ dropped' = dropped \cup ({heard + 1} \ new)
    BY <1>4 DEF FinalizeSegment, Hear, Cleared, Emitted
  <2>2. /\ turn \in Seq(Numbers) \ {<<>>} /\ Words(turn) = Words(pending) \cup new
        /\ \A i, j \in 1..Len(turn) : i < j => turn[i] < turn[j]
    BY <1>4, CombinedWords DEF FinalizeSegment
  <2>3. new \subseteq {heard + 1}
    OBVIOUS
  <2> HIDE DEF new, turn
  <2>4. 1..heard' = dropped' \cup Said \cup Words(turn)
    BY <1>0, <1>1, <2>1, <2>2, <2>3
  <2>5. /\ dropped' \cap Said = {} /\ Words(turn) \cap Said = {}
        /\ Words(turn) \cap dropped' = {}
    BY <1>0, <1>1, <2>1, <2>2, <2>3
  <2>. QED
    BY <2>1, <2>2, <2>4, <2>5, NewTurn
<1>5. ASSUME air' = air, sent' = sent, heard' = heard, pending' = pending, dropped' = dropped
      PROVE  EverySegmentOnce'
  BY <1>0, <1>5, SameTurns
<1>6. ASSUME air' = air, sent' = sent, heard' = heard, pending' = <<>>,
             dropped' = dropped \cup Words(pending)
      PROVE  EverySegmentOnce'
  <2>1. Words(pending') = {} /\ Len(pending') = 0
    BY <1>0, <1>6
  <2>2. 1..heard' = dropped' \cup Words(pending') \cup Said
    BY <1>0, <1>6, <2>1
  <2>3. dropped' \cap (Words(pending') \cup Said) = {} /\ Words(pending') \cap Said = {}
    BY <1>0, <1>6, <2>1
  <2>4. \A i, j \in 1..Len(pending') : i < j => pending'[i] < pending'[j]
    BY <2>1
  <2>. QED
    BY <1>6, <2>2, <2>3, <2>4, SameTurns
<1>7. ASSUME NEW n \in Numbers, Timer(n)
      PROVE  EverySegmentOnce'
  <2>1. CASE Expire(n)
    BY <1>5, <2>1 DEF Expire
  <2>2. CASE Flush(n) /\ pending = <<>>
    BY <1>5, <2>2 DEF Flush
  <2>3. CASE Flush(n) /\ pending # <<>> /\ closed
    BY <1>6, <2>3 DEF Flush, Cleared, Emitted, Muted
  <2>4. CASE Flush(n) /\ pending # <<>> /\ ~closed
    <3>1. /\ air' = air \cup {pending} /\ sent' = sent /\ heard' = heard
          /\ pending' = <<>> /\ dropped' = dropped
      BY <2>4 DEF Flush, Cleared, Emitted, Muted
    <3>2. pending \in Seq(Numbers) \ {<<>>}
      BY <2>4 DEF TypeOK
    <3>3. 1..heard' = dropped' \cup Said \cup Words(pending)
      BY <1>0, <3>1
    <3>4. /\ dropped' \cap Said = {} /\ Words(pending) \cap Said = {}
          /\ Words(pending) \cap dropped' = {}
      BY <1>0, <3>1
    <3>. QED
      BY <1>0, <3>1, <3>2, <3>3, <3>4, NewTurn
  <2>. QED
    BY <1>7, <2>1, <2>2, <2>3, <2>4 DEF Timer
<1>8. ASSUME NEW turn \in air, Write(turn)
      PROVE  EverySegmentOnce'
  <2>1. /\ air' = air \ {turn} /\ sent' = Append(sent, turn)
        /\ UNCHANGED <<heard, pending, dropped>>
    BY <1>8 DEF Write
  <2>2. /\ sent \in Seq(Seq(Numbers) \ {<<>>}) /\ turn \in Seq(Numbers) \ {<<>>}
    BY DEF TypeOK
  <2>3. /\ Len(sent') = Len(sent) + 1 /\ Len(sent) \in Nat
        /\ \A i \in 1..Len(sent) : sent'[i] = sent[i]
        /\ sent'[Len(sent) + 1] = turn
    BY <2>1, <2>2
  <2>4. 1..Len(sent') = 1..Len(sent) \cup {Len(sent) + 1}
    BY <2>3
  <2>5. Turns' = Turns
    BY <2>1, <2>3, <2>4 DEF Turns
  <2>6. \A i \in 1..Len(sent) : sent[i] # turn
    BY DEF EverySegmentOnce
  <2>7. \A t \in air' : \A i \in 1..Len(sent') : sent'[i] # t
    BY <2>1, <2>3, <2>4 DEF EverySegmentOnce
  <2>8. \A i, j \in 1..Len(sent') : sent'[i] = sent'[j] => i = j
    BY <2>3, <2>4, <2>6 DEF EverySegmentOnce
  <2>. QED
    BY <2>1, <2>5, <2>7, <2>8 DEF EverySegmentOnce
<1>9. CASE Playback
  BY <1>5, <1>9 DEF Playback, SetProfile, UpdatePlayback, HandleSpeechStart,
         QuietFrame, LoudFrame, text
<1>10. CASE Reset
  BY <1>6, <1>10 DEF Reset, Cleared
<1>11. CASE Close \/ UNCHANGED vars
  BY <1>5, <1>11 DEF Close, vars
<1>. QED
  BY <1>2, <1>3, <1>4, <1>7, <1>8, <1>9, <1>10, <1>11 DEF Next, ConsumeSegment, WriteFrom

\* What the user said is neither lost nor said twice, and keeps its order, for any number
\* of segments.  (ConsumeSegment, Flush, emitLocked)
THEOREM SegmentsOnce == Spec => []EverySegmentOnce
<1>1. Init => EverySegmentOnce
  <2> SUFFICES ASSUME Init
               PROVE  EverySegmentOnce
    OBVIOUS
  <2>1. Words(pending) = {} /\ Turns = {} /\ 1..heard = {}
    BY DEF Init, Words, Turns
  <2>. QED
    BY <2>1 DEF Init, EverySegmentOnce
<1>. QED
  BY <1>1, OnceStep, TypeCorrect, PTL DEF Spec

=============================================================================
