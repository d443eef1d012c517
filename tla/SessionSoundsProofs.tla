------------------------ MODULE SessionSoundsProofs ------------------------
(***************************************************************************)
(* Theorems about SessionSounds, for a learner who waits for the screen:   *)
(* any sets, words, page size, failing reads and number of waiting calls.  *)
(***************************************************************************)
EXTENDS SessionSounds, TypingSessionProofs

\* The ref of line 44 holds what the last render has shown.
RefInv == prevIsMatch = isMatch(shown)

\* A word that is about to appear comes with an empty text.
TextInv == currentWord(state) # currentWord(shown) => state.text = ""

\* On the way home only the page changes, and no page of words is on its way.
HomeInv == state.page = "home" => micro = <<>> /\ state = [shown EXCEPT !.page = "home"]

\* At home the player is silent, or "stop" is the last call that waits for it.
StopInv ==
    shown.page = "home" =>
        \/ requests = <<>> /\ ~player.playing
        \/ requests # <<>> /\ requests[Len(requests)] = "stop"

Requests == {"key", "success", "stop"}
Players == [sound : {"none", "key", "success"}, playing : BOOLEAN]
SoundTypeOK == requests \in Seq(Requests) /\ player \in Players

SoundInv == IInv /\ SoundTypeOK /\ RefInv /\ TextInv /\ HomeInv /\ StopInv

----------------------------------------------------------------------------
(* The session under its sounds.                                           *)

LEMMA ShiftHolds == IInv /\ PressShift => IInv'
<1> SUFFICES ASSUME IInv, PressShift PROVE IInv'
  OBVIOUS
<1> USE DEF IInv, PressShift, Tap, Event
<1>1. TypeOK'
  BY EventCounted DEF TypeOK
<1>2. OwnWords' /\ CurrentWordExists'
  BY DEF OwnWords, CurrentWordExists
<1>3. SetInv' /\ StartInv' /\ AheadInv'
  BY DEF SetInv, StartInv, AheadInv
<1>4. MicroInv'
  <2> SUFFICES ASSUME NEW i \in 1..Len(micro) PROVE EntryInv(micro[i])'
    BY DEF MicroInv
  <2>1. EntryInv(micro[i]) /\ micro # <<>>
    BY SomeElement DEF MicroInv
  <2> QED
    BY <2>1 DEF EntryInv, LoadEntry, MoveEntry, Idle
<1> QED
  BY <1>1, <1>2, <1>3, <1>4

\* A step with sounds is a step of the session, none, or a tap on shift.
LEMMA StepOfSession ==
    [PatientSoundNext]_soundVars => [PatientNext]_sessionVars \/ PressShift
<1> SUFFICES ASSUME [PatientSoundNext]_soundVars, ~PressShift
             PROVE  [PatientNext]_sessionVars
  OBVIOUS
<1>1. CASE SoundRuntime
  BY <1>1 DEF SoundRuntime, Silently, RenderSounds, PlaySound, StopSound, SoundEnds,
              PatientNext, Runtime
<1>2. CASE Settled /\ SoundLearner
  BY <1>2 DEF SoundLearner, Silently, PressKey, PatientNext, Learner
<1>3. CASE UNCHANGED soundVars
  BY <1>3 DEF soundVars
<1> QED
  BY <1>1, <1>2, <1>3 DEF PatientSoundNext

LEMMA SessionHolds == IInv /\ [PatientSoundNext]_soundVars => IInv'
<1>1. [PatientNext]_sessionVars => [Next]_sessionVars
  BY DEF PatientNext, Next
<1> QED
  BY <1>1, StepOfSession, StepHolds, ShiftHolds

----------------------------------------------------------------------------
(* The match and the text.                                                 *)

\* What a step without a render leaves on the screen.
LEMMA ScreenStays ==
    [PatientSoundNext]_soundVars /\ ~RenderSounds => shown' = shown /\ prevIsMatch' = prevIsMatch
BY DEF PatientSoundNext, SoundRuntime, SoundLearner, Silently, PlaySound, StopSound,
       SoundEnds, PressKey, PressShift, EndOfTask, Resume, TapSkip, TapNext, Swipe, TapKey,
       TapHome, StartTyping, soundVars, sessionVars

LEMMA RefHolds == RefInv /\ [PatientSoundNext]_soundVars => RefInv'
<1>1. RenderSounds => RefInv'
  BY DEF RenderSounds, Render, RefInv, isMatch, targetWord, currentWord
<1>2. RefInv /\ shown' = shown /\ prevIsMatch' = prevIsMatch => RefInv'
  BY DEF RefInv, isMatch, targetWord, currentWord
<1> QED
  BY <1>1, <1>2, ScreenStays

\* What a learner who waits can do to App's state.
LEMMA MoveOnText ==
    ASSUME TypeOK, NEW rendered \in BOOLEAN, MoveOn(rendered)
    PROVE  state' = state \/ state'.text = ""
BY DEF MoveOn, TypeOK, View

LEMMA StartsEmpty ==
    ASSUME NEW set \in Sets, StartTyping(set) PROVE state'.text = "" /\ state'.page = "typing"
<1>1. state' = [page |-> "typing", set |-> set, index |-> 0, words |-> <<>>,
                isLoading |-> TRUE, text |-> ""]
  BY DEF StartTyping
<1> QED
  BY ONLY <1>1

LEMMA LearnerText ==
    ASSUME TypeOK, Settled, SoundLearner PROVE state' = state \/ state'.text = ""
                                  \/ currentWord(state') = currentWord(state)
<1>1. state \in View
  BY DEF TypeOK
<1>2. CASE PressKey
  BY <1>1, <1>2 DEF PressKey, TapKey, currentWord, View
<1>3. CASE PressShift
  BY <1>3 DEF PressShift
<1>4. CASE TapHome
  BY <1>1, <1>4 DEF TapHome, currentWord, View
<1>5. CASE TapSkip \/ TapNext \/ Swipe
  BY <1>5, MoveOnText DEF TapSkip, TapNext, Swipe
<1>6. CASE \E set \in Sets : StartTyping(set)
  BY <1>6, StartsEmpty
<1> QED
  BY <1>2, <1>3, <1>4, <1>5, <1>6 DEF SoundLearner, Silently

LEMMA TextHolds == TypeOK /\ TextInv /\ [PatientSoundNext]_soundVars => TextInv'
<1> SUFFICES ASSUME TypeOK, TextInv, [PatientSoundNext]_soundVars PROVE TextInv'
  OBVIOUS
<1>1. CASE Settled /\ SoundLearner
  <2>1. state = shown /\ shown' = shown
    BY <1>1 DEF Settled, SoundLearner, Silently, PressKey, PressShift, TapSkip, TapNext,
                Swipe, TapKey, TapHome, StartTyping
  <2> QED
    BY <1>1, <2>1, LearnerText DEF TextInv, currentWord
<1>2. CASE Silently(Resume)
  <2>1. shown' = shown /\ (state' = state \/ state'.text = "")
    BY <1>2 DEF Silently, Resume, AfterLoad, AfterMove, TypeOK, View
  <2> QED
    BY <2>1 DEF TextInv, currentWord
<1>3. CASE RenderSounds
  BY <1>3 DEF RenderSounds, Render, TextInv, currentWord
<1>4. CASE UNCHANGED <<state, shown>>
  BY <1>4 DEF TextInv, currentWord
<1> QED
  BY <1>1, <1>2, <1>3, <1>4 DEF PatientSoundNext, SoundRuntime, Silently, EndOfTask,
     PlaySound, StopSound, SoundEnds, soundVars, sessionVars

\* A word that is shown is not the empty text.
LEMMA TargetIsWord ==
    ASSUME NEW view \in View
    PROVE  targetWord(view) = "" <=> currentWord(view) = NoWord
<1>1. view.words \in Seq(Words) /\ view.index \in Nat
  BY DEF View
<1>2. view.index < Len(view.words) => view.words[view.index + 1] \in Words
  BY <1>1, ElementAt
<1> QED
  BY <1>2, WordAssumption DEF targetWord, currentWord

----------------------------------------------------------------------------
(* The way home, and the player's calls.                                   *)

LEMMA HomeHolds == TypeOK /\ HomeInv /\ [PatientSoundNext]_soundVars => HomeInv'
<1> SUFFICES ASSUME TypeOK, HomeInv, [PatientSoundNext]_soundVars PROVE HomeInv'
  OBVIOUS
<1>1. state \in View /\ shown \in View
  BY DEF TypeOK
<1>2. CASE RenderSounds
  BY <1>1, <1>2 DEF RenderSounds, Render, HomeInv, View
<1>3. CASE Silently(Resume)
  <2>1. state.page # "home" /\ state'.page = state.page
    BY <1>1, <1>3 DEF Silently, Resume, AfterLoad, AfterMove, HomeInv, View
  <2> QED
    BY <2>1 DEF HomeInv
<1>4. CASE Settled /\ TapHome
  BY <1>1, <1>4 DEF Settled, Idle, TapHome, HomeInv
<1>5. CASE Settled /\ shown.page = "typing" /\ (TapKey \/ TapSkip \/ TapNext \/ Swipe)
  <2>1. state'.page = "typing"
    BY <1>1, <1>5 DEF Settled, TapKey, TapSkip, TapNext, Swipe, MoveOn, View
  <2> QED
    BY <2>1 DEF HomeInv
<1>6. CASE \E set \in Sets : StartTyping(set)
  <2>1. state'.page = "typing"
    BY <1>6, StartsEmpty
  <2> QED
    BY <2>1 DEF HomeInv
<1>7. CASE UNCHANGED <<state, shown, micro>>
  BY <1>7 DEF HomeInv
<1> QED
  BY <1>2, <1>3, <1>4, <1>5, <1>6, <1>7 DEF PatientSoundNext, SoundRuntime, SoundLearner,
     Silently, PressKey, PressShift, TapKey, TapSkip, TapNext, Swipe, EndOfTask, PlaySound,
     StopSound, SoundEnds, soundVars, sessionVars

LEMMA LastOfTail ==
    ASSUME NEW S, NEW s \in Seq(S), s # <<>>
    PROVE  /\ Tail(s) \in Seq(S)
           /\ Tail(s) # <<>> => Tail(s)[Len(Tail(s))] = s[Len(s)]
           /\ Tail(s) = <<>> => Head(s) = s[Len(s)]
<1>1. /\ Len(s) \in Nat \ {0} /\ Tail(s) \in Seq(S) /\ Len(Tail(s)) = Len(s) - 1
      /\ \A i \in 1..Len(Tail(s)) : Tail(s)[i] = s[i + 1]
  BY EmptySeq, HeadTailProperties
<1>2. Tail(s) # <<>> => Len(Tail(s)) \in 1..Len(Tail(s)) /\ Len(Tail(s)) + 1 = Len(s)
  BY <1>1, EmptySeq
<1>3. Tail(s) = <<>> => Len(s) = 1
  BY <1>1, EmptySeq
<1> QED
  BY <1>1, <1>2, <1>3

\* The render that goes home makes no call after "stop".
LEMMA NoSuccessAtHome ==
    ASSUME TypeOK, HomeInv, state.page = "home" PROVE Success = <<>>
<1>1. state = [shown EXCEPT !.page = "home"] /\ shown \in View
  BY DEF HomeInv, TypeOK
<1>2. state.text = shown.text /\ state.index = shown.index /\ state.words = shown.words
  BY <1>1 DEF View
<1>3. isMatch(state) = isMatch(shown) /\ targetWord(state) = targetWord(shown)
  BY <1>2 DEF isMatch, targetWord, currentWord
<1> QED
  BY <1>3 DEF Success

LEMMA SoundTypeHolds == SoundTypeOK /\ [PatientSoundNext]_soundVars => SoundTypeOK'
<1> SUFFICES ASSUME SoundTypeOK, [PatientSoundNext]_soundVars PROVE SoundTypeOK'
  OBVIOUS
<1> USE DEF SoundTypeOK
<1>1. CASE RenderSounds
  <2>1. Release \in Seq(Requests) /\ Success \in Seq(Requests)
    <3>1. <<>> \in Seq(Requests) /\ <<"stop">> \in Seq(Requests)
          /\ <<"success">> \in Seq(Requests)
      BY DEF Requests
    <3>2. Release \in {<<>>, <<"stop">>} /\ Success \in {<<>>, <<"success">>}
      BY DEF Release, Success
    <3> QED
      BY ONLY <3>1, <3>2
  <2>2. requests' \in Seq(Requests)
    BY <1>1, <2>1, ConcatProperties DEF RenderSounds
  <2> QED
    BY <1>1, <2>2 DEF RenderSounds
<1>2. CASE PlaySound \/ StopSound \/ SoundEnds
  <2>1. requests' \in Seq(Requests)
    BY <1>2, HeadTailProperties DEF PlaySound, StopSound, SoundEnds
  <2>2. player' \in Players
    <3>1. \/ player' = player
          \/ player' = [player EXCEPT !.playing = FALSE]
          \/ /\ player' = [sound |-> Head(requests), playing |-> TRUE]
             /\ Head(requests) \in {"key", "success"}
      BY <1>2 DEF PlaySound, StopSound, SoundEnds
    <3>2. player \in Players
      OBVIOUS
    <3>3. player' = [player EXCEPT !.playing = FALSE] => player' \in Players
      BY ONLY <3>2 DEF Players
    <3>4. \A sound \in {"key", "success"} : [sound |-> sound, playing |-> TRUE] \in Players
      BY ONLY DEF Players
    <3> QED
      BY ONLY <3>1, <3>2, <3>3, <3>4
  <2> QED
    BY <2>1, <2>2
<1>3. CASE PressKey \/ PressShift
  <2>1. requests' = Append(requests, "key") /\ player' = player /\ "key" \in Requests
    BY <1>3 DEF PressKey, PressShift, Call, Requests
  <2> QED
    BY <2>1, AppendProperties
<1>4. CASE UNCHANGED <<requests, player>>
  BY <1>4
<1> QED
  BY <1>1, <1>2, <1>3, <1>4 DEF PatientSoundNext, SoundRuntime, SoundLearner, Silently,
     soundVars

LEMMA StopHolds ==
    TypeOK /\ SoundTypeOK /\ HomeInv /\ StopInv /\ [PatientSoundNext]_soundVars => StopInv'
<1> SUFFICES ASSUME TypeOK, SoundTypeOK, HomeInv, StopInv, [PatientSoundNext]_soundVars
             PROVE  StopInv'
  OBVIOUS
<1>1. requests \in Seq(Requests) /\ player \in Players
  BY DEF SoundTypeOK
<1>2. CASE RenderSounds
  <2> SUFFICES ASSUME state.page = "home"
               PROVE  \/ requests' = <<>> /\ ~player'.playing
                      \/ requests' # <<>> /\ requests'[Len(requests')] = "stop"
    BY <1>2 DEF RenderSounds, Render, StopInv
  <2>1. Success = <<>> /\ requests' = requests \o Release \o <<>> /\ player' = player
    BY <1>2, NoSuccessAtHome DEF RenderSounds
  <2>2. CASE shown.page = "typing"
    <3>1. "stop" \in Requests /\ requests' = Append(requests, "stop") \o <<>>
      BY <1>1, <2>1, <2>2 DEF Release, Requests
    <3>2. Append(requests, "stop") \in Seq(Requests)
      BY <1>1, <3>1, AppendProperties
    <3>3. requests' = Append(requests, "stop")
      BY <3>1, <3>2, ConcatEmptySeq
    <3>4. Len(requests') = Len(requests) + 1
      BY <1>1, <3>1, <3>3, AppendProperties
    <3> QED
      BY <1>1, <3>1, <3>3, <3>4, AppendProperties
  <2>3. CASE shown.page = "home"
    <3>1. requests' = requests
      BY <1>1, <2>1, <2>3, ConcatEmptySeq DEF Release
    <3> QED
      BY <2>1, <2>3, <3>1 DEF StopInv
  <2> QED
    BY <2>2, <2>3 DEF TypeOK, View
<1>3. CASE PlaySound \/ StopSound
  <2>1. /\ requests # <<>> /\ requests' = Tail(requests) /\ shown' = shown
        /\ requests[Len(requests)] = "stop" /\ Tail(requests) = <<>> => Head(requests) = "stop"
        /\ Tail(requests) # <<>> =>
              Tail(requests)[Len(Tail(requests))] = requests[Len(requests)]
    BY <1>1, <1>3, LastOfTail DEF PlaySound, StopSound, sessionVars
  <2>2. Head(requests) = "stop" => ~player'.playing
    BY <1>1, <1>3 DEF PlaySound, StopSound, Players
  <2> QED
    BY <2>1, <2>2 DEF StopInv
<1>4. CASE SoundEnds
  BY <1>1, <1>4 DEF SoundEnds, StopInv, Players, sessionVars
<1>5. CASE PressKey \/ PressShift
  BY <1>5 DEF PressKey, PressShift, TapKey, StopInv
<1>6. CASE UNCHANGED <<requests, player>> /\ shown' = shown
  BY <1>6 DEF StopInv
<1> QED
  BY <1>2, <1>3, <1>4, <1>5, <1>6, ScreenStays DEF PatientSoundNext, SoundRuntime,
     SoundLearner, Silently, soundVars

----------------------------------------------------------------------------
LEMMA NoWordMatches ==
    ASSUME NEW view, view.text = "", view.words = <<>>, view.index = 0 PROVE isMatch(view)
<1>1. Len(view.words) = 0
  BY EmptySeq
<1>2. currentWord(view) = NoWord
  BY ONLY <1>1, view.index = 0 DEF currentWord
<1> QED
  BY <1>2 DEF isMatch, targetWord

LEMMA SoundInitHolds == SoundInit => SoundInv
<1> SUFFICES ASSUME SoundInit PROVE SoundInv
  OBVIOUS
<1>1. state = InitialView /\ shown = InitialView /\ micro = <<>> /\ requests = <<>>
      /\ player = [sound |-> "none", playing |-> FALSE] /\ prevIsMatch = TRUE
  BY DEF SoundInit, Init
<1>2. IInv
  BY InitHolds DEF SoundInit
<1>3. SoundTypeOK /\ TextInv /\ StopInv
  BY <1>1 DEF SoundTypeOK, TextInv, StopInv, Players
<1>4. HomeInv
  BY <1>1 DEF HomeInv, InitialView
<1>5. RefInv
  <2>1. shown.text = "" /\ shown.words = <<>> /\ shown.index = 0
    BY <1>1 DEF InitialView
  <2> QED
    BY <1>1, <2>1, NoWordMatches DEF RefInv
<1> QED
  BY <1>2, <1>3, <1>4, <1>5 DEF SoundInv

LEMMA SoundStepHolds == SoundInv /\ [PatientSoundNext]_soundVars => SoundInv'
BY SessionHolds, SoundTypeHolds, RefHolds, TextHolds, HomeHolds, StopHolds DEF SoundInv, IInv

\* What the player is asked to do, and what the screen shows, at every moment of a
\* session with its sounds: the strengthened invariant of the theorems below.
THEOREM SoundInductive == PatientSoundSpec => []SoundInv
BY SoundInitHolds, SoundStepHolds, PTL DEF PatientSoundSpec

\* Nothing is heard on the home page once the player has taken its calls
\* (KoreanKeyboard.tsx:52), however many calls were waiting when the learner left.
THEOREM HomeIsSilent == PatientSoundSpec => []SilentAtHome
<1>1. SoundInv => SilentAtHome
  BY DEF SoundInv, StopInv, SilentAtHome
<1> QED
  BY <1>1, SoundInductive, PTL

LEMMA SuccessIsMatch ==
    SoundInv => (Success = <<"success">> <=>
        Matched(state) /\ ~(Matched(shown) /\ currentWord(shown) = currentWord(state)))
<1> SUFFICES ASSUME SoundInv PROVE Success = <<"success">> <=>
        Matched(state) /\ ~(Matched(shown) /\ currentWord(shown) = currentWord(state))
  OBVIOUS
<1>1. state \in View /\ shown \in View
  BY DEF SoundInv, IInv, TypeOK
<1>2. /\ targetWord(state) = "" <=> currentWord(state) = NoWord
      /\ targetWord(shown) = "" <=> currentWord(shown) = NoWord
  BY <1>1, TargetIsWord
<1>3. prevIsMatch = isMatch(shown)
  BY DEF SoundInv, RefInv
<1>4. /\ Matched(state) <=> isMatch(state) /\ targetWord(state) # ""
      /\ Matched(shown) <=> isMatch(shown) /\ targetWord(shown) # ""
  BY <1>2 DEF Matched, isMatch, targetWord
<1>5. Success = <<"success">> <=>
         isMatch(state) /\ ~isMatch(shown) /\ targetWord(state) # ""
  BY <1>3 DEF Success, isMatch
<1>6. currentWord(state) # currentWord(shown) => ~Matched(state)
  BY <1>2 DEF SoundInv, TextInv, Matched, targetWord
<1>7. currentWord(state) = currentWord(shown) => targetWord(state) = targetWord(shown)
  BY DEF targetWord
<1> QED
  BY <1>4, <1>5, <1>6, <1>7

\* "Play success sound when word is matched" (App.tsx:50): the effect and its ref call
\* for the success sound at the render that first shows the word as matched, whatever was
\* typed before, and at no other.
THEOREM EveryMatchIsHeard == PatientSoundSpec => MatchIsHeard
<1>1. SoundInv /\ [PatientSoundNext]_soundVars =>
        [RenderSounds =>
            (Success = <<"success">> <=>
              Matched(state) /\ ~(Matched(shown) /\ currentWord(shown) = currentWord(state)))]_soundVars
  BY SuccessIsMatch
<1> QED
  BY <1>1, SoundInductive, PTL DEF PatientSoundSpec, MatchIsHeard

----------------------------------------------------------------------------
LEMMA ShiftWalk ==
    ASSUME WalkInv, PressShift PROVE WalkInv' /\ UNCHANGED Walk!walk
<1>1. UNCHANGED <<table, state, shown, reload, micro>>
  BY DEF PressShift
<1> QED
  BY <1>1, WalkSame DEF Walk!walk, PlaceShown, currentWord

\* The sounds change nothing of the way through the words: the learner who waits for the
\* screen, when no read fails, is led through the set as without them.
THEOREM SoundsImplementWalk ==
    ASSUME MaxFaults = 0 PROVE PatientSoundSpec => ImplementsWalk
<1>1. SoundInit => IInv /\ WalkInv /\ Walk!Init
  BY InitHolds, WalkInit, WalkBegins DEF SoundInit
<1>2. IInv /\ [PatientSoundNext]_soundVars => IInv'
  BY SessionHolds
<1>3. IInv /\ WalkInv /\ [PatientSoundNext]_soundVars => WalkInv'
  BY StepOfSession, WalkStep, ShiftWalk
<1>4. IInv /\ WalkInv /\ [PatientSoundNext]_soundVars => [Walk!Next]_(Walk!walk)
  BY StepOfSession, WalkRefined, ShiftWalk
<1> QED
  BY <1>1, <1>2, <1>3, <1>4, PTL DEF PatientSoundSpec, ImplementsWalk, Walk!Spec
=============================================================================
