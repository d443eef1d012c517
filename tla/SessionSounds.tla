--------------------------- MODULE SessionSounds ---------------------------
(***************************************************************************)
(* The typing session with its sounds: the click of every key (sound.ts    *)
(* and KoreanKeyboard.tsx), the success sound of App.tsx, and the one      *)
(* native player of ios/TypeKorean/SoundPlayer.swift, which takes its      *)
(* calls in the order JavaScript made them, but later.                     *)
(***************************************************************************)
EXTENDS TypingSession

CONSTANT MaxRequests    \* bound: the learner waits while so many calls do

ASSUME WordAssumption == "" \notin Words       \* so it is in both files of src/TypeKorean/data

VARIABLES
    requests,       \* the calls playSound and stopSound that wait for the player
    player,         \* audioPlayer: the sound it was last made for, and whether it plays
    prevIsMatch     \* prevIsMatchRef

soundVars == <<sessionVars, requests, player, prevIsMatch>>

\* The first render has run the effect of line 51 on an empty text and no word.
SoundInit ==
    /\ Init
    /\ requests = <<>>
    /\ player = [sound |-> "none", playing |-> FALSE]
    /\ prevIsMatch = TRUE

Call(request) == requests' = Append(requests, request)

PressKey == TapKey /\ Call("key") /\ UNCHANGED <<player, prevIsMatch>>

\* Shift and space at the end change neither the word nor the match.
PressShift ==
    /\ shown.page = "typing"
    /\ Tap /\ Call("key")
    /\ UNCHANGED <<table, state, shown, reload, micro, sync, faults, player, prevIsMatch>>

ReleaseVariant == <<>>          \* the effect returns no cleanup

\* The cleanup of the keyboard, which is only mounted on the typing page.
Release == IF shown.page = "typing" /\ state.page = "home" THEN <<"stop">> ELSE <<>>

SuccessVariant ==               \* it is not asked whether there is a word
    IF /\ <<isMatch(state), targetWord(state)>> # <<isMatch(shown), targetWord(shown)>>
       /\ isMatch(state) /\ ~prevIsMatch
    THEN <<"success">> ELSE <<>>

\* The effect of lines 51-57; its dependencies have changed.
Success ==
    IF /\ <<isMatch(state), targetWord(state)>> # <<isMatch(shown), targetWord(shown)>>
       /\ isMatch(state) /\ ~prevIsMatch /\ targetWord(state) # ""
    THEN <<"success">> ELSE <<>>

\* React runs every cleanup of a render before the effects.
RenderSounds ==
    /\ Render
    /\ requests' = requests \o Release \o Success
    /\ prevIsMatch' = isMatch(state)
    /\ UNCHANGED player

PlaySound ==
    /\ requests # <<>> /\ Head(requests) \in {"key", "success"}
    /\ \/ player' = [sound |-> Head(requests), playing |-> TRUE]
       \/ UNCHANGED player      \* no such file, or no audio session
    /\ requests' = Tail(requests)
    /\ UNCHANGED <<sessionVars, prevIsMatch>>

StopSound ==
    /\ requests # <<>> /\ Head(requests) = "stop"
    /\ player' = [player EXCEPT !.playing = FALSE]
    /\ requests' = Tail(requests)
    /\ UNCHANGED <<sessionVars, prevIsMatch>>

SoundEnds ==
    /\ player.playing
    /\ player' = [player EXCEPT !.playing = FALSE]
    /\ UNCHANGED <<sessionVars, requests, prevIsMatch>>

Silently(action) == action /\ UNCHANGED <<requests, player, prevIsMatch>>

SoundRuntime == Silently(EndOfTask \/ Resume) \/ RenderSounds
                \/ PlaySound \/ StopSound \/ SoundEnds
SoundLearner ==
    /\ Len(requests) < MaxRequests
    /\ \/ PressKey \/ PressShift
       \/ Silently(TapSkip \/ TapNext \/ Swipe \/ TapHome)
       \/ \E set \in Sets : Silently(StartTyping(set))

SoundNext == SoundRuntime \/ SoundLearner
SoundSpec == SoundInit /\ [][SoundNext]_soundVars

PatientSoundNext == SoundRuntime \/ (Settled /\ SoundLearner)
PatientSoundSpec == SoundInit /\ [][PatientSoundNext]_soundVars

----------------------------------------------------------------------------
(* Properties.                                                             *)

Matched(view) == currentWord(view) # NoWord /\ view.text = currentWord(view)

\* "Play success sound when word is matched" (line 50): the render that shows a word
\* as matched, when the render before did not, calls for the success sound, once,
\* and no other render does.
MatchIsHeard ==
    [][RenderSounds =>
        (Success = <<"success">> <=>
            Matched(state) /\ ~(Matched(shown) /\ currentWord(shown) = currentWord(state)))]_soundVars

\* The keyboard's cleanup (KoreanKeyboard.tsx:52) silences the player: on the home
\* page nothing plays once the player has taken its calls.
SilentAtHome ==
    Settled /\ shown.page = "home" /\ requests = <<>> => ~player.playing
=============================================================================
