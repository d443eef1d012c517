----------------------------- MODULE WordTyping -----------------------------
(***************************************************************************)
(* KoreanKeyboard and Hangul put together with a learner who types whole   *)
(* words, one standard keystroke after the other, without a mistake: what  *)
(* App.tsx compares with the target word (line 47) when the word is done.  *)
(***************************************************************************)
EXTENDS KoreanKeyboard

CONSTANT Targets    \* the words shown, as texts of syllables

ASSUME TargetsAssumption == Targets \subseteq Seq(Syllables)

VARIABLES
    target,     \* the word on the screen (targetWord)
    plan        \* the keys the learner still has to press

typingVars == <<vars, target, plan>>

\* A compound vowel with a key of its own may be typed with that key.
OneKey(char) ==
    LET d == DecomposeSyllable(char)
    IN  <<d.initial>>
          \o (IF d.vowel \in BASE_KEYBOARD_LAYOUT \cup SHIFT_KEYBOARD_LAYOUT
              THEN <<d.vowel>> ELSE Split(d.vowel))
          \o (IF d.final = None THEN <<>> ELSE Split(d.final))

Plans(word) ==
    {AllStrokes(word), FlattenSeq([n \in DOMAIN word |-> OneKey(word[n])])}

TypingInit ==
    /\ Init
    /\ target \in Targets
    /\ plan \in Plans(target)

TypeNext ==
    /\ plan # <<>>
    /\ PressKey(Head(plan))
    /\ plan' = Tail(plan)
    /\ UNCHANGED target

TypeShift ==
    /\ plan # <<>> /\ Head(plan) \notin currentLayout
    /\ PressShift
    /\ UNCHANGED <<target, plan>>

TypingNext == TypeNext \/ TypeShift

TypingSpec == TypingInit /\ [][TypingNext]_typingVars

\* The learner goes on until the word is done.
FairTypingSpec == TypingSpec /\ WF_typingVars(TypingNext)

----------------------------------------------------------------------------
(* Properties.                                                             *)

\* The final consonant of one syllable and the first of the next make a compound
\* final (as in hak-saeng, ttal-gi).
Clash(word) ==
    \E n \in 1 .. Len(word) - 1 :
        GetCompoundFinal(DecomposeSyllable(word[n]).final,
                         DecomposeSyllable(word[n + 1]).initial) # None

\* A word typed without a mistake is the word on the screen, for every combination
\* of initial, vowel and final (whichever way a final is shared, moved or made
\* compound), if and only if no final and initial in it clash.
WordTyped == plan = <<>> => (text = target <=> ~Clash(target))

\* Every word can be typed to its end: each of its keys is on the layout that
\* shift brings up, and shift is released when the key after it needs that.
WordFinished == <>(plan = <<>>)
=============================================================================
