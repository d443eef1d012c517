--------------------------- MODULE KoreanKeyboard ---------------------------
(***************************************************************************)
(* src/TypeKorean/components/KoreanKeyboard.tsx and the handlers App.tsx   *)
(* gives it: the keys on the screen, the shift key and the typed text.     *)
(* Every press reaches JavaScript as one event, handled to its end.        *)
(***************************************************************************)
EXTENDS Hangul

CONSTANTS
    Pressed,    \* bound: the character keys the user ever presses
    MaxText     \* bound: the user types no further character into a text this long

ASSUME MaxTextAssumption == MaxText \in Nat
ASSUME PressedAssumption == Pressed \subseteq Nat

VARIABLES text, isShiftPressed
vars == <<text, isShiftPressed>>

Space == 32

BASE_KEYBOARD_LAYOUT == {
    Jamo.b, Jamo.j, Jamo.d, Jamo.g, Jamo.s, Jamo.yo, Jamo.yeo, Jamo.ya, Jamo.ae,
    Jamo.e, Jamo.m, Jamo.n, Jamo.ng, Jamo.r, Jamo.h, Jamo.o, Jamo.eo, Jamo.a,
    Jamo.i, Jamo.k, Jamo.t, Jamo.ch, Jamo.p, Jamo.yu, Jamo.u, Jamo.eu}

SHIFT_KEYBOARD_LAYOUTVariant == {       \* shift leaves the vowels of row 1 alone
    Jamo.pp, Jamo.jj, Jamo.tt, Jamo.kk, Jamo.ss, Jamo.yo, Jamo.yeo, Jamo.ya,
    Jamo.wa, Jamo.wae, Jamo.m, Jamo.n, Jamo.ng, Jamo.r, Jamo.h, Jamo.wo,
    Jamo.we, Jamo.wi, Jamo.ui, Jamo.k, Jamo.t, Jamo.ch, Jamo.p, Jamo.yu, Jamo.u,
    Jamo.eu}

SHIFT_KEYBOARD_LAYOUT == {
    Jamo.pp, Jamo.jj, Jamo.tt, Jamo.kk, Jamo.ss, Jamo.ye, Jamo.yae, Jamo.ya,
    Jamo.wa, Jamo.wae, Jamo.m, Jamo.n, Jamo.ng, Jamo.r, Jamo.h, Jamo.wo,
    Jamo.we, Jamo.wi, Jamo.ui, Jamo.k, Jamo.t, Jamo.ch, Jamo.p, Jamo.yu, Jamo.u,
    Jamo.eu}

currentLayout ==
    IF isShiftPressed THEN SHIFT_KEYBOARD_LAYOUT ELSE BASE_KEYBOARD_LAYOUT

Init == text = <<>> /\ isShiftPressed = FALSE

\* A character key: addJamo, and shift is released.
PressKey(key) ==
    /\ key \in currentLayout
    /\ Len(text) < MaxText
    /\ text' = AddJamo(text, key)
    /\ isShiftPressed' = FALSE

PressSpace ==
    /\ Len(text) < MaxText
    /\ text' = Append(text, Space)
    /\ UNCHANGED isShiftPressed

PressBackspace ==
    /\ text' = HandleBackspace(text)
    /\ UNCHANGED isShiftPressed

PressShift ==
    /\ isShiftPressed' = ~isShiftPressed
    /\ UNCHANGED text

Next == \/ \E key \in Pressed : PressKey(key)
        \/ PressSpace
        \/ PressBackspace
        \/ PressShift

Spec == Init /\ [][Next]_vars

----------------------------------------------------------------------------
(* Properties.                                                             *)

Syllables == HANGUL_BASE .. LAST_SYLLABLE
JamoChars == Jamo.g .. Jamo.i

TextTypeOK ==
    /\ text \in Seq(Syllables \cup JamoChars \cup {Space})
    /\ isShiftPressed \in BOOLEAN

\* The single jamo a character stands for, in typing order: a compound vowel or
\* compound final is the two jamo it is typed with.
Split(char) ==
    LET pairs == {q \in VowelPairs \cup FinalPairs : q[3] = char}
    IN  IF pairs = {} THEN <<char>>
        ELSE LET q == CHOOSE q \in pairs : TRUE IN <<q[1], q[2]>>

Strokes(char) ==
    IF IsSyllable(char)
    THEN LET d == DecomposeSyllable(char)
         IN  <<d.initial>> \o Split(d.vowel)
                \o IF d.final = None THEN <<>> ELSE Split(d.final)
    ELSE Split(char)

AllStrokes(string) == FlattenSeq([n \in DOMAIN string |-> Strokes(string[n])])

\* A syllable whose final consonant is a compound, the case lines 171-181 handle
\* in the same way as a simple final.
CompoundFinal(char) ==
    IsSyllable(char) /\ Len(Split(DecomposeSyllable(char).final)) = 2

\* A consonant key typed after a lone initial consonant replaces it (line 281).
Replaces(key) ==
    IsInitial(key) /\ text # <<>> /\ IsInitial(Last(text))

\* "decompose the final and start new syllable with it" (lines 171-172): typing a
\* vowel moves a final consonant to the next syllable and loses no jamo.
VowelMovesFinal == [][
    \A key \in Pressed :
        PressKey(key) /\ IsVowel(key) =>
            AllStrokes(text') = AllStrokes(text) \o Split(key)]_vars

\* The same for every key and every text except the two cases named above: what
\* was typed is never lost, doubled or reordered by composing it.
NoStrokeLost == [][
    \A key \in Pressed :
        PressKey(key) /\ ~Replaces(key)
        /\ ~(text # <<>> /\ CompoundFinal(Last(text)) /\ IsVowel(key)) =>
            AllStrokes(text') = AllStrokes(text) \o Split(key)]_vars

\* A press changes the last character only.  Line 273 rewrites the one before it,
\* with the syllable it was.
PrefixKept == [][
    text # <<>> => IsPrefix(Front(text), text')]_vars

\* Backspace undoes: it takes one or two strokes off the end, whatever was typed,
\* or takes a syllable apart (line 339) and leaves the strokes as they were; then
\* the next press removes one.
BackspaceRemovesEnd == [][
    PressBackspace /\ text # <<>> =>
        /\ IsPrefix(AllStrokes(text'), AllStrokes(text))
        /\ \/ Len(AllStrokes(text')) < Len(AllStrokes(text))
           \/ Len(text') = Len(text) + 1 /\ ~IsSyllable(Last(text'))]_vars

\* The letter "oe" of data/letters.json is on neither layout, and lone vowels never
\* combine (line 294): whatever is typed or taken apart, the trimmed text is never
\* that letter, so the learner never matches it.
OeNeverAlone ==
    ~ \E n \in DOMAIN text :
        /\ text[n] = Jamo.oe
        /\ \A m \in DOMAIN text \ {n} : text[m] = Space
=============================================================================
