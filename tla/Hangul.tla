------------------------------- MODULE Hangul -------------------------------
(***************************************************************************)
(* src/TypeKorean/utils/hangulComposer.ts: how a text changes when a jamo  *)
(* is typed and when backspace is pressed.  A text is a sequence of UTF-16 *)
(* codes; a TypeScript string of at most one character (the result of      *)
(* combineJamo) is a sequence of length 0 or 1.                            *)
(***************************************************************************)
EXTENDS Integers, SequencesExt

HANGUL_BASE == 44032      \* 0xAC00, the first of the precomposed syllables
LAST_SYLLABLE == 55203    \* 0xD7A3

\* The compatibility jamo U+3131 .. U+3163 by romanised name.
Jamo == [
    g  |-> 12593, kk |-> 12594, gs |-> 12595, n  |-> 12596, nj |-> 12597,
    nh |-> 12598, d  |-> 12599, tt |-> 12600, r  |-> 12601, rg |-> 12602,
    rm |-> 12603, rb |-> 12604, rs |-> 12605, rt |-> 12606, rp |-> 12607,
    rh |-> 12608, m  |-> 12609, b  |-> 12610, pp |-> 12611, bs |-> 12612,
    s  |-> 12613, ss |-> 12614, ng |-> 12615, j  |-> 12616, jj |-> 12617,
    ch |-> 12618, k  |-> 12619, t  |-> 12620, p  |-> 12621, h  |-> 12622,
    a  |-> 12623, ae |-> 12624, ya |-> 12625, yae |-> 12626, eo |-> 12627,
    e  |-> 12628, yeo |-> 12629, ye |-> 12630, o  |-> 12631, wa |-> 12632,
    wae |-> 12633, oe |-> 12634, yo |-> 12635, u  |-> 12636, wo |-> 12637,
    we |-> 12638, wi |-> 12639, yu |-> 12640, eu |-> 12641, ui |-> 12642,
    i  |-> 12643]

\* The empty string: no final consonant, or no compound.
None == 0

INITIALS == <<
    Jamo.g, Jamo.kk, Jamo.n, Jamo.d, Jamo.tt, Jamo.r, Jamo.m, Jamo.b, Jamo.pp,
    Jamo.s, Jamo.ss, Jamo.ng, Jamo.j, Jamo.jj, Jamo.ch, Jamo.k, Jamo.t, Jamo.p,
    Jamo.h>>

VOWELS == <<
    Jamo.a, Jamo.ae, Jamo.ya, Jamo.yae, Jamo.eo, Jamo.e, Jamo.yeo, Jamo.ye,
    Jamo.o, Jamo.wa, Jamo.wae, Jamo.oe, Jamo.yo, Jamo.u, Jamo.wo, Jamo.we,
    Jamo.wi, Jamo.yu, Jamo.eu, Jamo.ui, Jamo.i>>

FINALS == <<
    None, Jamo.g, Jamo.kk, Jamo.gs, Jamo.n, Jamo.nj, Jamo.nh, Jamo.d, Jamo.r,
    Jamo.rg, Jamo.rm, Jamo.rb, Jamo.rs, Jamo.rt, Jamo.rp, Jamo.rh, Jamo.m,
    Jamo.b, Jamo.bs, Jamo.s, Jamo.ss, Jamo.ng, Jamo.j, Jamo.ch, Jamo.k, Jamo.t,
    Jamo.p, Jamo.h>>

Includes(array, char) == \E n \in DOMAIN array : array[n] = char

\* Array.prototype.indexOf: counted from 0, -1 when there is none.
GetIndex(char, array) ==
    IF Includes(array, char)
    THEN (CHOOSE n \in DOMAIN array : array[n] = char) - 1
    ELSE -1

IsInitial(char) == Includes(INITIALS, char)
IsVowel(char)   == Includes(VOWELS, char)
IsFinal(char)   == Includes(FINALS, char) /\ char # None
IsJamo(char)    == IsInitial(char) \/ IsVowel(char) \/ IsFinal(char)
IsSyllable(char) == HANGUL_BASE <= char /\ char <= LAST_SYLLABLE

\* (Definitions named ...Variant are plausible mistakes in the definition that
\* follows them.  No specification uses them; each one breaks a property.)
CombineJamoVariant(initial, vowel, final) ==    \* '' taken for index -1
    IF ~IsInitial(initial) \/ ~IsVowel(vowel) THEN <<>>
    ELSE <<HANGUL_BASE + GetIndex(initial, INITIALS) * 588
             + GetIndex(vowel, VOWELS) * 28
             + IF IsFinal(final) THEN GetIndex(final, FINALS) ELSE -1>>

\* A final consonant that is in no list has index -1: the code just before.
CombineJamo(initial, vowel, final) ==
    IF ~IsInitial(initial) \/ ~IsVowel(vowel) THEN <<>>
    ELSE <<HANGUL_BASE + GetIndex(initial, INITIALS) * 588
             + GetIndex(vowel, VOWELS) * 28
             + IF final = None THEN 0 ELSE GetIndex(final, FINALS)>>

DecomposeSyllable(syllable) ==
    LET code == syllable - HANGUL_BASE
    IN  [initial |-> INITIALS[(code \div 588) + 1],
         vowel   |-> VOWELS[((code % 588) \div 28) + 1],
         final   |-> FINALS[(code % 28) + 1]]

\* Two vowels typed one after the other, and the compound vowel they make.
VowelPairs ==
    {<<Jamo.o, Jamo.a, Jamo.wa>>, <<Jamo.o, Jamo.ae, Jamo.wae>>,
     <<Jamo.o, Jamo.i, Jamo.oe>>, <<Jamo.u, Jamo.eo, Jamo.wo>>,
     <<Jamo.u, Jamo.e, Jamo.we>>, <<Jamo.u, Jamo.i, Jamo.wi>>,
     <<Jamo.eu, Jamo.i, Jamo.ui>>}

FinalPairs ==
    {<<Jamo.g, Jamo.s, Jamo.gs>>, <<Jamo.n, Jamo.j, Jamo.nj>>,
     <<Jamo.n, Jamo.h, Jamo.nh>>, <<Jamo.r, Jamo.g, Jamo.rg>>,
     <<Jamo.r, Jamo.m, Jamo.rm>>, <<Jamo.r, Jamo.b, Jamo.rb>>,
     <<Jamo.r, Jamo.s, Jamo.rs>>, <<Jamo.r, Jamo.t, Jamo.rt>>,
     <<Jamo.r, Jamo.p, Jamo.rp>>, <<Jamo.r, Jamo.h, Jamo.rh>>,
     <<Jamo.b, Jamo.s, Jamo.bs>>}

PairOf(pairs, first, second) ==
    IF \E q \in pairs : q[1] = first /\ q[2] = second
    THEN (CHOOSE q \in pairs : q[1] = first /\ q[2] = second)[3]
    ELSE None

CombineVowelsVariant(vowel1, vowel2) == None    \* compound vowels need their own key
CombineVowels(vowel1, vowel2) == PairOf(VowelPairs, vowel1, vowel2)
GetCompoundFinal(final1, final2) == PairOf(FinalPairs, final1, final2)

----------------------------------------------------------------------------
(* addJamo.                                                                *)

AddToSyllableVariant(syllable, jamo) ==     \* a second final replaces the first
    LET d == DecomposeSyllable(syllable)
    IN  IF d.final # None /\ IsVowel(jamo)
        THEN CombineJamo(d.initial, d.vowel, None) \o CombineJamo(d.final, jamo, None)
        ELSE IF IsFinal(jamo) THEN CombineJamo(d.initial, d.vowel, jamo)
        ELSE <<syllable, jamo>>

\* What the last syllable of a text becomes (lines 168-253).
AddToSyllable(syllable, jamo) ==
    LET d == DecomposeSyllable(syllable)
        compoundFinal == GetCompoundFinal(d.final, jamo)
        compoundVowel == CombineVowels(d.vowel, jamo)
        hasFinal == d.final # None
    IN  IF hasFinal /\ IsVowel(jamo)
        THEN CombineJamo(d.initial, d.vowel, None) \o CombineJamo(d.final, jamo, None)
        ELSE IF hasFinal /\ compoundFinal # None
        THEN CombineJamo(d.initial, d.vowel, compoundFinal)
        ELSE IF hasFinal /\ IsFinal(jamo) /\ ~IsInitial(jamo)
        THEN CombineJamo(d.initial, d.vowel, jamo)
        ELSE IF ~hasFinal /\ compoundVowel # None
        THEN CombineJamo(d.initial, compoundVowel, None)
        ELSE IF ~hasFinal /\ IsFinal(jamo)
        THEN CombineJamo(d.initial, d.vowel, jamo)
        ELSE <<syllable, jamo>>

AddToInitialVariant(text, jamo) ==          \* the syllable before loses its final
    LET last == Last(text)
        before == Front(text)
        d == DecomposeSyllable(Last(before))
    IN  IF IsVowel(jamo) /\ before # <<>> /\ IsSyllable(Last(before))
        THEN Front(before) \o CombineJamo(d.initial, d.vowel, None)
                           \o CombineJamo(last, jamo, None)
        ELSE IF IsVowel(jamo) THEN before \o CombineJamo(last, jamo, None)
        ELSE IF IsInitial(jamo) THEN Append(before, jamo)
        ELSE Append(text, jamo)

\* A text that ends in a lone initial consonant (lines 256-286).  The syllable
\* before it is rebuilt when it has a final consonant.
AddToInitial(text, jamo) ==
    LET last == Last(text)
        before == Front(text)
        d == DecomposeSyllable(Last(before))
    IN  IF IsVowel(jamo) /\ before # <<>> /\ IsSyllable(Last(before)) /\ d.final # None
        THEN Front(before) \o CombineJamo(d.initial, d.vowel, d.final)
                           \o CombineJamo(last, jamo, None)
        ELSE IF IsVowel(jamo) THEN before \o CombineJamo(last, jamo, None)
        ELSE IF IsInitial(jamo) THEN Append(before, jamo)
        ELSE Append(text, jamo)

AddJamoVariant(text, jamo) ==               \* lone vowels combine
    IF ~IsJamo(jamo) \/ text = <<>> THEN Append(text, jamo)
    ELSE IF IsSyllable(Last(text)) THEN Front(text) \o AddToSyllable(Last(text), jamo)
    ELSE IF IsInitial(Last(text)) THEN AddToInitial(text, jamo)
    ELSE IF CombineVowels(Last(text), jamo) # None
    THEN Append(Front(text), CombineVowels(Last(text), jamo))
    ELSE Append(text, jamo)

AddJamo(text, jamo) ==
    IF ~IsJamo(jamo) THEN Append(text, jamo)
    ELSE IF text = <<>>
    THEN IF IsInitial(jamo) \/ IsVowel(jamo) THEN <<jamo>> ELSE text
    ELSE IF IsSyllable(Last(text)) THEN Front(text) \o AddToSyllable(Last(text), jamo)
    ELSE IF IsInitial(Last(text)) THEN AddToInitial(text, jamo)
    ELSE Append(text, jamo)

----------------------------------------------------------------------------
(* handleBackspace.                                                        *)

HandleBackspaceVariant(text) ==             \* the syllable is always taken apart
    IF text = <<>> THEN text
    ELSE IF IsSyllable(Last(text))
         THEN LET d == DecomposeSyllable(Last(text))
              IN  Front(text) \o <<d.initial, d.vowel>>
                    \o IF d.final = None THEN <<>> ELSE <<d.final>>
         ELSE Front(text)

HandleBackspace(text) ==
    LET d == DecomposeSyllable(Last(text))
    IN  IF text = <<>> THEN text
        ELSE IF ~IsSyllable(Last(text)) THEN Front(text)
        ELSE IF d.final # None THEN Front(text) \o CombineJamo(d.initial, d.vowel, None)
        ELSE Front(text) \o <<d.initial, d.vowel>>
=============================================================================
