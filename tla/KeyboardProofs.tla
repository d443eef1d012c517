--------------------------- MODULE KeyboardProofs ---------------------------
(***************************************************************************)
(* Theorems about Hangul, for all 11172 syllables, and about the keyboard  *)
(* that types with it, for texts of any length and any keys.               *)
(***************************************************************************)
EXTENDS KoreanKeyboard, SequenceTheorems, WellFoundedInduction, TLAPS

\* The three tables: their length, and no character twice.
LEMMA InitialsTable == DOMAIN INITIALS = 1..Len(INITIALS) /\ Len(INITIALS) = 19
BY DEF INITIALS

LEMMA VowelsTable == DOMAIN VOWELS = 1..Len(VOWELS) /\ Len(VOWELS) = 21
BY DEF VOWELS

LEMMA FinalsTable == DOMAIN FINALS = 1..Len(FINALS) /\ Len(FINALS) = 28
BY DEF FINALS

LEMMA InitialsDistinct ==
    \A n, m \in 1..19 : INITIALS[n] = INITIALS[m] => n = m
BY DEF INITIALS, Jamo

LEMMA VowelsDistinct ==
    \A n, m \in 1..21 : VOWELS[n] = VOWELS[m] => n = m
BY DEF VOWELS, Jamo

LEMMA FinalsDistinct ==
    \A n, m \in 1..28 : FINALS[n] = FINALS[m] => n = m
BY SMTT(60) DEF FINALS, Jamo, None

LEMMA NoFinalFirst ==
    \A n \in 1..28 : FINALS[n] = None <=> n = 1
BY DEF FINALS, Jamo, None

\* indexOf finds the place of a character the array includes ...
LEMMA IndexFound ==
    ASSUME NEW array, NEW char, Includes(array, char)
    PROVE  \E n \in DOMAIN array : array[n] = char /\ GetIndex(char, array) = n - 1
<1> DEFINE n == CHOOSE n \in DOMAIN array : array[n] = char
<1>1. n \in DOMAIN array /\ array[n] = char
  BY DEF Includes
<1>2. GetIndex(char, array) = n - 1
  BY DEF GetIndex
<1> HIDE DEF n
<1>3. QED BY <1>1, <1>2

\* ... and, in an array with no character twice, the place it was taken from.
LEMMA IndexOfElement ==
    ASSUME NEW array, NEW n \in DOMAIN array,
           \A k, m \in DOMAIN array : array[k] = array[m] => k = m
    PROVE  Includes(array, array[n]) /\ GetIndex(array[n], array) = n - 1
<1>1. Includes(array, array[n])
  BY DEF Includes
<1>2. PICK m \in DOMAIN array : array[m] = array[n] /\ GetIndex(array[n], array) = m - 1
  BY <1>1, IndexFound
<1>3. m = n
  BY <1>2
<1>4. QED BY <1>1, <1>2, <1>3

\* The indices of the three arrays.
InitialNumbers == 0..18
VowelNumbers == 0..20
FinalNumbers == 0..27

\* The same, for the three arrays and an index that counts from 0.
LEMMA InitialIndex ==
    ASSUME NEW char, IsInitial(char)
    PROVE  \E i \in InitialNumbers : INITIALS[i + 1] = char /\ GetIndex(char, INITIALS) = i
<1>1. PICK n \in 1..19 : INITIALS[n] = char /\ GetIndex(char, INITIALS) = n - 1
  BY IndexFound, InitialsTable DEF IsInitial
<1>2. n - 1 \in InitialNumbers /\ (n - 1) + 1 = n
  BY DEF InitialNumbers
<1>3. QED BY <1>1, <1>2

LEMMA VowelIndex ==
    ASSUME NEW char, IsVowel(char)
    PROVE  \E v \in VowelNumbers : VOWELS[v + 1] = char /\ GetIndex(char, VOWELS) = v
<1>1. PICK n \in 1..21 : VOWELS[n] = char /\ GetIndex(char, VOWELS) = n - 1
  BY IndexFound, VowelsTable DEF IsVowel
<1>2. n - 1 \in VowelNumbers /\ (n - 1) + 1 = n
  BY DEF VowelNumbers
<1>3. QED BY <1>1, <1>2

LEMMA FinalIndex ==
    ASSUME NEW char, Includes(FINALS, char)
    PROVE  \E f \in FinalNumbers : FINALS[f + 1] = char /\ GetIndex(char, FINALS) = f
<1>1. PICK n \in 1..28 : FINALS[n] = char /\ GetIndex(char, FINALS) = n - 1
  BY IndexFound, FinalsTable
<1>2. n - 1 \in FinalNumbers /\ (n - 1) + 1 = n
  BY DEF FinalNumbers
<1>3. QED BY <1>1, <1>2

LEMMA InitialAt ==
    ASSUME NEW i \in InitialNumbers
    PROVE  IsInitial(INITIALS[i + 1]) /\ GetIndex(INITIALS[i + 1], INITIALS) = i
<1>1. i + 1 \in DOMAIN INITIALS /\ (i + 1) - 1 = i
  BY InitialsTable DEF InitialNumbers
<1>2. \A k, m \in DOMAIN INITIALS : INITIALS[k] = INITIALS[m] => k = m
  BY InitialsTable, InitialsDistinct
<1>3. QED BY <1>1, <1>2, IndexOfElement DEF IsInitial

LEMMA VowelAt ==
    ASSUME NEW v \in VowelNumbers
    PROVE  IsVowel(VOWELS[v + 1]) /\ GetIndex(VOWELS[v + 1], VOWELS) = v
<1>1. v + 1 \in DOMAIN VOWELS /\ (v + 1) - 1 = v
  BY VowelsTable DEF VowelNumbers
<1>2. \A k, m \in DOMAIN VOWELS : VOWELS[k] = VOWELS[m] => k = m
  BY VowelsTable, VowelsDistinct
<1>3. QED BY <1>1, <1>2, IndexOfElement DEF IsVowel

LEMMA FinalAt ==
    ASSUME NEW f \in FinalNumbers
    PROVE  Includes(FINALS, FINALS[f + 1]) /\ GetIndex(FINALS[f + 1], FINALS) = f
<1>1. f + 1 \in DOMAIN FINALS /\ (f + 1) - 1 = f
  BY FinalsTable DEF FinalNumbers
<1>2. \A k, m \in DOMAIN FINALS : FINALS[k] = FINALS[m] => k = m
  BY FinalsTable, FinalsDistinct
<1>3. QED BY <1>1, <1>2, IndexOfElement

\* '' is the first of the finals, and no other.
LEMMA NoFinalIsZero ==
    ASSUME NEW f \in FinalNumbers
    PROVE  FINALS[f + 1] = None <=> f = 0
<1>1. f + 1 \in 1..28 /\ (f + 1 = 1 <=> f = 0)
  BY DEF FinalNumbers
<1>2. QED BY <1>1, NoFinalFirst

\* The arithmetic of lines 58-59 and 72-75.
Code(i, v, f) == i * 588 + v * 28 + f
Codes == 0..11171
InitialOf(code) == code \div 588
RestOf(code) == code % 588
VowelOf(code) == RestOf(code) \div 28
FinalOf(code) == code % 28

LEMMA CodeInRange ==
    ASSUME NEW i \in InitialNumbers, NEW v \in VowelNumbers, NEW f \in FinalNumbers
    PROVE  Code(i, v, f) \in Codes
BY DEF Code, Codes, InitialNumbers, VowelNumbers, FinalNumbers

LEMMA CodeSyllable ==
    ASSUME NEW code \in Codes
    PROVE  /\ HANGUL_BASE + code \in Syllables
           /\ (HANGUL_BASE + code) - HANGUL_BASE = code
BY DEF Codes, Syllables, HANGUL_BASE, LAST_SYLLABLE

LEMMA SyllableCode ==
    ASSUME NEW char \in Syllables
    PROVE  \E code \in Codes : char = HANGUL_BASE + code
<1>1. char - HANGUL_BASE \in Codes /\ char = HANGUL_BASE + (char - HANGUL_BASE)
  BY DEF Syllables, HANGUL_BASE, LAST_SYLLABLE, Codes
<1>2. QED BY <1>1

LEMMA CodeInitial ==
    ASSUME NEW i \in InitialNumbers, NEW v \in VowelNumbers, NEW f \in FinalNumbers
    PROVE  InitialOf(Code(i, v, f)) = i
<1> DEFINE r == 28 * v + f
<1>1. Code(i, v, f) = 588 * i + r /\ r \in 0..587
  BY DEF Code, InitialNumbers, VowelNumbers, FinalNumbers
<1> HIDE DEF r
<1>2. QED BY <1>1 DEF InitialOf, InitialNumbers

LEMMA CodeRest ==
    ASSUME NEW i \in InitialNumbers, NEW v \in VowelNumbers, NEW f \in FinalNumbers
    PROVE  RestOf(Code(i, v, f)) = 28 * v + f
<1> DEFINE r == 28 * v + f
           code == Code(i, v, f)
<1>1. code = 588 * i + r /\ r \in 0..587 /\ i \in Int
  BY DEF Code, InitialNumbers, VowelNumbers, FinalNumbers
<1> HIDE DEF r, code
<1>2. RestOf(code) = r
  BY ONLY <1>1 DEF RestOf
<1>3. QED BY <1>2 DEF r, code

LEMMA CodeVowel ==
    ASSUME NEW i \in InitialNumbers, NEW v \in VowelNumbers, NEW f \in FinalNumbers
    PROVE  VowelOf(Code(i, v, f)) = v
<1>1. (28 * v + f) \div 28 = v
  BY DEF VowelNumbers, FinalNumbers
<1>2. RestOf(Code(i, v, f)) = 28 * v + f
  BY CodeRest
<1>3. QED BY <1>1, <1>2 DEF VowelOf

LEMMA CodeFinal ==
    ASSUME NEW i \in InitialNumbers, NEW v \in VowelNumbers, NEW f \in FinalNumbers
    PROVE  FinalOf(Code(i, v, f)) = f
<1> DEFINE r == 21 * i + v
<1>1. Code(i, v, f) = 28 * r + f /\ r \in Int
  BY DEF Code, InitialNumbers, VowelNumbers, FinalNumbers
<1> HIDE DEF r
<1>2. QED BY <1>1 DEF FinalOf, FinalNumbers

LEMMA CodeDivision ==
    ASSUME NEW code \in Codes
    PROVE  \E i \in InitialNumbers, v \in VowelNumbers, f \in FinalNumbers :
             code = Code(i, v, f)
<1> DEFINE i == code \div 588
           r == code % 588
           v == r \div 28
           f == r % 28
<1>1. code = i * 588 + r /\ r \in 0..587 /\ i \in 0..18
  BY DEF Codes
<1>2. r = v * 28 + f /\ f \in 0..27 /\ v \in 0..20
  BY <1>1
<1> HIDE DEF i, r, v, f
<1>3. i \in InitialNumbers /\ v \in VowelNumbers /\ f \in FinalNumbers
  BY <1>1, <1>2 DEF InitialNumbers, VowelNumbers, FinalNumbers
<1>4. code = Code(i, v, f)
  BY <1>1, <1>2 DEF Code
<1>5. QED BY <1>3, <1>4

----------------------------------------------------------------------------
(* Composing and taking apart.                                             *)

\* Line 58: the syllable of three indices ...
LEMMA CombineAt ==
    ASSUME NEW i \in InitialNumbers, NEW v \in VowelNumbers, NEW f \in FinalNumbers
    PROVE  CombineJamo(INITIALS[i + 1], VOWELS[v + 1], FINALS[f + 1])
             = <<HANGUL_BASE + Code(i, v, f)>>
<1> DEFINE initial == INITIALS[i + 1]
           vowel == VOWELS[v + 1]
           final == FINALS[f + 1]
<1>1. IsInitial(initial) /\ GetIndex(initial, INITIALS) = i
  BY InitialAt
<1>2. IsVowel(vowel) /\ GetIndex(vowel, VOWELS) = v
  BY VowelAt
<1>3. (IF final = None THEN 0 ELSE GetIndex(final, FINALS)) = f
  BY FinalAt, NoFinalIsZero
<1> HIDE DEF initial, vowel, final
<1>4. CombineJamo(initial, vowel, final) = <<HANGUL_BASE + i * 588 + v * 28 + f>>
  BY <1>1, <1>2, <1>3 DEF CombineJamo
<1>5. HANGUL_BASE + i * 588 + v * 28 + f = HANGUL_BASE + Code(i, v, f)
  BY DEF Code, HANGUL_BASE, InitialNumbers, VowelNumbers, FinalNumbers
<1>6. QED BY <1>4, <1>5 DEF initial, vowel, final

\* ... and lines 72-81: the indices of that syllable.
LEMMA DecomposeAt ==
    ASSUME NEW i \in InitialNumbers, NEW v \in VowelNumbers, NEW f \in FinalNumbers
    PROVE  DecomposeSyllable(HANGUL_BASE + Code(i, v, f))
             = [initial |-> INITIALS[i + 1], vowel |-> VOWELS[v + 1],
                final |-> FINALS[f + 1]]
<1> DEFINE code == Code(i, v, f)
<1>1. InitialOf(code) = i /\ VowelOf(code) = v /\ FinalOf(code) = f
  BY CodeInitial, CodeVowel, CodeFinal
<1>2. (HANGUL_BASE + code) - HANGUL_BASE = code
  <2>1. code \in Codes
    BY CodeInRange
  <2> HIDE DEF code
  <2>2. QED BY <2>1, CodeSyllable
<1> HIDE DEF code
<1>3. DecomposeSyllable(HANGUL_BASE + code)
        = [initial |-> INITIALS[i + 1], vowel |-> VOWELS[v + 1], final |-> FINALS[f + 1]]
  <2> DEFINE c == (HANGUL_BASE + code) - HANGUL_BASE
  <2>1. DecomposeSyllable(HANGUL_BASE + code)
          = [initial |-> INITIALS[InitialOf(c) + 1], vowel |-> VOWELS[VowelOf(c) + 1],
             final |-> FINALS[FinalOf(c) + 1]]
    BY DEF DecomposeSyllable, InitialOf, VowelOf, RestOf, FinalOf
  <2>2. QED BY ONLY <1>1, <1>2, <2>1
<1>4. QED BY <1>3 DEF code

\* Every precomposed syllable is the syllable of three indices.
LEMMA SyllableAt ==
    ASSUME NEW char \in Syllables
    PROVE  \E i \in InitialNumbers, v \in VowelNumbers, f \in FinalNumbers : char = HANGUL_BASE + Code(i, v, f)
<1>1. PICK code \in Codes : char = HANGUL_BASE + code
  BY SyllableCode
<1>2. QED BY <1>1, CodeDivision

\* A syllable put together from an initial, a vowel and a final consonant (or
\* none) is a precomposed syllable, and is taken apart into the same three
\* (combineJamo and decomposeSyllable, lines 49-82).
THEOREM CombineThenDecompose ==
    ASSUME NEW initial, IsInitial(initial), NEW vowel, IsVowel(vowel),
           NEW final, Includes(FINALS, final)
    PROVE  \E char \in Syllables :
             /\ CombineJamo(initial, vowel, final) = <<char>>
             /\ DecomposeSyllable(char) =
                  [initial |-> initial, vowel |-> vowel, final |-> final]
<1>1. PICK i \in InitialNumbers : INITIALS[i + 1] = initial
  BY InitialIndex
<1>2. PICK v \in VowelNumbers : VOWELS[v + 1] = vowel
  BY VowelIndex
<1>3. PICK f \in FinalNumbers : FINALS[f + 1] = final
  BY FinalIndex
<1>4. HANGUL_BASE + Code(i, v, f) \in Syllables
  <2>1. Code(i, v, f) \in Codes
    BY CodeInRange
  <2>2. QED BY <2>1, CodeSyllable
<1>5. CombineJamo(initial, vowel, final) = <<HANGUL_BASE + Code(i, v, f)>>
  BY <1>1, <1>2, <1>3, CombineAt
<1>6. DecomposeSyllable(HANGUL_BASE + Code(i, v, f))
        = [initial |-> initial, vowel |-> vowel, final |-> final]
  BY <1>1, <1>2, <1>3, DecomposeAt
<1>7. QED BY <1>4, <1>5, <1>6

\* Every precomposed syllable is put together again from its parts: what line 267
\* rebuilds is what was there.
THEOREM DecomposeThenCombine ==
    ASSUME NEW char \in Syllables, NEW d, d = DecomposeSyllable(char)
    PROVE  /\ IsInitial(d.initial) /\ IsVowel(d.vowel)
           /\ Includes(FINALS, d.final)
           /\ CombineJamo(d.initial, d.vowel, d.final) = <<char>>
<1>1. PICK i \in InitialNumbers, v \in VowelNumbers, f \in FinalNumbers :
        char = HANGUL_BASE + Code(i, v, f)
  BY SyllableAt
<1>2. d = [initial |-> INITIALS[i + 1], vowel |-> VOWELS[v + 1], final |-> FINALS[f + 1]]
  BY <1>1, DecomposeAt
<1>3. IsInitial(d.initial) /\ IsVowel(d.vowel) /\ Includes(FINALS, d.final)
  BY <1>2, InitialAt, VowelAt, FinalAt
<1>4. CombineJamo(INITIALS[i + 1], VOWELS[v + 1], FINALS[f + 1]) = <<char>>
  <2>1. CombineJamo(INITIALS[i + 1], VOWELS[v + 1], FINALS[f + 1])
          = <<HANGUL_BASE + Code(i, v, f)>>
    BY Zenon, CombineAt
  <2>2. QED BY <1>1, <2>1
<1>5. QED BY <1>2, <1>3, <1>4

----------------------------------------------------------------------------
(* The typed text.                                                         *)

Chars == Syllables \cup JamoChars \cup {Space}

----------------------------------------------------------------------------
(* Sequences: the last element, and what is before it.                     *)

LEMMA FrontAndLast ==
    ASSUME NEW C, NEW s \in Seq(C), s # <<>>
    PROVE  Front(s) \in Seq(C) /\ Last(s) \in C /\ Front(s) \o <<Last(s)>> = s
<1>1. Len(s) \in Nat /\ Len(s) > 0
  BY EmptySeq
<1>2. \A i \in 1 .. Len(s) - 1 : s[i] \in C
  BY <1>1, ElementOfSeq
<1>3. SubSeq(s, 1, Len(s) - 1) \in Seq(C)
  BY <1>1, <1>2, SubSeqProperties
<1>4. s[Len(s)] \in C
  BY <1>1, ElementOfSeq
<1>5. SubSeq(s, 1, Len(s)) = SubSeq(s, 1, Len(s) - 1) \o <<s[Len(s)]>>
  BY <1>1, SubSeqRecursiveSecond
<1>6. SubSeq(s, 1, Len(s)) = s
  BY SubSeqFull
<1>7. QED BY <1>3, <1>4, <1>5, <1>6 DEF Front, Last

LEMMA FrontLastOfAppend ==
    ASSUME NEW C, NEW s \in Seq(C), NEW c \in C
    PROVE  Append(s, c) # <<>> /\ Front(Append(s, c)) = s /\ Last(Append(s, c)) = c
<1> DEFINE a == Append(s, c)
<1>1. /\ a \in Seq(C) /\ Len(a) = Len(s) + 1 /\ Len(s) \in Nat /\ a[Len(s) + 1] = c
      /\ \A i \in 1 .. Len(s) : a[i] = s[i]
  BY AppendProperties, LenProperties
<1>2. a # <<>>
  BY <1>1, EmptySeq
<1>3. Last(a) = c
  BY <1>1 DEF Last
<1>4. Front(a) \in Seq(C) /\ Front(a) \o <<Last(a)>> = a
  BY <1>1, <1>2, FrontAndLast
<1>5. Front(a) = s
  <2>1. Front(a) = SubSeq(a, 1, Len(s))
    BY <1>1 DEF Front
  <2>2. QED BY <1>1, <1>4, <2>1, SubSeqProperties, SeqEqual
<1>6. QED BY <1>2, <1>3, <1>5

LEMMA TwoElements ==
    ASSUME NEW C, NEW a \in C, NEW b \in C
    PROVE  <<a>> \o <<b>> = <<a, b>>
<1>1. <<a>> \in Seq(C) /\ <<b>> \in Seq(C) /\ <<a, b>> \in Seq(C)
  OBVIOUS
<1>2. <<a>> \o <<b>> \in Seq(C) /\ Len(<<a>> \o <<b>>) = 2
  BY <1>1, ConcatProperties
<1>3. (<<a>> \o <<b>>)[1] = a /\ (<<a>> \o <<b>>)[2] = b
  BY <1>1, ConcatProperties
<1>4. \A i \in 1 .. Len(<<a>> \o <<b>>) : (<<a>> \o <<b>>)[i] = <<a, b>>[i]
  BY <1>2, <1>3
<1>5. QED BY <1>1, <1>2, <1>4, SeqEqual

LEMMA PrefixOfConcat ==
    ASSUME NEW C, NEW s \in Seq(C), NEW t \in Seq(C)
    PROVE  IsPrefix(s, s \o t)
<1>1. Len(s) \in Nat /\ Len(t) \in Nat /\ Len(s \o t) = Len(s) + Len(t)
  BY LenProperties, ConcatProperties
<1>2. SubSeq(s \o t, 1, Len(s)) = SubSeq(s, 1, Len(s))
  <2>1. CASE Len(s) = 0
    BY <2>1, SubSeqEmpty
  <2>2. CASE Len(s) > 0
    BY <1>1, <2>2, SubSeqOfConcat1
  <2>3. QED BY <1>1, <2>1, <2>2
<1>3. QED BY <1>1, <1>2 DEF IsPrefix

\* A lone "oe" stands after the initial consonant it was taken apart from.
OeFollows(string) ==
    \A n \in DOMAIN string :
        string[n] = Jamo.oe => n > 1 /\ IsInitial(string[n - 1])

\* What is written in the place of the last character, or after it.
Pieces == {t \in Seq(Chars) : OeFollows(t)}

\* The characters a key of the keyboard adds.
Keys == JamoChars \ {Jamo.oe}

LEMMA OeConcat ==
    ASSUME NEW s \in Seq(Chars), NEW t \in Seq(Chars), OeFollows(s), OeFollows(t)
    PROVE  OeFollows(s \o t)
<1> DEFINE st == s \o t
<1>1. /\ Len(st) = Len(s) + Len(t) /\ Len(s) \in Nat /\ Len(t) \in Nat
      /\ \A n \in 1 .. Len(s) : st[n] = s[n]
      /\ \A n \in Len(s) + 1 .. Len(s) + Len(t) : st[n] = t[n - Len(s)]
  BY ConcatProperties, LenProperties
<1>2. DOMAIN st = 1 .. Len(st) /\ DOMAIN s = 1 .. Len(s) /\ DOMAIN t = 1 .. Len(t)
  BY ConcatProperties, LenProperties
<1> HIDE DEF st
<1>3. ASSUME NEW n \in DOMAIN st, st[n] = Jamo.oe
      PROVE  n > 1 /\ IsInitial(st[n - 1])
  <2>1. CASE n <= Len(s)
    <3>1. n \in 1 .. Len(s) /\ s[n] = Jamo.oe
      BY <1>1, <1>2, <1>3, <2>1
    <3>2. n > 1 /\ IsInitial(s[n - 1])
      BY <1>2, <3>1 DEF OeFollows
    <3>3. n - 1 \in 1 .. Len(s)
      BY <3>1, <3>2
    <3>4. QED BY <1>1, <3>2, <3>3
  <2>2. CASE n > Len(s)
    <3> DEFINE k == n - Len(s)
    <3>0. n \in Len(s) + 1 .. Len(s) + Len(t)
      BY <1>1, <1>2, <1>3, <2>2
    <3>1. k \in 1 .. Len(t) /\ t[k] = Jamo.oe
      BY <1>1, <1>3, <3>0
    <3>2. k > 1 /\ IsInitial(t[k - 1])
      BY <1>2, <3>1 DEF OeFollows
    <3>3. n - 1 \in Len(s) + 1 .. Len(s) + Len(t) /\ (n - 1) - Len(s) = k - 1 /\ n > 1
      BY <1>1, <3>1, <3>2
    <3>4. st[n - 1] = t[k - 1]
      BY <1>1, <3>3
    <3>5. QED BY <3>2, <3>3, <3>4
  <2>3. QED BY <1>1, <1>2, <2>1, <2>2
<1>4. QED BY <1>3 DEF OeFollows, st

LEMMA PiecesConcat ==
    ASSUME NEW s \in Pieces, NEW t \in Pieces
    PROVE  s \o t \in Pieces
BY OeConcat, ConcatProperties DEF Pieces

LEMMA OeFront ==
    ASSUME NEW string \in Seq(Chars), string # <<>>, OeFollows(string)
    PROVE  OeFollows(Front(string))
<1>1. Len(string) \in Nat /\ Len(string) > 0 /\ DOMAIN string = 1 .. Len(string)
  BY EmptySeq
<1>2. /\ DOMAIN Front(string) = 1 .. Len(string) - 1
      /\ \A n \in 1 .. Len(string) - 1 : Front(string)[n] = string[n]
  BY <1>1 DEF Front
<1> HIDE DEF Front
<1>3. ASSUME NEW n \in 1 .. Len(string) - 1, Front(string)[n] = Jamo.oe
      PROVE  n > 1 /\ IsInitial(Front(string)[n - 1])
  <2>1. n \in DOMAIN string /\ string[n] = Jamo.oe
    BY <1>1, <1>2, <1>3
  <2>2. n > 1 /\ IsInitial(string[n - 1])
    BY <2>1 DEF OeFollows
  <2>3. n - 1 \in 1 .. Len(string) - 1
    BY <1>1, <2>2
  <2>4. QED BY <1>2, <2>2, <2>3
<1>4. QED BY <1>2, <1>3 DEF OeFollows

\* Pieces of one and of two characters.
LEMMA OnePiece ==
    ASSUME NEW char \in Chars \ {Jamo.oe}
    PROVE  <<char>> \in Pieces
BY DEF Pieces, OeFollows

LEMMA EmptyPiece == <<>> \in Pieces
BY DEF Pieces, OeFollows

LEMMA TwoPiece ==
    ASSUME NEW first \in Chars, first # Jamo.oe, NEW second \in Chars,
           second # Jamo.oe \/ IsInitial(first)
    PROVE  <<first, second>> \in Pieces
<1>1. <<first, second>> \in Seq(Chars) /\ DOMAIN <<first, second>> = 1 .. 2
  OBVIOUS
<1>2. \A n \in 1 .. 2 : n = 1 \/ n = 2
  OBVIOUS
<1>3. <<first, second>>[1] = first /\ <<first, second>>[2] = second
  OBVIOUS
<1>4. ASSUME NEW n \in 1 .. 2, <<first, second>>[n] = Jamo.oe
      PROVE  n > 1 /\ IsInitial(<<first, second>>[n - 1])
  <2>1. n = 2
    BY <1>2, <1>3, <1>4
  <2>2. n - 1 = 1
    BY <2>1
  <2>3. QED BY <1>3, <1>4, <2>1, <2>2
<1>5. QED BY <1>1, <1>4 DEF Pieces, OeFollows

\* A syllable is not the letter "oe".
LEMMA SyllableNotOe == \A char \in Syllables : char \in Chars \ {Jamo.oe}
BY DEF Syllables, HANGUL_BASE, Jamo, Chars

LEMMA TextsAssociate ==
    ASSUME NEW x \in Seq(Chars), NEW y \in Seq(Chars), NEW z \in Seq(Chars)
    PROVE  (x \o y) \o z = x \o (y \o z)
BY ConcatAssociative

\* Extends(string, new): new is string, or what is before its last character, and
\* more.
Extends(string, new) ==
    \E t \in Pieces : \/ new = string \o t
                      \/ string # <<>> /\ new = Front(string) \o t

LEMMA ExtendsKeeps ==
    ASSUME NEW string \in Seq(Chars), NEW new, Extends(string, new)
    PROVE  /\ new \in Seq(Chars)
           /\ string # <<>> => IsPrefix(Front(string), new)
           /\ OeFollows(string) => OeFollows(new)
<1>1. PICK t \in Pieces : \/ new = string \o t
                          \/ string # <<>> /\ new = Front(string) \o t
  BY DEF Extends
<1>2. t \in Seq(Chars) /\ OeFollows(t)
  BY DEF Pieces
<1>3. CASE new = string \o t
  <2>1. ASSUME string # <<>> PROVE IsPrefix(Front(string), new)
    <3> DEFINE f == Front(string)
               l == <<Last(string)>>
    <3>1. f \in Seq(Chars) /\ Last(string) \in Chars /\ f \o l = string
      BY <2>1, FrontAndLast
    <3>2. l \in Seq(Chars)
      BY <3>1
    <3> HIDE DEF f, l
    <3>3. f \in Seq(Chars)
      BY <3>1
    <3>4. (f \o l) \o t = f \o (l \o t)
      BY ONLY <1>2, <3>2, <3>3, TextsAssociate
    <3>5. l \o t \in Seq(Chars)
      BY <1>2, <3>2, ConcatProperties
    <3>6. IsPrefix(f, f \o (l \o t))
      BY <3>3, <3>5, PrefixOfConcat
    <3>7. QED BY <1>3, <3>1, <3>4, <3>6 DEF f
  <2>2. QED BY <1>2, <1>3, <2>1, ConcatProperties, OeConcat
<1>4. CASE string # <<>> /\ new = Front(string) \o t
  <2>1. Front(string) \in Seq(Chars)
    BY <1>4, FrontAndLast
  <2>2. OeFollows(string) => OeFollows(Front(string))
    BY <1>4, OeFront
  <2>3. QED BY <1>2, <1>4, <2>1, <2>2, ConcatProperties, PrefixOfConcat, OeConcat
<1>5. QED BY <1>1, <1>3, <1>4

LEMMA AppendExtends ==
    ASSUME NEW string \in Seq(Chars), NEW char \in Chars \ {Jamo.oe}
    PROVE  Extends(string, Append(string, char))
<1>1. Append(string, char) = string \o <<char>>
  BY AppendIsConcat
<1>2. QED BY <1>1, OnePiece DEF Extends

----------------------------------------------------------------------------
(* What the operators of Hangul return.                                    *)

\* isSyllable tells the syllables from the other characters of a text.
LEMMA SyllableInRange ==
    ASSUME NEW char \in Chars, IsSyllable(char)
    PROVE  char \in Syllables
<1>1. Jamo.g = 12593 /\ Jamo.i = 12643
  BY DEF Jamo
<1>2. char \in Int
  BY <1>1 DEF Chars, Syllables, JamoChars, Space, HANGUL_BASE, LAST_SYLLABLE
<1>3. IsSyllable(char)
  OBVIOUS
<1>4. QED BY ONLY <1>2, <1>3, SMTT(60) DEF IsSyllable, Syllables, HANGUL_BASE, LAST_SYLLABLE

LEMMA InitialIsJamo == ASSUME NEW char, IsInitial(char) PROVE char \in JamoChars
<1>1. \A n \in 1..19 : INITIALS[n] \in JamoChars
  BY DEF INITIALS, JamoChars, Jamo
<1>2. QED BY <1>1, InitialsTable DEF IsInitial, Includes

LEMMA OeIsNoInitial == ~IsInitial(Jamo.oe)
<1>1. \A n \in 1..19 : INITIALS[n] # Jamo.oe
  BY DEF INITIALS, Jamo
<1>2. QED BY <1>1, InitialsTable DEF IsInitial, Includes

LEMMA SpaceIsNoInitial == ~IsInitial(Space)
<1>1. \A n \in 1..19 : INITIALS[n] # Space
  BY DEF INITIALS, Jamo, Space
<1>2. QED BY <1>1, InitialsTable DEF IsInitial, Includes

LEMMA VowelIsJamo == ASSUME NEW char, IsVowel(char) PROVE char \in JamoChars
<1>1. \A n \in 1..21 : VOWELS[n] \in JamoChars
  BY DEF VOWELS, JamoChars, Jamo
<1>2. QED BY <1>1, VowelsTable DEF IsVowel, Includes

LEMMA NoneIsFinal == Includes(FINALS, None)
<1>1. 1 \in DOMAIN FINALS /\ FINALS[1] = None
  BY DEF FINALS
<1>2. QED BY <1>1 DEF Includes

LEMMA CompoundIsFinal ==
    ASSUME NEW final1, NEW final2
    PROVE  Includes(FINALS, GetCompoundFinal(final1, final2))
<1>1. \A n \in 1..28 : Includes(FINALS, FINALS[n])
  BY FinalsTable DEF Includes
<1>2. \A q \in FinalPairs : \E n \in 1..28 : q[3] = FINALS[n]
  <2>1. /\ Jamo.gs = FINALS[4] /\ Jamo.nj = FINALS[6] /\ Jamo.nh = FINALS[7]
        /\ Jamo.rg = FINALS[10] /\ Jamo.rm = FINALS[11] /\ Jamo.rb = FINALS[12]
        /\ Jamo.rs = FINALS[13] /\ Jamo.rt = FINALS[14] /\ Jamo.rp = FINALS[15]
        /\ Jamo.rh = FINALS[16] /\ Jamo.bs = FINALS[19]
    BY DEF FINALS
  <2>2. \A q \in FinalPairs :
            q[3] \in {Jamo.gs, Jamo.nj, Jamo.nh, Jamo.rg, Jamo.rm, Jamo.rb,
                      Jamo.rs, Jamo.rt, Jamo.rp, Jamo.rh, Jamo.bs}
    BY DEF FinalPairs
  <2>3. QED BY <2>1, <2>2
<1>3. QED BY <1>1, <1>2, NoneIsFinal DEF GetCompoundFinal, PairOf

\* combineJamo is '' or a single syllable, whatever consonants and vowel it gets.
LEMMA CombineIsText ==
    ASSUME NEW initial, NEW vowel, NEW final, Includes(FINALS, final)
    PROVE  CombineJamo(initial, vowel, final) \in Pieces
<1>1. CASE IsInitial(initial) /\ IsVowel(vowel)
  <2>1. PICK char \in Syllables : CombineJamo(initial, vowel, final) = <<char>>
    BY <1>1, CombineThenDecompose
  <2>2. <<char>> \in Pieces
    BY SyllableNotOe, OnePiece
  <2>3. QED BY <2>1, <2>2
<1>2. CASE ~IsInitial(initial) \/ ~IsVowel(vowel)
  BY <1>2, EmptyPiece DEF CombineJamo
<1>3. QED BY <1>1, <1>2

\* Lines 168-253.
LEMMA AddToSyllableIsText ==
    ASSUME NEW syllable \in Syllables, NEW jamo \in Keys
    PROVE  AddToSyllable(syllable, jamo) \in Pieces
<1> DEFINE d == DecomposeSyllable(syllable)
           f == GetCompoundFinal(d.final, jamo)
           w == CombineVowels(d.vowel, jamo)
           moved == CombineJamo(d.initial, d.vowel, None) \o CombineJamo(d.final, jamo, None)
<1>1. moved \in Pieces
  <2>1. CombineJamo(d.initial, d.vowel, None) \in Pieces
    BY CombineIsText, NoneIsFinal
  <2>2. CombineJamo(d.final, jamo, None) \in Pieces
    BY CombineIsText, NoneIsFinal
  <2>3. QED BY <2>1, <2>2, PiecesConcat
<1>2. CombineJamo(d.initial, d.vowel, f) \in Pieces
  BY CombineIsText, CompoundIsFinal
<1>3. IsFinal(jamo) => CombineJamo(d.initial, d.vowel, jamo) \in Pieces
  BY CombineIsText DEF IsFinal
<1>4. CombineJamo(d.initial, w, None) \in Pieces
  BY CombineIsText, NoneIsFinal
<1>5. <<syllable, jamo>> \in Pieces
  BY SyllableNotOe, TwoPiece DEF Chars, Keys
<1>6. AddToSyllable(syllable, jamo) =
        IF d.final # None /\ IsVowel(jamo) THEN moved
        ELSE IF d.final # None /\ f # None THEN CombineJamo(d.initial, d.vowel, f)
        ELSE IF d.final # None /\ IsFinal(jamo) /\ ~IsInitial(jamo)
        THEN CombineJamo(d.initial, d.vowel, jamo)
        ELSE IF d.final = None /\ w # None THEN CombineJamo(d.initial, w, None)
        ELSE IF d.final = None /\ IsFinal(jamo) THEN CombineJamo(d.initial, d.vowel, jamo)
        ELSE <<syllable, jamo>>
  BY DEF AddToSyllable
<1> HIDE DEF d, f, w, moved
<1>7. QED BY <1>1, <1>2, <1>3, <1>4, <1>5, <1>6

LEMMA NoneIsNoInitial == ~IsInitial(None)
<1>1. None \notin JamoChars
  BY DEF JamoChars, Jamo, None
<1>2. QED BY <1>1, InitialIsJamo

\* What a vowel does to a syllable with a final consonant (lines 171-181).
LEMMA VowelAfterFinal ==
    ASSUME NEW syllable \in Syllables, NEW vowel, IsVowel(vowel),
           NEW d, d = DecomposeSyllable(syllable), d.final # None
    PROVE  /\ AddToSyllable(syllable, vowel)
                = CombineJamo(d.initial, d.vowel, None) \o CombineJamo(d.final, vowel, None)
           /\ \E first \in Syllables :
                /\ CombineJamo(d.initial, d.vowel, None) = <<first>>
                /\ DecomposeSyllable(first) =
                      [initial |-> d.initial, vowel |-> d.vowel, final |-> None]
<1>1. IsInitial(d.initial) /\ IsVowel(d.vowel)
  BY DecomposeThenCombine
<1>2. \E first \in Syllables :
        /\ CombineJamo(d.initial, d.vowel, None) = <<first>>
        /\ DecomposeSyllable(first) = [initial |-> d.initial, vowel |-> d.vowel, final |-> None]
  BY <1>1, CombineThenDecompose, NoneIsFinal
<1>3. AddToSyllable(syllable, vowel)
        = CombineJamo(d.initial, d.vowel, None) \o CombineJamo(d.final, vowel, None)
  BY DEF AddToSyllable
<1>4. QED BY <1>2, <1>3

\* A final consonant that can begin a syllable moves to the vowel typed after it,
\* for every syllable and every vowel: "decompose the final and start new syllable
\* with it" (lines 171-172).
THEOREM FinalMoves ==
    ASSUME NEW syllable \in Syllables, NEW vowel, IsVowel(vowel),
           NEW d, d = DecomposeSyllable(syllable), IsInitial(d.final)
    PROVE  \E first, second \in Syllables :
             /\ AddToSyllable(syllable, vowel) = <<first, second>>
             /\ DecomposeSyllable(first) =
                   [initial |-> d.initial, vowel |-> d.vowel, final |-> None]
             /\ DecomposeSyllable(second) =
                   [initial |-> d.final, vowel |-> vowel, final |-> None]
<1>1. d.final # None
  BY NoneIsNoInitial
<1>2. PICK first \in Syllables :
        /\ CombineJamo(d.initial, d.vowel, None) = <<first>>
        /\ DecomposeSyllable(first) = [initial |-> d.initial, vowel |-> d.vowel, final |-> None]
  BY <1>1, VowelAfterFinal
<1>3. PICK second \in Syllables :
        /\ CombineJamo(d.final, vowel, None) = <<second>>
        /\ DecomposeSyllable(second) = [initial |-> d.final, vowel |-> vowel, final |-> None]
  BY CombineThenDecompose, NoneIsFinal
<1>4. AddToSyllable(syllable, vowel)
        = CombineJamo(d.initial, d.vowel, None) \o CombineJamo(d.final, vowel, None)
  BY <1>1 DEF AddToSyllable
<1>5. <<first>> \o <<second>> = <<first, second>>
  BY TwoElements
<1>6. QED BY <1>2, <1>3, <1>4, <1>5

\* The other final consonants, which are the compounds, are lost together with the
\* vowel, for every syllable and every vowel: combineJamo returns '' for them
\* (line 54), and only the syllable without its final is left.
THEOREM CompoundFinalLost ==
    ASSUME NEW syllable \in Syllables, NEW vowel, IsVowel(vowel),
           NEW d, d = DecomposeSyllable(syllable), d.final # None, ~IsInitial(d.final)
    PROVE  \E first \in Syllables :
             /\ AddToSyllable(syllable, vowel) = <<first>>
             /\ DecomposeSyllable(first) =
                   [initial |-> d.initial, vowel |-> d.vowel, final |-> None]
<1>1. PICK first \in Syllables :
        /\ CombineJamo(d.initial, d.vowel, None) = <<first>>
        /\ DecomposeSyllable(first) = [initial |-> d.initial, vowel |-> d.vowel, final |-> None]
  BY VowelAfterFinal
<1>2. CombineJamo(d.final, vowel, None) = <<>>
  BY DEF CombineJamo
<1>3. AddToSyllable(syllable, vowel) = <<first>> \o <<>>
  BY <1>1, <1>2, VowelAfterFinal
<1>4. <<first>> \o <<>> = <<first>>
  OBVIOUS
<1>5. QED BY <1>1, <1>3, <1>4

\* Lines 256-286: the syllable line 273 rebuilds is the one that was there.
LEMMA AddToInitialExtends ==
    ASSUME NEW string \in Seq(Chars), string # <<>>, NEW jamo \in Keys
    PROVE  Extends(string, AddToInitial(string, jamo))
<1> DEFINE last == Last(string)
           before == Front(string)
           d == DecomposeSyllable(Last(before))
           first == CombineJamo(d.initial, d.vowel, d.final)
           next == CombineJamo(last, jamo, None)
           Rebuilds == /\ IsVowel(jamo) /\ before # <<>> /\ IsSyllable(Last(before))
                       /\ d.final # None
<1>1. before \in Seq(Chars) /\ last \in Chars
  BY FrontAndLast
<1>2. next \in Pieces
  BY CombineIsText, NoneIsFinal
<1>3. Rebuilds => Front(before) \o first = before
  <2>1. SUFFICES ASSUME Rebuilds
                 PROVE  Front(before) \o first = before
    OBVIOUS
  <2>2. Last(before) \in Chars /\ Front(before) \o <<Last(before)>> = before
    BY <1>1, <2>1, FrontAndLast
  <2>3. Last(before) \in Syllables
    BY <2>1, <2>2, SyllableInRange
  <2>4. first = <<Last(before)>>
    BY <2>3, DecomposeThenCombine
  <2>5. QED BY <2>2, <2>4
<1>4. AddToInitial(string, jamo) =
        IF Rebuilds THEN (Front(before) \o first) \o next
        ELSE IF IsVowel(jamo) THEN before \o next
        ELSE IF IsInitial(jamo) THEN Append(before, jamo)
        ELSE Append(string, jamo)
  BY DEF AddToInitial
<1>5. Extends(string, before \o next)
  BY <1>2 DEF Extends, before
<1>6. Extends(string, Append(before, jamo))
  <2>1. jamo \in Chars \ {Jamo.oe}
    BY DEF Chars, Keys
  <2>2. Append(before, jamo) = before \o <<jamo>> /\ <<jamo>> \in Pieces
    BY <1>1, <2>1, AppendIsConcat, OnePiece
  <2>3. QED BY <2>2 DEF Extends
<1>7. Extends(string, Append(string, jamo))
  BY AppendExtends DEF Chars, Keys
<1> HIDE DEF last, before, first, next, Rebuilds, d
<1>8. CASE Rebuilds
  BY <1>3, <1>4, <1>5, <1>8
<1>9. CASE ~Rebuilds
  <2>1. CASE IsVowel(jamo)
    BY <1>4, <1>5, <1>9, <2>1
  <2>2. CASE ~IsVowel(jamo) /\ IsInitial(jamo)
    BY <1>4, <1>6, <1>9, <2>2
  <2>3. CASE ~IsVowel(jamo) /\ ~IsInitial(jamo)
    BY <1>4, <1>7, <1>9, <2>3
  <2>4. QED BY <2>1, <2>2, <2>3
<1>10. QED BY <1>8, <1>9

\* addJamo replaces the last character and keeps the text before it.
LEMMA AddJamoExtends ==
    ASSUME NEW string \in Seq(Chars), NEW jamo \in Keys
    PROVE  Extends(string, AddJamo(string, jamo))
<1>1. Extends(string, Append(string, jamo))
  BY AppendExtends DEF Chars, Keys
<1>2. CASE ~IsJamo(jamo)
  BY <1>1, <1>2 DEF AddJamo
<1>3. CASE IsJamo(jamo) /\ string = <<>>
  <2>1. AddJamo(string, jamo) = <<jamo>> \/ AddJamo(string, jamo) = <<>>
    BY <1>3 DEF AddJamo
  <2>2. <<jamo>> \in Pieces /\ <<>> \in Pieces
    BY EmptyPiece, OnePiece DEF Chars, Keys
  <2>3. \A t \in Pieces : Extends(string, t)
    BY <1>3, ConcatEmptySeq DEF Extends, Pieces
  <2>4. QED BY <2>1, <2>2, <2>3
<1>4. CASE IsJamo(jamo) /\ string # <<>> /\ IsSyllable(Last(string))
  <2>1. Last(string) \in Chars
    BY <1>4, FrontAndLast
  <2>2. Last(string) \in Syllables
    BY <1>4, <2>1, SyllableInRange
  <2>3. AddToSyllable(Last(string), jamo) \in Pieces
    BY <2>2, AddToSyllableIsText
  <2>4. AddJamo(string, jamo) = Front(string) \o AddToSyllable(Last(string), jamo)
    BY <1>4 DEF AddJamo
  <2>5. QED BY <1>4, <2>3, <2>4 DEF Extends
<1>5. CASE IsJamo(jamo) /\ string # <<>> /\ ~IsSyllable(Last(string)) /\ IsInitial(Last(string))
  <2>1. AddJamo(string, jamo) = AddToInitial(string, jamo)
    BY <1>5 DEF AddJamo
  <2>2. QED BY <1>5, <2>1, AddToInitialExtends
<1>6. CASE IsJamo(jamo) /\ string # <<>> /\ ~IsSyllable(Last(string)) /\ ~IsInitial(Last(string))
  <2>1. AddJamo(string, jamo) = Append(string, jamo)
    BY <1>6 DEF AddJamo
  <2>2. QED BY <1>1, <2>1
<1>7. QED BY <1>2, <1>3, <1>4, <1>5, <1>6

\* So does handleBackspace.
LEMMA HandleBackspaceExtends ==
    ASSUME NEW string \in Seq(Chars)
    PROVE  Extends(string, HandleBackspace(string))
<1>1. CASE string = <<>>
  <2>1. HandleBackspace(string) = <<>> \o <<>>
    BY <1>1 DEF HandleBackspace
  <2>2. QED BY <1>1, <2>1, EmptyPiece DEF Extends
<1>2. CASE string # <<>> /\ IsSyllable(Last(string))
  <2> DEFINE d == DecomposeSyllable(Last(string))
  <2>1. Last(string) \in Chars
    BY <1>2, FrontAndLast
  <2>2. Last(string) \in Syllables
    BY <1>2, <2>1, SyllableInRange
  <2>3. IsInitial(d.initial) /\ IsVowel(d.vowel)
    BY <2>2, DecomposeThenCombine
  <2>4. <<d.initial, d.vowel>> \in Pieces
    BY <2>3, InitialIsJamo, VowelIsJamo, OeIsNoInitial, TwoPiece DEF Chars
  <2>5. CombineJamo(d.initial, d.vowel, None) \in Pieces
    BY CombineIsText, NoneIsFinal
  <2>6. HandleBackspace(string) =
          IF d.final # None THEN Front(string) \o CombineJamo(d.initial, d.vowel, None)
          ELSE Front(string) \o <<d.initial, d.vowel>>
    BY <1>2 DEF HandleBackspace
  <2> HIDE DEF d
  <2>7. QED BY <1>2, <2>4, <2>5, <2>6 DEF Extends
<1>3. CASE string # <<>> /\ ~IsSyllable(Last(string))
  <2>1. HandleBackspace(string) = Front(string)
    BY <1>3 DEF HandleBackspace
  <2>2. Front(string) \in Seq(Chars)
    BY <1>3, FrontAndLast
  <2>3. Front(string) = Front(string) \o <<>> /\ <<>> \in Pieces
    BY <2>2, ConcatEmptySeq, EmptyPiece
  <2>4. QED BY <1>3, <2>1, <2>3 DEF Extends
<1>4. QED BY <1>1, <1>2, <1>3

----------------------------------------------------------------------------
(* The keyboard.                                                           *)

LEMMA KeysAreJamo == \A key \in currentLayout : key \in Keys
BY DEF currentLayout, BASE_KEYBOARD_LAYOUT, SHIFT_KEYBOARD_LAYOUT, Keys, JamoChars, Jamo

LEMMA StepExtends ==
    ASSUME TextTypeOK, [Next]_vars
    PROVE  /\ TextTypeOK'
           /\ text # <<>> => IsPrefix(Front(text), text')
           /\ OeFollows(text) => OeFollows(text)'
<1>1. text \in Seq(Chars) /\ isShiftPressed \in BOOLEAN
  BY DEF TextTypeOK, Chars
<1>2. SUFFICES Extends(text, text') /\ isShiftPressed' \in BOOLEAN
  <2>1. OeFollows(text)' <=> OeFollows(text')
    BY DEF OeFollows
  <2>2. QED BY <1>1, <1>2, <2>1, ExtendsKeeps DEF TextTypeOK, Chars
<1>3. ASSUME NEW key \in Pressed, PressKey(key)
      PROVE  Extends(text, text') /\ isShiftPressed' \in BOOLEAN
  <2>1. key \in Keys
    BY <1>3, KeysAreJamo DEF PressKey
  <2>2. QED BY <1>1, <1>3, <2>1, AddJamoExtends DEF PressKey
<1>4. CASE PressSpace
  <2>1. Space \in Chars \ {Jamo.oe}
    BY DEF Chars, Space, Jamo
  <2>2. QED BY <1>1, <1>4, <2>1, AppendExtends DEF PressSpace
<1>5. CASE PressBackspace
  BY <1>1, <1>5, HandleBackspaceExtends DEF PressBackspace
<1>6. Extends(text, text)
  <2>1. text \o <<>> = text
    BY <1>1, ConcatEmptySeq
  <2>2. QED BY <2>1, EmptyPiece DEF Extends
<1>7. CASE PressShift
  BY <1>1, <1>6, <1>7 DEF PressShift
<1>8. CASE UNCHANGED vars
  BY <1>1, <1>6, <1>8 DEF vars
<1>9. QED BY <1>3, <1>4, <1>5, <1>7, <1>8 DEF Next

\* However the keys are pressed, the typed text holds nothing but precomposed
\* syllables, compatibility jamo and spaces: composing never writes a code outside
\* the Hangul blocks (combineJamo, line 59, adds indices without checking them).
THEOREM KeyboardTypeCorrect == Spec => []TextTypeOK
<1>1. Init => TextTypeOK
  <2>1. <<>> \in Seq(Syllables \cup JamoChars \cup {Space})
    OBVIOUS
  <2>2. QED BY <2>1 DEF Init, TextTypeOK
<1>2. TextTypeOK /\ [Next]_vars => TextTypeOK'
  BY StepExtends
<1>3. QED BY <1>1, <1>2, PTL DEF Spec

\* A press rewrites the last character only, however long the text is.
THEOREM PrefixUnchanged == Spec => PrefixKept
<1>1. TextTypeOK /\ [Next]_vars => (text # <<>> => IsPrefix(Front(text), text'))
  BY StepExtends
<1>2. QED BY <1>1, KeyboardTypeCorrect, PTL DEF Spec, PrefixKept

\* In every text that can be typed, an "oe" that is not part of a syllable stands
\* after the initial consonant backspace took it apart from (line 339) ...
THEOREM OeAfterInitial == Spec => []OeFollows(text)
<1>1. Init => OeFollows(text)
  BY DEF Init, OeFollows
<1>2. TextTypeOK /\ OeFollows(text) /\ [Next]_vars => OeFollows(text)'
  BY StepExtends
<1>3. QED BY <1>1, <1>2, KeyboardTypeCorrect, PTL DEF Spec

\* ... so the letter is never typed alone, by any presses of any keys: a learner
\* can not match it.
THEOREM OeNotTyped == Spec => []OeNeverAlone
<1>1. TextTypeOK /\ OeFollows(text) => OeNeverAlone
  <2>1. SUFFICES ASSUME TextTypeOK, OeFollows(text), NEW n \in DOMAIN text,
                        text[n] = Jamo.oe,
                        \A m \in DOMAIN text \ {n} : text[m] = Space
                 PROVE  FALSE
    BY DEF OeNeverAlone
  <2>2. DOMAIN text = 1 .. Len(text) /\ Len(text) \in Nat
    BY <2>1 DEF TextTypeOK
  <2>3. n > 1 /\ IsInitial(text[n - 1])
    BY <2>1 DEF OeFollows
  <2>4. n - 1 \in DOMAIN text \ {n}
    BY <2>2, <2>3
  <2>5. QED BY <2>1, <2>3, <2>4, SpaceIsNoInitial
<1>2. QED BY <1>1, OeAfterInitial, KeyboardTypeCorrect, PTL

----------------------------------------------------------------------------
(* FlattenSeq, whose recursive function is reasoned about by its least      *)
(* counterexample.                                                          *)

LEMMA LeastNumber ==
    ASSUME NEW T, T \subseteq Nat, T # {}
    PROVE  \E n \in T : \A m \in T : n <= m
<1>1. PICK n \in T : \A m \in T : ~ <<m, n>> \in OpToRel(<, Nat)
  BY NatLessThanWellFounded, WFMin
<1>2. \A m \in T : ~(m < n)
  BY <1>1 DEF OpToRel
<1>3. QED BY <1>2

\* f[i] is the first i elements of seqs, one after the other.
Flattens(f, seqs, n) ==
    f = [i \in 1..n |-> IF i = 1 THEN seqs[i] ELSE f[i - 1] \o seqs[i]]

LEMMA FlattenExists ==
    ASSUME NEW seqs, NEW n \in Nat
    PROVE  \E f : Flattens(f, seqs, n)
<1> DEFINE T == {k \in Nat : ~ \E f : Flattens(f, seqs, k)}
<1>1. SUFFICES ASSUME T # {} PROVE FALSE
  OBVIOUS
<1>2. PICK k \in T : \A m \in T : k <= m
  BY <1>1, LeastNumber
<1>3. CASE k = 0
  <2>1. Flattens([i \in 1..0 |-> 0], seqs, 0)
    BY DEF Flattens
  <2>2. QED BY <1>3, <2>1
<1>4. CASE k # 0
  <2>1. k - 1 \in Nat /\ k - 1 \notin T
    BY <1>2, <1>4
  <2>2. PICK f : Flattens(f, seqs, k - 1)
    BY <2>1
  <2> DEFINE g == [i \in 1..k |-> IF i = k THEN IF k = 1 THEN seqs[k] ELSE f[k - 1] \o seqs[k]
                                  ELSE f[i]]
  <2>3. \A i \in 1..k : g[i] = IF i = 1 THEN seqs[i] ELSE g[i - 1] \o seqs[i]
    <3>1. \A i \in 1..(k - 1) : f[i] = IF i = 1 THEN seqs[i] ELSE f[i - 1] \o seqs[i]
      BY <2>2 DEF Flattens
    <3>2. QED BY <3>1, <1>4
  <2>4. g = [i \in 1..k |-> IF i = 1 THEN seqs[i] ELSE g[i - 1] \o seqs[i]]
    <3> DEFINE h == [i \in 1..k |-> IF i = 1 THEN seqs[i] ELSE g[i - 1] \o seqs[i]]
    <3>1. \A i \in 1..k : g[i] = h[i]
      BY <2>3
    <3>2. QED BY <3>1
  <2>5. Flattens(g, seqs, k)
    BY <2>4 DEF Flattens
  <2>6. QED BY <2>5
<1>5. QED BY <1>3, <1>4

LEMMA FlattenIs ==
    ASSUME NEW seqs, Len(seqs) \in Nat \ {0}
    PROVE  \E f : Flattens(f, seqs, Len(seqs)) /\ FlattenSeq(seqs) = f[Len(seqs)]
<1> DEFINE f == CHOOSE f : Flattens(f, seqs, Len(seqs))
<1>1. Flattens(f, seqs, Len(seqs))
  BY FlattenExists
<1>2. FlattenSeq(seqs) = f[Len(seqs)]
  BY DEF FlattenSeq, Flattens
<1>3. QED BY <1>1, <1>2

LEMMA FlattensAt ==
    ASSUME NEW seqs, NEW n \in Nat, NEW f, Flattens(f, seqs, n), NEW i \in 1..n
    PROVE  f[i] = IF i = 1 THEN seqs[i] ELSE f[i - 1] \o seqs[i]
<1> DEFINE h == [k \in 1..n |-> IF k = 1 THEN seqs[k] ELSE f[k - 1] \o seqs[k]]
<1>1. f = h
  BY DEF Flattens
<1>2. h[i] = IF i = 1 THEN seqs[i] ELSE f[i - 1] \o seqs[i]
  OBVIOUS
<1> HIDE DEF h
<1>3. QED BY <1>1, <1>2

\* Sequences that agree so far are flattened the same way so far.
LEMMA FlattensAgree ==
    ASSUME NEW s, NEW t, NEW n \in Nat, NEW k \in Nat, n <= k,
           NEW f, Flattens(f, s, n), NEW g, Flattens(g, t, k),
           \A i \in 1..n : s[i] = t[i]
    PROVE  \A i \in 1..n : f[i] = g[i]
<1> DEFINE T == {i \in 1..n : f[i] # g[i]}
<1>1. SUFFICES ASSUME T # {} PROVE FALSE
  OBVIOUS
<1>2. T \subseteq Nat
  OBVIOUS
<1>3. PICK i \in T : \A m \in T : i <= m
  BY <1>1, <1>2, LeastNumber
<1>4. /\ f[i] = IF i = 1 THEN s[i] ELSE f[i - 1] \o s[i]
      /\ g[i] = IF i = 1 THEN t[i] ELSE g[i - 1] \o t[i]
  BY FlattensAt
<1>5. i # 1 => f[i - 1] = g[i - 1]
  <2>1. i \in 1..n
    OBVIOUS
  <2>2. i # 1 => i - 1 \in 1..n /\ ~(i <= i - 1)
    BY <2>1
  <2>3. QED BY <1>3, <2>2
<1>6. QED BY <1>4, <1>5

LEMMA FlattensType ==
    ASSUME NEW C, NEW s, NEW n \in Nat, NEW f, Flattens(f, s, n),
           \A i \in 1..n : s[i] \in Seq(C)
    PROVE  \A i \in 1..n : f[i] \in Seq(C)
<1> DEFINE T == {i \in 1..n : f[i] \notin Seq(C)}
<1>1. SUFFICES ASSUME T # {} PROVE FALSE
  OBVIOUS
<1>2. T \subseteq Nat
  OBVIOUS
<1>3. PICK i \in T : \A m \in T : i <= m
  BY <1>1, <1>2, LeastNumber
<1>4. f[i] = IF i = 1 THEN s[i] ELSE f[i - 1] \o s[i]
  BY FlattensAt
<1>5. i # 1 => f[i - 1] \in Seq(C)
  <2>1. i \in 1..n
    OBVIOUS
  <2>2. i # 1 => i - 1 \in 1..n /\ ~(i <= i - 1)
    BY <2>1
  <2>3. QED BY <1>3, <2>2
<1>6. f[i] \in Seq(C)
  BY <1>4, <1>5, ConcatProperties
<1>7. QED BY <1>6

LEMMA FlattenType ==
    ASSUME NEW C, NEW s \in Seq(Seq(C))
    PROVE  FlattenSeq(s) \in Seq(C)
<1>1. CASE s = <<>>
  <2>1. FlattenSeq(s) = <<>>
    BY <1>1 DEF FlattenSeq
  <2>2. QED BY <2>1
<1>2. CASE s # <<>>
  <2>1. Len(s) \in Nat \ {0}
    BY <1>2, EmptySeq
  <2>2. PICK f : Flattens(f, s, Len(s)) /\ FlattenSeq(s) = f[Len(s)]
    BY <2>1, FlattenIs
  <2>3. \A i \in 1..Len(s) : s[i] \in Seq(C)
    BY ElementOfSeq
  <2>4. \A i \in 1..Len(s) : f[i] \in Seq(C)
    BY <2>1, <2>2, <2>3, FlattensType
  <2>5. QED BY <2>1, <2>2, <2>4
<1>3. QED BY <1>1, <1>2

LEMMA FlattenAppend ==
    ASSUME NEW C, NEW s \in Seq(Seq(C)), NEW x \in Seq(C)
    PROVE  FlattenSeq(Append(s, x)) = FlattenSeq(s) \o x
<1> DEFINE t == Append(s, x)
           n == Len(s)
<1>1. /\ n \in Nat /\ Len(t) = n + 1 /\ t[n + 1] = x
      /\ \A i \in 1..n : s[i] = t[i]
  BY LenProperties, AppendProperties
<1>2. PICK g : Flattens(g, t, n + 1) /\ FlattenSeq(t) = g[n + 1]
  <2>1. Len(t) \in Nat \ {0}
    BY <1>1
  <2>2. \E g : Flattens(g, t, Len(t)) /\ FlattenSeq(t) = g[Len(t)]
    BY <2>1, FlattenIs
  <2>3. QED BY <1>1, <2>2
<1> HIDE DEF t
<1>3. g[n + 1] = IF n + 1 = 1 THEN x ELSE g[n] \o x
  <2>1. n + 1 \in Nat /\ n + 1 \in 1..(n + 1) /\ (n + 1) - 1 = n
    BY <1>1
  <2>2. g[n + 1] = IF n + 1 = 1 THEN t[n + 1] ELSE g[(n + 1) - 1] \o t[n + 1]
    <3> DEFINE k == n + 1
    <3>1. k \in Nat /\ k \in 1..k /\ Flattens(g, t, k)
      BY <1>2, <2>1
    <3> HIDE DEF k
    <3>2. g[k] = IF k = 1 THEN t[k] ELSE g[k - 1] \o t[k]
      BY ONLY <3>1, FlattensAt
    <3>3. QED BY <3>2 DEF k
  <2>3. QED BY <1>1, <2>1, <2>2
<1>4. CASE n = 0
  <2>1. FlattenSeq(s) = <<>>
    BY <1>4, EmptySeq DEF FlattenSeq
  <2>2. <<>> \o x = x
    BY ConcatEmptySeq
  <2>3. QED BY <1>1, <1>2, <1>3, <1>4, <2>1, <2>2 DEF t
<1>5. CASE n # 0
  <2>1. PICK f : Flattens(f, s, n) /\ FlattenSeq(s) = f[n]
    BY <1>1, <1>5, FlattenIs
  <2>2. \A i \in 1..n : f[i] = g[i]
    <3>1. n + 1 \in Nat /\ n <= n + 1
      BY <1>1
    <3> DEFINE k == n + 1
    <3>2. Flattens(f, s, n) /\ Flattens(g, t, k) /\ \A i \in 1..n : s[i] = t[i]
      BY <1>1, <1>2, <2>1
    <3>3. n \in Nat /\ k \in Nat /\ n <= k
      BY <1>1, <3>1
    <3> HIDE DEF n, k
    <3>4. QED BY ONLY <3>2, <3>3, FlattensAgree, SMTT(60)
  <2>3. f[n] = g[n]
    BY <1>1, <1>5, <2>2
  <2>4. n + 1 # 1
    BY <1>1, <1>5
  <2>5. QED BY <1>2, <1>3, <2>1, <2>3, <2>4 DEF t
<1>6. QED BY <1>1, <1>4, <1>5

----------------------------------------------------------------------------
(* The strokes of a text.                                                  *)

Pairs == VowelPairs \cup FinalPairs

\* A compound is typed in one way, and its two jamo are no compounds.
LEMMA CompoundsDistinct == \A q, r \in Pairs : q[3] = r[3] => q = r
BY SMTT(60) DEF Pairs, VowelPairs, FinalPairs, Jamo

LEMMA ComponentsSimple == \A q, r \in Pairs : q[1] # r[3] /\ q[2] # r[3]
BY SMTT(60) DEF Pairs, VowelPairs, FinalPairs, Jamo

LEMMA PairsAreJamo == \A q \in Pairs : q[1] \in JamoChars /\ q[2] \in JamoChars
BY DEF Pairs, VowelPairs, FinalPairs, Jamo, JamoChars

LEMMA InitialsSimple == \A q \in Pairs : ~IsInitial(q[3])
<1>1. \A q \in Pairs, n \in 1..19 : INITIALS[n] # q[3]
  BY SMTT(60) DEF Pairs, VowelPairs, FinalPairs, Jamo, INITIALS
<1>2. QED BY <1>1, InitialsTable DEF IsInitial, Includes

\* A final consonant begins a syllable or is a compound.
LEMMA FinalInitialOrCompound ==
    ASSUME NEW final, Includes(FINALS, final), final # None
    PROVE  IsInitial(final) \/ \E q \in Pairs : q[3] = final
<1>1. \A n \in 1..28 : FINALS[n] # None =>
        (\E m \in 1..19 : INITIALS[m] = FINALS[n]) \/ (\E q \in Pairs : q[3] = FINALS[n])
  <2>1. \A n \in {2, 3, 5, 8, 9, 17, 18, 20, 21, 22, 23, 24, 25, 26, 27, 28} :
            \E m \in 1..19 : INITIALS[m] = FINALS[n]
    BY SMTT(60) DEF INITIALS, FINALS, Jamo
  <2>2. \A n \in {4, 6, 7, 10, 11, 12, 13, 14, 15, 16, 19} :
            \E q \in FinalPairs : q[3] = FINALS[n]
    BY SMTT(60) DEF FinalPairs, FINALS, Jamo
  <2>3. FINALS[1] = None
    BY DEF FINALS
  <2>4. QED BY <2>1, <2>2, <2>3 DEF Pairs
<1>2. QED BY <1>1, InitialsTable, FinalsTable DEF IsInitial, Includes

LEMMA SplitSimple ==
    ASSUME NEW char, \A q \in Pairs : q[3] # char
    PROVE  Split(char) = <<char>>
BY DEF Split, Pairs

LEMMA SplitCompound ==
    ASSUME NEW q \in Pairs
    PROVE  Split(q[3]) = <<q[1], q[2]>>
<1> DEFINE all == {r \in Pairs : r[3] = q[3]}
           p == CHOOSE r \in all : TRUE
<1>1. q \in all /\ \A r \in all : r = q
  BY CompoundsDistinct
<1>2. p = q
  BY <1>1
<1>3. Split(q[3]) = <<p[1], p[2]>>
  BY <1>1 DEF Split, Pairs
<1>4. QED BY <1>2, <1>3

LEMMA SplitOfPair ==
    ASSUME NEW q \in Pairs
    PROVE  /\ Split(q[1]) = <<q[1]>>
           /\ Split(q[2]) = <<q[2]>>
           /\ Split(q[3]) = Split(q[1]) \o Split(q[2])
<1>1. Split(q[1]) = <<q[1]>> /\ Split(q[2]) = <<q[2]>>
  BY ComponentsSimple, SplitSimple
<1>2. <<q[1]>> \o <<q[2]>> = <<q[1], q[2]>>
  BY PairsAreJamo, TwoElements
<1>3. QED BY <1>1, <1>2, SplitCompound

LEMMA SplitInitial ==
    ASSUME NEW char, IsInitial(char)
    PROVE  Split(char) = <<char>>
BY InitialsSimple, SplitSimple

\* What is typed: a jamo or a space.
Strokable == JamoChars \cup {Space}

LEMMA SplitType ==
    ASSUME NEW char \in Strokable
    PROVE  Split(char) \in Seq(Strokable) /\ Len(Split(char)) > 0
<1>1. CASE \E q \in Pairs : q[3] = char
  <2>1. PICK q \in Pairs : q[3] = char
    BY <1>1
  <2>2. Split(char) = <<q[1], q[2]>>
    BY <2>1, SplitCompound
  <2>3. q[1] \in Strokable /\ q[2] \in Strokable
    BY PairsAreJamo DEF Strokable
  <2>4. QED BY <2>2, <2>3
<1>2. CASE \A q \in Pairs : q[3] # char
  <2>1. Split(char) = <<char>>
    BY <1>2, SplitSimple
  <2>2. QED BY <2>1
<1>3. QED BY <1>1, <1>2

\* The strokes of a syllable, by its parts.
SyllableStrokes(d) ==
    <<d.initial>> \o Split(d.vowel) \o IF d.final = None THEN <<>> ELSE Split(d.final)

LEMMA SyllableIsSyllable == \A char \in Syllables : IsSyllable(char)
BY DEF IsSyllable, Syllables, HANGUL_BASE, LAST_SYLLABLE

LEMMA JamoIsNoSyllable == \A char \in Strokable : ~IsSyllable(char)
BY DEF IsSyllable, HANGUL_BASE, LAST_SYLLABLE, Strokable, JamoChars, Jamo, Space

LEMMA StrokesOfSyllable ==
    ASSUME NEW char \in Syllables
    PROVE  Strokes(char) = SyllableStrokes(DecomposeSyllable(char))
BY SyllableIsSyllable DEF Strokes, SyllableStrokes

LEMMA StrokesOfJamo ==
    ASSUME NEW char \in Strokable
    PROVE  Strokes(char) = Split(char)
BY JamoIsNoSyllable DEF Strokes

LEMMA FinalIsJamo ==
    ASSUME NEW char, Includes(FINALS, char), char # None
    PROVE  char \in JamoChars
<1>1. \A n \in 1..28 : FINALS[n] # None => FINALS[n] \in JamoChars
  BY DEF FINALS, JamoChars, Jamo, None
<1>2. QED BY <1>1, FinalsTable DEF Includes

\* The three parts of the strokes of a syllable.
LEMMA PartsType ==
    ASSUME NEW char \in Syllables, NEW d, d = DecomposeSyllable(char)
    PROVE  /\ <<d.initial>> \in Seq(Strokable)
           /\ Split(d.vowel) \in Seq(Strokable) /\ Len(Split(d.vowel)) > 0
           /\ d.final # None => Split(d.final) \in Seq(Strokable) /\ Len(Split(d.final)) > 0
<1>1. IsInitial(d.initial) /\ IsVowel(d.vowel) /\ Includes(FINALS, d.final)
  BY DecomposeThenCombine
<1>2. d.initial \in Strokable /\ d.vowel \in Strokable
  BY <1>1, InitialIsJamo, VowelIsJamo DEF Strokable
<1>3. d.final # None => d.final \in Strokable
  BY <1>1, FinalIsJamo DEF Strokable
<1>4. <<d.initial>> \in Seq(Strokable)
  <2>1. \A c \in Strokable : <<c>> \in Seq(Strokable)
    OBVIOUS
  <2>2. QED BY <1>2, <2>1
<1>5. Split(d.vowel) \in Seq(Strokable) /\ Len(Split(d.vowel)) > 0
  BY <1>2, SplitType
<1>6. d.final # None => Split(d.final) \in Seq(Strokable) /\ Len(Split(d.final)) > 0
  BY <1>3, SplitType
<1>7. QED BY <1>4, <1>5, <1>6

LEMMA StrokesType ==
    ASSUME NEW char \in Chars
    PROVE  Strokes(char) \in Seq(Strokable) /\ Len(Strokes(char)) > 0
<1>1. CASE char \in Syllables
  <2> DEFINE d == DecomposeSyllable(char)
             f == IF d.final = None THEN <<>> ELSE Split(d.final)
  <2>1. /\ <<d.initial>> \in Seq(Strokable)
        /\ Split(d.vowel) \in Seq(Strokable) /\ Len(Split(d.vowel)) > 0
        /\ f \in Seq(Strokable)
    BY <1>1, PartsType
  <2>2. Strokes(char) = <<d.initial>> \o Split(d.vowel) \o f
    BY <1>1, StrokesOfSyllable DEF SyllableStrokes
  <2> HIDE DEF d, f
  <2>3. QED BY <2>1, <2>2, ConcatProperties, LenProperties
<1>2. CASE char \in Strokable
  BY <1>2, StrokesOfJamo, SplitType
<1>3. QED BY <1>1, <1>2 DEF Chars, Strokable

Each(string) == [n \in DOMAIN string |-> Strokes(string[n])]

LEMMA EachType ==
    ASSUME NEW string \in Seq(Chars)
    PROVE  /\ Each(string) \in Seq(Seq(Strokable))
           /\ Len(Each(string)) = Len(string)
           /\ \A n \in 1..Len(string) : Each(string)[n] = Strokes(string[n])
<1>1. DOMAIN string = 1..Len(string) /\ Len(string) \in Nat
  BY LenProperties
<1>2. \A n \in 1..Len(string) : Strokes(string[n]) \in Seq(Strokable)
  BY StrokesType, ElementOfSeq
<1>3. Each(string) \in [1..Len(string) -> Seq(Strokable)]
  BY <1>1, <1>2 DEF Each
<1>4. Each(string) \in Seq(Seq(Strokable))
  BY <1>1, <1>3, IsASeq
<1>5. Len(Each(string)) = Len(string)
  BY <1>1, <1>3, <1>4, LenProperties
<1>6. QED BY <1>1, <1>4, <1>5 DEF Each

LEMMA EachAppend ==
    ASSUME NEW string \in Seq(Chars), NEW char \in Chars
    PROVE  Each(Append(string, char)) = Append(Each(string), Strokes(char))
<1> DEFINE s == Append(string, char)
           k == Len(string)
           a == Append(Each(string), Strokes(char))
<1>1. /\ s \in Seq(Chars) /\ Len(s) = k + 1 /\ k \in Nat /\ s[k + 1] = char
      /\ \A n \in 1..k : s[n] = string[n]
  BY AppendProperties, LenProperties
<1>2. /\ Each(string) \in Seq(Seq(Strokable)) /\ Len(Each(string)) = k
      /\ \A n \in 1..k : Each(string)[n] = Strokes(string[n])
  BY EachType
<1>3. Strokes(char) \in Seq(Strokable)
  BY StrokesType
<1>4. /\ a \in Seq(Seq(Strokable)) /\ Len(a) = k + 1 /\ a[k + 1] = Strokes(char)
      /\ \A n \in 1..k : a[n] = Each(string)[n]
  <2> DEFINE e == Each(string)
             x == Strokes(char)
  <2>1. e \in Seq(Seq(Strokable)) /\ Len(e) = k /\ x \in Seq(Strokable) /\ k \in Nat
    BY <1>1, <1>2, <1>3
  <2> HIDE DEF e, x, k
  <2>2. /\ Append(e, x) \in Seq(Seq(Strokable)) /\ Len(Append(e, x)) = k + 1
        /\ Append(e, x)[k + 1] = x /\ \A n \in 1..k : Append(e, x)[n] = e[n]
    BY <2>1, AppendProperties
  <2>3. QED BY <2>2 DEF e, x
<1> HIDE DEF s, a, k
<1>5. /\ Each(s) \in Seq(Seq(Strokable)) /\ Len(Each(s)) = k + 1
      /\ \A n \in 1..(k + 1) : Each(s)[n] = Strokes(s[n])
  BY <1>1, EachType
<1>6. \A n \in 1..(k + 1) : Each(s)[n] = a[n]
  <2>1. ASSUME NEW n \in 1..(k + 1) PROVE Each(s)[n] = a[n]
    <3>1. Each(s)[n] = Strokes(s[n])
      BY <1>5
    <3>2. CASE n = k + 1
      BY <1>1, <1>4, <3>1, <3>2
    <3>3. CASE n # k + 1
      <4>1. n \in 1..k
        BY <1>1, <3>3
      <4>2. s[n] = string[n] /\ a[n] = Strokes(string[n])
        BY <1>1, <1>2, <1>4, <4>1
      <4>3. QED BY <3>1, <4>2
    <3>4. QED BY <3>2, <3>3
  <2>2. QED BY <2>1
<1>7. Each(s) = a
  BY <1>4, <1>5, <1>6, SeqEqual
<1>8. QED BY <1>7 DEF s, a

LEMMA AllStrokesType ==
    ASSUME NEW string \in Seq(Chars)
    PROVE  AllStrokes(string) \in Seq(Strokable)
BY EachType, FlattenType DEF AllStrokes, Each

LEMMA NoStrokes == AllStrokes(<<>>) = <<>>
<1>1. Each(<<>>) = <<>>
  <2>1. <<>> \in Seq(Chars)
    OBVIOUS
  <2>2. QED BY <2>1, EachType, EmptySeq
<1>2. FlattenSeq(<<>>) = <<>>
  BY DEF FlattenSeq
<1>3. QED BY <1>1, <1>2 DEF AllStrokes, Each

LEMMA StrokesAppend ==
    ASSUME NEW string \in Seq(Chars), NEW char \in Chars
    PROVE  AllStrokes(Append(string, char)) = AllStrokes(string) \o Strokes(char)
<1>1. FlattenSeq(Append(Each(string), Strokes(char))) = FlattenSeq(Each(string)) \o Strokes(char)
  BY EachType, StrokesType, FlattenAppend
<1>2. AllStrokes(string) = FlattenSeq(Each(string))
  BY DEF AllStrokes, Each
<1>3. AllStrokes(Append(string, char)) = FlattenSeq(Each(Append(string, char)))
  BY DEF AllStrokes, Each
<1>4. QED BY <1>1, <1>2, <1>3, EachAppend

LEMMA StrokesAssociate ==
    ASSUME NEW x \in Seq(Strokable), NEW y \in Seq(Strokable), NEW z \in Seq(Strokable)
    PROVE  (x \o y) \o z = x \o (y \o z)
BY ConcatAssociative

LEMMA StrokesOfOne ==
    ASSUME NEW char \in Chars
    PROVE  AllStrokes(<<char>>) = Strokes(char)
<1>1. <<>> \in Seq(Chars) /\ Append(<<>>, char) = <<char>>
  OBVIOUS
<1>2. AllStrokes(<<char>>) = <<>> \o Strokes(char)
  BY <1>1, StrokesAppend, NoStrokes
<1>3. QED BY <1>2, StrokesType, ConcatEmptySeq

\* The strokes of a text are those of its parts.
LEMMA StrokesConcat ==
    ASSUME NEW s \in Seq(Chars), NEW t \in Seq(Chars)
    PROVE  AllStrokes(s \o t) = AllStrokes(s) \o AllStrokes(t)
<1> DEFINE Splits(u) == AllStrokes(s \o u) = AllStrokes(s) \o AllStrokes(u)
           T == {n \in Nat : \E u \in Seq(Chars) : Len(u) = n /\ ~Splits(u)}
<1>1. SUFFICES T = {}
  <2>1. Len(t) \in Nat
    BY LenProperties
  <2>2. QED BY <1>1, <2>1
<1>2. SUFFICES ASSUME T # {} PROVE FALSE
  OBVIOUS
<1>3. T \subseteq Nat
  OBVIOUS
<1>4. PICK n \in T : \A m \in T : n <= m
  BY <1>2, <1>3, LeastNumber
<1>5. PICK u \in Seq(Chars) : Len(u) = n /\ ~Splits(u)
  OBVIOUS
<1>6. CASE u = <<>>
  <2>1. s \o <<>> = s
    BY ConcatEmptySeq
  <2>2. AllStrokes(s) \o <<>> = AllStrokes(s)
    BY AllStrokesType, ConcatEmptySeq
  <2>3. Splits(<<>>)
    BY <2>1, <2>2, NoStrokes
  <2>4. QED BY <1>5, <1>6, <2>3
<1>7. CASE u # <<>>
  <2> DEFINE f == Front(u)
             c == Last(u)
  <2>1. f \in Seq(Chars) /\ c \in Chars /\ f \o <<c>> = u
    BY <1>7, FrontAndLast
  <2> HIDE DEF f, c
  <2>2. Append(f, c) = u
    BY <2>1, AppendIsConcat
  <2>3. Len(f) = n - 1 /\ Len(f) \in Nat
    BY <1>5, <2>1, <2>2, AppendProperties, LenProperties
  <2>4. Splits(f)
    <3>1. Len(f) \notin T
      BY <1>4, <2>3
    <3>2. QED BY <2>1, <2>3, <3>1
  <2>5. AllStrokes(u) = AllStrokes(f) \o Strokes(c)
    BY <2>1, <2>2, StrokesAppend
  <2>6. s \o u = Append(s \o f, c) /\ s \o f \in Seq(Chars)
    <3>1. f \in Seq(Chars) /\ <<c>> \in Seq(Chars)
      BY <2>1
    <3>2. s \o (f \o <<c>>) = (s \o f) \o <<c>>
      <4> DEFINE l == <<c>>
      <4>1. s \in Seq(Chars) /\ f \in Seq(Chars) /\ l \in Seq(Chars)
        BY <3>1
      <4> HIDE DEF l
      <4>2. (s \o f) \o l = s \o (f \o l)
        BY ONLY <4>1, TextsAssociate, ZenonT(60)
      <4>3. QED BY <4>2 DEF l
    <3>3. s \o f \in Seq(Chars)
      BY <2>1, ConcatProperties
    <3>4. QED BY <2>1, <3>2, <3>3, AppendIsConcat
  <2>7. AllStrokes(s \o u) = AllStrokes(s \o f) \o Strokes(c)
    BY <2>1, <2>6, StrokesAppend
  <2>8. AllStrokes(s \o f) = AllStrokes(s) \o AllStrokes(f)
    BY <2>4
  <2>9. (AllStrokes(s) \o AllStrokes(f)) \o Strokes(c) = AllStrokes(s) \o (AllStrokes(f) \o Strokes(c))
    <3>1. /\ AllStrokes(s) \in Seq(Strokable) /\ AllStrokes(f) \in Seq(Strokable)
          /\ Strokes(c) \in Seq(Strokable)
      BY <2>1, AllStrokesType, StrokesType
    <3>2. QED BY ONLY <3>1, StrokesAssociate
  <2>10. Splits(u)
    BY <2>5, <2>7, <2>8, <2>9
  <2>11. QED BY <1>5, <2>10
<1>8. QED BY <1>6, <1>7

LEMMA StrokesOfTwo ==
    ASSUME NEW a \in Chars, NEW b \in Chars
    PROVE  AllStrokes(<<a, b>>) = Strokes(a) \o Strokes(b)
<1>1. <<a>> \in Seq(Chars) /\ <<b>> \in Seq(Chars) /\ <<a>> \o <<b>> = <<a, b>>
  BY TwoElements
<1>2. AllStrokes(<<a>> \o <<b>>) = AllStrokes(<<a>>) \o AllStrokes(<<b>>)
  BY <1>1, StrokesConcat
<1>3. QED BY <1>1, <1>2, StrokesOfOne

LEMMA StrokesToLast ==
    ASSUME NEW string \in Seq(Chars), string # <<>>
    PROVE  /\ Front(string) \in Seq(Chars) /\ Last(string) \in Chars
           /\ AllStrokes(string) = AllStrokes(Front(string)) \o Strokes(Last(string))
<1>1. Front(string) \in Seq(Chars) /\ Last(string) \in Chars
      /\ Front(string) \o <<Last(string)>> = string
  BY FrontAndLast
<1>2. <<Last(string)>> \in Seq(Chars)
  BY <1>1
<1>3. AllStrokes(string) = AllStrokes(Front(string)) \o AllStrokes(<<Last(string)>>)
  BY <1>1, <1>2, StrokesConcat
<1>4. QED BY <1>1, <1>3, StrokesOfOne

\* The last character becomes t: the strokes before it stay.
LEMMA LastRewritten ==
    ASSUME NEW string \in Seq(Chars), string # <<>>, NEW t \in Seq(Chars),
           NEW more \in Seq(Strokable), AllStrokes(t) = Strokes(Last(string)) \o more
    PROVE  AllStrokes(Front(string) \o t) = AllStrokes(string) \o more
<1> DEFINE f == AllStrokes(Front(string))
           l == Strokes(Last(string))
<1>1. f \in Seq(Strokable) /\ l \in Seq(Strokable)
  BY StrokesToLast, AllStrokesType, StrokesType
<1>2. AllStrokes(Front(string) \o t) = f \o AllStrokes(t)
  BY StrokesToLast, StrokesConcat
<1>3. AllStrokes(string) = f \o l
  BY StrokesToLast
<1> HIDE DEF f
<1>4. (f \o l) \o more = f \o (l \o more)
  <2> HIDE DEF l
  <2>1. QED BY <1>1, StrokesAssociate
<1>5. QED BY <1>2, <1>3, <1>4

LEMMA AppendStrokes ==
    ASSUME NEW string \in Seq(Chars), NEW jamo \in Strokable
    PROVE  AllStrokes(Append(string, jamo)) = AllStrokes(string) \o Split(jamo)
<1>1. jamo \in Chars
  BY DEF Strokable, Chars
<1>2. QED BY <1>1, StrokesAppend, StrokesOfJamo

----------------------------------------------------------------------------
(* Composing keeps the strokes.                                            *)

LEMMA CompoundIsVowel == \A q \in VowelPairs : IsVowel(q[3])
<1>1. /\ Jamo.wa = VOWELS[10] /\ Jamo.wae = VOWELS[11] /\ Jamo.oe = VOWELS[12]
      /\ Jamo.wo = VOWELS[15] /\ Jamo.we = VOWELS[16] /\ Jamo.wi = VOWELS[17]
      /\ Jamo.ui = VOWELS[20]
  BY DEF VOWELS
<1>2. \A q \in VowelPairs : q[3] \in {Jamo.wa, Jamo.wae, Jamo.oe, Jamo.wo, Jamo.we,
                                      Jamo.wi, Jamo.ui}
  BY DEF VowelPairs
<1>3. QED BY <1>1, <1>2, VowelsTable DEF IsVowel, Includes

LEMMA PairFound ==
    ASSUME NEW pairs, NEW first, NEW second, PairOf(pairs, first, second) # None
    PROVE  \E q \in pairs :
             q[1] = first /\ q[2] = second /\ q[3] = PairOf(pairs, first, second)
BY DEF PairOf

\* A syllable put together has the strokes of its parts.
LEMMA CombinedStrokes ==
    ASSUME NEW initial, IsInitial(initial), NEW vowel, IsVowel(vowel),
           NEW final, Includes(FINALS, final)
    PROVE  /\ CombineJamo(initial, vowel, final) \in Seq(Chars)
           /\ AllStrokes(CombineJamo(initial, vowel, final)) =
                SyllableStrokes([initial |-> initial, vowel |-> vowel, final |-> final])
<1>1. PICK char \in Syllables :
        /\ CombineJamo(initial, vowel, final) = <<char>>
        /\ DecomposeSyllable(char) = [initial |-> initial, vowel |-> vowel, final |-> final]
  BY CombineThenDecompose
<1>2. char \in Chars
  BY DEF Chars
<1>3. QED BY <1>1, <1>2, StrokesOfOne, StrokesOfSyllable

\* The same, without the record.
LEMMA CombinedOpen ==
    ASSUME NEW initial, IsInitial(initial), NEW vowel, IsVowel(vowel)
    PROVE  /\ CombineJamo(initial, vowel, None) \in Seq(Chars)
           /\ AllStrokes(CombineJamo(initial, vowel, None)) = <<initial>> \o Split(vowel)
<1> DEFINE r == [initial |-> initial, vowel |-> vowel, final |-> None]
<1>1. SyllableStrokes(r) = <<initial>> \o Split(vowel) \o <<>>
  BY DEF SyllableStrokes
<1>2. <<initial>> \o Split(vowel) \in Seq(Strokable)
  <2>1. initial \in Strokable /\ vowel \in Strokable
    BY InitialIsJamo, VowelIsJamo DEF Strokable
  <2>2. <<initial>> \in Seq(Strokable) /\ Split(vowel) \in Seq(Strokable)
    BY <2>1, SplitType
  <2>3. QED BY <2>2, ConcatProperties
<1>3. (<<initial>> \o Split(vowel)) \o <<>> = <<initial>> \o Split(vowel)
  BY <1>2, ConcatEmptySeq
<1>4. QED BY <1>1, <1>3, CombinedStrokes, NoneIsFinal

LEMMA CombinedClosed ==
    ASSUME NEW initial, IsInitial(initial), NEW vowel, IsVowel(vowel),
           NEW final, Includes(FINALS, final), final # None
    PROVE  /\ CombineJamo(initial, vowel, final) \in Seq(Chars)
           /\ AllStrokes(CombineJamo(initial, vowel, final)) =
                (<<initial>> \o Split(vowel)) \o Split(final)
<1> DEFINE r == [initial |-> initial, vowel |-> vowel, final |-> final]
<1>1. SyllableStrokes(r) = <<initial>> \o Split(vowel) \o Split(final)
  BY DEF SyllableStrokes
<1>2. QED BY <1>1, CombinedStrokes

\* The strokes of a syllable, without and with a final consonant.
LEMMA SyllableParts ==
    ASSUME NEW char \in Syllables, NEW d, d = DecomposeSyllable(char)
    PROVE  /\ <<d.initial>> \o Split(d.vowel) \in Seq(Strokable)
           /\ d.final = None => Strokes(char) = <<d.initial>> \o Split(d.vowel)
           /\ d.final # None =>
                /\ Strokes(char) = (<<d.initial>> \o Split(d.vowel)) \o Split(d.final)
                /\ Split(d.final) \in Seq(Strokable) /\ Len(Split(d.final)) > 0
<1>1. IsInitial(d.initial) /\ IsVowel(d.vowel) /\ Includes(FINALS, d.final)
      /\ CombineJamo(d.initial, d.vowel, d.final) = <<char>>
  BY DecomposeThenCombine
<1>2. AllStrokes(<<char>>) = Strokes(char)
  BY StrokesOfOne DEF Chars
<1>3. <<d.initial>> \o Split(d.vowel) \in Seq(Strokable)
  BY PartsType, ConcatProperties
<1>4. d.final = None => Strokes(char) = <<d.initial>> \o Split(d.vowel)
  BY <1>1, <1>2, CombinedOpen
<1>5. d.final # None =>
        Strokes(char) = (<<d.initial>> \o Split(d.vowel)) \o Split(d.final)
  <2>1. CASE d.final # None
    <3>1. AllStrokes(CombineJamo(d.initial, d.vowel, d.final))
            = (<<d.initial>> \o Split(d.vowel)) \o Split(d.final)
      BY ONLY <1>1, <2>1, CombinedClosed
    <3>2. QED BY <1>1, <1>2, <3>1
  <2>2. QED BY <2>1
<1>6. d.final # None => Split(d.final) \in Seq(Strokable) /\ Len(Split(d.final)) > 0
  BY PartsType
<1>7. QED BY <1>3, <1>4, <1>5, <1>6

\* A final consonant that is no compound begins a syllable.
LEMMA SimpleFinal ==
    ASSUME NEW char \in Syllables, ~CompoundFinal(char),
           NEW d, d = DecomposeSyllable(char), d.final # None
    PROVE  IsInitial(d.final)
<1>1. Includes(FINALS, d.final)
  BY DecomposeThenCombine
<1>2. SUFFICES ASSUME NEW q \in Pairs, q[3] = d.final PROVE FALSE
  BY <1>1, FinalInitialOrCompound
<1>3. Split(d.final) = <<q[1], q[2]>>
  BY <1>2, SplitCompound
<1>4. Len(Split(d.final)) = 2
  BY <1>3
<1>5. QED BY <1>4, SyllableIsSyllable DEF CompoundFinal

\* Lines 171-181, and a final that can begin a syllable: it and the vowel are the next.
LEMMA VowelStrokes ==
    ASSUME NEW syllable \in Syllables, NEW vowel, IsVowel(vowel),
           NEW d, d = DecomposeSyllable(syllable), IsInitial(d.final)
    PROVE  /\ AddToSyllable(syllable, vowel) \in Seq(Chars)
           /\ AllStrokes(AddToSyllable(syllable, vowel)) = Strokes(syllable) \o Split(vowel)
<1> DEFINE a == CombineJamo(d.initial, d.vowel, None)
           b == CombineJamo(d.final, vowel, None)
           open == <<d.initial>> \o Split(d.vowel)
<1>1. d.final # None /\ IsInitial(d.initial) /\ IsVowel(d.vowel)
  BY NoneIsNoInitial, DecomposeThenCombine
<1>2. AddToSyllable(syllable, vowel) = a \o b
  BY <1>1 DEF AddToSyllable
<1>3. a \in Seq(Chars) /\ AllStrokes(a) = open
  BY ONLY <1>1, CombinedOpen
<1>4. b \in Seq(Chars) /\ AllStrokes(b) = <<d.final>> \o Split(vowel)
  BY CombinedOpen
<1>5. AllStrokes(a \o b) = open \o (<<d.final>> \o Split(vowel))
  BY <1>3, <1>4, StrokesConcat
<1>6. Strokes(syllable) = open \o <<d.final>>
  BY <1>1, SyllableParts, SplitInitial
<1>7. open \in Seq(Strokable) /\ <<d.final>> \in Seq(Strokable) /\ Split(vowel) \in Seq(Strokable)
  <2>1. vowel \in Strokable /\ d.final \in Strokable
    BY VowelIsJamo, InitialIsJamo DEF Strokable
  <2>2. open \in Seq(Strokable)
    BY SyllableParts
  <2> HIDE DEF open
  <2>3. \A c \in Strokable : <<c>> \in Seq(Strokable)
    OBVIOUS
  <2>4. QED BY <2>1, <2>2, <2>3, SplitType
<1>8. (open \o <<d.final>>) \o Split(vowel) = open \o (<<d.final>> \o Split(vowel))
  BY ONLY <1>7, StrokesAssociate
<1>9. a \o b \in Seq(Chars)
  BY <1>3, <1>4, ConcatProperties
<1> HIDE DEF a, b, open
<1>10. QED BY <1>2, <1>5, <1>6, <1>8, <1>9

\* Lines 185-198: a final and a consonant that make a compound.
LEMMA CompoundStrokes ==
    ASSUME NEW syllable \in Syllables, NEW jamo,
           NEW d, d = DecomposeSyllable(syllable), d.final # None,
           GetCompoundFinal(d.final, jamo) # None
    PROVE  LET t == CombineJamo(d.initial, d.vowel, GetCompoundFinal(d.final, jamo))
           IN  t \in Seq(Chars) /\ AllStrokes(t) = Strokes(syllable) \o Split(jamo)
<1> DEFINE final == GetCompoundFinal(d.final, jamo)
           t == CombineJamo(d.initial, d.vowel, final)
           open == <<d.initial>> \o Split(d.vowel)
<1>1. PICK q \in Pairs : q[1] = d.final /\ q[2] = jamo /\ q[3] = final
  BY PairFound DEF GetCompoundFinal, Pairs
<1>2. Includes(FINALS, final) /\ final # None
  BY CompoundIsFinal
<1>3. IsInitial(d.initial) /\ IsVowel(d.vowel)
  BY DecomposeThenCombine
<1>4. Split(final) = Split(d.final) \o Split(jamo)
  BY <1>1, SplitOfPair
<1>5. Strokes(syllable) = open \o Split(d.final)
  BY SyllableParts
<1>6. open \in Seq(Strokable) /\ Split(d.final) \in Seq(Strokable)
  BY SyllableParts
<1>7. Split(jamo) \in Seq(Strokable)
  BY <1>1, PairsAreJamo, SplitType DEF Strokable
<1> HIDE DEF final
<1>8. t \in Seq(Chars) /\ AllStrokes(t) = open \o Split(final)
  BY ONLY <1>2, <1>3, CombinedClosed
<1>9. (open \o Split(d.final)) \o Split(jamo) = open \o (Split(d.final) \o Split(jamo))
  BY ONLY <1>6, <1>7, StrokesAssociate
<1>10. QED BY <1>4, <1>5, <1>8, <1>9 DEF final

\* Lines 219-230: a vowel and a vowel that make a compound.
LEMMA VowelPairStrokes ==
    ASSUME NEW syllable \in Syllables, NEW jamo,
           NEW d, d = DecomposeSyllable(syllable), d.final = None,
           CombineVowels(d.vowel, jamo) # None
    PROVE  LET t == CombineJamo(d.initial, CombineVowels(d.vowel, jamo), None)
           IN  t \in Seq(Chars) /\ AllStrokes(t) = Strokes(syllable) \o Split(jamo)
<1> DEFINE vowel == CombineVowels(d.vowel, jamo)
           t == CombineJamo(d.initial, vowel, None)
<1>1. PICK q \in VowelPairs : q[1] = d.vowel /\ q[2] = jamo /\ q[3] = vowel
  BY PairFound DEF CombineVowels
<1>2. q \in Pairs /\ IsVowel(vowel)
  BY <1>1, CompoundIsVowel DEF Pairs
<1>3. IsInitial(d.initial) /\ d.initial \in Strokable
  BY DecomposeThenCombine, InitialIsJamo DEF Strokable
<1>4. Split(vowel) = Split(d.vowel) \o Split(jamo)
  BY <1>1, <1>2, SplitOfPair
<1>5. Strokes(syllable) = <<d.initial>> \o Split(d.vowel)
  BY SyllableParts
<1>6. /\ <<d.initial>> \in Seq(Strokable) /\ Split(d.vowel) \in Seq(Strokable)
      /\ Split(jamo) \in Seq(Strokable)
  <2>1. d.vowel \in Strokable /\ jamo \in Strokable
    BY <1>1, <1>2, PairsAreJamo DEF Strokable
  <2>2. \A c \in Strokable : <<c>> \in Seq(Strokable)
    OBVIOUS
  <2>3. QED BY <1>3, <2>1, <2>2, SplitType
<1> HIDE DEF vowel
<1>7. t \in Seq(Chars) /\ AllStrokes(t) = <<d.initial>> \o Split(vowel)
  BY ONLY <1>2, <1>3, CombinedOpen
<1>8. (<<d.initial>> \o Split(d.vowel)) \o Split(jamo)
        = <<d.initial>> \o (Split(d.vowel) \o Split(jamo))
  BY ONLY <1>6, StrokesAssociate
<1>9. QED BY <1>4, <1>5, <1>7, <1>8 DEF vowel

\* Lines 236-243: a consonant that becomes the final.
LEMMA NewFinalStrokes ==
    ASSUME NEW syllable \in Syllables, NEW jamo, IsFinal(jamo),
           NEW d, d = DecomposeSyllable(syllable), d.final = None
    PROVE  LET t == CombineJamo(d.initial, d.vowel, jamo)
           IN  t \in Seq(Chars) /\ AllStrokes(t) = Strokes(syllable) \o Split(jamo)
<1>1. IsInitial(d.initial) /\ IsVowel(d.vowel)
  BY DecomposeThenCombine
<1>2. Includes(FINALS, jamo) /\ jamo # None
  BY DEF IsFinal
<1>3. Strokes(syllable) = <<d.initial>> \o Split(d.vowel)
  BY SyllableParts
<1>4. /\ CombineJamo(d.initial, d.vowel, jamo) \in Seq(Chars)
      /\ AllStrokes(CombineJamo(d.initial, d.vowel, jamo))
           = (<<d.initial>> \o Split(d.vowel)) \o Split(jamo)
  BY ONLY <1>1, <1>2, CombinedClosed
<1>5. QED BY <1>3, <1>4

\* A jamo of a key is an initial consonant or a vowel.
KeyJamo(jamo) == jamo \in Keys /\ (IsInitial(jamo) \/ IsVowel(jamo))

\* A syllable and a key: what is written has the strokes of both (lines 168-253),
\* but for a vowel after a compound final.
LEMMA AddToSyllableStrokes ==
    ASSUME NEW syllable \in Syllables, NEW jamo, KeyJamo(jamo),
           ~(CompoundFinal(syllable) /\ IsVowel(jamo))
    PROVE  /\ AddToSyllable(syllable, jamo) \in Seq(Chars)
           /\ AllStrokes(AddToSyllable(syllable, jamo)) = Strokes(syllable) \o Split(jamo)
<1> DEFINE d == DecomposeSyllable(syllable)
           f == GetCompoundFinal(d.final, jamo)
           w == CombineVowels(d.vowel, jamo)
           Good(t) == t \in Seq(Chars) /\ AllStrokes(t) = Strokes(syllable) \o Split(jamo)
<1>1. CASE d.final # None /\ IsVowel(jamo)
  <2>1. IsInitial(d.final)
    BY <1>1, SimpleFinal
  <2>2. QED BY <1>1, <2>1, VowelStrokes
<1>2. CASE d.final # None /\ ~IsVowel(jamo) /\ f # None
  <2>1. AddToSyllable(syllable, jamo) = CombineJamo(d.initial, d.vowel, f)
    BY <1>2 DEF AddToSyllable
  <2>2. Good(CombineJamo(d.initial, d.vowel, f))
    BY <1>2, CompoundStrokes
  <2>3. QED BY <2>1, <2>2
<1>3. CASE d.final = None /\ w # None
  <2>1. AddToSyllable(syllable, jamo) = CombineJamo(d.initial, w, None)
    BY <1>3 DEF AddToSyllable
  <2>2. Good(CombineJamo(d.initial, w, None))
    BY <1>3, VowelPairStrokes
  <2>3. QED BY <2>1, <2>2
<1>4. CASE d.final = None /\ w = None /\ IsFinal(jamo)
  <2>1. AddToSyllable(syllable, jamo) = CombineJamo(d.initial, d.vowel, jamo)
    BY <1>4 DEF AddToSyllable
  <2>2. Good(CombineJamo(d.initial, d.vowel, jamo))
    BY <1>4, NewFinalStrokes
  <2>3. QED BY <2>1, <2>2
<1>5. CASE \/ d.final # None /\ ~IsVowel(jamo) /\ f = None
           \/ d.final = None /\ w = None /\ ~IsFinal(jamo)
  <2>1. AddToSyllable(syllable, jamo) = <<syllable, jamo>>
    BY <1>5 DEF AddToSyllable, KeyJamo
  <2>2. syllable \in Chars /\ jamo \in Chars /\ jamo \in Strokable
    BY DEF Chars, KeyJamo, Keys, Strokable
  <2>3. AllStrokes(<<syllable, jamo>>) = Strokes(syllable) \o Split(jamo)
    BY <2>2, StrokesOfTwo, StrokesOfJamo
  <2>4. <<syllable, jamo>> \in Seq(Chars)
    BY <2>2
  <2>5. QED BY <2>1, <2>3, <2>4
<1>6. QED BY <1>1, <1>2, <1>3, <1>4, <1>5

\* A vowel after a lone initial consonant (lines 256-278): the text before it stays,
\* whether line 273 rebuilds its end or not.
LEMMA AddVowelToInitial ==
    ASSUME NEW string \in Seq(Chars), string # <<>>, NEW vowel, IsVowel(vowel)
    PROVE  AddToInitial(string, vowel) = Front(string) \o CombineJamo(Last(string), vowel, None)
<1> DEFINE before == Front(string)
           d == DecomposeSyllable(Last(before))
           first == CombineJamo(d.initial, d.vowel, d.final)
           next == CombineJamo(Last(string), vowel, None)
           Rebuilds == before # <<>> /\ IsSyllable(Last(before)) /\ d.final # None
<1>1. AddToInitial(string, vowel) =
        IF Rebuilds THEN (Front(before) \o first) \o next ELSE before \o next
  BY DEF AddToInitial
<1>2. before \in Seq(Chars)
  BY FrontAndLast
<1>3. Rebuilds => Front(before) \o first = before
  <2>1. SUFFICES ASSUME Rebuilds PROVE Front(before) \o first = before
    OBVIOUS
  <2>2. Last(before) \in Chars /\ Front(before) \o <<Last(before)>> = before
    BY <1>2, <2>1, FrontAndLast
  <2>3. Last(before) \in Syllables
    BY <2>1, <2>2, SyllableInRange
  <2>4. first = <<Last(before)>>
    BY <2>3, DecomposeThenCombine
  <2>5. QED BY <2>2, <2>4
<1>4. AddToInitial(string, vowel) = before \o next
  <2> HIDE DEF Rebuilds, before, first, next
  <2>1. QED BY <1>1, <1>3
<1>5. QED BY <1>4

LEMMA AddToInitialStrokes ==
    ASSUME NEW string \in Seq(Chars), string # <<>>, IsInitial(Last(string)),
           NEW vowel, IsVowel(vowel)
    PROVE  AllStrokes(AddToInitial(string, vowel)) = AllStrokes(string) \o Split(vowel)
<1> DEFINE last == Last(string)
           next == CombineJamo(last, vowel, None)
<1>1. next \in Seq(Chars) /\ AllStrokes(next) = <<last>> \o Split(vowel)
  BY CombinedOpen
<1>2. Strokes(last) = <<last>>
  <2>1. last \in Strokable
    BY InitialIsJamo DEF Strokable
  <2>2. QED BY <2>1, StrokesOfJamo, SplitInitial
<1>3. Split(vowel) \in Seq(Strokable)
  BY VowelIsJamo, SplitType DEF Strokable
<1>4. AllStrokes(next) = Strokes(Last(string)) \o Split(vowel)
  BY <1>1, <1>2
<1>5. AddToInitial(string, vowel) = Front(string) \o next
  BY AddVowelToInitial
<1> HIDE DEF next
<1>6. AllStrokes(Front(string) \o next) = AllStrokes(string) \o Split(vowel)
  BY <1>1, <1>3, <1>4, LastRewritten
<1>7. QED BY <1>5, <1>6

\* addJamo: in all but the two cases named in NoStrokeLost.
LEMMA AddJamoStrokes ==
    ASSUME NEW string \in Seq(Chars), NEW jamo, KeyJamo(jamo),
           string # <<>> =>
             /\ ~(IsInitial(jamo) /\ IsInitial(Last(string)))
             /\ ~(CompoundFinal(Last(string)) /\ IsVowel(jamo))
    PROVE  AllStrokes(AddJamo(string, jamo)) = AllStrokes(string) \o Split(jamo)
<1>1. jamo \in Strokable /\ IsJamo(jamo) /\ jamo \in Chars
  BY DEF KeyJamo, Keys, Strokable, IsJamo, Chars
<1>2. CASE string = <<>>
  <2>1. AddJamo(string, jamo) = <<jamo>> /\ <<jamo>> = Append(<<>>, jamo)
    BY <1>1, <1>2 DEF AddJamo, KeyJamo
  <2>2. QED BY <1>1, <1>2, <2>1, AppendStrokes
<1>3. CASE string # <<>> /\ IsSyllable(Last(string))
  <2> DEFINE t == AddToSyllable(Last(string), jamo)
  <2>1. Last(string) \in Chars
    BY <1>3, FrontAndLast
  <2>2. Last(string) \in Syllables
    BY <1>3, <2>1, SyllableInRange
  <2>3. t \in Seq(Chars) /\ AllStrokes(t) = Strokes(Last(string)) \o Split(jamo)
    BY <1>3, <2>2, AddToSyllableStrokes
  <2>4. AddJamo(string, jamo) = Front(string) \o t
    BY <1>1, <1>3 DEF AddJamo
  <2>5. Split(jamo) \in Seq(Strokable)
    BY <1>1, SplitType
  <2> HIDE DEF t
  <2>6. QED BY <1>3, <2>3, <2>4, <2>5, LastRewritten
<1>4. CASE string # <<>> /\ ~IsSyllable(Last(string)) /\ IsInitial(Last(string))
  <2>1. IsVowel(jamo)
    BY <1>4 DEF KeyJamo
  <2>2. AddJamo(string, jamo) = AddToInitial(string, jamo)
    BY <1>1, <1>4 DEF AddJamo
  <2>3. QED BY <1>4, <2>1, <2>2, AddToInitialStrokes
<1>5. CASE string # <<>> /\ ~IsSyllable(Last(string)) /\ ~IsInitial(Last(string))
  <2>1. AddJamo(string, jamo) = Append(string, jamo)
    BY <1>5 DEF AddJamo
  <2>2. QED BY <1>1, <2>1, AppendStrokes
<1>6. QED BY <1>2, <1>3, <1>4, <1>5

\* The beginning of a concatenation is shorter, unless the rest is empty.
LEMMA StrictPrefix ==
    ASSUME NEW s \in Seq(Strokable), NEW t \in Seq(Strokable), Len(t) > 0
    PROVE  IsPrefix(s, s \o t) /\ Len(s) < Len(s \o t)
<1>1. Len(s \o t) = Len(s) + Len(t) /\ Len(s) \in Nat /\ Len(t) \in Nat
  BY ConcatProperties, LenProperties
<1>2. IsPrefix(s, s \o t)
  BY PrefixOfConcat
<1>3. QED BY <1>1, <1>2

\* The two sides of BackspaceRemovesEnd, for one text.
Undone(string, new) ==
    /\ IsPrefix(AllStrokes(new), AllStrokes(string))
    /\ \/ Len(AllStrokes(new)) < Len(AllStrokes(string))
       \/ Len(new) = Len(string) + 1 /\ ~IsSyllable(Last(new))

\* A character that is no syllable is removed (line 347).
LEMMA CharacterUndone ==
    ASSUME NEW string \in Seq(Chars), string # <<>>
    PROVE  Undone(string, Front(string))
<1>1. /\ AllStrokes(string) = AllStrokes(Front(string)) \o Strokes(Last(string))
      /\ AllStrokes(Front(string)) \in Seq(Strokable)
      /\ Strokes(Last(string)) \in Seq(Strokable) /\ Len(Strokes(Last(string))) > 0
  BY StrokesToLast, AllStrokesType, StrokesType
<1>2. QED BY <1>1, StrictPrefix DEF Undone

\* The final consonant of a syllable is removed (lines 329-335).
LEMMA FinalUndone ==
    ASSUME NEW string \in Seq(Chars), string # <<>>,
           NEW d, d = DecomposeSyllable(Last(string)), Last(string) \in Syllables,
           d.final # None
    PROVE  Undone(string, Front(string) \o CombineJamo(d.initial, d.vowel, None))
<1> DEFINE open == <<d.initial>> \o Split(d.vowel)
           t == CombineJamo(d.initial, d.vowel, None)
           f == AllStrokes(Front(string))
<1>1. IsInitial(d.initial) /\ IsVowel(d.vowel)
  BY DecomposeThenCombine
<1>2. t \in Seq(Chars) /\ AllStrokes(t) = open
  BY ONLY <1>1, CombinedOpen
<1>3. Strokes(Last(string)) = open \o Split(d.final)
  BY SyllableParts
<1>4. open \in Seq(Strokable) /\ Split(d.final) \in Seq(Strokable) /\ Len(Split(d.final)) > 0
  BY SyllableParts
<1>5. f \in Seq(Strokable)
  BY StrokesToLast, AllStrokesType
<1>6. AllStrokes(Front(string) \o t) = f \o open
  <2>1. Front(string) \in Seq(Chars)
    BY StrokesToLast
  <2> HIDE DEF t, open
  <2>2. AllStrokes(Front(string) \o t) = AllStrokes(Front(string)) \o AllStrokes(t)
    BY ONLY <1>2, <2>1, StrokesConcat
  <2>3. QED BY <1>2, <2>2
<1>7. AllStrokes(string) = f \o (open \o Split(d.final))
  BY <1>3, StrokesToLast
<1> HIDE DEF f, open
<1>8. (f \o open) \o Split(d.final) = f \o (open \o Split(d.final))
  BY ONLY <1>4, <1>5, StrokesAssociate
<1>9. f \o open \in Seq(Strokable)
  BY <1>4, <1>5, ConcatProperties
<1>10. IsPrefix(f \o open, (f \o open) \o Split(d.final))
       /\ Len(f \o open) < Len((f \o open) \o Split(d.final))
  BY <1>4, <1>9, StrictPrefix
<1>11. QED BY <1>6, <1>7, <1>8, <1>10 DEF Undone

LEMMA SecondOfTwo ==
    ASSUME NEW f \in Seq(Chars), NEW t \in Seq(Chars), Len(t) = 2
    PROVE  (f \o t)[Len(f) + 2] = t[2]
<1>1. Len(f) \in Nat
  BY LenProperties
<1>2. /\ Len(f) + 2 \in 1 .. Len(f) + Len(t) /\ ~(Len(f) + 2 <= Len(f))
      /\ (Len(f) + 2) - Len(f) = 2
  BY <1>1
<1>3. \A i \in 1 .. Len(f) + Len(t) :
        (f \o t)[i] = IF i <= Len(f) THEN f[i] ELSE t[i - Len(f)]
  BY ConcatProperties
<1>4. QED BY <1>2, <1>3

\* A syllable without final is taken apart (line 339).
LEMMA SyllableUndone ==
    ASSUME NEW string \in Seq(Chars), string # <<>>,
           NEW d, d = DecomposeSyllable(Last(string)), Last(string) \in Syllables,
           d.final = None
    PROVE  Undone(string, Front(string) \o <<d.initial, d.vowel>>)
<1> DEFINE t == <<d.initial, d.vowel>>
           new == Front(string) \o t
<1>1. IsInitial(d.initial) /\ IsVowel(d.vowel)
  BY DecomposeThenCombine
<1>2. d.initial \in Strokable /\ d.vowel \in Strokable
  BY <1>1, InitialIsJamo, VowelIsJamo DEF Strokable
<1>3. d.initial \in Chars /\ d.vowel \in Chars /\ t \in Seq(Chars)
  BY <1>2 DEF Strokable, Chars
<1>4. AllStrokes(t) = <<d.initial>> \o Split(d.vowel)
  BY <1>1, <1>2, <1>3, StrokesOfTwo, StrokesOfJamo, SplitInitial
<1>5. AllStrokes(t) = Strokes(Last(string))
  BY <1>4, SyllableParts
<1>6. /\ Front(string) \in Seq(Chars)
      /\ AllStrokes(string) = AllStrokes(Front(string)) \o Strokes(Last(string))
  BY StrokesToLast
<1>7. AllStrokes(new) = AllStrokes(string)
  BY <1>3, <1>5, <1>6, StrokesConcat
<1>8. IsPrefix(AllStrokes(new), AllStrokes(string))
  <2>1. AllStrokes(string) \in Seq(Strokable)
    BY AllStrokesType
  <2>2. AllStrokes(string) \o <<>> = AllStrokes(string) /\ <<>> \in Seq(Strokable)
    BY <2>1, ConcatEmptySeq
  <2>3. QED BY <1>7, <2>1, <2>2, PrefixOfConcat
<1>9. Len(new) = Len(string) + 1 /\ Last(new) = d.vowel
  <2>1. Len(t) = 2 /\ t[2] = d.vowel
    OBVIOUS
  <2>2. Len(Front(string)) = Len(string) - 1 /\ Len(string) \in Nat /\ Len(string) > 0
    <3>1. Front(string) \o <<Last(string)>> = string /\ Last(string) \in Chars
      BY FrontAndLast
    <3>2. <<Last(string)>> \in Seq(Chars)
      BY <3>1
    <3>3. Len(<<Last(string)>>) = 1
      OBVIOUS
    <3>4. QED BY <1>6, <3>1, <3>2, <3>3, ConcatProperties, LenProperties
  <2>3. Len(new) = Len(Front(string)) + 2
    BY <1>3, <1>6, <2>1, ConcatProperties
  <2> HIDE DEF t
  <2>4. new[Len(Front(string)) + 2] = t[2]
    <3>1. t \in Seq(Chars)
      BY <1>3
    <3>2. QED BY <1>6, <2>1, <3>1, SecondOfTwo
  <2> HIDE DEF new
  <2>5. QED BY <2>1, <2>2, <2>3, <2>4 DEF Last
<1>10. ~IsSyllable(d.vowel)
  BY <1>2, JamoIsNoSyllable
<1> HIDE DEF new
<1>11. Undone(string, new)
  BY <1>8, <1>9, <1>10 DEF Undone
<1>12. QED BY <1>11 DEF new

LEMMA HandleBackspaceUndoes ==
    ASSUME NEW string \in Seq(Chars), string # <<>>
    PROVE  Undone(string, HandleBackspace(string))
<1> DEFINE d == DecomposeSyllable(Last(string))
<1>1. CASE ~IsSyllable(Last(string))
  <2>1. HandleBackspace(string) = Front(string)
    BY <1>1 DEF HandleBackspace
  <2>2. QED BY <2>1, CharacterUndone
<1>2. CASE IsSyllable(Last(string))
  <2>1. Last(string) \in Chars
    BY FrontAndLast
  <2>2. Last(string) \in Syllables
    BY <1>2, <2>1, SyllableInRange
  <2>3. CASE d.final # None
    <3>1. HandleBackspace(string) = Front(string) \o CombineJamo(d.initial, d.vowel, None)
      BY <1>2, <2>3 DEF HandleBackspace
    <3>2. QED BY <2>2, <2>3, <3>1, FinalUndone
  <2>4. CASE d.final = None
    <3>1. HandleBackspace(string) = Front(string) \o <<d.initial, d.vowel>>
      BY <1>2, <2>4 DEF HandleBackspace
    <3>2. QED BY <2>2, <2>4, <3>1, SyllableUndone
  <2>5. QED BY <2>3, <2>4
<1>3. QED BY <1>1, <1>2

\* Every key adds an initial consonant or a vowel.
LEMMA KeysCompose == \A key \in currentLayout : KeyJamo(key)
<1>1. \A key \in currentLayout :
        \/ \E n \in 1..19 : INITIALS[n] = key
        \/ \E n \in 1..21 : VOWELS[n] = key
  BY SMTT(60) DEF currentLayout, BASE_KEYBOARD_LAYOUT, SHIFT_KEYBOARD_LAYOUT, INITIALS, VOWELS, Jamo
<1>2. QED BY <1>1, KeysAreJamo, InitialsTable, VowelsTable, SMTT(30)
          DEF KeyJamo, IsInitial, IsVowel, Includes

\* Composing loses, doubles and reorders nothing: a press of any key, on any text
\* that can be typed, adds the strokes of the key and nothing else, but for the two
\* cases where addJamo drops what was typed (the replaced initial of line 282, and
\* the compound final before a vowel of line 179).
THEOREM NoStrokeIsLost == Spec => NoStrokeLost
<1>1. ASSUME TextTypeOK, NEW key \in Pressed, PressKey(key), ~Replaces(key),
             ~(text # <<>> /\ CompoundFinal(Last(text)) /\ IsVowel(key))
      PROVE  AllStrokes(text') = AllStrokes(text) \o Split(key)
  <2>1. text \in Seq(Chars)
    BY <1>1 DEF TextTypeOK, Chars
  <2>2. KeyJamo(key) /\ text' = AddJamo(text, key)
    BY <1>1, KeysCompose DEF PressKey
  <2>3. text # <<>> => /\ ~(IsInitial(key) /\ IsInitial(Last(text)))
                       /\ ~(CompoundFinal(Last(text)) /\ IsVowel(key))
    BY <1>1 DEF Replaces
  <2>4. AllStrokes(AddJamo(text, key)) = AllStrokes(text) \o Split(key)
    BY <2>1, <2>2, <2>3, AddJamoStrokes
  <2>5. QED BY <2>2, <2>4
<1> DEFINE Kept == \A key \in Pressed :
        PressKey(key) /\ ~Replaces(key)
        /\ ~(text # <<>> /\ CompoundFinal(Last(text)) /\ IsVowel(key)) =>
            AllStrokes(text') = AllStrokes(text) \o Split(key)
<1>2. TextTypeOK /\ [Next]_vars => [Kept]_vars
  BY <1>1
<1>3. QED BY <1>2, KeyboardTypeCorrect, PTL DEF Spec, NoStrokeLost

\* Backspace takes strokes off the end of what was typed, or takes a syllable apart
\* and leaves them as they were, whatever the text.
THEOREM BackspaceUndoes == Spec => BackspaceRemovesEnd
<1> DEFINE Undoes == PressBackspace /\ text # <<>> =>
        /\ IsPrefix(AllStrokes(text'), AllStrokes(text))
        /\ \/ Len(AllStrokes(text')) < Len(AllStrokes(text))
           \/ Len(text') = Len(text) + 1 /\ ~IsSyllable(Last(text'))
<1>1. TextTypeOK /\ [Next]_vars => [Undoes]_vars
  <2>1. SUFFICES ASSUME TextTypeOK, PressBackspace, text # <<>>
                 PROVE  Undone(text, text')
    BY DEF Undone
  <2>2. text \in Seq(Chars) /\ text' = HandleBackspace(text)
    BY <2>1 DEF TextTypeOK, Chars, PressBackspace
  <2>3. QED BY <2>1, <2>2, HandleBackspaceUndoes
<1>2. QED BY <1>1, KeyboardTypeCorrect, PTL DEF Spec, BackspaceRemovesEnd
=============================================================================
