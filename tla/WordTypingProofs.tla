-------------------------- MODULE WordTypingProofs --------------------------
(***************************************************************************)
(* Theorems about WordTyping: what comes of a word of any length, typed    *)
(* without a mistake and in either of the two standard ways.               *)
(***************************************************************************)
EXTENDS WordTyping, KeyboardProofs

----------------------------------------------------------------------------
(* Pressing the keys of a plan, one after the other.                       *)

\* The texts between: f[i] is what i keys have made of string.
Passes(f, string, keys) ==
    /\ f[0] = string
    /\ \A i \in 1..Len(keys) : f[i] = AddJamo(f[i - 1], keys[i])

\* The keys make result of string.
Makes(string, keys, result) ==
    \E f : Passes(f, string, keys) /\ f[Len(keys)] = result

LEMMA MakesNothing ==
    ASSUME NEW string, NEW result
    PROVE  Makes(string, <<>>, result) <=> result = string
<1>1. ASSUME Makes(string, <<>>, result) PROVE result = string
  BY <1>1 DEF Makes, Passes
<1>2. ASSUME result = string PROVE Makes(string, <<>>, result)
  <2> DEFINE f == [i \in {0} |-> string]
  <2>1. Passes(f, string, <<>>) /\ f[Len(<<>>)] = result
    BY <1>2 DEF Passes
  <2>2. QED BY <2>1 DEF Makes
<1>3. QED BY <1>1, <1>2

LEMMA ConsProperties ==
    ASSUME NEW C, NEW key \in C, NEW keys \in Seq(C)
    PROVE  /\ <<key>> \o keys \in Seq(C) /\ <<key>> \o keys # <<>>
           /\ Len(<<key>> \o keys) = Len(keys) + 1 /\ Len(keys) \in Nat
           /\ (<<key>> \o keys)[1] = key
           /\ \A i \in 1..Len(keys) : (<<key>> \o keys)[i + 1] = keys[i]
<1> DEFINE all == <<key>> \o keys
<1>1. <<key>> \in Seq(C) /\ Len(<<key>>) = 1 /\ <<key>>[1] = key
  OBVIOUS
<1>2. Len(keys) \in Nat
  BY LenProperties
<1>3. /\ all \in Seq(C) /\ Len(all) = 1 + Len(keys)
      /\ \A i \in 1 .. 1 + Len(keys) : all[i] = IF i <= 1 THEN <<key>>[i] ELSE keys[i - 1]
  BY <1>1, ConcatProperties
<1> HIDE DEF all
<1>4. all[1] = key
  BY <1>1, <1>2, <1>3
<1>5. ASSUME NEW i \in 1..Len(keys) PROVE all[i + 1] = keys[i]
  <2>1. i + 1 \in 1 .. 1 + Len(keys) /\ ~(i + 1 <= 1) /\ (i + 1) - 1 = i
    BY <1>2
  <2>2. QED BY <1>3, <2>1
<1>6. all # <<>>
  BY <1>2, <1>3
<1>7. QED BY <1>2, <1>3, <1>4, <1>5, <1>6 DEF all

\* The first key, then the others.
LEMMA MakesFirst ==
    ASSUME NEW C, NEW string, NEW key \in C, NEW keys \in Seq(C), NEW result
    PROVE  Makes(string, <<key>> \o keys, result) <=>
               Makes(AddJamo(string, key), keys, result)
<1> DEFINE all == <<key>> \o keys
           n == Len(keys)
<1>1. /\ n \in Nat /\ Len(all) = n + 1 /\ all[1] = key
      /\ \A i \in 1..n : all[i + 1] = keys[i]
  BY ConsProperties
<1> HIDE DEF all, n
<1>2. ASSUME Makes(string, all, result)
      PROVE  Makes(AddJamo(string, key), keys, result)
  <2>1. PICK f : Passes(f, string, all) /\ f[Len(all)] = result
    BY <1>2 DEF Makes
  <2> DEFINE g == [i \in 0..n |-> f[i + 1]]
  <2>2. f[0] = string /\ \A i \in 1..(n + 1) : f[i] = AddJamo(f[i - 1], all[i])
    BY <1>1, <2>1 DEF Passes
  <2>3. f[1] = AddJamo(string, key)
    <3>1. 1 \in 1..(n + 1) /\ 1 - 1 = 0
      BY <1>1
    <3>2. QED BY <1>1, <2>2, <3>1
  <2>4. g[0] = AddJamo(string, key)
    BY <1>1, <2>3
  <2>5. ASSUME NEW i \in 1..n PROVE g[i] = AddJamo(g[i - 1], keys[i])
    <3>1. i + 1 \in 1..(n + 1) /\ (i + 1) - 1 = i /\ (i - 1) + 1 = i /\ i \in 0..n /\ i - 1 \in 0..n
      BY <1>1
    <3>2. f[i + 1] = AddJamo(f[i], keys[i])
      BY <1>1, <2>2, <3>1
    <3>3. g[i] = f[i + 1] /\ g[i - 1] = f[i]
      BY <3>1
    <3> HIDE DEF g
    <3>4. QED BY <3>2, <3>3
  <2>6. g[n] = result
    BY <1>1, <2>1
  <2> HIDE DEF g
  <2>7. QED BY <2>4, <2>5, <2>6 DEF Makes, Passes, n
<1>3. ASSUME Makes(AddJamo(string, key), keys, result)
      PROVE  Makes(string, all, result)
  <2>1. PICK g : Passes(g, AddJamo(string, key), keys) /\ g[n] = result
    BY <1>3 DEF Makes, n
  <2> DEFINE f == [i \in 0..(n + 1) |-> IF i = 0 THEN string ELSE g[i - 1]]
  <2>2. g[0] = AddJamo(string, key) /\ \A i \in 1..n : g[i] = AddJamo(g[i - 1], keys[i])
    BY <2>1 DEF Passes, n
  <2>3. f[0] = string
    BY <1>1
  <2>4. ASSUME NEW i \in 1..(n + 1) PROVE f[i] = AddJamo(f[i - 1], all[i])
    <3>1. i \in 0..(n + 1) /\ i - 1 \in 0..(n + 1) /\ i # 0
      BY <1>1
    <3>2. CASE i = 1
      <4>1. f[1] = g[0] /\ f[0] = string
        <5>1. 1 \in 0..(n + 1) /\ 1 # 0 /\ 1 - 1 = 0 /\ 0 \in 0..(n + 1)
          BY <1>1
        <5>2. QED BY <5>1
      <4> HIDE DEF f
      <4>2. QED BY <1>1, <2>2, <3>2, <4>1
    <3>3. CASE i # 1
      <4> DEFINE k == i - 1
      <4>1. k \in 1..n /\ k + 1 = i /\ i - 1 # 0
        BY <1>1, <3>3
      <4>2. g[k] = AddJamo(g[k - 1], keys[k]) /\ all[i] = keys[k]
        BY <1>1, <2>2, <4>1
      <4>3. f[i] = g[k] /\ f[i - 1] = g[k - 1]
        BY <3>1, <4>1
      <4> HIDE DEF f, k
      <4>4. QED BY <4>2, <4>3
    <3>4. QED BY <3>2, <3>3
  <2>5. f[n + 1] = result
    BY <1>1, <2>1
  <2> HIDE DEF f
  <2>6. QED BY <1>1, <2>3, <2>4, <2>5 DEF Makes, Passes
<1>4. QED BY <1>2, <1>3 DEF all

LEMMA HeadAndTail ==
    ASSUME NEW C, NEW s \in Seq(C), s # <<>>
    PROVE  /\ Head(s) \in C /\ Tail(s) \in Seq(C) /\ s = <<Head(s)>> \o Tail(s)
           /\ Len(Tail(s)) = Len(s) - 1 /\ Len(Tail(s)) \in Nat
<1>1. Head(s) \in C /\ Tail(s) \in Seq(C) /\ Len(Tail(s)) = Len(s) - 1
  BY HeadTailProperties
<1>2. Len(s) \in Nat /\ Len(Tail(s)) \in Nat
  BY <1>1, LenProperties
<1> DEFINE t == <<Head(s)>> \o Tail(s)
<1>3. /\ t \in Seq(C) /\ Len(t) = Len(s) /\ t[1] = Head(s)
      /\ \A i \in 1..Len(Tail(s)) : t[i + 1] = Tail(s)[i]
  BY <1>1, <1>2, ConsProperties
<1> HIDE DEF t
<1>4. ASSUME NEW i \in 1..Len(s) PROVE t[i] = s[i]
  <2>1. CASE i = 1
    BY <1>3, <2>1, HeadTailProperties
  <2>2. CASE i # 1
    <3>1. i - 1 \in 1..Len(Tail(s)) /\ (i - 1) + 1 = i
      BY <1>1, <1>2, <2>2
    <3>2. t[i] = Tail(s)[i - 1]
      BY <1>3, <3>1
    <3>3. Tail(s)[i - 1] = s[i]
      BY <3>1, HeadTailProperties
    <3>4. QED BY <3>2, <3>3
  <2>3. QED BY <2>1, <2>2
<1>5. t = s
  BY <1>3, <1>4, SeqEqual
<1>6. QED BY <1>1, <1>2, <1>5 DEF t

----------------------------------------------------------------------------
(* The keys of a word.                                                     *)

\* The two standard ways: compound vowels by their own key, or by two.
KeyOf(own, char) == IF own THEN OneKey(char) ELSE Strokes(char)
AllKeys(own, word) == FlattenSeq([n \in DOMAIN word |-> KeyOf(own, word[n])])

LEMMA PlanIsAllKeys ==
    ASSUME NEW word, NEW keys \in Plans(word)
    PROVE  \E own \in BOOLEAN : keys = AllKeys(own, word)
<1>1. AllKeys(TRUE, word) = FlattenSeq([n \in DOMAIN word |-> OneKey(word[n])])
  BY DEF AllKeys, KeyOf
<1>2. AllKeys(FALSE, word) = AllStrokes(word)
  BY DEF AllKeys, KeyOf, AllStrokes
<1>3. QED BY <1>1, <1>2 DEF Plans

\* What can be a key of a plan.
Playable == {key \in Strokable : KeyJamo(key)}

LEMMA VowelComponents == \A q \in VowelPairs : IsVowel(q[1]) /\ IsVowel(q[2])
<1>1. \A q \in VowelPairs : \E n, m \in 1..21 : VOWELS[n] = q[1] /\ VOWELS[m] = q[2]
  <2>1. /\ Jamo.o = VOWELS[9] /\ Jamo.a = VOWELS[1] /\ Jamo.ae = VOWELS[2]
        /\ Jamo.i = VOWELS[21] /\ Jamo.u = VOWELS[14] /\ Jamo.eo = VOWELS[5]
        /\ Jamo.e = VOWELS[6] /\ Jamo.eu = VOWELS[19]
    BY DEF VOWELS
  <2>2. \A q \in VowelPairs :
            /\ q[1] \in {Jamo.o, Jamo.u, Jamo.eu}
            /\ q[2] \in {Jamo.a, Jamo.ae, Jamo.i, Jamo.eo, Jamo.e}
    BY SMTT(60) DEF VowelPairs
  <2>3. QED BY <2>1, <2>2
<1>2. QED BY <1>1, VowelsTable DEF IsVowel, Includes

LEMMA FinalComponents ==
    \A q \in FinalPairs : /\ IsInitial(q[1]) /\ IsInitial(q[2])
                          /\ IsFinal(q[1]) /\ IsFinal(q[2])
<1>1. \A q \in FinalPairs : \E n, m \in 1..19 : INITIALS[n] = q[1] /\ INITIALS[m] = q[2]
  <2>1. /\ Jamo.g = INITIALS[1] /\ Jamo.n = INITIALS[3] /\ Jamo.r = INITIALS[6]
        /\ Jamo.b = INITIALS[8] /\ Jamo.s = INITIALS[10] /\ Jamo.j = INITIALS[13]
        /\ Jamo.h = INITIALS[19] /\ Jamo.m = INITIALS[7] /\ Jamo.t = INITIALS[17]
        /\ Jamo.p = INITIALS[18]
    BY DEF INITIALS
  <2>2. \A q \in FinalPairs :
            /\ q[1] \in {Jamo.g, Jamo.n, Jamo.r, Jamo.b}
            /\ q[2] \in {Jamo.s, Jamo.j, Jamo.h, Jamo.g, Jamo.m, Jamo.b, Jamo.t, Jamo.p}
    BY DEF FinalPairs
  <2>3. QED BY <2>1, <2>2
<1>2. \A q \in FinalPairs : \E n, m \in 2..28 : FINALS[n] = q[1] /\ FINALS[m] = q[2]
  <2>1. /\ Jamo.g = FINALS[2] /\ Jamo.n = FINALS[5] /\ Jamo.r = FINALS[9]
        /\ Jamo.b = FINALS[18] /\ Jamo.s = FINALS[20] /\ Jamo.j = FINALS[23]
        /\ Jamo.h = FINALS[28] /\ Jamo.m = FINALS[17] /\ Jamo.t = FINALS[26]
        /\ Jamo.p = FINALS[27]
    BY DEF FINALS
  <2>2. \A q \in FinalPairs :
            /\ q[1] \in {Jamo.g, Jamo.n, Jamo.r, Jamo.b}
            /\ q[2] \in {Jamo.s, Jamo.j, Jamo.h, Jamo.g, Jamo.m, Jamo.b, Jamo.t, Jamo.p}
    BY DEF FinalPairs
  <2>3. QED BY <2>1, <2>2
<1>3. \A n \in 2..28 : IsFinal(FINALS[n])
  BY FinalsTable, NoFinalFirst DEF IsFinal, Includes
<1>4. QED BY <1>1, <1>2, <1>3, InitialsTable DEF IsInitial, Includes

LEMMA FinalNoCompoundVowel ==
    ASSUME NEW char, Includes(FINALS, char)
    PROVE  \A q \in VowelPairs : q[3] # char
<1>1. \A q \in VowelPairs, n \in 1..28 : FINALS[n] # q[3]
  BY SMTT(60) DEF VowelPairs, FINALS, Jamo, None
<1>2. QED BY <1>1, FinalsTable DEF Includes

LEMMA VowelNoCompoundFinal ==
    ASSUME NEW char, IsVowel(char)
    PROVE  \A q \in FinalPairs : q[3] # char
<1>1. \A q \in FinalPairs, n \in 1..21 : VOWELS[n] # q[3]
  BY SMTT(60) DEF FinalPairs, VOWELS, Jamo
<1>2. QED BY <1>1, VowelsTable DEF IsVowel, Includes

LEMMA InitialNoVowel == ASSUME NEW char, IsInitial(char) PROVE ~IsVowel(char)
<1>1. \A n \in 1..19, m \in 1..21 : INITIALS[n] # VOWELS[m]
  BY SMTT(60) DEF INITIALS, VOWELS, Jamo
<1>2. QED BY <1>1, InitialsTable, VowelsTable DEF IsInitial, IsVowel, Includes

LEMMA FinalNoVowel == ASSUME NEW char, IsFinal(char) PROVE ~IsVowel(char)
<1>1. \A n \in 1..28, m \in 1..21 : FINALS[n] # VOWELS[m]
  BY SMTT(60) DEF FINALS, VOWELS, Jamo, None
<1>2. QED BY <1>1, FinalsTable, VowelsTable DEF IsFinal, IsVowel, Includes

LEMMA OeIsCompound == \E q \in Pairs : q[3] = Jamo.oe
<1>1. <<Jamo.o, Jamo.i, Jamo.oe>> \in Pairs
  BY DEF Pairs, VowelPairs
<1>2. <<Jamo.o, Jamo.i, Jamo.oe>>[3] = Jamo.oe
  OBVIOUS
<1>3. QED BY <1>1, <1>2

LEMMA OeHasNoKey == Jamo.oe \notin BASE_KEYBOARD_LAYOUT \cup SHIFT_KEYBOARD_LAYOUT
BY DEF BASE_KEYBOARD_LAYOUT, SHIFT_KEYBOARD_LAYOUT, Jamo

LEMMA InitialPlayable == ASSUME NEW char, IsInitial(char) PROVE char \in Playable
BY InitialIsJamo, OeIsNoInitial DEF Playable, Strokable, KeyJamo, Keys

LEMMA VowelPlayable ==
    ASSUME NEW char, IsVowel(char), char # Jamo.oe
    PROVE  char \in Playable
BY VowelIsJamo DEF Playable, Strokable, KeyJamo, Keys

\* A vowel is one key, or the two of its compound.
LEMMA VowelKeys ==
    ASSUME NEW vowel, IsVowel(vowel), NEW keys,
           \/ keys = Split(vowel)
           \/ keys = <<vowel>> /\ vowel \in BASE_KEYBOARD_LAYOUT \cup SHIFT_KEYBOARD_LAYOUT
    PROVE  \/ keys = <<vowel>> /\ vowel \in Playable
           \/ \E q \in VowelPairs : /\ q[3] = vowel /\ keys = <<q[1], q[2]>>
                                    /\ q[1] \in Playable /\ q[2] \in Playable
<1>1. CASE keys = <<vowel>> /\ vowel # Jamo.oe
  BY <1>1, VowelPlayable
<1>2. CASE keys = Split(vowel) /\ \E q \in Pairs : q[3] = vowel
  <2>1. PICK q \in Pairs : q[3] = vowel
    BY <1>2
  <2>2. q \in VowelPairs
    BY <2>1, VowelNoCompoundFinal DEF Pairs
  <2>3. keys = <<q[1], q[2]>>
    BY <1>2, <2>1, SplitCompound
  <2>4. q[1] # Jamo.oe /\ q[2] # Jamo.oe
    BY OeIsCompound, ComponentsSimple
  <2>5. q[1] \in Playable /\ q[2] \in Playable
    BY <2>2, <2>4, VowelComponents, VowelPlayable
  <2>6. QED BY <2>1, <2>2, <2>3, <2>5
<1>3. CASE keys = Split(vowel) /\ \A q \in Pairs : q[3] # vowel
  <2>1. keys = <<vowel>> /\ vowel # Jamo.oe
    BY <1>3, SplitSimple, OeIsCompound
  <2>2. QED BY <2>1, VowelPlayable
<1>4. QED BY <1>1, <1>2, <1>3, OeHasNoKey

\* So is a final consonant.
LEMMA FinalKeys ==
    ASSUME NEW final, Includes(FINALS, final), final # None
    PROVE  \/ Split(final) = <<final>> /\ IsInitial(final) /\ IsFinal(final)
           \/ \E q \in FinalPairs : q[3] = final /\ Split(final) = <<q[1], q[2]>>
<1>1. CASE \E q \in Pairs : q[3] = final
  <2>1. PICK q \in Pairs : q[3] = final
    BY <1>1
  <2>2. q \in FinalPairs
    BY <2>1, FinalNoCompoundVowel DEF Pairs
  <2>3. QED BY <2>1, <2>2, SplitCompound
<1>2. CASE \A q \in Pairs : q[3] # final
  BY <1>2, FinalInitialOrCompound, SplitSimple DEF IsFinal
<1>3. QED BY <1>1, <1>2

----------------------------------------------------------------------------
(* Typing one syllable.                                                    *)

LEMMA SyllablesAreChars ==
    ASSUME NEW done \in Seq(Syllables)
    PROVE  done \in Seq(Chars)
BY DEF Chars

\* A text that ends in a syllable.
LEMMA AddAfterSyllable ==
    ASSUME NEW done \in Seq(Chars), NEW syllable \in Syllables, NEW jamo, IsJamo(jamo)
    PROVE  AddJamo(done \o <<syllable>>, jamo) = done \o AddToSyllable(syllable, jamo)
<1> DEFINE s == done \o <<syllable>>
<1>1. syllable \in Chars /\ <<syllable>> \in Seq(Chars)
  BY DEF Chars
<1>2. s # <<>> /\ Front(s) = done /\ Last(s) = syllable
  <2>1. s = Append(done, syllable)
    BY <1>1, AppendIsConcat
  <2>2. s # <<>> /\ Front(Append(done, syllable)) = done /\ Last(Append(done, syllable)) = syllable
    BY <1>1, <2>1, FrontLastOfAppend
  <2>3. QED BY <2>1, <2>2
<1> HIDE DEF s
<1>3. AddJamo(s, jamo) = Front(s) \o AddToSyllable(Last(s), jamo)
  BY <1>2, SyllableIsSyllable DEF AddJamo
<1>4. QED BY <1>2, <1>3 DEF s

\* The consonant that begins a syllable stands alone, or is the final consonant of
\* the syllable before for as long as no vowel follows.
AfterInitial(done, initial, string) ==
    \/ string = done \o <<initial>>
    \/ \E before \in Seq(Syllables), last \in Syllables :
          LET d == DecomposeSyllable(last)
          IN  /\ done = before \o <<last>>
              /\ d.final = None
              /\ IsFinal(initial)
              /\ string = before \o CombineJamo(d.initial, d.vowel, initial)

LEMMA NoVowelPair ==
    ASSUME NEW vowel, NEW jamo, ~IsVowel(jamo)
    PROVE  CombineVowels(vowel, jamo) = None
BY PairFound, VowelComponents DEF CombineVowels

LEMMA InitialTyped ==
    ASSUME NEW done \in Seq(Syllables), NEW initial, IsInitial(initial),
           done # <<>> =>
               GetCompoundFinal(DecomposeSyllable(Last(done)).final, initial) = None
    PROVE  AfterInitial(done, initial, AddJamo(done, initial))
<1>1. IsJamo(initial) /\ ~IsVowel(initial)
  BY InitialNoVowel DEF IsJamo
<1>2. CASE done = <<>>
  <2>1. AddJamo(done, initial) = <<initial>>
    BY <1>1, <1>2 DEF AddJamo
  <2>2. initial \in Chars
    BY InitialIsJamo DEF Chars
  <2>3. <<initial>> \in Seq(Chars)
    BY <2>2
  <2>4. <<>> \o <<initial>> = <<initial>>
    BY <2>3, ConcatEmptySeq
  <2>5. QED BY <1>2, <2>1, <2>4 DEF AfterInitial
<1>3. CASE done # <<>>
  <2> DEFINE before == Front(done)
             last == Last(done)
             d == DecomposeSyllable(last)
  <2>1. before \in Seq(Syllables) /\ last \in Syllables /\ done = before \o <<last>>
    BY <1>3, FrontAndLast
  <2>2. GetCompoundFinal(d.final, initial) = None
    BY <1>3
  <2>3. CombineVowels(d.vowel, initial) = None
    BY <1>1, NoVowelPair
  <2>4. before \in Seq(Chars)
    BY <2>1, SyllablesAreChars
  <2> HIDE DEF before, last
  <2>5. AddJamo(done, initial) = before \o AddToSyllable(last, initial)
    BY <1>1, <2>1, <2>4, AddAfterSyllable
  <2>6. CASE d.final = None /\ IsFinal(initial)
    <3>1. AddToSyllable(last, initial) = CombineJamo(d.initial, d.vowel, initial)
      BY <2>3, <2>6 DEF AddToSyllable
    <3>2. QED BY <2>1, <2>5, <2>6, <3>1 DEF AfterInitial
  <2>7. CASE d.final # None \/ ~IsFinal(initial)
    <3>1. AddToSyllable(last, initial) = <<last, initial>>
      BY <1>1, <2>2, <2>3, <2>7 DEF AddToSyllable
    <3>2. last \in Chars /\ initial \in Chars
      BY <2>1, InitialIsJamo DEF Chars
    <3>3. <<last>> \in Seq(Chars) /\ <<initial>> \in Seq(Chars)
      BY <3>2
    <3>4. <<last, initial>> = <<last>> \o <<initial>>
      BY <3>2, TwoElements
    <3>5. (before \o <<last>>) \o <<initial>> = before \o (<<last>> \o <<initial>>)
      BY <2>4, <3>3, TextsAssociate
    <3>6. AddJamo(done, initial) = done \o <<initial>>
      BY <2>1, <2>5, <3>1, <3>4, <3>5
    <3>7. QED BY <3>6 DEF AfterInitial
  <2>8. QED BY <2>6, <2>7
<1>4. QED BY <1>2, <1>3

\* The vowel makes a syllable of it (lines 173-181 and 256-278).
LEMMA VowelTyped ==
    ASSUME NEW done \in Seq(Syllables), NEW initial, IsInitial(initial),
           NEW vowel, IsVowel(vowel), NEW string, AfterInitial(done, initial, string)
    PROVE  AddJamo(string, vowel) = done \o CombineJamo(initial, vowel, None)
<1>1. IsJamo(vowel) /\ done \in Seq(Chars)
  BY SyllablesAreChars DEF IsJamo
<1>2. CASE string = done \o <<initial>>
  <2>1. initial \in Strokable /\ initial \in Chars
    BY InitialIsJamo DEF Strokable, Chars
  <2>2. <<initial>> \in Seq(Chars)
    BY <2>1
  <2>3. string = Append(done, initial) /\ string \in Seq(Chars)
    BY <1>1, <1>2, <2>1, <2>2, AppendIsConcat, ConcatProperties
  <2>4. string # <<>> /\ Front(string) = done /\ Last(string) = initial
    BY <1>1, <2>1, <2>3, FrontLastOfAppend
  <2>5. ~IsSyllable(initial)
    BY <2>1, JamoIsNoSyllable
  <2>6. AddJamo(string, vowel) = AddToInitial(string, vowel)
    BY <1>1, <2>4, <2>5 DEF AddJamo
  <2>7. AddToInitial(string, vowel) = Front(string) \o CombineJamo(Last(string), vowel, None)
    BY <2>3, <2>4, AddVowelToInitial
  <2>8. QED BY <2>4, <2>6, <2>7
<1>3. ASSUME NEW before \in Seq(Syllables), NEW last \in Syllables, NEW d,
             d = DecomposeSyllable(last), done = before \o <<last>>, d.final = None,
             IsFinal(initial), string = before \o CombineJamo(d.initial, d.vowel, initial)
      PROVE  AddJamo(string, vowel) = done \o CombineJamo(initial, vowel, None)
  <2>1. /\ IsInitial(d.initial) /\ IsVowel(d.vowel)
        /\ CombineJamo(d.initial, d.vowel, None) = <<last>>
    BY <1>3, DecomposeThenCombine
  <2>2. Includes(FINALS, initial) /\ initial # None
    BY <1>3 DEF IsFinal
  <2>3. PICK joined \in Syllables :
          /\ CombineJamo(d.initial, d.vowel, initial) = <<joined>>
          /\ DecomposeSyllable(joined) =
                [initial |-> d.initial, vowel |-> d.vowel, final |-> initial]
    BY <2>1, <2>2, CombineThenDecompose
  <2>4. before \in Seq(Chars)
    BY SyllablesAreChars
  <2>5. AddJamo(string, vowel) = before \o AddToSyllable(joined, vowel)
    <3>1. string = before \o <<joined>>
      BY <1>3, <2>3
    <3>2. AddJamo(before \o <<joined>>, vowel) = before \o AddToSyllable(joined, vowel)
      BY ONLY <1>1, <2>3, <2>4, AddAfterSyllable
    <3>3. QED BY <3>1, <3>2
  <2>6. AddToSyllable(joined, vowel)
          = CombineJamo(d.initial, d.vowel, None) \o CombineJamo(initial, vowel, None)
    BY <2>2, <2>3 DEF AddToSyllable
  <2>7. <<last>> \in Seq(Chars) /\ CombineJamo(initial, vowel, None) \in Seq(Chars)
    <3>1. last \in Chars
      BY DEF Chars
    <3>2. <<last>> \in Seq(Chars)
      BY <3>1
    <3>3. CombineJamo(initial, vowel, None) \in Seq(Chars)
      BY CombinedOpen
    <3>4. QED BY <3>2, <3>3
  <2>8. (before \o <<last>>) \o CombineJamo(initial, vowel, None)
          = before \o (<<last>> \o CombineJamo(initial, vowel, None))
    BY <2>4, <2>7, TextsAssociate
  <2>9. QED BY <1>3, <2>1, <2>5, <2>6, <2>8
<1>4. QED BY <1>2, <1>3 DEF AfterInitial

\* The second vowel of a compound one (lines 219-230).
LEMMA SecondVowelTyped ==
    ASSUME NEW syllable \in Syllables, NEW initial, NEW q \in VowelPairs,
           DecomposeSyllable(syllable) =
               [initial |-> initial, vowel |-> q[1], final |-> None]
    PROVE  AddToSyllable(syllable, q[2]) = CombineJamo(initial, q[3], None)
<1>1. CombineVowels(q[1], q[2]) = q[3] /\ q[3] # None
  <2>1. \A r \in VowelPairs : r[1] = q[1] /\ r[2] = q[2] => r = q
    BY SMTT(60) DEF VowelPairs, Jamo
  <2>2. q[3] # None
    BY CompoundIsVowel, VowelIsJamo DEF JamoChars, Jamo, None
  <2>3. QED BY <2>1, <2>2 DEF CombineVowels, PairOf
<1> DEFINE d == DecomposeSyllable(syllable)
<1>2. d.initial = initial /\ d.vowel = q[1] /\ d.final = None
  OBVIOUS
<1>3. QED BY <1>1, <1>2 DEF AddToSyllable

\* The final consonant, or the first of a compound one (lines 236-243).
LEMMA FinalTyped ==
    ASSUME NEW syllable \in Syllables, NEW initial, NEW vowel, NEW final, IsFinal(final),
           DecomposeSyllable(syllable) =
               [initial |-> initial, vowel |-> vowel, final |-> None]
    PROVE  AddToSyllable(syllable, final) = CombineJamo(initial, vowel, final)
<1>1. CombineVowels(vowel, final) = None /\ ~IsVowel(final)
  BY FinalNoVowel, NoVowelPair
<1> DEFINE d == DecomposeSyllable(syllable)
<1>2. d.initial = initial /\ d.vowel = vowel /\ d.final = None
  OBVIOUS
<1>3. QED BY <1>1, <1>2 DEF AddToSyllable

\* The second consonant of a compound final (lines 185-198).
LEMMA SecondFinalTyped ==
    ASSUME NEW syllable \in Syllables, NEW initial, NEW vowel, NEW q \in FinalPairs,
           DecomposeSyllable(syllable) =
               [initial |-> initial, vowel |-> vowel, final |-> q[1]]
    PROVE  AddToSyllable(syllable, q[2]) = CombineJamo(initial, vowel, q[3])
<1>1. GetCompoundFinal(q[1], q[2]) = q[3] /\ q[3] # None
  <2>1. \A r \in FinalPairs : r[1] = q[1] /\ r[2] = q[2] => r = q
    BY SMTT(60) DEF FinalPairs, Jamo
  <2>2. q[3] # None
    BY DEF FinalPairs, Jamo, None
  <2>3. QED BY <2>1, <2>2 DEF GetCompoundFinal, PairOf
<1>2. q[1] # None /\ ~IsVowel(q[2])
  BY FinalComponents, FinalNoVowel DEF IsFinal
<1> DEFINE d == DecomposeSyllable(syllable)
<1>3. d.initial = initial /\ d.vowel = vowel /\ d.final = q[1]
  OBVIOUS
<1>4. QED BY <1>1, <1>2, <1>3 DEF AddToSyllable

\* The keys of a syllable, in three parts.
VowelPart(own, vowel) ==
    IF own /\ vowel \in BASE_KEYBOARD_LAYOUT \cup SHIFT_KEYBOARD_LAYOUT
    THEN <<vowel>> ELSE Split(vowel)
FinalPart(final) == IF final = None THEN <<>> ELSE Split(final)

LEMMA KeyShape ==
    ASSUME NEW own \in BOOLEAN, NEW char \in Syllables, NEW d, d = DecomposeSyllable(char)
    PROVE  KeyOf(own, char) = (<<d.initial>> \o VowelPart(own, d.vowel)) \o FinalPart(d.final)
<1>1. CASE own
  BY <1>1 DEF KeyOf, OneKey, VowelPart, FinalPart
<1>2. CASE ~own
  BY <1>2, SyllableIsSyllable DEF KeyOf, Strokes, VowelPart, FinalPart
<1>3. QED BY <1>1, <1>2

LEMMA OneOrTwo ==
    ASSUME NEW C, NEW a \in C, NEW b \in C
    PROVE  <<a>> \in Seq(C) /\ <<a, b>> \in Seq(C)
OBVIOUS

LEMMA VowelPartType ==
    ASSUME NEW own \in BOOLEAN, NEW vowel, IsVowel(vowel), NEW keys,
           keys = VowelPart(own, vowel)
    PROVE  /\ keys \in Seq(Playable)
           /\ \/ keys = <<vowel>> /\ vowel \in Playable
              \/ \E q \in VowelPairs : /\ q[3] = vowel /\ keys = <<q[1], q[2]>>
                                       /\ q[1] \in Playable /\ q[2] \in Playable
<1>1. \/ keys = <<vowel>> /\ vowel \in Playable
      \/ \E q \in VowelPairs : /\ q[3] = vowel /\ keys = <<q[1], q[2]>>
                               /\ q[1] \in Playable /\ q[2] \in Playable
  BY VowelKeys DEF VowelPart
<1>2. QED BY <1>1, OneOrTwo

LEMMA FinalPartType ==
    ASSUME NEW final, Includes(FINALS, final)
    PROVE  /\ FinalPart(final) \in Seq(Playable)
           /\ \/ FinalPart(final) = <<>> /\ final = None
              \/ FinalPart(final) = <<final>> /\ IsFinal(final) /\ final \in Playable
              \/ \E q \in FinalPairs : /\ q[3] = final /\ FinalPart(final) = <<q[1], q[2]>>
                                       /\ q[1] \in Playable /\ q[2] \in Playable
<1>1. \/ FinalPart(final) = <<>> /\ final = None
      \/ FinalPart(final) = <<final>> /\ IsFinal(final) /\ final \in Playable
      \/ \E q \in FinalPairs : /\ q[3] = final /\ FinalPart(final) = <<q[1], q[2]>>
                               /\ q[1] \in Playable /\ q[2] \in Playable
  BY FinalKeys, FinalComponents, InitialPlayable DEF FinalPart
<1>2. <<>> \in Seq(Playable)
  OBVIOUS
<1>3. QED BY <1>1, <1>2, OneOrTwo

LEMMA KeysAssociate ==
    ASSUME NEW x \in Seq(Playable), NEW y \in Seq(Playable), NEW z \in Seq(Playable)
    PROVE  (x \o y) \o z = x \o (y \o z)
BY ConcatAssociative

LEMMA PlayableIsJamo == \A key \in Playable : IsJamo(key)
BY DEF Playable, KeyJamo, IsJamo

LEMMA MakesOne ==
    ASSUME NEW string, NEW a \in Playable, NEW keys \in Seq(Playable), NEW result,
           Makes(string, <<a>> \o keys, result)
    PROVE  Makes(AddJamo(string, a), keys, result)
BY MakesFirst

LEMMA MakesTwo ==
    ASSUME NEW string, NEW a \in Playable, NEW b \in Playable,
           NEW keys \in Seq(Playable), NEW result,
           Makes(string, <<a, b>> \o keys, result)
    PROVE  Makes(AddJamo(AddJamo(string, a), b), keys, result)
<1>1. <<a>> \in Seq(Playable) /\ <<b>> \in Seq(Playable) /\ <<a>> \o <<b>> = <<a, b>>
  BY TwoElements, OneOrTwo
<1>2. (<<a>> \o <<b>>) \o keys = <<a>> \o (<<b>> \o keys)
  BY <1>1, KeysAssociate
<1>3. <<b>> \o keys \in Seq(Playable)
  BY <1>1, ConcatProperties
<1>4. Makes(string, <<a>> \o (<<b>> \o keys), result)
  BY <1>1, <1>2
<1>5. Makes(AddJamo(string, a), <<b>> \o keys, result)
  BY <1>3, <1>4, MakesOne
<1>6. QED BY <1>5, MakesOne

\* The final consonant of the text and the first one of char make a compound.
Joins(done, char) ==
    done # <<>> /\ GetCompoundFinal(DecomposeSyllable(Last(done)).final,
                                    DecomposeSyllable(char).initial) # None

\* The vowel, by one key or two.
LEMMA VowelPartTyped ==
    ASSUME NEW done \in Seq(Syllables), NEW initial, IsInitial(initial),
           NEW own \in BOOLEAN, NEW vowel, IsVowel(vowel),
           NEW string, AfterInitial(done, initial, string),
           NEW keys \in Seq(Playable), NEW result,
           Makes(string, VowelPart(own, vowel) \o keys, result)
    PROVE  Makes(done \o CombineJamo(initial, vowel, None), keys, result)
<1>1. CASE VowelPart(own, vowel) = <<vowel>> /\ vowel \in Playable
  <2>1. Makes(AddJamo(string, vowel), keys, result)
    BY <1>1, MakesOne
  <2>2. QED BY <2>1, VowelTyped
<1>2. ASSUME NEW q \in VowelPairs, q[3] = vowel, VowelPart(own, vowel) = <<q[1], q[2]>>,
             q[1] \in Playable, q[2] \in Playable
      PROVE  Makes(done \o CombineJamo(initial, vowel, None), keys, result)
  <2>1. Makes(AddJamo(AddJamo(string, q[1]), q[2]), keys, result)
    BY <1>2, MakesTwo
  <2>2. PICK open \in Syllables :
          /\ CombineJamo(initial, q[1], None) = <<open>>
          /\ DecomposeSyllable(open) = [initial |-> initial, vowel |-> q[1], final |-> None]
    BY VowelComponents, CombineThenDecompose, NoneIsFinal
  <2>3. AddJamo(string, q[1]) = done \o <<open>>
    <3>1. IsVowel(q[1])
      BY VowelComponents
    <3>2. QED BY <2>2, <3>1, VowelTyped
  <2>4. AddJamo(done \o <<open>>, q[2]) = done \o AddToSyllable(open, q[2])
    BY <1>2, SyllablesAreChars, PlayableIsJamo, AddAfterSyllable
  <2>5. AddToSyllable(open, q[2]) = CombineJamo(initial, q[3], None)
    BY <2>2, SecondVowelTyped
  <2>6. QED BY <1>2, <2>1, <2>3, <2>4, <2>5
<1>3. QED BY <1>1, <1>2, VowelPartType

\* The final consonant, if there is one.
LEMMA FinalPartTyped ==
    ASSUME NEW done \in Seq(Syllables), NEW initial, IsInitial(initial),
           NEW vowel, IsVowel(vowel), NEW final, Includes(FINALS, final),
           NEW keys \in Seq(Playable), NEW result,
           Makes(done \o CombineJamo(initial, vowel, None), FinalPart(final) \o keys, result)
    PROVE  Makes(done \o CombineJamo(initial, vowel, final), keys, result)
<1>1. PICK open \in Syllables :
        /\ CombineJamo(initial, vowel, None) = <<open>>
        /\ DecomposeSyllable(open) = [initial |-> initial, vowel |-> vowel, final |-> None]
  BY CombineThenDecompose, NoneIsFinal
<1>2. done \in Seq(Chars)
  BY SyllablesAreChars
<1>3. CASE FinalPart(final) = <<>> /\ final = None
  <2>1. <<>> \o keys = keys
    BY ConcatEmptySeq
  <2>2. QED BY <1>3, <2>1
<1>4. CASE FinalPart(final) = <<final>> /\ IsFinal(final) /\ final \in Playable
  <2>1. Makes(AddJamo(done \o <<open>>, final), keys, result)
    BY <1>1, <1>4, MakesOne
  <2>2. AddJamo(done \o <<open>>, final) = done \o AddToSyllable(open, final)
    BY <1>2, <1>4, PlayableIsJamo, AddAfterSyllable
  <2>3. AddToSyllable(open, final) = CombineJamo(initial, vowel, final)
    BY <1>1, <1>4, FinalTyped
  <2>4. QED BY <2>1, <2>2, <2>3
<1>5. ASSUME NEW q \in FinalPairs, q[3] = final, FinalPart(final) = <<q[1], q[2]>>,
             q[1] \in Playable, q[2] \in Playable
      PROVE  Makes(done \o CombineJamo(initial, vowel, final), keys, result)
  <2>1. Makes(AddJamo(AddJamo(done \o <<open>>, q[1]), q[2]), keys, result)
    BY <1>1, <1>5, MakesTwo
  <2>2. IsFinal(q[1]) /\ Includes(FINALS, q[1])
    BY FinalComponents DEF IsFinal
  <2>3. PICK half \in Syllables :
          /\ CombineJamo(initial, vowel, q[1]) = <<half>>
          /\ DecomposeSyllable(half) = [initial |-> initial, vowel |-> vowel, final |-> q[1]]
    BY <2>2, CombineThenDecompose
  <2>4. AddJamo(done \o <<open>>, q[1]) = done \o AddToSyllable(open, q[1])
    BY <1>2, <1>5, PlayableIsJamo, AddAfterSyllable
  <2>5. AddToSyllable(open, q[1]) = <<half>>
    BY <1>1, <2>2, <2>3, FinalTyped
  <2>6. AddJamo(done \o <<half>>, q[2]) = done \o AddToSyllable(half, q[2])
    BY <1>2, <1>5, PlayableIsJamo, AddAfterSyllable
  <2>7. AddToSyllable(half, q[2]) = CombineJamo(initial, vowel, q[3])
    BY <2>3, SecondFinalTyped
  <2>8. QED BY <1>5, <2>1, <2>4, <2>5, <2>6, <2>7
<1>6. QED BY <1>3, <1>4, <1>5, FinalPartType

\* The three parts of the keys of a syllable, and the keys after it.
LEMMA KeyParts ==
    ASSUME NEW own \in BOOLEAN, NEW char \in Syllables, NEW keys \in Seq(Playable)
    PROVE  LET d == DecomposeSyllable(char)
               v == VowelPart(own, d.vowel)
               f == FinalPart(d.final)
           IN  /\ d.initial \in Playable
               /\ f \o keys \in Seq(Playable)
               /\ v \o (f \o keys) \in Seq(Playable)
               /\ KeyOf(own, char) \in Seq(Playable)
               /\ KeyOf(own, char) \o keys = <<d.initial>> \o (v \o (f \o keys))
<1> DEFINE d == DecomposeSyllable(char)
           i == <<d.initial>>
           v == VowelPart(own, d.vowel)
           f == FinalPart(d.final)
<1>1. IsInitial(d.initial) /\ IsVowel(d.vowel) /\ Includes(FINALS, d.final)
  BY DecomposeThenCombine
<1>2. KeyOf(own, char) = (i \o v) \o f
  BY KeyShape
<1> HIDE DEF d
<1>3. d.initial \in Playable
  BY <1>1, InitialPlayable
<1>4. i \in Seq(Playable)
  BY <1>3, OneOrTwo
<1>5. v \in Seq(Playable)
  BY <1>1, VowelPartType
<1>6. f \in Seq(Playable)
  BY <1>1, FinalPartType
<1> HIDE DEF i, v, f
<1>7. i \o v \in Seq(Playable) /\ f \o keys \in Seq(Playable)
  BY <1>4, <1>5, <1>6, ConcatProperties
<1>8. (i \o v) \o f \in Seq(Playable) /\ v \o (f \o keys) \in Seq(Playable)
  BY <1>5, <1>6, <1>7, ConcatProperties
<1>9. ((i \o v) \o f) \o keys = (i \o v) \o (f \o keys)
  <2>1. keys \in Seq(Playable)
    OBVIOUS
  <2>2. QED BY ONLY <1>6, <1>7, <2>1, KeysAssociate
<1>10. (i \o v) \o (f \o keys) = i \o (v \o (f \o keys))
  BY ONLY <1>4, <1>5, <1>7, KeysAssociate
<1>11. KeyOf(own, char) \in Seq(Playable) /\ KeyOf(own, char) \o keys = i \o (v \o (f \o keys))
  BY <1>2, <1>8, <1>9, <1>10
<1>12. QED BY <1>3, <1>7, <1>8, <1>11 DEF d, i, v, f

\* A syllable typed after a text whose end does not join with it is that syllable.
LEMMA SyllableTyped ==
    ASSUME NEW done \in Seq(Syllables), NEW char \in Syllables, ~Joins(done, char),
           NEW own \in BOOLEAN, NEW keys \in Seq(Playable), NEW result,
           Makes(done, KeyOf(own, char) \o keys, result)
    PROVE  Makes(done \o <<char>>, keys, result)
<1> DEFINE d == DecomposeSyllable(char)
           v == VowelPart(own, d.vowel)
           f == FinalPart(d.final)
<1>1. /\ IsInitial(d.initial) /\ IsVowel(d.vowel) /\ Includes(FINALS, d.final)
      /\ CombineJamo(d.initial, d.vowel, d.final) = <<char>>
  BY DecomposeThenCombine
<1>2. /\ d.initial \in Playable
      /\ f \o keys \in Seq(Playable)
      /\ v \o (f \o keys) \in Seq(Playable)
      /\ KeyOf(own, char) \o keys = <<d.initial>> \o (v \o (f \o keys))
  BY KeyParts
<1>3. AfterInitial(done, d.initial, AddJamo(done, d.initial))
  BY <1>1, InitialTyped DEF Joins
<1> HIDE DEF d, f
<1>4. Makes(AddJamo(done, d.initial), v \o (f \o keys), result)
  BY <1>2, MakesOne
<1>5. Makes(done \o CombineJamo(d.initial, d.vowel, None), f \o keys, result)
  BY <1>1, <1>2, <1>3, <1>4, VowelPartTyped
<1>6. Makes(done \o CombineJamo(d.initial, d.vowel, d.final), keys, result)
  BY <1>1, <1>5, FinalPartTyped DEF f
<1>7. QED BY <1>1, <1>6

----------------------------------------------------------------------------
(* The keys of a word, syllable by syllable.                               *)

LEMMA PartsAssociate ==
    ASSUME NEW x \in Seq(Seq(Playable)), NEW y \in Seq(Seq(Playable)),
           NEW z \in Seq(Seq(Playable))
    PROVE  (x \o y) \o z = x \o (y \o z)
BY ConcatAssociative, SMTT(30)

LEMMA FlattenCons ==
    ASSUME NEW x \in Seq(Playable), NEW s \in Seq(Seq(Playable))
    PROVE  FlattenSeq(<<x>> \o s) = x \o FlattenSeq(s)
<1> DEFINE Good(t) == FlattenSeq(<<x>> \o t) = x \o FlattenSeq(t)
           T == {n \in Nat : \E t \in Seq(Seq(Playable)) : Len(t) = n /\ ~Good(t)}
<1>1. SUFFICES T = {}
  <2>1. Len(s) \in Nat
    BY LenProperties
  <2>2. QED BY <1>1, <2>1
<1>2. SUFFICES ASSUME T # {} PROVE FALSE
  OBVIOUS
<1>3. T \subseteq Nat
  OBVIOUS
<1>4. PICK n \in T : \A m \in T : n <= m
  BY <1>2, <1>3, LeastNumber
<1>5. PICK t \in Seq(Seq(Playable)) : Len(t) = n /\ ~Good(t)
  OBVIOUS
<1>6. <<x>> \in Seq(Seq(Playable)) /\ <<>> \in Seq(Seq(Playable))
  OBVIOUS
<1>7. FlattenSeq(<<>>) = <<>>
  BY DEF FlattenSeq
<1>8. FlattenSeq(<<x>>) = x
  <2>1. FlattenSeq(Append(<<>>, x)) = <<>> \o x
    BY <1>6, <1>7, FlattenAppend
  <2>2. Append(<<>>, x) = <<x>> /\ <<>> \o x = x
    BY ConcatEmptySeq
  <2>3. QED BY <2>1, <2>2
<1>9. CASE t = <<>>
  <2>1. <<x>> \o <<>> = <<x>> /\ x \o <<>> = x
    BY <1>6, ConcatEmptySeq
  <2>2. QED BY <1>5, <1>7, <1>8, <1>9, <2>1
<1>10. CASE t # <<>>
  <2> DEFINE f == Front(t)
             l == Last(t)
  <2>1. f \in Seq(Seq(Playable)) /\ l \in Seq(Playable) /\ f \o <<l>> = t
    BY <1>10, FrontAndLast
  <2> HIDE DEF f, l
  <2>2. <<l>> \in Seq(Seq(Playable))
    BY <2>1
  <2>3. t = Append(f, l) /\ Len(f) = n - 1 /\ Len(f) \in Nat
    <3>1. t = Append(f, l)
      BY <2>1, AppendIsConcat
    <3>2. QED BY <1>5, <2>1, <3>1, AppendProperties, LenProperties
  <2>4. Good(f)
    <3>1. n \in Nat
      BY <1>3, <1>4
    <3>2. ~(n <= Len(f))
      BY <2>3, <3>1
    <3>3. Len(f) \notin T
      BY <1>4, <3>2
    <3>4. QED BY <2>1, <2>3, <3>3
  <2>5. <<x>> \o t = Append(<<x>> \o f, l) /\ <<x>> \o f \in Seq(Seq(Playable))
    <3>1. (<<x>> \o f) \o <<l>> = <<x>> \o (f \o <<l>>)
      <4> DEFINE a == <<x>>
                 b == <<l>>
      <4>1. a \in Seq(Seq(Playable)) /\ f \in Seq(Seq(Playable)) /\ b \in Seq(Seq(Playable))
        BY <1>6, <2>1, <2>2
      <4> HIDE DEF a, b
      <4>2. (a \o f) \o b = a \o (f \o b)
        BY ONLY <4>1, PartsAssociate, SMTT(60)
      <4>3. QED BY <4>2 DEF a, b
    <3>2. <<x>> \o f \in Seq(Seq(Playable))
      BY <1>6, <2>1, ConcatProperties
    <3>3. Append(<<x>> \o f, l) = (<<x>> \o f) \o <<l>>
      BY <2>1, <3>2, AppendIsConcat
    <3>4. QED BY <2>1, <3>1, <3>2, <3>3
  <2>6. FlattenSeq(<<x>> \o t) = FlattenSeq(<<x>> \o f) \o l
    BY <2>1, <2>5, FlattenAppend
  <2>7. FlattenSeq(t) = FlattenSeq(f) \o l
    BY <2>1, <2>3, FlattenAppend
  <2>8. FlattenSeq(f) \in Seq(Playable)
    BY <2>1, FlattenType
  <2>9. (x \o FlattenSeq(f)) \o l = x \o (FlattenSeq(f) \o l)
    BY <2>1, <2>8, KeysAssociate
  <2>10. QED BY <1>5, <2>4, <2>6, <2>7, <2>9
<1>11. QED BY <1>9, <1>10

LEMMA KeyOfType ==
    ASSUME NEW own \in BOOLEAN, NEW char \in Syllables
    PROVE  KeyOf(own, char) \in Seq(Playable)
<1>1. <<>> \in Seq(Playable)
  OBVIOUS
<1>2. QED BY <1>1, KeyParts

\* The keys of each syllable of a word.
KeysOfEach(own, word) == [n \in DOMAIN word |-> KeyOf(own, word[n])]

LEMMA KeysOfEachType ==
    ASSUME NEW own \in BOOLEAN, NEW word \in Seq(Syllables)
    PROVE  /\ KeysOfEach(own, word) \in Seq(Seq(Playable))
           /\ Len(KeysOfEach(own, word)) = Len(word) /\ Len(word) \in Nat
           /\ \A n \in 1..Len(word) : KeysOfEach(own, word)[n] = KeyOf(own, word[n])
<1>1. DOMAIN word = 1..Len(word) /\ Len(word) \in Nat
  BY LenProperties
<1>2. \A n \in 1..Len(word) : KeyOf(own, word[n]) \in Seq(Playable)
  BY KeyOfType, ElementOfSeq
<1>3. KeysOfEach(own, word) \in [1..Len(word) -> Seq(Playable)]
  BY <1>1, <1>2 DEF KeysOfEach
<1>4. KeysOfEach(own, word) \in Seq(Seq(Playable))
  BY <1>1, <1>3, IsASeq
<1>5. Len(KeysOfEach(own, word)) = Len(word)
  BY <1>1, <1>3, <1>4, LenProperties
<1>6. QED BY <1>1, <1>4, <1>5 DEF KeysOfEach

LEMMA AllKeysType ==
    ASSUME NEW own \in BOOLEAN, NEW word \in Seq(Syllables)
    PROVE  AllKeys(own, word) \in Seq(Playable)
BY KeysOfEachType, FlattenType DEF AllKeys, KeysOfEach

LEMMA AllKeysNone ==
    ASSUME NEW own \in BOOLEAN
    PROVE  AllKeys(own, <<>>) = <<>>
<1>1. KeysOfEach(own, <<>>) = <<>>
  <2>1. <<>> \in Seq(Syllables)
    OBVIOUS
  <2>2. QED BY <2>1, KeysOfEachType, EmptySeq
<1>2. FlattenSeq(<<>>) = <<>>
  BY DEF FlattenSeq
<1>3. QED BY <1>1, <1>2 DEF AllKeys, KeysOfEach

LEMMA AllKeysCons ==
    ASSUME NEW own \in BOOLEAN, NEW char \in Syllables, NEW rest \in Seq(Syllables)
    PROVE  AllKeys(own, <<char>> \o rest) = KeyOf(own, char) \o AllKeys(own, rest)
<1> DEFINE word == <<char>> \o rest
           k == Len(rest)
           x == KeyOf(own, char)
           e == KeysOfEach(own, rest)
           all == KeysOfEach(own, word)
           t == <<x>> \o e
<1>1. /\ word \in Seq(Syllables) /\ Len(word) = k + 1 /\ k \in Nat /\ word[1] = char
      /\ \A n \in 1..k : word[n + 1] = rest[n]
  BY ConsProperties
<1>2. x \in Seq(Playable)
  BY KeyOfType
<1>3. /\ e \in Seq(Seq(Playable)) /\ Len(e) = k
      /\ \A n \in 1..k : e[n] = KeyOf(own, rest[n])
  BY KeysOfEachType
<1> HIDE DEF word, k
<1>4. /\ all \in Seq(Seq(Playable)) /\ Len(all) = k + 1
      /\ \A n \in 1..(k + 1) : all[n] = KeyOf(own, word[n])
  BY <1>1, KeysOfEachType
<1> HIDE DEF x, e, all
<1>5. /\ t \in Seq(Seq(Playable)) /\ Len(t) = k + 1 /\ t[1] = x
      /\ \A n \in 1..k : t[n + 1] = e[n]
  BY <1>2, <1>3, ConsProperties
<1> HIDE DEF t
<1>6. ASSUME NEW n \in 1..(k + 1) PROVE all[n] = t[n]
  <2>1. CASE n = 1
    BY <1>1, <1>4, <1>5, <2>1 DEF x
  <2>2. CASE n # 1
    <3>1. n - 1 \in 1..k /\ (n - 1) + 1 = n
      BY <1>1, <2>2
    <3>2. t[n] = e[n - 1] /\ word[n] = rest[n - 1]
      BY <1>1, <1>5, <3>1
    <3>3. e[n - 1] = KeyOf(own, rest[n - 1]) /\ all[n] = KeyOf(own, word[n])
      BY <1>3, <1>4, <3>1
    <3>4. QED BY <3>2, <3>3
  <2>3. QED BY <2>1, <2>2
<1>7. all = t
  BY <1>4, <1>5, <1>6, SeqEqual
<1>8. FlattenSeq(t) = x \o FlattenSeq(e)
  BY <1>2, <1>3, FlattenCons DEF t
<1>9. QED BY <1>7, <1>8 DEF word, x, e, all, AllKeys, KeysOfEach

----------------------------------------------------------------------------
(* What keys can make, counted in strokes.                                 *)

LEMMA KeysAreChars == Playable \subseteq Chars /\ Playable \subseteq Strokable
BY DEF Playable, Strokable, Chars

LEMMA KeysAreTexts ==
    ASSUME NEW keys \in Seq(Playable)
    PROVE  keys \in Seq(Chars)
<1>1. DOMAIN keys = 1..Len(keys) /\ Len(keys) \in Nat
  BY LenProperties
<1>2. \A n \in 1..Len(keys) : keys[n] \in Chars
  BY KeysAreChars, ElementOfSeq
<1>3. keys \in [1..Len(keys) -> Playable]
  BY LenProperties
<1>4. keys \in [1..Len(keys) -> Chars]
  BY <1>2, <1>3
<1>5. QED BY <1>1, <1>4, IsASeq

LEMMA PairTyped ==
    ASSUME NEW q \in Pairs, q[1] \in Playable, q[2] \in Playable
    PROVE  AllStrokes(<<q[1], q[2]>>) = Split(q[3])
<1>1. /\ q[1] \in Chars /\ q[2] \in Chars
      /\ Strokes(q[1]) = Split(q[1]) /\ Strokes(q[2]) = Split(q[2])
  BY KeysAreChars, StrokesOfJamo
<1>2. AllStrokes(<<q[1], q[2]>>) = Strokes(q[1]) \o Strokes(q[2])
  BY <1>1, StrokesOfTwo
<1>3. QED BY <1>1, <1>2, SplitOfPair

LEMMA OneTyped ==
    ASSUME NEW key \in Playable
    PROVE  AllStrokes(<<key>>) = Split(key)
BY KeysAreChars, StrokesOfOne, StrokesOfJamo

\* The keys of a syllable are its strokes, whichever way they are typed.
LEMMA StrokesOfKeyOf ==
    ASSUME NEW own \in BOOLEAN, NEW char \in Syllables
    PROVE  AllStrokes(KeyOf(own, char)) = Strokes(char)
<1> DEFINE d == DecomposeSyllable(char)
           i == <<d.initial>>
           v == VowelPart(own, d.vowel)
           f == FinalPart(d.final)
<1>1. IsInitial(d.initial) /\ IsVowel(d.vowel) /\ Includes(FINALS, d.final)
  BY DecomposeThenCombine
<1>2. KeyOf(own, char) = (i \o v) \o f
  BY KeyShape
<1>3. Strokes(char) = (<<d.initial>> \o Split(d.vowel)) \o f
  BY StrokesOfSyllable DEF SyllableStrokes, FinalPart
<1> HIDE DEF d
<1>4. i \in Seq(Playable) /\ AllStrokes(i) = <<d.initial>>
  BY <1>1, InitialPlayable, OneOrTwo, OneTyped, SplitInitial
<1>5. v \in Seq(Playable) /\ AllStrokes(v) = Split(d.vowel)
  <2>1. v \in Seq(Playable)
    BY <1>1, VowelPartType
  <2>2. CASE v = <<d.vowel>> /\ d.vowel \in Playable
    BY <2>1, <2>2, OneTyped
  <2>3. CASE \E q \in VowelPairs : /\ q[3] = d.vowel /\ v = <<q[1], q[2]>>
                                   /\ q[1] \in Playable /\ q[2] \in Playable
    BY <2>1, <2>3, PairTyped DEF Pairs
  <2>4. QED BY <1>1, <2>2, <2>3, VowelPartType
<1>6. f \in Seq(Playable) /\ AllStrokes(f) = f
  <2>1. f \in Seq(Playable)
    BY <1>1, FinalPartType
  <2>2. CASE f = <<>>
    BY <2>1, <2>2, NoStrokes
  <2>3. CASE f = <<d.final>> /\ d.final # None /\ d.final \in Playable
    BY <2>1, <2>3, OneTyped DEF FinalPart
  <2>4. CASE \E q \in FinalPairs : /\ q[3] = d.final /\ f = <<q[1], q[2]>>
                                   /\ q[1] \in Playable /\ q[2] \in Playable
    <3>1. PICK q \in FinalPairs : /\ q[3] = d.final /\ f = <<q[1], q[2]>>
                                  /\ q[1] \in Playable /\ q[2] \in Playable
      BY <2>4
    <3>2. q \in Pairs /\ AllStrokes(f) = Split(q[3]) /\ Split(q[3]) = <<q[1], q[2]>>
      BY <3>1, PairTyped, SplitCompound DEF Pairs
    <3>3. QED BY <2>1, <3>1, <3>2
  <2>5. QED BY <1>1, <2>2, <2>3, <2>4, FinalPartType DEF IsFinal
<1> HIDE DEF i, v, f
<1>7. i \in Seq(Chars) /\ v \in Seq(Chars) /\ f \in Seq(Chars) /\ i \o v \in Seq(Chars)
  BY <1>4, <1>5, <1>6, KeysAreTexts, ConcatProperties
<1>8. AllStrokes((i \o v) \o f) = AllStrokes(i \o v) \o AllStrokes(f)
  BY <1>7, StrokesConcat
<1>9. AllStrokes(i \o v) = AllStrokes(i) \o AllStrokes(v)
  BY <1>7, StrokesConcat
<1>10. QED BY <1>2, <1>3, <1>4, <1>5, <1>6, <1>8, <1>9

\* So are those of a word.
LEMMA StrokesOfAllKeys ==
    ASSUME NEW own \in BOOLEAN, NEW word \in Seq(Syllables)
    PROVE  AllStrokes(AllKeys(own, word)) = AllStrokes(word)
<1> DEFINE Same(w) == AllStrokes(AllKeys(own, w)) = AllStrokes(w)
           T == {n \in Nat : \E w \in Seq(Syllables) : Len(w) = n /\ ~Same(w)}
<1>1. SUFFICES T = {}
  <2>1. Len(word) \in Nat
    BY LenProperties
  <2>2. QED BY <1>1, <2>1
<1>2. SUFFICES ASSUME T # {} PROVE FALSE
  OBVIOUS
<1>3. T \subseteq Nat
  OBVIOUS
<1>4. PICK n \in T : \A m \in T : n <= m
  BY <1>2, <1>3, LeastNumber
<1>5. PICK w \in Seq(Syllables) : Len(w) = n /\ ~Same(w)
  OBVIOUS
<1>6. CASE w = <<>>
  BY <1>5, <1>6, AllKeysNone
<1>7. CASE w # <<>>
  <2> DEFINE c == Head(w)
             rest == Tail(w)
  <2>1. /\ c \in Syllables /\ rest \in Seq(Syllables) /\ w = <<c>> \o rest
        /\ Len(rest) = n - 1 /\ Len(rest) \in Nat
    BY <1>5, <1>7, HeadAndTail
  <2> HIDE DEF c, rest
  <2>2. Same(rest)
    <3>1. n \in Nat
      BY <1>3, <1>4
    <3>2. ~(n <= Len(rest))
      BY <2>1, <3>1
    <3>3. Len(rest) \notin T
      BY <1>4, <3>2
    <3>4. QED BY <2>1, <3>3
  <2>3. AllKeys(own, w) = KeyOf(own, c) \o AllKeys(own, rest)
    BY <2>1, AllKeysCons
  <2>4. KeyOf(own, c) \in Seq(Chars) /\ AllKeys(own, rest) \in Seq(Chars)
    BY <2>1, KeyOfType, AllKeysType, KeysAreTexts
  <2>5. AllStrokes(AllKeys(own, w)) = Strokes(c) \o AllStrokes(rest)
    BY <2>1, <2>2, <2>3, <2>4, StrokesConcat, StrokesOfKeyOf
  <2>6. c \in Chars /\ <<c>> \in Seq(Chars) /\ rest \in Seq(Chars)
    <3>1. c \in Chars
      BY <2>1 DEF Chars
    <3>2. QED BY <2>1, <3>1, SyllablesAreChars
  <2>7. AllStrokes(w) = AllStrokes(<<c>>) \o AllStrokes(rest)
    BY <2>1, <2>6, StrokesConcat
  <2>8. AllStrokes(<<c>>) = Strokes(c)
    BY <2>6, StrokesOfOne
  <2>9. QED BY <1>5, <2>5, <2>7, <2>8
<1>8. QED BY <1>6, <1>7

\* The number of strokes in a text.
Count(string) == Len(AllStrokes(string))

LEMMA CountType ==
    ASSUME NEW string \in Seq(Chars)
    PROVE  Count(string) \in Nat
BY AllStrokesType, LenProperties DEF Count

LEMMA CountConcat ==
    ASSUME NEW s \in Seq(Chars), NEW t \in Seq(Chars)
    PROVE  Count(s \o t) = Count(s) + Count(t)
<1>1. AllStrokes(s) \in Seq(Strokable) /\ AllStrokes(t) \in Seq(Strokable)
  BY AllStrokesType
<1>2. QED BY <1>1, StrokesConcat, ConcatProperties DEF Count

LEMMA CountOfOne ==
    ASSUME NEW char \in Chars
    PROVE  /\ <<char>> \in Seq(Chars) /\ Count(<<char>>) = Len(Strokes(char))
           /\ Len(Strokes(char)) \in Nat /\ Len(Strokes(char)) > 0
<1>1. <<char>> \in Seq(Chars)
  OBVIOUS
<1>2. QED BY <1>1, StrokesOfOne, StrokesType, LenProperties DEF Count

\* A vowel after a compound final: the final is lost, and the vowel.
LEMMA CompoundLess ==
    ASSUME NEW syllable \in Syllables, NEW vowel, IsVowel(vowel),
           NEW d, d = DecomposeSyllable(syllable), d.final # None, ~IsInitial(d.final)
    PROVE  /\ AddToSyllable(syllable, vowel) \in Seq(Chars)
           /\ Count(AddToSyllable(syllable, vowel)) < Len(Strokes(syllable))
<1>1. PICK first \in Syllables :
        /\ AddToSyllable(syllable, vowel) = <<first>>
        /\ DecomposeSyllable(first) = [initial |-> d.initial, vowel |-> d.vowel, final |-> None]
  BY CompoundFinalLost
<1>2. first \in Chars
  BY DEF Chars
<1>3. <<first>> \in Seq(Chars) /\ Count(<<first>>) = Len(Strokes(first))
  BY <1>2, CountOfOne
<1> DEFINE o == <<d.initial>> \o Split(d.vowel)
           f == Split(d.final)
<1>4. Strokes(syllable) = o \o f /\ o \in Seq(Strokable) /\ f \in Seq(Strokable) /\ Len(f) > 0
  BY SyllableParts
<1>5. Strokes(first) = o
  <2> DEFINE e == DecomposeSyllable(first)
  <2>1. e.final = None /\ e.initial = d.initial /\ e.vowel = d.vowel
    BY <1>1
  <2>2. e.final = None => Strokes(first) = <<e.initial>> \o Split(e.vowel)
    BY SyllableParts
  <2>3. QED BY <2>1, <2>2
<1> HIDE DEF o, f
<1>6. Len(o \o f) = Len(o) + Len(f) /\ Len(o) \in Nat /\ Len(f) \in Nat
  BY <1>4, ConcatProperties, LenProperties
<1>7. Len(o) < Len(o \o f)
  BY <1>4, <1>6
<1>8. QED BY <1>1, <1>3, <1>4, <1>5, <1>7

LEMMA CompoundFinalIs ==
    ASSUME NEW char \in Chars, CompoundFinal(char), NEW d, d = DecomposeSyllable(char)
    PROVE  char \in Syllables /\ d.final # None /\ ~IsInitial(d.final)
<1>1. char \in Syllables
  BY SyllableInRange DEF CompoundFinal
<1>2. Len(Split(d.final)) = 2
  BY DEF CompoundFinal
<1>3. d.final # None
  <2>1. \A q \in Pairs : q[3] # None
    BY DEF Pairs, VowelPairs, FinalPairs, Jamo, None
  <2>2. Split(None) = <<None>>
    BY <2>1, SplitSimple
  <2>3. QED BY <1>2, <2>2
<1>4. ~IsInitial(d.final)
  <2>1. IsInitial(d.final) => Split(d.final) = <<d.final>>
    BY SplitInitial
  <2>2. QED BY <1>2, <2>1
<1>5. QED BY <1>1, <1>3, <1>4

\* The last character becomes something of fewer strokes.
LEMMA LastLess ==
    ASSUME NEW string \in Seq(Chars), string # <<>>, NEW t \in Seq(Chars)
    PROVE  /\ Front(string) \o t \in Seq(Chars)
           /\ Count(Front(string) \o t) = Count(Front(string)) + Count(t)
           /\ Count(string) = Count(Front(string)) + Len(Strokes(Last(string)))
           /\ Count(Front(string)) \in Nat
<1>1. Front(string) \in Seq(Chars) /\ Last(string) \in Chars
      /\ Front(string) \o <<Last(string)>> = string
  BY FrontAndLast
<1>2. /\ <<Last(string)>> \in Seq(Chars)
      /\ Count(<<Last(string)>>) = Len(Strokes(Last(string)))
  BY <1>1, CountOfOne
<1>3. QED BY <1>1, <1>2, CountConcat, CountType, ConcatProperties

\* A key adds its strokes at most, and takes some when the compound final is lost.
LEMMA AddBound ==
    ASSUME NEW string \in Seq(Chars), NEW key \in Playable
    PROVE  /\ AddJamo(string, key) \in Seq(Chars)
           /\ Count(AddJamo(string, key)) <= Count(string) + Count(<<key>>)
           /\ string # <<>> /\ CompoundFinal(Last(string)) /\ IsVowel(key)
                => Count(AddJamo(string, key)) < Count(string) + Count(<<key>>)
<1>1. KeyJamo(key) /\ key \in Chars /\ key \in Strokable /\ key \in Keys /\ IsJamo(key)
  BY KeysAreChars, PlayableIsJamo DEF Playable, KeyJamo
<1>2. AddJamo(string, key) \in Seq(Chars)
  BY <1>1, AddJamoExtends, ExtendsKeeps
<1>3. /\ Count(string) \in Nat /\ Count(<<key>>) \in Nat /\ Count(<<key>>) > 0
      /\ Count(AddJamo(string, key)) \in Nat /\ <<key>> \in Seq(Chars)
  BY <1>1, <1>2, CountType, CountOfOne
<1>4. CASE string # <<>> /\ CompoundFinal(Last(string)) /\ IsVowel(key)
  <2> DEFINE t == AddToSyllable(Last(string), key)
             d == DecomposeSyllable(Last(string))
  <2>1. Last(string) \in Chars
    BY <1>4, FrontAndLast
  <2>2. Last(string) \in Syllables /\ d.final # None /\ ~IsInitial(d.final)
    BY <1>4, <2>1, CompoundFinalIs
  <2>3. t \in Seq(Chars) /\ Count(t) < Len(Strokes(Last(string)))
    BY <1>4, <2>2, CompoundLess
  <2>4. AddJamo(string, key) = Front(string) \o t
    BY <1>1, <1>4, <2>2, SyllableIsSyllable DEF AddJamo
  <2>5. Len(Strokes(Last(string))) \in Nat
    BY <2>1, CountOfOne
  <2> HIDE DEF t, d
  <2>6. Count(t) \in Nat
    BY <2>3, CountType
  <2>7. Count(AddJamo(string, key)) < Count(string)
    BY <1>4, <2>3, <2>4, <2>5, <2>6, LastLess
  <2>8. QED BY <1>2, <1>3, <2>7
<1>5. CASE string # <<>> /\ IsInitial(Last(string)) /\ IsInitial(key)
  <2>1. Last(string) \in Chars
    BY <1>5, FrontAndLast
  <2>2. ~IsSyllable(Last(string)) /\ ~IsVowel(key)
    BY <1>5, InitialIsJamo, JamoIsNoSyllable, InitialNoVowel DEF Strokable
  <2>3. AddJamo(string, key) = AddToInitial(string, key)
    BY <1>1, <1>5, <2>2 DEF AddJamo
  <2>4. AddToInitial(string, key) = Append(Front(string), key)
    BY <1>5, <2>2 DEF AddToInitial
  <2>5. Front(string) \in Seq(Chars)
    BY <1>5, FrontAndLast
  <2>6. AddJamo(string, key) = Front(string) \o <<key>>
    BY <1>1, <2>3, <2>4, <2>5, AppendIsConcat
  <2>7. Len(Strokes(Last(string))) \in Nat
    BY <2>1, CountOfOne
  <2>8. Count(AddJamo(string, key)) <= Count(string) + Count(<<key>>)
    <3>1. /\ Count(Front(string) \o <<key>>) = Count(Front(string)) + Count(<<key>>)
          /\ Count(string) = Count(Front(string)) + Len(Strokes(Last(string)))
          /\ Count(Front(string)) \in Nat
      BY <1>3, <1>5, LastLess
    <3>2. QED BY <1>3, <2>6, <2>7, <3>1
  <2>9. QED BY <1>2, <1>3, <2>2, <2>8
<1>6. CASE string # <<>> => /\ ~(IsInitial(key) /\ IsInitial(Last(string)))
                            /\ ~(CompoundFinal(Last(string)) /\ IsVowel(key))
  <2>1. AllStrokes(AddJamo(string, key)) = AllStrokes(string) \o Split(key)
    BY <1>1, <1>6, AddJamoStrokes
  <2>2. AllStrokes(<<key>>) = Split(key)
    BY OneTyped
  <2>3. AllStrokes(string) \in Seq(Strokable) /\ AllStrokes(<<key>>) \in Seq(Strokable)
    BY <1>3, AllStrokesType
  <2>4. Count(AddJamo(string, key)) = Count(string) + Count(<<key>>)
    BY <2>1, <2>2, <2>3, ConcatProperties DEF Count
  <2>5. QED BY <1>2, <1>3, <1>6, <2>4
<1>7. QED BY <1>4, <1>5, <1>6

\* So keys make no more strokes than there are in them.
LEMMA MakesBound ==
    ASSUME NEW string \in Seq(Chars), NEW keys \in Seq(Playable), NEW result,
           Makes(string, keys, result)
    PROVE  result \in Seq(Chars) /\ Count(result) <= Count(string) + Count(keys)
<1> DEFINE Good(s, k, r) == r \in Seq(Chars) /\ Count(r) <= Count(s) + Count(k)
           T == {n \in Nat : \E s \in Seq(Chars), k \in Seq(Playable) :
                               Len(k) = n /\ \E r : Makes(s, k, r) /\ ~Good(s, k, r)}
<1>1. SUFFICES T = {}
  <2>1. Len(keys) \in Nat
    BY LenProperties
  <2>2. QED BY <1>1, <2>1
<1>2. SUFFICES ASSUME T # {} PROVE FALSE
  OBVIOUS
<1>3. T \subseteq Nat
  OBVIOUS
<1>4. PICK n \in T : \A m \in T : n <= m
  BY <1>2, <1>3, LeastNumber
<1>5. PICK s \in Seq(Chars), k \in Seq(Playable) :
        Len(k) = n /\ \E r : Makes(s, k, r) /\ ~Good(s, k, r)
  OBVIOUS
<1>6. PICK r : Makes(s, k, r) /\ ~Good(s, k, r)
  BY <1>5
<1>7. CASE k = <<>>
  <2>1. r = s
    BY <1>6, <1>7, MakesNothing
  <2>2. Count(s) \in Nat /\ Count(k) = 0
    BY <1>7, CountType, NoStrokes DEF Count
  <2>3. QED BY <1>6, <2>1, <2>2
<1>8. CASE k # <<>>
  <2> DEFINE c == Head(k)
             t == Tail(k)
  <2>1. /\ c \in Playable /\ t \in Seq(Playable) /\ k = <<c>> \o t
        /\ Len(t) = n - 1 /\ Len(t) \in Nat
    BY <1>5, <1>8, HeadAndTail
  <2> HIDE DEF c, t
  <2>2. Makes(AddJamo(s, c), t, r)
    BY <1>6, <2>1, MakesOne
  <2>3. AddJamo(s, c) \in Seq(Chars) /\ Count(AddJamo(s, c)) <= Count(s) + Count(<<c>>)
    BY <2>1, AddBound
  <2>4. Good(AddJamo(s, c), t, r)
    <3>1. n \in Nat
      BY <1>3, <1>4
    <3>2. ~(n <= Len(t))
      BY <2>1, <3>1
    <3>3. Len(t) \notin T
      BY <1>4, <3>2
    <3>4. QED BY <2>1, <2>2, <2>3, <3>3
  <2>5. Count(k) = Count(<<c>>) + Count(t)
    <3>1. c \in Chars /\ t \in Seq(Chars)
      BY <2>1, KeysAreChars, KeysAreTexts
    <3>2. <<c>> \in Seq(Chars)
      BY <3>1, CountOfOne
    <3>3. QED BY <2>1, <3>1, <3>2, CountConcat
  <2>6. /\ Count(s) \in Nat /\ Count(AddJamo(s, c)) \in Nat /\ Count(<<c>>) \in Nat
        /\ Count(t) \in Nat /\ Count(r) \in Nat
    BY <2>1, <2>3, <2>4, CountType, KeysAreChars, KeysAreTexts, CountOfOne
  <2>7. Count(r) <= Count(AddJamo(s, c)) + Count(t)
    BY <2>4
  <2>8. Count(r) <= Count(s) + Count(k)
    BY <2>3, <2>5, <2>6, <2>7, SMTT(30)
  <2>9. QED BY <1>6, <2>4, <2>8
<1>9. QED BY <1>7, <1>8

----------------------------------------------------------------------------
(* A final consonant and an initial that clash.                            *)

\* The key after the initial is a vowel.
LEMMA VowelFirst ==
    ASSUME NEW vowel \in Playable, IsVowel(vowel), NEW keys \in Seq(Playable)
    PROVE  <<vowel>> \o keys # <<>> /\ IsVowel(Head(<<vowel>> \o keys))
<1> DEFINE all == <<vowel>> \o keys
<1>1. all \in Seq(Playable) /\ all # <<>> /\ all[1] = vowel
  BY ConsProperties
<1> HIDE DEF all
<1>2. Head(all) = all[1]
  BY <1>1, HeadTailProperties
<1>3. QED BY <1>1, <1>2 DEF all

LEMMA VowelNext ==
    ASSUME NEW own \in BOOLEAN, NEW vowel, IsVowel(vowel), NEW keys \in Seq(Playable)
    PROVE  /\ VowelPart(own, vowel) \o keys # <<>>
           /\ IsVowel(Head(VowelPart(own, vowel) \o keys))
<1>1. CASE VowelPart(own, vowel) = <<vowel>> /\ vowel \in Playable
  BY <1>1, VowelFirst
<1>2. CASE \E q \in VowelPairs : /\ q[3] = vowel /\ VowelPart(own, vowel) = <<q[1], q[2]>>
                                 /\ q[1] \in Playable /\ q[2] \in Playable
  <2>1. PICK q \in VowelPairs : /\ VowelPart(own, vowel) = <<q[1], q[2]>>
                                /\ q[1] \in Playable /\ q[2] \in Playable
    BY <1>2
  <2>2. /\ <<q[1]>> \in Seq(Playable) /\ <<q[2]>> \in Seq(Playable)
        /\ <<q[1]>> \o <<q[2]>> = <<q[1], q[2]>>
    BY <2>1, TwoElements, OneOrTwo
  <2>3. (<<q[1]>> \o <<q[2]>>) \o keys = <<q[1]>> \o (<<q[2]>> \o keys)
    BY <2>2, KeysAssociate
  <2>4. <<q[2]>> \o keys \in Seq(Playable)
    BY <2>2, ConcatProperties
  <2>5. IsVowel(q[1])
    BY VowelComponents
  <2>6. /\ <<q[1]>> \o (<<q[2]>> \o keys) # <<>>
        /\ IsVowel(Head(<<q[1]>> \o (<<q[2]>> \o keys)))
    BY <2>1, <2>4, <2>5, VowelFirst
  <2>7. VowelPart(own, vowel) \o keys = <<q[1]>> \o (<<q[2]>> \o keys)
    BY <2>1, <2>2, <2>3
  <2>8. QED BY <2>6, <2>7
<1>3. QED BY <1>1, <1>2, VowelPartType

\* The final consonant of the text and the initial become one compound final.
LEMMA Joined ==
    ASSUME NEW done \in Seq(Syllables), NEW char \in Syllables, Joins(done, char),
           NEW i, i = DecomposeSyllable(char).initial
    PROVE  /\ AddJamo(done, i) # <<>>
           /\ CompoundFinal(Last(AddJamo(done, i)))
<1> DEFINE before == Front(done)
           last == Last(done)
           d == DecomposeSyllable(last)
           f == GetCompoundFinal(d.final, i)
<1>1. done # <<>> /\ f # None
  BY DEF Joins
<1>2. before \in Seq(Syllables) /\ last \in Syllables /\ done = before \o <<last>>
  BY <1>1, FrontAndLast
<1>3. IsInitial(i) /\ IsJamo(i) /\ ~IsVowel(i)
  BY DecomposeThenCombine, InitialNoVowel DEF IsJamo
<1>4. IsInitial(d.initial) /\ IsVowel(d.vowel)
  BY <1>2, DecomposeThenCombine
<1>5. PICK q \in FinalPairs : q[1] = d.final /\ q[2] = i /\ q[3] = f
  BY <1>1, PairFound DEF GetCompoundFinal
<1>6. d.final # None
  BY <1>5, FinalComponents DEF IsFinal
<1>7. AddToSyllable(last, i) = CombineJamo(d.initial, d.vowel, f)
  BY <1>1, <1>3, <1>6 DEF AddToSyllable
<1>8. PICK half \in Syllables :
        /\ CombineJamo(d.initial, d.vowel, f) = <<half>>
        /\ DecomposeSyllable(half) = [initial |-> d.initial, vowel |-> d.vowel, final |-> f]
  BY <1>4, CompoundIsFinal, CombineThenDecompose
<1>9. Len(Split(f)) = 2
  <2>1. Split(f) = <<q[1], q[2]>>
    BY <1>5, SplitCompound DEF Pairs
  <2>2. QED BY <2>1
<1> HIDE DEF before, last, f
<1>10. AddJamo(done, i) = before \o <<half>>
  <2>1. before \in Seq(Chars)
    BY <1>2, SyllablesAreChars
  <2>2. AddJamo(before \o <<last>>, i) = before \o AddToSyllable(last, i)
    BY <1>2, <1>3, <2>1, AddAfterSyllable
  <2>3. QED BY <1>2, <1>7, <1>8, <2>2
<1>11. before \o <<half>> = Append(before, half)
  BY <1>2, AppendIsConcat
<1>12. Append(before, half) # <<>> /\ Last(Append(before, half)) = half
  BY <1>2, FrontLastOfAppend
<1>13. CompoundFinal(half)
  BY <1>8, <1>9, SyllableIsSyllable DEF CompoundFinal
<1>14. QED BY <1>10, <1>11, <1>12, <1>13

\* The next vowel takes strokes away, and no key brings them back.
LEMMA JoinLoses ==
    ASSUME NEW done \in Seq(Syllables), NEW char \in Syllables, Joins(done, char),
           NEW own \in BOOLEAN, NEW keys \in Seq(Playable), NEW result,
           Makes(done, KeyOf(own, char) \o keys, result)
    PROVE  Count(result) < Count(done) + Count(KeyOf(own, char) \o keys)
<1> DEFINE d == DecomposeSyllable(char)
           i == d.initial
           rest == FinalPart(d.final) \o keys
           s == AddJamo(done, i)
<1>1. /\ i \in Playable /\ rest \in Seq(Playable)
      /\ KeyOf(own, char) \o keys = <<i>> \o (VowelPart(own, d.vowel) \o rest)
  BY KeyParts
<1>2. IsVowel(d.vowel)
  BY DecomposeThenCombine
<1>3. s # <<>> /\ CompoundFinal(Last(s))
  BY Joined
<1> HIDE DEF d, rest
<1> DEFINE all == VowelPart(own, d.vowel) \o rest
           w == Head(all)
           more == Tail(all)
<1>4. /\ w \in Playable /\ more \in Seq(Playable) /\ IsVowel(w)
      /\ all = <<w>> \o more
  <2>1. all # <<>> /\ IsVowel(w)
    BY <1>1, <1>2, VowelNext
  <2>2. all \in Seq(Playable)
    BY <1>1, <1>2, VowelPartType, ConcatProperties
  <2> HIDE DEF all
  <2>3. QED BY <2>1, <2>2, HeadAndTail
<1> HIDE DEF w, more
<1>5. <<w>> \o more \in Seq(Playable) /\ <<w>> \in Seq(Playable) /\ <<i>> \in Seq(Playable)
  BY <1>1, <1>4, OneOrTwo, ConcatProperties
<1>6. Makes(s, <<w>> \o more, result)
  BY <1>1, <1>4, <1>5, MakesOne
<1>7. Makes(AddJamo(s, w), more, result)
  BY <1>4, <1>6, MakesOne
<1>8. done \in Seq(Chars)
  BY SyllablesAreChars
<1>9. s \in Seq(Chars) /\ Count(s) <= Count(done) + Count(<<i>>)
  BY <1>1, <1>8, AddBound
<1>10. AddJamo(s, w) \in Seq(Chars) /\ Count(AddJamo(s, w)) < Count(s) + Count(<<w>>)
  <2> HIDE DEF s
  <2>1. QED BY <1>3, <1>4, <1>9, AddBound
<1>11. result \in Seq(Chars) /\ Count(result) <= Count(AddJamo(s, w)) + Count(more)
  <2> HIDE DEF s
  <2>1. QED BY <1>4, <1>7, <1>10, MakesBound
<1> HIDE DEF i, s
<1>12. /\ <<i>> \in Seq(Chars) /\ <<w>> \in Seq(Chars) /\ more \in Seq(Chars)
       /\ <<w>> \o more \in Seq(Chars)
  <2>1. <<i>> \in Seq(Chars) /\ <<w>> \in Seq(Chars)
    BY <1>5, KeysAreTexts
  <2>2. more \in Seq(Chars)
    BY <1>4, KeysAreTexts
  <2>3. QED BY <2>1, <2>2, ConcatProperties
<1>13. Count(<<i>> \o (<<w>> \o more)) = Count(<<i>>) + (Count(<<w>>) + Count(more))
  BY <1>12, CountConcat
<1>14. /\ Count(done) \in Nat /\ Count(<<i>>) \in Nat /\ Count(<<w>>) \in Nat
       /\ Count(more) \in Nat /\ Count(s) \in Nat /\ Count(AddJamo(s, w)) \in Nat
       /\ Count(result) \in Nat
  BY <1>8, <1>9, <1>10, <1>11, <1>12, CountType
<1>15. Count(result) < Count(done) + Count(<<i>> \o (<<w>> \o more))
  BY <1>9, <1>10, <1>11, <1>13, <1>14, SMTT(30)
<1>16. QED BY <1>1, <1>4, <1>15

LEMMA NoClashYet ==
    ASSUME NEW done \in Seq(Syllables), NEW char \in Syllables, ~Clash(done), ~Joins(done, char)
    PROVE  ~Clash(done \o <<char>>)
<1> DEFINE word == Append(done, char)
           k == Len(done)
<1>1. done \o <<char>> = word
  BY AppendIsConcat
<1>2. /\ k \in Nat /\ Len(word) = k + 1 /\ word[k + 1] = char
      /\ \A n \in 1..k : word[n] = done[n]
  BY AppendProperties, LenProperties
<1> HIDE DEF word
<1>3. ASSUME NEW n \in 1..k
      PROVE  GetCompoundFinal(DecomposeSyllable(word[n]).final,
                              DecomposeSyllable(word[n + 1]).initial) = None
  <2>1. CASE n = k
    <3>1. done # <<>> /\ Last(done) = done[k]
      BY <1>2, <2>1, EmptySeq DEF Last
    <3>2. QED BY <1>2, <2>1, <3>1 DEF Joins
  <2>2. CASE n # k
    <3>1. n \in 1..(k - 1) /\ n + 1 \in 1..k
      BY <1>2, <2>2
    <3>2. word[n] = done[n] /\ word[n + 1] = done[n + 1]
      BY <1>2, <3>1
    <3>3. QED BY <3>1, <3>2 DEF Clash
  <2>3. QED BY <2>1, <2>2
<1>4. Len(word) - 1 = k
  BY <1>2
<1>5. QED BY <1>1, <1>3, <1>4 DEF Clash

LEMMA ClashNow ==
    ASSUME NEW done \in Seq(Syllables), NEW char \in Syllables, NEW rest \in Seq(Syllables),
           Joins(done, char)
    PROVE  Clash(done \o (<<char>> \o rest))
<1> DEFINE more == <<char>> \o rest
           word == done \o more
           k == Len(done)
<1>1. more \in Seq(Syllables) /\ Len(more) = Len(rest) + 1 /\ Len(rest) \in Nat /\ more[1] = char
  BY ConsProperties
<1>2. done # <<>> /\ k \in Nat /\ k # 0 /\ Last(done) = done[k]
  BY LenProperties, EmptySeq DEF Joins, Last
<1> HIDE DEF more, k
<1>3. /\ Len(word) = k + Len(more)
      /\ \A n \in 1 .. k + Len(more) : word[n] = IF n <= k THEN done[n] ELSE more[n - k]
  BY <1>1, ConcatProperties DEF k
<1> HIDE DEF word
<1>4. word[k] = done[k]
  <2>1. k \in 1 .. k + Len(more) /\ k <= k
    BY <1>1, <1>2
  <2>2. QED BY <1>3, <2>1
<1>5. word[k + 1] = char
  <2>1. k + 1 \in 1 .. k + Len(more) /\ ~(k + 1 <= k) /\ (k + 1) - k = 1
    BY <1>1, <1>2
  <2>2. QED BY <1>1, <1>3, <2>1
<1>6. k \in 1 .. Len(word) - 1
  BY <1>1, <1>2, <1>3
<1>7. GetCompoundFinal(DecomposeSyllable(word[k]).final,
                       DecomposeSyllable(word[k + 1]).initial) # None
  BY <1>2, <1>4, <1>5 DEF Joins
<1>8. Clash(word)
  BY <1>6, <1>7 DEF Clash
<1>9. QED BY <1>8 DEF word, more

LEMMA SyllablesAssociate ==
    ASSUME NEW x \in Seq(Syllables), NEW y \in Seq(Syllables), NEW z \in Seq(Syllables)
    PROVE  (x \o y) \o z = x \o (y \o z)
BY ConcatAssociative

\* The keys of a word make the word if and only if nothing in it clashes.
LEMMA KeysMakeWord ==
    ASSUME NEW own \in BOOLEAN, NEW word \in Seq(Syllables), NEW result,
           Makes(<<>>, AllKeys(own, word), result)
    PROVE  result = word <=> ~Clash(word)
<1> DEFINE Good(done, rest) ==
             ~Clash(done) =>
               \A r : Makes(done, AllKeys(own, rest), r)
                        => (r = done \o rest <=> ~Clash(done \o rest))
           T == {n \in Nat : \E done, rest \in Seq(Syllables) :
                               Len(rest) = n /\ ~Good(done, rest)}
<1>1. SUFFICES T = {}
  <2>1. <<>> \in Seq(Syllables) /\ Len(word) \in Nat /\ <<>> \o word = word
    BY LenProperties, ConcatEmptySeq
  <2>2. ~Clash(<<>>)
    BY DEF Clash
  <2>3. Good(<<>>, word)
    BY <1>1, <2>1
  <2>4. QED BY <2>1, <2>2, <2>3
<1>2. SUFFICES ASSUME T # {} PROVE FALSE
  OBVIOUS
<1>3. T \subseteq Nat
  OBVIOUS
<1>4. PICK n \in T : \A m \in T : n <= m
  BY <1>2, <1>3, LeastNumber
<1>5. PICK done \in Seq(Syllables), rest \in Seq(Syllables) : Len(rest) = n /\ ~Good(done, rest)
  OBVIOUS
<1>6. PICK r : /\ ~Clash(done) /\ Makes(done, AllKeys(own, rest), r)
               /\ ~(r = done \o rest <=> ~Clash(done \o rest))
  BY <1>5
<1>7. CASE rest = <<>>
  <2>1. r = done
    BY <1>6, <1>7, AllKeysNone, MakesNothing
  <2>2. done \o <<>> = done
    BY ConcatEmptySeq
  <2>3. QED BY <1>6, <1>7, <2>1, <2>2
<1>8. CASE rest # <<>>
  <2> DEFINE c == Head(rest)
             u == Tail(rest)
             next == done \o <<c>>
  <2>1. /\ c \in Syllables /\ u \in Seq(Syllables) /\ rest = <<c>> \o u
        /\ Len(u) = n - 1 /\ Len(u) \in Nat
    BY <1>5, <1>8, HeadAndTail
  <2> HIDE DEF c, u
  <2>2. AllKeys(own, rest) = KeyOf(own, c) \o AllKeys(own, u) /\ AllKeys(own, u) \in Seq(Playable)
    BY <2>1, AllKeysCons, AllKeysType
  <2>3. CASE Joins(done, c)
    <3>1. Clash(done \o rest)
      BY <2>1, <2>3, ClashNow
    <3>2. Count(r) < Count(done) + Count(AllKeys(own, rest))
      BY <1>6, <2>1, <2>2, <2>3, JoinLoses
    <3>3. Count(AllKeys(own, rest)) = Count(rest)
      BY <1>5, StrokesOfAllKeys DEF Count
    <3>4. done \in Seq(Chars) /\ rest \in Seq(Chars)
      BY <1>5, SyllablesAreChars
    <3>5. Count(done \o rest) = Count(done) + Count(rest)
      BY <3>4, CountConcat
    <3>6. Count(done \o rest) \in Nat
      BY <3>4, CountType, ConcatProperties
    <3>7. r # done \o rest
      <4> SUFFICES ASSUME r = done \o rest PROVE FALSE
        OBVIOUS
      <4>1. Count(done \o rest) < Count(done \o rest)
        BY <3>2, <3>3, <3>5
      <4>2. QED BY <3>6, <4>1
    <3>8. QED BY <1>6, <3>1, <3>7
  <2>4. CASE ~Joins(done, c)
    <3>1. Makes(next, AllKeys(own, u), r)
      BY <1>6, <2>1, <2>2, <2>4, SyllableTyped
    <3>2. ~Clash(next)
      BY <1>6, <2>1, <2>4, NoClashYet
    <3>3. <<c>> \in Seq(Syllables) /\ next \in Seq(Syllables)
      <4>1. <<c>> \in Seq(Syllables)
        BY <2>1
      <4>2. QED BY <4>1, ConcatProperties
    <3>4. next \o u = done \o rest
      <4> DEFINE l == <<c>>
      <4>1. done \in Seq(Syllables) /\ l \in Seq(Syllables) /\ u \in Seq(Syllables)
        BY <2>1, <3>3
      <4> HIDE DEF l
      <4>2. (done \o l) \o u = done \o (l \o u)
        BY ONLY <4>1, SyllablesAssociate, ZenonT(60)
      <4>3. QED BY <2>1, <4>2 DEF l
    <3> HIDE DEF next
    <3>5. Good(next, u)
      <4>1. n \in Nat
        BY <1>3, <1>4
      <4>2. ~(n <= Len(u))
        BY <2>1, <4>1
      <4>3. Len(u) \notin T
        BY <1>4, <4>2
      <4>4. QED BY <2>1, <3>3, <4>3
    <3>6. r = next \o u <=> ~Clash(next \o u)
      BY <3>1, <3>2, <3>5
    <3>7. QED BY <1>6, <3>4, <3>6
  <2>5. QED BY <2>3, <2>4
<1>9. QED BY <1>7, <1>8

----------------------------------------------------------------------------
(* The learner's word.                                                     *)

\* What is left of the plan makes of the text the word, unless the word clashes.
PlanMakesWord ==
    /\ target \in Seq(Syllables)
    /\ plan \in Seq(Playable)
    /\ \A result : Makes(text, plan, result) => (result = target <=> ~Clash(target))

LEMMA PlanInit == TypingInit => PlanMakesWord
<1> SUFFICES ASSUME TypingInit PROVE PlanMakesWord
  OBVIOUS
<1>1. text = <<>> /\ target \in Seq(Syllables) /\ plan \in Plans(target)
  BY TargetsAssumption DEF TypingInit, Init
<1>2. PICK own \in BOOLEAN : plan = AllKeys(own, target)
  BY <1>1, PlanIsAllKeys
<1>3. plan \in Seq(Playable)
  BY <1>1, <1>2, AllKeysType
<1>4. QED BY <1>1, <1>2, <1>3, KeysMakeWord DEF PlanMakesWord

LEMMA PlanStep == PlanMakesWord /\ [TypingNext]_typingVars => PlanMakesWord'
<1> SUFFICES ASSUME PlanMakesWord, [TypingNext]_typingVars PROVE PlanMakesWord'
  OBVIOUS
<1>1. CASE TypeNext
  <2>1. /\ plan # <<>> /\ text' = AddJamo(text, Head(plan)) /\ plan' = Tail(plan)
        /\ target' = target
    BY <1>1 DEF TypeNext, PressKey
  <2>2. Head(plan) \in Playable /\ Tail(plan) \in Seq(Playable)
        /\ plan = <<Head(plan)>> \o Tail(plan)
    BY <2>1, HeadAndTail DEF PlanMakesWord
  <2>3. ASSUME NEW result, Makes(text', plan', result)
        PROVE  result = target <=> ~Clash(target)
    <3>1. Makes(AddJamo(text, Head(plan)), Tail(plan), result)
      BY <2>1, <2>3
    <3>2. Makes(text, <<Head(plan)>> \o Tail(plan), result)
      BY ONLY <2>2, <3>1, MakesFirst
    <3>3. QED BY <2>2, <3>2 DEF PlanMakesWord
  <2>4. QED BY <2>1, <2>2, <2>3 DEF PlanMakesWord
<1>2. CASE TypeShift
  BY <1>2 DEF TypeShift, PressShift, PlanMakesWord
<1>3. CASE UNCHANGED typingVars
  BY <1>3 DEF typingVars, vars, PlanMakesWord
<1>4. QED BY <1>1, <1>2, <1>3 DEF TypingNext

LEMMA PlanDone == PlanMakesWord => WordTyped
<1> SUFFICES ASSUME PlanMakesWord, plan = <<>> PROVE text = target <=> ~Clash(target)
  BY DEF WordTyped
<1>1. Makes(text, <<>>, text)
  BY MakesNothing
<1>2. QED BY <1>1 DEF PlanMakesWord

\* A word of any length, typed without a mistake, is the word on the screen exactly
\* when no final consonant in it clashes with the initial after it (what App.tsx:47
\* compares): the clash itself is lost by lines 171-181 of the composer.
THEOREM WordComesOut == TypingSpec => []WordTyped
<1>1. TypingSpec => []PlanMakesWord
  BY PlanInit, PlanStep, PTL DEF TypingSpec
<1>2. QED BY <1>1, PlanDone, PTL
=============================================================================
