------------------------ MODULE TypingSessionProofs ------------------------
(***************************************************************************)
(* Theorems about TypingSession, for any vocabulary sets, words, page size *)
(* of at least two, number of failing reads, and number of taps and swipes *)
(* between two renders.                                                    *)
(***************************************************************************)
EXTENDS TypingSession, SequenceTheorems, TLAPS

\* Which set a page that is on its way belongs to.
SetInv ==
    /\ ~reload => state.set = shown.set
    /\ shown.page = "typing" => shown.set \in Sets
    /\ state.page = "typing" => state.set \in Sets
    /\ micro # <<>> => ~reload /\ shown.set \in Sets

\* A session begins from the home page, when no page is on its way.
StartInv ==
    /\ reload => /\ sync /\ shown.page = "home" /\ state.page = "typing"
                 /\ state.words = <<>> /\ state.index = 0
    /\ task /\ shown.page = "home" => micro = <<>>

\* How far the state may be ahead of the screen.
AheadInv ==
    /\ shown.page = "typing" => Len(shown.words) <= Len(state.words)
    /\ ~reload => state.index \in {shown.index, shown.index + 1}

\* A page of the first kind comes alone, before any tap; one of the second kind moves
\* one word on from the screen on which it was asked for, and to a word there is.
LoadEntry(c) ==
    /\ Len(micro) = 1 /\ ~task /\ ~sync
    /\ state.words = <<>> /\ shown.words = <<>>
    /\ state.index = 0 /\ shown.index = 0
MoveEntry(c) ==
    /\ c.index \in {shown.index, shown.index + 1}
    /\ task \/ sync => c.index = shown.index + 1
    /\ c.words # <<>> => c.index < Len(state.words) + Len(c.words)
EntryInv(c) ==
    /\ Ran(c.words) \subseteq Ran(table[shown.set])
    /\ c.kind = "load" => LoadEntry(c)
    /\ c.kind = "move" => MoveEntry(c)
MicroInv == \A i \in 1..Len(micro) : EntryInv(micro[i])

IInv == /\ TypeOK /\ OwnWords /\ CurrentWordExists
        /\ SetInv /\ StartInv /\ AheadInv /\ MicroInv

----------------------------------------------------------------------------
\* A slice that ends within the sequence.
LEMMA Slice ==
    ASSUME NEW S, NEW s \in Seq(S), NEW m \in Nat \ {0}, NEW n \in Nat, n <= Len(s)
    PROVE  /\ SubSeq(s, m, n) \in Seq(S)
           /\ Len(SubSeq(s, m, n)) = IF m <= n THEN n - m + 1 ELSE 0
           /\ \A i \in 1..Len(SubSeq(s, m, n)) : SubSeq(s, m, n)[i] = s[m + i - 1]
<1>1. m \in Int /\ n \in Int /\ Len(s) \in Nat
  BY LenProperties
<1>2. \A i \in m..n : s[i] \in S
  BY <1>1, ElementOfSeq
<1> QED
  BY <1>1, <1>2, SubSeqProperties

\* The words of a page are words of the set.
LEMMA SliceRan ==
    ASSUME NEW S, NEW s \in Seq(S), NEW m \in Nat \ {0}, NEW n \in Nat, n <= Len(s)
    PROVE  Ran(SubSeq(s, m, n)) \subseteq Ran(s)
<1>1. /\ Len(s) \in Nat /\ DOMAIN s = 1..Len(s)
      /\ DOMAIN SubSeq(s, m, n) = 1..Len(SubSeq(s, m, n))
  BY Slice, LenProperties
<1>2. SUFFICES ASSUME NEW i \in 1..Len(SubSeq(s, m, n))
               PROVE  m + i - 1 \in 1..Len(s)
  BY <1>1, <1>2, Slice DEF Ran
<1> QED
  BY <1>1, Slice

\* What getWordsBatch can answer: words of the set; a first page that is not empty
\* has at least two words.
LEMMA PageRead ==
    ASSUME TypeOK, NEW set \in Sets, NEW offset \in Nat, NEW words \in Answers(offset, set)
    PROVE  /\ words \in Seq(Words)
           /\ Ran(words) \subseteq Ran(table[set])
           /\ offset = 0 /\ words # <<>> => Len(words) > 1
<1> DEFINE all  == table[set]
           last == IF offset + BATCH_SIZE < Len(all) THEN offset + BATCH_SIZE ELSE Len(all)
           page == SubSeq(all, offset + 1, last)
<1>1. all \in Seq(Words) /\ BATCH_SIZE \in Nat /\ BATCH_SIZE > 1 /\ Len(all) # 1
  BY SessionAssumption DEF TypeOK
<1>2. words = page \/ words = <<>>
  BY DEF GetWordsBatch, Answers
<1>3. Len(all) \in Nat /\ offset + 1 \in Nat \ {0} /\ last \in Nat /\ last <= Len(all)
  BY <1>1, LenProperties
<1>4. /\ page \in Seq(Words)
      /\ Len(page) = IF offset + 1 <= last THEN last - (offset + 1) + 1 ELSE 0
      /\ Ran(page) \subseteq Ran(all)
  <2> HIDE DEF last, all
  <2> QED
    BY <1>1, <1>3, Slice, SliceRan
<1>5. offset = 0 /\ page # <<>> => Len(page) > 1
  <2>1. offset = 0 => Len(page) = last
    BY <1>3, <1>4
  <2>2. page # <<>> => Len(page) # 0
    BY <1>4, EmptySeq
  <2>3. last # 1
    BY <1>1, <1>3
  <2> HIDE DEF page, last
  <2> QED
    BY <2>1, <2>2, <2>3, <1>3
<1>6. <<>> \in Seq(Words) /\ Ran(<<>>) = {}
  BY DEF Ran
<1> QED
  BY <1>2, <1>4, <1>5, <1>6

----------------------------------------------------------------------------
LEMMA InitHolds == Init => IInv
<1> SUFFICES ASSUME Init PROVE IInv
  OBVIOUS
<1>1. /\ InitialView \in View /\ InitialView.words = <<>> /\ InitialView.index = 0
      /\ InitialView.page = "home"
  BY DEF InitialView, View, Texts
<1>2. <<>> \in Seq(Continuations) /\ Len(<<>>) = 0
  OBVIOUS
<1>3. TypeOK
  <2>1. events \in 0..MaxEvents /\ faults \in 0..MaxFaults /\ table \in Tables
    BY SessionAssumption DEF Init
  <2>2. state \in View /\ shown \in View /\ micro \in Seq(Continuations)
    BY <1>1, <1>2 DEF Init
  <2> QED
    BY <2>1, <2>2 DEF Init, TypeOK
<1>4. OwnWords /\ CurrentWordExists
  BY <1>1 DEF Init, OwnWords, CurrentWordExists
<1>5. SetInv /\ StartInv /\ AheadInv
  BY <1>1, <1>2 DEF Init, SetInv, StartInv, AheadInv
<1>6. MicroInv
  BY <1>2 DEF Init, MicroInv
<1> QED
  BY <1>3, <1>4, <1>5, <1>6 DEF IInv

LEMMA SomeElement == ASSUME NEW s, NEW i \in 1..Len(s) PROVE s # <<>>
  OBVIOUS

LEMMA ElementAt == ASSUME NEW S, NEW s \in Seq(S), NEW i \in Nat, i < Len(s)
                   PROVE  s[i + 1] \in S
<1>1. Len(s) \in Nat
  BY LenProperties
<1>2. i + 1 \in 1..Len(s)
  BY <1>1
<1> QED
  BY <1>2, ElementOfSeq

LEMMA TargetIsText == ASSUME NEW view \in View PROVE targetWord(view) \in Texts
<1>1. view.words \in Seq(Words) /\ view.index \in Nat
  BY DEF View
<1>2. CASE view.index < Len(view.words)
  <2>1. view.words[view.index + 1] \in Words
    BY <1>1, <1>2, ElementAt
  <2> QED
    BY <1>2, <2>1, SessionAssumption DEF targetWord, currentWord, Texts
<1>3. CASE ~(view.index < Len(view.words))
  BY <1>3 DEF targetWord, currentWord, Texts
<1> QED
  BY <1>2, <1>3

LEMMA EventCounted == TypeOK /\ Event => events' \in 0..MaxEvents
  BY SessionAssumption DEF TypeOK, Event

LEMMA EndOfTaskHolds == IInv /\ EndOfTask => IInv'
<1> SUFFICES ASSUME IInv, EndOfTask PROVE IInv'
  OBVIOUS
<1> USE DEF IInv, EndOfTask
<1>1. TypeOK'
  BY DEF TypeOK
<1>2. OwnWords' /\ CurrentWordExists'
  BY DEF OwnWords, CurrentWordExists
<1>3. SetInv' /\ StartInv' /\ AheadInv'
  BY DEF SetInv, StartInv, AheadInv
<1>4. MicroInv'
  <2> SUFFICES ASSUME NEW i \in 1..Len(micro) PROVE EntryInv(micro[i])'
    BY DEF MicroInv
  <2>1. EntryInv(micro[i])
    BY DEF MicroInv
  <2> QED
    BY <2>1 DEF EntryInv, LoadEntry, MoveEntry
<1> QED
  BY <1>1, <1>2, <1>3, <1>4

LEMMA TapHomeHolds == IInv /\ TapHome => IInv'
<1> SUFFICES ASSUME IInv, TapHome PROVE IInv'
  OBVIOUS
<1> USE DEF IInv, TapHome, Tap, Event
<1>1. TypeOK'
  <2>1. state' \in View
    BY DEF TypeOK, View
  <2> QED
    BY <2>1, EventCounted DEF TypeOK
<1>2. state'.words = state.words /\ state'.index = state.index /\ state'.set = state.set
      /\ state'.page = "home"
  BY DEF TypeOK, View
<1>3. OwnWords' /\ CurrentWordExists'
  BY <1>2 DEF OwnWords, CurrentWordExists
<1>4. SetInv' /\ StartInv' /\ AheadInv'
  BY <1>2 DEF SetInv, StartInv, AheadInv
<1>5. MicroInv'
  <2> SUFFICES ASSUME NEW i \in 1..Len(micro) PROVE EntryInv(micro[i])'
    BY DEF MicroInv
  <2>1. EntryInv(micro[i])
    BY DEF MicroInv
  <2>2. micro # <<>>
    OBVIOUS
  <2> QED
    BY <1>2, <2>1, <2>2 DEF EntryInv, LoadEntry, MoveEntry, Idle
<1> QED
  BY <1>1, <1>3, <1>4, <1>5

LEMMA TapKeyHolds == IInv /\ TapKey => IInv'
<1> SUFFICES ASSUME IInv, TapKey PROVE IInv'
  OBVIOUS
<1> USE DEF IInv, TapKey, Tap, Event
<1>1. PICK text \in {"", "unfinished", targetWord(shown), targetWord(state)} :
          state' = [state EXCEPT !.text = text]
  OBVIOUS
<1>2. text \in Texts
  BY <1>1, TargetIsText DEF TypeOK, Texts
<1>3. TypeOK'
  <2>1. state' \in View
    BY <1>1, <1>2 DEF TypeOK, View
  <2> QED
    BY <2>1, EventCounted DEF TypeOK
<1>4. state'.words = state.words /\ state'.index = state.index /\ state'.set = state.set
      /\ state'.page = state.page
  BY <1>1 DEF TypeOK, View
<1>5. OwnWords' /\ CurrentWordExists'
  BY <1>4 DEF OwnWords, CurrentWordExists
<1>6. SetInv' /\ StartInv' /\ AheadInv'
  BY <1>4 DEF SetInv, StartInv, AheadInv
<1>7. MicroInv'
  <2> SUFFICES ASSUME NEW i \in 1..Len(micro) PROVE EntryInv(micro[i])'
    BY DEF MicroInv
  <2>1. EntryInv(micro[i])
    BY DEF MicroInv
  <2>2. micro # <<>>
    BY SomeElement
  <2> QED
    BY <1>4, <2>1, <2>2 DEF EntryInv, LoadEntry, MoveEntry, Idle
<1> QED
  BY <1>3, <1>5, <1>6, <1>7

LEMMA StartTypingHolds ==
    ASSUME IInv, NEW set \in Sets, StartTyping(set) PROVE IInv'
<1> USE DEF IInv, StartTyping, Tap, Event
<1>1. TypeOK'
  <2>1. state' \in View
    <3>1. state' = [page |-> "typing", set |-> set, index |-> 0, words |-> <<>>,
                    isLoading |-> TRUE, text |-> ""]
      OBVIOUS
    <3>2. <<>> \in Seq(Words)
      BY ONLY EmptySeq
    <3>3. "" \in Texts
      BY ONLY DEF Texts
    <3> QED
      BY ONLY <3>1, <3>2, <3>3, set \in Sets DEF View
  <2> QED
    BY <2>1, EventCounted DEF TypeOK
<1>2. micro = <<>> /\ Len(micro) = 0
  BY DEF StartInv, Idle
<1>3. OwnWords' /\ CurrentWordExists'
  <2>1. state'.words = <<>> /\ state'.index = 0
    OBVIOUS
  <2> QED
    BY <2>1 DEF OwnWords, CurrentWordExists
<1>4. SetInv' /\ StartInv' /\ AheadInv'
  BY <1>2 DEF SetInv, StartInv, AheadInv
<1>5. MicroInv'
  <2>1. micro' = micro
    OBVIOUS
  <2> QED
    BY ONLY <1>2, <2>1 DEF MicroInv
<1> QED
  BY <1>1, <1>3, <1>4, <1>5

----------------------------------------------------------------------------
LEMMA EntryOf ==
    ASSUME NEW S, NEW m \in Seq(S), NEW c \in S, NEW i \in 1..Len(Append(m, c))
    PROVE  \/ Append(m, c)[i] = c
           \/ i \in 1..Len(m) /\ Append(m, c)[i] = m[i]
<1>1. Len(m) \in Nat
  BY LenProperties
<1> QED
  BY <1>1, AppendProperties

LEMMA AwaitAdds ==
    ASSUME TypeOK, NEW set \in Sets, NEW offset \in Nat, NEW kind \in {"load", "move"},
           NEW index \in Nat, Await(offset, set, kind, index)
    PROVE  \E words \in Seq(Words) :
              /\ micro' = Append(micro, [kind |-> kind, words |-> words, index |-> index])
              /\ [kind |-> kind, words |-> words, index |-> index] \in Continuations
              /\ micro' \in Seq(Continuations)
              /\ faults' \in 0..MaxFaults
              /\ Ran(words) \subseteq Ran(table[set])
              /\ offset = 0 /\ words # <<>> => Len(words) > 1
<1>1. PICK words \in Answers(offset, set) :
         /\ micro' = Append(micro, [kind |-> kind, words |-> words, index |-> index])
         /\ faults' = IF words = GetWordsBatch(offset, set) THEN faults ELSE faults + 1
  BY DEF Await
<1>2. /\ words \in Seq(Words)
      /\ Ran(words) \subseteq Ran(table[set])
      /\ offset = 0 /\ words # <<>> => Len(words) > 1
  BY PageRead
<1>3. [kind |-> kind, words |-> words, index |-> index] \in Continuations
  BY ONLY <1>2, kind \in {"load", "move"}, index \in Nat DEF Continuations
<1>4. micro' \in Seq(Continuations)
  <2>1. micro \in Seq(Continuations)
    BY DEF TypeOK
  <2> QED
    BY ONLY <1>1, <1>3, <2>1, AppendProperties
<1>5. faults' \in 0..MaxFaults
  <2>1. words = GetWordsBatch(offset, set) \/ faults < MaxFaults
    BY DEF Answers
  <2>2. faults \in 0..MaxFaults /\ MaxFaults \in Nat
    BY SessionAssumption DEF TypeOK
  <2> QED
    BY <1>1, <2>1, <2>2
<1> QED
  BY <1>1, <1>2, <1>3, <1>4, <1>5

LEMMA LengthsAreNat ==
    ASSUME TypeOK
    PROVE  /\ state.words \in Seq(Words) /\ shown.words \in Seq(Words)
           /\ Len(state.words) \in Nat /\ Len(shown.words) \in Nat
           /\ state.index \in Nat /\ shown.index \in Nat
<1>1. /\ state.words \in Seq(Words) /\ shown.words \in Seq(Words)
      /\ state.index \in Nat /\ shown.index \in Nat
  BY DEF TypeOK, View
<1> QED
  BY <1>1, LenProperties

\* handleSkip or handleNext, begun by a tap or by a swipe.
LEMMA MoveOnHolds ==
    ASSUME IInv, NEW rendered \in BOOLEAN, MoveOn(rendered), shown.page = "typing",
           \/ (task \/ Idle) /\ task' = TRUE
           \/ Idle /\ task' = task,
           events' \in 0..MaxEvents, UNCHANGED <<table, shown, reload>>
    PROVE  IInv'
<1> USE DEF IInv
<1> DEFINE k == shown.index + 1
<1>1. ~reload /\ shown.set \in Sets /\ state.set = shown.set
  BY DEF StartInv, SetInv
<1>2. /\ Len(state.words) \in Nat /\ Len(shown.words) \in Nat
      /\ state.index \in Nat /\ shown.index \in Nat /\ k \in Nat
  BY LengthsAreNat
<1>3. Len(shown.words) <= Len(state.words)
  BY DEF AheadInv
<1>4. ASSUME NEW i \in 1..Len(micro)
      PROVE  /\ EntryInv(micro[i]) /\ micro[i].kind # "load"
             /\ micro[i].kind = "move" => micro[i].index = k
  <2>1. EntryInv(micro[i]) /\ micro # <<>>
    BY SomeElement DEF MicroInv
  <2>2. task
    BY <2>1 DEF Idle
  <2> QED
    BY <2>1, <2>2 DEF EntryInv, LoadEntry, MoveEntry
<1>5. CASE k >= Len(shown.words)
  <2>1. Await(Len(shown.words), shown.set, "move", k) /\ UNCHANGED <<state, sync>>
    BY <1>5 DEF MoveOn
  <2>2. PICK words \in Seq(Words) :
              /\ micro' = Append(micro, [kind |-> "move", words |-> words, index |-> k])
              /\ [kind |-> "move", words |-> words, index |-> k] \in Continuations
              /\ micro' \in Seq(Continuations)
              /\ faults' \in 0..MaxFaults
              /\ Ran(words) \subseteq Ran(table[shown.set])
              /\ Len(shown.words) = 0 /\ words # <<>> => Len(words) > 1
    <3> HIDE DEF k
    <3> QED
      BY <1>1, <1>2, <2>1, AwaitAdds
  <2> DEFINE c == [kind |-> "move", words |-> words, index |-> k]
  <2>3. TypeOK'
    BY <2>1, <2>2 DEF TypeOK
  <2>4. OwnWords' /\ CurrentWordExists'
    BY <2>1 DEF OwnWords, CurrentWordExists
  <2>5. SetInv' /\ StartInv' /\ AheadInv'
    BY <1>1, <2>1 DEF SetInv, StartInv, AheadInv
  <2>6. words # <<>> => k < Len(state.words) + Len(words)
    <3>1. Len(words) \in Nat /\ (words # <<>> => Len(words) # 0)
      BY LenProperties, EmptySeq
    <3>2. shown.index < Len(shown.words) \/ shown.index = 0
      BY DEF CurrentWordExists
    <3> QED
      BY <1>2, <1>3, <2>2, <3>1, <3>2, SMTT(30)
  <2>7. MicroInv'
    <3> SUFFICES ASSUME NEW i \in 1..Len(micro') PROVE EntryInv(micro[i])'
      BY DEF MicroInv
    <3>1. CASE micro'[i] = c
      <4>1. c.kind = "move" /\ c.words = words /\ c.index = k
        OBVIOUS
      <4> HIDE DEF c, k
      <4> QED
        BY <1>1, <2>1, <2>2, <2>6, <3>1, <4>1 DEF EntryInv, MoveEntry, k
    <3>2. CASE i \in 1..Len(micro) /\ micro'[i] = micro[i]
      <4>1. EntryInv(micro[i]) /\ micro[i].kind # "load"
            /\ (micro[i].kind = "move" => micro[i].index = k)
        BY <1>4, <3>2
      <4> QED
        BY <2>1, <3>2, <4>1 DEF EntryInv, MoveEntry
    <3>3. micro \in Seq(Continuations) /\ c \in Continuations /\ micro' = Append(micro, c)
      BY <2>2 DEF TypeOK
    <3> HIDE DEF c
    <3> QED
      BY <3>1, <3>2, <3>3, EntryOf
  <2> QED
    BY <2>3, <2>4, <2>5, <2>7
<1>6. CASE ~(k >= Len(shown.words))
  <2>1. /\ state' = [state EXCEPT !.index = k, !.text = ""]
        /\ sync' = (sync \/ rendered)
        /\ UNCHANGED <<micro, faults>>
    BY <1>6 DEF MoveOn
  <2>2. /\ state' \in View /\ state'.index = k
        /\ state'.words = state.words /\ state'.set = state.set /\ state'.page = state.page
    BY <1>2, <2>1 DEF TypeOK, View, Texts
  <2>3. k < Len(state.words)
    BY <1>2, <1>3, <1>6
  <2>4. TypeOK'
    BY <2>1, <2>2 DEF TypeOK
  <2>5. OwnWords' /\ CurrentWordExists'
    BY <2>2, <2>3 DEF OwnWords, CurrentWordExists
  <2>6. SetInv' /\ StartInv' /\ AheadInv'
    BY <1>1, <2>1, <2>2 DEF SetInv, StartInv, AheadInv
  <2>7. MicroInv'
    <3> SUFFICES ASSUME NEW i \in 1..Len(micro) PROVE EntryInv(micro[i])'
      BY <2>1 DEF MicroInv
    <3> QED
      BY <1>4, <2>1, <2>2 DEF EntryInv, MoveEntry
  <2> QED
    BY <2>4, <2>5, <2>6, <2>7
<1> QED
  BY <1>5, <1>6

LEMMA TapSkipHolds == IInv /\ TapSkip => IInv'
  BY MoveOnHolds, EventCounted DEF IInv, TapSkip, Tap

LEMMA TapNextHolds == IInv /\ TapNext => IInv'
  BY MoveOnHolds, EventCounted DEF IInv, TapNext, Tap

LEMMA SwipeHolds == IInv /\ Swipe => IInv'
  BY MoveOnHolds, EventCounted DEF IInv, Swipe

----------------------------------------------------------------------------
LEMMA RanConcat ==
    ASSUME NEW S, NEW s \in Seq(S), NEW t \in Seq(S)
    PROVE  Ran(s \o t) \subseteq Ran(s) \cup Ran(t)
<1>1. /\ Len(s) \in Nat /\ Len(t) \in Nat
      /\ DOMAIN s = 1..Len(s) /\ DOMAIN t = 1..Len(t)
      /\ s \o t \in Seq(S) /\ Len(s \o t) = Len(s) + Len(t)
  BY LenProperties, ConcatProperties
<1>2. DOMAIN (s \o t) = 1..(Len(s) + Len(t))
  BY <1>1, LenProperties
<1>3. SUFFICES ASSUME NEW i \in 1..(Len(s) + Len(t))
               PROVE  (s \o t)[i] \in Ran(s) \cup Ran(t)
  BY <1>2 DEF Ran
<1>4. CASE i <= Len(s)
  <2>1. i \in DOMAIN s /\ (s \o t)[i] = s[i]
    BY <1>1, <1>4, ConcatProperties
  <2> QED
    BY <2>1 DEF Ran
<1>5. CASE ~(i <= Len(s))
  <2>1. i - Len(s) \in DOMAIN t /\ (s \o t)[i] = t[i - Len(s)]
    BY <1>1, <1>5, ConcatProperties
  <2> QED
    BY <2>1 DEF Ran
<1> QED
  BY <1>4, <1>5

LEMMA Longer ==
    \A before, after, page, n \in Nat :
        /\ before + page \in Nat
        /\ after = before + page => before <= after /\ (n <= before => n <= after)
        /\ before <= after /\ n < before + page => n < after + page
  OBVIOUS

LEMMA ResumeHolds == IInv /\ Resume => IInv'
<1> SUFFICES ASSUME IInv, Resume PROVE IInv'
  OBVIOUS
<1> USE DEF IInv
<1> DEFINE c == Head(micro)
<1>1. /\ ~task /\ micro # <<>> /\ micro' = Tail(micro)
      /\ state' = IF c.kind = "load" THEN AfterLoad(c) ELSE AfterMove(c)
      /\ UNCHANGED <<table, shown, reload, sync, task, events, faults>>
  BY DEF Resume
<1>2. /\ micro \in Seq(Continuations) /\ Len(micro) \in Nat \ {0}
      /\ c \in Continuations /\ c = micro[1]
      /\ Tail(micro) \in Seq(Continuations) /\ Len(Tail(micro)) = Len(micro) - 1
      /\ \A i \in 1..Len(Tail(micro)) : Tail(micro)[i] = micro[i + 1]
  <2>1. micro \in Seq(Continuations)
    BY DEF TypeOK
  <2> QED
    BY <1>1, <2>1, HeadTailProperties, EmptySeq
<1>3. /\ c.words \in Seq(Words) /\ Len(c.words) \in Nat /\ c.index \in Nat
      /\ c.kind \in {"load", "move"} /\ (c.words # <<>> => Len(c.words) # 0)
  <2>1. c.words \in Seq(Words) /\ c.index \in Nat /\ c.kind \in {"load", "move"}
    BY <1>2 DEF Continuations
  <2> QED
    BY ONLY <2>1, LenProperties, EmptySeq
<1>4. EntryInv(c)
  BY <1>2 DEF MicroInv
<1>5. ~reload /\ shown.set \in Sets /\ state.set = shown.set
  BY <1>1 DEF SetInv
<1>6. /\ Len(state.words) \in Nat /\ Len(shown.words) \in Nat
      /\ state.words \in Seq(Words) /\ state.index \in Nat /\ shown.index \in Nat
  BY LengthsAreNat
<1> HIDE DEF c
<1>7. /\ state' \in View /\ state'.set = state.set /\ state'.page = state.page
      /\ state'.words # <<>> => Ran(state'.words) \subseteq Ran(table[shown.set])
      /\ state'.index < Len(state'.words) \/ state'.index = 0
      /\ shown.page = "typing" => Len(shown.words) <= Len(state'.words)
      /\ state'.index \in {shown.index, shown.index + 1}
      /\ c.kind = "move" =>
            Len(state'.words) \in Nat /\ Len(state.words) <= Len(state'.words)
  <2>1. CASE c.kind = "load"
    <3>1. /\ state' \in View /\ state'.set = state.set /\ state'.page = state.page
          /\ state'.words = c.words /\ state'.index = 0
      BY <1>1, <1>3, <2>1 DEF AfterLoad, TypeOK, View, Texts
    <3>2. shown.words = <<>> /\ shown.index = 0 /\ Len(<<>>) = 0
      BY <1>4, <2>1, EmptySeq DEF EntryInv, LoadEntry
    <3> QED
      BY <1>3, <1>4, <2>1, <3>1, <3>2 DEF EntryInv
  <2>2. CASE c.kind = "move" /\ c.words = <<>>
    <3>1. state' = state
      BY <1>1, <2>2 DEF AfterMove
    <3> QED
      BY <1>5, <1>6, <2>2, <3>1 DEF TypeOK, OwnWords, CurrentWordExists, AheadInv
  <2>3. CASE c.kind = "move" /\ c.words # <<>>
    <3>1. /\ state.words \o c.words \in Seq(Words)
          /\ Len(state.words \o c.words) = Len(state.words) + Len(c.words)
          /\ Ran(state.words \o c.words) \subseteq Ran(state.words) \cup Ran(c.words)
      BY <1>3, <1>6, ConcatProperties, RanConcat
    <3>2. /\ state' \in View /\ state'.set = state.set /\ state'.page = state.page
          /\ state'.words = state.words \o c.words /\ state'.index = c.index
      BY <1>1, <1>3, <2>3, <3>1 DEF AfterMove, TypeOK, View, Texts
    <3>3. Ran(state.words) \subseteq Ran(table[shown.set])
      <4>1. Ran(<<>>) = {}
        BY DEF Ran
      <4> QED
        BY <1>5, <4>1 DEF OwnWords
    <3>4. /\ c.index \in {shown.index, shown.index + 1}
          /\ c.index < Len(state.words) + Len(c.words)
          /\ Ran(c.words) \subseteq Ran(table[shown.set])
      BY <1>4, <2>3 DEF EntryInv, MoveEntry
    <3>5. shown.page = "typing" => Len(shown.words) <= Len(state.words)
      BY DEF AheadInv
    <3>6. Len(state'.words) = Len(state.words) + Len(c.words)
      BY <3>1, <3>2
    <3>7. /\ Len(state'.words) \in Nat /\ Len(state.words) <= Len(state'.words)
          /\ shown.page = "typing" => Len(shown.words) <= Len(state'.words)
      <4>1. Len(state.words) + Len(c.words) \in Nat
        <5>1. Len(state.words) \in Nat /\ Len(c.words) \in Nat
          BY <1>3, <1>6
        <5> QED
          BY ONLY <5>1, Longer
      <4>2. Len(state'.words) \in Nat
        BY ONLY <4>1, <3>6
      <4> QED
        BY ONLY <1>3, <1>6, <3>5, <3>6, <4>2, Longer
    <3>8. Ran(state'.words) \subseteq Ran(table[shown.set])
      BY <3>1, <3>2, <3>3, <3>4
    <3> QED
      BY <3>2, <3>4, <3>6, <3>7, <3>8
  <2> QED
    BY <1>3, <2>1, <2>2, <2>3
<1>8. TypeOK'
  BY <1>1, <1>2, <1>7 DEF TypeOK
<1>9. OwnWords' /\ CurrentWordExists'
  BY <1>1, <1>5, <1>7 DEF OwnWords, CurrentWordExists
<1>10. SetInv' /\ StartInv' /\ AheadInv'
  BY <1>1, <1>5, <1>7 DEF SetInv, StartInv, AheadInv
<1>11. MicroInv'
  <2> SUFFICES ASSUME NEW i \in 1..Len(micro') PROVE EntryInv(micro[i])'
    BY DEF MicroInv
  <2>1. i + 1 \in 1..Len(micro) /\ i \in 1..Len(Tail(micro)) /\ Len(micro) # 1
    BY <1>1, <1>2
  <2>2. EntryInv(micro[i + 1]) /\ micro[i + 1] \in Continuations /\ micro'[i] = micro[i + 1]
    BY <1>1, <1>2, <2>1, ElementOfSeq DEF MicroInv
  <2> DEFINE e == micro[i + 1]
  <2>3. e.kind # "load" /\ c.kind = "move" /\ Len(e.words) \in Nat /\ e.index \in Nat
    <3>1. e.words \in Seq(Words) /\ e.index \in Nat
      BY <2>2 DEF Continuations
    <3>2. e.kind # "load" /\ c.kind = "move"
      BY <1>3, <1>4, <2>1, <2>2 DEF EntryInv, LoadEntry
    <3> QED
      BY <3>1, <3>2, LenProperties
  <2> HIDE DEF e
  <2>4. EntryInv(e) /\ micro'[i] = e
    BY <2>2 DEF e
  <2>5. e.kind = "move" =>
           /\ e.index \in {shown.index, shown.index + 1}
           /\ task \/ sync => e.index = shown.index + 1
           /\ e.words # <<>> => e.index < Len(state'.words) + Len(e.words)
    <3>1. /\ Len(state.words) \in Nat /\ Len(state'.words) \in Nat
          /\ Len(state.words) <= Len(state'.words)
      BY <1>6, <1>7, <2>3
    <3>2. e.kind = "move" =>
             /\ e.index \in {shown.index, shown.index + 1}
             /\ task \/ sync => e.index = shown.index + 1
             /\ e.words # <<>> => e.index < Len(state.words) + Len(e.words)
      BY <2>4 DEF EntryInv, MoveEntry
    <3> QED
      BY ONLY <2>3, <3>1, <3>2, Longer
  <2> QED
    BY <1>1, <2>3, <2>4, <2>5 DEF EntryInv, MoveEntry
<1> QED
  BY <1>8, <1>9, <1>10, <1>11

LEMMA RenderHolds == IInv /\ Render => IInv'
<1> SUFFICES ASSUME IInv, Render PROVE IInv'
  OBVIOUS
<1> USE DEF IInv
<1>1. /\ ~task /\ (sync \/ micro = <<>>)
      /\ shown' = state /\ state' = state /\ table' = table /\ task' = task
      /\ sync' = FALSE /\ reload' = FALSE /\ events' = 0
  BY DEF Render, TypeOK
<1>2. 0 \in 0..MaxEvents
  BY SessionAssumption
<1>3. OwnWords' /\ CurrentWordExists'
  BY <1>1 DEF OwnWords, CurrentWordExists
<1>4. AheadInv' /\ StartInv'
  BY <1>1, LengthsAreNat DEF AheadInv, StartInv
<1>5. CASE reload /\ state.page = "typing" /\ state.set # NoSet
  <2>1. Await(0, state.set, "load", 0) /\ state.set \in Sets
    BY <1>5 DEF Render, SetInv
  <2>2. micro = <<>> /\ state.words = <<>> /\ state.index = 0
    BY <1>5 DEF SetInv, StartInv
  <2>3. PICK words \in Seq(Words) :
              /\ micro' = Append(micro, [kind |-> "load", words |-> words, index |-> 0])
              /\ [kind |-> "load", words |-> words, index |-> 0] \in Continuations
              /\ micro' \in Seq(Continuations)
              /\ faults' \in 0..MaxFaults
              /\ Ran(words) \subseteq Ran(table[state.set])
    BY <2>1, AwaitAdds
  <2>4. TypeOK'
    BY <1>1, <1>2, <2>3 DEF TypeOK
  <2>5. SetInv'
    BY <1>1, <2>1 DEF SetInv
  <2>6. MicroInv'
    <3> DEFINE c == [kind |-> "load", words |-> words, index |-> 0]
    <3>1. c.kind = "load" /\ c.words = words
      OBVIOUS
    <3>2. micro' = <<c>>
      BY <2>2, <2>3
    <3> HIDE DEF c
    <3>3. Len(micro') = 1 /\ micro'[1] = c
      BY <3>2
    <3> SUFFICES EntryInv(micro[1])'
      BY <3>3 DEF MicroInv
    <3> QED
      BY <1>1, <2>2, <2>3, <3>1, <3>3 DEF EntryInv, LoadEntry
  <2> QED
    BY <1>3, <1>4, <2>4, <2>5, <2>6
<1>6. CASE ~(reload /\ state.page = "typing" /\ state.set # NoSet)
  <2>1. UNCHANGED <<micro, faults>>
    BY <1>6 DEF Render
  <2>2. TypeOK'
    BY <1>1, <1>2, <2>1 DEF TypeOK
  <2>3. SetInv'
    BY <1>1, <2>1 DEF SetInv
  <2>4. MicroInv'
    <3> SUFFICES ASSUME NEW i \in 1..Len(micro) PROVE EntryInv(micro[i])'
      BY <2>1 DEF MicroInv
    <3>1. EntryInv(micro[i]) /\ micro # <<>>
      BY SomeElement DEF MicroInv
    <3>2. sync /\ ~reload /\ state.set = shown.set
      BY <1>1, <3>1 DEF SetInv
    <3>3. state.index \in {shown.index, shown.index + 1} /\ shown.index \in Nat
      BY <3>2, LengthsAreNat DEF AheadInv
    <3> QED
      BY <1>1, <2>1, <3>1, <3>2, <3>3 DEF EntryInv, LoadEntry, MoveEntry
  <2> QED
    BY <1>3, <1>4, <2>2, <2>3, <2>4
<1> QED
  BY <1>5, <1>6

----------------------------------------------------------------------------
LEMMA StutterHolds == IInv /\ UNCHANGED sessionVars => IInv'
<1> SUFFICES ASSUME IInv, UNCHANGED sessionVars PROVE IInv'
  OBVIOUS
<1> USE DEF IInv, sessionVars
<1>1. TypeOK'
  BY DEF TypeOK
<1>2. OwnWords' /\ CurrentWordExists'
  BY DEF OwnWords, CurrentWordExists
<1>3. SetInv' /\ StartInv' /\ AheadInv'
  BY DEF SetInv, StartInv, AheadInv
<1>4. MicroInv'
  BY DEF MicroInv, EntryInv, LoadEntry, MoveEntry
<1> QED
  BY <1>1, <1>2, <1>3, <1>4

LEMMA StepHolds == IInv /\ [Next]_sessionVars => IInv'
<1> SUFFICES ASSUME IInv, [Next]_sessionVars PROVE IInv'
  OBVIOUS
<1>1. CASE Runtime
  BY <1>1, EndOfTaskHolds, ResumeHolds, RenderHolds DEF Runtime
<1>2. CASE TapSkip \/ TapNext \/ Swipe
  BY <1>2, TapSkipHolds, TapNextHolds, SwipeHolds
<1>3. CASE TapKey \/ TapHome
  BY <1>3, TapKeyHolds, TapHomeHolds
<1>4. CASE \E set \in Sets : StartTyping(set)
  BY <1>4, StartTypingHolds
<1> QED
  BY <1>1, <1>2, <1>3, <1>4, StutterHolds DEF Next, Learner

\* The strengthened invariant: it says of every page on its way to which set it belongs,
\* from which screen it was asked for, and that the word it moves to exists.
THEOREM SessionInductive == Spec => []IInv
  BY InitHolds, StepHolds, PTL DEF Spec

\* Every variable of the session keeps its type, the index included, which is set from
\* one render's state and used with another's.
THEOREM SessionTypeCorrect == Spec => []TypeOK
<1>1. IInv => TypeOK
  BY DEF IInv
<1> QED
  BY <1>1, SessionInductive, PTL

\* However taps, swipes, renders and late pages interleave, no word of another set gets
\* into the list (App.tsx:107, 141).
THEOREM OnlyOwnWords == Spec => []OwnWords
<1>1. IInv => OwnWords
  BY DEF IInv
<1> QED
  BY <1>1, SessionInductive, PTL

\* The index never leaves a loaded list ("No words available", App.tsx:303).
THEOREM AWordIsShown == Spec => []CurrentWordExists
<1>1. IInv => CurrentWordExists
  BY DEF IInv
<1> QED
  BY <1>1, SessionInductive, PTL

\* Between two renders the index goes up by one at most, however many taps and swipes
\* come between (App.tsx:165-218).
THEOREM NoWordPassedOver == Spec => OneWordAtATime
<1>1. IInv /\ [Next]_sessionVars => [shown'.index <= shown.index + 1]_shown
  <2> SUFFICES ASSUME IInv, [Next]_sessionVars, shown' # shown
               PROVE  shown'.index <= shown.index + 1
    OBVIOUS
  <2>1. shown' = state
    BY DEF Next, Runtime, Learner, EndOfTask, Resume, Render, TapSkip, TapNext, Swipe, TapKey,
           TapHome, StartTyping, sessionVars
  <2>2. state.index \in {0, shown.index, shown.index + 1} /\ shown.index \in Nat
    BY LengthsAreNat DEF IInv, AheadInv, StartInv, TypeOK
  <2> QED
    BY <2>1, <2>2
<1> QED
  BY <1>1, SessionInductive, PTL DEF Spec, OneWordAtATime

----------------------------------------------------------------------------
(* TypingSession implements WordWalk for a learner who waits for the       *)
(* screen and a table that can be read: for any sets, words and page size. *)

\* The list is the beginning of the set.
Prefix(view) ==
    view.words # <<>> =>
        /\ view.set \in Sets
        /\ Len(view.words) <= Len(table[view.set])
        /\ \A i \in 1..Len(view.words) : view.words[i] = table[view.set][i]

\* It is empty only while it is loading, or when the set is.
Loaded(view) ==
    ~view.isLoading /\ view.words = <<>> =>
        view.set \in Sets /\ Len(table[view.set]) = 0

LoadComes ==
    state.page = "typing" /\ state.isLoading =>
        reload \/ (micro # <<>> /\ micro[1].kind = "load")

SamePlace ==
    state.set = shown.set /\ state.words = shown.words /\ state.index = shown.index

\* The one page on its way continues the list.
Continues(c) ==
    /\ c.words # <<>> =>
          /\ Len(state.words) + Len(c.words) <= Len(table[state.set])
          /\ \A i \in 1..Len(c.words) : c.words[i] = table[state.set][Len(state.words) + i]
    /\ c.kind = "load" /\ c.words = <<>> => Len(table[state.set]) = 0
    /\ c.kind = "move" /\ c.words # <<>> =>
          c.index = Len(state.words) /\ c.index = shown.index + 1
WaitingInv == micro # <<>> => Len(micro) = 1 /\ SamePlace /\ Continues(micro[1])

\* What the next render shows: another set, the same word, the next word, or the first.
Moved ==
    /\ state.set = shown.set
    /\ shown.index < Len(shown.words)
    /\ state.index = shown.index + 1 /\ state.index < Len(state.words)
Began ==
    /\ state.set = shown.set
    /\ shown.words = <<>> /\ shown.index = 0
    /\ state.words # <<>> /\ state.index = 0
ShowsNext == reload \/ SamePlace \/ (micro = <<>> /\ (Moved \/ Began))

WalkInv ==
    /\ Prefix(state) /\ Prefix(shown) /\ Loaded(state) /\ Loaded(shown)
    /\ LoadComes /\ WaitingInv /\ ShowsNext

----------------------------------------------------------------------------
\* What getWordsBatch reads: the words after the first offset ones.
LEMMA PageExact ==
    ASSUME TypeOK, NEW set \in Sets, NEW offset \in Nat
    PROVE  LET words == GetWordsBatch(offset, set)
               all   == table[set]
           IN  /\ words \in Seq(Words) /\ all \in Seq(Words)
               /\ Len(words) \in Nat /\ Len(all) \in Nat
               /\ words # <<>> => /\ Len(words) # 0
                                  /\ offset + Len(words) <= Len(all)
                                  /\ \A i \in 1..Len(words) : words[i] = all[offset + i]
               /\ words = <<>> => Len(all) <= offset
<1> DEFINE all  == table[set]
           last == IF offset + BATCH_SIZE < Len(all) THEN offset + BATCH_SIZE ELSE Len(all)
           page == SubSeq(all, offset + 1, last)
<1>1. all \in Seq(Words) /\ BATCH_SIZE \in Nat /\ BATCH_SIZE > 1
  BY SessionAssumption DEF TypeOK
<1>2. GetWordsBatch(offset, set) = page
  BY DEF GetWordsBatch
<1>3. Len(all) \in Nat /\ offset + 1 \in Nat \ {0} /\ last \in Nat /\ last <= Len(all)
  BY <1>1, LenProperties
<1>4. /\ page \in Seq(Words)
      /\ Len(page) = IF offset + 1 <= last THEN last - (offset + 1) + 1 ELSE 0
      /\ \A i \in 1..Len(page) : page[i] = all[offset + 1 + i - 1]
  <2> HIDE DEF last, all
  <2> QED
    BY <1>1, <1>3, Slice
<1>5. page # <<>> => Len(page) # 0
  BY ONLY <1>4, EmptySeq
<1>6. Len(page) \in Nat /\ (Len(page) # 0 => offset + Len(page) <= Len(all))
  <2> HIDE DEF last, all, page
  <2> QED
    BY <1>3, <1>4
<1>7. \A i \in 1..Len(page) : page[i] = all[offset + i]
  <2> SUFFICES ASSUME NEW i \in 1..Len(page) PROVE page[i] = all[offset + i]
    OBVIOUS
  <2>1. offset + 1 + i - 1 = offset + i
    BY <1>6
  <2> QED
    BY <1>4, <2>1
<1>8. page = <<>> => Len(all) <= offset
  <2>1. page = <<>> => Len(page) = 0
    BY EmptySeq
  <2>2. Len(page) = 0 => ~(offset + 1 <= last)
    <3> HIDE DEF last, all, page
    <3> QED
      BY <1>3, <1>4
  <2>3. ~(offset + 1 <= last) => Len(all) <= offset
    BY <1>1, <1>3
  <2> QED
    BY <2>1, <2>2, <2>3
<1> HIDE DEF page
<1> QED
  BY <1>1, <1>2, <1>3, <1>4, <1>5, <1>6, <1>7, <1>8

LEMMA AwaitExact ==
    ASSUME MaxFaults = 0, TypeOK, micro = <<>>, NEW offset, NEW set, NEW kind, NEW index,
           Await(offset, set, kind, index)
    PROVE  micro' = <<[kind |-> kind, words |-> GetWordsBatch(offset, set), index |-> index]>>
<1>1. ~(faults < MaxFaults)
  BY DEF TypeOK
<1>2. Answers(offset, set) = {GetWordsBatch(offset, set)}
  BY <1>1 DEF Answers
<1> QED
  BY <1>2 DEF Await

----------------------------------------------------------------------------
LEMMA WalkInit == Init => WalkInv
<1> SUFFICES ASSUME Init PROVE WalkInv
  OBVIOUS
<1>1. InitialView.words = <<>> /\ InitialView.isLoading /\ InitialView.page = "home"
  BY DEF InitialView
<1> QED
  BY <1>1 DEF Init, WalkInv, Prefix, Loaded, LoadComes, WaitingInv, ShowsNext, SamePlace

\* The end of a task, and a stuttering step.
LEMMA WalkSame ==
    ASSUME WalkInv, UNCHANGED <<table, state, shown, reload, micro>> PROVE WalkInv'
<1>1. Prefix(state)' /\ Prefix(shown)' /\ Loaded(state)' /\ Loaded(shown)'
  BY DEF WalkInv, Prefix, Loaded
<1>2. LoadComes' /\ SamePlace' = SamePlace
  BY DEF WalkInv, LoadComes, SamePlace
<1>3. WaitingInv'
  BY DEF WalkInv, WaitingInv, Continues, SamePlace
<1>4. ShowsNext'
  BY DEF WalkInv, ShowsNext, SamePlace, Moved, Began
<1> QED
  BY <1>1, <1>2, <1>3, <1>4 DEF WalkInv

\* The learner acts when the screen shows the state and nothing is on its way.
LEMMA WalkText ==
    ASSUME IInv, WalkInv, Settled,
           \/ TapHome
           \/ TapKey
    PROVE  WalkInv'
<1>1. micro = <<>> /\ micro' = micro /\ shown' = shown /\ table' = table /\ reload' = reload
      /\ state = shown /\ shown \in View
  BY DEF Settled, Idle, TapHome, TapKey, IInv, TypeOK
<1>2. /\ state'.set = state.set /\ state'.words = state.words /\ state'.index = state.index
      /\ state'.isLoading = state.isLoading
      /\ state'.page = "home" \/ state'.page = state.page
  BY <1>1 DEF TapHome, TapKey, View
<1>3. Prefix(state)' /\ Prefix(shown)' /\ Loaded(state)' /\ Loaded(shown)'
  BY <1>1, <1>2 DEF WalkInv, Prefix, Loaded
<1>4. LoadComes' /\ WaitingInv' /\ ShowsNext'
  BY <1>1, <1>2 DEF WalkInv, LoadComes, WaitingInv, ShowsNext, SamePlace
<1> QED
  BY <1>3, <1>4 DEF WalkInv

LEMMA WalkStart ==
    ASSUME IInv, WalkInv, Settled, NEW set \in Sets, StartTyping(set)
    PROVE  WalkInv'
<1>1. micro = <<>> /\ micro' = micro /\ shown' = shown /\ table' = table /\ reload'
      /\ state'.words = <<>> /\ state'.isLoading
  BY DEF Settled, Idle, StartTyping
<1> QED
  BY <1>1 DEF WalkInv, Prefix, Loaded, LoadComes, WaitingInv, ShowsNext

LEMMA WalkMoveOn ==
    ASSUME MaxFaults = 0, IInv, WalkInv, Settled, shown.page = "typing",
           NEW rendered \in BOOLEAN, MoveOn(rendered), UNCHANGED <<table, shown, reload>>
    PROVE  WalkInv'
<1> DEFINE k == shown.index + 1
           n == Len(shown.words)
<1>1. /\ TypeOK /\ micro = <<>> /\ state = shown /\ ~reload /\ shown \in View
      /\ shown.set \in Sets /\ k \in Nat /\ n \in Nat /\ shown.index \in Nat
      /\ shown.words # <<>> => n # 0
  <2>1. shown.words \in Seq(Words)
    BY LengthsAreNat DEF IInv
  <2>2. shown.words # <<>> => n # 0
    BY <2>1, EmptySeq
  <2> QED
    BY <2>2, LengthsAreNat DEF Settled, Idle, IInv, StartInv, SetInv, TypeOK
<1>2. ~shown.isLoading
  BY <1>1 DEF WalkInv, LoadComes
<1>3. CASE k >= n
  <2> DEFINE page == GetWordsBatch(n, shown.set)
             c    == [kind |-> "move", words |-> page, index |-> k]
  <2>1. Await(n, shown.set, "move", k) /\ state' = state
    BY <1>3 DEF MoveOn
  <2>2. micro' = <<c>>
    <3> HIDE DEF k, n
    <3> QED
      BY <1>1, <2>1, AwaitExact
  <2>3. /\ page # <<>> => /\ n + Len(page) <= Len(table[shown.set])
                          /\ \A i \in 1..Len(page) : page[i] = table[shown.set][n + i]
                          /\ Len(page) # 0 /\ Len(page) \in Nat /\ Len(table[shown.set]) \in Nat
    <3> HIDE DEF n
    <3> QED
      BY <1>1, PageExact
  <2>4. page # <<>> => k = n
    <3>1. page # <<>> => Len(table[shown.set]) # 0
      <4> DEFINE size == Len(page)
                 all  == Len(table[shown.set])
      <4>1. page # <<>> => n + size <= all /\ size # 0 /\ size \in Nat /\ all \in Nat
        BY <2>3
      <4> HIDE DEF size, all, n
      <4> QED
        BY <1>1, <4>1 DEF all
    <3>2. shown.words = <<>> => Len(table[shown.set]) = 0
      BY <1>2 DEF WalkInv, Loaded
    <3>3. shown.words # <<>> => n # 0 /\ (shown.index < n \/ shown.index = 0)
      BY <1>1 DEF IInv, CurrentWordExists
    <3> QED
      BY <1>1, <1>3, <3>1, <3>2, <3>3
  <2>5. micro'[1] = c /\ Len(micro') = 1 /\ c.kind = "move" /\ c.words = page /\ c.index = k
    BY <2>2
  <2> HIDE DEF c, page
  <2>6. Prefix(state)' /\ Prefix(shown)' /\ Loaded(state)' /\ Loaded(shown)'
    BY <2>1 DEF WalkInv, Prefix, Loaded
  <2>7. SamePlace' /\ LoadComes' /\ ShowsNext'
    BY <1>1, <1>2, <2>1 DEF LoadComes, SamePlace, ShowsNext
  <2>8. Continues(micro[1])'
    BY <1>1, <2>1, <2>3, <2>4, <2>5 DEF Continues
  <2> QED
    BY <2>5, <2>6, <2>7, <2>8 DEF WalkInv, WaitingInv
<1>4. CASE ~(k >= n)
  <2>1. state' = [state EXCEPT !.index = k, !.text = ""] /\ micro' = micro
    BY <1>4 DEF MoveOn
  <2>2. /\ state'.set = state.set /\ state'.words = state.words /\ state'.index = k
        /\ state'.isLoading = state.isLoading
    BY <1>1, <2>1 DEF View
  <2>3. Prefix(state)' /\ Prefix(shown)' /\ Loaded(state)' /\ Loaded(shown)'
    BY <2>2 DEF WalkInv, Prefix, Loaded
  <2>4. LoadComes' /\ WaitingInv'
    BY <1>1, <1>2, <2>1, <2>2 DEF LoadComes, WaitingInv
  <2>5. Moved'
    <3>1. shown.index < n /\ k < n
      BY <1>1, <1>4
    <3> QED
      BY <1>1, <2>2, <3>1 DEF Moved
  <2> QED
    BY <1>1, <2>1, <2>3, <2>4, <2>5 DEF WalkInv, ShowsNext
<1> QED
  BY <1>3, <1>4

\* A page that continues a beginning of the set makes it a longer beginning.
LEMMA LongerPrefix ==
    ASSUME NEW S, NEW s \in Seq(S), NEW t \in Seq(S), NEW whole,
           \A i \in 1..Len(s) : s[i] = whole[i],
           \A i \in 1..Len(t) : t[i] = whole[Len(s) + i]
    PROVE  /\ Len(s \o t) = Len(s) + Len(t)
           /\ \A i \in 1..Len(s \o t) : (s \o t)[i] = whole[i]
<1>1. Len(s) \in Nat /\ Len(t) \in Nat /\ Len(s \o t) = Len(s) + Len(t)
  BY LenProperties, ConcatProperties
<1>2. SUFFICES ASSUME NEW i \in 1..(Len(s) + Len(t)) PROVE (s \o t)[i] = whole[i]
  BY <1>1
<1>3. CASE i <= Len(s)
  <2>1. i \in 1..Len(s) /\ (s \o t)[i] = s[i]
    BY <1>1, <1>3, ConcatProperties
  <2> QED
    BY <2>1
<1>4. CASE ~(i <= Len(s))
  <2>1. i - Len(s) \in 1..Len(t) /\ (s \o t)[i] = t[i - Len(s)]
    BY <1>1, <1>4, ConcatProperties
  <2>2. Len(s) + (i - Len(s)) = i
    BY <1>1
  <2> QED
    BY <2>1, <2>2
<1> QED
  BY <1>3, <1>4

LEMMA Room ==
    \A n, more, k \in Nat :
        more # 0 => n + more # 0 /\ n < n + more /\ (n = k + 1 => k < n)
  OBVIOUS

LEMMA WalkResume == IInv /\ WalkInv /\ Resume => WalkInv'
<1> SUFFICES ASSUME IInv, WalkInv, Resume PROVE WalkInv'
  OBVIOUS
<1> DEFINE c == micro[1]
<1>1. /\ micro # <<>> /\ Len(micro) = 1 /\ SamePlace /\ Continues(c) /\ EntryInv(c)
      /\ micro \in Seq(Continuations) /\ c \in Continuations /\ c = Head(micro)
      /\ ~reload /\ shown.set \in Sets
  <2>1. micro # <<>> /\ Len(micro) = 1 /\ micro \in Seq(Continuations)
    BY DEF Resume, WalkInv, WaitingInv, IInv, TypeOK
  <2>2. c \in Continuations /\ c = Head(micro)
    BY <2>1, ElementOfSeq
  <2> QED
    BY <2>1, <2>2 DEF WalkInv, WaitingInv, IInv, MicroInv, SetInv
<1>2. micro' = <<>>
  <2>1. Tail(micro) \in Seq(Continuations) /\ Len(Tail(micro)) = 0
    BY <1>1, HeadTailProperties
  <2> QED
    BY <2>1, EmptySeq DEF Resume
<1>3. /\ c.words \in Seq(Words) /\ Len(c.words) \in Nat /\ c.kind \in {"load", "move"}
      /\ (c.words # <<>> => Len(c.words) # 0)
      /\ state.words \in Seq(Words) /\ Len(state.words) \in Nat /\ state \in View
      /\ shown.index \in Nat /\ shown.words \in Seq(Words)
  <2>1. c.words \in Seq(Words) /\ c.kind \in {"load", "move"}
    BY <1>1 DEF Continuations
  <2>2. (c.words # <<>> => Len(c.words) # 0) /\ Len(c.words) \in Nat
    BY ONLY <2>1, LenProperties, EmptySeq
  <2> QED
    BY <2>1, <2>2, LengthsAreNat DEF IInv, TypeOK
<1>4. /\ UNCHANGED <<table, shown, reload>>
      /\ state' = IF c.kind = "load" THEN AfterLoad(c) ELSE AfterMove(c)
  BY <1>1 DEF Resume
<1> HIDE DEF c
<1>5. CASE c.kind = "load"
  <2>1. /\ state'.set = state.set /\ state'.words = c.words /\ state'.index = 0
        /\ ~state'.isLoading
    BY <1>3, <1>4, <1>5 DEF AfterLoad, View
  <2>2. state.words = <<>> /\ shown.words = <<>> /\ shown.index = 0 /\ Len(<<>>) = 0
    BY <1>1, <1>5, EmptySeq DEF EntryInv, LoadEntry
  <2>3. Prefix(state)'
    BY <1>1, <1>3, <1>4, <2>1, <2>2, SMTT(30) DEF Continues, Prefix, SamePlace
  <2>4. Loaded(state)' /\ Prefix(shown)' /\ Loaded(shown)'
    BY <1>1, <1>4, <1>5, <2>1 DEF Continues, Loaded, Prefix, SamePlace, WalkInv
  <2>5. LoadComes' /\ WaitingInv'
    BY <1>2, <2>1 DEF LoadComes, WaitingInv
  <2>6. ShowsNext'
    BY <1>1, <1>2, <1>4, <2>1, <2>2 DEF ShowsNext, SamePlace, Began
  <2> QED
    BY <2>3, <2>4, <2>5, <2>6 DEF WalkInv
<1>6. CASE c.kind = "move" /\ c.words = <<>>
  <2>1. state' = state
    BY <1>4, <1>6 DEF AfterMove
  <2>2. ~(state.page = "typing" /\ state.isLoading)
    BY <1>1, <1>6 DEF WalkInv, LoadComes, c
  <2>3. Prefix(state)' /\ Prefix(shown)' /\ Loaded(state)' /\ Loaded(shown)'
    BY <1>4, <2>1 DEF WalkInv, Prefix, Loaded
  <2>4. LoadComes' /\ WaitingInv' /\ ShowsNext'
    BY <1>1, <1>2, <1>4, <2>1, <2>2 DEF LoadComes, WaitingInv, ShowsNext, SamePlace
  <2> QED
    BY <2>3, <2>4 DEF WalkInv
<1>7. CASE c.kind = "move" /\ c.words # <<>>
  <2> DEFINE all == table[state.set]
             n   == Len(state.words)
  <2>1. /\ state'.set = state.set /\ state'.words = state.words \o c.words
        /\ state'.index = c.index /\ state'.isLoading = state.isLoading
        /\ state'.page = state.page
    BY <1>3, <1>4, <1>7 DEF AfterMove, View
  <2>3. /\ n + Len(c.words) <= Len(all)
        /\ \A i \in 1..Len(c.words) : c.words[i] = all[n + i]
        /\ c.index = n /\ c.index = shown.index + 1
    BY <1>1, <1>7 DEF Continues
  <2>4. \A i \in 1..n : state.words[i] = all[i]
    <3>1. n = 0 \/ state.words # <<>>
      BY EmptySeq
    <3> QED
      BY <1>3, <3>1 DEF WalkInv, Prefix
  <2>2. /\ Len(state'.words) = n + Len(c.words)
        /\ \A i \in 1..Len(state'.words) : state'.words[i] = all[i]
    <3> HIDE DEF all
    <3>1. state.words \in Seq(Words) /\ c.words \in Seq(Words)
      BY <1>3
    <3> DEFINE old == state.words
               new == c.words
    <3>2. /\ old \in Seq(Words) /\ new \in Seq(Words)
          /\ \A i \in 1..Len(new) : new[i] = all[Len(old) + i]
          /\ \A i \in 1..Len(old) : old[i] = all[i]
      BY <2>3, <2>4, <3>1
    <3>3. state'.words = old \o new /\ n = Len(old)
      BY <2>1
    <3> HIDE DEF old, new
    <3>4. /\ Len(old \o new) = Len(old) + Len(new)
          /\ \A i \in 1..Len(old \o new) : (old \o new)[i] = all[i]
      BY ONLY <3>2, LongerPrefix
    <3>5. Len(c.words) = Len(new)
      BY DEF new
    <3> QED
      BY ONLY <3>3, <3>4, <3>5
  <2>5. Prefix(state)'
    BY <1>1, <1>4, <2>1, <2>2, <2>3 DEF Prefix, SamePlace
  <2>6. Len(state'.words) # 0 /\ state'.words # <<>> /\ c.index < Len(state'.words)
        /\ shown.index < n
    <3>1. Len(c.words) # 0 /\ Len(c.words) \in Nat /\ n \in Nat /\ shown.index \in Nat
      BY <1>3, <1>7
    <3>2. n + Len(c.words) # 0 /\ n < n + Len(c.words) /\ shown.index < n
      <4>1. n = shown.index + 1
        BY <2>3
      <4> HIDE DEF n
      <4> QED
        BY ONLY <3>1, <4>1, Room
    <3> QED
      BY <2>2, <2>3, <3>2, EmptySeq
  <2>7. Loaded(state)' /\ Prefix(shown)' /\ Loaded(shown)'
    BY <1>4, <2>6 DEF WalkInv, Loaded, Prefix
  <2>8. LoadComes' /\ WaitingInv'
    BY <1>1, <1>2, <1>7, <2>1 DEF WalkInv, LoadComes, WaitingInv, c
  <2>9. Moved'
    BY <1>1, <1>4, <2>1, <2>3, <2>6 DEF Moved, SamePlace
  <2> QED
    BY <1>2, <2>5, <2>7, <2>8, <2>9 DEF WalkInv, ShowsNext
<1> QED
  BY <1>3, <1>5, <1>6, <1>7

LEMMA WalkRender ==
    ASSUME MaxFaults = 0, IInv, WalkInv, Render PROVE WalkInv'
<1>1. /\ shown' = state /\ state' = state /\ table' = table /\ ~reload'
      /\ sync \/ micro = <<>>
  BY DEF Render
<1>2. Prefix(state)' /\ Prefix(shown)' /\ Loaded(state)' /\ Loaded(shown)'
  BY <1>1 DEF WalkInv, Prefix, Loaded
<1>3. SamePlace' /\ ShowsNext'
  BY <1>1 DEF SamePlace, ShowsNext
<1>4. CASE reload /\ state.page = "typing" /\ state.set # NoSet
  <2> DEFINE page == GetWordsBatch(0, state.set)
             c    == [kind |-> "load", words |-> page, index |-> 0]
  <2>1. Await(0, state.set, "load", 0) /\ state.set \in Sets
    BY <1>4 DEF Render, IInv, SetInv
  <2>2. TypeOK /\ micro = <<>> /\ state.words = <<>> /\ Len(state.words) = 0
    BY <1>4, EmptySeq DEF IInv, SetInv, StartInv
  <2>3. micro' = <<c>>
    BY <2>1, <2>2, AwaitExact
  <2>4. /\ Len(page) \in Nat /\ Len(table[state.set]) \in Nat
        /\ page # <<>> => /\ 0 + Len(page) <= Len(table[state.set])
                          /\ \A i \in 1..Len(page) : page[i] = table[state.set][0 + i]
        /\ page = <<>> => Len(table[state.set]) <= 0
    <3> HIDE DEF c
    <3> QED
      BY <2>1, <2>2, PageExact
  <2>5. micro'[1] = c /\ Len(micro') = 1 /\ micro' # <<>> /\ c.kind = "load" /\ c.words = page
    BY <2>3
  <2> HIDE DEF c, page
  <2>6. Continues(micro[1])'
    BY <1>1, <2>2, <2>4, <2>5 DEF Continues
  <2>7. LoadComes'
    BY <2>5 DEF LoadComes
  <2> QED
    BY <1>2, <1>3, <2>5, <2>6, <2>7 DEF WalkInv, WaitingInv
<1>5. CASE ~(reload /\ state.page = "typing" /\ state.set # NoSet)
  <2>1. micro' = micro
    BY <1>5 DEF Render
  <2>2. ~(reload /\ state.page = "typing")
    BY <1>5, SessionAssumption DEF IInv, SetInv
  <2>3. LoadComes'
    BY <1>1, <2>1, <2>2 DEF WalkInv, LoadComes
  <2>4. WaitingInv'
    <3> SUFFICES ASSUME micro # <<>> PROVE Len(micro) = 1 /\ Continues(micro[1])'
      BY <1>3, <2>1 DEF WaitingInv
    <3>1. Len(micro) = 1 /\ SamePlace /\ Continues(micro[1])
      BY DEF WalkInv, WaitingInv
    <3> QED
      BY <1>1, <2>1, <3>1 DEF Continues, SamePlace
  <2> QED
    BY <1>2, <1>3, <2>3, <2>4 DEF WalkInv
<1> QED
  BY <1>4, <1>5

LEMMA WalkStep == ASSUME MaxFaults = 0, IInv, WalkInv, [PatientNext]_sessionVars PROVE WalkInv'
<1>1. CASE Resume
  BY <1>1, WalkResume
<1>2. CASE Render
  BY <1>2, WalkRender
<1>3. CASE EndOfTask \/ UNCHANGED sessionVars
  BY <1>3, WalkSame DEF EndOfTask, sessionVars
<1>4. CASE Settled /\ (TapSkip \/ TapNext \/ Swipe)
  BY <1>4, WalkMoveOn DEF TapSkip, TapNext, Swipe
<1>5. CASE Settled /\ (TapKey \/ TapHome)
  BY <1>5, WalkText
<1>6. CASE Settled /\ \E set \in Sets : StartTyping(set)
  BY <1>6, WalkStart
<1> QED
  BY <1>1, <1>2, <1>3, <1>4, <1>5, <1>6 DEF PatientNext, Runtime, Learner

----------------------------------------------------------------------------
\* What is on the screen in terms of the list.
LEMMA WordShown ==
    ASSUME NEW view \in View, Prefix(view), TypeOK
    PROVE  /\ view.index < Len(view.words) =>
                 /\ currentWord(view) = table[view.set][view.index + 1]
                 /\ currentWord(view) # NoWord
                 /\ view.index + 1 <= Len(table[view.set])
           /\ view.words = <<>> => currentWord(view) = NoWord
<1> DEFINE words == view.words
           index == view.index
<1>1. words \in Seq(Words) /\ index \in Nat /\ Len(words) \in Nat
  BY LenProperties DEF View
<1>2. ASSUME index < Len(words)
      PROVE  /\ words[index + 1] \in Words /\ index + 1 \in 1..Len(words) /\ words # <<>>
  <2> HIDE DEF words, index
  <2> QED
    BY <1>1, <1>2, ElementAt, EmptySeq
<1>3. ASSUME index < Len(words)
      PROVE  /\ view.set \in Sets /\ Len(words) <= Len(table[view.set])
             /\ words[index + 1] = table[view.set][index + 1]
  BY <1>2, <1>3 DEF Prefix
<1>4. ASSUME index < Len(words) PROVE index + 1 <= Len(table[view.set])
  <2> DEFINE all == table[view.set]
  <2>1. Len(all) \in Nat
    BY <1>3, <1>4, SessionAssumption, LenProperties DEF TypeOK
  <2>2. Len(words) <= Len(all)
    BY <1>3, <1>4
  <2> HIDE DEF words, index, all
  <2>3. index + 1 <= Len(all)
    BY <1>1, <1>4, <2>1, <2>2
  <2> QED
    BY <2>3 DEF all
<1>5. words = <<>> => ~(index < Len(words))
  <2> HIDE DEF words, index
  <2> QED
    BY <1>1, EmptySeq
<1> QED
  BY <1>2, <1>3, <1>4, <1>5, SessionAssumption DEF currentWord

\* One step of the session is a step of the walk, or none.
LEMMA WalkRefined ==
    ASSUME MaxFaults = 0, IInv, WalkInv, [PatientNext]_sessionVars
    PROVE  [Walk!Next]_(Walk!walk)
<1>1. table' = table
  BY DEF PatientNext, Runtime, Learner, EndOfTask, Resume, Render, TapSkip, TapNext, Swipe,
         TapKey, TapHome, StartTyping, sessionVars
<1>2. shown' = shown \/ shown' = state
  BY DEF PatientNext, Runtime, Learner, EndOfTask, Resume, Render, TapSkip, TapNext, Swipe,
         TapKey, TapHome, StartTyping, sessionVars
<1>3. CASE shown' = shown
  BY <1>1, <1>3 DEF Walk!walk, PlaceShown
<1>4. CASE shown' = state
  <2>1. shown \in View /\ state \in View /\ TypeOK /\ Prefix(shown) /\ Prefix(state)
    BY DEF IInv, TypeOK, WalkInv
  <2>2. shown.index \in Nat /\ state.index \in Nat
    BY LengthsAreNat DEF IInv
  <2>3. CASE SamePlace
    <3>1. currentWord(state) = currentWord(shown)
      BY <2>3 DEF SamePlace, currentWord
    <3>2. PlaceShown' = PlaceShown /\ currentWord(shown)' = currentWord(shown)
          /\ shown'.set = shown.set
      BY <1>4, <2>3, <3>1 DEF SamePlace, PlaceShown, currentWord
    <3> QED
      BY <1>1, <3>2 DEF Walk!walk
  <2>4. CASE reload
    <3>1. currentWord(state) = NoWord
      BY <2>1, <2>4, WordShown DEF IInv, StartInv
    <3>2. currentWord(shown)' = NoWord /\ PlaceShown' = 0
      BY <1>4, <3>1 DEF PlaceShown, currentWord
    <3>3. shown'.set \in Sets
      BY <1>4, <2>4 DEF IInv, StartInv, SetInv
    <3>4. Walk!Choose(shown'.set)
      BY <1>1, <3>2 DEF Walk!Choose, Walk!MoveTo, Walk!WordAt
    <3> QED
      BY <3>3, <3>4 DEF Walk!Next
  <2> DEFINE n == PlaceShown + 1
  <2>5. ASSUME shown.set \in Sets, PlaceShown \in Nat, state.set = shown.set,
               state.index + 1 = n, state.index < Len(state.words)
        PROVE  Walk!Next
    <3>1. /\ currentWord(state) = table[state.set][n] /\ currentWord(state) # NoWord
          /\ n <= Len(table[state.set])
      BY <2>1, <2>5, WordShown
    <3>2. shown'.set = shown.set /\ PlaceShown' = n /\ n # 0
          /\ currentWord(shown)' = table[shown.set][n]
      BY <1>4, <2>5, <3>1 DEF PlaceShown, currentWord
    <3>3. shown.set # NoSet
      BY <2>5, SessionAssumption
    <3>4. PlaceShown < Len(table[shown.set])
      <4>1. Len(table[shown.set]) \in Nat
        BY <2>1, <2>5, SessionAssumption, LenProperties DEF TypeOK
      <4> QED
        BY <2>5, <3>1, <4>1
    <3>5. Walk!Advance
      BY <1>1, <3>2, <3>3, <3>4 DEF Walk!Advance, Walk!MoveTo, Walk!WordAt
    <3> QED
      BY <3>5 DEF Walk!Next
  <2>6. CASE Moved
    <3>1. /\ state.set = shown.set /\ state.index = shown.index + 1
          /\ shown.index < Len(shown.words) /\ state.index < Len(state.words)
      BY <2>6 DEF Moved
    <3>2. currentWord(shown) # NoWord
      BY <2>1, <3>1, WordShown
    <3>3. PlaceShown = shown.index + 1
      BY <3>2 DEF PlaceShown
    <3>4. shown.set \in Sets
      <4>1. shown.words # <<>>
        BY <2>2, <3>1, EmptySeq
      <4> QED
        BY <2>1, <4>1 DEF Prefix
    <3> QED
      BY <2>2, <2>5, <3>1, <3>3, <3>4
  <2>7. CASE Began
    <3>1. /\ state.set = shown.set /\ state.index = 0
          /\ shown.words = <<>> /\ state.words # <<>>
      BY <2>7 DEF Began
    <3>2. currentWord(shown) = NoWord /\ PlaceShown = 0
      BY <2>1, <3>1, WordShown DEF PlaceShown
    <3>3. state.set \in Sets
      BY <2>1, <3>1 DEF Prefix
    <3>4. 0 < Len(state.words)
      <4>1. state.words \in Seq(Words)
        BY <2>1 DEF View
      <4> QED
        BY <3>1, <4>1, EmptySeq
    <3> QED
      BY <2>5, <3>1, <3>2, <3>3, <3>4
  <2> QED
    BY <2>3, <2>4, <2>6, <2>7 DEF WalkInv, ShowsNext
<1> QED
  BY <1>2, <1>3, <1>4

LEMMA WalkBegins == Init => Walk!Init
<1> SUFFICES ASSUME Init PROVE Walk!Init
  OBVIOUS
<1>1. shown.set = NoSet /\ shown.words = <<>> /\ shown.index = 0
  BY DEF Init, InitialView
<1>2. Len(<<>>) = 0
  BY EmptySeq
<1>3. currentWord(shown) = NoWord
  BY <1>1, <1>2 DEF currentWord
<1> QED
  BY <1>1, <1>3 DEF Walk!Init, PlaceShown

\* The learner who waits for the screen, when no read fails, is shown the words of every
\* chosen set from the first on, in their order, none passed over and none twice, however
\* long the sets and whatever the page size.
THEOREM SessionImplementsWalk ==
    ASSUME MaxFaults = 0 PROVE PatientSpec => ImplementsWalk
<1>1. Init => IInv /\ WalkInv /\ Walk!Init
  BY InitHolds, WalkInit, WalkBegins
<1>2. [PatientNext]_sessionVars => [Next]_sessionVars
  BY DEF PatientNext, Next
<1>3. IInv /\ [PatientNext]_sessionVars => IInv'
  BY <1>2, StepHolds
<1>4. IInv /\ WalkInv /\ [PatientNext]_sessionVars => WalkInv'
  BY WalkStep
<1>5. IInv /\ WalkInv /\ [PatientNext]_sessionVars => [Walk!Next]_(Walk!walk)
  BY WalkRefined
<1> QED
  BY <1>1, <1>3, <1>4, <1>5, PTL DEF PatientSpec, ImplementsWalk, Walk!Spec
=============================================================================
