--------------------------- MODULE AppLaunchProofs ---------------------------
(***************************************************************************)
(* AppLaunch, from the file an installed version left to the words on the  *)
(* screen: for lists of any length, any page size and number of crashes,   *)
(* as long as no statement fails.  The theorems about the database and     *)
(* those about the session are put together.                               *)
(***************************************************************************)
EXTENDS AppLaunch, VocabularyStoreProofs

\* The session and its theorems, with the table that the file holds.
SP == INSTANCE TypingSessionProofs WITH
    Sets <- VocabularySets, Tables <- {Bundled}, MaxEvents <- 1, MaxFaults <- 0,
    table <- [set \in VocabularySets |-> Stored(set)], faults <- readFaults

\* The words of a list stand in the file in its order, one after the other.
Run(table, list, k) ==
    /\ k + Len(list) <= Len(table)
    /\ \A j \in DOMAIN list : table[k + j].word = list[j]
HasRun(table, list) == \E k \in Nat : Run(table, list, k)

\* The open transaction has added the first n words of its script at the end.
Grown(n) ==
    /\ Len(work) = Len(rows) + n
    /\ \A i \in DOMAIN rows : work[i].word = rows[i].word
    /\ \A j \in 1..n : work[Len(rows) + j].word = Script(block)[j]

OrderInv ==
    /\ HasNone(Common) \/ HasRun(rows, CommonWords)
    /\ HasNone(Letter) \/ HasRun(rows, Letters)
    /\ block # "none" => Grown(IF block = "emoji" THEN 0 ELSE done)

\* A process that has not rendered anything but its first screen.
Fresh ==
    /\ state = Session!InitialView /\ shown = Session!InitialView
    /\ reload = FALSE /\ micro = <<>> /\ sync = FALSE
    /\ task = FALSE /\ events = 0 /\ readFaults = 0

\* The session begins when the file is ready, and then reads whole lists.
AppInv ==
    /\ OnceInv /\ OrderInv
    /\ Fresh \/ (pc = "ready" /\ SP!IInv /\ SP!WalkInv)

----------------------------------------------------------------------------
(* The order of the rows.                                                  *)

LEMMA Lists == /\ CommonWords \in Seq(Common) /\ Letters \in Seq(Letter)
               /\ Len(CommonWords) \in Nat /\ Len(Letters) \in Nat
               /\ DOMAIN CommonWords = 1..Len(CommonWords)
               /\ DOMAIN Letters = 1..Len(Letters)
<1>1. CommonWords \in Seq(Common) /\ Letters \in Seq(Letter)
  BY DataAssumption DEF Common, Letter
<1>2. QED BY <1>1, LenProperties

LEMMA RunStays ==
    ASSUME NEW C, NEW old \in Seq(C), NEW new \in Seq(C), NEW list,
           Len(list) \in Nat, DOMAIN list = 1..Len(list),
           Len(old) <= Len(new), \A i \in DOMAIN old : new[i].word = old[i].word,
           HasRun(old, list)
    PROVE  HasRun(new, list)
<1>1. PICK k \in Nat : Run(old, list, k)
  BY DEF HasRun
<1>2. Len(old) \in Nat /\ Len(new) \in Nat /\ DOMAIN old = 1..Len(old)
  BY LenProperties
<1>3. \A j \in DOMAIN list : k + j \in DOMAIN old
  BY <1>1, <1>2 DEF Run
<1>4. Run(new, list, k)
  BY <1>1, <1>2, <1>3 DEF Run
<1>5. QED BY <1>4 DEF HasRun

LEMMA OrderStart == ASSUME Unfailing, Init PROVE OrderInv
<1>1. OnceInv /\ block = "none"
  BY OnceStart DEF Init
<1>2. rows = <<>> \/ \E emoji \in BOOLEAN : rows = RowsOf(CommonWords, "unlabelled", emoji)
  <2>1. PICK image \in {FreshImage, FirstImage, Version1Image, Version2Image} :
          rows = image.rows
    BY DEF Init, Unfailing
  <2>2. \A v, c, t : Image(v, c, t).rows = t
    BY DEF Image
  <2>3. /\ FreshImage.rows = <<>>
        /\ FirstImage.rows = RowsOf(CommonWords, "unlabelled", FALSE)
        /\ Version1Image.rows = RowsOf(CommonWords, "unlabelled", FALSE)
        /\ Version2Image.rows = RowsOf(CommonWords, "unlabelled", TRUE)
    BY <2>2 DEF FreshImage, FirstImage, Version1Image, Version2Image
  <2>4. QED BY <2>1, <2>3
<1>3. HasNone(Letter)
  <2>1. ASSUME NEW w \in Letter PROVE CountIn(rows, w) = 0
    <3>1. w \notin Common
      BY Disjoint
    <3>2. QED BY <1>2, <3>1, CountEmpty, CountImage DEF Unfailing, Common
  <2>2. QED BY <2>1 DEF HasNone
<1>4. CASE rows = <<>>
  BY <1>1, <1>3, <1>4, CountEmpty DEF OrderInv, HasNone
<1>5. CASE rows # <<>>
  <2>1. PICK emoji \in BOOLEAN : rows = RowsOf(CommonWords, "unlabelled", emoji)
    BY <1>2, <1>5
  <2>2. DOMAIN rows = DOMAIN CommonWords /\ \A i \in DOMAIN rows : rows[i].word = CommonWords[i]
    BY <2>1 DEF RowsOf
  <2>3. rows \in Seq(Row)
    BY <1>1 DEF OnceInv, SetsInv, IInv, TypeOK
  <2>4. Len(rows) = Len(CommonWords)
    BY <2>2, <2>3, Lists, LenProperties
  <2>5. Run(rows, CommonWords, 0)
    <3>1. 0 + Len(CommonWords) <= Len(rows)
      BY <2>4, Lists
    <3>2. \A j \in DOMAIN CommonWords : 0 + j = j
      BY Lists
    <3>3. QED BY <2>2, <3>1, <3>2 DEF Run
  <2>6. QED BY <1>1, <1>3, <2>5 DEF OrderInv, HasRun
<1>6. QED BY <1>4, <1>5

LEMMA OrderSame ==
    ASSUME OrderInv, rows \in Seq(Row), rows' \in Seq(Row), SameWords(rows, rows'),
           block' = "none"
    PROVE  OrderInv'
<1>1. \A w : CountIn(rows', w) = CountIn(rows, w)
  BY CountSame
<1>2. (HasNone(Common) => HasNone(Common)') /\ (HasNone(Letter) => HasNone(Letter)')
  BY <1>1 DEF HasNone
<1>3. Len(rows) <= Len(rows') /\ \A i \in DOMAIN rows : rows'[i].word = rows[i].word
  BY LenProperties DEF SameWords
<1>4. /\ HasRun(rows, CommonWords) => HasRun(rows', CommonWords)
      /\ HasRun(rows, Letters) => HasRun(rows', Letters)
  BY <1>3, Lists, RunStays
<1>5. QED BY <1>2, <1>4 DEF OrderInv

LEMMA OrderBegin == ASSUME OnceInv, OrderInv, Begin PROVE OrderInv'
<1>1. rows' = rows /\ work' = rows /\ done' = 0 /\ rows \in Seq(Row)
  BY DEF Begin, disk, OnceInv, SetsInv, IInv, TypeOK
<1>2. Grown(0)'
  <2>1. Len(rows) = Len(rows) + 0
    BY <1>1, LenProperties
  <2>2. QED BY <1>1, <2>1 DEF Grown
<1>3. QED BY <1>1, <1>2 DEF OrderInv, HasNone

LEMMA OrderWrite == ASSUME OnceInv, OrderInv, BlockStatement PROVE OrderInv'
<1>1. /\ rows \in Seq(Row) /\ work \in Seq(Row) /\ done \in Nat
      /\ block # "none" /\ rows' = rows /\ block' = block /\ done' = done + 1
      /\ done < Len(Script(block))
  BY DEF BlockStatement, Statement, disk, OnceInv, SetsInv, IInv, TypeOK, BlockInv,
         InTransaction
<1> DEFINE u == Script(block)[done + 1]
<1>2. work' = IF block = "emoji" THEN FillEmoji(work, u) ELSE Insert(work, u)
  BY DEF BlockStatement
<1>3. u \in Words
  <2>1. Script(block) \in Seq(Words)
    BY ScriptType
  <2>2. QED BY <1>1, <2>1
<1>4. Grown(IF block = "emoji" THEN 0 ELSE done)
  BY <1>1 DEF OrderInv
<1>5. CASE block = "emoji"
  <2>1. SameWords(work, work')
    BY <1>1, <1>2, <1>5, UpdatesKeepWords
  <2>2. work' \in Seq(Row)
    BY <1>1, <1>2, <1>5, EmojiRows
  <2>3. Len(work') = Len(work)
    BY <1>1, <2>1, <2>2, LenProperties DEF SameWords
  <2>4. Len(work) = Len(rows) + 0 /\ \A i \in DOMAIN rows : i \in DOMAIN work
    BY <1>1, <1>4, <1>5 DEF Grown
  <2>5. Grown(0)'
    BY <1>1, <1>4, <1>5, <2>1, <2>3, <2>4 DEF Grown, SameWords
  <2>6. QED BY <1>1, <1>5, <2>5 DEF OrderInv, HasNone
<1>6. CASE block # "emoji"
  <2> DEFINE r == [word |-> u, set |-> LabelOf(u), emoji |-> TRUE]
  <2>1. r \in Row /\ r.word = u
    BY <1>3 DEF Row, Labels, LabelOf
  <2>2. work' = Append(work, r)
    BY <1>2, <1>6 DEF Insert
  <2> HIDE DEF r
  <2>3. /\ Len(work') = Len(work) + 1 /\ work'[Len(work) + 1] = r
        /\ \A i \in 1..Len(work) : work'[i] = work[i]
    BY <1>1, <2>1, <2>2, AppendProperties
  <2>4. /\ Len(rows) \in Nat /\ DOMAIN rows = 1..Len(rows)
        /\ Len(work) = Len(rows) + done
        /\ \A i \in DOMAIN rows : work[i].word = rows[i].word
        /\ \A j \in 1..done : work[Len(rows) + j].word = Script(block)[j]
    BY <1>1, <1>4, <1>6, LenProperties DEF Grown
  <2> HIDE DEF u
  <2>5. Len(work') = Len(rows) + (done + 1)
    BY <1>1, <2>3, <2>4
  <2>6. \A i \in DOMAIN rows : work'[i].word = rows[i].word
    BY <1>1, <2>3, <2>4
  <2>7. ASSUME NEW j \in 1..(done + 1) PROVE work'[Len(rows) + j].word = Script(block)[j]
    <3>1. CASE j \in 1..done
      <4>1. Len(rows) + j \in 1..Len(work)
        BY <1>1, <2>4, <3>1
      <4>2. QED BY <2>3, <2>4, <3>1, <4>1
    <3>2. CASE j = done + 1
      <4>1. Len(rows) + j = Len(work) + 1
        BY <1>1, <2>4, <3>2
      <4>2. QED BY <2>1, <2>3, <3>2, <4>1 DEF u
    <3>3. QED BY <1>1, <3>1, <3>2
  <2>8. Grown(done)'
    BY <1>1, <2>5, <2>6, <2>7 DEF Grown
  <2>9. QED BY <1>1, <1>4, <1>6, <2>8 DEF OrderInv, HasNone
<1>7. QED BY <1>5, <1>6

\* Both lists in the script of a transaction are runs of what it has written.
LEMMA ScriptRuns ==
    ASSUME NEW table, NEW m \in Nat, NEW b, NEW list,
           \/ list = CommonWords /\ b \notin {"emoji", "migrateLetters", "letters"}
           \/ list = Letters /\ b \notin {"emoji", "common"},
           Len(table) = m + Len(Script(b)),
           \A j \in 1..Len(Script(b)) : table[m + j].word = Script(b)[j]
    PROVE  HasRun(table, list)
<1>0. /\ CommonWords \in Seq(Words) /\ Letters \in Seq(Words)
      /\ Len(CommonWords) \in Nat /\ Len(Letters) \in Nat
      /\ DOMAIN CommonWords = 1..Len(CommonWords) /\ DOMAIN Letters = 1..Len(Letters)
  <2>1. Common \subseteq Words /\ Letter \subseteq Words
    BY DEF Words, Common, Letter
  <2>2. QED BY <2>1, Lists
<1>1. CASE Script(b) = list
  <2>1. Len(list) \in Nat /\ DOMAIN list = 1..Len(list)
    BY <1>0
  <2>2. Run(table, list, m)
    BY <1>1, <2>1 DEF Run
  <2>3. QED BY <2>2 DEF HasRun
<1>2. CASE Script(b) = CommonWords \o Letters
  <2>1. /\ Len(Script(b)) = Len(CommonWords) + Len(Letters)
        /\ \A i \in 1..(Len(CommonWords) + Len(Letters)) :
              Script(b)[i] = IF i <= Len(CommonWords) THEN CommonWords[i]
                             ELSE Letters[i - Len(CommonWords)]
    BY <1>0, <1>2, ConcatProperties
  <2> DEFINE n == Len(CommonWords)
  <2>2. CASE list = CommonWords
    <3>1. \A j \in 1..n : table[m + j].word = CommonWords[j]
      BY <1>0, <2>1
    <3>2. Run(table, list, m)
      BY <1>0, <2>1, <2>2, <3>1 DEF Run
    <3>3. QED BY <3>2 DEF HasRun
  <2>3. CASE list = Letters
    <3>1. ASSUME NEW j \in 1..Len(Letters) PROVE table[(m + n) + j].word = Letters[j]
      <4>1. n + j \in 1..(n + Len(Letters)) /\ ~(n + j <= n) /\ (n + j) - n = j
            /\ m + (n + j) = (m + n) + j
        BY <1>0
      <4> HIDE DEF n
      <4>2. Script(b)[n + j] = Letters[j] /\ n + j \in 1..Len(Script(b))
        BY <2>1, <4>1 DEF n
      <4>3. QED BY <4>1, <4>2
    <3>2. m + n + Len(Letters) <= Len(table) /\ m + n \in Nat
      BY <1>0, <2>1
    <3>3. Run(table, list, m + n)
      BY <1>0, <2>3, <3>1, <3>2 DEF Run
    <3>4. QED BY <3>2, <3>3 DEF HasRun
  <2>4. QED BY <2>2, <2>3
<1>3. QED BY <1>1, <1>2 DEF Script

LEMMA OrderCommit == ASSUME OnceInv, OrderInv, Commit PROVE OrderInv'
<1>1. /\ rows \in Seq(Row) /\ work \in Seq(Row) /\ done \in Nat /\ block # "none"
      /\ rows' = work /\ block' = "none" /\ done = Len(Script(block))
      /\ block \in Blocks \ {"again"}
  BY DEF Commit, EndBlock, Statement, OnceInv, SetsInv, IInv, TypeOK, BlockInv,
         InTransaction, PathInv
<1> DEFINE n == IF block = "emoji" THEN 0 ELSE done
<1>2. Grown(n) /\ n \in Nat /\ Len(rows) \in Nat /\ Len(work) \in Nat
  BY <1>1, LenProperties DEF OrderInv
<1>3. Len(rows) <= Len(work)
  <2> HIDE DEF n
  <2>1. QED BY <1>2 DEF Grown
<1>4. /\ HasRun(rows, CommonWords) => HasRun(work, CommonWords)
      /\ HasRun(rows, Letters) => HasRun(work, Letters)
  BY <1>1, <1>2, <1>3, Lists, RunStays DEF Grown
<1>5. \A w \in Words :
        CountIn(rows', w) = CountIn(rows, w)
          + (IF block # "emoji" /\ w \in Ran(Script(block)) THEN 1 ELSE 0)
  BY CommitCounts
<1>6. \A w \in Words : CountIn(rows, w) \in Nat
  BY <1>1, CountType
<1>7. ASSUME NEW set, set \subseteq Words, HasNone(set),
             block # "emoji" => set \cap Ran(Script(block)) = {}
      PROVE  HasNone(set)'
  <2>1. \A w \in set : CountIn(rows', w) = 0
    BY <1>5, <1>6, <1>7 DEF HasNone
  <2>2. QED BY <2>1 DEF HasNone
<1>8. HasNone(Common)' \/ HasRun(work, CommonWords)
  <2>1. CASE block \in {"emoji", "migrateLetters", "letters"}
    BY <1>4, <1>7, <2>1, Disjoint, ScriptWords DEF OrderInv, Common, Letter
  <2>2. CASE block \notin {"emoji", "migrateLetters", "letters"}
    <3>1. /\ Len(work) = Len(rows) + Len(Script(block))
          /\ \A j \in 1..Len(Script(block)) : work[Len(rows) + j].word = Script(block)[j]
      BY <1>1, <1>2, <2>2 DEF Grown
    <3>2. QED BY <1>2, <2>2, <3>1, ScriptRuns
  <2>3. QED BY <2>1, <2>2
<1>9. HasNone(Letter)' \/ HasRun(work, Letters)
  <2>1. CASE block \in {"emoji", "common"}
    BY <1>4, <1>7, <2>1, Disjoint, ScriptWords DEF OrderInv, Common, Letter
  <2>2. CASE block \notin {"emoji", "common"}
    <3>1. /\ Len(work) = Len(rows) + Len(Script(block))
          /\ \A j \in 1..Len(Script(block)) : work[Len(rows) + j].word = Script(block)[j]
      BY <1>1, <1>2, <2>2 DEF Grown
    <3>2. QED BY <1>2, <2>2, <3>1, ScriptRuns
  <2>3. QED BY <2>1, <2>2
<1>10. QED BY <1>1, <1>8, <1>9 DEF OrderInv

LEMMA OrderStep == ASSUME Unfailing, OnceInv, OrderInv, [Next]_vars PROVE OrderInv'
<1>1. rows \in Seq(Row) /\ rows' \in Seq(Row) /\ (block # "none" <=> InTransaction)
      /\ (block # "none" => pc \in {"inBlock", "rollback"})
  BY OnceStep DEF OnceInv, SetsInv, IInv, TypeOK, BlockInv, InTransaction
<1>2. CASE V3AddSet \/ V3Label
  <2>1. block' = "none"
    BY <1>1, <1>2 DEF V3AddSet, V3Label, Statement, InTransaction, txn
  <2>2. SameWords(rows, rows)
    BY DEF SameWords
  <2>3. QED BY <1>1, <1>2, <2>1, <2>2, OrderSame, UpdatesKeepWords DEF V3AddSet, V3Label
<1>3. CASE OtherStep \/ V3Count \/ CountWords \/ CountSets \/ UNCHANGED vars
  <2>1. rows' = rows /\ (block' = "none" \/ UNCHANGED <<block, done, work>>)
    BY <1>3 DEF OtherStep, CreateVersionTable, CreateWords, CreateIndex, ReadVersion,
       Migrate2, V2Info, V2AddEmoji, V2AddImageUrl, V3Info, SetVersion, DeleteVersion,
       InsertVersion, Launch, Close, Crash, EndBlock, V3Count, CountWords, CountSets,
       vars, disk, txn
  <2>2. QED BY <2>1 DEF OrderInv, HasNone, Grown
<1>4. QED BY <1>2, <1>3, StepsLeft, OrderBegin, OrderWrite, OrderCommit

----------------------------------------------------------------------------
(* What the session reads.                                                 *)

LEMMA ReadInOrder ==
    ASSUME rows \in Seq(Row), LabelledRows(rows), "vocabulary_set" \in columns,
           NEW set \in VocabularySets, HasAll(Ran(Bundled[set])),
           HasRun(rows, Bundled[set])
    PROVE  Stored(set) = Bundled[set]
<1> DEFINE list == Bundled[set]
           n    == Len(list)
<1>1. /\ n \in Nat /\ DOMAIN list = 1..n /\ list \in Seq(Words)
      /\ \A w \in Words : w \in Ran(list) <=> LabelOf(w) = set
  <2>1. \/ list = CommonWords /\ set = "common-words"
        \/ list = Letters /\ set = "letters"
    <3>1. Bundled[set] = IF set = "letters" THEN Letters ELSE CommonWords
      BY DEF Bundled
    <3>2. set = "letters" \/ (set = "common-words" /\ set # "letters")
      BY DEF VocabularySets
    <3> HIDE DEF list
    <3>3. list = IF set = "letters" THEN Letters ELSE CommonWords
      BY <3>1 DEF list
    <3>4. QED BY <3>2, <3>3
  <2>2. Common \subseteq Words /\ Letter \subseteq Words
    BY Disjoint
  <2>3. QED BY <2>1, <2>2, Lists, Disjoint DEF Common, Letter
<1>2. PICK k \in Nat : Run(rows, list, k)
  BY DEF HasRun
<1> HIDE DEF list
<1>3. \A i \in DOMAIN rows : rows[i].word \in Words /\ rows[i].set = LabelOf(rows[i].word)
  <2>1. \A i \in DOMAIN rows : rows[i] \in Row
    OBVIOUS
  <2>2. QED BY <2>1 DEF LabelledRows, LabelledRow, Row
<1>4. \A j \in 1..n : /\ k + j \in DOMAIN rows /\ rows[k + j].word = list[j]
                      /\ list[j] \in Ran(list)
  <2>1. k + n <= Len(rows) /\ Len(rows) \in Nat /\ DOMAIN rows = 1..Len(rows)
    BY <1>2, LenProperties DEF Run
  <2>2. \A j \in 1..n : k + j \in DOMAIN rows
    BY <1>1, <2>1
  <2>3. QED BY <1>1, <1>2, <2>2 DEF Run, Ran
<1>5. Ids(set) = (k + 1)..(k + n)
  <2>1. ASSUME NEW i \in (k + 1)..(k + n) PROVE i \in Ids(set)
    <3>1. i - k \in 1..n /\ k + (i - k) = i
      BY <1>1
    <3>2. QED BY <1>1, <1>3, <1>4, <3>1 DEF Ids
  <2>2. ASSUME NEW i \in Ids(set) PROVE i \in (k + 1)..(k + n)
    <3>1. i \in DOMAIN rows /\ rows[i].word \in Ran(list)
      BY <1>1, <1>3 DEF Ids
    <3>2. PICK j \in 1..n : list[j] = rows[i].word
      BY <1>1, <3>1 DEF Ran
    <3> DEFINE w == list[j]
    <3>3. Cardinality(Occurs(rows, w)) = 1
      BY <1>4 DEF HasAll, CountIn, list
    <3>4. PICK x : Occurs(rows, w) = {x}
      BY <3>3, CountType, FS_Singleton
    <3>5. i \in Occurs(rows, w) /\ k + j \in Occurs(rows, w)
      BY <1>4, <3>1, <3>2 DEF Occurs
    <3>6. i = k + j
      BY <3>4, <3>5
    <3>7. QED BY <1>1, <3>6
  <2>3. QED BY <2>1, <2>2
<1>6. Cardinality(Ids(set)) = n
  <2>1. k + 1 \in Int /\ k + n \in Int
    BY <1>1
  <2>2. Cardinality((k + 1)..(k + n)) = IF k + 1 > k + n THEN 0 ELSE (k + n) - (k + 1) + 1
    BY <2>1, FS_Interval
  <2>3. QED BY <1>1, <1>5, <2>2
<1>7. ASSUME NEW j \in 1..n PROVE IdAt(Ids(set), j) = k + j
  <2>1. ASSUME NEW i \in (k + 1)..(k + n)
        PROVE  Cardinality({m \in (k + 1)..(k + n) : m <= i}) = i - k
    <3> DEFINE below == {m \in (k + 1)..(k + n) : m <= i}
    <3>1. below = (k + 1)..i
      BY <1>1
    <3> HIDE DEF below
    <3>2. i \in Int /\ k + 1 \in Int /\ ~(k + 1 > i)
      BY <1>1
    <3>3. Cardinality((k + 1)..i) = i - (k + 1) + 1
      BY <3>2, FS_Interval
    <3>4. Cardinality(below) = i - k
      BY <3>1, <3>2, <3>3
    <3>5. QED BY <3>4 DEF below
  <2>2. k + j \in (k + 1)..(k + n) /\ (k + j) - k = j
    BY <1>1
  <2>3. \A i \in (k + 1)..(k + n) : i - k = j => i = k + j
    BY <1>1
  <2>4. QED BY <1>5, <2>1, <2>2, <2>3 DEF IdAt
<1>8. \A j \in 1..n : rows[IdAt(Ids(set), j)].word = list[j]
  BY <1>4, <1>7
<1>9. Stored(set) = [j \in 1..n |-> list[j]]
  BY <1>6, <1>8 DEF Stored
<1>10. [j \in 1..n |-> list[j]] = list
  BY <1>1
<1>11. QED BY <1>9, <1>10 DEF list

LEMMA ReadyReads ==
    ASSUME OnceInv, OrderInv, pc = "ready"
    PROVE  [set \in VocabularySets |-> Stored(set)] = Bundled
<1>1. /\ HasAll(Common) /\ HasAll(Letter) /\ "vocabulary_set" \in columns
      /\ LabelledRows(rows) /\ rows \in Seq(Row)
  BY DEF OnceInv, SeedInv, RowsInv, SetsInv, IInv, TypeOK
<1>2. ~HasNone(Common) /\ ~HasNone(Letter)
  <2>1. 1 \in DOMAIN CommonWords /\ 1 \in DOMAIN Letters
    BY Lists, DataAssumption, EmptySeq
  <2>2. CommonWords[1] \in Common /\ Letters[1] \in Letter
    BY <2>1 DEF Common, Letter, Ran
  <2>3. QED BY <1>1, <2>2 DEF HasAll, HasNone
<1>3. \A set \in VocabularySets : HasAll(Ran(Bundled[set])) /\ HasRun(rows, Bundled[set])
  BY <1>1, <1>2 DEF OrderInv, Bundled, VocabularySets, Common, Letter
<1>4. \A set \in VocabularySets : Stored(set) = Bundled[set]
  BY <1>1, <1>3, ReadInOrder
<1>5. Bundled = [set \in VocabularySets |-> Bundled[set]]
  BY DEF Bundled
<1>6. QED BY <1>4, <1>5

----------------------------------------------------------------------------
(* The session is that of TypingSessionProofs.                             *)

\* What TypingSession assumes is true of the bundled lists.
LEMMA SessionAssumed == SP!SessionAssumption
<1>1. Bundled \in [VocabularySets -> Seq(Words)]
  <2>1. CommonWords \in Seq(Words) /\ Letters \in Seq(Words)
    <3>1. Common \subseteq Words /\ Letter \subseteq Words
      BY Disjoint
    <3>2. QED BY <3>1, Lists
  <2>2. QED BY <2>1 DEF Bundled
<1>2. \A set \in VocabularySets : Len(Bundled[set]) # 1
  <2>1. \A set \in VocabularySets :
          Bundled[set] = IF set = "letters" THEN Letters ELSE CommonWords
    BY DEF Bundled
  <2>2. QED BY <2>1, PageAssumption
<1>3. QED BY <1>1, <1>2, PageAssumption DEF SP!SessionAssumption

LEMMA SameEvents ==
    /\ Session!Idle = SP!Idle /\ Session!Event = SP!Event /\ Session!Tap = SP!Tap
    /\ Session!Settled = SP!Settled
BY DEF Session!Idle, SP!Idle, Session!Event, SP!Event, Session!Tap, SP!Tap,
   Session!Settled, SP!Settled

LEMMA SameViews ==
    \A view : /\ Session!currentWord(view) = SP!currentWord(view)
              /\ Session!targetWord(view) = SP!targetWord(view)
              /\ Session!isMatch(view) = SP!isMatch(view)
BY DEF Session!currentWord, SP!currentWord, Session!targetWord, SP!targetWord,
   Session!isMatch, SP!isMatch

LEMMA SameAwait ==
    \A offset, set, kind, index :
        Session!Await(offset, set, kind, index) = SP!Await(offset, set, kind, index)
BY DEF Session!Await, SP!Await, Session!Answers, SP!Answers, Session!GetWordsBatch,
       SP!GetWordsBatch

LEMMA SameMoveOn == \A rendered : Session!MoveOn(rendered) = SP!MoveOn(rendered)
BY SameAwait DEF Session!MoveOn, SP!MoveOn

LEMMA SameRuntime == Session!Runtime => SP!Runtime
BY SameAwait DEF Session!Runtime, SP!Runtime, Session!EndOfTask, SP!EndOfTask,
   Session!Resume, SP!Resume, Session!AfterLoad, SP!AfterLoad, Session!AfterMove,
   SP!AfterMove, Session!Render, SP!Render

LEMMA SameLearner == Session!Learner => SP!Learner
BY SameMoveOn, SameEvents, SameViews DEF Session!Learner, SP!Learner, Session!TapSkip, SP!TapSkip,
   Session!TapNext, SP!TapNext, Session!Swipe, SP!Swipe, Session!TapKey, SP!TapKey,
   Session!TapHome, SP!TapHome, Session!StartTyping, SP!StartTyping

LEMMA SameSession == Session!PatientNext => SP!PatientNext
BY SameRuntime, SameLearner, SameEvents DEF Session!PatientNext, SP!PatientNext

LEMMA FirstScreen ==
    LET view == Session!InitialView
    IN  view.page = "home" /\ view.set = NoSet /\ Session!currentWord(view) = NoWord
<1> DEFINE view == Session!InitialView
<1>1. view.page = "home" /\ view.set = NoSet /\ view.words = <<>> /\ view.index = 0
  BY DEF Session!InitialView
<1> HIDE DEF view
<1>2. Len(view.words) = 0
  BY <1>1, EmptySeq
<1>3. Session!currentWord(view) = NoWord
  BY ONLY <1>1, <1>2 DEF Session!currentWord
<1>4. QED BY <1>1, <1>3 DEF view

LEMMA FreshReady ==
    ASSUME OnceInv, OrderInv, pc = "ready", Fresh PROVE SP!IInv /\ SP!WalkInv
<1>1. SP!Init
  BY ReadyReads DEF Fresh, SP!Init, Session!InitialView, SP!InitialView
<1>2. QED BY <1>1, SessionAssumed, SP!InitHolds, SP!WalkInit

----------------------------------------------------------------------------
LEMMA AppStarts == ASSUME Unfailing, AppInit PROVE AppInv
BY OnceStart, OrderStart DEF AppInit, AppInv, Fresh

LEMMA DatabaseStep ==
    ASSUME Unfailing, OnceInv, OrderInv, [Next]_vars PROVE OnceInv' /\ OrderInv'
BY OnceStep, OrderStep

LEMMA InitializeHolds == ASSUME Unfailing, AppInv, AppInitialize PROVE AppInv'
<1>1. [Next]_vars /\ pc # "ready"
  BY DEF AppInitialize, Next, ProgramStep, Launch, Crash, Running, Finished, Open,
     CreateVersionTable, CreateWords, CreateIndex, ReadVersion, Migrate2, V2Info,
     V2AddEmoji, V2AddImageUrl, Migrate3, V3Info, V3AddSet, V3Label, V3Count, SetVersion,
     DeleteVersion, InsertVersion, SeedIfEmpty, CountWords, CountSets, FixLabels,
     Transaction, Begin, Begins, BlockStatement, Commit, Rollback, Clear, DeleteWords,
     DeleteVersions, SchemaError, Throw, Statement
<1>2. OnceInv' /\ OrderInv'
  BY <1>1, DatabaseStep DEF AppInv
<1>3. Fresh'
  BY <1>1 DEF AppInv, AppInitialize, session, Fresh
<1>4. QED BY <1>2, <1>3 DEF AppInv

LEMMA ClosesHolds == ASSUME Unfailing, AppInv, AppCloses PROVE AppInv'
<1>1. OnceInv' /\ OrderInv'
  BY DatabaseStep DEF AppInv, AppCloses, Next
<1>2. Fresh'
  BY DEF AppCloses, NewProcess, Fresh
<1>3. QED BY <1>1, <1>2 DEF AppInv

\* A session step: the file is ready, and stays as it is.
LEMMA SessionReady ==
    ASSUME AppInv, AppSession
    PROVE  /\ pc = "ready" /\ pc' = "ready" /\ SP!IInv /\ SP!WalkInv
           /\ [SP!Next]_(SP!sessionVars) /\ [SP!PatientNext]_(SP!sessionVars)
           /\ UNCHANGED vars
<1>1. pc \in {"ready", "failed"} /\ pc # "failed" /\ UNCHANGED vars
  BY DEF AppInv, AppSession, OnceInv, PathInv, NeverRun, Finished
<1>2. pc' = pc
  BY <1>1 DEF vars
<1>3. SP!IInv /\ SP!WalkInv
  BY <1>1, FreshReady DEF AppInv
<1>4. SP!PatientNext
  BY SameSession DEF AppSession
<1>5. SP!PatientNext => SP!Next
  BY DEF SP!PatientNext, SP!Next
<1>6. QED BY <1>1, <1>2, <1>3, <1>4, <1>5

LEMMA SessionHolds == ASSUME Unfailing, AppInv, AppSession PROVE AppInv'
<1>1. /\ pc' = "ready" /\ SP!IInv /\ SP!WalkInv /\ UNCHANGED vars
      /\ [SP!Next]_(SP!sessionVars) /\ [SP!PatientNext]_(SP!sessionVars)
  BY SessionReady
<1>2. SP!IInv'
  BY <1>1, SessionAssumed, SP!StepHolds
<1>3. SP!WalkInv'
  BY <1>1, SessionAssumed, SP!WalkStep
<1>4. OnceInv' /\ OrderInv'
  BY <1>1, DatabaseStep DEF AppInv
<1>5. QED BY <1>1, <1>2, <1>3, <1>4 DEF AppInv

LEMMA AppStep == ASSUME Unfailing, AppInv, [AppNext]_appVars PROVE AppInv'
<1>1. CASE UNCHANGED appVars
  <2>1. OnceInv' /\ OrderInv' /\ UNCHANGED <<vars, session>>
    BY <1>1, DatabaseStep DEF AppInv, appVars
  <2>2. CASE Fresh
    BY <2>1, <2>2 DEF AppInv, Fresh, session
  <2>3. CASE pc = "ready" /\ SP!IInv /\ SP!WalkInv
    <3>1. UNCHANGED SP!sessionVars
      BY <2>1 DEF SP!sessionVars, session, vars, disk, Stored, Ids
    <3>2. SP!IInv' /\ SP!WalkInv'
      BY <2>3, <3>1, SessionAssumed, SP!StepHolds, SP!WalkStep
    <3>3. QED BY <2>1, <2>3, <3>2 DEF AppInv, vars
  <2>4. QED BY <2>2, <2>3 DEF AppInv
<1>2. QED BY <1>1, InitializeHolds, ClosesHolds, SessionHolds DEF AppNext

\* The invariant that joins the two: what the file holds at each statement, in which order,
\* and that a session has begun only when it is ready.
THEOREM LaunchInductive == ASSUME Unfailing PROVE AppSpec => []AppInv
<1>1. AppInit => AppInv
  BY AppStarts
<1>2. AppInv /\ [AppNext]_appVars => AppInv'
  BY AppStep
<1>3. QED BY <1>1, <1>2, PTL DEF AppSpec

\* By the definition of its steps the app makes those of the database, so that every
\* theorem about Spec holds of AppSpec.
LEMMA AppRunsDatabase == AppSpec => Spec
<1>1. AppInit => Init
  BY DEF AppInit
<1>2. [AppNext]_appVars => [Next]_vars
  BY DEF AppNext, AppInitialize, AppCloses, AppSession, Next, appVars
<1>3. QED BY <1>1, <1>2, PTL DEF AppSpec, Spec

\* Through every launch of the whole app, whole sets are stored at once and only once
\* (services/README.md:13).
THEOREM AppImplementsStore == ASSUME Unfailing PROVE AppSpec => ImplementsStore
BY AppRunsDatabase, DatabaseImplementsStore

\* "No words available" (App.tsx:284) is never on the screen, whichever version left the
\* file and wherever earlier launches were killed (database.ts:10), for lists of any length.
THEOREM WordsAreThere == ASSUME Unfailing PROVE AppSpec => []NeverWithoutWords
<1>1. AppInv => NeverWithoutWords
  <2> SUFFICES ASSUME AppInv, shown.page = "typing", ~shown.isLoading PROVE shown.words # <<>>
    BY DEF NeverWithoutWords
  <2>1. ~Fresh
    BY FirstScreen DEF Fresh
  <2>2. pc = "ready" /\ SP!Loaded(shown)
    BY <2>1 DEF AppInv, SP!WalkInv
  <2>3. [set \in VocabularySets |-> Stored(set)] = Bundled
    BY <2>2, ReadyReads DEF AppInv
  <2>4. \A set \in VocabularySets : Len(Bundled[set]) # 0
    <3>1. \A set \in VocabularySets :
            Bundled[set] = IF set = "letters" THEN Letters ELSE CommonWords
      BY DEF Bundled
    <3>2. Len(CommonWords) # 0 /\ Len(Letters) # 0
      BY Lists, DataAssumption, EmptySeq
    <3>3. QED BY <3>1, <3>2
  <2>5. QED BY <2>2, <2>3, <2>4 DEF SP!Loaded
<1>2. QED BY <1>1, LaunchInductive, PTL

----------------------------------------------------------------------------
(* The lesson.                                                             *)

LEMMA FreshScreen == Fresh => shown.set = NoSet /\ Session!PlaceShown = 0
                              /\ Session!currentWord(shown) = NoWord
BY FirstScreen DEF Fresh, Session!PlaceShown

LEMMA LessonStep ==
    ASSUME Unfailing, AppInv, [AppNext]_appVars PROVE [Lesson!Next]_(Lesson!walk)
<1>1. CASE UNCHANGED session
  BY <1>1 DEF session, Lesson!walk, Session!PlaceShown, Session!currentWord
<1>2. CASE AppCloses
  <2>1. shown' = Session!InitialView
    BY <1>2 DEF AppCloses, NewProcess
  <2>2. /\ shown'.set = NoSet /\ Session!PlaceShown' = 0
        /\ Session!currentWord(shown)' = NoWord
    BY <2>1, FirstScreen DEF Session!PlaceShown, Session!currentWord
  <2>3. QED BY <2>2 DEF Lesson!Next, Lesson!Leave, Lesson!MoveTo, Lesson!WordAt
<1>3. CASE AppSession
  <2>1. /\ pc = "ready" /\ SP!IInv /\ SP!WalkInv /\ UNCHANGED vars
        /\ [SP!PatientNext]_(SP!sessionVars)
    BY <1>3, SessionReady
  <2>2. [SP!Walk!Next]_(SP!Walk!walk)
    BY <2>1, SessionAssumed, SP!WalkRefined
  <2>3. [set \in VocabularySets |-> Stored(set)] = Bundled
    BY <2>1, ReadyReads DEF AppInv
  <2>4. QED BY <2>2, <2>3 DEF SP!Walk!Next, SP!Walk!walk, SP!Walk!Advance, SP!Walk!Leave,
         SP!Walk!Choose, SP!Walk!MoveTo, SP!Walk!WordAt, SP!PlaceShown, SP!currentWord,
         Lesson!Next, Lesson!walk, Lesson!Advance, Lesson!Leave, Lesson!Choose,
         Lesson!MoveTo, Lesson!WordAt, Session!PlaceShown, Session!currentWord
<1>4. QED BY <1>1, <1>2, <1>3 DEF AppNext, AppInitialize, appVars

\* From the file any installed version left, through every launch, crash and kill: a learner
\* who waits for the screen is shown the bundled words of the chosen set from the first on,
\* in their order, each once.
THEOREM AppTeachesLesson == ASSUME Unfailing PROVE AppSpec => ImplementsLesson
<1>1. AppInit => Lesson!Init
  BY FreshScreen DEF AppInit, Fresh, Lesson!Init
<1>2. AppInv /\ [AppNext]_appVars => [Lesson!Next]_(Lesson!walk)
  BY LessonStep
<1>3. QED BY <1>1, <1>2, LaunchInductive, PTL DEF AppSpec, ImplementsLesson, Lesson!Spec
=============================================================================
