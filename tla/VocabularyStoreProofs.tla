----------------------- MODULE VocabularyStoreProofs -----------------------
(***************************************************************************)
(* How often VocabularyDatabase stores each word; and that it implements   *)
(* VocabularyStore when no statement fails and nothing is reset, from      *)
(* every file that an installed version left, through any number of        *)
(* crashes: for lists of any length without repetition.                    *)
(***************************************************************************)
EXTENDS VocabularyDatabaseProofs, FiniteSetTheorems

(* How often each word is stored.                                          *)

Distinct(list) == \A i, j \in DOMAIN list : list[i] = list[j] => i = j

Occurs(table, w) == {i \in DOMAIN table : table[i].word = w}
CountIn(table, w) == Cardinality(Occurs(table, w))

SameWords(old, new) ==
    DOMAIN old = DOMAIN new /\ \A i \in DOMAIN old : old[i].word = new[i].word

LEMMA CountType == ASSUME NEW table \in Seq(Row), NEW w
                   PROVE  IsFiniteSet(Occurs(table, w)) /\ CountIn(table, w) \in Nat
<1>1. IsFiniteSet(1..Len(table))
  BY FS_Interval
<1>2. Occurs(table, w) \subseteq 1..Len(table)
  BY DEF Occurs
<1>3. QED BY <1>1, <1>2, FS_Subset, FS_CardinalityType DEF CountIn

LEMMA CountSame == ASSUME NEW old, NEW new, SameWords(old, new), NEW w
                   PROVE  CountIn(old, w) = CountIn(new, w)
<1>1. Occurs(old, w) = Occurs(new, w)
  BY DEF SameWords, Occurs
<1>2. QED BY <1>1 DEF CountIn

LEMMA CountEmpty == ASSUME NEW w PROVE CountIn(<<>>, w) = 0
<1>1. Occurs(<<>>, w) = {}
  BY DEF Occurs
<1>2. QED BY <1>1, FS_EmptySet DEF CountIn

\* An INSERT adds one row of its word and none of any other.
LEMMA CountInsert ==
    ASSUME NEW table \in Seq(Row), NEW u \in Words, NEW w
    PROVE  CountIn(Insert(table, u), w) = CountIn(table, w) + (IF u = w THEN 1 ELSE 0)
<1> DEFINE r == [word |-> u, set |-> LabelOf(u), emoji |-> TRUE]
           n == Len(table) + 1
<1>1. r \in Row /\ r.word = u
  BY DEF Row, Labels, LabelOf
<1>2. Insert(table, u) = Append(table, r)
  BY DEF Insert
<1> HIDE DEF r
<1>3. /\ DOMAIN Insert(table, u) = DOMAIN table \cup {n} /\ n \notin DOMAIN table
      /\ \A i \in DOMAIN table : Insert(table, u)[i] = table[i]
      /\ Insert(table, u)[n] = r
  BY <1>1, <1>2
<1> HIDE DEF n
<1>4. CASE u = w
  <2>1. Occurs(Insert(table, u), w) = Occurs(table, w) \cup {n} /\ n \notin Occurs(table, w)
    BY <1>1, <1>3, <1>4 DEF Occurs
  <2>2. QED BY <1>4, <2>1, CountType, FS_AddElement DEF CountIn
<1>5. CASE u # w
  <2>1. Occurs(Insert(table, u), w) = Occurs(table, w)
    BY <1>1, <1>3, <1>5 DEF Occurs
  <2>2. QED BY <1>5, <2>1, CountType DEF CountIn
<1>6. QED BY <1>4, <1>5

\* The UPDATE and ALTER statements keep the words.
LEMMA UpdatesKeepWords ==
    ASSUME NEW table \in Seq(Row), NEW u
    PROVE  /\ SameWords(table, Label(table)) /\ SameWords(table, AddDefault(table))
           /\ SameWords(table, FillEmoji(table, u))
<1>1. \A i \in DOMAIN table : table[i] \in Row /\ "common-words" \in Labels
  BY DEF Labels
<1>2. /\ \A i \in DOMAIN table : Label(table)[i].word = table[i].word
      /\ \A i \in DOMAIN table : AddDefault(table)[i].word = table[i].word
  BY <1>1, RowFields DEF Label, AddDefault
<1>3. DOMAIN Label(table) = DOMAIN table /\ DOMAIN AddDefault(table) = DOMAIN table
  BY DEF Label, AddDefault
<1>4. QED BY <1>2, <1>3, EmojiRows DEF SameWords

\* A file of an earlier version holds every common word once.
LEMMA CountImage ==
    ASSUME Distinct(CommonWords), NEW emoji, NEW w
    PROVE  CountIn(RowsOf(CommonWords, "unlabelled", emoji), w)
              = IF w \in Ran(CommonWords) THEN 1 ELSE 0
<1> DEFINE t == RowsOf(CommonWords, "unlabelled", emoji)
<1>1. DOMAIN t = DOMAIN CommonWords /\ \A i \in DOMAIN t : t[i].word = CommonWords[i]
  BY DEF RowsOf
<1> HIDE DEF t
<1>2. CASE w \in Ran(CommonWords)
  <2>1. PICK k \in DOMAIN CommonWords : CommonWords[k] = w
    BY <1>2 DEF Ran
  <2>2. Occurs(t, w) = {k}
    BY <1>1, <2>1 DEF Occurs, Distinct
  <2>3. QED BY <1>2, <2>2, FS_Singleton DEF CountIn, t
<1>3. CASE w \notin Ran(CommonWords)
  <2>1. Occurs(t, w) = {}
    BY <1>1, <1>3 DEF Occurs, Ran
  <2>2. QED BY <1>3, <2>1, FS_EmptySet DEF CountIn, t
<1>4. QED BY <1>2, <1>3

\* No script has a word twice, and each goes through whole lists.
LEMMA ScriptDistinct ==
    ASSUME Distinct(CommonWords), Distinct(Letters), NEW b
    PROVE  Distinct(Script(b))
<1>1. CommonWords \in Seq(Ran(CommonWords)) /\ Letters \in Seq(Ran(Letters))
      /\ Ran(CommonWords) \cap Ran(Letters) = {}
  BY DataAssumption
<1>2. Distinct(CommonWords \o Letters)
  <2>1. DOMAIN (CommonWords \o Letters) = 1..(Len(CommonWords) + Len(Letters))
        /\ Len(CommonWords) \in Nat /\ Len(Letters) \in Nat
        /\ DOMAIN CommonWords = 1..Len(CommonWords) /\ DOMAIN Letters = 1..Len(Letters)
    BY <1>1
  <2>2. \A i \in DOMAIN (CommonWords \o Letters) :
          (CommonWords \o Letters)[i] = IF i <= Len(CommonWords) THEN CommonWords[i]
                                        ELSE Letters[i - Len(CommonWords)]
    BY <1>1
  <2>3. \A i \in 1..Len(CommonWords), j \in 1..Len(Letters) : CommonWords[i] # Letters[j]
    BY <1>1, <2>1 DEF Ran
  <2>4. SUFFICES ASSUME NEW i \in DOMAIN (CommonWords \o Letters),
                        NEW j \in DOMAIN (CommonWords \o Letters),
                        (CommonWords \o Letters)[i] = (CommonWords \o Letters)[j]
                 PROVE  i = j
    BY DEF Distinct
  <2>5. CASE i <= Len(CommonWords)
    BY <2>1, <2>2, <2>3, <2>4, <2>5 DEF Distinct
  <2>6. CASE i > Len(CommonWords)
    BY <2>1, <2>2, <2>3, <2>4, <2>6 DEF Distinct
  <2>7. QED BY <2>1, <2>4, <2>5, <2>6
<1>3. QED BY <1>2 DEF Script

LEMMA ScriptWords ==
    ASSUME NEW b
    PROVE  Ran(Script(b)) = CASE b \in {"emoji", "common"} -> Ran(CommonWords)
                              [] b \in {"migrateLetters", "letters"} -> Ran(Letters)
                              [] OTHER -> Ran(CommonWords) \cup Ran(Letters)
<1>1. CommonWords \in Seq(Ran(CommonWords)) /\ Letters \in Seq(Ran(Letters))
  BY DataAssumption
<1>2. Ran(CommonWords \o Letters) = Ran(CommonWords) \cup Ran(Letters)
  <2> DEFINE m == Len(CommonWords)
  <2>1. DOMAIN (CommonWords \o Letters) = 1..(m + Len(Letters))
        /\ m \in Nat /\ Len(Letters) \in Nat
        /\ DOMAIN CommonWords = 1..m /\ DOMAIN Letters = 1..Len(Letters)
    BY <1>1
  <2>2. \A i \in 1..(m + Len(Letters)) :
          (CommonWords \o Letters)[i] = IF i <= m THEN CommonWords[i] ELSE Letters[i - m]
    BY <1>1
  <2> HIDE DEF m
  <2>3. \A i \in 1..m : i \in 1..(m + Len(Letters)) /\ (CommonWords \o Letters)[i] = CommonWords[i]
    BY <2>1, <2>2
  <2>4. \A j \in 1..Len(Letters) :
          m + j \in 1..(m + Len(Letters)) /\ (CommonWords \o Letters)[m + j] = Letters[j]
    BY <2>1, <2>2
  <2>5. \A i \in 1..(m + Len(Letters)) : i \in 1..m \/ i - m \in 1..Len(Letters)
    BY <2>1
  <2>6. ASSUME NEW i \in 1..(m + Len(Letters))
        PROVE  (CommonWords \o Letters)[i] \in Ran(CommonWords) \cup Ran(Letters)
    <3>1. CASE i \in 1..m
      BY <2>1, <2>3, <3>1 DEF Ran
    <3>2. CASE i \notin 1..m
      <4>1. i - m \in DOMAIN Letters /\ (CommonWords \o Letters)[i] = Letters[i - m]
        BY <2>1, <2>2, <2>5, <3>2
      <4>2. QED BY <4>1 DEF Ran
    <3>3. QED BY <3>1, <3>2
  <2>7. Ran(CommonWords) \cup Ran(Letters) \subseteq Ran(CommonWords \o Letters)
    BY <2>1, <2>3, <2>4 DEF Ran
  <2>8. Ran(CommonWords \o Letters) = {(CommonWords \o Letters)[i] : i \in 1..(m + Len(Letters))}
    BY <2>1 DEF Ran
  <2>9. QED BY <2>6, <2>7, <2>8
<1>3. QED BY <1>2 DEF Script

----------------------------------------------------------------------------
(* The open transaction adds each word of its script once, as it goes.     *)

Whole(table) ==
    /\ \A u, v \in Ran(CommonWords) : CountIn(table, u) = CountIn(table, v)
    /\ \A u, v \in Ran(Letters) : CountIn(table, u) = CountIn(table, v)

Added(b, n, w) ==
    IF b # "emoji" /\ w \in {Script(b)[k] : k \in 1..n} THEN 1 ELSE 0

WorkInv == block # "none" =>
              \A w \in Words : CountIn(work, w) = CountIn(rows, w) + Added(block, done, w)

SetsInv == IInv /\ WorkInv /\ Whole(rows)

LEMMA SetsInit == ASSUME Distinct(CommonWords), Init PROVE SetsInv
<1>1. IInv
  BY InvInit
<1>2. WorkInv
  BY DEF Init, WorkInv
<1>3. Whole(rows)
  <2>1. CASE rows = <<>>
    BY <2>1, CountEmpty DEF Whole
  <2>2. ASSUME NEW emoji \in BOOLEAN, rows = RowsOf(CommonWords, "unlabelled", emoji)
        PROVE  Whole(rows)
    BY <2>2, CountImage, DataAssumption DEF Whole
  <2>3. rows = <<>> \/ \E emoji \in BOOLEAN : rows = RowsOf(CommonWords, "unlabelled", emoji)
    <3>1. PICK image \in {FreshImage, FirstImage, Version1Image, Version2Image, UnlabelledImage} :
            rows = image.rows
      BY ImageAssumption DEF Init
    <3>2. \A v, c, t : Image(v, c, t).rows = t
      BY DEF Image
    <3>3. /\ FreshImage.rows = <<>>
          /\ FirstImage.rows = RowsOf(CommonWords, "unlabelled", FALSE)
          /\ Version1Image.rows = RowsOf(CommonWords, "unlabelled", FALSE)
          /\ Version2Image.rows = RowsOf(CommonWords, "unlabelled", TRUE)
          /\ UnlabelledImage.rows = RowsOf(CommonWords, "unlabelled", TRUE)
      BY <3>2 DEF FreshImage, FirstImage, Version1Image, Version2Image, UnlabelledImage
    <3>4. QED BY <3>1, <3>3
  <2>4. QED BY <2>1, <2>2, <2>3
<1>4. QED BY <1>1, <1>2, <1>3 DEF SetsInv

\* The steps that touch neither the rows nor an open transaction's copy of them.
LEMMA WorkStays ==
    ASSUME WorkInv, Whole(rows), UNCHANGED rows,
           block' = "none" \/ UNCHANGED <<block, done, work>>
    PROVE  WorkInv' /\ Whole(rows)'
BY DEF WorkInv, Whole

\* The steps outside a transaction that keep the words of all rows.
LEMMA WordsStay ==
    ASSUME SameWords(rows, rows'), Whole(rows), block' = "none"
    PROVE  WorkInv' /\ Whole(rows)'
BY CountSame DEF WorkInv, Whole

LEMMA SetsStep ==
    ASSUME Distinct(CommonWords), Distinct(Letters), SetsInv, [Next]_vars
    PROVE  SetsInv'
<1>1. IInv' /\ IInv /\ WorkInv /\ Whole(rows)
  BY InvStep DEF SetsInv
<1>2. SUFFICES WorkInv' /\ Whole(rows)'
  BY <1>1 DEF SetsInv
<1>3. /\ rows \in Seq(Row) /\ work \in Seq(Row) /\ done \in Nat
      /\ block # "none" <=> InTransaction
      /\ block \in Blocks \cup {"none"}
  BY <1>1 DEF IInv, TypeOK, BlockInv
<1>4. CASE V3AddSet \/ V3Label \/ FixLabels
  <2>1. block' = "none"
    BY <1>3, <1>4 DEF V3AddSet, V3Label, FixLabels, Statement, InTransaction, txn
  <2>2. SameWords(rows, rows')
    <3>1. SameWords(rows, rows)
      BY DEF SameWords
    <3>2. QED BY <1>3, <1>4, <3>1, UpdatesKeepWords DEF V3AddSet, V3Label, FixLabels
  <2>3. QED BY <1>1, <2>1, <2>2, WordsStay
<1>5. CASE DeleteWords
  <2>1. block' = "none" /\ rows' = <<>>
    BY <1>3, <1>5 DEF DeleteWords, Statement, InTransaction, txn
  <2>2. QED BY <2>1, CountEmpty DEF WorkInv, Whole
<1>6. CASE Begin
  <2>1. work' = rows /\ rows' = rows /\ done' = 0
    BY <1>6 DEF Begin, disk
  <2>2. \A w \in Words : CountIn(rows, w) = CountIn(rows, w) + Added(block', 0, w)
    <3>1. \A w : Added(block', 0, w) = 0
      BY DEF Added
    <3>2. QED BY <1>3, <3>1, CountType
  <2>3. QED BY <1>1, <2>1, <2>2 DEF WorkInv, Whole
<1>7. CASE BlockStatement
  <2> DEFINE u == Script(block)[done + 1]
  <2>1. /\ rows' = rows /\ block' = block /\ block # "none" /\ done' = done + 1
        /\ work' = IF block = "emoji" THEN FillEmoji(work, u) ELSE Insert(work, u)
        /\ done < Len(Script(block))
    BY <1>3, <1>7 DEF BlockStatement, disk, Statement, InTransaction
  <2>2. Script(block) \in Seq(Words) /\ done + 1 \in DOMAIN Script(block) /\ u \in Words
    <3>1. Script(block) \in Seq(Words)
      BY ScriptType
    <3>2. QED BY <1>3, <2>1, <3>1
  <2>3. ASSUME NEW w \in Words
        PROVE  CountIn(work', w) = CountIn(rows, w) + Added(block, done + 1, w)
    <3>1. CountIn(work, w) = CountIn(rows, w) + Added(block, done, w)
      BY <1>1, <2>1 DEF WorkInv
    <3>2. CASE block = "emoji"
      <4>1. CountIn(work', w) = CountIn(work, w)
        BY <1>3, <2>1, <3>2, UpdatesKeepWords, CountSame
      <4>2. Added(block, done + 1, w) = Added(block, done, w)
        BY <3>2 DEF Added
      <4>3. QED BY <3>1, <4>1, <4>2
    <3>3. CASE block # "emoji"
      <4>1. CountIn(work', w) = CountIn(work, w) + (IF u = w THEN 1 ELSE 0)
        BY <1>3, <2>1, <2>2, <3>3, CountInsert
      <4>2. Added(block, done + 1, w) = Added(block, done, w) + (IF u = w THEN 1 ELSE 0)
        <5>1. w \in {Script(block)[k] : k \in 1..(done + 1)}
              <=> (w = u \/ w \in {Script(block)[k] : k \in 1..done})
          BY <1>3
        <5>2. u \notin {Script(block)[k] : k \in 1..done}
          <6>1. Distinct(Script(block))
            BY ScriptDistinct
          <6>2. \A k \in 1..done : k \in DOMAIN Script(block) /\ k # done + 1
            BY <1>3, <2>1, <2>2
          <6>3. QED BY <2>2, <6>1, <6>2 DEF Distinct
        <5> HIDE DEF u
        <5>3. QED BY <3>3, <5>1, <5>2 DEF Added
      <4>3. CountIn(work, w) \in Nat /\ CountIn(rows, w) \in Nat /\ Added(block, done, w) \in Nat
        BY <1>3, CountType DEF Added
      <4> HIDE DEF u
      <4>4. QED BY <3>1, <4>1, <4>2, <4>3
    <3>4. QED BY <3>2, <3>3
  <2>4. QED BY <1>1, <2>1, <2>3 DEF WorkInv, Whole
<1>8. CASE Commit
  <2>1. /\ rows' = work /\ block' = "none" /\ block # "none" /\ done = Len(Script(block))
        /\ block \in Blocks
    BY <1>3, <1>8 DEF Commit, EndBlock, Statement, InTransaction
  <2>2. Script(block) \in Seq(Words)
    BY ScriptType
  <2>3. {Script(block)[k] : k \in 1..done} = Ran(Script(block))
    BY <2>1, <2>2 DEF Ran
  <2>4. \A w : Added(block, done, w) = IF block # "emoji" /\ w \in Ran(Script(block)) THEN 1 ELSE 0
    BY <2>3 DEF Added
  <2>5. /\ \A u, v \in Ran(CommonWords) : Added(block, done, u) = Added(block, done, v)
        /\ \A u, v \in Ran(Letters) : Added(block, done, u) = Added(block, done, v)
    BY <2>4, ScriptWords, DataAssumption
  <2>6. \A w \in Words : CountIn(rows', w) = CountIn(rows, w) + Added(block, done, w)
    BY <1>1, <2>1 DEF WorkInv
  <2>7. Whole(rows)'
    BY <1>1, <2>5, <2>6 DEF Whole, Words
  <2>8. QED BY <2>1, <2>7 DEF WorkInv
<1>9. CASE Next /\ ~(V3AddSet \/ V3Label \/ FixLabels \/ DeleteWords \/ Begin
                     \/ BlockStatement \/ Commit)
  <2>1. UNCHANGED rows /\ (block' = "none" \/ UNCHANGED <<block, done, work>>)
    BY <1>9 DEF Next, ProgramStep, Open, Migrate2, Migrate3, SetVersion, SeedIfEmpty,
       Transaction, Clear, CreateVersionTable, CreateWords, CreateIndex,
       ReadVersion, V2Info, V2AddEmoji, V2AddImageUrl, V3Info, V3Count,
       DeleteVersion, InsertVersion, CountWords, CountSets, Rollback, EndBlock,
       DeleteVersions, SchemaError, Throw, Fault, Launch, Close, Reset, Crash,
       disk, txn
  <2>2. QED BY <1>1, <2>1, WorkStays
<1>10. CASE UNCHANGED vars
  BY <1>1, <1>10, WorkStays DEF vars, disk, txn
<1>11. QED BY <1>4, <1>5, <1>6, <1>7, <1>8, <1>9, <1>10

\* Whatever crashes, fails, is rolled back or reset: no part of a vocabulary set is
\* ever in the file, only whole sets, some number of times.
THEOREM OnlyWholeSets ==
    ASSUME Distinct(CommonWords), Distinct(Letters)
    PROVE  Spec => []WholeSets
<1>1. Init => SetsInv
  BY SetsInit
<1>2. SetsInv /\ [Next]_vars => SetsInv'
  BY SetsStep
<1>3. SetsInv => WholeSets
  BY DEF SetsInv, Whole, CountIn, Occurs, WholeSets, Copies
<1>4. QED BY <1>1, <1>2, <1>3, PTL DEF Spec

----------------------------------------------------------------------------
(* The refinement.                                                         *)

Common == Ran(CommonWords)
Letter == Ran(Letters)

HasAll(set)  == \A w \in set : CountIn(rows, w) = 1
HasNone(set) == \A w \in set : CountIn(rows, w) = 0

\* Each set is there once or not at all.
StoreInv == (HasAll(Common) \/ HasNone(Common)) /\ (HasAll(Letter) \/ HasNone(Letter))

\* A row has the label of its list, or none as long as there is no column for it;
\* such a row is one of the first app's, which knew no letters.
LabelledRow(row) ==
    \/ row.set = LabelOf(row.word)
    \/ /\ "vocabulary_set" \notin columns
       /\ row.set = "unlabelled" /\ row.word \in Common
LabelledRows(table) == \A i \in DOMAIN table : LabelledRow(table[i])
RowsInv ==
    /\ LabelledRows(rows)
    /\ block # "none" => LabelledRows(work)
    /\ columns = {} => rows = <<>>

\* What the counts before a seeding have found is still true when it begins, and when
\* it commits.
At(st, b) == pc = st \/ block = b
SeedInv ==
    /\ At("v3Begin", "migrateLetters") => HasNone(Letter)
    /\ At("commonBegin", "common") =>
          /\ HasNone(Common)
          /\ IF "letters" \in found THEN HasAll(Letter) ELSE HasNone(Letter)
    /\ At("lettersBegin", "letters") => HasAll(Common) /\ HasNone(Letter)
    /\ At("allBegin", "all") => HasNone(Common) /\ HasNone(Letter)
    /\ pc = "ready" => HasAll(Common) /\ HasAll(Letter) /\ "vocabulary_set" \in columns

\* The statements that run only after a failure, on unlabelled rows, or in a reset.
NeverRun == {"failed", "rollback", "fixLabels", "againBegin", "resetWords", "resetVersion"}
PathInv == pc \notin NeverRun /\ block # "again" /\ call = "init"

OnceInv == SetsInv /\ StoreInv /\ RowsInv /\ SeedInv /\ PathInv

\* The device works, nobody resets, and the file is an installed version's.
Unfailing ==
    /\ Distinct(CommonWords) /\ Distinct(Letters)
    /\ MaxFaults = 0 /\ MaxResets = 0
    /\ Images \subseteq {FreshImage, FirstImage, Version1Image, Version2Image}

----------------------------------------------------------------------------
(* What the rows tell of the sets.                                         *)

LEMMA Disjoint == /\ Common \cap Letter = {} /\ Words = Common \cup Letter
                  /\ \A w \in Common : LabelOf(w) = "common-words"
                  /\ \A w \in Letter : LabelOf(w) = "letters"
BY DataAssumption DEF Common, Letter, Words, LabelOf

LEMMA CountZero ==
    ASSUME NEW table \in Seq(Row), NEW w
    PROVE  CountIn(table, w) = 0 <=> \A i \in DOMAIN table : table[i].word # w
<1>1. IsFiniteSet(Occurs(table, w))
  BY CountType
<1>2. CountIn(table, w) = 0 <=> Occurs(table, w) = {}
  BY <1>1, FS_EmptySet DEF CountIn
<1>3. QED BY <1>2 DEF Occurs

\* The counts by label are right when every row has its label.
LEMMA LabelsTell ==
    ASSUME rows \in Seq(Row), LabelledRows(rows), StoreInv,
           "vocabulary_set" \in columns
    PROVE  /\ "unlabelled" \notin CountedLabels(rows)
           /\ IF "common-words" \in CountedLabels(rows) THEN HasAll(Common)
              ELSE HasNone(Common)
           /\ IF "letters" \in CountedLabels(rows) THEN HasAll(Letter)
              ELSE HasNone(Letter)
<1>1. \A i \in DOMAIN rows : /\ rows[i].word \in Words
                             /\ rows[i].set = LabelOf(rows[i].word)
  <2>1. \A i \in DOMAIN rows : rows[i] \in Row
    OBVIOUS
  <2>2. QED BY <2>1 DEF LabelledRows, LabelledRow, Row
<1>2. \A i \in DOMAIN rows : rows[i].set \in {"common-words", "letters"}
  BY <1>1 DEF LabelOf
<1>3. "common-words" \in CountedLabels(rows)
      <=> \E i \in DOMAIN rows : rows[i].word \in Common
  BY <1>1, Disjoint DEF CountedLabels
<1>4. "letters" \in CountedLabels(rows)
      <=> \E i \in DOMAIN rows : rows[i].word \in Letter
  BY <1>1, Disjoint DEF CountedLabels
<1>5. ASSUME NEW set
      PROVE  HasNone(set) <=> ~\E i \in DOMAIN rows : rows[i].word \in set
  BY CountZero DEF HasNone
<1>6. QED BY <1>2, <1>3, <1>4, <1>5 DEF StoreInv, CountedLabels

----------------------------------------------------------------------------
(* The steps.                                                              *)

LEMMA OnceStart == ASSUME Unfailing, Init PROVE OnceInv
<1>1. SetsInv
  BY SetsInit DEF Unfailing
<1>2. /\ rows = <<>> \/ \E emoji \in BOOLEAN : rows = RowsOf(CommonWords, "unlabelled", emoji)
      /\ columns = {} => rows = <<>>
      /\ "vocabulary_set" \notin columns
  <2>1. PICK image \in {FreshImage, FirstImage, Version1Image, Version2Image} :
          rows = image.rows /\ columns = image.columns
    BY DEF Init, Unfailing
  <2>2. \A v, c, t : Image(v, c, t).rows = t /\ Image(v, c, t).columns = c
    BY DEF Image
  <2>3. /\ FreshImage.rows = <<>> /\ FreshImage.columns = {}
        /\ FirstImage.rows = RowsOf(CommonWords, "unlabelled", FALSE)
        /\ Version1Image.rows = RowsOf(CommonWords, "unlabelled", FALSE)
        /\ Version2Image.rows = RowsOf(CommonWords, "unlabelled", TRUE)
    BY <2>2, ZenonT(60) DEF FreshImage, FirstImage, Version1Image, Version2Image
  <2>4. /\ FirstImage.columns = BaseColumns /\ Version1Image.columns = BaseColumns
        /\ Version2Image.columns = BaseColumns \cup EmojiColumns
    <3> DEFINE both == BaseColumns \cup EmojiColumns
               t    == RowsOf(CommonWords, "unlabelled", TRUE)
    <3>1. Version2Image = Image({2}, both, t)
      BY DEF Version2Image
    <3> HIDE DEF both, t
    <3>2. Version2Image.columns = both
      BY <2>2, <3>1
    <3>3. QED BY <2>2, <3>2, ZenonT(60) DEF FirstImage, Version1Image, both
  <2>5. /\ "korean" \in BaseColumns /\ "vocabulary_set" \notin BaseColumns
        /\ "vocabulary_set" \notin EmojiColumns
    BY DEF BaseColumns, EmojiColumns
  <2>6. CASE image = FreshImage
    BY <2>1, <2>3, <2>6
  <2>7. CASE image \in {FirstImage, Version1Image, Version2Image}
    <3>1. "korean" \in columns /\ "vocabulary_set" \notin columns
      BY <2>1, <2>4, <2>5, <2>7
    <3>2. QED BY <2>1, <2>3, <2>7, <3>1
  <2>8. QED BY <2>1, <2>6, <2>7
<1>3. /\ HasAll(Common) \/ HasNone(Common)
      /\ HasNone(Letter)
      /\ LabelledRows(rows)
  <2>1. CASE rows = <<>>
    BY <2>1, CountEmpty DEF HasNone, LabelledRows
  <2>2. ASSUME NEW emoji \in BOOLEAN, rows = RowsOf(CommonWords, "unlabelled", emoji)
        PROVE  HasAll(Common) /\ HasNone(Letter) /\ LabelledRows(rows)
    <3>1. \A w : CountIn(rows, w) = IF w \in Common THEN 1 ELSE 0
      BY <2>2, CountImage DEF Unfailing, Common
    <3>2. \A i \in DOMAIN rows : rows[i].set = "unlabelled" /\ rows[i].word \in Common
      BY <2>2 DEF RowsOf, Common, Ran
    <3>3. QED BY <1>2, <3>1, <3>2, Disjoint DEF HasAll, HasNone, LabelledRows, LabelledRow
  <2>3. QED BY <1>2, <2>1, <2>2
<1>4. QED BY <1>1, <1>2, <1>3 DEF Init, OnceInv, StoreInv, RowsInv, SeedInv, PathInv, At,
       NeverRun

\* No statement fails, none that only a failure or a reset brings up is run.
LEMMA NoFailure ==
    ASSUME Unfailing, OnceInv
    PROVE  ~Fault /\ ~Reset /\ ~SchemaError /\ ~Rollback /\ ~Clear /\ ~FixLabels
<1>1. faults = 0 /\ resets = 0 /\ MaxFaults = 0 /\ MaxResets = 0
  BY DEF Unfailing, OnceInv, SetsInv, IInv, TypeOK
<1>2. ~Fault /\ ~Reset
  BY <1>1 DEF Fault, Reset
<1>3. ~SchemaError
  BY ColumnsThere DEF OnceInv, SetsInv, PathInv, ColumnsSuffice, SchemaError, Throw
<1>4. QED BY <1>2, <1>3 DEF OnceInv, PathInv, NeverRun, Rollback, Clear, DeleteWords,
       DeleteVersions, FixLabels, Statement

OnlyOnce == StoreInv /\ RowsInv /\ SeedInv /\ PathInv
Decided == {"v3Begin", "commonBegin", "lettersBegin", "allBegin", "ready"}

\* The steps outside transactions that decide nothing about the sets.
LEMMA PlainStep ==
    ASSUME StoreInv, SameWords(rows, rows'), LabelledRows(rows)',
           columns' = {} => rows' = <<>>, block' = "none", call' = "init",
           pc' \notin NeverRun \cup Decided
    PROVE  OnlyOnce'
<1>1. \A w : CountIn(rows', w) = CountIn(rows, w)
  BY CountSame
<1>2. StoreInv'
  BY <1>1 DEF StoreInv, HasAll, HasNone
<1>3. SeedInv'
  BY DEF SeedInv, At, Decided
<1>4. QED BY <1>2, <1>3 DEF OnlyOnce, RowsInv, PathInv

LEMMA LabelsStay ==
    ASSUME RowsInv, UNCHANGED rows, columns \subseteq columns',
           "vocabulary_set" \in columns' => "vocabulary_set" \in columns \/ rows = <<>>
    PROVE  LabelledRows(rows)' /\ (columns' = {} => rows' = <<>>)
BY DEF RowsInv, LabelledRows, LabelledRow

\* The statements that decide nothing, and the steps of no statement.
OtherStep ==
    \/ CreateVersionTable \/ CreateWords \/ CreateIndex \/ ReadVersion
    \/ Migrate2 \/ V3Info \/ SetVersion \/ Launch \/ Close \/ Crash

\* The steps that leave the file, or add an empty column of the emoji.
LEMMA PathStep ==
    ASSUME OnceInv, OtherStep
    PROVE  OnlyOnce'
<1>1. /\ StoreInv /\ RowsInv /\ PathInv /\ target \in {0, 2, 3}
      /\ block = "none" \/ pc \in {"inBlock", "rollback"}
      /\ columns = {} => rows = <<>>
  BY DEF OnceInv, SetsInv, IInv, BlockInv, TargetInv, InTransaction, RowsInv
<1>2. block' = "none" /\ call' = "init" /\ pc' \notin NeverRun \cup Decided
  <2>1. CASE CreateVersionTable \/ CreateWords \/ CreateIndex \/ ReadVersion
    BY <1>1, <2>1 DEF PathInv, CreateVersionTable, CreateWords, CreateIndex, ReadVersion,
       StartMigration, AfterMigrate, Statement, txn, locals, NeverRun, Decided
  <2>2. CASE Migrate2 \/ V3Info
    BY <1>1, <2>2 DEF PathInv, Migrate2, V2Info, V2AddEmoji, V2AddImageUrl, V3Info,
       Statement, txn, locals, NeverRun, Decided
  <2>3. CASE SetVersion
    BY <1>1, <2>3 DEF PathInv, SetVersion, DeleteVersion, InsertVersion, AfterMigrate,
       Statement, txn, locals, NeverRun, Decided
  <2>4. CASE Launch \/ Close \/ Crash
    BY <1>1, <2>4 DEF PathInv, Launch, Start, Close, Crash, EndBlock, Finished,
       txn, locals, NeverRun, Decided
  <2>5. QED BY <2>1, <2>2, <2>3, <2>4 DEF OtherStep
<1>3. /\ rows' = rows /\ columns \subseteq columns'
      /\ "vocabulary_set" \in columns' => "vocabulary_set" \in columns \/ rows = <<>>
  BY <1>1 DEF OtherStep, CreateVersionTable, CreateWords, CreateIndex, ReadVersion, Migrate2,
     V2Info, V2AddEmoji, V2AddImageUrl, V3Info, SetVersion, DeleteVersion, InsertVersion,
     Launch, Close, Crash, disk
<1>4. SameWords(rows, rows')
  BY <1>3 DEF SameWords
<1>5. LabelledRows(rows)' /\ (columns' = {} => rows' = <<>>)
  BY <1>1, <1>3, LabelsStay
<1>6. QED BY <1>1, <1>2, <1>4, <1>5, PlainStep

\* The statements of the migration that write labels.
LEMMA LabelStep == ASSUME OnceInv, V3AddSet \/ V3Label PROVE OnlyOnce'
<1>1. /\ StoreInv /\ LabelledRows(rows) /\ PathInv /\ rows \in Seq(Row)
      /\ block = "none" /\ LabelInv
  <2>1. pc \notin {"inBlock", "rollback"}
    BY DEF V3AddSet, V3Label, Statement
  <2>2. QED BY <2>1 DEF OnceInv, SetsInv, IInv, TypeOK, BlockInv, InTransaction, RowsInv
<1>2. block' = "none" /\ call' = "init" /\ pc' \notin NeverRun \cup Decided
  BY <1>1 DEF V3AddSet, V3Label, Statement, txn, locals, PathInv, NeverRun, Decided
<1>3. "vocabulary_set" \in columns'
  BY DEF V3AddSet, V3Label, Statement, Needs
<1>4. \A i \in DOMAIN rows : rows[i] \in Row /\ "common-words" \in Labels
  BY <1>1 DEF Labels
<1>5. SameWords(rows, rows')
  <2>1. SameWords(rows, rows)
    BY DEF SameWords
  <2>2. QED BY <1>1, <2>1, UpdatesKeepWords DEF V3AddSet, V3Label
<1>6. LabelledRows(rows)'
  <2>1. CASE "vocabulary_set" \in columns
    <3>1. rows' = rows \/ rows' = Label(rows)
      BY <2>1 DEF V3AddSet, V3Label
    <3>2. \A i \in DOMAIN rows : rows[i].set = LabelOf(rows[i].word)
                                 /\ rows[i].set # "unlabelled"
      BY <1>1, <2>1 DEF LabelledRows, LabelledRow, LabelOf
    <3>3. \A i \in DOMAIN rows : Label(rows)[i] = rows[i]
      BY <3>2 DEF Label
    <3>4. DOMAIN Label(rows) = DOMAIN rows
      BY DEF Label
    <3>5. QED BY <3>1, <3>2, <3>3, <3>4 DEF LabelledRows, LabelledRow
  <2>2. CASE "vocabulary_set" \notin columns
    <3>1. rows' = AddDefault(rows)
      BY <2>2 DEF V3AddSet, V3Label, Statement, Needs
    <3>2. \A i \in DOMAIN rows : rows[i].word \in Common
      BY <1>1, <2>2 DEF LabelInv, LabelledRows, LabelledRow, LabelOf
    <3>3. \A i \in DOMAIN rows : AddDefault(rows)[i].word = rows[i].word
                                 /\ AddDefault(rows)[i].set = "common-words"
      BY <1>4, RowFields, ZenonT(60) DEF AddDefault
    <3>4. DOMAIN AddDefault(rows) = DOMAIN rows
      BY DEF AddDefault
    <3>5. QED BY <3>1, <3>2, <3>3, <3>4, Disjoint DEF LabelledRows, LabelledRow
  <2>3. QED BY <2>1, <2>2
<1>7. columns' # {}
  BY <1>3
<1>8. QED BY <1>1, <1>2, <1>5, <1>6, <1>7, PlainStep

\* The counts, which decide what is seeded.
LEMMA DecideStep == ASSUME OnceInv, V3Count \/ CountWords \/ CountSets PROVE OnlyOnce'
<1>1. /\ StoreInv /\ RowsInv /\ PathInv /\ rows \in Seq(Row)
      /\ block = "none" /\ "vocabulary_set" \in columns
  <2>1. pc \in LabelDone /\ pc \notin {"inBlock", "rollback"}
    BY DEF V3Count, CountWords, CountSets, Statement, LabelDone
  <2>2. QED BY <2>1 DEF OnceInv, SetsInv, IInv, TypeOK, BlockInv, InTransaction,
         ColumnInv, HasLabel
<1>2. UNCHANGED <<rows, columns, block, work, call>>
  BY DEF V3Count, CountWords, CountSets, disk, txn, locals
<1>3. StoreInv' /\ RowsInv'
  BY <1>1, <1>2 DEF StoreInv, HasAll, HasNone, RowsInv, LabelledRows, LabelledRow
<1>4. \A set : HasAll(set)' = HasAll(set) /\ HasNone(set)' = HasNone(set)
  BY <1>2 DEF HasAll, HasNone
<1>5. /\ "unlabelled" \notin CountedLabels(rows)
      /\ IF "common-words" \in CountedLabels(rows) THEN HasAll(Common)
         ELSE HasNone(Common)
      /\ IF "letters" \in CountedLabels(rows) THEN HasAll(Letter)
         ELSE HasNone(Letter)
  BY <1>1, LabelsTell DEF RowsInv
<1>6. CASE V3Count
  <2>1. pc' = IF "letters" \in CountedLabels(rows) THEN "deleteVersion" ELSE "v3Begin"
    BY <1>6 DEF V3Count, Statement
  <2>2. QED BY <1>1, <1>2, <1>3, <1>4, <1>5, <2>1 DEF OnlyOnce, SeedInv, At, PathInv, NeverRun
<1>7. CASE CountWords
  <2>1. pc' = IF rows = <<>> THEN "allBegin" ELSE "countSets"
    BY <1>7 DEF CountWords, Statement
  <2>2. rows = <<>> => HasNone(Common) /\ HasNone(Letter)
    BY CountEmpty DEF HasNone
  <2>3. QED BY <1>1, <1>2, <1>3, <1>4, <2>1, <2>2 DEF OnlyOnce, SeedInv, At, PathInv, NeverRun
<1>8. CASE CountSets
  <2>1. found' = CountedLabels(rows) /\ pc' = SeedMissing(found')
    BY <1>5, <1>8 DEF CountSets, Statement
  <2>2. QED BY <1>1, <1>2, <1>3, <1>4, <1>5, <2>1
         DEF OnlyOnce, SeedInv, At, PathInv, NeverRun, SeedMissing
<1>9. QED BY <1>6, <1>7, <1>8

\* A transaction begins with what was decided before it.
LEMMA BeginStep == ASSUME OnceInv, Begin PROVE OnlyOnce'
<1>1. /\ StoreInv /\ RowsInv /\ SeedInv /\ PathInv
  BY DEF OnceInv
<1>2. PICK st \in Begins : pc = st /\ pc' = "inBlock" /\ block' = BlockAt(st)
  BY DEF Begin, Statement
<1>3. UNCHANGED <<rows, columns, found, call>> /\ work' = rows
  BY DEF Begin, disk, locals
<1>4. st # "againBegin" /\ block' # "again"
  BY <1>1, <1>2 DEF PathInv, NeverRun, BlockAt, Begins
<1>5. StoreInv' /\ RowsInv' /\ PathInv'
  BY <1>1, <1>2, <1>3, <1>4
     DEF StoreInv, HasAll, HasNone, RowsInv, LabelledRows, LabelledRow, PathInv, NeverRun
<1>6. \A set : HasAll(set)' = HasAll(set) /\ HasNone(set)' = HasNone(set)
  BY <1>3 DEF HasAll, HasNone
<1>7. SeedInv'
  BY <1>1, <1>2, <1>3, <1>4, <1>6 DEF SeedInv, At, BlockAt, Begins
<1>8. QED BY <1>5, <1>7 DEF OnlyOnce

\* Inside a transaction only its own copy of the rows changes.
LEMMA WriteStep == ASSUME OnceInv, BlockStatement PROVE OnlyOnce'
<1>1. /\ StoreInv /\ RowsInv /\ SeedInv /\ PathInv
      /\ rows \in Seq(Row) /\ work \in Seq(Row) /\ done \in Nat
      /\ pc = "inBlock" /\ block # "none"
      /\ block # "emoji" => "vocabulary_set" \in columns
  <2>1. pc = "inBlock"
    BY DEF BlockStatement, Statement
  <2>2. QED BY <2>1 DEF OnceInv, SetsInv, IInv, TypeOK, BlockInv, InTransaction,
         ColumnInv, HasLabel
<1>2. UNCHANGED <<rows, columns, found, call, block>> /\ pc' = pc
  BY <1>1 DEF BlockStatement, Statement, disk, locals
<1> DEFINE u == Script(block)[done + 1]
<1>3. /\ work' = IF block = "emoji" THEN FillEmoji(work, u) ELSE Insert(work, u)
      /\ u \in Words
  <2>1. Script(block) \in Seq(Words) /\ done < Len(Script(block))
    BY ScriptType DEF BlockStatement
  <2>2. QED BY <1>1, <2>1 DEF BlockStatement
<1> HIDE DEF u
<1>4. LabelledRows(work)'
  <2>1. CASE block = "emoji"
    <3>1. /\ DOMAIN work' = DOMAIN work
          /\ \A i \in DOMAIN work : work'[i].word = work[i].word /\ work'[i].set = work[i].set
      BY <1>1, <1>3, <2>1, EmojiRows
    <3>2. QED BY <1>1, <1>2, <3>1 DEF RowsInv, LabelledRows, LabelledRow
  <2>2. CASE block # "emoji"
    <3> DEFINE r == [word |-> u, set |-> LabelOf(u), emoji |-> TRUE]
    <3>1. r \in Row /\ r.set = LabelOf(r.word)
      BY <1>3 DEF Row, Labels, LabelOf
    <3>2. work' = Append(work, r)
      BY <1>3, <2>2 DEF Insert
    <3> HIDE DEF r
    <3>3. \A i \in DOMAIN work' : work'[i] = r \/ (i \in DOMAIN work /\ work'[i] = work[i])
      BY <1>1, <3>1, <3>2
    <3>4. QED BY <1>1, <1>2, <3>1, <3>3 DEF RowsInv, LabelledRows, LabelledRow
  <2>3. QED BY <2>1, <2>2
<1>5. StoreInv' /\ RowsInv' /\ PathInv'
  BY <1>1, <1>2, <1>4 DEF StoreInv, HasAll, HasNone, RowsInv, LabelledRows, LabelledRow, PathInv
<1>6. SeedInv'
  BY <1>1, <1>2 DEF SeedInv, At, HasAll, HasNone
<1>7. QED BY <1>5, <1>6 DEF OnlyOnce

\* A commit stores the words of its script once more.
LEMMA CommitCounts ==
    ASSUME OnceInv, Commit
    PROVE  \A w \in Words :
              CountIn(rows', w) = CountIn(rows, w)
                + (IF block # "emoji" /\ w \in Ran(Script(block)) THEN 1 ELSE 0)
<1>1. block # "none" /\ rows' = work
  BY DEF Commit, Statement, OnceInv, SetsInv, IInv, BlockInv, InTransaction
<1>2. {Script(block)[k] : k \in 1..done} = Ran(Script(block))
  <2>1. done = Len(Script(block)) /\ Script(block) \in Seq(Words)
    BY ScriptType DEF Commit
  <2>2. QED BY <2>1 DEF Ran
<1>3. QED BY <1>1, <1>2 DEF OnceInv, SetsInv, WorkInv, Added

\* They were not there before it.
LEMMA CommitStep == ASSUME OnceInv, Commit PROVE OnlyOnce'
<1>1. /\ StoreInv /\ RowsInv /\ SeedInv /\ PathInv
      /\ rows \in Seq(Row) /\ work \in Seq(Row) /\ done \in Nat
      /\ block \in Blocks \ {"again"} /\ block # "none"
      /\ "korean" \in columns
      /\ block # "emoji" => "vocabulary_set" \in columns
  <2>1. pc = "inBlock"
    BY DEF Commit, Statement
  <2>2. QED BY <2>1 DEF OnceInv, SetsInv, IInv, TypeOK, BlockInv, InTransaction,
         ColumnInv, HasLabel, HasWords, PathInv, BaseColumns
<1>2. /\ UNCHANGED <<columns, found, call>> /\ rows' = work /\ block' = "none"
      /\ pc' = AfterCommit(block)
  BY DEF Commit, Statement, EndBlock, locals
<1>3. RowsInv' /\ PathInv'
  BY <1>1, <1>2 DEF RowsInv, LabelledRows, LabelledRow, PathInv, AfterCommit, NeverRun, Blocks
<1>4. \A w \in Words :
        CountIn(rows', w) = CountIn(rows, w)
          + (IF block # "emoji" /\ w \in Ran(Script(block)) THEN 1 ELSE 0)
  BY CommitCounts
<1>5. /\ Common \subseteq Words /\ Letter \subseteq Words /\ Common \cap Letter = {}
      /\ \A w \in Words : CountIn(rows, w) \in Nat
  BY <1>1, Disjoint, CountType
<1>6. CASE block = "emoji"
  <2>1. \A w \in Words : CountIn(rows', w) = CountIn(rows, w)
    BY <1>4, <1>5, <1>6
  <2>2. StoreInv'
    BY <1>1, <1>5, <2>1 DEF StoreInv, HasAll, HasNone
  <2>3. SeedInv'
    BY <1>2, <1>6 DEF SeedInv, At, AfterCommit
  <2>4. QED BY <1>3, <2>2, <2>3 DEF OnlyOnce
<1>7. CASE block = "common"
  <2>1. \A w \in Words : CountIn(rows', w) = CountIn(rows, w) + (IF w \in Common THEN 1 ELSE 0)
    BY <1>4, <1>7, ScriptWords DEF Common
  <2>2. HasNone(Common) /\ IF "letters" \in found THEN HasAll(Letter) ELSE HasNone(Letter)
    BY <1>1, <1>7 DEF SeedInv, At
  <2>3. HasAll(Common)'
    BY <1>5, <2>1, <2>2 DEF HasAll, HasNone
  <2>4. IF "letters" \in found THEN HasAll(Letter)' ELSE HasNone(Letter)'
    BY <1>5, <2>1, <2>2 DEF HasAll, HasNone
  <2>5. QED BY <1>1, <1>2, <1>3, <1>7, <2>3, <2>4
         DEF OnlyOnce, StoreInv, SeedInv, At, AfterCommit
<1>8. CASE block \in {"migrateLetters", "letters"}
  <2>1. \A w \in Words : CountIn(rows', w) = CountIn(rows, w) + (IF w \in Letter THEN 1 ELSE 0)
    BY <1>4, <1>8, ScriptWords DEF Letter
  <2>2. HasNone(Letter) /\ (block = "letters" => HasAll(Common))
    BY <1>1, <1>8 DEF SeedInv, At
  <2>3. HasAll(Letter)'
    BY <1>5, <2>1, <2>2 DEF HasAll, HasNone
  <2>4. (HasAll(Common) => HasAll(Common)') /\ (HasNone(Common) => HasNone(Common)')
    BY <1>5, <2>1 DEF HasAll, HasNone
  <2>5. QED BY <1>1, <1>2, <1>3, <1>8, <2>2, <2>3, <2>4
         DEF OnlyOnce, StoreInv, SeedInv, At, AfterCommit
<1>9. CASE block = "all"
  <2>1. \A w \in Words : CountIn(rows', w) = CountIn(rows, w) + 1
    <3>1. Ran(Script(block)) = Words
      BY <1>9, ScriptWords DEF Words
    <3>2. QED BY <1>4, <1>9, <3>1
  <2>2. HasNone(Common) /\ HasNone(Letter)
    BY <1>1, <1>9 DEF SeedInv, At
  <2>3. HasAll(Common)' /\ HasAll(Letter)'
    BY <1>5, <2>1, <2>2 DEF HasAll, HasNone
  <2>4. QED BY <1>1, <1>2, <1>3, <1>9, <2>3
         DEF OnlyOnce, StoreInv, SeedInv, At, AfterCommit
<1>10. QED BY <1>1, <1>6, <1>7, <1>8, <1>9 DEF Blocks

\* What is left of the next-state relation when nothing fails.
LEMMA StepsLeft ==
    ASSUME Unfailing, OnceInv, [Next]_vars
    PROVE  \/ OtherStep \/ V3AddSet \/ V3Label \/ V3Count \/ CountWords \/ CountSets
           \/ Begin \/ BlockStatement \/ Commit \/ UNCHANGED vars
BY NoFailure DEF Next, ProgramStep, Open, Migrate3, SeedIfEmpty, Transaction, OtherStep

LEMMA OnceStep == ASSUME Unfailing, OnceInv, [Next]_vars PROVE OnceInv'
<1>1. SetsInv'
  BY SetsStep DEF Unfailing, OnceInv
<1>2. OnlyOnce'
  <2>1. CASE OtherStep
    BY <2>1, PathStep DEF OtherStep
  <2>2. CASE V3AddSet \/ V3Label
    BY <2>2, LabelStep
  <2>3. CASE V3Count \/ CountWords \/ CountSets
    BY <2>3, DecideStep
  <2>4. CASE Begin
    BY <2>4, BeginStep
  <2>5. CASE BlockStatement
    BY <2>5, WriteStep
  <2>6. CASE Commit
    BY <2>6, CommitStep
  <2>7. CASE UNCHANGED vars
    BY <2>7 DEF OnceInv, OnlyOnce, StoreInv, HasAll, HasNone, RowsInv, LabelledRows,
       LabelledRow, SeedInv, At, PathInv, vars, disk, txn, locals, budget
  <2>8. QED BY <2>1, <2>2, <2>3, <2>4, <2>5, <2>6, <2>7, StepsLeft
<1>3. QED BY <1>1, <1>2 DEF OnceInv, OnlyOnce

----------------------------------------------------------------------------
(* The abstract store.                                                     *)

\* A commit stores sets that were not there; nothing else changes a count.
LEMMA StoreChange ==
    ASSUME Unfailing, OnceInv, [Next]_vars
    PROVE  \E sets \in SUBSET {Common, Letter} :
              /\ \A s \in sets : HasNone(s)
              /\ \A w \in Words :
                    CountIn(rows', w) = IF w \in UNION sets THEN 1 ELSE CountIn(rows, w)
<1> DEFINE Change(sets) ==
              /\ \A s \in sets : HasNone(s)
              /\ \A w \in Words :
                    CountIn(rows', w) = IF w \in UNION sets THEN 1 ELSE CountIn(rows, w)
<1>0. SUFFICES \E sets \in SUBSET {Common, Letter} : Change(sets)
  OBVIOUS
<1>1. /\ SeedInv /\ PathInv /\ rows \in Seq(Row) /\ work \in Seq(Row)
      /\ block \in Blocks \cup {"none"} /\ (block # "none" <=> InTransaction)
  BY DEF OnceInv, SetsInv, IInv, TypeOK, BlockInv
<1>2. CASE SameWords(rows, rows')
  <2>1. \A w \in Words : CountIn(rows', w) = CountIn(rows, w)
    BY <1>2, CountSame
  <2>2. Change({}) /\ {} \in SUBSET {Common, Letter}
    BY <2>1
  <2>3. QED BY <2>2
<1>3. CASE Commit
  <2>1. \A w \in Words :
          CountIn(rows', w) = CountIn(rows, w)
            + (IF block # "emoji" /\ w \in Ran(Script(block)) THEN 1 ELSE 0)
    BY <1>3, CommitCounts
  <2>2. block \in Blocks \ {"again"}
    BY <1>1, <1>3 DEF Commit, Statement, InTransaction, PathInv
  <2>3. \A w \in Words : CountIn(rows, w) \in Nat
    BY <1>1, CountType
  <2>4. Words = Common \cup Letter /\ Common \cap Letter = {}
    BY Disjoint
  <2>5. CASE block = "emoji"
    <3>1. \A w \in Words : CountIn(rows', w) = CountIn(rows, w)
      BY <2>1, <2>3, <2>5
    <3>2. Change({}) /\ {} \in SUBSET {Common, Letter}
      BY <3>1
    <3>3. QED BY <3>2
  <2>6. CASE block = "common"
    <3>1. HasNone(Common) /\ Ran(Script(block)) = Common
      BY <1>1, <2>6, ScriptWords DEF SeedInv, At, Common
    <3>2. \A w \in Words : CountIn(rows', w) = IF w \in UNION {Common} THEN 1 ELSE CountIn(rows, w)
      BY <2>1, <2>3, <2>4, <2>6, <3>1 DEF HasNone
    <3>3. Change({Common}) /\ {Common} \in SUBSET {Common, Letter}
      BY <3>1, <3>2
    <3>4. QED BY <3>3
  <2>7. CASE block \in {"migrateLetters", "letters"}
    <3>1. HasNone(Letter) /\ Ran(Script(block)) = Letter
      BY <1>1, <2>7, ScriptWords DEF SeedInv, At, Letter
    <3>2. \A w \in Words : CountIn(rows', w) = IF w \in UNION {Letter} THEN 1 ELSE CountIn(rows, w)
      BY <2>1, <2>3, <2>4, <2>7, <3>1 DEF HasNone
    <3>3. Change({Letter}) /\ {Letter} \in SUBSET {Common, Letter}
      BY <3>1, <3>2
    <3>4. QED BY <3>3
  <2>8. CASE block = "all"
    <3>1. HasNone(Common) /\ HasNone(Letter) /\ Ran(Script(block)) = Words
      BY <1>1, <2>8, ScriptWords DEF SeedInv, At, Words
    <3>2. \A w \in Words : CountIn(rows', w) = 1 /\ w \in UNION {Common, Letter}
      BY <2>1, <2>3, <2>4, <2>8, <3>1 DEF HasNone
    <3>3. Change({Common, Letter})
      BY <3>1, <3>2
    <3>4. {Common, Letter} \in SUBSET {Common, Letter}
      OBVIOUS
    <3>5. QED BY <3>3, <3>4
  <2>9. QED BY <2>2, <2>5, <2>6, <2>7, <2>8 DEF Blocks
<1>4. CASE V3AddSet \/ V3Label
  <2>1. SameWords(rows, rows)
    BY DEF SameWords
  <2>2. SameWords(rows, rows')
    BY <1>1, <1>4, <2>1, UpdatesKeepWords DEF V3AddSet, V3Label
  <2>3. QED BY <1>2, <2>2
<1>5. CASE \/ OtherStep \/ V3Count \/ CountWords \/ CountSets \/ Begin \/ BlockStatement
           \/ UNCHANGED vars
  <2>1. rows' = rows
    BY <1>5 DEF OtherStep, CreateVersionTable, CreateWords, CreateIndex, ReadVersion,
       Migrate2, V2Info, V2AddEmoji, V2AddImageUrl, V3Info, SetVersion, DeleteVersion,
       InsertVersion, Launch, Close, Crash, V3Count, CountWords, CountSets, Begin,
       BlockStatement, vars, disk
  <2>2. SameWords(rows, rows')
    BY <2>1 DEF SameWords
  <2>3. QED BY <1>2, <2>2
<1>6. QED BY <1>3, <1>4, <1>5, StepsLeft

LEMMA StoreSets == UNION {Ran(CommonWords), Ran(Letters)} = Words
BY DEF Words

LEMMA StoreCounts == \A w : Copies(w) = CountIn(rows, w)
BY DEF Copies, CountIn, Occurs

LEMMA StoreBegins == ASSUME OnceInv, Init PROVE Store!Init
<1>1. StoreInv
  BY DEF OnceInv
<1>2. \A w \in Words : Copies(w) \in {0, 1}
  BY <1>1, Disjoint, StoreCounts DEF StoreInv, HasAll, HasNone
<1>3. QED BY <1>1, <1>2, StoreSets, StoreCounts, Disjoint
       DEF Store!Init, Store!Absent, Store!Present, StoreInv, HasAll, HasNone, Common, Letter

LEMMA StoreRefined ==
    ASSUME Unfailing, OnceInv, [Next]_vars PROVE Store!Next
<1>1. PICK sets \in SUBSET {Common, Letter} :
        /\ \A s \in sets : HasNone(s)
        /\ \A w \in Words :
              CountIn(rows', w) = IF w \in UNION sets THEN 1 ELSE CountIn(rows, w)
  BY StoreChange
<1>2. \A w : Copies(w)' = CountIn(rows', w)
  BY DEF Copies, CountIn, Occurs
<1>3. \A s \in sets : Store!Absent(s)
  BY <1>1, StoreCounts, Disjoint DEF Store!Absent, HasNone
<1>4. Store!Store(sets)
  BY <1>1, <1>2, <1>3, StoreSets, StoreCounts DEF Store!Store
<1>5. QED BY <1>1, <1>4 DEF Store!Next, Common, Letter

\* "only seeds once" (services/README.md:13): from every file an installed version left,
\* through any number of crashes at any statement, no word is ever stored twice, for
\* lists of any length, as long as no statement fails.
THEOREM StoredOnce == ASSUME Unfailing PROVE Spec => []SeededOnce
<1>1. Init => OnceInv
  BY OnceStart
<1>2. OnceInv /\ [Next]_vars => OnceInv'
  BY OnceStep
<1>3. OnceInv => SeededOnce
  BY Disjoint, StoreCounts DEF OnceInv, StoreInv, HasAll, HasNone, SeededOnce
<1>4. QED BY <1>1, <1>2, <1>3, PTL DEF Spec

\* "the database is always populated on first launch" (database.ts:10): when
\* initializeDatabase returns, every word of both lists can be read from its set,
\* whatever the launches before were interrupted at.
THEOREM ReadyMeansPopulated == ASSUME Unfailing PROVE Spec => []ReadyPopulated
<1>1. Init => OnceInv
  BY OnceStart
<1>2. OnceInv /\ [Next]_vars => OnceInv'
  BY OnceStep
<1>3. OnceInv => ReadyPopulated
  <2> SUFFICES ASSUME OnceInv, pc = "ready", NEW w \in Words
               PROVE  \E i \in DOMAIN rows : rows[i].word = w /\ rows[i].set = LabelOf(w)
    BY DEF ReadyPopulated, Populated
  <2>1. /\ HasAll(Common) /\ HasAll(Letter) /\ "vocabulary_set" \in columns
        /\ LabelledRows(rows) /\ rows \in Seq(Row)
    BY DEF OnceInv, SeedInv, RowsInv, SetsInv, IInv, TypeOK
  <2>2. CountIn(rows, w) # 0
    BY <2>1, Disjoint DEF HasAll
  <2>3. PICK i \in DOMAIN rows : rows[i].word = w
    BY <2>1, <2>2, CountZero
  <2>4. QED BY <2>1, <2>3 DEF LabelledRows, LabelledRow
<1>4. QED BY <1>1, <1>2, <1>3, PTL DEF Spec

\* The whole of opening, migrating and seeding, with its crashes, is one set or both
\* stored at once, each when it was not there: the store that services/README.md
\* promises.
THEOREM DatabaseImplementsStore == ASSUME Unfailing PROVE Spec => ImplementsStore
<1>1. Init => OnceInv /\ Store!Init
  BY OnceStart, StoreBegins
<1>2. OnceInv /\ [Next]_vars => OnceInv'
  BY OnceStep
<1>3. OnceInv /\ [Next]_vars => Store!Next
  BY StoreRefined
<1>4. QED BY <1>1, <1>2, <1>3, PTL DEF Spec, ImplementsStore, Store!Spec
=============================================================================
