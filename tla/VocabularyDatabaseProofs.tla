---------------------- MODULE VocabularyDatabaseProofs ----------------------
(***************************************************************************)
(* Theorems about VocabularyDatabase, for every word list, every old file  *)
(* and any number of crashes, failing statements and resets.               *)
(***************************************************************************)
EXTENDS VocabularyDatabase, SequenceTheorems, TLAPS

Filled(table) ==
    \A i \in DOMAIN table : table[i].word \in Ran(CommonWords) => table[i].emoji

\* The statements by what the launch has established when it reaches them.
Opened == {"createIndex", "readVersion", "v2Info", "v2Emoji", "v2ImageUrl",
           "v2Begin", "resetVersion"}
EmojiDone == {"v3Info", "v3AddSet"}
LabelDone == {"v3Label", "v3Count", "v3Begin", "countWords", "countSets",
              "fixLabels", "commonBegin", "lettersBegin", "allBegin", "againBegin"}
SettingVersion == pc \in {"deleteVersion", "insertVersion"}
InTransaction == pc \in {"inBlock", "rollback"}

HasWords == pc \in Opened \cup EmojiDone \cup LabelDone
            \/ SettingVersion \/ InTransaction
HasEmoji == pc \in EmojiDone \cup LabelDone \/ (SettingVersion /\ target # 0)
            \/ (InTransaction /\ block # "emoji")
HasLabel == pc \in LabelDone \/ (SettingVersion /\ target = 3)
            \/ (InTransaction /\ block # "emoji")

ColumnInv ==
    /\ columns = {} \/ BaseColumns \subseteq columns
    /\ HasWords => BaseColumns \subseteq columns
    /\ HasEmoji => EmojiColumns \subseteq columns
    /\ HasLabel => "vocabulary_set" \in columns
    /\ pc = "v2ImageUrl" => "emoji" \in columns
    /\ pc = "v2Begin" \/ block = "emoji" => EmojiColumns \subseteq columns

TargetInv ==
    /\ pc = "resetWords" => call = "reset"
    /\ target \in {0, 2, 3}
    /\ pc \in {"v2Info", "v2Emoji", "v2ImageUrl", "v2Begin"} \/ block = "emoji"
          => target = 2
    /\ pc \in {"v3Info", "v3AddSet", "v3Label", "v3Count", "v3Begin"}
       \/ block = "migrateLetters" => target = 3

BlockInv ==
    /\ block # "none" <=> InTransaction
    /\ done <= Len(Script(block))
    /\ block = "emoji" =>
          /\ \A i \in DOMAIN work : \A k \in 1..done :
                work[i].word = CommonWords[k] => work[i].emoji
          /\ \A i \in DOMAIN work : work[i].set = rows[i].set
          /\ DOMAIN work = DOMAIN rows
    /\ InTransaction /\ block # "emoji" => Filled(work)
    /\ InTransaction => Keeps(rows, work)

\* Until the column exists nothing has a label.
LabelInv == "vocabulary_set" \notin columns =>
               \A i \in DOMAIN rows : rows[i].set = "unlabelled"

FilledInv == HasEmoji => Filled(rows)

IInv == TypeOK /\ ColumnInv /\ TargetInv /\ BlockInv /\ LabelInv /\ FilledInv
        /\ VersionHonest

----------------------------------------------------------------------------
(* What the statements that change the words table do to its rows.         *)

\* Every transaction goes through words of the two lists.
LEMMA ScriptType ==
    ASSUME NEW b PROVE Script(b) \in Seq(Words)
<1>1. CommonWords \in Seq(Words) /\ Letters \in Seq(Words)
  <2>1. ASSUME NEW s, s \in Seq(Ran(s)), Ran(s) \subseteq Words
        PROVE  s \in Seq(Words)
    BY <2>1
  <2>2. QED BY <2>1, DataAssumption DEF Words
<1>2. CommonWords \o Letters \in Seq(Words)
  BY <1>1
<1>3. QED BY <1>1, <1>2 DEF Script

\* A row whose label, or whose emoji, is written is a row with that field new.
LEMMA RowFields ==
    ASSUME NEW r \in Row
    PROVE  /\ \A l \in Labels :
                /\ [r EXCEPT !.set = l] \in Row
                /\ [r EXCEPT !.set = l].word = r.word
                /\ [r EXCEPT !.set = l].emoji = r.emoji
                /\ [r EXCEPT !.set = l].set = l
           /\ [r EXCEPT !.emoji = TRUE] \in Row
           /\ [r EXCEPT !.emoji = TRUE].word = r.word
           /\ [r EXCEPT !.emoji = TRUE].set = r.set
           /\ [r EXCEPT !.emoji = TRUE].emoji
BY DEF Row

\* INSERT adds one row of a listed word, its emoji filled in, at the end.
LEMMA InsertRow ==
    ASSUME NEW table \in Seq(Row), NEW w \in Words
    PROVE  /\ Insert(table, w) \in Seq(Row)
           /\ Filled(table) => Filled(Insert(table, w))
           /\ Keeps(table, Insert(table, w))
<1> DEFINE r == [word |-> w, set |-> LabelOf(w), emoji |-> TRUE]
<1>1. r \in Row
  BY DEF Row, Labels, LabelOf
<1>2. r.emoji
  OBVIOUS
<1> HIDE DEF r
<1>3. /\ Append(table, r) \in Seq(Row)
      /\ DOMAIN table \subseteq DOMAIN Append(table, r)
      /\ \A i \in DOMAIN table : Append(table, r)[i] = table[i]
      /\ \A i \in DOMAIN Append(table, r) :
            i \notin DOMAIN table => Append(table, r)[i] = r
  BY <1>1
<1>4. QED BY <1>2, <1>3 DEF Insert, Filled, Keeps, r

\* The UPDATE of the labels writes the unlabelled rows only.
LEMMA LabelRows ==
    ASSUME NEW table \in Seq(Row)
    PROVE  /\ Label(table) \in Seq(Row)
           /\ Filled(table) => Filled(Label(table))
           /\ Keeps(table, Label(table))
<1>0. "common-words" \in Labels /\ \A i \in DOMAIN table : table[i] \in Row
  BY DEF Labels
<1>1. \A i \in DOMAIN table : Label(table)[i] \in Row
  BY <1>0, RowFields DEF Label
<1>2. Label(table) \in Seq(Row)
  BY <1>1 DEF Label
<1>3. \A i \in DOMAIN table :
        /\ Label(table)[i].word = table[i].word
        /\ Label(table)[i].emoji = table[i].emoji
        /\ table[i].set # "unlabelled" => Label(table)[i].set = table[i].set
  BY <1>0, RowFields DEF Label
<1>4. DOMAIN Label(table) = DOMAIN table
  BY DEF Label
<1>5. QED BY <1>2, <1>3, <1>4 DEF Filled, Keeps

\* The ALTER labels every row and leaves the rest of it alone.
LEMMA DefaultRows ==
    ASSUME NEW table \in Seq(Row)
    PROVE  /\ AddDefault(table) \in Seq(Row)
           /\ Filled(table) => Filled(AddDefault(table))
           /\ (\A i \in DOMAIN table : table[i].set = "unlabelled")
                 => Keeps(table, AddDefault(table))
<1>0. "common-words" \in Labels /\ \A i \in DOMAIN table : table[i] \in Row
  BY DEF Labels
<1>1. \A i \in DOMAIN table : AddDefault(table)[i] \in Row
  BY <1>0, RowFields DEF AddDefault
<1>2. AddDefault(table) \in Seq(Row)
  BY <1>1 DEF AddDefault
<1>3. \A i \in DOMAIN table :
        /\ AddDefault(table)[i].word = table[i].word
        /\ AddDefault(table)[i].emoji = table[i].emoji
  BY <1>0, RowFields DEF AddDefault
<1>4. DOMAIN AddDefault(table) = DOMAIN table
  BY DEF AddDefault
<1>5. QED BY <1>2, <1>3, <1>4 DEF Filled, Keeps

\* The UPDATE of the emoji writes the rows of one word.
LEMMA EmojiRows ==
    ASSUME NEW table \in Seq(Row), NEW w
    PROVE  /\ FillEmoji(table, w) \in Seq(Row)
           /\ DOMAIN FillEmoji(table, w) = DOMAIN table
           /\ \A i \in DOMAIN table :
                 /\ FillEmoji(table, w)[i].word = table[i].word
                 /\ FillEmoji(table, w)[i].set = table[i].set
                 /\ table[i].emoji => FillEmoji(table, w)[i].emoji
                 /\ table[i].word = w => FillEmoji(table, w)[i].emoji
<1>0. \A i \in DOMAIN table : table[i] \in Row
  OBVIOUS
<1>1. \A i \in DOMAIN table : FillEmoji(table, w)[i] \in Row
  BY <1>0, RowFields DEF FillEmoji
<1>2. FillEmoji(table, w) \in Seq(Row)
  BY <1>1 DEF FillEmoji
<1>3. QED BY <1>0, <1>2, RowFields DEF FillEmoji

----------------------------------------------------------------------------
(* Type correctness.                                                       *)

\* What the files of earlier versions hold.
LEMMA ImageRows ==
    ASSUME NEW emoji \in BOOLEAN
    PROVE  /\ RowsOf(CommonWords, "unlabelled", emoji) \in Seq(Row)
           /\ \A i \in DOMAIN RowsOf(CommonWords, "unlabelled", emoji) :
                 /\ RowsOf(CommonWords, "unlabelled", emoji)[i].emoji = emoji
                 /\ RowsOf(CommonWords, "unlabelled", emoji)[i].set = "unlabelled"
<1>1. CommonWords \in Seq(Ran(CommonWords))
  BY DataAssumption
<1>2. \A i \in DOMAIN CommonWords : CommonWords[i] \in Words
  BY DEF Ran, Words
<1>3. DOMAIN CommonWords = 1..Len(CommonWords) /\ Len(CommonWords) \in Nat
  BY <1>1
<1>4. \A i \in DOMAIN CommonWords :
        [word |-> CommonWords[i], set |-> "unlabelled", emoji |-> emoji] \in Row
  BY <1>2 DEF Row, Labels
<1>5. QED BY <1>3, <1>4 DEF RowsOf

\* A file the app may find on its first launch.
LEMMA InitDisk ==
    ASSUME Init
    PROVE  /\ rows \in Seq(Row)
           /\ columns \subseteq AllColumns
           /\ columns = {} \/ BaseColumns \subseteq columns
           /\ version \subseteq 0..DB_VERSION
           /\ LabelInv
           /\ VersionHonest
<1>1. PICK image \in Images :
        rows = image.rows /\ columns = image.columns /\ version = image.version
  BY DEF Init
<1> USE DEF AllColumns, EmojiColumns, BaseColumns, DB_VERSION
<1>2. CASE image = FreshImage
  BY <1>1, <1>2 DEF FreshImage, Image, LabelInv, VersionHonest
<1>3. CASE image = FirstImage
  <2>1. rows = RowsOf(CommonWords, "unlabelled", FALSE)
    BY <1>1, <1>3 DEF FirstImage, Image
  <2>2. /\ rows \in Seq(Row)
        /\ \A i \in DOMAIN rows : rows[i].emoji = FALSE /\ rows[i].set = "unlabelled"
    BY <2>1, ImageRows
  <2>3. version = {} /\ columns = BaseColumns
    BY <1>1, <1>3 DEF FirstImage, Image
  <2>4. QED BY <2>2, <2>3 DEF LabelInv, VersionHonest
<1>4. CASE image = Version1Image
  <2>1. rows = RowsOf(CommonWords, "unlabelled", FALSE)
    BY <1>1, <1>4 DEF Version1Image, Image
  <2>2. /\ rows \in Seq(Row)
        /\ \A i \in DOMAIN rows : rows[i].emoji = FALSE /\ rows[i].set = "unlabelled"
    BY <2>1, ImageRows
  <2>3. version = {1} /\ columns = BaseColumns
    BY <1>1, <1>4 DEF Version1Image, Image
  <2>4. QED BY <2>2, <2>3 DEF LabelInv, VersionHonest
<1>5. CASE image = Version2Image
  <2>1. rows = RowsOf(CommonWords, "unlabelled", TRUE)
    BY <1>1, <1>5 DEF Version2Image, Image
  <2>2. /\ rows \in Seq(Row)
        /\ \A i \in DOMAIN rows : rows[i].emoji = TRUE /\ rows[i].set = "unlabelled"
    BY <2>1, ImageRows
  <2>3. version = {2} /\ columns = BaseColumns \cup EmojiColumns
    BY <1>1, <1>5 DEF Version2Image, Image
  <2>4. QED BY <2>2, <2>3 DEF LabelInv, VersionHonest
<1>6. CASE image = UnlabelledImage
  <2>1. rows = RowsOf(CommonWords, "unlabelled", TRUE)
    BY <1>1, <1>6 DEF UnlabelledImage, Image
  <2>2. /\ rows \in Seq(Row)
        /\ \A i \in DOMAIN rows : rows[i].emoji = TRUE /\ rows[i].set = "unlabelled"
    BY <2>1, ImageRows
  <2>3. version = {3} /\ columns = AllColumns
    BY <1>1, <1>6 DEF UnlabelledImage, Image
  <2>4. QED BY <2>2, <2>3 DEF LabelInv, VersionHonest
<1>7. QED BY <1>2, <1>3, <1>4, <1>5, <1>6, ImageAssumption

LEMMA InitType == Init => TypeOK
<1>1. ASSUME Init PROVE TypeOK
  <2>1. /\ pc \in PC /\ call \in {"init", "reset"} /\ target \in 0..DB_VERSION
        /\ found \subseteq Labels /\ block \in Blocks \cup {"none"}
        /\ done \in Nat /\ work \in Seq(Row)
    BY <1>1 DEF Init, PC, DB_VERSION
  <2>2. crashes \in 0..MaxCrashes /\ faults \in 0..MaxFaults /\ resets \in 0..MaxResets
    BY <1>1, BoundAssumption DEF Init
  <2>3. QED BY <1>1, <2>1, <2>2, InitDisk DEF TypeOK
<1>2. QED BY <1>1

LEMMA StepType == TypeOK /\ [Next]_vars => TypeOK'
<1> SUFFICES ASSUME TypeOK, [Next]_vars PROVE TypeOK'
  OBVIOUS
<1> USE BoundAssumption DEF TypeOK, PC, Statement, disk, txn, locals, budget
<1>1. CASE CreateVersionTable
  BY <1>1 DEF CreateVersionTable
<1>2. CASE CreateWords
  BY <1>2 DEF CreateWords, AllColumns, BaseColumns, EmojiColumns
<1>3. CASE CreateIndex
  BY <1>3 DEF CreateIndex
<1>4. CASE ReadVersion
  BY <1>4 DEF ReadVersion, StartMigration, AfterMigrate, DB_VERSION
<1>5. CASE V2Info
  BY <1>5 DEF V2Info
<1>6. CASE V2AddEmoji
  BY <1>6 DEF V2AddEmoji, AllColumns, EmojiColumns
<1>7. CASE V2AddImageUrl
  BY <1>7 DEF V2AddImageUrl, AllColumns, EmojiColumns
<1>8. CASE V3Info
  BY <1>8 DEF V3Info
<1>9. CASE V3AddSet
  BY <1>9, DefaultRows DEF V3AddSet, AllColumns
<1>10. CASE V3Label
  BY <1>10, LabelRows DEF V3Label
<1>11. CASE V3Count
  BY <1>11 DEF V3Count
<1>12. CASE DeleteVersion
  BY <1>12 DEF DeleteVersion
<1>13. CASE InsertVersion
  BY <1>13 DEF InsertVersion, AfterMigrate, DB_VERSION
<1>14. CASE CountWords
  BY <1>14 DEF CountWords
<1>15. CASE CountSets
  <2>1. CountedLabels(rows) \subseteq Labels
    <3>1. \A i \in DOMAIN rows : rows[i] \in Row
      OBVIOUS
    <3>2. \A i \in DOMAIN rows : rows[i].set \in Labels
      BY <3>1 DEF Row
    <3>3. QED BY <3>2 DEF CountedLabels
  <2>2. pc' \in PC
    BY <1>15 DEF CountSets, SeedMissing
  <2>3. QED BY <1>15, <2>1, <2>2 DEF CountSets
<1>16. CASE FixLabels
  BY <1>16, LabelRows DEF FixLabels, SeedMissing
<1>17. CASE Begin
  BY <1>17 DEF Begin, Begins, BlockAt, Blocks
<1>18. CASE BlockStatement
  <2>1. Script(block)[done + 1] \in Words
    <3>1. done + 1 \in DOMAIN Script(block)
      BY <1>18, ScriptType DEF BlockStatement
    <3>2. QED BY <3>1, ScriptType
  <2>2. work' \in Seq(Row)
    BY <1>18, <2>1, InsertRow, EmojiRows DEF BlockStatement
  <2>3. QED BY <1>18, <2>2 DEF BlockStatement
<1>19. CASE Commit
  BY <1>19 DEF Commit, AfterCommit, EndBlock
<1>20. CASE Rollback
  BY <1>20 DEF Rollback, AfterRollback, AfterFailedRollback, AfterCommit, EndBlock
<1>21. CASE DeleteWords
  BY <1>21 DEF DeleteWords
<1>22. CASE DeleteVersions
  BY <1>22 DEF DeleteVersions, DB_VERSION
<1>23. CASE SchemaError
  BY <1>23 DEF SchemaError, Throw, AfterFault, DB_VERSION
<1>24. CASE Fault
  BY <1>24, SMTT(30) DEF Fault, Throw, AfterFault, DB_VERSION
<1>25. CASE Launch
  BY <1>25 DEF Launch, Start, DB_VERSION
<1>26. CASE Close
  BY <1>26 DEF Close
<1>27. CASE Reset
  BY <1>27 DEF Reset, Start, DB_VERSION
<1>28. CASE Crash
  BY <1>28 DEF Crash, EndBlock
<1>29. CASE UNCHANGED vars
  BY <1>29, SMTT(30) DEF vars
<1>30. QED
  BY <1>1, <1>2, <1>3, <1>4, <1>5, <1>6, <1>7, <1>8, <1>9, <1>10, <1>11, <1>12, <1>13, <1>14, <1>15, <1>16, <1>17, <1>18, <1>19, <1>20, <1>21, <1>22, <1>23, <1>24, <1>25, <1>26, <1>27, <1>28, <1>29
     DEF Next, ProgramStep, Open, Migrate2, Migrate3, SetVersion, SeedIfEmpty,
         Transaction, Clear

----------------------------------------------------------------------------
(* The inductive invariant.                                                *)

LEMMA InvStep == IInv /\ [Next]_vars => IInv'
<1> SUFFICES ASSUME IInv, [Next]_vars
             PROVE  (ColumnInv /\ TargetInv /\ BlockInv /\ LabelInv /\ FilledInv
                     /\ VersionHonest)'
  BY StepType DEF IInv
<1> TypeOK
  BY DEF IInv
<1> USE DEF IInv, ColumnInv, TargetInv, BlockInv, LabelInv, FilledInv,
            HasWords, HasEmoji, HasLabel, Opened, EmojiDone,
            LabelDone, SettingVersion, InTransaction, Statement, Needs, disk, txn,
            locals, budget, EmojiColumns, BaseColumns
<1>a. VersionHonest <=> \A v \in version :
           /\ v >= 2 => EmojiColumns \subseteq columns /\ Filled(rows)
           /\ v >= 3 => "vocabulary_set" \in columns
  BY DEF VersionHonest, Filled
<1>b. VersionHonest' <=> \A v \in version' :
           /\ v >= 2 => EmojiColumns \subseteq columns' /\ Filled(rows')
           /\ v >= 3 => "vocabulary_set" \in columns'
  BY DEF VersionHonest, Filled
<1>c. DB_VERSION = 3
  BY DEF DB_VERSION
<1>t. /\ rows \in Seq(Row) /\ work \in Seq(Row) /\ done \in Nat
      /\ version \subseteq 0..3
  BY DEF TypeOK, DB_VERSION
<1>1. CASE CreateVersionTable
  BY <1>a, <1>b, <1>1 DEF CreateVersionTable
<1>2. CASE CreateWords
  <2>1. ColumnInv'
    BY <1>2 DEF CreateWords, AllColumns
  <2>2. TargetInv'
    BY <1>2 DEF CreateWords, AllColumns
  <2>3. BlockInv'
    BY <1>2 DEF CreateWords, AllColumns
  <2>4. LabelInv'
    BY <1>2 DEF CreateWords, AllColumns
  <2>5. FilledInv'
    BY <1>a, <1>2 DEF CreateWords, AllColumns
  <2>6. VersionHonest'
    BY <1>a, <1>b, <1>2 DEF CreateWords, AllColumns
  <2>7. QED BY <2>1, <2>2, <2>3, <2>4, <2>5, <2>6
<1>3. CASE CreateIndex
  BY <1>a, <1>b, <1>3 DEF CreateIndex
<1>4. CASE ReadVersion
  <2>1. ColumnInv'
    BY <1>a, <1>t, <1>4 DEF ReadVersion, StartMigration, AfterMigrate, DB_VERSION
  <2>2. TargetInv'
    BY <1>4 DEF ReadVersion, StartMigration, AfterMigrate, DB_VERSION
  <2>3. BlockInv'
    BY <1>4 DEF ReadVersion, StartMigration, AfterMigrate, DB_VERSION
  <2>4. LabelInv'
    BY <1>4 DEF ReadVersion, StartMigration, AfterMigrate, DB_VERSION
  <2>5. FilledInv'
    BY <1>a, <1>4 DEF ReadVersion, StartMigration, AfterMigrate, DB_VERSION
  <2>6. VersionHonest'
    BY <1>a, <1>b, <1>4 DEF ReadVersion, StartMigration, AfterMigrate, DB_VERSION
  <2>7. QED BY <2>1, <2>2, <2>3, <2>4, <2>5, <2>6
<1>5. CASE V2Info
  BY <1>a, <1>b, <1>5 DEF V2Info
<1>6. CASE V2AddEmoji
  BY <1>a, <1>b, <1>6 DEF V2AddEmoji, AllColumns, EmojiColumns
<1>7. CASE V2AddImageUrl
  BY <1>a, <1>b, <1>7 DEF V2AddImageUrl, AllColumns, EmojiColumns
<1>8. CASE V3Info
  BY <1>a, <1>b, <1>8 DEF V3Info
<1>9. CASE V3AddSet
  <2>0. Filled(rows) => Filled(rows')
    BY <1>t, <1>9, DefaultRows DEF V3AddSet
  <2>1. ColumnInv'
    BY <1>t, <1>9, DefaultRows DEF V3AddSet, AllColumns
  <2>2. TargetInv'
    BY <1>t, <1>9, DefaultRows DEF V3AddSet, AllColumns
  <2>3. BlockInv'
    BY <1>t, <1>9, DefaultRows DEF V3AddSet, AllColumns
  <2>4. LabelInv'
    BY <1>t, <1>9, DefaultRows DEF V3AddSet, AllColumns
  <2>5. FilledInv'
    BY <1>a, <2>0, <1>9 DEF V3AddSet, AllColumns
  <2>6. VersionHonest'
    BY <1>a, <1>b, <2>0, <1>9 DEF V3AddSet, AllColumns
  <2>7. QED BY <2>1, <2>2, <2>3, <2>4, <2>5, <2>6
<1>10. CASE V3Label
  <2>0. Filled(rows) => Filled(rows')
    BY <1>t, <1>10, LabelRows DEF V3Label
  <2>1. ColumnInv'
    BY <1>t, <1>10, LabelRows DEF V3Label
  <2>2. TargetInv'
    BY <1>t, <1>10, LabelRows DEF V3Label
  <2>3. BlockInv'
    BY <1>t, <1>10, LabelRows DEF V3Label
  <2>4. LabelInv'
    BY <1>t, <1>10, LabelRows DEF V3Label
  <2>5. FilledInv'
    BY <1>a, <2>0, <1>10 DEF V3Label
  <2>6. VersionHonest'
    BY <1>a, <1>b, <2>0, <1>10 DEF V3Label
  <2>7. QED BY <2>1, <2>2, <2>3, <2>4, <2>5, <2>6
<1>11. CASE V3Count
  BY <1>a, <1>b, <1>11 DEF V3Count
<1>12. CASE DeleteVersion
  BY <1>a, <1>b, <1>12 DEF DeleteVersion
<1>13. CASE InsertVersion
  <2>1. ColumnInv'
    BY <1>13 DEF InsertVersion, AfterMigrate, DB_VERSION
  <2>2. TargetInv'
    BY <1>13 DEF InsertVersion, AfterMigrate, DB_VERSION
  <2>3. BlockInv'
    BY <1>13 DEF InsertVersion, AfterMigrate, DB_VERSION
  <2>4. LabelInv'
    BY <1>13 DEF InsertVersion, AfterMigrate, DB_VERSION
  <2>5. FilledInv'
    BY <1>a, <1>13 DEF InsertVersion, AfterMigrate, DB_VERSION
  <2>6. VersionHonest'
    BY <1>a, <1>b, <1>13 DEF InsertVersion, AfterMigrate, DB_VERSION
  <2>7. QED BY <2>1, <2>2, <2>3, <2>4, <2>5, <2>6
<1>14. CASE CountWords
  BY <1>a, <1>b, <1>14 DEF CountWords
<1>15. CASE CountSets
  BY <1>a, <1>b, <1>15 DEF CountSets, SeedMissing
<1>16. CASE FixLabels
  <2>0. Filled(rows) => Filled(rows')
    BY <1>t, <1>16, LabelRows DEF FixLabels
  <2>1. ColumnInv'
    BY <1>t, <1>16, LabelRows DEF FixLabels, SeedMissing
  <2>2. TargetInv'
    BY <1>t, <1>16, LabelRows DEF FixLabels, SeedMissing
  <2>3. BlockInv'
    BY <1>t, <1>16, LabelRows DEF FixLabels, SeedMissing
  <2>4. LabelInv'
    BY <1>t, <1>16, LabelRows DEF FixLabels, SeedMissing
  <2>5. FilledInv'
    BY <1>a, <2>0, <1>16 DEF FixLabels, SeedMissing
  <2>6. VersionHonest'
    BY <1>a, <1>b, <2>0, <1>16 DEF FixLabels, SeedMissing
  <2>7. QED BY <2>1, <2>2, <2>3, <2>4, <2>5, <2>6
<1>17. CASE Begin
  <2>1. ColumnInv'
    BY <1>17 DEF Begin, Begins, BlockAt, Blocks, Script, Keeps
  <2>2. TargetInv'
    BY <1>17 DEF Begin, Begins, BlockAt, Blocks, Script, Keeps
  <2>3. BlockInv'
    BY <1>17 DEF Begin, Begins, BlockAt, Blocks, Script, Keeps
  <2>4. LabelInv'
    BY <1>17 DEF Begin, Begins, BlockAt, Blocks, Script, Keeps
  <2>5. FilledInv'
    BY <1>a, <1>17 DEF Begin, Begins, BlockAt, Blocks, Script, Keeps
  <2>6. VersionHonest'
    BY <1>a, <1>b, <1>17 DEF Begin, Begins, BlockAt, Blocks, Script, Keeps
  <2>7. QED BY <2>1, <2>2, <2>3, <2>4, <2>5, <2>6
<1>18. CASE BlockStatement
  <2>1. ColumnInv'
    BY <1>18, InsertRow, EmojiRows, ScriptType DEF BlockStatement, Script
  <2>2. TargetInv'
    BY <1>18, InsertRow, EmojiRows, ScriptType DEF BlockStatement, Script
  <2>0. /\ done + 1 \in DOMAIN Script(block) /\ Script(block)[done + 1] \in Words
        /\ done + 1 <= Len(Script(block))
    BY <1>t, <1>18, ScriptType DEF BlockStatement
  <2>3. BlockInv'
    <3> DEFINE w == Script(block)[done + 1]
    <3>1. CASE block = "emoji"
      <4>1. work' = FillEmoji(work, w) /\ rows' = rows /\ w = CommonWords[done + 1]
        BY <1>18, <3>1 DEF BlockStatement, Script
      <4>2. Keeps(rows, work')
        BY <1>t, <3>1, <4>1, EmojiRows DEF Keeps
      <4>3. \A i \in DOMAIN work' : \A k \in 1..(done + 1) :
               work'[i].word = CommonWords[k] => work'[i].emoji
        BY <1>t, <3>1, <4>1, EmojiRows
      <4>4. /\ DOMAIN work' = DOMAIN rows'
            /\ \A i \in DOMAIN work' : work'[i].set = rows'[i].set
        BY <1>t, <3>1, <4>1, EmojiRows
      <4>5. QED BY <1>18, <2>0, <3>1, <4>1, <4>2, <4>3, <4>4 DEF BlockStatement
    <3>2. CASE block # "emoji"
      <4>1. work' = Insert(work, w) /\ rows' = rows
        BY <1>18, <3>2 DEF BlockStatement
      <4>2. Keeps(work, work') /\ Filled(work')
        BY <1>t, <1>18, <2>0, <3>2, <4>1, InsertRow DEF BlockStatement
      <4>3. Keeps(rows, work')
        BY <1>18, <4>2 DEF Keeps, BlockStatement
      <4>4. QED BY <1>18, <2>0, <3>2, <4>1, <4>2, <4>3 DEF BlockStatement
    <3>3. QED BY <3>1, <3>2
  <2>4. LabelInv'
    BY <1>18, InsertRow, EmojiRows, ScriptType DEF BlockStatement, Script
  <2>5. FilledInv'
    BY <1>a, <1>18, InsertRow, EmojiRows, ScriptType DEF BlockStatement, Script
  <2>6. VersionHonest'
    BY <1>a, <1>b, <1>18, InsertRow, EmojiRows, ScriptType DEF BlockStatement, Script
  <2>7. QED BY <2>1, <2>2, <2>3, <2>4, <2>5, <2>6
<1>19. CASE Commit
  <2>0. Filled(work)
    <3>1. CASE block = "emoji"
      <4>1. done = Len(CommonWords)
        BY <1>19, <3>1 DEF Commit, Script
      <4>2. \A w \in Ran(CommonWords) : \E k \in 1..done : w = CommonWords[k]
        BY <4>1, DataAssumption DEF Ran
      <4>3. QED BY <3>1, <4>2 DEF Filled
    <3>2. QED BY <1>19, <3>1 DEF Commit
  <2>1. ColumnInv'
    BY <1>19 DEF Commit, AfterCommit, EndBlock, Script
  <2>2. TargetInv'
    BY <1>19 DEF Commit, AfterCommit, EndBlock, Script
  <2>3. BlockInv'
    BY <1>19 DEF Commit, AfterCommit, EndBlock, Script
  <2>4. LabelInv'
    BY <1>19 DEF Commit, AfterCommit, EndBlock, Script
  <2>5. FilledInv'
    BY <2>0, <1>19 DEF Commit, AfterCommit, EndBlock, Script
  <2>6. VersionHonest'
    BY <1>a, <1>b, <2>0, <1>19 DEF Commit, AfterCommit, EndBlock, Script
  <2>7. QED BY <2>1, <2>2, <2>3, <2>4, <2>5, <2>6
<1>20. CASE Rollback
  BY <1>a, <1>b, <1>20 DEF Rollback, AfterRollback, AfterFailedRollback, AfterCommit, EndBlock, Script
<1>21. CASE DeleteWords
  <2>1. Filled(rows') /\ DOMAIN rows' = {}
    BY <1>21 DEF DeleteWords, Filled
  <2>2. QED BY <1>a, <1>b, <1>21, <2>1 DEF DeleteWords
<1>22. CASE DeleteVersions
  BY <1>a, <1>b, <1>22 DEF DeleteVersions, DB_VERSION
<1>23. CASE SchemaError
  BY <1>a, <1>b, <1>23 DEF SchemaError, Throw, AfterFault, DB_VERSION
<1>24. CASE Fault
  BY <1>a, <1>b, <1>24 DEF Fault, Throw, AfterFault, DB_VERSION
<1>25. CASE Launch
  BY <1>a, <1>b, <1>25 DEF Launch, Start, DB_VERSION
<1>26. CASE Close
  <2>1. ColumnInv'
    BY <1>26 DEF Close, Finished
  <2>2. TargetInv'
    BY <1>26 DEF Close, Finished
  <2>3. BlockInv'
    BY <1>26 DEF Close, Finished
  <2>4. LabelInv'
    BY <1>26 DEF Close, Finished
  <2>5. FilledInv'
    BY <1>a, <1>26 DEF Close, Finished
  <2>6. VersionHonest'
    BY <1>a, <1>b, <1>26 DEF Close, Finished
  <2>7. QED BY <2>1, <2>2, <2>3, <2>4, <2>5, <2>6
<1>27. CASE Reset
  <2>1. ColumnInv'
    BY <1>27 DEF Reset, Start, Finished
  <2>2. TargetInv'
    BY <1>27 DEF Reset, Start, Finished
  <2>3. BlockInv'
    BY <1>27 DEF Reset, Start, Finished
  <2>4. LabelInv'
    BY <1>27 DEF Reset, Start, Finished
  <2>5. FilledInv'
    BY <1>a, <1>27 DEF Reset, Start, Finished
  <2>6. VersionHonest'
    BY <1>a, <1>b, <1>27 DEF Reset, Start, Finished
  <2>7. QED BY <2>1, <2>2, <2>3, <2>4, <2>5, <2>6
<1>28. CASE Crash
  BY <1>a, <1>b, <1>28 DEF Crash, EndBlock, Script
<1>29. CASE UNCHANGED vars
  BY <1>a, <1>b, <1>29 DEF vars
<1>30. QED
  BY <1>a, <1>b, <1>1, <1>2, <1>3, <1>4, <1>5, <1>6, <1>7, <1>8, <1>9, <1>10, <1>11, <1>12, <1>13, <1>14, <1>15, <1>16, <1>17, <1>18, <1>19, <1>20, <1>21, <1>22, <1>23, <1>24, <1>25, <1>26, <1>27, <1>28, <1>29
     DEF Next, ProgramStep, Open, Migrate2, Migrate3, SetVersion, SeedIfEmpty,
         Transaction, Clear

LEMMA InvInit == Init => IInv
<1> SUFFICES ASSUME Init PROVE IInv
  OBVIOUS
<1>1. TypeOK /\ LabelInv /\ VersionHonest
  BY InitType, InitDisk
<1>2. /\ pc = "off" /\ block = "none" /\ done = 0 /\ target = 0
      /\ columns = {} \/ BaseColumns \subseteq columns
  BY InitDisk DEF Init
<1>3. 0 <= Len(Script(block))
  BY ScriptType
<1>4. QED
  BY <1>1, <1>2, <1>3 DEF IInv, ColumnInv, TargetInv, BlockInv, FilledInv, HasWords,
     HasEmoji, HasLabel, Opened, EmojiDone, LabelDone, SettingVersion, InTransaction

----------------------------------------------------------------------------
(* The theorems.                                                           *)

\* Every variable keeps its type, in every reachable state.
THEOREM TypeCorrect == Spec => []TypeOK
<1>1. Init => TypeOK
  BY InitType
<1>2. TypeOK /\ [Next]_vars => TypeOK'
  BY StepType
<1>3. QED BY <1>1, <1>2, PTL DEF Spec

\* The invariant that carries the others: what each statement can rely on.
THEOREM Inductive == Spec => []IInv
<1>1. QED BY InvInit, InvStep, PTL DEF Spec

\* The version recorded in the file is never ahead of its columns and emoji,
\* whatever crashes, fails or is reset on the way (setVersion, lines 106-113,
\* runs in no transaction).
THEOREM VersionNeverLies == Spec => []VersionHonest
<1>1. IInv => VersionHonest
  BY DEF IInv
<1>2. QED BY <1>1, Inductive, PTL

LEMMA ColumnsThere == IInv => ColumnsSuffice
<1> SUFFICES ASSUME IInv, Running, call = "init"
             PROVE  Needs(pc) \subseteq columns
  BY DEF ColumnsSuffice
<1>1. CASE pc = "inBlock"
  BY <1>1 DEF IInv, ColumnInv, HasWords, HasEmoji, HasLabel, InTransaction,
     Needs, BlockColumns, AllColumns
<1>2. CASE pc # "inBlock"
  BY <1>2 DEF IInv, ColumnInv, TargetInv, HasWords, HasEmoji, HasLabel, Opened,
     EmojiDone, LabelDone, Needs
<1>3. QED BY <1>1, <1>2

\* No launch ever executes a statement on a missing table or column.
THEOREM NoMissingColumn == Spec => []ColumnsSuffice
BY ColumnsThere, Inductive, PTL

\* Only the DELETE of resetDatabase takes words, emoji or labels out of the file.
THEOREM OnlyResetDeletes == Spec => NothingLost
<1>1. ASSUME IInv, [Next]_vars
      PROVE  [pc # "resetWords" => Keeps(rows, rows')]_vars
  <2> SUFFICES ASSUME Next, pc # "resetWords" PROVE Keeps(rows, rows')
    BY <1>1
  <2>1. rows \in Seq(Row)
    BY <1>1 DEF IInv, TypeOK
  <2>2. rows' = rows => Keeps(rows, rows')
    BY DEF Keeps
  <2>3. CASE V3AddSet
    BY <1>1, <2>1, <2>2, <2>3, DefaultRows DEF V3AddSet, IInv, LabelInv
  <2>4. CASE V3Label \/ FixLabels
    BY <2>1, <2>4, LabelRows DEF V3Label, FixLabels
  <2>5. CASE Commit
    BY <1>1, <2>5 DEF Commit, Statement, IInv, BlockInv, InTransaction
  <2>6. CASE DeleteWords
    BY <2>6 DEF DeleteWords, Statement
  <2>7. QED
    BY <2>2, <2>3, <2>4, <2>5, <2>6
       DEF Next, ProgramStep, Open, Migrate2, Migrate3, SetVersion, SeedIfEmpty,
           Transaction, Clear, CreateVersionTable, CreateWords, CreateIndex,
           ReadVersion, V2Info, V2AddEmoji, V2AddImageUrl, V3Info, V3Count,
           DeleteVersion, InsertVersion, CountWords, CountSets, Begin,
           BlockStatement, Rollback, DeleteVersions, SchemaError, Throw, Fault,
           Launch, Close, Reset, Crash, disk
<1>2. QED BY <1>1, Inductive, PTL DEF Spec, NothingLost
=============================================================================
