------------------------- MODULE VocabularyDatabase -------------------------
(***************************************************************************)
(* src/TypeKorean/services/database.ts: opening, migrating, seeding and    *)
(* resetting the SQLite file of vocabulary.  Every action is one SQL       *)
(* statement (db.execute is synchronous, so nothing of the program runs    *)
(* between two statements), and a crash or a failing statement may come    *)
(* between any two of them.  Durable state: rows, columns, version.        *)
(* Everything else dies with the process.                                  *)
(***************************************************************************)
EXTENDS Integers, Sequences, FiniteSets

CONSTANTS
    CommonWords,    \* data/common_words.json: a sequence of words
    Letters,        \* data/letters.json: a sequence of words
    MaxCrashes,     \* bound: how often the process dies inside a call
    MaxFaults,      \* bound: how many statements fail
    MaxResets,      \* bound: how often resetDatabase is called
    Images          \* the database files the app may find on first launch

DB_VERSION == 3

Ran(s) == {s[i] : i \in DOMAIN s}
Words == Ran(CommonWords) \cup Ran(Letters)
Labels == {"common-words", "letters", "unlabelled"}   \* NULL, "", "undefined"
Row == [word : Words, set : Labels, emoji : BOOLEAN]
BaseColumns == {"korean", "english"}
EmojiColumns == {"emoji", "imageUrl"}
AllColumns == BaseColumns \cup EmojiColumns \cup {"vocabulary_set"}

\* A file as an earlier version of the app left it.
Image(v, cols, table) == [version |-> v, columns |-> cols, rows |-> table]
RowsOf(words, set, emoji) ==
    [i \in DOMAIN words |-> [word |-> words[i], set |-> set, emoji |-> emoji]]

FreshImage    == Image({}, {}, <<>>)
FirstImage    == Image({}, BaseColumns, RowsOf(CommonWords, "unlabelled", FALSE))
Version1Image == Image({1}, BaseColumns, RowsOf(CommonWords, "unlabelled", FALSE))
Version2Image == Image({2}, BaseColumns \cup EmojiColumns,
                       RowsOf(CommonWords, "unlabelled", TRUE))
\* Rows of the latest schema whose label was never written (lines 316-332).
UnlabelledImage == Image({3}, AllColumns, RowsOf(CommonWords, "unlabelled", TRUE))

ASSUME DataAssumption ==
    /\ CommonWords \in Seq(Ran(CommonWords)) /\ CommonWords # <<>>
    /\ Letters \in Seq(Ran(Letters)) /\ Letters # <<>>
    /\ Ran(CommonWords) \cap Ran(Letters) = {}
ASSUME BoundAssumption ==
    MaxCrashes \in Nat /\ MaxFaults \in Nat /\ MaxResets \in Nat
ASSUME ImageAssumption ==
    Images \subseteq {FreshImage, FirstImage, Version1Image, Version2Image,
                      UnlabelledImage}

VARIABLES
    rows,           \* the words table, in id order, as committed
    columns,        \* the columns of the words table; {} when it is missing
    version,        \* the contents of the table db_version
    pc,             \* the statement the process executes next
    call,           \* "init" (initializeDatabase) or "reset" (resetDatabase)
    target,         \* the version the migration in progress will set
    found,          \* the labels whose count was not zero when counted
    block,          \* the open transaction, or "none"
    done,           \* statements of the transaction executed so far
    work,           \* the words table as the open transaction sees it
    crashes, faults, resets

disk   == <<rows, columns, version>>
txn    == <<block, done, work>>
locals == <<call, target, found>>
budget == <<crashes, faults, resets>>
vars   == <<disk, pc, locals, txn, budget>>

----------------------------------------------------------------------------
(* The transactions, their statements and what follows them.          *)

PC == {"off", "ready", "failed", "createVersionTable", "createWords",
       "createIndex", "readVersion", "v2Info", "v2Emoji", "v2ImageUrl", "v2Begin",
       "v3Info", "v3AddSet", "v3Label", "v3Count", "v3Begin", "deleteVersion",
       "insertVersion", "countWords", "countSets", "fixLabels", "commonBegin",
       "lettersBegin", "allBegin", "againBegin", "inBlock", "rollback",
       "resetWords", "resetVersion"}

Blocks == {"emoji", "migrateLetters", "common", "letters", "all", "again"}

\* The words a transaction goes through, in order, with one statement each.
Script(b) ==
    CASE b \in {"emoji", "common"}           -> CommonWords
      [] b \in {"migrateLetters", "letters"} -> Letters
      [] OTHER                               -> CommonWords \o Letters

LabelOf(w) == IF w \in Ran(CommonWords) THEN "common-words" ELSE "letters"

\* (Definitions named ...Variant are plausible mistakes in the definition that
\* follows them.  No specification uses them; each one breaks a property.)
InsertVariant(table, w) ==      \* the label is taken from a missing field
    Append(table, [word |-> w, set |-> "undefined", emoji |-> TRUE])

\* INSERT INTO words: always with the emoji data and the label of its list.
Insert(table, w) ==
    Append(table, [word |-> w, set |-> LabelOf(w), emoji |-> TRUE])

\* UPDATE words SET emoji ... WHERE korean = ? AND english = ?
FillEmoji(table, w) ==
    [i \in DOMAIN table |->
        IF table[i].word = w THEN [table[i] EXCEPT !.emoji = TRUE] ELSE table[i]]

LabelVariant(table) ==          \* the WHERE clause is forgotten
    [i \in DOMAIN table |-> [table[i] EXCEPT !.set = "common-words"]]

Label(table) ==
    [i \in DOMAIN table |->
        IF table[i].set = "unlabelled"
        THEN [table[i] EXCEPT !.set = "common-words"] ELSE table[i]]

\* ALTER TABLE ... DEFAULT "common-words": every existing row reads the default.
AddDefault(table) ==
    [i \in DOMAIN table |-> [table[i] EXCEPT !.set = "common-words"]]

CountedLabels(table) == {table[i].set : i \in DOMAIN table}

\* Where control goes when the transaction is over, by its outcome.
AfterMigrate == IF call = "init" THEN "countWords" ELSE "againBegin"
AfterCommitVariant(b) ==        \* letters are seeded without looking
    CASE b \in {"emoji", "migrateLetters"} -> "deleteVersion"
      [] b = "common" -> "lettersBegin"
      [] OTHER -> "ready"
AfterCommit(b) ==
    CASE b \in {"emoji", "migrateLetters"} -> "deleteVersion"
      [] b = "common" -> IF "letters" \in found THEN "ready" ELSE "lettersBegin"
      [] OTHER -> "ready"
AfterRollback(b) ==
    CASE b = "all" -> "againBegin"                   \* 428-430, caught at 380
      [] b \in {"emoji", "again"} -> "failed"        \* rethrown to the caller
      [] OTHER -> AfterCommit(b)                     \* swallowed
\* ROLLBACK itself throws when SQLite has already rolled back.
AfterFailedRollback(b) ==
    CASE b \in {"all", "common", "letters"} -> "againBegin"    \* caught at 380
      [] b \in {"emoji", "again"} -> "failed"
      [] OTHER -> AfterCommit(b)                               \* caught at 255

\* The columns a statement names; without them SQLite rejects it.
BlockColumns(b) == IF b = "emoji" THEN EmojiColumns ELSE AllColumns
Needs(st) ==
    CASE st \in {"v3Label", "v3Count", "countSets", "fixLabels"} -> {"vocabulary_set"}
      [] st \in {"createIndex", "countWords", "resetWords"}      -> BaseColumns
      [] st = "inBlock" /\ block \in Blocks                      -> BlockColumns(block)
      [] OTHER                                                   -> {}

Finished == {"ready", "failed"}
Running == pc \notin Finished \cup {"off"}

Init ==
    /\ \E image \in Images :
          /\ rows = image.rows
          /\ columns = image.columns
          /\ version = image.version
    /\ pc = "off" /\ call = "init" /\ target = 0 /\ found = {}
    /\ block = "none" /\ done = 0 /\ work = <<>>
    /\ crashes = 0 /\ faults = 0 /\ resets = 0

----------------------------------------------------------------------------
(* The statements, each when it succeeds.                                  *)

Statement(st, next) == pc = st /\ Needs(st) \subseteq columns /\ pc' = next

CreateVersionTable ==
    /\ Statement("createVersionTable", "createWords")
    /\ UNCHANGED <<disk, locals, txn, budget>>

\* CREATE TABLE IF NOT EXISTS leaves an older table as it is.
CreateWords ==
    /\ Statement("createWords", "createIndex")
    /\ columns' = IF columns = {} THEN AllColumns ELSE columns
    /\ UNCHANGED <<rows, version, locals, txn, budget>>

CreateIndex ==
    /\ Statement("createIndex", "readVersion")
    /\ UNCHANGED <<disk, locals, txn, budget>>

\* migrateDatabase up to its first branch.  Step 2 is always followed by step
\* 3, so the version read decides only where the migration starts.
StartMigration(v) ==
    /\ pc' = IF v < 2 THEN "v2Info"
             ELSE IF v < DB_VERSION THEN "v3Info" ELSE AfterMigrate
    /\ target' = IF v < 2 THEN 2 ELSE DB_VERSION

ReadVersion ==
    /\ pc = "readVersion"
    /\ \E v \in IF version = {} THEN {0} ELSE version : StartMigration(v)
    /\ UNCHANGED <<disk, call, found, txn, budget>>

V2InfoVariant ==                \* one column stands for both
    /\ Statement("v2Info", IF "emoji" \notin columns THEN "v2Emoji" ELSE "v2Begin")
    /\ UNCHANGED <<disk, locals, txn, budget>>

V2Info ==
    /\ Statement("v2Info", IF "emoji" \notin columns THEN "v2Emoji"
                           ELSE IF "imageUrl" \notin columns THEN "v2ImageUrl"
                           ELSE "v2Begin")
    /\ UNCHANGED <<disk, locals, txn, budget>>

V2AddEmoji ==
    /\ Statement("v2Emoji", IF "imageUrl" \notin columns THEN "v2ImageUrl"
                            ELSE "v2Begin")
    /\ columns' = columns \cup {"emoji"}
    /\ UNCHANGED <<rows, version, locals, txn, budget>>

V2AddImageUrl ==
    /\ Statement("v2ImageUrl", "v2Begin")
    /\ columns' = columns \cup {"imageUrl"}
    /\ UNCHANGED <<rows, version, locals, txn, budget>>

V3Info ==
    /\ Statement("v3Info", IF "vocabulary_set" \in columns THEN "v3Label"
                           ELSE "v3AddSet")
    /\ UNCHANGED <<disk, locals, txn, budget>>

\* When the column is there already the error "duplicate column" is swallowed.
V3AddSet ==
    /\ Statement("v3AddSet", "v3Label")
    /\ columns' = columns \cup {"vocabulary_set"}
    /\ rows' = IF "vocabulary_set" \in columns THEN rows ELSE AddDefault(rows)
    /\ UNCHANGED <<version, locals, txn, budget>>

V3Label ==
    /\ Statement("v3Label", "v3Count")
    /\ rows' = Label(rows)
    /\ UNCHANGED <<columns, version, locals, txn, budget>>

V3CountVariant ==               \* the migration always seeds
    /\ Statement("v3Count", "v3Begin")
    /\ UNCHANGED <<disk, locals, txn, budget>>

V3Count ==
    /\ Statement("v3Count", IF "letters" \in CountedLabels(rows)
                            THEN "deleteVersion" ELSE "v3Begin")
    /\ UNCHANGED <<disk, locals, txn, budget>>

\* setVersion: two statements, each committed on its own.
DeleteVersion ==
    /\ Statement("deleteVersion", "insertVersion")
    /\ version' = {}
    /\ UNCHANGED <<rows, columns, locals, txn, budget>>

InsertVersionVariant ==         \* setVersion(DB_VERSION) after every step
    /\ Statement("insertVersion", CASE target = 0 -> "readVersion"
                                    [] target = 2 -> "v3Info"
                                    [] OTHER      -> AfterMigrate)
    /\ version' = version \cup {DB_VERSION}
    /\ target' = DB_VERSION
    /\ UNCHANGED <<rows, columns, call, found, txn, budget>>

InsertVersion ==
    /\ Statement("insertVersion", CASE target = 0 -> "readVersion"
                                    [] target = 2 -> "v3Info"
                                    [] OTHER      -> AfterMigrate)
    /\ version' = version \cup {target}
    /\ target' = DB_VERSION
    /\ UNCHANGED <<rows, columns, call, found, txn, budget>>

CountWordsVariant ==            \* README.md:13, "if data exists, skips seeding"
    /\ Statement("countWords", IF rows = <<>> THEN "allBegin" ELSE "ready")
    /\ UNCHANGED <<disk, locals, txn, budget>>

CountWords ==
    /\ Statement("countWords", IF rows = <<>> THEN "allBegin" ELSE "countSets")
    /\ UNCHANGED <<disk, locals, txn, budget>>

SeedMissingVariant(labels) ==   \* only letters are looked for
    IF "letters" \notin labels THEN "lettersBegin" ELSE "ready"

\* The seeding that follows the three counts, by the labels they found.
SeedMissing(labels) ==
    IF "common-words" \notin labels THEN "commonBegin"
    ELSE IF "letters" \notin labels THEN "lettersBegin" ELSE "ready"

CountSets ==
    /\ found' = CountedLabels(rows)
    /\ Statement("countSets", IF "unlabelled" \in found' THEN "fixLabels"
                              ELSE SeedMissing(found'))
    /\ UNCHANGED <<disk, call, target, txn, budget>>

\* The counts are not read again after the fix.
FixLabels ==
    /\ Statement("fixLabels", SeedMissing(found))
    /\ rows' = Label(rows)
    /\ UNCHANGED <<columns, version, locals, txn, budget>>

\* BEGIN TRANSACTION, at each of the five places that open one.
BlockAt(st) ==
    CASE st = "v2Begin" -> "emoji"           [] st = "v3Begin" -> "migrateLetters"
      [] st = "commonBegin" -> "common"      [] st = "lettersBegin" -> "letters"
      [] st = "allBegin" -> "all"            [] OTHER -> "again"
Begins == {"v2Begin", "v3Begin", "commonBegin", "lettersBegin", "allBegin",
           "againBegin"}

Begin ==
    /\ \E st \in Begins : Statement(st, "inBlock") /\ block' = BlockAt(st)
    /\ done' = 0
    /\ work' = rows
    /\ UNCHANGED <<disk, locals, budget>>

BlockStatementVariant ==        \* BEGIN is forgotten: every statement commits
    /\ Statement("inBlock", "inBlock")
    /\ done < Len(Script(block))
    /\ done' = done + 1
    /\ work' = LET w == Script(block)[done + 1]
               IN  IF block = "emoji" THEN FillEmoji(work, w) ELSE Insert(work, w)
    /\ rows' = work'
    /\ UNCHANGED <<columns, version, locals, block, budget>>

BlockStatement ==
    /\ Statement("inBlock", "inBlock")
    /\ done < Len(Script(block))
    /\ done' = done + 1
    /\ work' = LET w == Script(block)[done + 1]
               IN  IF block = "emoji" THEN FillEmoji(work, w) ELSE Insert(work, w)
    /\ UNCHANGED <<disk, locals, block, budget>>

EndBlock == block' = "none" /\ done' = 0 /\ work' = <<>>

Commit ==
    /\ Statement("inBlock", AfterCommit(block))
    /\ done = Len(Script(block))
    /\ rows' = work
    /\ EndBlock
    /\ UNCHANGED <<columns, version, locals, budget>>

Rollback ==
    /\ pc = "rollback"
    /\ pc' \in {AfterRollback(block), AfterFailedRollback(block)}
    /\ EndBlock
    /\ UNCHANGED <<disk, locals, budget>>

DeleteWords ==
    /\ Statement("resetWords", "resetVersion")
    /\ rows' = <<>>
    /\ UNCHANGED <<columns, version, locals, txn, budget>>

DeleteVersions ==
    /\ Statement("resetVersion", "deleteVersion")
    /\ version' = {}
    /\ target' = 0
    /\ UNCHANGED <<rows, columns, call, found, txn, budget>>

----------------------------------------------------------------------------
(* A statement that throws changes nothing on disk; the catch around it    *)
(* decides what runs next.                                                 *)

AfterFaultVariant(st) ==        \* the catch at 380 calls seedIfEmpty again
    CASE st \in {"fixLabels", "commonBegin", "lettersBegin", "allBegin"} -> "countWords"
      [] st = "inBlock" -> "rollback"
      [] OTHER -> "failed"

AfterFault(st) ==
    CASE st = "readVersion"          -> "v2Info"         \* taken for version 0
      [] st = "v3Info"               -> "v3AddSet"
      [] st = "v3Label"              -> "v3Count"
      [] st \in {"v3Count", "v3Begin"} -> "deleteVersion"
      [] st \in {"countWords", "countSets", "fixLabels", "commonBegin",
                 "lettersBegin", "allBegin"} -> "againBegin"
      [] st = "inBlock"              -> "rollback"
      [] OTHER                       -> "failed"

Throw ==
    /\ Running /\ pc # "rollback"
    /\ pc' = AfterFault(pc)
    /\ target' = IF pc = "readVersion" THEN 2 ELSE target
    /\ UNCHANGED <<disk, call, found, txn, crashes, resets>>

\* The device fails a statement: the file is locked, full or unreadable.
Fault ==
    /\ faults < MaxFaults
    /\ faults' = faults + 1
    /\ Throw

\* SQLite rejects a statement whose table or column does not exist.
SchemaError ==
    /\ ~(Needs(pc) \subseteq columns)
    /\ Throw
    /\ UNCHANGED faults

(* The process: launched, closed, killed, asked to reset.                  *)

Start(procedure, first) ==
    pc' = first /\ call' = procedure /\ target' = 0 /\ found' = {}

Launch ==
    /\ pc = "off"
    /\ Start("init", "createVersionTable")
    /\ UNCHANGED <<disk, txn, budget>>

Close ==
    /\ pc \in Finished
    /\ pc' = "off"
    /\ UNCHANGED <<disk, locals, txn, budget>>

Reset ==
    /\ pc \in Finished /\ resets < MaxResets
    /\ resets' = resets + 1
    /\ Start("reset", "resetWords")
    /\ UNCHANGED <<disk, txn, crashes, faults>>

Crash ==
    /\ Running /\ crashes < MaxCrashes
    /\ crashes' = crashes + 1
    /\ pc' = "off"
    /\ EndBlock
    /\ UNCHANGED <<disk, locals, faults, resets>>

Open == CreateVersionTable \/ CreateWords \/ CreateIndex \/ ReadVersion
Migrate2 == V2Info \/ V2AddEmoji \/ V2AddImageUrl
Migrate3 == V3Info \/ V3AddSet \/ V3Label \/ V3Count
SetVersion == DeleteVersion \/ InsertVersion
SeedIfEmpty == CountWords \/ CountSets \/ FixLabels
Transaction == Begin \/ BlockStatement \/ Commit \/ Rollback
Clear == DeleteWords \/ DeleteVersions
ProgramStep == Open \/ Migrate2 \/ Migrate3 \/ SetVersion \/ SeedIfEmpty
               \/ Transaction \/ Clear \/ SchemaError
Next == ProgramStep \/ Fault \/ Launch \/ Close \/ Reset \/ Crash

Spec == Init /\ [][Next]_vars

\* The program runs on; the user closes the app and opens it again.
Fairness == WF_vars(ProgramStep) /\ WF_vars(Close) /\ WF_vars(Launch)
FairSpec == Spec /\ Fairness

\* A device that goes on failing: any number of statements, in any places.  The
\* user does not open the app again, else the catch at 380 seeds without end.
FaultAgain == Throw /\ UNCHANGED faults
BrokenStep == ProgramStep \/ FaultAgain
BrokenSpec == /\ Init /\ [][BrokenStep \/ Launch \/ Reset \/ Crash]_vars
              /\ WF_vars(BrokenStep)

----------------------------------------------------------------------------
(* Properties.                                                             *)

TypeOK ==
    /\ rows \in Seq(Row)
    /\ columns \subseteq AllColumns
    /\ version \subseteq 0..DB_VERSION
    /\ pc \in PC
    /\ call \in {"init", "reset"}
    /\ target \in 0..DB_VERSION
    /\ found \subseteq Labels
    /\ block \in Blocks \cup {"none"}
    /\ done \in Nat
    /\ work \in Seq(Row)
    /\ crashes \in 0..MaxCrashes /\ faults \in 0..MaxFaults
    /\ resets \in 0..MaxResets

Copies(w) == Cardinality({i \in DOMAIN rows : rows[i].word = w})

\* A vocabulary set is in the file whole, any number of times: no crash, failed
\* statement or rollback leaves part of a list behind (the transactions of
\* lines 160-173, 236-253, 337-354, 360-377 and 398-431).
WholeSets ==
    /\ \A u, v \in Ran(CommonWords) : Copies(u) = Copies(v)
    /\ \A u, v \in Ran(Letters) : Copies(u) = Copies(v)

\* "only seeds once" (services/README.md:13): no word is stored twice, however
\* often the process dies and initializeDatabase starts over.
SeededOnce == \A w \in Words : Copies(w) <= 1

\* What db_version records is true of the file: version 2 means the emoji
\* columns exist and are filled in for every common word, version 3 also that
\* the label column exists.  A crash between the statements of a migration or
\* of setVersion must not make the next launch skip work that is not done.
VersionHonest ==
    \A v \in version :
        /\ v >= 2 =>
            /\ EmojiColumns \subseteq columns
            /\ \A i \in DOMAIN rows :
                  rows[i].word \in Ran(CommonWords) => rows[i].emoji
        /\ v >= 3 => "vocabulary_set" \in columns

\* initializeDatabase never executes a statement on columns the file does not
\* have: the order createTables, migrate, seed is right for every old file, and
\* after every interruption of an earlier launch.
ColumnsSuffice == Running /\ call = "init" => Needs(pc) \subseteq columns

\* Both sets, labelled so that getWordsBatch finds them.
Populated ==
    /\ \A w \in Words : \E i \in DOMAIN rows :
          rows[i].word = w /\ rows[i].set = LabelOf(w)

\* "the database is always populated on first launch" (database.ts:10): when
\* initializeDatabase or resetDatabase returns, both sets can be read.
ReadyPopulated == pc = "ready" => Populated

\* No step of the program but the DELETE of resetDatabase loses a row, changes
\* its id order, takes back its emoji or moves it from one set to another.
Keeps(old, new) ==
    /\ DOMAIN old \subseteq DOMAIN new
    /\ \A i \in DOMAIN old :
          /\ new[i].word = old[i].word
          /\ old[i].emoji => new[i].emoji
          /\ old[i].set # "unlabelled" => new[i].set = old[i].set
NothingLost == [][pc # "resetWords" => Keeps(rows, rows')]_vars

\* The abstract store: one count of rows for each word.
Store == INSTANCE VocabularyStore WITH
            VocabularySets <- {Ran(CommonWords), Ran(Letters)},
            copies <- [w \in Words |-> Copies(w)]
ImplementsStore == Store!Spec

\* initializeDatabase and resetDatabase return, or throw, unless the process
\* dies: however many statements fail, no chain of caught errors loops.
CallTerminates == [](Running => <>(~Running))

\* Whatever the launches before went through, an app that is reopened often
\* enough has both vocabulary sets: what one launch fails to seed and swallows
\* (lines 251, 353, 376), a later launch seeds.
EventuallyPopulated == <>[]Populated
============================================================================
