----------------------------- MODULE AppLaunch -----------------------------
(***************************************************************************)
(* The whole way of a learner: the app is launched on whatever file it     *)
(* finds, initializeDatabase brings the file up to date in the task that   *)
(* mounts AppContent, and the typing session reads its pages from that     *)
(* file.  VocabularyDatabase and TypingSession share the words table.      *)
(***************************************************************************)
EXTENDS VocabularyDatabase

CONSTANTS NoSet, NoWord, BATCH_SIZE

VocabularySets == {"common-words", "letters"}

ASSUME PageAssumption ==
    /\ BATCH_SIZE \in Nat \ {0, 1}
    /\ NoSet \notin VocabularySets /\ NoWord \notin Words
    /\ Len(CommonWords) # 1 /\ Len(Letters) # 1

VARIABLES state, shown, reload, micro, sync, task, events, readFaults

session == <<state, shown, reload, micro, sync, task, events, readFaults>>
appVars == <<vars, session>>

\* What getWordsBatch can read of the file: WHERE vocabulary_set = ? ORDER BY id.
Ids(set) == {i \in DOMAIN rows : rows[i].set = set}
IdAt(ids, k) == CHOOSE i \in ids : Cardinality({j \in ids : j <= i}) = k
Stored(set) ==
    [k \in 1..Cardinality(Ids(set)) |-> rows[IdAt(Ids(set), k)].word]

Session == INSTANCE TypingSession WITH
    Sets <- VocabularySets, Tables <- {}, MaxEvents <- 1, MaxFaults <- 0,
    table <- [set \in VocabularySets |-> Stored(set)], faults <- readFaults

\* The state of a process that has not rendered yet.
NewProcess ==
    /\ state' = Session!InitialView /\ shown' = Session!InitialView
    /\ reload' = FALSE /\ micro' = <<>> /\ sync' = FALSE
    /\ task' = FALSE /\ events' = 0 /\ readFaults' = 0

AppInit ==
    /\ Init
    /\ state = Session!InitialView /\ shown = Session!InitialView
    /\ reload = FALSE /\ micro = <<>> /\ sync = FALSE
    /\ task = FALSE /\ events = 0 /\ readFaults = 0

\* The statements run in one task: no event of the session comes between them.
AppInitialize == (ProgramStep \/ Launch \/ Crash) /\ UNCHANGED session

\* The user closes the app, or the system kills it between two events.
AppCloses == Close /\ NewProcess

\* A learner who waits for the screen.
AppSession == pc \in Finished /\ UNCHANGED vars /\ Session!PatientNext

AppNext == AppInitialize \/ AppCloses \/ AppSession
AppSpec == AppInit /\ [][AppNext]_appVars

----------------------------------------------------------------------------
(* Properties.                                                             *)

\* "This ensures the database is always populated on first launch" (database.ts:10),
\* as the learner sees it: "No words available" (App.tsx:284) is never on the screen,
\* whichever version left the file and wherever earlier launches were killed.
NeverWithoutWords ==
    shown.page = "typing" /\ ~shown.isLoading => shown.words # <<>>

\* The learner is shown the bundled words of the chosen set, from the first on, in
\* their order, each once, through every launch.
Bundled == [set \in VocabularySets |->
                IF set = "letters" THEN Letters ELSE CommonWords]
Lesson == INSTANCE WordWalk WITH
              Sets <- VocabularySets, lists <- Bundled, set <- shown.set,
              place <- Session!PlaceShown, word <- Session!currentWord(shown)
ImplementsLesson == Lesson!Spec
=============================================================================
