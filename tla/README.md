# TypeKorean: a verification project

TLA+ specifications of TypeKorean (`src/`), a React Native app that teaches
Korean typing. The learner picks a vocabulary set, types each word on an
on-screen two-set keyboard, and goes on to the next word. Words are kept in an
SQLite file that the app creates, migrates and seeds by itself.

The modules are read with the source beside them: `PROJECT.json` ("map") names
the lines every definition stands for.

## 1. The system

| Component | Source (under `src/`) | State | Operations |
|---|---|---|---|
| Vocabulary database | `TypeKorean/services/database.ts` | the tables `words` and `db_version` (durable), the handle `db`, the variables of the call in progress | `initializeDatabase`, `resetDatabase`; readers, of which the app uses `getWordsBatch` |
| Hangul composer | `TypeKorean/utils/hangulComposer.ts` | none | `addJamo`, `handleBackspace` |
| Keyboard | `TypeKorean/components/KoreanKeyboard.tsx` | `isShiftPressed` | character, space, backspace and shift keys |
| Typing session | `TypeKorean/App.tsx` | `text`, `wordsBatch`, `currentWordIndex`, `currentPage`, `currentVocabularySet`, `isLoading`, `reloadTrigger` | keys, Skip, Next, swipe, Home, start, loading a page of words |
| Speech | `TypeKorean/utils/textToSpeech.ts`, `App.tsx` 59-69, 131-135 | `isInitialized`, the 300 ms timer, calls between two awaits, the engine's queue | `initializeTTS`, `speakKorean`, the speaker button |
| Sounds | `TypeKorean/utils/sound.ts`, `TypeKorean/ios/TypeKorean/SoundPlayer.swift` | `prevIsMatchRef`, one native player and the calls on their way to it | key sound, success sound, stop |
| Home page | `TypeKorean/components/HomePage.tsx` | none | choice of a set |
| Data scripts | `scripts/*.js` | CSV and JSON files | run by a developer |
| Server | `typekorean-fastify/src/index.ts` | none | a greeting and a health check; the app does not call it |

How they interact. When `App` is mounted an effect calls `initializeDatabase`
and then `initializeTTS`. A choice on the home page makes another effect load
the first ten words of the set. A key press goes from the keyboard through
`handleKeyPress` to `setText(prev => addJamo(prev, key))`; rendering compares the
trimmed text with the word and offers Next. A new word schedules `speakKorean`;
every key, and every match, plays a sound through the same native player, and
leaving the typing page stops it (the keyboard's cleanup).

What runs when is decided by React Native. Taps that have queued up are handled
in one JavaScript task (`EventQueueProcessor.cpp`, `flushEvents`); at the end of the
task the continuations after each `await` run
(`RuntimeScheduler_Modern.cpp`, `performMicrotaskCheckpoint`) and React renders
what the taps have set. What a swipe or a continuation has set is rendered in a
task of its own, before which other events may come. `db.execute` is synchronous:
a call of `getWordsBatch` has read the table when it returns its promise, and
`initializeDatabase` is through in the task that mounts `App`.

What is hard about it, and what makes each part correct:

* **Database.** `db.execute` is synchronous, so no other code of the app runs
  between two statements; but the process may be killed there, and each statement
  may fail. The migrations are several statements, each committed on its own
  (only the word lists go through transactions); `setVersion` is two. Five
  different `catch` blocks swallow, rethrow or react by seeding again. Correct
  means: each word list is in the file whole and once, the recorded version never
  claims work that was not done, the next launch finishes what an interrupted one
  began, no launch uses a column the file does not have, nothing is lost.
* **Composer and keyboard.** What a key does depends on the last two characters.
  Correct means: no jamo that was typed is lost, doubled or reordered, nothing
  before the last character changes, backspace takes off the end, and every word
  can be typed and then equals the word on the screen.
* **Typing session.** A handler reads the state of the last render, which is old
  after the first of two taps, and writes after an await. Reads may fail. Correct
  means: the words come in order, none skipped or repeated, of the set that was
  chosen last; loading ends; the last word is reached.
* **Speech.** Each call stops, then speaks, with an await between, and calls
  overlap in one engine. Correct means: a word that stays on the screen is heard, in
  its turn, a skipped one is not asked for, and no earlier call cuts it off.
* **Sounds.** One player serves all sounds, later than they were asked for. Correct
  means: each match is heard once, and nothing plays on the home page.

`PROJECT.json` ("hazards") lists these at their lines, with the properties that
cover them. Three hazards have none because the code does go wrong there (the duplicates of a
reset and of unlabelled rows, and the success sound that is left out when Next and a
match come in one task): the table of defects in section 3 shows how to see them. A fourth,
the word spoken after going home, contradicts no text of the repository.

## 2. Modules

| Module | Models |
|---|---|
| `VocabularyDatabase` | `initializeDatabase` and `resetDatabase`, one action per SQL statement, with crashes and failing statements |
| `VocabularyStore` | the abstract store that `services/README.md` promises: each set is stored whole, at most once, for good |
| `Hangul` | `hangulComposer.ts` as operators on UTF-16 codes |
| `KoreanKeyboard` | the keys, shift and the typed text (EXTENDS `Hangul`) |
| `WordTyping` | the keyboard together with a learner who types whole words (EXTENDS `KoreanKeyboard`) |
| `TypingSession` | `App.tsx` and the card of `HomePage.tsx`: pages of words, Skip, Next, swipe, keys, Home and start, over React Native's tasks and renders |
| `WordWalk` | the abstract session: the words of the chosen set in their order, each once |
| `AppLaunch` | `VocabularyDatabase` and `TypingSession` over one table of words (EXTENDS the one, an instance of the other) |
| `SessionSounds` | the session with its key and success sounds, the keyboard's cleanup and the native player (EXTENDS `TypingSession`) |
| `Speech` | the delayed call, the speaker button, `textToSpeech.ts` and the native module behind it |
| `MC...` | the constants TLC uses |
| `VocabularyDatabaseProofs`, `VocabularyStoreProofs`, `AppLaunchProofs` | theorems about the database, its sets, and the whole app |
| `KeyboardProofs`, `WordTypingProofs` | theorems about `Hangul` and `KoreanKeyboard`, and about words typed to their end |
| `TypingSessionProofs`, `SessionSoundsProofs` | theorems about the session, its refinement, and its sounds |
| `SpeechProofs` | theorems about speech |

**VocabularyDatabase.** `rows`, `columns`, `version` are the file; `pc` names the
statement that is executed next; `block`, `done`, `work` are the open transaction;
`call`, `target`, `found` the local variables that later statements read. Each
action is one statement when it succeeds. `Fault` is a statement that throws:
`AfterFault` says which `catch` gets it and what runs then. `Rollback` may itself
throw (SQLite has sometimes rolled back already), hence its two outcomes.
`SchemaError` is the failure that needs no fault, a missing table or column;
`Needs` says which columns a statement names. `Crash` ends the process between two
statements, and SQLite forgets the open transaction. A word stands for a (korean,
english) pair; `emoji` says that a row has been given its emoji and image;
`unlabelled` stands for the NULL, '' and 'undefined' that lines 222, 319 and 330
treat alike. The files the app may find (`Images`) are: none; the first app's,
without a version; version 1; version 2; and a file with the latest columns whose
rows were never labelled, for which lines 316-332 were written. The three counts
of lines 317-319 are one action: nothing changes the table between them.
The program runs one call at a time: `App` calls `initializeDatabase` once, and
`resetDatabase` is a developer's tool (`services/RESET_DATABASE.md`), called when
no other call runs. `open` itself does not fail in the model; when it does, no
statement is executed.

**Hangul.** Characters are their codes, so that the arithmetic of lines 58-59 and
72-75 is the code's own; `''` as a final is `None`. `combineJamo` returns a
sequence of length 0 or 1, which makes the lost syllable of line 54 visible.

**KoreanKeyboard.** One action per key. A press is one event, handled to its end;
`setText(prev => ...)` composes presses in the order they come, so they need no
interleaving. The enter key does nothing (line 110). Key sounds are left out.

**WordTyping.** The learner has a word and the keys of one of its two standard
ways to type it (a compound vowel by its own key, or by two) and presses shift
when the next key is on the other layout.

**TypingSession.** `state` is App's state as the setters have left it, `shown` as it
was last rendered: what every closure holds until the next render. A handler reads
`shown` and writes `state`. `task` says that a task is handling taps, so that
another tap may join it (`Tap`); a swipe is a gesture event in a task of its own.
`micro` holds the continuations after `await`, each with the answer it will get,
because the read itself is over; `sync` says that a tap has set state, so that
React renders at the end of this very task. `Render` also runs the loading effect
of lines 90-129, whose dependencies have changed after `handleStartTyping` only
(`reload`); going home changes `currentPage` too, but then the effect does nothing. `Answers`:
a read that fails gives `[]` (database.ts:634). The text is abstracted to empty,
unfinished, or a whole word: `KoreanKeyboard` says how it gets there. A tap on the home
page may come twice in a task, and Home and a card may not: cards are not on the
typing page, and what can be tapped is what was last rendered.

`Walk` maps the session to `WordWalk`: the set and word of the last render, and the
index as the place in the set.

**AppLaunch.** The table the session reads is what `getWordsBatch` selects from `rows`
of `VocabularyDatabase` (`Stored`: the rows with the label, numbered in their order). `initializeDatabase` never waits, so no event of the
session comes between its statements; crashes do. Closing the app, or the system
killing it between two events, takes the session's state with it.

**SessionSounds.** `requests` are the calls that JavaScript has made and the main
queue has not taken up; a file that cannot be played leaves the player as it is.
React runs all cleanups of a render before its effects (`RenderSounds`).

**Speech.** `calls` numbers the calls of `speakKorean`; call 0 is `initializeTTS` of
App's effect (absent when the database threw). The native module takes `requests` in order
and settles their promises in order (`replies`); `Resume` is the rest of a call up to
its next await. `engine` is the engine's queue: `speak` appends, `stop` empties it.
`isInitialized` is read before the await of `initializeTTS`, so that calls may
initialise again. Going home leaves the word and so the timer as they are.

Definitions named `...Variant`, and a few named for the mistake, are plausible
mistakes in the definition that follows them. No specification uses them: they show that each property depends on
the code it is about.

## 3. Runs

| Run | Checks | Distinct states |
|---|---|---|
| `app_launch` | three crashes, no failing statement, then the session: `TypeOK`, `SeededOnce`, `ReadyPopulated`, `ImplementsStore`, `NeverWithoutWords`, `ImplementsLesson` | 3898 |
| `database_fault` | a crash, two faults and a reset, under fairness: `WholeSets`, `VersionHonest`, `ColumnsSuffice`, `NothingLost`, `EventuallyPopulated` | 7264 |
| `database_broken` | under fairness, with any number of failing statements: `CallTerminates` | 2918 |
| `keyboard_typing` | `TextTypeOK`, `OeNeverAlone`, `NoStrokeLost`, `PrefixKept`, `BackspaceRemovesEnd` | 231058 |
| `word_typing` | `WordTyped`, `WordFinished` | 46319 |
| `session_taps` | three taps or gestures between two renders, a failing read: `TypeOK`, `OwnWords`, `CurrentWordExists`, `OneWordAtATime`, `LoadingEnds` | 97176 |
| `session_steady` | a learner who skips on, three failing reads: `LastWordReached` | 149 |
| `sounds_patient` | a learner who waits for the screen: `ImplementsWalk`, `MatchIsHeard`, `SilentAtHome` | 6537 |
| `speech_heard` | any overlap, every native call but the fallback may fail: `TypeOK`, `OnlyLaterStops`, `OnlyShownIsAsked`, `ShownIsHeard`, `CallsEnd` | 19107 |
| `speech_ready` | any overlap after the set-up: `SpokenInOrder` | 16508 |

What they show:

* As long as no statement fails, `initializeDatabase` keeps its promise: from
  every old file, through three crashes at any statement, both sets are stored
  whole and exactly once (`ImplementsStore`: the file refines `VocabularyStore`).
* When statements fail as well, the file stays sound (no partial set, no dishonest
  version, nothing lost) but words may be stored twice or be missing for now (the
  table of defects below). They are seeded by a later launch.
* The keyboard loses a keystroke in two cases only: a vowel after a compound final
  (a finding), and a consonant after a lone consonant, which replaces it and is
  meant to (`hangulComposer.test.ts:94`). `NoStrokeLost` names both.
* A word comes out right exactly if no final in it can be joined with the initial
  of the next syllable (`WordTyped`): 학생, typed ㅎㅏㄱㅅㅐㅇ, becomes another word,
  because line 186 prefers the compound final ㄳ and the next vowel then deletes it.
  So the compound-final defect makes ordinary words impossible to type straight
  through.
* The letter ㅚ, which `data/letters.json` asks for, cannot be typed at all
  (`OeNeverAlone`): it is on no layout, and two lone vowels do not combine.
* However many taps and swipes come between two renders, the session keeps to
  the chosen set, never leaves its list, never passes over a loaded word, and never
  hangs on "Loading...". No page of the old set can come in after Home and a new
  choice, because the continuation of a tap runs before the render that shows the
  home page, and the read is over by then.
* With one tap at a time and a readable table, the screen shows exactly the words of
  the set in order (`ImplementsWalk`), and over every file that the first launch may
  find, and earlier launches may have left when they were killed, exactly the bundled
  words (`ImplementsLesson`). The files are those the installed versions leave. With a failing
  read, skipping on still reaches the last word.
* A word that appears and stays is heard, whatever was asked for before: a stop never
  cuts off the word of a later call (`OnlyLaterStops`), however calls overlap, set the
  language again or are rejected. Only the fallback must not stop again. That the
  words come in the order asked for needs a finished set-up and no rejected `speak`:
  a call that initialises again, or falls back, takes one more await and is overtaken.
* The cleanup silences the player when the learner waits for the screen. A key and
  Home in the same task can end with the success sound on the home page, since the
  effect of a match comes after the cleanup.

Runs that end in a violation, each a disagreement between the code and its own
documentation (`PROJECT.json`, "findings"):

| Run | Property | What happens |
|---|---|---|
| `keyboard_finals` | `VowelMovesFinal` | a vowel after a compound final deletes both |
| `session_no_more` | `NoMoreWords` | two taps at the end of a page append the next page twice; the offset, a length, then jumps over words, and the set ends early |

Other defects appear when a passing run is given more than its configuration
allows, or another property (the first four: `database_fault` with `MaxCrashes` = 0 and
the other two bounds as said); the bounds of the runs are where they are because of them:

| Change | Property violated | What happens |
|---|---|---|
| `database_fault`, a reset and no fault, installed files | `SeededOnce` | reset stores every letter twice: the migration seeds letters (database.ts:234), then `seedDatabase` does (:415) |
| `database_fault`, no reset and no fault, all files | `SeededOnce` | counts taken before labels are fixed (:317) make it seed common words again |
| `database_fault`, a fault and no reset, installed files | `ReadyPopulated` | a failed seeding is swallowed (:351), and the launch succeeds without the set |
| the same | `SeededOnce` | the catch-all of `seedIfEmpty` (:380) seeds a file that has letters already |
| `sounds_patient` with `MaxFaults` = 1 | `ImplementsWalk` | after a first page that could not be read, Skip loads it and shows its second word (App.tsx:170) |
| `sounds_patient` with `SoundSpec`, `MaxEvents` = 2 | `MatchIsHeard` | Next and the key that finishes the following one-letter word, in one task: no success sound (App.tsx:52) |
| `speech_ready` | `Len(engine) <= 1` | two overlapping calls both stop, then both speak: the second word waits (textToSpeech.ts:73) |

**Bounds.** Two common words and two letters: a list must have two words for a
transaction to stop inside it, and no code compares words of one list. The loop of
a transaction does the same for each word, so longer lists add length only.
`MaxCrashes`, `MaxFaults`, `MaxResets`: three crashes, or one crash, two faults and a
reset. A crash loses all memory, so what matters is the set of files reachable; two
faults are needed for a fault inside the handler of another. In `app_launch` statements
do not fail and nothing is reset, and the files are those of installed versions,
because `SeededOnce` and `ReadyPopulated` are violated otherwise, as the table above
shows. `MaxText`: the user types no further character into a
text of that length. `addJamo` reads the last two characters, so presses into texts
of up to two characters (`MaxText` = 3) meet every case.
`Pressed`: keys of every kind that `addJamo` tells apart (the comment in
`MCKoreanKeyboard`). `WordTyping` presses every key and goes through every final
before every initial, and every vowel. It may deadlock: the word is done.

For the session: pages of two words (`BATCH_SIZE`; two is the least for a page to have
a middle and an end) and a set of three pages, the last not full, so that the offset
counts twice; the other set has one full page, after which an empty one is asked for.
`MaxEvents` = 3 events between two renders: two taps on the same screen are the
conflict, the third comes before, between or after. `MaxFaults` failing reads. A set is
empty or has at least two words (`SessionAssumption`): sets are stored whole.
`MaxRequests`: the learner waits while so
many calls of the player do. For speech, two words (a third adds no case: calls compare
with the word on the screen only) and three or four changes of the word or taps on the
speaker: three calls, of which one initialises, one is late and one is the last.
`FailingOps` names the native calls that may be rejected. The database of
`app_launch` has three common words and two letters, in pages of two.

**Learners.** `Spec` lets taps come at any time. `PatientSpec` of the session is a learner
who taps when the screen shows what the last tap has done: `ImplementsWalk` and
`SilentAtHome` are false without it, as `session_no_more` and the bullet on
the cleanup show. `SteadySpec` is a learner who only chooses a set and skips.
`Speech!ReadySpec` begins no call before `initializeTTS` is over. The learner of `Speech` is bounded by `MaxEvents` in all, so those
runs may stop and say `CHECK_DEADLOCK FALSE`.

**Fairness.** `ProgramStep`: a running call executes its next statement; nothing
in `database.ts` waits. `Close` and `Launch`: the user closes the app and opens it
again; needed for `EventuallyPopulated` only, which is a promise about launches.
Crashes, faults and resets are never fair. `BrokenSpec` lets
statements fail for ever, so that a loop of caught errors would not end by itself;
there the app is not opened again after a call has ended (each launch could add rows
by the catch of line 380), and the run may stop. In `WordTyping` the learner goes on
until the word is done. In `TypingSession`, `EndOfTask` and `Resume` are weakly fair: a
JavaScript task and its continuations run to their ends. `Render` is strongly fair: taps
may come before it again and again, but a scheduled task runs ahead of newer ones
when its timeout is over (five seconds for a render of normal priority,
`SchedulerPriorityUtils.h`). `SteadySpec` adds a learner who goes on skipping, which
`LastWordReached` is about. In `Speech` timers fire, the native module settles
every promise, its answers are taken up and an utterance ends; each is weakly fair, and
the learner is not.

## 4. Proofs

| Theorem | Says |
|---|---|
| `VocabularyDatabaseProofs!TypeCorrect` | `Spec => []TypeOK` |
| `VocabularyDatabaseProofs!Inductive` | `Spec => []IInv` |
| `VocabularyDatabaseProofs!VersionNeverLies` | `Spec => []VersionHonest` |
| `VocabularyDatabaseProofs!NoMissingColumn` | `Spec => []ColumnsSuffice` |
| `VocabularyDatabaseProofs!OnlyResetDeletes` | `Spec => NothingLost` |
| `VocabularyStoreProofs!OnlyWholeSets` | `Spec => []WholeSets`, for word lists without repetition |
| `VocabularyStoreProofs!StoredOnce`, `ReadyMeansPopulated` | `Spec => []SeededOnce`, `Spec => []ReadyPopulated`, when `Unfailing` |
| `VocabularyStoreProofs!DatabaseImplementsStore` | `Spec => ImplementsStore`, when `Unfailing` |
| `AppLaunchProofs!LaunchInductive` | `AppSpec => []AppInv`, when `Unfailing` |
| `AppLaunchProofs!AppImplementsStore`, `WordsAreThere`, `AppTeachesLesson` | `AppSpec => ImplementsStore`, `AppSpec => []NeverWithoutWords`, `AppSpec => ImplementsLesson`, when `Unfailing` |
| `KeyboardProofs!CombineThenDecompose`, `DecomposeThenCombine` | `combineJamo` and `decomposeSyllable` are inverse on all 11172 syllables |
| `KeyboardProofs!KeyboardTypeCorrect` | `Spec => []TextTypeOK` |
| `KeyboardProofs!PrefixUnchanged` | `Spec => PrefixKept` |
| `KeyboardProofs!NoStrokeIsLost`, `BackspaceUndoes` | `Spec => NoStrokeLost`, `Spec => BackspaceRemovesEnd` |
| `KeyboardProofs!OeNotTyped` | `Spec => []OeNeverAlone` |
| `KeyboardProofs!FinalMoves`, `CompoundFinalLost` | what a vowel does to every syllable with a final |
| `WordTypingProofs!WordComesOut` | `TypingSpec => []WordTyped` |
| `TypingSessionProofs!SessionTypeCorrect`, `SessionInductive` | `Spec => []TypeOK`, `Spec => []IInv` |
| `TypingSessionProofs!OnlyOwnWords`, `AWordIsShown` | `Spec => []OwnWords`, `Spec => []CurrentWordExists` |
| `TypingSessionProofs!NoWordPassedOver` | `Spec => OneWordAtATime` |
| `TypingSessionProofs!SessionImplementsWalk` | `PatientSpec => ImplementsWalk`, when no read fails (`MaxFaults = 0`) |
| `SessionSoundsProofs!SoundInductive` | `PatientSoundSpec => []SoundInv` |
| `SessionSoundsProofs!HomeIsSilent`, `EveryMatchIsHeard` | `PatientSoundSpec => []SilentAtHome`, `PatientSoundSpec => MatchIsHeard` |
| `SessionSoundsProofs!SoundsImplementWalk` | `PatientSoundSpec => ImplementsWalk`, when no read fails |
| `SpeechProofs!SpeechTypeCorrect`, `SkippedNotAsked` | `Spec => []TypeOK`, `Spec => OnlyShownIsAsked` |
| `SpeechProofs!NoWordCutByEarlierCall` | `Spec => []OnlyLaterStops` |
| `SpeechProofs!CallsSpeakInOrder` | `ReadySpec => SpokenInOrder`, when `speak` is never rejected |

The theorems of `VocabularyDatabaseProofs` hold for all word lists, any subset of the old files and
any number of crashes, faults and resets. They assume `DataAssumption` (two
nonempty lists without a common word; true of the JSON files) and the
assumptions on the bounds and the files. `VersionHonest` is not inductive: that the
version may be written after the columns and emoji depends on which statement is
next. `IInv` adds what each `pc` can rely on: the columns that exist by then
(`ColumnInv`), the migration step in progress (`TargetInv`), how far the open
transaction has come and what its copy of the table has (`BlockInv`), that rows
without a label column are unlabelled (`LabelInv`), and that every common word in a
file with emoji columns whose fill was committed has its emoji (`FilledInv`).
The proof goes action by action; the facts about the operators that rewrite the
table are lemmas.

The keyboard theorems hold for texts of any length and any set of keys.
`KeyboardTypeCorrect` is worth proving because line 59 adds up indices that
`indexOf` may have returned as -1: that they never are, when a syllable is
made, follows from the guards of line 54 and the tables. The key lemma says
that `addJamo` and `handleBackspace` only replace the last character
(`AddJamoExtends`, `HandleBackspaceExtends`), which needs that line 273 rebuilds the
syllable that was there (`DecomposeThenCombine`). They also say what the new end may be:
a lone ㅚ comes from backspace only, which puts it after the initial consonant of its
syllable, and no later press can separate the two (`OeFollows`, the inductive invariant
behind `OeNeverAlone`).

`NoStrokeLost` and `BackspaceRemovesEnd` compare the strokes of whole texts (`AllStrokes`,
a recursive function inside `FlattenSeq`). That the strokes of a text are those of its
parts (`StrokesConcat`) is proved by the least counterexample: the set of lengths at which
the recursion misbehaves would have a least element (`LeastNumber`, from the library's
`WFMin`), and the step to it is a single unfolding. What remains is one lemma for each
branch of `addToSyllable`: a pair of jamo is one compound and the other way round
(`SplitOfPair`, `CompoundsDistinct`), and a final that is no compound begins a syllable
(`FinalInitialOrCompound`).

`WordTyped` is about words of any length, typed in either of the two ways. `Makes` says what
a list of keys makes of a text, and the invariant (`PlanMakesWord`) that whatever the rest of
the plan makes of the text is the target, if and only if nothing in the target clashes. It
holds at the beginning by `KeysMakeWord`, whose proof goes syllable by syllable, again by the
least counterexample. If the next syllable does not join with the text, its keys make that
syllable (`SyllableTyped`: its initial may be the final of the syllable before for as long as
no vowel has come, `AfterInitial`). If it does join, the vowel after it takes strokes away
(`JoinLoses`), and since no key adds more strokes than its own (`AddBound`, `MakesBound`), what
comes out has fewer strokes than the word: no later key can repair it.

`OnlyWholeSets` counts: each word of a list is in the file as often as every other one
of that list. A transaction breaks this on the way, so the invariant (`SetsInv`) says
how often each word is in the transaction's copy of the table when the loop has
done so many, and that the file itself does not change until COMMIT. It needs a list to name
each word once, which holds of the JSON files (512 and 124 pairs of Korean and English, all
different).

The theorems of `VocabularyStoreProofs` assume `Unfailing`: lists without repetition, no failing
statement and no reset, and a file that an installed version left (without these
assumptions they are false, as the table of defects shows), but any number of crashes, at any
statement. `OnceInv` adds to `SetsInv` that each set is in the file once or not at all
(`StoreInv`), that a row has the label of its list as soon as there is a column for it
(`RowsInv`: so the counts by label tell whether a set is there), and that what the counts
found is still true when the transaction they led to begins and when it commits (`SeedInv`). It needs
`NoMissingColumn` too: a statement SQLite rejects would end in the catch-all that seeds
again. Every commit then maps to a step of `VocabularyStore`, all other steps
to a stutter.

`AppLaunchProofs` puts the two halves together. To `OnceInv` it adds how the rows of a list
stand in the table (`OrderInv`): the words of a set are a run of consecutive rows in the
order of the list, also in the copy of a transaction that has come so far (`Grown`);
counts alone would allow any order. It follows that `Stored` is the bundled list, number
for number, when the call has returned. A session of `AppLaunch` starts then and never
changes the table, so that it is a session over a table that is the bundled lists: the
theorem of `TypingSessionProofs` applies to it as an instance, and its refinement of
`WordWalk` is that of the whole app (`AppTeachesLesson`). `PageAssumption` asks of the lists
what `SessionAssumption` asks of a table: none has just one word.

The session theorems hold for any sets, words, page size of at least two and any
number of taps between two renders. `OwnWords` and `CurrentWordExists` depend on what
is on its way: `IInv` says of every waiting page that it belongs to the set on the screen
(`SetInv`, `MicroInv`), that a new session begins only when no page waits
(`StartInv`), how far the state may be ahead of the screen (`AheadInv`), and that the index
a page moves to lies in the list it makes. For the refinement `WalkInv` adds
that the list is a prefix of the set and the one page on its way continues it
(`Prefix`, `WaitingInv`), that a list which is not loading is empty only if the set is
(`Loaded`, `LoadComes`), and what the next render may show (`ShowsNext`); each step
then maps to a step of `WordWalk` or a stutter.

For the sounds, `SoundInv` says what the ref of the success effect holds (`RefInv`: whether the
last rendered text matched), that a word appears with an empty text, so that the render
which first shows a match is one that follows a key (`TextInv`), that going home changes the
page and no word (`HomeInv`), and that the last call waiting for the player at home is
`stop` (`StopInv`). `WordAssumption`, that no word is the empty text, is true of both files.

`NoWordCutByEarlierCall` is about every overlap, every rejection and any number of calls. The
replies and the requests are one line, which a call joins at the end and goes through once
for each of its stages. So calls keep step (`Ahead`): an earlier call is one stage
behind a later one at most, and only while it is before it in line. Hence the calls before
one that speaks have all had their stop (`SpokenInv`), also those that set the language
and so have one stage more. For `CallsSpeakInOrder`, `OrderInv` says that calls are in turn in the queue of requests and
in that of replies, and that a call which has one await more before it is a later
one.

Only model-checked: everything under fairness, which the prover does not do:
`CallTerminates`, `EventuallyPopulated`, `WordFinished`, `LoadingEnds`, `LastWordReached`,
`CallsEnd`, `ShownIsHeard`.

## 5. Plan

1. Done: `VocabularyDatabase`, `VocabularyStore`, `Hangul`, `KoreanKeyboard`, `WordTyping`.
2. Done: `TypingSession` with `WordWalk`, composed with the database in `AppLaunch`.
3. Done: `Speech`.
4. Done: `SessionSounds`, with the player of iOS.
5. Done: the theorems of section 4.

## 6. Not modelled

* The readers of `database.ts` other than `getWordsBatch`, and `stopSpeaking` and
  `isSpeaking` of `textToSpeech.ts`: the app does not call them.
* Logging, styles, layout, translation of keys to pictures: nothing depends on them.
* The data scripts, run once by a developer on files; what the app needs of their
  output is an assumption (`DataAssumption`). The Fastify server keeps no state, and the
  app does not call it.
* The generated Android and iOS projects and the vendored code: `Pods` (fmt, boost,
  folly and others) and `node_modules`. They are other projects' libraries, and nearly all the
  C and C++ under `src/`; the app's own code is TypeScript and a little Swift. Of React
  Native only what decides the interleavings of `App.tsx` is modelled.
* A sound module on Android: the repository has a Swift one only.
