--------------------------- MODULE TypingSession ---------------------------
(***************************************************************************)
(* src/TypeKorean/App.tsx: a learner goes through a vocabulary set, a page *)
(* of BATCH_SIZE words at a time, with Skip, Next, a swipe and Home.       *)
(*                                                                         *)
(* A handler reads the state of the last render (its closure) and writes   *)
(* the state of the next one.  JavaScript runs in tasks: all taps that     *)
(* have queued up are handled in one task (EventQueueProcessor.cpp); at    *)
(* its end the continuations after each await run, and React renders what  *)
(* a tap has set; what a swipe or a continuation has set is rendered in a  *)
(* task of its own, and other events may come before it.  getWordsBatch    *)
(* reads the database during the call: only its caller's rest is delayed.  *)
(***************************************************************************)
EXTENDS Integers, Sequences

CONSTANTS
    Sets,           \* the vocabulary sets of HomePage.tsx
    NoSet,          \* the empty string, no set chosen yet
    Words,          \* rows of the words table
    NoWord,         \* undefined, where a word is looked up in vain
    BATCH_SIZE,
    Tables,         \* the contents the words table may have
    MaxEvents,      \* bound: how many events come between two renders
    MaxFaults       \* bound: how many reads of the table fail

ASSUME SessionAssumption ==
    /\ NoSet \notin Sets
    /\ NoWord \notin Words
    /\ BATCH_SIZE \in Nat \ {0, 1}
    /\ Tables \subseteq [Sets -> Seq(Words)]
    /\ \A t \in Tables, set \in Sets : Len(t[set]) # 1   \* sets are stored whole
    /\ MaxEvents \in Nat /\ MaxFaults \in Nat

VARIABLES
    table,          \* the words of each set in id order; the session only reads it
    state,          \* App's state as the setters have left it
    shown,          \* App's state as it was last rendered: what the closures hold
    reload,         \* reloadTrigger differs from the one last rendered
    micro,          \* the continuations after await that wait for the task's end
    sync,           \* a tap has set state: React renders at the end of the task
    task,           \* a task is handling taps
    events,         \* taps and gestures since the last render
    faults

sessionVars == <<table, state, shown, reload, micro, sync, task, events, faults>>

----------------------------------------------------------------------------
(* App's state.  The typed text is empty, unfinished, or a whole word.     *)

Texts == {"", "unfinished"} \cup Words
View == [page : {"home", "typing"}, set : Sets \cup {NoSet}, index : Nat,
         words : Seq(Words), isLoading : BOOLEAN, text : Texts]

currentWord(view) ==
    IF view.index < Len(view.words) THEN view.words[view.index + 1] ELSE NoWord
targetWord(view) == IF currentWord(view) = NoWord THEN "" ELSE currentWord(view)
isMatch(view) == view.text = targetWord(view)

InitialView == [page |-> "home", set |-> NoSet, index |-> 0, words |-> <<>>,
                isLoading |-> TRUE, text |-> ""]

GetWordsBatchVariant(offset, set) ==    \* OFFSET counts from one
    LET last == offset + BATCH_SIZE
        all  == table[set]
    IN  SubSeq(all, IF offset = 0 THEN 1 ELSE offset, IF last < Len(all) THEN last ELSE Len(all))

\* SELECT ... WHERE vocabulary_set = ? ORDER BY id LIMIT ? OFFSET ?
GetWordsBatch(offset, set) ==
    LET last == offset + BATCH_SIZE
        all  == table[set]
    IN  SubSeq(all, offset + 1, IF last < Len(all) THEN last ELSE Len(all))

\* getWordsBatch answers [] when a statement fails (line 634).  It throws when the
\* database was never opened; then no page ever comes and there is no word to show.
Answers(offset, set) ==
    {GetWordsBatch(offset, set)} \cup (IF faults < MaxFaults THEN {<<>>} ELSE {})

\* An await of getWordsBatch: its answer and what is to be done with it.
Await(offset, set, kind, index) ==
    \E words \in Answers(offset, set) :
        /\ micro' = Append(micro, [kind |-> kind, words |-> words, index |-> index])
        /\ faults' = IF words = GetWordsBatch(offset, set) THEN faults ELSE faults + 1

Continuations == [kind : {"load", "move"}, words : Seq(Words), index : Nat]

Init ==
    /\ table \in Tables
    /\ state = InitialView /\ shown = InitialView
    /\ reload = FALSE /\ micro = <<>> /\ sync = FALSE
    /\ task = FALSE /\ events = 0 /\ faults = 0

----------------------------------------------------------------------------
(* Events.  Which of them can happen is decided by what is on the screen.  *)

Idle == ~task /\ micro = <<>> /\ ~sync

Event == events < MaxEvents /\ events' = events + 1

\* One more tap for the running task, or the first of a new one.
Tap == (task \/ Idle) /\ task' = TRUE /\ Event

MoveOnOneOffset(rendered) ==    \* every further page is asked for as the second one
    LET nextIndex == shown.index + 1
    IN  IF nextIndex >= Len(shown.words)
        THEN /\ Await(BATCH_SIZE, shown.set, "move", nextIndex)
             /\ UNCHANGED <<state, sync>>
        ELSE /\ state' = [state EXCEPT !.index = nextIndex, !.text = ""]
             /\ sync' = (sync \/ rendered)
             /\ UNCHANGED <<micro, faults>>

\* handleSkip and handleNext up to the await.  Everything is read from the
\* closure; the offset of loadNextBatch is the length of the list it has.
MoveOn(rendered) ==
    LET nextIndex == shown.index + 1
    IN  IF nextIndex >= Len(shown.words)
        THEN /\ Await(Len(shown.words), shown.set, "move", nextIndex)
             /\ UNCHANGED <<state, sync>>
        ELSE /\ state' = [state EXCEPT !.index = nextIndex, !.text = ""]
             /\ sync' = (sync \/ rendered)
             /\ UNCHANGED <<micro, faults>>

TapSkip ==
    /\ shown.page = "typing"
    /\ Tap
    /\ MoveOn(TRUE)
    /\ UNCHANGED <<table, shown, reload>>

TapNext ==
    /\ shown.page = "typing" /\ isMatch(shown)
    /\ Tap
    /\ MoveOn(TRUE)
    /\ UNCHANGED <<table, shown, reload>>

SwipeVariant ==                 \* a swipe goes back, also from the first word
    /\ shown.page = "typing"
    /\ Idle /\ Event
    /\ state' = [state EXCEPT !.index = shown.index - 1, !.text = ""]
    /\ UNCHANGED <<table, shown, reload, micro, sync, task, faults>>

\* A gesture is an event of a task of its own and renders in another.
Swipe ==
    /\ shown.page = "typing"
    /\ Idle /\ Event
    /\ MoveOn(FALSE)
    /\ UNCHANGED <<table, shown, reload, task>>

\* A key of the keyboard: setText(prev => ...).  One key may finish the word on the
\* screen, or the word of one letter that is about to appear.
TapKey ==
    /\ shown.page = "typing"
    /\ Tap
    /\ \E text \in {"", "unfinished", targetWord(shown), targetWord(state)} :
          state' = [state EXCEPT !.text = text]
    /\ sync' = TRUE
    /\ UNCHANGED <<table, shown, reload, micro, faults>>

TapHome ==
    /\ shown.page = "typing"
    /\ Tap
    /\ state' = [state EXCEPT !.page = "home"]
    /\ sync' = TRUE
    /\ UNCHANGED <<table, shown, reload, micro, faults>>

StartTypingVariant(set) ==      \* the list of the last session is kept
    /\ shown.page = "home"
    /\ Tap
    /\ state' = [state EXCEPT !.page = "typing", !.set = set, !.isLoading = TRUE,
                              !.index = 0, !.text = ""]
    /\ reload' = TRUE /\ sync' = TRUE
    /\ UNCHANGED <<table, shown, micro, faults>>

\* handleStartTyping, from a card of the home page.
StartTyping(set) ==
    /\ shown.page = "home"
    /\ Tap
    /\ state' = [page |-> "typing", set |-> set, index |-> 0, words |-> <<>>,
                 isLoading |-> TRUE, text |-> ""]
    /\ reload' = TRUE /\ sync' = TRUE
    /\ UNCHANGED <<table, shown, micro, faults>>

----------------------------------------------------------------------------
(* The runtime.                                                            *)

\* The task has handled its taps: what waits for its end begins.
EndOfTask ==
    /\ task
    /\ task' = FALSE
    /\ UNCHANGED <<table, state, shown, reload, micro, sync, events, faults>>

\* loadWords after its await.
AfterLoadVariant(c) ==          \* an empty answer is left to the next attempt
    IF c.words = <<>> THEN state
    ELSE [state EXCEPT !.words = c.words, !.index = 0, !.text = "", !.isLoading = FALSE]
AfterLoad(c) ==
    [state EXCEPT !.words = c.words, !.index = 0, !.text = "", !.isLoading = FALSE]

\* loadNextBatch and handleSkip or handleNext after their awaits.  Two taps in
\* one task run them in turns, which comes to the same: lists are appended in
\* the order of the taps, and the last index is that of the last tap.
AfterMoveVariant(c) ==          \* the length of newWords is not looked at
    [state EXCEPT !.words = @ \o c.words, !.index = c.index, !.text = ""]
AfterMoveAtEnd(c) ==            \* the index is set to the end of the list there is then
    IF c.words = <<>> THEN state
    ELSE [state EXCEPT !.words = @ \o c.words, !.index = Len(state.words), !.text = ""]
AfterMove(c) ==
    IF c.words = <<>> THEN state
    ELSE [state EXCEPT !.words = @ \o c.words, !.index = c.index, !.text = ""]

Resume ==
    /\ ~task /\ micro # <<>>
    /\ LET c == Head(micro)
       IN  state' = IF c.kind = "load" THEN AfterLoad(c) ELSE AfterMove(c)
    /\ micro' = Tail(micro)
    /\ UNCHANGED <<table, shown, reload, sync, task, events, faults>>

\* At the end of the task when a tap has set state, else in a task of its own.
\* The effect of lines 90-129 runs when one of its dependencies has changed and
\* the typing page is open: that is after handleStartTyping only.
Render ==
    /\ ~task
    /\ sync \/ (micro = <<>> /\ (state # shown \/ events > 0))
    /\ shown' = state
    /\ sync' = FALSE /\ reload' = FALSE /\ events' = 0
    /\ IF reload /\ state.page = "typing" /\ state.set # NoSet
       THEN Await(0, state.set, "load", 0)
       ELSE UNCHANGED <<micro, faults>>
    /\ UNCHANGED <<table, state, task>>

Runtime == EndOfTask \/ Resume \/ Render
Learner == TapSkip \/ TapNext \/ Swipe \/ TapKey \/ TapHome
           \/ \E set \in Sets : StartTyping(set)

Next == Runtime \/ Learner
Spec == Init /\ [][Next]_sessionVars

\* JavaScript runs its tasks to their ends; a render that waits is run after
\* five seconds at the latest, ahead of newer events (SchedulerPriorityUtils.h).
FairSpec == Spec /\ WF_sessionVars(EndOfTask \/ Resume) /\ SF_sessionVars(Render)

\* A learner who waits until the screen shows what the last tap has done.
Settled == Idle /\ state = shown
PatientNext == Runtime \/ (Settled /\ Learner)
PatientSpec == Init /\ [][PatientNext]_sessionVars

\* A learner who chooses a set and skips on, waiting for the screen.
SteadyNext == Runtime \/ (Settled /\ (TapSkip \/ \E set \in Sets : StartTyping(set)))
SteadySpec ==
    /\ Init /\ [][SteadyNext]_sessionVars
    /\ WF_sessionVars(Runtime) /\ WF_sessionVars(Settled /\ TapSkip)

----------------------------------------------------------------------------
(* Properties.                                                             *)

TypeOK ==
    /\ table \in Tables
    /\ state \in View /\ shown \in View
    /\ reload \in BOOLEAN /\ sync \in BOOLEAN
    /\ micro \in Seq(Continuations)
    /\ task \in BOOLEAN /\ events \in 0..MaxEvents /\ faults \in 0..MaxFaults

Ran(s) == {s[i] : i \in DOMAIN s}

\* The list holds words of the chosen set only: no page that was asked for in one
\* set (line 107 or 141) comes in after the learner has chosen the other.
OwnWords ==
    \A view \in {state, shown} :
        view.words # <<>> => view.set \in Sets /\ Ran(view.words) \subseteq Ran(table[view.set])

\* Once a list is loaded a word is shown: no order of taps, swipes and pages that
\* come late moves the index past the end of the list ("No words available",
\* line 303).
CurrentWordExists ==
    \A view \in {state, shown} : view.index < Len(view.words) \/ view.index = 0

\* However many taps and swipes come before React renders, the screen moves on by
\* one word at most: a double tap passes over no word of the list.
OneWordAtATime == [][shown'.index <= shown.index + 1]_shown

\* "Loading..." (line 282) does not stay on the screen.
LoadingEnds == (shown.page = "typing" /\ shown.isLoading) ~> ~shown.isLoading

\* The learner who waits for the screen goes through the set word by word.
PlaceShown == IF currentWord(shown) = NoWord THEN 0 ELSE shown.index + 1
Walk == INSTANCE WordWalk WITH
            lists <- table, set <- shown.set, place <- PlaceShown,
            word <- currentWord(shown)
ImplementsWalk == Walk!Spec

\* Skipping on, the learner comes to the last word of the set, also when a page
\* could not be read and was asked for again.
LastWordReached ==
    \A set \in Sets :
        (shown.set = set /\ table[set] # <<>>) ~>
            (shown.set # set \/ currentWord(shown) = table[set][Len(table[set])])

\* "No more words available" (lines 181 and 204): when a tap finds no further
\* page, the list has every word of the set.
NoMoreWords ==
    [][(micro # <<>> /\ Resume /\ Head(micro).kind = "move" /\ Head(micro).words = <<>>)
        => Ran(table[state.set]) \subseteq Ran(state.words)]_sessionVars
=============================================================================
