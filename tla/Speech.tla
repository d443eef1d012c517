------------------------------- MODULE Speech -------------------------------
(***************************************************************************)
(* Speaking the word on the screen: the delayed call and the speaker       *)
(* button of App.tsx, utils/textToSpeech.ts, and react-native-tts behind   *)
(* it.  The native module takes its calls in the order they were made and  *)
(* answers them in that order, in its own time; the engine speaks what it  *)
(* has been given one word after the other until it is stopped.  Every     *)
(* await of speakKorean lets other calls of it run.                        *)
(***************************************************************************)
EXTENDS Integers, Sequences

CONSTANTS
    Words,          \* the Korean words
    NoWord,         \* no word on the screen: loading, or none there
    FailingOps,     \* the native functions whose promises may be rejected
    MaxEvents       \* bound: how often the word changes or the speaker is tapped

Ops == {"setDefaultLanguage", "stop", "speak with options", "speak"}

ASSUME SpeechAssumption ==
    NoWord \notin Words /\ FailingOps \subseteq Ops /\ MaxEvents \in Nat

VARIABLES
    word,           \* currentWord?.korean, NoWord while isLoading
    timers,         \* the words whose 300 ms are not over
    calls,          \* the arguments of all calls of speakKorean so far
    isInitialized,
    requests,       \* calls to the native module it has not taken up
    replies,        \* settled promises whose awaits have not been resumed
    engine,         \* the calls whose words it speaks: the first now, the others after
    events

vars == <<word, timers, calls, isInitialized, requests, replies, engine, events>>

\* init of App.tsx has called initializeTTS, as call 0, unless the database failed.
Init ==
    /\ word = NoWord /\ timers = {} /\ calls = <<>>
    /\ isInitialized = FALSE
    /\ requests \in {<<>>, <<[call |-> 0, op |-> "setDefaultLanguage"]>>}
    /\ replies = <<>> /\ engine = <<>> /\ events = 0

Request(n, op) == requests' = Append(requests, [call |-> n, op |-> op])

SpeakWhenSilent(text) ==        \* stop only when there is something to stop
    /\ calls' = Append(calls, text)
    /\ Request(Len(calls) + 1, IF ~isInitialized THEN "setDefaultLanguage"
                               ELSE IF engine # <<>> THEN "stop"
                               ELSE "speak with options")

\* speakKorean up to its first await, inside initializeTTS or at stop.
SpeakKorean(text) ==
    /\ calls' = Append(calls, text)
    /\ Request(Len(calls) + 1, IF isInitialized THEN "stop" ELSE "setDefaultLanguage")

----------------------------------------------------------------------------
Event == events < MaxEvents /\ events' = events + 1

NeverCleared == {}              \* the effect returns no cleanup
Cleared == {word}               \* clearTimeout in the cleanup of line 67

\* A render with another word: the old cleanup, and the effect of lines 60-69.  To go
\* home is no such render, and leaves the timer running.
Show(w) ==
    /\ w # word /\ Event
    /\ word' = w
    /\ timers' = (timers \ Cleared) \cup ({w} \ {NoWord})
    /\ UNCHANGED <<calls, isInitialized, requests, replies, engine>>

\* handleSpeak
TapSpeaker ==
    /\ word # NoWord /\ Event
    /\ SpeakKorean(word)
    /\ UNCHANGED <<word, timers, isInitialized, replies, engine>>

TimerFires ==
    /\ \E w \in timers : timers' = timers \ {w} /\ SpeakKorean(w)
    /\ UNCHANGED <<word, isInitialized, replies, engine, events>>

----------------------------------------------------------------------------
\* What the native module does with a request it can fulfil.
Fulfilled(r) ==
    IF r.op = "stop" THEN <<>>
    ELSE IF r.op \in {"speak", "speak with options"} THEN Append(engine, r.call)
    ELSE engine

Serve ==
    /\ requests # <<>>
    /\ LET r == Head(requests)
           Settle(ok) == replies' = Append(replies, [call |-> r.call, op |-> r.op, ok |-> ok])
       IN  \/ Settle(TRUE) /\ engine' = Fulfilled(r)
           \/ r.op \in FailingOps /\ Settle(FALSE) /\ UNCHANGED engine
    /\ requests' = Tail(requests)
    /\ UNCHANGED <<word, timers, calls, isInitialized, events>>

UtteranceEnds ==
    /\ engine # <<>> /\ engine' = Tail(engine)
    /\ UNCHANGED <<word, timers, calls, isInitialized, requests, replies, events>>

NextOpForever(op, ok) ==        \* a rejected speak is tried again, not the fallback
    IF op = "setDefaultLanguage" THEN "stop"
    ELSE IF op = "stop" THEN "speak with options"
    ELSE IF ~ok THEN op
    ELSE "done"
NextOpStopsAgain(op, ok) ==     \* the fallback, too, begins with a stop
    IF op = "setDefaultLanguage" \/ (op = "speak with options" /\ ~ok) THEN "stop"
    ELSE IF op = "stop" THEN "speak with options"
    ELSE "done"
NextOpStrict(op, ok) ==         \* errors of stop are not ignored
    IF op = "setDefaultLanguage" THEN "stop"
    ELSE IF op = "stop" /\ ok THEN "speak with options"
    ELSE IF op = "speak with options" /\ ~ok THEN "speak"
    ELSE "done"

\* speakKorean from one await to the next.  Only a rejected speak makes a difference.
NextOp(op, ok) ==
    IF op = "setDefaultLanguage" THEN "stop"
    ELSE IF op = "stop" THEN "speak with options"
    ELSE IF op = "speak with options" /\ ~ok THEN "speak"
    ELSE "done"

ResumeVariant ==                \* the app's own call is taken for one that speaks
    /\ replies # <<>>
    /\ LET r  == Head(replies)
           op == NextOp(r.op, r.ok)
       IN  /\ isInitialized' = (isInitialized \/ r.op = "setDefaultLanguage")
           /\ IF op = "done" THEN UNCHANGED requests ELSE Request(r.call, op)
    /\ replies' = Tail(replies)
    /\ UNCHANGED <<word, timers, calls, engine, events>>

\* Call 0 is over when the language is set.
Resume ==
    /\ replies # <<>>
    /\ LET r  == Head(replies)
           op == NextOp(r.op, r.ok)
       IN  /\ isInitialized' = (isInitialized \/ r.op = "setDefaultLanguage")
           /\ IF r.call = 0 \/ op = "done" THEN UNCHANGED requests
              ELSE Request(r.call, op)
    /\ replies' = Tail(replies)
    /\ UNCHANGED <<word, timers, calls, engine, events>>

----------------------------------------------------------------------------
Learner == TapSpeaker \/ \E w \in Words \cup {NoWord} : Show(w)
Runtime == TimerFires \/ Serve \/ Resume \/ UtteranceEnds

Next == Learner \/ Runtime
Spec == Init /\ [][Next]_vars

\* Timers fire, the native module answers and its answers are taken up, speech ends.
FairSpec ==
    /\ Spec
    /\ WF_vars(TimerFires) /\ WF_vars(Serve) /\ WF_vars(Resume) /\ WF_vars(UtteranceEnds)

\* Nothing is asked for before initializeTTS is over.
ReadyNext == Runtime \/ (isInitialized /\ Learner)
ReadySpec == Init /\ [][ReadyNext]_vars

----------------------------------------------------------------------------
(* Properties.                                                             *)

CallNumbers == 0..Len(calls)

TypeOK ==
    /\ word \in Words \cup {NoWord} /\ timers \subseteq Words
    /\ calls \in Seq(Words) /\ isInitialized \in BOOLEAN
    /\ requests \in Seq([call : CallNumbers, op : Ops])
    /\ replies \in Seq([call : CallNumbers, op : Ops, ok : BOOLEAN])
    /\ engine \in Seq(CallNumbers \ {0})
    /\ events \in 0..MaxEvents

\* A word that was skipped within its 300 ms is never asked for (line 67).
OnlyShownIsAsked == [][calls' # calls => calls'[Len(calls')] = word]_vars

\* A call that still has to speak.
Unspoken(n) ==
    \/ \E i \in DOMAIN requests : requests[i].call = n
    \/ \E i \in DOMAIN replies :
          replies[i].call = n /\ (NextOp(replies[i].op, replies[i].ok) # "done")

\* A call that still has to stop what is spoken.
Unstopped(n) ==
    \/ \E i \in DOMAIN requests :
          requests[i].call = n /\ requests[i].op \in {"setDefaultLanguage", "stop"}
    \/ \E i \in DOMAIN replies :
          replies[i].call = n /\ NextOp(replies[i].op, replies[i].ok) = "stop"

\* "Stop any currently speaking text" (line 71) is meant for the words before: however
\* calls overlap, initialise again and are rejected, a word given to the engine is cut
\* off by a later call only.  Every earlier call has had its stop by then.
OnlyLaterStops ==
    \A j \in DOMAIN engine : \A n \in 1..(engine[j] - 1) : ~Unstopped(n)

\* Words are spoken in the order in which they were asked for: no call overtakes
\* another between two awaits (lines 68-90).
SpokenInOrder ==
    [][Len(engine') > Len(engine) =>
          \A n \in 1..(engine'[Len(engine')] - 1) : ~Unspoken(n)]_vars

\* Every call of speakKorean ends, whatever the native module rejects.
CallsEnd == \A n \in 1..MaxEvents : Unspoken(n) ~> ~Unspoken(n)

\* "Speak the Korean word when it changes" (App.tsx:59): a word that appears and
\* stays on the screen is heard, and no stop of another call prevents it.
Heard(w) == engine # <<>> /\ calls[Head(engine)] = w
ShownIsHeard == \A w \in Words : w \in timers ~> (word # w \/ Heard(w))
=============================================================================
