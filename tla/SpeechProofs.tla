---------------------------- MODULE SpeechProofs ----------------------------
(***************************************************************************)
(* Theorems about Speech, for any words, failing native functions and      *)
(* number of events.                                                       *)
(***************************************************************************)
EXTENDS Speech, TLAPS

\* The call of the app itself, call 0, only sets the language.
Item == {r \in [call : CallNumbers, op : Ops] : r.call = 0 => r.op = "setDefaultLanguage"}
Reply == [call : CallNumbers, op : Ops, ok : BOOLEAN]

LEMMA QueueEnds == ASSUME NEW S, NEW q \in Seq(S), q # <<>>
                   PROVE  Head(q) \in S /\ Tail(q) \in Seq(S)
  OBVIOUS

LEMMA QueueGrows == ASSUME NEW S, NEW q \in Seq(S), NEW e \in S
                    PROVE  Append(q, e) \in Seq(S)
  OBVIOUS

LEMMA QueueOfOne == ASSUME NEW S, NEW e \in S
                    PROVE  <<>> \in Seq(S) /\ <<e>> \in Seq(S)
  OBVIOUS

LEMMA LastOfQueue == ASSUME NEW S, NEW q \in Seq(S), NEW e \in S
                     PROVE  Append(q, e)[Len(Append(q, e))] = e
  OBVIOUS

LEMMA WiderQueue == ASSUME NEW S, NEW T, S \subseteq T, NEW q \in Seq(S)
                    PROVE  q \in Seq(T)
  OBVIOUS

----------------------------------------------------------------------------
(* Types and timers.                                                       *)

\* At most one timer runs, that of the word on the screen.
TimerInv == timers \subseteq {word}
ItemInv == requests \in Seq(Item)
TypeInv == TypeOK /\ ItemInv

LEMMA NextOpType == ASSUME NEW op \in Ops, NEW ok
                    PROVE  NextOp(op, ok) \in Ops \cup {"done"}
  BY DEF NextOp, Ops

\* SpeakKorean(text) grows the list of calls, and so the set of call numbers.
LEMMA SpeakKoreanType ==
  ASSUME TypeInv, NEW text \in Words, SpeakKorean(text)
  PROVE  /\ calls' \in Seq(Words)
         /\ Len(calls') = Len(calls) + 1
         /\ calls'[Len(calls')] = text
         /\ CallNumbers \subseteq CallNumbers'
         /\ requests' \in Seq(Item')
  <1>1. calls \in Seq(Words) /\ calls' = Append(calls, text)
    BY DEF TypeInv, TypeOK, SpeakKorean
  <1>2. /\ calls' \in Seq(Words) /\ Len(calls') = Len(calls) + 1
        /\ calls'[Len(calls')] = text /\ Len(calls) \in Nat
    BY <1>1
  <1>3. /\ CallNumbers \subseteq CallNumbers' /\ Len(calls) + 1 \in CallNumbers'
          /\ Len(calls) + 1 # 0
    BY <1>2 DEF CallNumbers
  <1>4. requests \in Seq(Item')
    <2>1. Item \subseteq Item'
      BY <1>3 DEF Item
    <2>2. requests \in Seq(Item)
      BY DEF TypeInv, ItemInv
    <2> QED
      BY <2>1, <2>2
  <1>5. PICK op \in Ops : requests' = Append(requests, [call |-> Len(calls) + 1, op |-> op])
    BY DEF SpeakKorean, Request, Ops
  <1>6. [call |-> Len(calls) + 1, op |-> op] \in Item'
    BY <1>3, <1>5 DEF Item, Ops
  <1> QED
    BY <1>2, <1>3, <1>4, <1>5, <1>6

\* Without a call of speakKorean the call numbers stay.
LEMMA SameNumbers == ASSUME UNCHANGED calls
                     PROVE  CallNumbers' = CallNumbers /\ Item' = Item /\ Reply' = Reply
  BY DEF CallNumbers, Item, Reply

\* The replies and the engine keep their types when the call numbers grow.
LEMMA MoreNumbers ==
  ASSUME TypeInv, CallNumbers \subseteq CallNumbers', UNCHANGED <<replies, engine>>
  PROVE  replies' \in Seq(Reply') /\ engine' \in Seq(CallNumbers' \ {0})
  <1>1. Reply \subseteq Reply'
    BY DEF Reply
  <1>2. replies \in Seq(Reply) /\ engine \in Seq(CallNumbers \ {0})
    BY DEF TypeInv, TypeOK, Reply
  <1> QED
    BY <1>1, <1>2

LEMMA ItemsHaveType == ItemInv => requests \in Seq([call : CallNumbers, op : Ops])
  <1>1. Item \subseteq [call : CallNumbers, op : Ops]
    BY DEF Item
  <1> QED
    BY <1>1, WiderQueue DEF ItemInv

LEMMA TypeStart == Init => TypeInv /\ TimerInv
  <1> SUFFICES ASSUME Init PROVE TypeInv /\ TimerInv
    OBVIOUS
  <1>1. calls \in Seq(Words) /\ Len(calls) = 0 /\ engine \in Seq(CallNumbers \ {0})
    BY DEF Init
  <1>2. [call |-> 0, op |-> "setDefaultLanguage"] \in Item
    BY <1>1 DEF Item, CallNumbers, Ops
  <1>3. requests \in Seq(Item)
    BY <1>2, QueueOfOne DEF Init
  <1>4. replies \in Seq(Reply)
    BY DEF Init
  <1>5. ItemInv /\ requests \in Seq([call : CallNumbers, op : Ops])
    BY <1>3, ItemsHaveType DEF ItemInv
  <1>6. /\ word = NoWord /\ timers = {} /\ isInitialized = FALSE
        /\ events \in 0..MaxEvents
    BY SpeechAssumption DEF Init
  <1> QED
    BY <1>1, <1>4, <1>5, <1>6 DEF TypeInv, ItemInv, TypeOK, TimerInv, Reply

LEMMA TypeStep == TypeInv /\ [Next]_vars => TypeInv'
  <1> SUFFICES ASSUME TypeInv, [Next]_vars
               PROVE  TypeInv'
    OBVIOUS
  <1> USE SpeechAssumption
  <1>t. TypeOK /\ requests \in Seq(Item)
    BY DEF TypeInv, ItemInv
  <1>e. ASSUME Event PROVE events' \in 0..MaxEvents
    BY <1>e, <1>t DEF Event, TypeOK
  <1>a. ASSUME /\ word' \in Words \cup {NoWord} /\ timers' \subseteq Words
               /\ calls' \in Seq(Words) /\ isInitialized' \in BOOLEAN
               /\ requests' \in Seq(Item') /\ replies' \in Seq(Reply')
               /\ engine' \in Seq(CallNumbers' \ {0})
               /\ events' \in 0..MaxEvents
        PROVE  TypeInv'
    <2>1. Item' \subseteq [call : CallNumbers', op : Ops]
      BY DEF Item
    <2>2. requests' \in Seq([call : CallNumbers', op : Ops])
      BY <1>a, <2>1, WiderQueue
    <2> QED
      BY <1>a, <2>2 DEF TypeInv, ItemInv, TypeOK, Reply
  <1>1. ASSUME NEW w \in Words \cup {NoWord}, Show(w) PROVE TypeInv'
    <2>1. timers' \subseteq Words
      BY <1>1, <1>t DEF Show, TypeOK
    <2> QED
      BY <1>1, <1>e, <1>t, <2>1, SameNumbers, <1>a DEF Show, TypeOK, Reply
  <1>2. ASSUME TapSpeaker PROVE TypeInv'
    <2>1. word \in Words /\ SpeakKorean(word) /\ UNCHANGED <<word, timers, isInitialized, replies, engine>>
      BY <1>2, <1>t DEF TapSpeaker, TypeOK
    <2> QED
      BY <1>2, <1>e, <1>t, <2>1, SpeakKoreanType, MoreNumbers, <1>a DEF TapSpeaker, TypeOK
  <1>3. ASSUME TimerFires PROVE TypeInv'
    <2>1. PICK w \in timers : timers' = timers \ {w} /\ SpeakKorean(w)
      BY <1>3 DEF TimerFires
    <2>2. w \in Words /\ timers' \subseteq Words
      BY <1>t, <2>1 DEF TypeOK
    <2>3. UNCHANGED <<word, isInitialized, replies, engine, events>>
      BY <1>3 DEF TimerFires
    <2> QED
      BY <1>t, <2>1, <2>2, <2>3, SpeakKoreanType, MoreNumbers, <1>a DEF TypeOK
  <1>4. ASSUME Serve PROVE TypeInv'
    <2> DEFINE r == Head(requests)
    <2>1. requests # <<>> /\ r \in Item /\ requests' = Tail(requests) /\ requests' \in Seq(Item)
      BY <1>4, <1>t, QueueEnds DEF Serve
    <2>2. replies' \in Seq(Reply)
      <3>1. PICK ok \in BOOLEAN :
              replies' = Append(replies, [call |-> r.call, op |-> r.op, ok |-> ok])
        BY <1>4 DEF Serve
      <3>2. [call |-> r.call, op |-> r.op, ok |-> ok] \in Reply
        BY <2>1 DEF Item, Reply
      <3>3. replies \in Seq(Reply)
        BY <1>t DEF TypeOK, Reply
      <3> QED
        BY <3>1, <3>2, <3>3, QueueGrows
    <2>3. engine' \in Seq(CallNumbers \ {0})
      <3>1. engine' \in {engine, Fulfilled(r)}
        BY <1>4 DEF Serve
      <3>2. engine \in Seq(CallNumbers \ {0})
        BY <1>t DEF TypeOK
      <3>3. ASSUME r.op \in {"speak", "speak with options"} PROVE r.call \in CallNumbers \ {0}
        BY <2>1, <3>3 DEF Item
      <3>4. Fulfilled(r) \in Seq(CallNumbers \ {0})
        <4> DEFINE C == CallNumbers \ {0}
        <4>1. <<>> \in Seq(C) /\ engine \in Seq(C) /\ (r.op \in {"speak", "speak with options"} => Append(engine, r.call) \in Seq(C))
          <5> HIDE DEF C, r
          <5>1. ASSUME r.op \in {"speak", "speak with options"} PROVE r.call \in C
            BY <3>3, <5>1 DEF C
          <5>2. engine \in Seq(C)
            BY <3>2 DEF C
          <5>3. <<>> \in Seq(C)
            OBVIOUS
          <5> QED
            BY <5>1, <5>2, <5>3, QueueGrows
        <4> HIDE DEF r, C
        <4>2. Fulfilled(r) \in Seq(C)
          BY <4>1 DEF Fulfilled
        <4> QED
          BY <4>2 DEF C
      <3> QED
        BY <3>1, <3>2, <3>4
    <2> QED
      BY <1>4, <1>t, <2>1, <2>2, <2>3, SameNumbers, <1>a DEF Serve, TypeOK
  <1>5. ASSUME Resume PROVE TypeInv'
    <2> DEFINE r == Head(replies)
               op == NextOp(r.op, r.ok)
    <2>1. replies # <<>> /\ r \in Reply /\ replies' \in Seq(Reply)
      <3>1. replies \in Seq(Reply)
        BY <1>t DEF TypeOK, Reply
      <3> QED
        BY <1>5, <3>1, QueueEnds DEF Resume
    <2>2. requests' \in Seq(Item)
      <3>1. op \in Ops \cup {"done"}
        BY <2>1, NextOpType DEF Reply
      <3>2. \/ requests' = requests
            \/ r.call # 0 /\ op # "done" /\ requests' = Append(requests, [call |-> r.call, op |-> op])
        BY <1>5 DEF Resume, Request
      <3>3. ASSUME r.call # 0, op # "done" PROVE [call |-> r.call, op |-> op] \in Item
        <4> HIDE DEF op
        <4> QED
          BY <2>1, <3>1, <3>3 DEF Item, Reply
      <3> HIDE DEF op, r
      <3> QED
        BY <1>t, <3>2, <3>3, QueueGrows
    <2>3. isInitialized' \in BOOLEAN
      BY <1>5, <1>t DEF Resume, TypeOK
    <2> QED
      BY <1>5, <1>t, <2>1, <2>2, <2>3, SameNumbers, <1>a DEF Resume, TypeOK
  <1>6. ASSUME UtteranceEnds PROVE TypeInv'
    <2>1. engine' \in Seq(CallNumbers \ {0})
      BY <1>6, <1>t, QueueEnds DEF UtteranceEnds, TypeOK
    <2> QED
      BY <1>6, <1>t, <2>1, SameNumbers, <1>a DEF UtteranceEnds, TypeOK, Reply
  <1>7. ASSUME UNCHANGED vars PROVE TypeInv'
    BY <1>7, <1>t, SameNumbers, <1>a DEF vars, TypeOK, Reply
  <1> QED
    BY <1>1, <1>2, <1>3, <1>4, <1>5, <1>6, <1>7 DEF Next, Learner, Runtime

\* A render with another word clears the timer of the one before (line 67).
LEMMA TimerStep == TimerInv /\ [Next]_vars => TimerInv'
  BY DEF TimerInv, Next, Learner, Runtime, vars, Show, Cleared, TapSpeaker,
         TimerFires, Serve, Resume, UtteranceEnds

LEMMA TypeAndTimer == Spec => [](TypeInv /\ TimerInv)
  BY TypeStart, TypeStep, TimerStep, PTL DEF Spec

\* Every variable of textToSpeech.ts and of the native queue keeps its type: no reply
\* or utterance belongs to a call that was never made.
THEOREM SpeechTypeCorrect == Spec => []TypeOK
  BY TypeAndTimer, PTL DEF TypeInv

\* However fast the learner skips, only the word that is on the screen is asked for
\* (App.tsx:67).
THEOREM SkippedNotAsked == Spec => OnlyShownIsAsked
  <1>1. TypeInv /\ TimerInv /\ [Next]_vars => [calls' # calls => calls'[Len(calls')] = word]_vars
    <2> SUFFICES ASSUME TypeInv, TimerInv, Next, calls' # calls
                 PROVE  calls'[Len(calls')] = word
      BY DEF vars
    <2> USE SpeechAssumption
    <2>1. ASSUME TapSpeaker PROVE calls'[Len(calls')] = word
      <3>1. word \in Words /\ SpeakKorean(word)
        BY <2>1 DEF TapSpeaker, TypeInv, TypeOK
      <3> QED
        BY <3>1, SpeakKoreanType
    <2>2. ASSUME TimerFires PROVE calls'[Len(calls')] = word
      <3>1. PICK w \in timers : SpeakKorean(w)
        BY <2>2 DEF TimerFires
      <3>2. w \in Words /\ w = word
        BY DEF TimerInv, TypeInv, TypeOK
      <3> QED
        BY <3>1, <3>2, SpeakKoreanType
    <2> QED
      BY <2>1, <2>2 DEF Next, Learner, Runtime, Show, Serve, Resume, UtteranceEnds
  <1> QED
    BY <1>1, TypeAndTimer, PTL DEF Spec, OnlyShownIsAsked

----------------------------------------------------------------------------
(* The order of the utterances, once initializeTTS is over and when speak  *)
(* is not rejected.                                                        *)

Harmless == {"setDefaultLanguage", "stop"}

\* While a call is served and resumed it keeps its place among the others: of two
\* that have both to stop, or both to speak, the earlier call comes first, and a
\* call that has to speak is earlier than any that has yet to stop.
Precedes(a, b) ==
    /\ a.op = b.op => a.call < b.call
    /\ a.op = "stop" /\ b.op = "speak with options" => b.call < a.call
    /\ a.op = "speak with options" /\ b.op = "stop" => a.call < b.call

InTurn(q) == \A i, j \in DOMAIN q : i < j => Precedes(q[i], q[j])

\* The replies come before the requests.
QueuesInTurn ==
    /\ InTurn(replies) /\ InTurn(requests)
    /\ \A i \in DOMAIN replies, j \in DOMAIN requests : Precedes(replies[i], requests[j])

Stages == {"stop", "speak with options"}
StagesInv ==
    /\ \A i \in DOMAIN requests : requests[i].call # 0 /\ requests[i].op \in Stages
    /\ \A i \in DOMAIN replies :
          /\ replies[i].call # 0 /\ replies[i].op \in Stages
          /\ replies[i].op = "speak with options" => replies[i].ok

\* Until then there is the call of the app at most.
BeforeInit ==
    /\ calls = <<>> /\ timers = {} /\ Len(requests) + Len(replies) <= 1
    /\ \A i \in DOMAIN requests :
          requests[i].call = 0 /\ requests[i].op = "setDefaultLanguage"
    /\ \A i \in DOMAIN replies :
          replies[i].call = 0 /\ replies[i].op = "setDefaultLanguage"

OrderInv == IF isInitialized THEN QueuesInTurn /\ StagesInv ELSE BeforeInit

LEMMA TailInTurn == ASSUME NEW S, NEW q \in Seq(S), q # <<>>, InTurn(q)
                    PROVE  /\ InTurn(Tail(q))
                           /\ \A i \in DOMAIN Tail(q) : Precedes(Head(q), Tail(q)[i])
  <1>1. \A i \in DOMAIN Tail(q) : i + 1 \in DOMAIN q /\ Tail(q)[i] = q[i + 1]
    OBVIOUS
  <1>2. Head(q) = q[1] /\ 1 \in DOMAIN q /\ DOMAIN q \subseteq Nat /\ DOMAIN Tail(q) \subseteq Nat \ {0}
    OBVIOUS
  <1> QED
    BY <1>1, <1>2 DEF InTurn

LEMMA AppendInTurn ==
  ASSUME NEW S, NEW q \in Seq(S), NEW e \in S, InTurn(q),
         \A i \in DOMAIN q : Precedes(q[i], e)
  PROVE  InTurn(Append(q, e))
  <1>1. /\ DOMAIN Append(q, e) = DOMAIN q \cup {Len(q) + 1}
        /\ \A i \in DOMAIN q : Append(q, e)[i] = q[i] /\ i <= Len(q) /\ i \in Nat
        /\ Append(q, e)[Len(q) + 1] = e /\ Len(q) \in Nat
    OBVIOUS
  <1> QED
    BY <1>1 DEF InTurn

\* The elements of a shortened and of a lengthened queue.
LEMMA TailElements == ASSUME NEW S, NEW q \in Seq(S), q # <<>>
                      PROVE  /\ Head(q) = q[1] /\ 1 \in DOMAIN q
                             /\ \A i \in DOMAIN Tail(q) :
                                   i + 1 \in DOMAIN q /\ Tail(q)[i] = q[i + 1]
                             /\ Len(Tail(q)) = Len(q) - 1
  OBVIOUS
LEMMA AppendElements == ASSUME NEW S, NEW q \in Seq(S), NEW e \in S
                        PROVE  /\ \A i \in DOMAIN Append(q, e) :
                                     (i \in DOMAIN q /\ Append(q, e)[i] = q[i]) \/ Append(q, e)[i] = e
                               /\ Len(Append(q, e)) = Len(q) + 1
  OBVIOUS

LEMMA QueueTypes == TypeInv => /\ requests \in Seq(Item) /\ replies \in Seq(Reply)
                               /\ Len(requests) \in Nat /\ Len(replies) \in Nat
  BY DEF TypeInv, TypeOK, ItemInv, Reply

\* A new call is the latest of all.
LEMMA NewCallInTurn ==
  ASSUME TypeInv, TypeInv', isInitialized, OrderInv, NEW text \in Words, SpeakKorean(text),
         UNCHANGED <<isInitialized, replies>>
  PROVE  OrderInv'
  <1> DEFINE e == [call |-> Len(calls) + 1, op |-> "stop"]
  <1>1. requests' = Append(requests, e) /\ Len(calls) \in Nat
    BY DEF SpeakKorean, Request, TypeInv, TypeOK
  <1>2. requests \in Seq(Item) /\ replies \in Seq(Reply) /\ QueuesInTurn /\ StagesInv
    BY QueueTypes DEF OrderInv
  <1>3. requests \in Seq(Item \cup {e}) /\ e \in Item \cup {e}
    BY <1>2, WiderQueue
  <1>4. /\ \A i \in DOMAIN requests : requests[i] \in Item
        /\ \A i \in DOMAIN replies : replies[i] \in Reply
    BY <1>2
  <1>5. ASSUME NEW a \in Item \cup Reply, a.op \in Stages PROVE Precedes(a, e)
    <2>1. a.call \in CallNumbers
      BY DEF Item, Reply
    <2>2. a.call \in Nat /\ a.call < Len(calls) + 1
      BY <1>1, <2>1 DEF CallNumbers
    <2> QED
      BY <2>2, <1>5 DEF Precedes
  <1>6. /\ \A i \in DOMAIN requests : Precedes(requests[i], e)
        /\ \A i \in DOMAIN replies : Precedes(replies[i], e)
    BY <1>2, <1>4, <1>5 DEF StagesInv
  <1>7. e.op \in Stages /\ e.call # 0
    BY <1>1 DEF Stages
  <1> HIDE DEF e
  <1>8. InTurn(requests')
    BY <1>1, <1>2, <1>3, <1>6, AppendInTurn DEF QueuesInTurn
  <1>9. \A i \in DOMAIN requests' :
          (i \in DOMAIN requests /\ requests'[i] = requests[i]) \/ requests'[i] = e
    BY <1>1, <1>3, AppendElements
  <1>10. QueuesInTurn'
    BY <1>2, <1>6, <1>8, <1>9 DEF QueuesInTurn
  <1>11. StagesInv'
    BY <1>2, <1>7, <1>9 DEF StagesInv
  <1> QED
    BY <1>10, <1>11 DEF OrderInv

\* A request that is served keeps its place as a reply.
LEMMA ServeInTurn ==
  ASSUME TypeInv, TypeInv', FailingOps \subseteq Harmless, OrderInv, Serve
  PROVE  OrderInv'
  <1> DEFINE r == Head(requests)
  <1>1. PICK ok \in BOOLEAN :
          /\ replies' = Append(replies, [call |-> r.call, op |-> r.op, ok |-> ok])
          /\ ok \/ r.op \in FailingOps
    BY DEF Serve
  <1> DEFINE x == [call |-> r.call, op |-> r.op, ok |-> ok]
  <1>2. requests # <<>> /\ requests' = Tail(requests) /\ UNCHANGED <<isInitialized, calls, timers>>
    BY DEF Serve
  <1>3. requests \in Seq(Item) /\ replies \in Seq(Reply)
        /\ Len(requests) \in Nat /\ Len(replies) \in Nat
    BY QueueTypes
  <1>4. x \in Reply /\ x.call = r.call /\ x.op = r.op /\ x.ok = ok
    BY <1>2, <1>3, QueueEnds DEF Item, Reply
  <1>5. /\ r = requests[1] /\ 1 \in DOMAIN requests
        /\ \A i \in DOMAIN requests' :
              i + 1 \in DOMAIN requests /\ requests'[i] = requests[i + 1]
        /\ Len(requests') = Len(requests) - 1
    BY <1>2, <1>3, TailElements
  <1>6. replies' = Append(replies, x)
    BY <1>1
  <1> HIDE DEF x, r
  <1>7. /\ \A i \in DOMAIN replies' :
              (i \in DOMAIN replies /\ replies'[i] = replies[i]) \/ replies'[i] = x
        /\ Len(replies') = Len(replies) + 1
    BY <1>3, <1>4, <1>6, AppendElements
  <1>8. ASSUME ~isInitialized PROVE BeforeInit'
    <2>1. BeforeInit
      BY <1>8 DEF OrderInv
    <2>2. r.call = 0 /\ r.op = "setDefaultLanguage"
      BY <1>5, <2>1 DEF BeforeInit
    <2>3. Len(requests') + Len(replies') <= 1
      BY <1>3, <1>5, <1>7, <2>1 DEF BeforeInit
    <2> QED
      BY <1>2, <1>4, <1>5, <1>7, <2>1, <2>2, <2>3 DEF BeforeInit
  <1>9. ASSUME isInitialized PROVE QueuesInTurn' /\ StagesInv'
    <2>1. QueuesInTurn /\ StagesInv
      BY <1>9 DEF OrderInv
    <2>2. /\ InTurn(requests')
          /\ \A i \in DOMAIN requests' : Precedes(r, requests'[i])
      BY <1>2, <1>3, <2>1, TailInTurn DEF QueuesInTurn, r
    <2>3. \A b : Precedes(r, b) => Precedes(x, b)
      BY <1>4 DEF Precedes
    <2>4. \A i \in DOMAIN replies : Precedes(replies[i], x)
      BY <1>4, <1>5, <2>1 DEF QueuesInTurn, Precedes
    <2>5. InTurn(replies')
      BY <1>3, <1>4, <1>6, <2>1, <2>4, AppendInTurn DEF QueuesInTurn
    <2>6. \A i \in DOMAIN replies', j \in DOMAIN requests' : Precedes(replies'[i], requests'[j])
      BY <1>5, <1>7, <2>1, <2>2, <2>3 DEF QueuesInTurn
    <2>7. r.call # 0 /\ r.op \in Stages /\ (r.op = "speak with options" => ok)
      BY <1>1, <1>5, <2>1 DEF StagesInv, Harmless, r
    <2>8. StagesInv'
      BY <1>4, <1>5, <1>7, <2>1, <2>7 DEF StagesInv
    <2> QED
      BY <2>2, <2>5, <2>6, <2>8 DEF QueuesInTurn
  <1> QED
    BY <1>2, <1>8, <1>9 DEF OrderInv

\* A call that has stopped goes to the end, behind every call that has to speak and
\* before every call that has yet to stop.
LEMMA ResumeInTurn ==
  ASSUME TypeInv, TypeInv', OrderInv, Resume
  PROVE  OrderInv'
  <1> DEFINE r == Head(replies)
             e == [call |-> r.call, op |-> "speak with options"]
  <1>1. /\ replies # <<>> /\ replies' = Tail(replies) /\ UNCHANGED <<calls, timers>>
        /\ isInitialized' = (isInitialized \/ r.op = "setDefaultLanguage")
        /\ IF r.call = 0 \/ NextOp(r.op, r.ok) = "done" THEN UNCHANGED requests
           ELSE Request(r.call, NextOp(r.op, r.ok))
    BY DEF Resume
  <1>2. requests \in Seq(Item) /\ replies \in Seq(Reply)
        /\ Len(requests) \in Nat /\ Len(replies) \in Nat
    BY QueueTypes
  <1>3. /\ r = replies[1] /\ 1 \in DOMAIN replies /\ r \in Reply
        /\ \A i \in DOMAIN replies' :
              i + 1 \in DOMAIN replies /\ replies'[i] = replies[i + 1]
        /\ Len(replies') = Len(replies) - 1
    BY <1>1, <1>2, TailElements, QueueEnds
  <1>4. ASSUME ~isInitialized PROVE isInitialized' /\ QueuesInTurn' /\ StagesInv'
    <2>1. BeforeInit
      BY <1>4 DEF OrderInv
    <2>2. r.call = 0 /\ r.op = "setDefaultLanguage"
      BY <1>3, <2>1 DEF BeforeInit
    <2>3. Len(requests) = 0 /\ Len(replies') = 0
      BY <1>1, <1>2, <1>3, <2>1 DEF BeforeInit
    <2>4. DOMAIN requests' = {} /\ DOMAIN replies' = {}
      <3>1. replies' \in Seq(Reply)
        BY <1>1, <1>2, QueueEnds
      <3>2. requests' = requests
        BY <1>1, <2>2
      <3> QED
        BY <1>2, <2>3, <3>1, <3>2
    <2> QED
      BY <1>1, <2>2, <2>4 DEF QueuesInTurn, InTurn, StagesInv
  <1>5. ASSUME isInitialized PROVE QueuesInTurn' /\ StagesInv'
    <2>1. QueuesInTurn /\ StagesInv
      BY <1>5 DEF OrderInv
    <2>2. /\ InTurn(replies')
          /\ \A i \in DOMAIN replies' : Precedes(r, replies'[i])
      BY <1>1, <1>2, <2>1, TailInTurn DEF QueuesInTurn
    <2>3. r.call # 0 /\ r.op \in Stages /\ (r.op = "speak with options" => r.ok)
      BY <1>3, <2>1 DEF StagesInv
    <2>4. CASE r.op = "speak with options"
      <3>1. requests' = requests
        BY <1>1, <2>3, <2>4 DEF NextOp
      <3> QED
        BY <1>3, <2>1, <2>2, <3>1 DEF QueuesInTurn, StagesInv
    <2>5. CASE r.op = "stop"
      <3>1. requests' = Append(requests, e)
        BY <1>1, <2>3, <2>5 DEF NextOp, Request
      <3>2. e.call = r.call /\ e.op = "speak with options"
        OBVIOUS
      <3> HIDE DEF e, r
      <3>3. \A a : a.op \in Stages /\ Precedes(r, a) => Precedes(a, e)
        BY <2>5, <3>2 DEF Precedes, Stages
      <3>4. \A j \in DOMAIN requests : Precedes(requests[j], e)
        BY <1>3, <2>1, <3>3 DEF QueuesInTurn, StagesInv
      <3>5. \A i \in DOMAIN replies' : Precedes(replies'[i], e)
        BY <1>3, <2>1, <2>2, <3>3 DEF StagesInv
      <3>6. requests \in Seq(Item \cup {e}) /\ e \in Item \cup {e}
        BY <1>2, WiderQueue
      <3>7. InTurn(requests')
        BY <2>1, <3>1, <3>4, <3>6, AppendInTurn DEF QueuesInTurn
      <3>8. \A i \in DOMAIN requests' :
              (i \in DOMAIN requests /\ requests'[i] = requests[i]) \/ requests'[i] = e
        BY <3>1, <3>6, AppendElements
      <3>9. QueuesInTurn'
        BY <1>3, <2>1, <2>2, <3>5, <3>7, <3>8 DEF QueuesInTurn
      <3>10. StagesInv'
        BY <1>3, <2>1, <2>3, <3>2, <3>8 DEF StagesInv, Stages
      <3> QED
        BY <3>9, <3>10
    <2> QED
      BY <2>3, <2>4, <2>5 DEF Stages
  <1> QED
    BY <1>1, <1>4, <1>5 DEF OrderInv

LEMMA OrderStart == Init => OrderInv
  <1> SUFFICES ASSUME Init PROVE OrderInv
    OBVIOUS
  <1>1. CASE requests = <<>>
    BY <1>1 DEF Init, OrderInv, BeforeInit
  <1>2. CASE requests = <<[call |-> 0, op |-> "setDefaultLanguage"]>>
    BY <1>2 DEF Init, OrderInv, BeforeInit
  <1> QED
    BY <1>1, <1>2 DEF Init

LEMMA OrderStep ==
  ASSUME FailingOps \subseteq Harmless, TypeInv, TypeInv', OrderInv, [ReadyNext]_vars
  PROVE  OrderInv'
  <1>1. ASSUME NEW w \in Words \cup {NoWord}, Show(w), isInitialized PROVE OrderInv'
    BY <1>1 DEF Show, OrderInv, QueuesInTurn, InTurn, StagesInv
  <1>2. ASSUME TapSpeaker, isInitialized PROVE OrderInv'
    <2>1. word \in Words /\ SpeakKorean(word) /\ UNCHANGED <<isInitialized, replies>>
      BY <1>2 DEF TapSpeaker, TypeInv, TypeOK
    <2> QED
      BY <1>2, <2>1, NewCallInTurn
  <1>3. ASSUME TimerFires PROVE OrderInv'
    <2>1. PICK w \in timers : SpeakKorean(w)
      BY <1>3 DEF TimerFires
    <2>2. isInitialized /\ w \in Words /\ UNCHANGED <<isInitialized, replies>>
      BY <1>3, <2>1 DEF TimerFires, OrderInv, BeforeInit, TypeInv, TypeOK
    <2> QED
      BY <2>1, <2>2, NewCallInTurn
  <1>4. ASSUME UtteranceEnds \/ UNCHANGED vars PROVE OrderInv'
    <2>1. UNCHANGED <<requests, replies, isInitialized, calls, timers>>
      BY <1>4 DEF UtteranceEnds, vars
    <2> QED
      BY <2>1 DEF OrderInv, QueuesInTurn, InTurn, StagesInv, BeforeInit
  <1> QED
    BY <1>1, <1>2, <1>3, <1>4, ServeInTurn, ResumeInTurn DEF ReadyNext, Runtime, Learner

LEMMA ReadyStep == [ReadyNext]_vars => [Next]_vars
  BY DEF ReadyNext, Next

LEMMA Ordered == ASSUME FailingOps \subseteq Harmless
                 PROVE  ReadySpec => [](TypeInv /\ OrderInv)
  <1>1. Init => TypeInv /\ OrderInv
    BY TypeStart, OrderStart
  <1>2. TypeInv /\ OrderInv /\ [ReadyNext]_vars => (TypeInv /\ OrderInv)'
    BY TypeStep, ReadyStep, OrderStep
  <1> QED
    BY <1>1, <1>2, PTL DEF ReadySpec

\* Once initializeTTS is over and as long as speak is not rejected, no call of
\* speakKorean overtakes another between its two awaits (textToSpeech.ts:73, 81).
THEOREM CallsSpeakInOrder == ASSUME FailingOps \subseteq Harmless
                             PROVE  ReadySpec => SpokenInOrder
  <1>1. ASSUME TypeInv, OrderInv, [ReadyNext]_vars, Len(engine') > Len(engine),
               NEW n \in 1..(engine'[Len(engine')] - 1), Unspoken(n)
        PROVE  FALSE
    <2> DEFINE r == Head(requests)
    <2>1. engine \in Seq(CallNumbers \ {0}) /\ Len(engine) \in Nat
      BY <1>1 DEF TypeInv, TypeOK
    <2>2. Serve
      <3>1. UNCHANGED engine \/ Serve \/ (engine # <<>> /\ engine' = Tail(engine))
        BY <1>1 DEF ReadyNext, Runtime, Learner, vars, Show, TapSpeaker, TimerFires, Resume, UtteranceEnds
      <3> QED
        BY <1>1, <2>1, <3>1
    <2>3. requests \in Seq(Item) /\ requests # <<>> /\ engine' = Fulfilled(r)
      BY <1>1, <2>2, QueueTypes DEF Serve
    <2>4. r = requests[1] /\ 1 \in DOMAIN requests /\ DOMAIN requests \subseteq Nat \ {0}
      BY <2>3
    <2>5. r.op \in {"speak", "speak with options"} /\ engine' = Append(engine, r.call)
      <3>1. engine' # <<>> /\ engine' # engine
        BY <1>1, <2>1
      <3> QED
        BY <1>1, <2>1, <2>3, <3>1 DEF Fulfilled
    <2>6. r.call \in CallNumbers \ {0} /\ r.call \in Nat
      <3>1. r \in Item /\ Len(calls) \in Nat
        BY <1>1, <2>3, QueueEnds DEF TypeInv, TypeOK
      <3>2. r.op # "setDefaultLanguage"
        BY <2>5
      <3>3. CallNumbers \subseteq Nat
        BY <3>1 DEF CallNumbers
      <3> HIDE DEF r
      <3>4. r.call \in CallNumbers /\ r.call # 0
        BY <3>1, <3>2 DEF Item
      <3> QED
        BY <3>3, <3>4
    <2>7. engine'[Len(engine')] = r.call
      <3> HIDE DEF r
      <3> QED
        BY <2>1, <2>5, <2>6, LastOfQueue
    <2>8. n \in Nat /\ n < r.call
      BY <1>1, <2>6, <2>7
    <2>9. QueuesInTurn /\ StagesInv
      BY <1>1, <2>4, <2>5 DEF OrderInv, BeforeInit
    <2>10. r.op = "speak with options"
      BY <2>4, <2>5, <2>9 DEF StagesInv, Stages
    <2>11. ASSUME NEW i \in DOMAIN requests, requests[i].call = n PROVE FALSE
      <3>1. i > 1
        BY <2>4, <2>8, <2>11
      <3>2. Precedes(r, requests[i]) /\ requests[i].op \in Stages
        BY <2>4, <2>9, <3>1 DEF QueuesInTurn, InTurn, StagesInv
      <3>3. r.call < requests[i].call
        BY <2>10, <3>2 DEF Precedes, Stages
      <3> QED
        BY <2>6, <2>8, <2>11, <3>3
    <2>12. ASSUME NEW i \in DOMAIN replies, replies[i].call = n,
                  NextOp(replies[i].op, replies[i].ok) # "done"
           PROVE  FALSE
      <3>1. replies[i].op = "stop" /\ Precedes(replies[i], r)
        BY <2>4, <2>9, <2>12 DEF QueuesInTurn, StagesInv, Stages, NextOp
      <3>2. r.call < replies[i].call
        BY <2>10, <3>1 DEF Precedes
      <3> QED
        BY <2>6, <2>8, <2>12, <3>2
    <2> QED
      BY <1>1, <2>11, <2>12 DEF Unspoken
  <1>2. TypeInv /\ OrderInv /\ [ReadyNext]_vars
        => [Len(engine') > Len(engine) =>
              \A n \in 1..(engine'[Len(engine')] - 1) : ~Unspoken(n)]_vars
    BY <1>1
  <1> QED
    BY <1>2, Ordered, PTL DEF ReadySpec, SpokenInOrder

----------------------------------------------------------------------------
(* No word is cut off by an earlier call, whatever overlaps and is rejected. *)

\* How many native calls lie before this one on the way of a call of speakKorean.
Stage(op) == IF op = "setDefaultLanguage" THEN 0
             ELSE IF op = "stop" THEN 1
             ELSE IF op = "speak with options" THEN 2
             ELSE 3

\* The native module is asked, and answers, in turn.  So a call keeps to the stage of the
\* calls before it: an earlier call that is next after a later one has come as far, one
\* that is next before it is one stage behind at most.
Ahead(a, b) ==
    /\ a.call # b.call
    /\ a.call < b.call => Stage(b.op) <= Stage(a.op) + 1
    /\ b.call < a.call => Stage(a.op) <= Stage(b.op)

InLine(q) == \A i, j \in DOMAIN q : i < j => Ahead(q[i], q[j])

\* The replies come before the requests.
QueuesInLine ==
    /\ InLine(replies) /\ InLine(requests)
    /\ \A i \in DOMAIN replies, j \in DOMAIN requests : Ahead(replies[i], requests[j])

\* The calls before one that speaks have asked to stop, and their stop has been taken up.
SpokenInv ==
    \A j \in DOMAIN engine :
        /\ \A i \in DOMAIN requests :
              requests[i].call < engine[j] => Stage(requests[i].op) >= 2
        /\ \A i \in DOMAIN replies :
              replies[i].call < engine[j] => Stage(replies[i].op) >= 1

LineInv == QueuesInLine /\ SpokenInv

LEMMA StageOfOp == ASSUME NEW op \in Ops
                   PROVE  /\ Stage(op) \in 0..3
                          /\ Stage(op) < 2 <=> op \in {"setDefaultLanguage", "stop"}
                          /\ Stage(op) = 0 <=> op = "setDefaultLanguage"
  <1>1. CASE op = "setDefaultLanguage"
    BY <1>1 DEF Stage
  <1>2. CASE op = "stop"
    BY <1>2 DEF Stage
  <1>3. CASE op = "speak with options"
    <2>1. Stage(op) = 2 /\ op \notin {"setDefaultLanguage", "stop"}
      BY <1>3 DEF Stage
    <2> QED
      BY <2>1
  <1>4. CASE op = "speak"
    BY <1>4 DEF Stage
  <1> QED
    BY <1>1, <1>2, <1>3, <1>4 DEF Ops

LEMMA StageOfNext == ASSUME NEW op \in Ops, NEW ok, NextOp(op, ok) # "done"
                     PROVE  NextOp(op, ok) \in Ops /\ Stage(NextOp(op, ok)) = Stage(op) + 1
  <1>1. CASE op = "setDefaultLanguage"
    BY <1>1 DEF Stage, NextOp, Ops
  <1>2. CASE op = "stop"
    BY <1>2 DEF Stage, NextOp, Ops
  <1>3. CASE op = "speak with options"
    <2>1. Stage(op) = 2 /\ NextOp(op, ok) = "speak"
      BY <1>3 DEF Stage, NextOp
    <2>2. Stage("speak") = 3 /\ "speak" \in Ops
      BY DEF Stage, Ops
    <2> QED
      BY <2>1, <2>2
  <1>4. CASE op = "speak"
    BY <1>4 DEF NextOp
  <1> QED
    BY <1>1, <1>2, <1>3, <1>4 DEF Ops

LEMMA ElementsAreCalls ==
  ASSUME TypeInv
  PROVE  /\ CallNumbers \subseteq Nat
         /\ \A i \in DOMAIN requests : requests[i].call \in Nat /\ requests[i].op \in Ops
         /\ \A i \in DOMAIN replies : replies[i].call \in Nat /\ replies[i].op \in Ops
         /\ \A j \in DOMAIN engine : engine[j] \in CallNumbers
  <1>1. CallNumbers \subseteq Nat
    BY DEF CallNumbers
  <1>2. /\ \A i \in DOMAIN requests : requests[i] \in Item
        /\ \A i \in DOMAIN replies : replies[i] \in Reply
        /\ \A j \in DOMAIN engine : engine[j] \in CallNumbers
    BY QueueTypes DEF TypeInv, TypeOK
  <1> QED
    BY <1>1, <1>2 DEF Item, Reply

LEMMA TailInLine == ASSUME NEW S, NEW q \in Seq(S), q # <<>>, InLine(q)
                    PROVE  /\ InLine(Tail(q))
                           /\ \A i \in DOMAIN Tail(q) : Ahead(Head(q), Tail(q)[i])
  <1>1. \A i \in DOMAIN Tail(q) : i + 1 \in DOMAIN q /\ Tail(q)[i] = q[i + 1]
    OBVIOUS
  <1>2. Head(q) = q[1] /\ 1 \in DOMAIN q /\ DOMAIN Tail(q) \subseteq Nat \ {0}
    OBVIOUS
  <1> QED
    BY <1>1, <1>2 DEF InLine

LEMMA AppendInLine ==
  ASSUME NEW S, NEW q \in Seq(S), NEW e \in S, InLine(q),
         \A i \in DOMAIN q : Ahead(q[i], e)
  PROVE  InLine(Append(q, e))
  <1>1. /\ DOMAIN Append(q, e) = DOMAIN q \cup {Len(q) + 1}
        /\ \A i \in DOMAIN q : Append(q, e)[i] = q[i] /\ i <= Len(q) /\ i \in Nat
        /\ Append(q, e)[Len(q) + 1] = e /\ Len(q) \in Nat
    OBVIOUS
  <1> QED
    BY <1>1 DEF InLine

\* What comes after the first in line is before it when the first has gone a stage
\* further and to the end.
LEMMA ToTheEnd ==
  ASSUME NEW r, NEW e, NEW b, r.call \in Nat, b.call \in Nat, r.op \in Ops, b.op \in Ops,
         e.call = r.call, Stage(e.op) = Stage(r.op) + 1, Ahead(r, b)
  PROVE  Ahead(b, e)
  <1>1. Stage(r.op) \in 0..3 /\ Stage(b.op) \in 0..3
    BY StageOfOp
  <1> QED
    BY <1>1 DEF Ahead

\* A new call, at one of the first two stages, is behind all others.
LEMMA NewCallInLine ==
  ASSUME TypeInv, LineInv, NEW text \in Words, SpeakKorean(text), UNCHANGED <<replies, engine>>
  PROVE  LineInv'
  <1> DEFINE e == [call |-> Len(calls) + 1,
                   op |-> IF isInitialized THEN "stop" ELSE "setDefaultLanguage"]
  <1>1. requests' = Append(requests, e) /\ Len(calls) \in Nat
    BY DEF SpeakKorean, Request, TypeInv, TypeOK
  <1>2. requests \in Seq(Item) /\ QueuesInLine /\ SpokenInv
    BY QueueTypes DEF LineInv
  <1>3. e.call = Len(calls) + 1 /\ e.op \in Ops /\ Stage(e.op) <= 1
    BY DEF Ops, Stage
  <1>4. requests \in Seq(Item \cup {e}) /\ e \in Item \cup {e}
    BY <1>2, WiderQueue
  <1> HIDE DEF e
  <1>5. ASSUME NEW a, a.call \in CallNumbers, a.op \in Ops PROVE Ahead(a, e)
    <2>1. a.call \in Nat /\ a.call < e.call /\ Stage(a.op) \in 0..3 /\ Stage(e.op) \in 0..3
      BY <1>1, <1>3, <1>5, StageOfOp DEF CallNumbers
    <2> QED
      BY <1>3, <2>1, <1>1 DEF Ahead
  <1>6. /\ \A i \in DOMAIN requests : Ahead(requests[i], e)
        /\ \A i \in DOMAIN replies : Ahead(replies[i], e)
    <2>1. /\ \A i \in DOMAIN requests : requests[i] \in Item
          /\ \A i \in DOMAIN replies : replies[i] \in Reply
      BY QueueTypes
    <2> QED
      BY <1>5, <2>1 DEF Item, Reply
  <1>7. InLine(requests')
    BY <1>1, <1>2, <1>4, <1>6, AppendInLine DEF QueuesInLine
  <1>8. \A i \in DOMAIN requests' :
          (i \in DOMAIN requests /\ requests'[i] = requests[i]) \/ requests'[i] = e
    BY <1>1, <1>4, AppendElements
  <1>9. QueuesInLine'
    BY <1>2, <1>6, <1>7, <1>8 DEF QueuesInLine
  <1>10. \A j \in DOMAIN engine : ~(e.call < engine[j])
    BY <1>1, <1>3, ElementsAreCalls DEF CallNumbers
  <1>11. SpokenInv'
    BY <1>2, <1>8, <1>10 DEF SpokenInv
  <1> QED
    BY <1>9, <1>11 DEF LineInv

\* A request that is taken up keeps its place.  If it speaks, the calls before it have
\* asked to stop already; if it stops, no word is left.
LEMMA ServeInLine == ASSUME TypeInv, LineInv, Serve PROVE LineInv'
  <1> DEFINE r == Head(requests)
  <1>1. PICK ok \in BOOLEAN :
          /\ replies' = Append(replies, [call |-> r.call, op |-> r.op, ok |-> ok])
          /\ engine' = Fulfilled(r) \/ engine' = engine
    BY DEF Serve
  <1> DEFINE x == [call |-> r.call, op |-> r.op, ok |-> ok]
  <1>2. requests # <<>> /\ requests' = Tail(requests)
    BY DEF Serve
  <1>3. requests \in Seq(Item) /\ replies \in Seq(Reply) /\ QueuesInLine /\ SpokenInv
    BY QueueTypes DEF LineInv
  <1>4. x \in Reply /\ x.call = r.call /\ x.op = r.op
    BY <1>2, <1>3, QueueEnds DEF Item, Reply
  <1>5. /\ r = requests[1] /\ 1 \in DOMAIN requests
        /\ \A i \in DOMAIN requests' :
              i + 1 \in DOMAIN requests /\ requests'[i] = requests[i + 1]
    BY <1>2, <1>3, TailElements
  <1>6. replies' = Append(replies, x)
    BY <1>1
  <1>7. r.call \in Nat /\ r.op \in Ops /\ Stage(r.op) \in 0..3
    BY <1>5, ElementsAreCalls, StageOfOp
  <1> HIDE DEF x, r
  <1>8. \A i \in DOMAIN replies' :
          (i \in DOMAIN replies /\ replies'[i] = replies[i]) \/ replies'[i] = x
    BY <1>3, <1>4, <1>6, AppendElements
  <1>9. InLine(requests') /\ \A i \in DOMAIN requests' : Ahead(r, requests'[i])
    BY <1>2, <1>3, TailInLine DEF QueuesInLine, r
  <1>10. \A b : (Ahead(r, b) => Ahead(x, b)) /\ (Ahead(b, r) => Ahead(b, x))
    BY <1>4 DEF Ahead
  <1>11. \A i \in DOMAIN replies : Ahead(replies[i], r)
    BY <1>3, <1>5 DEF QueuesInLine
  <1>12. InLine(replies')
    BY <1>3, <1>4, <1>6, <1>10, <1>11, AppendInLine DEF QueuesInLine
  <1>13. QueuesInLine'
    BY <1>3, <1>5, <1>8, <1>9, <1>10, <1>12 DEF QueuesInLine
  <1>14. ASSUME NEW j \in DOMAIN engine
         PROVE  /\ \A i \in DOMAIN requests' :
                      requests'[i].call < engine[j] => Stage(requests'[i].op) >= 2
                /\ \A i \in DOMAIN replies' :
                      replies'[i].call < engine[j] => Stage(replies'[i].op) >= 1
    <2>1. r.call < engine[j] => Stage(r.op) >= 2
      BY <1>3, <1>5 DEF SpokenInv
    <2>2. x.call < engine[j] => Stage(x.op) >= 1
      BY <1>4, <1>7, <2>1
    <2> QED
      BY <1>3, <1>5, <1>8, <2>2 DEF SpokenInv
  <1>15. ASSUME r.op \in {"speak with options", "speak"}
         PROVE  /\ \A i \in DOMAIN requests' :
                      requests'[i].call < r.call => Stage(requests'[i].op) >= 2
                /\ \A i \in DOMAIN replies' :
                      replies'[i].call < r.call => Stage(replies'[i].op) >= 1
    <2>1. Stage(r.op) >= 2
      <3>1. r.op \notin {"setDefaultLanguage", "stop"}
        BY <1>15
      <3> QED
        BY <1>7, <3>1, StageOfOp
    <2>2. /\ \A i \in DOMAIN requests' :
                requests'[i].op \in Ops /\ Stage(requests'[i].op) \in 0..3
          /\ \A i \in DOMAIN replies : Stage(replies[i].op) \in 0..3
      BY <1>5, ElementsAreCalls, StageOfOp
    <2>3. \A i \in DOMAIN requests' :
            requests'[i].call < r.call => Stage(requests'[i].op) >= 2
      BY <1>7, <1>9, <2>1, <2>2 DEF Ahead
    <2>4. \A i \in DOMAIN replies :
            replies[i].call < r.call => Stage(replies[i].op) >= 1
      BY <1>7, <1>11, <2>1, <2>2 DEF Ahead
    <2>5. ~(x.call < r.call)
      BY <1>4, <1>7
    <2> QED
      BY <1>8, <2>3, <2>4, <2>5
  <1>16. \/ engine' = <<>> \/ engine' = engine
         \/ r.op \in {"speak with options", "speak"} /\ engine' = Append(engine, r.call)
    BY <1>1 DEF Fulfilled
  <1>17. \A j \in DOMAIN engine' :
           \/ j \in DOMAIN engine /\ engine'[j] = engine[j]
           \/ r.op \in {"speak with options", "speak"} /\ engine'[j] = r.call
    <2>1. engine \in Seq(Nat)
      <3>1. engine \in Seq(CallNumbers \ {0}) /\ CallNumbers \ {0} \subseteq Nat
        BY ElementsAreCalls DEF TypeInv, TypeOK
      <3> QED
        BY <3>1, WiderQueue
    <2>2. CASE engine' = <<>>
      <3>1. DOMAIN engine' = {}
        BY <2>2
      <3> QED
        BY <3>1
    <2>3. CASE engine' = engine
      BY <2>3
    <2>4. CASE r.op \in {"speak with options", "speak"} /\ engine' = Append(engine, r.call)
      <3>1. \A j \in DOMAIN engine' :
              (j \in DOMAIN engine /\ engine'[j] = engine[j]) \/ engine'[j] = r.call
        <4> DEFINE n == r.call
        <4>1. n \in Nat /\ engine' = Append(engine, n)
          BY <1>7, <2>4
        <4> HIDE DEF n
        <4>2. \A j \in DOMAIN engine' :
                (j \in DOMAIN engine /\ engine'[j] = engine[j]) \/ engine'[j] = n
          BY ONLY <2>1, <4>1, AppendElements
        <4> QED
          BY <4>2 DEF n
      <3> QED
        BY <2>4, <3>1
    <2> QED
      BY <1>16, <2>2, <2>3, <2>4
  <1>18. SpokenInv'
    BY <1>14, <1>15, <1>17 DEF SpokenInv
  <1> QED
    BY <1>13, <1>18 DEF LineInv

\* A call goes to its next stage and to the end of the line.
LEMMA ResumeInLine == ASSUME TypeInv, LineInv, Resume PROVE LineInv'
  <1> DEFINE r == Head(replies)
             op == NextOp(r.op, r.ok)
             e == [call |-> r.call, op |-> op]
  <1>1. /\ replies # <<>> /\ replies' = Tail(replies) /\ engine' = engine
        /\ requests' = requests \/ (op # "done" /\ requests' = Append(requests, e))
    BY DEF Resume, Request
  <1>2. requests \in Seq(Item) /\ replies \in Seq(Reply) /\ QueuesInLine /\ SpokenInv
    BY QueueTypes DEF LineInv
  <1>3. /\ r = replies[1] /\ 1 \in DOMAIN replies
        /\ \A i \in DOMAIN replies' :
              i + 1 \in DOMAIN replies /\ replies'[i] = replies[i + 1]
    BY <1>1, <1>2, TailElements
  <1>4. r.call \in Nat /\ r.op \in Ops /\ Stage(r.op) \in 0..3
    BY <1>3, ElementsAreCalls, StageOfOp
  <1>5. InLine(replies') /\ \A i \in DOMAIN replies' : Ahead(r, replies'[i])
    BY <1>1, <1>2, TailInLine DEF QueuesInLine
  <1>6. CASE requests' = requests
    <2>1. QueuesInLine'
      BY <1>2, <1>3, <1>5, <1>6 DEF QueuesInLine
    <2>2. SpokenInv'
      BY <1>1, <1>2, <1>3, <1>6 DEF SpokenInv
    <2> QED
      BY <2>1, <2>2 DEF LineInv
  <1>7. CASE op # "done" /\ requests' = Append(requests, e)
    <2>1. e.call = r.call /\ e.op = op /\ Stage(op) = Stage(r.op) + 1
      BY <1>4, <1>7, StageOfNext
    <2>2. requests \in Seq(Item \cup {e}) /\ e \in Item \cup {e}
      BY <1>2, WiderQueue
    <2> HIDE DEF e, op, r
    <2>3. ASSUME NEW b, b.call \in Nat, b.op \in Ops, Ahead(r, b) PROVE Ahead(b, e)
      BY <1>4, <2>1, <2>3, ToTheEnd
    <2>4. \A i \in DOMAIN requests : Ahead(requests[i], e)
      BY <1>2, <1>3, <2>3, ElementsAreCalls DEF QueuesInLine
    <2>5. \A i \in DOMAIN replies' : Ahead(replies'[i], e)
      BY <1>3, <1>5, <2>3, ElementsAreCalls
    <2>6. InLine(requests')
      BY <1>2, <1>7, <2>2, <2>4, AppendInLine DEF QueuesInLine
    <2>7. \A i \in DOMAIN requests' :
            (i \in DOMAIN requests /\ requests'[i] = requests[i]) \/ requests'[i] = e
      BY <1>7, <2>2, AppendElements
    <2>8. QueuesInLine'
      BY <1>2, <1>3, <1>5, <2>5, <2>6, <2>7 DEF QueuesInLine
    <2>9. ASSUME NEW j \in DOMAIN engine, e.call < engine[j] PROVE Stage(e.op) >= 2
      <3>1. Stage(r.op) >= 1
        BY <1>2, <1>3, <2>1, <2>9 DEF SpokenInv
      <3> QED
        BY <1>4, <2>1, <3>1
    <2>10. SpokenInv'
      BY <1>1, <1>2, <1>3, <2>7, <2>9 DEF SpokenInv
    <2> QED
      BY <2>8, <2>10 DEF LineInv
  <1> QED
    BY <1>1, <1>6, <1>7

LEMMA LineStep == ASSUME TypeInv, TimerInv, LineInv, [Next]_vars PROVE LineInv'
  <1>1. ASSUME UNCHANGED <<requests, replies, engine>> PROVE LineInv'
    BY <1>1 DEF LineInv, QueuesInLine, InLine, SpokenInv
  <1>2. ASSUME TapSpeaker PROVE LineInv'
    <2>1. word \in Words /\ SpeakKorean(word) /\ UNCHANGED <<replies, engine>>
      BY <1>2 DEF TapSpeaker, TypeInv, TypeOK
    <2> QED
      BY <2>1, NewCallInLine
  <1>3. ASSUME TimerFires PROVE LineInv'
    <2>1. PICK w \in timers : SpeakKorean(w)
      BY <1>3 DEF TimerFires
    <2>2. w \in Words /\ UNCHANGED <<replies, engine>>
      BY <1>3, <2>1 DEF TimerFires, TypeInv, TypeOK
    <2> QED
      BY <2>1, <2>2, NewCallInLine
  <1>4. ASSUME UtteranceEnds PROVE LineInv'
    <2>1. engine # <<>> /\ engine' = Tail(engine) /\ UNCHANGED <<requests, replies>>
      BY <1>4 DEF UtteranceEnds
    <2>2. \A j \in DOMAIN engine' : j + 1 \in DOMAIN engine /\ engine'[j] = engine[j + 1]
      BY <2>1, TailElements DEF TypeInv, TypeOK
    <2> QED
      BY <2>1, <2>2 DEF LineInv, QueuesInLine, InLine, SpokenInv
  <1>5. ASSUME NEW w \in Words \cup {NoWord}, Show(w) PROVE LineInv'
    BY <1>1, <1>5 DEF Show
  <1>6. UNCHANGED vars => UNCHANGED <<requests, replies, engine>>
    BY DEF vars
  <1> QED
    BY <1>1, <1>2, <1>3, <1>4, <1>5, <1>6, ServeInLine, ResumeInLine DEF Next, Learner, Runtime

\* "Stop any currently speaking text" (textToSpeech.ts:71) never cuts off the word of a
\* later call: when a word is given to the engine, every earlier call has had its stop,
\* however calls overlap, whoever sets the language and whatever is rejected.
THEOREM NoWordCutByEarlierCall == Spec => []OnlyLaterStops
  <1>1. Init => LineInv
    <2> SUFFICES ASSUME Init PROVE LineInv
      OBVIOUS
    <2>1. replies = <<>> /\ engine = <<>> /\ Len(requests) <= 1
      BY DEF Init
    <2>2. DOMAIN replies = {} /\ DOMAIN engine = {} /\ DOMAIN requests \subseteq {1}
      BY <2>1 DEF Init
    <2> QED
      BY <2>2 DEF LineInv, QueuesInLine, InLine, SpokenInv
  <1>2. TypeInv /\ TimerInv /\ LineInv /\ [Next]_vars => LineInv'
    BY LineStep
  <1>3. ASSUME TypeInv, LineInv PROVE OnlyLaterStops
    <2> SUFFICES ASSUME NEW j \in DOMAIN engine, NEW n \in 1..(engine[j] - 1), Unstopped(n)
                 PROVE  FALSE
      BY DEF OnlyLaterStops
    <2>1. engine[j] \in Nat /\ n \in Nat /\ n < engine[j]
      BY <1>3, ElementsAreCalls
    <2>2. ASSUME NEW i \in DOMAIN requests, requests[i].call = n,
                 requests[i].op \in {"setDefaultLanguage", "stop"}
          PROVE  FALSE
      <3>1. Stage(requests[i].op) >= 2
        BY <1>3, <2>1, <2>2 DEF LineInv, SpokenInv
      <3> QED
        BY <2>2, <3>1 DEF Stage
    <2>3. ASSUME NEW i \in DOMAIN replies, replies[i].call = n,
                 NextOp(replies[i].op, replies[i].ok) = "stop"
          PROVE  FALSE
      <3>1. Stage(replies[i].op) >= 1
        BY <1>3, <2>1, <2>3 DEF LineInv, SpokenInv
      <3>2. replies[i].op = "setDefaultLanguage"
        BY <2>3 DEF NextOp
      <3> QED
        BY <3>1, <3>2 DEF Stage
    <2> QED
      BY <2>2, <2>3 DEF Unstopped
  <1> QED
    BY <1>1, <1>2, <1>3, TypeAndTimer, PTL DEF Spec
=============================================================================
