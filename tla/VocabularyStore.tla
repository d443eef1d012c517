-------------------------- MODULE VocabularyStore --------------------------
(***************************************************************************)
(* What services/README.md promises of the vocabulary file: each set is    *)
(* stored as a whole ("Auto-Seed"), at most once ("only seeds once"), and  *)
(* a set that is stored stays stored.  VocabularyDatabase implements it.   *)
(***************************************************************************)
EXTENDS Integers

CONSTANT VocabularySets      \* a set of disjoint nonempty sets of words

VARIABLE copies              \* how many rows each word has

Absent(s)  == \A w \in s : copies[w] = 0
Present(s) == \A w \in s : copies[w] = 1

Init ==
    /\ copies \in [UNION VocabularySets -> {0, 1}]
    /\ \A s \in VocabularySets : Absent(s) \/ Present(s)

\* One step stores one set or several at once, none of them stored before.
Store(sets) ==
    /\ \A s \in sets : Absent(s)
    /\ copies' = [w \in UNION VocabularySets |->
                    IF w \in UNION sets THEN 1 ELSE copies[w]]

Next == \E sets \in SUBSET VocabularySets : Store(sets)

Spec == Init /\ [][Next]_copies
============================================================================
