------------------------------ MODULE WordWalk ------------------------------
(***************************************************************************)
(* What a typing session promises the learner: the words of the chosen set *)
(* are shown from the first one on, in their order, none passed over and   *)
(* none shown twice.  TypingSession implements it for a learner who waits  *)
(* for the screen, AppLaunch for the words of the bundled data files.      *)
(***************************************************************************)
EXTENDS Naturals, Sequences

CONSTANTS Sets,     \* the vocabulary sets
          NoSet,    \* no set is chosen
          NoWord    \* no word is shown

VARIABLES lists,    \* the words of each set, in order; never changes
          set,      \* the chosen set
          place,    \* how many words of it have been shown
          word      \* the word that is shown

walk == <<lists, set, place, word>>

WordAt(s, n) == IF n = 0 THEN NoWord ELSE lists[s][n]

Init ==
    /\ set = NoSet
    /\ place = 0
    /\ word = NoWord

MoveTo(s, n) ==
    /\ set' = s
    /\ place' = n
    /\ word' = WordAt(s, n)
    /\ UNCHANGED lists

\* A set is chosen, or chosen again: the walk begins anew.
Choose(s) == MoveTo(s, 0)

\* The next word of the set, the first one included.
Advance ==
    /\ set # NoSet
    /\ place < Len(lists[set])
    /\ MoveTo(set, place + 1)

\* The app is left or killed.
Leave == MoveTo(NoSet, 0)

Next == Advance \/ Leave \/ \E s \in Sets : Choose(s)

Spec == Init /\ [][Next]_walk
=============================================================================
