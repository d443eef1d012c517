-------------------------- MODULE MCKoreanKeyboard --------------------------
(* MCMixed reaches what keys reach of addJamo: ㄱ and ㄹ make compound finals with *)
(* ㅅ and ㄱ, ㅗ a compound vowel with ㅣ, ㄸ is an initial only, ㅝ is a compound *)
(* vowel with a key of its own; ㄸ and ㅝ need shift.                            *)
EXTENDS KoreanKeyboard

MCMixed == {Jamo.g, Jamo.s, Jamo.r, Jamo.tt, Jamo.o, Jamo.i, Jamo.wo}
MCFinals == {Jamo.g, Jamo.s, Jamo.r, Jamo.a}
=============================================================================
