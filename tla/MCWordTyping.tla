---------------------------- MODULE MCWordTyping ----------------------------
(* Words of two syllables: every final consonant before every initial one,  *)
(* and every vowel; words of three, with finals that move and join.         *)
EXTENDS WordTyping

MCAllKeys == BASE_KEYBOARD_LAYOUT \cup SHIFT_KEYBOARD_LAYOUT
Combined(initials, vowels, finals) ==
    {CombineJamo(i, v, f)[1] : i \in initials, v \in vowels, f \in finals}
Pairs(first, second) == {<<a, b>> : a \in first, b \in second}

MCFirst == Combined({Jamo.g}, {Jamo.a, Jamo.wi}, Range(FINALS))
MCSecond == Combined(Range(INITIALS), {Jamo.eo, Jamo.oe}, {None, Jamo.bs})
MCAnyVowel == Combined({Jamo.ng, Jamo.tt}, Range(VOWELS), {None, Jamo.n, Jamo.rg})
MCThree == Combined({Jamo.g, Jamo.s}, {Jamo.a}, {None, Jamo.r, Jamo.g})
MCTargets ==
    Pairs(MCFirst, MCSecond) \cup Pairs(MCAnyVowel, {CombineJamo(Jamo.h, Jamo.a, None)[1]})
    \cup {<<a>> \o w : a \in MCThree, w \in Pairs(MCThree, MCThree)}
=============================================================================
