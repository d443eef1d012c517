------------------------ MODULE MCVocabularyDatabase ------------------------
(* VocabularyDatabase with two common words and two letters. *)
EXTENDS VocabularyDatabase

MCCommonWords == <<"hakkyo", "mul">>
MCLetters == <<"giyeok", "a">>

\* Every file an installed version leaves, and the file whose rows lost their
\* label.
MCInstalled == {FreshImage, FirstImage, Version1Image, Version2Image}
MCAllImages == MCInstalled \cup {UnlabelledImage}
=============================================================================
