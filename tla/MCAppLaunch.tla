---------------------------- MODULE MCAppLaunch ----------------------------
(* Three common words and two letters, in pages of two; every file an      *)
(* installed version leaves.                                               *)
EXTENDS AppLaunch

MCCommonWords == <<"hakkyo", "mul", "san">>
MCLetters == <<"giyeok", "a">>
MCInstalled == {FreshImage, FirstImage, Version1Image, Version2Image}
=============================================================================
