-------------------------- MODULE MCSessionSounds --------------------------
(* The sets of MCTypingSession.                                             *)
EXTENDS SessionSounds, MCTypingSession
=============================================================================
