-------------------------- MODULE MCTypingSession --------------------------
(* Two sets.  The first takes three pages, the last of them not full; the   *)
(* second takes one page, which is full.                                    *)
EXTENDS TypingSession, TLC

MCSets == {"common-words", "letters"}
MCWords == {"w1", "w2", "w3", "w4", "w5", "l1", "l2"}
MCTables ==
    {("common-words" :> <<"w1", "w2", "w3", "w4", "w5">>) @@ ("letters" :> <<"l1", "l2">>)}
=============================================================================
