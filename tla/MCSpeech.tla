------------------------------ MODULE MCSpeech ------------------------------
(* Two words, so that an earlier one can be heard after a later one.        *)
EXTENDS Speech

MCWords == {"w1", "w2"}
Harmless == {"setDefaultLanguage", "stop"}     \* whose failures are ignored
NotLast == Ops \ {"speak"}                      \* the fallback works
=============================================================================
