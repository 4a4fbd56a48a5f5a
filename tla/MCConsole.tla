----------------------------- MODULE MCConsole ------------------------------
(* Model checking of Console: one text with both kinds of characters.       *)
EXTENDS Console

MCTexts == {<<"plain", "newline">>}
MCMessages == {<<"newline">>, <<"plain", "plain", "plain">>}
=============================================================================
