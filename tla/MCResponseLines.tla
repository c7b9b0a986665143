--------------------------- MODULE MCResponseLines --------------------------
(* A word of two letters, and every line of up to eight characters.        *)
EXTENDS ResponseLines

MCWord == <<"w", "w">>
MCChars == {":", " ", "'", "w"}
=============================================================================
