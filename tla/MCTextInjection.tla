-------------------------- MODULE MCTextInjection --------------------------
(* Two things to copy, so that the user's text can change in between. *)
EXTENDS TextInjection

CONSTANTS c1, c2

MCCopies == {c1, c2}
=============================================================================
