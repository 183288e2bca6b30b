---------------------------- MODULE MCWhisperStt ----------------------------
(* Small instances of WhisperStt. *)
EXTENDS WhisperStt

CONSTANTS m1, m2

MCModels == {m1, m2}
=============================================================================
