----------------------------- MODULE MCCloudStt -----------------------------
(* The two providers of the program. *)
EXTENDS CloudStt

CONSTANTS groq, gemini

MCProviders == {groq, gemini}
=============================================================================
