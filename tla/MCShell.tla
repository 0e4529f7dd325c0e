------------------------------ MODULE MCShell ------------------------------
(* A screen of three rows of three columns, lines of up to three characters.  *)
EXTENDS Shell

MCWelcome == <<>>
MCPrompt == <<"$">>
=============================================================================
