----------------------------- MODULE MCKeyboard -----------------------------
(* Rings of two cells whose indices wrap at four.                            *)
EXTENDS Keyboard
=============================================================================
