----------------------------- MODULE MCKeyboard -----------------------------
(* Keyboard with the shift keys and caps lock.                             *)
EXTENDS Keyboard

=============================================================================
