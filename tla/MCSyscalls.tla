----------------------------- MODULE MCSyscalls -----------------------------
(* Syscalls on clocks of a few ticks per second.                           *)
EXTENDS Syscalls

=============================================================================
