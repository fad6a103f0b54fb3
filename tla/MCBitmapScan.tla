---------------------------- MODULE MCBitmapScan ----------------------------
(* BitmapScan on every bitmap of eight bits.                               *)
EXTENDS BitmapScan

=============================================================================
