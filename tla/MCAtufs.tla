------------------------------- MODULE MCAtufs -------------------------------
(* Atufs on a volume of a few files and clusters.                          *)
EXTENDS Atufs

MCStamps == {<<1>>}
=============================================================================
