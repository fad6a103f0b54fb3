------------------------------ MODULE MCVolume ------------------------------
(* Disks too short for a partition, too short for the areas, and of every  *)
(* length at which fixclusters goes round a different number of times.     *)
EXTENDS Volume

MCMedia == {<<"zero">>, <<"old">>}
MCDisks == {2, 12} \cup 22..32
=============================================================================
