----------------------------- MODULE MCCalendar ------------------------------
(* Calendar on every day the clock can show, switched on at the ends of a  *)
(* month, of a February in a leap year and of a century.                   *)
EXTENDS Calendar

MCModes == [bcd : BOOLEAN, full : BOOLEAN]
=============================================================================
