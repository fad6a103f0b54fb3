----------------------------- MODULE MCDirectory ------------------------------
(* Directory on a small volume; one name begins another.                   *)
EXTENDS Directory

MCPaths == {<< <<1>> >>, << <<1, 2>> >>, << <<1>>, <<2>> >>}
=============================================================================
