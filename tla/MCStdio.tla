------------------------------ MODULE MCStdio ------------------------------
(* Values of Stdio's constants that a configuration cannot write down.     *)
EXTENDS Stdio

ShortFile == <<0, 1>>
Steps == {-1, 0, 2}
ReadsOrFails == {-1, 1, 9}
=============================================================================
