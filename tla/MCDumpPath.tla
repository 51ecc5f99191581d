---------------------------- MODULE MCDumpPath ----------------------------
(* Instances of DumpPath: five blocks do not hold two large dumps.         *)
EXTENDS DumpPath

SomeSizes == {0, 1, 4, 5}
Two == {"h1", "h2"}
Noon == {"noon"}
Names == Two \X Noon
=============================================================================
