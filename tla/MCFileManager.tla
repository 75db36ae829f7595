---------------------------- MODULE MCFileManager ----------------------------
(* Small instances of the file manager for TLC. *)
EXTENDS FileManagerProperties

CONSTANTS f1, f2, f3

MCNames == {f1, f2, f3}
TwoNames == {f1, f2}
MCListFiles == {f2}
MCUserdata == {f3}
NoNames == {}

\* What the lists ask for, and the same size with other data.
Good == [size |-> 1, crc |-> 1]
Twin == [size |-> 1, crc |-> 2]

MCContents == {Good, Twin}
MCTargets == {Good}

Interchangeable == Permutations(MCNames)
===============================================================================
