----------------------------- MODULE MCCleanDisk ----------------------------
(* Instances of cleandisk for TLC.                                          *)
EXTENDS CleanDisk, TLC

CONSTANTS root, sub, deep, fa, fb, fc, fd, fe, red, blue

SomeFiles == {fa, fb, fc, fd, fe}
SomeDirs  == {root, sub, deep}
\* Copies lie in different directories, one of which is next to a directory.
Tree == (root :> {fa, fe, sub}) @@ (sub :> {fb, deep}) @@ (deep :> {fc, fd})
Contents == (fa :> red) @@ (fb :> red) @@ (fc :> red) @@ (fd :> blue) @@ (fe :> blue)
=============================================================================
