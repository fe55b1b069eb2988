--------------------------- MODULE MCCopyMigration ---------------------------
(* The copy migration on a small instance: OBS, a library of the same        *)
(* version and a managed settings file.                                      *)
EXTENDS CopyMigration, TLC
CONSTANTS exe, lib, ini, old, new

Tree(e, l, i) == (exe :> e) @@ (lib :> l) @@ (ini :> i)
MCFiles == {exe, lib, ini}
MCSources == {Tree(old, old, old), Tree(Absent, Absent, Absent)}
MCDestinations == {Tree(Absent, Absent, Absent), Tree(Absent, new, Absent), Tree(new, new, new)}
=============================================================================
