----------------------------- MODULE MCCncSystem -----------------------------
(* Instances of CncSystem for TLC.                                         *)
EXTENDS CncSystem, TLC

CONSTANTS c1, c2, k1, k2, pa, pb

\* A command that exits with 1 and has a long output, one that is killed by
\* SIGSYS, and one there is no binary for.
Fails == [path |-> "ok", status |-> 256, size |-> 4]
Killed == [path |-> "ok", status |-> 31, size |-> 2]
Unknown == [path |-> "missing", status |-> 0, size |-> 2]

FewCommands == {Fails, Killed, Unknown}

\* One that is not answered, and one that is.
TwoCommands == {Killed, Unknown}

Interchangeable == Permutations(Clients) \union Permutations(Slots) \union Permutations(Ports)
=============================================================================
