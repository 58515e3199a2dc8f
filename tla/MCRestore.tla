------------------------------ MODULE MCRestore ------------------------------
\* Model values for Restore.
EXTENDS Restore

CONSTANTS a, b

\* The restorers are alike.
Alike == Permutations(Restorers)

\* Two sessions share a window of two panes, which is all one of them has.
\* Where the other lives already and index 0 is taken, that window has to go
\* past index 1, which the snapshot wants for the next.
Sharing == [
    order |-> <<a, b>>,
    links |-> (a :> (0 :> 2)) @@ (b :> (0 :> 2 @@ 1 :> 1)),
    active |-> (a :> 0) @@ (b :> 1),
    panes |-> <<1, 2>>]

MCSnapshots == {Sharing}
MCSessionNames == {a, b}
=============================================================================
