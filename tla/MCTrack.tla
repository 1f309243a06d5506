------------------------------- MODULE MCTrack --------------------------------
(* Track with two processes, which are alike. *)
EXTENDS Track, TLC, FiniteSets

CONSTANTS p1, p2

MCProcesses == {p1, p2}
Symmetry == Permutations(MCProcesses)

(* Once Writers share an epoch the properties left are about epochs and    *)
(* roots: two groups among them are enough.                                *)
FewWhenShared ==
    shared => Cardinality(UNION {{<<e, s>> : s \in acked[e]} : e \in Epochs}) <= 2

===============================================================================
