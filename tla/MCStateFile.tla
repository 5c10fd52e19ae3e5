---------------------------- MODULE MCStateFile ----------------------------
(* Three runs one after the other; two that overlap, under every fault.     *)
EXTENDS StateFile, TLC

CONSTANTS p1, p2

MCSettings == {[procs |-> {p1}, faults |-> {}, runs |-> 3],
               [procs |-> {p1, p2}, faults |-> {"open", "full", "crash"}, runs |-> 2]}

Symmetric == Permutations(Targets) \cup Permutations(Statuses)
=============================================================================
