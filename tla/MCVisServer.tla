------------------------------ MODULE MCVisServer ------------------------------
(* Small instances of VisServer for TLC. *)
EXTENDS VisServer, TLC

CONSTANTS c1, c2

\* Every connection has an address of its own.
OwnAddr == [c \in Conns |-> c]

\* Connections are interchangeable.
Symmetry == Permutations(Conns)
=============================================================================
