--------------------------- MODULE BlockPartition ---------------------------
(***************************************************************************)
(* How p10 shares out the terms 0 .. N - 1 of a series among the ranks     *)
(* 0 .. P - 1 of an MPI program: equal portions, and the rest of the       *)
(* division goes to the last rank.  MPI_Reduce adds up what they sum.      *)
(***************************************************************************)
EXTENDS Integers

StdPortionSize(N, P) == N \div P
Rest(N, P)           == N % P

PortionSize(N, P, rank) ==
    StdPortionSize(N, P) + IF rank = P - 1 THEN Rest(N, P) ELSE 0

\* The terms that a rank sums.
Terms(N, P, rank) ==
    rank * StdPortionSize(N, P) .. rank * StdPortionSize(N, P) + PortionSize(N, P, rank) - 1
=============================================================================
