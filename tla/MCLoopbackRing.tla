--------------------------- MODULE MCLoopbackRing ---------------------------
(***************************************************************************)
(* LoopbackRing for TLC: no action or invariant names a reader.            *)
(***************************************************************************)
EXTENDS LoopbackRing

ReaderSymmetry == Permutations(Readers)

\* Bound: only one reader takes frames out, the others open, request, map,
\* wait and close.  With the timers off, what a reader takes changes nothing
\* but its own variables.
OneReads == \E o \in Readers : read_position[o] = 0 /\ pos[o] = 0

=============================================================================
