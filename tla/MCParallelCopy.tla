--------------------------- MODULE MCParallelCopy ---------------------------
(* Four names and four moves: two 2-cycles, a 4-cycle, a 3-cycle with a     *)
(* chain hanging off it, self-moves, immediates and fan-out all occur.      *)
EXTENDS ParallelCopy

\* Only the identity of a name matters, so the destinations may be numbered
\* in the order of the moves.
NumberedByDestination ==
  \A i \in Moves :
    destination[i] # NoName =>
      destination[i] = Cardinality({j \in 1 .. i : destination[j] # NoName})

MCInit == Init /\ NumberedByDestination
MCSpec == MCInit /\ [][Next]_vars /\ WF_vars(Next)
=============================================================================
