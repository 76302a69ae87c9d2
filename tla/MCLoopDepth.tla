---------------------------- MODULE MCLoopDepth -----------------------------
EXTENDS LoopDepth

\* A terminator has at most two targets and none of them is the entry block.
MCInit == Init /\ \A b \in Block : 1 \notin successors[b] /\ Cardinality(successors[b]) <= 2
MCSpec == MCInit /\ [][Next]_vars /\ WF_vars(Next)
=============================================================================
