--------------------------- MODULE ParallelAssign ---------------------------
(***************************************************************************)
(* What a parallel-copy bundle promises: on the edge from a predecessor    *)
(* to a join block the moves are delivered one by one, in some order, and  *)
(* each gives its phi result the value that the incoming operand had       *)
(* before the edge was taken, whatever was delivered before it.            *)
(* A name initially holds itself as its value, so `env[d] = s' reads "d    *)
(* now holds what s held on entry".                                        *)
(***************************************************************************)
CONSTANTS Names, Moves, NoName

VARIABLES source, destination, env, delivered, done

vars == <<source, destination, env, delivered, done>>

\* A move of an immediate has no source name; NoName stands for its value.
Init ==
  /\ source \in [Moves -> Names \cup {NoName}]
  /\ destination \in [Moves -> Names \cup {NoName}]
  /\ env = [n \in Names |-> n]
  /\ delivered = {}
  /\ done = FALSE

Deliver(i) ==
  /\ ~done /\ i \notin delivered
  /\ env' = [n \in Names |-> IF n = destination[i] THEN source[i] ELSE env[n]]
  /\ delivered' = delivered \cup {i}
  /\ UNCHANGED <<source, destination, done>>

Return ==
  /\ ~done /\ delivered = Moves
  /\ done' = TRUE
  /\ UNCHANGED <<source, destination, env, delivered>>

Next == Return \/ \E i \in Moves : Deliver(i)

Spec == Init /\ [][Next]_vars
=============================================================================
