------------------------------ MODULE Dataflow ------------------------------
(***************************************************************************)
(* run_backward_dataflow: sweeps over the blocks from the last to the      *)
(* first, updating live_out and live_in in place, until a whole sweep      *)
(* changes nothing.  A BitSet is the set of its members.                   *)
(***************************************************************************)
EXTENDS Integers

CONSTANTS NumBlocks, Values

ASSUME NumBlocksAssumption == NumBlocks \in Nat \ {0}

Block == 1 .. NumBlocks

VARIABLES
  successors, gen, kill,     \* the CFG and the block summaries
  live_in, live_out,
  reverse_index,             \* the sweep is about to visit this block
  changed,
  finished

inputs == <<successors, gen, kill>>
flow_vars == <<inputs, live_in, live_out, reverse_index, changed, finished>>

BlockSets == [Block -> SUBSET Values]

FlowTypeOK ==
  /\ successors \in [Block -> SUBSET Block]
  /\ gen \in BlockSets /\ kill \in BlockSets
  /\ live_in \in BlockSets /\ live_out \in BlockSets
  /\ reverse_index \in 0 .. NumBlocks
  /\ changed \in BOOLEAN
  /\ finished \in BOOLEAN

FlowStart ==
  /\ live_in = [b \in Block |-> {}]
  /\ live_out = [b \in Block |-> {}]
  /\ reverse_index = NumBlocks
  /\ changed = FALSE
  /\ finished = FALSE

FlowInit ==
  /\ successors \in [Block -> SUBSET Block]
  /\ gen \in BlockSets /\ kill \in BlockSets
  /\ FlowStart

-----------------------------------------------------------------------------
NextLiveOut(b) == UNION {live_in[s] : s \in successors[b]}

\* assign_gen_union_out_minus_kill.
Transfer(b, out) == gen[b] \cup (out \ kill[b])

VisitBlock_ForgetsIn ==
  LET b == reverse_index
      out == NextLiveOut(b)
      in == Transfer(b, out)
  IN  /\ reverse_index > 0
      /\ live_out' = [live_out EXCEPT ![b] = out]
      /\ live_in' = [live_in EXCEPT ![b] = in]
      /\ changed' = (live_out[b] # out)
      /\ reverse_index' = reverse_index - 1
      /\ UNCHANGED <<inputs, finished>>

VisitBlock_IgnoresKill ==
  LET b == reverse_index
      out == NextLiveOut(b)
      in == gen[b] \cup out
  IN  /\ reverse_index > 0
      /\ live_out' = [live_out EXCEPT ![b] = out]
      /\ live_in' = [live_in EXCEPT ![b] = in]
      /\ changed' = (changed \/ live_out[b] # out \/ live_in[b] # in)
      /\ reverse_index' = reverse_index - 1
      /\ UNCHANGED <<inputs, finished>>

\* The body of the sweep for one block.
VisitBlock ==
  LET b == reverse_index
      out == NextLiveOut(b)
      in == Transfer(b, out)
  IN  /\ reverse_index > 0
      /\ live_out' = [live_out EXCEPT ![b] = out]
      /\ live_in' = [live_in EXCEPT ![b] = in]
      /\ changed' = (changed \/ live_out[b] # out \/ live_in[b] # in)
      /\ reverse_index' = reverse_index - 1
      /\ UNCHANGED <<inputs, finished>>

SweepAgain_Always ==
  /\ reverse_index = 0 /\ ~finished
  /\ reverse_index' = NumBlocks
  /\ changed' = FALSE
  /\ UNCHANGED <<inputs, live_in, live_out, finished>>

SweepAgain_StartsOver ==
  /\ reverse_index = 0 /\ ~finished
  /\ changed
  /\ reverse_index' = NumBlocks
  /\ changed' = FALSE
  /\ live_in' = [b \in Block |-> {}]
  /\ UNCHANGED <<inputs, live_out, finished>>

\* while (changed): another sweep.
SweepAgain ==
  /\ reverse_index = 0 /\ ~finished
  /\ changed
  /\ reverse_index' = NumBlocks
  /\ changed' = FALSE
  /\ UNCHANGED <<inputs, live_in, live_out, finished>>

Finish ==
  /\ reverse_index = 0 /\ ~finished
  /\ ~changed
  /\ finished' = TRUE
  /\ UNCHANGED <<inputs, live_in, live_out, reverse_index, changed>>

FlowNext == VisitBlock \/ SweepAgain \/ Finish

FlowSpec == FlowInit /\ [][FlowNext]_flow_vars

-----------------------------------------------------------------------------
(***************************************************************************)
(* Properties                                                              *)
(***************************************************************************)

Solves(b) == /\ live_out[b] = NextLiveOut(b)
             /\ live_in[b] = Transfer(b, live_out[b])

\* The sweep that reports no change has solved the liveness equations of
\* every block, although it updated the sets in place while it went.
FinishedIsSolution == finished => \A b \in Block : Solves(b)

\* sol is at least as large as what the equations ask of it.
Closed(sol) ==
  \A b \in Block : Transfer(b, UNION {sol[s] : s \in successors[b]}) \subseteq sol[b]

\* Nothing is ever reported live that some solution of the equations does not
\* contain: the result is the least solution, with no spurious liveness.
BelowEverySolution ==
  \A sol \in BlockSets :
    Closed(sol) => \A b \in Block : live_in[b] \subseteq sol[b]

\* A value once live at a block stays live there: the sets only grow, which
\* bounds the number of sweeps by the number of bits.
LiveSetsGrow ==
  [][\A b \in Block : /\ live_in[b] \subseteq live_in'[b]
                      /\ live_out[b] \subseteq live_out'[b]]_flow_vars

\* The loop ends.
Terminates == <>finished

-----------------------------------------------------------------------------
(***************************************************************************)
(* The inductive invariant.                                                *)
(***************************************************************************)

\* As long as a sweep has changed nothing, the blocks it has been over are
\* solved, and nothing has been changed once the loop is left.
VisitedAreSolved ==
  /\ ~changed => \A b \in Block : b > reverse_index => Solves(b)
  /\ finished => ~changed /\ reverse_index = 0

\* What a block holds never exceeds what its next visit will compute.
VisitsNeverShrink ==
  \A b \in Block : /\ live_out[b] \subseteq NextLiveOut(b)
                   /\ live_in[b] \subseteq Transfer(b, NextLiveOut(b))

\* The parts together.
FlowIInv == FlowTypeOK /\ VisitedAreSolved /\ VisitsNeverShrink /\ BelowEverySolution
=============================================================================
