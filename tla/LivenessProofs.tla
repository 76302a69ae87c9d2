--------------------------- MODULE LivenessProofs ---------------------------
(***************************************************************************)
(* The block sets of run_liveness are the path-liveness of the program and *)
(* its intervals cover every point a value is live at, for every function  *)
(* whose entry block is no branch target: any number of blocks, any        *)
(* instructions, in SSA form or not.                                       *)
(* run_backward_dataflow, which it calls, computes the least solution of   *)
(* the liveness equations on every graph.                                  *)
(***************************************************************************)
EXTENDS Liveness, TLAPS, WellFoundedInduction

-----------------------------------------------------------------------------
\* Every nonempty set of naturals has a least element.
LEMMA LeastOf ==
  ASSUME NEW T \in SUBSET Nat, T # {}
  PROVE  \E m \in T : \A y \in T : m <= y
<1>1. PICK m \in T : \A y \in T : <<y, m>> \notin OpToRel(<, Nat)
  BY Zenon, NatLessThanWellFounded, WFMin
<1>2. \A y \in T : ~(y < m)
  BY <1>1, Zenon DEF OpToRel
<1> QED BY <1>2

\* Every nonempty bounded set of naturals has a greatest element.
LEMMA GreatestOf ==
  ASSUME NEW T \in SUBSET Nat, T # {}, NEW u \in Nat, \A y \in T : y <= u
  PROVE  \E m \in T : \A y \in T : y <= m
<1> DEFINE B == {k \in Nat : \A y \in T : y <= k}
<1>1. PICK k \in B : \A l \in B : k <= l
  BY Zenon, LeastOf
<1>2. CASE k \in T
  BY Zenon, <1>2
<1>3. CASE k \notin T
  <2>1. \A y \in T : y <= k - 1
    BY <1>3
  <2>2. k - 1 \in Nat
    <3>1. PICK y \in T : TRUE
      BY Zenon
    <3> QED BY <2>1, <3>1
  <2> QED BY <1>1, <2>1, <2>2
<1> QED BY Zenon, <1>2, <1>3

\* A position of a block, and the one after it.
LEMMA PositionFacts ==
  ASSUME IsFunction, NEW b \in Block
  PROVE  /\ Len(insts[b]) \in Nat
         /\ insts[b] \in Seq(Inst)
         /\ 1 \in Positions(b) /\ Len(insts[b]) + 1 \in Positions(b)
         /\ \A i \in Positions(b) :
              /\ i \in Nat \ {0}
              /\ i <= Len(insts[b]) => i + 1 \in Positions(b) /\ insts[b][i] \in Inst
              /\ ~(i <= Len(insts[b])) => i = Len(insts[b]) + 1
<1>1. insts[b] \in Seq(Inst)
  BY Zenon DEF IsFunction
<1>2. Len(insts[b]) \in Nat
  BY <1>1
<1> QED BY <1>1, <1>2 DEF Positions

\* Comparing points.
LEMMA PointsAreOrdered ==
  ASSUME NEW x \in Int, NEW y \in Int, NEW z \in Int, x <= y, y <= z
  PROVE  x <= z
OBVIOUS

\* The points of a block lie one after the other from its first to its
\* terminator's, and splitting a range of positions.
LEMMA PointFacts ==
  ASSUME TypeOK, NEW b \in Block, NEW i \in Positions(b)
  PROVE  /\ PointOf(b, i) \in Int /\ start_point[b] \in Int /\ Len(insts[b]) \in Int
         /\ 0 <= PointOf(b, i) /\ start_point[b] <= PointOf(b, i)
         /\ start_point[b] + Len(insts[b]) \in Int
         /\ PointOf(b, i) <= start_point[b] + Len(insts[b])
         /\ PointOf(b, i + 1) = PointOf(b, i) + 1
         /\ \A k \in 1 .. i - 1 : k \in Positions(b) /\ PointOf(b, k) <= PointOf(b, i)
         /\ \A j \in Positions(b) : i <= j =>
              /\ PointOf(b, i) <= PointOf(b, j)
              /\ \A k \in 1 .. j - 1 : k \in 1 .. i - 1 \/ k \in i .. j - 1
<1>1. start_point[b] \in Nat /\ Len(insts[b]) \in Nat
  BY PositionFacts DEF TypeOK
<1>2. i \in Nat /\ 1 <= i /\ i <= Len(insts[b]) + 1
  BY <1>1 DEF Positions
<1>3. /\ PointOf(b, i) \in Int /\ start_point[b] \in Int /\ Len(insts[b]) \in Int
      /\ 0 <= PointOf(b, i) /\ start_point[b] <= PointOf(b, i)
      /\ start_point[b] + Len(insts[b]) \in Int
      /\ PointOf(b, i) <= start_point[b] + Len(insts[b])
      /\ PointOf(b, i + 1) = PointOf(b, i) + 1
  BY <1>1, <1>2 DEF PointOf
<1>4. \A k \in 1 .. i - 1 : k \in Positions(b) /\ PointOf(b, k) <= PointOf(b, i)
  BY <1>1, <1>2 DEF PointOf, Positions
<1>5. ASSUME NEW j \in Positions(b), i <= j
      PROVE  /\ PointOf(b, i) <= PointOf(b, j)
             /\ \A k \in 1 .. j - 1 : k \in 1 .. i - 1 \/ k \in i .. j - 1
  <2>1. j \in Nat
    BY DEF Positions
  <2> QED BY <1>1, <1>2, <1>5, <2>1 DEF PointOf
<1> QED BY Zenon, <1>3, <1>4, <1>5

\* What the nodes of the program are and what LiveBefore holds.
LEMMA LiveBeforeIsLeast ==
  ASSUME NEW v
  PROVE  /\ \A b \in Block : \A i \in Positions(b) :
              Reads(v, b, i) \/ (~Writes(v, b, i) /\ Following(b, i) \cap LiveBefore(v) # {})
              => <<b, i>> \in LiveBefore(v)
         /\ \A M \in SUBSET Node :
              (\A b \in Block : \A i \in Positions(b) :
                 Reads(v, b, i) \/ (~Writes(v, b, i) /\ Following(b, i) \cap M # {})
                 => <<b, i>> \in M)
              => LiveBefore(v) \subseteq M
         /\ LiveBefore(v) \subseteq Node
<1> DEFINE reads == {n \in Node : Reads(v, n[1], n[2])}
           passes == {n \in Node : ~Writes(v, n[1], n[2])}
           closed == {L \in SUBSET Node :
                        /\ reads \subseteq L
                        /\ \A n \in passes \ L : Following(n[1], n[2]) \cap L = {}}
           live == {n \in Node : \A L \in closed : n \in L}
<1>1. LiveBefore(v) = live
  BY Zenon DEF LiveBefore
<1>2. \A n \in Node : \E b \in Block : \E i \in Positions(b) : n = <<b, i>>
  BY Zenon DEF Node
<1>3. \A b \in Block : \A i \in Positions(b) :
        <<b, i>> \in Node /\ <<b, i>>[1] = b /\ <<b, i>>[2] = i
  BY DEF Node
<1>4. ASSUME NEW b \in Block, NEW i \in Positions(b),
             Reads(v, b, i) \/ (~Writes(v, b, i) /\ Following(b, i) \cap live # {})
      PROVE  <<b, i>> \in live
  <2> SUFFICES ASSUME NEW L \in closed PROVE <<b, i>> \in L
    BY Zenon, <1>3
  <2>1. CASE Reads(v, b, i)
    BY Zenon, <1>3, <2>1
  <2>2. CASE ~Writes(v, b, i) /\ Following(b, i) \cap live # {}
    <3>1. Following(b, i) \cap L # {}
      BY Zenon, <2>2
    <3>2. <<b, i>> \in passes /\ Following(<<b, i>>[1], <<b, i>>[2]) = Following(b, i)
      BY Zenon, <1>3, <2>2
    <3> QED BY Zenon, <3>1, <3>2
  <2> QED BY Zenon, <1>4, <2>1, <2>2
<1>5. ASSUME NEW M \in SUBSET Node,
             \A b \in Block : \A i \in Positions(b) :
               Reads(v, b, i) \/ (~Writes(v, b, i) /\ Following(b, i) \cap M # {})
               => <<b, i>> \in M
      PROVE  live \subseteq M
  <2>1. ASSUME NEW n \in Node
        PROVE  Reads(v, n[1], n[2]) \/ (~Writes(v, n[1], n[2]) /\ Following(n[1], n[2]) \cap M # {})
               => n \in M
    <3>1. PICK b \in Block : \E i \in Positions(b) : n = <<b, i>>
      BY Zenon, <1>2
    <3>2. PICK i \in Positions(b) : n = <<b, i>>
      BY Zenon, <3>1
    <3>3. n[1] = b /\ n[2] = i
      BY Zenon, <1>3, <3>2
    <3> QED BY Zenon, <1>5, <3>2, <3>3
  <2>2. reads \subseteq M /\ \A n \in passes \ M : Following(n[1], n[2]) \cap M = {}
    BY Zenon, <2>1
  <2> QED BY Zenon, <2>2
<1> QED BY Zenon, <1>1, <1>4, <1>5

\* Inside a block liveness goes backwards over what does not write the value.
LEMMA WalkBack ==
  ASSUME IsFunction, NEW v, NEW b \in Block, NEW j \in Positions(b),
         <<b, j>> \in LiveBefore(v),
         NEW i \in 1 .. j, \A k \in i .. (j - 1) : ~Writes(v, b, k)
  PROVE  <<b, i>> \in LiveBefore(v)
<1> DEFINE T == {d \in Nat : d <= j - i /\ <<b, j - d>> \notin LiveBefore(v)}
<1>1. j \in Nat \ {0} /\ i \in Nat \ {0} /\ i <= j /\ j <= Len(insts[b]) + 1 /\ Len(insts[b]) \in Nat
  BY PositionFacts DEF Positions
<1> SUFFICES ASSUME <<b, i>> \notin LiveBefore(v) PROVE FALSE
  BY Zenon
<1>2. j - i \in T
  BY <1>1
<1>3. PICK d \in T : \A e \in T : d <= e
  BY Zenon, <1>2, LeastOf
<1>4. d # 0
  BY <1>1, <1>3
<1>5. d - 1 \in Nat /\ d - 1 <= j - i /\ d - 1 \notin T /\ j - (d - 1) = (j - d) + 1
  BY <1>1, <1>3, <1>4
<1>6. <<b, (j - d) + 1>> \in LiveBefore(v)
  BY Zenon, <1>5
<1>7. j - d \in i .. (j - 1) /\ j - d \in Positions(b) /\ j - d <= Len(insts[b])
  BY <1>1, <1>3, <1>4 DEF Positions
<1>8. Following(b, j - d) = {<<b, (j - d) + 1>>}
  BY Zenon, <1>7 DEF Following
<1>9. <<b, j - d>> \in LiveBefore(v)
  <2>1. Following(b, j - d) \cap LiveBefore(v) # {} /\ ~Writes(v, b, j - d)
    BY Zenon, <1>6, <1>7, <1>8
  <2> QED BY Zenon, <1>7, <2>1, LiveBeforeIsLeast
<1> QED BY Zenon, <1>3, <1>9

-----------------------------------------------------------------------------
(***************************************************************************)
(* The dataflow: run_backward_dataflow computes the least solution of the  *)
(* liveness equations, for every control-flow graph, every set of values   *)
(* and every gen and kill, not only those that run_liveness gives it.      *)
(***************************************************************************)

\* The index a sweep starts at is a legal one.
LEMMA SweepStartsInRange == NumBlocks \in 0 .. NumBlocks
BY NumBlocksAssumption

\* The transfer function of a block is monotone.
LEMMA TransferIsMonotone ==
  ASSUME NEW b \in Block, NEW X, NEW Y, X \subseteq Y
  PROVE  Transfer(b, X) \subseteq Transfer(b, Y)
BY DEF Transfer

\* A visit at b keeps every type.
LEMMA VisitKeepsType ==
  ASSUME FlowTypeOK, VisitBlock
  PROVE  FlowTypeOK' /\ reverse_index \in Block
<1>1. reverse_index \in Block /\ reverse_index' \in 0 .. NumBlocks
  BY NumBlocksAssumption DEF FlowTypeOK, VisitBlock, Block
<1>2. NextLiveOut(reverse_index) \in SUBSET Values
  BY <1>1 DEF NextLiveOut, FlowTypeOK, BlockSets
<1>3. Transfer(reverse_index, NextLiveOut(reverse_index)) \in SUBSET Values
  BY <1>1, <1>2 DEF Transfer, FlowTypeOK, BlockSets
<1>4. live_out' \in BlockSets /\ live_in' \in BlockSets
  BY <1>2, <1>3, Zenon DEF VisitBlock, FlowTypeOK, BlockSets
<1>5. changed' \in BOOLEAN
  BY Zenon DEF VisitBlock, FlowTypeOK
<1> QED BY <1>1, <1>4, <1>5 DEF VisitBlock, FlowTypeOK, inputs

\* What a visit does to the sets of each block.
LEMMA VisitEffect ==
  ASSUME FlowIInv, VisitBlock
  PROVE  /\ live_out'[reverse_index] = NextLiveOut(reverse_index)
         /\ live_in'[reverse_index]
              = Transfer(reverse_index, NextLiveOut(reverse_index))
         /\ \A b \in Block : b # reverse_index =>
              live_out'[b] = live_out[b] /\ live_in'[b] = live_in[b]
         /\ \A b \in Block :
              live_in[b] \subseteq live_in'[b] /\ live_out[b] \subseteq live_out'[b]
         /\ \A b \in Block : NextLiveOut(b) \subseteq NextLiveOut(b)'
<1>1. reverse_index \in Block
  BY VisitKeepsType DEF FlowIInv
<1>2. /\ live_out'[reverse_index] = NextLiveOut(reverse_index)
      /\ live_in'[reverse_index] = Transfer(reverse_index, NextLiveOut(reverse_index))
      /\ \A b \in Block : b # reverse_index =>
           live_out'[b] = live_out[b] /\ live_in'[b] = live_in[b]
  BY <1>1 DEF VisitBlock, FlowIInv, FlowTypeOK, BlockSets
<1>3. \A b \in Block :
        live_in[b] \subseteq live_in'[b] /\ live_out[b] \subseteq live_out'[b]
  BY <1>1, <1>2 DEF FlowIInv, VisitsNeverShrink
<1>4. ASSUME NEW b \in Block PROVE NextLiveOut(b) \subseteq NextLiveOut(b)'
  <2>1. successors'[b] = successors[b] /\ successors[b] \subseteq Block
    BY DEF VisitBlock, inputs, FlowIInv, FlowTypeOK
  <2> QED BY <2>1, <1>3 DEF NextLiveOut
<1> QED BY <1>2, <1>3, <1>4

\* Initially the sets are empty and nothing has been visited.
LEMMA FlowInitEstablishesIInv == FlowInit => FlowIInv
<1> SUFFICES ASSUME FlowInit PROVE FlowIInv
  OBVIOUS
<1>1. FlowTypeOK
  <2>1. live_in \in BlockSets /\ live_out \in BlockSets
    BY DEF FlowInit, FlowStart, BlockSets
  <2> QED BY <2>1, SweepStartsInRange, Zenon DEF FlowInit, FlowStart, FlowTypeOK
<1>2. VisitedAreSolved
  <2>1. \A b \in Block : ~(b > NumBlocks)
    BY NumBlocksAssumption DEF Block
  <2>2. reverse_index = NumBlocks /\ ~finished
    BY DEF FlowInit, FlowStart
  <2> QED BY <2>1, <2>2 DEF VisitedAreSolved
<1>3. VisitsNeverShrink
  BY DEF FlowInit, FlowStart, VisitsNeverShrink
<1>4. BelowEverySolution
  BY DEF FlowInit, FlowStart, BelowEverySolution
<1> QED BY <1>1, <1>2, <1>3, <1>4 DEF FlowIInv

\* One visit keeps the invariant.
LEMMA VisitKeepsIInv ==
  ASSUME FlowIInv, VisitBlock
  PROVE  FlowIInv'
<1>0. /\ reverse_index \in Block /\ FlowTypeOK'
      /\ successors' = successors /\ gen' = gen /\ kill' = kill /\ finished' = finished
      /\ reverse_index' = reverse_index - 1
  BY VisitKeepsType DEF FlowIInv, VisitBlock, inputs
<1>1. \A b \in Block : \A X : Transfer(b, X)' = Transfer(b, X')
  BY <1>0 DEF Transfer
<1>2. VisitsNeverShrink'
  <2> SUFFICES ASSUME NEW b \in Block
               PROVE  /\ live_out'[b] \subseteq NextLiveOut(b)'
                      /\ live_in'[b] \subseteq Transfer(b, NextLiveOut(b))'
    BY DEF VisitsNeverShrink
  <2>1. NextLiveOut(b) \subseteq NextLiveOut(b)'
    BY VisitEffect
  <2>2. Transfer(b, NextLiveOut(b)) \subseteq Transfer(b, NextLiveOut(b))'
    BY <1>0, <2>1 DEF Transfer
  <2>3. CASE b = reverse_index
    BY <2>1, <2>2, <2>3, VisitEffect
  <2>4. CASE b # reverse_index
    BY <2>1, <2>2, <2>4, VisitEffect DEF FlowIInv, VisitsNeverShrink
  <2> QED BY <2>3, <2>4
<1>3. BelowEverySolution'
  <2> SUFFICES ASSUME NEW sol \in BlockSets, Closed(sol)', NEW b \in Block
               PROVE  live_in'[b] \subseteq sol[b]
    BY DEF BelowEverySolution, BlockSets
  <2>1. Closed(sol)
    BY <1>0 DEF Closed, Transfer
  <2>2. \A c \in Block : live_in[c] \subseteq sol[c]
    BY <2>1 DEF FlowIInv, BelowEverySolution
  <2>3. CASE b # reverse_index
    BY <2>2, <2>3, VisitEffect
  <2>4. CASE b = reverse_index
    <3>1. successors[b] \subseteq Block
      BY DEF FlowIInv, FlowTypeOK
    <3>2. NextLiveOut(b) \subseteq UNION {sol[s] : s \in successors[b]}
      BY <2>2, <3>1 DEF NextLiveOut
    <3>3. Transfer(b, NextLiveOut(b))
            \subseteq Transfer(b, UNION {sol[s] : s \in successors[b]})
      BY <3>2, TransferIsMonotone
    <3>4. Transfer(b, UNION {sol[s] : s \in successors[b]}) \subseteq sol[b]
      BY <2>1 DEF Closed
    <3> QED BY <2>4, <3>3, <3>4, VisitEffect, Zenon
  <2> QED BY <2>3, <2>4
<1>4. VisitedAreSolved'
  <2>1. ~finished'
    BY <1>0, NumBlocksAssumption DEF FlowIInv, VisitedAreSolved, Block
  <2>2. ASSUME ~changed', NEW b \in Block, b > reverse_index'
        PROVE  Solves(b)'
    <3>1. /\ ~changed
          /\ live_out[reverse_index] = NextLiveOut(reverse_index)
          /\ live_in[reverse_index]
               = Transfer(reverse_index, NextLiveOut(reverse_index))
      BY <2>2, Zenon DEF VisitBlock, FlowIInv, FlowTypeOK
    <3>2. live_out' = live_out /\ live_in' = live_in
      BY <3>1, <1>0 DEF VisitBlock, FlowIInv, FlowTypeOK, BlockSets
    <3>3. Solves(b)
      <4>1. CASE b = reverse_index
        BY <3>1, <4>1 DEF Solves
      <4>2. CASE b > reverse_index
        BY <3>1, <4>2 DEF FlowIInv, VisitedAreSolved
      <4> QED BY <4>1, <4>2, <2>2, <1>0, NumBlocksAssumption DEF Block
    <3> QED BY <3>2, <3>3, <1>0 DEF Solves, NextLiveOut, Transfer
  <2> QED BY <2>1, <2>2 DEF VisitedAreSolved
<1> QED BY <1>0, <1>2, <1>3, <1>4 DEF FlowIInv

\* Starting another sweep, leaving the loop and stuttering keep it too.
LEMMA FlowNextKeepsIInv == FlowIInv /\ [FlowNext]_flow_vars => FlowIInv'
<1> SUFFICES ASSUME FlowIInv, [FlowNext]_flow_vars PROVE FlowIInv'
  OBVIOUS
<1>1. CASE VisitBlock
  BY <1>1, VisitKeepsIInv
<1>2. ASSUME UNCHANGED <<successors, gen, kill, live_in, live_out>>
      PROVE  /\ VisitsNeverShrink' /\ BelowEverySolution'
             /\ \A b \in Block : Solves(b)' <=> Solves(b)
  <2>1. VisitsNeverShrink'
    BY <1>2 DEF FlowIInv, VisitsNeverShrink, NextLiveOut, Transfer
  <2>2. BelowEverySolution'
    BY <1>2 DEF FlowIInv, BelowEverySolution, Closed, Transfer, BlockSets
  <2>3. \A b \in Block : Solves(b)' <=> Solves(b)
    BY <1>2 DEF Solves, NextLiveOut, Transfer
  <2> QED BY <2>1, <2>2, <2>3
<1>3. CASE SweepAgain
  <2>1. FlowTypeOK'
    BY <1>3, SweepStartsInRange, Zenon DEF SweepAgain, FlowIInv, FlowTypeOK, inputs
  <2>2. VisitedAreSolved'
    <3>1. \A b \in Block : ~(b > NumBlocks)
      BY NumBlocksAssumption DEF Block
    <3>2. reverse_index' = NumBlocks /\ ~finished'
      BY <1>3 DEF SweepAgain
    <3> QED BY <3>1, <3>2 DEF VisitedAreSolved
  <2> QED BY <1>2, <1>3, <2>1, <2>2 DEF SweepAgain, inputs, FlowIInv
<1>4. CASE Finish
  <2>1. FlowTypeOK'
    BY <1>4 DEF Finish, FlowIInv, FlowTypeOK, inputs
  <2>2. VisitedAreSolved'
    BY <1>2, <1>4 DEF Finish, inputs, FlowIInv, VisitedAreSolved
  <2> QED BY <1>2, <1>4, <2>1, <2>2 DEF Finish, inputs, FlowIInv
<1>5. CASE UNCHANGED flow_vars
  <2>1. FlowTypeOK'
    BY <1>5 DEF flow_vars, FlowIInv, FlowTypeOK, inputs
  <2>2. VisitedAreSolved'
    BY <1>2, <1>5 DEF flow_vars, inputs, FlowIInv, VisitedAreSolved
  <2> QED BY <1>2, <1>5, <2>1, <2>2 DEF flow_vars, inputs, FlowIInv
<1> QED BY <1>1, <1>3, <1>4, <1>5 DEF FlowNext

\* Empty live sets satisfy the dataflow's invariant whatever gen and kill are.
LEMMA FlowStarts == FlowTypeOK /\ FlowStart => FlowIInv
BY FlowInitEstablishesIInv, Zenon DEF FlowTypeOK, FlowInit

\* The same of the state a step leads to.
LEMMA FlowStartsNext == FlowTypeOK' /\ FlowStart' => FlowIInv'
BY FlowStarts, PTL

\* A step of the dataflow keeps its invariant.
LEMMA FlowSteps == FlowIInv /\ FlowNext => FlowIInv'
BY FlowNextKeepsIInv, Zenon

\* The invariant holds of every reachable state of run_backward_dataflow.
THEOREM FlowIInvHolds == FlowSpec => []FlowIInv
BY FlowInitEstablishesIInv, FlowNextKeepsIInv, PTL DEF FlowSpec

\* When the loop is left, the in-place sweeps have solved the equations.
THEOREM DataflowSolvesEquations == FlowSpec => []FinishedIsSolution
<1>1. FlowIInv => FinishedIsSolution
  BY DEF FlowIInv, VisitedAreSolved, FinishedIsSolution, Block
<1> QED BY <1>1, FlowIInvHolds, PTL

\* Nothing is ever live that some solution leaves out: with the theorem
\* above, the result is the least solution.
THEOREM DataflowIsLeast == FlowSpec => []BelowEverySolution
<1>1. FlowIInv => BelowEverySolution
  BY DEF FlowIInv
<1> QED BY <1>1, FlowIInvHolds, PTL

\* No step of run_backward_dataflow takes a value out of a live set.
THEOREM DataflowIsMonotone == FlowSpec => LiveSetsGrow
<1>1. ASSUME FlowIInv, [FlowNext]_flow_vars
      PROVE  [\A b \in Block : /\ live_in[b] \subseteq live_in'[b]
                               /\ live_out[b] \subseteq live_out'[b]]_flow_vars
  <2>1. CASE VisitBlock
    BY <1>1, <2>1, VisitEffect
  <2>2. CASE SweepAgain
    BY <2>2 DEF SweepAgain
  <2>3. CASE Finish
    BY <2>3 DEF Finish
  <2>4. CASE UNCHANGED flow_vars
    BY <2>4
  <2> QED BY <1>1, <2>1, <2>2, <2>3, <2>4 DEF FlowNext
<1> QED BY <1>1, FlowIInvHolds, PTL DEF FlowSpec, LiveSetsGrow

-----------------------------------------------------------------------------
(***************************************************************************)
(* Numbering.                                                              *)
(***************************************************************************)

\* What the analysis says of the function changes only with the function.
LEMMA FunctionFixed ==
  ASSUME UNCHANGED function
  PROVE  /\ IsFunction => IsFunction'
         /\ EntryHasNoPredecessor => EntryHasNoPredecessor'
         /\ \A b : Positions(b)' = Positions(b)
         /\ \A b, i : IsCall(b, i)' <=> IsCall(b, i)
         /\ \A v, b : DefinedAtEntry(v, b)' <=> DefinedAtEntry(v, b)
         /\ \A v, b, i : /\ Reads(v, b, i)' <=> Reads(v, b, i)
                         /\ Writes(v, b, i)' <=> Writes(v, b, i)
                         /\ Exposed(v, b, i)' <=> Exposed(v, b, i)
<1>1. insts' = insts /\ terminator_uses' = terminator_uses /\ parameters' = parameters
      /\ successors' = successors
  BY Zenon DEF function
<1>2. \A v, b, i : /\ Reads(v, b, i)' <=> Reads(v, b, i)
                   /\ Writes(v, b, i)' <=> Writes(v, b, i)
  BY <1>1 DEF Reads, Writes
<1>3. \A v, b, i : Exposed(v, b, i)' <=> Exposed(v, b, i)
  BY <1>2, Zenon DEF Exposed
<1>4. (IsFunction => IsFunction') /\ (EntryHasNoPredecessor => EntryHasNoPredecessor')
  BY Zenon, <1>1 DEF IsFunction, EntryHasNoPredecessor
<1> QED BY Zenon, <1>1, <1>2, <1>3, <1>4 DEF Positions, IsCall, DefinedAtEntry

\* What numbering a position means for the invariant, shared by instructions
\* and terminators.
Recorded(uses, defs) ==
  /\ phase = "points"
  /\ uses = {v \in Values : Reads(v, block, position)}
  /\ defs = {v \in Values : Writes(v, block, position)}
  /\ record_point_activity(uses, defs)
  /\ UNCHANGED function
  /\ total_points' = total_points + 1
  /\ call_points' = IF IsCall(block, position) THEN call_points \cup {total_points} ELSE call_points
  /\ \A b \in Block : b <= block => start_point'[b] = start_point[b]
  /\ \A b \in Block : \A i \in Positions(b) :
       Numbered(b, i)' <=> Numbered(b, i) \/ (b = block /\ i = position)

\* The points already given, and the point being given, are below the next.
LEMMA RecordKeepsPoints ==
  ASSUME IInv, NEW uses, NEW defs, Recorded(uses, defs)
  PROVE  /\ total_points = PointOf(block, position)
         /\ \A b \in Block : \A i \in Positions(b) : Numbered(b, i)' =>
              PointOf(b, i)' = PointOf(b, i) /\ PointOf(b, i)' < total_points'
<1>1. /\ block \in Nat /\ position \in Nat /\ total_points \in Nat /\ start_point \in [Block -> Nat]
      /\ phase = "points" /\ block \in Block /\ position \in Positions(block)
      /\ total_points = PointOf(block, position)
      /\ total_points' = total_points + 1
  <2>1. /\ total_points \in Nat /\ start_point \in [Block -> Nat]
        /\ phase = "points" /\ block \in Block /\ position \in Positions(block)
        /\ total_points = PointOf(block, position)
        /\ total_points' = total_points + 1
    BY Zenon DEF IInv, TypeOK, LayoutInv, Recorded
  <2> QED BY <2>1, NumBlocksAssumption DEF Block, Positions
<1>2. ASSUME NEW b \in Block, NEW i \in Positions(b), Numbered(b, i)'
      PROVE  PointOf(b, i)' = PointOf(b, i) /\ PointOf(b, i)' < total_points'
  <2>1. Numbered(b, i) \/ (b = block /\ i = position)
    BY Zenon, <1>2 DEF Recorded
  <2>2. b <= block
    BY <1>1, <2>1, NumBlocksAssumption DEF Numbered, Block
  <2>3. PointOf(b, i)' = PointOf(b, i)
    BY Zenon, <2>2 DEF Recorded, PointOf
  <2>4. PointOf(b, i) \in Int
    BY Zenon, PointFacts DEF IInv
  <2>5. CASE Numbered(b, i)
    <3>1. PointOf(b, i) < total_points
      BY Zenon, <2>5 DEF IInv, LayoutInv
    <3> QED BY <3>1, <2>3, <2>4, <1>1
  <2>6. CASE b = block /\ i = position
    BY <2>6, <1>1, <2>3
  <2> QED BY Zenon, <2>1, <2>5, <2>6
<1> QED BY Zenon, <1>1, <1>2

\* How recording a position moves a value's interval.
LEMMA RecordMovesEnds ==
  ASSUME IInv, NEW uses, NEW defs, Recorded(uses, defs), NEW v \in Values
  PROVE  /\ first_points'[v] \in Nat \cup {NoPoint} /\ last_points'[v] \in Nat
         /\ first_points[v] \in Nat \cup {NoPoint} /\ last_points[v] \in Nat
         /\ first_points[v] # NoPoint => first_points'[v] = first_points[v]
         /\ last_points[v] <= last_points'[v]
         /\ first_points'[v] <= total_points' /\ last_points'[v] <= total_points'
         /\ Reads(v, block, position) \/ Writes(v, block, position) =>
              /\ first_points'[v] # NoPoint
              /\ first_points'[v] <= total_points /\ total_points <= last_points'[v]
<1>1. /\ first_points[v] \in Nat \cup {NoPoint} /\ last_points[v] \in Nat
      /\ first_points[v] <= total_points /\ last_points[v] <= total_points
      /\ total_points \in Nat /\ total_points' = total_points + 1
  BY Zenon DEF IInv, TypeOK, EventInv, Recorded
<1>2. /\ first_points'[v] = IF v \in uses \cup defs /\ first_points[v] = NoPoint
                            THEN total_points ELSE first_points[v]
      /\ last_points'[v] = IF v \in uses \cup defs
                           THEN larger(last_points[v], total_points) ELSE last_points[v]
  BY Zenon DEF Recorded, record_point_activity
<1>3. v \in uses \cup defs <=> Reads(v, block, position) \/ Writes(v, block, position)
  BY Zenon DEF Recorded
<1>4. CASE v \in uses \cup defs
  <2>1. last_points'[v] = larger(last_points[v], total_points)
    BY Zenon, <1>2, <1>4
  <2>2. first_points'[v] = IF first_points[v] = NoPoint THEN total_points ELSE first_points[v]
    BY Zenon, <1>2, <1>4
  <2> QED BY <1>1, <2>1, <2>2 DEF larger, NoPoint
<1>5. CASE v \notin uses \cup defs
  <2>1. last_points'[v] = last_points[v] /\ first_points'[v] = first_points[v]
    BY Zenon, <1>2, <1>5
  <2> QED BY <1>1, <1>3, <1>5, <2>1 DEF NoPoint
<1> QED BY Zenon, <1>4, <1>5

\* Every numbered use, definition and call is inside its value's interval.
LEMMA RecordKeepsEvents ==
  ASSUME IInv, NEW uses, NEW defs, Recorded(uses, defs)
  PROVE  EventInv'
<1>1. \A v \in Values : first_points'[v] <= total_points' /\ last_points'[v] <= total_points'
  BY Zenon, RecordMovesEnds
<1>2. \A v \in parameters' : first_points'[v] = 0
  <2> SUFFICES ASSUME NEW v \in parameters PROVE first_points'[v] = 0
    BY Zenon DEF Recorded, function
  <2>1. v \in Values /\ first_points[v] = 0
    BY Zenon DEF IInv, TypeOK, IsFunction, EventInv
  <2>2. first_points[v] # NoPoint
    BY <2>1 DEF NoPoint
  <2> QED BY Zenon, <2>1, <2>2, RecordMovesEnds
<1>3. ASSUME NEW b \in Block, NEW i \in Positions(b), Numbered(b, i)'
      PROVE  /\ \A v \in Values : Reads(v, b, i)' \/ Writes(v, b, i)' =>
                  /\ first_points'[v] # NoPoint
                  /\ first_points'[v] <= PointOf(b, i)' /\ PointOf(b, i)' <= last_points'[v]
             /\ IsCall(b, i)' => PointOf(b, i)' \in call_points'
  <2>1. Numbered(b, i) \/ (b = block /\ i = position)
    BY Zenon, <1>3 DEF Recorded
  <2>2. PointOf(b, i)' = PointOf(b, i) /\ total_points = PointOf(block, position)
    BY Zenon, <1>3, RecordKeepsPoints
  <2>3. /\ \A v \in Values : Reads(v, b, i)' \/ Writes(v, b, i)' <=> Reads(v, b, i) \/ Writes(v, b, i)
        /\ IsCall(b, i)' <=> IsCall(b, i)
    BY Zenon, FunctionFixed DEF Recorded
  <2>4. PointOf(b, i) \in Int
    BY Zenon, PointFacts DEF IInv
  <2>5. CASE Numbered(b, i)
    <3>1. ASSUME NEW v \in Values, Reads(v, b, i) \/ Writes(v, b, i)
          PROVE  /\ first_points'[v] # NoPoint
                 /\ first_points'[v] <= PointOf(b, i) /\ PointOf(b, i) <= last_points'[v]
      <4>1. /\ first_points[v] # NoPoint
            /\ first_points[v] <= PointOf(b, i) /\ PointOf(b, i) <= last_points[v]
        BY Zenon, <2>5, <3>1 DEF IInv, EventInv
      <4> QED BY <4>1, <2>4, RecordMovesEnds
    <3>2. IsCall(b, i) => PointOf(b, i) \in call_points'
      BY Zenon, <2>5 DEF IInv, EventInv, Recorded
    <3> QED BY Zenon, <3>1, <3>2, <2>2, <2>3
  <2>6. CASE b = block /\ i = position
    <3>1. \A v \in Values : Reads(v, b, i) \/ Writes(v, b, i) =>
            /\ first_points'[v] # NoPoint
            /\ first_points'[v] <= total_points /\ total_points <= last_points'[v]
      BY Zenon, <2>6, RecordMovesEnds
    <3>2. IsCall(b, i) => total_points \in call_points'
      BY Zenon, <2>6 DEF Recorded
    <3>3. PointOf(b, i)' = total_points
      BY Zenon, <2>2, <2>6
    <3> QED BY Zenon, <3>1, <3>2, <3>3, <2>3
  <2> QED BY Zenon, <2>1, <2>5, <2>6
<1>4. \A b \in Block : Positions(b)' = Positions(b)
  BY Zenon, FunctionFixed DEF Recorded
<1> QED BY Zenon, <1>1, <1>2, <1>3, <1>4 DEF EventInv

\* gen and kill go on summarising the numbered part of every block.
LEMMA RecordKeepsSummary ==
  ASSUME IInv, NEW uses, NEW defs, Recorded(uses, defs)
  PROVE  SummaryInv' /\ gen' \in [Block -> SUBSET Values] /\ kill' \in [Block -> SUBSET Values]
<1>1. /\ block \in Block /\ position \in Positions(block) /\ position \in Nat /\ block \in Nat
      /\ gen \in [Block -> SUBSET Values] /\ kill \in [Block -> SUBSET Values]
      /\ phase = "points"
  <2>1. /\ block \in Block /\ position \in Positions(block) /\ phase = "points"
        /\ gen \in [Block -> SUBSET Values] /\ kill \in [Block -> SUBSET Values]
    BY Zenon DEF IInv, TypeOK, FlowTypeOK, BlockSets, Block, Recorded
  <2> QED BY <2>1, NumBlocksAssumption DEF Block, Positions
<1>2. /\ gen' = [gen EXCEPT ![block] = @ \cup (uses \ kill[block])]
      /\ kill' = [kill EXCEPT ![block] = @ \cup defs]
      /\ uses = {v \in Values : Reads(v, block, position)}
      /\ defs = {v \in Values : Writes(v, block, position)}
  BY Zenon DEF Recorded, record_point_activity
<1>3. gen' \in [Block -> SUBSET Values] /\ kill' \in [Block -> SUBSET Values]
  <2>1. uses \in SUBSET Values /\ defs \in SUBSET Values
    BY Zenon, <1>2
  <2> QED BY Zenon, <1>1, <1>2, <2>1
<1>4. ASSUME NEW b \in Block, NEW v \in Values
      PROVE  /\ v \in gen'[b] <=> \/ v \in gen[b]
                                  \/ b = block /\ Reads(v, block, position) /\ v \notin kill[block]
             /\ v \in kill'[b] <=> v \in kill[b] \/ (b = block /\ Writes(v, block, position))
  <2>1. gen'[b] = IF b = block THEN gen[block] \cup (uses \ kill[block]) ELSE gen[b]
    BY Zenon, <1>1, <1>2
  <2>2. kill'[b] = IF b = block THEN kill[block] \cup defs ELSE kill[b]
    BY Zenon, <1>1, <1>2
  <2> QED BY <1>2, <2>1, <2>2
<1>5. ASSUME NEW v \in Values
      PROVE  v \notin kill[block] <=> /\ ~DefinedAtEntry(v, block)
                                      /\ \A k \in 1 .. position - 1 : ~Writes(v, block, k)
  <2>1. \A k : k \in 1 .. position - 1 <=> k \in Positions(block) /\ Numbered(block, k)
    <3>1. Len(insts[block]) \in Nat
      BY Zenon, <1>1, PositionFacts DEF IInv, TypeOK
    <3> QED BY <1>1, <3>1 DEF Positions, Numbered
  <2>2. v \in kill[block] <=> \/ DefinedAtEntry(v, block)
                              \/ \E i \in Positions(block) : Numbered(block, i) /\ Writes(v, block, i)
    BY Zenon, <1>1 DEF IInv, SummaryInv
  <2> QED BY Zenon, <2>1, <2>2
<1>6. ASSUME NEW v \in Values
      PROVE  Reads(v, block, position) /\ v \notin kill[block]
               <=> ~DefinedAtEntry(v, block) /\ Exposed(v, block, position)
  BY Zenon, <1>5 DEF Exposed
<1>7. ASSUME NEW b \in Block, NEW v \in Values
      PROVE  /\ v \in gen'[b] <=> /\ ~DefinedAtEntry(v, b)
                                  /\ \E i \in Positions(b) : Numbered(b, i)' /\ Exposed(v, b, i)
             /\ v \in kill'[b] <=> \/ DefinedAtEntry(v, b)
                                   \/ \E i \in Positions(b) : Numbered(b, i)' /\ Writes(v, b, i)
  <2>1. \A i \in Positions(b) : Numbered(b, i)' <=> Numbered(b, i) \/ (b = block /\ i = position)
    BY Zenon DEF Recorded
  <2>2. v \in gen[b] <=> /\ ~DefinedAtEntry(v, b)
                         /\ \E i \in Positions(b) : Numbered(b, i) /\ Exposed(v, b, i)
    BY Zenon DEF IInv, SummaryInv
  <2>3. v \in kill[b] <=> \/ DefinedAtEntry(v, b)
                          \/ \E i \in Positions(b) : Numbered(b, i) /\ Writes(v, b, i)
    BY Zenon DEF IInv, SummaryInv
  <2>4. (\E i \in Positions(b) : Numbered(b, i)' /\ Exposed(v, b, i))
          <=> \/ \E i \in Positions(b) : Numbered(b, i) /\ Exposed(v, b, i)
              \/ b = block /\ Exposed(v, block, position)
    BY Zenon, <1>1, <2>1
  <2>5. (\E i \in Positions(b) : Numbered(b, i)' /\ Writes(v, b, i))
          <=> \/ \E i \in Positions(b) : Numbered(b, i) /\ Writes(v, b, i)
              \/ b = block /\ Writes(v, block, position)
    BY Zenon, <1>1, <2>1
  <2>6. v \in gen'[b] <=> /\ ~DefinedAtEntry(v, b)
                          /\ \E i \in Positions(b) : Numbered(b, i)' /\ Exposed(v, b, i)
    BY Zenon, <1>4, <1>6, <2>2, <2>4
  <2>7. v \in kill'[b] <=> \/ DefinedAtEntry(v, b)
                           \/ \E i \in Positions(b) : Numbered(b, i)' /\ Writes(v, b, i)
    BY Zenon, <1>4, <2>3, <2>5
  <2> QED BY Zenon, <2>6, <2>7
<1>8. /\ \A b : Positions(b)' = Positions(b)
      /\ \A v, b : DefinedAtEntry(v, b)' <=> DefinedAtEntry(v, b)
      /\ \A v, b, i : Writes(v, b, i)' <=> Writes(v, b, i)
      /\ \A v, b, i : Exposed(v, b, i)' <=> Exposed(v, b, i)
  BY Zenon, FunctionFixed DEF Recorded
<1>9. SummaryInv'
  BY Zenon, <1>7, <1>8 DEF SummaryInv
<1> QED BY Zenon, <1>3, <1>9

\* The types a recorded position leaves behind.
LEMMA RecordKeepsTypes ==
  ASSUME IInv, NEW uses, NEW defs, Recorded(uses, defs)
  PROVE  /\ IsFunction' /\ EntryHasNoPredecessor'
         /\ total_points' \in Nat /\ call_points' \in SUBSET Nat
         /\ first_points' \in [Values -> Nat \cup {NoPoint}] /\ last_points' \in [Values -> Nat]
         /\ def_points' \in [Values -> Nat \cup {NoPoint}] /\ use_points' \in [Values -> SUBSET Nat]
<1>1. IsFunction' /\ EntryHasNoPredecessor'
  BY Zenon, FunctionFixed DEF Recorded, IInv, TypeOK
<1>2. total_points \in Nat /\ total_points' \in Nat /\ call_points' \in SUBSET Nat
  BY DEF Recorded, IInv, TypeOK
<1>3. first_points' \in [Values -> Nat \cup {NoPoint}]
  <2>1. first_points' = [v \in Values |-> first_points'[v]]
    BY Zenon DEF Recorded, record_point_activity
  <2> QED BY Zenon, <2>1, RecordMovesEnds
<1>4. last_points' \in [Values -> Nat]
  <2>1. last_points' = [v \in Values |-> last_points'[v]]
    BY Zenon DEF Recorded, record_point_activity
  <2> QED BY Zenon, <2>1, RecordMovesEnds
<1>5. def_points' \in [Values -> Nat \cup {NoPoint}]
  <2>1. def_points' = [v \in Values |-> IF v \in defs /\ def_points[v] = NoPoint
                                        THEN total_points ELSE def_points[v]]
    BY Zenon DEF Recorded, record_point_activity
  <2> QED BY Zenon, <2>1, <1>2 DEF IInv, TypeOK
<1>6. use_points' \in [Values -> SUBSET Nat]
  <2>1. use_points' = [v \in Values |-> IF v \in uses THEN use_points[v] \cup {total_points}
                                                      ELSE use_points[v]]
    BY Zenon DEF Recorded, record_point_activity
  <2> QED BY Zenon, <2>1, <1>2 DEF IInv, TypeOK
<1> QED BY Zenon, <1>1, <1>2, <1>3, <1>4, <1>5, <1>6

\* The dataflow's variables keep their types while gen and kill are collected.
LEMMA RecordKeepsFlowTypes ==
  ASSUME IInv, NEW uses, NEW defs, Recorded(uses, defs),
         UNCHANGED <<live_in, live_out, reverse_index, changed, finished>>
  PROVE  FlowTypeOK' /\ FlowStart'
<1>1. gen' \in BlockSets /\ kill' \in BlockSets
  BY Zenon, RecordKeepsSummary DEF BlockSets, Block
<1>2. successors' = successors
  BY Zenon DEF Recorded, function
<1>3. FlowTypeOK'
  BY Zenon, <1>1, <1>2 DEF IInv, TypeOK, FlowTypeOK, BlockSets
<1>4. FlowStart
  BY Zenon DEF IInv, FlowInv, Recorded
<1>5. FlowStart'
  BY Zenon, <1>4 DEF FlowStart
<1> QED BY Zenon, <1>3, <1>5

\* Numbering one instruction.
LEMMA InstructionKeepsIInv ==
  ASSUME IInv, NumberInstruction
  PROVE  IInv'
<1> DEFINE inst == insts[block][position]
<1>1. /\ block \in Block /\ position \in Positions(block) /\ position \in Nat /\ block \in Nat
      /\ Len(insts[block]) \in Nat /\ position <= Len(insts[block])
      /\ inst \in Inst /\ phase = "points" /\ total_points \in Nat /\ IsFunction
  <2>1. block \in Block /\ position \in Positions(block) /\ IsFunction /\ total_points \in Nat
    BY Zenon DEF IInv, TypeOK
  <2>2. position <= Len(insts[block]) /\ phase = "points"
    BY Zenon DEF NumberInstruction
  <2> QED BY <2>1, <2>2, PositionFacts, NumBlocksAssumption DEF Block
<1>2. /\ block' = block /\ position' = position + 1 /\ phase' = phase
      /\ start_point' = start_point /\ end_point' = end_point /\ crosses_call' = crosses_call
      /\ insts' = insts /\ total_points' = total_points + 1
      /\ UNCHANGED <<live_in, live_out, reverse_index, changed, finished>>
  BY Zenon DEF NumberInstruction, function
<1>3. Recorded(inst.uses, inst.defs)
  <2>1. inst.uses = {v \in Values : Reads(v, block, position)}
    BY Zenon, <1>1 DEF Reads, Inst
  <2>2. inst.defs = {v \in Values : Writes(v, block, position)}
    BY Zenon, <1>1 DEF Writes, Inst
  <2>3. ASSUME NEW b \in Block, NEW i \in Positions(b)
        PROVE  Numbered(b, i)' <=> Numbered(b, i) \/ (b = block /\ i = position)
    BY <1>1, <1>2 DEF Numbered, Block, Positions
  <2>4. call_points' = IF IsCall(block, position) THEN call_points \cup {total_points} ELSE call_points
    BY Zenon, <1>1 DEF IsCall, NumberInstruction
  <2>5. record_point_activity(inst.uses, inst.defs) /\ UNCHANGED function
    BY Zenon DEF NumberInstruction
  <2> QED BY Zenon, <1>1, <1>2, <2>1, <2>2, <2>3, <2>4, <2>5 DEF Recorded
<1> HIDE DEF inst
<1>4. \A b : Positions(b)' = Positions(b)
  BY Zenon, <1>3, FunctionFixed DEF Recorded
<1>5. LayoutInv'
  <2>1. total_points' = PointOf(block, position)'
    <3>1. total_points = start_point[block] + position - 1 /\ start_point[block] \in Nat
      BY Zenon, <1>1 DEF IInv, TypeOK, LayoutInv, PointOf
    <3> QED BY <3>1, <1>1, <1>2 DEF PointOf
  <2>2. \A b \in Block : (phase # "points" \/ b < block)' => end_point'[b] = start_point'[b] + Len(insts'[b])
    BY Zenon, <1>2 DEF IInv, LayoutInv
  <2>3. \A b \in Block : \A i \in Positions(b) : Numbered(b, i)' => PointOf(b, i)' < total_points'
    BY Zenon, <1>3, RecordKeepsPoints
  <2> QED BY Zenon, <2>1, <2>2, <2>3, <1>4 DEF LayoutInv
<1>6. TypeOK' /\ EntryHasNoPredecessor'
  <2>1. position' \in Positions(block)'
    BY <1>1, <1>2 DEF Positions
  <2>2. block' \in Block /\ start_point' \in [Block -> Nat] /\ end_point' \in [Block -> Nat]
        /\ phase' \in {"points", "dataflow", "intervals", "done"} /\ crosses_call' \in SUBSET Values
    BY Zenon, <1>1, <1>2 DEF IInv, TypeOK
  <2> QED BY Zenon, <2>1, <2>2, <1>2, <1>3, RecordKeepsTypes, RecordKeepsFlowTypes DEF TypeOK
<1>7. FlowInv' /\ PublishedInv'
  BY Zenon, <1>1, <1>2, <1>3, RecordKeepsFlowTypes DEF FlowInv, PublishedInv
<1>8. EventInv' /\ SummaryInv'
  BY Zenon, <1>3, RecordKeepsEvents, RecordKeepsSummary
<1> QED BY Zenon, <1>5, <1>6, <1>7, <1>8 DEF IInv

\* Numbering a terminator, and moving on to the next block or to the dataflow.
LEMMA TerminatorKeepsIInv ==
  ASSUME IInv, NumberTerminator
  PROVE  IInv'
<1> DEFINE uses == terminator_uses[block] \cup collect_phi_predecessor_uses(block)
<1>1. /\ block \in Block /\ position \in Positions(block) /\ position \in Nat /\ block \in Nat
      /\ Len(insts[block]) \in Nat /\ position = Len(insts[block]) + 1
      /\ phase = "points" /\ total_points \in Nat /\ IsFunction
      /\ block <= NumBlocks /\ NumBlocks \in Nat
  <2>1. block \in Block /\ position \in Positions(block) /\ IsFunction /\ total_points \in Nat
    BY Zenon DEF IInv, TypeOK
  <2>2. position = Len(insts[block]) + 1 /\ phase = "points"
    BY Zenon DEF NumberTerminator
  <2> QED BY <2>1, <2>2, PositionFacts, NumBlocksAssumption DEF Block
<1>2. /\ end_point' = [end_point EXCEPT ![block] = total_points]
      /\ crosses_call' = crosses_call /\ call_points' = call_points
      /\ insts' = insts /\ total_points' = total_points + 1
      /\ UNCHANGED <<live_in, live_out, reverse_index, changed, finished>>
      /\ UNCHANGED function /\ record_point_activity(uses, {})
  BY Zenon DEF NumberTerminator, function
<1>3. \/ /\ block < NumBlocks /\ block' = block + 1 /\ position' = 1 /\ phase' = phase
         /\ start_point' = [start_point EXCEPT ![block + 1] = total_points + 1]
      \/ /\ block = NumBlocks /\ phase' = "dataflow"
         /\ block' = block /\ position' = position /\ start_point' = start_point
  BY Zenon DEF NumberTerminator
<1>4. /\ start_point \in [Block -> Nat] /\ end_point \in [Block -> Nat]
      /\ start_point' \in [Block -> Nat]
      /\ \A b \in Block : b <= block => start_point'[b] = start_point[b]
  <2>1. start_point \in [Block -> Nat] /\ end_point \in [Block -> Nat]
    BY Zenon DEF IInv, TypeOK
  <2>2. CASE start_point' = start_point
    BY Zenon, <2>1, <2>2
  <2>3. CASE start_point' = [start_point EXCEPT ![block + 1] = total_points + 1]
    <3>1. \A b \in Block : b <= block => b # block + 1
      BY <1>1 DEF Block
    <3>2. total_points + 1 \in Nat
      BY <1>1
    <3>3. start_point' \in [Block -> Nat]
      BY Zenon, <2>1, <2>3, <3>2
    <3>4. \A b \in Block : b # block + 1 => start_point'[b] = start_point[b]
      BY Zenon, <2>1, <2>3
    <3> QED BY Zenon, <2>1, <3>1, <3>3, <3>4
  <2> QED BY Zenon, <1>3, <2>1, <2>2, <2>3
<1>5. Recorded(uses, {})
  <2>1. uses = {v \in Values : Reads(v, block, position)}
    <3>1. ~(position <= Len(insts[block])) /\ terminator_uses[block] \in SUBSET Values
      BY <1>1 DEF IsFunction
    <3> QED BY Zenon, <3>1 DEF Reads, collect_phi_predecessor_uses
  <2>2. {} = {v \in Values : Writes(v, block, position)}
    BY <1>1 DEF Writes
  <2>3. ASSUME NEW b \in Block, NEW i \in Positions(b)
        PROVE  Numbered(b, i)' <=> Numbered(b, i) \/ (b = block /\ i = position)
    <3>1. b \in Nat /\ i \in Nat /\ b <= NumBlocks /\ i > 0
      BY <1>1 DEF Block, Positions
    <3>2. b = block => (i < position \/ i = position)
      BY <1>1, <3>1 DEF Positions
    <3>3. CASE block < NumBlocks /\ block' = block + 1 /\ position' = 1 /\ phase' = phase
      <4>1. Numbered(b, i)' <=> b < block + 1 \/ (b = block + 1 /\ i < 1)
        BY Zenon, <1>1, <3>3 DEF Numbered
      <4>2. Numbered(b, i) <=> b < block \/ (b = block /\ i < position)
        BY Zenon, <1>1 DEF Numbered
      <4> QED BY <1>1, <3>1, <3>2, <4>1, <4>2
    <3>4. CASE block = NumBlocks /\ phase' = "dataflow"
      <4>1. Numbered(b, i)'
        BY Zenon, <3>4 DEF Numbered
      <4>2. Numbered(b, i) <=> b < block \/ (b = block /\ i < position)
        BY Zenon, <1>1 DEF Numbered
      <4> QED BY <1>1, <3>1, <3>2, <3>4, <4>1, <4>2
    <3> QED BY Zenon, <1>3, <3>3, <3>4
  <2>4. call_points' = IF IsCall(block, position) THEN call_points \cup {total_points} ELSE call_points
    BY <1>1, <1>2 DEF IsCall
  <2> QED BY Zenon, <1>1, <1>2, <1>4, <2>1, <2>2, <2>3, <2>4 DEF Recorded
<1> HIDE DEF uses
<1>6. \A b : Positions(b)' = Positions(b)
  BY Zenon, <1>5, FunctionFixed DEF Recorded
<1>7. LayoutInv'
  <2>1. phase' = "points" => total_points' = PointOf(block, position)'
    <3>1. CASE block < NumBlocks /\ block' = block + 1 /\ position' = 1 /\ phase' = phase
               /\ start_point' = [start_point EXCEPT ![block + 1] = total_points + 1]
      <4>1. start_point'[block + 1] = total_points + 1
        BY <1>1, <1>4, <3>1 DEF Block
      <4> QED BY <1>1, <1>2, <3>1, <4>1 DEF PointOf
    <3> QED BY Zenon, <3>1, <1>3
  <2>2. ASSUME NEW b \in Block, phase' # "points" \/ b < block'
        PROVE  end_point'[b] = start_point'[b] + Len(insts'[b])
    <3>1. b \in Nat /\ b <= block
      BY <1>1, <1>3, <2>2 DEF Block
    <3>2. start_point'[b] = start_point[b]
      BY Zenon, <1>4, <3>1
    <3>3. CASE b = block
      <4>1. total_points = start_point[block] + position - 1 /\ start_point[block] \in Nat
        BY Zenon, <1>1, <1>4 DEF IInv, LayoutInv, PointOf
      <4>2. end_point'[b] = total_points
        BY Zenon, <1>1, <1>2, <1>4, <3>3
      <4> QED BY <1>1, <1>2, <3>2, <3>3, <4>1, <4>2
    <3>4. CASE b # block
      <4>1. b < block
        BY <1>1, <3>1, <3>4
      <4>2. end_point[b] = start_point[b] + Len(insts[b])
        BY Zenon, <4>1 DEF IInv, LayoutInv
      <4>3. end_point'[b] = end_point[b]
        BY Zenon, <1>2, <1>4, <3>4
      <4> QED BY Zenon, <1>2, <3>2, <4>2, <4>3
    <3> QED BY Zenon, <3>3, <3>4
  <2>3. \A b \in Block : \A i \in Positions(b) : Numbered(b, i)' => PointOf(b, i)' < total_points'
    BY Zenon, <1>5, RecordKeepsPoints
  <2> QED BY Zenon, <2>1, <2>2, <2>3, <1>6 DEF LayoutInv
<1>8. TypeOK' /\ EntryHasNoPredecessor'
  <2>1. block' \in Block
    BY <1>1, <1>3 DEF Block
  <2>2. position' \in Positions(block)'
    <3>1. 1 \in Positions(block')
      BY Zenon, <1>1, <2>1, PositionFacts
    <3> QED BY Zenon, <1>1, <1>2, <1>3, <3>1 DEF Positions
  <2>3. end_point' \in [Block -> Nat]
    BY Zenon, <1>1, <1>2, <1>4
  <2>4. phase' \in {"points", "dataflow", "intervals", "done"} /\ crosses_call' \in SUBSET Values
    BY Zenon, <1>1, <1>2, <1>3 DEF IInv, TypeOK
  <2> QED BY Zenon, <2>1, <2>2, <2>3, <2>4, <1>2, <1>4, <1>5, RecordKeepsTypes,
             RecordKeepsFlowTypes DEF TypeOK
<1>9. FlowInv' /\ PublishedInv'
  <2>1. FlowTypeOK' /\ FlowStart'
    BY Zenon, <1>2, <1>5, RecordKeepsFlowTypes
  <2>2. FlowIInv'
    BY Zenon, <2>1, FlowStartsNext
  <2>3. phase' \in {"points", "dataflow"}
    BY Zenon, <1>1, <1>3
  <2> QED BY Zenon, <2>1, <2>2, <2>3 DEF FlowInv, PublishedInv
<1>10. EventInv' /\ SummaryInv'
  BY Zenon, <1>5, RecordKeepsEvents, RecordKeepsSummary
<1> QED BY Zenon, <1>7, <1>8, <1>9, <1>10 DEF IInv

-----------------------------------------------------------------------------
(***************************************************************************)
(* The dataflow and the intervals.                                         *)
(***************************************************************************)

\* Facts that a step which leaves function and points alone keeps.
LEMMA PointsFixed ==
  ASSUME IInv, UNCHANGED function, phase # "points", phase' # "points",
         UNCHANGED <<start_point, end_point, total_points, block, position>>
  PROVE  /\ LayoutInv'
         /\ \A b, i : Numbered(b, i) /\ Numbered(b, i)' /\ PointOf(b, i)' = PointOf(b, i)
         /\ IsFunction' /\ EntryHasNoPredecessor' /\ position' \in Positions(block)'
<1>1. /\ insts' = insts
      /\ \A b, i : Numbered(b, i) /\ Numbered(b, i)' /\ PointOf(b, i)' = PointOf(b, i)
  BY Zenon DEF Numbered, PointOf, function
<1>2. \A b : Positions(b)' = Positions(b)
  BY Zenon, FunctionFixed
<1>3. IsFunction' /\ EntryHasNoPredecessor'
  BY Zenon, FunctionFixed DEF IInv, TypeOK
<1>4. position' \in Positions(block)'
  BY Zenon, <1>1 DEF Positions, IInv, TypeOK
<1>5. LayoutInv'
  <2>1. \A b \in Block : end_point[b] = start_point[b] + Len(insts[b])
    BY Zenon DEF IInv, LayoutInv
  <2>2. \A b \in Block : \A i \in Positions(b) : PointOf(b, i) < total_points
    BY Zenon, <1>1 DEF IInv, LayoutInv
  <2> QED BY Zenon, <1>1, <1>2, <2>1, <2>2 DEF LayoutInv
<1> QED BY Zenon, <1>1, <1>3, <1>4, <1>5

\* A visit of the dataflow, a new sweep or its end.
LEMMA DataflowKeepsIInv ==
  ASSUME IInv, RunDataflow
  PROVE  IInv'
<1>1. /\ phase = "dataflow" /\ FlowNext
      /\ phase' = IF finished' THEN "intervals" ELSE phase
      /\ UNCHANGED <<insts, terminator_uses, parameters, points, crosses_call>>
  BY Zenon DEF RunDataflow
<1>2. successors' = successors /\ gen' = gen /\ kill' = kill
  BY Zenon, <1>1 DEF FlowNext, VisitBlock, SweepAgain, Finish, inputs
<1>3. UNCHANGED <<start_point, end_point, total_points, block, position>>
      /\ first_points' = first_points /\ last_points' = last_points
      /\ def_points' = def_points /\ use_points' = use_points /\ call_points' = call_points
      /\ crosses_call' = crosses_call
  BY Zenon, <1>1 DEF points
<1>4. UNCHANGED function
  BY Zenon, <1>1, <1>2 DEF function
<1>5. phase # "points" /\ phase' # "points" /\ phase' \in {"dataflow", "intervals"}
  BY Zenon, <1>1
<1>6. FlowIInv'
  BY Zenon, <1>1, <1>5, FlowSteps DEF IInv, FlowInv
<1>7. FlowTypeOK'
  BY Zenon, <1>6 DEF FlowIInv
<1>8. FlowInv'
  <2>1. phase' \in {"intervals", "done"} => finished'
    BY Zenon, <1>1
  <2> QED BY Zenon, <1>5, <1>6, <2>1 DEF FlowInv
<1>9. LayoutInv' /\ EntryHasNoPredecessor' /\ TypeOK'
  <2>1. LayoutInv' /\ EntryHasNoPredecessor' /\ IsFunction' /\ position' \in Positions(block)'
    BY Zenon, <1>3, <1>4, <1>5, PointsFixed
  <2>2. block' \in Block /\ total_points' \in Nat /\ start_point' \in [Block -> Nat]
        /\ end_point' \in [Block -> Nat]
        /\ first_points' \in [Values -> Nat \cup {NoPoint}] /\ last_points' \in [Values -> Nat]
        /\ def_points' \in [Values -> Nat \cup {NoPoint}] /\ use_points' \in [Values -> SUBSET Nat]
        /\ call_points' \in SUBSET Nat /\ crosses_call' \in SUBSET Values
    BY Zenon, <1>3 DEF IInv, TypeOK
  <2>3. phase' \in {"points", "dataflow", "intervals", "done"}
    BY Zenon, <1>5
  <2> QED BY Zenon, <1>7, <2>1, <2>2, <2>3 DEF TypeOK
<1>10. /\ \A b, i : Numbered(b, i) /\ Numbered(b, i)' /\ PointOf(b, i)' = PointOf(b, i)
       /\ \A b : Positions(b)' = Positions(b)
       /\ \A b, i : IsCall(b, i)' <=> IsCall(b, i)
       /\ \A v, b : DefinedAtEntry(v, b)' <=> DefinedAtEntry(v, b)
       /\ \A v, b, i : /\ Reads(v, b, i)' <=> Reads(v, b, i)
                       /\ Writes(v, b, i)' <=> Writes(v, b, i)
                       /\ Exposed(v, b, i)' <=> Exposed(v, b, i)
  BY Zenon, <1>3, <1>4, <1>5, PointsFixed, FunctionFixed
<1>11. EventInv'
  <2>1. parameters' = parameters /\ total_points' = total_points
    BY Zenon, <1>3, <1>4 DEF function
  <2>2. EventInv
    BY Zenon DEF IInv
  <2> QED BY ZenonT(30), <1>3, <1>10, <2>1, <2>2 DEF EventInv
<1>12. SummaryInv'
  <2>1. SummaryInv
    BY Zenon DEF IInv
  <2> QED BY Zenon, <1>2, <1>10, <2>1 DEF SummaryInv
<1>13. PublishedInv'
  BY Zenon, <1>5 DEF PublishedInv
<1> QED BY Zenon, <1>8, <1>9, <1>11, <1>12, <1>13 DEF IInv

\* The ends an interval is stretched to.
LEMMA ExtendedFacts ==
  ASSUME IInv, phase # "points", NEW v \in Values
  PROVE  /\ ExtendedFirst(v) \in Nat \cup {NoPoint} /\ ExtendedLast(v) \in Nat
         /\ ExtendedFirst(v) <= total_points /\ ExtendedLast(v) <= total_points
         /\ \A b \in LiveBlocks(v) : /\ ExtendedFirst(v) # NoPoint
                                     /\ ExtendedFirst(v) <= start_point[b]
                                     /\ end_point[b] <= ExtendedLast(v)
         /\ first_points[v] # NoPoint =>
              ExtendedFirst(v) # NoPoint /\ ExtendedFirst(v) <= first_points[v]
         /\ last_points[v] <= ExtendedLast(v)
<1> DEFINE starts == {start_point[b] : b \in LiveBlocks(v)}
           known == IF first_points[v] = NoPoint THEN starts ELSE starts \cup {first_points[v]}
           ends == {end_point[b] : b \in LiveBlocks(v)} \cup {last_points[v]}
<1>1. ASSUME NEW b \in Block
      PROVE  /\ start_point[b] \in Nat /\ start_point[b] <= total_points
             /\ end_point[b] \in Nat /\ end_point[b] <= total_points
  <2>1. /\ start_point[b] \in Nat /\ end_point[b] \in Nat /\ total_points \in Nat
        /\ end_point[b] = start_point[b] + Len(insts[b]) /\ Len(insts[b]) \in Nat
        /\ Len(insts[b]) + 1 \in Positions(b)
    BY Zenon, PositionFacts DEF IInv, TypeOK, LayoutInv
  <2>2. PointOf(b, Len(insts[b]) + 1) < total_points
    BY Zenon, <2>1 DEF IInv, LayoutInv, Numbered
  <2>3. start_point[b] + (Len(insts[b]) + 1) - 1 < total_points
    BY Zenon, <2>2 DEF PointOf
  <2> QED BY <2>1, <2>3
<1>2. /\ first_points[v] \in Nat \cup {NoPoint} /\ last_points[v] \in Nat /\ total_points \in Nat
      /\ first_points[v] <= total_points /\ last_points[v] <= total_points
  BY Zenon DEF IInv, TypeOK, EventInv
<1>3. LiveBlocks(v) \subseteq Block
  BY Zenon DEF LiveBlocks
<1>4. \A m \in known : m \in Nat /\ m <= total_points
  BY Zenon, <1>1, <1>2, <1>3
<1>5. \A m \in ends : m \in Nat /\ m <= total_points
  BY Zenon, <1>1, <1>2, <1>3
<1>6. ExtendedFirst(v) = IF known = {} THEN NoPoint ELSE CHOOSE m \in known : \A n \in known : m <= n
  BY Zenon DEF ExtendedFirst
<1>7. ExtendedLast(v) = CHOOSE m \in ends : \A n \in ends : n <= m
  BY Zenon DEF ExtendedLast
<1>8. last_points[v] \in ends /\ \A b \in LiveBlocks(v) : end_point[b] \in ends /\ start_point[b] \in known
  BY Zenon
<1>9. first_points[v] # NoPoint => first_points[v] \in known
  BY Zenon
<1> HIDE DEF starts, known, ends
<1>10. ExtendedLast(v) \in ends /\ \A n \in ends : n <= ExtendedLast(v)
  <2>1. \E m \in ends : \A n \in ends : n <= m
    BY Zenon, <1>2, <1>5, <1>8, GreatestOf
  <2> QED BY Zenon, <1>7, <2>1
<1>11. CASE known = {}
  <2>1. ExtendedFirst(v) = NoPoint
    BY Zenon, <1>6, <1>11
  <2> QED BY <1>2, <1>5, <1>8, <1>9, <1>10, <1>11, <2>1 DEF NoPoint
<1>12. CASE known # {}
  <2>1. \E m \in known : \A n \in known : m <= n
    BY Zenon, <1>4, <1>12, LeastOf
  <2>2. ExtendedFirst(v) \in known /\ \A n \in known : ExtendedFirst(v) <= n
    BY Zenon, <1>6, <1>12, <2>1
  <2>3. ExtendedFirst(v) # NoPoint /\ ExtendedFirst(v) \in Nat
    BY <1>4, <2>2 DEF NoPoint
  <2> QED BY Zenon, <1>4, <1>5, <1>8, <1>9, <1>10, <2>2, <2>3
<1> QED BY Zenon, <1>11, <1>12

\* Publishing the intervals.
LEMMA PublishKeepsIInv ==
  ASSUME IInv, PublishIntervals
  PROVE  IInv'
<1>1. /\ phase = "intervals" /\ phase' = "done"
      /\ first_points' = [v \in Values |-> ExtendedFirst(v)]
      /\ last_points' = [v \in Values |-> ExtendedLast(v)]
      /\ crosses_call' = {v \in Values : ExtendedFirst(v) # NoPoint /\ CrossesCall(v)}
      /\ UNCHANGED function
      /\ UNCHANGED <<start_point, end_point, total_points, block, position>>
      /\ UNCHANGED <<gen, kill, live_in, live_out, reverse_index, changed, finished>>
      /\ def_points' = def_points /\ use_points' = use_points /\ call_points' = call_points
  BY Zenon DEF PublishIntervals, flow
<1>2. phase # "points" /\ phase' # "points"
  BY Zenon, <1>1
<1>3. /\ LayoutInv' /\ EntryHasNoPredecessor' /\ IsFunction' /\ position' \in Positions(block)'
      /\ \A b, i : Numbered(b, i) /\ Numbered(b, i)' /\ PointOf(b, i)' = PointOf(b, i)
      /\ \A b : Positions(b)' = Positions(b)
      /\ \A b, i : IsCall(b, i)' <=> IsCall(b, i)
      /\ \A v, b : DefinedAtEntry(v, b)' <=> DefinedAtEntry(v, b)
      /\ \A v, b, i : /\ Reads(v, b, i)' <=> Reads(v, b, i)
                      /\ Writes(v, b, i)' <=> Writes(v, b, i)
                      /\ Exposed(v, b, i)' <=> Exposed(v, b, i)
  BY Zenon, <1>1, <1>2, PointsFixed, FunctionFixed
<1>4. \A v \in Values : first_points'[v] = ExtendedFirst(v) /\ last_points'[v] = ExtendedLast(v)
  BY Zenon, <1>1
<1>5. successors' = successors /\ parameters' = parameters
  BY Zenon, <1>1 DEF function
<1>6. FlowIInv'
  <2>1. FlowIInv
    BY Zenon, <1>2 DEF IInv, FlowInv
  <2> QED BY <1>1, <1>5, <2>1
          DEF FlowIInv, FlowTypeOK, VisitedAreSolved, VisitsNeverShrink,
              BelowEverySolution, Solves, Closed, NextLiveOut,
              Transfer, BlockSets
<1>7. FlowInv'
  <2>1. finished'
    BY Zenon, <1>1 DEF IInv, FlowInv
  <2> QED BY Zenon, <1>2, <1>6, <2>1 DEF FlowInv
<1>8. TypeOK'
  <2>1. /\ block' \in Block /\ total_points' \in Nat /\ start_point' \in [Block -> Nat]
        /\ end_point' \in [Block -> Nat]
        /\ def_points' \in [Values -> Nat \cup {NoPoint}] /\ use_points' \in [Values -> SUBSET Nat]
        /\ call_points' \in SUBSET Nat /\ crosses_call' \in SUBSET Values
    BY Zenon, <1>1 DEF IInv, TypeOK
  <2>2. phase' \in {"points", "dataflow", "intervals", "done"}
    BY Zenon, <1>1
  <2>3. first_points' \in [Values -> Nat \cup {NoPoint}] /\ last_points' \in [Values -> Nat]
    BY Zenon, <1>1, <1>2, ExtendedFacts
  <2>4. FlowTypeOK'
    BY Zenon, <1>6 DEF FlowIInv
  <2> QED BY Zenon, <1>3, <2>1, <2>2, <2>3, <2>4 DEF TypeOK
<1>9. EventInv'
  <2>1. \A v \in Values : first_points'[v] <= total_points' /\ last_points'[v] <= total_points'
    BY Zenon, <1>1, <1>2, <1>4, ExtendedFacts
  <2>2. ASSUME NEW v \in parameters PROVE first_points'[v] = 0
    <3>1. v \in Values /\ first_points[v] = 0
      BY Zenon DEF IInv, TypeOK, IsFunction, EventInv
    <3>2. ExtendedFirst(v) \in Nat \cup {NoPoint} /\ ExtendedFirst(v) # NoPoint
          /\ ExtendedFirst(v) <= 0
      BY <3>1, <1>2, ExtendedFacts DEF NoPoint
    <3> QED BY <1>4, <3>1, <3>2
  <2>3. ASSUME NEW b \in Block, NEW i \in Positions(b), NEW v \in Values,
               Reads(v, b, i) \/ Writes(v, b, i)
        PROVE  /\ first_points'[v] # NoPoint
               /\ first_points'[v] <= PointOf(b, i) /\ PointOf(b, i) <= last_points'[v]
    <3>1. /\ first_points[v] # NoPoint
          /\ first_points[v] <= PointOf(b, i) /\ PointOf(b, i) <= last_points[v]
      BY Zenon, <1>3, <2>3 DEF IInv, EventInv
    <3>2. PointOf(b, i) \in Int
      BY Zenon, PointFacts DEF IInv
    <3>3. first_points[v] \in Nat \cup {NoPoint} /\ last_points[v] \in Nat
      BY Zenon DEF IInv, TypeOK
    <3>4. /\ ExtendedFirst(v) # NoPoint /\ ExtendedFirst(v) <= first_points[v]
          /\ last_points[v] <= ExtendedLast(v)
          /\ ExtendedFirst(v) \in Nat \cup {NoPoint} /\ ExtendedLast(v) \in Nat
      BY Zenon, <1>2, <3>1, ExtendedFacts
    <3> QED BY <1>4, <3>1, <3>2, <3>3, <3>4 DEF NoPoint
  <2>4. \A b \in Block : \A i \in Positions(b) : IsCall(b, i) => PointOf(b, i) \in call_points
    BY Zenon, <1>3 DEF IInv, EventInv
  <2>5. ASSUME NEW b \in Block, NEW i \in Positions(b)
        PROVE  /\ \A v \in Values : Reads(v, b, i)' \/ Writes(v, b, i)' =>
                    /\ first_points'[v] # NoPoint
                    /\ first_points'[v] <= PointOf(b, i)' /\ PointOf(b, i)' <= last_points'[v]
               /\ IsCall(b, i)' => PointOf(b, i)' \in call_points'
    <3>1. PointOf(b, i)' = PointOf(b, i) /\ call_points' = call_points
      BY Zenon, <1>1, <1>3
    <3>2. \A v \in Values : Reads(v, b, i)' \/ Writes(v, b, i)' => Reads(v, b, i) \/ Writes(v, b, i)
      BY Zenon, <1>3
    <3>3. IsCall(b, i)' => PointOf(b, i) \in call_points
      BY Zenon, <1>3, <2>4
    <3> QED BY Zenon, <2>3, <3>1, <3>2, <3>3
  <2>6. \A b \in Block : Positions(b)' = Positions(b)
    BY Zenon, <1>3
  <2> QED BY Zenon, <1>5, <2>1, <2>2, <2>5, <2>6 DEF EventInv
<1>10. SummaryInv'
  <2>1. SummaryInv
    BY Zenon DEF IInv
  <2> QED BY Zenon, <1>1, <1>3, <2>1 DEF SummaryInv
<1>11. PublishedInv'
  <2> SUFFICES ASSUME NEW v \in Values
               PROVE  /\ \A b \in LiveBlocks(v)' : /\ first_points'[v] # NoPoint
                                                   /\ first_points'[v] <= start_point'[b]
                                                   /\ end_point'[b] <= last_points'[v]
                      /\ v \notin crosses_call' /\ first_points'[v] # NoPoint =>
                           \A c \in call_points' : c <= first_points'[v] \/ last_points'[v] <= c
    BY Zenon DEF PublishedInv
  <2>1. LiveBlocks(v)' = LiveBlocks(v)
    BY Zenon, <1>1 DEF LiveBlocks
  <2>2. \A b \in LiveBlocks(v)' : /\ first_points'[v] # NoPoint
                                  /\ first_points'[v] <= start_point'[b]
                                  /\ end_point'[b] <= last_points'[v]
    BY Zenon, <1>1, <1>2, <1>4, <2>1, ExtendedFacts
  <2>3. ASSUME v \notin crosses_call', first_points'[v] # NoPoint, NEW c \in call_points
        PROVE  c <= ExtendedFirst(v) \/ ExtendedLast(v) <= c
    <3>1. ~(ExtendedFirst(v) < c /\ c < ExtendedLast(v))
      BY Zenon, <1>1, <1>4, <2>3 DEF CrossesCall
    <3>2. c \in Nat /\ ExtendedFirst(v) \in Nat \cup {NoPoint} /\ ExtendedLast(v) \in Nat
      BY Zenon, <1>2, ExtendedFacts DEF IInv, TypeOK
    <3> QED BY <3>1, <3>2 DEF NoPoint
  <2> QED BY Zenon, <1>1, <1>4, <2>2, <2>3
<1> QED BY Zenon, <1>3, <1>7, <1>8, <1>9, <1>10, <1>11 DEF IInv

\* The analysis starts in the invariant.
LEMMA InitEstablishesIInv == Init => IInv
<1> SUFFICES ASSUME Init PROVE IInv
  BY Zenon
<1>1. IsFunction /\ EntryHasNoPredecessor /\ Start /\ FlowStart /\ phase = "points"
  BY Zenon DEF Init, Start
<1>2. block = 1 /\ position = 1 /\ total_points = 0 /\ 1 \in Block
  BY <1>1, NumBlocksAssumption DEF Start, Block
<1>3. \A b \in Block : \A i \in Positions(b) : ~Numbered(b, i)
  BY <1>1, <1>2 DEF Numbered, Block, Positions
<1>4. gen \in [Block -> SUBSET Values] /\ kill \in [Block -> SUBSET Values]
  BY Zenon, <1>1 DEF Start, IsFunction
<1>5. FlowTypeOK
  <2>1. live_in \in [Block -> SUBSET Values] /\ live_out \in [Block -> SUBSET Values]
        /\ changed \in BOOLEAN /\ finished \in BOOLEAN
    BY Zenon, <1>1 DEF FlowStart, Block
  <2>2. reverse_index \in 0 .. NumBlocks
    BY <1>1, NumBlocksAssumption DEF FlowStart
  <2> QED BY Zenon, <1>1, <1>4, <2>1, <2>2
          DEF FlowTypeOK, BlockSets, Block, IsFunction
<1>6. TypeOK
  <2>1. position \in Positions(block)
    BY Zenon, <1>1, <1>2, PositionFacts
  <2>2. /\ start_point \in [Block -> Nat] /\ end_point \in [Block -> Nat]
        /\ first_points \in [Values -> Nat \cup {NoPoint}] /\ last_points \in [Values -> Nat]
        /\ def_points \in [Values -> Nat \cup {NoPoint}] /\ use_points \in [Values -> SUBSET Nat]
        /\ call_points \in SUBSET Nat /\ crosses_call \in SUBSET Values /\ total_points \in Nat
    BY Zenon, <1>1 DEF Start
  <2>3. phase \in {"points", "dataflow", "intervals", "done"} /\ block \in Block
    BY Zenon, <1>1, <1>2
  <2> QED BY Zenon, <1>1, <1>5, <2>1, <2>2, <2>3 DEF TypeOK
<1>7. LayoutInv
  <2>1. total_points = PointOf(block, position)
    BY <1>1, <1>2 DEF PointOf, Start
  <2>2. \A b \in Block : ~(phase # "points" \/ b < block)
    BY <1>1, <1>2 DEF Block
  <2> QED BY Zenon, <1>3, <2>1, <2>2 DEF LayoutInv
<1>8. EventInv
  <2>1. \A v \in Values : /\ first_points[v] = (IF v \in parameters THEN 0 ELSE NoPoint)
                          /\ last_points[v] = 0
    BY Zenon, <1>1 DEF Start
  <2>2. \A v \in Values : first_points[v] <= total_points /\ last_points[v] <= total_points
    BY <1>2, <2>1 DEF NoPoint
  <2>3. \A v \in parameters : first_points[v] = 0
    BY Zenon, <1>1, <2>1 DEF IsFunction
  <2> QED BY Zenon, <1>3, <2>2, <2>3 DEF EventInv
<1>9. SummaryInv
  <2>1. ASSUME NEW b \in Block, NEW v \in Values
        PROVE  v \notin gen[b] /\ (v \in kill[b] <=> DefinedAtEntry(v, b))
    BY Zenon, <1>1 DEF Start, DefinedAtEntry
  <2> QED BY Zenon, <1>3, <2>1 DEF SummaryInv
<1>10. FlowInv /\ PublishedInv
  BY Zenon, <1>1 DEF FlowInv, PublishedInv
<1> QED BY Zenon, <1>1, <1>6, <1>7, <1>8, <1>9, <1>10 DEF IInv

\* Every step of the analysis keeps the invariant.
LEMMA NextKeepsIInv == IInv /\ [Next]_vars => IInv'
<1> SUFFICES ASSUME IInv, [Next]_vars PROVE IInv'
  BY Zenon
<1>1. CASE Next
  BY Zenon, <1>1, InstructionKeepsIInv, TerminatorKeepsIInv, DataflowKeepsIInv, PublishKeepsIInv
     DEF Next
<1>2. CASE UNCHANGED vars
  <2>1. UNCHANGED function /\ UNCHANGED flow /\ UNCHANGED points /\ phase' = phase
        /\ crosses_call' = crosses_call
    BY Zenon, <1>2 DEF vars
  <2>2. /\ \A b : Positions(b)' = Positions(b)
        /\ \A b, i : IsCall(b, i)' <=> IsCall(b, i)
        /\ \A v, b : DefinedAtEntry(v, b)' <=> DefinedAtEntry(v, b)
        /\ \A v, b, i : /\ Reads(v, b, i)' <=> Reads(v, b, i)
                        /\ Writes(v, b, i)' <=> Writes(v, b, i)
                        /\ Exposed(v, b, i)' <=> Exposed(v, b, i)
    BY Zenon, <2>1, FunctionFixed
  <2>3. \A b, i : (Numbered(b, i)' <=> Numbered(b, i)) /\ PointOf(b, i)' = PointOf(b, i)
    BY Zenon, <2>1 DEF Numbered, PointOf, points
  <2>4. (FlowTypeOK' <=> FlowTypeOK) /\ (FlowStart' <=> FlowStart) /\ (FlowIInv' <=> FlowIInv)
    BY <2>1 DEF function, flow, FlowIInv, FlowTypeOK, FlowStart, VisitedAreSolved,
                VisitsNeverShrink, BelowEverySolution, Solves, Closed,
                NextLiveOut, Transfer, BlockSets
  <2>5. TypeOK' /\ EntryHasNoPredecessor' /\ FlowInv'
    <3>1. TypeOK /\ EntryHasNoPredecessor /\ FlowInv
      BY Zenon DEF IInv
    <3>2. position' \in Positions(block)'
      BY Zenon, <2>1, <3>1 DEF TypeOK, Positions, points, function
    <3>3. IsFunction' /\ EntryHasNoPredecessor'
      BY Zenon, <2>1, <3>1, FunctionFixed DEF TypeOK
    <3> QED BY Zenon, <2>1, <2>4, <3>1, <3>2, <3>3 DEF TypeOK, FlowInv, points, flow
  <2>6. LayoutInv'
    BY Zenon, <2>1, <2>2, <2>3 DEF IInv, LayoutInv, points, function
  <2>7. EventInv'
    BY ZenonT(30), <2>1, <2>2, <2>3 DEF IInv, EventInv, points, function
  <2>8. SummaryInv'
    BY <2>1, <2>2, <2>3 DEF IInv, SummaryInv, flow
  <2>9. PublishedInv'
    BY Zenon, <2>1 DEF IInv, PublishedInv, LiveBlocks, points, flow
  <2> QED BY Zenon, <2>5, <2>6, <2>7, <2>8, <2>9 DEF IInv
<1> QED BY Zenon, <1>1, <1>2

\* Every reachable state of run_liveness satisfies the inductive invariant.
THEOREM IInvHolds == Spec => []IInv
BY InitEstablishesIInv, NextKeepsIInv, PTL DEF Spec

-----------------------------------------------------------------------------
(***************************************************************************)
(* The result.                                                             *)
(***************************************************************************)

\* Position i of block b reaches a read of v before a write of v, in the
\* block itself or by way of what is live out of it.
Ahead(v, b, i) ==
  \/ \E j \in Positions(b) : /\ i <= j /\ Reads(v, b, j)
                             /\ \A k \in i .. j - 1 : ~Writes(v, b, k)
  \/ v \in live_out[b] /\ \A k \in Positions(b) : i <= k => ~Writes(v, b, k)

\* What the dataflow has computed when the intervals are published.
LEMMA DoneFacts ==
  ASSUME IInv, phase = "done", NEW v \in Values, NEW b \in Block
  PROVE  /\ IsFunction /\ EntryHasNoPredecessor
         /\ v \in live_out[b] <=> \E s \in successors[b] : v \in live_in[s]
         /\ v \in live_in[b] <=> v \in gen[b] \/ (v \in live_out[b] /\ v \notin kill[b])
         /\ v \in gen[b] <=> ~DefinedAtEntry(v, b) /\ \E i \in Positions(b) : Exposed(v, b, i)
         /\ v \in kill[b] <=> DefinedAtEntry(v, b) \/ \E i \in Positions(b) : Writes(v, b, i)
<1>1. IsFunction /\ EntryHasNoPredecessor /\ finished /\ FlowIInv
  BY Zenon DEF IInv, TypeOK, FlowInv
<1>2. Solves(b)
  BY <1>1 DEF FlowIInv, VisitedAreSolved, Block
<1>3. /\ live_out[b] = UNION {live_in[s] : s \in successors[b]}
      /\ live_in[b] = gen[b] \cup (live_out[b] \ kill[b])
  BY Zenon, <1>2 DEF Solves, NextLiveOut, Transfer
<1>4. \A i : Numbered(b, i)
  BY Zenon DEF Numbered
<1> QED BY Zenon, <1>1, <1>3, <1>4 DEF IInv, SummaryInv

\* What is ahead of a block's first position is live into the block.
LEMMA AheadIsLiveIn ==
  ASSUME IInv, phase = "done", NEW v \in Values, NEW b \in Block,
         Ahead(v, b, 1), ~DefinedAtEntry(v, b)
  PROVE  v \in live_in[b]
<1>1. CASE \E j \in Positions(b) : 1 <= j /\ Reads(v, b, j) /\ \A k \in 1 .. j - 1 : ~Writes(v, b, k)
  BY Zenon, <1>1, DoneFacts DEF Exposed
<1>2. CASE v \in live_out[b] /\ \A k \in Positions(b) : 1 <= k => ~Writes(v, b, k)
  <2>1. \A k \in Positions(b) : 1 <= k
    BY DEF Positions
  <2> QED BY Zenon, <1>2, <2>1, DoneFacts
<1> QED BY Zenon, <1>1, <1>2 DEF Ahead

\* A step backwards over a position that does not write the value.
LEMMA AheadGoesBack ==
  ASSUME IsFunction, NEW v, NEW b \in Block, NEW i \in Positions(b), i <= Len(insts[b]),
         ~Writes(v, b, i), Ahead(v, b, i + 1)
  PROVE  Ahead(v, b, i)
<1>1. i \in Nat
  BY Zenon, PositionFacts
<1>2. ASSUME NEW j \in Positions(b), i + 1 <= j, Reads(v, b, j),
             \A k \in i + 1 .. j - 1 : ~Writes(v, b, k)
      PROVE  Ahead(v, b, i)
  <2>1. j \in Nat /\ i <= j
    BY <1>1, <1>2 DEF Positions
  <2>2. \A k \in i .. j - 1 : k = i \/ k \in i + 1 .. j - 1
    BY <1>1, <2>1
  <2> QED BY Zenon, <1>2, <2>1, <2>2 DEF Ahead
<1>3. ASSUME v \in live_out[b], \A k \in Positions(b) : i + 1 <= k => ~Writes(v, b, k)
      PROVE  Ahead(v, b, i)
  <2>1. \A k \in Positions(b) : i <= k => k = i \/ i + 1 <= k
    BY <1>1 DEF Positions
  <2> QED BY Zenon, <1>3, <2>1 DEF Ahead
<1> QED BY Zenon, <1>2, <1>3 DEF Ahead

\* Every live node has a read ahead.
LEMMA LiveIsAhead ==
  ASSUME IInv, phase = "done", NEW v \in Values, NEW b \in Block, NEW i \in Positions(b),
         <<b, i>> \in LiveBefore(v)
  PROVE  Ahead(v, b, i)
<1> DEFINE M == {n \in Node : Ahead(v, n[1], n[2])}
<1>1. \A c \in Block : \A j \in Positions(c) :
        <<c, j>> \in Node /\ <<c, j>>[1] = c /\ <<c, j>>[2] = j
  BY DEF Node
<1>2. \A c \in Block : \A j \in Positions(c) : <<c, j>> \in M <=> Ahead(v, c, j)
  BY Zenon, <1>1
<1>3. IsFunction /\ EntryHasNoPredecessor
  BY Zenon, DoneFacts
<1>4. ASSUME NEW c \in Block, NEW j \in Positions(c), Reads(v, c, j)
      PROVE  Ahead(v, c, j)
  <2>1. j <= j /\ \A k \in j .. j - 1 : ~Writes(v, c, k)
    BY DEF Positions
  <2> QED BY Zenon, <1>4, <2>1 DEF Ahead
<1>5. ASSUME NEW c \in Block, NEW j \in Positions(c), ~Writes(v, c, j),
             Following(c, j) \cap M # {}
      PROVE  Ahead(v, c, j)
  <2>1. CASE j <= Len(insts[c])
    <3>1. Following(c, j) = {<<c, j + 1>>} /\ j + 1 \in Positions(c)
      BY Zenon, <1>3, <2>1, PositionFacts DEF Following
    <3>2. Ahead(v, c, j + 1)
      BY Zenon, <1>2, <1>5, <3>1
    <3> QED BY Zenon, <1>3, <1>5, <2>1, <3>2, AheadGoesBack
  <2>2. CASE ~(j <= Len(insts[c]))
    <3>1. Following(c, j) = {<<s, 1>> : s \in successors[c]}
      BY Zenon, <2>2 DEF Following
    <3>2. PICK s \in successors[c] : <<s, 1>> \in M
      BY Zenon, <1>5, <3>1
    <3>3. s \in Block /\ s # 1
      BY Zenon, <1>3 DEF IsFunction, EntryHasNoPredecessor
    <3>4. 1 \in Positions(s)
      BY Zenon, <1>3, <3>3, PositionFacts
    <3>5. v \in live_in[s]
      BY Zenon, <1>2, <3>2, <3>3, <3>4, AheadIsLiveIn DEF DefinedAtEntry
    <3>6. v \in live_out[c]
      BY Zenon, <3>5, DoneFacts
    <3>7. \A k \in Positions(c) : j <= k => k = j
      BY <1>3, <2>2, PositionFacts DEF Positions
    <3> QED BY Zenon, <1>5, <3>6, <3>7 DEF Ahead
  <2> QED BY Zenon, <2>1, <2>2
<1>6. LiveBefore(v) \subseteq M
  <2>1. M \in SUBSET Node
    BY Zenon
  <2>2. \A c \in Block : \A j \in Positions(c) :
          Reads(v, c, j) \/ (~Writes(v, c, j) /\ Following(c, j) \cap M # {}) => <<c, j>> \in M
    BY Zenon, <1>2, <1>4, <1>5
  <2> HIDE DEF M
  <2> QED BY Zenon, <2>1, <2>2, LiveBeforeIsLeast
<1> QED BY Zenon, <1>2, <1>6

\* A value that is live into a block is live at its first position.
LEMMA LiveInIsLive ==
  ASSUME IInv, phase = "done", NEW v \in Values, NEW b \in Block, v \in live_in[b]
  PROVE  <<b, 1>> \in LiveBefore(v) /\ ~DefinedAtEntry(v, b)
<1> DEFINE sol == [c \in Block |-> {w \in Values : <<c, 1>> \in LiveBefore(w) /\ ~DefinedAtEntry(w, c)}]
<1>1. sol \in BlockSets
  BY Zenon DEF BlockSets, Block
<1>2. \A c \in Block :
        /\ sol[c] \subseteq Values
        /\ \A w \in Values : w \in sol[c] <=> <<c, 1>> \in LiveBefore(w) /\ ~DefinedAtEntry(w, c)
  BY Zenon
<1> HIDE DEF sol
<1>3. IsFunction
  BY Zenon, DoneFacts
<1>4. ASSUME NEW c \in Block, NEW w \in Values, w \in gen[c]
      PROVE  <<c, 1>> \in LiveBefore(w) /\ ~DefinedAtEntry(w, c)
  <2>1. ~DefinedAtEntry(w, c) /\ \E i \in Positions(c) : Exposed(w, c, i)
    BY Zenon, <1>4, DoneFacts
  <2>2. PICK i \in Positions(c) : Reads(w, c, i) /\ \A k \in 1 .. i - 1 : ~Writes(w, c, k)
    BY Zenon, <2>1 DEF Exposed
  <2>3. <<c, i>> \in LiveBefore(w)
    BY Zenon, <2>2, LiveBeforeIsLeast
  <2>4. 1 \in 1 .. i
    BY DEF Positions
  <2>5. <<c, 1>> \in LiveBefore(w)
    BY Zenon, <1>3, <2>2, <2>3, <2>4, WalkBack
  <2> QED BY Zenon, <2>1, <2>5
<1>5. ASSUME NEW c \in Block, NEW w \in Values, w \notin kill[c],
             NEW s \in successors[c], <<s, 1>> \in LiveBefore(w)
      PROVE  <<c, 1>> \in LiveBefore(w) /\ ~DefinedAtEntry(w, c)
  <2> DEFINE e == Len(insts[c]) + 1
  <2>1. ~DefinedAtEntry(w, c) /\ \A i \in Positions(c) : ~Writes(w, c, i)
    BY Zenon, <1>5, DoneFacts
  <2>2. e \in Positions(c) /\ ~(e <= Len(insts[c])) /\ 1 \in 1 .. e
        /\ \A k \in 1 .. e - 1 : k \in Positions(c)
    BY <1>3, PositionFacts DEF Positions
  <2> HIDE DEF e
  <2>3. <<s, 1>> \in Following(c, e)
    BY Zenon, <2>2 DEF Following
  <2>4. <<c, e>> \in LiveBefore(w)
    BY Zenon, <1>5, <2>1, <2>2, <2>3, LiveBeforeIsLeast
  <2>5. <<c, 1>> \in LiveBefore(w)
    BY Zenon, <1>3, <2>1, <2>2, <2>4, WalkBack
  <2> QED BY Zenon, <2>1, <2>5
<1>6. Closed(sol)
  <2> SUFFICES ASSUME NEW c \in Block, NEW w,
                      w \in gen[c] \/ (w \notin kill[c] /\ \E s \in successors[c] : w \in sol[s])
               PROVE  w \in sol[c]
    BY ZenonT(30) DEF Closed, Transfer, Block
  <2>1. successors[c] \in SUBSET Block /\ gen[c] \in SUBSET Values
    BY Zenon, <1>3 DEF IsFunction, IInv, TypeOK, FlowTypeOK, BlockSets, Block
  <2>2. CASE w \in gen[c]
    BY Zenon, <1>2, <1>4, <2>1, <2>2
  <2>3. CASE w \notin kill[c] /\ \E s \in successors[c] : w \in sol[s]
    <3>1. PICK s \in successors[c] : w \in sol[s]
      BY Zenon, <2>3
    <3>2. s \in Block /\ w \in Values
      BY Zenon, <1>2, <2>1, <3>1
    <3>3. <<s, 1>> \in LiveBefore(w)
      BY Zenon, <1>2, <3>1, <3>2
    <3> QED BY Zenon, <1>2, <1>5, <2>3, <3>2, <3>3
  <2> QED BY Zenon, <2>2, <2>3
<1>7. live_in[b] \subseteq sol[b]
  <2> QED BY Zenon, <1>1, <1>6 DEF IInv, FlowInv, FlowIInv, BelowEverySolution, Block
<1> QED BY Zenon, <1>2, <1>7

\* Once live at a position, a value's interval holds that position.
LEMMA LiveIsCovered ==
  ASSUME IInv, phase = "done", NEW v \in Values, NEW b \in Block, NEW i \in Positions(b),
         <<b, i>> \in LiveBefore(v)
  PROVE  /\ first_points[v] # NoPoint
         /\ first_points[v] <= PointOf(b, i) /\ PointOf(b, i) <= last_points[v]
<1>1. TypeOK /\ first_points[v] \in Int /\ last_points[v] \in Int
  BY DEF IInv, TypeOK, NoPoint
<1>2. Ahead(v, b, i)
  BY Zenon, LiveIsAhead
<1>3. ASSUME NEW j \in Positions(b), Reads(v, b, j) \/ Writes(v, b, j)
      PROVE  /\ first_points[v] # NoPoint
             /\ first_points[v] <= PointOf(b, j) /\ PointOf(b, j) <= last_points[v]
  <2>1. Numbered(b, j)
    BY Zenon DEF Numbered
  <2> QED BY Zenon, <1>3, <2>1 DEF IInv, EventInv
<1>4. ASSUME b \in LiveBlocks(v)
      PROVE  /\ first_points[v] # NoPoint
             /\ first_points[v] <= PointOf(b, i)
             /\ PointOf(b, i) <= last_points[v]
  <2>1. end_point[b] = start_point[b] + Len(insts[b])
    BY Zenon DEF IInv, LayoutInv
  <2>2. /\ first_points[v] # NoPoint
        /\ first_points[v] <= start_point[b] /\ start_point[b] + Len(insts[b]) <= last_points[v]
    BY Zenon, <1>4, <2>1 DEF IInv, PublishedInv
  <2>3. /\ PointOf(b, i) \in Int /\ start_point[b] \in Int /\ start_point[b] + Len(insts[b]) \in Int
        /\ start_point[b] <= PointOf(b, i) /\ PointOf(b, i) <= start_point[b] + Len(insts[b])
    BY Zenon, <1>1, PointFacts
  <2>4. first_points[v] <= PointOf(b, i)
    BY Zenon, <1>1, <2>2, <2>3, PointsAreOrdered
  <2>5. PointOf(b, i) <= last_points[v]
    BY Zenon, <1>1, <2>2, <2>3, PointsAreOrdered
  <2> QED BY Zenon, <2>2, <2>4, <2>5
<1>5. CASE v \in live_out[b]
  BY Zenon, <1>4, <1>5 DEF LiveBlocks
<1>6. ASSUME NEW j \in Positions(b), i <= j, Reads(v, b, j), \A k \in i .. j - 1 : ~Writes(v, b, k)
      PROVE  /\ first_points[v] # NoPoint
             /\ first_points[v] <= PointOf(b, i) /\ PointOf(b, i) <= last_points[v]
  <2>1. first_points[v] # NoPoint /\ PointOf(b, j) <= last_points[v]
    BY Zenon, <1>3, <1>6
  <2>2. PointOf(b, i) <= last_points[v]
    <3>1. PointOf(b, i) \in Int /\ PointOf(b, j) \in Int /\ PointOf(b, i) <= PointOf(b, j)
      BY Zenon, <1>1, <1>6, PointFacts
    <3> QED BY Zenon, <1>1, <2>1, <3>1, PointsAreOrdered
  <2>3. ASSUME NEW k \in 1 .. i - 1, Writes(v, b, k)
        PROVE  first_points[v] <= PointOf(b, i)
    <3>1. k \in Positions(b) /\ PointOf(b, k) <= PointOf(b, i) /\ PointOf(b, i) \in Int
      BY Zenon, <1>1, PointFacts
    <3>2. PointOf(b, k) \in Int
      BY Zenon, <1>1, <3>1, PointFacts
    <3>3. first_points[v] <= PointOf(b, k)
      BY Zenon, <1>3, <2>3, <3>1
    <3> QED BY Zenon, <1>1, <3>1, <3>2, <3>3, PointsAreOrdered
  <2>4. CASE \A k \in 1 .. i - 1 : ~Writes(v, b, k)
    <3>1. \A k \in 1 .. j - 1 : k \in 1 .. i - 1 \/ k \in i .. j - 1
      BY Zenon, <1>1, <1>6, PointFacts
    <3>2. Exposed(v, b, j)
      BY Zenon, <1>6, <2>4, <3>1 DEF Exposed
    <3>3. CASE DefinedAtEntry(v, b)
      <4>1. first_points[v] = 0
        BY Zenon, <3>3 DEF DefinedAtEntry, IInv, EventInv
      <4> QED BY Zenon, <1>1, <2>1, <2>2, <4>1, PointFacts
    <3>4. CASE ~DefinedAtEntry(v, b)
      <4>1. v \in live_in[b]
        BY Zenon, <3>2, <3>4, DoneFacts
      <4> QED BY Zenon, <1>4, <4>1 DEF LiveBlocks
    <3> QED BY Zenon, <3>3, <3>4
  <2> QED BY Zenon, <2>1, <2>2, <2>3, <2>4
<1> QED BY Zenon, <1>2, <1>5, <1>6 DEF Ahead

\* Where a value is live after a position, the position writes it or it is
\* live before it too.
LEMMA LiveAfterFacts ==
  ASSUME IsFunction, NEW v, NEW b \in Block, NEW i \in Positions(b),
         Following(b, i) \cap LiveBefore(v) # {}
  PROVE  /\ Writes(v, b, i) \/ <<b, i>> \in LiveBefore(v)
         /\ i <= Len(insts[b]) => i + 1 \in Positions(b) /\ <<b, i + 1>> \in LiveBefore(v)
<1>1. Writes(v, b, i) \/ <<b, i>> \in LiveBefore(v)
  BY Zenon, LiveBeforeIsLeast
<1>2. ASSUME i <= Len(insts[b])
      PROVE  i + 1 \in Positions(b) /\ <<b, i + 1>> \in LiveBefore(v)
  <2>1. i + 1 \in Positions(b)
    BY Zenon, <1>2, PositionFacts
  <2>2. Following(b, i) = {<<b, i + 1>>}
    BY Zenon, <1>2 DEF Following
  <2> QED BY Zenon, <2>1, <2>2
<1> QED BY Zenon, <1>1, <1>2

\* The live_in sets that run_backward_dataflow hands to the intervals are the
\* path-liveness of the program at each block's first point, whatever the
\* blocks, the instructions and the phis.
THEOREM BlockLivenessIsExact == Spec => []BlockLivenessIsPathLiveness
<1>1. IInv => BlockLivenessIsPathLiveness
  <2> SUFFICES ASSUME IInv, phase = "done", NEW v \in Values, NEW b \in Block
               PROVE  v \in live_in[b] <=> <<b, 1>> \in LiveBefore(v) /\ ~DefinedAtEntry(v, b)
    BY Zenon DEF BlockLivenessIsPathLiveness, DefinedAtEntry
  <2>1. 1 \in Positions(b)
    BY Zenon, PositionFacts DEF IInv, TypeOK
  <2> QED BY Zenon, <2>1, LiveInIsLive, LiveIsAhead, AheadIsLiveIn
<1> QED BY <1>1, IInvHolds, PTL

\* The interval extend_intervals_from_liveness publishes for a value covers
\* every point the value is live before or after.
THEOREM IntervalsCoverLiveRanges == Spec => []IntervalCoversLiveRange
<1>1. IInv => IntervalCoversLiveRange
  <2> SUFFICES ASSUME IInv, phase = "done", NEW v \in Values, NEW b \in Block, NEW i \in Positions(b),
                      <<b, i>> \in LiveBefore(v) \/ Following(b, i) \cap LiveBefore(v) # {}
               PROVE  /\ first_points[v] # NoPoint
                      /\ first_points[v] <= PointOf(b, i) /\ PointOf(b, i) <= last_points[v]
    BY Zenon DEF IntervalCoversLiveRange
  <2>1. CASE <<b, i>> \in LiveBefore(v)
    BY Zenon, <2>1, LiveIsCovered
  <2>2. CASE Writes(v, b, i)
    <3>1. Numbered(b, i)
      BY Zenon DEF Numbered
    <3> QED BY Zenon, <2>2, <3>1 DEF IInv, EventInv
  <2> QED BY Zenon, <2>1, <2>2, LiveAfterFacts DEF IInv, TypeOK
<1> QED BY <1>1, IInvHolds, PTL

\* The strict comparisons behind crosses_call miss a call a value is live
\* across only when the call is the first point of the value's interval.
THEOREM UnmarkedCallsAreAtStart == Spec => []UnmarkedCallIsAtStart
<1>1. IInv => UnmarkedCallIsAtStart
  <2> SUFFICES ASSUME IInv, phase = "done", NEW v \in Values, v \notin crosses_call,
                      NEW b \in Block, NEW i \in Positions(b),
                      IsCall(b, i), <<b, i>> \in LiveBefore(v),
                      Following(b, i) \cap LiveBefore(v) # {}
               PROVE  PointOf(b, i) = first_points[v]
    BY Zenon DEF UnmarkedCallIsAtStart
  <2>1. IsFunction /\ i <= Len(insts[b])
    BY Zenon DEF IsCall, IInv, TypeOK
  <2>2. i + 1 \in Positions(b) /\ <<b, i + 1>> \in LiveBefore(v)
    BY Zenon, <2>1, LiveAfterFacts
  <2>3. /\ first_points[v] # NoPoint
        /\ first_points[v] <= PointOf(b, i) /\ PointOf(b, i + 1) <= last_points[v]
    BY Zenon, <2>2, LiveIsCovered
  <2>4. PointOf(b, i) \in Int /\ PointOf(b, i + 1) = PointOf(b, i) + 1
        /\ first_points[v] \in Nat \cup {NoPoint} /\ last_points[v] \in Nat
    BY Zenon, PointFacts DEF IInv, TypeOK
  <2>5. PointOf(b, i) \in call_points
    <3>1. Numbered(b, i)
      BY Zenon DEF Numbered
    <3> QED BY Zenon, <3>1 DEF IInv, EventInv
  <2>6. PointOf(b, i) <= first_points[v] \/ last_points[v] <= PointOf(b, i)
    BY Zenon, <2>3, <2>5 DEF IInv, PublishedInv
  <2> QED BY <2>3, <2>4, <2>6 DEF NoPoint
<1> QED BY <1>1, IInvHolds, PTL
=============================================================================
