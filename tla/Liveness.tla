------------------------------ MODULE Liveness ------------------------------
(***************************************************************************)
(* BirPreAlloc::run_liveness for one function: numbering the program       *)
(* points, the backward dataflow (module Dataflow), stretching the         *)
(* intervals over the blocks a value is live in or out of, and the         *)
(* crosses_call flag.                                                      *)
(*                                                                         *)
(* An instruction is what the analysis reads of it: the values it uses and *)
(* defines, whether it is a call, and, for a phi, the pairs <<predecessor, *)
(* value>> of its incomings.                                               *)
(***************************************************************************)
EXTENDS Dataflow, Sequences, FiniteSets

NoPoint == -1

Inst == [uses : SUBSET Values, defs : SUBSET Values, is_call : BOOLEAN,
         incomings : SUBSET (Block \X Values)]

\* The successors, the summaries and the live sets are Dataflow's.
VARIABLES
  insts,                     \* block -> its instructions
  terminator_uses,           \* block -> values its terminator uses
  parameters,                \* values of kind Parameter
  phase,                     \* "points", "dataflow", "intervals", "done"
  block, position,           \* the instruction about to be numbered
  total_points,
  start_point, end_point,    \* block -> its first and its terminator's point
  first_points, last_points,
  def_points, use_points,
  call_points,
  crosses_call

function == <<insts, terminator_uses, parameters, successors>>
flow == <<gen, kill, live_in, live_out, reverse_index, changed, finished>>
points == <<block, position, total_points, start_point, end_point,
            first_points, last_points, def_points, use_points, call_points>>
vars == <<function, flow, points, phase, crosses_call>>

\* A function: its body is chosen by the specification that uses this module.
IsFunction ==
  /\ insts \in [Block -> Seq(Inst)]
  /\ terminator_uses \in [Block -> SUBSET Values]
  /\ parameters \in SUBSET Values
  /\ successors \in [Block -> SUBSET Block]

\* The parameters are defined at the first point of the entry block.
Start ==
  /\ gen = [b \in Block |-> {}]
  /\ kill = [b \in Block |-> IF b = 1 THEN parameters ELSE {}]
  /\ FlowStart
  /\ phase = "points"
  /\ block = 1 /\ position = 1
  /\ total_points = 0
  /\ start_point = [b \in Block |-> 0]
  /\ end_point = [b \in Block |-> 0]
  /\ first_points = [v \in Values |-> IF v \in parameters THEN 0 ELSE NoPoint]
  /\ last_points = [v \in Values |-> 0]
  /\ def_points = [v \in Values |-> IF v \in parameters THEN 0 ELSE NoPoint]
  /\ use_points = [v \in Values |-> {}]
  /\ call_points = {}
  /\ crosses_call = {}

\* No branch goes back to the entry block.
EntryHasNoPredecessor == \A b \in Block : 1 \notin successors[b]

Init == IsFunction /\ EntryHasNoPredecessor /\ Start

-----------------------------------------------------------------------------
larger(m, n) == IF m > n THEN m ELSE n

collect_phi_predecessor_uses_Own(b) ==
  {v \in Values : \E i \in DOMAIN insts[b] : \E p \in Block : <<p, v>> \in insts[b][i].incomings}

\* A value a phi takes from predecessor b is used by b's terminator.
collect_phi_predecessor_uses(b) ==
  {v \in Values : \E c \in Block : \E i \in DOMAIN insts[c] : <<b, v>> \in insts[c][i].incomings}

\* record_point_activity at the current point: a use is upward exposed when
\* the block has not defined the value before.
record_point_activity(uses, defs) ==
  /\ use_points' = [v \in Values |-> IF v \in uses THEN use_points[v] \cup {total_points}
                                                   ELSE use_points[v]]
  /\ def_points' = [v \in Values |-> IF v \in defs /\ def_points[v] = NoPoint
                                     THEN total_points ELSE def_points[v]]
  /\ first_points' = [v \in Values |-> IF v \in uses \cup defs /\ first_points[v] = NoPoint
                                       THEN total_points ELSE first_points[v]]
  /\ last_points' = [v \in Values |-> IF v \in uses \cup defs
                                      THEN larger(last_points[v], total_points)
                                      ELSE last_points[v]]
  /\ gen' = [gen EXCEPT ![block] = @ \cup (uses \ kill[block])]
  /\ kill' = [kill EXCEPT ![block] = @ \cup defs]

\* assign_program_points: one instruction.
NumberInstruction ==
  LET inst == insts[block][position] IN
  /\ phase = "points"
  /\ position <= Len(insts[block])
  /\ record_point_activity(inst.uses, inst.defs)
  /\ call_points' = IF inst.is_call THEN call_points \cup {total_points} ELSE call_points
  /\ total_points' = total_points + 1
  /\ position' = position + 1
  /\ UNCHANGED <<function, live_in, live_out, reverse_index, changed, finished,
                 block, start_point, end_point, phase, crosses_call>>

\* assign_program_points: a terminator, with the uses the phis of other
\* blocks make on this block's way out; then on to the next block.
NumberTerminator ==
  /\ phase = "points"
  /\ position = Len(insts[block]) + 1
  /\ record_point_activity(terminator_uses[block] \cup collect_phi_predecessor_uses(block), {})
  /\ end_point' = [end_point EXCEPT ![block] = total_points]
  /\ total_points' = total_points + 1
  /\ \/ /\ block < NumBlocks
        /\ block' = block + 1 /\ position' = 1
        /\ start_point' = [start_point EXCEPT ![block + 1] = total_points + 1]
        /\ phase' = phase
     \/ /\ block = NumBlocks
        /\ phase' = "dataflow"
        /\ UNCHANGED <<block, position, start_point>>
  /\ UNCHANGED <<function, live_in, live_out, reverse_index, changed, finished,
                 call_points, crosses_call>>

\* run_backward_dataflow.
RunDataflow ==
  /\ phase = "dataflow"
  /\ FlowNext
  /\ phase' = IF finished' THEN "intervals" ELSE phase
  /\ UNCHANGED <<insts, terminator_uses, parameters, points, crosses_call>>

\* extend_intervals_from_liveness: the earliest start and the latest end of
\* the blocks the value is live in or out of, and of its own points.
LiveBlocks(v) == {b \in Block : v \in live_in[b] \cup live_out[b]}
ExtendedFirst(v) ==
  LET starts == {start_point[b] : b \in LiveBlocks(v)}
      known == IF first_points[v] = NoPoint THEN starts ELSE starts \cup {first_points[v]}
  IN  IF known = {} THEN NoPoint ELSE CHOOSE m \in known : \A n \in known : m <= n
ExtendedLast_StartOnly(v) ==
  LET known == {start_point[b] : b \in LiveBlocks(v)} \cup {last_points[v]}
  IN  CHOOSE m \in known : \A n \in known : n <= m
ExtendedLast(v) ==
  LET known == {end_point[b] : b \in LiveBlocks(v)} \cup {last_points[v]}
  IN  CHOOSE m \in known : \A n \in known : n <= m

CrossesCall_OwnPoints(v) ==
  \E c \in call_points : first_points[v] < c /\ c < last_points[v]

\* build_liveness_value: a call strictly inside the interval.
CrossesCall(v) ==
  \E c \in call_points : ExtendedFirst(v) < c /\ c < ExtendedLast(v)

PublishIntervals ==
  /\ phase = "intervals"
  /\ first_points' = [v \in Values |-> ExtendedFirst(v)]
  /\ last_points' = [v \in Values |-> ExtendedLast(v)]
  /\ crosses_call' = {v \in Values : ExtendedFirst(v) # NoPoint /\ CrossesCall(v)}
  /\ phase' = "done"
  /\ UNCHANGED <<function, flow, block, position, total_points, start_point,
                 end_point, def_points, use_points, call_points>>

Next == NumberInstruction \/ NumberTerminator \/ RunDataflow \/ PublishIntervals

Spec == Init /\ [][Next]_vars

-----------------------------------------------------------------------------
(***************************************************************************)
(* Properties.  The reference is the program itself: its instructions and  *)
(* terminators as nodes <<block, position>> and the paths between them.    *)
(***************************************************************************)

Positions(b) == 1 .. Len(insts[b]) + 1
Node == UNION {{<<b, i>> : i \in Positions(b)} : b \in Block}
Following(b, i) ==
  IF i <= Len(insts[b]) THEN {<<b, i + 1>>} ELSE {<<s, 1>> : s \in successors[b]}
Reads(v, b, i) ==
  IF i <= Len(insts[b]) THEN v \in insts[b][i].uses
  ELSE \/ v \in terminator_uses[b]
       \/ \E s \in Block : \E j \in DOMAIN insts[s] : <<b, v>> \in insts[s][j].incomings
Writes(v, b, i) == i <= Len(insts[b]) /\ v \in insts[b][i].defs
IsCall(b, i) == i <= Len(insts[b]) /\ insts[b][i].is_call
PointOf(b, i) == start_point[b] + i - 1

\* The nodes from which some path reads v before it writes v: the least set
\* that holds the nodes that read v and every node that leads into the set
\* without writing v.
LiveBefore(v) ==
  LET reads == {n \in Node : Reads(v, n[1], n[2])}
      passes == {n \in Node : ~Writes(v, n[1], n[2])}
      closed == {L \in SUBSET Node :
                   reads \subseteq L /\ \A n \in passes \ L : Following(n[1], n[2]) \cap L = {}}
  IN  {n \in Node : \A L \in closed : n \in L}

\* The block sets the dataflow ends with are the path-liveness of the program
\* at the block's first point: the gen and kill summaries, the predecessor
\* uses of phis and the parameters' definition at entry lose nothing.
BlockLivenessIsPathLiveness ==
  phase = "done" =>
    \A v \in Values : LET live == LiveBefore(v) IN \A b \in Block :
      v \in live_in[b] <=> <<b, 1>> \in live /\ ~(b = 1 /\ v \in parameters)

\* The one interval of a value covers every point where the value is live on
\* some path, wherever the blocks are laid out.
IntervalCoversLiveRange ==
  phase = "done" =>
    \A v \in Values : LET live == LiveBefore(v) IN \A b \in Block : \A i \in Positions(b) :
      <<b, i>> \in live \/ Following(b, i) \cap live # {} =>
        /\ first_points[v] # NoPoint
        /\ first_points[v] <= PointOf(b, i) /\ PointOf(b, i) <= last_points[v]

\* A call that a value is live across without being marked is the very first
\* point of the value's interval: the flag misses nothing else.
UnmarkedCallIsAtStart ==
  phase = "done" =>
    \A v \in Values \ crosses_call : LET live == LiveBefore(v) IN
      \A b \in Block : \A i \in Positions(b) :
        IsCall(b, i) /\ <<b, i>> \in live /\ Following(b, i) \cap live # {} =>
          PointOf(b, i) = first_points[v]

\* A value that is live into a call and still live after it is marked as
\* crossing a call.
LiveAcrossCallIsMarked ==
  phase = "done" =>
    \A v \in Values : LET live == LiveBefore(v) IN
      \A b \in Block : \A i \in Positions(b) :
        /\ IsCall(b, i) /\ ~Writes(v, b, i)
        /\ <<b, i>> \in live /\ Following(b, i) \cap live # {}
        => v \in crosses_call

-----------------------------------------------------------------------------
(***************************************************************************)
(* The inductive invariant.                                                *)
(***************************************************************************)

TypeOK ==
  /\ IsFunction
  /\ FlowTypeOK
  /\ phase \in {"points", "dataflow", "intervals", "done"}
  /\ block \in Block /\ position \in Positions(block)
  /\ total_points \in Nat
  /\ start_point \in [Block -> Nat] /\ end_point \in [Block -> Nat]
  /\ first_points \in [Values -> Nat \cup {NoPoint}] /\ last_points \in [Values -> Nat]
  /\ def_points \in [Values -> Nat \cup {NoPoint}] /\ use_points \in [Values -> SUBSET Nat]
  /\ call_points \in SUBSET Nat /\ crosses_call \in SUBSET Values

Numbered(b, i) == phase # "points" \/ b < block \/ (b = block /\ i < position)

\* Numbering lays the blocks out one after the other.
LayoutInv ==
  /\ phase = "points" => total_points = PointOf(block, position)
  /\ \A b \in Block : phase # "points" \/ b < block =>
       end_point[b] = start_point[b] + Len(insts[b])
  /\ \A b \in Block : \A i \in Positions(b) : Numbered(b, i) => PointOf(b, i) < total_points

\* The interval of a value holds every point where it is used or defined.
EventInv ==
  /\ \A v \in Values : first_points[v] <= total_points /\ last_points[v] <= total_points
  /\ \A v \in parameters : first_points[v] = 0
  /\ \A b \in Block : \A i \in Positions(b) : Numbered(b, i) =>
       /\ \A v \in Values : Reads(v, b, i) \/ Writes(v, b, i) =>
            /\ first_points[v] # NoPoint
            /\ first_points[v] <= PointOf(b, i) /\ PointOf(b, i) <= last_points[v]
       /\ IsCall(b, i) => PointOf(b, i) \in call_points

DefinedAtEntry(v, b) == b = 1 /\ v \in parameters

\* The read at position i of block b sees the value v had at the block's entry.
Exposed(v, b, i) == Reads(v, b, i) /\ \A k \in 1 .. i - 1 : ~Writes(v, b, k)

\* gen and kill summarise what has been numbered of a block.
SummaryInv ==
  \A b \in Block, v \in Values :
    /\ v \in gen[b] <=> /\ ~DefinedAtEntry(v, b)
                        /\ \E i \in Positions(b) : Numbered(b, i) /\ Exposed(v, b, i)
    /\ v \in kill[b] <=> \/ DefinedAtEntry(v, b)
                         \/ \E i \in Positions(b) : Numbered(b, i) /\ Writes(v, b, i)

FlowInv ==
  /\ phase = "points" => FlowStart
  /\ phase # "points" => FlowIInv
  /\ phase \in {"intervals", "done"} => finished

\* The published intervals hold the blocks the value is live in or out of, and
\* an unmarked one has no call strictly inside.
PublishedInv ==
  phase = "done" => \A v \in Values :
    /\ \A b \in LiveBlocks(v) : /\ first_points[v] # NoPoint
                                /\ first_points[v] <= start_point[b]
                                /\ end_point[b] <= last_points[v]
    /\ v \notin crosses_call /\ first_points[v] # NoPoint =>
         \A c \in call_points : c <= first_points[v] \/ last_points[v] <= c

IInv ==
  /\ TypeOK /\ EntryHasNoPredecessor
  /\ LayoutInv /\ EventInv /\ SummaryInv /\ FlowInv /\ PublishedInv
=============================================================================
