----------------------------- MODULE LoopDepth ------------------------------
(***************************************************************************)
(* compute_loop_depth: a depth-first search from the entry block collects  *)
(* the back edges; for each of them the blocks that reach the latch are    *)
(* flooded backwards, and the depth of every flooded block is raised.      *)
(* Block 1 is the entry; successors are visited in increasing order.       *)
(***************************************************************************)
EXTENDS Integers, Sequences, FiniteSets

CONSTANT NumBlocks

ASSUME NumBlocksAssumption == NumBlocks \in Nat \ {0}

Block == 1 .. NumBlocks

VARIABLES
  successors,
  visited, on_stack,
  calls,          \* the dfs calls in progress: [block, todo successors]
  back_edges,     \* list of <<latch, header>>
  edge,           \* the back edge being flooded, 0 during the search
  in_loop, worklist,
  loop_depth

vars == <<successors, visited, on_stack, calls, back_edges, edge, in_loop,
          worklist, loop_depth>>

Init ==
  /\ successors \in [Block -> SUBSET Block]
  /\ visited = {1} /\ on_stack = {1}
  /\ calls = <<[block |-> 1, todo |-> successors[1]]>>
  /\ back_edges = << >>
  /\ edge = 0
  /\ in_loop = {} /\ worklist = << >>
  /\ loop_depth = [b \in Block |-> 0]

-----------------------------------------------------------------------------
Top == calls[Len(calls)]
WithoutTodo(s) == [calls EXCEPT ![Len(calls)].todo = @ \ {s}]
IsNextSuccessor(s) == s \in Top.todo /\ \A t \in Top.todo : s <= t

\* dfs(successor) for a successor not seen before.
Descend(s) ==
  /\ edge = 0 /\ calls # << >>
  /\ IsNextSuccessor(s)
  /\ s \notin visited
  /\ visited' = visited \cup {s} /\ on_stack' = on_stack \cup {s}
  /\ calls' = Append(WithoutTodo(s), [block |-> s, todo |-> successors[s]])
  /\ UNCHANGED <<successors, back_edges, edge, in_loop, worklist, loop_depth>>

SeeVisited_NotItself(s) ==
  /\ edge = 0 /\ calls # << >>
  /\ IsNextSuccessor(s)
  /\ s \in visited
  /\ back_edges' = IF s \in on_stack \ {Top.block} THEN Append(back_edges, <<Top.block, s>>)
                                                   ELSE back_edges
  /\ calls' = WithoutTodo(s)
  /\ UNCHANGED <<successors, visited, on_stack, edge, in_loop, worklist, loop_depth>>

\* A successor that is already visited; on the stack it closes a loop.
SeeVisited(s) ==
  /\ edge = 0 /\ calls # << >>
  /\ IsNextSuccessor(s)
  /\ s \in visited
  /\ back_edges' = IF s \in on_stack THEN Append(back_edges, <<Top.block, s>>) ELSE back_edges
  /\ calls' = WithoutTodo(s)
  /\ UNCHANGED <<successors, visited, on_stack, edge, in_loop, worklist, loop_depth>>

\* A dfs call returns.
Return ==
  /\ edge = 0 /\ calls # << >>
  /\ Top.todo = {}
  /\ on_stack' = on_stack \ {Top.block}
  /\ calls' = SubSeq(calls, 1, Len(calls) - 1)
  /\ UNCHANGED <<successors, visited, back_edges, edge, in_loop, worklist, loop_depth>>

Latch(e) == back_edges[e][1]
Header(e) == back_edges[e][2]

FloodFrom_LatchOnly(e) ==
  IF e <= Len(back_edges)
  THEN in_loop' = {Latch(e)} /\ worklist' = <<Latch(e)>>
  ELSE in_loop' = {} /\ worklist' = << >>

\* The loop of back edge e starts as its header and latch.
FloodFrom(e) ==
  IF e <= Len(back_edges)
  THEN in_loop' = {Header(e), Latch(e)} /\ worklist' = <<Latch(e)>>
  ELSE in_loop' = {} /\ worklist' = << >>

\* The search is over; the first back edge is taken up.
EndSearch ==
  /\ edge = 0 /\ calls = << >>
  /\ edge' = 1
  /\ FloodFrom(1)
  /\ UNCHANGED <<successors, visited, on_stack, calls, back_edges, loop_depth>>

predecessors(b) == {p \in Block : b \in successors[p]}

\* The blocks of S in the order of their indices.
SeqsOf(S) == {q \in [1 .. Cardinality(S) -> S] :
                /\ \A i, j \in 1 .. Cardinality(S) : i < j => q[i] < q[j]
                /\ \A b \in S : \E i \in 1 .. Cardinality(S) : q[i] = b}

FloodBlock_Unmarked ==
  LET new == predecessors(Head(worklist)) \ in_loop IN
  /\ edge \in 1 .. Len(back_edges)
  /\ worklist # << >>
  /\ \E q \in SeqsOf(new) : worklist' = Tail(worklist) \o q
  /\ UNCHANGED <<successors, visited, on_stack, calls, back_edges, edge, in_loop, loop_depth>>

\* One block of the worklist pulls in its predecessors.
FloodBlock ==
  LET new == predecessors(Head(worklist)) \ in_loop IN
  /\ edge \in 1 .. Len(back_edges)
  /\ worklist # << >>
  /\ in_loop' = in_loop \cup new
  /\ \E q \in SeqsOf(new) : worklist' = Tail(worklist) \o q
  /\ UNCHANGED <<successors, visited, on_stack, calls, back_edges, edge, loop_depth>>

\* The flood is over: raise the depth and take up the next back edge.
RaiseDepth ==
  /\ edge \in 1 .. Len(back_edges)
  /\ worklist = << >>
  /\ loop_depth' = [b \in Block |-> IF b \in in_loop THEN loop_depth[b] + 1 ELSE loop_depth[b]]
  /\ edge' = edge + 1
  /\ FloodFrom(edge + 1)
  /\ UNCHANGED <<successors, visited, on_stack, calls, back_edges>>

Next ==
  \/ \E s \in Block : Descend(s)
  \/ \E s \in Block : SeeVisited(s)
  \/ Return
  \/ EndSearch
  \/ FloodBlock
  \/ RaiseDepth

Spec == Init /\ [][Next]_vars
FairSpec == Spec /\ WF_vars(Next)

-----------------------------------------------------------------------------
(***************************************************************************)
(* Properties                                                              *)
(***************************************************************************)

Searched == edge > 0
Done == edge = Len(back_edges) + 1

\* X holds S and every block outside Stop with an edge of E into X.
IsClosed(X, S, E, Stop) ==
  /\ S \subseteq X
  /\ \A p \in Block \ Stop, q \in X : <<p, q>> \in E => p \in X

\* The blocks that reach the blocks of S along edges of the relation E that
\* do not start in a block of Stop: the least such set.
Reaches(S, E, Stop) ==
  {b \in Block : \A X \in SUBSET Block : IsClosed(X, S, E, Stop) => b \in X}

Edges == {e \in Block \X Block : e[2] \in successors[e[1]]}
BackEdges == {back_edges[e] : e \in DOMAIN back_edges}
OnCycle(b, E) == \E s \in Block : <<b, s>> \in E /\ s \in Reaches({b}, E, {})

\* Without its back edges the reachable program has no cycle: the search has
\* missed no loop.
BackEdgesBreakAllCycles ==
  Searched => \A b \in visited : ~OnCycle(b, Edges \ BackEdges)

\* The natural loop of a back edge: the blocks that reach the latch without
\* going through the header.
NaturalLoop(e) == {Header(e)} \cup Reaches({Latch(e)}, Edges, {Header(e)})

\* The depth of a block is the number of back edges whose natural loop it is
\* in, as long as no block is its own successor.
DepthCountsNaturalLoops ==
  Done /\ (\A b \in Block : b \notin successors[b]) =>
    \A b \in Block :
      loop_depth[b] = Cardinality({e \in DOMAIN back_edges : b \in NaturalLoop(e)})

\* The computation ends.
Terminates == <>Done

-----------------------------------------------------------------------------
(***************************************************************************)
(* The invariant the proofs rest on                                        *)
(***************************************************************************)
Call == [block : Block, todo : SUBSET Block]

TypeOK ==
  /\ successors \in [Block -> SUBSET Block]
  /\ visited \in SUBSET Block /\ on_stack \in SUBSET Block
  /\ calls \in Seq(Call)
  /\ back_edges \in Seq(Block \X Block)
  /\ edge \in Nat /\ (edge > 0 => calls = << >>)
  /\ in_loop \in SUBSET Block /\ worklist \in Seq(Block)
  /\ loop_depth \in [Block -> Nat]

\* The flags on_stack are the calls in progress, and no block is called twice.
StackIsCalls ==
  /\ \A b \in on_stack : \E i \in 1 .. Len(calls) : calls[i].block = b
  /\ \A i \in 1 .. Len(calls) : calls[i].block \in on_stack
  /\ \A i, j \in 1 .. Len(calls) : calls[i].block = calls[j].block => i = j
  /\ on_stack \subseteq visited

Finished == visited \ on_stack

\* A successor a call has dealt with is finished, the target of a back edge,
\* or the block of the next call.
HandledAreSettled ==
  \A i \in 1 .. Len(calls) :
    \A t \in successors[calls[i].block] \ calls[i].todo :
      \/ t \in Finished
      \/ <<calls[i].block, t>> \in BackEdges
      \/ i < Len(calls) /\ t = calls[i + 1].block

\* An edge out of a finished block is a back edge or leads to a finished block.
FinishedIsClosed ==
  \A b \in Finished : \A t \in successors[b] : t \in Finished \/ <<b, t>> \in BackEdges

FinishedIsAcyclic == \A b \in Finished : ~OnCycle(b, Edges \ BackEdges)

\* What is still to do in a call, and every back edge, is an edge.
TodoAreSuccessors == \A i \in 1 .. Len(calls) : calls[i].todo \subseteq successors[calls[i].block]
BackEdgesAreEdges == \A e \in 1 .. Len(back_edges) : Header(e) \in successors[Latch(e)]

SearchInv ==
  /\ TypeOK
  /\ StackIsCalls /\ TodoAreSuccessors /\ HandledAreSettled
  /\ BackEdgesAreEdges
  /\ FinishedIsClosed /\ FinishedIsAcyclic

NoSelfEdge == \A b \in Block : b \notin successors[b]

\* A flood stays inside the natural loop and never expands the header; every
\* other block of it is waiting in the worklist or has all its predecessors in.
FloodIsNatural ==
  edge \in 1 .. Len(back_edges) =>
    /\ Header(edge) \in in_loop /\ Latch(edge) \in in_loop
    /\ in_loop \subseteq NaturalLoop(edge)
    /\ \A i \in 1 .. Len(worklist) : worklist[i] \in in_loop \ {Header(edge)}
    /\ \A q \in in_loop \ {Header(edge)} :
         \/ \E i \in 1 .. Len(worklist) : worklist[i] = q
         \/ predecessors(q) \subseteq in_loop

Flooded(b, n) == {e \in 1 .. n : b \in NaturalLoop(e)}

\* The depth counts the natural loops flooded so far.
DepthIsCount ==
  /\ edge = 0 => \A b \in Block : loop_depth[b] = 0
  /\ edge > 0 => /\ edge <= Len(back_edges) + 1
                 /\ \A b \in Block : loop_depth[b] = Cardinality(Flooded(b, edge - 1))

FloodInv == NoSelfEdge => FloodIsNatural /\ DepthIsCount

IInv == SearchInv /\ FloodInv
=============================================================================
