-------------------------- MODULE LoopDepthProofs ---------------------------
(***************************************************************************)
(* compute_loop_depth misses no loop and counts every natural loop once,   *)
(* for every number of blocks and every control-flow graph.                *)
(***************************************************************************)
EXTENDS LoopDepth, FiniteSetTheorems, SequenceTheorems, TLAPS

\* The blocks that reach S are closed under predecessors, and inside every
\* closed set.
LEMMA ReachesIsLeastClosed ==
  ASSUME NEW S \in SUBSET Block, NEW E, NEW Stop
  PROVE  /\ Reaches(S, E, Stop) \subseteq Block
         /\ IsClosed(Reaches(S, E, Stop), S, E, Stop)
         /\ \A X \in SUBSET Block : IsClosed(X, S, E, Stop) => Reaches(S, E, Stop) \subseteq X
BY Zenon DEF Reaches, IsClosed

\* What one dfs call does to the list of calls before it descends or moves on
\* to its next successor.
LEMMA WithoutTodoFacts ==
  ASSUME TypeOK, calls # << >>, NEW s
  PROVE  /\ Len(calls) \in Nat \ {0} /\ Top \in Call
         /\ WithoutTodo(s) \in Seq(Call)
         /\ Len(WithoutTodo(s)) = Len(calls)
         /\ \A i \in 1 .. Len(calls) :
              /\ calls[i] \in Call
              /\ WithoutTodo(s)[i].block = calls[i].block
              /\ WithoutTodo(s)[i].todo = IF i = Len(calls) THEN Top.todo \ {s}
                                                            ELSE calls[i].todo
<1>1. Len(calls) \in Nat \ {0} /\ calls \in [1 .. Len(calls) -> Call]
  BY DEF TypeOK
<1>2. Top \in Call
  BY <1>1 DEF Top
<1> DEFINE c == [Top EXCEPT !.todo = Top.todo \ {s}]
<1>3. WithoutTodo(s) = [calls EXCEPT ![Len(calls)] = c]
  BY Zenon, <1>1, <1>2 DEF WithoutTodo, Top, Call
<1>4. c \in Call /\ c.block = Top.block /\ c.todo = Top.todo \ {s}
  BY Zenon, <1>2 DEF Call
<1> HIDE DEF c
<1>5. WithoutTodo(s) \in [1 .. Len(calls) -> Call]
  BY Zenon, <1>1, <1>3, <1>4
<1>6. WithoutTodo(s) \in Seq(Call) /\ Len(WithoutTodo(s)) = Len(calls)
  BY <1>1, <1>5
<1>7. ASSUME NEW i \in 1 .. Len(calls)
      PROVE  WithoutTodo(s)[i] = IF i = Len(calls) THEN c ELSE calls[i]
  BY Zenon, <1>1, <1>3
<1>8. ASSUME NEW i \in 1 .. Len(calls)
      PROVE  /\ WithoutTodo(s)[i].block = calls[i].block
              /\ WithoutTodo(s)[i].todo = IF i = Len(calls) THEN Top.todo \ {s}
                                                            ELSE calls[i].todo
  BY Zenon, <1>4, <1>7 DEF Top
<1> QED BY Zenon, <1>1, <1>2, <1>6, <1>8

-----------------------------------------------------------------------------
\* A dfs call for a new successor keeps the invariant of the search.
LEMMA DescendKeepsSearch ==
  ASSUME SearchInv, NEW s \in Block, Descend(s)
  PROVE  SearchInv'
<1> DEFINE n == Len(calls)
           c == WithoutTodo(s)
           new == [block |-> s, todo |-> successors[s]]
<1>1. TypeOK /\ calls # << >>
  BY Zenon DEF SearchInv, Descend
<1>2. /\ n \in Nat \ {0} /\ Top \in Call
      /\ c \in Seq(Call)
      /\ Len(c) = n
      /\ \A i \in 1 .. n :
           /\ calls[i] \in Call
           /\ c[i].block = calls[i].block
           /\ c[i].todo = IF i = n THEN Top.todo \ {s} ELSE calls[i].todo
  BY <1>1, WithoutTodoFacts, Zenon
<1>3. /\ s \in Top.todo /\ s \notin visited /\ edge = 0
      /\ visited' = visited \cup {s} /\ on_stack' = on_stack \cup {s}
      /\ calls' = Append(c, new)
      /\ UNCHANGED <<successors, back_edges, edge, in_loop, worklist, loop_depth>>
  BY Zenon DEF Descend, IsNextSuccessor
<1>4. new \in Call /\ new.block = s /\ new.todo = successors[s]
  BY Zenon, <1>1 DEF TypeOK, Call
<1> HIDE DEF n, c, new
<1>5. /\ calls' \in Seq(Call) /\ Len(calls') = n + 1
      /\ calls'[n + 1] = new
      /\ \A i \in 1 .. n : calls'[i] = c[i]
  BY <1>2, <1>3, <1>4
<1>6. /\ \A i \in 1 .. n : /\ calls'[i].block = calls[i].block
                           /\ calls'[i].todo = IF i = n THEN Top.todo \ {s} ELSE calls[i].todo
      /\ calls'[n + 1].block = s /\ calls'[n + 1].todo = successors[s]
  <2>1. calls'[n + 1].block = s /\ calls'[n + 1].todo = successors[s]
    BY Zenon, <1>4, <1>5
  <2>2. ASSUME NEW i \in 1 .. n
        PROVE  /\ calls'[i].block = calls[i].block
               /\ calls'[i].todo = IF i = n THEN Top.todo \ {s} ELSE calls[i].todo
    <3>1. calls'[i] = c[i]
      BY Zenon, <1>5
    <3> QED BY Zenon, <1>2, <3>1
  <2> QED BY Zenon, <2>1, <2>2
<1>7. TypeOK'
  BY Zenon, <1>1, <1>3, <1>5 DEF TypeOK
<1>8. /\ \A b \in on_stack : \E i \in 1 .. n : calls[i].block = b
      /\ \A i \in 1 .. n : calls[i].block \in on_stack
      /\ \A i, j \in 1 .. n : calls[i].block = calls[j].block => i = j
      /\ on_stack \subseteq visited
  BY Zenon DEF SearchInv, StackIsCalls, n
<1>9. 1 .. (n + 1) = (1 .. n) \cup {n + 1} /\ n + 1 \notin 1 .. n
  BY <1>2
<1>10. StackIsCalls'
  <2>1. \A i \in 1 .. (n + 1) : calls'[i].block = IF i = n + 1 THEN s ELSE calls[i].block
    BY Zenon, <1>6, <1>9
  <2>2. \A b \in on_stack' : \E i \in 1 .. (n + 1) : calls'[i].block = b
    <3>1. ASSUME NEW b \in on_stack PROVE \E i \in 1 .. (n + 1) : calls'[i].block = b
      <4>1. PICK i \in 1 .. n : calls[i].block = b
        BY Zenon, <1>8
      <4>2. i \in 1 .. (n + 1) /\ calls'[i].block = b
        BY Zenon, <1>6, <1>9, <4>1
      <4> QED BY Zenon, <4>2
    <3> QED BY Zenon, <1>3, <1>6, <1>9, <3>1
  <2>3. \A i \in 1 .. (n + 1) : calls'[i].block \in on_stack'
    BY Zenon, <1>3, <1>6, <1>8, <1>9
  <2>4. \A i, j \in 1 .. (n + 1) : calls'[i].block = calls'[j].block => i = j
    <3> SUFFICES ASSUME NEW i \in 1 .. (n + 1), NEW j \in 1 .. (n + 1),
                        calls'[i].block = calls'[j].block
                 PROVE  i = j
      BY Zenon
    <3>1. ASSUME NEW k \in 1 .. n PROVE calls[k].block # s
      <4>1. calls[k].block \in visited
        BY Zenon, <1>8
      <4> QED BY Zenon, <1>3, <4>1
    <3>2. CASE i \in 1 .. n /\ j \in 1 .. n
      BY Zenon, <1>6, <1>8, <3>2
    <3>3. CASE i = n + 1 \/ j = n + 1
      BY Zenon, <1>6, <1>9, <3>1, <3>3
    <3> QED BY Zenon, <1>9, <3>2, <3>3
  <2> QED BY Zenon, <1>3, <1>5, <1>8, <2>2, <2>3, <2>4 DEF StackIsCalls
<1>11. Finished' = Finished /\ BackEdges' = BackEdges /\ Edges' = Edges
  BY <1>3, <1>8 DEF Finished, BackEdges, Edges
<1>12. HandledAreSettled'
  <2> SUFFICES ASSUME NEW i \in 1 .. (n + 1),
                      NEW t \in successors[calls'[i].block] \ calls'[i].todo
               PROVE  \/ t \in Finished
                      \/ <<calls'[i].block, t>> \in BackEdges
                      \/ i < n + 1 /\ t = calls'[i + 1].block
    BY <1>3, <1>5, <1>11 DEF HandledAreSettled
  <2>1. CASE i = n + 1
    BY Zenon, <1>6, <2>1
  <2>2. CASE i = n
    <3>1. n \in 1 .. n
      BY <1>2
    <3>2. t = s \/ t \in successors[calls[n].block] \ calls[n].todo
      BY Zenon, <1>6, <2>2, <3>1 DEF Top, n
    <3>3. CASE t = s
      BY <1>2, <1>6, <2>2, <3>3
    <3>4. CASE t \in successors[calls[n].block] \ calls[n].todo
      BY <1>2, <1>6, <2>2, <3>1, <3>4 DEF SearchInv, HandledAreSettled, n
    <3> QED BY Zenon, <3>2, <3>3, <3>4
  <2>3. CASE i \in 1 .. n /\ i # n
    <3>1. i < n /\ i + 1 \in 1 .. n /\ i < n + 1
      BY <1>2, <2>3
    <3>2. t \in successors[calls[i].block] \ calls[i].todo
      BY Zenon, <1>6, <2>3
    <3>3. \/ t \in Finished
          \/ <<calls[i].block, t>> \in BackEdges
          \/ t = calls[i + 1].block
      BY Zenon, <2>3, <3>2 DEF SearchInv, HandledAreSettled, n
    <3> QED BY Zenon, <1>6, <2>3, <3>1, <3>3
  <2> QED BY Zenon, <1>9, <2>1, <2>2, <2>3
<1>13. FinishedIsClosed' /\ FinishedIsAcyclic' /\ BackEdgesAreEdges'
  BY Zenon, <1>3, <1>11 DEF SearchInv, FinishedIsClosed, FinishedIsAcyclic, BackEdgesAreEdges,
                     Header, Latch
<1>14. TodoAreSuccessors'
  <2>1. \A i \in 1 .. n : calls[i].todo \subseteq successors[calls[i].block]
    BY Zenon DEF SearchInv, TodoAreSuccessors, n
  <2>2. \A i \in 1 .. n : calls'[i].todo \subseteq successors[calls'[i].block]
    BY Zenon, <1>6, <2>1 DEF Top, n
  <2>3. \A i \in 1 .. (n + 1) : calls'[i].todo \subseteq successors[calls'[i].block]
    BY Zenon, <1>6, <1>9, <2>2
  <2> QED BY Zenon, <1>3, <1>5, <2>3 DEF TodoAreSuccessors
<1> QED BY Zenon, <1>7, <1>10, <1>12, <1>13, <1>14 DEF SearchInv

\* A successor seen before keeps the invariant of the search.
LEMMA SeeVisitedKeepsSearch ==
  ASSUME SearchInv, NEW s \in Block, SeeVisited(s)
  PROVE  SearchInv'
<1> DEFINE n == Len(calls)
<1>1. TypeOK /\ calls # << >>
  BY Zenon DEF SearchInv, SeeVisited
<1>2. /\ s \in Top.todo /\ s \in visited /\ edge = 0
      /\ back_edges' = IF s \in on_stack THEN Append(back_edges, <<Top.block, s>>)
                                         ELSE back_edges
      /\ calls' = WithoutTodo(s)
      /\ UNCHANGED <<successors, visited, on_stack, edge, in_loop, worklist, loop_depth>>
  BY Zenon DEF SeeVisited, IsNextSuccessor
<1>3. /\ n \in Nat \ {0} /\ Top \in Call
      /\ calls' \in Seq(Call)
      /\ Len(calls') = n
      /\ \A i \in 1 .. n :
           /\ calls'[i].block = calls[i].block
           /\ calls'[i].todo = IF i = n THEN Top.todo \ {s} ELSE calls[i].todo
  BY <1>1, <1>2, WithoutTodoFacts, Zenon
<1> HIDE DEF n
<1>4. /\ back_edges' \in Seq(Block \X Block)
      /\ BackEdges \subseteq BackEdges'
      /\ s \in on_stack => <<Top.block, s>> \in BackEdges'
  <2>1. back_edges \in Seq(Block \X Block) /\ <<Top.block, s>> \in Block \X Block
    BY Zenon, <1>1, <1>3 DEF TypeOK, Call
  <2>2. CASE s \in on_stack
    <3>1. back_edges' = Append(back_edges, <<Top.block, s>>)
      BY Zenon, <1>2, <2>2
    <3>2. /\ back_edges' \in Seq(Block \X Block)
          /\ Len(back_edges') = Len(back_edges) + 1
          /\ \A e \in 1 .. Len(back_edges) : back_edges'[e] = back_edges[e]
          /\ back_edges'[Len(back_edges) + 1] = <<Top.block, s>>
          /\ DOMAIN back_edges' = 1 .. (Len(back_edges) + 1)
          /\ DOMAIN back_edges = 1 .. Len(back_edges) /\ Len(back_edges) \in Nat
      BY <2>1, <3>1
    <3> QED BY <3>2 DEF BackEdges
  <2>3. CASE s \notin on_stack
    BY Zenon, <1>2, <2>1, <2>3 DEF BackEdges
  <2> QED BY Zenon, <2>2, <2>3
<1>5. TypeOK'
  BY Zenon, <1>1, <1>2, <1>3, <1>4 DEF TypeOK
<1>6. StackIsCalls'
  <2>1. /\ \A b \in on_stack : \E i \in 1 .. n : calls[i].block = b
        /\ \A i \in 1 .. n : calls[i].block \in on_stack
        /\ \A i, j \in 1 .. n : calls[i].block = calls[j].block => i = j
        /\ on_stack \subseteq visited
    BY Zenon DEF SearchInv, StackIsCalls, n
  <2>2. \A i \in 1 .. n : calls'[i].block = calls[i].block
    BY Zenon, <1>3
  <2>3. /\ \A b \in on_stack : \E i \in 1 .. n : calls'[i].block = b
        /\ \A i \in 1 .. n : calls'[i].block \in on_stack
        /\ \A i, j \in 1 .. n : calls'[i].block = calls'[j].block => i = j
    BY Zenon, <2>1, <2>2
  <2> QED BY Zenon, <1>2, <1>3, <2>1, <2>3 DEF StackIsCalls
<1>7. Finished' = Finished /\ Edges' = Edges
  BY Zenon, <1>2 DEF Finished, Edges
<1>8. HandledAreSettled'
  <2> SUFFICES ASSUME NEW i \in 1 .. n,
                      NEW t \in successors[calls[i].block] \ calls'[i].todo
               PROVE  \/ t \in Finished
                      \/ <<calls[i].block, t>> \in BackEdges'
                      \/ i < n /\ t = calls'[i + 1].block
    <3>1. \A i \in 1 .. n : calls'[i].block = calls[i].block
      BY Zenon, <1>3
    <3>2. Len(calls') = n /\ successors' = successors
      BY Zenon, <1>2, <1>3
    <3> QED BY Zenon, <1>7, <3>1, <3>2 DEF HandledAreSettled
  <2>1. CASE t \in successors[calls[i].block] \ calls[i].todo
    <3>1. \/ t \in Finished
          \/ <<calls[i].block, t>> \in BackEdges
          \/ i < n /\ t = calls[i + 1].block
      BY Zenon, <2>1 DEF SearchInv, HandledAreSettled, n
    <3>2. i < n => i + 1 \in 1 .. n
      BY <1>3
    <3> QED BY Zenon, <1>3, <1>4, <3>1, <3>2
  <2>2. CASE i = n /\ t = s
    BY Zenon, <1>2, <1>4, <2>2 DEF Finished, Top, n
  <2> QED BY Zenon, <1>3, <2>1, <2>2 DEF Top, n
<1>9. FinishedIsClosed'
  BY Zenon, <1>2, <1>4, <1>7 DEF SearchInv, FinishedIsClosed
<1>10. FinishedIsAcyclic'
  <2> SUFFICES ASSUME NEW b \in Finished, NEW q \in Block, <<b, q>> \in Edges \ BackEdges',
                      q \in Reaches({b}, Edges \ BackEdges', {})
               PROVE  FALSE
    BY Zenon, <1>7 DEF FinishedIsAcyclic, OnCycle
  <2>1. q \in Reaches({b}, Edges \ BackEdges, {})
    BY Zenon, <1>4 DEF Reaches, IsClosed
  <2> QED BY Zenon, <1>4, <2>1 DEF SearchInv, FinishedIsAcyclic, OnCycle
<1>11. \A i \in 1 .. n : calls[i].todo \subseteq successors[calls[i].block]
  BY Zenon DEF SearchInv, TodoAreSuccessors, n
<1>12. TodoAreSuccessors'
  <2>1. \A i \in 1 .. n : calls'[i].todo \subseteq successors[calls'[i].block]
    BY Zenon, <1>3, <1>11 DEF Top, n
  <2> QED BY Zenon, <1>2, <1>3, <2>1 DEF TodoAreSuccessors
<1>13. BackEdgesAreEdges'
  <2>1. CASE s \notin on_stack
    BY Zenon, <1>2, <2>1 DEF SearchInv, BackEdgesAreEdges, Header, Latch
  <2>2. CASE s \in on_stack
    <3>1. back_edges' = Append(back_edges, <<Top.block, s>>) /\ successors' = successors
      BY Zenon, <1>2, <2>2
    <3>2. s \in successors[Top.block]
      BY <1>2, <1>3, <1>11 DEF Top, n
    <3>3. \A e \in 1 .. Len(back_edges) : back_edges[e][2] \in successors[back_edges[e][1]]
      BY Zenon DEF SearchInv, BackEdgesAreEdges, Header, Latch
    <3>4. back_edges \in Seq(Block \X Block)
      BY Zenon, <1>1 DEF TypeOK
    <3>5. /\ Len(back_edges') = Len(back_edges) + 1 /\ Len(back_edges) \in Nat
          /\ \A e \in 1 .. Len(back_edges) : back_edges'[e] = back_edges[e]
          /\ back_edges'[Len(back_edges) + 1] = <<Top.block, s>>
      BY <3>1, <3>4
    <3>6. ASSUME NEW e \in 1 .. Len(back_edges')
          PROVE  back_edges'[e][2] \in successors[back_edges'[e][1]]
      <4>1. e \in 1 .. Len(back_edges) \/ e = Len(back_edges) + 1
        BY <3>5
      <4> QED BY <3>2, <3>3, <3>5, <4>1
    <3> QED BY Zenon, <3>1, <3>6 DEF BackEdgesAreEdges, Header, Latch
  <2> QED BY Zenon, <2>1, <2>2
<1> QED BY Zenon, <1>5, <1>6, <1>8, <1>9, <1>10, <1>12, <1>13 DEF SearchInv

\* The block of a call that returns has only finished successors and back
\* edges, so it can close no cycle: the finished blocks never lead back to it.
LEMMA ReturnKeepsSearch ==
  ASSUME SearchInv, Return
  PROVE  SearchInv'
<1> DEFINE n == Len(calls)
           b == Top.block
<1>1. TypeOK /\ calls # << >>
  BY Zenon DEF SearchInv, Return
<1>2. /\ Top.todo = {} /\ edge = 0
      /\ on_stack' = on_stack \ {b}
      /\ calls' = SubSeq(calls, 1, n - 1)
      /\ UNCHANGED <<successors, visited, back_edges, edge, in_loop, worklist, loop_depth>>
  BY Zenon DEF Return
<1>3. n \in Nat \ {0} /\ Top \in Call /\ n \in 1 .. n /\ calls \in Seq(Call)
  BY <1>1 DEF TypeOK, Top
<1>4. /\ calls' \in Seq(Call) /\ Len(calls') = n - 1
      /\ \A i \in 1 .. (n - 1) : calls'[i] = calls[i]
      /\ 1 .. n = (1 .. (n - 1)) \cup {n}
  <2>1. 1 \in 1 .. (n + 1) /\ n - 1 \in (1 - 1) .. n /\ (n - 1) - 1 + 1 = n - 1
    BY <1>3
  <2>2. /\ calls' \in Seq(Call) /\ Len(calls') = n - 1
        /\ \A i \in 1 .. (n - 1) : calls'[i] = calls[1 + i - 1]
    BY <1>2, <1>3, <2>1, SubSeqProperties DEF n
  <2> QED BY <1>3, <2>2
<1>5. b \in Block /\ b = calls[n].block
  BY Zenon, <1>3 DEF Call, Top
<1>6. /\ \A c \in on_stack : \E i \in 1 .. n : calls[i].block = c
      /\ \A i \in 1 .. n : calls[i].block \in on_stack
      /\ \A i, j \in 1 .. n : calls[i].block = calls[j].block => i = j
      /\ on_stack \subseteq visited
  BY Zenon DEF SearchInv, StackIsCalls
<1> HIDE DEF n, b
<1>7. TypeOK'
  BY Zenon, <1>1, <1>2, <1>4 DEF TypeOK
<1>8. StackIsCalls'
  <2>1. \A c \in on_stack' : \E i \in 1 .. (n - 1) : calls'[i].block = c
    <3> SUFFICES ASSUME NEW c \in on_stack, c # b
                 PROVE  \E i \in 1 .. (n - 1) : calls'[i].block = c
      BY Zenon, <1>2
    <3>1. PICK i \in 1 .. n : calls[i].block = c
      BY Zenon, <1>6
    <3> QED BY Zenon, <1>4, <1>5, <3>1
  <2>2. \A i \in 1 .. (n - 1) : calls'[i].block \in on_stack'
    BY <1>2, <1>3, <1>4, <1>5, <1>6
  <2>3. \A i, j \in 1 .. (n - 1) : calls'[i].block = calls'[j].block => i = j
    BY Zenon, <1>4, <1>6
  <2> QED BY Zenon, <1>2, <1>4, <1>6, <2>1, <2>2, <2>3 DEF StackIsCalls
<1>9. /\ Finished' = Finished \cup {b} /\ b \notin Finished
      /\ BackEdges' = BackEdges /\ Edges' = Edges
  BY <1>2, <1>3, <1>5, <1>6 DEF Finished, BackEdges, Edges
<1>10. \A t \in successors[b] : t \in Finished \/ <<b, t>> \in BackEdges
  BY <1>2, <1>3, <1>5 DEF SearchInv, HandledAreSettled, Top, n
<1>11. HandledAreSettled'
  <2>1. \A i \in 1 .. (n - 1) :
          i \in 1 .. n /\ (i + 1 = n \/ (i < n - 1 /\ i + 1 \in 1 .. (n - 1)))
    BY <1>3
  <2>2. ASSUME NEW i \in 1 .. (n - 1), NEW t \in successors[calls[i].block] \ calls[i].todo
        PROVE  \/ t \in Finished \cup {b}
               \/ <<calls[i].block, t>> \in BackEdges
               \/ i < n - 1 /\ t = calls'[i + 1].block
    <3>1. \/ t \in Finished
          \/ <<calls[i].block, t>> \in BackEdges
          \/ t = calls[i + 1].block
      BY Zenon, <2>1 DEF SearchInv, HandledAreSettled, n
    <3> QED BY Zenon, <1>4, <1>5, <2>1, <3>1
  <2>3. successors' = successors /\ Len(calls') = n - 1
    BY Zenon, <1>2, <1>4
  <2>4. \A i \in 1 .. (n - 1) : calls'[i] = calls[i]
    BY Zenon, <1>4
  <2> QED BY Zenon, <1>9, <2>2, <2>3, <2>4 DEF HandledAreSettled
<1>12. FinishedIsClosed'
  BY Zenon, <1>2, <1>9, <1>10 DEF SearchInv, FinishedIsClosed
<1>13. FinishedIsAcyclic'
  <2> DEFINE E == Edges \ BackEdges
             X == Block \ Finished
  <2>1. IsClosed(X, {b}, E, {})
    <3>1. \A p \in Block, q \in X : <<p, q>> \in E => p \in X
      <4> SUFFICES ASSUME NEW p \in Finished, NEW q \in Block, <<p, q>> \in Edges,
                          <<p, q>> \notin BackEdges
                   PROVE  q \in Finished
        BY Zenon
      <4>1. q \in successors[p]
        BY Zenon DEF Edges
      <4> QED BY Zenon, <4>1 DEF SearchInv, FinishedIsClosed
    <3> QED BY Zenon, <1>5, <1>9, <3>1 DEF IsClosed
  <2>2. Reaches({b}, E, {}) \subseteq X
    <3>1. {b} \in SUBSET Block /\ X \in SUBSET Block
      BY Zenon, <1>5
    <3> HIDE DEF X, E
    <3> QED BY Zenon, <2>1, <3>1, ReachesIsLeastClosed
  <2>3. ASSUME NEW q \in Block, <<b, q>> \in E PROVE q \in Finished
    <3>1. q \in successors[b]
      BY Zenon, <2>3 DEF Edges
    <3> QED BY Zenon, <1>10, <2>3, <3>1
  <2>4. ~OnCycle(b, E)
    BY Zenon, <2>2, <2>3 DEF OnCycle
  <2> QED BY Zenon, <1>9, <2>4 DEF SearchInv, FinishedIsAcyclic
<1>14. TodoAreSuccessors' /\ BackEdgesAreEdges'
  <2>1. \A i \in 1 .. (n - 1) : calls'[i].todo \subseteq successors[calls'[i].block]
    BY Zenon, <1>4 DEF SearchInv, TodoAreSuccessors, n
  <2>2. TodoAreSuccessors'
    BY Zenon, <1>2, <1>4, <2>1 DEF TodoAreSuccessors
  <2> QED BY Zenon, <1>2, <2>2 DEF SearchInv, BackEdgesAreEdges, Header, Latch
<1> QED BY Zenon, <1>7, <1>8, <1>11, <1>12, <1>13, <1>14 DEF SearchInv

\* The search starts in its invariant.
LEMMA InitEstablishesSearch ==
  ASSUME Init
  PROVE  SearchInv
<1>1. 1 \in Block /\ successors \in [Block -> SUBSET Block]
  BY NumBlocksAssumption DEF Init, Block
<1> DEFINE c == [block |-> 1, todo |-> successors[1]]
<1>2. c \in Call /\ c.block = 1 /\ c.todo = successors[1]
  BY Zenon, <1>1 DEF Call
<1>3. calls = <<c>>
  BY Zenon DEF Init
<1> HIDE DEF c
<1>4. /\ calls \in Seq(Call) /\ Len(calls) = 1 /\ calls[1] = c
      /\ \A i \in 1 .. Len(calls) : i = 1
  BY <1>2, <1>3
<1>5. /\ visited = {1} /\ on_stack = {1} /\ back_edges = << >> /\ edge = 0
      /\ in_loop = {} /\ worklist = << >> /\ loop_depth = [b \in Block |-> 0]
  BY Zenon DEF Init
<1>6. TypeOK
  BY <1>1, <1>4, <1>5 DEF TypeOK
<1>7. StackIsCalls
  <2>1. 1 \in 1 .. Len(calls)
    BY <1>4
  <2> QED BY Zenon, <1>2, <1>4, <1>5, <2>1 DEF StackIsCalls
<1>8. TodoAreSuccessors /\ HandledAreSettled
  BY Zenon, <1>2, <1>4 DEF TodoAreSuccessors, HandledAreSettled
<1>9. Finished = {}
  BY Zenon, <1>5 DEF Finished
<1>10. BackEdgesAreEdges
  BY <1>5 DEF BackEdgesAreEdges
<1> QED BY Zenon, <1>6, <1>7, <1>8, <1>9, <1>10 DEF SearchInv, FinishedIsClosed, FinishedIsAcyclic

\* The floods leave what the search has computed alone.
LEMMA FloodKeepsSearch ==
  ASSUME SearchInv, TypeOK', UNCHANGED <<successors, visited, on_stack, calls, back_edges>>
  PROVE  SearchInv'
<1>1. /\ Finished' = Finished /\ BackEdges' = BackEdges /\ Edges' = Edges
      /\ successors' = successors /\ calls' = calls
  BY Zenon DEF Finished, BackEdges, Edges
<1>2. StackIsCalls' /\ TodoAreSuccessors' /\ BackEdgesAreEdges'
  BY Zenon DEF SearchInv, StackIsCalls, TodoAreSuccessors, BackEdgesAreEdges, Header, Latch
<1>3. HandledAreSettled' /\ FinishedIsClosed' /\ FinishedIsAcyclic'
  BY Zenon, <1>1 DEF SearchInv, HandledAreSettled, FinishedIsClosed, FinishedIsAcyclic
<1> QED BY Zenon, <1>2, <1>3 DEF SearchInv

-----------------------------------------------------------------------------
\* Latch and header of a back edge are blocks, and its natural loop a set of
\* blocks that depends only on the edges and the back edges.
LEMMA LoopFacts ==
  ASSUME SearchInv, NEW e \in 1 .. Len(back_edges)
  PROVE  /\ Latch(e) \in Block /\ Header(e) \in Block
         /\ Header(e) \in successors[Latch(e)]
         /\ {Latch(e)} \in SUBSET Block
         /\ NoSelfEdge => Latch(e) # Header(e)
<1>1. Latch(e) \in Block /\ Header(e) \in Block
  <2>1. back_edges[e] \in Block \X Block
    BY DEF SearchInv, TypeOK
  <2> QED BY Zenon, <2>1 DEF Latch, Header
<1>2. Header(e) \in successors[Latch(e)]
  BY Zenon DEF SearchInv, BackEdgesAreEdges
<1> QED BY Zenon, <1>1, <1>2 DEF NoSelfEdge

\* While the edges and the back edges stay, so do the loops they close.
LEMMA LoopsAreFixed ==
  ASSUME UNCHANGED <<successors, back_edges>>
  PROVE  /\ \A e : /\ Latch(e)' = Latch(e) /\ Header(e)' = Header(e)
                   /\ NaturalLoop(e)' = NaturalLoop(e)
         /\ \A q : predecessors(q)' = predecessors(q)
BY Zenon DEF Latch, Header, NaturalLoop, Edges, predecessors

\* The depths count the loops flooded so far.
LEMMA DepthIsCountNext ==
  ASSUME UNCHANGED <<successors, back_edges>>, NEW n \in Nat,
         edge' = n + 1, n <= Len(back_edges),
         Len(back_edges) \in Nat,
         \A b \in Block : loop_depth'[b] = Cardinality(Flooded(b, n))
  PROVE  DepthIsCount'
<1>1. edge' - 1 = n /\ edge' # 0 /\ edge' <= Len(back_edges) + 1
  OBVIOUS
<1>2. \A b \in Block : Flooded(b, n) = {e \in 1 .. (edge' - 1) : b \in NaturalLoop(e)'}
  BY Zenon, <1>1, LoopsAreFixed DEF Flooded
<1>3. \A b \in Block :
        loop_depth'[b] = Cardinality({e \in 1 .. (edge' - 1) : b \in NaturalLoop(e)'})
  BY Zenon, <1>2
<1> QED BY Zenon, <1>1, <1>3 DEF DepthIsCount, Flooded

\* The flood of a back edge starts from its header and its latch.
LEMMA FloodFromTypes ==
  ASSUME SearchInv, NEW e \in Nat \ {0}, FloodFrom(e)
  PROVE  in_loop' \in SUBSET Block /\ worklist' \in Seq(Block)
<1>1. CASE e <= Len(back_edges)
  <2>1. e \in 1 .. Len(back_edges)
    BY <1>1 DEF SearchInv, TypeOK
  <2>2. Latch(e) \in Block /\ Header(e) \in Block
    BY Zenon, <2>1, LoopFacts
  <2>3. in_loop' = {Header(e), Latch(e)} /\ worklist' = <<Latch(e)>>
    BY Zenon, <1>1 DEF FloodFrom
  <2> QED BY <2>2, <2>3
<1>2. CASE ~(e <= Len(back_edges))
  BY <1>2 DEF FloodFrom
<1> QED BY Zenon, <1>1, <1>2

\* A loop starts as its header and latch, with the latch to expand.
LEMMA FloodStarts ==
  ASSUME SearchInv, NoSelfEdge, NEW e \in Nat \ {0}, FloodFrom(e), edge' = e,
         UNCHANGED <<successors, back_edges>>
  PROVE  FloodIsNatural'
<1>1. CASE e \in 1 .. Len(back_edges)
  <2>1. /\ in_loop' = {Header(e), Latch(e)} /\ worklist' = <<Latch(e)>>
    BY <1>1 DEF FloodFrom
  <2>2. /\ Latch(e) \in Block /\ Header(e) \in Block /\ {Latch(e)} \in SUBSET Block
        /\ Latch(e) # Header(e)
    BY Zenon, <1>1, LoopFacts
  <2>3. in_loop' \subseteq NaturalLoop(e)
    <3>1. Latch(e) \in Reaches({Latch(e)}, Edges, {Header(e)})
      BY Zenon, <2>2 DEF Reaches, IsClosed
    <3> QED BY Zenon, <2>1, <3>1 DEF NaturalLoop
  <2>4. /\ worklist' \in Seq(Block) /\ Len(worklist') = 1 /\ worklist'[1] = Latch(e)
        /\ 1 \in 1 .. Len(worklist') /\ \A i \in 1 .. Len(worklist') : i = 1
    BY <2>1, <2>2
  <2>5. /\ Header(edge)' = Header(e) /\ Latch(edge)' = Latch(e)
        /\ NaturalLoop(edge)' = NaturalLoop(e)
    BY Zenon DEF Header, Latch, NaturalLoop, Edges
  <2>6. /\ Header(e) \in in_loop' /\ Latch(e) \in in_loop'
        /\ \A i \in 1 .. Len(worklist') : worklist'[i] \in in_loop' \ {Header(e)}
        /\ \A q \in in_loop' \ {Header(e)} : \E i \in 1 .. Len(worklist') : worklist'[i] = q
    BY Zenon, <2>1, <2>2, <2>4
  <2> QED BY Zenon, <2>3, <2>5, <2>6 DEF FloodIsNatural
<1>2. CASE e \notin 1 .. Len(back_edges)
  BY Zenon, <1>2 DEF FloodIsNatural
<1> QED BY Zenon, <1>1, <1>2

\* The worklist of a flood: its first block leaves, the new blocks join, and
\* all the others stay.
LEMMA FloodBlockFacts ==
  ASSUME SearchInv, FloodBlock,
         NEW new, new = predecessors(Head(worklist)) \ in_loop
  PROVE  /\ Head(worklist) \in Block
         /\ \E i \in 1 .. Len(worklist) : worklist[i] = Head(worklist)
         /\ in_loop' = in_loop \cup new /\ in_loop' \in SUBSET Block
         /\ worklist' \in Seq(Block)
         /\ \A i \in 1 .. Len(worklist') :
              worklist'[i] \in new \/ \E j \in 1 .. Len(worklist) : worklist[j] = worklist'[i]
         /\ \A j \in 1 .. Len(worklist) :
              \/ worklist[j] = Head(worklist)
              \/ \E i \in 1 .. Len(worklist') : worklist'[i] = worklist[j]
         /\ \A q \in new : \E i \in 1 .. Len(worklist') : worklist'[i] = q
<1> DEFINE k == Cardinality(new)
           n == Len(worklist)
<1>1. worklist # << >> /\ in_loop' = in_loop \cup new
  BY Zenon DEF FloodBlock
<1>2. PICK s \in SeqsOf(new) : worklist' = Tail(worklist) \o s
  BY Zenon DEF FloodBlock
<1>3. in_loop \in SUBSET Block /\ worklist \in Seq(Block) /\ new \in SUBSET Block
  BY Zenon DEF SearchInv, TypeOK, predecessors
<1>4. /\ s \in [1 .. k -> new]
      /\ \A b \in new : \E i \in 1 .. k : s[i] = b
  BY Zenon, <1>2 DEF SeqsOf
<1>5. k \in Nat
  <2>1. 1 \in Int /\ NumBlocks \in Int
    BY NumBlocksAssumption
  <2>2. IsFiniteSet(Block)
    BY Zenon, <2>1, FS_Interval DEF Block
  <2>3. IsFiniteSet(new)
    BY Zenon, <1>3, <2>2, FS_Subset
  <2> QED BY Zenon, <2>3, FS_CardinalityType
<1>6. s \in Seq(Block) /\ Len(s) = k
  <2> HIDE DEF k
  <2> QED BY <1>3, <1>4, <1>5
<1>7. /\ n \in Nat \ {0} /\ Head(worklist) = worklist[1] /\ Head(worklist) \in Block
      /\ Tail(worklist) \in Seq(Block) /\ Len(Tail(worklist)) = n - 1
      /\ \A i \in 1 .. (n - 1) : Tail(worklist)[i] = worklist[i + 1]
  BY <1>1, <1>3
<1> HIDE DEF k, n
<1>8. /\ worklist' \in Seq(Block) /\ Len(worklist') = n - 1 + k
      /\ \A i \in 1 .. (n - 1 + k) :
           worklist'[i] = IF i <= n - 1 THEN Tail(worklist)[i] ELSE s[i - (n - 1)]
  BY <1>2, <1>6, <1>7, ConcatProperties
<1>9. \A i \in 1 .. (n - 1) :
        /\ i \in 1 .. (n - 1 + k) /\ i + 1 \in 1 .. n
        /\ worklist'[i] = worklist[i + 1]
  BY <1>5, <1>7, <1>8
<1>10. \A i \in 1 .. k : (n - 1) + i \in 1 .. (n - 1 + k) /\ worklist'[(n - 1) + i] = s[i]
  BY <1>5, <1>7, <1>8
<1>11. ASSUME NEW i \in 1 .. (n - 1 + k)
       PROVE  worklist'[i] \in new \/ \E j \in 1 .. n : worklist[j] = worklist'[i]
  <2>1. CASE i \in 1 .. (n - 1)
    BY Zenon, <1>9, <2>1
  <2>2. CASE i \notin 1 .. (n - 1)
    <3>1. i - (n - 1) \in 1 .. k /\ worklist'[i] = s[i - (n - 1)]
      BY <1>5, <1>7, <1>8, <2>2
    <3> QED BY Zenon, <1>4, <3>1
  <2> QED BY Zenon, <2>1, <2>2
<1>12. ASSUME NEW j \in 1 .. n
       PROVE  \/ worklist[j] = Head(worklist)
              \/ \E i \in 1 .. (n - 1 + k) : worklist'[i] = worklist[j]
  <2>1. CASE j = 1
    BY Zenon, <1>7, <2>1
  <2>2. CASE j # 1
    <3>1. j - 1 \in 1 .. (n - 1) /\ (j - 1) + 1 = j
      BY <1>7, <2>2
    <3> QED BY Zenon, <1>9, <3>1
  <2> QED BY Zenon, <2>1, <2>2
<1>13. ASSUME NEW q \in new PROVE \E i \in 1 .. (n - 1 + k) : worklist'[i] = q
  <2>1. PICK i \in 1 .. k : s[i] = q
    BY Zenon, <1>4
  <2> QED BY Zenon, <1>10, <2>1
<1>14. 1 \in 1 .. n /\ in_loop' \in SUBSET Block
  BY <1>1, <1>3, <1>7
<1> QED BY Zenon, <1>1, <1>7, <1>8, <1>11, <1>12, <1>13, <1>14 DEF n

\* A flooded block adds its predecessors, and keeps the invariant of the flood.
LEMMA FloodBlockKeepsFlood ==
  ASSUME SearchInv, NoSelfEdge, FloodIsNatural, FloodBlock
  PROVE  FloodIsNatural'
<1> DEFINE h == Head(worklist)
           new == predecessors(h) \ in_loop
           H == Header(edge)
           N == NaturalLoop(edge)
           Waiting(q) == \E i \in 1 .. Len(worklist) : worklist[i] = q
           WaitingNext(q) == \E i \in 1 .. Len(worklist') : worklist'[i] = q
<1>1. edge \in 1 .. Len(back_edges) /\ UNCHANGED <<successors, back_edges, edge>>
  BY Zenon DEF FloodBlock
<1>2. /\ h \in Block /\ Waiting(h)
      /\ in_loop' = in_loop \cup new
      /\ \A i \in 1 .. Len(worklist') : worklist'[i] \in new \/ Waiting(worklist'[i])
      /\ \A i \in 1 .. Len(worklist) : worklist[i] = h \/ WaitingNext(worklist[i])
      /\ \A q \in new : WaitingNext(q)
  BY Zenon, FloodBlockFacts
<1>3. Latch(edge) \in Block /\ H \in Block /\ {Latch(edge)} \in SUBSET Block
  BY Zenon, <1>1, LoopFacts
<1>4. \A p \in new : p \in Block /\ h \in successors[p] /\ p \notin in_loop
  BY Zenon DEF predecessors
<1>5. /\ H \in in_loop /\ Latch(edge) \in in_loop
      /\ in_loop \subseteq N
      /\ \A i \in 1 .. Len(worklist) : worklist[i] \in in_loop \ {H}
      /\ \A q \in in_loop \ {H} : Waiting(q) \/ predecessors(q) \subseteq in_loop
  BY Zenon, <1>1 DEF FloodIsNatural
<1>6. h \in in_loop /\ h # H
  BY Zenon, <1>2, <1>5
<1>7. in_loop' \subseteq N
  <2>1. h \in Reaches({Latch(edge)}, Edges, {H})
    BY Zenon, <1>5, <1>6 DEF NaturalLoop
  <2>2. ASSUME NEW p \in new PROVE p \in Reaches({Latch(edge)}, Edges, {H})
    <3>1. p \in Block \ {H} /\ <<p, h>> \in Edges
      <4> HIDE DEF new, H, h
      <4> QED BY Zenon, <1>2, <1>4, <1>5 DEF Edges
    <3> HIDE DEF new, H, h
    <3> QED BY Zenon, <1>3, <2>1, <3>1, ReachesIsLeastClosed DEF IsClosed
  <2> QED BY Zenon, <1>2, <1>5, <2>2 DEF NaturalLoop
<1>8. \A i \in 1 .. Len(worklist') : worklist'[i] \in in_loop' \ {H}
  BY Zenon, <1>2, <1>4, <1>5
<1>9. ASSUME NEW q \in in_loop' \ {H}
      PROVE  WaitingNext(q) \/ predecessors(q) \subseteq in_loop'
  <2>1. CASE q \in new
    BY Zenon, <1>2, <2>1
  <2>2. CASE q = h
    BY Zenon, <1>2, <2>2
  <2>3. CASE q \in in_loop /\ q # h
    <3>1. CASE Waiting(q)
      BY Zenon, <1>2, <2>3, <3>1
    <3>2. CASE predecessors(q) \subseteq in_loop
      BY Zenon, <1>2, <3>2
    <3> QED BY Zenon, <1>5, <1>9, <2>3, <3>1, <3>2
  <2> QED BY Zenon, <1>2, <1>9, <2>1, <2>2, <2>3
<1>10. /\ Header(edge)' = H /\ Latch(edge)' = Latch(edge) /\ NaturalLoop(edge)' = N
       /\ \A q : predecessors(q)' = predecessors(q)
  BY Zenon, <1>1 DEF Header, Latch, NaturalLoop, Edges, predecessors
<1>11. Header(edge)' \in in_loop' /\ Latch(edge)' \in in_loop'
  BY Zenon, <1>2, <1>5, <1>10
<1> QED BY Zenon, <1>7, <1>8, <1>9, <1>10, <1>11 DEF FloodIsNatural

\* When the worklist is empty the flood is the natural loop: the blocks in it
\* other than the header are closed under predecessors.
LEMMA FloodEndsWithLoop ==
  ASSUME SearchInv, NoSelfEdge, FloodIsNatural, edge \in 1 .. Len(back_edges),
         worklist = << >>
  PROVE  in_loop = NaturalLoop(edge)
<1> DEFINE H == Header(edge)
           X == in_loop \ {H}
<1>1. /\ H \in in_loop /\ Latch(edge) \in in_loop /\ in_loop \subseteq NaturalLoop(edge)
      /\ \A q \in X : \/ \E i \in 1 .. Len(worklist) : worklist[i] = q
                      \/ predecessors(q) \subseteq in_loop
  BY Zenon DEF FloodIsNatural
<1>2. 1 .. Len(worklist) = {}
  OBVIOUS
<1>3. /\ Latch(edge) # H /\ {Latch(edge)} \in SUBSET Block
      /\ X \in SUBSET Block
  BY Zenon, LoopFacts DEF SearchInv, TypeOK
<1>4. IsClosed(X, {Latch(edge)}, Edges, {H})
  <2>1. ASSUME NEW p \in Block \ {H}, NEW q \in X, <<p, q>> \in Edges PROVE p \in X
    <3>1. p \in predecessors(q)
      BY Zenon, <2>1 DEF Edges, predecessors
    <3> QED BY Zenon, <1>1, <1>2, <3>1
  <2> QED BY Zenon, <1>1, <1>3, <2>1 DEF IsClosed
<1>5. Reaches({Latch(edge)}, Edges, {H}) \subseteq X
  <2> HIDE DEF X, H
  <2> QED BY Zenon, <1>3, <1>4, ReachesIsLeastClosed
<1> QED BY Zenon, <1>1, <1>5 DEF NaturalLoop

\* The search leaves the flood alone.
LEMMA SearchStepKeepsFlood ==
  ASSUME FloodInv, edge = 0, UNCHANGED <<successors, edge, loop_depth>>
  PROVE  FloodInv'
<1> SUFFICES ASSUME NoSelfEdge' PROVE FloodIsNatural' /\ DepthIsCount'
  BY Zenon DEF FloodInv
<1>1. NoSelfEdge
  BY Zenon DEF NoSelfEdge
<1>2. DepthIsCount
  BY Zenon, <1>1 DEF FloodInv
<1>3. ~(edge' \in 1 .. Len(back_edges')) /\ ~(edge' > 0) /\ edge' = 0
  OBVIOUS
<1> QED BY Zenon, <1>2, <1>3 DEF FloodIsNatural, DepthIsCount

\* The end of the search keeps the invariant.
LEMMA EndSearchKeepsIInv ==
  ASSUME IInv, EndSearch
  PROVE  IInv'
<1>1. /\ edge = 0 /\ edge' = 1 /\ calls = << >> /\ FloodFrom(1)
      /\ UNCHANGED <<successors, visited, on_stack, calls, back_edges, loop_depth>>
  BY Zenon DEF EndSearch
<1>2. SearchInv /\ FloodInv
  BY Zenon DEF IInv
<1>3. in_loop' \in SUBSET Block /\ worklist' \in Seq(Block)
  <2>1. 1 \in Nat \ {0}
    OBVIOUS
  <2> QED BY Zenon, <1>1, <1>2, <2>1, FloodFromTypes
<1>4. TypeOK'
  BY Zenon, <1>1, <1>2, <1>3 DEF SearchInv, TypeOK
<1>5. SearchInv'
  BY Zenon, <1>1, <1>2, <1>4, FloodKeepsSearch
<1>6. ASSUME NoSelfEdge PROVE FloodIsNatural' /\ DepthIsCount'
  <2>1. FloodIsNatural'
    <3>1. 1 \in Nat \ {0}
      OBVIOUS
    <3> QED BY Zenon, <1>1, <1>2, <1>6, <3>1, FloodStarts
  <2>2. \A b \in Block : loop_depth[b] = 0
    BY Zenon, <1>1, <1>2, <1>6 DEF FloodInv, DepthIsCount
  <2>3. ASSUME NEW b \in Block PROVE Cardinality(Flooded(b, 0)) = 0
    <3>1. Flooded(b, 0) = {}
      BY DEF Flooded
    <3> QED BY Zenon, <3>1, FS_EmptySet
  <2>4. /\ 0 \in Nat /\ edge' = 0 + 1 /\ 0 <= Len(back_edges) /\ Len(back_edges) \in Nat
        /\ \A b \in Block : loop_depth'[b] = Cardinality(Flooded(b, 0))
    BY <1>1, <1>2, <2>2, <2>3 DEF SearchInv, TypeOK
  <2>5. DepthIsCount'
    BY Zenon, <1>1, <2>4, DepthIsCountNext
  <2> QED BY Zenon, <2>1, <2>5
<1>7. NoSelfEdge' = NoSelfEdge
  BY Zenon, <1>1 DEF NoSelfEdge
<1> QED BY Zenon, <1>5, <1>6, <1>7 DEF IInv, FloodInv

\* A flooded block keeps the invariant.
LEMMA FloodBlockKeepsIInv ==
  ASSUME IInv, FloodBlock
  PROVE  IInv'
<1>1. /\ edge \in 1 .. Len(back_edges) /\ worklist # << >>
      /\ UNCHANGED <<successors, visited, on_stack, calls, back_edges, edge, loop_depth>>
  BY Zenon DEF FloodBlock
<1>2. SearchInv /\ FloodInv
  BY Zenon DEF IInv
<1>3. in_loop' \in SUBSET Block /\ worklist' \in Seq(Block)
  BY Zenon, <1>2, FloodBlockFacts
<1>4. SearchInv'
  <2>1. TypeOK'
    BY Zenon, <1>1, <1>2, <1>3 DEF SearchInv, TypeOK
  <2> QED BY Zenon, <1>1, <1>2, <2>1, FloodKeepsSearch
<1>5. ASSUME NoSelfEdge PROVE FloodIsNatural' /\ DepthIsCount'
  <2>1. FloodIsNatural /\ DepthIsCount
    BY Zenon, <1>2, <1>5 DEF FloodInv
  <2>2. FloodIsNatural'
    BY Zenon, <1>2, <1>5, <2>1, FloodBlockKeepsFlood
  <2>3. /\ edge - 1 \in Nat /\ edge' = (edge - 1) + 1 /\ edge - 1 <= Len(back_edges)
        /\ Len(back_edges) \in Nat /\ edge > 0
    <3>1. Len(back_edges) \in Nat
      BY <1>2 DEF SearchInv, TypeOK
    <3>2. edge \in 1 .. Len(back_edges) /\ edge' = edge
      BY Zenon, <1>1
    <3> QED BY <3>1, <3>2
  <2>4. \A b \in Block : loop_depth'[b] = Cardinality(Flooded(b, edge - 1))
    BY Zenon, <1>1, <2>1, <2>3 DEF DepthIsCount
  <2>5. DepthIsCount'
    BY Zenon, <1>1, <2>3, <2>4, DepthIsCountNext
  <2> QED BY Zenon, <2>2, <2>5
<1>6. NoSelfEdge' = NoSelfEdge
  BY Zenon, <1>1 DEF NoSelfEdge
<1> QED BY Zenon, <1>4, <1>5, <1>6 DEF IInv, FloodInv

\* Raising the depth of a flooded loop keeps the invariant.
LEMMA RaiseDepthKeepsIInv ==
  ASSUME IInv, RaiseDepth
  PROVE  IInv'
<1>1. /\ edge \in 1 .. Len(back_edges) /\ worklist = << >>
      /\ loop_depth' = [b \in Block |-> IF b \in in_loop THEN loop_depth[b] + 1
                                                         ELSE loop_depth[b]]
      /\ edge' = edge + 1 /\ FloodFrom(edge + 1)
      /\ UNCHANGED <<successors, visited, on_stack, calls, back_edges>>
  BY Zenon DEF RaiseDepth
<1>2. SearchInv /\ FloodInv
  BY Zenon DEF IInv
<1>3. Len(back_edges) \in Nat /\ edge \in Nat /\ edge > 0 /\ edge + 1 \in Nat \ {0}
  BY <1>1, <1>2 DEF SearchInv, TypeOK
<1>4. in_loop' \in SUBSET Block /\ worklist' \in Seq(Block)
  BY Zenon, <1>1, <1>2, <1>3, FloodFromTypes
<1>5. SearchInv'
  <2>1. TypeOK'
    BY <1>1, <1>2, <1>3, <1>4 DEF SearchInv, TypeOK
  <2> QED BY Zenon, <1>1, <1>2, <2>1, FloodKeepsSearch
<1>6. ASSUME NoSelfEdge PROVE FloodIsNatural' /\ DepthIsCount'
  <2>1. FloodIsNatural /\ DepthIsCount
    BY Zenon, <1>2, <1>6 DEF FloodInv
  <2>2. FloodIsNatural'
    BY Zenon, <1>1, <1>2, <1>3, <1>6, FloodStarts
  <2>3. in_loop = NaturalLoop(edge)
    BY Zenon, <1>1, <1>2, <1>6, <2>1, FloodEndsWithLoop
  <2>4. ASSUME NEW b \in Block PROVE loop_depth'[b] = Cardinality(Flooded(b, edge))
    <3> DEFINE F == Flooded(b, edge - 1)
    <3>1. loop_depth[b] = Cardinality(F) /\ loop_depth[b] \in Nat
      BY Zenon, <1>2, <1>3, <2>1 DEF DepthIsCount, SearchInv, TypeOK
    <3>2. IsFiniteSet(F) /\ edge \notin F
      <4>1. IsFiniteSet(1 .. (edge - 1)) /\ F \in SUBSET (1 .. (edge - 1))
        BY <1>3, FS_Interval DEF Flooded
      <4>2. edge \notin 1 .. (edge - 1)
        BY <1>3
      <4> QED BY Zenon, <4>1, <4>2, FS_Subset
    <3>3. 1 .. edge = (1 .. (edge - 1)) \cup {edge}
      BY <1>3
    <3>4. CASE b \in in_loop
      <4>1. Flooded(b, edge) = F \cup {edge}
        BY Zenon, <2>3, <3>3, <3>4 DEF Flooded
      <4>2. Cardinality(F \cup {edge}) = Cardinality(F) + 1
        BY Zenon, <3>2, FS_AddElement
      <4> HIDE DEF F
      <4> QED BY Zenon, <1>1, <3>1, <3>4, <4>1, <4>2
    <3>5. CASE b \notin in_loop
      <4>1. Flooded(b, edge) = F
        BY Zenon, <2>3, <3>3, <3>5 DEF Flooded
      <4> HIDE DEF F
      <4> QED BY Zenon, <1>1, <3>1, <3>5, <4>1
    <3> QED BY Zenon, <3>4, <3>5
  <2>5. DepthIsCount'
    <3>1. edge <= Len(back_edges)
      BY <1>1, <1>3
    <3> QED BY Zenon, <1>1, <1>3, <2>4, <3>1, DepthIsCountNext
  <2> QED BY Zenon, <2>2, <2>5
<1>7. NoSelfEdge' = NoSelfEdge
  BY Zenon, <1>1 DEF NoSelfEdge
<1> QED BY Zenon, <1>5, <1>6, <1>7 DEF IInv, FloodInv

\* The computation starts in the invariant.
LEMMA InitEstablishesIInv == Init => IInv
<1> SUFFICES ASSUME Init PROVE IInv
  BY Zenon
<1>1. SearchInv
  BY Zenon, InitEstablishesSearch
<1>2. FloodIsNatural /\ DepthIsCount
  BY DEF Init, FloodIsNatural, DepthIsCount
<1> QED BY Zenon, <1>1, <1>2 DEF IInv, FloodInv

\* Every step of the computation keeps the invariant.
LEMMA NextKeepsIInv == IInv /\ [Next]_vars => IInv'
<1> SUFFICES ASSUME IInv, [Next]_vars PROVE IInv'
  BY Zenon
<1>1. ASSUME NEW s \in Block, Descend(s) PROVE IInv'
  <2>1. edge = 0 /\ UNCHANGED <<successors, edge, loop_depth>>
    BY Zenon, <1>1 DEF Descend
  <2> QED BY Zenon, <1>1, <2>1, DescendKeepsSearch, SearchStepKeepsFlood DEF IInv
<1>2. ASSUME NEW s \in Block, SeeVisited(s) PROVE IInv'
  <2>1. edge = 0 /\ UNCHANGED <<successors, edge, loop_depth>>
    BY Zenon, <1>2 DEF SeeVisited
  <2> QED BY Zenon, <1>2, <2>1, SeeVisitedKeepsSearch, SearchStepKeepsFlood DEF IInv
<1>3. CASE Return
  <2>1. edge = 0 /\ UNCHANGED <<successors, edge, loop_depth>>
    BY Zenon, <1>3 DEF Return
  <2> QED BY Zenon, <1>3, <2>1, ReturnKeepsSearch, SearchStepKeepsFlood DEF IInv
<1>4. CASE EndSearch
  BY Zenon, <1>4, EndSearchKeepsIInv
<1>5. CASE FloodBlock
  BY Zenon, <1>5, FloodBlockKeepsIInv
<1>6. CASE RaiseDepth
  BY Zenon, <1>6, RaiseDepthKeepsIInv
<1>7. CASE UNCHANGED vars
  <2>1. SearchInv'
    <3>1. TypeOK'
      BY Zenon, <1>7 DEF IInv, SearchInv, TypeOK, vars
    <3> QED BY Zenon, <1>7, <3>1, FloodKeepsSearch DEF IInv, vars
  <2>2. FloodIsNatural' = FloodIsNatural
    BY Zenon, <1>7 DEF FloodIsNatural, NaturalLoop, Header, Latch, Edges, predecessors, vars
  <2>3. DepthIsCount' = DepthIsCount
    BY <1>7 DEF DepthIsCount, Flooded, NaturalLoop, Header, Latch, Edges, vars
  <2>4. FloodInv'
    BY Zenon, <1>7, <2>2, <2>3 DEF IInv, FloodInv, NoSelfEdge, vars
  <2> QED BY Zenon, <2>1, <2>4 DEF IInv
<1> QED BY Zenon, <1>1, <1>2, <1>3, <1>4, <1>5, <1>6, <1>7 DEF Next

-----------------------------------------------------------------------------
\* The inductive invariant: the calls in progress are the blocks on the stack,
\* finished blocks lead only to finished blocks or along back edges, and a
\* flood is a part of the natural loop closed up to its worklist.
THEOREM IInvHolds == Spec => []IInv
BY InitEstablishesIInv, NextKeepsIInv, PTL DEF Spec

\* Whatever the control-flow graph, after the search of compute_loop_depth
\* every cycle of visited blocks contains a back edge.
THEOREM SearchFindsAllLoops == Spec => []BackEdgesBreakAllCycles
<1>1. IInv => BackEdgesBreakAllCycles
  <2> SUFFICES ASSUME IInv, Searched PROVE \A b \in visited : ~OnCycle(b, Edges \ BackEdges)
    BY Zenon DEF BackEdgesBreakAllCycles
  <2>1. calls = << >>
    BY Zenon DEF IInv, SearchInv, TypeOK, Searched
  <2>2. 1 .. Len(calls) = {}
    BY <2>1
  <2>3. on_stack = {}
    BY Zenon, <2>2 DEF IInv, SearchInv, StackIsCalls
  <2>4. Finished = visited
    BY Zenon, <2>3 DEF Finished
  <2> QED BY Zenon, <2>4 DEF IInv, SearchInv, FinishedIsAcyclic
<1> QED BY <1>1, IInvHolds, PTL

\* For every control-flow graph without a block that is its own successor the
\* depth compute_loop_depth gives a block is the number of back edges whose
\* natural loop contains it.
THEOREM DepthsCountLoops == Spec => []DepthCountsNaturalLoops
<1>1. IInv => DepthCountsNaturalLoops
  <2> SUFFICES ASSUME IInv, Done, NoSelfEdge, NEW b \in Block
               PROVE  loop_depth[b] = Cardinality({e \in DOMAIN back_edges : b \in NaturalLoop(e)})
    BY Zenon DEF DepthCountsNaturalLoops, NoSelfEdge
  <2>1. Len(back_edges) \in Nat /\ DOMAIN back_edges = 1 .. Len(back_edges)
    BY DEF IInv, SearchInv, TypeOK
  <2>2. edge > 0 /\ edge - 1 = Len(back_edges)
    BY <2>1 DEF Done
  <2>3. loop_depth[b] = Cardinality(Flooded(b, Len(back_edges)))
    BY Zenon, <2>2 DEF IInv, FloodInv, DepthIsCount
  <2> QED BY Zenon, <2>1, <2>3 DEF Flooded
<1> QED BY <1>1, IInvHolds, PTL
=============================================================================
