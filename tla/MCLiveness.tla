----------------------------- MODULE MCLiveness -----------------------------
(* Functions in SSA form over one value x.  The dataflow treats every value  *)
(* on its own, so one value shows all it can do.                             *)
EXTENDS Liveness

CONSTANTS x, MaxInsts

I(uses, defs, is_call, incomings) ==
  [uses |-> uses, defs |-> defs, is_call |-> is_call, incomings |-> incomings]

Other == I({}, {}, FALSE, {})
Def == I({}, {x}, FALSE, {})
Use == I({x}, {}, FALSE, {})
Call == I({}, {}, TRUE, {})
CallUse == I({x}, {}, TRUE, {})
CallDef == I({}, {x}, TRUE, {})
Phi(b) == I({}, {}, FALSE, {<<b, x>>})

Phis == {Phi(b) : b \in Block}
Plain == {Other, Def, Use, Call, CallUse, CallDef}

\* x is a parameter, or one instruction defines it.
DefinedOnce ==
  Cardinality({n \in Node : Writes(x, n[1], n[2])}) = (IF x \in parameters THEN 0 ELSE 1)

\* The nodes control reaches from the entry before x is defined.
Undefined ==
  LET reached[k \in 0 .. Cardinality(Node)] ==
        IF k = 0 THEN {<<1, 1>>}
        ELSE LET nearer == reached[k - 1] IN
             nearer \cup UNION {Following(n[1], n[2]) : n \in {m \in nearer : ~Writes(x, m[1], m[2])}}
  IN  reached[Cardinality(Node)]

\* No path reads x before it is defined.
DefinitionDominatesUses ==
  x \notin parameters => \A n \in Undefined : ~Reads(x, n[1], n[2])

\* A phi's incoming block is a predecessor, and phis lead their block.
PhisAreWellFormed ==
  \A b \in Block : \A i \in DOMAIN insts[b] :
    \A p \in Block : <<p, x>> \in insts[b][i].incomings => i = 1 /\ b \in successors[p]

WellFormed ==
  /\ EntryHasNoPredecessor
  /\ PhisAreWellFormed
  /\ DefinedOnce
  /\ DefinitionDominatesUses

\* Every control-flow graph, at most one instruction in a block.
GraphInit ==
  /\ successors \in [Block -> SUBSET (Block \ {1})]
  /\ parameters \in SUBSET Values
  /\ insts \in [Block -> {<<i>> : i \in Plain \cup Phis}]
  /\ terminator_uses = [b \in Block |-> {}]
  /\ WellFormed
  /\ Start

GraphSpec == GraphInit /\ [][Next]_vars

\* Every order of MaxInsts instructions and a terminator in the first two
\* blocks; what follows them is empty and unreachable.
OrderInit ==
  /\ \E f \in [1 .. 2 -> SUBSET {2}] :
       successors = [b \in Block |-> IF b <= 2 THEN f[b] ELSE {}]
  /\ parameters \in SUBSET Values
  /\ \E f \in [1 .. 2 -> UNION {[1 .. k -> Plain \cup {Phi(1), Phi(2)}] : k \in 0 .. MaxInsts}] :
       insts = [b \in Block |-> IF b <= 2 THEN f[b] ELSE << >>]
  /\ \E f \in [1 .. 2 -> SUBSET Values] :
       terminator_uses = [b \in Block |-> IF b <= 2 THEN f[b] ELSE {}]
  /\ WellFormed
  /\ Start

MCSpec == (GraphInit \/ OrderInit) /\ [][Next]_vars /\ WF_vars(Next)
=============================================================================
