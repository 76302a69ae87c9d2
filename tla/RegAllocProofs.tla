--------------------------- MODULE RegAllocProofs ---------------------------
(***************************************************************************)
(* The scans of run_regalloc keep values of the same kind apart, keep      *)
(* values that cross a call out of caller-saved registers, evict a value   *)
(* only strictly inside its interval and only for a stronger one, and      *)
(* serve every later use of it: for every number of values and points and  *)
(* for every shape of the two register pools.                              *)
(***************************************************************************)
EXTENDS RegAlloc, TLAPS

\* The candidates of a scan are nonempty spans of the scan's own pool.
LEMMA CandidatesAreInPool ==
  ASSUME TypeOK, NEW v \in Value, NEW k \in DOMAIN Spans(v)
  PROVE  Spans(v)[k] \subseteq ScanRegisters /\ Spans(v)[k] \in Span /\ Spans(v)[k] # {}
<1>1. width[v] \in Widths
  BY Zenon DEF TypeOK
<1>2. CASE pass = 2
  <2>1. Spans(v) = CallerSpans[width[v]] /\ ScanRegisters = CallerRegisters
    BY Zenon, <1>2 DEF Spans, ScanRegisters
  <2>2. CallerSpans[width[v]] \in Seq((SUBSET Registers) \ {{}})
    BY Zenon, <1>1, SpansAssumption
  <2>3. Spans(v)[k] \in (SUBSET Registers) \ {{}}
    BY <2>1, <2>2
  <2>4. Spans(v)[k] \in {CallerSpans[width[v]][j] : j \in DOMAIN CallerSpans[width[v]]}
    BY Zenon, <2>1
  <2>5. Spans(v)[k] \subseteq CallerRegisters
    BY <2>4, <1>1 DEF CallerRegisters, PoolRegisters
  <2> QED BY Zenon, <2>1, <2>3, <2>5 DEF Span
<1>3. CASE pass # 2
  <2>1. Spans(v) = CalleeSpans[width[v]] /\ ScanRegisters = CalleeRegisters
    BY Zenon, <1>3 DEF Spans, ScanRegisters
  <2>2. CalleeSpans[width[v]] \in Seq((SUBSET Registers) \ {{}})
    BY Zenon, <1>1, SpansAssumption
  <2>3. Spans(v)[k] \in (SUBSET Registers) \ {{}}
    BY <2>1, <2>2
  <2>4. Spans(v)[k] \in {CalleeSpans[width[v]][j] : j \in DOMAIN CalleeSpans[width[v]]}
    BY Zenon, <2>1
  <2>5. Spans(v)[k] \subseteq CalleeRegisters
    BY <2>4, <1>1 DEF CalleeRegisters, PoolRegisters
  <2> QED BY Zenon, <2>1, <2>3, <2>5 DEF Span
<1> QED BY Zenon, <1>2, <1>3

\* The two pools have no register in common.
LEMMA PoolsApart ==
  TypeOK => CalleeRegisters \cap CallerRegisters = {} /\ CallerRegisters \subseteq Registers
<1> SUFFICES ASSUME TypeOK
             PROVE  CalleeRegisters \cap CallerRegisters = {} /\ CallerRegisters \subseteq Registers
  BY Zenon
<1>1. ASSUME NEW r \in CallerRegisters PROVE r \in Registers
  <2>1. PICK w \in Widths : r \in UNION {CallerSpans[w][k] : k \in DOMAIN CallerSpans[w]}
    BY Zenon, <1>1 DEF CallerRegisters, PoolRegisters
  <2>2. PICK k \in DOMAIN CallerSpans[w] : r \in CallerSpans[w][k]
    BY Zenon, <2>1
  <2>3. CallerSpans[w] \in Seq((SUBSET Registers) \ {{}})
    BY Zenon, SpansAssumption
  <2>4. CallerSpans[w][k] \in SUBSET Registers
    BY <2>2, <2>3
  <2> QED BY Zenon, <2>2, <2>4
<1> QED BY Zenon, <1>1, PoolsAreDisjoint DEF CalleeRegisters, CallerRegisters

\* An assignment that expires at v's start is over for v and for whatever the
\* scan looks at after v.
LEMMA ExpiredIsOver ==
  ASSUME TypeOK, NEW v \in Value, NEW w \in Active, IsNext(v),
         w \notin expire_completed_assignments(Active, v),
         NEW u \in Pending
  PROVE  MayFollow(w, u)
<1>1. w \in Value /\ u \in Value
  BY Zenon DEF Active, Pending, TypeOK
<1>2. start[v] \in Int /\ start[u] \in Int /\ end[w] \in Int
  BY <1>1, SizesAssumption DEF TypeOK, Point
<1>3. start[v] <= start[u]
  BY <1>2 DEF IsNext, Precedes
<1>4. end[w] < start[v] \/ (end[w] = start[v] /\ has_dynamic_stack /\ start[v] \notin call_points)
  BY Zenon DEF expire_completed_assignments
<1>5. CASE end[w] < start[v]
  BY <1>5, <1>2, <1>3 DEF MayFollow
<1>6. CASE end[w] = start[v] /\ has_dynamic_stack /\ start[v] \notin call_points
  <2>1. CASE start[u] = start[v]
    BY Zenon, <1>6, <2>1 DEF MayFollow
  <2>2. CASE start[v] < start[u]
    BY Zenon, <1>6, <1>2, <2>2 DEF MayFollow
  <2> QED BY <1>2, <1>3, <2>1, <2>2
<1> QED BY Zenon, <1>4, <1>5, <1>6

\* What depends on the inputs of the function alone is fixed.
LEMMA InputsFixTheIntervals ==
  ASSUME UNCHANGED inputs
  PROVE  /\ \A x \in Value : crosses_call(x)' <=> crosses_call(x)
         /\ \A x, y \in Value : SameSide(x, y)' <=> SameSide(x, y)
         /\ \A x, y \in Value : Overlap(x, y)' <=> Overlap(x, y)
         /\ \A x, y \in Value : MayFollow(x, y)' <=> MayFollow(x, y)
         /\ \A x, y \in Value :
              has_lower_allocation_rank(x, y)' <=> has_lower_allocation_rank(x, y)
         /\ \A x \in Value : OwnSpans(x)' = OwnSpans(x)
         /\ kind' = kind /\ start' = start /\ end' = end
<1>1. \A x \in Value : crosses_call(x)' <=> crosses_call(x)
  BY Zenon DEF inputs, crosses_call
<1>2. \A x, y \in Value : SameSide(x, y)' <=> SameSide(x, y)
  BY Zenon, <1>1 DEF SameSide
<1>3. \A x \in Value : OwnSpans(x)' = OwnSpans(x)
  BY Zenon, <1>1 DEF OwnSpans, inputs
<1> QED BY Zenon, <1>1, <1>2, <1>3 DEF inputs, Overlap, MayFollow, has_lower_allocation_rank

-----------------------------------------------------------------------------
\* One iteration of assign_from_pool at value v, whatever its outcome: E is
\* what it evicts, span what it gives to v (nothing is {}), act the list of
\* active assignments it leaves.
Iteration(v, E, span, act) ==
  LET active == expire_completed_assignments(Active, v) IN
  /\ pass \in 1 .. 3 /\ pass' = pass /\ UNCHANGED inputs
  /\ IsNext(v) /\ visited' = visited \cup {v}
  /\ E \subseteq active
  /\ \A e \in E : can_evict(e) /\ assigned_register'[e] = {}
  /\ span \subseteq ScanRegisters
  /\ assigned_register'[v] = span
  /\ \A w \in Value : w \notin E /\ w # v => assigned_register'[w] = assigned_register[w]
  /\ \A w \in active : w \notin E => assigned_register[w] \cap span = {}
  /\ SetActive(act)
  /\ active \ E \subseteq act /\ act \subseteq active \cup {v}
  /\ span # {} => v \in act

\* What an iteration leaves alone, and whom it is about.
LEMMA IterationFacts ==
  ASSUME IInv, NEW v \in Value, NEW E, NEW span, NEW act, Iteration(v, E, span, act)
  PROVE  /\ pass \in 1 .. 3 /\ pass' = pass /\ visited' = visited \cup {v}
         /\ v \in Pending /\ v \notin visited /\ (pass = 1 <=> crosses_call(v))
         /\ assigned_register[v] = {} /\ kind[v] = "Register"
         /\ E \subseteq visited /\ E \subseteq Value /\ v \notin E
         /\ \A u \in Pending' : u \in Pending /\ u # v /\ u \in Value
<1> USE DEF Iteration
<1>1. \A x \in Value : crosses_call(x)' <=> crosses_call(x)
  BY Zenon DEF inputs, crosses_call
<1>2. /\ v \in Pending /\ v \notin visited /\ kind[v] = "Register"
      /\ pass = 1 <=> crosses_call(v)
      /\ assigned_register[v] = {}
  BY Zenon DEF IsNext, Pending, should_consider
<1>3. E \subseteq Active /\ Active \subseteq Value
  BY Zenon DEF expire_completed_assignments, Active, IInv, TypeOK
<1>4. E \subseteq visited
  <2>1. CASE pass = 1
    BY Zenon, <2>1, <1>3 DEF IInv, EvictableIsVisited, Active
  <2>2. CASE pass = 2
    BY Zenon, <2>2, <1>3 DEF IInv, EvictableIsVisited, Active
  <2>3. CASE pass = 3
    BY Zenon, <2>3, <1>3 DEF IInv, EvictableIsVisited, Active, can_evict
  <2> QED BY <2>1, <2>2, <2>3
<1>5. ASSUME NEW u \in Pending' PROVE u \in Pending /\ u # v /\ u \in Value
  <2>1. u \in Value /\ u \notin visited /\ u # v /\ u \notin E
    BY Zenon, <1>4 DEF Pending
  <2>2. assigned_register[u] = {}
    BY Zenon, <1>5, <2>1 DEF Pending, should_consider
  <2>3. kind[u] = "Register" /\ (pass = 1 <=> crosses_call(u))
    BY Zenon, <1>5, <1>1, <2>1 DEF Pending, should_consider, inputs
  <2> QED BY Zenon, <2>1, <2>2, <2>3 DEF Pending, should_consider
<1> QED BY Zenon, <1>2, <1>3, <1>4, <1>5

\* One iteration of assign_from_pool with what it records about evictions:
\* every value of E lost its register, a part of which went to the stronger v.
Outcome(v, E, span, act) ==
  /\ Iteration(v, E, span, act)
  /\ assigned_register' \in [Value -> Span]
  /\ spill_register_authority' \in [Value -> Span]
  /\ spill_points' \in [Value -> Point \cup {NoPoint}]
  /\ UNCHANGED <<has_stack_slot, spill_reload_ops>>
  /\ \A e \in E : /\ spill_points'[e] = start[v]
                  /\ spill_register_authority'[e] = assigned_register[e]
                  /\ assigned_register[e] \cap span # {}
                  /\ has_lower_allocation_rank(e, v)
  /\ \A w \in Value \ E : /\ spill_points'[w] = spill_points[w]
                          /\ spill_register_authority'[w] = spill_register_authority[w]
  /\ span = {} =>
       \A k \in DOMAIN Spans(v) :
         ~IsFree(Spans(v)[k], expire_completed_assignments(Active, v))

\* The three ways assign_from_pool ends an iteration are outcomes.
LEMMA ScanStepIsOutcome ==
  ASSUME IInv, NEW v \in Value, AssignFree(v) \/ EvictAndAssign(v) \/ LeaveUnassigned(v)
  PROVE  \E E \in SUBSET Value, span \in Span, act \in SUBSET Value :
           Outcome(v, E, span, act)
<1> DEFINE active == expire_completed_assignments(Active, v)
<1>1. active \subseteq Value /\ active \subseteq Active
  BY Zenon DEF IInv, TypeOK, Active, expire_completed_assignments
<1>2. CASE AssignFree(v)
  <2>1. PICK k \in DOMAIN Spans(v) :
          /\ IsChosen(k, Spans(v), active)
          /\ assigned_register' = [assigned_register EXCEPT ![v] = Spans(v)[k]]
    BY Zenon, <1>2 DEF AssignFree
  <2> DEFINE span == Spans(v)[k]
  <2>2. /\ pass \in 1 .. 3 /\ IsNext(v) /\ SetActive(active \cup {v})
        /\ visited' = visited \cup {v} /\ pass' = pass /\ UNCHANGED inputs
        /\ UNCHANGED <<spill_register_authority, spill_points, has_stack_slot,
                       spill_reload_ops>>
    BY Zenon, <1>2 DEF AssignFree
  <2>3. span \subseteq ScanRegisters /\ span \in Span /\ span # {}
    BY Zenon, CandidatesAreInPool DEF IInv
  <2>4. /\ assigned_register'[v] = span
        /\ \A w \in Value \ {v} : assigned_register'[w] = assigned_register[w]
        /\ assigned_register' \in [Value -> Span]
    BY Zenon, <2>1, <2>3 DEF IInv, TypeOK
  <2>5. \A w \in active : assigned_register[w] \cap span = {}
    BY Zenon, <2>1 DEF IsChosen, IsFree
  <2>6. Iteration(v, {}, span, active \cup {v})
    BY Zenon, <2>2, <2>3, <2>4, <2>5 DEF Iteration
  <2>7. Outcome(v, {}, span, active \cup {v})
    BY Zenon, <2>2, <2>3, <2>4, <2>6 DEF Outcome, IInv, TypeOK
  <2> QED BY Zenon, <2>3, <2>7, <1>1
<1>3. CASE LeaveUnassigned(v)
  <2>1. /\ pass \in 1 .. 3 /\ IsNext(v) /\ SetActive(active)
        /\ visited' = visited \cup {v} /\ pass' = pass /\ UNCHANGED inputs
        /\ assigned_register' = assigned_register
        /\ UNCHANGED <<spill_register_authority, spill_points, has_stack_slot,
                       spill_reload_ops>>
        /\ \A k \in DOMAIN Spans(v) : ~IsFree(Spans(v)[k], active)
    BY Zenon, <1>3 DEF LeaveUnassigned
  <2>2. assigned_register'[v] = {}
    BY Zenon, <2>1 DEF IsNext, Pending, should_consider
  <2>3. Iteration(v, {}, {}, active)
    BY Zenon, <2>1, <2>2 DEF Iteration
  <2>4. Outcome(v, {}, {}, active)
    BY Zenon, <2>1, <2>3 DEF Outcome, IInv, TypeOK
  <2> QED BY Zenon, <2>4, <1>1 DEF Span
<1>4. CASE EvictAndAssign(v)
  <2>1. PICK e \in active :
          /\ IsWeakest(e, Evictable(v, active))
          /\ \E k \in DOMAIN Spans(v) :
               /\ IsChosen(k, Spans(v), active \ {e})
               /\ assigned_register' = [assigned_register EXCEPT
                                          ![v] = Spans(v)[k], ![e] = {}]
          /\ spill_points' = [spill_points EXCEPT ![e] = start[v]]
          /\ spill_register_authority' =
               [spill_register_authority EXCEPT ![e] = assigned_register[e]]
          /\ SetActive((active \ {e}) \cup {v})
    BY Zenon, <1>4 DEF EvictAndAssign
  <2>2. PICK k \in DOMAIN Spans(v) :
          /\ IsChosen(k, Spans(v), active \ {e})
          /\ assigned_register' = [assigned_register EXCEPT
                                     ![v] = Spans(v)[k], ![e] = {}]
    BY Zenon, <2>1
  <2> DEFINE span == Spans(v)[k]
  <2>3. /\ pass \in 1 .. 3 /\ IsNext(v)
        /\ visited' = visited \cup {v} /\ pass' = pass /\ UNCHANGED inputs
        /\ ~IsFree(span, active)
        /\ UNCHANGED <<has_stack_slot, spill_reload_ops>>
    BY Zenon, <1>4 DEF EvictAndAssign
  <2>4. span \subseteq ScanRegisters /\ span \in Span /\ span # {}
    BY Zenon, CandidatesAreInPool DEF IInv
  <2>5. can_evict(e) /\ has_lower_allocation_rank(e, v)
    BY Zenon, <2>1 DEF IsWeakest, Evictable
  <2>6. v \in Pending /\ assigned_register[v] = {}
    BY Zenon, <2>3 DEF IsNext, Pending, should_consider
  <2>7. assigned_register[e] \cap span # {} /\ e # v /\ e \in Value
    BY Zenon, <2>2, <2>3, <2>6, <1>1 DEF IsChosen, IsFree
  <2>8. /\ assigned_register'[v] = span /\ assigned_register'[e] = {}
        /\ \A w \in Value \ {e, v} : assigned_register'[w] = assigned_register[w]
        /\ assigned_register' \in [Value -> Span]
    BY Zenon, <2>2, <2>4, <2>7 DEF IInv, TypeOK, Span
  <2>9. \A w \in active \ {e} : assigned_register[w] \cap span = {}
    BY Zenon, <2>2 DEF IsChosen, IsFree
  <2>10. Iteration(v, {e}, span, (active \ {e}) \cup {v})
    BY Zenon, <2>1, <2>3, <2>4, <2>5, <2>8, <2>9 DEF Iteration
  <2>11. /\ spill_points'[e] = start[v]
         /\ spill_register_authority'[e] = assigned_register[e]
         /\ \A w \in Value \ {e} : /\ spill_points'[w] = spill_points[w]
                                   /\ spill_register_authority'[w] = spill_register_authority[w]
         /\ spill_register_authority' \in [Value -> Span]
         /\ spill_points' \in [Value -> Point \cup {NoPoint}]
    BY <2>1, <2>7 DEF IInv, TypeOK
  <2>12. Outcome(v, {e}, span, (active \ {e}) \cup {v})
    BY Zenon, <2>3, <2>4, <2>5, <2>7, <2>8, <2>10, <2>11 DEF Outcome
  <2> QED BY Zenon, <2>4, <2>7, <2>12, <1>1
<1> QED BY Zenon, <1>2, <1>3, <1>4

-----------------------------------------------------------------------------
\* Every iteration keeps the parts of the invariant about registers and order.
LEMMA IterationKeepsScanInvariant ==
  ASSUME IInv, NEW v \in Value, NEW E, NEW span, NEW act,
         Iteration(v, E, span, act)
  PROVE  /\ HeldFromOwnPool' /\ EvictableIsVisited' /\ VisitedInOrder'
         /\ RetiredIsOver' /\ ScansAreExclusive'
<1> USE DEF Iteration
<1> DEFINE active == expire_completed_assignments(Active, v)
<1>1. /\ \A x \in Value : crosses_call(x)' <=> crosses_call(x)
      /\ \A x, y \in Value : Precedes(x, y)' <=> Precedes(x, y)
      /\ \A x, y \in Value : MayFollow(x, y)' <=> MayFollow(x, y)
      /\ kind' = kind
      /\ ScanRegisters' = ScanRegisters
  BY Zenon DEF inputs, crosses_call, Precedes, MayFollow, ScanRegisters,
         CalleeRegisters, CallerRegisters, PoolRegisters
<1>2. /\ v \in Pending /\ v \notin visited
      /\ pass = 1 <=> crosses_call(v)
      /\ assigned_register[v] = {}
  BY Zenon DEF IsNext, Pending, should_consider
<1>3. active \subseteq Active /\ Active \subseteq Value
  BY Zenon DEF expire_completed_assignments, Active, IInv, TypeOK
<1>4. Active' = act
  BY Zenon DEF SetActive, Active
<1>5. E \subseteq visited /\ v \notin E
  BY IterationFacts
<1>6. \A u \in Pending' : u \in Pending /\ u # v /\ u \in Value
  BY Zenon, IterationFacts
<1>7. VisitedInOrder'
  <2> SUFFICES ASSUME NEW w \in visited', NEW u \in Pending' PROVE Precedes(w, u)'
    BY Zenon DEF VisitedInOrder
  <2>1. u \in Pending /\ u # v /\ u \in Value
    BY Zenon, <1>6
  <2>2. w \in Value
    BY Zenon DEF IInv, TypeOK
  <2>3. CASE w = v
    BY Zenon, <2>1, <2>3, <1>1 DEF IsNext
  <2>4. CASE w \in visited
    BY Zenon, <2>1, <2>2, <2>4, <1>1 DEF IInv, VisitedInOrder
  <2> QED BY Zenon, <2>3, <2>4
<1>8. HeldFromOwnPool'
  <2> SUFFICES ASSUME NEW x \in Value
               PROVE  /\ crosses_call(x) => assigned_register'[x] \subseteq CalleeRegisters
                      /\ ~crosses_call(x) /\ pass = 1 => assigned_register'[x] = {}
                      /\ ~crosses_call(x) /\ pass = 2 => assigned_register'[x] \subseteq CallerRegisters
    BY Zenon, <1>1 DEF HeldFromOwnPool, CalleeRegisters, CallerRegisters, PoolRegisters
  <2>1. CASE x = v
    BY <2>1, <1>2 DEF ScanRegisters
  <2>2. CASE x \in E
    BY Zenon, <2>2
  <2>3. CASE x \in Value \ (E \cup {v})
    BY Zenon, <2>3 DEF IInv, HeldFromOwnPool
  <2> QED BY Zenon, <2>1, <2>2, <2>3
<1>9. EvictableIsVisited'
  <2>1. CASE pass = 1
    BY <2>1, <1>1, <1>2, <1>3, <1>4, SMTT(30)
       DEF IInv, TypeOK, EvictableIsVisited, Active, SetActive
  <2>2. CASE pass = 2
    BY <2>2, <1>1, <1>2, <1>3, <1>4, SMTT(30)
       DEF IInv, TypeOK, EvictableIsVisited, Active, SetActive
  <2>3. CASE pass = 3
    BY <2>3, <1>1, <1>2, <1>3, <1>4, SMTT(30)
       DEF IInv, TypeOK, EvictableIsVisited, Active, SetActive
  <2> QED BY <2>1, <2>2, <2>3
<1>10. ASSUME NEW w \in Value, NEW u \in Pending,
              crosses_call(w) <=> crosses_call(u),
              assigned_register[w] \cap ScanRegisters # {},
              w \notin active
       PROVE  MayFollow(w, u)
  <2>1. CASE w \in Active
    BY Zenon, <1>10, <2>1, ExpiredIsOver DEF IInv
  <2>2. CASE w \notin Active
    BY <1>10, <2>2 DEF IInv, RetiredIsOver
  <2> QED BY Zenon, <2>1, <2>2
<1>11. RetiredIsOver'
  <2> SUFFICES ASSUME NEW w \in Value, NEW u \in Pending',
                      crosses_call(w)' <=> crosses_call(u)',
                      assigned_register'[w] \cap ScanRegisters # {},
                      w \notin act
               PROVE  MayFollow(w, u)'
    BY Zenon, <1>1, <1>4 DEF RetiredIsOver
  <2>1. u \in Pending /\ u \in Value
    BY Zenon, <1>6
  <2>2. w # v /\ w \notin E
    BY Zenon
  <2>3. assigned_register[w] \cap ScanRegisters # {}
    BY Zenon, <2>2
  <2>4. w \notin active
    BY Zenon, <2>2
  <2> QED BY Zenon, <2>1, <2>3, <2>4, <1>1, <1>10
<1>12. ScansAreExclusive'
  <2>1. ASSUME NEW w \in Value, w # v, crosses_call(v) <=> crosses_call(w),
               assigned_register'[w] \cap span # {}
        PROVE  MayFollow(w, v)
    <3>1. w \notin E
      BY Zenon, <2>1
    <3>2. assigned_register[w] \cap span # {}
      BY Zenon, <2>1, <3>1
    <3>3. w \notin active
      BY Zenon, <3>1, <3>2
    <3>4. assigned_register[w] \cap ScanRegisters # {}
      BY Zenon, <3>2
    <3> QED BY Zenon, <2>1, <3>3, <3>4, <1>2, <1>10
  <2> SUFFICES ASSUME NEW x \in Value, NEW y \in Value, x # y,
                      crosses_call(x) <=> crosses_call(y),
                      assigned_register'[x] \cap assigned_register'[y] # {}
               PROVE  MayFollow(x, y) \/ MayFollow(y, x)
    BY Zenon, <1>1 DEF ScansAreExclusive, ShareRegister
  <2>2. CASE x = v
    BY Zenon, <2>1, <2>2
  <2>3. CASE y = v
    BY Zenon, <2>1, <2>3
  <2>4. CASE x # v /\ y # v
    <3>1. x \notin E /\ y \notin E
      BY Zenon
    <3>2. assigned_register[x] \cap assigned_register[y] # {}
      BY Zenon, <3>1, <2>4
    <3> QED BY Zenon, <3>2 DEF IInv, ScansAreExclusive, ShareRegister
  <2> QED BY Zenon, <2>2, <2>3, <2>4
<1> QED BY Zenon, <1>7, <1>8, <1>9, <1>11, <1>12

\* Every iteration of a scan keeps the invariant.  An evicted value was visited
\* before v, so it starts no later; it cannot start at the same point, because
\* then the allocation order would have put the stronger of the two first.
LEMMA ScanStepKeepsIInv ==
  ASSUME IInv, NEW v \in Value, AssignFree(v) \/ EvictAndAssign(v) \/ LeaveUnassigned(v)
  PROVE  IInv'
<1>1. PICK E \in SUBSET Value, span \in Span, act \in SUBSET Value : Outcome(v, E, span, act)
  BY Zenon, ScanStepIsOutcome
<1>2. Iteration(v, E, span, act)
  BY Zenon, <1>1 DEF Outcome
<1>3. /\ HeldFromOwnPool' /\ EvictableIsVisited' /\ VisitedInOrder'
      /\ RetiredIsOver' /\ ScansAreExclusive'
  BY Zenon, <1>2, IterationKeepsScanInvariant
<1>4. /\ pass' = pass /\ UNCHANGED inputs /\ visited' = visited \cup {v} /\ SetActive(act)
      /\ E \subseteq expire_completed_assignments(Active, v)
  BY Zenon, <1>2 DEF Iteration
<1>5. TypeOK'
  <2>1. active_callee' \in SUBSET Value /\ active_caller' \in SUBSET Value
    BY Zenon, <1>4 DEF IInv, TypeOK, SetActive
  <2>2. /\ assigned_register' \in [Value -> Span]
        /\ spill_register_authority' \in [Value -> Span]
        /\ spill_points' \in [Value -> Point \cup {NoPoint}]
        /\ UNCHANGED <<has_stack_slot, spill_reload_ops>>
    BY Zenon, <1>1 DEF Outcome
  <2> QED BY Zenon, <2>1, <2>2, <1>4 DEF IInv, TypeOK, inputs
<1>6. EvictedInsideInterval'
  <2>1. /\ \A e \in E : spill_points'[e] = start[v] /\ has_lower_allocation_rank(e, v)
        /\ \A w \in Value \ E : spill_points'[w] = spill_points[w]
    BY Zenon, <1>1 DEF Outcome
  <2>2. ASSUME NEW e \in E PROVE start[e] < start[v] /\ start[v] <= end[e]
    <3>1. /\ start[v] \in Int /\ start[e] \in Int /\ end[e] \in Int
          /\ priority[v] \in Int /\ priority[e] \in Int
          /\ v \in Int /\ e \in Int
      BY SizesAssumption DEF IInv, TypeOK, Point, Value
    <3>2. e \in visited /\ v \in Pending
      BY Zenon, <1>2, IterationFacts
    <3>3. Precedes(e, v)
      BY Zenon, <3>2 DEF IInv, VisitedInOrder
    <3>4. start[e] < start[v]
      BY <2>1, <3>1, <3>3 DEF Precedes, has_lower_allocation_rank
    <3>5. start[v] <= end[e]
      BY <1>4, <3>1 DEF expire_completed_assignments
    <3> QED BY Zenon, <3>4, <3>5
  <2> QED BY Zenon, <2>1, <2>2, <1>4 DEF IInv, EvictedInsideInterval, inputs
<1> QED BY Zenon, <1>3, <1>5, <1>6 DEF IInv

\* The step from one scan to the next keeps the invariant.  Scan 2 starts
\* with no holder of its kind, scan 3 with holders of the other pool only.
LEMMA EndScanKeepsIInv ==
  ASSUME IInv, EndScan
  PROVE  IInv'
<1>1. /\ pass \in 1 .. 3 /\ pass' = pass + 1 /\ visited' = {} /\ UNCHANGED inputs
      /\ UNCHANGED <<active_callee, active_caller, assigned_register,
                     spill_register_authority, spill_points, has_stack_slot, spill_reload_ops>>
  BY Zenon DEF EndScan
<1>2. /\ \A x \in Value : crosses_call(x)' <=> crosses_call(x)
      /\ \A x, y \in Value : MayFollow(x, y)' <=> MayFollow(x, y)
      /\ CalleeRegisters' = CalleeRegisters /\ CallerRegisters' = CallerRegisters
  BY Zenon, <1>1 DEF inputs, crosses_call, MayFollow, CalleeRegisters, CallerRegisters, PoolRegisters
<1>3. TypeOK'
  BY <1>1 DEF IInv, TypeOK, inputs
<1>4. HeldFromOwnPool'
  <2>1. assigned_register' = assigned_register /\ pass' # 1 /\ (pass' = 2 => pass = 1)
    BY <1>1
  <2>2. ASSUME NEW v \in Value
        PROVE  /\ crosses_call(v) => assigned_register[v] \subseteq CalleeRegisters
               /\ ~crosses_call(v) /\ pass = 1 => assigned_register[v] = {}
    BY Zenon, ZenonT(30) DEF IInv, HeldFromOwnPool
  <2> QED BY Zenon, <2>1, <2>2, <1>2, ZenonT(30) DEF HeldFromOwnPool
<1>5. EvictableIsVisited'
  BY <1>1, <1>2 DEF IInv, TypeOK, EvictableIsVisited
<1>6. VisitedInOrder'
  BY Zenon, <1>1 DEF VisitedInOrder
<1>7. RetiredIsOver'
  <2> SUFFICES ASSUME pass' <= 3, NEW w \in Value, NEW u \in Pending',
                      crosses_call(w)' <=> crosses_call(u)',
                      (assigned_register[w] \cap ScanRegisters') # {}
               PROVE  FALSE
    BY Zenon, <1>1 DEF RetiredIsOver
  <2>1. u \in Value /\ ~crosses_call(u)' /\ ~crosses_call(w)
    <3>1. pass' # 1
      BY <1>1
    <3> QED BY Zenon, <3>1, <1>2, ZenonT(30) DEF Pending, should_consider
  <2>2. CASE pass = 1
    BY Zenon, <2>1, <2>2, ZenonT(30) DEF IInv, HeldFromOwnPool
  <2>3. CASE pass = 2
    <3>1. assigned_register[w] \subseteq CallerRegisters
      BY Zenon, <2>1, <2>3, ZenonT(30) DEF IInv, HeldFromOwnPool
    <3>2. ScanRegisters' = CalleeRegisters
      BY <1>1, <1>2, <2>3 DEF ScanRegisters
    <3> QED BY Zenon, <3>1, <3>2, PoolsApart DEF IInv
  <2> QED BY <1>1, <2>2, <2>3
<1>8. ScansAreExclusive'
  BY Zenon, <1>1, <1>2 DEF IInv, ScansAreExclusive, ShareRegister
<1>9. EvictedInsideInterval'
  BY Zenon, <1>1 DEF IInv, EvictedInsideInterval, inputs
<1> QED BY Zenon, <1>3, <1>4, <1>5, <1>6, <1>7, <1>8, <1>9 DEF IInv

\* Publishing slots, spills and reloads keeps the invariant.
LEMMA AssignStackSlotsKeepsIInv ==
  ASSUME IInv, AssignStackSlots
  PROVE  IInv'
<1>1. /\ pass = 4 /\ pass' = 5 /\ UNCHANGED inputs
      /\ UNCHANGED <<visited, active_callee, active_caller, assigned_register,
                     spill_register_authority, spill_points>>
      /\ has_stack_slot' = [v \in Value |-> NeedsStackSlot(v)]
      /\ spill_reload_ops' = SpillReloadOps
  BY Zenon DEF AssignStackSlots
<1>2. /\ \A x \in Value : crosses_call(x)' <=> crosses_call(x)
      /\ \A x, y \in Value : MayFollow(x, y)' <=> MayFollow(x, y)
      /\ \A x, y \in Value : Precedes(x, y)' <=> Precedes(x, y)
      /\ CalleeRegisters' = CalleeRegisters /\ CallerRegisters' = CallerRegisters
  BY Zenon, <1>1 DEF inputs, crosses_call, MayFollow, Precedes, CalleeRegisters, CallerRegisters, PoolRegisters
<1>3. \A v \in Value : PublishedSpan(v) \in Span
  BY Zenon DEF IInv, TypeOK, PublishedSpan
<1>4. ASSUME NEW o \in SpillReloadOps PROVE o \in SpillReloadOp
  <2>1. CASE \E v \in Value : /\ spill_points[v] # NoPoint
                              /\ o = [op |-> "Spill", value |-> v,
                                      point |-> spill_points[v], span |-> PublishedSpan(v)]
    BY <2>1, <1>3 DEF SpillReloadOp, IInv, TypeOK
  <2>2. CASE \E v \in Value : \E p \in use_points[v] :
                o = [op |-> "Reload", value |-> v, point |-> p, span |-> PublishedSpan(v)]
    BY <2>2, <1>3 DEF SpillReloadOp, IInv, TypeOK
  <2> QED BY Zenon, <1>4, <2>1, <2>2 DEF SpillReloadOps
<1>5. has_stack_slot' \in [Value -> BOOLEAN]
  <2>1. \A v \in Value : NeedsStackSlot(v) \in BOOLEAN
    BY Zenon DEF NeedsStackSlot, IInv, TypeOK
  <2> QED BY Zenon, <1>1, <2>1
<1>6. TypeOK'
  BY <1>1, <1>4, <1>5 DEF IInv, TypeOK, inputs
<1>7. HeldFromOwnPool'
  <2>1. assigned_register' = assigned_register /\ pass' # 1 /\ pass' # 2
    BY <1>1
  <2>2. \A v \in Value : crosses_call(v) => assigned_register[v] \subseteq CalleeRegisters
    BY Zenon, ZenonT(30) DEF IInv, HeldFromOwnPool
  <2> QED BY Zenon, <2>1, <2>2, <1>2, ZenonT(30) DEF HeldFromOwnPool
<1>8. EvictableIsVisited' /\ RetiredIsOver'
  BY <1>1 DEF EvictableIsVisited, RetiredIsOver
<1>9. VisitedInOrder'
  <2>1. Pending' \subseteq Pending
    BY <1>1, <1>2 DEF Pending, should_consider, inputs
  <2> QED BY Zenon, <2>1, <1>1, <1>2 DEF IInv, TypeOK, VisitedInOrder, Pending
<1>10. ScansAreExclusive'
  BY Zenon, <1>1, <1>2 DEF IInv, ScansAreExclusive, ShareRegister
<1>11. EvictedInsideInterval'
  BY Zenon, <1>1 DEF IInv, EvictedInsideInterval, inputs
<1> QED BY Zenon, <1>6, <1>7, <1>8, <1>9, <1>10, <1>11 DEF IInv

\* Initially nothing is held, active or visited.
LEMMA InitEstablishesIInv == Init => IInv
<1> SUFFICES ASSUME Init PROVE IInv
  BY Zenon
<1>1. TypeOK
  BY SizesAssumption DEF Init, TypeOK, Span
<1>2. HeldFromOwnPool
  BY Zenon DEF Init, HeldFromOwnPool
<1>3. EvictableIsVisited
  BY Zenon DEF Init, EvictableIsVisited
<1>4. VisitedInOrder
  BY Zenon DEF Init, VisitedInOrder
<1>5. RetiredIsOver
  BY Zenon DEF Init, RetiredIsOver
<1>6. ScansAreExclusive
  BY Zenon DEF Init, ScansAreExclusive, ShareRegister
<1>7. EvictedInsideInterval
  BY Zenon DEF Init, EvictedInsideInterval
<1> QED BY Zenon, <1>1, <1>2, <1>3, <1>4, <1>5, <1>6, <1>7 DEF IInv

\* Every step of run_regalloc keeps the invariant.
LEMMA NextKeepsIInv == IInv /\ [Next]_vars => IInv'
<1> SUFFICES ASSUME IInv, [Next]_vars PROVE IInv'
  BY Zenon
<1>1. ASSUME NEW v \in Value, AssignFree(v) \/ EvictAndAssign(v) \/ LeaveUnassigned(v)
      PROVE  IInv'
  BY Zenon, <1>1, ScanStepKeepsIInv
<1>2. CASE EndScan
  BY Zenon, <1>2, EndScanKeepsIInv
<1>3. CASE AssignStackSlots
  BY Zenon, <1>3, AssignStackSlotsKeepsIInv
<1>4. CASE UNCHANGED vars
  <2>1. UNCHANGED <<start, end, call_points, use_points, priority, width, kind,
                    stack_formal, has_dynamic_stack, pass, visited, active_callee,
                    active_caller, assigned_register, spill_register_authority,
                    spill_points, has_stack_slot, spill_reload_ops>>
    BY Zenon, <1>4 DEF vars, inputs
  <2>2. TypeOK'
    BY Zenon, <2>1 DEF IInv, TypeOK
  <2>3. /\ \A x \in Value : crosses_call(x)' <=> crosses_call(x)
        /\ \A x, y \in Value : MayFollow(x, y)' <=> MayFollow(x, y)
        /\ \A x, y \in Value : Precedes(x, y)' <=> Precedes(x, y)
        /\ CalleeRegisters' = CalleeRegisters /\ CallerRegisters' = CallerRegisters
        /\ ScanRegisters' = ScanRegisters /\ Active' = Active
    BY Zenon, <2>1 DEF crosses_call, MayFollow, Precedes, CalleeRegisters, CallerRegisters,
                PoolRegisters, ScanRegisters, Active
  <2>4. Pending' = Pending /\ Pending \subseteq Value
    BY Zenon, <2>1, <2>3 DEF Pending, should_consider
  <2>5. HeldFromOwnPool' /\ EvictableIsVisited'
    BY Zenon, <2>1, <2>3 DEF IInv, TypeOK, HeldFromOwnPool, EvictableIsVisited
  <2>6. VisitedInOrder'
    BY Zenon, <2>1, <2>3, <2>4 DEF IInv, TypeOK, VisitedInOrder
  <2>7. RetiredIsOver'
    BY Zenon, <2>1, <2>3, <2>4 DEF IInv, RetiredIsOver
  <2>8. ScansAreExclusive' /\ EvictedInsideInterval'
    BY Zenon, <2>1, <2>3 DEF IInv, ScansAreExclusive, ShareRegister, EvictedInsideInterval
  <2> QED BY Zenon, <2>2, <2>5, <2>6, <2>7, <2>8 DEF IInv
<1> QED BY Zenon, <1>1, <1>2, <1>3, <1>4 DEF Next

-----------------------------------------------------------------------------
\* An iteration keeps who is evicted, when, and from which pool.
LEMMA OutcomeKeepsEvictions ==
  ASSUME IInv, SpillInv, NEW v \in Value, NEW E \in SUBSET Value, NEW span \in Span, NEW act,
         Outcome(v, E, span, act)
  PROVE  /\ VisitedAreOfScan' /\ EvictedWasCandidate' /\ EvictedHadItsTurn'
         /\ EvictedFromOwnPool' /\ SpilledBeforePending'
<1>1. Iteration(v, E, span, act)
  BY Zenon DEF Outcome
<1>2. /\ pass \in 1 .. 3 /\ pass' = pass /\ visited' = visited \cup {v}
      /\ v \in Pending /\ v \notin visited /\ (pass = 1 <=> crosses_call(v))
      /\ assigned_register[v] = {} /\ kind[v] = "Register"
      /\ E \subseteq visited /\ v \notin E
      /\ \A u \in Pending' : u \in Pending /\ u # v /\ u \in Value
  BY Zenon, <1>1, IterationFacts
<1>3. UNCHANGED inputs
  BY Zenon, <1>1 DEF Iteration
<1>4. /\ \A x \in Value : crosses_call(x)' <=> crosses_call(x)
      /\ \A x, y \in Value : SameSide(x, y)' <=> SameSide(x, y)
      /\ kind' = kind /\ start' = start
  BY Zenon, <1>3, InputsFixTheIntervals
<1>5. /\ \A e \in E : /\ spill_points'[e] = start[v]
                      /\ spill_register_authority'[e] = assigned_register[e]
                      /\ assigned_register[e] # {}
                      /\ assigned_register'[e] = {}
      /\ \A w \in Value \ E : /\ spill_points'[w] = spill_points[w]
                              /\ spill_register_authority'[w] = spill_register_authority[w]
      /\ \A w \in Value : w \notin E /\ w # v => assigned_register'[w] = assigned_register[w]
  BY Zenon, <1>1 DEF Outcome, Iteration
<1>6. start[v] \in Int /\ start[v] # NoPoint
  BY SizesAssumption DEF IInv, TypeOK, Point, NoPoint
<1>7. VisitedAreOfScan'
  <2>1. \A w \in visited : pass = 1 <=> crosses_call(w)
    BY <1>2 DEF SpillInv, VisitedAreOfScan
  <2>2. visited \subseteq Value
    BY Zenon DEF IInv, TypeOK
  <2> QED BY Zenon, <2>1, <2>2, <1>2, <1>4 DEF VisitedAreOfScan
<1>8. EvictedWasCandidate'
  <2> SUFFICES ASSUME NEW x \in Value
               PROVE  /\ assigned_register'[x] \cup spill_register_authority'[x] # {}
                           => kind[x] = "Register"
                      /\ spill_register_authority'[x] # {} <=> spill_points'[x] # NoPoint
    BY Zenon, <1>4 DEF EvictedWasCandidate, Held, NoPoint
  <2>1. /\ assigned_register[x] \cup spill_register_authority[x] # {} => kind[x] = "Register"
        /\ spill_register_authority[x] # {} <=> spill_points[x] # NoPoint
    BY Zenon DEF SpillInv, EvictedWasCandidate, Held
  <2>2. CASE x \in E
    BY Zenon, <2>1, <2>2, <1>5, <1>6
  <2>3. CASE x = v
    BY Zenon, <2>1, <2>3, <1>2, <1>5
  <2>4. CASE x \notin E /\ x # v
    BY Zenon, <2>1, <2>4, <1>5
  <2> QED BY Zenon, <2>2, <2>3, <2>4
<1>9. EvictedHadItsTurn'
  <2> SUFFICES ASSUME pass <= 2, NEW x \in Value, spill_register_authority'[x] # {}
               PROVE  /\ assigned_register'[x] = {}
                      /\ (pass = 1 <=> crosses_call(x)) => x \in visited \cup {v}
    BY Zenon, <1>2, <1>4 DEF EvictedHadItsTurn
  <2>1. CASE x \in E
    BY Zenon, <2>1, <1>2, <1>5
  <2>2. CASE x \notin E
    <3>1. /\ assigned_register[x] = {}
          /\ (pass = 1 <=> crosses_call(x)) => x \in visited
      BY Zenon, <2>2, <1>5 DEF SpillInv, EvictedHadItsTurn
    <3>2. x # v
      BY Zenon, <3>1, <1>2
    <3> QED BY Zenon, <2>2, <3>1, <3>2, <1>5
  <2> QED BY Zenon, <2>1, <2>2
<1>10. EvictedFromOwnPool'
  <2> SUFFICES ASSUME NEW x \in Value
               PROVE  /\ crosses_call(x) => spill_register_authority'[x] \subseteq CalleeRegisters
                      /\ ~crosses_call(x) /\ pass = 1 => spill_register_authority'[x] = {}
                      /\ ~crosses_call(x) /\ pass = 2 =>
                           spill_register_authority'[x] \subseteq CallerRegisters
    BY Zenon, <1>2, <1>4 DEF EvictedFromOwnPool, CalleeRegisters, CallerRegisters, PoolRegisters
  <2>1. CASE x \in E
    BY Zenon, <2>1, <1>5 DEF IInv, HeldFromOwnPool
  <2>2. CASE x \notin E
    BY Zenon, <2>2, <1>5 DEF SpillInv, EvictedFromOwnPool
  <2> QED BY Zenon, <2>1, <2>2
<1>11. SpilledBeforePending'
  <2>1. ScanRegisters' = ScanRegisters
    BY Zenon, <1>2 DEF ScanRegisters, CalleeRegisters, CallerRegisters, PoolRegisters
  <2> SUFFICES ASSUME NEW x \in Value, NEW u \in Pending', SameSide(x, u)',
                      spill_register_authority'[x] \cap ScanRegisters # {}
               PROVE  spill_points'[x] <= start[u]
    BY Zenon, <1>4, <2>1 DEF SpilledBeforePending
  <2>2. u \in Pending /\ u # v /\ u \in Value /\ SameSide(x, u)
    BY Zenon, <1>2, <1>4
  <2>3. CASE x \in E
    <3>1. Precedes(v, u)
      BY Zenon, <1>1, <2>2 DEF Iteration, IsNext
    <3>2. start[u] \in Int
      BY <2>2, SizesAssumption DEF IInv, TypeOK, Point
    <3>3. start[v] <= start[u]
      BY <3>1, <3>2, <1>6 DEF Precedes
    <3> QED BY Zenon, <2>3, <3>3, <1>5
  <2>4. CASE x \notin E
    BY <2>2, <2>4, <1>2, <1>5 DEF SpillInv, SpilledBeforePending
  <2> QED BY Zenon, <2>3, <2>4
<1> QED BY Zenon, <1>7, <1>8, <1>9, <1>10, <1>11

\* An iteration gives nobody a register that an evicted value still lives in:
\* what the scan evicts it evicts where v starts, and v takes registers of this
\* scan's pool, whose earlier evictions lie before v.
LEMMA OutcomeKeepsVacated ==
  ASSUME IInv, SpillInv, NEW v \in Value, NEW E \in SUBSET Value, NEW span \in Span, NEW act,
         Outcome(v, E, span, act)
  PROVE  LostRegisterIsVacated'
<1>1. Iteration(v, E, span, act)
  BY Zenon DEF Outcome
<1>2. /\ pass \in 1 .. 3 /\ v \in Pending /\ v \notin E
  BY Zenon, <1>1, IterationFacts
<1>3. UNCHANGED inputs
  BY Zenon, <1>1 DEF Iteration
<1>4. /\ \A x, y \in Value : SameSide(x, y)' <=> SameSide(x, y)
      /\ \A x, y \in Value : MayFollow(x, y)' <=> MayFollow(x, y)
      /\ start' = start
  BY Zenon, <1>3, InputsFixTheIntervals
<1>5. /\ \A e \in E : /\ spill_points'[e] = start[v]
                      /\ spill_register_authority'[e] = assigned_register[e]
                      /\ assigned_register'[e] = {}
      /\ \A w \in Value \ E : /\ spill_points'[w] = spill_points[w]
                              /\ spill_register_authority'[w] = spill_register_authority[w]
      /\ \A w \in Value : w \notin E /\ w # v => assigned_register'[w] = assigned_register[w]
      /\ assigned_register'[v] = span /\ span \subseteq ScanRegisters
      /\ E \subseteq expire_completed_assignments(Active, v)
  BY Zenon, <1>1 DEF Outcome, Iteration
<1>6. \A x \in Value : start[x] \in Int /\ end[x] \in Int
  BY SizesAssumption DEF IInv, TypeOK, Point
<1> SUFFICES ASSUME NEW x \in Value, NEW w \in Value, x # w, SameSide(x, w),
                    assigned_register'[w] \cap spill_register_authority'[x] # {}
             PROVE  MayFollow(w, x) \/ spill_points'[x] <= start[w]
  BY Zenon, <1>4 DEF LostRegisterIsVacated
<1>7. w \notin E
  BY Zenon, <1>5
<1>8. CASE x \in E /\ w = v
  BY <1>5, <1>6, <1>8
<1>9. CASE x \in E /\ w # v
  <2>1. assigned_register[w] \cap assigned_register[x] # {}
    BY Zenon, <1>5, <1>7, <1>9
  <2>2. MayFollow(x, w) \/ MayFollow(w, x)
    BY Zenon, <2>1 DEF IInv, ScansAreExclusive, ShareRegister, SameSide
  <2>3. start[v] <= end[x]
    <3>1. ~(end[x] < start[v])
      BY Zenon, <1>5, <1>9 DEF expire_completed_assignments
    <3> QED BY <3>1, <1>6
  <2>4. MayFollow(x, w) => end[x] <= start[w]
    BY <1>6 DEF MayFollow
  <2>5. end[x] <= start[w] => start[v] <= start[w]
    BY <2>3, <1>6
  <2> QED BY Zenon, <2>2, <2>4, <2>5, <1>5, <1>9
<1>10. CASE x \notin E /\ w = v
  <2>1. spill_register_authority[x] \cap ScanRegisters # {}
    BY Zenon, <1>5, <1>10
  <2>2. spill_points[x] <= start[v]
    BY <2>1, <1>2, <1>10 DEF SpillInv, SpilledBeforePending
  <2> QED BY Zenon, <2>2, <1>5, <1>10
<1>11. CASE x \notin E /\ w # v
  BY Zenon, <1>5, <1>7, <1>11 DEF SpillInv, LostRegisterIsVacated
<1> QED BY Zenon, <1>8, <1>9, <1>10, <1>11

\* Whoever holds or held a register of its own scan keeps that claim while the
\* scan goes on: an eviction turns the register into the lost one.
LEMMA OutcomeKeepsHeld ==
  ASSUME IInv, SpillInv, NEW v \in Value, NEW E \in SUBSET Value, NEW span \in Span, NEW act,
         Outcome(v, E, span, act), pass <= 2, NEW w \in Value
  PROVE  Held(w) \subseteq Held(w)'
<1>1. Iteration(v, E, span, act)
  BY Zenon DEF Outcome
<1>2. assigned_register[v] = {} /\ v \notin E
  BY Zenon, <1>1, IterationFacts
<1>3. CASE w \in E
  <2>1. spill_register_authority'[w] = assigned_register[w] /\ assigned_register[w] # {}
    BY Zenon, <1>3 DEF Outcome
  <2>2. spill_register_authority[w] = {}
    BY Zenon, <2>1 DEF SpillInv, EvictedHadItsTurn
  <2> QED BY Zenon, <2>1, <2>2 DEF Held
<1>4. CASE w = v
  BY Zenon, <1>2, <1>4 DEF Outcome, Held
<1>5. CASE w \notin E /\ w # v
  BY Zenon, <1>1, <1>5 DEF Outcome, Iteration, Held
<1> QED BY Zenon, <1>3, <1>4, <1>5

\* A claim that is kept keeps a justification.
LEMMA JustificationIsKept ==
  ASSUME UNCHANGED inputs, NEW x \in Value,
         spill_points'[x] = spill_points[x],
         spill_register_authority'[x] = spill_register_authority[x],
         \A w \in Value : SameSide(x, w) => Held(w) \subseteq Held(w)'
  PROVE  /\ PoolWasFull(x) => PoolWasFull(x)'
         /\ LostToStronger(x) => LostToStronger(x)'
<1>1. /\ \A w \in Value : SameSide(x, w)' <=> SameSide(x, w)
      /\ \A w \in Value : Overlap(x, w)' <=> Overlap(x, w)
      /\ \A w \in Value : has_lower_allocation_rank(x, w)' <=> has_lower_allocation_rank(x, w)
      /\ OwnSpans(x)' = OwnSpans(x) /\ start' = start
  BY Zenon, InputsFixTheIntervals
<1>2. PoolWasFull(x) => PoolWasFull(x)'
  <2> SUFFICES ASSUME PoolWasFull(x), NEW k \in DOMAIN OwnSpans(x)
               PROVE  \E w \in Value \ {x} : /\ SameSide(x, w)' /\ Overlap(x, w)'
                                             /\ (Held(w)' \cap OwnSpans(x)[k]) # {}
    BY Zenon, <1>1 DEF PoolWasFull
  <2>1. PICK w \in Value \ {x} : /\ SameSide(x, w) /\ Overlap(x, w)
                                 /\ Held(w) \cap OwnSpans(x)[k] # {}
    BY Zenon DEF PoolWasFull
  <2>2. Held(w)' \cap OwnSpans(x)[k] # {}
    BY Zenon, <2>1
  <2> QED BY Zenon, <2>1, <2>2, <1>1
<1>3. LostToStronger(x) => LostToStronger(x)'
  <2> SUFFICES ASSUME LostToStronger(x) PROVE LostToStronger(x)'
    BY Zenon
  <2>1. PICK w \in Value \ {x} : /\ SameSide(x, w) /\ has_lower_allocation_rank(x, w)
                                 /\ start[w] = spill_points[x]
                                 /\ Held(w) \cap spill_register_authority[x] # {}
    BY Zenon DEF LostToStronger
  <2>2. Held(w)' \cap spill_register_authority'[x] # {}
    BY Zenon, <2>1
  <2> QED BY Zenon, <2>1, <2>2, <1>1 DEF LostToStronger
<1> QED BY Zenon, <1>2, <1>3

\* An iteration that leaves v without a register has found the pool full of
\* values that are live where v starts.
LEMMA LeftAloneIsJustified ==
  ASSUME IInv, SpillInv, NEW v \in Value, NEW E \in SUBSET Value, NEW span \in Span, NEW act,
         Outcome(v, E, span, act), pass <= 2, span = {}
  PROVE  PoolWasFull(v)
<1> DEFINE active == expire_completed_assignments(Active, v)
<1>1. Iteration(v, E, span, act)
  BY Zenon DEF Outcome
<1>2. /\ pass \in 1 .. 3 /\ v \in Pending /\ (pass = 1 <=> crosses_call(v))
      /\ assigned_register[v] = {}
  BY Zenon, <1>1, IterationFacts
<1>3. Spans(v) = OwnSpans(v)
  BY <1>2 DEF Spans, OwnSpans
<1>4. active \subseteq Active /\ Active \subseteq Value /\ Active \subseteq visited
  <2>1. Active \subseteq visited
    BY <1>2 DEF IInv, EvictableIsVisited, Active
  <2>2. Active \subseteq Value
    BY Zenon DEF IInv, TypeOK, Active
  <2> QED BY Zenon, <2>1, <2>2 DEF expire_completed_assignments
<1> SUFFICES ASSUME NEW k \in DOMAIN Spans(v)
             PROVE  \E w \in Value \ {v} : /\ SameSide(v, w) /\ Overlap(v, w)
                                           /\ Held(w) \cap Spans(v)[k] # {}
  BY Zenon, <1>3 DEF PoolWasFull
<1>5. PICK w \in active : assigned_register[w] \cap Spans(v)[k] # {}
  BY Zenon DEF Outcome, IsFree
<1>6. w \in Value /\ w \in visited /\ w # v
  BY Zenon, <1>2, <1>4, <1>5
<1>7. SameSide(v, w)
  BY <1>2, <1>6 DEF SpillInv, VisitedAreOfScan, SameSide
<1>8. Overlap(v, w)
  <2>1. start[v] \in Int /\ end[v] \in Int /\ start[w] \in Int /\ end[w] \in Int
    BY <1>6, SizesAssumption DEF IInv, TypeOK, Point
  <2>2. start[w] <= start[v]
    <3>1. Precedes(w, v)
      BY Zenon, <1>2, <1>6 DEF IInv, VisitedInOrder
    <3> QED BY <2>1, <3>1 DEF Precedes
  <2>3. start[v] <= end[w]
    <3>1. ~(end[w] < start[v])
      BY Zenon, <1>5 DEF expire_completed_assignments
    <3> QED BY <2>1, <3>1
  <2>4. start[v] <= end[v]
    BY Zenon DEF SpillInv
  <2> QED BY <2>1, <2>2, <2>3, <2>4 DEF Overlap
<1> QED BY Zenon, <1>5, <1>6, <1>7, <1>8 DEF Held

\* An iteration leaves every value whose turn is over with its justification.
LEMMA OutcomeKeepsJustified ==
  ASSUME IInv, SpillInv, NEW v \in Value, NEW E \in SUBSET Value, NEW span \in Span, NEW act,
         Outcome(v, E, span, act)
  PROVE  TurnsAreJustified'
<1>1. Iteration(v, E, span, act)
  BY Zenon DEF Outcome
<1>2. /\ pass \in 1 .. 3 /\ pass' = pass /\ visited' = visited \cup {v}
      /\ v \notin visited /\ (pass = 1 <=> crosses_call(v))
      /\ assigned_register[v] = {} /\ E \subseteq visited /\ v \notin E
  BY Zenon, <1>1, IterationFacts
<1>3. UNCHANGED inputs
  BY Zenon, <1>1 DEF Iteration
<1>4. /\ \A x \in Value : crosses_call(x)' <=> crosses_call(x)
      /\ \A x, y \in Value : SameSide(x, y)' <=> SameSide(x, y)
      /\ \A x, y \in Value :
           has_lower_allocation_rank(x, y)' <=> has_lower_allocation_rank(x, y)
      /\ kind' = kind /\ start' = start
  BY Zenon, <1>3, InputsFixTheIntervals
<1>5. /\ \A e \in E : /\ spill_points'[e] = start[v]
                      /\ spill_register_authority'[e] = assigned_register[e]
                      /\ assigned_register[e] \cap span # {}
                      /\ has_lower_allocation_rank(e, v)
      /\ \A w \in Value \ E : /\ spill_points'[w] = spill_points[w]
                              /\ spill_register_authority'[w] = spill_register_authority[w]
      /\ \A w \in Value : w \notin E /\ w # v => assigned_register'[w] = assigned_register[w]
      /\ assigned_register'[v] = span
  BY Zenon, <1>1 DEF Outcome, Iteration
<1>6. \A e \in E : SameSide(e, v)
  BY <1>2 DEF SpillInv, VisitedAreOfScan, SameSide
<1> SUFFICES ASSUME NEW x \in Value, kind[x] = "Register", assigned_register'[x] = {},
                    TurnIsOver(x)'
             PROVE  (IF spill_points[x] = NoPoint THEN PoolWasFull(x) ELSE LostToStronger(x))'
  BY Zenon, <1>4 DEF TurnsAreJustified
<1>7. CASE crosses_call(x) /\ pass >= 2
  <2>1. x # v /\ x \notin E
    BY <1>2, <1>6, <1>7 DEF SameSide
  <2>2. IF spill_points[x] = NoPoint THEN PoolWasFull(x) ELSE LostToStronger(x)
    <3>1. assigned_register[x] = {}
      BY Zenon, <2>1, <1>5
    <3> QED BY Zenon, <3>1, <1>7 DEF SpillInv, TurnsAreJustified, TurnIsOver, OwnScanIsOver
  <2>3. ASSUME NEW w \in Value, SameSide(x, w) PROVE Held(w) \subseteq Held(w)'
    <3>1. w # v /\ w \notin E
      BY <2>3, <1>2, <1>6, <1>7 DEF SameSide
    <3> QED BY Zenon, <3>1, <1>5 DEF Held
  <2>4. spill_points'[x] = spill_points[x]
        /\ spill_register_authority'[x] = spill_register_authority[x]
    BY Zenon, <2>1, <1>5
  <2>5. /\ PoolWasFull(x) => PoolWasFull(x)'
        /\ LostToStronger(x) => LostToStronger(x)'
    BY Zenon, <2>3, <2>4, <1>3, JustificationIsKept
  <2> QED BY Zenon, <2>2, <2>4, <2>5 DEF NoPoint
<1>8. CASE pass <= 2 /\ x \in visited \cup {v}
  <2>1. \A w \in Value : Held(w) \subseteq Held(w)'
    BY Zenon, <1>8, OutcomeKeepsHeld
  <2>2. CASE x = v
    <3>1. span = {} /\ PoolWasFull(v)
      BY Zenon, <2>2, <1>5, <1>8, LeftAloneIsJustified
    <3>2. spill_points[v] = NoPoint
      <4>1. spill_register_authority[v] = {}
        BY Zenon, <1>2, <1>8 DEF SpillInv, EvictedHadItsTurn
      <4> QED BY Zenon, <4>1 DEF SpillInv, EvictedWasCandidate
    <3>3. spill_points'[v] = spill_points[v]
          /\ spill_register_authority'[v] = spill_register_authority[v]
      BY Zenon, <1>2, <1>5
    <3>4. PoolWasFull(v) => PoolWasFull(v)'
      BY Zenon, <2>1, <3>3, <1>3, JustificationIsKept
    <3> QED BY Zenon, <2>2, <3>1, <3>2, <3>3, <3>4 DEF NoPoint
  <2>3. CASE x \in E
    <3>1. spill_points'[x] = start[v] /\ start[v] # NoPoint
      BY <2>3, <1>5, SizesAssumption DEF IInv, TypeOK, Point, NoPoint
    <3>2. Held(v)' \cap spill_register_authority'[x] # {}
      BY Zenon, <2>3, <1>5 DEF Held
    <3>3. SameSide(x, v)' /\ has_lower_allocation_rank(x, v)' /\ v # x
      BY Zenon, <2>3, <1>2, <1>4, <1>5, <1>6
    <3>4. LostToStronger(x)'
      BY Zenon, <3>1, <3>2, <3>3, <1>4 DEF LostToStronger
    <3> QED BY Zenon, <3>1, <3>4 DEF NoPoint
  <2>4. CASE x # v /\ x \notin E
    <3>1. assigned_register[x] = {} /\ x \in visited
      BY Zenon, <2>4, <1>5, <1>8
    <3>2. TurnIsOver(x)
      <4>1. pass = 1 <=> crosses_call(x)
        BY <3>1, <1>2 DEF SpillInv, VisitedAreOfScan
      <4> QED BY <3>1, <4>1, <1>2, <1>8 DEF TurnIsOver
    <3>3. IF spill_points[x] = NoPoint THEN PoolWasFull(x) ELSE LostToStronger(x)
      BY Zenon, <3>1, <3>2 DEF SpillInv, TurnsAreJustified
    <3>4. spill_points'[x] = spill_points[x]
          /\ spill_register_authority'[x] = spill_register_authority[x]
      BY Zenon, <2>4, <1>5
    <3>5. /\ PoolWasFull(x) => PoolWasFull(x)'
          /\ LostToStronger(x) => LostToStronger(x)'
      BY Zenon, <2>1, <3>4, <1>3, JustificationIsKept
    <3> QED BY Zenon, <3>3, <3>4, <3>5 DEF NoPoint
  <2> QED BY Zenon, <2>2, <2>3, <2>4
<1>9. (crosses_call(x) /\ pass >= 2) \/ (pass <= 2 /\ x \in visited \cup {v})
  BY <1>2, <1>4 DEF TurnIsOver, OwnScanIsOver
<1> QED BY Zenon, <1>7, <1>8, <1>9

\* Every iteration of a scan keeps the invariant about evictions.
LEMMA ScanStepKeepsSpillInv ==
  ASSUME IInv, SpillInv, NEW v \in Value,
         AssignFree(v) \/ EvictAndAssign(v) \/ LeaveUnassigned(v)
  PROVE  SpillInv'
<1>1. PICK E \in SUBSET Value, span \in Span, act \in SUBSET Value : Outcome(v, E, span, act)
  BY Zenon, ScanStepIsOutcome
<1>2. /\ VisitedAreOfScan' /\ EvictedWasCandidate' /\ EvictedHadItsTurn'
      /\ EvictedFromOwnPool' /\ SpilledBeforePending'
  BY Zenon, <1>1, OutcomeKeepsEvictions
<1>3. LostRegisterIsVacated' /\ TurnsAreJustified'
  BY Zenon, <1>1, OutcomeKeepsVacated, OutcomeKeepsJustified
<1>4. pass \in 1 .. 3 /\ pass' = pass /\ UNCHANGED inputs
  BY Zenon, <1>1 DEF Outcome, Iteration
<1>5. OpsArePublished' /\ \A x \in Value : start'[x] <= end'[x]
  BY <1>4 DEF OpsArePublished, SpillInv, inputs
<1> QED BY Zenon, <1>2, <1>3, <1>5 DEF SpillInv

\* A step that changes neither registers nor evictions keeps what is said of
\* them, whatever pass it goes to.
LEMMA QuietStepKeepsRecords ==
  ASSUME SpillInv, UNCHANGED inputs,
         UNCHANGED <<assigned_register, spill_register_authority, spill_points>>
  PROVE  /\ \A x \in Value : start'[x] <= end'[x]
         /\ EvictedWasCandidate' /\ LostRegisterIsVacated'
         /\ \A x \in Value : PoolWasFull(x) => PoolWasFull(x)'
         /\ \A x \in Value : LostToStronger(x) => LostToStronger(x)'
<1>1. /\ \A x, y \in Value : SameSide(x, y)' <=> SameSide(x, y)
      /\ \A x, y \in Value : MayFollow(x, y)' <=> MayFollow(x, y)
      /\ kind' = kind /\ start' = start /\ end' = end
  BY Zenon, InputsFixTheIntervals
<1>2. \A w \in Value : Held(w) \subseteq Held(w)'
  BY Zenon DEF Held
<1>3. EvictedWasCandidate'
  BY Zenon, <1>1 DEF SpillInv, EvictedWasCandidate, Held, NoPoint
<1>4. LostRegisterIsVacated'
  BY Zenon, <1>1 DEF SpillInv, LostRegisterIsVacated
<1>5. \A x \in Value : /\ PoolWasFull(x) => PoolWasFull(x)'
                       /\ LostToStronger(x) => LostToStronger(x)'
  BY Zenon, <1>2, JustificationIsKept
<1> QED BY Zenon, <1>1, <1>3, <1>4, <1>5 DEF SpillInv

\* At the end of a scan every candidate without a register has had its turn,
\* and no eviction is from the pool of the scan that follows.
LEMMA EndScanKeepsSpillInv ==
  ASSUME IInv, SpillInv, EndScan
  PROVE  SpillInv'
<1>1. /\ pass \in 1 .. 3 /\ pass' = pass + 1 /\ visited' = {} /\ UNCHANGED inputs
      /\ Pending = {}
      /\ UNCHANGED <<assigned_register, spill_register_authority, spill_points>>
  BY Zenon DEF EndScan
<1>2. /\ \A x \in Value : crosses_call(x)' <=> crosses_call(x)
      /\ \A x, y \in Value : SameSide(x, y)' <=> SameSide(x, y)
      /\ kind' = kind
  BY Zenon, <1>1, InputsFixTheIntervals
<1>3. /\ \A x \in Value : start'[x] <= end'[x]
      /\ EvictedWasCandidate' /\ LostRegisterIsVacated'
      /\ \A x \in Value : PoolWasFull(x) => PoolWasFull(x)'
      /\ \A x \in Value : LostToStronger(x) => LostToStronger(x)'
  BY Zenon, <1>1, QuietStepKeepsRecords
<1>4. VisitedAreOfScan' /\ OpsArePublished'
  BY <1>1 DEF VisitedAreOfScan, OpsArePublished
<1>5. CalleeRegisters' = CalleeRegisters /\ CallerRegisters' = CallerRegisters
  BY Zenon DEF CalleeRegisters, CallerRegisters, PoolRegisters
<1>6. \A x \in Value : /\ crosses_call(x) => spill_register_authority[x] \subseteq CalleeRegisters
                       /\ ~crosses_call(x) /\ pass = 1 => spill_register_authority[x] = {}
                       /\ ~crosses_call(x) /\ pass = 2 =>
                            spill_register_authority[x] \subseteq CallerRegisters
  BY Zenon DEF SpillInv, EvictedFromOwnPool
<1>7. EvictedFromOwnPool'
  <2>1. pass' # 1 /\ (pass' = 2 => pass = 1)
    BY <1>1
  <2> QED BY Zenon, <2>1, <1>1, <1>2, <1>5, <1>6 DEF EvictedFromOwnPool
<1>8. EvictedHadItsTurn'
  <2> SUFFICES ASSUME pass = 1, NEW x \in Value, spill_register_authority[x] # {}
               PROVE  assigned_register[x] = {} /\ crosses_call(x)
    BY <1>1, <1>2 DEF EvictedHadItsTurn
  <2> QED BY <1>6 DEF SpillInv, EvictedHadItsTurn
<1>9. SpilledBeforePending'
  <2> SUFFICES ASSUME pass \in 1 .. 2, NEW x \in Value, NEW u \in Pending', SameSide(x, u)',
                      (spill_register_authority[x] \cap ScanRegisters') # {}
               PROVE  FALSE
    BY <1>1 DEF SpilledBeforePending
  <2>1. u \in Value /\ ~crosses_call(u)'
    <3>1. pass' # 1
      BY <1>1
    <3> QED BY <3>1, Zenon DEF Pending, should_consider
  <2>2. ~crosses_call(x)
    BY Zenon, <2>1, <1>2 DEF SameSide
  <2>3. CASE pass = 1
    BY Zenon, <2>2, <2>3, <1>6
  <2>4. CASE pass = 2
    <3>1. ScanRegisters' = CalleeRegisters
      BY <1>1, <1>5, <2>4 DEF ScanRegisters
    <3> QED BY Zenon, <2>2, <2>4, <3>1, <1>6, PoolsApart DEF IInv
  <2> QED BY <2>3, <2>4
<1>10. TurnsAreJustified'
  <2> SUFFICES ASSUME NEW x \in Value, kind[x] = "Register", assigned_register[x] = {},
                      TurnIsOver(x)'
               PROVE  IF spill_points[x] = NoPoint THEN PoolWasFull(x)' ELSE LostToStronger(x)'
    BY Zenon, <1>1, <1>2 DEF TurnsAreJustified, NoPoint
  <2>1. IF crosses_call(x) THEN pass >= 1 ELSE pass = 2
    BY <1>1, <1>2 DEF TurnIsOver, OwnScanIsOver
  <2>2. TurnIsOver(x)
    <3>1. CASE crosses_call(x) /\ pass >= 2
      BY Zenon, <3>1 DEF TurnIsOver, OwnScanIsOver
    <3>2. CASE pass = 1 <=> crosses_call(x)
      <4>1. x \in visited
        BY Zenon, <3>2, <1>1 DEF Pending, should_consider
      <4> QED BY Zenon, <3>2, <4>1, <2>1, <1>1 DEF TurnIsOver
    <3> QED BY <2>1, <3>1, <3>2, <1>1
  <2>3. IF spill_points[x] = NoPoint THEN PoolWasFull(x) ELSE LostToStronger(x)
    BY Zenon, <2>2 DEF SpillInv, TurnsAreJustified
  <2> QED BY Zenon, <2>3, <1>3
<1> QED BY Zenon, <1>3, <1>4, <1>7, <1>8, <1>9, <1>10 DEF SpillInv

\* Publishing slots, spills and reloads keeps the invariant about evictions.
LEMMA AssignStackSlotsKeepsSpillInv ==
  ASSUME IInv, SpillInv, AssignStackSlots
  PROVE  SpillInv'
<1>1. /\ pass = 4 /\ pass' = 5 /\ UNCHANGED inputs /\ UNCHANGED visited
      /\ UNCHANGED <<assigned_register, spill_register_authority, spill_points>>
      /\ has_stack_slot' = [v \in Value |-> NeedsStackSlot(v)]
      /\ spill_reload_ops' = SpillReloadOps
  BY Zenon DEF AssignStackSlots
<1>2. /\ \A x \in Value : crosses_call(x)' <=> crosses_call(x)
      /\ kind' = kind
  BY Zenon, <1>1, InputsFixTheIntervals
<1>3. /\ \A x \in Value : start'[x] <= end'[x]
      /\ EvictedWasCandidate' /\ LostRegisterIsVacated'
      /\ \A x \in Value : PoolWasFull(x) => PoolWasFull(x)'
      /\ \A x \in Value : LostToStronger(x) => LostToStronger(x)'
  BY Zenon, <1>1, QuietStepKeepsRecords
<1>4. VisitedAreOfScan' /\ EvictedHadItsTurn' /\ SpilledBeforePending'
  BY <1>1 DEF VisitedAreOfScan, EvictedHadItsTurn, SpilledBeforePending
<1>5. EvictedFromOwnPool'
  <2>1. \A x \in Value : crosses_call(x) => spill_register_authority[x] \subseteq CalleeRegisters
    BY Zenon DEF SpillInv, EvictedFromOwnPool
  <2>2. CalleeRegisters' = CalleeRegisters
    BY Zenon DEF CalleeRegisters, PoolRegisters
  <2>3. pass' # 1 /\ pass' # 2
    BY <1>1
  <2> QED BY Zenon, <2>1, <2>2, <2>3, <1>1, <1>2 DEF EvictedFromOwnPool
<1>6. OpsArePublished'
  <2>1. SpillReloadOps' = SpillReloadOps
    BY <1>1 DEF SpillReloadOps, NeedsStackSlot, PublishedSpan, inputs, NoPoint
  <2>2. [v \in Value |-> NeedsStackSlot(v)]' = [v \in Value |-> NeedsStackSlot(v)]
    BY Zenon, <1>1 DEF NeedsStackSlot, inputs
  <2> QED BY Zenon, <2>1, <2>2, <1>1 DEF OpsArePublished
<1>7. TurnsAreJustified'
  <2> SUFFICES ASSUME NEW x \in Value, kind[x] = "Register", assigned_register[x] = {},
                      TurnIsOver(x)'
               PROVE  IF spill_points[x] = NoPoint THEN PoolWasFull(x)' ELSE LostToStronger(x)'
    BY Zenon, <1>1, <1>2 DEF TurnsAreJustified, NoPoint
  <2>1. crosses_call(x)
    BY <1>1, <1>2 DEF TurnIsOver, OwnScanIsOver
  <2>2. TurnIsOver(x)
    BY <2>1, <1>1 DEF TurnIsOver, OwnScanIsOver
  <2>3. IF spill_points[x] = NoPoint THEN PoolWasFull(x) ELSE LostToStronger(x)
    BY Zenon, <2>2 DEF SpillInv, TurnsAreJustified
  <2> QED BY Zenon, <2>3, <1>3
<1> QED BY Zenon, <1>3, <1>4, <1>5, <1>6, <1>7 DEF SpillInv

\* Initially nothing is held or evicted and no turn is over.
LEMMA InitEstablishesSpillInv == Init => SpillInv
<1> SUFFICES ASSUME Init PROVE SpillInv
  BY Zenon
<1>1. /\ pass = 1 /\ visited = {}
      /\ \A v \in Value : /\ assigned_register[v] = {} /\ spill_register_authority[v] = {}
                          /\ spill_points[v] = NoPoint
      /\ \A v \in Value : start[v] <= end[v]
  BY Zenon DEF Init
<1>2. VisitedAreOfScan /\ EvictedHadItsTurn /\ EvictedFromOwnPool
  BY Zenon, <1>1 DEF VisitedAreOfScan, EvictedHadItsTurn, EvictedFromOwnPool
<1>3. EvictedWasCandidate /\ SpilledBeforePending
  BY Zenon, <1>1 DEF EvictedWasCandidate, SpilledBeforePending, Held
<1>4. LostRegisterIsVacated /\ TurnsAreJustified /\ OpsArePublished
  BY <1>1 DEF LostRegisterIsVacated, TurnsAreJustified, TurnIsOver, OwnScanIsOver,
              OpsArePublished
<1> QED BY Zenon, <1>1, <1>2, <1>3, <1>4 DEF SpillInv

\* Every step of run_regalloc keeps the invariant about evictions.
LEMMA NextKeepsSpillInv == IInv /\ SpillInv /\ [Next]_vars => SpillInv'
<1> SUFFICES ASSUME IInv, SpillInv, [Next]_vars PROVE SpillInv'
  BY Zenon
<1>1. ASSUME NEW v \in Value, AssignFree(v) \/ EvictAndAssign(v) \/ LeaveUnassigned(v)
      PROVE  SpillInv'
  BY Zenon, <1>1, ScanStepKeepsSpillInv
<1>2. CASE EndScan
  BY Zenon, <1>2, EndScanKeepsSpillInv
<1>3. CASE AssignStackSlots
  BY Zenon, <1>3, AssignStackSlotsKeepsSpillInv
<1>4. CASE UNCHANGED vars
  <2>1. /\ UNCHANGED inputs /\ pass' = pass /\ visited' = visited
        /\ UNCHANGED <<assigned_register, spill_register_authority, spill_points,
                       has_stack_slot, spill_reload_ops>>
    BY Zenon, <1>4 DEF vars
  <2>2. /\ \A x \in Value : crosses_call(x)' <=> crosses_call(x)
        /\ \A x, y \in Value : SameSide(x, y)' <=> SameSide(x, y)
        /\ kind' = kind /\ start' = start
    BY Zenon, <2>1, InputsFixTheIntervals
  <2>3. /\ \A x \in Value : start'[x] <= end'[x]
        /\ EvictedWasCandidate' /\ LostRegisterIsVacated'
        /\ \A x \in Value : PoolWasFull(x) => PoolWasFull(x)'
        /\ \A x \in Value : LostToStronger(x) => LostToStronger(x)'
    BY Zenon, <2>1, QuietStepKeepsRecords
  <2>4. VisitedAreOfScan' /\ EvictedHadItsTurn'
    BY Zenon, <2>1, <2>2 DEF IInv, TypeOK, SpillInv, VisitedAreOfScan, EvictedHadItsTurn
  <2>5. EvictedFromOwnPool'
    BY Zenon, <2>1, <2>2 DEF SpillInv, EvictedFromOwnPool, CalleeRegisters, CallerRegisters,
                      PoolRegisters
  <2>6. SpilledBeforePending'
    <3>1. Pending' = Pending /\ Pending \subseteq Value
      BY Zenon, <2>1, <2>2 DEF Pending, should_consider
    <3>2. ScanRegisters' = ScanRegisters
      BY Zenon, <2>1 DEF ScanRegisters, CalleeRegisters, CallerRegisters, PoolRegisters
    <3> QED BY Zenon, <2>1, <2>2, <3>1, <3>2 DEF SpillInv, SpilledBeforePending
  <2>7. TurnsAreJustified'
    <3>1. \A x \in Value : TurnIsOver(x)' <=> TurnIsOver(x)
      BY Zenon, <2>1, <2>2 DEF TurnIsOver, OwnScanIsOver
    <3> QED BY Zenon, <2>1, <2>2, <2>3, <3>1 DEF SpillInv, TurnsAreJustified, NoPoint
  <2>8. OpsArePublished'
    BY <2>1 DEF SpillInv, OpsArePublished, SpillReloadOps, NeedsStackSlot, PublishedSpan,
                inputs, NoPoint
  <2> QED BY Zenon, <2>3, <2>4, <2>5, <2>6, <2>7, <2>8 DEF SpillInv
<1> QED BY Zenon, <1>1, <1>2, <1>3, <1>4 DEF Next

-----------------------------------------------------------------------------
\* The invariant holds of every reachable state of the allocator.
THEOREM IInvHolds == Spec => []IInv
BY InitEstablishesIInv, NextKeepsIInv, PTL DEF Spec

\* The allocator's state always has its type.
THEOREM TypeCorrect == Spec => []TypeOK
<1>1. IInv => TypeOK
  BY Zenon DEF IInv
<1> QED BY <1>1, IInvHolds, PTL

\* Values of the same kind never hold a common register while both are live:
\* the expiry and eviction of assign_from_pool are sound within a kind, for
\* any number of values and any register pools.
THEOREM ScansStayExclusive == Spec => []ScansAreExclusive
<1>1. IInv => ScansAreExclusive
  BY Zenon DEF IInv
<1> QED BY <1>1, IInvHolds, PTL

\* A value that crosses a call is never put in a caller-saved register.
THEOREM CrossingValuesStayCalleeSaved == Spec => []CrossingValuesAreCalleeSaved
<1>1. IInv => CrossingValuesAreCalleeSaved
  BY Zenon, PoolsApart DEF IInv, HeldFromOwnPool, CrossingValuesAreCalleeSaved, CallerRegisters
<1> QED BY <1>1, IInvHolds, PTL

\* Evictions happen strictly after the start of the evicted interval and not
\* after its end, so a published spill point lies where the value is live.
THEOREM EvictionsAreInsideIntervals == Spec => []EvictedInsideInterval
<1>1. IInv => EvictedInsideInterval
  BY Zenon DEF IInv
<1> QED BY <1>1, IInvHolds, PTL

\* The invariant about evictions holds of every reachable state.
THEOREM SpillInvHolds == Spec => []SpillInv
BY InitEstablishesSpillInv, NextKeepsSpillInv, IInvHolds, PTL DEF Spec

\* A register candidate goes without a register of its own pool only where
\* the pool is full of values live at the same time, or where a stronger value
\* has taken its register.
THEOREM SpillsStayJustified == Spec => []SpillsAreJustified
<1>1. SpillInv => SpillsAreJustified
  BY Zenon DEF SpillInv, TurnsAreJustified, TurnIsOver, SpillsAreJustified
<1> QED BY <1>1, SpillInvHolds, PTL

\* The register a published spill reads still belongs to the spilled value:
\* append_spill_reload_ops may publish the register of before or of after the
\* eviction, and neither has a new owner of the same side at the spill point.
THEOREM SpillsReadTheirRegister == Spec => []SpillReadsItsOwnRegister
<1>1. IInv /\ SpillInv => SpillReadsItsOwnRegister
  <2> SUFFICES ASSUME IInv, SpillInv, pass = 5, NEW op \in spill_reload_ops, op.op = "Spill",
                      NEW w \in Value \ {op.value}, SameSide(w, op.value),
                      assigned_register[w] \cap op.span # {}
               PROVE  MayFollow(w, op.value) \/ op.point <= start[w]
    BY Zenon DEF SpillReadsItsOwnRegister, SameSide
  <2>1. PICK v \in Value : /\ spill_points[v] # NoPoint
                           /\ op.value = v /\ op.point = spill_points[v]
                           /\ op.span = PublishedSpan(v)
    <3>1. op \in SpillReloadOps
      BY Zenon DEF SpillInv, OpsArePublished
    <3>2. CASE \E v \in Value : /\ spill_points[v] # NoPoint
                                /\ op = [op |-> "Spill", value |-> v,
                                         point |-> spill_points[v], span |-> PublishedSpan(v)]
      BY <3>2
    <3>3. CASE \E v \in Value : \E p \in use_points[v] :
                 op = [op |-> "Reload", value |-> v, point |-> p, span |-> PublishedSpan(v)]
      BY <3>3
    <3> QED BY <3>1, <3>2, <3>3 DEF SpillReloadOps
  <2>2. SameSide(v, w) /\ v # w
    BY Zenon, <2>1 DEF SameSide
  <2>3. CASE assigned_register[v] # {}
    <3>1. assigned_register[w] \cap assigned_register[v] # {}
      BY Zenon, <2>1, <2>3 DEF PublishedSpan
    <3>2. MayFollow(v, w) \/ MayFollow(w, v)
      BY Zenon, <2>2, <3>1 DEF IInv, ScansAreExclusive, ShareRegister, SameSide
    <3>3. /\ spill_points[v] <= end[v] /\ spill_points[v] \in Int
          /\ end[v] \in Int /\ start[w] \in Int
      BY <2>1, SizesAssumption DEF IInv, EvictedInsideInterval, TypeOK, Point, NoPoint
    <3>4. MayFollow(v, w) => spill_points[v] <= start[w]
      BY <3>3 DEF MayFollow
    <3> QED BY Zenon, <2>1, <3>2, <3>4
  <2>4. CASE assigned_register[v] = {}
    <3>1. assigned_register[w] \cap spill_register_authority[v] # {}
      BY Zenon, <2>1, <2>4 DEF PublishedSpan
    <3> QED BY Zenon, <2>1, <2>2, <3>1 DEF SpillInv, LostRegisterIsVacated
  <2> QED BY Zenon, <2>3, <2>4
<1> QED BY <1>1, IInvHolds, SpillInvHolds, PTL

\* An evicted value that stays without a register has a slot, a spill and a
\* reload of the register it lost before every later use.
THEOREM EvictedUsesStayServed == Spec => []EvictedUsesAreServed
<1>1. IInv /\ SpillInv => EvictedUsesAreServed
  <2> SUFFICES ASSUME IInv, SpillInv, pass = 5, NEW v \in Value,
                      spill_register_authority[v] # {}, assigned_register[v] = {}
               PROVE  /\ has_stack_slot[v]
                      /\ \E s \in spill_reload_ops : s.op = "Spill" /\ s.value = v
                      /\ \A p \in use_points[v] :
                           \/ p <= spill_points[v]
                           \/ \E r \in spill_reload_ops :
                                /\ r.op = "Reload" /\ r.value = v /\ r.point = p
                                /\ r.span = spill_register_authority[v]
    BY Zenon DEF EvictedUsesAreServed
  <2>1. spill_points[v] # NoPoint /\ kind[v] = "Register"
    BY Zenon DEF SpillInv, EvictedWasCandidate, Held
  <2>2. NeedsStackSlot(v) /\ PublishedSpan(v) = spill_register_authority[v]
    BY Zenon, <2>1 DEF NeedsStackSlot, PublishedSpan
  <2>3. has_stack_slot[v]
    BY Zenon, <2>2 DEF SpillInv, OpsArePublished
  <2>4. spill_reload_ops = SpillReloadOps
    BY Zenon DEF SpillInv, OpsArePublished
  <2>5. [op |-> "Spill", value |-> v, point |-> spill_points[v],
         span |-> PublishedSpan(v)] \in spill_reload_ops
    BY Zenon, <2>1, <2>2, <2>4 DEF SpillReloadOps
  <2>6. ASSUME NEW p \in use_points[v], ~(p <= spill_points[v])
        PROVE  [op |-> "Reload", value |-> v, point |-> p, span |-> PublishedSpan(v)]
                 \in spill_reload_ops
    <3>1. p > spill_points[v]
      BY <2>6, SizesAssumption DEF IInv, TypeOK, Point, NoPoint
    <3> QED BY <2>1, <2>2, <2>4, <3>1 DEF SpillReloadOps
  <2>7. \E s \in spill_reload_ops : s.op = "Spill" /\ s.value = v
    BY Zenon, <2>5
  <2>8. ASSUME NEW p \in use_points[v], ~(p <= spill_points[v])
        PROVE  \E r \in spill_reload_ops : /\ r.op = "Reload" /\ r.value = v /\ r.point = p
                                           /\ r.span = spill_register_authority[v]
    <3>1. [op |-> "Reload", value |-> v, point |-> p, span |-> PublishedSpan(v)]
            \in spill_reload_ops
      BY Zenon, <2>6, <2>8
    <3> QED BY Zenon, <2>2, <3>1
  <2> QED BY Zenon, <2>3, <2>7, <2>8
<1> QED BY <1>1, IInvHolds, SpillInvHolds, PTL
=============================================================================
