----------------------- MODULE CompileTimeEngineProofs ------------------------
(***************************************************************************)
(* What run_compile_time_engine guarantees when it stops, for every set of *)
(* work items, every order of the lists and every iteration limit.         *)
(***************************************************************************)
EXTENDS CompileTimeEngine, FiniteSetTheorems, TLAPS

-----------------------------------------------------------------------------
\* The inductive invariant

AllSteps == {"types", "calls", "consteval", "asserts", "decide"} \cup Ends

TypeInv ==
  /\ WellFormed
  /\ done \in SUBSET Item /\ \A i \in done : ~Is(i, "assert")
  /\ bindings \subseteq {i \in done : Is(i, "consteval")}
  /\ step \in AllSteps
  /\ n \in 0 .. Len(known)
  /\ stale \in BOOLEAN
  /\ count \in [Counters -> Nat]
  /\ pending_diags \in SUBSET Range(known)
  /\ iterations \in 1 .. kMaxIterations

\* A step has only items of its own kind before it.
TodoInv ==
  /\ step = "types" => todo \subseteq OfKind("type")
  /\ step = "calls" => todo \subseteq OfKind("call")
  /\ step = "consteval" => todo \subseteq OfKind("consteval")
  /\ step = "asserts" => todo \subseteq OfKind("assert")
  /\ step \in {"decide"} \cup Ends => todo = {}

\* The item at place k has had its turn in this iteration.
Reached(kind) ==
  /\ step = "types" => kind = "type"
  /\ step = "calls" => kind \in {"type", "call"}
  /\ step = "consteval" => kind # "assert"
Visited(k) == k \notin todo /\ Reached(work[known[k]].kind)

\* Constants are bound, except those the running step has just evaluated.
BoundInv ==
  step # "consteval" \/ count.evaluated = 0 => bindings = {i \in done : Is(i, "consteval")}

Moves == {"types_completed", "types_spawned", "instantiated", "evaluated",
          "asserts_resolved"}
Quiet == \A c \in Moves : count[c] = 0

\* What a visit leaves behind when the iteration has counted no progress ...
Stuck(i) ==
  IF Is(i, "assert")
  THEN (work[i].outcome = "fails" \/ ~Ready(i)) /\ i \in pending_diags
  ELSE i \in done \/
       (/\ ~Resolvable(i)
        /\ Is(i, "type") => work[i].spawns \subseteq Range(known)
        /\ work[i].outcome = "silent" \/ i \in pending_diags)

\* ... and when it has counted nothing pending.
Finished(i) ==
  IF Is(i, "assert") THEN Ready(i) /\ (work[i].outcome = "ok" \/ i \in pending_diags)
  ELSE i \in done \/ (Is(i, "call") /\ stale)

QuietInv ==
  Quiet =>
    /\ n = Len(known) /\ stale = FALSE
    /\ \A k \in 1 .. n : Visited(k) => Stuck(known[k])
    /\ \A i \in pending_diags : i \notin done /\ work[i].outcome # "silent"
    /\ total_pending > 0 => \E k \in 1 .. n : known[k] \notin done

FinishedInv ==
  total_pending = 0 => \A k \in 1 .. n : Visited(k) => Finished(known[k])

-----------------------------------------------------------------------------
\* Programs that can be finished

Plain == \A i \in Range(known) : work[i].outcome = "ok" /\ work[i].spawns = {}
Rankings ==
  {rank \in [Range(known) -> 1 .. Len(known)] :
     \A i \in Range(known) : \A j \in work[i].needs :
       j \in Range(known) /\ rank[j] < rank[i]}

\* An iteration finishes the items whose rank is its number.
RankInv(rank) ==
  \A k \in 1 .. Len(known) :
    Is(known[k], "type") \/ Is(known[k], "consteval") =>
      /\ rank[known[k]] < iterations => known[k] \in Usable
      /\ rank[known[k]] = iterations /\ Visited(k) => known[k] \in done

\* An iteration lowers the first call that is open, before expr_pool is stale.
CallInv ==
  /\ \A k \in 1 .. Len(known) :
       Is(known[k], "call") =>
         /\ k < iterations \/ (k = iterations /\ stale) => known[k] \in done
         /\ step # "types" /\ ~stale /\ k \notin todo => known[k] \in done
  /\ step = "types" => ~stale
  /\ step = "calls" /\ stale => \A k \in todo : iterations < k

SolvableInv ==
  Plain =>
    /\ n = Len(known)
    /\ CallInv
    /\ AssertDiags # {} => count.asserts_pending > 0
    /\ \A rank \in Rankings :
         RankInv(rank) /\ (total_pending > 0 => iterations < Len(known))

\* What is known when the engine stops.
StopInv ==
  /\ ~Stopped => diagnostics = {}
  /\ step = "converged" => total_pending = 0 /\ AssertDiags = {}
  /\ step = "asserts failed" => AssertDiags # {} /\ total_pending = 0
  /\ step = "irreducible" => Quiet /\ total_pending > 0 /\ diagnostics = pending_diags
  /\ step = "gave up" => total_pending > 0 /\ iterations = kMaxIterations

IInv == TypeInv /\ TodoInv /\ BoundInv /\ QuietInv /\ FinishedInv /\ SolvableInv /\ StopInv

-----------------------------------------------------------------------------
\* The operators the steps are built from

\* A function on 1 .. c is a list of length c.
LEMMA ListsOf ==
  ASSUME NEW S, NEW c \in Nat, NEW s \in [1 .. c -> S]
  PROVE  s \in Seq(S) /\ Len(s) = c /\ DOMAIN s = 1 .. Len(s)
OBVIOUS

\* Appending keeps what a list holds in its place, and adds what is appended.
LEMMA ConcatExtends ==
  ASSUME NEW S, NEW s \in Seq(S), NEW t \in Seq(S)
  PROVE  /\ s \o t \in Seq(S) /\ Len(s) <= Len(s \o t)
         /\ \A k \in 1 .. Len(s) : (s \o t)[k] = s[k]
         /\ Range(s \o t) = Range(s) \cup Range(t)
<1>1. /\ s \o t \in Seq(S) /\ Len(s \o t) = Len(s) + Len(t)
      /\ DOMAIN (s \o t) = 1 .. Len(s) + Len(t)
      /\ DOMAIN s = 1 .. Len(s) /\ DOMAIN t = 1 .. Len(t)
      /\ Len(s) \in Nat /\ Len(t) \in Nat
  OBVIOUS
<1>2. \A k \in 1 .. Len(s) : k \in 1 .. Len(s) + Len(t) /\ (s \o t)[k] = s[k]
  OBVIOUS
<1>3. \A k \in 1 .. Len(t) :
        k + Len(s) \in 1 .. Len(s) + Len(t) /\ (s \o t)[k + Len(s)] = t[k]
  OBVIOUS
<1>4. \A k \in 1 .. Len(s) + Len(t) :
        \/ k \in 1 .. Len(s)
        \/ \E j \in 1 .. Len(t) : k = j + Len(s)
  <2> TAKE k \in 1 .. Len(s) + Len(t)
  <2>1. CASE k <= Len(s)
    BY <2>1, <1>1
  <2>2. CASE ~ (k <= Len(s))
    <3>1. k - Len(s) \in 1 .. Len(t) /\ k = (k - Len(s)) + Len(s)
      BY <2>2, <1>1
    <3> QED BY Zenon, <3>1
  <2> QED BY Zenon, <2>1, <2>2
<1>5. \A x : x \in Range(s \o t) => x \in Range(s) \/ x \in Range(t)
  <2> SUFFICES ASSUME NEW k \in 1 .. Len(s) + Len(t)
               PROVE  (s \o t)[k] \in Range(s) \/ (s \o t)[k] \in Range(t)
    BY <1>1, Zenon DEF Range
  <2>1. CASE k \in 1 .. Len(s)
    BY <2>1, <1>1, <1>2, Zenon DEF Range
  <2>2. CASE \E j \in 1 .. Len(t) : k = j + Len(s)
    BY <2>2, <1>1, <1>3, Zenon DEF Range
  <2> QED BY <1>4, <2>1, <2>2, Zenon
<1>6. \A x : x \in Range(s) => x \in Range(s \o t)
  BY <1>1, <1>2, Zenon DEF Range
<1>7. \A x : x \in Range(t) => x \in Range(s \o t)
  BY <1>1, <1>3, Zenon DEF Range
<1>8. Range(s \o t) = Range(s) \cup Range(t)
  BY <1>5, <1>6, <1>7, Zenon
<1>9. Len(s) <= Len(s \o t)
  BY <1>1
<1> QED BY <1>1, <1>2, <1>8, <1>9, Zenon

\* record_pending_template_type and its like: a list only grows at its end, by
\* what it does not hold yet.
LEMMA RecordExtends ==
  ASSUME known \in Seq(Item), NEW items \in SUBSET Item, Record(items)
  PROVE  /\ known' \in Seq(Item)
         /\ Len(known) <= Len(known')
         /\ \A k \in 1 .. Len(known) : known'[k] = known[k]
         /\ Range(known') = Range(known) \cup items
         /\ items \subseteq Range(known) => known' = known
<1>1. IsFiniteSet(New(items)) /\ Cardinality(New(items)) \in Nat
  BY Zenon, EngineAssumption, FS_Subset, FS_CardinalityType DEF New
<1>2. PICK s \in [1 .. Cardinality(New(items)) -> New(items)] :
        Range(s) = New(items) /\ known' = known \o s
  BY Zenon DEF Record
<1>3. s \in Seq(Item) /\ Len(s) = Cardinality(New(items)) /\ DOMAIN s = 1 .. Len(s)
  <2>1. s \in [1 .. Cardinality(New(items)) -> Item]
    BY Zenon, <1>2 DEF New
  <2> QED BY <1>1, <2>1, ListsOf, Zenon
<1>4. /\ known' \in Seq(Item) /\ Len(known) <= Len(known')
      /\ \A k \in 1 .. Len(known) : known'[k] = known[k]
      /\ Range(known') = Range(known) \cup New(items)
  <2>1. /\ known \o s \in Seq(Item) /\ Len(known) <= Len(known \o s)
        /\ \A k \in 1 .. Len(known) : (known \o s)[k] = known[k]
        /\ Range(known \o s) = Range(known) \cup Range(s)
    BY <1>3, ConcatExtends
  <2> QED BY Zenon, <1>2, <2>1
<1>5. Range(known) \cup New(items) = Range(known) \cup items
  BY Zenon DEF New
<1>6. ASSUME items \subseteq Range(known) PROVE known' = known
  <2>1. New(items) = {} /\ Cardinality(New(items)) = 0
    BY Zenon, <1>6, FS_EmptySet DEF New
  <2>2. s = << >>
    BY <2>1, <1>2, <1>3
  <2> QED BY <1>2, <2>2
<1> QED BY Zenon, <1>4, <1>5, <1>6

Pendings == {"types_pending", "calls_pending", "consteval_pending", "asserts_pending"}

\* What a visit counts is seen by the two tests of the loop.
LEMMA CountingFacts ==
  ASSUME count \in [Counters -> Nat], NEW cs \in SUBSET Counters, Counting(cs)
  PROVE  /\ count' \in [Counters -> Nat]
         /\ cs \cap Moves # {} => ~Quiet'
         /\ cs \cap Moves = {} => Quiet' = Quiet
         /\ cs \cap Pendings # {} => total_pending' > 0
         /\ cs \cap Pendings = {} => total_pending' = total_pending
         /\ \A c \in Counters : count'[c] = count[c] + (IF c \in cs THEN 1 ELSE 0)
<1>1. \A c \in Counters : count'[c] = count[c] + (IF c \in cs THEN 1 ELSE 0)
  BY Zenon DEF Counting
<1>2. count' \in [Counters -> Nat]
  BY DEF Counting
<1>3. Moves \subseteq Counters /\ Pendings \subseteq Counters
  BY Zenon DEF Moves, Pendings, Counters
<1>4. cs \cap Moves # {} => ~Quiet'
  BY <1>1, <1>3 DEF Quiet
<1>5. cs \cap Moves = {} => Quiet' = Quiet
  <2>1. SUFFICES ASSUME cs \cap Moves = {} PROVE \A c \in Moves : count'[c] = count[c]
    BY Zenon DEF Quiet
  <2> QED BY <2>1, <1>1, <1>3
<1>6. /\ count.types_pending' = count["types_pending"] + (IF "types_pending" \in cs THEN 1 ELSE 0)
      /\ count.calls_pending' = count["calls_pending"] + (IF "calls_pending" \in cs THEN 1 ELSE 0)
      /\ count.consteval_pending' =
           count["consteval_pending"] + (IF "consteval_pending" \in cs THEN 1 ELSE 0)
      /\ count.asserts_pending' =
           count["asserts_pending"] + (IF "asserts_pending" \in cs THEN 1 ELSE 0)
      /\ \A c \in Pendings : count[c] \in Nat
  BY Zenon, <1>1, <1>3 DEF Pendings
<1>7. cs \cap Pendings # {} => total_pending' > 0
  BY <1>6 DEF Pendings, total_pending
<1>8. cs \cap Pendings = {} => total_pending' = total_pending
  BY <1>6 DEF Pendings, total_pending
<1> QED BY Zenon, <1>1, <1>2, <1>4, <1>5, <1>7, <1>8

-----------------------------------------------------------------------------
\* A visit, and the five ways it can end

Framed ==
  /\ UNCHANGED <<work, step, n, iterations, diagnostics, bindings>>
  /\ known' \in Seq(Item) /\ Len(known) <= Len(known')
  /\ \A m \in 1 .. Len(known) : known'[m] = known[m]
  /\ Range(known) \subseteq Range(known')
  /\ count' \in [Counters -> Nat]

Visiting(k) == (\A m \in todo : k <= m) /\ todo' = todo \ {k} /\ Framed

SameCount(c) == count'[c] = count[c]

Resolved(i) == i \in done /\ UNCHANGED <<known, done, stale, count, pending_diags>>

Completed(i) ==
  /\ i \notin done /\ ~Is(i, "assert")
  /\ done' = done \cup {i}
  /\ stale' = IF Is(i, "call") THEN TRUE ELSE stale
  /\ ~Quiet' /\ total_pending' = total_pending
  /\ pending_diags \subseteq pending_diags' /\ pending_diags' \subseteq pending_diags \cup {i}
  /\ IF Is(i, "consteval") THEN count'["evaluated"] > 0 ELSE SameCount("evaluated")
  /\ SameCount("asserts_pending")
  /\ work[i].spawns = {} => known' = known

Deferred(i) ==
  /\ IF Is(i, "assert") THEN work[i].outcome = "fails" \/ ~Ready(i)
                        ELSE i \notin done /\ ~Resolvable(i)
  /\ UNCHANGED <<done, stale>>
  /\ total_pending' > 0
  /\ pending_diags' = pending_diags \cup (IF work[i].outcome = "silent" THEN {} ELSE {i})
  /\ Quiet' => Quiet /\ known' = known /\ (Is(i, "type") => work[i].spawns \subseteq Range(known))
  /\ SameCount("evaluated")
  /\ IF Is(i, "assert") THEN count'["asserts_pending"] > 0 ELSE SameCount("asserts_pending")
  /\ work[i].spawns = {} => known' = known

Held(i) ==
  /\ Is(i, "assert") /\ Ready(i)
  /\ UNCHANGED <<known, done, stale>>
  /\ ~Quiet' /\ total_pending' = total_pending
  /\ pending_diags' = pending_diags \cup (IF work[i].outcome = "ok" THEN {} ELSE {i})
  /\ SameCount("evaluated") /\ SameCount("asserts_pending")

Misread(i) ==
  /\ Is(i, "call") /\ stale
  /\ UNCHANGED <<known, done, stale>>
  /\ Quiet' = Quiet
  /\ \/ total_pending' = total_pending /\ pending_diags' = pending_diags
     \/ total_pending' > 0 /\ pending_diags' = pending_diags \cup {i}
  /\ SameCount("evaluated") /\ SameCount("asserts_pending")

Ending(i) == Resolved(i) \/ Completed(i) \/ Deferred(i) \/ Held(i) \/ Misread(i)

\* A step visits the first place it has left, whose item is of its own kind.
LEMMA VisitedItem ==
  ASSUME TypeInv, TodoInv, NEW s, NEW i, Visit(s, i)
  PROVE  \E k \in todo :
           /\ \A m \in todo : k <= m
           /\ todo' = todo \ {k}
           /\ i = known[k] /\ k \in 1 .. Len(known) /\ i \in Item
           /\ s = "types" => Is(i, "type")
           /\ s = "calls" => Is(i, "call")
           /\ s = "consteval" => Is(i, "consteval")
           /\ s = "asserts" => Is(i, "assert")
<1>1. PICK k \in todo : (\A m \in todo : k <= m) /\ i = known[k] /\ todo' = todo \ {k}
  BY Zenon DEF Visit
<1>2. step = s
  BY Zenon DEF Visit
<1>3. step \notin {"decide"} \cup Ends
  BY Zenon, <1>1 DEF TodoInv
<1>4. k \in 1 .. Len(known)
  BY Zenon, <1>3 DEF TypeInv, TodoInv, OfKind, AllSteps
<1>5. known[k] \in Item
  BY <1>4 DEF TypeInv, WellFormed
<1>6. /\ s = "types" => Is(i, "type")
      /\ s = "calls" => Is(i, "call")
      /\ s = "consteval" => Is(i, "consteval")
      /\ s = "asserts" => Is(i, "assert")
  BY Zenon, <1>1, <1>2 DEF TodoInv, OfKind
<1> QED BY <1>1, <1>4, <1>5, <1>6, Zenon

VisitAction(i) ==
  \/ TypeIsResolved(i) \/ TypeHasNoPrimary(i) \/ TypeIsBlocked(i) \/ TypeIsRealized(i)
  \/ CallIsResolved(i) \/ Instantiate(i) \/ CallIsPending(i) \/ CallIsMisread(i)
  \/ ConstevalIsReduced(i) \/ Evaluate(i) \/ ConstevalIsPending(i)
  \/ AssertIsEvaluated(i) \/ AssertIsPending(i)

\* A visit that records nothing keeps the lists.
LEMMA KeptList ==
  ASSUME TypeInv, known' = known
  PROVE  /\ known' \in Seq(Item) /\ Len(known) <= Len(known')
         /\ \A m \in 1 .. Len(known) : known'[m] = known[m]
         /\ Range(known) \subseteq Range(known')
<1>1. known \in Seq(Item) /\ Len(known) \in Nat
  BY DEF TypeInv, WellFormed
<1> QED BY <1>1

\* PendingTemplateTypeStep: a type is resolved, completed or deferred.
LEMMA TypeVisits ==
  ASSUME TypeInv, TodoInv, NEW i \in Item,
         TypeIsResolved(i) \/ TypeHasNoPrimary(i) \/ TypeIsBlocked(i) \/ TypeIsRealized(i)
  PROVE  Framed /\ Ending(i)
<1>1. Visit("types", i)
  BY Zenon DEF TypeIsResolved, TypeHasNoPrimary, TypeIsBlocked, TypeIsRealized
<1>2. Is(i, "type") /\ ~Is(i, "assert") /\ ~Is(i, "call") /\ ~Is(i, "consteval")
  BY Zenon, <1>1, VisitedItem DEF Is
<1>3. known \in Seq(Item) /\ work[i].spawns \in SUBSET Item /\ work[i].outcome # "silent"
  BY Zenon, <1>2 DEF TypeInv, WellFormed
<1>4. count \in [Counters -> Nat]
  BY Zenon DEF TypeInv
<1>5. ASSUME NEW c \in {"types_pending", "types_completed", "types_spawned"} PROVE c \in Counters
  BY Zenon DEF Counters
<1>6. CASE TypeIsResolved(i)
  <2>1. Resolved(i)
    BY Zenon, <1>6 DEF TypeIsResolved, Resolved, lists
  <2>2. Framed
    BY Zenon, <1>6, <1>4, KeptList DEF TypeIsResolved, Framed, lists, Iteration
  <2> QED BY Zenon, <2>1, <2>2 DEF Ending
<1>7. CASE TypeHasNoPrimary(i)
  <2>1. /\ count' \in [Counters -> Nat] /\ ~Quiet' /\ total_pending' = total_pending
        /\ SameCount("evaluated") /\ SameCount("asserts_pending")
    BY <1>7, <1>4, CountingFacts DEF TypeHasNoPrimary, Moves, Pendings, Counters, SameCount
  <2>2. Completed(i)
    BY Zenon, <1>7, <1>2, <2>1 DEF TypeHasNoPrimary, Completed, Iteration
  <2>3. Framed
    BY Zenon, <1>7, <2>1, KeptList DEF TypeHasNoPrimary, Framed, Iteration
  <2> QED BY Zenon, <2>2, <2>3 DEF Ending
<1>8. CASE TypeIsBlocked(i)
  <2>1. /\ known' \in Seq(Item) /\ Len(known) <= Len(known')
        /\ \A m \in 1 .. Len(known) : known'[m] = known[m]
        /\ Range(known) \subseteq Range(known')
        /\ work[i].spawns \subseteq Range(known) => known' = known
    BY Zenon, <1>8, <1>3, RecordExtends DEF TypeIsBlocked, SpawnOwner
  <2>2. PICK cs \in SUBSET Counters :
          /\ cs = {"types_pending"} \cup
                  (IF New(work[i].spawns) # {} THEN {"types_spawned"} ELSE {})
          /\ Counting(cs)
    BY Zenon, <1>8 DEF TypeIsBlocked, Counters
  <2>3. /\ count' \in [Counters -> Nat] /\ total_pending' > 0
        /\ SameCount("evaluated") /\ SameCount("asserts_pending")
    BY <2>2, <1>4, CountingFacts DEF Pendings, Counters, SameCount
  <2>4. Quiet' => Quiet /\ work[i].spawns \subseteq Range(known)
    <3>1. CASE New(work[i].spawns) # {}
      BY Zenon, <3>1, <2>2, <1>4, CountingFacts DEF Moves
    <3>2. CASE New(work[i].spawns) = {}
      <4>1. cs \cap Moves = {}
        BY Zenon, <3>2, <2>2 DEF Moves
      <4>2. work[i].spawns \subseteq Range(known)
        BY Zenon, <3>2 DEF New
      <4> QED BY Zenon, <4>1, <4>2, <2>2, <1>4, CountingFacts
    <3> QED BY Zenon, <3>1, <3>2
  <2>5. i \notin done /\ ~Resolvable(i) /\ UNCHANGED <<done, stale>>
    BY Zenon, <1>8, <1>2 DEF TypeIsBlocked, Resolvable, Is
  <2>6. pending_diags' = pending_diags \cup (IF work[i].outcome = "silent" THEN {} ELSE {i})
    BY Zenon, <1>8, <1>3 DEF TypeIsBlocked
  <2>7. Deferred(i)
    BY Zenon, <1>2, <2>1, <2>3, <2>4, <2>5, <2>6 DEF Deferred
  <2>8. Framed
    BY Zenon, <1>8, <2>1, <2>3 DEF TypeIsBlocked, Framed, Iteration
  <2> QED BY Zenon, <2>7, <2>8 DEF Ending
<1>9. CASE TypeIsRealized(i)
  <2>1. /\ known' \in Seq(Item) /\ Len(known) <= Len(known')
        /\ \A m \in 1 .. Len(known) : known'[m] = known[m]
        /\ Range(known) \subseteq Range(known')
        /\ work[i].spawns = {} => known' = known
    BY Zenon, <1>9, <1>3, RecordExtends DEF TypeIsRealized, SpawnOwner
  <2>2. /\ count' \in [Counters -> Nat] /\ ~Quiet' /\ total_pending' = total_pending
        /\ SameCount("evaluated") /\ SameCount("asserts_pending")
    BY <1>9, <1>4, CountingFacts DEF TypeIsRealized, Moves, Pendings, Counters, SameCount
  <2>3. Completed(i)
    BY Zenon, <1>9, <1>2, <2>1, <2>2 DEF TypeIsRealized, Completed
  <2>4. Framed
    BY Zenon, <1>9, <2>1, <2>2 DEF TypeIsRealized, Framed, Iteration
  <2> QED BY Zenon, <2>3, <2>4 DEF Ending
<1> QED BY Zenon, <1>6, <1>7, <1>8, <1>9

\* TemplateInstantiationStep: a call is resolved, lowered, deferred or misread.
LEMMA CallVisits ==
  ASSUME TypeInv, TodoInv, NEW i \in Item,
         CallIsResolved(i) \/ Instantiate(i) \/ CallIsPending(i) \/ CallIsMisread(i)
  PROVE  Framed /\ Ending(i)
<1>1. Visit("calls", i)
  BY Zenon DEF CallIsResolved, Instantiate, CallIsPending, CallIsMisread
<1>2. Is(i, "call") /\ ~Is(i, "assert") /\ ~Is(i, "type") /\ ~Is(i, "consteval")
  BY <1>1, VisitedItem DEF Is
<1>3. known \in Seq(Item) /\ work[i].spawns \in SUBSET Item
  BY Zenon DEF TypeInv, WellFormed
<1>4. count \in [Counters -> Nat]
  BY Zenon DEF TypeInv
<1>6. CASE CallIsResolved(i)
  <2>1. Resolved(i)
    BY Zenon, <1>6 DEF CallIsResolved, Resolved, lists
  <2>2. Framed
    BY Zenon, <1>6, <1>4, KeptList DEF CallIsResolved, Framed, lists, Iteration
  <2> QED BY Zenon, <2>1, <2>2 DEF Ending
<1>7. CASE Instantiate(i)
  <2>1. /\ known' \in Seq(Item) /\ Len(known) <= Len(known')
        /\ \A m \in 1 .. Len(known) : known'[m] = known[m]
        /\ Range(known) \subseteq Range(known')
        /\ work[i].spawns = {} => known' = known
    BY Zenon, <1>7, <1>3, RecordExtends DEF Instantiate
  <2>2. /\ count' \in [Counters -> Nat] /\ ~Quiet' /\ total_pending' = total_pending
        /\ SameCount("evaluated") /\ SameCount("asserts_pending")
    BY <1>7, <1>4, CountingFacts DEF Instantiate, Moves, Pendings, Counters, SameCount
  <2>3. Completed(i)
    BY Zenon, <1>7, <1>2, <2>1, <2>2 DEF Instantiate, Completed
  <2>4. Framed
    BY Zenon, <1>7, <2>1, <2>2 DEF Instantiate, Framed, Iteration
  <2> QED BY Zenon, <2>3, <2>4 DEF Ending
<1>8. CASE CallIsPending(i)
  <2>1. /\ count' \in [Counters -> Nat] /\ Quiet' = Quiet /\ total_pending' > 0
        /\ SameCount("evaluated") /\ SameCount("asserts_pending")
    BY <1>8, <1>4, CountingFacts DEF CallIsPending, Moves, Pendings, Counters, SameCount
  <2>2. i \notin done /\ ~Resolvable(i) /\ UNCHANGED <<known, done, stale>>
    BY Zenon, <1>8, <1>2 DEF CallIsPending, Resolvable, Is, lists
  <2>3. pending_diags' = pending_diags \cup (IF work[i].outcome = "silent" THEN {} ELSE {i})
    BY Zenon, <1>8 DEF CallIsPending
  <2>4. Deferred(i)
    BY Zenon, <1>2, <2>1, <2>2, <2>3 DEF Deferred
  <2>5. Framed
    BY Zenon, <1>8, <2>1, KeptList DEF CallIsPending, Framed, Iteration, lists
  <2> QED BY Zenon, <2>4, <2>5 DEF Ending
<1>9. CASE CallIsMisread(i)
  <2>1. UNCHANGED <<known, done, stale>> /\ stale
    BY Zenon, <1>9 DEF CallIsMisread, lists
  <2>2. CASE UNCHANGED <<count, pending_diags>>
    <3>1. Misread(i)
      BY Zenon, <1>2, <2>1, <2>2 DEF Misread, Quiet, total_pending, SameCount
    <3>2. Framed
      BY Zenon, <1>9, <1>4, <2>2, KeptList DEF CallIsMisread, Framed, Iteration, lists
    <3> QED BY Zenon, <3>1, <3>2 DEF Ending
  <2>3. CASE Counting({"calls_pending"}) /\ pending_diags' = pending_diags \cup {i}
    <3>1. /\ count' \in [Counters -> Nat] /\ Quiet' = Quiet /\ total_pending' > 0
          /\ SameCount("evaluated") /\ SameCount("asserts_pending")
      BY <2>3, <1>4, CountingFacts DEF Moves, Pendings, Counters, SameCount
    <3>2. Misread(i)
      BY Zenon, <1>2, <2>1, <2>3, <3>1 DEF Misread
    <3>3. Framed
      BY Zenon, <1>9, <3>1, KeptList DEF CallIsMisread, Framed, Iteration, lists
    <3> QED BY Zenon, <3>2, <3>3 DEF Ending
  <2> QED BY Zenon, <1>9, <2>2, <2>3 DEF CallIsMisread
<1> QED BY Zenon, <1>6, <1>7, <1>8, <1>9

\* PendingConstevalEvalStep: a constant is resolved, evaluated or deferred.
LEMMA ConstevalVisits ==
  ASSUME TypeInv, TodoInv, NEW i \in Item,
         ConstevalIsReduced(i) \/ Evaluate(i) \/ ConstevalIsPending(i)
  PROVE  Framed /\ Ending(i)
<1>1. Visit("consteval", i)
  BY Zenon DEF ConstevalIsReduced, Evaluate, ConstevalIsPending
<1>2. Is(i, "consteval") /\ ~Is(i, "assert") /\ ~Is(i, "type") /\ ~Is(i, "call")
  BY <1>1, VisitedItem DEF Is
<1>3. work[i].outcome # "silent"
  BY Zenon, <1>2 DEF TypeInv, WellFormed
<1>4. count \in [Counters -> Nat]
  BY Zenon DEF TypeInv
<1>5. CASE ConstevalIsReduced(i)
  <2>1. Resolved(i)
    BY Zenon, <1>5 DEF ConstevalIsReduced, Resolved, lists
  <2>2. Framed
    BY Zenon, <1>5, <1>4, KeptList DEF ConstevalIsReduced, Framed, lists, Iteration
  <2> QED BY Zenon, <2>1, <2>2 DEF Ending
<1>6. CASE Evaluate(i)
  <2>1. /\ count' \in [Counters -> Nat] /\ ~Quiet' /\ total_pending' = total_pending
        /\ count'["evaluated"] = count["evaluated"] + 1 /\ SameCount("asserts_pending")
    BY <1>6, <1>4, CountingFacts DEF Evaluate, Moves, Pendings, Counters, SameCount
  <2>2. count'["evaluated"] > 0
    BY <1>4, <2>1 DEF Counters
  <2>3. Completed(i)
    BY Zenon, <1>6, <1>2, <2>1, <2>2 DEF Evaluate, Completed
  <2>4. Framed
    BY Zenon, <1>6, <2>1, KeptList DEF Evaluate, Framed, Iteration
  <2> QED BY Zenon, <2>3, <2>4 DEF Ending
<1>7. CASE ConstevalIsPending(i)
  <2>1. /\ count' \in [Counters -> Nat] /\ Quiet' = Quiet /\ total_pending' > 0
        /\ SameCount("evaluated") /\ SameCount("asserts_pending")
    BY <1>7, <1>4, CountingFacts DEF ConstevalIsPending, Moves, Pendings, Counters, SameCount
  <2>2. i \notin done /\ ~Resolvable(i) /\ UNCHANGED <<known, done, stale>>
    BY Zenon, <1>7, <1>2 DEF ConstevalIsPending, Resolvable, Is, lists
  <2>3. Deferred(i)
    BY Zenon, <1>7, <1>2, <1>3, <2>1, <2>2 DEF Deferred, ConstevalIsPending
  <2>4. Framed
    BY Zenon, <1>7, <2>1, KeptList DEF ConstevalIsPending, Framed, Iteration, lists
  <2> QED BY Zenon, <2>3, <2>4 DEF Ending
<1> QED BY Zenon, <1>5, <1>6, <1>7

\* StaticAssertStep: an assertion is evaluated or deferred.
LEMMA AssertVisits ==
  ASSUME TypeInv, TodoInv, NEW i \in Item, AssertIsEvaluated(i) \/ AssertIsPending(i)
  PROVE  Framed /\ Ending(i)
<1>1. Visit("asserts", i)
  BY Zenon DEF AssertIsEvaluated, AssertIsPending
<1>2. Is(i, "assert") /\ ~Is(i, "call") /\ ~Is(i, "type")
  BY Zenon, <1>1, VisitedItem DEF Is
<1>3. work[i].outcome # "silent"
  BY Zenon, <1>2 DEF TypeInv, WellFormed
<1>4. count \in [Counters -> Nat]
  BY Zenon DEF TypeInv
<1>5. CASE AssertIsEvaluated(i)
  <2>1. /\ count' \in [Counters -> Nat] /\ ~Quiet' /\ total_pending' = total_pending
        /\ SameCount("evaluated") /\ SameCount("asserts_pending")
    BY <1>5, <1>4, CountingFacts DEF AssertIsEvaluated, Moves, Pendings, Counters, SameCount
  <2>2. Held(i)
    BY Zenon, <1>5, <1>2, <2>1 DEF AssertIsEvaluated, Held, lists
  <2>3. Framed
    BY Zenon, <1>5, <2>1, KeptList DEF AssertIsEvaluated, Framed, Iteration, lists
  <2> QED BY Zenon, <2>2, <2>3 DEF Ending
<1>6. CASE AssertIsPending(i)
  <2>1. /\ count' \in [Counters -> Nat] /\ Quiet' = Quiet /\ total_pending' > 0
        /\ SameCount("evaluated") /\ count'["asserts_pending"] = count["asserts_pending"] + 1
    BY <1>6, <1>4, CountingFacts DEF AssertIsPending, Moves, Pendings, Counters, SameCount
  <2>2. count'["asserts_pending"] > 0
    BY <1>4, <2>1 DEF Counters
  <2>3. Deferred(i)
    BY Zenon, <1>6, <1>2, <1>3, <2>1, <2>2 DEF Deferred, AssertIsPending, lists
  <2>4. Framed
    BY Zenon, <1>6, <2>1, KeptList DEF AssertIsPending, Framed, Iteration, lists
  <2> QED BY Zenon, <2>3, <2>4 DEF Ending
<1> QED BY Zenon, <1>5, <1>6

\* One visit: the first of the remaining places is taken, and its item ends in one
\* of the five ways.
LEMMA VisitEnds ==
  ASSUME TypeInv, TodoInv, NEW i \in Item, VisitAction(i)
  PROVE  \E k \in todo :
           /\ k \in 1 .. Len(known) /\ i = known[k] /\ Visiting(k) /\ Ending(i)
           /\ step = "types" => Is(i, "type")
           /\ step = "calls" => Is(i, "call")
           /\ step = "consteval" => Is(i, "consteval")
           /\ step = "asserts" => Is(i, "assert")
           /\ step \in {"types", "calls", "consteval", "asserts"}
<1>1. PICK s \in {"types", "calls", "consteval", "asserts"} : Visit(s, i)
  BY Zenon DEF VisitAction, TypeIsResolved, TypeHasNoPrimary, TypeIsBlocked, TypeIsRealized,
         CallIsResolved, Instantiate, CallIsPending, CallIsMisread, ConstevalIsReduced,
         Evaluate, ConstevalIsPending, AssertIsEvaluated, AssertIsPending
<1>2. Framed /\ Ending(i)
  BY TypeVisits, CallVisits, ConstevalVisits, AssertVisits, Zenon DEF VisitAction
<1>3. step = s
  BY Zenon, <1>1 DEF Visit
<1> QED BY <1>1, <1>2, <1>3, VisitedItem, Zenon DEF Visiting

-----------------------------------------------------------------------------
\* A visit keeps the invariant

\* The place a visit takes, and the kind of its item.
VisitsPlace(k) ==
  /\ k \in todo /\ k \in 1 .. Len(known) /\ Visiting(k) /\ Ending(known[k])
  /\ step \in {"types", "calls", "consteval", "asserts"}
  /\ step = "types" => Is(known[k], "type")
  /\ step = "calls" => Is(known[k], "call")
  /\ step = "consteval" => Is(known[k], "consteval")
  /\ step = "asserts" => Is(known[k], "assert")

\* A visit adds one place to those that have had their turn.
LEMMA PlaceIsVisited ==
  ASSUME TypeInv, NEW k, VisitsPlace(k), NEW m \in 1 .. Len(known)
  PROVE  /\ Visited(m)' <=> (Visited(m) \/ m = k)
         /\ known'[m] = known[m] /\ known[m] \in Item /\ known[m] \in Range(known)
<1>1. /\ known'[m] = known[m] /\ work' = work /\ step' = step /\ todo' = todo \ {k}
  BY Zenon DEF VisitsPlace, Visiting, Framed
<1>2. known[m] \in Item /\ known[m] \in Range(known)
  BY DEF TypeInv, WellFormed, Range
<1>3. CASE m = k
  <2>1. m \notin todo'
    BY Zenon, <1>1, <1>3
  <2>2. Reached(work[known[m]].kind)'
    BY Zenon, <1>1, <1>3 DEF VisitsPlace, Reached, Is
  <2> QED BY Zenon, <1>1, <1>2, <1>3, <2>1, <2>2 DEF Visited
<1>4. CASE m # k
  <2>1. m \in todo' <=> m \in todo
    BY Zenon, <1>1, <1>4
  <2>2. Reached(work[known[m]].kind)' <=> Reached(work[known[m]].kind)
    BY Zenon, <1>1 DEF Reached
  <2> QED BY Zenon, <1>1, <1>2, <1>4, <2>1, <2>2 DEF Visited
<1> QED BY Zenon, <1>3, <1>4

\* What is common to the five endings.
LEMMA EndingFacts ==
  ASSUME TypeInv, NEW k, VisitsPlace(k)
  PROVE  /\ known[k] \in Item /\ known[k] \in Range(known)
         /\ done \subseteq done' /\ done' \subseteq done \cup {known[k]}
         /\ done' # done => ~Is(known[k], "assert")
         /\ pending_diags \subseteq pending_diags'
         /\ pending_diags' \subseteq pending_diags \cup {known[k]}
         /\ stale' \in BOOLEAN /\ (stale => stale') /\ (~Is(known[k], "call") => stale' = stale)
         /\ work[known[k]].spawns = {} => known' = known
         /\ Usable \subseteq Usable'
         /\ \A i : Is(i, "type")' = Is(i, "type") /\ Is(i, "call")' = Is(i, "call")
                   /\ Is(i, "consteval")' = Is(i, "consteval")
                   /\ Is(i, "assert")' = Is(i, "assert")
<1> DEFINE i == known[k]
<1>1. i \in Item /\ i \in Range(known)
  BY DEF VisitsPlace, TypeInv, WellFormed, Range
<1>2. Ending(i) /\ stale \in BOOLEAN
  BY Zenon DEF VisitsPlace, TypeInv
<1>3. /\ done \subseteq done' /\ done' \subseteq done \cup {i}
      /\ done' # done => ~Is(i, "assert")
  BY Zenon, <1>2 DEF Ending, Resolved, Completed, Deferred, Held, Misread
<1>4. pending_diags \subseteq pending_diags' /\ pending_diags' \subseteq pending_diags \cup {i}
  BY Zenon, <1>2 DEF Ending, Resolved, Completed, Deferred, Held, Misread
<1>5. stale' \in BOOLEAN /\ (stale => stale') /\ (~Is(i, "call") => stale' = stale)
  <2>1. stale' = stale \/ (stale' = TRUE /\ Is(i, "call"))
    BY Zenon, <1>2 DEF Ending, Resolved, Completed, Deferred, Held, Misread
  <2>2. CASE stale' = stale
    BY Zenon, <1>2, <2>2
  <2>3. CASE stale' = TRUE /\ Is(i, "call")
    BY Zenon, <2>3
  <2> QED BY Zenon, <2>1, <2>2, <2>3
<1>6. work[i].spawns = {} => known' = known
  BY Zenon, <1>2 DEF Ending, Resolved, Completed, Deferred, Held, Misread
<1>7. work' = work /\ bindings' = bindings
  BY Zenon DEF VisitsPlace, Visiting, Framed
<1>8. Usable \subseteq Usable'
  BY Zenon, <1>3, <1>7 DEF Usable, Is
<1> QED BY Zenon, <1>1, <1>3, <1>4, <1>5, <1>6, <1>7, <1>8 DEF Is

\* A visit keeps the types, the rest of the step, and what is bound.
LEMMA VisitKeepsTypes ==
  ASSUME TypeInv, TodoInv, BoundInv, StopInv, NEW k, VisitsPlace(k)
  PROVE  TypeInv' /\ TodoInv' /\ BoundInv' /\ StopInv'
<1> DEFINE i == known[k]
<1>1. /\ i \in Item /\ i \in Range(known)
      /\ done \subseteq done' /\ done' \subseteq done \cup {i}
      /\ done' # done => ~Is(i, "assert")
      /\ pending_diags' \subseteq pending_diags \cup {i}
      /\ stale' \in BOOLEAN
  BY Zenon, EndingFacts
<1>2. /\ UNCHANGED <<work, step, n, iterations, diagnostics, bindings>>
      /\ known' \in Seq(Item) /\ Len(known) <= Len(known')
      /\ \A m \in 1 .. Len(known) : known'[m] = known[m]
      /\ Range(known) \subseteq Range(known')
      /\ count' \in [Counters -> Nat] /\ todo' = todo \ {k}
      /\ Len(known) \in Nat /\ Len(known') \in Nat
  BY DEF VisitsPlace, Visiting, Framed, TypeInv, WellFormed
<1>3. TypeInv'
  <2>1. WellFormed'
    BY Zenon, <1>2 DEF TypeInv, WellFormed, Is
  <2>2. done' \in SUBSET Item /\ \A j \in done' : ~Is(j, "assert")'
    BY Zenon, <1>1, <1>2 DEF TypeInv, Is
  <2>3. bindings' \subseteq {j \in done' : Is(j, "consteval")'}
    BY Zenon, <1>1, <1>2 DEF TypeInv, Is
  <2>4. n' \in 0 .. Len(known')
    BY <1>2 DEF TypeInv
  <2>5. pending_diags' \in SUBSET Range(known')
    BY Zenon, <1>1, <1>2 DEF TypeInv
  <2> QED BY Zenon, <1>1, <1>2, <2>1, <2>2, <2>3, <2>4, <2>5 DEF TypeInv
<1>4. TodoInv'
  <2>1. ASSUME NEW kind, todo \subseteq OfKind(kind) PROVE todo' \subseteq OfKind(kind)'
    <3> SUFFICES ASSUME NEW m \in todo, m # k PROVE m \in OfKind(kind)'
      BY Zenon, <1>2
    <3>1. m \in 1 .. Len(known) /\ work[known[m]].kind = kind
      BY Zenon, <2>1 DEF OfKind, Is
    <3>2. m \in 1 .. Len(known')
      BY <3>1, <1>2
    <3> QED BY Zenon, <3>1, <3>2, <1>2 DEF OfKind, Is
  <2>2. todo' \subseteq todo /\ step' = step
    BY Zenon, <1>2
  <2> QED BY Zenon, <2>1, <2>2 DEF TodoInv
<1>5. BoundInv'
  <2>1. Ending(i)
    BY Zenon DEF VisitsPlace
  <2>2. CASE Is(i, "consteval") /\ Completed(i)
    <3>1. step' = "consteval" /\ count'["evaluated"] # 0
      <4>1. step = "consteval"
        BY Zenon, <2>2 DEF VisitsPlace, Is
      <4>2. count'["evaluated"] > 0 /\ count'["evaluated"] \in Nat
        BY Zenon, <2>2, <1>2 DEF Completed, Counters
      <4> QED BY <4>1, <4>2, <1>2
    <3> QED BY Zenon, <3>1 DEF BoundInv
  <2>3. CASE ~ (Is(i, "consteval") /\ Completed(i))
    <3>1. SameCount("evaluated")
      BY Zenon, <2>1, <2>3 DEF Ending, Resolved, Completed, Deferred, Held, Misread, SameCount
    <3>2. {j \in done' : Is(j, "consteval")'} = {j \in done : Is(j, "consteval")}
      BY Zenon, <2>1, <2>3, <1>2 DEF Ending, Resolved, Completed, Deferred, Held, Misread, Is
    <3> QED BY Zenon, <3>1, <3>2, <1>2 DEF BoundInv, SameCount
  <2> QED BY Zenon, <2>2, <2>3
<1>6. StopInv'
  <2>1. step \notin Ends /\ ~Stopped /\ ~Stopped'
    BY Zenon, <1>2 DEF VisitsPlace, Stopped, Ends
  <2> QED BY Zenon, <1>2, <2>1 DEF StopInv, Stopped, Ends
<1> QED BY Zenon, <1>3, <1>4, <1>5, <1>6

\* A visit that counts no progress leaves its item stuck, and the others as they were.
LEMMA VisitKeepsQuiet ==
  ASSUME TypeInv, QuietInv, NEW k, VisitsPlace(k), NEW i, i = known[k]
  PROVE  QuietInv'
<1> SUFFICES ASSUME Quiet'
             PROVE  /\ n' = Len(known') /\ stale' = FALSE
                    /\ \A m \in 1 .. n' : Visited(m)' => Stuck(known[m])'
                    /\ \A j \in pending_diags' : j \notin done' /\ work'[j].outcome # "silent"
                    /\ total_pending' > 0 => \E m \in 1 .. n' : known'[m] \notin done'
  BY Zenon DEF QuietInv
<1>1. Ending(i) /\ i \in Item /\ i \in Range(known) /\ k \in 1 .. Len(known)
  BY Zenon, EndingFacts DEF VisitsPlace
<1>2. work' = work /\ n' = n /\ bindings' = bindings
  BY Zenon DEF VisitsPlace, Visiting, Framed
<1>3. ~Completed(i) /\ ~Held(i)
  BY Zenon DEF Completed, Held
<1>4. Quiet /\ known' = known /\ done' = done /\ stale' = stale
      /\ pending_diags \subseteq pending_diags'
  <2>1. CASE Resolved(i)
    BY Zenon, <2>1 DEF Resolved, Quiet
  <2>2. CASE Deferred(i)
    BY Zenon, <2>2 DEF Deferred
  <2>3. CASE Misread(i)
    BY Zenon, <2>3 DEF Misread
  <2> QED BY Zenon, <1>1, <1>3, <2>1, <2>2, <2>3 DEF Ending
<1>5. /\ n = Len(known) /\ stale = FALSE
      /\ \A m \in 1 .. n : Visited(m) => Stuck(known[m])
      /\ \A j \in pending_diags : j \notin done /\ work[j].outcome # "silent"
      /\ total_pending > 0 => \E m \in 1 .. n : known[m] \notin done
  BY Zenon, <1>4 DEF QuietInv
<1>6. Resolved(i) \/ Deferred(i)
  BY Zenon, <1>1, <1>3, <1>5 DEF Ending, Misread
<1>7. \A j : Ready(j)' = Ready(j) /\ Is(j, "assert")' = Is(j, "assert")
             /\ Is(j, "type")' = Is(j, "type") /\ Resolvable(j)' = Resolvable(j)
  BY Zenon, <1>2, <1>4 DEF Ready, Usable, Is, Resolvable
<1>8. \A j : Stuck(j) => Stuck(j)'
  BY <1>2, <1>4, <1>7, Zenon DEF Stuck
<1>9. Stuck(i)'
  <2>1. CASE Resolved(i)
    <3>1. i \in done /\ ~Is(i, "assert")
      BY Zenon, <2>1 DEF Resolved, TypeInv
    <3> QED BY Zenon, <3>1, <1>4, <1>7 DEF Stuck
  <2>2. CASE Deferred(i)
    <3>1. work[i].outcome = "silent" \/ i \in pending_diags'
      BY Zenon, <2>2 DEF Deferred
    <3>2. Is(i, "type") => work[i].spawns \subseteq Range(known)
      BY Zenon, <2>2 DEF Deferred
    <3>3. CASE Is(i, "assert")
      <4>1. work[i].outcome # "silent" /\ (work[i].outcome = "fails" \/ ~Ready(i))
        BY Zenon, <2>2, <3>3, <1>1 DEF Deferred, TypeInv, WellFormed, Is
      <4>2. i \in pending_diags'
        BY Zenon, <3>1, <4>1
      <4> QED BY <3>3, <4>1, <4>2, <1>2, <1>7, Zenon DEF Stuck
    <3>4. CASE ~Is(i, "assert")
      <4>1. ~Resolvable(i)
        BY Zenon, <2>2, <3>4 DEF Deferred
      <4> QED BY <3>1, <3>2, <3>4, <4>1, <1>2, <1>4, <1>7, Zenon DEF Stuck
    <3> QED BY Zenon, <3>3, <3>4
  <2> QED BY Zenon, <1>6, <2>1, <2>2
<1>10. ASSUME NEW m \in 1 .. n', Visited(m)' PROVE Stuck(known[m])'
  <2>1. m \in 1 .. Len(known) /\ known'[m] = known[m]
    BY Zenon, <1>2, <1>4, <1>5, <1>10
  <2>2. Visited(m) \/ m = k
    BY Zenon, <1>10, <2>1, PlaceIsVisited
  <2>3. PICK j : j = known[m]
    BY Zenon
  <2>4. CASE m = k
    BY Zenon, <1>9, <2>1, <2>3, <2>4
  <2>5. CASE Visited(m)
    <3>1. Stuck(j)
      BY Zenon, <1>2, <1>5, <1>10, <2>3, <2>5
    <3>2. Stuck(j)'
      BY Zenon, <1>8, <3>1
    <3> QED BY Zenon, <2>1, <2>3, <3>2
  <2> QED BY Zenon, <2>2, <2>4, <2>5
<1>11. ASSUME NEW j \in pending_diags' PROVE j \notin done' /\ work'[j].outcome # "silent"
  <2>1. CASE j \in pending_diags
    BY Zenon, <2>1, <1>2, <1>4, <1>5
  <2>2. CASE j \notin pending_diags
    <3>1. Deferred(i) /\ j = i /\ work[i].outcome # "silent"
      BY Zenon, <2>2, <1>6, <1>11 DEF Resolved, Deferred
    <3>2. i \notin done
      BY Zenon, <3>1 DEF Deferred, TypeInv
    <3> QED BY Zenon, <3>1, <3>2, <1>2, <1>4
  <2> QED BY Zenon, <2>1, <2>2
<1>12. ASSUME total_pending' > 0 PROVE \E m \in 1 .. n' : known'[m] \notin done'
  <2>1. CASE Resolved(i)
    <3>1. total_pending' = total_pending
      BY Zenon, <2>1 DEF Resolved, total_pending
    <3> QED BY Zenon, <3>1, <1>12, <1>2, <1>4, <1>5
  <2>2. CASE Deferred(i)
    <3>1. i \notin done
      BY Zenon, <2>2 DEF Deferred, TypeInv
    <3> QED BY Zenon, <3>1, <1>1, <1>2, <1>4, <1>5
  <2> QED BY Zenon, <1>6, <2>1, <2>2
<1> QED BY Zenon, <1>2, <1>4, <1>5, <1>10, <1>11, <1>12

\* A visit that counts nothing pending leaves its item finished.
LEMMA VisitKeepsFinished ==
  ASSUME TypeInv, FinishedInv, NEW k, VisitsPlace(k), NEW i, i = known[k]
  PROVE  FinishedInv'
<1> SUFFICES ASSUME total_pending' = 0, NEW m \in 1 .. n', Visited(m)'
             PROVE  Finished(known[m])'
  BY Zenon DEF FinishedInv
<1>1. /\ Ending(i) /\ i \in Item /\ work' = work /\ n' = n
      /\ done \subseteq done' /\ pending_diags \subseteq pending_diags'
      /\ Usable \subseteq Usable' /\ stale' \in BOOLEAN /\ (stale => stale')
  BY Zenon, EndingFacts DEF VisitsPlace, Visiting, Framed
<1>2. \A j : Is(j, "assert")' = Is(j, "assert") /\ Is(j, "call")' = Is(j, "call")
  BY Zenon, <1>1 DEF Is
<1>3. total_pending = 0 /\ ~Deferred(i)
  <2>1. ~Deferred(i)
    BY DEF Deferred
  <2>2. CASE Resolved(i)
    BY Zenon, <2>1, <2>2 DEF Resolved, total_pending
  <2>3. CASE Completed(i) \/ Held(i)
    BY Zenon, <2>1, <2>3 DEF Completed, Held
  <2>4. CASE Misread(i)
    BY <2>1, <2>4 DEF Misread
  <2> QED BY Zenon, <1>1, <2>1, <2>2, <2>3, <2>4 DEF Ending
<1>4. \A j : Ready(j) => Ready(j)'
  BY Zenon, <1>1 DEF Ready
<1>5. \A j : Finished(j) => Finished(j)'
  BY Zenon, <1>1, <1>2, <1>4 DEF Finished
<1>6. m \in 1 .. Len(known) /\ m \in 1 .. n
  BY <1>1 DEF TypeInv, WellFormed
<1>7. known'[m] = known[m] /\ (Visited(m) \/ m = k)
  BY Zenon, <1>6, PlaceIsVisited
<1>8. Finished(i)'
  <2>1. CASE Resolved(i) \/ Completed(i)
    <3>1. i \in done' /\ ~Is(i, "assert")
      BY Zenon, <2>1 DEF Resolved, Completed, TypeInv
    <3> QED BY Zenon, <3>1, <1>2 DEF Finished
  <2>2. CASE Held(i)
    <3>1. Is(i, "assert") /\ Ready(i) /\ (work[i].outcome = "ok" \/ i \in pending_diags')
      BY Zenon, <2>2 DEF Held
    <3> QED BY Zenon, <3>1, <1>1, <1>2, <1>4 DEF Finished
  <2>3. CASE Misread(i)
    <3>1. Is(i, "call") /\ ~Is(i, "assert") /\ stale'
      BY Zenon, <2>3, <1>1 DEF Misread, Is
    <3> QED BY Zenon, <3>1, <1>2 DEF Finished
  <2> QED BY Zenon, <1>1, <1>3, <2>1, <2>2, <2>3 DEF Ending
<1>9. PICK j : j = known[m]
  BY Zenon
<1>10. Finished(j)'
  <2>1. CASE m = k
    BY Zenon, <1>8, <1>9, <2>1
  <2>2. CASE Visited(m)
    BY Zenon, <1>3, <1>5, <1>6, <1>9, <2>2 DEF FinishedInv
  <2> QED BY Zenon, <1>7, <2>1, <2>2
<1> QED BY Zenon, <1>7, <1>9, <1>10

\* A program whose items spawn nothing has all its work from the start.
LEMMA PlainVisit ==
  ASSUME TypeInv, NEW k, VisitsPlace(k), Plain'
  PROVE  Plain /\ known' = known /\ Rankings' = Rankings
<1>1. /\ known[k] \in Range(known) /\ Range(known) \subseteq Range(known') /\ work' = work
      /\ work[known[k]].spawns = {} => known' = known
  BY Zenon, EndingFacts DEF VisitsPlace, Visiting, Framed
<1>2. known' = known
  BY Zenon, <1>1 DEF Plain
<1> QED BY Zenon, <1>1, <1>2 DEF Plain, Rankings

\* An item that has to wait needs one whose turn has not come.
LEMMA WaitsForLater ==
  ASSUME TypeInv, NEW i \in Range(known), ~Ready(i), NEW rank \in Rankings, RankInv(rank)
  PROVE  iterations < rank[i] /\ iterations < Len(known)
<1>1. i \in Item /\ iterations \in Nat /\ Len(known) \in Nat
  BY DEF TypeInv, WellFormed, Range
<1>2. PICK j \in work[i].needs : j \notin Usable
  BY Zenon DEF Ready
<1>3. j \in Range(known) /\ rank[j] < rank[i] /\ rank \in [Range(known) -> 1 .. Len(known)]
  BY Zenon, <1>2 DEF Rankings
<1>4. PICK m \in 1 .. Len(known) : j = known[m]
  BY <1>3 DEF Range, TypeInv, WellFormed
<1>5. Is(j, "type") \/ Is(j, "consteval")
  BY Zenon, <1>1, <1>2 DEF TypeInv, WellFormed
<1>6. ~ (rank[j] < iterations)
  BY <1>2, <1>4, <1>5, Zenon DEF RankInv
<1>7. rank[j] \in 1 .. Len(known) /\ rank[i] \in 1 .. Len(known)
  BY Zenon, <1>3
<1> QED BY <1>1, <1>3, <1>6, <1>7

\* The first call that is open is lowered, whatever is misread after it.
LEMMA VisitKeepsCalls ==
  ASSUME TypeInv, TodoInv, NEW k, VisitsPlace(k), NEW i, i = known[k], Plain,
         known' = known, CallInv
  PROVE  CallInv'
<1>1. /\ Ending(i) /\ work' = work /\ step' = step /\ iterations' = iterations
      /\ todo' = todo \ {k} /\ (\A m \in todo : k <= m)
      /\ i \in Range(known) /\ k \in todo /\ k \in 1 .. Len(known)
      /\ step = "types" => Is(i, "type")
      /\ step = "calls" => Is(i, "call")
      /\ Is(i, "call") => step = "calls"
  BY Zenon, EndingFacts DEF VisitsPlace, Visiting, Framed, Is
<1>2. /\ done \subseteq done' /\ stale \in BOOLEAN /\ stale' \in BOOLEAN /\ (stale => stale')
      /\ ~Is(i, "call") => stale' = stale
  BY Zenon, EndingFacts DEF TypeInv
<1>3. \A j : Is(j, "call")' = Is(j, "call")
  BY Zenon, <1>1 DEF Is
<1>4. todo \subseteq 1 .. Len(known) /\ iterations \in Nat /\ Len(known) \in Nat
  BY DEF TodoInv, TypeInv, OfKind, AllSteps, WellFormed
<1>5. ASSUME Is(i, "call"), ~stale
      PROVE  i \in done'
  <2>1. Resolvable(i) /\ ~Is(i, "assert")
    BY Zenon, <1>1, <1>5 DEF Plain, Resolvable, Is
  <2>2. ~Deferred(i) /\ ~Held(i) /\ ~Misread(i)
    BY Zenon, <2>1, <1>5 DEF Deferred, Held, Misread
  <2> QED BY Zenon, <2>2, <1>1 DEF Ending, Resolved, Completed
<1>6. ASSUME NEW m \in 1 .. Len(known), Is(known[m], "call"), step # "types", ~stale, m \notin todo'
      PROVE  known[m] \in done'
  <2>1. CASE m = k
    BY Zenon, <2>1, <1>5, <1>6
  <2>2. CASE m # k
    BY Zenon, <2>2, <1>1, <1>2, <1>6 DEF CallInv
  <2> QED BY Zenon, <2>1, <2>2
<1>7. ASSUME ~stale, stale'
      PROVE  Is(i, "call") /\ step = "calls" /\ i \notin done /\ i \in done'
  <2>1. Is(i, "call")
    BY Zenon, <1>2, <1>7
  <2>2. Completed(i)
    BY Zenon, <1>1, <1>7 DEF Ending, Resolved, Completed, Deferred, Held, Misread
  <2> QED BY Zenon, <1>1, <2>1, <2>2 DEF Completed
<1>8. ASSUME ~stale, stale' PROVE iterations <= k
  <2>1. ~ (k < iterations)
    BY <1>1, <1>7, <1>8, Zenon DEF CallInv
  <2> QED BY <2>1, <1>1, <1>4
<1>9. ASSUME NEW m \in 1 .. Len(known), Is(known[m], "call"),
             m < iterations \/ (m = iterations /\ stale')
      PROVE  known[m] \in done'
  <2>1. CASE m < iterations \/ stale
    BY <2>1, <1>2, <1>9, Zenon DEF CallInv
  <2>2. CASE m = iterations /\ ~stale /\ stale'
    <3>1. m = k \/ m \notin todo'
      BY <2>2, <1>1, <1>4, <1>8
    <3>2. step # "types"
      BY Zenon, <2>2, <1>7
    <3>3. CASE m = k
      BY Zenon, <3>3, <2>2, <1>7
    <3>4. CASE m \notin todo'
      BY Zenon, <3>2, <3>4, <2>2, <1>6, <1>9
    <3> QED BY Zenon, <3>1, <3>3, <3>4
  <2> QED BY Zenon, <1>9, <2>1, <2>2
<1>10. step = "types" => ~stale'
  BY Zenon, <1>1, <1>2 DEF CallInv, Is
<1>11. ASSUME step = "calls", stale', NEW m \in todo' PROVE iterations < m
  <2>1. CASE stale
    BY Zenon, <2>1, <1>1, <1>11 DEF CallInv
  <2>2. CASE ~stale
    <3>1. iterations <= k /\ k <= m /\ k # m /\ m \in 1 .. Len(known)
      BY Zenon, <2>2, <1>1, <1>4, <1>8, <1>11
    <3> QED BY <3>1, <1>1, <1>4
  <2> QED BY Zenon, <2>1, <2>2
<1>12. ASSUME NEW m \in 1 .. Len(known), Is(known[m], "call"), step # "types", ~stale',
              m \notin todo'
       PROVE  known[m] \in done'
  BY Zenon, <1>2, <1>6, <1>12
<1> QED BY Zenon, <1>1, <1>3, <1>9, <1>10, <1>11, <1>12 DEF CallInv

\* An item whose rank is reached is finished when it is visited.
LEMMA VisitKeepsRanks ==
  ASSUME TypeInv, TodoInv, NEW k, VisitsPlace(k), NEW i, i = known[k], Plain,
         known' = known, NEW rank \in Rankings, RankInv(rank), CallInv,
         total_pending > 0 => iterations < Len(known)
  PROVE  RankInv(rank)' /\ (total_pending' > 0 => iterations' < Len(known'))
<1>1. /\ Ending(i) /\ work' = work /\ step' = step /\ iterations' = iterations
      /\ i \in Range(known) /\ k \in todo /\ k \in 1 .. Len(known)
      /\ Is(i, "call") => step = "calls"
      /\ work[i].outcome = "ok"
      /\ done \subseteq done' /\ Usable \subseteq Usable'
  BY Zenon, EndingFacts DEF VisitsPlace, Visiting, Framed, Is, Plain
<1>2. \A j : Is(j, "type")' = Is(j, "type") /\ Is(j, "consteval")' = Is(j, "consteval")
  BY Zenon, <1>1 DEF Is
<1>3. Deferred(i) => ~Ready(i)
  <2>1. i \in Item /\ work[i].kind \in Kinds
    BY <1>1 DEF TypeInv, WellFormed, Range
  <2>2. CASE Is(i, "assert")
    BY Zenon, <2>2, <1>1 DEF Deferred
  <2>3. CASE ~Is(i, "assert")
    <3>1. Ready(i) => Resolvable(i)
      BY Zenon, <2>1, <2>3, <1>1 DEF Kinds, Resolvable, Is
    <3> QED BY Zenon, <2>3, <3>1 DEF Deferred
  <2> QED BY Zenon, <2>2, <2>3
<1>4. i \in Item /\ iterations \in Nat /\ Len(known) \in Nat /\ rank[i] \in Nat
  BY <1>1 DEF TypeInv, WellFormed, Range, Rankings
<1>5. ASSUME Is(i, "type") \/ Is(i, "consteval"), rank[i] = iterations PROVE i \in done'
  <2>1. ~Deferred(i)
    BY <1>1, <1>3, <1>4, <1>5, WaitsForLater
  <2>2. ~Held(i) /\ ~Misread(i)
    BY Zenon, <1>5 DEF Held, Misread, Is
  <2> QED BY Zenon, <2>1, <2>2, <1>1 DEF Ending, Resolved, Completed
<1>6. ASSUME NEW m \in 1 .. Len(known), Is(known[m], "type") \/ Is(known[m], "consteval")
      PROVE  /\ rank[known[m]] < iterations => known[m] \in Usable'
             /\ rank[known[m]] = iterations /\ Visited(m)' => known[m] \in done'
  <2>1. rank[known[m]] < iterations => known[m] \in Usable'
    BY Zenon, <1>1, <1>6 DEF RankInv
  <2>2. ASSUME rank[known[m]] = iterations, Visited(m)' PROVE known[m] \in done'
    <3>1. Visited(m) \/ m = k
      BY Zenon, <2>2, PlaceIsVisited
    <3>2. CASE m = k
      BY Zenon, <3>2, <2>2, <1>5, <1>6
    <3>3. CASE Visited(m)
      BY Zenon, <3>3, <2>2, <1>1, <1>6 DEF RankInv
    <3> QED BY Zenon, <3>1, <3>2, <3>3
  <2> QED BY Zenon, <2>1, <2>2
<1>7. RankInv(rank)'
  BY Zenon, <1>1, <1>2, <1>6 DEF RankInv
<1>8. ASSUME total_pending' > 0 PROVE iterations < Len(known)
  <2>1. CASE Resolved(i)
    <3>1. total_pending' = total_pending
      BY Zenon, <2>1 DEF Resolved, total_pending
    <3> QED BY Zenon, <3>1, <1>8
  <2>2. CASE Completed(i) \/ Held(i)
    BY Zenon, <2>2, <1>8 DEF Completed, Held
  <2>3. CASE Deferred(i)
    BY Zenon, <2>3, <1>1, <1>3, WaitsForLater
  <2>4. CASE Misread(i)
    <3>1. iterations < k
      BY Zenon, <2>4, <1>1 DEF Misread, CallInv
    <3> QED BY <3>1, <1>1, <1>4
  <2> QED BY Zenon, <1>1, <2>1, <2>2, <2>3, <2>4 DEF Ending
<1> QED BY Zenon, <1>1, <1>7, <1>8

\* A visit keeps a program that can be finished on its way.
LEMMA VisitKeepsSolvable ==
  ASSUME TypeInv, TodoInv, SolvableInv, NEW k, VisitsPlace(k)
  PROVE  SolvableInv'
<1> SUFFICES ASSUME Plain'
             PROVE  /\ n' = Len(known') /\ CallInv'
                    /\ AssertDiags' # {} => count.asserts_pending' > 0
                    /\ \A rank \in Rankings' :
                         RankInv(rank)' /\ (total_pending' > 0 => iterations' < Len(known'))
  BY Zenon DEF SolvableInv
<1>1. Plain /\ known' = known /\ Rankings' = Rankings
  BY Zenon, PlainVisit
<1>2. /\ n = Len(known) /\ CallInv
      /\ AssertDiags # {} => count.asserts_pending > 0
      /\ \A rank \in Rankings : RankInv(rank) /\ (total_pending > 0 => iterations < Len(known))
  BY Zenon, <1>1 DEF SolvableInv
<1>3. PICK i : i = known[k]
  BY Zenon
<1>4. n' = n /\ work' = work
  BY Zenon DEF VisitsPlace, Visiting, Framed
<1>5. CallInv'
  BY Zenon, <1>1, <1>2, <1>3, VisitKeepsCalls
<1>6. ASSUME NEW rank \in Rankings
      PROVE  RankInv(rank)' /\ (total_pending' > 0 => iterations' < Len(known'))
  BY Zenon, <1>1, <1>2, <1>3, <1>6, VisitKeepsRanks
<1>7. ASSUME AssertDiags' # {} PROVE count'["asserts_pending"] > 0
  <2>1. /\ Ending(i) /\ i \in Range(known) /\ pending_diags' \subseteq pending_diags \cup {i}
        /\ work[i].outcome = "ok"
    BY Zenon, <1>1, <1>3, EndingFacts DEF VisitsPlace, Plain
  <2>2. count \in [Counters -> Nat] /\ "asserts_pending" \in Counters
    BY Zenon DEF TypeInv, Counters
  <2>3. CASE AssertDiags # {}
    <3>1. count["asserts_pending"] > 0
      BY Zenon, <1>2, <2>3
    <3> QED BY Zenon, <2>1, <3>1 DEF Ending, Resolved, Completed, Deferred, Held, Misread, SameCount
  <2>4. CASE AssertDiags = {}
    <3>1. i \in pending_diags' /\ i \notin pending_diags /\ Is(i, "assert")
      BY Zenon, <2>1, <2>4, <1>4, <1>7 DEF AssertDiags, Is
    <3>2. Deferred(i)
      BY Zenon, <2>1, <3>1 DEF Ending, Resolved, Completed, Held, Misread, Is
    <3> QED BY Zenon, <3>1, <3>2 DEF Deferred
  <2> QED BY Zenon, <2>3, <2>4
<1> QED BY Zenon, <1>1, <1>2, <1>4, <1>5, <1>6, <1>7

\* Every visit keeps the invariant.
LEMMA VisitKeepsIInv ==
  ASSUME IInv, NEW i \in Item, VisitAction(i)
  PROVE  IInv'
<1>1. PICK k : VisitsPlace(k)
  BY VisitEnds, Zenon DEF IInv, VisitsPlace
<1>2. PICK j : j = known[k]
  BY Zenon
<1> QED BY Zenon, <1>1, <1>2, VisitKeepsTypes, VisitKeepsQuiet, VisitKeepsFinished,
           VisitKeepsSolvable, Zenon DEF IInv

-----------------------------------------------------------------------------
\* The end of a step, and the decision after the last one, keep the invariant

\* The engine goes on to its next step, or stops.
Passes ==
  /\ todo = {}
  /\ UNCHANGED <<work, known, done, n, stale, count, pending_diags, iterations>>
  /\ bindings' = IF step = "consteval" THEN {i \in done : Is(i, "consteval")} ELSE bindings
  /\ step' \in AllSteps /\ step' # "types" /\ step' # step
  /\ step = "types" => step' = "calls" /\ todo' = OfKind("call")
  /\ step = "calls" => step' = "consteval" /\ todo' = OfKind("consteval")
  /\ step = "consteval" => step' = "asserts" /\ todo' = OfKind("assert")
  /\ step \notin {"types", "calls", "consteval"} =>
       step' \in {"decide"} \cup Ends /\ todo' = {}

\* The end of a step visits nothing, and binds what has been evaluated.
LEMMA PassesFacts ==
  ASSUME TypeInv, BoundInv, Passes
  PROVE  /\ \A m \in 1 .. Len(known) : Visited(m)' => Visited(m)
         /\ \A m \in 1 .. Len(known) : Visited(m)' /\ step = "consteval" => ~Is(known[m], "assert")
         /\ bindings \subseteq bindings'
         /\ Quiet => bindings' = bindings
         /\ step # "consteval" => bindings' = bindings
         /\ Usable \subseteq Usable'
         /\ \A i : Is(i, "type")' = Is(i, "type") /\ Is(i, "call")' = Is(i, "call")
                   /\ Is(i, "consteval")' = Is(i, "consteval")
                   /\ Is(i, "assert")' = Is(i, "assert")
         /\ Quiet' = Quiet /\ total_pending' = total_pending /\ AssertDiags' = AssertDiags
         /\ TodoInv'
<1>1. \A i : Is(i, "type")' = Is(i, "type") /\ Is(i, "call")' = Is(i, "call")
             /\ Is(i, "consteval")' = Is(i, "consteval") /\ Is(i, "assert")' = Is(i, "assert")
  BY Zenon DEF Passes, Is
<1>2. Quiet' = Quiet /\ total_pending' = total_pending
  BY Zenon DEF Passes, Quiet, total_pending
<1>3. AssertDiags' = AssertDiags
  BY Zenon DEF Passes, AssertDiags, Is
<1>4. bindings \subseteq {i \in done : Is(i, "consteval")}
  BY Zenon DEF TypeInv
<1>5. bindings \subseteq bindings' /\ (step # "consteval" => bindings' = bindings)
  BY Zenon, <1>4 DEF Passes
<1>6. ASSUME Quiet PROVE bindings' = bindings
  <2>1. count.evaluated = 0
    BY Zenon, <1>6 DEF Quiet, Moves
  <2> QED BY Zenon, <2>1 DEF Passes, BoundInv
<1>7. Usable \subseteq Usable'
  BY Zenon, <1>5 DEF Usable, Passes, Is
<1>8. \A kind : OfKind(kind)' = OfKind(kind)
  BY Zenon DEF OfKind, Is, Passes
<1>9. TodoInv'
  BY Zenon, <1>8 DEF Passes, TodoInv, TypeInv, AllSteps, Ends
<1>10. ASSUME NEW m \in 1 .. Len(known), Visited(m)'
       PROVE  Visited(m) /\ (step = "consteval" => ~Is(known[m], "assert"))
  <2>1. work[known[m]].kind \in Kinds
    BY DEF TypeInv, WellFormed
  <2>2. m \notin todo' /\ Reached(work[known[m]].kind)'
    BY Zenon, <1>10 DEF Visited
  <2>3. CASE step = "types"
    <3>1. work[known[m]].kind = "type"
      BY Zenon, <2>1, <2>2, <2>3 DEF Passes, Reached, OfKind, Is
    <3> QED BY Zenon, <2>3, <3>1 DEF Visited, Reached, Passes
  <2>4. CASE step = "calls"
    <3>1. work[known[m]].kind \in {"type", "call"}
      BY Zenon, <2>1, <2>2, <2>4 DEF Passes, Reached, OfKind, Is, Kinds
    <3> QED BY Zenon, <2>4, <3>1 DEF Visited, Reached, Passes
  <2>5. CASE step = "consteval"
    <3>1. work[known[m]].kind # "assert"
      BY Zenon, <2>1, <2>2, <2>5 DEF Passes, Reached, OfKind, Is
    <3> QED BY Zenon, <2>5, <3>1 DEF Visited, Reached, Passes, Is
  <2>6. CASE step \notin {"types", "calls", "consteval"}
    BY Zenon, <2>6 DEF Visited, Reached, Passes
  <2> QED BY Zenon, <2>3, <2>4, <2>5, <2>6
<1> QED BY Zenon, <1>1, <1>2, <1>3, <1>5, <1>6, <1>7, <1>9, <1>10

\* The end of a step changes no verdict: in a quiet iteration nothing new is bound.
LEMMA PassesKeepsVerdicts ==
  ASSUME TypeInv, BoundInv, QuietInv, FinishedInv, Passes
  PROVE  TypeInv' /\ BoundInv' /\ QuietInv' /\ FinishedInv'
<1>1. UNCHANGED <<work, known, done, n, stale, count, pending_diags, iterations>>
  BY Zenon DEF Passes
<1>2. TypeInv'
  BY <1>1, Zenon DEF TypeInv, WellFormed, Passes, Is
<1>3. BoundInv'
  BY Zenon, <1>1 DEF BoundInv, Passes, Is
<1>4. QuietInv'
  <2> SUFFICES ASSUME Quiet
               PROVE  /\ n' = Len(known') /\ stale' = FALSE
                      /\ \A m \in 1 .. n' : Visited(m)' => Stuck(known[m])'
                      /\ \A j \in pending_diags' : j \notin done' /\ work'[j].outcome # "silent"
                      /\ total_pending' > 0 => \E m \in 1 .. n' : known'[m] \notin done'
    BY Zenon, PassesFacts DEF QuietInv
  <2>1. bindings' = bindings
    BY Zenon, PassesFacts
  <2>2. \A j : Stuck(j)' = Stuck(j)
    BY <1>1, <2>1 DEF Stuck, Ready, Usable, Is, Resolvable
  <2>3. ASSUME NEW m \in 1 .. n', Visited(m)' PROVE Stuck(known[m])'
    <3>1. Visited(m) /\ m \in 1 .. n
      BY Zenon, <1>1, <2>3, PassesFacts DEF QuietInv
    <3>2. PICK j : j = known[m]
      BY Zenon
    <3>3. Stuck(j)
      BY Zenon, <3>1, <3>2 DEF QuietInv
    <3> QED BY Zenon, <1>1, <2>2, <3>2, <3>3
  <2> QED BY Zenon, <1>1, <2>3, PassesFacts DEF QuietInv
<1>5. FinishedInv'
  <2> SUFFICES ASSUME total_pending = 0, NEW m \in 1 .. n, Visited(m)'
               PROVE  Finished(known[m])'
    BY Zenon, <1>1, PassesFacts DEF FinishedInv
  <2>1. PICK j : j = known[m]
    BY Zenon
  <2>2. m \in 1 .. Len(known)
    BY DEF TypeInv, WellFormed
  <2>3. Finished(j) /\ (step = "consteval" => ~Is(j, "assert"))
    BY Zenon, <2>1, <2>2, PassesFacts DEF FinishedInv
  <2>4. step # "consteval" => Ready(j)' = Ready(j)
    <3>1. ASSUME step # "consteval" PROVE bindings' = bindings
      BY Zenon, <3>1, PassesFacts
    <3> QED BY Zenon, <3>1, <1>1 DEF Ready, Usable, Is
  <2>5. Finished(j)'
    BY Zenon, <2>3, <2>4, <1>1 DEF Finished, Is
  <2> QED BY Zenon, <1>1, <2>1, <2>5
<1> QED BY Zenon, <1>2, <1>3, <1>4, <1>5

\* The end of a step keeps a program that can be finished on its way.
LEMMA PassesKeepsSolvable ==
  ASSUME TypeInv, TodoInv, BoundInv, SolvableInv, Passes
  PROVE  SolvableInv'
<1>1. UNCHANGED <<work, known, done, n, stale, count, pending_diags, iterations>>
  BY Zenon DEF Passes
<1>2. Plain' = Plain /\ Rankings' = Rankings
  BY Zenon, <1>1 DEF Plain, Rankings
<1> SUFFICES ASSUME Plain
             PROVE  /\ n' = Len(known') /\ CallInv'
                    /\ AssertDiags' # {} => count.asserts_pending' > 0
                    /\ \A rank \in Rankings :
                         RankInv(rank)' /\ (total_pending' > 0 => iterations' < Len(known'))
  BY Zenon, <1>2 DEF SolvableInv
<1>3. /\ n = Len(known) /\ CallInv
      /\ AssertDiags # {} => count.asserts_pending > 0
      /\ \A rank \in Rankings : RankInv(rank) /\ (total_pending > 0 => iterations < Len(known))
  BY Zenon DEF SolvableInv
<1>4. ASSUME NEW rank \in Rankings PROVE RankInv(rank)'
  BY Zenon, <1>1, <1>3, PassesFacts DEF RankInv
<1>5. CallInv'
  <2>1. ASSUME NEW m \in 1 .. Len(known), Is(known[m], "call")
        PROVE  /\ m < iterations \/ (m = iterations /\ stale) => known[m] \in done
               /\ ~stale /\ m \notin todo' => known[m] \in done
    <3>1. m < iterations \/ (m = iterations /\ stale) => known[m] \in done
      BY <1>3, <2>1, Zenon DEF CallInv
    <3>2. ASSUME ~stale, m \notin todo' PROVE known[m] \in done
      <4>1. step # "types" /\ m \notin todo
        BY Zenon, <2>1, <3>2 DEF Passes, OfKind
      <4> QED BY <1>3, <2>1, <3>2, <4>1, Zenon DEF CallInv
    <3> QED BY Zenon, <3>1, <3>2
  <2>2. step' = "calls" => ~stale
    BY Zenon, <1>3 DEF CallInv, Passes, TypeInv, AllSteps, Ends
  <2>3. step' # "types"
    BY Zenon DEF Passes
  <2> QED BY Zenon, <1>1, <2>1, <2>2, <2>3 DEF CallInv, Is
<1> QED BY Zenon, <1>1, <1>3, <1>4, <1>5, PassesFacts

\* The four ends of a step in run_compile_time_engine.
LEMMA StepEnds ==
  ASSUME IInv, \/ EndStep("types", "calls", "call")
               \/ EndStep("calls", "consteval", "consteval")
               \/ EndStep("consteval", "asserts", "assert")
               \/ EndAsserts
  PROVE  Passes /\ ~Stopped /\ ~Stopped' /\ diagnostics' = diagnostics
<1>1. CASE EndStep("types", "calls", "call")
  BY <1>1, Zenon DEF EndStep, Passes, AllSteps, Ends, Stopped
<1>2. CASE EndStep("calls", "consteval", "consteval")
  BY <1>2, Zenon DEF EndStep, Passes, AllSteps, Ends, Stopped
<1>3. CASE EndStep("consteval", "asserts", "assert")
  BY <1>3, Zenon DEF EndStep, Passes, AllSteps, Ends, Stopped, sync_global_const_bindings
<1>4. CASE EndAsserts
  BY Zenon, <1>4 DEF EndAsserts, Passes, AllSteps, Ends, Stopped, lists
<1> QED BY Zenon, <1>1, <1>2, <1>3, <1>4

\* The three ends of the loop in run_compile_time_engine.
LEMMA EngineStops ==
  ASSUME IInv, Converge \/ Irreducible \/ GiveUp
  PROVE  Passes /\ step = "decide" /\ Stopped'
<1>1. step = "decide" /\ todo = {}
  BY Zenon DEF Converge, Irreducible, GiveUp, IInv, TodoInv
<1>2. /\ UNCHANGED <<work, lists, todo, n, stale, count, pending_diags, iterations>>
      /\ step' \in Ends
  BY Zenon DEF Converge, Irreducible, GiveUp, Stop, Ends
<1> QED BY Zenon, <1>1, <1>2 DEF Passes, lists, AllSteps, Stopped, Ends

\* What ends a step keeps the invariant, if what it stops with is as it should be.
LEMMA PassesKeepsIInv ==
  ASSUME IInv, Passes, StopInv'
  PROVE  IInv'
BY PassesKeepsVerdicts, PassesKeepsSolvable, PassesFacts, Zenon DEF IInv

\* The end of a step keeps the invariant.
LEMMA StepEndKeepsIInv ==
  ASSUME IInv, \/ EndStep("types", "calls", "call")
               \/ EndStep("calls", "consteval", "consteval")
               \/ EndStep("consteval", "asserts", "assert")
               \/ EndAsserts
  PROVE  IInv'
<1>1. Passes /\ ~Stopped /\ ~Stopped' /\ diagnostics' = diagnostics
  BY Zenon, StepEnds
<1>2. StopInv'
  BY Zenon, <1>1 DEF IInv, StopInv, Stopped, Ends
<1> QED BY Zenon, <1>1, <1>2, PassesKeepsIInv

\* The end of the loop keeps the invariant.
LEMMA StopKeepsIInv ==
  ASSUME IInv, Converge \/ Irreducible \/ GiveUp
  PROVE  IInv'
<1>1. Passes /\ step = "decide" /\ Stopped'
  BY Zenon, EngineStops
<1>2. /\ Quiet' = Quiet /\ total_pending' = total_pending /\ AssertDiags' = AssertDiags
      /\ UNCHANGED <<pending_diags, iterations, count>>
  BY Zenon, <1>1, PassesFacts DEF IInv, Passes
<1>3. diagnostics = {}
  BY Zenon, <1>1 DEF IInv, StopInv, Stopped, Ends
<1>4. ASSUME Converge PROVE IInv'
  <2>1. StopInv'
    BY Zenon, <1>1, <1>2, <1>4 DEF Converge, Stop, StopInv
  <2> QED BY Zenon, <1>1, <2>1, PassesKeepsIInv
<1>5. CASE Irreducible
  <2>1. Quiet
    <3>1. ASSUME NEW c \in Moves PROVE ~ (count[c] > 0)
      BY Zenon, <1>5, <3>1 DEF Irreducible, made_progress, Moves
    <3>2. \A c \in Moves : count[c] \in Nat
      BY Zenon DEF IInv, TypeInv, Moves, Counters
    <3> QED BY <3>1, <3>2 DEF Quiet
  <2>2. step' = "irreducible" /\ total_pending > 0 /\ diagnostics' = pending_diags
    BY Zenon, <1>3, <1>5 DEF Irreducible, Stop, CollectedDiags
  <2>3. StopInv'
    BY Zenon, <1>1, <1>2, <2>1, <2>2 DEF StopInv
  <2> QED BY Zenon, <1>1, <2>3, PassesKeepsIInv
<1>6. CASE GiveUp
  <2>1. step' = "gave up" /\ total_pending > 0 /\ iterations = kMaxIterations
    BY Zenon, <1>6 DEF GiveUp, Stop
  <2>2. StopInv'
    BY Zenon, <1>1, <1>2, <2>1 DEF StopInv
  <2> QED BY Zenon, <1>1, <2>2, PassesKeepsIInv
<1> QED BY Zenon, <1>4, <1>5, <1>6

\* A new iteration starts with nothing visited and nothing counted, and what the
\* last one has finished can be used.
LEMMA NextIterationKeepsIInv ==
  ASSUME IInv, NextIteration
  PROVE  IInv'
<1>1. /\ step = "decide" /\ todo = {} /\ UNCHANGED <<work, known, done, bindings, diagnostics>>
      /\ step' = "types" /\ todo' = OfKind("type") /\ n' = Len(known) /\ stale' = FALSE
      /\ count' = NoCounts /\ pending_diags' = {}
      /\ iterations' = iterations + 1 /\ iterations < kMaxIterations
  BY Zenon DEF NextIteration, IInv, TodoInv, CountIteration, lists
<1>2. Len(known) \in Nat /\ iterations \in Nat /\ kMaxIterations \in Nat
  BY EngineAssumption DEF IInv, TypeInv, WellFormed
<1>3. TypeInv'
  <2>1. WellFormed'
    BY Zenon, <1>1 DEF IInv, TypeInv, WellFormed, Is
  <2>2. NoCounts \in [Counters -> Nat]
    BY Zenon DEF NoCounts
  <2>3. n' \in 0 .. Len(known') /\ iterations' \in 1 .. kMaxIterations
    BY <1>1, <1>2 DEF IInv, TypeInv
  <2>4. step' \in AllSteps
    BY Zenon, <1>1 DEF AllSteps
  <2> QED BY Zenon, <1>1, <2>1, <2>2, <2>3, <2>4 DEF IInv, TypeInv, Is
<1>4. TodoInv'
  BY Zenon, <1>1 DEF TodoInv, OfKind, Is, Ends
<1>5. BoundInv /\ bindings = {i \in done : Is(i, "consteval")}
  BY Zenon, <1>1 DEF IInv, BoundInv
<1>6. BoundInv'
  BY Zenon, <1>1, <1>5 DEF BoundInv, Is
<1>7. \A m \in 1 .. Len(known) : ~Visited(m)'
  BY Zenon, <1>1 DEF Visited, Reached, OfKind, Is
<1>8. total_pending' = 0
  BY <1>1 DEF total_pending, NoCounts, Counters
<1>9. QuietInv'
  BY <1>1, <1>7, <1>8 DEF QuietInv
<1>10. FinishedInv'
  BY Zenon, <1>1, <1>7 DEF FinishedInv
<1>11. StopInv'
  BY Zenon, <1>1 DEF IInv, StopInv, Stopped, Ends
<1>12. SolvableInv'
  <2>1. Plain' = Plain /\ Rankings' = Rankings
    BY Zenon, <1>1 DEF Plain, Rankings
  <2>2. SUFFICES ASSUME Plain
                 PROVE  CallInv' /\ \A rank \in Rankings : RankInv(rank)'
    BY <1>1, <1>8, <2>1 DEF SolvableInv, AssertDiags
  <2>3. CallInv /\ \A rank \in Rankings : RankInv(rank)
    BY Zenon, <2>2 DEF IInv, SolvableInv
  <2>4. ASSUME NEW m \in 1 .. Len(known), Is(known[m], "call"), m < iterations + 1
        PROVE  known[m] \in done
    <3>1. m < iterations \/ m = iterations
      BY <1>2, <2>4
    <3>2. step # "types" /\ m \notin todo
      BY Zenon, <1>1
    <3> QED BY <2>3, <2>4, <3>1, <3>2, Zenon DEF CallInv
  <2>5. ASSUME NEW rank \in Rankings, NEW m \in 1 .. Len(known),
               Is(known[m], "type") \/ Is(known[m], "consteval"), rank[known[m]] < iterations + 1
        PROVE  known[m] \in Usable
    <3>1. known[m] \in Range(known) /\ work[known[m]].outcome = "ok" /\ rank[known[m]] \in Nat
      BY <2>2, <2>5 DEF IInv, TypeInv, WellFormed, Range, Plain, Rankings
    <3>2. rank[known[m]] < iterations \/ rank[known[m]] = iterations
      BY <1>2, <2>5, <3>1
    <3>3. Visited(m)
      BY Zenon, <1>1 DEF Visited, Reached
    <3>4. CASE rank[known[m]] < iterations
      BY Zenon, <2>3, <2>5, <3>4 DEF RankInv
    <3>5. CASE rank[known[m]] = iterations
      <4>1. known[m] \in done
        BY Zenon, <2>3, <2>5, <3>3, <3>5 DEF RankInv
      <4> QED BY Zenon, <1>5, <3>1, <4>1 DEF Usable
    <3> QED BY Zenon, <3>2, <3>4, <3>5
  <2>6. Usable' = Usable
    BY Zenon, <1>1 DEF Usable, Is
  <2>7. ASSUME NEW rank \in Rankings PROVE RankInv(rank)'
    BY Zenon, <1>1, <1>7, <2>5, <2>6 DEF RankInv, Is
  <2>8. CallInv'
    BY Zenon, <1>1, <2>4 DEF CallInv, Is
  <2> QED BY Zenon, <2>7, <2>8
<1> QED BY Zenon, <1>3, <1>4, <1>6, <1>9, <1>10, <1>11, <1>12 DEF IInv

-----------------------------------------------------------------------------
\* The engine starts in the invariant.
LEMMA InitEstablishesIInv == Init => IInv
<1> SUFFICES ASSUME Init PROVE IInv
  BY Zenon
<1>1. /\ WellFormed /\ done = {} /\ bindings = {} /\ step = "types" /\ todo = OfKind("type")
      /\ n = Len(known) /\ stale = FALSE /\ count = NoCounts /\ pending_diags = {}
      /\ iterations = 1 /\ diagnostics = {} /\ Len(known) \in Nat
  BY DEF Init, Start, WellFormed
<1>2. \A m \in 1 .. Len(known) : ~Visited(m)
  BY Zenon, <1>1 DEF Visited, Reached, OfKind, Is
<1>3. count \in [Counters -> Nat] /\ total_pending = 0
  BY <1>1 DEF NoCounts, total_pending, Counters
<1>4. iterations \in 1 .. kMaxIterations
  BY <1>1, EngineAssumption
<1>5. TypeInv
  <2>1. n \in 0 .. Len(known)
    BY <1>1
  <2>2. step \in AllSteps
    BY Zenon, <1>1 DEF AllSteps
  <2>3. stale \in BOOLEAN
    BY <1>1, Zenon
  <2> QED BY <1>1, <1>3, <1>4, <2>1, <2>2, <2>3, Zenon DEF TypeInv
<1>6. TodoInv /\ BoundInv /\ StopInv
  BY Zenon, <1>1 DEF TodoInv, BoundInv, StopInv, Stopped, Ends
<1>7. QuietInv /\ FinishedInv
  BY <1>1, <1>2, <1>3 DEF QuietInv, FinishedInv
<1>8. SolvableInv
  <2>1. CallInv
    BY <1>1 DEF CallInv
  <2>2. ASSUME NEW rank \in Rankings, NEW m \in 1 .. Len(known)
        PROVE  ~ (rank[known[m]] < iterations)
    <3>1. known[m] \in Range(known)
      BY <1>1 DEF WellFormed, Range
    <3>2. rank[known[m]] \in 1 .. Len(known)
      BY Zenon, <3>1 DEF Rankings
    <3> QED BY <1>1, <3>2
  <2>3. AssertDiags = {}
    BY Zenon, <1>1 DEF AssertDiags
  <2> QED BY <1>1, <1>2, <1>3, <2>1, <2>2, <2>3 DEF SolvableInv, RankInv
<1> QED BY Zenon, <1>5, <1>6, <1>7, <1>8 DEF IInv

\* A step of something else keeps the invariant.
LEMMA StutterKeepsIInv == IInv /\ UNCHANGED vars => IInv'
<1> SUFFICES ASSUME IInv, UNCHANGED vars PROVE IInv'
  BY Zenon
<1>1. UNCHANGED <<work, known, done, bindings, step, todo, n, stale, count, pending_diags,
                  prev, iterations, diagnostics>>
  BY Zenon DEF vars, lists
<1>2. TypeInv' /\ TodoInv' /\ BoundInv' /\ StopInv'
  <2>1. TypeInv'
    BY Zenon, <1>1 DEF IInv, TypeInv, WellFormed, Is
  <2>2. TodoInv' /\ BoundInv'
    BY Zenon, <1>1 DEF IInv, TodoInv, BoundInv, OfKind, Is
  <2>3. StopInv'
    BY Zenon, <1>1 DEF IInv, StopInv, Stopped, Quiet, total_pending, AssertDiags, Is
  <2> QED BY Zenon, <2>1, <2>2, <2>3
<1>3. QuietInv' /\ FinishedInv'
  <2>1. \A k : Visited(k)' = Visited(k)
    BY Zenon, <1>1 DEF Visited, Reached
  <2>2. \A i : Stuck(i)' = Stuck(i) /\ Finished(i)' = Finished(i)
    <3>1. \A i : Ready(i)' = Ready(i) /\ Resolvable(i)' = Resolvable(i)
                 /\ \A kind : Is(i, kind)' = Is(i, kind)
      BY Zenon, <1>1 DEF Ready, Usable, Resolvable, Is
    <3> QED BY <1>1, <3>1, Zenon DEF Stuck, Finished
  <2>3. Quiet' = Quiet /\ total_pending' = total_pending
    BY <1>1, Zenon DEF Quiet, total_pending
  <2>4. \A k : Stuck(known[k])' = Stuck(known[k]) /\ Finished(known[k])' = Finished(known[k])
    BY Zenon, <1>1, <2>2
  <2> QED BY <1>1, <2>1, <2>3, <2>4, Zenon DEF IInv, QuietInv, FinishedInv
<1>4. SolvableInv'
  <2>1. Plain' = Plain /\ Rankings' = Rankings /\ AssertDiags' = AssertDiags
    BY Zenon, <1>1 DEF Plain, Rankings, AssertDiags, Is
  <2>2. CallInv' = CallInv
    BY Zenon, <1>1 DEF CallInv, Is
  <2>3. \A rank : RankInv(rank)' = RankInv(rank)
    <3>1. Usable' = Usable /\ \A k : Visited(k)' = Visited(k)
      BY Zenon, <1>1 DEF Usable, Visited, Reached, Is
    <3> QED BY Zenon, <1>1, <3>1 DEF RankInv, Is
  <2>4. total_pending' = total_pending
    BY Zenon, <1>1 DEF total_pending
  <2> QED BY Zenon, <1>1, <2>1, <2>2, <2>3, <2>4 DEF IInv, SolvableInv
<1> QED BY Zenon, <1>2, <1>3, <1>4 DEF IInv

\* Every step of the engine keeps the invariant.
LEMMA NextKeepsIInv == IInv /\ [Next]_vars => IInv'
<1> SUFFICES ASSUME IInv, [Next]_vars PROVE IInv'
  BY Zenon
<1>1. ASSUME NEW i \in Item, VisitAction(i) PROVE IInv'
  BY Zenon, <1>1, VisitKeepsIInv
<1>2. CASE \/ EndStep("types", "calls", "call") \/ EndStep("calls", "consteval", "consteval")
           \/ EndStep("consteval", "asserts", "assert") \/ EndAsserts
  BY Zenon, <1>2, StepEndKeepsIInv
<1>3. CASE Converge \/ Irreducible \/ GiveUp
  BY Zenon, <1>3, StopKeepsIInv
<1>4. CASE NextIteration
  BY Zenon, <1>4, NextIterationKeepsIInv
<1>5. CASE UNCHANGED vars
  BY Zenon, <1>5, StutterKeepsIInv
<1> QED BY <1>1, <1>2, <1>3, <1>4, <1>5, Zenon DEF Next, VisitAction

\* Every state of the engine satisfies the invariant, whatever the work is.
THEOREM IInvHolds == Spec => []IInv
BY InitEstablishesIInv, NextKeepsIInv, PTL DEF Spec

-----------------------------------------------------------------------------
\* When the loop ends, every item that is known has had its turn.
LEMMA AllVisited ==
  ASSUME IInv, Stopped, NEW i \in Range(known)
  PROVE  \E k \in 1 .. Len(known) : i = known[k] /\ Visited(k)
<1>1. PICK k \in 1 .. Len(known) : i = known[k]
  BY DEF IInv, TypeInv, WellFormed, Range
<1>2. Visited(k)
  BY Zenon DEF IInv, TodoInv, Visited, Reached, Stopped, Ends
<1> QED BY Zenon, <1>1, <1>2

\* When the loop stops for lack of progress, every known item is stuck.
LEMMA IrreducibleIsStuck ==
  ASSUME IInv, step = "irreducible"
  PROVE  /\ \A i \in Range(known) : Stuck(i)
         /\ bindings = {i \in done : Is(i, "consteval")}
         /\ diagnostics = pending_diags /\ total_pending > 0
         /\ \A i \in pending_diags : i \notin done /\ work[i].outcome # "silent"
         /\ \E i \in Range(known) : i \notin done
<1>1. Stopped /\ Quiet /\ total_pending > 0 /\ diagnostics = pending_diags
  BY Zenon DEF IInv, StopInv, Stopped, Ends
<1>2. /\ n = Len(known)
      /\ \A k \in 1 .. n : Visited(k) => Stuck(known[k])
      /\ \A i \in pending_diags : i \notin done /\ work[i].outcome # "silent"
      /\ \E k \in 1 .. n : known[k] \notin done
  BY Zenon, <1>1 DEF IInv, QuietInv
<1>3. \A i \in Range(known) : Stuck(i)
  BY <1>1, <1>2, AllVisited, Zenon
<1>4. \E i \in Range(known) : i \notin done
  <2>1. DOMAIN known = 1 .. Len(known)
    BY DEF IInv, TypeInv, WellFormed
  <2> QED BY Zenon, <1>2, <2>1 DEF Range
<1>5. bindings = {i \in done : Is(i, "consteval")}
  BY Zenon DEF IInv, BoundInv
<1> QED BY Zenon, <1>1, <1>2, <1>3, <1>4, <1>5

\* When the loop stops for lack of progress, another iteration would change
\* nothing: no known item can be finished, no blocked type has new work to record
\* and no static_assert can be evaluated.
THEOREM LackOfProgressIsAFixpoint == Spec => []NoProgressIsFixpoint
<1>1. IInv => NoProgressIsFixpoint
  <2> SUFFICES ASSUME IInv, step = "irreducible"
               PROVE  /\ \A i \in Open : ~Resolvable(i)
                      /\ \A i \in Open : Is(i, "type") => work[i].spawns \subseteq Range(known)
                      /\ \A i \in Range(known) :
                           Is(i, "assert") => work[i].outcome = "fails" \/ ~Ready(i)
    BY Zenon DEF NoProgressIsFixpoint
  <2> QED BY IrreducibleIsStuck, Zenon DEF Stuck, Open
<1> QED BY <1>1, IInvHolds, PTL

\* The diagnostics of an irreducible set are exactly its open items, but for the
\* calls of consteval templates, and the static assertions.
THEOREM IrreducibleSetIsReported == Spec => []IrreducibleIsReported
<1>1. IInv => IrreducibleIsReported
  <2> SUFFICES ASSUME IInv, step = "irreducible"
               PROVE  pending_diags = {i \in Open : work[i].outcome # "silent"}
                                        \cup {i \in Range(known) : Is(i, "assert")}
    BY Zenon, IrreducibleIsStuck DEF IrreducibleIsReported
  <2>1. ASSUME NEW i \in Range(known), Is(i, "assert") PROVE i \in pending_diags
    BY Zenon, <2>1, IrreducibleIsStuck DEF Stuck
  <2>2. ASSUME NEW i \in Open, work[i].outcome # "silent" PROVE i \in pending_diags
    BY Zenon, <2>2, IrreducibleIsStuck DEF Stuck, Open
  <2>3. ASSUME NEW i \in pending_diags, ~Is(i, "assert")
        PROVE  i \in Open /\ work[i].outcome # "silent"
    BY Zenon, <2>3, IrreducibleIsStuck DEF Open, IInv, TypeInv
  <2>4. pending_diags \subseteq Range(known) /\ Open \subseteq Range(known)
    BY Zenon DEF IInv, TypeInv, Open
  <2> QED BY <2>1, <2>2, <2>3, <2>4, Zenon
<1> QED BY <1>1, IInvHolds, PTL

\* What converges has finished all its iteration began with: types, functions,
\* constants and assertions, unless the iteration walked a reallocated expr_pool.
THEOREM ConvergenceCoversThePass == Spec => []ConvergedCoversThePass
<1>1. IInv => ConvergedCoversThePass
  <2> SUFFICES ASSUME IInv, step = "converged", ~stale, NEW k \in 1 .. n
               PROVE  IF Is(known[k], "assert")
                      THEN work[known[k]].outcome = "ok" /\ Ready(known[k])
                      ELSE known[k] \in done
    BY Zenon DEF ConvergedCoversThePass
  <2>1. total_pending = 0 /\ AssertDiags = {}
    BY Zenon DEF IInv, StopInv
  <2>2. Visited(k)
    BY Zenon DEF IInv, TodoInv, Visited, Reached, Ends
  <2>3. Finished(known[k])
    BY Zenon, <2>1, <2>2 DEF IInv, FinishedInv
  <2>4. Is(known[k], "assert") => known[k] \notin pending_diags
    BY Zenon, <2>1 DEF AssertDiags
  <2> QED BY Zenon, <2>3, <2>4 DEF Finished
<1> QED BY <1>1, IInvHolds, PTL

\* Every nonempty set of naturals has a least element.
LEMMA LeastOf ==
  ASSUME NEW T \in SUBSET Nat, T # {}
  PROVE  \E m \in T : \A y \in T : m <= y
<1>1. PICK m \in T : \A y \in T : <<y, m>> \notin OpToRel(<, Nat)
  BY Zenon, NatLessThanWellFounded, WFMin
<1>2. \A y \in T : ~(y < m)
  BY <1>1, Zenon DEF OpToRel
<1> QED BY <1>2

\* In a program that can be finished, lack of progress means that nothing is open.
LEMMA SolvableIsNotStuck ==
  ASSUME IInv, Plain, NEW rank \in Rankings, step = "irreducible"
  PROVE  FALSE
<1> DEFINE Waits == {i \in Range(known) : i \notin done /\ (Is(i, "type") \/ Is(i, "consteval"))}
<1>1. /\ rank \in [Range(known) -> 1 .. Len(known)]
      /\ \A i \in Range(known) : \A j \in work[i].needs : j \in Range(known) /\ rank[j] < rank[i]
      /\ \A i \in Range(known) : i \in Item /\ work[i].outcome = "ok" /\ work[i].kind \in Kinds
      /\ \A i \in Range(known) : \A j \in work[i].needs : Is(j, "type") \/ Is(j, "consteval")
  BY DEF Rankings, Plain, IInv, TypeInv, WellFormed, Range
<1>2. ASSUME NEW i \in Range(known), \A j \in work[i].needs : j \notin Waits
      PROVE  Ready(i)
  <2>1. ASSUME NEW j \in work[i].needs PROVE j \in Usable
    <3>1. j \in Range(known) /\ (Is(j, "type") \/ Is(j, "consteval"))
      BY Zenon, <1>1
    <3>2. j \in done
      BY Zenon, <1>2, <3>1
    <3>3. Is(j, "consteval") => j \in bindings
      BY Zenon, <3>2, IrreducibleIsStuck
    <3> QED BY Zenon, <1>1, <3>1, <3>2, <3>3 DEF Usable
  <2> QED BY Zenon, <2>1 DEF Ready
<1>3. Waits = {}
  <2> SUFFICES ASSUME Waits # {} PROVE FALSE
    BY Zenon
  <2>1. {rank[i] : i \in Waits} \in SUBSET Nat /\ {rank[i] : i \in Waits} # {}
    BY <1>1
  <2>2. PICK i \in Waits : \A j \in Waits : rank[i] <= rank[j]
    <3>1. PICK m \in {rank[i] : i \in Waits} : \A y \in {rank[i] : i \in Waits} : m <= y
      BY <2>1, LeastOf, Zenon
    <3> QED BY <3>1, Zenon
  <2>3. ASSUME NEW j \in work[i].needs PROVE j \notin Waits
    <3>1. rank[j] < rank[i] /\ rank[j] \in Nat /\ rank[i] \in Nat
      BY <1>1, <2>2
    <3> QED BY <2>2, <3>1
  <2>4. Ready(i)
    BY Zenon, <1>2, <2>2, <2>3
  <2>5. Resolvable(i) /\ ~Is(i, "assert") /\ i \notin done /\ i \in Range(known)
    BY Zenon, <1>1, <2>2, <2>4 DEF Resolvable, Is
  <2>6. Stuck(i)
    BY Zenon, <2>5, IrreducibleIsStuck
  <2> QED BY Zenon, <2>5, <2>6 DEF Stuck
<1>4. PICK i \in Range(known) : i \notin done
  BY Zenon, IrreducibleIsStuck
<1>5. Ready(i) /\ Stuck(i)
  BY Zenon, <1>2, <1>3, IrreducibleIsStuck
<1>6. Is(i, "call") \/ Is(i, "assert")
  BY Zenon, <1>1, <1>3, <1>4 DEF Kinds, Is
<1>7. CASE Is(i, "call")
  BY Zenon, <1>1, <1>4, <1>5, <1>7 DEF Stuck, Resolvable, Is
<1>8. CASE Is(i, "assert")
  BY Zenon, <1>1, <1>5, <1>8 DEF Stuck
<1> QED BY Zenon, <1>6, <1>7, <1>8

\* Its ranks fit the iteration limit, and its assertions hold.
LEMMA SolvableIsNotGivenUp ==
  ASSUME IInv, Plain, NEW rank \in Rankings, Len(known) <= kMaxIterations
  PROVE  step # "gave up" /\ step # "asserts failed"
<1>1. /\ AssertDiags # {} => count.asserts_pending > 0
      /\ total_pending > 0 => iterations < Len(known)
  BY Zenon DEF IInv, SolvableInv
<1>2. Len(known) \in Nat /\ iterations \in Nat /\ kMaxIterations \in Nat
  BY EngineAssumption DEF IInv, TypeInv, WellFormed
<1>3. /\ count.types_pending \in Nat /\ count.calls_pending \in Nat
      /\ count.consteval_pending \in Nat /\ count.asserts_pending \in Nat
  BY Zenon DEF IInv, TypeInv, Counters
<1>4. ASSUME step = "gave up" PROVE FALSE
  <2>1. total_pending > 0 /\ iterations = kMaxIterations
    BY <1>4, Zenon DEF IInv, StopInv
  <2>2. iterations < Len(known)
    BY <1>1, <2>1, Zenon
  <2> QED BY <1>2, <2>1, <2>2
<1>5. ASSUME step = "asserts failed" PROVE FALSE
  <2>1. total_pending = 0 /\ AssertDiags # {}
    BY <1>5, Zenon DEF IInv, StopInv
  <2>2. count.asserts_pending > 0
    BY <1>1, <2>1, Zenon
  <2> QED BY <1>3, <2>1, <2>2 DEF total_pending
<1> QED BY Zenon, <1>4, <1>5

\* A program whose work is all known at the start, and has an order to do it in
\* that fits the iteration limit, converges; only calls that an iteration over a
\* reallocated expr_pool has overlooked may be left.
THEOREM SolvableProgramsAreFinished == Spec => []SolvableProgramsConverge
<1>1. IInv => SolvableProgramsConverge
  <2> SUFFICES ASSUME IInv, Stopped, Solvable, Len(known) <= kMaxIterations
               PROVE  step = "converged" /\ \A i \in Open : Is(i, "call")
    BY Zenon DEF SolvableProgramsConverge
  <2>1. PICK rank : rank \in Rankings
    BY Zenon DEF Solvable, Rankings
  <2>2. /\ Plain /\ n = Len(known)
        /\ AssertDiags # {} => count.asserts_pending > 0
        /\ total_pending > 0 => iterations < Len(known)
    BY <2>1, Zenon DEF Solvable, Plain, IInv, SolvableInv
  <2>3. step # "gave up" /\ step # "asserts failed"
    BY <2>1, <2>2, SolvableIsNotGivenUp, Zenon
  <2>4. step # "irreducible"
    BY Zenon, <2>1, <2>2, SolvableIsNotStuck
  <2>5. step = "converged"
    BY Zenon, <2>3, <2>4 DEF Stopped, Ends
  <2>6. ASSUME NEW i \in Open PROVE Is(i, "call")
    <3>1. i \in Range(known) /\ i \notin done /\ ~Is(i, "assert")
      BY Zenon DEF Open
    <3>2. PICK k \in 1 .. Len(known) : i = known[k] /\ Visited(k)
      BY Zenon, <3>1, AllVisited
    <3>3. Finished(i)
      BY Zenon, <2>2, <2>5, <3>2 DEF IInv, StopInv, FinishedInv
    <3> QED BY Zenon, <3>1, <3>3 DEF Finished
  <2> QED BY Zenon, <2>5, <2>6
<1> QED BY <1>1, IInvHolds, PTL
=============================================================================
