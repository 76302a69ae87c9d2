-------------------------- MODULE CompileTimeEngine --------------------------
(***************************************************************************)
(* run_compile_time_engine (hir/impl/compile_time/engine.cpp): the loop    *)
(* that finishes the compile-time work lowering has left behind.  Every    *)
(* iteration visits the pending template types, the template calls, the    *)
(* pending consteval expressions and the static assertions that are known  *)
(* when the step begins, and then decides whether to go on.                *)
(*                                                                         *)
(* An item of work is one pending type, one instantiation that is called,  *)
(* one pending consteval expression or one static_assert.  What lowering   *)
(* and constant evaluation make of it is given by work: its kind, the      *)
(* items it needs, the items it spawns, and its outcome:                   *)
(* ok; missing (no template is registered); fails (a member that does not  *)
(* exist, an expression that is not constant); silent (a call of a         *)
(* consteval template); false (a static_assert).                           *)
(***************************************************************************)
EXTENDS Naturals, Sequences, FiniteSets, Functions

CONSTANTS Item, kMaxIterations

ASSUME EngineAssumption == IsFiniteSet(Item) /\ kMaxIterations \in Nat \ {0}

VARIABLES
  work,            \* what each item is
  known,           \* the items recorded so far, in the order of the lists
  done,            \* resolved types, lowered functions, evaluated expressions
  bindings,        \* the evaluated expressions whose constants are bound
  step, todo,      \* the step that runs, the places in known it has yet to visit
  n,               \* the number of items when the iteration began
  stale,           \* expr_pool has grown under the loop over it
  count,           \* what the steps of the iteration have counted
  pending_diags,   \* the items the iteration has a diagnostic for
  prev,            \* the pending counts of the iteration before
  iterations,
  diagnostics      \* the items the engine reports

lists == <<known, done, bindings>>
vars == <<work, lists, step, todo, n, stale, count, pending_diags, prev, iterations,
          diagnostics>>

Ends == {"converged", "asserts failed", "irreducible", "gave up"}

Counters == {"types_pending", "types_completed", "types_spawned", "calls_pending",
             "instantiated", "consteval_pending", "evaluated", "asserts_pending",
             "asserts_resolved"}

\* No count of pending items reaches SIZE_MAX.
SizeMax == Cardinality(Item) + 1

Kinds == {"type", "call", "consteval", "assert"}
Outcomes == {"ok", "missing", "fails", "silent", "false"}

Is(i, kind) == work[i].kind = kind
OfKind(kind) == {k \in 1 .. Len(known) : Is(known[k], kind)}

\* Only types and constants are waited for, and only a call is left out silently.
WellFormed ==
  /\ known \in Seq(Item)
  /\ work \in [Item -> [kind : Kinds, needs : SUBSET Item, spawns : SUBSET Item,
                        outcome : Outcomes]]
  /\ \A i \in Item : \A j \in work[i].needs : Is(j, "type") \/ Is(j, "consteval")
  /\ \A i \in Item : work[i].outcome = "silent" => Is(i, "call")

NoCounts == [c \in Counters |-> 0]

Start ==
  /\ done = {} /\ bindings = {}
  /\ step = "types" /\ todo = OfKind("type")
  /\ n = Len(known) /\ stale = FALSE
  /\ count = NoCounts /\ pending_diags = {}
  /\ prev = [p \in {"templates", "consteval"} |-> SizeMax]
  /\ iterations = 1
  /\ diagnostics = {}

Init == WellFormed /\ Start

\* A constant that depends on a global sees its value once it is bound.
Usable ==
  {j \in done : work[j].outcome = "ok" /\ (Is(j, "consteval") => j \in bindings)}
Ready(i) == work[i].needs \subseteq Usable

Visit(s, i) ==
  /\ step = s
  /\ \E k \in todo :
       /\ \A m \in todo : k <= m
       /\ i = known[k]
       /\ todo' = todo \ {k}

Counting(counters) ==
  count' = [c \in Counters |-> count[c] + (IF c \in counters THEN 1 ELSE 0)]

\* What is not recorded yet is appended, in the order in which lowering meets it.
New(items) == items \ Range(known)
Record(items) ==
  known' \in {known \o s : s \in {f \in [1 .. Cardinality(New(items)) -> New(items)] :
                                   Range(f) = New(items)}}

Iteration == <<work, step, n, prev, iterations, diagnostics>>

-----------------------------------------------------------------------------
\* PendingTemplateTypeStep and Lowerer::instantiate_deferred_template_type.

TypeIsResolved(i) ==
  /\ Visit("types", i)
  /\ i \in done
  /\ UNCHANGED <<Iteration, lists, stale, count, pending_diags>>

\* There is no primary template: nothing is spawned.
TypeHasNoPrimary(i) ==
  /\ Visit("types", i)
  /\ i \notin done /\ work[i].outcome = "missing"
  /\ done' = done \cup {i}
  /\ Counting({"types_completed"})
  /\ pending_diags' = pending_diags \cup {i}
  /\ UNCHANGED <<Iteration, known, bindings, stale>>

\* The work for the owner is recorded before the owner is realized.
SpawnOwner(i) == Record(work[i].spawns)

\* Every blocked result of the lowerer carries a diagnostic; the empty one of an
\* engine without a callback is left out.
TypeIsBlocked(i) ==
  /\ Visit("types", i)
  /\ i \notin done /\ work[i].outcome # "missing" /\ ~Ready(i)
  /\ SpawnOwner(i)
  /\ Counting({"types_pending"} \cup
              (IF New(work[i].spawns) # {} THEN {"types_spawned"} ELSE {}))
  /\ pending_diags' = pending_diags \cup {i}
  /\ UNCHANGED <<Iteration, done, bindings, stale>>

\* The owner is realized; the member it is asked for may not exist.
TypeIsRealized(i) ==
  /\ Visit("types", i)
  /\ i \notin done /\ work[i].outcome # "missing" /\ Ready(i)
  /\ SpawnOwner(i)
  /\ done' = done \cup {i}
  /\ Counting({"types_completed"})
  /\ pending_diags' = IF work[i].outcome = "ok" THEN pending_diags
                      ELSE pending_diags \cup {i}
  /\ UNCHANGED <<Iteration, bindings, stale>>

-----------------------------------------------------------------------------
\* TemplateInstantiationStep and Lowerer::instantiate_deferred_template.

CallIsResolved(i) ==
  /\ Visit("calls", i)
  /\ i \in done
  /\ UNCHANGED <<Iteration, lists, stale, count, pending_diags>>

\* The body that is lowered appends its own calls, types and constants.
Instantiate(i) ==
  /\ Visit("calls", i)
  /\ i \notin done /\ work[i].outcome = "ok"
  /\ done' = done \cup {i}
  /\ Record(work[i].spawns)
  /\ stale' = TRUE
  /\ Counting({"instantiated"})
  /\ UNCHANGED <<Iteration, bindings, pending_diags>>

\* No definition, or a consteval template: the latter has no diagnostic.
CallIsPending(i) ==
  /\ Visit("calls", i)
  /\ i \notin done /\ work[i].outcome # "ok"
  /\ Counting({"calls_pending"})
  /\ pending_diags' = IF work[i].outcome = "silent" THEN pending_diags
                      ELSE pending_diags \cup {i}
  /\ UNCHANGED <<Iteration, lists, stale>>

\* The loop holds iterators into expr_pool.  Once an instantiation has made the
\* vector reallocate, a later element may read as no call at all, or as a call
\* whose names are gone.
CallIsMisread(i) ==
  /\ Visit("calls", i)
  /\ stale
  /\ \/ UNCHANGED <<count, pending_diags>>
     \/ Counting({"calls_pending"}) /\ pending_diags' = pending_diags \cup {i}
  /\ UNCHANGED <<Iteration, lists, stale>>

-----------------------------------------------------------------------------
\* PendingConstevalEvalStep.

ConstevalIsReduced(i) ==
  /\ Visit("consteval", i)
  /\ i \in done
  /\ UNCHANGED <<Iteration, lists, stale, count, pending_diags>>

Evaluate(i) ==
  /\ Visit("consteval", i)
  /\ i \notin done /\ work[i].outcome = "ok" /\ Ready(i)
  /\ done' = done \cup {i}
  /\ Counting({"evaluated"})
  /\ UNCHANGED <<Iteration, known, bindings, stale, pending_diags>>

ConstevalIsPending(i) ==
  /\ Visit("consteval", i)
  /\ i \notin done /\ (work[i].outcome # "ok" \/ ~Ready(i))
  /\ Counting({"consteval_pending"})
  /\ pending_diags' = pending_diags \cup {i}
  /\ UNCHANGED <<Iteration, lists, stale>>

-----------------------------------------------------------------------------
\* StaticAssertStep: every assertion is evaluated anew in every iteration.

AssertIsEvaluated(i) ==
  /\ Visit("asserts", i)
  /\ work[i].outcome # "fails" /\ Ready(i)
  /\ Counting({"asserts_resolved"})
  /\ pending_diags' = IF work[i].outcome = "ok" THEN pending_diags
                      ELSE pending_diags \cup {i}
  /\ UNCHANGED <<Iteration, lists, stale>>

AssertIsPending(i) ==
  /\ Visit("asserts", i)
  /\ work[i].outcome = "fails" \/ ~Ready(i)
  /\ Counting({"asserts_pending"})
  /\ pending_diags' = pending_diags \cup {i}
  /\ UNCHANGED <<Iteration, lists, stale>>

-----------------------------------------------------------------------------
\* run_compile_time_engine.

\* Mutant: the constants of the globals are not bound again.
NeverSynced == UNCHANGED bindings

sync_global_const_bindings == bindings' = {i \in done : Is(i, "consteval")}

\* The reductions recorded by lowering and by Evaluate hold when they are
\* verified, so that step counts nothing pending.
EndStep(s, next, kind) ==
  /\ step = s /\ todo = {}
  /\ step' = next /\ todo' = OfKind(kind)
  /\ IF s = "consteval" THEN sync_global_const_bindings ELSE UNCHANGED bindings
  /\ UNCHANGED <<work, known, done, n, stale, count, pending_diags, prev, iterations,
                 diagnostics>>

EndAsserts ==
  /\ step = "asserts" /\ todo = {}
  /\ step' = "decide"
  /\ UNCHANGED <<work, lists, todo, n, stale, count, pending_diags, prev, iterations,
                 diagnostics>>

\* Mutant: a consteval expression that cannot be evaluated yet is not counted.
TotalWithoutConsteval == count.types_pending + count.calls_pending + count.asserts_pending

total_pending ==
  count.types_pending + count.calls_pending + count.consteval_pending
    + count.asserts_pending

cur_template_pending == count.types_pending + count.calls_pending
cur_consteval_pending == count.consteval_pending

\* Mutant: work that a blocked type has spawned is no progress.
ProgressWithoutSpawns ==
  \/ \E c \in {"types_completed", "instantiated", "evaluated", "asserts_resolved"} :
       count[c] > 0
  \/ cur_template_pending < prev["templates"]
  \/ cur_consteval_pending < prev["consteval"]

made_progress ==
  \/ \E c \in {"types_completed", "types_spawned", "instantiated", "evaluated",
               "asserts_resolved"} : count[c] > 0
  \/ cur_template_pending < prev["templates"]
  \/ cur_consteval_pending < prev["consteval"]

Stop(end, reported) ==
  /\ step' = end
  /\ diagnostics' = diagnostics \cup reported
  /\ UNCHANGED <<work, lists, todo, n, stale, count, pending_diags, prev, iterations>>

AssertDiags == {i \in pending_diags : Is(i, "assert")}

Converge ==
  /\ step = "decide" /\ total_pending = 0
  /\ Stop(IF AssertDiags = {} THEN "converged" ELSE "asserts failed", AssertDiags)

\* Mutant: the diagnostics of the consteval expressions are not collected.
TypeAndCallDiags == {i \in pending_diags : ~Is(i, "consteval")}

CollectedDiags == pending_diags

Irreducible ==
  /\ step = "decide" /\ total_pending > 0 /\ ~made_progress
  /\ Stop("irreducible", CollectedDiags)

\* Mutant: the iteration is not counted.
Uncounted == UNCHANGED iterations

CountIteration == iterations' = iterations + 1

NextIteration ==
  /\ step = "decide" /\ total_pending > 0 /\ made_progress
  /\ iterations < kMaxIterations
  /\ CountIteration
  /\ prev' = [templates |-> cur_template_pending, consteval |-> cur_consteval_pending]
  /\ step' = "types" /\ todo' = OfKind("type")
  /\ n' = Len(known) /\ stale' = FALSE
  /\ count' = NoCounts /\ pending_diags' = {}
  /\ UNCHANGED <<work, lists, diagnostics>>

\* The last iteration ends the loop and nothing is reported.
GiveUp ==
  /\ step = "decide" /\ total_pending > 0 /\ made_progress
  /\ iterations = kMaxIterations
  /\ Stop("gave up", {})

Next ==
  \/ \E i \in Item :
       \/ TypeIsResolved(i) \/ TypeHasNoPrimary(i) \/ TypeIsBlocked(i) \/ TypeIsRealized(i)
       \/ CallIsResolved(i) \/ Instantiate(i) \/ CallIsPending(i) \/ CallIsMisread(i)
       \/ ConstevalIsReduced(i) \/ Evaluate(i) \/ ConstevalIsPending(i)
       \/ AssertIsEvaluated(i) \/ AssertIsPending(i)
  \/ EndStep("types", "calls", "call")
  \/ EndStep("calls", "consteval", "consteval")
  \/ EndStep("consteval", "asserts", "assert")
  \/ EndAsserts
  \/ Converge \/ Irreducible \/ NextIteration \/ GiveUp

Fairness == WF_vars(Next)

Spec == Init /\ [][Next]_vars /\ Fairness

-----------------------------------------------------------------------------
Stopped == step \in Ends
Open == {i \in Range(known) : i \notin done /\ ~Is(i, "assert")}

\* What another iteration would finish, or fail, on the state as it is.
Resolvable(i) ==
  CASE Is(i, "type") -> work[i].outcome = "missing" \/ Ready(i)
    [] Is(i, "call") -> work[i].outcome = "ok"
    [] Is(i, "consteval") -> work[i].outcome = "ok" /\ Ready(i)

\* "No progress - we've hit an irreducible set" (engine.cpp): when the loop stops
\* for lack of progress, no item it knows can be finished, no blocked type has
\* new work to record and no static_assert can be evaluated.  Progress is judged
\* from five counters and two comparisons with the iteration before; work found
\* in the middle of an iteration must still count.
NoProgressIsFixpoint ==
  step = "irreducible" =>
    /\ \A i \in Open : ~Resolvable(i)
    /\ \A i \in Open : Is(i, "type") => work[i].spawns \subseteq Range(known)
    /\ \A i \in Range(known) : Is(i, "assert") => work[i].outcome = "fails" \/ ~Ready(i)

\* "Collect diagnostics for all pending items so the caller can report them": an
\* irreducible set is reported completely and exactly.  Calls of consteval
\* templates have no diagnostic of their own.
IrreducibleIsReported ==
  step = "irreducible" =>
    diagnostics = {i \in Open : work[i].outcome # "silent"}
                    \cup {i \in Range(known) : Is(i, "assert")}

\* A convergent run has finished everything it knew when its last iteration
\* began, provided that iteration did not walk a reallocated expr_pool: its types
\* are resolved, its functions lowered, its constants evaluated and its
\* assertions true.
ConvergedCoversThePass ==
  step = "converged" /\ ~stale =>
    \A k \in 1 .. n :
      IF Is(known[k], "assert") THEN work[known[k]].outcome = "ok" /\ Ready(known[k])
      ELSE known[k] \in done

\* Every item ends well, and the items can be ordered so that each of them needs
\* only earlier ones, all known from the start.
Solvable ==
  /\ \A i \in Range(known) : work[i].outcome = "ok" /\ work[i].spawns = {}
  /\ \E rank \in [Range(known) -> 1 .. Len(known)] :
       \A i \in Range(known) : \A j \in work[i].needs :
         j \in Range(known) /\ rank[j] < rank[i]

\* A program whose work is all known when the engine starts, and which has an
\* order to do it in that is no longer than the iteration limit, is finished:
\* neither the order of the lists, nor constants that are bound one iteration
\* late, nor the progress test ends the loop early.  The calls of an iteration
\* that walks a reallocated expr_pool may be left out.
SolvableProgramsConverge ==
  Stopped /\ Solvable /\ Len(known) <= kMaxIterations =>
    /\ step = "converged"
    /\ \A i \in Open : Is(i, "call")

\* The loop ends: static assertions make progress in every iteration, so that
\* only the iteration limit stops some programs.
Terminates == <>Stopped

\* "Convergence: no pending work remains in any step" (engine.cpp).
ConvergedMeansDone == step = "converged" => Open = {}
=============================================================================
