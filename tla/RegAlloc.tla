------------------------------ MODULE RegAlloc ------------------------------
(***************************************************************************)
(* BirPreAlloc::run_regalloc for one function: three linear scans over the *)
(* values in order of interval start, each taking registers from one pool: *)
(*   1. values that cross a call, from the callee-saved pool;              *)
(*   2. the other values, from the caller-saved pool;                      *)
(*   3. the other values still without a register, from the callee-saved   *)
(*      pool, with the list of active assignments that scan 1 left behind. *)
(* What has no register afterwards gets a stack slot.                      *)
(*                                                                         *)
(* An active-assignment record repeats its value's end point and register, *)
(* and no decision depends on the order of the list (the rank is total),   *)
(* so the lists are sets of values.  A register span is the set of         *)
(* registers it occupies; {} is "no register".                             *)
(***************************************************************************)
EXTENDS Integers, Sequences, FiniteSets

CONSTANTS
  NumValues,      \* values of the function, 1 .. NumValues by value_id
  LastPoint,      \* program points are 0 .. LastPoint
  MaxPriority,    \* priorities are 1 .. MaxPriority
  Widths,         \* register_group_width values in use
  Registers,
  CalleeSpans,    \* callee_saved_register_spans: width -> list of spans
  CallerSpans     \* caller_saved_register_spans: width -> list of spans

Value == 1 .. NumValues
Point == 0 .. LastPoint
NoPoint == -1
Span == SUBSET Registers

PoolRegisters(spans) == UNION {UNION {spans[w][k] : k \in DOMAIN spans[w]} : w \in Widths}

ASSUME SizesAssumption ==
  /\ NumValues \in Nat /\ LastPoint \in Nat /\ MaxPriority \in Nat
ASSUME SpansAssumption ==
  /\ CalleeSpans \in [Widths -> Seq((SUBSET Registers) \ {{}})]
  /\ CallerSpans \in [Widths -> Seq((SUBSET Registers) \ {{}})]
ASSUME PoolsAreDisjoint ==
  \A r \in Registers :
    ~(r \in PoolRegisters(CalleeSpans) /\ r \in PoolRegisters(CallerSpans))

\* Register: has an interval and a register class and needs no home slot.
\* HomeSlot: requires_home_slot.  Sized, Empty: no interval or no register
\* class, of a nonzero or of zero size.
Kind == {"Register", "HomeSlot", "Sized", "Empty"}

VARIABLES
  start, end,                  \* live_interval
  call_points,                 \* liveness_function.call_points
  use_points,                  \* liveness use points
  priority,                    \* priority, and spill_weight, which equals it
  width,                       \* register_group_width
  kind,
  stack_formal,                \* rv64_authorized_stack_passed_formal_needs_home
  has_dynamic_stack,
  pass,                        \* 1 .. 3: the scans, 4: slots, 5: done
  visited,                     \* values this scan has been over
  active_callee, active_caller,
  assigned_register,
  spill_register_authority,
  spill_points,
  has_stack_slot,
  spill_reload_ops

inputs == <<start, end, call_points, use_points, priority, width, kind,
            stack_formal, has_dynamic_stack>>
vars == <<inputs, pass, visited, active_callee, active_caller,
          assigned_register, spill_register_authority, spill_points,
          has_stack_slot, spill_reload_ops>>

SpillReloadOp == [op : {"Spill", "Reload"}, value : Value, point : Point,
                  span : Span]

TypeOK ==
  /\ start \in [Value -> Point] /\ end \in [Value -> Point]
  /\ call_points \in SUBSET Point
  /\ use_points \in [Value -> SUBSET Point]
  /\ priority \in [Value -> 1 .. MaxPriority]
  /\ width \in [Value -> Widths]
  /\ kind \in [Value -> Kind]
  /\ stack_formal \in [Value -> BOOLEAN]
  /\ has_dynamic_stack \in BOOLEAN
  /\ pass \in 1 .. 5
  /\ visited \in SUBSET Value
  /\ active_callee \in SUBSET Value /\ active_caller \in SUBSET Value
  /\ assigned_register \in [Value -> Span]
  /\ spill_register_authority \in [Value -> Span]
  /\ spill_points \in [Value -> Point \cup {NoPoint}]
  /\ has_stack_slot \in [Value -> BOOLEAN]
  /\ spill_reload_ops \in SUBSET SpillReloadOp

Init ==
  /\ start \in [Value -> Point] /\ end \in [Value -> Point]
  /\ \A v \in Value : start[v] <= end[v]
  /\ call_points \in SUBSET Point
  /\ use_points \in [Value -> SUBSET Point]
  /\ \A v \in Value : \A p \in use_points[v] : start[v] <= p /\ p <= end[v]
  /\ priority \in [Value -> 1 .. MaxPriority]
  /\ width \in [Value -> Widths]
  /\ kind \in [Value -> Kind]
  /\ stack_formal \in [Value -> BOOLEAN]
  /\ has_dynamic_stack \in BOOLEAN
  /\ pass = 1
  /\ visited = {}
  /\ active_callee = {} /\ active_caller = {}
  /\ assigned_register = [v \in Value |-> {}]
  /\ spill_register_authority = [v \in Value |-> {}]
  /\ spill_points = [v \in Value |-> NoPoint]
  /\ has_stack_slot = [v \in Value |-> FALSE]
  /\ spill_reload_ops = {}

-----------------------------------------------------------------------------
\* build_liveness_value: a call strictly inside the interval.
crosses_call(v) == \E c \in call_points : start[v] < c /\ c < end[v]

Precedes_NoPriority(v, w) ==
  start[v] < start[w] \/ (start[v] = start[w] /\ v < w)

\* The order of allocation_order.  A value without an interval sorts last;
\* it is not considered by any scan, so its place does not matter.
Precedes(v, w) ==
  \/ start[v] < start[w]
  \/ start[v] = start[w] /\ priority[v] > priority[w]
  \/ start[v] = start[w] /\ priority[v] = priority[w] /\ v < w

has_lower_allocation_rank(v, w) ==
  \/ priority[v] < priority[w]
  \/ priority[v] = priority[w] /\ start[v] > start[w]
  \/ priority[v] = priority[w] /\ start[v] = start[w] /\ v > w

should_consider_AnyInLaterPasses(v) ==
  /\ kind[v] = "Register"
  /\ assigned_register[v] = {}
  /\ pass = 1 => crosses_call(v)
should_consider(v) ==
  /\ kind[v] = "Register"
  /\ assigned_register[v] = {}
  /\ pass = 1 <=> crosses_call(v)

\* The values this scan still has to look at, and the one it is at.
Pending == {v \in Value \ visited : should_consider(v)}
IsNext(v) == v \in Pending /\ \A w \in Pending : w = v \/ Precedes(v, w)

Spans(v) == IF pass = 2 THEN CallerSpans[width[v]] ELSE CalleeSpans[width[v]]
Active == IF pass = 2 THEN active_caller ELSE active_callee

expire_AtEnd(active, v) == {w \in active : start[v] < end[w]}
expire_Nothing(active, v) == active

\* expire_completed_assignments: the assignments still active at v's start.
expire_completed_assignments(active, v) ==
  LET preserve == start[v] \in call_points \/ ~has_dynamic_stack
  IN  {w \in active : ~(end[w] < start[v] \/ (~preserve /\ end[w] = start[v]))}

IsFree(span, active) ==
  \A w \in active : assigned_register[w] \cap span = {}

\* choose_register_span: the first candidate no active assignment overlaps.
IsChosen(k, spans, active) ==
  /\ k \in DOMAIN spans
  /\ IsFree(spans[k], active)
  /\ \A j \in 1 .. k - 1 : ~IsFree(spans[j], active)

can_evict(w) == pass # 3 \/ ~crosses_call(w)

\* choose_eviction_candidate: the weakest active value that is in the way.
Evictable(v, active) ==
  {w \in active :
     /\ \E k \in DOMAIN Spans(v) : assigned_register[w] \cap Spans(v)[k] # {}
     /\ can_evict(w)
     /\ has_lower_allocation_rank(w, v)}
IsWeakest(w, candidates) ==
  /\ w \in candidates
  /\ \A u \in candidates : u = w \/ has_lower_allocation_rank(w, u)

SetActive(active) ==
  IF pass = 2 THEN active_caller' = active /\ UNCHANGED active_callee
              ELSE active_callee' = active /\ UNCHANGED active_caller

-----------------------------------------------------------------------------
\* One iteration of assign_from_pool that finds a free span.
AssignFree(v) ==
  LET active == expire_completed_assignments(Active, v) IN
  /\ pass \in 1 .. 3
  /\ IsNext(v)
  /\ \E k \in DOMAIN Spans(v) :
       /\ IsChosen(k, Spans(v), active)
       /\ assigned_register' = [assigned_register EXCEPT ![v] = Spans(v)[k]]
  /\ SetActive(active \cup {v})
  /\ visited' = visited \cup {v}
  /\ UNCHANGED <<inputs, pass, spill_register_authority, spill_points,
                 has_stack_slot, spill_reload_ops>>

\* One iteration that takes the register of the weakest active value.
EvictAndAssign(v) ==
  LET active == expire_completed_assignments(Active, v) IN
  /\ pass \in 1 .. 3
  /\ IsNext(v)
  /\ \A k \in DOMAIN Spans(v) : ~IsFree(Spans(v)[k], active)
  /\ \E w \in active :
       /\ IsWeakest(w, Evictable(v, active))
       /\ \E k \in DOMAIN Spans(v) :
            /\ IsChosen(k, Spans(v), active \ {w})
            /\ assigned_register' = [assigned_register EXCEPT
                                       ![v] = Spans(v)[k], ![w] = {}]
       /\ spill_points' = [spill_points EXCEPT ![w] = start[v]]
       /\ spill_register_authority' =
            [spill_register_authority EXCEPT ![w] = assigned_register[w]]
       /\ SetActive((active \ {w}) \cup {v})
  /\ visited' = visited \cup {v}
  /\ UNCHANGED <<inputs, pass, has_stack_slot, spill_reload_ops>>

\* One iteration that leaves the value without a register; only the expiry
\* of old assignments remains.
LeaveUnassigned(v) ==
  LET active == expire_completed_assignments(Active, v) IN
  /\ pass \in 1 .. 3
  /\ IsNext(v)
  /\ \A k \in DOMAIN Spans(v) : ~IsFree(Spans(v)[k], active)
  /\ \A w \in active :
       IsWeakest(w, Evictable(v, active)) =>
         \A k \in DOMAIN Spans(v) : ~IsFree(Spans(v)[k], active \ {w})
  /\ SetActive(active)
  /\ visited' = visited \cup {v}
  /\ UNCHANGED <<inputs, pass, assigned_register, spill_register_authority,
                 spill_points, has_stack_slot, spill_reload_ops>>

EndScan ==
  /\ pass \in 1 .. 3
  /\ Pending = {}
  /\ pass' = pass + 1
  /\ visited' = {}
  /\ UNCHANGED <<inputs, active_callee, active_caller, assigned_register,
                 spill_register_authority, spill_points, has_stack_slot,
                 spill_reload_ops>>

NeedsStackSlot_NotEvicted(v) ==
  \/ assigned_register[v] = {} /\ kind[v] # "Empty" /\ spill_points[v] = NoPoint
  \/ stack_formal[v]

\* The slot loops: a home for what has no register, and one more for the
\* formals that arrive on the stack.
NeedsStackSlot(v) ==
  \/ assigned_register[v] = {} /\ kind[v] # "Empty"
  \/ stack_formal[v]

\* append_spill_reload_ops.
PublishedSpan(v) == IF assigned_register[v] # {} THEN assigned_register[v]
                                                ELSE spill_register_authority[v]

SpillReloadOps_AtEnd ==
  LET spilled == {v \in Value : spill_points[v] # NoPoint /\ NeedsStackSlot(v)}
  IN  {[op |-> "Spill", value |-> v, point |-> end[v],
        span |-> PublishedSpan(v)] : v \in spilled}
SpillReloadOps ==
  LET spilled == {v \in Value : spill_points[v] # NoPoint /\ NeedsStackSlot(v)}
  IN  {[op |-> "Spill", value |-> v, point |-> spill_points[v],
        span |-> PublishedSpan(v)] : v \in spilled}
      \cup
      UNION {{[op |-> "Reload", value |-> v, point |-> p,
               span |-> PublishedSpan(v)] :
                p \in {q \in use_points[v] : q > spill_points[v]}} : v \in spilled}

AssignStackSlots ==
  /\ pass = 4
  /\ has_stack_slot' = [v \in Value |-> NeedsStackSlot(v)]
  /\ spill_reload_ops' = SpillReloadOps
  /\ pass' = 5
  /\ UNCHANGED <<inputs, visited, active_callee, active_caller,
                 assigned_register, spill_register_authority, spill_points>>

Next ==
  \/ \E v \in Value : AssignFree(v)
  \/ \E v \in Value : EvictAndAssign(v)
  \/ \E v \in Value : LeaveUnassigned(v)
  \/ EndScan
  \/ AssignStackSlots

Spec == Init /\ [][Next]_vars

-----------------------------------------------------------------------------
(***************************************************************************)
(* Properties                                                              *)
(***************************************************************************)

Overlap(v, w) == start[v] <= end[w] /\ start[w] <= end[v]

ShareRegister(v, w) == assigned_register[v] \cap assigned_register[w] # {}

\* w may take over a register of v: v is dead before w starts or, in a
\* function with a dynamic stack and away from calls, dies where w starts.
MayFollow(v, w) ==
  \/ end[v] < start[w]
  \/ has_dynamic_stack /\ end[v] = start[w] /\ start[w] \notin call_points

\* Values of the same side of the call-crossing divide that hold a common
\* register have intervals that follow each other, at every step of every
\* scan and across evictions: expiry and eviction keep each scan exclusive.
ScansAreExclusive ==
  \A v, w \in Value :
    /\ v # w
    /\ crosses_call(v) <=> crosses_call(w)
    /\ ShareRegister(v, w)
    => MayFollow(v, w) \/ MayFollow(w, v)

\* A value that crosses a call never sits in a register the call clobbers.
CrossingValuesAreCalleeSaved ==
  \A v \in Value :
    crosses_call(v) =>
      assigned_register[v] \cap PoolRegisters(CallerSpans) = {}

\* A value is evicted strictly after its interval starts and before it is
\* over, so the spill finds the value in its register: an allocation order
\* and an eviction rank that broke ties differently would spill a value
\* where it is not defined yet.
EvictedInsideInterval ==
  \A v \in Value :
    spill_points[v] # NoPoint =>
      start[v] < spill_points[v] /\ spill_points[v] <= end[v]

\* No use of an evicted value is left unserved: the value is back in a
\* register, or it has a slot, one spill into it and a reload, from the
\* register it lost, before every later use.
EvictedUsesAreServed ==
  pass = 5 =>
    \A v \in Value :
      spill_register_authority[v] # {} /\ assigned_register[v] = {} =>
        /\ has_stack_slot[v]
        /\ \E s \in spill_reload_ops : s.op = "Spill" /\ s.value = v
        /\ \A p \in use_points[v] :
             \/ p <= spill_points[v]
             \/ \E r \in spill_reload_ops :
                  /\ r.op = "Reload" /\ r.value = v /\ r.point = p
                  /\ r.span = spill_register_authority[v]

\* The registers a value holds, or was evicted from last.
Held(w) == assigned_register[w] \cup spill_register_authority[w]

\* v and w are considered by the same scans.
SameSide(v, w) == crosses_call(v) <=> crosses_call(w)

OwnSpans(v) == (IF crosses_call(v) THEN CalleeSpans ELSE CallerSpans)[width[v]]
OwnScanIsOver(v) == IF crosses_call(v) THEN pass >= 2 ELSE pass = 3 /\ visited = {}

PoolWasFull(v) ==
  \A k \in DOMAIN OwnSpans(v) :
    \E w \in Value \ {v} :
      SameSide(v, w) /\ Overlap(v, w) /\ Held(w) \cap OwnSpans(v)[k] # {}
LostToStronger(v) ==
  \E w \in Value \ {v} :
    /\ SameSide(v, w) /\ has_lower_allocation_rank(v, w)
    /\ start[w] = spill_points[v]
    /\ Held(w) \cap spill_register_authority[v] # {}

\* A register candidate leaves the scan over its own pool without a register
\* only under pressure.  Either every span of its width was held by another
\* value that is live at the same time, or it was evicted, where a value of
\* higher rank starts that took a part of its register.
SpillsAreJustified ==
  \A v \in Value :
    kind[v] = "Register" /\ assigned_register[v] = {} /\ OwnScanIsOver(v) =>
      IF spill_points[v] = NoPoint THEN PoolWasFull(v) ELSE LostToStronger(v)

\* A published spill reads the register the value was in: no other value of
\* the same side of the call-crossing divide holds a part of that register
\* while the spilled value still lives there.
SpillReadsItsOwnRegister ==
  pass = 5 =>
    \A op \in spill_reload_ops :
      op.op = "Spill" =>
        \A w \in Value \ {op.value} :
          /\ crosses_call(w) <=> crosses_call(op.value)
          /\ assigned_register[w] \cap op.span # {}
          => MayFollow(w, op.value) \/ op.point <= start[w]

\* No two values joined by an interference edge (overlapping intervals) are
\* homed in a common register.
InterferenceIsRespected ==
  pass = 5 =>
    \A v, w \in Value :
      v # w /\ ShareRegister(v, w) => MayFollow(v, w) \/ MayFollow(w, v)

-----------------------------------------------------------------------------
(***************************************************************************)
(* The inductive invariant behind ScansAreExclusive,                       *)
(* CrossingValuesAreCalleeSaved and EvictedInsideInterval.                 *)
(***************************************************************************)

CalleeRegisters == PoolRegisters(CalleeSpans)
CallerRegisters == PoolRegisters(CallerSpans)
ScanRegisters == IF pass = 2 THEN CallerRegisters ELSE CalleeRegisters

\* Which pool a value's register can come from, by kind and scan.
HeldFromOwnPool ==
  \A v \in Value :
    /\ crosses_call(v) => assigned_register[v] \subseteq CalleeRegisters
    /\ ~crosses_call(v) /\ pass = 1 => assigned_register[v] = {}
    /\ ~crosses_call(v) /\ pass = 2 => assigned_register[v] \subseteq CallerRegisters

\* What a scan may evict it has been over, so it does not meet it again.
EvictableIsVisited ==
  /\ pass = 1 => active_callee \subseteq visited
  /\ pass <= 2 => \A w \in active_callee : crosses_call(w)
  /\ pass = 1 => active_caller = {}
  /\ pass = 2 => active_caller \subseteq visited
  /\ pass = 3 => \A w \in active_callee : crosses_call(w) \/ w \in visited

VisitedInOrder == \A w \in visited, u \in Pending : Precedes(w, u)

\* A holder of this scan's registers that is no longer active is over before
\* any value of its kind the scan still has to look at.
RetiredIsOver ==
  pass <= 3 =>
    \A w \in Value, u \in Pending :
      /\ crosses_call(w) <=> crosses_call(u)
      /\ assigned_register[w] \cap ScanRegisters # {}
      /\ w \notin Active
      => MayFollow(w, u)

\* The five parts together with the properties they support.
IInv ==
  /\ TypeOK
  /\ HeldFromOwnPool
  /\ EvictableIsVisited
  /\ VisitedInOrder
  /\ RetiredIsOver
  /\ ScansAreExclusive
  /\ EvictedInsideInterval
-----------------------------------------------------------------------------
(***************************************************************************)
(* What the scans keep about evictions: the inductive invariant behind     *)
(* SpillsAreJustified, SpillReadsItsOwnRegister and EvictedUsesAreServed.  *)
(***************************************************************************)

VisitedAreOfScan == pass <= 3 => \A w \in visited : pass = 1 <=> crosses_call(w)

\* Only register candidates hold registers and lose them; a value has lost a
\* register exactly when it has a spill point.
EvictedWasCandidate ==
  \A v \in Value :
    /\ Held(v) # {} => kind[v] = "Register"
    /\ spill_register_authority[v] # {} <=> spill_points[v] # NoPoint

\* In its own scan a value is evicted after its turn, so it does not come back.
EvictedHadItsTurn ==
  pass <= 2 =>
    \A v \in Value :
      spill_register_authority[v] # {} =>
        /\ assigned_register[v] = {}
        /\ (pass = 1 <=> crosses_call(v)) => v \in visited

\* Which pool a value was evicted from, by side and scan.
EvictedFromOwnPool ==
  \A v \in Value :
    /\ crosses_call(v) => spill_register_authority[v] \subseteq CalleeRegisters
    /\ ~crosses_call(v) /\ pass = 1 => spill_register_authority[v] = {}
    /\ ~crosses_call(v) /\ pass = 2 => spill_register_authority[v] \subseteq CallerRegisters

\* The evictions of this scan lie before the values it still has to look at.
SpilledBeforePending ==
  pass <= 3 =>
    \A v \in Value, u \in Pending :
      SameSide(v, u) /\ spill_register_authority[v] \cap ScanRegisters # {} =>
        spill_points[v] <= start[u]

\* Whoever holds a part of a register that v was evicted from had it before v
\* or starts no earlier than v's spill.
LostRegisterIsVacated ==
  \A v \in Value, w \in Value :
    /\ v # w /\ SameSide(v, w)
    /\ assigned_register[w] \cap spill_register_authority[v] # {}
    => MayFollow(w, v) \/ spill_points[v] <= start[w]

\* SpillsAreJustified, from a value's turn in its own scan on.
TurnIsOver(v) ==
  OwnScanIsOver(v) \/ (v \in visited /\ pass = (IF crosses_call(v) THEN 1 ELSE 2))
TurnsAreJustified ==
  \A v \in Value :
    kind[v] = "Register" /\ assigned_register[v] = {} /\ TurnIsOver(v) =>
      IF spill_points[v] = NoPoint THEN PoolWasFull(v) ELSE LostToStronger(v)

\* What AssignStackSlots has published.
OpsArePublished ==
  pass = 5 => /\ has_stack_slot = [v \in Value |-> NeedsStackSlot(v)]
              /\ spill_reload_ops = SpillReloadOps

\* The parts together.
SpillInv ==
  /\ \A v \in Value : start[v] <= end[v]
  /\ VisitedAreOfScan
  /\ EvictedWasCandidate
  /\ EvictedHadItsTurn
  /\ EvictedFromOwnPool
  /\ SpilledBeforePending
  /\ LostRegisterIsVacated
  /\ TurnsAreJustified
  /\ OpsArePublished
=============================================================================
