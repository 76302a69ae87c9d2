----------------------------- MODULE MCRegAlloc -----------------------------
(* The register pools of the riscv64 profile: general registers t0 and s1,  *)
(* s2, of which s1 and s2 form the only span of width two.                  *)
EXTENDS RegAlloc

RiscvRegisters == {"t0", "s1", "s2"}
RiscvCalleeSpans == [w \in Widths |->
  IF w = 1 THEN <<{"s1"}, {"s2"}>> ELSE <<{"s1", "s2"}>>]
RiscvCallerSpans == [w \in Widths |-> IF w = 1 THEN <<{"t0"}>> ELSE << >>]

\* Value ids only break ties, so numbering the values in allocation order
\* loses no behaviour.
NumberedInOrder ==
  \A v \in Value : v + 1 \in Value => Precedes(v, v + 1)

\* Every value is used where its interval ends.
UsedAtEnd == use_points = [v \in Value |-> {end[v]}]

\* Plain register candidates, no formals on the stack.
RegistersOnly ==
  /\ kind = [v \in Value |-> "Register"]
  /\ stack_formal = [v \in Value |-> FALSE]

StartEnd ==
  /\ start \in {s \in [Value -> Point] :
                  \A v \in Value : v + 1 \in Value => s[v] <= s[v + 1]}
  /\ end \in [Value -> Point]
  /\ \A v \in Value : start[v] <= end[v]

\* All values in single registers.
PressureInit ==
  /\ StartEnd
  /\ UsedAtEnd
  /\ RegistersOnly
  /\ width = [v \in Value |-> 1]
  /\ call_points \in {{1}, {1, 2}}
  /\ Init
  /\ NumberedInOrder

\* Single registers and pairs on one point less, one value of any kind, one
\* formal that may arrive on the stack, values used at every point of their
\* interval, and one value (the last) without size.
SpansInit ==
  /\ StartEnd
  /\ start[NumValues] = LastPoint
  /\ \A v \in Value \ {NumValues} : end[v] < LastPoint
  /\ use_points = [v \in Value |-> start[v] .. end[v]]
  /\ kind \in {[v \in Value |-> CASE v = NumValues -> "Empty"
                                   [] v = NumValues - 1 -> k
                                   [] OTHER -> "Register"] : k \in Kind}
  /\ stack_formal \in {[v \in Value |-> v = 1 /\ b] : b \in BOOLEAN}
  /\ width \in {w \in [Value -> Widths] : w[NumValues] = 1}
  /\ priority \in {p \in [Value -> 1 .. MaxPriority] : p[NumValues] = 1}
  /\ call_points = {1}
  /\ Init
  /\ NumberedInOrder

ScansSpec == (PressureInit \/ SpansInit) /\ [][Next]_vars

\* Values that end before a later call, values inside them, and values after
\* them: what an assignment that scan 1 has already expired does in scan 3.
ReuseInit ==
  /\ start \in {s \in [Value -> {0, 1, 6}] :
                  \A v \in Value : v + 1 \in Value => s[v] <= s[v + 1]}
  /\ end = [v \in Value |-> CASE start[v] = 0 -> 4 [] start[v] = 1 -> 2 [] OTHER -> 9]
  /\ UsedAtEnd
  /\ RegistersOnly
  /\ call_points = {3, 8}
  /\ Init
  /\ NumberedInOrder

ReuseSpec == ReuseInit /\ [][Next]_vars
=============================================================================
