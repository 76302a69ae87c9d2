------------------------ MODULE MCCompileTimeEngine -------------------------
EXTENDS CompileTimeEngine

CONSTANT NumItems

W(kind, needs, spawns, outcome) ==
  [kind |-> kind, needs |-> needs, spawns |-> spawns, outcome |-> outcome]

\* Types and constants need at most one other item; only types and calls spawn.
Needs == {{}} \cup {{j} : j \in Item}

Types(spawns) == {W("type", d, s, o) : d \in Needs, s \in spawns, o \in {"ok", "missing", "fails"}}
Calls(spawns) == {W("call", {}, s, o) : s \in spawns, o \in {"ok", "missing", "silent"}}
Constevals == {W("consteval", d, {}, o) : d \in Needs, o \in {"ok", "fails"}}
Asserts == {W("assert", d, {}, o) : d \in Needs, o \in {"ok", "false", "fails"}}

\* Three items of every kind, all known when the engine starts.
ClosedInit ==
  /\ known = [k \in 1 .. 3 |-> k]
  /\ \E f \in [1 .. 3 -> Types({{}}) \cup Calls({{}}) \cup Constevals \cup Asserts] :
       work = [i \in Item |-> IF i <= 3 THEN f[i] ELSE W("type", {}, {}, "ok")]
  /\ \A i \in 1 .. 3 : work[i].needs \subseteq 1 .. 3
  /\ Init

\* Work that nests: one item is known, the others are found one from another,
\* next to a static_assert or a constant that may need them.
NestedInit ==
  /\ known \in {<<1>>, <<1, NumItems>>}
  /\ \E last \in {W("assert", {}, {}, "ok"), W("assert", {3}, {}, "ok"),
                  W("consteval", {2}, {}, "ok"), W("consteval", {NumItems}, {}, "ok"),
                  W("call", {}, {}, "ok")} :
     \E first \in {W("type", d, {2}, "ok") : d \in {{}, {2}, {3}}}
                   \cup {W("call", {}, {2}, "ok"), W("call", {}, {2, 3}, "ok")} :
     \E second \in {W("type", d, s, o) : d \in {{}, {3}, {2}}, s \in {{}, {3}},
                                         o \in {"ok", "fails"}}
                    \cup {W("call", {}, {3}, "ok")} :
     \E third \in Types({{}}) \cup Calls({{4}, {1}}) \cup Constevals :
       work = [i \in Item |-> CASE i = 1 -> first [] i = 2 -> second [] i = 3 -> third
                                [] OTHER -> last]
  /\ Init

MCSpec == (ClosedInit \/ NestedInit) /\ [][Next]_vars /\ Fairness

\* A function template that calls another one, and so on: only the first call is
\* known when the engine starts.
ChainInit ==
  /\ known = <<1>>
  /\ work = [i \in Item |-> W("call", {}, IF i < NumItems THEN {i + 1} ELSE {}, "ok")]
  /\ Init

ChainSpec == ChainInit /\ [][Next]_vars
=============================================================================
