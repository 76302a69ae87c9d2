---------------------------- MODULE ParallelCopy ----------------------------
(***************************************************************************)
(* make_parallel_copy_bundle of out_of_ssa.cpp: the moves that a CFG edge  *)
(* owes to the phis of its join block are serialised into a list of Move   *)
(* and SaveDestinationToTemp steps that one temporary is enough to run.    *)
(*                                                                         *)
(* A move's source and destination are value names; NoName is the empty    *)
(* optional that prepared_named_value_name gives for an immediate.         *)
(* Destinations are phi results, so no two moves share one.                *)
(*                                                                         *)
(* `env' and `temp' are not variables of the code: they are what running   *)
(* the steps published so far does to the values.  Every name holds itself *)
(* on entry to the edge, so env[d] = s says that d holds what s held.      *)
(***************************************************************************)
EXTENDS Integers, FiniteSets, Sequences

CONSTANTS
  Names,      \* the value names of the function
  NoName,     \* the empty optional name; also the value of an immediate
  N           \* the number of moves of the bundle

ASSUME NoNameAssumption == NoName \notin Names
ASSUME NAssumption == N \in Nat

Moves == 1 .. N
OptName == Names \cup {NoName}

VARIABLES
  source,                   \* bundle.moves[i].source_value, by name
  destination,              \* bundle.moves[i].destination_value, by name
  source_name,              \* MoveState.source_name
  uses_cycle_temp_source,   \* MoveState.uses_cycle_temp_source
  emitted,                  \* MoveState.emitted
  pending_sources,          \* recomputed at the head of every pass
  progressed,               \* did this pass emit a move?
  move_index,               \* the scan's position in this pass
  steps,                    \* bundle.steps
  has_cycle,                \* bundle.has_cycle
  pc,                       \* "pass": loop head, "scan": inner loop, "done"
  env, temp                 \* the effect of the published steps

vars == <<source, destination, source_name, uses_cycle_temp_source, emitted,
          pending_sources, progressed, move_index, steps, has_cycle, pc,
          env, temp>>

moveVars == <<source, destination>>
stateVars == <<source_name, uses_cycle_temp_source, emitted>>

Step == [kind : {"Move", "SaveDestinationToTemp"}, move_index : Moves,
         uses_cycle_temp_source : BOOLEAN]

TypeOK ==
  /\ source \in [Moves -> OptName]
  /\ destination \in [Moves -> OptName]
  /\ source_name \in [Moves -> OptName]
  /\ uses_cycle_temp_source \in [Moves -> BOOLEAN]
  /\ emitted \in [Moves -> BOOLEAN]
  /\ pending_sources \in SUBSET Names
  /\ progressed \in BOOLEAN
  /\ move_index \in 1 .. N + 1
  /\ steps \in Seq(Step)
  /\ has_cycle \in BOOLEAN
  /\ pc \in {"pass", "scan", "done"}
  /\ env \in [Names -> OptName]
  /\ temp \in OptName

-----------------------------------------------------------------------------
Unemitted == {i \in Moves : ~emitted[i]}

InitialSourceName_Mutant(src, dst) == src

\* The states the moves start in: a self-move waits for nothing.
InitialSourceName(src, dst) ==
  [i \in Moves |-> IF src[i] = dst[i] THEN NoName ELSE src[i]]

Init ==
  /\ source \in [Moves -> OptName]
  /\ destination \in [Moves -> OptName]
  /\ \A i, j \in Moves :
       i # j /\ destination[i] # NoName => destination[i] # destination[j]
  /\ source_name = InitialSourceName(source, destination)
  /\ uses_cycle_temp_source = [i \in Moves |-> FALSE]
  /\ emitted = [i \in Moves |-> FALSE]
  /\ pending_sources = {}
  /\ progressed = FALSE
  /\ move_index = 1
  /\ steps = << >>
  /\ has_cycle = FALSE
  /\ pc = "pass"
  /\ env = [n \in Names |-> n]
  /\ temp = NoName

\* The source names some unemitted move still has to read.
PendingSources == {source_name[i] : i \in Unemitted} \ {NoName}

StartPass_KeepsProgressed ==
  /\ pc = "pass"
  /\ Unemitted # {}
  /\ pending_sources' = PendingSources
  /\ move_index' = 1
  /\ pc' = "scan"
  /\ UNCHANGED <<moveVars, stateVars, progressed, steps, has_cycle, env, temp>>

StartPass ==
  /\ pc = "pass"
  /\ Unemitted # {}
  /\ pending_sources' = PendingSources
  /\ progressed' = FALSE
  /\ move_index' = 1
  /\ pc' = "scan"
  /\ UNCHANGED <<moveVars, stateVars, steps, has_cycle, env, temp>>

Blocked_Mutant(i) == FALSE
Blocked_UnnamedMutant(i) == destination[i] \in pending_sources \cup {NoName}

\* Writing move i's destination would lose a value that is still to be read.
Blocked(i) == destination[i] \in pending_sources

SkipMove ==
  /\ pc = "scan"
  /\ move_index \in Moves
  /\ emitted[move_index] \/ Blocked(move_index)
  /\ move_index' = move_index + 1
  /\ UNCHANGED <<moveVars, stateVars, pending_sources, progressed, steps,
                 has_cycle, pc, env, temp>>

\* What a Move step reads when it runs.
ValueOf(name) == IF name \in Names THEN env[name] ELSE NoName

MoveStep(i) == [kind |-> "Move", move_index |-> i,
                uses_cycle_temp_source |-> uses_cycle_temp_source[i]]

RunMove(i) ==
  env' = [n \in Names |->
            IF n # destination[i] THEN env[n]
            ELSE IF uses_cycle_temp_source[i] THEN temp
            ELSE ValueOf(source[i])]

EmitMove ==
  /\ pc = "scan"
  /\ move_index \in Moves
  /\ ~emitted[move_index]
  /\ ~Blocked(move_index)
  /\ steps' = Append(steps, MoveStep(move_index))
  /\ emitted' = [emitted EXCEPT ![move_index] = TRUE]
  /\ progressed' = TRUE
  /\ move_index' = move_index + 1
  /\ RunMove(move_index)
  /\ UNCHANGED <<moveVars, source_name, uses_cycle_temp_source,
                 pending_sources, has_cycle, pc, temp>>

\* if (progressed) continue;
EndPass ==
  /\ pc = "scan"
  /\ move_index = N + 1
  /\ progressed
  /\ pc' = "pass"
  /\ UNCHANGED <<moveVars, stateVars, pending_sources, progressed, move_index,
                 steps, has_cycle, env, temp>>

Stuck_Mutant == pc = "scan" /\ move_index = N + 1

\* A whole pass emitted nothing.
Stuck == pc = "scan" /\ move_index = N + 1 /\ ~progressed

FirstUnemitted(i) == i \in Unemitted /\ \A j \in Unemitted : i <= j

\* The unemitted moves that read `name' and have not been redirected yet.
CycleReaders(name) == {i \in Moves : ~emitted[i] /\ source_name[i] = name}

RedirectReaders_NoTemp(readers) ==
  /\ source_name' =
       [i \in Moves |-> IF i \in readers THEN NoName ELSE source_name[i]]
  /\ UNCHANGED uses_cycle_temp_source

RedirectReaders(readers) ==
  /\ source_name' =
       [i \in Moves |-> IF i \in readers THEN NoName ELSE source_name[i]]
  /\ uses_cycle_temp_source' =
       [i \in Moves |-> i \in readers \/ uses_cycle_temp_source[i]]

\* The destination of move i is saved, and its readers read the temporary.
SaveDestination(i) ==
  /\ has_cycle' = TRUE
  /\ steps' = Append(steps, [kind |-> "SaveDestinationToTemp", move_index |-> i,
                             uses_cycle_temp_source |-> FALSE])
  /\ RedirectReaders(CycleReaders(destination[i]))
  /\ temp' = env[destination[i]]
  /\ UNCHANGED <<emitted, env>>

\* A stuck move whose destination has no name is emitted as it is.
EmitUnnamed(i) ==
  /\ steps' = Append(steps, MoveStep(i))
  /\ emitted' = [emitted EXCEPT ![i] = TRUE]
  /\ RunMove(i)
  /\ UNCHANGED <<source_name, uses_cycle_temp_source, has_cycle, temp>>

\* cycle_it: the first move that is not emitted; without one the loop breaks.
BreakCycle ==
  /\ Stuck
  /\ IF Unemitted = {}
     THEN pc' = "done" /\ UNCHANGED <<stateVars, steps, has_cycle, env, temp>>
     ELSE /\ \E i \in Moves :
               /\ FirstUnemitted(i)
               /\ IF destination[i] = NoName THEN EmitUnnamed(i) ELSE SaveDestination(i)
          /\ pc' = "pass"
  /\ UNCHANGED <<moveVars, pending_sources, progressed, move_index>>

\* remaining_moves == 0: the bundle is returned.
Finish ==
  /\ pc = "pass"
  /\ Unemitted = {}
  /\ pc' = "done"
  /\ UNCHANGED <<moveVars, stateVars, pending_sources, progressed, move_index,
                 steps, has_cycle, env, temp>>

Next ==
  \/ StartPass
  \/ SkipMove
  \/ EmitMove
  \/ EndPass
  \/ BreakCycle
  \/ Finish

Spec == Init /\ [][Next]_vars

FairSpec == Spec /\ WF_vars(Next)

-----------------------------------------------------------------------------
(***************************************************************************)
(* Properties                                                              *)
(***************************************************************************)

\* When the bundle is returned, running its steps in order has done what all
\* the moves at once would have done: every destination holds the value its
\* source had on entry to the edge, every other name is untouched.
ParallelSemantics ==
  pc = "done" =>
    \A n \in Names :
      /\ \A i \in Moves : destination[i] = n => env[n] = source[i]
      /\ (\A i \in Moves : destination[i] # n) => env[n] = n

\* One temporary is enough: while a move that was redirected to the temporary
\* is still to be emitted, the temporary holds the value that move must read,
\* so no later SaveDestinationToTemp overwrites a live temporary.
TempHoldsPendingValue ==
  \A i \in Moves :
    ~emitted[i] /\ uses_cycle_temp_source[i] => temp = source[i]

\* A pass that emits nothing leaves only moves that lie on cycles, so the
\* first unemitted move has a destination name: the branch of the code for an
\* unnamed stuck move, and the break for no stuck move, are never taken.
StuckMoveIsNamed ==
  Stuck => /\ Unemitted # {}
           /\ \A i \in Unemitted : destination[i] # NoName

\* A set of moves in which every destination is the source of another one.
IsMoveCycle(S) ==
  /\ S # {}
  /\ \A i \in S : source[i] \in Names /\ source[i] # destination[i]
  /\ \A i \in S : \E j \in S : source[j] = destination[i]

\* A returned bundle is flagged has_cycle exactly when its moves contain a
\* cycle; the flag decides whether the edge needs a scratch location at all.
HasCycleIsExact ==
  pc = "done" => (has_cycle <=> \E S \in SUBSET Moves : IsMoveCycle(S))

\* The ordering loop ends: either a pass emits a move, or a cycle is broken and
\* the next pass emits one, so that no pass is repeated without progress.
Terminates == <>(pc = "done")

(***************************************************************************)
(* The inductive invariant                                                 *)
(***************************************************************************)

DestinationsDistinct ==
  \A i, j \in Moves :
    i # j /\ destination[i] # NoName => destination[i] # destination[j]

\* An unemitted move either reads the temporary, or reads a name that no
\* emitted move has written.
ReadsAreIntact ==
  \A i \in Unemitted :
    /\ uses_cycle_temp_source[i] =>
         /\ temp = source[i]
         /\ source_name[i] = NoName
         /\ has_cycle
    /\ ~uses_cycle_temp_source[i] =>
         source_name[i] = InitialSourceName(source, destination)[i]
    /\ source_name[i] # NoName =>
         \A j \in Moves : emitted[j] => destination[j] # source_name[i]

\* Emitted moves have delivered; the other names hold their entry value.
WritesAreDelivered ==
  \A n \in Names :
    /\ \A i \in Moves : emitted[i] /\ destination[i] = n => env[n] = source[i]
    /\ (\A i \in Moves : emitted[i] => destination[i] # n) => env[n] = n

\* During a pass pending_sources may be larger than what is still pending,
\* never smaller; in a pass without progress it is exact and every move
\* passed over was blocked.
ScanIsSound ==
  /\ pc = "scan" => PendingSources \subseteq pending_sources
  /\ pc = "scan" /\ ~progressed =>
       /\ Unemitted # {}
       /\ pending_sources = PendingSources
       /\ \A i \in Unemitted : i < move_index => Blocked(i)
  /\ pc = "done" => Unemitted = {}

\* has_cycle is raised only for a cycle, and no move of a cycle is emitted
\* before it is raised.
CycleFlagIsSound ==
  /\ has_cycle => \E S \in SUBSET Moves : IsMoveCycle(S)
  /\ ~has_cycle => \A S \in SUBSET Moves : IsMoveCycle(S) => S \subseteq Unemitted

\* Why the published order is right, as one inductive invariant: what is
\* still to be read is intact, what was written is final, and a pass that
\* emits nothing is looking at cycles only.
IInv ==
  /\ TypeOK
  /\ DestinationsDistinct
  /\ ReadsAreIntact
  /\ WritesAreDelivered
  /\ ScanIsSound
  /\ CycleFlagIsSound

\* The bundle implements ParallelAssign with the environment in full view: every
\* step of it that writes a name delivers one move, with the value the source had
\* on entry and not the one it has by now, no move is delivered twice, and the
\* bundle is returned only when all are.
Abstract == INSTANCE ParallelAssign WITH
  delivered <- Moves \ Unemitted,
  done <- (pc = "done")

Refines == Abstract!Spec
=============================================================================
