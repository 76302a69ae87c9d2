------------------------- MODULE ParallelCopyProofs -------------------------
(***************************************************************************)
(* ParallelCopy is correct for every number of moves and every set of      *)
(* names.  The one fact that is not a local argument is StuckIsCyclic: a   *)
(* pass that emits nothing has only whole cycles in front of it, which is  *)
(* a pigeonhole argument over the unemitted moves.                         *)
(***************************************************************************)
EXTENDS ParallelCopy, FiniteSetTheorems, TLAPS

\* The move states are built with the types the loop relies on.
LEMMA InitTypeOK == Init => TypeOK
<1> SUFFICES ASSUME Init PROVE TypeOK
  OBVIOUS
<1>1. source_name \in [Moves -> OptName]
  BY DEF Init, InitialSourceName, OptName
<1>2. /\ uses_cycle_temp_source \in [Moves -> BOOLEAN]
      /\ emitted \in [Moves -> BOOLEAN]
  BY Zenon DEF Init
<1>3. move_index \in 1 .. N + 1
  BY NAssumption DEF Init
<1>4. env \in [Names -> OptName] /\ temp \in OptName
  BY DEF Init, OptName
<1>5. steps \in Seq(Step)
  BY DEF Init
<1> QED
  BY <1>1, <1>2, <1>3, <1>4, <1>5 DEF Init, TypeOK

\* The variables keep their types through every step of the ordering loop.
LEMMA TypeCorrect == Spec => []TypeOK
<1>1. Init => TypeOK
  BY InitTypeOK
<1>2. TypeOK /\ [Next]_vars => TypeOK'
  <2> SUFFICES ASSUME TypeOK, [Next]_vars PROVE TypeOK'
    OBVIOUS
  <2> USE DEF TypeOK, moveVars, stateVars
  <2>1. CASE StartPass
    <3>1. PendingSources \subseteq Names
      BY DEF PendingSources, Unemitted, OptName
    <3>2. move_index' \in 1 .. N + 1
      BY <2>1, NAssumption DEF StartPass
    <3>3. pending_sources' \subseteq Names /\ progressed' \in BOOLEAN
      BY <2>1, <3>1 DEF StartPass
    <3> QED
      BY <2>1, <3>2, <3>3 DEF StartPass
  <2>2. CASE SkipMove
    BY <2>2, NAssumption DEF SkipMove, Moves
  <2>3. CASE EmitMove
    <3>1. MoveStep(move_index) \in Step
      BY <2>3 DEF EmitMove, MoveStep, Step
    <3>2. steps' \in Seq(Step)
      BY <3>1, <2>3 DEF EmitMove
    <3>3. env' \in [Names -> OptName]
      BY <2>3 DEF EmitMove, RunMove, ValueOf, OptName
    <3>4. move_index' \in 1 .. N + 1
      BY <2>3, NAssumption DEF EmitMove, Moves
    <3> QED
      BY <3>2, <3>3, <3>4, <2>3 DEF EmitMove
  <2>4. CASE EndPass
    BY <2>4 DEF EndPass
  <2>5. CASE BreakCycle
    <3>0. UNCHANGED <<source, destination, pending_sources, progressed, move_index>>
      BY <2>5 DEF BreakCycle
    <3>1. CASE Unemitted = {}
      BY <2>5, <3>0, <3>1 DEF BreakCycle
    <3>2. CASE Unemitted # {}
      <4>1. PICK i \in Moves : IF destination[i] = NoName THEN EmitUnnamed(i) ELSE SaveDestination(i)
        BY <2>5, <3>2 DEF BreakCycle
      <4>2. pc' = "pass"
        BY <2>5, <3>2 DEF BreakCycle
      <4>3. CASE destination[i] = NoName
        <5>1. EmitUnnamed(i)
          BY <4>1, <4>3
        <5>2. MoveStep(i) \in Step
          BY DEF MoveStep, Step
        <5>3. steps' \in Seq(Step)
          BY <5>1, <5>2 DEF EmitUnnamed
        <5>4. env' \in [Names -> OptName]
          BY <5>1 DEF EmitUnnamed, RunMove, ValueOf, OptName
        <5> QED
          BY <3>0, <4>2, <5>1, <5>3, <5>4 DEF EmitUnnamed
      <4>4. CASE destination[i] # NoName
        <5>1. SaveDestination(i)
          BY <4>1, <4>4
        <5>2. steps' \in Seq(Step)
          BY <5>1 DEF SaveDestination, Step
        <5>3. /\ source_name' \in [Moves -> OptName]
              /\ uses_cycle_temp_source' \in [Moves -> BOOLEAN]
          BY <5>1 DEF SaveDestination, RedirectReaders, OptName
        <5>4. temp' \in OptName
          BY <4>4, <5>1 DEF SaveDestination, OptName
        <5> QED
          BY <3>0, <4>2, <5>1, <5>2, <5>3, <5>4 DEF SaveDestination
      <4> QED
        BY <4>3, <4>4
    <3> QED
      BY <3>1, <3>2
  <2>6. CASE Finish
    BY <2>6 DEF Finish
  <2>7. CASE UNCHANGED vars
    BY <2>7 DEF vars
  <2> QED
    BY <2>1, <2>2, <2>3, <2>4, <2>5, <2>6, <2>7 DEF Next
<1> QED
  BY <1>1, <1>2, PTL DEF Spec

-----------------------------------------------------------------------------
\* A pass that emits nothing is looking at cycles only: each unemitted move
\* still reads a name, and its destination is read by an unemitted move.
LEMMA StuckIsCyclic ==
  ASSUME IInv, Stuck
  PROVE  /\ \A i \in Unemitted : source_name[i] \in Names
         /\ \A i \in Unemitted : ~uses_cycle_temp_source[i]
         /\ IsMoveCycle(Unemitted)
<1> USE DEF IInv
<1> DEFINE U == Unemitted
           P == PendingSources
           R == {i \in U : source_name[i] # NoName}
           dst == [i \in U |-> destination[i]]
           srcOf == [i \in R |-> source_name[i]]
<1>1. \A i \in U : destination[i] \in P
  BY NAssumption DEF ScanIsSound, Stuck, Blocked, Unemitted, Moves, TypeOK
<1>2. IsFiniteSet(U) /\ IsFiniteSet(R) /\ Cardinality(R) <= Cardinality(U)
  <2>1. IsFiniteSet(Moves)
    BY FS_Interval, NAssumption DEF Moves
  <2>2. IsFiniteSet(U)
    BY <2>1, FS_Subset DEF Unemitted
  <2> QED
    BY <2>2, FS_Subset
<1>3. srcOf \in Surjection(R, P)
  <2>1. srcOf \in [R -> P]
    BY DEF PendingSources
  <2>2. \A p \in P : \E i \in R : srcOf[i] = p
    BY DEF PendingSources
  <2> QED
    BY <2>1, <2>2 DEF Surjection
<1>4. IsFiniteSet(P) /\ Cardinality(P) <= Cardinality(R)
  BY <1>2, <1>3, FS_Surjection
<1>5. dst \in Injection(U, P)
  <2>1. dst \in [U -> P]
    BY <1>1
  <2>2. \A i, j \in U : dst[i] = dst[j] => i = j
    BY <1>1, NoNameAssumption DEF DestinationsDistinct, Unemitted, PendingSources
  <2> QED
    BY <2>1, <2>2 DEF Injection, IsInjective
<1>6. Cardinality(U) <= Cardinality(P)
  BY <1>4, <1>5, FS_Injection
<1>7. R = U
  <2>1. Cardinality(U) \in Nat /\ Cardinality(R) \in Nat /\ Cardinality(P) \in Nat
    BY <1>2, <1>4, FS_CardinalityType
  <2>2. Cardinality(R) = Cardinality(U)
    BY <2>1, <1>2, <1>4, <1>6
  <2> QED
    BY <2>2, <1>2, FS_Subset
<1>8. \A i \in U : source_name[i] \in Names
  BY <1>7 DEF TypeOK, OptName, Unemitted
<1>9. \A i \in U : ~uses_cycle_temp_source[i]
  BY <1>7 DEF ReadsAreIntact
<1>10. IsMoveCycle(U)
  <2>1. U # {}
    BY DEF ScanIsSound, Stuck
  <2>2. \A i \in U : source_name[i] = source[i] /\ source[i] # destination[i]
    BY <1>7, <1>9 DEF ReadsAreIntact, InitialSourceName, Unemitted
  <2>3. \A i \in U : \E j \in U : source_name[j] = destination[i]
    BY <1>1 DEF PendingSources
  <2> QED
    BY <1>8, <2>1, <2>2, <2>3 DEF IsMoveCycle
<1> QED
  BY <1>8, <1>9, <1>10

-----------------------------------------------------------------------------
\* The inductive invariant holds when the move states are built.
LEMMA InitEstablishesIInv == Init => IInv
<1> SUFFICES ASSUME Init PROVE IInv
  OBVIOUS
<1>1. TypeOK
  BY InitTypeOK
<1>2. DestinationsDistinct
  BY DEF Init, DestinationsDistinct
<1>3. ReadsAreIntact
  BY DEF Init, ReadsAreIntact, Unemitted
<1>4. WritesAreDelivered
  BY DEF Init, WritesAreDelivered
<1>5. ScanIsSound
  BY DEF Init, ScanIsSound
<1>6. CycleFlagIsSound
  BY DEF Init, CycleFlagIsSound, Unemitted
<1> QED
  BY <1>1, <1>2, <1>3, <1>4, <1>5, <1>6 DEF IInv

\* Emitting an unblocked move delivers its value and spoils no later read.
LEMMA EmitMoveKeepsIInv ==
  ASSUME IInv, TypeOK', EmitMove
  PROVE  IInv'
<1> USE DEF IInv, TypeOK, moveVars
<1> DEFINE m == move_index
<1>1. m \in Moves /\ m \in Unemitted /\ Unemitted' = Unemitted \ {m}
  BY DEF EmitMove, Unemitted
<1>2. \A i \in Moves : emitted'[i] <=> emitted[i] \/ i = m
  BY DEF EmitMove
<1>3. PendingSources' \subseteq PendingSources
  BY <1>1 DEF EmitMove, PendingSources
<1>4. PendingSources \subseteq pending_sources /\ destination[m] \notin pending_sources
  BY DEF EmitMove, ScanIsSound, Blocked
<1>5. \A i \in Unemitted : source_name[i] # NoName => source_name[i] # destination[m]
  BY <1>4 DEF PendingSources
<1>6. destination[m] \in Names => env[destination[m]] = destination[m]
  BY <1>1, NoNameAssumption DEF DestinationsDistinct, WritesAreDelivered, Unemitted
<1>7. destination[m] \in Names => env'[destination[m]] = source[m]
  <2> SUFFICES ASSUME destination[m] \in Names PROVE env'[destination[m]] = source[m]
    OBVIOUS
  <2>1. CASE uses_cycle_temp_source[m]
    BY <1>1, <2>1 DEF EmitMove, RunMove, ReadsAreIntact
  <2>2. CASE ~uses_cycle_temp_source[m]
    <3>1. env'[destination[m]] = ValueOf(source[m])
      BY <1>1, <2>2 DEF EmitMove, RunMove
    <3>2. CASE source[m] = NoName
      BY <3>1, <3>2, NoNameAssumption DEF ValueOf
    <3>3. CASE source[m] = destination[m]
      BY <3>1, <3>3, <1>6 DEF ValueOf
    <3>4. CASE source[m] # NoName /\ source[m] # destination[m]
      <4>1. source_name[m] = source[m] /\ source[m] \in Names
        BY <1>1, <2>2, <3>4 DEF ReadsAreIntact, InitialSourceName, OptName
      <4>2. env[source[m]] = source[m]
        BY <1>1, <4>1, <3>4 DEF ReadsAreIntact, WritesAreDelivered
      <4> QED
        BY <3>1, <4>1, <4>2 DEF ValueOf
    <3> QED
      BY <3>2, <3>3, <3>4
  <2> QED
    BY <2>1, <2>2
<1>8. \A n \in Names : n # destination[m] => env'[n] = env[n]
  BY DEF EmitMove, RunMove
<1>9. DestinationsDistinct'
  BY DEF DestinationsDistinct, EmitMove
<1>10. ReadsAreIntact'
  <2>1. /\ source_name' = source_name /\ source' = source /\ temp' = temp
        /\ destination' = destination /\ has_cycle' = has_cycle
        /\ uses_cycle_temp_source' = uses_cycle_temp_source
    BY DEF EmitMove
  <2>2. InitialSourceName(source, destination)' = InitialSourceName(source, destination)
    BY <2>1 DEF InitialSourceName
  <2> SUFFICES ASSUME NEW i \in Unemitted, i # m
               PROVE  /\ uses_cycle_temp_source[i] =>
                           temp = source[i] /\ source_name[i] = NoName /\ has_cycle
                      /\ ~uses_cycle_temp_source[i] =>
                           source_name[i] = InitialSourceName(source, destination)[i]
                      /\ source_name[i] # NoName =>
                           \A j \in Moves : emitted'[j] => destination[j] # source_name[i]
    BY <2>1, <2>2, <1>1 DEF ReadsAreIntact
  <2>3. source_name[i] # NoName =>
           \A j \in Moves : emitted'[j] => destination[j] # source_name[i]
    BY <1>2, <1>5 DEF ReadsAreIntact
  <2> QED
    BY <2>3 DEF ReadsAreIntact
<1>11. WritesAreDelivered'
  <2> SUFFICES ASSUME NEW n \in Names
               PROVE  /\ \A i \in Moves : emitted'[i] /\ destination[i] = n => env'[n] = source[i]
                      /\ (\A i \in Moves : emitted'[i] => destination[i] # n) => env'[n] = n
    BY DEF WritesAreDelivered, EmitMove
  <2>1. CASE n = destination[m]
    BY <1>1, <1>2, <1>7, <2>1, NoNameAssumption DEF DestinationsDistinct
  <2>2. CASE n # destination[m]
    BY <1>2, <1>8, <2>2 DEF WritesAreDelivered
  <2> QED
    BY <2>1, <2>2
<1>12. ScanIsSound'
  BY <1>3, <1>4 DEF ScanIsSound, EmitMove
<1>13. CycleFlagIsSound'
  <2>1. \A S \in SUBSET Moves : IsMoveCycle(S)' <=> IsMoveCycle(S)
    BY DEF IsMoveCycle, EmitMove
  <2>2. ASSUME ~has_cycle, NEW S \in SUBSET Moves, IsMoveCycle(S) PROVE S \subseteq Unemitted'
    <3>1. S \subseteq Unemitted
      BY <2>2 DEF CycleFlagIsSound
    <3>2. ASSUME m \in S PROVE FALSE
      <4>1. PICK j \in S : source[j] = destination[m]
        BY <2>2, <3>2 DEF IsMoveCycle
      <4>2. ~uses_cycle_temp_source[j]
        BY <2>2, <3>1 DEF ReadsAreIntact
      <4>3. source_name[j] = source[j] /\ source[j] \in Names
        BY <2>2, <3>1, <4>2 DEF ReadsAreIntact, InitialSourceName, IsMoveCycle, Unemitted
      <4> QED
        BY <4>1, <4>3, <3>1, <1>5, NoNameAssumption
    <3> QED
      BY <3>1, <3>2, <1>1
  <2> QED
    BY <2>1, <2>2 DEF CycleFlagIsSound, EmitMove
<1> QED
  BY <1>9, <1>10, <1>11, <1>12, <1>13

\* Saving a destination of a stuck pass redirects its readers to a temporary
\* that no other unemitted move is waiting for.
LEMMA BreakCycleKeepsIInv ==
  ASSUME IInv, TypeOK', BreakCycle
  PROVE  IInv'
<1> USE DEF IInv, TypeOK, moveVars
<1>1. /\ \A i \in Unemitted : source_name[i] \in Names
      /\ \A i \in Unemitted : ~uses_cycle_temp_source[i]
      /\ IsMoveCycle(Unemitted)
  BY StuckIsCyclic DEF BreakCycle
<1>2. PICK m \in Moves :
        /\ m \in Unemitted
        /\ destination[m] # NoName
        /\ SaveDestination(m)
        /\ has_cycle' = TRUE
        /\ RedirectReaders(CycleReaders(destination[m]))
        /\ temp' = env[destination[m]]
  <2>1. PICK m \in Moves :
          /\ m \in Unemitted
          /\ IF destination[m] = NoName THEN EmitUnnamed(m) ELSE SaveDestination(m)
    BY <1>1 DEF BreakCycle, FirstUnemitted, IsMoveCycle
  <2>2. destination[m] # NoName
    BY <1>1, <2>1, NoNameAssumption DEF IsMoveCycle
  <2> QED
    BY <2>1, <2>2 DEF SaveDestination
<1>3. /\ Unemitted' = Unemitted
      /\ source' = source /\ destination' = destination /\ emitted' = emitted
      /\ env' = env /\ pc' = "pass"
  BY <1>1, <1>2 DEF BreakCycle, SaveDestination, Unemitted, IsMoveCycle
<1>4. temp' = destination[m]
  <2>1. destination[m] \in Names
    BY <1>2 DEF OptName
  <2>2. \A i \in Moves : emitted[i] => destination[i] # destination[m]
    BY <1>2 DEF DestinationsDistinct, Unemitted
  <2> QED
    BY <2>1, <2>2, <1>2 DEF WritesAreDelivered
<1>5. DestinationsDistinct'
  BY <1>3 DEF DestinationsDistinct
<1>6. ReadsAreIntact'
  <2>0. InitialSourceName(source, destination)' = InitialSourceName(source, destination)
    BY <1>3 DEF InitialSourceName
  <2> SUFFICES ASSUME NEW i \in Unemitted
               PROVE  /\ uses_cycle_temp_source'[i] =>
                           /\ temp' = source[i]
                           /\ source_name'[i] = NoName
                           /\ has_cycle'
                      /\ ~uses_cycle_temp_source'[i] =>
                           source_name'[i] = InitialSourceName(source, destination)[i]
                      /\ source_name'[i] # NoName =>
                           \A j \in Moves : emitted[j] => destination[j] # source_name'[i]
    BY <1>3, <2>0 DEF ReadsAreIntact
  <2>1. ~uses_cycle_temp_source[i] /\ source_name[i] \in Names
    BY <1>1
  <2>2. /\ source_name[i] = InitialSourceName(source, destination)[i]
        /\ source_name[i] = source[i]
    BY <2>1, NoNameAssumption DEF ReadsAreIntact, InitialSourceName, Unemitted
  <2>3. CASE i \in CycleReaders(destination[m])
    <3>1. source[i] = destination[m]
      BY <2>2, <2>3 DEF CycleReaders
    <3>2. source_name'[i] = NoName /\ uses_cycle_temp_source'[i]
      BY <2>3, <1>2 DEF RedirectReaders, Unemitted
    <3> QED
      BY <3>1, <3>2, <1>2, <1>4
  <2>4. CASE i \notin CycleReaders(destination[m])
    <3>1. source_name'[i] = source_name[i] /\ ~uses_cycle_temp_source'[i]
      BY <2>1, <2>4, <1>2 DEF RedirectReaders, Unemitted
    <3> QED
      BY <3>1, <2>2 DEF ReadsAreIntact
  <2> QED
    BY <2>3, <2>4
<1>7. WritesAreDelivered'
  BY <1>3 DEF WritesAreDelivered
<1>8. ScanIsSound'
  BY <1>3 DEF ScanIsSound
<1>9. CycleFlagIsSound'
  <2>1. Unemitted \in SUBSET Moves
    BY DEF Unemitted
  <2>2. \A S \in SUBSET Moves : IsMoveCycle(S)' <=> IsMoveCycle(S)
    BY <1>3 DEF IsMoveCycle
  <2> QED
    BY <1>1, <1>2, <2>1, <2>2 DEF CycleFlagIsSound
<1> QED
  BY <1>5, <1>6, <1>7, <1>8, <1>9

\* Every step of the ordering loop keeps the inductive invariant.
LEMMA NextKeepsIInv ==
  ASSUME IInv, TypeOK', [Next]_vars
  PROVE  IInv'
<1> USE DEF moveVars, stateVars
<1>1. CASE StartPass
  <2>1. UNCHANGED <<source, destination, source_name, uses_cycle_temp_source,
                    emitted, has_cycle, env, temp>>
    BY <1>1 DEF StartPass
  <2>2. Unemitted' = Unemitted /\ PendingSources' = PendingSources
    BY <2>1 DEF Unemitted, PendingSources
  <2>3. ScanIsSound'
    BY <1>1, <2>2, NAssumption DEF StartPass, ScanIsSound, Unemitted, Moves
  <2> QED
    BY <2>1, <2>2, <2>3 DEF IInv, DestinationsDistinct, ReadsAreIntact,
       InitialSourceName, WritesAreDelivered, CycleFlagIsSound, IsMoveCycle
<1>2. CASE SkipMove
  <2>1. UNCHANGED <<source, destination, source_name, uses_cycle_temp_source,
                    emitted, has_cycle, env, temp, pc, progressed, pending_sources>>
    BY <1>2 DEF SkipMove
  <2>2. Unemitted' = Unemitted /\ PendingSources' = PendingSources
    BY <2>1 DEF Unemitted, PendingSources
  <2>3. ScanIsSound'
    BY <1>2, <2>1, <2>2, NAssumption
       DEF SkipMove, IInv, TypeOK, ScanIsSound, Unemitted, Moves, Blocked
  <2> QED
    BY <2>1, <2>2, <2>3 DEF IInv, DestinationsDistinct, ReadsAreIntact,
       InitialSourceName, WritesAreDelivered, CycleFlagIsSound, IsMoveCycle
<1>3. CASE EmitMove
  BY <1>3, EmitMoveKeepsIInv
<1>4. CASE BreakCycle
  BY <1>4, BreakCycleKeepsIInv
<1>5. CASE EndPass \/ Finish \/ UNCHANGED vars
  <2>1. UNCHANGED <<source, destination, source_name, uses_cycle_temp_source,
                    emitted, has_cycle, env, temp, progressed, pending_sources,
                    move_index>>
    BY <1>5 DEF EndPass, Finish, vars
  <2>2. Unemitted' = Unemitted /\ PendingSources' = PendingSources
    BY <2>1 DEF Unemitted, PendingSources
  <2>3. ScanIsSound'
    BY <1>5, <2>1, <2>2 DEF EndPass, Finish, vars, IInv, ScanIsSound, Blocked
  <2> QED
    BY <2>1, <2>2, <2>3 DEF IInv, DestinationsDistinct, ReadsAreIntact,
       InitialSourceName, WritesAreDelivered, CycleFlagIsSound, IsMoveCycle
<1> QED
  BY <1>1, <1>2, <1>3, <1>4, <1>5 DEF Next

-----------------------------------------------------------------------------
\* The inductive invariant is an invariant of the ordering loop.
THEOREM IInvHolds == Spec => []IInv
<1>1. IInv /\ TypeOK' /\ [Next]_vars => IInv'
  BY NextKeepsIInv
<1> QED
  BY <1>1, InitEstablishesIInv, TypeCorrect, PTL DEF Spec

\* Running the published steps of any bundle, of any size, assigns all
\* destinations as if at once.
THEOREM ParallelCopyIsCorrect == Spec => []ParallelSemantics
<1>1. IInv => ParallelSemantics
  BY DEF IInv, ScanIsSound, WritesAreDelivered, ParallelSemantics, Unemitted
<1> QED
  BY <1>1, IInvHolds, PTL

\* A bundle of any size, with any number of cycles, needs one temporary.
THEOREM OneTemporarySuffices == Spec => []TempHoldsPendingValue
<1>1. IInv => TempHoldsPendingValue
  BY DEF IInv, ReadsAreIntact, TempHoldsPendingValue, Unemitted
<1> QED
  BY <1>1, IInvHolds, PTL

\* The branch for a stuck move without a destination is unreachable.
THEOREM StuckMovesAreNamed == Spec => []StuckMoveIsNamed
<1>1. IInv => StuckMoveIsNamed
  <2> SUFFICES ASSUME IInv, Stuck
               PROVE  Unemitted # {} /\ \A i \in Unemitted : destination[i] # NoName
    BY DEF StuckMoveIsNamed
  <2>1. IsMoveCycle(Unemitted)
    BY StuckIsCyclic
  <2> QED
    BY <2>1, NoNameAssumption DEF IsMoveCycle
<1> QED
  BY <1>1, IInvHolds, PTL

\* has_cycle is exact for every bundle.
THEOREM CycleFlagIsExact == Spec => []HasCycleIsExact
<1>1. IInv => HasCycleIsExact
  <2> SUFFICES ASSUME IInv, pc = "done"
               PROVE  has_cycle <=> \E S \in SUBSET Moves : IsMoveCycle(S)
    BY DEF HasCycleIsExact
  <2>1. ASSUME ~has_cycle, NEW S \in SUBSET Moves, IsMoveCycle(S) PROVE FALSE
    BY <2>1 DEF IInv, CycleFlagIsSound, ScanIsSound, IsMoveCycle
  <2> QED
    BY <2>1 DEF IInv, CycleFlagIsSound
<1> QED
  BY <1>1, IInvHolds, PTL

\* The ordering implements ParallelAssign: emitting a move is its delivery, of the
\* entry value, Finish is the return, and breaking a cycle is invisible.
THEOREM ParallelCopyRefinesParallelAssign == Spec => Refines
<1>1. Init => Abstract!Init
  BY DEF Init, Abstract!Init, OptName, Unemitted
<1>2. IInv /\ IInv' /\ [Next]_vars => [Abstract!Next]_Abstract!vars
  <2> SUFFICES ASSUME IInv, IInv', [Next]_vars PROVE [Abstract!Next]_Abstract!vars
    OBVIOUS
  <2> USE DEF moveVars, stateVars
  <2>1. CASE Finish
    <3>1. /\ pc = "pass" /\ pc' = "done" /\ Moves \ Unemitted = Moves
          /\ UNCHANGED <<source, destination, env>> /\ Unemitted' = Unemitted
      BY <2>1 DEF Finish, Unemitted
    <3> QED
      BY <3>1 DEF Abstract!Return, Abstract!Next
  <2>2. CASE EmitMove
    <3> DEFINE m == move_index
    <3>1. /\ pc = "scan" /\ pc' = "scan" /\ m \in Moves /\ m \in Unemitted
          /\ UNCHANGED <<source, destination>> /\ emitted' = [emitted EXCEPT ![m] = TRUE]
      BY <2>2 DEF EmitMove, Unemitted
    <3>2. Moves \ Unemitted' = (Moves \ Unemitted) \cup {m} /\ emitted'[m]
      BY <3>1 DEF Unemitted, IInv, TypeOK
    <3>3. destination[m] \in Names => env'[destination[m]] = source[m]
      BY <3>1, <3>2 DEF IInv, WritesAreDelivered
    <3>4. env' = [n \in Names |-> IF n = destination[m] THEN source[m] ELSE env[n]]
      BY <2>2, <3>3 DEF EmitMove, RunMove
    <3> HIDE DEF m
    <3>5. Abstract!Deliver(m)
      BY <3>1, <3>2, <3>4 DEF Abstract!Deliver
    <3> QED
      BY <3>1, <3>5 DEF Abstract!Next
  <2>3. CASE StartPass \/ SkipMove \/ EndPass
    <3>1. /\ pc # "done" /\ pc' # "done" /\ UNCHANGED <<source, destination, env>>
          /\ Unemitted' = Unemitted
      BY <2>3 DEF StartPass, SkipMove, EndPass, Unemitted
    <3> QED
      BY <3>1 DEF Abstract!vars
  <2>4. CASE BreakCycle
    <3>1. IsMoveCycle(Unemitted) /\ pc # "done"
      BY <2>4, StuckIsCyclic DEF BreakCycle, Stuck
    <3>2. PICK m \in Unemitted : SaveDestination(m)
      BY <2>4, <3>1, NoNameAssumption DEF BreakCycle, FirstUnemitted, IsMoveCycle
    <3>3. pc' # "done" /\ UNCHANGED <<source, destination, env>> /\ Unemitted' = Unemitted
      BY <2>4, <3>1, <3>2 DEF BreakCycle, SaveDestination, IsMoveCycle, Unemitted
    <3> QED
      BY <3>1, <3>3 DEF Abstract!vars
  <2>5. CASE UNCHANGED vars
    BY <2>5 DEF vars, Abstract!vars, Unemitted
  <2> QED
    BY <2>1, <2>2, <2>3, <2>4, <2>5 DEF Next
<1> QED
  BY <1>1, <1>2, IInvHolds, PTL DEF Spec, Refines, Abstract!Spec

=============================================================================
