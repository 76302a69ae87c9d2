-------------------------- MODULE FrameSlotsProofs --------------------------
(***************************************************************************)
(* The passes that build the frames number their slots consistently,       *)
(* publish every slot they hand out, keep all slots inside the frames they *)
(* report and give every saved register a place of its own: for any number *)
(* of functions, objects, values, registers and storage areas of any size  *)
(* and alignment.                                                          *)
(***************************************************************************)
EXTENDS FrameSlots, FiniteSetTheorems, TLAPS, WellFoundedInduction

Slot == [slot_id : Nat, function : Function, object : Nat, offset : Nat, size : Nat,
         align : Nat \ {0}]

\* The slots of the frames and those handed out but not yet published.
AllSlots == frame_slots \cup {assigned[k] : k \in DOMAIN assigned}

Handing == phase \in {"layout", "regalloc"}

TypeInv ==
  /\ WellFormed
  /\ phase \in {"layout", "regalloc", "regalloc done", "plan", "variadic", "replan", "done"}
  /\ fn \in Function
  /\ fixed \subseteq Nat /\ reorderable \subseteq Nat
  /\ phase = "layout" => fixed \cup reorderable \subseteq Placeable(fn)
  /\ base_offset \in [Families -> Nat \cup {NoOffset}]
  /\ next_offset \in Nat /\ max_align \in Nat \ {0} /\ next_slot_id \in Nat
  /\ frame_slots \subseteq Slot /\ assigned \in Seq(Slot)
  /\ addressing \in [Function -> Nat]
  /\ pending \in Nat /\ frame_size \in Nat
  /\ DOMAIN plan = Function

\* There are finitely many slots: their ids, alignments and ends are bounded.
Bounded ==
  \E b \in Nat : \A s \in AllSlots : s.slot_id < b /\ s.align <= b /\ End(s) <= b

\* While slots are handed out the next id is new; a slot that is handed out and
\* not yet published has an id that no published slot has.
IdsAreFresh ==
  /\ Handing => \A s \in AllSlots : s.slot_id < next_slot_id
  /\ \A s, t \in AllSlots : s.slot_id = t.slot_id => s = t
  /\ phase = "layout" => assigned = << >>
  /\ phase \in {"regalloc", "regalloc done"} =>
       \A k \in DOMAIN assigned : assigned[k].function = fn
  /\ ~Handing => \A k \in DOMAIN assigned : assigned[k] \in frame_slots

\* Where the frames end: what is placed lies before next_offset in the function
\* at hand and inside the frame of the module in the functions that are finished.
ExtentsAreKept ==
  /\ phase = "layout" =>
       \A s \in frame_slots : /\ s.function <= fn
                              /\ s.function < fn => End(s) <= frame_size
  /\ phase # "layout" => \A s \in frame_slots : End(s) <= frame_size
  /\ Handing => \A s \in AllSlots : s.function = fn => End(s) <= next_offset
  /\ phase \in {"replan", "done"} =>
       \A s \in frame_slots : s.function < fn \/ phase = "done"
                                => End(s) <= plan[s.function].size

IInv == TypeInv /\ Bounded /\ IdsAreFresh /\ ExtentsAreKept

-----------------------------------------------------------------------------
\* Every nonempty set of naturals has a least element.
LEMMA LeastNatural ==
  ASSUME NEW T \in SUBSET Nat, T # {}
  PROVE  \E m \in T : \A y \in T : m <= y
<1>1. PICK m \in T : \A y \in T : <<y, m>> \notin OpToRel(<, Nat)
  BY Zenon, NatLessThanWellFounded, WFMin
<1>2. \A y \in T : ~(y < m)
  BY <1>1, Zenon DEF OpToRel
<1> QED BY <1>2

\* The largest element of a bounded set of naturals.
LEMMA LargestIsMaximum ==
  ASSUME NEW S \in SUBSET Nat, S # {}, NEW b \in Nat, \A n \in S : n <= b
  PROVE  largest(S) \in S /\ \A n \in S : n <= largest(S)
<1> DEFINE T == {m \in Nat : \A n \in S : n <= m}
<1>1. T \in SUBSET Nat /\ b \in T
  BY Zenon
<1>2. PICK m \in T : \A y \in T : m <= y
  <2> HIDE DEF T
  <2> QED BY Zenon, <1>1, LeastNatural
<1>3. m \in S
  <2> SUFFICES ASSUME m \notin S PROVE FALSE
    BY Zenon
  <2>1. \A n \in S : n < m
    OBVIOUS
  <2>2. PICK n \in S : n < m /\ n \in Nat
    BY <2>1, Zenon
  <2>3. m - 1 \in Nat /\ m - 1 < m
    BY <2>2
  <2>4. \A k \in S : k <= m - 1
    BY <2>1, <2>3
  <2> QED BY <1>2, <2>3, <2>4
<1> QED BY <1>3, Zenon DEF largest

\* Finitely many naturals have an upper bound.
LEMMA FinitelyManyAreBounded ==
  ASSUME NEW n \in Nat, NEW g \in [1 .. n -> Nat]
  PROVE  \E b \in Nat : \A i \in 1 .. n : g[i] <= b
<1> DEFINE T == {k \in 0 .. n : \E b \in Nat : \A i \in k + 1 .. n : g[i] <= b}
<1>1. T \in SUBSET Nat /\ n \in T
  OBVIOUS
<1>2. PICK m \in T : \A y \in T : m <= y
  <2> HIDE DEF T
  <2> QED BY <1>1, LeastNatural, Zenon
<1>3. PICK b \in Nat : \A i \in m + 1 .. n : g[i] <= b
  BY Zenon
<1>4. m = 0
  <2> SUFFICES ASSUME m # 0 PROVE FALSE
    BY Zenon
  <2>1. m \in 1 .. n /\ g[m] \in Nat
    OBVIOUS
  <2>2. b + g[m] \in Nat /\ b <= b + g[m] /\ g[m] <= b + g[m]
    BY <2>1
  <2>3. \A i \in (m - 1) + 1 .. n : g[i] <= b + g[m]
    <3> SUFFICES ASSUME NEW i \in m .. n PROVE g[i] <= b + g[m]
      BY <2>1
    <3>1. CASE i = m
      BY Zenon, <3>1, <2>2
    <3>2. CASE i # m
      <4>1. i \in m + 1 .. n /\ g[i] \in Nat
        BY <3>2, <2>1
      <4> QED BY <4>1, <1>3, <2>1, <2>2
    <3> QED BY Zenon, <3>1, <3>2
  <2>4. m - 1 \in T
    BY <2>1, <2>2, <2>3
  <2>5. m <= m - 1
    <3> HIDE DEF T
    <3> QED BY Zenon, <1>2, <2>4
  <2> QED BY <2>1, <2>5
<1> QED BY <1>3, <1>4

\* The order of the naturals, for leaves that need no more arithmetic than this.
LEMMA NaturalOrder ==
  /\ \A a, b, c \in Nat : a <= b /\ b <= c => a <= c
  /\ \A a, b \in Nat : a + b \in Nat
  /\ \A a, b \in Nat : a <= b => a < b \/ a = b
  /\ \A a, b \in Nat : a <= b => a # b + 1
OBVIOUS

\* Functions are numbered.
LEMMA FunctionsAreNatural == \A f \in Function : f \in Nat
BY DEF Function

\* Padding never moves an offset down.
LEMMA AlignToGrows ==
  ASSUME NEW value \in Nat, NEW alignment \in Nat \ {0}
  PROVE  align_to(value, alignment) \in Nat /\ value <= align_to(value, alignment)
<1>1. value % alignment \in 0 .. alignment - 1
  OBVIOUS
<1> QED BY <1>1 DEF align_to

\* The larger of two numbers is a bound of both.
LEMMA LargerIsUpperBound ==
  ASSUME NEW m \in Nat, NEW n \in Nat
  PROVE  larger(m, n) \in Nat /\ m <= larger(m, n) /\ n <= larger(m, n)
BY DEF larger

\* The extent of a frame is where its last slot ends; its alignment is positive
\* and a new slot id is above all others.
LEMMA FrameMaxima ==
  ASSUME TypeInv, Bounded, NEW f \in Function
  PROVE  /\ function_frame_extent(f) \in Nat
         /\ \A s \in SlotsOf(f) : End(s) <= function_frame_extent(f)
         /\ function_frame_alignment(f) \in Nat \ {0}
         /\ next_frame_slot_id \in Nat
         /\ \A s \in frame_slots : s.slot_id < next_frame_slot_id
<1>1. PICK b \in Nat : \A s \in AllSlots : s.slot_id < b /\ s.align <= b /\ End(s) <= b
  BY Zenon DEF Bounded
<1>2. \A s \in frame_slots : s \in Slot /\ s \in AllSlots
  BY Zenon DEF TypeInv, AllSlots
<1>3. \A s \in frame_slots : /\ End(s) \in Nat /\ s.align \in Nat \ {0} /\ s.slot_id \in Nat
                            /\ s.slot_id < b /\ s.align <= b /\ End(s) <= b
  BY <1>1, <1>2 DEF Slot, End
<1>4. /\ function_frame_extent(f) \in Nat
      /\ \A s \in SlotsOf(f) : End(s) <= function_frame_extent(f)
  <2> DEFINE S == {End(s) : s \in SlotsOf(f)} \cup {0}
  <2>1. S \in SUBSET Nat /\ S # {} /\ \A n \in S : n <= b
    BY <1>3 DEF SlotsOf
  <2>2. largest(S) \in S /\ \A n \in S : n <= largest(S)
    <3> HIDE DEF S
    <3> QED BY <2>1, LargestIsMaximum, Zenon
  <2> QED BY Zenon, <2>1, <2>2 DEF function_frame_extent
<1>5. function_frame_alignment(f) \in Nat \ {0}
  <2> DEFINE S == {s.align : s \in SlotsOf(f)} \cup {1}
  <2>1. S \in SUBSET (Nat \ {0}) /\ S # {} /\ \A n \in S : n <= b + 1
    BY <1>3 DEF SlotsOf
  <2>2. largest(S) \in S
    <3> HIDE DEF S
    <3>1. S \in SUBSET Nat /\ b + 1 \in Nat
      BY <2>1
    <3> QED BY <2>1, <3>1, LargestIsMaximum, Zenon
  <2> QED BY Zenon, <2>1, <2>2 DEF function_frame_alignment
<1>6. /\ next_frame_slot_id \in Nat
      /\ \A s \in frame_slots : s.slot_id < next_frame_slot_id
  <2> DEFINE S == {s.slot_id + 1 : s \in frame_slots} \cup {0}
  <2>1. S \in SUBSET Nat /\ S # {} /\ \A n \in S : n <= b
    BY <1>3
  <2>2. largest(S) \in S /\ \A n \in S : n <= largest(S)
    <3> HIDE DEF S
    <3> QED BY <2>1, LargestIsMaximum, Zenon
  <2>3. \A s \in frame_slots : s.slot_id + 1 <= largest(S) /\ s.slot_id \in Nat
    BY Zenon, <1>3, <2>2
  <2>4. largest(S) \in Nat
    BY Zenon, <2>1, <2>2
  <2>5. next_frame_slot_id = largest(S)
    BY Zenon DEF next_frame_slot_id
  <2> HIDE DEF S
  <2> QED BY <2>3, <2>4, <2>5
<1> QED BY Zenon, <1>4, <1>5, <1>6

\* What WellFormed says of one stack object.
ObjectFacts(o) ==
  /\ o.size \in Nat /\ o.align \in Nat \ {0} /\ o.slice_offset \in Nat
  /\ o.family \in Families \cup {NoFamily}

\* The objects of a function, and those that get a slot, have their types.
LEMMA ObjectsAreTyped ==
  ASSUME WellFormed, NEW f \in Function
  PROVE  /\ Len(objects[f]) \in Nat /\ DOMAIN objects[f] = 1 .. Len(objects[f])
         /\ Placeable(f) \subseteq DOMAIN objects[f] /\ Placeable(f) \subseteq Nat
         /\ \A i \in DOMAIN objects[f] : ObjectFacts(objects[f][i])
<1> DEFINE O == [size : Nat, align : Nat \ {0}, family : Families \cup {NoFamily},
                 slice_offset : Nat, byte_offset : Nat, kind : {"param", "local", "copy"},
                 requires_home : BOOLEAN, permanent : BOOLEAN]
<1>1. objects[f] \in Seq(O)
  BY Zenon DEF WellFormed
<1>2. Len(objects[f]) \in Nat /\ DOMAIN objects[f] = 1 .. Len(objects[f])
  BY <1>1
<1>3. \A i \in DOMAIN objects[f] : objects[f][i] \in O
  <2> HIDE DEF O
  <2> QED BY <1>1
<1>4. \A o \in O : ObjectFacts(o)
  BY Zenon DEF ObjectFacts
<1> QED BY <1>2, <1>3, <1>4 DEF Placeable

\* The alignment of a family is one a slot can be aligned to.
LEMMA FamilyAlignmentIsPositive ==
  ASSUME WellFormed, NEW f \in Function, NEW family
  PROVE  FamilyAlignment(f, family) \in Nat \ {0}
<1> DEFINE n == Len(objects[f])
           g == [i \in 1 .. n |-> objects[f][i].align]
           S == {objects[f][i].align : i \in Slices(f, family)} \cup {1}
<1>1. n \in Nat /\ \A i \in 1 .. n : objects[f][i].align \in Nat \ {0}
  BY Zenon, ObjectsAreTyped DEF ObjectFacts
<1>2. g \in [1 .. n -> Nat]
  BY Zenon, <1>1
<1>3. PICK b \in Nat : \A i \in 1 .. n : g[i] <= b
  <2> HIDE DEF n, g
  <2> QED BY <1>1, <1>2, FinitelyManyAreBounded, Zenon
<1>4. Slices(f, family) \subseteq 1 .. n
  BY Zenon, ObjectsAreTyped DEF Slices
<1>5. S \in SUBSET (Nat \ {0}) /\ S # {} /\ b + 1 \in Nat /\ \A m \in S : m <= b + 1
  <2>1. \A i \in Slices(f, family) : objects[f][i].align \in Nat \ {0} /\ objects[f][i].align <= b
    BY <1>1, <1>3, <1>4, Zenon
  <2> QED BY <2>1
<1>6. largest(S) \in S
  <2> HIDE DEF S
  <2>1. S \in SUBSET Nat
    BY Zenon, <1>5
  <2> QED BY Zenon, <1>5, <2>1, LargestIsMaximum
<1> QED BY Zenon, <1>5, <1>6 DEF FamilyAlignment

-----------------------------------------------------------------------------
\* The objects still to be placed, and what is known of them.
LEMMA PlaceableFacts ==
  ASSUME TypeInv, phase = "layout", NEW i \in fixed \cup reorderable
  PROVE  /\ i \in Nat /\ i \in Placeable(fn) /\ ObjectFacts(Obj(i))
         /\ align_to(next_offset, Obj(i).align) \in Nat
         /\ next_offset <= align_to(next_offset, Obj(i).align)
         /\ aligned_end_offset(i) \in Nat
<1>1. WellFormed /\ fn \in Function /\ i \in Placeable(fn) /\ next_offset \in Nat
  BY Zenon DEF TypeInv
<1>2. i \in Nat /\ ObjectFacts(Obj(i))
  BY Zenon, <1>1, ObjectsAreTyped DEF Obj
<1>3. Obj(i).align \in Nat \ {0} /\ Obj(i).size \in Nat
  BY Zenon, <1>2 DEF ObjectFacts
<1>4. /\ align_to(next_offset, Obj(i).align) \in Nat
      /\ next_offset <= align_to(next_offset, Obj(i).align)
  BY Zenon, <1>1, <1>3, AlignToGrows
<1> QED BY <1>1, <1>2, <1>3, <1>4 DEF aligned_end_offset

\* Finitely many objects have one that sorts first: of the largest alignment, of
\* the largest size among those, and declared first among those.
LEMMA FrontIsReorderable ==
  ASSUME TypeInv, phase = "layout", reorderable # {}
  PROVE  Front \in reorderable
<1> DEFINE n == Len(objects[fn])
           A == {Obj(i).align : i \in reorderable}
           a == largest(A)
           I == {i \in reorderable : Obj(i).align = a}
           B == {Obj(i).size : i \in I}
           b == largest(B)
           J == {i \in I : Obj(i).size = b}
<1>1. \A i \in reorderable : i \in 1 .. n /\ Obj(i).align \in Nat /\ Obj(i).size \in Nat
  BY PlaceableFacts, ObjectsAreTyped, Zenon DEF TypeInv, ObjectFacts
<1>2. n \in Nat /\ \A i \in 1 .. n : Obj(i).align \in Nat /\ Obj(i).size \in Nat
  BY Zenon, ObjectsAreTyped DEF TypeInv, ObjectFacts, Obj
<1>3. PICK ba \in Nat : \A i \in 1 .. n : Obj(i).align <= ba
  <2> DEFINE g == [i \in 1 .. n |-> Obj(i).align]
  <2>1. g \in [1 .. n -> Nat]
    BY Zenon, <1>2
  <2>2. PICK c \in Nat : \A i \in 1 .. n : g[i] <= c
    <3> HIDE DEF n, g
    <3> QED BY <1>2, <2>1, FinitelyManyAreBounded, Zenon
  <2> QED BY <2>2, Zenon
<1>4. PICK bs \in Nat : \A i \in 1 .. n : Obj(i).size <= bs
  <2> DEFINE g == [i \in 1 .. n |-> Obj(i).size]
  <2>1. g \in [1 .. n -> Nat]
    BY Zenon, <1>2
  <2>2. PICK c \in Nat : \A i \in 1 .. n : g[i] <= c
    <3> HIDE DEF n, g
    <3> QED BY <1>2, <2>1, FinitelyManyAreBounded, Zenon
  <2> QED BY <2>2, Zenon
<1>5. a \in A /\ \A x \in A : x <= a
  <2>1. A \in SUBSET Nat /\ A # {} /\ \A x \in A : x <= ba
    BY Zenon, <1>1, <1>3
  <2> HIDE DEF A
  <2> QED BY <2>1, LargestIsMaximum, Zenon
<1>6. I # {} /\ \A i \in reorderable : Obj(i).align <= a
  <2> HIDE DEF a
  <2> QED BY Zenon, <1>5
<1>7. b \in B /\ \A x \in B : x <= b
  <2> HIDE DEF a
  <2>1. B \in SUBSET Nat /\ B # {} /\ \A x \in B : x <= bs
    BY Zenon, <1>1, <1>4, <1>6
  <2> HIDE DEF B
  <2> QED BY Zenon, <2>1, LargestIsMaximum
<1>8. J # {} /\ \A i \in I : Obj(i).size <= b
  <2> HIDE DEF b, I
  <2> QED BY Zenon, <1>7
<1>9. PICK first \in J : \A j \in J : first <= j
  <2>1. J \in SUBSET Nat
    BY <1>1
  <2> HIDE DEF J
  <2> QED BY Zenon, <1>8, <2>1, LeastNatural
<1>10. \A j \in reorderable : SortsBefore(first, j)
  <2> HIDE DEF a, b
  <2> SUFFICES ASSUME NEW j \in reorderable PROVE SortsBefore(first, j)
    BY Zenon
  <2>1. /\ Obj(j).align \in Nat /\ Obj(j).size \in Nat /\ Obj(j).align <= a
        /\ first \in reorderable /\ Obj(first).align = a /\ Obj(first).size = b
        /\ a \in Nat /\ b \in Nat
    BY Zenon, <1>1, <1>6
  <2>2. CASE j \notin I
    BY <2>1, <2>2 DEF SortsBefore
  <2>3. CASE j \in I /\ j \notin J
    BY <2>1, <2>3, <1>8 DEF SortsBefore
  <2>4. CASE j \in J
    BY Zenon, <2>1, <2>4, <1>9 DEF SortsBefore
  <2> QED BY Zenon, <2>2, <2>3, <2>4
<1>11. first \in reorderable
  BY Zenon
<1> HIDE DEF J
<1> QED BY Zenon, <1>10, <1>11 DEF Front

\* The object that is placed next is one of those that are left.
LEMMA SelectedIsReorderable ==
  ASSUME TypeInv, phase = "layout", reorderable # {}
  PROVE  Selected \in reorderable
<1>1. Front \in reorderable
  BY Zenon, FrontIsReorderable
<1>2. CASE GapFillers = {} \/ align_to(next_offset, Obj(Front).align) = next_offset
  BY Zenon, <1>1, <1>2 DEF Selected
<1>3. CASE GapFillers # {} /\ align_to(next_offset, Obj(Front).align) # next_offset
  <2> DEFINE top == align_to(next_offset, Obj(Front).align)
             E == {aligned_end_offset(i) : i \in GapFillers}
             e == largest(E)
             K == {i \in GapFillers : aligned_end_offset(i) = e}
  <2>1. /\ top \in Nat /\ GapFillers \subseteq reorderable
        /\ \A i \in GapFillers : aligned_end_offset(i) \in Nat /\ aligned_end_offset(i) <= top
                                 /\ i \in Nat
    BY Zenon, <1>1, PlaceableFacts DEF GapFillers
  <2>2. e \in E /\ \A x \in E : x <= e
    <3>1. E \in SUBSET Nat /\ E # {} /\ \A x \in E : x <= top
      BY Zenon, <1>3, <2>1
    <3> HIDE DEF E, top
    <3> QED BY <2>1, <3>1, LargestIsMaximum, Zenon
  <2>3. K # {} /\ K \in SUBSET Nat /\ \A i \in GapFillers : aligned_end_offset(i) <= e
    <3> HIDE DEF e
    <3> QED BY Zenon, <2>1, <2>2
  <2>4. PICK first \in K : \A j \in K : first <= j
    <3> HIDE DEF K
    <3> QED BY Zenon, <2>3, LeastNatural
  <2>5. \A j \in GapFillers :
          \/ aligned_end_offset(first) > aligned_end_offset(j)
          \/ aligned_end_offset(first) = aligned_end_offset(j) /\ first <= j
    <3> HIDE DEF e
    <3> SUFFICES ASSUME NEW j \in GapFillers
                 PROVE  \/ aligned_end_offset(first) > aligned_end_offset(j)
                        \/ aligned_end_offset(first) = aligned_end_offset(j) /\ first <= j
      BY Zenon
    <3>1. /\ aligned_end_offset(first) = e /\ e \in Nat
          /\ aligned_end_offset(j) \in Nat /\ aligned_end_offset(j) <= e
      BY Zenon, <2>1, <2>3
    <3> QED BY <2>4, <3>1
  <2>6. first \in GapFillers
    BY Zenon
  <2>7. select_gap_filler \in GapFillers
    <3> HIDE DEF K
    <3> QED BY Zenon, <2>5, <2>6 DEF select_gap_filler
  <2> QED BY Zenon, <1>3, <2>1, <2>7 DEF Selected
<1> QED BY Zenon, <1>2, <1>3

-----------------------------------------------------------------------------
\* The effect of a layout step on the slots: one more, at the end of the frame or
\* inside it.
SlotIsPlaced(slot) ==
  /\ phase = "layout"
  /\ slot \in Slot /\ slot.slot_id = next_slot_id /\ slot.function = fn
  /\ frame_slots' = frame_slots \cup {slot}
  /\ next_slot_id' = next_slot_id + 1
  /\ next_offset' \in Nat /\ next_offset <= next_offset' /\ End(slot) <= next_offset'
  /\ max_align' \in Nat \ {0}
  /\ base_offset' \in [Families -> Nat \cup {NoOffset}]
  /\ fixed' \subseteq fixed /\ reorderable' \subseteq reorderable
  /\ UNCHANGED <<program, phase, fn, addressing, assigned, pending, frame_size, plan>>

\* Every slot, published or not, has its type.
LEMMA SlotsAreTyped ==
  ASSUME TypeInv
  PROVE  /\ \A s \in AllSlots : /\ s \in Slot /\ s.slot_id \in Nat /\ s.align \in Nat
                                 /\ s.offset \in Nat /\ s.size \in Nat /\ End(s) \in Nat
                                 /\ s.function \in Function
         /\ frame_slots \subseteq AllSlots
<1>1. \A k \in DOMAIN assigned : assigned[k] \in Slot
  <2>1. assigned \in Seq(Slot)
    BY Zenon DEF TypeInv
  <2> QED BY <2>1
<1>2. \A s \in AllSlots : s \in Slot
  BY Zenon, <1>1 DEF TypeInv, AllSlots
<1>3. \A s \in Slot : /\ s.slot_id \in Nat /\ s.align \in Nat /\ s.offset \in Nat
                      /\ s.size \in Nat /\ End(s) \in Nat /\ s.function \in Function
  BY DEF Slot, End
<1> QED BY Zenon, <1>2, <1>3 DEF AllSlots

\* A step that places an object keeps ids fresh and extents true.
LEMMA PlacingKeepsIInv ==
  ASSUME IInv, NEW slot, SlotIsPlaced(slot)
  PROVE  IInv'
<1>1. TypeInv'
  <2>1. WellFormed' /\ Placeable(fn)' = Placeable(fn)
    BY Zenon DEF IInv, TypeInv, SlotIsPlaced, WellFormed, program, Placeable
  <2>2. frame_slots' \subseteq Slot
    BY Zenon DEF IInv, TypeInv, SlotIsPlaced
  <2>3. fixed' \cup reorderable' \subseteq Placeable(fn)
    BY Zenon DEF IInv, TypeInv, SlotIsPlaced
  <2>4. next_slot_id' \in Nat
    BY DEF IInv, TypeInv, SlotIsPlaced
  <2>5. fixed' \subseteq Nat /\ reorderable' \subseteq Nat
    BY Zenon DEF IInv, TypeInv, SlotIsPlaced
  <2> QED BY Zenon, <2>1, <2>2, <2>3, <2>4, <2>5 DEF IInv, TypeInv, SlotIsPlaced
<1>2. AllSlots' = AllSlots \cup {slot} /\ assigned = << >>
  BY DEF IInv, IdsAreFresh, SlotIsPlaced, AllSlots
<1>3. \A s \in AllSlots : s \in Slot /\ End(s) \in Nat
  BY Zenon, SlotsAreTyped DEF IInv
<1>4. slot \in Slot /\ End(slot) \in Nat /\ slot.align \in Nat /\ slot.slot_id \in Nat
  BY DEF SlotIsPlaced, Slot, End
<1>5. Bounded'
  <2>1. PICK b \in Nat : \A s \in AllSlots : s.slot_id < b /\ s.align <= b /\ End(s) <= b
    BY Zenon DEF IInv, Bounded
  <2> DEFINE c == b + slot.align + slot.slot_id + 1 + End(slot)
  <2>2. c \in Nat /\ slot.slot_id < c /\ slot.align <= c /\ End(slot) <= c /\ b <= c
    BY <1>4
  <2>3. \A s \in AllSlots : s.slot_id < c /\ s.align <= c /\ End(s) <= c
    <3> HIDE DEF c
    <3>1. \A s \in AllSlots : s.slot_id \in Nat /\ s.align \in Nat /\ End(s) \in Nat
      BY Zenon, <1>3 DEF Slot
    <3> QED BY <2>1, <2>2, <3>1
  <2>4. \A s \in AllSlots' : s.slot_id < c /\ s.align <= c /\ End(s) <= c
    <3> HIDE DEF c
    <3> QED BY Zenon, <1>2, <2>2, <2>3
  <2> HIDE DEF c
  <2> QED BY Zenon, <2>2, <2>4 DEF Bounded, End
<1>6. IdsAreFresh'
  <2>1. \A s \in AllSlots : s.slot_id < next_slot_id /\ s.slot_id \in Nat
    BY Zenon, <1>3 DEF IInv, IdsAreFresh, SlotIsPlaced, Handing, Slot
  <2>2. /\ next_slot_id \in Nat /\ next_slot_id' = next_slot_id + 1
        /\ slot.slot_id = next_slot_id
    BY Zenon DEF IInv, TypeInv, SlotIsPlaced
  <2>3. \A s \in AllSlots' : s.slot_id < next_slot_id'
    BY <1>2, <2>1, <2>2
  <2>4. \A s, t \in AllSlots' : s.slot_id = t.slot_id => s = t
    BY <1>2, <2>1, <2>2 DEF IInv, IdsAreFresh
  <2>5. phase' = "layout" /\ assigned' = << >>
    BY Zenon, <1>2 DEF SlotIsPlaced
  <2> QED BY Zenon, <2>3, <2>4, <2>5 DEF IdsAreFresh, Handing
<1>7. ExtentsAreKept'
  <2>1. /\ phase' = "layout" /\ fn' = fn /\ frame_size' = frame_size /\ phase = "layout"
        /\ frame_slots' = frame_slots \cup {slot} /\ slot.function = fn /\ fn \in Nat
    BY DEF SlotIsPlaced, IInv, TypeInv, Function
  <2>2. /\ \A s \in frame_slots : s.function <= fn /\ (s.function < fn => End(s) <= frame_size)
        /\ \A s \in AllSlots : s.function = fn => End(s) <= next_offset
    BY Zenon, <2>1 DEF IInv, ExtentsAreKept, Handing
  <2>3. \A s \in AllSlots' : s.function = fn => End(s) <= next_offset'
    BY <1>2, <1>3, <1>4, <2>2 DEF SlotIsPlaced, IInv, TypeInv
  <2>4. \A s \in frame_slots' : s.function <= fn /\ (s.function < fn => End(s) <= frame_size)
    BY <2>1, <2>2
  <2> QED BY Zenon, <2>1, <2>3, <2>4 DEF ExtentsAreKept, End
<1> QED BY Zenon, <1>1, <1>5, <1>6, <1>7 DEF IInv

\* append_slot_for_object places a slot.
LEMMA AppendSlotPlaces ==
  ASSUME IInv, phase = "layout", NEW i \in fixed \cup reorderable, append_slot(i),
         base_offset' = base_offset, fixed' \subseteq fixed, reorderable' \subseteq reorderable,
         UNCHANGED <<program, phase, fn, addressing, assigned, pending, frame_size, plan>>
  PROVE  SlotIsPlaced(NewSlot(i, align_to(next_offset, Obj(i).align), Obj(i).size, Obj(i).align))
<1> DEFINE offset == align_to(next_offset, Obj(i).align)
           slot == NewSlot(i, offset, Obj(i).size, Obj(i).align)
<1>1. TypeInv
  BY Zenon DEF IInv
<1>2. /\ offset \in Nat /\ next_offset <= offset /\ i \in Nat
      /\ Obj(i).size \in Nat /\ Obj(i).align \in Nat \ {0}
      /\ next_offset \in Nat /\ next_slot_id \in Nat /\ fn \in Function
      /\ max_align \in Nat \ {0}
  BY Zenon, <1>1, PlaceableFacts DEF ObjectFacts, TypeInv
<1>3. /\ frame_slots' = frame_slots \cup {slot} /\ next_offset' = offset + Obj(i).size
      /\ max_align' = larger(max_align, Obj(i).align) /\ next_slot_id' = next_slot_id + 1
  BY Zenon DEF append_slot
<1>4. max_align' \in Nat \ {0}
  BY Zenon, <1>2, <1>3 DEF larger
<1>5. base_offset' \in [Families -> Nat \cup {NoOffset}]
  BY Zenon, <1>1 DEF TypeInv
<1> HIDE DEF offset
<1>6. slot \in Slot /\ slot.slot_id = next_slot_id /\ slot.function = fn
      /\ End(slot) = offset + Obj(i).size
  BY Zenon, <1>2 DEF NewSlot, Slot, End
<1>7. next_offset' \in Nat /\ next_offset <= next_offset'
  BY <1>2, <1>3
<1>8. End(slot) <= next_offset'
  BY <1>2, <1>3, <1>6
<1> HIDE DEF slot
<1>9. SlotIsPlaced(slot)
  BY Zenon, <1>3, <1>4, <1>5, <1>6, <1>7, <1>8 DEF SlotIsPlaced
<1> QED BY Zenon, <1>9 DEF slot, offset

\* The base of a family: chosen before, or the aligned end of the frame.
FamilyBase(family) ==
  IF base_offset[family] = NoOffset THEN align_to(next_offset, FamilyAlignment(fn, family))
                                    ELSE base_offset[family]

\* append_slice_offset_slot_for_object places a slot.
LEMMA AppendSlicePlaces ==
  ASSUME IInv, NEW i \in fixed, PlaceSlice(i)
  PROVE  /\ Obj(i).family \in Families
         /\ FamilyBase(Obj(i).family) \in Nat
         /\ base_offset[Obj(i).family] = NoOffset => next_offset <= FamilyBase(Obj(i).family)
         /\ SlotIsPlaced(NewSlot(i, FamilyBase(Obj(i).family) + Obj(i).slice_offset,
                                 Obj(i).size, Obj(i).align))
<1> DEFINE family == Obj(i).family
           base == FamilyBase(family)
           offset == base + Obj(i).slice_offset
           slot == NewSlot(i, offset, Obj(i).size, Obj(i).align)
<1>1. TypeInv /\ phase = "layout" /\ KeepsSlice(i)
  BY Zenon DEF IInv, PlaceSlice
<1>2. /\ i \in Nat /\ Obj(i).size \in Nat /\ Obj(i).align \in Nat \ {0}
      /\ Obj(i).slice_offset \in Nat /\ family \in Families
      /\ next_offset \in Nat /\ next_slot_id \in Nat /\ fn \in Function
      /\ max_align \in Nat \ {0} /\ base_offset \in [Families -> Nat \cup {NoOffset}]
  BY Zenon, <1>1, PlaceableFacts DEF ObjectFacts, TypeInv, KeepsSlice
<1>3. FamilyAlignment(fn, family) \in Nat \ {0}
  BY Zenon, <1>1, FamilyAlignmentIsPositive DEF TypeInv
<1>4. base \in Nat /\ (base_offset[family] = NoOffset => next_offset <= base)
  <2> HIDE DEF family
  <2>1. base_offset[family] \in Nat \cup {NoOffset}
    BY Zenon, <1>2
  <2> QED BY Zenon, <1>2, <1>3, <2>1, AlignToGrows DEF FamilyBase, NoOffset
<1>5. /\ base_offset' = [base_offset EXCEPT ![family] = base]
      /\ frame_slots' = frame_slots \cup {slot}
      /\ next_offset' = larger(next_offset, offset + Obj(i).size)
      /\ max_align' = larger(max_align, FamilyAlignment(fn, family))
      /\ next_slot_id' = next_slot_id + 1
      /\ fixed' = fixed \ {i} /\ reorderable' = reorderable
      /\ UNCHANGED <<program, phase, fn, addressing, assigned, pending, frame_size, plan>>
  BY Zenon DEF PlaceSlice, append_slice_offset_slot, FamilyBase
<1>6. /\ offset \in Nat
      /\ next_offset' \in Nat /\ next_offset <= next_offset'
      /\ offset + Obj(i).size <= next_offset'
  <2> HIDE DEF base
  <2>1. offset \in Nat /\ offset + Obj(i).size \in Nat
    BY <1>2, <1>4, NaturalOrder, Zenon
  <2> HIDE DEF offset
  <2> QED BY <1>2, <1>5, <2>1, LargerIsUpperBound, Zenon
<1>7. max_align' \in Nat \ {0}
  BY Zenon, <1>2, <1>3, <1>5 DEF larger
<1>8. base_offset' \in [Families -> Nat \cup {NoOffset}]
  <2> HIDE DEF family, base
  <2> QED BY Zenon, <1>2, <1>4, <1>5
<1> HIDE DEF offset
<1>9. slot \in Slot /\ slot.slot_id = next_slot_id /\ slot.function = fn
      /\ End(slot) = offset + Obj(i).size
  BY Zenon, <1>2, <1>6 DEF NewSlot, Slot, End
<1> HIDE DEF slot
<1>10. SlotIsPlaced(slot)
  BY Zenon, <1>1, <1>5, <1>6, <1>7, <1>8, <1>9 DEF SlotIsPlaced
<1> QED BY Zenon, <1>2, <1>4, <1>10 DEF slot, offset


-----------------------------------------------------------------------------
\* run_stack_layout starts with no slot at all.
LEMMA InitIInv == WellFormed /\ Start => IInv
<1> SUFFICES ASSUME WellFormed, Start PROVE IInv
  BY Zenon
<1> USE NumFunctionsAssumption
<1>1. fn \in Function
  BY DEF Start, Function
<1>2. fixed \cup reorderable \subseteq Placeable(fn)
  BY Zenon DEF Start, FixedObjects, ReorderableObjects
<1>3. Placeable(fn) \subseteq Nat
  BY Zenon, <1>1, ObjectsAreTyped
<1>4. assigned \in Seq(Slot) /\ DOMAIN assigned = {}
  BY DEF Start
<1>5. base_offset \in [Families -> Nat \cup {NoOffset}]
  BY Zenon DEF Start
<1>6. AllSlots = {}
  BY Zenon, <1>4 DEF AllSlots, Start
<1>7. TypeInv
  BY <1>1, <1>2, <1>3, <1>4, <1>5 DEF TypeInv, Start
<1>8. Bounded
  BY Zenon, <1>6 DEF Bounded
<1>9. IdsAreFresh
  BY Zenon, <1>6, <1>4 DEF IdsAreFresh, Start, Handing
<1>10. ExtentsAreKept
  BY Zenon, <1>6 DEF ExtentsAreKept, Start, Handing
<1> QED BY Zenon, <1>7, <1>8, <1>9, <1>10 DEF IInv

\* A step that adds no slot keeps them bounded.
LEMMA BoundedIsKept ==
  ASSUME Bounded, AllSlots' \subseteq AllSlots
  PROVE  Bounded'
BY Zenon DEF Bounded, End

\* A function's finished layout goes into the frame size before the next begins;
\* run_regalloc takes its first id and offset from what is published.
LEMMA EndLayoutKeepsIInv ==
  ASSUME IInv, EndLayout
  PROVE  IInv'
<1> USE NumFunctionsAssumption
<1> DEFINE size == align_to(next_offset, max_align)
<1>1. /\ TypeInv /\ Bounded /\ phase = "layout" /\ assigned = << >> /\ fn \in 1 .. NumFunctions
      /\ next_offset \in Nat /\ max_align \in Nat \ {0} /\ frame_size \in Nat
  BY Zenon DEF IInv, TypeInv, IdsAreFresh, EndLayout, Function
<1>2. size \in Nat /\ next_offset <= size
  BY Zenon, <1>1, AlignToGrows
<1>3. /\ frame_size' = larger(frame_size, size) /\ addressing' = [addressing EXCEPT ![fn] = size]
      /\ frame_slots' = frame_slots /\ UNCHANGED <<program, pending, plan>>
  BY Zenon DEF EndLayout
<1>4. frame_size' \in Nat /\ frame_size <= frame_size' /\ next_offset <= frame_size'
  <2> HIDE DEF size
  <2>1. frame_size' \in Nat /\ frame_size <= frame_size' /\ size <= frame_size'
    BY Zenon, <1>1, <1>2, <1>3, LargerIsUpperBound
  <2> QED BY <1>1, <1>2, <2>1
<1>5. WellFormed' /\ addressing' \in [Function -> Nat] /\ DOMAIN plan' = Function
      /\ pending' \in Nat /\ frame_slots' \subseteq Slot
  <2> HIDE DEF size
  <2> QED BY <1>1, <1>2, <1>3, Zenon DEF TypeInv, WellFormed, program
<1>6. \A s \in frame_slots : /\ End(s) <= frame_size' /\ End(s) \in Nat /\ s.function <= fn
                            /\ s.function \in Nat
  <2>1. \A s \in frame_slots : End(s) \in Nat /\ s.function \in Nat
    BY <1>1, SlotsAreTyped DEF Function
  <2>2. \A s \in frame_slots : s.function <= fn /\ (s.function < fn => End(s) <= frame_size)
    BY Zenon, <1>1 DEF IInv, ExtentsAreKept
  <2>3. \A s \in frame_slots : s.function = fn => End(s) <= next_offset
    BY Zenon, <1>1 DEF IInv, ExtentsAreKept, Handing, AllSlots
  <2> QED BY <1>1, <1>4, <2>1, <2>2, <2>3
<1>7. \A s, t \in frame_slots : s.slot_id = t.slot_id => s = t
  BY Zenon DEF IInv, IdsAreFresh, AllSlots
<1>8. CASE fn < NumFunctions /\ fn' = fn + 1 /\ StartLayout(fn + 1)
             /\ UNCHANGED <<phase, next_slot_id, assigned>>
  <2>1. fn + 1 \in Function /\ fn' \in Function
    BY <1>1, <1>8 DEF Function
  <2>2. AllSlots' = AllSlots /\ AllSlots = frame_slots
    BY <1>1, <1>3, <1>8 DEF AllSlots
  <2>3. TypeInv'
    <3>1. Placeable(fn + 1) \subseteq Nat
      BY Zenon, <1>1, <2>1, ObjectsAreTyped DEF TypeInv
    <3>2. fixed' \cup reorderable' \subseteq Placeable(fn + 1)
      BY Zenon, <1>8 DEF StartLayout, FixedObjects, ReorderableObjects
    <3>3. fixed' \subseteq Nat /\ reorderable' \subseteq Nat
      BY Zenon, <3>1, <3>2
    <3>4. Placeable(fn)' = Placeable(fn + 1)
      BY Zenon, <1>3, <1>8 DEF Placeable, program
    <3>5. base_offset' \in [Families -> Nat \cup {NoOffset}]
      BY Zenon, <1>8 DEF StartLayout
    <3>6. next_offset' \in Nat /\ max_align' \in Nat \ {0} /\ next_slot_id' \in Nat
      BY <1>1, <1>8 DEF StartLayout, TypeInv
    <3> QED BY <1>1, <1>4, <1>5, <1>8, <2>1, <3>2, <3>3, <3>4, <3>5, <3>6, Zenon DEF TypeInv
  <2>4. Bounded'
    BY Zenon, <1>1, <2>2, BoundedIsKept
  <2>5. IdsAreFresh'
    BY Zenon, <1>1, <1>8, <2>2 DEF IInv, IdsAreFresh, Handing
  <2>6. ExtentsAreKept'
    BY <1>1, <1>3, <1>6, <1>8, <2>2 DEF ExtentsAreKept, Handing, End
  <2> QED BY Zenon, <2>3, <2>4, <2>5, <2>6 DEF IInv
<1>9. CASE fn = NumFunctions /\ phase' = "regalloc" /\ fn' = 1 /\ StartRegalloc(1)
             /\ UNCHANGED layout
  <2>1. 1 \in Function
    BY DEF Function
  <2>2. AllSlots' = frame_slots /\ AllSlots = frame_slots
    BY <1>1, <1>3, <1>9 DEF AllSlots, StartRegalloc
  <2>3. /\ next_offset' \in Nat /\ max_align' \in Nat \ {0} /\ next_slot_id' \in Nat
        /\ \A s \in frame_slots : s.slot_id < next_slot_id'
        /\ \A s \in SlotsOf(1) : End(s) <= next_offset'
    BY Zenon, <1>1, <1>9, <2>1, FrameMaxima DEF StartRegalloc
  <2>4. assigned' = << >> /\ assigned' \in Seq(Slot)
    BY <1>9 DEF StartRegalloc
  <2>5. TypeInv'
    BY <1>1, <1>4, <1>5, <1>9, <2>1, <2>3, <2>4, Zenon DEF TypeInv, layout
  <2>6. Bounded'
    BY Zenon, <1>1, <2>2, BoundedIsKept
  <2>7. IdsAreFresh'
    BY <1>7, <1>9, <2>2, <2>3, <2>4 DEF IdsAreFresh, Handing
  <2>8. ExtentsAreKept'
    BY Zenon, <1>3, <1>6, <1>9, <2>2, <2>3 DEF ExtentsAreKept, Handing, End, SlotsOf
  <2> QED BY Zenon, <2>5, <2>6, <2>7, <2>8 DEF IInv
<1> QED BY Zenon, <1>8, <1>9 DEF EndLayout

\* A value that takes the slot of its stack object adds no slot.
LEMMA ReuseSlotKeepsIInv ==
  ASSUME IInv, ReuseSlot
  PROVE  IInv' /\ AllSlots' \subseteq AllSlots
<1>1. /\ TypeInv /\ Bounded /\ phase = "regalloc" /\ phase' = "regalloc"
      /\ UNCHANGED <<program, layout, phase, fn, next_offset, max_align, next_slot_id,
                     frame_slots, addressing, pending, frame_size, plan>>
  BY Zenon DEF IInv, ReuseSlot
<1>2. PICK s \in frame_slots : s.function = fn /\ assigned' = Append(assigned, s)
  BY Zenon DEF ReuseSlot, ExistingSlots
<1>3. assigned \in Seq(Slot) /\ s \in Slot
  BY Zenon, <1>1 DEF TypeInv
<1>4. /\ assigned' \in Seq(Slot) /\ DOMAIN assigned' = 1 .. Len(assigned) + 1
      /\ DOMAIN assigned = 1 .. Len(assigned) /\ Len(assigned) \in Nat
      /\ \A k \in DOMAIN assigned : assigned'[k] = assigned[k]
      /\ assigned'[Len(assigned) + 1] = s
  BY <1>2, <1>3
<1>5. \A k \in DOMAIN assigned' : k \in DOMAIN assigned \/ assigned'[k] = s
  BY <1>4
<1>6. AllSlots' \subseteq AllSlots
  BY Zenon, <1>1, <1>2, <1>4, <1>5 DEF AllSlots
<1>7. TypeInv'
  BY <1>1, <1>4, Zenon DEF TypeInv, WellFormed, program, layout
<1>8. Bounded'
  BY Zenon, <1>1, <1>6, BoundedIsKept
<1>9. IdsAreFresh'
  BY Zenon, <1>1, <1>2, <1>4, <1>5, <1>6 DEF IInv, IdsAreFresh, Handing
<1>10. ExtentsAreKept'
  BY Zenon, <1>1, <1>6 DEF IInv, ExtentsAreKept, Handing, End
<1> QED BY Zenon, <1>6, <1>7, <1>8, <1>9, <1>10 DEF IInv

\* The slot allocate_stack_slot hands out.
HandedOut ==
  NewSlot(Len(objects[fn]) + Len(assigned) + 1, align_to(next_offset, NextValue.align),
          NextValue.size, NextValue.align)

\* allocate_stack_slot hands out one slot with a new id at the end of the frame.
LEMMA AllocateSlotHandsOut ==
  ASSUME IInv, AllocateSlot
  PROVE  /\ HandedOut \in Slot /\ HandedOut.slot_id = next_slot_id /\ HandedOut.function = fn
         /\ next_offset <= HandedOut.offset
         /\ next_offset' \in Nat /\ next_offset <= next_offset' /\ End(HandedOut) = next_offset'
         /\ max_align' \in Nat \ {0} /\ next_slot_id' = next_slot_id + 1
         /\ assigned' = Append(assigned, HandedOut) /\ AllSlots' = AllSlots \cup {HandedOut}
<1> DEFINE v == NextValue
           offset == align_to(next_offset, v.align)
           object == Len(objects[fn]) + Len(assigned) + 1
<1>1. /\ TypeInv /\ fn \in Function /\ next_offset \in Nat /\ next_slot_id \in Nat
      /\ max_align \in Nat \ {0} /\ assigned \in Seq(Slot) /\ WellFormed
  BY Zenon DEF IInv, TypeInv
<1>2. v.size \in Nat /\ v.align \in Nat \ {0}
  <2> DEFINE V == [size : Nat, align : Nat \ {0}, object : Nat]
  <2>1. values[fn] \in Seq(V)
    BY Zenon, <1>1 DEF WellFormed
  <2>2. Len(assigned) \in Nat /\ Len(assigned) < Len(values[fn])
    BY <1>1 DEF AllocateSlot
  <2>3. Len(assigned) + 1 \in 1 .. Len(values[fn])
    BY <2>1, <2>2
  <2>4. v \in V
    <3> HIDE DEF V
    <3> QED BY <2>1, <2>3 DEF NextValue
  <2> HIDE DEF v
  <2> QED BY Zenon, <2>4
<1>3. offset \in Nat /\ next_offset <= offset
  BY <1>1, <1>2, AlignToGrows, Zenon
<1>4. object \in Nat
  BY <1>1, ObjectsAreTyped
<1>5. /\ assigned' = Append(assigned, HandedOut) /\ next_slot_id' = next_slot_id + 1
      /\ next_offset' = offset + v.size /\ max_align' = larger(max_align, v.align)
      /\ frame_slots' = frame_slots
  BY Zenon DEF AllocateSlot, HandedOut
<1>6. HandedOut = NewSlot(object, offset, v.size, v.align)
  BY Zenon DEF HandedOut
<1> HIDE DEF v, offset, object
<1>7. /\ HandedOut \in Slot /\ HandedOut.slot_id = next_slot_id /\ HandedOut.function = fn
      /\ HandedOut.offset = offset /\ End(HandedOut) = offset + v.size
  BY Zenon, <1>1, <1>2, <1>3, <1>4, <1>6 DEF NewSlot, Slot, End
<1>8. max_align' \in Nat \ {0}
  BY Zenon, <1>1, <1>2, <1>5 DEF larger
<1>9. next_offset' \in Nat /\ next_offset <= next_offset'
  BY <1>1, <1>2, <1>3, <1>5
<1>10. AllSlots' = AllSlots \cup {HandedOut}
  <2> HIDE DEF HandedOut
  <2>1. /\ DOMAIN assigned' = 1 .. Len(assigned) + 1 /\ Len(assigned) \in Nat
        /\ DOMAIN assigned = 1 .. Len(assigned)
        /\ \A k \in DOMAIN assigned : assigned'[k] = assigned[k]
        /\ assigned'[Len(assigned) + 1] = HandedOut
    BY <1>1, <1>5, <1>7
  <2>2. {assigned'[k] : k \in DOMAIN assigned'} =
          {assigned[k] : k \in DOMAIN assigned} \cup {HandedOut}
    BY <2>1
  <2> QED BY Zenon, <1>5, <2>2 DEF AllSlots
<1> QED BY Zenon, <1>3, <1>5, <1>7, <1>8, <1>9, <1>10

\* One more slot among those handed out or published keeps them bounded.
LEMMA BoundedGrows ==
  ASSUME TypeInv, Bounded, NEW slot \in Slot, AllSlots' \subseteq AllSlots \cup {slot}
  PROVE  Bounded'
<1>1. /\ \A s \in AllSlots : s.slot_id \in Nat /\ s.align \in Nat /\ End(s) \in Nat
      /\ slot.slot_id \in Nat /\ slot.align \in Nat /\ End(slot) \in Nat
  BY SlotsAreTyped DEF Slot, End
<1>2. PICK b \in Nat : \A s \in AllSlots : s.slot_id < b /\ s.align <= b /\ End(s) <= b
  BY Zenon DEF Bounded
<1> DEFINE c == b + slot.align + slot.slot_id + 1 + End(slot)
<1>3. c \in Nat /\ slot.slot_id < c /\ slot.align <= c /\ End(slot) <= c /\ b <= c
  BY <1>1
<1> HIDE DEF c
<1>4. \A s \in AllSlots : s.slot_id < c /\ s.align <= c /\ End(s) <= c
  BY <1>1, <1>2, <1>3
<1>5. \A s \in AllSlots' : s.slot_id < c /\ s.align <= c /\ End(s) <= c
  BY Zenon, <1>3, <1>4
<1> QED BY Zenon, <1>3, <1>5 DEF Bounded, End

\* A slot that is handed out has an id of its own before it is published.
LEMMA AllocateSlotKeepsIInv ==
  ASSUME IInv, AllocateSlot
  PROVE  IInv'
<1> DEFINE slot == HandedOut
<1>1. /\ slot \in Slot /\ slot.slot_id = next_slot_id /\ slot.function = fn
      /\ next_offset' \in Nat /\ next_offset <= next_offset' /\ End(slot) = next_offset'
      /\ max_align' \in Nat \ {0} /\ next_slot_id' = next_slot_id + 1
      /\ assigned' = Append(assigned, slot) /\ AllSlots' = AllSlots \cup {slot}
  BY Zenon, AllocateSlotHandsOut
<1>2. /\ TypeInv /\ Bounded /\ phase = "regalloc" /\ phase' = "regalloc"
      /\ UNCHANGED <<program, layout, fn, frame_slots, addressing, pending, frame_size, plan>>
      /\ next_slot_id \in Nat /\ next_offset \in Nat /\ assigned \in Seq(Slot)
  BY Zenon DEF IInv, TypeInv, AllocateSlot
<1> HIDE DEF slot
<1>3. \A s \in AllSlots : s.slot_id \in Nat /\ End(s) \in Nat
  BY Zenon, <1>2, SlotsAreTyped
<1>4. TypeInv'
  <2>1. assigned' \in Seq(Slot)
    BY <1>1, <1>2
  <2>2. WellFormed' /\ Placeable(fn)' = Placeable(fn)
    BY <1>2, Zenon DEF TypeInv, WellFormed, program, Placeable
  <2> QED BY <1>1, <1>2, <2>1, <2>2 DEF TypeInv, layout
<1>5. Bounded'
  BY Zenon, <1>1, <1>2, BoundedGrows
<1>6. IdsAreFresh'
  <2>1. \A s \in AllSlots : s.slot_id < next_slot_id
    BY Zenon, <1>2 DEF IInv, IdsAreFresh, Handing
  <2>2. \A s \in AllSlots' : s.slot_id < next_slot_id'
    BY <1>1, <1>2, <1>3, <2>1
  <2>3. \A s, t \in AllSlots' : s.slot_id = t.slot_id => s = t
    BY <1>1, <1>2, <1>3, <2>1 DEF IInv, IdsAreFresh
  <2>4. \A k \in DOMAIN assigned' : assigned'[k].function = fn'
    <3>1. \A k \in DOMAIN assigned : assigned[k].function = fn
      BY Zenon, <1>2 DEF IInv, IdsAreFresh
    <3>2. /\ assigned \in Seq(Slot) /\ assigned' = Append(assigned, slot)
          /\ slot \in Slot /\ slot.function = fn /\ fn' = fn
      BY <1>1, <1>2, Zenon
    <3> QED BY <3>1, <3>2
  <2> QED BY Zenon, <1>2, <2>2, <2>3, <2>4 DEF IdsAreFresh, Handing
<1>7. ExtentsAreKept'
  <2>1. /\ \A s \in frame_slots : End(s) <= frame_size
        /\ \A s \in AllSlots : s.function = fn => End(s) <= next_offset
    BY Zenon, <1>2 DEF IInv, ExtentsAreKept, Handing
  <2>2. \A s \in AllSlots' : s.function = fn => End(s) <= next_offset'
    BY <1>1, <1>2, <1>3, <2>1
  <2> QED BY Zenon, <1>2, <2>1, <2>2 DEF ExtentsAreKept, Handing, End
<1> QED BY Zenon, <1>4, <1>5, <1>6, <1>7 DEF IInv

\* publish_regalloc_stack_slots compares ids only: since ids are unique, a slot it
\* leaves out is published already.
LEMMA PublishSlotsKeepsIInv ==
  ASSUME IInv, PublishSlots
  PROVE  IInv' /\ AllSlots' \subseteq AllSlots
<1>1. /\ TypeInv /\ Bounded /\ phase = "regalloc" /\ phase' = "regalloc done"
      /\ frame_slots' = frame_slots \cup Unpublished
      /\ frame_size' = larger(frame_size, align_to(next_offset, max_align))
      /\ UNCHANGED <<program, layout, fn, next_offset, max_align, next_slot_id, addressing,
                     assigned, pending, plan>>
      /\ frame_size \in Nat /\ next_offset \in Nat /\ max_align \in Nat \ {0}
  BY Zenon DEF IInv, TypeInv, PublishSlots
<1>2. \A s \in AllSlots : s \in Slot /\ End(s) \in Nat
  BY Zenon, <1>1, SlotsAreTyped
<1>3. Unpublished \subseteq AllSlots /\ frame_slots \subseteq AllSlots
  BY Zenon DEF Unpublished, AllSlots
<1>4. AllSlots' \subseteq AllSlots /\ frame_slots' \subseteq AllSlots
  BY Zenon, <1>1, <1>3 DEF AllSlots
<1>5. frame_size' \in Nat /\ frame_size <= frame_size' /\ next_offset <= frame_size'
  <2> DEFINE size == align_to(next_offset, max_align)
  <2>1. align_to(next_offset, max_align) \in Nat /\ next_offset <= align_to(next_offset, max_align)
    BY Zenon, <1>1, AlignToGrows
  <2>2. /\ frame_size' \in Nat /\ frame_size <= frame_size'
        /\ align_to(next_offset, max_align) <= frame_size'
    BY Zenon, <1>1, <2>1, LargerIsUpperBound
  <2>3. next_offset \in Nat /\ size \in Nat /\ next_offset <= size /\ size <= frame_size'
    BY Zenon, <1>1, <2>1, <2>2
  <2> HIDE DEF size
  <2>4. next_offset <= frame_size'
    BY <2>2, <2>3
  <2> QED BY Zenon, <2>2, <2>4
<1>6. TypeInv'
  <2>1. frame_slots' \subseteq Slot
    BY Zenon, <1>2, <1>4
  <2> QED BY Zenon, <1>1, <1>5, <2>1 DEF TypeInv, WellFormed, program, layout
<1>7. Bounded'
  BY Zenon, <1>1, <1>4, BoundedIsKept
<1>8. IdsAreFresh'
  <2>1. \A s, t \in AllSlots : s.slot_id = t.slot_id => s = t
    BY Zenon DEF IInv, IdsAreFresh
  <2>2. \A k \in DOMAIN assigned : assigned[k] \in frame_slots'
    <3> SUFFICES ASSUME NEW k \in DOMAIN assigned PROVE assigned[k] \in frame_slots'
      BY Zenon
    <3>1. CASE \A t \in frame_slots : t.slot_id # assigned[k].slot_id
      BY Zenon, <1>1, <3>1 DEF Unpublished
    <3>2. CASE \E t \in frame_slots : t.slot_id = assigned[k].slot_id
      <4>1. PICK t \in frame_slots : t.slot_id = assigned[k].slot_id
        BY Zenon, <3>2
      <4>2. t = assigned[k]
        BY Zenon, <2>1, <4>1 DEF AllSlots
      <4> QED BY Zenon, <1>1, <4>2
    <3> QED BY Zenon, <3>1, <3>2
  <2>3. \A k \in DOMAIN assigned : assigned[k].function = fn
    BY Zenon, <1>1 DEF IInv, IdsAreFresh
  <2>4. \A s, t \in AllSlots' : s.slot_id = t.slot_id => s = t
    BY Zenon, <1>4, <2>1
  <2> QED BY Zenon, <1>1, <2>2, <2>3, <2>4 DEF IdsAreFresh, Handing
<1>9. ExtentsAreKept'
  <2>1. /\ \A s \in frame_slots : End(s) <= frame_size
        /\ \A s \in AllSlots : s.function = fn => End(s) <= next_offset
    BY Zenon, <1>1 DEF IInv, ExtentsAreKept, Handing
  <2>2. \A s \in Unpublished : s.function = fn
    BY Zenon, <1>1 DEF IInv, IdsAreFresh, Unpublished
  <2>3. \A s \in frame_slots' : End(s) <= frame_size'
    <3>0. frame_size \in Nat /\ next_offset \in Nat
      BY Zenon, <1>1
    <3>1. \A s \in frame_slots : End(s) <= frame_size'
      BY <3>0, <1>2, <1>3, <1>5, <2>1
    <3>2. \A s \in Unpublished : End(s) <= frame_size'
      BY <3>0, <1>2, <1>3, <1>5, <2>1, <2>2
    <3> QED BY Zenon, <1>1, <3>1, <3>2
  <2> QED BY Zenon, <1>1, <2>3 DEF ExtentsAreKept, Handing, End
<1> QED BY Zenon, <1>4, <1>6, <1>7, <1>8, <1>9 DEF IInv

\* The slots are not touched between and after the passes that place them.
LEMMA KeepingSlotsKeepsIInv ==
  ASSUME IInv, ~Handing, phase' \in {"plan", "variadic", "replan", "done"}, fn' \in Function,
         UNCHANGED <<program, layout, next_offset, max_align, next_slot_id, frame_slots,
                     addressing, assigned, frame_size>>,
         pending' \in Nat, DOMAIN plan' = Function,
         phase' \in {"replan", "done"} =>
           \A s \in frame_slots : s.function < fn' \/ phase' = "done"
                                    => End(s) <= plan'[s.function].size
  PROVE  IInv'
<1>1. AllSlots' = AllSlots
  BY Zenon DEF AllSlots
<1>2. TypeInv'
  <2>1. WellFormed'
    BY Zenon DEF IInv, TypeInv, WellFormed, program
  <2> QED BY Zenon, <2>1 DEF IInv, TypeInv, layout
<1>3. Bounded'
  BY Zenon, <1>1, BoundedIsKept DEF IInv
<1>4. IdsAreFresh'
  BY Zenon, <1>1 DEF IInv, IdsAreFresh, Handing
<1>5. ExtentsAreKept'
  BY Zenon, <1>1 DEF IInv, ExtentsAreKept, Handing, End
<1> QED BY Zenon, <1>2, <1>3, <1>4, <1>5 DEF IInv

\* Each function starts run_regalloc above the ids published so far.
LEMMA NextRegallocKeepsIInv ==
  ASSUME IInv, NextRegalloc
  PROVE  IInv'
<1> USE NumFunctionsAssumption
<1>1. /\ TypeInv /\ Bounded /\ phase = "regalloc done" /\ ~Handing /\ fn \in 1 .. NumFunctions
      /\ UNCHANGED <<program, layout, frame_slots, addressing, pending, frame_size, plan>>
  BY Zenon DEF IInv, TypeInv, NextRegalloc, Handing, Function
<1>0. /\ fn \in 1 .. NumFunctions /\ frame_slots' = frame_slots /\ pending \in Nat
      /\ pending' = pending /\ plan' = plan /\ DOMAIN plan = Function
  BY Zenon, <1>1 DEF TypeInv
<1>2. CASE fn < NumFunctions /\ phase' = "regalloc" /\ fn' = fn + 1 /\ StartRegalloc(fn + 1)
  <2>1. fn + 1 \in Function
    BY <1>0, <1>2 DEF Function
  <2>2. AllSlots' = frame_slots /\ frame_slots \subseteq AllSlots
    BY <1>0, <1>2 DEF AllSlots, StartRegalloc
  <2>3. /\ next_offset' \in Nat /\ max_align' \in Nat \ {0} /\ next_slot_id' \in Nat
        /\ \A s \in frame_slots : s.slot_id < next_slot_id'
        /\ \A s \in SlotsOf(fn + 1) : End(s) <= next_offset'
    BY Zenon, <1>1, <1>2, <2>1, FrameMaxima DEF StartRegalloc
  <2>4. assigned' = << >> /\ assigned' \in Seq(Slot)
    BY <1>2 DEF StartRegalloc
  <2>5. TypeInv'
    <3>1. WellFormed'
      BY Zenon, <1>1 DEF TypeInv, WellFormed, program
    <3> QED BY Zenon, <1>1, <1>2, <2>1, <2>3, <2>4, <3>1 DEF TypeInv, layout
  <2>6. Bounded'
    BY Zenon, <1>1, <2>2, BoundedIsKept
  <2>7. IdsAreFresh'
    <3>1. \A s, t \in frame_slots : s.slot_id = t.slot_id => s = t
      BY Zenon DEF IInv, IdsAreFresh, AllSlots
    <3> QED BY <1>2, <2>2, <2>3, <2>4, <3>1 DEF IdsAreFresh, Handing
  <2>8. ExtentsAreKept'
    <3>1. \A s \in frame_slots : End(s) <= frame_size
      BY Zenon, <1>1 DEF IInv, ExtentsAreKept
    <3> QED BY Zenon, <1>1, <1>2, <2>2, <2>3, <3>1 DEF ExtentsAreKept, Handing, End, SlotsOf
  <2> QED BY Zenon, <2>5, <2>6, <2>7, <2>8 DEF IInv
<1>3. CASE phase' = "plan" /\ fn' = 1
             /\ UNCHANGED <<next_offset, max_align, next_slot_id, assigned>>
  <2>1. fn' \in Function /\ pending' \in Nat /\ DOMAIN plan' = Function
    BY <1>0, <1>3 DEF Function
  <2> QED BY Zenon, <1>1, <1>3, <2>1, KeepingSlotsKeepsIInv
<1> QED BY Zenon, <1>2, <1>3 DEF NextRegalloc

\* The first plan touches no slot.
LEMMA PlanFramesKeepsIInv ==
  ASSUME IInv, PlanFrames
  PROVE  IInv'
<1> USE NumFunctionsAssumption
<1>1. /\ phase = "plan" /\ ~Handing /\ phase' \in {"plan", "variadic"}
      /\ UNCHANGED <<program, layout, next_offset, max_align, next_slot_id, frame_slots,
                     addressing, assigned, pending, frame_size>>
  BY Zenon DEF PlanFrames, Handing
<1>2. fn' \in Function
  BY DEF IInv, TypeInv, PlanFrames, Function
<1>3. pending' \in Nat /\ DOMAIN plan' = Function
  BY Zenon, <1>1 DEF IInv, TypeInv, PlanFrames, PlanFrame
<1> QED BY Zenon, <1>1, <1>2, <1>3, KeepingSlotsKeepsIInv

\* Going to the next function, or to the second plan, touches no slot.
LEMMA EndStorageKeepsIInv ==
  ASSUME IInv, EndStorage
  PROVE  IInv'
<1> USE NumFunctionsAssumption
<1>1. /\ phase = "variadic" /\ ~Handing /\ phase' \in {"variadic", "replan"}
      /\ phase' = "replan" => fn' = 1
      /\ UNCHANGED <<program, layout, next_offset, max_align, next_slot_id, frame_slots,
                     addressing, assigned, frame_size>>
  BY Zenon DEF EndStorage, Handing
<1>2. fn' \in Function
  BY DEF IInv, TypeInv, EndStorage, Function
<1>3. pending' \in Nat /\ DOMAIN plan' = Function
  BY Zenon DEF IInv, TypeInv, EndStorage
<1>4. phase' = "replan" => \A s \in frame_slots : ~(s.function < fn')
  BY <1>1, SlotsAreTyped DEF IInv, Function
<1> QED BY Zenon, <1>1, <1>2, <1>3, <1>4, KeepingSlotsKeepsIInv

\* The second plan gives each function a frame that contains its slots.
LEMMA ReplanFramesKeepsIInv ==
  ASSUME IInv, ReplanFrames
  PROVE  IInv'
<1> USE NumFunctionsAssumption
<1>1. /\ TypeInv /\ Bounded /\ phase = "replan" /\ ~Handing /\ phase' \in {"replan", "done"}
      /\ fn \in Function /\ PlanFrame(fn) /\ DOMAIN plan = Function
      /\ addressing \in [Function -> Nat]
      /\ UNCHANGED <<program, layout, next_offset, max_align, next_slot_id, frame_slots,
                     addressing, assigned, pending, frame_size>>
  BY Zenon DEF IInv, TypeInv, ReplanFrames, Handing
<1>2. fn' \in Function
  BY DEF IInv, TypeInv, ReplanFrames, Function
<1>3. pending' \in Nat /\ DOMAIN plan' = Function
  BY Zenon, <1>1 DEF TypeInv, PlanFrame
<1>4. \A s \in frame_slots : /\ s.function \in Function /\ s.function \in Nat /\ End(s) \in Nat
                             /\ s.function < fn => End(s) <= plan[s.function].size
  <2>1. \A s \in frame_slots : s.function \in Function /\ End(s) \in Nat
    BY <1>1, SlotsAreTyped, Zenon
  <2>2. \A s \in frame_slots : s.function < fn => End(s) <= plan[s.function].size
    BY <1>1, Zenon DEF IInv, ExtentsAreKept
  <2>3. \A f \in Function : f \in Nat
    BY DEF Function
  <2> QED BY Zenon, <2>1, <2>2, <2>3
<1>5. plan'[fn].size = PlannedSize(fn) /\ \A f \in Function : f # fn => plan'[f] = plan[f]
  BY Zenon, <1>1 DEF PlanFrame
<1>6. \A s \in frame_slots : s.function = fn => End(s) <= PlannedSize(fn)
  <2>1. /\ function_frame_extent(fn) \in Nat
        /\ \A s \in SlotsOf(fn) : End(s) <= function_frame_extent(fn)
    BY Zenon, <1>1, FrameMaxima
  <2>2. addressing[fn] \in Nat
    BY Zenon, <1>1
  <2>3. PlannedSize(fn) \in Nat /\ function_frame_extent(fn) <= PlannedSize(fn)
    BY <2>1, <2>2, LargerIsUpperBound, Zenon DEF PlannedSize
  <2>4. \A s \in frame_slots : s.function = fn => End(s) <= function_frame_extent(fn)
    BY Zenon, <2>1 DEF SlotsOf
  <2> DEFINE size == PlannedSize(fn)
             extent == function_frame_extent(fn)
  <2>5. size \in Nat /\ extent \in Nat /\ extent <= size
    BY Zenon, <2>1, <2>3
  <2>6. \A s \in frame_slots : s.function = fn => End(s) <= extent
    BY Zenon, <2>4
  <2> HIDE DEF size, extent
  <2>7. \A s \in frame_slots : s.function = fn => End(s) <= size
    BY <1>4, <2>5, <2>6, NaturalOrder, Zenon
  <2> QED BY Zenon, <2>7 DEF size
<1>7. \A s \in frame_slots : s.function <= fn => End(s) <= plan'[s.function].size
  <2>1. \A s \in frame_slots : s.function = fn => End(s) <= plan'[s.function].size
    BY Zenon, <1>5, <1>6
  <2>2. fn \in Nat
    BY <1>1 DEF Function
  <2>3. \A s \in frame_slots : s.function < fn => End(s) <= plan'[s.function].size
    BY <2>2, <1>4, <1>5
  <2> QED BY <1>4, <2>1, <2>2, <2>3, NaturalOrder, Zenon
<1>8. \A s \in frame_slots : s.function < fn' \/ phase' = "done" => s.function <= fn
  <2>1. /\ fn \in 1 .. NumFunctions
        /\ fn < NumFunctions => fn' = fn + 1 /\ phase' # "done"
        /\ ~(fn < NumFunctions) => fn' = fn
    BY Zenon, <1>1 DEF ReplanFrames, Function
  <2>2. \A s \in frame_slots : s.function \in 1 .. NumFunctions
    BY Zenon, <1>4 DEF Function
  <2>3. CASE fn < NumFunctions
    BY <2>1, <2>2, <2>3
  <2>4. CASE fn = NumFunctions
    BY <2>1, <2>2, <2>4
  <2> QED BY <2>1, <2>3, <2>4
<1> QED BY Zenon, <1>1, <1>2, <1>3, <1>7, <1>8, KeepingSlotsKeepsIInv

\* The slot that append_variadic_storage_slot adds.
StorageSlot ==
  LET want == storage[fn][pending + 1] IN
  [slot_id |-> next_frame_slot_id, function |-> fn,
   object |-> Len(objects[fn]) + Len(values[fn]) + pending + 1,
   offset |-> align_to(function_frame_extent(fn), want.align),
   size |-> want.size, align |-> want.align]

\* append_variadic_storage_slot places its slot behind the frame it finds.
LEMMA AppendStoragePlaces ==
  ASSUME IInv, AppendStorage
  PROVE  /\ StorageSlot \in Slot /\ StorageSlot.slot_id = next_frame_slot_id
         /\ StorageSlot.function = fn
         /\ function_frame_extent(fn) \in Nat
         /\ function_frame_extent(fn) <= StorageSlot.offset
         /\ frame_slots' = frame_slots \cup {StorageSlot}
         /\ frame_size' \in Nat /\ frame_size <= frame_size' /\ End(StorageSlot) <= frame_size'
<1> DEFINE want == storage[fn][pending + 1]
           extent == function_frame_extent(fn)
           offset == align_to(extent, want.align)
           object == Len(objects[fn]) + Len(values[fn]) + pending + 1
<1>1. /\ TypeInv /\ Bounded /\ fn \in Function /\ pending \in Nat /\ frame_size \in Nat
      /\ WellFormed /\ pending < Len(storage[fn])
  BY Zenon DEF IInv, TypeInv, AppendStorage
<1>2. /\ frame_slots' = frame_slots \cup {StorageSlot}
      /\ frame_size' = larger(frame_size, offset + want.size)
  BY Zenon DEF AppendStorage, StorageSlot
<1>3. StorageSlot = [slot_id |-> next_frame_slot_id, function |-> fn, object |-> object,
                     offset |-> offset, size |-> want.size, align |-> want.align]
  BY Zenon DEF StorageSlot
<1> HIDE DEF want, extent, offset, object
<1>4. want.size \in Nat /\ want.align \in Nat \ {0}
  <2> DEFINE W == [size : Nat, align : Nat \ {0}]
  <2>1. storage[fn] \in Seq(W)
    BY Zenon, <1>1 DEF WellFormed
  <2>2. want \in W
    <3> HIDE DEF W
    <3>1. Len(storage[fn]) \in Nat
      BY <2>1
    <3>2. pending + 1 \in 1 .. Len(storage[fn])
      BY <1>1, <3>1
    <3> QED BY <2>1, <3>2 DEF want
  <2> QED BY Zenon, <2>2
<1>5. object \in Nat
  <2> DEFINE V == [size : Nat, align : Nat \ {0}, object : Nat]
             m == Len(objects[fn])
             n == Len(values[fn])
  <2>1. m \in Nat
    BY Zenon, <1>1, ObjectsAreTyped
  <2>2. values[fn] \in Seq(V)
    BY Zenon, <1>1 DEF WellFormed
  <2> HIDE DEF V
  <2>3. n \in Nat
    BY <2>2
  <2>4. pending \in Nat /\ object = m + n + pending + 1
    BY Zenon, <1>1 DEF object
  <2> HIDE DEF m, n
  <2> QED BY <2>1, <2>3, <2>4
<1>6. extent \in Nat /\ next_frame_slot_id \in Nat
  BY Zenon, <1>1, FrameMaxima DEF extent
<1>7. offset \in Nat /\ extent <= offset
  BY Zenon, <1>4, <1>6, AlignToGrows DEF offset
<1>8. offset + want.size \in Nat
  BY <1>4, <1>7, NaturalOrder, Zenon
<1>9. StorageSlot \in Slot
  BY Zenon, <1>1, <1>3, <1>4, <1>5, <1>6, <1>7 DEF Slot
<1>10. /\ StorageSlot.slot_id = next_frame_slot_id /\ StorageSlot.function = fn
       /\ StorageSlot.offset = offset /\ End(StorageSlot) = offset + want.size
  BY Zenon, <1>3 DEF End
<1>11. frame_size' \in Nat /\ frame_size <= frame_size' /\ offset + want.size <= frame_size'
  <2>1. frame_size \in Nat
    BY Zenon, <1>1
  <2> QED BY <1>2, <1>8, <2>1, LargerIsUpperBound, Zenon
<1>12. frame_slots' = frame_slots \cup {StorageSlot}
  BY Zenon, <1>2
<1>13. End(StorageSlot) <= frame_size' /\ extent <= StorageSlot.offset
  BY <1>7, <1>10, <1>11, Zenon
<1> QED BY Zenon, <1>6, <1>9, <1>10, <1>11, <1>12, <1>13, ZenonT(30) DEF extent

\* The storage slot gets a new id and lies inside the new frame size.
LEMMA AppendStorageKeepsIInv ==
  ASSUME IInv, AppendStorage
  PROVE  IInv' /\ AllSlots' = AllSlots \cup {StorageSlot}
<1> DEFINE slot == StorageSlot
<1>1. /\ slot \in Slot /\ slot.slot_id = next_frame_slot_id /\ slot.function = fn
      /\ frame_slots' = frame_slots \cup {slot}
      /\ frame_size' \in Nat /\ frame_size <= frame_size' /\ End(slot) <= frame_size'
  BY AppendStoragePlaces, Zenon
<1>2. /\ TypeInv /\ Bounded /\ phase = "variadic" /\ phase' = phase /\ fn \in Function
      /\ ~Handing /\ pending \in Nat /\ pending' = pending + 1 /\ frame_size \in Nat
      /\ UNCHANGED <<program, layout, fn, next_offset, max_align, next_slot_id, addressing,
                     assigned, plan>>
  BY Zenon DEF IInv, TypeInv, AppendStorage, Handing
<1>3. next_frame_slot_id \in Nat /\ \A s \in frame_slots : s.slot_id < next_frame_slot_id
  BY Zenon, <1>2, FrameMaxima
<1>4. \A s \in AllSlots : s.slot_id \in Nat /\ End(s) \in Nat
  BY Zenon, <1>2, SlotsAreTyped
<1> HIDE DEF slot
<1>5. AllSlots' = AllSlots \cup {slot}
  BY Zenon, <1>1, <1>2 DEF AllSlots
<1>6. AllSlots = frame_slots
  BY Zenon, <1>2 DEF IInv, IdsAreFresh, AllSlots
<1>7. TypeInv'
  <2>1. WellFormed'
    BY <1>2, Zenon DEF TypeInv, WellFormed, program
  <2>2. frame_slots' \subseteq Slot
    BY <1>1, <1>2, Zenon DEF TypeInv
  <2>3. pending' \in Nat
    BY <1>2
  <2> QED BY Zenon, <1>1, <1>2, <2>1, <2>2, <2>3 DEF TypeInv, layout
<1>8. Bounded'
  BY Zenon, <1>1, <1>2, <1>5, BoundedGrows
<1>9. IdsAreFresh'
  <2>1. \A s, t \in AllSlots' : s.slot_id = t.slot_id => s = t
    <3>1. \A s, t \in AllSlots : s.slot_id = t.slot_id => s = t
      BY Zenon DEF IInv, IdsAreFresh
    <3>2. \A s \in AllSlots : s.slot_id # slot.slot_id
      BY <1>1, <1>3, <1>4, <1>6
    <3> QED BY Zenon, <1>5, <3>1, <3>2
  <2>2. \A k \in DOMAIN assigned : assigned[k] \in frame_slots'
    BY Zenon, <1>1, <1>2 DEF IInv, IdsAreFresh
  <2> QED BY Zenon, <1>2, <2>1, <2>2 DEF IdsAreFresh, Handing
<1>10. ExtentsAreKept'
  <2>1. \A s \in frame_slots : End(s) <= frame_size
    BY Zenon, <1>2 DEF IInv, ExtentsAreKept
  <2>2. \A s \in frame_slots : End(s) <= frame_size'
    BY <1>1, <1>2, <1>4, <1>6, <2>1
  <2>3. \A s \in frame_slots' : End(s) <= frame_size'
    BY Zenon, <1>1, <2>2
  <2> QED BY Zenon, <1>2, <2>3 DEF ExtentsAreKept, Handing, End
<1> QED BY Zenon, <1>5, <1>7, <1>8, <1>9, <1>10 DEF IInv, slot

-----------------------------------------------------------------------------
\* A fixed object gets one slot.
LEMMA PlaceFixedPlaces ==
  ASSUME IInv, NEW i \in fixed, PlaceFixed(i)
  PROVE  SlotIsPlaced(NewSlot(i, align_to(next_offset, Obj(i).align), Obj(i).size, Obj(i).align))
<1>1. /\ phase = "layout" /\ i \in fixed \cup reorderable /\ append_slot(i)
      /\ base_offset' = base_offset /\ fixed' \subseteq fixed /\ reorderable' \subseteq reorderable
      /\ UNCHANGED <<program, phase, fn, addressing, assigned, pending, frame_size, plan>>
  BY Zenon DEF PlaceFixed
<1> QED BY Zenon, <1>1, AppendSlotPlaces

\* A reorderable object, gap filler or not, gets one slot.
LEMMA PlaceReorderablePlaces ==
  ASSUME IInv, PlaceReorderable
  PROVE  /\ Selected \in reorderable
         /\ SlotIsPlaced(NewSlot(Selected, align_to(next_offset, Obj(Selected).align),
                                 Obj(Selected).size, Obj(Selected).align))
<1> DEFINE i == Selected
<1>1. i \in reorderable
  BY Zenon, SelectedIsReorderable DEF IInv, PlaceReorderable
<1>2. /\ phase = "layout" /\ append_slot(i)
      /\ base_offset' = base_offset /\ fixed' \subseteq fixed /\ reorderable' \subseteq reorderable
      /\ UNCHANGED <<program, phase, fn, addressing, assigned, pending, frame_size, plan>>
  BY Zenon DEF PlaceReorderable
<1> HIDE DEF i
<1>3. SlotIsPlaced(NewSlot(i, align_to(next_offset, Obj(i).align), Obj(i).size, Obj(i).align))
  BY Zenon, <1>1, <1>2, AppendSlotPlaces
<1> QED BY Zenon, <1>1, <1>3 DEF i

\* A step of any pass keeps the invariant.
LEMMA NextKeepsIInv == IInv /\ [Next]_vars => IInv'
<1> SUFFICES ASSUME IInv, [Next]_vars PROVE IInv'
  BY Zenon
<1>1. ASSUME NEW i \in fixed, PlaceSlice(i) PROVE IInv'
  BY Zenon, <1>1, AppendSlicePlaces, PlacingKeepsIInv
<1>2. ASSUME NEW i \in fixed, PlaceFixed(i) PROVE IInv'
  BY Zenon, <1>2, PlaceFixedPlaces, PlacingKeepsIInv
<1>3. CASE PlaceReorderable
  BY Zenon, <1>3, PlaceReorderablePlaces, PlacingKeepsIInv
<1>4. CASE EndLayout
  BY Zenon, <1>4, EndLayoutKeepsIInv
<1>5. CASE ReuseSlot
  BY Zenon, <1>5, ReuseSlotKeepsIInv
<1>6. CASE AllocateSlot
  BY Zenon, <1>6, AllocateSlotKeepsIInv
<1>7. CASE PublishSlots
  BY Zenon, <1>7, PublishSlotsKeepsIInv
<1>8. CASE NextRegalloc
  BY Zenon, <1>8, NextRegallocKeepsIInv
<1>9. CASE PlanFrames
  BY Zenon, <1>9, PlanFramesKeepsIInv
<1>10. CASE AppendStorage
  BY Zenon, <1>10, AppendStorageKeepsIInv
<1>11. CASE EndStorage
  BY Zenon, <1>11, EndStorageKeepsIInv
<1>12. CASE ReplanFrames
  BY Zenon, <1>12, ReplanFramesKeepsIInv
<1>13. CASE UNCHANGED vars
  <2>1. UNCHANGED <<objects, values, saved, storage, fixed, reorderable, base_offset, phase, fn,
                    next_offset, max_align, next_slot_id, frame_slots, addressing, assigned,
                    pending, frame_size, plan>>
    BY Zenon, <1>13 DEF vars, program, layout
  <2>2. AllSlots' = AllSlots
    BY <2>1, Zenon DEF AllSlots
  <2>3. TypeInv'
    BY Zenon, <2>1 DEF IInv, TypeInv, WellFormed, Placeable
  <2>4. Bounded'
    BY Zenon, <2>2, BoundedIsKept DEF IInv
  <2>5. IdsAreFresh'
    BY Zenon, <2>1, <2>2 DEF IInv, IdsAreFresh, Handing
  <2>6. ExtentsAreKept'
    BY Zenon, <2>1, <2>2 DEF IInv, ExtentsAreKept, Handing, End
  <2> QED BY Zenon, <2>3, <2>4, <2>5, <2>6 DEF IInv
<1> QED BY Zenon, <1>1, <1>2, <1>3, <1>4, <1>5, <1>6, <1>7, <1>8, <1>9, <1>10, <1>11, <1>12, <1>13
     DEF Next

\* The inductive invariant: typed and bounded slots, fresh ids, and extents that
\* every pass passes on to the next.
THEOREM IInvHolds == Spec => []IInv
BY InitIInv, NextKeepsIInv, PTL DEF Spec

\* A slot id names one slot of the module, although assign_frame_slots, run_regalloc
\* and append_variadic_storage_slot each number slots.
THEOREM SlotIdsStayUnique == Spec => []SlotIdsAreUnique
<1>1. IInv => SlotIdsAreUnique
  BY Zenon DEF IInv, IdsAreFresh, AllSlots, SlotIdsAreUnique
<1> QED BY <1>1, IInvHolds, PTL

\* publish_regalloc_stack_slots, which publishes by id, drops no slot that
\* allocate_stack_slot has given to a value.
THEOREM AssignedSlotsStayPublished == Spec => []AssignedSlotsArePublished
<1>1. IInv => AssignedSlotsArePublished
  BY Zenon DEF IInv, IdsAreFresh, Handing, AssignedSlotsArePublished, SlotsOf
<1> QED BY <1>1, IInvHolds, PTL

\* When prealloc is done the module's frame size and the planned frame of each
\* function contain every slot, also the storage appended after the first plan.
THEOREM FramesContainTheirSlots == Spec => []FramesContainSlots
<1>1. IInv => FramesContainSlots
  BY Zenon DEF IInv, ExtentsAreKept, FramesContainSlots
<1> QED BY <1>1, IInvHolds, PTL

-----------------------------------------------------------------------------
(***************************************************************************)
(* The callee-saved registers.                                             *)
(***************************************************************************)

\* One step of the loop over the saved registers.
AfterSaved(f, k, offset) ==
  align_to(offset, saved[f][k].unit) + saved[f][k].unit * saved[f][k].width

\* The k-th saved register takes the frame from an offset to a later one.
LEMMA AfterSavedGrows ==
  ASSUME WellFormed, NEW f \in Function, NEW k \in DOMAIN saved[f], NEW offset \in Nat
  PROVE  /\ Len(saved[f]) \in Nat /\ DOMAIN saved[f] = 1 .. Len(saved[f])
         /\ align_to(offset, saved[f][k].unit) \in Nat
         /\ offset <= align_to(offset, saved[f][k].unit)
         /\ saved[f][k].unit * saved[f][k].width \in Nat
         /\ AfterSaved(f, k, offset) \in Nat /\ offset <= AfterSaved(f, k, offset)
<1> DEFINE R == [unit : Nat \ {0}, width : Nat \ {0}]
           u == saved[f][k].unit
           w == saved[f][k].width
<1>1. saved[f] \in Seq(R)
  BY Zenon DEF WellFormed
<1>2. Len(saved[f]) \in Nat /\ DOMAIN saved[f] = 1 .. Len(saved[f]) /\ saved[f][k] \in R
  <2> HIDE DEF R
  <2> QED BY <1>1
<1>3. u \in Nat \ {0} /\ w \in Nat
  BY Zenon, <1>2
<1> HIDE DEF R, u, w
<1>4. align_to(offset, u) \in Nat /\ offset <= align_to(offset, u)
  BY Zenon, <1>3, AlignToGrows
<1>5. u * w \in Nat
  BY <1>3
<1>6. align_to(offset, u) + u * w \in Nat /\ offset <= align_to(offset, u) + u * w
  <2> DEFINE p == u * w
             q == align_to(offset, u)
  <2> HIDE DEF p, q
  <2>1. p \in Nat /\ q \in Nat /\ offset <= q
    BY Zenon, <1>4, <1>5 DEF p, q
  <2>2. q + p \in Nat /\ offset <= q + p
    BY <2>1
  <2> QED BY Zenon, <2>2 DEF p, q
<1> QED BY Zenon, <1>2, <1>4, <1>5, <1>6 DEF AfterSaved, u, w

\* The ends of the first n saved registers behind a frame of some size.
AreEnds(f, size, n, end) ==
  /\ end \in [0 .. n -> Nat]
  /\ end[0] = size
  /\ \A k \in 1 .. n : end[k] = AfterSaved(f, k, end[k - 1])

\* One more register has an end.
LEMMA EndsExtend ==
  ASSUME WellFormed, NEW f \in Function, NEW size \in Nat, NEW n \in Nat,
         n + 1 \in DOMAIN saved[f], NEW end, AreEnds(f, size, n, end)
  PROVE  \E g : AreEnds(f, size, n + 1, g)
<1> DEFINE last == AfterSaved(f, n + 1, end[n])
           g == [k \in 0 .. n + 1 |-> IF k = n + 1 THEN last ELSE end[k]]
<1>1. end[n] \in Nat /\ \A k \in 0 .. n : end[k] \in Nat
  BY DEF AreEnds
<1>2. last \in Nat
  BY Zenon, <1>1, AfterSavedGrows
<1> HIDE DEF last
<1>3. g \in [0 .. n + 1 -> Nat]
  BY <1>1, <1>2
<1>4. g[0] = size /\ g[n + 1] = last /\ \A k \in 0 .. n : g[k] = end[k]
  BY DEF AreEnds
<1>5. \A k \in 1 .. n + 1 : g[k] = AfterSaved(f, k, g[k - 1])
  <2> SUFFICES ASSUME NEW k \in 1 .. n + 1 PROVE g[k] = AfterSaved(f, k, g[k - 1])
    BY Zenon
  <2> HIDE DEF g
  <2>1. CASE k = n + 1
    <3>1. k - 1 = n /\ g[k - 1] = end[n]
      BY <1>4, <2>1
    <3> QED BY Zenon, <1>4, <2>1, <3>1 DEF last
  <2>2. CASE k # n + 1
    <3>1. k \in 1 .. n /\ k \in 0 .. n /\ k - 1 \in 0 .. n
      BY <2>2
    <3> QED BY Zenon, <1>4, <3>1 DEF AreEnds
  <2> QED BY Zenon, <2>1, <2>2
<1> HIDE DEF g
<1> QED BY Zenon, <1>3, <1>4, <1>5 DEF AreEnds

\* The loop over the saved registers gives each one an end.
LEMMA EndsExist ==
  ASSUME WellFormed, NEW f \in Function, NEW size \in Nat
  PROVE  Len(saved[f]) \in Nat /\ \E g : AreEnds(f, size, Len(saved[f]), g)
<1> DEFINE n == Len(saved[f])
           T == {k \in 0 .. n : \E g : AreEnds(f, size, n - k, g)}
<1>1. n \in Nat /\ DOMAIN saved[f] = 1 .. n
  <2> DEFINE R == [unit : Nat \ {0}, width : Nat \ {0}]
  <2>1. saved[f] \in Seq(R)
    BY Zenon DEF WellFormed
  <2> HIDE DEF R
  <2> QED BY <2>1
<1> HIDE DEF n
<1>2. n \in T
  <2> DEFINE g == [k \in 0 .. 0 |-> size]
  <2>1. g \in [0 .. 0 -> Nat] /\ g[0] = size /\ 1 .. 0 = {}
    OBVIOUS
  <2> HIDE DEF g
  <2>2. AreEnds(f, size, 0, g)
    BY Zenon, <2>1 DEF AreEnds
  <2> QED BY <1>1, <2>2
<1>3. T \in SUBSET Nat
  OBVIOUS
<1>4. PICK m \in T : \A y \in T : m <= y
  <2> HIDE DEF T
  <2> QED BY <1>2, <1>3, LeastNatural, Zenon
<1>5. m = 0
  <2> SUFFICES ASSUME m # 0 PROVE FALSE
    BY Zenon
  <2>1. m \in 1 .. n /\ n - m \in Nat /\ (n - m) + 1 \in 1 .. n /\ m - 1 \in 0 .. n
        /\ n - (m - 1) = (n - m) + 1
    BY <1>1
  <2>2. PICK g : AreEnds(f, size, n - m, g)
    BY Zenon
  <2>3. \E h : AreEnds(f, size, (n - m) + 1, h)
    BY Zenon, <1>1, <2>1, <2>2, EndsExtend
  <2>4. m - 1 \in T
    BY Zenon, <2>1, <2>3
  <2> HIDE DEF T
  <2>5. m <= m - 1
    BY Zenon, <1>4, <2>4
  <2> QED BY <2>1, <2>5
<1>6. \E g : AreEnds(f, size, n - 0, g)
  BY Zenon, <1>5
<1>7. n - 0 = n
  BY <1>1
<1> QED BY Zenon, <1>1, <1>6, <1>7 DEF n

\* SavedEnd is what the loop computes.
LEMMA SavedEndIsDefined ==
  ASSUME WellFormed, NEW f \in Function, NEW size \in Nat
  PROVE  AreEnds(f, size, Len(saved[f]), SavedEnd(f, size))
<1> DEFINE n == Len(saved[f])
           Body(e) == [k \in 0 .. n |-> IF k = 0 THEN size
                         ELSE align_to(e[k - 1], saved[f][k].unit)
                                + saved[f][k].unit * saved[f][k].width]
           end == SavedEnd(f, size)
<1>1. n \in Nat /\ \E g : AreEnds(f, size, n, g)
  BY Zenon, EndsExist
<1>2. PICK g : AreEnds(f, size, n, g)
  BY Zenon, <1>1
<1>3. g = Body(g)
  <2>1. \A k \in 0 .. n : g[k] = Body(g)[k]
    BY <1>1, <1>2 DEF AreEnds, AfterSaved
  <2>2. DOMAIN g = 0 .. n /\ DOMAIN Body(g) = 0 .. n /\ g = [k \in 0 .. n |-> g[k]]
    BY Zenon, <1>2 DEF AreEnds
  <2> QED BY Zenon, <2>1, <2>2
<1>4. end = CHOOSE e : e = Body(e)
  BY Zenon DEF SavedEnd
<1>5. end = Body(end)
  <2> HIDE DEF Body, end
  <2> QED BY Zenon, <1>3, <1>4
<1>6. end = [k \in 0 .. n |-> end[k]] /\ DOMAIN end = 0 .. n
  <2>1. DOMAIN Body(end) = 0 .. n /\ Body(end) = [k \in 0 .. n |-> Body(end)[k]]
    BY Zenon
  <2> HIDE DEF Body, end
  <2> QED BY Zenon, <1>5, <2>1
<1>7. end[0] = size /\ \A k \in 1 .. n : end[k] = AfterSaved(f, k, end[k - 1])
  <2>1. Body(end)[0] = size /\ \A k \in 1 .. n : Body(end)[k] = AfterSaved(f, k, end[k - 1])
    <3> HIDE DEF end
    <3> QED BY <1>1 DEF AfterSaved
  <2> HIDE DEF Body, end
  <2> QED BY Zenon, <1>5, <2>1
<1> HIDE DEF end
<1>8. \A k \in 0 .. n : end[k] \in Nat
  <2> DEFINE T == {k \in 0 .. n : end[k] \notin Nat}
  <2> SUFFICES ASSUME T # {} PROVE FALSE
    BY Zenon
  <2>1. T \in SUBSET Nat
    OBVIOUS
  <2>2. PICK m \in T : \A y \in T : m <= y
    <3> HIDE DEF T
    <3> QED BY <2>1, LeastNatural, Zenon
  <2>3. m \in 1 .. n /\ m - 1 \in 0 .. n /\ ~(m <= m - 1)
    BY <1>1, <1>7
  <2>4. end[m - 1] \in Nat
    BY Zenon, <2>2, <2>3
  <2>5. m \in DOMAIN saved[f]
    <3> DEFINE R == [unit : Nat \ {0}, width : Nat \ {0}]
    <3>1. saved[f] \in Seq(R)
      BY Zenon DEF WellFormed
    <3> HIDE DEF R
    <3> QED BY <2>3, <3>1
  <2>6. AfterSaved(f, m, end[m - 1]) \in Nat
    BY Zenon, <2>4, <2>5, AfterSavedGrows
  <2> QED BY Zenon, <1>7, <2>3, <2>6
<1>9. end \in [0 .. n -> Nat]
  BY Zenon, <1>6, <1>8
<1> QED BY Zenon, <1>7, <1>9 DEF AreEnds, end

\* A later register ends behind an earlier one.
LEMMA EndsAreOrdered ==
  ASSUME WellFormed, NEW f \in Function, NEW size \in Nat, NEW end,
         AreEnds(f, size, Len(saved[f]), end), NEW j \in Nat
  PROVE  \A k \in 0 .. Len(saved[f]) : j <= k => end[j] <= end[k]
<1> DEFINE n == Len(saved[f])
           T == {k \in 0 .. n : j <= k /\ ~(end[j] <= end[k])}
<1>1. n \in Nat /\ DOMAIN saved[f] = 1 .. n
  <2> DEFINE R == [unit : Nat \ {0}, width : Nat \ {0}]
  <2>1. saved[f] \in Seq(R)
    BY Zenon DEF WellFormed
  <2> HIDE DEF R
  <2> QED BY <2>1
<1>2. (\A k \in 0 .. n : end[k] \in Nat) /\ \A k \in 1 .. n : end[k] = AfterSaved(f, k, end[k - 1])
  BY Zenon DEF AreEnds
<1> SUFFICES ASSUME T # {} PROVE FALSE
  BY Zenon
<1> HIDE DEF n
<1>3. T \in SUBSET Nat
  BY <1>1
<1>4. PICK m \in T : \A y \in T : m <= y
  <2> HIDE DEF T
  <2> QED BY <1>3, LeastNatural, Zenon
<1>5. m \in 0 .. n /\ j <= m /\ ~(end[j] <= end[m]) /\ j \in 0 .. n
  BY <1>1
<1>6. j # m /\ m - 1 \in 0 .. n /\ j <= m - 1 /\ m \in 1 .. n /\ ~(m <= m - 1)
  BY <1>1, <1>2, <1>5
<1>7. end[j] <= end[m - 1]
  BY Zenon, <1>4, <1>6
<1>8. end[m - 1] <= end[m]
  BY Zenon, <1>1, <1>2, <1>6, AfterSavedGrows
<1> QED BY <1>2, <1>5, <1>6, <1>7, <1>8

\* The saved registers lie behind the planned frame and behind each other.
LEMMA SavedSlotsAreApart ==
  ASSUME WellFormed, NEW f \in Function, PlannedSize(f) \in Nat
  PROVE  /\ \A r \in SavedSlots(f) : PlannedSize(f) <= r.offset /\ r.offset \in Nat
         /\ \A r, q \in SavedSlots(f) : r # q => Apart(r, q)
<1> DEFINE size == PlannedSize(f)
           end == SavedEnd(f, size)
           n == Len(saved[f])
           at(k) == align_to(end[k - 1], saved[f][k].unit)
           bytes(k) == saved[f][k].unit * saved[f][k].width
           slot(k) == [offset |-> at(k), size |-> bytes(k), register |-> k]
<1>1. AreEnds(f, size, n, end)
  BY Zenon, SavedEndIsDefined
<1>2. SavedSlots(f) = {slot(k) : k \in DOMAIN saved[f]}
  BY Zenon DEF SavedSlots
<1>3. n \in Nat /\ DOMAIN saved[f] = 1 .. n
  <2> DEFINE R == [unit : Nat \ {0}, width : Nat \ {0}]
  <2>1. saved[f] \in Seq(R)
    BY Zenon DEF WellFormed
  <2> HIDE DEF R
  <2> QED BY <2>1
<1> HIDE DEF size, end, n
<1>4. /\ end[0] = size /\ \A k \in 0 .. n : end[k] \in Nat
      /\ \A k \in 1 .. n : end[k] = AfterSaved(f, k, end[k - 1])
  BY Zenon, <1>1 DEF AreEnds
<1>5. \A j, k \in 0 .. n : j <= k => end[j] <= end[k]
  <2>1. size \in Nat
    BY Zenon DEF size
  <2> QED BY <1>1, <2>1, EndsAreOrdered DEF n
<1>6. \A k \in 1 .. n : /\ k - 1 \in 0 .. n /\ at(k) \in Nat /\ bytes(k) \in Nat
                        /\ end[k - 1] <= at(k) /\ at(k) + bytes(k) = end[k]
  <2> SUFFICES ASSUME NEW k \in 1 .. n
               PROVE  /\ k - 1 \in 0 .. n /\ at(k) \in Nat /\ bytes(k) \in Nat
                      /\ end[k - 1] <= at(k) /\ at(k) + bytes(k) = end[k]
    BY Zenon
  <2>1. k - 1 \in 0 .. n /\ end[k - 1] \in Nat
    BY <1>3, <1>4
  <2>2. at(k) \in Nat /\ end[k - 1] <= at(k) /\ bytes(k) \in Nat
    BY Zenon, <1>3, <2>1, AfterSavedGrows
  <2>3. at(k) + bytes(k) = end[k]
    BY <1>4, Zenon DEF AfterSaved
  <2> QED BY Zenon, <2>1, <2>2, <2>3
<1> HIDE DEF at, bytes
<1>7. \A k \in 1 .. n : size <= at(k)
  <2> SUFFICES ASSUME NEW k \in 1 .. n PROVE size <= at(k)
    BY Zenon
  <2>1. 0 \in 0 .. n /\ k - 1 \in 0 .. n /\ 0 <= k - 1
    BY <1>3
  <2>2. end[0] <= end[k - 1]
    BY Zenon, <1>5, <2>1
  <2> QED BY <1>4, <1>6, <2>1, <2>2
<1>8. \A j, k \in 1 .. n : j < k => at(j) + bytes(j) <= at(k)
  <2> SUFFICES ASSUME NEW j \in 1 .. n, NEW k \in 1 .. n, j < k
               PROVE  at(j) + bytes(j) <= at(k)
    BY Zenon
  <2>1. j \in 0 .. n /\ k - 1 \in 0 .. n /\ j <= k - 1
    BY <1>3
  <2>2. end[j] <= end[k - 1]
    BY Zenon, <1>5, <2>1
  <2>3. end[j] \in Nat /\ end[k - 1] \in Nat /\ at(k) \in Nat /\ end[k - 1] <= at(k)
        /\ at(j) + bytes(j) = end[j]
    BY Zenon, <1>4, <1>6, <2>1
  <2> QED BY <2>2, <2>3
<1>9. \A j, k \in 1 .. n : j # k => Apart(slot(j), slot(k))
  <2>1. \A j, k \in 1 .. n : j # k => j < k \/ k < j
    BY <1>3
  <2> QED BY <1>8, <2>1, Zenon DEF Apart
<1>10. \A r \in SavedSlots(f) : \E k \in 1 .. n : r = slot(k)
  BY Zenon, <1>2, <1>3
<1>11. \A k \in 1 .. n : slot(k).offset = at(k)
  BY Zenon
<1> HIDE DEF slot
<1>12. \A r \in SavedSlots(f) : size <= r.offset /\ r.offset \in Nat
  BY <1>6, <1>7, <1>10, <1>11, Zenon
<1>13. \A r, q \in SavedSlots(f) : r # q => Apart(r, q)
  BY <1>9, <1>10, Zenon
<1> QED BY Zenon, <1>12, <1>13 DEF size

\* The saved registers of a function's plan overlap nothing.
SavedAreApart(f) ==
  \A r \in plan[f].saved :
    /\ \A s \in SlotsOf(f) : Apart(r, s)
    /\ \A q \in plan[f].saved : r # q => Apart(r, q)

\* The second plan sees the last slot of every function.
SavedInv ==
  phase \in {"replan", "done"} =>
    \A f \in Function : f < fn \/ phase = "done" => SavedAreApart(f)

\* The second plan of a function.
LEMMA ReplanPlacesSaved ==
  ASSUME IInv, SavedInv, ReplanFrames
  PROVE  SavedInv'
<1> USE NumFunctionsAssumption
<1>1. /\ TypeInv /\ Bounded /\ WellFormed /\ phase = "replan" /\ fn \in Function
      /\ DOMAIN plan = Function /\ addressing \in [Function -> Nat]
      /\ plan' = [plan EXCEPT ![fn] = [size |-> PlannedSize(fn), saved |-> SavedSlots(fn)]]
      /\ frame_slots' = frame_slots
  BY Zenon DEF IInv, TypeInv, ReplanFrames, PlanFrame
<1>2. /\ function_frame_extent(fn) \in Nat
      /\ \A s \in SlotsOf(fn) : End(s) <= function_frame_extent(fn) /\ End(s) \in Nat
  <2>1. /\ function_frame_extent(fn) \in Nat
        /\ \A s \in SlotsOf(fn) : End(s) <= function_frame_extent(fn)
    BY <1>1, FrameMaxima, Zenon
  <2>2. \A s \in SlotsOf(fn) : End(s) \in Nat
    BY <1>1, SlotsAreTyped, Zenon DEF SlotsOf
  <2> QED BY Zenon, <2>1, <2>2
<1>3. PlannedSize(fn) \in Nat /\ function_frame_extent(fn) <= PlannedSize(fn)
  <2>1. addressing[fn] \in Nat
    BY Zenon, <1>1
  <2> QED BY <1>2, <2>1, LargerIsUpperBound, Zenon DEF PlannedSize
<1>4. /\ \A r \in SavedSlots(fn) : PlannedSize(fn) <= r.offset /\ r.offset \in Nat
      /\ \A r, q \in SavedSlots(fn) : r # q => Apart(r, q)
  BY <1>1, <1>3, SavedSlotsAreApart, Zenon
<1>5. \A r \in SavedSlots(fn) : \A s \in SlotsOf(fn) : Apart(r, s)
  <2> SUFFICES ASSUME NEW r \in SavedSlots(fn), NEW s \in SlotsOf(fn) PROVE Apart(r, s)
    BY Zenon
  <2> DEFINE extent == function_frame_extent(fn)
             size == PlannedSize(fn)
             end == End(s)
             offset == r.offset
  <2>1. /\ extent \in Nat /\ end \in Nat /\ size \in Nat /\ offset \in Nat
        /\ end <= extent /\ extent <= size /\ size <= offset
    BY Zenon, <1>2, <1>3, <1>4
  <2> HIDE DEF extent, size, end, offset
  <2>2. end <= offset
    BY <2>1
  <2> QED BY Zenon, <2>2 DEF Apart, End, end, offset
<1>6. \A f : SlotsOf(f)' = SlotsOf(f)
  BY <1>1, Zenon DEF SlotsOf
<1>7. \A f \in Function : f = fn => SavedAreApart(f)'
  <2>1. plan'[fn].saved = SavedSlots(fn)
    BY Zenon, <1>1
  <2>2. \A r \in SavedSlots(fn) : \A q \in SavedSlots(fn) : r # q => Apart(r, q)
    BY <1>4, Zenon
  <2> QED BY <1>5, <1>6, <2>1, <2>2, Zenon DEF SavedAreApart, Apart
<1>8. \A f \in Function : f # fn /\ SavedAreApart(f) => SavedAreApart(f)'
  <2>1. \A f \in Function : f # fn => plan'[f] = plan[f]
    BY Zenon, <1>1
  <2> QED BY <1>6, <2>1, Zenon DEF SavedAreApart, Apart
<1>9. \A f \in Function : f < fn' \/ phase' = "done" => f < fn \/ f = fn
  <2>1. /\ fn \in 1 .. NumFunctions
        /\ fn < NumFunctions => fn' = fn + 1 /\ phase' # "done"
        /\ ~(fn < NumFunctions) => fn' = fn
    BY Zenon, <1>1 DEF ReplanFrames, Function
  <2>2. CASE fn < NumFunctions
    BY <2>1, <2>2 DEF Function
  <2>3. CASE fn = NumFunctions
    BY <2>1, <2>3 DEF Function
  <2> QED BY <2>1, <2>2, <2>3
<1>10. \A f \in Function : f < fn => SavedAreApart(f) /\ f # fn
  <2>1. \A f \in Function : f < fn => SavedAreApart(f)
    BY <1>1, Zenon DEF SavedInv
  <2>2. \A f \in Function : f < fn => f # fn
    BY <1>1 DEF Function
  <2> QED BY <2>1, <2>2, Zenon
<1> QED BY <1>7, <1>8, <1>9, <1>10, Zenon DEF SavedInv

\* A step of any pass keeps the saved registers of the finished plans apart: no
\* slot is added once the second plan has begun.
LEMMA NextKeepsSavedInv == IInv /\ SavedInv /\ [Next]_vars => SavedInv'
<1> SUFFICES ASSUME IInv, SavedInv, [Next]_vars PROVE SavedInv'
  BY Zenon
<1>1. CASE ReplanFrames
  BY Zenon, <1>1, ReplanPlacesSaved
<1>2. CASE EndStorage
  <2>1. phase' = "variadic" \/ (phase' = "replan" /\ fn' = 1)
    BY Zenon, <1>2 DEF EndStorage
  <2>2. \A f \in Function : ~(f < 1)
    BY DEF Function
  <2> QED BY Zenon, <2>1, <2>2 DEF SavedInv
<1>3. CASE UNCHANGED vars
  <2>1. UNCHANGED <<phase, fn, frame_slots, plan>>
    BY Zenon, <1>3 DEF vars
  <2>2. \A f : SavedAreApart(f) => SavedAreApart(f)'
    BY <2>1, Zenon DEF SavedAreApart, SlotsOf, Apart
  <2> QED BY <2>1, <2>2, Zenon DEF SavedInv
<1>4. CASE phase' \notin {"replan", "done"}
  BY Zenon, <1>4 DEF SavedInv
<1>5. ASSUME NEW i \in fixed, PlaceSlice(i) \/ PlaceFixed(i) PROVE phase' \notin {"replan", "done"}
  BY Zenon, <1>5 DEF PlaceSlice, PlaceFixed
<1>6. PlaceReorderable \/ EndLayout => phase' \notin {"replan", "done"}
  BY Zenon DEF PlaceReorderable, EndLayout
<1>7. ReuseSlot \/ AllocateSlot \/ PublishSlots \/ NextRegalloc => phase' \notin {"replan", "done"}
  BY Zenon DEF ReuseSlot, AllocateSlot, PublishSlots, NextRegalloc
<1>8. PlanFrames \/ AppendStorage => phase' \notin {"replan", "done"}
  BY Zenon DEF PlanFrames, AppendStorage
<1> QED BY <1>1, <1>2, <1>3, <1>4, <1>5, <1>6, <1>7, <1>8, Zenon DEF Next

\* In the frames that prealloc publishes the saved registers overlap neither a slot
\* nor each other: the second populate_frame_plan places them behind the storage
\* that was added after the first.
THEOREM SavedRegistersStayApart == Spec => []SavedRegistersAreApart
<1>1. WellFormed /\ Start => SavedInv
  BY Zenon DEF Start, SavedInv
<1>2. SavedInv => SavedRegistersAreApart
  BY Zenon DEF SavedInv, SavedRegistersAreApart, SavedAreApart
<1> QED BY <1>1, <1>2, InitIInv, NextKeepsIInv, NextKeepsSavedInv, PTL DEF Spec
-----------------------------------------------------------------------------
(***************************************************************************)
(* Where the slots of a function lie: they are apart, aligned, and the     *)
(* slices of an object are at their distances.  Each result rests on what  *)
(* the lowering declares for a sliced object: SlicesLieTogether,           *)
(* AlignmentsNest, SlicesMirrorObjects.                                    *)
(***************************************************************************)

\* The order of placement: what is left comes after what is placed, and a slot
\* of the function at hand belongs to an object that is placed.
PlacedInOrder ==
  phase = "layout" =>
    /\ fixed \subseteq FixedObjects(fn)
    /\ reorderable \subseteq ReorderableObjects(fn)
    /\ \A i \in FixedObjects(fn) \ fixed : \A j \in fixed : FixedPrecedes(fn, i, j)
    /\ \A s \in SlotsOf(fn) : s.object \in Placeable(fn) \ (fixed \cup reorderable)

\* Once a family has a base its slices are placed relative to it, and until the
\* last of them is placed every other slot ends before the base.
FamilyIsPlaced(family) ==
  /\ base_offset[family] = NoOffset /\ IsKept(fn, family) =>
       \A s \in SlotsOf(fn) : s.object \notin Slices(fn, family)
  /\ base_offset[family] # NoOffset =>
       /\ IsKept(fn, family)
       /\ Slices(fn, family) \cap (FixedObjects(fn) \ fixed) # {}
       /\ \A s \in SlotsOf(fn) :
            /\ s.object \in Slices(fn, family) =>
                 /\ s.offset = base_offset[family] + objects[fn][s.object].slice_offset
                 /\ s.size = objects[fn][s.object].size
            /\ s.object \notin Slices(fn, family) /\ Slices(fn, family) \cap fixed # {} =>
                 End(s) <= base_offset[family]
FamiliesArePlaced ==
  phase = "layout" => \A family \in Families : FamilyIsPlaced(family)

AllSlotsApart ==
  \A s, t \in AllSlots : s.function = t.function /\ s # t => Apart(s, t)

DInv == IInv /\ SlicesLieTogether /\ PlacedInOrder /\ FamiliesArePlaced /\ AllSlotsApart

-----------------------------------------------------------------------------
\* The program is fixed, and so is everything computed from it.
LEMMA LayoutIsFixed ==
  ASSUME UNCHANGED <<objects, fn>>
  PROVE  /\ Placeable(fn)' = Placeable(fn)
         /\ FixedObjects(fn)' = FixedObjects(fn)
         /\ ReorderableObjects(fn)' = ReorderableObjects(fn)
         /\ \A family : Slices(fn, family)' = Slices(fn, family)
         /\ \A family : IsKept(fn, family)' <=> IsKept(fn, family)
         /\ \A i, j : FixedPrecedes(fn, i, j)' <=> FixedPrecedes(fn, i, j)
<1>1. Placeable(fn)' = Placeable(fn)
  BY Zenon DEF Placeable
<1>2. \A family : Slices(fn, family)' = Slices(fn, family)
  BY Zenon, <1>1 DEF Slices
<1>3. \A family : FamilyIsFixed(fn, family)' <=> FamilyIsFixed(fn, family)
  BY Zenon, <1>2 DEF FamilyIsFixed
<1>4. \A i : fixed_location(fn, i)' <=> fixed_location(fn, i)
  BY Zenon, <1>3 DEF fixed_location
<1>5. /\ FixedObjects(fn)' = FixedObjects(fn)
      /\ ReorderableObjects(fn)' = ReorderableObjects(fn)
  BY Zenon, <1>1, <1>4 DEF FixedObjects, ReorderableObjects
<1>6. \A family : preserve_slice_offsets(fn, family)' <=> preserve_slice_offsets(fn, family)
  BY <1>2 DEF preserve_slice_offsets, IsDense, AlignmentWouldPad
<1>7. \A family : IsKept(fn, family)' <=> IsKept(fn, family)
  BY Zenon, <1>3, <1>6 DEF IsKept
<1>8. \A i, j : FixedPrecedes(fn, i, j)' <=> FixedPrecedes(fn, i, j)
  BY Zenon DEF FixedPrecedes
<1> QED BY Zenon, <1>1, <1>2, <1>5, <1>7, <1>8

\* No object is in both tiers, and an object of a kept family is fixed.
LEMMA TiersAreApart ==
  ASSUME NEW f
  PROVE  /\ FixedObjects(f) \cap ReorderableObjects(f) = {}
         /\ \A family : IsKept(f, family) => Slices(f, family) \cap ReorderableObjects(f) = {}
<1>1. FixedObjects(f) \cap ReorderableObjects(f) = {}
  BY Zenon DEF FixedObjects, ReorderableObjects
<1>2. \A family : IsKept(f, family) => \A i \in Slices(f, family) : fixed_location(f, i)
  BY Zenon DEF IsKept, Slices, fixed_location
<1> QED BY Zenon, <1>1, <1>2 DEF ReorderableObjects

\* Everything computed from the objects of a function is fixed with them.
LEMMA ProgramIsFixed ==
  ASSUME objects' = objects
  PROVE  /\ \A f : Placeable(f)' = Placeable(f) /\ FixedObjects(f)' = FixedObjects(f)
         /\ \A f, family : Slices(f, family)' = Slices(f, family)
         /\ \A f, family : FamilyIsFixed(f, family)' <=> FamilyIsFixed(f, family)
         /\ \A f, family : preserve_slice_offsets(f, family)' <=> preserve_slice_offsets(f, family)
         /\ \A f, family : IsKept(f, family)' <=> IsKept(f, family)
         /\ \A f, i, j : FixedPrecedes(f, i, j)' <=> FixedPrecedes(f, i, j)
         /\ \A f, family : DeclaredTogether(f, family)' <=> DeclaredTogether(f, family)
<1>1. \A f : Placeable(f)' = Placeable(f)
  BY Zenon DEF Placeable
<1>2. \A f, family : Slices(f, family)' = Slices(f, family)
  BY <1>1, Zenon DEF Slices
<1>3. \A f, family : FamilyIsFixed(f, family)' <=> FamilyIsFixed(f, family)
  BY <1>2, Zenon DEF FamilyIsFixed
<1>4. \A f, i : fixed_location(f, i)' <=> fixed_location(f, i)
  BY <1>3, Zenon DEF fixed_location
<1>5. \A f : FixedObjects(f)' = FixedObjects(f)
  BY Zenon, <1>1, <1>4 DEF FixedObjects
<1>6. \A f, family : preserve_slice_offsets(f, family)' <=> preserve_slice_offsets(f, family)
  BY Zenon, <1>2 DEF preserve_slice_offsets, IsDense, AlignmentWouldPad
<1>7. \A f, family : IsKept(f, family)' <=> IsKept(f, family)
  BY <1>3, <1>6, Zenon DEF IsKept
<1>8. \A f, i, j : FixedPrecedes(f, i, j)' <=> FixedPrecedes(f, i, j)
  BY Zenon DEF FixedPrecedes
<1>9. \A f, family : DeclaredTogether(f, family)' <=> DeclaredTogether(f, family)
  BY Zenon, <1>2, <1>5, <1>8 DEF DeclaredTogether
<1> QED BY <1>1, <1>2, <1>3, <1>5, <1>6, <1>7, <1>8, <1>9, Zenon

\* The condition on slices is about the program, which no step changes.
LEMMA SlicesAreKept ==
  ASSUME SlicesLieTogether, objects' = objects
  PROVE  SlicesLieTogether'
<1>1. \A f, family : Slices(f, family)' = Slices(f, family)
  BY ProgramIsFixed, Zenon
<1>2. \A f, family : IsKept(f, family)' <=> IsKept(f, family)
  BY ProgramIsFixed, Zenon
<1>3. \A f, family : DeclaredTogether(f, family)' <=> DeclaredTogether(f, family)
  BY ProgramIsFixed, Zenon
<1> QED BY <1>1, <1>2, <1>3 DEF SlicesLieTogether

\* Slots that were apart stay apart when none is added.
LEMMA ApartIsKept ==
  ASSUME AllSlotsApart, AllSlots' \subseteq AllSlots
  PROVE  AllSlotsApart'
BY Zenon DEF AllSlotsApart, Apart

\* One more slot that is apart from the others of its function.
LEMMA NewSlotIsApart ==
  ASSUME AllSlotsApart, NEW slot, AllSlots' \subseteq AllSlots \cup {slot},
         \A s \in AllSlots : s.function = slot.function => Apart(s, slot)
  PROVE  AllSlotsApart'
BY Zenon DEF AllSlotsApart, Apart

\* What the three placing steps have in common: slot is the slot of object i, a
\* fixed one in its turn or a reorderable one after the fixed ones.
ObjectIsPlaced(i, slot) ==
  /\ SlotIsPlaced(slot)
  /\ slot.object = i
  /\ i \in fixed \cup reorderable
  /\ i \in fixed => IsNextFixed(i)
  /\ i \notin fixed => fixed = {}
  /\ fixed' = fixed \ {i} /\ reorderable' = reorderable \ {i}

\* What a placing step changes and what it leaves alone.
LEMMA PlacingFacts ==
  ASSUME DInv, NEW i, NEW slot, ObjectIsPlaced(i, slot)
  PROVE  /\ phase = "layout" /\ phase' = "layout" /\ fn' = fn /\ objects' = objects
         /\ SlotsOf(fn)' = SlotsOf(fn) \cup {slot} /\ slot \notin SlotsOf(fn)
         /\ AllSlots = frame_slots /\ AllSlots' = AllSlots \cup {slot}
         /\ i \in Placeable(fn)
<1>1. /\ phase = "layout" /\ phase' = "layout" /\ fn' = fn /\ objects' = objects
      /\ assigned = << >> /\ assigned' = assigned /\ frame_slots' = frame_slots \cup {slot}
      /\ slot.function = fn /\ slot.slot_id = next_slot_id
  BY Zenon DEF ObjectIsPlaced, SlotIsPlaced, DInv, IInv, IdsAreFresh, program
<1>2. SlotsOf(fn)' = SlotsOf(fn) \cup {slot}
  BY Zenon, <1>1 DEF SlotsOf
<1>3. AllSlots = frame_slots /\ AllSlots' = AllSlots \cup {slot}
  BY <1>1 DEF AllSlots
<1>4. slot \notin SlotsOf(fn)
  <2>1. \A s \in AllSlots : s.slot_id < next_slot_id /\ s.slot_id \in Nat
    BY Zenon, <1>1, SlotsAreTyped DEF DInv, IInv, IdsAreFresh, Handing
  <2>2. next_slot_id \in Nat
    BY Zenon DEF DInv, IInv, TypeInv
  <2> QED BY <1>1, <1>3, <2>1, <2>2 DEF SlotsOf
<1>5. i \in Placeable(fn)
  BY Zenon, <1>1 DEF ObjectIsPlaced, DInv, IInv, TypeInv
<1> QED BY Zenon, <1>1, <1>2, <1>3, <1>4, <1>5

\* The tiers are emptied in order.
LEMMA PlacingKeepsOrder ==
  ASSUME DInv, NEW i, NEW slot, ObjectIsPlaced(i, slot)
  PROVE  PlacedInOrder'
<1>1. /\ phase = "layout" /\ fn' = fn /\ objects' = objects /\ i \in Placeable(fn)
      /\ SlotsOf(fn)' = SlotsOf(fn) \cup {slot} /\ slot.object = i
      /\ fixed' = fixed \ {i} /\ reorderable' = reorderable \ {i}
  BY Zenon, PlacingFacts DEF ObjectIsPlaced
<1>2. /\ fixed \subseteq FixedObjects(fn) /\ reorderable \subseteq ReorderableObjects(fn)
      /\ \A k \in FixedObjects(fn) \ fixed : \A j \in fixed : FixedPrecedes(fn, k, j)
      /\ \A s \in SlotsOf(fn) : s.object \in Placeable(fn) \ (fixed \cup reorderable)
  BY Zenon, <1>1 DEF DInv, PlacedInOrder
<1>3. /\ Placeable(fn)' = Placeable(fn) /\ FixedObjects(fn)' = FixedObjects(fn)
      /\ ReorderableObjects(fn)' = ReorderableObjects(fn)
      /\ \A k, j : FixedPrecedes(fn, k, j)' <=> FixedPrecedes(fn, k, j)
  BY Zenon, <1>1, LayoutIsFixed
<1>4. fixed' \subseteq FixedObjects(fn) /\ reorderable' \subseteq ReorderableObjects(fn)
  BY Zenon, <1>1, <1>2
<1>5. \A k \in FixedObjects(fn) \ fixed' : \A j \in fixed' : FixedPrecedes(fn, k, j)
  <2>1. CASE i \in fixed
    BY Zenon, <1>1, <1>2, <2>1 DEF ObjectIsPlaced, IsNextFixed
  <2>2. CASE i \notin fixed
    BY Zenon, <1>1, <2>2 DEF ObjectIsPlaced
  <2> QED BY Zenon, <2>1, <2>2
<1>6. \A s \in SlotsOf(fn)' : s.object \in Placeable(fn) \ (fixed' \cup reorderable')
  BY Zenon, <1>1, <1>2
<1> QED BY Zenon, <1>3, <1>4, <1>5, <1>6 DEF PlacedInOrder

\* A family that keeps its base is not disturbed by the slot of another object.
LEMMA OtherFamilyIsPlaced ==
  ASSUME DInv, NEW i, NEW slot, ObjectIsPlaced(i, slot), NEW family \in Families,
         IsKept(fn, family) => i \notin Slices(fn, family),
         base_offset'[family] = base_offset[family]
  PROVE  FamilyIsPlaced(family)'
<1> DEFINE S == Slices(fn, family)
           b == base_offset[family]
<1>1. /\ phase = "layout" /\ fn' = fn /\ objects' = objects /\ i \in Placeable(fn)
      /\ SlotsOf(fn)' = SlotsOf(fn) \cup {slot} /\ slot.object = i
      /\ fixed' = fixed \ {i} /\ b' = b
  BY Zenon, PlacingFacts DEF ObjectIsPlaced
<1>2. FamilyIsPlaced(family) /\ PlacedInOrder /\ SlicesLieTogether /\ fn \in Function
  BY Zenon, <1>1 DEF DInv, FamiliesArePlaced, IInv, TypeInv
<1>3. /\ FixedObjects(fn)' = FixedObjects(fn) /\ S' = S
      /\ IsKept(fn, family)' <=> IsKept(fn, family)
  BY Zenon, <1>1, LayoutIsFixed
<1>4. b = NoOffset /\ IsKept(fn, family) => \A s \in SlotsOf(fn)' : s.object \notin S
  BY Zenon, <1>1, <1>2 DEF FamilyIsPlaced
<1>5. ASSUME b # NoOffset
      PROVE  /\ IsKept(fn, family)
             /\ S \cap (FixedObjects(fn) \ fixed') # {}
             /\ \A s \in SlotsOf(fn)' :
                  s.object \in S => /\ s.offset = b + objects[fn][s.object].slice_offset
                                    /\ s.size = objects[fn][s.object].size
             /\ \A s \in SlotsOf(fn)' : s.object \notin S /\ S \cap fixed' # {} => End(s) <= b
  <2>1. /\ IsKept(fn, family)
        /\ S \cap (FixedObjects(fn) \ fixed) # {}
        /\ \A s \in SlotsOf(fn) :
             s.object \in S => /\ s.offset = b + objects[fn][s.object].slice_offset
                               /\ s.size = objects[fn][s.object].size
        /\ \A s \in SlotsOf(fn) : s.object \notin S /\ S \cap fixed # {} => End(s) <= b
    BY Zenon, <1>2, <1>5 DEF FamilyIsPlaced
  <2>2. i \notin S
    BY Zenon, <2>1
  <2>3. S \cap fixed' = {}
    <3> SUFFICES ASSUME NEW q \in S \cap fixed' PROVE FALSE
      BY Zenon
    <3>1. PICK p \in S : p \in FixedObjects(fn) \ fixed
      BY Zenon, <2>1
    <3>2. i \in fixed /\ q \in fixed /\ i \in FixedObjects(fn)
      BY Zenon, <1>1, <1>2 DEF ObjectIsPlaced, PlacedInOrder
    <3>3. FixedPrecedes(fn, p, i) /\ FixedPrecedes(fn, i, q)
      BY Zenon, <1>1, <1>2, <3>1, <3>2 DEF ObjectIsPlaced, PlacedInOrder, IsNextFixed
    <3>4. i \in S
      BY Zenon, <1>2, <2>1, <3>1, <3>2, <3>3 DEF SlicesLieTogether, DeclaredTogether
    <3> QED BY Zenon, <2>2, <3>4
  <2> QED BY Zenon, <1>1, <2>1, <2>2, <2>3
<1>6. objects'[fn'] = objects[fn]
  BY Zenon, <1>1
<1> HIDE DEF S, b
<1>7. FamilyIsPlaced(family)' <=>
        /\ b' = NoOffset /\ IsKept(fn, family)' => \A s \in SlotsOf(fn)' : s.object \notin S'
        /\ b' # NoOffset =>
             /\ IsKept(fn, family)'
             /\ S' \cap (FixedObjects(fn)' \ fixed') # {}
             /\ \A s \in SlotsOf(fn)' :
                  /\ s.object \in S' => /\ s.offset = b' + objects'[fn'][s.object].slice_offset
                                        /\ s.size = objects'[fn'][s.object].size
                  /\ s.object \notin S' /\ S' \cap fixed' # {} => End(s) <= b'
  BY Zenon DEF FamilyIsPlaced, S, b, End
<1> QED BY Zenon, <1>1, <1>3, <1>4, <1>5, <1>6, <1>7

\* What is left of DInv once the families and the new slot are taken care of.
LEMMA PlacingKeepsDInv ==
  ASSUME DInv, NEW i, NEW slot, ObjectIsPlaced(i, slot),
         \A family \in Families : FamilyIsPlaced(family)',
         \A s \in SlotsOf(fn) : Apart(s, slot)
  PROVE  DInv'
<1>1. IInv'
  BY Zenon, PlacingKeepsIInv DEF DInv, ObjectIsPlaced
<1>2. SlicesLieTogether'
  BY Zenon, PlacingFacts, SlicesAreKept DEF DInv
<1>3. PlacedInOrder'
  BY Zenon, PlacingKeepsOrder
<1>4. AllSlotsApart'
  <2>1. AllSlots = frame_slots /\ AllSlots' = AllSlots \cup {slot} /\ slot.function = fn
    BY Zenon, PlacingFacts DEF ObjectIsPlaced, SlotIsPlaced
  <2>2. \A s \in AllSlots : s.function = slot.function => Apart(s, slot)
    BY Zenon, <2>1 DEF SlotsOf
  <2> QED BY Zenon, <2>1, <2>2, NewSlotIsApart DEF DInv
<1> QED BY Zenon, <1>1, <1>2, <1>3, <1>4 DEF DInv, FamiliesArePlaced

\* Every slot of the function at hand ends before next_offset.
LEMMA SlotsEndBefore ==
  ASSUME DInv, phase = "layout", NEW offset \in Nat, next_offset <= offset
  PROVE  \A s \in SlotsOf(fn) : End(s) <= offset /\ End(s) \in Nat
<1>1. \A s \in SlotsOf(fn) : End(s) \in Nat /\ End(s) <= next_offset
  BY Zenon, SlotsAreTyped DEF DInv, IInv, ExtentsAreKept, Handing, SlotsOf
<1>2. next_offset \in Nat
  BY Zenon DEF DInv, IInv, TypeInv
<1> QED BY <1>1, <1>2

\* append_slot_for_object, for an object of neither kept family: it lies behind
\* every slot there is.
LEMMA AppendingKeepsDInv ==
  ASSUME DInv, NEW i, NEW slot, ObjectIsPlaced(i, slot), slot.offset \in Nat,
         next_offset <= slot.offset, base_offset' = base_offset,
         \A family \in Families : IsKept(fn, family) => i \notin Slices(fn, family)
  PROVE  DInv'
<1>1. \A family \in Families : FamilyIsPlaced(family)'
  BY Zenon, OtherFamilyIsPlaced
<1>2. \A s \in SlotsOf(fn) : Apart(s, slot)
  BY Zenon, SlotsEndBefore, PlacingFacts DEF Apart, End
<1> QED BY Zenon, <1>1, <1>2, PlacingKeepsDInv

\* append_slot_for_object for a fixed object.
LEMMA PlaceFixedKeepsDInv ==
  ASSUME DInv, NEW i \in fixed, PlaceFixed(i)
  PROVE  DInv'
<1> DEFINE offset == align_to(next_offset, Obj(i).align)
           slot == NewSlot(i, offset, Obj(i).size, Obj(i).align)
<1>1. IInv /\ TypeInv /\ phase = "layout" /\ PlacedInOrder /\ base_offset' = base_offset
  BY Zenon DEF DInv, IInv, PlaceFixed
<1>2. offset \in Nat /\ next_offset <= offset
  BY Zenon, <1>1, PlaceableFacts
<1>3. i \notin reorderable
  BY Zenon, <1>1, TiersAreApart DEF PlacedInOrder
<1>4. slot.object = i /\ slot.offset = offset
  BY Zenon DEF NewSlot
<1>5. SlotIsPlaced(slot)
  BY Zenon, <1>1, PlaceFixedPlaces
<1>6. IsNextFixed(i) /\ fixed' = fixed \ {i} /\ reorderable' = reorderable
  BY Zenon DEF PlaceFixed
<1> HIDE DEF slot
<1>7. ObjectIsPlaced(i, slot)
  BY Zenon, <1>3, <1>4, <1>5, <1>6 DEF ObjectIsPlaced
<1>8. \A family \in Families : IsKept(fn, family) => i \notin Slices(fn, family)
  BY Zenon DEF PlaceFixed, KeepsSlice, IsKept, Slices, Obj
<1> HIDE DEF offset
<1> QED BY Zenon, <1>1, <1>2, <1>4, <1>7, <1>8, AppendingKeepsDInv

\* append_slot_for_object for a reorderable object.
LEMMA PlaceReorderableKeepsDInv ==
  ASSUME DInv, PlaceReorderable
  PROVE  DInv'
<1> DEFINE i == Selected
<1> DEFINE offset == align_to(next_offset, Obj(i).align)
           slot == NewSlot(i, offset, Obj(i).size, Obj(i).align)
<1>1. /\ IInv /\ TypeInv /\ phase = "layout" /\ PlacedInOrder /\ base_offset' = base_offset
      /\ fixed = {} /\ fixed' = {} /\ reorderable' = reorderable \ {i}
  BY Zenon DEF DInv, IInv, PlaceReorderable
<1>2. i \in reorderable /\ SlotIsPlaced(slot)
  BY Zenon, <1>1, PlaceReorderablePlaces
<1> HIDE DEF i
<1>3. offset \in Nat /\ next_offset <= offset
  BY Zenon, <1>1, <1>2, PlaceableFacts
<1>4. slot.object = i /\ slot.offset = offset
  BY Zenon DEF NewSlot
<1> HIDE DEF slot
<1>5. ObjectIsPlaced(i, slot)
  BY Zenon, <1>1, <1>2, <1>4 DEF ObjectIsPlaced
<1>6. \A family \in Families : IsKept(fn, family) => i \notin Slices(fn, family)
  BY Zenon, <1>1, <1>2, TiersAreApart DEF PlacedInOrder
<1> HIDE DEF offset
<1> QED BY Zenon, <1>1, <1>3, <1>4, <1>5, <1>6, AppendingKeepsDInv

\* append_slice_offset_slot_for_object: the slices of the object lie at distances
\* of their own, and everything else ends before the base.
LEMMA PlaceSliceKeepsDInv ==
  ASSUME DInv, NEW i \in fixed, PlaceSlice(i)
  PROVE  DInv'
<1> DEFINE family == Obj(i).family
           base == FamilyBase(family)
           offset == base + Obj(i).slice_offset
           slot == NewSlot(i, offset, Obj(i).size, Obj(i).align)
           S == Slices(fn, family)
<1>1. /\ IInv /\ TypeInv /\ phase = "layout" /\ PlacedInOrder /\ SlicesLieTogether
      /\ FamiliesArePlaced /\ fn \in Function
  BY Zenon DEF DInv, IInv, TypeInv, PlaceSlice
<1>2. /\ family \in Families /\ base \in Nat
      /\ base_offset[family] = NoOffset => next_offset <= base
      /\ SlotIsPlaced(slot)
  BY Zenon, <1>1, AppendSlicePlaces
<1>3. /\ i \in Placeable(fn) /\ Obj(i).slice_offset \in Nat /\ Obj(i).size \in Nat
      /\ Obj(i) = objects[fn][i]
  BY Zenon, <1>1, PlaceableFacts DEF ObjectFacts, Obj
<1>4. IsKept(fn, family) /\ i \in S
  BY Zenon, <1>3 DEF PlaceSlice, KeepsSlice, IsKept, Slices
<1>5. /\ IsNextFixed(i) /\ fixed' = fixed \ {i} /\ reorderable' = reorderable
      /\ base_offset' = [base_offset EXCEPT ![family] = base]
  BY Zenon DEF PlaceSlice, append_slice_offset_slot, FamilyBase
<1>6. i \notin reorderable /\ i \in FixedObjects(fn)
  BY Zenon, <1>1, TiersAreApart DEF PlacedInOrder
<1>7. /\ slot.object = i /\ slot.offset = offset /\ slot.size = Obj(i).size
      /\ End(slot) = offset + Obj(i).size
  BY Zenon DEF NewSlot, End
<1>8. base_offset \in [Families -> Nat \cup {NoOffset}]
  BY Zenon, <1>1 DEF TypeInv
<1>9. base_offset[family] # NoOffset => base = base_offset[family]
  BY Zenon DEF FamilyBase
<1> HIDE DEF base, slot, family
<1>10. offset \in Nat /\ base <= offset
  BY <1>2, <1>3
<1>11. base # NoOffset
  BY <1>2 DEF NoOffset
<1>12. ObjectIsPlaced(i, slot)
  BY Zenon, <1>2, <1>5, <1>6, <1>7 DEF ObjectIsPlaced
<1>13. FamilyIsPlaced(family)
  BY <1>1, <1>2, Zenon DEF FamiliesArePlaced
\* The slots of the family are at their distances from the base, the others before it.
<1>14. \A s \in SlotsOf(fn) :
         /\ s.object \in S => /\ s.offset = base + objects[fn][s.object].slice_offset
                              /\ s.size = objects[fn][s.object].size
         /\ s.object \notin S => End(s) <= base
  <2>1. CASE base_offset[family] = NoOffset
    <3>1. \A s \in SlotsOf(fn) : s.object \notin S
      BY Zenon, <1>4, <1>13, <2>1 DEF FamilyIsPlaced
    <3>2. \A s \in SlotsOf(fn) : End(s) <= base
      BY Zenon, <1>1, <1>2, <2>1, SlotsEndBefore
    <3> QED BY Zenon, <3>1, <3>2
  <2>2. CASE base_offset[family] # NoOffset
    <3>1. S \cap fixed # {}
      BY Zenon, <1>4
    <3> HIDE DEF S
    <3>2. S = Slices(fn, family)
      BY Zenon DEF S
    <3> QED BY Zenon, <1>9, <1>13, <2>2, <3>1, <3>2 DEF FamilyIsPlaced
  <2> QED BY Zenon, <2>1, <2>2
<1>15. \A s \in SlotsOf(fn) : Apart(s, slot)
  <2> SUFFICES ASSUME NEW s \in SlotsOf(fn) PROVE Apart(s, slot)
    BY Zenon
  <2>1. s.offset \in Nat /\ s.size \in Nat /\ End(s) \in Nat
    BY Zenon, <1>1, SlotsAreTyped DEF SlotsOf
  <2>2. CASE s.object \notin S
    <3>1. End(s) <= base
      BY Zenon, <1>14, <2>2
    <3>2. End(s) <= slot.offset
      BY <1>2, <1>7, <1>10, <2>1, <3>1, NaturalOrder, Zenon
    <3> QED BY Zenon, <3>2 DEF Apart, End
  <2>3. CASE s.object \in S
    <3> DEFINE j == s.object
    <3>1. j # i
      BY Zenon, <1>1 DEF PlacedInOrder
    <3>2. \/ objects[fn][i].slice_offset + objects[fn][i].size <= objects[fn][j].slice_offset
          \/ objects[fn][j].slice_offset + objects[fn][j].size <= objects[fn][i].slice_offset
      BY Zenon, <1>1, <1>2, <1>4, <2>3, <3>1 DEF SlicesLieTogether
    <3>3. s.offset = base + objects[fn][j].slice_offset /\ s.size = objects[fn][j].size
      BY Zenon, <1>14, <2>3
    <3>4. objects[fn][j].slice_offset \in Nat
      BY Zenon, <1>1, <2>3, ObjectsAreTyped DEF TypeInv, Slices, ObjectFacts
    <3>5. slot.offset = base + objects[fn][i].slice_offset /\ slot.size = objects[fn][i].size
          /\ objects[fn][i].slice_offset \in Nat /\ objects[fn][i].size \in Nat
      BY <1>3, <1>7, Zenon
    <3> QED BY <1>2, <2>1, <3>2, <3>3, <3>4, <3>5 DEF Apart
  <2> QED BY Zenon, <2>2, <2>3
<1>16. \A other \in Families : other = family => FamilyIsPlaced(other)'
  <2> SUFFICES ASSUME NEW other \in Families, other = family PROVE FamilyIsPlaced(other)'
    BY Zenon
  <2>1. /\ fn' = fn /\ objects' = objects /\ SlotsOf(fn)' = SlotsOf(fn) \cup {slot}
        /\ objects'[fn'] = objects[fn]
    BY Zenon, <1>12, PlacingFacts
  <2>2. /\ FixedObjects(fn)' = FixedObjects(fn) /\ Slices(fn, other)' = S
        /\ IsKept(fn, other)'
    BY Zenon, <1>4, <2>1, LayoutIsFixed
  <2>3. base_offset'[other] = base
    BY Zenon, <1>5, <1>8
  <2>4. S \cap (FixedObjects(fn) \ fixed') # {}
    BY <1>4, <1>5, <1>6, Zenon
  <2>5. \A s \in SlotsOf(fn)' :
          /\ s.object \in S => /\ s.offset = base + objects[fn][s.object].slice_offset
                               /\ s.size = objects[fn][s.object].size
          /\ s.object \notin S => End(s) <= base
    BY <1>3, <1>4, <1>7, <1>14, <2>1, Zenon
  <2> HIDE DEF S
  <2>6. FamilyIsPlaced(other)' <=>
          /\ base_offset'[other] = NoOffset /\ IsKept(fn, other)' =>
               \A s \in SlotsOf(fn)' : s.object \notin Slices(fn, other)'
          /\ base_offset'[other] # NoOffset =>
               /\ IsKept(fn, other)'
               /\ Slices(fn, other)' \cap (FixedObjects(fn)' \ fixed') # {}
               /\ \A s \in SlotsOf(fn)' :
                    /\ s.object \in Slices(fn, other)' =>
                         /\ s.offset = base_offset'[other] + objects'[fn'][s.object].slice_offset
                         /\ s.size = objects'[fn'][s.object].size
                    /\ s.object \notin Slices(fn, other)' /\ Slices(fn, other)' \cap fixed' # {} =>
                         End(s) <= base_offset'[other]
    BY Zenon DEF FamilyIsPlaced, End
  <2> QED BY Zenon, <1>11, <2>1, <2>2, <2>3, <2>4, <2>5, <2>6
<1>17. \A other \in Families : other # family => FamilyIsPlaced(other)'
  <2> SUFFICES ASSUME NEW other \in Families, other # family PROVE FamilyIsPlaced(other)'
    BY Zenon
  <2>1. i \notin Slices(fn, other)
    BY Zenon, <1>3 DEF Slices, family
  <2>2. base_offset'[other] = base_offset[other]
    BY Zenon, <1>5, <1>8
  <2> QED BY Zenon, <1>12, <2>1, <2>2, OtherFamilyIsPlaced
<1>18. \A other \in Families : FamilyIsPlaced(other)'
  BY Zenon, <1>16, <1>17
<1> QED BY Zenon, <1>12, <1>15, <1>18, PlacingKeepsDInv

\* There is no slot when run_stack_layout starts.
LEMMA InitDInv == WellFormed /\ Start /\ SlicesLieTogether => DInv
<1> SUFFICES ASSUME WellFormed, Start, SlicesLieTogether PROVE DInv
  BY Zenon
<1>1. /\ IInv /\ phase = "layout" /\ fn = 1 /\ AllSlots = {} /\ SlotsOf(fn) = {}
      /\ fixed = FixedObjects(fn) /\ reorderable = ReorderableObjects(fn)
      /\ \A family \in Families : base_offset[family] = NoOffset
  BY InitIInv DEF Start, AllSlots, SlotsOf
<1>2. PlacedInOrder
  BY Zenon, <1>1 DEF PlacedInOrder
<1>3. FamiliesArePlaced
  BY Zenon, <1>1 DEF FamiliesArePlaced, FamilyIsPlaced
<1>4. AllSlotsApart
  BY Zenon, <1>1 DEF AllSlotsApart
<1> QED BY Zenon, <1>1, <1>2, <1>3, <1>4 DEF DInv

\* The next function has no slots yet.
LEMMA EndLayoutKeepsDInv ==
  ASSUME DInv, EndLayout
  PROVE  DInv'
<1>1. IInv' /\ SlicesLieTogether'
  BY Zenon, EndLayoutKeepsIInv, SlicesAreKept DEF DInv, EndLayout, program
<1>2. /\ IInv /\ TypeInv /\ phase = "layout" /\ assigned = << >> /\ frame_slots' = frame_slots
      /\ fn \in Function /\ objects' = objects
  BY Zenon DEF DInv, IInv, TypeInv, IdsAreFresh, EndLayout, program
<1>3. CASE fn < NumFunctions /\ fn' = fn + 1 /\ StartLayout(fn + 1)
             /\ UNCHANGED <<phase, next_slot_id, assigned>>
  <2>1. AllSlots' \subseteq AllSlots
    BY Zenon, <1>2, <1>3 DEF AllSlots
  <2>2. SlotsOf(fn)' = {}
    <3>1. \A s \in frame_slots : s.function <= fn /\ s.function \in Nat
      BY <1>2, SlotsAreTyped DEF IInv, ExtentsAreKept, Function
    <3>2. fn \in Nat
      BY <1>2, FunctionsAreNatural, Zenon
    <3>3. \A s \in frame_slots : s.function # fn + 1
      BY <3>1, <3>2, NaturalOrder, Zenon
    <3> QED BY <1>2, <1>3, <3>3, Zenon DEF SlotsOf
  <2>3. fixed' = FixedObjects(fn)' /\ reorderable' = ReorderableObjects(fn)'
    BY Zenon, <1>2, <1>3 DEF StartLayout, FixedObjects, ReorderableObjects, fixed_location, FamilyIsFixed,
                      Slices, Placeable
  <2>4. \A family \in Families : base_offset'[family] = NoOffset
    BY Zenon, <1>3 DEF StartLayout
  <2>5. PlacedInOrder'
    BY Zenon, <2>2, <2>3 DEF PlacedInOrder
  <2>6. FamiliesArePlaced'
    BY Zenon, <2>2, <2>4 DEF FamiliesArePlaced, FamilyIsPlaced
  <2> QED BY Zenon, <1>1, <2>1, <2>5, <2>6, ApartIsKept DEF DInv
<1>4. CASE phase' = "regalloc" /\ StartRegalloc(1)
  <2>1. AllSlots' \subseteq AllSlots
    BY Zenon, <1>2, <1>4 DEF AllSlots, StartRegalloc
  <2> QED BY Zenon, <1>1, <1>4, <2>1, ApartIsKept DEF DInv, PlacedInOrder, FamiliesArePlaced
<1> QED BY Zenon, <1>3, <1>4 DEF EndLayout

\* After the layout only the slots matter.
LEMMA LaterStepKeepsDInv ==
  ASSUME DInv, IInv', objects' = objects, phase' # "layout", AllSlotsApart'
  PROVE  DInv'
BY Zenon, SlicesAreKept DEF DInv, PlacedInOrder, FamiliesArePlaced

\* A value's new slot lies behind all slots of its function.
LEMMA AllocateSlotKeepsDInv ==
  ASSUME DInv, AllocateSlot
  PROVE  DInv'
<1> DEFINE slot == HandedOut
<1>1. /\ IInv /\ TypeInv /\ phase = "regalloc" /\ next_offset \in Nat
      /\ objects' = objects /\ phase' = "regalloc"
  BY Zenon DEF DInv, IInv, TypeInv, AllocateSlot, program
<1>2. /\ slot \in Slot /\ slot.function = fn /\ next_offset <= slot.offset
      /\ AllSlots' = AllSlots \cup {slot}
  BY Zenon, <1>1, AllocateSlotHandsOut
<1> HIDE DEF slot
<1>3. slot.offset \in Nat
  BY Zenon, <1>2 DEF Slot
<1>4. \A s \in AllSlots : s.function = slot.function => Apart(s, slot)
  <2>1. \A s \in AllSlots : End(s) \in Nat /\ (s.function = fn => End(s) <= next_offset)
    BY Zenon, <1>1, SlotsAreTyped DEF IInv, ExtentsAreKept, Handing
  <2>2. \A s \in AllSlots : s.function = slot.function => End(s) <= slot.offset
    BY <1>1, <1>2, <1>3, <2>1
  <2> QED BY Zenon, <2>2 DEF Apart, End
<1>5. AllSlotsApart'
  BY Zenon, <1>2, <1>4, NewSlotIsApart DEF DInv
<1> QED BY Zenon, <1>1, <1>5, AllocateSlotKeepsIInv, LaterStepKeepsDInv

\* Variadic storage lies behind all slots of its function.
LEMMA AppendStorageKeepsDInv ==
  ASSUME DInv, AppendStorage
  PROVE  DInv'
<1> DEFINE slot == StorageSlot
           extent == function_frame_extent(fn)
<1>1. /\ IInv /\ TypeInv /\ Bounded /\ phase = "variadic" /\ fn \in Function
      /\ objects' = objects /\ phase' = "variadic"
  BY Zenon DEF DInv, IInv, TypeInv, AppendStorage, program
<1>2. /\ slot \in Slot /\ slot.function = fn /\ extent \in Nat /\ extent <= slot.offset
      /\ AllSlots' = AllSlots \cup {slot}
  BY Zenon, <1>1, AppendStoragePlaces, AppendStorageKeepsIInv
<1>3. \A s \in SlotsOf(fn) : End(s) <= extent
  BY Zenon, <1>1, FrameMaxima
<1> HIDE DEF slot, extent
<1>4. slot.offset \in Nat
  BY Zenon, <1>2 DEF Slot
<1>5. \A s \in AllSlots : s \in frame_slots /\ End(s) \in Nat
  BY <1>1, SlotsAreTyped DEF IInv, IdsAreFresh, Handing, AllSlots
<1>6. \A s \in AllSlots : s.function = slot.function => End(s) <= slot.offset
  BY <1>2, <1>3, <1>4, <1>5 DEF SlotsOf
<1>7. AllSlotsApart'
  BY Zenon, <1>2, <1>6, NewSlotIsApart DEF DInv, Apart, End
<1>8. IInv'
  BY <1>1, AppendStorageKeepsIInv, Zenon
<1>9. objects' = objects /\ phase' # "layout"
  BY Zenon, <1>1
<1> QED BY <1>7, <1>8, <1>9, LaterStepKeepsDInv, Zenon

\* What is placed stays where it is when neither slots nor what is left change.
LEMMA PlacementIsKept ==
  ASSUME PlacedInOrder, FamiliesArePlaced, SlotsOf(fn)' = SlotsOf(fn),
         UNCHANGED <<objects, fixed, reorderable, base_offset, phase, fn>>
  PROVE  PlacedInOrder' /\ FamiliesArePlaced'
<1>1. /\ Placeable(fn)' = Placeable(fn) /\ FixedObjects(fn)' = FixedObjects(fn)
      /\ ReorderableObjects(fn)' = ReorderableObjects(fn)
  BY LayoutIsFixed, Zenon
<1>2. /\ \A family : Slices(fn, family)' = Slices(fn, family)
      /\ \A family : IsKept(fn, family)' <=> IsKept(fn, family)
  BY LayoutIsFixed, Zenon
<1>3. \A i, j : FixedPrecedes(fn, i, j)' <=> FixedPrecedes(fn, i, j)
  BY LayoutIsFixed, Zenon
<1>4. PlacedInOrder'
  <2> SUFFICES ASSUME phase = "layout"
               PROVE  /\ fixed \subseteq FixedObjects(fn)'
                      /\ reorderable \subseteq ReorderableObjects(fn)'
                      /\ \A i \in FixedObjects(fn)' \ fixed : \A j \in fixed :
                           FixedPrecedes(fn, i, j)'
                      /\ \A s \in SlotsOf(fn)' :
                           s.object \in Placeable(fn)' \ (fixed \cup reorderable)
    BY Zenon DEF PlacedInOrder
  <2>1. /\ fixed \subseteq FixedObjects(fn) /\ reorderable \subseteq ReorderableObjects(fn)
        /\ \A s \in SlotsOf(fn) : s.object \in Placeable(fn) \ (fixed \cup reorderable)
    BY Zenon DEF PlacedInOrder
  <2>2. \A i \in FixedObjects(fn) \ fixed : \A j \in fixed : FixedPrecedes(fn, i, j)
    BY Zenon DEF PlacedInOrder
  <2>3. \A i \in FixedObjects(fn)' \ fixed : \A j \in fixed : FixedPrecedes(fn, i, j)'
    BY <1>1, <1>3, <2>2, Zenon
  <2> QED BY Zenon, <1>1, <2>1, <2>3
<1>5. FamiliesArePlaced'
  <2> SUFFICES ASSUME phase = "layout", NEW family \in Families PROVE FamilyIsPlaced(family)'
    BY Zenon DEF FamiliesArePlaced
  <2>1. FamilyIsPlaced(family)
    BY Zenon DEF FamiliesArePlaced
  <2>2. /\ Slices(fn, family)' = Slices(fn, family) /\ FixedObjects(fn)' = FixedObjects(fn)
        /\ IsKept(fn, family)' <=> IsKept(fn, family)
    BY Zenon, <1>1, <1>2
  <2> QED BY Zenon, <2>1, <2>2 DEF FamilyIsPlaced, End
<1> QED BY Zenon, <1>4, <1>5

\* A step of any pass keeps the slots of each function apart.
LEMMA NextKeepsDInv == DInv /\ [Next]_vars => DInv'
<1> SUFFICES ASSUME DInv, [Next]_vars PROVE DInv'
  BY Zenon
<1>1. IInv'
  BY Zenon, NextKeepsIInv DEF DInv
<1>2. ASSUME NEW i \in fixed, PlaceSlice(i) PROVE DInv'
  BY Zenon, <1>2, PlaceSliceKeepsDInv
<1>3. ASSUME NEW i \in fixed, PlaceFixed(i) PROVE DInv'
  BY Zenon, <1>3, PlaceFixedKeepsDInv
<1>4. CASE PlaceReorderable
  BY Zenon, <1>4, PlaceReorderableKeepsDInv
<1>5. CASE EndLayout
  BY Zenon, <1>5, EndLayoutKeepsDInv
<1>6. CASE AllocateSlot
  BY Zenon, <1>6, AllocateSlotKeepsDInv
<1>7. CASE AppendStorage
  BY Zenon, <1>7, AppendStorageKeepsDInv
<1>8. CASE ReuseSlot
  <2>1. objects' = objects /\ phase' # "layout"
    BY Zenon, <1>8 DEF ReuseSlot, program
  <2>2. AllSlots' \subseteq AllSlots
    BY Zenon, <1>8, ReuseSlotKeepsIInv DEF DInv
  <2> QED BY Zenon, <1>1, <2>1, <2>2, ApartIsKept, LaterStepKeepsDInv DEF DInv
<1>9. CASE PublishSlots
  <2>1. objects' = objects /\ phase' # "layout"
    BY Zenon, <1>9 DEF PublishSlots, program
  <2>2. AllSlots' \subseteq AllSlots
    BY Zenon, <1>9, PublishSlotsKeepsIInv DEF DInv
  <2> QED BY Zenon, <1>1, <2>1, <2>2, ApartIsKept, LaterStepKeepsDInv DEF DInv
<1>10. CASE NextRegalloc
  <2>1. objects' = objects /\ phase' # "layout" /\ frame_slots' = frame_slots
    BY Zenon, <1>10 DEF NextRegalloc, program
  <2>2. assigned' = << >> \/ assigned' = assigned
    BY Zenon, <1>10 DEF NextRegalloc, StartRegalloc
  <2>3. AllSlots' \subseteq AllSlots
    BY <2>1, <2>2 DEF AllSlots
  <2> QED BY Zenon, <1>1, <2>1, <2>3, ApartIsKept, LaterStepKeepsDInv DEF DInv
<1>11. CASE PlanFrames \/ EndStorage \/ ReplanFrames
  <2>1. /\ objects' = objects /\ phase' # "layout"
        /\ frame_slots' = frame_slots /\ assigned' = assigned
    BY Zenon, <1>11 DEF PlanFrames, EndStorage, ReplanFrames, program
  <2>2. AllSlots' \subseteq AllSlots
    BY Zenon, <2>1 DEF AllSlots
  <2> QED BY Zenon, <1>1, <2>1, <2>2, ApartIsKept, LaterStepKeepsDInv DEF DInv
<1>12. CASE UNCHANGED vars
  <2>1. UNCHANGED <<objects, fixed, reorderable, base_offset, phase, fn, frame_slots, assigned>>
    BY Zenon, <1>12 DEF vars, program, layout
  <2>2. AllSlots' \subseteq AllSlots /\ SlotsOf(fn)' = SlotsOf(fn)
    BY Zenon, <2>1 DEF AllSlots, SlotsOf
  <2>3. SlicesLieTogether' /\ AllSlotsApart'
    BY Zenon, <2>1, <2>2, SlicesAreKept, ApartIsKept DEF DInv
  <2>4. PlacedInOrder' /\ FamiliesArePlaced'
    BY Zenon, <2>1, <2>2, PlacementIsKept DEF DInv
  <2> QED BY Zenon, <1>1, <2>3, <2>4 DEF DInv
<1> QED BY <1>2, <1>3, <1>4, <1>5, <1>6, <1>7, <1>8, <1>9, <1>10, <1>11, <1>12 DEF Next

\* No two slots of a function share a byte, whichever pass asked for them, when
\* the slices that append_slice_offset_slot_for_object puts at their own offsets
\* have ranges of their own and are declared together.  An overaligned array, whose
\* slices are numbered by index, is what this excludes.
THEOREM SlotsStayDisjoint == Spec /\ SlicesLieTogether => []SlotsAreDisjoint
<1>1. DInv => SlotsAreDisjoint
  BY Zenon DEF DInv, AllSlotsApart, AllSlots, SlotsAreDisjoint
<1> QED BY <1>1, InitDInv, NextKeepsDInv, PTL DEF Spec

-----------------------------------------------------------------------------
(***************************************************************************)
(* Alignment.                                                              *)
(***************************************************************************)

\* Division with remainder.
LEMMA Division ==
  ASSUME NEW v \in Nat, NEW a \in Nat \ {0}
  PROVE  v = a * (v \div a) + (v % a) /\ v \div a \in Nat
OBVIOUS

\* A multiple leaves no remainder.
LEMMA MultiplesDivide ==
  ASSUME NEW q \in Nat, NEW a \in Nat \ {0}
  PROVE  (a * q) % a = 0
OBVIOUS

\* Padding a number that leaves the remainder r up to the next multiple.
LEMMA AddOne ==
  ASSUME NEW a \in Nat, NEW q \in Nat, NEW r \in Nat
  PROVE (a * q + r) + (a - r) = a * (q + 1)
OBVIOUS

\* A multiple of a multiple.
LEMMA Assoc ==
  ASSUME NEW a \in Nat, NEW q \in Nat, NEW r \in Nat
  PROVE (a * q) * r = a * (q * r) /\ q * r \in Nat
OBVIOUS

\* align_to ends at a multiple of the alignment.
LEMMA AlignToAligns ==
  ASSUME NEW value \in Nat, NEW alignment \in Nat \ {0}
  PROVE  align_to(value, alignment) % alignment = 0
<1>1. CASE value % alignment = 0
  BY Zenon, <1>1 DEF align_to
<1>2. CASE value % alignment # 0
  <2> DEFINE q == value \div alignment
             r == value % alignment
  <2>1. value = alignment * q + r /\ q \in Nat /\ r \in Nat
    BY Division
  <2>2. align_to(value, alignment) = value + (alignment - r)
    BY Zenon, <1>2 DEF align_to
  <2> HIDE DEF q, r
  <2>3. align_to(value, alignment) = alignment * (q + 1) /\ q + 1 \in Nat
    BY <2>1, <2>2, AddOne
  <2> QED BY Zenon, <2>3, MultiplesDivide
<1> QED BY Zenon, <1>1, <1>2

\* A multiple of a multiple is a multiple.
LEMMA MultiplesNest ==
  ASSUME NEW v \in Nat, NEW a \in Nat \ {0}, NEW b \in Nat \ {0}, v % b = 0, b % a = 0
  PROVE  v % a = 0
<1> DEFINE p == v \div b
           q == b \div a
<1>1. v = b * p + 0 /\ p \in Nat /\ b = a * q + 0 /\ q \in Nat
  BY Division
<1> HIDE DEF p, q
<1>2. v = (a * q) * p
  BY <1>1
<1>3. v = a * (q * p) /\ q * p \in Nat
  BY <1>1, <1>2, Assoc
<1> QED BY Zenon, <1>3, MultiplesDivide

-----------------------------------------------------------------------------
\* The base of a family is aligned for all of its slices.
BasesAreAligned ==
  phase = "layout" =>
    \A family \in Families : base_offset[family] # NoOffset =>
      base_offset[family] % FamilyAlignment(fn, family) = 0

\* A slot that is not inside a sliced object.
StandsAlone(s) ==
  IsLayoutObject(s) => ObjectOf(s).family = NoFamily \/ ObjectOf(s).slice_offset = 0

AllSlotsAligned == \A s \in AllSlots : StandsAlone(s) => s.offset % s.align = 0

AInv == IInv /\ AlignmentsNest /\ BasesAreAligned /\ AllSlotsAligned

\* What is computed from the program alone does not change.
LEMMA AlignmentsAreFixed ==
  ASSUME objects' = objects
  PROVE  /\ \A f, family : FamilyAlignment(f, family)' = FamilyAlignment(f, family)
         /\ \A s : StandsAlone(s)' <=> StandsAlone(s)
         /\ AlignmentsNest => AlignmentsNest'
<1>1. \A f, family : Slices(f, family)' = Slices(f, family)
  BY Zenon DEF Slices, Placeable
<1>2. \A f, family : FamilyAlignment(f, family)' = FamilyAlignment(f, family)
  BY Zenon, <1>1 DEF FamilyAlignment
<1>3. \A s : StandsAlone(s)' <=> StandsAlone(s)
  BY Zenon DEF StandsAlone, IsLayoutObject, ObjectOf
<1>4. \A f, family : FamilyIsFixed(f, family)' <=> FamilyIsFixed(f, family)
  BY <1>1, Zenon DEF FamilyIsFixed
<1>5. \A f, family : preserve_slice_offsets(f, family)' <=> preserve_slice_offsets(f, family)
  BY Zenon, <1>1 DEF preserve_slice_offsets, IsDense, AlignmentWouldPad
<1>6. \A f, family : IsKept(f, family)' <=> IsKept(f, family)
  BY <1>4, <1>5, Zenon DEF IsKept
<1>7. AlignmentsNest => AlignmentsNest'
  BY Zenon, <1>1, <1>6 DEF AlignmentsNest
<1> QED BY Zenon, <1>2, <1>3, <1>7

\* The alignment of a family is one of its slices', or one if it has none, and no
\* slice has a larger one.
LEMMA FamilyAlignmentIsLargest ==
  ASSUME WellFormed, NEW f \in Function, NEW family, NEW i \in Slices(f, family)
  PROVE  /\ objects[f][i].align \in Nat \ {0}
         /\ objects[f][i].align <= FamilyAlignment(f, family)
         /\ \/ FamilyAlignment(f, family) = 1
            \/ \E j \in Slices(f, family) : FamilyAlignment(f, family) = objects[f][j].align
<1> DEFINE n == Len(objects[f])
           g == [k \in 1 .. n |-> objects[f][k].align]
           S == {objects[f][k].align : k \in Slices(f, family)} \cup {1}
<1>1. n \in Nat /\ \A k \in 1 .. n : objects[f][k].align \in Nat \ {0}
  BY Zenon, ObjectsAreTyped DEF ObjectFacts
<1>2. g \in [1 .. n -> Nat]
  BY Zenon, <1>1
<1>3. PICK b \in Nat : \A k \in 1 .. n : g[k] <= b
  <2> HIDE DEF n, g
  <2> QED BY <1>1, <1>2, FinitelyManyAreBounded, Zenon
<1>4. Slices(f, family) \subseteq 1 .. n
  BY Zenon, ObjectsAreTyped DEF Slices
<1>5. \A k \in Slices(f, family) : objects[f][k].align \in Nat \ {0} /\ objects[f][k].align <= b
  BY <1>1, <1>3, <1>4, Zenon
<1>6. S \in SUBSET Nat /\ S # {} /\ b + 1 \in Nat /\ \A m \in S : m <= b + 1
  BY <1>5
<1>7. largest(S) \in S /\ \A m \in S : m <= largest(S)
  <2> HIDE DEF S
  <2> QED BY Zenon, <1>6, LargestIsMaximum
<1>8. FamilyAlignment(f, family) = largest(S)
  BY Zenon DEF FamilyAlignment
<1> HIDE DEF n
<1> QED BY Zenon, <1>5, <1>7, <1>8

\* A base that is aligned for the family is aligned for each slice of it.
LEMMA BaseServesSlices ==
  ASSUME WellFormed, AlignmentsNest, NEW f \in Function, NEW family \in Families,
         IsKept(f, family), NEW i \in Slices(f, family), NEW base \in Nat,
         base % FamilyAlignment(f, family) = 0
  PROVE  base % objects[f][i].align = 0
<1> DEFINE a == objects[f][i].align
           b == FamilyAlignment(f, family)
<1>1. a \in Nat \ {0} /\ a <= b /\ b \in Nat \ {0}
  BY Zenon, FamilyAlignmentIsLargest, FamilyAlignmentIsPositive
<1>2. b % a = 0
  <2>1. CASE b = 1
    <3>1. a = 1
      BY <1>1, <2>1
    <3> HIDE DEF a, b
    <3> QED BY <2>1, <3>1
  <2>2. CASE \E j \in Slices(f, family) : b = objects[f][j].align
    BY <1>1, <2>2, Zenon DEF AlignmentsNest
  <2> QED BY <2>1, <2>2, FamilyAlignmentIsLargest, Zenon
<1>3. base % b = 0
  BY Zenon
<1> HIDE DEF a, b
<1>4. base % a = 0
  BY Zenon, <1>1, <1>2, <1>3, MultiplesNest
<1> QED BY Zenon, <1>4 DEF a

\* Slots that are aligned stay so when none is added.
LEMMA AlignedIsKept ==
  ASSUME AllSlotsAligned, objects' = objects, AllSlots' \subseteq AllSlots
  PROVE  AllSlotsAligned'
BY AlignmentsAreFixed, Zenon DEF AllSlotsAligned

\* One more slot that is aligned if it stands alone.
LEMMA NewSlotIsAligned ==
  ASSUME AllSlotsAligned, objects' = objects, NEW slot, AllSlots' \subseteq AllSlots \cup {slot},
         StandsAlone(slot) => slot.offset % slot.align = 0
  PROVE  AllSlotsAligned'
BY AlignmentsAreFixed, Zenon DEF AllSlotsAligned

\* A placing step keeps the bases of the families that do not get one.
LEMMA PlacingKeepsAInv ==
  ASSUME AInv, NEW slot, SlotIsPlaced(slot), StandsAlone(slot) => slot.offset % slot.align = 0,
         \A family \in Families : base_offset'[family] # base_offset[family] =>
           base_offset'[family] % FamilyAlignment(fn, family) = 0
  PROVE  AInv'
<1>1. /\ objects' = objects /\ fn' = fn /\ phase = "layout" /\ phase' = "layout"
      /\ frame_slots' = frame_slots \cup {slot} /\ assigned' = assigned
  BY Zenon DEF SlotIsPlaced, program
<1>2. IInv'
  BY Zenon, PlacingKeepsIInv DEF AInv
<1>3. AlignmentsNest'
  BY <1>1, AlignmentsAreFixed, Zenon DEF AInv
<1>4. BasesAreAligned'
  <2>1. \A family : FamilyAlignment(fn, family)' = FamilyAlignment(fn, family)
    BY <1>1, AlignmentsAreFixed, Zenon
  <2> SUFFICES ASSUME NEW family \in Families, base_offset'[family] # NoOffset
               PROVE  base_offset'[family] % FamilyAlignment(fn, family) = 0
    BY <2>1, Zenon DEF BasesAreAligned
  <2>2. CASE base_offset'[family] = base_offset[family]
    BY <1>1, <2>2, Zenon DEF AInv, BasesAreAligned
  <2>3. CASE base_offset'[family] # base_offset[family]
    BY <2>3, Zenon
  <2> QED BY <2>2, <2>3, Zenon
<1>5. AllSlots' \subseteq AllSlots \cup {slot}
  BY Zenon, <1>1 DEF AllSlots
<1>6. AllSlotsAligned'
  BY <1>1, <1>5, NewSlotIsAligned, Zenon DEF AInv
<1> QED BY <1>2, <1>3, <1>4, <1>6, Zenon DEF AInv

\* append_slot_for_object aligns the slot it places.
LEMMA AppendedSlotIsAligned ==
  ASSUME AInv, NEW i,
         SlotIsPlaced(NewSlot(i, align_to(next_offset, Obj(i).align), Obj(i).size, Obj(i).align)),
         base_offset' = base_offset
  PROVE  AInv'
<1> DEFINE slot == NewSlot(i, align_to(next_offset, Obj(i).align), Obj(i).size, Obj(i).align)
<1>1. slot.offset = align_to(next_offset, Obj(i).align) /\ slot.align = Obj(i).align
  BY Zenon DEF NewSlot
<1>2. SlotIsPlaced(slot)
  BY Zenon
<1> HIDE DEF slot
<1>3. slot.align \in Nat \ {0} /\ next_offset \in Nat
  BY Zenon, <1>2 DEF SlotIsPlaced, Slot, AInv, IInv, TypeInv
<1>4. slot.offset % slot.align = 0
  BY Zenon, <1>1, <1>3, AlignToAligns
<1> QED BY <1>2, <1>4, PlacingKeepsAInv, Zenon

\* append_slice_offset_slot_for_object: the base is aligned for the family, and the
\* slice at distance zero lies at the base.
LEMMA PlacedSliceIsAligned ==
  ASSUME AInv, NEW i \in fixed, PlaceSlice(i)
  PROVE  AInv'
<1> DEFINE family == Obj(i).family
           base == FamilyBase(family)
           slot == NewSlot(i, base + Obj(i).slice_offset, Obj(i).size, Obj(i).align)
<1>1. /\ IInv /\ TypeInv /\ WellFormed /\ AlignmentsNest /\ phase = "layout" /\ fn \in Function
      /\ next_offset \in Nat /\ BasesAreAligned
      /\ base_offset \in [Families -> Nat \cup {NoOffset}]
  BY Zenon DEF AInv, IInv, TypeInv, PlaceSlice
<1>2. family \in Families /\ base \in Nat /\ SlotIsPlaced(slot)
  BY Zenon, <1>1, AppendSlicePlaces
<1>3. /\ i \in Placeable(fn) /\ Obj(i) = objects[fn][i] /\ i \in DOMAIN objects[fn]
  BY Zenon, <1>1, PlaceableFacts, ObjectsAreTyped DEF Obj
<1>4. IsKept(fn, family) /\ i \in Slices(fn, family)
  BY Zenon, <1>3 DEF PlaceSlice, KeepsSlice, IsKept, Slices
<1>5. base_offset' = [base_offset EXCEPT ![family] = base]
  BY Zenon DEF PlaceSlice, append_slice_offset_slot, FamilyBase
<1>6. base % FamilyAlignment(fn, family) = 0
  <2>1. FamilyAlignment(fn, family) \in Nat \ {0}
    BY Zenon, <1>1, FamilyAlignmentIsPositive
  <2> HIDE DEF family
  <2>2. CASE base_offset[family] = NoOffset
    BY Zenon, <1>1, <2>1, <2>2, AlignToAligns DEF FamilyBase
  <2>3. CASE base_offset[family] # NoOffset
    BY <1>1, <1>2, <2>3, Zenon DEF FamilyBase, BasesAreAligned
  <2> QED BY Zenon, <2>2, <2>3
<1>7. base % Obj(i).align = 0
  <2> HIDE DEF family, base
  <2>1. base % objects[fn][i].align = 0
    BY Zenon, <1>1, <1>2, <1>4, <1>6, BaseServesSlices
  <2> QED BY Zenon, <1>3, <2>1
<1>8. /\ slot.object = i /\ slot.function = fn /\ slot.align = Obj(i).align
      /\ slot.offset = base + Obj(i).slice_offset
  BY Zenon DEF NewSlot
<1>9. StandsAlone(slot) => Obj(i).slice_offset = 0
  <2>1. family # NoFamily
    BY Zenon, <1>4 DEF IsKept
  <2> HIDE DEF slot
  <2> QED BY <1>3, <1>8, <2>1, Zenon DEF StandsAlone, IsLayoutObject, ObjectOf
<1> HIDE DEF slot, base, family
<1>10. StandsAlone(slot) => slot.offset % slot.align = 0
  <2> SUFFICES ASSUME StandsAlone(slot) PROVE slot.offset % slot.align = 0
    BY Zenon
  <2>1. slot.offset = base
    BY <1>2, <1>8, <1>9
  <2> QED BY Zenon, <1>7, <1>8, <2>1
<1>11. \A other \in Families : base_offset'[other] # base_offset[other] =>
         base_offset'[other] % FamilyAlignment(fn, other) = 0
  <2> SUFFICES ASSUME NEW other \in Families, base_offset'[other] # base_offset[other]
               PROVE  base_offset'[other] % FamilyAlignment(fn, other) = 0
    BY Zenon
  <2>1. other = family /\ base_offset'[other] = base
    BY Zenon, <1>1, <1>5
  <2> QED BY Zenon, <1>6, <2>1
<1> QED BY <1>2, <1>10, <1>11, PlacingKeepsAInv, Zenon

\* A step that neither places an object nor hands out a slot.
LEMMA LaterStepKeepsAInv ==
  ASSUME AInv, IInv', objects' = objects, phase' # "layout", AllSlots' \subseteq AllSlots
  PROVE  AInv'
BY AlignmentsAreFixed, AlignedIsKept, Zenon DEF AInv, BasesAreAligned

\* A step of any pass keeps the slots aligned.
LEMMA NextKeepsAInv == AInv /\ [Next]_vars => AInv'
<1> SUFFICES ASSUME AInv, [Next]_vars PROVE AInv'
  BY Zenon
<1>1. IInv /\ IInv' /\ TypeInv
  BY Zenon, NextKeepsIInv DEF AInv, IInv
<1>2. ASSUME NEW i \in fixed, PlaceSlice(i) PROVE AInv'
  BY Zenon, <1>2, PlacedSliceIsAligned
<1>3. ASSUME NEW i \in fixed, PlaceFixed(i) PROVE AInv'
  <2>1. base_offset' = base_offset
    BY Zenon, <1>3 DEF PlaceFixed
  <2> QED BY <1>1, <1>3, <2>1, PlaceFixedPlaces, AppendedSlotIsAligned, Zenon
<1>4. CASE PlaceReorderable
  <2>1. base_offset' = base_offset
    BY Zenon, <1>4 DEF PlaceReorderable
  <2> QED BY <1>1, <1>4, <2>1, PlaceReorderablePlaces, AppendedSlotIsAligned, Zenon
<1>5. CASE EndLayout
  <2>1. objects' = objects /\ frame_slots' = frame_slots /\ assigned = << >>
    BY Zenon, <1>1, <1>5 DEF EndLayout, program, IInv, IdsAreFresh
  <2>2. CASE UNCHANGED <<phase, next_slot_id, assigned>> /\ StartLayout(fn + 1)
    <3>1. AllSlots' \subseteq AllSlots
      BY Zenon, <2>1, <2>2 DEF AllSlots
    <3>2. BasesAreAligned'
      BY Zenon, <2>2 DEF BasesAreAligned, StartLayout
    <3> QED BY <1>1, <2>1, <3>1, <3>2, AlignmentsAreFixed, AlignedIsKept, Zenon DEF AInv
  <2>3. CASE phase' = "regalloc" /\ StartRegalloc(1)
    <3>1. AllSlots' \subseteq AllSlots
      BY Zenon, <2>1, <2>3 DEF AllSlots, StartRegalloc
    <3>2. phase' # "layout"
      BY Zenon, <2>3
    <3> QED BY <1>1, <2>1, <3>1, <3>2, LaterStepKeepsAInv, Zenon
  <2> QED BY <1>5, <2>2, <2>3, Zenon DEF EndLayout
<1>6. CASE AllocateSlot
  <2> DEFINE slot == HandedOut
  <2>1. slot \in Slot /\ AllSlots' = AllSlots \cup {slot}
    BY <1>1, <1>6, AllocateSlotHandsOut, Zenon
  <2>2. slot.offset = align_to(next_offset, NextValue.align) /\ slot.align = NextValue.align
    BY Zenon DEF HandedOut, NewSlot
  <2>3. objects' = objects /\ phase' # "layout" /\ next_offset \in Nat
    BY Zenon, <1>1, <1>6 DEF AllocateSlot, program, TypeInv
  <2> HIDE DEF slot
  <2>4. slot.align \in Nat \ {0}
    BY Zenon, <2>1 DEF Slot
  <2>5. slot.offset % slot.align = 0
    BY Zenon, <2>2, <2>3, <2>4, AlignToAligns
  <2>6. AllSlotsAligned'
    BY <2>1, <2>3, <2>5, NewSlotIsAligned, Zenon DEF AInv
  <2> QED BY <1>1, <2>3, <2>6, AlignmentsAreFixed, Zenon DEF AInv, BasesAreAligned
<1>7. CASE AppendStorage
  <2> DEFINE slot == StorageSlot
             extent == function_frame_extent(fn)
  <2>1. slot \in Slot /\ AllSlots' = AllSlots \cup {slot} /\ extent \in Nat
    BY <1>1, <1>7, AppendStoragePlaces, AppendStorageKeepsIInv, Zenon
  <2>2. slot.offset = align_to(extent, slot.align)
    BY Zenon DEF StorageSlot
  <2>3. objects' = objects /\ phase' # "layout"
    BY Zenon, <1>7 DEF AppendStorage, program
  <2> HIDE DEF slot, extent
  <2>4. slot.align \in Nat \ {0}
    BY Zenon, <2>1 DEF Slot
  <2>5. slot.offset % slot.align = 0
    BY Zenon, <2>1, <2>2, <2>4, AlignToAligns
  <2>6. AllSlotsAligned'
    BY <2>1, <2>3, <2>5, NewSlotIsAligned, Zenon DEF AInv
  <2> QED BY <1>1, <2>3, <2>6, AlignmentsAreFixed, Zenon DEF AInv, BasesAreAligned
<1>8. CASE ReuseSlot
  <2>1. objects' = objects /\ phase' # "layout"
    BY Zenon, <1>8 DEF ReuseSlot, program
  <2> QED BY <1>1, <1>8, <2>1, ReuseSlotKeepsIInv, LaterStepKeepsAInv, Zenon
<1>9. CASE PublishSlots
  <2>1. objects' = objects /\ phase' # "layout"
    BY Zenon, <1>9 DEF PublishSlots, program
  <2> QED BY <1>1, <1>9, <2>1, PublishSlotsKeepsIInv, LaterStepKeepsAInv, Zenon
<1>10. CASE NextRegalloc \/ PlanFrames \/ EndStorage \/ ReplanFrames
  <2>1. /\ objects' = objects /\ phase' # "layout" /\ frame_slots' = frame_slots
        /\ assigned' = << >> \/ assigned' = assigned
    BY Zenon, <1>10 DEF NextRegalloc, StartRegalloc, PlanFrames, EndStorage, ReplanFrames, program
  <2>2. AllSlots' \subseteq AllSlots
    BY <2>1 DEF AllSlots
  <2> QED BY <1>1, <2>1, <2>2, LaterStepKeepsAInv, Zenon
<1>11. CASE UNCHANGED vars
  <2>1. UNCHANGED <<objects, base_offset, phase, fn, frame_slots, assigned>>
    BY Zenon, <1>11 DEF vars, program, layout
  <2>2. AllSlots' \subseteq AllSlots
    BY Zenon, <2>1 DEF AllSlots
  <2>3. BasesAreAligned'
    <3>1. \A family : FamilyAlignment(fn, family)' = FamilyAlignment(fn, family)
      BY <2>1, AlignmentsAreFixed, Zenon
    <3> QED BY <2>1, <3>1, Zenon DEF AInv, BasesAreAligned
  <2> QED BY <1>1, <2>1, <2>2, <2>3, AlignmentsAreFixed, AlignedIsKept, Zenon DEF AInv
<1> QED BY <1>2, <1>3, <1>4, <1>5, <1>6, <1>7, <1>8, <1>9, <1>10, <1>11, Zenon DEF Next

\* Every slot lies at a multiple of the alignment it publishes, whichever pass
\* placed it, except for a slice inside its object; when of the alignments of an
\* object's slices the larger are multiples of the smaller, as the lowering makes
\* them.
THEOREM SlotsStayAligned == Spec /\ AlignmentsNest => []SlotsAreAligned
<1>1. WellFormed /\ Start /\ AlignmentsNest => AInv
  BY InitIInv DEF AInv, Start, BasesAreAligned, AllSlotsAligned, AllSlots
<1>2. AInv => SlotsAreAligned
  BY Zenon DEF AInv, AllSlotsAligned, AllSlots, SlotsAreAligned, StandsAlone
<1> QED BY <1>1, <1>2, NextKeepsAInv, PTL DEF Spec

-----------------------------------------------------------------------------
(***************************************************************************)
(* The slices of an object.                                                *)
(***************************************************************************)

\* A family whose slices are placed one behind the other.
IsPacked(f, family) ==
  family # NoFamily /\ FamilyIsFixed(f, family) /\ ~preserve_slice_offsets(f, family)

\* Between the first and the last slice of such a family the frame ends with the
\* slice that was placed last.
RunIsOpen(family) ==
  Slices(fn, family) \cap fixed # {} /\ Slices(fn, family) \ fixed # {} =>
    \E s \in SlotsOf(fn) :
      /\ s.object \in Slices(fn, family) \ fixed
      /\ \A k \in Slices(fn, family) \ fixed : FixedPrecedes(fn, k, s.object)
      /\ End(s) = next_offset /\ s.size = Obj(s.object).size
      /\ s.align = Obj(s.object).align /\ s.offset % s.align = 0
RunsAreOpen ==
  phase = "layout" => \A family \in Families : IsPacked(fn, family) => RunIsOpen(family)

\* j is the next slice of its family after i.
IsNextSlice(f, family, i, j) ==
  /\ i # j /\ FixedPrecedes(f, i, j)
  /\ \A k \in Slices(f, family) : FixedPrecedes(f, k, i) \/ FixedPrecedes(f, j, k)

\* What the choice of preserve_slice_offsets is for: slices that keep their
\* offsets carry byte offsets, and those that are packed begin where the one before
\* them ends and need no padding.
SlicesFit ==
  \A f \in Function : \A family \in Families \ {NoFamily} : FamilyIsFixed(f, family) =>
    IF preserve_slice_offsets(f, family)
    THEN AreFields(f, family)
    ELSE /\ DeclaredTogether(f, family)
         /\ \A i, j \in Slices(f, family) : IsNextSlice(f, family, i, j) =>
              /\ objects[f][j].byte_offset = objects[f][i].byte_offset + objects[f][i].size
              /\ objects[f][i].align % objects[f][j].align = 0
              /\ objects[f][i].size % objects[f][j].align = 0

\* Two slots for slices of one object in memory.
Siblings(s, t) ==
  /\ s.function = t.function /\ IsLayoutObject(s) /\ IsLayoutObject(t)
  /\ ObjectOf(s).family = ObjectOf(t).family /\ ObjectOf(s).family # NoFamily
  /\ FamilyIsFixed(s.function, ObjectOf(s).family)

AtTheirDistance(s, t) ==
  s.offset - t.offset = ObjectOf(s).byte_offset - ObjectOf(t).byte_offset

DistancesAreKept == \A s, t \in AllSlots : Siblings(s, t) => AtTheirDistance(s, t)

KInv == DInv /\ SlicesFit /\ RunsAreOpen /\ DistancesAreKept

\* A slice whose size and whose predecessor's alignment are multiples of its
\* alignment needs no padding.
LEMMA NoPaddingBetween ==
  ASSUME NEW o \in Nat, NEW n \in Nat, NEW a \in Nat \ {0}, NEW b \in Nat \ {0},
         o % a = 0, a % b = 0, n % b = 0
  PROVE  align_to(o + n, b) = o + n
<1> DEFINE p == o \div b
           q == n \div b
<1>1. o % b = 0
  BY MultiplesNest, Zenon
<1>2. o = b * p + 0 /\ p \in Nat /\ n = b * q + 0 /\ q \in Nat
  BY Zenon, <1>1, Division
<1> HIDE DEF p, q
<1>3. o + n = b * (p + q) /\ p + q \in Nat
  BY <1>2
<1>4. (o + n) % b = 0
  BY Zenon, <1>3, MultiplesDivide
<1> QED BY Zenon, <1>4 DEF align_to

\* Byte offsets are numbers.
LEMMA BytesAreTyped ==
  ASSUME WellFormed, NEW f \in Function
  PROVE  \A i \in DOMAIN objects[f] : objects[f][i].byte_offset \in Nat
<1> DEFINE O == [size : Nat, align : Nat \ {0}, family : Families \cup {NoFamily},
                 slice_offset : Nat, byte_offset : Nat, kind : {"param", "local", "copy"},
                 requires_home : BOOLEAN, permanent : BOOLEAN]
<1>1. objects[f] \in Seq(O)
  BY Zenon DEF WellFormed
<1>2. \A i \in DOMAIN objects[f] : objects[f][i] \in O
  <2> HIDE DEF O
  <2> QED BY <1>1
<1> QED BY Zenon, <1>2

\* What the distances are about does not change with the program.
LEMMA DistancesAreFixed ==
  ASSUME objects' = objects
  PROVE  /\ \A s, t : Siblings(s, t)' <=> Siblings(s, t)
         /\ \A s, t : AtTheirDistance(s, t)' <=> AtTheirDistance(s, t)
         /\ \A f, family : IsPacked(f, family)' <=> IsPacked(f, family)
         /\ SlicesFit => SlicesFit'
<1>1. \A f, family : FamilyIsFixed(f, family)' <=> FamilyIsFixed(f, family)
  BY ProgramIsFixed, Zenon
<1>2. /\ \A s : IsLayoutObject(s)' <=> IsLayoutObject(s)
      /\ \A s : ObjectOf(s)' = ObjectOf(s)
  BY Zenon DEF IsLayoutObject, ObjectOf
<1>3. \A s, t : Siblings(s, t)' <=> Siblings(s, t)
  BY <1>1, <1>2, Zenon DEF Siblings
<1>4. \A s, t : AtTheirDistance(s, t)' <=> AtTheirDistance(s, t)
  BY <1>2, Zenon DEF AtTheirDistance
<1>5. \A f, family : preserve_slice_offsets(f, family)' <=> preserve_slice_offsets(f, family)
  BY ProgramIsFixed, Zenon
<1>6. \A f, family : IsPacked(f, family)' <=> IsPacked(f, family)
  BY <1>1, <1>5, Zenon DEF IsPacked
<1>7. /\ \A f, family : Slices(f, family)' = Slices(f, family)
      /\ \A f, i, j : FixedPrecedes(f, i, j)' <=> FixedPrecedes(f, i, j)
      /\ \A f, family : DeclaredTogether(f, family)' <=> DeclaredTogether(f, family)
  BY ProgramIsFixed, Zenon
<1>8. \A f, family, i, j : IsNextSlice(f, family, i, j)' <=> IsNextSlice(f, family, i, j)
  BY <1>7, Zenon DEF IsNextSlice
<1>9. SlicesFit => SlicesFit'
  <2> DEFINE Abut(f, i, j) ==
               /\ objects[f][j].byte_offset = objects[f][i].byte_offset + objects[f][i].size
               /\ objects[f][i].align % objects[f][j].align = 0
               /\ objects[f][i].size % objects[f][j].align = 0
             Follows(f, family) ==
               \A i, j \in Slices(f, family) : IsNextSlice(f, family, i, j) => Abut(f, i, j)
  <2>1. \A f, family : AreFields(f, family)' <=> AreFields(f, family)
    BY <1>7, Zenon DEF AreFields
  <2>2. \A f, family : Follows(f, family)' <=> Follows(f, family)
    <3>1. \A f, i, j : Abut(f, i, j)' <=> Abut(f, i, j)
      BY Zenon
    <3>2. \A f, family : Slices(f, family)' = Slices(f, family)
      BY <1>7, Zenon
    <3> HIDE DEF Abut
    <3> QED BY <1>8, <3>1, <3>2, Zenon
  <2>3. SlicesFit <=> \A f \in Function : \A family \in Families \ {NoFamily} :
                        FamilyIsFixed(f, family) =>
                          IF preserve_slice_offsets(f, family) THEN AreFields(f, family)
                          ELSE DeclaredTogether(f, family) /\ Follows(f, family)
    BY Zenon DEF SlicesFit
  <2>4. SlicesFit' <=> \A f \in Function : \A family \in Families \ {NoFamily} :
                         FamilyIsFixed(f, family)' =>
                           IF preserve_slice_offsets(f, family)' THEN AreFields(f, family)'
                           ELSE DeclaredTogether(f, family)' /\ Follows(f, family)'
    BY Zenon DEF SlicesFit
  <2> HIDE DEF Follows
  <2> QED BY <1>1, <1>5, <1>7, <2>1, <2>2, <2>3, <2>4, Zenon
<1> QED BY <1>3, <1>4, <1>6, <1>9, Zenon

\* The slices of a fixed family are fixed objects, and none is reorderable.
LEMMA FixedFamiliesAreFixed ==
  ASSUME NEW f, NEW family, family # NoFamily, FamilyIsFixed(f, family)
  PROVE  /\ Slices(f, family) \subseteq FixedObjects(f)
         /\ Slices(f, family) \cap ReorderableObjects(f) = {}
BY Zenon DEF Slices, FixedObjects, ReorderableObjects, fixed_location

\* The order of placement orders the objects.
LEMMA FixedPrecedesIsReflexive ==
  ASSUME NEW f, NEW i \in Nat
  PROVE  FixedPrecedes(f, i, i)
BY DEF FixedPrecedes

\* A placing step opens, continues or closes runs.
LEMMA PlacingKeepsRuns ==
  ASSUME KInv, NEW i, NEW slot, ObjectIsPlaced(i, slot),
         slot.size = Obj(i).size, slot.align = Obj(i).align,
         \A family \in Families : IsPacked(fn, family) /\ i \in Slices(fn, family) =>
           End(slot) = next_offset' /\ slot.offset % slot.align = 0
  PROVE  RunsAreOpen'
<1>1. /\ phase = "layout" /\ fn' = fn /\ objects' = objects /\ i \in Placeable(fn)
      /\ SlotsOf(fn)' = SlotsOf(fn) \cup {slot} /\ slot.object = i
      /\ fixed' = fixed \ {i} /\ fn \in Function /\ i \in Nat
  <2>1. /\ phase = "layout" /\ fn' = fn /\ objects' = objects /\ i \in Placeable(fn)
        /\ SlotsOf(fn)' = SlotsOf(fn) \cup {slot} /\ slot.object = i /\ fixed' = fixed \ {i}
    BY PlacingFacts, Zenon DEF KInv, ObjectIsPlaced
  <2>2. WellFormed /\ fn \in Function
    BY Zenon DEF KInv, DInv, IInv, TypeInv
  <2>3. i \in Nat
    BY Zenon, <2>1, <2>2, ObjectsAreTyped
  <2> QED BY Zenon, <2>1, <2>2, <2>3
<1>2. /\ fixed \subseteq FixedObjects(fn) /\ reorderable \subseteq ReorderableObjects(fn)
      /\ \A k \in FixedObjects(fn) \ fixed : \A j \in fixed : FixedPrecedes(fn, k, j)
  BY <1>1, Zenon DEF KInv, DInv, PlacedInOrder
<1>3. /\ \A family : Slices(fn, family)' = Slices(fn, family)
      /\ \A j, k : FixedPrecedes(fn, j, k)' <=> FixedPrecedes(fn, j, k)
      /\ \A k : Obj(k)' = Obj(k)
      /\ \A family : IsPacked(fn, family)' <=> IsPacked(fn, family)
  <2>1. /\ \A family : Slices(fn, family)' = Slices(fn, family)
        /\ \A j, k : FixedPrecedes(fn, j, k)' <=> FixedPrecedes(fn, j, k)
    BY <1>1, LayoutIsFixed, Zenon
  <2>2. \A k : Obj(k)' = Obj(k)
    BY <1>1, Zenon DEF Obj
  <2>3. \A family : IsPacked(fn, family)' <=> IsPacked(fn, family)
    BY <1>1, DistancesAreFixed, Zenon
  <2> QED BY <2>1, <2>2, <2>3, Zenon
<1> SUFFICES ASSUME NEW family \in Families, IsPacked(fn, family) PROVE RunIsOpen(family)'
  BY <1>3, Zenon DEF RunsAreOpen
<1> DEFINE S == Slices(fn, family)
<1>4. S \subseteq FixedObjects(fn) /\ S \cap ReorderableObjects(fn) = {}
  BY FixedFamiliesAreFixed, Zenon DEF IsPacked
<1>5. CASE i \in S
  <2>1. i \in fixed
    BY <1>2, <1>4, <1>5, Zenon DEF ObjectIsPlaced
  <2>2. \A k \in S \ fixed' : FixedPrecedes(fn, k, i)
    <3> SUFFICES ASSUME NEW k \in S \ fixed' PROVE FixedPrecedes(fn, k, i)
      BY Zenon
    <3>1. CASE k = i
      BY Zenon, <1>1, <3>1, FixedPrecedesIsReflexive
    <3>2. CASE k # i
      BY <1>1, <1>2, <1>4, <2>1, <3>2, Zenon
    <3> QED BY Zenon, <3>1, <3>2
  <2>3. End(slot) = next_offset' /\ slot.offset % slot.align = 0
    BY <1>5, Zenon
  <2>4. slot \in SlotsOf(fn)' /\ i \in S \ fixed'
    BY <1>1, <1>5, Zenon
  <2> QED BY <1>1, <1>3, <2>2, <2>3, <2>4, Zenon DEF RunIsOpen, End
<1>6. CASE i \notin S
  <2> SUFFICES ASSUME NEW p \in S \ fixed', NEW q \in S \cap fixed' PROVE FALSE
    BY <1>3, Zenon DEF RunIsOpen
  <2>1. p \in FixedObjects(fn) \ fixed /\ q \in fixed
    BY <1>1, <1>4, <1>6, Zenon
  <2>2. i \in fixed /\ IsNextFixed(i)
    BY <2>1, Zenon DEF ObjectIsPlaced
  <2>3. FixedPrecedes(fn, p, i) /\ FixedPrecedes(fn, i, q) /\ i \in FixedObjects(fn)
    BY <1>2, <2>1, <2>2, Zenon DEF IsNextFixed
  <2>4. DeclaredTogether(fn, family)
    BY <1>1, Zenon DEF KInv, SlicesFit, IsPacked
  <2> QED BY <1>6, <2>3, <2>4, Zenon DEF DeclaredTogether
<1> QED BY Zenon, <1>5, <1>6

\* Distances go both ways.
LEMMA DistancesAreSymmetric ==
  ASSUME NEW a \in Int, NEW b \in Int, NEW c \in Int, NEW d \in Int, a - b = c - d
  PROVE  b - a = d - c
OBVIOUS

\* Adding one size to two offsets adds the same distance to both.
LEMMA ShiftsAreEqual ==
  ASSUME NEW a \in Int, NEW b \in Int, NEW n \in Nat
  PROVE  (a + n) - a = (b + n) - b
OBVIOUS

\* Distances add up.
LEMMA DistancesAdd ==
  ASSUME NEW a \in Int, NEW b \in Int, NEW c \in Int, NEW x \in Int, NEW y \in Int, NEW z \in Int,
         a - b = x - y, b - c = y - z
  PROVE  a - c = x - z
OBVIOUS

\* The offsets and byte offsets that distances are about are numbers.
LEMMA SlotBytes ==
  ASSUME IInv, NEW s, s \in Slot, IsLayoutObject(s)
  PROVE  s.offset \in Int /\ ObjectOf(s).byte_offset \in Int
<1>1. s.offset \in Nat /\ s.function \in Function
  BY Zenon DEF Slot
<1>2. ObjectOf(s).byte_offset \in Nat
  BY <1>1, BytesAreTyped, Zenon DEF IInv, TypeInv, IsLayoutObject, ObjectOf
<1> QED BY <1>1, <1>2

\* Distances that are kept stay so when no slot is added.
LEMMA DistancesStay ==
  ASSUME DistancesAreKept, objects' = objects, AllSlots' \subseteq AllSlots
  PROVE  DistancesAreKept'
BY DistancesAreFixed, Zenon DEF DistancesAreKept

\* A slot that belongs to no stack object has no siblings.
LEMMA OtherSlotKeepsDistances ==
  ASSUME DistancesAreKept, objects' = objects, NEW slot, ~IsLayoutObject(slot),
         AllSlots' \subseteq AllSlots \cup {slot}
  PROVE  DistancesAreKept'
<1>1. \A s : ~Siblings(s, slot) /\ ~Siblings(slot, s)
  BY Zenon DEF Siblings
<1> QED BY <1>1, DistancesAreFixed, Zenon DEF DistancesAreKept

\* One more slot at its distance from its siblings.
LEMMA NewSlotKeepsDistances ==
  ASSUME IInv, DistancesAreKept, objects' = objects, NEW slot \in Slot,
         AllSlots' \subseteq AllSlots \cup {slot},
         \A s \in AllSlots : Siblings(s, slot) => AtTheirDistance(slot, s)
  PROVE  DistancesAreKept'
<1>1. \A s \in AllSlots : s \in Slot
  BY SlotsAreTyped, Zenon DEF IInv
<1>2. \A s \in AllSlots \cup {slot} : \A t \in AllSlots \cup {slot} :
        Siblings(s, t) => AtTheirDistance(s, t)
  <2> SUFFICES ASSUME NEW s \in AllSlots \cup {slot}, NEW t \in AllSlots \cup {slot}, Siblings(s, t)
               PROVE  AtTheirDistance(s, t)
    BY Zenon
  <2>1. /\ s.offset \in Int /\ ObjectOf(s).byte_offset \in Int
        /\ t.offset \in Int /\ ObjectOf(t).byte_offset \in Int
    <3>1. s \in Slot /\ t \in Slot /\ IsLayoutObject(s) /\ IsLayoutObject(t)
      BY <1>1, Zenon DEF Siblings
    <3> QED BY <3>1, SlotBytes, Zenon
  <2>2. CASE s \in AllSlots /\ t \in AllSlots
    BY <2>2, Zenon DEF DistancesAreKept
  <2>3. CASE s \in AllSlots /\ t = slot
    <3>1. AtTheirDistance(t, s)
      BY <2>3, Zenon
    <3>2. t.offset - s.offset = ObjectOf(t).byte_offset - ObjectOf(s).byte_offset
      BY <3>1, Zenon DEF AtTheirDistance
    <3>3. s.offset - t.offset = ObjectOf(s).byte_offset - ObjectOf(t).byte_offset
      BY <2>1, <3>2, DistancesAreSymmetric
    <3> QED BY <3>3, Zenon DEF AtTheirDistance
  <2>4. CASE s = slot /\ t \in AllSlots
    <3>1. Siblings(t, s)
      BY Zenon DEF Siblings
    <3> QED BY <2>4, <3>1, Zenon
  <2>5. CASE s = slot /\ t = slot
    BY <2>1, <2>5 DEF AtTheirDistance
  <2> QED BY <2>2, <2>3, <2>4, <2>5, Zenon
<1> QED BY <1>2, DistancesAreFixed, Zenon DEF DistancesAreKept

\* What the placing steps have in common.
LEMMA PlacingKeepsKInv ==
  ASSUME KInv, DInv', NEW i, NEW slot, ObjectIsPlaced(i, slot),
         slot.size = Obj(i).size, slot.align = Obj(i).align,
         \A family \in Families : IsPacked(fn, family) /\ i \in Slices(fn, family) =>
           End(slot) = next_offset' /\ slot.offset % slot.align = 0,
         \A s \in AllSlots : Siblings(s, slot) => AtTheirDistance(slot, s)
  PROVE  KInv'
<1>1. RunsAreOpen'
  BY PlacingKeepsRuns, Zenon
<1>2. objects' = objects /\ AllSlots' = AllSlots \cup {slot}
  BY PlacingFacts, Zenon DEF KInv
<1>3. slot \in Slot
  BY Zenon DEF ObjectIsPlaced, SlotIsPlaced
<1>4. DistancesAreKept'
  BY <1>2, <1>3, NewSlotKeepsDistances, Zenon DEF KInv, DInv
<1>5. SlicesFit'
  BY <1>2, DistancesAreFixed, Zenon DEF KInv
<1> QED BY <1>1, <1>4, <1>5, Zenon DEF KInv

\* A sibling of the slot for object i is the slot of a placed slice of its family.
LEMMA SiblingsArePlaced ==
  ASSUME KInv, NEW i, NEW slot, ObjectIsPlaced(i, slot), NEW s \in AllSlots, Siblings(s, slot)
  PROVE  /\ Obj(i).family \in Families \ {NoFamily} /\ FamilyIsFixed(fn, Obj(i).family)
         /\ i \in Slices(fn, Obj(i).family) /\ i \in fixed
         /\ s \in SlotsOf(fn) /\ s.object \in Slices(fn, Obj(i).family) \ fixed
         /\ ObjectOf(s) = Obj(s.object) /\ ObjectOf(slot) = Obj(i)
<1>1. /\ phase = "layout" /\ AllSlots = frame_slots /\ i \in Placeable(fn)
      /\ slot.function = fn /\ slot.object = i
  BY PlacingFacts, Zenon DEF KInv, ObjectIsPlaced, SlotIsPlaced
<1>2. ObjectOf(s) = Obj(s.object) /\ ObjectOf(slot) = Obj(i)
  BY <1>1, Zenon DEF Siblings, ObjectOf, Obj
<1>3. s \in SlotsOf(fn)
  BY <1>1, Zenon DEF Siblings, SlotsOf
<1>4. /\ Obj(s.object).family = Obj(i).family /\ Obj(i).family # NoFamily
      /\ FamilyIsFixed(fn, Obj(i).family)
  BY <1>1, <1>2, Zenon DEF Siblings
<1>5. Obj(i).family \in Families
  <2>1. ObjectFacts(Obj(i))
    BY <1>1, PlaceableFacts, Zenon DEF KInv, DInv, IInv, ObjectIsPlaced
  <2> QED BY <1>4, <2>1, Zenon DEF ObjectFacts
<1>6. i \in Slices(fn, Obj(i).family)
  BY <1>1, Zenon DEF Slices, Obj
<1>7. s.object \in Placeable(fn) /\ s.object \notin fixed
  BY <1>1, <1>3, Zenon DEF KInv, DInv, PlacedInOrder
<1>8. s.object \in Slices(fn, Obj(i).family)
  BY <1>4, <1>7, Zenon DEF Slices, Obj
<1>9. i \in fixed
  <2>1. reorderable \subseteq ReorderableObjects(fn)
    BY <1>1, Zenon DEF KInv, DInv, PlacedInOrder
  <2> QED BY <1>4, <1>6, <2>1, FixedFamiliesAreFixed, Zenon DEF ObjectIsPlaced
<1> QED BY <1>2, <1>3, <1>4, <1>5, <1>6, <1>7, <1>8, <1>9, Zenon

\* append_slot_for_object: a slice that is packed begins where its predecessor ends.
LEMMA AppendingKeepsKInv ==
  ASSUME KInv, DInv', NEW i, NEW slot, ObjectIsPlaced(i, slot), append_slot(i),
         slot = NewSlot(i, align_to(next_offset, Obj(i).align), Obj(i).size, Obj(i).align),
         \A family \in Families : IsKept(fn, family) => i \notin Slices(fn, family)
  PROVE  KInv'
<1>1. /\ slot.offset = align_to(next_offset, Obj(i).align) /\ slot.size = Obj(i).size
      /\ slot.align = Obj(i).align
  BY Zenon DEF NewSlot
<1>2. /\ phase = "layout" /\ WellFormed /\ fn \in Function /\ next_offset \in Nat
      /\ slot \in Slot /\ TypeInv /\ IInv
  BY Zenon DEF ObjectIsPlaced, SlotIsPlaced, KInv, DInv, IInv, TypeInv
<1>3. slot.align \in Nat \ {0} /\ slot.offset \in Nat
  BY Zenon, <1>2 DEF Slot
<1>4. End(slot) = next_offset'
  BY Zenon, <1>1 DEF append_slot, End
<1>5. slot.offset % slot.align = 0
  BY <1>1, <1>2, <1>3, AlignToAligns
<1>6. \A s \in AllSlots : Siblings(s, slot) => AtTheirDistance(slot, s)
  <2> SUFFICES ASSUME NEW s \in AllSlots, Siblings(s, slot) PROVE AtTheirDistance(slot, s)
    BY Zenon
  <2> DEFINE family == Obj(i).family
             S == Slices(fn, family)
  <2>1. /\ family \in Families \ {NoFamily} /\ FamilyIsFixed(fn, family)
        /\ i \in S /\ i \in fixed /\ s \in SlotsOf(fn) /\ s.object \in S \ fixed
        /\ ObjectOf(s) = Obj(s.object) /\ ObjectOf(slot) = Obj(i)
    BY SiblingsArePlaced, Zenon
  <2>2. IsPacked(fn, family)
    BY <2>1, Zenon DEF IsKept, IsPacked
  <2> HIDE DEF family
  <2>3. PICK t \in SlotsOf(fn) :
          /\ t.object \in S \ fixed /\ \A k \in S \ fixed : FixedPrecedes(fn, k, t.object)
          /\ End(t) = next_offset /\ t.size = Obj(t.object).size
          /\ t.align = Obj(t.object).align /\ t.offset % t.align = 0
    BY <1>2, <2>1, <2>2, Zenon DEF KInv, RunsAreOpen, RunIsOpen
  <2> DEFINE j == t.object
  <2>4. IsNextSlice(fn, family, j, i)
    <3>1. j # i
      BY <2>1, <2>3, Zenon
    <3>2. S \subseteq FixedObjects(fn)
      BY <2>1, FixedFamiliesAreFixed, Zenon
    <3>3. FixedPrecedes(fn, j, i)
      BY <1>2, <2>1, <2>3, <3>2, Zenon DEF KInv, DInv, PlacedInOrder
    <3>4. \A k \in S \cap fixed : FixedPrecedes(fn, i, k)
      <4>1. IsNextFixed(i)
        BY <2>1, Zenon DEF ObjectIsPlaced
      <4> QED BY <4>1, Zenon DEF IsNextFixed
    <3> QED BY <2>3, <3>1, <3>3, <3>4, Zenon DEF IsNextSlice
  <2>5. /\ Obj(i).byte_offset = Obj(j).byte_offset + Obj(j).size
        /\ Obj(j).align % Obj(i).align = 0 /\ Obj(j).size % Obj(i).align = 0
    <3>1. ~preserve_slice_offsets(fn, family)
      BY Zenon, <2>2 DEF IsPacked
    <3> QED BY <1>2, <2>1, <2>3, <2>4, <3>1, Zenon DEF KInv, SlicesFit, Obj
  <2>6. t \in AllSlots /\ t \in Slot /\ t.function = fn
    BY <1>2, SlotsAreTyped, Zenon DEF SlotsOf, TypeInv, AllSlots
  <2>7. t.offset \in Nat /\ t.size \in Nat /\ t.align \in Nat \ {0}
    BY Zenon, <2>6 DEF Slot
  <2>8. slot.offset = t.offset + t.size
    <3>1. next_offset = t.offset + t.size
      BY Zenon, <2>3 DEF End
    <3> DEFINE o == t.offset
               n == t.size
               a == t.align
               b == slot.align
    <3>2. o \in Nat /\ n \in Nat /\ a \in Nat \ {0} /\ b \in Nat \ {0}
      BY Zenon, <1>3, <2>7
    <3>3. o % a = 0 /\ a % b = 0 /\ n % b = 0
      BY <1>1, <2>3, <2>5, Zenon
    <3> HIDE DEF o, n, a, b
    <3>4. align_to(o + n, b) = o + n
      BY Zenon, <3>2, <3>3, NoPaddingBetween
    <3> QED BY <1>1, <3>1, <3>4, Zenon DEF o, n, b
  <2>9. Siblings(t, s) /\ IsLayoutObject(t) /\ IsLayoutObject(s) /\ ObjectOf(t) = Obj(j)
    <3>1. IsLayoutObject(s) /\ s.function = fn
      BY <2>1, Zenon DEF Siblings, SlotsOf
    <3>2. j \in DOMAIN objects[fn] /\ Obj(j).family = family
      BY <2>3, Zenon DEF Slices, Placeable, Obj
    <3>3. IsLayoutObject(t) /\ ObjectOf(t) = Obj(j)
      BY <2>6, <3>2, Zenon DEF IsLayoutObject, ObjectOf, Obj
    <3>4. Obj(s.object).family = family
      BY <2>1, Zenon DEF Slices, Obj
    <3> QED BY <2>1, <2>6, <3>1, <3>2, <3>3, <3>4, Zenon DEF Siblings
  <2>10. AtTheirDistance(t, s)
    BY <2>6, <2>9, Zenon DEF KInv, DistancesAreKept
  <2>11. /\ s.offset \in Int /\ ObjectOf(s).byte_offset \in Int
         /\ t.offset \in Int /\ Obj(j).byte_offset \in Int
    <3>1. s \in Slot
      BY <1>2, SlotsAreTyped, Zenon
    <3> QED BY <1>2, <2>6, <2>9, <3>1, SlotBytes, Zenon
  <2>12. slot.offset - t.offset = Obj(i).byte_offset - Obj(j).byte_offset
    <3> DEFINE a == t.offset
               b == Obj(j).byte_offset
               n == t.size
    <3>1. slot.offset = a + n /\ Obj(i).byte_offset = b + n
      BY <2>3, <2>5, <2>8, Zenon
    <3>2. a \in Int /\ b \in Int /\ n \in Nat
      BY <2>7, <2>11, Zenon
    <3> HIDE DEF a, b, n
    <3>3. slot.offset - a = Obj(i).byte_offset - b
      BY <3>1, <3>2, ShiftsAreEqual, Zenon
    <3> QED BY <3>3, Zenon DEF a, b
  <2>13. slot.offset \in Int /\ Obj(i).byte_offset \in Int
    BY <1>3, <2>3, <2>5, <2>7, <2>11
  <2>14. t.offset - s.offset = Obj(j).byte_offset - ObjectOf(s).byte_offset
    BY <2>9, <2>10, Zenon DEF AtTheirDistance
  <2>15. slot.offset - s.offset = Obj(i).byte_offset - ObjectOf(s).byte_offset
    BY <2>11, <2>12, <2>13, <2>14, DistancesAdd
  <2> QED BY <2>1, <2>15, Zenon DEF AtTheirDistance
<1> QED BY <1>1, <1>4, <1>5, <1>6, PlacingKeepsKInv, Zenon

\* append_slice_offset_slot_for_object: the slices lie at their byte offsets from
\* the base.
LEMMA PlaceSliceKeepsKInv ==
  ASSUME KInv, NEW i \in fixed, PlaceSlice(i)
  PROVE  KInv'
<1> DEFINE family == Obj(i).family
           slot == NewSlot(i, FamilyBase(family) + Obj(i).slice_offset, Obj(i).size, Obj(i).align)
           S == Slices(fn, family)
<1>1. /\ DInv /\ IInv /\ TypeInv /\ WellFormed /\ phase = "layout" /\ PlacedInOrder
      /\ fn \in Function
  BY Zenon DEF KInv, DInv, IInv, TypeInv, PlaceSlice
<1>2. DInv'
  BY Zenon, <1>1, PlaceSliceKeepsDInv
<1>3. family \in Families /\ FamilyBase(family) \in Nat /\ SlotIsPlaced(slot)
  BY <1>1, AppendSlicePlaces, Zenon
<1>4. /\ slot.object = i /\ slot.size = Obj(i).size /\ slot.align = Obj(i).align
  BY Zenon DEF NewSlot
<1>5. i \in Placeable(fn) /\ i \in S /\ IsKept(fn, family)
  <2>1. i \in Placeable(fn)
    BY <1>1, PlaceableFacts, Zenon
  <2> QED BY Zenon, <2>1 DEF PlaceSlice, KeepsSlice, IsKept, Slices, Obj
<1>6. IsNextFixed(i) /\ fixed' = fixed \ {i} /\ reorderable' = reorderable
  BY Zenon DEF PlaceSlice
<1>7. i \notin reorderable
  BY Zenon, <1>1, TiersAreApart DEF PlacedInOrder
<1>8. base_offset'[family] \in Nat
  <2>1. base_offset' = [base_offset EXCEPT ![family] = FamilyBase(family)]
    BY Zenon DEF PlaceSlice, append_slice_offset_slot, FamilyBase
  <2>2. base_offset \in [Families -> Nat \cup {NoOffset}]
    BY Zenon, <1>1 DEF TypeInv
  <2> HIDE DEF family
  <2> QED BY Zenon, <1>3, <2>1, <2>2
<1> HIDE DEF slot
<1>9. ObjectIsPlaced(i, slot)
  BY <1>3, <1>4, <1>6, <1>7, Zenon DEF ObjectIsPlaced
<1>10. /\ fn' = fn /\ objects' = objects /\ phase' = "layout"
       /\ SlotsOf(fn)' = SlotsOf(fn) \cup {slot}
  BY <1>1, <1>9, PlacingFacts, Zenon
<1> HIDE DEF family
\* The families of the state that is reached: both slots are at their distance
\* from the base.
<1>11. \A s \in SlotsOf(fn) \cup {slot} : s.object \in S =>
         s.offset = base_offset'[family] + Obj(s.object).slice_offset
  <2>1. base_offset'[family] # NoOffset
    BY <1>8 DEF NoOffset
  <2>2. \A g : g = family => FamilyIsPlaced(g)'
    BY <1>2, <1>3, <1>10, Zenon DEF DInv, FamiliesArePlaced
  <2>3. \A g : Slices(fn, g)' = Slices(fn, g)
    BY <1>10, LayoutIsFixed, Zenon
  <2>4. \A g : g = family => \A s \in SlotsOf(fn)' : s.object \in Slices(fn, g)' =>
          s.offset = base_offset'[g] + objects'[fn'][s.object].slice_offset
    BY <2>1, <2>2, Zenon DEF FamilyIsPlaced
  <2> QED BY <1>10, <2>3, <2>4, Zenon DEF Obj
<1>12. \A s \in AllSlots : Siblings(s, slot) => AtTheirDistance(slot, s)
  <2> SUFFICES ASSUME NEW s \in AllSlots, Siblings(s, slot) PROVE AtTheirDistance(slot, s)
    BY Zenon
  <2> DEFINE j == s.object
             base == base_offset'[family]
  <2>1. /\ s \in SlotsOf(fn) /\ j \in S /\ family # NoFamily
        /\ ObjectOf(s) = Obj(j) /\ ObjectOf(slot) = Obj(i)
    BY <1>9, SiblingsArePlaced, Zenon DEF family
  <2>2. s.offset = base + Obj(j).slice_offset /\ slot.offset = base + Obj(i).slice_offset
    BY <1>4, <1>5, <1>11, <2>1, Zenon
  <2>3. \A k \in S : Obj(k).slice_offset = Obj(k).byte_offset
    BY Zenon, <1>1, <1>3, <1>5, <2>1 DEF KInv, SlicesFit, AreFields, IsKept, Obj
  <2>4. \A k \in S : Obj(k).slice_offset \in Nat
    BY Zenon, <1>1, ObjectsAreTyped DEF Slices, ObjectFacts, Obj
  <2> DEFINE a == Obj(j).slice_offset
             b == Obj(i).slice_offset
  <2>5. /\ base \in Nat /\ a \in Nat /\ b \in Nat /\ s.offset = base + a /\ slot.offset = base + b
        /\ ObjectOf(s).byte_offset = a /\ ObjectOf(slot).byte_offset = b
    BY <1>5, <1>8, <2>1, <2>2, <2>3, <2>4, Zenon
  <2> HIDE DEF a, b, base, j
  <2>6. (base + b) - (base + a) = b - a
    BY <2>5
  <2> QED BY <2>5, <2>6, Zenon DEF AtTheirDistance
<1>13. \A other \in Families : ~(IsPacked(fn, other) /\ i \in Slices(fn, other))
  <2>1. \A other : i \in Slices(fn, other) => other = family
    BY Zenon DEF Slices, family, Obj
  <2> QED BY <1>5, <2>1, Zenon DEF IsPacked, IsKept
<1> QED BY <1>2, <1>4, <1>9, <1>12, <1>13, PlacingKeepsKInv, Zenon

\* A step after the layout adds at most one slot, and not for a stack object.
LEMMA LaterStepKeepsKInv ==
  ASSUME KInv, DInv', objects' = objects, phase' # "layout", DistancesAreKept'
  PROVE  KInv'
BY DistancesAreFixed, Zenon DEF KInv, RunsAreOpen

\* A step of any pass keeps the slices of an object at their distances.
LEMMA NextKeepsKInv == KInv /\ [Next]_vars => KInv'
<1> SUFFICES ASSUME KInv, [Next]_vars PROVE KInv'
  BY Zenon
<1>1. /\ DInv /\ DInv' /\ IInv /\ TypeInv /\ WellFormed /\ fn \in Function /\ DistancesAreKept
  BY Zenon, NextKeepsDInv DEF KInv, DInv, IInv, TypeInv
<1>2. ASSUME NEW i \in fixed, PlaceSlice(i) PROVE KInv'
  BY <1>2, PlaceSliceKeepsKInv, Zenon
<1>3. ASSUME NEW i \in fixed, PlaceFixed(i) PROVE KInv'
  <2> DEFINE slot == NewSlot(i, align_to(next_offset, Obj(i).align), Obj(i).size, Obj(i).align)
  <2>1. SlotIsPlaced(slot)
    BY <1>1, <1>3, PlaceFixedPlaces, Zenon
  <2>2. slot.object = i
    BY Zenon DEF NewSlot
  <2>3. /\ append_slot(i) /\ IsNextFixed(i) /\ fixed' = fixed \ {i} /\ reorderable' = reorderable
        /\ phase = "layout"
    BY <1>3, Zenon DEF PlaceFixed
  <2>4. i \notin reorderable
    BY Zenon, <1>1, <2>3, TiersAreApart DEF DInv, PlacedInOrder
  <2>5. \A family \in Families : IsKept(fn, family) => i \notin Slices(fn, family)
    BY <1>3, Zenon DEF PlaceFixed, KeepsSlice, IsKept, Slices, Obj
  <2>6. ObjectIsPlaced(i, slot)
    <3> HIDE DEF slot
    <3> QED BY <2>1, <2>2, <2>3, <2>4, Zenon DEF ObjectIsPlaced
  <2> QED BY <1>1, <2>3, <2>5, <2>6, AppendingKeepsKInv, Zenon
<1>4. CASE PlaceReorderable
  <2> DEFINE i == Selected
  <2> DEFINE slot == NewSlot(i, align_to(next_offset, Obj(i).align), Obj(i).size, Obj(i).align)
  <2>1. i \in reorderable /\ SlotIsPlaced(slot)
    BY <1>1, <1>4, PlaceReorderablePlaces, Zenon
  <2>2. slot.object = i
    BY Zenon DEF NewSlot
  <2>3. /\ append_slot(i) /\ fixed = {} /\ fixed' = fixed /\ reorderable' = reorderable \ {i}
        /\ phase = "layout"
    BY <1>4, Zenon DEF PlaceReorderable
  <2> HIDE DEF i
  <2>4. \A family \in Families : IsKept(fn, family) => i \notin Slices(fn, family)
    BY Zenon, <1>1, <2>1, <2>3, TiersAreApart DEF DInv, PlacedInOrder
  <2>5. ObjectIsPlaced(i, slot)
    <3> HIDE DEF slot
    <3> QED BY Zenon, <2>1, <2>2, <2>3 DEF ObjectIsPlaced
  <2> QED BY <1>1, <2>3, <2>4, <2>5, AppendingKeepsKInv, Zenon
<1>5. CASE EndLayout
  <2>1. objects' = objects /\ frame_slots' = frame_slots /\ assigned = << >>
    BY Zenon, <1>1, <1>5 DEF EndLayout, program, IInv, IdsAreFresh
  <2>2. CASE fn' = fn + 1 /\ UNCHANGED <<phase, next_slot_id, assigned>> /\ StartLayout(fn + 1)
    <3>1. AllSlots' \subseteq AllSlots
      BY Zenon, <2>1, <2>2 DEF AllSlots
    <3>2. \A f : FixedObjects(f)' = FixedObjects(f)
      BY <2>1, ProgramIsFixed, Zenon
    <3>3. ASSUME NEW g, g = fn + 1 PROVE fixed' = FixedObjects(g)'
      BY <2>2, <3>2, <3>3, Zenon DEF StartLayout
    <3>4. fixed' = FixedObjects(fn)'
      BY <2>2, <3>3, Zenon
    <3>5. RunsAreOpen'
      <4> SUFFICES ASSUME NEW family \in Families, IsPacked(fn, family)'
                   PROVE  (Slices(fn, family) \ fixed)' = {}
        BY Zenon DEF RunsAreOpen, RunIsOpen
      <4>1. Slices(fn, family)' \subseteq FixedObjects(fn)'
        BY Zenon DEF IsPacked, Slices, FixedObjects, fixed_location
      <4> QED BY Zenon, <3>4, <4>1
    <3> QED BY <1>1, <2>1, <3>1, <3>5, DistancesStay, DistancesAreFixed, Zenon DEF KInv
  <2>3. CASE phase' = "regalloc" /\ StartRegalloc(1)
    <3>1. AllSlots' \subseteq AllSlots
      BY Zenon, <2>1, <2>3 DEF AllSlots, StartRegalloc
    <3>2. phase' # "layout"
      BY Zenon, <2>3
    <3> QED BY <1>1, <2>1, <3>1, <3>2, DistancesStay, LaterStepKeepsKInv, Zenon
  <2> QED BY <1>5, <2>2, <2>3, Zenon DEF EndLayout
<1>6. CASE AllocateSlot
  <2>1. AllSlots' = AllSlots \cup {HandedOut} /\ HandedOut.function = fn
    BY <1>1, <1>6, AllocateSlotHandsOut, Zenon
  <2>2. objects' = objects /\ phase' # "layout"
    BY Zenon, <1>6 DEF AllocateSlot, program
  <2>3. HandedOut.object = Len(objects[fn]) + Len(assigned) + 1
    BY Zenon DEF HandedOut, NewSlot
  <2>4. ~IsLayoutObject(HandedOut)
    <3> DEFINE n == Len(objects[fn])
               m == Len(assigned)
    <3>1. n \in Nat /\ DOMAIN objects[fn] = 1 .. n
      BY <1>1, ObjectsAreTyped, Zenon
    <3>2. m \in Nat
      <4>1. assigned \in Seq(Slot)
        BY <1>1, Zenon DEF TypeInv
      <4> QED BY ONLY <4>1
    <3> HIDE DEF n, m
    <3>3. n + m + 1 \notin 1 .. n
      BY <3>1, <3>2
    <3> QED BY <2>1, <2>3, <3>1, <3>3, Zenon DEF IsLayoutObject, n, m
  <2>5. DistancesAreKept'
    BY <1>1, <2>1, <2>2, <2>4, OtherSlotKeepsDistances, Zenon
  <2> QED BY <1>1, <2>2, <2>5, LaterStepKeepsKInv, Zenon
<1>7. CASE AppendStorage
  <2>1. AllSlots' = AllSlots \cup {StorageSlot} /\ StorageSlot.function = fn
    BY <1>1, <1>7, AppendStoragePlaces, AppendStorageKeepsIInv, Zenon
  <2>2. objects' = objects /\ phase' # "layout"
    BY Zenon, <1>7 DEF AppendStorage, program
  <2>3. StorageSlot.object = Len(objects[fn]) + Len(values[fn]) + pending + 1
    BY Zenon DEF StorageSlot
  <2>4. ~IsLayoutObject(StorageSlot)
    <3> DEFINE n == Len(objects[fn])
               m == Len(values[fn])
               V == [size : Nat, align : Nat \ {0}, object : Nat]
    <3>1. n \in Nat /\ DOMAIN objects[fn] = 1 .. n
      BY <1>1, ObjectsAreTyped, Zenon
    <3>2. values[fn] \in Seq(V)
      BY <1>1, Zenon DEF WellFormed
    <3> HIDE DEF V
    <3>3. m \in Nat /\ pending \in Nat
      <4>1. pending \in Nat
        BY <1>1, Zenon DEF TypeInv
      <4>2. m \in Nat
        BY ONLY <3>2
      <4> QED BY <4>1, <4>2, Zenon
    <3> HIDE DEF n, m
    <3>4. n + m + pending + 1 \notin 1 .. n
      BY <3>1, <3>3
    <3> QED BY <2>1, <2>3, <3>1, <3>4, Zenon DEF IsLayoutObject, n, m
  <2>5. DistancesAreKept'
    BY <1>1, <2>1, <2>2, <2>4, OtherSlotKeepsDistances, Zenon
  <2> QED BY <1>1, <2>2, <2>5, LaterStepKeepsKInv, Zenon
<1>8. CASE ReuseSlot
  <2>1. objects' = objects /\ phase' # "layout"
    BY Zenon, <1>8 DEF ReuseSlot, program
  <2>2. AllSlots' \subseteq AllSlots
    BY <1>1, <1>8, ReuseSlotKeepsIInv, Zenon
  <2> QED BY <1>1, <2>1, <2>2, DistancesStay, LaterStepKeepsKInv, Zenon
<1>9. CASE PublishSlots
  <2>1. objects' = objects /\ phase' # "layout"
    BY Zenon, <1>9 DEF PublishSlots, program
  <2>2. AllSlots' \subseteq AllSlots
    BY <1>1, <1>9, PublishSlotsKeepsIInv, Zenon
  <2> QED BY <1>1, <2>1, <2>2, DistancesStay, LaterStepKeepsKInv, Zenon
<1>10. CASE NextRegalloc \/ PlanFrames \/ EndStorage \/ ReplanFrames
  <2>1. /\ objects' = objects /\ phase' # "layout" /\ frame_slots' = frame_slots
        /\ assigned' = << >> \/ assigned' = assigned
    BY Zenon, <1>10 DEF NextRegalloc, StartRegalloc, PlanFrames, EndStorage, ReplanFrames, program
  <2>2. AllSlots' \subseteq AllSlots
    BY <2>1 DEF AllSlots
  <2> QED BY <1>1, <2>1, <2>2, DistancesStay, LaterStepKeepsKInv, Zenon
<1>11. CASE UNCHANGED vars
  <2>1. UNCHANGED <<objects, fixed, phase, fn, frame_slots, assigned, next_offset>>
    BY Zenon, <1>11 DEF vars, program, layout
  <2>2. AllSlots' \subseteq AllSlots /\ SlotsOf(fn)' = SlotsOf(fn)
    BY Zenon, <2>1 DEF AllSlots, SlotsOf
  <2>3. RunsAreOpen'
    <3>1. /\ \A family : Slices(fn, family)' = Slices(fn, family)
          /\ \A j, k : FixedPrecedes(fn, j, k)' <=> FixedPrecedes(fn, j, k)
      BY <2>1, LayoutIsFixed, Zenon
    <3>2. \A family : IsPacked(fn, family)' <=> IsPacked(fn, family)
      BY <2>1, DistancesAreFixed, Zenon
    <3>3. \A k : Obj(k)' = Obj(k)
      BY <2>1, Zenon DEF Obj
    <3>4. \A family : RunIsOpen(family) => RunIsOpen(family)'
      BY <2>1, <2>2, <3>1, <3>3, Zenon DEF RunIsOpen, End
    <3> QED BY <2>1, <3>2, <3>4, Zenon DEF KInv, RunsAreOpen
  <2> QED BY <1>1, <2>1, <2>2, <2>3, DistancesStay, DistancesAreFixed, Zenon DEF KInv
<1> QED BY <1>2, <1>3, <1>4, <1>5, <1>6, <1>7, <1>8, <1>9, <1>10, <1>11, Zenon DEF Next

\* The arithmetic of the elements of an array.
LEMMA NextElement ==
  ASSUME NEW n \in Nat, NEW k \in Nat
  PROVE  n * (k + 1) = n * k + n
OBVIOUS

\* A number divides itself.
LEMMA DividesItself ==
  ASSUME NEW a \in Nat \ {0}
  PROVE  a % a = 0
OBVIOUS

\* The successor of an ordinal lies strictly between it and a larger one.
LEMMA SuccessorIsBetween ==
  ASSUME NEW a \in Nat, NEW b \in Nat, a + 1 < b
  PROVE  ~(a + 1 <= a) /\ ~(b <= a + 1)
OBVIOUS

\* Of two objects one is placed before the other.
LEMMA FixedPrecedesIsTotal ==
  ASSUME NEW f, NEW i \in Nat, NEW j \in Nat
  PROVE  FixedPrecedes(f, i, j) \/ FixedPrecedes(f, j, i)
BY DEF FixedPrecedes

\* In a dense family the next slice has the next ordinal.
LEMMA NextSliceIsNextOrdinal ==
  ASSUME WellFormed, SlicesMirrorObjects, NEW f \in Function,
         NEW family \in Families \ {NoFamily}, FamilyIsFixed(f, family), IsDense(f, family),
         NEW i \in Slices(f, family), NEW j \in Slices(f, family), IsNextSlice(f, family, i, j)
  PROVE  objects[f][j].slice_offset = objects[f][i].slice_offset + 1
<1> DEFINE S == Slices(f, family)
           ord(k) == objects[f][k].slice_offset
           m == Cardinality(S) - 1
<1>1. \A k \in S : ord(k) \in Nat
  BY ObjectsAreTyped DEF Slices, ObjectFacts
<1>2. \A k, l \in S : k # l /\ FixedPrecedes(f, k, l) => ord(k) < ord(l)
  BY Zenon DEF SlicesMirrorObjects
<1>3. \A k \in S : FixedPrecedes(f, k, i) \/ FixedPrecedes(f, j, k)
  BY Zenon DEF IsNextSlice
<1>4. {ord(k) : k \in S} = 0 .. m /\ m \in Int
  <2>1. {ord(k) : k \in S} = 0 .. m
    BY Zenon DEF IsDense
  <2>2. S \subseteq 1 .. Len(objects[f]) /\ Len(objects[f]) \in Nat
    BY Zenon, ObjectsAreTyped DEF Slices
  <2>3. IsFiniteSet(S)
    <3> HIDE DEF S
    <3>1. IsFiniteSet(1 .. Len(objects[f]))
      BY <2>2, FS_Interval
    <3> QED BY Zenon, <2>2, <3>1, FS_Subset
  <2>4. Cardinality(S) \in Nat
    BY Zenon, <2>3, FS_CardinalityType
  <2> QED BY <2>1, <2>4
<1>5. i # j /\ FixedPrecedes(f, i, j)
  BY Zenon DEF IsNextSlice
<1> HIDE DEF S, ord, m
<1>6. i \in S /\ j \in S
  BY Zenon DEF S
<1>7. ord(i) < ord(j) /\ ord(i) \in Nat /\ ord(j) \in Nat
  BY Zenon, <1>1, <1>2, <1>5, <1>6
<1>8. SUFFICES ASSUME ord(i) + 1 < ord(j) PROVE FALSE
  BY <1>7 DEF ord
<1>9. ord(j) \in 0 .. m
  BY Zenon, <1>4, <1>6
<1>10. ord(i) + 1 \in 0 .. m
  BY <1>4, <1>7, <1>8, <1>9
<1>11. PICK k \in S : ord(k) = ord(i) + 1
  BY Zenon, <1>4, <1>10
<1>12. ord(k) <= ord(i) \/ ord(j) <= ord(k)
  <2>1. FixedPrecedes(f, k, i) => k = i \/ ord(k) < ord(i)
    BY Zenon, <1>2, <1>6
  <2>2. FixedPrecedes(f, j, k) => j = k \/ ord(j) < ord(k)
    BY Zenon, <1>2, <1>6
  <2>3. ord(k) \in Nat
    BY Zenon, <1>1
  <2>4. ord(k) < ord(i) \/ ord(k) = ord(i) \/ ord(j) = ord(k) \/ ord(j) < ord(k)
    BY Zenon, <1>3, <2>1, <2>2
  <2> QED BY <1>7, <2>3, <2>4
<1> QED BY <1>7, <1>8, <1>11, <1>12, SuccessorIsBetween, Zenon

\* The choice of preserve_slice_offsets is right for what the lowering declares:
\* ordinals that are not dense, or an alignment beyond a size, show that slices
\* carry byte offsets.
LEMMA ChoiceIsRight ==
  ASSUME WellFormed, SlicesMirrorObjects, NEW f \in Function,
         NEW family \in Families \ {NoFamily}, FamilyIsFixed(f, family),
         preserve_slice_offsets(f, family)
  PROVE  AreFields(f, family)
<1> SUFFICES ASSUME AreElements(f, family) PROVE FALSE
  BY Zenon DEF SlicesMirrorObjects
<1>1. PICK k \in Slices(f, family) : objects[f][k].align > objects[f][k].size
  BY Zenon DEF AreElements, preserve_slice_offsets, AlignmentWouldPad
<1>2. objects[f][k].size \in Nat /\ objects[f][k].align \in Nat
  BY ObjectsAreTyped DEF Slices, ObjectFacts
<1>3. objects[f][k].align <= objects[f][k].size
  BY Zenon DEF AreElements
<1> DEFINE a == objects[f][k].align
           n == objects[f][k].size
<1>4. a > n /\ a <= n /\ a \in Nat /\ n \in Nat
  BY Zenon, <1>1, <1>2, <1>3
<1> HIDE DEF a, n
<1> QED BY <1>4

\* Where offsets are not kept the slices lie one behind the other.
LEMMA PackedSlicesFit ==
  ASSUME WellFormed, SlicesMirrorObjects, NEW f \in Function,
         NEW family \in Families \ {NoFamily}, FamilyIsFixed(f, family),
         ~preserve_slice_offsets(f, family),
         NEW i \in Slices(f, family), NEW j \in Slices(f, family), IsNextSlice(f, family, i, j)
  PROVE  /\ objects[f][j].byte_offset = objects[f][i].byte_offset + objects[f][i].size
         /\ objects[f][i].align % objects[f][j].align = 0
         /\ objects[f][i].size % objects[f][j].align = 0
<1> DEFINE o == objects[f][i].slice_offset
           p == objects[f][j].slice_offset
           b == objects[f][i].byte_offset
           c == objects[f][j].byte_offset
           n == objects[f][i].size
           a == objects[f][i].align
<1>1. IsDense(f, family) /\ ~(a > n)
  BY Zenon DEF preserve_slice_offsets, AlignmentWouldPad
<1>2. p = o + 1
  BY Zenon, <1>1, NextSliceIsNextOrdinal
<1>3. /\ o \in Nat /\ p \in Nat /\ b \in Nat /\ c \in Nat /\ n \in Nat /\ a \in Nat \ {0}
  BY ObjectsAreTyped, BytesAreTyped DEF Slices, ObjectFacts
<1>4. a = objects[f][j].align /\ b + n <= c /\ (a <= n => n % a = 0)
  BY Zenon, <1>1 DEF SlicesMirrorObjects, IsNextSlice
<1>5. AreElements(f, family) \/ AreFields(f, family)
  BY Zenon DEF SlicesMirrorObjects
<1>6. ASSUME AreElements(f, family) PROVE c = b + n
  <2>1. b = n * o /\ c = n * p
    BY Zenon, <1>6 DEF AreElements
  <2> HIDE DEF o, p, b, c, n
  <2>2. n * (o + 1) = n * o + n
    BY Zenon, <1>3, NextElement
  <2> QED BY Zenon, <1>2, <2>1, <2>2
<1>7. ASSUME AreFields(f, family) PROVE c = b + n
  <2>1. b = o /\ c = p
    BY Zenon, <1>7 DEF AreFields
  <2> HIDE DEF o, p, b, c, n, a
  <2> QED BY <1>1, <1>2, <1>3, <1>4, <2>1
<1>8. a % a = 0 /\ n % a = 0
  <2> HIDE DEF n, a
  <2>1. a <= n
    BY <1>1, <1>3
  <2> QED BY Zenon, <1>3, <1>4, <2>1, DividesItself
<1> QED BY Zenon, <1>4, <1>5, <1>6, <1>7, <1>8

\* What the lowering declares is what the other results about placement assume.
LEMMA MirroringSuffices ==
  ASSUME WellFormed, SlicesMirrorObjects
  PROVE  SlicesLieTogether /\ AlignmentsNest /\ SlicesFit
<1>1. SlicesFit
  BY Zenon, ChoiceIsRight, PackedSlicesFit DEF SlicesFit, SlicesMirrorObjects
<1>2. ASSUME NEW f \in Function, NEW family \in Families, IsKept(f, family),
             NEW i \in Slices(f, family), NEW j \in Slices(f, family)
      PROVE  /\ objects[f][i].align <= objects[f][j].align =>
                  objects[f][j].align % objects[f][i].align = 0
             /\ DeclaredTogether(f, family)
             /\ i # j => \/ objects[f][i].slice_offset + objects[f][i].size
                              <= objects[f][j].slice_offset
                         \/ objects[f][j].slice_offset + objects[f][j].size
                              <= objects[f][i].slice_offset
  <2>1. /\ family \in Families \ {NoFamily} /\ FamilyIsFixed(f, family)
        /\ preserve_slice_offsets(f, family)
    BY Zenon, <1>2 DEF IsKept
  <2>2. AreFields(f, family)
    BY Zenon, <2>1, ChoiceIsRight
  <2>3. i \in Nat /\ j \in Nat
    BY ObjectsAreTyped DEF Slices, ObjectFacts
  <2>4. FixedPrecedes(f, i, j) \/ FixedPrecedes(f, j, i)
    BY Zenon, <2>3, FixedPrecedesIsTotal
  <2>5. /\ objects[f][i].align <= objects[f][j].align =>
             objects[f][j].align % objects[f][i].align = 0
        /\ DeclaredTogether(f, family)
        /\ i # j /\ FixedPrecedes(f, i, j) =>
             objects[f][i].byte_offset + objects[f][i].size <= objects[f][j].byte_offset
        /\ i # j /\ FixedPrecedes(f, j, i) =>
             objects[f][j].byte_offset + objects[f][j].size <= objects[f][i].byte_offset
    BY Zenon, <2>1 DEF SlicesMirrorObjects
  <2>6. /\ objects[f][i].slice_offset = objects[f][i].byte_offset
        /\ objects[f][j].slice_offset = objects[f][j].byte_offset
    BY Zenon, <2>2 DEF AreFields
  <2> QED BY Zenon, <2>3, <2>4, <2>5, <2>6
<1>3. \A f \in Function : \A family \in Families : IsKept(f, family) => DeclaredTogether(f, family)
  BY Zenon DEF SlicesMirrorObjects, IsKept
<1>4. SlicesLieTogether
  BY Zenon, <1>2, <1>3 DEF SlicesLieTogether
<1>5. AlignmentsNest
  BY Zenon, <1>2 DEF AlignmentsNest
<1> QED BY Zenon, <1>1, <1>4, <1>5

\* The slices of an object in memory keep their distances in the frame, whether
\* append_slice_offset_slot_for_object puts them at offsets from a common base or
\* append_slot_for_object puts one behind the other, for the slices the lowering
\* declares for arrays and structures, with the alignment of the variable or of each
\* field.  Over-aligned arrays, and fields of different alignments without a gap
\* between their ordinals, are what this excludes.
THEOREM SlicesStayAtTheirDistance ==
  Spec /\ SlicesMirrorObjects => []SlicesKeepTheirDistance
<1>1. WellFormed /\ Start /\ SlicesMirrorObjects => KInv
  <2> SUFFICES ASSUME WellFormed, Start, SlicesMirrorObjects PROVE KInv
    BY Zenon
  <2>1. SlicesLieTogether /\ SlicesFit
    BY Zenon, MirroringSuffices
  <2>2. DInv /\ AllSlots = {} /\ fn = 1 /\ fixed = FixedObjects(fn)
    BY <2>1, InitDInv DEF Start, AllSlots
  <2>3. \A family \in Families : IsPacked(fn, family) => Slices(fn, family) \ fixed = {}
    BY <2>2, FixedFamiliesAreFixed, Zenon DEF IsPacked
  <2>4. RunsAreOpen
    BY <2>3, Zenon DEF RunsAreOpen, RunIsOpen
  <2>5. DistancesAreKept
    BY <2>2, Zenon DEF DistancesAreKept
  <2> QED BY <2>1, <2>2, <2>4, <2>5, Zenon DEF KInv
<1>2. KInv => SlicesKeepTheirDistance
  BY Zenon DEF KInv, DistancesAreKept, AllSlots, SlicesKeepTheirDistance, Siblings, AtTheirDistance
<1> QED BY <1>1, <1>2, NextKeepsKInv, PTL DEF Spec
=============================================================================
