----------------------------- MODULE FrameSlots -----------------------------
(***************************************************************************)
(* The stack frame of every function of a module, from the first home slot *)
(* to the last saved register: assign_frame_slots places the stack objects *)
(* (run_stack_layout), run_regalloc gives slots to the values without a    *)
(* register, populate_frame_plan puts the callee-saved registers behind    *)
(* them, populate_variadic_entry_plans appends its storage, and            *)
(* populate_frame_plan runs once more.                                     *)
(*                                                                         *)
(* Sizes and alignments are those after normalize_size and                 *)
(* normalize_alignment.  A stack object is its position in the function's  *)
(* object list; an object the register allocator publishes comes after     *)
(* them.  byte_offset is where a slice lies in the source object.          *)
(***************************************************************************)
EXTENDS Integers, Sequences, FiniteSets

CONSTANTS NumFunctions, Families

ASSUME NumFunctionsAssumption == NumFunctions \in Nat \ {0}

Function == 1 .. NumFunctions
NoFamily == 0
NoOffset == -1
NoObject == 0

VARIABLES
  objects,           \* function -> its stack objects: size, align, family,
                     \* slice_offset, byte_offset, kind (param, local or copy),
                     \* requires_home, permanent
  values,            \* function -> the values that get a stack slot
  saved,             \* function -> the callee-saved registers to save
  storage,           \* function -> the variadic storage it asks for
  phase, fn,
  fixed, reorderable,              \* object positions still to be placed
  base_offset,                     \* family -> its base, once chosen
  next_offset, max_align, next_slot_id,
  frame_slots,                     \* the slots of the whole module: slot_id,
                                   \* function, object, offset, size, align
  addressing,                      \* function -> its frame before regalloc
  assigned,                        \* assigned_stack_slot of fn's values so far
  pending,                         \* variadic storage of fn appended so far
  frame_size,
  plan                             \* function -> frame size and save slots

program == <<objects, values, saved, storage>>
layout == <<fixed, reorderable, base_offset>>
vars == <<program, layout, phase, fn, next_offset, max_align, next_slot_id,
          frame_slots, addressing, assigned, pending, frame_size, plan>>

larger(m, n) == IF m > n THEN m ELSE n
largest(S) == CHOOSE m \in S : \A n \in S : n <= m

align_to(value, alignment) ==
  IF value % alignment = 0 THEN value ELSE value + (alignment - (value % alignment))

End(slot) == slot.offset + slot.size
SlotsOf(f) == {s \in frame_slots : s.function = f}

\* function_frame_extent and function_frame_end_offset.
function_frame_extent(f) == largest({End(s) : s \in SlotsOf(f)} \cup {0})
function_frame_alignment(f) == largest({s.align : s \in SlotsOf(f)} \cup {1})
next_frame_slot_id == largest({s.slot_id + 1 : s \in frame_slots} \cup {0})

-----------------------------------------------------------------------------
(***************************************************************************)
(* assign_frame_slots                                                      *)
(***************************************************************************)

Obj(i) == objects[fn][i]
Placeable(f) == {i \in DOMAIN objects[f] : objects[f][i].kind # "copy"}
Slices(f, family) == {i \in Placeable(f) : objects[f][i].family = family}

FamilyIsFixed(f, family) ==
  \E i \in Slices(f, family) : objects[f][i].requires_home /\ objects[f][i].permanent

\* build_slice_family_layout_map: the ordinals are 0, 1, 2, ... without a gap.
IsDense(f, family) ==
  {objects[f][i].slice_offset : i \in Slices(f, family)} =
    0 .. Cardinality(Slices(f, family)) - 1

AlignmentWouldPad(f, family) ==
  \E i \in Slices(f, family) : objects[f][i].align > objects[f][i].size

preserve_slice_offsets_Dense(f, family) == ~IsDense(f, family)
preserve_slice_offsets(f, family) == ~IsDense(f, family) \/ AlignmentWouldPad(f, family)

FamilyAlignment(f, family) == largest({objects[f][i].align : i \in Slices(f, family)} \cup {1})

fixed_location(f, i) ==
  \/ objects[f][i].permanent
  \/ objects[f][i].family # NoFamily /\ FamilyIsFixed(f, objects[f][i].family)

FixedObjects(f) == {i \in Placeable(f) : fixed_location(f, i)}
ReorderableObjects(f) ==
  {i \in Placeable(f) : ~fixed_location(f, i) /\ objects[f][i].requires_home}

\* The start of assign_frame_slots for function f.
StartLayout(f) ==
  /\ fixed' = FixedObjects(f) /\ reorderable' = ReorderableObjects(f)
  /\ base_offset' = [family \in Families |-> NoOffset]
  /\ next_offset' = 0 /\ max_align' = 1

\* Parameter homes before the other fixed objects, each in object order.
FixedPrecedes(f, i, j) ==
  LET rank(k) == IF objects[f][k].kind = "param" THEN 0 ELSE 1
  IN  rank(i) < rank(j) \/ (rank(i) = rank(j) /\ i <= j)
IsNextFixed(i) == i \in fixed /\ \A j \in fixed : FixedPrecedes(fn, i, j)

NewSlot(object, offset, size, align) ==
  [slot_id |-> next_slot_id, function |-> fn, object |-> object, offset |-> offset,
   size |-> size, align |-> align]

KeepsSlice(i) == Obj(i).family # NoFamily /\ FamilyIsFixed(fn, Obj(i).family)
                   /\ preserve_slice_offsets(fn, Obj(i).family)

append_slot_Unaligned(i) ==
  /\ frame_slots' = frame_slots \cup {NewSlot(i, next_offset, Obj(i).size, Obj(i).align)}
  /\ next_offset' = next_offset + Obj(i).size
  /\ max_align' = larger(max_align, Obj(i).align)
  /\ next_slot_id' = next_slot_id + 1

\* append_slot_for_object.
append_slot(i) ==
  LET offset == align_to(next_offset, Obj(i).align) IN
  /\ frame_slots' = frame_slots \cup {NewSlot(i, offset, Obj(i).size, Obj(i).align)}
  /\ next_offset' = offset + Obj(i).size
  /\ max_align' = larger(max_align, Obj(i).align)
  /\ next_slot_id' = next_slot_id + 1

append_slice_offset_slot_Assigns(i) ==
  LET family == Obj(i).family
      alignment == FamilyAlignment(fn, family)
      base == IF base_offset[family] = NoOffset THEN align_to(next_offset, alignment)
                                                ELSE base_offset[family]
      offset == base + Obj(i).slice_offset
  IN  /\ base_offset' = [base_offset EXCEPT ![family] = base]
      /\ frame_slots' = frame_slots \cup {NewSlot(i, offset, Obj(i).size, Obj(i).align)}
      /\ next_offset' = base + Obj(i).size
      /\ max_align' = larger(max_align, alignment)
      /\ next_slot_id' = next_slot_id + 1

\* append_slice_offset_slot_for_object.
append_slice_offset_slot(i) ==
  LET family == Obj(i).family
      alignment == FamilyAlignment(fn, family)
      base == IF base_offset[family] = NoOffset THEN align_to(next_offset, alignment)
                                                ELSE base_offset[family]
      offset == base + Obj(i).slice_offset
  IN  /\ base_offset' = [base_offset EXCEPT ![family] = base]
      /\ frame_slots' = frame_slots \cup {NewSlot(i, offset, Obj(i).size, Obj(i).align)}
      /\ next_offset' = larger(next_offset, offset + Obj(i).size)
      /\ max_align' = larger(max_align, alignment)
      /\ next_slot_id' = next_slot_id + 1

PlaceSlice(i) ==
  /\ phase = "layout"
  /\ IsNextFixed(i)
  /\ KeepsSlice(i)
  /\ append_slice_offset_slot(i)
  /\ fixed' = fixed \ {i}
  /\ UNCHANGED <<program, reorderable, phase, fn, addressing, assigned, pending,
                 frame_size, plan>>

PlaceFixed(i) ==
  /\ phase = "layout"
  /\ IsNextFixed(i)
  /\ ~KeepsSlice(i)
  /\ append_slot(i)
  /\ fixed' = fixed \ {i}
  /\ UNCHANGED <<program, reorderable, base_offset, phase, fn, addressing, assigned,
                 pending, frame_size, plan>>

\* sort_reorderable_objects: larger alignment, then larger size, first.
SortsBefore(i, j) ==
  \/ Obj(i).align > Obj(j).align
  \/ Obj(i).align = Obj(j).align /\ Obj(i).size > Obj(j).size
  \/ Obj(i).align = Obj(j).align /\ Obj(i).size = Obj(j).size /\ i <= j
Front == CHOOSE i \in reorderable : \A j \in reorderable : SortsBefore(i, j)

aligned_end_offset(i) == align_to(next_offset, Obj(i).align) + Obj(i).size

\* select_gap_filler: the objects that fit into the padding in front of the
\* first object, and the one of them that fills most of it.
GapFillers ==
  {i \in reorderable \ {Front} :
     aligned_end_offset(i) <= align_to(next_offset, Obj(Front).align)}
select_gap_filler ==
  CHOOSE i \in GapFillers : \A j \in GapFillers :
    \/ aligned_end_offset(i) > aligned_end_offset(j)
    \/ aligned_end_offset(i) = aligned_end_offset(j) /\ i <= j
Selected ==
  IF align_to(next_offset, Obj(Front).align) # next_offset /\ GapFillers # {}
  THEN select_gap_filler ELSE Front

PlaceReorderable ==
  /\ phase = "layout"
  /\ fixed = {} /\ reorderable # {}
  /\ append_slot(Selected)
  /\ reorderable' = reorderable \ {Selected}
  /\ UNCHANGED <<program, fixed, base_offset, phase, fn, addressing, assigned, pending,
                 frame_size, plan>>

StartRegalloc_OwnIds(f) ==
  /\ next_slot_id' = Cardinality(SlotsOf(f))
  /\ next_offset' = function_frame_extent(f)
  /\ max_align' = function_frame_alignment(f)
  /\ assigned' = << >>

\* The start of run_regalloc's stack slots for function f.
StartRegalloc(f) ==
  /\ next_slot_id' = next_frame_slot_id
  /\ next_offset' = function_frame_extent(f)
  /\ max_align' = function_frame_alignment(f)
  /\ assigned' = << >>

\* The frame of fn is laid out; run_stack_layout goes to the next function,
\* and after the last one run_regalloc begins with the first.
EndLayout ==
  LET size == align_to(next_offset, max_align) IN
  /\ phase = "layout"
  /\ fixed = {} /\ reorderable = {}
  /\ addressing' = [addressing EXCEPT ![fn] = size]
  /\ frame_size' = larger(frame_size, size)
  /\ \/ /\ fn < NumFunctions
        /\ fn' = fn + 1
        /\ StartLayout(fn + 1)
        /\ UNCHANGED <<phase, next_slot_id, assigned>>
     \/ /\ fn = NumFunctions
        /\ phase' = "regalloc" /\ fn' = 1
        /\ StartRegalloc(1)
        /\ UNCHANGED layout
  /\ UNCHANGED <<program, frame_slots, pending, plan>>

-----------------------------------------------------------------------------
(***************************************************************************)
(* The stack slots of run_regalloc                                         *)
(***************************************************************************)

NextValue == values[fn][Len(assigned) + 1]

\* existing_stack_slot_assignment: the slot of the value's stack object.
ExistingSlots(v) == {s \in frame_slots : s.function = fn /\ s.object = v.object}

\* allocate_stack_slot for a value whose stack object has a slot.
ReuseSlot ==
  /\ phase = "regalloc" /\ Len(assigned) < Len(values[fn])
  /\ \E s \in ExistingSlots(NextValue) : assigned' = Append(assigned, s)
  /\ UNCHANGED <<program, layout, phase, fn, next_offset, max_align, next_slot_id,
                 frame_slots, addressing, pending, frame_size, plan>>

\* allocate_stack_slot: a new slot at the end of the frame.
AllocateSlot ==
  LET v == NextValue
      offset == align_to(next_offset, v.align)
  IN  /\ phase = "regalloc" /\ Len(assigned) < Len(values[fn])
      /\ ExistingSlots(v) = {}
      /\ assigned' = Append(assigned, NewSlot(Len(objects[fn]) + Len(assigned) + 1,
                                              offset, v.size, v.align))
      /\ next_slot_id' = next_slot_id + 1
      /\ next_offset' = offset + v.size
      /\ max_align' = larger(max_align, v.align)
      /\ UNCHANGED <<program, layout, phase, fn, frame_slots, addressing, pending,
                     frame_size, plan>>

\* publish_regalloc_stack_slots: the slots whose id is not known yet.
Unpublished ==
  {s \in {assigned[k] : k \in DOMAIN assigned} :
     \A t \in frame_slots : t.slot_id # s.slot_id}

PublishSlots_KeepsFrame ==
  /\ phase = "regalloc" /\ Len(assigned) = Len(values[fn])
  /\ frame_slots' = frame_slots \cup Unpublished
  /\ phase' = "regalloc done"
  /\ UNCHANGED <<program, layout, fn, next_offset, max_align, next_slot_id, addressing,
                 assigned, pending, frame_size, plan>>

PublishSlots ==
  /\ phase = "regalloc" /\ Len(assigned) = Len(values[fn])
  /\ frame_slots' = frame_slots \cup Unpublished
  /\ frame_size' = larger(frame_size, align_to(next_offset, max_align))
  /\ phase' = "regalloc done"
  /\ UNCHANGED <<program, layout, fn, next_offset, max_align, next_slot_id, addressing,
                 assigned, pending, plan>>

NextRegalloc ==
  /\ phase = "regalloc done"
  /\ \/ /\ fn < NumFunctions
        /\ phase' = "regalloc" /\ fn' = fn + 1
        /\ StartRegalloc(fn + 1)
     \/ /\ fn = NumFunctions
        /\ phase' = "plan" /\ fn' = 1
        /\ UNCHANGED <<next_offset, max_align, next_slot_id, assigned>>
  /\ UNCHANGED <<program, layout, frame_slots, addressing, pending, frame_size, plan>>

-----------------------------------------------------------------------------
(***************************************************************************)
(* populate_frame_plan and the variadic storage                            *)
(***************************************************************************)

\* The frame without the saved registers.
PlannedSize(f) == larger(addressing[f], function_frame_extent(f))

\* The end of the k-th saved register; each is aligned to its unit.
SavedEnd(f, size) ==
  LET end[k \in 0 .. Len(saved[f])] ==
        IF k = 0 THEN size
        ELSE align_to(end[k - 1], saved[f][k].unit) + saved[f][k].unit * saved[f][k].width
  IN  end

SavedSlots(f) ==
  LET end == SavedEnd(f, PlannedSize(f)) IN
  {[offset |-> align_to(end[k - 1], saved[f][k].unit),
    size |-> saved[f][k].unit * saved[f][k].width, register |-> k] : k \in DOMAIN saved[f]}

PlanFrame(f) == plan' = [plan EXCEPT ![f] = [size |-> PlannedSize(f), saved |-> SavedSlots(f)]]

\* The first populate_frame_plan.
PlanFrames ==
  /\ phase = "plan"
  /\ PlanFrame(fn)
  /\ IF fn < NumFunctions THEN fn' = fn + 1 /\ phase' = phase
                          ELSE fn' = 1 /\ phase' = "variadic"
  /\ UNCHANGED <<program, layout, next_offset, max_align, next_slot_id, frame_slots,
                 addressing, assigned, pending, frame_size>>

AppendStorage_OwnIds ==
  LET want == storage[fn][pending + 1]
      offset == align_to(function_frame_extent(fn), want.align)
  IN  /\ phase = "variadic" /\ pending < Len(storage[fn])
      /\ frame_slots' = frame_slots \cup
           {[slot_id |-> Cardinality(SlotsOf(fn)), function |-> fn,
             object |-> Len(objects[fn]) + Len(values[fn]) + pending + 1,
             offset |-> offset, size |-> want.size, align |-> want.align]}
      /\ frame_size' = larger(frame_size, offset + want.size)
      /\ pending' = pending + 1
      /\ UNCHANGED <<program, layout, phase, fn, next_offset, max_align, next_slot_id,
                     addressing, assigned, plan>>

\* append_variadic_storage_slot, for the next storage fn asks for.
AppendStorage ==
  LET want == storage[fn][pending + 1]
      offset == align_to(function_frame_extent(fn), want.align)
  IN  /\ phase = "variadic" /\ pending < Len(storage[fn])
      /\ frame_slots' = frame_slots \cup
           {[slot_id |-> next_frame_slot_id, function |-> fn,
             object |-> Len(objects[fn]) + Len(values[fn]) + pending + 1,
             offset |-> offset, size |-> want.size, align |-> want.align]}
      /\ frame_size' = larger(frame_size, offset + want.size)
      /\ pending' = pending + 1
      /\ UNCHANGED <<program, layout, phase, fn, next_offset, max_align, next_slot_id,
                     addressing, assigned, plan>>

EndStorage_NoReplan ==
  /\ phase = "variadic" /\ pending = Len(storage[fn])
  /\ pending' = 0
  /\ IF fn < NumFunctions THEN fn' = fn + 1 /\ phase' = phase
                          ELSE fn' = 1 /\ phase' = "done"
  /\ UNCHANGED <<program, layout, next_offset, max_align, next_slot_id, frame_slots,
                 addressing, assigned, frame_size, plan>>

\* The next function, and after the last one the second populate_frame_plan.
EndStorage ==
  /\ phase = "variadic" /\ pending = Len(storage[fn])
  /\ pending' = 0
  /\ IF fn < NumFunctions THEN fn' = fn + 1 /\ phase' = phase
                          ELSE fn' = 1 /\ phase' = "replan"
  /\ UNCHANGED <<program, layout, next_offset, max_align, next_slot_id, frame_slots,
                 addressing, assigned, frame_size, plan>>

ReplanFrames ==
  /\ phase = "replan"
  /\ PlanFrame(fn)
  /\ IF fn < NumFunctions THEN fn' = fn + 1 /\ phase' = phase
                          ELSE fn' = fn /\ phase' = "done"
  /\ UNCHANGED <<program, layout, next_offset, max_align, next_slot_id, frame_slots,
                 addressing, assigned, pending, frame_size>>

-----------------------------------------------------------------------------
\* What the passes are given: sizes may be zero, alignments are positive.
WellFormed ==
  /\ objects \in [Function -> Seq([size : Nat, align : Nat \ {0},
                                   family : Families \cup {NoFamily},
                                   slice_offset : Nat, byte_offset : Nat,
                                   kind : {"param", "local", "copy"},
                                   requires_home : BOOLEAN, permanent : BOOLEAN])]
  /\ values \in [Function -> Seq([size : Nat, align : Nat \ {0}, object : Nat])]
  /\ saved \in [Function -> Seq([unit : Nat \ {0}, width : Nat \ {0}])]
  /\ storage \in [Function -> Seq([size : Nat, align : Nat \ {0}])]

\* A family whose slices are placed by their offsets.
IsKept(f, family) ==
  family # NoFamily /\ FamilyIsFixed(f, family) /\ preserve_slice_offsets(f, family)

\* No other object comes between the slices in the order of placement.
DeclaredTogether(f, family) ==
  \A i, j \in Slices(f, family) : \A k \in FixedObjects(f) :
    FixedPrecedes(f, i, k) /\ FixedPrecedes(f, k, j) => k \in Slices(f, family)

\* How the lowering declares a sliced local: slices that keep their offsets have
\* ranges of their own and are declared one after the other.
SlicesLieTogether ==
  \A f \in Function : \A family \in Families : IsKept(f, family) =>
    /\ \A i, j \in Slices(f, family) : i # j =>
         \/ objects[f][i].slice_offset + objects[f][i].size <= objects[f][j].slice_offset
         \/ objects[f][j].slice_offset + objects[f][j].size <= objects[f][i].slice_offset
    /\ DeclaredTogether(f, family)

\* How it aligns them: of the alignments of two slices the larger is a multiple
\* of the smaller, as powers of two are.
AlignmentsNest ==
  \A f \in Function : \A family \in Families : IsKept(f, family) =>
    \A i, j \in Slices(f, family) :
      objects[f][i].align <= objects[f][j].align =>
        objects[f][j].align % objects[f][i].align = 0

\* The elements of an array carry their index; none is aligned beyond its size.
AreElements(f, family) ==
  /\ IsDense(f, family)
  /\ \A i, j \in Slices(f, family) : objects[f][i].size = objects[f][j].size
  /\ \A i \in Slices(f, family) :
       /\ objects[f][i].align <= objects[f][i].size
       /\ objects[f][i].byte_offset = objects[f][i].size * objects[f][i].slice_offset

\* The fields of a structure carry their byte offset.
AreFields(f, family) ==
  \A i \in Slices(f, family) : objects[f][i].slice_offset = objects[f][i].byte_offset

\* How it declares them: one after the other, in the order in which they lie in
\* memory, each with the alignment of the variable or, where the variable has none
\* (alloca.align is 0), with that of its own type.  Fields whose byte offsets leave
\* no gap in the ordinals are taken to have one alignment: the code packs them like
\* array elements.  An alignment that fits into a size divides it, and so does a
\* smaller alignment a larger one, as powers of two do.
SlicesMirrorObjects ==
  \A f \in Function : \A family \in Families \ {NoFamily} : FamilyIsFixed(f, family) =>
    /\ AreElements(f, family) \/ AreFields(f, family)
    /\ DeclaredTogether(f, family)
    /\ \A i, j \in Slices(f, family) :
         /\ IsDense(f, family) => objects[f][i].align = objects[f][j].align
         /\ objects[f][i].align <= objects[f][j].align =>
              objects[f][j].align % objects[f][i].align = 0
         /\ i # j /\ FixedPrecedes(f, i, j) =>
              /\ objects[f][i].slice_offset < objects[f][j].slice_offset
              /\ objects[f][i].byte_offset + objects[f][i].size <= objects[f][j].byte_offset
    /\ \A i \in Slices(f, family) :
         objects[f][i].align <= objects[f][i].size => objects[f][i].size % objects[f][i].align = 0

\* The start of run_stack_layout.
Start ==
  /\ phase = "layout" /\ fn = 1
  /\ fixed = FixedObjects(1) /\ reorderable = ReorderableObjects(1)
  /\ base_offset = [family \in Families |-> NoOffset]
  /\ next_offset = 0 /\ max_align = 1 /\ next_slot_id = 0
  /\ frame_slots = {}
  /\ addressing = [f \in Function |-> 0]
  /\ assigned = << >> /\ pending = 0
  /\ frame_size = 0
  /\ plan = [f \in Function |-> [size |-> 0, saved |-> {}]]

Next ==
  \/ \E i \in fixed : PlaceSlice(i) \/ PlaceFixed(i)
  \/ PlaceReorderable
  \/ EndLayout
  \/ ReuseSlot
  \/ AllocateSlot
  \/ PublishSlots
  \/ NextRegalloc
  \/ PlanFrames
  \/ AppendStorage
  \/ EndStorage
  \/ ReplanFrames

\* The program is further restricted by the specification that uses this module.
Spec == WellFormed /\ Start /\ [][Next]_vars

-----------------------------------------------------------------------------
(***************************************************************************)
(* Properties                                                              *)
(***************************************************************************)

Apart(s, t) == s.offset + s.size <= t.offset \/ t.offset + t.size <= s.offset

\* No two slots of a function share a byte, whoever asked for them: the fixed
\* tier, the slices placed at offsets of their own, the gap fillers, the
\* spilled values and the variadic storage.
SlotsAreDisjoint ==
  \A s, t \in frame_slots : s.function = t.function /\ s # t => Apart(s, t)

\* A slot id names one slot of the module, although three passes number slots.
SlotIdsAreUnique ==
  \A s, t \in frame_slots : s.slot_id = t.slot_id => s = t

\* A value's slot is a slot of its own function's frame once the function's
\* slots are published: publishing by id drops none of them.
AssignedSlotsArePublished ==
  phase = "regalloc done" => \A k \in DOMAIN assigned : assigned[k] \in SlotsOf(fn)

IsLayoutObject(s) == s.object \in DOMAIN objects[s.function]
ObjectOf(s) == objects[s.function][s.object]

\* A slot lies at a multiple of the alignment it publishes.  A slice inside its
\* object is aligned by the object's layout instead.
SlotsAreAligned ==
  \A s \in frame_slots :
    (IsLayoutObject(s) => ObjectOf(s).family = NoFamily \/ ObjectOf(s).slice_offset = 0)
      => s.offset % s.align = 0

\* The slices of an object in memory keep their distances in the frame, so
\* that address arithmetic from one slice reaches the others.
SlicesKeepTheirDistance ==
  \A s, t \in frame_slots :
    /\ s.function = t.function
    /\ IsLayoutObject(s) /\ IsLayoutObject(t)
    /\ ObjectOf(s).family = ObjectOf(t).family /\ ObjectOf(s).family # NoFamily
    /\ FamilyIsFixed(s.function, ObjectOf(s).family)
    => s.offset - t.offset = ObjectOf(s).byte_offset - ObjectOf(t).byte_offset

\* In the frame that is published the saved registers overlap neither a slot
\* nor each other, although slots were added after they were first placed.
SavedRegistersAreApart ==
  phase = "done" =>
    \A f \in Function : \A r \in plan[f].saved :
      /\ \A s \in SlotsOf(f) : Apart(r, s)
      /\ \A q \in plan[f].saved : r # q => Apart(r, q)

\* The frame of the module and the planned frame of each function contain all
\* slots.
FramesContainSlots ==
  phase = "done" =>
    \A s \in frame_slots : End(s) <= frame_size /\ End(s) <= plan[s.function].size
=============================================================================
