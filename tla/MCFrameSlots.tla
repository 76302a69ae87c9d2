---------------------------- MODULE MCFrameSlots ----------------------------
(* Functions as the lowering declares them.  The elements of an array carry   *)
(* their index, the fields of a structure their byte offset, both as slices   *)
(* of one family.  A slice has the alignment of the whole variable, or that   *)
(* of its own type where the variable is declared without one.                *)
EXTENDS FrameSlots

O(size, align, family, slice_offset, byte_offset, kind, home, permanent) ==
  [size |-> size, align |-> align, family |-> family, slice_offset |-> slice_offset,
   byte_offset |-> byte_offset, kind |-> kind, requires_home |-> home,
   permanent |-> permanent]

\* A declaration is the sequence of its slices; a scalar is one that is not
\* sliced.
Scalars == {<<[size |-> n, align |-> a, exposed |-> e, slice |-> 0, byte |-> 0,
              sliced |-> FALSE]>> : <<n, a>> \in {<<1, 1>>, <<4, 4>>, <<8, 8>>, <<1, 8>>},
                                    e \in BOOLEAN}

Array(n, a, e) ==
  [k \in 1 .. 3 |-> [size |-> n, align |-> a, exposed |-> e /\ k = 1, slice |-> k - 1,
                     byte |-> n * (k - 1), sliced |-> TRUE]]
Field(n, a, e, at) ==
  [size |-> n, align |-> a, exposed |-> e, slice |-> at, byte |-> at, sliced |-> TRUE]

Arrays == {Array(n, a, e) : <<n, a>> \in {<<1, 1>>, <<1, 4>>, <<2, 2>>, <<8, 8>>}, e \in BOOLEAN}
Overaligned == {Array(n, a, TRUE) : <<n, a>> \in {<<2, 4>>, <<4, 16>>}}
Structs ==
  {<<Field(1, 1, e, 0), Field(1, 1, FALSE, 1)>> : e \in BOOLEAN} \cup
  {<<Field(1, 4, e, 0), Field(4, 4, FALSE, 4)>> : e \in BOOLEAN} \cup
  {<<Field(4, 8, FALSE, 0), Field(1, 8, e, 4), Field(8, 8, FALSE, 8)>> : e \in BOOLEAN}

\* Structures without an alignment of their own, the last one packed.
Temporaries ==
  {<<Field(1, 1, TRUE, 0), Field(4, 4, FALSE, 4)>>,
   <<Field(1, 1, FALSE, 0), Field(2, 2, TRUE, 2), Field(8, 8, FALSE, 8)>>,
   <<Field(4, 4, TRUE, 0), Field(1, 1, FALSE, 4), Field(8, 8, FALSE, 5)>>}

\* The stack objects of the declarations ds, then those of the parameters.
Declared(ds) ==
  LET part(k) == [i \in DOMAIN ds[k] |->
        LET d == ds[k][i] IN
        O(d.size, d.align, IF d.sliced THEN k ELSE NoFamily, d.slice, d.byte,
          "local", TRUE, d.exposed)]
      upto[k \in 0 .. Len(ds)] == IF k = 0 THEN << >> ELSE upto[k - 1] \o part(k)
  IN  upto[Len(ds)]
Param == O(8, 8, NoFamily, 0, 0, "param", TRUE, TRUE)
Wide == O(16, 16, NoFamily, 0, 0, "param", TRUE, TRUE)
Copy == O(4, 4, NoFamily, 0, 0, "copy", FALSE, FALSE)
Dead == O(4, 4, NoFamily, 0, 0, "local", FALSE, FALSE)

Lists(S, n) == UNION {[1 .. k -> S] : k \in 0 .. n}
V(size, object) == [size |-> size, align |-> size, object |-> object]
R(unit, width) == [unit |-> unit, width |-> width]
S(size, align) == [size |-> size, align |-> align]

OnlyFirst(first) == [f \in Function |-> IF f = 1 THEN first ELSE << >>]

\* Declarations in the first function: every pair, and every four scalars.
LayoutInit ==
  /\ \E ds \in Lists(Scalars \cup Arrays \cup Structs \cup Temporaries, 2) \cup Lists(Scalars, 4),
       ps \in {<< >>, <<Copy, Param>>, <<Wide>>} :
       objects = OnlyFirst(Declared(ds) \o ps)
  /\ values = OnlyFirst(<<V(4, NoObject), V(8, NoObject)>>)
  /\ saved = OnlyFirst(<< >>) /\ storage = OnlyFirst(<< >>)
  /\ WellFormed /\ SlicesMirrorObjects /\ Start

\* Declarations of arrays whose alignment exceeds their elements' size.
OveralignedInit ==
  /\ \E d \in Overaligned, ds \in Lists(Scalars, 1) : objects = OnlyFirst(Declared(<<d>> \o ds))
  /\ values = OnlyFirst(<< >>) /\ saved = OnlyFirst(<< >>) /\ storage = OnlyFirst(<< >>)
  /\ WellFormed /\ Start

OveralignedSpec == OveralignedInit /\ [][Next]_vars

\* Two functions with few objects and everything the later passes add.
Bodies == {<< >>, <<Dead, Param>>, <<Copy, O(4, 4, NoFamily, 0, 0, "local", TRUE, FALSE), Wide>>}
ModuleInit ==
  /\ objects \in [Function -> Bodies]
  /\ values \in [Function -> {<< >>, <<V(4, NoObject)>>, <<V(16, 2), V(1, NoObject)>>}]
  /\ saved \in [Function -> {<< >>, <<R(8, 1), R(16, 2)>>}]
  /\ storage \in [Function -> {<< >>, <<S(56, 8)>>, <<S(192, 16), S(0, 8)>>}]
  /\ WellFormed /\ SlicesMirrorObjects /\ Start

MCSpec == (LayoutInit \/ ModuleInit) /\ [][Next]_vars
=============================================================================
