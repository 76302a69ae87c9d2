# A TLA+ model of three parts of the c4c compiler

c4c compiles C and C++ to RISC-V, AArch64 and x86-64. This directory models the
parts in which an error is hardest to see in a test:

* *prealloc* (`src/src/backend/prealloc/`), the analyses and decisions between
  the backend's intermediate representation (BIR) and machine code. The values
  of a function get live intervals, registers, stack slots and an order for the
  copies that replace phis. The results are tables that the target emitters
  trust; an emitter cannot notice that two tables disagree.
* the *preprocessor* (`src/src/frontend/preprocessor/`), whose tables of macros,
  guards, resolved includes and line offsets live across files and runs, and
  from whose markers the lexer takes every source position.
* the *compile-time engine* (`src/src/frontend/hir/impl/compile_time/`), the
  loop that instantiates templates and evaluates constants until nothing is left
  to do.

Nothing here runs concurrently. What makes this code hard is order: sweeps that
update in place, three scans that share a list, evictions of evictions, copies
that overwrite each other's sources, passes that recompute offsets from what
earlier passes published, caches filled under one state and read under another,
and a worklist that grows while it is visited.

## The system and its parts

| part | source | here |
|---|---|---|
| command line, drivers | `src/src/apps`, `src/src/backend/backend.cpp` | not modelled: options and files |
| preprocessor | `src/src/frontend/preprocessor` | `MacroExpand`, `Preprocessor` |
| lexer | `src/src/frontend/lexer` | source positions only, in `Preprocessor` |
| parser | `src/src/frontend/parser` | not modelled: needs the grammar |
| semantic analysis, constant evaluation | `src/src/frontend/sema` | not modelled: structural recursion over the language |
| HIR and compile-time engine | `src/src/frontend/hir` | the worklist in `CompileTimeEngine`; lowering not modelled |
| LIR, LLVM text | `src/src/codegen` | not modelled: structural translation |
| BIR, LIR-to-BIR lowering | `src/src/backend/bir` | gives the shape of inputs only |
| legalisation | `prealloc/legalize.cpp` | not modelled: instruction rewriting |
| stack layout | `prealloc/stack_layout/` | slot assignment in `FrameSlots`; object collection not modelled |
| liveness | `prealloc/liveness.cpp` | `Dataflow`, `Liveness`, `LoopDepth` |
| out of SSA | `prealloc/out_of_ssa.cpp` | copy order in `ParallelCopy`; execution sites not modelled |
| register allocation | `prealloc/regalloc.cpp`, `prealloc/regalloc/` | `RegAlloc`; slots in `FrameSlots`; move records not modelled |
| frame, call and variadic plans | `prealloc/frame_plan.cpp`, `call_plans.cpp`, `variadic_entry_plans.cpp` | frame plan and variadic storage in `FrameSlots`; call plans not modelled |
| MIR, emitters, assemblers, linkers | `src/src/backend/mir` | not modelled |

`PROJECT.json` lists the same parts with their files, and for every definition
of every module the lines it translates.

`BirPreAlloc::run` (`prealloc.cpp`) runs legalisation, stack layout, liveness,
out-of-SSA and register allocation, in this order, each over all functions, and
then `publish_contract_plans`. So frames are begun before anything is known
about registers, copies are ordered before registers exist, and frames are
finished last. The preprocessor feeds the lexer and parser; the engine runs
between the lowering to HIR and code generation. The three parts share no state.

## The modules

**ParallelCopy** is `make_parallel_copy_bundle`. A control-flow edge owes its
join block one move per phi, all at once; the function publishes a list of
`Move` and `SaveDestinationToTemp` steps. State: `MoveState` as the functions
`source_name`, `uses_cycle_temp_source`, `emitted`; the set `pending_sources`;
the loop position. Actions: `StartPass` (head of the `while`), `SkipMove` and
`EmitMove` (one iteration of the inner loop), `EndPass` (`continue` after
progress), `BreakCycle` and `Finish`. `BreakCycle` is everything behind a pass
without progress: the `break` when nothing is left, the emission of an unnamed
move as it stands (`EmitUnnamed`), and the save with the redirection of the
readers (`SaveDestination`). `env` and `temp` are history: the effect of running
the published steps, which is how the emitters read them (external to this
function). **ParallelAssign** is what the bundle promises: the moves are
delivered one by one, in any order, each with the value its source had on entry.
ParallelCopy implements it with `env` in full view; emitted moves are delivered
moves, and saving to the temporary is invisible.

**Dataflow** is `run_backward_dataflow`: `VisitBlock` is the body of the inner
loop, `SweepAgain` and `Finish` the two outcomes of `while (changed)`. Bit sets
are sets.

**Liveness** is `run_liveness` for one function. `NumberInstruction` and
`NumberTerminator` are `assign_program_points`, with `record_point_activity` and
the phi uses charged to predecessors; `RunDataflow` takes the steps of Dataflow,
which Liveness extends, on the summaries just computed; `PublishIntervals` is
`extend_intervals_from_liveness` and the flag of `build_liveness_value`. An
instruction is its uses, its definitions, whether it is a call, and a phi's
incomings. The reference is the program itself: `LiveBefore` is the least set of
instructions from which some path reads the value before it writes it.

**LoopDepth** is `compute_loop_depth`. The recursion of `dfs` is an explicit
stack `calls`; the flood over predecessors has its queue. The reference,
`Reaches`, is again a least set: the blocks from which a set can be reached
along given edges.

**RegAlloc** is the assignment part of `run_regalloc` for one function: three
scans by `assign_from_pool`, whose iterations end in `AssignFree`,
`EvictAndAssign` or `LeaveUnassigned`; each first applies
`expire_completed_assignments`. `AssignStackSlots` is the two slot loops and
`append_spill_reload_ops`. Lists of active assignments are sets of values,
because the rank that orders them is total and a record only repeats its value's
end point and register. Priority and spill weight are one number: the code
copies one into the other.

**FrameSlots** is the frame of every function of a module: `assign_frame_slots`
(`PlaceSlice`, `PlaceFixed`, `PlaceReorderable` with the gap filler,
`EndLayout`), the slots of `run_regalloc` (`ReuseSlot`, `AllocateSlot`,
`PublishSlots`), `populate_frame_plan` (`PlanFrames`), the storage of variadic
functions (`AppendStorage`, `EndStorage`) and the second `populate_frame_plan`
(`ReplanFrames`). A slice carries both the `slice_offset` the code reads and the
byte offset at which it lies in its variable; the code never sees the second,
and the property about distances does. What the lowering promises about slices
is the hypothesis of the proofs about placement. `SlicesMirrorObjects` is the
whole of it: slices are declared one after the other in memory order, each with
the variable's alignment or, in temporaries declared without one, with that of
its own type (`aggregate.cpp:336`), and are either the elements of an array
(`AreElements`: equal sizes, numbered by index, not over-aligned) or fields that
carry their byte offset (`AreFields`). One kind of temporary does not satisfy
it, see the disagreements below. `SlicesLieTogether` (slices that keep their offsets
do not overlap, and nothing is declared between them) and `AlignmentsNest`
(their alignments divide one another) are the consequences of it that
disjointness and alignment need.

**MacroExpand** is `expand_text` and `expand_funclike_call` with the argument
collection and substitution of `pp_macro_expand.cpp`, on sequences of tokens. It
also holds the reference it is compared with: expansion by the hide sets of the
C standard. `ExpandLine` is `expand_line`.

**Preprocessor** is `preprocess_file` and the loop of `preprocess_text` over the
lines of a file. One action handles one line: the handlers of the conditionals,
`define`, `undef`, `pragma`, `_Pragma`, `line`, `include` and diagnostics, and
text, which may start or continue an invocation that spans lines. `frames` is
the stack of activations of `preprocess_text`; the tables carry the names of the
class's members. `handle_include` resolves through `include_resolve_cache_`,
skips by `#pragma once` or by guard, and otherwise pushes a frame; `EndOfText`
pops it with its return marker. `roots` lists the files given to the same object
one after the other. `LexerLocation` is what the lexer makes of the output's
markers and newlines. A text in `out` carries what `__FILE__` and `__LINE__`
were in its last expansion, and the number of lines it absorbed after its first:
the loop moves `__LINE__` on for each of them (`preprocessor.cpp:200`) and then
expands the whole. `expand_line` is a parameter: the loop, the directives and
the include search depend only on what it returns. `MCPreprocessor.cfg` sets it
to MacroExpand's `ExpandLine`, so that the run checks the two together;
`ExpansionFollowsHideSets` and `PaintOutlivesArguments`, which are about both,
are stated in MCPreprocessor.
`interrupted` is a history variable, which no action reads: it records that a
directive of the current run stood inside an invocation.

**CompileTimeEngine** is `run_compile_time_engine`. An item is one pending type,
template call, consteval expression or static assertion. Each of the four steps
visits the items known when it begins (`TypeIsResolved` to `AssertIsPending`);
`Instantiate`, `TypeIsBlocked` and `TypeIsRealized` append what they spawn and
the lists do not hold yet, in any order. `todo` holds the places in the list a
step has yet to visit. `Converge`, `Irreducible`, `NextIteration` and `GiveUp`
are the four decisions at the end of an iteration. What lowering and constant
evaluation would make of an item is an input. `CallIsMisread` stands for the
loop over `expr_pool` that instantiation invalidates by growing the pool:
undefined behaviour, so a later call of that step may be seen, missed or counted
as pending.

The MC modules choose the inputs. The operators that a suffix such as
`expire_AtEnd` or a comment marks as mutants are deliberately wrong variants of
the definition that follows them; no specification uses them. They record which
plausible mistake each property rules out.

## What is checked

Deadlock checking is off everywhere: each specification is one run of a function
that returns.

| run | property | meaning |
|---|---|---|
| `parallel_copy` | `ParallelSemantics` | running the steps equals the simultaneous assignment |
| | `TempHoldsPendingValue` | one temporary is enough, also for several cycles |
| | `StuckMoveIsNamed` | the two fallback branches (lines 261-274 of `out_of_ssa.cpp`), which the model has, are never taken |
| | `HasCycleIsExact` | `has_cycle` is set exactly for bundles with a cycle |
| | `Terminates`, `Refines` | the loop ends; every step is a delivery of ParallelAssign or invisible |
| `liveness` | `FinishedIsSolution`, `BelowEverySolution` | the dataflow's result is the least solution |
| | `LiveSetsGrow`, `Terminates` | sets only grow; the sweeps end |
| | `BlockLivenessIsPathLiveness` | `live_in` is liveness along program paths |
| | `IntervalCoversLiveRange` | the one interval covers every point where the value lives |
| | `UnmarkedCallIsAtStart` | the only calls missed by `crosses_call` are at the interval's first point |
| `liveness_calls` | `LiveAcrossCallIsMarked` | **violated**, see below |
| `loop_depth` | `BackEdgesBreakAllCycles` | every loop has a back edge |
| | `DepthCountsNaturalLoops`, `Terminates` | what the depths mean; the search and the floods end |
| `regalloc` | `ScansAreExclusive` | values on one side of the call-crossing divide never share a live register, through all evictions |
| | `CrossingValuesAreCalleeSaved` | a call never clobbers a marked value's register |
| | `EvictedInsideInterval` | an eviction meets a value that has been defined |
| | `SpillsAreJustified` | a value goes without a register only when every span was held by values live at the same time, or when it was evicted by a stronger value that starts there |
| | `SpillReadsItsOwnRegister` | a spill finds its value still in the register it names |
| | `EvictedUsesAreServed` | every later use of an evicted value has a reload |
| `regalloc_reuse` | `InterferenceIsRespected` | **violated**, see below |
| `frame` | `SlotsAreDisjoint`, `SlotsAreAligned`, `SlicesKeepTheirDistance` | the layout |
| | `SlotIdsAreUnique`, `AssignedSlotsArePublished` | passes that number slots independently agree |
| | `SavedRegistersAreApart`, `FramesContainSlots` | the second plan repairs what variadic storage invalidates |
| `frame_overaligned` | `SlicesKeepTheirDistance` | **violated**, see below |
| `preprocessor` | `OneBranchPerGroup` | of the branches of one conditional at most one is read |
| | `GuardSkipIsSilent` | a header skipped by its guard would have contributed nothing |
| | `CacheIsCoherent` | a cached include is what a fresh search would find |
| | `IncludeNextAdvances` | `#include_next` looks only behind the directory of its file |
| | `PositionsAgree` | the lexer places a text in the file of `__FILE__`, at `__LINE__` less the lines the text absorbed |
| | `ExpansionFollowsHideSets` | expansion agrees with the standard's hide sets, with recursive macros too, unless an argument leads to one |
| `preprocessor_paint` | `PaintOutlivesArguments` | **violated**, see below |
| `compile_time` | `NoProgressIsFixpoint` | an iteration reported as stuck would repeat itself |
| | `IrreducibleIsReported` | what is stuck is reported, item by item |
| | `ConvergedCoversThePass` | convergence leaves nothing pending that the pass has seen |
| | `SolvableProgramsConverge` | work that is all known at the start and has an order to do it in is done |
| | `Terminates` | the loop ends |
| `compile_time_chain` | `ConvergedMeansDone` | **violated**, see below |

### Bounds

* `parallel_copy`: four names, four moves. This has two 2-cycles, 3- and
  4-cycles, a cycle with a chain, fans, self-moves and immediates. Only the
  identity of a name matters, so destinations are numbered in move order. The
  proof removes the bound.
* `liveness`: every graph of three blocks whose entry has no predecessor, one
  instruction each: loops, unreachable blocks, any layout order; and two blocks
  with up to two instructions and a terminator, so that uses, definitions and
  calls meet in every order. One value, in SSA form: defined once, never read
  before its definition on a path from the entry. The dataflow treats every bit
  on its own, so a second value adds nothing to it, and three blocks already
  need several sweeps. A terminator has at most two targets. The proof removes
  the bounds and does not need SSA form, only that the entry is no branch target.
* `loop_depth`: four blocks with at most two successors, enough for nested,
  shared, overlapping and irreducible loops. The proof removes the bound.
* `regalloc`: four values over four points, one caller-saved and two
  callee-saved registers (the riscv64 pools have one and more than one), two
  priorities. Four values make an eviction of a value that evicted another.
  Values are numbered in allocation order because ids only break ties. Three of
  the values over three points also take pairs, made of the two callee-saved
  registers. `regalloc_reuse`: the five-value family in which the first scan
  expires an assignment that the third scan still has to respect. The proof
  removes the bounds.
* `frame`: sizes 1, 2, 4 and 8; alignments 1, 2, 4, 8 and one scalar whose
  alignment exceeds its size; every pair of declarations and every four scalars.
  There are two functions, so that slot ids and extents of one are in the way of
  the other. The proofs remove the bounds.
* `preprocessor`: six families of programs. Every sequence of up to five
  conditional lines; every header of up to five lines read twice, with its guard
  kept or undefined in between; two headers in every subset of three
  directories, which ask for each other in five ways, with the second directory
  in each of three search lists; every file of up to four lines that move
  positions, with three headers; seven lines of text under 1,760 tables of two
  object macros and one function-like macro with short bodies, most of them
  recursive; and a mix of the rarer directives. `DepthLimit` is 2 where the code has 200: enough for a
  header that includes itself to be refused after having been entered. The
  proofs remove the bounds, except those on the macro tables and lines of text
  for `ExpansionFollowsHideSets`.
* `compile_time`: every program of three items known from the start, and
  programs in which work is found one item from another to depth four. The
  iteration limit is the code's own, 8. The proof of the safety properties
  removes the bounds, the iteration limit included.

The inputs of the frame models are the shapes the lowering declares: the
elements of an array are slices numbered by index, the fields of a structure
slices at their byte offset, each with the variable's alignment or, in a
temporary without one, its own, and only the slice whose address is taken is
marked as exposed. `frame` contains byte arrays
with a larger alignment (index and offset coincide) but no wider over-aligned
array; those are `frame_overaligned`. `SlicesMirrorObjects` is a conjunct of the
initial predicates of `frame` and excludes none of their programs: with and
without it the run has 364,599 states. The arrays of `frame_overaligned` violate
it.

The preprocessor model was also compared with the program: 2,042 random programs
of several files gave the same output, line for line, from the built
preprocessor and from the model. Making `expand_line` a parameter came later and
changed none of its steps: on the programs of the run TLC finds that every step
is one of the earlier form.

### Fairness

`Terminates` (of `parallel_copy`, `liveness`, `loop_depth` and `compile_time`)
assumes weak fairness of `Next`. Each model is a sequential function: when a
step is possible the program takes it. Nothing waits for anything outside.
`Refines` needs none: ParallelAssign says what may be done, not that it is.

## What is proved

The theorems hold for every value of the constants: any number of names and
moves, any function and control-flow graph, any set of intervals, calls,
priorities, widths and register tables, any number of functions, objects and
slots of any size and alignment, any set of compile-time work and any iteration
limit, any files, search directories, predefined macros, depth limit and macro
expansion. Every safety property and action property that a passing run checks
is proved, except `ExpansionFollowsHideSets`. tlapm checks the proofs with Z3,
Zenon and LS4.

**ParallelCopyProofs.** Assumes `NoName \notin Names` and `N \in Nat`. `IInv`
says: a move not yet emitted reads either a name that no emitted move has
written or the temporary, which then holds its value (`ReadsAreIntact`); what
emitted moves wrote is final (`WritesAreDelivered`); `pending_sources` never
misses a pending source, and in a pass without progress it is exact and
everything passed over was blocked (`ScanIsSound`); the cycle flag is sound
(`CycleFlagIsSound`). None of the properties is inductive without these. The
delicate step is `BreakCycle`: that no redirected move is pending when a
temporary is saved. In a pass without progress every unemitted move is blocked,
so destinations map injectively into the pending sources; counting forces every
unemitted move to have a pending source, and a redirected move has none. The
theorems are `ParallelCopyIsCorrect`, `OneTemporarySuffices`,
`StuckMovesAreNamed`, `CycleFlagIsExact` and `ParallelCopyRefinesParallelAssign`.
The last is step by step: `EmitMove` delivers the value on entry because of
`ReadsAreIntact`, `SaveDestination` changes nothing ParallelAssign sees, and
`EmitUnnamed` is never reached.

**LivenessProofs.** Assumes `NumBlocks \in Nat \ {0}`. The first part is about
`run_backward_dataflow` alone (`FlowSpec` of Dataflow) on any graph, values,
`gen` and `kill`. `VisitsNeverShrink` (what a block holds is contained in what
its next visit will compute) gives monotony, and with it that a block solved
earlier in a sweep stays solved while the sweep changes nothing
(`VisitedAreSolved`). With `BelowEverySolution` this makes the result the least
solution: `FlowIInvHolds`, `DataflowSolvesEquations`, `DataflowIsLeast`,
`DataflowIsMonotone`.

The second part is about the analysis around it; `Init` adds that no branch goes
to the entry block (`EntryHasNoPredecessor`). `IInv` follows the phases: points
are handed out block by block without gaps (`LayoutInv`); the interval of a
value holds every point where it is read or written so far (`EventInv`); `gen`
and `kill` say exactly what the numbered part of a block reads before writing,
and writes (`SummaryInv`); the dataflow keeps the invariant of the first part
(`FlowInv`); published intervals hold the blocks the value is live in
(`PublishedInv`).
`BlockLivenessIsExact` has two halves. No block set is too large because
path-liveness at the block entries solves the dataflow equations, and the result
is below every solution. None is too small because the set of instructions that
lie ahead of an exposed read, according to the block sets, is closed backwards
along the program's edges, and `LiveBefore` is the least such set. From it
follow `IntervalsCoverLiveRanges` and `UnmarkedCallsAreAtStart`. Without
`EntryHasNoPredecessor` the first theorem is false: a parameter read in a loop
through the entry block is live at its beginning, and `kill` says it is not.

**LoopDepthProofs.** Assumes `NumBlocks \in Nat \ {0}`. `SearchInv`: the flags
`on_stack` are the calls in progress; a successor that a call has dealt with is
finished, the target of a back edge, or the block of the next call; an edge out
of a finished block is a back edge or leads to a finished block; no finished
block lies on a cycle without back edges. When a block finishes, all its forward
edges lead to finished blocks, so a cycle through it would make one of those
unfinished: `SearchFindsAllLoops`. `FloodInv`: a flood stays inside the natural
loop, and every block of it other than the header waits in the worklist or has
all its predecessors in. When the worklist is empty the set is therefore closed,
and the natural loop is the least closed set: `DepthsCountLoops`, for graphs
without self-loops.

**RegAllocProofs.** Assumes natural sizes, span tables of nonempty spans, and
disjoint caller- and callee-saved pools, which holds of every target's tables
(`target_register_profile.cpp`). The core of `IInv` is `RetiredIsOver`: a holder
of this scan's registers that is no longer active is over before any value of
its kind that the scan has yet to see. It needs `VisitedInOrder`,
`HeldFromOwnPool` and `EvictableIsVisited` (what a scan may evict it will not
meet again). The restriction to values of one kind is essential: without it the
statement is false, which is the second finding below. Theorems: `TypeCorrect`,
`ScansStayExclusive`, `CrossingValuesStayCalleeSaved`,
`EvictionsAreInsideIntervals`.

`SpillInv` is a second invariant, about evictions. A value evicted in its own
scan has had its turn and does not come back (`EvictedHadItsTurn`); the
evictions of a scan lie before the values it has yet to see
(`SpilledBeforePending`); whoever holds a part of a lost register had it before
or starts no earlier than the spill (`LostRegisterIsVacated`); and what
`SpillsAreJustified` says holds from a value's turn on (`TurnsAreJustified`).
Theorems: `SpillsStayJustified`, `SpillsReadTheirRegister`,
`EvictedUsesStayServed`. That every span was held does not mean that it was held
by stronger values at that moment: with pairs, a span may be kept by a value
that blocks half of it, and the third scan may evict a holder again. The
property says what is true of every instance; an instance of five values (7.7
million states) agrees.

**FrameSlotsProofs.** Assumes `NumFunctions \in Nat \ {0}` and, through
`WellFormed`, natural sizes and positive alignments. `IInv` says: slots are
finitely many, so the largest id, end and alignment exist (`Bounded`: the passes
recompute them as maxima); while slots are handed out the next id is above all
ids, those handed out and not yet published included (`IdsAreFresh`); and what
is placed ends before `next_offset` in the function at hand and inside the
reported frame in the functions that are finished (`ExtentsAreKept`). The three
passes number slots from different sources, a running counter, a counter
restarted from the maximum, and the maximum itself; `IdsAreFresh` is what
connects them. Theorems: `SlotIdsStayUnique`, `AssignedSlotsStayPublished`,
`FramesContainTheirSlots`.

`SavedRegistersStayApart` is about the second plan. Where the k-th saved
register ends is a recursive function of k; its values exist and are ordered by
an argument on the first place where they would not (`EndsExist`,
`EndsAreOrdered`), which needs no induction schema. The first register begins at
or after the planned size, where all slots end.

`SlotsStayDisjoint` adds the assumption `SlicesLieTogether`. A slot placed at or
after `next_offset` is apart from all others at once. A slice that keeps its
offset is not: it is placed relative to the base of its family, before
`next_offset`. `FamiliesArePlaced` says that until the last slice of a family is
placed every slot of another object ends before the base, and that the family's
own slots are at their offsets; `PlacedInOrder` says that nothing is placed out
of the order in which the code sorts. The assumption cannot be dropped: the
over-aligned arrays of the third finding violate it, and their slots overlap.

`SlotsStayAligned` adds `AlignmentsNest` instead. `align_to` returns a multiple
of its second argument (`AlignToAligns`, from division with remainder). The base
of a family is rounded to the largest alignment of its slices
(`BasesAreAligned`); a slice at offset 0 is aligned because its own alignment
divides that one.

`SlicesStayAtTheirDistance` assumes `SlicesMirrorObjects`, which mentions
nothing of the layout's own choices. The code does not know whether ordinals are
indices or byte offsets; it guesses from their density and from the alignments.
`ChoiceIsRight` and `PackedSlicesFit` show that it guesses right under the
hypothesis: slices that keep their offsets are fields, whatever their
alignments, and slices that are packed have one alignment and lie one behind the
other without padding. Kept slices then have their distances from the common
base, by `FamiliesArePlaced`. Packed ones have them only because nothing comes
in between: `RunsAreOpen` says that from the first to the last slice of a packed
family the frame ends with the slice placed last, at an aligned offset, so that
the next one is rounded to where it already is (`NoPaddingBetween`). Distances
to the earlier slices then add up. `MirroringSuffices` derives the hypotheses of
the other two theorems from this one.

**CompileTimeEngineProofs.** Assumes finitely many items and a positive
iteration limit. `IInv` judges a visit by what it has left behind. If the
iteration has counted no progress, every item visited is done, or cannot be
finished and has its diagnostic (`QuietInv`); if it has counted nothing pending,
every item visited is finished (`FinishedInv`). Both must survive the visits
that follow: a step that finishes something counts progress, so that the premise
of the first fails, and readiness only grows, for the second. Constants are
bound, except those the running step has just evaluated (`BoundInv`).
`SolvableInv` measures progress on programs whose work is all known and has an
order: by the end of the i-th iteration the items of rank i are usable, and the
first i calls are lowered although `expr_pool` is reallocated under the loop.
`StopInv` connects the ends of the loop with the counters. Theorems:
`LackOfProgressIsAFixpoint`, `IrreducibleSetIsReported`,
`ConvergenceCoversThePass`, `SolvableProgramsAreFinished`.

**PreprocessorProofs, PositionProofs.** Both assume that "0", "1" and
"<undefined>" are tokens and, except for `GroupsHaveOneBranch`, that
`expand_line` turns a text into a text (`ExpansionYieldsText`). The expansion is
otherwise arbitrary, so the theorems do not depend on what MacroExpand leaves
out: strings, `#`, `##` and variadic macros. `WellFormed`, a conjunct of `Init`,
only gives the driver's input its types and requires that the files to
preprocess and the builtin headers exist.

`GroupsHaveOneBranch` rests on `CondInv`: in `cond_stack_` an active frame has
been taken and has an active parent, and a parent is active only inside active
groups. `CondStep` shows that every action opens one group, goes on to its next
branch, closes it or leaves the stack alone; each case is treated once.
`TypeCorrect` is the type invariant; `TypeInv` includes that every file that is
being read or that the cache names exists.

`CacheStaysCoherent`: the invariant is inductive once types are known, because
`KeyDecides` shows that the key (name, kind of brackets, and for quoted names
the includer's directory) determines the directories searched. `config` never
changes.

`GuardSkipsAreSilent` rests on `GuardInv`: a name in `include_guard_map_` is
what `detect_include_guard` finds in that file. The rest is about sources alone.
`Opened` counts groups by cardinalities; between two neighbouring lines it
changes by at most one, so that a file whose first group ends only on its last
line never leaves it before (`StaysOpen`), and all its text is inside.

`IncludeNextGoesForward`: when no directory lies inside another and the
includer's own is searched, that one is the first which is a prefix of the
includer's path, and the search starts behind it (`StartsLater`).

`PositionsStayAligned`, in PositionProofs, rests on `PosInv`, as long as files
keep their lines and nothing was interrupted. It says where the lexer is in
terms of the values the loop gave `__FILE__` and `__LINE__`: at `__LINE__` for a
text of one line, and as many lines above it as an invocation absorbed. Every
text in the output is
already placed right (`Placed`), and output is only appended, so it stays so.
`Standing` says where the lexer is at the end of the output: at the virtual
location of the next line if no invocation is open; otherwise at the location of
the invocation's first line, which is as many lines back as `extra_lines`
counts. The activations that wait for an include stand between two lines with no
invocation open and without an offset (`Callers`), so that the marker which
`EndOfText` writes for them, a physical line number, is also the virtual one.
This is where the hypothesis that no `#include` stands below a `#line` is
needed. The lemmas on the lexer (`MarkerReaches`, `BlockReaches`, `PlacedStays`)
follow the last marker through the output as lines are added.

Only model-checked:

* liveness: `Terminates` of four runs. The prover has neither fairness nor
  ENABLED;
* `ExpansionFollowsHideSets`: expansion and its reference are mutually RECURSIVE
  operators, and the prover loses its SMT backend in every module that reaches
  one; what they compute for every text would need induction over texts as well.

## Where the code disagrees with its contracts

1. **`crosses_call` misses a call at the first point** (`liveness.cpp:896`, run
   `liveness_calls`). `UnmarkedCallIsAtStart` shows that this is the only case.
   It concerns parameters live across a call that is the function's first
   instruction, and intervals stretched to begin at a block that begins with a
   call.
2. **The third scan forgets expired assignments** (`regalloc.cpp:900`, run
   `regalloc_reuse`). It starts again at the first program point with the active
   list as the first scan left it at the last. An early call-crossing value that
   the first scan expired is not in the list, and its register is given to a
   value inside its interval. `ScansStayExclusive` proves that all sharing of
   live registers is between a call-crossing value and one that crosses none.
3. **Over-aligned arrays** (`slot_assignment.cpp:93`, run `frame_overaligned`).
   An alignment larger than the element makes `preserve_slice_offsets` true, and
   element indices are then used as byte offsets.
4. **The engine converges with work left** (`engine.cpp:754`, run
   `compile_time_chain`). Work that an instantiation finds in the middle of an
   iteration has been counted by no step, and an iteration that leaves nothing
   else pending ends the loop. On five function templates that call one another
   in a chain the built compiler declares the third and never defines it.
   `ConvergedCoversThePass` shows that work known when the last iteration begins
   is not lost, unless `expr_pool` was reallocated under the loop.
5. **Arguments lose their blue paint** (`preprocessor.cpp:828`, run
   `preprocessor_paint`). An argument is expanded to text before it is put into
   the body. A name it left alone because it stood inside its own replacement is
   plain text then, and the scan of the body expands it again. With
   `#define A A n` and `#define F(x) x` the built preprocessor turns `F(A)` into
   `A n n`. `ExpansionFollowsHideSets` shows that the paint is lost nowhere else
   in the tables checked: it allows recursive macros wherever no name between
   parentheses leads to one.

Two more cases are left out by a hypothesis and have no run of their own.

* A structure temporary is declared without an alignment (`LirAllocaOp`
  with 0 in `call/args.cpp:254`, `expr/misc.cpp:27` and `lvalue.cpp:244` of
  `src/src/codegen/lir/hir_to_lir`), and its leaves take the alignments of their types. If their byte offsets leave no gap in the
  ordinals, as in `{char, char, short}`, the code packs them like the elements
  of an array, from a base aligned for the first leaf only, and padding may come
  before a later one. TLC finds this as a violation of `SlicesKeepTheirDistance`
  as soon as such a temporary is added behind a one-byte scalar.
  `SlicesMirrorObjects` leaves it out: it requires equal alignments of slices
  whose ordinals leave no gap.
* `__LINE__` in an invocation over several lines is the number of its last line,
  wherever it stands, and the lexer places the whole at its first. The
  preprocessor's `README.md:162` says the fields keep `__LINE__` and downstream
  diagnostics aligned. `PositionsAgree` states the difference, as many lines as
  were absorbed, instead of leaving such texts out.

Observations without a contract to measure them against: in `compute_loop_depth`
a block that is its own successor floods all its predecessors, so every block
that reaches it counts as part of the loop, and two back edges to one header
count twice; `DepthCountsNaturalLoops` therefore excludes self-loops and counts
back edges, not headers. The ids of saved-register slots restart in every
function (`frame_plan.cpp`), unlike all other slot ids.

In the preprocessor: inactive text inside an invocation that spans lines is
emitted (`preprocessor.cpp` 209-212; the C standard leaves directives there
undefined); an object macro whose body ends in a function-like name does not
take the parentheses that follow, nor does `F(F)(n)` (`ExpansionFollowsHideSets`
leaves both out); a header with text after the `#endif` of its guard loses that
text when it is included again (`GuardSkipIsSilent` leaves it out); after a
`#line` the marker that returns from an include gives the physical line, and a
preserved pragma takes two lines of output (`PositionsAgree` leaves both out);
`macro_stack_` survives from one run of an object to the next; `_Pragma("once")`
records the name set by `#line`.

In the engine: a static assertion that can be evaluated counts as progress in
every iteration, so a stuck program that has one ends silently at the iteration
limit; diagnostics of types that fail for good are kept only from the last
iteration.

## Not modelled

The modules translate about 3,700 lines of the roughly 328,000 under `src/src`
(1.1 %): most of the liveness, assignment and slot files of prealloc, the
preprocessor's main loop and the compile-time engine. What the runs and proofs
say is about those lines only. Most of the rest cannot be modelled in this way
and stay faithful: it is recursive descent over the grammar of two languages,
translation from one tree or instruction list to another, case by case, and
tables and printers for each target. Such code has little state between steps; a
model of it would repeat it line by line.

* RegAlloc: the priority formula and the register tables (inputs), and the
  construction of move records after assignment.
* FrameSlots: the extra slots of RISC-V formals that arrive on the stack
  (`regalloc.cpp` 951-965), the omission of save slots in frames with a dynamic
  stack, and the module-wide frame alignment after layout.
* Liveness: the resolution of labels and names and the collection of operands
  from each instruction kind; these are the sets `uses` and `defs`.
* Preprocessor: strings, the `#` and `##` operators, variadic macros and macros
  of several parameters, splicing of lines and removal of comments before the
  loop, arithmetic in `#if`, the built-in macros other than `__COUNTER__`, and
  the fallback to an external preprocessor.
* CompileTimeEngine: lowering and constant evaluation (their outcomes are
  inputs), the check of reduction records, and the second run of the engine for
  `--verify`.
* Parser: tentative parsing saves and restores a list of fields around a trial
  parse; whether the list is complete depends on everything the grammar does in
  between.
* Whole parts: the table above and the components of `PROJECT.json`.

## Plan

1. **Execution sites** (`out_of_ssa.cpp`): which block runs a bundle, critical
   edges, and the phi lowering that moves definitions after liveness has
   numbered them. Property: every path through an edge runs its bundle exactly
   once.
2. **Allocation pipeline**: Liveness and RegAlloc composed on small functions
   with a machine that runs the result. Abstract specification: the function on
   unlimited names. With it the moves of an edge by register rather than by name
   (`regalloc/phi_moves.cpp`).
3. **Call preservation** (`call_plans.cpp`): which values survive a call and
   where.
4. **Stack objects** (`stack_layout/copy_coalescing.cpp,
   alloca_coalescing.cpp`): which objects may lose their home.
5. **Macro expansion**: termination of `expand_text` under its disabled set, and
   agreement with the hide sets for every table, by induction over texts.
