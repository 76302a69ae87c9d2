------------------------- MODULE PreprocessorProofs -------------------------
(***************************************************************************)
(* What the preprocessor guarantees for every set of files, every search   *)
(* path, every depth limit and every macro expansion.                      *)
(***************************************************************************)
EXTENDS Preprocessor, FiniteSetTheorems, WellFoundedInduction, TLAPS

-----------------------------------------------------------------------------
\* Conditional groups

CondFrame == [parent_active : BOOLEAN, any_taken : BOOLEAN, this_active : BOOLEAN,
              saw_else : BOOLEAN]

\* A group with an active branch stands in active groups only, and has been
\* taken.
Nested(stack) ==
  \A i \in DOMAIN stack :
    /\ stack[i].this_active => stack[i].parent_active /\ stack[i].any_taken
    /\ stack[i].parent_active => \A j \in 1 .. i - 1 : stack[j].this_active

CondInv == cond_stack_ \in Seq(CondFrame) /\ Nested(cond_stack_)

\* What a step does to the stack of groups.
Opens == \E take \in BOOLEAN : Push(take)
GoesOn ==
  /\ cond_stack_ # << >>
  /\ \E take, saw \in BOOLEAN :
       SetInnermost([Branch(Last(cond_stack_), take) EXCEPT !.saw_else = saw])
Closes == cond_stack_ # << >> /\ cond_stack_' = Front(cond_stack_)

\* Every step leaves the groups, resets them, opens, continues or closes one.
LEMMA CondStep ==
  ASSUME CondInv, Next
  PROVE  \/ UNCHANGED cond_stack_
         \/ cond_stack_' = << >>
         \/ Opens \/ GoesOn \/ Closes
<1>1. CASE preprocess_file
  BY <1>1 DEF preprocess_file
<1>2. CASE handle_ifdef
  <2>1. (Line.name \in DOMAIN macros_) \in BOOLEAN /\ (Line.name \notin DOMAIN macros_) \in BOOLEAN
    OBVIOUS
  <2>2. Push(Line.name \in DOMAIN macros_) \/ Push(Line.name \notin DOMAIN macros_)
    BY <1>2 DEF handle_ifdef
  <2> QED BY <2>1, <2>2, Zenon DEF Opens
<1>3. CASE handle_if
  <2>1. PICK v : Push(v.take) /\ v = evaluate_if_expr(Line.text)
    BY <1>3 DEF handle_if
  <2>2. v.take \in BOOLEAN
    BY <2>1 DEF evaluate_if_expr
  <2> QED BY <2>1, <2>2 DEF Opens
<1>4. CASE handle_elif
  <2>0. CASE cond_stack_ = << >> \/ Last(cond_stack_).saw_else
    BY <2>0, <1>4 DEF handle_elif
  <2>1. CASE ~(cond_stack_ = << >> \/ Last(cond_stack_).saw_else)
    <3>1. SetInnermost(Branch(Last(cond_stack_), evaluate_if_expr(Line.text).take))
      BY <2>1, <1>4 DEF handle_elif
    <3>2. evaluate_if_expr(Line.text).take \in BOOLEAN
      BY DEF evaluate_if_expr
    <3>3. PICK take \in BOOLEAN : SetInnermost(Branch(Last(cond_stack_), take))
      BY <3>1, <3>2
    <3>4. Last(cond_stack_) \in CondFrame
      BY <2>1 DEF CondInv, Last
    <3>5. Branch(Last(cond_stack_), take)
            = [Branch(Last(cond_stack_), take) EXCEPT !.saw_else = FALSE]
      BY <3>4, <2>1, Zenon DEF Branch, CondFrame
    <3> QED BY <3>3, <3>5, <2>1, Zenon DEF GoesOn
  <2> QED BY <2>0, <2>1
<1>5. CASE handle_else
  BY <1>5, Zenon DEF handle_else, GoesOn
<1>6. CASE handle_endif
  BY <1>6 DEF handle_endif, Closes
<1>7. CASE SkipDirective
  BY <1>7 DEF SkipDirective
<1>8. CASE handle_define \/ handle_undef \/ Diagnose \/ handle_line \/ handle_include
  BY <1>8, Zenon DEF handle_define, handle_undef, Diagnose, handle_line, handle_include
<1>9. CASE handle_pragma \/ process_pragma_text
  BY <1>9 DEF handle_pragma, process_pragma_text, Pragma
<1>10. CASE InactiveText \/ PlainText \/ StartInvocation \/ ContinueInvocation
  BY <1>10 DEF InactiveText, PlainText, StartInvocation, ContinueInvocation, Unaffected
<1>11. CASE EndOfText
  BY <1>11 DEF EndOfText
<1> QED
  BY <1>1, <1>2, <1>3, <1>4, <1>5, <1>6, <1>7, <1>8, <1>9, <1>10, <1>11 DEF Next

\* The last element of a sequence and the rest.
LEMMA LastAndFront ==
  ASSUME NEW S, NEW s \in Seq(S), s # << >>
  PROVE  /\ Last(s) \in S /\ Last(s) = s[Len(s)] /\ Len(s) \in DOMAIN s
         /\ Front(s) \in Seq(S) /\ Len(Front(s)) = Len(s) - 1
         /\ Len(s) \in Nat \ {0}
         /\ \A i \in 1 .. Len(s) - 1 : Front(s)[i] = s[i]
  BY DEF Last, Front

\* handle_if, handle_ifdef: a new group is active in active groups only.
LEMMA PushKeepsNesting ==
  ASSUME CondInv, NEW take \in BOOLEAN, Push(take)
  PROVE  /\ CondInv'
         /\ \A i \in DOMAIN cond_stack_ : cond_stack_'[i] = cond_stack_[i]
<1> DEFINE active == is_active /\ take
           new == [parent_active |-> is_active, any_taken |-> active, this_active |-> active,
                   saw_else |-> FALSE]
<1>1. is_active \in BOOLEAN
  <2>1. CASE cond_stack_ = << >>
    BY <2>1 DEF is_active
  <2>2. CASE cond_stack_ # << >>
    <3>1. Last(cond_stack_) \in CondFrame
      BY <2>2, LastAndFront DEF CondInv
    <3>2. Last(cond_stack_).this_active \in BOOLEAN
      BY <3>1 DEF CondFrame
    <3> QED BY <3>2, <2>2 DEF is_active
  <2> QED BY <2>1, <2>2
<1>2. new \in CondFrame /\ new.parent_active = is_active /\ new.this_active = active
        /\ new.any_taken = active
  BY <1>1 DEF CondFrame
<1>3. cond_stack_' = Append(cond_stack_, new)
  BY DEF Push
<1>4. is_active => \A j \in 1 .. Len(cond_stack_) : cond_stack_[j].this_active
  <2> SUFFICES ASSUME is_active, NEW j \in 1 .. Len(cond_stack_)
               PROVE  cond_stack_[j].this_active
    OBVIOUS
  <2>1. cond_stack_ # << >>
    BY DEF CondInv
  <2>2. Last(cond_stack_).this_active
    BY <2>1 DEF is_active
  <2>3. Last(cond_stack_) = cond_stack_[Len(cond_stack_)]
          /\ Len(cond_stack_) \in DOMAIN cond_stack_ /\ Len(cond_stack_) \in Nat
    BY <2>1, LastAndFront, Zenon DEF CondInv
  <2>4. \A i \in 1 .. Len(cond_stack_) - 1 : cond_stack_[i].this_active
    BY <2>2, <2>3 DEF CondInv, Nested
  <2>5. j = Len(cond_stack_) \/ j \in 1 .. Len(cond_stack_) - 1
    BY <2>3
  <2> QED BY <2>2, <2>3, <2>4, <2>5
<1> HIDE DEF new, active
<1>5. cond_stack_' \in Seq(CondFrame) /\ DOMAIN cond_stack_' = 1 .. Len(cond_stack_) + 1
        /\ cond_stack_'[Len(cond_stack_) + 1] = new
        /\ \A i \in 1 .. Len(cond_stack_) : cond_stack_'[i] = cond_stack_[i]
  BY <1>2, <1>3 DEF CondInv
<1>6. new.this_active => new.parent_active /\ new.any_taken
  BY <1>2, Zenon DEF active
<1>7. Nested(cond_stack_)'
  BY <1>2, <1>4, <1>5, <1>6 DEF Nested, CondInv
<1> QED BY <1>5, <1>7 DEF CondInv

\* handle_elif, handle_else: so is the next branch of the innermost group.
LEMMA BranchKeepsNesting ==
  ASSUME CondInv, GoesOn
  PROVE  /\ CondInv'
         /\ Len(cond_stack_') = Len(cond_stack_)
         /\ \A i \in DOMAIN cond_stack_ :
              cond_stack_[i].any_taken /\ cond_stack_'[i] # cond_stack_[i]
                => ~cond_stack_'[i].this_active
<1> DEFINE n == Len(cond_stack_)
           old == Last(cond_stack_)
<1>1. PICK take \in BOOLEAN, saw \in BOOLEAN :
        SetInnermost([Branch(old, take) EXCEPT !.saw_else = saw])
  BY DEF GoesOn
<1> DEFINE new == [Branch(old, take) EXCEPT !.saw_else = saw]
<1>2. old \in CondFrame /\ old = cond_stack_[n] /\ n \in DOMAIN cond_stack_ /\ n \in Nat \ {0}
        /\ Front(cond_stack_) \in Seq(CondFrame) /\ Len(Front(cond_stack_)) = n - 1
        /\ \A i \in 1 .. n - 1 : Front(cond_stack_)[i] = cond_stack_[i]
  BY LastAndFront DEF GoesOn, CondInv
<1>3. new \in CondFrame /\ new.parent_active = old.parent_active
        /\ new.this_active = (old.parent_active /\ ~old.any_taken /\ take)
        /\ new.any_taken = (old.any_taken \/ (old.parent_active /\ ~old.any_taken /\ take))
  BY <1>2, Zenon DEF Branch, CondFrame
<1>4. cond_stack_' = Append(Front(cond_stack_), new)
  BY <1>1 DEF SetInnermost
<1> HIDE DEF new, old
<1>5. cond_stack_' \in Seq(CondFrame) /\ Len(cond_stack_') = n
        /\ cond_stack_'[n] = new
        /\ \A i \in 1 .. n - 1 : cond_stack_'[i] = cond_stack_[i]
  BY <1>2, <1>3, <1>4
<1>6. new.this_active => new.parent_active /\ new.any_taken
  BY <1>3, Zenon
<1>7. old.parent_active => \A j \in 1 .. n - 1 : cond_stack_[j].this_active
  BY <1>2 DEF CondInv, Nested
<1>8. Nested(cond_stack_)'
  <2> SUFFICES ASSUME NEW i \in 1 .. n
               PROVE  /\ cond_stack_'[i].this_active
                           => cond_stack_'[i].parent_active /\ cond_stack_'[i].any_taken
                      /\ cond_stack_'[i].parent_active
                           => \A j \in 1 .. i - 1 : cond_stack_'[j].this_active
    BY <1>5 DEF Nested
  <2>1. CASE i = n
    BY <2>1, <1>3, <1>5, <1>6, <1>7
  <2>2. CASE i # n
    <3>1. i \in 1 .. n - 1 /\ i \in DOMAIN cond_stack_
      BY <2>2, <1>2 DEF CondInv
    <3>2. \A j \in 1 .. i - 1 : j \in 1 .. n - 1
      BY <3>1, <1>2
    <3>3. cond_stack_'[i] = cond_stack_[i]
            /\ \A j \in 1 .. i - 1 : cond_stack_'[j] = cond_stack_[j]
      BY <3>1, <3>2, <1>5
    <3> QED BY <3>1, <3>3 DEF CondInv, Nested
  <2> QED BY <2>1, <2>2
<1>9. ASSUME NEW i \in DOMAIN cond_stack_, cond_stack_[i].any_taken,
             cond_stack_'[i] # cond_stack_[i]
      PROVE  ~cond_stack_'[i].this_active
  <2>1. i = n
    BY <1>9, <1>5 DEF CondInv
  <2> QED BY <2>1, <1>9, <1>2, <1>3, <1>5, Zenon
<1> QED BY <1>5, <1>8, <1>9 DEF CondInv

\* handle_endif: so are the groups that remain.
LEMMA PopKeepsNesting ==
  ASSUME CondInv, Closes
  PROVE  /\ CondInv'
         /\ \A i \in DOMAIN cond_stack_' : cond_stack_'[i] = cond_stack_[i]
<1>1. /\ cond_stack_' \in Seq(CondFrame) /\ Len(cond_stack_') = Len(cond_stack_) - 1
      /\ \A i \in 1 .. Len(cond_stack_) - 1 : cond_stack_'[i] = cond_stack_[i]
  BY LastAndFront DEF CondInv, Closes
<1> QED BY <1>1 DEF CondInv, Nested

CondAction ==
  /\ \A i \in DOMAIN cond_stack_ \cap DOMAIN cond_stack_' :
       cond_stack_[i].any_taken /\ cond_stack_'[i] # cond_stack_[i]
         => ~cond_stack_'[i].this_active
  /\ \A i, j \in DOMAIN cond_stack_' :
       j < i /\ cond_stack_'[i].this_active => cond_stack_'[j].this_active

\* CondInv is inductive.
LEMMA CondInvIsInductive ==
  ASSUME CondInv, [Next]_vars
  PROVE  CondInv' /\ CondAction
<1>1. CASE UNCHANGED cond_stack_
  BY <1>1 DEF CondInv, Nested, CondAction
<1>2. CASE cond_stack_' = << >>
  BY <1>2 DEF CondInv, Nested, CondAction
<1>3. ASSUME CondInv' PROVE \A i, j \in DOMAIN cond_stack_' :
        j < i /\ cond_stack_'[i].this_active => cond_stack_'[j].this_active
  BY <1>3 DEF CondInv, Nested
<1>4. CASE Opens
  <2>1. PICK take \in BOOLEAN : Push(take)
    BY <1>4 DEF Opens
  <2>2. CondInv' /\ \A i \in DOMAIN cond_stack_ : cond_stack_'[i] = cond_stack_[i]
    BY <2>1, PushKeepsNesting
  <2> QED BY <2>2, <1>3 DEF CondAction
<1>5. CASE GoesOn
  BY <1>5, <1>3, BranchKeepsNesting DEF CondAction
<1>6. CASE Closes
  BY <1>6, <1>3, PopKeepsNesting DEF CondAction
<1>7. CASE UNCHANGED vars
  BY <1>7, <1>1 DEF vars
<1> QED BY <1>1, <1>2, <1>4, <1>5, <1>6, <1>7, CondStep

\* handle_elif, handle_else and handle_endif: a group whose branch was taken never
\* becomes active again, and nothing is active in an inactive group, whatever the
\* nesting and however many #else, #elif and #endif lack their group.
THEOREM GroupsHaveOneBranch == Spec => OneBranchPerGroup
<1>1. Init => CondInv
  BY DEF Init, Start, CondInv, Nested
<1>2. CondInv /\ [Next]_vars => CondInv'
  BY CondInvIsInductive
<1>3. CondInv /\ [Next]_vars => [CondAction]_vars
  BY CondInvIsInductive
<1>4. [][CondAction]_vars => OneBranchPerGroup
  BY DEF CondAction, OneBranchPerGroup
<1> QED BY <1>1, <1>2, <1>3, <1>4, PTL DEF Spec

-----------------------------------------------------------------------------
\* Types

\* What the loop relies on of macro expansion: a text expands to a text.
ExpansionYieldsText ==
  \A t, text, counter :
    IsMacroTable(t) /\ text \in Seq(Token) /\ counter \in Nat
      => expand_line(t, text, counter) \in [text : Seq(Token), counter : Nat]

Frame ==
  [file : Path, line_no : Nat, open : BOOLEAN, text : Seq(Token), extra_lines : Nat,
   saved_voffset : Int, saved_vfile : Path]
OutLine ==
  [k : {"text", "marker", "pragma"}, text : Seq(Token), file : Path, line : Int, extra : Nat]

Files == DOMAIN config.files

TypeInv ==
  /\ WellFormed
  /\ macro_stack_ \in [DOMAIN macro_stack_ -> Seq(MacroDef)]
  /\ include_guard_map_ \in [DOMAIN include_guard_map_ -> Token]
  /\ include_resolve_cache_ \in [DOMAIN include_resolve_cache_ -> Files]
  /\ frames \in Seq(Frame) /\ \A i \in DOMAIN frames : frames[i].file \in Files
  /\ virtual_line_offset_ \in Int /\ virtual_file_ \in Path
  /\ counter_ \in Nat /\ diagnostics \in Nat
  /\ out \in Seq(OutLine)
  /\ interrupted \in BOOLEAN

-----------------------------------------------------------------------------
\* Min of a set of naturals is its least element.
LEMMA LeastOf ==
  ASSUME NEW T \in SUBSET Nat, T # {}
  PROVE  Min(T) \in T /\ \A y \in T : Min(T) <= y
<1>1. PICK m \in T : \A y \in T : <<y, m>> \notin OpToRel(<, Nat)
  BY NatLessThanWellFounded, WFMin, Zenon
<1>2. \A y \in T : ~(y < m)
  BY <1>1, Zenon DEF OpToRel
<1>3. \A y \in T : m <= y
  BY <1>2
<1> QED BY <1>3, Zenon DEF Min

\* Max of a bounded set of naturals is its greatest element.
LEMMA GreatestOf ==
  ASSUME NEW u \in Nat, NEW T \in SUBSET (0 .. u), T # {}
  PROVE  Max(T) \in T /\ \A y \in T : y <= Max(T)
<1> DEFINE B == {k \in Nat : \A y \in T : y <= k}
<1>1. B \in SUBSET Nat /\ u \in B
  OBVIOUS
<1>2. PICK k \in B : \A l \in B : k <= l
  BY <1>1, LeastOf, Zenon
<1>3. k \in T
  <2> SUFFICES ASSUME k \notin T PROVE FALSE
    OBVIOUS
  <2>1. \A y \in T : y <= k - 1
    OBVIOUS
  <2>2. k - 1 \in Nat
    <3>1. PICK y \in T : TRUE
      BY Zenon
    <3> QED BY <2>1, <3>1
  <2> QED BY <1>2, <2>1, <2>2
<1>4. \E x \in T : \A y \in T : x >= y
  <2>1. \A y \in T : k >= y
    OBVIOUS
  <2> QED BY <1>3, <2>1
<1>5. Max(T) \in T /\ \A y \in T : Max(T) >= y
  BY <1>4, Zenon DEF Max
<1> QED BY <1>5

\* The fields of a line by its kind.
LEMMA LineFields ==
  ASSUME NEW l \in SourceLine
  PROVE  /\ l.k \in {"text", "if", "elif", "include"} => l.text \in Seq(Token)
         /\ l.k \in {"ifdef", "ifndef", "undef", "define", "pragma", "_Pragma"} => l.name \in Token
         /\ l.k = "define" => l.macro \in MacroDef
         /\ l.k = "line" => l.number \in Nat /\ l.file \in Path
         /\ l.k = "include" => l.next \in BOOLEAN
  BY DEF SourceLine

\* The innermost activation and those below it.
LEMMA TopFacts ==
  ASSUME TypeInv, frames # << >>
  PROVE  /\ Top \in Frame /\ Top = frames[Len(frames)] /\ Top.file \in Files
         /\ Len(frames) \in Nat \ {0}
         /\ Front(frames) \in Seq(Frame) /\ Len(Front(frames)) = Len(frames) - 1
         /\ \A i \in 1 .. Len(frames) - 1 : Front(frames)[i] = frames[i]
<1>1. frames \in Seq(Frame)
  BY DEF TypeInv
<1>2. /\ Last(frames) \in Frame /\ Last(frames) = frames[Len(frames)]
      /\ Len(frames) \in DOMAIN frames
      /\ Front(frames) \in Seq(Frame) /\ Len(Front(frames)) = Len(frames) - 1
      /\ Len(frames) \in Nat \ {0}
      /\ \A i \in 1 .. Len(frames) - 1 : Front(frames)[i] = frames[i]
  BY <1>1, LastAndFront
<1> QED BY <1>2 DEF TypeInv, Top

\* The types of its fields.
LEMMA TopFields ==
  ASSUME TypeInv, frames # << >>
  PROVE  /\ Top.file \in Files /\ Top.file \in Path
         /\ Top.line_no \in Nat /\ Top.open \in BOOLEAN /\ Top.text \in Seq(Token)
         /\ Top.extra_lines \in Nat
         /\ Top.saved_voffset \in Int /\ Top.saved_vfile \in Path
  BY TopFacts DEF Frame

\* The line that is read next.
LEMMA LineFacts ==
  ASSUME TypeInv, HasLine
  PROVE  /\ frames # << >>
         /\ Source(Top.file) \in Seq(SourceLine)
         /\ line_no \in 1 .. Len(Source(Top.file)) /\ line_no = Top.line_no + 1
         /\ line_no \in DOMAIN Source(Top.file)
         /\ Line = Source(Top.file)[line_no]
         /\ Line \in SourceLine
         /\ vline \in Int /\ vline = Top.line_no + 1 + virtual_line_offset_
<1>1. frames # << >> /\ Top.line_no < Len(Source(Top.file))
  BY DEF HasLine
<1>2. Top.file \in Files /\ Top.line_no \in Nat
  BY <1>1, TopFields
<1>3. Source(Top.file) \in Seq(SourceLine)
  BY <1>2 DEF TypeInv, WellFormed, Files
<1>4. virtual_line_offset_ \in Int
  BY DEF TypeInv
<1> DEFINE src == Source(Top.file)
           n == Top.line_no
<1> HIDE DEF src
<1>5. n + 1 \in 1 .. Len(src) /\ n + 1 \in DOMAIN src /\ src[n + 1] \in SourceLine
  BY <1>1, <1>2, <1>3 DEF src
<1>6. line_no = n + 1 /\ Line = src[n + 1] /\ vline = n + 1 + virtual_line_offset_
  BY DEF line_no, Line, vline, src
<1>7. vline \in Int
  BY <1>2, <1>4, <1>6
<1> QED BY <1>1, <1>3, <1>5, <1>6, <1>7 DEF src

\* The activation after a line that is read and not accumulated.
LEMMA AdvancedFacts ==
  ASSUME TypeInv, HasLine
  PROVE  /\ Advanced \in Frame
         /\ Advanced.file = Top.file /\ Advanced.line_no = Top.line_no + 1
         /\ Advanced.open = Top.open /\ Advanced.text = Top.text
         /\ Advanced.extra_lines = (IF Top.open THEN Top.extra_lines + 1 ELSE Top.extra_lines)
         /\ Advanced.saved_voffset = Top.saved_voffset /\ Advanced.saved_vfile = Top.saved_vfile
<1>1. Top \in Frame /\ line_no = Top.line_no + 1 /\ Top.line_no \in Nat /\ Top.extra_lines \in Nat
  BY LineFacts, TopFacts, TopFields
<1>2. Top.line_no + 1 \in Nat /\ Top.extra_lines + 1 \in Nat
  BY <1>1
<1>3. PICK n : n = Top.line_no + 1
  OBVIOUS
<1>4. PICK e : e = IF Top.open THEN Top.extra_lines + 1 ELSE Top.extra_lines
  OBVIOUS
<1>5. n \in Nat
  BY <1>2, <1>3
<1>6. e \in Nat
  BY <1>1, <1>2, <1>4
<1>7. Advanced = [Top EXCEPT !.line_no = n, !.extra_lines = e]
  BY <1>1, <1>3, <1>4 DEF Advanced, Accumulating
<1>8. Top \in Frame
  BY <1>1
<1>9. /\ Advanced \in Frame
      /\ Advanced.file = Top.file /\ Advanced.line_no = n
      /\ Advanced.open = Top.open /\ Advanced.text = Top.text
      /\ Advanced.extra_lines = e
      /\ Advanced.saved_voffset = Top.saved_voffset /\ Advanced.saved_vfile = Top.saved_vfile
  BY ONLY <1>5, <1>6, <1>7, <1>8, Zenon DEF Frame
<1> QED BY <1>3, <1>4, <1>9

-----------------------------------------------------------------------------
\* Include search

\* A search fails, or finds a file in one of the directories.
LEMMA SearchFinds ==
  ASSUME NEW dirs, Len(dirs) \in Nat, NEW from \in Nat \ {0}, NEW rel
  PROVE  \/ Search(dirs, from, rel) = << >>
         \/ \E at \in from .. Len(dirs) :
              /\ Search(dirs, from, rel) = Append(dirs[at], rel)
              /\ Exists(Append(dirs[at], rel))
<1> DEFINE I == {i \in from .. Len(dirs) : Exists(Append(dirs[i], rel))}
           at == IF I # {} THEN Min(I) ELSE 0
<1>1. Search(dirs, from, rel) = IF at = 0 THEN << >> ELSE Append(dirs[at], rel)
  BY DEF Search, SelectInSubSeq
<1>2. CASE I = {}
  BY <1>1, <1>2
<1>3. CASE I # {}
  <2>1. I \in SUBSET Nat
    OBVIOUS
  <2>2. Min(I) \in I
    BY <1>3, <2>1, LeastOf, Zenon
  <2>3. Min(I) # 0
    BY <2>2
  <2>4. Search(dirs, from, rel) = Append(dirs[Min(I)], rel)
    BY <1>1, <1>3, <2>3
  <2> QED BY <2>2, <2>4, Zenon
<1> QED BY <1>2, <1>3

\* The first of the positions I of a sequence of length n, 0 if there is none.
LEMMA FirstOf ==
  ASSUME NEW n \in Nat, NEW I \in SUBSET (1 .. n), NEW v, v = IF I # {} THEN Min(I) ELSE 0
  PROVE  /\ v \in 0 .. n
         /\ v # 0 => v \in I
         /\ \A i \in I : v # 0 /\ v <= i
<1>1. I \in SUBSET Nat
  OBVIOUS
<1>2. CASE I = {}
  BY <1>2
<1>3. CASE I # {}
  <2>1. v \in I /\ \A y \in I : v <= y
    BY <1>1, <1>3, LeastOf
  <2> QED BY <2>1
<1> QED BY <1>2, <1>3

\* t is s with g after it, or with g in the place of its last element.
Pushed(S, s, g, t) ==
  /\ t \in Seq(S) /\ Len(t) = Len(s) + 1 /\ t # << >>
  /\ Last(t) = g /\ t[Len(s) + 1] = g /\ Front(t) = s
  /\ \A i \in 1 .. Len(s) : t[i] = s[i]
Replaced(S, s, g, t) ==
  /\ t \in Seq(S) /\ Len(t) = Len(s) /\ t # << >>
  /\ Last(t) = g /\ t[Len(s)] = g /\ Front(t) = Front(s)
  /\ \A i \in 1 .. Len(s) - 1 : t[i] = s[i]

\* Append adds a last element.
LEMMA PushTop ==
  ASSUME NEW S, NEW s \in Seq(S), NEW g \in S
  PROVE  Pushed(S, s, g, Append(s, g))
  BY DEF Front, Last, Pushed

\* Append after Front replaces the last element.
LEMMA ReplaceTop ==
  ASSUME NEW S, NEW s \in Seq(S), s # << >>, NEW g \in S
  PROVE  Replaced(S, s, g, Append(Front(s), g))
<1> DEFINE f == Front(s)
           t == Append(f, g)
<1>1. /\ f \in Seq(S) /\ Len(f) = Len(s) - 1 /\ Len(s) \in Nat \ {0}
      /\ \A i \in 1 .. Len(s) - 1 : f[i] = s[i]
  BY LastAndFront
<1>2. Pushed(S, f, g, t)
  BY <1>1, PushTop
<1> HIDE DEF f, t
<1>3. Len(f) + 1 = Len(s)
  BY <1>1
<1>4. Replaced(S, s, g, t)
  <2>1. Len(t) = Len(s) /\ t[Len(s)] = g
    BY <1>2, <1>3 DEF Pushed
  <2>2. \A i \in 1 .. Len(s) - 1 : t[i] = s[i]
    BY <1>1, <1>2, Zenon DEF Pushed
  <2> QED BY <1>2, <2>1, <2>2 DEF Pushed, Replaced, f
<1> QED BY <1>4 DEF f, t

-----------------------------------------------------------------------------
\* The directories searched

\* The directories searched are paths.
LEMMA SearchDirsFacts ==
  ASSUME TypeInv, NEW file \in Path, NEW quoted \in BOOLEAN, NEW next \in BOOLEAN
  PROVE  SearchDirs(file, quoted, next) \in Seq(Path)
<1>1. config.quote \in Seq(Path) /\ config.normal \in Seq(Path)
        /\ config.system \in Seq(Path) /\ config.after \in Seq(Path)
  BY DEF TypeInv, WellFormed
<1>2. Front(file) \in Path
  BY DEF Front, Path
<1> DEFINE a == IF quoted /\ ~next THEN <<Front(file)>> ELSE << >>
           b == IF quoted THEN config.quote ELSE << >>
<1>3. a \in Seq(Path) /\ b \in Seq(Path)
  BY <1>1, <1>2
<1>4. SearchDirs(file, quoted, next) = a \o b \o config.normal \o config.system \o config.after
  BY DEF SearchDirs
<1> HIDE DEF a, b
<1> QED BY <1>1, <1>3, <1>4

\* The search starts at a positive index.
LEMMA StartIndexFacts ==
  ASSUME NEW dirs, Len(dirs) \in Nat, NEW file, NEW next \in BOOLEAN
  PROVE  StartIndex(dirs, file, next) \in Nat \ {0}
<1> DEFINE I == {i \in 1 .. Len(dirs) :
                   (dirs[i] # << >> /\ IsStrictPrefix(dirs[i], file)) \/ dirs[i] = Front(file)}
           v == IF I # {} THEN Min(I) ELSE 0
<1>1. StartIndex(dirs, file, next) = IF next THEN v + 1 ELSE 1
  BY DEF StartIndex, SelectInSeq
<1>2. v \in 0 .. Len(dirs)
  <2>1. I \in SUBSET (1 .. Len(dirs))
    OBVIOUS
  <2> QED BY <2>1, FirstOf
<1> HIDE DEF v
<1> QED BY <1>1, <1>2

\* A name is not both quoted and angled.
LEMMA OperandKinds ==
  ASSUME NEW operand, IsOperand(operand)
  PROVE  IsQuoted(operand) \in BOOLEAN /\ IsQuoted(operand) = ~IsAngle(operand)
  BY DEF IsOperand, IsQuoted, IsAngle

\* A name resolves to nothing or to a file that exists.
LEMMA FreshResolveFinds ==
  ASSUME TypeInv, NEW operand, NEW file \in Path, NEW next \in BOOLEAN
  PROVE  LET dirs == SearchDirs(file, IsQuoted(operand), next)
             r == FreshResolve(operand, file, next)
         IN  \/ r = << >>
             \/ \E at \in StartIndex(dirs, file, next) .. Len(dirs) :
                  r = Append(dirs[at], operand[2]) /\ Exists(r)
<1> DEFINE dirs == SearchDirs(file, IsQuoted(operand), next)
           from == StartIndex(dirs, file, next)
<1>1. IsQuoted(operand) \in BOOLEAN
  BY DEF IsQuoted
<1>2. dirs \in Seq(Path)
  BY <1>1, SearchDirsFacts
<1>3. Len(dirs) \in Nat
  BY <1>2
<1>4. from \in Nat \ {0}
  BY <1>3, StartIndexFacts
<1>5. FreshResolve(operand, file, next) = Search(dirs, from, operand[2])
  BY DEF FreshResolve
<1> HIDE DEF dirs, from
<1>6. \/ Search(dirs, from, operand[2]) = << >>
      \/ \E at \in from .. Len(dirs) :
           /\ Search(dirs, from, operand[2]) = Append(dirs[at], operand[2])
           /\ Exists(Append(dirs[at], operand[2]))
  BY <1>3, <1>4, SearchFinds
<1> QED BY <1>5, <1>6, Zenon DEF dirs, from

\* So it does with the cache.
LEMMA ResolvedIsFile ==
  ASSUME TypeInv, NEW operand, NEW file \in Path, NEW next \in BOOLEAN
  PROVE  Resolve(operand, file, next) = << >> \/ Resolve(operand, file, next) \in Files
<1>1. FreshResolve(operand, file, next) = << >> \/ Exists(FreshResolve(operand, file, next))
  BY FreshResolveFinds, Zenon
<1>2. FreshResolve(operand, file, next) = << >> \/ FreshResolve(operand, file, next) \in Files
  BY <1>1 DEF Exists, Files
<1>3. \A key \in DOMAIN include_resolve_cache_ : include_resolve_cache_[key] \in Files
  BY DEF TypeInv
<1> QED BY <1>2, <1>3, Zenon DEF Resolve

-----------------------------------------------------------------------------
\* What a step does to the activations and the output

\* An invocation is interrupted by any line of its kind but the _Pragma operator.
Interrupts == Accumulating => Line.k # "_Pragma"

LeavesBlank == HasLine /\ Interrupts /\ ReadLine /\ Emit(<<Blank>>) /\ UNCHANGED location
LeavesPragma ==
  /\ HasLine /\ Line.k \in {"pragma", "_Pragma"} /\ ReadLine /\ UNCHANGED location
  /\ \/ Interrupts /\ Emit(PragmaLines)
     \/ Accumulating /\ Line.k = "_Pragma" /\ Emit(<< >>)
Enters(path) == HasLine /\ Line.k = "include" /\ path \in Files /\ EnterFile(path)

Operand ==
  IF Line.text = << >> \/ IsOperand(Line.text) THEN Line.text ELSE Expand(Line.text).text
Resolved == Resolve(Operand, Top.file, Line.next)

IncludeEffect ==
  \/ /\ ~IsOperand(Operand)
        \/ (Resolved = << >> /\ Operand[2] \notin DOMAIN config.builtin)
        \/ (Resolved # << >> /\ Operand[2] \in config.cxx_headers)
     /\ IncludeFails /\ UNCHANGED include_guard_map_
  \/ /\ IsOperand(Operand) /\ Resolved = << >> /\ Operand[2] \in DOMAIN config.builtin
     /\ EnterFile(config.builtin[Operand[2]]) /\ UNCHANGED include_guard_map_
  \/ /\ IsOperand(Operand) /\ Resolved # << >>
     /\ Resolved \in pragma_once_files_ \/ Guarded(Resolved)
     /\ IncludeSkipped /\ UNCHANGED include_guard_map_
  \/ /\ IsOperand(Operand) /\ Resolved # << >>
     /\ ~(Resolved \in pragma_once_files_ \/ Guarded(Resolved))
     /\ EnterFile(Resolved)
     /\ include_guard_map_' =
          IF \/ Resolved \in DOMAIN include_guard_map_
             \/ detect_include_guard(Source(Resolved)) = ""
          THEN include_guard_map_
          ELSE With(include_guard_map_, Resolved, detect_include_guard(Source(Resolved)))

\* handle_include by the outcome of the resolution.
LEMMA IncludeStep ==
  ASSUME handle_include
  PROVE  /\ HasLine /\ Line.k = "include" /\ is_active
         /\ IncludeEffect
         /\ include_resolve_cache_' =
              IF ~IsOperand(Operand) \/ Line.next \/ Resolved = << >>
              THEN include_resolve_cache_
              ELSE With(include_resolve_cache_, CacheKey(Operand, Top.file), Resolved)
         /\ UNCHANGED <<fixed, table, cond_stack_, pragma_once_files_>>
         /\ counter_' \in {counter_, Expand(Line.text).counter}
<1>1. HasLine /\ Line.k = "include" /\ is_active
      /\ UNCHANGED <<fixed, table, cond_stack_, pragma_once_files_>>
  BY Zenon DEF handle_include
<1>2. include_resolve_cache_' =
        IF ~IsOperand(Operand) \/ Line.next \/ Resolved = << >>
        THEN include_resolve_cache_
        ELSE With(include_resolve_cache_, CacheKey(Operand, Top.file), Resolved)
  BY Zenon DEF handle_include, Operand, Resolved
<1>3. counter_' \in {counter_, Expand(Line.text).counter}
  BY Zenon DEF handle_include
<1>4. CASE ~IsOperand(Operand)
  BY <1>4, Zenon DEF handle_include, IncludeEffect, Operand, Resolved
<1>5. CASE IsOperand(Operand) /\ Resolved = << >>
  BY <1>5, Zenon DEF handle_include, IncludeEffect, Operand, Resolved
<1>6. CASE IsOperand(Operand) /\ Resolved # << >>
  BY <1>6, Zenon DEF handle_include, IncludeEffect, Operand, Resolved
<1> QED BY <1>1, <1>2, <1>3, <1>4, <1>5, <1>6

\* handle_include leaves a blank line or enters a file.
LEMMA IncludeLoops ==
  ASSUME TypeInv, handle_include
  PROVE  LeavesBlank \/ \E path : Enters(path)
<1>1. HasLine /\ Line.k = "include" /\ IncludeEffect
  BY IncludeStep
<1>2. Line.next \in BOOLEAN /\ Top.file \in Path
  BY <1>1, LineFacts, LineFields, TopFields
<1>3. Resolved = << >> \/ Resolved \in Files
  BY <1>2, ResolvedIsFile DEF Resolved
<1>4. \A rel \in DOMAIN config.builtin : config.builtin[rel] \in Files
  BY DEF TypeInv, WellFormed, Files
<1>5. Interrupts
  <2>1. "include" # "_Pragma"
    OBVIOUS
  <2> QED BY <1>1, <2>1 DEF Interrupts
<1>6. CASE IncludeFails \/ IncludeSkipped
  BY <1>1, <1>5, <1>6, Zenon DEF IncludeFails, IncludeSkipped, LeavesBlank
<1>7. CASE Resolved # << >> /\ EnterFile(Resolved)
  BY <1>1, <1>3, <1>7 DEF Enters
<1>8. CASE Operand[2] \in DOMAIN config.builtin /\ EnterFile(config.builtin[Operand[2]])
  BY <1>1, <1>4, <1>8, Zenon DEF Enters
<1> QED BY <1>1, <1>6, <1>7, <1>8, Zenon DEF IncludeEffect

\* One turn of the loop in preprocess_text, by what it emits.
LEMMA LoopStep ==
  ASSUME TypeInv, Next
  PROVE  \/ preprocess_file \/ EndOfText
         \/ LeavesBlank \/ LeavesPragma \/ handle_line
         \/ \E path : Enters(path)
         \/ PlainText \/ StartInvocation \/ ContinueInvocation
<1> DEFINE Kinds == {"ifdef", "ifndef", "if", "elif", "else", "endif",
                     "define", "undef", "error", "pragma"}
<1>1. \A k \in Kinds :
        Directive(k) => HasLine /\ Interrupts /\ ReadLine
  <2>1. \A k \in Kinds : k # "_Pragma"
    OBVIOUS
  <2> QED BY <2>1 DEF Directive, Interrupts
<1>2. CASE handle_ifdef \/ handle_if \/ handle_elif \/ handle_else \/ handle_endif
  BY <1>1, <1>2, Zenon DEF handle_ifdef, handle_if, handle_elif, handle_else, handle_endif,
     LeavesBlank
<1>3. CASE handle_define \/ handle_undef \/ Diagnose
  BY <1>1, <1>3, Zenon DEF handle_define, handle_undef, Diagnose, LeavesBlank
<1>4. CASE SkipDirective
  BY <1>4 DEF SkipDirective, Directive, LeavesBlank, Interrupts
<1>5. CASE handle_pragma
  BY <1>1, <1>5 DEF handle_pragma, Pragma, Directive, LeavesPragma, location
<1>6. CASE process_pragma_text
  BY <1>6 DEF process_pragma_text, Pragma, Directive, LeavesPragma, Interrupts, location
<1>7. CASE handle_include
  BY <1>7, IncludeLoops
<1>8. CASE InactiveText
  BY <1>8 DEF InactiveText, LeavesBlank, Interrupts, Unaffected
<1> QED BY <1>2, <1>3, <1>4, <1>5, <1>6, <1>7, <1>8 DEF Next

-----------------------------------------------------------------------------
\* The types are kept

\* The types of a text in the output.
LEMMA TextTypes ==
  ASSUME TypeInv, NEW text \in Seq(Token), NEW n \in Int, NEW e \in Nat
  PROVE  Text(text, n, e) \in OutLine
<1>1. virtual_file_ \in Path
  BY DEF TypeInv
<1> QED BY <1>1, Zenon DEF Text, OutLine

\* The same for a marker.
LEMMA MarkerTypes ==
  ASSUME NEW n \in Int, NEW file \in Path
  PROVE  Marker(file, n) \in OutLine
<1>1. << >> \in Seq(Token) /\ 0 \in Nat
  OBVIOUS
<1> QED BY <1>1, Zenon DEF Marker, OutLine

\* The empty text.
LEMMA EmptyText == << >> \in Seq(Token)
  OBVIOUS

\* The types of the line a directive leaves.
LEMMA LineOut ==
  ASSUME TypeInv, HasLine
  PROVE  Blank \in OutLine /\ Preserved \in OutLine
<1>1. vline \in Int /\ virtual_file_ \in Path /\ 0 \in Nat
  BY LineFacts DEF TypeInv
<1> QED BY <1>1, EmptyText, TextTypes, Zenon DEF Blank, Preserved, OutLine

\* The type of the output after a step.
LEMMA EmitTypes ==
  ASSUME out \in Seq(OutLine), NEW lines \in Seq(OutLine), Emit(lines)
  PROVE  out' \in Seq(OutLine)
  BY DEF Emit

FramesOK == frames \in Seq(Frame) /\ \A i \in DOMAIN frames : frames[i].file \in Files
LoopTypes ==
  /\ FramesOK
  /\ virtual_line_offset_ \in Int /\ virtual_file_ \in Path
  /\ out \in Seq(OutLine)
  /\ interrupted \in BOOLEAN

\* The types of the activations when the innermost one goes on.
LEMMA ReplacedFrames ==
  ASSUME TypeInv, frames # << >>, config' = config, NEW g \in Frame, g.file \in Files,
         frames' = Append(Front(frames), g)
  PROVE  FramesOK'
<1>1. frames \in Seq(Frame) /\ \A i \in DOMAIN frames : frames[i].file \in Files
  BY DEF TypeInv
<1>0. Replaced(Frame, frames, g, frames')
  BY <1>1, ReplaceTop
<1>2. /\ frames' \in Seq(Frame) /\ Len(frames') = Len(frames) /\ frames'[Len(frames)] = g
      /\ \A i \in 1 .. Len(frames) - 1 : frames'[i] = frames[i]
  BY <1>0 DEF Replaced
<1>3. \A i \in DOMAIN frames' :
        i \in DOMAIN frames /\ (i = Len(frames) \/ i \in 1 .. Len(frames) - 1)
  BY <1>1, <1>2
<1>4. Files' = Files
  BY DEF Files
<1>5. \A i \in DOMAIN frames' : frames'[i].file \in Files
  BY <1>1, <1>2, <1>3
<1> QED BY <1>2, <1>4, <1>5 DEF FramesOK

\* The types of the activations when a file is entered.
LEMMA PushedFrames ==
  ASSUME TypeInv, frames # << >>, config' = config,
         NEW f \in Frame, f.file \in Files, NEW g \in Frame, g.file \in Files,
         frames' = Append(Append(Front(frames), f), g)
  PROVE  FramesOK'
<1>1. PICK mid : mid = Append(Front(frames), f)
  BY Zenon
<1>2. frames \in Seq(Frame) /\ \A i \in DOMAIN frames : frames[i].file \in Files
  BY DEF TypeInv
<1>3. /\ mid \in Seq(Frame) /\ Len(mid) = Len(frames) /\ mid[Len(frames)] = f
      /\ \A i \in 1 .. Len(frames) - 1 : mid[i] = frames[i]
  <2>1. Replaced(Frame, frames, f, mid)
    BY <1>1, <1>2, ReplaceTop
  <2> QED BY <2>1 DEF Replaced
<1>4. frames' = Append(mid, g)
  BY <1>1
<1>5. /\ frames' \in Seq(Frame) /\ Len(frames') = Len(mid) + 1 /\ frames'[Len(mid) + 1] = g
      /\ \A i \in 1 .. Len(mid) : frames'[i] = mid[i]
  <2>1. Pushed(Frame, mid, g, frames')
    BY <1>3, <1>4, PushTop
  <2> QED BY <2>1 DEF Pushed
<1>6. \A i \in DOMAIN frames' : \/ i = Len(mid) + 1
                                \/ i \in 1 .. Len(mid) /\ i = Len(frames)
                                \/ /\ i \in 1 .. Len(mid) /\ i \in DOMAIN frames
                                   /\ i \in 1 .. Len(frames) - 1
  BY <1>2, <1>3, <1>5
<1>7. Files' = Files
  BY DEF Files
<1>8. \A i \in DOMAIN frames' : frames'[i].file \in Files
  BY <1>2, <1>3, <1>5, <1>6, Zenon
<1> QED BY <1>5, <1>7, <1>8 DEF FramesOK

\* The types after a line is read.
LEMMA ReadLineTypes ==
  ASSUME TypeInv, HasLine, ReadLine, config' = config
  PROVE  FramesOK' /\ interrupted' \in BOOLEAN
<1>1. frames # << >> /\ Advanced \in Frame /\ Advanced.file \in Files
  BY LineFacts, AdvancedFacts, TopFields
<1>2. FramesOK'
  BY <1>1, ReplacedFrames DEF ReadLine
<1>3. interrupted' \in BOOLEAN
  BY DEF ReadLine, Interrupt
<1> QED BY <1>2, <1>3

\* The activation of a file that is entered.
LEMMA NewFrameTypes ==
  ASSUME TypeInv, NEW path \in Files
  PROVE  /\ NewFrame(path) \in Frame /\ NewFrame(path).file = path
         /\ NewFrame(path).line_no = 0 /\ NewFrame(path).open = FALSE
         /\ NewFrame(path).saved_voffset = virtual_line_offset_
         /\ NewFrame(path).saved_vfile = virtual_file_
<1>1. path \in Path /\ virtual_line_offset_ \in Int /\ virtual_file_ \in Path
  BY DEF TypeInv, WellFormed, Files
<1>2. 0 \in Nat /\ 0 \in Int
  OBVIOUS
<1> QED BY <1>1, <1>2, EmptyText, Zenon DEF NewFrame, Frame

\* Where the text being accumulated goes, and the lines it absorbed.
LEMMA InvocationTypes ==
  ASSUME TypeInv, NEW text \in Seq(Token), NEW line \in Int, NEW n \in Nat
  PROVE  /\ Invocation(text, line, n) \in Seq(OutLine)
         /\ Len(Invocation(text, line, n)) = n + 1
         /\ Invocation(text, line, n)[1] = Text(text, line, n)
         /\ \A i \in 1 .. n : Invocation(text, line, n)[i + 1] = Text(<< >>, line, 0)
<1> DEFINE a == Text(text, line, n)
           L == Text(<< >>, line, 0)
           s == [i \in 1 .. n |-> L]
<1>3. a \in OutLine /\ L \in OutLine
  <2>1. virtual_file_ \in Path /\ 0 \in Nat
    BY DEF TypeInv
  <2> QED BY <2>1, EmptyText, TextTypes, Zenon
<1> HIDE DEF a, L
<1>4. <<a>> \in Seq(OutLine) /\ s \in Seq(OutLine) /\ Len(s) = n
  BY <1>3
<1>5. /\ <<a>> \o s \in Seq(OutLine) /\ Len(<<a>> \o s) = n + 1 /\ (<<a>> \o s)[1] = a
      /\ \A i \in 1 .. n : (<<a>> \o s)[i + 1] = L
  BY <1>3, <1>4
<1> QED BY <1>5 DEF Invocation, a, L

\* A text expands to a text.
LEMMA ExpandTypes ==
  ASSUME ExpansionYieldsText, IsMacroTable(macros_), NEW text \in Seq(Token), NEW c \in Nat
  PROVE  /\ expand_line(macros_, text, c).text \in Seq(Token)
         /\ expand_line(macros_, text, c).counter \in Nat
<1>1. expand_line(macros_, text, c) \in [text : Seq(Token), counter : Nat]
  BY DEF ExpansionYieldsText
<1> QED BY <1>1

\* The activation when an invocation begins.
LEMMA StartInvocationTypes ==
  ASSUME TypeInv, StartInvocation
  PROVE  LET g == [Top EXCEPT !.line_no = line_no, !.open = TRUE, !.text = Line.text,
                              !.extra_lines = 0]
         IN  /\ frames # << >> /\ frames' = Append(Front(frames), g)
             /\ g \in Frame /\ g.file = Top.file /\ g.line_no = Top.line_no + 1
             /\ g.open = TRUE /\ g.extra_lines = 0
             /\ g.saved_voffset = Top.saved_voffset /\ g.saved_vfile = Top.saved_vfile
<1> DEFINE n == line_no
           t == Line.text
           g == [Top EXCEPT !.line_no = n, !.open = TRUE, !.text = t, !.extra_lines = 0]
<1>1. HasLine /\ Line.k = "text" /\ frames' = Append(Front(frames), g)
  BY DEF StartInvocation
<1>2. frames # << >> /\ Line \in SourceLine /\ n = Top.line_no + 1
  BY <1>1, LineFacts
<1>3. t \in Seq(Token) /\ Top \in Frame /\ Top.line_no \in Nat
  BY <1>1, <1>2, LineFields, TopFacts, TopFields
<1>4. n \in Nat
  BY <1>2, <1>3
<1>5. 0 \in Nat
  OBVIOUS
<1> HIDE DEF n, t
<1>6. /\ g \in Frame /\ g.file = Top.file /\ g.line_no = n
      /\ g.open = TRUE /\ g.extra_lines = 0
      /\ g.saved_voffset = Top.saved_voffset /\ g.saved_vfile = Top.saved_vfile
  BY ONLY <1>2, <1>3, <1>4, <1>5, Zenon DEF Frame
<1> QED BY <1>1, <1>2, <1>6, Zenon DEF n, t

\* The activation when an invocation goes on or is complete.
LEMMA ContinueInvocationTypes ==
  ASSUME TypeInv, ContinueInvocation, ExpansionYieldsText
  PROVE  \E g, text :
           /\ frames # << >> /\ frames' = Append(Front(frames), g)
           /\ g \in Frame /\ g.file = Top.file /\ g.line_no = Top.line_no + 1
           /\ g.extra_lines = Top.extra_lines + 1
           /\ g.saved_voffset = Top.saved_voffset /\ g.saved_vfile = Top.saved_vfile
           /\ text \in Seq(Token)
           /\ Emit(IF g.open THEN << >> ELSE Invocation(text, vline, Top.extra_lines + 1))
           /\ counter_' \in Nat
<1> DEFINE expanded == Expand(Line.text)
           text == Top.text \o expanded.text
           whole == expand_line(macros_, text, expanded.counter)
           open == HasUnbalancedParens(text)
           n == line_no
           e == Top.extra_lines + 1
           tx == IF open THEN text ELSE << >>
           g == [Top EXCEPT !.line_no = n, !.open = open, !.text = tx, !.extra_lines = e]
<1>1. HasLine /\ Line.k = "text"
  BY Zenon DEF ContinueInvocation
<1>a. counter_' = IF open THEN expanded.counter ELSE whole.counter
  BY DEF ContinueInvocation
<1>b. out' = out \o (IF open THEN << >> ELSE Invocation(whole.text, vline, Top.extra_lines + 1))
  BY Zenon DEF ContinueInvocation, Emit
<1>2. frames # << >> /\ Line \in SourceLine /\ n = Top.line_no + 1
  BY <1>1, LineFacts, Zenon
<1>3. /\ Line.text \in Seq(Token) /\ Top \in Frame /\ Top.line_no \in Nat
      /\ Top.extra_lines \in Nat /\ Top.text \in Seq(Token)
  BY <1>1, <1>2, LineFields, TopFacts, TopFields
<1>4. frames' = Append(Front(frames), g)
  <2>1. e = Top.extra_lines + 1
    OBVIOUS
  <2> QED BY <1>3, <2>1 DEF ContinueInvocation, Frame
<1>5. IsMacroTable(macros_) /\ counter_ \in Nat
  BY DEF TypeInv, WellFormed
<1>6. expanded.text \in Seq(Token) /\ expanded.counter \in Nat
  BY <1>3, <1>5, ExpandTypes DEF Expand
<1>7. text \in Seq(Token)
  <2> HIDE DEF expanded
  <2> QED BY <1>3, <1>6
<1>8. whole.text \in Seq(Token) /\ whole.counter \in Nat
  BY <1>5, <1>6, <1>7, ExpandTypes, Zenon
<1>9. open \in BOOLEAN /\ n \in Nat /\ e \in Nat
  <2>1. open \in BOOLEAN
    BY DEF HasUnbalancedParens
  <2>2. n \in Nat
    BY <1>2, <1>3
  <2>3. e \in Nat
    BY <1>3
  <2> QED BY <2>1, <2>2, <2>3
<1>10. tx \in Seq(Token)
  BY <1>7, EmptyText, Zenon
<1> HIDE DEF expanded, text, whole, open, n, e, tx
<1>11. /\ g \in Frame /\ g.file = Top.file /\ g.line_no = n /\ g.open = open
       /\ g.extra_lines = e
       /\ g.saved_voffset = Top.saved_voffset /\ g.saved_vfile = Top.saved_vfile
  BY ONLY <1>3, <1>9, <1>10, Zenon DEF Frame
<1>12. g.extra_lines = Top.extra_lines + 1 /\ g.line_no = Top.line_no + 1
  BY <1>2, <1>11 DEF e
<1>13. counter_' \in Nat
  BY <1>a, <1>6, <1>8
<1>14. Emit(IF g.open THEN << >> ELSE Invocation(whole.text, vline, Top.extra_lines + 1))
  <2>1. g.open = open
    BY <1>11
  <2> HIDE DEF g
  <2> QED BY <1>b, <2>1 DEF Emit
<1> HIDE DEF g
<1> QED BY <1>2, <1>4, <1>8, <1>11, <1>12, <1>13, <1>14, Zenon

\* The configuration is fixed, and the files to preprocess are taken in order.
LEMMA FixedStep ==
  ASSUME Next
  PROVE  config' = config /\ (roots' = roots \/ (roots # << >> /\ roots' = Tail(roots)))
<1>1. UNCHANGED fixed => config' = config /\ roots' = roots
  BY DEF fixed
<1>2. CASE preprocess_file
  BY <1>2 DEF preprocess_file
<1>3. CASE handle_ifdef \/ handle_if \/ handle_elif \/ handle_else \/ handle_endif
  BY <1>1, <1>3, Zenon DEF handle_ifdef, handle_if, handle_elif, handle_else, handle_endif,
     Directive
<1>4. CASE SkipDirective \/ handle_define \/ handle_undef \/ Diagnose \/ handle_pragma
             \/ process_pragma_text \/ handle_line
  BY <1>1, <1>4, Zenon DEF SkipDirective, handle_define, handle_undef, Diagnose, handle_pragma,
     process_pragma_text, handle_line, Directive
<1>5. CASE handle_include
  BY <1>1, <1>5, Zenon DEF handle_include
<1>6. CASE InactiveText \/ PlainText \/ StartInvocation \/ ContinueInvocation \/ EndOfText
  BY <1>1, <1>6 DEF InactiveText, PlainText, StartInvocation, ContinueInvocation, EndOfText,
     Unaffected
<1> QED BY <1>2, <1>3, <1>4, <1>5, <1>6 DEF Next

\* An entry added to a map.
LEMMA WithTypes ==
  ASSUME NEW S, NEW f, f \in [DOMAIN f -> S], NEW x, NEW v \in S
  PROVE  With(f, x, v) \in [DOMAIN With(f, x, v) -> S] /\ DOMAIN With(f, x, v) = DOMAIN f \cup {x}
  BY DEF With

\* An entry removed from a map.
LEMMA WithoutTypes ==
  ASSUME NEW S, NEW f, f \in [DOMAIN f -> S], NEW x
  PROVE  Without(f, x) \in [DOMAIN Without(f, x) -> S] /\ DOMAIN Without(f, x) = DOMAIN f \ {x}
  BY DEF Without

\* A definition added to the macro table.
LEMMA TableWith ==
  ASSUME IsMacroTable(macros_), NEW x \in Token, NEW v \in MacroDef
  PROVE  IsMacroTable(With(macros_, x, v)) /\ IsMacroTable(Without(macros_, x))
<1>1. macros_ \in [DOMAIN macros_ -> MacroDef] /\ DOMAIN macros_ \subseteq Token
  BY DEF IsMacroTable
<1>2. With(macros_, x, v) \in [DOMAIN With(macros_, x, v) -> MacroDef]
  BY <1>1, WithTypes, Zenon
<1>a. DOMAIN With(macros_, x, v) = DOMAIN macros_ \cup {x}
  BY DEF With
<1>3. /\ Without(macros_, x) \in [DOMAIN Without(macros_, x) -> MacroDef]
      /\ DOMAIN Without(macros_, x) = DOMAIN macros_ \ {x}
  BY <1>1, WithoutTypes, Zenon
<1>4. DOMAIN With(macros_, x, v) \subseteq Token /\ DOMAIN Without(macros_, x) \subseteq Token
  BY <1>1, <1>a, <1>3
<1> QED BY <1>2, <1>3, <1>4 DEF IsMacroTable

StackOK == macro_stack_ \in [DOMAIN macro_stack_ -> Seq(MacroDef)]
TableOK == IsMacroTable(macros_) /\ StackOK

\* push_macro and pop_macro keep the types of the table and its stack.
LEMMA PragmaTable ==
  ASSUME TypeInv, HasLine, Line.k \in {"pragma", "_Pragma"}, NEW file, Pragma(file)
  PROVE  TableOK'
<1> DEFINE name == Line.name
<1>1. Line \in SourceLine /\ name \in Token
  BY LineFacts, LineFields
<1>2. IsMacroTable(macros_) /\ macro_stack_ \in [DOMAIN macro_stack_ -> Seq(MacroDef)]
  BY DEF TypeInv, WellFormed
<1>3. Undefined \in MacroDef
  <2>1. "<undefined>" \in Token
    BY TokenAssumption
  <2>2. <<"<undefined>">> \in Seq(Token)
    BY <2>1
  <2> QED BY <2>2 DEF Undefined, MacroDef
<1>4. Saved(name) \in Seq(MacroDef)
  <2>1. << >> \in Seq(MacroDef)
    OBVIOUS
  <2> QED BY <1>2, <2>1 DEF Saved
<1>5. CASE UNCHANGED table
  BY <1>2, <1>5, Zenon DEF table, TableOK, StackOK
<1>6. CASE PushMacro(name)
  <2> DEFINE m == IF name \in DOMAIN macros_ THEN macros_[name] ELSE Undefined
  <2>1. m \in MacroDef
    BY <1>2, <1>3 DEF IsMacroTable
  <2>2. Append(Saved(name), m) \in Seq(MacroDef)
    <3> HIDE DEF m
    <3> QED BY <1>4, <2>1
  <2>3. /\ macro_stack_' = With(macro_stack_, name, Append(Saved(name), m))
        /\ macros_' = macros_
    BY <1>6 DEF PushMacro
  <2>4. StackOK'
    BY <1>2, <2>2, <2>3, WithTypes, Zenon DEF StackOK
  <2> QED BY <1>2, <2>3, <2>4 DEF TableOK
<1>7. CASE PopMacro(name) /\ Saved(name) # << >>
  <2>1. Last(Saved(name)) \in MacroDef /\ Front(Saved(name)) \in Seq(MacroDef)
    BY <1>4, <1>7, LastAndFront
  <2>2. /\ macro_stack_' = With(macro_stack_, name, Front(Saved(name)))
        /\ \/ macros_' = Without(macros_, name)
           \/ macros_' = With(macros_, name, Last(Saved(name)))
    BY <1>7 DEF PopMacro
  <2>3. StackOK'
    BY <1>2, <2>1, <2>2, WithTypes, Zenon DEF StackOK
  <2>4. IsMacroTable(macros_')
    BY <1>1, <1>2, <2>1, <2>2, TableWith, Zenon
  <2> QED BY <2>3, <2>4, Zenon DEF TableOK, IsMacroTable
<1>8. PushMacro(name) \/ PopMacro(name) \/ UNCHANGED table
  BY DEF Pragma
<1> QED BY <1>5, <1>6, <1>7, <1>8 DEF PopMacro

\* Every step keeps the types of the macro table and its stack.
LEMMA TableStep ==
  ASSUME TypeInv, Next
  PROVE  TableOK'
<1>1. UNCHANGED table => TableOK'
  BY DEF table, TableOK, StackOK, TypeInv, WellFormed
<1>2. IsMacroTable(macros_) /\ StackOK
  BY DEF TypeInv, WellFormed, StackOK
<1>3. CASE preprocess_file \/ handle_ifdef \/ handle_if \/ handle_elif \/ handle_else
             \/ handle_endif
  BY <1>1, <1>3, Zenon DEF preprocess_file, handle_ifdef, handle_if, handle_elif, handle_else,
     handle_endif
<1>4. CASE SkipDirective \/ Diagnose \/ handle_line \/ handle_include
  BY <1>1, <1>4, Zenon DEF SkipDirective, Diagnose, handle_line, handle_include
<1>5. CASE InactiveText \/ PlainText \/ StartInvocation \/ ContinueInvocation \/ EndOfText
  BY <1>1, <1>5 DEF InactiveText, PlainText, StartInvocation, ContinueInvocation, EndOfText,
     Unaffected
<1>6. CASE handle_define
  <2>1. HasLine /\ Line.k = "define" /\ macros_' = With(macros_, Line.name, Line.macro)
        /\ macro_stack_' = macro_stack_
    BY <1>6 DEF handle_define, Directive
  <2>2. Line.name \in Token /\ Line.macro \in MacroDef
    BY <2>1, LineFacts, LineFields
  <2>3. IsMacroTable(macros_')
    BY <1>2, <2>1, <2>2, TableWith
  <2> QED BY <1>2, <2>1, <2>3 DEF TableOK, StackOK, IsMacroTable
<1>7. CASE handle_undef
  <2>1. HasLine /\ Line.k = "undef" /\ macros_' = Without(macros_, Line.name)
        /\ macro_stack_' = macro_stack_
    BY <1>7 DEF handle_undef, Directive
  <2>2. Line.name \in Token
    BY <2>1, LineFacts, LineFields
  <2>3. macros_ \in [DOMAIN macros_ -> MacroDef] /\ DOMAIN macros_ \subseteq Token
    BY <1>2 DEF IsMacroTable
  <2>4. /\ Without(macros_, Line.name) \in [DOMAIN Without(macros_, Line.name) -> MacroDef]
        /\ DOMAIN Without(macros_, Line.name) = DOMAIN macros_ \ {Line.name}
    BY <2>3, WithoutTypes, Zenon
  <2>5. DOMAIN Without(macros_, Line.name) \subseteq Token
    BY <2>3, <2>4
  <2> QED BY <1>2, <2>1, <2>4, <2>5 DEF TableOK, StackOK, IsMacroTable
<1>8. CASE handle_pragma \/ process_pragma_text
  BY <1>8, PragmaTable DEF handle_pragma, process_pragma_text, Directive
<1> QED BY <1>3, <1>4, <1>5, <1>6, <1>7, <1>8 DEF Next

\* defined and __has_include leave a text.
LEMMA IntrinsicTypes ==
  ASSUME NEW text \in Seq(Token)
  PROVE  Intrinsic(text) \in Seq(Token)
<1>1. "0" \in Token /\ "1" \in Token
  BY TokenAssumption
<1>2. <<"0">> \in Seq(Token) /\ <<"1">> \in Seq(Token)
  BY <1>1
<1>3. Intrinsic(text) \in {<<"0">>, <<"1">>, text}
  BY DEF Intrinsic
<1> QED BY <1>2, <1>3, Zenon

\* Every step keeps the type of counter_.
LEMMA CounterStep ==
  ASSUME TypeInv, Next, ExpansionYieldsText
  PROVE  counter_' \in Nat
<1>1. counter_ \in Nat /\ IsMacroTable(macros_)
  BY DEF TypeInv, WellFormed
<1>2. \A text \in Seq(Token) : Expand(text).counter \in Nat
  BY <1>1, ExpandTypes DEF Expand
<1>3. \A text \in Seq(Token) : evaluate_if_expr(text).counter \in Nat
  BY <1>2, IntrinsicTypes DEF evaluate_if_expr
<1>4. HasLine /\ Line.k \in {"text", "if", "elif", "include"} => Line.text \in Seq(Token)
  BY LineFacts, LineFields
<1>5. CASE UNCHANGED counter_
  BY <1>1, <1>5
<1>6. CASE preprocess_file
  <2>1. counter_' = 0
    BY <1>6 DEF preprocess_file
  <2> QED BY <2>1
<1>7. CASE handle_if
  BY <1>3, <1>4, <1>7 DEF handle_if, Directive
<1>8. CASE handle_elif
  <2>1. HasLine /\ Line.k = "elif"
    BY <1>8 DEF handle_elif, Directive
  <2>2. counter_' = counter_ \/ counter_' = evaluate_if_expr(Line.text).counter
    BY <1>8 DEF handle_elif
  <2> QED BY <1>1, <1>3, <1>4, <2>1, <2>2
<1>9. CASE handle_include
  <2>1. HasLine /\ Line.k = "include" /\ counter_' \in {counter_, Expand(Line.text).counter}
    BY <1>9, IncludeStep
  <2> QED BY <1>1, <1>2, <1>4, <2>1
<1>10. CASE PlainText
  BY <1>2, <1>4, <1>10 DEF PlainText
<1>11. CASE ContinueInvocation
  BY <1>11, ContinueInvocationTypes
<1>12. CASE EndOfText
  <2>1. frames # << >> /\ (counter_' = counter_ \/ counter_' = Expand(Top.text).counter)
    BY <1>12 DEF EndOfText
  <2>2. Top.text \in Seq(Token)
    BY <2>1, TopFields, Zenon
  <2> QED BY <1>1, <1>2, <2>1, <2>2
<1>13. CASE handle_ifdef \/ handle_else \/ handle_endif \/ SkipDirective \/ handle_define
              \/ handle_undef \/ Diagnose \/ handle_pragma \/ process_pragma_text \/ handle_line
  BY <1>5, <1>13 DEF handle_ifdef, handle_else, handle_endif, SkipDirective, handle_define,
     handle_undef, Diagnose, handle_pragma, process_pragma_text, Pragma, handle_line
<1>14. CASE InactiveText \/ StartInvocation
  BY <1>5, <1>14 DEF InactiveText, StartInvocation
<1> QED BY <1>6, <1>7, <1>8, <1>9, <1>10, <1>11, <1>12, <1>13, <1>14 DEF Next

-----------------------------------------------------------------------------
\* Guards and resolutions

\* A guard that is detected is the name of a macro.
LEMMA GuardIsToken ==
  ASSUME NEW source \in Seq(SourceLine), detect_include_guard(source) # ""
  PROVE  detect_include_guard(source) \in Token
<1> DEFINE I == {i \in 1 .. Len(source) : source[i].k \notin {"text", "_Pragma"}}
           v == IF I # {} THEN Min(I) ELSE 0
<1>1. I \in SUBSET (1 .. Len(source)) /\ Len(source) \in Nat
  BY ONLY source \in Seq(SourceLine)
<1>2. v \in 0 .. Len(source)
  BY <1>1, FirstOf, Zenon
<1>3. v # 0
  BY Zenon DEF detect_include_guard, SelectInSeq
<1>a. detect_include_guard(source) = source[v].name /\ source[v].k = "ifndef"
  BY Zenon DEF detect_include_guard, SelectInSeq
<1> HIDE DEF v
<1>4. source[v] \in SourceLine
  BY ONLY <1>2, <1>3, source \in Seq(SourceLine)
<1> QED BY <1>a, <1>4, LineFields, Zenon

\* handle_include is the only step of a run that changes the maps.
LEMMA MapsStep ==
  ASSUME Next
  PROVE  \/ UNCHANGED <<include_guard_map_, include_resolve_cache_>>
         \/ include_guard_map_' = << >> /\ include_resolve_cache_' = << >>
         \/ handle_include
<1>1. UNCHANGED includes => UNCHANGED <<include_guard_map_, include_resolve_cache_>>
  BY DEF includes, once_and_guards
<1>2. CASE preprocess_file
  BY <1>2 DEF preprocess_file
<1>3. CASE handle_ifdef \/ handle_if \/ handle_elif \/ handle_else \/ handle_endif
  BY <1>1, <1>3, Zenon DEF handle_ifdef, handle_if, handle_elif, handle_else, handle_endif
<1>4. CASE SkipDirective \/ handle_define \/ handle_undef \/ Diagnose \/ handle_pragma
             \/ process_pragma_text \/ handle_line
  BY <1>1, <1>4, Zenon DEF SkipDirective, handle_define, handle_undef, Diagnose, handle_pragma,
     process_pragma_text, handle_line, Pragma
<1>5. CASE InactiveText \/ PlainText \/ StartInvocation \/ ContinueInvocation \/ EndOfText
  BY <1>1, <1>5 DEF InactiveText, PlainText, StartInvocation, ContinueInvocation, EndOfText,
     Unaffected
<1> QED BY <1>2, <1>3, <1>4, <1>5 DEF Next

\* Every step keeps the types of the guard map and the resolution cache.
LEMMA MapTypes ==
  ASSUME TypeInv, Next
  PROVE  /\ include_guard_map_' \in [DOMAIN include_guard_map_' -> Token]
         /\ include_resolve_cache_' \in [DOMAIN include_resolve_cache_' -> Files]
<1>1. /\ include_guard_map_ \in [DOMAIN include_guard_map_ -> Token]
      /\ include_resolve_cache_ \in [DOMAIN include_resolve_cache_ -> Files]
  BY DEF TypeInv
<1>2. CASE include_guard_map_' = << >> /\ include_resolve_cache_' = << >>
  BY <1>2
<1>3. CASE handle_include
  <2>1. Line.next \in BOOLEAN /\ Top.file \in Path
    BY <1>3, IncludeStep, LineFacts, LineFields, TopFields
  <2>2. Resolved = << >> \/ Resolved \in Files
    BY <2>1, ResolvedIsFile DEF Resolved
  <2>3. \/ include_resolve_cache_' = include_resolve_cache_
        \/ /\ Resolved # << >>
           /\ include_resolve_cache_' =
                With(include_resolve_cache_, CacheKey(Operand, Top.file), Resolved)
    BY <1>3, IncludeStep
  <2>4. include_resolve_cache_' \in [DOMAIN include_resolve_cache_' -> Files]
    <3> DEFINE f == With(include_resolve_cache_, CacheKey(Operand, Top.file), Resolved)
    <3>1. Resolved # << >> => f \in [DOMAIN f -> Files]
      BY <1>1, <2>2, WithTypes, Zenon
    <3> HIDE DEF f
    <3> QED BY <1>1, <2>3, <3>1 DEF f
  <2> DEFINE guard == detect_include_guard(Source(Resolved))
  <2>5. \/ include_guard_map_' = include_guard_map_
        \/ /\ Resolved # << >> /\ guard # ""
           /\ include_guard_map_' = With(include_guard_map_, Resolved, guard)
    BY <1>3, IncludeStep, Zenon DEF IncludeEffect
  <2>6. Resolved \in Files => Source(Resolved) \in Seq(SourceLine)
    BY DEF TypeInv, WellFormed, Files
  <2>7. Resolved # << >> /\ guard # "" => guard \in Token
    BY <2>2, <2>6, GuardIsToken, Zenon
  <2>8. include_guard_map_' \in [DOMAIN include_guard_map_' -> Token]
    <3> DEFINE f == With(include_guard_map_, Resolved, guard)
    <3>1. Resolved # << >> /\ guard # "" => f \in [DOMAIN f -> Token]
      BY <1>1, <2>7, WithTypes, Zenon
    <3> HIDE DEF f
    <3> QED BY <1>1, <2>5, <3>1, Zenon DEF f
  <2> QED BY <2>4, <2>8
<1> QED BY <1>1, <1>2, <1>3, MapsStep

\* The empty output.
LEMMA EmptyOut == << >> \in Seq(OutLine)
  OBVIOUS

\* The types of a file.
LEMMA FileTypes ==
  ASSUME TypeInv, NEW path \in Files
  PROVE  path \in Path /\ Source(path) \in Seq(SourceLine)
  BY DEF TypeInv, WellFormed, Files

\* Entering or refusing a file keeps the types of the loop.
LEMMA EntersTypes ==
  ASSUME TypeInv, config' = config, NEW path, Enters(path)
  PROVE  LoopTypes'
<1>1. HasLine /\ path \in Files /\ EnterFile(path)
  BY DEF Enters
<1>2. /\ frames # << >> /\ Advanced \in Frame /\ Advanced.file \in Files
      /\ path \in Path /\ Blank \in OutLine /\ out \in Seq(OutLine)
      /\ virtual_line_offset_ \in Int /\ virtual_file_ \in Path
  BY <1>1, LineFacts, AdvancedFacts, TopFields, FileTypes, LineOut, Zenon DEF TypeInv
<1>3. interrupted' \in BOOLEAN
  BY <1>1 DEF EnterFile, Interrupt
<1>4. Advanced.line_no + 1 \in Int /\ Advanced.file \in Path
  <2>1. Advanced.line_no \in Nat /\ Advanced.file \in Path
    BY <1>2 DEF Frame
  <2> QED BY <2>1
<1>5. 1 \in Int /\ 0 \in Int
  OBVIOUS
<1>6. Marker(path, 1) \in OutLine /\ ReturnMarker(Advanced) \in OutLine
  BY <1>2, <1>4, <1>5, EmptyText, MarkerTypes, Zenon DEF ReturnMarker
<1>7. CASE Len(frames) > DepthLimit
  <2>1. /\ Emit(<<Marker(path, 1), Blank, ReturnMarker(Advanced)>>)
        /\ frames' = Append(Front(frames), Advanced) /\ UNCHANGED location
    BY <1>1, <1>7 DEF EnterFile
  <2>2. <<Marker(path, 1), Blank, ReturnMarker(Advanced)>> \in Seq(OutLine)
    BY <1>2, <1>6
  <2>3. out' \in Seq(OutLine)
    BY <1>2, <2>1, <2>2, EmitTypes, Zenon
  <2>4. FramesOK'
    BY <1>2, <2>1, ReplacedFrames, Zenon
  <2> QED BY <1>2, <1>3, <2>1, <2>3, <2>4 DEF LoopTypes, location
<1>8. CASE ~(Len(frames) > DepthLimit)
  <2>1. /\ Emit(<<Marker(path, 1)>>)
        /\ frames' = Append(Append(Front(frames), Advanced), NewFrame(path))
        /\ virtual_line_offset_' = 0 /\ virtual_file_' = path
    BY <1>1, <1>8, Zenon DEF EnterFile
  <2>2. <<Marker(path, 1)>> \in Seq(OutLine)
    BY <1>6
  <2>3. out' \in Seq(OutLine)
    BY <1>2, <2>1, <2>2, EmitTypes, Zenon
  <2>4. NewFrame(path) \in Frame /\ NewFrame(path).file \in Files
    BY <1>1, NewFrameTypes, Zenon
  <2>5. FramesOK'
    BY <1>2, <2>1, <2>4, PushedFrames, Zenon
  <2> QED BY <1>2, <1>3, <1>5, <2>1, <2>3, <2>5 DEF LoopTypes
<1> QED BY <1>7, <1>8

\* Every step keeps the types of the loop.
LEMMA LoopTypesKept ==
  ASSUME TypeInv, Next, ExpansionYieldsText
  PROVE  LoopTypes'
<1>1. config' = config
  BY FixedStep
<1>2. /\ out \in Seq(OutLine) /\ virtual_line_offset_ \in Int /\ virtual_file_ \in Path
      /\ interrupted \in BOOLEAN /\ IsMacroTable(macros_) /\ counter_ \in Nat
      /\ frames \in Seq(Frame)
  BY DEF TypeInv, WellFormed
<1>3. CASE preprocess_file
  <2>1. roots \in Seq(Files) /\ roots # << >>
    BY <1>3 DEF preprocess_file, TypeInv, WellFormed, Files
  <2>2. Head(roots) \in Files
    BY <2>1
  <2>3. /\ NewFrame(Head(roots)) \in Frame /\ NewFrame(Head(roots)).file \in Files
        /\ Head(roots) \in Path
    BY <2>2, NewFrameTypes, FileTypes, Zenon
  <2>4. /\ frames' = <<NewFrame(Head(roots))>> /\ out' = <<Marker(Head(roots), 1)>>
        /\ virtual_line_offset_' = 0 /\ virtual_file_' = Head(roots) /\ interrupted' = FALSE
    BY <1>3 DEF preprocess_file
  <2>5. 1 \in Int /\ 0 \in Int
    OBVIOUS
  <2>6. Marker(Head(roots), 1) \in OutLine
    BY <2>3, <2>5, EmptyText, MarkerTypes, Zenon
  <2>7. out' \in Seq(OutLine)
    BY <2>4, <2>6
  <2>8. frames' \in Seq(Frame) /\ \A i \in DOMAIN frames' : frames'[i] = NewFrame(Head(roots))
    BY <2>3, <2>4
  <2>9. FramesOK'
    BY <1>1, <2>3, <2>8 DEF FramesOK, Files
  <2> QED BY <2>3, <2>4, <2>5, <2>7, <2>9, Zenon DEF LoopTypes
<1>4. CASE LeavesBlank
  <2>1. HasLine /\ ReadLine /\ Emit(<<Blank>>) /\ UNCHANGED location
    BY <1>4 DEF LeavesBlank
  <2>2. <<Blank>> \in Seq(OutLine)
    <3>1. Blank \in OutLine
      BY <2>1, LineOut, Zenon
    <3> QED BY <3>1
  <2> QED BY <1>1, <1>2, <2>1, <2>2, ReadLineTypes, EmitTypes, Zenon DEF LoopTypes, location
<1>5. CASE LeavesPragma
  <2>1. HasLine /\ ReadLine /\ UNCHANGED location
    BY <1>5 DEF LeavesPragma
  <2>2. Blank \in OutLine /\ Preserved \in OutLine
    BY <2>1, LineOut, Zenon
  <2>3. <<Blank>> \in Seq(OutLine) /\ <<Preserved, Blank>> \in Seq(OutLine)
    BY <2>2
  <2>4. Emit(<<Preserved, Blank>>) \/ Emit(<<Blank>>) \/ Emit(<< >>)
    BY <1>5 DEF LeavesPragma, PragmaLines
  <2>5. out' \in Seq(OutLine)
    BY <1>2, <2>3, <2>4, EmptyOut, EmitTypes, Zenon
  <2> QED BY <1>1, <1>2, <2>1, <2>5, ReadLineTypes DEF LoopTypes, location
<1>6. CASE handle_line
  <2>1. /\ HasLine /\ Line.k = "line" /\ ReadLine
        /\ virtual_line_offset_' = Line.number - (line_no + 1)
        /\ virtual_file_' = IF Line.file = << >> THEN virtual_file_ ELSE Line.file
        /\ Emit(<<Marker(virtual_file_', Line.number)>>)
    BY <1>6, Zenon DEF handle_line, Directive
  <2>2. /\ Line.number \in Nat /\ Line.file \in Path /\ line_no = Top.line_no + 1
        /\ Top.line_no \in Nat
    BY <2>1, LineFacts, LineFields, TopFields, Zenon
  <2>3. virtual_line_offset_' \in Int /\ Line.number \in Int
    BY <2>1, <2>2
  <2>4. virtual_file_' \in Path
    BY <1>2, <2>1, <2>2
  <2>5. Marker(virtual_file_', Line.number) \in OutLine
    BY <2>3, <2>4, EmptyText, MarkerTypes, Zenon
  <2>6. <<Marker(virtual_file_', Line.number)>> \in Seq(OutLine)
    BY <2>5
  <2>7. out' \in Seq(OutLine)
    BY <1>2, <2>1, <2>6, EmitTypes, Zenon
  <2> QED BY <1>1, <2>1, <2>3, <2>4, <2>7, ReadLineTypes DEF LoopTypes
<1>7. CASE \E path : Enters(path)
  BY <1>1, <1>7, EntersTypes
<1>8. CASE PlainText
  <2>1. /\ HasLine /\ Line.k = "text" /\ ReadLine /\ UNCHANGED location
        /\ Emit(<<Text(Expand(Line.text).text, vline, 0)>>)
    BY <1>8, Zenon DEF PlainText, Unaffected
  <2>2. Line.text \in Seq(Token) /\ vline \in Int /\ 0 \in Nat
    BY <2>1, LineFacts, LineFields
  <2>3. Expand(Line.text).text \in Seq(Token)
    BY <1>2, <2>2, ExpandTypes DEF Expand
  <2>4. Text(Expand(Line.text).text, vline, 0) \in OutLine
    BY <1>2, <2>2, <2>3, TextTypes, Zenon
  <2>5. <<Text(Expand(Line.text).text, vline, 0)>> \in Seq(OutLine)
    BY <2>4
  <2> QED BY <1>1, <1>2, <2>1, <2>5, ReadLineTypes, EmitTypes, Zenon DEF LoopTypes, location
<1>9. CASE StartInvocation
  <2>1. PICK g \in Frame : /\ g.file = Top.file /\ frames # << >>
                           /\ frames' = Append(Front(frames), g)
    BY <1>9, StartInvocationTypes, Zenon
  <2>2. FramesOK'
    BY <1>1, <2>1, TopFields, ReplacedFrames
  <2> QED BY <1>2, <1>9, <2>2 DEF LoopTypes, location, StartInvocation, Unaffected
<1>10. CASE ContinueInvocation
  <2>1. PICK g \in Frame, text \in Seq(Token) :
             /\ g.file = Top.file /\ frames # << >>
             /\ frames' = Append(Front(frames), g)
             /\ Emit(IF g.open THEN << >> ELSE Invocation(text, vline, Top.extra_lines + 1))
    BY <1>10, ContinueInvocationTypes
  <2>2. FramesOK'
    BY <1>1, <2>1, TopFields, ReplacedFrames
  <2>3. Top.extra_lines + 1 \in Nat /\ vline \in Int
    <3>1. Top.extra_lines \in Nat /\ vline \in Int
      BY <1>10, <2>1, TopFields, LineFacts, Zenon DEF ContinueInvocation
    <3> QED BY <3>1
  <2>4. Invocation(text, vline, Top.extra_lines + 1) \in Seq(OutLine)
    BY <2>1, <2>3, InvocationTypes, Zenon
  <2>5. Emit(<< >>) \/ Emit(Invocation(text, vline, Top.extra_lines + 1))
    BY <2>1
  <2>6. out' \in Seq(OutLine)
    BY <1>2, <2>4, <2>5, EmptyOut, EmitTypes, Zenon
  <2> QED BY <1>2, <1>10, <2>2, <2>6 DEF LoopTypes, location, ContinueInvocation, Unaffected
<1>11. CASE EndOfText
  <2> DEFINE whole == Expand(Top.text)
             caller == Front(frames)
             line == Top.line_no + virtual_line_offset_
             a == IF Accumulating THEN Invocation(whole.text, line, Top.extra_lines) ELSE << >>
             b == IF caller = << >> THEN << >> ELSE <<ReturnMarker(Last(caller))>>
  <2>1. /\ frames # << >> /\ frames' = caller /\ Emit(a \o b)
        /\ virtual_line_offset_' = Top.saved_voffset /\ virtual_file_' = Top.saved_vfile
        /\ interrupted' = interrupted
    BY <1>11 DEF EndOfText
  <2>2. /\ Top.text \in Seq(Token) /\ Top.extra_lines \in Nat
        /\ Top.saved_voffset \in Int /\ Top.saved_vfile \in Path /\ line \in Int
    BY <1>2, <2>1, TopFields
  <2>3. whole.text \in Seq(Token)
    BY <1>2, <2>2, ExpandTypes DEF Expand
  <2>4. a \in Seq(OutLine)
    BY <2>1, <2>2, <2>3, EmptyOut, InvocationTypes, Zenon
  <2>5. /\ caller \in Seq(Frame) /\ Len(caller) = Len(frames) - 1 /\ Len(frames) \in Nat \ {0}
        /\ \A i \in 1 .. Len(frames) - 1 : caller[i] = frames[i]
    BY <2>1, TopFacts
  <2>6. b \in Seq(OutLine)
    <3>1. CASE caller = << >>
      BY <3>1, EmptyOut
    <3>2. CASE caller # << >>
      <4>1. Last(caller) \in Frame
        BY <2>5, <3>2, LastAndFront
      <4>2. Last(caller).line_no \in Nat /\ Last(caller).file \in Path
        BY <4>1 DEF Frame
      <4>3. Last(caller).line_no + 1 \in Int
        BY <4>2
      <4>4. ReturnMarker(Last(caller)) \in OutLine
        BY <4>2, <4>3, EmptyText, MarkerTypes, Zenon DEF ReturnMarker
      <4>5. <<ReturnMarker(Last(caller))>> \in Seq(OutLine)
        BY <4>4
      <4> QED BY <3>2, <4>5
    <3> QED BY <3>1, <3>2
  <2>7. a \o b \in Seq(OutLine)
    <3> HIDE DEF a, b
    <3> QED BY <2>4, <2>6
  <2>8. out' \in Seq(OutLine)
    BY <1>2, <2>1, <2>7, EmitTypes, Zenon
  <2>9. \A i \in DOMAIN frames : frames[i].file \in Files
    BY DEF TypeInv
  <2>10. \A i \in DOMAIN caller : i \in DOMAIN frames /\ caller[i] = frames[i]
    <3> HIDE DEF caller
    <3> QED BY <1>2, <2>5
  <2>11. FramesOK'
    BY <1>1, <2>1, <2>5, <2>9, <2>10, Zenon DEF FramesOK, Files
  <2> QED BY <1>2, <2>1, <2>2, <2>8, <2>11 DEF LoopTypes
<1> QED BY <1>3, <1>4, <1>5, <1>6, <1>7, <1>8, <1>9, <1>10, <1>11, LoopStep

\* Every step keeps the type of diagnostics.
LEMMA DiagnosticsStep ==
  ASSUME TypeInv, Next
  PROVE  diagnostics' \in Nat
<1>1. diagnostics \in Nat
  BY DEF TypeInv
<1>2. diagnostics + 1 \in Nat /\ 0 \in Nat
  BY <1>1
<1>3. CASE preprocess_file \/ Diagnose
  BY <1>2, <1>3, Zenon DEF preprocess_file, Diagnose
<1>4. CASE handle_ifdef \/ handle_if \/ handle_elif \/ handle_else \/ handle_endif
  BY <1>1, <1>4, Zenon DEF handle_ifdef, handle_if, handle_elif, handle_else, handle_endif
<1>5. CASE SkipDirective \/ handle_define \/ handle_undef \/ handle_pragma
             \/ process_pragma_text \/ handle_line
  BY <1>1, <1>5 DEF SkipDirective, handle_define, handle_undef, handle_pragma,
     process_pragma_text, handle_line, Pragma
<1>6. CASE handle_include
  <2>1. IncludeEffect
    BY <1>6, IncludeStep, Zenon
  <2>2. diagnostics' = diagnostics \/ diagnostics' = diagnostics + 1
    BY <2>1, Zenon DEF IncludeEffect, IncludeFails, IncludeSkipped, EnterFile
  <2> QED BY <1>1, <1>2, <2>2
<1>7. CASE InactiveText \/ PlainText \/ StartInvocation \/ ContinueInvocation \/ EndOfText
  BY <1>1, <1>7, Zenon DEF InactiveText, PlainText, StartInvocation, ContinueInvocation, EndOfText,
     Unaffected
<1> QED BY <1>3, <1>4, <1>5, <1>6, <1>7 DEF Next

\* TypeInv is inductive.
LEMMA TypeStep ==
  ASSUME TypeInv, [Next]_vars, ExpansionYieldsText
  PROVE  TypeInv'
<1>1. CASE Next
  <2>1. config' = config /\ (roots' = roots \/ (roots # << >> /\ roots' = Tail(roots)))
    BY <1>1, FixedStep
  <2>2. LoopTypes' /\ TableOK' /\ counter_' \in Nat /\ diagnostics' \in Nat
    BY <1>1, LoopTypesKept, TableStep, CounterStep, DiagnosticsStep
  <2>3. /\ include_guard_map_' \in [DOMAIN include_guard_map_' -> Token]
        /\ include_resolve_cache_' \in [DOMAIN include_resolve_cache_' -> Files]
    BY <1>1, MapTypes, Zenon
  <2>4. roots' \in Seq(DOMAIN config.files)
    <3>1. roots \in Seq(DOMAIN config.files)
      BY DEF TypeInv, WellFormed
    <3>2. roots # << >> => Tail(roots) \in Seq(DOMAIN config.files)
      BY <3>1
    <3> QED BY <2>1, <3>1, <3>2, Zenon
  <2>5. WellFormed'
    <3>1. /\ DOMAIN config.files \subseteq Path
          /\ \A file \in DOMAIN config.files : Source(file) \in Seq(SourceLine)
          /\ \A dirs \in {config.quote, config.normal, config.system, config.after} :
               dirs \in Seq(Path)
          /\ \A rel \in DOMAIN config.builtin : config.builtin[rel] \in DOMAIN config.files
      BY DEF TypeInv, WellFormed
    <3>2. IsMacroTable(macros_)'
      BY <2>2, Zenon DEF TableOK
    <3> QED BY <2>1, <2>4, <3>1, <3>2 DEF WellFormed, Source
  <2> QED BY <2>1, <2>2, <2>3, <2>5 DEF TypeInv, LoopTypes, TableOK, StackOK, FramesOK, Files
<1>2. CASE UNCHANGED vars
  BY <1>2, Zenon DEF vars, fixed, table, includes, once_and_guards, location, TypeInv, WellFormed,
     Source, Files, IsMacroTable
<1> QED BY <1>1, <1>2

\* TypeInv holds when the driver starts.
LEMMA TypeInit ==
  ASSUME Init
  PROVE  TypeInv
<1>1. << >> \in Path /\ 0 \in Int /\ 0 \in Nat /\ << >> \in Seq(Frame) /\ << >> \in Seq(OutLine)
  BY DEF Path
<1>2. DOMAIN << >> = {}
  OBVIOUS
<1>3. << >> \in [DOMAIN << >> -> Seq(MacroDef)] /\ << >> \in [DOMAIN << >> -> Token]
      /\ << >> \in [DOMAIN << >> -> Files]
  OBVIOUS
<1> QED BY <1>1, <1>2, <1>3, Zenon DEF Init, Start, TypeInv

\* Every step keeps the types, for every program and every macro expansion that
\* yields texts: no line number, offset or path leaves its range, and every file
\* that is entered or cached is one of the configuration's.
THEOREM TypeCorrect ==
  ASSUME ExpansionYieldsText
  PROVE  Spec => []TypeInv
<1>1. Init => TypeInv
  BY TypeInit
<1>2. TypeInv /\ [Next]_vars => TypeInv'
  BY TypeStep
<1> QED BY <1>1, <1>2, PTL DEF Spec

-----------------------------------------------------------------------------
\* The resolution cache

\* The directory of a path put together from a directory and a name.
LEMMA FrontOfAppend ==
  ASSUME NEW S, NEW s \in Seq(S), NEW g
  PROVE  Front(Append(s, g)) = s
<1>1. s \in Seq(S \cup {g}) /\ g \in S \cup {g}
  OBVIOUS
<1>2. Pushed(S \cup {g}, s, g, Append(s, g))
  BY <1>1, PushTop, Zenon
<1> QED BY <1>2 DEF Pushed

\* What a fresh search gives for a key.
Fresh(key) == Search(SearchDirs(Append(key[3], key[1]), key[2] = "q", FALSE), 1, key[1])

\* Every includer with the same key would search the same directories.
LEMMA KeyDecides ==
  ASSUME NEW operand, IsOperand(operand), NEW file \in Path
  PROVE  FreshResolve(operand, file, FALSE) = Fresh(CacheKey(operand, file))
<1> DEFINE key == CacheKey(operand, file)
           rel == operand[2]
<1>1. \A dirs : StartIndex(dirs, file, FALSE) = 1
  BY DEF StartIndex
<1>2. FreshResolve(operand, file, FALSE)
        = Search(SearchDirs(file, IsQuoted(operand), FALSE), 1, rel)
  BY <1>1, Zenon DEF FreshResolve
<1>3. key[1] = rel
  BY DEF CacheKey
<1>4. CASE IsQuoted(operand)
  <2>1. ~IsAngle(operand)
    BY <1>4, OperandKinds, Zenon
  <2>2. key[2] = "q" /\ key[3] = Front(file)
    BY <2>1 DEF CacheKey
  <2>3. Front(file) \in Seq(STRING)
    BY DEF Front, Path
  <2>4. Front(Append(Front(file), rel)) = Front(file)
    BY <2>3, FrontOfAppend, Zenon
  <2>5. SearchDirs(Append(Front(file), rel), TRUE, FALSE) = SearchDirs(file, TRUE, FALSE)
    BY <2>4, Zenon DEF SearchDirs
  <2> HIDE DEF key, rel
  <2> QED BY <1>2, <1>3, <1>4, <2>2, <2>5, Zenon DEF Fresh, key, rel
<1>5. CASE ~IsQuoted(operand)
  <2>1. IsAngle(operand)
    BY <1>5, OperandKinds
  <2>2. key[2] # "q" /\ key[3] = << >>
    BY <2>1 DEF CacheKey
  <2>3. SearchDirs(Append(<< >>, rel), FALSE, FALSE) = SearchDirs(file, FALSE, FALSE)
    BY DEF SearchDirs
  <2>4. IsQuoted(operand) = FALSE /\ (key[2] = "q") = FALSE
    BY <1>5, <2>2, Zenon DEF IsQuoted
  <2> HIDE DEF key, rel
  <2> QED BY <1>2, <1>3, <2>2, <2>3, <2>4, Zenon DEF Fresh, key, rel
<1> QED BY <1>4, <1>5, Zenon

\* CacheIsCoherent is inductive.
LEMMA CacheStep ==
  ASSUME TypeInv, CacheIsCoherent, [Next]_vars
  PROVE  CacheIsCoherent'
<1>1. \A key \in DOMAIN include_resolve_cache_ : include_resolve_cache_[key] = Fresh(key)
  BY Zenon DEF CacheIsCoherent, Fresh
<1>2. config' = config
  BY FixedStep DEF vars, fixed
<1>3. SUFFICES \A key \in DOMAIN include_resolve_cache_' : include_resolve_cache_'[key] = Fresh(key)
  <2>1. ASSUME NEW key PROVE Fresh(key)' = Fresh(key)
    <3> DEFINE dirs == SearchDirs(Append(key[3], key[1]), key[2] = "q", FALSE)
               rel == key[1]
               I == {i \in 1 .. Len(dirs) : Exists(Append(dirs[i], rel))}
               at == IF I # {} THEN Min(I) ELSE 0
    <3>1. dirs' = dirs
      BY <1>2 DEF SearchDirs
    <3> HIDE DEF dirs
    <3>2. I' = I
      BY <1>2, <3>1, Zenon DEF Exists
    <3>3. Fresh(key) = IF at = 0 THEN << >> ELSE Append(dirs[at], rel)
      BY Zenon DEF Fresh, Search, SelectInSubSeq, dirs
    <3>4. Fresh(key)' = IF at' = 0 THEN << >> ELSE Append(dirs'[at'], rel)
      BY DEF Fresh, Search, SelectInSubSeq, dirs
    <3> HIDE DEF I
    <3>5. at' = at
      BY <3>2
    <3> HIDE DEF at
    <3> QED BY <3>1, <3>3, <3>4, <3>5
  <2> QED BY <2>1, Zenon DEF CacheIsCoherent, Fresh
<1>4. CASE include_resolve_cache_' = include_resolve_cache_
  BY <1>1, <1>4
<1>5. CASE include_resolve_cache_' = << >>
  <2>1. DOMAIN include_resolve_cache_' = {}
    BY <1>5
  <2> QED BY <2>1
<1>6. CASE handle_include
  <2>1. HasLine /\ Line.k = "include"
        /\ include_resolve_cache_' =
             IF ~IsOperand(Operand) \/ Line.next \/ Resolved = << >>
             THEN include_resolve_cache_
             ELSE With(include_resolve_cache_, CacheKey(Operand, Top.file), Resolved)
    BY <1>6, IncludeStep, Zenon
  <2>2. Top.file \in Path /\ Line.next \in BOOLEAN
    BY <2>1, LineFacts, LineFields, TopFields
  <2>3. CASE IsOperand(Operand) /\ ~Line.next /\ Resolved # << >>
    <3> DEFINE new == CacheKey(Operand, Top.file)
    <3>1. Line.next = FALSE
      BY <2>2, <2>3, Zenon
    <3>2. Resolved = Fresh(new)
      <4>1. \/ new \in DOMAIN include_resolve_cache_ /\ Resolved = include_resolve_cache_[new]
            \/ Resolved = FreshResolve(Operand, Top.file, FALSE)
        BY <3>1, Zenon DEF Resolved, Resolve
      <4> QED BY <1>1, <2>2, <2>3, <4>1, KeyDecides, Zenon
    <3>3. include_resolve_cache_' = With(include_resolve_cache_, new, Resolved)
      BY <2>1, <2>3
    <3> HIDE DEF new
    <3> QED BY <1>1, <3>2, <3>3 DEF With
  <2>4. CASE ~(IsOperand(Operand) /\ ~Line.next /\ Resolved # << >>)
    BY <1>4, <2>1, <2>4
  <2> QED BY <2>3, <2>4
<1>7. CASE UNCHANGED vars
  BY <1>4, <1>7 DEF vars, includes
<1> QED BY <1>4, <1>5, <1>6, <1>7, MapsStep

\* include_resolve_cache_: the key that handle_include builds decides the result of
\* a search, so a cached resolution is always the one a fresh search would give,
\* for every search path and every nesting of includes.
THEOREM CacheStaysCoherent ==
  ASSUME ExpansionYieldsText
  PROVE  Spec => []CacheIsCoherent
<1>1. Init => CacheIsCoherent
  <2>1. DOMAIN << >> = {}
    OBVIOUS
  <2> QED BY <2>1 DEF Init, Start, CacheIsCoherent
<1>2. TypeInv /\ CacheIsCoherent /\ [Next]_vars => CacheIsCoherent'
  BY CacheStep
<1>3. Spec => []TypeInv
  BY TypeCorrect
<1> QED BY <1>1, <1>2, <1>3, PTL DEF Spec

-----------------------------------------------------------------------------
\* Include guards

\* The positions up to i, with and without i.
LEMMA CountStep ==
  ASSUME NEW i \in Nat, NEW T \in SUBSET (1 .. i)
  PROVE  /\ Cardinality(T) \in Nat /\ Cardinality(T \ {i}) \in Nat
         /\ i \in T => Cardinality(T) = Cardinality(T \ {i}) + 1
         /\ i \notin T => Cardinality(T) = Cardinality(T \ {i})
<1>1. IsFiniteSet(1 .. i)
  BY FS_Interval
<1>2. IsFiniteSet(T)
  BY <1>1, FS_Subset, Zenon
<1>3. IsFiniteSet(T \ {i})
  BY <1>1, FS_Subset, Zenon
<1>4. Cardinality(T) \in Nat /\ Cardinality(T \ {i}) \in Nat
  BY <1>2, <1>3, FS_CardinalityType
<1>5. i \in T => Cardinality(T \ {i}) = Cardinality(T) - 1
  BY <1>2, FS_RemoveElement
<1>6. i \notin T => T \ {i} = T
  OBVIOUS
<1>7. i \notin T => Cardinality(T) = Cardinality(T \ {i})
  BY <1>6, Zenon
<1> QED BY <1>4, <1>5, <1>7

Ifs == {"if", "ifdef", "ifndef"}

\* How one more line changes the number of open groups.
LEMMA OpenedStep ==
  ASSUME NEW source, NEW i \in Nat \ {0}
  PROVE  /\ Opened(source, i) \in Int /\ Opened(source, i - 1) \in Int
         /\ source[i].k \in Ifs => Opened(source, i) = Opened(source, i - 1) + 1
         /\ source[i].k = "endif" => Opened(source, i) = Opened(source, i - 1) - 1
         /\ source[i].k \notin Ifs \cup {"endif"} => Opened(source, i) = Opened(source, i - 1)
<1> DEFINE A == {j \in 1 .. i : source[j].k \in Ifs}
           B == {j \in 1 .. i : source[j].k = "endif"}
           A0 == {j \in 1 .. i - 1 : source[j].k \in Ifs}
           B0 == {j \in 1 .. i - 1 : source[j].k = "endif"}
<1>1. Opened(source, i) = Cardinality(A) - Cardinality(B)
  BY DEF Opened, Ifs
<1>2. Opened(source, i - 1) = Cardinality(A0) - Cardinality(B0)
  BY DEF Opened, Ifs
<1>3. A0 = A \ {i} /\ B0 = B \ {i}
  OBVIOUS
<1>4. i \in 1 .. i /\ i \in Nat
  OBVIOUS
<1>5. A \in SUBSET (1 .. i) /\ B \in SUBSET (1 .. i)
  OBVIOUS
<1>6. (i \in A <=> source[i].k \in Ifs) /\ (i \in B <=> source[i].k = "endif")
  BY <1>4
<1>7. source[i].k = "endif" => source[i].k \notin Ifs
  BY DEF Ifs
<1>8. source[i].k \in Ifs \cup {"endif"} <=> source[i].k \in Ifs \/ source[i].k = "endif"
  OBVIOUS
<1> DEFINE ca == Cardinality(A)
           cb == Cardinality(B)
           da == Cardinality(A0)
           db == Cardinality(B0)
<1>9. /\ ca \in Nat /\ da \in Nat
      /\ i \in A => ca = da + 1
      /\ i \notin A => ca = da
  <2> HIDE DEF A, A0
  <2> QED BY <1>3, <1>4, <1>5, CountStep
<1>10. /\ cb \in Nat /\ db \in Nat
       /\ i \in B => cb = db + 1
       /\ i \notin B => cb = db
  <2> HIDE DEF B, B0
  <2> QED BY <1>3, <1>4, <1>5, CountStep
<1>11. Opened(source, i) = ca - cb /\ Opened(source, i - 1) = da - db
  BY <1>1, <1>2
<1> HIDE DEF A, B, A0, B0, ca, cb, da, db
<1>12. Opened(source, i) \in Int /\ Opened(source, i - 1) \in Int
  BY <1>9, <1>10, <1>11
<1>13. CASE source[i].k \in Ifs
  <2>1. i \in A /\ i \notin B
    BY <1>6, <1>7, <1>13
  <2>2. Opened(source, i) = Opened(source, i - 1) + 1
    BY <1>9, <1>10, <1>11, <2>1
  <2> QED BY <1>7, <1>8, <1>12, <1>13, <2>2
<1>14. CASE source[i].k = "endif"
  <2>1. i \notin A /\ i \in B
    BY <1>6, <1>7, <1>14, Zenon
  <2>2. Opened(source, i) = Opened(source, i - 1) - 1
    BY <1>9, <1>10, <1>11, <2>1
  <2> QED BY <1>7, <1>8, <1>12, <1>14, <2>2
<1>15. CASE source[i].k \notin Ifs \cup {"endif"}
  <2>1. i \notin A /\ i \notin B
    BY <1>6, <1>8, <1>15
  <2>2. Opened(source, i) = Opened(source, i - 1)
    BY <1>9, <1>10, <1>11, <2>1
  <2> QED BY <1>8, <1>12, <1>15, <2>2
<1> QED BY <1>8, <1>13, <1>14, <1>15, Zenon

\* Before the first conditional nothing is opened.
LEMMA NothingOpened ==
  ASSUME NEW source, NEW i \in Nat, \A j \in 1 .. i : source[j].k \notin Ifs \cup {"endif"}
  PROVE  Opened(source, i) = 0
<1>1. {j \in 1 .. i : source[j].k \in Ifs} = {} /\ {j \in 1 .. i : source[j].k = "endif"} = {}
  OBVIOUS
<1>2. Cardinality({}) = 0
  BY FS_EmptySet
<1>3. Opened(source, i) = 0 - 0
  BY <1>1, <1>2, Zenon DEF Opened, Ifs
<1> QED BY <1>3

\* A group of the guarded shape is open up to the last line.
LEMMA StaysOpen ==
  ASSUME NEW source, Len(source) \in Nat, NEW first \in 1 .. Len(source),
         Opened(source, first) = 1,
         \A i \in first .. Len(source) : Opened(source, i) = 0 => i = Len(source),
         NEW i \in first .. Len(source), source[i].k # "endif"
  PROVE  Opened(source, i) > 0
<1> DEFINE Bad == {j \in first .. Len(source) : Opened(source, j) <= 0}
<1>1. \A j \in Nat \ {0} : Opened(source, j) \in Int
  BY OpenedStep
<1>2. \A j \in first .. Len(source) : j \in Nat \ {0} /\ Opened(source, j) \in Int
  BY <1>1
<1> SUFFICES ASSUME i \in Bad PROVE FALSE
  BY <1>2
<1>3. Bad \in SUBSET Nat /\ Bad # {}
  OBVIOUS
<1>4. PICK m \in Bad : \A j \in Bad : m <= j
  BY <1>3, LeastOf, Zenon
<1>5. m # first
  BY <1>4
<1>6. m - 1 \in first .. Len(source) /\ m \in Nat \ {0} /\ m - 1 \notin Bad
  BY <1>4, <1>5
<1>7. Opened(source, m - 1) > 0 /\ Opened(source, m) <= 0
  BY <1>2, <1>4, <1>6
<1>8. source[m].k \in Ifs => Opened(source, m) = Opened(source, m - 1) + 1
  BY <1>6, OpenedStep, Zenon
<1>9. source[m].k \notin Ifs \cup {"endif"} => Opened(source, m) = Opened(source, m - 1)
  BY <1>6, OpenedStep, Zenon
<1>10. source[m].k = "endif" => Opened(source, m) = Opened(source, m - 1) - 1
  BY <1>6, OpenedStep, Zenon
<1>11. Opened(source, m) \in Int /\ Opened(source, m - 1) \in Int
  BY <1>6, OpenedStep
<1>12. source[m].k \notin Ifs
  BY <1>7, <1>8, <1>11
<1>13. ~(Opened(source, m) = Opened(source, m - 1))
  BY <1>7, <1>11
<1>14. source[m].k = "endif"
  BY <1>9, <1>12, <1>13, Zenon
<1>15. Opened(source, m) = 0
  BY <1>7, <1>10, <1>11, <1>14
<1>16. m = Len(source)
  BY <1>4, <1>15
<1>17. i = m
  BY <1>4, <1>16
<1> QED BY <1>14, <1>17

\* The first directive of a guarded file, and what stands before it.
LEMMA GuardShape ==
  ASSUME NEW source \in Seq(SourceLine), detect_include_guard(source) # ""
  PROVE  \E first \in 1 .. Len(source) :
           /\ source[first].k = "ifndef" /\ source[first].name = detect_include_guard(source)
           /\ \A i \in 1 .. first - 1 : source[i] = [k |-> "text", text |-> << >>]
<1> DEFINE I == {i \in 1 .. Len(source) : source[i].k \notin {"text", "_Pragma"}}
           v == IF I # {} THEN Min(I) ELSE 0
<1>1. I \in SUBSET (1 .. Len(source)) /\ Len(source) \in Nat
  BY ONLY source \in Seq(SourceLine)
<1>2. v \in 0 .. Len(source)
  BY <1>1, FirstOf, Zenon
<1>3. v # 0
  BY Zenon DEF detect_include_guard, SelectInSeq
<1>4. /\ source[v].name = detect_include_guard(source) /\ source[v].k = "ifndef"
      /\ \A i \in 1 .. v - 1 : source[i] = [k |-> "text", text |-> << >>]
  BY Zenon DEF detect_include_guard, SelectInSeq
<1> HIDE DEF v
<1>5. v \in 1 .. Len(source)
  BY ONLY <1>1, <1>2, <1>3
<1> QED BY <1>4, <1>5, Zenon

\* A guarded file whose guard is defined would be read without effect.
LEMMA GuardedIsSilent ==
  ASSUME NEW source \in Seq(SourceLine), detect_include_guard(source) # "",
         detect_include_guard(source) \in DOMAIN macros_, EndsWithItsGuard(source)
  PROVE  Silent(source)
<1>1. PICK first \in 1 .. Len(source) :
        /\ source[first].k = "ifndef" /\ source[first].name = detect_include_guard(source)
        /\ \A i \in 1 .. first - 1 : source[i] = [k |-> "text", text |-> << >>]
  BY GuardShape, Zenon
<1>2. source[first].k = "ifndef" /\ source[first].name \in DOMAIN macros_
  BY <1>1, Zenon
<1>3. \A i \in 1 .. first - 1 : source[i].k = "text" /\ source[i].text = << >>
  <2>1. \A i \in 1 .. first - 1 : source[i] = [k |-> "text", text |-> << >>]
    BY <1>1, Zenon
  <2> QED BY ONLY <2>1
<1> DEFINE I == {i \in 1 .. Len(source) : source[i].k # "text"}
           v == IF I # {} THEN Min(I) ELSE 0
<1>4. /\ v > 0
      /\ \A i \in v .. Len(source) : Opened(source, i) = 0 => i = Len(source)
  BY Zenon DEF EndsWithItsGuard, SelectInSeq
<1>5. Len(source) \in Nat /\ DOMAIN source = 1 .. Len(source)
  BY ONLY source \in Seq(SourceLine)
<1>6. v = first
  <2>1. I \in SUBSET (1 .. Len(source)) /\ first \in I
    BY <1>2, Zenon
  <2>2. v # 0 => v \in I
    BY <1>5, <2>1, FirstOf, Zenon
  <2>3. v # 0 /\ v <= first
    <3>1. v = Min(I)
      BY <2>1, Zenon
    <3>2. I \in SUBSET Nat /\ I # {}
      <4> HIDE DEF I
      <4> QED BY ONLY <1>5, <2>1
    <3>3. Min(I) <= first
      BY <2>1, <3>2, LeastOf, Zenon
    <3> HIDE DEF v, I
    <3>4. v # 0
      BY ONLY <1>4
    <3> QED BY <3>1, <3>3, <3>4, Zenon
  <2>4. v \in 1 .. Len(source) /\ source[v].k # "text"
    BY <2>2, <2>3, Zenon
  <2> HIDE DEF v, I
  <2>5. ~(v \in 1 .. first - 1)
    BY <1>3, <2>4, Zenon
  <2> QED BY ONLY <1>5, <2>3, <2>4, <2>5
<1> HIDE DEF v, I
<1>7. Opened(source, first) = 1
  <2>1. first \in Nat \ {0} /\ first - 1 \in Nat
    BY ONLY <1>5
  <2>2. \A j \in 1 .. first - 1 : source[j].k \notin Ifs \cup {"endif"}
    BY ONLY <1>3 DEF Ifs
  <2>3. Opened(source, first - 1) = 0
    BY <2>1, <2>2, NothingOpened, Zenon
  <2>4. source[first].k \in Ifs
    BY <1>2, Zenon DEF Ifs
  <2>5. Opened(source, first) = Opened(source, first - 1) + 1
    BY <2>1, <2>4, OpenedStep, Zenon
  <2> QED BY ONLY <2>3, <2>5
<1>8. ASSUME NEW i \in DOMAIN source, source[i].k = "text", source[i].text # << >>
      PROVE  Opened(source, i) > 0
  <2>1. i \in first .. Len(source)
    <3>1. i \notin 1 .. first - 1
      BY <1>3, <1>8, Zenon
    <3> QED BY ONLY <1>5, <3>1, i \in DOMAIN source
  <2>2. source[i].k # "endif"
    BY ONLY source[i].k = "text"
  <2> QED BY <1>4, <1>5, <1>6, <1>7, <2>1, <2>2, StaysOpen, Zenon
<1> QED
  <2>1. \A j \in 1 .. first - 1 : source[j].k = "text"
    BY <1>3, Zenon
  <2> QED BY <1>2, <1>5, <1>8, <2>1, Zenon DEF Silent

\* A file is in the map with the guard detected in it.
GuardInv ==
  \A path \in DOMAIN include_guard_map_ :
    /\ path \in Files
    /\ include_guard_map_[path] = detect_include_guard(Source(path))
    /\ include_guard_map_[path] # ""

\* GuardInv is inductive.
LEMMA GuardStep ==
  ASSUME TypeInv, GuardInv, [Next]_vars
  PROVE  GuardInv'
<1>1. config' = config
  BY FixedStep DEF vars, fixed
<1>2. SUFFICES \A path \in DOMAIN include_guard_map_' :
                 /\ path \in Files
                 /\ include_guard_map_'[path] = detect_include_guard(Source(path))
                 /\ include_guard_map_'[path] # ""
  <2>1. Files' = Files /\ \A path : Source(path)' = Source(path)
    BY <1>1, Zenon DEF Files, Source
  <2> QED BY <2>1, Zenon DEF GuardInv
<1>3. CASE include_guard_map_' = include_guard_map_
  BY <1>3, Zenon DEF GuardInv
<1>4. CASE include_guard_map_' = << >>
  <2>1. DOMAIN include_guard_map_' = {}
    BY <1>4
  <2> QED BY <2>1, Zenon
<1>5. CASE handle_include
  <2>1. HasLine /\ Line.k = "include" /\ IncludeEffect
    BY <1>5, IncludeStep
  <2>2. Top.file \in Path /\ Line.next \in BOOLEAN
    BY <2>1, LineFacts, LineFields, TopFields
  <2>3. Resolved = << >> \/ Resolved \in Files
    BY <2>2, ResolvedIsFile DEF Resolved
  <2> DEFINE guard == detect_include_guard(Source(Resolved))
  <2>4. \/ include_guard_map_' = include_guard_map_
        \/ /\ Resolved # << >> /\ guard # ""
           /\ include_guard_map_' = With(include_guard_map_, Resolved, guard)
    BY <2>1, Zenon DEF IncludeEffect
  <2>5. CASE /\ Resolved # << >> /\ guard # ""
             /\ include_guard_map_' = With(include_guard_map_, Resolved, guard)
    BY <2>3, <2>5, Zenon DEF GuardInv, With
  <2> QED BY <1>3, <2>4, <2>5, Zenon
<1>6. CASE UNCHANGED vars
  BY <1>3, <1>6, Zenon DEF vars, includes, once_and_guards
<1> QED BY <1>3, <1>4, <1>5, <1>6, MapsStep, Zenon

\* An #include is read by handle_include, or skipped where nothing is active.
LEMMA IncludeLineStep ==
  ASSUME Next, HasLine, Line.k = "include"
  PROVE  handle_include \/ (SkipDirective /\ ~is_active)
<1>1. frames # << >>
  BY DEF HasLine
<1>2. ~preprocess_file /\ ~EndOfText
  BY <1>1 DEF preprocess_file, EndOfText
<1>3. \A k : Directive(k) => k = "include"
  BY DEF Directive
<1>4. /\ "include" # "ifdef" /\ "include" # "ifndef" /\ "include" # "if" /\ "include" # "elif"
      /\ "include" # "else" /\ "include" # "endif" /\ "include" # "define" /\ "include" # "undef"
      /\ "include" # "error" /\ "include" # "pragma" /\ "include" # "_Pragma" /\ "include" # "line"
      /\ "include" # "other" /\ "include" # "text"
  OBVIOUS
<1>5. ~(handle_ifdef \/ handle_if \/ handle_elif \/ handle_else \/ handle_endif)
  BY <1>3, <1>4 DEF handle_ifdef, handle_if, handle_elif, handle_else, handle_endif
<1>6. /\ ~(handle_define \/ handle_undef \/ Diagnose)
      /\ SkipDirective => ~is_active
  BY <1>3, <1>4 DEF SkipDirective, handle_define, handle_undef, Diagnose
<1>7. ~(handle_pragma \/ process_pragma_text \/ handle_line)
  BY <1>3, <1>4 DEF handle_pragma, process_pragma_text, handle_line
<1>8. ~(InactiveText \/ PlainText \/ StartInvocation \/ ContinueInvocation)
  BY <1>4 DEF InactiveText, PlainText, StartInvocation, ContinueInvocation
<1> QED BY <1>2, <1>5, <1>6, <1>7, <1>8 DEF Next

\* A file that is entered or refused leaves a frame or a diagnostic.
LEMMA EnteringShows ==
  ASSUME TypeInv, HasLine, NEW path \in Files, EnterFile(path)
  PROVE  \/ Len(frames') = Len(frames) + 1 /\ Last(frames') = NewFrame(path)
         \/ /\ diagnostics' = diagnostics + 1
            /\ Len(frames') = Len(frames)
<1>1. frames \in Seq(Frame) /\ frames # << >> /\ Advanced \in Frame /\ NewFrame(path) \in Frame
  BY LineFacts, AdvancedFacts, NewFrameTypes, Zenon DEF TypeInv
<1>2. Replaced(Frame, frames, Advanced, Append(Front(frames), Advanced))
  BY <1>1, ReplaceTop
<1> DEFINE mid == Append(Front(frames), Advanced)
<1>3. mid \in Seq(Frame) /\ Len(mid) = Len(frames)
  BY <1>2 DEF Replaced
<1> HIDE DEF mid
<1>4. Pushed(Frame, mid, NewFrame(path), Append(mid, NewFrame(path)))
  BY <1>1, <1>3, PushTop, Zenon
<1>5. /\ Len(Append(mid, NewFrame(path))) = Len(frames) + 1
      /\ Last(Append(mid, NewFrame(path))) = NewFrame(path)
  BY <1>3, <1>4 DEF Pushed
<1>6. \/ frames' = mid /\ diagnostics' = diagnostics + 1
      \/ frames' = Append(mid, NewFrame(path))
  BY DEF EnterFile, mid
<1> QED BY <1>3, <1>5, <1>6, Zenon

\* GuardSkipIsSilent holds of a step.
LEMMA GuardSkipStep ==
  ASSUME TypeInv, GuardInv, Next,
         NEW path \in DOMAIN include_guard_map_,
         HasLine, Line.k = "include", is_active, Len(frames') = Len(frames),
         diagnostics' = diagnostics, IsOperand(Line.text),
         Resolve(Line.text, Top.file, Line.next) = path,
         path \notin pragma_once_files_, EndsWithItsGuard(Source(path))
  PROVE  Silent(Source(path))
<1>1. IncludeEffect
  BY IncludeLineStep, IncludeStep
<1>2. Operand = Line.text /\ Resolved = path
  BY DEF Operand, Resolved
<1>3. path \in Files /\ include_guard_map_[path] = detect_include_guard(Source(path))
      /\ detect_include_guard(Source(path)) # ""
  BY Zenon DEF GuardInv
<1>4. Source(path) \in Seq(SourceLine)
  BY <1>3, FileTypes, Zenon
<1>5. diagnostics \in Nat /\ Len(frames) \in Nat
  BY LineFacts, TopFacts, Zenon DEF TypeInv
<1>6. diagnostics' # diagnostics + 1 /\ Len(frames') # Len(frames) + 1
  BY ONLY <1>5, diagnostics' = diagnostics, Len(frames') = Len(frames)
<1>7. ~IncludeFails
  BY <1>6 DEF IncludeFails
<1>8. \A p \in Files : ~EnterFile(p)
  BY <1>6, EnteringShows
<1>9. \A rel \in DOMAIN config.builtin : config.builtin[rel] \in Files
  BY DEF TypeInv, WellFormed, Files
<1>10. Guarded(path)
  BY <1>1, <1>2, <1>3, <1>7, <1>8, <1>9, Zenon DEF IncludeEffect
<1>11. detect_include_guard(Source(path)) \in DOMAIN macros_
  BY <1>3, <1>10, Zenon DEF Guarded
<1> QED BY <1>3, <1>4, <1>11, GuardedIsSilent, Zenon

\* detect_include_guard and handle_include: for every file of the guarded shape, a
\* skip finds the macro defined at that moment, so that reading the file again
\* would emit no text.
THEOREM GuardSkipsAreSilent ==
  ASSUME ExpansionYieldsText
  PROVE  Spec => GuardSkipIsSilent
<1>1. Init => GuardInv
  <2>1. DOMAIN << >> = {}
    OBVIOUS
  <2> QED BY <2>1, Zenon DEF Init, Start, GuardInv
<1>2. TypeInv /\ GuardInv /\ [Next]_vars => GuardInv'
  BY GuardStep
<1>3. Spec => []TypeInv
  BY TypeCorrect
<1>4. TypeInv /\ GuardInv /\ [Next]_vars =>
        [\A path \in DOMAIN include_guard_map_ :
           /\ HasLine /\ Line.k = "include" /\ is_active /\ Len(frames') = Len(frames)
           /\ diagnostics' = diagnostics /\ IsOperand(Line.text)
           /\ Resolve(Line.text, Top.file, Line.next) = path
           /\ path \notin pragma_once_files_ /\ EndsWithItsGuard(Source(path))
           => Silent(Source(path))]_vars
  BY GuardSkipStep
<1> QED BY <1>1, <1>2, <1>3, <1>4, PTL DEF Spec, GuardSkipIsSilent

-----------------------------------------------------------------------------
\* #include_next

\* A directory that holds a file and is not its own holds that one.
LEMMA PrefixOfFront ==
  ASSUME NEW S, NEW s \in Seq(S), NEW t \in Seq(S), s # << >>, IsStrictPrefix(s, t), s # Front(t)
  PROVE  IsStrictPrefix(s, Front(t))
<1>1. Len(s) < Len(t) /\ \A i \in 1 .. Len(s) : s[i] = t[i]
  BY DEF IsStrictPrefix
<1>2. t # << >>
  BY <1>1
<1>3. /\ Front(t) \in Seq(S) /\ Len(Front(t)) = Len(t) - 1
      /\ \A i \in 1 .. Len(t) - 1 : Front(t)[i] = t[i]
  BY <1>2, LastAndFront, Zenon
<1> DEFINE f == Front(t)
<1> HIDE DEF f
<1>4. f \in Seq(S) /\ Len(s) <= Len(f) /\ \A i \in 1 .. Len(s) : s[i] = f[i]
  BY <1>1, <1>3 DEF f
<1>5. Len(s) # Len(f)
  <2>1. Len(s) = Len(f) => s = f
    BY <1>4
  <2> QED BY <2>1, Zenon DEF f
<1> QED BY <1>4, <1>5 DEF IsStrictPrefix, f

\* Where the directories that #include_next searches are in the search path.
LEMMA SearchPathFacts ==
  ASSUME TypeInv, NEW file \in Path, NEW quoted \in BOOLEAN
  PROVE  LET dirs == SearchDirs(file, quoted, TRUE)
         IN  /\ SearchPath \in Seq(Path) /\ dirs \in Seq(Path)
             /\ \E o \in Nat : /\ Len(SearchPath) = o + Len(dirs)
                               /\ \A i \in 1 .. Len(dirs) : SearchPath[o + i] = dirs[i]
<1> DEFINE q == config.quote
           a == config.normal
           b == config.system
           c == config.after
           dirs == SearchDirs(file, quoted, TRUE)
<1>1. q \in Seq(Path) /\ a \in Seq(Path) /\ b \in Seq(Path) /\ c \in Seq(Path)
  BY DEF TypeInv, WellFormed
<1>2. SearchPath = q \o a \o b \o c
  BY DEF SearchPath
<1>3. dirs = << >> \o (IF quoted THEN q ELSE << >>) \o a \o b \o c
  BY DEF SearchDirs
<1>4. dirs \in Seq(Path)
  BY SearchDirsFacts, Zenon
<1> HIDE DEF q, a, b, c, dirs
<1>5. SearchPath \in Seq(Path)
  BY <1>1, <1>2
<1>6. CASE quoted
  <2>1. dirs = << >> \o q \o a \o b \o c
    BY <1>3, <1>6
  <2>2. << >> \o q = q
    BY <1>1
  <2>3. dirs = SearchPath
    BY <1>2, <2>1, <2>2
  <2>4. Len(SearchPath) = 0 + Len(dirs) /\ \A i \in 1 .. Len(dirs) : SearchPath[0 + i] = dirs[i]
    BY <1>5, <2>3
  <2>5. 0 \in Nat
    OBVIOUS
  <2> QED BY <1>4, <1>5, <2>4, <2>5, Zenon DEF dirs
<1>7. CASE ~quoted
  <2>1. dirs = << >> \o << >> \o a \o b \o c
    BY <1>3, <1>7
  <2>2. << >> \o << >> \o a = a
    BY <1>1
  <2>3. dirs = a \o b \o c
    BY <2>1, <2>2, Zenon
  <2>4. q \o a \o b \o c = q \o (a \o b \o c)
    <3>1. q \o a \o b = q \o (a \o b)
      BY <1>1
    <3>2. a \o b \in Seq(Path)
      BY <1>1
    <3> DEFINE ab == a \o b
    <3> HIDE DEF ab
    <3>3. q \o ab \o c = q \o (ab \o c)
      BY <1>1, <3>2 DEF ab
    <3> QED BY <3>1, <3>3 DEF ab
  <2>5. SearchPath = q \o dirs
    BY <1>2, <2>3, <2>4
  <2>6. Len(q) \in Nat
    BY <1>1
  <2>7. Len(SearchPath) = Len(q) + Len(dirs)
    BY <1>1, <1>4, <2>5
  <2>8. \A i \in 1 .. Len(dirs) : SearchPath[Len(q) + i] = dirs[i]
    BY <1>1, <1>4, <2>5
  <2> QED BY <1>4, <1>5, <2>6, <2>7, <2>8, Zenon DEF dirs
<1> QED BY <1>6, <1>7, Zenon

\* The search starts after the includer's directory.
LEMMA StartsLater ==
  ASSUME NEW path \in Seq(Path), NEW dirs \in Seq(Path), NEW o \in Nat, NEW file \in Path,
         Len(path) = o + Len(dirs), \A i \in 1 .. Len(dirs) : path[o + i] = dirs[i],
         \A c, d \in Range(path) : ~IsStrictPrefix(c, d),
         NEW at \in StartIndex(dirs, file, TRUE) .. Len(dirs)
  PROVE  o + at \in SelectInSeq(path, LAMBDA d : d = Front(file)) + 1 .. Len(path)
<1> DEFINE Holds(d) == (d # << >> /\ IsStrictPrefix(d, file)) \/ d = Front(file)
           K == {i \in 1 .. Len(dirs) : Holds(dirs[i])}
           k == IF K # {} THEN Min(K) ELSE 0
           M == {i \in 1 .. Len(path) : path[i] = Front(file)}
           m == IF M # {} THEN Min(M) ELSE 0
<1>1. StartIndex(dirs, file, TRUE) = k + 1
  BY DEF StartIndex, SelectInSeq
<1>2. SelectInSeq(path, LAMBDA d : d = Front(file)) = m
  BY DEF SelectInSeq
<1>3. Len(dirs) \in Nat /\ Len(path) \in Nat
  OBVIOUS
<1>4. K \in SUBSET (1 .. Len(dirs)) /\ M \in SUBSET (1 .. Len(path))
  OBVIOUS
<1> HIDE DEF Holds
<1>5. k \in 0 .. Len(dirs) /\ k # 0 => k \in K
  <2> HIDE DEF K
  <2> QED BY <1>3, <1>4, FirstOf, Zenon
<1>6. m \in 0 .. Len(path) /\ m # 0 => m \in M
  <2> HIDE DEF M
  <2> QED BY <1>3, <1>4, FirstOf, Zenon
<1>7. \A i \in K : k # 0 /\ k <= i
  <2> HIDE DEF K
  <2> QED BY <1>3, <1>4, FirstOf, Zenon
<1>8. \A i \in M : m # 0 /\ m <= i
  <2> HIDE DEF M
  <2> QED BY <1>3, <1>4, FirstOf, Zenon
<1>9. k \in 0 .. Len(dirs) /\ m \in 0 .. Len(path)
  <2>1. k \in 0 .. Len(dirs)
    <3> HIDE DEF K
    <3> QED BY <1>3, <1>4, FirstOf, Zenon
  <2>2. m \in 0 .. Len(path)
    <3> HIDE DEF M
    <3> QED BY <1>3, <1>4, FirstOf, Zenon
  <2> QED BY <2>1, <2>2
<1>10. \A i \in 1 .. Len(dirs) : (dirs[i] = Front(file)) => o + i \in M
  BY <1>3
<1>11. \A i \in K : i \in 1 .. Len(dirs) /\ Holds(dirs[i])
  OBVIOUS
<1>12. m # 0 => m \in 1 .. Len(path) /\ path[m] = Front(file)
  BY <1>6, <1>9
<1> HIDE DEF k, m, K, M
<1>a. at \in k + 1 .. Len(dirs)
  BY <1>1, Zenon
<1> SUFFICES o + at \in m + 1 .. Len(path)
  BY <1>2
<1>13. CASE m <= o
  BY ONLY <1>3, <1>9, <1>13, <1>a, o \in Nat, Len(path) = o + Len(dirs)
<1>14. CASE m > o
  <2>1. m # 0 /\ m - o \in 1 .. Len(dirs)
    BY <1>3, <1>9, <1>14
  <2>2. dirs[m - o] = Front(file) /\ m \in 1 .. Len(path) /\ path[m] = Front(file)
    <3>1. path[o + (m - o)] = dirs[m - o] /\ o + (m - o) = m
      BY <1>9, <2>1
    <3> QED BY <1>12, <2>1, <3>1
  <2>3. m - o \in K
    BY <2>1, <2>2 DEF K, Holds
  <2>4. k # 0 /\ k <= m - o
    BY <1>7, <2>3, Zenon
  <2>5. k \in 1 .. Len(dirs) /\ Holds(dirs[k])
    BY <1>5, <1>9, <1>11, <2>4
  <2>6. dirs[k] = Front(file)
    <3> SUFFICES ASSUME dirs[k] # Front(file) PROVE FALSE
      OBVIOUS
    <3>1. dirs[k] # << >> /\ IsStrictPrefix(dirs[k], file)
      BY <2>5, Zenon DEF Holds
    <3>2. dirs[k] \in Seq(STRING) /\ file \in Seq(STRING)
      BY <2>5 DEF Path
    <3>3. IsStrictPrefix(dirs[k], Front(file))
      BY <3>1, <3>2, PrefixOfFront
    <3>4. o + k \in DOMAIN path /\ m \in DOMAIN path /\ path[o + k] = dirs[k]
      BY <1>3, <2>2, <2>5
    <3>5. dirs[k] \in Range(path) /\ Front(file) \in Range(path)
      BY <2>2, <3>4 DEF Range
    <3> QED BY <3>3, <3>5, Zenon
  <2>7. o + k \in M
    BY <1>10, <2>5, <2>6
  <2>8. m <= o + k
    BY <1>8, <2>7, Zenon
  <2> QED BY ONLY <1>3, <1>9, <2>8, <1>a, o \in Nat, Len(path) = o + Len(dirs)
<1> QED BY ONLY <1>9, <1>13, <1>14, o \in Nat, Len(path) \in Nat

\* IncludeNextAdvances holds of a step.
LEMMA IncludeNextStep ==
  ASSUME TypeInv, Next, HasLine, Line.k = "include", Line.next, Len(frames') > Len(frames),
         Last(frames').file \notin Range(config.builtin),
         \A c, d \in Range(SearchPath) : ~IsStrictPrefix(c, d)
  PROVE  \E j \in SelectInSeq(SearchPath, LAMBDA d : d = Front(Top.file)) + 1 .. Len(SearchPath) :
           SearchPath[j] = Front(Last(frames').file)
<1> DEFINE quoted == IsQuoted(Operand)
           dirs == SearchDirs(Top.file, quoted, TRUE)
<1>1. /\ frames \in Seq(Frame) /\ frames # << >> /\ Advanced \in Frame /\ Top.file \in Path
      /\ Len(frames) \in Nat /\ Line.next = TRUE
  BY LineFacts, LineFields, AdvancedFacts, TopFacts, TopFields, Zenon DEF TypeInv
<1>2. ~ReadLine
  <2>1. ReadLine => Replaced(Frame, frames, Advanced, frames')
    BY <1>1, ReplaceTop DEF ReadLine
  <2>2. ReadLine => Len(frames') = Len(frames)
    BY <2>1 DEF Replaced
  <2> QED BY <1>1, <2>2
<1>3. handle_include
  BY <1>2, IncludeLineStep, Zenon DEF SkipDirective, Directive
<1>4. IncludeEffect
  BY <1>3, IncludeStep
<1>5. \A p \in Files : EnterFile(p) => Last(frames').file = p
  <2>1. Len(frames') # Len(frames)
    BY <1>1
  <2> QED BY <2>1, EnteringShows, NewFrameTypes, Zenon
<1>6. \A rel \in DOMAIN config.builtin :
        config.builtin[rel] \in Files /\ config.builtin[rel] \in Range(config.builtin)
  BY DEF TypeInv, WellFormed, Files, Range
<1>7. Resolved = << >> \/ Resolved \in Files
  BY <1>1, ResolvedIsFile, Zenon DEF Resolved
<1>8. Last(frames').file = Resolved /\ Resolved # << >>
  BY <1>2, <1>4, <1>5, <1>6, <1>7, Zenon DEF IncludeEffect, IncludeFails, IncludeSkipped
<1>9. Resolved = FreshResolve(Operand, Top.file, TRUE)
  BY <1>1, Zenon DEF Resolved, Resolve
<1>10. PICK at \in StartIndex(dirs, Top.file, TRUE) .. Len(dirs) :
         Resolved = Append(dirs[at], Operand[2])
  BY <1>1, <1>8, <1>9, FreshResolveFinds, Zenon
<1>11. quoted \in BOOLEAN
  BY DEF IsQuoted
<1>12. /\ SearchPath \in Seq(Path) /\ dirs \in Seq(Path)
       /\ \E o \in Nat : /\ Len(SearchPath) = o + Len(dirs)
                          /\ \A i \in 1 .. Len(dirs) : SearchPath[o + i] = dirs[i]
  BY <1>1, <1>11, SearchPathFacts, Zenon
<1> HIDE DEF dirs
<1>13. PICK o \in Nat : /\ Len(SearchPath) = o + Len(dirs)
                        /\ \A i \in 1 .. Len(dirs) : SearchPath[o + i] = dirs[i]
  BY <1>12
<1>14. o + at \in SelectInSeq(SearchPath, LAMBDA d : d = Front(Top.file)) + 1 .. Len(SearchPath)
  BY <1>1, <1>10, <1>12, <1>13, StartsLater, Zenon
<1>15. at \in 1 .. Len(dirs)
  <2>1. StartIndex(dirs, Top.file, TRUE) \in Nat \ {0}
    <3>1. Len(dirs) \in Nat
      BY <1>12
    <3> QED BY <3>1, StartIndexFacts, Zenon
  <2>2. PICK n \in Nat \ {0} : at \in n .. Len(dirs)
    BY <2>1, Zenon
  <2>3. Len(dirs) \in Nat
    BY <1>12
  <2> QED BY ONLY <2>2, <2>3
<1>16. SearchPath[o + at] = dirs[at] /\ dirs[at] \in Seq(STRING)
  <2>1. dirs[at] \in Path
    BY <1>12, <1>15
  <2> QED BY <1>13, <1>15, <2>1, Zenon DEF Path
<1>17. Front(Resolved) = dirs[at]
  BY <1>10, <1>16, FrontOfAppend, Zenon
<1> QED BY <1>8, <1>14, <1>16, <1>17, Zenon

\* #include_next: for every search path with no directory inside another, the file
\* entered lies in a later directory than its includer.
THEOREM IncludeNextGoesForward ==
  ASSUME ExpansionYieldsText
  PROVE  Spec => IncludeNextAdvances
<1>1. Spec => []TypeInv
  BY TypeCorrect
<1>2. TypeInv /\ [Next]_vars =>
        [/\ HasLine /\ Line.k = "include" /\ Line.next /\ Len(frames') > Len(frames)
         /\ Last(frames').file \notin Range(config.builtin)
         /\ \A c, d \in Range(SearchPath) : ~IsStrictPrefix(c, d)
         => LET includer == SelectInSeq(SearchPath, LAMBDA d : d = Front(Top.file))
            IN  \E j \in includer + 1 .. Len(SearchPath) :
                  SearchPath[j] = Front(Last(frames').file)]_vars
  BY IncludeNextStep, Zenon
<1> QED BY <1>1, <1>2, PTL DEF Spec, IncludeNextAdvances

=============================================================================
