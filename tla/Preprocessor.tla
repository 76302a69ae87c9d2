---------------------------- MODULE Preprocessor ----------------------------
(* The preprocessor of c4c, frontend/preprocessor/preprocessor.cpp: the loop   *)
(* over the lines of a file, the directives, include resolution and the        *)
(* markers from which the lexer takes its source positions.                    *)
(*                                                                             *)
(* A path is a sequence of names whose last one is the file's; a directory is  *)
(* such a sequence too.  A line is a record with a kind k; texts and operands  *)
(* are token sequences.  Nothing here depends on how a text is expanded:       *)
(* expand_line is a parameter, which MacroExpand defines.                      *)
EXTENDS Integers, Sequences, FiniteSets, Functions

CONSTANTS
  Token,                 \* the spellings of preprocessing tokens
  DepthLimit,            \* include_depth beyond which preprocess_text refuses (200)
  expand_line(_, _, _)   \* macro table, text, counter_ |-> [text, counter]

ASSUME TokenAssumption == {"0", "1", "<undefined>"} \subseteq Token

VARIABLES
  config,       \* files and search paths: fixed when the driver starts
  roots,        \* the files still to be preprocessed by the same object
  frames,       \* the activations of preprocess_text, the innermost last
  macros_, macro_stack_, cond_stack_,
  pragma_once_files_, include_guard_map_, include_resolve_cache_,
  virtual_line_offset_, virtual_file_, counter_,
  diagnostics,  \* how many entries errors_ and warnings_ have
  out,          \* the lines of output: text, markers and preserved pragmas
  interrupted   \* history: a directive of this run stood inside an invocation

table == <<macros_, macro_stack_>>
once_and_guards == <<pragma_once_files_, include_guard_map_>>
includes == <<once_and_guards, include_resolve_cache_>>
location == <<virtual_line_offset_, virtual_file_>>
fixed == <<config, roots>>
vars == <<fixed, frames, table, cond_stack_, includes, location, counter_,
          diagnostics, out, interrupted>>

-----------------------------------------------------------------------------
\* Sequences: a stack or a path without its last element, that element, and the
\* first or last index in a range whose element passes a test, 0 if none does.
\* SequencesExt has them too; its other operators would be in scope in every
\* step of the proofs.
Front(s) == SubSeq(s, 1, Len(s) - 1)
Last(s) == s[Len(s)]
IsStrictPrefix(s, t) == Len(s) < Len(t) /\ \A i \in DOMAIN s : s[i] = t[i]

Min(S) == CHOOSE m \in S : \A x \in S : m <= x
Max(S) == CHOOSE m \in S : \A x \in S : x <= m
SelectInSubSeq(s, from, to, Test(_)) ==
  LET I == {i \in from .. to : Test(s[i])} IN IF I # {} THEN Min(I) ELSE 0
SelectInSeq(s, Test(_)) ==
  LET I == {i \in 1 .. Len(s) : Test(s[i])} IN IF I # {} THEN Min(I) ELSE 0
SelectLastInSubSeq(s, from, to, Test(_)) ==
  LET I == {i \in from .. to : Test(s[i])} IN IF I # {} THEN Max(I) ELSE 0

-----------------------------------------------------------------------------
Path == Seq(STRING)
MacroDef == [function_like : BOOLEAN, body : Seq(Token)]

\* A line as the loop sees it, lines joined and comments stripped.  "error" is a
\* line that is only diagnosed, "other" a directive that is ignored.
SourceLine ==
  [k : {"text", "if", "elif"}, text : Seq(Token)]
    \cup [k : {"ifdef", "ifndef", "undef"}, name : Token]
    \cup [k : {"else", "endif", "error", "other"}]
    \cup [k : {"define"}, name : Token, macro : MacroDef]
    \cup [k : {"include"}, text : Seq(Token), next : BOOLEAN]
    \cup [k : {"pragma", "_Pragma"}, pragma : STRING, name : Token]
    \cup [k : {"line"}, number : Nat, file : Path]

Top == Last(frames)
Source(file) == config.files[file]
HasLine == frames # << >> /\ Top.line_no < Len(Source(Top.file))
line_no == Top.line_no + 1
Line == Source(Top.file)[line_no]
vline == line_no + virtual_line_offset_

is_active == IF cond_stack_ = << >> THEN TRUE ELSE Last(cond_stack_).this_active
Accumulating == Top.open
Expand(text) == expand_line(macros_, text, counter_)

Count(text, token) == Len(SelectSeq(text, LAMBDA t : t = token))
HasUnbalancedParens(text) == Count(text, "(") > Count(text, ")")

\* One line of output.  A text also records virtual_file_, the value of __LINE__ in
\* its last expansion, and how many lines after its first it absorbed: the loop
\* sets __LINE__ for each of them before it expands the whole.  It sets __FILE__
\* only for the first, so __FILE__ is virtual_file_ unless one was a directive.
Text(text, line, extra) ==
  [k |-> "text", text |-> text, file |-> virtual_file_, line |-> line, extra |-> extra]
Blank == Text(<< >>, vline, 0)
Marker(file, line) ==
  [k |-> "marker", text |-> << >>, file |-> file, line |-> line, extra |-> 0]
Preserved ==
  [k |-> "pragma", text |-> << >>, file |-> virtual_file_, line |-> vline, extra |-> 0]

Emit(lines) == out' = out \o lines

\* A line read while an invocation is accumulated is counted in extra_lines.
Advanced ==
  [Top EXCEPT !.line_no = line_no, !.extra_lines = IF Accumulating THEN @ + 1 ELSE @]

Interrupt == interrupted' = (interrupted \/ (Accumulating /\ Line.k # "_Pragma"))

ReadLine == frames' = Append(Front(frames), Advanced) /\ Interrupt

Directive(k) == HasLine /\ Line.k = k /\ ReadLine /\ UNCHANGED fixed

-----------------------------------------------------------------------------
\* Conditional directives: they act in inactive regions too.

Push(take) ==
  LET active == is_active /\ take
  IN  cond_stack_' = Append(cond_stack_,
        [parent_active |-> is_active, any_taken |-> active, this_active |-> active,
         saw_else |-> FALSE])

handle_ifdef ==
  /\ \/ Directive("ifdef") /\ Push(Line.name \in DOMAIN macros_)
     \/ Directive("ifndef") /\ Push(Line.name \notin DOMAIN macros_)
  /\ Emit(<<Blank>>)
  /\ UNCHANGED <<table, includes, location, counter_, diagnostics>>

\* The directories searched for a quoted or an angled name.
SearchDirs(file, quoted, next) ==
  (IF quoted /\ ~next THEN <<Front(file)>> ELSE << >>) \o
  (IF quoted THEN config.quote ELSE << >>) \o
  config.normal \o config.system \o config.after

Exists(path) == path \in DOMAIN config.files /\ path \notin Range(config.builtin)

\* The first directory at or after from that has the file; << >> if none has.
Search(dirs, from, rel) ==
  LET at == SelectInSubSeq(dirs, from, Len(dirs), LAMBDA d : Exists(Append(d, rel)))
  IN  IF at = 0 THEN << >> ELSE Append(dirs[at], rel)

IsQuoted(operand) == Len(operand) = 3 /\ operand[1] = "\"" /\ operand[3] = "\""
IsAngle(operand) == Len(operand) = 3 /\ operand[1] = "<" /\ operand[3] = ">"
IsOperand(operand) == IsQuoted(operand) \/ IsAngle(operand)

can_resolve_include(operand, file) ==
  /\ IsOperand(operand)
  /\ \/ Search(SearchDirs(file, IsQuoted(operand), FALSE), 1, operand[2]) # << >>
     \/ operand[2] \in DOMAIN config.builtin

\* defined X and __has_include(...), resolved before and after expansion.
Intrinsic(text) ==
  LET Truth(b) == IF b THEN <<"1">> ELSE <<"0">>
  IN  CASE text # << >> /\ Head(text) = "defined" -> Truth(text[2] \in DOMAIN macros_)
        [] text # << >> /\ Head(text) = "__has_include" ->
             Truth(can_resolve_include(Tail(text), virtual_file_))
        [] OTHER -> text

\* An expression that is empty, zero, an identifier or malformed is false.
evaluate_if_expr(text) ==
  LET expanded == Expand(Intrinsic(text))
  IN  [take |-> Intrinsic(expanded.text) = <<"1">>, counter |-> expanded.counter]

handle_if ==
  /\ Directive("if")
  /\ LET value == evaluate_if_expr(Line.text)
     IN  Push(value.take) /\ counter_' = value.counter
  /\ Emit(<<Blank>>)
  /\ UNCHANGED <<table, includes, location, diagnostics>>

\* Mutant: a branch that was taken does not close the group.
BranchTakenTwice(frame, take) ==
  LET active == frame.parent_active /\ take
  IN  [frame EXCEPT !.this_active = active, !.any_taken = @ \/ active]

\* The innermost group goes on to its next branch.
Branch(frame, take) ==
  LET active == frame.parent_active /\ ~frame.any_taken /\ take
  IN  [frame EXCEPT !.this_active = active, !.any_taken = @ \/ active]

SetInnermost(frame) == cond_stack_' = Append(Front(cond_stack_), frame)

handle_elif ==
  /\ Directive("elif")
  /\ LET frame == Last(cond_stack_)
         value == evaluate_if_expr(Line.text)
     IN  IF cond_stack_ = << >> \/ frame.saw_else
         THEN UNCHANGED <<cond_stack_, counter_>>
         ELSE /\ counter_' = IF frame.any_taken THEN counter_ ELSE value.counter
              /\ SetInnermost(Branch(frame, value.take))
  /\ Emit(<<Blank>>)
  /\ UNCHANGED <<table, includes, location, diagnostics>>

handle_else ==
  /\ Directive("else")
  /\ LET frame == Last(cond_stack_)
     IN  IF cond_stack_ = << >> \/ frame.saw_else
         THEN UNCHANGED cond_stack_
         ELSE SetInnermost([Branch(frame, TRUE) EXCEPT !.saw_else = TRUE])
  /\ Emit(<<Blank>>)
  /\ UNCHANGED <<table, includes, location, counter_, diagnostics>>

handle_endif ==
  /\ Directive("endif")
  /\ cond_stack_' = IF cond_stack_ = << >> THEN << >> ELSE Front(cond_stack_)
  /\ Emit(<<Blank>>)
  /\ UNCHANGED <<table, includes, location, counter_, diagnostics>>

Conditionals == {"if", "ifdef", "ifndef", "elif", "else", "endif"}

\* In an inactive region every other directive leaves a blank line, as does an
\* unknown one or a lone # anywhere.
SkipDirective ==
  /\ HasLine /\ Line.k \notin Conditionals \cup {"text", "_Pragma"}
  /\ ~is_active \/ Line.k = "other"
  /\ Directive(Line.k)
  /\ Emit(<<Blank>>)
  /\ UNCHANGED <<table, cond_stack_, includes, location, counter_, diagnostics>>

-----------------------------------------------------------------------------
\* Macro definitions, diagnostics, pragmas and #line

Without(f, x) == [y \in DOMAIN f \ {x} |-> f[y]]
With(f, x, v) == [y \in DOMAIN f \cup {x} |-> IF y = x THEN v ELSE f[y]]

handle_define ==
  /\ is_active /\ Directive("define")
  /\ macros_' = With(macros_, Line.name, Line.macro)
  /\ Emit(<<Blank>>)
  /\ UNCHANGED <<macro_stack_, cond_stack_, includes, location, counter_, diagnostics>>

handle_undef ==
  /\ is_active /\ Directive("undef")
  /\ macros_' = Without(macros_, Line.name)
  /\ Emit(<<Blank>>)
  /\ UNCHANGED <<macro_stack_, cond_stack_, includes, location, counter_, diagnostics>>

\* #error, #warning, a #define without a name and a #line without a number.
Diagnose ==
  /\ is_active /\ Directive("error")
  /\ diagnostics' = diagnostics + 1
  /\ Emit(<<Blank>>)
  /\ UNCHANGED <<table, cond_stack_, includes, location, counter_>>

Undefined == [function_like |-> FALSE, body |-> <<"<undefined>">>]
Saved(name) == IF name \in DOMAIN macro_stack_ THEN macro_stack_[name] ELSE << >>

PushMacro(name) ==
  /\ macro_stack_' = With(macro_stack_, name, Append(Saved(name),
        IF name \in DOMAIN macros_ THEN macros_[name] ELSE Undefined))
  /\ UNCHANGED macros_

PopMacro(name) ==
  IF Saved(name) = << >> THEN UNCHANGED table
  ELSE /\ macro_stack_' = With(macro_stack_, name, Front(Saved(name)))
       /\ macros_' = IF Last(Saved(name)) = Undefined THEN Without(macros_, name)
                     ELSE With(macros_, name, Last(Saved(name)))

\* #pragma names the file being read, _Pragma the virtual file.
Pragma(file) ==
  LET p == Line.pragma
  IN  /\ CASE p = "push_macro" -> PushMacro(Line.name)
           [] p = "pop_macro" -> PopMacro(Line.name)
           [] OTHER -> UNCHANGED table
      /\ pragma_once_files_' = pragma_once_files_ \cup (IF p = "once" THEN {file} ELSE {})
      /\ UNCHANGED <<cond_stack_, include_guard_map_, include_resolve_cache_, location,
                     counter_, diagnostics>>

\* A preserved pragma takes a line of its own before the one its line leaves.
PragmaLines == IF Line.pragma = "preserved" THEN <<Preserved, Blank>> ELSE <<Blank>>

handle_pragma ==
  is_active /\ Directive("pragma") /\ Pragma(Top.file) /\ Emit(PragmaLines)

\* The operator on a line of its own; in an invocation it acts whether or not it
\* is active, and leaves no line (a preserved pragma there is left out).
process_pragma_text ==
  /\ Directive("_Pragma") /\ Pragma(virtual_file_)
  /\ \/ ~Accumulating /\ is_active /\ Emit(PragmaLines)
     \/ Accumulating /\ Line.pragma # "preserved" /\ Emit(<< >>)

\* #line: the marker takes the place of the directive's line.
handle_line ==
  /\ is_active /\ Directive("line")
  /\ virtual_line_offset_' = Line.number - (line_no + 1)
  /\ virtual_file_' = IF Line.file = << >> THEN virtual_file_ ELSE Line.file
  /\ Emit(<<Marker(virtual_file_', Line.number)>>)
  /\ UNCHANGED <<table, cond_stack_, includes, counter_, diagnostics>>

-----------------------------------------------------------------------------
\* #include and #include_next

\* Mutant: #include_next starts at the directory that holds the current file.
StartAtCurrent(dirs, file, next) ==
  IF next /\ \E i \in DOMAIN dirs : dirs[i] = Front(file)
  THEN SelectInSeq(dirs, LAMBDA d : d = Front(file)) ELSE 1

\* #include_next starts after the first directory that holds the current file.
StartIndex(dirs, file, next) ==
  LET Holds(d) == (d # << >> /\ IsStrictPrefix(d, file)) \/ d = Front(file)
  IN  IF next THEN SelectInSeq(dirs, Holds) + 1 ELSE 1

FreshResolve(operand, file, next) ==
  LET dirs == SearchDirs(file, IsQuoted(operand), next)
  IN  Search(dirs, StartIndex(dirs, file, next), operand[2])

\* Mutant: the key of a quoted name leaves out the includer's directory.
CacheKeyWithoutDirectory(operand, file) ==
  <<operand[2], IF IsAngle(operand) THEN "a" ELSE "q", << >>>>

CacheKey(operand, file) ==
  <<operand[2], IF IsAngle(operand) THEN "a" ELSE "q",
    IF IsAngle(operand) THEN << >> ELSE Front(file)>>

Resolve(operand, file, next) ==
  LET key == CacheKey(operand, file)
  IN  IF ~next /\ key \in DOMAIN include_resolve_cache_
      THEN include_resolve_cache_[key]
      ELSE FreshResolve(operand, file, next)

\* The groups opened and not closed by the first i lines.
Opened(source, i) ==
  Cardinality({j \in 1 .. i : source[j].k \in {"if", "ifdef", "ifndef"}}) -
  Cardinality({j \in 1 .. i : source[j].k = "endif"})

\* The macro whose definition makes a second reading of the file unnecessary;
\* "" if the file does not look guarded.
detect_include_guard(source) ==
  LET IsDirective(l) == l.k \notin {"text", "_Pragma"}
      first == SelectInSeq(source, IsDirective)
      second == SelectInSubSeq(source, first + 1, Len(source), IsDirective)
  IN  IF /\ first # 0 /\ second # 0
         /\ \A i \in 1 .. first - 1 : source[i] = [k |-> "text", text |-> << >>]
         /\ source[first].k = "ifndef"
         /\ source[second].k = "define" /\ source[second].name = source[first].name
         /\ Opened(source, Len(source)) = 0
      THEN source[first].name ELSE ""

\* Mutant: the guard macro is not looked up again.
GuardedForever(path) == path \in DOMAIN include_guard_map_

Guarded(path) ==
  path \in DOMAIN include_guard_map_ /\ include_guard_map_[path] \in DOMAIN macros_

NewFrame(path) ==
  [file |-> path, line_no |-> 0, open |-> FALSE, text |-> << >>, extra_lines |-> 0,
   saved_voffset |-> virtual_line_offset_, saved_vfile |-> virtual_file_]

\* Mutant: the marker names the line of the #include itself.
ReturnToSameLine(frame) == Marker(frame.file, frame.line_no)

ReturnMarker(frame) == Marker(frame.file, frame.line_no + 1)

\* preprocess_text at depth Len(frames) for a file included on this line.
EnterFile(path) ==
  /\ Interrupt
  /\ IF Len(frames) > DepthLimit
     THEN /\ diagnostics' = diagnostics + 1
          /\ Emit(<<Marker(path, 1), Blank, ReturnMarker(Advanced)>>)
          /\ frames' = Append(Front(frames), Advanced)
          /\ UNCHANGED location
     ELSE /\ frames' = Append(Append(Front(frames), Advanced), NewFrame(path))
          /\ virtual_line_offset_' = 0 /\ virtual_file_' = path
          /\ Emit(<<Marker(path, 1)>>)
          /\ UNCHANGED diagnostics

IncludeFails == ReadLine /\ diagnostics' = diagnostics + 1 /\ Emit(<<Blank>>) /\ UNCHANGED location
IncludeSkipped == ReadLine /\ Emit(<<Blank>>) /\ UNCHANGED <<location, diagnostics>>

handle_include ==
  /\ HasLine /\ Line.k = "include" /\ is_active
  /\ LET direct == Line.text = << >> \/ IsOperand(Line.text)
         expanded == Expand(Line.text)
         operand == IF direct THEN Line.text ELSE expanded.text
         resolved == Resolve(operand, Top.file, Line.next)
         builtin == operand[2] \in DOMAIN config.builtin
         guard == detect_include_guard(Source(resolved))
     IN  /\ counter_' = IF direct THEN counter_ ELSE expanded.counter
         /\ include_resolve_cache_' =
              IF ~IsOperand(operand) \/ Line.next \/ resolved = << >>
              THEN include_resolve_cache_
              ELSE With(include_resolve_cache_, CacheKey(operand, Top.file), resolved)
         /\ CASE ~IsOperand(operand) -> IncludeFails /\ UNCHANGED include_guard_map_
              [] IsOperand(operand) /\ resolved = << >> ->
                   /\ IF builtin THEN EnterFile(config.builtin[operand[2]]) ELSE IncludeFails
                   /\ UNCHANGED include_guard_map_
              [] OTHER ->
                   IF operand[2] \in config.cxx_headers
                   THEN IncludeFails /\ UNCHANGED include_guard_map_
                   ELSE IF resolved \in pragma_once_files_ \/ Guarded(resolved)
                   THEN IncludeSkipped /\ UNCHANGED include_guard_map_
                   ELSE /\ include_guard_map_' =
                             IF resolved \in DOMAIN include_guard_map_ \/ guard = ""
                             THEN include_guard_map_
                             ELSE With(include_guard_map_, resolved, guard)
                        /\ EnterFile(resolved)
  /\ UNCHANGED <<fixed, table, cond_stack_, pragma_once_files_>>

-----------------------------------------------------------------------------
\* Text

\* The accumulated invocation, expanded once more with __LINE__ at the last line
\* read, followed by the blank lines that stand for the lines it absorbed.
Invocation(expanded, line, extra) ==
  <<Text(expanded, line, extra)>> \o [i \in 1 .. extra |-> Text(<< >>, line, 0)]

Unaffected == UNCHANGED <<fixed, table, cond_stack_, includes, location, diagnostics>>

InactiveText ==
  /\ HasLine /\ Line.k \in {"text", "_Pragma"} /\ ~is_active /\ ~Accumulating
  /\ ReadLine
  /\ Emit(<<Blank>>)
  /\ Unaffected /\ UNCHANGED counter_

PlainText ==
  /\ HasLine /\ Line.k = "text" /\ is_active /\ ~Accumulating
  /\ ~HasUnbalancedParens(Line.text)
  /\ ReadLine
  /\ LET expanded == Expand(Line.text)
     IN  counter_' = expanded.counter /\ Emit(<<Text(expanded.text, vline, 0)>>)
  /\ Unaffected

StartInvocation ==
  /\ HasLine /\ Line.k = "text" /\ is_active /\ ~Accumulating
  /\ HasUnbalancedParens(Line.text)
  /\ frames' = Append(Front(frames),
        [Top EXCEPT !.line_no = line_no, !.open = TRUE, !.text = Line.text,
                    !.extra_lines = 0])
  /\ Unaffected /\ UNCHANGED <<counter_, out, interrupted>>

\* The line is expanded and appended whether or not it is active.
ContinueInvocation ==
  /\ HasLine /\ Line.k = "text" /\ Accumulating
  /\ LET expanded == Expand(Line.text)
         text == Top.text \o expanded.text
         whole == expand_line(macros_, text, expanded.counter)
         open == HasUnbalancedParens(text)
     IN  /\ frames' = Append(Front(frames),
              [Top EXCEPT !.line_no = line_no, !.open = open,
                          !.text = IF open THEN text ELSE << >>,
                          !.extra_lines = @ + 1])
         /\ counter_' = IF open THEN expanded.counter ELSE whole.counter
         /\ Emit(IF open THEN << >> ELSE Invocation(whole.text, vline, Top.extra_lines + 1))
  /\ Unaffected /\ UNCHANGED interrupted

\* The end of a file: a pending invocation is flushed, the caller's virtual
\* location comes back, and the includer's marker follows.
EndOfText ==
  /\ frames # << >> /\ ~HasLine
  /\ LET whole == Expand(Top.text)
         caller == Front(frames)
         line == Top.line_no + virtual_line_offset_
     IN  /\ counter_' = IF Accumulating THEN whole.counter ELSE counter_
         /\ Emit((IF Accumulating THEN Invocation(whole.text, line, Top.extra_lines)
                  ELSE << >>) \o
                 (IF caller = << >> THEN << >> ELSE <<ReturnMarker(Last(caller))>>))
         /\ frames' = caller
  /\ virtual_line_offset_' = Top.saved_voffset
  /\ virtual_file_' = Top.saved_vfile
  /\ UNCHANGED <<fixed, table, cond_stack_, includes, diagnostics, interrupted>>

-----------------------------------------------------------------------------
\* preprocess_file: what belongs to one run is reset, the macro table and the
\* stack of saved macros are not.
preprocess_file ==
  /\ frames = << >> /\ roots # << >>
  /\ frames' = <<NewFrame(Head(roots))>>
  /\ roots' = Tail(roots)
  /\ cond_stack_' = << >> /\ pragma_once_files_' = {}
  /\ include_guard_map_' = << >> /\ include_resolve_cache_' = << >>
  /\ virtual_line_offset_' = 0 /\ virtual_file_' = Head(roots)
  /\ counter_' = 0 /\ diagnostics' = 0 /\ interrupted' = FALSE
  /\ out' = <<Marker(Head(roots), 1)>>
  /\ UNCHANGED <<config, table>>

Start ==
  /\ frames = << >> /\ cond_stack_ = << >> /\ macro_stack_ = << >>
  /\ pragma_once_files_ = {} /\ include_guard_map_ = << >> /\ include_resolve_cache_ = << >>
  /\ virtual_line_offset_ = 0 /\ virtual_file_ = << >>
  /\ counter_ = 0 /\ diagnostics = 0 /\ out = << >> /\ interrupted = FALSE

IsMacroTable(t) == DOMAIN t \subseteq Token /\ t \in [DOMAIN t -> MacroDef]

\* What the driver hands over: files, search paths, files to preprocess and
\* predefined macros.
WellFormed ==
  /\ DOMAIN config.files \subseteq Path
  /\ \A file \in DOMAIN config.files : Source(file) \in Seq(SourceLine)
  /\ \A dirs \in {config.quote, config.normal, config.system, config.after} : dirs \in Seq(Path)
  /\ \A rel \in DOMAIN config.builtin : config.builtin[rel] \in DOMAIN config.files
  /\ roots \in Seq(DOMAIN config.files)
  /\ IsMacroTable(macros_)

Init == WellFormed /\ Start

Next ==
  \/ preprocess_file
  \/ handle_ifdef \/ handle_if \/ handle_elif \/ handle_else \/ handle_endif
  \/ SkipDirective
  \/ handle_define \/ handle_undef \/ Diagnose
  \/ handle_pragma \/ process_pragma_text \/ handle_line \/ handle_include
  \/ InactiveText \/ PlainText \/ StartInvocation \/ ContinueInvocation
  \/ EndOfText

Spec == Init /\ [][Next]_vars

-----------------------------------------------------------------------------
\* Properties

(* handle_elif and handle_else: once a branch of a group has been taken no     *)
(* other branch of it becomes active, and nothing is active inside an          *)
(* inactive group, however groups nest, end early or lack their #if.           *)
OneBranchPerGroup ==
  [][/\ \A i \in DOMAIN cond_stack_ \cap DOMAIN cond_stack_' :
          cond_stack_[i].any_taken /\ cond_stack_'[i] # cond_stack_[i]
            => ~cond_stack_'[i].this_active
     /\ \A i, j \in DOMAIN cond_stack_' :
          j < i /\ cond_stack_'[i].this_active => cond_stack_'[j].this_active]_vars

\* The shape the comment on detect_include_guard asks for: the first group of
\* the file has one branch, and nothing follows its #endif.
EndsWithItsGuard(source) ==
  LET open == SelectInSeq(source, LAMBDA l : l.k # "text")
  IN  /\ open > 0
      /\ \A i \in open .. Len(source) :
           /\ Opened(source, i) = 0 => i = Len(source)
           /\ Opened(source, i) = 1 => source[i].k \notin {"else", "elif"}

\* Reading the file with the macros as they are would emit no text.
Silent(source) ==
  /\ \A i \in DOMAIN source :
       source[i].k = "text" /\ source[i].text # << >> => Opened(source, i) > 0
  /\ \E i \in DOMAIN source :
       /\ source[i].k = "ifndef" /\ source[i].name \in DOMAIN macros_
       /\ \A j \in 1 .. i - 1 : source[j].k = "text"

(* handle_include: a file of the guarded shape that is skipped because of its  *)
(* guard would have been read without effect at that moment.                   *)
GuardSkipIsSilent ==
  [][\A path \in DOMAIN include_guard_map_ :
       /\ HasLine /\ Line.k = "include" /\ is_active /\ Len(frames') = Len(frames)
       /\ diagnostics' = diagnostics /\ IsOperand(Line.text)
       /\ Resolve(Line.text, Top.file, Line.next) = path
       /\ path \notin pragma_once_files_ /\ EndsWithItsGuard(Source(path))
       => Silent(Source(path))]_vars

(* include_resolve_cache_: a cached resolution is the one a fresh search       *)
(* would give any file that may ask with the same key.                         *)
CacheIsCoherent ==
  \A key \in DOMAIN include_resolve_cache_ :
    include_resolve_cache_[key] =
      Search(SearchDirs(Append(key[3], key[1]), key[2] = "q", FALSE), 1, key[1])

SearchPath == config.quote \o config.normal \o config.system \o config.after

(* handle_include for #include_next: when no search directory lies inside      *)
(* another, the file entered comes from a later directory than the includer.   *)
IncludeNextAdvances ==
  [][/\ HasLine /\ Line.k = "include" /\ Line.next /\ Len(frames') > Len(frames)
     /\ Last(frames').file \notin Range(config.builtin)
     /\ \A c, d \in Range(SearchPath) : ~IsStrictPrefix(c, d)
     => LET includer == SelectInSeq(SearchPath, LAMBDA d : d = Front(Top.file))
        IN  \E j \in includer + 1 .. Len(SearchPath) :
              SearchPath[j] = Front(Last(frames').file)]_vars

\* Lexer::consume_line_marker and advance: where the i-th line of the output is,
\* a marker numbering the line after it and every newline counting one.
LexerLocation(lines, i) ==
  LET m == SelectLastInSubSeq(lines, 1, i - 1, LAMBDA l : l.k = "marker")
  IN  <<lines[m].file, lines[m].line + (i - m - 1)>>

\* No preserved pragma, and no #include below a #line.
KeepsLines(source) ==
  \A i \in DOMAIN source :
    /\ source[i].k \in {"pragma", "_Pragma"} => source[i].pragma # "preserved"
    /\ source[i].k = "line" => \A j \in i .. Len(source) : source[j].k # "include"

(* README.md, "These fields keep __LINE__, __FILE__, and downstream            *)
(* diagnostics aligned": in programs whose files keep their lines, the lexer   *)
(* places a text of one line where __FILE__ and __LINE__ say it is, and an     *)
(* invocation over several lines at its first, as many lines above __LINE__ as *)
(* it absorbed.  This holds through includes that are entered, skipped,        *)
(* refused or missing, as long as no directive has stood inside an invocation. *)
PositionsAgree ==
  (\A f \in DOMAIN config.files : KeepsLines(Source(f))) /\ ~interrupted
    => \A i \in DOMAIN out :
         out[i].k = "text" /\ out[i].text # << >>
           => LexerLocation(out, i) = <<out[i].file, out[i].line - out[i].extra>>
=============================================================================
