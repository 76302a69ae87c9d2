--------------------------- MODULE MCPreprocessor ---------------------------
(* Small programs for the preprocessor, in families that each exercise one     *)
(* part of it: conditionals, guarded headers, include search, source           *)
(* positions, macro expansion, and the rarer directives.                       *)
EXTENDS Preprocessor, MacroExpand, TLC

MCToken == STRING

\* expand_text looks for the parentheses of a call in the text it is scanning:
\* the line calls every function-like macro it names, and no body ends in the name
\* of a macro, whose call would then lie outside the body.
CallsInPlace(text) ==
  /\ \A n \in DOMAIN macros_ :
       macros_[n].body # << >> => Last(macros_[n].body) \notin DOMAIN macros_
  /\ \A i \in DOMAIN text : IsFunctionLike(macros_, text[i]) => Opens(From(text, i + 1))

\* No name between parentheses, in the text or in a body, leads to a macro that
\* leads back to itself.
Mentions(name) == Range(macros_[name].body) \cap DOMAIN macros_
Enclosed(text) == {text[i] : i \in {j \in DOMAIN text : HasUnbalancedParens(SubSeq(text, 1, j))}}
Arguments(text) ==
  (Enclosed(text) \cup UNION {Enclosed(macros_[n].body) : n \in DOMAIN macros_}) \cap DOMAIN macros_
ArgumentsEnd(text) ==
  \E S \in SUBSET DOMAIN macros_ :
    /\ Arguments(text) \subseteq S
    /\ \E rank \in [S -> 1 .. Cardinality(S)] :
         \A n \in S : \A m \in Mentions(n) : m \in S /\ rank[m] < rank[n]

(* expand_text, "hideset support (C11 6.10.3.4)": a line expands as the        *)
(* standard's hide sets have it, in tables of object-like macros however they  *)
(* refer to each other, and with function-like macros, recursive ones too,     *)
(* when their calls are in place and their arguments come to an end.           *)
ExpansionFollowsHideSets ==
  /\ HasLine /\ Line.k = "text"
  /\ \/ \A n \in DOMAIN macros_ : ~macros_[n].function_like
     \/ CallsInPlace(Line.text) /\ ArgumentsEnd(Line.text)
  => Agrees(Without(macros_, CounterName), Line.text)

(* The same of every argument: the paint of a name that was left alone while   *)
(* the argument was expanded is still there when the body is rescanned.        *)
PaintOutlivesArguments ==
  HasLine /\ Line.k = "text" /\ CallsInPlace(Line.text)
    => Agrees(Without(macros_, CounterName), Line.text)

-----------------------------------------------------------------------------
Lists(S, n) == UNION {[1 .. k -> S] : k \in 0 .. n}

T(text) == [k |-> "text", text |-> text]
If(k, text) == [k |-> k, text |-> text]
Named(k, name) == [k |-> k, name |-> name]
Else == [k |-> "else"]
Endif == [k |-> "endif"]
Define(name, macro) == [k |-> "define", name |-> name, macro |-> macro]
Quoted(rel) == [k |-> "include", text |-> <<"\"", rel, "\"">>, next |-> FALSE]
Angled(rel) == [k |-> "include", text |-> <<"<", rel, ">">>, next |-> FALSE]
NextOf(line) == [line EXCEPT !.next = TRUE]
Prag(k, pragma, name) == [k |-> k, pragma |-> pragma, name |-> name]
LineTo(number, file) == [k |-> "line", number |-> number, file |-> file]
Other(k) == [k |-> k]

Main == <<"m.c">>
Header == <<"h">>
Builtin == <<"<builtin-b>">>
Predefined == CounterName :> ObjectMacro(<<"0">>)

Program(files) ==
  config = [files |-> files @@ (Builtin :> <<T(<<"b">>)>>), quote |-> << >>,
            normal |-> << >>, system |-> << >>, after |-> << >>,
            builtin |-> ("b" :> Builtin), cxx_headers |-> {"x"}]

\* Every sequence of conditional directives around one macro.
ConditionalInit ==
  /\ \E main \in Lists({If("if", <<"X">>), If("elif", <<"X">>), Else, Endif,
                        Define("X", ObjectMacro(<<"1">>)), T(<<"a">>)}, 5) :
       Program(Main :> main)
  /\ roots = <<Main>> /\ macros_ = Predefined

\* A header read twice, with and without its guard taken back in between.
GuardInit ==
  /\ \E header \in Lists({Named("ifndef", "G"), Define("G", ObjectMacro(<< >>)), Endif,
                          T(<<"a">>), Else}, 5),
        between \in {T(<< >>), Named("undef", "G")} :
       Program((Main :> <<Quoted("h"), between, Quoted("h"), T(<<"e">>)>>) @@ (Header :> header))
  /\ roots = <<Main>> /\ macros_ = Predefined

\* Two headers in three directories, asking for each other in every way.
Dir(d, rel) == <<d, rel>>
SearchInit ==
  /\ \E asks \in [{"h", "k"} -> {Quoted("k"), Angled("k"), NextOf(Quoted("h")), NextOf(Angled("k")),
                                 T(<<"a">>)}],
        places \in SUBSET ({"p", "q", "r"} \X {"h", "k"}), order \in {1, 2, 3} :
       LET files == [path \in {Dir(at[1], at[2]) : at \in places} |-> <<asks[path[2]], T(<<"t">>)>>]
           list(n) == IF order = n THEN <<<<"q">>>> ELSE << >>
       IN  config = [files |-> files @@ (Dir("p", "m.c") :> <<Quoted("h"), Angled("h"), Quoted("k")>>) @@
                               (Builtin :> <<T(<<"b">>)>>),
                     quote |-> <<<<"p">>>>, normal |-> list(1) \o <<<<"r">>>>,
                     system |-> list(2), after |-> list(3),
                     builtin |-> ("b" :> Builtin), cxx_headers |-> {"x"}]
  /\ roots = <<Dir("p", "m.c")>> /\ macros_ = Predefined

\* Lines that move the positions of the lines after them; a macro that opens a
\* parenthesis keeps an invocation open.
PositionInit ==
  /\ \E main \in Lists({T(<<"a">>), T(<<"f", "(">>), T(<<"c", ")">>), T(<<"O", ")">>), Quoted("h"),
                        LineTo(50, << >>), Prag("pragma", "preserved", ""),
                        Prag("_Pragma", "once", "")}, 4),
        header \in {<<T(<<"b">>)>>, <<LineTo(90, <<"v">>), T(<<"b">>)>>,
                    <<T(<<"g", "(">>), T(<<"d">>)>>} :
       Program((Main :> main) @@ (Header :> header))
  /\ roots = <<Main>> /\ macros_ = Predefined @@ ("O" :> ObjectMacro(<<"(">>))

\* One line of text under every small macro table.
ExpandInit ==
  /\ \E a \in Lists({"A", "B", "n"}, 2) \cup {<<"F", "(", x, ")">> : x \in {"A", "B", "n"}},
        b \in {<< >>, <<"A">>, <<"F", "n">>, <<"F", "(", "n", ")">>, <<"A", "n">>},
        f \in Lists({"A", "F", Parameter, "n"}, 2) \cup {<<"none">>},
        t \in {<<"A">>, <<"A", "B", "n">>, <<"F", "(", "A", ")">>, <<"F", "(", "F", "(", "B", ")", ")">>,
               <<"A", "(", "n", ")">>, <<"F", "(", "F", ")", "(", "n", ")">>, <<"B", "(", "A", ")">>} :
       /\ Program(Main :> <<T(t)>>)
       /\ macros_ = ("A" :> ObjectMacro(a)) @@ ("B" :> ObjectMacro(b)) @@ Predefined @@
                    (IF f = <<"none">> THEN << >> ELSE "F" :> FunctionMacro(f))
  /\ roots = <<Main>>

\* The rest: recursion to the depth limit, saved macros, computed includes,
\* builtin and refused headers, diagnostics, and a second run.
MixedInit ==
  /\ \E main \in Lists({Quoted("h"), Angled("b"), Quoted("x"), Quoted("none"),
                        [k |-> "include", text |-> <<"M">>, next |-> FALSE],
                        Prag("pragma", "push_macro", "M"), Prag("pragma", "pop_macro", "M"), Prag("_Pragma", "pop_macro", "M"),
                        Define("M", ObjectMacro(<<"<", "b", ">">>)), Named("undef", "M")}, 3),
        header \in {<<Quoted("h"), Angled("b"), T(<<CounterName>>)>>,
                    <<Prag("_Pragma", "once", ""), Quoted("h"), T(<<CounterName>>)>>,
                    <<If("if", <<CounterName>>), Other("error"), Endif, Other("other")>>,
                    <<If("if", <<"__has_include", "<", "b", ">">>), T(<<CounterName, "(">>),
                      Prag("_Pragma", "push_macro", "M"), Named("undef", "M")>>,
                    <<Other("error"), Endif, Named("ifdef", "M"), Prag("pragma", "once", "")>>} :
       Program((Main :> main) @@ (Header :> header) @@ (<<"x">> :> << >>))
  /\ roots \in {<<Main>>, <<Main, Header>>} /\ macros_ = Predefined

MCInit ==
  /\ \/ ConditionalInit \/ GuardInit \/ SearchInit
     \/ PositionInit \/ ExpandInit \/ MixedInit
  /\ Init

MCSpec == MCInit /\ [][Next]_vars
=============================================================================
