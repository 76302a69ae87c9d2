---------------------------- MODULE MacroExpand ----------------------------
(* Macro expansion of the preprocessor: Preprocessor::expand_text and         *)
(* expand_funclike_call (preprocessor.cpp) with the argument collection and    *)
(* the body substitution of pp_macro_expand.cpp.                               *)
(*                                                                             *)
(* A text is a sequence of tokens.  A macro table maps names to definitions;   *)
(* a function-like macro has the one parameter Parameter.  Strings, numbers,   *)
(* the # and ## operators and variadic macros are left out.                    *)
EXTENDS Naturals, Sequences
LOCAL INSTANCE SequencesExt

CONSTANT Parameter

CounterName == "__COUNTER__"

ObjectMacro(body) == [function_like |-> FALSE, body |-> body]
FunctionMacro(body) == [function_like |-> TRUE, body |-> body]

\* Where the parenthesis opened at k closes, one past the end if it does not.
ClosingParen(text, k) ==
  LET count(j, token) == Len(SelectSeq(SubSeq(text, k, j), LAMBDA t : t = token))
      closed(j) == count(j, "(") <= count(j, ")")
      ends == {j \in k .. Len(text) : closed(j)}
  IN  IF ends = {} THEN Len(text) + 1 ELSE CHOOSE j \in ends : \A i \in ends : j <= i

Opens(text) == text # << >> /\ Head(text) = "("
From(text, k) == SubSeq(text, k, Len(text))

Substitute(body, arg) ==
  FlattenSeq([i \in DOMAIN body |-> IF body[i] = Parameter THEN arg ELSE <<body[i]>>])

IsFunctionLike(table, name) == name \in DOMAIN table /\ table[name].function_like

\* A replacement that is one function-like name takes the next parentheses of
\* the caller's text; the set it is tested against is the caller's.
Chains(table, replacement, rest, disabled) ==
  /\ Len(replacement) = 1
  /\ IsFunctionLike(table, replacement[1])
  /\ replacement[1] \notin disabled
  /\ Opens(rest)

\* The numbers __COUNTER__ expands to matter only by whether they are zero.
CounterToken(counter) == IF counter = 0 THEN "0" ELSE "1"

RECURSIVE ExpandText(_, _, _, _)
RECURSIVE ExpandFunclikeCall(_, _, _, _)

\* Mutant: the argument is expanded as if it stood in the macro's body.
ExpandArgumentInside(table, text, disabled, counter) ==
  LET close == ClosingParen(text, 2)
      inside == disabled \cup {Head(text)}
      arg == ExpandText(table, SubSeq(text, 3, close - 1), inside, counter)
      replacement == ExpandText(table, Substitute(table[Head(text)].body, arg.text),
                                inside, arg.counter)
  IN  [text |-> replacement.text, rest |-> From(text, close + 1),
       counter |-> replacement.counter]

\* text starts with the name of the macro and an opening parenthesis.
ExpandFunclikeCall(table, text, disabled, counter) ==
  LET close == ClosingParen(text, 2)
      arg == ExpandText(table, SubSeq(text, 3, close - 1), disabled, counter)
      replacement == ExpandText(table, Substitute(table[Head(text)].body, arg.text),
                                disabled \cup {Head(text)}, arg.counter)
      rest == From(text, close + 1)
  IN  IF Chains(table, replacement.text, rest, disabled)
      THEN ExpandFunclikeCall(table, replacement.text \o rest, disabled, replacement.counter)
      ELSE [text |-> replacement.text, rest |-> rest, counter |-> replacement.counter]

ExpandText(table, text, disabled, counter) ==
  IF text = << >> THEN [text |-> << >>, counter |-> counter]
  ELSE
    LET ident == Head(text)
        call == ExpandFunclikeCall(table, text, disabled, counter)
        object == ExpandText(table, table[ident].body, disabled \cup {ident}, counter)
        step ==
          CASE ident \notin DOMAIN table \/ ident \in disabled ->
                 [text |-> <<ident>>, rest |-> Tail(text), counter |-> counter]
            [] IsFunctionLike(table, ident) /\ ident \notin disabled ->
                 IF Opens(Tail(text)) THEN call
                 ELSE [text |-> <<ident>>, rest |-> Tail(text), counter |-> counter]
            [] ident = CounterName /\ ident \in DOMAIN table /\ ident \notin disabled ->
                 [text |-> <<CounterToken(counter)>>, rest |-> Tail(text),
                  counter |-> counter + 1]
            [] OTHER -> [text |-> object.text, rest |-> Tail(text), counter |-> object.counter]
        tail == ExpandText(table, step.rest, disabled, step.counter)
    IN  [text |-> step.text \o tail.text, counter |-> tail.counter]

ExpandLine(table, text, counter) == ExpandText(table, text, {}, counter)

(***************************************************************************)
(* The expansion of C11 6.10.3.4, which the comment on expand_text names:  *)
(* every token carries the set of macros it may not be expanded as, and a  *)
(* replacement is rescanned together with the rest of the text.            *)
(***************************************************************************)
Painted(text, hidden) == [i \in DOMAIN text |-> [token |-> text[i], hidden |-> hidden]]
Plain(painted) == [i \in DOMAIN painted |-> painted[i].token]
Hide(painted, names) ==
  [i \in DOMAIN painted |-> [painted[i] EXCEPT !.hidden = @ \cup names]]

RECURSIVE HideSetExpand(_, _)
HideSetExpand(table, text) ==
  IF text = << >> THEN << >>
  ELSE
    LET name == Head(text).token
        hidden == Head(text).hidden
        rest == Tail(text)
        expandable == name \in DOMAIN table /\ name \notin hidden
        close == ClosingParen(Plain(text), 2)
        actual == HideSetExpand(table, SubSeq(text, 3, close - 1))
        body == Painted(table[name].body, {})
        replaced == FlattenSeq([i \in DOMAIN body |->
                      IF body[i].token = Parameter THEN actual ELSE <<body[i]>>])
        shared == IF close \in DOMAIN text THEN hidden \cap text[close].hidden ELSE hidden
    IN  CASE ~expandable -> <<Head(text)>> \o HideSetExpand(table, rest)
          [] expandable /\ ~IsFunctionLike(table, name) ->
               HideSetExpand(table, Hide(body, hidden \cup {name}) \o rest)
          [] expandable /\ IsFunctionLike(table, name) /\ Opens(Plain(rest)) ->
               HideSetExpand(table, Hide(replaced, shared \cup {name}) \o From(text, close + 1))
          [] OTHER -> <<Head(text)>> \o HideSetExpand(table, rest)

\* Expansion without __COUNTER__ against that definition.
Agrees(table, text) ==
  ExpandText(table, text, {}, 0).text = Plain(HideSetExpand(table, Painted(text, {})))
=============================================================================
