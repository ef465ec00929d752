------------------------------- MODULE MCMatcher -------------------------------
(***************************************************************************)
(* The expressions and the messages of the runs of Matcher.                *)
(***************************************************************************)
EXTENDS Matcher

MCMinPid == -1000

-------------------------------------------------------------------------------
(* Messages: the bits of i decide the four tests of Leaf *)

Str(s) == <<[s |-> s, after |-> "*"]>>
Subjects == <<
  <<>>, Str(<<>>), Str(<<"a">>), Str(<<"b">>), Str(<<"a", "b">>), Str(<<"b", "a">>),
  Str(<<"a", "a", "b">>), Str(<<"a", "1">>), Str(<<"1", "a", "a">>), Str(<<"(", "a", ")">>),
  Str(<<"(", "a", "(", "b", ")", ")">>), Str(<<"a", "b", "a", "b", "1">>), Str(<<"a", "'">>),
  Str(<<" ", "B">>), Str(<<"a", "\\", "b">>), Str(<<"b", "b", "a", "a", "1", "1", "a", "b", "a">>)>>
Bit(i, k) == (i \div 2 ^ k) % 2
Values(i) == <<
  [name |-> <<"v">>, type |-> "string", value |-> <<Str(<<"b">>)[1], Subjects[i + 1][1]>>],
  [name |-> <<"v">>, type |-> "numeric", value |-> <<10 * (i - 3), 5>>],
  [name |-> <<"v">>, type |-> "bool", value |-> <<10, 10 * Bit(i, 0), 0>>]>>
Message(i) == [
  Type |-> Subjects[i + 1], Logger |-> IF Bit(i, 0) = 1 THEN Str(<<"a">>) ELSE <<>>,
  Payload |-> IF Bit(i, 1) = 1 THEN Str(<<"a", "b", "a", "b", "a", "b", "a", "b">>) ELSE Str(<<>>),
  Hostname |-> Str(<<"h">>), EnvVersion |-> <<>>, Uuid |-> Str(<<"u", "NUL", "u">>),
  Severity |-> 70 * Bit(i, 2), Pid |-> IF i = 0 THEN INT_MIN ELSE 10 * i - 40,
  Timestamp |-> IF i = 0 THEN 5 ELSE 10 * Nano * (i * 45 - 90),
  Fields |-> <<[name |-> <<"f">>, type |-> "bool", value |-> <<10 * Bit(i, 3)>>]>>
             \o (IF i = 0 THEN <<>> ELSE Values(i))]
MCMessages == [i \in 1 .. 16 |-> Message(i - 1)]

-------------------------------------------------------------------------------
(* Expressions of all shapes with up to four tests *)

Cmp(kind, var, op, v) == [kind |-> kind, var |-> var, op |-> op, v |-> v]
Eq == <<"=", "=">>
Leaf(k) == [test |->
  CASE k = 1 -> Cmp("string", <<"Logger">>, Eq, <<"a">>)
    [] k = 2 -> Cmp("string", <<"Payload">>, Eq, <<"a", "b", "a", "b", "a", "b", "a", "b">>)
    [] k = 3 -> Cmp("numeric", <<"Severity">>, <<">">>, 0)
    [] k = 4 -> Cmp("bool", <<"Fields", <<"f">>>>, Eq, TRUE)]

\* All expressions with the tests from a to b, also one of them in parentheses.
Each(f(_), s) == FoldLeft(LAMBDA t, x : t \o f(x), <<>>, s)
RECURSIVE Expressions(_, _, _)
Terms(a, b, single) ==
  IF a = b THEN (IF single THEN <<Leaf(a), [group |-> <<<<Leaf(a)>>>>]>> ELSE <<Leaf(a)>>)
  ELSE Each(LAMBDA e : <<[group |-> e]>>, Expressions(a, b, single))
\* Every continuation of e with the tests from a to b.
RECURSIVE Continued(_, _, _, _)
Continued(e, a, b, single) ==
  LET anded(t) == [e EXCEPT ![Len(e)] = Append(@, t)]
      ored(t) == Append(e, <<t>>)
      upto(k) == Each(LAMBDA t : Continued(anded(t), k + 1, b, single)
                                 \o Continued(ored(t), k + 1, b, single), Terms(a, k, single))
  IN  IF a > b THEN <<e>> ELSE Each(upto, [i \in 1 .. b - a + 1 |-> a + i - 1])
Expressions(a, b, single) ==
  LET upto(k) == Each(LAMBDA t : Continued(<<<<t>>>>, k + 1, b, single), Terms(a, k, single))
  IN  IF a = b THEN <<<<<<Leaf(a)>>>>>>
      ELSE Each(upto, [i \in 1 .. b - a |-> a + i - 1])

\* As many constants as fit, and more.
Chain(n) == <<[i \in 1 .. n |-> [test |-> [kind |-> "constant", v |-> i % 2 = 1]]]>>

-------------------------------------------------------------------------------
(* Single tests, and two of which one may leave its mark on the other *)

Mapped(f(_), s) == [i \in DOMAIN s |-> f(s[i])]
Pairs(f(_, _), s, t) == [i \in 1 .. Len(s) * Len(t) |->
                           f(s[((i - 1) \div Len(t)) + 1], t[((i - 1) % Len(t)) + 1])]
Relational == <<Eq, <<"!", "=">>, <<"<">>, <<"<", "=">>, <<">">>, <<">", "=">>>>
EqNe == SubSeq(Relational, 1, 2)
MatchOps == <<<<"=", "~">>, <<"!", "~">>>>
Tested(kind, var, ops, values) == Pairs(LAMBDA op, v : Cmp(kind, var, op, v), ops, values)

FieldV == <<"Fields", <<"v">>>>
Fields == <<FieldV, FieldV \o <<0>>, FieldV \o <<0, 0>>, FieldV \o <<0, 1>>, FieldV \o <<1, 0>>,
            FieldV \o <<1, 1>>, FieldV \o <<2, 1>>, FieldV \o <<2, 2>>, FieldV \o <<2, 3>>,
            FieldV \o <<3, 0>>, <<"Fields", <<"n", "o">>>>>>
Texts == <<<<>>, <<"a">>, <<"b">>, <<"a", "b">>, <<"a", "'">>, <<"a", "\\", "b">>,
           [i \in 1 .. UCHAR_MAX |-> "a"], [i \in 1 .. UCHAR_MAX + 1 |-> "a"]>>
Strings == Each(LAMBDA var : Tested("string", var, Relational, Texts), <<<<"Type">>, FieldV \o <<0, 1>>>>)
           \o Tested("string", <<"Uuid">>, EqNe, <<<<"u">>, <<"a">>>>)
Numbers == Each(LAMBDA var : Tested("numeric", var, Relational, <<-2, 0, 3>>),
                <<<<"Severity">>, <<"Pid">>, <<"Timestamp">>, FieldV \o <<1, 0>>>>)
Others == Each(LAMBDA var : Tested("bool", var, EqNe, <<TRUE, FALSE>>) \o Tested("nil", var, EqNe, <<"">>)
                             \o Tested("numeric", var, EqNe, <<2>>)
                             \o Tested("string", var, EqNe, <<<<"b">>>>), Fields)
          \o Each(LAMBDA var : Tested("nil", var, EqNe, <<"">>), <<<<"Type">>, <<"Logger">>, <<"Pid">>>>)

At0(offset) == [day |-> 1, hour |-> 0, min |-> 1, sec |-> 30, offset |-> offset]
Times == Tested("time", <<"Timestamp">>, Relational,
                <<At0(0), [At0(0) EXCEPT !.sec = 0], [At0(0) EXCEPT !.min = 7, !.sec = 30]>>)
         \o Tested("time", <<"Timestamp">>, <<Eq>>, <<At0(-61), At0(61)>>)

Item(set, text, rep) == [set |-> set, text |-> text, rep |-> rep]
AnyChar == Chars
Items == <<
  Item({"a"}, <<"a">>, <<>>), Item({"b"}, <<"b">>, <<"*">>), Item(AnyChar, <<".">>, <<"-">>),
  Item({"a", "b"}, <<"[", "a", "b", "]">>, <<"+">>), Item(AnyChar \ {"a"}, <<"[", "^", "a", "]">>, <<"*">>),
  Item(Numeral, <<"%", "d">>, <<"?">>), Item({"("}, <<"%", "(">>, <<>>), Item(AnyChar, <<".">>, <<>>),
  Item({"a", "b", "c"}, <<"[", "a", "-", "c", "]">>, <<"-">>),
  Item({}, <<"%", "b", "(", ")">>, <<>>), Item(AnyChar, <<".">>, <<"*">>)>>
Pat(items, anchor, end) == [items |-> items, anchor |-> anchor, end |-> end]
Patterns == <<Pat(<<>>, TRUE, TRUE), Pat(<<>>, FALSE, TRUE)>>
            \o Each(LAMBDA x : <<Pat(<<x>>, FALSE, FALSE), Pat(<<x>>, TRUE, FALSE), Pat(<<x>>, FALSE, TRUE),
                                 Pat(<<x>>, TRUE, TRUE)>>, Items)
            \o Pairs(LAMBDA x, y : Pat(<<x, y>>, FALSE, TRUE), Items, Items)
            \o [i \in 1 .. Len(Items) - 1 |-> Pat(<<Items[i + 1], Items[i], Items[1]>>, TRUE, FALSE)]
Literals == <<<<>>, <<"a">>, <<"b", "a">>, <<"a", "b", "1">>, <<"b", "a", "b", "1">>>>
Searches == Tested("pattern", <<"Type">>, MatchOps, Patterns)
            \o Tested("literal", <<"Type">>, MatchOps, Literals)

Alone(t) == <<<<[test |-> t]>>>>
Both(t, u) == <<<<[test |-> t], [test |-> u]>>>>
Marks == SubSeq(Times, 1, 3) \o Tested("nil", FieldV \o <<1, 1>>, EqNe, <<"">>)
Marked == Tested("numeric", FieldV \o <<1, 1>>, <<Eq>>, <<2>>) \o Tested("nil", FieldV, EqNe, <<"">>)

-------------------------------------------------------------------------------
(* Texts of pieces *)

Pieces == <<<<"TRUE">>, <<"&", "&">>, <<"|", "|">>, <<"(">>, <<")">>>>
RECURSIVE Assembled(_)
Assembled(n) == IF n = 0 THEN <<<<>>>> ELSE Pairs(LAMBDA t, x : t \o x, Assembled(n - 1), Pieces)

Expressed(es) == [i \in DOMAIN es |-> [text |-> Language!Written(es[i]), e |-> es[i]]]
Bare(texts) == [i \in DOMAIN texts |-> [text |-> texts[i], e |-> <<>>]]

MCInputs ==
  Expressed(Expressions(1, 4, FALSE) \o Expressions(1, 3, TRUE) \o [n \in 1 .. 7 |-> Chain(n)]
            \o Mapped(Alone, Strings \o Numbers \o Others \o Times \o Searches)
            \o Pairs(Both, Marks, Marked))
  \o Bare(Each(Assembled, <<0, 1, 2, 3, 4, 5>>))
===============================================================================
