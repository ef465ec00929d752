---------------------------- MODULE MatcherParser -----------------------------
(***************************************************************************)
(* The recognizer peg generates, as an interpreter of MatcherGrammar, and  *)
(* the semantic actions of the message matcher's grammar.                  *)
(*                                                                         *)
(* A parser y has the position "pos" in the input, the actions "th" to be  *)
(* run if all is recognized, the last text marked (from "b" to "e") and    *)
(* the number of logical operators met; "ok" is the result of a rule.  A   *)
(* failure undoes the position and the actions, but not the marks.         *)
(***************************************************************************)
EXTENDS MatcherGrammar

yytext(in, b, e) == SubSeq(in, b + 1, e)

\* What a quoted text stands for: a backslash quotes a quote and a backslash.
RECURSIVE Unescaped(_)
Unescaped(s) ==
  IF s = <<>> THEN <<>>
  ELSE IF Len(s) > 1 /\ s[1] = "\\" /\ s[2] \in {"\"", "'", "\\"}
       THEN <<s[2]>> \o Unescaped(SubSeq(s, 3, Len(s)))
       ELSE <<s[1]>> \o Unescaped(Tail(s))

check_string_len(text) == Len(Unescaped(text)) <= UCHAR_MAX
\* One test fewer than fits.
cond_cnt_short(cnt) == cnt * 2 + 1 < UCHAR_MAX
cond_cnt(cnt) == cnt * 2 + 1 <= UCHAR_MAX

Failed(y, z) == [z EXCEPT !.ok = FALSE, !.pos = y.pos, !.th = y.th]
Succeeded(y) == [y EXCEPT !.ok = TRUE]

RECURSIVE Parse(_, _, _), ParseAll(_, _, _), ParseAny(_, _, _), ParseMany(_, _, _)
Parse(in, x, y) ==
  LET matched(n, test) == IF test THEN [y EXCEPT !.ok = TRUE, !.pos = @ + n]
                          ELSE Failed(y, y)
      ruled(z) == IF z.ok THEN z ELSE Failed(y, z)
      counted(z) == [z EXCEPT !.ok = cond_cnt(z.cnt)]
      denied(z) == IF z.ok THEN Failed(y, z) ELSE Succeeded(Failed(y, z))
      left == Len(in) - y.pos
      thunk == [act |-> x.act, n |-> x.n, b |-> y.b, e |-> y.e]
  IN  CASE x.k = "lit" -> matched(Len(x.s), left >= Len(x.s) /\
                                   SubSeq(in, y.pos + 1, y.pos + Len(x.s)) = x.s)
        [] x.k = "class" -> matched(1, left > 0 /\ in[y.pos + 1] \in x.S)
        [] x.k = "except" -> matched(1, left > 0 /\ in[y.pos + 1] \notin x.S)
        [] x.k = "rule" -> ruled(Parse(in, Grammar[x.name], y))
        [] x.k = "cat" -> ParseAll(in, x.xs, y)
        [] x.k = "alt" -> ParseAny(in, x.xs, y)
        [] x.k = "star" -> ParseMany(in, x.x, y)
        [] x.k = "not" -> denied(Parse(in, x.x, y))
        [] x.k = "begin" -> [y EXCEPT !.ok = TRUE, !.b = y.pos]
        [] x.k = "end" -> [y EXCEPT !.ok = TRUE, !.e = y.pos]
        [] x.k = "do" -> [y EXCEPT !.ok = TRUE, !.th = Append(@, thunk)]
        [] x.k = "pred" ->
             IF x.name = "cond_cnt" THEN counted([y EXCEPT !.cnt = @ + 1])
             ELSE [y EXCEPT !.ok = check_string_len(yytext(in, y.b, y.e))]
ParseAll(in, xs, y) ==
  LET next(z) == IF z.ok THEN ParseAll(in, Tail(xs), z) ELSE z
  IN  IF xs = <<>> THEN Succeeded(y) ELSE next(Parse(in, Head(xs), y))
ParseAny(in, xs, y) ==
  LET next(z) == IF z.ok THEN z ELSE ParseAny(in, Tail(xs), Failed(y, z))
  IN  IF xs = <<>> THEN Failed(y, y) ELSE next(Parse(in, Head(xs), y))
ParseMany(in, x, y) ==
  LET next(z) == IF z.ok THEN ParseMany(in, x, z) ELSE Succeeded(Failed(y, z))
  IN  next(Parse(in, x, y))

-------------------------------------------------------------------------------
(***************************************************************************)
(* The context the actions work on: the test being built (mn), the output, *)
(* the stack of operators, the date being read, and the values of the      *)
(* variables of the rules (vals, val points past those in scope, cur is    *)
(* the value of the last rule).  Values are not cleared when they go out   *)
(* of scope.                                                               *)
(***************************************************************************)
NoNode == [id |-> "", op |-> "OP_EQ", val_mod |-> "PATTERN_MOD_NONE", val_type |-> "TYPE_NIL",
           val_len |-> 0, var |-> <<>>, s |-> <<>>, d |-> 0, fi |-> 0, ai |-> 0]
NoDate == [isdst |-> 0, year |-> 0, mon |-> 0, mday |-> 0, hour |-> 0, min |-> 0, sec |-> 0]
Context == [mn |-> NoNode, out |-> <<>>, ops |-> <<>>, tms |-> NoDate,
            vals |-> [i \in 0 .. 3 |-> 0], val |-> 0, cur |-> 0]

OpNode(op) == [NoNode EXCEPT !.op = op]
Precedence == [OP_OPEN |-> 10, OP_OR |-> 11, OP_AND |-> 12]

push_output(c, mn) == [c EXCEPT !.out = Append(@, mn)]

push_op(c, op) ==
  LET top == Last(c.ops)
  IN  IF c.ops = <<>> \/ op = "OP_OPEN" \/ Precedence[op] > Precedence[top]
      THEN [c EXCEPT !.ops = Append(@, op)]
      ELSE [push_output(c, OpNode(top)) EXCEPT !.ops = Append(Front(@), op)]

\* The parenthesis itself stays on the stack.
RECURSIVE pop_to_paren(_)
pop_to_paren(c) ==
  IF c.ops = <<>> \/ Last(c.ops) = "OP_OPEN" THEN c
  ELSE pop_to_paren([push_output(c, OpNode(Last(c.ops))) EXCEPT !.ops = Front(@)])

RECURSIVE pop_all_ops(_)
pop_all_ops(c) ==
  LET top == Last(c.ops)
      popped(d) == [d EXCEPT !.ops = Front(@)]
  IN  IF c.ops = <<>> THEN c
      ELSE pop_all_ops(popped(IF top = "OP_OPEN" THEN c ELSE push_output(c, OpNode(top))))

-------------------------------------------------------------------------------
(* Numbers, dates and values *)

DigitValue == [c \in {Digits[i] : i \in 1 .. 10} |->
                 CHOOSE n \in 0 .. 9 : Digits[n + 1] = c]
atoi(s) == FoldLeft(LAMBDA n, c : 10 * n + DigitValue[c], 0, s)

\* The digits of s from position i on, up to the first other character.
DigitsFrom(s, i) ==
  LET end == CHOOSE e \in i - 1 .. Len(s) : /\ \A k \in i .. e : s[k] \in DOMAIN DigitValue
                                            /\ e < Len(s) => s[e + 1] \notin DOMAIN DigitValue
  IN  SubSeq(s, i, end)

\* strtod, in tenths; what is below a tenth is cut off.
Tenths(digits, exp) ==
  IF exp >= 0 THEN atoi(digits) * 10 ^ exp ELSE atoi(digits) \div 10 ^ (0 - exp)
strtod(s) ==
  LET sign == IF s[1] = "-" THEN -1 ELSE 1
      i == IF s[1] \in {"-", "+"} THEN 2 ELSE 1
      int == DigitsFrom(s, i)
      p == i + Len(int)
      frac == IF p <= Len(s) /\ s[p] = "." THEN DigitsFrom(s, p + 1) ELSE <<>>
      q == IF frac = <<>> THEN p ELSE p + 1 + Len(frac)
      minus == q < Len(s) /\ s[q + 1] = "-"
      signed == q < Len(s) /\ s[q + 1] \in {"-", "+"}
      exp == IF q > Len(s) THEN 0
             ELSE (IF minus THEN -1 ELSE 1) * atoi(DigitsFrom(s, q + (IF signed THEN 2 ELSE 1)))
  IN  sign * Tenths(int \o frac, 1 + exp - Len(frac))

\* The seconds since the epoch, in UTC, from 1970 on.
DaysIn(year) == IF year % 4 = 0 /\ (year % 100 # 0 \/ year % 400 = 0) THEN 366 ELSE 365
MonthDays(year) == <<31, DaysIn(year) - 337, 31, 30, 31, 30, 31, 31, 30, 31, 30, 31>>
SumTo(f(_), n) == FoldLeft(LAMBDA t, i : t + f(i), 0, [i \in 1 .. n |-> i])
mktime(t) ==
  LET year == t.year + 1900
      days == SumTo(LAMBDA i : DaysIn(1969 + i), year - 1970)
              + SumTo(LAMBDA i : MonthDays(year)[i], t.mon) + t.mday - 1
  IN  days * 86400 + t.hour * 3600 + t.min * 60 + t.sec

set_timestamp(c) ==
  LET d == IF c.tms.isdst = -1 THEN (c.mn.d + 10 * mktime(c.tms)) * Nano ELSE c.mn.d
  IN  [c EXCEPT !.mn.id = "Timestamp", !.mn.val_type = "TYPE_NUMERIC", !.mn.d = d,
                !.tms = NoDate]

update_date(c, year, mon, day) ==
  [c EXCEPT !.tms.isdst = -1, !.tms.year = year - 1900, !.tms.mon = mon - 1, !.tms.mday = day]
update_time(c, hour, minute, sec) ==
  [c EXCEPT !.tms.hour = hour, !.tms.min = minute, !.tms.sec = sec]
update_offset(c, sign, hour, minute) ==
  [c EXCEPT !.mn.d = @ + 10 * (hour * 3600 + minute * 60) * (IF sign = "-" THEN -1 ELSE 1)]

set_field(c, name) == [c EXCEPT !.mn.id = "Fields", !.mn.var = name]
set_numeric_value(c, s) == [c EXCEPT !.mn.val_type = "TYPE_NUMERIC", !.mn.d = strtod(s)]
set_string_value(c, s) ==
  [c EXCEPT !.mn.val_type = "TYPE_STRING", !.mn.s = Unescaped(s), !.mn.val_len = Len(Unescaped(s))]
PatternChars == {"^", "$", "*", "+", "?", ".", "[", "%", "-"}
set_match_mod(c) ==
  IF c.mn.val_mod = "PATTERN_MOD_NONE" /\ ToSet(c.mn.s) \cap PatternChars = {}
  THEN [c EXCEPT !.mn.val_mod = "PATTERN_MOD_ESC"] ELSE c

-------------------------------------------------------------------------------
(* The actions *)

DateAction(c, act, text) ==
  LET var(i) == c.vals[c.val + i]
  IN  CASE act = "second_frac" -> [c EXCEPT !.mn.d = @ + strtod(text)]
        [] act = "atoi" -> [c EXCEPT !.cur = atoi(text)]
        [] act = "update_offset" -> update_offset(c, text[1], var(-2), var(-1))
        [] act = "utc" -> update_offset(c, "+", 0, 0)
        [] act = "update_time" -> update_time(c, var(-3), var(-2), var(-1))
        [] act = "update_date" -> update_date(c, var(-3), var(-2), var(-1))
        [] act = "set_timestamp" -> set_timestamp(c)

ValueAction(c, act, text) ==
  LET var(i) == c.vals[c.val + i]
  IN  CASE act = "ai" -> [c EXCEPT !.mn.ai = var(-1)]
        [] act = "fi" -> [c EXCEPT !.mn.fi = var(-2)]
        [] act = "set_field" -> set_field(c, text)
        [] act = "set_numeric_value" -> set_numeric_value(c, text)
        [] act = "PATTERN_MOD_ESC" -> [c EXCEPT !.mn.val_mod = act]
        [] act = "set_match_mod" -> set_match_mod(c)
        [] act = "set_string_value" -> set_string_value(c, text)

LogicAction(c, act) ==
  CASE act = "close" -> pop_to_paren(c)
    [] act \in DOMAIN Precedence -> push_op(c, act)
    [] act = "test" -> [push_output(c, c.mn) EXCEPT !.mn = NoNode]
    [] act = "match" -> pop_all_ops(c)

\* The header an action names, the type or the operator it sets.
HeaderActions == {Headers[i] : i \in 1 .. 5} \cup {"Uuid", "Severity", "Pid"}
TypeActions == {"TYPE_NIL", "TYPE_TRUE", "TYPE_FALSE"}
OperatorActions == {"OP_EQ", "OP_NE", "OP_RE", "OP_NRE", "OP_GTE", "OP_GT", "OP_LTE", "OP_LT",
                    "OP_TRUE", "OP_FALSE"}

VariableAction(c, act, n) ==
  CASE act = "yyPush" -> [c EXCEPT !.val = @ + n]
    [] act = "yyPop" -> [c EXCEPT !.val = @ - n]
    [] act = "yySet" -> [c EXCEPT !.vals[c.val + n] = c.cur]

DateActions == {"second_frac", "atoi", "update_offset", "utc", "update_time", "update_date",
                "set_timestamp"}
LogicActions == DOMAIN Precedence \cup {"close", "test", "match"}
Action(in, c, th) ==
  LET text == yytext(in, th.b, th.e)
  IN  CASE th.act \in {"yyPush", "yyPop", "yySet"} -> VariableAction(c, th.act, th.n)
        [] th.act \in LogicActions -> LogicAction(c, th.act)
        [] th.act \in HeaderActions -> [c EXCEPT !.mn.id = th.act]
        [] th.act \in TypeActions -> [c EXCEPT !.mn.val_type = th.act]
        [] th.act \in OperatorActions -> [c EXCEPT !.mn.op = th.act]
        [] th.act \in DateActions -> DateAction(c, th.act, text)
        [] OTHER -> ValueAction(c, th.act, text)

yyDone(in, y) == FoldLeft(LAMBDA c, th : Action(in, c, th), Context, y.th)

\* The nodes of the expression, in postfix order, or <<>> if it is malformed.
yyparse(in) ==
  LET start == [ok |-> TRUE, pos |-> 0, th |-> <<>>, b |-> 0, e |-> 0, cnt |-> 0]
      done(y) == IF y.ok THEN yyDone(in, y).out ELSE <<>>
  IN  done(Parse(in, Rule("match"), start))

===============================================================================
