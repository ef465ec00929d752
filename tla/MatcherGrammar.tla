---------------------------- MODULE MatcherGrammar ----------------------------
(***************************************************************************)
(* The parser of message matcher expressions                               *)
(* (src/util/heka_message_matcher_parser.c, generated by peg from the      *)
(* .leg file beside it): the rules as data, the generated recognizer as    *)
(* an interpreter of them, and the semantic actions, which run only when   *)
(* the whole expression is recognized and build a postfix array of nodes.  *)
(*                                                                         *)
(* The input is a sequence of tokens: single characters, and a token for   *)
(* each keyword.  A double is an integer number of tenths.                 *)
(***************************************************************************)
EXTENDS Integers, Sequences, SequencesExt

CONSTANTS
  UCHAR_MAX,    \* 255: of nodes, of the bytes of a string, of a length
  Nano          \* 10^9

ASSUME MatcherLimits == UCHAR_MAX \in Nat \ {0} /\ Nano \in Nat \ {0}

-------------------------------------------------------------------------------
(* Parsing expressions *)

Lit(s) == [k |-> "lit", s |-> s]
Class(S) == [k |-> "class", S |-> S]
Except(S) == [k |-> "except", S |-> S]
Rule(name) == [k |-> "rule", name |-> name]
Cat(xs) == [k |-> "cat", xs |-> xs]
Alt(xs) == [k |-> "alt", xs |-> xs]
Star(x) == [k |-> "star", x |-> x]
Not(x) == [k |-> "not", x |-> x]
Opt(x) == Alt(<<x, Cat(<<>>)>>)
Plus(x) == Cat(<<x, Star(x)>>)
Begin == [k |-> "begin"]
End == [k |-> "end"]
Pred(name) == [k |-> "pred", name |-> name]
Do(act) == [k |-> "do", act |-> act, n |-> 0]
yyPush(n) == [k |-> "do", act |-> "yyPush", n |-> n]
yySet(n) == [k |-> "do", act |-> "yySet", n |-> n]
yyPop(n) == [k |-> "do", act |-> "yyPop", n |-> n]

Chr(c) == Lit(<<c>>)
Seqs(names) == Cat([i \in DOMAIN names |-> Rule(names[i])])
AnyOf(names) == Alt([i \in DOMAIN names |-> Rule(names[i])])
Digits == <<"0", "1", "2", "3", "4", "5", "6", "7", "8", "9">>
Digit(a, b) == Class({Digits[i + 1] : i \in a .. b})
Text(xs) == Cat(<<Begin>> \o xs \o <<End>>)

-------------------------------------------------------------------------------
(* The rules *)

yy_match == Cat(<<Rule("sp"), Rule("ored"), Rule("eol"), Do("match")>>)
yy_ored == Cat(<<Rule("anded"), Star(Seqs(<<"or", "anded">>)), Rule("sp")>>)
yy_anded == Cat(<<Rule("expr"), Star(Seqs(<<"and", "expr">>)), Rule("sp")>>)
yy_expr == Alt(<<Rule("test"), Seqs(<<"open", "ored", "close">>)>>)
yy_test ==
  Cat(<<AnyOf(<<"uuid", "timestamp", "optional_string_headers", "severity",
              "pid", "field_test", "boolean_test">>), Do("test"), Rule("sp")>>)

yy_op_eq == Cat(<<Lit(<<"=", "=">>), Rule("sp"), Do("OP_EQ")>>)
yy_op_ne == Cat(<<Lit(<<"!", "=">>), Rule("sp"), Do("OP_NE")>>)
yy_op_seq == Cat(<<Lit(<<"=", "~">>), Rule("sp"), Do("OP_RE")>>)
yy_op_sne == Cat(<<Lit(<<"!", "~">>), Rule("sp"), Do("OP_NRE")>>)
yy_op_gte == Cat(<<Lit(<<">", "=">>), Rule("sp"), Do("OP_GTE")>>)
yy_op_gt == Cat(<<Chr(">"), Rule("sp"), Do("OP_GT")>>)
yy_op_lte == Cat(<<Lit(<<"<", "=">>), Rule("sp"), Do("OP_LTE")>>)
yy_op_lt == Cat(<<Chr("<"), Rule("sp"), Do("OP_LT")>>)
yy_relational == AnyOf(<<"op_eq", "op_ne", "op_gte", "op_gt", "op_lte", "op_lt">>)

yy_boolean_test ==
  Alt(<<Cat(<<Rule("true"), Do("OP_TRUE")>>), Cat(<<Rule("false"), Do("OP_FALSE")>>)>>)
yy_boolean ==
  Alt(<<Cat(<<Rule("true"), Do("TYPE_TRUE")>>), Cat(<<Rule("false"), Do("TYPE_FALSE")>>)>>)

yy_and == Cat(<<Lit(<<"&", "&">>), Pred("cond_cnt"), Do("OP_AND"), Rule("sp")>>)
yy_or == Cat(<<Lit(<<"|", "|">>), Pred("cond_cnt"), Do("OP_OR"), Rule("sp")>>)
yy_open == Cat(<<Chr("("), Do("OP_OPEN"), Rule("sp")>>)
yy_close == Cat(<<Chr(")"), Do("close"), Rule("sp")>>)

EqualsNil == Cat(<<AnyOf(<<"op_eq", "op_ne">>), Rule("sp"), Rule("nil")>>)
Compared(value) == Cat(<<Rule("relational"), Rule("sp"), value>>)

yy_optional_string_headers ==
  Cat(<<Rule("string_headers"), Rule("sp"),
        Alt(<<Compared(Rule("string_value")), Rule("string_match"), EqualsNil>>)>>)
yy_uuid ==
  Cat(<<Lit(<<"Uuid">>), Do("Uuid"), Rule("sp"),
        Alt(<<Compared(Rule("string_value")), Rule("string_match")>>)>>)
Headers == <<"Type", "Logger", "Hostname", "EnvVersion", "Payload">>
yy_string_headers ==
  Alt([i \in 1 .. 5 |-> Cat(<<Lit(<<Headers[i]>>), Do(Headers[i])>>)])

Quoted(q) ==
  Cat(<<Chr(q),
        Text(<<Star(Alt(<<Cat(<<Chr("\\"), Class({q, "\\"})>>), Except({q})>>))>>),
        Chr(q)>>)
yy_string_value ==
  Cat(<<Alt(<<Quoted("\""), Quoted("'")>>), Pred("check_string_len"), Do("set_string_value")>>)
yy_string_match ==
  Cat(<<AnyOf(<<"op_seq", "op_sne">>), Rule("sp"), Rule("string_value"),
        Opt(Rule("string_match_mod")), Do("set_match_mod")>>)
yy_string_match_mod == Cat(<<Chr("%"), Do("PATTERN_MOD_ESC")>>)

yy_severity ==
  Cat(<<Lit(<<"Severity">>), Do("Severity"), Rule("sp"), Compared(Rule("numeric_value"))>>)
yy_pid ==
  Cat(<<Lit(<<"Pid">>), Do("Pid"), Rule("sp"),
        Alt(<<Compared(Rule("numeric_value")), EqualsNil>>)>>)

yy_numeric_value ==
  Cat(<<Text(<<Opt(Rule("sign")), Rule("number"), Opt(Rule("decimal")),
               Opt(Rule("exponent"))>>), Do("set_numeric_value")>>)
yy_sign == Class({"-", "+"})
yy_number == Alt(<<Chr("0"), Cat(<<Digit(1, 9), Star(Digit(0, 9))>>)>>)
yy_decimal == Cat(<<Chr("."), Plus(Digit(0, 9))>>)
yy_exponent == Cat(<<Class({"e", "E"}), Opt(Rule("sign")), Plus(Digit(0, 9))>>)

yy_field_test ==
  Cat(<<Rule("fields"), Rule("sp"),
        Alt(<<Compared(AnyOf(<<"string_value", "numeric_value">>)), Rule("string_match"),
              Cat(<<AnyOf(<<"op_eq", "op_ne">>), Rule("sp"), AnyOf(<<"boolean", "nil">>)>>)>>)>>)
yy_index == Cat(<<Chr("["), Text(<<Rule("zero_to_255")>>), Chr("]"), Do("atoi")>>)
yy_zero_to_255 ==
  Alt(<<Cat(<<Chr("2"), Digit(0, 5), Digit(0, 5)>>),
        Cat(<<Chr("1"), Digit(0, 9), Digit(0, 9)>>),
        Cat(<<Digit(1, 9), Digit(0, 9)>>),
        Digit(0, 9)>>)
yy_fields ==
  Cat(<<yyPush(2), Lit(<<"Fields", "[">>), Text(<<Star(Except({"]"}))>>), Chr("]"),
        Do("set_field"),
        Opt(Cat(<<Rule("index"), yySet(-2)>>)), Do("fi"),
        Opt(Cat(<<Rule("index"), yySet(-1)>>)), Do("ai"), yyPop(2)>>)

yy_timestamp ==
  Cat(<<Lit(<<"Timestamp">>), Rule("sp"), Compared(AnyOf(<<"numeric_value", "ts_quoted">>)),
        Do("set_timestamp")>>)
yy_ts_quoted == Alt([i \in 1 .. 2 |-> LET q == <<"\"", "'">>[i] IN
                       Cat(<<Chr(q), Rule("rfc3339"), Chr(q)>>)])
yy_fulldate ==
  Cat(<<yyPush(3), Rule("year"), yySet(-3), Chr("-"), Rule("month"), yySet(-2), Chr("-"),
        Rule("day"), yySet(-1), Do("update_date"), yyPop(3)>>)
yy_year == Cat(<<Text([i \in 1 .. 4 |-> Digit(0, 9)]), Do("atoi")>>)
yy_month ==
  Cat(<<Alt(<<Text(<<Chr("0"), Digit(1, 9)>>), Text(<<Chr("1"), Digit(0, 2)>>)>>), Do("atoi")>>)
yy_day ==
  Cat(<<Alt(<<Text(<<Digit(1, 2), Digit(0, 9)>>), Text(<<Chr("0"), Digit(1, 9)>>),
              Text(<<Chr("3"), Digit(0, 1)>>)>>), Do("atoi")>>)
yy_rfc3339 == Cat(<<Rule("fulldate"), Chr("T"), Rule("fulltime")>>)
yy_fulltime == Seqs(<<"partialtime", "timeoffset">>)
yy_partialtime ==
  Cat(<<yyPush(3), Rule("hour"), yySet(-3), Chr(":"), Rule("minute"), yySet(-2), Chr(":"),
        Rule("second"), yySet(-1), Opt(Rule("second_frac")), Do("update_time"), yyPop(3)>>)
yy_timeoffset ==
  Cat(<<yyPush(2),
        Alt(<<Cat(<<Chr("Z"), Do("utc")>>),
              Cat(<<Text(<<Rule("sign")>>), Rule("hour"), yySet(-2), Rule("minute"),
                    yySet(-1), Do("update_offset")>>)>>),
        yyPop(2)>>)
yy_hour ==
  Cat(<<Alt(<<Text(<<Digit(0, 1), Digit(0, 9)>>), Text(<<Chr("2"), Digit(0, 3)>>)>>), Do("atoi")>>)
yy_minute == Cat(<<Text(<<Digit(0, 5), Digit(0, 9)>>), Do("atoi")>>)
yy_second ==
  Cat(<<Alt(<<Text(<<Digit(0, 5), Digit(0, 9)>>), Text(<<Chr("6"), Chr("0")>>)>>), Do("atoi")>>)
yy_second_frac == Cat(<<Text(<<Rule("decimal")>>), Do("second_frac")>>)

yy_nil == Cat(<<Lit(<<"NIL">>), Do("TYPE_NIL"), Rule("sp")>>)
yy_true == Cat(<<Lit(<<"TRUE">>), Rule("sp")>>)
yy_false == Cat(<<Lit(<<"FALSE">>), Rule("sp")>>)
yy_sp == Star(Class({" ", "\r", "\n", "\t"}))
yy_eol == Not(Except({}))

Grammar == [
  match |-> yy_match, ored |-> yy_ored, anded |-> yy_anded, expr |-> yy_expr,
  test |-> yy_test, op_eq |-> yy_op_eq, op_ne |-> yy_op_ne, op_seq |-> yy_op_seq,
  op_sne |-> yy_op_sne, op_gte |-> yy_op_gte, op_gt |-> yy_op_gt, op_lte |-> yy_op_lte,
  op_lt |-> yy_op_lt, relational |-> yy_relational, boolean_test |-> yy_boolean_test,
  boolean |-> yy_boolean, and |-> yy_and, or |-> yy_or, open |-> yy_open,
  close |-> yy_close, optional_string_headers |-> yy_optional_string_headers,
  uuid |-> yy_uuid, string_headers |-> yy_string_headers, string_value |-> yy_string_value,
  string_match |-> yy_string_match, string_match_mod |-> yy_string_match_mod,
  severity |-> yy_severity, pid |-> yy_pid, numeric_value |-> yy_numeric_value,
  sign |-> yy_sign, number |-> yy_number, decimal |-> yy_decimal, exponent |-> yy_exponent,
  field_test |-> yy_field_test, index |-> yy_index, zero_to_255 |-> yy_zero_to_255,
  fields |-> yy_fields, timestamp |-> yy_timestamp, ts_quoted |-> yy_ts_quoted,
  fulldate |-> yy_fulldate, year |-> yy_year, month |-> yy_month, day |-> yy_day,
  rfc3339 |-> yy_rfc3339, fulltime |-> yy_fulltime, partialtime |-> yy_partialtime,
  timeoffset |-> yy_timeoffset, hour |-> yy_hour, minute |-> yy_minute,
  second |-> yy_second, second_frac |-> yy_second_frac, nil |-> yy_nil,
  true |-> yy_true, false |-> yy_false, sp |-> yy_sp, eol |-> yy_eol]
===============================================================================
