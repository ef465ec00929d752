--------------------------- MODULE MatcherLanguage ----------------------------
(***************************************************************************)
(* What a message matcher means (docs/util/message_matcher.md), apart from *)
(* how it is parsed, compiled and evaluated: an abstract syntax, how it is *)
(* written, and its value for a message.                                   *)
(*                                                                         *)
(* An expression is a sequence of alternatives, an alternative a sequence  *)
(* of terms, and a term is a test or a group, an expression in             *)
(* parentheses.  A test relates a variable, <<header>> or <<"Fields", name,*)
(* field index, array index>> with indices left out, to a value of a kind. *)
(* Messages are those of MatcherEval.                                      *)
(***************************************************************************)
EXTENDS Integers, Sequences, FiniteSets, SequencesExt

CONSTANTS Order,      \* the characters, in order
          Units,      \* a second, in units of the timestamp
          NoPid       \* the process id of a message without one

IsGroup(term) == "group" \in DOMAIN term
Rank == [c \in ToSet(Order) |-> CHOOSE i \in DOMAIN Order : Order[i] = c]

-------------------------------------------------------------------------------
(* How an expression is written *)

Joined(parts, separator) ==
  FoldLeft(LAMBDA text, i : IF i = 1 THEN parts[i] ELSE text \o separator \o parts[i],
           <<>>, [i \in DOMAIN parts |-> i])

Numerals == <<"0", "1", "2", "3", "4", "5", "6", "7", "8", "9">>
RECURSIVE Decimal(_)
Decimal(n) == IF n < 10 THEN <<Numerals[n + 1]>>
              ELSE Append(Decimal(n \div 10), Numerals[(n % 10) + 1])
Signed(n) == IF n < 0 THEN <<"-">> \o Decimal(-n) ELSE Decimal(n)
TwoDigits(n) == <<Numerals[(n \div 10) + 1], Numerals[(n % 10) + 1]>>

Quote(s) ==
  <<"'">> \o FlattenSeq([i \in DOMAIN s |-> IF s[i] \in {"'", "\\"} THEN <<"\\", s[i]>>
                                           ELSE <<s[i]>>]) \o <<"'">>

\* A pattern is a sequence of items; each has how it is written and its repetition.
PatternText(v) ==
  (IF v.anchor THEN <<"^">> ELSE <<>>)
  \o FlattenSeq([i \in DOMAIN v.items |-> v.items[i].text \o v.items[i].rep])
  \o (IF v.end THEN <<"$">> ELSE <<>>)

\* Only days of January 1970 are written.
TimeText(v) ==
  <<"'", "1", "9", "7", "0", "-", "0", "1", "-">> \o TwoDigits(v.day) \o <<"T">>
  \o TwoDigits(v.hour) \o <<":">> \o TwoDigits(v.min) \o <<":">> \o TwoDigits(v.sec)
  \o (IF v.offset = 0 THEN <<"Z">>
      ELSE <<IF v.offset < 0 THEN "-" ELSE "+">>
           \o TwoDigits((IF v.offset < 0 THEN -v.offset ELSE v.offset) \div 60)
           \o TwoDigits((IF v.offset < 0 THEN -v.offset ELSE v.offset) % 60))
  \o <<"'">>

VariableText(var) ==
  IF var[1] # "Fields" THEN <<var[1]>>
  ELSE <<"Fields", "[">> \o var[2] \o <<"]">>
       \o FlattenSeq([i \in 1 .. Len(var) - 2 |-> <<"[">> \o Decimal(var[i + 2]) \o <<"]">>])

ValueText(t) ==
  CASE t.kind = "string" -> Quote(t.v)
    [] t.kind = "numeric" -> Signed(t.v)
    [] t.kind = "bool" -> <<IF t.v THEN "TRUE" ELSE "FALSE">>
    [] t.kind = "nil" -> <<"NIL">>
    [] t.kind = "literal" -> Quote(t.v) \o <<"%">>
    [] t.kind = "pattern" -> Quote(PatternText(t.v))
    [] t.kind = "time" -> TimeText(t.v)

TestText(t) == IF t.kind = "constant" THEN <<IF t.v THEN "TRUE" ELSE "FALSE">>
               ELSE VariableText(t.var) \o <<" ">> \o t.op \o <<" ">> \o ValueText(t)

RECURSIVE Written(_)
Written(e) ==
  LET term(t) == IF IsGroup(t) THEN <<"(">> \o Written(t.group) \o <<")">>
                 ELSE TestText(t.test)
      alternative(terms) == Joined([i \in DOMAIN terms |-> term(terms[i])], <<"&", "&">>)
  IN  Joined([i \in DOMAIN e |-> alternative(e[i])], <<" ", "|", "|", " ">>)

-------------------------------------------------------------------------------
(* What it means *)

RECURSIVE Precedes(_, _)
Precedes(a, b) ==
  IF a = <<>> \/ b = <<>> THEN a = <<>> /\ b # <<>>
  ELSE Rank[a[1]] < Rank[b[1]] \/ (a[1] = b[1] /\ Precedes(Tail(a), Tail(b)))

Compares(op, less, equal) ==
  CASE op = <<"=", "=">> -> equal
    [] op = <<"!", "=">> -> ~ equal
    [] op = <<"<">> -> less
    [] op = <<"<", "=">> -> less \/ equal
    [] op = <<">">> -> ~ less /\ ~ equal
    [] op = <<">", "=">> -> ~ less

\* Where a match of the items that begins after the first i characters can end.
RECURSIVE Ends(_, _, _)
Ends(items, s, i) ==
  LET item == items[1]
      run == {k \in i .. Len(s) : \A j \in i + 1 .. k : s[j] \in item.set}
      count(c, k) == Cardinality({j \in i + 1 .. k : s[j] = c})
      closed == {k \in i + 1 .. Len(s) : count(item.text[3], k) = count(item.text[4], k)}
      balanced == IF i < Len(s) /\ s[i + 1] = item.text[3] /\ closed # {}
                  THEN {CHOOSE k \in closed : \A j \in closed : k <= j} ELSE {}
      after == CASE item.set = {} -> balanced
                 [] item.rep = <<>> -> run \cap {i + 1}
                 [] item.rep = <<"?">> -> run \cap {i, i + 1}
                 [] item.rep = <<"+">> -> run \ {i}
                 [] OTHER -> run
  IN  IF items = <<>> THEN {i} ELSE UNION {Ends(Tail(items), s, k) : k \in after}

Matches(v, s) ==
  \E i \in (IF v.anchor THEN {0} ELSE 0 .. Len(s)) :
    \E k \in Ends(v.items, s, i) : v.end => k = Len(s)
HasPart(v, s) ==
  \E i \in 0 .. Len(s) - Len(v) : SubSeq(s, i + 1, i + Len(v)) = v

\* A missing string precedes every string, and no pattern matches it.
StringTest(t, val) ==
  LET s == val[1].s
      found == val # <<>> /\ IF t.kind = "literal" THEN HasPart(t.v, s) ELSE Matches(t.v, s)
  IN  CASE t.op = <<"=", "~">> -> found
        [] t.op = <<"!", "~">> -> ~ found
        [] val = <<>> -> Compares(t.op, TRUE, FALSE)
        [] OTHER -> Compares(t.op, Precedes(s, t.v), s = t.v)
NumberTest(t, x) == Compares(t.op, x < 10 * t.v, x = 10 * t.v)
Time(v) == (((v.day - 1) * 24 + v.hour) * 60 + v.min - v.offset) * 60 + v.sec
TimeTest(t, x) == Compares(t.op, x < 10 * Units * Time(t.v), x = 10 * Units * Time(t.v))

\* A field variable without indices is that of the first value of the first field.
Indices(var) == [i \in 1 .. 2 |-> IF Len(var) >= i + 2 THEN var[i + 2] ELSE 0]
FieldValue(m, var) ==
  LET at == Indices(var)
      named == SelectSeq(m.Fields, LAMBDA f : f.name = var[2])
  IN  IF at[1] < Len(named) /\ at[2] < Len(named[at[1] + 1].value)
      THEN <<[type |-> named[at[1] + 1].type, v |-> named[at[1] + 1].value[at[2] + 1]]>>
      ELSE <<>>
FieldTest(t, val) ==
  CASE t.kind = "nil" -> Compares(t.op, FALSE, val = <<>>)
    [] val = <<>> -> FALSE
    [] t.kind = "bool" -> /\ val[1].type \in {"bool", "numeric"}
                          /\ Compares(t.op, FALSE, val[1].v = IF t.v THEN 10 ELSE 0)
    [] t.kind = "numeric" -> val[1].type = "numeric" /\ NumberTest(t, val[1].v)
    [] OTHER -> val[1].type = "string" /\ StringTest(t, <<val[1].v>>)

Holds(t, m) ==
  CASE t.kind = "constant" -> t.v
    [] t.var[1] = "Fields" -> FieldTest(t, FieldValue(m, t.var))
    [] t.kind = "nil" /\ t.var[1] = "Pid" -> Compares(t.op, FALSE, m.Pid = NoPid)
    [] t.kind = "nil" -> Compares(t.op, FALSE, m[t.var[1]] = <<>>)
    [] t.kind = "time" -> TimeTest(t, m[t.var[1]])
    [] t.kind = "numeric" -> NumberTest(t, m[t.var[1]])
    [] OTHER -> StringTest(t, m[t.var[1]])

RECURSIVE Means(_, _)
Means(e, m) ==
  \E i \in DOMAIN e : \A j \in DOMAIN e[i] :
    LET term == e[i][j]
    IN  IF IsGroup(term) THEN Means(term.group, m) ELSE Holds(term.test, m)

===============================================================================
