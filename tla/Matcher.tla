------------------------------- MODULE Matcher --------------------------------
(***************************************************************************)
(* The life of a message matcher: created from the text of an expression,  *)
(* evaluated for one message after another, destroyed                      *)
(* (lsb_create_message_matcher, lsb_eval_message_matcher and               *)
(* lsb_destroy_message_matcher).  The evaluation is a walk over the nodes, *)
(* one step a node.                                                        *)
(*                                                                         *)
(* An input is the text of an expression and the expression it writes, or  *)
(* <<>> for a text that is only checked for being accepted.  Inputs and    *)
(* Messages are sequences, as their members are of different types.        *)
(***************************************************************************)
EXTENDS MatcherEval

CONSTANTS
  Inputs,      \* the expressions
  Messages     \* the messages

VARIABLES
  input,       \* the expression
  mm,          \* the matcher
  m,           \* the message being matched
  p,           \* the next node
  matched,     \* the value of what has been evaluated
  pc

vars == <<input, mm, m, p, matched, pc>>

Language == INSTANCE MatcherLanguage WITH Order <- Ascii, Units <- Nano, NoPid <- INT_MIN

NoMessage == [Type |-> <<>>]

Init ==
  /\ \E all \in {Inputs} : \E i \in DOMAIN all : input = all[i]
  /\ mm = NoMatcher
  /\ m = NoMessage
  /\ p = 0
  /\ matched = FALSE
  /\ pc = "text"

Create ==
  /\ pc = "text"
  /\ mm' = lsb_create_message_matcher(input.text)
  /\ pc' = IF mm' = NoMatcher THEN "rejected" ELSE "idle"
  /\ UNCHANGED <<input, m, p, matched>>

Evaluate ==
  /\ pc \in {"idle", "done"}
  /\ \E all \in {Messages} : \E i \in DOMAIN all : m' = all[i]
  /\ p' = 0
  /\ matched' = FALSE
  /\ pc' = "walk"
  /\ UNCHANGED <<input, mm>>

AtNode(op) == pc = "walk" /\ p < mm.units /\ mm.nodes[p].op = op
Advance == p' = p + mm.nodes[p].units

\* An operator whose left operand decides: on to the operator around it.
ShortCircuit ==
  /\ (AtNode("OP_OR") /\ matched) \/ (AtNode("OP_AND") /\ ~ matched)
  /\ p' = mm.nodes[p].off
  /\ UNCHANGED <<input, mm, m, matched, pc>>

PassOperator ==
  /\ (AtNode("OP_OR") /\ ~ matched) \/ (AtNode("OP_AND") /\ matched)
  /\ Advance
  /\ UNCHANGED <<input, mm, m, matched, pc>>

Test ==
  /\ pc = "walk"
  /\ p < mm.units
  /\ ~ IsLogical(mm.nodes[p])
  /\ matched' = eval_node(mm.nodes[p], m)
  /\ Advance
  /\ UNCHANGED <<input, mm, m, pc>>

Return ==
  /\ pc = "walk"
  /\ p >= mm.units
  /\ pc' = "done"
  /\ UNCHANGED <<input, mm, m, p, matched>>

Destroy ==
  /\ pc \in {"idle", "done"}
  /\ mm' = NoMatcher
  /\ m' = NoMessage
  /\ p' = 0
  /\ matched' = FALSE
  /\ pc' = "destroyed"
  /\ UNCHANGED input

Next ==
  \/ Create
  \/ Evaluate
  \/ ShortCircuit
  \/ PassOperator
  \/ Test
  \/ Return
  \/ Destroy

Spec == Init /\ [][Next]_vars

-------------------------------------------------------------------------------
(* The inputs the properties tell apart *)

\* The tests of an expression, from left to right, each with what surrounds it.
RECURSIVE Tests(_)
Tests(e) ==
  LET term(t) == IF Language!IsGroup(t) THEN Tests(t.group) ELSE <<t.test>>
  IN  FlattenSeq([i \in DOMAIN e |-> FlattenSeq([j \in DOMAIN e[i] |-> term(e[i][j])])])

Operators(e) == Len(Tests(e)) - 1

\* Every group has all of the operators after it, or all before it.
RECURSIVE GroupsAtAnEnd(_, _, _)
GroupsAtAnEnd(e, before, after) ==
  \A i \in DOMAIN e : \A j \in DOMAIN e[i] :
    LET first == i = 1 /\ j = 1 /\ ~ before
        last == i = Len(e) /\ j = Len(e[i]) /\ ~ after
    IN  Language!IsGroup(e[i][j]) =>
          /\ first \/ last
          /\ GroupsAtAnEnd(e[i][j].group, ~ first, ~ last)

\* No field variable leaves out an index that an earlier test has set.
SetsIndices(t) ==
  \/ t.kind # "constant" /\ t.var[1] = "Fields" /\ Language!Indices(t.var) # <<0, 0>>
  \/ t.kind = "time" /\ (t.v.hour # 0 \/ t.v.min # 0 \/ t.v.offset # 0)
IndicesWritten(e) ==
  \A i, k \in DOMAIN Tests(e) :
    (k < i /\ SetsIndices(Tests(e)[k])) =>
      (Tests(e)[i].kind # "constant" /\ Tests(e)[i].var[1] = "Fields"
         => Len(Tests(e)[i].var) = 4)

\* All timestamps are in UTC.
InUTC(e) == \A i \in DOMAIN Tests(e) : Tests(e)[i].kind = "time" => Tests(e)[i].v.offset = 0

\* What the documentation restricts.
TestInLimits(t) ==
  CASE t.kind \in {"string", "literal"} -> Len(t.v) <= UCHAR_MAX
    [] t.kind = "pattern" -> Len(Language!PatternText(t.v)) <= UCHAR_MAX
    [] OTHER -> TRUE
InLimits(e) ==
  /\ 2 * Operators(e) + 1 <= UCHAR_MAX
  /\ \A i \in DOMAIN Tests(e) : TestInLimits(Tests(e)[i])

\* A text of constants, operators and parentheses alone.
Operand == {"TRUE", "FALSE"}
Depth(s, k) == Len(SelectSeq(SubSeq(s, 1, k), LAMBDA c : c = "("))
               - Len(SelectSeq(SubSeq(s, 1, k), LAMBDA c : c = ")"))
WellFormed(s) ==
  LET ends(i) == s[i] \in Operand \cup {")"}
      begins(i) == s[i] \in Operand \cup {"("}
      operator(i) == s[i] \in {"&", "|"}
      doubled(i) == operator(i) /\ i < Len(s) /\ s[i + 1] = s[i]
  IN  /\ s # <<>> /\ begins(1) /\ ends(Len(s))
      /\ \A i \in 1 .. Len(s) : Depth(s, i) >= 0
      /\ Depth(s, Len(s)) = 0
      /\ \A i \in 1 .. Len(s) - 1 :
           CASE ends(i) -> s[i + 1] = ")" \/ doubled(i + 1)
             [] s[i] = "(" -> begins(i + 1)
             [] operator(i) -> \/ s[i + 1] = s[i] /\ i + 2 <= Len(s) /\ begins(i + 2) /\ ends(i - 1)
                               \/ begins(i + 1) /\ s[i - 1] = s[i] /\ ends(i - 2)
      /\ 2 * Len(SelectSeq(s, LAMBDA c : c \in Operand)) - 1 <= UCHAR_MAX

-------------------------------------------------------------------------------
(* Properties *)

(***************************************************************************)
(* A matcher answers for a message what its expression means: precedence,  *)
(* grouping, the short cuts, the comparison of strings, patterns, numbers, *)
(* missing values and array elements.  It is stated of the expressions in  *)
(* which the parser keeps groups, omitted indices and time offsets right.  *)
(***************************************************************************)
Answers == (pc = "done" /\ input.e # <<>>) => matched = Language!Means(input.e, m)
MeansWhatItSays ==
  (GroupsAtAnEnd(input.e, FALSE, FALSE) /\ IndicesWritten(input.e) /\ InUTC(input.e)) => Answers

(***************************************************************************)
(* The parser accepts the expressions of the documented language that are  *)
(* in the limits of test_malformed_matcher, and no other sequence of       *)
(* constants, operators and parentheses.                                   *)
(***************************************************************************)
AcceptsTheLanguage ==
  pc \in {"rejected", "idle"} =>
    ((pc = "idle") <=> IF input.e = <<>> THEN WellFormed(input.text) ELSE InLimits(input.e))

(***************************************************************************)
(* "Parentheses are used for grouping expressions" and && binds more       *)
(* tightly than || (docs/util/message_matcher.md), wherever the groups     *)
(* are in an expression of tests that do not disturb one another.          *)
(***************************************************************************)
ParenthesesGroup == (IndicesWritten(input.e) /\ InUTC(input.e)) => Answers

===============================================================================
