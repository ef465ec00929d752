----------------------------- MODULE MatcherEval ------------------------------
(***************************************************************************)
(* The array of nodes a message matcher is compiled to                     *)
(* (make_tree and make_matcher in heka_message_matcher_parser.c), and the  *)
(* tests of its leaves (heka_message_matcher.c).                           *)
(*                                                                         *)
(* A matcher is a function from the unit at which a node starts to the     *)
(* node, and the number of units.  Strings of a message are a sequence of  *)
(* at most one element: none is the NULL pointer, and the element is a     *)
(* subject of StringMatcher.                                               *)
(***************************************************************************)
EXTENDS MatcherParser, StringMatcher, TLC

CONSTANT INT_MIN     \* the process id of a message without one

NodeSize == 8        \* sizeof(match_node), and sizeof(double)
Octet == UCHAR_MAX + 1
IsLogical(n) == n.op \in {"OP_AND", "OP_OR"}

-------------------------------------------------------------------------------
(* Compilation *)

\* The postfix array with, in each operator, the indices of its operands.
make_tree(nodes) ==
  LET step(a, i) ==
        LET n == nodes[i]
            linked == [n EXCEPT !.fi = a.stack[Len(a.stack) - 1], !.ai = Last(a.stack)]
        IN  IF IsLogical(n)
            THEN [tree |-> Append(a.tree, linked),
                  stack |-> Append(SubSeq(a.stack, 1, Len(a.stack) - 2), i - 1)]
            ELSE [tree |-> Append(a.tree, n), stack |-> Append(a.stack, i - 1)]
      indices == [i \in DOMAIN nodes |-> i]
  IN  FoldLeft(step, [tree |-> <<>>, stack |-> <<>>], indices).tree

val_bytes(n) ==
  CASE n.val_type = "TYPE_STRING" -> n.val_len + 1
    [] n.val_type = "TYPE_NUMERIC" -> NodeSize
    [] OTHER -> 0
var_bytes(n) == IF n.id = "Fields" THEN Len(n.var) % Octet ELSE 0

\* The units of all nodes together; an operator remembers its own position.
get_matcher_units(nodes) ==
  FoldLeft(LAMBDA len, n : len + (NodeSize * 2 + val_bytes(n) + var_bytes(n) - 1) \div NodeSize,
           0, nodes)
Positioned(nodes) ==
  [i \in DOMAIN nodes |-> IF IsLogical(nodes[i]) THEN [nodes[i] EXCEPT !.val_len = i - 1]
                          ELSE nodes[i]]

\* The compiled node, and the position after it.
copy_node(parent, n) ==
  [op |-> n.op, field_id |-> n.id, val_mod |-> n.val_mod, val_type |-> n.val_type,
   off |-> IF IsLogical(n) THEN parent ELSE 0,
   f |-> IF IsLogical(n) THEN 0 ELSE n.fi, a |-> IF IsLogical(n) THEN 0 ELSE n.ai,
   var |-> SubSeq(n.var, 1, var_bytes(n)), s |-> n.s, d |-> n.d,
   units |-> (1 + (NodeSize - 1 + var_bytes(n) + val_bytes(n)) \div NodeSize) % Octet]

\* w has the next position (mn), the nodes written and where each operator is.
Written(w, parent, n) ==
  LET node == copy_node(parent, n)
  IN  [w EXCEPT !.nodes = (w.mn :> node) @@ @, !.mn = @ + node.units]
\* The left operand jumps past the operator it belongs to.
RECURSIVE inorder_traverse_past(_, _, _, _)
inorder_traverse_past(parent, w, tree, i) ==
  LET n == tree[i + 1]
      operator(x) == Written([x EXCEPT !.offsets = (n.val_len :> x.mn) @@ @], parent,
                             [n EXCEPT !.val_len = 0])
      left(x) == inorder_traverse_past(parent, x, tree, n.fi)
      right(x) == inorder_traverse_past(parent, x, tree, n.ai)
  IN  IF n.id = "" /\ IsLogical(n) THEN right(operator(left(w))) ELSE Written(w, parent, n)

RECURSIVE inorder_traverse(_, _, _, _)
inorder_traverse(parent, w, tree, i) ==
  LET n == tree[i + 1]
      idx == n.val_len
      operator(x) == Written([x EXCEPT !.offsets = (idx :> x.mn) @@ @], parent,
                             [n EXCEPT !.val_len = 0])
      left(x) == inorder_traverse(idx, x, tree, n.fi)
      right(x) == inorder_traverse(parent, x, tree, n.ai)
  IN  IF n.id = "" /\ IsLogical(n) THEN right(operator(left(w))) ELSE Written(w, parent, n)

NoMatcher == [units |-> 0, nodes |-> <<>>]
make_matcher(tree) ==
  LET size == Len(tree)
      units == get_matcher_units(tree)
      w == inorder_traverse(size % Octet, [mn |-> 0, nodes |-> <<>>, offsets |-> <<>>],
                            Positioned(tree), size - 1)
      jump(n) == IF ~ IsLogical(n) THEN n
                 ELSE IF n.off < size THEN [n EXCEPT !.off = w.offsets[n.off]]
                 ELSE [n EXCEPT !.off = units % (Octet * Octet)]
  IN  [units |-> units, nodes |-> [p \in DOMAIN w.nodes |-> jump(w.nodes[p])]]

lsb_create_message_matcher(exp) ==
  LET compiled(out) == IF out = <<>> THEN NoMatcher ELSE make_matcher(make_tree(out))
  IN  compiled(yyparse(exp))

-------------------------------------------------------------------------------
(* The test of a node *)

\* strncmp of the first n bytes of a value and of the NUL terminated s.
strncmp(val, s, n) ==
  LET a(i) == Code[At(val, i)]
      b(i) == Code[At(s, i)]
      stops == {i \in 0 .. n - 1 : a(i) # b(i) \/ At(val, i) = "NUL"}
      first == CHOOSE i \in stops : \A j \in stops : i <= j
  IN  IF stops = {} THEN 0 ELSE a(first) - b(first)

Pattern(n, val) ==
  IF n.val_mod = "PATTERN_MOD_ESC" THEN lsb_string_find(val, n.s) ELSE lsb_string_match(val, n.s)

string_test(n, val) ==
  LET null == val = <<>>
      v == val[1]
      len == Len(v.s)
      cmp == strncmp(v.s, n.s, len)
  IN  CASE n.op = "OP_EQ" -> ~ null /\ len = Len(n.s) /\ cmp = 0
        [] n.op = "OP_NE" -> null \/ len # Len(n.s) \/ cmp # 0
        [] n.op = "OP_LT" -> null \/ IF cmp = 0 THEN len < Len(n.s) ELSE cmp < 0
        [] n.op = "OP_LTE" -> null \/ cmp <= 0
        [] n.op = "OP_GT" -> ~ null /\ IF cmp = 0 THEN len > Len(n.s) ELSE cmp > 0
        [] n.op = "OP_GTE" -> ~ null /\ IF cmp = 0 THEN len >= Len(n.s) ELSE cmp > 0
        [] n.op \in {"OP_RE", "OP_NRE"} -> (n.op = "OP_RE") = (~ null /\ Pattern(n, v))
        [] OTHER -> FALSE

numeric_test(n, val) ==
  CASE n.op = "OP_EQ" -> val = n.d
    [] n.op = "OP_NE" -> val # n.d
    [] n.op = "OP_LT" -> val < n.d
    [] n.op = "OP_LTE" -> val <= n.d
    [] n.op = "OP_GT" -> val > n.d
    [] n.op = "OP_GTE" -> val >= n.d
    [] OTHER -> FALSE

nil_test(n, is_nil) == IF n.op = "OP_EQ" THEN is_nil ELSE ~ is_nil

\* The values a field of a message has: none, or one, if it is out of range.
lsb_read_heka_field(m, name, fi, ai) ==
  LET named == SelectSeq(m.Fields, LAMBDA f : f.name = name)
  IN  IF fi >= Len(named) \/ ai >= Len(named[fi + 1].value) THEN <<>>
      ELSE <<[type |-> named[fi + 1].type, v |-> named[fi + 1].value[ai + 1]]>>

field_test(n, m) ==
  LET test(val) ==
        CASE val = <<>> -> n.val_type = "TYPE_NIL" /\ n.op = "OP_EQ"
          [] OTHER ->
             CASE n.val_type = "TYPE_STRING" ->
                    val[1].type = "string" /\ string_test(n, <<val[1].v>>)
               [] n.val_type = "TYPE_NUMERIC" ->
                    val[1].type = "numeric" /\ numeric_test(n, val[1].v)
               [] n.val_type \in {"TYPE_TRUE", "TYPE_FALSE"} ->
                    /\ val[1].type \in {"bool", "numeric"}
                    /\ (n.op = "OP_EQ") =
                       (val[1].v = IF n.val_type = "TYPE_TRUE" THEN 10 ELSE 0)
               [] n.val_type = "TYPE_NIL" -> n.op = "OP_NE"
  IN  test(lsb_read_heka_field(m, n.var, n.f, n.a))

eval_node(n, m) ==
  CASE n.op = "OP_TRUE" -> TRUE
    [] n.op = "OP_FALSE" -> FALSE
    [] n.field_id \in {"Timestamp", "Severity"} -> numeric_test(n, m[n.field_id])
    [] n.field_id = "Pid" -> IF n.val_type = "TYPE_NIL" THEN nil_test(n, m.Pid = INT_MIN)
                             ELSE numeric_test(n, m.Pid)
    [] n.field_id \in ToSet(Headers) \cup {"Uuid"} ->
         IF n.val_type = "TYPE_NIL" THEN nil_test(n, m[n.field_id] = <<>>)
         ELSE string_test(n, m[n.field_id])
    [] OTHER -> field_test(n, m)

===============================================================================
