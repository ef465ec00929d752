------------------------------ MODULE MCSerialize ------------------------------
(* Globals and two tables; numbers with one decimal place and ints up to 12.  *)
EXTENDS Serialize

Table(array, hash) == [array |-> array, hash |-> hash, meta |-> FALSE]

a == <<"string", "a">>
b == <<"string", "b">>
t == <<"table", "t">>
u == <<"table", "u">>
one == <<"number", Unit>>
function == <<"other", "f">>
userdata == <<"userdata", "saved">>
unsaved == <<"userdata", "unsaved">>
failing == <<"userdata", "failing">>

\* A hash part with some of the keys
Hash(k, v) == IF v = Nil THEN [x \in {} |-> Nil] ELSE k :> v

Shapes ==
  { [g |-> Table(<<>>, Hash(a, v) @@ Hash(b, w) @@ Hash(<<"string", "_G">>, <<"table", "g">>)),
     t |-> Table(x, Hash(b, y)),
     u |-> [Table(<<>>, Hash(k, z)) EXCEPT !.meta = m]] :
      v \in {t, userdata, failing}, w \in {t, u, userdata, failing, one},
      x \in {<<>>, <<one, u>>, <<Nil>>}, y \in {Nil, t, u, function, <<"table", "g">>, userdata},
      k \in {a, <<"boolean", "true">>, <<"special", "inf">>, t}, z \in {Nil, t, u, unsaved, userdata, one},
      m \in BOOLEAN }

\* Numbers in and beyond the range of int that are written correctly: all but
\* INT_MIN and halves behind a fraction that is all nines.
Written ==
  {n \in INT_MIN * Unit - 2 .. (INT_MAX + 1) * Unit :
     /\ n \notin INT_MIN * Unit .. -INT_MAX * Unit - 1
     /\ (IF n < 0 THEN -n ELSE n) % Unit # Unit - 2}

Values(numbers) ==
  { [g |-> Table(<<>>, a :> v), t |-> Table(<<>>, <<>>), u |-> Table(<<>>, <<>>)] :
      v \in {<<"number", n>> : n \in numbers} \cup {<<"special", d>> : d \in DOMAIN Quotients}
             \cup {<<"boolean", "false">>} }

MCGraphs == Shapes \cup Values(Written)

\* What RestoresHolds assumes of graphs, all these have.
ASSUME PreservableAssumption == \A gr \in Graphs : Preservable(gr)

===============================================================================
