------------------------------- MODULE Serialize -------------------------------
(***************************************************************************)
(* How the global variables of a script are written as Lua assignments     *)
(* (serialize_kvp and its kin, src/luasandbox_serialize.c) and what Lua    *)
(* makes of the file: nested and shared tables, cycles, arrays, userdata.  *)
(* LuaSandbox follows the life of the file; this module is about what is   *)
(* in it.                                                                  *)
(*                                                                         *)
(* A value is a pair <<type, what>>: numbers as in NumberText, tables and  *)
(* userdata by their identity, "other" for functions and threads.  A table *)
(* has an array part, where values may be Nil, a hash part and may have a  *)
(* metatable (as the tables of the libraries do).                          *)
(***************************************************************************)
EXTENDS NumberText, FiniteSetsExt

CONSTANTS
  Tables,        \* the identities of tables
  Globals,       \* the one of them that holds the globals
  Graphs,        \* what the script leaves: functions from Tables to tables
  Savable,       \* the userdata that have a serialization function
  Failing,       \* those of them whose function fails
  TableRefs      \* initial capacity of table_ref_array, 64 in the code

ASSUME SerializeAssumption ==
  /\ Globals \in Tables /\ IsFiniteSet(Tables)
  /\ \A g \in Graphs : \A t \in Tables : DOMAIN g[t] = {"array", "hash", "meta"}
  /\ Failing \subseteq Savable /\ TableRefs \in Nat \ {0}

Nil == <<"nil", "nil">>

VARIABLES
  graph,    \* the script's tables
  stack,    \* the recursion: tables being traversed
  keys,     \* data.keys: the names written behind one another
  tables,   \* data.tables: <<value, index of its name>>
  capacity, \* data.tables.size
  file,     \* the lines written, NoFile when it was removed
  pc        \* "write", "written", "failed" or "out of memory"

vars == <<graph, stack, keys, tables, capacity, file, pc>>

NoFile == <<"removed">>

\* A frame: the table, its next index, the keys left of its hash part, and the
\* index of its name (parent).
Frame(t, parent) ==
  [table |-> t, next |-> 1, left |-> DOMAIN graph[t].hash, parent |-> parent]

\* Names are sequences of key texts; "_G" is the empty one.
Init ==
  /\ graph \in Graphs
  /\ stack = <<[table |-> Globals, next |-> 1, left |-> DOMAIN graph[Globals].hash,
                parent |-> 1]>>
  /\ keys = << <<>> >>
  /\ tables = <<>> /\ capacity = TableRefs
  /\ file = <<>>
  /\ pc = "write"

-------------------------------------------------------------------------------
(* Values *)

ignore_value_type(v) ==
  \/ v[1] = "other"
  \/ v[1] = "userdata" /\ v[2] \notin Savable
  \/ v[1] = "table" /\ (graph[v[2]].meta \/ v[2] = Globals)

\* NaN and the infinities are "special" numbers, written as quotients.
Quotients == [nan |-> <<0, 0>>, inf |-> <<1, 0>>, minus_inf |-> <<-1, 0>>]

lsb_serialize_double(d) ==
  IF d[1] = "special" THEN {<<"quotient", Quotients[d[2]]>>}
  ELSE IF InRange(d[2]) THEN {<<"numeral", text>> : text \in lsb_outputfd(d[2])}
  ELSE {<<"%0.17g", d[2]>>}

\* The texts serialize_data may write for a value; there is none for a table,
\* a function or userdata.
serialize_data(v) ==
  CASE v[1] \in {"number", "special"} -> lsb_serialize_double(v)
    [] v[1] \in {"string", "boolean"} -> {v}
    [] OTHER -> {}

\* What Lua reads in a text, or Nil if it does not compile.
ReadText(text) ==
  CASE text[1] = "numeral" ->
         IF IsNumeral(text[2]) THEN <<"number", ReadNumeral(text[2])>> ELSE Nil
    [] text[1] = "%0.17g" -> <<"number", text[2]>>
    [] text[1] = "quotient" ->
         <<"special", CHOOSE d \in DOMAIN Quotients : Quotients[d] = text[2]>>
    [] OTHER -> text

\* luaH_getn for a table without a hash part: binary search for a border.
luaH_getn(array) ==
  LET search[i \in 0 .. Len(array), j \in 0 .. Len(array)] ==
        IF j - i <= 1 THEN i
        ELSE LET m == (i + j) \div 2
             IN  IF array[m] = Nil THEN search[i, m] ELSE search[m, j]
  IN  IF array # <<>> /\ Last(array) = Nil THEN search[0, Len(array)] ELSE Len(array)

\* Bug variant: a table without length may have keys in its hash part.
EmptyArrayWithKeys(t) == t.array # <<>> /\ luaH_getn(t.array) = 0

\* luaH_type is LUA_TTARRAY and the table has no length
EmptyArray(t) == t.array # <<>> /\ DOMAIN t.hash = {} /\ luaH_getn(t.array) = 0

-------------------------------------------------------------------------------
(* serialize_kvp *)

top == Last(stack)
Up == Front(stack)

\* lua_next: the array part, then the hash part in whatever order.
Present == {i \in top.next .. Len(graph[top.table].array) : graph[top.table].array[i] # Nil}

Items ==
  IF Present # {}
  THEN LET i == Min(Present)
       IN  {[key |-> <<"number", i * Unit>>, value |-> graph[top.table].array[i],
             rest |-> [top EXCEPT !.next = i + 1]]}
  ELSE {[key |-> k, value |-> graph[top.table].hash[k],
         rest |-> [top EXCEPT !.next = Len(graph[top.table].array) + 1,
                              !.left = @ \ {k}]] : k \in top.left}

\* Bug variant: the first entry is not looked at.
RefsButFirst(v) == {i \in DOMAIN tables \ {1} : tables[i][1] = v}

\* find_table_ref
Refs(v) == {i \in DOMAIN tables : tables[i][1] = v}

Write(lines) == file' = file \o lines

Continue(item) == stack' = Append(Up, item.rest)

Skip(item) ==
  /\ ignore_value_type(item.value)
  /\ Continue(item)
  /\ UNCHANGED <<keys, tables, capacity, file, pc>>

\* preserve_global_data closes and removes the file.
Fail(why) ==
  /\ file' = NoFile /\ stack' = <<>> /\ keys' = <<>> /\ tables' = <<>>
  /\ pc' = why
  /\ UNCHANGED capacity

KeyFails(item) ==
  /\ ~ignore_value_type(item.value) /\ serialize_data(item.key) = {}
  /\ Fail("failed")

\* The name of the item, put behind the names that are kept
Name(text) == Append(keys[top.parent], text)

\* A number, a string or a boolean: its name is given up again.
Scalar(item, name) ==
  \E text \in serialize_data(item.value) :
      /\ Write(<<[name |-> name, is |-> "scalar", what |-> text]>>)
      /\ Continue(item)
      /\ UNCHANGED <<keys, tables, capacity, pc>>

\* A table or userdata that has a name already
Alias(item, name) ==
  \E i \in Refs(item.value) :
      /\ Write(<<[name |-> name, is |-> "alias", what |-> keys[tables[i][2]]]>>)
      /\ Continue(item)
      /\ UNCHANGED <<keys, tables, capacity, pc>>

KeepsName(name) == Append(keys, name)

\* The first time: add_table_ref, which may have to grow, and a name to keep.
AddTableRef(v, name) ==
  /\ Refs(v) = {}
  /\ capacity' = IF Len(tables) = capacity THEN capacity * 2 ELSE capacity
  /\ keys' = KeepsName(name)
  /\ tables' = Append(tables, <<v, Len(keys')>>)

OutOfMemory(item) ==
  /\ item.value[1] \in {"table", "userdata"} /\ Refs(item.value) = {}
  /\ Len(tables) = capacity
  /\ Fail("out of memory")

\* An array without length is an empty table that keeps its type; any other
\* table is traversed.
NewTable(item, name) ==
  /\ item.value[1] = "table"
  /\ AddTableRef(item.value, name)
  /\ IF EmptyArray(graph[item.value[2]])
     THEN /\ Write(<<[name |-> name, is |-> "table", what |-> "{nil}"]>>)
          /\ Continue(item)
     ELSE /\ Write(<<[name |-> name, is |-> "table", what |-> "{}"]>>)
          /\ stack' = Append(Append(Up, item.rest), Frame(item.value[2], Len(keys')))
  /\ UNCHANGED pc

\* The serialization function of userdata writes a line, or fails, which goes
\* unnoticed (see test/test_generic_sandbox.c for the line).
NewUserdata(item, name) ==
  /\ item.value[1] = "userdata"
  /\ AddTableRef(item.value, name)
  /\ Write(IF item.value[2] \in Failing THEN <<>>
           ELSE <<[name |-> name, is |-> "userdata", what |-> item.value[2]]>>)
  /\ Continue(item)
  /\ UNCHANGED pc

serialize_kvp ==
  /\ pc = "write" /\ stack # <<>>
  /\ \E item \in Items :
       \/ Skip(item)
       \/ KeyFails(item)
       \/ /\ ~ignore_value_type(item.value)
          /\ \E text \in serialize_data(item.key) :
             \E name \in {Name(text)} :
                 \/ Scalar(item, name)
                 \/ Alias(item, name)
                 \/ NewTable(item, name)
                 \/ NewUserdata(item, name)
       \/ ~ignore_value_type(item.value) /\ OutOfMemory(item)
  /\ UNCHANGED graph

\* serialize_table, or the loop of preserve_global_data, is through.
TableEnds ==
  /\ pc = "write" /\ stack # <<>> /\ Items = {}
  /\ stack' = Up
  /\ pc' = IF Up = <<>> THEN "written" ELSE "write"
  /\ UNCHANGED <<graph, keys, tables, capacity, file>>

-------------------------------------------------------------------------------
(* restore_global_data: Lua runs the file in a sandbox that starts *)

\* Tables of the new sandbox are numbered, 1 holds its globals; userdata made
\* by the file are numbered as well.
Fresh == [ok |-> TRUE, heap |-> <<[k \in {} |-> Nil]>>, made |-> 0]

Get(s, t, k) == IF k \in DOMAIN s.heap[t] THEN s.heap[t][k] ELSE Nil

\* The value of a name, Nil if it cannot be indexed
Value(s, name) ==
  LET value[i \in 0 .. Len(name)] ==
        IF i = 0 THEN <<"table", 1>>
        ELSE LET v == value[i - 1]
             IN  IF v[1] = "table" THEN Get(s, v[2], ReadText(name[i])) ELSE Nil
  IN  value[Len(name)]

Assign(s, name, v) ==
  LET in == Value(s, Front(name))
      k == ReadText(Last(name))
  IN  IF ~s.ok \/ in[1] # "table" \/ k = Nil THEN [s EXCEPT !.ok = FALSE]
      ELSE [s EXCEPT !.heap[in[2]] = [x \in (DOMAIN @ \cup {k}) \ (IF v = Nil THEN {k} ELSE {}) |->
                                        IF x = k THEN v ELSE @[x]]]

Run(s, line) ==
  CASE line.is = "table" ->
         Assign([s EXCEPT !.heap = Append(@, [k \in {} |-> Nil])],
                line.name, <<"table", Len(s.heap) + 1>>)
    [] line.is = "userdata" ->
         IF Value(s, line.name) # Nil THEN s
         ELSE Assign([s EXCEPT !.made = @ + 1], line.name, <<"userdata", <<line.what, s.made>> >>)
    [] line.is = "alias" -> Assign(s, line.name, Value(s, line.what))
    [] OTHER ->
         IF ReadText(line.what) = Nil THEN [s EXCEPT !.ok = FALSE]
         ELSE Assign(s, line.name, ReadText(line.what))

RunAll(lines) ==
  LET state[i \in 0 .. Len(lines)] ==
        IF i = 0 THEN Fresh ELSE Run(state[i - 1], lines[i])
  IN  state[Len(lines)]

Restored == RunAll(file)

Next == serialize_kvp \/ TableEnds

Spec == Init /\ [][Next]_vars

-------------------------------------------------------------------------------
(* Properties *)

\* Every table and userdata has one name, which is written before it is used,
\* and is written once, so that cycles end and nothing is restored twice
\* (find_table_ref, add_table_ref).
WrittenOnce ==
  pc \in {"write", "written"} =>
    /\ \A i, j \in DOMAIN tables : tables[i][1] = tables[j][1] => i = j
    /\ Len(tables) <= capacity
    /\ \A i \in DOMAIN file :
         file[i].is = "alias" =>
           \/ \E j \in 1 .. i - 1 : file[j].is # "alias" /\ file[j].name = file[i].what
           \/ \E j \in DOMAIN tables : tables[j][1][1] = "userdata" /\ tables[j][1][2] \in Failing
                                       /\ keys[tables[j][2]] = file[i].what

\* Reference: what is to be preserved of table t.
Ignored(v) ==
  \/ v[1] = "other" \/ v = Nil
  \/ v[1] = "userdata" /\ v[2] \notin Savable \ Failing
  \/ v[1] = "table" /\ (graph[v[2]].meta \/ v[2] = Globals)

Content(t) ==
  LET indices == {<<"number", i * Unit>> : i \in DOMAIN graph[t].array}
      all == [k \in indices \cup DOMAIN graph[t].hash |->
                IF k \in indices THEN graph[t].array[k[2] \div Unit] ELSE graph[t].hash[k]]
  IN  [k \in {k \in DOMAIN all : ~Ignored(all[k])} |-> all[k]]

Near(v, w) ==
  \/ v = w
  \/ v[1] = "number" /\ w[1] = "number" /\ v[2] - w[2] \in -2 .. 2

\* Pairs of a table and what was restored for it, found by following the same
\* keys from the globals; userdata likewise.
Corresponding(s, pairs) ==
  pairs \cup
  UNION {LET c == Content(p[1][2])
         IN  {<<c[k], Get(s, p[2][2], k)>> : k \in {k \in DOMAIN c : c[k][1] \in {"table", "userdata"}}} :
         p \in {p \in pairs : p[1][1] = "table" /\ p[2][1] = "table"}}

Correspondence(s) ==
  LET pairs[i \in 0 .. Cardinality(Tables)] ==
        IF i = 0 THEN {<< <<"table", Globals>>, <<"table", 1>> >>}
        ELSE Corresponding(s, pairs[i - 1])
  IN  pairs[Cardinality(Tables)]

\* "global data preservation/restoration on shutdown/startup": the file can be
\* run, and what it makes of the globals has the same shape: the same keys, the
\* same numbers to the last decimal place written, and tables and userdata that
\* were shared, or contained themselves, are and do so again.
Restores ==
  pc = "written" =>
    \E s \in {Restored} :
      /\ s.ok
      /\ \E pairs \in {Correspondence(s)} :
           /\ \A p, q \in pairs : p[1] = q[1] <=> p[2] = q[2]
           /\ \A p \in pairs :
                /\ p[1][1] = p[2][1]
                /\ p[1][1] = "table" =>
                     \E c \in {Content(p[1][2])} :
                       /\ DOMAIN c = DOMAIN s.heap[p[2][2]]
                       /\ \A k \in DOMAIN c :
                            c[k][1] \in {"table", "userdata"} \/ Near(c[k], Get(s, p[2][2], k))

\* The graphs for which that can be expected: what is written for a number is read as
\* that number or, for one that is not a key, as one near it (NumberText says which
\* numbers are); and an array for which lua_objlen finds no end but its beginning has
\* no values (serialize_kvp takes it for an empty one).  The rest holds of all tables.
Reads(v, w) == w # Nil /\ Near(v, w)

Preservable(gr) ==
  \A t \in Tables :
    /\ Len(gr[t].array) \in Nat /\ DOMAIN gr[t].array = 1 .. Len(gr[t].array)
    /\ \A i \in DOMAIN gr[t].array : <<"number", i * Unit>> \notin DOMAIN gr[t].hash
    /\ \A v \in {gr[t].array[i] : i \in DOMAIN gr[t].array}
               \cup {gr[t].hash[k] : k \in DOMAIN gr[t].hash} :
         /\ v = <<v[1], v[2]>> /\ (v[1] = "table" => v[2] \in Tables)
         /\ \A text \in serialize_data(v) : Reads(v, ReadText(text))
    /\ \A k \in {<<"number", i * Unit>> : i \in DOMAIN gr[t].array} \cup DOMAIN gr[t].hash :
         \A text \in serialize_data(k) : ReadText(text) = k
    /\ EmptyArray(gr[t]) => \A i \in DOMAIN gr[t].array : gr[t].array[i] = Nil
===============================================================================
