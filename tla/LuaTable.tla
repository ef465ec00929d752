------------------------------ MODULE LuaTable ------------------------------
(* A table of the Lua virtual machine: src/src/lua/ltable.c, with removeentry   *)
(* of lgc.c.  Everything a script keeps is in such tables, the preserved        *)
(* globals of a sandbox included.                                               *)
(*                                                                              *)
(* `t' is the Table: `array' its array part, `node' its hash part (the index of *)
(* a node is its position), `lastfree' the position below which free nodes are  *)
(* looked for; `dummy' stands for node == dummynode.  A key that is a number is *)
(* a natural number; Objects are the keys that can be collected (strings), each *)
(* with the hash it was created with.                                           *)
(* An allocation may be refused by the sandbox's allocator; Lua then throws and *)
(* the script may catch that and go on with the table as it was left.           *)
(* `dict' is a ghost, what the script assigned; `lost' the keys whose value a   *)
(* refused allocation put in doubt; `since' counts the operations from that     *)
(* refusal on, 0 before; `walk' is a traversal with next().                     *)
EXTENDS Integers, FiniteSets, Sequences, SequencesExt, FiniteSetsExt, Functions, TLC

CONSTANTS Numbers,      \* the numbers used as keys
          Objects,      \* the other keys
          Hash,         \* the hash of each object
          Values,       \* what is stored in the table
          Nil,
          MAX_INT,      \* INT_MAX-2 in llimits.h
          MaxSince      \* bound: operations from the one whose allocation is refused

ASSUME LuaTableAssumption ==
    /\ Numbers \subseteq Nat /\ Hash \in [Objects -> Nat]
    /\ Nil \notin Values \cup Objects /\ MAX_INT \in Nat /\ MaxSince \in Nat

VARIABLES t, dict, lost, since, walk

vars == <<t, dict, lost, since, walk>>

Keys == Numbers \cup Objects
None == -1
Free == [key |-> Nil, dead |-> FALSE, val |-> Nil, next |-> None]

------------------------------------------------------------------------------
(* Hash and main position. *)

sizenode(x) == Cardinality(DOMAIN x.node)
sizearray(x) == Len(x.array)
Pow2 == {2 ^ i : i \in 0..20}
twoto_ceillog2(n) == Min({p \in Pow2 : p >= n})

\* The most significant word of a natural number below 2^21 as an IEEE 754
\* double; the other word is 0.
Words(n) == LET e == CHOOSE e \in 0..20 : 2 ^ e <= n /\ n < 2 ^ (e + 1)
            IN  ((1023 + e) * (2 ^ 20)) + ((n - (2 ^ e)) * (2 ^ (20 - e)))

hashnum(x, n) == IF n = 0 THEN 0 ELSE Words(n) % Max({sizenode(x) - 1, 1})
hashstr(x, o) == Hash[o] % sizenode(x)

mainposition(x, k) == IF k \in Objects THEN hashstr(x, k) ELSE hashnum(x, k)

arrayindex(k) == IF k \in Objects THEN -1 ELSE k

\* The positions of the chain that starts at position n, in order.
Chain(x, n) ==
    LET seq[s \in 0..sizenode(x)] ==
          IF s = 0 THEN <<n>>
          ELSE LET c == seq[s - 1] IN
               IF x.node[Last(c)].next = None THEN c ELSE Append(c, x.node[Last(c)].next)
    IN  seq[sizenode(x)]

\* The first node of the chain of k that is one of those given, as a set.
Found(x, k, nodes) ==
    LET c == Chain(x, mainposition(x, k))
        i == {j \in DOMAIN c : c[j] \in nodes}
    IN  IF i = {} THEN {} ELSE {c[Min(i)]}

Holding(x, k) == {n \in DOMAIN x.node : x.node[n].key = k}
Live(x, k) == {n \in Holding(x, k) : ~x.node[n].dead}

------------------------------------------------------------------------------
(* Lookup: the place of a key is <<"array", i>> or <<"node", n>>.  It is empty  *)
(* for luaO_nilobject.                                                          *)

InArray(x, k) == 1 <= arrayindex(k) /\ arrayindex(k) <= sizearray(x)

luaH_place(x, k) ==
    IF InArray(x, k) THEN {<<"array", k>>}
    ELSE {<<"node", n>> : n \in Found(x, k, Live(x, k))}

At(x, p) == IF p[1] = "array" THEN x.array[p[2]] ELSE x.node[p[2]].val
Put(x, p, v) == IF p[1] = "array" THEN [x EXCEPT !.array[p[2]] = v]
                                  ELSE [x EXCEPT !.node[p[2]].val = v]

luaH_get(x, k) == IF luaH_place(x, k) = {} THEN Nil
                  ELSE At(x, CHOOSE p \in luaH_place(x, k) : TRUE)

------------------------------------------------------------------------------
(* Insertion of a key that is not in the table. *)

\* The free position found, None if there is none, and lastfree afterwards.
getfreepos(x) ==
    LET free == {n \in DOMAIN x.node : n < x.lastfree /\ x.node[n].key = Nil /\ ~x.node[n].dead}
    IN  IF free = {} \/ x.dummy THEN None ELSE Max(free)

HasRoom(x, k) ==
    (x.node[mainposition(x, k)].val = Nil /\ ~x.dummy) \/ getfreepos(x) # None

\* Mutated: the colliding node moves, and the chain it is in is not redone.
InsertBreakingChain(x, k, v) ==
    LET mp == mainposition(x, k)
        n == getfreepos(x)
        New(next) == [key |-> k, dead |-> FALSE, val |-> v, next |-> next]
    IN  IF x.node[mp].val = Nil /\ ~x.dummy
        THEN [x EXCEPT !.node[mp] = New(@.next)]
        ELSE IF mainposition(x, x.node[mp].key) # mp
        THEN [x EXCEPT !.node = [@ EXCEPT ![n] = x.node[mp], ![mp] = New(None)], !.lastfree = n]
        ELSE [x EXCEPT !.node = [@ EXCEPT ![n] = New(x.node[mp].next), ![mp].next = n],
                       !.lastfree = n]

\* newkey, when the key finds room in the hash part; with its value.
Insert(x, k, v) ==
    LET mp == mainposition(x, k)
        n == getfreepos(x)
        othern == mainposition(x, x.node[mp].key)
        previous == CHOOSE p \in ToSet(Chain(x, othern)) : x.node[p].next = mp
        New(next) == [key |-> k, dead |-> FALSE, val |-> v, next |-> next]
    IN  IF x.node[mp].val = Nil /\ ~x.dummy
        THEN [x EXCEPT !.node[mp] = New(@.next)]
        ELSE IF othern # mp       \* the colliding node moves to the free position
        THEN [x EXCEPT !.node = [@ EXCEPT ![previous].next = n, ![n] = x.node[mp],
                                          ![mp] = New(None)],
                       !.lastfree = n]
        ELSE [x EXCEPT !.node = [@ EXCEPT ![n] = New(x.node[mp].next), ![mp].next = n],
                       !.lastfree = n]

\* luaH_set and the assignment, in a table that has room for the key.
Store(x, k, v) ==
    IF luaH_place(x, k) # {} THEN Put(x, CHOOSE p \in luaH_place(x, k) : TRUE, v)
    ELSE IF HasRoom(x, k) THEN Insert(x, k, v)
    ELSE x

------------------------------------------------------------------------------
(* Rehash. *)

setarrayvector(x, size) ==
    [x EXCEPT !.array = @ \o [i \in 1..(size - Len(@)) |-> Nil]]

setnodevector(x, size) ==
    LET n == IF size = 0 THEN 1 ELSE twoto_ceillog2(size) IN
    [x EXCEPT !.node = [i \in 0..(n - 1) |-> Free],
              !.dummy = (size = 0), !.lastfree = IF size = 0 THEN 0 ELSE n]

\* What is used of the array part and of the hash part.
ArrayUse(x) == {i \in DOMAIN x.array : x.array[i] # Nil}
HashUse(x) == {n \in DOMAIN x.node : x.node[n].val # Nil}
countint(k) == 0 < arrayindex(k)

\* How many entries, the new key included, have an integer key up to p.  A key
\* that a refused allocation has left in both parts counts twice.
nums(x, ek, p) ==
    LET upto(k) == countint(k) /\ arrayindex(k) <= p
    IN  Cardinality({i \in ArrayUse(x) : i <= p})
          + Cardinality({n \in HashUse(x) : upto(x.node[n].key)})
          + IF upto(ek) THEN 1 ELSE 0

\* The size of the array part: the largest power of 2 more than half of which
\* is used, its upper half too; 0 if there is none.
computesizes(x, ek) ==
    Max({0} \cup {p \in Pow2 : /\ p \div 2 < nums(x, ek, Max(Pow2))
                               /\ nums(x, ek, p \div 2) < nums(x, ek, p)
                               /\ p < 2 * nums(x, ek, p)})

\* How many keys the hash part must hold besides.
HashSize(x, ek) ==
    (Cardinality(ArrayUse(x)) + Cardinality(HashUse(x)) + 1)
      - nums(x, ek, computesizes(x, ek))

\* The elements of the array part beyond n, then those of the node vector from
\* the end, are stored again.
Slice(x, old, n) ==
    FoldLeft(LAMBDA y, i : IF old[i] = Nil THEN y ELSE Store(y, i, old[i]),
             x, [i \in 1..(Len(old) - n) |-> n + i])
Reinserted(x, nold) ==
    FoldLeft(LAMBDA y, n : IF nold[n].val = Nil THEN y ELSE Store(y, nold[n].key, nold[n].val),
             x, Reverse([i \in 1..Cardinality(DOMAIN nold) |-> i - 1]))

\* resize.  `refused' is the allocation that is refused: array (to grow), node,
\* shrink; or none.
resize(x, nasize, nhsize, refused) ==
    LET grown == IF nasize > sizearray(x) THEN setarrayvector(x, nasize) ELSE x
        fresh == setnodevector(grown, nhsize)
        moved == IF nasize >= sizearray(x) THEN fresh
                 ELSE Slice([fresh EXCEPT !.array = SubSeq(@, 1, nasize)], x.array, nasize)
    IN  CASE refused = "array"  -> x
          [] refused = "node"   -> grown
          [] refused = "shrink" -> moved
          [] OTHER              -> Reinserted(moved, x.node)

\* What a resize may be refused, given the sizes.
Refusals(x, nasize, nhsize) ==
    {r \in {"array", "node", "shrink"} :
       /\ since = 0 /\ MaxSince > 0
       /\ r = "array" => nasize > sizearray(x)
       /\ r = "node" => nhsize > 0
       /\ r = "shrink" => nasize < sizearray(x)}

\* The keys whose value is in doubt after a refusal: with an array part that
\* has grown and the old hash part, the integers that are now looked for in the
\* array part; with a new hash part, all that were in the old one.
Doubtful(x, nasize, refused) ==
    LET stored == {x.node[n].key : n \in HashUse(x)} IN
    CASE refused = "node"   -> {k \in stored : sizearray(x) < arrayindex(k) /\ arrayindex(k) <= nasize}
      [] refused = "shrink" -> stored
      [] OTHER              -> {}

------------------------------------------------------------------------------
(* The end of the array. *)

\* Binary search between i, present or 0, and j, which is not.
Search(present, i, j) ==
    LET at[s \in 0..20] ==
          IF s = 0 THEN <<i, j>>
          ELSE LET p == at[s - 1]
                   m == (p[1] + p[2]) \div 2
               IN  IF p[2] - p[1] <= 1 THEN p
                   ELSE IF m \in present THEN <<m, p[2]>> ELSE <<p[1], m>>
    IN  at[20][1]

Linear(x) == Min({i \in 1..(Max(Numbers \cup {0}) + 1) : luaH_get(x, i) = Nil}) - 1

unbound_search(x, j) ==
    LET step[s \in 0..20] ==    \* <<i, j>> while j is present
          IF s = 0 THEN <<j, j + 1>>
          ELSE LET p == step[s - 1] IN
               IF p[2] > MAX_INT \/ luaH_get(x, p[2]) = Nil THEN p ELSE <<p[2], 2 * p[2]>>
        p == step[20]
    IN  IF p[2] > MAX_INT THEN Linear(x)
        ELSE Search({m \in p[1]..p[2] : luaH_get(x, m) # Nil}, p[1], p[2])

\* Mutated: the hash part is not looked at.
luaH_getn_array(x) ==
    LET j == sizearray(x) IN
    IF j > 0 /\ x.array[j] = Nil THEN Search(ArrayUse(x), 0, j) ELSE j

luaH_getn(x) ==
    LET j == sizearray(x) IN
    IF j > 0 /\ x.array[j] = Nil THEN Search(ArrayUse(x), 0, j)
    ELSE IF x.dummy THEN j
    ELSE unbound_search(x, j)

------------------------------------------------------------------------------
(* Traversal. *)

\* Mutated: a key that was collected is not found.
findindex_live(x, k) ==
    IF k = Nil THEN {-1}
    ELSE IF InArray(x, k) THEN {k - 1}
    ELSE {n + sizearray(x) : n \in Found(x, k, Live(x, k))}

\* The indices findindex may return for the key: empty for "invalid key to next".
findindex(x, k) ==
    IF k = Nil THEN {-1}
    ELSE IF InArray(x, k) THEN {k - 1}
    ELSE {n + sizearray(x) : n \in Found(x, k, Holding(x, k))}

KeyAt(x, i) == IF i < sizearray(x) THEN i + 1 ELSE x.node[i - sizearray(x)].key
ValueAt(x, i) == IF i < sizearray(x) THEN x.array[i + 1] ELSE x.node[i - sizearray(x)].val

\* The indices after i that have a value.
Following(x, i) ==
    {j \in (i + 1)..(sizearray(x) + sizenode(x) - 1) : ValueAt(x, j) # Nil}

\* The keys of walk.keep have had a value ever since the traversal began.
NoWalk == [state |-> "none", key |-> Nil, seen |-> <<>>, keep |-> {}]

luaH_next(x, w) ==
    LET i == findindex(x, w.key) IN
    IF i = {} THEN [w EXCEPT !.state = "invalid"]
    ELSE LET after == Following(x, CHOOSE j \in i : TRUE) IN
         IF after = {} THEN [w EXCEPT !.state = "done"]
         ELSE [w EXCEPT !.key = KeyAt(x, Min(after)), !.seen = Append(@, KeyAt(x, Min(after)))]

------------------------------------------------------------------------------
(* What a script does. *)

\* An operation after the refusal.
Counted == /\ since > 0 => since < MaxSince
           /\ since' = IF since = 0 THEN 0 ELSE since + 1

Init ==
    \* luaH_new
    /\ \E narray, nhash \in 0..2 :
         t = setnodevector(setarrayvector([array |-> <<>>, node |-> <<>>, dummy |-> TRUE,
                                           lastfree |-> 0], narray), nhash)
    /\ dict = [k \in Keys |-> Nil]
    /\ lost = {} /\ since = 0
    /\ walk = NoWalk

\* The assignment of a value to a key that is in the table; of nil too.
Assign(k, v) ==
    /\ luaH_place(t, k) # {}
    /\ walk.state = "on" => dict[k] # Nil
    /\ t' = Store(t, k, v)
    /\ dict' = [dict EXCEPT ![k] = v]
    /\ walk' = IF walk.state # "on" THEN NoWalk
               ELSE IF v = Nil THEN [walk EXCEPT !.keep = @ \ {k}] ELSE walk
    /\ Counted /\ UNCHANGED lost

\* A script does not assign to a new key while it traverses the table (the
\* reference manual leaves next() undefined then).
NewKey(k, v) ==
    /\ luaH_place(t, k) = {} /\ HasRoom(t, k)
    /\ walk.state # "on"
    /\ t' = Store(t, k, v)
    /\ dict' = [dict EXCEPT ![k] = v]
    /\ walk' = NoWalk
    /\ Counted /\ UNCHANGED lost

\* newkey without a free position: rehash, then the key is set in the new table.
rehash(k, v) ==
    LET nasize == computesizes(t, k)
        nhsize == HashSize(t, k)
        full == [t EXCEPT !.lastfree = 0]
    IN
    /\ luaH_place(t, k) = {} /\ ~HasRoom(t, k)
    /\ walk.state # "on"
    /\ walk' = NoWalk
    /\ \/ /\ t' = Store(resize(full, nasize, nhsize, "none"), k, v)
          /\ dict' = [dict EXCEPT ![k] = v]
          /\ Counted /\ UNCHANGED lost
       \/ \E r \in Refusals(t, nasize, nhsize) :
            /\ t' = resize(full, nasize, nhsize, r)
            /\ lost' = lost \cup Doubtful(t, nasize, r)
            /\ since' = 1
            /\ UNCHANGED dict

\* OP_SETLIST of a table constructor: the first thing that happens to a table,
\* and a table whose constructor fails is lost with it.
luaH_resizearray(nasize) ==
    /\ nasize > sizearray(t) /\ since = 0 /\ walk.state = "none"
    /\ t' = resize(t, nasize, IF t.dummy THEN 0 ELSE sizenode(t), "none")
    /\ UNCHANGED <<dict, lost, since, walk>>

\* The collector visits the table: the entries without a value lose a key that
\* is an object (removeentry), which may then be freed.
traversetable ==
    /\ t' = [t EXCEPT !.node = [n \in DOMAIN @ |->
                IF @[n].val = Nil /\ @[n].key \in Objects THEN [@[n] EXCEPT !.dead = TRUE]
                ELSE @[n]]]
    /\ Counted /\ UNCHANGED <<dict, lost, walk>>

StartWalk ==
    /\ walk.state = "none"
    /\ walk' = luaH_next(t, [NoWalk EXCEPT !.state = "on", !.keep = {k \in Keys : dict[k] # Nil}])
    /\ UNCHANGED <<t, dict, lost, since>>

\* Bound: a traversal that met a key twice is not followed further.
Step ==
    /\ walk.state = "on" /\ Cardinality(ToSet(walk.seen)) = Len(walk.seen)
    /\ walk' = luaH_next(t, walk)
    /\ UNCHANGED <<t, dict, lost, since>>

Next ==
    \/ \E k \in Keys, v \in Values \cup {Nil} : Assign(k, v) \/ NewKey(k, v) \/ rehash(k, v)
    \/ \E n \in Numbers : luaH_resizearray(n)
    \/ traversetable
    \/ StartWalk
    \/ Step

Spec == Init /\ [][Next]_vars

------------------------------------------------------------------------------
(* Properties. *)

\* A table is a dictionary: a key has the value last assigned to it, however
\* the table was rehashed, its nodes moved and its empty entries collected
\* since, and whatever allocation was refused, but for the keys of lost
\* (newkey, rehash, resize, luaH_get).
Dictionary == \A k \in Keys \ lost : luaH_get(t, k) = dict[k]

\* A traversal meets every key that has a value throughout it exactly once,
\* although entries are cleared, and their keys collected, while it goes on;
\* in a table without doubtful keys (findindex, luaH_next).
VisitsOnce ==
    lost = {} =>
      /\ walk.state # "invalid"
      /\ Cardinality(ToSet(walk.seen)) = Len(walk.seen)
      /\ walk.state = "done" => walk.keep \subseteq ToSet(walk.seen)

\* The length of a table is a border: an index with a value, or 0, whose
\* successor has none (luaH_getn, unbound_search).
Border ==
    lost = {} =>
      LET n == luaH_getn(t) IN
    /\ n = 0 \/ luaH_get(t, n) # Nil
    /\ luaH_get(t, n + 1) = Nil
=============================================================================
