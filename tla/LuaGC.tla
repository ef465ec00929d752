-------------------------------- MODULE LuaGC --------------------------------
(* The incremental collector of the Lua virtual machine: src/src/lua/lgc.c and  *)
(* lgc.h, with the parts of lfunc.c (upvalues), lstring.c (string table),       *)
(* lstate.c (threads, closing) and ldo.c (throwing) it works with.              *)
(* `g' is the global_State.  Between two steps of the program the collector     *)
(* may make any number of its single steps.  `L' is the running thread.         *)
(* Abstractions: an object has an id that is never used again, so that a        *)
(* reference to a freed object shows; a value that is not collectable is Nil;   *)
(* a table has one entry (key, val), and its key Nil stands for a number; the   *)
(* fields __mode and __gc of a metatable are a field of the table, `meta', set  *)
(* when it is created; a C closure has one upvalue, a prototype one constant.   *)
(* A program reads tables, upvalues and locals without any effect on the        *)
(* collector, so an operation takes its operands from all it can reach.         *)
EXTENDS Integers, FiniteSets, Sequences, SequencesExt, TLC

CONSTANTS GCSWEEPMAX,     \* objects swept in one step
          MINSTRTABSIZE,  \* initial number of buckets of the string table
          Programs        \* the kinds of operations of a program, and its bounds:
                          \* strings, objects, operations, values on a stack

ASSUME LuaGCAssumption ==
    /\ GCSWEEPMAX \in Nat \ {0} /\ MINSTRTABSIZE \in Nat \ {0}
    /\ \A p \in Programs :
         p.strings \in Nat /\ p.objects \in Nat /\ p.ops \in Nat /\ p.stack \in Nat

VARIABLES g,        \* global_State
          L,        \* the running lua_State
          program,  \* the kinds of operations this program makes, and its bounds
          ops,      \* how many operations it has made
          phase,    \* open, then lua_close: closing, closed
          garbage,  \* ghost: unreachable since the last markroot
          owed,     \* ghost: the userdata given a metatable with __gc
          log       \* ghost: the userdata whose __gc was called, in order

vars == <<g, L, program, ops, phase, garbage, owed, log>>

Nil == 0
Main == 1
Globals == 2
Gray == 2
Black == 3
Both == 2      \* currentwhite of luaC_freeall: everything but the main thread is dead

------------------------------------------------------------------------------
(* Marks and lists. *)

otherwhite(x) == 1 - x.currentwhite
iswhite(x, o) == x.heap[o].marked < Gray
isdead(x, o) == x.currentwhite # Both /\ x.heap[o].marked = otherwhite(x)

Mark(x, o, c) == [x EXCEPT !.heap[o].marked = c]
makewhite(x, o) == Mark(x, o, IF x.currentwhite = Both THEN 0 ELSE x.currentwhite)

Add(x, o, r) == [x EXCEPT !.heap = @ @@ (o :> r), !.created = o]
Free(x, o) == [x EXCEPT !.heap = [p \in DOMAIN @ \ {o} |-> @[p]]]

New(x) == x.created + 1

\* The object a value of an open upvalue lives in is the stack of its thread.
ValueOf(x, u) ==
    LET uv == x.heap[u] IN IF uv.open THEN x.heap[uv.th].stack[uv.v] ELSE uv.v

\* reallymarkobject of what is not an upvalue: the metatable of a userdata is a table.
markgray(x, o) ==
    IF o = Nil \/ ~iswhite(x, o) THEN x
    ELSE [Mark(x, o, Gray) EXCEPT !.gray = <<o>> \o @]

markvalue(x, o) ==
    IF o = Nil \/ ~iswhite(x, o) THEN x
    ELSE IF x.heap[o].tt = "string" THEN Mark(x, o, Gray)
    ELSE IF x.heap[o].tt = "userdata" THEN markgray(Mark(x, o, Black), x.heap[o].mt)
    ELSE markgray(x, o)

markupval(x, u) ==
    IF ~iswhite(x, u) THEN x
    ELSE LET y == markvalue(Mark(x, u, Gray), ValueOf(x, u))
         IN IF x.heap[u].open THEN y ELSE Mark(y, u, Black)

markobject(x, o) == IF o # Nil /\ x.heap[o].tt = "upval" THEN markupval(x, o) ELSE markvalue(x, o)

markall(x, s) == FoldLeft(markvalue, x, s)

Times(n) == [i \in 1..n |-> i]
Without(s, o) == SelectSeq(s, LAMBDA p : p # o)
InsertAfter(s, o, new) == InsertAt(s, SelectInSeq(s, LAMBDA p : p = o) + 1, new)

------------------------------------------------------------------------------
(* Traversal: propagatemark. *)

Mode(x, t) == IF x.heap[t].mt = Nil THEN "" ELSE x.heap[x.heap[t].mt].meta
WeakKey(x, t) == Mode(x, t) \in {"k", "kv"}
WeakValue(x, t) == Mode(x, t) \in {"v", "kv"}
IsWeak(x, t) == WeakKey(x, t) \/ WeakValue(x, t)

removeentry(x, t) == [x EXCEPT !.heap[t].key = Nil, !.heap[t].val = Nil]

traversetable(x, t) ==
    LET y == markgray(x, x.heap[t].mt)
        w == IF IsWeak(x, t) THEN [Mark(y, t, Gray) EXCEPT !.weak = <<t>> \o @] ELSE y
        k == IF WeakKey(x, t) THEN w ELSE markvalue(w, x.heap[t].key)
        v == IF WeakValue(x, t) THEN k ELSE markvalue(k, x.heap[t].val)
    IN IF x.heap[t].val = Nil /\ ~(WeakKey(x, t) /\ WeakValue(x, t)) THEN removeentry(w, t)
       ELSE v

traverseclosure(x, c) ==
    LET f == x.heap[c]
    IN IF f.isC THEN markvalue(x, f.value) ELSE markupval(markvalue(x, f.proto), f.upval)

\* The stack of a thread that had grown is halved; the allocator of the sandbox
\* refuses it when the state is above its limit, and refusing throws.
checkstacksizes(x, th) ==
    IF ~x.heap[th].big THEN x
    ELSE IF x.refused THEN [x EXCEPT !.thrown = TRUE]
    ELSE [x EXCEPT !.heap[th].big = FALSE]

traversestack(x, th) == checkstacksizes(markall(x, x.heap[th].stack), th)

propagatemark(x) ==
    LET o == Head(x.gray)
        y == Mark([x EXCEPT !.gray = Tail(@)], o, Black)
    IN CASE x.heap[o].tt = "table"    -> traversetable(y, o)
         [] x.heap[o].tt = "function" -> traverseclosure(y, o)
         [] x.heap[o].tt = "proto"    -> markvalue(y, x.heap[o].k)
         [] x.heap[o].tt = "thread"   ->
              traversestack([Mark(y, o, Gray) EXCEPT !.grayagain = <<o>> \o @], o)

\* Every object is traversed at most once more than it is in the list.
propagateall(x) ==
    FoldLeft(LAMBDA y, i : IF y.gray = <<>> \/ y.thrown THEN y ELSE propagatemark(y),
             x, Times(Len(x.gray) + Cardinality(DOMAIN x.heap)))

------------------------------------------------------------------------------
(* Barriers. *)

luaC_barrierf(x, o, v) ==
    IF v = Nil \/ x.heap[o].marked # Black THEN x
    ELSE IF ~iswhite(x, v) THEN x
    ELSE IF x.gcstate = "propagate" THEN markobject(x, v) ELSE makewhite(x, o)

\* Mutant: a store into a black table is not remembered.
luaC_barrierback_forgets(x, t, v) == x

luaC_barrierback(x, t, v) ==
    IF v = Nil \/ x.heap[t].marked # Black THEN x
    ELSE IF ~iswhite(x, v) THEN x
    ELSE [Mark(x, t, Gray) EXCEPT !.grayagain = <<t>> \o @]

------------------------------------------------------------------------------
(* Upvalues (lfunc.c); openupval lists those of a thread from the top of its    *)
(* stack down.                                                                  *)

luaC_linkupval(x, u) ==
    LET y == [x EXCEPT !.rootgc = <<u>> \o @]
    IN IF x.heap[u].marked # Gray THEN y
       ELSE IF x.gcstate = "propagate" THEN luaC_barrierf(Mark(y, u, Black), u, x.heap[u].v)
       ELSE makewhite(y, u)

\* Mutant: a dead upvalue is closed and linked too.
CloseUpval_dead(x, th) ==
    LET u == Head(x.heap[th].openupval)
    IN luaC_linkupval([x EXCEPT !.heap[th].openupval = Tail(@), !.heap[u].v = ValueOf(x, u),
                                !.heap[u].open = FALSE, !.heap[u].th = Nil], u)

CloseUpval(x, th) ==
    LET u == Head(x.heap[th].openupval)
        y == [x EXCEPT !.heap[th].openupval = Tail(@)]
    IN IF isdead(x, u) THEN Free(y, u)
       ELSE luaC_linkupval([y EXCEPT !.heap[u].v = ValueOf(x, u), !.heap[u].open = FALSE,
                                     !.heap[u].th = Nil], u)

luaF_close(x, th, level) ==
    FoldLeft(LAMBDA y, u : IF y.heap[u].v >= level THEN CloseUpval(y, th) ELSE y,
             x, x.heap[th].openupval)

\* The slots from level up leave their scope.
Leave(x, th, level) ==
    [luaF_close(x, th, level) EXCEPT !.heap[th].stack = SubSeq(@, 1, level - 1)]

At(x, th, level) ==
    SelectSeq(x.heap[th].openupval, LAMBDA u : x.heap[u].v = level)

\* The upvalue of a slot: found, and then brought back when it is dead, or made.
luaF_findupval(x, th, level) ==
    LET found == At(x, th, level)
        above == SelectSeq(x.heap[th].openupval, LAMBDA u : x.heap[u].v > level)
        below == SelectSeq(x.heap[th].openupval, LAMBDA u : x.heap[u].v < level)
    IN IF found # <<>>
       THEN IF isdead(x, found[1]) THEN Mark(x, found[1], x.currentwhite) ELSE x
       ELSE [Add(x, New(x), [tt |-> "upval", marked |-> x.currentwhite, open |-> TRUE,
                             th |-> th, v |-> level])
             EXCEPT !.heap[th].openupval = above \o <<New(x)>> \o below]

------------------------------------------------------------------------------
(* The string table (lstring.c). *)

nuse(x) == Cardinality({o \in DOMAIN x.heap : x.heap[o].tt = "string"})

Bucket(s, size) == (s % size) + 1

luaS_resize(x, size) ==
    IF x.gcstate = "sweepstring" THEN x
    ELSE IF x.refused THEN [x EXCEPT !.thrown = TRUE]
    ELSE [x EXCEPT !.strt =
            FoldLeft(LAMBDA t, o : [t EXCEPT ![Bucket(x.heap[o].s, size)] = <<o>> \o @],
                     [b \in 1..size |-> <<>>], FlattenSeq(@))]

newlstr(x, s) ==
    LET y == [Add(x, New(x), [tt |-> "string", marked |-> x.currentwhite, s |-> s])
              EXCEPT !.strt[Bucket(s, Len(x.strt))] = <<New(x)>> \o @]
    IN IF nuse(y) > Len(y.strt) THEN luaS_resize(y, 2 * Len(y.strt)) ELSE y

Chained(x, s) == SelectSeq(x.strt[Bucket(s, Len(x.strt))], LAMBDA o : x.heap[o].s = s)

\* A string of the table is used again, and brought back when it is dead.
luaS_newlstr(x, s) ==
    LET found == Chained(x, s)
    IN IF found = <<>> THEN newlstr(x, s)
       ELSE IF isdead(x, found[1]) THEN Mark(x, found[1], x.currentwhite) ELSE x

------------------------------------------------------------------------------
(* Userdata and the atomic end of the mark phase. *)

Has__gc(x, u) == x.heap[u].mt # Nil /\ x.heap[x.heap[u].mt].meta = "gc"

\* The userdata are the list behind the main thread, the newest first.
UdataList(x) == SelectSeq(x.rootgc, LAMBDA o : x.heap[o].tt = "userdata")

\* Mutant: closing does not see which userdata have been finalized.
luaC_separateudata_again(x, all) ==
    FoldLeft(LAMBDA y, u :
               IF (~iswhite(y, u) \/ y.heap[u].finalized) /\ ~all THEN y
               ELSE IF ~Has__gc(y, u) THEN [y EXCEPT !.heap[u].finalized = TRUE]
               ELSE [y EXCEPT !.heap[u].finalized = TRUE, !.tmudata = Append(@, u),
                              !.rootgc = Without(@, u)],
             x, UdataList(x))

luaC_separateudata(x, all) ==
    FoldLeft(LAMBDA y, u :
               IF ~(iswhite(y, u) \/ all) \/ y.heap[u].finalized THEN y
               ELSE IF ~Has__gc(y, u) THEN [y EXCEPT !.heap[u].finalized = TRUE]
               ELSE [y EXCEPT !.heap[u].finalized = TRUE, !.tmudata = Append(@, u),
                              !.rootgc = Without(@, u)],
             x, UdataList(x))

marktmu(x) == FoldLeft(LAMBDA y, u : markvalue(makewhite(y, u), u), x, x.tmudata)

IsString(x, o) == o # Nil /\ x.heap[o].tt = "string"

\* Strings are values: one found in a weak table is kept.
Cleared(x, o, iskey) ==
    /\ o # Nil
    /\ x.heap[o].tt # "string"
    /\ iswhite(x, o) \/ (x.heap[o].tt = "userdata" /\ ~iskey /\ x.heap[o].finalized)

KeepString(x, o) == IF IsString(x, o) THEN Mark(x, o, Gray) ELSE x

cleartable(x) ==
    FoldLeft(LAMBDA y, t :
               LET e == y.heap[t]
               IN IF e.val = Nil THEN y
                  ELSE IF Cleared(y, e.key, TRUE) THEN removeentry(y, t)
                  ELSE IF Cleared(y, e.val, FALSE)
                       THEN removeentry(KeepString(y, e.key), t)
                       ELSE KeepString(KeepString(y, e.key), e.val),
             x, x.weak)

markroot(x) ==
    LET y == [x EXCEPT !.gray = <<>>, !.grayagain = <<>>, !.weak = <<>>]
    IN [markall(y, <<Main, Globals>>) EXCEPT !.gcstate = "propagate"]

\* The open upvalues, of dead threads too, that a traversal reached.
remarkupvals(x) ==
    FoldLeft(LAMBDA y, u : IF y.heap[u].marked = Gray THEN markvalue(y, ValueOf(y, u)) ELSE y,
             x, SetToSeq({o \in DOMAIN x.heap : x.heap[o].tt = "upval" /\ x.heap[o].open}))

\* What each pass of atomic adds to the gray list before it is propagated.
pass(x, n, th) ==
    CASE n = 1 -> remarkupvals(x)
      [] n = 2 -> markvalue([x EXCEPT !.gray = x.weak, !.weak = <<>>], th)
      [] n = 3 -> [x EXCEPT !.gray = x.grayagain, !.grayagain = <<>>]
      [] n = 4 -> marktmu(luaC_separateudata(x, FALSE))

flip(x) ==
    [cleartable(x) EXCEPT !.currentwhite = otherwhite(x), !.sweepstrgc = 0, !.sweepgc = Nil,
                          !.gcstate = "sweepstring"]

atomic(x, th) ==
    LET y == FoldLeft(LAMBDA z, n : IF z.thrown THEN z ELSE propagateall(pass(z, n, th)),
                      x, Times(4))
    IN IF y.thrown THEN y ELSE flip(y)

------------------------------------------------------------------------------
(* Sweeping.  sweepgc is the last object swept and kept, Nil for none: the next *)
(* is the one its link leads to, also when it has moved to tmudata.             *)

Successor(s, o) == s[SelectInSeq(s, LAMBDA p : p = o) + 1]

Swept(x) ==
    IF x.sweepgc = Nil THEN Head(x.rootgc)
    ELSE IF x.sweepgc = Last(x.rootgc) THEN Nil
    ELSE IF Contains(x.rootgc, x.sweepgc) THEN Successor(x.rootgc, x.sweepgc)
    ELSE Successor(x.tmudata \o <<Head(x.tmudata)>>, x.sweepgc)

Erased(x, o) ==
    IF x.currentwhite = Both THEN o # Main ELSE o # Main /\ x.heap[o].marked = otherwhite(x)

sweepupvals(x, th) ==
    FoldLeft(LAMBDA y, u :
               IF Erased(y, u)
               THEN Free([y EXCEPT !.heap[th].openupval = Without(@, u)], u)
               ELSE makewhite(y, u),
             x, x.heap[th].openupval)

\* Mutant: the upvalues of a thread are not closed when it is freed.
luaE_freethread_open(x, th) == Free(x, th)

luaE_freethread(x, th) == Free(luaF_close(x, th, 1), th)

sweepone(x) ==
    LET o == Swept(x)
        y == IF o = Nil THEN x
             ELSE IF x.heap[o].tt = "thread" THEN sweepupvals(x, o) ELSE x
        z == [y EXCEPT !.rootgc = Without(@, o)]
    IN IF o = Nil THEN x
       ELSE IF ~Erased(y, o) THEN [makewhite(y, o) EXCEPT !.sweepgc = o]
       ELSE IF y.heap[o].tt = "thread" THEN luaE_freethread(z, o) ELSE Free(z, o)

sweeplist(x, count) == FoldLeft(LAMBDA y, i : sweepone(y), x, Times(count))

sweepchain(x, b) ==
    FoldLeft(LAMBDA y, o :
               IF Erased(y, o)
               THEN Free([y EXCEPT !.strt[b] = Without(@, o)], o)
               ELSE makewhite(y, o),
             x, x.strt[b])

sweepstring(x) ==
    LET y == [sweepchain(x, x.sweepstrgc + 1) EXCEPT !.sweepstrgc = @ + 1]
    IN IF y.sweepstrgc >= Len(y.strt) THEN [y EXCEPT !.gcstate = "sweep"] ELSE y

checkSizes(x) ==
    IF nuse(x) < Len(x.strt) \div 4 /\ Len(x.strt) > 2 * MINSTRTABSIZE
    THEN luaS_resize(x, Len(x.strt) \div 2)
    ELSE x

sweep(x) ==
    LET y == sweeplist(x, GCSWEEPMAX)
        z == checkSizes(y)
    IN IF Swept(y) # Nil THEN y
       ELSE IF z.thrown THEN z ELSE [z EXCEPT !.gcstate = "finalize"]

luaC_freeall(x) ==
    LET y == [x EXCEPT !.currentwhite = Both, !.sweepgc = Nil]
        z == sweeplist(y, Cardinality(DOMAIN y.heap) + 1)
    IN FoldLeft(sweepchain, z, Times(Len(z.strt)))

\* GCTM: the first userdata of tmudata returns to the root list; its __gc is called on it.
GCTM(x, th) ==
    LET u == Head(x.tmudata)
        y == makewhite([x EXCEPT !.tmudata = Tail(@),
                                 !.rootgc = InsertAfter(@, Main, u)], u)
    IN IF Has__gc(y, u) THEN [y EXCEPT !.heap[th].stack = Append(@, u)] ELSE y

\* A cycle that has begun is given up: every object is made white again.
restartsweep(x) ==
    IF x.gcstate \notin {"pause", "propagate"} THEN x
    ELSE [x EXCEPT !.sweepstrgc = 0, !.sweepgc = Nil, !.gray = <<>>, !.grayagain = <<>>,
                   !.weak = <<>>, !.gcstate = "sweepstring"]

------------------------------------------------------------------------------
(* What the program reaches, and the collector owes it. *)

\* Strings are values: a weak table refers to its strings as any other table does.
Strong(x, o) ==
    LET r == x.heap[o]
    IN CASE r.tt = "string"   -> {}
         [] r.tt = "proto"    -> {r.k}
         [] r.tt = "userdata" -> {r.mt}
         [] r.tt = "thread"   -> Range(r.stack)
         [] r.tt = "upval"    -> {ValueOf(x, o)}
         [] r.tt = "function" -> IF r.isC THEN {r.value} ELSE {r.proto, r.upval}
         [] r.tt = "table"    ->
              {r.mt} \cup (IF r.val = Nil THEN {} ELSE
                {k \in {r.key} : ~WeakKey(x, o) \/ IsString(x, k)} \cup
                {v \in {r.val} : ~WeakValue(x, o) \/ IsString(x, v)})

Refers(x, o) ==
    LET r == x.heap[o]
    IN IF r.tt = "table" THEN {r.mt} \cup (IF r.val = Nil THEN {} ELSE {r.key, r.val})
       ELSE Strong(x, o)

Closure(x, roots, Refs(_, _)) ==
    LET reach[n \in 0..Cardinality(DOMAIN x.heap)] ==
          IF n = 0 THEN roots \ {Nil}
          ELSE LET r == reach[n - 1]
               IN r \cup (UNION {Refs(x, o) : o \in r \cap DOMAIN x.heap} \ {Nil})
    IN reach[Cardinality(DOMAIN x.heap)]

Roots(th) == {Main, Globals, th}
Reachable(x, th) == Closure(x, Roots(th), Refers)
StronglyReachable(x, th) == Closure(x, Roots(th), Strong)

------------------------------------------------------------------------------
(* The state of a new virtual machine, and the program's operations. *)

Thread(x, big) ==
    [tt |-> "thread", marked |-> x.currentwhite, stack |-> <<>>, openupval |-> <<>>,
     dead |-> FALSE, big |-> big]
Table(x, meta) ==
    [tt |-> "table", marked |-> x.currentwhite, mt |-> Nil, key |-> Nil, val |-> Nil,
     meta |-> meta]

\* A program that has already made a coroutine, whose local a global function shares.
WithCoroutine(x) ==
    LET th == Globals + 1
        y == luaF_findupval(Add(x, th, [Thread(x, FALSE) EXCEPT !.stack = <<Nil>>]), th, 1)
        c == New(y)
    IN [Add(y, c, [tt |-> "function", marked |-> x.currentwhite, isC |-> FALSE,
                   proto |-> Nil, upval |-> At(y, th, 1)[1]])
        EXCEPT !.rootgc = <<c, th>> \o @, !.heap[Globals].val = c, !.heap[Main].stack = <<th>>]

Init ==
    /\ program \in Programs /\ ops = 0
    /\ LET x == [heap |-> Main :> Thread([currentwhite |-> 0], "shrink" \in program.kinds) @@
                           Globals :> Table([currentwhite |-> 0], ""),
                  created |-> Globals, rootgc |-> <<Globals, Main>>,
                  strt |-> [b \in 1..MINSTRTABSIZE |-> <<>>],
                  gray |-> <<>>, grayagain |-> <<>>, weak |-> <<>>, tmudata |-> <<>>,
                  currentwhite |-> 0, gcstate |-> "pause", sweepgc |-> Nil, sweepstrgc |-> 0,
                  refused |-> FALSE, thrown |-> FALSE, full |-> "no"]
       IN g = IF "coroutine" \in program.kinds THEN WithCoroutine(x) ELSE x
    /\ L = Main
    /\ phase = "open"
    /\ garbage = {} /\ owed = {} /\ log = <<>>

\* While the state is closed only finalizers run, with their userdata on the stack.
Running == phase = "open" \/ (phase = "closing" /\ g.heap[Main].stack # <<>>)

Stack == g.heap[L].stack
Things(tt) == {o \in Reachable(g, L) : g.heap[o].tt = tt}
\* Metatables are only metatables, and the global table and the main thread are marked in
\* every cycle: they are no values.
Values ==
    {Nil} \cup {o \in Reachable(g, L) \ {Main, Globals} :
               /\ g.heap[o].tt \notin {"upval", "proto"}
               /\ g.heap[o].tt = "table" => g.heap[o].meta = ""}
Tables == {t \in Things("table") : g.heap[t].meta = ""}
Metatables == {t \in Things("table") : g.heap[t].meta # ""}
Room == Len(Stack) < program.stack
CanCreate(n) == Room /\ g.created + n <= 2 + program.objects

Mutates(x) ==
    /\ g' = x
    /\ ops' = ops + 1
    /\ UNCHANGED <<L, program, phase, log>>

Pushed(x, o) == [x EXCEPT !.heap[L].stack = Append(@, o)]

\* lua_pushvalue, lua_gettable, a local that takes a value.
Push ==
    /\ "push" \in program.kinds
    /\ Room
    /\ \E v \in Values \ {Nil} : Mutates(Pushed(g, v))
    /\ UNCHANGED owed

\* The end of a scope.
Pop ==
    /\ Stack # <<>>
    /\ Mutates(Leave(g, L, Len(Stack)))
    /\ UNCHANGED owed

SetLocal ==
    /\ "local" \in program.kinds
    /\ \E i \in DOMAIN Stack, v \in Values : Mutates([g EXCEPT !.heap[L].stack[i] = v])
    /\ UNCHANGED owed

\* luaC_link: the new object is the first of the root list.
Linked(x, r) == Pushed([Add(x, New(x), r) EXCEPT !.rootgc = <<New(x)>> \o @], New(x))

NewTable ==
    /\ "table" \in program.kinds
    /\ CanCreate(1)
    /\ \E meta \in {""} \cup {m \in {"k", "v", "kv"} : "weak" \in program.kinds}
                        \cup {m \in {"gc"} : "userdata" \in program.kinds} :
         Mutates(Linked(g, Table(g, meta)))
    /\ UNCHANGED owed

\* luaS_newudata links the userdata behind the main thread.
NewUserdata ==
    /\ "userdata" \in program.kinds
    /\ CanCreate(1)
    /\ LET u == New(g)
           x == Add(g, u, [tt |-> "userdata", marked |-> g.currentwhite, mt |-> Nil,
                           finalized |-> FALSE])
       IN Mutates(Pushed([x EXCEPT !.rootgc = InsertAfter(@, Main, u)], u))
    /\ UNCHANGED owed

NewString ==
    /\ "string" \in program.kinds
    /\ CanCreate(1)
    /\ \E s \in 1..program.strings, r \in {FALSE, "shrink" \in program.kinds} :
         LET x == luaS_newlstr([g EXCEPT !.refused = r], s)
         IN Mutates([(IF x.thrown THEN x ELSE Pushed(x, Chained(x, s)[1])) EXCEPT !.refused = FALSE])
    /\ UNCHANGED owed

NewCclosure ==
    /\ "cclosure" \in program.kinds
    /\ CanCreate(1)
    /\ \E v \in Values :
         Mutates(Linked(g, [tt |-> "function", marked |-> g.currentwhite, isC |-> TRUE,
                            value |-> v]))
    /\ UNCHANGED owed

\* The compiler makes a prototype, and adds constants to it while the collector runs.
NewProto ==
    /\ "proto" \in program.kinds
    /\ CanCreate(1)
    /\ Mutates(Linked(g, [tt |-> "proto", marked |-> g.currentwhite, k |-> Nil]))
    /\ UNCHANGED owed

AddConstant ==
    /\ "proto" \in program.kinds
    /\ \E p \in Things("proto"), v \in Things("string") :
         Mutates(luaC_barrierf([g EXCEPT !.heap[p].k = v], p, v))
    /\ UNCHANGED owed

\* OP_CLOSURE: a function of a prototype, over a local of the running function.
NewLclosure ==
    /\ "closure" \in program.kinds
    /\ CanCreate(2)
    /\ \E level \in DOMAIN Stack, p \in {Nil} \cup Things("proto") :
         LET c == New(g)
             x == [Add(g, c, [tt |-> "function", marked |-> g.currentwhite, isC |-> FALSE,
                              proto |-> p, upval |-> Nil])
                   EXCEPT !.rootgc = <<c>> \o @]
             y == luaF_findupval(x, L, level)
         IN Mutates(Pushed([y EXCEPT !.heap[c].upval = At(y, L, level)[1]], c))
    /\ UNCHANGED owed

\* lua_rawset, OP_SETTABLE: the key of a new entry and the value pass the barrier.
SetTable ==
    /\ \E t \in Tables, v \in Values,
         k \in IF "weak" \in program.kinds THEN Values ELSE {Nil} :
         LET x == luaC_barrierback([g EXCEPT !.heap[t].key = k], t, k)
         IN Mutates(luaC_barrierback([x EXCEPT !.heap[t].val = v], t, v))
    /\ UNCHANGED owed

SetMetatable ==
    /\ \E m \in Metatables :
         \/ /\ "weak" \in program.kinds
            /\ \E t \in Tables :
                 Mutates(luaC_barrierback([g EXCEPT !.heap[t].mt = m], t, m))
            /\ UNCHANGED owed
         \/ \E u \in Things("userdata") :
              /\ Mutates(luaC_barrierf([g EXCEPT !.heap[u].mt = m], u, m))
              /\ owed' = IF g.heap[m].meta # "gc" THEN owed \ {u}
                         ELSE IF g.heap[u].finalized \/ phase # "open" THEN owed
                         ELSE owed \cup {u}

\* OP_SETUPVAL, and lua_replace on an upvalue of a C function.
SetUpvalue ==
    /\ \E c \in Things("function"), v \in Values :
         LET f == g.heap[c]
         IN IF f.isC THEN Mutates(luaC_barrierf([g EXCEPT !.heap[c].value = v], c, v))
            ELSE LET uv == g.heap[f.upval]
                 IN IF uv.open THEN Mutates([g EXCEPT !.heap[uv.th].stack[uv.v] = v])
                    ELSE Mutates(luaC_barrierf([g EXCEPT !.heap[f.upval].v = v], f.upval, v))
    /\ UNCHANGED owed

NewThread ==
    /\ "thread" \in program.kinds
    /\ CanCreate(1)
    /\ Mutates(Linked(g, Thread(g, "shrink" \in program.kinds)))
    /\ UNCHANGED owed

Switch(x, th) ==
    /\ g' = x
    /\ L' = th
    /\ ops' = ops + 1
    /\ UNCHANGED <<program, phase, owed, log>>

\* lua_resume: the argument moves to the stack of the coroutine.
Resume ==
    /\ L = Main
    /\ \E th \in Things("thread") \ {Main}, v \in Values :
         /\ ~g.heap[th].dead
         /\ Len(g.heap[th].stack) < program.stack
         /\ Switch([g EXCEPT !.heap[th].stack = Append(@, v)], th)

Yield == L # Main /\ Switch(g, Main)

\* OP_RETURN closes the upvalues; luaD_poscall takes the results away.
luaD_poscall(x, th) == Leave(x, th, 1)

\* A protected call of the main thread that failed.
luaD_pcall(x) == Leave(x, Main, 1)

Return == L # Main /\ Switch([luaD_poscall(g, L) EXCEPT !.heap[L].dead = TRUE], Main)

\* An error, a refused allocation among them.
Throw == "shrink" \in program.kinds /\ Mutates([g EXCEPT !.thrown = TRUE]) /\ UNCHANGED owed

\* luaD_throw leads to the call that protects the thread: a coroutine dies with the
\* stack it had.
Unwind ==
    /\ g' = [(IF L = Main THEN luaD_pcall(g) ELSE [g EXCEPT !.heap[L].dead = TRUE])
             EXCEPT !.thrown = FALSE, !.full = "no"]
    /\ L' = Main
    /\ UNCHANGED <<program, ops, phase, garbage, owed, log>>

------------------------------------------------------------------------------
(* The collector. *)

Collects(x) ==
    /\ g' = [x EXCEPT !.refused = FALSE]
    /\ UNCHANGED <<L, program, ops, phase, owed>>

Refusals == {FALSE, "shrink" \in program.kinds}

Unreachable(x, th) == DOMAIN x.heap \ StronglyReachable(x, th)

\* Inside luaC_fullgc the cycle under way is swept, then a whole one is made.
MarkRoot ==
    /\ \/ g.gcstate = "pause"
       \/ g.gcstate = "finalize" /\ g.full = "finish"
    /\ Collects([markroot(g) EXCEPT !.full = IF @ = "finish" THEN "cycle" ELSE "no"])
    /\ garbage' = Unreachable(g, L)
    /\ UNCHANGED log

Propagate ==
    /\ g.gcstate = "propagate" /\ g.gray # <<>>
    /\ \E r \in Refusals : Collects(propagatemark([g EXCEPT !.refused = r]))
    /\ UNCHANGED <<garbage, log>>

\* What only userdata to be finalized refer to is kept for their finalizers.
Atomic ==
    /\ g.gcstate = "propagate" /\ g.gray = <<>>
    /\ \E r \in Refusals : Collects(atomic([g EXCEPT !.refused = r], L))
    /\ garbage' = garbage \ Closure(g', Range(g'.tmudata), Strong)
    /\ UNCHANGED log

SweepString ==
    /\ g.gcstate = "sweepstring"
    /\ Collects(sweepstring(g))
    /\ UNCHANGED <<garbage, log>>

\* The finalizers of luaC_fullgc are steps as any others.
EndFull(x) == IF x.gcstate = "finalize" /\ x.full = "cycle" THEN [x EXCEPT !.full = "no"] ELSE x

Sweep ==
    /\ g.gcstate = "sweep"
    /\ \E r \in Refusals : Collects(EndFull(sweep([g EXCEPT !.refused = r])))
    /\ UNCHANGED <<garbage, log>>

Called(x) == IF Has__gc(x, Head(x.tmudata)) THEN Append(log, Head(x.tmudata)) ELSE log

Finalize ==
    /\ g.gcstate = "finalize" /\ g.tmudata # <<>> /\ g.full = "no"
    /\ Collects(GCTM(g, L))
    /\ log' = Called(g)
    /\ garbage' = {}

EndCycle ==
    /\ g.gcstate = "finalize" /\ g.tmudata = <<>> /\ g.full = "no"
    /\ Collects([g EXCEPT !.gcstate = "pause"])
    /\ UNCHANGED <<garbage, log>>

\* luaC_fullgc: its single steps follow, without the program but for the finalizers.
FullGC ==
    /\ g.full = "no"
    /\ Collects([restartsweep(g) EXCEPT !.full = "finish"])
    /\ garbage' = IF g.gcstate = "propagate" THEN {} ELSE garbage
    /\ UNCHANGED log

------------------------------------------------------------------------------
(* lua_close: every userdata is finalized, then every object is freed. *)

Close ==
    /\ phase = "open" /\ L = Main /\ ~g.thrown /\ g.full = "no"
    /\ phase' = "closing"
    /\ g' = luaC_separateudata(Leave(g, Main, 1), TRUE)
    /\ UNCHANGED <<L, program, ops, garbage, owed, log>>

CloseFinalize ==
    /\ phase = "closing" /\ g.heap[Main].stack = <<>> /\ g.tmudata # <<>> /\ ~g.thrown /\ g.full = "no"
    /\ g' = GCTM(g, Main)
    /\ L' = Main
    /\ log' = Called(g)
    /\ garbage' = {}
    /\ UNCHANGED <<program, ops, phase, owed>>

CloseState ==
    /\ phase = "closing" /\ g.heap[Main].stack = <<>> /\ g.tmudata = <<>> /\ ~g.thrown
    /\ phase' = "closed"
    /\ g' = luaC_freeall(luaF_close(g, Main, 1))
    /\ UNCHANGED <<L, program, ops, garbage, owed, log>>

Mutator ==
    \/ Push \/ Pop \/ SetLocal \/ NewTable \/ NewUserdata \/ NewString \/ NewCclosure
    \/ NewProto \/ AddConstant \/ NewLclosure \/ SetTable \/ SetMetatable \/ SetUpvalue
    \/ NewThread \/ Resume \/ Yield \/ Return \/ Throw

Collector ==
    \/ MarkRoot \/ Propagate \/ Atomic \/ SweepString \/ Sweep \/ Finalize \/ EndCycle \/ FullGC

Next ==
    \/ /\ Running /\ ~g.thrown /\ g.full = "no" /\ ops < program.ops
       /\ Mutator
       /\ garbage' = garbage \ Reachable(g', L')
    \/ Running /\ ~g.thrown /\ Collector
    \/ g.thrown /\ Unwind
    \/ Close \/ CloseFinalize \/ CloseState

Spec == Init /\ [][Next]_vars

------------------------------------------------------------------------------
(* Properties. *)

Chains == FlattenSeq(g.strt)

\* Every list of the collector, and every link of one, leads to allocated objects, each
\* object is in one list that is swept, and no list is left over for the next cycle.
ListsSound ==
    /\ LET upvals == FlattenSeq([i \in 1..Len(g.rootgc) |->
                       IF g.heap[g.rootgc[i]].tt = "thread"
                       THEN g.heap[g.rootgc[i]].openupval ELSE <<>>])
           all == g.rootgc \o g.tmudata \o Chains \o upvals
       IN Len(all) = Cardinality(DOMAIN g.heap) /\ Range(all) = DOMAIN g.heap
    /\ g.sweepgc \in {Nil} \cup DOMAIN g.heap
    /\ g.gcstate # "propagate" => g.gray = <<>>

\* A value the program can get at, through weak tables too, is an object that is
\* neither freed nor condemned to be by the sweep under way (checkliveness, lobject.h),
\* whatever the program stored between two steps of the collector.
LiveKept ==
    phase # "closed" =>
      \A o \in Reachable(g, L) : o \in DOMAIN g.heap /\ ~isdead(g, o)

\* What was unreachable when a cycle began, and stayed so, is freed when the cycle has
\* swept, unless a userdata to be finalized refers to it; closing leaves only the main
\* thread, which is part of the state itself.
Reclaims ==
    /\ g.gcstate \in {"finalize", "pause"} => garbage \cap DOMAIN g.heap = {}
    /\ phase = "closed" => DOMAIN g.heap = {Main}

\* The __gc of a userdata is called once, before the userdata is freed: also when the
\* state is closed in the middle of a cycle, or the cycle was cut short by an error.
FinalizedOnce ==
    /\ \A i, j \in DOMAIN log : log[i] = log[j] => i = j
    /\ owed \ DOMAIN g.heap \subseteq Range(log)
    /\ phase = "closed" => owed \subseteq Range(log)
=============================================================================
