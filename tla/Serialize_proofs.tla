---------------------------- MODULE Serialize_proofs ----------------------------
(***************************************************************************)
(* Proofs about Serialize: every table and userdata is given one name, and *)
(* an alias uses it only when it has been written.                         *)
(***************************************************************************)
EXTENDS Serialize, SequenceTheorems, FiniteSetTheorems, WellFoundedInduction, TLAPS

-------------------------------------------------------------------------------
(* Sequences of anything: names, lines and values have no type of their own. *)

Sequence(s) == s \in Seq({s[i] : i \in DOMAIN s})

LEMMA SequenceOf ==
  ASSUME NEW S, NEW s \in Seq(S)
  PROVE  Sequence(s)
<1> DEFINE R == {s[i] : i \in DOMAIN s}
<1>1. Len(s) \in Nat /\ s \in [1 .. Len(s) -> S] /\ DOMAIN s = 1 .. Len(s)
  BY LenProperties
<1>2. s \in [1 .. Len(s) -> R]
  BY <1>1
<1>3. s \in Seq(R)
  BY <1>1, <1>2, SeqDef
<1>4. QED
  BY <1>3 DEF Sequence

LEMMA SequenceIn ==
  ASSUME NEW s, Sequence(s), NEW S, \A i \in DOMAIN s : s[i] \in S
  PROVE  s \in Seq(S)
<1> DEFINE R == {s[i] : i \in DOMAIN s}
<1>1. s \in Seq(R)
  BY DEF Sequence
<1>2. Len(s) \in Nat /\ s \in [1 .. Len(s) -> R] /\ DOMAIN s = 1 .. Len(s)
  BY <1>1, LenProperties
<1>3. s \in [1 .. Len(s) -> S]
  BY <1>2
<1>4. QED
  BY <1>2, <1>3, SeqDef

LEMMA SequenceLen ==
  ASSUME NEW s, Sequence(s)
  PROVE  Len(s) \in Nat /\ DOMAIN s = 1 .. Len(s)
BY LenProperties DEF Sequence

LEMMA SequenceAppend ==
  ASSUME NEW s, Sequence(s), NEW e
  PROVE  /\ Sequence(Append(s, e)) /\ Len(Append(s, e)) = Len(s) + 1
         /\ \A i \in 1 .. Len(s) : Append(s, e)[i] = s[i]
         /\ Append(s, e)[Len(s) + 1] = e
<1> DEFINE S == {s[i] : i \in DOMAIN s} \cup {e}
<1>1. s \in Seq(S) /\ e \in S
  BY SequenceIn
<1> HIDE DEF S
<1>2. Append(s, e) \in Seq(S)
  BY <1>1, AppendProperties
<1>3. Sequence(Append(s, e))
  BY <1>2, SequenceOf
<1>4. QED
  BY <1>1, <1>3, AppendProperties

LEMMA SequenceConcat ==
  ASSUME NEW s, NEW t, Sequence(s), Sequence(t)
  PROVE  /\ Sequence(s \o t) /\ Len(s \o t) = Len(s) + Len(t)
         /\ \A i \in 1 .. Len(s) : (s \o t)[i] = s[i]
         /\ \A i \in 1 .. Len(t) : (s \o t)[Len(s) + i] = t[i]
<1> DEFINE S == {s[i] : i \in DOMAIN s} \cup {t[i] : i \in DOMAIN t}
<1>1. s \in Seq(S) /\ t \in Seq(S)
  BY SequenceIn
<1> HIDE DEF S
<1>2. s \o t \in Seq(S)
  BY <1>1, ConcatProperties
<1>3. Sequence(s \o t)
  BY <1>2, SequenceOf
<1>4. /\ Len(s) \in Nat /\ Len(t) \in Nat /\ Len(s \o t) = Len(s) + Len(t)
      /\ \A i \in 1 .. Len(s) + Len(t) : (s \o t)[i] = IF i <= Len(s) THEN s[i] ELSE t[i - Len(s)]
  BY <1>1, ConcatProperties
<1>5. \A i \in 1 .. Len(s) : (s \o t)[i] = s[i]
  BY <1>4
<1>6. ASSUME NEW i \in 1 .. Len(t) PROVE (s \o t)[Len(s) + i] = t[i]
  <2>1. Len(s) + i \in 1 .. Len(s) + Len(t) /\ ~(Len(s) + i <= Len(s)) /\ (Len(s) + i) - Len(s) = i
    BY <1>4
  <2>2. QED
    BY <1>4, <2>1
<1>7. QED
  BY <1>3, <1>4, <1>5, <1>6

-------------------------------------------------------------------------------
(* The tables, their names and the lines *)

\* The name is that of one of the first n lines, which is not an alias.
WrittenIn(f, name, n) == \E j \in 1 .. n : f[j].is # "alias" /\ f[j].name = name

\* Userdata whose serialization function fails and writes no line
Unwritable(entry) == entry[1][1] = "userdata" /\ entry[1][2] \in Failing

Unwritten(tb, ks, name) ==
  \E j \in DOMAIN tb : Unwritable(tb[j]) /\ ks[tb[j][2]] = name

Distinct(tb) == \A i, j \in DOMAIN tb : tb[i][1] = tb[j][1] => i = j

\* A name that is kept is in keys, and is written unless that failed.
Named(tb, ks, f) ==
  \A k \in DOMAIN tb : /\ tb[k][2] \in 1 .. Len(ks)
                       /\ WrittenIn(f, ks[tb[k][2]], Len(f)) \/ Unwritable(tb[k])

AliasesFollow(tb, ks, f) ==
  \A i \in DOMAIN f : f[i].is = "alias" =>
      WrittenIn(f, f[i].what, i - 1) \/ Unwritten(tb, ks, f[i].what)

Sound(tb, ks, f, cap) ==
  /\ Sequence(tb) /\ Sequence(ks) /\ Sequence(f)
  /\ cap \in Nat \ {0} /\ Len(tb) <= cap
  /\ Distinct(tb)
  /\ Named(tb, ks, f)
  /\ AliasesFollow(tb, ks, f)

\* The inductive invariant: keys and tables are reset when the file is removed.
IInv == pc \in {"write", "written"} => Sound(tables, keys, file, capacity)

\* A line more, what is written stays so.
LEMMA WrittenStays ==
  ASSUME NEW f, NEW lines, Sequence(f), Sequence(lines), NEW name, NEW n \in 0 .. Len(f),
         WrittenIn(f, name, n)
  PROVE  /\ WrittenIn(f \o lines, name, n)
         /\ WrittenIn(f \o lines, name, Len(f \o lines))
<1>1. PICK j \in 1 .. n : f[j].is # "alias" /\ f[j].name = name
  BY DEF WrittenIn
<1>2. Len(f) \in Nat /\ Len(lines) \in Nat /\ Len(f \o lines) = Len(f) + Len(lines)
  BY SequenceLen, SequenceConcat
<1>3. j \in 1 .. Len(f) /\ j \in 1 .. Len(f \o lines)
  BY <1>2
<1>4. (f \o lines)[j] = f[j]
  BY <1>3, SequenceConcat
<1>5. QED
  BY <1>1, <1>3, <1>4 DEF WrittenIn

LEMMA LineAdded ==
  ASSUME NEW tb, NEW ks, NEW f, NEW cap, Sound(tb, ks, f, cap), NEW l,
         l.is = "alias" => WrittenIn(f, l.what, Len(f)) \/ Unwritten(tb, ks, l.what)
  PROVE  Sound(tb, ks, f \o <<l>>, cap)
<1> DEFINE g == f \o <<l>>
<1>1. Sequence(f) /\ Sequence(<<l>>) /\ Len(<<l>>) = 1 /\ <<l>>[1] = l
  <2>1. <<l>> \in Seq({l})
    OBVIOUS
  <2>2. QED
    BY <2>1, SequenceOf DEF Sound
<1>2. Sequence(g) /\ Len(f) \in Nat /\ Len(g) = Len(f) + 1 /\ DOMAIN g = 1 .. Len(g)
      /\ DOMAIN f = 1 .. Len(f)
  BY <1>1, SequenceConcat, SequenceLen
<1>3. (\A i \in 1 .. Len(f) : g[i] = f[i]) /\ g[Len(f) + 1] = l
  <2>1. 1 \in 1 .. Len(<<l>>)
    BY <1>1
  <2>2. QED
    BY <1>1, <2>1, SequenceConcat
<1>4. \A name : \A n \in 0 .. Len(f) :
        WrittenIn(f, name, n) => WrittenIn(g, name, n) /\ WrittenIn(g, name, Len(g))
  BY <1>1, WrittenStays
<1>5. Len(f) \in 0 .. Len(f)
  BY <1>2
<1> HIDE DEF g
<1>6. Named(tb, ks, g)
  BY <1>4, <1>5 DEF Named, Sound
<1>7. AliasesFollow(tb, ks, g)
  <2> SUFFICES ASSUME NEW i \in DOMAIN g, g[i].is = "alias"
               PROVE  WrittenIn(g, g[i].what, i - 1) \/ Unwritten(tb, ks, g[i].what)
    BY DEF AliasesFollow
  <2>1. CASE i \in 1 .. Len(f)
    <3>1. i \in DOMAIN f /\ g[i] = f[i] /\ i - 1 \in 0 .. Len(f)
      BY <2>1, <1>2, <1>3
    <3>2. WrittenIn(f, f[i].what, i - 1) \/ Unwritten(tb, ks, f[i].what)
      BY <3>1 DEF Sound, AliasesFollow
    <3>3. QED
      BY <3>1, <3>2, <1>4
  <2>2. CASE i = Len(f) + 1
    <3>1. g[i] = l /\ i - 1 = Len(f)
      BY <2>2, <1>2, <1>3
    <3>2. WrittenIn(f, l.what, Len(f)) \/ Unwritten(tb, ks, l.what)
      BY <3>1
    <3>3. QED
      BY <3>1, <3>2, <1>4, <1>5
  <2>3. QED
    BY <2>1, <2>2, <1>2
<1>8. Sound(tb, ks, g, cap)
  BY <1>2, <1>6, <1>7 DEF Sound
<1>9. QED
  BY <1>8 DEF g

LEMMA EntryAdded ==
  ASSUME NEW tb, NEW ks, NEW f, NEW cap, Sound(tb, ks, f, cap), NEW v, NEW name, NEW lines,
         \A i \in DOMAIN tb : tb[i][1] # v,
         \/ \E l : lines = <<l>> /\ l.is # "alias" /\ l.name = name
         \/ lines = <<>> /\ v[1] = "userdata" /\ v[2] \in Failing
  PROVE  Sound(Append(tb, <<v, Len(Append(ks, name))>>), Append(ks, name), f \o lines,
               IF Len(tb) = cap THEN cap * 2 ELSE cap)
<1> DEFINE e == <<v, Len(Append(ks, name))>>
           tc == Append(tb, e)
           kt == Append(ks, name)
           g == f \o lines
           cap2 == IF Len(tb) = cap THEN cap * 2 ELSE cap
<1>1. Sequence(tb) /\ Sequence(ks) /\ Sequence(f)
  BY DEF Sound
<1>2. /\ Sequence(lines) /\ Len(lines) \in {0, 1}
      /\ Len(lines) # 1 => v[1] = "userdata" /\ v[2] \in Failing
      /\ Len(lines) = 1 => lines[1].is # "alias" /\ lines[1].name = name
  <2>1. CASE \E l : lines = <<l>> /\ l.is # "alias" /\ l.name = name
    <3>1. PICK l : lines = <<l>> /\ l.is # "alias" /\ l.name = name
      BY <2>1
    <3>2. <<l>> \in Seq({l}) /\ Len(<<l>>) = 1 /\ <<l>>[1] = l
      OBVIOUS
    <3>3. QED
      BY <3>1, <3>2, SequenceOf
  <2>2. CASE lines = <<>> /\ v[1] = "userdata" /\ v[2] \in Failing
    <3>1. lines \in Seq({}) /\ Len(lines) = 0
      BY <2>2, EmptySeq
    <3>2. Sequence(lines)
      BY <3>1, SequenceOf
    <3>3. QED
      BY <2>2, <3>1, <3>2
  <2>3. QED
    BY <2>1, <2>2
<1>3. /\ Len(tb) \in Nat /\ DOMAIN tb = 1 .. Len(tb)
      /\ Len(ks) \in Nat /\ Len(f) \in Nat /\ DOMAIN f = 1 .. Len(f)
  BY <1>1, SequenceLen
<1>4. /\ Sequence(tc) /\ Len(tc) = Len(tb) + 1 /\ DOMAIN tc = 1 .. Len(tb) + 1
      /\ (\A i \in 1 .. Len(tb) : tc[i] = tb[i]) /\ tc[Len(tb) + 1] = e
  <2>1. Sequence(tc) /\ Len(tc) = Len(tb) + 1
        /\ (\A i \in 1 .. Len(tb) : tc[i] = tb[i]) /\ tc[Len(tb) + 1] = e
    BY <1>1, SequenceAppend
  <2>2. QED
    BY <2>1, SequenceLen
<1>5. /\ Sequence(kt) /\ Len(kt) = Len(ks) + 1
      /\ (\A i \in 1 .. Len(ks) : kt[i] = ks[i]) /\ kt[Len(ks) + 1] = name
  BY <1>1, SequenceAppend
<1>6. /\ Sequence(g) /\ Len(g) = Len(f) + Len(lines) /\ DOMAIN g = 1 .. Len(g)
      /\ (\A i \in 1 .. Len(f) : g[i] = f[i])
      /\ \A i \in 1 .. Len(lines) : g[Len(f) + i] = lines[i]
  BY <1>1, <1>2, SequenceConcat, SequenceLen
<1>7. e[1] = v /\ e[2] = Len(ks) + 1
  BY <1>5
<1>8. \A x : \A n \in 0 .. Len(f) :
        WrittenIn(f, x, n) => WrittenIn(g, x, n) /\ WrittenIn(g, x, Len(g))
  BY <1>1, <1>2, WrittenStays
<1>9. Len(f) \in 0 .. Len(f)
  BY <1>3
<1> HIDE DEF e, tc, kt, g
<1>10. Len(lines) = 1 => WrittenIn(g, name, Len(g))
  <2> SUFFICES ASSUME Len(lines) = 1 PROVE WrittenIn(g, name, Len(g))
    OBVIOUS
  <2>1. Len(f) + 1 \in 1 .. Len(g) /\ g[Len(f) + 1] = lines[1]
    BY <1>3, <1>6
  <2>2. QED
    BY <2>1, <1>2 DEF WrittenIn
<1>11. cap2 \in Nat \ {0} /\ Len(tc) <= cap2
  <2>1. cap \in Nat \ {0} /\ Len(tb) <= cap /\ Len(tb) \in Nat /\ Len(tc) = Len(tb) + 1
    BY <1>3, <1>4 DEF Sound
  <2>2. CASE Len(tb) = cap
    BY <2>1, <2>2
  <2>3. CASE Len(tb) # cap
    BY <2>1, <2>3
  <2>4. QED
    BY <2>2, <2>3
<1>12. Distinct(tc)
  <2> SUFFICES ASSUME NEW i \in 1 .. Len(tb) + 1, NEW j \in 1 .. Len(tb) + 1, tc[i][1] = tc[j][1]
               PROVE  i = j
    BY <1>4 DEF Distinct
  <2>1. \A k \in 1 .. Len(tb) : tc[k] = tb[k] /\ tc[k][1] # v
    BY <1>3, <1>4
  <2>2. tc[Len(tb) + 1][1] = v
    BY <1>4, <1>7
  <2>3. CASE i \in 1 .. Len(tb) /\ j \in 1 .. Len(tb)
    BY <2>1, <2>3, <1>3 DEF Distinct, Sound
  <2>4. CASE i = Len(tb) + 1 \/ j = Len(tb) + 1
    BY <2>1, <2>2, <2>4, <1>3
  <2>5. QED
    BY <2>3, <2>4, <1>3
<1>13. Named(tc, kt, g)
  <2> SUFFICES ASSUME NEW k \in 1 .. Len(tb) + 1
               PROVE  /\ tc[k][2] \in 1 .. Len(kt)
                      /\ WrittenIn(g, kt[tc[k][2]], Len(g)) \/ Unwritable(tc[k])
    BY <1>4 DEF Named
  <2>1. CASE k \in 1 .. Len(tb)
    <3>1. tc[k] = tb[k] /\ k \in DOMAIN tb
      BY <2>1, <1>3, <1>4
    <3>2. /\ tb[k][2] \in 1 .. Len(ks)
          /\ WrittenIn(f, ks[tb[k][2]], Len(f)) \/ Unwritable(tb[k])
      BY <3>1 DEF Sound, Named
    <3>3. tb[k][2] \in 1 .. Len(kt) /\ kt[tb[k][2]] = ks[tb[k][2]]
      BY <3>2, <1>3, <1>5
    <3>4. QED
      BY <3>1, <3>2, <3>3, <1>8, <1>9
  <2>2. CASE k = Len(tb) + 1
    <3>1. tc[k] = e
      BY <2>2, <1>4
    <3>2. e[2] \in 1 .. Len(kt) /\ kt[e[2]] = name
      BY <1>3, <1>5, <1>7
    <3>3. WrittenIn(g, name, Len(g)) \/ Unwritable(e)
      BY <1>2, <1>7, <1>10 DEF Unwritable
    <3>4. QED
      BY <3>1, <3>2, <3>3
  <2>3. QED
    BY <2>1, <2>2, <1>3
<1>14. ASSUME NEW x, Unwritten(tb, ks, x) PROVE Unwritten(tc, kt, x)
  <2>1. PICK j \in DOMAIN tb : Unwritable(tb[j]) /\ ks[tb[j][2]] = x
    BY <1>14 DEF Unwritten
  <2>2. j \in DOMAIN tc /\ tc[j] = tb[j]
    BY <1>3, <1>4
  <2>3. tb[j][2] \in 1 .. Len(ks)
    BY DEF Sound, Named
  <2>4. kt[tb[j][2]] = ks[tb[j][2]]
    BY <2>3, <1>5
  <2>5. QED
    BY <2>1, <2>2, <2>4 DEF Unwritten
<1>15. AliasesFollow(tc, kt, g)
  <2> SUFFICES ASSUME NEW i \in DOMAIN g, g[i].is = "alias"
               PROVE  WrittenIn(g, g[i].what, i - 1) \/ Unwritten(tc, kt, g[i].what)
    BY DEF AliasesFollow
  <2>1. CASE i \in 1 .. Len(f)
    <3>1. i \in DOMAIN f /\ g[i] = f[i] /\ i - 1 \in 0 .. Len(f)
      BY <2>1, <1>3, <1>6
    <3>2. WrittenIn(f, f[i].what, i - 1) \/ Unwritten(tb, ks, f[i].what)
      BY <3>1 DEF Sound, AliasesFollow
    <3>3. QED
      BY <3>1, <3>2, <1>8, <1>14
  <2>2. CASE i \notin 1 .. Len(f)
    <3>1. Len(lines) = 1 /\ i = Len(f) + 1
      BY <2>2, <1>2, <1>3, <1>6
    <3>2. 1 \in 1 .. Len(lines)
      BY <3>1
    <3>3. g[i] = lines[1]
      BY <3>1, <3>2, <1>6
    <3>4. QED
      BY <3>1, <3>3, <1>2
  <2>3. QED
    BY <2>1, <2>2
<1>16. Sound(tc, kt, g, cap2)
  BY <1>4, <1>5, <1>6, <1>11, <1>12, <1>13, <1>15 DEF Sound
<1>17. QED
  BY <1>16 DEF e, tc, kt, g

-------------------------------------------------------------------------------
(* The specification *)

LEMMA InitIInv == Init => IInv
<1> SUFFICES ASSUME Init PROVE IInv
  OBVIOUS
<1>1. tables = <<>> /\ file = <<>> /\ keys = << <<>> >> /\ capacity \in Nat \ {0}
  BY SerializeAssumption DEF Init
<1>2. << <<>> >> \in Seq({<<>>})
  OBVIOUS
<1>3. Sequence(keys)
  BY <1>1, <1>2, SequenceOf
<1>4. <<>> \in Seq({}) /\ Len(<<>>) = 0
  BY EmptySeq
<1>5. Sequence(tables) /\ Sequence(file)
  BY <1>1, <1>4, SequenceOf
<1>6. DOMAIN tables = {} /\ DOMAIN file = {} /\ Len(tables) <= capacity
  BY <1>1, <1>4, <1>5, SequenceLen
<1>7. QED
  BY <1>1, <1>3, <1>5, <1>6 DEF IInv, Sound, Distinct, Named, AliasesFollow

LEMMA NextIInv == IInv /\ [Next]_vars => IInv'
<1> SUFFICES ASSUME IInv, [Next]_vars PROVE IInv'
  OBVIOUS
<1>1. ASSUME NEW why, Fail(why), why \in {"failed", "out of memory"} PROVE IInv'
  BY <1>1 DEF Fail, IInv
<1>2. CASE serialize_kvp
  <2>1. PICK item \in Items :
          \/ Skip(item)
          \/ KeyFails(item)
          \/ \E text \in serialize_data(item.key) : \E name \in {Name(text)} :
                Scalar(item, name) \/ Alias(item, name) \/ NewTable(item, name)
                \/ NewUserdata(item, name)
          \/ OutOfMemory(item)
    BY <1>2 DEF serialize_kvp
  <2>2. Sound(tables, keys, file, capacity) /\ pc = "write"
    BY <1>2 DEF serialize_kvp, IInv
  <2>3. CASE Skip(item)
    BY <2>2, <2>3 DEF Skip, IInv
  <2>4. CASE KeyFails(item)
    BY <2>4, <1>1 DEF KeyFails
  <2>5. CASE OutOfMemory(item)
    BY <2>5, <1>1 DEF OutOfMemory
  <2>6. ASSUME NEW name, Scalar(item, name) PROVE IInv'
    <3>1. PICK text \in serialize_data(item.value) :
             file' = file \o <<[name |-> name, is |-> "scalar", what |-> text]>>
             /\ UNCHANGED <<keys, tables, capacity, pc>>
      BY <2>6 DEF Scalar, Write
    <3> DEFINE l == [name |-> name, is |-> "scalar", what |-> text]
    <3>2. l.is # "alias"
      OBVIOUS
    <3> HIDE DEF l
    <3>3. Sound(tables, keys, file \o <<l>>, capacity)
      BY <2>2, <3>2, LineAdded
    <3>4. QED
      BY <3>1, <3>3 DEF IInv, l
  <2>7. ASSUME NEW name, Alias(item, name) PROVE IInv'
    <3>1. PICK i \in Refs(item.value) :
             file' = file \o <<[name |-> name, is |-> "alias", what |-> keys[tables[i][2]]]>>
             /\ UNCHANGED <<keys, tables, capacity, pc>>
      BY <2>7 DEF Alias, Write
    <3> DEFINE l == [name |-> name, is |-> "alias", what |-> keys[tables[i][2]]]
    <3>2. l.what = keys[tables[i][2]]
      OBVIOUS
    <3>3. i \in DOMAIN tables
      BY DEF Refs
    <3> HIDE DEF l
    <3>4. WrittenIn(file, l.what, Len(file)) \/ Unwritten(tables, keys, l.what)
      BY <2>2, <3>2, <3>3 DEF Sound, Named, Unwritten
    <3>5. Sound(tables, keys, file \o <<l>>, capacity)
      BY <2>2, <3>4, LineAdded
    <3>6. QED
      BY <3>1, <3>5 DEF IInv, l
  <2>8. ASSUME NEW name, NEW lines, AddTableRef(item.value, name), file' = file \o lines, pc' = pc,
               \/ \E l : lines = <<l>> /\ l.is # "alias" /\ l.name = name
               \/ lines = <<>> /\ item.value[1] = "userdata" /\ item.value[2] \in Failing
        PROVE  IInv'
    <3>1. /\ capacity' = IF Len(tables) = capacity THEN capacity * 2 ELSE capacity
          /\ keys' = Append(keys, name)
          /\ tables' = Append(tables, <<item.value, Len(Append(keys, name))>>)
      BY <2>8 DEF AddTableRef, KeepsName
    <3>2. \A i \in DOMAIN tables : tables[i][1] # item.value
      BY <2>8 DEF AddTableRef, Refs
    <3>3. ASSUME NEW v, \A i \in DOMAIN tables : tables[i][1] # v,
                 \/ \E l : lines = <<l>> /\ l.is # "alias" /\ l.name = name
                 \/ lines = <<>> /\ v[1] = "userdata" /\ v[2] \in Failing
          PROVE  Sound(Append(tables, <<v, Len(Append(keys, name))>>), Append(keys, name),
                       file \o lines, IF Len(tables) = capacity THEN capacity * 2 ELSE capacity)
      BY <2>2, <3>3, EntryAdded
    <3>4. Sound(tables', keys', file', capacity')
      BY <2>8, <3>1, <3>2, <3>3
    <3>5. QED
      BY <3>4 DEF IInv
  <2>9. ASSUME NEW name, NewTable(item, name) PROVE IInv'
    <3>1. ASSUME NEW what, Write(<<[name |-> name, is |-> "table", what |-> what]>>)
          PROVE  IInv'
      <4> DEFINE l == [name |-> name, is |-> "table", what |-> what]
      <4>1. l.is # "alias" /\ l.name = name
        OBVIOUS
      <4>2. file' = file \o <<l>>
        BY <3>1 DEF Write
      <4> HIDE DEF l
      <4>3. \E x : <<l>> = <<x>> /\ x.is # "alias" /\ x.name = name
        BY <4>1
      <4>4. AddTableRef(item.value, name) /\ pc' = pc
        BY <2>9 DEF NewTable
      <4>5. QED
        BY <2>8, <4>2, <4>3, <4>4
    <3>2. \/ Write(<<[name |-> name, is |-> "table", what |-> "{nil}"]>>)
          \/ Write(<<[name |-> name, is |-> "table", what |-> "{}"]>>)
      BY <2>9, Zenon DEF NewTable
    <3>3. QED
      BY <3>1, <3>2
  <2>10. ASSUME NEW name, NewUserdata(item, name) PROVE IInv'
    <3>1. AddTableRef(item.value, name) /\ pc' = pc /\ item.value[1] = "userdata"
      BY <2>10 DEF NewUserdata
    <3> DEFINE l == [name |-> name, is |-> "userdata", what |-> item.value[2]]
    <3>2. l.is # "alias" /\ l.name = name
      OBVIOUS
    <3>3. file' = file \o (IF item.value[2] \in Failing THEN <<>> ELSE <<l>>)
      BY <2>10, Zenon DEF NewUserdata, Write
    <3> HIDE DEF l
    <3>4. CASE item.value[2] \in Failing
      <4>1. file' = file \o <<>>
        BY <3>3, <3>4, Zenon
      <4>2. QED
        BY <2>8, <3>1, <3>4, <4>1
    <3>5. CASE item.value[2] \notin Failing
      <4>1. file' = file \o <<l>>
        BY <3>3, <3>5, Zenon
      <4>2. \E x : <<l>> = <<x>> /\ x.is # "alias" /\ x.name = name
        BY <3>2
      <4>3. QED
        BY <2>8, <3>1, <4>1, <4>2
    <3>6. QED
      BY <3>4, <3>5
  <2>11. QED
    BY <2>1, <2>3, <2>4, <2>5, <2>6, <2>7, <2>9, <2>10
<1>3. CASE TableEnds
  BY <1>3 DEF TableEnds, IInv
<1>4. CASE UNCHANGED vars
  BY <1>4 DEF vars, IInv
<1>5. QED
  BY <1>2, <1>3, <1>4 DEF Next

LEMMA IInvHolds == Spec => []IInv
<1>1. Init => IInv
  BY InitIInv
<1>2. IInv /\ [Next]_vars => IInv'
  BY NextIInv
<1>3. QED
  BY <1>1, <1>2, PTL DEF Spec

LEMMA IInvWrittenOnce == IInv => WrittenOnce
<1> SUFFICES ASSUME IInv, pc \in {"write", "written"}
             PROVE  /\ \A i, j \in DOMAIN tables : tables[i][1] = tables[j][1] => i = j
                    /\ Len(tables) <= capacity
                    /\ \A i \in DOMAIN file :
                         file[i].is = "alias" =>
                           \/ \E j \in 1 .. i - 1 : file[j].is # "alias" /\ file[j].name = file[i].what
                           \/ \E j \in DOMAIN tables :
                                /\ tables[j][1][1] = "userdata" /\ tables[j][1][2] \in Failing
                                /\ keys[tables[j][2]] = file[i].what
  BY DEF WrittenOnce
<1>1. Sound(tables, keys, file, capacity)
  BY DEF IInv
<1>2. (\A i, j \in DOMAIN tables : tables[i][1] = tables[j][1] => i = j) /\ Len(tables) <= capacity
  BY <1>1 DEF Sound, Distinct
<1>3. ASSUME NEW i \in DOMAIN file, file[i].is = "alias"
      PROVE  \/ \E j \in 1 .. i - 1 : file[j].is # "alias" /\ file[j].name = file[i].what
             \/ \E j \in DOMAIN tables :
                  /\ tables[j][1][1] = "userdata" /\ tables[j][1][2] \in Failing
                  /\ keys[tables[j][2]] = file[i].what
  BY <1>1, <1>3 DEF Sound, AliasesFollow, WrittenIn, Unwritten, Unwritable
<1>4. QED
  BY <1>2, <1>3

\* Whatever the script leaves in its globals, each table and userdata gets one
\* entry in table_ref_array and one name, the array is never overrun, and a line
\* that names one by reference comes after the line that makes it (serialize_kvp,
\* find_table_ref, add_table_ref).
THEOREM WrittenOnceHolds == Spec => []WrittenOnce
<1>1. IInv => WrittenOnce
  BY IInvWrittenOnce
<1>2. QED
  BY <1>1, IInvHolds, PTL

-------------------------------------------------------------------------------
(* What is restored: recursions over the parts of a name and the lines of a file *)

LEMMA LeastElement ==
  ASSUME NEW S \in SUBSET Nat, S # {}
  PROVE  \E x \in S : \A y \in S : x <= y
<1>1. IsWellFoundedOn(OpToRel(<, Nat), Nat)
  BY NatLessThanWellFounded
<1>2. PICK x \in S : \A y \in S : ~ (<<y, x>> \in OpToRel(<, Nat))
  BY <1>1, WFMin
<1>3. \A y \in S : ~ (y < x)
  BY <1>2 DEF OpToRel
<1>4. QED
  BY <1>3

\* What holds at 0, and at the next number whenever it holds at one, holds up to n.
LEMMA Forwards ==
  ASSUME NEW n \in Nat, NEW G, 0 \in G, \A i \in 0 .. n - 1 : i \in G => i + 1 \in G
  PROVE  \A i \in 0 .. n : i \in G
<1> DEFINE S == {k \in 0 .. n : k \notin G}
<1>1. SUFFICES ASSUME S # {} PROVE FALSE
  OBVIOUS
<1>2. S \in SUBSET Nat
  OBVIOUS
<1>3. PICK k \in S : \A y \in S : k <= y
  BY <1>1, <1>2, LeastElement
<1>4. k # 0 /\ k - 1 \in 0 .. n - 1 /\ (k - 1) + 1 = k /\ ~ (k <= k - 1)
  BY <1>3
<1>5. k - 1 \in 0 .. n /\ k - 1 \notin S
  BY <1>3, <1>4
<1>6. k - 1 \in G
  BY <1>5
<1>7. k \in G
  BY <1>4, <1>6
<1>8. QED
  BY <1>3, <1>7

\* What part i of a name leads to, given where the parts before it lead.
Way(g, s, name, i) ==
  IF i = 0 THEN <<"table", 1>>
  ELSE IF g[i - 1][1] = "table" THEN Get(s, g[i - 1][2], ReadText(name[i])) ELSE Nil

Ways(g, s, name, n) == \A i \in 0 .. n : g[i] = Way(g, s, name, i)

LEMMA WayExists ==
  ASSUME NEW s, NEW name, NEW len \in Nat
  PROVE  \E g : Ways(g, s, name, len)
<1> DEFINE G == {k \in 0 .. len : \E g : Ways(g, s, name, k)}
<1>1. 0 \in G
  <2> DEFINE g == [i \in 0 .. 0 |-> <<"table", 1>>]
  <2>1. g[0] = Way(g, s, name, 0)
    BY DEF Way
  <2>2. Ways(g, s, name, 0)
    BY <2>1 DEF Ways
  <2>3. QED
    BY <2>2
<1>2. ASSUME NEW n \in 0 .. len - 1, n \in G PROVE n + 1 \in G
  <2>1. PICK g : Ways(g, s, name, n)
    BY <1>2
  <2> DEFINE h == [i \in 0 .. n + 1 |-> IF i = n + 1 THEN Way(g, s, name, i) ELSE g[i]]
  <2>2. \A i \in 0 .. n : h[i] = g[i]
    OBVIOUS
  <2>3. h[n + 1] = Way(g, s, name, n + 1)
    OBVIOUS
  <2> HIDE DEF h
  <2>4. ASSUME NEW i \in 0 .. n + 1 PROVE Way(h, s, name, i) = Way(g, s, name, i)
    <3>1. i = 0 \/ i - 1 \in 0 .. n
      OBVIOUS
    <3>2. QED
      BY <2>2, <3>1 DEF Way
  <2>5. ASSUME NEW i \in 0 .. n + 1 PROVE h[i] = Way(h, s, name, i)
    <3>1. CASE i = n + 1
      BY <2>3, <2>4, <3>1
    <3>2. CASE i # n + 1
      <4>1. i \in 0 .. n
        BY <3>2
      <4>2. QED
        BY <2>1, <2>2, <2>4, <4>1 DEF Ways
    <3>3. QED
      BY <3>1, <3>2
  <2>6. Ways(h, s, name, n + 1)
    BY <2>5 DEF Ways
  <2>7. QED
    BY <2>6
<1>3. len \in G
  <2> HIDE DEF G
  <2>1. \A i \in 0 .. len : i \in G
    BY <1>1, <1>2, Forwards
  <2>2. QED
    BY <2>1
<1>4. QED
  BY <1>3

LEMMA ValueFollows ==
  ASSUME NEW s, NEW name, Len(name) \in Nat
  PROVE  \E g : Value(s, name) = g[Len(name)] /\ Ways(g, s, name, Len(name))
<1> DEFINE F(g) == [i \in 0 .. Len(name) |->
                      IF i = 0 THEN <<"table", 1>>
                      ELSE LET v == g[i - 1]
                           IN  IF v[1] = "table" THEN Get(s, v[2], ReadText(name[i])) ELSE Nil]
           f == CHOOSE g : g = F(g)
<1>1. \A g : \A i \in 0 .. Len(name) : F(g)[i] = Way(g, s, name, i)
  BY DEF Way
<1>2. PICK g : Ways(g, s, name, Len(name))
  BY WayExists
<1>3. F(g) = F(F(g))
  <2> DEFINE h == F(g)
  <2>1. \A i \in 0 .. Len(name) : h[i] = g[i] /\ h[i] = Way(g, s, name, i)
    <3>1. \A i \in 0 .. Len(name) : h[i] = Way(g, s, name, i)
      BY <1>1
    <3> HIDE DEF h
    <3>2. QED
      BY <1>2, <3>1 DEF Ways
  <2>2. \A i \in 0 .. Len(name) : F(h)[i] = Way(h, s, name, i)
    BY <1>1
  <2>3. ASSUME NEW i \in 0 .. Len(name) PROVE F(h)[i] = h[i]
    <3> HIDE DEF F, h
    <3>1. i = 0 \/ i - 1 \in 0 .. Len(name)
      OBVIOUS
    <3>2. Way(h, s, name, i) = Way(g, s, name, i)
      BY <2>1, <3>1 DEF Way
    <3>3. QED
      BY <2>1, <2>2, <3>2
  <2>4. QED
    BY <2>3
<1>4. f = F(f)
  BY <1>3
<1>5. Value(s, name) = f[Len(name)]
  BY DEF Value
<1> HIDE DEF f
<1>6. Ways(f, s, name, Len(name))
  <2>1. \A i \in 0 .. Len(name) : F(f)[i] = Way(f, s, name, i)
    BY <1>1
  <2> HIDE DEF F
  <2>2. QED
    BY <1>4, <2>1 DEF Ways
<1>7. QED
  BY <1>5, <1>6

\* Names that begin alike lead to the same.
LEMMA WaysAgree ==
  ASSUME NEW s, NEW x, NEW y, NEW n \in Nat, NEW f, NEW g, Ways(f, s, x, n), Ways(g, s, y, n),
         \A i \in 1 .. n : x[i] = y[i]
  PROVE  \A i \in 0 .. n : f[i] = g[i]
<1> DEFINE G == {i \in 0 .. n : f[i] = g[i]}
<1>1. 0 \in G
  BY DEF Ways, Way
<1>2. ASSUME NEW i \in 0 .. n - 1, i \in G PROVE i + 1 \in G
  <2>1. i + 1 \in 1 .. n /\ i + 1 \in 0 .. n /\ i + 1 # 0 /\ (i + 1) - 1 = i
    OBVIOUS
  <2>2. f[i + 1] = Way(f, s, x, i + 1) /\ g[i + 1] = Way(g, s, y, i + 1)
    BY <2>1 DEF Ways
  <2>3. Way(f, s, x, i + 1) = Way(g, s, y, i + 1)
    BY <1>2, <2>1 DEF Way
  <2>4. QED
    BY <2>1, <2>2, <2>3
<1> HIDE DEF G
<1>3. \A i \in 0 .. n : i \in G
  BY <1>1, <1>2, Forwards
<1>4. QED
  BY <1>3 DEF G

\* Where a value leads with one part more
Onward(s, v, text) == IF v[1] = "table" THEN Get(s, v[2], ReadText(text)) ELSE Nil

LEMMA ValueAppend ==
  ASSUME NEW s, NEW name, Sequence(name), NEW text
  PROVE  Value(s, Append(name, text)) = Onward(s, Value(s, name), text)
<1> DEFINE long == Append(name, text)
<1>1. /\ Len(long) = Len(name) + 1 /\ Len(name) \in Nat /\ long[Len(name) + 1] = text
      /\ \A i \in 1 .. Len(name) : long[i] = name[i]
  BY SequenceAppend, SequenceLen
<1> HIDE DEF long
<1>2. PICK a : Value(s, name) = a[Len(name)] /\ Ways(a, s, name, Len(name))
  BY <1>1, ValueFollows
<1>3. PICK b : Value(s, long) = b[Len(long)] /\ Ways(b, s, long, Len(long))
  BY <1>1, ValueFollows
<1>4. Ways(b, s, long, Len(name))
  BY <1>1, <1>3 DEF Ways
<1>5. \A i \in 0 .. Len(name) : a[i] = b[i]
  <2>1. Len(name) \in Nat /\ \A i \in 1 .. Len(name) : name[i] = long[i]
    BY <1>1
  <2>2. Ways(a, s, name, Len(name)) /\ Ways(b, s, long, Len(name))
    BY <1>2, <1>4
  <2>3. \A n \in Nat : /\ Ways(a, s, name, n) /\ Ways(b, s, long, n)
                       /\ \A i \in 1 .. n : name[i] = long[i]
                       => \A i \in 0 .. n : a[i] = b[i]
    BY WaysAgree
  <2>4. QED
    BY <2>1, <2>2, <2>3
<1>6. a[Len(name)] = b[Len(name)]
  BY <1>1, <1>5
<1>7. Len(long) # 0 /\ Len(long) - 1 = Len(name) /\ Len(long) \in 0 .. Len(long) /\ long[Len(long)] = text
  BY <1>1
<1>8. b[Len(long)] = Way(b, s, long, Len(long))
  BY <1>3, <1>7 DEF Ways
<1>9. Way(b, s, long, Len(long)) = Onward(s, b[Len(name)], text)
  BY <1>7 DEF Way, Onward
<1>10. QED
  BY <1>2, <1>3, <1>6, <1>8, <1>9 DEF long

LEMMA ValueOfGlobals == \A s : Value(s, <<>>) = <<"table", 1>>
<1> TAKE s
<1>1. Len(<<>>) = 0
  BY EmptySeq
<1>2. PICK f : Value(s, <<>>) = f[Len(<<>>)] /\ Ways(f, s, <<>>, Len(<<>>))
  BY <1>1, ValueFollows
<1>3. 0 \in 0 .. Len(<<>>)
  BY <1>1
<1>4. f[0] = <<"table", 1>>
  BY <1>2, <1>3 DEF Ways, Way
<1>5. QED
  BY <1>1, <1>2, <1>4

\* What Lua has made of the first i lines
Made(g, f, i) == IF i = 0 THEN Fresh ELSE Run(g[i - 1], f[i])

Makes(g, f, n) == \A i \in 0 .. n : g[i] = Made(g, f, i)

LEMMA MadeExists ==
  ASSUME NEW f, NEW len \in Nat
  PROVE  \E g : Makes(g, f, len)
<1> DEFINE G == {k \in 0 .. len : \E g : Makes(g, f, k)}
<1>1. 0 \in G
  <2> DEFINE g == [i \in 0 .. 0 |-> Fresh]
  <2>1. g[0] = Made(g, f, 0)
    BY DEF Made
  <2> HIDE DEF g
  <2>2. Makes(g, f, 0)
    BY <2>1 DEF Makes
  <2>3. QED
    BY <2>2
<1>2. ASSUME NEW n \in 0 .. len - 1, n \in G PROVE n + 1 \in G
  <2>1. PICK g : Makes(g, f, n)
    BY <1>2
  <2> DEFINE h == [i \in 0 .. n + 1 |-> IF i = n + 1 THEN Made(g, f, i) ELSE g[i]]
  <2>2. \A i \in 0 .. n : h[i] = g[i]
    OBVIOUS
  <2>3. h[n + 1] = Made(g, f, n + 1)
    OBVIOUS
  <2> HIDE DEF h
  <2>4. ASSUME NEW i \in 0 .. n + 1 PROVE Made(h, f, i) = Made(g, f, i)
    <3>1. i = 0 \/ i - 1 \in 0 .. n
      OBVIOUS
    <3>2. QED
      BY <2>2, <3>1 DEF Made
  <2>5. ASSUME NEW i \in 0 .. n + 1 PROVE h[i] = Made(h, f, i)
    <3>1. CASE i = n + 1
      BY <2>3, <2>4, <3>1
    <3>2. CASE i # n + 1
      <4>1. i \in 0 .. n
        BY <3>2
      <4>2. QED
        BY <2>1, <2>2, <2>4, <4>1 DEF Makes
    <3>3. QED
      BY <3>1, <3>2
  <2>6. Makes(h, f, n + 1)
    BY <2>5 DEF Makes
  <2>7. QED
    BY <2>6
<1>3. len \in G
  <2> HIDE DEF G
  <2>1. \A i \in 0 .. len : i \in G
    BY <1>1, <1>2, Forwards
  <2>2. QED
    BY <2>1
<1>4. QED
  BY <1>3

LEMMA RunFollows ==
  ASSUME NEW f, Len(f) \in Nat
  PROVE  \E g : RunAll(f) = g[Len(f)] /\ Makes(g, f, Len(f))
<1> DEFINE F(g) == [i \in 0 .. Len(f) |-> IF i = 0 THEN Fresh ELSE Run(g[i - 1], f[i])]
           c == CHOOSE g : g = F(g)
<1>1. \A g : \A i \in 0 .. Len(f) : F(g)[i] = Made(g, f, i)
  BY DEF Made
<1>2. PICK g : Makes(g, f, Len(f))
  BY MadeExists
<1>3. F(g) = F(F(g))
  <2> DEFINE h == F(g)
  <2>1. \A i \in 0 .. Len(f) : h[i] = g[i] /\ h[i] = Made(g, f, i)
    <3>1. \A i \in 0 .. Len(f) : h[i] = Made(g, f, i)
      BY <1>1
    <3> HIDE DEF h
    <3>2. QED
      BY <1>2, <3>1 DEF Makes
  <2>2. \A i \in 0 .. Len(f) : F(h)[i] = Made(h, f, i)
    BY <1>1
  <2>3. ASSUME NEW i \in 0 .. Len(f) PROVE F(h)[i] = h[i]
    <3> HIDE DEF F, h
    <3>1. i = 0 \/ i - 1 \in 0 .. Len(f)
      OBVIOUS
    <3>2. Made(h, f, i) = Made(g, f, i)
      BY <2>1, <3>1 DEF Made
    <3>3. QED
      BY <2>1, <2>2, <3>2
  <2>4. QED
    BY <2>3
<1>4. c = F(c)
  BY <1>3
<1>5. RunAll(f) = c[Len(f)]
  BY DEF RunAll
<1> HIDE DEF c
<1>6. Makes(c, f, Len(f))
  <2>1. \A i \in 0 .. Len(f) : F(c)[i] = Made(c, f, i)
    BY <1>1
  <2> HIDE DEF F
  <2>2. QED
    BY <1>4, <2>1 DEF Makes
<1>7. QED
  BY <1>5, <1>6

LEMMA MakesAgree ==
  ASSUME NEW x, NEW y, NEW n \in Nat, NEW f, NEW g, Makes(f, x, n), Makes(g, y, n),
         \A i \in 1 .. n : x[i] = y[i]
  PROVE  \A i \in 0 .. n : f[i] = g[i]
<1> DEFINE G == {i \in 0 .. n : f[i] = g[i]}
<1>1. 0 \in G
  BY DEF Makes, Made
<1>2. ASSUME NEW i \in 0 .. n - 1, i \in G PROVE i + 1 \in G
  <2>1. i + 1 \in 1 .. n /\ i + 1 \in 0 .. n /\ i + 1 # 0 /\ (i + 1) - 1 = i
    OBVIOUS
  <2>2. f[i + 1] = Made(f, x, i + 1) /\ g[i + 1] = Made(g, y, i + 1)
    BY <2>1 DEF Makes
  <2>3. Made(f, x, i + 1) = Made(g, y, i + 1)
    BY <1>2, <2>1 DEF Made
  <2>4. QED
    BY <2>1, <2>2, <2>3
<1> HIDE DEF G
<1>3. \A i \in 0 .. n : i \in G
  BY <1>1, <1>2, Forwards
<1>4. QED
  BY <1>3 DEF G

\* Lua has run a file with a line more when it runs that line.
LEMMA RunLine ==
  ASSUME NEW f, Sequence(f), NEW l
  PROVE  RunAll(f \o <<l>>) = Run(RunAll(f), l)
<1> DEFINE long == f \o <<l>>
<1>1. Sequence(<<l>>) /\ Len(<<l>>) = 1 /\ <<l>>[1] = l
  <2>1. <<l>> \in Seq({l}) /\ Len(<<l>>) = 1 /\ <<l>>[1] = l
    OBVIOUS
  <2>2. QED
    BY <2>1, SequenceOf
<1>2. /\ Len(long) = Len(f) + 1 /\ Len(f) \in Nat
      /\ \A i \in 1 .. Len(f) : long[i] = f[i]
  BY <1>1, SequenceConcat, SequenceLen
<1>3. long[Len(f) + 1] = l
  <2>1. 1 \in 1 .. Len(<<l>>)
    BY <1>1
  <2>2. QED
    BY <1>1, <2>1, SequenceConcat
<1> HIDE DEF long
<1>4. PICK a : RunAll(f) = a[Len(f)] /\ Makes(a, f, Len(f))
  BY <1>2, RunFollows
<1>5. PICK b : RunAll(long) = b[Len(long)] /\ Makes(b, long, Len(long))
  BY <1>2, RunFollows
<1>6. Makes(b, long, Len(f))
  BY <1>2, <1>5 DEF Makes
<1>7. \A i \in 0 .. Len(f) : a[i] = b[i]
  BY <1>2, <1>4, <1>6, MakesAgree
<1>8. a[Len(f)] = b[Len(f)]
  BY <1>2, <1>7
<1>9. Len(long) # 0 /\ Len(long) - 1 = Len(f) /\ Len(long) \in 0 .. Len(long) /\ long[Len(long)] = l
  BY <1>2, <1>3
<1>10. b[Len(long)] = Run(b[Len(f)], l)
  BY <1>5, <1>9 DEF Makes, Made
<1>11. QED
  BY <1>4, <1>5, <1>8, <1>10 DEF long

LEMMA RunNothing == RunAll(<<>>) = Fresh
<1>1. Len(<<>>) = 0
  BY EmptySeq
<1>2. PICK g : RunAll(<<>>) = g[Len(<<>>)] /\ Makes(g, <<>>, Len(<<>>))
  BY <1>1, RunFollows
<1>3. QED
  BY <1>1, <1>2 DEF Makes, Made

-------------------------------------------------------------------------------
(* The tables of the sandbox that runs the file *)

\* What Get finds is a part of the heap.
Entry(h, r, k) == IF k \in DOMAIN h[r] THEN h[r][k] ELSE Nil

LEMMA GetEntry == \A s, r, k : Get(s, r, k) = Entry(s.heap, r, k)
BY DEF Get, Entry

\* Tables refer to tables that there are.
Closed(h) ==
  /\ Sequence(h) /\ Len(h) \in Nat \ {0}
  /\ \A r \in 1 .. Len(h) : \A k \in DOMAIN h[r] :
       h[r][k][1] = "table" => h[r][k][2] \in 1 .. Len(h)

\* In h2 there is what there is in h.
Extends(h, h2) ==
  \A r \in 1 .. Len(h) : \A k \in DOMAIN h[r] : k \in DOMAIN h2[r] /\ h2[r][k] = h[r][k]

\* What a name leads to stays so.
LEMMA ValueKept ==
  ASSUME NEW s, NEW s2, NEW h, NEW h2, s.heap = h, s2.heap = h2, Closed(h), Extends(h, h2),
         NEW name, Sequence(name), Value(s, name) # Nil
  PROVE  Value(s2, name) = Value(s, name)
<1>1. Len(name) \in Nat
  BY SequenceLen
<1>2. /\ \A r, k : Get(s, r, k) = Entry(h, r, k)
      /\ \A r, k : Get(s2, r, k) = Entry(h2, r, k)
  BY GetEntry
<1>3. PICK a : Value(s, name) = a[Len(name)] /\ Ways(a, s, name, Len(name))
  BY <1>1, ValueFollows
<1>4. PICK b : Value(s2, name) = b[Len(name)] /\ Ways(b, s2, name, Len(name))
  BY <1>1, ValueFollows
<1> DEFINE G == {i \in 0 .. Len(name) :
                   \/ a[i] = Nil
                   \/ b[i] = a[i] /\ (a[i][1] = "table" => a[i][2] \in 1 .. Len(h))}
<1>5. Nil[1] # "table"
  BY DEF Nil
<1>6. 0 \in G
  <2>1. 0 \in 0 .. Len(name)
    BY <1>1
  <2>2. a[0] = <<"table", 1>> /\ b[0] = <<"table", 1>>
    BY <2>1, <1>3, <1>4 DEF Ways, Way
  <2>3. 1 \in 1 .. Len(h)
    BY DEF Closed
  <2>4. QED
    BY <2>1, <2>2, <2>3
<1>7. ASSUME NEW i \in 0 .. Len(name) - 1, i \in G PROVE i + 1 \in G
  <2>1. i + 1 \in 0 .. Len(name) /\ i + 1 # 0 /\ (i + 1) - 1 = i
    BY <1>1
  <2>2. /\ a[i + 1] = IF a[i][1] = "table" THEN Get(s, a[i][2], ReadText(name[i + 1])) ELSE Nil
        /\ b[i + 1] = IF b[i][1] = "table" THEN Get(s2, b[i][2], ReadText(name[i + 1])) ELSE Nil
    BY <2>1, <1>3, <1>4 DEF Ways, Way
  <2>3. CASE a[i + 1] = Nil
    BY <2>1, <2>3
  <2>4. CASE a[i + 1] # Nil
    <3>1. a[i][1] = "table" /\ a[i + 1] = Get(s, a[i][2], ReadText(name[i + 1]))
      BY <2>2, <2>4
    <3>2. a[i] # Nil
      BY <3>1, <1>5
    <3>3. b[i] = a[i] /\ a[i][2] \in 1 .. Len(h)
      BY <1>7, <3>1, <3>2
    <3> DEFINE r == a[i][2]
               k == ReadText(name[i + 1])
    <3>4. b[i + 1] = Get(s2, r, k) /\ a[i + 1] = Get(s, r, k) /\ r \in 1 .. Len(h)
      BY <2>2, <3>1, <3>3
    <3> HIDE DEF r, k
    <3>5. k \in DOMAIN h[r] /\ a[i + 1] = h[r][k]
      BY <3>4, <2>4, <1>2 DEF Entry
    <3>6. b[i + 1] = a[i + 1]
      BY <3>4, <3>5, <1>2 DEF Entry, Extends
    <3>7. a[i + 1][1] = "table" => a[i + 1][2] \in 1 .. Len(h)
      BY <3>4, <3>5 DEF Closed
    <3>8. QED
      BY <2>1, <3>6, <3>7
  <2>5. QED
    BY <2>3, <2>4
<1> HIDE DEF G
<1>8. \A i \in 0 .. Len(name) : i \in G
  BY <1>1, <1>6, <1>7, Forwards
<1>9. Len(name) \in G
  BY <1>1, <1>8
<1>10. a[Len(name)] # Nil
  BY <1>3
<1>11. b[Len(name)] = a[Len(name)]
  BY <1>9, <1>10 DEF G
<1>12. QED
  BY <1>3, <1>4, <1>11

\* h2 is h with w under the key k of table r, unless w is Nil, and more tables,
\* which are empty.
Grown(h, h2, r, k, w) ==
  /\ Sequence(h2) /\ Len(h2) >= Len(h)
  /\ \A i \in 1 .. Len(h) : i # r => h2[i] = h[i]
  /\ \A x : x \in DOMAIN h2[r] <=> x \in DOMAIN h[r] \/ (x = k /\ w # Nil)
  /\ \A x \in DOMAIN h[r] : h2[r][x] = h[r][x]
  /\ w # Nil => h2[r][k] = w
  /\ \A i \in Len(h) + 1 .. Len(h2) : DOMAIN h2[i] = {}

LEMMA GrownExtends ==
  ASSUME NEW h, NEW h2, NEW r, NEW k, NEW w, Grown(h, h2, r, k, w)
  PROVE  Extends(h, h2)
BY DEF Grown, Extends

LEMMA GrownClosed ==
  ASSUME NEW h, NEW h2, NEW r, NEW k, NEW w, Closed(h), Grown(h, h2, r, k, w),
         w[1] = "table" => w[2] \in 1 .. Len(h2)
  PROVE  Closed(h2)
<1>1. Len(h) \in Nat \ {0} /\ Len(h2) \in Nat /\ Len(h2) >= Len(h)
  BY SequenceLen DEF Closed, Grown
<1>2. ASSUME NEW i \in 1 .. Len(h2), NEW x \in DOMAIN h2[i], h2[i][x][1] = "table"
      PROVE  h2[i][x][2] \in 1 .. Len(h2)
  <2>1. i \in 1 .. Len(h) \/ i \in Len(h) + 1 .. Len(h2)
    BY <1>1
  <2>2. CASE i \in Len(h) + 1 .. Len(h2)
    BY <2>2 DEF Grown
  <2>3. CASE i \in 1 .. Len(h) /\ x \in DOMAIN h[i]
    <3>1. h2[i][x] = h[i][x]
      BY <2>3 DEF Grown
    <3>2. h[i][x][2] \in 1 .. Len(h)
      BY <3>1, <2>3, <1>2 DEF Closed
    <3>3. h[i][x][2] \in 1 .. Len(h2)
      BY <3>2, <1>1
    <3>4. QED
      BY <3>1, <3>3
  <2>4. CASE i \in 1 .. Len(h) /\ x \notin DOMAIN h[i]
    <3>1. i = r /\ x = k /\ w # Nil
      BY <2>4 DEF Grown
    <3>2. h2[i][x] = w
      BY <3>1 DEF Grown
    <3>3. QED
      BY <3>2, <1>2
  <2>5. QED
    BY <2>1, <2>2, <2>3, <2>4
<1>3. QED
  BY <1>1, <1>2 DEF Closed, Grown

-------------------------------------------------------------------------------
(* Assignments *)

\* Table e with w under the key k
Assigned(e, k, w) ==
  [x \in (DOMAIN e \cup {k}) \ (IF w = Nil THEN {k} ELSE {}) |-> IF x = k THEN w ELSE e[x]]

LEMMA NameParts ==
  ASSUME NEW pn, Sequence(pn), NEW text
  PROVE  Front(Append(pn, text)) = pn /\ Last(Append(pn, text)) = text
<1> DEFINE name == Append(pn, text)
           S == {pn[i] : i \in DOMAIN pn} \cup {text}
<1>1. pn \in Seq(S) /\ text \in S
  BY SequenceIn
<1> HIDE DEF S
<1>2. /\ name \in Seq(S) /\ Len(name) = Len(pn) + 1 /\ Len(pn) \in Nat
      /\ name[Len(pn) + 1] = text
      /\ \A i \in 1 .. Len(pn) : name[i] = pn[i]
  BY <1>1, AppendProperties
<1> HIDE DEF name
<1>3. Last(name) = text
  BY <1>2 DEF Last
<1>4. Front(name) = SubSeq(name, 1, Len(pn))
  BY <1>2 DEF Front
<1> DEFINE z == SubSeq(name, 1, Len(pn))
<1>5. \A i \in 1 .. Len(pn) : name[i] \in S
  BY <1>1, <1>2
<1>6. /\ z \in Seq(S) /\ Len(z) = IF 1 <= Len(pn) THEN Len(pn) - 1 + 1 ELSE 0
      /\ \A i \in 1 .. Len(pn) - 1 + 1 : z[i] = name[1 + i - 1]
  <2>1. 1 \in Int /\ Len(pn) \in Int
    BY <1>2
  <2>2. QED
    BY <1>5, <2>1, SubSeqProperties
<1>7. Len(z) = Len(pn)
  BY <1>2, <1>6
<1>8. ASSUME NEW i \in 1 .. Len(pn) PROVE z[i] = pn[i]
  <2>1. i \in 1 .. Len(pn) - 1 + 1 /\ 1 + i - 1 = i
    BY <1>2
  <2>2. QED
    BY <1>2, <1>6, <2>1
<1> HIDE DEF z
<1>9. z = pn
  BY <1>1, <1>6, <1>7, <1>8, SeqEqual
<1>10. QED
  BY <1>3, <1>4, <1>9 DEF z, name

\* A sandbox in which no line has failed
Alive(s) == DOMAIN s = {"ok", "heap", "made"} /\ s.ok = TRUE

\* s2 is s with the tables h.
WithHeap(s, s2, h) == Alive(s2) /\ s2.heap = h /\ s2.made = s.made

LEMMA AssignName ==
  ASSUME NEW s, Alive(s), NEW pn, Sequence(pn), NEW text, NEW r, NEW w,
         Value(s, pn) = <<"table", r>>, ReadText(text) # Nil
  PROVE  WithHeap(s, Assign(s, Append(pn, text), w),
                  [s.heap EXCEPT ![r] = Assigned(s.heap[r], ReadText(text), w)])
<1> DEFINE name == Append(pn, text)
           k == ReadText(text)
           in == Value(s, pn)
           g == [s.heap EXCEPT ![r] = Assigned(s.heap[r], k, w)]
<1>1. Front(name) = pn /\ Last(name) = text
  BY NameParts
<1>2. in[1] = "table" /\ in[2] = r /\ k # Nil
  OBVIOUS
<1>3. Assign(s, name, w) = [s EXCEPT !.heap = g]
  <2> HIDE DEF name, k, in
  <2>1. ReadText(Last(name)) = k /\ Value(s, Front(name)) = in
    BY <1>1 DEF k, in
  <2>2. ~(~s.ok \/ in[1] # "table" \/ k = Nil)
    BY <1>2 DEF Alive
  <2>3. Assign(s, name, w) =
          [s EXCEPT !.heap[in[2]] = [x \in (DOMAIN @ \cup {k}) \ (IF w = Nil THEN {k} ELSE {}) |->
                                       IF x = k THEN w ELSE @[x]]]
    BY <2>1, <2>2 DEF Assign
  <2>4. @ = [s EXCEPT !.heap = g]
    BY <1>2 DEF Assigned
  <2>5. QED
    BY <2>3, <2>4
<1> HIDE DEF name, k, in, g
<1>4. /\ DOMAIN [s EXCEPT !.heap = g] = DOMAIN s /\ [s EXCEPT !.heap = g].ok = s.ok
      /\ [s EXCEPT !.heap = g].heap = g /\ [s EXCEPT !.heap = g].made = s.made
  BY DEF Alive
<1>5. WithHeap(s, Assign(s, name, w), g)
  BY <1>3, <1>4 DEF Alive, WithHeap
<1>6. QED
  BY <1>5 DEF name, k, g

LEMMA AssignedGrown ==
  ASSUME NEW h, Closed(h), NEW r \in 1 .. Len(h), NEW k, k \notin DOMAIN h[r], NEW w
  PROVE  Grown(h, [h EXCEPT ![r] = Assigned(h[r], k, w)], r, k, w)
<1> DEFINE e == Assigned(h[r], k, w)
           h2 == [h EXCEPT ![r] = e]
           S == {h[i] : i \in DOMAIN h} \cup {e}
<1>1. Sequence(h) /\ Len(h) \in Nat /\ DOMAIN h = 1 .. Len(h)
  BY SequenceLen DEF Closed
<1>2. h \in Seq(S) /\ e \in S
  BY <1>1, SequenceIn
<1>3. /\ \A x : x \in DOMAIN e <=> x \in DOMAIN h[r] \/ (x = k /\ w # Nil)
      /\ \A x \in DOMAIN h[r] : e[x] = h[r][x]
      /\ w # Nil => e[k] = w
  BY DEF Assigned
<1> HIDE DEF e, S
<1>4. h2 \in Seq(S) /\ Len(h2) = Len(h)
  BY <1>1, <1>2, ExceptSeq
<1>5. Sequence(h2)
  BY <1>4, SequenceOf
<1>6. h2[r] = e /\ \A i \in 1 .. Len(h) : i # r => h2[i] = h[i]
  BY <1>1
<1> HIDE DEF h2
<1>7. Grown(h, h2, r, k, w)
  BY <1>1, <1>3, <1>4, <1>5, <1>6 DEF Grown
<1>8. QED
  BY <1>7 DEF h2, e

\* The line puts w under the key k of table r.
Places(s, l, r, k, w) ==
  /\ Alive(Run(s, l)) /\ Grown(s.heap, Run(s, l).heap, r, k, w)
  /\ Run(s, l).made = s.made

LEMMA ScalarPlaces ==
  ASSUME NEW s, Alive(s), Closed(s.heap), NEW pn, Sequence(pn), NEW text, NEW what,
         NEW r \in 1 .. Len(s.heap), Value(s, pn) = <<"table", r>>, ReadText(text) # Nil,
         ReadText(text) \notin DOMAIN s.heap[r], ReadText(what) # Nil
  PROVE  Places(s, [name |-> Append(pn, text), is |-> "scalar", what |-> what],
                r, ReadText(text), ReadText(what))
<1> DEFINE l == [name |-> Append(pn, text), is |-> "scalar", what |-> what]
           k == ReadText(text)
           w == ReadText(what)
           h2 == [s.heap EXCEPT ![r] = Assigned(s.heap[r], k, w)]
<1>1. WithHeap(s, Assign(s, Append(pn, text), w), h2)
  BY AssignName
<1>2. l.is = "scalar" /\ l.name = Append(pn, text) /\ l.what = what
  OBVIOUS
<1> HIDE DEF l
<1>3. Run(s, l) = Assign(s, Append(pn, text), w)
  BY <1>2 DEF Run
<1>4. Grown(s.heap, h2, r, k, w)
  <2> DEFINE h == s.heap
  <2>1. Closed(h) /\ r \in 1 .. Len(h) /\ k \notin DOMAIN h[r]
    OBVIOUS
  <2> HIDE DEF h, k, w
  <2>2. Grown(h, [h EXCEPT ![r] = Assigned(h[r], k, w)], r, k, w)
    BY <2>1, AssignedGrown
  <2>3. QED
    BY <2>2 DEF h
<1> HIDE DEF h2, k, w
<1>5. Places(s, l, r, k, w)
  BY <1>1, <1>3, <1>4 DEF WithHeap, Places
<1>6. QED
  BY <1>5 DEF l, k, w

LEMMA AliasPlaces ==
  ASSUME NEW s, Alive(s), Closed(s.heap), NEW pn, Sequence(pn), NEW text, NEW what,
         NEW r \in 1 .. Len(s.heap), Value(s, pn) = <<"table", r>>, ReadText(text) # Nil,
         ReadText(text) \notin DOMAIN s.heap[r]
  PROVE  Places(s, [name |-> Append(pn, text), is |-> "alias", what |-> what],
                r, ReadText(text), Value(s, what))
<1> DEFINE l == [name |-> Append(pn, text), is |-> "alias", what |-> what]
           k == ReadText(text)
           w == Value(s, what)
           h2 == [s.heap EXCEPT ![r] = Assigned(s.heap[r], k, w)]
<1>1. WithHeap(s, Assign(s, Append(pn, text), w), h2)
  BY AssignName
<1>2. l.is = "alias" /\ l.name = Append(pn, text) /\ l.what = what
  OBVIOUS
<1> HIDE DEF l
<1>3. Run(s, l) = Assign(s, Append(pn, text), w)
  BY <1>2 DEF Run
<1>4. Grown(s.heap, h2, r, k, w)
  <2> DEFINE h == s.heap
  <2>1. Closed(h) /\ r \in 1 .. Len(h) /\ k \notin DOMAIN h[r]
    OBVIOUS
  <2> HIDE DEF h, k, w
  <2>2. Grown(h, [h EXCEPT ![r] = Assigned(h[r], k, w)], r, k, w)
    BY <2>1, AssignedGrown
  <2>3. QED
    BY <2>2 DEF h
<1> HIDE DEF h2, k, w
<1>5. Places(s, l, r, k, w)
  BY <1>1, <1>3, <1>4 DEF WithHeap, Places
<1>6. QED
  BY <1>5 DEF l, k, w

\* The line puts something new under the key k of table r.
LEMMA TablePlaces ==
  ASSUME NEW s, Alive(s), Closed(s.heap), NEW pn, Sequence(pn), NEW text, NEW what,
         NEW r \in 1 .. Len(s.heap), Value(s, pn) = <<"table", r>>, ReadText(text) # Nil,
         ReadText(text) \notin DOMAIN s.heap[r]
  PROVE  LET l == [name |-> Append(pn, text), is |-> "table", what |-> what]
         IN  /\ Places(s, l, r, ReadText(text), <<"table", Len(s.heap) + 1>>)
             /\ Len(Run(s, l).heap) = Len(s.heap) + 1
<1> DEFINE l == [name |-> Append(pn, text), is |-> "table", what |-> what]
           k == ReadText(text)
           w == <<"table", Len(s.heap) + 1>>
           h == s.heap
           new == [x \in {} |-> Nil]
           h1 == Append(h, new)
           s1 == [s EXCEPT !.heap = Append(@, [x \in {} |-> Nil])]
           h2 == [h1 EXCEPT ![r] = Assigned(h1[r], k, w)]
<1>1. Alive(s1) /\ s1.heap = h1 /\ s1.made = s.made
  BY DEF Alive
<1>2. l.is = "table" /\ l.name = Append(pn, text) /\ Append(pn, text) = l.name
  OBVIOUS
<1>3. DOMAIN new = {} /\ k # Nil /\ r \in 1 .. Len(h)
  OBVIOUS
<1> HIDE DEF new
<1>4. /\ Sequence(h1) /\ Len(h1) = Len(h) + 1 /\ (\A i \in 1 .. Len(h) : h1[i] = h[i])
      /\ h1[Len(h) + 1] = new /\ Len(h) \in Nat \ {0}
  <2>1. Sequence(h) /\ Len(h) \in Nat \ {0}
    BY DEF Closed
  <2>2. QED
    BY <2>1, SequenceAppend
<1> HIDE DEF h1
<1>5. Extends(h, h1)
  BY <1>4 DEF Extends
<1>6. Closed(h1)
  <2>1. ASSUME NEW i \in 1 .. Len(h1), NEW x \in DOMAIN h1[i], h1[i][x][1] = "table"
        PROVE  h1[i][x][2] \in 1 .. Len(h1)
    <3>1. i \in 1 .. Len(h) /\ h1[i] = h[i]
      <4>1. i \in 1 .. Len(h) \/ i = Len(h) + 1
        BY <1>4
      <4>2. i # Len(h) + 1
        BY <1>3, <1>4
      <4>3. QED
        BY <4>1, <4>2, <1>4
    <3>2. h[i][x][2] \in 1 .. Len(h)
      <4>1. Closed(h)
        OBVIOUS
      <4> HIDE DEF h
      <4>2. QED
        BY <4>1, <3>1, <2>1 DEF Closed
    <3>3. QED
      BY <3>1, <3>2, <1>4
  <2>2. QED
    BY <2>1, <1>4 DEF Closed
<1>7. Value(s1, pn) = <<"table", r>>
  <2>1. Value(s, pn) # Nil
    BY DEF Nil
  <2>2. s.heap = h /\ s1.heap = h1 /\ Closed(h)
    BY <1>1
  <2> HIDE DEF h, s1
  <2>3. Value(s1, pn) = Value(s, pn)
    BY <2>1, <2>2, <1>5, ValueKept
  <2>4. QED
    BY <2>3
<1>8. WithHeap(s1, Assign(s1, Append(pn, text), w), h2)
  <2> HIDE DEF s1
  <2>1. WithHeap(s1, Assign(s1, Append(pn, text), w),
                 [s1.heap EXCEPT ![r] = Assigned(s1.heap[r], ReadText(text), w)])
    BY <1>1, <1>7, AssignName
  <2>2. QED
    BY <2>1, <1>1
<1>9. Run(s, l) = Assign(s1, Append(pn, text), w)
  <2> HIDE DEF l
  <2>1. QED
    BY <1>2 DEF Run
<1>10. h1[r] = h[r] /\ r \in 1 .. Len(h1) /\ k \notin DOMAIN h[r] /\ k \notin DOMAIN h1[r]
  BY <1>4
<1>11. Grown(h1, h2, r, k, w)
  <2> HIDE DEF k, w
  <2>1. QED
    BY <1>6, <1>10, AssignedGrown
<1>12. Len(h2) = Len(h1)
  BY <1>4, <1>10 DEF Sequence
<1> HIDE DEF h2, k, w, h, l, s1
<1>13. Grown(h, h2, r, k, w)
  <2>1. Sequence(h2) /\ Len(h2) >= Len(h) /\ Len(h1) \in Nat
    BY <1>4, <1>11, <1>12 DEF Grown
  <2>2. \A i \in 1 .. Len(h) : i # r => h2[i] = h[i]
    BY <1>4, <1>11 DEF Grown
  <2>3. /\ \A x : x \in DOMAIN h2[r] <=> x \in DOMAIN h[r] \/ (x = k /\ w # Nil)
        /\ \A x \in DOMAIN h[r] : h2[r][x] = h[r][x]
        /\ w # Nil => h2[r][k] = w
    BY <1>10, <1>11 DEF Grown
  <2>4. \A i \in Len(h) + 1 .. Len(h2) : DOMAIN h2[i] = {}
    <3>1. Len(h) + 1 # r /\ Len(h) + 1 \in 1 .. Len(h1)
      BY <1>3, <1>4
    <3>2. h2[Len(h) + 1] = new
      BY <3>1, <1>4, <1>11 DEF Grown
    <3>3. \A i \in Len(h) + 1 .. Len(h2) : i = Len(h) + 1
      BY <1>4, <1>12
    <3>4. QED
      BY <3>2, <3>3, <1>3
  <2>5. QED
    BY <2>1, <2>2, <2>3, <2>4 DEF Grown
<1>14. Places(s, l, r, k, w) /\ Len(Run(s, l).heap) = Len(h) + 1
  BY <1>1, <1>4, <1>8, <1>9, <1>12, <1>13 DEF WithHeap, Places, h
<1>15. QED
  BY <1>14 DEF l, k, w, h

LEMMA UserdataPlaces ==
  ASSUME NEW s, Alive(s), Closed(s.heap), NEW pn, Sequence(pn), NEW text, NEW what,
         NEW r \in 1 .. Len(s.heap), Value(s, pn) = <<"table", r>>, ReadText(text) # Nil,
         ReadText(text) \notin DOMAIN s.heap[r], s.made \in Nat
  PROVE  LET l == [name |-> Append(pn, text), is |-> "userdata", what |-> what]
         IN  /\ Alive(Run(s, l)) /\ Run(s, l).made = s.made + 1
             /\ Grown(s.heap, Run(s, l).heap, r, ReadText(text),
                      <<"userdata", <<what, s.made>> >>)
<1> DEFINE l == [name |-> Append(pn, text), is |-> "userdata", what |-> what]
           k == ReadText(text)
           w == <<"userdata", <<what, s.made>> >>
           h == s.heap
           s1 == [s EXCEPT !.made = @ + 1]
           h2 == [h EXCEPT ![r] = Assigned(h[r], k, w)]
<1>1. Alive(s1) /\ s1.heap = h /\ s1.made = s.made + 1
  BY DEF Alive
<1>2. l.is = "userdata" /\ l.name = Append(pn, text) /\ l.what = what
  OBVIOUS
<1>3. Value(s, Append(pn, text)) = Nil
  <2>1. Value(s, Append(pn, text)) = Onward(s, <<"table", r>>, text)
    BY ValueAppend
  <2>2. Onward(s, <<"table", r>>, text) = Entry(s.heap, r, ReadText(text))
    BY GetEntry DEF Onward
  <2>3. QED
    BY <2>1, <2>2 DEF Entry
<1>4. Run(s, l) = Assign(s1, Append(pn, text), w)
  <2> HIDE DEF l
  <2>1. QED
    BY <1>2, <1>3 DEF Run
<1>5. Value(s1, pn) = <<"table", r>>
  <2>1. Value(s, pn) # Nil
    BY DEF Nil
  <2>2. Extends(h, h)
    BY DEF Extends
  <2>3. s.heap = h /\ s1.heap = h /\ Closed(h)
    BY <1>1
  <2> HIDE DEF h, s1
  <2>4. Value(s1, pn) = Value(s, pn)
    BY <2>1, <2>2, <2>3, ValueKept
  <2>5. QED
    BY <2>4
<1>6. WithHeap(s1, Assign(s1, Append(pn, text), w), h2)
  <2> HIDE DEF s1
  <2>1. WithHeap(s1, Assign(s1, Append(pn, text), w),
                 [s1.heap EXCEPT ![r] = Assigned(s1.heap[r], ReadText(text), w)])
    BY <1>1, <1>5, AssignName
  <2>2. QED
    BY <2>1, <1>1
<1>7. Grown(h, h2, r, k, w)
  <2>1. Closed(h) /\ r \in 1 .. Len(h) /\ k \notin DOMAIN h[r]
    OBVIOUS
  <2> HIDE DEF h, k, w
  <2>2. QED
    BY <2>1, AssignedGrown
<1> HIDE DEF l, s1, h2, k, w
<1>8. /\ Alive(Run(s, l)) /\ Run(s, l).made = s.made + 1
      /\ Grown(s.heap, Run(s, l).heap, r, k, w)
  BY <1>1, <1>4, <1>6, <1>7 DEF WithHeap
<1>9. QED
  BY <1>8 DEF l, k, w

-------------------------------------------------------------------------------
(* What is to be preserved, and what is left of a table that is traversed *)

IgnoredIn(g, v) ==
  \/ v[1] = "other" \/ v = Nil
  \/ v[1] = "userdata" /\ v[2] \notin Savable \ Failing
  \/ v[1] = "table" /\ (g[v[2]].meta \/ v[2] = Globals)

\* All that is in table t
AllOf(g, t) ==
  LET indices == {<<"number", i * Unit>> : i \in DOMAIN g[t].array}
  IN  [k \in indices \cup DOMAIN g[t].hash |->
         IF k \in indices THEN g[t].array[k[2] \div Unit] ELSE g[t].hash[k]]

ContentOf(g, t) ==
  [k \in {k \in DOMAIN AllOf(g, t) : ~IgnoredIn(g, AllOf(g, t)[k])} |-> AllOf(g, t)[k]]

LEMMA ContentIs == \A t : Content(t) = ContentOf(graph, t)
BY DEF Content, ContentOf, AllOf, Ignored, IgnoredIn

Ahead(g, f) == {i \in f.next .. Len(g[f.table].array) : g[f.table].array[i] # Nil}

ItemsIn(g, f) ==
  IF Ahead(g, f) # {}
  THEN LET i == Min(Ahead(g, f))
       IN  {[key |-> <<"number", i * Unit>>, value |-> g[f.table].array[i],
             rest |-> [f EXCEPT !.next = i + 1]]}
  ELSE {[key |-> k, value |-> g[f.table].hash[k],
         rest |-> [f EXCEPT !.next = Len(g[f.table].array) + 1,
                            !.left = @ \ {k}]] : k \in f.left}

LEMMA ItemsAre == Items = ItemsIn(graph, top)
BY DEF Items, ItemsIn, Present, Ahead

\* The keys that lua_next has yet to give
Left(g, f) == {<<"number", i * Unit>> : i \in Ahead(g, f)} \cup f.left

FrameIn(g, f) ==
  /\ DOMAIN f = {"table", "next", "left", "parent"}
  /\ f.table \in Tables /\ f.next \in Nat \ {0} /\ f.left \subseteq DOMAIN g[f.table].hash

LEMMA UnitPositive == Unit \in Nat \ {0}
BY MagnitudeAssumption DEF Unit

LEMMA Indices ==
  /\ \A i, j \in Nat : i * Unit = j * Unit => i = j
  /\ \A i \in Nat : (i * Unit) \div Unit = i
<1> DEFINE u == Unit
<1>1. u \in Nat \ {0}
  BY UnitPositive
<1> HIDE DEF u
<1>2. ASSUME NEW i \in Nat, NEW j \in Nat, i * u = j * u PROVE i = j
  BY <1>1, <1>2
<1>3. ASSUME NEW i \in Nat PROVE (i * u) \div u = i
  BY <1>1
<1>4. QED
  BY <1>2, <1>3 DEF u

LEMMA AllOfIs ==
  ASSUME NEW g, Preservable(g), NEW t \in Tables
  PROVE  /\ Len(g[t].array) \in Nat
         /\ \A i \in 1 .. Len(g[t].array) :
              /\ <<"number", i * Unit>> \in DOMAIN AllOf(g, t) \ DOMAIN g[t].hash
              /\ AllOf(g, t)[<<"number", i * Unit>>] = g[t].array[i]
         /\ \A k \in DOMAIN g[t].hash : k \in DOMAIN AllOf(g, t) /\ AllOf(g, t)[k] = g[t].hash[k]
         /\ \A k \in DOMAIN AllOf(g, t) :
              k \in DOMAIN g[t].hash \/ \E i \in 1 .. Len(g[t].array) : k = <<"number", i * Unit>>
<1> DEFINE a == g[t].array
           h == g[t].hash
           u == Unit
           ix == {<<"number", i * u>> : i \in DOMAIN a}
<1>1. /\ Len(a) \in Nat /\ DOMAIN a = 1 .. Len(a)
      /\ \A i \in DOMAIN a : <<"number", i * u>> \notin DOMAIN h
  BY DEF Preservable
<1>2. AllOf(g, t) = [x \in ix \cup DOMAIN h |-> IF x \in ix THEN a[x[2] \div u] ELSE h[x]]
  BY DEF AllOf
<1>3. \A i \in Nat : (i * u) \div u = i
  BY Indices
<1> DEFINE all == AllOf(g, t)
<1> HIDE DEF a, h, u
<1>4. \A i \in 1 .. Len(a) : <<"number", i * u>> \in ix
  BY <1>1
<1>5. \A k \in ix : \E i \in 1 .. Len(a) : k = <<"number", i * u>>
  BY <1>1
<1>6. \A k \in DOMAIN h : k \notin ix
  BY <1>1
<1> HIDE DEF ix
<1>7. DOMAIN all = ix \cup DOMAIN h
      /\ \A x \in ix \cup DOMAIN h : all[x] = IF x \in ix THEN a[x[2] \div u] ELSE h[x]
  BY <1>2
<1> HIDE DEF all
<1>8. ASSUME NEW i \in 1 .. Len(a) PROVE all[<<"number", i * u>>] = a[i]
  <2>1. <<"number", i * u>> \in ix /\ <<"number", i * u>>[2] = i * u
    BY <1>4
  <2>2. (i * u) \div u = i
    BY <1>1, <1>3
  <2>3. QED
    BY <2>1, <2>2, <1>7
<1>9. /\ \A i \in 1 .. Len(a) : /\ <<"number", i * u>> \in DOMAIN all \ DOMAIN h
                                /\ all[<<"number", i * u>>] = a[i]
      /\ \A k \in DOMAIN h : k \in DOMAIN all /\ all[k] = h[k]
      /\ \A k \in DOMAIN all :
           k \in DOMAIN h \/ \E i \in 1 .. Len(a) : k = <<"number", i * u>>
  BY <1>4, <1>5, <1>6, <1>7, <1>8
<1>10. QED
  BY <1>1, <1>9 DEF a, h, u, all

LEMMA MinIs ==
  ASSUME NEW S \in SUBSET Nat, S # {}
  PROVE  Min(S) \in S /\ \A y \in S : Min(S) <= y
<1>1. \E x \in S : \A y \in S : x <= y
  BY LeastElement
<1>2. QED
  BY <1>1 DEF Min

\* The texts of keys and scalars are read as what they are the texts of.
LEMMA TextsRead ==
  ASSUME NEW g, Preservable(g), NEW t \in Tables, NEW k \in DOMAIN AllOf(g, t)
  PROVE  /\ \A text \in serialize_data(k) : ReadText(text) = k /\ k # Nil
         /\ \A text \in serialize_data(AllOf(g, t)[k]) :
              /\ Reads(AllOf(g, t)[k], ReadText(text))
              /\ AllOf(g, t)[k][1] \notin {"table", "userdata", "other"}
              /\ ReadText(text)[1] \notin {"table", "userdata"}
              /\ AllOf(g, t)[k] # Nil
<1> DEFINE v == AllOf(g, t)[k]
<1>1. /\ k \in {<<"number", i * Unit>> : i \in DOMAIN g[t].array} \cup DOMAIN g[t].hash
      /\ v \in {g[t].array[i] : i \in DOMAIN g[t].array} \cup {g[t].hash[x] : x \in DOMAIN g[t].hash}
  <2>1. DOMAIN g[t].array = 1 .. Len(g[t].array)
    BY DEF Preservable
  <2>2. CASE k \in DOMAIN g[t].hash
    BY <2>2, AllOfIs
  <2>3. CASE k \notin DOMAIN g[t].hash
    <3>1. PICK i \in 1 .. Len(g[t].array) : k = <<"number", i * Unit>>
      BY <2>3, AllOfIs
    <3>2. v = g[t].array[i]
      BY <3>1, AllOfIs
    <3>3. QED
      BY <3>1, <3>2, <2>1
  <2>4. QED
    BY <2>2, <2>3
<1>2. \A text \in serialize_data(k) : ReadText(text) = k
  BY <1>1 DEF Preservable
<1>3. \A text \in serialize_data(v) : Reads(v, ReadText(text))
  BY <1>1 DEF Preservable
<1>4. \A x : serialize_data(x) # {} => x[1] \in {"number", "special", "string", "boolean"}
  BY DEF serialize_data
<1>5. \A x : x[1] \in {"number", "special", "string", "boolean"} => x # Nil
  BY DEF Nil
<1> HIDE DEF v
<1>6. ASSUME NEW text \in serialize_data(v)
      PROVE  /\ v[1] \notin {"table", "userdata", "other"} /\ v # Nil
             /\ ReadText(text)[1] \notin {"table", "userdata"}
  <2>1. v[1] \in {"number", "special", "string", "boolean"}
    BY <1>4
  <2>2. ReadText(text) = v \/ ReadText(text)[1] = "number"
    BY <1>3 DEF Reads, Near
  <2>3. QED
    BY <2>1, <2>2, <1>5
<1>7. QED
  BY <1>2, <1>3, <1>4, <1>5, <1>6 DEF v

LEMMA ItemIs ==
  ASSUME NEW g, Preservable(g), NEW f, FrameIn(g, f), NEW item \in ItemsIn(g, f)
  PROVE  /\ item.key \in Left(g, f) /\ item.key \in DOMAIN AllOf(g, f.table)
         /\ item.value = AllOf(g, f.table)[item.key]
         /\ FrameIn(g, item.rest) /\ item.rest.table = f.table /\ item.rest.parent = f.parent
         /\ Left(g, item.rest) = Left(g, f) \ {item.key}
<1> DEFINE a == g[f.table].array
           n == Ahead(g, f)
<1>1. f.table \in Tables /\ f.next \in Nat \ {0} /\ f.left \subseteq DOMAIN g[f.table].hash
      /\ DOMAIN f = {"table", "next", "left", "parent"}
  BY DEF FrameIn
<1>2. Len(a) \in Nat /\ n \in SUBSET Nat /\ n \subseteq 1 .. Len(a)
      /\ n = {i \in f.next .. Len(a) : a[i] # Nil}
  BY <1>1, AllOfIs DEF Ahead
<1>3. CASE n # {}
  <2> DEFINE i == Min(n)
             r == [f EXCEPT !.next = i + 1]
  <2>1. i \in n /\ \A j \in n : i <= j
    BY <1>2, <1>3, MinIs
  <2>2. item = [key |-> <<"number", i * Unit>>, value |-> a[i], rest |-> r]
    BY <1>3 DEF ItemsIn
  <2>3. item.key = <<"number", i * Unit>> /\ item.value = a[i] /\ item.rest = r
    BY <2>2
  <2>4. DOMAIN r = DOMAIN f /\ r.table = f.table /\ r.parent = f.parent /\ r.left = f.left
        /\ r.next = i + 1
    BY <1>1
  <2> HIDE DEF i, r
  <2>5. i \in 1 .. Len(a) /\ i + 1 \in Nat \ {0}
    BY <2>1, <1>2
  <2>6. item.key \in Left(g, f)
    BY <2>1, <2>3 DEF Left
  <2>7. item.key \in DOMAIN AllOf(g, f.table) /\ item.value = AllOf(g, f.table)[item.key]
        /\ item.key \notin DOMAIN g[f.table].hash
    BY <1>1, <2>3, <2>5, AllOfIs
  <2>8. FrameIn(g, r)
    BY <1>1, <2>4, <2>5 DEF FrameIn
  <2>9. Ahead(g, r) = n \ {i}
    <3>1. Ahead(g, r) = {j \in i + 1 .. Len(a) : a[j] # Nil}
      BY <2>4 DEF Ahead
    <3>2. \A j : j \in i + 1 .. Len(a) /\ a[j] # Nil <=> j \in n /\ j # i
      <4> TAKE j
      <4>1. j \in n => j \in Nat /\ i <= j
        BY <1>2, <2>1
      <4>2. i \in Nat /\ f.next <= i /\ f.next \in Nat
        BY <1>1, <1>2, <2>1, <2>5
      <4>3. QED
        BY <4>1, <4>2, <1>2
    <3>3. QED
      BY <3>1, <3>2
  <2>10. Left(g, r) = Left(g, f) \ {item.key}
    <3>1. \A j \in n : <<"number", j * Unit>> = item.key => j = i
      BY <1>2, <2>3, <2>5, Indices
    <3>2. item.key \notin f.left
      BY <1>1, <2>7
    <3>3. {<<"number", j * Unit>> : j \in n \ {i}} = {<<"number", j * Unit>> : j \in n} \ {item.key}
      BY <2>3, <3>1
    <3>4. QED
      BY <2>4, <2>9, <3>2, <3>3 DEF Left
  <2>11. QED
    BY <2>3, <2>4, <2>6, <2>7, <2>8, <2>10
<1>4. CASE n = {}
  <2>1. PICK k \in f.left :
          item = [key |-> k, value |-> g[f.table].hash[k],
                  rest |-> [f EXCEPT !.next = Len(a) + 1, !.left = @ \ {k}]]
    BY <1>4 DEF ItemsIn
  <2> DEFINE r == [f EXCEPT !.next = Len(a) + 1, !.left = @ \ {k}]
  <2>2. item.key = k /\ item.value = g[f.table].hash[k] /\ item.rest = r
    BY <2>1
  <2>3. DOMAIN r = DOMAIN f /\ r.table = f.table /\ r.parent = f.parent /\ r.left = f.left \ {k}
        /\ r.next = Len(a) + 1
    BY <1>1
  <2> HIDE DEF r
  <2>4. item.key \in Left(g, f)
    BY <2>2 DEF Left
  <2>5. item.key \in DOMAIN AllOf(g, f.table) /\ item.value = AllOf(g, f.table)[item.key]
    BY <1>1, <2>2, AllOfIs
  <2>6. FrameIn(g, r)
    BY <1>1, <1>2, <2>3 DEF FrameIn
  <2>7. Ahead(g, r) = {}
    BY <1>2, <2>3 DEF Ahead
  <2>8. Left(g, r) = Left(g, f) \ {item.key}
    BY <1>4, <2>2, <2>3, <2>7 DEF Left
  <2>9. QED
    BY <2>2, <2>3, <2>4, <2>5, <2>6, <2>8
<1>5. QED
  BY <1>3, <1>4

LEMMA NoItem ==
  ASSUME NEW g, NEW f, ItemsIn(g, f) = {}
  PROVE  Left(g, f) = {}
<1>1. Ahead(g, f) = {}
  BY DEF ItemsIn
<1>2. f.left = {}
  BY <1>1 DEF ItemsIn
<1>3. QED
  BY <1>1, <1>2 DEF Left

\* A table that is entered has all of its content left.
LEMMA Entered ==
  ASSUME NEW g, Preservable(g), NEW t \in Tables, NEW f,
         DOMAIN f = {"table", "next", "left", "parent"},
         f.table = t, f.next = 1, f.left = DOMAIN g[t].hash
  PROVE  FrameIn(g, f) /\ DOMAIN ContentOf(g, t) \subseteq Left(g, f)
<1>1. FrameIn(g, f)
  BY DEF FrameIn
<1>2. ASSUME NEW k \in DOMAIN ContentOf(g, t) PROVE k \in Left(g, f)
  <2>1. k \in DOMAIN AllOf(g, t) /\ ~IgnoredIn(g, AllOf(g, t)[k])
    BY DEF ContentOf
  <2>2. CASE k \in DOMAIN g[t].hash
    BY <2>2 DEF Left
  <2>3. CASE k \notin DOMAIN g[t].hash
    <3>1. PICK i \in 1 .. Len(g[t].array) : k = <<"number", i * Unit>>
      BY <2>1, <2>3, AllOfIs
    <3>2. g[t].array[i] # Nil
      BY <2>1, <3>1, AllOfIs DEF IgnoredIn
    <3>3. i \in Ahead(g, f)
      BY <3>1, <3>2 DEF Ahead
    <3>4. QED
      BY <3>1, <3>3 DEF Left
  <2>4. QED
    BY <2>2, <2>3
<1>3. QED
  BY <1>1, <1>2

-------------------------------------------------------------------------------
(* What Lua has made of the lines so far: m gives for the tables and       *)
(* userdata that have been written what there is for them in s.            *)

Root == <<"table", Globals>>

Leads(s, name, v) == Sequence(name) /\ Value(s, name) = v

\* Different values are restored as different ones of the same type.
Mapped(s, m) ==
  /\ Root \in DOMAIN m /\ m[Root] = <<"table", 1>>
  /\ \A v \in DOMAIN m :
       \/ /\ v = <<"table", v[2]>> /\ v[2] \in Tables
          /\ m[v] = <<"table", m[v][2]>> /\ m[v][2] \in 1 .. Len(s.heap)
       \/ /\ v[1] = "userdata" /\ v[2] \notin Failing
          /\ m[v] = <<"userdata", m[v][2]>> /\ m[v][2][2] \in 0 .. s.made - 1
  /\ \A v, w \in DOMAIN m : m[v] = m[w] => v = w

Known(m, tb) == \A v \in DOMAIN m : v = Root \/ \E k \in DOMAIN tb : tb[k][1] = v

\* Of what could not be written the key stays without a value.
Astray(g, s, m, name) ==
  \E pn, text, t : /\ name = Append(pn, text) /\ <<"table", t>> \in DOMAIN m
                   /\ Leads(s, pn, m[<<"table", t>>])
                   /\ ReadText(text) \notin DOMAIN ContentOf(g, t)

EntryHolds(g, s, m, ks, e) ==
  IF Unwritable(e) THEN Astray(g, s, m, ks[e[2]])
  ELSE e[1] \in DOMAIN m /\ Leads(s, ks[e[2]], m[e[1]])

\* The names that are kept lead to what they are the names of.
Entries(g, s, m, tb, ks) == \A k \in DOMAIN tb : EntryHolds(g, s, m, ks, tb[k])

FrameHolds(g, s, m, ks, f) ==
  /\ FrameIn(g, f) /\ f.parent \in 1 .. Len(ks)
  /\ <<"table", f.table>> \in DOMAIN m /\ Leads(s, ks[f.parent], m[<<"table", f.table>>])

FramesHold(g, s, m, ks, st) ==
  /\ Sequence(st)
  /\ \A i \in DOMAIN st : FrameHolds(g, s, m, ks, st[i])
  /\ \A i, j \in DOMAIN st : st[i].table = st[j].table => i = j

Pending(g, st, t, k) == \E i \in DOMAIN st : st[i].table = t /\ k \in Left(g, st[i])

Alike(m, v, w) ==
  IF v[1] \in {"table", "userdata"} THEN v \in DOMAIN m /\ w = m[v] ELSE Near(v, w)

\* A table has the keys that have been visited, with the values they should have.
TableHolds(g, s, m, st, t) ==
  \E r \in {m[<<"table", t>>][2]} :
    /\ \A k : k \in DOMAIN s.heap[r] <=> k \in DOMAIN ContentOf(g, t) /\ ~Pending(g, st, t, k)
    /\ \A k \in DOMAIN s.heap[r] : Alike(m, ContentOf(g, t)[k], s.heap[r][k])

ContentHolds(g, s, m, st) == \A t : <<"table", t>> \in DOMAIN m => TableHolds(g, s, m, st, t)

Follows(g, s, m, tb, ks, st) ==
  /\ Alive(s) /\ s.made \in Nat /\ Closed(s.heap)
  /\ Mapped(s, m) /\ Known(m, tb)
  /\ Entries(g, s, m, tb, ks)
  /\ FramesHold(g, s, m, ks, st)
  /\ ContentHolds(g, s, m, st)

Larger(m, m2) == \A v \in DOMAIN m : v \in DOMAIN m2 /\ m2[v] = m[v]

\* More has been made.
Later(s, s2) == Closed(s.heap) /\ Extends(s.heap, s2.heap)

LEMMA LeadsOn ==
  ASSUME NEW s, NEW s2, Later(s, s2), NEW name, NEW v, v # Nil, Leads(s, name, v)
  PROVE  Leads(s2, name, v)
<1> DEFINE h == s.heap
           h2 == s2.heap
<1>1. s.heap = h /\ s2.heap = h2 /\ Closed(h) /\ Extends(h, h2)
  BY DEF Later
<1>2. Sequence(name) /\ Value(s, name) # Nil /\ Value(s, name) = v
  BY DEF Leads
<1> HIDE DEF h, h2
<1>3. Value(s2, name) = Value(s, name)
  BY <1>1, <1>2, ValueKept
<1>4. QED
  BY <1>2, <1>3 DEF Leads

LEMMA MappedNotNil ==
  ASSUME NEW s, NEW m, Mapped(s, m), NEW v \in DOMAIN m
  PROVE  m[v] # Nil
<1>1. m[v] = <<"table", m[v][2]>> \/ m[v] = <<"userdata", m[v][2]>>
  BY DEF Mapped
<1>2. QED
  BY <1>1 DEF Nil

LEMMA EntryOn ==
  ASSUME NEW g, NEW s, NEW s2, Later(s, s2), NEW m, NEW m2, Mapped(s, m), Larger(m, m2),
         NEW ks, NEW ks2, NEW e, ks2[e[2]] = ks[e[2]], EntryHolds(g, s, m, ks, e)
  PROVE  EntryHolds(g, s2, m2, ks2, e)
<1>1. CASE Unwritable(e)
  <2>1. Astray(g, s, m, ks[e[2]])
    BY <1>1 DEF EntryHolds
  <2>2. PICK pn, text, t :
          /\ ks[e[2]] = Append(pn, text) /\ <<"table", t>> \in DOMAIN m
          /\ Leads(s, pn, m[<<"table", t>>]) /\ ReadText(text) \notin DOMAIN ContentOf(g, t)
    BY <2>1 DEF Astray
  <2>3. m[<<"table", t>>] # Nil /\ <<"table", t>> \in DOMAIN m2 /\ m2[<<"table", t>>] = m[<<"table", t>>]
    BY <2>2, MappedNotNil DEF Larger
  <2>4. Leads(s2, pn, m2[<<"table", t>>])
    BY <2>2, <2>3, LeadsOn
  <2>5. Astray(g, s2, m2, ks2[e[2]])
    BY <2>2, <2>3, <2>4 DEF Astray
  <2>6. QED
    BY <1>1, <2>5 DEF EntryHolds
<1>2. CASE ~Unwritable(e)
  <2>1. e[1] \in DOMAIN m /\ Leads(s, ks[e[2]], m[e[1]])
    BY <1>2 DEF EntryHolds
  <2>2. m[e[1]] # Nil /\ e[1] \in DOMAIN m2 /\ m2[e[1]] = m[e[1]]
    BY <2>1, MappedNotNil DEF Larger
  <2>3. Leads(s2, ks2[e[2]], m2[e[1]])
    BY <2>1, <2>2, LeadsOn
  <2>4. QED
    BY <1>2, <2>2, <2>3 DEF EntryHolds
<1>3. QED
  BY <1>1, <1>2

LEMMA FrameOn ==
  ASSUME NEW g, NEW s, NEW s2, Later(s, s2), NEW m, NEW m2, Mapped(s, m), Larger(m, m2),
         NEW ks, NEW ks2, Len(ks) \in Nat, Len(ks2) \in Nat, Len(ks2) >= Len(ks),
         \A i \in 1 .. Len(ks) : ks2[i] = ks[i], NEW f, FrameHolds(g, s, m, ks, f)
  PROVE  FrameHolds(g, s2, m2, ks2, f)
<1> DEFINE v == <<"table", f.table>>
<1>1. FrameIn(g, f) /\ f.parent \in 1 .. Len(ks) /\ v \in DOMAIN m /\ Leads(s, ks[f.parent], m[v])
  BY DEF FrameHolds
<1>2. f.parent \in 1 .. Len(ks2) /\ ks2[f.parent] = ks[f.parent]
  BY <1>1
<1>3. m[v] # Nil /\ v \in DOMAIN m2 /\ m2[v] = m[v]
  BY <1>1, MappedNotNil DEF Larger
<1>4. Leads(s2, ks2[f.parent], m2[v])
  BY <1>1, <1>2, <1>3, LeadsOn
<1>5. QED
  BY <1>1, <1>2, <1>3, <1>4 DEF FrameHolds

\* The frame on top is rest now, and another one may be on top of it.
Moved(st, st2, rest) ==
  /\ Sequence(st2) /\ Len(st2) \in {Len(st), Len(st) + 1} /\ Len(st) \in Nat \ {0}
  /\ \A i \in 1 .. Len(st) - 1 : st2[i] = st[i]
  /\ st2[Len(st)] = rest

\* Of table t the key k of table P is not pending any more.
Visited(g, st, st2, t, P, k) ==
  \A x : Pending(g, st2, t, x) <=> Pending(g, st, t, x) /\ ~(t = P /\ x = k)

LEMMA PendingMoved ==
  ASSUME NEW g, NEW st, NEW st2, NEW rest, Sequence(st), Moved(st, st2, rest),
         \A i, j \in DOMAIN st : st[i].table = st[j].table => i = j,
         rest.table = st[Len(st)].table, NEW k, Left(g, rest) = Left(g, st[Len(st)]) \ {k},
         NEW t, \A i \in DOMAIN st2 : i > Len(st) => st2[i].table # t
  PROVE  Visited(g, st, st2, t, rest.table, k)
<1> DEFINE n == Len(st)
           p == Len(st2)
<1>1. n \in Nat \ {0} /\ p \in Nat /\ n <= p /\ DOMAIN st = 1 .. n /\ DOMAIN st2 = 1 .. p
  BY SequenceLen DEF Moved
<1>2. /\ (\A i \in 1 .. n - 1 : st2[i] = st[i]) /\ st2[n] = rest
      /\ rest.table = st[n].table /\ Left(g, rest) = Left(g, st[n]) \ {k}
      /\ \A i \in DOMAIN st2 : i > n => st2[i].table # t
  BY DEF Moved
<1> HIDE DEF n, p
<1>3. /\ n \in DOMAIN st /\ n \in DOMAIN st2
      /\ \A i \in DOMAIN st : i \in DOMAIN st2 /\ (i # n => i \in 1 .. n - 1)
      /\ \A i \in DOMAIN st2 : i > n \/ i \in DOMAIN st
  BY <1>1
<1> SUFFICES ASSUME NEW x
             PROVE  Pending(g, st2, t, x) <=> Pending(g, st, t, x) /\ ~(t = rest.table /\ x = k)
  BY DEF Visited
<1>4. ASSUME Pending(g, st2, t, x)
      PROVE  Pending(g, st, t, x) /\ ~(t = rest.table /\ x = k)
  <2>1. PICK i \in DOMAIN st2 : st2[i].table = t /\ x \in Left(g, st2[i])
    BY <1>4 DEF Pending
  <2>2. i \in DOMAIN st
    BY <1>2, <1>3, <2>1
  <2>3. CASE i = n
    BY <1>2, <1>3, <2>1, <2>3 DEF Pending
  <2>4. CASE i # n
    <3>1. st2[i] = st[i]
      BY <1>2, <1>3, <2>2, <2>4
    <3>2. t # rest.table
      BY <2>1, <2>2, <2>4, <3>1, <1>2, <1>3
    <3>3. QED
      BY <2>1, <2>2, <3>1, <3>2 DEF Pending
  <2>5. QED
    BY <2>3, <2>4
<1>5. ASSUME Pending(g, st, t, x), ~(t = rest.table /\ x = k)
      PROVE  Pending(g, st2, t, x)
  <2>1. PICK i \in DOMAIN st : st[i].table = t /\ x \in Left(g, st[i])
    BY <1>5 DEF Pending
  <2>2. CASE i = n
    BY <1>2, <1>3, <1>5, <2>1, <2>2 DEF Pending
  <2>3. CASE i # n
    <3>1. st2[i] = st[i] /\ i \in DOMAIN st2
      BY <1>2, <1>3, <2>3
    <3>2. QED
      BY <2>1, <3>1 DEF Pending
  <2>4. QED
    BY <2>2, <2>3
<1>6. QED
  BY <1>4, <1>5

LEMMA AlikeOn ==
  ASSUME NEW m, NEW m2, Larger(m, m2), NEW v, NEW w, Alike(m, v, w)
  PROVE  Alike(m2, v, w)
BY DEF Alike, Larger

\* The key k of table P is visited: table r gets w for it.
LEMMA ContentMoved ==
  ASSUME NEW g, NEW s, NEW s2, NEW m, NEW m2, NEW st, NEW st2, NEW P, NEW k, NEW w,
         Mapped(s, m), Larger(m, m2), ContentHolds(g, s, m, st), <<"table", P>> \in DOMAIN m,
         Grown(s.heap, s2.heap, m[<<"table", P>>][2], k, w),
         \A t : <<"table", t>> \in DOMAIN m => Visited(g, st, st2, t, P, k),
         Pending(g, st, P, k),
         k \in DOMAIN ContentOf(g, P) => w # Nil /\ Alike(m2, ContentOf(g, P)[k], w),
         k \notin DOMAIN ContentOf(g, P) => w = Nil,
         \A t : <<"table", t>> \in DOMAIN m2 \ DOMAIN m =>
           /\ m2[<<"table", t>>][2] \in Len(s.heap) + 1 .. Len(s2.heap)
           /\ \A x \in DOMAIN ContentOf(g, t) : Pending(g, st2, t, x)
  PROVE  ContentHolds(g, s2, m2, st2)
<1> SUFFICES ASSUME NEW t, <<"table", t>> \in DOMAIN m2
             PROVE  TableHolds(g, s2, m2, st2, t)
  BY DEF ContentHolds
<1> DEFINE v == <<"table", t>>
           q == <<"table", P>>
           r == m2[v][2]
           h == s.heap
           h2 == s2.heap
           c == ContentOf(g, t)
<1>1. SUFFICES /\ \A x : x \in DOMAIN h2[r] <=> x \in DOMAIN c /\ ~Pending(g, st2, t, x)
               /\ \A x \in DOMAIN h2[r] : Alike(m2, c[x], h2[r][x])
  BY DEF TableHolds
<1>2. CASE v \notin DOMAIN m
  <2>1. r \in Len(h) + 1 .. Len(h2) /\ \A x \in DOMAIN c : Pending(g, st2, t, x)
    BY <1>2
  <2>2. DOMAIN h2[r] = {}
    BY <2>1 DEF Grown
  <2>3. QED
    BY <2>1, <2>2
<1>3. CASE v \in DOMAIN m
  <2>1. r = m[v][2] /\ m[v] = <<"table", r>> /\ r \in 1 .. Len(h)
    <3>1. m2[v] = m[v]
      BY <1>3 DEF Larger
    <3>2. v[1] # "userdata"
      OBVIOUS
    <3>3. m[v] = <<"table", m[v][2]>> /\ m[v][2] \in 1 .. Len(h)
      BY <1>3, <3>2 DEF Mapped
    <3>4. QED
      BY <3>1, <3>3
  <2>2. /\ \A x : x \in DOMAIN h[r] <=> x \in DOMAIN c /\ ~Pending(g, st, t, x)
        /\ \A x \in DOMAIN h[r] : Alike(m, c[x], h[r][x])
    BY <1>3, <2>1 DEF ContentHolds, TableHolds
  <2>3. \A x : Pending(g, st2, t, x) <=> Pending(g, st, t, x) /\ ~(t = P /\ x = k)
    BY <1>3 DEF Visited
  <2>4. CASE t = P
    <3>1. m[q][2] = r
      BY <2>1, <2>4
    <3>2. Grown(h, h2, r, k, w)
      BY <3>1
    <3>3. /\ \A x : x \in DOMAIN h2[r] <=> x \in DOMAIN h[r] \/ (x = k /\ w # Nil)
          /\ \A x \in DOMAIN h[r] : h2[r][x] = h[r][x]
          /\ w # Nil => h2[r][k] = w
      BY <3>2 DEF Grown
    <3>4. /\ k \in DOMAIN c => w # Nil /\ Alike(m2, c[k], w)
          /\ k \notin DOMAIN c => w = Nil
          /\ Pending(g, st, t, k)
      BY <2>4
    <3> HIDE DEF c, h, h2, r
    <3>5. \A x : x \in DOMAIN h2[r] <=> x \in DOMAIN c /\ ~Pending(g, st2, t, x)
      BY <2>2, <2>3, <2>4, <3>3, <3>4
    <3>6. ASSUME NEW x \in DOMAIN h2[r] PROVE Alike(m2, c[x], h2[r][x])
      <4>1. CASE x \in DOMAIN h[r]
        <5>1. Alike(m, c[x], h[r][x]) /\ h2[r][x] = h[r][x]
          BY <4>1, <2>2, <3>3
        <5>2. QED
          BY <5>1, AlikeOn
      <4>2. CASE x \notin DOMAIN h[r]
        <5>1. x = k /\ w # Nil /\ h2[r][x] = w
          BY <4>2, <3>3
        <5>2. QED
          BY <5>1, <3>4
      <4>3. QED
        BY <4>1, <4>2
    <3>7. QED
      BY <3>5, <3>6
  <2>5. CASE t # P
    <3>1. v # q
      BY <2>5
    <3>2. m[q] = <<"table", m[q][2]>>
      BY DEF Mapped
    <3>3. m[q] # m[v]
      BY <3>1, <1>3 DEF Mapped
    <3>4. r # m[q][2]
      BY <2>1, <3>2, <3>3
    <3>5. h2[r] = h[r]
      BY <2>1, <3>4 DEF Grown
    <3> HIDE DEF c, h, h2, r
    <3>6. \A x : x \in DOMAIN h2[r] <=> x \in DOMAIN c /\ ~Pending(g, st2, t, x)
      BY <2>2, <2>3, <2>5, <3>5
    <3>7. ASSUME NEW x \in DOMAIN h2[r] PROVE Alike(m2, c[x], h2[r][x])
      BY <2>2, <3>5, AlikeOn
    <3>8. QED
      BY <3>6, <3>7
  <2>6. QED
    BY <2>4, <2>5
<1>4. QED
  BY <1>2, <1>3

\* A frame more, if any, is for a table that had no name.
LEMMA FramesMoved ==
  ASSUME NEW g, NEW s, NEW s2, NEW m, NEW m2, NEW ks, NEW ks2, NEW st, NEW st2, NEW rest,
         Later(s, s2), Mapped(s, m), Larger(m, m2), FramesHold(g, s, m, ks, st),
         Moved(st, st2, rest), Len(ks) \in Nat, Len(ks2) \in Nat, Len(ks2) >= Len(ks),
         \A i \in 1 .. Len(ks) : ks2[i] = ks[i],
         FrameIn(g, rest), rest.table = st[Len(st)].table, rest.parent = st[Len(st)].parent,
         Len(st2) > Len(st) =>
           /\ FrameHolds(g, s2, m2, ks2, st2[Len(st) + 1])
           /\ <<"table", st2[Len(st) + 1].table>> \notin DOMAIN m
  PROVE  FramesHold(g, s2, m2, ks2, st2)
<1> DEFINE n == Len(st)
           p == Len(st2)
<1>1. /\ n \in Nat \ {0} /\ p \in Nat /\ n <= p /\ DOMAIN st = 1 .. n /\ DOMAIN st2 = 1 .. p
      /\ p \in {n, n + 1}
  BY SequenceLen DEF Moved, FramesHold
<1>2. /\ (\A i \in 1 .. n - 1 : st2[i] = st[i]) /\ st2[n] = rest
      /\ rest.table = st[n].table /\ rest.parent = st[n].parent
      /\ p > n => /\ FrameHolds(g, s2, m2, ks2, st2[n + 1])
                  /\ <<"table", st2[n + 1].table>> \notin DOMAIN m
  BY DEF Moved
<1>3. /\ \A i \in DOMAIN st : FrameHolds(g, s, m, ks, st[i])
      /\ \A i, j \in DOMAIN st : st[i].table = st[j].table => i = j
  BY DEF FramesHold
<1> HIDE DEF n, p
<1>4. \A i \in DOMAIN st : FrameHolds(g, s2, m2, ks2, st[i])
  BY <1>3, FrameOn
<1>5. n \in DOMAIN st /\ \A i \in DOMAIN st : i # n => i \in 1 .. n - 1
  BY <1>1
<1>6. \A i \in DOMAIN st2 : i \in DOMAIN st \/ (p > n /\ i = n + 1)
  BY <1>1
<1>7. FrameHolds(g, s2, m2, ks2, rest)
  <2>1. FrameHolds(g, s2, m2, ks2, st[n])
    BY <1>4, <1>5
  <2>2. QED
    BY <2>1, <1>2 DEF FrameHolds
<1>8. ASSUME NEW i \in DOMAIN st2 PROVE FrameHolds(g, s2, m2, ks2, st2[i])
  BY <1>2, <1>4, <1>5, <1>6, <1>7
<1>9. \A i \in DOMAIN st : st2[i].table = st[i].table
  BY <1>2, <1>5
<1>10. ASSUME NEW i \in DOMAIN st, p > n PROVE st2[i].table # st2[n + 1].table
  <2>1. <<"table", st[i].table>> \in DOMAIN m
    BY <1>3 DEF FrameHolds
  <2>2. QED
    BY <2>1, <1>2, <1>9, <1>10
<1>11. ASSUME NEW i \in DOMAIN st2, NEW j \in DOMAIN st2, st2[i].table = st2[j].table
       PROVE  i = j
  BY <1>3, <1>6, <1>9, <1>10, <1>11
<1>12. QED
  BY <1>8, <1>11 DEF FramesHold, Moved

LEMMA EntriesOn ==
  ASSUME NEW g, NEW s, NEW s2, NEW m, NEW m2, NEW tb, NEW ks, NEW ks2,
         Later(s, s2), Mapped(s, m), Larger(m, m2), Entries(g, s, m, tb, ks),
         \A k \in DOMAIN tb : tb[k][2] \in 1 .. Len(ks),
         \A i \in 1 .. Len(ks) : ks2[i] = ks[i]
  PROVE  Entries(g, s2, m2, tb, ks2)
<1>1. ASSUME NEW k \in DOMAIN tb PROVE EntryHolds(g, s2, m2, ks2, tb[k])
  <2>1. EntryHolds(g, s, m, ks, tb[k]) /\ ks2[tb[k][2]] = ks[tb[k][2]]
    BY DEF Entries
  <2>2. QED
    BY <2>1, EntryOn
<1>2. QED
  BY <1>1 DEF Entries

\* The step for an item
LEMMA ItemFollows ==
  ASSUME NEW g, NEW s, NEW s2, NEW m, NEW m2, NEW tb, NEW tb2, NEW ks, NEW ks2, NEW st, NEW st2,
         NEW w, Preservable(g), Follows(g, s, m, tb, ks, st),
         NEW item \in ItemsIn(g, st[Len(st)]), Moved(st, st2, item.rest),
         Alive(s2), s2.made \in Nat,
         Grown(s.heap, s2.heap, m[<<"table", st[Len(st)].table>>][2], item.key, w),
         w[1] = "table" => w[2] \in 1 .. Len(s2.heap),
         IF IgnoredIn(g, item.value) THEN w = Nil ELSE w # Nil /\ Alike(m2, item.value, w),
         Larger(m, m2), Mapped(s2, m2), Known(m2, tb2), Entries(g, s2, m2, tb2, ks2),
         Len(ks) \in Nat, Len(ks2) \in Nat, Len(ks2) >= Len(ks),
         \A i \in 1 .. Len(ks) : ks2[i] = ks[i],
         Len(st2) > Len(st) =>
           /\ FrameHolds(g, s2, m2, ks2, st2[Len(st) + 1])
           /\ <<"table", st2[Len(st) + 1].table>> \notin DOMAIN m,
         \A t : <<"table", t>> \in DOMAIN m2 \ DOMAIN m =>
           /\ m2[<<"table", t>>][2] \in Len(s.heap) + 1 .. Len(s2.heap)
           /\ \A x \in DOMAIN ContentOf(g, t) : Pending(g, st2, t, x)
  PROVE  Follows(g, s2, m2, tb2, ks2, st2)
<1> DEFINE n == Len(st)
           f == st[n]
           P == f.table
           k == item.key
           h == s.heap
           h2 == s2.heap
           q == <<"table", P>>
<1>1. /\ Closed(h) /\ Mapped(s, m) /\ FramesHold(g, s, m, ks, st) /\ ContentHolds(g, s, m, st)
  BY DEF Follows
<1>2. n \in Nat \ {0} /\ n \in DOMAIN st /\ DOMAIN st = 1 .. n /\ Sequence(st)
  <2>1. Sequence(st) /\ n \in Nat \ {0}
    BY <1>1 DEF FramesHold, Moved
  <2>2. QED
    BY <2>1, SequenceLen
<1>3. FrameHolds(g, s, m, ks, f)
  BY <1>1, <1>2 DEF FramesHold
<1>4. FrameIn(g, f) /\ q \in DOMAIN m /\ P \in Tables
  BY <1>3 DEF FrameHolds, FrameIn
<1>5. /\ k \in Left(g, f) /\ k \in DOMAIN AllOf(g, P)
      /\ item.value = AllOf(g, P)[k]
      /\ FrameIn(g, item.rest) /\ item.rest.table = P /\ item.rest.parent = f.parent
      /\ Left(g, item.rest) = Left(g, f) \ {k}
  BY <1>4, ItemIs
<1>6. /\ k \in DOMAIN ContentOf(g, P) <=> ~IgnoredIn(g, item.value)
      /\ k \in DOMAIN ContentOf(g, P) => ContentOf(g, P)[k] = item.value
  BY <1>5 DEF ContentOf
<1>7. Later(s, s2) /\ Closed(h2)
  <2> HIDE DEF h, h2, k, q
  <2>1. Grown(h, h2, m[q][2], k, w) /\ (w[1] = "table" => w[2] \in 1 .. Len(h2))
    BY DEF h, h2, k, q
  <2>2. Extends(h, h2) /\ Closed(h2)
    BY <2>1, <1>1, GrownExtends, GrownClosed
  <2>3. QED
    BY <1>1, <2>2 DEF Later, h, h2
<1>8. FramesHold(g, s2, m2, ks2, st2)
  <2> DEFINE rest == item.rest
  <2>1. FrameIn(g, rest) /\ rest.table = st[Len(st)].table /\ rest.parent = st[Len(st)].parent
        /\ Moved(st, st2, rest)
    BY <1>5
  <2> HIDE DEF rest, f, P, q
  <2>2. QED
    BY <2>1, <1>1, <1>7, FramesMoved
<1>9. ASSUME NEW t, <<"table", t>> \in DOMAIN m
      PROVE  Visited(g, st, st2, t, P, k)
  <2> DEFINE rest == item.rest
  <2>1. /\ rest.table = st[Len(st)].table /\ Left(g, rest) = Left(g, st[Len(st)]) \ {k}
        /\ Moved(st, st2, rest)
    BY <1>5
  <2>2. \A i, j \in DOMAIN st : st[i].table = st[j].table => i = j
    BY <1>1 DEF FramesHold
  <2>3. ASSUME NEW i \in DOMAIN st2, i > Len(st) PROVE st2[i].table # t
    <3> DEFINE p == Len(st2)
    <3>1. DOMAIN st2 = 1 .. p /\ p \in {n, n + 1} /\ n \in Nat /\ p \in Nat /\ i > n
      BY <2>3, SequenceLen DEF Moved
    <3> HIDE DEF n, p
    <3>2. i = n + 1 /\ p > n
      BY <3>1
    <3>3. QED
      BY <3>2, <1>9 DEF n, p
  <2>4. Sequence(st) /\ \A i \in DOMAIN st2 : i > Len(st) => st2[i].table # t
    BY <1>2, <2>3
  <2> HIDE DEF rest, k, n, f, P
  <2>5. Visited(g, st, st2, t, rest.table, k)
    BY <2>1, <2>2, <2>4, PendingMoved
  <2>6. rest.table = P
    BY <2>1 DEF P, f, n
  <2>7. QED
    BY <2>5, <2>6
<1>10. Pending(g, st, P, k)
  BY <1>2, <1>5 DEF Pending
<1>11. ContentHolds(g, s2, m2, st2)
  <2>1. /\ k \in DOMAIN ContentOf(g, P) => w # Nil /\ Alike(m2, ContentOf(g, P)[k], w)
        /\ k \notin DOMAIN ContentOf(g, P) => w = Nil
    BY <1>6
  <2>2. /\ Grown(s.heap, s2.heap, m[<<"table", P>>][2], k, w) /\ <<"table", P>> \in DOMAIN m
        /\ ContentHolds(g, s, m, st) /\ Mapped(s, m)
    BY <1>1, <1>4
  <2> HIDE DEF k, P
  <2>3. QED
    BY <2>1, <2>2, <1>9, <1>10, ContentMoved
<1>12. QED
  BY <1>7, <1>8, <1>11 DEF Follows

\* The place of an item: the name of its table leads there, and its key has no value.
PlaceOf(g, s, m, ks, f, item, r) ==
  /\ m[<<"table", f.table>>] = <<"table", r>> /\ r \in 1 .. Len(s.heap)
  /\ Leads(s, ks[f.parent], <<"table", r>>)
  /\ item.key \notin DOMAIN s.heap[r]
  /\ \A text \in serialize_data(item.key) : ReadText(text) = item.key /\ ReadText(text) # Nil
  /\ <<"table", f.table>> \in DOMAIN m /\ f.parent \in 1 .. Len(ks)
  /\ item.key \in DOMAIN ContentOf(g, f.table) <=> ~IgnoredIn(g, item.value)
  /\ item.key \in DOMAIN AllOf(g, f.table) /\ item.value = AllOf(g, f.table)[item.key]
  /\ f.table \in Tables

LEMMA ItemPlace ==
  ASSUME NEW g, NEW s, NEW m, NEW tb, NEW ks, NEW st, Preservable(g),
         Follows(g, s, m, tb, ks, st), Len(st) \in Nat \ {0},
         NEW item \in ItemsIn(g, st[Len(st)])
  PROVE  \E r : PlaceOf(g, s, m, ks, st[Len(st)], item, r)
<1> DEFINE n == Len(st)
           f == st[n]
           q == <<"table", f.table>>
           r == m[q][2]
<1>1. /\ Mapped(s, m) /\ FramesHold(g, s, m, ks, st) /\ ContentHolds(g, s, m, st)
  BY DEF Follows
<1>2. n \in DOMAIN st
  BY <1>1, SequenceLen DEF FramesHold
<1>3. FrameHolds(g, s, m, ks, f)
  BY <1>1, <1>2 DEF FramesHold
<1>4. FrameIn(g, f) /\ q \in DOMAIN m /\ f.table \in Tables /\ f.parent \in 1 .. Len(ks)
      /\ Leads(s, ks[f.parent], m[q])
  BY <1>3 DEF FrameHolds, FrameIn
<1>5. /\ item.key \in Left(g, f) /\ item.key \in DOMAIN AllOf(g, f.table)
      /\ item.value = AllOf(g, f.table)[item.key]
  BY <1>4, ItemIs
<1>6. item.key \in DOMAIN ContentOf(g, f.table) <=> ~IgnoredIn(g, item.value)
  BY <1>5 DEF ContentOf
<1>7. m[q] = <<"table", r>> /\ r \in 1 .. Len(s.heap)
  BY <1>1, <1>4 DEF Mapped
<1>8. Pending(g, st, f.table, item.key)
  BY <1>2, <1>5 DEF Pending
<1>9. item.key \notin DOMAIN s.heap[r]
  BY <1>1, <1>4, <1>8 DEF ContentHolds, TableHolds
<1>10. \A text \in serialize_data(item.key) : ReadText(text) = item.key /\ ReadText(text) # Nil
  BY <1>4, <1>5, TextsRead
<1>11. QED
  BY <1>4, <1>5, <1>6, <1>7, <1>9, <1>10 DEF PlaceOf

\* More tables, more userdata
LEMMA MappedOn ==
  ASSUME NEW s, NEW s2, NEW m, Mapped(s, m), Len(s.heap) \in Nat, Len(s2.heap) \in Nat,
         Len(s2.heap) >= Len(s.heap), s.made \in Nat, s2.made \in Nat, s2.made >= s.made
  PROVE  Mapped(s2, m)
<1> DEFINE a == Len(s.heap)
           b == Len(s2.heap)
<1>1. a \in Nat /\ b \in Nat /\ b >= a
  OBVIOUS
<1>2. ASSUME NEW v \in DOMAIN m
      PROVE  \/ /\ v = <<"table", v[2]>> /\ v[2] \in Tables
                /\ m[v] = <<"table", m[v][2]>> /\ m[v][2] \in 1 .. b
             \/ /\ v[1] = "userdata" /\ v[2] \notin Failing
                /\ m[v] = <<"userdata", m[v][2]>> /\ m[v][2][2] \in 0 .. s2.made - 1
  <2>1. \/ /\ v = <<"table", v[2]>> /\ v[2] \in Tables
           /\ m[v] = <<"table", m[v][2]>> /\ m[v][2] \in 1 .. a
        \/ /\ v[1] = "userdata" /\ v[2] \notin Failing
           /\ m[v] = <<"userdata", m[v][2]>> /\ m[v][2][2] \in 0 .. s.made - 1
    BY DEF Mapped
  <2> HIDE DEF a, b
  <2>2. \A i \in 1 .. a : i \in 1 .. b
    BY <1>1
  <2>3. \A i \in 0 .. s.made - 1 : i \in 0 .. s2.made - 1
    OBVIOUS
  <2>4. QED
    BY <2>1, <2>2, <2>3
<1>3. QED
  BY <1>2 DEF Mapped

\* Nothing new gets a name.
LEMMA PlacedFollows ==
  ASSUME NEW g, NEW s, NEW s2, NEW m, NEW tb, NEW ks, NEW st, NEW st2, NEW w,
         Preservable(g), Follows(g, s, m, tb, ks, st),
         Len(ks) \in Nat, \A k \in DOMAIN tb : tb[k][2] \in 1 .. Len(ks),
         NEW item \in ItemsIn(g, st[Len(st)]),
         Moved(st, st2, item.rest), Len(st2) = Len(st), Alive(s2), s2.made = s.made,
         Grown(s.heap, s2.heap, m[<<"table", st[Len(st)].table>>][2], item.key, w),
         w[1] = "table" => w[2] \in 1 .. Len(s2.heap),
         IF IgnoredIn(g, item.value) THEN w = Nil ELSE w # Nil /\ Alike(m, item.value, w)
  PROVE  Follows(g, s2, m, tb, ks, st2)
<1>1. /\ Mapped(s, m) /\ Entries(g, s, m, tb, ks) /\ Known(m, tb) /\ s.made \in Nat /\ Closed(s.heap)
  BY DEF Follows
<1>2. Len(s.heap) \in Nat /\ Len(s2.heap) \in Nat /\ Len(s2.heap) >= Len(s.heap)
  BY <1>1, SequenceLen DEF Closed, Grown
<1>3. Mapped(s2, m)
  BY <1>1, <1>2, MappedOn
<1>4. Later(s, s2)
  <2>1. Extends(s.heap, s2.heap)
    BY GrownExtends
  <2>2. QED
    BY <2>1, <1>1 DEF Later
<1>5. Larger(m, m)
  BY DEF Larger
<1>6. Entries(g, s2, m, tb, ks)
  BY <1>1, <1>4, <1>5, EntriesOn
<1>7. ~(Len(st2) > Len(st)) /\ Len(ks) >= Len(ks)
  BY DEF Moved
<1>8. \A t : <<"table", t>> \in DOMAIN m \ DOMAIN m =>
           /\ m[<<"table", t>>][2] \in Len(s.heap) + 1 .. Len(s2.heap)
           /\ \A x \in DOMAIN ContentOf(g, t) : Pending(g, st2, t, x)
  OBVIOUS
<1>9. QED
  BY <1>1, <1>3, <1>5, <1>6, <1>7, <1>8, ItemFollows

LEMMA SkippedFollows ==
  ASSUME NEW g, NEW s, NEW m, NEW tb, NEW ks, NEW st, NEW st2,
         Preservable(g), Follows(g, s, m, tb, ks, st),
         Len(ks) \in Nat, \A k \in DOMAIN tb : tb[k][2] \in 1 .. Len(ks),
         NEW item \in ItemsIn(g, st[Len(st)]),
         Moved(st, st2, item.rest), Len(st2) = Len(st), IgnoredIn(g, item.value)
  PROVE  Follows(g, s, m, tb, ks, st2)
<1>1. Alive(s) /\ Closed(s.heap)
  BY DEF Follows
<1>2. Grown(s.heap, s.heap, m[<<"table", st[Len(st)].table>>][2], item.key, Nil)
  <2> DEFINE h == s.heap
             r == m[<<"table", st[Len(st)].table>>][2]
  <2>1. Sequence(h) /\ Len(h) \in Nat
    BY <1>1 DEF Closed
  <2> HIDE DEF h, r
  <2>2. Grown(h, h, r, item.key, Nil)
    BY <2>1 DEF Grown
  <2>3. QED
    BY <2>2 DEF h, r
<1>3. Nil[1] # "table"
  BY DEF Nil
<1>4. QED
  BY <1>1, <1>2, <1>3, PlacedFollows

\* What serialize_kvp does not pass over is to be preserved, unless it cannot be.
NotSkipped(g, v) == IgnoredIn(g, v) => v = Nil \/ (v[1] = "userdata" /\ v[2] \in Failing)

LEMMA ScalarFollows ==
  ASSUME NEW g, NEW s, NEW m, NEW tb, NEW ks, NEW st, NEW st2,
         Preservable(g), Follows(g, s, m, tb, ks, st),
         Len(ks) \in Nat, \A k \in DOMAIN tb : tb[k][2] \in 1 .. Len(ks),
         NEW item \in ItemsIn(g, st[Len(st)]), Moved(st, st2, item.rest), Len(st2) = Len(st),
         NEW text \in serialize_data(item.key), NEW what \in serialize_data(item.value)
  PROVE  Follows(g, Run(s, [name |-> Append(ks[st[Len(st)].parent], text), is |-> "scalar",
                            what |-> what]), m, tb, ks, st2)
<1> DEFINE f == st[Len(st)]
           pn == ks[f.parent]
           l == [name |-> Append(pn, text), is |-> "scalar", what |-> what]
           k == item.key
           v == item.value
           w == ReadText(what)
<1>1. Alive(s) /\ Closed(s.heap) /\ Len(st) \in Nat \ {0}
  BY DEF Follows, Moved
<1>2. PICK r : PlaceOf(g, s, m, ks, f, item, r)
  BY <1>1, ItemPlace
<1>3. /\ m[<<"table", f.table>>] = <<"table", r>> /\ r \in 1 .. Len(s.heap)
      /\ Sequence(pn) /\ Value(s, pn) = <<"table", r>> /\ k \notin DOMAIN s.heap[r]
      /\ ReadText(text) = k /\ k # Nil
      /\ k \in DOMAIN AllOf(g, f.table) /\ v = AllOf(g, f.table)[k] /\ f.table \in Tables
  BY <1>2 DEF PlaceOf, Leads
<1>4. /\ Reads(v, w) /\ v[1] \notin {"table", "userdata", "other"}
      /\ w[1] \notin {"table", "userdata"} /\ v # Nil
  BY <1>3, TextsRead
<1>5. w # Nil /\ Alike(m, v, w) /\ w[1] # "table" /\ ~IgnoredIn(g, v)
  BY <1>4 DEF Reads, Alike, IgnoredIn
<1> HIDE DEF f, pn, k, v, w
<1>6. Places(s, l, r, k, w)
  <2>1. ReadText(text) # Nil /\ ReadText(text) \notin DOMAIN s.heap[r] /\ ReadText(what) # Nil
    BY <1>3, <1>5 DEF w
  <2>2. Places(s, l, r, ReadText(text), ReadText(what))
    BY <1>1, <1>3, <2>1, ScalarPlaces
  <2>3. QED
    BY <2>2, <1>3 DEF w
<1> DEFINE s2 == Run(s, l)
<1>7. Alive(s2) /\ s2.made = s.made /\ Grown(s.heap, s2.heap, m[<<"table", f.table>>][2], k, w)
  <2>1. m[<<"table", f.table>>][2] = r
    BY <1>3
  <2>2. QED
    BY <1>6, <2>1 DEF Places
<1> HIDE DEF s2, l
<1>8. Follows(g, s2, m, tb, ks, st2)
  <2>1. IF IgnoredIn(g, item.value) THEN w = Nil ELSE w # Nil /\ Alike(m, item.value, w)
    BY <1>5 DEF v
  <2>2. Grown(s.heap, s2.heap, m[<<"table", st[Len(st)].table>>][2], item.key, w)
    BY <1>7 DEF f, k
  <2>3. QED
    BY <1>5, <1>7, <2>1, <2>2, PlacedFollows
<1>9. QED
  BY <1>8 DEF s2, l, pn, f

LEMMA AstrayNil ==
  ASSUME NEW g, NEW s, NEW m, NEW st, NEW name, Astray(g, s, m, name),
         Mapped(s, m), ContentHolds(g, s, m, st)
  PROVE  Value(s, name) = Nil
<1>1. PICK pn, text, t :
        /\ name = Append(pn, text) /\ <<"table", t>> \in DOMAIN m
        /\ Leads(s, pn, m[<<"table", t>>]) /\ ReadText(text) \notin DOMAIN ContentOf(g, t)
  BY DEF Astray
<1> DEFINE v == m[<<"table", t>>]
<1>2. v = <<"table", v[2]>>
  BY <1>1 DEF Mapped
<1>3. ReadText(text) \notin DOMAIN s.heap[v[2]]
  BY <1>1 DEF ContentHolds, TableHolds
<1>4. Sequence(pn) /\ Value(s, pn) = v
  BY <1>1 DEF Leads
<1> HIDE DEF v
<1>5. Value(s, name) = Onward(s, v, text)
  BY <1>1, <1>4, ValueAppend
<1>6. Onward(s, v, text) = Entry(s.heap, v[2], ReadText(text))
  BY <1>2, GetEntry DEF Onward
<1>7. QED
  BY <1>3, <1>5, <1>6 DEF Entry

LEMMA AliasFollows ==
  ASSUME NEW g, NEW s, NEW m, NEW tb, NEW ks, NEW st, NEW st2,
         Preservable(g), Follows(g, s, m, tb, ks, st),
         Len(ks) \in Nat, \A k \in DOMAIN tb : tb[k][2] \in 1 .. Len(ks),
         NEW item \in ItemsIn(g, st[Len(st)]), Moved(st, st2, item.rest), Len(st2) = Len(st),
         NEW text \in serialize_data(item.key), NotSkipped(g, item.value),
         NEW i \in DOMAIN tb, tb[i][1] = item.value
  PROVE  Follows(g, Run(s, [name |-> Append(ks[st[Len(st)].parent], text), is |-> "alias",
                            what |-> ks[tb[i][2]]]), m, tb, ks, st2)
<1> DEFINE f == st[Len(st)]
           pn == ks[f.parent]
           what == ks[tb[i][2]]
           l == [name |-> Append(pn, text), is |-> "alias", what |-> what]
           k == item.key
           v == item.value
           w == Value(s, what)
<1>1. /\ Alive(s) /\ Closed(s.heap) /\ Len(st) \in Nat \ {0} /\ Mapped(s, m)
      /\ Entries(g, s, m, tb, ks) /\ ContentHolds(g, s, m, st)
  BY DEF Follows, Moved
<1>2. PICK r : PlaceOf(g, s, m, ks, f, item, r)
  BY <1>1, ItemPlace
<1>3. /\ m[<<"table", f.table>>] = <<"table", r>> /\ r \in 1 .. Len(s.heap)
      /\ Sequence(pn) /\ Value(s, pn) = <<"table", r>> /\ k \notin DOMAIN s.heap[r]
      /\ ReadText(text) = k /\ k # Nil
  BY <1>2 DEF PlaceOf, Leads
<1>4. EntryHolds(g, s, m, ks, tb[i])
  BY <1>1 DEF Entries
<1>5. /\ IF IgnoredIn(g, v) THEN w = Nil ELSE w # Nil /\ Alike(m, v, w)
      /\ w[1] = "table" => w[2] \in 1 .. Len(s.heap)
  <2>1. CASE Unwritable(tb[i])
    <3>1. v[1] = "userdata" /\ v[2] \in Failing /\ Astray(g, s, m, what)
      BY <2>1, <1>4 DEF Unwritable, EntryHolds
    <3>2. IgnoredIn(g, v)
      BY <3>1 DEF IgnoredIn
    <3>3. w = Nil
      BY <3>1, <1>1, AstrayNil
    <3>4. QED
      BY <3>2, <3>3 DEF Nil
  <2>2. CASE ~Unwritable(tb[i])
    <3>1. v \in DOMAIN m /\ w = m[v]
      BY <2>2, <1>4 DEF EntryHolds, Leads
    <3>2. /\ v[1] \in {"table", "userdata"} /\ v # Nil
          /\ (v[1] = "userdata" => v[2] \notin Failing)
          /\ (w[1] = "table" => w[2] \in 1 .. Len(s.heap))
      <4>1. \/ /\ v = <<"table", v[2]>> /\ w = <<"table", w[2]>> /\ w[2] \in 1 .. Len(s.heap)
            \/ /\ v[1] = "userdata" /\ v[2] \notin Failing /\ w = <<"userdata", w[2]>>
        BY <3>1, <1>1 DEF Mapped
      <4> HIDE DEF v, w
      <4>2. CASE v = <<"table", v[2]>> /\ w[2] \in 1 .. Len(s.heap)
        <5>1. v[1] = "table"
          BY <4>2
        <5>2. QED
          BY <4>2, <5>1 DEF Nil
      <4>3. CASE v[1] = "userdata" /\ v[2] \notin Failing /\ w = <<"userdata", w[2]>>
        <5>1. w[1] = "userdata"
          BY <4>3
        <5>2. QED
          BY <4>3, <5>1 DEF Nil
      <4>4. QED
        BY <4>1, <4>2, <4>3
    <3>3. w # Nil
      BY <3>1, <1>1, MappedNotNil
    <3>4. ~IgnoredIn(g, v) /\ Alike(m, v, w)
      BY <3>1, <3>2 DEF NotSkipped, Alike
    <3>5. QED
      BY <3>2, <3>3, <3>4
  <2>3. QED
    BY <2>1, <2>2
<1> HIDE DEF f, pn, k, v, w, what
<1>6. Places(s, l, r, k, w)
  <2>1. ReadText(text) # Nil /\ ReadText(text) \notin DOMAIN s.heap[r]
    BY <1>3
  <2>2. Places(s, l, r, ReadText(text), Value(s, what))
    BY <1>1, <1>3, <2>1, AliasPlaces
  <2>3. QED
    BY <2>2, <1>3 DEF w
<1> DEFINE s2 == Run(s, l)
<1>7. Alive(s2) /\ s2.made = s.made /\ Grown(s.heap, s2.heap, m[<<"table", f.table>>][2], k, w)
  <2>1. m[<<"table", f.table>>][2] = r
    BY <1>3
  <2>2. QED
    BY <1>6, <2>1 DEF Places
<1> HIDE DEF s2, l
<1>8. w[1] = "table" => w[2] \in 1 .. Len(s2.heap)
  <2>1. Len(s.heap) \in Nat /\ Len(s2.heap) \in Nat /\ Len(s2.heap) >= Len(s.heap)
    BY <1>1, <1>7, SequenceLen DEF Closed, Grown
  <2>2. QED
    BY <1>5, <2>1
<1>9. Follows(g, s2, m, tb, ks, st2)
  <2>1. IF IgnoredIn(g, item.value) THEN w = Nil ELSE w # Nil /\ Alike(m, item.value, w)
    BY <1>5 DEF v
  <2>2. Grown(s.heap, s2.heap, m[<<"table", st[Len(st)].table>>][2], item.key, w)
    BY <1>7 DEF f, k
  <2>3. QED
    BY <1>7, <1>8, <2>1, <2>2, PlacedFollows
<1>10. QED
  BY <1>9 DEF s2, l, pn, f, what

LEMMA EntriesMore ==
  ASSUME NEW g, NEW s, NEW m, NEW tb, NEW ks, NEW e, Sequence(tb),
         Entries(g, s, m, tb, ks), EntryHolds(g, s, m, ks, e)
  PROVE  Entries(g, s, m, Append(tb, e), ks)
<1> DEFINE tc == Append(tb, e)
<1>1. /\ Sequence(tc) /\ Len(tc) = Len(tb) + 1
      /\ (\A i \in 1 .. Len(tb) : tc[i] = tb[i]) /\ tc[Len(tb) + 1] = e
  BY SequenceAppend
<1>2. DOMAIN tb = 1 .. Len(tb) /\ Len(tb) \in Nat
  BY SequenceLen
<1> HIDE DEF tc
<1>3. DOMAIN tc = 1 .. Len(tb) + 1
  BY <1>1, SequenceLen
<1>4. \A i \in DOMAIN tc : tc[i] = e \/ \E j \in DOMAIN tb : tc[i] = tb[j]
  <2> TAKE i \in DOMAIN tc
  <2>1. i \in 1 .. Len(tb) \/ i = Len(tb) + 1
    BY <1>2, <1>3
  <2>2. QED
    BY <2>1, <1>1, <1>2
<1>5. QED
  BY <1>4 DEF Entries, tc

LEMMA KnownMore ==
  ASSUME NEW m, NEW m2, NEW tb, NEW e, Sequence(tb), Known(m, tb),
         DOMAIN m2 \subseteq DOMAIN m \cup {e[1]}
  PROVE  Known(m2, Append(tb, e))
<1> DEFINE tc == Append(tb, e)
<1>1. /\ Sequence(tc) /\ Len(tc) = Len(tb) + 1
      /\ (\A i \in 1 .. Len(tb) : tc[i] = tb[i]) /\ tc[Len(tb) + 1] = e
  BY SequenceAppend
<1>2. DOMAIN tb = 1 .. Len(tb) /\ Len(tb) \in Nat
  BY SequenceLen
<1> HIDE DEF tc
<1>3. DOMAIN tc = 1 .. Len(tb) + 1
  BY <1>1, SequenceLen
<1>4. (\A j \in DOMAIN tb : j \in DOMAIN tc /\ tc[j] = tb[j]) /\ Len(tb) + 1 \in DOMAIN tc
  BY <1>1, <1>2, <1>3
<1>5. QED
  BY <1>1, <1>4 DEF Known, tc

\* What is made for the new value v
Fits(s, s2, v, w) ==
  \/ /\ v = <<"table", v[2]>> /\ v[2] \in Tables
     /\ w = <<"table", Len(s.heap) + 1>> /\ Len(s2.heap) = Len(s.heap) + 1 /\ s2.made = s.made
  \/ /\ v[1] = "userdata" /\ v[2] \notin Failing
     /\ w = <<"userdata", <<v[2], s.made>> >> /\ s2.made = s.made + 1

With(m, v, w) == [x \in DOMAIN m \cup {v} |-> IF x = v THEN w ELSE m[x]]

LEMMA MappedMore ==
  ASSUME NEW s, NEW s2, NEW m, NEW v, NEW w, Mapped(s, m), v \notin DOMAIN m,
         Len(s.heap) \in Nat, Len(s2.heap) \in Nat, Len(s2.heap) >= Len(s.heap), s.made \in Nat,
         Fits(s, s2, v, w)
  PROVE  Mapped(s2, With(m, v, w))
<1> DEFINE m2 == With(m, v, w)
           a == Len(s.heap)
           b == Len(s2.heap)
<1>1. DOMAIN m2 = DOMAIN m \cup {v} /\ m2[v] = w /\ \A x \in DOMAIN m : m2[x] = m[x]
  BY DEF With
<1> HIDE DEF m2
<1>2. a \in Nat /\ b \in Nat /\ a <= b /\ s.made \in Nat /\ s2.made \in Nat /\ s.made <= s2.made
  BY DEF Fits
<1>3. Mapped(s2, m)
  BY <1>2, MappedOn
<1>4. \/ /\ v = <<"table", v[2]>> /\ v[2] \in Tables
         /\ w = <<"table", w[2]>> /\ w[2] \in 1 .. b
      \/ /\ v[1] = "userdata" /\ v[2] \notin Failing
         /\ w = <<"userdata", w[2]>> /\ w[2][2] \in 0 .. s2.made - 1
  <2>1. CASE /\ v = <<"table", v[2]>> /\ v[2] \in Tables
             /\ w = <<"table", a + 1>> /\ b = a + 1
    <3> HIDE DEF a, b
    <3>1. w[2] = a + 1 /\ w = <<"table", w[2]>> /\ a + 1 \in 1 .. b
      BY <2>1, <1>2
    <3>2. QED
      BY <2>1, <3>1
  <2>2. CASE /\ v[1] = "userdata" /\ v[2] \notin Failing
             /\ w = <<"userdata", <<v[2], s.made>> >> /\ s2.made = s.made + 1
    <3>1. w[2] = <<v[2], s.made>> /\ w = <<"userdata", w[2]>>
      BY <2>2
    <3>2. w[2][2] = s.made
      BY <3>1
    <3>3. s.made \in 0 .. s2.made - 1
      BY <2>2
    <3>4. QED
      BY <2>2, <3>1, <3>2, <3>3
  <2>3. QED
    BY <2>1, <2>2 DEF Fits
<1>5. ASSUME NEW x \in DOMAIN m PROVE m[x] # w
  <2>1. \/ m[x] = <<"table", m[x][2]>> /\ m[x][2] \in 1 .. a
        \/ m[x] = <<"userdata", m[x][2]>> /\ m[x][2][2] \in 0 .. s.made - 1
    BY DEF Mapped
  <2>2. \/ w = <<"table", a + 1>>
        \/ w = <<"userdata", <<v[2], s.made>> >>
    BY DEF Fits
  <2> HIDE DEF a
  <2>3. CASE w = <<"table", a + 1>>
    <3>1. w[1] = "table" /\ w[2] = a + 1
      BY <2>3
    <3>2. a + 1 \notin 1 .. a
      BY <1>2
    <3>3. <<"userdata", m[x][2]>>[1] = "userdata"
      OBVIOUS
    <3>4. QED
      BY <2>1, <3>1, <3>2, <3>3
  <2>4. CASE w = <<"userdata", <<v[2], s.made>> >>
    <3>1. w[1] = "userdata" /\ w[2] = <<v[2], s.made>>
      BY <2>4
    <3>2. w[2][2] = s.made
      BY <3>1
    <3>3. s.made \notin 0 .. s.made - 1
      OBVIOUS
    <3>4. <<"table", m[x][2]>>[1] = "table"
      OBVIOUS
    <3>5. QED
      BY <2>1, <3>1, <3>2, <3>3, <3>4
  <2>5. QED
    BY <2>2, <2>3, <2>4
<1>6. Root \in DOMAIN m2 /\ m2[Root] = <<"table", 1>>
  BY <1>1 DEF Mapped
<1>7. ASSUME NEW x \in DOMAIN m2
      PROVE  \/ /\ x = <<"table", x[2]>> /\ x[2] \in Tables
                /\ m2[x] = <<"table", m2[x][2]>> /\ m2[x][2] \in 1 .. b
             \/ /\ x[1] = "userdata" /\ x[2] \notin Failing
                /\ m2[x] = <<"userdata", m2[x][2]>> /\ m2[x][2][2] \in 0 .. s2.made - 1
  <2>1. CASE x \in DOMAIN m
    <3>1. m2[x] = m[x]
      BY <2>1, <1>1
    <3>2. QED
      BY <2>1, <3>1, <1>3 DEF Mapped
  <2>2. CASE x = v
    <3>1. m2[x] = w
      BY <2>2, <1>1
    <3> HIDE DEF b
    <3>2. QED
      BY <2>2, <3>1, <1>4
  <2>3. QED
    BY <1>1, <2>1, <2>2
<1>8. ASSUME NEW x \in DOMAIN m2, NEW y \in DOMAIN m2, m2[x] = m2[y] PROVE x = y
  <2>1. \A z \in DOMAIN m2 : z \in DOMAIN m \/ z = v
    BY <1>1
  <2>2. \A z, u \in DOMAIN m : m[z] = m[u] => z = u
    BY DEF Mapped
  <2>3. QED
    BY <2>1, <2>2, <1>1, <1>5, <1>8
<1>9. Mapped(s2, m2)
  BY <1>6, <1>7, <1>8 DEF Mapped
<1>10. QED
  BY <1>9 DEF m2

\* The table that may be on top now is v, and nothing of its content is there yet.
EntersOnly(g, st, st2, v, n) ==
  /\ v[1] = "table" /\ Len(st2) = Len(st) =>
       \A x : x \notin DOMAIN ContentOf(g, v[2])
  /\ Len(st2) > Len(st) =>
       /\ FrameIn(g, st2[Len(st) + 1]) /\ v = <<"table", st2[Len(st) + 1].table>>
       /\ st2[Len(st) + 1].parent = n
       /\ DOMAIN ContentOf(g, v[2]) \subseteq Left(g, st2[Len(st) + 1])

\* A table or userdata is made, and gets a name.
LEMMA NewFollows ==
  ASSUME NEW g, NEW s, NEW s2, NEW m, NEW tb, NEW ks, NEW st, NEW st2, NEW w,
         Preservable(g), Follows(g, s, m, tb, ks, st),
         Sequence(tb), Sequence(ks), \A k \in DOMAIN tb : tb[k][2] \in 1 .. Len(ks),
         NEW item \in ItemsIn(g, st[Len(st)]), Moved(st, st2, item.rest),
         NEW text \in serialize_data(item.key),
         \A i \in DOMAIN tb : tb[i][1] # item.value, item.value # Root,
         ~IgnoredIn(g, item.value), Alive(s2), Fits(s, s2, item.value, w),
         Grown(s.heap, s2.heap, m[<<"table", st[Len(st)].table>>][2], item.key, w),
         EntersOnly(g, st, st2, item.value, Len(ks) + 1)
  PROVE  LET name == Append(ks[st[Len(st)].parent], text)
         IN  \E m2 : Follows(g, s2, m2, Append(tb, <<item.value, Len(Append(ks, name))>>),
                             Append(ks, name), st2)
<1> DEFINE n == Len(st)
           f == st[n]
           pn == ks[f.parent]
           name == Append(pn, text)
           k == item.key
           v == item.value
           ks2 == Append(ks, name)
           e == <<v, Len(ks2)>>
           m2 == With(m, v, w)
<1>1. /\ Alive(s) /\ Closed(s.heap) /\ n \in Nat \ {0} /\ Mapped(s, m) /\ s.made \in Nat
      /\ Entries(g, s, m, tb, ks) /\ Known(m, tb)
  BY DEF Follows, Moved
<1>2. PICK r : PlaceOf(g, s, m, ks, f, item, r)
  BY <1>1, ItemPlace
<1>3. /\ m[<<"table", f.table>>] = <<"table", r>> /\ r \in 1 .. Len(s.heap)
      /\ Leads(s, pn, <<"table", r>>) /\ ReadText(text) = k /\ f.parent \in 1 .. Len(ks)
  BY <1>2 DEF PlaceOf
<1>4. v \notin DOMAIN m
  BY <1>1 DEF Known
<1>5. /\ Len(s.heap) \in Nat /\ Len(s2.heap) \in Nat /\ Len(s2.heap) >= Len(s.heap)
      /\ s2.made \in Nat
  BY <1>1, SequenceLen DEF Closed, Grown, Fits
<1>6. Mapped(s2, m2)
  <2> HIDE DEF v
  <2>1. Fits(s, s2, v, w)
    BY DEF v
  <2>2. QED
    BY <1>1, <1>4, <1>5, <2>1, MappedMore
<1>7. DOMAIN m2 = DOMAIN m \cup {v} /\ m2[v] = w /\ \A x \in DOMAIN m : m2[x] = m[x]
  <2> HIDE DEF v
  <2>1. QED
    BY <1>4 DEF With
<1> HIDE DEF m2
<1>8. Larger(m, m2)
  BY <1>7 DEF Larger
<1>9. Later(s, s2)
  <2>1. Extends(s.heap, s2.heap)
    BY GrownExtends
  <2>2. QED
    BY <2>1, <1>1 DEF Later
<1>10. /\ Sequence(ks2) /\ Len(ks) \in Nat /\ Len(ks2) = Len(ks) + 1 /\ ks2[Len(ks2)] = name
       /\ \A i \in 1 .. Len(ks) : ks2[i] = ks[i]
  BY SequenceAppend, SequenceLen
<1>11. e[1] = v /\ e[2] = Len(ks2)
  OBVIOUS
<1> HIDE DEF ks2, e
<1>12. w # Nil /\ Alike(m2, v, w) /\ (w[1] = "table" => w[2] \in 1 .. Len(s2.heap))
  <2>1. CASE /\ v = <<"table", v[2]>>
             /\ w = <<"table", Len(s.heap) + 1>> /\ Len(s2.heap) = Len(s.heap) + 1
    <3>1. w[2] = Len(s.heap) + 1 /\ w # Nil
      BY <2>1 DEF Nil
    <3>2. w[2] \in 1 .. Len(s2.heap)
      BY <2>1, <3>1, <1>5
    <3>3. v \in DOMAIN m2 /\ w = m2[v] /\ v[1] = "table"
      BY <1>7, <2>1
    <3>4. QED
      BY <3>1, <3>2, <3>3 DEF Alike
  <2>2. CASE v[1] = "userdata" /\ w = <<"userdata", <<v[2], s.made>> >>
    <3>1. w[1] = "userdata" /\ w # Nil
      BY <2>2 DEF Nil
    <3>2. v \in DOMAIN m2 /\ w = m2[v]
      BY <1>7
    <3>3. QED
      BY <2>2, <3>1, <3>2 DEF Alike
  <2>3. QED
    BY <2>1, <2>2 DEF Fits
<1>13. Leads(s2, name, w)
  <2>1. <<"table", r>> # Nil
    BY DEF Nil
  <2>2. Leads(s2, pn, <<"table", r>>)
    <3> HIDE DEF pn
    <3>1. QED
      BY <1>3, <1>9, <2>1, LeadsOn
  <2>3. Sequence(pn) /\ Value(s2, pn) = <<"table", r>>
    BY <2>2 DEF Leads
  <2>4. Grown(s.heap, s2.heap, r, k, w)
    <3>1. m[<<"table", st[Len(st)].table>>][2] = r
      BY <1>3
    <3>2. QED
      BY <3>1
  <2>5. k \in DOMAIN s2.heap[r] /\ s2.heap[r][k] = w
    <3> HIDE DEF k
    <3>1. QED
      BY <2>4, <1>12 DEF Grown
  <2> HIDE DEF pn, k
  <2>6. Value(s2, name) = Onward(s2, <<"table", r>>, text)
    BY <2>3, ValueAppend
  <2>7. Onward(s2, <<"table", r>>, text) = Entry(s2.heap, r, k)
    BY <1>3, GetEntry DEF Onward
  <2>8. Value(s2, name) = w
    BY <2>5, <2>6, <2>7 DEF Entry
  <2>9. Sequence(name)
    BY <2>3, SequenceAppend
  <2>10. QED
    BY <2>8, <2>9 DEF Leads
<1>14. Entries(g, s2, m2, Append(tb, e), ks2)
  <2>1. Entries(g, s2, m2, tb, ks2)
    BY <1>1, <1>8, <1>9, <1>10, EntriesOn
  <2>2. ~Unwritable(e)
    BY <1>11 DEF Unwritable, Fits
  <2>3. EntryHolds(g, s2, m2, ks2, e)
    BY <1>7, <1>10, <1>11, <1>13, <2>2 DEF EntryHolds
  <2>4. QED
    BY <2>1, <2>3, EntriesMore
<1>15. Known(m2, Append(tb, e))
  BY <1>1, <1>7, <1>11, KnownMore
<1>16. Len(st2) > Len(st) =>
           /\ FrameHolds(g, s2, m2, ks2, st2[Len(st) + 1])
           /\ <<"table", st2[Len(st) + 1].table>> \notin DOMAIN m
  <2> SUFFICES ASSUME Len(st2) > Len(st)
               PROVE  /\ FrameHolds(g, s2, m2, ks2, st2[Len(st) + 1])
                      /\ <<"table", st2[Len(st) + 1].table>> \notin DOMAIN m
    OBVIOUS
  <2> DEFINE d == st2[Len(st) + 1]
  <2>1. FrameIn(g, d) /\ v = <<"table", d.table>> /\ d.parent = Len(ks) + 1
    BY DEF EntersOnly
  <2> HIDE DEF d, v, name
  <2>2. d.parent \in 1 .. Len(ks2) /\ ks2[d.parent] = name
    BY <2>1, <1>10
  <2>3. <<"table", d.table>> \in DOMAIN m2 /\ m2[<<"table", d.table>>] = w
    BY <2>1, <1>7
  <2>4. FrameHolds(g, s2, m2, ks2, d)
    BY <2>1, <2>2, <2>3, <1>13 DEF FrameHolds
  <2>5. QED
    BY <2>1, <2>4, <1>4 DEF d
<1>17. ASSUME NEW t, <<"table", t>> \in DOMAIN m2 \ DOMAIN m
       PROVE  /\ m2[<<"table", t>>][2] \in Len(s.heap) + 1 .. Len(s2.heap)
              /\ \A x \in DOMAIN ContentOf(g, t) : Pending(g, st2, t, x)
  <2>1. v = <<"table", t>>
    BY <1>7, <1>17
  <2>2. v[1] = "table" /\ v[2] = t
    BY <2>1
  <2>3. w = <<"table", Len(s.heap) + 1>> /\ Len(s2.heap) = Len(s.heap) + 1
    BY <2>2 DEF Fits
  <2>4. m2[<<"table", t>>][2] \in Len(s.heap) + 1 .. Len(s2.heap)
    <3>1. m2[<<"table", t>>] = w /\ w[2] = Len(s.heap) + 1
      BY <1>7, <2>1, <2>3
    <3>2. QED
      BY <3>1, <2>3, <1>5
  <2>5. \A x \in DOMAIN ContentOf(g, t) : Pending(g, st2, t, x)
    <3> DEFINE d == st2[Len(st) + 1]
    <3>1. CASE Len(st2) = Len(st)
      BY <2>2, <3>1 DEF EntersOnly
    <3>2. CASE Len(st2) # Len(st)
      <4>1. Len(st2) = Len(st) + 1 /\ Len(st2) > Len(st) /\ Len(st) + 1 \in DOMAIN st2
        <5> DEFINE p == Len(st2)
        <5>1. p \in {n, n + 1} /\ p # n /\ n \in Nat /\ DOMAIN st2 = 1 .. p /\ p \in Nat
          BY <1>1, <3>2, SequenceLen DEF Moved
        <5> HIDE DEF p, n
        <5>2. p = n + 1 /\ p > n /\ n + 1 \in 1 .. p
          BY <5>1
        <5>3. QED
          BY <5>1, <5>2 DEF p, n
      <4>2. DOMAIN ContentOf(g, t) \subseteq Left(g, d) /\ <<"table", d.table>> = <<"table", t>>
        BY <2>1, <2>2, <4>1 DEF EntersOnly
      <4>3. d.table = t
        BY <4>2
      <4>4. QED
        BY <4>1, <4>2, <4>3 DEF Pending
    <3>3. QED
      BY <3>1, <3>2
  <2>6. QED
    BY <2>4, <2>5
<1>18. Len(ks2) \in Nat /\ Len(ks2) >= Len(ks)
  BY <1>10
<1>19. IF IgnoredIn(g, item.value) THEN w = Nil ELSE w # Nil /\ Alike(m2, item.value, w)
  BY <1>12
<1>20. w[1] = "table" => w[2] \in 1 .. Len(s2.heap)
  BY <1>12
<1>21. Follows(g, s2, m2, Append(tb, e), ks2, st2)
  <2> HIDE DEF n, f, pn, name, k, v
  <2>1. QED
    BY <1>5, <1>6, <1>8, <1>10, <1>14, <1>15, <1>16, <1>17, <1>18, <1>19, <1>20, ItemFollows
<1>22. QED
  BY <1>21 DEF e, ks2

LEMMA ValueShape ==
  ASSUME NEW g, Preservable(g), NEW t \in Tables, NEW k \in DOMAIN AllOf(g, t), NEW v,
         v = AllOf(g, t)[k]
  PROVE  v = <<v[1], v[2]>> /\ (v[1] = "table" => v[2] \in Tables)
<1>1. v \in {g[t].array[i] : i \in DOMAIN g[t].array} \cup {g[t].hash[x] : x \in DOMAIN g[t].hash}
  <2>1. DOMAIN g[t].array = 1 .. Len(g[t].array)
    BY DEF Preservable
  <2>2. CASE k \in DOMAIN g[t].hash
    BY <2>2, AllOfIs
  <2>3. CASE k \notin DOMAIN g[t].hash
    <3>1. PICK i \in 1 .. Len(g[t].array) : k = <<"number", i * Unit>>
      BY <2>3, AllOfIs
    <3>2. v = g[t].array[i]
      BY <3>1, AllOfIs
    <3>3. QED
      BY <3>2, <2>1
  <2>4. QED
    BY <2>2, <2>3
<1>2. QED
  BY <1>1 DEF Preservable

LEMMA TableFollows ==
  ASSUME NEW g, NEW s, NEW m, NEW tb, NEW ks, NEW st, NEW st2,
         Preservable(g), Follows(g, s, m, tb, ks, st),
         Sequence(tb), Sequence(ks), \A k \in DOMAIN tb : tb[k][2] \in 1 .. Len(ks),
         NEW item \in ItemsIn(g, st[Len(st)]), Moved(st, st2, item.rest),
         NEW text \in serialize_data(item.key), NEW what, NEW name,
         name = Append(ks[st[Len(st)].parent], text),
         \A i \in DOMAIN tb : tb[i][1] # item.value,
         NotSkipped(g, item.value), item.value[1] = "table",
         EntersOnly(g, st, st2, item.value, Len(ks) + 1)
  PROVE  \E m2 : Follows(g, Run(s, [name |-> name, is |-> "table", what |-> what]), m2,
                         Append(tb, <<item.value, Len(Append(ks, name))>>), Append(ks, name), st2)
<1> DEFINE f == st[Len(st)]
           pn == ks[f.parent]
           l == [name |-> Append(pn, text), is |-> "table", what |-> what]
           k == item.key
           v == item.value
           w == <<"table", Len(s.heap) + 1>>
           s2 == Run(s, l)
<1>1. Alive(s) /\ Closed(s.heap) /\ Len(st) \in Nat \ {0}
  BY DEF Follows, Moved
<1>2. PICK r : PlaceOf(g, s, m, ks, f, item, r)
  BY <1>1, ItemPlace
<1>3. /\ m[<<"table", f.table>>] = <<"table", r>> /\ r \in 1 .. Len(s.heap)
      /\ Sequence(pn) /\ Value(s, pn) = <<"table", r>> /\ k \notin DOMAIN s.heap[r]
      /\ ReadText(text) = k /\ k # Nil
      /\ k \in DOMAIN AllOf(g, f.table) /\ v = AllOf(g, f.table)[k] /\ f.table \in Tables
  BY <1>2 DEF PlaceOf, Leads
<1>4. v = <<"table", v[2]>> /\ v[2] \in Tables
  BY <1>3, ValueShape
<1> HIDE DEF k, v
<1>5. ~IgnoredIn(g, v) /\ v # Root
  <2>1. v # Nil /\ v[1] = "table"
    BY <1>4 DEF Nil, v
  <2>2. ~IgnoredIn(g, v)
    BY <2>1 DEF NotSkipped, v
  <2>3. v[2] # Globals
    BY <2>1, <2>2 DEF IgnoredIn
  <2>4. QED
    BY <2>2, <2>3 DEF Root
<1> HIDE DEF f, pn
<1>6. Places(s, l, r, k, w) /\ Len(Run(s, l).heap) = Len(s.heap) + 1
  <2>1. ReadText(text) # Nil /\ ReadText(text) \notin DOMAIN s.heap[r]
    BY <1>3
  <2>2. Places(s, l, r, ReadText(text), w) /\ Len(Run(s, l).heap) = Len(s.heap) + 1
    BY <1>1, <1>3, <2>1, TablePlaces
  <2>3. QED
    BY <2>2, <1>3
<1>7. /\ Alive(s2) /\ s2.made = s.made /\ Len(s2.heap) = Len(s.heap) + 1
      /\ Grown(s.heap, s2.heap, m[<<"table", f.table>>][2], k, w)
  <2>1. m[<<"table", f.table>>][2] = r
    BY <1>3
  <2> HIDE DEF w, l
  <2>2. QED
    BY <1>6, <2>1 DEF Places
<1> HIDE DEF l, w, s2
<1>8. Fits(s, s2, v, w)
  BY <1>4, <1>7 DEF Fits, w
<1>9. Grown(s.heap, s2.heap, m[<<"table", st[Len(st)].table>>][2], item.key, w)
  BY <1>7 DEF f, k
<1>10. Fits(s, s2, item.value, w) /\ ~IgnoredIn(g, item.value) /\ item.value # Root
  BY <1>5, <1>8 DEF v
<1>11. \E m2 : Follows(g, s2, m2, Append(tb, <<item.value, Len(Append(ks, name))>>),
                       Append(ks, name), st2)
  BY <1>7, <1>9, <1>10, NewFollows
<1>12. l = [name |-> name, is |-> "table", what |-> what]
  BY DEF l, pn, f
<1>13. QED
  BY <1>11, <1>12 DEF s2

LEMMA UserdataFollows ==
  ASSUME NEW g, NEW s, NEW m, NEW tb, NEW ks, NEW st, NEW st2,
         Preservable(g), Follows(g, s, m, tb, ks, st),
         Sequence(tb), Sequence(ks), \A k \in DOMAIN tb : tb[k][2] \in 1 .. Len(ks),
         NEW item \in ItemsIn(g, st[Len(st)]), Moved(st, st2, item.rest), Len(st2) = Len(st),
         NEW text \in serialize_data(item.key), NEW name,
         name = Append(ks[st[Len(st)].parent], text),
         \A i \in DOMAIN tb : tb[i][1] # item.value,
         NotSkipped(g, item.value), item.value[1] = "userdata", item.value[2] \notin Failing
  PROVE  \E m2 : Follows(g, Run(s, [name |-> name, is |-> "userdata", what |-> item.value[2]]), m2,
                         Append(tb, <<item.value, Len(Append(ks, name))>>), Append(ks, name), st2)
<1> DEFINE f == st[Len(st)]
           pn == ks[f.parent]
           k == item.key
           v == item.value
           l == [name |-> Append(pn, text), is |-> "userdata", what |-> v[2]]
           w == <<"userdata", <<v[2], s.made>> >>
           s2 == Run(s, l)
<1>1. Alive(s) /\ Closed(s.heap) /\ Len(st) \in Nat \ {0} /\ s.made \in Nat
  BY DEF Follows, Moved
<1>2. PICK r : PlaceOf(g, s, m, ks, f, item, r)
  BY <1>1, ItemPlace
<1>3. /\ m[<<"table", f.table>>] = <<"table", r>> /\ r \in 1 .. Len(s.heap)
      /\ Sequence(pn) /\ Value(s, pn) = <<"table", r>> /\ k \notin DOMAIN s.heap[r]
      /\ ReadText(text) = k /\ k # Nil
  BY <1>2 DEF PlaceOf, Leads
<1> HIDE DEF k, v
<1>4. v[1] = "userdata" /\ v[2] \notin Failing /\ v # Nil /\ v # Root /\ ~IgnoredIn(g, v)
  <2>1. v[1] = "userdata" /\ v[2] \notin Failing
    BY DEF v
  <2>2. v # Nil /\ v # Root
    BY <2>1 DEF Nil, Root
  <2>3. QED
    BY <2>1, <2>2 DEF NotSkipped, v
<1> HIDE DEF f, pn
<1>5. /\ Alive(s2) /\ s2.made = s.made + 1 /\ Grown(s.heap, s2.heap, r, k, w)
  <2>1. ReadText(text) # Nil /\ ReadText(text) \notin DOMAIN s.heap[r]
    BY <1>3
  <2>2. Alive(s2) /\ s2.made = s.made + 1 /\ Grown(s.heap, s2.heap, r, ReadText(text), w)
    BY <1>1, <1>3, <2>1, UserdataPlaces
  <2>3. QED
    BY <2>2, <1>3
<1> HIDE DEF l, w, s2
<1>6. Grown(s.heap, s2.heap, m[<<"table", f.table>>][2], k, w)
  <2>1. m[<<"table", f.table>>][2] = r
    BY <1>3
  <2>2. QED
    BY <1>5, <2>1
<1>7. Fits(s, s2, v, w)
  BY <1>4, <1>5 DEF Fits, w
<1>8. Grown(s.heap, s2.heap, m[<<"table", st[Len(st)].table>>][2], item.key, w)
  BY <1>6 DEF f, k
<1>9. Fits(s, s2, item.value, w) /\ ~IgnoredIn(g, item.value) /\ item.value # Root
  BY <1>4, <1>7 DEF v
<1>10. EntersOnly(g, st, st2, item.value, Len(ks) + 1)
  <2>1. ~(Len(st2) > Len(st))
    BY <1>1
  <2>2. QED
    BY <2>1 DEF EntersOnly
<1>11. \E m2 : Follows(g, s2, m2, Append(tb, <<item.value, Len(Append(ks, name))>>),
                       Append(ks, name), st2)
  BY <1>5, <1>8, <1>9, <1>10, NewFollows
<1>12. l = [name |-> name, is |-> "userdata", what |-> item.value[2]]
  BY DEF l, pn, f, v
<1>13. QED
  BY <1>11, <1>12 DEF s2

\* Userdata that cannot be written gets a name as well.
LEMMA FailingFollows ==
  ASSUME NEW g, NEW s, NEW m, NEW tb, NEW ks, NEW st, NEW st2,
         Preservable(g), Follows(g, s, m, tb, ks, st),
         Sequence(tb), Sequence(ks), \A k \in DOMAIN tb : tb[k][2] \in 1 .. Len(ks),
         NEW item \in ItemsIn(g, st[Len(st)]), Moved(st, st2, item.rest), Len(st2) = Len(st),
         NEW text \in serialize_data(item.key), NEW name,
         name = Append(ks[st[Len(st)].parent], text),
         item.value[1] = "userdata", item.value[2] \in Failing
  PROVE  Follows(g, s, m, Append(tb, <<item.value, Len(Append(ks, name))>>), Append(ks, name), st2)
<1> DEFINE f == st[Len(st)]
           pn == ks[f.parent]
           ks2 == Append(ks, name)
           e == <<item.value, Len(ks2)>>
           v == item.value
<1>1. /\ Alive(s) /\ Closed(s.heap) /\ Len(st) \in Nat \ {0} /\ Mapped(s, m) /\ Known(m, tb)
      /\ Entries(g, s, m, tb, ks) /\ s.made \in Nat
  BY DEF Follows, Moved
<1>2. PICK r : PlaceOf(g, s, m, ks, f, item, r)
  BY <1>1, ItemPlace
<1>3. IgnoredIn(g, v)
  BY DEF IgnoredIn
<1>4. Astray(g, s, m, name)
  <2>1. /\ <<"table", f.table>> \in DOMAIN m /\ Leads(s, pn, m[<<"table", f.table>>])
        /\ ReadText(text) \notin DOMAIN ContentOf(g, f.table)
    BY <1>2, <1>3 DEF PlaceOf
  <2>2. name = Append(pn, text)
    OBVIOUS
  <2>3. QED
    BY <2>1, <2>2 DEF Astray
<1>5. /\ Sequence(ks2) /\ Len(ks) \in Nat /\ Len(ks2) = Len(ks) + 1 /\ ks2[Len(ks2)] = name
      /\ \A i \in 1 .. Len(ks) : ks2[i] = ks[i]
  BY SequenceAppend, SequenceLen
<1>6. e[1] = v /\ e[2] = Len(ks2)
  OBVIOUS
<1> HIDE DEF ks2, e
<1>7. Unwritable(e)
  BY <1>6 DEF Unwritable
<1>8. EntryHolds(g, s, m, ks2, e)
  BY <1>4, <1>5, <1>6, <1>7 DEF EntryHolds
<1>9. Larger(m, m) /\ Later(s, s)
  BY <1>1 DEF Larger, Later, Extends
<1>10. Entries(g, s, m, tb, ks2)
  BY <1>1, <1>5, <1>9, EntriesOn
<1>11. Entries(g, s, m, Append(tb, e), ks2)
  BY <1>8, <1>10, EntriesMore
<1>12. Known(m, Append(tb, e))
  BY <1>1, KnownMore
<1>13. Follows(g, s, m, tb, ks, st2)
  BY <1>3, <1>5, SkippedFollows
<1>14. FramesHold(g, s, m, ks2, st2)
  <2>1. FramesHold(g, s, m, ks, st2)
    BY <1>13 DEF Follows
  <2>2. Len(ks2) \in Nat /\ Len(ks2) >= Len(ks)
    BY <1>5
  <2>3. \A i \in DOMAIN st2 : FrameHolds(g, s, m, ks2, st2[i])
    BY <1>1, <1>5, <1>9, <2>1, <2>2, FrameOn DEF FramesHold
  <2>4. QED
    BY <2>1, <2>3 DEF FramesHold
<1>15. Follows(g, s, m, Append(tb, e), ks2, st2)
  BY <1>11, <1>12, <1>13, <1>14 DEF Follows
<1>16. QED
  BY <1>15 DEF e, ks2

-------------------------------------------------------------------------------
(* The stack *)

LEMMA FrontIs ==
  ASSUME NEW st, Sequence(st), st # <<>>
  PROVE  /\ Sequence(Front(st)) /\ Len(Front(st)) = Len(st) - 1 /\ Len(st) \in Nat \ {0}
         /\ \A i \in 1 .. Len(st) - 1 : Front(st)[i] = st[i]
         /\ Last(st) = st[Len(st)]
<1> DEFINE S == {st[i] : i \in DOMAIN st}
           n == Len(st) - 1
           z == SubSeq(st, 1, n)
<1>1. st \in Seq(S)
  BY DEF Sequence
<1> HIDE DEF S
<1>2. Len(st) \in Nat \ {0} /\ DOMAIN st = 1 .. Len(st)
  BY <1>1, EmptySeq, LenProperties
<1>3. n \in Nat /\ 1 \in Int /\ n \in Int
  BY <1>2
<1>4. \A i \in 1 .. n : st[i] \in S
  BY <1>1, <1>2, ElementOfSeq
<1>5. /\ z \in Seq(S) /\ Len(z) = IF 1 <= n THEN n - 1 + 1 ELSE 0
      /\ \A i \in 1 .. n - 1 + 1 : z[i] = st[1 + i - 1]
  <2> HIDE DEF n
  <2>1. QED
    BY <1>3, <1>4, SubSeqProperties
<1>6. Len(z) = n
  <2> HIDE DEF n, z
  <2>1. QED
    BY <1>3, <1>5
<1>7. ASSUME NEW i \in 1 .. n PROVE z[i] = st[i]
  <2>1. i \in 1 .. n - 1 + 1 /\ 1 + i - 1 = i
    BY <1>3
  <2>2. QED
    BY <1>5, <2>1
<1>8. Sequence(z)
  BY <1>5, SequenceOf
<1>9. Front(st) = z /\ Last(st) = st[Len(st)]
  BY DEF Front, Last
<1> HIDE DEF z
<1>10. QED
  BY <1>2, <1>6, <1>7, <1>8, <1>9

LEMMA TopReplaced ==
  ASSUME NEW st, Sequence(st), st # <<>>, NEW rest
  PROVE  /\ Moved(st, Append(Front(st), rest), rest)
         /\ Len(Append(Front(st), rest)) = Len(st)
<1> DEFINE u == Front(st)
           n == Len(st)
           st2 == Append(u, rest)
<1>1. /\ Sequence(u) /\ Len(u) = n - 1 /\ n \in Nat \ {0}
      /\ \A i \in 1 .. n - 1 : u[i] = st[i]
  BY FrontIs
<1> HIDE DEF u, n
<1>2. /\ Sequence(st2) /\ Len(st2) = Len(u) + 1
      /\ (\A i \in 1 .. Len(u) : st2[i] = u[i]) /\ st2[Len(u) + 1] = rest
  BY <1>1, SequenceAppend
<1> HIDE DEF st2
<1>3. Len(st2) = n /\ st2[n] = rest /\ \A i \in 1 .. n - 1 : st2[i] = st[i]
  BY <1>1, <1>2
<1>4. QED
  BY <1>1, <1>2, <1>3 DEF Moved, n, st2, u

LEMMA TopPushed ==
  ASSUME NEW st, Sequence(st), st # <<>>, NEW rest, NEW d
  PROVE  LET st2 == Append(Append(Front(st), rest), d)
         IN  /\ Moved(st, st2, rest)
             /\ Len(st2) = Len(st) + 1 /\ st2[Len(st) + 1] = d
<1> DEFINE st1 == Append(Front(st), rest)
           st2 == Append(st1, d)
           n == Len(st)
<1>1. Moved(st, st1, rest) /\ Len(st1) = Len(st)
  BY TopReplaced
<1> HIDE DEF st1
<1>2. /\ Sequence(st1) /\ Len(st1) = n /\ n \in Nat \ {0} /\ st1[n] = rest
      /\ \A i \in 1 .. n - 1 : st1[i] = st[i]
  BY <1>1 DEF Moved
<1>3. /\ Sequence(st2) /\ Len(st2) = n + 1
      /\ (\A i \in 1 .. n : st2[i] = st1[i]) /\ st2[n + 1] = d
  BY <1>2, SequenceAppend
<1> HIDE DEF st2, n
<1>4. st2[n] = rest /\ \A i \in 1 .. n - 1 : st2[i] = st[i]
  BY <1>2, <1>3
<1>5. QED
  BY <1>2, <1>3, <1>4 DEF Moved, n, st2, st1

\* Of a table that is through nothing is pending.
LEMMA EndsFollows ==
  ASSUME NEW g, NEW s, NEW m, NEW tb, NEW ks, NEW st, Follows(g, s, m, tb, ks, st),
         st # <<>>, ItemsIn(g, Last(st)) = {}
  PROVE  Follows(g, s, m, tb, ks, Front(st))
<1> DEFINE u == Front(st)
           n == Len(st)
<1>1. FramesHold(g, s, m, ks, st) /\ ContentHolds(g, s, m, st) /\ Sequence(st)
  BY DEF Follows, FramesHold
<1>2. /\ Sequence(u) /\ Len(u) = n - 1 /\ n \in Nat \ {0}
      /\ (\A i \in 1 .. n - 1 : u[i] = st[i]) /\ Last(st) = st[n]
  BY <1>1, FrontIs
<1>3. DOMAIN u = 1 .. n - 1 /\ DOMAIN st = 1 .. n
  BY <1>1, <1>2, SequenceLen
<1> HIDE DEF u, n
<1>4. (\A i \in DOMAIN u : i \in DOMAIN st /\ u[i] = st[i])
      /\ \A i \in DOMAIN st : i = n \/ i \in DOMAIN u
  BY <1>2, <1>3
<1>5. FramesHold(g, s, m, ks, u)
  BY <1>1, <1>2, <1>4 DEF FramesHold
<1>6. Left(g, st[n]) = {}
  BY <1>2, NoItem
<1>7. \A t, k : Pending(g, u, t, k) <=> Pending(g, st, t, k)
  <2> TAKE t, k
  <2>1. ASSUME Pending(g, u, t, k) PROVE Pending(g, st, t, k)
    BY <2>1, <1>4 DEF Pending
  <2>2. ASSUME Pending(g, st, t, k) PROVE Pending(g, u, t, k)
    BY <2>2, <1>4, <1>6 DEF Pending
  <2>3. QED
    BY <2>1, <2>2
<1>8. ContentHolds(g, s, m, u)
  BY <1>1, <1>7 DEF ContentHolds, TableHolds
<1>9. QED
  BY <1>5, <1>8 DEF Follows, u

-------------------------------------------------------------------------------
(* The inductive invariant of what is restored *)

FInv ==
  pc \in {"write", "written"} =>
    /\ graph \in Graphs /\ (pc = "written" => stack = <<>>)
    /\ \E m : Follows(graph, RunAll(file), m, tables, keys, stack)

LEMMA InitFollows ==
  ASSUME NEW g, Preservable(g), NEW f, DOMAIN f = {"table", "next", "left", "parent"},
         f.table = Globals, f.next = 1, f.left = DOMAIN g[Globals].hash, f.parent = 1
  PROVE  \E m : Follows(g, Fresh, m, <<>>, << <<>> >>, <<f>>)
<1> DEFINE m == [v \in {Root} |-> <<"table", 1>>]
           h == <<[k \in {} |-> Nil]>>
           st == <<f>>
           ks == << <<>> >>
<1>1. DOMAIN m = {Root} /\ m[Root] = <<"table", 1>> /\ m[Root][2] = 1
  OBVIOUS
<1> HIDE DEF m
<1>2. Len(h) = 1 /\ DOMAIN h[1] = {} /\ Sequence(h)
  <2> DEFINE e == [k \in {} |-> Nil]
  <2>1. DOMAIN e = {}
    OBVIOUS
  <2> HIDE DEF e
  <2>2. <<e>> \in Seq({e}) /\ Len(<<e>>) = 1 /\ <<e>>[1] = e
    OBVIOUS
  <2>3. QED
    BY <2>1, <2>2, SequenceOf DEF e
<1>3. Alive(Fresh) /\ Fresh.heap = h /\ Fresh.made = 0
  BY DEF Fresh, Alive
<1> HIDE DEF h
<1>4. Closed(h)
  BY <1>2 DEF Closed
<1>5. Mapped(Fresh, m)
  <2>1. Root = <<"table", Root[2]>> /\ Root[2] = Globals
    BY DEF Root
  <2>2. Root[2] \in Tables
    BY <2>1, SerializeAssumption
  <2>3. m[Root][2] \in 1 .. Len(Fresh.heap)
    <3>1. Len(Fresh.heap) = 1 /\ 1 \in 1 .. 1
      BY <1>2, <1>3
    <3>2. QED
      BY <1>1, <3>1
  <2>4. QED
    BY <1>1, <2>1, <2>2, <2>3 DEF Mapped
<1>6. DOMAIN <<>> = {}
  OBVIOUS
<1>7. Known(m, <<>>) /\ Entries(g, Fresh, m, <<>>, ks)
  BY <1>1, <1>6 DEF Known, Entries
<1>8. Len(ks) = 1 /\ ks[1] = <<>>
  OBVIOUS
<1>9. st \in Seq({f}) /\ Len(st) = 1 /\ st[1] = f /\ DOMAIN st = 1 .. 1
  OBVIOUS
<1> HIDE DEF ks, st
<1>10. FrameIn(g, f) /\ DOMAIN ContentOf(g, Globals) \subseteq Left(g, f)
  BY SerializeAssumption, Entered
<1>11. FrameHolds(g, Fresh, m, ks, f)
  <2>1. <<"table", f.table>> = Root
    BY DEF Root
  <2>2. <<>> \in Seq({})
    BY EmptySeq
  <2>3. Sequence(<<>>)
    BY <2>2, SequenceOf
  <2>4. Leads(Fresh, ks[f.parent], m[Root])
    BY <1>1, <1>8, <2>3, ValueOfGlobals DEF Leads
  <2>5. f.parent \in 1 .. Len(ks)
    BY <1>8
  <2>6. QED
    BY <1>1, <1>10, <2>1, <2>4, <2>5 DEF FrameHolds
<1>12. FramesHold(g, Fresh, m, ks, st)
  <2>1. Sequence(st)
    BY <1>9, SequenceOf
  <2>2. \A i \in DOMAIN st : i = 1 /\ st[i] = f
    BY <1>9
  <2>3. QED
    BY <1>11, <2>1, <2>2 DEF FramesHold
<1>13. ContentHolds(g, Fresh, m, st)
  <2> SUFFICES ASSUME NEW t, <<"table", t>> \in DOMAIN m
               PROVE  TableHolds(g, Fresh, m, st, t)
    BY DEF ContentHolds
  <2>1. <<"table", t>> = Root /\ t = Globals
    BY <1>1 DEF Root
  <2>2. \A k \in DOMAIN ContentOf(g, t) : Pending(g, st, t, k)
    <3>1. 1 \in DOMAIN st
      BY <1>9
    <3>2. QED
      BY <1>9, <1>10, <2>1, <3>1 DEF Pending
  <2>3. DOMAIN Fresh.heap[m[<<"table", t>>][2]] = {}
    BY <1>1, <1>2, <1>3, <2>1
  <2>4. QED
    BY <2>2, <2>3 DEF TableHolds
<1>14. Follows(g, Fresh, m, <<>>, ks, st)
  BY <1>3, <1>4, <1>5, <1>7, <1>12, <1>13 DEF Follows
<1>15. QED
  BY <1>14 DEF ks, st

LEMMA InitFInv == (\A g \in Graphs : Preservable(g)) /\ Init => FInv
<1> SUFFICES ASSUME \A g \in Graphs : Preservable(g), Init PROVE FInv
  OBVIOUS
<1> DEFINE f == [table |-> Globals, next |-> 1, left |-> DOMAIN graph[Globals].hash, parent |-> 1]
<1>1. /\ DOMAIN f = {"table", "next", "left", "parent"} /\ f.table = Globals /\ f.next = 1
      /\ f.left = DOMAIN graph[Globals].hash /\ f.parent = 1
  OBVIOUS
<1>2. /\ graph \in Graphs /\ stack = <<f>> /\ keys = << <<>> >> /\ tables = <<>> /\ file = <<>>
      /\ pc = "write"
  BY DEF Init
<1> HIDE DEF f
<1>3. \E m : Follows(graph, Fresh, m, <<>>, << <<>> >>, <<f>>)
  BY <1>1, <1>2, InitFollows
<1>4. QED
  BY <1>2, <1>3, RunNothing DEF FInv

LEMMA Passed ==
  /\ \A v : ignore_value_type(v) => IgnoredIn(graph, v)
  /\ \A v : ~ignore_value_type(v) => NotSkipped(graph, v)
BY DEF ignore_value_type, IgnoredIn, NotSkipped

LEMMA EmptyContent ==
  ASSUME NEW g, Preservable(g), NEW t \in Tables, EmptyArray(g[t])
  PROVE  \A x : x \notin DOMAIN ContentOf(g, t)
<1>1. DOMAIN g[t].hash = {} /\ DOMAIN g[t].array = 1 .. Len(g[t].array)
      /\ \A i \in DOMAIN g[t].array : g[t].array[i] = Nil
  BY DEF Preservable, EmptyArray
<1>2. ASSUME NEW k \in DOMAIN AllOf(g, t) PROVE AllOf(g, t)[k] = Nil
  <2>1. PICK i \in 1 .. Len(g[t].array) : k = <<"number", i * Unit>>
    BY <1>1, AllOfIs
  <2>2. QED
    BY <1>1, <2>1, AllOfIs
<1>3. QED
  BY <1>2 DEF ContentOf, IgnoredIn

LEMMA NextFInv ==
  ASSUME \A g \in Graphs : Preservable(g)
  PROVE  IInv /\ FInv /\ [Next]_vars => FInv'
<1> SUFFICES ASSUME IInv, FInv, [Next]_vars PROVE FInv'
  OBVIOUS
<1>1. ASSUME NEW why, Fail(why), why \in {"failed", "out of memory"} PROVE FInv'
  BY <1>1 DEF Fail, FInv
<1>2. CASE serialize_kvp
  <2>1. PICK item \in Items :
          \/ Skip(item)
          \/ KeyFails(item)
          \/ /\ ~ignore_value_type(item.value)
             /\ \E text \in serialize_data(item.key) :
                \E name \in {Name(text)} :
                    \/ Scalar(item, name)
                    \/ Alias(item, name)
                    \/ NewTable(item, name)
                    \/ NewUserdata(item, name)
          \/ OutOfMemory(item)
    BY <1>2 DEF serialize_kvp
  <2>2. /\ pc = "write" /\ stack # <<>> /\ graph' = graph /\ graph \in Graphs
        /\ Sound(tables, keys, file, capacity)
    BY <1>2 DEF serialize_kvp, IInv, FInv
  <2> DEFINE s == RunAll(file)
             p == stack[Len(stack)].parent
  <2>3. PICK m : Follows(graph, s, m, tables, keys, stack)
    BY <2>2 DEF FInv
  <2> HIDE DEF s
  <2>4. /\ Preservable(graph) /\ Sequence(stack)
        /\ Sequence(tables) /\ Sequence(keys) /\ Sequence(file) /\ Len(keys) \in Nat
        /\ \A k \in DOMAIN tables : tables[k][2] \in 1 .. Len(keys)
    BY <2>2, <2>3, SequenceLen DEF Follows, FramesHold, Sound, Named
  <2>5. top = stack[Len(stack)] /\ Items = ItemsIn(graph, stack[Len(stack)])
        /\ item \in ItemsIn(graph, stack[Len(stack)])
    BY <2>2, <2>4, FrontIs, ItemsAre DEF top
  <2>6. /\ Moved(stack, Append(Up, item.rest), item.rest)
        /\ Len(Append(Up, item.rest)) = Len(stack)
    BY <2>2, <2>4, TopReplaced DEF Up
  <2>7. ASSUME pc' = pc, NEW n, Follows(graph, RunAll(file'), n, tables', keys', stack')
        PROVE  FInv'
    BY <2>2, <2>7 DEF FInv
  <2>8. ASSUME NEW l, file' = file \o <<l>> PROVE RunAll(file') = Run(s, l)
    BY <2>4, <2>8, RunLine DEF s
  <2>9. CASE Skip(item)
    <3>1. /\ IgnoredIn(graph, item.value) /\ stack' = Append(Up, item.rest)
          /\ UNCHANGED <<keys, tables, file, pc>>
      BY <2>9, Passed DEF Skip, Continue
    <3>2. Follows(graph, s, m, tables, keys, stack')
      BY <2>3, <2>4, <2>5, <2>6, <3>1, SkippedFollows
    <3>3. QED
      BY <2>7, <3>1, <3>2 DEF s
  <2>10. CASE KeyFails(item)
    BY <2>10, <1>1 DEF KeyFails
  <2>11. CASE OutOfMemory(item)
    BY <2>11, <1>1 DEF OutOfMemory
  <2>12. ASSUME ~ignore_value_type(item.value), NEW text \in serialize_data(item.key), NEW name,
                name = Name(text), Scalar(item, name)
         PROVE  FInv'
    <3>1. PICK what \in serialize_data(item.value) :
             /\ file' = file \o <<[name |-> name, is |-> "scalar", what |-> what]>>
             /\ stack' = Append(Up, item.rest)
             /\ UNCHANGED <<keys, tables, capacity, pc>>
      BY <2>12 DEF Scalar, Write, Continue
    <3> DEFINE l == [name |-> name, is |-> "scalar", what |-> what]
    <3>2. name = Append(keys[p], text)
      BY <2>5, <2>12 DEF Name
    <3>3. Follows(graph, Run(s, [name |-> Append(keys[p], text), is |-> "scalar", what |-> what]),
                  m, tables, keys, stack')
      BY <2>3, <2>4, <2>5, <2>6, <3>1, ScalarFollows
    <3>4. l = [name |-> Append(keys[p], text), is |-> "scalar", what |-> what]
      BY <3>2
    <3>5. file' = file \o <<l>>
      BY <3>1
    <3> HIDE DEF l
    <3>6. RunAll(file') = Run(s, l)
      BY <2>8, <3>5
    <3>7. Follows(graph, RunAll(file'), m, tables', keys', stack')
      BY <3>1, <3>3, <3>4, <3>6
    <3>8. QED
      BY <2>7, <3>1, <3>7
  <2>13. ASSUME ~ignore_value_type(item.value), NEW text \in serialize_data(item.key), NEW name,
                name = Name(text), Alias(item, name)
         PROVE  FInv'
    <3>1. PICK i \in Refs(item.value) :
             /\ file' = file \o <<[name |-> name, is |-> "alias", what |-> keys[tables[i][2]]]>>
             /\ stack' = Append(Up, item.rest)
             /\ UNCHANGED <<keys, tables, capacity, pc>>
      BY <2>13 DEF Alias, Write, Continue
    <3> DEFINE what == keys[tables[i][2]]
               l == [name |-> name, is |-> "alias", what |-> what]
    <3>2. name = Append(keys[p], text)
      BY <2>5, <2>13 DEF Name
    <3>3. i \in DOMAIN tables /\ tables[i][1] = item.value /\ NotSkipped(graph, item.value)
      BY <2>13, Passed DEF Refs
    <3>4. Follows(graph, Run(s, [name |-> Append(keys[p], text), is |-> "alias",
                                 what |-> keys[tables[i][2]]]), m, tables, keys, stack')
      BY <2>3, <2>4, <2>5, <2>6, <3>1, <3>3, AliasFollows
    <3>5. l = [name |-> Append(keys[p], text), is |-> "alias", what |-> keys[tables[i][2]]]
      BY <3>2
    <3>6. file' = file \o <<l>>
      BY <3>1
    <3> HIDE DEF l
    <3>7. RunAll(file') = Run(s, l)
      BY <2>8, <3>6
    <3>8. Follows(graph, RunAll(file'), m, tables', keys', stack')
      BY <3>1, <3>4, <3>5, <3>7
    <3>9. QED
      BY <2>7, <3>1, <3>8
  <2>14. ASSUME ~ignore_value_type(item.value), NEW text \in serialize_data(item.key), NEW name,
                name = Name(text), NewTable(item, name)
         PROVE  FInv'
    <3> DEFINE v == item.value
               d == Frame(v[2], Len(keys'))
               tb2 == Append(tables, <<v, Len(Append(keys, name))>>)
    <3>1. /\ v[1] = "table" /\ (\A i \in DOMAIN tables : tables[i][1] # v)
          /\ keys' = Append(keys, name) /\ tables' = tb2 /\ pc' = pc /\ NotSkipped(graph, v)
      BY <2>14, Passed DEF NewTable, AddTableRef, KeepsName, Refs
    <3>2. name = Append(keys[p], text)
      BY <2>5, <2>14 DEF Name
    <3>3. v[2] \in Tables /\ v = <<"table", v[2]>>
      <4>1. PICK r : PlaceOf(graph, s, m, keys, stack[Len(stack)], item, r)
        BY <2>3, <2>4, <2>5, <2>6, ItemPlace DEF Moved
      <4>2. v = <<v[1], v[2]>> /\ (v[1] = "table" => v[2] \in Tables)
        BY <2>4, <4>1, ValueShape DEF PlaceOf
      <4>3. QED
        BY <3>1, <4>2
    <3>4. ASSUME NEW what, file' = file \o <<[name |-> name, is |-> "table", what |-> what]>>,
                 Moved(stack, stack', item.rest), EntersOnly(graph, stack, stack', v, Len(keys) + 1)
          PROVE  FInv'
      <4> DEFINE l == [name |-> name, is |-> "table", what |-> what]
      <4>1. \E m2 : Follows(graph, Run(s, l), m2, tb2, Append(keys, name), stack')
        BY <2>3, <2>4, <2>5, <3>1, <3>2, <3>4, TableFollows
      <4> HIDE DEF l
      <4>2. RunAll(file') = Run(s, l)
        BY <2>8, <3>4 DEF l
      <4>3. PICK m2 : Follows(graph, RunAll(file'), m2, tables', keys', stack')
        BY <3>1, <4>1, <4>2
      <4>4. QED
        BY <2>7, <3>1, <4>3
    <3>5. CASE EmptyArray(graph[v[2]])
      <4>1. /\ file' = file \o <<[name |-> name, is |-> "table", what |-> "{nil}"]>>
            /\ stack' = Append(Up, item.rest)
        BY <2>14, <3>5, Zenon DEF NewTable, Write, Continue
      <4>2. Len(stack') = Len(stack) /\ Len(stack) \in Nat /\ ~(Len(stack') > Len(stack))
        <5>1. Len(stack) \in Nat
          BY <2>6 DEF Moved
        <5>2. Len(stack') = Len(stack)
          BY <2>6, <4>1
        <5>3. QED
          BY <5>1, <5>2
      <4>3. \A x : x \notin DOMAIN ContentOf(graph, v[2])
        BY <2>4, <3>3, <3>5, EmptyContent
      <4>4. EntersOnly(graph, stack, stack', v, Len(keys) + 1)
        BY <4>2, <4>3 DEF EntersOnly
      <4>5. QED
        BY <2>6, <3>4, <4>1, <4>4
    <3>6. CASE ~EmptyArray(graph[v[2]])
      <4>1. /\ file' = file \o <<[name |-> name, is |-> "table", what |-> "{}"]>>
            /\ stack' = Append(Append(Up, item.rest), d)
        BY <2>14, <3>6, Zenon DEF NewTable, Write
      <4>2. /\ Moved(stack, stack', item.rest) /\ Len(stack') = Len(stack) + 1
            /\ stack'[Len(stack) + 1] = d /\ Len(stack) \in Nat
        BY <2>2, <2>4, <4>1, TopPushed, SequenceLen DEF Up
      <4>3. Len(keys') = Len(keys) + 1
        BY <2>4, <3>1, SequenceAppend
      <4>4. /\ DOMAIN d = {"table", "next", "left", "parent"} /\ d.table = v[2] /\ d.next = 1
            /\ d.left = DOMAIN graph[v[2]].hash /\ d.parent = Len(keys) + 1
        BY <4>3 DEF Frame
      <4> HIDE DEF d, v
      <4>5. FrameIn(graph, d) /\ DOMAIN ContentOf(graph, v[2]) \subseteq Left(graph, d)
        BY <2>4, <3>3, <4>4, Entered
      <4>6. Len(stack') # Len(stack)
        BY <4>2
      <4>7. EntersOnly(graph, stack, stack', v, Len(keys) + 1)
        BY <3>3, <4>2, <4>4, <4>5, <4>6 DEF EntersOnly
      <4>8. QED
        BY <3>4, <4>1, <4>2, <4>7
    <3>7. QED
      BY <3>5, <3>6
  <2>15. ASSUME ~ignore_value_type(item.value), NEW text \in serialize_data(item.key), NEW name,
                name = Name(text), NewUserdata(item, name)
         PROVE  FInv'
    <3> DEFINE v == item.value
               tb2 == Append(tables, <<v, Len(Append(keys, name))>>)
               l == [name |-> name, is |-> "userdata", what |-> v[2]]
    <3>1. /\ v[1] = "userdata" /\ (\A i \in DOMAIN tables : tables[i][1] # v)
          /\ keys' = Append(keys, name) /\ tables' = tb2 /\ pc' = pc /\ NotSkipped(graph, v)
          /\ stack' = Append(Up, item.rest)
      BY <2>15, Passed DEF NewUserdata, AddTableRef, KeepsName, Refs, Continue
    <3>2. name = Append(keys[p], text)
      BY <2>5, <2>15 DEF Name
    <3>3. file' = file \o (IF v[2] \in Failing THEN <<>> ELSE <<l>>)
      BY <2>15, Zenon DEF NewUserdata, Write
    <3>4. CASE v[2] \in Failing
      <4>1. file' = file
        <5>1. file' = file \o <<>>
          BY <3>3, <3>4, Zenon
        <5>2. QED
          BY <2>4, <5>1, ConcatEmptySeq DEF Sequence
      <4>2. Follows(graph, s, m, tb2, Append(keys, name), stack')
        BY <2>3, <2>4, <2>5, <2>6, <3>1, <3>2, <3>4, FailingFollows
      <4>3. Follows(graph, RunAll(file'), m, tables', keys', stack')
        BY <3>1, <4>1, <4>2 DEF s
      <4>4. QED
        BY <2>7, <3>1, <4>3
    <3>5. CASE v[2] \notin Failing
      <4>1. file' = file \o <<l>>
        BY <3>3, <3>5, Zenon
      <4>2. \E m2 : Follows(graph, Run(s, l), m2, tb2, Append(keys, name), stack')
        BY <2>3, <2>4, <2>5, <2>6, <3>1, <3>2, <3>5, UserdataFollows
      <4> HIDE DEF l
      <4>3. RunAll(file') = Run(s, l)
        BY <2>8, <4>1
      <4>4. PICK m2 : Follows(graph, RunAll(file'), m2, tables', keys', stack')
        BY <3>1, <4>2, <4>3
      <4>5. QED
        BY <2>7, <3>1, <4>4
    <3>6. QED
      BY <3>4, <3>5
  <2>16. QED
    BY <2>1, <2>9, <2>10, <2>11, <2>12, <2>13, <2>14, <2>15
<1>3. CASE TableEnds
  <2>1. /\ pc = "write" /\ stack # <<>> /\ Items = {} /\ stack' = Up
        /\ pc' = (IF Up = <<>> THEN "written" ELSE "write")
        /\ UNCHANGED <<graph, keys, tables, file>>
    BY <1>3 DEF TableEnds
  <2>2. PICK m : Follows(graph, RunAll(file), m, tables, keys, stack)
    BY <2>1 DEF FInv
  <2>3. Follows(graph, RunAll(file), m, tables, keys, Front(stack))
    BY <2>1, <2>2, EndsFollows, ItemsAre DEF top
  <2>4. pc' = "written" => stack' = <<>>
    BY <2>1
  <2>5. QED
    BY <2>1, <2>3, <2>4 DEF FInv, Up
<1>4. CASE UNCHANGED vars
  BY <1>4 DEF vars, FInv
<1>5. QED
  BY <1>2, <1>3, <1>4 DEF Next

-------------------------------------------------------------------------------
(* Restores *)

\* The pairs found in i steps from the globals.
Paired(a, s, i) ==
  IF i = 0 THEN {<< <<"table", Globals>>, <<"table", 1>> >>} ELSE Corresponding(s, a[i - 1])

Pairs(a, s, n) == \A i \in 0 .. n : a[i] = Paired(a, s, i)

LEMMA PairsExist ==
  ASSUME NEW s, NEW len \in Nat
  PROVE  \E a : Pairs(a, s, len)
<1> DEFINE G == {k \in 0 .. len : \E a : Pairs(a, s, k)}
<1>1. 0 \in G
  <2> DEFINE a == [i \in 0 .. 0 |-> {<< <<"table", Globals>>, <<"table", 1>> >>}]
  <2>1. a[0] = Paired(a, s, 0)
    BY DEF Paired
  <2> HIDE DEF a
  <2>2. Pairs(a, s, 0)
    BY <2>1 DEF Pairs
  <2>3. QED
    BY <2>2
<1>2. ASSUME NEW n \in 0 .. len - 1, n \in G PROVE n + 1 \in G
  <2>1. PICK a : Pairs(a, s, n)
    BY <1>2
  <2> DEFINE b == [i \in 0 .. n + 1 |-> IF i = n + 1 THEN Paired(a, s, i) ELSE a[i]]
  <2>2. \A i \in 0 .. n : b[i] = a[i]
    OBVIOUS
  <2>3. b[n + 1] = Paired(a, s, n + 1)
    OBVIOUS
  <2> HIDE DEF b
  <2>4. ASSUME NEW i \in 0 .. n + 1 PROVE Paired(b, s, i) = Paired(a, s, i)
    <3>1. i = 0 \/ i - 1 \in 0 .. n
      OBVIOUS
    <3>2. QED
      BY <2>2, <3>1 DEF Paired
  <2>5. ASSUME NEW i \in 0 .. n + 1 PROVE b[i] = Paired(b, s, i)
    <3>1. CASE i = n + 1
      BY <2>3, <2>4, <3>1
    <3>2. CASE i # n + 1
      <4>1. i \in 0 .. n
        BY <3>2
      <4>2. QED
        BY <2>1, <2>2, <2>4, <4>1 DEF Pairs
    <3>3. QED
      BY <3>1, <3>2
  <2>6. Pairs(b, s, n + 1)
    BY <2>5 DEF Pairs
  <2>7. QED
    BY <2>6
<1>3. len \in G
  <2> HIDE DEF G
  <2>1. \A i \in 0 .. len : i \in G
    BY <1>1, <1>2, Forwards
  <2>2. QED
    BY <2>1
<1>4. QED
  BY <1>3

LEMMA CorrespondenceFollows ==
  ASSUME NEW s
  PROVE  \E a : /\ Correspondence(s) = a[Cardinality(Tables)] /\ Cardinality(Tables) \in Nat
                /\ Pairs(a, s, Cardinality(Tables))
<1> DEFINE n == Cardinality(Tables)
           F(a) == [i \in 0 .. n |-> IF i = 0 THEN {<< <<"table", Globals>>, <<"table", 1>> >>}
                                     ELSE Corresponding(s, a[i - 1])]
           c == CHOOSE a : a = F(a)
<1>1. n \in Nat
  BY SerializeAssumption, FS_CardinalityType
<1>2. Correspondence(s) = c[n]
  BY DEF Correspondence
<1> HIDE DEF n
<1>3. \A a : \A i \in 0 .. n : F(a)[i] = Paired(a, s, i)
  BY DEF Paired
<1>4. PICK a : Pairs(a, s, n)
  BY <1>1, PairsExist
<1>5. F(a) = F(F(a))
  <2> DEFINE h == F(a)
  <2>1. \A i \in 0 .. n : h[i] = a[i] /\ h[i] = Paired(a, s, i)
    <3>1. \A i \in 0 .. n : h[i] = Paired(a, s, i)
      BY <1>3
    <3> HIDE DEF h
    <3>2. QED
      BY <1>4, <3>1 DEF Pairs
  <2>2. \A i \in 0 .. n : F(h)[i] = Paired(h, s, i)
    BY <1>3
  <2>3. ASSUME NEW i \in 0 .. n PROVE F(h)[i] = h[i]
    <3> HIDE DEF F, h
    <3>1. i = 0 \/ i - 1 \in 0 .. n
      BY <1>1
    <3>2. Paired(h, s, i) = Paired(a, s, i)
      BY <2>1, <3>1 DEF Paired
    <3>3. QED
      BY <2>1, <2>2, <3>2
  <2>4. QED
    BY <2>3
<1>6. c = F(c)
  BY <1>5
<1> HIDE DEF c
<1>7. Pairs(c, s, n)
  <2>1. \A i \in 0 .. n : F(c)[i] = Paired(c, s, i)
    BY <1>3
  <2> HIDE DEF F
  <2>2. QED
    BY <1>6, <2>1 DEF Pairs
<1>8. QED
  BY <1>1, <1>2, <1>7 DEF n

\* All that corresponds is what the invariant says is restored for it.
InMap(m, pairs) == \A p \in pairs : p = <<p[1], p[2]>> /\ p[1] \in DOMAIN m /\ p[2] = m[p[1]]

LEMMA CorrespondingInMap ==
  ASSUME NEW s, NEW m, NEW tb, NEW ks, Follows(graph, s, m, tb, ks, <<>>),
         NEW pairs, InMap(m, pairs)
  PROVE  InMap(m, Corresponding(s, pairs))
<1> SUFFICES ASSUME NEW q \in Corresponding(s, pairs)
             PROVE  q = <<q[1], q[2]>> /\ q[1] \in DOMAIN m /\ q[2] = m[q[1]]
  BY DEF InMap
<1>1. CASE q \in pairs
  BY <1>1 DEF InMap
<1>2. CASE q \notin pairs
  <2> PICK p \in pairs :
        /\ p[1][1] = "table" /\ p[2][1] = "table"
        /\ \E k \in DOMAIN Content(p[1][2]) :
             /\ Content(p[1][2])[k][1] \in {"table", "userdata"}
             /\ q = <<Content(p[1][2])[k], Get(s, p[2][2], k)>>
    BY <1>2 DEF Corresponding
  <2>1. PICK k \in DOMAIN Content(p[1][2]) :
          /\ Content(p[1][2])[k][1] \in {"table", "userdata"}
          /\ q = <<Content(p[1][2])[k], Get(s, p[2][2], k)>>
    OBVIOUS
  <2> DEFINE t == p[1][2]
             c == ContentOf(graph, t)
             r == p[2][2]
  <2>2. p[1] \in DOMAIN m /\ p[2] = m[p[1]]
    BY DEF InMap
  <2>3. p[1] = <<"table", t>>
    BY <2>1, <2>2 DEF Follows, Mapped
  <2>4. TableHolds(graph, s, m, <<>>, t) /\ m[<<"table", t>>][2] = r
    BY <2>2, <2>3 DEF Follows, ContentHolds
  <2>5. Content(t) = c
    BY ContentIs
  <2> HIDE DEF t, c, r
  <2>6. k \in DOMAIN c /\ c[k][1] \in {"table", "userdata"} /\ q = <<c[k], Get(s, r, k)>>
    BY <2>1, <2>5 DEF t, r
  <2>7. ~Pending(graph, <<>>, t, k)
    BY DEF Pending
  <2>8. k \in DOMAIN s.heap[r] /\ Alike(m, c[k], s.heap[r][k])
    BY <2>4, <2>6, <2>7 DEF TableHolds, c
  <2>9. Get(s, r, k) = s.heap[r][k]
    BY <2>8 DEF Get
  <2>10. c[k] \in DOMAIN m /\ Get(s, r, k) = m[c[k]]
    BY <2>6, <2>8, <2>9 DEF Alike
  <2>11. QED
    BY <2>6, <2>10
<1>3. QED
  BY <1>1, <1>2

LEMMA CorrespondenceInMap ==
  ASSUME NEW s, NEW m, NEW tb, NEW ks, Follows(graph, s, m, tb, ks, <<>>)
  PROVE  InMap(m, Correspondence(s))
<1> DEFINE n == Cardinality(Tables)
<1>1. PICK a : Correspondence(s) = a[n] /\ n \in Nat /\ Pairs(a, s, n)
  BY CorrespondenceFollows
<1> HIDE DEF n
<1> DEFINE G == {i \in 0 .. n : InMap(m, a[i])}
<1>2. 0 \in G
  <2>1. 0 \in 0 .. n /\ a[0] = {<< <<"table", Globals>>, <<"table", 1>> >>}
    BY <1>1 DEF Pairs, Paired
  <2>2. <<"table", Globals>> \in DOMAIN m /\ m[<<"table", Globals>>] = <<"table", 1>>
    BY DEF Follows, Mapped, Root
  <2>3. QED
    BY <2>1, <2>2 DEF InMap
<1>3. ASSUME NEW i \in 0 .. n - 1, i \in G PROVE i + 1 \in G
  <2>1. i + 1 \in 0 .. n /\ i + 1 # 0 /\ (i + 1) - 1 = i
    BY <1>1
  <2>2. a[i + 1] = Corresponding(s, a[i])
    BY <1>1, <2>1 DEF Pairs, Paired
  <2>3. InMap(m, a[i + 1])
    BY <1>3, <2>2, CorrespondingInMap
  <2>4. QED
    BY <2>1, <2>3
<1> HIDE DEF G
<1>4. \A i \in 0 .. n : i \in G
  BY <1>1, <1>2, <1>3, Forwards
<1>5. n \in G
  BY <1>1, <1>4
<1>6. QED
  BY <1>1, <1>5 DEF G

LEMMA FInvRestores == FInv => Restores
<1> SUFFICES ASSUME FInv, pc = "written"
             PROVE  /\ Restored.ok
                    /\ \A p, q \in Correspondence(Restored) : p[1] = q[1] <=> p[2] = q[2]
                    /\ \A p \in Correspondence(Restored) :
                         /\ p[1][1] = p[2][1]
                         /\ p[1][1] = "table" =>
                              \E c \in {Content(p[1][2])} :
                                /\ DOMAIN c = DOMAIN Restored.heap[p[2][2]]
                                /\ \A k \in DOMAIN c :
                                     \/ c[k][1] \in {"table", "userdata"}
                                     \/ Near(c[k], Get(Restored, p[2][2], k))
  BY DEF Restores
<1> DEFINE s == Restored
<1>1. PICK m : Follows(graph, s, m, tables, keys, <<>>)
  BY DEF FInv, Restored
<1> HIDE DEF s
<1>2. s.ok
  BY <1>1 DEF Follows, Alive
<1>3. \A p \in Correspondence(s) : p[1] \in DOMAIN m /\ p[2] = m[p[1]]
  BY <1>1, CorrespondenceInMap DEF InMap
<1>4. ASSUME NEW p \in Correspondence(s), NEW q \in Correspondence(s)
      PROVE  p[1] = q[1] <=> p[2] = q[2]
  <2>1. \A v, w \in DOMAIN m : m[v] = m[w] => v = w
    BY <1>1 DEF Follows, Mapped
  <2>2. QED
    BY <1>3, <2>1
<1>5. ASSUME NEW p \in Correspondence(s)
      PROVE  /\ p[1][1] = p[2][1]
             /\ p[1][1] = "table" =>
                  \E c \in {Content(p[1][2])} :
                    /\ DOMAIN c = DOMAIN s.heap[p[2][2]]
                    /\ \A k \in DOMAIN c :
                         c[k][1] \in {"table", "userdata"} \/ Near(c[k], Get(s, p[2][2], k))
  <2> DEFINE t == p[1][2]
             c == ContentOf(graph, t)
             r == p[2][2]
  <2>1. p[1] \in DOMAIN m /\ p[2] = m[p[1]]
    BY <1>3
  <2>2. \/ p[1] = <<"table", t>> /\ p[2] = <<"table", r>>
        \/ p[1][1] = "userdata" /\ p[2] = <<"userdata", r>>
    BY <1>1, <2>1 DEF Follows, Mapped
  <2>3. p[1][1] = p[2][1]
    BY <2>2
  <2>4. ASSUME p[1][1] = "table"
        PROVE  /\ DOMAIN c = DOMAIN s.heap[r]
               /\ \A k \in DOMAIN c :
                    c[k][1] \in {"table", "userdata"} \/ Near(c[k], Get(s, r, k))
    <3>1. p[1] = <<"table", t>>
      BY <2>2, <2>4
    <3>2. TableHolds(graph, s, m, <<>>, t) /\ m[<<"table", t>>][2] = r
      BY <1>1, <2>1, <3>1 DEF Follows, ContentHolds
    <3>3. \A k : ~Pending(graph, <<>>, t, k)
      BY DEF Pending
    <3> HIDE DEF t, c, r
    <3>4. /\ \A k : k \in DOMAIN s.heap[r] <=> k \in DOMAIN c
          /\ \A k \in DOMAIN s.heap[r] : Alike(m, c[k], s.heap[r][k])
      BY <3>2, <3>3 DEF TableHolds, c
    <3>5. \A k \in DOMAIN c :
            c[k][1] \in {"table", "userdata"} \/ Near(c[k], Get(s, r, k))
      BY <3>4 DEF Alike, Get
    <3>6. QED
      BY <3>4, <3>5
  <2>5. Content(t) = c
    BY ContentIs
  <2>6. QED
    BY <2>3, <2>4, <2>5
<1>6. QED
  BY <1>2, <1>4, <1>5 DEF s

\* What a script leaves in its globals is what the next one finds: Lua can run the
\* file, and the tables and userdata it makes have the shape of those that were
\* preserved, shared and cyclic ones included, with the same keys and numbers near
\* those there were (preserve_global_data, serialize_kvp, restore_global_data).
THEOREM RestoresHolds ==
  ASSUME \A g \in Graphs : Preservable(g)
  PROVE  Spec => []Restores
<1>1. Init => IInv /\ FInv
  BY InitIInv, InitFInv
<1>2. IInv /\ FInv /\ [Next]_vars => IInv' /\ FInv'
  BY NextIInv, NextFInv
<1>3. FInv => Restores
  BY FInvRestores
<1>4. QED
  BY <1>1, <1>2, <1>3, PTL DEF Spec
===============================================================================
