---------------------------- MODULE MCMessageOutput ----------------------------
(***************************************************************************)
(* Tables for TLC: every type of value, alone, in arrays and mixed, values  *)
(* of one to three bytes in front of packed arrays, fields whose lengths   *)
(* take up to three bytes, fields of one name, headers of every kind.  A   *)
(* textual identifier is two bytes of two digits in base 3, and a dash.    *)
(***************************************************************************)
EXTENDS MessageOutput

MCRandom == <<21, 22>>
MCLogger == <<31>>
MCHostname == <<32, 33>>
MCPayloadType == <<81>>
MCPayloadName == <<82>>
MCInjectPayloadType == <<83>>

MCUuidGroups == <<1, 1>>
MCHexDigit == 91 :> 0 @@ 92 :> 1 @@ 93 :> 2 @@ 94 :> 2
MCNumerals == <<95>> :> 10 @@ <<95, 96>> :> 13 @@ <<96>> :> 4

V(type, v) == [t |-> type, v |-> v]
Half(n) == V("number", n)
Field(name, vt, representation, value) ==
  [name |-> IF name = Nil THEN Nil ELSE Str(name),
   representation |-> IF representation = Nil THEN Nil ELSE Str(representation),
   value_type |-> IF vt = -1 THEN Nil ELSE Num(vt), value |-> value]
Array(vs) == V("array", vs)
Numbers(ns) == Array([i \in DOMAIN ns |-> Num(ns[i])])
Octets == V("userdata", [i \in 1 .. 9 |-> 63])

FieldLists == <<
  <<>>,
  <<Field(<<41>>, -1, Nil, Str(<<>>)), Field(<<41>>, -1, <<51, 52>>, Str(<<61, 62>>))>>,
  <<Field(<<41>>, PB_INTEGER, Nil, Numbers(<<-2, 0, 9>>)),
    Field(<<42>>, PB_INTEGER, <<51>>, Num(70))>>,
  <<Field(<<41>>, PB_INTEGER, <<51>>, Numbers(<<0, 0, 7, 64, -1>>))>>,
  <<Field(<<41>>, PB_INTEGER, Nil, Numbers(<<9, 5>>)),
    Field(<<41>>, -1, Nil, Numbers(<<5, 6>>))>>,
  <<Field(<<41>>, PB_INTEGER, Nil, Array(<<Half(-1), Half(-5), Half(17)>>)),
    Field(<<41>>, PB_DOUBLE, Nil, Half(-5))>>,
  <<[Field(<<41>>, -1, <<51>>, Num(5)) EXCEPT !.name = Half(13), !.value_type = Str(<<96>>)],
    [Field(<<42>>, 3, <<51>>, Num(5)) EXCEPT !.representation = Num(5), !.value_type = Half(7)]>>,
  <<Field(<<41>>, -1, Nil, Num(5)), Field(<<41>>, -1, Nil, Bool(1)),
    Field(<<41>>, PB_BOOL, <<51>>, Array(<<Bool(0), Bool(1), Bool(0)>>))>>,
  <<Field(<<41>>, PB_BYTES, Nil, Array(<<Str(<<>>), Str(<<61>>)>>)),
    Field(<<42>>, -1, Nil, Array(<<Str(<<61>>)>>))>>,
  <<Field(<<41>>, -1, Nil, Octets)>>,
  <<Field(<<42>>, -1, <<51>>, V("light", Octets))>>,
  <<Field(<<41>>, -1, Nil, V("light", Nil))>>,
  <<Field(<<41>>, -1, Nil, V("userdata", Nil))>>,
  <<Field(<<41>>, -1, Nil, Str([i \in 1 .. 66 |-> 64]))>>,
  <<Field(<<41>>, -1, Nil, Array(<<Num(5), Str(<<61>>)>>))>>,
  <<Field(Nil, -1, Nil, Num(5))>>,
  <<Field(<<41>>, PB_DOUBLE, Nil, Str(<<61>>))>> >>

AllHeaders ==
  [NoTable EXCEPT !.Uuid = Str(<<23, 24>>), !.Timestamp = Num(-3), !.Type = Str(<<34>>),
     !.Logger = Str(<<>>), !.Severity = Num(0), !.Payload = Str(<<35, 36>>),
     !.EnvVersion = Str(<<37>>), !.Pid = Num(63), !.Hostname = Str(<<38>>)]
OddHeaders ==
  [NoTable EXCEPT !.Uuid = Str(<<23>>), !.Timestamp = Bool(1), !.Type = Bool(1),
     !.Logger = Bool(0), !.Severity = Bool(1), !.Pid = Str(<<38>>)]
\* A text for numbers and numbers for texts; values beyond an int.
ConvertedHeaders ==
  [NoTable EXCEPT !.Uuid = Str(<<91, 93, 90, 92, 94>>), !.Timestamp = Str(<<95, 96>>),
     !.Type = Num(5), !.Logger = Half(13), !.Severity = Str(<<95>>), !.Pid = Num(65)]
\* Negative numbers, halves, and texts that are almost identifiers.
NegativeHeaders ==
  [NoTable EXCEPT !.Uuid = Str(<<91, 93, 89, 92, 94>>), !.Timestamp = Half(-7),
     !.Severity = Num(-2), !.Pid = Half(-5)]
ShortGroups ==
  [NoTable EXCEPT !.Uuid = Str(<<93, 90, 92, 94, 89>>), !.Severity = Half(-1),
     !.Pid = Num(INT_MIN)]

MCTables ==
  [i \in DOMAIN FieldLists |-> [NoTable EXCEPT !.Fields = FieldLists[i]]]
    \o <<AllHeaders, OddHeaders, ConvertedHeaders, NegativeHeaders, ShortGroups>>

MCTexts == {<<71, 72, 73>>}
===============================================================================
