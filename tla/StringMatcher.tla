---------------------------- MODULE StringMatcher -----------------------------
(***************************************************************************)
(* The Lua patterns of the message matcher (src/util/string_matcher.c):    *)
(* a backtracking matcher without captures, and the search for a literal.  *)
(*                                                                         *)
(* A string is a sequence of characters; a position p of it is the number  *)
(* of characters before, and -1 is the NULL pointer.  "NUL" is the         *)
(* character 0, which ends every pattern.  The subject is the record of    *)
(* its characters s and of the byte after the last one.                    *)
(***************************************************************************)
EXTENDS Integers, Sequences

Ascii ==
  <<"NUL", "\t", "\n", "\r", " ", "!", "\"", "#", "$", "%", "&", "'", "(",
    ")", "*", "+", ",", "-", ".", "/", "0", "1", "2", "3", "4", "5", "6", "7",
    "8", "9", ":", ";", "<", "=", ">", "?", "@", "A", "B", "C", "D", "E", "F",
    "G", "H", "I", "J", "K", "L", "M", "N", "O", "P", "Q", "R", "S", "T", "U",
    "V", "W", "X", "Y", "Z", "[", "\\", "]", "^", "_", "a", "b", "c", "d",
    "e", "f", "g", "h", "i", "j", "k", "l", "m", "n", "o", "p", "q", "r", "s",
    "t", "u", "v", "w", "x", "y", "z", "{", "|", "}", "~">>
Chars == {Ascii[i] : i \in DOMAIN Ascii}
Code == [c \in Chars |-> CHOOSE i \in DOMAIN Ascii : Ascii[i] = c]
Between(a, b) == {c \in Chars : Code[a] <= Code[c] /\ Code[c] <= Code[b]}

At(p, i) == IF i < Len(p) THEN p[i + 1] ELSE "NUL"
CharAt(ms, i) == IF i < Len(ms.s) THEN ms.s[i + 1] ELSE ms.after

-------------------------------------------------------------------------------
(* One character against one item of a pattern *)

Lower == Between("a", "z")
Upper == Between("A", "Z")
Numeral == Between("0", "9")
Alnum == Lower \cup Upper \cup Numeral
ClassOf == [
  a |-> Lower \cup Upper, c |-> {"NUL", "\t", "\n", "\r"}, d |-> Numeral, l |-> Lower,
  p |-> Chars \ (Alnum \cup {"NUL", "\t", "\n", "\r", " "}), s |-> {"\t", "\n", "\r", " "},
  u |-> Upper, w |-> Alnum, x |-> Numeral \cup Between("A", "F") \cup Between("a", "f"),
  z |-> {"NUL"}]
Capital == [A |-> "a", C |-> "c", D |-> "d", L |-> "l", P |-> "p", S |-> "s", U |-> "u",
            W |-> "w", X |-> "x", Z |-> "z"]

match_class(c, cl) ==
  IF cl \in DOMAIN ClassOf THEN c \in ClassOf[cl]
  ELSE IF cl \in DOMAIN Capital THEN c \notin ClassOf[Capital[cl]]
  ELSE c = cl

\* The end of the set that starts at i (past the "[" and the "^"), or -1.
RECURSIVE SetEnd(_, _)
SetEnd(p, i) ==
  LET c == At(p, i)
      next == IF c = "%" /\ At(p, i + 1) # "NUL" THEN i + 2 ELSE i + 1
  IN  IF c = "NUL" THEN -1
      ELSE IF At(p, next) = "]" THEN next + 1
      ELSE SetEnd(p, next)

classend(p, i) ==
  CASE At(p, i) = "%" -> IF At(p, i + 1) = "NUL" THEN -1 ELSE i + 2
    [] At(p, i) = "[" -> SetEnd(p, IF At(p, i + 1) = "^" THEN i + 2 ELSE i + 1)
    [] OTHER -> i + 1

\* Is c in the set between i and ec, the place of its "]"?
RECURSIVE InSet(_, _, _, _)
InSet(c, p, i, ec) ==
  IF i >= ec THEN FALSE
  ELSE IF At(p, i) = "%" THEN match_class(c, At(p, i + 1)) \/ InSet(c, p, i + 2, ec)
  ELSE IF At(p, i + 1) = "-" /\ i + 2 < ec
       THEN c \in Between(At(p, i), At(p, i + 2)) \/ InSet(c, p, i + 3, ec)
  ELSE c = At(p, i) \/ InSet(c, p, i + 1, ec)

matchbracketclass(c, p, i, ec) ==
  IF At(p, i + 1) = "^" THEN ~ InSet(c, p, i + 2, ec) ELSE InSet(c, p, i + 1, ec)

singlematch(c, p, i, ep) ==
  CASE At(p, i) = "." -> TRUE
    [] At(p, i) = "%" -> match_class(c, At(p, i + 1))
    [] At(p, i) = "[" -> matchbracketclass(c, p, i, ep - 1)
    [] OTHER -> c = At(p, i)

-------------------------------------------------------------------------------
(* A pattern against a subject *)

\* The end of the balanced text that starts at i, with cont closings to come.
RECURSIVE Balanced(_, _, _, _, _)
Balanced(ms, i, b, e, cont) ==
  IF i >= Len(ms.s) THEN -1
  ELSE IF CharAt(ms, i) = e
       THEN IF cont = 1 THEN i + 1 ELSE Balanced(ms, i + 1, b, e, cont - 1)
  ELSE Balanced(ms, i + 1, b, e, IF CharAt(ms, i) = b THEN cont + 1 ELSE cont)

matchbalance(ms, i, p, j) ==
  IF At(p, j) = "NUL" \/ At(p, j + 1) = "NUL" \/ CharAt(ms, i) # At(p, j) THEN -1
  ELSE Balanced(ms, i + 1, At(p, j), At(p, j + 1), 1)

frontier(ms, i, p, j, ep) ==
  /\ ~ matchbracketclass(IF i = 0 THEN "NUL" ELSE CharAt(ms, i - 1), p, j, ep - 1)
  /\ matchbracketclass(CharAt(ms, i), p, j, ep - 1)

\* Does the item of p at j match the character of the subject at i?
Single(ms, i, p, j, ep) == i < Len(ms.s) /\ singlematch(CharAt(ms, i), p, j, ep)

\* How many times the item matches from i on, and each number down to none.
RECURSIVE Expanded(_, _, _, _, _)
Expanded(ms, i, p, j, ep) ==
  IF Single(ms, i, p, j, ep) THEN 1 + Expanded(ms, i + 1, p, j, ep) ELSE 0

RECURSIVE match(_, _, _, _), Shrink(_, _, _, _, _), min_expand(_, _, _, _, _)
match(ms, i, p, j) ==
  LET rest(k, q) == IF k = -1 THEN -1 ELSE match(ms, k, p, q)
      optional(k, ep) == IF k # -1 THEN k ELSE match(ms, i, p, ep + 1)
      max_expand(k, ep) == Shrink(ms, k, Expanded(ms, k, p, j, ep), p, ep)
      frontiers(end) == IF At(p, j + 2) # "[" \/ end = -1 THEN -1
                        ELSE rest(IF frontier(ms, i, p, j + 2, end) THEN i ELSE -1, end)
      item(ep, m, rep) ==
        CASE rep = "?" -> optional(IF m THEN match(ms, i + 1, p, ep + 1) ELSE -1, ep)
          [] rep \in {"*", "+"} ->
               IF rep = "+" /\ ~ m THEN -1
               ELSE max_expand(IF rep = "+" THEN i + 1 ELSE i, ep)
          [] rep = "-" -> min_expand(ms, i, p, j, ep)
          [] OTHER -> rest(IF m THEN i + 1 ELSE -1, ep)
      single(ep) == IF ep = -1 THEN -1 ELSE item(ep, Single(ms, i, p, j, ep), At(p, ep))
      special(c, d) ==
        CASE c = "%" /\ d = "b" -> rest(matchbalance(ms, i, p, j + 2), j + 4)
          [] c = "%" /\ d = "f" -> frontiers(classend(p, j + 2))
          [] c = "NUL" -> i
          [] c = "$" /\ d = "NUL" -> IF i = Len(ms.s) THEN i ELSE -1
          [] OTHER -> single(classend(p, j))
  IN  special(At(p, j), At(p, j + 1))
Shrink(ms, i, n, p, ep) ==
  LET tried(k) == IF k # -1 THEN k ELSE Shrink(ms, i, n - 1, p, ep)
  IN  IF n < 0 THEN -1 ELSE tried(match(ms, i + n, p, ep + 1))
min_expand(ms, i, p, j, ep) ==
  LET tried(k) == IF k # -1 THEN k
                  ELSE IF Single(ms, i, p, j, ep) THEN min_expand(ms, i + 1, p, j, ep)
                  ELSE -1
  IN  tried(match(ms, i, p, ep + 1))

\* The entry points.
lsb_string_match(ms, p) ==
  IF At(p, 0) = "^" THEN match(ms, 0, p, 1) # -1
  ELSE \E i \in 0 .. Len(ms.s) : match(ms, i, p, 0) # -1

\* memchr finds a place for the first character, memcmp compares the others.
RECURSIVE lmemfind(_, _, _)
lmemfind(s1, l1, s2) ==
  LET places == {i \in 1 .. l1 : s1[i] = s2[1]}
      init == CHOOSE i \in places : \A j \in places : i <= j
  IN  CASE s2 = <<>> -> TRUE
        [] Len(s2) > Len(s1) \/ places = {} -> FALSE
        [] SubSeq(s1, init, init + Len(s2) - 1) = s2 -> TRUE
        [] OTHER -> lmemfind(SubSeq(s1, init + 1, Len(s1)), l1 - init, s2)

lsb_string_find(ms, p) == lmemfind(ms.s, Len(ms.s) - (Len(p) - 1), p)

===============================================================================
