------------------------------- MODULE MCHekaCat -------------------------------
(* Bytes 0 .. 4 and messages of up to two bytes as in MCStreamReader; blocks  *)
(* of 7 bytes and a buffer that grows from 7 to 9.                            *)
EXTENDS HekaCat

\* RS = 3, US = 4, TAG = 1, BAD = 0
Frame(m) == <<3, 2, 1, Len(m), 4>> \o m

MCPieces ==
  { Frame(<<2>>), Frame(<<1, 3>>),   \* one that matches and one that does not
    Frame(<<0, 3>>) \o <<2, 1, 1, 4, 2>>,  \* cannot be decoded, but from its RS on
    <<3, 1, 1, 0>>,                  \* no US where the header ends
    <<3, 4, 1, 2, 0, 0, 4, 2, 4>> }  \* the longest header and message

\* Three pieces put every header across every boundary of blocks.
MCLogs == {p \o q \o r : p \in MCPieces \cup {<<0>>}, q \in MCPieces, r \in MCPieces}

\* Copying with no -n and as many as there are, fewer and more; following;
\* reading standard input, where -n is ignored.
MCOptions ==
  [follow : {FALSE}, stdin : {FALSE}, copy : {TRUE}, num : -1 .. 4]
  \cup [follow : {TRUE}, stdin : {FALSE}, copy : {FALSE}, num : {-1, 2}]
  \cup [follow : {FALSE}, stdin : {TRUE}, copy : {TRUE}, num : {1}]
===============================================================================
