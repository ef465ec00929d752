----------------------------- MODULE MCStreamReader -----------------------------
(* Bytes 0 .. 4, messages of up to two bytes, a buffer of 8 that grows to 9. *)
EXTENDS StreamReader

\* RS = 3, US = 4, TAG = 1, BAD = 0
Frame(m) == <<3, 2, 1, Len(m), 4>> \o m

MCPieces ==
  { Frame(<<2>>), Frame(<<2, 3>>),     \* good, the second with an RS in it
    Frame(<<0, 3>>) \o <<2, 1, 1, 4, 2>>,  \* cannot be decoded, but from its RS on
    <<3, 2, 1, 4, 4>>,                 \* too long a message
    <<3, 1, 1, 0>>,                    \* no US where the header ends
    <<3>>, <<0>>,                      \* junk
    <<3, 4, 1, 2, 0, 0, 4, 2, 2>> }    \* the longest header and message

MCStreams == {p \o q \o r : p \in MCPieces, q \in MCPieces, r \in {<<>>, Frame(<<2>>)}}

MCMessages == {<<2>>, <<0>>, <<2, 2, 2, 2, 2, 2, 2, 2, 2>>}

===============================================================================
