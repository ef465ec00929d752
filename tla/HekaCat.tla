-------------------------------- MODULE HekaCat --------------------------------
(***************************************************************************)
(* lsb_heka_cat (src/cli/lsb_heka_cat.c): prints, counts or copies the     *)
(* messages of a log, from its last -n messages on, and follows the log    *)
(* (-f) while another process appends to it.                               *)
(*                                                                         *)
(* The log is a sequence of bytes as in InputBuffer; standard output is    *)
(* followed only where it is a stream of frames again (-h).  A read of the *)
(* log does not fail.  Positions count from 0.                             *)
(***************************************************************************)
EXTENDS InputBuffer, FiniteSets

CONSTANTS
  Logs,         \* what is in the log in the end
  Options,      \* command lines: [follow, stdin, copy, num]; num = -1 without -n
  Matching,     \* first bytes of the messages that the -m expression matches
  MaxMissing    \* bytes of the log not yet written when it is opened with -f

ASSUME CatAssumption ==
  /\ Logs \subseteq Seq(Byte)
  /\ Options \subseteq
       [follow : BOOLEAN, stdin : BOOLEAN, copy : BOOLEAN, num : Nat \cup {-1}]
  /\ Matching \subseteq Byte /\ MaxMissing \in Nat
  /\ BUFSIZ >= MaxHeader      \* a header reaches at most into the next block

VARIABLES
  follow, use_stdin, num, copy,   \* the options; copy: -h
  log,        \* all that is ever written to the log
  len,        \* how much of it is written
  pc,         \* "open", "seek", "cat", "failed" or "exit"
  pos, consume, prev, cnt,        \* move_to_offset and find_header
  offset,     \* position of the FILE
  buf, size, scanpos, msglen,     \* lsb_input_buffer
  bytes_read, pcnt, mcnt,         \* the counters of main
  stdout,     \* the frames copied
  seen,       \* history: len when the end of the log was looked for
  start       \* history: where reading began

options == <<follow, use_stdin, num, copy, log>>
seeking == <<pos, consume, prev, cnt, seen>>
buffer == <<buf, size, scanpos, msglen>>
counters == <<bytes_read, pcnt, mcnt, stdout>>
vars == <<options, len, pc, seeking, offset, buffer, counters, start>>

Written == SubSeq(log, 1, len)

Init ==
  /\ \E o \in Options :
       follow = o.follow /\ use_stdin = o.stdin /\ copy = o.copy /\ num = o.num
  /\ log \in Logs
  /\ len \in IF follow THEN {n \in 0 .. Len(log) : n + MaxMissing >= Len(log)}
             ELSE {Len(log)}
  /\ pc = "open"
  /\ pos = 0 /\ consume = 0 /\ prev = <<>> /\ cnt = 0 /\ seen = 0
  /\ offset = 0 /\ start = 0
  /\ buf = <<>> /\ scanpos = 0 /\ msglen = 0
  /\ size = InitialSize
  /\ bytes_read = 0 /\ pcnt = 0 /\ mcnt = 0 /\ stdout = <<>>

-------------------------------------------------------------------------------
(* The backward search for the num-th last header *)

\* Bug variant: the block read before is not looked at.
ByteInBlock(cur, before, k) == IF k < Len(cur) THEN cur[k + 1] ELSE 0

\* Byte k of a block, or of the one behind it; the arrays start as zeros.
ByteAt(cur, before, k) ==
  IF k < Len(cur) THEN cur[k + 1]
  ELSE IF k - Len(cur) < Len(before) THEN before[k - Len(cur) + 1] ELSE 0

IsHeader(cur, before, i) ==
  /\ cur[i + 1] = RS
  /\ ByteAt(cur, before, i + 2) = TAG
  /\ ByteAt(cur, before, i + 2 + ByteAt(cur, before, i + 1)) = US

\* The n-th largest element of S
NthLast(S, n) == CHOOSE i \in S : Cardinality({j \in S : j >= i}) = n

\* main opens the log; without -n it is read from its beginning.
Open ==
  /\ pc = "open"
  /\ IF num >= 0 /\ ~use_stdin
     THEN /\ pc' = "seek"
          /\ seen' = len
          /\ consume' = IF len > BUFSIZ THEN BUFSIZ ELSE len
          /\ pos' = len - consume'
     ELSE pc' = "cat" /\ UNCHANGED <<seen, consume, pos>>
  /\ UNCHANGED <<options, len, prev, cnt, offset, buffer, counters, start>>

BeginsAt(p) == offset' = p /\ start' = p /\ pc' = "cat"

\* One round of move_to_offset: a block is read and searched by find_header,
\* whose counter is static; the next block is the one before it.
SeekBlock ==
  LET cur == SubSeq(Written, pos + 1, pos + consume)
      headers == {i \in 0 .. consume - 1 : IsHeader(cur, prev, i)}
      wanted == num - cnt
  IN  /\ pc = "seek" /\ consume > 0
      /\ IF wanted \in 1 .. Cardinality(headers)
         THEN /\ BeginsAt(pos + NthLast(headers, wanted))
              /\ UNCHANGED <<pos, consume, prev, cnt>>
         ELSE /\ cnt' = cnt + Cardinality(headers)
              /\ prev' = cur
              /\ IF pos >= consume
                 THEN pos' = pos - consume /\ UNCHANGED consume
                 ELSE consume' = pos /\ pos' = 0
              /\ UNCHANGED <<pc, offset, start>>
      /\ UNCHANGED <<options, len, buffer, counters, seen>>

\* Fewer headers than asked for: back to the beginning.
SeekEnds ==
  /\ pc = "seek" /\ consume = 0
  /\ BeginsAt(0)
  /\ UNCHANGED <<options, len, seeking, buffer, counters>>

-------------------------------------------------------------------------------
(* The loop of main *)

\* Bug variant: the loop ends where the log ends, with -f as well.
ContinuesToEnd(n) == n > 0

Continues(n) == n > 0 \/ follow

\* Bug variant: the tag is not counted in the header's length.
lsb_write_heka_header_untagged(n) == <<RS, 1, TAG, n, US>>

lsb_write_heka_header(n) == <<RS, 2, TAG, n, US>>

\* The message behind a header of its own.
output_heka(m) == lsb_write_heka_header(Len(m)) \o m

lsb_eval_message_matcher(m) == m[1] \in Matching

\* A message in the buffer is counted and, if it matches, output.
Process ==
  \E r \in {lsb_find_heka_message(buf, scanpos, msglen, TRUE)} :
      /\ pc = "cat" /\ r.found
      /\ buf' = r.buf /\ scanpos' = r.scanpos /\ msglen' = r.msglen
      /\ pcnt' = pcnt + 1
      /\ IF lsb_eval_message_matcher(r.message)
         THEN /\ mcnt' = mcnt + 1
              /\ stdout' = IF copy THEN stdout \o output_heka(r.message) ELSE stdout
         ELSE UNCHANGED <<mcnt, stdout>>
      /\ pc' = IF Continues(bytes_read) THEN "cat" ELSE "exit"
      /\ UNCHANGED <<options, len, seeking, offset, size, bytes_read, start>>

\* Otherwise read_file expands the buffer and fills it; at the end of the log
\* main sleeps and tries again (-f) or exits.
Read ==
  \E r \in {lsb_find_heka_message(buf, scanpos, msglen, TRUE)} :
  \E e \in {Expand(r.buf, r.scanpos, size, Need(r, size))} :
  LET room == e.size - Len(e.buf)
      n == IF room < len - offset THEN room ELSE len - offset
  IN  /\ pc = "cat" /\ ~r.found
      /\ msglen' = r.msglen /\ scanpos' = r.scanpos - e.by
      /\ IF e.ok
         THEN /\ buf' = e.buf \o SubSeq(Written, offset + 1, offset + n)
              /\ size' = e.size
              /\ offset' = offset + n
              /\ bytes_read' = n
              /\ pc' = IF Continues(n) THEN "cat" ELSE "exit"
         ELSE /\ buf' = e.buf /\ pc' = "failed"
              /\ UNCHANGED <<size, offset, bytes_read>>
      /\ UNCHANGED <<options, len, seeking, pcnt, mcnt, stdout, start>>

\* Another process appends to the log, any number of bytes at a time.
LogGrows ==
  /\ follow
  /\ len' \in len + 1 .. Len(log)
  /\ UNCHANGED <<options, pc, seeking, offset, buffer, counters, start>>

Cat == Open \/ SeekBlock \/ SeekEnds \/ Process \/ Read

Next == Cat \/ LogGrows

\* The tool goes on; nothing is assumed of the process that writes the log.
Spec == Init /\ [][Next]_vars /\ WF_vars(Cat)

-------------------------------------------------------------------------------
(* Properties *)

\* "-n output the last # of messages (simple header check so not 100%
\* accurate)": reading begins at the #-th last place of the log, as long as it
\* was, that passes the simple check, wherever the blocks of the backward
\* search (move_to_offset, find_header) happened to cut it; at the beginning if
\* there are fewer.  (The code takes -n 0 for "all", which is left out.)
StartsAtHeader ==
  pc \notin {"open", "seek"} /\ num > 0 /\ ~use_stdin =>
    LET s == SubSeq(log, 1, seen)
        at(k) == IF k <= seen THEN s[k] ELSE 0
        places == {i \in 1 .. seen :
                     s[i] = RS /\ at(i + 2) = TAG /\ at(i + 2 + at(i + 1)) = US}
    IN  start = IF Cardinality(places) < num THEN 0 ELSE NthLast(places, num) - 1

\* The messages of a sequence that match, in their order.
Matched(messages) ==
  LET matched[n \in 0 .. Len(messages)] ==
        IF n = 0 THEN <<>>
        ELSE IF lsb_eval_message_matcher(messages[n])
        THEN Append(matched[n - 1], messages[n])
        ELSE matched[n - 1]
  IN  matched[Len(messages)]

Expected == Matched(Parse(SubSeq(log, start + 1, len), 0, TRUE))

\* What has been output are messages of the log in the order of the log, and
\* "-h output the messages as a Heka protobuf stream": the copy holds exactly
\* the messages that were matched and counted, with the headers output_heka
\* makes for them, whatever the headers in the log were like.
CopyReadsBack ==
  copy => \E messages \in {Parse(stdout, 0, TRUE)} :
            /\ Len(messages) = mcnt
            /\ messages = SubSeq(Expected, 1, mcnt)

CaughtUp ==
  /\ pc \in {"cat", "exit"}
  /\ mcnt = Len(Expected)
  /\ pcnt = Len(Parse(SubSeq(log, start + 1, len), 0, TRUE))

\* "-f output appended data as the file grows": all messages in the log, those
\* that were written in pieces while the tool was reading included, are
\* processed and counted in the end; without -f the tool ends.
CatchesUp == []<>CaughtUp /\ (~follow => <>(pc = "exit"))
===============================================================================
