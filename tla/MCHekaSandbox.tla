---------------------------- MODULE MCHekaSandbox ----------------------------
(***************************************************************************)
(* HekaSandbox for TLC: two messages, sandboxes with and without an        *)
(* instruction limit.                                                      *)
(***************************************************************************)
EXTENDS MessageReads, TLC

CONSTANTS m1, m2

MCMessages == {m1, m2}
AllTypes == {"i", "a", "o"}
MCLimits == {0, 1}
MCArguments == {"framed", NoSupport}

MessageSymmetry == Permutations(MCMessages)
===============================================================================
