----------------------------- MODULE MCLuaSandbox -----------------------------
(***************************************************************************)
(* Coroutines for TLC: two globals with two values, sandboxes with and     *)
(* without an instruction limit, scripts with and without a version.       *)
(***************************************************************************)
EXTENDS Coroutines, TLC

CONSTANTS k1, k2, v0, v1

MCKeys == {k1, k2}
MCValues == {v0, v1}
MCVersions == {1}
NoVersions == {}
MCLimits == {0, 1}
NoLimit == {0}

Everywhere == PCs \ {"none"}
NotWhilePreserving == Everywhere \ {"preserving"}

KeySymmetry == Permutations(MCKeys)
===============================================================================
