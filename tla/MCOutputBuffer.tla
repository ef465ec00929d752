----------------------------- MODULE MCOutputBuffer -----------------------------
(* A first block of 4 bytes; no limit and limits below, at and above it; texts *)
(* that take two doublings; varints of up to 3 bytes in base 2.                *)
EXTENDS OutputBuffer
===============================================================================
