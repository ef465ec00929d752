----------------------------- MODULE MCLuaTable -----------------------------
(* Small tables: three or four integer keys, of which the low ones belong in   *)
(* the array part, and two strings, whose hashes collide in a small table.     *)
EXTENDS LuaTable

CONSTANTS a, b

MCHash == a :> 1 @@ b :> 3
=============================================================================
