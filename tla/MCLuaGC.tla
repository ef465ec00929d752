------------------------------- MODULE MCLuaGC -------------------------------
(* TLC instance of LuaGC: a few small programs, each with the operations on     *)
(* some kinds of objects.                                                       *)
EXTENDS LuaGC

Program(kinds, strings, objects, n, stack) ==
    [kinds |-> kinds, strings |-> strings, objects |-> objects, ops |-> n, stack |-> stack]

MCPrograms == {
    Program({"table", "weak", "push"}, 0, 3, 5, 1),
    Program({"table", "weak", "string"}, 1, 2, 5, 1),
    Program({"table", "push"}, 0, 2, 6, 1),
    Program({"table", "userdata"}, 0, 2, 7, 2),
    Program({"coroutine", "string"}, 1, 4, 4, 2),
    Program({"coroutine", "closure"}, 0, 5, 3, 2),
    Program({"closure", "string", "local"}, 1, 5, 6, 2),
    Program({"cclosure", "string"}, 1, 2, 6, 1),
    Program({"proto", "closure", "string"}, 1, 4, 4, 2),
    Program({"thread", "table", "shrink"}, 0, 2, 4, 1),
    Program({"string", "shrink"}, 3, 3, 3, 3)}
=============================================================================
