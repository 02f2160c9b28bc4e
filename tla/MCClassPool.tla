------------------------------ MODULE MCClassPool ------------------------------
(* A pool of 16 slots at most (half of CountLimit), names that coincide     *)
(* with the fixed strings of the code, and a realloc that fails.            *)
EXTENDS ClassPool

MCMembers == {<<"b", "a", "b">>}
MCOperations == {"a", "b"}
MCSites == {<<"b", "a">>}
=============================================================================
