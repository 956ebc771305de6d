--------------------------- MODULE MCCompilation ----------------------------
(* Two backends, with devices that support different settings; two          *)
(* libraries, of which one registers both backends and the other a second   *)
(* time one of them.                                                        *)
EXTENDS Compilation

MCLibraries == {<<"v1", 1>>, <<"v1", 2>>, <<"v2", 2>>}

MCSupported == [id \in BackendIDs |-> IF id = 1 THEN {"cache"} ELSE {"performance", "cache"}]
=============================================================================
