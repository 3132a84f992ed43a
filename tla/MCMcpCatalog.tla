---------------------------- MODULE MCMcpCatalog ----------------------------
(* A network server whose transport is detected and a WASM server; one name   *)
(* is not configured.  A server may offer other tools when asked again.       *)
EXTENDS McpCatalog

MCDoes == [o \in Ops |-> CASE o = 1 -> {"activate"}
                           [] o = 2 -> {"search"}
                           [] o = 3 -> {"activate", "call"}
                           [] OTHER -> {"call"}]
MCTransport == [a |-> "auto", w |-> "wasm"]
MCInventories == {<<"t">>, <<"u", "t">>}
MCSkills == {<<"a", "a">>, <<"a", "w">>, <<"x">>}
MCGranted == {<<"a", "t">>, <<"w", "t">>}
=============================================================================
