--------------------------- MODULE MCProcessSetup ---------------------------
(* Up to three settings together, and paths inside one another.            *)
EXTENDS ProcessSetup

MCDescriptors == {{}} \cup {{x, y, z} : x, y, z \in Settings}
MCPaths == {<<>>, <<"var">>, <<"var", "lib">>}
=============================================================================
