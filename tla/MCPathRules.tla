------------------------------ MODULE MCPathRules ------------------------------
(* PathRules with two hosted apps, one of them without a local port, and   *)
(* declarations that nest in one another, in a static mount and next to    *)
(* the Host's own pages.                                                   *)
EXTENDS PathRules

MCHostPaths == {<<"">>, <<"login">>}

MCHostNav == {<<"settings">>, <<"login">>}

MCNavPaths == {<<"library">>, <<"login">>}

MCPrefixes == {<<"library">>, <<"library", "", "">>, <<"settings", "tiles">>}

MCRequests ==
  {<<"">>, <<"login">>, <<"settings">>, <<"health">>,
   <<"settings", "tiles">>, <<"settings", "tiles", "1">>,
   <<"library">>, <<"library", "1">>, <<"library", "static">>, <<"library", "static", "css">>,
   <<"tiles", "static">>, <<"tiles", "static", "css">>}
=============================================================================
