---------------------------- MODULE MCCorsBuilder ----------------------------
(***************************************************************************)
(* CorsBuilder with a few arguments for every setter and the requests that *)
(* tell the configurations apart.                                          *)
(***************************************************************************)
EXTENDS CorsBuilder

MCTokens == {"*", "true", "Origin", "ACRM", "ACRH", "a", "GET", "PUT", "x", "600", "Accept"}
MCHttpTokens == MCTokens \ {"a"}

MCTables == {{{"a"}}}

MCRequests ==
    [method : {"GET"}, origin : {Absent, {"a"}, Wildcard}, acrm : {Absent}, acrh : {Absent},
     sec_websocket_version : {FALSE}]
    \cup [method : {"OPTIONS"}, origin : {Absent, {"a"}}, acrm : {{"GET"}, {"PUT"}},
          acrh : {Absent, {"x"}}, sec_websocket_version : {FALSE}]
    \cup [method : {"OPTIONS"}, origin : {{"a"}}, acrm : {Wildcard},
          acrh : {{"*", "a"}}, sec_websocket_version : {FALSE}]
===============================================================================
