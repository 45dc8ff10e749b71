---------------------------- MODULE MCHeaderMerge ----------------------------
(***************************************************************************)
(* HeaderMerge with the names the middleware derives, at their real sizes, *)
(* and three names long enough to fill the stack array exactly, to exceed  *)
(* it by one byte, and to exceed it alone.                                 *)
(***************************************************************************)
EXTENDS HeaderMerge

MCTokens == {"*", "true", "Origin", "ORIGIN", "ACRM", "ACRH", "Accept",
             "fills", "exceeds", "huge", "a", "b"}

MCSize == [t \in MCTokens |->
    CASE t \in {"Origin", "ORIGIN", "Accept"} -> 6
      [] t = "ACRM"    -> 29
      [] t = "ACRH"    -> 30
      [] t = "fills"   -> 57
      [] t = "exceeds" -> 58
      [] t = "huge"    -> 130
      [] OTHER         -> 1]
MCLower == [t \in MCTokens |-> IF t = "ORIGIN" THEN "Origin" ELSE t]

None == [n \in HeaderName |-> <<>>]

\* No Vary, an empty one, one in capitals, `*', several lines, one name twice.
MCResponses ==
    {None,
     [None EXCEPT !["Vary"] = <<Joined(<<>>)>>],
     [None EXCEPT !["Vary"] = <<Joined(<<"ORIGIN">>)>>, !["ACAO"] = <<<<"b">>, <<"*">>>>],
     [None EXCEPT !["Vary"] = <<Joined(<<"*">>), Joined(<<"Accept", "ACRM">>)>>],
     [None EXCEPT !["Vary"] = <<Joined(<<"huge", "huge">>)>>, !["ACAC"] = <<<<"true">>>>]}

Varies ==
    {<<"Origin">>, <<"Origin", "ACRM">>, <<"Origin", "ACRM", "ACRH">>,
     <<"Origin", "ACRM", "ACRH", "fills">>, <<"Origin", "ACRM", "ACRH", "exceeds">>,
     <<"huge">>, <<"huge", "Origin", "Accept">>,
     <<"exceeds", "fills", "ACRM", "Accept">>, <<"Accept", "Accept">>}

MCHeaderBufs ==
    {<<<<"Vary", Joined(v)>>>> : v \in Varies}
    \cup {<<<<"Vary", Joined(v)>>, <<"ACAO", <<"a">>>>, <<"ACAC", <<"true">>>>>> : v \in Varies}
    \cup {<<<<"ACAO", <<"a">>>>>>}
===============================================================================
