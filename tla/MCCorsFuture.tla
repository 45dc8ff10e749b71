----------------------------- MODULE MCCorsFuture -----------------------------
(***************************************************************************)
(* CorsFuture on small instances: the requests, builders, tables and inner *)
(* outcomes its runs choose from.                                          *)
(***************************************************************************)
EXTENDS CorsFuture

CONSTANTS r1, r2

MCTokens == {"*", "true", "Origin", "ACRM", "ACRH", "a", "b", "c", "GET",
             "x", "bad x", "600", "Accept"}
\* Origins hold a `:', so none of them is an HTTP token; `bad x' holds a space.
MCHttpTokens == MCTokens \ {"a", "b", "c", "bad x"}

Get(origin) == [method |-> "GET", origin |-> origin, acrm |-> Absent,
                acrh |-> Absent, sec_websocket_version |-> FALSE]
Upgrade(origin) == [Get(origin) EXCEPT !.sec_websocket_version = TRUE]
Preflight(origin, acrh) ==
    [Get(origin) EXCEPT !.method = "OPTIONS", !.acrm = {"GET"}, !.acrh = acrh]

\* Allowed, disallowed, absent, a list that smuggles one origin beside another, and a value
\* that names none.
MCRequests ==
    {Get({"a"}), Get({"b"}), Get(Absent), Get({"a", "b"}), Get({}),
     Upgrade({"b"}), Upgrade(Absent),
     Preflight({"a"}, {"x", "bad x"}), Preflight({"b"}, Absent), Preflight(Absent, {"x"})}

TwoRequests == {Get({"a"}), Preflight({"a"}, Absent)}

Full == [Default EXCEPT !.allow_credentials = "Predicate",
                        !.expose_headers = {"x"}, !.max_age = {"600"}]

From(c, kind, value) == [c EXCEPT !.allow_origin = [kind |-> kind, value |-> value]]

\* Every kind of policy; both ways to treat the disallowed; preflights delivered or not.
MCSettings ==
    {From(Full, "List", {"a", "c"}),
     [From(Full, "List", {"a"}) EXCEPT !.deliver_non_allowed_origin = FALSE,
                                       !.deliver_preflight = TRUE],
     [From(Default, "Const", Wildcard) EXCEPT !.vary = Absent, !.vary_pinned = TRUE],
     [From(Full, "Predicate", {}) EXCEPT
          !.deliver_non_allowed_origin_websocket_upgrade = TRUE],
     [From(Default, "MirrorRequest", {}) EXCEPT !.allow_credentials = "Predicate"],
     [From(Full, "AsyncPredicate", {}) EXCEPT !.allow_credentials = "Yes"],
     [From(Full, "AsyncPredicate", {}) EXCEPT !.deliver_non_allowed_origin = FALSE,
          !.deliver_preflight = TRUE, !.rejection_status = 403]}

TwoSettings ==
    {[From(Full, "AsyncPredicate", {}) EXCEPT !.deliver_non_allowed_origin = FALSE]}

ExactSettings ==
    {[From(Default, "Const", {"a"}) EXCEPT !.deliver_non_allowed_origin = FALSE,
                                           !.allow_credentials = "Yes"]}

AllSettings == MCSettings \cup ExactSettings

MCTables == {{}, {{"a"}}}

\* An inner service with CORS headers of its own, and one that fails.
MCOutcomes ==
    {Ok(200, [NoHeaders EXCEPT !["Vary"] = {"Accept", "Origin"}, !["ACAO"] = {"c"}]), Err}
===============================================================================
