-------------------------- MODULE MCSignedRequests --------------------------
EXTENDS SignedRequests

Scenario(v, given, flaw, access, ops, number, together, headers, drifts, until) ==
  [venue |-> v, given |-> given, flaw |-> flaw, access |-> access, ops |-> ops,
   number |-> number, together |-> together, headers |-> headers, drifts |-> drifts, until |-> until]

\* Headers: the last request used up, none at all, another limit than expected.
Spent == [limit |-> TRUE, remain |-> 0, used |-> 5, reset |-> TRUE]
Bare == [limit |-> FALSE, remain |-> -1, used |-> -1, reset |-> FALSE]
Foreign == [limit |-> FALSE, remain |-> 1, used |-> 0, reset |-> FALSE]

AllOps == PublicOps \cup PrivateOps

\* Quotas below, at and above the cost of the dearest request of each client.
Given == {-1, 1, 3, 4, 9, 10, 15, 24, 25, 101}

Configured ==
  UNION {{Scenario(v, g, "none", "full", AllOps, 1, FALSE, Bare, {0}, 0) : g \in Given} : v \in Venues \ {"binance", "usdm"}}
  \cup {Scenario(v, 0, flaw, "full", {"query"}, 1, FALSE, Bare, {0}, 0) : v \in Venues, flaw \in {"url", "no_provider", "window"}}
  \cup {Scenario(v, 0, "none", access, {"query"}, 1, FALSE, Bare, {0}, 0) : v \in Venues, access \in {"none", "route"}}
  \cup {Scenario(v, 0, "none", "full", {"query"}, 1, FALSE, Foreign, {-3}, 0) : v \in Venues}

\* Any two requests, one after the other.
Pairs == {Scenario(v, 0, "none", "full", AllOps, 2, FALSE, Spent, {0}, 0) : v \in Venues}

\* Concurrent signed calls under a clock that is set back or stands still.
Nonces ==
  {Scenario("kraken", 0, "none", "full", {"place"}, 3, TRUE, Bare, {0, -1}, 0),
   Scenario("kraken_futures", 0, "none", "full", {"query"}, 2, TRUE, Bare, {0, -2}, 0)}

Stamps(v, drifts, until) == Scenario(v, 0, "none", "full", {"time", "query"}, 2, TRUE, Bare, drifts, until)

MCScenarios ==
  Configured \cup Pairs \cup Nonces
  \cup {Stamps("binance", {0, 3}, 1), Stamps("okx", {3}, 2), Stamps("bybit", {-1}, 1)}
UsdmScenarios == {Stamps("usdm", {0}, 3)}
QuotaScenarios == {Scenario(v, 4, "none", "full", AllOps, 1, FALSE, Bare, {0}, 0) : v \in LaxNew}
MCReported == {0, 250}
=============================================================================
