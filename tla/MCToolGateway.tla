--------------------------- MODULE MCToolGateway ---------------------------
(* Values for the constants of ToolGateway.  Model values come from the cfg. *)
EXTENDS ToolGateway

CONSTANTS s1, s2, u1, u2, pay, look, none, malformed, failure, blank

Ask(kya, reputation, scope, economic) ==
  [kya |-> kya, reputation |-> reputation, scope |-> scope, economic |-> economic]
Open   == Ask(SANDBOX, 0, TOOL_INVOKE, FALSE)
Strict == Ask(AUDITABLE, 8, TOOL_FINANCIAL, TRUE)
Tool(name, trust) == [name |-> name, trust |-> trust]

\* The same tool strict, open, without annotation, and twice; a list that stops
\* in the middle; one with a nameless entry.
AllListings ==
  {<<Tool(pay, Strict)>>,
   <<Tool(pay, none), Tool(look, Strict)>>,
   <<Tool(look, none), Tool(pay, malformed), Tool(look, Strict)>>,
   <<Tool(blank, malformed), Tool(pay, Open), Tool(pay, Strict)>>}
StrictListing == {<<Tool(pay, Strict)>>, <<Tool(pay, none)>>}

Server(id, url) == [id |-> id, url |-> url]
TwoServers == <<Server(s1, u1), Server(s2, u2)>>
\* The two servers, one alone, and both the other way round, one of them listed
\* again under another url, next to an unusable entry.
AllEnvironments ==
  {TwoServers, <<Server(s1, u1)>>,
   <<Server(s2, u1), Server(s1, blank), Server(s1, u1), Server(s2, u2)>>}
TwoOrNone == {TwoServers, <<>>}

\* Enough for every tool but for the scope of the strict one; the scope, but enough
\* for the open ones only; and no budget.
AllTokens ==
  {[kya |-> AUDITABLE, trust |-> 9, limit |-> 1, scopes |-> {TOOL_INVOKE}],
   [kya |-> SANDBOX, trust |-> 9, limit |-> 1, scopes |-> {TOOL_FINANCIAL}]}
NoBudget ==
  {[kya |-> AUDITABLE, trust |-> 9, limit |-> 0, scopes |-> {TOOL_FINANCIAL}]}
============================================================================
