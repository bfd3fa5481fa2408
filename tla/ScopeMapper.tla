---------------------------- MODULE ScopeMapper ----------------------------
(***************************************************************************)
(* The scope rules of trust/scope_mapper.py.  They are pure functions: the *)
(* KYA (Know Your Agent) level a scope needs, which of the requested       *)
(* scopes an authenticated agent is granted, and what is left of a parent  *)
(* token's scopes when it is delegated to an agent nobody authenticated.   *)
(* A set of scopes stands for the space-separated scope string.            *)
(***************************************************************************)
EXTENDS Integers

CONSTANT OtherScopes  \* scope strings outside the taxonomy

\* KYALevel
SANDBOX        == 0
ORGANIZATIONAL == 1
AUDITABLE      == 2

\* MCPScope
READ           == "mcp:read"
TOOL_INVOKE    == "mcp:tool:invoke"
TOOL_WRITE     == "mcp:tool:write"
TOOL_FINANCIAL == "mcp:tool:financial"
DELEGATE       == "mcp:delegate"

MCPScope == {READ, TOOL_INVOKE, TOOL_WRITE, TOOL_FINANCIAL, DELEGATE}
Scopes   == MCPScope \union OtherScopes

SCOPE_KYA_MAP ==
  [s \in MCPScope |->
     IF s \in {READ, TOOL_INVOKE} THEN SANDBOX
     ELSE IF s = TOOL_WRITE THEN ORGANIZATIONAL
     ELSE AUDITABLE]

\* A scope outside the taxonomy needs no more than the lowest level.
KyaForScope(s) == IF s \in MCPScope THEN SCOPE_KYA_MAP[s] ELSE SANDBOX

\* A ScopeDecision's reason: set only when the pilot allowlist refused financial.
NOT_IN_PILOT == "not_in_pilot_allowlist"
NO_REASON    == ""
Decision(granted, denied, refusedByPilot) ==
  [granted |-> granted,
   denied  |-> denied,
   reason  |-> IF refusedByPilot THEN NOT_IN_PILOT ELSE NO_REASON]

(***************************************************************************)
(* decide_scopes: a non-empty allowlist alone decides the financial scope; *)
(* the KYA map decides everything else.                                    *)
(***************************************************************************)
Grantable(s, agent, kya, allowlist) ==
  IF s = TOOL_FINANCIAL /\ allowlist # {}
  THEN agent \in allowlist
  ELSE KyaForScope(s) <= kya

DecideScopes(requested, agent, kya, allowlist) ==
  LET granted == {s \in requested : Grantable(s, agent, kya, allowlist)}
  IN  Decision(granted,
               requested \ granted,
               TOOL_FINANCIAL \in requested
                 /\ allowlist # {} /\ agent \notin allowlist)

(***************************************************************************)
(* narrow_delegated_scopes: the financial scope is set aside, the rest is  *)
(* decided under an empty allowlist at the parent's KYA, and financial is  *)
(* put back on the granted or on the denied side.                          *)
(***************************************************************************)
FinancialKept(actor, parentKya, allowlist) ==
  IF allowlist # {}
  THEN actor \in allowlist
  ELSE KyaForScope(TOOL_FINANCIAL) <= parentKya

NarrowDelegatedScopes(parentScopes, requested, actor, parentKya, allowlist) ==
  LET intersection == parentScopes \intersect requested
      base == DecideScopes(intersection \ {TOOL_FINANCIAL}, actor, parentKya, {})
      financial == intersection \intersect {TOOL_FINANCIAL}
      kept == FinancialKept(actor, parentKya, allowlist)
  IN  Decision(base.granted \union (IF kept THEN financial ELSE {}),
               base.denied \union (IF kept THEN {} ELSE financial),
               financial # {} /\ ~kept /\ allowlist # {})
============================================================================
