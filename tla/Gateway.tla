------------------------------ MODULE Gateway ------------------------------
(***************************************************************************)
(* The authorization server together with the endpoint its tokens are for. *)
(* mcp_endpoint (server.py) looks at nothing but the token: tools/call is  *)
(* judged by claims that were read at the exchange before the token was    *)
(* minted, for as long as the token is valid.  What the exchange says of   *)
(* the agent by then is what this composition is about.                    *)
(*                                                                         *)
(* The gateway mints tokens of depth 0, whose effective trust is their     *)
(* reputation.                                                             *)
(***************************************************************************)
EXTENDS TokenIssuance

CONSTANTS
  Tools,      \* what a tool asks of its callers: [kya, reputation]
  TokenTTL    \* lifetime of an access token

VARIABLES
  mintedAt,   \* the iat claim of every token
  forwarded   \* tools/call requests sent upstream: [token, tool] (history)

gatewayVars == <<vars, mintedAt, forwarded>>

ASSUME ToolsAssumption == Tools \subseteq [kya : Nat, reputation : Nat]
ASSUME TokenTTLAssumption == TokenTTL \in Nat

----------------------------------------------------------------------------
\* decode_jwt: PyJWT refuses a token at its exp.
\* (Mutant: expiry is not looked at.)
Valid_Always(t) == TRUE
Valid(t) == now < mintedAt[t] + TokenTTL

\* evaluate at depth 0.
Allows(t, tool) == t.kya >= tool.kya /\ t.reputation >= tool.reputation

GatewayInit ==
  /\ Init
  /\ mintedAt = [t \in {} |-> now]
  /\ forwarded = {}

\* The authorization server takes a step; a token it mints is dated.
IssuanceStep ==
  /\ Next
  /\ mintedAt' = [t \in tokens' |-> IF t \in tokens THEN mintedAt[t] ELSE now]
  /\ UNCHANGED forwarded

\* mcp_endpoint forwards a tools/call; a refused one changes nothing.
CallTool(t, tool) ==
  /\ Valid(t)
  /\ Allows(t, tool)
  /\ forwarded' = forwarded \union {[token |-> t, tool |-> tool]}
  /\ UNCHANGED <<vars, mintedAt>>

GatewayNext ==
  \/ IssuanceStep
  \/ \E t \in tokens, tool \in Tools : CallTool(t, tool)

GatewaySpec == GatewayInit /\ [][GatewayNext]_gatewayVars

----------------------------------------------------------------------------
(* Properties *)

NewCalls == forwarded' \ forwarded

\* Whoever calls a tool has the standing it asks for (a reputation up to half a
\* fourth digit below is rounded to it), or lost it so recently that the token
\* was minted, from readings taken, before that: a downgrade, a loss of reputation
\* and (for client_credentials) a suspension end an agent's calls within a token's
\* lifetime and the lag of its claims.  Only the default reputation that
\* authorize_endpoint assumes has no such end.
Reaches(acct, required) ==
  acct.reputation # None /\ 2 * (required - acct.reputation) <= Grain
StandingStep ==
  \A c \in NewCalls : LET t == c.token
                          a == account[t.agent]
                          lostWithin(lag) == now - changedAt[t.agent] < TokenTTL + lag
    IN /\ KyaLevel(a) >= c.tool.kya \/ lostWithin(KyaLag(t))
       /\ \/ Reaches(a, c.tool.reputation)
          \/ lostWithin(ReputationLag(t))
          \/ t.code # None /\ DefaultReputation >= c.tool.reputation
       /\ t.code = None => a.active \/ lostWithin(2 * CallBound)
StandingIsCurrent == [][StandingStep]_gatewayVars

\* src/SPEC.md, sections 4.2 and 6.1: a call is judged by the agent's current
\* reputation (which may be rounded).
LiveStep ==
  \A c \in NewCalls : Reaches(account[c.token.agent], c.tool.reputation)
JudgedByLiveReputation == [][LiveStep]_gatewayVars

----------------------------------------------------------------------------
\* Why: a token's claims were its agent's standing when it was minted, or the
\* agent lost it no longer before that than the claims' lag.
TokenHonest(t) ==
  LET a == account[t.agent]
      changedSince(lag) == changedAt[t.agent] >= mintedAt[t] - lag
  IN /\ t.agent \in Agents
     /\ mintedAt[t] <= now
     /\ t.kya = KyaLevel(a) \/ changedSince(KyaLag(t))
     /\ \/ Says(t, a)
        \/ changedSince(ReputationLag(t))
        \/ t.code # None /\ t.reputation = DefaultReputation
     /\ t.code = None => a.active \/ changedSince(2 * CallBound)
TokensHonest ==
  /\ mintedAt \in [tokens -> Time]
  /\ \A t \in tokens : TokenHonest(t)

GatewayInv == IInv /\ TokensHonest
============================================================================
