--------------------------- MODULE GatewayProofs ---------------------------
(***************************************************************************)
(* How stale the verdict on a tools/call can be, for any agents, requests, *)
(* accounts, tools and lifetimes.  What TokenIssuanceProofs shows of a     *)
(* token as it is minted is kept as long as the token is.                  *)
(***************************************************************************)
EXTENDS Gateway, TokenIssuanceProofs

LEMMA TokensKept ==
  ASSUME Next
  PROVE  tokens \subseteq tokens'
  BY DEF Next, Arrives, CallEnds, Resume, RefuseOutright,
         StartClientCredentials, AuthorizeCached, AuthorizeLookup, RefuseCode,
         RedeemCode, Mint, MintClientToken, exchange, process, history,
         ExchangeAnswers, ExchangeFails, ExchangeRejects, BalanceRefused,
         BalanceAccepted, ReputationReceived, CardRefused, StoreCode,
         ExchangeUpdates, Restart, Tick

\* The clock moves by Tick alone, and an account moves with its changedAt.
LEMMA ClockAndAccounts ==
  ASSUME IInv, Next
  PROVE  /\ now \in Int /\ now' \in {now, now + 1}
         /\ \A a \in Agents : \/ account'[a] = account[a] /\ changedAt'[a] = changedAt[a]
                              \/ changedAt'[a] = now
<1>. USE DEF exchange, process, history
<1>0. TypeOK /\ now \in Int
  BY BoundsAssumption DEF IInv, TypeOK, Time
<1>1. CASE Tick
  BY <1>0, <1>1 DEF Tick
<1>2. CASE \E a \in Agents : ExchangeUpdates(a)
  BY <1>0, <1>2 DEF ExchangeUpdates, TypeOK
<1>3. CASE UNCHANGED <<now, account, changedAt>>
  BY <1>0, <1>3
<1>. QED
  BY <1>1, <1>2, <1>3
  DEF Next, Arrives, CallEnds, Resume, RefuseOutright,
      StartClientCredentials, AuthorizeCached, AuthorizeLookup, RefuseCode,
      RedeemCode, MintClientToken, ExchangeAnswers, ExchangeFails,
      ExchangeRejects, BalanceRefused, BalanceAccepted, ReputationReceived,
      CardRefused, StoreCode, Restart

LEMMA Lags ==
  ASSUME NEW t
  PROVE  KyaLag(t) \in Nat /\ ReputationLag(t) \in Nat /\ 2 * CallBound \in Nat
  BY BoundsAssumption DEF KyaLag, ReputationLag

\* A token is honest when it is minted ...
LEMMA MintedHonest ==
  ASSUME GatewayInv, IssuanceStep, NEW t \in tokens' \ tokens
  PROVE  TokenHonest(t)' /\ mintedAt'[t] \in Time
<1>1. /\ IInv /\ [Next]_vars /\ t \in NewTokens /\ mintedAt'[t] = now
      /\ TypeOK /\ now \in Time
  BY DEF GatewayInv, IInv, TypeOK, IssuanceStep, NewTokens
<1>2. PICK r \in Requests : MintClientToken(r) \/ RedeemCode(r)
  BY <1>1, MintingSteps
<1>3. UNCHANGED <<now, account, changedAt>>
  BY <1>2 DEF MintClientToken, RedeemCode, exchange
<1>4. /\ t.agent \in Agents
      /\ t.kya = KyaLevel(account[t.agent]) \/ ChangedWithin(t.agent, KyaLag(t))
      /\ \/ Says(t, account[t.agent])
         \/ ChangedWithin(t.agent, ReputationLag(t))
         \/ t.code # None /\ t.reputation = DefaultReputation
      /\ t.code = None => \/ account[t.agent].active
                          \/ ChangedWithin(t.agent, 2 * CallBound)
  <2>1. CASE MintClientToken(r)
    <3>1. CallBound + 0 = CallBound
      BY BoundsAssumption
    <3>. QED
      BY <1>1, <2>1, <3>1, ClientToken DEF KyaLag, ReputationLag
  <2>2. CASE RedeemCode(r)
    BY <1>1, <2>2, CodeToken DEF KyaLag, ReputationLag
  <2>. QED
    BY <1>2, <2>1, <2>2
<1>5. \A lag \in Nat : ChangedWithin(t.agent, lag) => changedAt[t.agent] >= now - lag
  <2>1. now \in Int /\ changedAt[t.agent] \in Int
    BY <1>1, <1>4, BoundsAssumption DEF TypeOK, Time
  <2>. QED
    BY <2>1 DEF ChangedWithin
<1>6. now <= now
  BY <1>1, BoundsAssumption DEF Time
<1>. QED
  BY <1>1, <1>3, <1>4, <1>5, <1>6, Lags DEF TokenHonest, KyaLag, ReputationLag

\* ... and stays so, because what the exchange changes later it changes since.
LEMMA HonestStays ==
  ASSUME GatewayInv, IssuanceStep, NEW t \in tokens
  PROVE  TokenHonest(t)' /\ mintedAt'[t] \in Time
<1>1. IInv /\ Next /\ TokenHonest(t) /\ mintedAt[t] \in Time
  BY DEF GatewayInv, TokensHonest, IssuanceStep
<1>2. mintedAt'[t] = mintedAt[t]
  BY <1>1, TokensKept DEF IssuanceStep
<1>3. /\ now \in Int /\ now' \in {now, now + 1} /\ mintedAt[t] \in Int
      /\ t.agent \in Agents /\ mintedAt[t] <= now
      /\ \/ account'[t.agent] = account[t.agent] /\ changedAt'[t.agent] = changedAt[t.agent]
         \/ changedAt'[t.agent] = now
  BY <1>1, ClockAndAccounts, BoundsAssumption DEF TokenHonest, Time
<1>4. \A lag \in Nat : changedAt'[t.agent] = now => changedAt'[t.agent] >= mintedAt[t] - lag
  BY <1>3
<1>5. mintedAt[t] <= now'
  BY <1>3
<1>. QED
  BY <1>1, <1>2, <1>3, <1>4, <1>5, Lags DEF TokenHonest, KyaLag, ReputationLag

LEMMA GatewayInvInductive == GatewayInv /\ [GatewayNext]_gatewayVars => GatewayInv'
<1>. SUFFICES ASSUME GatewayInv, [GatewayNext]_gatewayVars PROVE GatewayInv'
  OBVIOUS
<1>1. CASE IssuanceStep
  <2>1. IInv'
    BY <1>1, NextTypeOK, NextHonest DEF GatewayInv, IInv, IssuanceStep
  <2>2. mintedAt' = [t \in tokens' |-> mintedAt'[t]]
    BY <1>1 DEF IssuanceStep
  <2>3. \A t \in tokens' : TokenHonest(t)' /\ mintedAt'[t] \in Time
    BY <1>1, MintedHonest, HonestStays
  <2>4. TokensHonest'
    BY <2>2, <2>3 DEF TokensHonest, Time
  <2>. QED
    BY <2>1, <2>4 DEF GatewayInv
<1>2. CASE UNCHANGED <<vars, mintedAt>>
  <2>1. IInv'
    BY <1>2, NextTypeOK, NextHonest DEF GatewayInv, IInv
  <2>2. TokensHonest'
    BY <1>2 DEF GatewayInv, TokensHonest, TokenHonest, vars, exchange
  <2>. QED
    BY <2>1, <2>2 DEF GatewayInv
<1>. QED
  BY <1>1, <1>2 DEF GatewayNext, CallTool, gatewayVars

\* The claims of every token, valid or not, were its agent's standing within
\* their lag before it was minted, or the agent's standing changed since.
THEOREM TokensStayHonest == GatewaySpec => []GatewayInv
<1>1. GatewayInit => GatewayInv
  BY InitTypeOK, InitHonest DEF GatewayInit, GatewayInv, IInv, TokensHonest, Init
<1>. QED
  BY <1>1, GatewayInvInductive, PTL DEF GatewaySpec

\* Rounding gives a reputation half a fourth digit at most.
LEMMA RoundedReaches ==
  ASSUME NEW acct \in Accounts, NEW t, NEW tool \in Tools, Says(t, acct),
         t.reputation >= tool.reputation
  PROVE  Reaches(acct, tool.reputation)
<1>1. /\ acct.reputation # None /\ acct.reputation \in Reputations
      /\ t.reputation = Rounded[acct.reputation]
  BY AccountReadings DEF Says
<1>2. t.reputation \in Digits(acct.reputation, 1) /\ acct.reputation \in Nat
  BY <1>1, RoundedAssumption
<1>3. PICK q \in Nearest(acct.reputation, Grain * 1) : t.reputation = Grain * q
  BY <1>2 DEF Digits
<1>4. q \in Int /\ 2 * (q * Grain - acct.reputation) <= Grain
  BY <1>2, <1>3, GrainAssumption DEF Nearest
<1>5. q * Grain = t.reputation /\ t.reputation \in Int /\ tool.reputation \in Nat
  BY <1>3, <1>4, GrainAssumption, ToolsAssumption
<1>. QED
  BY <1>1, <1>2, <1>4, <1>5, GrainAssumption DEF Reaches

\* An agent that lost a standing calls no tool that asks for it once a token's
\* lifetime and its claims' lag are over.
THEOREM StandingCurrency == GatewaySpec => StandingIsCurrent
<1>1. ASSUME GatewayInv, [GatewayNext]_gatewayVars PROVE StandingStep
  <2>. SUFFICES ASSUME NEW c \in NewCalls
                PROVE  LET t == c.token
                           a == account[t.agent]
                           lostWithin(lag) == now - changedAt[t.agent] < TokenTTL + lag
                       IN /\ KyaLevel(a) >= c.tool.kya \/ lostWithin(KyaLag(t))
                          /\ \/ Reaches(a, c.tool.reputation)
                             \/ lostWithin(ReputationLag(t))
                             \/ t.code # None /\ DefaultReputation >= c.tool.reputation
                          /\ t.code = None => a.active \/ lostWithin(2 * CallBound)
    BY DEF StandingStep
  <2>1. PICK t \in tokens, tool \in Tools : CallTool(t, tool) /\ c.token = t /\ c.tool = tool
    BY <1>1 DEF NewCalls, GatewayNext, IssuanceStep, CallTool, gatewayVars
  <2>2. /\ TokenHonest(t) /\ mintedAt[t] \in Int /\ TypeOK
        /\ now < mintedAt[t] + TokenTTL /\ Allows(t, tool)
    BY <1>1, <2>1, BoundsAssumption
    DEF CallTool, Valid, GatewayInv, TokensHonest, IInv, Time
  <2>3. now \in Int /\ changedAt[t.agent] \in Int
    BY <2>2, BoundsAssumption DEF TypeOK, Time, TokenHonest
  <2>4. \A lag \in Nat : changedAt[t.agent] >= mintedAt[t] - lag
                           => now - changedAt[t.agent] < TokenTTL + lag
    BY <2>2, <2>3, TokenTTLAssumption
  <2>5. Says(t, account[t.agent]) => Reaches(account[t.agent], tool.reputation)
    BY <2>1, <2>2, RoundedReaches DEF Allows, TypeOK, TokenHonest
  <2>. QED
    BY <2>1, <2>2, <2>3, <2>4, <2>5, Lags DEF TokenHonest, Allows
<1>. QED
  BY <1>1, TokensStayHonest, PTL DEF GatewaySpec, StandingIsCurrent

\* The endpoint takes nothing away from the authorization server: seen without the
\* tokens' dates and the calls, every behaviour of the gateway is one of
\* TokenIssuance.
THEOREM GatewayIssues == GatewaySpec => Spec
<1>1. GatewayInit => Init
  BY DEF GatewayInit
<1>2. [GatewayNext]_gatewayVars => [Next]_vars
  BY DEF GatewayNext, IssuanceStep, CallTool, gatewayVars
<1>. QED
  BY <1>1, <1>2, PTL DEF GatewaySpec, Spec

\* So what is proved of the tokens it mints holds with tools/call in between.
THEOREM GatewayMintsCurrentClaims ==
  GatewaySpec => /\ []TypeOK /\ []ReadingsHonest
                 /\ KyaIsCurrent /\ ReputationIsCurrent /\ SuspensionTakesEffect
  BY GatewayIssues, TypeCorrect, ReadingsStayHonest, KyaCurrency,
     ReputationCurrency, SuspensionCurrency

\* And the gateway as a whole implements the code grant.
THEOREM GatewayGrantsCodes == GatewaySpec => ImplementsCodeGrant
  BY GatewayIssues, CodesRefine
============================================================================
