------------------------ MODULE TokenIssuanceProofs ------------------------
(***************************************************************************)
(* The theorems of TokenIssuance, for every value of its constants.  The   *)
(* inductive invariant is IInv: TypeOK says what the variables hold,       *)
(* ReadingsHonest how old every copy of an exchange reading can be.        *)
(***************************************************************************)
EXTENDS TokenIssuance, TLAPS

----------------------------------------------------------------------------
(* Lemmas about the operators *)

\* decide_scopes grants only requested scopes, each one grantable.
LEMMA DecideScopesGrants ==
  ASSUME NEW requested, NEW agent, NEW kya, NEW allowlist
  PROVE  LET d == DecideScopes(requested, agent, kya, allowlist) IN
         /\ d.granted \subseteq requested
         /\ \A s \in d.granted : Grantable(s, agent, kya, allowlist)
  BY DEF DecideScopes, Decision

\* A scope decide_scopes grants is backed by the level it was given or by the
\* allowlist it was given.
LEMMA GrantableBacked ==
  ASSUME NEW s, NEW t, Grantable(s, t.agent, t.kya, config.allowlist)
  PROVE  Backed(t, s)
  BY DEF Grantable, Backed

\* Handlers in their first and last states, and a handler that starts a call.
LEMMA IdleAndClosed ==
  /\ Idle \in Handler /\ Idle.pc = "idle"
  /\ Closed \in Handler /\ Closed.pc = "closed"
  BY BoundsAssumption DEF Idle, Closed, Handler, Waiting, Time, Reputations

\* A handler that awaits a call is well typed and keeps who it is for.
LEMMA AwaitingHandler ==
  ASSUME NEW h \in Handler, NEW pc \in Waiting, NEW reputation \in Reputations,
         now \in Time
  PROVE  LET k == Awaiting(h, pc, reputation) IN
         /\ k \in Handler
         /\ k.pc = pc /\ k.sentAt = now /\ k.reply = None
         /\ k.reputation = reputation
         /\ k.flow = h.flow /\ k.agent = h.agent /\ k.pkce = h.pkce
         /\ k.scopes = h.scopes
  BY DEF Awaiting, Handler

\* What the gateway reads off an account is one of the levels and one of the
\* reputations.
LEMMA AccountReadings ==
  ASSUME NEW acct \in Accounts
  PROVE  /\ KyaLevel(acct) \in Levels
         /\ Reported(acct) \in Reputations
         /\ acct.reputation # None => acct.reputation \in Reputations
  BY AccountsAssumption DEF KyaLevel, Levels, SANDBOX, Reported, Reputations

\* A token's reputation is a reading rounded, the default as it is; no reading
\* is None.
LEMMA RoundedReadings ==
  ASSUME NEW x \in Reputations
  PROVE  Rounded[x] \in ClaimedReputations /\ x # None
  BY RoundedAssumption DEF ClaimedReputations

\* A token minted from an account's present reading, or from the default, says so.
LEMMA MintedReputation ==
  ASSUME NEW x \in Reputations, NEW acct, NEW t, t.reputation = Rounded[x]
  PROVE  /\ x = acct.reputation => Says(t, acct)
         /\ x = DefaultReputation => t.reputation = DefaultReputation
  BY RoundedReadings, RoundedAssumption DEF Says

\* The reported reputation is the account's or the default.
LEMMA ReportedValue ==
  ASSUME NEW acct
  PROVE  Reported(acct) \in {acct.reputation, DefaultReputation}
  BY DEF Reported

\* The handlers that StartClientCredentials and the Authorize steps create.
LEMMA AuthorizeHandlerType ==
  ASSUME NEW a \in Agents, NEW raw \in ScopeRequests, NEW p \in PkceRequests
  PROVE  /\ AuthorizeHandler(a, raw, p) \in Handler
         /\ AuthorizeHandler(a, raw, p).flow = "authorize"
         /\ AuthorizeHandler(a, raw, p).agent = a
         /\ AuthorizeHandler(a, raw, p).pkce = p
<1>1. RequestedScopes(raw, {}) \in SUBSET Scopes
  BY InputsAssumption DEF RequestedScopes, Scopes, MCPScope
<1>2. Idle \in Handler
  BY IdleAndClosed
<1>. QED
  BY <1>1, <1>2 DEF AuthorizeHandler, Handler, PkceData

\* The handler of a client_credentials request.
LEMMA ClientHandlerType ==
  ASSUME NEW a \in Agents, NEW raw \in ScopeRequests
  PROVE  /\ ClientHandler(a, raw) \in Handler
         /\ ClientHandler(a, raw).flow = "client_credentials"
         /\ ClientHandler(a, raw).agent = a
<1>1. RequestedScopes(raw, {READ}) \in SUBSET Scopes
  BY InputsAssumption DEF RequestedScopes, Scopes, MCPScope
<1>2. Idle \in Handler
  BY IdleAndClosed
<1>. QED
  BY <1>1, <1>2 DEF ClientHandler, Handler

----------------------------------------------------------------------------
(* Type correctness *)

\* A fresh process is well typed.
LEMMA InitTypeOK == Init => TypeOK
  BY IdleAndClosed, BoundsAssumption
  DEF Init, TypeOK, EmptyCache, NoCodes, Time

\* Closing a request keeps the handlers well typed.
LEMMA CloseType ==
  ASSUME NEW r \in Requests, request \in [Requests -> Handler], Close(r)
  PROVE  /\ request' \in [Requests -> Handler]
         /\ request'[r].pc = "closed"
         /\ \A q \in Requests \ {r} : request'[q] = request[q]
  BY IdleAndClosed DEF Close

\* What decide_scopes grants a handler are scopes.
LEMMA DecisionType ==
  ASSUME NEW r \in Requests, request \in [Requests -> Handler]
  PROVE  DecisionFor(r).granted \in SUBSET Scopes
<1>1. DecisionFor(r).granted \subseteq request[r].scopes
  BY DecideScopesGrants DEF DecisionFor
<1>2. request[r].scopes \in SUBSET Scopes
  BY DEF Handler
<1>. QED
  BY <1>1, <1>2

\* A handler that resumes with a usable reply holds an account.
LEMMA UsableReply ==
  ASSUME NEW r \in Requests, NEW pc, request \in [Requests -> Handler],
         Resumes(r, pc), Usable(request[r].reply)
  PROVE  /\ request[r].reply \in Accounts
         /\ request[r].pc = pc
  BY DEF Resumes, Usable, Handler

\* A waiting handler with a reply put in.
LEMMA RepliedHandler ==
  ASSUME NEW r \in Requests, request \in [Requests -> Handler],
         NEW x \in Accounts \union {Failure, Rejected},
         request' = [request EXCEPT ![r].reply = x]
  PROVE  /\ request' \in [Requests -> Handler]
         /\ \A q \in Requests \ {r} : request'[q] = request[q]
         /\ request'[r].reply = x
         /\ request'[r].pc = request[r].pc
         /\ request'[r].flow = request[r].flow
         /\ request'[r].agent = request[r].agent
         /\ request'[r].pkce = request[r].pkce
         /\ request'[r].sentAt = request[r].sentAt
         /\ request'[r].reputation = request[r].reputation
         /\ request'[r].scopes = request[r].scopes
<1>. DEFINE k == [request[r] EXCEPT !.reply = x]
<1>1. request' = [request EXCEPT ![r] = k]
  OBVIOUS
<1>2. k \in Handler
  BY DEF Handler
<1>. QED
  BY <1>1, <1>2 DEF Handler

\* A request that arrives keeps the types.
LEMMA ArrivesTypeOK ==
  ASSUME TypeOK, NEW r \in Requests, Arrives(r)
  PROVE  TypeOK'
<1>. USE DEF exchange, process, history
<1>1. CASE RefuseOutright(r)
  BY <1>1, CloseType DEF RefuseOutright, TypeOK
<1>2. CASE StartClientCredentials(r)
  <2>1. PICK a \in Agents, raw \in ScopeRequests :
          request' = [request EXCEPT ![r] =
            Awaiting(ClientHandler(a, raw), "balance", DefaultReputation)]
    BY <1>2 DEF StartClientCredentials
  <2>2. DefaultReputation \in Reputations /\ "balance" \in Waiting /\ now \in Time
    BY DEF Reputations, Waiting, TypeOK
  <2>3. Awaiting(ClientHandler(a, raw), "balance", DefaultReputation) \in Handler
    BY <2>2, ClientHandlerType, AwaitingHandler
  <2>. QED
    BY <1>2, <2>1, <2>3 DEF StartClientCredentials, TypeOK
<1>3. CASE AuthorizeCached(r)
  <2>1. PICK a \in Agents, raw \in ScopeRequests, p \in PkceRequests :
          /\ CacheFresh(repCache[a])
          /\ request' = [request EXCEPT ![r] =
               Awaiting(AuthorizeHandler(a, raw, p), "card", repCache[a].reputation)]
    BY <1>3 DEF AuthorizeCached
  <2>2. AuthorizeHandler(a, raw, p) \in Handler
    BY AuthorizeHandlerType
  <2>3. repCache[a].reputation \in Reputations /\ "card" \in Waiting /\ now \in Time
    BY <2>1 DEF CacheFresh, CacheEntry, Waiting, TypeOK
  <2>4. Awaiting(AuthorizeHandler(a, raw, p), "card", repCache[a].reputation) \in Handler
    BY <2>2, <2>3, AwaitingHandler
  <2>. QED
    BY <1>3, <2>1, <2>4 DEF AuthorizeCached, TypeOK
<1>4. CASE AuthorizeLookup(r)
  <2>1. PICK a \in Agents, raw \in ScopeRequests, p \in PkceRequests :
          /\ repCache' = [repCache EXCEPT ![a] = None]
          /\ request' = [request EXCEPT ![r] =
               Awaiting(AuthorizeHandler(a, raw, p), "reputation", DefaultReputation)]
    BY <1>4 DEF AuthorizeLookup
  <2>2. AuthorizeHandler(a, raw, p) \in Handler
    BY AuthorizeHandlerType
  <2>3. DefaultReputation \in Reputations /\ "reputation" \in Waiting /\ now \in Time
    BY DEF Reputations, Waiting, TypeOK
  <2>4. Awaiting(AuthorizeHandler(a, raw, p), "reputation", DefaultReputation) \in Handler
    BY <2>2, <2>3, AwaitingHandler
  <2>. QED
    BY <1>4, <2>1, <2>4 DEF AuthorizeLookup, TypeOK
<1>5. ASSUME NEW c \in Requests, Presents(r, c)
      PROVE  /\ authCodes' \in [Requests -> AuthCode \union {None}]
             /\ pkceChallenges' \in [Requests -> PkceData \union {None}]
             /\ presented' \subseteq Requests
             /\ request' \in [Requests -> Handler]
  BY <1>5, CloseType DEF Presents, Pop, TypeOK
<1>6. CASE RedeemCode(r)
  <2>1. PICK c \in Requests, v \in Verifiers \union {None} :
          /\ Presents(r, c)
          /\ Redeemable(c, v)
          /\ Mint(r, authCodes[c].agent, authCodes[c].scope, authCodes[c].kya,
                  authCodes[c].reputation, c, v)
          /\ UNCHANGED <<now, exchange, config, repCache, grants>>
    BY <1>6 DEF RedeemCode
  <2>2. authCodes[c] \in AuthCode
    BY <2>1 DEF Redeemable, TypeOK
  <2>3. Rounded[authCodes[c].reputation] \in ClaimedReputations
    BY <2>2, RoundedReadings DEF AuthCode
  <2>4. tokens' \subseteq Token
    BY <2>1, <2>2, <2>3 DEF Mint, Token, AuthCode, TypeOK
  <2>. QED
    BY <2>1, <2>4, <1>5 DEF TypeOK
<1>7. CASE RefuseCode(r)
  BY <1>7, <1>5 DEF RefuseCode, TypeOK
<1>. QED
  BY <1>1, <1>2, <1>3, <1>4, <1>6, <1>7 DEF Arrives

\* So does the end of an exchange call.
LEMMA CallEndsTypeOK ==
  ASSUME TypeOK, RepliesHonest, NEW r \in Requests, CallEnds(r)
  PROVE  TypeOK'
<1>. USE DEF exchange, process, history
<1>1. CASE ExchangeAnswers(r)
  <2>1. account[request[r].agent] \in Accounts
    BY <1>1 DEF ExchangeAnswers, AwaitsReply, RepliesHonest, TypeOK
  <2>. QED
    BY <1>1, <2>1, RepliedHandler DEF ExchangeAnswers, AwaitsReply, TypeOK
<1>2. CASE ExchangeFails(r)
  BY <1>2, RepliedHandler DEF ExchangeFails, TypeOK
<1>3. CASE ExchangeRejects(r)
  BY <1>3, RepliedHandler DEF ExchangeRejects, TypeOK
<1>. QED
  BY <1>1, <1>2, <1>3 DEF CallEnds

\* A handler that goes on to its next call.
LEMMA NextCall ==
  ASSUME TypeOK, NEW r \in Requests, NEW pc \in Waiting, NEW x \in Reputations,
         request' = [request EXCEPT ![r] = Awaiting(@, pc, x)]
  PROVE  /\ request' \in [Requests -> Handler]
         /\ \A q \in Requests \ {r} : request'[q] = request[q]
         /\ request'[r].pc = pc /\ request'[r].sentAt = now
         /\ request'[r].reply = None /\ request'[r].reputation = x
         /\ request'[r].flow = request[r].flow
         /\ request'[r].agent = request[r].agent
         /\ request'[r].pkce = request[r].pkce
<1>. DEFINE k == Awaiting(request[r], pc, x)
<1>1. request[r] \in Handler /\ now \in Time
  BY DEF TypeOK
<1>2. /\ k \in Handler
      /\ k.pc = pc /\ k.sentAt = now /\ k.reply = None /\ k.reputation = x
      /\ k.flow = request[r].flow /\ k.agent = request[r].agent
      /\ k.pkce = request[r].pkce
  BY <1>1, AwaitingHandler
<1>. HIDE DEF k
<1>3. request' = [request EXCEPT ![r] = k]
  BY DEF k
<1>. QED
  BY <1>2, <1>3 DEF TypeOK

\* So does a handler that resumes.
LEMMA ResumeTypeOK ==
  ASSUME TypeOK, RepliesHonest, FlowsOK, NEW r \in Requests, Resume(r)
  PROVE  TypeOK'
<1>. USE DEF exchange, process, history
<1>0. request \in [Requests -> Handler] /\ now \in Time
  BY DEF TypeOK
<1>1. CASE BalanceRefused(r)
  BY <1>1, CloseType DEF BalanceRefused, TypeOK
<1>2. CASE BalanceAccepted(r)
  <2>1. request[r].reply.reputation \in Reputations
    BY <1>0, <1>2, UsableReply, AccountReadings DEF BalanceAccepted, Vouched
  <2>2. request' \in [Requests -> Handler]
    BY <1>2, <2>1, NextCall DEF BalanceAccepted, Waiting
  <2>. QED
    BY <1>2, <2>2 DEF BalanceAccepted, TypeOK
<1>3. CASE ReputationReceived(r)
  <2>1. CASE Usable(request[r].reply)
    <3>1. Reported(request[r].reply) \in Reputations
      BY <1>0, <1>3, <2>1, UsableReply, AccountReadings DEF ReputationReceived
    <3>2. request' \in [Requests -> Handler]
      BY <1>3, <2>1, <3>1, NextCall DEF ReputationReceived, Waiting
    <3>3. repCache' \in [Agents -> CacheEntry \union {None}]
      BY <1>0, <1>3, <2>1, <3>1 DEF ReputationReceived, CacheEntry, TypeOK
    <3>. QED
      BY <1>3, <3>2, <3>3 DEF ReputationReceived, TypeOK
  <2>2. CASE ~Usable(request[r].reply)
    <3>1. DefaultReputation \in Reputations
      BY DEF Reputations
    <3>2. request' \in [Requests -> Handler]
      BY <1>3, <2>2, <3>1, NextCall DEF ReputationReceived, Waiting
    <3>. QED
      BY <1>3, <2>2, <3>2 DEF ReputationReceived, TypeOK
  <2>. QED
    BY <2>1, <2>2
<1>4. CASE CardRefused(r)
  BY <1>4, CloseType DEF CardRefused, TypeOK
<1>5. ASSUME Granted(r)
      PROVE  /\ request[r].agent \in Agents
             /\ KyaLevel(request[r].reply) \in Levels
             /\ request[r].reputation \in Reputations
             /\ request[r].flow = "authorize" => request[r].pkce \in PkceData
             /\ DecisionFor(r).granted \in SUBSET Scopes
  <2>1. request[r].pc = "card" /\ request[r].reply \in Accounts
    BY <1>0, <1>5, UsableReply DEF Granted
  <2>2. request[r].pc \in Waiting
    BY <2>1 DEF Waiting
  <2>. QED
    BY <1>0, <2>1, <2>2, AccountReadings, DecisionType
    DEF RepliesHonest, FlowsOK, Handler
<1>6. CASE MintClientToken(r)
  <2>1. Rounded[request[r].reputation] \in ClaimedReputations
    BY <1>6, <1>5, RoundedReadings DEF MintClientToken
  <2>2. tokens' \subseteq Token
    BY <1>6, <1>5, <2>1 DEF MintClientToken, Mint, Token, TypeOK
  <2>. QED
    BY <1>6, <2>2, CloseType DEF MintClientToken, TypeOK
<1>7. CASE StoreCode(r)
  <2>. DEFINE code == [agent |-> request[r].agent,
                       scope |-> DecisionFor(r).granted,
                       kya |-> KyaLevel(request[r].reply),
                       reputation |-> request[r].reputation,
                       createdAt |-> now]
  <2>1. /\ authCodes' = [authCodes EXCEPT ![r] = code]
        /\ pkceChallenges' = [pkceChallenges EXCEPT ![r] = request[r].pkce]
        /\ grants' = [grants EXCEPT ![r] = [code |-> code, pkce |-> request[r].pkce]]
    BY <1>7 DEF StoreCode
  <2>2. code \in AuthCode /\ request[r].pkce \in PkceData
    BY <1>0, <1>5, <1>7 DEF StoreCode, AuthCode
  <2>. HIDE DEF code
  <2>3. [code |-> code, pkce |-> request[r].pkce] \in Grant
    BY <2>2 DEF Grant
  <2>4. /\ authCodes' \in [Requests -> AuthCode \union {None}]
        /\ pkceChallenges' \in [Requests -> PkceData \union {None}]
        /\ grants' \in [Requests -> Grant \union {None}]
    BY <2>1, <2>2, <2>3 DEF TypeOK
  <2>. QED
    BY <1>7, <2>4, CloseType DEF StoreCode, TypeOK
<1>. QED
  BY <1>1, <1>2, <1>3, <1>4, <1>6, <1>7 DEF Resume

\* So do a restart, the clock and the exchange.
LEMMA EnvironmentTypeOK ==
  ASSUME TypeOK, Restart \/ Tick \/ (\E a \in Agents : ExchangeUpdates(a))
  PROVE  TypeOK'
<1>. USE DEF exchange, process, history
<1>1. CASE Restart
  BY <1>1, IdleAndClosed DEF Restart, TypeOK, EmptyCache, NoCodes
<1>2. CASE Tick
  BY <1>2, BoundsAssumption DEF Tick, TypeOK, Time
<1>3. CASE \E a \in Agents : ExchangeUpdates(a)
  BY <1>3 DEF ExchangeUpdates, TypeOK
<1>. QED
  BY <1>1, <1>2, <1>3

\* So does every step from a state where the readings are honest.
LEMMA NextTypeOK == IInv /\ [Next]_vars => TypeOK'
<1>. SUFFICES ASSUME TypeOK, RepliesHonest, FlowsOK, [Next]_vars PROVE TypeOK'
  BY DEF IInv, ReadingsHonest
<1>1. CASE UNCHANGED vars
  BY <1>1 DEF vars, exchange, process, history, TypeOK
<1>2. CASE Next
  BY <1>2, ArrivesTypeOK, CallEndsTypeOK, ResumeTypeOK, EnvironmentTypeOK DEF Next
<1>. QED
  BY <1>1, <1>2

----------------------------------------------------------------------------
(* The readings stay honest *)

\* What RepliesHonest, FlowsOK and CardWaitersHonest say of one handler.
HandlerHonest(r) ==
  LET h == request[r] IN
  /\ h.pc \in Waiting =>
       /\ h.agent \in Agents
       /\ h.sentAt <= now /\ now - h.sentAt <= CallBound
       /\ h.reply \in Accounts => h.reply = account[h.agent] \/ Since(h.agent, h.sentAt)
  /\ h.pc = "balance" => h.flow = "client_credentials"
  /\ h.pc = "reputation" => h.flow = "authorize"
  /\ h.pc \in Waiting /\ h.flow = "authorize" => h.pkce \in PkceData
  /\ h.pc # "closed" => grants[r] = None
  /\ h.pc = "card" =>
       IF h.flow = "client_credentials"
       THEN \/ Since(h.agent, h.sentAt - CallBound)
            \/ /\ account[h.agent].active
               /\ h.reputation = account[h.agent].reputation
       ELSE \/ Since(h.agent, h.sentAt - CallBound - CacheTTL)
            \/ h.reputation \in {account[h.agent].reputation, DefaultReputation}

\* ReadingsHonest, handler by handler.
LEMMA HandlersHonest ==
  ReadingsHonest <=> /\ ClockOK
                     /\ \A r \in Requests : HandlerHonest(r)
                     /\ CacheHonest /\ CodesHonest /\ CodesGranted
  BY DEF ReadingsHonest, RepliesHonest, FlowsOK, CardWaitersHonest, HandlerHonest

\* The direction the steps need, of the next state.
LEMMA HandlersHonestNext ==
  ASSUME ClockOK', \A r \in Requests : HandlerHonest(r)',
         CacheHonest', CodesHonest', CodesGranted'
  PROVE  ReadingsHonest'
  BY DEF ReadingsHonest, RepliesHonest, FlowsOK, CardWaitersHonest, HandlerHonest

\* A handler nothing happened to stays honest while the exchange stands still.
LEMMA Unaffected ==
  ASSUME NEW q \in Requests, HandlerHonest(q), request'[q] = request[q],
         UNCHANGED <<now, account, changedAt>>, grants'[q] = grants[q]
  PROVE  HandlerHonest(q)'
  BY DEF HandlerHonest, Since

\* A step that closes a request and touches no reading.
LEMMA CloseHonest ==
  ASSUME IInv, NEW r \in Requests, Close(r),
         UNCHANGED <<now, exchange, process, history>>
  PROVE  ReadingsHonest'
<1>. USE DEF exchange, process, history
<1>1. HandlerHonest(r)'
  BY CloseType DEF HandlerHonest, IInv, TypeOK, Waiting
<1>2. \A q \in Requests \ {r} : HandlerHonest(q)'
  BY CloseType, Unaffected, HandlersHonest DEF IInv, TypeOK
<1>3. (ClockOK /\ CacheHonest /\ CodesHonest /\ CodesGranted)'
  BY DEF IInv, ReadingsHonest, ClockOK, CacheHonest, CodesHonest, CodesGranted,
         Since, Backed
<1>. QED
  BY <1>1, <1>2, <1>3, HandlersHonestNext

\* A handler that starts a call is honest about it.
LEMMA CallHonest ==
  ASSUME TypeOK, NEW r \in Requests, UNCHANGED <<now, exchange>>,
         grants'[r] = None,
         request'[r].pc \in Waiting, request'[r].agent \in Agents,
         request'[r].sentAt = now, request'[r].reply = None,
         request'[r].pc = "balance" => request'[r].flow = "client_credentials",
         request'[r].pc = "reputation" => request'[r].flow = "authorize",
         request'[r].flow = "authorize" => request'[r].pkce \in PkceData,
         request'[r].pc = "card" =>
           LET h == request'[r] IN
           IF h.flow = "client_credentials"
           THEN \/ Since(h.agent, now - CallBound)
                \/ /\ account[h.agent].active
                   /\ h.reputation = account[h.agent].reputation
           ELSE \/ Since(h.agent, now - CallBound - CacheTTL)
                \/ h.reputation \in {account[h.agent].reputation, DefaultReputation}
  PROVE  HandlerHonest(r)'
  BY NoValueAssumption, BoundsAssumption
  DEF HandlerHonest, Since, TypeOK, Time, exchange

\* A step of one handler that leaves the exchange and the codes alone.
LEMMA OneHandlerMoves ==
  ASSUME IInv, NEW r \in Requests, HandlerHonest(r)', CacheHonest',
         \A q \in Requests \ {r} : request'[q] = request[q],
         UNCHANGED <<now, exchange, config, authCodes, pkceChallenges, history>>
  PROVE  ReadingsHonest'
<1>. USE DEF exchange, history
<1>1. \A q \in Requests \ {r} : HandlerHonest(q)'
  BY Unaffected, HandlersHonest DEF IInv
<1>2. (ClockOK /\ CodesHonest /\ CodesGranted)'
  BY DEF IInv, ReadingsHonest, ClockOK, CodesHonest, CodesGranted, Since, Backed
<1>. QED
  BY <1>1, <1>2, HandlersHonestNext

\* The cache stays honest while it and the exchange stand still.
LEMMA CacheUntouched ==
  ASSUME CacheHonest, UNCHANGED <<now, exchange, repCache>>
  PROVE  CacheHonest'
  BY DEF CacheHonest, Since, exchange

\* A request that starts a call leaves the readings honest: a cached reading is
\* at most CacheTTL older than the handler's call.
LEMMA ArrivesHonest ==
  ASSUME IInv, NEW r \in Requests,
         StartClientCredentials(r) \/ AuthorizeCached(r) \/ AuthorizeLookup(r)
  PROVE  ReadingsHonest'
<1>. USE DEF process, history
<1>1. /\ TypeOK /\ now \in Time /\ request \in [Requests -> Handler]
      /\ CacheHonest /\ ClockOK
  BY DEF IInv, TypeOK, ReadingsHonest
<1>2. request[r].pc = "idle" => grants[r] = None
  BY DEF IInv, ReadingsHonest, FlowsOK
<1>3. CASE StartClientCredentials(r)
  <2>1. PICK a \in Agents, raw \in ScopeRequests :
          request' = [request EXCEPT ![r] =
            Awaiting(ClientHandler(a, raw), "balance", DefaultReputation)]
    BY <1>3 DEF StartClientCredentials
  <2>. DEFINE h == ClientHandler(a, raw)
              k == Awaiting(h, "balance", DefaultReputation)
  <2>2. h \in Handler /\ h.flow = "client_credentials" /\ h.agent = a
    BY ClientHandlerType
  <2>3. "balance" \in Waiting /\ DefaultReputation \in Reputations
    BY DEF Waiting, Reputations
  <2>4. k.pc = "balance" /\ k.sentAt = now /\ k.reply = None
        /\ k.flow = "client_credentials" /\ k.agent = a
    BY <1>1, <2>2, <2>3, AwaitingHandler
  <2>. HIDE DEF k, h
  <2>5. request' = [request EXCEPT ![r] = k]
    BY <2>1 DEF h, k
  <2>6. request'[r] = k /\ \A q \in Requests \ {r} : request'[q] = request[q]
    BY <1>1, <2>5
  <2>7. HandlerHonest(r)'
    BY <1>1, <1>2, <1>3, <2>3, <2>4, <2>6, CallHonest
    DEF StartClientCredentials
  <2>. QED
    BY <1>1, <1>3, <2>6, <2>7, OneHandlerMoves, CacheUntouched
    DEF StartClientCredentials
<1>4. CASE AuthorizeCached(r)
  <2>1. PICK a \in Agents, raw \in ScopeRequests, p \in PkceRequests :
          /\ CacheFresh(repCache[a])
          /\ request' = [request EXCEPT ![r] =
               Awaiting(AuthorizeHandler(a, raw, p), "card", repCache[a].reputation)]
    BY <1>4 DEF AuthorizeCached
  <2>2. /\ repCache[a] \in CacheEntry /\ repCache[a] # None
        /\ now - repCache[a].storedAt <= CacheTTL
    BY <1>1, <2>1, BoundsAssumption DEF CacheFresh, CacheEntry, TypeOK, Time
  <2>. DEFINE h == AuthorizeHandler(a, raw, p)
              x == repCache[a].reputation
              k == Awaiting(h, "card", x)
  <2>3. h \in Handler /\ h.flow = "authorize" /\ h.agent = a /\ h.pkce = p
    BY AuthorizeHandlerType
  <2>4. "card" \in Waiting /\ x \in Reputations
    BY <2>2 DEF Waiting, CacheEntry
  <2>5. k.pc = "card" /\ k.sentAt = now /\ k.reply = None /\ k.reputation = x
        /\ k.flow = "authorize" /\ k.agent = a /\ k.pkce = p
    BY <1>1, <2>3, <2>4, AwaitingHandler
  <2>6. \/ Since(a, now - CallBound - CacheTTL)
        \/ x \in {account[a].reputation, DefaultReputation}
    <3>1. \/ x \in {account[a].reputation, DefaultReputation}
          \/ changedAt[a] >= repCache[a].storedAt - CallBound
      BY <1>1, <2>2 DEF CacheHonest, Since
    <3>2. /\ changedAt[a] \in Int /\ repCache[a].storedAt \in Int /\ now \in Int
          /\ CallBound \in Int /\ CacheTTL \in Int
      BY <1>1, <2>2, BoundsAssumption DEF TypeOK, CacheEntry, Time
    <3>. QED
      BY <2>2, <3>1, <3>2 DEF Since
  <2>. HIDE DEF k, h, x
  <2>7. request' = [request EXCEPT ![r] = k]
    BY <2>1 DEF k, h, x
  <2>8. request'[r] = k /\ \A q \in Requests \ {r} : request'[q] = request[q]
    BY <1>1, <2>7
  <2>9. HandlerHonest(r)'
    BY <1>1, <1>2, <1>4, <2>4, <2>5, <2>6, <2>8, CallHonest
    DEF AuthorizeCached, PkceData
  <2>. QED
    BY <1>1, <1>4, <2>8, <2>9, OneHandlerMoves, CacheUntouched
    DEF AuthorizeCached
<1>5. CASE AuthorizeLookup(r)
  <2>1. PICK a \in Agents, raw \in ScopeRequests, p \in PkceRequests :
          /\ repCache' = [repCache EXCEPT ![a] = None]
          /\ request' = [request EXCEPT ![r] =
               Awaiting(AuthorizeHandler(a, raw, p), "reputation", DefaultReputation)]
    BY <1>5 DEF AuthorizeLookup
  <2>. DEFINE h == AuthorizeHandler(a, raw, p)
              k == Awaiting(h, "reputation", DefaultReputation)
  <2>2. h \in Handler /\ h.flow = "authorize" /\ h.agent = a /\ h.pkce = p
    BY AuthorizeHandlerType
  <2>3. "reputation" \in Waiting /\ DefaultReputation \in Reputations
    BY DEF Waiting, Reputations
  <2>4. k.pc = "reputation" /\ k.sentAt = now /\ k.reply = None
        /\ k.flow = "authorize" /\ k.agent = a /\ k.pkce = p
    BY <1>1, <2>2, <2>3, AwaitingHandler
  <2>. HIDE DEF k, h
  <2>5. request' = [request EXCEPT ![r] = k]
    BY <2>1 DEF k, h
  <2>6. request'[r] = k /\ \A q \in Requests \ {r} : request'[q] = request[q]
    BY <1>1, <2>5
  <2>7. HandlerHonest(r)'
    BY <1>1, <1>2, <1>5, <2>3, <2>4, <2>6, CallHonest
    DEF AuthorizeLookup, PkceData
  <2>8. CacheHonest'
    BY <1>1, <1>5, <2>1
    DEF AuthorizeLookup, CacheHonest, Since, exchange, TypeOK
  <2>. QED
    BY <1>5, <2>6, <2>7, <2>8, OneHandlerMoves DEF AuthorizeLookup
<1>. QED
  BY <1>3, <1>4, <1>5

\* An answer shows the account as it is when the exchange handles the call.
LEMMA CallEndsHonest ==
  ASSUME IInv, NEW r \in Requests, CallEnds(r)
  PROVE  ReadingsHonest'
<1>. USE DEF process
<1>1. /\ TypeOK /\ request \in [Requests -> Handler]
      /\ CacheHonest /\ HandlerHonest(r)
  BY HandlersHonest DEF IInv, TypeOK
<1>2. ASSUME NEW x \in Accounts \union {Failure, Rejected},
             request' = [request EXCEPT ![r].reply = x],
             request[r].pc \in Waiting,
             x \in Accounts => x = account[request[r].agent],
             UNCHANGED <<now, exchange, process, history>>
      PROVE  ReadingsHonest'
  <2>1. HandlerHonest(r)'
    BY <1>1, <1>2, RepliedHandler DEF HandlerHonest, Since, exchange, history
  <2>2. \A q \in Requests \ {r} : request'[q] = request[q]
    BY <1>1, <1>2, RepliedHandler
  <2>. QED
    BY <1>1, <1>2, <2>1, <2>2, OneHandlerMoves, CacheUntouched
<1>3. CASE ExchangeAnswers(r)
  <2>1. account[request[r].agent] \in Accounts
    BY <1>1, <1>3 DEF ExchangeAnswers, AwaitsReply, HandlerHonest, TypeOK
  <2>. QED
    BY <1>2, <1>3, <2>1 DEF ExchangeAnswers, AwaitsReply
<1>4. Failure \notin Accounts /\ Rejected \notin Accounts
  BY NoValueAssumption
<1>5. CASE ExchangeFails(r)
  BY <1>2, <1>4, <1>5 DEF ExchangeFails, AwaitsReply
<1>6. CASE ExchangeRejects(r)
  BY <1>2, <1>4, <1>6 DEF ExchangeRejects, AwaitsReply
<1>. QED
  BY <1>3, <1>5, <1>6 DEF CallEnds

\* The integers the age comparisons are about.
LEMMA Clocks ==
  ASSUME TypeOK
  PROVE  /\ now \in Int /\ CallBound \in Nat /\ CacheTTL \in Nat /\ CodeTTL \in Nat
         /\ \A a \in Agents : changedAt[a] \in Int
         /\ \A r \in Requests : request[r].sentAt \in Int
  BY BoundsAssumption DEF TypeOK, Time, Handler

\* What a handler with a usable reply knows when it resumes.
LEMMA ResumingHonest ==
  ASSUME IInv, NEW r \in Requests, NEW pc \in Waiting, Resumes(r, pc),
         Usable(request[r].reply)
  PROVE  LET h == request[r] IN
         /\ h.pc = pc /\ h.agent \in Agents /\ h.reply \in Accounts
         /\ h.reply = account[h.agent] \/ Since(h.agent, now - CallBound)
<1>1. /\ TypeOK /\ request \in [Requests -> Handler] /\ HandlerHonest(r)
  BY HandlersHonest DEF IInv, TypeOK
<1>2. request[r].pc = pc /\ request[r].reply \in Accounts
  BY <1>1, UsableReply
<1>3. /\ request[r].agent \in Agents
      /\ now - request[r].sentAt <= CallBound
      /\ \/ request[r].reply = account[request[r].agent]
         \/ changedAt[request[r].agent] >= request[r].sentAt
  BY <1>1, <1>2 DEF HandlerHonest, Since
<1>4. changedAt[request[r].agent] >= request[r].sentAt
        => changedAt[request[r].agent] >= now - CallBound
  BY <1>1, <1>3, Clocks
<1>. QED
  BY <1>2, <1>3, <1>4 DEF Since

\* A handler that goes on to the card keeps what the first call told it, and a
\* reputation is cached as of now although it may be a call old.
LEMMA NextCallHonest ==
  ASSUME IInv, NEW r \in Requests, BalanceAccepted(r) \/ ReputationReceived(r)
  PROVE  ReadingsHonest'
<1>. USE DEF process, history
<1>1. /\ TypeOK /\ HandlerHonest(r) /\ CacheHonest
  BY HandlersHonest DEF IInv
<1>. DEFINE h == request[r]
<1>2. CASE BalanceAccepted(r)
  <2>1. Resumes(r, "balance") /\ Usable(request[r].reply) /\ request[r].reply.active
        /\ request[r].pc = "balance" /\ request[r].reply.reputation # None
    BY <1>2 DEF BalanceAccepted, Vouched, Resumes
  <2>2. /\ request[r].agent \in Agents /\ request[r].reply \in Accounts
        /\ \/ request[r].reply = account[request[r].agent]
           \/ Since(request[r].agent, now - CallBound)
    BY <2>1, ResumingHonest DEF Waiting
  <2>3. request[r].flow = "client_credentials" /\ grants[r] = None
    BY <1>1, <2>1 DEF HandlerHonest
  <2>4. request[r].reply.reputation \in Reputations
    BY <2>1, <2>2, AccountReadings
  <2>5. "card" \in Waiting
    BY DEF Waiting
  <2>6. \/ Since(request[r].agent, now - CallBound)
        \/ /\ account[request[r].agent].active
           /\ request[r].reply.reputation = account[request[r].agent].reputation
    BY <2>1, <2>2
  <2>. DEFINE k == Awaiting(request[r], "card", request[r].reply.reputation)
  <2>7. /\ k.pc = "card" /\ k.sentAt = now /\ k.reply = None
        /\ k.reputation = request[r].reply.reputation
        /\ k.flow = request[r].flow /\ k.agent = request[r].agent
    <3>1. request[r] \in Handler /\ now \in Time
      BY <1>1 DEF TypeOK
    <3>. QED
      BY <2>4, <2>5, <3>1, AwaitingHandler
  <2>. HIDE DEF k
  <2>8. request' = [request EXCEPT ![r] = k]
    BY <1>2 DEF BalanceAccepted, k
  <2>9. request'[r] = k /\ \A q \in Requests \ {r} : request'[q] = request[q]
    BY <1>1, <2>8 DEF TypeOK
  <2>10. HandlerHonest(r)'
    BY <1>1, <1>2, <2>2, <2>3, <2>5, <2>6, <2>7, <2>9, CallHonest DEF BalanceAccepted
  <2>. QED
    BY <1>1, <1>2, <2>9, <2>10, OneHandlerMoves, CacheUntouched DEF BalanceAccepted
<1>3. CASE ReputationReceived(r)
  <2>1. Resumes(r, "reputation") /\ h.pc = "reputation" /\ "card" \in Waiting
    BY <1>3 DEF ReputationReceived, Resumes, Waiting
  <2>2. /\ h.flow = "authorize" /\ grants[r] = None /\ h.agent \in Agents
        /\ h.pkce \in PkceData
    BY <1>1, <2>1 DEF HandlerHonest, Waiting
  <2>3. CASE Usable(h.reply)
    <3>1. /\ h.reply \in Accounts
          /\ h.reply = account[h.agent] \/ Since(h.agent, now - CallBound)
      BY <2>1, <2>3, ResumingHonest DEF Waiting
    <3>2. /\ repCache' = [repCache EXCEPT ![h.agent] =
                            [storedAt |-> now, reputation |-> Reported(h.reply)]]
          /\ request' = [request EXCEPT ![r] = Awaiting(@, "card", Reported(h.reply))]
      BY <1>3, <2>3 DEF ReputationReceived
    <3>3. /\ Reported(h.reply) \in Reputations
          /\ \/ Reported(h.reply) \in {account[h.agent].reputation, DefaultReputation}
             \/ Since(h.agent, now - CallBound)
      BY <3>1, AccountReadings, ReportedValue
    <3>4. Since(h.agent, now - CallBound) => Since(h.agent, now - CallBound - CacheTTL)
      BY <1>1, <2>2, Clocks DEF Since
    <3>. HIDE DEF h
    <3>5. /\ \A q \in Requests \ {r} : request'[q] = request[q]
          /\ request'[r].pc = "card" /\ request'[r].sentAt = now
          /\ request'[r].reply = None /\ request'[r].reputation = Reported(h.reply)
          /\ request'[r].flow = h.flow /\ request'[r].agent = h.agent
          /\ request'[r].pkce = h.pkce
      BY <1>1, <2>1, <3>2, <3>3, NextCall DEF h
    <3>6. HandlerHonest(r)'
      BY <1>1, <1>3, <2>1, <2>2, <3>3, <3>4, <3>5, CallHonest DEF ReputationReceived
    <3>7. CacheHonest'
      BY <1>1, <1>3, <2>2, <3>2, <3>3, Clocks
      DEF ReputationReceived, CacheHonest, Since, exchange, TypeOK
    <3>. QED
      BY <1>3, <3>5, <3>6, <3>7, OneHandlerMoves DEF ReputationReceived
  <2>4. CASE ~Usable(h.reply)
    <3>1. /\ UNCHANGED repCache
          /\ request' = [request EXCEPT ![r] = Awaiting(@, "card", DefaultReputation)]
      BY <1>3, <2>4 DEF ReputationReceived
    <3>2. DefaultReputation \in Reputations
      BY DEF Reputations
    <3>. HIDE DEF h
    <3>3. /\ \A q \in Requests \ {r} : request'[q] = request[q]
          /\ request'[r].pc = "card" /\ request'[r].sentAt = now
          /\ request'[r].reply = None /\ request'[r].reputation = DefaultReputation
          /\ request'[r].flow = h.flow /\ request'[r].agent = h.agent
          /\ request'[r].pkce = h.pkce
      BY <1>1, <2>1, <3>1, <3>2, NextCall DEF h
    <3>4. HandlerHonest(r)'
      BY <1>1, <1>3, <2>1, <2>2, <3>3, CallHonest DEF ReputationReceived
    <3>. QED
      BY <1>1, <1>3, <3>1, <3>3, <3>4, OneHandlerMoves, CacheUntouched
      DEF ReputationReceived
  <2>. QED
    BY <2>3, <2>4
<1>. QED
  BY <1>2, <1>3

\* A stored code's readings are as old as its handler's.
LEMMA StoreCodeHonest ==
  ASSUME IInv, NEW r \in Requests, StoreCode(r)
  PROVE  ReadingsHonest'
<1>. DEFINE code == [agent |-> request[r].agent,
                     scope |-> DecisionFor(r).granted,
                     kya |-> KyaLevel(request[r].reply),
                     reputation |-> request[r].reputation,
                     createdAt |-> now]
            grant == [code |-> code, pkce |-> request[r].pkce]
<1>1. /\ Granted(r) /\ request[r].flow = "authorize" /\ Close(r)
      /\ authCodes' = [authCodes EXCEPT ![r] = code]
      /\ pkceChallenges' = [pkceChallenges EXCEPT ![r] = request[r].pkce]
      /\ grants' = [grants EXCEPT ![r] = grant]
      /\ UNCHANGED <<now, account, changedAt, config, repCache, presented>>
  BY DEF StoreCode, exchange
<1>2. /\ TypeOK /\ HandlerHonest(r) /\ ReadingsHonest
      /\ request \in [Requests -> Handler]
  BY HandlersHonest DEF IInv, TypeOK
<1>3. /\ request[r].pc = "card" /\ request[r].agent \in Agents
      /\ request[r].reply \in Accounts
      /\ \/ request[r].reply = account[request[r].agent]
         \/ Since(request[r].agent, now - CallBound)
  BY <1>1, ResumingHonest DEF Granted, Waiting
<1>4. /\ grants[r] = None /\ request[r].pkce \in PkceData
      /\ now - request[r].sentAt <= CallBound
      /\ \/ Since(request[r].agent, request[r].sentAt - CallBound - CacheTTL)
         \/ request[r].reputation \in
              {account[request[r].agent].reputation, DefaultReputation}
  BY <1>1, <1>2, <1>3 DEF HandlerHonest, Waiting
<1>5. code \in AuthCode
  <2>1. KyaLevel(request[r].reply) \in Levels
    BY <1>3, AccountReadings
  <2>2. DecisionFor(r).granted \in SUBSET Scopes
    BY <1>2, DecisionType
  <2>. QED
    BY <1>2, <1>3, <2>1, <2>2 DEF AuthCode, Handler, TypeOK
<1>6. \A s \in code.scope : Backed(code, s)
  <2>. SUFFICES ASSUME NEW s \in DecisionFor(r).granted PROVE Backed(code, s)
    OBVIOUS
  <2>1. Grantable(s, request[r].agent, KyaLevel(request[r].reply), config.allowlist)
    BY DecideScopesGrants DEF DecisionFor
  <2>2. Grantable(s, code.agent, code.kya, config.allowlist)
    BY <2>1
  <2>. QED
    BY <2>2, GrantableBacked
<1>7. /\ code.createdAt = now
      /\ code.kya = KyaLevel(account[code.agent]) \/ Since(code.agent, now - CallBound)
      /\ \/ code.reputation \in {account[code.agent].reputation, DefaultReputation}
         \/ Since(code.agent, now - 2 * CallBound - CacheTTL)
      /\ code.agent \in Agents
  <2>1. /\ code.agent = request[r].agent /\ code.reputation = request[r].reputation
        /\ code.kya = KyaLevel(request[r].reply) /\ code.createdAt = now
    OBVIOUS
  <2>. HIDE DEF code
  <2>2. Since(request[r].agent, request[r].sentAt - CallBound - CacheTTL)
          => Since(request[r].agent, now - 2 * CallBound - CacheTTL)
    BY <1>2, <1>3, <1>4, Clocks DEF Since
  <2>. QED
    BY <1>3, <1>4, <2>1, <2>2
<1>8. grant \in Grant /\ grant.code = code /\ grant.pkce = request[r].pkce
  BY <1>4, <1>5 DEF Grant
<1>. HIDE DEF code, grant
<1>9. \A q \in Requests : HandlerHonest(q)'
  <2>1. HandlerHonest(r)'
    BY <1>1, <1>2, CloseType DEF HandlerHonest, Waiting
  <2>2. \A q \in Requests \ {r} : HandlerHonest(q)'
    BY <1>1, <1>2, CloseType, Unaffected, HandlersHonest DEF TypeOK
  <2>. QED
    BY <2>1, <2>2
<1>10. (ClockOK /\ CacheHonest)'
  BY <1>1, <1>2 DEF ReadingsHonest, ClockOK, CacheHonest, Since
<1>11. CodesHonest'
  <2>. SUFFICES ASSUME NEW c \in Requests, authCodes'[c] # None
                PROVE  LET k == authCodes'[c] IN
                  /\ k.createdAt <= now
                  /\ k.kya = KyaLevel(account[k.agent])
                       \/ Since(k.agent, k.createdAt - CallBound)
                  /\ k.reputation \in {account[k.agent].reputation, DefaultReputation}
                       \/ Since(k.agent, k.createdAt - 2 * CallBound - CacheTTL)
                  /\ \A s \in k.scope : Backed(k, s)
    BY <1>1 DEF CodesHonest, Since, Backed
  <2>1. CASE c = r
    <3>1. authCodes'[c] = code
      BY <1>1, <1>2, <2>1 DEF TypeOK
    <3>2. now <= now
      BY <1>2, Clocks
    <3>. QED
      BY <1>6, <1>7, <3>1, <3>2
  <2>2. CASE c # r
    <3>1. authCodes'[c] = authCodes[c]
      BY <1>1, <1>2, <2>2 DEF TypeOK
    <3>. QED
      BY <1>2, <3>1 DEF ReadingsHonest, CodesHonest
  <2>. QED
    BY <2>1, <2>2
<1>12. CodesGranted'
  <2>1. r \notin presented
    BY <1>2, <1>4 DEF ReadingsHonest, CodesGranted
  <2>2. /\ authCodes'[r] = code /\ grants'[r] = grant
        /\ pkceChallenges'[r] = request[r].pkce
        /\ grant # None /\ request[r].pkce # None
    BY <1>1, <1>2, <1>4, <1>8, NoValueAssumption DEF TypeOK
  <2>3. \A c \in Requests \ {r} : /\ authCodes'[c] = authCodes[c]
                                  /\ pkceChallenges'[c] = pkceChallenges[c]
                                  /\ grants'[c] = grants[c]
    BY <1>1, <1>2 DEF TypeOK
  <2>. QED
    BY <1>1, <1>2, <1>8, <2>1, <2>2, <2>3 DEF ReadingsHonest, CodesGranted
<1>. QED
  BY <1>9, <1>10, <1>11, <1>12, HandlersHonestNext

\* A presented code is popped with its challenge, whatever comes of it.
LEMMA PresentsHonest ==
  ASSUME IInv, NEW r \in Requests, NEW c \in Requests, Presents(r, c),
         UNCHANGED <<now, exchange, config, repCache, grants>>
  PROVE  ReadingsHonest'
<1>1. /\ TypeOK /\ ReadingsHonest /\ request \in [Requests -> Handler]
  BY DEF IInv, TypeOK
<1>2. /\ Close(r) /\ grants[c] # None
      /\ authCodes' = [authCodes EXCEPT ![c] = None]
      /\ pkceChallenges' = [pkceChallenges EXCEPT ![c] = None]
      /\ presented' = presented \union {c}
      /\ UNCHANGED <<now, account, changedAt, config, repCache, grants>>
  BY DEF Presents, Pop, exchange
<1>3. \A q \in Requests : HandlerHonest(q)'
  <2>1. HandlerHonest(r)'
    BY <1>1, <1>2, CloseType DEF HandlerHonest, Waiting
  <2>2. \A q \in Requests \ {r} : HandlerHonest(q)'
    BY <1>1, <1>2, CloseType, Unaffected, HandlersHonest
  <2>. QED
    BY <2>1, <2>2
<1>4. (ClockOK /\ CacheHonest)'
  BY <1>1, <1>2 DEF ReadingsHonest, ClockOK, CacheHonest, Since
<1>5. /\ authCodes'[c] = None
      /\ \A d \in Requests \ {c} : /\ authCodes'[d] = authCodes[d]
                                   /\ pkceChallenges'[d] = pkceChallenges[d]
  BY <1>1, <1>2 DEF TypeOK
<1>6. CodesHonest'
  BY <1>1, <1>2, <1>5 DEF ReadingsHonest, CodesHonest, Since, Backed
<1>7. CodesGranted'
  BY <1>1, <1>2, <1>5 DEF ReadingsHonest, CodesGranted
<1>. QED
  BY <1>3, <1>4, <1>6, <1>7, HandlersHonestNext

\* A new process holds no reading and no code.
LEMMA RestartHonest ==
  ASSUME IInv, Restart
  PROVE  ReadingsHonest'
<1>. USE DEF exchange, history
<1>1. TypeOK /\ ReadingsHonest
  BY DEF IInv
<1>2. ASSUME NEW q \in Requests PROVE HandlerHonest(q)'
  <2>1. CASE request[q].pc \in Waiting
    <3>1. request'[q] = Closed
      BY <2>1 DEF Restart
    <3>. QED
      BY <3>1, IdleAndClosed DEF HandlerHonest, Waiting
  <2>2. CASE request[q].pc \notin Waiting
    <3>1. request'[q] = request[q]
      BY <2>2 DEF Restart
    <3>. QED
      BY <1>1, <3>1, Unaffected, HandlersHonest DEF Restart
  <2>. QED
    BY <2>1, <2>2
<1>3. (ClockOK /\ CacheHonest /\ CodesHonest /\ CodesGranted)'
  BY <1>1 DEF Restart, ReadingsHonest, ClockOK, CacheHonest, CodesHonest,
              CodesGranted, EmptyCache, NoCodes
<1>. QED
  BY <1>2, <1>3, HandlersHonestNext

\* Time does not pass a call that has taken CallBound, so no reading outgrows
\* its bound.
LEMMA TickHonest ==
  ASSUME IInv, Tick
  PROVE  ReadingsHonest'
<1>. USE DEF exchange, process, history
<1>1. TypeOK /\ ReadingsHonest /\ now' = now + 1
  BY DEF IInv, Tick
<1>2. ASSUME NEW q \in Requests PROVE HandlerHonest(q)'
  <2>1. HandlerHonest(q) /\ request'[q] = request[q] /\ grants'[q] = grants[q]
    BY <1>1, HandlersHonest DEF Tick
  <2>2. request[q].pc \in Waiting => now' - request[q].sentAt <= CallBound
    BY <1>1, Clocks DEF Tick
  <2>3. request[q].sentAt <= now => request[q].sentAt <= now'
    BY <1>1, Clocks
  <2>. QED
    BY <2>1, <2>2, <2>3 DEF HandlerHonest, Since, Tick
<1>3. ClockOK'
  BY <1>1, Clocks DEF Tick, ReadingsHonest, ClockOK
<1>4. CacheHonest'
  BY <1>1, Clocks DEF Tick, ReadingsHonest, CacheHonest, Since, TypeOK, CacheEntry, Time
<1>5. CodesHonest'
  <2>1. \A c \in Requests : authCodes[c] # None => authCodes[c].createdAt \in Int
    BY <1>1 DEF TypeOK, AuthCode, Time
  <2>. QED
    BY <1>1, <2>1, Clocks DEF Tick, ReadingsHonest, CodesHonest, Since, Backed
<1>6. CodesGranted'
  BY <1>1 DEF Tick, ReadingsHonest, CodesGranted
<1>. QED
  BY <1>2, <1>3, <1>4, <1>5, <1>6, HandlersHonestNext

\* After a change every reading of that account that is not from the future is
\* covered by the change.
LEMMA ExchangeUpdatesHonest ==
  ASSUME IInv, NEW a \in Agents, ExchangeUpdates(a)
  PROVE  ReadingsHonest'
<1>. USE DEF process, history
<1>1. TypeOK /\ ReadingsHonest
  BY DEF IInv
<1>2. /\ account'[a] \in Accounts /\ changedAt'[a] = now
      /\ \A b \in Agents \ {a} : account'[b] = account[b] /\ changedAt'[b] = changedAt[b]
      /\ UNCHANGED <<now, config, repCache, authCodes, pkceChallenges, request,
                     grants, presented>>
  BY <1>1 DEF ExchangeUpdates, TypeOK
<1>3. ASSUME NEW q \in Requests PROVE HandlerHonest(q)'
  <2>1. HandlerHonest(q)
    BY <1>1, HandlersHonest
  <2>2. CASE request[q].pc \notin Waiting
    BY <1>2, <2>1, <2>2 DEF HandlerHonest, Waiting
  <2>3. CASE request[q].pc \in Waiting
    <3>1. request[q].agent \in Agents /\ request[q].sentAt <= now
      BY <2>1, <2>3 DEF HandlerHonest
    <3>2. CASE request[q].agent = a
      <4>1. /\ changedAt'[a] >= request[q].sentAt
            /\ changedAt'[a] >= request[q].sentAt - CallBound
            /\ changedAt'[a] >= request[q].sentAt - CallBound - CacheTTL
        BY <1>1, <1>2, <3>1, Clocks
      <4>. QED
        BY <1>2, <2>1, <3>2, <4>1 DEF HandlerHonest, Since
    <3>3. CASE request[q].agent # a
      BY <1>2, <2>1, <3>1, <3>3 DEF HandlerHonest, Since
    <3>. QED
      BY <3>2, <3>3
  <2>. QED
    BY <2>2, <2>3
<1>4. ClockOK'
  BY <1>1, <1>2, Clocks DEF ReadingsHonest, ClockOK
<1>5. CacheHonest'
  <2>. SUFFICES ASSUME NEW b \in Agents, repCache[b] # None
                PROVE  /\ repCache[b].storedAt <= now
                       /\ \/ repCache[b].reputation \in
                               {account'[b].reputation, DefaultReputation}
                          \/ changedAt'[b] >= repCache[b].storedAt - CallBound
    BY <1>2 DEF CacheHonest, Since
  <2>1. /\ repCache[b].storedAt <= now /\ repCache[b].storedAt \in Int
        /\ \/ repCache[b].reputation \in {account[b].reputation, DefaultReputation}
           \/ changedAt[b] >= repCache[b].storedAt - CallBound
    BY <1>1 DEF ReadingsHonest, CacheHonest, Since, TypeOK, CacheEntry, Time
  <2>2. b = a => changedAt'[b] >= repCache[b].storedAt - CallBound
    BY <1>1, <1>2, <2>1, Clocks
  <2>. QED
    BY <1>2, <2>1, <2>2
<1>6. CodesHonest'
  <2>. SUFFICES ASSUME NEW c \in Requests, authCodes[c] # None
                PROVE  LET k == authCodes[c] IN
                  /\ k.createdAt <= now
                  /\ k.kya = KyaLevel(account'[k.agent])
                       \/ changedAt'[k.agent] >= k.createdAt - CallBound
                  /\ k.reputation \in {account'[k.agent].reputation, DefaultReputation}
                       \/ changedAt'[k.agent] >= k.createdAt - 2 * CallBound - CacheTTL
                  /\ \A s \in k.scope : Backed(k, s)
    BY <1>2 DEF CodesHonest, Since, Backed, KyaLevel
  <2>1. authCodes[c].agent \in Agents /\ authCodes[c].createdAt \in Int
    BY <1>1 DEF TypeOK, AuthCode, Time
  <2>2. authCodes[c].createdAt <= now
    BY <1>1 DEF ReadingsHonest, CodesHonest
  <2>3. CASE authCodes[c].agent = a
    <3>1. /\ changedAt'[a] >= authCodes[c].createdAt - CallBound
          /\ changedAt'[a] >= authCodes[c].createdAt - 2 * CallBound - CacheTTL
      BY <1>1, <1>2, <2>1, <2>2, Clocks
    <3>. QED
      BY <1>1, <2>2, <2>3, <3>1 DEF ReadingsHonest, CodesHonest
  <2>4. CASE authCodes[c].agent # a
    BY <1>1, <1>2, <2>1, <2>4 DEF ReadingsHonest, CodesHonest, Since
  <2>. QED
    BY <2>3, <2>4
<1>7. CodesGranted'
  BY <1>1, <1>2 DEF ReadingsHonest, CodesGranted
<1>. QED
  BY <1>3, <1>4, <1>5, <1>6, <1>7, HandlersHonestNext

\* Every step keeps the readings honest.
LEMMA NextHonest == IInv /\ [Next]_vars => ReadingsHonest'
<1>. SUFFICES ASSUME IInv, [Next]_vars PROVE ReadingsHonest'
  OBVIOUS
<1>1. CASE UNCHANGED vars
  BY <1>1 DEF vars, exchange, process, history, IInv, ReadingsHonest, ClockOK,
              RepliesHonest, FlowsOK, CardWaitersHonest, CacheHonest, CodesHonest,
              CodesGranted, Since, Backed
<1>2. ASSUME NEW r \in Requests, Arrives(r) PROVE ReadingsHonest'
  <2>1. CASE RefuseOutright(r)
    BY <2>1, CloseHonest DEF RefuseOutright
  <2>2. CASE StartClientCredentials(r) \/ AuthorizeCached(r) \/ AuthorizeLookup(r)
    BY <2>2, ArrivesHonest
  <2>3. CASE RedeemCode(r) \/ RefuseCode(r)
    BY <2>3, PresentsHonest DEF RedeemCode, RefuseCode
  <2>. QED
    BY <1>2, <2>1, <2>2, <2>3 DEF Arrives
<1>3. ASSUME NEW r \in Requests, Resume(r) PROVE ReadingsHonest'
  <2>1. CASE BalanceRefused(r) \/ CardRefused(r) \/ MintClientToken(r)
    BY <2>1, CloseHonest DEF BalanceRefused, CardRefused, MintClientToken
  <2>2. CASE BalanceAccepted(r) \/ ReputationReceived(r)
    BY <2>2, NextCallHonest
  <2>3. CASE StoreCode(r)
    BY <2>3, StoreCodeHonest
  <2>. QED
    BY <1>3, <2>1, <2>2, <2>3 DEF Resume
<1>. QED
  BY <1>1, <1>2, <1>3, CallEndsHonest, RestartHonest, TickHonest,
     ExchangeUpdatesHonest DEF Next

----------------------------------------------------------------------------
(* The invariant, and what a step may mint *)

\* A fresh process holds no reading and no code.
LEMMA InitHonest == Init => ReadingsHonest
<1>. SUFFICES ASSUME Init PROVE ReadingsHonest
  OBVIOUS
<1>1. \A r \in Requests : request[r].pc = "idle"
  BY IdleAndClosed DEF Init
<1>2. ClockOK
  BY DEF Init, ClockOK
<1>3. RepliesHonest /\ FlowsOK /\ CardWaitersHonest
  BY <1>1 DEF Init, NoCodes, RepliesHonest, FlowsOK, CardWaitersHonest, Waiting
<1>4. CacheHonest /\ CodesHonest /\ CodesGranted
  BY DEF Init, EmptyCache, NoCodes, CacheHonest, CodesHonest, CodesGranted
<1>. QED
  BY <1>2, <1>3, <1>4 DEF ReadingsHonest

\* IInv is an inductive invariant of the specification.
THEOREM Invariance == Spec => []IInv
<1>1. Init => IInv
  BY InitTypeOK, InitHonest DEF IInv
<1>2. IInv /\ [Next]_vars => IInv'
  BY NextTypeOK, NextHonest DEF IInv
<1>. QED
  BY <1>1, <1>2, PTL DEF Spec

\* Every variable always holds what the code's types let it hold, for every
\* set of agents, requests, accounts and configurations.
THEOREM TypeCorrect == Spec => []TypeOK
<1>1. IInv => TypeOK
  BY DEF IInv
<1>. QED
  BY <1>1, Invariance, PTL

\* No copy of an exchange reading is older than its bound unless the exchange
\* changed the account since; a redeemable code was granted and never presented.
THEOREM ReadingsStayHonest == Spec => []ReadingsHonest
<1>1. IInv => ReadingsHonest
  BY DEF IInv
<1>. QED
  BY <1>1, Invariance, PTL

\* Only two kinds of step mint a token.
LEMMA MintingSteps ==
  ASSUME [Next]_vars, NEW t \in NewTokens
  PROVE  \E r \in Requests : MintClientToken(r) \/ RedeemCode(r)
  BY DEF NewTokens, vars, Next, Arrives, CallEnds, Resume, RefuseOutright,
         StartClientCredentials, AuthorizeCached, AuthorizeLookup, RefuseCode,
         ExchangeAnswers, ExchangeFails, ExchangeRejects, BalanceRefused,
         BalanceAccepted, ReputationReceived, CardRefused, StoreCode,
         ExchangeUpdates, Restart, Tick

\* What a client_credentials token says, and how old it is.
LEMMA ClientToken ==
  ASSUME IInv, NEW r \in Requests, MintClientToken(r), NEW t \in NewTokens
  PROVE  /\ t.code = None /\ t.agent \in Agents
         /\ t.kya = KyaLevel(account[t.agent]) \/ ChangedWithin(t.agent, CallBound)
         /\ \/ ChangedWithin(t.agent, 2 * CallBound)
            \/ account[t.agent].active /\ Says(t, account[t.agent])
         /\ \A s \in t.scope : Backed(t, s)
<1>1. /\ Granted(r) /\ request[r].flow = "client_credentials"
      /\ t = [jti |-> r, agent |-> request[r].agent,
              scope |-> DecisionFor(r).granted,
              kya |-> KyaLevel(request[r].reply),
              reputation |-> Rounded[request[r].reputation],
              code |-> None, verifier |-> None]
  BY DEF MintClientToken, Mint, NewTokens
<1>2. TypeOK /\ HandlerHonest(r)
  BY HandlersHonest DEF IInv
<1>3. /\ request[r].pc = "card" /\ request[r].agent \in Agents
      /\ request[r].reply \in Accounts /\ request[r].reputation \in Reputations
      /\ \/ request[r].reply = account[request[r].agent]
         \/ Since(request[r].agent, now - CallBound)
  BY <1>1, <1>2, ResumingHonest DEF Granted, Waiting, TypeOK, Handler
<1>4. /\ now - request[r].sentAt <= CallBound
      /\ \/ Since(request[r].agent, request[r].sentAt - CallBound)
         \/ /\ account[request[r].agent].active
            /\ request[r].reputation = account[request[r].agent].reputation
  BY <1>1, <1>2, <1>3 DEF HandlerHonest, Waiting
<1>5. /\ Since(request[r].agent, now - CallBound)
           => ChangedWithin(request[r].agent, CallBound)
      /\ Since(request[r].agent, request[r].sentAt - CallBound)
           => ChangedWithin(request[r].agent, 2 * CallBound)
  BY <1>2, <1>3, <1>4, Clocks DEF Since, ChangedWithin
<1>6. ASSUME NEW s \in t.scope PROVE Backed(t, s)
  <2>1. s \in DecisionFor(r).granted
    BY <1>1, <1>6
  <2>2. Grantable(s, request[r].agent, KyaLevel(request[r].reply), config.allowlist)
    BY <2>1, DecideScopesGrants DEF DecisionFor
  <2>3. Grantable(s, t.agent, t.kya, config.allowlist)
    BY <1>1, <2>2
  <2>. QED
    BY <2>3, GrantableBacked
<1>7. request[r].reputation = account[t.agent].reputation => Says(t, account[t.agent])
  BY <1>1, <1>3, MintedReputation
<1>. QED
  BY <1>1, <1>3, <1>4, <1>5, <1>6, <1>7

\* What a token minted from a code says, and how old it is.
LEMMA CodeToken ==
  ASSUME IInv, NEW r \in Requests, RedeemCode(r), NEW t \in NewTokens
  PROVE  /\ t.code # None /\ t.code \notin presented /\ t.agent \in Agents
         /\ t.kya = KyaLevel(account[t.agent])
              \/ ChangedWithin(t.agent, CallBound + CodeTTL)
         /\ \/ Says(t, account[t.agent]) \/ t.reputation = DefaultReputation
            \/ ChangedWithin(t.agent, 2 * CallBound + CacheTTL + CodeTTL)
         /\ \A s \in t.scope : Backed(t, s)
         /\ grants[t.code] # None /\ Matches(t, grants[t.code])
<1>1. PICK c \in Requests, v \in Verifiers \union {None} :
        /\ Redeemable(c, v)
        /\ t = [jti |-> r, agent |-> authCodes[c].agent,
                scope |-> authCodes[c].scope, kya |-> authCodes[c].kya,
                reputation |-> Rounded[authCodes[c].reputation],
                code |-> c, verifier |-> v]
  BY DEF RedeemCode, Mint, NewTokens
<1>2. TypeOK /\ CodesHonest /\ CodesGranted
  BY DEF IInv, ReadingsHonest
<1>3. /\ authCodes[c] # None /\ authCodes[c] \in AuthCode
      /\ authCodes[c].agent \in Agents /\ authCodes[c].createdAt \in Int
  BY <1>1, <1>2 DEF Redeemable, TypeOK, AuthCode, Time
<1>4. now - authCodes[c].createdAt <= CodeTTL
  BY <1>1, <1>2, <1>3, Clocks DEF Redeemable, CodeExpired
<1>5. /\ c # None /\ c \notin presented /\ grants[c] # None
      /\ grants[c].code = authCodes[c] /\ grants[c].pkce = pkceChallenges[c]
      /\ pkceChallenges[c] # None
  BY <1>2, <1>3, NoValueAssumption DEF CodesGranted
<1>6. v # None /\ grants[c].pkce.challenge \in {v, Digest(v)}
  BY <1>1, <1>5 DEF Redeemable, PkceOk, VerifyPkce
<1>7. \/ t.kya = KyaLevel(account[t.agent])
      \/ ChangedWithin(t.agent, CallBound + CodeTTL)
  BY <1>1, <1>2, <1>3, <1>4, Clocks DEF CodesHonest, Since, ChangedWithin
<1>8. \/ Says(t, account[t.agent]) \/ t.reputation = DefaultReputation
      \/ ChangedWithin(t.agent, 2 * CallBound + CacheTTL + CodeTTL)
  <2>1. \/ authCodes[c].reputation \in {account[t.agent].reputation, DefaultReputation}
        \/ ChangedWithin(t.agent, 2 * CallBound + CacheTTL + CodeTTL)
    BY <1>1, <1>2, <1>3, <1>4, Clocks DEF CodesHonest, Since, ChangedWithin
  <2>2. authCodes[c].reputation \in Reputations
    BY <1>3 DEF AuthCode
  <2>3. t.reputation = Rounded[authCodes[c].reputation]
    BY <1>1
  <2>. QED
    BY <2>1, <2>2, <2>3, MintedReputation
<1>9. \A s \in t.scope : Backed(t, s)
  BY <1>1, <1>2, <1>3 DEF CodesHonest, Backed
<1>10. Matches(t, grants[t.code])
  BY <1>1, <1>4, <1>5, <1>6 DEF Matches
<1>. QED
  BY <1>1, <1>3, <1>5, <1>7, <1>8, <1>9, <1>10

\* A downgrade of an agent's KYA level takes effect within one exchange call
\* for client_credentials and one call and a code lifetime for codes.
THEOREM KyaCurrency == Spec => KyaIsCurrent
<1>1. IInv /\ [Next]_vars => [KyaStep]_vars
  <2>. SUFFICES ASSUME IInv, [Next]_vars, NEW t \in NewTokens
                PROVE  \/ t.kya = KyaLevel(account[t.agent])
                       \/ ChangedWithin(t.agent, KyaLag(t))
    BY DEF KyaStep
  <2>1. PICK r \in Requests : MintClientToken(r) \/ RedeemCode(r)
    BY MintingSteps
  <2>2. CASE MintClientToken(r)
    <3>1. CallBound + 0 = CallBound
      BY BoundsAssumption
    <3>. QED
      BY <2>2, <3>1, ClientToken DEF KyaLag
  <2>3. CASE RedeemCode(r)
    BY <2>3, CodeToken DEF KyaLag
  <2>. QED
    BY <2>1, <2>2, <2>3
<1>. QED
  BY <1>1, Invariance, PTL DEF Spec, KyaIsCurrent

\* A token's reputation is the agent's, however late and in whatever order the
\* cache was filled, unless the exchange changed it within the stated lag.
THEOREM ReputationCurrency == Spec => ReputationIsCurrent
<1>1. IInv /\ [Next]_vars => [ReputationStep]_vars
  <2>. SUFFICES ASSUME IInv, [Next]_vars, NEW t \in NewTokens
                PROVE  \/ Says(t, account[t.agent])
                       \/ t.code # None /\ t.reputation = DefaultReputation
                       \/ ChangedWithin(t.agent, ReputationLag(t))
    BY DEF ReputationStep
  <2>1. PICK r \in Requests : MintClientToken(r) \/ RedeemCode(r)
    BY MintingSteps
  <2>2. CASE MintClientToken(r)
    BY <2>2, ClientToken DEF ReputationLag
  <2>3. CASE RedeemCode(r)
    BY <2>3, CodeToken DEF ReputationLag
  <2>. QED
    BY <2>1, <2>2, <2>3
<1>. QED
  BY <1>1, Invariance, PTL DEF Spec, ReputationIsCurrent

\* A suspended account gets no client_credentials token after two calls' time.
THEOREM SuspensionCurrency == Spec => SuspensionTakesEffect
<1>1. IInv /\ [Next]_vars => [SuspensionStep]_vars
  BY MintingSteps, ClientToken, CodeToken DEF SuspensionStep
<1>. QED
  BY <1>1, Invariance, PTL DEF Spec, SuspensionTakesEffect

\* Every scope of a new token is backed by its KYA claim or by the allowlist in
\* force when it is minted, across restarts with other environments.
THEOREM ScopesAreBacked == Spec => ScopesBacked
<1>1. IInv /\ [Next]_vars => [BackedStep]_vars
  BY MintingSteps, ClientToken, CodeToken DEF BackedStep
<1>. QED
  BY <1>1, Invariance, PTL DEF Spec, ScopesBacked

\* A code mints only for the first request that names it.
THEOREM CodesAreSingleUse == Spec => FirstPresentationOnly
<1>1. IInv /\ [Next]_vars => [PresentationStep]_vars
  <2>1. IInv => None \notin presented
    BY NoValueAssumption DEF IInv, TypeOK
  <2>. QED
    BY <2>1, MintingSteps, ClientToken, CodeToken DEF PresentationStep
<1>. QED
  BY <1>1, Invariance, PTL DEF Spec, FirstPresentationOnly

\* A token minted from a code is the grant, in time, and proved by PKCE.
THEOREM CodesMatchGrants == Spec => CodeTokensMatchGrants
<1>1. IInv /\ [Next]_vars => [GrantStep]_vars
  BY MintingSteps, ClientToken, CodeToken DEF GrantStep
<1>. QED
  BY <1>1, Invariance, PTL DEF Spec, CodeTokensMatchGrants

----------------------------------------------------------------------------
(* No handler goes round in circles. *)

\* What is left to a handler at each of the places it can be in.
LEMMA StepsLeftAt ==
  ASSUME NEW h
  PROVE  /\ h.pc = "idle" => StepsLeft(h) \in {5, 6}
         /\ h.pc \in {"balance", "reputation"} =>
              StepsLeft(h) = IF h.reply = None THEN 4 ELSE 3
         /\ h.pc = "card" => StepsLeft(h) = IF h.reply = None THEN 2 ELSE 1
         /\ h.pc = "closed" /\ h.reply = None => StepsLeft(h) = 0
<1>1. CASE h.pc = "idle"
  BY <1>1 DEF StepsLeft, CallsLeft
<1>2. CASE h.pc \in {"balance", "reputation"}
  <2>1. CallsLeft(h) = 2
    BY <1>2 DEF CallsLeft
  <2>. QED
    BY <1>2, <2>1 DEF StepsLeft
<1>3. CASE h.pc = "card"
  BY <1>3 DEF StepsLeft, CallsLeft
<1>4. CASE h.pc = "closed"
  <2>1. CallsLeft(h) = 0
    BY <1>4 DEF CallsLeft
  <2>2. h.reply = None => StepsLeft(h) = 0
    BY <2>1 DEF StepsLeft
  <2>. QED
    BY <1>4, <2>2
<1>. QED
  BY <1>1, <1>2, <1>3, <1>4

\* Closing a handler leaves it nothing.
LEMMA CloseProgress ==
  ASSUME NEW h \in Handler, h.pc # "closed"
  PROVE  StepsLeft(Closed) < StepsLeft(h)
<1>1. Closed.pc = "closed" /\ Closed.reply = None
  BY DEF Closed, Idle
<1>. QED
  BY <1>1, StepsLeftAt DEF Handler, Waiting

\* So does whatever else happens to it.
LEMMA StepProgress == IInv /\ [Next]_vars => ProgressStep
<1>. SUFFICES ASSUME IInv, [Next]_vars, NEW r \in Requests, request'[r] # request[r]
              PROVE  StepsLeft(request'[r]) < StepsLeft(request[r])
  BY DEF ProgressStep
<1>0. request \in [Requests -> Handler] /\ request[r] \in Handler
  BY DEF IInv, TypeOK
<1>1. CASE Restart
  BY <1>0, <1>1, CloseProgress DEF Restart, Waiting
<1>2. CASE \E q \in Requests : Arrives(q) \/ CallEnds(q) \/ Resume(q)
  <2>1. PICK q \in Requests : Arrives(q) \/ CallEnds(q) \/ Resume(q)
    BY <1>2
  <2>2. ASSUME Close(q), request[q].pc # "closed"
        PROVE  StepsLeft(request'[r]) < StepsLeft(request[r])
    BY <1>0, <2>2, CloseProgress DEF Close
  <2>3. ASSUME NEW h \in Handler, NEW pc \in Waiting, NEW reputation \in Reputations,
               \/ request[q].pc = "idle"
               \/ pc = "card" /\ request[q].pc \in {"balance", "reputation"},
               request' = [request EXCEPT ![q] = Awaiting(h, pc, reputation)]
        PROVE  StepsLeft(request'[r]) < StepsLeft(request[r])
    <3>1. r = q /\ request'[r] = Awaiting(h, pc, reputation)
      BY <1>0, <2>3
    <3>2. Awaiting(h, pc, reputation).pc = pc /\ Awaiting(h, pc, reputation).reply = None
      BY <2>3, AwaitingHandler DEF IInv, TypeOK
    <3>3. /\ request'[r].pc = pc /\ request'[r].reply = None /\ pc \in Waiting
          /\ \/ request[r].pc = "idle"
             \/ pc = "card" /\ request[r].pc \in {"balance", "reputation"}
      BY <2>3, <3>1, <3>2
    <3>4. ASSUME NEW old, NEW new, old = request[r], new = request'[r]
          PROVE  StepsLeft(new) < StepsLeft(old)
      BY <3>3, <3>4, StepsLeftAt DEF Waiting
    <3>. QED
      BY <3>4
  <2>4. CASE Arrives(q)
    <3>1. CASE RefuseOutright(q) \/ RedeemCode(q) \/ RefuseCode(q)
      BY <2>2, <3>1 DEF RefuseOutright, RedeemCode, RefuseCode, Presents
    <3>2. CASE StartClientCredentials(q)
      <4>1. PICK a \in Agents, raw \in ScopeRequests :
              request' = [request EXCEPT ![q] =
                Awaiting(ClientHandler(a, raw), "balance", DefaultReputation)]
        BY <3>2 DEF StartClientCredentials
      <4>. QED
        BY <2>3, <3>2, <4>1, ClientHandlerType
        DEF StartClientCredentials, Waiting, Reputations
    <3>3. CASE AuthorizeCached(q)
      <4>1. PICK a \in Agents, raw \in ScopeRequests, p \in PkceRequests :
              /\ CacheFresh(repCache[a])
              /\ request' = [request EXCEPT ![q] =
                   Awaiting(AuthorizeHandler(a, raw, p), "card", repCache[a].reputation)]
        BY <3>3 DEF AuthorizeCached
      <4>2. repCache[a].reputation \in Reputations
        BY <4>1 DEF IInv, TypeOK, CacheFresh, CacheEntry
      <4>. QED
        BY <2>3, <3>3, <4>1, <4>2, AuthorizeHandlerType DEF AuthorizeCached, Waiting
    <3>4. CASE AuthorizeLookup(q)
      <4>1. PICK a \in Agents, raw \in ScopeRequests, p \in PkceRequests :
              request' = [request EXCEPT ![q] =
                Awaiting(AuthorizeHandler(a, raw, p), "reputation", DefaultReputation)]
        BY <3>4 DEF AuthorizeLookup
      <4>. QED
        BY <2>3, <3>4, <4>1, AuthorizeHandlerType
        DEF AuthorizeLookup, Waiting, Reputations
    <3>. QED
      BY <2>4, <3>1, <3>2, <3>3, <3>4 DEF Arrives
  <2>5. CASE CallEnds(q)
    <3>1. PICK x \in Accounts \union {Failure, Rejected} :
            request' = [request EXCEPT ![q].reply = x]
      BY <1>0, <2>5 DEF CallEnds, ExchangeAnswers, ExchangeFails, ExchangeRejects,
                        AwaitsReply, IInv, TypeOK, ReadingsHonest, RepliesHonest
    <3>2. /\ request[q].pc \in Waiting /\ request[q].reply = None /\ x # None
      BY <2>5, <3>1, NoValueAssumption
      DEF CallEnds, ExchangeAnswers, ExchangeFails, ExchangeRejects, AwaitsReply
    <3>3. r = q /\ request'[r].pc = request[r].pc /\ request'[r].reply = x
      BY <1>0, <3>1, RepliedHandler
    <3>. QED
      BY <3>2, <3>3, StepsLeftAt DEF Waiting
  <2>6. CASE Resume(q)
    <3>1. CASE BalanceRefused(q) \/ CardRefused(q) \/ MintClientToken(q) \/ StoreCode(q)
      BY <2>2, <3>1 DEF BalanceRefused, CardRefused, MintClientToken, StoreCode,
                        Granted, Resumes
    <3>2. CASE BalanceAccepted(q)
      <4>1. request[q].reply \in Accounts /\ request[q].reply.reputation # None
        BY <1>0, <3>2, UsableReply DEF BalanceAccepted, Vouched
      <4>2. request[q].reply.reputation \in Reputations
        BY <4>1, AccountReadings
      <4>. QED
        BY <1>0, <2>3, <3>2, <4>2 DEF BalanceAccepted, Resumes, Waiting
    <3>3. CASE ReputationReceived(q)
      <4>1. PICK reputation \in Reputations :
              request' = [request EXCEPT ![q] = Awaiting(@, "card", reputation)]
        BY <1>0, <3>3, UsableReply, AccountReadings
        DEF ReputationReceived, Reputations
      <4>. QED
        BY <1>0, <2>3, <3>3, <4>1 DEF ReputationReceived, Resumes, Waiting
    <3>. QED
      BY <2>6, <3>1, <3>2, <3>3 DEF Resume
  <2>. QED
    BY <2>1, <2>4, <2>5, <2>6
<1>3. CASE Tick \/ (\E a \in Agents : ExchangeUpdates(a)) \/ UNCHANGED vars
  BY <1>3 DEF Tick, ExchangeUpdates, vars
<1>. QED
  BY <1>1, <1>2, <1>3 DEF Next

\* Every step of a handler brings it nearer to its response, whatever the exchange
\* answers: what EveryRequestAnswered asks of fairness is only that steps are taken.
THEOREM HandlersAdvance == Spec => HandlersProgress
<1>. QED
  BY StepProgress, Invariance, PTL DEF Spec, HandlersProgress

----------------------------------------------------------------------------
(* The refinement of CodeGrant *)

Promised == [agent : Agents, scope : SUBSET Scopes, kya : Levels,
             reputation : ClaimedReputations]

LEMMA TermsPromised ==
  ASSUME NEW x \in AuthCode PROVE Terms(x, Rounded[x.reputation]) \in Promised
BY RoundedReadings DEF AuthCode, Terms, Promised

\* Storing a code issues it.
LEMMA StoringIssues ==
  ASSUME IInv, TypeOK', NEW r \in Requests, StoreCode(r)
  PROVE  CG!Issue(r)
<1>. DEFINE code == [agent |-> request[r].agent,
                     scope |-> DecisionFor(r).granted,
                     kya |-> KyaLevel(request[r].reply),
                     reputation |-> request[r].reputation,
                     createdAt |-> now]
            grant == [code |-> code, pkce |-> request[r].pkce]
<1>1. /\ Granted(r) /\ request[r].flow = "authorize"
      /\ authCodes' = [authCodes EXCEPT ![r] = code]
      /\ grants' = [grants EXCEPT ![r] = grant]
      /\ UNCHANGED tokens
  BY DEF StoreCode
<1>2. /\ TypeOK /\ HandlerHonest(r) /\ CodesGranted
      /\ request \in [Requests -> Handler]
  BY HandlersHonest DEF IInv, ReadingsHonest, TypeOK
<1>3. request[r].pc = "card" /\ request[r].reply \in Accounts
      /\ request[r].agent \in Agents
  BY <1>1, ResumingHonest DEF Granted, Waiting
<1>4. grants[r] = None /\ request[r].pkce \in PkceData /\ authCodes[r] = None
  BY <1>1, <1>2, <1>3 DEF HandlerHonest, Waiting, CodesGranted
<1>5. code \in AuthCode
  <2>1. KyaLevel(request[r].reply) \in Levels
    BY <1>3, AccountReadings
  <2>2. DecisionFor(r).granted \in SUBSET Scopes
    BY <1>2, DecisionType
  <2>. QED
    BY <1>2, <1>3, <2>1, <2>2 DEF AuthCode, Handler, TypeOK
<1>6. grant \in Grant
  BY <1>4, <1>5 DEF Grant
<1>. HIDE DEF code, grant
<1>7. /\ authCodes'[r] = code /\ code # None
      /\ grants'[r] = grant /\ grant # None
      /\ \A c \in Requests \ {r} : authCodes'[c] = authCodes[c] /\ grants'[c] = grants[c]
  BY <1>1, <1>2, <1>5, <1>6, NoValueAssumption DEF TypeOK
<1>8. r \notin IssuedCodes /\ IssuedCodes' = IssuedCodes \union {r}
  BY <1>4, <1>7 DEF IssuedCodes
<1>9. LiveCodes' = LiveCodes \union {[code |-> r, grant |-> Terms(code, Rounded[code.reputation])]}
  BY <1>4, <1>7 DEF LiveCodes
<1>10. UNCHANGED CodeTokens
  BY <1>1 DEF CodeTokens
<1>. QED
  BY <1>5, <1>8, <1>9, <1>10, TermsPromised DEF CG!Issue, Promised

\* Redeeming a code redeems it.
LEMMA RedeemingRedeems ==
  ASSUME IInv, NEW r \in Requests, RedeemCode(r)
  PROVE  CG!Next
<1>1. PICK c \in Requests, v \in Verifiers \union {None} :
        /\ authCodes' = [authCodes EXCEPT ![c] = None]
        /\ authCodes[c] # None
        /\ Mint(r, authCodes[c].agent, authCodes[c].scope, authCodes[c].kya,
                authCodes[c].reputation, c, v)
        /\ UNCHANGED grants
  BY DEF RedeemCode, Presents, Pop, Redeemable
<1>2. TypeOK /\ c # None
  BY NoValueAssumption DEF IInv
<1>. DEFINE t == [jti |-> r, agent |-> authCodes[c].agent,
                  scope |-> authCodes[c].scope, kya |-> authCodes[c].kya,
                  reputation |-> Rounded[authCodes[c].reputation],
                  code |-> c, verifier |-> v]
            terms(d) == Terms(authCodes[d], Rounded[authCodes[d].reputation])
            l == [code |-> c, grant |-> terms(c)]
<1>3. l \in LiveCodes
  BY <1>1 DEF LiveCodes
<1>4. /\ authCodes'[c] = None
      /\ \A d \in Requests \ {c} : authCodes'[d] = authCodes[d]
  BY <1>1, <1>2 DEF TypeOK
<1>5. LiveCodes' = LiveCodes \ {l}
  <2>1. \A d \in Requests : [code |-> d, grant |-> terms(d)] = l <=> d = c
    OBVIOUS
  <2>. HIDE DEF l
  <2>. QED BY <1>4, <2>1 DEF LiveCodes
<1>6. CodeTokens' = CodeTokens \union {[holder |-> r, code |-> l.code, grant |-> l.grant]}
  <2>1. tokens' = tokens \union {t}
    BY <1>1 DEF Mint
  <2>2. t.code = c /\ t.jti = r /\ Terms(t, t.reputation) = terms(c)
    BY DEF Terms
  <2>3. l.code = c /\ l.grant = terms(c)
    OBVIOUS
  <2>. HIDE DEF t, l
  <2>. QED BY <1>2, <2>1, <2>2, <2>3 DEF CodeTokens
<1>7. UNCHANGED IssuedCodes
  BY <1>1 DEF IssuedCodes
<1>. HIDE DEF l
<1>8. CG!Redeem(l)
  BY <1>5, <1>6, <1>7 DEF CG!Redeem
<1>. QED BY <1>3, <1>8 DEF CG!Next

\* Steps that store and redeem nothing lose codes, or do nothing to them.
LEMMA OthersLose ==
  ASSUME IInv,
         UNCHANGED grants,
         UNCHANGED CodeTokens,
         \A d \in Requests : authCodes'[d] \in {authCodes[d], None}
  PROVE  CG!Lose
<1>1. LiveCodes' \subseteq LiveCodes
  BY DEF LiveCodes
<1>2. UNCHANGED IssuedCodes
  BY DEF IssuedCodes
<1>. QED BY <1>1, <1>2 DEF CG!Lose

LEMMA StepSimulation ==
  ASSUME IInv, TypeOK', [Next]_vars
  PROVE  [CG!Next]_(CG!vars)
<1>. USE DEF process, history, exchange
<1>0. TypeOK
  BY DEF IInv
<1>1. CASE \E r \in Requests : StoreCode(r)
  BY <1>1, StoringIssues DEF CG!Next
<1>2. CASE \E r \in Requests : RedeemCode(r)
  BY <1>2, RedeemingRedeems
<1>3. CASE \E r \in Requests : MintClientToken(r)
  <2>1. PICK r \in Requests : MintClientToken(r)
    BY <1>3
  <2>2. UNCHANGED <<grants, authCodes>>
    BY <2>1 DEF MintClientToken
  <2>3. PICK t : tokens' = tokens \union {t} /\ t.code = None
    <3>. DEFINE u == [jti |-> r, agent |-> request[r].agent,
                      scope |-> DecisionFor(r).granted,
                      kya |-> KyaLevel(request[r].reply),
                      reputation |-> Rounded[request[r].reputation],
                      code |-> None, verifier |-> None]
    <3>1. tokens' = tokens \union {u} /\ u.code = None
      BY <2>1 DEF MintClientToken, Mint
    <3>. QED BY <3>1
  <2>4. UNCHANGED CodeTokens
    BY <2>3 DEF CodeTokens
  <2>. QED BY <2>2, <2>4, OthersLose DEF CG!Next
<1>4. CASE \E r \in Requests : RefuseCode(r)
  <2>1. PICK r \in Requests, c \in Requests :
          /\ authCodes' = [authCodes EXCEPT ![c] = None]
          /\ UNCHANGED <<grants, tokens>>
    BY <1>4 DEF RefuseCode, Presents, Pop
  <2>2. UNCHANGED CodeTokens
    BY <2>1 DEF CodeTokens
  <2>3. \A d \in Requests : authCodes'[d] \in {authCodes[d], None}
    BY <1>0, <2>1 DEF TypeOK
  <2>. QED BY <2>1, <2>2, <2>3, OthersLose DEF CG!Next
<1>5. CASE Restart
  <2>1. UNCHANGED <<grants, tokens>> /\ \A d \in Requests : authCodes'[d] = None
    BY <1>5 DEF Restart, NoCodes
  <2>2. UNCHANGED CodeTokens
    BY <2>1 DEF CodeTokens
  <2>. QED BY <2>1, <2>2, OthersLose DEF CG!Next
<1>6. CASE UNCHANGED <<grants, authCodes, tokens>>
  <2>1. UNCHANGED CodeTokens
    BY <1>6 DEF CodeTokens
  <2>. QED BY <1>6, <2>1, OthersLose DEF CG!Next
<1>7. \/ UNCHANGED <<grants, authCodes, tokens>> \/ Restart
      \/ \E r \in Requests : \/ StoreCode(r) \/ RedeemCode(r)
                            \/ MintClientToken(r) \/ RefuseCode(r)
  BY DEF vars, Next, Arrives, CallEnds, Resume, RefuseOutright,
         StartClientCredentials, AuthorizeCached, AuthorizeLookup,
         ExchangeAnswers, ExchangeFails, ExchangeRejects, BalanceRefused,
         BalanceAccepted, ReputationReceived, CardRefused,
         ExchangeUpdates, Tick
<1>. QED BY <1>1, <1>2, <1>3, <1>4, <1>5, <1>6, <1>7

\* The authorization server implements the abstract code grant.
THEOREM CodesRefine == Spec => ImplementsCodeGrant
<1>1. Init => CG!Init
  BY DEF Init, NoCodes, CG!Init, IssuedCodes, LiveCodes, CodeTokens
<1>2. IInv /\ IInv' /\ [Next]_vars => [CG!Next]_(CG!vars)
  BY StepSimulation DEF IInv
<1>. QED
  BY <1>1, <1>2, Invariance, PTL DEF Spec, ImplementsCodeGrant, CG!Spec
============================================================================
