--------------------------- MODULE TokenIssuance ---------------------------
(***************************************************************************)
(* The gateway's authorization server, oauth/provider.py, with the         *)
(* exchange lookups of trust/evaluator.py it awaits.                       *)
(*                                                                         *)
(* A handler runs on one event loop, so a step is everything between two   *)
(* awaits.  client_credentials awaits the balance route and then the KYA   *)
(* card; authorize awaits the account route, unless the reputation cache   *)
(* answers, and then the card; redeeming a code awaits nothing.  Meanwhile *)
(* other handlers run, the exchange changes its accounts, and the process  *)
(* may die and take its dictionaries with it.                              *)
(***************************************************************************)
EXTENDS ScopeMapper, Rounding

CONSTANTS
  Agents,         \* account ids
  Accounts,       \* what the exchange may hold: [active, kya, reputation],
                  \* None for an account without a card or a reputation
  Requests,       \* HTTP requests, each handled once; a handler's random jti
                  \* and code are named by its request, so they never repeat
  Verifiers,      \* PKCE code verifiers
  PkceRequests,   \* [challenge, method] pairs clients send
  ScopeRequests,  \* sets of scopes clients ask for; {} is a blank string
  Configs,        \* what a process may be started with: [allowlist, authorize]
  CallBound,      \* longest time from sending an exchange call to resuming
  CacheTTL,       \* reputation cache lifetime
  CodeTTL,        \* authorization code lifetime (300 in the code)
  MaxTime,        \* bound on the clock
  DefaultReputation, \* the 0.5 used when the exchange gives no reputation
  Rounded,        \* round(reputation, 4) of every reading: a function, as the
                  \* same reading is always rounded the same way
  None, Failure, Rejected

VARIABLES
  now,            \* time.time(), in ticks
  account,        \* the exchange's account of each agent (external)
  changedAt,      \* when the exchange last changed it (history)
  config,         \* the environment this process was started with
  repCache,       \* _rep_cache._store
  authCodes,      \* _auth_codes
  pkceChallenges, \* _pkce_challenges
  request,        \* the handlers' local state
  tokens,         \* every token minted; the gateway itself keeps none
  grants,         \* what each code was issued for (history)
  presented       \* codes a token request has named (history)

exchange == <<account, changedAt>>
process  == <<config, repCache, authCodes, pkceChallenges>>
history  == <<grants, presented>>
vars == <<now, exchange, process, request, tokens, history>>

----------------------------------------------------------------------------
Time == 0..MaxTime
Levels == 0..5
Reputations ==
  ({a.reputation : a \in Accounts} \ {None}) \union {DefaultReputation}

\* A token has four digits of a reading.
ClaimedReputations == {Rounded[r] : r \in Reputations}

\* The card route answers 404 for an account with no card: level 0.
KyaLevel(acct) == IF acct.kya = None THEN SANDBOX ELSE acct.kya

\* An account route answer without a reputation counts as the default.
Reported(acct) ==
  IF acct.reputation = None THEN DefaultReputation ELSE acct.reputation

CacheEntry == [storedAt : Time, reputation : Reputations]
PkceData   == PkceRequests
AuthCode   == [agent : Agents, scope : SUBSET Scopes, kya : Levels,
               reputation : Reputations, createdAt : Time]
Grant      == [code : AuthCode, pkce : PkceData]
Token      == [jti : Requests, agent : Agents, scope : SUBSET Scopes,
               kya : Levels, reputation : ClaimedReputations,
               code : Requests \union {None}, verifier : Verifiers \union {None}]

\* A handler's locals.  pc names the exchange call it awaits.
Waiting == {"balance", "reputation", "card"}
Handler == [pc : Waiting \union {"idle", "closed"},
            flow : {"client_credentials", "authorize"},
            agent : Agents \union {None},
            scopes : SUBSET Scopes,
            pkce : PkceData \union {None},
            sentAt : Time,
            reply : Accounts \union {None, Failure, Rejected},
            reputation : Reputations]

Idle == [pc |-> "idle", flow |-> "client_credentials", agent |-> None,
         scopes |-> {}, pkce |-> None, sentAt |-> 0, reply |-> None,
         reputation |-> DefaultReputation]
Closed == [Idle EXCEPT !.pc = "closed"]

ASSUME AccountsAssumption ==
  Accounts \subseteq [active : BOOLEAN, kya : Levels \union {None},
                      reputation : {a.reputation : a \in Accounts}]
\* The default, 0.5, has fewer digits than are kept.
ASSUME RoundedAssumption ==
  /\ Reputations \subseteq Nat /\ None \notin Nat
  /\ \A r \in Reputations : Rounded[r] \in Digits(r, 1)
  /\ Rounded[DefaultReputation] = DefaultReputation
ASSUME BoundsAssumption ==
  /\ CallBound \in Nat /\ CacheTTL \in Nat /\ CodeTTL \in Nat /\ MaxTime \in Nat
ASSUME NoValueAssumption ==
  /\ None \notin Agents /\ None \notin Requests
  /\ None \notin Verifiers /\ None \notin Levels
  /\ None \notin CacheEntry /\ None \notin AuthCode
  /\ None \notin PkceData /\ None \notin Grant /\ None # DefaultReputation
  /\ {None, Failure, Rejected} \intersect Accounts = {}
  /\ None # Failure /\ None # Rejected /\ Failure # Rejected
ASSUME InputsAssumption ==
  /\ ScopeRequests \subseteq SUBSET Scopes
  /\ \A c \in Configs : c.authorize \in BOOLEAN

----------------------------------------------------------------------------
(* Helpers *)

\* _requested_scopes
RequestedScopes(raw, default) == IF raw = {} THEN default ELSE raw

\* _ReputationCache.get: an entry exactly CacheTTL old still counts.
\* (Mutant: entries never expire.)
CacheFresh_Forever(entry) == entry # None
CacheFresh(entry) == entry # None /\ ~(now - entry.storedAt > CacheTTL)

\* (Mutant: the check compares with the cache's lifetime on top of the code's.)
CodeExpired_Late(c) == now - authCodes[c].createdAt > CodeTTL + CacheTTL
CodeExpired(c) == now - authCodes[c].createdAt > CodeTTL

\* _verify_pkce: every method but S256 compares the strings themselves.
Digest(v) == <<"sha256", v>>
VerifyPkce(v, p) ==
  IF p.method = "S256" THEN Digest(v) = p.challenge ELSE v = p.challenge

\* The pkce branches of _authorization_code; v = None is a missing verifier.
\* (Mutant: a missing verifier skips the check.)
PkceOk_OnlyIfSent(c, v) == v = None \/ VerifyPkce(v, pkceChallenges[c])
PkceOk(c, v) ==
  \/ pkceChallenges[c] = None
  \/ v # None /\ VerifyPkce(v, pkceChallenges[c])

\* (Mutant: the entry is read and left in place.)
Pop_Get(dict, c) == dict

Pop(dict, c) == [dict EXCEPT ![c] = None]

\* A handler r sends an exchange call and awaits it.
Awaiting(h, pc, reputation) ==
  [h EXCEPT !.pc = pc, !.sentAt = now, !.reply = None, !.reputation = reputation]

Close(r) == request' = [request EXCEPT ![r] = Closed]

\* The claims of a token are those of a code or a handler, the reputation as
\* TrustScore.summary rounds it.
Mint(r, agent, scope, kya, reputation, code, verifier) ==
  tokens' = tokens \union
    {[jti |-> r, agent |-> agent, scope |-> scope, kya |-> kya,
      reputation |-> Rounded[reputation], code |-> code, verifier |-> verifier]}

\* decide_scopes as the handler r calls it once it has the card.
DecisionFor(r) ==
  DecideScopes(request[r].scopes, request[r].agent,
               KyaLevel(request[r].reply), config.allowlist)

----------------------------------------------------------------------------
(* Initial states: a fresh process, any accounts. *)
NoCodes == [c \in Requests |-> None]
EmptyCache == [a \in Agents |-> None]

Init ==
  /\ now = 0
  /\ account \in [Agents -> Accounts]
  /\ changedAt = [a \in Agents |-> 0]
  /\ config \in Configs
  /\ repCache = EmptyCache
  /\ authCodes = NoCodes
  /\ pkceChallenges = NoCodes
  /\ request = [r \in Requests |-> Idle]
  /\ tokens = {}
  /\ grants = NoCodes
  /\ presented = {}

----------------------------------------------------------------------------
(* Requests arrive. *)

\* Answered before any await and with no effect: malformed bodies and client
\* credentials, a disabled or unknown grant, a missing code_challenge, a code
\* that was never issued.
RefuseOutright(r) ==
  /\ request[r].pc = "idle"
  /\ Close(r)
  /\ UNCHANGED <<now, exchange, process, tokens, history>>

\* _client_credentials up to its first await.
ClientHandler(a, raw) ==
  [Idle EXCEPT !.flow = "client_credentials", !.agent = a,
               !.scopes = RequestedScopes(raw, {READ})]

StartClientCredentials(r) ==
  /\ request[r].pc = "idle"
  /\ \E a \in Agents, raw \in ScopeRequests :
       request' = [request EXCEPT ![r] =
         Awaiting(ClientHandler(a, raw), "balance", DefaultReputation)]
  /\ UNCHANGED <<now, exchange, process, tokens, history>>

\* authorize_endpoint up to its first await: the cache may save it one call,
\* and an entry found stale is deleted before the call is sent.
AuthorizeHandler(a, raw, p) ==
  [Idle EXCEPT !.flow = "authorize", !.agent = a, !.pkce = p,
               !.scopes = RequestedScopes(raw, {})]

AuthorizeCached(r) ==
  /\ request[r].pc = "idle"
  /\ config.authorize
  /\ \E a \in Agents, raw \in ScopeRequests, p \in PkceRequests :
       /\ CacheFresh(repCache[a])
       /\ request' = [request EXCEPT ![r] =
            Awaiting(AuthorizeHandler(a, raw, p), "card", repCache[a].reputation)]
  /\ UNCHANGED <<now, exchange, process, tokens, history>>

AuthorizeLookup(r) ==
  /\ request[r].pc = "idle"
  /\ config.authorize
  /\ \E a \in Agents, raw \in ScopeRequests, p \in PkceRequests :
       /\ ~CacheFresh(repCache[a])
       /\ repCache' = [repCache EXCEPT ![a] = None]
       /\ request' = [request EXCEPT ![r] =
            Awaiting(AuthorizeHandler(a, raw, p), "reputation", DefaultReputation)]
  /\ UNCHANGED <<now, exchange, config, authCodes, pkceChallenges,
                 tokens, history>>

----------------------------------------------------------------------------
(* The exchange answers, or does not. *)

AwaitsReply(r) == request[r].pc \in Waiting /\ request[r].reply = None

\* The answer shows the account as it is when the exchange handles the call;
\* the handler sees it when it resumes.
ExchangeAnswers(r) ==
  /\ AwaitsReply(r)
  /\ request' = [request EXCEPT ![r].reply = account[request[r].agent]]
  /\ UNCHANGED <<now, exchange, process, tokens, history>>

\* A network error, a timeout, a 5xx or a body the handler cannot use.
ExchangeFails(r) ==
  /\ AwaitsReply(r)
  /\ request' = [request EXCEPT ![r].reply = Failure]
  /\ UNCHANGED <<now, exchange, process, tokens, history>>

\* The balance route refuses the caller's API key.
ExchangeRejects(r) ==
  /\ AwaitsReply(r)
  /\ request[r].pc = "balance"
  /\ request' = [request EXCEPT ![r].reply = Rejected]
  /\ UNCHANGED <<now, exchange, process, tokens, history>>

----------------------------------------------------------------------------
(* Handlers resume. *)

Resumes(r, pc) == request[r].pc = pc /\ request[r].reply # None
Usable(reply)  == reply \notin {Failure, Rejected}

\* authenticate_exchange_api_key vouches for an active account with a
\* reputation; it raises (503) or returns nothing (401) otherwise.
Vouched(reply) == Usable(reply) /\ reply.active /\ reply.reputation # None

BalanceRefused(r) ==
  /\ Resumes(r, "balance")
  /\ ~Vouched(request[r].reply)
  /\ Close(r)
  /\ UNCHANGED <<now, exchange, process, tokens, history>>

\* (Mutant: account_status is not looked at.)
BalanceAccepted_AnyStatus(r) ==
  /\ Resumes(r, "balance")
  /\ Usable(request[r].reply)
  /\ request[r].reply.reputation # None
  /\ request' = [request EXCEPT ![r] =
                   Awaiting(@, "card", request[r].reply.reputation)]
  /\ UNCHANGED <<now, exchange, process, tokens, history>>

\* (Mutant: the balance answer's reputation is dropped for the default.)
BalanceAccepted_Default(r) ==
  /\ Resumes(r, "balance")
  /\ Vouched(request[r].reply)
  /\ request' = [request EXCEPT ![r] = Awaiting(@, "card", DefaultReputation)]
  /\ UNCHANGED <<now, exchange, process, tokens, history>>

BalanceAccepted(r) ==
  /\ Resumes(r, "balance")
  /\ Vouched(request[r].reply)
  /\ request' = [request EXCEPT ![r] =
                   Awaiting(@, "card", request[r].reply.reputation)]
  /\ UNCHANGED <<now, exchange, process, tokens, history>>

\* (Mutant: a failed lookup is sent again until it succeeds.)
ReputationReceived_Retries(r) ==
  /\ Resumes(r, "reputation")
  /\ request' = [request EXCEPT ![r] =
       IF Usable(@.reply) THEN Awaiting(@, "card", Reported(@.reply))
       ELSE Awaiting(@, "reputation", DefaultReputation)]
  /\ UNCHANGED <<now, exchange, process, tokens, history>>

\* (Mutant: authorize does not replace a missing reputation.)
ReputationReceived_NoDefault(r) ==
  /\ Resumes(r, "reputation")
  /\ request' = [request EXCEPT ![r] =
       Awaiting(@, "card", IF Usable(@.reply) THEN Reported(@.reply) ELSE None)]
  /\ UNCHANGED <<now, exchange, process, tokens, history>>

\* fetch_agent_reputation returns: the reading is cached as of now, however
\* long ago the exchange took it, the default for a missing reputation included;
\* a failed lookup is not cached, and authorize assumes the default.
ReputationReceived(r) ==
  /\ Resumes(r, "reputation")
  /\ LET reply == request[r].reply IN
       IF Usable(reply)
       THEN /\ repCache' = [repCache EXCEPT ![request[r].agent] =
                              [storedAt |-> now, reputation |-> Reported(reply)]]
            /\ request' = [request EXCEPT ![r] =
                             Awaiting(@, "card", Reported(reply))]
       ELSE /\ UNCHANGED repCache
            /\ request' = [request EXCEPT ![r] =
                             Awaiting(@, "card", DefaultReputation)]
  /\ UNCHANGED <<now, exchange, config, authCodes, pkceChallenges,
                 tokens, history>>

\* The card came and every requested scope is granted: there are no partial
\* grants.
Granted(r) ==
  /\ Resumes(r, "card")
  /\ Usable(request[r].reply)
  /\ DecisionFor(r).denied = {}

\* 503 without a card, 403 with a denied scope, 500 when signing fails: the key
\* is read again on every call, so any call may find it missing or unusable.
CardRefused(r) ==
  /\ Resumes(r, "card")
  /\ Granted(r) => request[r].flow = "client_credentials"
  /\ Close(r)
  /\ UNCHANGED <<now, exchange, process, tokens, history>>

MintClientToken(r) ==
  /\ Granted(r)
  /\ request[r].flow = "client_credentials"
  /\ Mint(r, request[r].agent, DecisionFor(r).granted,
          KyaLevel(request[r].reply), request[r].reputation, None, None)
  /\ Close(r)
  /\ UNCHANGED <<now, exchange, process, history>>

\* authorize_endpoint stores the code and its challenge.
StoreCode(r) ==
  /\ Granted(r)
  /\ request[r].flow = "authorize"
  /\ LET code == [agent |-> request[r].agent,
                  scope |-> DecisionFor(r).granted,
                  kya |-> KyaLevel(request[r].reply),
                  reputation |-> request[r].reputation,
                  createdAt |-> now]
     IN /\ authCodes' = [authCodes EXCEPT ![r] = code]
        /\ pkceChallenges' = [pkceChallenges EXCEPT ![r] = request[r].pkce]
        /\ grants' = [grants EXCEPT ![r] = [code |-> code, pkce |-> request[r].pkce]]
  /\ Close(r)
  /\ UNCHANGED <<now, exchange, config, repCache, tokens, presented>>

----------------------------------------------------------------------------
(* _authorization_code: one step, no await.  Both entries are popped before
   anything is checked, so a refused code is gone too. *)
Presents(r, c) ==
  /\ request[r].pc = "idle"
  /\ config.authorize
  /\ grants[c] # None
  /\ authCodes' = Pop(authCodes, c)
  /\ pkceChallenges' = Pop(pkceChallenges, c)
  /\ presented' = presented \union {c}
  /\ Close(r)

Redeemable(c, v) ==
  /\ authCodes[c] # None
  /\ ~CodeExpired(c)
  /\ PkceOk(c, v)

RedeemCode(r) ==
  \E c \in Requests, v \in Verifiers \union {None} :
    /\ Presents(r, c)
    /\ Redeemable(c, v)
    /\ Mint(r, authCodes[c].agent, authCodes[c].scope, authCodes[c].kya,
            authCodes[c].reputation, c, v)
    /\ UNCHANGED <<now, exchange, config, repCache, grants>>

\* Whatever the reason: an unusable code, or a key that cannot sign.
RefuseCode(r) ==
  \E c \in Requests :
    /\ Presents(r, c)
    /\ UNCHANGED <<now, exchange, config, repCache, grants, tokens>>

----------------------------------------------------------------------------
(* The process and its environment. *)

\* The dictionaries and the handlers die with the process; tokens are signed
\* and survive.  The new process may have another environment.
\* (Mutant: the codes are kept in a store that outlives the process.)
Restart_KeepsCodes ==
  /\ config' \in Configs
  /\ repCache' = EmptyCache
  /\ request' = [r \in Requests |->
                   IF request[r].pc \in Waiting THEN Closed ELSE request[r]]
  /\ UNCHANGED <<now, exchange, authCodes, pkceChallenges, tokens, history>>

Restart ==
  /\ config' \in Configs
  /\ repCache' = EmptyCache
  /\ authCodes' = NoCodes
  /\ pkceChallenges' = NoCodes
  /\ request' = [r \in Requests |->
                   IF request[r].pc \in Waiting THEN Closed ELSE request[r]]
  /\ UNCHANGED <<now, exchange, tokens, history>>

ExchangeUpdates(a) ==
  /\ \E acct \in Accounts \ {account[a]} : account' = [account EXCEPT ![a] = acct]
  /\ changedAt' = [changedAt EXCEPT ![a] = now]
  /\ UNCHANGED <<now, process, request, tokens, history>>

\* Time does not pass a call that has taken CallBound: the client times out.
Tick ==
  /\ now < MaxTime
  /\ \A r \in Requests :
       request[r].pc \in Waiting => now - request[r].sentAt < CallBound
  /\ now' = now + 1
  /\ UNCHANGED <<exchange, process, request, tokens, history>>

----------------------------------------------------------------------------
Arrives(r) ==
  \/ RefuseOutright(r) \/ StartClientCredentials(r)
  \/ AuthorizeCached(r) \/ AuthorizeLookup(r)
  \/ RedeemCode(r) \/ RefuseCode(r)

CallEnds(r) == ExchangeAnswers(r) \/ ExchangeFails(r) \/ ExchangeRejects(r)

Resume(r) ==
  \/ BalanceRefused(r) \/ BalanceAccepted(r) \/ ReputationReceived(r)
  \/ CardRefused(r) \/ MintClientToken(r) \/ StoreCode(r)

Next ==
  \/ \E r \in Requests : Arrives(r) \/ CallEnds(r) \/ Resume(r)
  \/ \E a \in Agents : ExchangeUpdates(a)
  \/ Restart \/ Tick

Spec == Init /\ [][Next]_vars

\* Every exchange call ends (the client times out) and every coroutine whose
\* call ended is resumed (the event loop is fair).
Fairness == \A r \in Requests : WF_vars(CallEnds(r)) /\ WF_vars(Resume(r))
FairSpec == Spec /\ Fairness

----------------------------------------------------------------------------
(* Properties *)

\* Every variable holds what the code's types let it hold.
TypeOK ==
  /\ now \in Time
  /\ account \in [Agents -> Accounts]
  /\ changedAt \in [Agents -> Time]
  /\ config \in Configs
  /\ repCache \in [Agents -> CacheEntry \union {None}]
  /\ authCodes \in [Requests -> AuthCode \union {None}]
  /\ pkceChallenges \in [Requests -> PkceData \union {None}]
  /\ request \in [Requests -> Handler]
  /\ tokens \subseteq Token
  /\ grants \in [Requests -> Grant \union {None}]
  /\ presented \subseteq Requests

NewTokens == tokens' \ tokens
ChangedWithin(a, lag) == now - changedAt[a] <= lag

\* A token is minted with a KYA claim that is the agent's level, or was until
\* the exchange changed it so recently that the card call (and, for a code,
\* the code's lifetime) explains the difference: a downgrade takes effect in
\* _client_credentials within one call and in the code flow within
\* one call and one code lifetime.
KyaLag(t) == CallBound + (IF t.code = None THEN 0 ELSE CodeTTL)
KyaStep ==
  \A t \in NewTokens :
    \/ t.kya = KyaLevel(account[t.agent])
    \/ ChangedWithin(t.agent, KyaLag(t))
KyaIsCurrent == [][KyaStep]_vars

\* The same for the reputation claim, in its four digits.  A client_credentials
\* token carries a reading at most two calls old and never the default; a code's reading may
\* have waited in the cache, where another handler may have put it late or out
\* of order, and may be the default that authorize_endpoint assumes.
ReputationLag(t) ==
  IF t.code = None THEN 2 * CallBound
  ELSE 2 * CallBound + CacheTTL + CodeTTL
Says(t, acct) ==
  acct.reputation # None /\ t.reputation = Rounded[acct.reputation]
ReputationStep ==
  \A t \in NewTokens :
    \/ Says(t, account[t.agent])
    \/ t.code # None /\ t.reputation = DefaultReputation
    \/ ChangedWithin(t.agent, ReputationLag(t))
ReputationIsCurrent == [][ReputationStep]_vars

\* An account the exchange suspended gets no client_credentials token once the
\* two calls that could have overlapped the suspension are over.
SuspensionStep ==
  \A t \in NewTokens :
    t.code = None => \/ account[t.agent].active
                     \/ ChangedWithin(t.agent, 2 * CallBound)
SuspensionTakesEffect == [][SuspensionStep]_vars

\* Whatever happened since the scopes were decided, a token is minted only with
\* scopes that its own KYA claim supports, or the allowlist in force as it is
\* minted: a code never outlives the process whose allowlist it was granted under.
Backed(t, s) ==
  \/ KyaForScope(s) <= t.kya /\ (s = TOOL_FINANCIAL => config.allowlist = {})
  \/ s = TOOL_FINANCIAL /\ t.agent \in config.allowlist
BackedStep == \A t \in NewTokens : \A s \in t.scope : Backed(t, s)
ScopesBacked == [][BackedStep]_vars

\* Only the first token request that names a code can mint from it: a wrong
\* verifier, an expired code or a signing error burns the code.
PresentationStep == \A t \in NewTokens : t.code \notin presented
FirstPresentationOnly == [][PresentationStep]_vars

\* A token minted from a code is the one authorize_endpoint granted, in time,
\* to the holder of the string its PKCE challenge was made from.
Matches(t, g) ==
  /\ <<t.agent, t.scope, t.kya, t.reputation>> =
       <<g.code.agent, g.code.scope, g.code.kya, Rounded[g.code.reputation]>>
  /\ now - g.code.createdAt <= CodeTTL
  /\ t.verifier # None
  /\ g.pkce.challenge \in {t.verifier, Digest(t.verifier)}
GrantStep ==
  \A t \in NewTokens :
    t.code # None => grants[t.code] # None /\ Matches(t, grants[t.code])
CodeTokensMatchGrants == [][GrantStep]_vars

\* The stores, clocks, awaits and restarts add up to CodeGrant: a code is issued
\* once, and of everything that can happen to it only its first redemption mints,
\* exactly what was granted, in the four digits of a token.
Terms(x, reputation) == [agent |-> x.agent, scope |-> x.scope, kya |-> x.kya,
                         reputation |-> reputation]
IssuedCodes == {c \in Requests : grants[c] # None}
LiveCodes ==
  {[code |-> c, grant |-> Terms(authCodes[c], Rounded[authCodes[c].reputation])] :
     c \in {d \in Requests : authCodes[d] # None}}
CodeTokens ==
  {[holder |-> t.jti, code |-> t.code, grant |-> Terms(t, t.reputation)] :
     t \in {u \in tokens : u.code # None}}
CG == INSTANCE CodeGrant WITH
        Codes <- Requests, Holders <- Requests,
        Grants <- [agent : Agents, scope : SUBSET Scopes, kya : Levels,
                   reputation : ClaimedReputations],
        issued <- IssuedCodes, live <- LiveCodes, minted <- CodeTokens
ImplementsCodeGrant == CG!Spec

\* No handler goes back to a call it has made, whatever that call came to: at most
\* two, each answered once, stand between a request and its response.
CallsLeft(h) ==
  CASE h.pc = "idle" -> 3
    [] h.pc \in {"balance", "reputation"} -> 2
    [] h.pc = "card" -> 1
    [] h.pc = "closed" -> 0
StepsLeft(h) == 2 * CallsLeft(h) - (IF h.reply = None THEN 0 ELSE 1)
ProgressStep ==
  \A r \in Requests :
    request'[r] # request[r] => StepsLeft(request'[r]) < StepsLeft(request[r])
HandlersProgress == [][ProgressStep]_vars

\* A handler never hangs: whatever the exchange does, every request in flight
\* is answered, or dropped by a restart.
EveryRequestAnswered ==
  \A r \in Requests : request[r].pc \in Waiting ~> request[r].pc = "closed"

----------------------------------------------------------------------------
(***************************************************************************)
(* Why the step properties hold: every copy of an exchange reading, in a   *)
(* handler, in the cache or in a code, is the account's present value or   *)
(* the account changed since the reading can have been taken.              *)
(***************************************************************************)
Since(a, t) == changedAt[a] >= t

ClockOK == \A a \in Agents : changedAt[a] <= now

RepliesHonest ==
  \A r \in Requests : LET h == request[r] IN
    h.pc \in Waiting =>
      /\ h.agent \in Agents
      /\ h.sentAt <= now /\ now - h.sentAt <= CallBound
      /\ h.reply \in Accounts => h.reply = account[h.agent] \/ Since(h.agent, h.sentAt)

FlowsOK ==
  \A r \in Requests : LET h == request[r] IN
    /\ h.pc = "balance" => h.flow = "client_credentials"
    /\ h.pc = "reputation" => h.flow = "authorize"
    /\ h.pc \in Waiting /\ h.flow = "authorize" => h.pkce \in PkceData
    /\ h.pc # "closed" => grants[r] = None

CardWaitersHonest ==
  \A r \in Requests : LET h == request[r] IN
    h.pc = "card" =>
      IF h.flow = "client_credentials"
      THEN \/ Since(h.agent, h.sentAt - CallBound)
           \/ /\ account[h.agent].active
              /\ h.reputation = account[h.agent].reputation
      ELSE \/ Since(h.agent, h.sentAt - CallBound - CacheTTL)
           \/ h.reputation \in {account[h.agent].reputation, DefaultReputation}

CacheHonest ==
  \A a \in Agents : repCache[a] # None =>
    /\ repCache[a].storedAt <= now
    /\ \/ repCache[a].reputation \in {account[a].reputation, DefaultReputation}
       \/ Since(a, repCache[a].storedAt - CallBound)

CodesHonest ==
  \A c \in Requests : authCodes[c] # None => LET code == authCodes[c] IN
    /\ code.createdAt <= now
    /\ code.kya = KyaLevel(account[code.agent])
         \/ Since(code.agent, code.createdAt - CallBound)
    /\ code.reputation \in {account[code.agent].reputation, DefaultReputation}
         \/ Since(code.agent, code.createdAt - 2 * CallBound - CacheTTL)
    /\ \A s \in code.scope : Backed(code, s)

CodesGranted ==
  \A c \in Requests :
    /\ authCodes[c] # None => /\ grants[c] # None /\ c \notin presented
                              /\ grants[c].code = authCodes[c]
                              /\ grants[c].pkce = pkceChallenges[c]
                              /\ pkceChallenges[c] # None
    /\ c \in presented => grants[c] # None

\* A reading older than its copy's bound has been overtaken by a change, and a
\* code that can be redeemed is one that was granted here and never presented.
ReadingsHonest ==
  /\ ClockOK /\ RepliesHonest /\ FlowsOK /\ CardWaitersHonest
  /\ CacheHonest /\ CodesHonest /\ CodesGranted

IInv == TypeOK /\ ReadingsHonest
============================================================================
