# A verification development for the MCP trust gateway

TLA+ models of the gateway in `src/mcp_trust_gateway`, TLC runs on small
instances of them, and TLAPS proofs for every value of their constants.
`PROJECT.json` lists the components, runs, mutants, theorems and hazards, and
maps every definition to the lines it models.

## 1. The system

The gateway is one asyncio process. It is an OAuth authorization server that
turns what an external *exchange* knows of an agent (account status, KYA level,
reputation) into signed tokens, a token exchange that derives weaker tokens for
delegates, and an MCP endpoint that decides by a token's claims whether a tool
call is forwarded to an upstream server. A federation monitor polls peers in
the background.

| Component (source) | State | Operations | Hard behaviour | What makes it correct |
|---|---|---|---|---|
| Token grants (`oauth/provider.py`) | `_auth_codes`, `_pkce_challenges`; each handler's locals across its awaits | `client_credentials`, `authorize`, `authorization_code` | other handlers, account changes and restarts between two awaits; refusals after an entry was popped | what a token says was true recently; scopes are backed; a code is used once, in time, by its owner; every request is answered |
| Exchange lookups (`trust/evaluator.py`) | `_rep_cache` | balance, account and card calls | failures and timeouts, answers that arrive out of order and fill the cache late, expiry at the boundary | no copy of a reading outlives its bound |
| Scope rules (`trust/scope_mapper.py`) | none | `decide_scopes`, `narrow_delegated_scopes` | the pilot allowlist overrides KYA for one scope | grants are backed; narrowing is deciding |
| Token exchange (`oauth/token_exchange.py`) | none: tokens are held by clients | `handle_token_exchange` | key re-read between verifying and signing; lifetimes, rounding and clamps; restarts with another environment | a child is weaker than its parent in every respect |
| Trust arithmetic (`trust/trust_decay.py`) | none | decay, rounding to four digits | rounding at every mint and every hop | the claim agrees with the verdict |
| Signing keys (`oauth/keys.py`) | a key file, read on every use | encode, decode, JWKS | rotation between two reads | a rotated key is the only way a child survives its parent's refusal |
| Tool registry, discovery, proxy (`discovery/registry.py`, `proxy.py`) | `servers`, `tools` | discovery at startup, forwarding | equal tool names on two servers, lists that stop in the middle, silent servers, broken connections, calls executed after their timeout | a call is judged by the server it goes to; it is executed at most once; startup and calls end |
| Server and verdict (`server.py`, `trust/evaluator.py`) | the evaluator's `tool_requirements`, filled at startup | lifespan, `mcp_endpoint`, `evaluate` | order of discovery, registration and serving; claims that are old when used | the KYA level and reputation shown of a tool are those it is judged by; how stale a verdict can be is bounded |
| Health monitor (`federation/health_monitor.py`) | per peer: failures and `rho_modifier`; the polling task | polling loop, decay, recovery, adding and removing peers, start and stop | peers added, removed or replaced, and the task cancelled, during a check; slow peers delay the others | trust follows a peer's own evidence; nobody starves; dead peers fade, healthy ones recover |
| Trust discount (`federation/trust_discount.py`, `registry.py`) | none | `compute_rho` of three algorithms | boundaries, order of steps, negative ceilings | rho stays in range; better telemetry never costs trust |
| Metadata and well-known documents | none | rendering | none | not modelled |
| Configuration (`config.py`) | the environment | getters | changes at a restart only | part of the other models |

Interactions: the provider awaits the evaluator's exchange lookups and calls the
scope rules, the trust arithmetic and the keys synchronously. `lifespan` awaits
discovery, then hands the registry's requirements to the evaluator, then starts
the monitor, then serves. `mcp_endpoint` decodes with the keys and awaits
`evaluate`, which does not suspend because a reputation is always passed to it,
and then the proxied call. Nothing but the reputation cache and the two code
dictionaries is shared between handlers once the gateway serves, and no handler
holds a lock: what happens between two awaits is atomic, and everything else can
interleave. The monitor shares nothing with the handlers, and neither its
modifiers nor `compute_rho` are read by any of them.

`PROJECT.json` ("hazards") lists, line by line, what is hard to test here.

## 2. Modules

| Module | Models |
|---|---|
| `ScopeMapper` | `scope_mapper.py`, as pure operators on sets of scopes |
| `Rounding` | `round(x, 4)` of `TrustScore.summary`, for values with more digits |
| `TrustDecay` | `trust_decay.py`, on a grid of `1/Unit`, of which `Grain` steps make 0.0001; extends `Rounding` |
| `TokenIssuance` | `provider.py` and the lookups and cache of `evaluator.py`; extends `ScopeMapper` and `Rounding` |
| `CodeGrant` | abstract: what the authorization code flow promises; `TokenIssuance` implements it |
| `Attenuation` | abstract: what delegation promises of the tokens clients hold; `Delegation` implements it |
| `Delegation` | `token_exchange.py`, the verdict of `mcp_endpoint`, the key file; extends `ScopeMapper` and `TrustDecay` |
| `ToolGateway` | `discovery/registry.py`, `proxy.py`, startup and `tools/call` of `server.py`; extends `ScopeMapper` |
| `RemoteCall` | abstract: what a tool call through the gateway promises; `ToolGateway` implements it |
| `Gateway` | `TokenIssuance` composed with the tool calls its tokens make |
| `HealthMonitor` | `federation/health_monitor.py` |
| `PeerTrust` | abstract: what the trust of a federated peer is made of; `HealthMonitor` implements it |
| `TrustDiscount` | `federation/trust_discount.py` and the table in `federation/registry.py` |
| `MC*` | values of the constants for TLC |
| `*Proofs` | theorems; `IndexLemmas` has the lemmas they share on least and greatest indices and on quotients |

### TokenIssuance and CodeGrant

A step is the code between two awaits of one handler. `request[r].pc` is the
exchange call a handler is suspended in, the other fields are its locals.

| Code | Actions |
|---|---|
| request refused before any await | `RefuseOutright` |
| `_client_credentials` up to the balance call | `StartClientCredentials` |
| the balance call returns (or raises) | `BalanceAccepted`, `BalanceRefused` |
| `authorize_endpoint` up to its first real suspension | `AuthorizeCached` (cache hit: already awaiting the card), `AuthorizeLookup` (a stale entry is deleted, the account route called) |
| `fetch_agent_reputation` returns | `ReputationReceived` (caches a success, not a failure) |
| the card returns | `MintClientToken`, `StoreCode`, `CardRefused` |
| `_authorization_code` | `RedeemCode`, `RefuseCode` (both pop) |
| process restart | `Restart` (dictionaries, cache and handlers are lost, the environment may change) |
| the exchange | `ExchangeAnswers`, `ExchangeFails`, `ExchangeRejects`, `ExchangeUpdates` |

The answer to a call is fixed when the exchange handles it and read when the
coroutine resumes, so that account changes fall on either side. Signing can fail
whenever it is attempted, as the key is read each time. Ghost variables:
`changedAt` (when an account last changed), `grants` (what each code was issued
for) and `presented` (codes a token request has named).

`CodeGrant` knows neither stores nor clocks, verifiers or processes: a code is
issued once, for one grant, and redeemed at most once, for exactly that. The
refinement maps issued codes to `grants`, live ones to `authCodes`, and tokens to
those that name a code.

Abstractions: a code and a `jti` are named after the request that made them
(`secrets.token_urlsafe` and `uuid4` do not repeat); SHA-256 is an injective
constructor; an exchange answer that cannot be parsed or is out of range is a
failed call; the API key is right or refused. The account route is taken to
report reputations in range, as `fetch_agent_reputation` does not check.

A reading may have more digits than a token: what is minted is `Rounded` of it, any
function that picks one of the nearest four-digit values (`round()` of one float
always gives the same). Handlers, the cache and codes hold the reading itself.

### Delegation and Attenuation

No handler here suspends, so an exchange is one step, with the one thing that
can change under it, the key file: `Exchange` verifies with `key` and signs with
`key'`. The clock is read once per step; in the code it is read twice within one
synchronous stretch. `tokens` is what clients hold. The gateway's own tokens
are not transferable (`provider.py:101`, `token_exchange.py:190`), so every chain
starts at a token of a foreign issuer that shares the key; `Roots` says what
those look like. A foreign token may carry any number of digits; a child's reputation and
trust have four (`Digits`, in steps of `Grain`). `Nearest` is `round()`, with both
outcomes at a tie, since a binary float lies a little to one side of it. `chain` is the length of the
delegation chain and `limit` stands for each of the four spending limits.
`Evaluates` is the verdict of `evaluate` for the arguments `mcp_endpoint` passes:
no spending or counterparty argument, and neither the token's scopes nor its
`effective_trust` claim is read.

`Attenuation` has tokens, what they say, and a clock, and neither keys, environments,
rounding nor requests: what a token says is fixed when it is handed out, a delegated
one is made from a live token that may be passed on and says less in every respect (its
reputation and trust up to half of `Resolution`, for rounding), and it may not be passed
on itself. `PowerOf` is what a token of `Delegation` says, in those
terms. The rotation of a key between two reads, a hazard of `DelegateNotStronger`,
is invisible there: it changes where a token is accepted, not what it says.

### ToolGateway and RemoteCall

| Code | Actions |
|---|---|
| `create_app`, `_load_from_env`, start of `lifespan` | `Init`, `Discovery` |
| `proxy_tools_list` awaits a server | `ListingAnswered`, `ListingFails` |
| it resumes, registers, and the loop goes on; after the last server the evaluator is told | `ServerDiscovered` |
| `mcp_endpoint` up to the proxied call | `Refuse`, `Deny`, `RejectUnknown`, `Forward` |
| the proxied call | `UpstreamExecutes`, `UpstreamFails`, `TimesOut`, `BreaksOff` (any other exception, or an intermediary's 502 or 504) |
| restart, servers that change their lists | `Restart`, `ServerChanges` |

`Environments` are raw lists of entries, unusable and repeated ones included;
`Entries`, `ServerIds` and `UrlOf` are what the dictionary makes of them.
`Listings` are raw answers to `tools/list`: an entry may have no name, no
annotation, or one that raises when it is read, which ends the list where it
stands. A request that timed out or broke off stays in `inflight` and may be executed
later, after a restart too. A token is its KYA level, its effective trust, its scopes and
a limit; a tool's requirements are all that `tools/list` shows, with the `required_scope`
and the `economic_impact` that no call is judged by.
Ghost variables: `changed` (servers whose list is no longer the one read) and
`executed`.

`RemoteCall` has no tools, registries or tokens: a request is refused and never sent, or
sent once; what was sent is executed once or lost, whether its client still waits or
has been given up on, with a timeout, an error or nothing; every client is told one thing,
and `result` only if the request was executed. Startup, discovery and what servers list are stuttering steps.

### Gateway

Extends `TokenIssuance` with `mintedAt` (`iat`) and `forwarded`. `IssuanceStep` is any
step of the authorization server, `CallTool` a call of a valid token that
`evaluate` allows: the gateway's own tokens have depth 0, so their effective trust
is their reputation, in four digits. An agent up to half a fourth digit short of what a
tool asks is rounded up to it, and calls the tool for as long as its reputation stays
there: `Reaches` allows for that, and for no more. That the verdict reads nothing but the token is what the
composition is about.

### HealthMonitor and PeerTrust

| Code | Actions |
|---|---|
| the loop begins a round with `list(self._peers.keys())` | `RoundBegins` |
| `check_peer` resumes, judges, and the loop goes on to its next await | `CheckEnds` (with `Advance`: peers gone meanwhile make `check_peer` raise and are passed over) |
| `add_peer`, `remove_peer` | `AddPeer` (a new record, at the old place of the key), `RemovePeer` |
| `start`, `stop` | `Start`, `Stop` (cancels out of either await) |

`attached` says whether the record `check_peer` looked up before its await is still
the registered one. `create_app` only ever adds peers, before `lifespan` starts the
monitor once and stops it once; `add_peer`, `remove_peer`, `start` and `stop` are the
class's public interface, and modelled as such. `start` has no guard of its own (a second
call would leave two tasks); that of `Start` is the caller's. What is recorded and never
read (status, uptime, latency, successes) is left out.

The code multiplies floats, which rounds to nearest. `Product` is any function that does
so: its value is off by half a `Spacing` at most, and no larger than the modifier. Floats
are an instance: they are multiples of 2^-1074, up to 1.0 they are 2^-53 apart at most, and
a product that is no larger than a float is not rounded to more than it. So a modifier
need not reach the floor. With the gateway's floor of 0.0 and rate of 0.9 it stops at
2.5e-323 after 7,050 decays, as 0.9 of that rounds to itself; with a rate of 0.5 it gets
to 0.0. `DeadPeerFades` says how high it may stop: `Spacing / 2 / (1 - rate)`. That the sum
of a recovery is rounded as well is left out, as no property depends on it. Rates above 1,
which the environment can set and nothing validates, are not modelled.
`consecutive_failures` is capped at the trigger it is compared with. Ghost
variables: `age` (since a peer's last check began) and `misses` (checks failed in a row
since the peer was added, counted up to `MissBound`).

`PeerTrust` has no task, rounds, records or clock: a peer joins with full trust, answers
or fails one check at a time, and leaves; nothing else moves its trust, and one step
moves one peer's. The refinement maps `trust` to the registered records' modifiers and
`failed` to the failures `misses` has counted, not to `consecutive_failures`: that
the two agree is part of what is shown.

### TrustDiscount

Pure functions of a policy and a peer's telemetry; the steps are those of the
telemetry (external) and of a restart with another policy. rho is on a grid of
`1/Unit`, and a quotient is rounded towards zero, which keeps its order: a statement
about order or range is exact on any grid, one about values is not made.
`1 - exp(-k * volume)` is `Saturation`, any function from 0 that does not fall. The two
age formulas agree but for the weight.

## 3. Properties and runs

| Run | States (distinct) | Question and result |
|---|---|---|
| `freshness` | 2.3 million | `KyaIsCurrent`, `ReputationIsCurrent`, `SuspensionTakesEffect`: a token carries values the exchange held at most one call (KYA) or two calls (status, reputation) ago, plus the cache's and the code's lifetime for a code. `StandingIsCurrent`: an agent that lost its standing stops calling tools a token's lifetime after that at the latest. Reputations are compared as they are rounded. With the invariant `ReadingsHonest` the proofs rest on, and `TypeOK` |
| `grants` | 360 thousand | `ScopesBacked`, `FirstPresentationOnly`, `CodeTokensMatchGrants`, and the refinement `ImplementsCodeGrant` |
| `liveness` | 472 thousand | `EveryRequestAnswered`, and `HandlersProgress`: no step takes a handler further from its answer |
| `authority` | 1.26 million | `DelegateNotStronger`: no tool for a child that its parent, rounded alike, may not call, but for the two exceptions its comment names; and the refinement `ImplementsAttenuation` |
| `claims` | 468 thousand | `ClaimsShrink`; `ClaimMatchesVerdict`: the rounded claim and the recomputed verdict are at most one fourth digit apart; `FinancialNeverAdded` |
| `tools` | 354 thousand | `JudgedByItsHost`: a call met the KYA level and reputation the server it goes to asks; `ShownTrustDecides`: those that are shown decide, and nothing else does, the shown scope and economic impact included; `ExecutionsAccounted`: executed at most once, and `result` only of what was; the refinement `ImplementsRemoteCall`; `StartupFinishes`, `EveryCallAnswered` |
| `peers` | 155 thousand | `TrustFollowsEvidence`; `DecayIsExponential`: failures in a row multiply, but for the rounding of floats, also across rounds, stops and starts; the refinement `ImplementsPeerTrust`; `ChecksNotStarved`, `DeadPeerFades`, `HealthyPeerRecovers` |
| `telemetry` | 672 | `MoreIsNeverLess`, and rho in range for every policy (`TypeOK`) |
| `lifetime`, `spending`, `live`, `ceiling` | violations | `NeverOutlivesParent`, `SpendingChecked`, `JudgedByLiveReputation`, `MonotoneInVolume`, from the docs: see section 6 |

"Now or recently" is stated with history: a claim equals the account's present
value *or* the account changed within the stated lag. Each property has a mutant
in `PROJECT.json`: a plausible bug in one mapped definition that makes the run fail.

Bounds.

- `freshness`: client handlers share no state, and a code takes one request to
  authorize and one to redeem, or one to fill the cache and one to authorize from
  it. A code authorized from the cache and redeemed would take three;
  `ReadingsHonest` bounds the age of what such a code stores, and the theorems have any
  number of requests. The clock (`MaxTime` 7) reaches further than the longest lag,
  `2*CallBound + CacheTTL + CodeTTL + TokenTTL` = 6, so a reading that should have
  expired has room to show. With two requests a reading from the cache is never minted:
  what the cache adds to a claim's age is carried by `ReadingsHonest` and the theorems.
  Accounts: good standing, with a reputation that is rounded up to what a tool asks;
  suspended with less of everything; and nothing to show. The default reputation lies
  between.
- `grants`: three requests, one to authorize and two to redeem; two verifiers, two PKCE
  methods, and allowlists that name, omit or do not concern the agent.
- `authority`: tokens of three jti hold a parent with two children or two parents;
  lifetimes lie on both sides of the floor (`MinTTL` 2); one parent has more digits than
  its children are given.
- `claims`: a grid of thirty, three steps to the digit, so that values lie on a digit or
  a third to either side of one. Every consistent parent with four decay factors and
  depths up to two, and parents with any trust between the digits, reach every rounding
  case of one hop, and one hop is all there is, since no child is transferable.
- `tools`: two servers and two tools make every collision; lists hold the same tool
  strict, open, unannotated and twice, stop in the middle, or have a nameless
  entry; one call at a time, since calls share nothing but the registry, which no
  call writes; one restart. One token has all a tool asks but its scope, the other the scope
  and too little of the rest.
- `peers`: two peers, so that one can delay, precede and outlive the other; a modifier
  grid of five with a rate of 4/5 and the gateway's floor of zero, so that decay sticks at
  two, by rounding, and recovery in twos overshoots; failures are counted up to
  `MissBound` = 4, the three decays under a trigger of 2 that lead there. A floor that cuts
  decay short is left to the theorems. The bound of `ChecksNotStarved` is reached and one tick less is violated.
- `telemetry`: thresholds, milestones and a year are crossed in both directions, on
  the boundary and off it.

Requests and jti are symmetric and used as such in the runs without temporal
properties. Deadlock is checked in every run: no part of the gateway ever stops for
good.

Fairness.

- `liveness`: `WF(CallEnds(r))`, because `exchange_client` gives every call a timeout,
  and `WF(Resume(r))`, because the event loop runs every coroutine that is ready.
  Nothing is assumed of the exchange.
- `tools`: `WF` of a listing's end (a timeout of 10 seconds), of resuming after it, and
  of a forwarded call's timeout (30 seconds). Nothing is assumed of upstream servers.
- `peers`: `WF(Tick)`, `WF(RoundBegins)`, `WF(CheckEnds)`: time passes, the client's
  timeout ends a check, and the event loop resumes the task. Nothing is assumed of
  peers, and nothing of who adds or removes them.

`CallBound` is the longest time from sending a call to resuming after it, and
`CheckTimeout` the longest a check takes: the freshness properties and
`ChecksNotStarved` are relative to them. httpx applies its timeout to each phase of a
call and to each read, so they are a few times the configured timeout plus the
time the loop takes to come back to the coroutine; an answer that trickles in byte
by byte for ever is excluded.

## 4. Proofs

All theorems are of the form `Spec => ...`, for any agents, requests, accounts,
environments, servers, lists, peers, lifetimes, grids and sets of tools that
satisfy the named assumptions of the modules, which TLC evaluates in the runs.
Every safety property a passing run checks is proved, the refinements included.

*TokenIssuance.* The step properties are not inductive: a token is minted from
copies of copies of a reading. The invariant is
`IInv == TypeOK /\ ReadingsHonest`, and `ReadingsHonest` says of every copy how old it
can be:

- a reply not yet consumed equals the account, or the account changed since the
  call was sent, and no call is older than `CallBound` (`RepliesHonest`);
- what a handler waiting for the card holds is one call older, or one call and
  one cache lifetime (`CardWaitersHonest`); a cache entry is at most one call older
  than its timestamp (`CacheHonest`); a code's readings are as old as those of
  the handler that stored it (`CodesHonest`);
- a stored code is granted, unpresented and next to its own challenge
  (`CodesGranted`).

`ExchangeUpdates` keeps it because a change covers all readings of that account at
once, `Tick` because time does not pass a call that is `CallBound` old. Each step
property then follows at the two minting actions (`ClientToken`, `CodeToken`).
`CodesRefine` is the refinement: `StoreCode` issues, `RedeemCode` redeems, `RefuseCode`
and `Restart` lose, and every other step stutters; it needs `CodesGranted`. `HandlersAdvance` proves
`HandlersProgress`: every step that touches a handler lowers `StepsLeft`, of which there
are six at first. That is the safety half of `EveryRequestAnswered`, the measure its
argument descends on; that some such step is taken needs fairness and stays with TLC.

*Gateway.* `GatewayInv` adds `TokensHonest`: a token's claims were its agent's standing
when it was minted, or lost within their lag before. It is kept because `changedAt`
only grows; `StandingCurrency` follows with the token's lifetime, and with `RoundedReaches`: a
reputation rounded to what a tool asks is at most half a fourth digit short of it. `GatewayIssues` shows that
the composition implements `TokenIssuance`, as a tool call changes nothing of the
authorization server; so its theorems hold of the composition as well
(`GatewayMintsCurrentClaims`, `GatewayGrantsCodes`).

*Delegation.* `IInv == TypeOK /\ Lineage /\ ClaimsShrink`. `Lineage` relates a child to
its parent for ever after the exchange (same KYA level, the reputation in four digits, one
hop deeper, the advertised trust decayed once, lifetime below the parent's plus the
floor); `DelegateNotStronger` follows by monotonicity: a factor of at most 1 applied
once more is no gain. `ClaimsAgree` proves `ClaimMatchesVerdict` for every grid: the
claim of a parent in four digits is half a digit off at most, a factor of at most 1 does
not widen that, and the child's rounding adds half a digit more (`TwoRoundings`). It rests on
the depth limit never being met where depth and chain agree, which the exchange's
own check of the chain ensures (`Decays`).
`DelegationAttenuates` is the refinement: `IssueRoot` issues, `Exchange` delegates, `Tick`
waits, `RotateKey` and `Restart` stutter. It needs the types alone and reads the
rest off the exchange itself: the floor's grace, the clamp in the ratio of the
limits (`ReducedLimits`), the two roundings (`DigitsNear`), and the decayed trust, which rounding
may raise by half a digit, and only if the parent's has more than four.
`NarrowingIsDeciding` shows that `narrow_delegated_scopes` equals `decide_scopes` on the
shared scopes. Two assumptions of `TrustDecay` spell out what `^` means on the
values that occur, because the provers have no exponentiation; they are facts of
arithmetic, evaluated by TLC.

*ToolGateway.* `IInv`: what the registry says of a tool is what its server listed, or
that server changed its list (`ToolsHosted`); a list under way is the server's
(`ReplyCurrent`); the evaluator knows the registry once the gateway serves
(`EvaluatorInformed`); a request not yet received has left no trace
(`IdleUntouched`) and one that is forwarded went to a server and has no outcome yet
(`ForwardedOpen`); with the accounting of executions. It is inductive because a
server's list replaces whole entries of the registry, requirements and server
together. `CallsAreRemoteCalls` is the refinement: `Forward` sends, `UpstreamExecutes` and
`UpstreamFails` execute and lose, `TimesOut`, `BreaksOff` and `Restart` give up, and all of
startup stutters. That a client is answered once rests on `ForwardedOpen`, that a request is
sent once on `IdleUntouched`.

*HealthMonitor.* `IInv` has the order of the keys and the peers of a round without
repetition (`OrderOK`, `TaskOK`), the failures of an attached record equal to `misses`
(`FailuresCounted`), `DecayIsExponential`, which is inductive beside it, and `WaitsBounded`: a peer that is still to come in this round has
waited for at most a round, a sleep and this round so far, any other for this
round so far. `NobodyStarves` follows for any number of peers. A round, a sleep and the
check itself would not be enough: a peer removed and added anew while a round goes
on is behind the others in the next. `FailuresMultiply` is the invariant
`DecayIsExponential` for every rate: the rounding of one decay adds half a `Spacing` at most
and is itself decayed by the next (`ErrorAdds`), and the floor absorbs.
`PowerAssumption` spells out what `^` means, as in `TrustDecay`. `MonitorRefines` is the
refinement: `AddPeer` joins, `RemovePeer` leaves, `CheckEnds` answers, fails or (for a
record since replaced, or in maintenance) stutters, and the rest stutters; it
rests on `FailuresCounted`.

*TrustDiscount.* Each algorithm is monotone piece by piece (quotients, caps, the last
matching step), under `Ordered` parameters (`ImprovementCostsNothing`). `OrderedIsMonotone` shows that the
statement the run `ceiling` refutes holds as soon as every policy is ordered.

Only model-checked: the liveness properties (`EveryRequestAnswered`,
`StartupFinishes`, `EveryCallAnswered`, `DeadPeerFades`, `HealthyPeerRecovers`), as
liveness under fairness is beyond the prover. Of `NeverOutlivesParent`, `SpendingChecked`,
`JudgedByLiveReputation` and `MonotoneInVolume`, which the code violates, the theorems
state what remains true (section 6).

## 5. Not modelled

- Parsing and rendering: OAuth bodies, JSON-RPC, PEM, JWK, annotations, denial
  bodies, metadata and well-known documents (`FederationWellKnown.update_policy` is
  never called), environment variables; logging; the cryptography (`keys.py` is the
  key as a value read on every use).
- Unbounded stores: codes that are never redeemed stay in memory until the process
  ends. No doc promises otherwise, and the models bound the number of requests.
- `register_server` and `register_tool` outside discovery, `discover_from_exchange` and
  `AlgorithmRegistry.register`: nothing in the gateway calls them.
- `evaluate` with arguments `mcp_endpoint` does not pass: a live reputation lookup,
  spending and counterparties (section 6).
- Values outside their range in foreign tokens (reputation above 1, a negative
  depth) are not in `Roots`; negative parameters are not policies.
- The entry point, the demos under `examples/` and the tests.

## 6. Findings

- **Lifetime floor** (`lifetime`). `SPEC.md:586`: "Delegated tokens SHOULD have shorter
  lifetimes than their parents". `token_exchange.py:196` raises the lifetime to 60
  seconds, so the child of a parent about to expire outlives it.
  `DelegateNotStronger` and `Lineage` show that this is also the limit of it: less than
  the floor.
- **Spending limits** (`spending`). `SPEC.md:356` has "spending_limits not exceeded" among
  the checks of a tool call. `server.py:168` does not pass the limits, and
  `evaluator.py:323` skips the check without them.
- **Live reputation** (`live`). `SPEC.md:243` and `SPEC.md:349` ask that a call be judged by
  the agent's current reputation; `server.py:153` passes the token's.
  `StandingIsCurrent` bounds how old that is.
- **Negative ceiling** (`ceiling`). `trust_discount.py:50` asks that rho never fall with
  volume; `trust_discount.py:200` computes a negative ceiling when `max_rho` is below the
  weight of the age. `MoreIsNeverLess` says under which parameters the promise holds.

Seen while reading, not a run: `tools/list` and `/.well-known/mcp-tools` show a tool's
`required_scope`, but `tools/call` never reads the token's scopes; `SPEC.md`, section 6.1, has
no such check in its list either. In `ToolGateway` tokens carry scopes and `ShownTrustDecides`
says that they keep nobody out; nor does the `economic_impact` that is shown beside them,
which is the finding of `spending`.

## 7. Plan

To prove next: the measure behind `StartupFinishes` (servers left to ask), as
`HandlersProgress` is for requests; and, for a peer that keeps failing, that its
modifier goes on falling until the floor, or until rounding stops it, the measure behind
`DeadPeerFades`.

To model, if the code grows into it: readers of `rho_modifier` and `compute_rho`,
which would join `HealthMonitor` and `TrustDiscount` in one model with the verdict; and
spending limits that are consumed by calls. What is left of today's code (the
algorithms and documents of `keys.py`, the well-known endpoints) is formatting.
