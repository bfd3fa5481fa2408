----------------------------- MODULE Delegation -----------------------------
(***************************************************************************)
(* Delegated tokens: handle_token_exchange (oauth/token_exchange.py) mints *)
(* a child of a token its caller holds, and mcp_endpoint (server.py) with  *)
(* TrustEvaluator.evaluate (trust/evaluator.py) decides which tools either *)
(* may call.  Both verify with the key that oauth/keys.py reads from its   *)
(* file on every use.                                                      *)
(*                                                                         *)
(* Neither handler awaits anything, so each is one step; a refusal changes *)
(* nothing.  The gateway keeps no record of tokens: `tokens' is what       *)
(* clients hold.  The gateway mints no transferable token, so every chain  *)
(* starts at a token of a foreign issuer that shares the key.              *)
(***************************************************************************)
EXTENDS ScopeMapper, TrustDecay

CONSTANTS
  Ids,            \* jti of the tokens
  Keys,           \* signing keys
  Actors,         \* actor_token_agent_id values
  Unnamed,        \* the generated delegate-<random> id of an unnamed actor
  Roots,          \* tokens the issuer mints
  ScopeRequests,  \* explicit scope parameters
  Tools,          \* trust requirements of tools: [kya, reputation]
  Configs,        \* environments: [allowlist, maxDepth, decay]
  TokenTTL,       \* OAUTH_TOKEN_TTL
  MinTTL,         \* 60 in the code
  DefaultTTL,     \* 3600: what a parent without exp is taken to have left
  MinTrust,       \* 0.001: the least parent trust the ratio divides by
  MaxTime,        \* bound on the clock
  None

VARIABLES
  now,     \* int(time.time())
  key,     \* the key in the file
  config,  \* the environment of this process
  tokens   \* every token by jti; None where there is none yet

vars == <<now, key, config, tokens>>

----------------------------------------------------------------------------
Time == 0..MaxTime
Levels == 0..5
OrNone(S) == S \union {None}

\* What the trust, delegation and spending_limits claims say, with the scopes.
\* chain is the length of delegation.chain; limit stands for every limit.
Claims == [agent : OrNone(Actors \union {Unnamed}), scope : SUBSET Scopes,
           kya : Levels, reputation : Amounts, effective : Amounts,
           decay : OrNone(Amounts), depth : Nat, chain : Nat,
           transferable : BOOLEAN, limit : OrNone(Nat)]

\* A token: its claims, iat and exp, and the key it is signed with.  parent is
\* parent_jti; asked (history) is the scope parameter it was exchanged with.
Token == [claims : Claims, iat : Time, exp : OrNone(Nat), signedBy : Keys,
          parent : OrNone(Ids), asked : SUBSET Scopes]

\* What a token lets its holder do and pass on.
Power == [from : OrNone(Ids), passable : BOOLEAN, scope : SUBSET Scopes, kya : Levels,
          reputation : Amounts, hops : Nat, trust : Amounts, limit : OrNone(Nat),
          until : OrNone(Nat)]
PowerOf(t) ==
  [from |-> t.parent, passable |-> t.claims.transferable, scope |-> t.claims.scope,
   kya |-> t.claims.kya, reputation |-> t.claims.reputation,
   hops |-> t.claims.depth, trust |-> t.claims.effective,
   limit |-> t.claims.limit, until |-> t.exp]

ASSUME RootsAssumption ==
  \A root \in Roots : /\ root.claims \in Claims
                      /\ root.claims.depth <= DepthBound
                      /\ root.ttl \in OrNone(Nat)
ASSUME InputsAssumption ==
  /\ ScopeRequests \subseteq SUBSET Scopes
  /\ \A t \in Tools : t.kya \in Levels /\ t.reputation \in Amounts
  /\ \A c \in Configs : c.maxDepth \in Nat /\ c.decay \in Amounts
ASSUME BoundsAssumption ==
  /\ TokenTTL \in Nat /\ MinTTL \in Nat \ {0} /\ DefaultTTL \in Nat
  /\ MinTrust \in Nat \ {0} /\ MaxTime \in Nat
ASSUME NoValueAssumption ==
  /\ None \notin Ids /\ None \notin Token /\ None \notin Nat
  /\ None \notin Power

----------------------------------------------------------------------------
(* Helpers *)

AtMost(x, y)  == IF x < y THEN x ELSE y
AtLeast(x, y) == IF x < y THEN y ELSE x

\* decode_jwt: signed with the present key and not expired.  exp is whole
\* seconds, so comparing it with the fractional time is comparing it with now.
Expired(t) == t.exp # None /\ t.exp <= now
Verifies(t) == t.signedBy = key /\ ~Expired(t)

\* The scopes a child is left with.
RequestedOf(parent, asked) ==
  IF asked = {} THEN parent.claims.scope ELSE asked

NarrowedFor(parent, asked, actor) ==
  NarrowDelegatedScopes(parent.claims.scope, RequestedOf(parent, asked), actor,
                        parent.claims.kya, config.allowlist)

\* Nothing is left, or the caller asked for the financial scope by name and the
\* pilot allowlist refuses it.
\* (Mutant: what the pilot refuses is dropped, asked for or not.)
ScopesRefused_Silent(decision, asked) == decision.granted = {}
ScopesRefused(decision, asked) ==
  \/ decision.granted = {}
  \/ decision.reason = NOT_IN_PILOT /\ TOOL_FINANCIAL \in asked

\* A parent without a decay_factor claim decays at the gateway's own.
DecayOf(parent) ==
  IF parent.claims.decay = None THEN config.decay ELSE parent.claims.decay

ChildTrust(parent) ==
  DecayedTrust(parent.claims.effective, DecayOf(parent),
               parent.claims.depth + 1, config.maxDepth)

\* _reduce_spending_limits by the ratio of the two trusts.
\* (Mutant: the ratio upside down.)
ReducedLimits_Inverted(parent) ==
  IF parent.claims.limit = None THEN {None}
  ELSE Nearest(parent.claims.limit * AtLeast(parent.claims.effective, MinTrust) * Unit,
               AtLeast(ChildTrust(parent), MinTrust))
ReducedLimits(parent) ==
  IF parent.claims.limit = None THEN {None}
  ELSE Nearest(parent.claims.limit * ChildTrust(parent),
               AtLeast(parent.claims.effective, MinTrust) * Unit)

\* child_ttl: the configured lifetime or what the parent has left, at least a
\* minute.  (Mutant: the parent's remaining life is not looked at.)
Remaining(parent) == IF parent.exp = None THEN DefaultTTL ELSE parent.exp - now
ChildTTL_Full(parent) == AtLeast(TokenTTL, MinTTL)
ChildTTL(parent) == AtLeast(AtMost(TokenTTL, Remaining(parent)), MinTTL)

----------------------------------------------------------------------------
Init ==
  /\ now = 0
  /\ key \in Keys
  /\ config \in Configs
  /\ tokens = [i \in Ids |-> None]

\* The foreign issuer mints a token, perhaps with a key the gateway has left or
\* has yet to reach.
IssueRoot(i) ==
  /\ tokens[i] = None
  /\ \E root \in Roots, k \in Keys :
       tokens' = [tokens EXCEPT ![i] =
         [claims |-> root.claims, iat |-> now,
          exp |-> IF root.ttl = None THEN None ELSE now + root.ttl,
          signedBy |-> k, parent |-> None, asked |-> {}]]
  /\ UNCHANGED <<now, key, config>>

\* The claims a child of parent may get: reputation and trust are rounded by
\* summary, the parent's may have more digits.
\* (Mutant: the depth claim is copied from the parent.)
ChildClaims_SameDepth(parent, asked, actor) ==
  [agent : {actor}, scope : {NarrowedFor(parent, asked, actor).granted},
   kya : {parent.claims.kya}, reputation : Digits(parent.claims.reputation, 1),
   effective : Digits(ChildTrust(parent), Unit), decay : {DecayOf(parent)},
   depth : {parent.claims.depth}, chain : {parent.claims.chain + 1},
   transferable : {FALSE}, limit : ReducedLimits(parent)]

ChildClaims(parent, asked, actor) ==
  [agent : {actor}, scope : {NarrowedFor(parent, asked, actor).granted},
   kya : {parent.claims.kya}, reputation : Digits(parent.claims.reputation, 1),
   effective : Digits(ChildTrust(parent), Unit), decay : {DecayOf(parent)},
   depth : {parent.claims.depth + 1}, chain : {parent.claims.chain + 1},
   transferable : {FALSE}, limit : ReducedLimits(parent)]

\* (Mutant: what was delegated may be delegated again.)
Exchangeable_Again(parent) ==
  /\ Verifies(parent)
  /\ parent.claims.chain < config.maxDepth

Exchangeable(parent) ==
  /\ Verifies(parent)
  /\ parent.claims.transferable
  /\ parent.claims.chain < config.maxDepth

\* handle_token_exchange: the parent is verified with the key in the file, the
\* child is signed with the key in the file by then.
Exchange(p, c) ==
  /\ tokens[p] # None /\ Exchangeable(tokens[p])
  /\ tokens[c] = None
  /\ key' \in Keys
  /\ \E actor \in Actors \union {Unnamed}, asked \in ScopeRequests \union {{}} :
       /\ ~ScopesRefused(NarrowedFor(tokens[p], asked, actor), asked)
       /\ \E claims \in ChildClaims(tokens[p], asked, actor) :
            tokens' = [tokens EXCEPT ![c] =
              [claims |-> claims, iat |-> now,
               exp |-> now + ChildTTL(tokens[p]),
               signedBy |-> key', parent |-> p, asked |-> asked]]
  /\ UNCHANGED <<now, config>>

RotateKey ==
  /\ key' \in Keys \ {key}
  /\ UNCHANGED <<now, config, tokens>>

Restart ==
  /\ config' \in Configs \ {config}
  /\ UNCHANGED <<now, key, tokens>>

Tick ==
  /\ now < MaxTime
  /\ now' = now + 1
  /\ UNCHANGED <<key, config, tokens>>

Next ==
  \/ \E i \in Ids : IssueRoot(i)
  \/ \E p, c \in Ids : Exchange(p, c)
  \/ RotateKey \/ Restart \/ Tick

Spec == Init /\ [][Next]_vars

----------------------------------------------------------------------------
(* tools/call: what mcp_endpoint lets the holder of t do now. *)

\* TrustEvaluator.evaluate, as mcp_endpoint calls it: the reputation and depth
\* are the token's, the factor the gateway's; no spending or counterparty
\* argument is passed and the effective_trust claim is not read.
Evaluates(t, tool) ==
  /\ t.claims.kya >= tool.kya
  /\ EffectiveAtLeast(t.claims.reputation, config.decay, t.claims.depth, tool.reputation)

Allows(t, tool) == Verifies(t) /\ Evaluates(t, tool)

----------------------------------------------------------------------------
(* Properties *)

\* Every variable holds what the code's types let it hold.
TypeOK ==
  /\ now \in Time
  /\ key \in Keys
  /\ config \in Configs
  /\ tokens \in [Ids -> OrNone(Token)]

Children == {i \in Ids : tokens[i] # None /\ tokens[i].parent # None}
ParentOf(i) == tokens[tokens[i].parent]

\* Delegating never yields more than the parent has: any tool the holder of a
\* child may call, the holder of its parent may call too, with its reputation in
\* four digits, whatever restarts with another decay factor and whatever
\* rotations came between.  Two exceptions are in the code: the 60-second floor
\* lets a child outlive its parent by less than that, and a key rotated between
\* the two reads of the key file during the exchange leaves the child valid and
\* the parent not.
InFourDigits(t) ==
  {[t EXCEPT !.claims.reputation = r] : r \in Digits(t.claims.reputation, 1)}
DelegateNotStronger ==
  \A i \in Children : \A tool \in Tools :
    Allows(tokens[i], tool) =>
      \/ \E parent \in InFourDigits(ParentOf(i)) : Allows(parent, tool)
      \/ Expired(ParentOf(i)) /\ now < ParentOf(i).exp + MinTTL
      \/ tokens[i].signedBy # ParentOf(i).signedBy

\* No claim of a child is wider than its parent's: scopes, spending limits and
\* the effective trust the token advertises, but for the rounding of a trust that
\* has more than four digits.
ClaimsShrink ==
  \A i \in Children :
    LET child == tokens[i].claims  parent == ParentOf(i).claims IN
      /\ child.scope \subseteq parent.scope
      /\ 2 * (child.effective - parent.effective) <= Grain
      /\ child.limit = None <=> parent.limit = None
      /\ parent.limit # None => child.limit <= parent.limit

\* The financial scope reaches a child only from a parent that has it, and only
\* as the pilot allowlist in force says (the parent's KYA level without one);
\* a caller that names it never gets a token without it while a pilot runs.
FinancialStep ==
  \A i \in Children' \ Children :
    LET child == tokens'[i]  parent == tokens'[child.parent]
        pilot == config.allowlist # {} IN
      /\ TOOL_FINANCIAL \in child.claims.scope =>
           /\ TOOL_FINANCIAL \in parent.claims.scope
           /\ IF pilot THEN child.claims.agent \in config.allowlist
              ELSE parent.claims.kya >= AUDITABLE
      /\ pilot /\ TOOL_FINANCIAL \in child.asked \intersect parent.claims.scope
           => TOOL_FINANCIAL \in child.claims.scope
FinancialNeverAdded == [][FinancialStep]_vars

\* The effective_trust a child advertises and the one tools/call computes from
\* its reputation and depth are within one fourth digit, though each hop rounds: if
\* the parent's claims have four digits and agree with each other and the gateway
\* decays by the factor of the token, a tool is refused or allowed as the claim
\* says, a requirement that near excepted.
Consistent(claims) ==
  /\ claims.decay # None
  /\ claims.depth <= claims.chain
  /\ Digits(claims.reputation, 1) = {claims.reputation}
  /\ claims.effective \in
       IF claims.depth = 0 THEN {claims.reputation}
       ELSE Digits(claims.reputation * claims.decay^claims.depth, Unit^claims.depth)
ClaimMatchesVerdict ==
  \A i \in Children :
    LET child == tokens[i].claims
        atLeast(required) ==
          EffectiveAtLeast(child.reputation, config.decay, child.depth, required)
    IN Consistent(ParentOf(i).claims) /\ child.decay = config.decay =>
         \A required \in Amounts :
           /\ child.effective >= required + Grain => atLeast(required)
           /\ child.effective + Grain < required => ~atLeast(required)

\* Exchanges, rotations and restarts add up to Attenuation: a token never changes,
\* only the issuer's are passed on, while they are live, and what is passed on says
\* less in every respect; the lifetime is cut to what the parent has left, and only
\* the 60-second floor, counted from the exchange, reaches past that.
AT == INSTANCE Attenuation WITH
        Grace <- MinTTL, Resolution <- Grain,
        held <- [i \in Ids |-> IF tokens[i] = None THEN None ELSE PowerOf(tokens[i])]
ImplementsAttenuation == AT!Spec

\* SPEC.md section 10.3: "Delegated tokens SHOULD have shorter lifetimes than
\* their parents".  The floor of 60 seconds breaks it.
NeverOutlivesParent ==
  \A i \in Children :
    ParentOf(i).exp # None => tokens[i].exp <= ParentOf(i).exp

----------------------------------------------------------------------------
\* A child's effective_trust is its parent's, decayed once and rounded: as long as
\* depth and chain agree, the depth limit is never what apply_delegation_decay meets.
Decays(child, parent) ==
  /\ parent.decay # None => child.decay = parent.decay
  /\ parent.depth <= parent.chain
       => child.effective \in Digits(parent.effective * child.decay, Unit)

\* What relates a child to its parent for ever after the exchange: nothing is
\* delegated twice, because no child is transferable.
LineageOf(child, parent) ==
  /\ parent.parent = None
  /\ Decays(child.claims, parent.claims)
  /\ ~child.claims.transferable
  /\ child.claims.kya = parent.claims.kya
  /\ child.claims.reputation \in Digits(parent.claims.reputation, 1)
  /\ child.claims.depth = parent.claims.depth + 1
  /\ child.exp # None
  /\ parent.exp # None => child.exp < parent.exp + MinTTL

Lineage ==
  /\ \A i \in Ids : tokens[i] # None /\ tokens[i].parent = None
                     => tokens[i].claims.depth <= DepthBound
  /\ \A i \in Children : ParentOf(i) # None /\ LineageOf(tokens[i], ParentOf(i))

IInv == TypeOK /\ Lineage /\ ClaimsShrink
============================================================================
