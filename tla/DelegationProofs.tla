-------------------------- MODULE DelegationProofs --------------------------
(***************************************************************************)
(* Theorems about Delegation, for every set of tokens, keys and tools.     *)
(* The invariant is IInv: a child keeps, for as long as it exists, the     *)
(* relation to its parent that the exchange gave it.  Tokens never change  *)
(* once minted, so only Exchange and IssueRoot have anything to show.      *)
(***************************************************************************)
EXTENDS Delegation, TLAPS

(* The scope rules. *)

\* Narrowing for a delegate is deciding over the scopes the parent and the
\* request share: setting the financial scope aside and putting it back changes
\* nothing in who is granted what, or why.
THEOREM NarrowingIsDeciding ==
  ASSUME NEW parentScopes \in SUBSET Scopes, NEW requested \in SUBSET Scopes,
         NEW actor, NEW kya \in Levels, NEW allowlist
  PROVE  NarrowDelegatedScopes(parentScopes, requested, actor, kya, allowlist) =
         DecideScopes(parentScopes \intersect requested, actor, kya, allowlist)
<1> DEFINE both == parentScopes \intersect requested
           ok(s, al) == Grantable(s, actor, kya, al)
           granted == {s \in both : ok(s, allowlist)}
           rest == both \ {TOOL_FINANCIAL}
           restGranted == {s \in rest : ok(s, {})}
           kept == FinancialKept(actor, kya, allowlist)
           financial == both \intersect {TOOL_FINANCIAL}
<1>1. kept <=> ok(TOOL_FINANCIAL, allowlist)
  BY DEF FinancialKept, Grantable
<1>2. \A s \in rest : ok(s, {}) <=> ok(s, allowlist)
  BY DEF Grantable
<1>3. restGranted \union (IF kept THEN financial ELSE {}) = granted
  BY <1>1, <1>2
<1>4. (rest \ restGranted) \union (IF kept THEN {} ELSE financial) = both \ granted
  BY <1>1, <1>2
<1>5. (financial # {} /\ ~kept /\ allowlist # {})
        <=> (TOOL_FINANCIAL \in both /\ allowlist # {} /\ actor \notin allowlist)
  BY DEF FinancialKept
<1>6. /\ DecideScopes(both, actor, kya, allowlist).granted = granted
      /\ DecideScopes(rest, actor, kya, {}).granted = restGranted
      /\ DecideScopes(rest, actor, kya, {}).denied = rest \ restGranted
  BY DEF DecideScopes, Decision
<1> HIDE DEF granted, restGranted, kept, financial, rest
<1>7. NarrowDelegatedScopes(parentScopes, requested, actor, kya, allowlist) =
      Decision(granted, both \ granted,
               TOOL_FINANCIAL \in both /\ allowlist # {} /\ actor \notin allowlist)
  BY <1>3, <1>4, <1>5, <1>6 DEF NarrowDelegatedScopes, Decision, restGranted, kept, financial, rest
<1> QED BY <1>7 DEF DecideScopes, granted

\* What narrowing grants comes from the parent and from the request, and what
\* becomes of the financial scope.
NarrowingFacts(d, parentScopes, requested, actor, kya, allowlist) ==
  /\ d.granted \subseteq parentScopes /\ d.granted \subseteq requested
  /\ TOOL_FINANCIAL \in d.granted =>
       IF allowlist # {} THEN actor \in allowlist ELSE kya >= AUDITABLE
  /\ TOOL_FINANCIAL \in parentScopes \intersect requested =>
       TOOL_FINANCIAL \in d.granted \/ allowlist = {} \/ d.reason = NOT_IN_PILOT

\* narrow_delegated_scopes has these properties, whatever it is given.
LEMMA NarrowedScopes ==
  ASSUME NEW parentScopes \in SUBSET Scopes, NEW requested \in SUBSET Scopes,
         NEW actor, NEW kya \in Levels, NEW allowlist
  PROVE  NarrowingFacts(
           NarrowDelegatedScopes(parentScopes, requested, actor, kya, allowlist),
           parentScopes, requested, actor, kya, allowlist)
<1>1. KyaForScope(TOOL_FINANCIAL) = AUDITABLE
  BY DEF KyaForScope, SCOPE_KYA_MAP, MCPScope, TOOL_FINANCIAL, READ, TOOL_INVOKE,
         TOOL_WRITE, DELEGATE
<1>2. AUDITABLE \in Int /\ kya \in Int
  BY DEF AUDITABLE, Levels
<1> DEFINE both == parentScopes \intersect requested
           d == NarrowDelegatedScopes(parentScopes, requested, actor, kya, allowlist)
<1>3. d = DecideScopes(both, actor, kya, allowlist)
  BY NarrowingIsDeciding
<1>4. /\ d.granted = {s \in both : Grantable(s, actor, kya, allowlist)}
      /\ TOOL_FINANCIAL \in both /\ allowlist # {} /\ actor \notin allowlist
           => d.reason = NOT_IN_PILOT
  BY <1>3 DEF DecideScopes, Decision
<1> HIDE DEF d
<1>5. Grantable(TOOL_FINANCIAL, actor, kya, allowlist)
        <=> IF allowlist # {} THEN actor \in allowlist ELSE kya >= AUDITABLE
  BY <1>1, <1>2 DEF Grantable
<1>6. TOOL_FINANCIAL \in both /\ TOOL_FINANCIAL \notin d.granted /\ allowlist # {}
        => d.reason = NOT_IN_PILOT
  BY <1>4, <1>5
<1> QED BY <1>4, <1>5, <1>6 DEF d, NarrowingFacts

----------------------------------------------------------------------------
(* Rounding. *)

\* Rounding a quotient gives a natural number, and never more than a whole
\* number that bounds the quotient.
LEMMA NearestBounds ==
  ASSUME NEW n \in Nat, NEW d \in Nat \ {0}, NEW b \in Nat, n <= b * d,
         NEW q \in Nearest(n, d)
  PROVE  q \in Nat /\ q <= b
<1>1. n \div d \in Nat
  OBVIOUS
<1>2. q \in Nat
  BY <1>1 DEF Nearest
<1>3. SUFFICES ASSUME q >= b + 1 PROVE FALSE
  BY <1>2
<1>4. q * d >= (b + 1) * d
  BY <1>2, <1>3
<1>5. (b + 1) * d = b * d + d
  OBVIOUS
<1>6. q * d \in Nat /\ b * d \in Nat
  BY <1>2
<1>7. 2 * (q * d - n) <= d
  BY DEF Nearest
<1> QED BY <1>4, <1>5, <1>6, <1>7

\* A product of natural numbers grows with each factor.
LEMMA ProductMonotone ==
  ASSUME NEW x \in Nat, NEW y \in Nat, NEW u \in Nat, NEW v \in Nat,
         x <= u, y <= v
  PROVE  x * y \in Nat /\ u * v \in Nat /\ x * y <= u * v
<1>1. x * y <= u * y
  OBVIOUS
<1>2. u * y <= u * v
  OBVIOUS
<1> QED BY <1>1, <1>2

\* A positive factor cancels.
LEMMA Cancels ==
  ASSUME NEW x \in Nat, NEW y \in Nat, NEW u \in Nat \ {0}, x * u <= y * u
  PROVE  x <= y
<1>1. SUFFICES ASSUME x >= y + 1 PROVE FALSE
  OBVIOUS
<1>2. (y + 1) * u <= x * u
  BY <1>1, ProductMonotone
<1> QED BY <1>2

\* Rounding moves a quotient by at most half a step.
LEMMA NearestError ==
  ASSUME NEW n \in Nat, NEW d \in Nat \ {0}, NEW q \in Nearest(n, d)
  PROVE  q \in Nat /\ 2 * (q * d) <= 2 * n + d /\ 2 * n <= 2 * (q * d) + d
<1>1. n \div d \in Nat
  OBVIOUS
<1>2. q \in Nat /\ q * d \in Nat
  BY <1>1 DEF Nearest
<1> QED BY <1>2 DEF Nearest

\* Rounding to four digits moves it by at most half a fourth digit.
LEMMA DigitsError ==
  ASSUME NEW n \in Nat, NEW d \in Nat \ {0}, NEW q \in Digits(n, d)
  PROVE  q \in Nat /\ 2 * (q * d) <= 2 * n + Grain * d /\ 2 * n <= 2 * (q * d) + Grain * d
<1>1. PICK k \in Nearest(n, Grain * d) : q = Grain * k
  BY DEF Digits
<1> DEFINE g == Grain * d
<1>2. Grain \in Nat \ {0} /\ g \in Nat \ {0}
  BY GrainAssumption
<1>3. k \in Nat /\ 2 * (k * g) <= 2 * n + g /\ 2 * n <= 2 * (k * g) + g
  <2> HIDE DEF g
  <2>1. k \in Nearest(n, g)
    BY <1>1 DEF g
  <2> QED BY <1>2, <2>1, NearestError
<1>4. k * g = q * d /\ q \in Nat
  BY <1>1, <1>2, <1>3
<1> QED BY <1>3, <1>4

\* And never past 1, which has four digits.
LEMMA DigitsBounds ==
  ASSUME NEW n \in Nat, NEW d \in Nat \ {0}, n <= Unit * d, NEW q \in Digits(n, d)
  PROVE  q \in Amounts
<1>1. PICK k \in Nearest(n, Grain * d) : q = Grain * k
  BY DEF Digits
<1> DEFINE g == Grain * d
           u == Unit \div Grain
<1>2. /\ Grain \in Nat \ {0} /\ g \in Nat \ {0}
      /\ u \in Nat /\ Unit = Grain * u /\ Unit \in Nat
  BY GrainAssumption, UnitAssumption
<1>3. Unit * d = u * g
  <2> HIDE DEF u
  <2> QED BY <1>2
<1>4. k \in Nat /\ k <= u
  <2> HIDE DEF g, u
  <2>1. k \in Nearest(n, g)
    BY <1>1 DEF g
  <2> QED BY <1>2, <1>3, <2>1, NearestBounds
<1>5. q \in Nat /\ q <= Grain * u
  <2> HIDE DEF u
  <2> QED BY <1>1, <1>2, <1>4, ProductMonotone
<1> QED BY <1>2, <1>5 DEF Amounts

\* A trust value in four digits is a trust value, and near.
LEMMA DigitsNear ==
  ASSUME NEW r \in Amounts, NEW q \in Digits(r, 1)
  PROVE  q \in Amounts /\ AT!Near(q, r)
<1>1. Grain \in Nat /\ Unit \in Nat /\ r \in Nat /\ r <= Unit * 1
  BY GrainAssumption, UnitAssumption DEF Amounts
<1>2. q \in Amounts
  BY <1>1, DigitsBounds
<1>3. q \in Nat /\ 2 * (q * 1) <= 2 * r + Grain * 1 /\ 2 * r <= 2 * (q * 1) + Grain * 1
  BY <1>1, DigitsError
<1> QED BY <1>1, <1>2, <1>3 DEF AT!Near

\* The trust a child is given, before rounding, is at most its parent's.
LEMMA ChildTrustBounds ==
  ASSUME NEW parent \in Token, config \in Configs
  PROVE  /\ DecayOf(parent) \in Amounts
         /\ ChildTrust(parent) \in Nat
         /\ ChildTrust(parent) <= parent.claims.effective * Unit
<1>1. /\ parent.claims.effective \in Nat /\ DecayOf(parent) \in Amounts
      /\ Unit \in Nat
  BY InputsAssumption, UnitAssumption
  DEF Token, Claims, Amounts, OrNone, DecayOf
<1>2. DecayOf(parent) \in Nat /\ DecayOf(parent) <= Unit
  BY <1>1 DEF Amounts
<1>3. /\ parent.claims.effective * DecayOf(parent) \in Nat
      /\ parent.claims.effective * Unit \in Nat
      /\ parent.claims.effective * DecayOf(parent) <= parent.claims.effective * Unit
  BY <1>1, <1>2, ProductMonotone
<1> QED BY <1>1, <1>3 DEF ChildTrust, DecayedTrust

\* So is what the child advertises, but for its rounding, and no limit grows with
\* the ratio.
LEMMA ChildAmounts ==
  ASSUME NEW parent \in Token, config \in Configs
  PROVE  /\ \A q \in Digits(ChildTrust(parent), Unit) :
              q \in Amounts /\ 2 * (q - parent.claims.effective) <= Grain
         /\ \A q \in ReducedLimits(parent) :
              /\ q \in OrNone(Nat)
              /\ q # None => parent.claims.limit # None /\ q <= parent.claims.limit
              /\ parent.claims.limit # None => q # None
<1> DEFINE e == parent.claims.effective
           l == parent.claims.limit
           k == ChildTrust(parent)
           m == AtLeast(e, MinTrust)
<1>1. /\ Grain \in Nat \ {0}
      /\ e \in Nat /\ e <= Unit /\ Unit \in Nat \ {0} /\ l \in OrNone(Nat)
      /\ m \in Nat \ {0} /\ e <= m
  BY GrainAssumption, UnitAssumption, BoundsAssumption DEF Token, Claims, Amounts, AtLeast
<1>2. k \in Nat /\ k <= e * Unit
  BY ChildTrustBounds
<1> HIDE DEF e, l, k, m
<1>3. ASSUME NEW q \in Digits(k, Unit)
      PROVE  q \in Amounts /\ 2 * (q - e) <= Grain
  <2>1. e * Unit <= Unit * Unit
    BY <1>1, ProductMonotone
  <2>2. q \in Amounts
    BY <1>1, <1>2, <2>1, DigitsBounds
  <2>3. q \in Nat /\ 2 * (q * Unit) <= 2 * k + Grain * Unit
    BY <1>1, <1>2, DigitsError
  <2>4. (2 * q) * Unit <= (2 * e + Grain) * Unit
    BY <1>1, <1>2, <2>3
  <2>5. 2 * q <= 2 * e + Grain
    <3>1. 2 * q \in Nat /\ 2 * e + Grain \in Nat
      BY <1>1, <2>3
    <3> QED BY <1>1, <2>4, <3>1, Cancels
  <2> QED BY <1>1, <2>2, <2>3, <2>5
<1>4. ASSUME NEW q \in ReducedLimits(parent), l # None
      PROVE  q \in Nat /\ q <= l
  <2>1. l \in Nat /\ q \in Nearest(l * k, m * Unit)
    BY <1>1, <1>4 DEF ReducedLimits, OrNone, e, l, k, m
  <2>2. e * Unit \in Nat /\ m * Unit \in Nat /\ e * Unit <= m * Unit
    BY <1>1, ProductMonotone
  <2>3. m * Unit # 0
    BY <1>1
  <2>4. k <= m * Unit
    BY <1>2, <2>2
  <2>5. l * k \in Nat /\ l * k <= l * (m * Unit)
    BY <1>2, <2>1, <2>2, <2>4, ProductMonotone
  <2> HIDE DEF m
  <2> QED BY <2>1, <2>2, <2>3, <2>5, NearestBounds
<1>5. ASSUME NEW q \in ReducedLimits(parent), l = None
      PROVE  q = None
  BY <1>5 DEF ReducedLimits, l
<1> QED BY <1>1, <1>3, <1>4, <1>5, NoValueAssumption DEF e, l, k, OrNone

----------------------------------------------------------------------------
(* What an exchange mints. *)

\* A child's claims are no wider than its parent's, but for the rounding, and say
\* what evaluate reads of the parent, one hop on.
ClaimsOf(child, parent) ==
  /\ ~child.transferable
  /\ Decays(child, parent)
  /\ child.kya = parent.kya
  /\ child.reputation \in Digits(parent.reputation, 1)
  /\ child.depth = parent.depth + 1
  /\ child.scope \subseteq parent.scope
  /\ 2 * (child.effective - parent.effective) <= Grain
  /\ child.limit = None <=> parent.limit = None
  /\ parent.limit # None => child.limit <= parent.limit

\* The claims handle_token_exchange puts together are of this kind.
LEMMA ChildClaimsBounds ==
  ASSUME NEW parent \in Token, config \in Configs,
         NEW actor \in Actors \union {Unnamed}, NEW asked \in SUBSET Scopes,
         NEW claims \in ChildClaims(parent, asked, actor),
         parent.claims.chain < config.maxDepth
  PROVE  claims \in Claims /\ ClaimsOf(claims, parent.claims)
<1> DEFINE narrowed == NarrowedFor(parent, asked, actor)
<1>1. parent.claims \in Claims /\ RequestedOf(parent, asked) \in SUBSET Scopes
  BY DEF Token, RequestedOf, Claims
<1>2. narrowed.granted \subseteq parent.claims.scope
  <2>1. NarrowingFacts(narrowed, parent.claims.scope, RequestedOf(parent, asked),
                       actor, parent.claims.kya, config.allowlist)
    BY <1>1, NarrowedScopes DEF NarrowedFor, Claims
  <2> QED BY <2>1 DEF NarrowingFacts
<1>3. /\ claims.effective \in Amounts
      /\ 2 * (claims.effective - parent.claims.effective) <= Grain
  BY ChildAmounts DEF ChildClaims
<1>reputation. /\ claims.reputation \in Digits(parent.claims.reputation, 1)
               /\ claims.reputation \in Amounts
  BY <1>1, DigitsNear DEF ChildClaims, Claims
<1>4. /\ claims.limit \in OrNone(Nat)
      /\ claims.limit # None =>
           parent.claims.limit # None /\ claims.limit <= parent.claims.limit
      /\ parent.claims.limit # None => claims.limit # None
  BY ChildAmounts DEF ChildClaims
<1>5. claims.decay \in Amounts
  BY ChildTrustBounds DEF ChildClaims
<1> HIDE DEF narrowed
<1>6. /\ claims = [agent |-> claims.agent, scope |-> claims.scope,
                   kya |-> claims.kya, reputation |-> claims.reputation,
                   effective |-> claims.effective, decay |-> claims.decay,
                   depth |-> claims.depth, chain |-> claims.chain,
                   transferable |-> claims.transferable, limit |-> claims.limit]
  BY DEF ChildClaims
<1>copied. /\ claims.agent = actor /\ claims.scope = narrowed.granted
      /\ claims.kya = parent.claims.kya
      /\ claims.depth = parent.claims.depth + 1
      /\ claims.chain = parent.claims.chain + 1
      /\ claims.transferable = FALSE
  BY DEF ChildClaims, narrowed
<1>7. /\ claims.scope \in SUBSET Scopes
      /\ claims.kya \in Levels /\ claims.reputation \in Amounts
      /\ claims.depth \in Nat /\ claims.chain \in Nat
      /\ claims.transferable \in BOOLEAN
  <2>1. /\ parent.claims.scope \in SUBSET Scopes
        /\ parent.claims.kya \in Levels
        /\ parent.claims.depth \in Nat /\ parent.claims.chain \in Nat
    BY <1>1 DEF Claims
  <2>2. claims.scope \in SUBSET Scopes
    BY <1>2, <1>copied, <2>1
  <2> HIDE DEF Amounts, Levels
  <2>3. claims.transferable \in BOOLEAN
    BY <1>copied, Zenon
  <2>4. /\ claims.kya \in Levels /\ claims.reputation \in Amounts
        /\ claims.depth \in Nat /\ claims.chain \in Nat
    BY <1>copied, <1>reputation, <2>1
  <2> QED BY <2>2, <2>3, <2>4
<1>agent. claims.agent \in OrNone(Actors \union {Unnamed})
  BY <1>copied DEF OrNone
<1>8. claims.decay \in OrNone(Amounts)
  BY <1>5 DEF OrNone
<1> HIDE DEF Amounts, Levels
<1>9. claims \in Claims
  BY <1>3, <1>4, <1>6, <1>7, <1>8, <1>agent, Zenon DEF Claims
<1>10. Decays(claims, parent.claims)
  <2>1. claims.decay = DecayOf(parent) /\ claims.effective \in Digits(ChildTrust(parent), Unit)
    BY DEF ChildClaims
  <2>2. /\ parent.claims.depth \in Nat /\ parent.claims.chain \in Nat
        /\ config.maxDepth \in Nat
    BY <1>1, InputsAssumption DEF Claims
  <2>3. parent.claims.depth <= parent.claims.chain
          => ChildTrust(parent) = parent.claims.effective * DecayOf(parent)
    BY <2>2 DEF ChildTrust, DecayedTrust
  <2> QED BY <2>1, <2>3 DEF Decays, DecayOf
<1> QED BY <1>2, <1>3, <1>4, <1>reputation, <1>copied, <1>9, <1>10 DEF ClaimsOf

\* A child lives for a natural number of seconds; when that reaches past its parent
\* it is the floor, and past its parent it lives for less than the floor.
LEMMA ChildLifetime ==
  ASSUME NEW parent \in Token, now \in Time, ~Expired(parent)
  PROVE  /\ ChildTTL(parent) \in Nat
         /\ parent.exp # None =>
              /\ now + ChildTTL(parent) < parent.exp + MinTTL
              /\ \/ now + ChildTTL(parent) <= parent.exp
                 \/ now + ChildTTL(parent) = now + MinTTL
<1>1. /\ now \in Nat /\ TokenTTL \in Nat /\ MinTTL \in Nat \ {0} /\ DefaultTTL \in Nat
      /\ parent.exp # None => parent.exp \in Nat /\ parent.exp > now
  BY BoundsAssumption DEF Time, Token, OrNone, Expired
<1>2. Remaining(parent) \in Int
  BY <1>1 DEF Remaining
<1> QED BY <1>1, <1>2 DEF ChildTTL, Remaining, AtLeast, AtMost

\* So the token an exchange adds is a child of the one it was given.
LEMMA ExchangeMints ==
  ASSUME TypeOK, NEW p \in Ids, NEW c \in Ids, Exchange(p, c)
  PROVE  \E child \in Token :
           /\ tokens[p] \in Token /\ tokens[p].claims.transferable
           /\ tokens[c] = None
           /\ tokens' = [tokens EXCEPT ![c] = child]
           /\ child.parent = p /\ child.exp # None
           /\ tokens[p].exp # None => child.exp < tokens[p].exp + MinTTL
           /\ ClaimsOf(child.claims, tokens[p].claims)
           /\ ~Expired(tokens[p]) /\ UNCHANGED now
           /\ tokens[p].exp # None =>
                child.exp <= tokens[p].exp \/ child.exp = now + MinTTL
<1> DEFINE parent == tokens[p]
<1>1. /\ parent \in Token /\ parent.claims.transferable /\ ~Expired(parent)
      /\ parent.claims.chain < config.maxDepth
      /\ tokens[c] = None /\ now \in Time /\ config \in Configs /\ key' \in Keys
      /\ UNCHANGED now
  BY DEF TypeOK, OrNone, Exchange, Exchangeable, Verifies
<1>2. PICK actor \in Actors \union {Unnamed}, asked \in ScopeRequests \union {{}} :
        \E claims \in ChildClaims(parent, asked, actor) :
          tokens' = [tokens EXCEPT ![c] =
            [claims |-> claims, iat |-> now, exp |-> now + ChildTTL(parent),
             signedBy |-> key', parent |-> p, asked |-> asked]]
  BY DEF Exchange
<1>3. PICK claims \in ChildClaims(parent, asked, actor) :
        tokens' = [tokens EXCEPT ![c] =
          [claims |-> claims, iat |-> now, exp |-> now + ChildTTL(parent),
           signedBy |-> key', parent |-> p, asked |-> asked]]
  BY <1>2
<1> DEFINE child == [claims |-> claims, iat |-> now, exp |-> now + ChildTTL(parent),
                     signedBy |-> key', parent |-> p, asked |-> asked]
<1>4. asked \in SUBSET Scopes
  BY InputsAssumption
<1>5. claims \in Claims /\ ClaimsOf(claims, parent.claims)
  BY <1>1, <1>3, <1>4, ChildClaimsBounds
<1>6. /\ ChildTTL(parent) \in Nat
      /\ parent.exp # None =>
           /\ now + ChildTTL(parent) < parent.exp + MinTTL
           /\ \/ now + ChildTTL(parent) <= parent.exp
              \/ now + ChildTTL(parent) = now + MinTTL
  BY <1>1, ChildLifetime
<1>7. now + ChildTTL(parent) \in Nat /\ now + ChildTTL(parent) # None
  BY <1>1, <1>6, NoValueAssumption DEF Time
<1>8. child \in Token
  BY <1>1, <1>4, <1>5, <1>7 DEF Token, OrNone
<1>9. /\ child.parent = p /\ child.exp # None
      /\ parent.exp # None => child.exp < parent.exp + MinTTL
      /\ parent.exp # None => child.exp <= parent.exp \/ child.exp = now + MinTTL
      /\ ClaimsOf(child.claims, parent.claims)
      /\ tokens' = [tokens EXCEPT ![c] = child]
  BY <1>3, <1>5, <1>6, <1>7
<1> HIDE DEF child
<1> QED BY <1>1, <1>8, <1>9

\* The token the issuer adds is nobody's child.
LEMMA IssueMints ==
  ASSUME TypeOK, NEW i \in Ids, IssueRoot(i)
  PROVE  \E token \in Token :
           /\ tokens[i] = None
           /\ tokens' = [tokens EXCEPT ![i] = token]
           /\ token.parent = None
           /\ token.claims.depth <= DepthBound
<1>1. PICK root \in Roots, k \in Keys :
        tokens' = [tokens EXCEPT ![i] =
          [claims |-> root.claims, iat |-> now,
           exp |-> IF root.ttl = None THEN None ELSE now + root.ttl,
           signedBy |-> k, parent |-> None, asked |-> {}]]
  BY DEF IssueRoot
<1> DEFINE exp == IF root.ttl = None THEN None ELSE now + root.ttl
           token == [claims |-> root.claims, iat |-> now, exp |-> exp,
                     signedBy |-> k, parent |-> None, asked |-> {}]
<1>2. exp \in OrNone(Nat) /\ root.claims \in Claims /\ now \in Time
  BY RootsAssumption DEF OrNone, TypeOK, Time
<1> HIDE DEF exp
<1>3. token \in Token
  BY <1>2 DEF Token, OrNone
<1>4. tokens' = [tokens EXCEPT ![i] = token]
  BY <1>1 DEF exp
<1>5. token.parent = None /\ token.claims.depth <= DepthBound
  BY RootsAssumption
<1> HIDE DEF token
<1> QED BY <1>3, <1>4, <1>5 DEF IssueRoot

----------------------------------------------------------------------------
(* The invariant. *)

\* Minting is the only way tokens change: what a step adds under a free jti has
\* a parent that was there before, or none.
LEMMA StepTypes ==
  ASSUME TypeOK, [Next]_vars
  PROVE  TypeOK'
<1> USE DEF TypeOK
<1>1. ASSUME NEW i \in Ids, IssueRoot(i) PROVE TypeOK'
  <2>1. PICK token \in Token : tokens' = [tokens EXCEPT ![i] = token]
    BY <1>1, IssueMints
  <2>2. tokens' \in [Ids -> OrNone(Token)]
    BY <2>1 DEF OrNone
  <2> QED BY <1>1, <2>2 DEF IssueRoot
<1>2. ASSUME NEW p \in Ids, NEW c \in Ids, Exchange(p, c) PROVE TypeOK'
  <2>1. PICK child \in Token : tokens' = [tokens EXCEPT ![c] = child]
    BY <1>2, ExchangeMints
  <2>2. tokens' \in [Ids -> OrNone(Token)]
    BY <2>1 DEF OrNone
  <2>3. key' \in Keys /\ UNCHANGED <<now, config>>
    BY <1>2 DEF Exchange
  <2> QED BY <2>2, <2>3
<1>3. ASSUME RotateKey PROVE TypeOK'
  BY <1>3 DEF RotateKey
<1>4. ASSUME Restart PROVE TypeOK'
  BY <1>4 DEF Restart
<1>5. ASSUME Tick PROVE TypeOK'
  BY <1>5, BoundsAssumption DEF Tick, Time
<1>6. ASSUME UNCHANGED vars PROVE TypeOK'
  BY <1>6 DEF vars
<1> QED BY <1>1, <1>2, <1>3, <1>4, <1>5, <1>6 DEF Next

\* A child and its parent, as the invariant relates them.
Related(child, parent) ==
  LineageOf(child, parent) /\ ClaimsOf(child.claims, parent.claims)

Family ==
  /\ \A i \in Ids : tokens[i] # None /\ tokens[i].parent = None
                     => tokens[i].claims.depth <= DepthBound
  /\ \A i \in Ids : tokens[i] # None /\ tokens[i].parent # None =>
       /\ tokens[i].parent \in Ids
       /\ tokens[tokens[i].parent] # None
       /\ Related(tokens[i], tokens[tokens[i].parent])

\* Which is Lineage and ClaimsShrink in one.
LEMMA FamilyInvariants ==
  ASSUME TypeOK, Family
  PROVE  Lineage /\ ClaimsShrink
BY DEF Family, Related, Lineage, ClaimsShrink, Children, ParentOf, LineageOf, ClaimsOf

\* And the other way round.
LEMMA LineageMakesFamily ==
  ASSUME TypeOK, Lineage, ClaimsShrink
  PROVE  Family
<1> SUFFICES ASSUME NEW i \in Ids, tokens[i] # None, tokens[i].parent # None
             PROVE  /\ tokens[i].parent \in Ids
                    /\ tokens[tokens[i].parent] # None
                    /\ Related(tokens[i], tokens[tokens[i].parent])
  BY DEF Family, Lineage
<1>1. tokens[i] \in Token
  BY DEF TypeOK, OrNone
<1>2. tokens[i].parent \in Ids
  BY <1>1 DEF Token, OrNone
<1> QED BY <1>2 DEF Lineage, ClaimsShrink, Children, ParentOf, Related, LineageOf, ClaimsOf

\* A token under a free jti joins the family without disturbing it: nobody's
\* parent is under a free jti.
LEMMA FamilyGrows ==
  ASSUME TypeOK, Family, NEW i \in Ids, NEW token \in Token,
         tokens[i] = None, tokens' = [tokens EXCEPT ![i] = token],
         token.parent = None => token.claims.depth <= DepthBound,
         token.parent # None =>
           /\ token.parent \in Ids
           /\ tokens[token.parent] # None
           /\ Related(token, tokens[token.parent])
  PROVE  Family'
<1>1. /\ tokens'[i] = token
      /\ \A j \in Ids : j # i => tokens'[j] = tokens[j]
  BY DEF TypeOK
<1>2. \A j \in Ids : tokens[j] # None => j # i /\ tokens'[j] = tokens[j]
  BY <1>1
<1>3. ASSUME NEW j \in Ids, tokens'[j] # None, tokens'[j].parent = None
      PROVE  tokens'[j].claims.depth <= DepthBound
  BY <1>1, <1>3 DEF Family
<1>4. ASSUME NEW j \in Ids, tokens'[j] # None, tokens'[j].parent # None
      PROVE  /\ tokens'[j].parent \in Ids
             /\ tokens'[tokens'[j].parent] # None
             /\ Related(tokens'[j], tokens'[tokens'[j].parent])
  <2>1. CASE j = i
    BY <1>1, <1>2, <1>4, <2>1
  <2>2. CASE j # i
    BY <1>1, <1>2, <1>4, <2>2 DEF Family
  <2> QED BY <2>1, <2>2
<1> QED BY <1>3, <1>4 DEF Family, Related, LineageOf, ClaimsOf, Decays

\* Every step keeps it.  No child is transferable, so what is exchanged is a
\* token of the issuer's.
LEMMA StepFamily ==
  ASSUME TypeOK, Family, [Next]_vars
  PROVE  Family'
<1>1. ASSUME NEW i \in Ids, IssueRoot(i) PROVE Family'
  BY <1>1, IssueMints, FamilyGrows
<1>2. ASSUME NEW p \in Ids, NEW c \in Ids, Exchange(p, c) PROVE Family'
  <2>1. PICK child \in Token :
          /\ tokens[p] \in Token /\ tokens[p].claims.transferable
          /\ tokens[c] = None
          /\ tokens' = [tokens EXCEPT ![c] = child]
          /\ child.parent = p /\ child.exp # None
          /\ tokens[p].exp # None => child.exp < tokens[p].exp + MinTTL
          /\ ClaimsOf(child.claims, tokens[p].claims)
    BY <1>2, ExchangeMints
  <2>2. tokens[p] # None
    BY <1>2 DEF Exchange
  <2>3. tokens[p].parent = None
    BY <2>1, <2>2 DEF Family, Related, LineageOf
  <2>4. Related(child, tokens[p])
    BY <2>1, <2>3 DEF Related, LineageOf, ClaimsOf
  <2>5. child.parent # None
    BY <2>1, NoValueAssumption
  <2> QED BY <2>1, <2>2, <2>4, <2>5, FamilyGrows
<1>3. ASSUME UNCHANGED tokens PROVE Family'
  BY <1>3 DEF Family, Related, LineageOf, ClaimsOf, Decays
<1> QED BY <1>1, <1>2, <1>3 DEF Next, RotateKey, Restart, Tick, vars

----------------------------------------------------------------------------
(* Theorems. *)

\* The inductive invariant: types, lineage, and claims that only shrink.
THEOREM Invariance == Spec => []IInv
<1>1. Init => TypeOK /\ Family
  <2> SUFFICES ASSUME Init PROVE TypeOK /\ Family
    OBVIOUS
  <2>1. TypeOK
    BY BoundsAssumption DEF Init, TypeOK, Time, OrNone
  <2>2. \A i \in Ids : tokens[i] = None
    BY DEF Init
  <2> QED BY <2>1, <2>2 DEF Family
<1>2. (TypeOK /\ Family) /\ [Next]_vars => (TypeOK /\ Family)'
  BY StepTypes, StepFamily
<1>3. TypeOK /\ Family => IInv
  BY FamilyInvariants DEF IInv
<1> QED BY <1>1, <1>2, <1>3, PTL DEF Spec

\* The variables keep their types.
THEOREM TypeCorrect == Spec => []TypeOK
<1>1. IInv => TypeOK
  BY DEF IInv
<1> QED BY <1>1, Invariance, PTL

\* No child claims more scopes, higher limits or, but for its rounding to four
\* digits, more trust than its parent.
THEOREM ChildrenShrink == Spec => []ClaimsShrink
<1>1. IInv => ClaimsShrink
  BY DEF IInv
<1> QED BY <1>1, Invariance, PTL

\* A hop can only lower the effective trust that evaluate computes.
LEMMA HopWeakens ==
  ASSUME NEW r \in Amounts, NEW f \in Amounts, NEW n \in 0..DepthBound,
         NEW required \in Amounts, EffectiveAtLeast(r, f, n + 1, required)
  PROVE  EffectiveAtLeast(r, f, n, required)
<1>1. /\ r \in Nat /\ f \in Nat /\ f <= Unit /\ required \in Nat
      /\ Unit \in Nat \ {0} /\ Unit \in Amounts /\ n \in Nat /\ DepthBound \in Nat
  BY UnitAssumption DEF Amounts
<1>2. r * f^(n+1) >= required * Unit^(n+1)
  BY <1>1 DEF EffectiveAtLeast
<1>3. CASE n = 0
  <2>1. f^(n+1) = f /\ Unit^(n+1) = Unit
    BY <1>1, <1>3, PowerAssumption
  <2>2. r * f >= required * Unit
    BY <1>2, <2>1
  <2>3. r * f <= r * Unit
    BY <1>1, ProductMonotone
  <2>4. r * Unit >= required * Unit
    BY <1>1, <2>2, <2>3
  <2>5. r >= required
    BY <1>1, <2>4
  <2> QED BY <1>3, <2>5 DEF EffectiveAtLeast
<1>4. CASE n # 0
  <2> DEFINE F == f^n
             U == Unit^n
  <2>1. /\ F \in Nat /\ U \in Nat
        /\ f^(n+1) = f * F /\ Unit^(n+1) = Unit * U
    BY <1>1, <1>4, PowerAssumption
  <2>2. r * (f * F) >= required * (Unit * U)
    BY <1>2, <2>1
  <2> HIDE DEF F, U
  <2>3. r * F \in Nat /\ required * U \in Nat
    BY <1>1, <2>1
  <2>4. f * (r * F) <= Unit * (r * F)
    BY <1>1, <2>3, ProductMonotone
  <2>5. /\ r * (f * F) = f * (r * F)
        /\ required * (Unit * U) = Unit * (required * U)
    BY <1>1, <2>1
  <2>6. Unit * (required * U) <= Unit * (r * F)
    BY <1>1, <2>1, <2>2, <2>3, <2>4, <2>5
  <2>7. required * U <= r * F
    BY <1>1, <2>3, <2>6
  <2> QED BY <1>4, <2>7 DEF EffectiveAtLeast, F, U
<1> QED BY <1>3, <1>4

\* Two roundings, the first scaled by a factor of at most 1, stay within a fourth
\* digit of the exact value X * d, which is counted in steps of P * Unit.
LEMMA TwoRoundings ==
  ASSUME NEW P \in Nat \ {0}, NEW X \in Nat, NEW e \in Nat, NEW d \in Amounts,
         2 * (e * P) <= 2 * X + Grain * P, 2 * X <= 2 * (e * P) + Grain * P,
         NEW c \in Digits(e * d, Unit), NEW required \in Nat
  PROVE  /\ c >= required + Grain => X * d >= required * (Unit * P)
         /\ c + Grain < required => ~(X * d >= required * (Unit * P))
<1>1. /\ d \in Nat /\ d <= Unit /\ Unit \in Nat \ {0} /\ e * d \in Nat
      /\ Grain \in Nat \ {0}
  BY GrainAssumption, UnitAssumption DEF Amounts
<1>2. /\ c \in Nat /\ 2 * (c * Unit) <= 2 * (e * d) + Grain * Unit
      /\ 2 * (e * d) <= 2 * (c * Unit) + Grain * Unit
  BY <1>1, DigitsError
<1> DEFINE XD == X * d
           EDP == (e * d) * P
           UP == Unit * P
           GUP == Grain * (Unit * P)
           GDP == Grain * (d * P)
           CUP == c * (Unit * P)
           RUP == required * (Unit * P)
<1>3. /\ XD \in Nat /\ EDP \in Nat /\ UP \in Nat \ {0} /\ GUP \in Nat /\ GDP \in Nat
      /\ CUP \in Nat /\ RUP \in Nat
  <2>1. UP \in Nat /\ UP > 0
    BY <1>1
  <2> QED BY <1>1, <1>2, <2>1
<1>4. GDP <= GUP
  <2>1. d * P \in Nat /\ UP \in Nat /\ d * P <= UP
    BY <1>1
  <2> HIDE DEF UP
  <2>2. Grain * (d * P) <= Grain * UP
    BY <1>1, <2>1, ProductMonotone
  <2> QED BY <2>2 DEF UP
<1>5. 2 * EDP <= 2 * XD + GDP /\ 2 * XD <= 2 * EDP + GDP
  <2> DEFINE eP == e * P
             gP == Grain * P
  <2>1. eP \in Nat /\ gP \in Nat
    BY <1>1
  <2>2. 2 * eP <= 2 * X + gP /\ 2 * X <= 2 * eP + gP
    OBVIOUS
  <2>3. EDP = eP * d /\ GDP = gP * d
    BY <1>1
  <2> HIDE DEF eP, gP, EDP, GDP
  <2>4. /\ (2 * eP) * d <= (2 * X + gP) * d
        /\ (2 * X) * d <= (2 * eP + gP) * d
    <3>1. 2 * eP \in Nat /\ 2 * X + gP \in Nat /\ 2 * eP + gP \in Nat /\ 2 * X \in Nat
      BY <2>1
    <3> QED BY <1>1, <2>2, <3>1, ProductMonotone
  <2> QED BY <1>1, <2>1, <2>3, <2>4
<1>6. 2 * CUP <= 2 * EDP + GUP /\ 2 * EDP <= 2 * CUP + GUP
  <2> DEFINE cU == c * Unit
             ed == e * d
             gU == Grain * Unit
  <2>1. cU \in Nat /\ ed \in Nat /\ gU \in Nat
    BY <1>1, <1>2
  <2>2. 2 * cU <= 2 * ed + gU /\ 2 * ed <= 2 * cU + gU
    BY <1>2
  <2>3. CUP = cU * P /\ EDP = ed * P /\ GUP = gU * P
    BY <1>1, <1>2
  <2> HIDE DEF cU, ed, gU, CUP, EDP, GUP
  <2>4. /\ (2 * cU) * P <= (2 * ed + gU) * P
        /\ (2 * ed) * P <= (2 * cU + gU) * P
    <3>1. 2 * cU \in Nat /\ 2 * ed + gU \in Nat /\ 2 * ed \in Nat /\ 2 * cU + gU \in Nat
      BY <2>1
    <3> QED BY <2>2, <3>1, ProductMonotone
  <2> QED BY <2>1, <2>3, <2>4
<1>7. c >= required + Grain => CUP >= RUP + GUP
  <2> HAVE c >= required + Grain
  <2>1. (required + Grain) * UP <= CUP
    BY <1>1, <1>2, <1>3, ProductMonotone
  <2>2. (required + Grain) * UP = RUP + GUP
    <3>1. UP \in Nat /\ RUP = required * UP /\ GUP = Grain * UP
      BY <1>3
    <3> HIDE DEF UP, RUP, GUP
    <3> QED BY <1>1, <3>1
  <2> QED BY <2>1, <2>2
<1>8. c + Grain < required => RUP >= CUP + GUP + UP
  <2> HAVE c + Grain < required
  <2>1. (c + Grain + 1) * UP <= RUP
    BY <1>1, <1>2, <1>3, ProductMonotone
  <2>2. (c + Grain + 1) * UP = CUP + GUP + UP
    <3>1. UP \in Nat /\ CUP = c * UP /\ GUP = Grain * UP
      BY <1>3
    <3> HIDE DEF UP, CUP, GUP
    <3> QED BY <1>1, <1>2, <3>1
  <2> QED BY <2>1, <2>2
<1> HIDE DEF XD, EDP, UP, GUP, GDP, CUP, RUP
<1>9. c >= required + Grain => XD >= RUP
  BY <1>3, <1>4, <1>5, <1>6, <1>7
<1>10. c + Grain < required => ~(XD >= RUP)
  BY <1>3, <1>4, <1>5, <1>6, <1>8
<1> QED BY <1>9, <1>10 DEF XD, RUP, UP

\* Whoever holds a child can call no tool that the holder of its parent could
\* not, with its reputation in four digits, but for the seconds of the lifetime floor and a rotation that fell
\* between the two reads of the key.
THEOREM DelegationWeakens == Spec => []DelegateNotStronger
<1>1. ASSUME IInv PROVE DelegateNotStronger
  <2> SUFFICES ASSUME NEW i \in Children, NEW tool \in Tools,
                      Allows(tokens[i], tool),
                      tokens[i].signedBy = ParentOf(i).signedBy
               PROVE  \/ \E t \in InFourDigits(ParentOf(i)) : Allows(t, tool)
                      \/ Expired(ParentOf(i)) /\ now < ParentOf(i).exp + MinTTL
    BY DEF DelegateNotStronger
  <2> DEFINE child == tokens[i]
             parent == ParentOf(i)
             rounded == [parent EXCEPT !.claims.reputation = child.claims.reputation]
  <2>1. /\ i \in Ids /\ child \in Token /\ child.parent \in Ids
        /\ parent # None /\ LineageOf(child, parent)
    BY <1>1 DEF IInv, TypeOK, Lineage, Children, Token, OrNone
  <2>2. parent \in Token /\ parent.claims \in Claims /\ now \in Nat /\ config \in Configs
    BY <1>1, <2>1 DEF IInv, TypeOK, ParentOf, OrNone, Token, Time
  <2>3. parent.claims.depth \in 0..DepthBound
    BY <1>1, <2>1, <2>2, UnitAssumption DEF IInv, Lineage, LineageOf, ParentOf, Claims
  <2>rounded. /\ rounded \in InFourDigits(parent)
              /\ rounded.claims.reputation = child.claims.reputation
              /\ rounded.claims.kya = parent.claims.kya
              /\ rounded.claims.depth = parent.claims.depth
              /\ rounded.exp = parent.exp /\ rounded.signedBy = parent.signedBy
    BY <2>1, <2>2 DEF LineageOf, InFourDigits, Token, Claims
  <2> HIDE DEF rounded
  <2>4. Evaluates(rounded, tool)
    <3>1. /\ child.claims.reputation \in Amounts /\ config.decay \in Amounts
          /\ tool.reputation \in Amounts
      BY <2>1, <2>2, InputsAssumption DEF Claims, Token
    <3>2. /\ parent.claims.kya >= tool.kya
          /\ EffectiveAtLeast(child.claims.reputation, config.decay,
                              parent.claims.depth + 1, tool.reputation)
      BY <2>1 DEF Allows, Evaluates, LineageOf
    <3> QED BY <2>3, <2>rounded, <3>1, <3>2, HopWeakens DEF Evaluates
  <2>5. CASE ~Expired(parent)
    <3>1. Allows(rounded, tool)
      BY <2>4, <2>5, <2>rounded DEF Allows, Verifies, Expired
    <3> QED BY <2>rounded, <3>1
  <2>6. CASE Expired(parent)
    <3>1. child.exp # None /\ child.exp \in Nat /\ ~(child.exp <= now)
      BY <2>1 DEF Allows, Verifies, Expired, LineageOf, Token, OrNone
    <3>2. parent.exp # None /\ parent.exp \in Nat
      BY <2>2, <2>6 DEF Expired, Token, OrNone
    <3>3. child.exp < parent.exp + MinTTL
      BY <2>1, <3>2 DEF LineageOf
    <3> QED BY <2>2, <2>6, <3>1, <3>2, <3>3, BoundsAssumption
  <2> QED BY <2>5, <2>6
<1> QED BY <1>1, Invariance, PTL

\* What a consistent token claims is the trust its reputation and depth give it, and
\* one more hop keeps the claim and the verdict within a fourth digit of each other.
LEMMA HopAgrees ==
  ASSUME NEW r \in Amounts, NEW f \in Amounts, NEW n \in 0..DepthBound,
         NEW e \in (IF n = 0 THEN {r} ELSE Digits(r * f^n, Unit^n)),
         NEW c \in Digits(e * f, Unit), NEW required \in Amounts
  PROVE  /\ c >= required + Grain => EffectiveAtLeast(r, f, n + 1, required)
         /\ c + Grain < required => ~EffectiveAtLeast(r, f, n + 1, required)
<1>1. /\ r \in Nat /\ f \in Nat /\ required \in Nat
      /\ Unit \in Nat \ {0} /\ Unit \in Amounts /\ n \in Nat /\ DepthBound \in Nat
      /\ Grain \in Nat \ {0}
  BY GrainAssumption, UnitAssumption DEF Amounts
<1>2. EffectiveAtLeast(r, f, n + 1, required)
        <=> r * f^(n+1) >= required * Unit^(n+1)
  BY <1>1 DEF EffectiveAtLeast
<1>3. CASE n = 0
  <2>1. f^(n+1) = f /\ Unit^(n+1) = Unit /\ e = r
    BY <1>1, <1>3, PowerAssumption
  <2> DEFINE P == 1
  <2>2. P \in Nat \ {0} /\ 2 * (e * P) <= 2 * r + Grain * P /\ 2 * r <= 2 * (e * P) + Grain * P
    BY <1>1, <2>1
  <2>3. Unit * P = Unit
    BY <1>1
  <2> HIDE DEF P
  <2>4. /\ c >= required + Grain => r * f >= required * (Unit * P)
        /\ c + Grain < required => ~(r * f >= required * (Unit * P))
    BY <1>1, <2>1, <2>2, TwoRoundings
  <2> QED BY <1>2, <2>1, <2>3, <2>4
<1>4. CASE n # 0
  <2> DEFINE F == f^n
             P == Unit^n
             X == r * F
  <2>1. /\ F \in Nat /\ P \in Nat \ {0} /\ X \in Nat
        /\ f^(n+1) = f * F /\ Unit^(n+1) = Unit * P
    BY <1>1, <1>4, PowerAssumption, PositivePowerAssumption
  <2>2. e \in Digits(X, P)
    BY <1>4
  <2> HIDE DEF P, X
  <2>3. e \in Nat /\ 2 * (e * P) <= 2 * X + Grain * P /\ 2 * X <= 2 * (e * P) + Grain * P
    BY <2>1, <2>2, DigitsError
  <2>4. /\ c >= required + Grain => X * f >= required * (Unit * P)
        /\ c + Grain < required => ~(X * f >= required * (Unit * P))
    BY <1>1, <2>1, <2>3, TwoRoundings
  <2>5. r * f^(n+1) = X * f
    <3> HIDE DEF F
    <3>1. r * (f * F) = (r * F) * f
      BY <1>1, <2>1
    <3> QED BY <2>1, <3>1 DEF X
  <2> QED BY <1>2, <2>1, <2>4, <2>5
<1> QED BY <1>3, <1>4

\* The claim a child advertises agrees with the verdict on it, whatever the grid and
\* the factor, and wherever the two roundings fall.
THEOREM ClaimsAgree == Spec => []ClaimMatchesVerdict
<1>1. ASSUME IInv PROVE ClaimMatchesVerdict
  <2> SUFFICES ASSUME NEW i \in Children, Consistent(ParentOf(i).claims),
                      tokens[i].claims.decay = config.decay, NEW required \in Amounts
      PROVE  LET child == tokens[i].claims
                 atLeast == EffectiveAtLeast(child.reputation, config.decay, child.depth,
                                             required)
             IN (child.effective >= required + Grain => atLeast)
                /\ (child.effective + Grain < required => ~atLeast)
    BY DEF ClaimMatchesVerdict
  <2> DEFINE child == tokens[i].claims
             parent == ParentOf(i).claims
  <2>1. /\ i \in Ids /\ tokens[i] \in Token /\ tokens[i].parent \in Ids
        /\ ParentOf(i) # None /\ LineageOf(tokens[i], ParentOf(i))
    BY <1>1 DEF IInv, TypeOK, Lineage, Children, Token, OrNone
  <2>2. ParentOf(i) \in Token /\ parent \in Claims /\ config \in Configs
    BY <1>1, <2>1 DEF IInv, TypeOK, ParentOf, OrNone, Token
  <2>3. parent.depth \in 0..DepthBound /\ parent.reputation \in Amounts
    BY <1>1, <2>1, <2>2, UnitAssumption DEF IInv, Lineage, LineageOf, ParentOf, Claims
  <2>4. config.decay \in Amounts /\ parent.decay = config.decay
    BY <2>1, <2>2, InputsAssumption DEF Consistent, LineageOf, Decays
  <2>5. parent.effective \in
          IF parent.depth = 0 THEN {parent.reputation}
          ELSE Digits(parent.reputation * config.decay^parent.depth, Unit^parent.depth)
    BY <2>4 DEF Consistent
  <2>6. /\ child.effective \in Digits(parent.effective * config.decay, Unit)
        /\ child.reputation = parent.reputation /\ child.depth = parent.depth + 1
    BY <2>1 DEF Consistent, LineageOf, Decays
  <2> HIDE DEF child, parent
  <2>7. /\ child.effective >= required + Grain
             => EffectiveAtLeast(parent.reputation, config.decay, parent.depth + 1, required)
        /\ child.effective + Grain < required
             => ~EffectiveAtLeast(parent.reputation, config.decay, parent.depth + 1, required)
    BY <2>3, <2>4, <2>5, <2>6, HopAgrees
  <2> QED BY <2>6, <2>7 DEF child
<1> QED BY <1>1, Invariance, PTL

\* Which scopes an exchange gives its child: those narrowing grants, unless they
\* are refused.
LEMMA ExchangeDecides ==
  ASSUME TypeOK, NEW p \in Ids, NEW c \in Ids, Exchange(p, c)
  PROVE  /\ tokens[p] \in Token /\ tokens[c] = None
         /\ \A i \in Ids : i # c => tokens'[i] = tokens[i]
         /\ tokens'[c].parent = p
         /\ \E actor \in Actors \union {Unnamed}, asked \in SUBSET Scopes :
              LET decision == NarrowedFor(tokens[p], asked, actor) IN
                /\ ~ScopesRefused(decision, asked)
                /\ tokens'[c].claims.scope = decision.granted
                /\ tokens'[c].claims.agent = actor
                /\ tokens'[c].asked = asked
<1>1. PICK actor \in Actors \union {Unnamed}, asked \in ScopeRequests \union {{}} :
        /\ ~ScopesRefused(NarrowedFor(tokens[p], asked, actor), asked)
        /\ \E claims \in ChildClaims(tokens[p], asked, actor) :
             tokens' = [tokens EXCEPT ![c] =
               [claims |-> claims, iat |-> now, exp |-> now + ChildTTL(tokens[p]),
                signedBy |-> key', parent |-> p, asked |-> asked]]
  BY DEF Exchange
<1>2. PICK claims \in ChildClaims(tokens[p], asked, actor) :
        tokens' = [tokens EXCEPT ![c] =
          [claims |-> claims, iat |-> now, exp |-> now + ChildTTL(tokens[p]),
           signedBy |-> key', parent |-> p, asked |-> asked]]
  BY <1>1
<1>3. /\ claims.scope = NarrowedFor(tokens[p], asked, actor).granted
      /\ claims.agent = actor
  BY DEF ChildClaims
<1>4. /\ tokens'[c].claims = claims /\ tokens'[c].parent = p /\ tokens'[c].asked = asked
      /\ \A i \in Ids : i # c => tokens'[i] = tokens[i]
  BY <1>2 DEF TypeOK
<1>5. asked \in SUBSET Scopes
  BY InputsAssumption
<1>6. tokens[p] \in Token /\ tokens[c] = None
  BY DEF Exchange, TypeOK, OrNone
<1> QED BY <1>1, <1>3, <1>4, <1>5, <1>6

\* The financial scope is passed on, never added, and never silently dropped
\* from a request that names it.
THEOREM FinancialScopeIsGated == Spec => FinancialNeverAdded
<1>1. ASSUME TypeOK, [Next]_vars PROVE FinancialStep
  <2> SUFFICES ASSUME NEW i \in Children' \ Children
      PROVE  LET child == tokens'[i]  parent == tokens'[child.parent]
                 pilot == config.allowlist # {} IN
        /\ TOOL_FINANCIAL \in child.claims.scope =>
             /\ TOOL_FINANCIAL \in parent.claims.scope
             /\ IF pilot THEN child.claims.agent \in config.allowlist
                ELSE parent.claims.kya >= AUDITABLE
        /\ pilot /\ TOOL_FINANCIAL \in child.asked \intersect parent.claims.scope
             => TOOL_FINANCIAL \in child.claims.scope
    BY DEF FinancialStep
  <2>1. i \in Ids /\ tokens'[i] # tokens[i] /\ tokens'[i].parent # None
    BY DEF Children
  <2>2. ASSUME NEW j \in Ids, IssueRoot(j) PROVE FALSE
    <3>1. PICK token \in Token :
            token.parent = None /\ tokens' = [tokens EXCEPT ![j] = token]
      BY <1>1, <2>2, IssueMints
    <3> QED BY <1>1, <2>1, <3>1 DEF TypeOK
  <2>3. PICK p \in Ids, c \in Ids : Exchange(p, c)
    BY <1>1, <2>1, <2>2 DEF Next, RotateKey, Restart, Tick, vars
  <2>4. /\ tokens[p] \in Token /\ tokens[c] = None
        /\ \A j \in Ids : j # c => tokens'[j] = tokens[j]
        /\ tokens'[c].parent = p
    BY <1>1, <2>3, ExchangeDecides
  <2>5. i = c /\ tokens'[i].parent = p
    BY <2>1, <2>4
  <2>6. p # c /\ tokens'[p] = tokens[p]
    BY <2>3, <2>4 DEF Exchange
  <2>7. PICK actor \in Actors \union {Unnamed}, asked \in SUBSET Scopes :
          /\ ~ScopesRefused(NarrowedFor(tokens[p], asked, actor), asked)
          /\ tokens'[c].claims.scope = NarrowedFor(tokens[p], asked, actor).granted
          /\ tokens'[c].claims.agent = actor
          /\ tokens'[c].asked = asked
    BY <1>1, <2>3, ExchangeDecides
  <2> DEFINE parent == tokens[p]
             requested == RequestedOf(parent, asked)
             d == NarrowDelegatedScopes(parent.claims.scope, requested, actor,
                                        parent.claims.kya, config.allowlist)
  <2>8. /\ parent.claims.scope \in SUBSET Scopes /\ requested \in SUBSET Scopes
        /\ parent.claims.kya \in Levels
    BY <2>4 DEF Token, Claims, RequestedOf
  <2>9. /\ d.granted \subseteq parent.claims.scope
        /\ TOOL_FINANCIAL \in d.granted =>
             IF config.allowlist # {} THEN actor \in config.allowlist
             ELSE parent.claims.kya >= AUDITABLE
        /\ TOOL_FINANCIAL \in parent.claims.scope \intersect requested =>
             \/ TOOL_FINANCIAL \in d.granted
             \/ config.allowlist = {}
             \/ d.reason = NOT_IN_PILOT
    <3>1. NarrowingFacts(d, parent.claims.scope, requested, actor,
                         parent.claims.kya, config.allowlist)
      BY <2>8, NarrowedScopes
    <3> HIDE DEF d, requested, parent
    <3> QED BY <3>1 DEF NarrowingFacts
  <2>10. ~ScopesRefused(d, asked) /\ tokens'[c].claims.scope = d.granted
    BY <2>7 DEF NarrowedFor
  <2>11. TOOL_FINANCIAL \in asked => TOOL_FINANCIAL \in requested
    BY DEF RequestedOf
  <2> HIDE DEF d, requested
  <2> QED BY <2>5, <2>6, <2>7, <2>9, <2>10, <2>11 DEF ScopesRefused
<1> QED BY <1>1, TypeCorrect, PTL DEF Spec, FinancialNeverAdded

----------------------------------------------------------------------------
(* Every step is a step of Attenuation. *)

Held == [i \in Ids |-> IF tokens[i] = None THEN None ELSE PowerOf(tokens[i])]

\* What a token says is something, and says whose it is.
LEMMA PowerSays ==
  ASSUME NEW token \in Token
  PROVE  PowerOf(token) # None /\ PowerOf(token).from = token.parent
<1>1. PowerOf(token) \in Power
  BY DEF PowerOf, Power, Token, Claims, OrNone
<1> QED BY <1>1, NoValueAssumption DEF PowerOf

LEMMA MintHandsOut ==
  ASSUME TypeOK, NEW i \in Ids, NEW token \in Token, UNCHANGED now,
         tokens[i] = None, tokens' = [tokens EXCEPT ![i] = token]
  PROVE  /\ AT!HandOut(i, token.parent)
         /\ Held'[i] = PowerOf(token)
<1>1. /\ tokens'[i] = token /\ token # None
      /\ \A j \in Ids : j # i => tokens'[j] = tokens[j]
  BY NoValueAssumption DEF TypeOK
<1>2. Held'[i] = PowerOf(token) /\ Held[i] = None
  BY <1>1 DEF Held
<1>3. Held' = [Held EXCEPT ![i] = Held'[i]]
  <2>1. /\ Held = [j \in Ids |-> Held[j]] /\ Held' = [j \in Ids |-> Held'[j]]
        /\ \A j \in Ids : j # i => Held'[j] = Held[j]
    BY <1>1 DEF Held
  <2> HIDE DEF Held
  <2> QED BY <2>1
<1>4. Held'[i] # None /\ Held'[i].from = token.parent
  BY <1>2, PowerSays
<1> QED BY <1>2, <1>3, <1>4 DEF AT!HandOut, Held

LEMMA ExchangeDelegates ==
  ASSUME TypeOK, NEW p \in Ids, NEW c \in Ids, Exchange(p, c)
  PROVE  AT!Delegate(p, c)
<1>1. PICK child \in Token :
        /\ tokens[p] \in Token /\ tokens[p].claims.transferable
        /\ tokens[c] = None
        /\ tokens' = [tokens EXCEPT ![c] = child]
        /\ child.parent = p /\ child.exp # None
        /\ ClaimsOf(child.claims, tokens[p].claims)
        /\ ~Expired(tokens[p]) /\ UNCHANGED now
        /\ tokens[p].exp # None =>
             child.exp <= tokens[p].exp \/ child.exp = now + MinTTL
  BY ExchangeMints
<1>2. Held[p] = PowerOf(tokens[p]) /\ Held[p] # None
  BY <1>1, PowerSays, NoValueAssumption DEF Held
<1>3. AT!HandOut(c, p) /\ Held'[c] = PowerOf(child)
  BY <1>1, MintHandsOut
<1>4. AT!Live(Held[p])
  <2>1. now \in Nat /\ tokens[p].exp \in OrNone(Nat)
    BY <1>1 DEF TypeOK, Time, Token
  <2> QED BY <1>1, <1>2, <2>1 DEF AT!Live, Expired, PowerOf, OrNone
<1>5. AT!Weaker(Held'[c], Held[p])
  <2>1. tokens[p].claims.reputation \in Amounts
    BY <1>1 DEF Token, Claims
  <2>2. AT!Near(child.claims.reputation, tokens[p].claims.reputation)
    BY <1>1, <2>1, DigitsNear DEF ClaimsOf
  <2> QED BY <1>1, <1>2, <1>3, <2>2 DEF AT!Weaker, ClaimsOf, PowerOf
<1>6. Held[p].passable
  BY <1>1, <1>2 DEF PowerOf
<1> QED BY <1>2, <1>3, <1>4, <1>5, <1>6 DEF AT!Delegate, Held

\* Attenuation holds of the exchange, whatever keys, limits and restarts do: the
\* claims, the chain of parents and the lifetimes shrink together.
THEOREM DelegationAttenuates == Spec => ImplementsAttenuation
<1>1. Init => AT!Init
  BY DEF Init, AT!Init
<1>2. ASSUME TypeOK, [Next]_vars PROVE [AT!Next]_AT!vars
  <2>1. CASE \E i \in Ids : IssueRoot(i)
    <3>1. PICK i \in Ids : IssueRoot(i)
      BY <2>1
    <3>2. PICK token \in Token :
            /\ tokens[i] = None /\ tokens' = [tokens EXCEPT ![i] = token]
            /\ token.parent = None
      BY <1>2, <3>1, IssueMints
    <3>3. AT!Issue(i)
      BY <1>2, <3>1, <3>2, MintHandsOut DEF IssueRoot, AT!Issue
    <3> QED BY <3>3 DEF AT!Next
  <2>2. CASE \E p, c \in Ids : Exchange(p, c)
    BY <1>2, <2>2, ExchangeDelegates DEF AT!Next
  <2>3. CASE RotateKey \/ Restart \/ UNCHANGED vars
    BY <2>3 DEF RotateKey, Restart, vars, AT!vars
  <2>4. CASE Tick
    BY <2>4 DEF Tick, AT!Wait, AT!Next
  <2> QED BY <1>2, <2>1, <2>2, <2>3, <2>4 DEF Next
<1> QED BY <1>1, <1>2, TypeCorrect, PTL DEF Spec, ImplementsAttenuation, AT!Spec
============================================================================
