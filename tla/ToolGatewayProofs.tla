------------------------- MODULE ToolGatewayProofs -------------------------
(***************************************************************************)
(* What ToolGateway promises for any servers, tools, requests, answers to  *)
(* tools/list and environments.  IInv is inductive; the two step           *)
(* properties follow from it and the step that forwards or denies a call.  *)
(***************************************************************************)
EXTENDS ToolGateway, IndexLemmas, TLAPS

----------------------------------------------------------------------------
(* The registry *)

LEMMA EntriesFinite ==
  ASSUME NEW env \in Environments, NEW id
  PROVE  /\ Len(env) \in Nat
         /\ Entries(env, id) \in SUBSET (1..Len(env))
         /\ \A i \in Entries(env, id) : env[i].url \in Urls
<1>. DEFINE Server == [id : Ids \union {Blank}, url : Urls \union {Blank}]
<1>1. env \in Seq(Server)
  BY EnvironmentAssumption
<1>2. /\ Len(env) \in Nat /\ DOMAIN env = 1..Len(env)
      /\ \A i \in 1..Len(env) : env[i] \in Server
  <2>. HIDE DEF Server
  <2>. QED BY <1>1
<1>. QED BY <1>2 DEF Entries

\* resolve_server_url finds the url of every server it knows.
LEMMA UrlOfKnown ==
  ASSUME NEW env \in Environments, NEW id \in ServerIds(env)
  PROVE  UrlOf(env, id) \in Urls
<1>1. Entries(env, id) # {}
  BY DEF ServerIds
<1>2. \E i \in Entries(env, id) : \A j \in Entries(env, id) : j <= i
  BY <1>1, EntriesFinite, Greatest
<1>. QED BY <1>2, EntriesFinite DEF UrlOf

\* The servers are taken in the order of their first entries.
LEMMA ForemostChosen ==
  ASSUME NEW env \in Environments, NEW ids \in SUBSET ServerIds(env), ids # {}
  PROVE  Foremost(env, ids) \in ids
<1>. DEFINE S == UNION {Entries(env, id) : id \in ids}
<1>1. S \in SUBSET Nat
  BY EntriesFinite
<1>2. S # {}
  BY DEF ServerIds
<1>3. PICK i \in S : \A j \in S : i <= j
  <2>. HIDE DEF S
  <2>. QED BY <1>1, <1>2, Least
<1>4. PICK id \in ids : i \in Entries(env, id)
  OBVIOUS
<1>5. \A other \in ids : \A j \in Entries(env, other) : i <= j
  BY <1>3
<1>. QED BY <1>4, <1>5 DEF Foremost

LEMMA ListedEntry ==
  ASSUME NEW list \in Listings, NEW t \in Tools
  PROVE  /\ Len(list) \in Nat
         /\ Listed(list, t) \in SUBSET (1..Len(list))
         /\ \A i \in Listed(list, t) : RequirementOf(list[i]) \in Requirement
<1>1. list \in Seq(Entry)
  BY ListingAssumption
<1>2. DefaultRequirement \in Requirement
  BY DEF DefaultRequirement, Requirement, KyaForScope, SCOPE_KYA_MAP, Scopes, MCPScope,
         TOOL_INVOKE, READ, TOOL_WRITE, TOOL_FINANCIAL, DELEGATE,
         SANDBOX, ORGANIZATIONAL, AUDITABLE
<1>3. ASSUME NEW i \in Listed(list, t)
      PROVE  i \in 1..Len(list) /\ RequirementOf(list[i]) \in Requirement
  <2>1. /\ i \in 1..Len(list) /\ list[i].name # Blank
        /\ \A j \in 1..i : list[j].name # Blank => list[j].trust # Malformed
    BY <1>1, <1>3 DEF Listed, Readable
  <2>2. list[i] \in Entry /\ list[i].trust # Malformed
    BY <1>1, <2>1
  <2>. QED BY <1>2, <2>1, <2>2 DEF Entry, RequirementOf
<1>. QED BY <1>1, <1>3

\* After a list is registered a tool is as before, or it is the lister's with
\* requirements the lister asks.
LEMMA RegisteredTools ==
  ASSUME NEW id \in Ids, NEW list \in Listings,
         tools \in [Tools -> DiscoveredTool \union {None}]
  PROVE  /\ Registered(id, list) \in [Tools -> DiscoveredTool \union {None}]
         /\ \A t \in Tools :
              \/ Registered(id, list)[t] = tools[t]
              \/ /\ Registered(id, list)[t].server = id
                 /\ Registered(id, list)[t].requirements \in HostAsks(list, t)
<1>1. ASSUME NEW t \in Tools, Listed(list, t) # {}
      PROVE  RequirementOf(LastListed(list, t)) \in HostAsks(list, t) \intersect Requirement
  <2>1. \E i \in Listed(list, t) : \A j \in Listed(list, t) : j <= i
    BY <1>1, ListedEntry, Greatest
  <2>2. \E i \in Listed(list, t) : LastListed(list, t) = list[i]
    BY <2>1 DEF LastListed
  <2>. QED BY <2>2, ListedEntry DEF HostAsks
<1>. QED BY <1>1 DEF Registered, DiscoveredTool

\* The discovery loop awaits a server it knows, or serves.
LEMMA DiscoveryStands ==
  ASSUME NEW env \in Environments, NEW todo \in SUBSET ServerIds(env)
  PROVE  /\ Discovery(env, todo) \in Process
         /\ Discovery(env, todo).env = env
         /\ Discovery(env, todo).reply = None
         /\ Discovery(env, todo).todo \subseteq ServerIds(env)
         /\ Discovery(env, todo).phase = "serving" <=> todo = {}
         /\ Discovery(env, todo).phase = "discovering" =>
              Discovery(env, todo).current \in ServerIds(env)
<1>1. ServerIds(env) \subseteq Ids
  BY DEF ServerIds
<1>2. CASE todo = {}
  BY <1>2 DEF Discovery, Process
<1>3. CASE todo # {}
  <2>1. Foremost(env, todo) \in todo
    BY <1>3, ForemostChosen
  <2>. QED BY <1>1, <1>3, <2>1 DEF Discovery, Process
<1>. QED BY <1>2, <1>3

----------------------------------------------------------------------------
(* The inductive invariant *)

LEMMA InitEstablishes == Init => IInv
<1>. SUFFICES ASSUME Init PROVE IInv
  OBVIOUS
<1>1. PICK env \in Environments : process = Discovery(env, ServerIds(env))
  BY DEF Init
<1>2. ServerIds(env) \in SUBSET ServerIds(env)
  OBVIOUS
<1>3. TypeOK
  BY <1>1, <1>2, DiscoveryStands, NoValueAssumption
  DEF Init, TypeOK, NoTools, Call, IdleCall
<1>4. ToolsHosted /\ EvaluatorInformed
  BY DEF Init, ToolsHosted, EvaluatorInformed, NoTools, Enforced
<1>5. ReplyCurrent
  BY <1>1, <1>2, DiscoveryStands, NoValueAssumption DEF ReplyCurrent
<1>6. IdleUntouched /\ ForwardedOpen /\ ExecutionsAccounted
  BY NoValueAssumption DEF Init, IdleUntouched, ForwardedOpen, ExecutionsAccounted,
                           IdleCall, Outcomes
<1>. QED BY <1>3, <1>4, <1>5, <1>6 DEF IInv

\* The steps of one call change nothing else, and only Forward changes the url.
CallStep(r) ==
  /\ UNCHANGED <<process, registry, servers, restarts>>
  /\ inflight' \subseteq inflight \union {r}
  /\ \E c \in Call : call' = [call EXCEPT ![r] = c]

LEMMA ServeIsCallStep ==
  ASSUME IInv, NEW r \in Requests,
         Serve(r) \/ UpstreamExecutes(r) \/ UpstreamFails(r)
  PROVE  CallStep(r)
<1>. USE NoValueAssumption DEF CallStep, registry, servers, upstream
<1>0. TypeOK /\ call[r] \in Call /\ call = [call EXCEPT ![r] = call[r]]
  BY DEF IInv, TypeOK
<1>1. CASE Refuse(r)
  BY <1>1 DEF Refuse, Respond, Call, Outcomes
<1>2. CASE Deny(r)
  BY <1>2 DEF Deny, Respond, Call, Outcomes
<1>3. CASE RejectUnknown(r)
  BY <1>3 DEF RejectUnknown, Respond, Call, Outcomes
<1>4. CASE Forward(r)
  <2>1. PICK t \in Tools, token \in Tokens :
          /\ tools[t] # None
          /\ call' = [call EXCEPT ![r] =
               [pc |-> "forwarded", tool |-> t, token |-> token,
                url |-> UrlOf(process.env, tools[t].server), outcome |-> None]]
    BY <1>4 DEF Forward
  <2>2. UrlOf(process.env, tools[t].server) \in Urls
    BY <2>1, <1>0, UrlOfKnown DEF IInv, ToolsHosted, TypeOK, Process
  <2>. QED BY <1>4, <2>1, <2>2 DEF Forward, Call
<1>5. CASE TimesOut(r) \/ BreaksOff(r)
  BY <1>0, <1>5 DEF TimesOut, BreaksOff, Answered, Call, Outcomes
<1>6. CASE UpstreamExecutes(r)
  BY <1>0, <1>6 DEF UpstreamExecutes, Answered, Call, Outcomes
<1>7. CASE UpstreamFails(r)
  BY <1>0, <1>7 DEF UpstreamFails, Answered, Call, Outcomes
<1>. QED BY <1>1, <1>2, <1>3, <1>4, <1>5, <1>6, <1>7 DEF Serve

\* A request not forwarded yet was neither sent nor executed.
LEMMA UrllessIsUnsent ==
  ASSUME IInv, NEW r \in Requests, call[r].url = None
  PROVE  executed[r] = 0 /\ r \notin inflight
BY DEF IInv, TypeOK, ExecutionsAccounted

LEMMA ServeKeepsAccount ==
  ASSUME IInv, NEW r \in Requests,
         Serve(r) \/ UpstreamExecutes(r) \/ UpstreamFails(r)
  PROVE  executed' \in [Requests -> Nat] /\ IdleUntouched' /\ ExecutionsAccounted'
<1>. USE NoValueAssumption
<1>. DEFINE Account(q) ==
       /\ executed[q] \in Nat
       /\ call[q].pc = "idle" => call[q] = IdleCall
       /\ executed[q] <= 1
       /\ executed[q] = 1 \/ q \in inflight => call[q].url # None
       /\ executed[q] = 1 => q \notin inflight
       /\ call[q].outcome = "result" => executed[q] = 1
       /\ call[q].outcome \in {"denied", "unknown", "refused"} => call[q].url = None
<1>0. /\ TypeOK /\ call[r] \in Call /\ \A q \in Requests : Account(q)
      /\ call[r].pc = "idle" => executed[r] = 0 /\ r \notin inflight
  BY UrllessIsUnsent DEF IInv, TypeOK, IdleUntouched, ExecutionsAccounted, IdleCall
<1>1. executed' \in [Requests -> Nat]
  BY <1>0 DEF TypeOK, Serve, Refuse, Deny, RejectUnknown, Forward, TimesOut,
              BreaksOff, UpstreamExecutes, UpstreamFails, upstream
<1>2. ASSUME NEW q \in Requests \ {r} PROVE Account(q)'
  BY <1>0, ServeIsCallStep
  DEF CallStep, TypeOK, Serve, Refuse, Deny, RejectUnknown, Forward, TimesOut,
      BreaksOff, UpstreamExecutes, UpstreamFails, upstream
<1>. DEFINE Passed(o) ==
       /\ call'[r].url = call[r].url
       /\ call'[r].pc = "idle" => call'[r] = call[r]
       /\ call'[r].outcome = call[r].outcome \/ call'[r].outcome = o
<1>a. /\ \A o : Answered(r, o) => Passed(o)
      /\ \A o : UNCHANGED call => Passed(o)
  BY <1>0 DEF TypeOK, Answered, Call
<1>3. Account(r)'
  <2>1. CASE Refuse(r)
    BY <1>0, <2>1 DEF TypeOK, Refuse, Handles, Respond, upstream
  <2>2. CASE Deny(r)
    BY <1>0, <2>2 DEF TypeOK, Deny, Handles, Respond, upstream
  <2>3. CASE RejectUnknown(r)
    BY <1>0, <2>3 DEF TypeOK, RejectUnknown, Handles, Respond, upstream
  <2>4. CASE Forward(r)
    <3>1. /\ call'[r].url \in Urls /\ call'[r].outcome = None
          /\ call'[r].pc = "forwarded"
      <4>1. PICK t \in Tools, token \in Tokens :
              /\ tools[t] # None
              /\ call' = [call EXCEPT ![r] =
                   [pc |-> "forwarded", tool |-> t, token |-> token,
                    url |-> UrlOf(process.env, tools[t].server), outcome |-> None]]
        BY <2>4 DEF Forward
      <4>2. UrlOf(process.env, tools[t].server) \in Urls
        BY <4>1, <1>0, UrlOfKnown DEF IInv, ToolsHosted, TypeOK, Process
      <4>. QED BY <1>0, <4>1, <4>2 DEF TypeOK
    <3>. QED BY <1>0, <2>4, <3>1 DEF TypeOK, Forward, Handles, Outcomes
  <2>5. CASE TimesOut(r) \/ BreaksOff(r)
    <3>1. Passed("timeout") \/ Passed("error")
      BY <1>a, <2>5 DEF TimesOut, BreaksOff
    <3>2. UNCHANGED <<executed, inflight>>
      BY <2>5 DEF TimesOut, BreaksOff, upstream
    <3>. QED BY <1>0, <3>1, <3>2
  <2>6. CASE UpstreamExecutes(r)
    <3>1. Passed("result") \/ Passed("error")
      BY <1>a, <2>6 DEF UpstreamExecutes
    <3>2. /\ r \in inflight /\ r \notin inflight' /\ executed[r] = 0 /\ executed'[r] = 1
      BY <1>0, <2>6 DEF TypeOK, UpstreamExecutes
    <3>. QED BY <1>0, <3>1, <3>2
  <2>7. CASE UpstreamFails(r)
    <3>1. Passed("error")
      BY <1>a, <2>7 DEF UpstreamFails
    <3>2. r \notin inflight' /\ UNCHANGED executed
      BY <2>7 DEF UpstreamFails
    <3>. QED BY <1>0, <3>1, <3>2
  <2>. QED BY <2>1, <2>2, <2>3, <2>4, <2>5, <2>6, <2>7 DEF Serve
<1>. QED BY <1>1, <1>2, <1>3 DEF IdleUntouched, ExecutionsAccounted

\* A call that waits was forwarded somewhere, and its client was told nothing.
LEMMA ServeKeepsOpen ==
  ASSUME IInv, NEW r \in Requests,
         Serve(r) \/ UpstreamExecutes(r) \/ UpstreamFails(r)
  PROVE  ForwardedOpen'
<1>. USE NoValueAssumption
<1>0. /\ TypeOK /\ ForwardedOpen
      /\ \A q \in Requests : q # r => call'[q] = call[q]
  BY ServeIsCallStep DEF IInv, TypeOK, CallStep
<1>1. SUFFICES ASSUME call'[r].pc = "forwarded"
               PROVE  call'[r].url # None /\ call'[r].outcome = None
  BY <1>0 DEF ForwardedOpen
<1>2. CASE Forward(r)
  <2>1. PICK t \in Tools, token \in Tokens :
          /\ tools[t] # None
          /\ call' = [call EXCEPT ![r] =
               [pc |-> "forwarded", tool |-> t, token |-> token,
                url |-> UrlOf(process.env, tools[t].server), outcome |-> None]]
    BY <1>2 DEF Forward
  <2>2. UrlOf(process.env, tools[t].server) \in Urls
    BY <1>0, <2>1, UrlOfKnown DEF IInv, ToolsHosted, TypeOK, Process
  <2>. QED BY <1>0, <2>1, <2>2 DEF TypeOK
<1>3. CASE Refuse(r) \/ Deny(r) \/ RejectUnknown(r)
  BY <1>0, <1>1, <1>3 DEF Refuse, Deny, RejectUnknown, Respond, TypeOK
<1>4. CASE TimesOut(r) \/ BreaksOff(r) \/ UpstreamExecutes(r) \/ UpstreamFails(r)
  <2>1. UNCHANGED call \/ \E outcome : Answered(r, outcome)
    BY <1>4 DEF TimesOut, BreaksOff, UpstreamExecutes, UpstreamFails
  <2>2. UNCHANGED call
    BY <1>0, <1>1, <2>1 DEF Answered, TypeOK, Call
  <2>. QED BY <1>0, <1>1, <2>2 DEF ForwardedOpen
<1>. QED BY <1>2, <1>3, <1>4 DEF Serve

LEMMA ServePreserves ==
  ASSUME IInv, NEW r \in Requests,
         Serve(r) \/ UpstreamExecutes(r) \/ UpstreamFails(r)
  PROVE  IInv'
<1>1. CallStep(r)
  BY ServeIsCallStep
<1>2. TypeOK'
  BY <1>1, ServeKeepsAccount DEF IInv, TypeOK, CallStep, registry, servers
<1>3. ToolsHosted' /\ ReplyCurrent' /\ EvaluatorInformed'
  BY <1>1 DEF IInv, CallStep, registry, servers, ToolsHosted, ReplyCurrent,
              EvaluatorInformed
<1>. QED BY <1>2, <1>3, ServeKeepsAccount, ServeKeepsOpen DEF IInv

LEMMA StartupPreserves ==
  ASSUME IInv, Startup
  PROVE  IInv'
<1>. USE NoValueAssumption DEF registry, servers, upstream
<1>0. TypeOK /\ process \in Process /\ process.env \in Environments
  BY DEF IInv, TypeOK, Process
<1>1. UNCHANGED <<call, upstream, servers, restarts>>
  BY DEF Startup, ListingAnswered, ListingFails, ServerDiscovered
<1>2. IdleUntouched' /\ ForwardedOpen' /\ ExecutionsAccounted'
  BY <1>1 DEF IInv, IdleUntouched, ForwardedOpen, ExecutionsAccounted
<1>3. CASE ListingAnswered
  <2>1. process.current \in ServerIds(process.env)
    BY <1>3 DEF IInv, ReplyCurrent, ListingAnswered, AwaitsListing
  <2>2. UrlOf(process.env, process.current) \in Urls
    BY <1>0, <2>1, UrlOfKnown
  <2>3. TypeOK'
    BY <1>0, <1>3, <2>2 DEF TypeOK, ListingAnswered, Process
  <2>4. ToolsHosted' /\ ReplyCurrent' /\ EvaluatorInformed'
    BY <1>0, <1>3, <2>2 DEF IInv, TypeOK, ListingAnswered, AwaitsListing, Process,
                   ToolsHosted, ReplyCurrent, EvaluatorInformed
  <2>. QED BY <1>2, <2>3, <2>4 DEF IInv
<1>4. CASE ListingFails
  <2>3. TypeOK'
    BY <1>0, <1>4 DEF TypeOK, ListingFails, Process
  <2>4. ToolsHosted' /\ ReplyCurrent' /\ EvaluatorInformed'
    BY <1>0, <1>4 DEF IInv, ListingFails, AwaitsListing, Process,
                   ToolsHosted, ReplyCurrent, EvaluatorInformed
  <2>. QED BY <1>2, <2>3, <2>4 DEF IInv
<1>5. CASE ServerDiscovered
  <2>1. /\ process.phase = "discovering" /\ process.reply # None
        /\ process.current \in ServerIds(process.env)
        /\ process.todo \subseteq ServerIds(process.env)
        /\ process.current \in Ids
    BY <1>5 DEF IInv, ReplyCurrent, ServerDiscovered, ServerIds
  <2>2. /\ process' \in Process /\ process'.env = process.env
        /\ process'.reply = None /\ process'.todo \subseteq ServerIds(process.env)
        /\ process'.phase = "serving" <=> process.todo = {}
        /\ process'.phase = "discovering" => process'.current \in ServerIds(process.env)
    BY <1>0, <1>5, <2>1, DiscoveryStands DEF ServerDiscovered
  <2>3. /\ tools' \in [Tools -> DiscoveredTool \union {None}]
        /\ \A t \in Tools :
             \/ tools'[t] = tools[t]
             \/ /\ process.reply \in Listings
                /\ tools'[t].server = process.current
                /\ tools'[t].requirements \in HostAsks(process.reply, t)
    <3>1. CASE process.reply = Failure
      BY <1>0, <1>5, <3>1 DEF TypeOK, ServerDiscovered
    <3>2. CASE process.reply # Failure
      <4>1. process.reply \in Listings
        BY <1>0, <2>1, <3>2 DEF Process
      <4>2. tools' = Registered(process.current, process.reply)
        BY <1>5, <3>2 DEF ServerDiscovered
      <4>. QED BY <1>0, <2>1, <4>1, <4>2, RegisteredTools DEF TypeOK
    <3>. QED BY <3>1, <3>2
  <2>4. requirements' \in [Tools -> Requirement \union {None}]
    BY <1>0, <1>5, <2>3 DEF TypeOK, ServerDiscovered, Enforced, DiscoveredTool
  <2>5. TypeOK'
    BY <1>0, <1>1, <2>2, <2>3, <2>4 DEF TypeOK
  <2>6. ToolsHosted'
    <3>1. ASSUME NEW t \in Tools, tools'[t] # None, tools'[t] = tools[t]
          PROVE  /\ tools[t].server \in ServerIds(process.env)
                 /\ LET u == UrlOf(process.env, tools[t].server) IN
                      u \in changed \/ tools[t].requirements \in HostAsks(listing[u], t)
      BY <3>1 DEF IInv, ToolsHosted
    <3>2. process.reply \in Listings =>
            LET u == UrlOf(process.env, process.current)
            IN  u \in changed \/ process.reply = listing[u]
      BY <2>1 DEF IInv, ReplyCurrent
    <3>. QED BY <1>1, <2>1, <2>2, <2>3, <3>1, <3>2 DEF ToolsHosted
  <2>7. ReplyCurrent'
    BY <2>2 DEF ReplyCurrent
  <2>8. EvaluatorInformed'
    BY <1>5, <2>2 DEF ServerDiscovered, EvaluatorInformed
  <2>. QED BY <1>2, <2>5, <2>6, <2>7, <2>8 DEF IInv
<1>. QED BY <1>3, <1>4, <1>5 DEF Startup

LEMMA ChangePreserves ==
  ASSUME IInv, NEW u \in Urls, ServerChanges(u)
  PROVE  IInv'
<1>. USE DEF registry, upstream
<1>0. /\ TypeOK /\ changed' = changed \union {u}
      /\ \A v \in Urls : v \in changed' \/ listing'[v] = listing[v]
      /\ UNCHANGED <<process, registry, call, upstream, restarts>>
  BY DEF IInv, TypeOK, ServerChanges
<1>1. TypeOK'
  BY <1>0 DEF TypeOK, ServerChanges
<1>2. ToolsHosted'
  <2>1. ASSUME NEW t \in Tools, tools[t] # None
        PROVE  UrlOf(process.env, tools[t].server) \in Urls
    BY <1>0, <2>1, UrlOfKnown DEF IInv, ToolsHosted, TypeOK, Process
  <2>. QED BY <1>0, <2>1 DEF IInv, ToolsHosted, HostAsks
<1>3. ReplyCurrent'
  <2>1. process.phase = "discovering" => UrlOf(process.env, process.current) \in Urls
    BY <1>0, UrlOfKnown DEF IInv, ReplyCurrent, TypeOK, Process
  <2>. QED BY <1>0, <2>1 DEF IInv, ReplyCurrent
<1>4. EvaluatorInformed' /\ IdleUntouched' /\ ForwardedOpen' /\ ExecutionsAccounted'
  BY <1>0 DEF IInv, EvaluatorInformed, IdleUntouched, ForwardedOpen,
              ExecutionsAccounted
<1>. QED BY <1>1, <1>2, <1>3, <1>4 DEF IInv

LEMMA RestartPreserves ==
  ASSUME IInv, Restart
  PROVE  IInv'
<1>. USE NoValueAssumption DEF upstream
<1>1. PICK env \in Environments : process' = Discovery(env, ServerIds(env))
  BY DEF Restart
<1>2. ServerIds(env) \in SUBSET ServerIds(env)
  OBVIOUS
<1>3. call' \in [Requests -> Call]
  <2>1. ASSUME NEW c \in Call, c.pc = "forwarded"
        PROVE  [c EXCEPT !.pc = "closed", !.outcome = "dropped"] \in Call
    BY DEF Call, Outcomes
  <2>. QED BY <2>1 DEF IInv, TypeOK, Restart
<1>4. TypeOK'
  <2>1. process' \in Process
    BY <1>1, <1>2, DiscoveryStands
  <2>2. /\ tools' \in [Tools -> DiscoveredTool \union {None}]
        /\ requirements' \in [Tools -> Requirement \union {None}]
        /\ changed' \subseteq Urls
    BY DEF IInv, TypeOK, Restart, NoTools
  <2>3. restarts' \in 0..MaxRestarts
    <3>1. restarts \in 0..MaxRestarts /\ restarts < MaxRestarts /\ restarts' = restarts + 1
      BY DEF IInv, TypeOK, Restart
    <3>. QED BY <3>1
  <2>. QED BY <1>3, <2>1, <2>2, <2>3 DEF IInv, TypeOK, Restart
<1>5. ToolsHosted' /\ EvaluatorInformed'
  BY DEF Restart, ToolsHosted, EvaluatorInformed, NoTools, Enforced
<1>6. ReplyCurrent'
  BY <1>1, <1>2, DiscoveryStands DEF ReplyCurrent
<1>7. \A r \in Requests : /\ call'[r].url = call[r].url
                          /\ call'[r].pc = "idle" => call'[r] = call[r]
                          /\ \/ call'[r].outcome = call[r].outcome
                             \/ call'[r].outcome = "dropped"
  BY DEF IInv, TypeOK, Restart, Call
<1>8. ForwardedOpen'
  BY DEF IInv, TypeOK, Restart, Call, ForwardedOpen
<1>9. IdleUntouched' /\ ExecutionsAccounted'
  <2>1. UNCHANGED <<executed, inflight>>
    BY DEF Restart
  <2>. QED BY <1>7, <2>1 DEF IInv, IdleUntouched, ExecutionsAccounted
<1>. QED BY <1>4, <1>5, <1>6, <1>8, <1>9 DEF IInv

LEMMA StutterPreserves ==
  ASSUME IInv, UNCHANGED vars
  PROVE  IInv'
BY DEF IInv, vars, registry, upstream, servers, TypeOK, ToolsHosted, ReplyCurrent,
       EvaluatorInformed, IdleUntouched, ForwardedOpen, ExecutionsAccounted

LEMMA NextPreserves == IInv /\ [Next]_vars => IInv'
BY ServePreserves, StartupPreserves, ChangePreserves, RestartPreserves,
   StutterPreserves DEF Next

----------------------------------------------------------------------------
(* Theorems *)

\* The invariant holds of every behaviour of the specification.
THEOREM Invariance == Spec => []IInv
<1>1. Init => IInv
  BY InitEstablishes
<1>2. IInv /\ [Next]_vars => IInv'
  BY NextPreserves
<1>. QED BY <1>1, <1>2, PTL DEF Spec

\* Registry, evaluator, handlers and counters keep their types.
THEOREM TypeCorrect == Spec => []TypeOK
<1>1. IInv => TypeOK
  BY DEF IInv
<1>. QED BY <1>1, Invariance, PTL

\* Upstream executes a forwarded request at most once and a refused one never,
\* and what a client is told about it is true.
THEOREM ExecutionsAreAccounted == Spec => []ExecutionsAccounted
<1>1. IInv => ExecutionsAccounted
  BY DEF IInv
<1>. QED BY <1>1, Invariance, PTL

\* Only the step that judges a call leaves "idle" as forwarded or denied.
LEMMA OnlyJudged ==
  ASSUME IInv, [Next]_vars, NEW r \in Requests, Forwarded(r) \/ Denied(r)
  PROVE  Forward(r) \/ Deny(r)
<1>. USE DEF registry, upstream, servers
<1>0. /\ TypeOK /\ call[r] = IdleCall
      /\ call'[r].pc = "forwarded" \/ call'[r].outcome = "denied"
  BY DEF IInv, TypeOK, IdleUntouched, Forwarded, Denied
<1>1. call'[r] # call[r]
  BY <1>0, NoValueAssumption DEF IdleCall, Outcomes
<1>2. CASE UNCHANGED vars
  BY <1>1, <1>2 DEF vars
<1>3. CASE Startup \/ \E u \in Urls : ServerChanges(u)
  BY <1>1, <1>3 DEF Startup, ListingAnswered, ListingFails, ServerDiscovered,
                    ServerChanges
<1>4. CASE Restart
  BY <1>0, <1>1, <1>4 DEF Restart, IdleCall
<1>5. CASE \E q \in Requests : Serve(q) \/ UpstreamExecutes(q) \/ UpstreamFails(q)
  <2>1. PICK q \in Requests : Serve(q) \/ UpstreamExecutes(q) \/ UpstreamFails(q)
    BY <1>5
  <2>2. q = r
    BY <1>0, <1>1, <2>1, ServeIsCallStep DEF CallStep, TypeOK
  <2>3. ~ TimesOut(r) /\ ~ BreaksOff(r) /\ ~ UpstreamExecutes(r) /\ ~ UpstreamFails(r)
    BY <1>0, <1>1 DEF TimesOut, BreaksOff, UpstreamExecutes, UpstreamFails, Answered, IdleCall
  <2>4. ~ Refuse(r) /\ ~ RejectUnknown(r)
    BY <1>0 DEF Refuse, RejectUnknown, Respond, TypeOK
  <2>. QED BY <2>1, <2>2, <2>3, <2>4 DEF Serve
<1>. QED BY <1>2, <1>3, <1>4, <1>5 DEF Next

\* While serving, evaluate finds the requirements the registry shows, and a
\* tool without any lets every verified token pass.
LEMMA EvaluatorKnows ==
  ASSUME IInv, NEW t \in Tools, process.phase = "serving"
  PROVE  /\ tools[t] # None => RequirementsFor(t) = tools[t].requirements
         /\ tools[t] = None => \A token \in Tokens : Allows(token, t)
<1>. USE NoValueAssumption
<1>1. requirements = Enforced(tools) /\ tools \in [Tools -> DiscoveredTool \union {None}]
  BY DEF IInv, EvaluatorInformed, TypeOK
<1>2. CASE tools[t] # None
  BY <1>1, <1>2 DEF Enforced, RequirementsFor, DiscoveredTool
<1>3. CASE tools[t] = None
  <2>1. RequirementsFor(t) = DefaultRequirement
    BY <1>1, <1>3 DEF Enforced, RequirementsFor
  <2>2. DefaultRequirement.kya = 0 /\ DefaultRequirement.reputation = 0
    BY DEF DefaultRequirement, KyaForScope, SCOPE_KYA_MAP, MCPScope,
           TOOL_INVOKE, READ, TOOL_WRITE, TOOL_FINANCIAL, DELEGATE,
           SANDBOX, ORGANIZATIONAL, AUDITABLE
  <2>. QED BY <1>3, <2>1, <2>2, TokenAssumption DEF Allows, Meets
<1>. QED BY <1>2, <1>3

\* A call was judged by the server it goes to.
THEOREM CallsAreJudgedByTheirHost == Spec => JudgedByItsHost
<1>1. ASSUME IInv, [Next]_vars PROVE HostStep
  <2>1. SUFFICES ASSUME NEW r \in Requests, Forwarded(r)
                 PROVE  LET c == call'[r] IN
                          \/ c.url \in changed
                          \/ \E q \in HostAsks(listing[c.url], c.tool) : Meets(c.token, q)
    BY DEF HostStep
  <2>2. TypeOK /\ call'[r].pc = "forwarded"
    BY <1>1, <2>1 DEF IInv, Forwarded
  <2>3. Forward(r)
    BY <1>1, <2>1, <2>2, OnlyJudged, NoValueAssumption DEF Deny, Respond, TypeOK
  <2>4. PICK t \in Tools, token \in Tokens :
          /\ Allows(token, t) /\ tools[t] # None
          /\ call' = [call EXCEPT ![r] =
               [pc |-> "forwarded", tool |-> t, token |-> token,
                url |-> UrlOf(process.env, tools[t].server), outcome |-> None]]
    BY <2>3 DEF Forward
  <2>5. /\ call'[r].tool = t /\ call'[r].token = token
        /\ call'[r].url = UrlOf(process.env, tools[t].server)
    BY <2>2, <2>4 DEF TypeOK
  <2>6. Meets(token, tools[t].requirements)
    BY <1>1, <2>3, <2>4, EvaluatorKnows DEF Forward, Handles, Allows
  <2>. QED BY <1>1, <2>4, <2>5, <2>6 DEF IInv, ToolsHosted
<1>. QED BY <1>1, Invariance, PTL DEF Spec, JudgedByItsHost

\* The KYA level and the reputation that tools/list shows of a tool are what
\* tools/call decides by, and all it decides by.
THEOREM ShownTrustRules == Spec => ShownTrustDecides
<1>1. ASSUME IInv, [Next]_vars PROVE ShownTrustStep
  <2>1. SUFFICES ASSUME NEW r \in Requests, Forwarded(r) \/ Denied(r)
                 PROVE  LET c == call'[r] IN
                          /\ tools[c.tool] # None
                          /\ Forwarded(r) <=> Meets(c.token, tools[c.tool].requirements)
    BY DEF ShownTrustStep
  <2>2. TypeOK /\ call[r].pc = "idle"
    BY <1>1, <2>1 DEF IInv, Forwarded, Denied
  <2>3. CASE Forward(r)
    <3>1. PICK t \in Tools, token \in Tokens :
            /\ Allows(token, t) /\ tools[t] # None
            /\ call'[r].tool = t /\ call'[r].token = token /\ call'[r].pc = "forwarded"
      BY <2>2, <2>3 DEF Forward, TypeOK
    <3>2. Meets(token, tools[t].requirements)
      BY <1>1, <2>3, <3>1, EvaluatorKnows DEF Forward, Handles, Allows
    <3>. QED BY <2>2, <3>1, <3>2 DEF Forwarded
  <2>4. CASE Deny(r)
    <3>1. PICK t \in Tools, token \in Tokens :
            /\ ~Allows(token, t)
            /\ call'[r].tool = t /\ call'[r].token = token /\ call'[r].pc = "closed"
      BY <2>2, <2>4 DEF Deny, Respond, TypeOK
    <3>2. tools[t] # None /\ ~Meets(token, tools[t].requirements)
      BY <1>1, <2>4, <3>1, EvaluatorKnows DEF Deny, Handles, Allows
    <3>. QED BY <2>2, <3>1, <3>2 DEF Forwarded
  <2>. QED BY <1>1, <2>1, <2>3, <2>4, OnlyJudged
<1>. QED BY <1>1, Invariance, PTL DEF Spec, ShownTrustDecides

----------------------------------------------------------------------------
(* Every step is a step of RemoteCall *)

SentNow == {r \in Requests : call[r].url # None}
ToldNow == [r \in Requests |-> call[r].outcome]

\* A step of one call that sends nothing changes what its client was told, or
\* nothing that RemoteCall sees of the handlers.
LEMMA OneIsTold ==
  ASSUME IInv, NEW r \in Requests, NEW c \in Call,
         call' = [call EXCEPT ![r] = c], c.url = call[r].url
  PROVE  /\ UNCHANGED SentNow
         /\ ToldNow' = [q \in Requests |-> IF q \in {r} THEN c.outcome ELSE ToldNow[q]]
<1>1. call \in [Requests -> Call]
  BY DEF IInv, TypeOK
<1>2. \A q \in Requests : call'[q] = IF q = r THEN c ELSE call[q]
  BY <1>1
<1>. QED BY <1>2 DEF SentNow, ToldNow

\* An answer tells the client that waits for it, or finds nobody.
LEMMA AnswerTells ==
  ASSUME IInv, NEW r \in Requests, NEW outcome \in Outcomes, Answered(r, outcome)
  PROVE  /\ UNCHANGED SentNow
         /\ UNCHANGED ToldNow \/ RC!Tell({r}, outcome)
<1>0. /\ call \in [Requests -> Call]
      /\ call[r].pc = "forwarded" => call[r].url # None /\ call[r].outcome = None
  BY DEF IInv, TypeOK, ForwardedOpen
<1>1. CASE call[r].pc # "forwarded"
  BY <1>1 DEF Answered, SentNow, ToldNow
<1>2. CASE call[r].pc = "forwarded"
  <2>. DEFINE c == [call[r] EXCEPT !.pc = "closed", !.outcome = outcome]
  <2>1. c \in Call /\ c.url = call[r].url /\ c.outcome = outcome
    BY <1>0 DEF Call
  <2>2. call' = [call EXCEPT ![r] = c]
    BY <1>0, <1>2 DEF Answered
  <2>3. /\ UNCHANGED SentNow
        /\ ToldNow' = [q \in Requests |-> IF q \in {r} THEN outcome ELSE ToldNow[q]]
    <3>. HIDE DEF c
    <3>. QED BY <2>1, <2>2, OneIsTold
  <2>. QED BY <1>0, <1>2, <2>3 DEF RC!Tell, ToldNow
<1>. QED BY <1>1, <1>2

LEMMA ServeRefines ==
  ASSUME IInv, NEW r \in Requests,
         Serve(r) \/ UpstreamExecutes(r) \/ UpstreamFails(r)
  PROVE  [RC!Next]_RC!vars
<1>. USE NoValueAssumption
<1>. DEFINE Done == {q \in Requests : executed[q] > 0}
<1>0. /\ TypeOK /\ call \in [Requests -> Call] /\ IdleUntouched
      /\ r \in inflight => r \in SentNow
      /\ executed \in [Requests -> Nat]
      /\ call[r].pc = "forwarded" => r \in SentNow
      /\ call[r].pc = "idle" => call[r] = IdleCall /\ r \notin SentNow
  BY DEF IInv, TypeOK, ForwardedOpen, IdleUntouched, IdleCall,
         ExecutionsAccounted, SentNow
<1>1. CASE Refuse(r) \/ Deny(r) \/ RejectUnknown(r)
  <2>1. PICK c \in Call :
          /\ call' = [call EXCEPT ![r] = c] /\ c.url = None
          /\ c.outcome \in {"refused", "denied", "unknown"}
    <3>1. ASSUME NEW t \in Tools \union {None}, NEW token \in Tokens \union {None},
                 NEW o \in {"refused", "denied", "unknown"},
                 Respond(r, t, token, None, o)
          PROVE  \E c \in Call : /\ call' = [call EXCEPT ![r] = c] /\ c.url = None
                                 /\ c.outcome = o
      <4>. DEFINE c == [pc |-> "closed", tool |-> t, token |-> token,
                        url |-> None, outcome |-> o]
      <4>1. c \in Call /\ c.url = None /\ c.outcome = o
        BY DEF Call, Outcomes
      <4>2. call' = [call EXCEPT ![r] = c]
        BY <3>1 DEF Respond
      <4>. QED BY <4>1, <4>2
    <3>2. CASE Refuse(r)
      BY <3>1, <3>2 DEF Refuse
    <3>3. CASE Deny(r)
      BY <3>1, <3>3 DEF Deny
    <3>4. CASE RejectUnknown(r)
      BY <3>1, <3>4 DEF RejectUnknown
    <3>. QED BY <1>1, <3>2, <3>3, <3>4
  <2>2. /\ call[r] = IdleCall /\ r \notin SentNow
        /\ UNCHANGED <<inflight, executed>>
    BY <1>0, <1>1 DEF Refuse, Deny, RejectUnknown, Handles, upstream
  <2>3. /\ UNCHANGED SentNow
        /\ ToldNow' = [q \in Requests |-> IF q \in {r} THEN c.outcome ELSE ToldNow[q]]
    <3>1. call[r].url = c.url
      BY <2>1, <2>2 DEF IdleCall
    <3>. QED BY <2>1, <3>1, OneIsTold
  <2>4. RC!Tell({r}, c.outcome)
    BY <2>2, <2>3 DEF RC!Tell, ToldNow, IdleCall
  <2>5. RC!Refuse(r)
    BY <2>1, <2>2, <2>3, <2>4 DEF RC!Refuse, SentNow
  <2>. QED BY <2>5 DEF RC!Next
<1>2. CASE Forward(r)
  <2>1. PICK t \in Tools, token \in Tokens :
          /\ tools[t] # None
          /\ call' = [call EXCEPT ![r] =
               [pc |-> "forwarded", tool |-> t, token |-> token,
                url |-> UrlOf(process.env, tools[t].server), outcome |-> None]]
    BY <1>2 DEF Forward
  <2>2. UrlOf(process.env, tools[t].server) \in Urls
    BY <1>0, <2>1, UrlOfKnown DEF IInv, ToolsHosted, TypeOK, Process
  <2>3. call[r] = IdleCall /\ r \notin SentNow
    BY <1>0, <1>2 DEF Forward, Handles
  <2>4. /\ SentNow' = SentNow \union {r} /\ UNCHANGED ToldNow
        /\ inflight' = inflight \union {r} /\ UNCHANGED executed
    BY <1>0, <1>2, <2>1, <2>2, <2>3 DEF Forward, SentNow, ToldNow, IdleCall
  <2>5. RC!Send(r)
    BY <2>3, <2>4 DEF RC!Send, SentNow, ToldNow, IdleCall
  <2>. QED BY <2>5 DEF RC!Next
<1>3. CASE TimesOut(r) \/ BreaksOff(r)
  <2>1. /\ r \in SentNow /\ call[r].outcome = None
        /\ UNCHANGED <<inflight, executed>>
        /\ Answered(r, "timeout") \/ Answered(r, "error")
    BY <1>0, <1>3 DEF TimesOut, BreaksOff, upstream, IInv, ForwardedOpen
  <2>2. /\ UNCHANGED SentNow
        /\ UNCHANGED ToldNow \/ RC!Tell({r}, "timeout") \/ RC!Tell({r}, "error")
    BY <2>1, AnswerTells DEF Outcomes
  <2>3. RC!GiveUp({r}) \/ UNCHANGED RC!vars
    BY <2>1, <2>2 DEF RC!GiveUp, RC!vars, SentNow, ToldNow
  <2>. QED BY <2>3 DEF RC!Next
<1>4. CASE UpstreamExecutes(r)
  <2>1. /\ r \in inflight /\ inflight' = inflight \ {r}
        /\ \/ Answered(r, "result") \/ Answered(r, "error")
           \/ UNCHANGED call
    BY <1>4 DEF UpstreamExecutes
  <2>2. Done' = Done \union {r}
    BY <1>0, <1>4 DEF UpstreamExecutes
  <2>3. /\ UNCHANGED SentNow
        /\ \/ UNCHANGED ToldNow
           \/ RC!Tell({r}, "result") \/ RC!Tell({r}, "error")
    BY <2>1, AnswerTells DEF Outcomes, SentNow, ToldNow
  <2>4. RC!Execute(r)
    BY <2>1, <2>2, <2>3 DEF RC!Execute, SentNow, ToldNow
  <2>. QED BY <2>4 DEF RC!Next
<1>5. CASE UpstreamFails(r)
  <2>1. /\ r \in inflight /\ inflight' = inflight \ {r} /\ UNCHANGED executed
        /\ Answered(r, "error") \/ UNCHANGED call
    BY <1>5 DEF UpstreamFails
  <2>3. /\ UNCHANGED SentNow
        /\ UNCHANGED ToldNow \/ RC!Tell({r}, "error")
    BY <2>1, AnswerTells DEF Outcomes, SentNow, ToldNow
  <2>4. RC!Lose(r)
    BY <2>1, <2>3 DEF RC!Lose, SentNow, ToldNow
  <2>. QED BY <2>4 DEF RC!Next
<1>. QED BY <1>1, <1>2, <1>3, <1>4, <1>5 DEF Serve

\* A restart gives up on every call that waited.
LEMMA RestartRefines ==
  ASSUME IInv, Restart
  PROVE  [RC!Next]_RC!vars
<1>. DEFINE S == {r \in Requests : call[r].pc = "forwarded"}
<1>0. /\ call \in [Requests -> Call] /\ UNCHANGED <<inflight, executed>>
      /\ \A r \in S : call[r].url # None /\ call[r].outcome = None
  BY DEF IInv, TypeOK, ForwardedOpen, Restart, upstream
<1>1. \A r \in Requests : /\ call'[r].url = call[r].url
                          /\ call'[r].outcome = IF r \in S THEN "dropped"
                                                ELSE call[r].outcome
  BY <1>0 DEF Restart, Call
<1>2. UNCHANGED SentNow /\ RC!Tell(S, "dropped")
  BY <1>0, <1>1 DEF SentNow, RC!Tell
<1>3. RC!GiveUp(S)
  BY <1>0, <1>2 DEF RC!GiveUp, SentNow
<1>. QED BY <1>3 DEF RC!Next

\* The gateway implements RemoteCall: a tools/call is sent once at most, executed
\* once or lost, before or after its client is told of an error or a timeout; and
\* its client is told one thing, a result only of what was executed.
THEOREM CallsAreRemoteCalls == Spec => ImplementsRemoteCall
<1>1. Init => RC!Init
  BY NoValueAssumption DEF Init, RC!Init, IdleCall
<1>2. ASSUME IInv, [Next]_vars PROVE [RC!Next]_RC!vars
  <2>1. CASE \E r \in Requests : Serve(r) \/ UpstreamExecutes(r) \/ UpstreamFails(r)
    BY <1>2, <2>1, ServeRefines
  <2>2. CASE Restart
    BY <1>2, <2>2, RestartRefines
  <2>3. CASE Startup \/ (\E u \in Urls : ServerChanges(u)) \/ UNCHANGED vars
    <3>1. UNCHANGED <<call, inflight, executed>>
      BY <2>3 DEF Startup, ListingAnswered, ListingFails, ServerDiscovered,
                  ServerChanges, upstream, vars
    <3>. QED BY <3>1 DEF RC!vars
  <2>. QED BY <1>2, <2>1, <2>2, <2>3 DEF Next
<1>. QED BY <1>1, <1>2, Invariance, PTL DEF Spec, ImplementsRemoteCall, RC!Spec
============================================================================
