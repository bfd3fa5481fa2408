---------------------------- MODULE ToolGateway ----------------------------
(***************************************************************************)
(* Tools behind the gateway: server.py finds out at startup which tools    *)
(* the upstream MCP servers have (discovery/registry.py, proxy.py),        *)
(* registers their trust requirements with the evaluator                   *)
(* (trust/evaluator.py), and then judges and forwards tools/call.          *)
(*                                                                         *)
(* Discovery awaits one server after the other and the gateway serves      *)
(* nothing before it ends.  A tools/call awaits the upstream server; what  *)
(* mcp_endpoint does before that is one step, as evaluate does not suspend *)
(* when it is handed a reputation.  After that await the handler only      *)
(* passes the answer on, so the answer's arrival and the resumption are    *)
(* one step.                                                               *)
(***************************************************************************)
EXTENDS ScopeMapper, Sequences

CONSTANTS
  Ids, Urls,      \* of upstream servers
  Tools,          \* tool names
  Requests,       \* tools/call requests, each handled once
  Environments,   \* MCP_UPSTREAM_SERVERS: sequences of [id, url]
  Listings,       \* answers to tools/list: sequences of [name, trust], where
                  \* trust is None without an annotation, Malformed if reading
                  \* the entry raises
  Tokens,         \* claims of verified tokens: [kya, trust, limit, scopes]
  MaxRestarts,    \* bound on the number of restarts
  Blank,          \* an empty or missing id, url or tool name
  None, Malformed, Failure

VARIABLES
  process,        \* where startup is, and the environment it started with
  tools,          \* ToolRegistry.tools
  requirements,   \* TrustEvaluator.tool_requirements
  call,           \* the tools/call handlers
  inflight,       \* forwarded requests an upstream server has yet to handle
  listing,        \* what each server would answer to tools/list (external)
  changed,        \* servers that changed it since this process started (history)
  executed,       \* how often each request was executed upstream (history)
  restarts

registry == <<tools, requirements>>
upstream == <<inflight, executed>>
servers  == <<listing, changed>>
vars == <<process, registry, call, upstream, servers, restarts>>

----------------------------------------------------------------------------
Requirement == [kya : Nat, reputation : Nat, scope : Scopes, economic : BOOLEAN]

\* default_requirements_for_scope(TOOL_INVOKE)
DefaultRequirement ==
  [kya |-> KyaForScope(TOOL_INVOKE), reputation |-> 0, scope |-> TOOL_INVOKE,
   economic |-> FALSE]

DiscoveredTool == [server : Ids, requirements : Requirement]

Entry == [name : Tools \union {Blank}, trust : Requirement \union {None, Malformed}]

Process == [phase : {"discovering", "serving"}, env : Environments,
            todo : SUBSET Ids, current : Ids \union {None},
            reply : Listings \union {None, Failure}]

Outcomes == {"denied", "unknown", "refused", "result", "error", "timeout", "dropped"}
Call == [pc : {"idle", "forwarded", "closed"}, tool : Tools \union {None},
         token : Tokens \union {None}, url : Urls \union {None},
         outcome : Outcomes \union {None}]
IdleCall == [pc |-> "idle", tool |-> None, token |-> None, url |-> None,
             outcome |-> None]

ASSUME EnvironmentAssumption ==
  \A env \in Environments :
    env \in Seq([id : Ids \union {Blank}, url : Urls \union {Blank}])
ASSUME ListingAssumption == Listings \subseteq Seq(Entry)
ASSUME TokenAssumption ==
  Tokens \subseteq [kya : Nat, trust : Nat, limit : Nat, scopes : SUBSET Scopes]
ASSUME NoValueAssumption ==
  /\ None \notin Listings /\ Failure \notin Listings /\ None # Failure
  /\ None # Malformed /\ None \notin Requirement /\ Malformed \notin Requirement
  /\ None \notin DiscoveredTool /\ None \notin Ids /\ None \notin Urls
  /\ None \notin Outcomes /\ None \notin Tools /\ None \notin Tokens
  /\ Blank \notin Ids \union Urls \union Tools /\ Blank # None
  /\ MaxRestarts \in Nat

----------------------------------------------------------------------------
(* The registry *)

\* _load_from_env: the entries that name a server; a dictionary keeps the place
\* of a server's first entry and the url of its last.
Entries(env, id) ==
  {i \in DOMAIN env : env[i].id = id /\ id # Blank /\ env[i].url # Blank}
ServerIds(env) == {id \in Ids : Entries(env, id) # {}}
UrlOf(env, id) ==
  LET last == CHOOSE i \in Entries(env, id) : \A j \in Entries(env, id) : j <= i
  IN  env[last].url
Foremost(env, ids) ==
  CHOOSE id \in ids : \E i \in Entries(env, id) :
    \A other \in ids : \A j \in Entries(env, other) : i <= j

\* register_tools_from_mcp_list: entries without a name are passed over, and
\* one that cannot be read ends the list where it stands.
Readable(list) ==
  {i \in DOMAIN list : /\ list[i].name # Blank
                       /\ \A j \in 1..i : list[j].name # Blank =>
                                            list[j].trust # Malformed}
\* (Mutant: a tool without an annotation has no requirements.)
RequirementOf_NoDefault(entry) == entry.trust
RequirementOf(entry) ==
  IF entry.trust = None THEN DefaultRequirement ELSE entry.trust

Listed(list, t) == {i \in Readable(list) : list[i].name = t}

\* A tool belongs to the server that listed it last, with the requirements of
\* its last entry.
LastListed(list, t) ==
  list[CHOOSE i \in Listed(list, t) : \A j \in Listed(list, t) : j <= i]

\* (Mutant: a name that is already taken keeps its requirements.)
Registered_KeepsRequirements(id, list) ==
  [t \in Tools |->
     IF Listed(list, t) = {} THEN tools[t]
     ELSE [server |-> id,
           requirements |-> IF tools[t] # None THEN tools[t].requirements
                            ELSE RequirementOf(LastListed(list, t))]]
Registered(id, list) ==
  [t \in Tools |->
     IF Listed(list, t) = {} THEN tools[t]
     ELSE [server |-> id, requirements |-> RequirementOf(LastListed(list, t))]]

\* lifespan hands the evaluator every tool of the registry.
Enforced(registered) ==
  [t \in Tools |-> IF registered[t] = None THEN None
                   ELSE registered[t].requirements]

NoTools == [t \in Tools |-> None]

\* The loop of discover_all_upstream_tools: await the next server, or serve.
Discovery(env, todo) ==
  IF todo = {}
  THEN [phase |-> "serving", env |-> env, todo |-> {}, current |-> None,
        reply |-> None]
  ELSE [phase |-> "discovering", env |-> env,
        todo |-> todo \ {Foremost(env, todo)},
        current |-> Foremost(env, todo), reply |-> None]

----------------------------------------------------------------------------
\* create_app and the start of lifespan.
Init ==
  /\ \E env \in Environments : process = Discovery(env, ServerIds(env))
  /\ tools = NoTools
  /\ requirements = NoTools
  /\ call = [r \in Requests |-> IdleCall]
  /\ inflight = {}
  /\ listing \in [Urls -> Listings]
  /\ changed = {}
  /\ executed = [r \in Requests |-> 0]
  /\ restarts = 0

\* The server answers proxy_tools_list, or there is no usable answer.
AwaitsListing == process.phase = "discovering" /\ process.reply = None

ListingAnswered ==
  /\ AwaitsListing
  /\ process' = [process EXCEPT
                   !.reply = listing[UrlOf(process.env, process.current)]]
  /\ UNCHANGED <<registry, call, upstream, servers, restarts>>

ListingFails ==
  /\ AwaitsListing
  /\ process' = [process EXCEPT !.reply = Failure]
  /\ UNCHANGED <<registry, call, upstream, servers, restarts>>

\* (Mutant: the evaluator gets the requirements before the last list is in.)
ServerDiscovered_EnforcesFirst ==
  /\ process.phase = "discovering"
  /\ process.reply # None
  /\ tools' = IF process.reply = Failure THEN tools
              ELSE Registered(process.current, process.reply)
  /\ process' = Discovery(process.env, process.todo)
  /\ requirements' = IF process.todo = {} THEN Enforced(tools) ELSE requirements
  /\ UNCHANGED <<call, upstream, servers, restarts>>

\* (Mutant: a server that did not answer is asked again.)
ServerDiscovered_Retries ==
  /\ process.phase = "discovering"
  /\ process.reply # None
  /\ tools' = IF process.reply = Failure THEN tools
              ELSE Registered(process.current, process.reply)
  /\ process' = IF process.reply = Failure THEN [process EXCEPT !.reply = None]
                ELSE Discovery(process.env, process.todo)
  /\ requirements' = IF process'.phase = "serving" THEN Enforced(tools')
                     ELSE requirements
  /\ UNCHANGED <<call, upstream, servers, restarts>>

\* proxy_tools_list resumes, and the loop goes on to its next await; after the
\* last server the evaluator gets the requirements before anything is served.
ServerDiscovered ==
  /\ process.phase = "discovering"
  /\ process.reply # None
  /\ tools' = IF process.reply = Failure THEN tools
              ELSE Registered(process.current, process.reply)
  /\ process' = Discovery(process.env, process.todo)
  /\ requirements' = IF process.todo = {} THEN Enforced(tools') ELSE requirements
  /\ UNCHANGED <<call, upstream, servers, restarts>>

----------------------------------------------------------------------------
(* tools/call *)

Meets(token, q) == token.kya >= q.kya /\ token.trust >= q.reputation

\* get_requirements and the verdict of evaluate: no spending or counterparty
\* argument is passed, and nothing compares the token's scopes with the tool's.
RequirementsFor(t) ==
  IF requirements[t] = None THEN DefaultRequirement ELSE requirements[t]
Allows(token, t) == Meets(token, RequirementsFor(t))

Handles(r) == process.phase = "serving" /\ call[r].pc = "idle"

Respond(r, t, token, url, outcome) ==
  call' = [call EXCEPT ![r] = [pc |-> "closed", tool |-> t, token |-> token,
                               url |-> url, outcome |-> outcome]]

\* No or no valid token, no tool name, another method.
Refuse(r) ==
  /\ Handles(r)
  /\ Respond(r, None, None, None, "refused")
  /\ UNCHANGED <<process, registry, upstream, servers, restarts>>

Deny(r) ==
  /\ Handles(r)
  /\ \E t \in Tools, token \in Tokens :
       /\ ~Allows(token, t)
       /\ Respond(r, t, token, None, "denied")
  /\ UNCHANGED <<process, registry, upstream, servers, restarts>>

\* An unknown tool passes the evaluation and fails in proxy_tool_call.
RejectUnknown(r) ==
  /\ Handles(r)
  /\ \E t \in Tools, token \in Tokens :
       /\ Allows(token, t)
       /\ tools[t] = None
       /\ Respond(r, t, token, None, "unknown")
  /\ UNCHANGED <<process, registry, upstream, servers, restarts>>

Forward(r) ==
  /\ Handles(r)
  /\ \E t \in Tools, token \in Tokens :
       /\ Allows(token, t)
       /\ tools[t] # None
       /\ call' = [call EXCEPT ![r] =
            [pc |-> "forwarded", tool |-> t, token |-> token,
             url |-> UrlOf(process.env, tools[t].server), outcome |-> None]]
  /\ inflight' = inflight \union {r}
  /\ UNCHANGED <<process, registry, executed, servers, restarts>>

\* The proxied call ends with an answer: the handler passes it on, if it is
\* still there.
Answered(r, outcome) ==
  IF call[r].pc = "forwarded"
  THEN call' = [call EXCEPT ![r].pc = "closed", ![r].outcome = outcome]
  ELSE UNCHANGED call

\* The upstream server executes the request, perhaps after the gateway gave up
\* on it, and answers, with a status other than 200 or not at all.
UpstreamExecutes(r) ==
  /\ r \in inflight
  /\ inflight' = inflight \ {r}
  /\ executed' = [executed EXCEPT ![r] = @ + 1]
  /\ \/ \E outcome \in {"result", "error"} : Answered(r, outcome)
     \/ UNCHANGED call
  /\ UNCHANGED <<process, registry, servers, restarts>>

\* The request is lost or refused.
UpstreamFails(r) ==
  /\ r \in inflight
  /\ inflight' = inflight \ {r}
  /\ Answered(r, "error") \/ UNCHANGED call
  /\ UNCHANGED <<process, registry, executed, servers, restarts>>

\* (Mutant: a handler whose call timed out goes on waiting, and may be told twice.)
TimesOut_StaysOpen(r) ==
  /\ call[r].pc = "forwarded"
  /\ call' = [call EXCEPT ![r].outcome = "timeout"]
  /\ UNCHANGED <<process, registry, upstream, servers, restarts>>

\* (Mutant: a call that timed out is sent again.)
TimesOut_Retries(r) ==
  /\ call[r].pc = "forwarded"
  /\ \/ inflight' = inflight \union {r} /\ UNCHANGED call
     \/ Answered(r, "timeout") /\ UNCHANGED inflight
  /\ UNCHANGED <<process, registry, executed, servers, restarts>>

\* The HTTP client's timeout; the request may still be under way.
TimesOut(r) ==
  /\ call[r].pc = "forwarded"
  /\ Answered(r, "timeout")
  /\ UNCHANGED <<process, registry, upstream, servers, restarts>>

\* The connection breaks, or an intermediary answers 502 or 504 in the server's
\* place; here too the request may still be under way.
BreaksOff(r) ==
  /\ call[r].pc = "forwarded"
  /\ Answered(r, "error")
  /\ UNCHANGED <<process, registry, upstream, servers, restarts>>

----------------------------------------------------------------------------
(* The environment *)

\* The process dies with its handlers and a new one starts, perhaps with
\* another list of servers.
Restart ==
  /\ restarts < MaxRestarts
  /\ restarts' = restarts + 1
  /\ \E env \in Environments : process' = Discovery(env, ServerIds(env))
  /\ tools' = NoTools
  /\ requirements' = NoTools
  /\ call' = [r \in Requests |->
                IF call[r].pc = "forwarded"
                THEN [call[r] EXCEPT !.pc = "closed", !.outcome = "dropped"]
                ELSE call[r]]
  /\ changed' = {}
  /\ UNCHANGED <<upstream, listing>>

\* A server gets other tools or asks other trust of their callers.
ServerChanges(u) ==
  /\ \E list \in Listings \ {listing[u]} :
       listing' = [listing EXCEPT ![u] = list]
  /\ changed' = changed \union {u}
  /\ UNCHANGED <<process, registry, call, upstream, restarts>>

----------------------------------------------------------------------------
Startup == ListingAnswered \/ ListingFails \/ ServerDiscovered

Serve(r) ==
  \/ Refuse(r) \/ Deny(r) \/ RejectUnknown(r) \/ Forward(r)
  \/ TimesOut(r) \/ BreaksOff(r)

Next ==
  \/ Startup
  \/ \E r \in Requests : Serve(r) \/ UpstreamExecutes(r) \/ UpstreamFails(r)
  \/ \E u \in Urls : ServerChanges(u)
  \/ Restart

Spec == Init /\ [][Next]_vars

\* Listing a server's tools ends (httpx gives every read ten seconds; an answer
\* that trickles in for ever is left out), the coroutine it resumes gets its turn,
\* and so does a call that is out of time.
Fairness ==
  /\ WF_vars(ListingAnswered \/ ListingFails)
  /\ WF_vars(ServerDiscovered)
  /\ \A r \in Requests : WF_vars(TimesOut(r))
FairSpec == Spec /\ Fairness

----------------------------------------------------------------------------
(* Properties *)

\* Every variable holds what the code's types let it hold.
TypeOK ==
  /\ process \in Process
  /\ tools \in [Tools -> DiscoveredTool \union {None}]
  /\ requirements \in [Tools -> Requirement \union {None}]
  /\ call \in [Requests -> Call]
  /\ inflight \subseteq Requests
  /\ listing \in [Urls -> Listings]
  /\ changed \subseteq Urls
  /\ executed \in [Requests -> Nat]
  /\ restarts \in 0..MaxRestarts

Forwarded(r) == call[r].pc = "idle" /\ call'[r].pc = "forwarded"
Denied(r)    == call[r].pc = "idle" /\ call'[r].outcome = "denied"

\* A forwarded call met the KYA level and the reputation that the very server it
\* goes to asks for that tool, not those of another server with a tool of that name,
\* unless the server changed its list since this process started: requirements are
\* read once, by discover_all_upstream_tools.
HostAsks(list, t) == {RequirementOf(list[i]) : i \in Listed(list, t)}
HostStep ==
  \A r \in Requests : Forwarded(r) => LET c == call'[r] IN
    \/ c.url \in changed
    \/ \E q \in HostAsks(listing[c.url], c.tool) : Meets(c.token, q)
JudgedByItsHost == [][HostStep]_vars

\* tools/list and /.well-known/mcp-tools show the registry, evaluate enforces
\* the evaluator's own table: the KYA level and the reputation that are shown of a
\* tool decide, and they alone, however startup went.  A token that meets them is
\* never denied, one that does not is never forwarded; the required_scope and the
\* economic_impact that tools/list shows beside them keep nobody out.
ShownTrustStep ==
  \A r \in Requests : LET c == call'[r] IN
    Forwarded(r) \/ Denied(r) =>
      /\ tools[c.tool] # None
      /\ Forwarded(r) <=> Meets(c.token, tools[c.tool].requirements)
ShownTrustDecides == [][ShownTrustStep]_vars

\* Upstream executes a request at most once, and only one that was judged and
\* forwarded, however calls, timeouts, errors and restarts fall; a client told the result
\* was executed, one told of an error or a timeout may have been, even later.
ExecutionsAccounted ==
  \A r \in Requests : LET c == call[r] IN
    /\ executed[r] <= 1
    /\ executed[r] = 1 \/ r \in inflight => c.url # None
    /\ executed[r] = 1 => r \notin inflight
    /\ c.outcome = "result" => executed[r] = 1
    /\ c.outcome \in {"denied", "unknown", "refused"} => c.url = None

\* Discovery, verdicts, timeouts and restarts add up to RemoteCall: a request is
\* sent once at most, also one whose call timed out, broke off or was dropped by a
\* restart, and its client is told one thing, a result only of what was executed;
\* what it was told of as an error or a timeout may still be executed later.
RC == INSTANCE RemoteCall WITH
        Nothing <- None,
        sent <- {r \in Requests : call[r].url # None},
        pending <- inflight,
        executed <- {r \in Requests : executed[r] > 0},
        told <- [r \in Requests |-> call[r].outcome]
ImplementsRemoteCall == RC!Spec

\* src/SPEC.md, section 6.1: a tool with economic impact is called only within the
\* token's spending limits.
SpendingStep ==
  \A r \in Requests : Forwarded(r) => LET c == call'[r] IN
    tools[c.tool].requirements.economic => c.token.limit > 0
SpendingChecked == [][SpendingStep]_vars

\* Startup ends, whatever the upstream servers do.
StartupFinishes == process.phase = "discovering" ~> process.phase = "serving"

\* No client waits for ever, whatever its upstream server does.
EveryCallAnswered ==
  \A r \in Requests : call[r].pc = "forwarded" ~> call[r].pc = "closed"

----------------------------------------------------------------------------
(* Why the step properties hold: what the registry says of a tool is what its *)
(* server listed or what it lists no more, and the evaluator knows it all.    *)

ToolsHosted ==
  \A t \in Tools : tools[t] # None =>
    /\ tools[t].server \in ServerIds(process.env)
    /\ LET u == UrlOf(process.env, tools[t].server) IN
         u \in changed \/ tools[t].requirements \in HostAsks(listing[u], t)

ReplyCurrent ==
  process.phase = "discovering" =>
    /\ process.current \in ServerIds(process.env)
    /\ process.todo \subseteq ServerIds(process.env)
    /\ process.reply \in Listings =>
         LET u == UrlOf(process.env, process.current)
         IN  u \in changed \/ process.reply = listing[u]

EvaluatorInformed ==
  process.phase = "serving" => requirements = Enforced(tools)

IdleUntouched ==
  \A r \in Requests : call[r].pc = "idle" => call[r] = IdleCall

ForwardedOpen ==
  \A r \in Requests : call[r].pc = "forwarded" =>
    call[r].url # None /\ call[r].outcome = None

IInv ==
  /\ TypeOK /\ ToolsHosted /\ ReplyCurrent /\ EvaluatorInformed
  /\ IdleUntouched /\ ForwardedOpen /\ ExecutionsAccounted
============================================================================
