----------------------------- MODULE RemoteCall -----------------------------
(***************************************************************************)
(* What a tools/call through the gateway promises, with no word of tools,  *)
(* registries, tokens or startup: a request is refused and never sent, or  *)
(* sent once; what was sent is executed once or lost, whether its client   *)
(* still waits or not; and every client is told one thing, a result only   *)
(* of what was executed, and an error or a timeout of what may yet be.     *)
(***************************************************************************)
CONSTANTS Requests, Nothing

VARIABLES
  sent,      \* requests that left for their upstream server
  pending,   \* those it has yet to handle
  executed,  \* those it executed
  told       \* what the client was told, Nothing so far

vars == <<sent, pending, executed, told>>

Init == /\ sent = {} /\ pending = {} /\ executed = {}
        /\ told = [r \in Requests |-> Nothing]

\* The clients in S are told the outcome.
Tell(S, outcome) ==
  /\ \A r \in S : told[r] = Nothing
  /\ told' = [r \in Requests |-> IF r \in S THEN outcome ELSE told[r]]

Refuse(r) ==
  /\ r \notin sent
  /\ \E outcome \in {"refused", "denied", "unknown"} : Tell({r}, outcome)
  /\ UNCHANGED <<sent, pending, executed>>

Send(r) ==
  /\ r \notin sent /\ told[r] = Nothing
  /\ sent' = sent \union {r}
  /\ pending' = pending \union {r}
  /\ UNCHANGED <<executed, told>>

\* Executed requests are answered, or their clients have gone.
Execute(r) ==
  /\ r \in pending
  /\ pending' = pending \ {r}
  /\ executed' = executed \union {r}
  /\ UNCHANGED told \/ \E outcome \in {"result", "error"} : Tell({r}, outcome)
  /\ UNCHANGED sent

Lose(r) ==
  /\ r \in pending
  /\ pending' = pending \ {r}
  /\ UNCHANGED told \/ Tell({r}, "error")
  /\ UNCHANGED <<sent, executed>>

\* Clients are given up on; what they sent may still be executed.
GiveUp(S) ==
  /\ S \subseteq sent
  /\ \E outcome \in {"timeout", "error", "dropped"} : Tell(S, outcome)
  /\ UNCHANGED <<sent, pending, executed>>

Next ==
  \/ \E r \in Requests : Refuse(r) \/ Send(r) \/ Execute(r) \/ Lose(r)
  \/ \E S \in SUBSET Requests : GiveUp(S)

Spec == Init /\ [][Next]_vars
=============================================================================
