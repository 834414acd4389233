------------------------------ MODULE HttpClient ------------------------------
(***************************************************************************)
(* The HTTP client that all calls to the LLM share (get_http_client and    *)
(* close_http_client of backend/llm_service.py), used by threads that may  *)
(* call at once and closed when the server shuts down.                     *)
(*                                                                         *)
(* Clients are numbered as they are made; 0 stands for None.  What a       *)
(* thread does under _client_lock touches _client only, and so does every  *)
(* other holder of the lock, so it is one step.  httpx itself is taken at  *)
(* its word: a client has MaxConnections connections, a call that finds    *)
(* none free waits for one or times out, and a closed client refuses.      *)
(***************************************************************************)
EXTENDS Integers, FiniteSets

CONSTANTS
  Callers,         \* whoever calls the LLM
  MaxConnections   \* settings.llm_max_connections

VARIABLES
  client,   \* _client
  made,     \* how many clients were made
  closed,   \* those that were closed
  http,     \* where each caller's call stands
  handle    \* the client get_http_client has returned to it

clientVars == <<client, made, closed, http, handle>>

None == 0

Init ==
  /\ client = None /\ made = 0 /\ closed = {}
  /\ http = [c \in Callers |-> "idle"]
  /\ handle = [c \in Callers |-> None]

At(c, place) == http[c] = place
GoTo(c, place) == http' = [http EXCEPT ![c] = place]
Done(c, outcome) == GoTo(c, outcome) /\ handle' = [handle EXCEPT ![c] = None]

\* A call begins, as part of what its caller does.
Begin(c) == GoTo(c, "check")

\* The first look at _client, without the lock.
Check(c) ==
  /\ At(c, "check")
  /\ GoTo(c, IF client = None THEN "create" ELSE "return")
  /\ UNCHANGED <<client, made, closed, handle>>

\* A slip: what was seen before the lock was taken is believed.
CreateUnchecked(c) ==
  /\ At(c, "create")
  /\ made' = made + 1
  /\ client' = made'
  /\ GoTo(c, "return")
  /\ UNCHANGED <<closed, handle>>

\* The second look, under the lock: another thread may have made the client.
Create(c) ==
  /\ At(c, "create")
  /\ IF client = None THEN made' = made + 1 /\ client' = made'
                      ELSE UNCHANGED <<made, client>>
  /\ GoTo(c, "return")
  /\ UNCHANGED <<closed, handle>>

\* What is returned is what _client holds by now.  That may be None again, which
\* has no post: the call fails.
Return(c) ==
  /\ At(c, "return")
  /\ handle' = [handle EXCEPT ![c] = client]
  /\ GoTo(c, IF client = None THEN "error" ELSE "post")
  /\ UNCHANGED <<client, made, closed>>

\* The calls that hold a connection of client k.
Connected(k) == {c \in Callers : At(c, "sent") /\ handle[c] = k}

\* A closed client refuses, one without a free connection makes the call wait.
Post(c) ==
  /\ At(c, "post")
  /\ \/ handle[c] \in closed /\ Done(c, "error")
     \/ /\ handle[c] \notin closed
        /\ Cardinality(Connected(handle[c])) < MaxConnections
        /\ GoTo(c, "sent") /\ UNCHANGED handle
  /\ UNCHANGED <<client, made, closed>>

\* The wait is over before a connection was free.
PoolTimeout(c) ==
  /\ At(c, "post")
  /\ Cardinality(Connected(handle[c])) >= MaxConnections
  /\ Done(c, "error")
  /\ UNCHANGED <<client, made, closed>>

\* The endpoint answers with a program, or in any other way: an error status, a
\* reply without one, a timeout, a connection closed with its client.
Reply(c) ==
  /\ At(c, "sent")
  /\ \E outcome \in {"ok", "error"} : Done(c, outcome)
  /\ UNCHANGED <<client, made, closed>>

Call(c) == Check(c) \/ Create(c) \/ Return(c) \/ Post(c) \/ PoolTimeout(c) \/ Reply(c)

\* close_http_client
Close ==
  /\ IF client = None THEN UNCHANGED <<client, closed>>
     ELSE closed' = closed \cup {client} /\ client' = None
  /\ UNCHANGED <<made, http, handle>>

-----------------------------------------------------------------------------
TypeOK ==
  /\ made \in Nat /\ client \in 0 .. made /\ closed \subseteq 1 .. made
  /\ client \notin closed
  /\ http \in [Callers -> {"idle", "check", "create", "return", "post", "sent", "ok", "error"}]
  /\ handle \in [Callers -> 0 .. made]

\* No client is forgotten: all that were made but the shared one are closed.
OneOpenClient == 1 .. made \subseteq closed \cup {client}

\* However many threads call at once, no more connections are open than one
\* client may have.
ConnectionsBounded ==
  Cardinality({c \in Callers : At(c, "sent") /\ handle[c] \notin closed}) <= MaxConnections
=============================================================================
