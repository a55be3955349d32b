----------------------------- MODULE CapServer ------------------------------
(***************************************************************************)
(* The running server: requests of several callers, each a task of one     *)
(* asyncio loop, pass the dispatcher and an adapter, share one upstream    *)
(* client with its connection pool, and are answered; around them the      *)
(* process starts, drains and stops.  One action is what a task does       *)
(* between two awaits.                                                     *)
(***************************************************************************)
EXTENDS UpstreamErrors, ConnectionPool

CONSTANTS Workload,     \* the requests callers may send
          GatewayKeys,  \* the values CAP_GATEWAY_API_KEY may have (NoToken: unset)
          NoRequest

ASSUME WorkloadAssumption == Workload \subseteq Requests /\ NoRequest \notin Workload
ASSUME GatewayKeysAssumption == GatewayKeys \subseteq Tokens \cup {NoToken}

VARIABLES lifecycle,   \* of the process: "stopped", "serving" or "draining"
          clientOpen,  \* AbelGatewayClient's AsyncClient has not been closed
          gatewayKey,  \* _gateway_api_key, fixed when the client is built
          phase,       \* where each caller's request stands
          request,     \* the request itself
          credential,  \* the bearer token its upstream call carries
          exchanges,   \* how many calls were put on a connection for it
          wire,        \* what the upstream sent back and nobody has read yet
          ending,      \* how its call ended
          reply        \* what the caller was told

serverVars == <<lifecycle, clientOpen, gatewayKey>>
callVars   == <<credential, exchanges, wire, ending>>
vars == <<serverVars, phase, request, callVars, reply, poolVars>>

Phases ==
    {"idle",       \* no request
     "received",   \* with the dispatcher, nothing checked yet
     "pooling",    \* its client call waits for a connection
     "sent",       \* its call is with the upstream
     "returning",  \* the client call is over, the adapter resumes
     "replied"}    \* answered

TypeOK ==
    /\ lifecycle \in {"stopped", "serving", "draining"}
    /\ clientOpen \in BOOLEAN
    /\ gatewayKey \in Tokens \cup {NoToken}
    /\ phase \in [Callers -> Phases]
    /\ request \in [Callers -> Workload \cup {NoRequest}]
    /\ credential \in [Callers -> Tokens \cup {NoToken}]
    /\ exchanges \in [Callers -> Nat]
    /\ wire \in [Callers -> UpstreamEndings \cup {NoEnding}]
    /\ ending \in [Callers -> Endings \cup {NoEnding}]
    /\ reply \in [Callers -> Replies \cup {NoReply}]
    /\ PoolTypeOK

Init ==
    /\ lifecycle = "stopped"
    /\ clientOpen = FALSE
    /\ gatewayKey = NoToken
    /\ phase = [c \in Callers |-> "idle"]
    /\ request = [c \in Callers |-> NoRequest]
    /\ credential = [c \in Callers |-> NoToken]
    /\ exchanges = [c \in Callers |-> 0]
    /\ wire = [c \in Callers |-> NoEnding]
    /\ ending = [c \in Callers |-> NoEnding]
    /\ reply = [c \in Callers |-> NoReply]
    /\ PoolInit

Busy == {c \in Callers : phase[c] \notin {"idle", "replied"}}

(***************************************************************************)
(* The process.  create_app builds the client, the lifespan closes it;     *)
(* uvicorn stops accepting, lets running requests finish, and only then    *)
(* ends the lifespan.                                                      *)
(***************************************************************************)
Start(key) ==
    /\ lifecycle = "stopped"
    /\ lifecycle' = "serving"
    /\ clientOpen' = TRUE
    /\ gatewayKey' = key
    /\ UNCHANGED <<phase, request, callVars, reply, poolVars>>

BeginShutdown ==
    /\ lifecycle = "serving"
    /\ lifecycle' = "draining"
    /\ UNCHANGED <<clientOpen, gatewayKey, phase, request, callVars, reply, poolVars>>

\* Variant: the client closed without waiting for the running requests.
CloseClientAtOnce ==
    /\ lifecycle = "draining"
    /\ lifecycle' = "stopped"
    /\ clientOpen' = FALSE
    /\ UNCHANGED <<gatewayKey, phase, request, callVars, reply, poolVars>>

CloseClient ==
    /\ lifecycle = "draining"
    /\ Busy = {}
    /\ lifecycle' = "stopped"
    /\ clientOpen' = FALSE
    /\ UNCHANGED <<gatewayKey, phase, request, callVars, reply, poolVars>>

(***************************************************************************)
(* The tasks.                                                              *)
(***************************************************************************)
\* Variant: what is left of the caller's previous call is not cleared.
ReceiveKeepsEnding(c, q) ==
    /\ lifecycle = "serving"
    /\ c \notin Busy
    /\ phase' = [phase EXCEPT ![c] = "received"]
    /\ request' = [request EXCEPT ![c] = q]
    /\ credential' = [credential EXCEPT ![c] = NoToken]
    /\ exchanges' = [exchanges EXCEPT ![c] = 0]
    /\ reply' = [reply EXCEPT ![c] = NoReply]
    /\ UNCHANGED <<serverVars, wire, ending, poolVars>>

Receive(c, q) ==
    /\ lifecycle = "serving"
    /\ c \notin Busy
    /\ phase' = [phase EXCEPT ![c] = "received"]
    /\ request' = [request EXCEPT ![c] = q]
    /\ credential' = [credential EXCEPT ![c] = NoToken]
    /\ exchanges' = [exchanges EXCEPT ![c] = 0]
    /\ ending' = [ending EXCEPT ![c] = NoEnding]
    /\ reply' = [reply EXCEPT ![c] = NoReply]
    /\ UNCHANGED <<serverVars, wire, poolVars>>

Answer(c, r) ==
    /\ phase' = [phase EXCEPT ![c] = "replied"]
    /\ reply' = [reply EXCEPT ![c] = r]
    /\ UNCHANGED <<serverVars, request, callVars, poolVars>>

Reject(c) ==
    /\ phase[c] = "received"
    /\ ~Admitted(request[c])
    /\ Answer(c, Refusal(request[c]))

AnswerLocally(c) ==
    /\ phase[c] = "received"
    /\ Admitted(request[c])
    /\ request[c].verb \in LocalVerbs
    /\ Answer(c, Success)

\* _build_headers finds no credential, or the AsyncClient has been closed.
CannotCall(c) == CredentialFor(request[c], gatewayKey) = NoToken \/ ~clientOpen

\* Variant: the Authorization header set on the shared client, so that calls
\* still waiting for a connection go out with the header set last.
PlaceCallSharedHeader(c) ==
    /\ phase[c] = "received"
    /\ Forwarded(request[c])
    /\ ~CannotCall(c)
    /\ phase' = [phase EXCEPT ![c] = "pooling"]
    /\ credential' = [d \in Callers |-> IF d \in line \cup {c}
                                         THEN CredentialFor(request[c], gatewayKey)
                                         ELSE credential[d]]
    /\ JoinLine(c)
    /\ UNCHANGED <<serverVars, request, exchanges, wire, ending, reply>>

PlaceCall(c) ==
    /\ phase[c] = "received"
    /\ Forwarded(request[c])
    /\ ~CannotCall(c)
    /\ phase' = [phase EXCEPT ![c] = "pooling"]
    /\ credential' = [credential EXCEPT ![c] = CredentialFor(request[c], gatewayKey)]
    /\ JoinLine(c)
    /\ UNCHANGED <<serverVars, request, exchanges, wire, ending, reply>>

FailToCall(c) ==
    /\ phase[c] = "received"
    /\ Forwarded(request[c])
    /\ CannotCall(c)
    /\ phase' = [phase EXCEPT ![c] = "returning"]
    /\ ending' = [ending EXCEPT ![c] = Raised("RuntimeError")]
    /\ UNCHANGED <<serverVars, request, credential, exchanges, wire, reply, poolVars>>

SendCall(c) ==
    /\ phase[c] = "pooling"
    /\ TakeConnection(c)
    /\ phase' = [phase EXCEPT ![c] = "sent"]
    /\ exchanges' = [exchanges EXCEPT ![c] = @ + 1]
    /\ UNCHANGED <<serverVars, request, credential, wire, ending, reply>>

UpstreamAnswers(c, e) ==
    /\ phase[c] = "sent"
    /\ wire[c] = NoEnding
    /\ wire' = [wire EXCEPT ![c] = e]
    /\ UNCHANGED <<serverVars, phase, request, credential, exchanges, ending, reply, poolVars>>

\* Variant: the connection of an ended call is not given back.
EndCallLeaks(c, e) ==
    /\ phase' = [phase EXCEPT ![c] = "returning"]
    /\ ending' = [ending EXCEPT ![c] = e]
    /\ wire' = [wire EXCEPT ![c] = NoEnding]
    /\ line' = line \ {c}
    /\ ahead' = Behind(c)
    /\ UNCHANGED <<serverVars, request, credential, exchanges, reply, held>>

\* Variant: a call given up in line keeps its place there.
EndCallStaysInLine(c, e) ==
    /\ phase' = [phase EXCEPT ![c] = "returning"]
    /\ ending' = [ending EXCEPT ![c] = e]
    /\ wire' = [wire EXCEPT ![c] = NoEnding]
    /\ held' = held \ {c}
    /\ UNCHANGED <<serverVars, request, credential, exchanges, reply, line, ahead>>

\* The awaited client call is over, however it ended: place and answer are gone.
EndCall(c, e) ==
    /\ phase' = [phase EXCEPT ![c] = "returning"]
    /\ ending' = [ending EXCEPT ![c] = e]
    /\ wire' = [wire EXCEPT ![c] = NoEnding]
    /\ GiveUpPlace(c)
    /\ UNCHANGED <<serverVars, request, credential, exchanges, reply>>

ReadAnswer(c) ==
    /\ phase[c] = "sent"
    /\ wire[c] # NoEnding
    /\ EndCall(c, wire[c])

\* Variant: a timed-out call is tried again.
DeadlineRetries(c) ==
    /\ phase[c] \in {"pooling", "sent"}
    /\ HasDeadline(request[c])
    /\ phase' = [phase EXCEPT ![c] = "pooling"]
    /\ wire' = [wire EXCEPT ![c] = NoEnding]
    /\ held' = held \ {c}
    /\ line' = line \cup {c}
    /\ ahead' = [ahead EXCEPT ![c] = line \ {c}]
    /\ UNCHANGED <<serverVars, request, credential, exchanges, ending, reply>>

\* Variant: the timer is not cancelled when the call is over.
DeadlineFiresLate(c) ==
    /\ phase[c] \in {"pooling", "sent", "replied"}
    /\ HasDeadline(request[c])
    /\ EndCall(c, TimedOut)

\* Variant: the timeout does not cover the wait for a connection.
DeadlineOnlyOnTheWire(c) ==
    /\ phase[c] = "sent"
    /\ HasDeadline(request[c])
    /\ EndCall(c, TimedOut)

\* Variant: the timeout covers nothing but the wait for a connection.
DeadlineOnlyInLine(c) ==
    /\ phase[c] = "pooling"
    /\ HasDeadline(request[c])
    /\ EndCall(c, TimedOut)

\* httpx applies the one timeout to the pool, to connecting, to each read and
\* to each write; an answer that is only now arriving does not stop it.
DeadlineExpires(c) ==
    /\ phase[c] \in {"pooling", "sent"}
    /\ HasDeadline(request[c])
    /\ EndCall(c, TimedOut)

Conclude(c) ==
    /\ phase[c] = "returning"
    /\ Answer(c, AdapterReply(request[c].verb, ending[c]))

(***************************************************************************)
(* The specification.  Environment: operators, callers and the upstream.   *)
(* Work: what the event loop runs of itself.                               *)
(***************************************************************************)
Environment ==
    \/ \E key \in GatewayKeys : Start(key)
    \/ BeginShutdown
    \/ \E c \in Callers, q \in Workload : Receive(c, q)
    \/ \E c \in Callers, e \in UpstreamEndings : UpstreamAnswers(c, e)

Work(c) ==
    \/ Reject(c)
    \/ AnswerLocally(c)
    \/ PlaceCall(c)
    \/ FailToCall(c)
    \/ SendCall(c)
    \/ ReadAnswer(c)
    \/ DeadlineExpires(c)
    \/ Conclude(c)

Next == Environment \/ CloseClient \/ \E c \in Callers : Work(c)

Spec == Init /\ [][Next]_vars

\* The event loop runs every ready task and every expired timer; uvicorn ends
\* the lifespan of a server that has drained.
TaskFairness(c) == WF_vars(Work(c))
DrainFairness == WF_vars(CloseClient)

FairSpec == Spec /\ DrainFairness /\ \A c \in Callers : TaskFairness(c)

\* Besides, an upstream that answers whatever it was sent.
Answering(c) == \E e \in UpstreamEndings : UpstreamAnswers(c, e)
UpstreamFairness(c) == WF_vars(Answering(c))

PatientSpec == FairSpec /\ \A c \in Callers : UpstreamFairness(c)
-----------------------------------------------------------------------------
InPhase(p) == {c \in Callers : phase[c] = p}

(* The pool's books agree with the tasks': exactly the calls that are with  *)
(* the upstream hold a connection, never more than the pool has, and no     *)
(* answer waits on the wire of a call that is over.                         *)
ConnectionsAccounted ==
    /\ held = InPhase("sent")
    /\ Cardinality(held) <= MaxConnections
    /\ \A c \in Callers : wire[c] # NoEnding => c \in held

(* The line for connections is one line: it holds exactly the calls that    *)
(* wait, of two of them one is ahead of the other, whoever is ahead of one  *)
(* ahead of me is ahead of me, and nobody waits for a call that has left it *)
(* (a timed-out one, say).                                                  *)
LineIsOrdered ==
    /\ line = InPhase("pooling")
    /\ \A c \in Callers : ahead[c] \subseteq line
    /\ \A c, d \in line : c # d => (c \in ahead[d] <=> d \notin ahead[c])
    /\ \A c \in line : c \notin ahead[c]
    /\ \A c, d \in line : d \in ahead[c] => ahead[d] \subseteq ahead[c]

(* Calls wait for connections only while the upstream has all of them: as   *)
(* long as fewer calls than the pool allows are with the upstream, somebody *)
(* in the line can take a connection at once. So tasks never wait for each  *)
(* other in a circle, nor for one that is over.                             *)
NobodyWaitsInVain ==
    \/ InPhase("pooling") = {}
    \/ Cardinality(InPhase("sent")) >= MaxConnections
    \/ \E c \in InPhase("pooling") :
          c \in line /\ ahead[c] = {} /\ Cardinality(held) < MaxConnections

(* Whatever is on its way upstream belongs to a request that passed every   *)
(* guard of its adapter, carries its own caller's token or, for want of     *)
(* one, the server's key, and goes through an open client.                  *)
OnlyAdmittedCalls ==
    \A c \in InPhase("pooling") \cup InPhase("sent") :
        LET q == request[c] IN
        /\ q.wellFormed /\ q.verb \in UpstreamVerbs
        /\ q.graph = "unsupported" => q.verb = "extensions.abel.intervene_time_lag"
        /\ q.verb = "extensions.abel.intervene_time_lag" => q.linear
        /\ credential[c] # NoToken
        /\ credential[c] = q.auth \/ (q.auth = NoToken /\ credential[c] = gatewayKey)
        /\ clientOpen

(* No retries: however its call ends, a request reaches the upstream at     *)
(* most once, and only a request whose call did reach it is told about the  *)
(* upstream's state or is given a result of the upstream's.                 *)
AtMostOneExchange ==
    \A c \in Callers :
        /\ exchanges[c] <= 1
        /\ phase[c] = "pooling" => exchanges[c] = 0
        /\ /\ phase[c] = "replied"
           /\ request[c].verb \in UpstreamVerbs
           /\ reply[c].code \in {"ok", "node_not_found", "path_not_found", "service_unavailable"}
           => exchanges[c] = 1

CallEnded(c) ==
    /\ Forwarded(request[c])
    /\ ending[c] \in Endings
    /\ exchanges[c] = 1 \/ (exchanges[c] = 0 /\ ending[c] \in {TimedOut, Raised("RuntimeError")})

HistoryOf(c) ==
    /\ phase[c] # "idle" => request[c] \in Workload
    /\ phase[c] \in {"idle", "received", "pooling"} => exchanges[c] = 0 /\ ending[c] = NoEnding
    /\ phase[c] = "sent" => exchanges[c] = 1 /\ ending[c] = NoEnding
    /\ phase[c] \in {"pooling", "sent"} => Forwarded(request[c])
    /\ phase[c] = "returning" => CallEnded(c)
    /\ phase[c] = "replied" =>
          \/ CallEnded(c) /\ reply[c] = AdapterReply(request[c].verb, ending[c])
          \/ /\ ending[c] = NoEnding
             /\ exchanges[c] = 0
             /\ reply[c] = IF Admitted(request[c]) THEN Success ELSE Refusal(request[c])
             /\ ~Forwarded(request[c])

(* What a request's phase says of its history, the inductive invariant      *)
(* behind the properties of replies: a call that never got a connection can *)
(* only have timed out in line or failed before; every reply is the refusal *)
(* of the request, the success of a local verb, or what the adapter makes   *)
(* of the ending of the request's own call; and the client is open while    *)
(* anything is in progress.                                                 *)
CallHistory ==
    /\ clientOpen <=> lifecycle # "stopped"
    /\ Busy # {} => clientOpen
    /\ \A c \in Callers : HistoryOf(c)

(* A failed exchange is reported with the code the documentation gives for  *)
(* it, an upstream status keeps its number, a timeout is a 504; whichever   *)
(* of the verbs, whatever else is going on. Excepted are, as in the source, *)
(* extensions.abel.markov_blanket and errors whose body is no text.         *)
ReportedAsDocumented ==
    \A c \in InPhase("replied") :
        /\ ending[c].raised \notin {"none", "nothing"}
        /\ ending[c].detail # "undecodable"
        /\ request[c].verb \notin TranslatesTwice
        => /\ reply[c].code \in DocumentedCodes(ending[c])
           /\ ending[c].raised = "HTTPStatusError" => reply[c].status = ending[c].status
           /\ ending[c] = TimedOut => reply[c].status = 504

(* A success of an upstream verb is earned: the caller's own call returned  *)
(* an object, and for the two intervention verbs one that says something of *)
(* the outcome node asked about; no failure and no missing effect turns     *)
(* into a result.                                                           *)
SuccessIsEarned ==
    \A c \in InPhase("replied") :
        reply[c].code = "ok" /\ request[c].verb \in UpstreamVerbs
        => /\ ending[c].raised = "nothing"
           /\ ending[c].body # "misshapen"
           /\ request[c].verb \in NeedsOutcome => ending[c].body = "full"

(* The reply to a request is given once: nothing changes it until the same  *)
(* caller asks again.                                                       *)
AnsweredOnce ==
    [][\A c \in InPhase("replied") :
          phase'[c] = "received" \/ (phase'[c] = "replied" /\ reply'[c] = reply[c])]_vars

Contract == INSTANCE CapContract WITH
    up       <- lifecycle # "stopped",
    stage    <- [c \in Callers |-> CASE phase[c] = "idle"    -> "none"
                                     [] phase[c] = "replied" -> "answered"
                                     [] OTHER                -> "open"],
    asked    <- request,
    consults <- exchanges,
    answer   <- reply

(* The server keeps the contract of CapContract. *)
KeepsContract == Contract!CSpec
-----------------------------------------------------------------------------
\* The request never waits for the upstream, or not without a timeout.
Bounded(c) == HasDeadline(request[c]) \/ ~Forwarded(request[c])

\* A call without a deadline rests: the upstream has not answered it yet, or
\* has as many other calls as the pool allows, or others are ahead in line.
Resting(c) ==
    /\ ~HasDeadline(request[c])
    /\ \/ phase[c] = "sent" /\ wire[c] = NoEnding
       \/ /\ phase[c] = "pooling"
          /\ \/ ahead[c] \cap InPhase("pooling") # {}
             \/ Cardinality(InPhase("sent")) >= MaxConnections

\* The event loop has something to do for the request: it has just come, its
\* call is over, answered, at the head of the line with a connection free, or
\* under a timer.
Ready(c) ==
    \/ phase[c] \in {"received", "returning"}
    \/ phase[c] = "sent" /\ wire[c] # NoEnding
    \/ phase[c] = "pooling" /\ ahead[c] = {} /\ Cardinality(held) < MaxConnections
    \/ phase[c] \in {"pooling", "sent"} /\ HasDeadline(request[c])

(* Nobody who is ready is kept: whatever the verb, the request and the      *)
(* answer, one of the handlers takes it on, never a state none of them      *)
(* covers; what the upstream was sent it can answer, once; and a drained    *)
(* server can be closed.                                                    *)
ReadyCanGoOn ==
    /\ \A c \in Callers : Ready(c) => ENABLED <<Work(c)>>_vars
    /\ \A c \in InPhase("sent") : wire[c] = NoEnding => ENABLED <<Answering(c)>>_vars
    /\ lifecycle = "draining" /\ Busy = {} => ENABLED <<CloseClient>>_vars

(* Nothing blocks but the upstream: a request in progress that does not     *)
(* rest can go on at once, whatever the other tasks, the pool's books and   *)
(* the process are at.                                                      *)
OnlyTheUpstreamBlocks ==
    \A c \in Busy : ~Resting(c) => ENABLED <<Work(c)>>_vars

(* A request that brings a deadline, or that needs no upstream at all       *)
(* (health and metadata included), is answered even if the upstream never   *)
(* answers anything and every connection is taken by calls that wait for it. *)
BoundedRequestsAnswered ==
    \A c \in Callers : phase[c] = "received" /\ Bounded(c) ~> phase[c] = "replied"

(* A shutdown ends: once the process drains, and none of the requests it    *)
(* still works on waits for the upstream without a deadline, the client is  *)
(* closed and the process stops, whatever the upstream does.                *)
DrainEnds ==
    (lifecycle = "draining" /\ \A c \in Busy : Bounded(c)) ~> lifecycle = "stopped"

(* If the upstream answers what it is sent, every request is answered: the  *)
(* line for connections moves and no connection is lost.                    *)
EveryRequestAnswered ==
    (\A c \in Callers : UpstreamFairness(c))
    => \A c \in Callers : phase[c] = "received" ~> phase[c] = "replied"
-----------------------------------------------------------------------------
(***************************************************************************)
(* What the documentation says of the server and the code does not do.     *)
(***************************************************************************)
(* docs/configuration.md: CAP_UPSTREAM_TIMEOUT_SECONDS is the default       *)
(* client timeout for all upstream requests; so no call stays with a silent *)
(* upstream for ever.                                                       *)
EveryCallTimesOut ==
    \A c \in Callers : phase[c] = "sent" ~> phase[c] # "sent"

(* docs/architecture.md: upstream timeout -> computation_timeout with HTTP  *)
(* 504.                                                                     *)
TimeoutsReported ==
    \A c \in InPhase("replied") :
        ending[c] = TimedOut => reply[c] = Reply(504, "computation_timeout")

(* docs/api-reference.md: unsupported graph references return a CAP         *)
(* invalid_request error; so none is on its way upstream.                   *)
UnsupportedGraphRefused ==
    \A c \in InPhase("pooling") \cup InPhase("sent") : request[c].graph # "unsupported"

(* docs/api-reference.md: the adapter layer translates unexpected failures  *)
(* into upstream_error; so no other exception leaves it.                    *)
EveryFailureTranslated ==
    \A c \in InPhase("replied") : reply[c] # Untranslated
=============================================================================
