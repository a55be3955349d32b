--------------------------- MODULE RequestLogging ---------------------------
(***************************************************************************)
(* RequestLoggingMiddleware around the server of CapServer: a request gets *)
(* an id, which a context variable of its task carries to whatever is      *)
(* logged meanwhile; when the request is over its outcome is logged and,   *)
(* if there is a response, the id is sent back with it.  Logging adds to   *)
(* the server's steps and forbids none but the shutdown's last.            *)
(***************************************************************************)
EXTENDS CapServer, Sequences

CONSTANTS RequestIds,  \* X-Request-ID values, sent by the caller or generated
          NoId         \* "-", the context variable's default

ASSUME NoIdAssumption == NoId \notin RequestIds

VARIABLES inside,     \* the callers whose request is inside the middleware
          context,    \* REQUEST_ID_CTX_VAR as each caller's task sees it
          requestId,  \* the id of each caller's request
          records,    \* what was logged in its task, in order
          echoed      \* the X-Request-ID of the response it was sent

logVars == <<inside, context, requestId, records, echoed>>
loggedVars == <<vars, logVars>>

Record(event, id, status) == [event |-> event, id |-> id, status |-> status]

LogRecords ==
    [event  : {"HTTP Request", "request_failed", "request_completed"},
     id     : RequestIds \cup {NoId},
     status : Nat]

LogTypeOK ==
    /\ inside \subseteq Callers
    /\ context \in [Callers -> RequestIds \cup {NoId}]
    /\ requestId \in [Callers -> RequestIds \cup {NoId}]
    /\ records \in [Callers -> Seq(LogRecords)]
    /\ echoed \in [Callers -> RequestIds \cup {NoId}]

LogInit ==
    /\ Init
    /\ inside = {}
    /\ context = [c \in Callers |-> NoId]
    /\ requestId = [c \in Callers |-> NoId]
    /\ records = [c \in Callers |-> <<>>]
    /\ echoed = [c \in Callers |-> NoId]

\* RequestContextFilter: a record is given the id of the task that logs it.
Log(c, event, status) == Record(event, context[c], status)

\* Variant: the id kept in a variable of the process.
EnterSharedId(c, q, id) ==
    /\ c \notin inside
    /\ Receive(c, q)
    /\ inside' = inside \cup {c}
    /\ context' = [d \in Callers |-> id]
    /\ requestId' = [requestId EXCEPT ![c] = id]
    /\ records' = [records EXCEPT ![c] = <<>>]
    /\ echoed' = [echoed EXCEPT ![c] = NoId]

\* dispatch up to call_next, whose task inherits the context.
Enter(c, q, id) ==
    /\ c \notin inside
    /\ Receive(c, q)
    /\ inside' = inside \cup {c}
    /\ context' = [context EXCEPT ![c] = id]
    /\ requestId' = [requestId EXCEPT ![c] = id]
    /\ records' = [records EXCEPT ![c] = <<>>]
    /\ echoed' = [echoed EXCEPT ![c] = NoId]

\* httpx logs a call when the headers of its answer are in: certainly before
\* it returns a body or refuses its status, perhaps before it breaks off.
HeadersCertain(e) == e.raised \in {"nothing", "HTTPStatusError", "JSONDecodeError"}

CallLogged(c) ==
    LET cameBack == phase[c] = "sent" /\ phase'[c] = "returning" IN
    \/ /\ cameBack
       /\ records' = [records EXCEPT ![c] = Append(@, Log(c, "HTTP Request", 0))]
    \/ /\ cameBack => ~HeadersCertain(ending'[c])
       /\ UNCHANGED records

LoggedWork(c) ==
    /\ Work(c)
    /\ CallLogged(c)
    /\ UNCHANGED <<inside, context, requestId, echoed>>

\* An exception no handler took passes through: call_next gives no response.
Responded(c) == reply[c] # Untranslated

\* Variant: the outcome logged only on the way back with a response.
OutcomeOfResponses(c) ==
    IF Responded(c)
        THEN <<Log(c, "request_completed", reply[c].status)>>
        ELSE <<Log(c, "request_failed", 0)>>

Outcome(c) ==
    IF Responded(c)
        THEN <<Log(c, "request_completed", reply[c].status)>>
        ELSE <<Log(c, "request_failed", 0), Log(c, "request_completed", 500)>>

\* Variant: the context variable reset first and then read for the header.
LeaveResetFirst(c) ==
    /\ c \in inside
    /\ phase[c] = "replied"
    /\ records' = [records EXCEPT ![c] = @ \o Outcome(c)]
    /\ echoed' = [echoed EXCEPT ![c] = NoId]
    /\ context' = [context EXCEPT ![c] = NoId]
    /\ inside' = inside \ {c}
    /\ UNCHANGED <<vars, requestId>>

\* What dispatch does after call_next: except, finally, and the response.
Leave(c) ==
    /\ c \in inside
    /\ phase[c] = "replied"
    /\ records' = [records EXCEPT ![c] = @ \o Outcome(c)]
    /\ echoed' = [echoed EXCEPT ![c] = IF Responded(c) THEN requestId[c] ELSE NoId]
    /\ context' = [context EXCEPT ![c] = NoId]
    /\ inside' = inside \ {c}
    /\ UNCHANGED <<vars, requestId>>

\* Variant: the lifespan ended over the heads of running requests.
LoggedCloseAtOnce == CloseClientAtOnce /\ UNCHANGED logVars

\* uvicorn ends the lifespan when every response is out.
LoggedCloseClient ==
    /\ inside = {}
    /\ CloseClient
    /\ UNCHANGED logVars

LoggedEnvironment ==
    \/ \E key \in GatewayKeys : Start(key) /\ UNCHANGED logVars
    \/ BeginShutdown /\ UNCHANGED logVars
    \/ \E c \in Callers, q \in Workload, id \in RequestIds : Enter(c, q, id)
    \/ \E c \in Callers, e \in UpstreamEndings : UpstreamAnswers(c, e) /\ UNCHANGED logVars

LoggedNext ==
    \/ LoggedEnvironment
    \/ LoggedCloseClient
    \/ \E c \in Callers : LoggedWork(c) \/ Leave(c)

LoggedSpec == LogInit /\ [][LoggedNext]_loggedVars
-----------------------------------------------------------------------------
(* Whatever is logged for a request carries that request's id, however the  *)
(* tasks interleave: the upstream call's record, the failure and the        *)
(* completion alike; and a task outside the middleware has no id.           *)
RecordsNameTheirRequest ==
    \A c \in Callers :
        /\ \A i \in DOMAIN records[c] : records[c][i].id = requestId[c]
        /\ context[c] = IF c \in inside THEN requestId[c] ELSE NoId

Logged(c, event) == {i \in DOMAIN records[c] : records[c][i].event = event}

TellsOutcome(c) ==
    /\ IF c \in inside \/ phase[c] = "idle"
         THEN Logged(c, "request_completed") \cup Logged(c, "request_failed") = {}
         ELSE /\ Logged(c, "request_completed") = {Len(records[c])}
              /\ records[c][Len(records[c])].status = reply[c].status
              /\ Logged(c, "request_failed") # {} <=> reply[c] = Untranslated
    /\ Logged(c, "HTTP Request") # {} => exchanges[c] = 1
    /\ HeadersCertain(ending[c]) => Logged(c, "HTTP Request") # {}

(* The log tells the outcome: a request that has left the middleware has    *)
(* one completion record, its last, with the status its caller was told,    *)
(* and a failure record exactly when an exception passed through; a request *)
(* inside it has none of these; an upstream call is logged only for a       *)
(* request that made one, and always if the upstream answered.              *)
LogTellsOutcome == \A c \in Callers : TellsOutcome(c)

(* The echo helps to find the request in the log: a response has the id     *)
(* under which its request was logged; only the bare 500 has none.          *)
EchoNamesRequest ==
    \A c \in InPhase("replied") \ inside :
        echoed[c] = IF reply[c] = Untranslated THEN NoId ELSE records[c][Len(records[c])].id

(* docs/api-reference.md: X-Request-ID is generated if missing and echoed   *)
(* on the HTTP response; so every answer has it.                            *)
EveryReplyEchoed ==
    \A c \in InPhase("replied") \ inside : echoed[c] # NoId
=============================================================================
