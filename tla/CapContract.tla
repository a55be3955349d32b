----------------------------- MODULE CapContract ----------------------------
(***************************************************************************)
(* What the adapter promises its callers and its upstream, without tasks,  *)
(* pool, wire or timers: a request is open until it gets one answer; while *)
(* it is open the upstream may be consulted for it, once, if it passes the *)
(* guards of its verb; what the answer says is limited by whether that     *)
(* happened; and the service is retired only when nothing is open.         *)
(***************************************************************************)
EXTENDS UpstreamErrors

CONSTANTS Callers, Workload, NoRequest

VARIABLES up,         \* the service accepts or still works on requests
          stage,      \* of each caller's request: "none", "open", "answered"
          asked,      \* the request
          consults,   \* how often the upstream was consulted for it
          answer      \* the answer

contractVars == <<up, stage, asked, consults, answer>>

(***************************************************************************)
(* Answers a request may get.  Only a consulted upstream can be the source *)
(* of a result, of what it does not know or of its being unavailable; by   *)
(* itself the server can only refuse the request, lack a credential or     *)
(* give up waiting for a connection.                                       *)
(***************************************************************************)
UpstreamCodes == Codes \ {"verb_not_supported"}

OwnCodes == {"computation_timeout", "upstream_error"}

UnconsultedAnswers(q) ==
    IF ~Admitted(q) THEN {Refusal(q)}
    ELSE IF q.verb \in LocalVerbs THEN {Success}
    ELSE {r \in Replies : r.code \in OwnCodes}

ConsultedAnswers == {r \in Replies : r.code \in UpstreamCodes}

CInit ==
    /\ up = FALSE
    /\ stage = [c \in Callers |-> "none"]
    /\ asked = [c \in Callers |-> NoRequest]
    /\ consults = [c \in Callers |-> 0]
    /\ answer = [c \in Callers |-> NoReply]

Launch ==
    /\ ~up
    /\ up' = TRUE
    /\ UNCHANGED <<stage, asked, consults, answer>>

Retire ==
    /\ up
    /\ \A c \in Callers : stage[c] # "open"
    /\ up' = FALSE
    /\ UNCHANGED <<stage, asked, consults, answer>>

Open(c, q) ==
    /\ up
    /\ stage[c] # "open"
    /\ stage' = [stage EXCEPT ![c] = "open"]
    /\ asked' = [asked EXCEPT ![c] = q]
    /\ consults' = [consults EXCEPT ![c] = 0]
    /\ answer' = [answer EXCEPT ![c] = NoReply]
    /\ UNCHANGED up

Consult(c) ==
    /\ up
    /\ stage[c] = "open"
    /\ consults[c] = 0
    /\ Forwarded(asked[c])
    /\ consults' = [consults EXCEPT ![c] = 1]
    /\ UNCHANGED <<up, stage, asked, answer>>

Settle(c) ==
    /\ up
    /\ stage[c] = "open"
    /\ stage' = [stage EXCEPT ![c] = "answered"]
    /\ answer' = [answer EXCEPT ![c] = answer'[c]]
    /\ answer'[c] \in IF consults[c] = 0 THEN UnconsultedAnswers(asked[c])
                                        ELSE ConsultedAnswers
    /\ UNCHANGED <<up, asked, consults>>

CNext ==
    \/ Launch
    \/ Retire
    \/ \E c \in Callers, q \in Workload : Open(c, q)
    \/ \E c \in Callers : Consult(c) \/ Settle(c)

CSpec == CInit /\ [][CNext]_contractVars
=============================================================================
