--------------------------- MODULE CapSystemProofs --------------------------
(***************************************************************************)
(* Proofs about CapSystem: the server and the runs of the command line put *)
(* together behave as each was specified alone, so what was proved of each *)
(* holds of the whole; from the two follows what holds from the command    *)
(* line to the upstream and back to the exit status.                       *)
(***************************************************************************)
EXTENDS CapSystem, CapServerProofs

-----------------------------------------------------------------------------
(* The server in the whole. *)

(* Each step of the whole is one of the server or does not touch it.        *)
LEMMA ServerPart ==
    /\ SystemInit => Init
    /\ [SystemNext]_systemVars => [Next]_vars
<1>1. SystemInit => Init
  BY DEF SystemInit
<1>2. ASSUME [SystemNext]_systemVars PROVE [Next]_vars
  <2>1. CASE ServerStep
    BY <2>1 DEF ServerStep, Next, Environment
  <2>2. CASE \E c \in Callers : Call(c)
    BY <2>2 DEF Call, Next, Environment
  <2>3. CASE (\E c \in Callers : RunStep(c)) \/ UNCHANGED systemVars
    BY <2>3 DEF RunStep, systemVars
  <2>4. QED
    BY <1>2, <2>1, <2>2, <2>3 DEF SystemNext
<1>3. QED
  BY <1>1, <1>2

(* The whole does nothing the server alone would not, so every theorem      *)
(* about CapServer is one about the whole.                                  *)
THEOREM ServerIsItself == SystemSpec => Spec
  BY ServerPart, PTL DEF SystemSpec, Spec

-----------------------------------------------------------------------------
(* The runs in the whole. *)

\* CapClient's theorems, for the server in place of the contract.
Run == INSTANCE CapClientProofs WITH
    up       <- lifecycle # "stopped",
    stage    <- [c \in Callers |-> CASE phase[c] = "idle"    -> "none"
                                     [] phase[c] = "replied" -> "answered"
                                     [] OTHER                -> "open"],
    asked    <- request,
    consults <- exchanges,
    answer   <- reply,
    AnswersSeen <- AnswersGiven

(* The two instances of CapClient speak of the same: its words ...          *)
LEMMA SameWords ==
    /\ Client!NoReply = Run!NoReply /\ Client!Success = Run!Success
    /\ Client!UpstreamVerbs = Run!UpstreamVerbs /\ Client!LocalVerbs = Run!LocalVerbs
    /\ Client!Replies = Run!Replies /\ Client!UpstreamCodes = Run!UpstreamCodes
    /\ \A q : Client!Refusal(q) = Run!Refusal(q)
    /\ \A l : Client!RequestOf(l) = Run!RequestOf(l)
    /\ \A l : Client!Parses(l) <=> Run!Parses(l)
<1>1. /\ Client!NoReply = Run!NoReply /\ Client!Success = Run!Success
      /\ Client!Replies = Run!Replies /\ Client!UpstreamCodes = Run!UpstreamCodes
  BY DEF Client!NoReply, Run!NoReply, Client!Success, Run!Success, Client!Reply, Run!Reply,
         Client!Replies, Run!Replies, Client!Codes, Run!Codes, Client!UpstreamCodes,
         Run!UpstreamCodes
<1>2. Client!UpstreamVerbs = Run!UpstreamVerbs /\ Client!LocalVerbs = Run!LocalVerbs
  BY DEF Client!UpstreamVerbs, Run!UpstreamVerbs, Client!LocalVerbs, Run!LocalVerbs,
         Client!PlainRoutes, Run!PlainRoutes, Client!RegisteredVerbs, Run!RegisteredVerbs,
         Client!CoreVerbs, Run!CoreVerbs, Client!ConvenienceVerbs, Run!ConvenienceVerbs,
         Client!ExtensionVerbs, Run!ExtensionVerbs
<1>3. ASSUME NEW q PROVE Client!Refusal(q) = Run!Refusal(q)
  BY DEF Client!Refusal, Run!Refusal, Client!UnsupportedGraph, Run!UnsupportedGraph,
         Client!NonLinear, Run!NonLinear, Client!GuardsGraphRef, Run!GuardsGraphRef,
         Client!Reply, Run!Reply, Client!NoReply, Run!NoReply, Client!UpstreamVerbs,
         Run!UpstreamVerbs, Client!LocalVerbs, Run!LocalVerbs, Client!PlainRoutes,
         Run!PlainRoutes, Client!RegisteredVerbs, Run!RegisteredVerbs, Client!CoreVerbs,
         Run!CoreVerbs, Client!ConvenienceVerbs, Run!ConvenienceVerbs, Client!ExtensionVerbs,
         Run!ExtensionVerbs
<1>4. ASSUME NEW l PROVE Client!RequestOf(l) = Run!RequestOf(l)
  BY DEF Client!RequestOf, Run!RequestOf, Client!VerbOf, Run!VerbOf, Client!CoreVerb,
         Run!CoreVerb, Client!Authorization, Run!Authorization, Client!HeaderRead,
         Run!HeaderRead, Client!HeaderSent, Run!HeaderSent, Client!Earliest, Run!Earliest,
         Client!Latest, Run!Latest, Client!SpelledLike, Run!SpelledLike, Client!Given, Run!Given,
         Client!NormalizeBearerToken, Run!NormalizeBearerToken
<1>5. ASSUME NEW l PROVE Client!Parses(l) <=> Run!Parses(l)
  BY DEF Client!Parses, Run!Parses, Client!IsHeader, Run!IsHeader
<1>6. QED
  BY <1>1, <1>2, <1>3, <1>4, <1>5

(* ... and its actions.                                                     *)
LEMMA RunIsClient == Client!ClientSpec => Run!ClientSpec
<1>1. Client!ClientInit => Run!ClientInit
  BY SameWords DEF Client!ClientInit, Run!ClientInit, Client!CInit, Run!CInit,
                    Client!NoCommandLine, Run!NoCommandLine
<1>2. UNCHANGED Client!clientVars => UNCHANGED Run!clientVars
  BY DEF Client!clientVars, Run!clientVars, Client!contractVars, Run!contractVars,
         Client!processVars, Run!processVars
<1>3. (Client!Launch <=> Run!Launch) /\ (Client!Retire <=> Run!Retire)
  BY DEF Client!Launch, Run!Launch, Client!Retire, Run!Retire
<1>4. ASSUME NEW c PROVE Client!Serve(c) <=> Run!Serve(c)
  <2>1. Client!Consult(c) <=> Run!Consult(c)
    BY SameWords DEF Client!Consult, Run!Consult, Client!Forwarded, Run!Forwarded,
                     Client!Admitted, Run!Admitted
  <2>2. Client!Settle(c) <=> Run!Settle(c)
    BY SameWords DEF Client!Settle, Run!Settle, Client!UnconsultedAnswers,
                     Run!UnconsultedAnswers, Client!ConsultedAnswers, Run!ConsultedAnswers,
                     Client!Admitted, Run!Admitted, Client!OwnCodes, Run!OwnCodes
  <2>3. QED
    BY <2>1, <2>2 DEF Client!Serve, Run!Serve, Client!processVars, Run!processVars
<1>5. ASSUME NEW c
      PROVE  /\ \A l : Client!ParseArguments(c, l) <=> Run!ParseArguments(c, l)
             /\ Client!OpenSdk(c) <=> Run!OpenSdk(c)
             /\ Client!Send(c) <=> Run!Send(c)
  BY SameWords DEF Client!ParseArguments, Run!ParseArguments, Client!OpenSdk, Run!OpenSdk,
                    Client!Send, Run!Send, Client!Open, Run!Open, Client!contractVars,
                    Run!contractVars
<1>6. ASSUME NEW c
      PROVE  /\ Client!RefuseLocally(c) <=> Run!RefuseLocally(c)
             /\ Client!LoseServer(c) <=> Run!LoseServer(c)
             /\ Client!Interrupt(c) <=> Run!Interrupt(c)
  BY DEF Client!RefuseLocally, Run!RefuseLocally, Client!LoseServer, Run!LoseServer,
         Client!Interrupt, Run!Interrupt, Client!Raise, Run!Raise, Client!contractVars,
         Run!contractVars
<1>7. ASSUME NEW c
      PROVE  /\ Client!TakeAnswer(c) <=> Run!TakeAnswer(c)
             /\ Client!CloseSdk(c) <=> Run!CloseSdk(c)
             /\ Client!Finish(c) <=> Run!Finish(c)
  BY SameWords DEF Client!TakeAnswer, Run!TakeAnswer, Client!Raise, Run!Raise, Client!CloseSdk,
                    Run!CloseSdk, Client!Finish, Run!Finish, Client!contractVars,
                    Run!contractVars
<1>8. Client!ClientNext <=> Run!ClientNext
  BY <1>3, <1>4, <1>5, <1>6, <1>7 DEF Client!ClientNext, Run!ClientNext, Client!processVars,
                                       Run!processVars
<1>9. [Client!ClientNext]_(Client!clientVars) => [Run!ClientNext]_(Run!clientVars)
  BY <1>2, <1>8
<1>10. QED
  BY <1>1, <1>9, PTL DEF Client!ClientSpec, Run!ClientSpec

-----------------------------------------------------------------------------
(* The server for the runs. *)

(* CapServer and CapClient mean the same contract.                          *)
LEMMA SameContract ==
    /\ Contract!Launch => Client!Launch
    /\ Contract!Retire => Client!Retire
    /\ \A c : Contract!Consult(c) => Client!Consult(c)
    /\ \A c : Contract!Settle(c) => Client!Settle(c)
    /\ UNCHANGED Contract!contractVars => UNCHANGED Client!contractVars
<1>1. /\ Contract!NoReply = Client!NoReply /\ Contract!Success = Client!Success
      /\ Contract!Replies = Client!Replies /\ Contract!UpstreamCodes = Client!UpstreamCodes
  BY DEF Contract!NoReply, Client!NoReply, Contract!Success, Client!Success, Contract!Reply,
         Client!Reply, Contract!Replies, Client!Replies, Contract!Codes, Client!Codes,
         Contract!UpstreamCodes, Client!UpstreamCodes
<1>2. Contract!UpstreamVerbs = Client!UpstreamVerbs /\ Contract!LocalVerbs = Client!LocalVerbs
  BY DEF Contract!UpstreamVerbs, Client!UpstreamVerbs, Contract!LocalVerbs, Client!LocalVerbs,
         Contract!PlainRoutes, Client!PlainRoutes, Contract!RegisteredVerbs,
         Client!RegisteredVerbs, Contract!CoreVerbs, Client!CoreVerbs,
         Contract!ConvenienceVerbs, Client!ConvenienceVerbs, Contract!ExtensionVerbs,
         Client!ExtensionVerbs
<1>3. ASSUME NEW q PROVE Contract!Refusal(q) = Client!Refusal(q)
  BY DEF Contract!Refusal, Client!Refusal, Contract!UnsupportedGraph, Client!UnsupportedGraph,
         Contract!NonLinear, Client!NonLinear, Contract!GuardsGraphRef, Client!GuardsGraphRef,
         Contract!Reply, Client!Reply, Contract!NoReply, Client!NoReply, Contract!UpstreamVerbs,
         Client!UpstreamVerbs, Contract!LocalVerbs, Client!LocalVerbs, Contract!PlainRoutes,
         Client!PlainRoutes, Contract!RegisteredVerbs, Client!RegisteredVerbs,
         Contract!CoreVerbs, Client!CoreVerbs, Contract!ConvenienceVerbs,
         Client!ConvenienceVerbs, Contract!ExtensionVerbs, Client!ExtensionVerbs
<1>4. (Contract!Launch => Client!Launch) /\ (Contract!Retire => Client!Retire)
  BY DEF Contract!Launch, Client!Launch, Contract!Retire, Client!Retire
<1>5. ASSUME NEW c PROVE Contract!Consult(c) => Client!Consult(c)
  BY <1>1, <1>2, <1>3 DEF Contract!Consult, Client!Consult, Contract!Forwarded,
                          Client!Forwarded, Contract!Admitted, Client!Admitted
<1>6. ASSUME NEW c PROVE Contract!Settle(c) => Client!Settle(c)
  BY <1>1, <1>2, <1>3 DEF Contract!Settle, Client!Settle, Contract!UnconsultedAnswers,
                          Client!UnconsultedAnswers, Contract!ConsultedAnswers,
                          Client!ConsultedAnswers, Contract!Admitted, Client!Admitted,
                          Contract!OwnCodes, Client!OwnCodes
<1>7. UNCHANGED Contract!contractVars => UNCHANGED Client!contractVars
  BY DEF Contract!contractVars, Client!contractVars
<1>8. QED
  BY <1>4, <1>5, <1>6, <1>7

(* What a task of the server replies is one of the answers it is said to    *)
(* give.                                                                    *)
LEMMA RepliesAreAnswersGiven ==
    ASSUME IInv, NEW c \in Callers, Reject(c) \/ AnswerLocally(c) \/ Conclude(c)
    PROVE  \E r \in AnswersGiven : reply' = [reply EXCEPT ![c] = r]
<1>1. phase[c] # "idle" /\ HistoryOf(c)
  BY DEF IInv, CallHistory, Reject, AnswerLocally, Conclude
<1>2. CASE Reject(c)
  <2>1. Refusal(request[c]) \in AnswersGiven
    BY <1>1, <1>2 DEF HistoryOf, Reject, AnswersGiven
  <2>2. QED
    BY <1>2, <2>1 DEF Reject, Answer
<1>3. CASE AnswerLocally(c)
  <2>1. Success \in AnswersGiven
    BY DEF AnswersGiven
  <2>2. QED
    BY <1>3, <2>1 DEF AnswerLocally, Answer
<1>4. CASE Conclude(c)
  <2>1. request[c].verb \in UpstreamVerbs /\ ending[c] \in Endings
    BY <1>1, <1>4 DEF HistoryOf, CallEnded, Forwarded, Conclude
  <2>2. AdapterReply(request[c].verb, ending[c]) \in AnswersGiven
    BY <2>1 DEF AnswersGiven
  <2>3. QED
    BY <1>4, <2>2 DEF Conclude, Answer
<1>5. QED
  BY <1>2, <1>3, <1>4

(* Each step of the whole is a step of CapClient, the server's seen as the  *)
(* contract's, or one CapClient does not see.                               *)
LEMMA ClientPart ==
    ASSUME IInv, IInv', [SystemNext]_systemVars
    PROVE  [Client!ClientNext]_(Client!clientVars)
<1>1. UNCHANGED runVars => UNCHANGED Client!processVars
  BY DEF runVars, Client!processVars
<1>2. UNCHANGED vars => UNCHANGED Client!contractVars
  BY DEF vars, serverVars, callVars, Client!contractVars
<1>3. CASE UNCHANGED systemVars
  BY <1>1, <1>2, <1>3 DEF systemVars, Client!clientVars
<1>4. CASE \E c \in Callers : Call(c) \/ RunStep(c)
  BY <1>4 DEF Call, RunStep, Client!ClientNext
<1>5. CASE ServerStep
  <2>1. UNCHANGED Client!processVars
    BY <1>1, <1>5 DEF ServerStep
  <2>2. CASE (\E k \in GatewayKeys : Start(k)) \/ CloseClient
    <3>1. Client!Launch \/ Client!Retire
      BY <2>2, ContractActions, SameContract
    <3>2. QED
      BY <2>1, <3>1 DEF Client!ClientNext
  <2>3. CASE \E c \in Callers : SendCall(c)
    <3>1. PICK c \in Callers : SendCall(c)
      BY <2>3
    <3>2. Client!Consult(c)
      BY <3>1, ContractActions, SameContract
    <3>3. QED
      BY <2>1, <3>2 DEF Client!Serve, Client!ClientNext
  <2>4. CASE \E c \in Callers : Reject(c) \/ AnswerLocally(c) \/ Conclude(c)
    <3>1. PICK c \in Callers : Reject(c) \/ AnswerLocally(c) \/ Conclude(c)
      BY <2>4
    <3>2. Client!Settle(c)
      BY <3>1, ContractActions, SameContract
    <3>3. \E r \in AnswersGiven : reply' = [reply EXCEPT ![c] = r]
      BY <3>1, RepliesAreAnswersGiven
    <3>4. Client!Serve(c)
      BY <2>1, <3>2, <3>3 DEF Client!Serve
    <3>5. QED
      BY <3>4 DEF Client!ClientNext
  <2>5. CASE \/ BeginShutdown
             \/ \E c \in Callers, e \in UpstreamEndings : UpstreamAnswers(c, e)
             \/ \E c \in Callers : PlaceCall(c) \/ FailToCall(c) \/ ReadAnswer(c) \/ DeadlineExpires(c)
    <3>1. UNCHANGED Client!contractVars
      BY <2>5, ContractActions, SameContract
    <3>2. QED
      BY <2>1, <3>1 DEF Client!clientVars
  <2>6. QED
    BY <1>5, <2>2, <2>3, <2>4, <2>5 DEF ServerStep, Work
<1>6. QED
  BY <1>3, <1>4, <1>5 DEF SystemNext

(* The running server does for the runs what the contract promises them:    *)
(* the whole implements CapClient, for any number of runs and connections.  *)
THEOREM ServerServesRuns == SystemSpec => Client!ClientSpec
<1>1. SystemInit => Client!ClientInit
  BY DEF SystemInit
<1>2. IInv /\ IInv' /\ [SystemNext]_systemVars => [Client!ClientNext]_(Client!clientVars)
  BY ClientPart
<1>3. QED
  BY <1>1, <1>2, ServerIsItself, InvariantHolds, PTL DEF SystemSpec, Client!ClientSpec

-----------------------------------------------------------------------------
(* From end to end. *)

(* The assumptions of CapClient hold of the whole.                          *)
LEMMA ClientAssumptions ==
    /\ Run!CommandLinesAssumption
    /\ Run!AnswersSeenAssumption
    /\ Run!NoTokenAssumption
    /\ Run!OtherStatusesAssumption
<1>1. Run!CommandLinesAssumption
  BY CommandLinesFit DEF Run!CommandLinesAssumption, Run!Lines, Client!Lines, Run!Commands,
     Client!Commands, Run!Arguments, Client!Arguments
<1>2. Run!AnswersSeenAssumption
  <2>1. AnswersGiven \subseteq Replies
    BY SuccessType, RefusalType, AdapterReplyType DEF AnswersGiven
  <2>2. QED
    BY <2>1 DEF Run!AnswersSeenAssumption, Run!Replies, Replies, Run!Codes, Codes
<1>3. Run!NoTokenAssumption
  BY NoTokenAssumption DEF Run!NoTokenAssumption
<1>4. Run!OtherStatusesAssumption
  BY OtherStatusesAssumption DEF Run!OtherStatusesAssumption
<1>5. QED
  BY <1>1, <1>2, <1>3, <1>4

LEMMA RunInvHolds == SystemSpec => []Run!ClientInv
  BY ServerServesRuns, RunIsClient, Run!ClientInvHolds, ClientAssumptions, PTL

(* The runs' credentials, in the whole.                                     *)
LEMMA RunCredentials == SystemSpec => []Run!CredentialAsWritten
  BY ServerServesRuns, RunIsClient, Run!CredentialsOfRunsAreAsWritten, ClientAssumptions, PTL

(* What is on its way upstream is what somebody typed: the server's guards  *)
(* and credentials and the command line's meet.                             *)
THEOREM CallsOfRunsAreAsTyped == SystemSpec => []CallsAreAsTyped
<1>1. IInv /\ Run!ClientInv /\ Run!CredentialAsWritten => CallsAreAsTyped
  <2> SUFFICES ASSUME IInv, Run!ClientInv, Run!CredentialAsWritten,
                      NEW c \in InPhase("pooling") \cup InPhase("sent")
               PROVE  /\ process[c] \notin {"none", "parsed", "connecting"}
                      /\ typed[c].fits /\ typed[c].inBounds
                      /\ typed[c].command = "intervene-time-lag" => typed[c].outcome /\ typed[c].linear
                      /\ request[c].verb = Client!VerbOf(typed[c].command)
                      /\ IF Client!Given(typed[c], "authorization") = {}
                           THEN credential[c] = gatewayKey
                           ELSE \E i \in DOMAIN typed[c].headers :
                                  /\ Client!TakesEffect(typed[c], i)
                                  /\ typed[c].headers[i].value
                                        \in {credential[c], <<"bearer">> \o credential[c]}
    BY DEF CallsAreAsTyped
  <2> DEFINE given == Client!Given(typed[c], "authorization")
             l == typed[c]
  <2>1. c \in Callers /\ phase[c] \in {"pooling", "sent"}
    BY DEF InPhase
  <2>2. process[c] \notin {"none", "parsed", "connecting"}
    BY <2>1 DEF Run!ClientInv, Run!OnItsWay
  <2>3. request[c] = Run!RequestOf(l) /\ Run!Parses(l) /\ l \in Run!Lines
    BY <2>1 DEF Run!ClientInv, Run!Honest, Run!ClientTypeOK, Run!Parses, Run!NoCommandLine
  <2>4. l.fits
    BY <2>3 DEF Run!Parses
  <2>5. request[c].wellFormed /\ credential[c] # NoToken
        /\ (request[c].verb = "extensions.abel.intervene_time_lag" => request[c].linear)
        /\ (credential[c] = request[c].auth \/ (request[c].auth = NoToken /\ credential[c] = gatewayKey))
    BY DEF IInv, OnlyAdmittedCalls
  <2>6. request[c].verb = Client!VerbOf(l.command)
    BY <2>3 DEF Run!RequestOf, Run!VerbOf, Client!VerbOf, Run!CoreVerb, Client!CoreVerb
  <2>7. l.inBounds /\ (l.command = "intervene-time-lag" => l.outcome /\ l.linear)
    <3> DEFINE q == Run!RequestOf(l)
    <3>1. q.wellFormed <=> l.inBounds /\ (l.command = "intervene-time-lag" => l.outcome)
      BY DEF Run!RequestOf
    <3>2. q.linear <=> l.linear
      BY DEF Run!RequestOf
    <3>3. l.command = "intervene-time-lag" => q.verb = "extensions.abel.intervene_time_lag"
      BY DEF Run!RequestOf, Run!VerbOf
    <3>4. request[c] = q
      BY <2>3
    <3> HIDE DEF q, l
    <3>5. QED
      BY <2>5, <3>1, <3>2, <3>3, <3>4
  <2>8. given = Run!Given(l, "authorization") /\ request[c].auth = Run!Authorization(l)
    BY <2>3 DEF Client!Given, Run!Given, Run!RequestOf
  <2>9. CASE given = {}
    <3>1. request[c].auth = NoToken
      BY <2>8, <2>9 DEF Run!Authorization, Run!HeaderRead
    <3>2. credential[c] = gatewayKey
      BY <2>5, <3>1
    <3>3. QED
      BY <2>2, <2>4, <2>6, <2>7, <2>9, <3>2
  <2>10. CASE given # {}
    <3>1. request[c].auth \in Seq(Words)
      BY <2>3, <2>8, <2>10, Run!AuthorizationIsWords, ClientAssumptions
    <3>2. credential[c] = request[c].auth
      BY <2>5, <3>1, NoTokenIsNoValue
    <3>3. \E i \in DOMAIN l.headers :
            /\ Run!TakesEffect(l, i)
            /\ l.headers[i].value \in {request[c].auth, <<"bearer">> \o request[c].auth}
      BY <2>1, <2>8, <2>10 DEF Run!CredentialAsWritten
    <3>4. \A i : Run!TakesEffect(l, i) <=> Client!TakesEffect(l, i)
      BY DEF Run!TakesEffect, Client!TakesEffect, Run!Given, Client!Given
    <3>5. QED
      BY <2>2, <2>4, <2>6, <2>7, <2>10, <3>2, <3>3, <3>4
  <2>11. QED
    BY <2>9, <2>10
<1>2. QED
  BY <1>1, ServerIsItself, InvariantHolds, RunInvHolds, RunCredentials, PTL

(* Exit status 0 is earned, from the wire to the shell.                     *)
THEOREM ExitsAreEarned == SystemSpec => []ExitIsEarned
<1>1. TypeOK /\ CallHistory /\ AtMostOneExchange /\ SuccessIsEarned /\ Run!ClientInv => ExitIsEarned
  <2> SUFFICES ASSUME TypeOK, CallHistory, AtMostOneExchange, SuccessIsEarned, Run!ClientInv, NEW c \in Callers
               PROVE  /\ exit[c] = 0 /\ request[c].verb \in UpstreamVerbs =>
                            /\ exchanges[c] = 1
                            /\ ending[c].raised = "nothing" /\ ending[c].body # "misshapen"
                            /\ typed[c].command = "intervene-time-lag" => ending[c].body = "full"
                      /\ exit[c] = 2 \/ raised[c] \in {"InvalidURL", "ValidationError"} =>
                            phase[c] = "idle" /\ exchanges[c] = 0
    BY DEF ExitIsEarned
  <2> DEFINE stage == [d \in Callers |-> CASE phase[d] = "idle"    -> "none"
                                            [] phase[d] = "replied" -> "answered"
                                            [] OTHER                -> "open"]
  <2>1. ASSUME exit[c] = 0, request[c].verb \in UpstreamVerbs
        PROVE  /\ exchanges[c] = 1
               /\ ending[c].raised = "nothing" /\ ending[c].body # "misshapen"
               /\ typed[c].command = "intervene-time-lag" => ending[c].body = "full"
    <3>1. response[c] # Run!NoReply
      BY <2>1 DEF Run!ClientInv, Run!Honest
    <3>2. stage[c] = "answered" /\ reply[c] = Run!Success
      BY <3>1 DEF Run!ClientInv, Run!Honest
    <3>3. phase[c] = "replied" /\ reply[c].code = "ok"
      BY <3>2 DEF Run!Success, Run!Reply
    <3>4. request[c] = Run!RequestOf(typed[c])
      BY <3>2 DEF Run!ClientInv, Run!Honest
    <3>5. typed[c].command = "intervene-time-lag" => request[c].verb \in NeedsOutcome
      BY <3>4 DEF Run!RequestOf, Run!VerbOf, NeedsOutcome
    <3>6. /\ ending[c].raised = "nothing" /\ ending[c].body # "misshapen"
          /\ request[c].verb \in NeedsOutcome => ending[c].body = "full"
      BY <2>1, <3>3 DEF SuccessIsEarned, InPhase
    <3>7. exchanges[c] = 1
      BY <2>1, <3>3 DEF AtMostOneExchange
    <3>8. QED
      BY <3>5, <3>6, <3>7
  <2>2. ASSUME exit[c] = 2 \/ raised[c] \in {"InvalidURL", "ValidationError"}
        PROVE  phase[c] = "idle" /\ exchanges[c] = 0
    <3>1. stage[c] = "none"
      BY <2>2 DEF Run!ClientInv, Run!Honest
    <3>2. phase[c] = "idle"
      BY <3>1
    <3>3. QED
      BY <3>2 DEF CallHistory, HistoryOf
  <2>3. QED
    BY <2>1, <2>2
<1>2. QED
  BY <1>1, ServerIsItself, TypeCorrect, HistoryIsKept, NoRetries, ResultsAreEarned, RunInvHolds, PTL
=============================================================================
