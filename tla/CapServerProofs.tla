--------------------------- MODULE CapServerProofs --------------------------
(***************************************************************************)
(* Proofs about CapServer, for every set of callers, every workload, every *)
(* size of the pool and every set of keys and upstream statuses.           *)
(***************************************************************************)
EXTENDS CapServer, FiniteSetTheorems, TLAPS

-----------------------------------------------------------------------------
(* The translation of endings into replies. *)

(* The shapes of endings. *)
LEMMA EndingShapes ==
    ASSUME NEW e \in Endings
    PROVE  \/ \E b \in Bodies : e = Returned(b)
           \/ \E n \in ErrorStatuses, d \in {"plain", "undecodable"} : e = Refused(n, d)
           \/ e = Refused(404, "path")
           \/ \E x \in {"TransportError", "JSONDecodeError", "TimeoutException", "RuntimeError"} :
                 e = Raised(x)
<1>1. CASE e \in UpstreamEndings
  <2>1. \/ e \in {Returned(b) : b \in Bodies}
        \/ e \in {Refused(n, "plain") : n \in ErrorStatuses}
        \/ e \in {Refused(n, "undecodable") : n \in ErrorStatuses}
        \/ e \in {Refused(404, "path"), Raised("TransportError"), Raised("JSONDecodeError")}
    BY <1>1, Zenon DEF UpstreamEndings
  <2>2. QED
    BY <2>1
<1>2. CASE e \in {TimedOut, Raised("RuntimeError")}
  BY <1>2 DEF TimedOut
<1>3. QED
  BY <1>1, <1>2 DEF Endings

(* Every ending carries a status number. *)
LEMMA EndingStatus ==
    ASSUME NEW e \in Endings
    PROVE  e.status \in Nat
<1>1. CASE \E b \in Bodies : e = Returned(b)
  BY <1>1 DEF Returned, Ending
<1>2. CASE \E n \in ErrorStatuses, d \in {"plain", "undecodable"} : e = Refused(n, d)
  BY <1>2, OtherStatusesAssumption DEF ErrorStatuses, Refused, Ending
<1>3. CASE e = Refused(404, "path")
  BY <1>3 DEF Refused, Ending
<1>4. CASE \E x : e = Raised(x)
  BY <1>4 DEF Raised, Ending
<1>5. QED
  BY <1>1, <1>2, <1>3, <1>4, EndingShapes, Zenon

(* Of the endings that are no returned value, the class of what was raised. *)
LEMMA EndingClass ==
    ASSUME NEW e \in Endings, e.raised # "nothing"
    PROVE  e.raised \in {"HTTPStatusError", "TransportError", "JSONDecodeError",
                        "TimeoutException", "RuntimeError"}
<1>1. ~ \E b \in Bodies : e = Returned(b)
  BY DEF Returned, Ending
<1>2. CASE \E n \in ErrorStatuses, d \in {"plain", "undecodable"} : e = Refused(n, d)
  BY <1>2 DEF Refused, Ending
<1>3. CASE e = Refused(404, "path")
  BY <1>3 DEF Refused, Ending
<1>4. CASE \E x \in {"TransportError", "JSONDecodeError", "TimeoutException", "RuntimeError"} :
              e = Raised(x)
  BY <1>4 DEF Raised, Ending
<1>5. QED
  BY <1>1, <1>2, <1>3, <1>4, EndingShapes, Zenon

(* Whatever the verb and the ending, an adapter produces a proper reply. *)
LEMMA AdapterReplyType ==
    ASSUME NEW verb, NEW e \in Endings
    PROVE  AdapterReply(verb, e) \in Replies
<1>1. \A s \in Nat, k \in Codes : Reply(s, k) \in Replies
  BY DEF Reply, Replies
<1>2. \A f, op : f.status \in Nat => TranslateStatus(f, op) \in Replies
  BY <1>1 DEF TranslateStatus, Untranslated, Codes
<1>3. \A f, op : f.status \in Nat => Translate(f, op) \in Replies
  BY <1>1, <1>2 DEF Translate, Codes
<1>4. Raised("CAPAdapterError").status \in Nat
  BY DEF Raised, Ending
<1>5. \A r \in Replies : Retranslate(verb, r) \in Replies
  BY <1>3, <1>4 DEF Retranslate
<1>6. \A b : ReadBody(verb, b) \in Replies
  BY <1>1 DEF ReadBody, Untranslated, Success, Codes
<1>7. QED
  BY <1>3, <1>5, <1>6, EndingStatus DEF AdapterReply

(* A request that is not admitted is refused with a proper CAP error. *)
LEMMA RefusalType ==
    ASSUME NEW q, ~Admitted(q)
    PROVE  /\ Refusal(q) \in Replies
           /\ Refusal(q).code \in {"verb_not_supported", "invalid_request", "invalid_intervention"}
<1>1. Refusal(q) \in {Reply(400, "verb_not_supported"), Reply(422, "invalid_request"),
                      Reply(400, "invalid_request"), Reply(400, "invalid_intervention")}
  BY DEF Admitted, Refusal, UnsupportedGraph, NonLinear
<1>2. QED
  BY <1>1 DEF Reply, Replies, Codes

(* A success is a reply. *)
LEMMA SuccessType == Success \in Replies
  BY DEF Success, Reply, Replies, Codes

-----------------------------------------------------------------------------
(* Types. *)

(* Leaving the line keeps its books well typed. *)
LEMMA BehindType ==
    ASSUME PoolTypeOK, NEW c \in Callers
    PROVE  Behind(c) \in [Callers -> SUBSET Callers]
  BY DEF PoolTypeOK, Behind

(* A call's ending is an ending when its task resumes, and a request is     *)
(* being worked on only if it was sent: with that, types are preserved.     *)
LEMMA TypeStep ==
    ASSUME TypeOK, CallHistory, [Next]_vars
    PROVE  TypeOK'
<1> USE DEF TypeOK, PoolTypeOK
<1>1. ASSUME NEW k \in GatewayKeys, Start(k) PROVE TypeOK'
  BY <1>1, GatewayKeysAssumption DEF Start, callVars, poolVars
<1>2. CASE BeginShutdown
  BY <1>2 DEF BeginShutdown, callVars, poolVars
<1>3. CASE CloseClient
  BY <1>3 DEF CloseClient, callVars, poolVars
<1>4. ASSUME NEW c \in Callers, NEW q \in Workload, Receive(c, q) PROVE TypeOK'
  BY <1>4 DEF Receive, Phases, serverVars, poolVars
<1>5. ASSUME NEW c \in Callers, NEW e \in UpstreamEndings, UpstreamAnswers(c, e) PROVE TypeOK'
  BY <1>5 DEF UpstreamAnswers, serverVars, poolVars
<1>6. ASSUME NEW c \in Callers, NEW r \in Replies, Answer(c, r) PROVE TypeOK'
  BY <1>6 DEF Answer, Phases, serverVars, callVars, poolVars
<1>7. ASSUME NEW c \in Callers, NEW e \in Endings, EndCall(c, e) PROVE TypeOK'
  BY <1>7, BehindType DEF EndCall, GiveUpPlace, Phases, serverVars
<1>8. ASSUME NEW c \in Callers, Work(c) PROVE TypeOK'
  <2>1. CASE Reject(c)
    BY <1>6, <2>1, RefusalType DEF Reject
  <2>2. CASE AnswerLocally(c)
    BY <1>6, <2>2, SuccessType DEF AnswerLocally
  <2>3. CASE PlaceCall(c)
    <3>1. CredentialFor(request[c], gatewayKey) \in Tokens \cup {NoToken}
      BY <2>3, WorkloadAssumption DEF PlaceCall, CallHistory, HistoryOf, CredentialFor, Requests
    <3>2. QED
      BY <2>3, <3>1 DEF PlaceCall, JoinLine, Phases, serverVars
  <2>4. CASE FailToCall(c)
    BY <2>4 DEF FailToCall, Phases, Endings, serverVars, poolVars
  <2>5. CASE SendCall(c)
    BY <2>5, BehindType DEF SendCall, TakeConnection, Phases, serverVars
  <2>6. CASE ReadAnswer(c)
    BY <1>7, <2>6 DEF ReadAnswer, Endings
  <2>7. CASE DeadlineExpires(c)
    BY <1>7, <2>7 DEF DeadlineExpires, Endings
  <2>8. CASE Conclude(c)
    BY <1>6, <2>8, AdapterReplyType DEF Conclude, CallHistory, HistoryOf, CallEnded
  <2>9. QED
    BY <1>8, <2>1, <2>2, <2>3, <2>4, <2>5, <2>6, <2>7, <2>8 DEF Work
<1>9. CASE UNCHANGED vars
  BY <1>9 DEF vars, serverVars, callVars, poolVars
<1>10. QED
  BY <1>1, <1>2, <1>3, <1>4, <1>5, <1>8, <1>9 DEF Next, Environment

-----------------------------------------------------------------------------
(* Invariants. *)

(* A step of the server leaves the history of every request it does not     *)
(* concern alone and writes that of the one it does correctly.              *)
LEMMA HistoryStep ==
    ASSUME TypeOK, CallHistory, [Next]_vars
    PROVE  CallHistory'
<1> USE DEF TypeOK
<1>a. \A c \in Callers : HistoryOf(c)
  BY DEF CallHistory
<1>b. ASSUME NEW c \in Callers,
             phase'[c] = phase[c], request'[c] = request[c], exchanges'[c] = exchanges[c],
             ending'[c] = ending[c], reply'[c] = reply[c]
      PROVE  HistoryOf(c)'
  BY <1>a, <1>b DEF HistoryOf, CallEnded
<1>1. ASSUME NEW k \in GatewayKeys, Start(k) PROVE CallHistory'
  BY <1>1 DEF Start, CallHistory, HistoryOf, CallEnded, Busy, callVars
<1>2. CASE BeginShutdown
  BY <1>2 DEF BeginShutdown, CallHistory, HistoryOf, CallEnded, Busy, callVars
<1>3. CASE CloseClient
  BY <1>3 DEF CloseClient, CallHistory, HistoryOf, CallEnded, Busy, callVars
<1>4. CASE UNCHANGED vars
  BY <1>4 DEF vars, CallHistory, HistoryOf, CallEnded, Busy, serverVars, callVars
<1>5. ASSUME NEW c \in Callers, UNCHANGED serverVars,
             clientOpen, HistoryOf(c)',
             \A d \in Callers \ {c} :
                /\ phase'[d] = phase[d] /\ request'[d] = request[d]
                /\ exchanges'[d] = exchanges[d] /\ ending'[d] = ending[d]
                /\ reply'[d] = reply[d]
      PROVE  CallHistory'
  <2>1. \A d \in Callers : HistoryOf(d)'
    BY <1>b, <1>5
  <2>2. clientOpen' /\ lifecycle' # "stopped"
    BY <1>5 DEF serverVars, CallHistory
  <2>3. QED
    BY <2>1, <2>2 DEF CallHistory
<1>6. ASSUME NEW c \in Callers, NEW q \in Workload, Receive(c, q) PROVE CallHistory'
  <2>1. HistoryOf(c)'
    BY <1>6 DEF Receive, HistoryOf
  <2>2. clientOpen
    BY <1>6 DEF Receive, CallHistory
  <2>3. QED
    BY <1>5, <1>6, <2>1, <2>2 DEF Receive
<1>7. ASSUME NEW c \in Callers, NEW e \in UpstreamEndings, UpstreamAnswers(c, e) PROVE CallHistory'
  <2>1. clientOpen
    BY <1>7 DEF UpstreamAnswers, CallHistory, Busy
  <2>2. HistoryOf(c)'
    BY <1>b, <1>7 DEF UpstreamAnswers
  <2>3. QED
    BY <1>5, <1>7, <2>1, <2>2 DEF UpstreamAnswers
<1>8. ASSUME NEW c \in Callers, Work(c) PROVE CallHistory'
  <2> USE <1>a
  <2>1. clientOpen
    BY <1>8 DEF Work, Reject, AnswerLocally, PlaceCall, FailToCall, SendCall,
                ReadAnswer, DeadlineExpires, Conclude, CallHistory, Busy
  <2>2. CASE Reject(c)
    <3>1. HistoryOf(c)'
      BY <2>2 DEF Reject, Answer, HistoryOf, Forwarded, callVars
    <3>2. QED
      BY <1>5, <2>1, <2>2, <3>1 DEF Reject, Answer, callVars
  <2>3. CASE AnswerLocally(c)
    <3>1. HistoryOf(c)'
      BY <2>3 DEF AnswerLocally, Answer, HistoryOf, Forwarded, UpstreamVerbs, callVars
    <3>2. QED
      BY <1>5, <2>1, <2>3, <3>1 DEF AnswerLocally, Answer, callVars
  <2>4. CASE PlaceCall(c)
    <3>1. HistoryOf(c)'
      BY <2>4 DEF PlaceCall, HistoryOf
    <3>2. QED
      BY <1>5, <2>1, <2>4, <3>1 DEF PlaceCall
  <2>5. CASE FailToCall(c)
    <3>1. HistoryOf(c)'
      BY <2>5 DEF FailToCall, HistoryOf, CallEnded, Endings
    <3>2. QED
      BY <1>5, <2>1, <2>5, <3>1 DEF FailToCall
  <2>6. CASE SendCall(c)
    <3>1. HistoryOf(c)'
      BY <2>6 DEF SendCall, HistoryOf
    <3>2. QED
      BY <1>5, <2>1, <2>6, <3>1 DEF SendCall
  <2>7. CASE ReadAnswer(c)
    <3>1. HistoryOf(c)'
      BY <2>7 DEF ReadAnswer, EndCall, HistoryOf, CallEnded, Endings
    <3>2. QED
      BY <1>5, <2>1, <2>7, <3>1 DEF ReadAnswer, EndCall
  <2>8. CASE DeadlineExpires(c)
    <3>1. HistoryOf(c)'
      BY <2>8 DEF DeadlineExpires, EndCall, HistoryOf, CallEnded, Endings
    <3>2. QED
      BY <1>5, <2>1, <2>8, <3>1 DEF DeadlineExpires, EndCall
  <2>9. CASE Conclude(c)
    <3>1. HistoryOf(c)'
      BY <2>9 DEF Conclude, Answer, HistoryOf, CallEnded, callVars
    <3>2. QED
      BY <1>5, <2>1, <2>9, <3>1 DEF Conclude, Answer, callVars
  <2>10. QED
    BY <1>8, <2>2, <2>3, <2>4, <2>5, <2>6, <2>7, <2>8, <2>9 DEF Work
<1>9. QED
  BY <1>1, <1>2, <1>3, <1>4, <1>6, <1>7, <1>8 DEF Next, Environment

(* Connections are taken and returned exactly when calls go to the upstream *)
(* and end; the bound holds because a call takes one only below it.         *)
LEMMA ConnectionsStep ==
    ASSUME TypeOK, TypeOK', ConnectionsAccounted, LineIsOrdered, [Next]_vars
    PROVE  ConnectionsAccounted'
<1> USE DEF TypeOK, PoolTypeOK
<1>a. IsFiniteSet(held)
  BY CallersAssumption, FS_Subset
<1>1. CASE /\ UNCHANGED <<held, wire>>
           /\ \A c \in Callers : phase'[c] = "sent" <=> phase[c] = "sent"
  BY <1>1 DEF ConnectionsAccounted, InPhase
<1>2. ASSUME NEW c \in Callers, NEW e, EndCall(c, e) PROVE ConnectionsAccounted'
  <2>1. held' = InPhase("sent")'
    BY <1>2 DEF EndCall, GiveUpPlace, ConnectionsAccounted, InPhase
  <2>2. held' = held \ {c}
    BY <1>2 DEF EndCall, GiveUpPlace
  <2>3. /\ Cardinality(held) \in Nat /\ Cardinality(held') \in Nat
        /\ Cardinality(held') <= Cardinality(held)
    BY <1>a, <2>2, FS_Subset, FS_CardinalityType
  <2>4. \A d \in Callers : wire'[d] # NoEnding => d \in held'
    BY <1>2 DEF EndCall, GiveUpPlace, ConnectionsAccounted
  <2>5. QED
    BY <2>1, <2>3, <2>4, MaxConnectionsAssumption DEF ConnectionsAccounted
<1>3. ASSUME NEW c \in Callers, SendCall(c) PROVE ConnectionsAccounted'
  <2>1. c \notin held
    BY <1>3 DEF SendCall, ConnectionsAccounted, InPhase
  <2>2. Cardinality(held') = Cardinality(held) + 1 /\ Cardinality(held) \in Nat
    BY <1>3, <1>a, <2>1, FS_AddElement, FS_CardinalityType DEF SendCall, TakeConnection
  <2>3. Cardinality(held') <= MaxConnections
    BY <1>3, <2>2, MaxConnectionsAssumption DEF SendCall, TakeConnection
  <2>4. held' = InPhase("sent")'
    BY <1>3 DEF SendCall, TakeConnection, ConnectionsAccounted, InPhase
  <2>5. \A d \in Callers : wire'[d] # NoEnding => d \in held'
    BY <1>3 DEF SendCall, TakeConnection, ConnectionsAccounted
  <2>6. QED
    BY <2>3, <2>4, <2>5 DEF ConnectionsAccounted
<1>4. ASSUME NEW c \in Callers, NEW e \in UpstreamEndings, UpstreamAnswers(c, e)
      PROVE  ConnectionsAccounted'
  BY <1>4 DEF UpstreamAnswers, ConnectionsAccounted, InPhase, poolVars
<1>5. ASSUME NEW k \in GatewayKeys, Start(k) PROVE ConnectionsAccounted'
  BY <1>1, <1>5 DEF Start, callVars, poolVars
<1>6. CASE BeginShutdown \/ CloseClient
  BY <1>1, <1>6 DEF BeginShutdown, CloseClient, callVars, poolVars
<1>7. ASSUME NEW c \in Callers, NEW q \in Workload, Receive(c, q) PROVE ConnectionsAccounted'
  BY <1>1, <1>7 DEF Receive, Busy, poolVars
<1>8. ASSUME NEW c \in Callers, NEW r, Answer(c, r), phase[c] # "sent" PROVE ConnectionsAccounted'
  BY <1>1, <1>8 DEF Answer, callVars, poolVars
<1>9. ASSUME NEW c \in Callers, Work(c) PROVE ConnectionsAccounted'
  <2>1. CASE Reject(c) \/ AnswerLocally(c) \/ Conclude(c)
    BY <1>8, <2>1 DEF Reject, AnswerLocally, Conclude
  <2>2. CASE PlaceCall(c)
    BY <1>1, <2>2 DEF PlaceCall, JoinLine
  <2>3. CASE FailToCall(c)
    BY <1>1, <2>3 DEF FailToCall, poolVars
  <2>4. CASE ReadAnswer(c) \/ DeadlineExpires(c)
    BY <1>2, <2>4 DEF ReadAnswer, DeadlineExpires
  <2>5. QED
    BY <1>3, <1>9, <2>1, <2>2, <2>3, <2>4 DEF Work
<1>10. CASE UNCHANGED vars
  BY <1>1, <1>10 DEF vars, callVars, poolVars
<1>11. QED
  BY <1>4, <1>5, <1>6, <1>7, <1>9, <1>10 DEF Next, Environment

(* A newcomer goes behind everybody, whoever leaves is struck from          *)
(* everybody's list: the line stays one line.                               *)
LEMMA LineStep ==
    ASSUME TypeOK, TypeOK', LineIsOrdered, [Next]_vars
    PROVE  LineIsOrdered'
<1> USE DEF TypeOK, PoolTypeOK
<1>1. CASE /\ UNCHANGED <<line, ahead>>
           /\ \A c \in Callers : phase'[c] = "pooling" <=> phase[c] = "pooling"
  BY <1>1 DEF LineIsOrdered, InPhase
<1>2. ASSUME NEW c \in Callers, line' = line \ {c}, ahead' = Behind(c),
             line' = InPhase("pooling")'
      PROVE  LineIsOrdered'
  BY <1>2 DEF LineIsOrdered, Behind
<1>3. ASSUME NEW c \in Callers, PlaceCall(c) PROVE LineIsOrdered'
  <2>1. c \notin line /\ line' = line \cup {c}
    BY <1>3 DEF PlaceCall, JoinLine, LineIsOrdered, InPhase
  <2>2. line' = InPhase("pooling")'
    BY <1>3, <2>1 DEF PlaceCall, LineIsOrdered, InPhase
  <2>3. /\ ahead'[c] = line
        /\ \A d \in Callers \ {c} : ahead'[d] = ahead[d]
    BY <1>3 DEF PlaceCall, JoinLine
  <2>4. QED
    BY <2>1, <2>2, <2>3 DEF LineIsOrdered
<1>4. ASSUME NEW c \in Callers, SendCall(c) PROVE LineIsOrdered'
  <2>1. line' = InPhase("pooling")'
    BY <1>4 DEF SendCall, TakeConnection, LineIsOrdered, InPhase
  <2>2. QED
    BY <1>2, <1>4, <2>1 DEF SendCall, TakeConnection
<1>5. ASSUME NEW c \in Callers, NEW e, EndCall(c, e) PROVE LineIsOrdered'
  <2>1. line' = InPhase("pooling")'
    BY <1>5 DEF EndCall, GiveUpPlace, LineIsOrdered, InPhase
  <2>2. QED
    BY <1>2, <1>5, <2>1 DEF EndCall, GiveUpPlace
<1>6. ASSUME NEW c \in Callers, NEW r, Answer(c, r), phase[c] # "pooling" PROVE LineIsOrdered'
  BY <1>1, <1>6 DEF Answer, poolVars
<1>7. ASSUME NEW c \in Callers, Work(c) PROVE LineIsOrdered'
  <2>1. CASE Reject(c) \/ AnswerLocally(c) \/ Conclude(c)
    BY <1>6, <2>1 DEF Reject, AnswerLocally, Conclude
  <2>2. CASE FailToCall(c)
    BY <1>1, <2>2 DEF FailToCall, poolVars
  <2>3. CASE ReadAnswer(c) \/ DeadlineExpires(c)
    BY <1>5, <2>3 DEF ReadAnswer, DeadlineExpires
  <2>4. QED
    BY <1>3, <1>4, <1>7, <2>1, <2>2, <2>3 DEF Work
<1>8. CASE \/ \E k \in GatewayKeys : Start(k)
           \/ BeginShutdown \/ CloseClient \/ UNCHANGED vars
  BY <1>1, <1>8 DEF Start, BeginShutdown, CloseClient, vars, poolVars
<1>9. ASSUME NEW c \in Callers, NEW q \in Workload, Receive(c, q) PROVE LineIsOrdered'
  BY <1>1, <1>9 DEF Receive, Busy, poolVars
<1>10. ASSUME NEW c \in Callers, NEW e \in UpstreamEndings, UpstreamAnswers(c, e) PROVE LineIsOrdered'
  BY <1>1, <1>10 DEF UpstreamAnswers, poolVars
<1>11. QED
  BY <1>7, <1>8, <1>9, <1>10 DEF Next, Environment

(* A call is placed only behind the guards, with its own request's          *)
(* credential; neither the request nor the server's key changes while it is *)
(* under way.                                                               *)
LEMMA AdmissionStep ==
    ASSUME TypeOK, CallHistory, CallHistory', OnlyAdmittedCalls, [Next]_vars
    PROVE  OnlyAdmittedCalls'
<1> USE DEF TypeOK
<1> DEFINE OnItsWay(c) == phase[c] \in {"pooling", "sent"}
           Proper(c) ==
               /\ request[c].wellFormed /\ request[c].verb \in UpstreamVerbs
               /\ request[c].graph = "unsupported"
                      => request[c].verb = "extensions.abel.intervene_time_lag"
               /\ request[c].verb = "extensions.abel.intervene_time_lag" => request[c].linear
               /\ credential[c] # NoToken
               /\ \/ credential[c] = request[c].auth
                  \/ request[c].auth = NoToken /\ credential[c] = gatewayKey
<1>a. \A c \in Callers : OnItsWay(c) => Proper(c) /\ clientOpen
  BY DEF OnlyAdmittedCalls, InPhase
<1>b. ASSUME \A c \in Callers : OnItsWay(c)' => Proper(c)'
      PROVE  OnlyAdmittedCalls'
  <2>1. \A c \in Callers : OnItsWay(c)' => clientOpen'
    BY DEF CallHistory, Busy
  <2>2. QED
    BY <1>b, <2>1 DEF OnlyAdmittedCalls, InPhase
<1>c. ASSUME gatewayKey' = gatewayKey,
             \A c \in Callers : OnItsWay(c)' => /\ OnItsWay(c)
                                                /\ request'[c] = request[c]
                                                /\ credential'[c] = credential[c]
      PROVE  OnlyAdmittedCalls'
  BY <1>a, <1>b, <1>c
<1>1. ASSUME NEW k \in GatewayKeys, Start(k) PROVE OnlyAdmittedCalls'
  <2>1. \A c \in Callers : ~OnItsWay(c)'
    BY <1>1 DEF Start, CallHistory, Busy
  <2>2. QED
    BY <1>b, <2>1
<1>2. CASE BeginShutdown \/ CloseClient \/ UNCHANGED vars
  BY <1>2, <1>c DEF BeginShutdown, CloseClient, vars, serverVars, callVars
<1>3. ASSUME NEW c \in Callers, NEW q \in Workload, Receive(c, q) PROVE OnlyAdmittedCalls'
  BY <1>3, <1>c DEF Receive, serverVars
<1>4. ASSUME NEW c \in Callers, NEW e \in UpstreamEndings, UpstreamAnswers(c, e)
      PROVE  OnlyAdmittedCalls'
  BY <1>4, <1>c DEF UpstreamAnswers, serverVars
<1>5. ASSUME NEW c \in Callers, PlaceCall(c) PROVE OnlyAdmittedCalls'
  <2>1. Proper(c)'
    <3>1. request'[c] = request[c] /\ gatewayKey' = gatewayKey
      BY <1>5 DEF PlaceCall, serverVars
    <3>2. credential'[c] = CredentialFor(request[c], gatewayKey) /\ credential'[c] # NoToken
      BY <1>5 DEF PlaceCall, CannotCall
    <3>3. \/ credential'[c] = request[c].auth
          \/ request[c].auth = NoToken /\ credential'[c] = gatewayKey
      BY <3>2 DEF CredentialFor
    <3>4. /\ request[c].wellFormed /\ request[c].verb \in UpstreamVerbs
          /\ ~UnsupportedGraph(request[c]) /\ ~NonLinear(request[c])
      BY <1>5 DEF PlaceCall, Forwarded, Admitted, Refusal, Reply, NoReply
    <3>5. QED
      BY <3>1, <3>2, <3>3, <3>4 DEF UnsupportedGraph, NonLinear, GuardsGraphRef
  <2>2. \A d \in Callers \ {c} : OnItsWay(d)' => Proper(d)'
    BY <1>5, <1>a DEF PlaceCall, serverVars
  <2>3. QED
    BY <1>b, <2>1, <2>2
<1>6. ASSUME NEW c \in Callers, Work(c) PROVE OnlyAdmittedCalls'
  <2>1. CASE Reject(c) \/ AnswerLocally(c) \/ Conclude(c)
    BY <1>c, <2>1 DEF Reject, AnswerLocally, Conclude, Answer, serverVars, callVars
  <2>2. CASE FailToCall(c) \/ SendCall(c)
    BY <1>c, <2>2 DEF FailToCall, SendCall, serverVars
  <2>3. CASE ReadAnswer(c) \/ DeadlineExpires(c)
    BY <1>c, <2>3 DEF ReadAnswer, DeadlineExpires, EndCall, serverVars
  <2>4. QED
    BY <1>5, <1>6, <2>1, <2>2, <2>3 DEF Work
<1>7. QED
  BY <1>1, <1>2, <1>3, <1>4, <1>6 DEF Next, Environment

(* The inductive invariant. *)
IInv ==
    /\ TypeOK
    /\ CallHistory
    /\ ConnectionsAccounted
    /\ LineIsOrdered
    /\ OnlyAdmittedCalls

(* The inductive invariant holds when the process has not yet been started. *)
LEMMA InitIInv == Init => IInv
<1> SUFFICES ASSUME Init PROVE IInv
  OBVIOUS
<1>1. TypeOK
  BY DEF Init, TypeOK, Phases, PoolInit, PoolTypeOK
<1>2. CallHistory
  BY DEF Init, CallHistory, HistoryOf, Busy
<1>3. ConnectionsAccounted
  BY FS_EmptySet, MaxConnectionsAssumption DEF Init, PoolInit, ConnectionsAccounted, InPhase
<1>4. LineIsOrdered /\ OnlyAdmittedCalls
  BY DEF Init, PoolInit, LineIsOrdered, OnlyAdmittedCalls, InPhase
<1>5. QED
  BY <1>1, <1>2, <1>3, <1>4 DEF IInv

(* Every step of the server preserves the inductive invariant. *)
LEMMA NextIInv == IInv /\ [Next]_vars => IInv'
<1> SUFFICES ASSUME IInv, [Next]_vars PROVE IInv'
  OBVIOUS
<1>1. TypeOK'
  BY TypeStep DEF IInv
<1>2. CallHistory'
  BY HistoryStep DEF IInv
<1>3. ConnectionsAccounted' /\ LineIsOrdered'
  BY <1>1, ConnectionsStep, LineStep DEF IInv
<1>4. OnlyAdmittedCalls'
  BY <1>2, AdmissionStep DEF IInv
<1>5. QED
  BY <1>1, <1>2, <1>3, <1>4 DEF IInv

(* Hence the inductive invariant holds in every reachable state. *)
LEMMA InvariantHolds == Spec => []IInv
  BY InitIInv, NextIInv, PTL DEF Spec

(* Every reachable state is well typed: phases, endings, replies and pool   *)
(* never leave their domains, whatever the upstream answers.                *)
THEOREM TypeCorrect == Spec => []TypeOK
<1>1. IInv => TypeOK
  BY DEF IInv
<1>2. QED
  BY <1>1, InvariantHolds, PTL

(* What a request's phase says of its history holds for every workload, the *)
(* clearing of what its caller's previous request left included.            *)
THEOREM HistoryIsKept == Spec => []CallHistory
<1>1. IInv => CallHistory
  BY DEF IInv
<1>2. QED
  BY <1>1, InvariantHolds, PTL

(* For every pool size: connections are held by exactly the calls that are  *)
(* with the upstream and never exceed the pool, and no answer outlives its  *)
(* call on the wire.                                                        *)
THEOREM PoolIsAccounted == Spec => []ConnectionsAccounted
<1>1. IInv => ConnectionsAccounted
  BY DEF IInv
<1>2. QED
  BY <1>1, InvariantHolds, PTL

(* The calls waiting for a connection always form one line, without         *)
(* strangers and without ghosts of calls that left it.                      *)
THEOREM LineStaysOrdered == Spec => []LineIsOrdered
<1>1. IInv => LineIsOrdered
  BY DEF IInv
<1>2. QED
  BY <1>1, InvariantHolds, PTL

(* For every workload and every choice of keys: what is on its way upstream *)
(* passed the guards of its adapter, carries its own caller's token or the  *)
(* server's key, and uses an open client.                                   *)
THEOREM Admission == Spec => []OnlyAdmittedCalls
<1>1. IInv => OnlyAdmittedCalls
  BY DEF IInv
<1>2. QED
  BY <1>1, InvariantHolds, PTL

-----------------------------------------------------------------------------
(* Replies. *)

(* A call that never got a connection ends in a timeout or in a             *)
(* RuntimeError; of neither do the adapters make a result or a statement    *)
(* about the upstream.                                                      *)
LEMMA UnsentCallsSayLittle ==
    ASSUME NEW verb, NEW e \in {TimedOut, Raised("RuntimeError")}
    PROVE  AdapterReply(verb, e).code \in {"computation_timeout", "upstream_error"}
<1>1. /\ e.raised \in {"TimeoutException", "RuntimeError"}
      /\ Raised("CAPAdapterError").raised = "CAPAdapterError"
  BY DEF TimedOut, Raised, Ending
<1>2. Translate(e, Operation(verb)).code \in {"computation_timeout", "upstream_error"}
  BY <1>1 DEF Translate, Classes, Reply
<1>3. Translate(Raised("CAPAdapterError"), Operation(verb)).code = "upstream_error"
  BY <1>1 DEF Translate, Classes, Reply
<1>4. QED
  BY <1>1, <1>2, <1>3 DEF AdapterReply, Retranslate

(* "verb_not_supported" is the dispatcher's word, never an adapter's. *)
LEMMA AdapterAnswersItsVerb ==
    ASSUME NEW verb, NEW e
    PROVE  AdapterReply(verb, e).code # "verb_not_supported"
<1>1. \A f, op : Translate(f, op).code # "verb_not_supported"
  BY DEF Translate, TranslateStatus, Untranslated, Reply
<1>2. \A b : ReadBody(verb, b).code # "verb_not_supported"
  BY DEF ReadBody, Untranslated, Success, Reply
<1>3. QED
  BY <1>1, <1>2 DEF AdapterReply, Retranslate

(* However its call ends, a request reaches the upstream at most once, and  *)
(* what the caller is told about the upstream presupposes that it did.      *)
THEOREM NoRetries == Spec => []AtMostOneExchange
<1>1. IInv => AtMostOneExchange
  <2> SUFFICES ASSUME IInv, NEW c \in Callers
               PROVE  /\ exchanges[c] <= 1
                      /\ phase[c] = "pooling" => exchanges[c] = 0
                      /\ /\ phase[c] = "replied"
                         /\ request[c].verb \in UpstreamVerbs
                         /\ reply[c].code \in {"ok", "node_not_found", "path_not_found", "service_unavailable"}
                         => exchanges[c] = 1
    BY DEF AtMostOneExchange
  <2>1. HistoryOf(c)
    BY DEF IInv, CallHistory
  <2>2. exchanges[c] \in Nat /\ phase[c] \in Phases
    BY DEF IInv, TypeOK
  <2>3. exchanges[c] <= 1
    BY <2>1, <2>2 DEF HistoryOf, CallEnded, Phases
  <2>4. ASSUME phase[c] = "replied", request[c].verb \in UpstreamVerbs,
               reply[c].code \in {"ok", "node_not_found", "path_not_found", "service_unavailable"}
        PROVE  exchanges[c] = 1
    <3>1. CASE CallEnded(c) /\ reply[c] = AdapterReply(request[c].verb, ending[c])
      BY <2>4, <3>1, UnsentCallsSayLittle DEF CallEnded
    <3>2. CASE ~Forwarded(request[c]) /\ reply[c] = IF Admitted(request[c]) THEN Success
                                                                      ELSE Refusal(request[c])
      <4>1. ~Admitted(request[c])
        BY <2>4, <3>2 DEF Forwarded
      <4>2. QED
        BY <2>4, <3>2, <4>1, RefusalType
    <3>3. QED
      BY <2>1, <2>4, <3>1, <3>2 DEF HistoryOf
  <2>5. QED
    BY <2>1, <2>3, <2>4 DEF HistoryOf
<1>2. QED
  BY <1>1, InvariantHolds, PTL

(* For every verb, workload and set of upstream statuses: a failed exchange *)
(* is reported with the documented code, an upstream status keeps its       *)
(* number, a timeout is a 504 (excepted: extensions.abel.markov_blanket,    *)
(* which translates twice, and errors whose body is no text).               *)
THEOREM ErrorPolicy == Spec => []ReportedAsDocumented
<1>1. ASSUME NEW verb, verb \notin TranslatesTwice, NEW e \in Endings, e.raised # "nothing",
             e.detail # "undecodable"
      PROVE  /\ AdapterReply(verb, e).code \in DocumentedCodes(e)
             /\ e.raised = "HTTPStatusError" => AdapterReply(verb, e).status = e.status
             /\ e = TimedOut => AdapterReply(verb, e).status = 504
  <2>1. AdapterReply(verb, e) = Translate(e, Operation(verb))
    BY <1>1 DEF AdapterReply, Retranslate
  <2>2. e.raised \in {"HTTPStatusError", "TransportError", "JSONDecodeError",
                     "TimeoutException", "RuntimeError"}
    BY <1>1, EndingClass
  <2>3. CASE e.raised = "HTTPStatusError"
    <3>1. Translate(e, Operation(verb)) = TranslateStatus(e, Operation(verb))
      BY <2>3 DEF Translate, Classes
    <3>2. e # TimedOut
      BY <2>3 DEF TimedOut, Raised, Ending
    <3>3. QED
      BY <1>1, <2>1, <2>3, <3>1, <3>2 DEF TranslateStatus, DocumentedCodes, Reply
  <2>4. CASE e.raised = "TimeoutException"
    BY <2>1, <2>4 DEF Translate, Classes, DocumentedCodes, Reply
  <2>5. CASE e.raised \in {"TransportError", "JSONDecodeError", "RuntimeError"}
    <3>1. e # TimedOut
      BY <2>5 DEF TimedOut, Raised, Ending
    <3>2. QED
      BY <2>1, <2>5, <3>1 DEF Translate, Classes, DocumentedCodes, Reply
  <2>6. QED
    BY <2>2, <2>3, <2>4, <2>5
<1>2. IInv => ReportedAsDocumented
  <2> SUFFICES ASSUME IInv, NEW c \in InPhase("replied"),
                      ending[c].raised \notin {"none", "nothing"},
                      ending[c].detail # "undecodable",
                      request[c].verb \notin TranslatesTwice
               PROVE  /\ reply[c].code \in DocumentedCodes(ending[c])
                      /\ ending[c].raised = "HTTPStatusError" => reply[c].status = ending[c].status
                      /\ ending[c] = TimedOut => reply[c].status = 504
    BY DEF ReportedAsDocumented
  <2>1. NoEnding.raised = "none"
    BY DEF NoEnding, Ending
  <2>2. ending[c] \in Endings /\ reply[c] = AdapterReply(request[c].verb, ending[c])
    BY <2>1 DEF IInv, CallHistory, HistoryOf, CallEnded, InPhase
  <2>3. QED
    BY <1>1, <2>2
<1>3. QED
  BY <1>2, InvariantHolds, PTL

(* No failure, and no effect that the upstream did not return, is ever      *)
(* turned into a result.                                                    *)
THEOREM ResultsAreEarned == Spec => []SuccessIsEarned
<1>1. ASSUME NEW verb \in UpstreamVerbs, NEW e \in Endings, AdapterReply(verb, e).code = "ok"
      PROVE  /\ e.raised = "nothing"
             /\ e.body # "misshapen"
             /\ verb \in NeedsOutcome => e.body = "full"
  <2>1. \A f, op : Translate(f, op).code # "ok"
    BY DEF Translate, TranslateStatus, Untranslated, Reply
  <2>2. \A r : r.code # "ok" => Retranslate(verb, r).code # "ok"
    BY <2>1 DEF Retranslate
  <2>3. e.raised = "nothing" /\ AdapterReply(verb, e) = ReadBody(verb, e.body)
    BY <1>1, <2>1, <2>2 DEF AdapterReply
  <2>4. QED
    BY <1>1, <2>3 DEF ReadBody, Untranslated, Reply
<1>2. IInv => SuccessIsEarned
  <2> SUFFICES ASSUME IInv, NEW c \in InPhase("replied"),
                      reply[c].code = "ok", request[c].verb \in UpstreamVerbs
               PROVE  /\ ending[c].raised = "nothing"
                      /\ ending[c].body # "misshapen"
                      /\ request[c].verb \in NeedsOutcome => ending[c].body = "full"
    BY DEF SuccessIsEarned
  <2>1. CASE CallEnded(c) /\ reply[c] = AdapterReply(request[c].verb, ending[c])
    BY <1>1, <2>1 DEF CallEnded
  <2>2. CASE ~Forwarded(request[c]) /\ reply[c] = IF Admitted(request[c]) THEN Success
                                                                    ELSE Refusal(request[c])
    <3>1. ~Admitted(request[c])
      BY <2>2 DEF Forwarded
    <3>2. QED
      BY <2>2, <3>1, RefusalType
  <2>3. QED
    BY <2>1, <2>2 DEF IInv, CallHistory, HistoryOf, InPhase
<1>3. QED
  BY <1>2, InvariantHolds, PTL

-----------------------------------------------------------------------------
(* Steps. *)

(* What a step does to a request that is answered: nothing, or the caller   *)
(* asks again.                                                              *)
LEMMA AnsweredStep ==
    ASSUME TypeOK, [Next]_vars, NEW c \in Callers, phase[c] = "replied"
    PROVE  \/ phase'[c] = "received"
           \/ phase'[c] = "replied" /\ reply'[c] = reply[c]
<1> USE DEF TypeOK
<1>1. CASE \E d \in Callers : Work(d)
  <2>1. PICK d \in Callers : Work(d)
    BY <1>1
  <2>2. phase[d] # "replied"
    BY <2>1 DEF Work, Reject, AnswerLocally, PlaceCall, FailToCall, SendCall,
                ReadAnswer, DeadlineExpires, Conclude
  <2>3. phase'[c] = phase[c] /\ reply'[c] = reply[c]
    BY <2>1, <2>2 DEF Work, Reject, AnswerLocally, PlaceCall, FailToCall, SendCall,
                      ReadAnswer, DeadlineExpires, Conclude, Answer, EndCall
  <2>4. QED
    BY <2>3
<1>2. CASE Environment
  BY <1>2 DEF Environment, Start, BeginShutdown, Receive, UpstreamAnswers
<1>3. CASE CloseClient \/ UNCHANGED vars
  BY <1>3 DEF CloseClient, vars
<1>4. QED
  BY <1>1, <1>2, <1>3 DEF Next

(* A reply is given once and never taken back or amended. *)
THEOREM RepliesAreFinal == Spec => AnsweredOnce
<1>1. TypeOK /\ [Next]_vars =>
        [\A c \in InPhase("replied") :
            phase'[c] = "received" \/ (phase'[c] = "replied" /\ reply'[c] = reply[c])]_vars
  BY AnsweredStep DEF InPhase
<1>2. QED
  BY <1>1, TypeCorrect, PTL DEF Spec, AnsweredOnce

-----------------------------------------------------------------------------
(* The contract. *)

(* The contract speaks of requests and replies in the server's own terms. *)
LEMMA SameTerms ==
    /\ Contract!NoReply = NoReply
    /\ Contract!Success = Success
    /\ Contract!Replies = Replies
    /\ Contract!LocalVerbs = LocalVerbs
    /\ \A q : Contract!Refusal(q) = Refusal(q)
    /\ \A q : Contract!Admitted(q) <=> Admitted(q)
    /\ \A q : Contract!Forwarded(q) <=> Forwarded(q)
<1>1. /\ Contract!NoReply = NoReply
      /\ Contract!Success = Success
      /\ Contract!Replies = Replies
  BY DEF Contract!NoReply, NoReply, Contract!Success, Success, Contract!Reply, Reply,
         Contract!Replies, Replies, Contract!Codes, Codes
<1>2. /\ Contract!LocalVerbs = LocalVerbs
      /\ Contract!UpstreamVerbs = UpstreamVerbs
      /\ Contract!RegisteredVerbs = RegisteredVerbs
  BY DEF Contract!LocalVerbs, LocalVerbs, Contract!PlainRoutes, PlainRoutes,
         Contract!UpstreamVerbs, UpstreamVerbs, Contract!RegisteredVerbs, RegisteredVerbs,
         Contract!CoreVerbs, CoreVerbs, Contract!ConvenienceVerbs, ConvenienceVerbs,
         Contract!ExtensionVerbs, ExtensionVerbs
<1>3. ASSUME NEW q PROVE Contract!Refusal(q) = Refusal(q)
  <2>1. /\ Contract!UnsupportedGraph(q) <=> UnsupportedGraph(q)
        /\ Contract!NonLinear(q) <=> NonLinear(q)
    BY <1>2 DEF Contract!UnsupportedGraph, UnsupportedGraph, Contract!NonLinear, NonLinear,
                Contract!GuardsGraphRef, GuardsGraphRef
  <2>2. \A n, k : Contract!Reply(n, k) = Reply(n, k)
    BY DEF Contract!Reply, Reply
  <2>3. Contract!PlainRoutes = PlainRoutes
    BY DEF Contract!PlainRoutes, PlainRoutes
  <2>4. QED
    BY <1>1, <1>2, <2>1, <2>2, <2>3 DEF Contract!Refusal, Refusal
<1>4. ASSUME NEW q PROVE /\ Contract!Admitted(q) <=> Admitted(q)
                         /\ Contract!Forwarded(q) <=> Forwarded(q)
  BY <1>1, <1>2, <1>3 DEF Contract!Admitted, Admitted, Contract!Forwarded, Forwarded
<1>5. QED
  BY <1>1, <1>2, <1>3, <1>4

(* The server before its start is the contract's initial state. *)
LEMMA ContractInit == Init => Contract!CInit
  BY SameTerms DEF Init, Contract!CInit

(* What each action of the server is to the contract: one of its actions,   *)
(* or nothing it sees.                                                      *)
LEMMA ContractActions ==
    ASSUME IInv, IInv'
    PROVE  /\ \A k : Start(k) => Contract!Launch
           /\ CloseClient => Contract!Retire
           /\ \A c \in Callers, q \in Workload : Receive(c, q) => Contract!Open(c, q)
           /\ \A c \in Callers : SendCall(c) => Contract!Consult(c)
           /\ \A c \in Callers :
                 Reject(c) \/ AnswerLocally(c) \/ Conclude(c) => Contract!Settle(c)
           /\ \/ BeginShutdown
              \/ \E c \in Callers, e \in UpstreamEndings : UpstreamAnswers(c, e)
              \/ \E c \in Callers : PlaceCall(c) \/ FailToCall(c) \/ ReadAnswer(c) \/ DeadlineExpires(c)
              => UNCHANGED Contract!contractVars
<1> USE DEF IInv, TypeOK
<1> DEFINE Stage == [c \in Callers |-> CASE phase[c] = "idle"    -> "none"
                                         [] phase[c] = "replied" -> "answered"
                                         [] OTHER                -> "open"]
<1>1. ASSUME NEW k, Start(k) PROVE Contract!Launch
  BY <1>1 DEF Start, Contract!Launch, callVars
<1>2. ASSUME BeginShutdown PROVE UNCHANGED Contract!contractVars
  BY <1>2 DEF BeginShutdown, serverVars, callVars, Contract!contractVars
<1>3. ASSUME CloseClient PROVE Contract!Retire
  BY <1>3 DEF CloseClient, Busy, Contract!Retire, callVars
<1>4. ASSUME NEW c \in Callers, NEW q \in Workload, Receive(c, q) PROVE Contract!Open(c, q)
  <2>1. Stage' = [Stage EXCEPT ![c] = "open"]
    BY <1>4 DEF Receive
  <2>2. Stage[c] # "open"
    BY <1>4 DEF Receive, Busy
  <2>3. QED
    BY <1>4, <2>1, <2>2, SameTerms DEF Receive, Contract!Open, serverVars
<1>5. ASSUME NEW c \in Callers, SendCall(c) PROVE Contract!Consult(c)
  <2>1. Stage' = Stage /\ Stage[c] = "open"
    BY <1>5 DEF SendCall
  <2>2. exchanges[c] = 0 /\ Forwarded(request[c]) /\ lifecycle # "stopped"
    BY <1>5 DEF SendCall, CallHistory, HistoryOf, Busy
  <2>3. QED
    BY <1>5, <2>1, <2>2, SameTerms DEF SendCall, Contract!Consult, serverVars
<1>6. ASSUME NEW c \in Callers, phase[c] \notin {"idle", "replied"}, NEW r, Answer(c, r)
      PROVE  Contract!Settle(c)
  <2>1. Stage' = [Stage EXCEPT ![c] = "answered"] /\ Stage[c] = "open"
    BY <1>6 DEF Answer
  <2>2. lifecycle # "stopped"
    BY <1>6 DEF CallHistory, Busy
  <2>3. reply' = [reply EXCEPT ![c] = reply'[c]] /\ reply'[c] \in Replies \cup {NoReply}
    BY <1>6 DEF Answer
  <2>4. reply'[c] \in IF exchanges[c] = 0 THEN Contract!UnconsultedAnswers(request[c])
                                         ELSE Contract!ConsultedAnswers
    <3>1. /\ HistoryOf(c)' /\ phase'[c] = "replied"
          /\ UNCHANGED <<request, exchanges, ending>>
      BY <1>6 DEF CallHistory, Answer, callVars
    <3>2. CASE CallEnded(c) /\ reply'[c] = AdapterReply(request[c].verb, ending[c])
      <4>1. reply'[c] \in Replies /\ reply'[c].code # "verb_not_supported"
        BY <3>2, AdapterReplyType, AdapterAnswersItsVerb DEF CallEnded
      <4>2. CASE exchanges[c] = 1
        BY <4>1, <4>2, SameTerms DEF Contract!ConsultedAnswers, Contract!UpstreamCodes,
                                     Contract!Codes, Codes, Replies
      <4>3. CASE exchanges[c] = 0
        <5>1. reply'[c].code \in Contract!OwnCodes
          BY <3>2, <4>3, UnsentCallsSayLittle DEF CallEnded, Contract!OwnCodes
        <5>2. Admitted(request[c]) /\ request[c].verb \notin LocalVerbs
          BY <3>2 DEF CallEnded, Forwarded, UpstreamVerbs
        <5>3. QED
          BY <4>1, <4>3, <5>1, <5>2, SameTerms DEF Contract!UnconsultedAnswers
      <4>4. QED
        BY <3>2, <4>2, <4>3 DEF CallEnded
    <3>3. CASE /\ exchanges[c] = 0
               /\ reply'[c] = IF Admitted(request[c]) THEN Success ELSE Refusal(request[c])
               /\ ~Forwarded(request[c])
      <4>1. Admitted(request[c]) => request[c].verb \in LocalVerbs
        BY <3>3 DEF Admitted, Refusal, Reply, NoReply, Forwarded, UpstreamVerbs, LocalVerbs
      <4>2. QED
        BY <3>3, <4>1, SameTerms DEF Contract!UnconsultedAnswers
    <3>4. QED
      BY <3>1, <3>2, <3>3 DEF HistoryOf, CallEnded
  <2>5. QED
    BY <1>6, <2>1, <2>2, <2>3, <2>4 DEF Answer, Contract!Settle, serverVars, callVars
<1>7. ASSUME NEW c \in Callers, NEW p \in {"received", "pooling", "sent", "returning"},
             phase[c] \notin {"idle", "replied"}, phase' = [phase EXCEPT ![c] = p],
             UNCHANGED <<lifecycle, request, exchanges, reply>>
      PROVE  UNCHANGED Contract!contractVars
  <2>1. Stage' = Stage
    BY <1>7
  <2>2. QED
    BY <1>7, <2>1 DEF Contract!contractVars
<1>8. ASSUME NEW c \in Callers, Reject(c) \/ AnswerLocally(c) \/ Conclude(c)
      PROVE  Contract!Settle(c)
  BY <1>6, <1>8 DEF Reject, AnswerLocally, Conclude
<1>9. ASSUME NEW c \in Callers, PlaceCall(c) \/ FailToCall(c) \/ ReadAnswer(c) \/ DeadlineExpires(c)
      PROVE  UNCHANGED Contract!contractVars
  BY <1>7, <1>9 DEF PlaceCall, FailToCall, ReadAnswer, DeadlineExpires, EndCall, serverVars
<1>10. ASSUME NEW c \in Callers, NEW e \in UpstreamEndings, UpstreamAnswers(c, e)
       PROVE  UNCHANGED Contract!contractVars
  BY <1>10 DEF UpstreamAnswers, Contract!contractVars, serverVars
<1>11. QED
  BY <1>1, <1>2, <1>3, <1>4, <1>5, <1>8, <1>9, <1>10

(* Each step of the server is a step of the contract, or one the contract   *)
(* does not see.                                                            *)
LEMMA ContractStep ==
    ASSUME IInv, IInv', [Next]_vars
    PROVE  [Contract!CNext]_(Contract!contractVars)
<1>1. CASE UNCHANGED vars
  BY <1>1 DEF vars, serverVars, callVars, Contract!contractVars
<1>2. CASE Environment \/ CloseClient
  BY <1>2, ContractActions DEF Environment, Contract!CNext
<1>3. CASE \E c \in Callers : Work(c)
  BY <1>3, ContractActions DEF Work, Contract!CNext
<1>4. QED
  BY <1>1, <1>2, <1>3 DEF Next

(* The detailed server implements the abstract contract: its initial states *)
(* are the contract's, each of its steps is a step of the contract or       *)
(* changes nothing the contract speaks of.                                  *)
THEOREM Refinement == Spec => KeepsContract
<1>1. IInv /\ IInv' /\ [Next]_vars => [Contract!CNext]_(Contract!contractVars)
  BY ContractStep
<1>2. QED
  BY <1>1, ContractInit, InvariantHolds, PTL DEF Spec, KeepsContract, Contract!CSpec
=============================================================================
