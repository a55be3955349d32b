------------------------ MODULE RequestLoggingProofs ------------------------
(***************************************************************************)
(* Proofs about RequestLogging: the middleware leaves the server's promises *)
(* intact, and the log it writes names the right requests and outcomes.     *)
(***************************************************************************)
EXTENDS RequestLogging, CapServerProofs

-----------------------------------------------------------------------------
(* The server underneath. *)

(* Each step of the logging server is a step of the server or none of it.   *)
LEMMA LoggedStepIsStep == [LoggedNext]_loggedVars => [Next]_vars
<1>1. LoggedEnvironment => Environment
  BY DEF LoggedEnvironment, Environment, Enter
<1>2. LoggedCloseClient => CloseClient
  BY DEF LoggedCloseClient
<1>3. ASSUME NEW c \in Callers, LoggedWork(c) \/ Leave(c) PROVE Work(c) \/ UNCHANGED vars
  BY <1>3 DEF LoggedWork, Leave
<1>4. UNCHANGED loggedVars => UNCHANGED vars
  BY DEF loggedVars
<1>5. QED
  BY <1>1, <1>2, <1>3, <1>4 DEF LoggedNext, Next

(* A server that logs is a server: whatever is proved of Spec holds of it.  *)
THEOREM LoggingIsTransparent == LoggedSpec => Spec
  BY LoggedStepIsStep, PTL DEF LoggedSpec, LogInit, Spec

(* A step of one task leaves the others' requests as they were.             *)
LEMMA OthersUntouched ==
    ASSUME TypeOK, NEW c \in Callers, NEW d \in Callers, c # d, Work(c)
    PROVE  /\ phase'[d] = phase[d] /\ reply'[d] = reply[d]
           /\ exchanges'[d] = exchanges[d] /\ ending'[d] = ending[d]
<1> USE DEF TypeOK
<1>1. CASE Reject(c) \/ AnswerLocally(c) \/ Conclude(c)
  BY <1>1 DEF Reject, AnswerLocally, Conclude, Answer, callVars
<1>2. CASE PlaceCall(c) \/ FailToCall(c) \/ SendCall(c)
  BY <1>2 DEF PlaceCall, FailToCall, SendCall
<1>3. CASE ReadAnswer(c) \/ DeadlineExpires(c)
  BY <1>3 DEF ReadAnswer, DeadlineExpires, EndCall
<1>4. QED
  BY <1>1, <1>2, <1>3 DEF Work

(* What a step of a task does to its own request.                           *)
LEMMA OwnStep ==
    ASSUME IInv, NEW c \in Callers, Work(c)
    PROVE  /\ phase[c] \notin {"idle", "replied"}
           /\ phase'[c] # "idle"
           /\ exchanges[c] = 1 => exchanges'[c] = 1
           /\ phase[c] = "sent" => exchanges'[c] = 1
           /\ HeadersCertain(ending'[c]) =>
                 \/ phase[c] = "sent" /\ phase'[c] = "returning"
                 \/ HeadersCertain(ending[c])
<1> USE DEF IInv, TypeOK
<1>1. HistoryOf(c)
  BY DEF CallHistory
<1>2. CASE Reject(c) \/ AnswerLocally(c) \/ Conclude(c)
  BY <1>2 DEF Reject, AnswerLocally, Conclude, Answer, callVars
<1>3. CASE PlaceCall(c)
  BY <1>3 DEF PlaceCall
<1>4. CASE FailToCall(c)
  BY <1>4 DEF FailToCall, HeadersCertain, Raised, Ending
<1>5. CASE SendCall(c)
  BY <1>1, <1>5 DEF SendCall, HistoryOf
<1>6. CASE ReadAnswer(c)
  BY <1>1, <1>6 DEF ReadAnswer, EndCall, HistoryOf
<1>7. CASE DeadlineExpires(c)
  BY <1>1, <1>7 DEF DeadlineExpires, EndCall, HistoryOf, HeadersCertain, TimedOut, Raised, Ending
<1>8. QED
  BY <1>2, <1>3, <1>4, <1>5, <1>6, <1>7 DEF Work
-----------------------------------------------------------------------------
(* The log. *)

(* What stands where in a log that one record was added to. *)
LEMMA AddedRecord ==
    ASSUME NEW S, NEW s \in Seq(S), NEW x \in S
    PROVE  /\ Append(s, x) \in Seq(S)
           /\ DOMAIN Append(s, x) = DOMAIN s \cup {Len(s) + 1}
           /\ Len(s) + 1 \notin DOMAIN s
           /\ Len(s) \in Nat /\ Len(Append(s, x)) = Len(s) + 1
           /\ \A i \in DOMAIN s : Append(s, x)[i] = s[i]
           /\ Append(s, x)[Len(s) + 1] = x
  OBVIOUS


(* Whoever is not inside the middleware has no request in progress, and who *)
(* never asked has no log.                                                  *)
OutsideAtRest ==
    \A c \in Callers : /\ c \notin inside => phase[c] \in {"idle", "replied"}
                       /\ phase[c] = "idle" => c \notin inside

LogInv ==
    /\ LogTypeOK
    /\ OutsideAtRest
    /\ RecordsNameTheirRequest
    /\ LogTellsOutcome
    /\ EchoNamesRequest

(* Before anything was asked nothing is logged. *)
LEMMA LogInitially == LogInit => LogInv
  BY DEF LogInit, Init, LogInv, LogTypeOK, OutsideAtRest, RecordsNameTheirRequest,
         LogTellsOutcome, TellsOutcome, EchoNamesRequest, Logged, HeadersCertain, NoEnding, Ending, InPhase

(* Where the records of an event stand after a record was added.            *)
LEMMA AddedEvent ==
    ASSUME NEW S, NEW s \in Seq(S), NEW x \in S, NEW event
    PROVE  {i \in DOMAIN Append(s, x) : Append(s, x)[i].event = event} =
             {i \in DOMAIN s : s[i].event = event}
               \cup IF x.event = event THEN {Len(s) + 1} ELSE {}
  BY AddedRecord

(* An outcome is added record by record. *)
LEMMA AddedOutcome ==
    ASSUME NEW S, NEW s \in Seq(S), NEW x \in S, NEW y \in S
    PROVE  s \o <<x>> = Append(s, x) /\ s \o <<x, y>> = Append(Append(s, x), y)
  OBVIOUS

(* A request enters: its log is empty, its context its own. *)
LEMMA EnterStep ==
    ASSUME IInv, LogInv, NEW c \in Callers, NEW q \in Workload, NEW id \in RequestIds,
           Enter(c, q, id)
    PROVE  LogInv'
<1> USE DEF LogInv, LogTypeOK, IInv, TypeOK, Enter, Receive
<1>1. LogTypeOK'
  OBVIOUS
<1>2. OutsideAtRest'
  BY DEF OutsideAtRest
<1>3. RecordsNameTheirRequest'
  BY DEF RecordsNameTheirRequest
<1>4. LogTellsOutcome'
  <2>1. \A d \in Callers : \A event :
           Logged(d, event)' = IF d = c THEN {} ELSE Logged(d, event)
    BY DEF Logged
  <2>2. \A d \in Callers : d # c => /\ records'[d] = records[d] /\ reply'[d] = reply[d]
                                    /\ exchanges'[d] = exchanges[d] /\ ending'[d] = ending[d]
                                    /\ phase'[d] = phase[d] /\ (d \in inside' <=> d \in inside)
    OBVIOUS
  <2>3. ~HeadersCertain(ending'[c]) /\ c \in inside'
    BY DEF HeadersCertain, NoEnding, Ending
  <2>4. QED
    <3>1. ASSUME NEW d \in Callers, d # c PROVE TellsOutcome(d)'
      <4>1. TellsOutcome(d)
        BY DEF LogTellsOutcome
      <4>2. QED
        BY <2>1, <2>2, <3>1, <4>1 DEF TellsOutcome
    <3>2. TellsOutcome(c)'
      BY <2>1, <2>3 DEF TellsOutcome
    <3>3. QED
      BY <3>1, <3>2 DEF LogTellsOutcome
<1>5. EchoNamesRequest'
  BY DEF EchoNamesRequest, InPhase
<1>6. QED
  BY <1>1, <1>2, <1>3, <1>4, <1>5

(* A task works: at most the record of its upstream call is added. *)
LEMMA WorkStep ==
    ASSUME IInv, LogInv, NEW c \in Callers, LoggedWork(c)
    PROVE  LogInv'
<1> USE DEF LogInv, LogTypeOK, LoggedWork
<1> DEFINE call == Log(c, "HTTP Request", 0)
<1>1. TypeOK
  BY DEF IInv
<1>2. /\ phase[c] \notin {"idle", "replied"}
      /\ phase'[c] # "idle"
      /\ exchanges[c] = 1 => exchanges'[c] = 1
      /\ phase[c] = "sent" => exchanges'[c] = 1
      /\ HeadersCertain(ending'[c]) =>
            \/ phase[c] = "sent" /\ phase'[c] = "returning"
            \/ HeadersCertain(ending[c])
  BY OwnStep
<1>3. c \in inside /\ inside' = inside
  BY <1>2 DEF OutsideAtRest
<1>4. \A d \in Callers : d # c => /\ phase'[d] = phase[d] /\ reply'[d] = reply[d]
                                  /\ exchanges'[d] = exchanges[d] /\ ending'[d] = ending[d]
  BY <1>1, OthersUntouched
<1>5. records[c] \in Seq(LogRecords) /\ call \in LogRecords /\ call.id = requestId[c] /\ call.event = "HTTP Request"
  BY <1>3 DEF Log, Record, LogRecords, RecordsNameTheirRequest
<1> HIDE DEF call
<1>6. /\ \A d \in Callers : d # c => records'[d] = records[d]
      /\ \/ /\ records'[c] = Append(records[c], call)
            /\ phase[c] = "sent"
         \/ /\ records'[c] = records[c]
            /\ HeadersCertain(ending'[c]) => HeadersCertain(ending[c])
  BY <1>2 DEF CallLogged, call
<1>7. /\ Append(records[c], call) \in Seq(LogRecords)
      /\ DOMAIN Append(records[c], call) = DOMAIN records[c] \cup {Len(records[c]) + 1}
      /\ Len(records[c]) + 1 \notin DOMAIN records[c]
      /\ \A i \in DOMAIN records[c] : Append(records[c], call)[i] = records[c][i]
      /\ Append(records[c], call)[Len(records[c]) + 1] = call
  <2> DEFINE s == records[c]
  <2>1. s \in Seq(LogRecords) /\ call \in LogRecords
    BY <1>5
  <2> HIDE DEF s
  <2>2. /\ Append(s, call) \in Seq(LogRecords)
        /\ DOMAIN Append(s, call) = DOMAIN s \cup {Len(s) + 1}
        /\ Len(s) + 1 \notin DOMAIN s
        /\ \A i \in DOMAIN s : Append(s, call)[i] = s[i]
        /\ Append(s, call)[Len(s) + 1] = call
    BY ONLY <2>1, AddedRecord
  <2>3. QED
    BY <2>2 DEF s
<1>8. LogTypeOK'
  BY <1>7 DEF CallLogged, call
<1>9. OutsideAtRest'
  BY <1>2, <1>3, <1>4 DEF OutsideAtRest
<1>10. RecordsNameTheirRequest'
  <2>1. CASE records'[c] = Append(records[c], call)
    <3>1. \A i \in DOMAIN records'[c] : records'[c][i].id = requestId[c]
      <4>1. \A i \in DOMAIN records[c] : records[c][i].id = requestId[c]
        BY DEF RecordsNameTheirRequest
      <4>2. QED
        BY ONLY <1>5, <1>7, <2>1, <4>1
    <3>2. QED
      BY <1>6, <3>1 DEF RecordsNameTheirRequest
  <2>2. CASE records'[c] = records[c]
    BY <1>6, <2>2 DEF RecordsNameTheirRequest
  <2>3. QED
    BY <1>6, <2>1, <2>2
<1>11. LogTellsOutcome'
  <2>1. \A d \in Callers : \A event : d # c => Logged(d, event)' = Logged(d, event)
    BY <1>6 DEF Logged
  <2>2. \A event : event # "HTTP Request" => Logged(c, event)' = Logged(c, event)
    BY <1>5, <1>6, <1>7 DEF Logged
  <2>3. Logged(c, "HTTP Request")' # {} => \/ Logged(c, "HTTP Request") # {}
                                           \/ phase[c] = "sent"
    BY <1>6 DEF Logged
  <2>4. HeadersCertain(ending'[c]) => Logged(c, "HTTP Request")' # {}
    <3>1. CASE records'[c] = Append(records[c], call)
      <4>1. Len(records[c]) + 1 \in Logged(c, "HTTP Request")'
        BY <1>5, <1>7, <3>1 DEF Logged
      <4>2. QED
        BY <4>1
    <3>2. CASE records'[c] = records[c] /\ (HeadersCertain(ending'[c]) => HeadersCertain(ending[c]))
      <4>1. Logged(c, "HTTP Request")' = Logged(c, "HTTP Request")
        BY <3>2 DEF Logged
      <4>2. QED
        BY <3>2, <4>1 DEF LogTellsOutcome, TellsOutcome
    <3>3. QED
      BY <1>6, <3>1, <3>2
  <2>5. QED
    <3>1. ASSUME NEW d \in Callers, d # c PROVE TellsOutcome(d)'
      <4>1. TellsOutcome(d)
        BY DEF LogTellsOutcome
      <4>2. QED
        BY <1>3, <1>4, <1>6, <2>1, <3>1, <4>1 DEF TellsOutcome
    <3>2. TellsOutcome(c)'
      <4>1. TellsOutcome(c)
        BY DEF LogTellsOutcome
      <4>2. QED
        BY <1>2, <1>3, <2>2, <2>3, <2>4, <4>1 DEF TellsOutcome
    <3>3. QED
      BY <3>1, <3>2 DEF LogTellsOutcome
<1>12. EchoNamesRequest'
  BY <1>3, <1>4, <1>6 DEF EchoNamesRequest, InPhase
<1>13. QED
  BY <1>8, <1>9, <1>10, <1>11, <1>12

(* A request leaves: its outcome is logged last, its id is sent back. *)
LEMMA LeaveStep ==
    ASSUME IInv, LogInv, NEW c \in Callers, Leave(c)
    PROVE  LogInv'
<1> USE DEF LogInv, LogTypeOK, Leave, vars
<1> DEFINE failed == Log(c, "request_failed", 0)
           last   == Log(c, "request_completed", IF Responded(c) THEN reply[c].status ELSE 500)
           before == IF Responded(c) THEN records[c] ELSE Append(records[c], failed)
<1>1. context[c] = requestId[c] /\ reply[c].status \in Nat
  <2>1. reply[c] \in Replies \cup {NoReply}
    BY DEF IInv, TypeOK
  <2>2. QED
    BY <2>1 DEF RecordsNameTheirRequest, Replies, NoReply, Reply
<1>2. /\ records[c] \in Seq(LogRecords)
      /\ failed \in LogRecords /\ failed.id = requestId[c] /\ failed.event = "request_failed"
      /\ last \in LogRecords /\ last.id = requestId[c] /\ last.event = "request_completed"
      /\ last.status = IF Responded(c) THEN reply[c].status ELSE 500
  <2>1. \A event \in {"request_failed", "request_completed"}, n \in Nat :
            LET r == Log(c, event, n) IN
            r \in LogRecords /\ r.id = requestId[c] /\ r.event = event /\ r.status = n
    BY <1>1 DEF Log, Record, LogRecords
  <2>2. (IF Responded(c) THEN reply[c].status ELSE 500) \in Nat
    BY <1>1
  <2>3. failed \in LogRecords /\ failed.id = requestId[c] /\ failed.event = "request_failed"
    BY ONLY <2>1
  <2>4. /\ last \in LogRecords /\ last.id = requestId[c] /\ last.event = "request_completed"
        /\ last.status = IF Responded(c) THEN reply[c].status ELSE 500
    BY ONLY <2>1, <2>2
  <2>5. records[c] \in Seq(LogRecords)
    OBVIOUS
  <2>6. QED
    BY ONLY <2>3, <2>4, <2>5
<1>3. records'[c] = Append(before, last)
  <2>1. records'[c] = records[c] \o Outcome(c)
    OBVIOUS
  <2>2. Outcome(c) = IF Responded(c) THEN <<last>> ELSE <<failed, last>>
    BY DEF Outcome
  <2>3. QED
    <3>1. /\ records[c] \o <<last>> = Append(records[c], last)
          /\ records[c] \o <<failed, last>> = Append(Append(records[c], failed), last)
      BY ONLY <1>2, AddedOutcome
    <3>2. QED
      BY <2>1, <2>2, <3>1
<1> HIDE DEF failed, last
<1>4. /\ before \in Seq(LogRecords)
      /\ records'[c] \in Seq(LogRecords)
      /\ Len(records'[c]) = Len(before) + 1 /\ Len(records'[c]) \in DOMAIN records'[c]
      /\ records'[c][Len(records'[c])] = last
  BY ONLY <1>2, <1>3, AddedRecord
<1>5. \A d \in Callers : d # c => records'[d] = records[d] /\ echoed'[d] = echoed[d]
  OBVIOUS
<1>6. LogTypeOK'
  <2>1. records' = [records EXCEPT ![c] = records'[c]]
    OBVIOUS
  <2>2. QED
    BY <1>4, <2>1
<1>7. OutsideAtRest'
  BY DEF OutsideAtRest, serverVars, callVars
<1>8. RecordsNameTheirRequest'
  <2>1. \A i \in DOMAIN records[c] : records[c][i].id = requestId[c]
    BY DEF RecordsNameTheirRequest
  <2>2. \A i \in DOMAIN before : before[i].id = requestId[c]
    BY ONLY <1>2, <2>1, AddedRecord
  <2>3. \A i \in DOMAIN records'[c] : records'[c][i].id = requestId[c]
    BY ONLY <1>2, <1>3, <1>4, <2>2, AddedRecord
  <2>4. QED
    BY <1>5, <2>3 DEF RecordsNameTheirRequest
<1>9. LogTellsOutcome'
  <2>1. TellsOutcome(c)
    BY DEF LogTellsOutcome
  <2>2. /\ Logged(c, "request_completed") = {}
        /\ Logged(c, "request_failed") = {}
    BY <2>1 DEF TellsOutcome
  <2>3. ASSUME NEW event
        PROVE  Logged(c, event)' = Logged(c, event)
                 \cup (IF ~Responded(c) /\ failed.event = event THEN {Len(records[c]) + 1} ELSE {})
                 \cup (IF last.event = event THEN {Len(records'[c])} ELSE {})
    <3>1. {i \in DOMAIN records'[c] : records'[c][i].event = event} =
             {i \in DOMAIN before : before[i].event = event}
               \cup IF last.event = event THEN {Len(records'[c])} ELSE {}
      BY ONLY <1>2, <1>3, <1>4, AddedEvent
    <3>2. {i \in DOMAIN before : before[i].event = event} =
             {i \in DOMAIN records[c] : records[c][i].event = event}
               \cup IF ~Responded(c) /\ failed.event = event THEN {Len(records[c]) + 1} ELSE {}
      BY ONLY <1>2, AddedEvent
    <3>3. QED
      BY <3>1, <3>2 DEF Logged
  <2>4. /\ Logged(c, "HTTP Request")' = Logged(c, "HTTP Request")
        /\ Logged(c, "request_completed")' = {Len(records'[c])}
        /\ Logged(c, "request_failed")' = IF Responded(c) THEN {} ELSE {Len(records[c]) + 1}
        /\ records'[c][Len(records'[c])].status = IF Responded(c) THEN reply[c].status ELSE 500
    <3>1. Logged(c, "HTTP Request")' = Logged(c, "HTTP Request")
      <4>1. failed.event # "HTTP Request" /\ last.event # "HTTP Request"
        BY <1>2
      <4>2. QED
        BY ONLY <2>3, <4>1
    <3>2. Logged(c, "request_completed")' = {Len(records'[c])}
      BY <1>2, <2>2, <2>3
    <3>3. Logged(c, "request_failed")' = IF Responded(c) THEN {} ELSE {Len(records[c]) + 1}
      <4>1. failed.event = "request_failed" /\ last.event # "request_failed"
        BY <1>2
      <4>2. QED
        BY ONLY <2>2, <2>3, <4>1
    <3>4. QED
      BY <1>2, <1>4, <3>1, <3>2, <3>3
  <2>5. reply[c] = Untranslated => reply[c].status = 500
    BY DEF Untranslated, Reply
  <2>6. \A d \in Callers : \A event : d # c => Logged(d, event)' = Logged(d, event)
    BY <1>5 DEF Logged
  <2>7. ASSUME NEW d \in Callers, d # c PROVE TellsOutcome(d)'
    <3>1. TellsOutcome(d)
      BY DEF LogTellsOutcome
    <3>2. QED
      BY <1>5, <2>6, <2>7, <3>1 DEF TellsOutcome, callVars
  <2>8. TellsOutcome(c)'
    <3>1. c \notin inside' /\ phase'[c] = "replied" /\ UNCHANGED <<reply, exchanges, ending>>
      BY DEF callVars
    <3>2. Responded(c) <=> reply[c] # Untranslated
      BY DEF Responded
    <3>3. records'[c][Len(records'[c])].status = reply[c].status
      BY <2>4, <2>5, <3>2
    <3>4. Logged(c, "request_failed")' # {} <=> reply'[c] = Untranslated
      BY <2>4, <3>1, <3>2
    <3>5. /\ Logged(c, "HTTP Request") # {} => exchanges[c] = 1
          /\ HeadersCertain(ending[c]) => Logged(c, "HTTP Request") # {}
      BY <2>1 DEF TellsOutcome
    <3>6. QED
      BY <2>4, <3>1, <3>3, <3>4, <3>5 DEF TellsOutcome
  <2>9. QED
    BY <2>7, <2>8 DEF LogTellsOutcome
<1>10. EchoNamesRequest'
  BY <1>2, <1>4, <1>5 DEF EchoNamesRequest, InPhase, Responded
<1>11. QED
  BY <1>6, <1>7, <1>8, <1>9, <1>10
-----------------------------------------------------------------------------
(* Every step keeps the invariant of the log. *)
LEMMA LoggedNextKeeps == IInv /\ LogInv /\ [LoggedNext]_loggedVars => LogInv'
<1> SUFFICES ASSUME IInv, LogInv, [LoggedNext]_loggedVars PROVE LogInv'
  OBVIOUS
<1>1. ASSUME UNCHANGED <<phase, reply, exchanges, ending, logVars>> PROVE LogInv'
  <2>1. LogTypeOK' /\ OutsideAtRest' /\ RecordsNameTheirRequest'
    BY <1>1 DEF logVars, LogInv, LogTypeOK, OutsideAtRest, RecordsNameTheirRequest
  <2>2. \A c \in Callers : TellsOutcome(c)' <=> TellsOutcome(c)
    BY <1>1 DEF logVars, TellsOutcome, Logged
  <2>3. LogTellsOutcome' /\ EchoNamesRequest'
    BY <1>1, <2>2 DEF logVars, LogInv, LogTellsOutcome, EchoNamesRequest, InPhase
  <2>4. QED
    BY <2>1, <2>3 DEF LogInv
<1>2. CASE LoggedCloseClient
  BY <1>1, <1>2 DEF LoggedCloseClient, CloseClient, callVars
<1>3. CASE LoggedEnvironment
  <2>1. CASE \E c \in Callers, q \in Workload, id \in RequestIds : Enter(c, q, id)
    BY <2>1, EnterStep
  <2>2. CASE \/ \E key \in GatewayKeys : Start(key) /\ UNCHANGED logVars
             \/ BeginShutdown /\ UNCHANGED logVars
    BY <1>1, <2>2 DEF Start, BeginShutdown, callVars
  <2>3. CASE \E c \in Callers, e \in UpstreamEndings : UpstreamAnswers(c, e) /\ UNCHANGED logVars
    BY <1>1, <2>3 DEF UpstreamAnswers
  <2>4. QED
    BY <1>3, <2>1, <2>2, <2>3 DEF LoggedEnvironment
<1>4. CASE \E c \in Callers : LoggedWork(c) \/ Leave(c)
  BY <1>4, WorkStep, LeaveStep
<1>5. CASE UNCHANGED loggedVars
  BY <1>1, <1>5 DEF loggedVars, vars, callVars
<1>6. QED
  BY <1>2, <1>3, <1>4, <1>5 DEF LoggedNext

(* The invariant of the log, with the one of the server under it. *)
LEMMA LogInvHolds == LoggedSpec => []LogInv
<1>1. LoggedSpec => []IInv
  BY LoggingIsTransparent, InvariantHolds, PTL
<1>2. QED
  BY <1>1, LogInitially, LoggedNextKeeps, PTL DEF LoggedSpec

(* For every number of callers and ids, however their tasks interleave:     *)
(* what is logged while a request is worked on carries that request's id.   *)
THEOREM RecordsCarryIds == LoggedSpec => []RecordsNameTheirRequest
<1>1. LogInv => RecordsNameTheirRequest
  BY DEF LogInv
<1>2. QED
  BY <1>1, LogInvHolds, PTL

(* Every request's outcome is logged once, last, and as its caller was told *)
(* it; exceptions are logged exactly when one passed through; and the call  *)
(* to the upstream is in the log if it was answered.                        *)
THEOREM OutcomesAreLogged == LoggedSpec => []LogTellsOutcome
<1>1. LogInv => LogTellsOutcome
  BY DEF LogInv
<1>2. QED
  BY <1>1, LogInvHolds, PTL

(* A response carries the id its request is logged under. *)
THEOREM EchoesAreTrue == LoggedSpec => []EchoNamesRequest
<1>1. LogInv => EchoNamesRequest
  BY DEF LogInv
<1>2. QED
  BY <1>1, LogInvHolds, PTL
=============================================================================
