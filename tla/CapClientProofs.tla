--------------------------- MODULE CapClientProofs --------------------------
(***************************************************************************)
(* Proofs about CapClient: every run of the command line closes its client *)
(* and its exit status tells the truth, for any number of runs and any     *)
(* command lines.                                                          *)
(***************************************************************************)
EXTENDS CapClient, WellFoundedInduction, TLAPS

ClientTypeOK ==
    /\ stage \in [Callers -> {"none", "open", "answered"}]
    /\ consults \in [Callers -> {0, 1}]
    /\ DOMAIN asked = Callers /\ DOMAIN answer = Callers
    /\ process \in [Callers -> Processes]
    /\ sdkOpen \in [Callers -> BOOLEAN]
    /\ exit \in [Callers -> {-1, 0, 1, 2, 130}]
    /\ typed \in [Callers -> Lines \cup {NoCommandLine}]
    /\ DOMAIN raised = Callers
    /\ DOMAIN response = Callers /\ DOMAIN printed = Callers

(***************************************************************************)
(* What a run knows as it comes along: nothing was raised, kept or printed *)
(* before its time; the server was asked what was typed, and only then;    *)
(* a success kept is the server's answer, and a success the server gives   *)
(* to what it forwards was the upstream's.                                 *)
(***************************************************************************)
OnItsWay(c) ==
    /\ sdkOpen[c] <=> process[c] \in {"connecting", "calling", "closing"}
    /\ process[c] \in {"none", "parsed", "connecting"} => stage[c] = "none"
    /\ process[c] = "calling" => stage[c] # "none"
    /\ process[c] \in {"none", "parsed", "connecting", "calling"} =>
          raised[c] = "nothing" /\ response[c] = NoReply
    /\ process[c] \in {"closing", "closed"} /\ raised[c] = "nothing" => response[c] # NoReply
    /\ process[c] # "exited" => printed[c] = NoReply /\ exit[c] = -1

Honest(c) ==
    /\ stage[c] # "none" => asked[c] = RequestOf(typed[c]) /\ Parses(typed[c])
    /\ process[c] \notin {"none", "exited"} => Parses(typed[c])
    /\ stage[c] = "answered" /\ answer[c] = Success /\ asked[c].verb \in UpstreamVerbs
          => consults[c] = 1
    /\ response[c] # NoReply =>
          stage[c] = "answered" /\ answer[c] = Success /\ response[c] = Success
    /\ printed[c] # NoReply => process[c] = "exited" /\ printed[c] = response[c]
    /\ exit[c] = 0 <=> printed[c] # NoReply
    /\ exit[c] = 2 => stage[c] = "none" /\ ~Parses(typed[c])
    /\ raised[c] \in {"InvalidURL", "ValidationError"} => stage[c] = "none"

ClientInv == ClientTypeOK /\ \A c \in Callers : OnItsWay(c) /\ Honest(c)

(* A run depends on what the model keeps for it alone.                      *)
LEMMA RunsAreSeparate ==
    ASSUME NEW d \in Callers, OnItsWay(d), Honest(d),
           process'[d] = process[d], typed'[d] = typed[d], sdkOpen'[d] = sdkOpen[d],
           response'[d] = response[d], raised'[d] = raised[d], printed'[d] = printed[d],
           exit'[d] = exit[d], stage'[d] = stage[d], asked'[d] = asked[d],
           consults'[d] = consults[d], answer'[d] = answer[d]
    PROVE  OnItsWay(d)' /\ Honest(d)'
  BY DEF OnItsWay, Honest

(* A success settled on a request for the upstream comes from the upstream. *)
LEMMA SuccessIsTheUpstreams ==
    ASSUME NEW q, Success \in UnconsultedAnswers(q)
    PROVE  q.verb \notin UpstreamVerbs
<1>1. Refusal(q).code # "ok"
  BY DEF Refusal, Reply, NoReply
<1>2. Success.code = "ok"
  BY DEF Success, Reply
<1>3. Admitted(q)
  BY <1>1, <1>2 DEF UnconsultedAnswers
<1>4. CASE q.verb \in LocalVerbs
  BY <1>4 DEF UpstreamVerbs
<1>5. CASE q.verb \notin LocalVerbs
  BY <1>2, <1>3, <1>5 DEF UnconsultedAnswers, OwnCodes
<1>6. QED
  BY <1>4, <1>5

(* The empty reply is no success.                                           *)
LEMMA SuccessIsAReply == Success # NoReply
  BY DEF Success, NoReply, Reply

LEMMA ClientStart == ClientInit => ClientInv
  BY DEF ClientInit, CInit, ClientInv, ClientTypeOK, OnItsWay, Honest, Processes

(* The flags of a command line are Booleans.                                *)
LEMMA LinesFit == \A line \in Lines \cup {NoCommandLine} : line.goodUrl \in BOOLEAN
<1>1. \A line \in Lines : line.goodUrl \in BOOLEAN
  BY DEF Lines
<1>2. NoCommandLine.goodUrl \in BOOLEAN
  BY DEF NoCommandLine
<1>3. QED
  BY <1>1, <1>2

(* Steps of the process keep the invariant.                                 *)
LEMMA ProcessKeepsInv ==
    ASSUME ClientInv, NEW c \in Callers,
           \/ \E line \in CommandLines[c] : ParseArguments(c, line)
           \/ OpenSdk(c) \/ Send(c) \/ RefuseLocally(c) \/ LoseServer(c) \/ Interrupt(c)
           \/ TakeAnswer(c) \/ CloseSdk(c) \/ Finish(c)
    PROVE  ClientInv'
<1> USE DEF ClientInv, ClientTypeOK, Processes, contractVars
<1>1. CASE \E line \in CommandLines[c] : ParseArguments(c, line)
  BY <1>1, CommandLinesAssumption DEF ParseArguments, OnItsWay, Honest
<1>2. CASE OpenSdk(c)
  <2>1. typed[c].goodUrl \in BOOLEAN
    BY LinesFit
  <2>2. QED
    BY <1>2, <2>1 DEF OpenSdk, OnItsWay, Honest
<1>3. CASE Send(c)
  BY <1>3, SuccessIsAReply DEF Send, Open, OnItsWay, Honest
<1>4. CASE RefuseLocally(c)
  BY <1>4 DEF RefuseLocally, Raise, OnItsWay, Honest
<1>5. CASE LoseServer(c)
  BY <1>5 DEF LoseServer, Raise, OnItsWay, Honest
<1>6. CASE Interrupt(c)
  <2>1. CASE process[c] = "closing"
    <3>1. /\ process' = [process EXCEPT ![c] = "closed"]
          /\ raised' = [raised EXCEPT ![c] = "CancelledError"]
          /\ sdkOpen' = [sdkOpen EXCEPT ![c] = FALSE]
          /\ UNCHANGED <<contractVars, typed, response, printed, exit>>
      BY <1>6, <2>1 DEF Interrupt
    <3>2. QED
      BY <2>1, <3>1 DEF OnItsWay, Honest
  <2>2. CASE process[c] # "closing"
    BY <1>6, <2>2 DEF Interrupt, Raise, OnItsWay, Honest
  <2>3. QED
    BY <2>1, <2>2
<1>7. CASE TakeAnswer(c)
  BY <1>7, SuccessIsAReply DEF TakeAnswer, Raise, OnItsWay, Honest
<1>8. CASE CloseSdk(c)
  BY <1>8 DEF CloseSdk, OnItsWay, Honest
<1>9. CASE Finish(c)
  BY <1>9 DEF Finish, OnItsWay, Honest
<1>10. QED
  BY <1>1, <1>2, <1>3, <1>4, <1>5, <1>6, <1>7, <1>8, <1>9

(* So do the server's.                                                      *)
LEMMA ServerKeepsInv ==
    ASSUME ClientInv, NEW c \in Callers, Serve(c)
    PROVE  ClientInv'
<1> USE DEF ClientInv, ClientTypeOK, processVars
<1>1. CASE Consult(c)
  BY <1>1 DEF Serve, Consult, OnItsWay, Honest
<1>2. ASSUME NEW r \in AnswersSeen, answer' = [answer EXCEPT ![c] = r], Settle(c)
      PROVE  ClientInv'
  <2>1. r = Success /\ asked[c].verb \in UpstreamVerbs => consults[c] = 1
    BY <1>2, SuccessIsTheUpstreams DEF Settle
  <2>2. QED
    BY <1>2, <2>1 DEF Serve, Settle, OnItsWay, Honest
<1>3. QED
  BY <1>1, <1>2 DEF Serve

(* Every step keeps the invariant.                                          *)
LEMMA ClientStepKeepsInv == ClientInv /\ [ClientNext]_clientVars => ClientInv'
<1> SUFFICES ASSUME ClientInv, [ClientNext]_clientVars PROVE ClientInv'
  OBVIOUS
<1>1. CASE (Launch \/ Retire) /\ UNCHANGED processVars
  BY <1>1 DEF Launch, Retire, processVars, ClientInv, ClientTypeOK, OnItsWay, Honest
<1>2. CASE UNCHANGED clientVars
  BY <1>2 DEF clientVars, contractVars, processVars, ClientInv, ClientTypeOK, OnItsWay, Honest
<1>3. QED
  BY <1>1, <1>2, ProcessKeepsInv, ServerKeepsInv DEF ClientNext

LEMMA ClientInvHolds == ClientSpec => []ClientInv
  BY ClientStart, ClientStepKeepsInv, PTL DEF ClientSpec

(* Whatever becomes of a run, refused, answered, cut off or interrupted,    *)
(* its client is open from OpenSdk to CloseSdk and never after.             *)
THEOREM ClientsAreClosed == ClientSpec => []ClosedWhenDone
<1>1. ClientInv => ClosedWhenDone
  BY DEF ClientInv, OnItsWay, ClosedWhenDone
<1>2. QED
  BY <1>1, ClientInvHolds, PTL

(* The exit status of every run tells what came of its command.             *)
THEOREM ExitsTellTheTruth == ClientSpec => []ExitTellsOutcome
<1>1. ClientInv => ExitTellsOutcome
  BY SuccessIsAReply DEF ClientInv, ClientTypeOK, Honest, ExitTellsOutcome
<1>2. QED
  BY <1>1, ClientInvHolds, PTL

(* The server has a verb for every command.                                 *)
LEMMA CommandsHaveVerbs ==
    ASSUME NEW line \in Lines
    PROVE  /\ RequestOf(line).verb \in RegisteredVerbs
           /\ RequestOf(line).verb = "extensions.abel.intervene_time_lag"
                 <=> line.command = "intervene-time-lag"
<1> line.command \in Commands
  BY DEF Lines
<1> QED
  BY DEF RequestOf, VerbOf, CoreVerb, Commands, RegisteredVerbs, CoreVerbs, ExtensionVerbs

(* No run is refused for what the server does not know.                     *)
THEOREM CommandsOfRunsAreServed == ClientSpec => []CommandsAreServed
<1>1. ASSUME NEW line \in Lines
      PROVE  ~Admitted(RequestOf(line)) <=>
                \/ ~line.inBounds
                \/ line.command = "intervene-time-lag" /\ ~(line.outcome /\ line.linear)
  <2> DEFINE q == RequestOf(line)
  <2>1. q.wellFormed <=> line.inBounds /\ (line.command = "intervene-time-lag" => line.outcome)
    BY DEF RequestOf
  <2>2. q.graph = "absent" /\ (q.linear <=> line.linear)
    BY DEF RequestOf
  <2>3. /\ q.verb \in RegisteredVerbs
        /\ q.verb = "extensions.abel.intervene_time_lag" <=> line.command = "intervene-time-lag"
    BY CommandsHaveVerbs
  <2> HIDE DEF q
  <2>4. ~Admitted(q) <=> ~q.wellFormed \/ NonLinear(q)
    BY <2>2, <2>3 DEF Admitted, Refusal, UnsupportedGraph, NoReply, Reply
  <2>5. QED
    BY ONLY <2>1, <2>2, <2>3, <2>4 DEF q, NonLinear
<1>2. ClientInv => CommandsAreServed
  <2> SUFFICES ASSUME ClientInv, NEW c \in Callers, stage[c] # "none"
               PROVE  ~Admitted(asked[c]) <=>
                        \/ ~typed[c].inBounds
                        \/ /\ typed[c].command = "intervene-time-lag"
                           /\ ~(typed[c].outcome /\ typed[c].linear)
    BY DEF CommandsAreServed
  <2>1. asked[c] = RequestOf(typed[c]) /\ typed[c].fits
    BY DEF ClientInv, Honest, Parses
  <2>2. typed[c] \in Lines
    BY <2>1 DEF ClientInv, ClientTypeOK, NoCommandLine
  <2>3. QED
    BY <1>1, <2>1, <2>2
<1>3. QED
  BY <1>2, ClientInvHolds, PTL

(* Among positions of a sequence one comes first and one last.              *)
LEMMA SomePositionIsFirst ==
    ASSUME NEW n \in Nat, NEW S \in SUBSET (1 .. n), S # {}
    PROVE  Earliest(S) \in S /\ \A j \in S : Earliest(S) <= j
<1>1. S \subseteq Nat /\ S # {}
  OBVIOUS
<1>2. PICK i \in S : \A j \in S : ~(<<j, i>> \in OpToRel(<, Nat))
  BY ONLY <1>1, NatLessThanWellFounded, WFMin
<1>3. \A j \in S : ~(j < i)
  BY <1>1, <1>2 DEF OpToRel
<1>4. \A j \in S : i <= j
  BY <1>1, <1>3
<1>5. QED
  BY <1>4 DEF Earliest

LEMMA SomePositionIsLast ==
    ASSUME NEW n \in Nat, NEW S \in SUBSET (1 .. n), S # {}
    PROVE  Latest(S) \in S /\ \A j \in S : j <= Latest(S)
<1> DEFINE T == {n - i : i \in S}
<1>1. T \subseteq Nat /\ T # {}
  <2>1. \A i \in S : n - i \in Nat
    OBVIOUS
  <2>2. PICK i \in S : TRUE
    OBVIOUS
  <2>3. n - i \in T
    OBVIOUS
  <2>4. T \subseteq Nat
    BY <2>1
  <2>5. QED
    BY <2>3, <2>4
<1>2. PICK x \in T : \A y \in T : ~(<<y, x>> \in OpToRel(<, Nat))
  <2> HIDE DEF T
  <2> QED
    BY ONLY <1>1, NatLessThanWellFounded, WFMin
<1>3. PICK i \in S : x = n - i
  OBVIOUS
<1>4. \A j \in S : ~(n - j < n - i)
  BY <1>1, <1>2, <1>3 DEF OpToRel
<1>5. \A j \in S : i >= j
  BY <1>4
<1>6. Latest(S) \in S /\ \A j \in S : Latest(S) >= j
  BY <1>5 DEF Latest
<1>7. QED
  BY <1>6

(* The Authorization read is the argument that takes effect.                *)
LEMMA HeaderReadTakesEffect ==
    ASSUME NEW line \in Lines, Given(line, "authorization") # {}
    PROVE  \E i \in DOMAIN line.headers :
              /\ TakesEffect(line, i)
              /\ HeaderRead(line, "authorization") = line.headers[i].value
<1> DEFINE given == Given(line, "authorization")
           first == Earliest(given)
           alike == SpelledLike(line, first)
           i == Latest(alike)
<1>1. line.headers \in Arguments
  BY DEF Lines
<1>2. PICK n \in Nat : DOMAIN line.headers = 1 .. n
  BY <1>1 DEF Arguments
<1>3. given \in SUBSET (1 .. n)
  BY <1>2 DEF Given
<1>4. first \in given /\ \A j \in given : first <= j
  <2>1. given # {}
    OBVIOUS
  <2> HIDE DEF given
  <2>2. QED
    BY <1>3, <2>1, SomePositionIsFirst
<1>5. /\ alike = {j \in given : line.headers[j].spelling = line.headers[first].spelling}
      /\ first \in alike
  <2>1. line.headers[first].name = "authorization"
    BY <1>4 DEF Given
  <2>2. QED
    BY <1>4, <2>1 DEF SpelledLike
<1>6. i \in alike /\ \A j \in alike : j <= i
  <2>1. alike \in SUBSET (1 .. n) /\ alike # {}
    BY <1>3, <1>5
  <2> HIDE DEF alike
  <2>2. QED
    BY <2>1, SomePositionIsLast
<1>7. HeaderRead(line, "authorization") = line.headers[i].value
  BY DEF HeaderRead, HeaderSent
<1> HIDE DEF i, alike, first, given
<1>8. i \in given /\ line.headers[i].spelling = line.headers[first].spelling
  BY <1>5, <1>6
<1>9. TakesEffect(line, i)
  BY <1>4, <1>5, <1>6, <1>8 DEF TakesEffect, given
<1>10. QED
  BY <1>3, <1>2, <1>7, <1>8, <1>9

(* The value of a header argument is words, one at least.                   *)
LEMMA HeadersHaveValues ==
    ASSUME NEW line \in Lines, Parses(line), NEW i \in DOMAIN line.headers
    PROVE  line.headers[i].value \in Seq(Words) /\ line.headers[i].value # <<>>
<1>1. IsHeader(line.headers[i])
  BY DEF Parses
<1>2. line.headers \in Arguments
  BY DEF Lines
<1> DEFINE R == [colon : BOOLEAN, name : STRING, spelling : STRING, value : Seq(Words)]
           h == line.headers
<1>3. h \in Seq(R) /\ i \in DOMAIN h
  BY <1>2 DEF Arguments
<1> HIDE DEF R, h
<1>4. h[i] \in R
  BY ONLY <1>3
<1> DEFINE argument == line.headers[i]
<1> HIDE DEF argument
<1>5. argument.value \in Seq(Words) /\ argument.value # <<>>
  BY <1>1, <1>4 DEF IsHeader, argument, R, h
<1>6. QED
  BY <1>5 DEF argument

(* So is the token of a run with an Authorization argument.                 *)
LEMMA AuthorizationIsWords ==
    ASSUME NEW line \in Lines, Parses(line), Given(line, "authorization") # {}
    PROVE  Authorization(line) \in Seq(Words)
<1>1. PICK i \in DOMAIN line.headers :
        HeaderRead(line, "authorization") = line.headers[i].value
  BY HeaderReadTakesEffect
<1> DEFINE value == line.headers[i].value
<1>2. value \in Seq(Words) /\ value # <<>>
  BY HeadersHaveValues
<1> HIDE DEF value
<1>3. NormalizeBearerToken(value) \in Seq(Words)
  BY <1>2 DEF NormalizeBearerToken
<1>4. QED
  BY <1>1, <1>2, <1>3 DEF Authorization, value

(* The credential of every request is that of the Authorization argument    *)
(* that takes effect, whatever else is given and however it is spelled.     *)
THEOREM CredentialsOfRunsAreAsWritten == ClientSpec => []CredentialAsWritten
<1>1. ASSUME NEW line \in Lines, Parses(line)
      PROVE  LET token == Authorization(line) IN
             IF Given(line, "authorization") = {} THEN token = NoToken
             ELSE \E i \in DOMAIN line.headers :
                    LET value == line.headers[i].value IN
                    /\ TakesEffect(line, i)
                    /\ value \in {token, <<"bearer">> \o token}
                    /\ value = token => Head(token) # "bearer" \/ Len(token) = 1
  <2>1. CASE Given(line, "authorization") = {}
    BY <2>1 DEF Authorization, HeaderRead
  <2>2. CASE Given(line, "authorization") # {}
    <3>1. PICK i \in DOMAIN line.headers :
            /\ TakesEffect(line, i)
            /\ HeaderRead(line, "authorization") = line.headers[i].value
      BY <2>2, HeaderReadTakesEffect
    <3> DEFINE value == line.headers[i].value
    <3>2. value \in Seq(Words) /\ value # <<>>
      BY <1>1, HeadersHaveValues
    <3> HIDE DEF value
    <3>3. /\ value \in {NormalizeBearerToken(value), <<"bearer">> \o NormalizeBearerToken(value)}
          /\ value = NormalizeBearerToken(value) => Head(value) # "bearer" \/ Len(value) = 1
      BY <3>2 DEF NormalizeBearerToken
    <3>4. Authorization(line) = NormalizeBearerToken(value)
      BY <3>1, <3>2 DEF Authorization, value
    <3>5. QED
      BY <2>2, <3>1, <3>3, <3>4 DEF value
  <2>3. QED
    BY <2>1, <2>2
<1>2. ClientInv => CredentialAsWritten
  <2> SUFFICES ASSUME ClientInv PROVE CredentialAsWritten
    OBVIOUS
  <2>1. ASSUME NEW c \in Callers, stage[c] # "none"
        PROVE  /\ asked[c].auth = Authorization(typed[c])
               /\ typed[c] \in Lines /\ Parses(typed[c])
    BY <2>1 DEF ClientInv, Honest, Parses, RequestOf, ClientTypeOK, NoCommandLine
  <2>2. QED
    BY <1>1, <2>1 DEF CredentialAsWritten
<1>3. QED
  BY <1>2, ClientInvHolds, PTL

-----------------------------------------------------------------------------
(* Runs come to their end. *)

\* What the argument uses of the specification; when an action is enabled is
\* beyond the prover, so that is the invariant OnlyTheServerIsAwaited.
Live(c) == /\ [][ClientNext]_clientVars /\ []ClientInv
           /\ []OnlyTheServerIsAwaited
           /\ ProcessFairness(c) /\ ServerFairness(c)

Called(c, s) == process[c] = "calling" /\ stage[c] = s

(* Steps that are not a run's own leave the run where it is; those of the   *)
(* server take its request on.                                              *)
LEMMA StepOfOtherRuns ==
    ASSUME ClientInv, [ClientNext]_clientVars, NEW c \in Callers, ~Proceed(c), ~Serve(c)
    PROVE  /\ stage'[c] = stage[c] /\ consults'[c] = consults[c]
           /\ \/ process'[c] = process[c] \/ process[c] = "none"
              \/ process[c] \in {"connecting", "calling"} /\ process'[c] = "closing"
              \/ process[c] = "closing" /\ process'[c] = "closed"
<1> USE DEF ClientInv, ClientTypeOK, contractVars, processVars
<1>1. CASE ((Launch \/ Retire) /\ UNCHANGED processVars) \/ UNCHANGED clientVars
  BY <1>1 DEF Launch, Retire, clientVars
<1>2. ASSUME NEW d \in Callers, NEW line \in CommandLines[d], ParseArguments(d, line)
      PROVE  /\ UNCHANGED <<stage, consults>>
             /\ process'[c] = process[c] \/ process[c] = "none"
  BY <1>2 DEF ParseArguments
<1>3. ASSUME NEW d \in Callers, OpenSdk(d) \/ Send(d) \/ TakeAnswer(d) \/ CloseSdk(d) \/ Finish(d)
      PROVE  /\ stage'[c] = stage[c] /\ consults'[c] = consults[c]
             /\ process'[c] = process[c]
  <2>1. d # c
    BY <1>3 DEF Proceed
  <2>2. QED
    BY <1>3, <2>1 DEF OpenSdk, Send, Open, TakeAnswer, CloseSdk, Finish, Raise
<1>4. ASSUME NEW d \in Callers, RefuseLocally(d) \/ LoseServer(d) \/ Interrupt(d)
      PROVE  /\ UNCHANGED <<stage, consults>>
             /\ \/ process'[c] = process[c]
                \/ process[c] \in {"connecting", "calling"} /\ process'[c] = "closing"
                \/ process[c] = "closing" /\ process'[c] = "closed"
  BY <1>4 DEF RefuseLocally, LoseServer, Interrupt, Raise
<1>5. ASSUME NEW d \in Callers, Serve(d)
      PROVE  /\ stage'[c] = stage[c] /\ consults'[c] = consults[c]
             /\ process'[c] = process[c]
  <2>1. d # c
    BY <1>5
  <2>2. QED
    BY <1>5, <2>1 DEF Serve, Consult, Settle
<1>6. QED
  BY <1>1, <1>2, <1>3, <1>4, <1>5 DEF ClientNext

(* What a run does of itself takes it on.                                   *)
LEMMA OwnStepOfRun ==
    ASSUME ClientInv, NEW c \in Callers, Proceed(c)
    PROVE  \/ process[c] = "parsed" /\ process'[c] \in {"connecting", "closed"}
           \/ process[c] = "connecting" /\ process'[c] = "calling" /\ stage'[c] = "open"
           \/ process[c] \in {"connecting", "calling"} /\ process'[c] = "closing"
           \/ process[c] = "closing" /\ process'[c] = "closed"
           \/ process[c] = "closed" /\ process'[c] = "exited"
  BY DEF Proceed, ClientInv, ClientTypeOK, OpenSdk, Send, Open, LoseServer, TakeAnswer, Raise,
         CloseSdk, Finish

(* What the server does for a run: consult, once, and answer.               *)
LEMMA ServerStepForRun ==
    ASSUME ClientInv, NEW c \in Callers, Serve(c)
    PROVE  /\ process'[c] = process[c] /\ stage[c] = "open"
           /\ \/ stage'[c] = "answered"
              \/ stage'[c] = "open" /\ consults[c] = 0 /\ consults'[c] = 1
  BY DEF Serve, Consult, Settle, ClientInv, ClientTypeOK, processVars

(* A run whose client is being opened gets its request out, or fails.       *)
LEMMA RunsGetGoing ==
    ASSUME NEW c \in Callers
    PROVE  Live(c) =>
              /\ process[c] = "parsed" ~> process[c] \in {"connecting", "closed"}
              /\ process[c] = "connecting" ~> (Called(c, "open") \/ process[c] = "closing")
<1> DEFINE P == process[c] = "parsed"
           Q == process[c] \in {"connecting", "closed"}
           R == process[c] = "connecting"
           S == Called(c, "open") \/ process[c] = "closing"
<1>1. P /\ ClientInv /\ [ClientNext]_clientVars => P' \/ Q'
  BY OwnStepOfRun, StepOfOtherRuns, ServerStepForRun
<1>2. P /\ ClientInv /\ <<Proceed(c)>>_clientVars => Q'
  BY OwnStepOfRun
<1>3. R /\ ClientInv /\ [ClientNext]_clientVars => R' \/ S'
  BY OwnStepOfRun, StepOfOtherRuns, ServerStepForRun DEF Called
<1>4. R /\ ClientInv /\ <<Proceed(c)>>_clientVars => S'
  BY OwnStepOfRun DEF Called
<1>5. (P \/ R) /\ OnlyTheServerIsAwaited => ENABLED <<Proceed(c)>>_clientVars
  BY DEF OnlyTheServerIsAwaited
<1> HIDE DEF P, Q, R, S
<1>6. Live(c) => (P ~> Q) /\ (R ~> S)
  BY <1>1, <1>2, <1>3, <1>4, <1>5, PTL DEF Live, ProcessFairness
<1>7. QED
  BY <1>6 DEF P, Q, R, S

(* The server comes to an answer, after its one consultation or before.     *)
LEMMA RunsAreAnswered ==
    ASSUME NEW c \in Callers
    PROVE  Live(c) => (Called(c, "open") ~> (Called(c, "answered") \/ process[c] = "closing"))
<1> DEFINE P == Called(c, "open") /\ consults[c] = 0
           R == Called(c, "open") /\ consults[c] = 1
           Q == Called(c, "answered") \/ process[c] = "closing"
           O == Called(c, "open")
<1>1. P /\ ClientInv /\ [ClientNext]_clientVars => P' \/ R' \/ Q'
  BY OwnStepOfRun, StepOfOtherRuns, ServerStepForRun DEF Called
<1>2. P /\ ClientInv /\ <<Serve(c)>>_clientVars => R' \/ Q'
  BY ServerStepForRun DEF Called
<1>3. R /\ ClientInv /\ [ClientNext]_clientVars => R' \/ Q'
  BY OwnStepOfRun, StepOfOtherRuns, ServerStepForRun DEF Called
<1>4. R /\ ClientInv /\ <<Serve(c)>>_clientVars => Q'
  BY ServerStepForRun DEF Called
<1>5. (P \/ R) /\ OnlyTheServerIsAwaited => ENABLED <<Serve(c)>>_clientVars
  BY DEF OnlyTheServerIsAwaited, Called
<1>6. ClientInv => (O <=> P \/ R)
  BY DEF ClientInv, ClientTypeOK
<1> HIDE DEF P, Q, R, O
<1>7. Live(c) => (O ~> Q)
  BY <1>1, <1>2, <1>3, <1>4, <1>5, <1>6, PTL DEF Live, ServerFairness
<1>8. QED
  BY <1>7 DEF O, Q

(* A run that has its answer, or an exception, closes its client and ends.  *)
LEMMA RunsCloseAndEnd ==
    ASSUME NEW c \in Callers
    PROVE  Live(c) =>
              /\ Called(c, "answered") ~> process[c] = "closing"
              /\ process[c] = "closing" ~> process[c] = "closed"
              /\ process[c] = "closed" ~> process[c] = "exited"
<1> DEFINE P == Called(c, "answered")
           Q == process[c] = "closing"
           R == process[c] = "closed"
           S == process[c] = "exited"
<1>1. P /\ ClientInv /\ [ClientNext]_clientVars => P' \/ Q'
  BY OwnStepOfRun, StepOfOtherRuns, ServerStepForRun DEF Called
<1>2. P /\ ClientInv /\ <<Proceed(c)>>_clientVars => Q'
  BY OwnStepOfRun DEF Called
<1>3. Q /\ ClientInv /\ [ClientNext]_clientVars => Q' \/ R'
  BY OwnStepOfRun, StepOfOtherRuns, ServerStepForRun
<1>4. Q /\ ClientInv /\ <<Proceed(c)>>_clientVars => R'
  BY OwnStepOfRun
<1>5. R /\ ClientInv /\ [ClientNext]_clientVars => R' \/ S'
  BY OwnStepOfRun, StepOfOtherRuns, ServerStepForRun
<1>6. R /\ ClientInv /\ <<Proceed(c)>>_clientVars => S'
  BY OwnStepOfRun
<1>7. (P \/ Q \/ R) /\ OnlyTheServerIsAwaited => ENABLED <<Proceed(c)>>_clientVars
  BY DEF OnlyTheServerIsAwaited, Called
<1> HIDE DEF P, Q, R, S
<1>8. Live(c) => (P ~> Q) /\ (Q ~> R) /\ (R ~> S)
  BY <1>1, <1>2, <1>3, <1>4, <1>5, <1>6, <1>7, PTL DEF Live, ProcessFairness
<1>9. QED
  BY <1>8 DEF P, Q, R, S

(* Every run of the command line that is started comes to its end, for any  *)
(* number of runs, whatever is typed, and also if the server goes down in   *)
(* the middle.                                                              *)
THEOREM RunsComeToTheirEnd ==
    FairClientSpec /\ []OnlyTheServerIsAwaited => EveryRunEnds
<1> SUFFICES ASSUME NEW c \in Callers
             PROVE  FairClientSpec /\ []OnlyTheServerIsAwaited
                    => (process[c] # "none" ~> process[c] = "exited")
  BY DEF EveryRunEnds
<1> DEFINE Fair == FairClientSpec /\ []OnlyTheServerIsAwaited
           Started == process[c] # "none"
           Parsed == process[c] = "parsed"
           Built == process[c] \in {"connecting", "closed"}
           Connecting == process[c] = "connecting"
           Asking == Called(c, "open")
           Told == Called(c, "answered")
           Closing == process[c] = "closing"
           Closed == process[c] = "closed"
           Exited == process[c] = "exited"
<1>1. ClientInv /\ Started => Parsed \/ Connecting \/ Asking \/ Told \/ Closing \/ Closed \/ Exited
  BY DEF ClientInv, ClientTypeOK, Processes, OnItsWay, Called
<1>2. Built => Connecting \/ Closed
  OBVIOUS
<1>3. /\ Live(c) => (Parsed ~> Built)
      /\ Live(c) => (Connecting ~> (Asking \/ Closing))
  BY RunsGetGoing
<1>4. Live(c) => (Asking ~> (Told \/ Closing))
  BY RunsAreAnswered
<1>5. /\ Live(c) => (Told ~> Closing)
      /\ Live(c) => (Closing ~> Closed)
      /\ Live(c) => (Closed ~> Exited)
  BY RunsCloseAndEnd
<1>6. Fair => ClientSpec /\ ProcessFairness(c) /\ ServerFairness(c) /\ []OnlyTheServerIsAwaited
  BY DEF FairClientSpec
<1> HIDE DEF Fair, Started, Parsed, Built, Connecting, Asking, Told, Closing, Closed, Exited
<1>7. Fair => Live(c)
  BY <1>6, ClientInvHolds, PTL DEF Live, ClientSpec
<1>8. Fair => (Started ~> Exited)
  BY <1>1, <1>2, <1>3, <1>4, <1>5, <1>7, PTL DEF Live
<1>9. QED
  BY <1>8 DEF Fair, Started, Exited
=============================================================================
