-------------------------- MODULE CapSystemProgress -------------------------
(***************************************************************************)
(* Proof that runs of the command line end: from the processes' own        *)
(* fairness, the event loop's and the upstream's, through the line for     *)
(* connections and back.  When an action is enabled is again beyond the    *)
(* prover and the hypothesis of the theorem, OnlyTheUpstreamHoldsRuns.     *)
(***************************************************************************)
EXTENDS CapSystemProofs, CapServerProgress

InCall(c) == process[c] = "calling" /\ c \in Busy
HasAnswer(c) == process[c] = "calling" /\ phase[c] = "replied"

(* Whatever happens, a run only goes forward, and an answer that has come   *)
(* for it stays.                                                            *)
LEMMA RunsGoForward ==
    ASSUME TypeOK, Run!ClientInv, [SystemNext]_systemVars, NEW c \in Callers
    PROVE  /\ process[c] = "parsed" => process'[c] \in {"parsed", "connecting", "closed"}
           /\ process[c] = "connecting" => \/ process'[c] \in {"connecting", "closing"}
                                           \/ InCall(c)'
           /\ process[c] = "calling" => process'[c] \in {"calling", "closing"}
           /\ HasAnswer(c) => HasAnswer(c)' \/ process'[c] = "closing"
           /\ process[c] = "closing" => process'[c] \in {"closing", "closed"}
           /\ process[c] = "closed" => process'[c] \in {"closed", "exited"}
<1> USE DEF TypeOK, Run!ClientInv, Run!ClientTypeOK, HasAnswer, InCall
<1>1. CASE ServerStep
  <2>1. process' = process
    BY <1>1 DEF ServerStep, runVars
  <2>2. phase[c] = "replied" => phase'[c] = "replied"
    <3>1. CASE \E d \in Callers : Work(d)
      BY <3>1 DEF Work, Reject, AnswerLocally, PlaceCall, FailToCall, SendCall, ReadAnswer,
                  DeadlineExpires, Conclude, Answer, EndCall
    <3>2. CASE (\E k \in GatewayKeys : Start(k)) \/ BeginShutdown \/ CloseClient
      BY <3>2 DEF Start, BeginShutdown, CloseClient
    <3>3. CASE \E d \in Callers, e \in UpstreamEndings : UpstreamAnswers(d, e)
      BY <3>3 DEF UpstreamAnswers
    <3>4. QED
      BY <1>1, <3>1, <3>2, <3>3 DEF ServerStep
  <2>3. QED
    BY <2>1, <2>2
<1>2. ASSUME NEW d \in Callers, Call(d)
      PROVE  /\ process[d] = "connecting"
             /\ process' = [process EXCEPT ![d] = "calling"]
             /\ phase' = [phase EXCEPT ![d] = "received"]
  BY <1>2 DEF Call, Receive, Client!Send
<1>3. CASE \E d \in Callers : Call(d)
  BY <1>2, <1>3 DEF Busy
<1>4. ASSUME NEW d \in Callers, RunStep(d)
      PROVE  /\ phase' = phase
             /\ \/ process'[c] = process[c]
                \/ process[c] = "none"
                \/ process[c] = "parsed" /\ process'[c] \in {"connecting", "closed"}
                \/ process[c] \in {"connecting", "calling"} /\ process'[c] = "closing"
                \/ process[c] = "closing" /\ process'[c] = "closed"
                \/ process[c] = "closed" /\ process'[c] = "exited"
  <2>1. phase' = phase
    BY <1>4 DEF RunStep, vars
  <2>2. QED
    BY <1>4, <2>1 DEF RunStep, Client!ParseArguments, Client!OpenSdk, Client!RefuseLocally,
       Client!LoseServer, Client!Interrupt, Client!TakeAnswer, Client!Raise, Client!CloseSdk,
       Client!Finish
<1>5. CASE \E d \in Callers : RunStep(d)
  BY <1>4, <1>5
<1>6. CASE UNCHANGED systemVars
  BY <1>6 DEF systemVars, runVars, vars
<1>7. QED
  BY <1>1, <1>3, <1>5, <1>6 DEF SystemNext

(* What a run does of itself takes it on.                                   *)
LEMMA OwnStepOfRun ==
    ASSUME TypeOK, Run!ClientInv, NEW c \in Callers, Proceed(c)
    PROVE  /\ process[c] = "parsed" => process'[c] \in {"connecting", "closed"}
           /\ process[c] = "connecting" => process'[c] = "closing" \/ InCall(c)'
           /\ process[c] = "calling" => process'[c] = "closing"
           /\ process[c] = "closing" => process'[c] = "closed"
           /\ process[c] = "closed" => process'[c] = "exited"
  BY DEF TypeOK, Run!ClientInv, Run!ClientTypeOK, Proceed, Call, Receive, Client!Send, InCall,
         Busy, Client!OpenSdk, Client!LoseServer, Client!TakeAnswer, Client!Raise,
         Client!CloseSdk, Client!Finish

\* What the argument uses of the specification.
Running(c) == /\ [][SystemNext]_systemVars /\ []TypeOK /\ []Run!ClientInv
              /\ []OnlyTheUpstreamHoldsRuns /\ RunFairness(c)

(* A run's client is built, and its request gets out or fails.              *)
LEMMA RunsGetGoing ==
    ASSUME NEW c \in Callers
    PROVE  Running(c) =>
              /\ process[c] = "parsed" ~> process[c] \in {"connecting", "closed"}
              /\ process[c] = "connecting" ~> (InCall(c) \/ process[c] = "closing")
<1> DEFINE P == process[c] = "parsed"
           Q == process[c] \in {"connecting", "closed"}
           R == process[c] = "connecting"
           S == InCall(c) \/ process[c] = "closing"
<1>1. P /\ TypeOK /\ Run!ClientInv /\ [SystemNext]_systemVars => P' \/ Q'
  BY RunsGoForward
<1>2. P /\ TypeOK /\ Run!ClientInv /\ <<Proceed(c)>>_systemVars => Q'
  BY OwnStepOfRun
<1>3. R /\ TypeOK /\ Run!ClientInv /\ [SystemNext]_systemVars => R' \/ S'
  BY RunsGoForward
<1>4. R /\ TypeOK /\ Run!ClientInv /\ <<Proceed(c)>>_systemVars => S'
  BY OwnStepOfRun
<1>5. (P \/ R) /\ OnlyTheUpstreamHoldsRuns => ENABLED <<Proceed(c)>>_systemVars
  BY DEF OnlyTheUpstreamHoldsRuns
<1> HIDE DEF P, Q, R, S
<1>6. Running(c) => (P ~> Q) /\ (R ~> S)
  BY <1>1, <1>2, <1>3, <1>4, <1>5, PTL DEF Running, RunFairness
<1>7. QED
  BY <1>6 DEF P, Q, R, S

(* A run that has its answer, or an exception, closes its client and ends.  *)
LEMMA RunsCloseAndEnd ==
    ASSUME NEW c \in Callers
    PROVE  Running(c) =>
              /\ HasAnswer(c) ~> process[c] = "closing"
              /\ process[c] = "closing" ~> process[c] = "closed"
              /\ process[c] = "closed" ~> process[c] = "exited"
<1> DEFINE P == HasAnswer(c)
           Q == process[c] = "closing"
           R == process[c] = "closed"
           S == process[c] = "exited"
<1>1. P /\ TypeOK /\ Run!ClientInv /\ [SystemNext]_systemVars => P' \/ Q'
  BY RunsGoForward
<1>2. P /\ TypeOK /\ Run!ClientInv /\ <<Proceed(c)>>_systemVars => Q'
  BY OwnStepOfRun DEF HasAnswer
<1>3. Q /\ TypeOK /\ Run!ClientInv /\ [SystemNext]_systemVars => Q' \/ R'
  BY RunsGoForward
<1>4. Q /\ TypeOK /\ Run!ClientInv /\ <<Proceed(c)>>_systemVars => R'
  BY OwnStepOfRun
<1>5. R /\ TypeOK /\ Run!ClientInv /\ [SystemNext]_systemVars => R' \/ S'
  BY RunsGoForward
<1>6. R /\ TypeOK /\ Run!ClientInv /\ <<Proceed(c)>>_systemVars => S'
  BY OwnStepOfRun
<1>7. (P \/ Q \/ R) /\ OnlyTheUpstreamHoldsRuns => ENABLED <<Proceed(c)>>_systemVars
  BY DEF OnlyTheUpstreamHoldsRuns, HasAnswer
<1> HIDE DEF P, Q, R, S
<1>8. Running(c) => (P ~> Q) /\ (Q ~> R) /\ (R ~> S)
  BY <1>1, <1>2, <1>3, <1>4, <1>5, <1>6, <1>7, PTL DEF Running, RunFairness
<1>9. QED
  BY <1>8 DEF P, Q, R, S

(* A call of a run is answered, unless the run gives it up before.          *)
LEMMA RunsAreAnswered ==
    ASSUME NEW c \in Callers
    PROVE  Running(c) /\ PatientSpec
           => (InCall(c) ~> (HasAnswer(c) \/ process[c] = "closing"))
<1> DEFINE P == InCall(c)
           B == c \in Busy
           Answered == phase[c] = "replied"
           Calling == process[c] = "calling"
           Closing == process[c] = "closing"
           Q == HasAnswer(c) \/ process[c] = "closing"
<1>1. TypeOK /\ Run!ClientInv /\ [SystemNext]_systemVars /\ Calling => Calling' \/ Closing'
  BY RunsGoForward
<1>2. /\ P => B /\ Calling
      /\ Calling /\ Answered => Q
      /\ Closing => Q
  BY DEF InCall, HasAnswer
<1>3. OnlyTheUpstreamHoldsRuns => ReadyCanGoOn
  BY DEF OnlyTheUpstreamHoldsRuns
<1>4. PatientSpec /\ []ReadyCanGoOn => (B ~> Answered)
  BY BusyIsReplied
<1> HIDE DEF P, B, Answered, Calling, Closing, Q
<1>5. Running(c) /\ PatientSpec => (P ~> Q)
  BY <1>1, <1>2, <1>3, <1>4, PTL DEF Running
<1>6. QED
  BY <1>5 DEF P, Q

(* The whole is fair to each of its parts.                                  *)
LEMMA FairToAll ==
    ASSUME NEW c \in Callers
    PROVE  FairSystemSpec /\ []OnlyTheUpstreamHoldsRuns => Running(c) /\ PatientSpec
<1>1. FairSystemSpec => SystemSpec /\ RunFairness(c)
  BY DEF FairSystemSpec
<1>2. FairSystemSpec => PatientSpec
  BY ServerIsItself DEF FairSystemSpec, PatientSpec, FairSpec
<1>3. SystemSpec => []TypeOK
  BY ServerIsItself, TypeCorrect, PTL
<1>4. QED
  BY <1>1, <1>2, <1>3, RunInvHolds, PTL DEF Running, SystemSpec

(* Every run of the command line against the running server comes to its    *)
(* end, for any number of runs and connections, whatever is typed and       *)
(* whenever the server is shut down or started again, if the upstream       *)
(* answers what it is sent.                                                 *)
THEOREM EveryRunIsOver ==
    FairSystemSpec /\ []OnlyTheUpstreamHoldsRuns => Client!EveryRunEnds
<1> SUFFICES ASSUME NEW c \in Callers
             PROVE  FairSystemSpec /\ []OnlyTheUpstreamHoldsRuns
                    => (process[c] # "none" ~> process[c] = "exited")
  BY DEF Client!EveryRunEnds
<1> DEFINE Fair == FairSystemSpec /\ []OnlyTheUpstreamHoldsRuns
           Started == process[c] # "none"
           Parsed == process[c] = "parsed"
           Built == process[c] \in {"connecting", "closed"}
           Connecting == process[c] = "connecting"
           Asking == InCall(c)
           Told == HasAnswer(c)
           Closing == process[c] = "closing"
           Closed == process[c] = "closed"
           Exited == process[c] = "exited"
<1>1. TypeOK /\ Run!ClientInv /\ Started
      => Parsed \/ Connecting \/ Asking \/ Told \/ Closing \/ Closed \/ Exited
  BY DEF TypeOK, Run!ClientInv, Run!ClientTypeOK, Run!Processes, Run!OnItsWay, InCall, HasAnswer,
         Busy
<1>2. Built => Connecting \/ Closed
  OBVIOUS
<1>3. /\ Running(c) => (Parsed ~> Built)
      /\ Running(c) => (Connecting ~> (Asking \/ Closing))
  BY RunsGetGoing
<1>4. Running(c) /\ PatientSpec => (Asking ~> (Told \/ Closing))
  BY RunsAreAnswered
<1>5. /\ Running(c) => (Told ~> Closing)
      /\ Running(c) => (Closing ~> Closed)
      /\ Running(c) => (Closed ~> Exited)
  BY RunsCloseAndEnd
<1>6. Fair => Running(c) /\ PatientSpec
  BY FairToAll
<1> HIDE DEF Fair, Started, Parsed, Built, Connecting, Asking, Told, Closing, Closed, Exited
<1>7. Fair => (Started ~> Exited)
  BY <1>1, <1>2, <1>3, <1>4, <1>5, <1>6, PTL DEF Running
<1>8. QED
  BY <1>7 DEF Fair, Started, Exited
=============================================================================
