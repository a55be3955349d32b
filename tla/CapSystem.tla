------------------------------ MODULE CapSystem -----------------------------
(***************************************************************************)
(* The whole: runs of the command line against the running server.  The    *)
(* server is CapServer, the runs are CapClient's, and in the place of the  *)
(* contract between them stand the server's own tasks: what a run sends is *)
(* what a task receives, what a task replies is what the run takes.  A run *)
(* that gave up, was cut off or interrupted leaves its request behind, and *)
(* the server goes on with it.                                             *)
(***************************************************************************)
EXTENDS CapServer, Integers, Sequences

CONSTANTS Words,         \* the words of header values
          CommandLines   \* what the user of each run may type

VARIABLES process, typed, sdkOpen, response, raised, printed, exit  \* as in CapClient

runVars == <<process, typed, sdkOpen, response, raised, printed, exit>>
systemVars == <<vars, runVars>>

\* What this server may tell a run.
AnswersGiven ==
    {Success} \cup {Refusal(q) : q \in {p \in Workload : ~Admitted(p)}}
              \cup {AdapterReply(verb, e) : verb \in UpstreamVerbs, e \in Endings}

Client == INSTANCE CapClient WITH
    up       <- lifecycle # "stopped",
    stage    <- [c \in Callers |-> CASE phase[c] = "idle"    -> "none"
                                     [] phase[c] = "replied" -> "answered"
                                     [] OTHER                -> "open"],
    asked    <- request,
    consults <- exchanges,
    answer   <- reply,
    AnswersSeen <- AnswersGiven

ASSUME CommandLinesFit == \A c \in Callers : CommandLines[c] \subseteq Client!Lines

\* No header has for its value what stands for no header.
ASSUME NoTokenIsNoValue == NoToken \notin Seq(Words)

\* The server gets no requests but those of the runs.
ASSUME RunsSendTheWorkload ==
    \A c \in Callers : \A command \in CommandLines[c] : Client!RequestOf(command) \in Workload

SystemInit == Init /\ Client!ClientInit

\* A run's request reaches the server.
Call(c) ==
    /\ \E q \in Workload : q = Client!RequestOf(typed[c]) /\ Receive(c, q)
    /\ Client!Send(c)

\* What a run does by itself, looking at the server at most.
RunStep(c) ==
    /\ UNCHANGED vars
    /\ \/ \E command \in CommandLines[c] : Client!ParseArguments(c, command)
       \/ Client!OpenSdk(c)
       \/ Client!RefuseLocally(c)
       \/ Client!LoseServer(c)
       \/ Client!Interrupt(c)
       \/ Client!TakeAnswer(c)
       \/ Client!CloseSdk(c)
       \/ Client!Finish(c)

\* What the server, its operators and the upstream do.
ServerStep ==
    /\ \/ \E key \in GatewayKeys : Start(key)
       \/ BeginShutdown
       \/ CloseClient
       \/ \E c \in Callers, e \in UpstreamEndings : UpstreamAnswers(c, e)
       \/ \E c \in Callers : Work(c)
    /\ UNCHANGED runVars

SystemNext == ServerStep \/ \E c \in Callers : Call(c) \/ RunStep(c)

SystemSpec == SystemInit /\ [][SystemNext]_systemVars

\* What a run does unless something keeps it: a server that has stopped
\* accepting, or is down, refuses the connection.
Proceed(c) ==
    \/ Call(c)
    \/ /\ UNCHANGED vars
       /\ \/ Client!OpenSdk(c)
          \/ lifecycle # "serving" /\ Client!LoseServer(c)
          \/ Client!TakeAnswer(c)
          \/ Client!CloseSdk(c)
          \/ Client!Finish(c)

\* Fair are the runs' processes, the server's event loop and the upstream.
RunFairness(c) == WF_systemVars(Proceed(c))

FairSystemSpec ==
    /\ SystemSpec
    /\ DrainFairness
    /\ \A c \in Callers : TaskFairness(c) /\ UpstreamFairness(c) /\ RunFairness(c)
-----------------------------------------------------------------------------
(* From the command line to the upstream and nothing in between gets mixed  *)
(* up: a call that waits for a connection or is with the upstream belongs   *)
(* to a run whose arguments were all right, even if that run is over; it    *)
(* carries the token of the run's last Authorization argument among those   *)
(* spelled like the first or, without one, the key the running server was   *)
(* started with; and it asks for the verb of the run's command.             *)
CallsAreAsTyped ==
    \A c \in InPhase("pooling") \cup InPhase("sent") :
        /\ process[c] \notin {"none", "parsed", "connecting"}
        /\ typed[c].fits /\ typed[c].inBounds
        /\ typed[c].command = "intervene-time-lag" => typed[c].outcome /\ typed[c].linear
        /\ request[c].verb = Client!VerbOf(typed[c].command)
        /\ IF Client!Given(typed[c], "authorization") = {} THEN credential[c] = gatewayKey
           ELSE \E i \in DOMAIN typed[c].headers :
                  /\ Client!TakesEffect(typed[c], i)
                  /\ typed[c].headers[i].value \in {credential[c], <<"bearer">> \o credential[c]}

(* From the upstream to the exit status: a run that exits with 0 and needs  *)
(* the upstream was given an object by the upstream in the one call made    *)
(* for it, with what the verb cannot do without; a run the SDK or the       *)
(* parser refused never reached the server.                                *)
ExitIsEarned ==
    \A c \in Callers :
        /\ exit[c] = 0 /\ request[c].verb \in UpstreamVerbs =>
              /\ exchanges[c] = 1
              /\ ending[c].raised = "nothing" /\ ending[c].body # "misshapen"
              /\ typed[c].command = "intervene-time-lag" => ending[c].body = "full"
        /\ exit[c] = 2 \/ raised[c] \in {"InvalidURL", "ValidationError"} =>
              phase[c] = "idle" /\ exchanges[c] = 0

(* Nothing holds a run but the upstream: what the server has to do it can   *)
(* do, and a run that waits for no answer, or has it, can go on, whatever   *)
(* the server is at: starting, draining or down.                            *)
OnlyTheUpstreamHoldsRuns ==
    /\ ReadyCanGoOn
    /\ \A c \in Callers :
          \/ process[c] \in {"parsed", "connecting", "closing", "closed"}
          \/ process[c] = "calling" /\ phase[c] = "replied"
          => ENABLED <<Proceed(c)>>_systemVars
=============================================================================
