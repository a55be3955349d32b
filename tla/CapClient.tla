------------------------------ MODULE CapClient -----------------------------
(***************************************************************************)
(* The command line: each caller is one run of it, a process that parses   *)
(* its arguments, opens an SDK client, sends one request to the server,    *)
(* closes the client whatever happened, and prints the answer or fails.    *)
(* The server is what CapContract says of it.                              *)
(***************************************************************************)
EXTENDS CapContract, Integers, Sequences

CONSTANTS Words,         \* the words of header values
          CommandLines,  \* what the user of each run may type
          AnswersSeen    \* the replies of the server this instance looks at

(***************************************************************************)
(* A command line.  fits: the arguments are those the parser knows, of the *)
(* right types and choices; goodUrl: httpx takes the base URL; inBounds:   *)
(* the numbers are in the ranges of the request model; outcome:            *)
(* --outcome-node is given; linear: --model is "linear"; headers: the      *)
(* --header arguments, each with or without a colon, and what stands on    *)
(* its two sides: the name in lower case ("" if there is none), how it is  *)
(* spelled, and the value as a sequence of words, whatever blanks part     *)
(* them; "bearer" is that word in whatever case.                           *)
(***************************************************************************)
Commands ==
    {"capabilities", "neighbors", "paths", "observe", "markov-blanket", "intervene-time-lag"}

Arguments ==
    Seq([colon : BOOLEAN, name : STRING, spelling : STRING, value : Seq(Words)])

Lines ==
    [command : Commands, headers : Arguments,
     fits : BOOLEAN, goodUrl : BOOLEAN, inBounds : BOOLEAN,
     outcome : BOOLEAN, linear : BOOLEAN]

ASSUME CommandLinesAssumption == \A c \in Callers : CommandLines[c] \subseteq Lines

ASSUME AnswersSeenAssumption == AnswersSeen \subseteq Replies

VARIABLES process,   \* how far each run has come
          typed,     \* its command line
          sdkOpen,   \* its SDK client is open
          response,  \* what run_command got from the SDK
          raised,    \* the exception on its way out of run_command
          printed,   \* what main printed
          exit       \* the exit status, once the process is over

processVars == <<process, typed, sdkOpen, response, raised, printed, exit>>
clientVars == <<contractVars, processVars>>

Processes ==
    {"none",        \* not started
     "parsed",      \* the arguments are in order
     "connecting",  \* the client is open, nothing is sent
     "calling",     \* the request is with the server
     "closing",     \* in the finally clause
     "closed",      \* asyncio.run is over
     "exited"}

NoCommandLine == [command |-> "none", headers |-> <<>>, fits |-> FALSE, goodUrl |-> FALSE,
                  inBounds |-> FALSE, outcome |-> FALSE, linear |-> FALSE]

ClientInit ==
    /\ CInit
    /\ process = [c \in Callers |-> "none"]
    /\ typed = [c \in Callers |-> NoCommandLine]
    /\ sdkOpen = [c \in Callers |-> FALSE]
    /\ response = [c \in Callers |-> NoReply]
    /\ raised = [c \in Callers |-> "nothing"]
    /\ printed = [c \in Callers |-> NoReply]
    /\ exit = [c \in Callers |-> -1]

IsHeader(argument) == argument.colon /\ argument.name # "" /\ argument.value # <<>>

Parses(line) == line.fits /\ \A i \in DOMAIN line.headers : IsHeader(line.headers[i])

Given(line, name) == {i \in DOMAIN line.headers : line.headers[i].name = name}

SpelledLike(line, i) ==
    {j \in Given(line, line.headers[i].name) :
        line.headers[j].spelling = line.headers[i].spelling}

Earliest(positions) == CHOOSE i \in positions : \A j \in positions : i <= j

Latest(positions) == CHOOSE i \in positions : \A j \in positions : i >= j

\* Variant: a name that is there already keeps its value.
HeaderKept(line, i) == line.headers[Earliest(SpelledLike(line, i))].value

\* The value _build_headers sends in the place of the argument i, the first
\* one in its spelling: a dictionary replaces the value of a key it has.
HeaderSent(line, i) == line.headers[Latest(SpelledLike(line, i))].value

\* What the gateway client reads under a name, <<>> if nothing: headers in
\* other spellings are all sent, and it takes the first whatever the case.
HeaderRead(line, name) ==
    IF Given(line, name) = {} THEN <<>> ELSE HeaderSent(line, Earliest(Given(line, name)))

\* What the gateway client puts after "Bearer " in its own header.
NormalizeBearerToken(value) ==
    IF value[1] = "bearer" /\ Len(value) > 1 THEN Tail(value) ELSE value

Authorization(line) ==
    LET value == HeaderRead(line, "authorization") IN
    IF value = <<>> THEN NoToken ELSE NormalizeBearerToken(value)

ExtensionRoute == "extensions/abel/intervene_time_lag"

CoreVerb(command) ==
    IF command = "capabilities" THEN "meta.capabilities"
    ELSE IF command = "neighbors" THEN "graph.neighbors"
    ELSE IF command = "paths" THEN "graph.paths"
    ELSE IF command = "observe" THEN "observe.predict"
    ELSE "graph.markov_blanket"

\* Variant: the route in place of the verb it stands for.
VerbByRoute(command) ==
    IF command = "intervene-time-lag" THEN ExtensionRoute ELSE CoreVerb(command)

\* The client names the extension by its route; the verb has dots for slashes.
VerbOf(command) ==
    IF command = "intervene-time-lag" THEN "extensions.abel.intervene_time_lag"
                                      ELSE CoreVerb(command)

\* The request a command sends: the parser demands no outcome node and the
\* client none either, no command sets context or options.
RequestOf(line) ==
    [verb       |-> VerbOf(line.command),
     wellFormed |-> line.inBounds /\ (line.command = "intervene-time-lag" => line.outcome),
     graph      |-> "absent",
     timeoutMs  |-> 0,
     auth       |-> Authorization(line),
     linear     |-> line.linear]

(***************************************************************************)
(* The process.                                                            *)
(***************************************************************************)
ParseArguments(c, line) ==
    /\ process[c] = "none"
    /\ typed' = [typed EXCEPT ![c] = line]
    /\ process' = [process EXCEPT ![c] = IF Parses(line) THEN "parsed" ELSE "exited"]
    /\ exit' = [exit EXCEPT ![c] = IF Parses(line) THEN @ ELSE 2]
    /\ UNCHANGED <<contractVars, sdkOpen, response, raised, printed>>

\* The client is built before the try.
OpenSdk(c) ==
    /\ process[c] = "parsed"
    /\ process' = [process EXCEPT ![c] = IF typed[c].goodUrl THEN "connecting" ELSE "closed"]
    /\ sdkOpen' = [sdkOpen EXCEPT ![c] = typed[c].goodUrl]
    /\ raised' = [raised EXCEPT ![c] = IF typed[c].goodUrl THEN @ ELSE "InvalidURL"]
    /\ UNCHANGED <<contractVars, typed, response, printed, exit>>

\* Variant: no finally.
RaiseUncaught(c, exception) ==
    /\ process' = [process EXCEPT ![c] = "closed"]
    /\ raised' = [raised EXCEPT ![c] = exception]

\* An exception inside the try: the finally clause comes next.
Raise(c, exception) ==
    /\ process' = [process EXCEPT ![c] = "closing"]
    /\ raised' = [raised EXCEPT ![c] = exception]

Send(c) ==
    /\ process[c] = "connecting"
    /\ Open(c, RequestOf(typed[c]))
    /\ process' = [process EXCEPT ![c] = "calling"]
    /\ UNCHANGED <<typed, sdkOpen, response, raised, printed, exit>>

\* The SDK's own methods may refuse what their request models refuse; the
\* extension method hands over a plain dictionary.
RefuseLocally(c) ==
    /\ process[c] = "connecting"
    /\ ~typed[c].inBounds
    /\ typed[c].command # "intervene-time-lag"
    /\ Raise(c, "ValidationError")
    /\ UNCHANGED <<contractVars, typed, sdkOpen, response, printed, exit>>

\* No connection, or none any more: the server may go on with the request.
LoseServer(c) ==
    /\ process[c] \in {"connecting", "calling"}
    /\ Raise(c, "TransportError")
    /\ UNCHANGED <<contractVars, typed, sdkOpen, response, printed, exit>>

\* Ctrl-C: asyncio.run cancels the task, which unwinds; in the finally clause
\* it leaves an SDK client that counts as closed since aclose was called.
Interrupt(c) ==
    /\ \/ /\ process[c] \in {"connecting", "calling"}
          /\ Raise(c, "CancelledError")
          /\ UNCHANGED sdkOpen
       \/ /\ process[c] = "closing"
          /\ process' = [process EXCEPT ![c] = "closed"]
          /\ raised' = [raised EXCEPT ![c] = "CancelledError"]
          /\ sdkOpen' = [sdkOpen EXCEPT ![c] = FALSE]
    /\ UNCHANGED <<contractVars, typed, response, printed, exit>>

\* Variant: an error body taken for an answer.
TakeAnswerUnchecked(c) ==
    /\ process[c] = "calling"
    /\ stage[c] = "answered"
    /\ response' = [response EXCEPT ![c] = answer[c]]
    /\ process' = [process EXCEPT ![c] = "closing"]
    /\ UNCHANGED <<contractVars, typed, sdkOpen, raised, printed, exit>>

\* Variant: nothing done about an error body.
TakeAnswerIfGood(c) ==
    /\ process[c] = "calling"
    /\ stage[c] = "answered"
    /\ answer[c] = Success
    /\ response' = [response EXCEPT ![c] = answer[c]]
    /\ process' = [process EXCEPT ![c] = "closing"]
    /\ UNCHANGED <<contractVars, typed, sdkOpen, raised, printed, exit>>

TakeAnswer(c) ==
    /\ process[c] = "calling"
    /\ stage[c] = "answered"
    /\ IF answer[c] = Success
         THEN /\ response' = [response EXCEPT ![c] = answer[c]]
              /\ process' = [process EXCEPT ![c] = "closing"]
              /\ UNCHANGED raised
         ELSE Raise(c, "CAPHTTPError") /\ UNCHANGED response
    /\ UNCHANGED <<contractVars, typed, sdkOpen, printed, exit>>

CloseSdk(c) ==
    /\ process[c] = "closing"
    /\ sdkOpen' = [sdkOpen EXCEPT ![c] = FALSE]
    /\ process' = [process EXCEPT ![c] = "closed"]
    /\ UNCHANGED <<contractVars, typed, response, raised, printed, exit>>

\* Back in main: print the payload, or let the exception end the process; a
\* cancellation ends it as SIGINT would.
Finish(c) ==
    /\ process[c] = "closed"
    /\ process' = [process EXCEPT ![c] = "exited"]
    /\ IF raised[c] = "nothing"
         THEN printed' = [printed EXCEPT ![c] = response[c]] /\ exit' = [exit EXCEPT ![c] = 0]
         ELSE /\ exit' = [exit EXCEPT ![c] = IF raised[c] = "CancelledError" THEN 130 ELSE 1]
              /\ UNCHANGED printed
    /\ UNCHANGED <<contractVars, typed, sdkOpen, response, raised>>

Serve(c) ==
    /\ Consult(c) \/ \E r \in AnswersSeen : answer' = [answer EXCEPT ![c] = r] /\ Settle(c)
    /\ UNCHANGED processVars

ClientNext ==
    \/ (Launch \/ Retire) /\ UNCHANGED processVars
    \/ \E c \in Callers :
          \/ \E line \in CommandLines[c] : ParseArguments(c, line)
          \/ OpenSdk(c) \/ Send(c) \/ RefuseLocally(c) \/ LoseServer(c) \/ Interrupt(c)
          \/ TakeAnswer(c) \/ CloseSdk(c) \/ Finish(c)
          \/ Serve(c)

ClientSpec == ClientInit /\ [][ClientNext]_clientVars

(***************************************************************************)
(* Fairness: a process goes on as long as nothing outside keeps it, a      *)
(* server that is down refuses the connection, and one that is up answers  *)
(* (MCServerAnswers shows when it does).                                   *)
(***************************************************************************)
Proceed(c) ==
    \/ OpenSdk(c) \/ Send(c) \/ (~up /\ LoseServer(c))
    \/ TakeAnswer(c) \/ CloseSdk(c) \/ Finish(c)

ProcessFairness(c) == WF_clientVars(Proceed(c))
ServerFairness(c) == WF_clientVars(Serve(c))

FairClientSpec ==
    ClientSpec /\ \A c \in Callers : ProcessFairness(c) /\ ServerFairness(c)
-----------------------------------------------------------------------------
(* The SDK client is open exactly from its construction to the end of the   *)
(* finally clause: no run, refused, answered, cut off or interrupted, ends  *)
(* with it open.                                                            *)
ClosedWhenDone ==
    \A c \in Callers : sdkOpen[c] <=> process[c] \in {"connecting", "calling", "closing"}

(* The exit status tells the outcome: 0 if and only if the answer the       *)
(* server gave to this very command was printed, a success, for which the   *)
(* upstream was consulted if the verb needs it; 2 only if the server was    *)
(* never asked; and nothing is printed before the end.                      *)
ExitTellsOutcome ==
    \A c \in Callers :
        /\ exit[c] = 0 <=> printed[c] # NoReply
        /\ printed[c] # NoReply =>
              /\ process[c] = "exited"
              /\ stage[c] = "answered" /\ answer[c] = Success /\ printed[c] = answer[c]
              /\ asked[c] = RequestOf(typed[c])
              /\ asked[c].verb \in UpstreamVerbs => consults[c] = 1
        /\ exit[c] = 2 => stage[c] = "none" /\ ~Parses(typed[c])

(* The server knows every command: a run is refused only for numbers out of *)
(* bounds, a missing outcome node, which neither the parser nor the client  *)
(* asks for, or a model other than linear.                                  *)
CommandsAreServed ==
    \A c \in Callers : stage[c] # "none" =>
        LET line == typed[c] IN
        ~Admitted(asked[c]) <=>
            \/ ~line.inBounds
            \/ line.command = "intervene-time-lag" /\ ~(line.outcome /\ line.linear)

\* The argument i is the last one spelled like the first Authorization.
TakesEffect(line, i) ==
    LET given == Given(line, "authorization")
        alike == {j \in given : line.headers[j].spelling = line.headers[i].spelling}
    IN /\ i \in given
       /\ \A j \in alike : j <= i
       /\ \E j \in alike : \A k \in given : j <= k

(* The token the upstream would get for a command line is the one its last  *)
(* Authorization argument names, of those spelled like the first, with or   *)
(* without the word Bearer before it; without such an argument there is     *)
(* none. So one that repeats the name as it was spelled replaces the token, *)
(* and one in another spelling is passed over.                              *)
CredentialAsWritten ==
    \A c \in Callers : stage[c] # "none" =>
        LET token == asked[c].auth IN
        IF Given(typed[c], "authorization") = {} THEN token = NoToken
        ELSE \E i \in DOMAIN typed[c].headers :
               LET value == typed[c].headers[i].value IN
               /\ TakesEffect(typed[c], i)
               /\ value \in {token, <<"bearer">> \o token}
               /\ value = token => Head(token) # "bearer" \/ Len(token) = 1

(* Nothing holds a run but the server: one that neither has ended nor waits *)
(* for an answer can go on, also when the server is down or has refused it, *)
(* and a server that was asked has something to answer.                     *)
OnlyTheServerIsAwaited ==
    \A c \in Callers :
        /\ \/ process[c] \in {"parsed", "connecting", "closing", "closed"}
           \/ process[c] = "calling" /\ stage[c] = "answered"
           => ENABLED <<Proceed(c)>>_clientVars
        /\ stage[c] = "open" => ENABLED <<Serve(c)>>_clientVars

(* A run that is started comes to its end.                                  *)
EveryRunEnds == \A c \in Callers : process[c] # "none" ~> process[c] = "exited"
=============================================================================
