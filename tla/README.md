# The CAP reference adapter in TLA+

This directory specifies `abel_cap_server`, the adapter that answers CAP requests by
calling Abel's graph primitives, and the command line of `abel_cap_client`, and checks them
with TLC and TLAPS. Paths and line numbers
are those of the repository this directory describes (`src/` stands for its root).

1. [The system](#1-the-system)
2. [The modules](#2-the-modules)
3. [What is checked](#3-what-is-checked)
4. [What is proved](#4-what-is-proved)
5. [Where code and documentation disagree](#5-where-code-and-documentation-disagree)
6. [What is not modelled](#6-what-is-not-modelled)
7. [Plan](#7-plan)

## 1. The system

A caller posts an envelope `{verb, params, context, options}` to `/cap`. The dispatcher
looks the verb up, validates the body against the verb's request model and calls its
handler; the handler passes the payload and the HTTP headers through `CapService` to an
*adapter*; the adapter checks its guards, makes **one** call to the upstream gateway through
the client that all requests share, translates whatever the call raises into a CAP error,
removes the hidden fields from the body and builds the result. Three GET routes and
`meta.capabilities` are answered from memory.

Everything runs in one process on one asyncio loop. A request is a task; tasks interleave
only at `await`s, and the one place where an adapter awaits anything is the upstream call.
Nothing is persisted.

| component | state it keeps | operations | talks to |
|---|---|---|---|
| process, lifespan (`main.py`) | the app, its client, whether it serves or drains | `create_app`, `lifespan` | uvicorn, gateway client |
| routes, dispatcher (`api/`) | the registry, fixed at import | `dispatch_cap`, `metadata`, `capability_card`, `health_check` | handlers, CAP SDK |
| handlers, service (`cap/handlers.py`, `cap/service.py`) | none | one coroutine per verb | adapters |
| adapters (`cap/adapters/`) | none beyond the running call | eleven verbs that need the upstream | gateway client, error translation, disclosure |
| error translation (`cap/errors.py`) | none | `translate_upstream_error` | - |
| gateway client (`clients/abel_gateway_client.py`) | key, base URL, one `httpx.AsyncClient` | six upstream calls, `aclose` | upstream gateway |
| connection pool (httpx, external) | connections in use, calls waiting | take, wait, give back | upstream gateway |
| catalog, card (`cap/catalog.py`) | registry, graph profile | `build_capability_card` | settings |
| disclosure, provenance | none | `sanitize_hidden_fields`, `build_abel_provenance_context` | - |
| request logging (`middlewares/`, `core/logging.py`) | a context variable per task | `dispatch`, log filter | every route |
| settings (`core/config.py`) | environment, read once | `get_settings` | - |
| client library, CLI (`abel_cap_client/`) | one HTTP client per command | a method per verb, `run_command` | the server |

What is hard about it, and what makes each part correct:

* **Sharing one client.** Concurrent requests bring tokens of their own or rely on the
  server's key. Each call must go out with its own credential however long it waited for a
  connection; a connection must come back however a call ends; the line for connections must
  not stall.
* **Time.** `options.timeout_ms` races the answer and also runs while a call still waits for
  a connection. A request must get one reply, the timeout or the answer. A request without
  `timeout_ms` has no timeout at all, so what it can do to others matters.
* **Starting and stopping.** The client is built with the app and closed by the lifespan;
  nothing may run on a closed client, and a shutdown has to end.
* **Failure.** Some fifteen kinds of upstream outcome meet eleven adapters, and the clauses of
  the translation overlap. The documented error policy must hold for each pair, and no
  failure or missing value may come out as a result.
* **Results.** The upstream explains a node in several styles, and several verbs read the same
  explanation. What an answer claims must be so, what it leaves out it must tell, and two
  answers about the same facts must agree; a hidden field must not come through.
* **Knowing what happened.** Log records of interleaved requests are told apart by an id in a
  context variable; they must name the right request and its outcome, in whatever way it ended.
* **The other end.** A run of the command line can be refused, cut off, interrupted or
  answered with an error at any point; it must close its client and not call that a success.
* **Guards.** Each adapter checks the graph reference (or not) by itself; nothing may reach
  the upstream past a guard that should have stopped it.

`PROJECT.json` lists the hazards at the lines where they bite with the properties about them.

## 2. The modules

```
CapCatalog             verbs, requests, replies, guards           (pure)
  UpstreamErrors       endings of a call, translation, adapters   (pure)
    CapContract        what the server promises, without any of the machinery
      CapClient        runs of the command line, with the contract as their server
ConnectionPool         the shared pool of connections             (external component)
CapServer              UpstreamErrors + ConnectionPool + tasks, timers, lifecycle
  RequestLogging       CapServer inside the logging middleware
  CapSystem            CapServer with runs of CapClient for its callers
GraphResults           neighbours, roles, limits                  (pure)
EffectResults          effects of interventions                   (pure)
Disclosure             fields of a body that reach a caller       (pure)
  AdapterResults       questions to the adapters about the facts of one upstream
CapServerProofs        the server's invariants and its contract
  CapServerProgress    its line, its answers, its end
  CapSystemProofs      the whole, with CapClientProofs
    CapSystemProgress  its runs' end, with CapServerProgress
RequestLoggingProofs, GraphResultsProofs, AdapterResultsProofs, CapClientProofs
MCCapServer, MCRequestLogging, MCAdapterResults, MCCapClient, MCCapSystem    instances for TLC
```

**CapCatalog.** The verbs of the dispatch registry and, per verb, what its adapter does
before the call: `GuardsGraphRef`, `NonLinear`, the operation label it hands to the
translation. A request is a record of what the control flow looks at: whether the body fits
its model, whether the graph reference is absent, supported or not, `timeout_ms` (0 also
stands for its absence: `_request_timeout` tests its truth value), the token of the
`Authorization` header, whether `params.model` is `"linear"`. `Refusal` puts the checks in the
order in which they are made. That an unknown verb is a 400 `verb_not_supported` and a
malformed body a 422 `invalid_request` is the SDK dispatcher's doing, taken from
`tests/test_cap_graph.py` (768-782) and `tests/test_cap_protocol_sdk.py` (425).

**UpstreamErrors.** An *ending* is how the awaited client call came out: a JSON value of one
of four shapes (`full`, `empty`, `partial`, `misshapen`), an HTTP status error, a transport
error, a JSON decoding error, a timeout, or the `RuntimeError` of a missing credential or of
a closed client. `Translate` keeps the clauses of `translate_upstream_error` in source order
over httpx's exception classes. `ReadBody` is what happens after the `try` block: adapters
that index items or feed them to required fields raise on `partial` bodies, every adapter
raises on a value without `.get` or a field it cannot convert, and the intervention verbs report a missing outcome as
`path_not_found`. `Untranslated` marks an exception other than `CAPAdapterError` that leaves
the adapter; the framework makes a bare HTTP 500 of it.

**ConnectionPool.** External: httpx's pool as the client uses it. `held` are the calls with a
connection, `line` those that wait, `ahead[c]` those that stood in line before `c` did. The pool
is bounded by `MaxConnections` (httpx's default is 100) and serves in order of arrival. The order is an
assumption about httpx, which the liveness theorems use; no property claims it, since no
line of the repository could break it. Keep-alive,
HTTP/2 and reconnecting are left out: they change how a connection is made, not how many there are.

**CapServer.** One action per stretch of a task between two awaits:

| action | code |
|---|---|
| `Start`, `BeginShutdown`, `CloseClient` | `create_app`; uvicorn stops accepting; `lifespan` after the running requests |
| `Receive` | `dispatch_cap` gets a request |
| `Reject`, `AnswerLocally` | verb lookup, validation, adapter guards; `meta_capabilities` and the GET routes |
| `PlaceCall` | the adapter calls the client: `_build_headers`, `_request_timeout`, the call joins the pool |
| `FailToCall` | `_build_headers` finds no credential, or the client is closed |
| `SendCall` | the pool gives it a connection |
| `UpstreamAnswers` | the upstream, or the network, does something |
| `ReadAnswer`, `DeadlineExpires` | the awaited call returns or raises; the timeout fires instead |
| `Conclude` | the adapter resumes: translation or reading, reply |

httpx applies its timeout to each wait (pool, connect, every read and write) and not to the
whole call; an upstream answer is finite, so a timed call still ends, and the model lets the
deadline fire at any moment until the answer has been read. A caller that hangs up changes
nothing: the task runs on and its reply goes nowhere. uvicorn waits for running requests before
it ends the lifespan; a process that is killed takes all its requests with it and leaves
nothing behind, so it is no different from one not yet started and has no action of its own.
Definitions commented "Variant" are mistaken forms of the definition after them; no
specification uses them, they measure whether a property would notice the mistake.

**CapContract.** The abstract promise: a request is open until it gets one answer; while it is
open the upstream may be consulted for it at most once, and only if it passes the guards of
its verb; an answer that no consultation preceded is the request's refusal, a local verb's
success, `computation_timeout` or `upstream_error`; the service is retired only when nothing is
open. `CapServer` implements it under the mapping `Contract` (`INSTANCE ... WITH`), in which
line, wire, timers and credentials disappear.

**RequestLogging.** `CapServer` with `RequestLoggingMiddleware` around every request. `Enter` is
`dispatch` up to `call_next` together with the dispatcher's `Receive`; `LoggedWork` is a step of
the task inside, with the record httpx logs of an upstream call; `Leave` is what `dispatch` does
afterwards: the failure record if an exception came through, the completion record, the echo,
the reset of the context variable. httpx logs a call once the headers of its answer are in: for
an answer or a status error that is certain (`HeadersCertain`), for a call that broke off or
timed out it may or may not have happened. uvicorn's own access line is written after the
reset, with the id "-", and names nobody. The lifespan ends when every request has left.

**GraphResults, EffectResults, Disclosure.** How the adapters make a result out of a body.
`Explanation` is the external part: a graph as the upstream knows it, told in one of four styles
(`related_nodes` only; the three lists of a blanket; one item per neighbour with all its roles and
a label of the upstream's own; one item per relationship). `Candidates` is
`_map_neighbors_from_scope`, `Shown` the cut of a list sorted by name and, for items of one
node, by their lists of roles in Python's order; a list is the set of its entries, so that two
wholly equal items of one answer count once. `InterveneDo` and `InterveneTimeLag` read the same
`node_summaries`, the one passing over what it cannot use, the other converting all of them
first. A body is, for `Disclosure`, the set of the paths of keys to its scalars; `Sanitize` drops
those with a hidden key anywhere, `Disclosed` is what a verb then copies into its result. Fields
that are read one by one under names that are not hidden are left out.

**AdapterResults.** A session: one upstream, whose facts do not change, and question after
question to it. The pure modules become actions (`GraphNeighbors`, `TraverseGraph`, `GraphPaths`,
`Intervene`, ...), so that an invariant holds an answer against the facts and an action property
holds two answers against each other.

**CapClient.** Each caller is one run of the command line:

| action | code (`abel_cap_client/example.py`) |
|---|---|
| `ParseArguments` | `main`, `build_parser`, `_parse_header_argument`; exit 2 on a mistake |
| `OpenSdk` | `run_command` builds the client, before its `try` |
| `Send` | the branch of the command; the request as the server will see it (`RequestOf`) |
| `RefuseLocally` | the SDK's own request model refuses what the server's would |
| `TakeAnswer` | a success is returned, an error envelope raised |
| `LoseServer`, `Interrupt` | no connection or none any more; Ctrl-C, which cancels the task, also while it awaits `aclose` |
| `CloseSdk` | the `finally` clause |
| `Finish` | `main` prints and returns 0, or the exception ends the process with 1, an interrupt with 130 |
| `Serve` | the server: the contract's `Consult` or `Settle` |

The server is `CapContract`, not `CapServer`: the second is shown to implement the first, so
what holds of a client of the contract holds of a client of the server.

A header argument has a name, a spelling of it and a value. `_build_headers` keeps the headers
in a dictionary whose keys are spellings: in one spelling a later value takes the place of an
earlier one (`HeaderSent`), in different spellings every value is sent, in the order in which
the spellings first came. `_read_header`, on the other side, takes the first header whose name
fits in any case (`HeaderRead`). What therefore takes effect of several `Authorization` arguments is the *last*
one spelled like the *first* (`TakesEffect`, which `CredentialAsWritten` and `CallsAreAsTyped` use).
Values are sequences of words; blanks only part them. `Authorization` is the way from the
argument to the token in the upstream call: `_build_headers` here, `_read_header` and
`_normalize_bearer_token` there, to which the word "bearer" may be in any case. The SDK's
transport is external; it keeps headers in their order.

**CapSystem.** The whole: runs of the command line against the running server. It conjoins the
two modules' own actions and adds none. `Call` is a run's `Send` together with the server's
`Receive` of the request that was typed; `RunStep` is what a run does by itself, looking at the
server's replies at most; `ServerStep` is what the server, its operators and the upstream do.
`Client` instantiates `CapClient` with the server's tasks in the contract's place, under the
mapping of `Contract`. Here a run that gave up leaves its request behind, and the server's task
goes on with it next to those of the other runs. The composition also says what each side takes
for granted of the other: `AnswersGiven` are the answers this server can give, and every request
is one that a command line sends.

## 3. What is checked

Tokens are model values; callers, and request ids, are interchangeable, which `MCServerPool` and
`MCServerSafety` use as symmetry (their properties are symmetric and none is liveness).

| run | instance | shows |
|---|---|---|
| `MCServerSafety` | the logging server: 2 callers, 1 connection, 5 kinds of request, 2 request ids, with and without a gateway key | `TypeOK`, `OnlyAdmittedCalls`, `AtMostOneExchange`, `CallHistory`, `AnsweredOnce`, `KeepsContract`, `RecordsNameTheirRequest`, `LogTellsOutcome`, `EchoNamesRequest` |
| `MCServerPool` | 3 callers, 2 connections, timed and untimed calls | `ConnectionsAccounted`, `LineIsOrdered`, `NobodyWaitsInVain`, `OnlyTheUpstreamBlocks`, `ReadyCanGoOn` |
| `MCServerVerbs` | 1 caller, every verb and kind of request, every ending, upstream statuses 302, 401, 500 besides those with a clause | `ReportedAsDocumented`, `SuccessIsEarned`, `ReadyCanGoOn` |
| `MCServerAnswers` | 2 callers, 1 connection, an upstream that need not answer | `BoundedRequestsAnswered`, `DrainEnds`, `EveryRequestAnswered` |
| `MCResults` | 3 nodes, every graph in every style, limits -2 to 2, up to 2 effect summaries of 2 nodes, every set of 6 fields; every pair of questions | `ClaimsAreTrue`, `NothingHiddenUntold`, `EffectIsTheOutcomes`, `NothingHiddenDisclosed`, `LargerLimitShowsMore`, `SurfacesAgree`, `EffectsAgree` |
| `MCClient` | 2 runs; every command, `Authorization` values of up to 3 words, several headers in one spelling and in two, each mistake once | `ClosedWhenDone`, `ExitTellsOutcome`, `CommandsAreServed`, `CredentialAsWritten`, `OnlyTheServerIsAwaited`, `EveryRunEnds` |
| `MCSystem` | 2 runs, 1 connection; a header given three times in two spellings, a run without one, arguments the parser or the SDK refuses | `CallsAreAsTyped`, `ExitIsEarned`, `OnlyTheUpstreamHoldsRuns` |
| `MCDocTimeout`, `MCDocBlanket`, `MCDocGraph`, `MCDocFailures`, `MCDocEcho` | 1 caller, the verb in question (two of them for `MCDocFailures` and `MCDocEcho`) | counterexamples, section 5 |

*Bounds.* Callers ask again and again and the process restarts without limit: no counter
grows, so nothing but the constants is bounded. Two callers on one connection are enough for
a call to wait behind, outlive or time out next to another. A call that waits, times out
or gets its turn while two others hold connections takes three callers,
and two connections make the limit differ from mutual exclusion. One caller is enough
for the table of verbs and endings, because a reply depends on its own request and ending
only - which `CallHistory` states and the runs with several callers check.

Two request ids let callers have different ids or, as `X-Request-ID` comes from them, the same.
Three nodes are the fewest with a spouse; they make every combination of roles possible, and a
limit of 2 cuts their lists, at a place between two items of one node too. Two summaries are
the fewest where the first is unusable or another node's. Two questions in a row are all that a
property of a pair can see. The second run of the client asks one thing only: the runs meet
nowhere but in the server's life, which the other one's open request prolongs. In `MCSystem` they also meet
in the pool: there one calls with a token of its own and the other with the gateway's key.

*Fairness.* `FairSpec` is weak fairness of each task's own steps and of closing the client: the
event loop runs every task that is ready and every timer that has expired, and uvicorn ends
the lifespan when its tasks are done. A deadline is among a task's own steps, so a timed call
does not wait for ever; an untimed one may. Callers, operators and the upstream owe nothing.
That the upstream answers what it was sent is fairness too, but not the server's: `UpstreamFairness`
is a hypothesis of `EveryRequestAnswered` and of no other property (`PatientSpec` is `FairSpec` with
it). Weak fairness suffices for taking a connection because httpx serves its line in
order: whoever is first stays first, and enabled, while a connection is free.

`FairClientSpec` is weak fairness of a run's own steps, in which a server that is down refuses the
connection, and of the server's for an open request; that a server which is up answers is what
`MCServerAnswers` shows of `CapServer`. Lost connections and interrupts may happen or not.

`FairSystemSpec` is the fairness of the whole: `PatientSpec`'s for the server and the upstream, and that
of each run's own steps (`Proceed`), in which a server that is not accepting, draining or down, refuses
the connection, since uvicorn closes its sockets before it waits for its tasks. No run uses it:
with a liveness property the instance of `MCSystem` takes too long. What depends on it is proved
(`EveryRunIsOver`), and `MCSystem` checks the hypothesis of the proof under `SystemSpec`.

*Deadlock* is checked in every run: a stopped process can be started, a question asked again.

*Mutants.* Every property is also run against a wrong variant of the code: a header
set on the shared client, a retry after a timeout, a timer that fires after the reply, a leaked
connection, a place in line that is kept, clauses of the translation in another order, a
client closed before its requests are done, a repeated header that keeps its first value, and so
on. Each is found.

## 4. What is proved

### The server

`CapServerProofs` proves, for every finite set of callers, every workload, every size of
the pool, every set of keys and every set of other upstream statuses:

| theorem | statement |
|---|---|
| `TypeCorrect` | `Spec => []TypeOK` |
| `PoolIsAccounted` | `Spec => []ConnectionsAccounted` |
| `LineStaysOrdered` | `Spec => []LineIsOrdered` |
| `Admission` | `Spec => []OnlyAdmittedCalls` |
| `NoRetries` | `Spec => []AtMostOneExchange` |
| `ErrorPolicy` | `Spec => []ReportedAsDocumented` |
| `ResultsAreEarned` | `Spec => []SuccessIsEarned` |
| `RepliesAreFinal` | `Spec => AnsweredOnce` |
| `Refinement` | `Spec => KeepsContract` |
| `HistoryIsKept` | `Spec => []CallHistory` |

The assumptions are the named ones of the modules: `NoToken` is not a token, other statuses
are numbers that are neither successes nor the statuses with a clause of their own, the set of
callers is finite, the pool has room for one call, the workload consists of requests, keys are
tokens. TLC evaluates them in every run.

The inductive invariant `IInv` is `TypeOK /\ CallHistory /\ ConnectionsAccounted /\
LineIsOrdered /\ OnlyAdmittedCalls`; the runs check each conjunct. The safety properties of replies
are not inductive: they say something about a reply and the ending behind it, and nothing in them
rules out a task that is about to reply to an ending its call never had. `CallHistory` does: it
says for every phase what must have happened before - in particular that a call which got no
connection can only have timed out or failed before it was placed, and that a reply is the
refusal, the local success, or `AdapterReply` of the request's own verb and ending. With it the
theorems about replies become statements about the pure operators of `UpstreamErrors`
(`EndingShapes`, `EndingClass`, `AdapterReplyType`, `UnsentCallsSayLittle`). One lemma per
conjunct (`TypeStep`, `HistoryStep`, `ConnectionsStep`, `LineStep`, `AdmissionStep`) shows that
every action preserves it; `OnlyAdmittedCalls` needs `CallHistory` because a restart may change
the gateway key, and only an idle server restarts. `ConnectionsStep` carries the only
reasoning about cardinalities, with the library's facts on finite sets. `Refinement` maps the
initial state and every action: `SendCall` is the contract's `Consult`, every action that
replies is `Settle`, the lifecycle is `Launch` and `Retire`, and what moves calls between line,
pool and wire changes nothing the contract sees (`ContractActions` names, for each action of the
server, the contract's action or the stutter it is).

`LineIsOrdered` once said only that of two waiting calls one is ahead of the other and that nobody
waits for a call that has left. The attempt to prove that somebody is first showed that this
is too weak: three calls, each ahead of the next in a circle, satisfy it, and such a line stands
still for ever. The code cannot reach that state, since a call that joins has everybody ahead; the
invariant now says so: whoever is ahead of one ahead of me is ahead of me.

### The server goes on

`CapServerProgress` is about what the server owes those who wait.

| theorem | statement |
|---|---|
| `NobodyWaits` | `Spec => []NobodyWaitsInVain` |
| `UpstreamAloneBlocks` | `Spec /\ []ReadyCanGoOn => []OnlyTheUpstreamBlocks` |
| `BoundedRequestsAreAnswered` | `FairSpec /\ []ReadyCanGoOn => BoundedRequestsAnswered` |
| `ShutdownEnds` | `FairSpec /\ []ReadyCanGoOn => DrainEnds` |
| `EveryRequestIsAnswered` | `FairSpec /\ []ReadyCanGoOn => EveryRequestAnswered` |

`NobodyWaitsInVain` is the absence of deadlock in the pool: with fewer calls at the upstream than
the pool allows, somebody in the line can take a connection now. It needs a first call, and
`SomebodyIsFirst` finds one in any finite line: the call with the fewest ahead, by the transitivity
above and the library's facts on well-founded orders; the rest is that the pool's books agree
with the tasks (`ConnectionsAccounted`).

When an action is enabled is beyond the prover. What the other four need of that is one state
predicate, `ReadyCanGoOn`, and it is kept as small as it can be: a request that has just come, whose
call is over or answered, that is first in line with a connection free, or under a timer, is
taken on by one of the handlers; a call with the upstream can be answered; a drained server can be
closed. It says nothing of who gets into such a position. TLC checks it as an invariant of `Spec`, in
`MCServerPool` for several callers and in `MCServerVerbs` for every verb and ending, and it is the only
thing in these proofs that rests on small instances. `UpstreamAloneBlocks` is the other half: of
the requests in progress only those are not ready whom the upstream, or the line before it, keeps.

The last three are liveness, by the rule for weak fairness: for a request in a
given phase, every step keeps it there or takes it further (`BusyBoundedStays`, `StepOfOthers`,
`StaysBehind`), its own step takes it further (`OwnStep`), and its own step can be taken. That alone
takes a draining server from one set of requests to a smaller one (`DrainGoesOn`) and a waiting
call from one set of calls ahead to a smaller one (`LineMovesUp`). That the last of these sets comes
is an induction over finite sets of callers whose hypothesis is a temporal formula, which the
library's induction theorems, having an operator for a parameter, cannot be instantiated with. It is
`CountingDown` here: a set `G` of sets of callers that has `A` whenever it has each `A` without one
of its members has them all, by the library's `WFMin`, which takes a set, on the subsets of a finite
set under strict inclusion. To use it, `G` must be the set of those `A` of which the formula holds
(`DrainsAreSet`, `WaitsAreSet`); `FamilyIsSet` gets it from the function that takes `A` to the formula.

### The log

`RequestLoggingProofs` proves `LoggingIsTransparent` (`LoggedSpec => Spec`, so every safety
property above holds inside the middleware) and, for every set of request ids, `RecordsCarryIds`,
`OutcomesAreLogged` and `EchoesAreTrue`: the invariants of the same run, for all tasks. The
inductive invariant adds to `IInv` what a request inside the middleware has logged so far;
the outcome needs `CallHistory`, because whether the upstream's answer was logged depends on
whether the call was sent.

### The results

`AdapterResultsProofs` proves the seven properties of `MCResults` for every finite set of nodes,
every graph, style, number of paths, list of summaries, body and limit: `ClaimsOfSessions`,
`TruncationOfSessions`, `LimitsOfSessions`, `SurfacesOfSessions`, `EffectsOfSessions`,
`InterventionsAgree`, `DisclosureOfSessions`. The invariant `AnswersTheQuestion` says that the
answer is the one the adapters make for the question asked; with it each theorem is one about the
pure operators, and `GraphResultsProofs` has those lemmas. The cut of a list is the hardest:
`FirstOf` counts for every entry the earlier ones, and that this keeps exactly as many entries as
the limit says (`CutKeepsItsLimit`) follows from the order being total, from the earlier entries of
a later entry being strictly more, and from a least element among the entries left out, which
the library's facts on well-founded orders provide.

### The client

`CapClientProofs` proves `ClientsAreClosed`, `ExitsTellTheTruth`, `CommandsOfRunsAreServed` and
`CredentialsOfRunsAreAsWritten` for any number of runs and any command lines, with headers in any
spellings and any order. `ExitTellsOutcome`
is not inductive: it speaks of what was printed, and that is decided three steps earlier.
`ClientInv` says for every stage of a run what may have been raised or kept by then
(`OnItsWay`), and that a response kept is a success the server gave to the request typed
(`Honest`); `SuccessIsTheUpstreams` is the fact about the contract behind it.

`RunsComeToTheirEnd` is `FairClientSpec /\ []OnlyTheServerIsAwaited => EveryRunEnds`, for any number of
runs: through the stages of a run, each left by the run's own fair step or the server's. As above,
`OnlyTheServerIsAwaited` says when those steps are enabled, and `MCClient` checks it.

### The whole

`CapSystemProofs` composes the two. Nothing in it looks into the server or the client again but for
the places where they meet.

| theorem | statement |
|---|---|
| `ServerIsItself` | `SystemSpec => Spec` |
| `ServerServesRuns` | `SystemSpec => Client!ClientSpec` |
| `CallsOfRunsAreAsTyped` | `SystemSpec => []CallsAreAsTyped` |
| `ExitsAreEarned` | `SystemSpec => []ExitIsEarned` |
| `EveryRunIsOver` | `FairSystemSpec /\ []OnlyTheUpstreamHoldsRuns => Client!EveryRunEnds` |

By the first, every safety theorem about `CapServer` is one about the whole. By the second the
server may stand where `CapClient` has the contract, so every safety theorem about `CapClient` is one too:
`ClientPart` maps each step of the whole to one of the client, by `ContractActions` where the server
moves, and `RepliesAreAnswersGiven` shows that what the server says is among the answers the client
was specified for. The last two use both halves at once. A call in the pool or on the wire belongs
to the run that typed it and carries its credential (`OnlyAdmittedCalls` for the server's half,
`CredentialAsWritten` and `ClientInv` for the run's); an exit status of 0 goes back to one object
from the upstream (`SuccessIsEarned`, `AtMostOneExchange`, `Honest`).

`EveryRunIsOver`, in `CapSystemProgress`, is the end-to-end form of `RunsComeToTheirEnd`: the contract's
promise to answer is replaced by the server's line, pool and tasks and an upstream that answers. A
run only goes forward (`RunsGoForward`, `OwnStepOfRun`); while it waits for its reply, the reply comes
(`BusyIsReplied`, the lemma behind `EveryRequestIsAnswered`) and stays until it is taken.
Restarts and requests left behind by other runs are in it. `OnlyTheUpstreamHoldsRuns`, which adds to
`ReadyCanGoOn` when a run can take its own step, is the hypothesis, and `MCSystem` checks it. The upstream's
fairness is needed: without it a run can wait for ever, since the command line sends no `timeout_ms`
(section 5, `MCDocTimeout`).

The assumptions beyond those of the two modules: each run types command lines, what the runs send is
the workload, and `NoToken` is no sequence of words, so that a header can never look like the
absence of one. TLC evaluates them in `MCSystem`.

### Only model-checked

* `ReadyCanGoOn`, `OnlyTheServerIsAwaited` and `OnlyTheUpstreamHoldsRuns`: `ENABLED` is out of the
  prover's reach. They are the hypotheses of the liveness theorems and the only ones besides fairness.
* The five disagreements of section 5, which are counterexamples.

Proved and not model-checked as a whole are that the server serves the runs (`ServerServesRuns`; the
half of it that `CapSystem` did not add is `KeepsContract`, which `MCServerSafety` checks) and that each
run against it ends (`EveryRunIsOver`).

## 5. Where code and documentation disagree

Each is a run that expects TLC to find a counterexample.

* `MCDocTimeout` / `EveryCallTimesOut`. `docs/configuration.md:61-62` calls
  `CAP_UPSTREAM_TIMEOUT_SECONDS` the "default client timeout for all upstream requests". Without
  `timeout_ms` the client passes an explicit `timeout=None`
  (`clients/abel_gateway_client.py:165`), which switches the default off.
* `MCDocBlanket` / `TimeoutsReported`. `docs/architecture.md:239` promises `computation_timeout`
  and 504. `extensions.abel.markov_blanket` translates an already translated error
  (`cap/adapters/extensions.py:104`) and answers `upstream_error` and 500.
* `MCDocGraph` / `UnsupportedGraphRefused`. `docs/api-reference.md:325` promises `invalid_request`.
  `intervene_time_lag` (`cap/adapters/extensions.py:174`) never looks at the graph reference.
* `MCDocEcho` / `EveryReplyEchoed`. `docs/api-reference.md:316` says of `X-Request-ID` that it is
  "generated if missing and echoed on the HTTP response". An exception that passes through the
  middleware leaves no response to set it on (`middlewares/request_logging.py:50`): the bare 500
  goes out without.
* `MCDocFailures` / `EveryFailureTranslated`. `docs/api-reference.md:335` promises `upstream_error` for
  unexpected failures. Bodies are read after the `try` block (e.g. `cap/adapters/graph.py:229`), and
  an error body that cannot be decoded breaks the translation itself (`cap/errors.py:79`). The run
  asks `graph.neighbors` and `intervene_time_lag`, which converts all the summaries of the body
  in the same place (`cap/adapters/extensions.py:200`).

`ReportedAsDocumented` is the policy without what `MCDocBlanket` and `MCDocFailures` show.

The documents also contradict each other, and there no run can say which is meant: `docs/architecture.md:181`
has `tau` in its list of what is hidden from public verbs, and the card says that exact taus
stay hidden by default (`cap/catalog.py:87`); `docs/api-reference.md:180` has `tau` in the edges of
`graph.paths`, and `_map_path` (`cap/adapters/graph.py:276`) copies it from the body as it came.
`NothingHiddenDisclosed` follows the second and exempts the `tau` of a path, and of nothing else.

## 6. What is not modelled

* Of results: numbers other than effects, names and dates, assumptions, provenance
  (`cap/provenance.py` copies settings). `observe.predict` copies three fields; what it makes of
  a body without them (`cap/adapters/observe.py:43`) is listed as a hazard without a property,
  since nothing in the repository says what it should make of it.
* Error messages and details. Wording and layout of logs, levels, environment parsing.
* The capability card: built from the registry and otherwise constant text; there is one
  extension namespace and nothing in it changes while the server runs.
* Field-level validation (pydantic and the SDK): a request fits its model or does not.
* A gateway key or header that is blank: `_normalize_bearer_token` raises the same `RuntimeError`
  as a missing key, which is modelled.
* `fetch_schema_primitives`, which nothing calls.
* A second lifespan of the same app object in one process: uvicorn runs one.

* Two wholly equal structured neighbours in one upstream answer, which the code keeps twice.
* An upstream that changes between two answers: the properties of pairs are about one state of
  its facts. (`EffectsAgree` compares readings of one body; the two verbs ask for it with horizons
  of their own.)
* Ctrl-C before the run's loop starts or after it has ended (parsing, printing), and kill signals.
* `AsyncAbelCAPClient.markov_blanket`, which the command line does not call, and the SDK's
  transport, routes and response models.

## 7. Plan

Done: sections 2 to 5. What is left is smaller:

* the three fields of `observe.predict`, once it is decided what a missing prediction means;
* lists as bags, for neighbours an upstream repeats;
* the capability card, if a second extension namespace is added (`cap/catalog.py:195` would then
  advertise its verbs in one of two places);
* the logging middleware inside the whole, so that a run's exit status is held against the record of
  its request: `LoggedSpec => Spec` is proved, and `CapSystem` composes with `Spec`.
