----------------------------- MODULE MCCapServer ----------------------------
(* Instances of CapServer for TLC. *)
EXTENDS CapServer, TLC

CONSTANTS c1, c2, c3, alice, bob, key

MCTokens == {alice, bob, key}

Ask(verb, graph, timeoutMs, auth) ==
    [verb |-> verb, wellFormed |-> TRUE, graph |-> graph,
     timeoutMs |-> timeoutMs, auth |-> auth, linear |-> TRUE]

\* One request for each course through the server.
MixedWorkload ==
    {Ask("meta.capabilities", "absent", 0, NoToken),
     Ask("graph.neighbors", "unsupported", 0, alice),
     Ask("observe.predict", "absent", 0, alice),
     Ask("graph.paths", "supported", 1200, bob),
     Ask("extensions.abel.intervene_time_lag", "absent", 1200, NoToken)}

\* Calls that queue for connections: with and without a deadline.
PoolWorkload ==
    {Ask("observe.predict", "absent", 0, alice),
     Ask("graph.paths", "absent", 1200, bob)}

\* Every request there is, up to the length of the deadline.
EveryRequest ==
    {q \in [verb : RegisteredVerbs \cup PlainRoutes \cup {"graph.unknown"},
            wellFormed : BOOLEAN, graph : {"absent", "supported", "unsupported"},
            timeoutMs : {0, 1200}, auth : {alice, NoToken}, linear : BOOLEAN] :
        /\ q.verb # "extensions.abel.intervene_time_lag" => q.linear
        /\ q.verb \in PlainRoutes =>
              q.wellFormed /\ q.graph = "absent" /\ q.timeoutMs = 0}

\* A hung call without a deadline next to requests that must not suffer.
HungWorkload ==
    {Ask("GET /health", "absent", 0, NoToken),
     Ask("observe.predict", "absent", 0, alice),
     Ask("graph.paths", "absent", 1200, bob)}

\* For the runs that compare the server with its documentation.
UntimedWorkload == {Ask("observe.predict", "absent", 0, alice)}
BlanketWorkload == {Ask("extensions.abel.markov_blanket", "absent", 1200, alice)}
TimeLagWorkload == {Ask("extensions.abel.intervene_time_lag", "unsupported", 0, alice)}
ItemsWorkload ==
    {Ask(verb, "absent", 0, alice) :
        verb \in {"graph.neighbors", "extensions.abel.intervene_time_lag"}}

CallerSymmetry == Permutations(Callers)
=============================================================================
