----------------------------- MODULE MCCapSystem ----------------------------
(* An instance of CapSystem for TLC. *)
EXTENDS CapSystem, SequencesExt, TLC

CONSTANTS c1, c2, alice, bob, master

MCWords == {"bearer", alice, bob, master}

MCTokens == BoundedSeq(MCWords, 2)

CommandLine(command, headers) ==
    [command |-> command, headers |-> headers, fits |-> TRUE, goodUrl |-> TRUE,
     inBounds |-> TRUE, outcome |-> TRUE, linear |-> TRUE]

Authorize(spelling, value) ==
    [colon |-> TRUE, name |-> "authorization", spelling |-> spelling, value |-> value]

\* Alice names herself second, between a first Authorization and one in another
\* spelling, or asks for more paths than there may be; the other leaves the
\* credential to the server, or mistypes.
MCCommandLines ==
    c1 :> {CommandLine("observe",
                       <<Authorize("authorization", <<bob>>),
                         Authorize("authorization", <<"bearer", alice>>),
                         Authorize("Authorization", <<bob>>)>>),
           [CommandLine("paths", <<Authorize("Authorization", <<alice>>)>>)
                EXCEPT !.inBounds = FALSE]} @@
    c2 :> {CommandLine("intervene-time-lag", <<>>),
           [CommandLine("neighbors", <<>>) EXCEPT !.fits = FALSE]}

Ask(verb, wellFormed, auth) ==
    [verb |-> verb, wellFormed |-> wellFormed, graph |-> "absent",
     timeoutMs |-> 0, auth |-> auth, linear |-> TRUE]

MCWorkload ==
    {Ask("observe.predict", TRUE, <<alice>>), Ask("graph.paths", FALSE, <<alice>>),
     Ask("extensions.abel.intervene_time_lag", TRUE, NoToken),
     Ask("graph.neighbors", TRUE, NoToken)}

MCKeys == {<<master>>}
=============================================================================
