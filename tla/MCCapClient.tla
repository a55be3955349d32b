---------------------------- MODULE MCCapClient -----------------------------
(* An instance of CapClient for TLC. *)
EXTENDS CapClient, SequencesExt, TLC

CONSTANTS c1, c2, alice

MCWords == {"bearer", alice}

MCTokens == BoundedSeq(MCWords, 3)

Line(command, headers) ==
    [command |-> command, headers |-> headers, fits |-> TRUE, goodUrl |-> TRUE,
     inBounds |-> TRUE, outcome |-> TRUE, linear |-> TRUE]

Header(name, spelling, value) ==
    [colon |-> TRUE, name |-> name, spelling |-> spelling, value |-> value]

Authorize(value) == Header("authorization", "authorization", value)
AuthorizeCapital(value) == Header("authorization", "Authorization", value)

\* Values of up to three words, several arguments, in one spelling and in two,
\* and some without a header's form.
HeaderLists ==
    {<<Authorize(v)>> : v \in MCTokens} \cup
    {<<Header("trace", "trace", <<alice>>)>>,
     <<Header("", "", <<alice>>)>>,
     <<[Authorize(<<alice>>) EXCEPT !.colon = FALSE]>>,
     <<Authorize(<<alice>>), Header("trace", "trace", <<alice>>),
       Authorize(<<"bearer", alice, alice>>)>>,
     <<AuthorizeCapital(<<alice>>), Authorize(<<alice, alice>>),
       AuthorizeCapital(<<"bearer">>)>>,
     <<Authorize(<<alice>>), Authorize(<<alice, alice>>), AuthorizeCapital(<<"bearer", alice>>)>>}

\* Every command, right and wrong in each way there is, and every header.
EveryLine ==
    {Line("observe", h) : h \in HeaderLists} \cup
    {Line("capabilities", <<>>), Line("neighbors", <<>>), Line("paths", <<>>),
     Line("markov-blanket", <<>>), Line("intervene-time-lag", <<>>),
     [Line("paths", <<>>) EXCEPT !.fits = FALSE],
     [Line("paths", <<>>) EXCEPT !.goodUrl = FALSE],
     [Line("neighbors", <<>>) EXCEPT !.inBounds = FALSE],
     [Line("intervene-time-lag", <<>>) EXCEPT !.inBounds = FALSE],
     [Line("intervene-time-lag", <<>>) EXCEPT !.outcome = FALSE],
     [Line("intervene-time-lag", <<>>) EXCEPT !.linear = FALSE]}

\* The second run shares the server with the first.
MCCommandLines ==
    c1 :> EveryLine @@
    c2 :> {Line("observe", <<Authorize(<<alice>>)>>)}

MCAnswers ==
    {Success, Untranslated, Reply(422, "invalid_request"), Reply(400, "invalid_intervention"),
     Reply(500, "upstream_error")}
=============================================================================
