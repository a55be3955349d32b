-------------------------- MODULE MCAdapterResults --------------------------
(* An instance of AdapterResults for TLC. *)
EXTENDS AdapterResults, SequencesExt

MCNodes == 1 .. 3
MCLimits == -2 .. 2

Edges == {e \in MCNodes \X MCNodes : e[1] # e[2]}

Facts(graph, style, paths, summaries, fields) ==
    [graph |-> graph, style |-> style, paths |-> paths, summaries |-> summaries,
     fields |-> fields]

Summaries == {Summary(n, e, c) : n \in 1 .. 2, e \in Effects \cup {NoEffect}, c \in BOOLEAN}

\* Hidden and other fields, at every depth that some adapter reads.
MCFields ==
    {<<"intervene", "value">>, <<"intervene", "tau">>, <<"intervene", "ci", "ci_lower">>,
     <<"paths", "edges", "tau">>, <<"paths", "edges", "weight">>,
     <<"pair_results", "p_value">>}

\* One kind of fact at a time: every graph in every style, every number of
\* paths, every list of up to two summaries, every set of fields.
MCUpstreams ==
    {Facts(g, s, 0, <<>>, {}) : g \in SUBSET Edges, s \in Styles} \cup
    {Facts({}, "lists", p, <<>>, {}) : p \in 0 .. 3} \cup
    {Facts({}, "lists", 0, s, {}) : s \in BoundedSeq(Summaries, 2)} \cup
    {Facts({}, "lists", 1, <<>>, f) : f \in SUBSET MCFields}
=============================================================================
