--------------------------- MODULE AdapterResults ---------------------------
(***************************************************************************)
(* A caller's session with the adapters over one upstream: question after  *)
(* question about the same facts, so that one answer can be held against   *)
(* the facts and against another answer.                                   *)
(***************************************************************************)
EXTENDS GraphResults, EffectResults, Disclosure

CONSTANTS Upstreams,  \* what the upstream may know and how it may say it
          Limits,     \* values of max_neighbors, top_k and max_paths
          NoQuestion

\* graph, style: of explanations; paths: how many it returns; summaries: of an
\* intervention; fields: of the bodies of all the other answers.
ASSUME UpstreamsAssumption ==
    \A u \in Upstreams :
        /\ u.graph \subseteq Nodes \X Nodes
        /\ u.style \in Styles
        /\ u.paths \in Nat
        /\ u.summaries \in Seq([node : Nodes, effect : Effects \cup {NoEffect},
                                complete : BOOLEAN])

ASSUME LimitsAssumption == Limits \subseteq Int

VARIABLES upstream,  \* the facts, which no question changes
          question,  \* the last question
          answer     \* the answer to it

sessionVars == <<upstream, question, answer>>

Question(verb, scope, node, limit) ==
    [verb |-> verb, scope |-> scope, node |-> node, limit |-> limit]

Answer(entries, total, truncated, drivers) ==
    [entries |-> entries, total |-> total, truncated |-> truncated, drivers |-> drivers,
     reading |-> NotFound, fields |-> {}]

NoAnswer == Answer({}, 0, FALSE, {})

SessionInit ==
    /\ upstream \in Upstreams
    /\ question = NoQuestion
    /\ answer = NoAnswer

Explained(node, scope) == Explanation(upstream.graph, node, scope, upstream.style)

GraphNeighbors(node, scope, limit) ==
    /\ question' = Question("graph.neighbors", scope, node, limit)
    /\ LET r == Neighbors(scope, Explained(node, scope), limit) IN
       answer' = Answer(r.entries, r.total, r.truncated, {})
    /\ UNCHANGED upstream

GraphMarkovBlanket(node, limit) ==
    /\ question' = Question("graph.markov_blanket", "markov_blanket", node, limit)
    /\ LET r == Neighbors("markov_blanket", Explained(node, "markov_blanket"), limit) IN
       answer' = Answer(r.entries, r.total, r.truncated, {})
    /\ UNCHANGED upstream

TraverseGraph(node, scope, limit) ==
    /\ question' = Question("traverse", scope, node, limit)
    /\ answer' = Answer(Traverse(Explained(node, scope), limit), 0, FALSE, {})
    /\ UNCHANGED upstream

\* extensions.abel.markov_blanket knows no limit.
ExtensionMarkovBlanket(node) ==
    /\ question' = Question("extensions.abel.markov_blanket", "markov_blanket", node, 0)
    /\ LET body == Explained(node, "markov_blanket") IN
       answer' = Answer(Candidates("markov_blanket", body), 0, FALSE, Drivers(body))
    /\ UNCHANGED upstream

\* The places of raw_paths[:limit]; a path is known by its place.
PathsShown(limit) ==
    {i \in 1 .. upstream.paths : i <= IF limit >= 0 THEN limit ELSE upstream.paths + limit}

GraphPaths(limit) ==
    /\ question' = Question("graph.paths", "paths", 0, limit)
    /\ answer' = [Answer({Entry(i, {}) : i \in PathsShown(limit)}, 0, FALSE, {})
                    EXCEPT !.fields = Disclosed("graph.paths", upstream.fields)]
    /\ UNCHANGED upstream

Intervene(verb, outcome) ==
    /\ question' = Question(verb, "effect", outcome, 0)
    /\ answer' = [NoAnswer EXCEPT !.reading =
                    IF verb = "intervene.do" THEN InterveneDo(upstream.summaries, outcome)
                                             ELSE InterveneTimeLag(upstream.summaries, outcome)]
    /\ UNCHANGED upstream

InterventionVerbs == {"intervene.do", "extensions.abel.intervene_time_lag"}

\* The verbs whose answers copy fields of a body.
CopyingVerbs == {"extensions.abel.counterfactual_preview",
                 "extensions.abel.validate_connectivity"}

CopyFields(verb) ==
    /\ question' = Question(verb, "fields", 0, 0)
    /\ answer' = [NoAnswer EXCEPT !.fields = Disclosed(verb, upstream.fields)]
    /\ UNCHANGED upstream

SessionNext ==
    \/ \E n \in Nodes, scope \in {"parents", "children"}, k \in Limits \cap Nat :
          GraphNeighbors(n, scope, k) \/ TraverseGraph(n, scope, k)
    \/ \E n \in Nodes, k \in Limits \cap Nat : GraphMarkovBlanket(n, k)
    \/ \E n \in Nodes : ExtensionMarkovBlanket(n)
    \/ \E k \in Limits : GraphPaths(k)
    \/ \E verb \in InterventionVerbs, n \in Nodes : Intervene(verb, n)
    \/ \E verb \in CopyingVerbs : CopyFields(verb)

SessionSpec == SessionInit /\ [][SessionNext]_sessionVars
-----------------------------------------------------------------------------
NeighborVerbs == {"graph.neighbors", "graph.markov_blanket"}
ExplainVerbs  == NeighborVerbs \cup {"traverse", "extensions.abel.markov_blanket"}

Names(entries) == {entry.node : entry \in entries}

Asked(verbs) == question # NoQuestion /\ question.verb \in verbs

Wanted == InScope(upstream.graph, question.node, question.scope)

(* Nothing is claimed of the graph that is not so: every node of an answer  *)
(* is in the scope asked about, in every role it is given, and every driver *)
(* is a parent; in whatever style the upstream explained and wherever the   *)
(* answer was cut.                                                          *)
ClaimsAreTrue ==
    Asked(ExplainVerbs) =>
        /\ \A entry \in answer.entries :
              /\ entry.node \in Wanted
              /\ entry.roles \subseteq
                    TrueRoles(upstream.graph, question.node, question.scope, entry.node)
        /\ answer.drivers \subseteq Parents(upstream.graph, question.node)

(* An answer that does not say truncated has every node there is, and one   *)
(* that does has as many entries as were asked for; the total counts each   *)
(* node once, unless the upstream gives it an item per relationship.        *)
NothingHiddenUntold ==
    Asked(NeighborVerbs) =>
        /\ IF answer.truncated
             THEN /\ question.limit > 0
                  /\ Cardinality(answer.entries) = question.limit
                  /\ question.limit < answer.total
             ELSE /\ Names(answer.entries) = Wanted
                  /\ Cardinality(answer.entries) = answer.total
        /\ answer.total >= Cardinality(Wanted)
        /\ upstream.style # "relationship" => answer.total = Cardinality(Wanted)

(* Whoever asks again with a larger limit sees what was shown before and    *)
(* perhaps more.  (For paths zero means none at all, and negative limits,   *)
(* which count the paths left out, are compared among themselves; for the   *)
(* others zero is the largest limit: it stands for none.)                   *)
LargerLimitShowsMore ==
    [][/\ NoQuestion \notin {question, question'}
       /\ question.verb = question'.verb
       /\ question.scope = question'.scope
       /\ question.node = question'.node
       /\ IF question.verb = "graph.paths"
            THEN /\ 0 <= question.limit <=> 0 <= question'.limit
                 /\ question.limit <= question'.limit
            ELSE /\ question.limit > 0
                 /\ question.limit <= question'.limit \/ question'.limit = 0
       => answer.entries \subseteq answer'.entries]_sessionVars

(* The surfaces over one upstream call agree: traverse.parents and          *)
(* traverse.children with graph.neighbors, where the upstream gives related *)
(* nodes; extensions.abel.markov_blanket with graph.markov_blanket, its     *)
(* drivers being the nodes shown there as parents.                          *)
SurfacesAgree ==
    [][NoQuestion \notin {question, question'} /\ question'.node = question.node =>
        /\ /\ question.verb = "graph.neighbors"
           /\ question'.verb = "traverse"
           /\ question'.scope = question.scope
           /\ question'.limit = question.limit
           /\ ~Structured(upstream.style)
           => Names(answer'.entries) = Names(answer.entries)
        /\ /\ question.verb = "graph.markov_blanket"
           /\ question'.verb = "extensions.abel.markov_blanket"
           /\ ~answer.truncated
           => /\ Names(answer'.entries) = Names(answer.entries)
              /\ answer'.drivers = Names({e \in answer.entries : "parent" \in e.roles})
      ]_sessionVars

(* An effect is the effect on the node that was asked about, as one of the  *)
(* upstream's summaries has it; and if there is such a summary, intervene.do *)
(* does not say path_not_found.                                             *)
EffectIsTheOutcomes ==
    Asked(InterventionVerbs) =>
        LET effects == {upstream.summaries[i].effect :
                           i \in {j \in DOMAIN upstream.summaries :
                                     upstream.summaries[j].node = question.node}} \ {NoEffect}
        IN /\ answer.reading.outcome = "ok" => answer.reading.effect \in effects
           /\ question.verb = "intervene.do" => (answer.reading.outcome = "ok" <=> effects # {})

(* Of one upstream answer the two intervention verbs tell the same: what    *)
(* intervene_time_lag reports intervene.do reports too, with the same       *)
(* effect; and what the one does not find the other does not report.        *)
EffectsAgree ==
    [][/\ Asked({"intervene.do"})
       /\ Asked({"extensions.abel.intervene_time_lag"})'
       /\ question'.node = question.node
       /\ answer'.reading.outcome # "untranslated"
       => answer'.reading = answer.reading]_sessionVars

(* No hidden field leaves the server, at whatever depth the upstream puts   *)
(* it, also where a verb reads the raw body or passes an object on whole;   *)
(* but for the one the documentation names.                                 *)
NothingHiddenDisclosed ==
    \A path \in answer.fields : Hidden(path) => <<question.verb, path>> \in Documented
=============================================================================
