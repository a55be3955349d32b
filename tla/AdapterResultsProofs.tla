------------------------ MODULE AdapterResultsProofs ------------------------
(***************************************************************************)
(* Proofs about a caller's session: the answers are true of the upstream's *)
(* facts, cut honestly, consistent with each other and free of hidden      *)
(* fields, for every graph, style, limit, list of summaries and body.      *)
(***************************************************************************)
EXTENDS AdapterResults, GraphResultsProofs

(* The inductive invariant: the last answer is what its verb makes of the   *)
(* last question and the facts.                                             *)
AnswersTheQuestion ==
    /\ upstream \in Upstreams
    /\ Asked(NeighborVerbs) =>
          /\ question.node \in Nodes /\ question.scope \in Scopes /\ question.limit \in Nat
          /\ question.verb = "graph.markov_blanket" => question.scope = "markov_blanket"
          /\ LET r == Neighbors(question.scope, Explained(question.node, question.scope),
                                question.limit)
             IN /\ answer.entries = r.entries
                /\ answer.total = r.total
                /\ answer.truncated = r.truncated
          /\ answer.drivers = {}
    /\ Asked({"traverse"}) =>
          /\ question.node \in Nodes /\ question.scope \in {"parents", "children"}
          /\ question.limit \in Nat
          /\ answer.entries = Traverse(Explained(question.node, question.scope), question.limit)
          /\ answer.drivers = {}
    /\ Asked({"extensions.abel.markov_blanket"}) =>
          /\ question.node \in Nodes /\ question.scope = "markov_blanket"
          /\ LET body == Explained(question.node, "markov_blanket") IN
             /\ answer.entries = Candidates("markov_blanket", body)
             /\ answer.drivers = Drivers(body)
    /\ Asked({"graph.paths"}) =>
          /\ question.limit \in Int
          /\ answer.entries = {Entry(i, {}) : i \in PathsShown(question.limit)}
    /\ Asked({"intervene.do"}) =>
          answer.reading = InterveneDo(upstream.summaries, question.node)
    /\ Asked({"extensions.abel.intervene_time_lag"}) =>
          answer.reading = InterveneTimeLag(upstream.summaries, question.node)
    /\ question # NoQuestion =>
          question.verb \in ExplainVerbs \cup {"graph.paths"} \cup InterventionVerbs
                                  \cup CopyingVerbs
    /\ Asked(InterventionVerbs \cup CopyingVerbs) => answer.entries = {}
    /\ answer.fields # {} => answer.fields = Disclosed(question.verb, upstream.fields)

(* The invariant holds at first.                                            *)
LEMMA SessionStarts == SessionInit => AnswersTheQuestion
  BY DEF SessionInit, AnswersTheQuestion, Asked, NoAnswer, Answer

(* Every answer is to the question asked with it.                           *)
LEMMA SessionContinues == AnswersTheQuestion /\ [SessionNext]_sessionVars => AnswersTheQuestion'
<1> SUFFICES ASSUME AnswersTheQuestion, [SessionNext]_sessionVars PROVE AnswersTheQuestion'
  OBVIOUS
<1>1. upstream \in Upstreams
  BY DEF AnswersTheQuestion
<1>2. ASSUME NEW n \in Nodes, NEW scope \in {"parents", "children"}, NEW k \in Limits \cap Nat,
             GraphNeighbors(n, scope, k)
      PROVE  AnswersTheQuestion'
  BY <1>1, <1>2 DEF GraphNeighbors, AnswersTheQuestion, Asked, NeighborVerbs, ExplainVerbs, InterventionVerbs, CopyingVerbs, Question, Answer,
                    Scopes, Explained
<1>3. ASSUME NEW n \in Nodes, NEW scope \in {"parents", "children"}, NEW k \in Limits \cap Nat,
             TraverseGraph(n, scope, k)
      PROVE  AnswersTheQuestion'
  BY <1>1, <1>3 DEF TraverseGraph, AnswersTheQuestion, Asked, NeighborVerbs, ExplainVerbs, InterventionVerbs, CopyingVerbs, Question, Answer,
                    Explained
<1>4. ASSUME NEW n \in Nodes, NEW k \in Limits \cap Nat, GraphMarkovBlanket(n, k)
      PROVE  AnswersTheQuestion'
  BY <1>1, <1>4 DEF GraphMarkovBlanket, AnswersTheQuestion, Asked, NeighborVerbs, ExplainVerbs, InterventionVerbs, CopyingVerbs, Question,
                    Answer, Scopes, Explained
<1>5. ASSUME NEW n \in Nodes, ExtensionMarkovBlanket(n) PROVE AnswersTheQuestion'
  BY <1>1, <1>5 DEF ExtensionMarkovBlanket, AnswersTheQuestion, Asked, NeighborVerbs, ExplainVerbs, InterventionVerbs, CopyingVerbs, Question,
                    Answer, Explained
<1>6. ASSUME NEW k \in Limits, GraphPaths(k) PROVE AnswersTheQuestion'
  <2>1. /\ question'.verb = "graph.paths" /\ question'.limit = k /\ k \in Int
        /\ upstream' = upstream
    BY <1>6, LimitsAssumption DEF GraphPaths, Question
  <2>2. /\ answer'.entries = {Entry(i, {}) : i \in PathsShown(k)}
        /\ answer'.fields = Disclosed("graph.paths", upstream.fields)
    BY <1>6 DEF GraphPaths, Answer
  <2>3. PathsShown(k)' = PathsShown(k)
    BY <2>1 DEF PathsShown
  <2>4. QED
    BY <1>1, <2>1, <2>2, <2>3 DEF AnswersTheQuestion, Asked, NeighborVerbs, ExplainVerbs, InterventionVerbs, CopyingVerbs
<1>7. ASSUME NEW verb \in InterventionVerbs, NEW n \in Nodes, Intervene(verb, n)
      PROVE  AnswersTheQuestion'
  BY <1>1, <1>7 DEF Intervene, AnswersTheQuestion, Asked, NeighborVerbs, ExplainVerbs, InterventionVerbs, CopyingVerbs,
                    Question, Answer, NoAnswer
<1>8. ASSUME NEW verb \in CopyingVerbs, CopyFields(verb) PROVE AnswersTheQuestion'
  BY <1>1, <1>8 DEF CopyFields, AnswersTheQuestion, Asked, NeighborVerbs, ExplainVerbs, InterventionVerbs, CopyingVerbs,
                    Question, Answer, NoAnswer
<1>9. CASE UNCHANGED sessionVars
  BY <1>9 DEF sessionVars, AnswersTheQuestion, Asked, Explained, PathsShown
<1>10. QED
  BY <1>2, <1>3, <1>4, <1>5, <1>6, <1>7, <1>8, <1>9 DEF SessionNext
(* The invariant of every session.                                          *)
LEMMA SessionInvariant == SessionSpec => []AnswersTheQuestion
  BY SessionStarts, SessionContinues, PTL DEF SessionSpec

-----------------------------------------------------------------------------
(* The graph. *)

(* What the upstream explains of any scope, read by the adapters.           *)
LEMMA SessionReadsRightly ==
    ASSUME AnswersTheQuestion, NEW n, NEW scope \in Scopes,
           NEW C, C = Candidates(scope, Explained(n, scope))
    PROVE  /\ ReadRightly(upstream.graph, n, scope, C)
           /\ C \in SUBSET Entries
           /\ IsFiniteSet(C)
           /\ Cardinality(C) >= Cardinality(InScope(upstream.graph, n, scope))
           /\ upstream.style # "relationship" =>
                 Cardinality(C) = Cardinality(InScope(upstream.graph, n, scope))
<1>1. upstream.style \in Styles
  BY UpstreamsAssumption DEF AnswersTheQuestion
<1>2. /\ ReadRightly(upstream.graph, n, scope, C)
      /\ upstream.style # "relationship" => OncePerNode(C)
  BY <1>1, ExplanationsReadRightly DEF Explained
<1>3. C \in SUBSET Entries
  BY <1>2 DEF ReadRightly
<1>4. /\ IsFiniteSet(C)
      /\ Cardinality(C) >= Cardinality(InScope(upstream.graph, n, scope))
      /\ OncePerNode(C) => Cardinality(C) = Cardinality(InScope(upstream.graph, n, scope))
  BY <1>2, CandidatesCounted
<1>5. QED
  BY <1>2, <1>3, <1>4

(* The nodes traverse shows are in scope: it reads the related nodes only.  *)
LEMMA RelatedAreInScope ==
    ASSUME NEW graph, NEW n, NEW scope \in {"parents", "children"}, NEW style \in Styles
    PROVE  Explanation(graph, n, scope, style).related =
              IF Structured(style) THEN {} ELSE InScope(graph, n, scope)
  BY DEF Explanation, Structured, Styles

(* What is cut from related nodes is made of entries.                       *)
LEMMA TraverseShows ==
    ASSUME NEW related \in SUBSET Nodes, NEW k \in Nat, NEW S, S = {Entry(m, {}) : m \in related}
    PROVE  /\ S \in SUBSET Entries /\ IsFiniteSet(S)
           /\ \A e \in Shown(S, k) : e.node \in related /\ e.roles = {}
<1>1. S \in SUBSET Entries
  BY DEF Entry, Entries
<1>2. IsFiniteSet(S)
  BY <1>1, EntriesFinite, FS_Subset
<1>3. Shown(S, k) \subseteq S
  BY <1>1, <1>2, ShownGrows
<1>4. \A e \in S : e.node \in related /\ e.roles = {}
  BY DEF Entry
<1>5. QED
  BY <1>1, <1>2, <1>3, <1>4

(* Every claim an answer makes about the graph is true of it.               *)
LEMMA TrueNow == AnswersTheQuestion => ClaimsAreTrue
<1> SUFFICES ASSUME AnswersTheQuestion, Asked(ExplainVerbs)
             PROVE  /\ \A entry \in answer.entries :
                          /\ entry.node \in Wanted
                          /\ entry.roles \subseteq
                                TrueRoles(upstream.graph, question.node, question.scope,
                                          entry.node)
                    /\ answer.drivers \subseteq Parents(upstream.graph, question.node)
  BY DEF ClaimsAreTrue
<1>1. CASE Asked(NeighborVerbs)
  <2> DEFINE C == Candidates(question.scope, Explained(question.node, question.scope))
  <2>1. /\ question.scope \in Scopes /\ question.limit \in Nat
        /\ answer.entries = Shown(C, question.limit) /\ answer.drivers = {}
    BY <1>1 DEF AnswersTheQuestion, Neighbors
  <2>2. /\ ReadRightly(upstream.graph, question.node, question.scope, C)
        /\ C \in SUBSET Entries /\ IsFiniteSet(C)
    BY <2>1, SessionReadsRightly
  <2>3. answer.entries \subseteq C
    BY <2>1, <2>2, ShownGrows
  <2>4. QED
    BY <2>1, <2>2, <2>3 DEF ReadRightly, Wanted
<1>2. CASE Asked({"traverse"})
  <2> DEFINE related == Explained(question.node, question.scope).related
  <2>1. /\ question.scope \in {"parents", "children"} /\ question.limit \in Nat
        /\ answer.entries = Shown({Entry(m, {}) : m \in related}, question.limit)
        /\ answer.drivers = {}
    BY <1>2 DEF AnswersTheQuestion, Traverse
  <2>2. upstream.style \in Styles
    BY UpstreamsAssumption DEF AnswersTheQuestion
  <2>3. related \subseteq Wanted
    BY <2>1, <2>2, RelatedAreInScope DEF Explained, Wanted
  <2>4. Wanted \subseteq Nodes
    BY <2>1, ScopeFacts DEF Wanted, Scopes
  <2>5. \A e \in answer.entries : e.node \in related /\ e.roles = {}
    BY <2>1, <2>3, <2>4, TraverseShows
  <2>6. QED
    BY <2>1, <2>3, <2>5
<1>3. CASE Asked({"extensions.abel.markov_blanket"})
  <2> DEFINE C == Candidates("markov_blanket", Explained(question.node, "markov_blanket"))
  <2>1. /\ question.scope = "markov_blanket" /\ answer.entries = C
        /\ answer.drivers = Drivers(Explained(question.node, "markov_blanket"))
    BY <1>3 DEF AnswersTheQuestion
  <2>2. ReadRightly(upstream.graph, question.node, "markov_blanket", C)
    BY SessionReadsRightly DEF Scopes
  <2>3. ASSUME NEW d \in answer.drivers PROVE d \in Parents(upstream.graph, question.node)
    <3>1. PICK e \in C : "parent" \in e.roles /\ d = e.node
      BY <2>1, <2>3 DEF Drivers
    <3>2. "parent" \in TrueRoles(upstream.graph, question.node, "markov_blanket", d)
      BY <2>2, <3>1 DEF ReadRightly
    <3>3. QED
      BY <3>2 DEF TrueRoles, InRole
  <2>4. QED
    BY <2>1, <2>2, <2>3 DEF ReadRightly, Wanted
<1>4. QED
  BY <1>1, <1>2, <1>3 DEF Asked, ExplainVerbs

(* Truncation is told and the total is right, at every limit.               *)
LEMMA ToldNow == AnswersTheQuestion => NothingHiddenUntold
<1> SUFFICES ASSUME AnswersTheQuestion, Asked(NeighborVerbs)
             PROVE  /\ IF answer.truncated
                         THEN /\ question.limit > 0
                              /\ Cardinality(answer.entries) = question.limit
                              /\ question.limit < answer.total
                         ELSE /\ Names(answer.entries) = Wanted
                              /\ Cardinality(answer.entries) = answer.total
                    /\ answer.total >= Cardinality(Wanted)
                    /\ upstream.style # "relationship" => answer.total = Cardinality(Wanted)
  BY DEF NothingHiddenUntold
<1> DEFINE C == Candidates(question.scope, Explained(question.node, question.scope))
<1>1. /\ question.scope \in Scopes /\ question.limit \in Nat
      /\ answer.entries = Shown(C, question.limit)
      /\ answer.total = Cardinality(C)
      /\ answer.truncated = (Cardinality(C) > Cardinality(Shown(C, question.limit)))
  BY DEF AnswersTheQuestion, Neighbors
<1>2. /\ ReadRightly(upstream.graph, question.node, question.scope, C)
      /\ C \in SUBSET Entries /\ IsFiniteSet(C)
      /\ Cardinality(C) >= Cardinality(Wanted)
      /\ upstream.style # "relationship" => Cardinality(C) = Cardinality(Wanted)
  BY <1>1, SessionReadsRightly DEF Wanted
<1> HIDE DEF C
<1>3. Names(C) = Wanted
  BY <1>2 DEF Names, ReadRightly, Wanted
<1>4. Cardinality(C) \in Nat
  BY <1>2, FS_CardinalityType
<1>5. /\ Cardinality(C) <= question.limit => FirstOf(C, question.limit) = C
      /\ question.limit <= Cardinality(C) =>
            Cardinality(FirstOf(C, question.limit)) = question.limit
  BY <1>1, <1>2, CutKeepsItsLimit
<1>6. answer.truncated <=> Cardinality(C) > Cardinality(answer.entries)
  BY <1>1, Zenon
<1>7. CASE question.limit > 0 /\ question.limit < Cardinality(C)
  <2>1. Cardinality(answer.entries) = question.limit
    BY <1>1, <1>4, <1>5, <1>7 DEF Shown
  <2>2. answer.truncated
    BY ONLY <1>1, <1>4, <1>6, <1>7, <2>1
  <2>3. QED
    BY <1>1, <1>2, <1>7, <2>1, <2>2
<1>8. CASE ~(question.limit > 0 /\ question.limit < Cardinality(C))
  <2>1. answer.entries = C
    BY <1>1, <1>4, <1>5, <1>8 DEF Shown
  <2>2. ~answer.truncated
    BY <1>4, <1>6, <2>1
  <2>3. QED
    BY <1>1, <1>2, <1>3, <2>1, <2>2
<1>9. QED
  BY <1>7, <1>8

(* No answer of a session claims of the graph what is not so.               *)
THEOREM ClaimsOfSessions == SessionSpec => []ClaimsAreTrue
  BY SessionInvariant, TrueNow, PTL

(* No answer of a session leaves a neighbour out without saying so.         *)
THEOREM TruncationOfSessions == SessionSpec => []NothingHiddenUntold
  BY SessionInvariant, ToldNow, PTL
(* A path shown with a limit is shown with every larger one.                *)
LEMMA PathsGrow ==
    ASSUME AnswersTheQuestion, NEW k \in Int, NEW l \in Int, 0 <= k <=> 0 <= l, k <= l
    PROVE  PathsShown(k) \subseteq PathsShown(l)
<1>1. upstream.paths \in Nat
  BY UpstreamsAssumption DEF AnswersTheQuestion
<1>2. QED
  BY <1>1 DEF PathsShown

(* Asking again with a larger limit.                                        *)
LEMMA AskedAgain ==
    ASSUME AnswersTheQuestion, AnswersTheQuestion', upstream' = upstream,
           NoQuestion \notin {question, question'},
           question.verb = question'.verb, question.scope = question'.scope,
           question.node = question'.node,
           IF question.verb = "graph.paths"
             THEN /\ 0 <= question.limit <=> 0 <= question'.limit
                  /\ question.limit <= question'.limit
             ELSE /\ question.limit > 0
                  /\ question.limit <= question'.limit \/ question'.limit = 0,
           Asked(ExplainVerbs \cup {"graph.paths"})
    PROVE  answer.entries \subseteq answer'.entries
<1>1. CASE Asked(NeighborVerbs)
  <2> DEFINE C == Candidates(question.scope, Explained(question.node, question.scope))
  <2>1. /\ question.scope \in Scopes /\ question.limit \in Nat
        /\ answer.entries = Shown(C, question.limit)
    BY <1>1 DEF AnswersTheQuestion, Neighbors
  <2>2. question'.limit \in Nat /\ answer'.entries = Shown(C, question'.limit)
    BY <1>1 DEF AnswersTheQuestion, Neighbors, Asked, Explained
  <2>3. C \in SUBSET Entries /\ IsFiniteSet(C)
    BY <2>1, SessionReadsRightly
  <2>4. question.limit > 0 /\ (question.limit <= question'.limit \/ question'.limit = 0)
    BY <1>1 DEF Asked, NeighborVerbs
  <2>5. QED
    <3> HIDE DEF C
    <3> QED
      BY ONLY <2>1, <2>2, <2>3, <2>4, ShownGrows
<1>2. CASE Asked({"traverse"})
  <2> DEFINE related == Explained(question.node, question.scope).related
             S == {Entry(m, {}) : m \in related}
  <2>1. /\ question.scope \in {"parents", "children"} /\ question.limit \in Nat
        /\ answer.entries = Shown(S, question.limit)
    BY <1>2 DEF AnswersTheQuestion, Traverse
  <2>2. question'.limit \in Nat /\ answer'.entries = Shown(S, question'.limit)
    BY <1>2 DEF AnswersTheQuestion, Traverse, Asked, Explained
  <2>3. related \subseteq Nodes
    <3>1. upstream.style \in Styles
      BY UpstreamsAssumption DEF AnswersTheQuestion
    <3>2. InScope(upstream.graph, question.node, question.scope) \subseteq Nodes
      BY <2>1, ScopeFacts DEF Scopes
    <3>3. QED
      BY <2>1, <3>1, <3>2, RelatedAreInScope DEF Explained
  <2>4. S \in SUBSET Entries /\ IsFiniteSet(S)
    <3> HIDE DEF related
    <3> QED
      BY ONLY <2>1, <2>3, TraverseShows
  <2>5. question.limit > 0 /\ (question.limit <= question'.limit \/ question'.limit = 0)
    BY <1>2 DEF Asked
  <2>6. QED
    <3> HIDE DEF S
    <3> QED
      BY ONLY <2>1, <2>2, <2>4, <2>5, ShownGrows
<1>3. CASE Asked({"extensions.abel.markov_blanket"})
  BY <1>3 DEF AnswersTheQuestion, Asked, Explained
<1>4. CASE Asked({"graph.paths"})
  <2>1. /\ question.limit \in Int /\ question'.limit \in Int
        /\ answer.entries = {Entry(i, {}) : i \in PathsShown(question.limit)}
    BY <1>4 DEF AnswersTheQuestion, Asked
  <2>2. answer'.entries = {Entry(i, {}) : i \in PathsShown(question'.limit)}
    BY <1>4 DEF AnswersTheQuestion, Asked, PathsShown
  <2>3. (0 <= question.limit <=> 0 <= question'.limit) /\ question.limit <= question'.limit
    BY <1>4 DEF Asked
  <2>4. PathsShown(question.limit) \subseteq PathsShown(question'.limit)
    BY <2>1, <2>3, PathsGrow
  <2>5. QED
    BY <2>1, <2>2, <2>4
<1>5. QED
  BY <1>1, <1>2, <1>3, <1>4 DEF Asked, ExplainVerbs
(* No question changes the facts.                                           *)
LEMMA FactsStay == [SessionNext]_sessionVars => upstream' = upstream
  BY DEF SessionNext, sessionVars, GraphNeighbors, TraverseGraph, GraphMarkovBlanket,
         ExtensionMarkovBlanket, GraphPaths, Intervene, CopyFields

(* The other verbs' answers name no nodes.                                  *)
LEMMA AskedForMore ==
    ASSUME AnswersTheQuestion, AnswersTheQuestion', [SessionNext]_sessionVars,
           NoQuestion \notin {question, question'},
           question.verb = question'.verb, question.scope = question'.scope,
           question.node = question'.node,
           IF question.verb = "graph.paths"
             THEN /\ 0 <= question.limit <=> 0 <= question'.limit
                  /\ question.limit <= question'.limit
             ELSE /\ question.limit > 0
                  /\ question.limit <= question'.limit \/ question'.limit = 0
    PROVE  answer.entries \subseteq answer'.entries
<1>1. upstream' = upstream
  BY FactsStay
<1>2. CASE Asked(ExplainVerbs \cup {"graph.paths"})
  BY <1>1, <1>2, AskedAgain
<1>3. CASE ~Asked(ExplainVerbs \cup {"graph.paths"})
  BY <1>3 DEF AnswersTheQuestion, Asked
<1>4. QED
  BY <1>2, <1>3

(* In every session a larger limit shows what a smaller one showed.         *)
THEOREM LimitsOfSessions == SessionSpec => LargerLimitShowsMore
<1>1. AnswersTheQuestion /\ AnswersTheQuestion' /\ [SessionNext]_sessionVars
        => [/\ NoQuestion \notin {question, question'}
            /\ question.verb = question'.verb
            /\ question.scope = question'.scope
            /\ question.node = question'.node
            /\ IF question.verb = "graph.paths"
                 THEN /\ 0 <= question.limit <=> 0 <= question'.limit
                      /\ question.limit <= question'.limit
                 ELSE /\ question.limit > 0
                      /\ question.limit <= question'.limit \/ question'.limit = 0
            => answer.entries \subseteq answer'.entries]_sessionVars
  BY AskedForMore
<1>2. QED
  BY <1>1, SessionInvariant, PTL DEF SessionSpec, LargerLimitShowsMore

(* Entries in the same roles are cut by their nodes alone.                  *)
LEMMA CutByNode ==
    ASSUME NEW N \in SUBSET Nodes, NEW R \in SUBSET Roles, NEW k \in Nat
    PROVE  Names(Shown({Entry(m, R) : m \in N}, k)) =
              IF k > 0 THEN {m \in N : Cardinality({b \in N : b < m}) < k} ELSE N
<1> DEFINE S == {Entry(m, R) : m \in N}
<1>1. \A m \in N : m \in Nat
  BY NodesAssumption
<1>2. \A e \in S : e.node \in N /\ e = Entry(e.node, R)
  BY DEF Entry
<1>3. \A m \in N : Entry(m, R) \in S /\ Entry(m, R).node = m /\ Entry(m, R).roles = R
  BY DEF Entry
<1>4. ASSUME NEW m \in N
      PROVE  Cardinality(Earlier(S, Entry(m, R))) = Cardinality({b \in N : b < m})
  <2> DEFINE B == {b \in N : b < m}
             E == Earlier(S, Entry(m, R))
             f == [b \in B |-> Entry(b, R)]
  <2>1. Place(R) \in Nat
    BY PlaceOfRoles
  <2>2. \A b \in N : Before(Entry(b, R), Entry(m, R)) <=> b < m
    BY <1>1, <2>1 DEF Before, Entry
  <2>3. \A b \in B : Entry(b, R) \in E
    BY <1>3, <2>2 DEF Earlier
  <2>4. \A e \in E : e.node \in B /\ e = Entry(e.node, R)
    BY <1>2, <2>2 DEF Earlier
  <2>5. f \in Surjection(B, E)
    <3> HIDE DEF B, E
    <3>1. f \in [B -> E]
      BY <2>3
    <3>2. \A e \in E : f[e.node] = e /\ e.node \in B
      BY <2>4
    <3>3. QED
      BY <3>1, <3>2 DEF Surjection
  <2>6. f \in Injection(B, E)
    <3> HIDE DEF B, E
    <3> QED
      BY <2>5 DEF Injection, IsInjective, Surjection, Entry
  <2>7. IsFiniteSet(B)
    <3>1. IsFiniteSet(Nodes) /\ B \in SUBSET Nodes
      BY NodesAssumption
    <3>2. QED
      BY ONLY <3>1, FS_Subset
  <2>8. Cardinality(E) = Cardinality(B)
    <3> HIDE DEF B, E, f
    <3> QED
      BY ONLY <2>5, <2>6, <2>7, FS_Surjection
  <2>9. QED
    BY <2>8
<1>5. CASE k > 0
  <2>1. Shown(S, k) = {e \in S : Cardinality(Earlier(S, e)) < k}
    BY <1>5 DEF Shown, FirstOf, Earlier
  <2> HIDE DEF S
  <2>2. \A e \in Shown(S, k) : e.node \in N /\ Cardinality({b \in N : b < e.node}) < k
    BY <1>2, <1>4, <2>1
  <2>3. \A m \in N : Cardinality({b \in N : b < m}) < k =>
                        Entry(m, R) \in Shown(S, k) /\ Entry(m, R).node = m
    BY <1>3, <1>4, <2>1
  <2>4. QED
    BY ONLY <1>5, <2>2, <2>3 DEF Names, S
<1>6. CASE ~(k > 0)
  <2>1. Shown(S, k) = S
    BY <1>6 DEF Shown
  <2> HIDE DEF S
  <2>2. Names(S) = N
    BY <1>2, <1>3 DEF Names
  <2>3. QED
    BY ONLY <1>6, <2>1, <2>2 DEF S
<1>7. QED
  BY <1>5, <1>6

(* An answer that is not truncated has every candidate.                     *)
LEMMA UncutIsAll ==
    ASSUME AnswersTheQuestion, Asked(NeighborVerbs), ~answer.truncated
    PROVE  answer.entries = Candidates(question.scope,
                                       Explained(question.node, question.scope))
<1> DEFINE C == Candidates(question.scope, Explained(question.node, question.scope))
<1>1. /\ question.scope \in Scopes /\ question.limit \in Nat
      /\ answer.entries = Shown(C, question.limit)
      /\ answer.truncated = (Cardinality(C) > Cardinality(Shown(C, question.limit)))
  BY DEF AnswersTheQuestion, Neighbors
<1>2. C \in SUBSET Entries /\ IsFiniteSet(C)
  BY <1>1, SessionReadsRightly
<1> HIDE DEF C
<1>3. ~(Cardinality(C) > Cardinality(answer.entries))
  BY <1>1, Zenon
<1>4. Cardinality(C) \in Nat
  BY <1>2, FS_CardinalityType
<1>5. /\ Cardinality(C) <= question.limit => FirstOf(C, question.limit) = C
      /\ question.limit <= Cardinality(C) =>
            Cardinality(FirstOf(C, question.limit)) = question.limit
  BY <1>1, <1>2, CutKeepsItsLimit
<1>6. answer.entries = C
  BY <1>1, <1>3, <1>4, <1>5 DEF Shown
<1>7. QED
  BY <1>6 DEF C

(* The surfaces agree on an answer and the next.                            *)
LEMMA AgreeNow ==
    ASSUME AnswersTheQuestion, AnswersTheQuestion', upstream' = upstream,
           NoQuestion \notin {question, question'}, question'.node = question.node
    PROVE  /\ /\ question.verb = "graph.neighbors"
              /\ question'.verb = "traverse"
              /\ question'.scope = question.scope
              /\ question'.limit = question.limit
              /\ ~Structured(upstream.style)
              => Names(answer'.entries) = Names(answer.entries)
           /\ /\ question.verb = "graph.markov_blanket"
              /\ question'.verb = "extensions.abel.markov_blanket"
              /\ ~answer.truncated
              => /\ Names(answer'.entries) = Names(answer.entries)
                 /\ answer'.drivers = Names({e \in answer.entries : "parent" \in e.roles})
<1>1. ASSUME question.verb = "graph.neighbors", question'.verb = "traverse",
             question'.scope = question.scope, question'.limit = question.limit,
             ~Structured(upstream.style)
      PROVE  Names(answer'.entries) = Names(answer.entries)
  <2> DEFINE body == Explained(question.node, question.scope)
             N == InScope(upstream.graph, question.node, question.scope)
             R == ScopeRoles(question.scope)
             k == question.limit
  <2>1. /\ question.scope \in {"parents", "children"} /\ k \in Nat
        /\ answer'.entries = Shown({Entry(m, {}) : m \in body.related}, k)
    BY <1>1 DEF AnswersTheQuestion, Asked, Traverse, Explained
  <2>2. answer.entries = Shown(Candidates(question.scope, body), k)
    BY <1>1 DEF AnswersTheQuestion, Asked, NeighborVerbs, Neighbors
  <2>3. upstream.style \in Styles
    BY UpstreamsAssumption DEF AnswersTheQuestion
  <2>4. body.related = N /\ ~body.structured
    BY <1>1, <2>1, <2>3, RelatedAreInScope DEF Explained, Explanation
  <2>5. Candidates(question.scope, body) = {Entry(m, R) : m \in N}
    BY <2>1, <2>4 DEF Candidates
  <2>6. N \in SUBSET Nodes /\ R \in SUBSET Roles /\ {} \in SUBSET Roles
    BY <2>1, ScopeFacts DEF Scopes
  <2> HIDE DEF N, R, k, body
  <2>7. Names(Shown({Entry(m, R) : m \in N}, k)) = Names(Shown({Entry(m, {}) : m \in N}, k))
    <3> DEFINE first == IF k > 0 THEN {m \in N : Cardinality({b \in N : b < m}) < k} ELSE N
    <3> HIDE DEF first
    <3>1. Names(Shown({Entry(m, R) : m \in N}, k)) = first
      BY ONLY <2>1, <2>6, CutByNode DEF first
    <3>2. Names(Shown({Entry(m, {}) : m \in N}, k)) = first
      BY ONLY <2>1, <2>6, CutByNode DEF first
    <3>3. QED
      BY ONLY <3>1, <3>2
  <2>8. QED
    BY ONLY <2>1, <2>2, <2>4, <2>5, <2>7
<1>2. ASSUME question.verb = "graph.markov_blanket",
             question'.verb = "extensions.abel.markov_blanket", ~answer.truncated
      PROVE  /\ Names(answer'.entries) = Names(answer.entries)
             /\ answer'.drivers = Names({e \in answer.entries : "parent" \in e.roles})
  <2> DEFINE body == Explained(question.node, "markov_blanket")
  <2>1. Asked(NeighborVerbs) /\ question.scope = "markov_blanket"
    BY <1>2 DEF Asked, NeighborVerbs, AnswersTheQuestion
  <2>2. answer.entries = Candidates("markov_blanket", body)
    BY <1>2, <2>1, UncutIsAll
  <2>3. answer'.entries = Candidates("markov_blanket", body) /\ answer'.drivers = Drivers(body)
    BY <1>2 DEF AnswersTheQuestion, Asked, Explained
  <2>4. QED
    <3> HIDE DEF body
    <3> QED
      BY ONLY <2>2, <2>3 DEF Drivers, Names
<1>3. QED
  BY <1>1, <1>2

(* In every session the surfaces over one upstream call agree.              *)
THEOREM SurfacesOfSessions == SessionSpec => SurfacesAgree
<1>1. AnswersTheQuestion /\ AnswersTheQuestion' /\ [SessionNext]_sessionVars
        => [NoQuestion \notin {question, question'} /\ question'.node = question.node =>
              /\ /\ question.verb = "graph.neighbors"
                 /\ question'.verb = "traverse"
                 /\ question'.scope = question.scope
                 /\ question'.limit = question.limit
                 /\ ~Structured(upstream.style)
                 => Names(answer'.entries) = Names(answer.entries)
              /\ /\ question.verb = "graph.markov_blanket"
                 /\ question'.verb = "extensions.abel.markov_blanket"
                 /\ ~answer.truncated
                 => /\ Names(answer'.entries) = Names(answer.entries)
                    /\ answer'.drivers = Names({e \in answer.entries : "parent" \in e.roles})
           ]_sessionVars
  BY AgreeNow, FactsStay
<1>2. QED
  BY <1>1, SessionInvariant, PTL DEF SessionSpec, SurfacesAgree
-----------------------------------------------------------------------------
(* Interventions. *)

(* Some place among the first n comes first.                                *)
LEMMA SomePlaceIsFirst ==
    ASSUME NEW n \in Nat, NEW hits \in SUBSET (1 .. n), hits # {}
    PROVE  \E i \in hits : \A j \in hits : i <= j
<1> DEFINE S == 1 .. n
           Initial == {1 .. i : i \in hits}
<1>1. IsFiniteSet(S)
  <2>1. 1 \in Int /\ n \in Int
    OBVIOUS
  <2>2. QED
    BY ONLY <2>1, FS_Interval
<1>2. IsWellFoundedOn(StrictSubsetOrdering(S), SUBSET S)
  BY <1>1, FS_StrictSubsetOrderingWellFounded, FS_FiniteSubsetsOfFinite
<1>3. Initial \subseteq SUBSET S /\ Initial # {}
  <2>1. \A i \in hits : 1 .. i \subseteq S
    OBVIOUS
  <2>2. QED
    <3> HIDE DEF S
    <3> QED
      BY <2>1
<1>4. PICK x \in Initial : \A y \in Initial : ~(<<y, x>> \in StrictSubsetOrdering(S))
  <2> HIDE DEF Initial, S
  <2> QED
    BY ONLY <1>2, <1>3, WFMin
<1>5. PICK i \in hits : x = 1 .. i
  BY <1>4
<1>6. ASSUME NEW j \in hits, ~(i <= j) PROVE FALSE
  <2>1. 1 .. j \subseteq 1 .. i /\ i \in 1 .. i /\ i \notin 1 .. j
    BY <1>6
  <2>2. 1 .. j \in SUBSET S /\ 1 .. i \in SUBSET S
    OBVIOUS
  <2>3. <<1 .. j, 1 .. i>> \in StrictSubsetOrdering(S)
    <3> HIDE DEF S
    <3> QED
      BY <2>1, <2>2 DEF StrictSubsetOrdering
  <2>4. QED
    BY <1>4, <1>5, <2>3
<1>7. QED
  BY <1>6

(* The first hit is one of the hits.                                        *)
LEMMA FirstHitIsAHit ==
    ASSUME NEW summaries, NEW n \in Nat, NEW hits \in SUBSET (1 .. n)
    PROVE  /\ hits = {} => FirstHit(summaries, hits) = NotFound
           /\ hits # {} => \E i \in hits : FirstHit(summaries, hits) = Found(summaries[i].effect)
<1>1. ASSUME hits # {}
      PROVE  \E i \in hits : FirstHit(summaries, hits) = Found(summaries[i].effect)
  <2>1. \E i \in hits : \A j \in hits : i <= j
    BY <1>1, SomePlaceIsFirst
  <2> DEFINE i == CHOOSE i \in hits : \A j \in hits : i <= j
  <2>2. i \in hits
    BY <2>1
  <2>3. FirstHit(summaries, hits) = Found(summaries[i].effect)
    BY <1>1 DEF FirstHit
  <2>4. QED
    BY <2>2, <2>3
<1>2. QED
  BY <1>1 DEF FirstHit

(* The summaries of the session are a list of summaries.                    *)
LEMMA SummariesAreListed ==
    ASSUME AnswersTheQuestion
    PROVE  \E n \in Nat : DOMAIN upstream.summaries = 1 .. n
<1>1. upstream.summaries \in Seq([node : Nodes, effect : Effects \cup {NoEffect},
                                  complete : BOOLEAN])
  BY UpstreamsAssumption DEF AnswersTheQuestion
<1>2. QED
  BY ONLY <1>1

(* A reported effect is one of the outcome node's.                          *)
LEMMA EffectNow == AnswersTheQuestion => EffectIsTheOutcomes
<1> SUFFICES ASSUME AnswersTheQuestion, Asked(InterventionVerbs)
             PROVE  EffectIsTheOutcomes
  BY DEF EffectIsTheOutcomes
<1> DEFINE S == upstream.summaries
           Hits == {j \in DOMAIN S : S[j].node = question.node}
           Usable == {j \in DOMAIN S : S[j].node = question.node /\ S[j].effect # NoEffect}
           effects == {S[i].effect : i \in Hits} \ {NoEffect}
<1>1. PICK n \in Nat : DOMAIN S = 1 .. n
  BY SummariesAreListed
<1>2. Hits \in SUBSET (1 .. n) /\ Usable \in SUBSET (1 .. n)
  BY <1>1
<1>3. \A i \in Usable : S[i].effect \in effects
  OBVIOUS
<1>4. effects # {} => Usable # {}
  OBVIOUS
<1>5. CASE question.verb = "intervene.do"
  <2>1. answer.reading = FirstHit(S, Usable)
    BY <1>5 DEF AnswersTheQuestion, Asked, InterventionVerbs, InterveneDo
  <2>2. /\ Usable = {} => answer.reading = NotFound
        /\ Usable # {} => \E i \in Usable : answer.reading = Found(S[i].effect)
    <3> HIDE DEF S, Usable
    <3> QED
      BY ONLY <1>2, <2>1, FirstHitIsAHit
  <2>3. /\ answer.reading.outcome = "ok" => answer.reading.effect \in effects
        /\ answer.reading.outcome = "ok" <=> effects # {}
    <3>1. CASE Usable = {}
      BY <1>4, <2>2, <3>1 DEF NotFound
    <3>2. CASE Usable # {}
      <4>1. PICK i \in Usable : answer.reading = Found(S[i].effect)
        BY <2>2, <3>2
      <4>2. answer.reading.outcome = "ok" /\ answer.reading.effect = S[i].effect
        BY <4>1 DEF Found
      <4>3. S[i].effect \in effects
        BY <1>3
      <4>4. QED
        BY <4>2, <4>3
    <3>3. QED
      BY <3>1, <3>2
  <2>4. QED
    BY <1>5, <2>3 DEF EffectIsTheOutcomes
<1>6. CASE question.verb = "extensions.abel.intervene_time_lag"
  <2>1. answer.reading = InterveneTimeLag(S, question.node)
    BY <1>6 DEF AnswersTheQuestion, Asked
  <2>2. CASE \E i \in DOMAIN S : ~S[i].complete \/ S[i].effect = NoEffect
    BY <1>6, <2>1, <2>2 DEF InterveneTimeLag, Broken, EffectIsTheOutcomes
  <2>3. CASE ~(\E i \in DOMAIN S : ~S[i].complete \/ S[i].effect = NoEffect)
    <3>1. answer.reading = FirstHit(S, Hits)
      BY <2>1, <2>3 DEF InterveneTimeLag
    <3>2. \A i \in Hits : S[i].effect \in effects
      BY <2>3
    <3>3. /\ Hits = {} => answer.reading = NotFound
          /\ Hits # {} => \E i \in Hits : answer.reading = Found(S[i].effect)
      <4> HIDE DEF S, Hits
      <4> QED
        BY ONLY <1>2, <3>1, FirstHitIsAHit
    <3>4. answer.reading.outcome = "ok" => answer.reading.effect \in effects
      <4>1. CASE Hits = {}
        BY <3>3, <4>1 DEF NotFound
      <4>2. CASE Hits # {}
        <5>1. PICK i \in Hits : answer.reading = Found(S[i].effect)
          BY <3>3, <4>2
        <5>2. answer.reading.effect = S[i].effect
          BY <5>1 DEF Found
        <5>3. QED
          BY <3>2, <5>2
      <4>3. QED
        BY <4>1, <4>2
    <3>5. QED
      BY <1>6, <3>4 DEF EffectIsTheOutcomes
  <2>4. QED
    BY <2>2, <2>3
<1>7. QED
  BY <1>5, <1>6 DEF Asked, InterventionVerbs

(* No session reports an effect that is not the outcome node's.             *)
THEOREM EffectsOfSessions == SessionSpec => []EffectIsTheOutcomes
  BY SessionInvariant, EffectNow, PTL

(* What the one intervention verb reads the other reads.                    *)
LEMMA SameReading ==
    ASSUME NEW S, NEW n, InterveneTimeLag(S, n).outcome # "untranslated"
    PROVE  InterveneTimeLag(S, n) = InterveneDo(S, n)
<1>1. ~(\E i \in DOMAIN S : ~S[i].complete \/ S[i].effect = NoEffect)
  BY DEF InterveneTimeLag, Broken
<1>2. {i \in DOMAIN S : S[i].node = n}
        = {i \in DOMAIN S : S[i].node = n /\ S[i].effect # NoEffect}
  BY <1>1
<1>3. InterveneTimeLag(S, n) = FirstHit(S, {i \in DOMAIN S : S[i].node = n})
  BY <1>1 DEF InterveneTimeLag
<1>4. QED
  BY ONLY <1>2, <1>3 DEF InterveneDo

(* In every session the two intervention verbs agree on one upstream answer. *)
THEOREM InterventionsAgree == SessionSpec => EffectsAgree
<1>1. AnswersTheQuestion /\ AnswersTheQuestion' /\ [SessionNext]_sessionVars
        => [/\ Asked({"intervene.do"})
            /\ Asked({"extensions.abel.intervene_time_lag"})'
            /\ question'.node = question.node
            /\ answer'.reading.outcome # "untranslated"
            => answer'.reading = answer.reading]_sessionVars
  <2> SUFFICES ASSUME AnswersTheQuestion, AnswersTheQuestion', upstream' = upstream,
                      Asked({"intervene.do"}),
                      Asked({"extensions.abel.intervene_time_lag"})',
                      question'.node = question.node,
                      answer'.reading.outcome # "untranslated"
               PROVE  answer'.reading = answer.reading
    BY FactsStay
  <2>1. answer.reading = InterveneDo(upstream.summaries, question.node)
    BY DEF AnswersTheQuestion
  <2>2. answer'.reading = InterveneTimeLag(upstream.summaries, question.node)
    BY DEF AnswersTheQuestion
  <2>3. QED
    BY <2>1, <2>2, SameReading
<1>2. QED
  BY <1>1, SessionInvariant, PTL DEF SessionSpec, EffectsAgree

-----------------------------------------------------------------------------
(* Hidden fields. *)

(* What an answer copies is not hidden, but for the tau of a path's edge.   *)
LEMMA CopiedIsOpen ==
    ASSUME NEW verb, NEW body, NEW path \in Disclosed(verb, body), Hidden(path)
    PROVE  <<verb, path>> \in Documented
<1>1. path \notin Sanitize(body)
  BY DEF Sanitize
<1>2. verb = "graph.paths" /\ path \in PathFields
  BY <1>1 DEF Disclosed
<1>3. path = <<"paths", "edges", "tau">>
  BY <1>2 DEF PathFields, Hidden, ForbiddenFields
<1>4. QED
  BY <1>2, <1>3 DEF Documented

(* No session discloses a hidden field the documentation does not name.     *)
THEOREM DisclosureOfSessions == SessionSpec => []NothingHiddenDisclosed
<1>1. AnswersTheQuestion => NothingHiddenDisclosed
  BY CopiedIsOpen DEF AnswersTheQuestion, NothingHiddenDisclosed
<1>2. QED
  BY <1>1, SessionInvariant, PTL
=============================================================================
