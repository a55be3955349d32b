---------------------------- MODULE GraphResults ----------------------------
(***************************************************************************)
(* How the graph adapters make an answer out of an upstream explanation.   *)
(* The upstream has a style in which it explains: bare lists of nodes, or  *)
(* structured neighbours with their roles.                                 *)
(***************************************************************************)
EXTENDS Integers, FiniteSets

CONSTANT Nodes  \* the nodes, numbered in the order of their names

ASSUME NodesAssumption == Nodes \subseteq Nat /\ IsFiniteSet(Nodes)

(***************************************************************************)
(* The upstream (external).  A graph is a set of edges <<cause, effect>>.  *)
(***************************************************************************)
Scopes == {"parents", "children", "markov_blanket"}

Parents(graph, n)  == {m \in Nodes : <<m, n>> \in graph}
Children(graph, n) == {m \in Nodes : <<n, m>> \in graph}
Spouses(graph, n)  == {m \in Nodes \ {n} : Children(graph, m) \cap Children(graph, n) # {}}

InRole(graph, n, role) ==
    IF role = "parent" THEN Parents(graph, n)
    ELSE IF role = "child" THEN Children(graph, n)
    ELSE Spouses(graph, n)

Roles == {"parent", "child", "spouse"}

ScopeRoles(scope) ==
    IF scope = "parents" THEN {"parent"} ELSE IF scope = "children" THEN {"child"} ELSE Roles

InScope(graph, n, scope) == UNION {InRole(graph, n, role) : role \in ScopeRoles(scope)}

TrueRoles(graph, n, scope, m) == {role \in ScopeRoles(scope) : m \in InRole(graph, n, role)}

\* "related": nothing but related_nodes; "lists": the roles of a blanket as
\* three lists; "roles": an item per neighbour, with a label of the upstream's
\* own among its roles; "relationship": an item per neighbour and role.
Styles == {"related", "lists", "roles", "relationship"}

Structured(style) == style \in {"roles", "relationship"}

Items(graph, n, scope, style) ==
    IF style = "roles"
        THEN {[node |-> m, given |-> TrueRoles(graph, n, scope, m) \cup {"driver"}] :
                  m \in InScope(graph, n, scope)}
        ELSE UNION {{[node |-> m, given |-> {role}] : role \in TrueRoles(graph, n, scope, m)} :
                        m \in InScope(graph, n, scope)}

Explanation(graph, n, scope, style) ==
    LET listed == style = "lists" /\ scope = "markov_blanket"
        bare   == ~Structured(style) /\ ~listed
    IN [structured |-> Structured(style),
        items      |-> IF Structured(style) THEN Items(graph, n, scope, style) ELSE {},
        related    |-> IF bare THEN InScope(graph, n, scope) ELSE {},
        lists      |-> [role \in Roles |-> IF listed THEN InRole(graph, n, role) ELSE {}]]

(***************************************************************************)
(* The adapters.                                                           *)
(***************************************************************************)
Entry(n, roles) == [node |-> n, roles |-> roles]

NormalizeRoles(item) == item.given \cap Roles

\* Variant: the roles of a structured neighbour passed on as they are.
CandidatesUnchecked(scope, body) ==
    IF body.structured THEN {Entry(item.node, item.given) : item \in body.items}
    ELSE {Entry(m, ScopeRoles(scope)) : m \in body.related}

Candidates(scope, body) ==
    IF body.structured
        THEN {Entry(item.node, NormalizeRoles(item)) : item \in body.items}
    ELSE IF scope # "markov_blanket"
        THEN {Entry(m, ScopeRoles(scope)) : m \in body.related}
    ELSE LET named == UNION {body.lists[role] : role \in Roles} IN
         IF named # {}
            THEN {Entry(m, {role \in Roles : m \in body.lists[role]}) : m \in named}
            ELSE {Entry(m, {}) : m \in body.related}

\* The sorted lists of roles in the order in which Python compares lists.
RoleOrder ==
    <<{}, {"child"}, {"child", "parent"}, {"child", "parent", "spouse"},
      {"child", "spouse"}, {"parent"}, {"parent", "spouse"}, {"spouse"}>>

Place(roles) == CHOOSE i \in DOMAIN RoleOrder : RoleOrder[i] = roles

Before(a, b) == a.node < b.node \/ (a.node = b.node /\ Place(a.roles) < Place(b.roles))

\* entries[:k] of the sorted list.
FirstOf(entries, k) == {a \in entries : Cardinality({b \in entries : Before(b, a)}) < k}

\* Variant: a limit of one taken for none as well.
ShownUnlessOne(entries, limit) == IF limit > 1 THEN FirstOf(entries, limit) ELSE entries

\* A limit of zero is none.
Shown(entries, limit) == IF limit > 0 THEN FirstOf(entries, limit) ELSE entries

\* Variant: candidates counted after they were cut.
NeighborsCountedLate(scope, body, limit) ==
    LET shown == Shown(Candidates(scope, body), limit) IN
    [entries |-> shown, total |-> Cardinality(shown), truncated |-> FALSE]

Neighbors(scope, body, limit) ==
    LET candidates == Candidates(scope, body)
        shown      == Shown(candidates, limit)
    IN [entries   |-> shown,
        total     |-> Cardinality(candidates),
        truncated |-> Cardinality(candidates) > Cardinality(shown)]

\* Variant: a top_k of zero taken for a limit.
TraverseUnguarded(body, limit) == FirstOf({Entry(m, {}) : m \in body.related}, limit)

\* _traverse looks for related_nodes whatever the style.
Traverse(body, limit) == Shown({Entry(m, {}) : m \in body.related}, limit)

\* The drivers of extensions.abel.markov_blanket.
Drivers(body) ==
    {entry.node : entry \in {e \in Candidates("markov_blanket", body) : "parent" \in e.roles}}
=============================================================================
