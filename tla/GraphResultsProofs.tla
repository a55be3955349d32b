------------------------- MODULE GraphResultsProofs -------------------------
(***************************************************************************)
(* Proofs about GraphResults: what cutting a sorted list keeps, and what   *)
(* the adapters make of the upstream's explanations, for every graph, every *)
(* style of explanation and every limit.                                   *)
(***************************************************************************)
EXTENDS GraphResults, FiniteSetTheorems, WellFoundedInduction, TLAPS

Entries == [node : Nodes, roles : SUBSET Roles]

Earlier(S, a) == {b \in S : Before(b, a)}

(* Every set of roles has its own place among the sorted lists of roles.    *)
LEMMA PlaceOfRoles ==
    ASSUME NEW roles \in SUBSET Roles
    PROVE  Place(roles) \in 1 .. 8 /\ RoleOrder[Place(roles)] = roles
<1>1. DOMAIN RoleOrder = 1 .. 8
  BY DEF RoleOrder
<1>2. \E i \in 1 .. 8 : RoleOrder[i] = roles
  <2>1. \/ roles = {} \/ roles = {"child"} \/ roles = {"child", "parent"}
        \/ roles = {"child", "parent", "spouse"} \/ roles = {"child", "spouse"}
        \/ roles = {"parent"} \/ roles = {"parent", "spouse"} \/ roles = {"spouse"}
    <3>1. CASE "child" \in roles /\ "parent" \in roles
      BY <3>1 DEF Roles
    <3>2. CASE "child" \in roles /\ "parent" \notin roles
      BY <3>2 DEF Roles
    <3>3. CASE "child" \notin roles /\ "parent" \in roles
      BY <3>3 DEF Roles
    <3>4. CASE "child" \notin roles /\ "parent" \notin roles
      BY <3>4 DEF Roles
    <3>5. QED
      BY <3>1, <3>2, <3>3, <3>4
  <2>2. /\ RoleOrder[1] = {} /\ RoleOrder[2] = {"child"}
        /\ RoleOrder[3] = {"child", "parent"} /\ RoleOrder[4] = {"child", "parent", "spouse"}
        /\ RoleOrder[5] = {"child", "spouse"} /\ RoleOrder[6] = {"parent"}
        /\ RoleOrder[7] = {"parent", "spouse"} /\ RoleOrder[8] = {"spouse"}
    BY DEF RoleOrder
  <2>3. /\ 1 \in 1 .. 8 /\ 2 \in 1 .. 8 /\ 3 \in 1 .. 8 /\ 4 \in 1 .. 8
        /\ 5 \in 1 .. 8 /\ 6 \in 1 .. 8 /\ 7 \in 1 .. 8 /\ 8 \in 1 .. 8
    OBVIOUS
  <2>4. QED
    BY ONLY <2>1, <2>2, <2>3
<1>3. QED
  BY ONLY <1>1, <1>2 DEF Place

(* The sorted order is strict and total: no two entries share a place.      *)
LEMMA SortedIsTotal ==
    ASSUME NEW a \in Entries, NEW b \in Entries, NEW c \in Entries
    PROVE  /\ ~Before(a, a)
           /\ Before(a, b) /\ Before(b, c) => Before(a, c)
           /\ a # b => Before(a, b) \/ Before(b, a)
<1>1. /\ a.node \in Nat /\ b.node \in Nat /\ c.node \in Nat
      /\ a.roles \in SUBSET Roles /\ b.roles \in SUBSET Roles /\ c.roles \in SUBSET Roles
  BY NodesAssumption DEF Entries
<1>2. /\ Place(a.roles) \in Nat /\ Place(b.roles) \in Nat /\ Place(c.roles) \in Nat
      /\ Place(a.roles) = Place(b.roles) => a.roles = b.roles
  <2>1. \A r \in SUBSET Roles : Place(r) \in 1 .. 8 /\ RoleOrder[Place(r)] = r
    BY PlaceOfRoles
  <2>2. Place(a.roles) = Place(b.roles) => a.roles = b.roles
    BY ONLY <1>1, <2>1
  <2>3. QED
    BY <1>1, <2>1, <2>2
<1>3. a # b => a.node # b.node \/ a.roles # b.roles
  BY DEF Entries
<1>4. QED
  BY ONLY <1>1, <1>2, <1>3 DEF Before

(* Counting what comes earlier: whoever is later has more before it.        *)
LEMMA EarlierGrows ==
    ASSUME NEW S \in SUBSET Entries, IsFiniteSet(S), NEW a \in S, NEW b \in S, Before(a, b)
    PROVE  /\ Earlier(S, a) \subseteq Earlier(S, b)
           /\ Cardinality(Earlier(S, a)) < Cardinality(Earlier(S, b))
<1>1. Earlier(S, a) \subseteq Earlier(S, b)
  BY SortedIsTotal DEF Earlier
<1>2. a \in Earlier(S, b) /\ a \notin Earlier(S, a)
  BY SortedIsTotal DEF Earlier
<1>3. IsFiniteSet(Earlier(S, b)) /\ IsFiniteSet(Earlier(S, a))
  BY FS_Subset DEF Earlier
<1>4. /\ Cardinality(Earlier(S, a)) <= Cardinality(Earlier(S, b))
      /\ Cardinality(Earlier(S, b)) = Cardinality(Earlier(S, a)) => Earlier(S, b) = Earlier(S, a)
  BY ONLY <1>1, <1>3, FS_Subset
<1>5. QED
  BY <1>1, <1>2, <1>3, <1>4, FS_CardinalityType

(* Some entry of a finite set comes first.                                  *)
LEMMA SomeEntryIsFirst ==
    ASSUME NEW S \in SUBSET Entries, IsFiniteSet(S), NEW T \in SUBSET S, T # {}
    PROVE  \E a \in T : \A b \in T : ~Before(b, a)
<1> DEFINE Counts == {Earlier(S, a) : a \in T}
<1>1. IsWellFoundedOn(StrictSubsetOrdering(S), FiniteSubsetsOf(S))
  BY FS_StrictSubsetOrderingWellFounded
<1>2. Counts \subseteq FiniteSubsetsOf(S)
  BY FS_Subset DEF FiniteSubsetsOf, Earlier
<1>3. Counts # {}
  OBVIOUS
<1>4. PICK x \in Counts : \A y \in Counts : ~(<<y, x>> \in StrictSubsetOrdering(S))
  <2> HIDE DEF Counts
  <2> QED
    BY ONLY <1>1, <1>2, <1>3, WFMin
<1>5. PICK a \in T : x = Earlier(S, a)
  BY <1>4
<1>6. ASSUME NEW b \in T, Before(b, a) PROVE FALSE
  <2>1. Earlier(S, b) \subseteq Earlier(S, a)
    BY <1>6, EarlierGrows
  <2>2. b \in Earlier(S, a) /\ b \notin Earlier(S, b)
    BY <1>6, SortedIsTotal DEF Earlier
  <2>3. <<Earlier(S, b), Earlier(S, a)>> \in StrictSubsetOrdering(S)
    BY <2>1, <2>2 DEF StrictSubsetOrdering, Earlier
  <2>4. QED
    BY <1>4, <1>5, <2>3
<1>7. QED
  BY <1>6
(* Cutting a sorted list keeps entries of it, all of them if they fit and   *)
(* else exactly as many as the limit says.                                  *)
LEMMA CutKeepsItsLimit ==
    ASSUME NEW S \in SUBSET Entries, IsFiniteSet(S), NEW k \in Nat
    PROVE  /\ FirstOf(S, k) \subseteq S
           /\ IsFiniteSet(FirstOf(S, k))
           /\ Cardinality(S) <= k => FirstOf(S, k) = S
           /\ k <= Cardinality(S) => Cardinality(FirstOf(S, k)) = k
<1> DEFINE F == FirstOf(S, k)
<1>1. F = {a \in S : Cardinality(Earlier(S, a)) < k}
  BY DEF FirstOf, Earlier
<1>2. F \subseteq S
  BY <1>1
<1>3. IsFiniteSet(F) /\ Cardinality(F) \in Nat /\ Cardinality(S) \in Nat
  BY ONLY <1>2, IsFiniteSet(S), FS_Subset, FS_CardinalityType
<1>4. \A a \in S : /\ IsFiniteSet(Earlier(S, a))
                   /\ Cardinality(Earlier(S, a)) \in Nat
  <2> TAKE a \in S
  <2>1. Earlier(S, a) \in SUBSET S
    BY DEF Earlier
  <2>2. QED
    BY ONLY <2>1, IsFiniteSet(S), FS_Subset, FS_CardinalityType
<1>5. \A a \in S : Cardinality(Earlier(S, a)) < Cardinality(S)
  <2> TAKE a \in S
  <2>1. Earlier(S, a) \in SUBSET (S \ {a})
    BY SortedIsTotal DEF Earlier
  <2>2. IsFiniteSet(S \ {a}) /\ Cardinality(S \ {a}) = Cardinality(S) - 1
    BY FS_RemoveElement
  <2>3. Cardinality(Earlier(S, a)) <= Cardinality(S) - 1
    BY ONLY <2>1, <2>2, FS_Subset
  <2>4. QED
    BY ONLY <1>3, <1>4, <2>3
<1>6. Cardinality(S) <= k => F = S
  BY ONLY <1>1, <1>2, <1>3, <1>4, <1>5, k \in Nat
<1>7. Cardinality(F) <= k
  <2> DEFINE f == [a \in F |-> Cardinality(Earlier(S, a))]
  <2>1. f \in [F -> 0 .. k - 1]
    BY <1>1, <1>4
  <2>2. IsFiniteSet(0 .. k - 1) /\ Cardinality(0 .. k - 1) = k
    <3>1. 0 \in Int /\ k - 1 \in Int
      OBVIOUS
    <3>2. /\ IsFiniteSet(0 .. k - 1)
          /\ Cardinality(0 .. k - 1) = IF 0 > k - 1 THEN 0 ELSE (k - 1) - 0 + 1
      BY ONLY <3>1, FS_Interval
    <3>3. QED
      BY <3>2
  <2>3. \A a, b \in F : a # b => f[a] # f[b]
    <3> SUFFICES ASSUME NEW a \in F, NEW b \in F, a # b PROVE f[a] # f[b]
      OBVIOUS
    <3>1. a \in S /\ b \in S /\ f[a] = Cardinality(Earlier(S, a)) /\ f[b] = Cardinality(Earlier(S, b))
      BY <1>2
    <3>2. Before(a, b) \/ Before(b, a)
      BY <3>1, SortedIsTotal
    <3>3. \/ Cardinality(Earlier(S, a)) < Cardinality(Earlier(S, b))
          \/ Cardinality(Earlier(S, b)) < Cardinality(Earlier(S, a))
      BY <3>1, <3>2, EarlierGrows
    <3>4. QED
      BY ONLY <3>1, <3>3, <1>4
  <2>4. ~(Cardinality(0 .. k - 1) < Cardinality(F))
    <3> HIDE DEF f, F
    <3> QED
      BY ONLY <1>3, <2>1, <2>2, <2>3, FS_PigeonHole
  <2>5. QED
    BY ONLY <1>3, <2>2, <2>4, k \in Nat
<1>8. ASSUME k <= Cardinality(S), F # S PROVE k <= Cardinality(F)
  <2>1. S \ F # {} /\ S \ F \in SUBSET S
    BY <1>2, <1>8
  <2>2. PICK a \in S \ F : \A b \in S \ F : ~Before(b, a)
    BY ONLY <2>1, IsFiniteSet(S), S \in SUBSET Entries, SomeEntryIsFirst
  <2>3. Earlier(S, a) \subseteq F
    BY <2>2 DEF Earlier
  <2>4. ~(Cardinality(Earlier(S, a)) < k)
    BY <1>1, <2>2
  <2>5. Cardinality(Earlier(S, a)) <= Cardinality(F)
    BY ONLY <1>3, <2>3, FS_Subset
  <2>6. QED
    BY ONLY <1>3, <1>4, <2>2, <2>4, <2>5, k \in Nat
<1>9. k <= Cardinality(S) => Cardinality(F) = k
  BY ONLY <1>3, <1>7, <1>8, k \in Nat
<1>10. QED
  BY <1>2, <1>3, <1>6, <1>9

(* A limit shows entries of the list, and one raised or lifted shows those  *)
(* that were shown before.                                                  *)
LEMMA ShownGrows ==
    ASSUME NEW S \in SUBSET Entries, IsFiniteSet(S), NEW k \in Nat, NEW l \in Nat
    PROVE  /\ Shown(S, k) \subseteq S
           /\ k > 0 /\ (k <= l \/ l = 0) => Shown(S, k) \subseteq Shown(S, l)
<1>1. Shown(S, k) \subseteq S
  BY DEF Shown, FirstOf
<1>2. \A a \in S : Cardinality(Earlier(S, a)) \in Nat
  <2> TAKE a \in S
  <2>1. Earlier(S, a) \in SUBSET S
    BY DEF Earlier
  <2>2. QED
    BY ONLY <2>1, IsFiniteSet(S), FS_Subset, FS_CardinalityType
<1>3. ASSUME k > 0, k <= l PROVE FirstOf(S, k) \subseteq FirstOf(S, l)
  BY <1>2, <1>3 DEF FirstOf, Earlier
<1>4. QED
  BY <1>1, <1>3 DEF Shown
-----------------------------------------------------------------------------
(* What the upstream means and what the adapters read out of it. *)

LEMMA ScopeFacts ==
    ASSUME NEW graph, NEW n, NEW scope \in Scopes
    PROVE  /\ ScopeRoles(scope) \subseteq Roles
           /\ \A role \in Roles : InRole(graph, n, role) \subseteq Nodes
           /\ InScope(graph, n, scope) \subseteq Nodes
           /\ IsFiniteSet(InScope(graph, n, scope))
           /\ \A m : m \in InScope(graph, n, scope) <=> TrueRoles(graph, n, scope, m) # {}
           /\ \A m : TrueRoles(graph, n, scope, m) \subseteq Roles
<1>1. ScopeRoles(scope) \subseteq Roles
  BY DEF ScopeRoles, Roles, Scopes
<1>2. \A role \in Roles : InRole(graph, n, role) \subseteq Nodes
  BY DEF InRole, Roles, Parents, Children, Spouses
<1>3. InScope(graph, n, scope) \subseteq Nodes
  BY <1>1, <1>2 DEF InScope
<1>4. IsFiniteSet(InScope(graph, n, scope))
  BY ONLY <1>3, NodesAssumption, FS_Subset
<1>5. \A m : m \in InScope(graph, n, scope) <=> TrueRoles(graph, n, scope, m) # {}
  BY DEF InScope, TrueRoles
<1>6. \A m : TrueRoles(graph, n, scope, m) \subseteq Roles
  BY <1>1 DEF TrueRoles
<1>7. QED
  BY <1>1, <1>2, <1>3, <1>4, <1>5, <1>6

\* What holds of the candidates the adapters read out of an explanation.
ReadRightly(graph, n, scope, C) ==
    /\ C \subseteq Entries
    /\ \A e \in C : /\ e.node \in InScope(graph, n, scope)
                    /\ e.roles \subseteq TrueRoles(graph, n, scope, e.node)
    /\ \A m \in InScope(graph, n, scope) : \E e \in C : e.node = m

OncePerNode(C) == \A e, d \in C : e.node = d.node => e = d

(* A list with an entry for each node in scope, in roles that it has, is    *)
(* read rightly and names each node once.                                   *)
LEMMA EachNodeItsRoles ==
    ASSUME NEW graph, NEW n, NEW scope \in Scopes,
           NEW R \in [InScope(graph, n, scope) -> SUBSET Roles],
           \A m \in InScope(graph, n, scope) : R[m] \subseteq TrueRoles(graph, n, scope, m),
           NEW C, C = {Entry(m, R[m]) : m \in InScope(graph, n, scope)}
    PROVE  ReadRightly(graph, n, scope, C) /\ OncePerNode(C)
<1> DEFINE N == InScope(graph, n, scope)
<1>1. \A m \in N : m \in Nodes
  BY ScopeFacts
<1>2. \A e \in C : \E m \in N : e = [node |-> m, roles |-> R[m]]
  BY DEF Entry
<1>3. \A e \in C : e \in Entries /\ e.node \in N /\ e.roles = R[e.node]
                   /\ e = [node |-> e.node, roles |-> R[e.node]]
  <2> TAKE e \in C
  <2>1. PICK m \in N : e = [node |-> m, roles |-> R[m]]
    BY <1>2
  <2>2. e.node = m /\ e.roles = R[m]
    BY <2>1
  <2>3. e \in Entries
    BY <1>1, <2>1 DEF Entries
  <2>4. QED
    BY <2>1, <2>2, <2>3
<1>4. \A m \in N : \E e \in C : e.node = m
  <2> TAKE m \in N
  <2>1. [node |-> m, roles |-> R[m]] \in C
    BY DEF Entry
  <2>2. QED
    BY <2>1
<1>5. ReadRightly(graph, n, scope, C)
  BY <1>3, <1>4 DEF ReadRightly
<1>6. OncePerNode(C)
  BY <1>3 DEF OncePerNode
<1>7. QED
  BY <1>5, <1>6

(* Structured neighbours are read rightly, and once per node if the roles   *)
(* come together.                                                           *)
LEMMA StructuredReadRightly ==
    ASSUME NEW graph, NEW n, NEW scope \in Scopes, NEW style \in {"roles", "relationship"},
           NEW C, C = Candidates(scope, Explanation(graph, n, scope, style))
    PROVE  ReadRightly(graph, n, scope, C) /\ (style = "roles" => OncePerNode(C))
<1> DEFINE I == Items(graph, n, scope, style)
           T(m) == TrueRoles(graph, n, scope, m)
<1>1. C = {Entry(item.node, item.given \cap Roles) : item \in I}
  BY DEF Candidates, Explanation, Structured, NormalizeRoles
<1>2. CASE style = "roles"
  <2>1. I = {[node |-> m, given |-> T(m) \cup {"driver"}] : m \in InScope(graph, n, scope)}
    BY <1>2 DEF Items
  <2>2. \A m : (T(m) \cup {"driver"}) \cap Roles = T(m)
    BY ScopeFacts DEF Roles
  <2>3. C = {Entry(m, T(m)) : m \in InScope(graph, n, scope)}
    <3>1. \A item \in I : \E m \in InScope(graph, n, scope) :
              /\ Entry(item.node, item.given \cap Roles) = Entry(m, T(m))
      <4> HIDE DEF T
      <4> QED
        BY <2>1, <2>2
    <3>2. \A m \in InScope(graph, n, scope) : \E item \in I :
              /\ Entry(item.node, item.given \cap Roles) = Entry(m, T(m))
      <4> TAKE m \in InScope(graph, n, scope)
      <4> DEFINE item == [node |-> m, given |-> T(m) \cup {"driver"}]
      <4>1. item \in I
        <5> HIDE DEF I
        <5> QED
          BY <2>1
      <4>2. item.node = m /\ item.given \cap Roles = T(m)
        BY <2>2
      <4>3. QED
        BY <4>1, <4>2
    <3>3. QED
      <4> HIDE DEF I, T
      <4> QED
        BY ONLY <1>1, <3>1, <3>2
  <2>4. \A m \in InScope(graph, n, scope) : m \in Nodes /\ T(m) \in SUBSET Roles
    BY ScopeFacts
  <2>5. QED
    <3> DEFINE R == [m \in InScope(graph, n, scope) |-> T(m)]
    <3>1. R \in [InScope(graph, n, scope) -> SUBSET Roles]
      BY <2>4
    <3>2. C = {Entry(m, R[m]) : m \in InScope(graph, n, scope)}
      BY <2>3
    <3>3. \A m \in InScope(graph, n, scope) : R[m] \subseteq TrueRoles(graph, n, scope, m)
      OBVIOUS
    <3> HIDE DEF R
    <3> QED
      BY ONLY <3>1, <3>2, <3>3, scope \in Scopes, EachNodeItsRoles
<1>3. CASE style = "relationship"
  <2>1. I = UNION {{[node |-> m, given |-> {role}] : role \in T(m)} :
                      m \in InScope(graph, n, scope)}
    BY <1>3 DEF Items
  <2>2. \A item \in I : \E m \in InScope(graph, n, scope) : \E role \in T(m) :
            item = [node |-> m, given |-> {role}]
    BY ONLY <2>1
  <2>3. \A m \in InScope(graph, n, scope) : \E item \in I : item.node = m
    <3> TAKE m \in InScope(graph, n, scope)
    <3>1. PICK role \in T(m) : TRUE
      BY ScopeFacts
    <3>2. [node |-> m, given |-> {role}] \in {[node |-> m, given |-> {r}] : r \in T(m)}
      BY <3>1
    <3>3. {[node |-> m, given |-> {r}] : r \in T(m)} \subseteq I
      <4> HIDE DEF I, T
      <4> QED
        BY <2>1
    <3>4. QED
      BY <3>2, <3>3
  <2>4. \A m \in InScope(graph, n, scope) : m \in Nodes /\ T(m) \in SUBSET Roles
    BY ScopeFacts
  <2>5. \A item \in I : /\ item.node \in InScope(graph, n, scope) /\ item.node \in Nodes
                       /\ item.given \subseteq T(item.node)
    <3> HIDE DEF T, I
    <3> QED
      BY ONLY <2>2, <2>4
  <2>6. ReadRightly(graph, n, scope, C)
    <3> HIDE DEF I
    <3>1. \A e \in C : \E item \in I : e = [node |-> item.node, roles |-> item.given \cap Roles]
      BY <1>1 DEF Entry
    <3>2. \A item \in I : [node |-> item.node, roles |-> item.given \cap Roles] \in C
      BY <1>1 DEF Entry
    <3>3. \A e \in C : /\ e \in Entries /\ e.node \in InScope(graph, n, scope)
                      /\ e.roles \subseteq T(e.node)
      <4> TAKE e \in C
      <4>1. PICK item \in I : e = [node |-> item.node, roles |-> item.given \cap Roles]
        BY <3>1
      <4>2. e.node = item.node /\ e.roles = item.given \cap Roles
        BY <4>1
      <4>3. e \in Entries
        BY <2>5, <4>1 DEF Entries
      <4>4. QED
        BY <2>5, <4>2, <4>3
    <3>4. \A m \in InScope(graph, n, scope) : \E e \in C : e.node = m
      BY <2>3, <3>2
    <3>5. QED
      BY ONLY <3>3, <3>4 DEF ReadRightly
  <2>7. QED
    BY <1>3, <2>6
<1>4. QED
  BY <1>2, <1>3

(* Bare lists are read rightly, each node once.                             *)
LEMMA ListsReadRightly ==
    ASSUME NEW graph, NEW n, NEW scope \in Scopes, NEW style \in {"related", "lists"},
           NEW C, C = Candidates(scope, Explanation(graph, n, scope, style))
    PROVE  ReadRightly(graph, n, scope, C) /\ OncePerNode(C)
<1> DEFINE body == Explanation(graph, n, scope, style)
           N == InScope(graph, n, scope)
           T(m) == TrueRoles(graph, n, scope, m)
<1>1. ~body.structured
  BY DEF Explanation, Structured
<1>2. \A m \in N : m \in Nodes /\ T(m) \in SUBSET Roles
  BY ScopeFacts
<1>3. CASE scope # "markov_blanket"
  <2>1. body.related = N
    BY <1>3 DEF Explanation, Structured
  <2>2. C = {Entry(m, ScopeRoles(scope)) : m \in N}
    BY <1>1, <1>3, <2>1 DEF Candidates
  <2>3. \A m \in N : ScopeRoles(scope) = T(m)
    BY <1>3 DEF InScope, TrueRoles, ScopeRoles, Scopes
  <2>4. C = {Entry(m, T(m)) : m \in N}
    BY ONLY <2>2, <2>3
  <2>5. QED
    <3> DEFINE R == [m \in InScope(graph, n, scope) |-> T(m)]
    <3>1. R \in [InScope(graph, n, scope) -> SUBSET Roles]
      BY <1>2
    <3>2. C = {Entry(m, R[m]) : m \in InScope(graph, n, scope)}
      BY <2>4
    <3>3. \A m \in InScope(graph, n, scope) : R[m] \subseteq TrueRoles(graph, n, scope, m)
      OBVIOUS
    <3> HIDE DEF R
    <3> QED
      BY ONLY <3>1, <3>2, <3>3, scope \in Scopes, EachNodeItsRoles
<1>4. CASE scope = "markov_blanket" /\ style = "lists"
  <2>1. body.lists = [role \in Roles |-> InRole(graph, n, role)] /\ body.related = {}
    BY <1>4 DEF Explanation, Structured
  <2>2. UNION {body.lists[role] : role \in Roles} = N
    BY <1>4, <2>1 DEF InScope, ScopeRoles
  <2>3. \A m : {role \in Roles : m \in body.lists[role]} = T(m)
    BY <1>4, <2>1 DEF TrueRoles, ScopeRoles
  <2>4. C = {Entry(m, T(m)) : m \in N}
    <3>1. CASE N # {}
      <4>1. C = {Entry(m, {role \in Roles : m \in body.lists[role]}) : m \in N}
        BY <1>1, <1>4, <2>2, <3>1 DEF Candidates
      <4>2. QED
        <5> HIDE DEF T, body
        <5> QED
          BY ONLY <2>3, <4>1
    <3>2. CASE N = {}
      BY <1>1, <1>4, <2>1, <2>2, <3>2 DEF Candidates
    <3>3. QED
      BY <3>1, <3>2
  <2>5. QED
    <3> DEFINE R == [m \in InScope(graph, n, scope) |-> T(m)]
    <3>1. R \in [InScope(graph, n, scope) -> SUBSET Roles]
      BY <1>2
    <3>2. C = {Entry(m, R[m]) : m \in InScope(graph, n, scope)}
      BY <2>4
    <3>3. \A m \in InScope(graph, n, scope) : R[m] \subseteq TrueRoles(graph, n, scope, m)
      OBVIOUS
    <3> HIDE DEF R
    <3> QED
      BY ONLY <3>1, <3>2, <3>3, scope \in Scopes, EachNodeItsRoles
<1>5. CASE scope = "markov_blanket" /\ style = "related"
  <2>1. body.lists = [role \in Roles |-> {}] /\ body.related = N
    BY <1>5 DEF Explanation, Structured
  <2>2. UNION {body.lists[role] : role \in Roles} = {}
    BY <2>1
  <2>3. C = {Entry(m, {}) : m \in N}
    BY <1>1, <1>5, <2>1, <2>2 DEF Candidates
  <2>4. QED
    <3> DEFINE R == [m \in InScope(graph, n, scope) |-> {}]
    <3>1. R \in [InScope(graph, n, scope) -> SUBSET Roles]
      BY <1>2
    <3>2. C = {Entry(m, R[m]) : m \in InScope(graph, n, scope)}
      BY <2>3
    <3>3. \A m \in InScope(graph, n, scope) : R[m] \subseteq TrueRoles(graph, n, scope, m)
      OBVIOUS
    <3> HIDE DEF R
    <3> QED
      BY ONLY <3>1, <3>2, <3>3, scope \in Scopes, EachNodeItsRoles
<1>6. QED
  BY <1>3, <1>4, <1>5

(* In whatever style: the candidates are those in scope, in roles they have. *)
LEMMA ExplanationsReadRightly ==
    ASSUME NEW graph, NEW n, NEW scope \in Scopes, NEW style \in Styles,
           NEW C, C = Candidates(scope, Explanation(graph, n, scope, style))
    PROVE  /\ ReadRightly(graph, n, scope, C)
           /\ style # "relationship" => OncePerNode(C)
  BY StructuredReadRightly, ListsReadRightly DEF Styles

(* Entries of finitely many nodes are finitely many.                        *)
LEMMA EntriesFinite == IsFiniteSet(Entries)
<1> DEFINE P == Nodes \X SUBSET Roles
           f == [p \in P |-> Entry(p[1], p[2])]
<1>1. IsFiniteSet(Roles)
  <2>1. Roles = (({} \cup {"parent"}) \cup {"child"}) \cup {"spouse"}
    BY DEF Roles
  <2>2. QED
    BY <2>1, FS_EmptySet, FS_AddElement
<1>2. IsFiniteSet(P)
  BY <1>1, NodesAssumption, FS_SUBSET, FS_Product
<1>3. f \in Surjection(P, Entries)
  <2>1. f \in [P -> Entries]
    BY DEF Entry, Entries
  <2>2. \A e \in Entries : \E p \in P : f[p] = e
    <3> TAKE e \in Entries
    <3>1. <<e.node, e.roles>> \in P /\ f[<<e.node, e.roles>>] = e
      BY DEF Entry, Entries
    <3>2. QED
      BY <3>1
  <2>3. QED
    BY <2>1, <2>2 DEF Surjection
<1>4. QED
  <2> HIDE DEF f, P
  <2> QED
    BY ONLY <1>2, <1>3, FS_Surjection

(* The candidates are finitely many, as many as there are nodes in scope or *)
(* more, and more only where a node comes once per relationship.            *)
LEMMA CandidatesCounted ==
    ASSUME NEW graph, NEW n, NEW scope \in Scopes, NEW C, ReadRightly(graph, n, scope, C)
    PROVE  /\ IsFiniteSet(C)
           /\ Cardinality(C) >= Cardinality(InScope(graph, n, scope))
           /\ OncePerNode(C) => Cardinality(C) = Cardinality(InScope(graph, n, scope))
<1> DEFINE N == InScope(graph, n, scope)
           f == [e \in C |-> e.node]
<1>1. IsFiniteSet(C)
  BY EntriesFinite, FS_Subset DEF ReadRightly
<1>2. f \in Surjection(C, N)
  BY DEF ReadRightly, Surjection
<1>3. OncePerNode(C) => f \in Injection(C, N)
  BY <1>2 DEF OncePerNode, Injection, IsInjective, Surjection
<1>4. /\ IsFiniteSet(N)
      /\ Cardinality(N) <= Cardinality(C)
      /\ Cardinality(N) = Cardinality(C) <=> f \in Injection(C, N)
  <2> HIDE DEF f, N
  <2> QED
    BY ONLY <1>1, <1>2, FS_Surjection
<1>5. Cardinality(N) \in Nat /\ Cardinality(C) \in Nat
  BY <1>1, <1>4, FS_CardinalityType
<1>6. QED
  BY <1>1, <1>3, <1>4, <1>5
=============================================================================
