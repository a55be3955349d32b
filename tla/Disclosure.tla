----------------------------- MODULE Disclosure -----------------------------
(***************************************************************************)
(* The hidden-field policy: what of an upstream body reaches a caller.  A  *)
(* body is the set of the paths of keys that lead to its scalars; a list   *)
(* adds nothing to a path.                                                 *)
(***************************************************************************)
EXTENDS Sequences, Naturals

ForbiddenFields ==
    {"weight", "tau", "conditioning_set", "p_value",
     "confidence_interval", "ci_lower", "ci_upper"}

Hidden(path) == \E i \in DOMAIN path : path[i] \in ForbiddenFields

\* Variant: only the keys of the outermost object looked at.
SanitizeOutermost(body) == {path \in body : path[1] \notin ForbiddenFields}

\* Keys dropped at every depth, with what is below them.
Sanitize(body) == {path \in body : ~Hidden(path)}

\* What _map_path takes from a path's edges and nodes.
PathFields ==
    {<<"paths", "distance">>} \cup
    {<<"paths", "edges", key>> : key \in {"from_node_id", "to_node_id", "edge_type", "tau"}} \cup
    {<<"paths", "nodes", key>> : key \in {"node_id", "display_name", "metric_type", "domain"}}

\* What the fields of the validation DTOs take of their items.
PairFields == {<<"pair_results", key>> : key \in {"node_a", "node_b", "connected"}}

\* graph.paths reads the raw body; the preview passes "intervene" on whole.
Disclosed(verb, body) ==
    IF verb = "graph.paths" THEN body \cap PathFields
    ELSE IF verb = "extensions.abel.counterfactual_preview"
        THEN {path \in Sanitize(body) : path[1] = "intervene"}
    ELSE IF verb = "extensions.abel.validate_connectivity" THEN Sanitize(body) \cap PairFields
    ELSE {}

\* docs/api-reference.md: path edges include tau when available.
Documented == {<<"graph.paths", <<"paths", "edges", "tau">>>>}
=============================================================================
