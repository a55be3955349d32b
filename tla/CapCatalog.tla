----------------------------- MODULE CapCatalog -----------------------------
(***************************************************************************)
(* The public surface of the adapter: the verbs the dispatch registry      *)
(* holds, the parts of a CAP request the server's control flow looks at,   *)
(* and the checks a request passes before the upstream is consulted.       *)
(***************************************************************************)
EXTENDS Naturals

CONSTANTS Tokens,   \* the bearer tokens callers and deployments may hold
          NoToken   \* no Authorization header, or no CAP_GATEWAY_API_KEY

ASSUME NoTokenAssumption == NoToken \notin Tokens

(***************************************************************************)
(* The dispatch registry and the plain GET routes.                         *)
(***************************************************************************)
CoreVerbs ==
    {"meta.capabilities", "observe.predict", "intervene.do",
     "graph.neighbors", "graph.markov_blanket", "graph.paths"}

ConvenienceVerbs == {"traverse.parents", "traverse.children"}

ExtensionVerbs ==
    {"extensions.abel.validate_connectivity", "extensions.abel.markov_blanket",
     "extensions.abel.counterfactual_preview", "extensions.abel.intervene_time_lag"}

RegisteredVerbs == CoreVerbs \cup ConvenienceVerbs \cup ExtensionVerbs

\* GET routes: answered from settings and the catalog, never dispatched.
PlainRoutes == {"GET /", "GET /health", "GET /.well-known/cap.json"}

\* What the server answers out of its own memory.
LocalVerbs == {"meta.capabilities"} \cup PlainRoutes

UpstreamVerbs == RegisteredVerbs \ LocalVerbs

ExplainVerbs ==
    {"graph.neighbors", "graph.markov_blanket", "traverse.parents",
     "traverse.children", "extensions.abel.markov_blanket"}

(***************************************************************************)
(* The operation label each adapter hands to translate_upstream_error.     *)
(***************************************************************************)
Operation(verb) ==
    CASE verb \in ExplainVerbs                              -> "explain"
      [] verb = "observe.predict"                           -> "predict"
      [] verb \in {"intervene.do",
                   "extensions.abel.intervene_time_lag"}    -> "intervene"
      [] verb = "graph.paths"                               -> "schema.paths"
      [] verb = "extensions.abel.validate_connectivity"     -> "validate"
      [] verb = "extensions.abel.counterfactual_preview"    -> "counterfactual"
      [] OTHER                                              -> "none"

\* The adapters whose first statement is require_supported_graph_ref.
GuardsGraphRef == UpstreamVerbs \ {"extensions.abel.intervene_time_lag"}

\* The adapter that catches, and translates again, what _run_explain raised.
TranslatesTwice == {"extensions.abel.markov_blanket"}

(***************************************************************************)
(* A request, reduced to what decides its course.  wellFormed: the body    *)
(* fits the request model of its verb; timeoutMs: options.timeout_ms, 0    *)
(* also when it is absent (the code tests its truth value only); auth: the *)
(* token of the Authorization header; linear: params.model = "linear".     *)
(***************************************************************************)
Requests ==
    [verb       : RegisteredVerbs \cup PlainRoutes \cup {"graph.unknown"},
     wellFormed : BOOLEAN,
     graph      : {"absent", "supported", "unsupported"},
     timeoutMs  : Nat,
     auth       : Tokens \cup {NoToken},
     linear     : BOOLEAN]

HasDeadline(q) == q.timeoutMs # 0

\* Caller-supplied Authorization first, else the server's own key.
CredentialFor(q, key) == IF q.auth # NoToken THEN q.auth ELSE key

(***************************************************************************)
(* Replies.  A CAP success is status 200 with code "ok".  "untranslated"   *)
(* is not a CAP code: it marks an exception other than CAPAdapterError     *)
(* leaving the adapter, which the framework turns into a bare HTTP 500.    *)
(***************************************************************************)
Codes ==
    {"ok", "verb_not_supported", "invalid_request", "invalid_intervention",
     "node_not_found", "path_not_found", "computation_timeout",
     "service_unavailable", "upstream_error", "untranslated"}

Reply(status, code) == [status |-> status, code |-> code]

\* Variant: the envelope's status word put where its code belongs.
SuccessByStatusWord == Reply(200, "success")

Success      == Reply(200, "ok")
Untranslated == Reply(500, "untranslated")
NoReply      == Reply(0, "none")

Replies == [status : Nat, code : Codes]

(***************************************************************************)
(* What stops a request before anything is sent upstream: an unknown verb  *)
(* and a malformed body in the dispatcher, then the guards with which the  *)
(* adapters begin.  NoReply: nothing does.                                 *)
(***************************************************************************)
UnsupportedGraph(q) == q.graph = "unsupported" /\ q.verb \in GuardsGraphRef

NonLinear(q) == q.verb = "extensions.abel.intervene_time_lag" /\ ~q.linear

Refusal(q) ==
    IF q.verb \notin RegisteredVerbs \cup PlainRoutes
        THEN Reply(400, "verb_not_supported")
    ELSE IF ~q.wellFormed   THEN Reply(422, "invalid_request")
    ELSE IF UnsupportedGraph(q) THEN Reply(400, "invalid_request")
    ELSE IF NonLinear(q)    THEN Reply(400, "invalid_intervention")
    ELSE NoReply

Admitted(q) == Refusal(q) = NoReply

Forwarded(q) == Admitted(q) /\ q.verb \in UpstreamVerbs
=============================================================================
