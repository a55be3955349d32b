--------------------------- MODULE UpstreamErrors ---------------------------
(***************************************************************************)
(* How one exchange with the upstream can end, and the reply each adapter  *)
(* makes of that ending: translate_upstream_error for whatever was raised  *)
(* inside the adapter's try block, the adapter's own reading of the body   *)
(* after it.                                                               *)
(***************************************************************************)
EXTENDS CapCatalog

CONSTANT OtherStatuses  \* upstream statuses the translation has no case for

ASSUME OtherStatusesAssumption ==
    OtherStatuses \subseteq Nat \ ((200 .. 299) \cup {400, 404, 422, 503})

(***************************************************************************)
(* Endings.  raised: what the awaited client call raised ("nothing" when   *)
(* it returned a JSON value); status, detail: of an HTTPStatusError, whose *)
(* detail is "path" if it contains that word and "undecodable" if the body *)
(* it is read from is no text; body: the shape of the JSON value,          *)
(*   full       every field the adapters read is there                     *)
(*   empty      an object with none of those fields                        *)
(*   partial    the lists are there, their items lack the fields of theirs *)
(*   misshapen  not an object, or a field no conversion accepts            *)
(***************************************************************************)
Bodies == {"full", "empty", "partial", "misshapen"}

Ending(raised, status, detail, body) ==
    [raised |-> raised, status |-> status, detail |-> detail, body |-> body]

Returned(body)          == Ending("nothing", 200, "none", body)
Refused(status, detail) == Ending("HTTPStatusError", status, detail, "none")
Raised(class)           == Ending(class, 0, "none", "none")
NoEnding                == Ending("none", 0, "none", "none")

TimedOut == Raised("TimeoutException")

ErrorStatuses == {400, 404, 422, 503} \cup OtherStatuses

\* What the upstream, or the way to it, can do to a call that was sent.
UpstreamEndings ==
    {Returned(b) : b \in Bodies}
        \cup {Refused(n, "plain") : n \in ErrorStatuses}
        \cup {Refused(n, "undecodable") : n \in ErrorStatuses}
        \cup {Refused(404, "path"), Raised("TransportError"), Raised("JSONDecodeError")}

Endings == UpstreamEndings \cup {TimedOut, Raised("RuntimeError")}

(***************************************************************************)
(* The exception classes isinstance finds: in httpx a timeout is a         *)
(* transport error and both, like HTTPStatusError, are HTTPErrors.         *)
(***************************************************************************)
Classes(raised) ==
    CASE raised = "TimeoutException" -> {"TimeoutException", "HTTPError"}
      [] raised = "HTTPStatusError"  -> {"HTTPStatusError", "HTTPError"}
      [] raised = "TransportError"   -> {"HTTPError"}
      [] OTHER                       -> {}

\* Extracting the detail is the first thing the clause does.
TranslateStatus(e, operation) ==
    IF e.detail = "undecodable" THEN Untranslated
    ELSE IF e.status = 404
        THEN Reply(404, IF e.detail = "path" THEN "path_not_found" ELSE "node_not_found")
    ELSE IF e.status \in {400, 422}
        THEN Reply(e.status, IF operation \in {"intervene", "counterfactual"}
                                THEN "invalid_intervention" ELSE "invalid_request")
    ELSE IF e.status = 503 THEN Reply(503, "service_unavailable")
    ELSE Reply(e.status, "upstream_error")

\* Variant: the general class tested before the particular ones.
TranslateGeneralFirst(e, operation) ==
    IF "HTTPError" \in Classes(e.raised) THEN Reply(503, "service_unavailable")
    ELSE Reply(500, "upstream_error")

\* The clauses in the order of the source: the first class that fits decides.
Translate(e, operation) ==
    IF "TimeoutException" \in Classes(e.raised)
        THEN Reply(504, "computation_timeout")
    ELSE IF "HTTPStatusError" \in Classes(e.raised)
        THEN TranslateStatus(e, operation)
    ELSE IF "HTTPError" \in Classes(e.raised)
        THEN Reply(503, "service_unavailable")
    ELSE Reply(500, "upstream_error")

(***************************************************************************)
(* The reading of a body, after the try block: .get with a default where   *)
(* the adapter is lenient, item["..."] or a DTO's required field where it  *)
(* is not.  A value that is no object has no .get, and float(), int(),     *)
(* list() and the DTOs refuse what they cannot convert.                    *)
(***************************************************************************)
IndexesItems ==
    {"graph.neighbors", "graph.markov_blanket", "graph.paths",
     "extensions.abel.markov_blanket", "extensions.abel.validate_connectivity",
     "extensions.abel.intervene_time_lag"}

NeedsOutcome == {"intervene.do", "extensions.abel.intervene_time_lag"}

\* Variant: a missing effect read as a default instead of reported.
ReadBodyWithDefaults(verb, body) ==
    IF body = "misshapen" \/ (body = "partial" /\ verb \in IndexesItems)
        THEN Untranslated
        ELSE Success

ReadBody(verb, body) ==
    IF body = "misshapen" \/ (body = "partial" /\ verb \in IndexesItems)
        THEN Untranslated
    ELSE IF verb \in NeedsOutcome /\ body # "full"
        THEN Reply(404, "path_not_found")
    ELSE Success

\* Whatever a first translation raised is no httpx error to a second one.
Retranslate(verb, reply) ==
    IF verb \in TranslatesTwice
        THEN Translate(Raised("CAPAdapterError"), Operation(verb))
        ELSE reply

AdapterReply(verb, e) ==
    IF e.raised = "nothing"
        THEN ReadBody(verb, e.body)
        ELSE Retranslate(verb, Translate(e, Operation(verb)))

(***************************************************************************)
(* The error policy as docs/architecture.md (Error Translation) and        *)
(* docs/api-reference.md (Error Behavior) print it: the codes a failed     *)
(* exchange may be reported with.                                          *)
(***************************************************************************)
DocumentedCodes(e) ==
    CASE e.raised = "TimeoutException"                            -> {"computation_timeout"}
      [] e.raised = "HTTPStatusError" /\ e.status = 404           -> {"node_not_found", "path_not_found"}
      [] e.raised = "HTTPStatusError" /\ e.status \in {400, 422}  -> {"invalid_request", "invalid_intervention"}
      [] e.raised = "HTTPStatusError" /\ e.status = 503           -> {"service_unavailable"}
      [] e.raised = "TransportError"                              -> {"service_unavailable"}
      [] OTHER                                                    -> {"upstream_error"}
=============================================================================
