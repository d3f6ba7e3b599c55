----------------------------- MODULE HttpRequest -----------------------------
(***************************************************************************)
(* One HTTP request on its way through the router: the two middlewares of    *)
(* internal/observability/middleware around a handler of                     *)
(* internal/infra/handler, with the request id, the span, the metrics, the    *)
(* event a cancel publishes and the answer.  What the use case does with the  *)
(* table is RemindService; here it only has an outcome, and changed the table *)
(* or not.  Any handler may panic; the panic passes through both middlewares, *)
(* and net/http recovers it and drops the connection.                         *)
(*                                                                         *)
(* Not covered: the lines that use cases and repository log without the       *)
(* context of the request (logging.Handler gives each an id of its own), and  *)
(* the trace that ExtractFromHTTPRequest and InjectToMap hand on beside the   *)
(* request id.                                                               *)
(***************************************************************************)
EXTENDS Naturals, Sequences

Ops == {"create", "range", "throttle", "delete", "cancel"}

\* What the header x-request-id of the request holds: nothing, a UUID of version
\* 7, or anything else.
Headers == {"none", "v7", "other"}

\* No request id, the one the client sent, the n-th that was generated.
NoID == <<>>
Sent(h) == <<"sent", h>>
Generated(n) == <<"generated", n>>

\* "ping" is a route outside the observed ones, "health" stands for the skipped
\* paths that have no route, "slash" for a route's path with a slash too many,
\* "unrouted" for any other path that has none.
AllRequests ==
    [path : {"route"}, op : Ops, sent : Headers]
        \cup [path : {"ping", "health", "slash", "unrouted"}, op : {"none"}, sent : Headers]

VARIABLES
    req,        \* the request
    metered,    \* setupRouter got its HTTPMetrics
    stage,      \* "arrived", "handling", "answering", "leaving" or "done"
    ctx,        \* the request id in c.Request.Context()
    header,     \* the header x-request-id of the response
    generated,  \* how many ids generateRequestID made for this request
    span,       \* "none", "open" or "ended"
    outcome,    \* what the use case returned
    effect,     \* the request changed the table
    status,     \* c.Writer.Status()
    bodies,     \* bodies written
    panicking,  \* a panic is on its way up
    lineIDs,    \* the ids of the lines logged with the request's context
    eventIDs,   \* the x-request-id of the event's metadata
    records,    \* what HTTPMetrics recorded
    client      \* the status the client gets, 0 for none

vars == <<req, metered, stage, ctx, header, generated, span, outcome, effect, status, bodies,
          panicking, lineIDs, eventIDs, records, client>>

idVars == <<ctx, header, generated>>
answerVars == <<status, bodies>>
seenVars == <<lineIDs, eventIDs>>
endVars == <<span, records, client>>

Skipped == req.path \in {"ping", "health"}

Routed == req.path = "route"

\* What the middleware sees and does not skip.
Observed == req.path \in {"route", "unrouted"}

Init ==
    /\ req \in AllRequests
    /\ metered \in BOOLEAN
    /\ stage = "arrived"
    /\ ctx = NoID /\ header = NoID /\ generated = 0
    /\ span = "none"
    /\ outcome = "none"
    /\ effect = FALSE
    /\ status = 200 /\ bodies = 0
    /\ panicking = FALSE
    /\ lineIDs = {} /\ eventIDs = {}
    /\ records = <<>>
    /\ client = 0

Answer(code, count) ==
    /\ status' = code
    /\ bodies' = bodies + count

-----------------------------------------------------------------------------
(* The router, and middleware Gin before c.Next(). *)

\* Mutant: any id the client sends is taken over.
ExtractedAnyID(h) == IF h = "none" THEN Generated(generated + 1) ELSE Sent(h)

\* ValidateAndExtractRequestID.
ExtractedID(h) == IF h = "v7" THEN Sent(h) ELSE Generated(generated + 1)

Bypass ==
    /\ stage = "arrived" /\ Skipped
    /\ stage' = "handling"
    /\ UNCHANGED <<req, metered, idVars, outcome, effect, answerVars, panicking, seenVars, endVars>>

\* Mutant: c.Request keeps its context.
EnterKeepingContext ==
    /\ stage = "arrived" /\ Observed
    /\ header' = ExtractedID(req.sent)
    /\ generated' = IF header' = Sent(req.sent) THEN generated ELSE generated + 1
    /\ span' = "open"
    /\ stage' = "handling"
    /\ UNCHANGED <<req, metered, ctx, outcome, effect, answerVars, panicking, seenVars, records, client>>

Enter ==
    /\ stage = "arrived" /\ Observed
    /\ ctx' = ExtractedID(req.sent)
    /\ header' = ctx'
    /\ generated' = IF ctx' = Sent(req.sent) THEN generated ELSE generated + 1
    /\ span' = "open"
    /\ stage' = "handling"
    /\ UNCHANGED <<req, metered, outcome, effect, answerVars, panicking, seenVars, records, client>>

\* gin answers a path with a slash too many by itself, before any middleware:
\* 301 with a body to a GET, 307 without to other methods.
Redirect ==
    /\ stage = "arrived" /\ req.path = "slash"
    /\ Answer(301, 1) \/ Answer(307, 0)
    /\ client' \in {status', 0}
    /\ stage' = "done"
    /\ UNCHANGED <<req, metered, idVars, outcome, effect, panicking, seenVars, span, records>>

\* The id logging.Handler and the publisher find in the context, or make up.
ContextID == IF ctx # NoID THEN ctx ELSE Generated(generated + 1)

Logged == lineIDs' = lineIDs \cup {ContextID}

-----------------------------------------------------------------------------
(* The handler. *)

\* A message that cannot be marshalled leaves a bare 500 (none is known).
AnswerMarshalled(code) == Answer(code, 1) \/ Answer(500, 0)

\* gin's own answer where there is no route, and the one of /ping.
Unobserved ==
    /\ stage = "handling" /\ ~Routed
    /\ Answer(IF req.path = "ping" THEN 200 ELSE 404, 1)
    /\ stage' = "leaving"
    /\ UNCHANGED <<req, metered, idVars, outcome, effect, panicking, seenVars, endVars>>

\* Mutant: a return is missing after the refusal.
RefuseAndGoOn ==
    /\ stage = "handling" /\ Routed /\ req.op # "delete" /\ bodies = 0
    /\ AnswerMarshalled(400)
    /\ Logged
    /\ UNCHANGED <<req, metered, stage, idVars, outcome, effect, panicking, eventIDs, endVars>>

\* The body cannot be read, parsed or validated, or the query not bound; a
\* delete has neither.
Refuse ==
    /\ stage = "handling" /\ Routed /\ req.op # "delete"
    /\ AnswerMarshalled(400)
    /\ Logged
    /\ stage' = "leaving"
    /\ UNCHANGED <<req, metered, idVars, outcome, effect, panicking, eventIDs, endVars>>

\* The error kinds of each use case: the binding of a range leaves it nothing to
\* refuse, and only a throttling looks for a remind that must be there.
Outcomes(op) ==
    {"ok", "internal"}
        \cup (IF op # "range" THEN {"validation"} ELSE {})
        \cup (IF op = "throttle" THEN {"not_found"} ELSE {})

\* A query changes nothing, and nor does what ends in one of these errors.
\* Success may have nothing to change: the task has its reminds, the remind is
\* throttled already or was not to be, what is to be removed is not there.  An
\* internal error may hide a statement that took effect.
Effects(op, result) ==
    IF op = "range" \/ result \in {"validation", "not_found"} THEN {FALSE} ELSE BOOLEAN

\* The use case runs; a cancel that deleted something publishes an event, and an
\* event the broker did not take changes nothing for the request.
UseCase ==
    /\ stage = "handling" /\ Routed
    /\ Logged
    /\ outcome' \in Outcomes(req.op)
    /\ effect' \in Effects(req.op, outcome')
    /\ \/ UNCHANGED eventIDs
       \/ req.op = "cancel" /\ outcome' = "ok" /\ eventIDs' = {ContextID}
    /\ stage' = "answering"
    /\ UNCHANGED <<req, metered, idVars, answerVars, panicking, endVars>>

SuccessStatus(op) == IF op = "create" THEN 201 ELSE 200

\* respondProtoReminds, respondProtoRemind, or c.Status(204).
Succeed ==
    /\ stage = "answering" /\ outcome = "ok"
    /\ IF req.op \in {"delete", "cancel"}
       THEN Answer(204, 0)
       ELSE AnswerMarshalled(SuccessStatus(req.op))
    /\ Logged
    /\ stage' = "leaving"
    /\ UNCHANGED <<req, metered, idVars, outcome, effect, panicking, eventIDs, endVars>>

ErrorStatus(kind) ==
    CASE kind = "validation" -> 400
      [] kind = "not_found"  -> 404
      [] OTHER               -> 500

HandleError ==
    /\ stage = "answering" /\ outcome # "ok"
    /\ AnswerMarshalled(ErrorStatus(outcome))
    /\ stage' = "leaving"
    /\ UNCHANGED <<req, metered, idVars, outcome, effect, panicking, seenVars, endVars>>

\* The handler or what it calls panics, before, in or after the use case;
\* PanicRecoveryGin logs it, sets 500 and panics again.
Panic ==
    /\ stage \in {"handling", "answering"} /\ Routed
    /\ effect' \in (IF stage = "handling" THEN Effects(req.op, "internal") ELSE {effect})
    /\ Logged
    /\ Answer(500, 0)
    /\ panicking' = TRUE
    /\ stage' = "leaving"
    /\ UNCHANGED <<req, metered, idVars, outcome, eventIDs, endVars>>

-----------------------------------------------------------------------------
(* Middleware Gin, after c.Next(), and net/http. *)

\* A path of the routes is recorded as its template, so that ids make no series
\* of their own; a path without a route as it is.
Label == IF Routed THEN "template" ELSE "raw"

Recorded(code) ==
    IF metered THEN Append(records, [label |-> Label, status |-> code]) ELSE records

SpanEnd == span' = IF span = "open" THEN "ended" ELSE span

\* The answer reaches the client, or the connection or the write timeout does not
\* let it.
Leave ==
    /\ stage = "leaving" /\ ~panicking
    /\ IF Observed
       THEN records' = Recorded(status) /\ Logged
       ELSE UNCHANGED <<records, lineIDs>>
    /\ SpanEnd
    /\ client' \in {status, 0}
    /\ stage' = "done"
    /\ UNCHANGED <<req, metered, idVars, outcome, effect, answerVars, panicking, eventIDs>>

\* Mutant: span.End() after the handler instead of deferred.
UnwindLeavingSpan ==
    /\ stage = "leaving" /\ panicking
    /\ client' = 0
    /\ stage' = "done"
    /\ UNCHANGED <<req, metered, idVars, outcome, effect, answerVars, panicking, seenVars, span, records>>

\* A panic skips what follows c.Next(), except what was deferred.
Unwind ==
    /\ stage = "leaving" /\ panicking
    /\ SpanEnd
    /\ client' = 0
    /\ stage' = "done"
    /\ UNCHANGED <<req, metered, idVars, outcome, effect, answerVars, panicking, seenVars, records>>

Finished == stage = "done" /\ UNCHANGED vars

Next ==
    \/ Redirect \/ Bypass \/ Enter
    \/ Unobserved \/ Refuse \/ UseCase \/ Succeed \/ HandleError \/ Panic
    \/ Leave \/ Unwind
    \/ Finished

Spec == Init /\ [][Next]_vars

-----------------------------------------------------------------------------
(* Properties. *)

IDs == {NoID, Sent("v7"), Generated(1)}

\* The type invariant: every variable has its type; an id of the client's is of
\* version 7, and no request has two generated for it.
TypeOK ==
    /\ req \in AllRequests /\ metered \in BOOLEAN
    /\ stage \in {"arrived", "handling", "answering", "leaving", "done"}
    /\ ctx \in IDs /\ header \in IDs /\ generated \in 0..1
    /\ span \in {"none", "open", "ended"}
    /\ outcome \in {"none", "ok", "internal", "validation", "not_found"}
    /\ effect \in BOOLEAN /\ panicking \in BOOLEAN
    /\ status \in {200, 201, 204, 301, 307, 400, 404, 500}
    /\ bodies \in Nat
    /\ lineIDs \subseteq IDs /\ eventIDs \subseteq IDs
    /\ records \in Seq([label : {"template", "raw"}, status : Nat])
    /\ client \in Nat

\* A client is told 2xx only after its use case came to success, and 400 or 404
\* only if it changed nothing; whose event went out is not told of an error; and
\* nobody is answered twice: the many early returns of the handlers, and the use
\* case's errors as handleError maps them.  (What success means for the table
\* is said of the use cases themselves, in RemindService.)
AnswerTellsEffect ==
    stage = "done" =>
        /\ bodies <= 1
        /\ Routed /\ client \in {200, 201, 204} => outcome = "ok"
        /\ client \in {400, 404} => ~effect
        /\ eventIDs # {} => client \in {0, 204}

\* Each request the middleware observes is counted once, under the status its
\* client is sent and not under an id, and its span ends.  One whose handler panics
\* is missing from the metrics and gets no answer, but its span ends all the same.
CountedAsAnswered ==
    stage = "done" =>
        /\ span # "open"
        /\ panicking => client = 0
        /\ IF ~Observed \/ panicking \/ ~metered
           THEN records = <<>>
           ELSE /\ Len(records) = 1 /\ client \in {0, records[1].status}
                /\ Routed => records[1].label = "template"

\* What the client is told its request's id is, what the log lines of middleware
\* and handler carry, and what the consumer of the event finds is one id: the
\* client's own if it sent one of version 7.
OneID ==
    /\ lineIDs \cup eventIDs \subseteq {header}
    /\ stage # "arrived" /\ Observed /\ req.sent = "v7" => header = Sent("v7")

=============================================================================
