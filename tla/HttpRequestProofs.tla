-------------------------- MODULE HttpRequestProofs --------------------------
(***************************************************************************)
(* For any request, with or without metrics, whatever the use case comes to   *)
(* and wherever the handler panics: the answer tells the effect, the request  *)
(* is counted as it is answered, and one id stands for it everywhere.         *)
(***************************************************************************)
EXTENDS HttpRequest, TLAPS

-----------------------------------------------------------------------------
(* The inductive invariant: what is settled at each stage. *)

\* The one id of an observed request.
RequestID == IF req.sent = "v7" THEN Sent("v7") ELSE Generated(1)

\* Nothing has happened to a request that has just arrived.
ArrivedInv ==
    stage = "arrived" =>
        /\ ctx = NoID /\ header = NoID /\ generated = 0
        /\ lineIDs = {} /\ eventIDs = {}

\* The middleware gives an observed request its id, and the others none; nothing
\* is logged with the context of a request that has no id in it.
IDInv ==
    stage # "arrived" =>
        /\ ~Observed => header = NoID /\ lineIDs = {} /\ eventIDs = {}
        /\ Observed => ctx = RequestID /\ header = RequestID
        /\ lineIDs \subseteq {header} /\ eventIDs \subseteq {header}

\* The span of an observed request is open until its end, and nothing is
\* recorded before.
SpanInv ==
    stage # "done" =>
        /\ span = IF stage = "arrived" \/ ~Observed THEN "none" ELSE "open"
        /\ records = <<>>
        /\ client = 0

\* Until the handler answers, nothing is written and no panic is under way; until
\* the use case runs, nothing is done.
BeforeAnswerInv ==
    /\ stage \in {"arrived", "handling", "answering"} => bodies = 0 /\ panicking = FALSE
    /\ stage \in {"arrived", "handling"} => effect = FALSE
    /\ stage = "answering" => Routed /\ outcome \in Outcomes(req.op) /\ effect \in Effects(req.op, outcome)

\* An event is of a cancel whose use case succeeded.
EventInv ==
    /\ stage \in {"arrived", "handling"} => eventIDs = {}
    /\ eventIDs # {} => Routed /\ req.op = "cancel" /\ outcome = "ok"

\* The status a handler leaves behind tells what it did.  Only a handler panics.
LeavingInv ==
    stage = "leaving" =>
        /\ bodies <= 1
        /\ panicking = TRUE => status = 500 /\ Routed
        /\ Routed /\ status \in {200, 201, 204} => outcome = "ok"
        /\ eventIDs # {} => status = 204 \/ panicking = TRUE
        /\ status \in {400, 404} => effect = FALSE

\* What the properties say of a request that is done.
DoneInv == AnswerTellsEffect /\ CountedAsAnswered

Inv ==
    /\ TypeOK /\ ArrivedInv /\ IDInv /\ SpanInv /\ BeforeAnswerInv /\ EventInv /\ LeavingInv
    /\ DoneInv

-----------------------------------------------------------------------------
(* Ids. *)

\* An id sent, an id generated and the absence of one differ.
LEMMA IDsDiffer ==
    /\ \A h \in Headers : Sent(h) # NoID
    /\ \A n \in Nat : Generated(n) # NoID
    /\ \A h \in Headers, n \in Nat : Sent(h) # Generated(n)
    /\ \A h \in Headers : Sent(h) = Sent("v7") => h = "v7"
BY DEF Sent, Generated, NoID, Headers

\* The id of an observed request is one of the type's, and is an id.
LEMMA RequestIDIsAnID ==
    RequestID \in IDs /\ RequestID # NoID
<1>1. Generated(1) \in IDs /\ Sent("v7") \in IDs
  BY DEF IDs
<1>. QED
  BY <1>1, IDsDiffer DEF RequestID, Headers

\* The fields of a request.
LEMMA Requests ==
    ASSUME NEW r \in AllRequests
    PROVE  /\ r.path \in {"route", "ping", "health", "slash", "unrouted"}
           /\ r.sent \in Headers
           /\ r.op \in Ops \cup {"none"}
           /\ r.path = "route" => r.op \in Ops
BY DEF AllRequests

-----------------------------------------------------------------------------
(* The invariant holds at first and is kept. *)

LEMMA InitInv == Init => Inv
<1>. SUFFICES ASSUME Init PROVE Inv
  OBVIOUS
<1>1. TypeOK
  <2>1. NoID \in IDs
    BY DEF IDs
  <2>2. <<>> \in Seq([label : {"template", "raw"}, status : Nat])
    OBVIOUS
  <2>3. effect \in BOOLEAN /\ panicking \in BOOLEAN /\ metered \in BOOLEAN
    BY DEF Init
  <2>. QED
    BY <2>1, <2>2, <2>3 DEF Init, TypeOK
<1>2. ArrivedInv /\ IDInv /\ SpanInv /\ BeforeAnswerInv /\ EventInv /\ LeavingInv
  BY DEF Init, ArrivedInv, IDInv, SpanInv, BeforeAnswerInv, EventInv, LeavingInv
<1>3. DoneInv
  BY DEF Init, DoneInv, AnswerTellsEffect, CountedAsAnswered
<1>. QED
  BY <1>1, <1>2, <1>3 DEF Inv

\* A redirection passes no middleware: no id, no span, no record.
LEMMA RedirectInv == Inv /\ Redirect => Inv'
<1>. SUFFICES ASSUME Inv, Redirect PROVE Inv'
  OBVIOUS
<1>. USE DEF Redirect, Answer, idVars, seenVars
<1>1. ~Observed /\ ~Routed
  BY DEF Observed, Routed
<1>2. bodies = 0 /\ panicking = FALSE /\ effect = FALSE /\ span = "none" /\ records = <<>>
      /\ lineIDs = {} /\ eventIDs = {} /\ header = NoID
  BY DEF Inv, ArrivedInv, SpanInv, BeforeAnswerInv
<1>3. status' \in {301, 307} /\ bodies' \in {0, 1} /\ client' \in {0, 301, 307}
  BY <1>2
<1>4. TypeOK'
  BY <1>3 DEF Inv, TypeOK
<1>5. ArrivedInv' /\ IDInv'
  BY <1>1, <1>2 DEF ArrivedInv, IDInv, Observed
<1>6. SpanInv' /\ BeforeAnswerInv' /\ EventInv' /\ LeavingInv'
  BY <1>2 DEF SpanInv, BeforeAnswerInv, EventInv, LeavingInv
<1>7. AnswerTellsEffect'
  BY <1>2, <1>3 DEF AnswerTellsEffect
<1>8. CountedAsAnswered'
  BY <1>1, <1>2 DEF CountedAsAnswered, Observed
<1>. QED
  BY <1>4, <1>5, <1>6, <1>7, <1>8 DEF Inv, DoneInv

\* Before c.Next(): a request that is not observed goes straight to its handler.
LEMMA BypassInv == Inv /\ Bypass => Inv'
<1>. SUFFICES ASSUME Inv, Bypass PROVE Inv'
  OBVIOUS
<1>. USE DEF Bypass, idVars, answerVars, seenVars, endVars
<1>1. TypeOK'
  BY DEF Inv, TypeOK
<1>2. ArrivedInv' /\ IDInv'
  BY DEF Inv, ArrivedInv, IDInv, Skipped, Observed
<1>3. SpanInv' /\ BeforeAnswerInv' /\ EventInv' /\ LeavingInv'
  BY DEF Inv, SpanInv, BeforeAnswerInv, EventInv, LeavingInv, Skipped, Observed, Routed
<1>4. DoneInv'
  BY DEF DoneInv, AnswerTellsEffect, CountedAsAnswered
<1>. QED
  BY <1>1, <1>2, <1>3, <1>4 DEF Inv

\* An observed one takes its id, the client's or the first that is generated.
LEMMA EnterInv == Inv /\ Enter => Inv'
<1>. SUFFICES ASSUME Inv, Enter PROVE Inv'
  OBVIOUS
<1>. USE DEF Enter, answerVars, seenVars, endVars
<1>1. req \in AllRequests /\ generated = 0 /\ lineIDs = {} /\ eventIDs = {}
  BY DEF Inv, TypeOK, ArrivedInv
<1>2. req.sent \in Headers
  BY <1>1, Requests
<1>3. ctx' = RequestID /\ header' = RequestID
  BY <1>1 DEF ExtractedID, RequestID
<1>4. generated' \in 0..1
  BY <1>1
<1>5. TypeOK'
  <2>1. ctx' \in IDs /\ header' \in IDs
    BY <1>3, RequestIDIsAnID
  <2>. QED
    BY <1>4, <2>1 DEF Inv, TypeOK
<1>6. ArrivedInv' /\ IDInv'
  BY <1>1, <1>3 DEF ArrivedInv, IDInv, RequestID, Observed
<1>7. SpanInv' /\ BeforeAnswerInv' /\ EventInv' /\ LeavingInv'
  BY DEF Inv, SpanInv, BeforeAnswerInv, EventInv, LeavingInv, Observed, Routed
<1>8. DoneInv'
  BY DEF DoneInv, AnswerTellsEffect, CountedAsAnswered
<1>. QED
  BY <1>5, <1>6, <1>7, <1>8 DEF Inv

\* A line or an event of a handler carries the request's id.
LEMMA ContextIDIsRequestID ==
    ASSUME IDInv, stage # "arrived", Observed
    PROVE  ContextID = RequestID /\ header = RequestID
BY RequestIDIsAnID DEF IDInv, ContextID

\* What a routed request's handler leaves as it finds it.
LEMMA HandlerIDs ==
    ASSUME Inv, Routed, stage # "arrived", stage' # "arrived", Logged,
           UNCHANGED <<req, idVars>>,
           eventIDs' \subseteq eventIDs \cup {ContextID}
    PROVE  /\ ArrivedInv' /\ IDInv'
           /\ lineIDs' \subseteq IDs /\ eventIDs' \subseteq IDs
<1>1. Observed /\ Observed'
  BY DEF Routed, Observed
<1>2. ContextID = RequestID /\ header = RequestID /\ ctx = RequestID
  BY <1>1, ContextIDIsRequestID DEF Inv, IDInv
<1>3. RequestID' = RequestID /\ header' = header /\ ctx' = ctx
  BY DEF RequestID, idVars
<1>4. lineIDs' \subseteq {header} /\ eventIDs' \subseteq {header}
  BY <1>1, <1>2 DEF Inv, IDInv, Logged
<1>5. IDInv'
  BY <1>1, <1>2, <1>3, <1>4 DEF IDInv
<1>6. ArrivedInv'
  BY DEF ArrivedInv
<1>. QED
  BY <1>2, <1>4, <1>5, <1>6, RequestIDIsAnID

\* gin's answer to a path without a handler.
LEMMA UnobservedInv == Inv /\ Unobserved => Inv'
<1>. SUFFICES ASSUME Inv, Unobserved PROVE Inv'
  OBVIOUS
<1>. USE DEF Unobserved, Answer, idVars, seenVars, endVars
<1>1. TypeOK'
  BY DEF Inv, TypeOK
<1>2. ArrivedInv' /\ IDInv'
  BY DEF Inv, ArrivedInv, IDInv, Observed, RequestID
<1>3. SpanInv' /\ BeforeAnswerInv' /\ EventInv'
  BY DEF Inv, SpanInv, BeforeAnswerInv, EventInv, Observed, Routed
<1>4. LeavingInv'
  BY DEF Inv, TypeOK, LeavingInv, BeforeAnswerInv, EventInv, Routed
<1>5. DoneInv'
  BY DEF DoneInv, AnswerTellsEffect, CountedAsAnswered
<1>. QED
  BY <1>1, <1>2, <1>3, <1>4, <1>5 DEF Inv

\* A refusal: 400, or a bare 500, and nothing done.
LEMMA RefuseInv == Inv /\ Refuse => Inv'
<1>. SUFFICES ASSUME Inv, Refuse PROVE Inv'
  OBVIOUS
<1>. USE DEF Refuse, AnswerMarshalled, Answer, endVars
<1>1. /\ ArrivedInv' /\ IDInv'
      /\ lineIDs' \subseteq IDs /\ eventIDs' \subseteq IDs
  BY HandlerIDs
<1>2. bodies = 0 /\ panicking = FALSE /\ effect = FALSE /\ eventIDs = {}
  BY DEF Inv, BeforeAnswerInv, EventInv
<1>3. TypeOK'
  BY <1>1, <1>2 DEF Inv, TypeOK, idVars
<1>4. SpanInv' /\ BeforeAnswerInv' /\ EventInv'
  BY DEF Inv, SpanInv, BeforeAnswerInv, EventInv, Observed, Routed
<1>5. LeavingInv'
  BY <1>2 DEF LeavingInv, Routed
<1>6. DoneInv'
  BY DEF DoneInv, AnswerTellsEffect, CountedAsAnswered
<1>. QED
  BY <1>1, <1>3, <1>4, <1>5, <1>6 DEF Inv

\* The use case, with what it returned and did.
LEMMA UseCaseInv == Inv /\ UseCase => Inv'
<1>. SUFFICES ASSUME Inv, UseCase PROVE Inv'
  OBVIOUS
<1>. USE DEF UseCase, answerVars, endVars
<1>1. /\ ArrivedInv' /\ IDInv'
      /\ lineIDs' \subseteq IDs /\ eventIDs' \subseteq IDs
  BY HandlerIDs
<1>2. bodies = 0 /\ panicking = FALSE
  BY DEF Inv, BeforeAnswerInv
<1>3. outcome' \in {"ok", "internal", "validation", "not_found"} /\ effect' \in BOOLEAN
  BY DEF Outcomes, Effects
<1>4. TypeOK'
  BY <1>1, <1>3 DEF Inv, TypeOK, idVars
<1>5. SpanInv' /\ EventInv'
  BY DEF Inv, SpanInv, EventInv, Observed, Routed
<1>6. BeforeAnswerInv'
  BY <1>2 DEF BeforeAnswerInv, Routed
<1>7. LeavingInv' /\ DoneInv'
  BY DEF LeavingInv, DoneInv, AnswerTellsEffect, CountedAsAnswered
<1>. QED
  BY <1>1, <1>4, <1>5, <1>6, <1>7 DEF Inv

\* 2xx after "ok"; after an event only 204, which has no body to fail.
LEMMA SucceedInv == Inv /\ Succeed => Inv'
<1>. SUFFICES ASSUME Inv, Succeed PROVE Inv'
  OBVIOUS
<1>. USE DEF Succeed, AnswerMarshalled, Answer, SuccessStatus, endVars
<1>1. /\ Routed /\ bodies = 0 /\ panicking = FALSE /\ outcome = "ok"
      /\ eventIDs # {} => req.op = "cancel"
  BY DEF Inv, BeforeAnswerInv, EventInv
<1>2. /\ ArrivedInv' /\ IDInv'
      /\ lineIDs' \subseteq IDs /\ eventIDs' \subseteq IDs
  BY <1>1, HandlerIDs
<1>3. /\ status' \in {200, 201, 204, 500} /\ bodies' \in {0, 1}
      /\ req.op = "cancel" => status' = 204
  BY <1>1
<1>4. TypeOK'
  BY <1>2, <1>3 DEF Inv, TypeOK, idVars
<1>5. SpanInv' /\ BeforeAnswerInv' /\ EventInv'
  BY DEF Inv, SpanInv, BeforeAnswerInv, EventInv, Observed, Routed
<1>6. LeavingInv'
  BY <1>1, <1>3 DEF LeavingInv
<1>7. DoneInv'
  BY DEF DoneInv, AnswerTellsEffect, CountedAsAnswered
<1>. QED
  BY <1>2, <1>4, <1>5, <1>6, <1>7 DEF Inv

\* handleError: 400 and 404 only after an error that comes before any effect.
LEMMA HandleErrorInv == Inv /\ HandleError => Inv'
<1>. SUFFICES ASSUME Inv, HandleError PROVE Inv'
  OBVIOUS
<1>. USE DEF HandleError, AnswerMarshalled, Answer, endVars, seenVars
<1>1. Routed /\ bodies = 0 /\ panicking = FALSE /\ eventIDs = {}
  BY DEF Inv, BeforeAnswerInv, EventInv
<1>2. status' \in {400, 404, 500} /\ bodies' \in {0, 1}
  BY <1>1 DEF ErrorStatus
<1>3. status' \in {400, 404} => effect = FALSE
  <2>1. status' \in {400, 404} => outcome \in {"validation", "not_found"}
    BY DEF ErrorStatus
  <2>2. outcome \in {"validation", "not_found"} => Effects(req.op, outcome) = {FALSE}
    BY DEF Effects
  <2>3. effect \in Effects(req.op, outcome)
    BY DEF Inv, BeforeAnswerInv
  <2>. QED
    BY <2>1, <2>2, <2>3
<1>4. TypeOK'
  BY <1>2 DEF Inv, TypeOK, idVars
<1>5. ArrivedInv' /\ IDInv'
  BY DEF Inv, ArrivedInv, IDInv, Observed, RequestID, idVars
<1>6. SpanInv' /\ BeforeAnswerInv' /\ EventInv'
  BY DEF Inv, SpanInv, BeforeAnswerInv, EventInv, Observed, Routed
<1>7. LeavingInv'
  BY <1>1, <1>2, <1>3 DEF LeavingInv
<1>8. DoneInv'
  BY DEF DoneInv, AnswerTellsEffect, CountedAsAnswered
<1>. QED
  BY <1>4, <1>5, <1>6, <1>7, <1>8 DEF Inv

\* A panic leaves 500 behind, so that nothing is told about the effect.
LEMMA PanicInv == Inv /\ Panic => Inv'
<1>. SUFFICES ASSUME Inv, Panic PROVE Inv'
  OBVIOUS
<1>. USE DEF Panic, Answer, endVars
<1>1. /\ ArrivedInv' /\ IDInv'
      /\ lineIDs' \subseteq IDs /\ eventIDs' \subseteq IDs
  BY HandlerIDs
<1>2. bodies = 0 /\ bodies' = 0 /\ status' = 500
  BY DEF Inv, BeforeAnswerInv
<1>3. effect' \in BOOLEAN
  BY DEF Inv, TypeOK, Effects
<1>4. TypeOK'
  BY <1>1, <1>2, <1>3 DEF Inv, TypeOK, idVars
<1>5. SpanInv' /\ BeforeAnswerInv' /\ EventInv'
  BY DEF Inv, SpanInv, BeforeAnswerInv, EventInv, Observed, Routed
<1>6. LeavingInv'
  BY <1>2 DEF LeavingInv, Routed
<1>7. DoneInv'
  BY DEF DoneInv, AnswerTellsEffect, CountedAsAnswered
<1>. QED
  BY <1>1, <1>4, <1>5, <1>6, <1>7 DEF Inv

\* After c.Next(): the metrics take the status the client is sent.
LEMMA LeaveInv == Inv /\ Leave => Inv'
<1>. SUFFICES ASSUME Inv, Leave PROVE Inv'
  OBVIOUS
<1>. USE DEF Leave, SpanEnd, answerVars, idVars
<1>1. /\ req \in AllRequests /\ metered \in BOOLEAN /\ records = <<>>
      /\ status \in {200, 201, 204, 301, 307, 400, 404, 500}
  BY DEF Inv, TypeOK, SpanInv
<1>2. records' = IF ~Observed \/ metered = FALSE THEN <<>> ELSE <<[label |-> Label, status |-> status]>>
  BY <1>1 DEF Recorded
<1>3. Label \in {"template", "raw"}
  BY DEF Label
<1>4. records' \in Seq([label : {"template", "raw"}, status : Nat])
  <2>. DEFINE r == [label |-> Label, status |-> status]
  <2>1. r \in [label : {"template", "raw"}, status : Nat]
    BY <1>1, <1>3
  <2>. HIDE DEF r
  <2>2. <<r>> \in Seq([label : {"template", "raw"}, status : Nat])
    BY <2>1
  <2>3. <<>> \in Seq([label : {"template", "raw"}, status : Nat])
    OBVIOUS
  <2>4. records' = <<>> \/ records' = <<r>>
    BY <1>2 DEF r
  <2>. QED
    BY <2>2, <2>3, <2>4
<1>5. ArrivedInv' /\ IDInv' /\ lineIDs' \subseteq IDs
  <2>1. CASE ~Observed
    BY <2>1 DEF Inv, TypeOK, ArrivedInv, IDInv, Observed, RequestID
  <2>2. CASE Observed
    <3>1. ContextID = RequestID /\ header = RequestID /\ ctx = RequestID
      BY <2>2, ContextIDIsRequestID DEF Inv, IDInv
    <3>2. lineIDs' \subseteq {header} /\ eventIDs' \subseteq {header}
      BY <2>2, <3>1 DEF Inv, IDInv, Logged
    <3>3. RequestID' = RequestID /\ (Observed' <=> Observed)
      BY DEF RequestID, Observed
    <3>. QED
      BY <2>2, <3>1, <3>2, <3>3, RequestIDIsAnID DEF ArrivedInv, IDInv
  <2>. QED
    BY <2>1, <2>2
<1>6. client' \in {0, status}
  OBVIOUS
<1>7. TypeOK'
  <2>1. client' \in Nat
    BY <1>1, <1>6
  <2>. QED
    BY <1>4, <1>5, <2>1 DEF Inv, TypeOK
<1>8. SpanInv' /\ BeforeAnswerInv' /\ EventInv' /\ LeavingInv'
  BY DEF Inv, SpanInv, BeforeAnswerInv, EventInv, LeavingInv, Routed
<1>9. AnswerTellsEffect'
  BY <1>1, <1>6 DEF Inv, LeavingInv, AnswerTellsEffect, Routed
<1>10. CountedAsAnswered'
  <2>1. span' # "open" /\ panicking' = FALSE /\ (Observed' <=> Observed) /\ (Routed' <=> Routed)
    BY DEF Inv, TypeOK, Observed, Routed
  <2>2. CASE ~Observed \/ metered = FALSE
    BY <1>1, <1>2, <2>1, <2>2 DEF CountedAsAnswered
  <2>3. CASE Observed /\ metered = TRUE
    <3>1. Len(records') = 1 /\ records'[1] = [label |-> Label, status |-> status]
      BY <1>2, <2>3
    <3>2. records'[1].status = status /\ (Routed => records'[1].label = "template")
      BY <3>1 DEF Label
    <3>. QED
      BY <1>6, <2>1, <2>3, <3>1, <3>2 DEF CountedAsAnswered
  <2>. QED
    BY <1>1, <2>2, <2>3
<1>. QED
  BY <1>5, <1>7, <1>8, <1>9, <1>10 DEF Inv, DoneInv

\* A panic on its way through the middlewares: only what was deferred is done.
LEMMA UnwindInv == Inv /\ Unwind => Inv'
<1>. SUFFICES ASSUME Inv, Unwind PROVE Inv'
  OBVIOUS
<1>. USE DEF Unwind, SpanEnd, answerVars, seenVars, idVars
<1>1. TypeOK'
  BY DEF Inv, TypeOK
<1>2. ArrivedInv' /\ IDInv'
  BY DEF Inv, ArrivedInv, IDInv, Observed, RequestID
<1>3. SpanInv' /\ BeforeAnswerInv' /\ EventInv' /\ LeavingInv'
  BY DEF Inv, SpanInv, BeforeAnswerInv, EventInv, LeavingInv, Routed
<1>4. AnswerTellsEffect'
  BY DEF Inv, LeavingInv, AnswerTellsEffect
<1>5. CountedAsAnswered'
  BY DEF Inv, SpanInv, CountedAsAnswered
<1>. QED
  BY <1>1, <1>2, <1>3, <1>4, <1>5 DEF Inv, DoneInv

LEMMA StutterInv == Inv /\ UNCHANGED vars => Inv'
BY DEF Inv, vars, TypeOK, ArrivedInv, IDInv, SpanInv, BeforeAnswerInv, EventInv, LeavingInv, DoneInv,
       AnswerTellsEffect, CountedAsAnswered, Observed, Routed, RequestID

\* Every step of a request keeps the invariant.
THEOREM Invariance == Spec => []Inv
<1>1. Inv /\ [Next]_vars => Inv'
  BY RedirectInv, BypassInv, EnterInv, UnobservedInv, RefuseInv, UseCaseInv, SucceedInv, HandleErrorInv,
     PanicInv, LeaveInv, UnwindInv, StutterInv DEF Next, Finished
<1>. QED
  BY <1>1, InitInv, PTL DEF Spec

-----------------------------------------------------------------------------
(* The properties. *)

\* Every variable of the middlewares keeps its type; no request has more than one
\* id generated, and no id of a client's is taken over but one of version 7.
THEOREM TypeCorrect == Spec => []TypeOK
<1>1. Inv => TypeOK
  BY DEF Inv
<1>. QED
  BY <1>1, Invariance, PTL

\* Through whichever early return, error or panic a handler leaves: at most one
\* body, 2xx only after success, 400 or 404 only with nothing changed, and no
\* error for a cancel whose event went out.
THEOREM AnswersTellEffects == Spec => []AnswerTellsEffect
<1>1. Inv => AnswerTellsEffect
  BY DEF Inv, DoneInv
<1>. QED
  BY <1>1, Invariance, PTL

\* Each observed request is counted once, as it was answered, unless its handler
\* panicked; no span stays open.
THEOREM RequestsAreCounted == Spec => []CountedAsAnswered
<1>1. Inv => CountedAsAnswered
  BY DEF Inv, DoneInv
<1>. QED
  BY <1>1, Invariance, PTL

\* The header of the answer, the lines logged with the request's context and the
\* event carry the same id, the client's own if it is of version 7.
THEOREM RequestsHaveOneID == Spec => []OneID
<1>1. Inv => OneID
  BY DEF Inv, ArrivedInv, IDInv, OneID, RequestID
<1>. QED
  BY <1>1, Invariance, PTL

=============================================================================
