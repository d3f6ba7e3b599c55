---------------------------- MODULE RemindRetries ----------------------------
(***************************************************************************)
(* Clients of RemindService that do not give up: a request answered 500, or  *)
(* never answered because its instance stopped or the answer was lost on the *)
(* way, is sent again with the same body, until an answer other than 500     *)
(* arrives.  The service keeps no memory of an attempt but the table: that   *)
(* it calls itself idempotent (the log lines "returning existing reminds",   *)
(* "remind already throttled", "remind not found for deletion") is a promise *)
(* to such clients.                                                          *)
(*                                                                         *)
(* Covered: calls that fail without effect, effects whose answer is lost on  *)
(* the way from the database, crashes, answers lost on the way to the        *)
(* client, deadlocks, MaxFailures of them in all.  Not covered: an attempt   *)
(* sent while the one before still runs; to the service it is another        *)
(* request with the same body, and RemindService has those.                  *)
(***************************************************************************)
EXTENDS RemindService

CONSTANT MaxFailures    \* bound: outside failures in a behaviour

ASSUME MaxFailuresAssumption == MaxFailures \in Nat

VARIABLE failures       \* outside failures so far

rvars == <<vars, failures>>

RInit == Init /\ failures = 0

-----------------------------------------------------------------------------
(* The service. *)

\* Bound: a request has one set of remind ids.  An attempt that would need a
\* second, because another request removed the reminds of an attempt before,
\* stops here: it would go on like the first attempt of a new request.
OutOfIDs(p) ==
    pc[p] = "NewReminds" /\ \E k \in NewIDs(p) : removedBy[k] # Null

\* A step of the service, which is a failure if it ends or loses something for
\* an outside reason.
Counted(p) ==
    /\ failures' = failures + (IF p \in faulty' \ faulty \/ pc'[p] = "crashed" THEN 1 ELSE 0)
    /\ failures' <= MaxFailures

Handle(p) == ~OutOfIDs(p) /\ Work(p) /\ Counted(p)

Break(p) == (Fail(p) \/ Crash(p)) /\ Counted(p)

-----------------------------------------------------------------------------
(* The clients. *)

Send(p) == Receive(p) /\ UNCHANGED failures

Unanswered(p) == pc[p] \in Ended /\ reply[p] \in {0, 500}

\* The next attempt: the same body, and nothing else, reaches the service.
Again(p) ==
    /\ pc' = [pc EXCEPT ![p] = FirstCall(input[p].op)]
    /\ reply' = [reply EXCEPT ![p] = 0]
    /\ Hold(p, {})
    /\ entity' = [entity EXCEPT ![p] = Null]
    /\ faulty' = faulty \ {p}
    /\ before' = [before EXCEPT ![p] = {q \in Requests : pc[q] = "replied"}]
    /\ UNCHANGED <<input, saved, table, events, removedBy>>

Resend(p) == Unanswered(p) /\ Again(p) /\ UNCHANGED failures

\* The client does not get the answer; a refused body it would not send again.
LoseAnswer(p) ==
    /\ pc[p] = "replied" /\ reply[p] \notin {400, 500}
    /\ failures < MaxFailures
    /\ failures' = failures + 1
    /\ Again(p)

\* Every client is content, or out of ids.
Content == (\A p \in Requests : pc[p] = "replied" \/ OutOfIDs(p)) /\ UNCHANGED rvars

RNext ==
    \/ \E p \in Requests : Send(p) \/ Handle(p) \/ Break(p) \/ Resend(p) \/ LoseAnswer(p)
    \/ Content

RSpec == RInit /\ [][RNext]_rvars

-----------------------------------------------------------------------------
(* Fairness. *)

\* The n-th INSERT of p's transaction goes through.
Insert(p, n) == Handle(p) /\ saved[p] < n /\ saved'[p] = n

\* Goroutines run and clients send again.  Two creations that are each other's
\* deadlock victims in turn would go on for ever: PostgreSQL wakes the INSERT
\* that waited as soon as the victim is aborted, long before the victim's client
\* has the 500 and its next attempt has come back to its own INSERT, so an INSERT
\* that can go through again and again does in the end.
RFairness ==
    \A p \in Requests :
        /\ WF_rvars(Handle(p)) /\ WF_rvars(Resend(p))
        /\ \A n \in 1..MaxTimes : SF_rvars(Insert(p, n))

RFairSpec == RSpec /\ RFairness

-----------------------------------------------------------------------------
(* Properties. *)

\* A creation that has a time twice conflicts with itself at every attempt.
RepeatsATime(p) ==
    /\ input[p] # Null /\ input[p].op = "create"
    /\ \E i, j \in DOMAIN input[p].times : i # j /\ input[p].times[i] = input[p].times[j]

\* A creation that has a token the column refuses is refused at every attempt
\* that finds no remind of its task.
Unstorable(p) == input[p] # Null /\ input[p].op = "create" /\ ~input[p].storable

\* Every client in the end has an answer other than 500 and keeps it, whatever
\* failed or got in its way before, unless it asked for one time twice or for a
\* token with a NUL character: these two requests are answered 500 for ever.
EveryRequestSettles ==
    \A p \in Requests :
        <>[](\/ pc[p] = "idle"
             \/ pc[p] = "replied" /\ reply[p] # 500
             \/ OutOfIDs(p)
             \/ RepeatsATime(p) \/ Unstorable(p))

\* The answer 201 to the last of several attempts lists every remind that any of
\* them created and that is still there: the client loses sight of none.
ClientKnowsItsReminds ==
    \A p \in Requests : reply[p] = 201 => NewIDs(p) \cap Live \subseteq ids[p]

=============================================================================
