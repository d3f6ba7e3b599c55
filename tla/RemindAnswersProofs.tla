-------------------------- MODULE RemindAnswersProofs --------------------------
(***************************************************************************)
(* For any number of requests, tasks, times and connections: what a client   *)
(* may conclude from the answer it got, and what stays true of it whatever    *)
(* other requests do afterwards.                                             *)
(*                                                                         *)
(* An answer is about a moment that has passed.  The invariant keeps what     *)
(* outlasts it: the ids a request holds, that a remind once seen keeps its    *)
(* task and time and never comes back, which requests were answered before    *)
(* another arrived, and, for a creation on its way, what its look-up found.   *)
(***************************************************************************)
EXTENDS RemindServiceProofs

-----------------------------------------------------------------------------
(* The invariant. *)

\* What an answer says about the request, and when there is one.
ReplyOK(p) ==
    /\ reply[p] # 0 <=> pc[p] = "replied"
    /\ pc[p] = "idle" <=> input[p] = Null
    /\ reply[p] = 200 => input[p] \in RangeInput \cup ThrottleInput
    /\ reply[p] = 201 => input[p] \in CreateInput
    /\ reply[p] = 204 => input[p] \in DeleteInput \cup CancelInput
    /\ reply[p] = 404 => input[p] \in ThrottleInput

\* The ids a request holds: of a creation those it made up, once it has, and
\* otherwise only of reminds that were in the table.
HoldOK(p) ==
    /\ pc[p] \in {"idle", "FindByTaskID", "NewReminds"} => ids[p] = {}
    /\ pc[p] \in {"Begin", "Save", "Rollback", "Commit"} => ids[p] = NewIDs(p)
    /\ input[p] \notin CreateInput \/ reply[p] = 201 => \A k \in ids[p] : Born(k)

\* A client names ids it was shown, or ids of no remind.
KnownOK(p) ==
    input[p] \in ThrottleInput \cup DeleteInput =>
        Born(input[p].id) \/ input[p].id[1] = Earlier

\* What was answered before a request arrived stays answered.
BeforeOK(p) == \A q \in before[p] : pc[q] = "replied"

\* An INSERT went through only if the columns take what the request stores.
StorableOK(p) == saved[p] # 0 \/ pc[p] = "Commit" => input[p].storable

RequestInv ==
    \A p \in Requests : ReplyOK(p) /\ HoldOK(p) /\ KnownOK(p) /\ BeforeOK(p) /\ StorableOK(p)

\* A remind in the table is of an earlier run, or of the one request whose
\* transaction inserted it.
OriginOK(k) ==
    k \in EarlierIDs \/ \E q \in Requests :
        /\ input[q] \in CreateInput /\ ids[q] = NewIDs(q) /\ k \in NewIDs(q)
        /\ input[q].storable /\ Key(table[k]) = Key(NewRow(q, k[2]))

\* Who deleted a remind was asked to delete or to cancel.
RemoverOK(k) ==
    removedBy[k] # Null => input[removedBy[k]] \in DeleteInput \cup CancelInput

\* The reminds an answer 201 listed are of the request's task.
CreatedOK(p) ==
    reply[p] = 201 => \A k \in ids[p] \cap Live : table[k].task = input[p].task

TableInv ==
    /\ \A k \in Live : OriginOK(k)
    /\ \A k \in RemindIDs : RemoverOK(k)
    /\ \A p \in Requests : CreatedOK(p)

AnswerInv == RequestInv /\ TableInv

-----------------------------------------------------------------------------
(* What a step leaves alone. *)

\* The request's body tells which of the five methods serves it.
LEMMA Bodies ==
    ASSUME NEW b \in AllInputs
    PROVE  /\ b.op = "create"   <=> b \in CreateInput
           /\ b.op = "range"    <=> b \in RangeInput
           /\ b.op = "throttle" <=> b \in ThrottleInput
           /\ b.op = "delete"   <=> b \in DeleteInput
           /\ b.op = "cancel"   <=> b \in CancelInput
           /\ b.op \in {"create", "range", "throttle", "delete", "cancel"}
           /\ b # Null
BY NullAssumption DEF AllInputs, CreateInput, RangeInput, ThrottleInput, DeleteInput, CancelInput

LEMMA OthersKept ==
    ASSUME TypeInv, NEW p \in Requests, Step(p), NEW q \in Requests \ {p}
    PROVE  /\ Untouched(q)
           /\ reply'[q] = reply[q] /\ before'[q] = before[q]
           /\ q \in faulty' <=> q \in faulty
<1>1. reply'[q] = reply[q]
  BY DEF TypeInv, TypeOK, Step, Work, Create, Cancel, Receive, FindByTaskID, NewReminds, Begin,
         Save, Rollback, Commit, FindByTimeRange, FindByID, Update, Delete, SelectByTaskID,
         DeleteByTaskID, Publish, Fail, Crash, Goto, End, EndOrLost
<1>2. before'[q] = before[q]
  BY DEF TypeInv, TypeOK, Step, Work, Create, Cancel, Receive, FindByTaskID, NewReminds, Begin,
         Save, Rollback, Commit, FindByTimeRange, FindByID, Update, Delete, SelectByTaskID,
         DeleteByTaskID, Publish, Fail, Crash
<1>3. faulty' \in {faulty, faulty \cup {p}}
  BY DEF Step, Work, Create, Cancel, Receive, FindByTaskID, NewReminds, Begin,
         Save, Rollback, Commit, FindByTimeRange, FindByID, Update, Delete, SelectByTaskID,
         DeleteByTaskID, Publish, Fail, Crash, EndOrLost
<1>. QED
  BY <1>1, <1>2, <1>3, OthersUntouched

\* Failures and events are never taken back.
LEMMA Grows ==
    ASSUME NEW p \in Requests, Step(p)
    PROVE  faulty \subseteq faulty' /\ events \subseteq events'
BY DEF Step, Work, Create, Cancel, Receive, FindByTaskID, NewReminds, Begin,
       Save, Rollback, Commit, FindByTimeRange, FindByID, Update, Delete, SelectByTaskID,
       DeleteByTaskID, Publish, Fail, Crash, EndOrLost

\* A request that ended takes no step.
LEMMA EndedIsOver ==
    ASSUME NEW p \in Requests, Step(p)
    PROVE  pc[p] \in {"idle"} \cup Calls /\ pc[p] \notin Ended
BY DEF Step, Work, Create, Cancel, Receive, FindByTaskID, NewReminds, Begin,
       Save, Rollback, Commit, FindByTimeRange, FindByID, Update, Delete, SelectByTaskID,
       DeleteByTaskID, Publish, Fail, Crash, Calls, Ended

\* What an answered request holds, it holds for ever.
LEMMA AnsweredKept ==
    ASSUME TypeInv, NEW p \in Requests, Step(p), NEW q \in Requests, pc[q] = "replied"
    PROVE  /\ q # p /\ Untouched(q)
           /\ reply'[q] = reply[q] /\ before'[q] = before[q]
           /\ q \in faulty' <=> q \in faulty
BY EndedIsOver, OthersKept DEF Ended

\* Only its arrival gives a request a body, and what was answered before it.
LEMMA BodyKept ==
    ASSUME TypeInv, NEW p \in Requests, Step(p), NEW q \in Requests,
           ~Receive(p) \/ q # p
    PROVE  input'[q] = input[q] /\ before'[q] = before[q]
<1>1. CASE q # p
  BY <1>1, OthersKept DEF Untouched
<1>2. CASE ~Receive(p)
  BY <1>2 DEF Step, Work, Create, Cancel, FindByTaskID, NewReminds, Begin,
       Save, Rollback, Commit, FindByTimeRange, FindByID, Update, Delete, SelectByTaskID,
       DeleteByTaskID, Publish, Fail, Crash
<1>. QED
  BY <1>1, <1>2

\* A remind that is gone, or that never was and belongs to no request to come,
\* is not in the table later either.
LEMMA StaysGone ==
    ASSUME IInv, NEW p \in Requests, Step(p), NEW k \in RemindIDs,
           k \notin Live, Born(k) \/ k[1] = Earlier
    PROVE  k \notin Live'
<1>1. CASE Born(k)
  BY <1>1, TableStep DEF IInv
<1>2. CASE k[1] = Earlier
  <2>1. Live' \subseteq Live \/ Commit(p)
    <3>1. CASE QuietStep(p) \/ Update(p)
      BY <3>1, QuietTable, UpdateTable DEF IInv
    <3>2. CASE Delete(p) \/ DeleteByTaskID(p)
      <4>1. PICK S : Remove(p, S)
        BY <3>2 DEF Delete, DeleteByTaskID
      <4>. QED
        BY <4>1, RemoveTable DEF IInv
    <3>. QED
      BY <3>1, <3>2, StepCases
  <2>2. ASSUME Commit(p) PROVE k \notin Live'
    <3>1. /\ Live' = Live \cup NewIDs(p)
          /\ \A j \in NewIDs(p) : j = <<p, j[2]>>
      BY <2>2, CommitTable DEF IInv
    <3>2. k \notin NewIDs(p)
      BY <1>2, <3>1, RequestsAssumption
    <3>. QED
      BY <3>1, <3>2
  <2>. QED
    BY <2>1, <2>2
<1>. QED
  BY <1>1, <1>2

\* Reminds come into being only by a commit.
LEMMA BornStep ==
    ASSUME IInv, NEW p \in Requests, Step(p), NEW k \in RemindIDs
    PROVE  /\ Born(k) => Born(k)'
           /\ Born(k)' => Born(k) \/ (Commit(p) /\ k \in NewIDs(p))
           /\ Commit(p) /\ k \in NewIDs(p) => Born(k)'
           /\ removedBy[k] # Null => removedBy'[k] = removedBy[k]
<1>1. CASE QuietStep(p) /\ ~Commit(p)
  BY <1>1, QuietTable DEF Born
<1>2. CASE Commit(p)
  <2>1. Live' = Live \cup NewIDs(p) /\ removedBy' = removedBy
    BY <1>2, CommitTable DEF IInv, Commit
  <2>. QED
    BY <1>2, <2>1 DEF Born
<1>3. CASE Update(p)
  BY <1>3, UpdateTable DEF IInv, Update, Born, Commit
<1>4. CASE Delete(p) \/ DeleteByTaskID(p)
  <2>1. PICK S : Remove(p, S)
    BY <1>4 DEF Delete, DeleteByTaskID
  <2>2. ~Commit(p)
    BY <1>4 DEF Delete, DeleteByTaskID, Commit
  <2>. QED
    BY <2>1, <2>2, RemoveTable, NullAssumption DEF IInv, FreshInv, Born
<1>. QED
  BY <1>1, <1>2, <1>3, <1>4, StepCases

-----------------------------------------------------------------------------
(* Which step gives which answer. *)

LEMMA Replies ==
    ASSUME TypeInv, NEW p \in Requests, Step(p), reply[p] = 0
    PROVE  /\ reply'[p] # 0 <=> pc'[p] = "replied"
           /\ reply'[p] = 200 => FindByTimeRange(p) \/ Update(p)
           /\ reply'[p] = 201 => FindByTaskID(p) \/ Commit(p)
           /\ reply'[p] = 204 =>
                Delete(p) \/ SelectByTaskID(p) \/ DeleteByTaskID(p) \/ Publish(p)
           /\ reply'[p] = 404 => FindByID(p) \/ (Fail(p) /\ pc[p] = "FindByID")
           /\ reply'[p] = 500 => p \in faulty' \/ Rollback(p) \/ Update(p)
<1>. DEFINE Says(s) == End(p, s) /\ reply'[p] = s /\ pc'[p] = "replied"
            Silent == reply'[p] = 0 /\ pc'[p] # "replied"
<1>1. \A s : End(p, s) => Says(s)
  BY DEF TypeInv, TypeOK, End
<1>2. \A c \in {"idle"} \cup Calls : Goto(p, c) => Silent
  BY DEF TypeInv, TypeOK, Goto, Calls
<1>3. CASE Receive(p)
  <2>1. PICK b \in Inputs : (Accepted(b) /\ Goto(p, FirstCall(b.op))) \/ End(p, 400)
    BY <1>3 DEF Receive
  <2>2. b.op \in {"create", "range", "throttle", "delete", "cancel"}
    BY InputsAssumption, Bodies
  <2>3. FirstCall(b.op) \in Calls
    BY <2>2 DEF FirstCall, Calls
  <2>4. Says(400) \/ Silent
    BY <1>1, <1>2, <2>1, <2>3
  <2>. QED
    BY <2>4
<1>4. CASE FindByTaskID(p)
  <2>1. End(p, 201) \/ Goto(p, "NewReminds")
    BY <1>4 DEF FindByTaskID
  <2>. QED
    BY <1>1, <1>2, <1>4, <2>1 DEF Calls
<1>5. CASE NewReminds(p) \/ Begin(p) \/ Save(p)
  <2>1. \/ End(p, 400) \/ Goto(p, "Begin") \/ Goto(p, "Save")
        \/ Goto(p, "Rollback") \/ Goto(p, "Commit")
    BY <1>5 DEF NewReminds, Begin, Save
  <2>. QED
    BY <1>1, <1>2, <2>1 DEF Calls
<1>6. CASE Rollback(p)
  <2>1. End(p, 500)
    BY <1>6 DEF Rollback
  <2>. QED
    BY <1>1, <1>6, <2>1
<1>7. CASE Commit(p)
  <2>1. End(p, 201) \/ (End(p, 500) /\ p \in faulty')
    BY <1>7 DEF Commit, EndOrLost
  <2>. QED
    BY <1>1, <1>7, <2>1
<1>8. CASE FindByTimeRange(p)
  <2>1. End(p, 200)
    BY <1>8 DEF FindByTimeRange
  <2>. QED
    BY <1>1, <1>8, <2>1
<1>9. CASE FindByID(p)
  <2>1. End(p, 404) \/ Goto(p, "Update")
    BY <1>9 DEF FindByID
  <2>. QED
    BY <1>1, <1>2, <1>9, <2>1 DEF Calls
<1>10. CASE Update(p)
  <2>1. End(p, 200) \/ End(p, 500)
    BY <1>10 DEF Update, EndOrLost
  <2>. QED
    BY <1>1, <1>10, <2>1
<1>11. CASE Delete(p)
  <2>1. End(p, 204) \/ (End(p, 500) /\ p \in faulty')
    BY <1>11 DEF Delete, EndOrLost
  <2>. QED
    BY <1>1, <1>11, <2>1
<1>12. CASE Cancel(p)
  <2>1. \/ End(p, 204) \/ Goto(p, "DeleteByTaskID") \/ Goto(p, "Publish")
        \/ (End(p, 500) /\ p \in faulty')
    BY <1>12 DEF Cancel, SelectByTaskID, DeleteByTaskID, Publish
  <2>. QED
    BY <1>1, <1>2, <1>12, <2>1 DEF Calls, Cancel
<1>13. CASE Fail(p)
  <2>1. \/ Goto(p, "Rollback")
        \/ End(p, 404) /\ pc[p] = "FindByID"
        \/ End(p, 500) /\ p \in faulty'
    BY <1>13 DEF Fail
  <2>. QED
    BY <1>1, <1>2, <1>13, <2>1 DEF Calls
<1>14. CASE Crash(p)
  BY <1>14 DEF Crash, TypeInv, TypeOK
<1>. HIDE DEF Says, Silent
<1>. QED
  BY <1>3, <1>4, <1>5, <1>6, <1>7, <1>8, <1>9, <1>10, <1>11, <1>12, <1>13, <1>14
     DEF Step, Work, Create

-----------------------------------------------------------------------------
(* Requests: their bodies, answers and ids. *)

LEMMA InitRequestInv == Init => RequestInv
<1>. SUFFICES ASSUME Init, NEW p \in Requests
              PROVE  ReplyOK(p) /\ HoldOK(p) /\ KnownOK(p) /\ BeforeOK(p) /\ StorableOK(p)
  BY DEF RequestInv
<1>1. /\ input[p] = Null /\ pc[p] = "idle" /\ reply[p] = 0 /\ ids[p] = {} /\ before[p] = {}
      /\ saved[p] = 0
  BY DEF Init
<1>2. Null \notin ThrottleInput \cup DeleteInput
  BY NullAssumption DEF AllInputs
<1>. QED
  BY <1>1, <1>2 DEF ReplyOK, HoldOK, KnownOK, BeforeOK, StorableOK

\* A request that arrives holds a body one of whose ids it may know.
LEMMA Arrival ==
    ASSUME TypeInv, NEW p \in Requests, Receive(p)
    PROVE  /\ pc[p] = "idle" /\ input'[p] \in AllInputs /\ Known(input'[p])
           /\ pc'[p] \in {"FindByTaskID", "FindByTimeRange", "FindByID", "Delete",
                          "SelectByTaskID", "replied"}
           /\ reply'[p] \in {reply[p], 400}
           /\ ids' = ids /\ table' = table /\ removedBy' = removedBy /\ Live' = Live
           /\ before'[p] = {q \in Requests : pc[q] = "replied"}
<1>1. PICK b \in Inputs :
        /\ Known(b) /\ input' = [input EXCEPT ![p] = b]
        /\ before' = [before EXCEPT ![p] = {q \in Requests : pc[q] = "replied"}]
        /\ \/ Accepted(b) /\ Goto(p, FirstCall(b.op))
           \/ End(p, 400)
  BY DEF Receive
<1>2. b \in AllInputs /\ input'[p] = b
  BY <1>1, InputsAssumption DEF TypeInv, TypeOK
<1>3. /\ pc'[p] \in {FirstCall(b.op), "replied"}
      /\ reply'[p] \in {reply[p], 400}
      /\ before'[p] = {q \in Requests : pc[q] = "replied"}
  BY <1>1 DEF TypeInv, TypeOK, Goto, End
<1>4. FirstCall(b.op) \in {"FindByTaskID", "FindByTimeRange", "FindByID", "Delete",
                           "SelectByTaskID"}
  BY <1>2, Bodies DEF FirstCall
<1>5. pc[p] = "idle" /\ ids' = ids /\ table' = table /\ removedBy' = removedBy
  BY DEF Receive
<1>. QED
  BY <1>1, <1>2, <1>3, <1>4, <1>5 DEF Live

LEMMA NextReplyOK ==
    ASSUME IInv, RequestInv, NEW p \in Requests, Step(p), NEW q \in Requests
    PROVE  ReplyOK(q)'
<1>1. CASE q # p
  BY <1>1, OthersKept DEF IInv, RequestInv, ReplyOK, Untouched
<1>2. CASE q = p
  <2>1. reply[p] = 0
    BY EndedIsOver DEF RequestInv, ReplyOK, Ended
  <2>2. reply'[p] # 0 <=> pc'[p] = "replied"
    BY <2>1, Replies DEF IInv
  <2>3. CASE Receive(p)
    <3>1. reply'[p] \in {0, 400} /\ input'[p] # Null /\ pc'[p] # "idle"
      BY <2>1, <2>3, Arrival, Bodies DEF IInv
    <3>. QED
      BY <1>2, <2>2, <3>1 DEF ReplyOK
  <2>4. CASE ~Receive(p)
    <3>1. pc[p] # "idle"
      BY <2>4 DEF Step, Work, Create, Cancel, FindByTaskID, NewReminds, Begin, Save, Rollback,
         Commit, FindByTimeRange, FindByID, Update, Delete, SelectByTaskID, DeleteByTaskID,
         Publish, Fail, Crash, Calls
    <3>2. pc'[p] # "idle"
      BY <2>4 DEF IInv, TypeInv, TypeOK, Step, Work, Create, Cancel, FindByTaskID,
         NewReminds, Begin, Save, Rollback, Commit, FindByTimeRange, FindByID, Update, Delete,
         SelectByTaskID, DeleteByTaskID, Publish, Fail, Crash, Goto, End, EndOrLost
    <3>3. input'[p] = input[p]
      BY <2>4, BodyKept DEF IInv
    <3>4. /\ reply'[p] = 200 => input[p] \in RangeInput \cup ThrottleInput
          /\ reply'[p] = 201 => input[p] \in CreateInput
          /\ reply'[p] = 204 => input[p] \in DeleteInput \cup CancelInput
          /\ reply'[p] = 404 => input[p] \in ThrottleInput
      BY <2>1, Replies DEF IInv, TypeInv, BodyOK, CreateCalls, FindByTimeRange, Update,
         FindByTaskID, Commit, Delete, SelectByTaskID, DeleteByTaskID, Publish, FindByID
    <3>. QED
      BY <1>2, <2>2, <3>1, <3>2, <3>3, <3>4 DEF RequestInv, ReplyOK
  <2>. QED
    BY <2>3, <2>4
<1>. QED
  BY <1>1, <1>2

\* What each step does to the ids its request holds.
LEMMA Holds ==
    ASSUME TypeInv, NEW p \in Requests, Step(p)
    PROVE  \/ ids'[p] = ids[p]
           \/ FindByTaskID(p) /\ ids'[p] = OfTask(input[p].task) /\ reply'[p] = 201
           \/ NewReminds(p) /\ ids'[p] = NewIDs(p) /\ pc'[p] = "Begin" /\ reply'[p] = reply[p]
           \/ FindByTimeRange(p) /\ ids'[p] \subseteq Live
           \/ SelectByTaskID(p) /\ ids'[p] = OfTask(input[p].task)
           \/ Update(p) /\ ids'[p] = {input[p].id} /\ input[p].id \in Live
<1>1. CASE FindByTaskID(p)
  BY <1>1 DEF TypeInv, TypeOK, FindByTaskID, Hold, End
<1>2. CASE NewReminds(p)
  BY <1>2 DEF TypeInv, TypeOK, NewReminds, Hold, Goto
<1>3. CASE FindByTimeRange(p)
  BY <1>3 DEF TypeInv, TypeOK, FindByTimeRange, Hold
<1>4. CASE SelectByTaskID(p)
  BY <1>4 DEF TypeInv, TypeOK, SelectByTaskID, Hold
<1>5. CASE Update(p)
  BY <1>5 DEF TypeInv, TypeOK, Update, Hold
<1>6. CASE /\ ~FindByTaskID(p) /\ ~NewReminds(p) /\ ~FindByTimeRange(p)
           /\ ~SelectByTaskID(p) /\ ~Update(p)
  <2>1. ids' = ids
    BY <1>6 DEF Step, Work, Create, Cancel, Receive, Begin, Save, Rollback, Commit, FindByID,
       Delete, DeleteByTaskID, Publish, Fail, Crash
  <2>. QED
    BY <2>1
<1>. QED
  BY <1>1, <1>2, <1>3, <1>4, <1>5, <1>6

\* The call of CreateRemind a step leads to tells where it came from.
LEMMA CreateFrom ==
    ASSUME TypeInv, NEW p \in Requests, Step(p)
    PROVE  /\ pc'[p] = "NewReminds" => FindByTaskID(p) /\ OfTask(input[p].task) = {}
           /\ pc'[p] = "Begin" => NewReminds(p) /\ ids'[p] = NewIDs(p)
           /\ pc'[p] \in {"Save", "Rollback", "Commit"} =>
                Begin(p) \/ Save(p) \/ (Fail(p) /\ pc[p] = "Save")
<1>. DEFINE To(call) == pc' = [pc EXCEPT ![p] = call]
<1>1. CASE Receive(p)
  BY <1>1, Arrival
<1>2. CASE FindByTaskID(p)
  <2>1. To("replied") \/ (To("NewReminds") /\ OfTask(input[p].task) = {})
    BY <1>2 DEF FindByTaskID, Goto, End
  <2>. QED
    BY <1>2, <2>1 DEF TypeInv, TypeOK
<1>3. CASE NewReminds(p)
  <2>1. To("replied") \/ (To("Begin") /\ Hold(p, NewIDs(p)))
    BY <1>3 DEF NewReminds, Goto, End
  <2>. QED
    BY <1>3, <2>1 DEF TypeInv, TypeOK, Hold
<1>4. CASE Begin(p) \/ Save(p)
  <2>1. To("Save") \/ To("Rollback") \/ To("Commit")
    BY <1>4 DEF Begin, Save, Goto
  <2>. QED
    BY <1>4, <2>1 DEF TypeInv, TypeOK
<1>5. CASE \/ Rollback(p) \/ Commit(p) \/ FindByTimeRange(p) \/ FindByID(p) \/ Update(p)
           \/ Delete(p) \/ Cancel(p) \/ Crash(p)
  <2>1. \E call \in {"replied", "Update", "DeleteByTaskID", "Publish", "crashed"} : To(call)
    BY <1>5 DEF Rollback, Commit, FindByTimeRange, FindByID, Update, Delete, Cancel,
       SelectByTaskID, DeleteByTaskID, Publish, Crash, Goto, End, EndOrLost
  <2>. QED
    BY <2>1 DEF TypeInv, TypeOK
<1>6. CASE Fail(p)
  <2>1. To("replied") \/ (To("Rollback") /\ pc[p] = "Save")
    BY <1>6 DEF Fail, Goto, End
  <2>. QED
    BY <1>6, <2>1 DEF TypeInv, TypeOK
<1>. QED
  BY <1>1, <1>2, <1>3, <1>4, <1>5, <1>6 DEF Step, Work, Create

LEMMA CommitFrom ==
    ASSUME TypeInv, NEW p \in Requests, Step(p), ~Save(p)
    PROVE  pc'[p] # "Commit"
<1>. SUFFICES ASSUME pc'[p] = "Commit" PROVE FALSE
  OBVIOUS
<1>1. Begin(p) \/ (Fail(p) /\ pc[p] = "Save")
  BY CreateFrom
<1>2. pc' = [pc EXCEPT ![p] = "Save"] \/ pc' = [pc EXCEPT ![p] = "Rollback"]
  BY <1>1 DEF Begin, Fail, Goto
<1>. QED
  BY <1>2 DEF TypeInv, TypeOK

LEMMA NextHoldOK ==
    ASSUME IInv, RequestInv, NEW p \in Requests, Step(p), NEW q \in Requests
    PROVE  HoldOK(q)'
<1>1. \A k \in RemindIDs : Born(k) => Born(k)'
  BY BornStep
<1>2. ids[q] \subseteq RemindIDs
  BY DEF IInv, TypeInv, TypeOK
<1>3. CASE q # p
  <2>1. /\ pc'[q] = pc[q] /\ ids'[q] = ids[q] /\ input'[q] = input[q] /\ reply'[q] = reply[q]
    BY <1>3, OthersKept DEF IInv, Untouched
  <2>2. NewIDs(q)' = NewIDs(q)
    BY <2>1 DEF NewIDs
  <2>. QED
    BY <1>1, <1>2, <2>1, <2>2 DEF RequestInv, HoldOK
<1>4. CASE q = p /\ Receive(p)
  <2>1. ids[p] = {} /\ ids'[p] = ids[p]
    BY <1>4, Arrival DEF IInv, RequestInv, HoldOK
  <2>2. pc'[p] \notin {"Begin", "Save", "Rollback", "Commit"}
    BY <1>4, Arrival DEF IInv
  <2>. QED
    BY <1>4, <2>1, <2>2 DEF HoldOK
<1>5. CASE q = p /\ ~Receive(p)
  <2>1. input'[p] = input[p] /\ NewIDs(p)' = NewIDs(p)
    BY <1>5, BodyKept DEF IInv, NewIDs
  <2>2. reply[p] = 0
    BY EndedIsOver DEF RequestInv, ReplyOK, Ended
  <2>3. pc'[p] \in {"idle", "FindByTaskID", "NewReminds"} => ids'[p] = {}
    <3>1. pc'[p] \notin {"idle", "FindByTaskID"}
      BY <1>5 DEF IInv, TypeInv, TypeOK, Step, Work, Create, Cancel, FindByTaskID,
         NewReminds, Begin, Save, Rollback, Commit, FindByTimeRange, FindByID, Update, Delete,
         SelectByTaskID, DeleteByTaskID, Publish, Fail, Crash, Goto, End, EndOrLost
    <3>2. pc'[p] = "NewReminds" => FindByTaskID(p) /\ OfTask(input[p].task) = {}
      BY CreateFrom DEF IInv
    <3>3. FindByTaskID(p) /\ OfTask(input[p].task) = {} => ids' = ids /\ ids[p] = {}
      BY DEF FindByTaskID, RequestInv, HoldOK
    <3>. QED
      BY <3>1, <3>2, <3>3
  <2>4. pc'[p] \in {"Begin", "Save", "Rollback", "Commit"} => ids'[p] = NewIDs(p)
    <3>1. CASE pc'[p] = "Begin"
      BY <3>1, CreateFrom DEF IInv
    <3>2. CASE pc'[p] \in {"Save", "Rollback", "Commit"}
      <4>1. Begin(p) \/ Save(p) \/ (Fail(p) /\ pc[p] = "Save")
        BY <3>2, CreateFrom DEF IInv
      <4>2. ids' = ids /\ pc[p] \in {"Begin", "Save"}
        BY <4>1 DEF Begin, Save, Fail
      <4>. QED
        BY <4>2 DEF RequestInv, HoldOK
    <3>. QED
      BY <3>1, <3>2
  <2>5. ASSUME input[p] \notin CreateInput \/ reply'[p] = 201, NEW k \in ids'[p]
        PROVE  Born(k)'
    <3>1. k \in Live => Born(k)'
      BY <1>1 DEF Born, IInv, TypeInv, TypeOK
    <3>2. CASE input[p] \notin CreateInput
      <4>1. ~NewReminds(p)
        BY <3>2 DEF NewReminds, IInv, TypeInv, BodyOK, CreateCalls
      <4>2. k \in Live \/ k \in ids[p]
        BY <2>5, <4>1, Holds DEF IInv, OfTask
      <4>3. k \in ids[p] => Born(k)
        BY <3>2 DEF RequestInv, HoldOK
      <4>. QED
        BY <1>1, <1>2, <1>5, <3>1, <4>2, <4>3
    <3>3. CASE reply'[p] = 201
      <4>1. FindByTaskID(p) \/ Commit(p)
        BY <2>2, <3>3, Replies DEF IInv
      <4>2. CASE FindByTaskID(p)
        <5>1. ids'[p] = OfTask(input[p].task) \/ ids' = ids
          BY <4>2 DEF FindByTaskID, Hold, IInv, TypeInv, TypeOK
        <5>2. ids[p] = {}
          BY <4>2 DEF FindByTaskID, RequestInv, HoldOK
        <5>. QED
          BY <2>5, <3>1, <5>1, <5>2 DEF OfTask
      <4>3. CASE Commit(p)
        <5>1. ids'[p] = NewIDs(p)
          BY <4>3 DEF Commit, RequestInv, HoldOK
        <5>2. k \in RemindIDs
          BY <2>5, <4>3, <5>1, CommitTable, NewRows DEF IInv
        <5>. QED
          BY <2>5, <4>3, <5>1, <5>2, BornStep
      <4>. QED
        BY <4>1, <4>2, <4>3
    <3>. QED
      BY <2>5, <3>2, <3>3
  <2>. QED
    BY <1>5, <2>1, <2>3, <2>4, <2>5 DEF HoldOK
<1>. QED
  BY <1>3, <1>4, <1>5

LEMMA NextKnownOK ==
    ASSUME IInv, RequestInv, NEW p \in Requests, Step(p), NEW q \in Requests
    PROVE  KnownOK(q)'
<1>1. CASE Receive(p) /\ q = p
  <2>1. /\ input'[p] \in AllInputs /\ Known(input'[p])
        /\ removedBy' = removedBy /\ Live' = Live
    BY <1>1, Arrival DEF IInv
  <2>2. input'[p] \in ThrottleInput \cup DeleteInput => input'[p].op \in {"throttle", "delete"}
    BY DEF ThrottleInput, DeleteInput
  <2>. QED
    BY <1>1, <2>1, <2>2 DEF KnownOK, Known, Born
<1>2. CASE ~Receive(p) \/ q # p
  <2>1. input'[q] = input[q]
    BY <1>2, BodyKept DEF IInv
  <2>2. input[q] \in ThrottleInput \cup DeleteInput => input[q].id \in RemindIDs
    BY DEF ThrottleInput, DeleteInput
  <2>. QED
    BY <2>1, <2>2, BornStep DEF RequestInv, KnownOK
<1>. QED
  BY <1>1, <1>2

LEMMA NextBeforeOK ==
    ASSUME IInv, RequestInv, NEW p \in Requests, Step(p), NEW q \in Requests
    PROVE  BeforeOK(q)'
<1>1. \A r \in Requests : pc[r] = "replied" => pc'[r] = "replied"
  BY AnsweredKept DEF IInv, Untouched
<1>2. \A r \in before'[q] : r \in Requests /\ pc[r] = "replied"
  <2>1. CASE Receive(p) /\ q = p
    BY <2>1, Arrival DEF IInv
  <2>2. CASE ~Receive(p) \/ q # p
    BY <2>2, BodyKept DEF IInv, TypeInv, TypeOK, RequestInv, BeforeOK
  <2>. QED
    BY <2>1, <2>2
<1>. QED
  BY <1>1, <1>2 DEF BeforeOK

\* Only an INSERT that goes through adds to what a transaction has saved, or
\* lets it commit.
LEMMA NextStorableOK ==
    ASSUME IInv, RequestInv, NEW p \in Requests, Step(p), NEW q \in Requests
    PROVE  StorableOK(q)'
<1>. SUFFICES ASSUME saved'[q] # 0 \/ pc'[q] = "Commit"
              PROVE  input'[q].storable
  BY DEF StorableOK
<1>1. CASE q # p
  BY <1>1, OthersKept DEF IInv, Untouched, RequestInv, StorableOK
<1>2. CASE q = p
  <2>1. CASE Save(p)
    <3>1. input' = input
      BY <2>1 DEF Save
    <3>2. CASE ~input[p].storable \/ KeyTaken(p) \/ DeadlockVictim(p)
      <4>1. saved' = saved /\ pc' = [pc EXCEPT ![p] = "Rollback"]
        BY <2>1, <3>2 DEF Save, Goto
      <4>2. pc'[p] = "Rollback"
        BY <4>1 DEF IInv, TypeInv, TypeOK
      <4>. QED
        BY <1>2, <3>1, <4>1, <4>2 DEF RequestInv, StorableOK
    <3>3. CASE ~(~input[p].storable \/ KeyTaken(p) \/ DeadlockVictim(p))
      BY <1>2, <3>1, <3>3
    <3>. QED
      BY <3>2, <3>3
  <2>2. CASE Receive(p)
    <3>1. pc[p] = "idle" /\ saved' = saved /\ pc'[p] # "Commit"
      BY <2>2, Arrival DEF IInv, Receive
    <3>2. saved[p] = 0
      BY <3>1 DEF IInv, TypeInv, SavedOK, InTx
    <3>. QED
      BY <1>2, <3>1, <3>2
  <2>3. CASE ~Save(p) /\ ~Receive(p)
    <3>1. pc'[p] # "Commit"
      BY <2>3, CommitFrom DEF IInv
    <3>2. input' = input
      BY <2>3 DEF Step, Work, Create, Cancel, FindByTaskID, NewReminds, Begin, Rollback, Commit,
         FindByTimeRange, FindByID, Update, Delete, SelectByTaskID, DeleteByTaskID, Publish,
         Fail, Crash
    <3>3. saved'[p] \in {saved[p], 0}
      BY <2>3 DEF IInv, TypeInv, TypeOK, Step, Work, Create, Cancel, FindByTaskID, NewReminds,
         Begin, Rollback, Commit, FindByTimeRange, FindByID, Update, Delete, SelectByTaskID,
         DeleteByTaskID, Publish, Fail, Crash
    <3>. QED
      BY <1>2, <3>1, <3>2, <3>3 DEF RequestInv, StorableOK
  <2>. QED
    BY <2>1, <2>2, <2>3
<1>. QED
  BY <1>1, <1>2

LEMMA NextRequestInv ==
    ASSUME IInv, RequestInv, NEW p \in Requests, Step(p)
    PROVE  RequestInv'
BY NextReplyOK, NextHoldOK, NextKnownOK, NextBeforeOK, NextStorableOK DEF RequestInv

-----------------------------------------------------------------------------
(* The table: where its reminds came from, and who removed them. *)

LEMMA InitTableInv == Init => TableInv
<1>. SUFFICES ASSUME Init PROVE TableInv
  OBVIOUS
<1>1. PICK S \in SUBSET EarlierIDs : table \in [S -> Rows]
  BY DEF Init
<1>2. \A k \in Live : OriginOK(k)
  BY <1>1 DEF Live, OriginOK
<1>3. (\A k \in RemindIDs : RemoverOK(k)) /\ \A p \in Requests : CreatedOK(p)
  BY DEF Init, RemoverOK, CreatedOK
<1>. QED
  BY <1>2, <1>3 DEF TableInv

\* A creation makes up at least one id.
LEMMA MadeUp ==
    ASSUME NEW p \in Requests, input[p] \in CreateInput
    PROVE  NewIDs(p) # {}
<1>. DEFINE n == Len(input[p].times)
<1>1. n \in 1..MaxTimes /\ NewIDs(p) = {<<p, i>> : i \in 1..n}
  BY NewRows
<1>. HIDE DEF n
<1>2. 1 \in 1..n
  BY <1>1, MaxTimesAssumption
<1>3. <<p, 1>> \in NewIDs(p)
  BY <1>1, <1>2
<1>. QED
  BY <1>3

\* A creation that made up its ids keeps them, and its body.
LEMMA CreationKept ==
    ASSUME IInv, RequestInv, NEW p \in Requests, Step(p), NEW q \in Requests,
           input[q] \in CreateInput, ids[q] = NewIDs(q)
    PROVE  /\ input'[q] = input[q] /\ ids'[q] = ids[q] /\ NewIDs(q)' = NewIDs(q)
           /\ \A i : NewRow(q, i)' = NewRow(q, i)
<1>1. input'[q] = input[q] /\ ids'[q] = ids[q]
  <2>1. CASE q # p
    BY <2>1, OthersUntouched DEF IInv, Untouched
  <2>2. CASE q = p
    <3>1. ids[p] # {}
      BY <2>2, MadeUp
    <3>2. pc[p] \notin {"idle", "FindByTaskID", "NewReminds"}
      BY <3>1 DEF RequestInv, HoldOK
    <3>3. ~Receive(p) /\ ~FindByTaskID(p) /\ ~NewReminds(p)
      BY <3>2 DEF Receive, FindByTaskID, NewReminds
    <3>4. input[p] \notin RangeInput \cup ThrottleInput \cup CancelInput
      BY <2>2 DEF CreateInput, RangeInput, ThrottleInput, CancelInput
    <3>5. ~FindByTimeRange(p) /\ ~SelectByTaskID(p) /\ ~Update(p)
      BY <3>4 DEF IInv, TypeInv, BodyOK, FindByTimeRange, SelectByTaskID, Update
    <3>. QED
      BY <2>2, <3>3, <3>5, BodyKept, Holds DEF IInv
  <2>. QED
    BY <2>1, <2>2
<1>. QED
  BY <1>1 DEF NewIDs, NewRow

LEMMA NextOriginOK ==
    ASSUME IInv, RequestInv, TableInv, NEW p \in Requests, Step(p), NEW k \in Live'
    PROVE  OriginOK(k)'
<1>. k \in RemindIDs /\ Born(k)'
  BY NextTypeInv DEF IInv, TypeInv, TypeOK, Born, Next, Step
<1>1. CASE Born(k)
  <2>1. k \in Live /\ Key(table'[k]) = Key(table[k]) /\ OriginOK(k)
    BY <1>1, TableStep DEF IInv, TableInv
  <2>2. CASE k \in EarlierIDs
    BY <2>2 DEF OriginOK
  <2>3. CASE k \notin EarlierIDs
    <3>1. PICK q \in Requests :
            /\ input[q] \in CreateInput /\ ids[q] = NewIDs(q) /\ k \in NewIDs(q)
            /\ input[q].storable /\ Key(table[k]) = Key(NewRow(q, k[2]))
      BY <2>1, <2>3 DEF OriginOK
    <3>2. /\ input'[q] = input[q] /\ ids'[q] = ids[q] /\ NewIDs(q)' = NewIDs(q)
          /\ NewRow(q, k[2])' = NewRow(q, k[2])
      BY <3>1, CreationKept
    <3>3. Key(table[k])' = Key(table[k]) /\ Key(NewRow(q, k[2]))' = Key(NewRow(q, k[2]))
      BY <2>1, <3>2 DEF Key
    <3>. QED
      BY <3>1, <3>2, <3>3 DEF OriginOK
  <2>. QED
    BY <2>2, <2>3
<1>2. CASE Commit(p) /\ k \in NewIDs(p)
  <2>1. input[p] \in CreateInput /\ table'[k] = NewRow(p, k[2]) /\ ids[p] = NewIDs(p)
    BY <1>2, CommitTable DEF IInv, Commit, RequestInv, HoldOK
  <2>2. /\ input'[p] = input[p] /\ ids'[p] = ids[p] /\ NewIDs(p)' = NewIDs(p)
        /\ NewRow(p, k[2])' = NewRow(p, k[2])
    BY <2>1, CreationKept
  <2>3. Key(table[k])' = Key(NewRow(p, k[2]))'
    BY <2>1, <2>2 DEF Key
  <2>4. input[p].storable
    BY <1>2 DEF Commit, RequestInv, StorableOK
  <2>. QED
    BY <1>2, <2>1, <2>2, <2>3, <2>4 DEF OriginOK
<1>. QED
  BY <1>1, <1>2, BornStep

LEMMA NextRemoverOK ==
    ASSUME IInv, RequestInv, TableInv, NEW p \in Requests, Step(p), NEW k \in RemindIDs
    PROVE  RemoverOK(k)'
<1>1. CASE removedBy[k] # Null
  <2>. DEFINE q == removedBy[k]
  <2>1. removedBy'[k] = q
    BY <1>1, BornStep
  <2>2. q \in Requests /\ input[q] \in DeleteInput \cup CancelInput
    BY <1>1 DEF IInv, TypeInv, TypeOK, TableInv, RemoverOK
  <2>3. input'[q] = input[q]
    <3>1. input[q] # Null
      BY <2>2, NullAssumption DEF AllInputs
    <3>2. ~Receive(p) \/ q # p
      BY <2>2, <3>1 DEF Receive, RequestInv, ReplyOK
    <3>. QED
      BY <2>2, <3>2, BodyKept DEF IInv
  <2>. QED
    BY <2>1, <2>2, <2>3 DEF RemoverOK
<1>2. CASE removedBy[k] = Null
  <2>1. CASE Delete(p) \/ DeleteByTaskID(p)
    <3>1. input[p] \in DeleteInput \cup CancelInput /\ input' = input
      BY <2>1 DEF IInv, TypeInv, BodyOK, Delete, DeleteByTaskID
    <3>2. PICK S : Remove(p, S)
      BY <2>1 DEF Delete, DeleteByTaskID
    <3>3. removedBy'[k] \in {p, Null}
      BY <1>2, <3>2, RemoveTable DEF IInv
    <3>. QED
      BY <3>1, <3>3 DEF RemoverOK
  <2>2. CASE ~Delete(p) /\ ~DeleteByTaskID(p)
    <3>1. removedBy' = removedBy
      BY <2>2, StepCases, QuietTable DEF Commit, Update
    <3>. QED
      BY <1>2, <3>1 DEF RemoverOK
  <2>. QED
    BY <2>1, <2>2
<1>. QED
  BY <1>1, <1>2

\* A look-up answers with reminds of the task, a commit with the rows it added.
LEMMA NextCreatedOK ==
    ASSUME IInv, RequestInv, TableInv, NEW p \in Requests, Step(p), NEW q \in Requests
    PROVE  CreatedOK(q)'
<1>. SUFFICES ASSUME reply'[q] = 201, NEW k \in ids'[q] \cap Live'
              PROVE  table'[k].task = input'[q].task
  BY DEF CreatedOK
<1>1. CASE reply[q] = 201
  <2>1. /\ pc[q] = "replied" /\ ids[q] \subseteq RemindIDs /\ \A j \in ids[q] : Born(j)
    BY <1>1 DEF RequestInv, ReplyOK, HoldOK, IInv, TypeInv, TypeOK
  <2>2. ids'[q] = ids[q] /\ input'[q] = input[q]
    BY <2>1, AnsweredKept DEF IInv, Untouched
  <2>3. k \in Live /\ Key(table'[k]) = Key(table[k])
    BY <2>1, <2>2, TableStep DEF IInv
  <2>4. table'[k].task = table[k].task
    BY <2>3 DEF Key
  <2>. QED
    BY <1>1, <2>2, <2>3, <2>4 DEF TableInv, CreatedOK
<1>2. CASE reply[q] # 201
  <2>1. q = p
    BY <1>2, OthersKept DEF IInv
  <2>2. reply[p] = 0
    BY EndedIsOver DEF RequestInv, ReplyOK, Ended
  <2>3. CASE FindByTaskID(p)
    <3>1. ids'[p] = OfTask(input[p].task) \/ ids' = ids
      BY <2>3 DEF FindByTaskID, Hold, IInv, TypeInv, TypeOK
    <3>2. ids[p] = {} /\ input' = input /\ table' = table
      BY <2>3 DEF FindByTaskID, RequestInv, HoldOK
    <3>. QED
      BY <2>1, <3>1, <3>2 DEF OfTask
  <2>4. CASE Commit(p)
    <3>1. ids'[p] = NewIDs(p) /\ input' = input
      BY <2>4 DEF Commit, RequestInv, HoldOK
    <3>2. table'[k] = NewRow(p, k[2])
      BY <2>1, <2>4, <3>1, CommitTable DEF IInv
    <3>. QED
      BY <2>1, <3>1, <3>2 DEF NewRow
  <2>. QED
    BY <2>1, <2>2, <2>3, <2>4, Replies DEF IInv
<1>. QED
  BY <1>1, <1>2

LEMMA NextTableInv ==
    ASSUME IInv, RequestInv, TableInv, NEW p \in Requests, Step(p)
    PROVE  TableInv'
BY NextOriginOK, NextRemoverOK, NextCreatedOK DEF TableInv

-----------------------------------------------------------------------------
(* The invariant holds. *)

LEMMA StutterAnswerInv == AnswerInv /\ UNCHANGED vars => AnswerInv'
<1>. SUFFICES ASSUME AnswerInv, UNCHANGED vars PROVE AnswerInv'
  OBVIOUS
<1>1. Live' = Live
  BY DEF Live, vars
<1>2. RequestInv'
  BY <1>1 DEF AnswerInv, RequestInv, ReplyOK, HoldOK, KnownOK, BeforeOK, StorableOK,
                  Born, NewIDs, vars
<1>3. TableInv'
  BY <1>1 DEF AnswerInv, TableInv, OriginOK, RemoverOK, CreatedOK, NewIDs, NewRow, Key, vars
<1>. QED
  BY <1>2, <1>3 DEF AnswerInv

\* What outlasts an answer, for any number of requests in any order: see the
\* conjuncts of AnswerInv.
THEOREM AnswersInvariance == Spec => [](IInv /\ AnswerInv)
<1>1. Init => AnswerInv
  BY InitRequestInv, InitTableInv DEF AnswerInv
<1>2. IInv /\ AnswerInv /\ [Next]_vars => AnswerInv'
  <2>. SUFFICES ASSUME IInv, AnswerInv, [Next]_vars PROVE AnswerInv'
    OBVIOUS
  <2>1. CASE \E p \in Requests : Step(p)
    BY <2>1, NextRequestInv, NextTableInv DEF AnswerInv
  <2>2. CASE UNCHANGED vars
    BY <2>2, StutterAnswerInv
  <2>. QED
    BY <2>1, <2>2 DEF Next, Quiescent, Step
<1>. QED
  BY Invariance, <1>1, <1>2, PTL DEF Spec

-----------------------------------------------------------------------------
(* CreateRemind: all the reminds of a request or none. *)

\* The reminds of a creation, of a request's own ids, are born together.
LEMMA NextBatchAtomic ==
    ASSUME IInv, AnswerInv, BatchAtomic, NEW p \in Requests, Step(p)
    PROVE  BatchAtomic'
<1>1. ASSUME NEW q \in Requests, input'[q] # Null, input'[q].op = "create"
      PROVE  \/ \A k \in NewIDs(q)' : Born(k)'
             \/ \A k \in NewIDs(q)' : ~Born(k)'
  <2>1. CASE Receive(p) /\ q = p
    <3>1. /\ pc[p] = "idle" /\ input'[p] \in AllInputs
          /\ removedBy' = removedBy /\ Live' = Live
      BY <2>1, Arrival DEF IInv
    <3>2. input'[p] \in CreateInput
      BY <1>1, <2>1, <3>1, Bodies
    <3>3. \A k \in NewIDs(p)' : \E i \in 1..MaxTimes : k = <<p, i>>
      <4>1. input'[p].times \in TimeLists
        BY <3>2 DEF CreateInput
      <4>. DEFINE n == Len(input'[p].times)
      <4>2. n \in 1..MaxTimes /\ DOMAIN input'[p].times = 1..n
        BY <4>1, TimeListIsSeq
      <4>3. NewIDs(p)' = {<<p, i>> : i \in 1..n}
        BY <4>2 DEF NewIDs
      <4>. HIDE DEF n
      <4>4. \A i \in 1..n : i \in 1..MaxTimes
        BY <4>2, MaxTimesAssumption
      <4>. QED
        BY <4>3, <4>4
    <3>4. \A i \in 1..MaxTimes : <<p, i>> \notin Live /\ removedBy[<<p, i>>] = Null
      BY <3>1 DEF IInv, FreshInv
    <3>. QED
      BY <2>1, <3>1, <3>3, <3>4 DEF Born
  <2>2. CASE ~Receive(p) \/ q # p
    <3>1. input'[q] = input[q] /\ NewIDs(q)' = NewIDs(q)
      BY <2>2, BodyKept DEF IInv, NewIDs
    <3>2. input[q] \in CreateInput
      BY <1>1, <3>1, Bodies DEF IInv, TypeInv, TypeOK
    <3>3. /\ NewIDs(q) \subseteq RemindIDs
          /\ \A k \in NewIDs(q) : k = <<q, k[2]>>
      BY <3>2, NewRows
    <3>4. CASE Commit(p) /\ q = p
      BY <3>1, <3>3, <3>4, BornStep
    <3>5. CASE ~(Commit(p) /\ q = p)
      <4>1. \A k \in NewIDs(q) : Commit(p) => k \notin NewIDs(p)
        BY <3>3, <3>5, CommitTable DEF IInv
      <4>2. \A k \in NewIDs(q) : Born(k)' <=> Born(k)
        BY <3>3, <4>1, BornStep
      <4>. QED
        BY <1>1, <3>1, <4>2 DEF BatchAtomic
    <3>. QED
      BY <3>4, <3>5
  <2>. QED
    BY <2>1, <2>2
<1>2. RequestInv'
  BY NextRequestInv DEF AnswerInv
<1>3. \A q \in Requests : reply'[q] = 201 => \A k \in ids'[q] : Born(k)'
  BY <1>2 DEF RequestInv, HoldOK
<1>. QED
  BY <1>1, <1>3 DEF BatchAtomic

\* All the reminds of a create request come into being, or none, whatever
\* other creations and deletions of the task run between its calls.
THEOREM BatchesAreAtomic == Spec => []BatchAtomic
<1>1. Init => BatchAtomic
  BY DEF Init, BatchAtomic
<1>2. IInv /\ AnswerInv /\ BatchAtomic /\ [Next]_vars => BatchAtomic'
  <2>. SUFFICES ASSUME IInv, AnswerInv, BatchAtomic, [Next]_vars PROVE BatchAtomic'
    OBVIOUS
  <2>1. CASE UNCHANGED vars
    <3>1. Live' = Live
      BY <2>1 DEF Live, vars
    <3>. QED
      BY <2>1, <3>1 DEF BatchAtomic, NewIDs, Born, vars
  <2>. QED
    BY <2>1, NextBatchAtomic DEF Next, Quiescent, Step
<1>. QED
  BY AnswersInvariance, <1>1, <1>2, PTL DEF Spec

-----------------------------------------------------------------------------
(* UpdateThrottled: a remind reported throttled stays throttled. *)

\* Writing a copy back may set the flag and never resets it.
LEMMA UpdatedFlag ==
    ASSUME NEW row \in Rows, NEW e \in Rows, row.throttled \/ e.throttled
    PROVE  UpdatedRow(row, e).throttled
BY DEF UpdatedRow, Rows

\* No step takes the flag back from a row that stays.
LEMMA FlagKept ==
    ASSUME IInv, NEW p \in Requests, Step(p), NEW k \in Live, k \in Live', table[k].throttled
    PROVE  table'[k].throttled
<1>. k \in RemindIDs /\ Born(k) /\ table[k] \in Rows
  BY DEF IInv, TypeInv, TypeOK, Born
<1>1. CASE QuietStep(p)
  BY <1>1, QuietTable
<1>2. CASE Commit(p)
  <2>1. k \notin NewIDs(p)
    <3>1. pc[p] \in CreateCalls /\ input[p] \in CreateInput
      BY <1>2, CommitTable DEF Commit, CreateCalls, IInv
    <3>2. \A j \in NewIDs(p) : \E i \in 1..MaxTimes : j = <<p, i>>
      <4>. DEFINE n == Len(input[p].times)
      <4>1. n \in 1..MaxTimes /\ NewIDs(p) = {<<p, i>> : i \in 1..n}
        BY <3>1, NewRows
      <4>. HIDE DEF n
      <4>. QED
        BY <4>1, MaxTimesAssumption
    <3>. QED
      BY <3>1, <3>2 DEF IInv, FreshInv
  <2>. QED
    BY <1>2, <2>1, CommitTable DEF IInv
<1>3. CASE Update(p)
  <2>1. CASE table'[k] = table[k]
    BY <2>1
  <2>2. CASE table'[k] = UpdatedRow(table[k], entity[p])
    BY <1>3, <2>2, UpdateTable, UpdatedFlag DEF IInv
  <2>. QED
    BY <1>3, <2>1, <2>2, UpdateTable DEF IInv
<1>4. CASE Delete(p) \/ DeleteByTaskID(p)
  <2>1. PICK S : Remove(p, S)
    BY <1>4 DEF Delete, DeleteByTaskID
  <2>. QED
    BY <2>1, RemoveTable DEF IInv
<1>. QED
  BY <1>1, <1>2, <1>3, <1>4, StepCases

LEMMA NextThrottleDurable ==
    ASSUME IInv, AnswerInv, ThrottleDurable, NEW p \in Requests, Step(p)
    PROVE  ThrottleDurable'
<1>. SUFFICES ASSUME NEW q \in Requests, pc'[q] = "replied", reply'[q] = 200,
                     input'[q].op = "throttle", entity'[q].throttled,
                     NEW k \in ids'[q] \cap Live'
              PROVE  table'[k].throttled
  BY DEF ThrottleDurable
<1>1. CASE pc[q] = "replied"
  <2>1. /\ reply[q] = 200 /\ input[q].op = "throttle" /\ entity[q].throttled
        /\ ids'[q] = ids[q] /\ input'[q] = input[q]
    BY <1>1, AnsweredKept DEF IInv, Untouched
  <2>2. k \in RemindIDs /\ Born(k)
    <3>1. input[q] \notin CreateInput
      BY <2>1 DEF CreateInput
    <3>. QED
      BY <2>1, <3>1 DEF AnswerInv, RequestInv, HoldOK, IInv, TypeInv, TypeOK
  <2>3. k \in Live
    BY <2>2, TableStep DEF IInv
  <2>4. table[k].throttled
    BY <1>1, <2>1, <2>3 DEF ThrottleDurable
  <2>. QED
    BY <2>3, <2>4, FlagKept
<1>2. CASE pc[q] # "replied"
  <2>1. q = p /\ reply[p] = 0
    BY <1>2, OthersKept DEF IInv, Untouched, AnswerInv, RequestInv, ReplyOK
  <2>2. FindByTimeRange(p) \/ Update(p)
    BY <2>1, Replies DEF IInv
  <2>3. ~FindByTimeRange(p)
    <3>1. SUFFICES ASSUME FindByTimeRange(p) PROVE FALSE
      OBVIOUS
    <3>2. input'[p] = input[p] /\ input[p] \in RangeInput
      BY <3>1 DEF IInv, TypeInv, BodyOK, FindByTimeRange
    <3>. QED
      BY <2>1, <3>2 DEF RangeInput
  <2>4. /\ input[p].id \in Live /\ ids'[p] = {input[p].id} /\ entity'[p] = entity[p]
    BY <2>1, <2>2, <2>3 DEF Update, Hold, End, IInv, TypeInv, TypeOK
  <2>5. /\ table'[k] = UpdatedRow(table[k], entity[p])
        /\ table[k] \in Rows /\ entity[p] \in Rows
    BY <2>1, <2>2, <2>3, <2>4, UpdateTable DEF IInv, TypeInv, TypeOK
  <2>6. entity[p].throttled
    BY <2>1, <2>4
  <2>. QED
    BY <2>5, <2>6, UpdatedFlag
<1>. QED
  BY <1>1, <1>2

\* An answer that a remind is throttled stays true of the remind while it is
\* there, whatever updates hold copies read before.
THEOREM ThrottleLasts == Spec => []ThrottleDurable
<1>1. Init => ThrottleDurable
  BY DEF Init, ThrottleDurable
<1>2. IInv /\ AnswerInv /\ ThrottleDurable /\ [Next]_vars => ThrottleDurable'
  <2>. SUFFICES ASSUME IInv, AnswerInv, ThrottleDurable, [Next]_vars PROVE ThrottleDurable'
    OBVIOUS
  <2>1. CASE UNCHANGED vars
    <3>1. Live' = Live
      BY <2>1 DEF Live, vars
    <3>. QED
      BY <2>1, <3>1 DEF ThrottleDurable, vars
  <2>. QED
    BY <2>1, NextThrottleDurable DEF Next, Quiescent, Step
<1>. QED
  BY AnswersInvariance, <1>1, <1>2, PTL DEF Spec

-----------------------------------------------------------------------------
(* DeleteRemind and CancelRemindByTaskID: what was removed stays removed. *)

\* A deletion that was answered removed its remind.
DroppedOK(p) == reply[p] = 204 /\ input[p] \in DeleteInput => input[p].id \notin Live

\* A cancel that comes to publish, or was answered, has removed what it
\* selected and what was answered before it.
ClearedOK(p) ==
    pc[p] = "Publish" \/ (reply[p] = 204 /\ input[p] \in CancelInput) =>
        /\ ids[p] \cap Live = {}
        /\ \A q \in before[p] :
              reply[q] = 201 /\ input[q].task = input[p].task => ids[q] \cap Live = {}

GoneInv == \A p \in Requests : DroppedOK(p) /\ ClearedOK(p)

\* The reminds of an earlier answer are still of its task, or gone.
LEMMA AnsweredBefore ==
    ASSUME IInv, AnswerInv, NEW p \in Requests, Step(p), NEW q \in Requests,
           NEW r \in before[q], reply'[r] = 201
    PROVE  /\ r \in Requests /\ reply[r] = 201
           /\ ids'[r] = ids[r] /\ input'[r] = input[r]
           /\ ids[r] \subseteq RemindIDs
           /\ \A k \in ids[r] : Born(k) /\ (k \in Live => k \in OfTask(input[r].task))
           /\ \A k \in ids[r] : k \notin Live => k \notin Live'
<1>1. r \in Requests /\ pc[r] = "replied"
  BY DEF IInv, TypeInv, TypeOK, AnswerInv, RequestInv, BeforeOK
<1>2. reply[r] = 201 /\ ids'[r] = ids[r] /\ input'[r] = input[r]
  BY <1>1, AnsweredKept DEF IInv, Untouched
<1>3. ids[r] \subseteq RemindIDs /\ \A k \in ids[r] : Born(k)
  BY <1>1, <1>2 DEF IInv, TypeInv, TypeOK, AnswerInv, RequestInv, HoldOK
<1>4. \A k \in ids[r] : k \in Live => k \in OfTask(input[r].task)
  BY <1>1, <1>2 DEF AnswerInv, TableInv, CreatedOK, OfTask
<1>. QED
  BY <1>1, <1>2, <1>3, <1>4, StaysGone

LEMMA NextDroppedOK ==
    ASSUME IInv, AnswerInv, GoneInv, NEW p \in Requests, Step(p), NEW q \in Requests
    PROVE  DroppedOK(q)'
<1>. SUFFICES ASSUME reply'[q] = 204, input'[q] \in DeleteInput
              PROVE  input'[q].id \notin Live'
  BY DEF DroppedOK
<1>1. CASE reply[q] = 204
  <2>1. pc[q] = "replied"
    BY <1>1 DEF AnswerInv, RequestInv, ReplyOK
  <2>2. input'[q] = input[q]
    BY <2>1, AnsweredKept DEF IInv, Untouched
  <2>3. input[q].id \in RemindIDs /\ input[q].id \notin Live
    BY <1>1, <2>2 DEF DeleteInput, GoneInv, DroppedOK
  <2>4. Born(input[q].id) \/ input[q].id[1] = Earlier
    BY <2>2 DEF AnswerInv, RequestInv, KnownOK
  <2>. QED
    BY <2>2, <2>3, <2>4, StaysGone
<1>2. CASE reply[q] # 204
  <2>1. q = p /\ reply[p] = 0
    BY <1>2, OthersKept, EndedIsOver DEF IInv, AnswerInv, RequestInv, ReplyOK, Ended
  <2>2. ~SelectByTaskID(p) /\ ~DeleteByTaskID(p) /\ ~Publish(p)
    <3>1. input'[p] \notin CancelInput
      BY <2>1 DEF CancelInput, DeleteInput
    <3>. QED
      BY <3>1 DEF IInv, TypeInv, BodyOK, SelectByTaskID, DeleteByTaskID, Publish
  <2>3. Delete(p)
    BY <2>1, <2>2, Replies DEF IInv
  <2>4. Remove(p, {input[p].id}) /\ input'[p] = input[p]
    BY <2>3 DEF Delete
  <2>5. Live' = Live \ {input[p].id}
    BY <2>4, RemoveTable DEF IInv
  <2>. QED
    BY <2>1, <2>4, <2>5
<1>. QED
  BY <1>1, <1>2

LEMMA NextClearedOK ==
    ASSUME IInv, AnswerInv, GoneInv, NEW p \in Requests, Step(p), NEW q \in Requests
    PROVE  ClearedOK(q)'
<1>. SUFFICES ASSUME pc'[q] = "Publish" \/ (reply'[q] = 204 /\ input'[q] \in CancelInput)
              PROVE  /\ ids'[q] \cap Live' = {}
                     /\ \A r \in before'[q] :
                           reply'[r] = 201 /\ input'[r].task = input'[q].task
                               => ids'[r] \cap Live' = {}
  BY DEF ClearedOK
<1>1. CASE /\ pc[q] = "Publish" \/ (reply[q] = 204 /\ input[q] \in CancelInput)
           /\ ids'[q] = ids[q] /\ input'[q] = input[q] /\ before'[q] = before[q]
  <2>1. ids[q] \subseteq RemindIDs /\ \A k \in ids[q] : Born(k)
    <3>1. input[q] \in CancelInput
      BY <1>1 DEF IInv, TypeInv, BodyOK
    <3>2. input[q] \notin CreateInput
      BY <3>1 DEF CancelInput, CreateInput
    <3>. QED
      BY <3>2 DEF AnswerInv, RequestInv, HoldOK, IInv, TypeInv, TypeOK
  <2>2. ids'[q] \cap Live' = {}
    BY <1>1, <2>1, StaysGone DEF GoneInv, ClearedOK
  <2>3. ASSUME NEW r \in before'[q], reply'[r] = 201, input'[r].task = input'[q].task
        PROVE  ids'[r] \cap Live' = {}
    <3>1. r \in before[q]
      BY <1>1, <2>3
    <3>2. ids[r] \cap Live = {}
      BY <1>1, <2>3, <3>1, AnsweredBefore DEF GoneInv, ClearedOK
    <3>. QED
      BY <2>3, <3>1, <3>2, AnsweredBefore
  <2>. QED
    BY <2>2, <2>3
<1>2. CASE q = p /\ SelectByTaskID(p) /\ reply'[p] = 204
  <2>1. /\ input' = input /\ before' = before /\ Live' = Live
        /\ ids'[p] = OfTask(input[p].task)
    BY <1>2 DEF SelectByTaskID, Live, Hold, IInv, TypeInv, TypeOK
  <2>2. OfTask(input[p].task) = {}
    <3>1. reply[p] = 0
      BY EndedIsOver DEF AnswerInv, RequestInv, ReplyOK, Ended
    <3>. QED
      BY <1>2, <3>1 DEF SelectByTaskID, Goto
  <2>3. ASSUME NEW r \in before'[p], reply'[r] = 201, input'[r].task = input'[p].task
        PROVE  ids'[r] \cap Live' = {}
    BY <2>1, <2>2, <2>3, AnsweredBefore
  <2>. QED
    BY <1>2, <2>1, <2>2, <2>3
<1>3. CASE q = p /\ DeleteByTaskID(p)
  <2>1. /\ input' = input /\ before' = before /\ ids' = ids
        /\ Remove(p, OfTask(input[p].task))
    BY <1>3 DEF DeleteByTaskID
  <2>2. Live' = Live \ OfTask(input[p].task)
    BY <2>1, RemoveTable DEF IInv
  <2>3. \A k \in ids[p] : k \in Live => k \in OfTask(input[p].task)
    BY <1>3 DEF IInv, CancelInv, DeleteByTaskID, OfTask
  <2>4. ASSUME NEW r \in before'[p], reply'[r] = 201, input'[r].task = input'[p].task
        PROVE  ids'[r] \cap Live' = {}
    BY <2>1, <2>2, <2>4, AnsweredBefore
  <2>. QED
    BY <1>3, <2>1, <2>2, <2>3, <2>4
<1>4. CASE q # p
  BY <1>1, <1>4, OthersKept DEF IInv, Untouched
<1>5. CASE q = p /\ Publish(p)
  <2>1. pc[q] = "Publish" /\ ids' = ids /\ input' = input /\ before' = before
    BY <1>5 DEF Publish
  <2>. QED
    BY <1>1, <2>1
<1>6. CASE q = p /\ reply'[p] = 204 /\ input'[p] \in CancelInput
  <2>1. reply[p] = 0
    BY EndedIsOver DEF AnswerInv, RequestInv, ReplyOK, Ended
  <2>2. ~Delete(p)
    <3>1. input'[p] \notin DeleteInput
      BY <1>6 DEF CancelInput, DeleteInput
    <3>. QED
      BY <3>1 DEF IInv, TypeInv, BodyOK, Delete
  <2>. QED
    BY <1>2, <1>3, <1>5, <1>6, <2>1, <2>2, Replies DEF IInv
<1>. QED
  BY <1>3, <1>4, <1>6, ReachedFrom DEF IInv

\* After a delete or a cancel was answered, what it was asked to remove and
\* could have known of does not come back.
THEOREM RemovedNeverReturn == Spec => []RemovedStayGone
<1>1. Init => GoneInv
  BY DEF Init, GoneInv, DroppedOK, ClearedOK
<1>2. IInv /\ AnswerInv /\ GoneInv /\ [Next]_vars => GoneInv'
  <2>. SUFFICES ASSUME IInv, AnswerInv, GoneInv, [Next]_vars PROVE GoneInv'
    OBVIOUS
  <2>1. CASE UNCHANGED vars
    <3>1. Live' = Live
      BY <2>1 DEF Live, vars
    <3>. QED
      BY <2>1, <3>1 DEF GoneInv, DroppedOK, ClearedOK, vars
  <2>2. CASE \E p \in Requests : Step(p)
    BY <2>2, NextDroppedOK, NextClearedOK DEF GoneInv
  <2>. QED
    BY <2>1, <2>2 DEF Next, Quiescent, Step
<1>3. IInv /\ AnswerInv /\ GoneInv => RemovedStayGone
  <2>. SUFFICES ASSUME IInv, AnswerInv, GoneInv, NEW p \in Requests, reply[p] = 204
                PROVE  /\ input[p].op = "delete" => input[p].id \notin Live
                       /\ input[p].op = "cancel" =>
                            /\ ids[p] \cap Live = {}
                            /\ \A q \in before[p] :
                                  reply[q] = 201 /\ input[q].task = input[p].task
                                      => ids[q] \cap Live = {}
    BY DEF RemovedStayGone
  <2>1. input[p] \in DeleteInput \cup CancelInput
    BY DEF AnswerInv, RequestInv, ReplyOK
  <2>2. /\ input[p].op = "delete" => input[p] \in DeleteInput
        /\ input[p].op = "cancel" => input[p] \in CancelInput
    BY <2>1 DEF DeleteInput, CancelInput
  <2>. QED
    BY <2>2 DEF GoneInv, DroppedOK, ClearedOK
<1>. QED
  BY AnswersInvariance, <1>1, <1>2, <1>3, PTL DEF Spec

-----------------------------------------------------------------------------
(* CreateRemind again: what a repeated creation returns. *)

\* A creation on its way found nothing of its task: what it could have found is
\* removed.
LookupOK(p) ==
    pc[p] \in {"NewReminds", "Begin", "Save", "Rollback", "Commit"} =>
        /\ \A k \in EarlierIDs \cap Live : table[k].task # input[p].task
        /\ \A q \in before[p] :
              reply[q] = 201 /\ input[q].task = input[p].task
                  => \A k \in ids[q] : removedBy[k] # Null

LookupInv == \A p \in Requests : LookupOK(p)

LEMMA NextLookupOK ==
    ASSUME IInv, AnswerInv, LookupInv, NEW p \in Requests, Step(p), NEW q \in Requests
    PROVE  LookupOK(q)'
<1>. DEFINE Creating == {"NewReminds", "Begin", "Save", "Rollback", "Commit"}
<1>. SUFFICES ASSUME pc'[q] \in Creating
              PROVE  /\ \A k \in EarlierIDs \cap Live' : table'[k].task # input'[q].task
                     /\ \A r \in before'[q] :
                           reply'[r] = 201 /\ input'[r].task = input'[q].task
                               => \A k \in ids'[r] : removedBy'[k] # Null
  BY DEF LookupOK
<1>1. CASE pc[q] \in Creating /\ input'[q] = input[q] /\ before'[q] = before[q]
  <2>1. ASSUME NEW k \in EarlierIDs \cap Live'
        PROVE  table'[k].task # input'[q].task
    <3>1. k \in RemindIDs /\ k[1] = Earlier
      BY DEF EarlierIDs, RemindIDs
    <3>2. k \in Live
      BY <2>1, <3>1, StaysGone
    <3>3. Key(table'[k]) = Key(table[k])
      BY <2>1, <3>1, <3>2, TableStep DEF IInv, Born
    <3>4. table'[k].task = table[k].task
      BY <3>3 DEF Key
    <3>. QED
      BY <1>1, <2>1, <3>2, <3>4 DEF LookupInv, LookupOK
  <2>2. ASSUME NEW r \in before'[q], reply'[r] = 201, input'[r].task = input'[q].task,
               NEW k \in ids'[r]
        PROVE  removedBy'[k] # Null
    <3>1. /\ r \in before[q] /\ reply[r] = 201 /\ input[r].task = input[q].task
          /\ k \in ids[r] /\ k \in RemindIDs
      BY <1>1, <2>2, AnsweredBefore
    <3>2. removedBy[k] # Null
      BY <1>1, <3>1 DEF LookupInv, LookupOK
    <3>. QED
      BY <3>1, <3>2, BornStep
  <2>. QED
    BY <2>1, <2>2
<1>2. CASE q = p /\ pc'[p] = "NewReminds"
  <2>1. FindByTaskID(p) /\ OfTask(input[p].task) = {}
    BY <1>2, CreateFrom DEF IInv
  <2>2. /\ input' = input /\ before' = before /\ Live' = Live
        /\ table' = table /\ removedBy' = removedBy
    BY <2>1 DEF FindByTaskID, Live
  <2>3. ASSUME NEW r \in before'[p], reply'[r] = 201, input'[r].task = input'[p].task,
               NEW k \in ids'[r]
        PROVE  removedBy'[k] # Null
    <3>1. k \in ids[r] /\ Born(k) /\ k \notin Live
      BY <2>1, <2>2, <2>3, AnsweredBefore
    <3>. QED
      BY <2>2, <3>1 DEF Born
  <2>. QED
    BY <1>2, <2>1, <2>2, <2>3 DEF OfTask
<1>3. CASE q = p /\ pc'[p] # "NewReminds"
  <2>1. NewReminds(p) \/ Begin(p) \/ Save(p) \/ (Fail(p) /\ pc[p] = "Save")
    BY <1>3, CreateFrom DEF IInv
  <2>2. pc[p] \in Creating /\ input' = input /\ before' = before
    BY <2>1 DEF NewReminds, Begin, Save, Fail
  <2>. QED
    BY <1>1, <1>3, <2>2
<1>4. CASE q # p
  BY <1>1, <1>4, OthersKept DEF IInv, Untouched
<1>. QED
  BY <1>2, <1>3, <1>4

\* A creation on its way that looked up after another of its task was answered
\* found one of that one's reminds, or all of them were removed: see LookupInv.
THEOREM LookupInvariance == Spec => []LookupInv
<1>1. Init => LookupInv
  BY DEF Init, LookupInv, LookupOK
<1>2. IInv /\ AnswerInv /\ LookupInv /\ [Next]_vars => LookupInv'
  <2>. SUFFICES ASSUME IInv, AnswerInv, LookupInv, [Next]_vars PROVE LookupInv'
    OBVIOUS
  <2>1. CASE UNCHANGED vars
    <3>1. Live' = Live
      BY <2>1 DEF Live, vars
    <3>. QED
      BY <2>1, <3>1 DEF LookupInv, LookupOK, vars
  <2>2. CASE \E p \in Requests : Step(p)
    BY <2>2, NextLookupOK DEF LookupInv
  <2>. QED
    BY <2>1, <2>2 DEF Next, Quiescent, Step
<1>. QED
  BY AnswersInvariance, <1>1, <1>2, PTL DEF Spec

LEMMA NextRepeatedCreate ==
    ASSUME IInv, AnswerInv, LookupInv, RepeatedCreateReturnsExisting,
           NEW p \in Requests, Step(p)
    PROVE  RepeatedCreateReturnsExisting'
<1>. SUFFICES ASSUME NEW q \in Requests, NEW r \in before'[q],
                     reply'[q] = 201, reply'[r] = 201, input'[q].task = input'[r].task,
                     \A k \in ids'[r] : removedBy'[k] = Null,
                     NEW k \in ids'[r]
              PROVE  k \in ids'[q]
  BY DEF RepeatedCreateReturnsExisting
<1>1. CASE reply[q] = 201
  <2>1. pc[q] = "replied"
    BY <1>1 DEF AnswerInv, RequestInv, ReplyOK
  <2>2. before'[q] = before[q] /\ ids'[q] = ids[q] /\ input'[q] = input[q]
    BY <2>1, AnsweredKept DEF IInv, Untouched
  <2>3. /\ reply[r] = 201 /\ ids'[r] = ids[r] /\ input'[r] = input[r]
        /\ ids[r] \subseteq RemindIDs
    BY <2>2, AnsweredBefore
  <2>4. \A j \in ids[r] : removedBy[j] = Null
    BY <2>3, BornStep
  <2>. QED
    BY <1>1, <2>2, <2>3, <2>4 DEF RepeatedCreateReturnsExisting
<1>2. CASE reply[q] # 201
  <2>1. q = p /\ reply[p] = 0
    BY <1>2, OthersKept, EndedIsOver DEF IInv, AnswerInv, RequestInv, ReplyOK, Ended
  <2>2. FindByTaskID(p) \/ Commit(p)
    BY <2>1, Replies DEF IInv
  <2>3. input' = input /\ before' = before
    BY <2>2 DEF FindByTaskID, Commit
  <2>4. /\ reply[r] = 201 /\ ids'[r] = ids[r] /\ ids[r] \subseteq RemindIDs
        /\ \A j \in ids[r] : Born(j) /\ (j \in Live => j \in OfTask(input[r].task))
    BY <2>1, <2>3, AnsweredBefore
  <2>5. removedBy[k] = Null
    BY <2>4, BornStep
  <2>6. CASE FindByTaskID(p)
    <3>1. ids'[p] = OfTask(input[p].task)
      BY <2>1, <2>6 DEF FindByTaskID, Hold, Goto, IInv, TypeInv, TypeOK
    <3>. QED
      BY <2>1, <2>3, <2>4, <2>5, <3>1 DEF Born
  <2>7. CASE Commit(p)
    <3>1. pc[p] = "Commit"
      BY <2>7 DEF Commit
    <3>. QED
      BY <2>1, <2>3, <2>4, <2>5, <3>1 DEF LookupInv, LookupOK
  <2>. QED
    BY <2>2, <2>6, <2>7
<1>. QED
  BY <1>1, <1>2

\* A create request sent after another for the same task was answered returns
\* that one's reminds, as long as none of them was removed.
THEOREM RepeatedCreateReturns == Spec => []RepeatedCreateReturnsExisting
<1>1. Init => RepeatedCreateReturnsExisting
  BY DEF Init, RepeatedCreateReturnsExisting
<1>2. /\ IInv /\ AnswerInv /\ LookupInv /\ RepeatedCreateReturnsExisting
      /\ [Next]_vars
      => RepeatedCreateReturnsExisting'
  <2>. SUFFICES ASSUME IInv, AnswerInv, LookupInv, RepeatedCreateReturnsExisting, [Next]_vars
                PROVE  RepeatedCreateReturnsExisting'
    OBVIOUS
  <2>1. CASE UNCHANGED vars
    BY <2>1 DEF RepeatedCreateReturnsExisting, vars
  <2>. QED
    BY <2>1, NextRepeatedCreate DEF Next, Quiescent, Step
<1>. QED
  BY AnswersInvariance, LookupInvariance, <1>1, <1>2, PTL DEF Spec

-----------------------------------------------------------------------------
(* Answers 500 without an outside failure. *)

\* A transaction on its way to Rollback lost its key to a creation.
ClashOK(p) ==
    pc[p] = "Rollback" /\ p \notin faulty =>
        ~input[p].storable \/ \E q \in Requests : Clash(p, q)

\* The body of InternalErrorsExplained.
ErrorOK(p) ==
    reply[p] = 500 /\ p \notin faulty =>
        \/ /\ input[p].op = "create"
           /\ ~input[p].storable \/ \E q \in Requests : Clash(p, q)
        \/ input[p].op = "throttle" /\ removedBy[input[p].id] \notin {Null, p}

ErrorInv == \A p \in Requests : ClashOK(p) /\ ErrorOK(p)

\* A clash is between two bodies, and what one of them made up: it lasts.
LEMMA ClashKept ==
    ASSUME IInv, AnswerInv, NEW p \in Requests, Step(p), NEW q \in Requests, NEW r \in Requests,
           Clash(q, r), input'[q] = input[q]
    PROVE  Clash(q, r)'
<1>1. input[r] \in CreateInput /\ ids[r] = NewIDs(r)
  BY Bodies DEF Clash, IInv, TypeInv, TypeOK
<1>2. input'[r] = input[r] /\ ids'[r] = ids[r] /\ NewIDs(r)' = NewIDs(r)
  BY <1>1, CreationKept DEF AnswerInv
<1>. QED
  BY <1>2 DEF Clash

\* An INSERT is refused because another creation made the same time a remind of
\* the task, holds it in its transaction, or because the request has it twice.
LEMMA RefusedByClash ==
    ASSUME IInv, AnswerInv, LookupInv, NEW p \in Requests, pc[p] = "Save",
           KeyTaken(p) \/ DeadlockVictim(p)
    PROVE  \E q \in Requests : Clash(p, q)
<1>. DEFINE n == saved[p] + 1
<1>1. /\ input[p] \in CreateInput /\ ids[p] = NewIDs(p) /\ saved[p] \in Nat
      /\ saved[p] < Len(input[p].times)
  BY MaxTimesAssumption
     DEF IInv, TypeInv, TypeOK, BodyOK, SavedOK, CreateCalls, AnswerInv, RequestInv, HoldOK
<1>2. n \in DOMAIN input[p].times
  <2>. DEFINE m == Len(input[p].times)
  <2>1. m \in 1..MaxTimes /\ DOMAIN input[p].times = 1..m
    BY <1>1, NewRows
  <2>. HIDE DEF m
  <2>2. saved[p] < m
    BY <1>1 DEF m
  <2>. QED
    BY <1>1, <2>1, <2>2, MaxTimesAssumption
<1>3. \A q \in Requests : input[q] \in CreateInput => input[q] # Null /\ input[q].op = "create"
  BY Bodies DEF AllInputs
<1>4. \A q \in Requests : \A i, j :
         Key(NewRow(q, j)) = Key(NewRow(p, i))
             => input[q].task = input[p].task /\ input[q].times[j] = input[p].times[i]
  BY DEF Key, NewRow
<1>5. ASSUME NEW k \in Live, Key(table[k]) = Key(NewRow(p, n))
      PROVE  \E q \in Requests : Clash(p, q)
  <2>1. k \notin EarlierIDs
    <3>1. table[k].task = input[p].task
      BY <1>5 DEF Key, NewRow
    <3>. QED
      BY <3>1 DEF LookupInv, LookupOK
  <2>2. PICK q \in Requests :
          /\ input[q] \in CreateInput /\ ids[q] = NewIDs(q) /\ k \in NewIDs(q)
          /\ input[q].storable /\ Key(table[k]) = Key(NewRow(q, k[2]))
    BY <2>1 DEF AnswerInv, TableInv, OriginOK
  <2>3. k[2] \in DOMAIN input[q].times
    BY <2>2 DEF NewIDs
  <2>4. q # p
    <3>1. SUFFICES ASSUME q = p PROVE FALSE
      OBVIOUS
    <3>2. pc[p] \in CreateCalls
      BY DEF CreateCalls
    <3>3. k[2] \in 1..MaxTimes /\ k = <<p, k[2]>>
      <4>. DEFINE m == Len(input[p].times)
      <4>1. m \in 1..MaxTimes /\ NewIDs(p) = {<<p, i>> : i \in 1..m}
        BY <1>1, NewRows
      <4>. HIDE DEF m
      <4>. QED
        BY <2>2, <3>1, <4>1, MaxTimesAssumption
    <3>. QED
      BY <1>5, <3>2, <3>3 DEF IInv, FreshInv
  <2>. QED
    BY <1>2, <1>3, <1>4, <1>5, <2>2, <2>3, <2>4 DEF Clash
<1>6. ASSUME NEW i \in 1..saved[p], Key(NewRow(p, i)) = Key(NewRow(p, n))
      PROVE  Clash(p, p)
  <2>1. i \in DOMAIN input[p].times /\ i # n
    <3>. DEFINE m == Len(input[p].times)
    <3>1. m \in 1..MaxTimes /\ DOMAIN input[p].times = 1..m
      BY <1>1, NewRows
    <3>. HIDE DEF m
    <3>2. saved[p] < m
      BY <1>1 DEF m
    <3>. QED
      BY <1>1, <1>6, <3>1, <3>2, MaxTimesAssumption
  <2>2. input[p].times[n] = input[p].times[i]
    BY <1>4, <1>6
  <2>3. input[p].storable
    <3>1. saved[p] # 0
      BY <1>1, <1>6
    <3>. QED
      BY <3>1 DEF AnswerInv, RequestInv, StorableOK
  <2>. HIDE DEF n
  <2>. QED
    BY <1>1, <1>2, <1>3, <2>1, <2>2, <2>3 DEF Clash
<1>7. ASSUME NEW q \in Requests, WaitsFor(p, q)
      PROVE  Clash(p, q)
  <2>1. PICK j \in 1..saved[q] : Key(NewRow(q, j)) = Key(NewRow(p, n))
    BY <1>7 DEF WaitsFor
  <2>2. q # p /\ InTx(q) /\ pc[q] \in {"Save", "Rollback", "Commit"}
    BY <1>7 DEF WaitsFor, InTx
  <2>3. /\ input[q] \in CreateInput /\ ids[q] = NewIDs(q) /\ saved[q] \in Nat
    BY <2>2, MaxTimesAssumption
       DEF IInv, TypeInv, TypeOK, BodyOK, CreateCalls, AnswerInv, RequestInv, HoldOK
  <2>4. j \in DOMAIN input[q].times
    <3>. DEFINE m == Len(input[q].times)
    <3>1. m \in 1..MaxTimes /\ DOMAIN input[q].times = 1..m
      BY <2>3, NewRows
    <3>2. saved[q] < m \/ saved[q] <= m \/ saved[q] = m
      BY <2>2 DEF IInv, TypeInv, SavedOK
    <3>. HIDE DEF m
    <3>. QED
      BY <2>1, <2>3, <3>1, <3>2, MaxTimesAssumption
  <2>5. input[q].task = input[p].task /\ input[q].times[j] = input[p].times[n]
    BY <1>4, <2>1
  <2>6. input[q].storable
    <3>1. saved[q] # 0
      BY <2>1, <2>3
    <3>. QED
      BY <3>1 DEF AnswerInv, RequestInv, StorableOK
  <2>. HIDE DEF n
  <2>. QED
    BY <1>2, <1>3, <2>2, <2>3, <2>4, <2>5, <2>6 DEF Clash
<1>8. CASE KeyTaken(p)
  BY <1>5, <1>6, <1>8 DEF KeyTaken
<1>9. CASE DeadlockVictim(p)
  <2>1. \E q \in Requests : WaitsFor(p, q)
    BY <1>9 DEF DeadlockVictim
  <2>. QED
    BY <1>7, <2>1
<1>. QED
  BY <1>8, <1>9

LEMMA NextClashOK ==
    ASSUME IInv, AnswerInv, LookupInv, ErrorInv, NEW p \in Requests, Step(p), NEW q \in Requests
    PROVE  ClashOK(q)'
<1>. SUFFICES ASSUME pc'[q] = "Rollback", q \notin faulty'
              PROVE  ~input'[q].storable \/ \E r \in Requests : Clash(q, r)'
  BY DEF ClashOK
<1>1. /\ input'[q] = input[q]
      /\ ~input[q].storable \/ \E r \in Requests : Clash(q, r)
  <2>1. CASE q # p
    BY <2>1, OthersKept DEF IInv, Untouched, ErrorInv, ClashOK
  <2>2. CASE q = p
    <3>1. Begin(p) \/ Save(p) \/ Fail(p)
      BY <2>2, CreateFrom DEF IInv
    <3>2. Save(p) /\ (~input[p].storable \/ KeyTaken(p) \/ DeadlockVictim(p))
      BY <2>2, <3>1 DEF Begin, Save, Fail, Goto, IInv, TypeInv, TypeOK
    <3>3. pc[p] = "Save" /\ input' = input
      BY <3>2 DEF Save
    <3>. QED
      BY <2>2, <3>2, <3>3, RefusedByClash
  <2>. QED
    BY <2>1, <2>2
<1>. QED
  BY <1>1, ClashKept

LEMMA NextErrorOK ==
    ASSUME IInv, AnswerInv, ErrorInv, NEW p \in Requests, Step(p), NEW q \in Requests
    PROVE  ErrorOK(q)'
<1>. SUFFICES ASSUME reply'[q] = 500, q \notin faulty'
              PROVE  \/ /\ input'[q].op = "create"
                        /\ ~input'[q].storable \/ \E r \in Requests : Clash(q, r)'
                     \/ input'[q].op = "throttle" /\ removedBy'[input'[q].id] \notin {Null, q}
  BY DEF ErrorOK
<1>1. q \notin faulty
  BY Grows
<1>2. CASE reply[q] = 500
  <2>1. pc[q] = "replied" /\ input[q] \in AllInputs
    BY <1>2 DEF AnswerInv, RequestInv, ReplyOK, IInv, TypeInv, TypeOK
  <2>2. input'[q] = input[q]
    BY <2>1, AnsweredKept DEF IInv, Untouched
  <2>3. CASE /\ input[q].op = "create"
             /\ ~input[q].storable \/ \E r \in Requests : Clash(q, r)
    <3>1. ~input'[q].storable \/ \E r \in Requests : Clash(q, r)'
      BY <2>2, <2>3, ClashKept
    <3>2. input'[q].op = "create"
      BY <2>2, <2>3
    <3>. QED
      BY <3>1, <3>2
  <2>4. CASE input[q].op = "throttle" /\ removedBy[input[q].id] \notin {Null, q}
    <3>1. input[q].id \in RemindIDs
      BY <2>1, <2>4, Bodies DEF ThrottleInput
    <3>. QED
      BY <2>2, <2>4, <3>1, BornStep
  <2>. QED
    BY <1>1, <1>2, <2>3, <2>4 DEF ErrorInv, ErrorOK
<1>3. CASE reply[q] # 500
  <2>1. q = p /\ reply[p] = 0
    BY <1>3, OthersKept, EndedIsOver DEF IInv, AnswerInv, RequestInv, ReplyOK, Ended
  <2>2. CASE Rollback(p)
    <3>1. input[p] \in CreateInput /\ input' = input /\ pc[p] = "Rollback"
      BY <2>2 DEF Rollback, IInv, TypeInv, BodyOK, CreateCalls
    <3>2. ~input[p].storable \/ \E r \in Requests : Clash(p, r)
      BY <1>1, <2>1, <3>1 DEF ErrorInv, ClashOK
    <3>3. ~input'[p].storable \/ \E r \in Requests : Clash(p, r)'
      BY <3>1, <3>2, ClashKept
    <3>. QED
      BY <2>1, <3>1, <3>3 DEF CreateInput
  <2>3. CASE Update(p)
    <3>1. /\ input[p] \in ThrottleInput /\ input' = input /\ removedBy' = removedBy
          /\ pc[p] = "Update"
      BY <2>3, UpdateTable DEF IInv, Update
    <3>2. input[p].id \notin Live
      BY <2>1, <2>3 DEF Update, EndOrLost, End, IInv, TypeInv, TypeOK
    <3>3. removedBy[input[p].id] # Null /\ input[p].id \in RemindIDs
      BY <3>1, <3>2 DEF IInv, CopyInv, Born, ThrottleInput
    <3>4. input[removedBy[input[p].id]] \in DeleteInput \cup CancelInput
      BY <3>3 DEF AnswerInv, TableInv, RemoverOK
    <3>5. removedBy[input[p].id] # p
      BY <3>1, <3>4 DEF ThrottleInput, DeleteInput, CancelInput
    <3>. QED
      BY <2>1, <3>1, <3>3, <3>5 DEF ThrottleInput
  <2>. QED
    BY <2>1, <2>2, <2>3, Replies DEF IInv
<1>. QED
  BY <1>2, <1>3

\* Without an outside failure a request is answered 500 only for a creation
\* whose tokens the column refuses or that clashes with another, or with itself,
\* and for an update whose remind another request removed after it was read.
THEOREM ErrorsAreExplained == Spec => []InternalErrorsExplained
<1>1. Init => ErrorInv
  BY DEF Init, ErrorInv, ClashOK, ErrorOK
<1>2. IInv /\ AnswerInv /\ LookupInv /\ ErrorInv /\ [Next]_vars => ErrorInv'
  <2>. SUFFICES ASSUME IInv, AnswerInv, LookupInv, ErrorInv, [Next]_vars PROVE ErrorInv'
    OBVIOUS
  <2>1. CASE UNCHANGED vars
    BY <2>1 DEF ErrorInv, ClashOK, ErrorOK, Clash, NewIDs, vars
  <2>2. CASE \E p \in Requests : Step(p)
    BY <2>2, NextClashOK, NextErrorOK DEF ErrorInv
  <2>. QED
    BY <2>1, <2>2 DEF Next, Quiescent, Step
<1>3. ErrorInv => InternalErrorsExplained
  BY DEF ErrorInv, ErrorOK, InternalErrorsExplained
<1>. QED
  BY AnswersInvariance, LookupInvariance, <1>1, <1>2, <1>3, PTL DEF Spec

-----------------------------------------------------------------------------
(* UpdateThrottled again: a remind that was not found. *)

\* The body of NotFoundStaysGone.
NotFoundOK(p) == reply[p] = 404 /\ p \notin faulty => input[p].id \notin Live

LEMMA NextNotFoundOK ==
    ASSUME IInv, AnswerInv, \A r \in Requests : NotFoundOK(r),
           NEW p \in Requests, Step(p), NEW q \in Requests
    PROVE  NotFoundOK(q)'
<1>. SUFFICES ASSUME reply'[q] = 404, q \notin faulty'
              PROVE  input'[q].id \notin Live'
  BY DEF NotFoundOK
<1>1. CASE reply[q] = 404
  <2>1. /\ pc[q] = "replied" /\ input[q] \in ThrottleInput
    BY <1>1 DEF AnswerInv, RequestInv, ReplyOK
  <2>2. input'[q] = input[q] /\ q \notin faulty
    BY <2>1, AnsweredKept DEF IInv, Untouched
  <2>3. /\ input[q].id \in RemindIDs /\ input[q].id \notin Live
        /\ Born(input[q].id) \/ input[q].id[1] = Earlier
    BY <1>1, <2>1, <2>2 DEF ThrottleInput, NotFoundOK, AnswerInv, RequestInv, KnownOK
  <2>. QED
    BY <2>2, <2>3, StaysGone
<1>2. CASE reply[q] # 404
  <2>1. q = p /\ reply[p] = 0
    BY <1>2, OthersKept, EndedIsOver DEF IInv, AnswerInv, RequestInv, ReplyOK, Ended
  <2>2. FindByID(p)
    BY <2>1, Replies DEF IInv, Fail
  <2>3. input' = input /\ Live' = Live
    BY <2>2 DEF FindByID, Live
  <2>4. input[p].id \notin Live
    BY <2>1, <2>2 DEF FindByID, Goto
  <2>. QED
    BY <2>1, <2>3, <2>4
<1>. QED
  BY <1>1, <1>2

\* A remind a look-up did not find is not brought back by an update that still
\* holds a copy, nor by any other step.
THEOREM NotFoundIsFinal == Spec => []NotFoundStaysGone
<1>. DEFINE Inv == \A p \in Requests : NotFoundOK(p)
<1>1. Init => Inv
  BY DEF Init, NotFoundOK
<1>2. IInv /\ AnswerInv /\ Inv /\ [Next]_vars => Inv'
  <2>. SUFFICES ASSUME IInv, AnswerInv, Inv, [Next]_vars PROVE Inv'
    OBVIOUS
  <2>1. CASE UNCHANGED vars
    BY <2>1 DEF NotFoundOK, Live, vars
  <2>2. CASE \E p \in Requests : Step(p)
    BY <2>2, NextNotFoundOK
  <2>. QED
    BY <2>1, <2>2 DEF Next, Quiescent, Step
<1>3. Inv => NotFoundStaysGone
  BY DEF NotFoundOK, NotFoundStaysGone
<1>. HIDE DEF Inv
<1>. QED
  BY AnswersInvariance, <1>1, <1>2, <1>3, PTL DEF Spec

-----------------------------------------------------------------------------
(* CancelRemindByTaskID again: the event. *)

\* A cancel that selected something and was answered published it.
EventOK(p) ==
    PublisherEnabled /\ p \notin faulty /\ reply[p] = 204 /\ input[p] \in CancelInput
        => ids[p] = {} \/ Event(p) \in events

LEMMA NextEventOK ==
    ASSUME IInv, AnswerInv, \A r \in Requests : EventOK(r),
           NEW p \in Requests, Step(p), NEW q \in Requests
    PROVE  EventOK(q)'
<1>. SUFFICES ASSUME PublisherEnabled, q \notin faulty', reply'[q] = 204,
                     input'[q] \in CancelInput
              PROVE  ids'[q] = {} \/ Event(q)' \in events'
  BY DEF EventOK
<1>1. CASE reply[q] = 204
  <2>1. pc[q] = "replied"
    BY <1>1 DEF AnswerInv, RequestInv, ReplyOK
  <2>2. input'[q] = input[q] /\ ids'[q] = ids[q] /\ q \notin faulty
    BY <2>1, AnsweredKept DEF IInv, Untouched
  <2>3. Event(q)' = Event(q)
    BY <2>2 DEF Event
  <2>. QED
    BY <1>1, <2>2, <2>3, Grows DEF EventOK
<1>2. CASE reply[q] # 204
  <2>1. q = p /\ reply[p] = 0
    BY <1>2, OthersKept, EndedIsOver DEF IInv, AnswerInv, RequestInv, ReplyOK, Ended
  <2>2. CASE Delete(p)
    <3>1. input'[p] \in DeleteInput
      BY <2>2 DEF Delete, IInv, TypeInv, BodyOK
    <3>. QED
      BY <2>1, <3>1 DEF DeleteInput, CancelInput
  <2>3. CASE SelectByTaskID(p)
    <3>1. OfTask(input[p].task) = {}
      BY <2>1, <2>3 DEF SelectByTaskID, Goto
    <3>. QED
      BY <2>1, <2>3, <3>1 DEF SelectByTaskID, Hold, IInv, TypeInv, TypeOK
  <2>4. CASE DeleteByTaskID(p)
    <3>1. Goto(p, "Publish") \/ End(p, 500)
      BY <2>4 DEF DeleteByTaskID
    <3>. QED
      BY <2>1, <3>1 DEF Goto, End, IInv, TypeInv, TypeOK
  <2>5. CASE Publish(p)
    <3>1. Event(p) \in events'
      BY <2>1, <2>5 DEF Publish
    <3>2. Event(p)' = Event(p)
      BY <2>5 DEF Publish, Event
    <3>. QED
      BY <2>1, <3>1, <3>2
  <2>. QED
    BY <2>1, <2>2, <2>3, <2>4, <2>5, Replies DEF IInv
<1>. QED
  BY <1>1, <1>2

\* What a cancel selected and deleted itself is in its event once it was
\* answered: only a failing publisher or a stop loses an event.
THEOREM CancelsAreAnnounced == Spec => []RemovedAreAnnounced
<1>. DEFINE Inv == \A p \in Requests : EventOK(p)
<1>1. Init => Inv
  BY DEF Init, EventOK
<1>2. IInv /\ AnswerInv /\ Inv /\ [Next]_vars => Inv'
  <2>. SUFFICES ASSUME IInv, AnswerInv, Inv, [Next]_vars PROVE Inv'
    OBVIOUS
  <2>1. CASE UNCHANGED vars
    BY <2>1 DEF EventOK, Event, vars
  <2>2. CASE \E p \in Requests : Step(p)
    BY <2>2, NextEventOK
  <2>. QED
    BY <2>1, <2>2 DEF Next, Quiescent, Step
<1>3. AnswerInv /\ Inv => RemovedAreAnnounced
  <2>. SUFFICES ASSUME AnswerInv, Inv, NEW p \in Requests,
                       PublisherEnabled, p \notin faulty, reply[p] = 204,
                       input[p].op = "cancel", NEW k \in ids[p]
                PROVE  Event(p) \in events
    BY DEF RemovedAreAnnounced
  <2>1. input[p] \in CancelInput
    <3>1. input[p] \in DeleteInput \cup CancelInput
      BY DEF AnswerInv, RequestInv, ReplyOK
    <3>. QED
      BY <3>1 DEF DeleteInput
  <2>. QED
    BY <2>1 DEF EventOK
<1>. HIDE DEF Inv
<1>. QED
  BY AnswersInvariance, <1>1, <1>2, <1>3, PTL DEF Spec

-----------------------------------------------------------------------------
(* GetRemindsByTimeRange: what a list shows. *)

LEMMA NextRangeSeesAnswered ==
    ASSUME IInv, AnswerInv, RangeSeesAnswered, NEW p \in Requests, Step(p)
    PROVE  RangeSeesAnswered'
<1>. DEFINE In(row, b) == b.start <= row.time /\ row.time <= b.end
<1>. SUFFICES ASSUME NEW q \in Requests, reply'[q] = 200, input'[q].op = "range"
              PROVE  /\ \A k \in ids'[q] \cap Live' : In(table'[k], input'[q])
                     /\ \A r \in before'[q] : reply'[r] = 201 =>
                           \A k \in ids'[r] \cap Live' :
                               In(table'[k], input'[q]) => k \in ids'[q]
  BY DEF RangeSeesAnswered
<1>1. CASE reply[q] = 200
  <2>1. pc[q] = "replied"
    BY <1>1 DEF AnswerInv, RequestInv, ReplyOK
  <2>2. input'[q] = input[q] /\ ids'[q] = ids[q] /\ before'[q] = before[q]
    BY <2>1, AnsweredKept DEF IInv, Untouched
  <2>3. ids[q] \subseteq RemindIDs /\ \A k \in ids[q] : Born(k)
    <3>1. input[q] \notin CreateInput
      BY <2>2 DEF CreateInput
    <3>. QED
      BY <3>1 DEF AnswerInv, RequestInv, HoldOK, IInv, TypeInv, TypeOK
  <2>4. \A k \in RemindIDs : Born(k) /\ k \in Live' =>
           k \in Live /\ table'[k].time = table[k].time
    <3>1. \A k \in RemindIDs : Born(k) /\ k \in Live' =>
             k \in Live /\ Key(table'[k]) = Key(table[k])
      BY TableStep DEF IInv
    <3>. QED
      BY <3>1 DEF Key
  <2>5. /\ \A k \in ids[q] \cap Live : In(table[k], input[q])
        /\ \A r \in before[q] : reply[r] = 201 =>
              \A k \in ids[r] \cap Live : In(table[k], input[q]) => k \in ids[q]
    BY <1>1, <2>2 DEF RangeSeesAnswered
  <2>6. ASSUME NEW k \in ids'[q] \cap Live' PROVE In(table'[k], input'[q])
    BY <2>2, <2>3, <2>4, <2>5, <2>6
  <2>7. ASSUME NEW r \in before'[q], reply'[r] = 201, NEW k \in ids'[r] \cap Live',
               In(table'[k], input'[q])
        PROVE  k \in ids'[q]
    <3>1. r \in before[q] /\ reply[r] = 201 /\ k \in ids[r] /\ k \in RemindIDs /\ Born(k)
      BY <2>2, <2>7, AnsweredBefore
    <3>2. k \in Live /\ In(table[k], input[q])
      BY <2>2, <2>4, <2>7, <3>1
    <3>. QED
      BY <2>2, <2>5, <3>1, <3>2
  <2>. QED
    BY <2>6, <2>7
<1>2. CASE reply[q] # 200
  <2>1. q = p /\ reply[p] = 0
    BY <1>2, OthersKept, EndedIsOver DEF IInv, AnswerInv, RequestInv, ReplyOK, Ended
  <2>2. ~Update(p)
    <3>1. SUFFICES ASSUME Update(p) PROVE FALSE
      OBVIOUS
    <3>2. input'[p] \in ThrottleInput
      BY <3>1, UpdateTable DEF IInv, Update
    <3>. QED
      BY <2>1, <3>2 DEF ThrottleInput
  <2>3. FindByTimeRange(p)
    BY <2>1, <2>2, Replies DEF IInv
  <2>4. /\ input' = input /\ before' = before /\ table' = table /\ Live' = Live
        /\ ids'[p] = {k \in Live : InRange(table[k], input[p].start, input[p].end)}
    BY <2>3 DEF FindByTimeRange, Hold, Live, IInv, TypeInv, TypeOK
  <2>. QED
    BY <2>1, <2>4 DEF InRange
<1>. QED
  BY <1>1, <1>2

\* A range query lists every remind, still there, of a creation answered before
\* the query arrived, and nothing out of its range, whatever is created, updated
\* and deleted before and after it.
THEOREM RangesSeeAnswered == Spec => []RangeSeesAnswered
<1>1. Init => RangeSeesAnswered
  BY DEF Init, RangeSeesAnswered
<1>2. IInv /\ AnswerInv /\ RangeSeesAnswered /\ [Next]_vars => RangeSeesAnswered'
  <2>. SUFFICES ASSUME IInv, AnswerInv, RangeSeesAnswered, [Next]_vars
                PROVE  RangeSeesAnswered'
    OBVIOUS
  <2>1. CASE UNCHANGED vars
    <3>1. Live' = Live
      BY <2>1 DEF Live, vars
    <3>. QED
      BY <2>1, <3>1 DEF RangeSeesAnswered, vars
  <2>. QED
    BY <2>1, NextRangeSeesAnswered DEF Next, Quiescent, Step
<1>. QED
  BY AnswersInvariance, <1>1, <1>2, PTL DEF Spec

=============================================================================
