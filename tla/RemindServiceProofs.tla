------------------------- MODULE RemindServiceProofs -------------------------
(***************************************************************************)
(* For any number of requests, tasks, times and connections: the variables  *)
(* keep their types, no two reminds of a task have one time, and a cancel    *)
(* event names only reminds that are gone for ever.                          *)
(*                                                                         *)
(* The inductive invariant says what the interleavings hide: the rows an     *)
(* open transaction inserted share no key with a committed row or with       *)
(* another transaction; an id is never used twice; and the copy              *)
(* UpdateThrottled holds agrees with the row on what an update must not      *)
(* change.                                                                   *)
(***************************************************************************)
EXTENDS RemindService, TLAPS

-----------------------------------------------------------------------------
(* The inductive invariant. *)

CreateCalls == {"FindByTaskID", "NewReminds", "Begin", "Save", "Rollback", "Commit"}

\* A request is at a call of the method its body asks for.
BodyOK(p) ==
    /\ pc[p] \in CreateCalls => input[p] \in CreateInput
    /\ pc[p] = "FindByTimeRange" => input[p] \in RangeInput
    /\ pc[p] \in {"FindByID", "Update"} => input[p] \in ThrottleInput
    /\ pc[p] = "Delete" => input[p] \in DeleteInput
    /\ pc[p] \in {"SelectByTaskID", "DeleteByTaskID", "Publish"} => input[p] \in CancelInput
    /\ pc[p] = "Update" => entity[p] \in Rows

\* Only an open transaction has inserted rows, and no more than it has to.
SavedOK(p) ==
    /\ ~InTx(p) => saved[p] = 0
    /\ pc[p] = "Save" => saved[p] < Len(input[p].times)
    /\ pc[p] = "Rollback" => saved[p] <= Len(input[p].times)
    /\ pc[p] = "Commit" => saved[p] = Len(input[p].times)

TypeInv ==
    /\ TypeOK
    /\ \A p \in Requests : BodyOK(p) /\ SavedOK(p)

\* The ids a request may still give to its reminds were never in the table,
\* and a removed id is not in it.
FreshInv ==
    /\ \A p \in Requests : pc[p] \in {"idle"} \cup CreateCalls =>
            \A i \in 1..MaxTimes : <<p, i>> \notin Live /\ removedBy[<<p, i>>] = Null
    /\ \A k \in RemindIDs : removedBy[k] # Null => k \notin Live

\* What the other parts need of it: a commit brings ids that were never in the
\* table, and what is removed stays so.
UnbornInv ==
    /\ \A p \in Requests : pc[p] = "Commit" => \A k \in NewIDs(p) : ~Born(k)
    /\ \A k \in RemindIDs : removedBy[k] # Null => k \notin Live

\* The rows of a transaction have keys of their own.
KeyInv ==
    /\ UniqueKey
    /\ \A p \in Requests : \A i, j \in 1..saved[p] :
            Key(NewRow(p, i)) = Key(NewRow(p, j)) => i = j
    /\ \A p, q \in Requests : \A i \in 1..saved[p], j \in 1..saved[q] :
            Key(NewRow(p, i)) = Key(NewRow(q, j)) => p = q
    /\ \A p \in Requests : \A i \in 1..saved[p], k \in Live :
            Key(NewRow(p, i)) # Key(table[k])

\* The copy an update is about to write differs from the row in the flag alone.
CopyInv ==
    \A p \in Requests : pc[p] = "Update" =>
        /\ Born(input[p].id)
        /\ input[p].id \in Live => Key(entity[p]) = Key(table[input[p].id])

\* What a cancel request selected is of its task as long as it is there, and
\* gone when it comes to publish.
CancelInv ==
    /\ \A p \in Requests : pc[p] = "DeleteByTaskID" =>
            \A k \in ids[p] : Born(k) /\ (k \in Live => table[k].task = input[p].task)
    /\ \A p \in Requests : pc[p] = "Publish" => \A k \in ids[p] : removedBy[k] # Null
    /\ \A e \in events : \A k \in e.ids : removedBy[k] # Null

IInv == TypeInv /\ FreshInv /\ KeyInv /\ CopyInv /\ CancelInv

\* The part of it that also holds if requests are sent again.
SharedInv == TypeInv /\ UnbornInv /\ KeyInv /\ CopyInv /\ CancelInv

-----------------------------------------------------------------------------
(* What the operators of the model return. *)

LEMMA TimeListIsSeq ==
    ASSUME NEW l \in TimeLists
    PROVE  Len(l) \in 1..MaxTimes /\ l \in [1..Len(l) -> Times] /\ DOMAIN l = 1..Len(l)
<1>1. PICK n \in 1..MaxTimes : l \in [1..n -> Times]
  BY DEF TimeLists
<1>2. l \in Seq(Times) /\ Len(l) = n
  BY <1>1, MaxTimesAssumption
<1>. QED
  BY <1>1, <1>2

\* A create request makes rows of the table, under ids of its own.
LEMMA NewRows ==
    ASSUME NEW p \in Requests, input[p] \in CreateInput
    PROVE  /\ DOMAIN input[p].times = 1..Len(input[p].times)
           /\ Len(input[p].times) \in 1..MaxTimes
           /\ NewIDs(p) = {<<p, i>> : i \in 1..Len(input[p].times)}
           /\ NewIDs(p) \subseteq RemindIDs
           /\ \A i \in 1..Len(input[p].times) : NewRow(p, i) \in Rows
<1>1. input[p].times \in TimeLists /\ input[p].task \in Tasks
  BY DEF CreateInput
<1>2. /\ Len(input[p].times) \in 1..MaxTimes
      /\ input[p].times \in [1..Len(input[p].times) -> Times]
      /\ DOMAIN input[p].times = 1..Len(input[p].times)
  BY <1>1, TimeListIsSeq
<1>. DEFINE n == Len(input[p].times)
<1>3. \A i \in 1..n : i \in 1..MaxTimes
  <2>. HIDE DEF n
  <2>. QED
    BY <1>2, MaxTimesAssumption DEF n
<1>4. NewIDs(p) = {<<p, i>> : i \in 1..n}
  BY <1>2 DEF NewIDs
<1>5. NewIDs(p) \subseteq RemindIDs
  BY <1>3, <1>4 DEF RemindIDs
<1>6. \A i \in 1..n : NewRow(p, i) \in Rows
  BY <1>1, <1>2 DEF NewRow, Rows
<1>. QED
  BY <1>2, <1>4, <1>5, <1>6

LEMMA MarkedIsRow == ASSUME NEW row \in Rows PROVE MarkAsThrottled(row) \in Rows
BY DEF MarkAsThrottled, Rows

LEMMA UpdatedIsRow ==
    ASSUME NEW row \in Rows, NEW e \in Rows
    PROVE  UpdatedRow(row, e) \in Rows
BY DEF UpdatedRow, Rows

\* Marking a copy and writing a copy back leave task and time alone.
LEMMA MarkedKey == ASSUME NEW row \in Rows PROVE Key(MarkAsThrottled(row)) = Key(row)
BY DEF MarkAsThrottled, Rows, Key

LEMMA UpdatedKey ==
    ASSUME NEW row \in Rows, NEW e \in Rows
    PROVE  Key(UpdatedRow(row, e)) = Key(e)
BY DEF UpdatedRow, Rows, Key

-----------------------------------------------------------------------------
(* Types. *)

LEMMA InitTypeInv == Init => TypeInv
<1>. SUFFICES ASSUME Init PROVE TypeInv
  OBVIOUS
<1>1. PICK S \in SUBSET EarlierIDs : table \in [S -> Rows]
  BY DEF Init
<1>2. Live \subseteq RemindIDs /\ table \in [Live -> Rows]
  BY <1>1 DEF Live, RemindIDs
<1>3. 0 \in 0..MaxTimes
  BY MaxTimesAssumption
<1>4. TypeOK
  BY <1>2, <1>3 DEF Init, TypeOK, Statuses
<1>5. \A p \in Requests : BodyOK(p) /\ SavedOK(p)
  BY DEF Init, BodyOK, SavedOK, InTx, CreateCalls
<1>. QED
  BY <1>4, <1>5 DEF TypeInv

LEMMA ReceiveTypeInv == ASSUME TypeInv, NEW p \in Requests, Receive(p) PROVE TypeInv'
<1>1. PICK b \in Inputs :
        /\ input' = [input EXCEPT ![p] = b]
        /\ before' = [before EXCEPT ![p] = {q \in Requests : pc[q] = "replied"}]
        /\ \/ Accepted(b) /\ Goto(p, FirstCall(b.op))
           \/ End(p, 400)
  BY DEF Receive
<1>2. b \in AllInputs
  BY InputsAssumption
<1>3. /\ b.op = "create" => b \in CreateInput
      /\ b.op = "range" => b \in RangeInput
      /\ b.op = "throttle" => b \in ThrottleInput
      /\ b.op = "delete" => b \in DeleteInput
      /\ b.op = "cancel" => b \in CancelInput
      /\ b.op \in {"create", "range", "throttle", "delete", "cancel"}
  BY <1>2 DEF AllInputs, CreateInput, RangeInput, ThrottleInput, DeleteInput, CancelInput
<1>4. pc[p] = "idle"
  BY DEF Receive
<1>5. pc' \in [Requests -> {"idle"} \cup Calls \cup Ended] /\ reply' \in [Requests -> Statuses]
  BY <1>1, <1>3 DEF TypeInv, TypeOK, Goto, End, FirstCall, Calls, Ended, Statuses
<1>6. TypeOK'
  BY <1>1, <1>2, <1>5 DEF TypeInv, TypeOK, Receive, Live
<1>7. \A q \in Requests \ {p} : pc'[q] = pc[q] /\ input'[q] = input[q]
  BY <1>1 DEF TypeInv, TypeOK, Goto, End
<1>8. input'[p] = b
  BY <1>1 DEF TypeInv, TypeOK
<1>9. \A q \in Requests : saved'[q] = saved[q] /\ entity'[q] = entity[q]
  BY DEF Receive
<1>10. /\ pc'[p] \in {"FindByTaskID", "FindByTimeRange", "FindByID", "Delete",
                      "SelectByTaskID", "replied"}
       /\ pc'[p] = "FindByTaskID" => b.op = "create"
       /\ pc'[p] = "FindByTimeRange" => b.op = "range"
       /\ pc'[p] = "FindByID" => b.op = "throttle"
       /\ pc'[p] = "Delete" => b.op = "delete"
       /\ pc'[p] = "SelectByTaskID" => b.op = "cancel"
  BY <1>1, <1>3 DEF TypeInv, TypeOK, Goto, End, FirstCall
<1>11. saved[p] = 0
  BY <1>4 DEF TypeInv, SavedOK, InTx
<1>12. BodyOK(p)' /\ SavedOK(p)'
  BY <1>3, <1>8, <1>9, <1>10, <1>11 DEF BodyOK, SavedOK, InTx, CreateCalls
<1>13. \A q \in Requests \ {p} : BodyOK(q)' /\ SavedOK(q)'
  BY <1>7, <1>9 DEF TypeInv, BodyOK, SavedOK, InTx
<1>. QED
  BY <1>6, <1>12, <1>13 DEF TypeInv

\* The steps before the transaction.
LEMMA CreateTypeInv ==
    ASSUME TypeInv, NEW p \in Requests, FindByTaskID(p) \/ NewReminds(p) \/ Begin(p)
    PROVE  TypeInv'
<1>1. input[p] \in CreateInput /\ pc[p] \in {"FindByTaskID", "NewReminds", "Begin"}
  BY DEF TypeInv, BodyOK, CreateCalls, FindByTaskID, NewReminds, Begin
<1>2. /\ UNCHANGED <<input, entity, saved, table, events, removedBy, faulty, before>>
      /\ \/ End(p, 201) \/ End(p, 400)
         \/ Goto(p, "NewReminds") \/ Goto(p, "Begin") \/ Goto(p, "Save")
      /\ UNCHANGED ids \/ Hold(p, OfTask(input[p].task)) \/ Hold(p, NewIDs(p))
  BY DEF FindByTaskID, NewReminds, Begin
<1>3. OfTask(input[p].task) \subseteq RemindIDs /\ NewIDs(p) \subseteq RemindIDs
  BY <1>1, NewRows DEF TypeInv, TypeOK, OfTask
<1>4. ids' \in [Requests -> SUBSET RemindIDs]
  BY <1>2, <1>3 DEF TypeInv, TypeOK, Hold
<1>5. pc' \in [Requests -> {"idle"} \cup Calls \cup Ended] /\ reply' \in [Requests -> Statuses]
  BY <1>2 DEF TypeInv, TypeOK, Goto, End, Calls, Ended, Statuses
<1>6. TypeOK'
  BY <1>2, <1>4, <1>5 DEF TypeInv, TypeOK, Live
<1>7. /\ \A q \in Requests \ {p} : pc'[q] = pc[q]
      /\ pc'[p] \in {"NewReminds", "Begin", "Save", "replied"}
  BY <1>2 DEF TypeInv, TypeOK, Goto, End
<1>8. saved[p] = 0 /\ 0 < Len(input[p].times)
  BY <1>1, NewRows DEF TypeInv, SavedOK, InTx
<1>9. BodyOK(p)' /\ SavedOK(p)'
  BY <1>1, <1>2, <1>7, <1>8 DEF BodyOK, SavedOK, InTx, CreateCalls
<1>10. \A q \in Requests \ {p} : BodyOK(q)' /\ SavedOK(q)'
  BY <1>2, <1>7 DEF TypeInv, BodyOK, SavedOK, InTx
<1>. QED
  BY <1>6, <1>9, <1>10 DEF TypeInv

LEMMA SaveTypeInv == ASSUME TypeInv, NEW p \in Requests, Save(p) PROVE TypeInv'
<1>1. /\ input[p] \in CreateInput /\ pc[p] = "Save"
      /\ saved[p] \in Nat /\ saved[p] < Len(input[p].times)
  BY MaxTimesAssumption DEF TypeInv, TypeOK, BodyOK, SavedOK, CreateCalls, Save
<1>2. Len(input[p].times) \in 1..MaxTimes
  BY <1>1, NewRows
<1>. DEFINE n == Len(input[p].times)
<1>3. UNCHANGED <<input, ids, entity, table, events, removedBy, faulty, before, reply>>
  BY DEF Save, Goto
<1>4. \/ pc' = [pc EXCEPT ![p] = "Rollback"] /\ saved' = saved
      \/ /\ saved' = [saved EXCEPT ![p] = saved[p] + 1]
         /\ pc' = [pc EXCEPT ![p] = IF saved[p] + 1 = n THEN "Commit" ELSE "Save"]
  BY DEF Save, Goto
<1>. HIDE DEF n
<1>5. n \in 1..MaxTimes /\ saved[p] < n /\ n \in Nat
  BY <1>1, <1>2, MaxTimesAssumption DEF n
<1>6. saved[p] + 1 \in 0..MaxTimes /\ saved[p] + 1 <= n
  BY <1>1, <1>5, MaxTimesAssumption
<1>7. saved' \in [Requests -> 0..MaxTimes]
  BY <1>4, <1>6 DEF TypeInv, TypeOK
<1>8. pc' \in [Requests -> {"idle"} \cup Calls \cup Ended]
  BY <1>4 DEF TypeInv, TypeOK, Calls
<1>9. TypeOK'
  BY <1>3, <1>7, <1>8 DEF TypeInv, TypeOK, Live
<1>10. \A q \in Requests \ {p} : pc'[q] = pc[q] /\ saved'[q] = saved[q]
  BY <1>4 DEF TypeInv, TypeOK
<1>11. \/ pc'[p] = "Rollback" /\ saved'[p] = saved[p]
       \/ pc'[p] = "Commit" /\ saved'[p] = n
       \/ pc'[p] = "Save" /\ saved'[p] = saved[p] + 1 /\ saved[p] + 1 # n
  BY <1>4 DEF TypeInv, TypeOK
<1>12. SavedOK(p)'
  BY <1>1, <1>3, <1>5, <1>6, <1>11 DEF SavedOK, InTx, n
<1>13. BodyOK(p)'
  BY <1>1, <1>3, <1>11 DEF BodyOK, CreateCalls
<1>14. \A q \in Requests \ {p} : BodyOK(q)' /\ SavedOK(q)'
  BY <1>3, <1>10 DEF TypeInv, BodyOK, SavedOK, InTx
<1>. QED
  BY <1>9, <1>12, <1>13, <1>14 DEF TypeInv

\* A request that ends, or loses its instance, and has no row in a transaction.
LEMMA EndedKeepsShape ==
    ASSUME TypeInv, NEW p \in Requests, UNCHANGED <<input, entity>>,
           \/ \E status \in Statuses : End(p, status)
           \/ pc' = [pc EXCEPT ![p] = "crashed"],
           saved' = [saved EXCEPT ![p] = 0] \/ (saved' = saved /\ ~InTx(p))
    PROVE  /\ \A q \in Requests : BodyOK(q)' /\ SavedOK(q)'
           /\ pc' \in [Requests -> {"idle"} \cup Calls \cup Ended]
           /\ saved' \in [Requests -> 0..MaxTimes]
<1>1. pc'[p] \in {"replied", "crashed"} /\ \A q \in Requests \ {p} : pc'[q] = pc[q]
  BY DEF TypeInv, TypeOK, End
<1>2. saved'[p] = 0 /\ \A q \in Requests \ {p} : saved'[q] = saved[q]
  BY DEF TypeInv, TypeOK, SavedOK
<1>3. BodyOK(p)' /\ SavedOK(p)'
  BY <1>1, <1>2 DEF BodyOK, SavedOK, InTx, CreateCalls
<1>4. \A q \in Requests \ {p} : BodyOK(q)' /\ SavedOK(q)'
  BY <1>1, <1>2 DEF TypeInv, BodyOK, SavedOK, InTx
<1>5. pc' \in [Requests -> {"idle"} \cup Calls \cup Ended]
  BY DEF TypeInv, TypeOK, End, Ended
<1>6. saved' \in [Requests -> 0..MaxTimes]
  BY MaxTimesAssumption DEF TypeInv, TypeOK
<1>. QED
  BY <1>3, <1>4, <1>5, <1>6

\* A request that goes from one call outside a transaction to another.
LEMMA GotoKeepsShape ==
    ASSUME TypeInv, NEW p \in Requests, NEW call \in Calls, Goto(p, call),
           UNCHANGED <<input, saved>>, ~InTx(p), BodyOK(p)', ~InTx(p)',
           \A q \in Requests \ {p} : entity'[q] = entity[q]
    PROVE  /\ \A q \in Requests : BodyOK(q)' /\ SavedOK(q)'
           /\ pc' \in [Requests -> {"idle"} \cup Calls \cup Ended]
<1>1. pc'[p] = call /\ \A q \in Requests \ {p} : pc'[q] = pc[q]
  BY DEF TypeInv, TypeOK, Goto
<1>2. SavedOK(p)'
  BY DEF TypeInv, SavedOK, InTx
<1>3. \A q \in Requests \ {p} : BodyOK(q)' /\ SavedOK(q)'
  BY <1>1 DEF TypeInv, BodyOK, SavedOK, InTx
<1>4. pc' \in [Requests -> {"idle"} \cup Calls \cup Ended]
  BY DEF TypeInv, TypeOK, Goto
<1>. QED
  BY <1>2, <1>3, <1>4

\* Replying keeps the type of the statuses; so does going on.
LEMMA ReplyType ==
    ASSUME TypeInv, NEW p \in Requests,
           \/ \E status \in Statuses : End(p, status)
           \/ UNCHANGED reply
    PROVE  reply' \in [Requests -> Statuses]
BY DEF TypeInv, TypeOK, End

LEMMA RollbackTypeInv == ASSUME TypeInv, NEW p \in Requests, Rollback(p) PROVE TypeInv'
<1>1. /\ UNCHANGED <<input, ids, entity, table, events, removedBy, faulty, before>>
      /\ saved' = [saved EXCEPT ![p] = 0]
      /\ \E status \in Statuses : End(p, status)
  BY DEF Rollback, Statuses
<1>2. TypeOK'
  BY <1>1, EndedKeepsShape, ReplyType DEF TypeInv, TypeOK, Live
<1>. QED
  BY <1>1, <1>2, EndedKeepsShape DEF TypeInv

LEMMA EndOrLostEnds ==
    ASSUME TypeInv, NEW p \in Requests, NEW status \in Statuses, EndOrLost(p, status)
    PROVE  (\E s \in Statuses : End(p, s)) /\ faulty' \subseteq Requests
BY DEF EndOrLost, TypeInv, TypeOK, Statuses

\* Every commit, update and deletion leaves rows under ids of reminds.
LEMMA CommitTable ==
    ASSUME TypeInv, NEW p \in Requests, Commit(p)
    PROVE  /\ input[p] \in CreateInput
           /\ Live' = Live \cup NewIDs(p)
           /\ \A k \in Live' :
                table'[k] = IF k \in NewIDs(p) THEN NewRow(p, k[2]) ELSE table[k]
           /\ \A k \in NewIDs(p) :
                k = <<p, k[2]>> /\ k[2] \in 1..Len(input[p].times) /\ NewRow(p, k[2]) \in Rows
           /\ Live' \subseteq RemindIDs /\ table' \in [Live' -> Rows]
<1>1. input[p] \in CreateInput
  BY DEF TypeInv, BodyOK, CreateCalls, Commit
<1>2. table' = [k \in Live \cup NewIDs(p) |->
                  IF k \in NewIDs(p) THEN NewRow(p, k[2]) ELSE table[k]]
  BY DEF Commit, AfterCommit
<1>3. \A k \in NewIDs(p) :
         k = <<p, k[2]>> /\ k[2] \in 1..Len(input[p].times) /\ NewRow(p, k[2]) \in Rows
  BY <1>1, NewRows
<1>4. Live' = Live \cup NewIDs(p)
  BY <1>2 DEF Live
<1>5. \A k \in Live : table[k] \in Rows
  BY DEF TypeInv, TypeOK
<1>6. Live' \subseteq RemindIDs
  BY <1>1, <1>4, NewRows DEF TypeInv, TypeOK
<1>. QED
  BY <1>1, <1>2, <1>3, <1>4, <1>5, <1>6

LEMMA CommitTypeInv == ASSUME TypeInv, NEW p \in Requests, Commit(p) PROVE TypeInv'
<1>1. /\ UNCHANGED <<input, ids, entity, events, removedBy, before>>
      /\ saved' = [saved EXCEPT ![p] = 0]
      /\ EndOrLost(p, 201)
  BY DEF Commit
<1>2. (\E status \in Statuses : End(p, status)) /\ faulty' \subseteq Requests
  BY <1>1, EndOrLostEnds DEF Statuses
<1>3. Live' \subseteq RemindIDs /\ table' \in [Live' -> Rows]
  BY CommitTable
<1>4. TypeOK'
  BY <1>1, <1>2, <1>3, EndedKeepsShape, ReplyType DEF TypeInv, TypeOK
<1>. QED
  BY <1>1, <1>2, <1>4, EndedKeepsShape DEF TypeInv

LEMMA FindByTimeRangeTypeInv ==
    ASSUME TypeInv, NEW p \in Requests, FindByTimeRange(p) PROVE TypeInv'
<1>. DEFINE found == {k \in Live : InRange(table[k], input[p].start, input[p].end)}
<1>1. /\ UNCHANGED <<input, entity, saved, table, events, removedBy, faulty, before>>
      /\ ids' = [ids EXCEPT ![p] = found]
      /\ \E status \in Statuses : End(p, status)
      /\ ~InTx(p)
  BY DEF FindByTimeRange, Hold, Statuses, InTx
<1>2. found \subseteq RemindIDs
  BY DEF TypeInv, TypeOK
<1>. HIDE DEF found
<1>3. TypeOK'
  BY <1>1, <1>2, EndedKeepsShape, ReplyType DEF TypeInv, TypeOK, Live
<1>. QED
  BY <1>1, <1>3, EndedKeepsShape DEF TypeInv

LEMMA FindByIDTypeInv == ASSUME TypeInv, NEW p \in Requests, FindByID(p) PROVE TypeInv'
<1>. DEFINE id == input[p].id
            copy == IF input[p].throttled THEN MarkAsThrottled(table[id]) ELSE table[id]
<1>1. /\ UNCHANGED <<input, ids, saved, table, events, removedBy, faulty, before>>
      /\ pc[p] = "FindByID" /\ ~InTx(p)
      /\ input[p] \in ThrottleInput
  BY DEF TypeInv, BodyOK, FindByID, InTx
<1>2. CASE id \in Live
  <2>1. entity' = [entity EXCEPT ![p] = copy] /\ Goto(p, "Update")
    BY <1>2 DEF FindByID
  <2>2. copy \in Rows
    BY <1>2, MarkedIsRow DEF TypeInv, TypeOK
  <2>. HIDE DEF copy
  <2>3. entity' \in [Requests -> Rows \cup {Null}] /\ entity'[p] = copy
        /\ \A q \in Requests \ {p} : entity'[q] = entity[q]
    BY <2>1, <2>2 DEF TypeInv, TypeOK
  <2>4. pc'[p] = "Update" /\ reply' = reply
    BY <2>1 DEF TypeInv, TypeOK, Goto
  <2>5. BodyOK(p)' /\ ~InTx(p)'
    BY <1>1, <2>2, <2>3, <2>4 DEF BodyOK, InTx, CreateCalls
  <2>6. /\ \A q \in Requests : BodyOK(q)' /\ SavedOK(q)'
        /\ pc' \in [Requests -> {"idle"} \cup Calls \cup Ended]
    <3>1. "Update" \in Calls
      BY DEF Calls
    <3>. QED
      BY <1>1, <2>1, <2>3, <2>5, <3>1, GotoKeepsShape
  <2>7. TypeOK'
    BY <1>1, <2>3, <2>4, <2>6 DEF TypeInv, TypeOK, Live
  <2>. QED
    BY <2>6, <2>7 DEF TypeInv
<1>3. CASE id \notin Live
  <2>1. UNCHANGED entity /\ \E status \in Statuses : End(p, status)
    BY <1>3 DEF FindByID, Statuses
  <2>2. TypeOK'
    BY <1>1, <2>1, EndedKeepsShape, ReplyType DEF TypeInv, TypeOK, Live
  <2>. QED
    BY <1>1, <2>1, <2>2, EndedKeepsShape DEF TypeInv
<1>. QED
  BY <1>2, <1>3

LEMMA UpdateTable ==
    ASSUME TypeInv, NEW p \in Requests, Update(p)
    PROVE  /\ input[p] \in ThrottleInput /\ entity[p] \in Rows
           /\ Live' = Live
           /\ \A k \in Live : table'[k] = IF k = input[p].id
                                          THEN UpdatedRow(table[k], entity[p])
                                          ELSE table[k]
           /\ table' \in [Live' -> Rows]
<1>1. input[p] \in ThrottleInput /\ entity[p] \in Rows
  BY DEF TypeInv, BodyOK, Update
<1>2. table' = [k \in Live |-> IF k = input[p].id
                               THEN UpdatedRow(table[k], entity[p]) ELSE table[k]]
  BY DEF Update, AfterUpdate
<1>3. Live' = Live
  BY <1>2 DEF Live
<1>4. \A k \in Live : table[k] \in Rows
  BY DEF TypeInv, TypeOK
<1>. QED
  BY <1>1, <1>2, <1>3, <1>4, UpdatedIsRow

LEMMA UpdateTypeInv == ASSUME TypeInv, NEW p \in Requests, Update(p) PROVE TypeInv'
<1>1. UNCHANGED <<input, entity, saved, events, removedBy, before>> /\ ~InTx(p)
  BY DEF Update, InTx
<1>2. input[p].id \in RemindIDs
  BY UpdateTable DEF ThrottleInput
<1>3. /\ ids' \in [Requests -> SUBSET RemindIDs]
      /\ \E status \in Statuses : End(p, status)
      /\ faulty' \subseteq Requests
  <2>1. CASE input[p].id \in Live
    <3>1. Hold(p, {input[p].id}) /\ EndOrLost(p, 200)
      BY <2>1 DEF Update
    <3>2. ids' \in [Requests -> SUBSET RemindIDs]
      BY <1>2, <3>1 DEF TypeInv, TypeOK, Hold
    <3>. QED
      BY <3>1, <3>2, EndOrLostEnds DEF Statuses
  <2>2. CASE input[p].id \notin Live
    BY <2>2 DEF Update, TypeInv, TypeOK, Statuses
  <2>. QED
    BY <2>1, <2>2
<1>4. TypeOK'
  BY <1>1, <1>3, UpdateTable, EndedKeepsShape, ReplyType DEF TypeInv, TypeOK
<1>. QED
  BY <1>1, <1>3, <1>4, EndedKeepsShape DEF TypeInv

LEMMA RemoveTable ==
    ASSUME TypeInv, NEW p \in Requests, NEW S, Remove(p, S)
    PROVE  /\ Live' = Live \ S
           /\ \A k \in Live' : table'[k] = table[k]
           /\ table' \in [Live' -> Rows]
           /\ removedBy' \in [RemindIDs -> Requests \cup {Null}]
           /\ \A k \in RemindIDs :
                removedBy'[k] = IF k \in S \cap Live THEN p ELSE removedBy[k]
<1>1. table' = [k \in Live \ S |-> table[k]]
  BY DEF Remove, AfterDelete
<1>2. Live' = Live \ S
  BY <1>1 DEF Live
<1>3. \A k \in Live : table[k] \in Rows
  BY DEF TypeInv, TypeOK
<1>4. removedBy' = [k \in RemindIDs |-> IF k \in S \cap Live THEN p ELSE removedBy[k]]
  BY DEF Remove
<1>5. removedBy' \in [RemindIDs -> Requests \cup {Null}]
  BY <1>4 DEF TypeInv, TypeOK
<1>. QED
  BY <1>1, <1>2, <1>3, <1>4, <1>5

LEMMA DeleteTypeInv == ASSUME TypeInv, NEW p \in Requests, Delete(p) PROVE TypeInv'
<1>1. /\ UNCHANGED <<input, ids, entity, saved, events, before>> /\ ~InTx(p)
      /\ Remove(p, {input[p].id}) /\ EndOrLost(p, 204)
  BY DEF Delete, InTx
<1>2. (\E status \in Statuses : End(p, status)) /\ faulty' \subseteq Requests
  BY <1>1, EndOrLostEnds DEF Statuses
<1>3. /\ Live' \subseteq RemindIDs /\ table' \in [Live' -> Rows]
      /\ removedBy' \in [RemindIDs -> Requests \cup {Null}]
  BY <1>1, RemoveTable DEF TypeInv, TypeOK
<1>4. TypeOK'
  BY <1>1, <1>2, <1>3, EndedKeepsShape, ReplyType DEF TypeInv, TypeOK
<1>. QED
  BY <1>1, <1>2, <1>4, EndedKeepsShape DEF TypeInv

LEMMA SelectByTaskIDTypeInv ==
    ASSUME TypeInv, NEW p \in Requests, SelectByTaskID(p) PROVE TypeInv'
<1>1. /\ UNCHANGED <<input, entity, saved, table, events, removedBy, faulty, before>>
      /\ ids' = [ids EXCEPT ![p] = OfTask(input[p].task)]
      /\ ~InTx(p) /\ input[p] \in CancelInput
  BY DEF TypeInv, BodyOK, SelectByTaskID, Hold, InTx
<1>2. ids' \in [Requests -> SUBSET RemindIDs]
  BY <1>1 DEF TypeInv, TypeOK, OfTask
<1>3. CASE \E status \in Statuses : End(p, status)
  <2>1. TypeOK'
    BY <1>1, <1>2, <1>3, EndedKeepsShape, ReplyType DEF TypeInv, TypeOK, Live
  <2>. QED
    BY <1>1, <1>3, <2>1, EndedKeepsShape DEF TypeInv
<1>4. CASE Goto(p, "DeleteByTaskID")
  <2>1. pc'[p] = "DeleteByTaskID" /\ reply' = reply /\ "DeleteByTaskID" \in Calls
    BY <1>4 DEF TypeInv, TypeOK, Goto, Calls
  <2>2. BodyOK(p)' /\ ~InTx(p)'
    BY <1>1, <2>1 DEF BodyOK, InTx, CreateCalls
  <2>3. /\ \A q \in Requests : BodyOK(q)' /\ SavedOK(q)'
        /\ pc' \in [Requests -> {"idle"} \cup Calls \cup Ended]
    BY <1>1, <1>4, <2>1, <2>2, GotoKeepsShape
  <2>4. TypeOK'
    BY <1>1, <1>2, <2>1, <2>3 DEF TypeInv, TypeOK, Live
  <2>. QED
    BY <2>3, <2>4 DEF TypeInv
<1>. QED
  BY <1>3, <1>4 DEF SelectByTaskID, Statuses

LEMMA DeleteByTaskIDTypeInv ==
    ASSUME TypeInv, NEW p \in Requests, DeleteByTaskID(p) PROVE TypeInv'
<1>1. /\ UNCHANGED <<input, ids, entity, saved, events, before>>
      /\ Remove(p, OfTask(input[p].task))
      /\ ~InTx(p) /\ input[p] \in CancelInput
  BY DEF TypeInv, BodyOK, DeleteByTaskID, InTx
<1>2. /\ Live' \subseteq RemindIDs /\ table' \in [Live' -> Rows]
      /\ removedBy' \in [RemindIDs -> Requests \cup {Null}]
  BY <1>1, RemoveTable DEF TypeInv, TypeOK
<1>3. faulty' \subseteq Requests
  BY DEF TypeInv, TypeOK, DeleteByTaskID
<1>4. CASE \E status \in Statuses : End(p, status)
  <2>1. TypeOK'
    BY <1>1, <1>2, <1>3, <1>4, EndedKeepsShape, ReplyType DEF TypeInv, TypeOK
  <2>. QED
    BY <1>1, <1>4, <2>1, EndedKeepsShape DEF TypeInv
<1>5. CASE Goto(p, "Publish")
  <2>1. pc'[p] = "Publish" /\ reply' = reply /\ "Publish" \in Calls
    BY <1>5 DEF TypeInv, TypeOK, Goto, Calls
  <2>2. BodyOK(p)' /\ ~InTx(p)'
    BY <1>1, <2>1 DEF BodyOK, InTx, CreateCalls
  <2>3. /\ \A q \in Requests : BodyOK(q)' /\ SavedOK(q)'
        /\ pc' \in [Requests -> {"idle"} \cup Calls \cup Ended]
    BY <1>1, <1>5, <2>1, <2>2, GotoKeepsShape
  <2>4. TypeOK'
    BY <1>1, <1>2, <1>3, <2>1, <2>3 DEF TypeInv, TypeOK
  <2>. QED
    BY <2>3, <2>4 DEF TypeInv
<1>. QED
  BY <1>4, <1>5 DEF DeleteByTaskID, Statuses

LEMMA PublishTypeInv == ASSUME TypeInv, NEW p \in Requests, Publish(p) PROVE TypeInv'
<1>1. /\ UNCHANGED <<input, ids, entity, saved, table, removedBy, before>>
      /\ ~InTx(p) /\ input[p] \in CancelInput
      /\ \E status \in Statuses : End(p, status)
  BY DEF TypeInv, BodyOK, Publish, InTx, Statuses
<1>2. Event(p) \in [by : Requests, task : Tasks, ids : SUBSET RemindIDs]
  BY <1>1 DEF TypeInv, TypeOK, Event, CancelInput
<1>3. /\ events' \subseteq [by : Requests, task : Tasks, ids : SUBSET RemindIDs]
      /\ faulty' \subseteq Requests
  <2>1. events' \in {events, events \cup {Event(p)}} /\ faulty' \in {faulty, faulty \cup {p}}
    BY DEF Publish
  <2>. QED
    BY <1>2, <2>1 DEF TypeInv, TypeOK
<1>4. TypeOK'
  BY <1>1, <1>3, EndedKeepsShape, ReplyType DEF TypeInv, TypeOK, Live
<1>. QED
  BY <1>1, <1>4, EndedKeepsShape DEF TypeInv

LEMMA FailTypeInv == ASSUME TypeInv, NEW p \in Requests, Fail(p) PROVE TypeInv'
<1>1. /\ UNCHANGED <<input, ids, entity, table, events, removedBy, before>>
      /\ faulty' \subseteq Requests
  BY DEF TypeInv, TypeOK, Fail
<1>2. CASE pc[p] = "Save"
  <2>1. Goto(p, "Rollback") /\ saved' = saved
    BY <1>2 DEF Fail
  <2>2. pc'[p] = "Rollback" /\ reply' = reply /\ \A q \in Requests \ {p} : pc'[q] = pc[q]
    BY <2>1 DEF TypeInv, TypeOK, Goto
  <2>3. input[p] \in CreateInput /\ saved[p] < Len(input[p].times)
    BY <1>2 DEF TypeInv, BodyOK, SavedOK, CreateCalls
  <2>4. saved[p] <= Len(input[p].times)
    <3>1. Len(input[p].times) \in Nat /\ saved[p] \in Nat
      BY <2>3, NewRows, MaxTimesAssumption DEF TypeInv, TypeOK
    <3>. QED
      BY <2>3, <3>1
  <2>5. BodyOK(p)' /\ SavedOK(p)'
    BY <1>1, <2>1, <2>2, <2>3, <2>4 DEF BodyOK, SavedOK, InTx, CreateCalls
  <2>6. \A q \in Requests \ {p} : BodyOK(q)' /\ SavedOK(q)'
    BY <1>1, <2>1, <2>2 DEF TypeInv, BodyOK, SavedOK, InTx
  <2>7. TypeOK'
    BY <1>1, <2>1, <2>2 DEF TypeInv, TypeOK, Live, Goto, Calls
  <2>. QED
    BY <2>5, <2>6, <2>7 DEF TypeInv
<1>3. CASE pc[p] # "Save"
  <2>1. saved' = [saved EXCEPT ![p] = 0] /\ \E status \in Statuses : End(p, status)
    BY <1>3 DEF Fail, Statuses
  <2>2. TypeOK'
    BY <1>1, <2>1, EndedKeepsShape, ReplyType DEF TypeInv, TypeOK, Live
  <2>. QED
    BY <1>1, <2>1, <2>2, EndedKeepsShape DEF TypeInv
<1>. QED
  BY <1>2, <1>3

LEMMA CrashTypeInv == ASSUME TypeInv, NEW p \in Requests, Crash(p) PROVE TypeInv'
<1>1. /\ UNCHANGED <<input, ids, entity, table, events, reply, removedBy, faulty, before>>
      /\ saved' = [saved EXCEPT ![p] = 0]
      /\ pc' = [pc EXCEPT ![p] = "crashed"]
  BY DEF Crash
<1>2. TypeOK'
  BY <1>1, EndedKeepsShape DEF TypeInv, TypeOK, Live
<1>. QED
  BY <1>1, <1>2, EndedKeepsShape DEF TypeInv

LEMMA StutterTypeInv == TypeInv /\ UNCHANGED vars => TypeInv'
<1>. SUFFICES ASSUME TypeInv, UNCHANGED vars PROVE TypeInv'
  OBVIOUS
<1>1. TypeOK'
  BY DEF TypeInv, TypeOK, Live, vars
<1>2. \A p \in Requests : BodyOK(p)' /\ SavedOK(p)'
  BY DEF TypeInv, BodyOK, SavedOK, InTx, vars
<1>. QED
  BY <1>1, <1>2 DEF TypeInv

LEMMA NextTypeInv == TypeInv /\ [Next]_vars => TypeInv'
<1>. SUFFICES ASSUME TypeInv, [Next]_vars PROVE TypeInv'
  OBVIOUS
<1>1. CASE \E p \in Requests : Receive(p) \/ Work(p) \/ Fail(p) \/ Crash(p)
  <2>1. PICK p \in Requests : Receive(p) \/ Work(p) \/ Fail(p) \/ Crash(p)
    BY <1>1
  <2>2. CASE Receive(p)
    BY <2>2, ReceiveTypeInv
  <2>3. CASE Create(p)
    BY <2>3, CreateTypeInv, SaveTypeInv, RollbackTypeInv, CommitTypeInv DEF Create
  <2>4. CASE FindByTimeRange(p)
    BY <2>4, FindByTimeRangeTypeInv
  <2>5. CASE FindByID(p) \/ Update(p)
    BY <2>5, FindByIDTypeInv, UpdateTypeInv
  <2>6. CASE Delete(p) \/ Cancel(p)
    BY <2>6, DeleteTypeInv, SelectByTaskIDTypeInv, DeleteByTaskIDTypeInv, PublishTypeInv
       DEF Cancel
  <2>7. CASE Fail(p) \/ Crash(p)
    BY <2>7, FailTypeInv, CrashTypeInv
  <2>. QED
    BY <2>1, <2>2, <2>3, <2>4, <2>5, <2>6, <2>7 DEF Work
<1>2. CASE UNCHANGED vars
  BY <1>2, StutterTypeInv
<1>. QED
  BY <1>1, <1>2 DEF Next, Quiescent

\* Every variable always has its type.
THEOREM TypeCorrect == Spec => []TypeOK
<1>1. TypeInv => TypeOK
  BY DEF TypeInv
<1>. QED
  BY InitTypeInv, NextTypeInv, <1>1, PTL DEF Spec

-----------------------------------------------------------------------------
(* What a step does to the other requests and to the table. *)

Step(p) == Receive(p) \/ Work(p) \/ Fail(p) \/ Crash(p)

\* The steps that leave the table as it is.
QuietStep(p) ==
    \/ Receive(p) \/ FindByTaskID(p) \/ NewReminds(p) \/ Begin(p) \/ Save(p) \/ Rollback(p)
    \/ FindByTimeRange(p) \/ FindByID(p) \/ SelectByTaskID(p) \/ Publish(p)
    \/ Fail(p) \/ Crash(p)

LEMMA StepCases ==
    ASSUME NEW p \in Requests, Step(p)
    PROVE  QuietStep(p) \/ Commit(p) \/ Update(p) \/ Delete(p) \/ DeleteByTaskID(p)
BY DEF Step, Work, Create, Cancel, QuietStep

LEMMA QuietTable ==
    ASSUME NEW p \in Requests, QuietStep(p)
    PROVE  table' = table /\ removedBy' = removedBy /\ Live' = Live
<1>1. table' = table /\ removedBy' = removedBy
  BY DEF QuietStep, Receive, FindByTaskID, NewReminds, Begin, Save, Rollback,
         FindByTimeRange, FindByID, SelectByTaskID, Publish, Fail, Crash
<1>. QED
  BY <1>1 DEF Live

\* A step of p changes nothing another request holds.
Untouched(q) ==
    /\ pc'[q] = pc[q] /\ input'[q] = input[q] /\ ids'[q] = ids[q]
    /\ entity'[q] = entity[q] /\ saved'[q] = saved[q]

LEMMA OthersUntouched ==
    ASSUME TypeInv, NEW p \in Requests, Step(p), NEW q \in Requests \ {p}
    PROVE  Untouched(q)
<1>1. pc'[q] = pc[q]
  BY DEF TypeInv, TypeOK, Step, Work, Create, Cancel, Receive, FindByTaskID, NewReminds, Begin,
         Save, Rollback, Commit, FindByTimeRange, FindByID, Update, Delete, SelectByTaskID,
         DeleteByTaskID, Publish, Fail, Crash, Goto, End, EndOrLost
<1>2. input'[q] = input[q] /\ entity'[q] = entity[q] /\ saved'[q] = saved[q]
  BY DEF TypeInv, TypeOK, Step, Work, Create, Cancel, Receive, FindByTaskID, NewReminds, Begin,
         Save, Rollback, Commit, FindByTimeRange, FindByID, Update, Delete, SelectByTaskID,
         DeleteByTaskID, Publish, Fail, Crash
<1>3. ids'[q] = ids[q]
  BY DEF TypeInv, TypeOK, Step, Work, Create, Cancel, Receive, FindByTaskID, NewReminds, Begin,
         Save, Rollback, Commit, FindByTimeRange, FindByID, Update, Delete, SelectByTaskID,
         DeleteByTaskID, Publish, Fail, Crash, Hold
<1>. QED
  BY <1>1, <1>2, <1>3 DEF Untouched

\* A request that has left the calls of CreateRemind does not come back to them.
LEMMA NoWayBack ==
    ASSUME TypeInv, NEW p \in Requests, Step(p)
    PROVE  pc'[p] \in {"idle"} \cup CreateCalls => pc[p] \in {"idle"} \cup CreateCalls
BY DEF TypeInv, TypeOK, Step, Work, Create, Cancel, Receive, FindByTaskID, NewReminds, Begin,
       Save, Rollback, Commit, FindByTimeRange, FindByID, Update, Delete, SelectByTaskID,
       DeleteByTaskID, Publish, Fail, Crash, Goto, End, EndOrLost, CreateCalls

LEMMA FreshIDsAreUnborn ==
    ASSUME TypeInv, FreshInv
    PROVE  UnbornInv
<1>1. ASSUME NEW p \in Requests, pc[p] = "Commit", NEW k \in NewIDs(p)
      PROVE  ~Born(k)
  <2>1. input[p] \in CreateInput /\ pc[p] \in CreateCalls
    BY <1>1 DEF TypeInv, BodyOK, CreateCalls
  <2>2. \A i \in 1..Len(input[p].times) : i \in 1..MaxTimes
    BY <2>1, NewRows, MaxTimesAssumption
  <2>3. \E i \in 1..MaxTimes : k = <<p, i>>
    BY <1>1, <2>1, <2>2, NewRows
  <2>. QED
    BY <2>1, <2>3 DEF FreshInv, Born
<1>. QED
  BY <1>1 DEF UnbornInv, FreshInv

LEMMA IInvIsShared == IInv => SharedInv
BY FreshIDsAreUnborn DEF IInv, SharedInv

\* What the table had stays known: a row keeps its key while it is there, and
\* when it goes its id is used for no other.
LEMMA RowsOfBorn ==
    ASSUME TypeInv, UnbornInv, CopyInv, NEW p \in Requests, Step(p),
           NEW k \in RemindIDs, Born(k)
    PROVE  /\ k \in Live' \/ removedBy'[k] # Null
           /\ removedBy[k] # Null => removedBy'[k] # Null
           /\ k \in Live' => k \in Live /\ Key(table'[k]) = Key(table[k])
<1>1. CASE QuietStep(p)
  BY <1>1, QuietTable DEF Born
<1>2. CASE Commit(p)
  <2>1. pc[p] = "Commit" /\ removedBy' = removedBy
    BY <1>2 DEF Commit
  <2>2. k \notin NewIDs(p)
    BY <2>1 DEF UnbornInv
  <2>3. Live' = Live \cup NewIDs(p) /\ (k \in Live => table'[k] = table[k])
    BY <1>2, <2>2, CommitTable
  <2>. QED
    BY <2>1, <2>2, <2>3 DEF Born
<1>3. CASE Update(p)
  <2>1. removedBy' = removedBy /\ Live' = Live
    BY <1>3, UpdateTable DEF Update
  <2>2. CASE k \in Live /\ k = input[p].id
    <3>1. table[k] \in Rows /\ entity[p] \in Rows
      BY <1>3, <2>2, UpdateTable DEF TypeInv, TypeOK
    <3>2. Key(table'[k]) = Key(entity[p])
      BY <1>3, <2>2, <3>1, UpdateTable, UpdatedKey
    <3>3. Key(entity[p]) = Key(table[k])
      BY <1>3, <2>2 DEF CopyInv, Update
    <3>. QED
      BY <2>1, <2>2, <3>2, <3>3
  <2>3. CASE k \in Live /\ k # input[p].id
    BY <1>3, <2>1, <2>3, UpdateTable
  <2>. QED
    BY <2>1, <2>2, <2>3 DEF Born
<1>4. CASE Delete(p) \/ DeleteByTaskID(p)
  <2>1. PICK S : Remove(p, S)
    BY <1>4 DEF Delete, DeleteByTaskID
  <2>. QED
    BY <2>1, RemoveTable, NullAssumption DEF Born
<1>. QED
  BY <1>1, <1>2, <1>3, <1>4, StepCases

LEMMA TableStep ==
    ASSUME TypeInv, FreshInv, CopyInv, NEW p \in Requests, Step(p),
           NEW k \in RemindIDs, Born(k)
    PROVE  /\ k \in Live' \/ removedBy'[k] # Null
           /\ removedBy[k] # Null => removedBy'[k] # Null
           /\ k \in Live' => k \in Live /\ Key(table'[k]) = Key(table[k])
BY FreshIDsAreUnborn, RowsOfBorn

-----------------------------------------------------------------------------
(* Ids are fresh. *)

LEMMA InitFreshInv == Init => FreshInv
<1>. SUFFICES ASSUME Init PROVE FreshInv
  OBVIOUS
<1>1. PICK S \in SUBSET EarlierIDs : table \in [S -> Rows]
  BY DEF Init
<1>2. \A p \in Requests : \A i \in 1..MaxTimes : <<p, i>> \notin Live /\ <<p, i>> \in RemindIDs
  BY <1>1, RequestsAssumption DEF Live, EarlierIDs, RemindIDs
<1>. QED
  BY <1>2 DEF Init, FreshInv

LEMMA NextFreshInv ==
    ASSUME TypeInv, FreshInv, NEW p \in Requests, Step(p)
    PROVE  FreshInv'
<1>1. \A q \in Requests :
         pc'[q] \in {"idle"} \cup CreateCalls => pc[q] \in {"idle"} \cup CreateCalls
  BY OthersUntouched, NoWayBack DEF Untouched
<1>2. \A q \in Requests : \A i \in 1..MaxTimes : <<q, i>> \in RemindIDs
  BY DEF RemindIDs
<1>3. CASE QuietStep(p)
  BY <1>1, <1>3, QuietTable DEF FreshInv
<1>4. CASE Commit(p)
  <2>1. /\ removedBy' = removedBy /\ pc[p] = "Commit"
        /\ pc'[p] = "replied"
    BY <1>4 DEF Commit, EndOrLost, End, TypeInv, TypeOK
  <2>2. Live' = Live \cup NewIDs(p) /\ \A k \in NewIDs(p) : k = <<p, k[2]>>
    BY <1>4, CommitTable
  <2>3. \A k \in NewIDs(p) : k[2] \in 1..MaxTimes
    <3>1. \A i \in 1..Len(input[p].times) : i \in 1..MaxTimes
      BY <1>4, CommitTable, NewRows, MaxTimesAssumption
    <3>. QED
      BY <1>4, <3>1, CommitTable
  <2>4. \A k \in NewIDs(p) : removedBy[k] = Null
    BY <2>1, <2>2, <2>3 DEF FreshInv, CreateCalls
  <2>5. \A q \in Requests \ {p} : \A i \in 1..MaxTimes : <<q, i>> \notin NewIDs(p)
    BY <2>2
  <2>6. pc'[p] \notin {"idle"} \cup CreateCalls
    BY <2>1 DEF CreateCalls
  <2>. QED
    BY <1>1, <2>1, <2>2, <2>4, <2>5, <2>6 DEF FreshInv
<1>5. CASE Update(p)
  <2>1. removedBy' = removedBy /\ Live' = Live
    BY <1>5, UpdateTable DEF Update
  <2>. QED
    BY <1>1, <2>1 DEF FreshInv
<1>6. CASE Delete(p) \/ DeleteByTaskID(p)
  <2>1. PICK S : Remove(p, S)
    BY <1>6 DEF Delete, DeleteByTaskID
  <2>2. /\ Live' = Live \ S
        /\ \A k \in RemindIDs : removedBy'[k] = IF k \in S \cap Live THEN p ELSE removedBy[k]
    BY <2>1, RemoveTable
  <2>. QED
    BY <1>1, <1>2, <2>2 DEF FreshInv
<1>. QED
  BY <1>3, <1>4, <1>5, <1>6, StepCases

-----------------------------------------------------------------------------
(* Keys are unique. *)

LEMMA InitKeyInv == Init => KeyInv
BY DEF Init, KeyInv, UniqueKey

\* The row a request builds for a time does not change while the request runs.
LEMMA SameNewRow ==
    ASSUME NEW q \in Requests, input'[q] = input[q], NEW i
    PROVE  NewRow(q, i)' = NewRow(q, i)
BY DEF NewRow

\* Fewer rows and shorter transactions keep the keys unique.
LEMMA KeyKept ==
    ASSUME TypeInv, KeyInv,
           \A k \in Live' : k \in Live /\ Key(table'[k]) = Key(table[k]),
           \A q \in Requests :
               saved'[q] = 0 \/ (saved'[q] = saved[q] /\ input'[q] = input[q])
    PROVE  KeyInv'
<1>1. UniqueKey'
  <2>1. \A k \in Live' : k \in Live /\ Key(table[k])' = Key(table[k])
    BY DEF Key
  <2>. QED
    BY <2>1 DEF KeyInv, UniqueKey, Key
<1>2. \A q \in Requests : \A i \in 1..saved'[q] :
         i \in 1..saved[q] /\ Key(NewRow(q, i))' = Key(NewRow(q, i))
  BY SameNewRow DEF Key, NewRow
<1>3. \A q \in Requests : \A i, j \in 1..saved'[q] :
         Key(NewRow(q, i))' = Key(NewRow(q, j))' => i = j
  BY <1>2 DEF KeyInv
<1>4. \A q, r \in Requests : \A i \in 1..saved'[q], j \in 1..saved'[r] :
         Key(NewRow(q, i))' = Key(NewRow(r, j))' => q = r
  BY <1>2 DEF KeyInv
<1>5. \A q \in Requests : \A i \in 1..saved'[q], k \in Live' :
         Key(NewRow(q, i))' # Key(table[k])'
  <2>1. \A k \in Live' : k \in Live /\ Key(table[k])' = Key(table[k])
    BY DEF Key
  <2>. QED
    BY <1>2, <2>1 DEF KeyInv
<1>. QED
  BY <1>1, <1>3, <1>4, <1>5 DEF KeyInv

\* An INSERT that is not refused and does not wait has a key nobody has.
LEMMA SaveKeyInv ==
    ASSUME TypeInv, KeyInv, NEW p \in Requests, Save(p)
    PROVE  KeyInv'
<1>1. UNCHANGED <<input, table>> /\ Live' = Live /\ pc[p] = "Save"
  BY DEF Save, Live
<1>2. CASE saved' = saved
  BY <1>1, <1>2, KeyKept
<1>3. CASE saved' # saved
  <2>. DEFINE n == saved[p] + 1
  <2>1. /\ ~KeyTaken(p) /\ ~Waiting(p)
        /\ saved' = [saved EXCEPT ![p] = n]
    BY <1>3 DEF Save
  <2>2. saved[p] \in Nat /\ n \in Nat /\ 1..n = 1..saved[p] \cup {n}
    BY MaxTimesAssumption DEF TypeInv, TypeOK
  <2>3. saved'[p] = n /\ \A q \in Requests \ {p} : saved'[q] = saved[q]
    BY <2>1 DEF TypeInv, TypeOK
  <2>4. \A k \in Live : Key(NewRow(p, n)) # Key(table[k])
    BY <2>1 DEF KeyTaken
  <2>5. \A i \in 1..saved[p] : Key(NewRow(p, i)) # Key(NewRow(p, n))
    BY <2>1 DEF KeyTaken
  <2>6. \A q \in Requests \ {p} : \A i \in 1..saved[q] : Key(NewRow(q, i)) # Key(NewRow(p, n))
    <3>1. SUFFICES ASSUME NEW q \in Requests \ {p}, NEW i \in 1..saved[q]
                   PROVE  Key(NewRow(q, i)) # Key(NewRow(p, n))
      OBVIOUS
    <3>2. InTx(q)
      BY <3>1 DEF TypeInv, SavedOK
    <3>3. ~WaitsFor(p, q)
      BY <2>1 DEF Waiting
    <3>. QED
      BY <1>1, <3>1, <3>2, <3>3 DEF WaitsFor
  <2>. HIDE DEF n
  <2>7. \A q \in Requests : \A i : NewRow(q, i)' = NewRow(q, i)
    BY <1>1 DEF NewRow
  <2>8. UniqueKey'
    BY <1>1 DEF KeyInv, UniqueKey, Key
  <2>9. \A q \in Requests : \A i \in 1..saved'[q] :
           i \in 1..saved[q] \/ (q = p /\ i = n)
    BY <2>2, <2>3
  <2>10. \A q \in Requests : \A i, j \in 1..saved'[q] :
            Key(NewRow(q, i)) = Key(NewRow(q, j)) => i = j
    BY <2>5, <2>9 DEF KeyInv
  <2>11. \A q, r \in Requests : \A i \in 1..saved'[q], j \in 1..saved'[r] :
            Key(NewRow(q, i)) = Key(NewRow(r, j)) => q = r
    BY <2>6, <2>9 DEF KeyInv
  <2>12. \A q \in Requests : \A i \in 1..saved'[q], k \in Live :
            Key(NewRow(q, i)) # Key(table[k])
    BY <2>4, <2>9 DEF KeyInv
  <2>13. \A q \in Requests : \A i : Key(NewRow(q, i))' = Key(NewRow(q, i))
    BY <2>7 DEF Key
  <2>14. \A k \in Live : Key(table[k])' = Key(table[k])
    BY <1>1 DEF Key
  <2>. QED
    BY <1>1, <2>8, <2>10, <2>11, <2>12, <2>13, <2>14 DEF KeyInv
<1>. QED
  BY <1>2, <1>3

\* The rows of the transaction become rows of the table.
LEMMA CommitKeyInv ==
    ASSUME TypeInv, KeyInv, NEW p \in Requests, Commit(p)
    PROVE  KeyInv'
<1>1. /\ input' = input /\ saved' = [saved EXCEPT ![p] = 0]
      /\ pc[p] = "Commit"
  BY DEF Commit
<1>2. saved[p] = Len(input[p].times)
  BY <1>1 DEF TypeInv, SavedOK
<1>3. /\ Live' = Live \cup NewIDs(p)
      /\ \A k \in NewIDs(p) : /\ k = <<p, k[2]>> /\ k[2] \in 1..saved[p]
                              /\ table'[k] = NewRow(p, k[2])
      /\ \A k \in Live \ NewIDs(p) : table'[k] = table[k]
  BY <1>2, CommitTable
<1>4. saved'[p] = 0 /\ \A q \in Requests \ {p} : saved'[q] = saved[q]
  BY <1>1 DEF TypeInv, TypeOK
<1>5. UniqueKey'
  <2>1. SUFFICES ASSUME NEW j \in Live', NEW k \in Live', Key(table'[j]) = Key(table'[k])
                 PROVE  j = k
    BY DEF UniqueKey, Key
  <2>2. CASE j \in NewIDs(p) /\ k \in NewIDs(p)
    <3>1. j[2] = k[2]
      BY <1>3, <2>1, <2>2 DEF KeyInv
    <3>. QED
      BY <1>3, <2>2, <3>1
  <2>3. CASE j \in NewIDs(p) /\ k \notin NewIDs(p)
    BY <1>3, <2>1, <2>3 DEF KeyInv
  <2>4. CASE j \notin NewIDs(p) /\ k \in NewIDs(p)
    BY <1>3, <2>1, <2>4 DEF KeyInv
  <2>5. CASE j \notin NewIDs(p) /\ k \notin NewIDs(p)
    BY <1>3, <2>1, <2>5 DEF KeyInv, UniqueKey
  <2>. QED
    BY <2>2, <2>3, <2>4, <2>5
<1>6. \A q \in Requests : \A i : Key(NewRow(q, i))' = Key(NewRow(q, i))
  BY <1>1 DEF Key, NewRow
<1>7. \A q \in Requests : \A i \in 1..saved'[q] : q # p /\ i \in 1..saved[q]
  BY <1>4
<1>8. \A q \in Requests : \A i, j \in 1..saved'[q] :
         Key(NewRow(q, i)) = Key(NewRow(q, j)) => i = j
  BY <1>7 DEF KeyInv
<1>9. \A q, r \in Requests : \A i \in 1..saved'[q], j \in 1..saved'[r] :
         Key(NewRow(q, i)) = Key(NewRow(r, j)) => q = r
  BY <1>7 DEF KeyInv
<1>10. \A q \in Requests : \A i \in 1..saved'[q], k \in Live' :
          Key(NewRow(q, i)) # Key(table'[k])
  <2>1. SUFFICES ASSUME NEW q \in Requests, NEW i \in 1..saved'[q], NEW k \in Live'
                 PROVE  Key(NewRow(q, i)) # Key(table'[k])
    OBVIOUS
  <2>2. q # p /\ i \in 1..saved[q]
    BY <1>7, <2>1
  <2>3. CASE k \in NewIDs(p)
    BY <1>3, <2>2, <2>3 DEF KeyInv
  <2>4. CASE k \notin NewIDs(p)
    BY <1>3, <2>2, <2>4 DEF KeyInv
  <2>. QED
    BY <2>3, <2>4
<1>11. \A k \in Live' : Key(table[k])' = Key(table'[k])
  BY DEF Key
<1>. QED
  BY <1>5, <1>6, <1>8, <1>9, <1>10, <1>11 DEF KeyInv

LEMMA NextKeyInv ==
    ASSUME TypeInv, UnbornInv, KeyInv, CopyInv, NEW p \in Requests, Step(p)
    PROVE  KeyInv'
<1>1. CASE Save(p)
  BY <1>1, SaveKeyInv
<1>2. CASE Commit(p)
  BY <1>2, CommitKeyInv
<1>3. CASE ~Save(p) /\ ~Commit(p)
  <2>1. \A q \in Requests : saved'[q] = 0 \/ (saved'[q] = saved[q] /\ input'[q] = input[q])
    <3>1. \A q \in Requests \ {p} : saved'[q] = saved[q] /\ input'[q] = input[q]
      BY OthersUntouched DEF Untouched
    <3>2. CASE Receive(p)
      <4>1. saved[p] = 0 /\ saved' = saved
        BY <3>2 DEF Receive, TypeInv, SavedOK, InTx
      <4>. QED
        BY <3>1, <4>1
    <3>3. CASE ~Receive(p)
      <4>1. input' = input /\ (saved' = saved \/ saved' = [saved EXCEPT ![p] = 0])
        BY <1>3, <3>3 DEF Step, Work, Create, Cancel, FindByTaskID, NewReminds, Begin,
             Rollback, FindByTimeRange, FindByID, Update, Delete, SelectByTaskID,
             DeleteByTaskID, Publish, Fail, Crash
      <4>. QED
        BY <3>1, <4>1 DEF TypeInv, TypeOK
    <3>. QED
      BY <3>2, <3>3
  <2>2. \A k \in Live' : k \in Live
    <3>1. CASE QuietStep(p) \/ Update(p)
      BY <3>1, QuietTable, UpdateTable
    <3>2. CASE Delete(p) \/ DeleteByTaskID(p)
      <4>1. PICK S : Remove(p, S)
        BY <3>2 DEF Delete, DeleteByTaskID
      <4>. QED
        BY <4>1, RemoveTable
    <3>. QED
      BY <1>3, <3>1, <3>2, StepCases
  <2>3. \A k \in Live' : k \in Live /\ Key(table'[k]) = Key(table[k])
    <3>1. \A k \in Live : k \in RemindIDs /\ Born(k)
      BY DEF TypeInv, TypeOK, Born
    <3>. QED
      BY <2>2, <3>1, RowsOfBorn
  <2>. QED
    BY <2>1, <2>3, KeyKept
<1>. QED
  BY <1>1, <1>2, <1>3

-----------------------------------------------------------------------------
(* The copies of UpdateThrottled. *)

\* The second and third calls of a method are reached from the call before.
LEMMA ReceiveLeadsTo ==
    ASSUME TypeInv, NEW p \in Requests, Receive(p)
    PROVE  pc'[p] \notin {"Update", "DeleteByTaskID", "Publish"}
<1>1. PICK b \in Inputs : (Accepted(b) /\ Goto(p, FirstCall(b.op))) \/ End(p, 400)
  BY DEF Receive
<1>2. b.op \in {"create", "range", "throttle", "delete", "cancel"}
  BY InputsAssumption
     DEF AllInputs, CreateInput, RangeInput, ThrottleInput, DeleteInput, CancelInput
<1>3. FirstCall(b.op) \notin {"Update", "DeleteByTaskID", "Publish"}
  BY <1>2 DEF FirstCall
<1>. QED
  BY <1>1, <1>3 DEF Goto, End, TypeInv, TypeOK

LEMMA ReachedFrom ==
    ASSUME TypeInv, NEW p \in Requests, Step(p)
    PROVE  /\ pc'[p] = "Update" => FindByID(p)
           /\ pc'[p] = "DeleteByTaskID" => SelectByTaskID(p)
           /\ pc'[p] = "Publish" => DeleteByTaskID(p)
<1>. DEFINE To(call) == pc' = [pc EXCEPT ![p] = call]
<1>1. CASE Receive(p)
  BY <1>1, ReceiveLeadsTo
<1>2. CASE Create(p)
  <2>1. \E call \in {"replied", "NewReminds", "Begin", "Save", "Rollback", "Commit"} : To(call)
    BY <1>2 DEF Create, FindByTaskID, NewReminds, Begin, Save, Rollback, Commit,
         Goto, End, EndOrLost
  <2>. QED
    BY <2>1 DEF TypeInv, TypeOK
<1>3. CASE FindByTimeRange(p) \/ Update(p) \/ Delete(p) \/ Publish(p)
  <2>1. To("replied")
    BY <1>3 DEF FindByTimeRange, Update, Delete, Publish, End, EndOrLost
  <2>. QED
    BY <2>1 DEF TypeInv, TypeOK
<1>4. CASE FindByID(p)
  <2>1. To("replied") \/ To("Update")
    BY <1>4 DEF FindByID, Goto, End
  <2>. QED
    BY <1>4, <2>1 DEF TypeInv, TypeOK
<1>5. CASE SelectByTaskID(p)
  <2>1. To("replied") \/ To("DeleteByTaskID")
    BY <1>5 DEF SelectByTaskID, Goto, End
  <2>. QED
    BY <1>5, <2>1 DEF TypeInv, TypeOK
<1>6. CASE DeleteByTaskID(p)
  <2>1. To("replied") \/ To("Publish")
    BY <1>6 DEF DeleteByTaskID, Goto, End
  <2>. QED
    BY <1>6, <2>1 DEF TypeInv, TypeOK
<1>7. CASE Fail(p) \/ Crash(p)
  <2>1. To("replied") \/ To("Rollback") \/ To("crashed")
    BY <1>7 DEF Fail, Crash, Goto, End
  <2>. QED
    BY <2>1 DEF TypeInv, TypeOK
<1>. QED
  BY <1>1, <1>2, <1>3, <1>4, <1>5, <1>6, <1>7 DEF Step, Work, Cancel

LEMMA NextCopyInv ==
    ASSUME TypeInv, UnbornInv, CopyInv, NEW p \in Requests, Step(p)
    PROVE  CopyInv'
<1>. SUFFICES ASSUME NEW q \in Requests, pc'[q] = "Update"
              PROVE  /\ input'[q].id \in Live' \/ removedBy'[input'[q].id] # Null
                     /\ input'[q].id \in Live' =>
                            Key(entity'[q]) = Key(table'[input'[q].id])
  BY DEF CopyInv, Born, Key
<1>1. CASE pc[q] = "Update" /\ input'[q] = input[q] /\ entity'[q] = entity[q]
  <2>1. input[q].id \in RemindIDs /\ Born(input[q].id)
    BY <1>1 DEF TypeInv, BodyOK, ThrottleInput, CopyInv
  <2>. QED
    BY <1>1, <2>1, RowsOfBorn DEF CopyInv
<1>2. CASE FindByID(p) /\ q = p
  <2>1. /\ input' = input /\ table' = table /\ removedBy' = removedBy /\ Live' = Live
    BY <1>2, QuietTable DEF FindByID, QuietStep
  <2>2. /\ input[p].id \in Live
        /\ entity' = [entity EXCEPT ![p] =
               IF input[p].throttled THEN MarkAsThrottled(table[input[p].id])
               ELSE table[input[p].id]]
    BY <1>2 DEF FindByID, End, TypeInv, TypeOK
  <2>3. table[input[p].id] \in Rows
    BY <2>2 DEF TypeInv, TypeOK
  <2>4. Key(entity'[p]) = Key(table[input[p].id])
    BY <2>2, <2>3, MarkedKey DEF TypeInv, TypeOK
  <2>. QED
    BY <1>2, <2>1, <2>2, <2>4
<1>3. CASE q # p
  BY <1>1, <1>3, OthersUntouched DEF Untouched
<1>. QED
  BY <1>2, <1>3, ReachedFrom

-----------------------------------------------------------------------------
(* What cancel events announce. *)

\* The reminds of a task are removed when DeleteByTaskID has deleted its rows.
LEMMA CancelledAreRemoved ==
    ASSUME TypeInv, CancelInv, NEW p \in Requests, DeleteByTaskID(p)
    PROVE  \A k \in ids[p] : removedBy'[k] # Null
<1>1. SUFFICES ASSUME NEW k \in ids[p] PROVE removedBy'[k] # Null
  OBVIOUS
<1>2. k \in RemindIDs /\ Born(k) /\ (k \in Live => k \in OfTask(input[p].task))
  BY <1>1 DEF TypeInv, TypeOK, CancelInv, DeleteByTaskID, OfTask
<1>3. Remove(p, OfTask(input[p].task))
  BY DEF DeleteByTaskID
<1>4. removedBy'[k] = IF k \in OfTask(input[p].task) \cap Live THEN p ELSE removedBy[k]
  BY <1>2, <1>3, RemoveTable
<1>. QED
  BY <1>2, <1>4, NullAssumption DEF Born

LEMMA NextCancelInv ==
    ASSUME TypeInv, UnbornInv, CopyInv, CancelInv, NEW p \in Requests, Step(p)
    PROVE  CancelInv'
<1>1. \A k \in RemindIDs : removedBy[k] # Null => removedBy'[k] # Null
  BY RowsOfBorn DEF Born
<1>2. \A q \in Requests : ids[q] \subseteq RemindIDs
  BY DEF TypeInv, TypeOK
<1>3. ASSUME NEW q \in Requests, pc'[q] = "DeleteByTaskID", NEW k \in ids'[q]
      PROVE  /\ k \in Live' \/ removedBy'[k] # Null
             /\ k \in Live' => table'[k].task = input'[q].task
  <2>1. CASE pc[q] = "DeleteByTaskID" /\ ids'[q] = ids[q] /\ input'[q] = input[q]
    <3>1. k \in RemindIDs /\ Born(k) /\ (k \in Live => table[k].task = input[q].task)
      BY <1>2, <1>3, <2>1 DEF CancelInv
    <3>2. /\ k \in Live' \/ removedBy'[k] # Null
          /\ k \in Live' => k \in Live /\ Key(table'[k]) = Key(table[k])
      BY <3>1, RowsOfBorn
    <3>3. k \in Live' => table'[k].task = table[k].task
      BY <3>2 DEF Key
    <3>. QED
      BY <2>1, <3>1, <3>2, <3>3
  <2>2. CASE SelectByTaskID(p) /\ q = p
    <3>1. ids'[p] = OfTask(input[p].task) /\ input' = input
      BY <2>2 DEF SelectByTaskID, Hold, TypeInv, TypeOK
    <3>2. table' = table /\ Live' = Live
      BY <2>2, QuietTable DEF QuietStep
    <3>. QED
      BY <1>3, <2>2, <3>1, <3>2 DEF OfTask
  <2>3. CASE q # p
    BY <1>3, <2>1, <2>3, OthersUntouched DEF Untouched
  <2>. QED
    BY <1>3, <2>2, <2>3, ReachedFrom
<1>4. ASSUME NEW q \in Requests, pc'[q] = "Publish", NEW k \in ids'[q]
      PROVE  removedBy'[k] # Null
  <2>1. CASE pc[q] = "Publish" /\ ids'[q] = ids[q]
    BY <1>1, <1>2, <1>4, <2>1 DEF CancelInv
  <2>2. CASE DeleteByTaskID(p) /\ q = p
    BY <1>4, <2>2, CancelledAreRemoved DEF DeleteByTaskID
  <2>3. CASE q # p
    BY <1>4, <2>1, <2>3, OthersUntouched DEF Untouched
  <2>. QED
    BY <1>4, <2>2, <2>3, ReachedFrom
<1>5. ASSUME NEW e \in events', NEW k \in e.ids
      PROVE  removedBy'[k] # Null
  <2>1. CASE e \in events
    <3>1. k \in RemindIDs
      BY <1>5, <2>1 DEF TypeInv, TypeOK
    <3>. QED
      BY <1>1, <1>5, <2>1, <3>1 DEF CancelInv
  <2>2. CASE e \notin events
    <3>1. Publish(p) /\ e = Event(p)
      BY <1>5, <2>2 DEF Step, Work, Create, Cancel, Receive, FindByTaskID, NewReminds, Begin,
             Save, Rollback, Commit, FindByTimeRange, FindByID, Update, Delete, SelectByTaskID,
             DeleteByTaskID, Publish, Fail, Crash
    <3>2. k \in ids[p] /\ pc[p] = "Publish"
      BY <1>5, <3>1 DEF Event, Publish
    <3>. QED
      BY <1>1, <1>2, <3>2 DEF CancelInv
  <2>. QED
    BY <2>1, <2>2
<1>. QED
  BY <1>3, <1>4, <1>5 DEF CancelInv, Born

-----------------------------------------------------------------------------
(* The theorems. *)

LEMMA InitIInv == Init => IInv
<1>1. Init => CopyInv /\ CancelInv
  BY DEF Init, CopyInv, CancelInv
<1>. QED
  BY <1>1, InitTypeInv, InitFreshInv, InitKeyInv DEF IInv

LEMMA StutterIInv == IInv /\ UNCHANGED vars => IInv'
<1>. SUFFICES ASSUME IInv, UNCHANGED vars PROVE IInv'
  OBVIOUS
<1>1. Live' = Live
  BY DEF Live, vars
<1>2. FreshInv' /\ CopyInv' /\ CancelInv'
  BY <1>1 DEF IInv, FreshInv, CopyInv, CancelInv, Born, Key, vars
<1>3. KeyInv'
  BY <1>1 DEF IInv, KeyInv, UniqueKey, Key, NewRow, vars
<1>. QED
  BY <1>2, <1>3, StutterTypeInv DEF IInv

THEOREM Invariance == Spec => []IInv
<1>1. IInv /\ [Next]_vars => IInv'
  <2>. SUFFICES ASSUME IInv, [Next]_vars PROVE IInv'
    OBVIOUS
  <2>1. CASE \E p \in Requests : Step(p)
    <3>1. PICK p \in Requests : Step(p)
      BY <2>1
    <3>2. TypeInv'
      BY NextTypeInv DEF IInv
    <3>. QED
      BY <3>1, <3>2, FreshIDsAreUnborn, NextFreshInv, NextKeyInv, NextCopyInv, NextCancelInv
         DEF IInv
  <2>2. CASE UNCHANGED vars
    BY <2>2, StutterIInv
  <2>. QED
    BY <2>1, <2>2 DEF Next, Quiescent, Step
<1>. QED
  BY InitIInv, <1>1, PTL DEF Spec

\* However creations, updates and deletions interleave, the unique index holds:
\* what waits at an INSERT, what is refused there and what commits agree.
THEOREM KeysAreUnique == Spec => []UniqueKey
<1>1. IInv => UniqueKey
  BY DEF IInv, KeyInv
<1>. QED
  BY Invariance, <1>1, PTL

\* A remind a cancel event names is deleted, and no later step brings it back.
THEOREM AnnouncedStayGone == Spec => []AnnouncedAreGone
<1>1. IInv => AnnouncedAreGone
  <2>1. SUFFICES ASSUME IInv, NEW e \in events, NEW k \in e.ids
                 PROVE  k \notin Live /\ removedBy[k] # Null
    BY DEF AnnouncedAreGone
  <2>2. k \in RemindIDs
    BY <2>1 DEF IInv, TypeInv, TypeOK
  <2>. QED
    BY <2>1, <2>2 DEF IInv, FreshInv, CancelInv
<1>. QED
  BY Invariance, <1>1, PTL

=============================================================================
