------------------------- MODULE RemindRetriesProofs -------------------------
(***************************************************************************)
(* For any number of clients that send their requests again, and any number  *)
(* of failures: no client loses sight of a remind it created, the keys stay   *)
(* unique, and the service still implements RemindStore.                      *)
(*                                                                         *)
(* An attempt has the ids of the attempt before.  That they are used once all *)
(* the same takes the look-up: an attempt only comes to insert after it found *)
(* no remind of its task, its own included, and nobody else inserts them.     *)
(***************************************************************************)
EXTENDS RemindRetries, RemindStoreProofs

-----------------------------------------------------------------------------
(* The inductive invariant. *)

\* The calls of an attempt that found no remind of its task.
InsertCalls == {"Begin", "Save", "Rollback", "Commit"}

\* A client's body does not change, from its first attempt on.
ArrivedInv == \A p \in Requests : pc[p] = "idle" <=> input[p] = Null

\* The ids of an attempt that came past the look-up are not in the table, and
\* not in use any more once they were removed from it.
FreshAttemptInv ==
    /\ \A p \in Requests : pc[p] \in {"NewReminds"} \cup InsertCalls => NewIDs(p) \cap Live = {}
    /\ \A p \in Requests : pc[p] \in InsertCalls =>
            ids[p] = NewIDs(p) /\ \A k \in NewIDs(p) : removedBy[k] = Null
    /\ \A k \in RemindIDs : removedBy[k] # Null => k \notin Live

\* A row under a client's id is of the task the client asks for.
OwnRowsInv ==
    \A p \in Requests : \A i \in 1..MaxTimes : <<p, i>> \in Live =>
        input[p] \in CreateInput /\ table[<<p, i>>].task = input[p].task

\* What a client was told is of its last attempt.
AnsweredInv ==
    \A p \in Requests :
        /\ reply[p] # 0 => pc[p] = "replied"
        /\ reply[p] = 201 => input[p] \in CreateInput /\ NewIDs(p) \cap Live \subseteq ids[p]

AttemptInv == ArrivedInv /\ FreshAttemptInv /\ OwnRowsInv /\ AnsweredInv

RInv == TypeInv /\ KeyInv /\ CopyInv /\ CancelInv /\ AttemptInv

LEMMA RInvIsShared == RInv => SharedInv
<1>. SUFFICES ASSUME RInv PROVE UnbornInv
  BY DEF RInv, SharedInv
<1>. QED
  BY DEF RInv, AttemptInv, FreshAttemptInv, UnbornInv, Born, InsertCalls

\* The ids of a creation are pairs of its request and an index within bounds.
LEMMA OwnIDs ==
    ASSUME NEW p \in Requests, input[p] \in CreateInput, NEW k \in NewIDs(p)
    PROVE  k \in RemindIDs /\ \E i \in 1..MaxTimes : k = <<p, i>>
<1>1. \A i \in 1..Len(input[p].times) : i \in 1..MaxTimes
  BY NewRows, MaxTimesAssumption
<1>. QED
  BY <1>1, NewRows

LEMMA InitRInv == Init => RInv
<1>. SUFFICES ASSUME Init PROVE RInv
  OBVIOUS
<1>1. IInv
  BY InitIInv
<1>2. \A p \in Requests : \A i \in 1..MaxTimes : <<p, i>> \notin Live
  BY <1>1 DEF Init, IInv, FreshInv
<1>3. ArrivedInv /\ AnsweredInv
  BY DEF Init, ArrivedInv, AnsweredInv
<1>4. FreshAttemptInv
  BY DEF Init, FreshAttemptInv, InsertCalls
<1>5. OwnRowsInv
  BY <1>2 DEF OwnRowsInv
<1>. QED
  BY <1>1, <1>3, <1>4, <1>5 DEF IInv, RInv, AttemptInv

-----------------------------------------------------------------------------
(* The steps of the service. *)

\* The step an attempt makes: it does not come to insert without ids.
AttemptStep(p) == Receive(p) \/ (Work(p) /\ ~OutOfIDs(p)) \/ Fail(p) \/ Crash(p)

LEMMA StepArrivedInv ==
    ASSUME TypeInv, ArrivedInv, NEW p \in Requests, Step(p)
    PROVE  ArrivedInv' /\ (~Receive(p) => input' = input /\ pc[p] # "idle")
<1>1. CASE Receive(p)
  <2>1. PICK b \in Inputs :
          /\ input' = [input EXCEPT ![p] = b]
          /\ Goto(p, FirstCall(b.op)) \/ End(p, 400)
    BY <1>1 DEF Receive
  <2>2. b # Null /\ b.op \in {"create", "range", "throttle", "delete", "cancel"}
    BY InputsAssumption, NullAssumption
       DEF AllInputs, CreateInput, RangeInput, ThrottleInput, DeleteInput, CancelInput
  <2>3. FirstCall(b.op) # "idle"
    BY <2>2 DEF FirstCall
  <2>4. input'[p] = b /\ pc'[p] # "idle"
    BY <2>1, <2>3 DEF TypeInv, TypeOK, Goto, End
  <2>5. \A q \in Requests \ {p} : pc'[q] = pc[q] /\ input'[q] = input[q]
    BY OthersUntouched DEF Untouched
  <2>. QED
    BY <1>1, <2>2, <2>4, <2>5 DEF ArrivedInv
<1>2. CASE ~Receive(p)
  <2>1. input' = input /\ pc[p] \in Calls
    BY <1>2 DEF Step, Work, Create, Cancel, FindByTaskID, NewReminds, Begin, Save, Rollback, Commit,
         FindByTimeRange, FindByID, Update, Delete, SelectByTaskID, DeleteByTaskID, Publish,
         Fail, Crash, Calls
  <2>2. pc'[p] # "idle"
    <3>1. \E call \in Calls \cup Ended : pc' = [pc EXCEPT ![p] = call]
      BY <1>2 DEF Step, Work, Create, Cancel, FindByTaskID, NewReminds, Begin, Save, Rollback,
           Commit, FindByTimeRange, FindByID, Update, Delete, SelectByTaskID, DeleteByTaskID,
           Publish, Fail, Crash, Goto, End, EndOrLost, Calls, Ended
    <3>. QED
      BY <3>1 DEF TypeInv, TypeOK, Calls, Ended
  <2>3. \A q \in Requests \ {p} : pc'[q] = pc[q]
    BY OthersUntouched DEF Untouched
  <2>4. pc[p] # "idle"
    BY <2>1 DEF Calls
  <2>. QED
    BY <2>1, <2>2, <2>3, <2>4 DEF ArrivedInv
<1>. QED
  BY <1>1, <1>2

\* Only a commit adds rows, and only its own.
LEMMA RowsOfStep ==
    ASSUME SharedInv, NEW p \in Requests, Step(p), NEW k \in Live'
    PROVE  \/ Commit(p) /\ k \in NewIDs(p) /\ table'[k] = NewRow(p, k[2])
           \/ k \in Live /\ table'[k].task = table[k].task
<1>1. CASE Commit(p)
  <2>1. k \in Live \cup NewIDs(p)
        /\ table'[k] = IF k \in NewIDs(p) THEN NewRow(p, k[2]) ELSE table[k]
    BY <1>1, CommitTable DEF SharedInv
  <2>. QED
    BY <1>1, <2>1
<1>2. CASE ~Commit(p)
  <2>1. k \in Live
    <3>1. CASE QuietStep(p) \/ Update(p)
      BY <3>1, QuietTable, UpdateTable DEF SharedInv
    <3>2. CASE Delete(p) \/ DeleteByTaskID(p)
      <4>1. PICK S : Remove(p, S)
        BY <3>2 DEF Delete, DeleteByTaskID
      <4>. QED
        BY <4>1, RemoveTable DEF SharedInv
    <3>. QED
      BY <1>2, <3>1, <3>2, StepCases
  <2>2. k \in RemindIDs /\ Born(k)
    BY <2>1 DEF SharedInv, TypeInv, TypeOK, Born
  <2>3. Key(table'[k]) = Key(table[k])
    BY <2>2, RowsOfBorn DEF SharedInv
  <2>. QED
    BY <2>1, <2>3 DEF Key
<1>. QED
  BY <1>1, <1>2

\* An id that is not there is not removed.
LEMMA RemovalsOfStep ==
    ASSUME SharedInv, NEW p \in Requests, Step(p), NEW k \in RemindIDs,
           k \notin Live
    PROVE  removedBy'[k] = removedBy[k]
<1>1. CASE QuietStep(p) \/ Commit(p) \/ Update(p)
  BY <1>1, QuietTable DEF Commit, Update
<1>2. CASE Delete(p) \/ DeleteByTaskID(p)
  <2>1. PICK S : Remove(p, S)
    BY <1>2 DEF Delete, DeleteByTaskID
  <2>. QED
    BY <2>1, RemoveTable DEF SharedInv
<1>. QED
  BY <1>1, <1>2, StepCases

LEMMA StepOwnRowsInv ==
    ASSUME RInv, NEW p \in Requests, Step(p)
    PROVE  OwnRowsInv'
<1>1. SUFFICES ASSUME NEW q \in Requests, NEW i \in 1..MaxTimes, <<q, i>> \in Live'
               PROVE  input'[q] \in CreateInput /\ table'[<<q, i>>].task = input'[q].task
  BY DEF OwnRowsInv
<1>2. CASE Commit(p) /\ <<q, i>> \in NewIDs(p) /\ table'[<<q, i>>] = NewRow(p, i)
  <2>1. input[p] \in CreateInput /\ q = p
    BY <1>2, CommitTable DEF RInv
  <2>2. input' = input
    BY <1>2 DEF Commit
  <2>. QED
    BY <1>2, <2>1, <2>2 DEF NewRow
<1>3. CASE <<q, i>> \in Live /\ table'[<<q, i>>].task = table[<<q, i>>].task
  <2>1. input[q] \in CreateInput /\ table[<<q, i>>].task = input[q].task
    BY <1>3 DEF RInv, AttemptInv, OwnRowsInv
  <2>2. input[q] # Null
    BY <2>1, NullAssumption DEF AllInputs
  <2>3. input'[q] = input[q]
    <3>1. CASE Receive(p) /\ q = p
      <4>1. pc[p] = "idle"
        BY <3>1 DEF Receive
      <4>. QED
        BY <2>2, <3>1, <4>1 DEF RInv, AttemptInv, ArrivedInv
    <3>2. CASE ~Receive(p)
      BY <3>2, StepArrivedInv DEF RInv, AttemptInv
    <3>3. CASE q # p
      BY <3>3, OthersUntouched DEF Untouched, RInv
    <3>. QED
      BY <3>1, <3>2, <3>3
  <2>. QED
    BY <1>3, <2>1, <2>3
<1>. QED
  <2>1. <<q, i>>[2] = i
    OBVIOUS
  <2>. QED
    BY <1>1, <1>2, <1>3, <2>1, RowsOfStep, RInvIsShared

\* The first look-up found nothing of the client's own either.
LEMMA NothingFound ==
    ASSUME RInv, NEW p \in Requests, input[p] \in CreateInput, OfTask(input[p].task) = {}
    PROVE  NewIDs(p) \cap Live = {}
<1>1. SUFFICES ASSUME NEW k \in NewIDs(p), k \in Live PROVE FALSE
  OBVIOUS
<1>2. table[k].task = input[p].task
  BY <1>1, OwnIDs DEF RInv, AttemptInv, OwnRowsInv
<1>. QED
  BY <1>1, <1>2 DEF OfTask

\* How an attempt comes to its inserts.
LEMMA InsertsReachedFrom ==
    ASSUME RInv, NEW p \in Requests, AttemptStep(p),
           pc'[p] \in {"NewReminds"} \cup InsertCalls
    PROVE  /\ QuietStep(p) /\ input' = input /\ input[p] \in CreateInput
           /\ \/ pc'[p] = "NewReminds" /\ OfTask(input[p].task) = {}
              \/ NewReminds(p) /\ ~OutOfIDs(p) /\ ids'[p] = NewIDs(p)
              \/ pc[p] \in InsertCalls /\ ids' = ids
<1>. DEFINE To(call) == pc' = [pc EXCEPT ![p] = call]
<1>1. pc \in [Requests -> {"idle"} \cup Calls \cup Ended] /\ ids \in [Requests -> SUBSET RemindIDs]
  BY DEF RInv, TypeInv, TypeOK
<1>2. CASE Receive(p)
  <2>1. PICK b \in Inputs : To(FirstCall(b.op)) \/ To("replied")
    BY <1>2 DEF Receive, Goto, End
  <2>2. b.op \in {"create", "range", "throttle", "delete", "cancel"}
    BY InputsAssumption
       DEF AllInputs, CreateInput, RangeInput, ThrottleInput, DeleteInput, CancelInput
  <2>3. FirstCall(b.op) \notin {"NewReminds"} \cup InsertCalls
    BY <2>2 DEF FirstCall, InsertCalls
  <2>. QED
    BY <1>1, <2>1, <2>3 DEF InsertCalls
<1>3. CASE FindByTaskID(p)
  <2>1. input' = input /\ QuietStep(p) /\ input[p] \in CreateInput
    BY <1>3 DEF FindByTaskID, QuietStep, RInv, TypeInv, BodyOK, CreateCalls
  <2>2. CASE OfTask(input[p].task) = {}
    BY <1>1, <1>3, <2>1, <2>2 DEF FindByTaskID, Goto
  <2>3. CASE OfTask(input[p].task) # {}
    BY <1>1, <1>3, <2>3 DEF FindByTaskID, End, InsertCalls
  <2>. QED
    BY <2>1, <2>2, <2>3
<1>4. CASE NewReminds(p) /\ ~OutOfIDs(p)
  <2>1. input' = input /\ QuietStep(p) /\ input[p] \in CreateInput
    BY <1>4 DEF NewReminds, QuietStep, RInv, TypeInv, BodyOK, CreateCalls
  <2>2. CASE Hold(p, NewIDs(p))
    BY <1>1, <1>4, <2>1, <2>2 DEF Hold
  <2>3. CASE End(p, 400)
    BY <1>1, <2>3 DEF End, InsertCalls
  <2>. QED
    BY <1>4, <2>1, <2>2, <2>3 DEF NewReminds
<1>5. CASE Begin(p) \/ Save(p) \/ (Fail(p) /\ pc[p] = "Save")
  BY <1>5 DEF Begin, Save, Fail, QuietStep, InsertCalls, RInv, TypeInv, BodyOK, CreateCalls
<1>6. CASE \/ Rollback(p) \/ Commit(p) \/ FindByTimeRange(p) \/ FindByID(p) \/ Update(p)
           \/ Delete(p) \/ Cancel(p) \/ (Fail(p) /\ pc[p] # "Save") \/ Crash(p)
  <2>1. \E call \in {"replied", "crashed", "Update", "DeleteByTaskID", "Publish"} : To(call)
    BY <1>6 DEF Rollback, Commit, FindByTimeRange, FindByID, Update, Delete, Cancel,
         SelectByTaskID, DeleteByTaskID, Publish, Fail, Crash, Goto, End, EndOrLost
  <2>. QED
    BY <1>1, <2>1 DEF InsertCalls
<1>7. \/ Receive(p) \/ FindByTaskID(p)
      \/ (NewReminds(p) /\ ~OutOfIDs(p))
      \/ Begin(p) \/ Save(p)
      \/ Rollback(p) \/ Commit(p) \/ FindByTimeRange(p) \/ FindByID(p) \/ Update(p)
      \/ Delete(p) \/ Cancel(p) \/ Fail(p) \/ Crash(p)
  BY DEF AttemptStep, Work, Create
<1>. QED
  BY <1>1, <1>2, <1>3, <1>4, <1>5, <1>6, <1>7

LEMMA StepFreshAttemptInv ==
    ASSUME RInv, NEW p \in Requests, AttemptStep(p)
    PROVE  FreshAttemptInv'
<1>1. Step(p) /\ SharedInv
  BY RInvIsShared DEF AttemptStep, Step
<1>2. ASSUME NEW q \in Requests \ {p}
      PROVE  /\ pc'[q] = pc[q] /\ ids'[q] = ids[q] /\ input'[q] = input[q]
             /\ NewIDs(q)' = NewIDs(q)
  BY <1>1, OthersUntouched DEF Untouched, RInv, NewIDs
<1>3. ASSUME NEW q \in Requests \ {p}, pc'[q] \in {"NewReminds"} \cup InsertCalls
      PROVE  /\ NewIDs(q) \cap Live' = {}
             /\ pc'[q] \in InsertCalls => \A k \in NewIDs(q) : removedBy'[k] = Null
  <2>1. /\ NewIDs(q) \cap Live = {}
        /\ pc[q] \in InsertCalls => \A k \in NewIDs(q) : removedBy[k] = Null
        /\ input[q] \in CreateInput
    BY <1>2, <1>3
       DEF RInv, AttemptInv, FreshAttemptInv, TypeInv, BodyOK, CreateCalls, InsertCalls
  <2>2. \A k \in NewIDs(q) : k \in RemindIDs /\ \E i \in 1..MaxTimes : k = <<q, i>>
    BY <2>1, OwnIDs
  <2>3. ASSUME NEW k \in NewIDs(q), k \in Live' PROVE FALSE
    <3>1. Commit(p) /\ k \in NewIDs(p)
      BY <1>1, <2>1, <2>3, RowsOfStep
    <3>2. k = <<p, k[2]>>
      BY <3>1, CommitTable DEF RInv
    <3>. QED
      BY <2>2, <3>2
  <2>4. \A k \in NewIDs(q) : removedBy'[k] = removedBy[k]
    BY <1>1, <2>1, <2>2, RemovalsOfStep
  <2>. QED
    BY <1>2, <1>3, <2>1, <2>3, <2>4
<1>4. ASSUME pc'[p] \in {"NewReminds"} \cup InsertCalls
      PROVE  /\ NewIDs(p)' \cap Live' = {}
             /\ pc'[p] \in InsertCalls =>
                  ids'[p] = NewIDs(p)' /\ \A k \in NewIDs(p)' : removedBy'[k] = Null
  <2>1. /\ QuietStep(p) /\ input' = input /\ input[p] \in CreateInput
        /\ \/ pc'[p] = "NewReminds" /\ OfTask(input[p].task) = {}
           \/ NewReminds(p) /\ ~OutOfIDs(p) /\ ids'[p] = NewIDs(p)
           \/ pc[p] \in InsertCalls /\ ids' = ids
    BY <1>4, InsertsReachedFrom
  <2>2. Live' = Live /\ removedBy' = removedBy /\ NewIDs(p)' = NewIDs(p)
    BY <2>1, QuietTable DEF NewIDs
  <2>3. CASE pc'[p] = "NewReminds" /\ OfTask(input[p].task) = {}
    BY <2>1, <2>2, <2>3, NothingFound DEF InsertCalls
  <2>4. CASE NewReminds(p) /\ ~OutOfIDs(p) /\ ids'[p] = NewIDs(p)
    <3>1. pc[p] = "NewReminds" /\ ~OutOfIDs(p)
      BY <2>4 DEF NewReminds
    <3>2. \A k \in NewIDs(p) : removedBy[k] = Null
      BY <3>1 DEF OutOfIDs
    <3>3. NewIDs(p) \cap Live = {}
      BY <3>1 DEF RInv, AttemptInv, FreshAttemptInv
    <3>. QED
      BY <2>2, <2>4, <3>2, <3>3
  <2>5. CASE pc[p] \in InsertCalls /\ ids' = ids
    BY <2>2, <2>5 DEF RInv, AttemptInv, FreshAttemptInv
  <2>. QED
    BY <2>1, <2>3, <2>4, <2>5
<1>5. ASSUME NEW k \in RemindIDs, removedBy'[k] # Null PROVE k \notin Live'
  <2>1. CASE k \in Live
    <3>1. ~Commit(p) /\ ~Update(p) /\ ~QuietStep(p)
      <4>1. removedBy[k] = Null
        BY <2>1 DEF RInv, AttemptInv, FreshAttemptInv
      <4>. QED
        BY <1>5, <4>1, QuietTable DEF Commit, Update
    <3>2. PICK S : Remove(p, S)
      BY <1>1, <3>1, StepCases DEF Delete, DeleteByTaskID
    <3>. QED
      BY <1>5, <2>1, <3>2, RemoveTable DEF RInv, AttemptInv, FreshAttemptInv
  <2>2. CASE k \notin Live
    <3>1. removedBy[k] # Null
      BY <1>1, <1>5, <2>2, RemovalsOfStep
    <3>2. Commit(p) => k \notin NewIDs(p)
      BY <3>1 DEF Commit, RInv, AttemptInv, FreshAttemptInv, InsertCalls
    <3>. QED
      BY <1>1, <2>2, <3>2, RowsOfStep
  <2>. QED
    BY <2>1, <2>2
<1>6. \A q \in Requests : pc'[q] \in {"NewReminds"} \cup InsertCalls => NewIDs(q)' \cap Live' = {}
  BY <1>2, <1>3, <1>4
<1>7. \A q \in Requests : pc'[q] \in InsertCalls =>
         ids'[q] = NewIDs(q)' /\ \A k \in NewIDs(q)' : removedBy'[k] = Null
  <2>1. ASSUME NEW q \in Requests \ {p}, pc'[q] \in InsertCalls
        PROVE  ids'[q] = NewIDs(q)' /\ \A k \in NewIDs(q)' : removedBy'[k] = Null
    <3>1. ids[q] = NewIDs(q)
      BY <1>2, <2>1 DEF RInv, AttemptInv, FreshAttemptInv
    <3>. QED
      BY <1>2, <1>3, <2>1, <3>1
  <2>. QED
    BY <1>4, <2>1
<1>. QED
  BY <1>5, <1>6, <1>7 DEF FreshAttemptInv

LEMMA StepAnsweredInv ==
    ASSUME RInv, NEW p \in Requests, Step(p)
    PROVE  AnsweredInv'
<1>1. ASSUME NEW q \in Requests \ {p}
      PROVE  /\ reply'[q] # 0 => pc'[q] = "replied"
             /\ reply'[q] = 201 =>
                  input'[q] \in CreateInput /\ NewIDs(q)' \cap Live' \subseteq ids'[q]
  <2>1. /\ pc'[q] = pc[q] /\ ids'[q] = ids[q] /\ input'[q] = input[q]
        /\ NewIDs(q)' = NewIDs(q)
    BY OthersUntouched DEF Untouched, RInv, NewIDs
  <2>2. reply'[q] = reply[q]
    BY DEF RInv, TypeInv, TypeOK, Step, Work, Create, Cancel, Receive, FindByTaskID, NewReminds,
         Begin, Save, Rollback, Commit, FindByTimeRange, FindByID, Update, Delete, SelectByTaskID,
         DeleteByTaskID, Publish, Fail, Crash, Goto, End, EndOrLost
  <2>3. reply[q] # 0 => pc[q] = "replied"
    BY DEF RInv, AttemptInv, AnsweredInv
  <2>4. ASSUME reply[q] = 201
        PROVE  input[q] \in CreateInput /\ NewIDs(q) \cap Live' \subseteq ids[q]
    <3>1. input[q] \in CreateInput /\ NewIDs(q) \cap Live \subseteq ids[q]
      BY <2>4 DEF RInv, AttemptInv, AnsweredInv
    <3>2. ASSUME NEW k \in NewIDs(q), k \in Live' PROVE k \in Live
      <4>1. \E i \in 1..MaxTimes : k = <<q, i>>
        BY <3>1, <3>2, OwnIDs
      <4>2. Commit(p) => k \notin NewIDs(p)
        BY <4>1, CommitTable DEF RInv
      <4>. QED
        BY <3>2, <4>2, RowsOfStep, RInvIsShared
    <3>. QED
      BY <3>1, <3>2
  <2>. QED
    BY <2>1, <2>2, <2>3, <2>4
<1>2. pc[p] \notin Ended
  BY DEF Step, Work, Create, Cancel, Receive, FindByTaskID, NewReminds, Begin, Save, Rollback,
       Commit, FindByTimeRange, FindByID, Update, Delete, SelectByTaskID, DeleteByTaskID, Publish,
       Fail, Crash, Calls, Ended
<1>3. reply[p] = 0
  BY <1>2 DEF RInv, AttemptInv, AnsweredInv, Ended
<1>4. reply'[p] # 0 => pc'[p] = "replied"
  BY <1>3 DEF RInv, TypeInv, TypeOK, Step, Work, Create, Cancel, Receive, FindByTaskID, NewReminds,
       Begin, Save, Rollback, Commit, FindByTimeRange, FindByID, Update, Delete, SelectByTaskID,
       DeleteByTaskID, Publish, Fail, Crash, Goto, End, EndOrLost
<1>5. ASSUME reply'[p] = 201
      PROVE  input'[p] \in CreateInput /\ NewIDs(p)' \cap Live' \subseteq ids'[p]
  <2>1. (FindByTaskID(p) /\ OfTask(input[p].task) # {}) \/ Commit(p)
    BY <1>3, <1>5 DEF RInv, TypeInv, TypeOK, Step, Work, Create, Cancel, Receive, FindByTaskID,
         NewReminds, Begin, Save, Rollback, Commit, FindByTimeRange, FindByID, Update, Delete,
         SelectByTaskID, DeleteByTaskID, Publish, Fail, Crash, Goto, End, EndOrLost
  <2>2. input' = input /\ NewIDs(p)' = NewIDs(p) /\ input[p] \in CreateInput
    BY <2>1 DEF FindByTaskID, Commit, NewIDs, RInv, TypeInv, BodyOK, CreateCalls
  <2>3. CASE FindByTaskID(p) /\ OfTask(input[p].task) # {}
    <3>1. ids'[p] = OfTask(input[p].task)
      BY <2>3 DEF FindByTaskID, Hold, RInv, TypeInv, TypeOK
    <3>2. Live' = Live
      BY <2>3, QuietTable DEF QuietStep
    <3>3. ASSUME NEW k \in NewIDs(p), k \in Live PROVE k \in OfTask(input[p].task)
      <4>1. table[k].task = input[p].task
        BY <2>2, <3>3, OwnIDs DEF RInv, AttemptInv, OwnRowsInv
      <4>. QED
        BY <3>3, <4>1 DEF OfTask
    <3>. QED
      BY <2>2, <3>1, <3>2, <3>3
  <2>4. CASE Commit(p)
    BY <2>2, <2>4 DEF Commit, RInv, AttemptInv, FreshAttemptInv, InsertCalls
  <2>. QED
    BY <2>1, <2>3, <2>4
<1>. QED
  BY <1>1, <1>4, <1>5 DEF AnsweredInv

LEMMA StepRInv ==
    ASSUME RInv, NEW p \in Requests, AttemptStep(p)
    PROVE  RInv'
<1>1. Step(p) /\ SharedInv
  BY RInvIsShared DEF AttemptStep, Step
<1>2. TypeInv'
  BY <1>1, NextTypeInv DEF SharedInv, Step, Next
<1>3. KeyInv' /\ CopyInv' /\ CancelInv'
  BY <1>1, NextKeyInv, NextCopyInv, NextCancelInv DEF SharedInv
<1>4. ArrivedInv'
  BY <1>1, StepArrivedInv DEF RInv, AttemptInv
<1>5. AnsweredInv' /\ OwnRowsInv'
  BY <1>1, StepAnsweredInv, StepOwnRowsInv
<1>6. FreshAttemptInv'
  BY StepFreshAttemptInv
<1>. QED
  BY <1>2, <1>3, <1>4, <1>5, <1>6 DEF RInv, AttemptInv

-----------------------------------------------------------------------------
(* The next attempt. *)

LEMMA AgainRInv ==
    ASSUME RInv, NEW p \in Requests, pc[p] \in Ended, Again(p)
    PROVE  RInv'
<1>1. /\ UNCHANGED <<input, saved, table, events, removedBy>> /\ Live' = Live
      /\ \A q : NewIDs(q)' = NewIDs(q)
  BY DEF Again, Live, NewIDs
<1>2. /\ pc \in [Requests -> {"idle"} \cup Calls \cup Ended] /\ reply \in [Requests -> Statuses]
      /\ ids \in [Requests -> SUBSET RemindIDs] /\ entity \in [Requests -> Rows \cup {Null}]
      /\ input \in [Requests -> AllInputs \cup {Null}]
  BY DEF RInv, TypeInv, TypeOK
<1>3. input[p] \in AllInputs
  BY <1>2 DEF RInv, AttemptInv, ArrivedInv, Ended
<1>4. /\ input[p].op = "create" => input[p] \in CreateInput
      /\ input[p].op = "range" => input[p] \in RangeInput
      /\ input[p].op = "throttle" => input[p] \in ThrottleInput
      /\ input[p].op = "delete" => input[p] \in DeleteInput
      /\ input[p].op = "cancel" => input[p] \in CancelInput
      /\ input[p].op \in {"create", "range", "throttle", "delete", "cancel"}
  BY <1>3 DEF AllInputs, CreateInput, RangeInput, ThrottleInput, DeleteInput, CancelInput
<1>5. /\ pc'[p] = FirstCall(input[p].op) /\ reply'[p] = 0 /\ ids'[p] = {} /\ entity'[p] = Null
      /\ \A q \in Requests \ {p} : /\ pc'[q] = pc[q] /\ reply'[q] = reply[q]
                                   /\ ids'[q] = ids[q] /\ entity'[q] = entity[q]
  BY <1>2 DEF Again, Hold
<1>6. /\ pc'[p] \in {"FindByTaskID", "FindByTimeRange", "FindByID", "Delete", "SelectByTaskID"}
      /\ pc'[p] = "FindByTaskID" => input[p].op = "create"
      /\ pc'[p] = "FindByTimeRange" => input[p].op = "range"
      /\ pc'[p] = "FindByID" => input[p].op = "throttle"
      /\ pc'[p] = "Delete" => input[p].op = "delete"
      /\ pc'[p] = "SelectByTaskID" => input[p].op = "cancel"
  BY <1>4, <1>5 DEF FirstCall
<1>7. TypeInv'
  <2>1. pc' \in [Requests -> {"idle"} \cup Calls \cup Ended] /\ reply' \in [Requests -> Statuses]
    BY <1>2, <1>5, <1>6 DEF Again, Calls, Statuses
  <2>2. /\ ids' \in [Requests -> SUBSET RemindIDs] /\ entity' \in [Requests -> Rows \cup {Null}]
        /\ faulty' \subseteq Requests /\ before' \in [Requests -> SUBSET Requests]
    BY <1>2 DEF Again, Hold, RInv, TypeInv, TypeOK
  <2>3. TypeOK'
    BY <1>1, <2>1, <2>2 DEF RInv, TypeInv, TypeOK
  <2>4. saved[p] = 0
    BY DEF RInv, TypeInv, SavedOK, InTx, Ended
  <2>5. BodyOK(p)' /\ SavedOK(p)'
    BY <1>1, <1>4, <1>6, <2>4 DEF BodyOK, SavedOK, InTx, CreateCalls
  <2>6. \A q \in Requests \ {p} : BodyOK(q)' /\ SavedOK(q)'
    BY <1>1, <1>5 DEF RInv, TypeInv, BodyOK, SavedOK, InTx
  <2>. QED
    BY <2>3, <2>5, <2>6 DEF TypeInv
<1>8. KeyInv'
  <2>1. \A k \in Live' : k \in Live /\ Key(table'[k]) = Key(table[k])
    BY <1>1
  <2>. QED
    BY <1>1, <2>1, KeyKept DEF RInv
<1>9. CopyInv' /\ CancelInv'
  <2>1. \A k : Born(k)' <=> Born(k)
    BY <1>1 DEF Born
  <2>2. \A q \in Requests : pc'[q] \in {"Update", "DeleteByTaskID", "Publish"} => q # p
    BY <1>6
  <2>3. CopyInv'
    BY <1>1, <1>5, <2>1, <2>2 DEF RInv, CopyInv, Key
  <2>4. CancelInv'
    BY <1>1, <1>5, <2>1, <2>2 DEF RInv, CancelInv
  <2>. QED
    BY <2>3, <2>4
<1>10. ArrivedInv'
  <2>1. pc[p] # "idle" /\ pc'[p] # "idle"
    BY <1>6 DEF Ended
  <2>. QED
    BY <1>1, <1>5, <2>1 DEF RInv, AttemptInv, ArrivedInv
<1>11. FreshAttemptInv'
  <2>1. \A q \in Requests : pc'[q] \in {"NewReminds"} \cup InsertCalls => q # p
    BY <1>6 DEF InsertCalls
  <2>. QED
    BY <1>1, <1>5, <2>1 DEF RInv, AttemptInv, FreshAttemptInv
<1>12. OwnRowsInv'
  BY <1>1 DEF RInv, AttemptInv, OwnRowsInv
<1>13. AnsweredInv'
  BY <1>1, <1>5 DEF RInv, AttemptInv, AnsweredInv
<1>. QED
  BY <1>7, <1>8, <1>9, <1>10, <1>11, <1>12, <1>13 DEF RInv, AttemptInv

LEMMA StutterRInv == RInv /\ UNCHANGED vars => RInv'
<1>. SUFFICES ASSUME RInv, UNCHANGED vars PROVE RInv'
  OBVIOUS
<1>1. Live' = Live /\ \A q : NewIDs(q)' = NewIDs(q)
  BY DEF Live, NewIDs, vars
<1>2. CopyInv' /\ CancelInv' /\ AttemptInv'
  BY <1>1 DEF RInv, CopyInv, CancelInv, AttemptInv, ArrivedInv, FreshAttemptInv, OwnRowsInv,
       AnsweredInv, Born, Key, vars
<1>3. KeyInv'
  BY <1>1 DEF RInv, KeyInv, UniqueKey, Key, NewRow, vars
<1>. QED
  BY <1>2, <1>3, StutterTypeInv DEF RInv

-----------------------------------------------------------------------------
(* The theorems. *)

\* A step is one of an attempt, the start of the next attempt, or changes nothing
\* of the service.
LEMMA RNextCases ==
    ASSUME [RNext]_rvars
    PROVE  \/ \E p \in Requests : AttemptStep(p)
           \/ \E p \in Requests : pc[p] \in Ended /\ Again(p)
           \/ UNCHANGED vars
<1>1. CASE UNCHANGED rvars
  BY <1>1 DEF rvars
<1>2. CASE Content
  BY <1>2 DEF Content, rvars
<1>3. ASSUME NEW p \in Requests, Send(p) \/ Handle(p) \/ Break(p)
      PROVE  AttemptStep(p)
  BY <1>3 DEF Send, Handle, Break, AttemptStep
<1>4. ASSUME NEW p \in Requests, Resend(p) \/ LoseAnswer(p)
      PROVE  pc[p] \in Ended /\ Again(p)
  BY <1>4 DEF Resend, Unanswered, LoseAnswer, Ended
<1>. QED
  BY <1>1, <1>2, <1>3, <1>4 DEF RNext

LEMMA RNextRInv == RInv /\ [RNext]_rvars => RInv'
BY RNextCases, StepRInv, AgainRInv, StutterRInv

\* However often requests are sent again, an attempt inserts only ids that are
\* not in the table and were never removed from it.
THEOREM RetriesInvariance == RSpec => []RInv
<1>1. RInit => RInv
  BY InitRInv DEF RInit
<1>. QED
  BY <1>1, RNextRInv, PTL DEF RSpec

\* However many attempts failed, crashed or were not heard of, the answer 201 to
\* the last one lists every remind that any of them left in the table.
THEOREM ClientsKnowTheirReminds == RSpec => []ClientKnowsItsReminds
<1>1. RInv => ClientKnowsItsReminds
  BY DEF RInv, AttemptInv, AnsweredInv, ClientKnowsItsReminds
<1>. QED
  BY <1>1, RetriesInvariance, PTL

\* The unique index holds whatever is sent again.
THEOREM RetriedKeysAreUnique == RSpec => []UniqueKey
<1>1. RInv => UniqueKey
  BY DEF RInv, KeyInv
<1>. QED
  BY <1>1, RetriesInvariance, PTL

\* A reader of the store sees no difference: what a repeated request does is what
\* RemindStore allows, and a remind that disappeared is not created again.
THEOREM RetriesImplementStore == RSpec => StoreSpec
<1>1. RInit => Store!Init
  BY InitImplements DEF RInit
<1>2. RInv /\ RInv' /\ [RNext]_rvars => [Store!Next]_Store!vars
  <2>. SUFFICES ASSUME RInv, RInv', [RNext]_rvars PROVE [Store!Next]_Store!vars
    OBVIOUS
  <2>1. SharedInv /\ SharedInv'
    BY RInvIsShared, PTL
  <2>2. ASSUME NEW p \in Requests, AttemptStep(p) PROVE [Store!Next]_Store!vars
    BY <2>1, <2>2, StepImplements DEF AttemptStep, Step
  <2>3. ASSUME NEW p \in Requests, Again(p) PROVE UNCHANGED Store!vars
    BY <2>3 DEF Again, Store!vars
  <2>4. ASSUME UNCHANGED vars PROVE UNCHANGED Store!vars
    BY <2>4 DEF vars, Store!vars
  <2>. QED
    BY <2>2, <2>3, <2>4, RNextCases
<1>. QED
  BY <1>1, <1>2, RetriesInvariance, PTL DEF RSpec, StoreSpec, Store!Spec

=============================================================================
