--------------------------- MODULE RemindStoreProofs ---------------------------
(***************************************************************************)
(* For any number of requests, tasks, times and connections: the service     *)
(* implements RemindStore.  Every statement that changes the table adds one  *)
(* whole batch, throttles one remind or drops some for ever, whatever other   *)
(* requests do between the statements of its method.                         *)
(***************************************************************************)
EXTENDS RemindServiceProofs

\* The ids the store has lost, and those it has announced, as a reader of the
\* service sees them.
Gone == {k \in RemindIDs : removedBy[k] # Null}

Announced == UNION {e.ids : e \in events}

\* The keys of the index are the task and the time of the abstract rows.
LEMMA KeysAreDistinct ==
    ASSUME UniqueKey
    PROVE  \A j, k \in DOMAIN table :
               table[j].task = table[k].task /\ table[j].time = table[k].time => j = k
BY DEF UniqueKey, Key, Live

LEMMA InitImplements == Init => Store!Init
<1>. SUFFICES ASSUME Init PROVE Store!Init
  OBVIOUS
<1>1. PICK S \in SUBSET EarlierIDs : table \in [S -> Rows]
  BY DEF Init
<1>2. S \in SUBSET RemindIDs /\ table \in [S -> Store!Rows]
  BY <1>1 DEF RemindIDs, Rows, Store!Rows
<1>3. Store!Distinct(table)
  BY KeysAreDistinct DEF Init, UniqueKey, Store!Distinct
<1>4. Gone = {} /\ Announced = {}
  BY DEF Init, Gone, Announced
<1>. QED
  BY <1>2, <1>3, <1>4 DEF Store!Init, Gone, Announced

\* A commit makes the reminds of one request visible, all at once.
LEMMA CommitAdds ==
    ASSUME SharedInv, UniqueKey', NEW p \in Requests, Commit(p)
    PROVE  Store!Add(NewIDs(p))
<1>1. /\ input[p] \in CreateInput
      /\ Live' = Live \cup NewIDs(p)
      /\ \A k \in Live' : table'[k] = IF k \in NewIDs(p) THEN NewRow(p, k[2]) ELSE table[k]
      /\ table' \in [Live' -> Rows]
  BY CommitTable DEF SharedInv
<1>2. NewIDs(p) \cap (Live \cup Gone) = {}
  <2>1. pc[p] = "Commit"
    BY DEF Commit
  <2>. QED
    BY <2>1 DEF SharedInv, UnbornInv, Born, Gone
<1>3. \A k \in Live : table'[k] = table[k]
  BY <1>1, <1>2
<1>4. \A k \in NewIDs(p) : table'[k].task = input[p].task /\ ~table'[k].throttled
  <2>1. \A k \in NewIDs(p) : table'[k] = NewRow(p, k[2])
    BY <1>1
  <2>2. \A i : NewRow(p, i).task = input[p].task /\ NewRow(p, i).throttled = FALSE
    BY DEF NewRow
  <2>. QED
    BY <2>1, <2>2
<1>5. Store!Distinct(table')
  BY DEF UniqueKey, Key, Live, Store!Distinct
<1>6. Gone' = Gone /\ Announced' = Announced
  BY DEF Commit, Gone, Announced
<1>7. table' \in [DOMAIN table' -> Store!Rows]
  BY <1>1 DEF Live, Rows, Store!Rows
<1>. QED
  BY <1>1, <1>2, <1>3, <1>4, <1>5, <1>6, <1>7 DEF Store!Add, Live, Gone, Announced

\* An update throttles the remind it was asked for, or leaves the table alone:
\* a copy differs from its row in the flag at most.
LEMMA UpdateThrottles ==
    ASSUME SharedInv, NEW p \in Requests, Update(p)
    PROVE  (\E id \in RemindIDs : Store!Throttle(id)) \/ UNCHANGED Store!vars
<1>. DEFINE id == input[p].id
<1>1. Gone' = Gone /\ Announced' = Announced
  BY DEF Update, Gone, Announced
<1>2. /\ id \in RemindIDs /\ entity[p] \in Rows
      /\ Live' = Live /\ table \in [Live -> Rows] /\ table' \in [Live -> Rows]
      /\ \A k \in Live : table'[k] = IF k = id THEN UpdatedRow(table[k], entity[p])
                                     ELSE table[k]
  BY UpdateTable DEF SharedInv, TypeInv, TypeOK, ThrottleInput
<1>3. id \in Live => Key(entity[p]) = Key(table[id])
  BY DEF SharedInv, CopyInv, Update
<1>4. CASE id \in Live /\ entity[p].throttled
  <2>1. table[id] \in Rows
    BY <1>2, <1>4
  <2>2. UpdatedRow(table[id], entity[p]) = [table[id] EXCEPT !.throttled = TRUE]
    BY <1>2, <1>3, <1>4, <2>1 DEF UpdatedRow, Rows, Key
  <2>3. table' = [table EXCEPT ![id] = [table[id] EXCEPT !.throttled = TRUE]]
    BY <1>2, <1>4, <2>2
  <2>4. table' = [table EXCEPT ![id].throttled = TRUE]
    BY <2>3
  <2>5. Store!Throttle(id)
    BY <1>1, <1>4, <2>4 DEF Store!Throttle, Gone, Announced, Live
  <2>. QED
    BY <1>2, <2>5
<1>5. CASE ~(id \in Live /\ entity[p].throttled)
  <2>1. ASSUME id \in Live
        PROVE  UpdatedRow(table[id], entity[p]) = table[id]
    <3>1. table[id] \in Rows /\ ~entity[p].throttled
      BY <1>2, <1>5, <2>1
    <3>. QED
      BY <1>2, <1>3, <2>1, <3>1 DEF UpdatedRow, Rows, Key
  <2>2. table' = table
    BY <1>2, <2>1
  <2>. QED
    BY <1>1, <2>2 DEF Store!vars, Gone, Announced
<1>. QED
  BY <1>4, <1>5

\* A deletion drops what is there of what it names.
LEMMA RemoveDrops ==
    ASSUME SharedInv, NEW p \in Requests, NEW S, Remove(p, S), events' = events
    PROVE  S \cap Live \in SUBSET RemindIDs /\ Store!Drop(S \cap Live)
<1>. DEFINE T == S \cap Live
<1>1. T \in SUBSET RemindIDs /\ T \subseteq Live
  BY DEF SharedInv, TypeInv, TypeOK
<1>2. table' = [k \in Live \ T |-> table[k]]
  <2>1. Live \ T = Live \ S
    OBVIOUS
  <2>. QED
    BY <2>1 DEF Remove, AfterDelete
<1>3. Gone' = Gone \cup T
  <2>1. \A k \in RemindIDs : removedBy'[k] = IF k \in T THEN p ELSE removedBy[k]
    BY RemoveTable DEF SharedInv
  <2>. QED
    BY <1>1, <2>1, NullAssumption DEF Gone
<1>4. Announced' = Announced
  BY DEF Announced
<1>. HIDE DEF T
<1>5. Store!Drop(T)
  BY <1>1, <1>2, <1>3, <1>4 DEF Store!Drop, Live, Gone, Announced
<1>. QED
  BY <1>1, <1>5 DEF T

\* Every other step is at most an announcement of what is gone.
LEMMA QuietAnnounces ==
    ASSUME SharedInv, SharedInv', NEW p \in Requests, QuietStep(p)
    PROVE  Store!Announce \/ UNCHANGED Store!vars
<1>1. table' = table /\ Gone' = Gone
  BY QuietTable DEF Gone
<1>2. CASE Publish(p)
  <2>1. events \subseteq events'
    BY <1>2 DEF Publish
  <2>2. Announced \subseteq Announced'
    BY <2>1 DEF Announced
  <2>3. Announced' \subseteq Gone'
    BY DEF SharedInv, TypeInv, TypeOK, CancelInv, Announced, Gone
  <2>. QED
    BY <1>1, <2>2, <2>3 DEF Store!Announce, Gone, Announced
<1>3. CASE ~Publish(p)
  <2>1. events' = events
    BY <1>3 DEF QuietStep, Receive, FindByTaskID, NewReminds, Begin, Save, Rollback,
       FindByTimeRange, FindByID, SelectByTaskID, Fail, Crash
  <2>. QED
    BY <1>1, <2>1 DEF Store!vars, Gone
<1>. QED
  BY <1>2, <1>3

LEMMA StepImplements ==
    ASSUME SharedInv, SharedInv', NEW p \in Requests, Step(p)
    PROVE  [Store!Next]_Store!vars
<1>1. CASE QuietStep(p)
  BY <1>1, QuietAnnounces DEF Store!Next
<1>2. CASE Commit(p)
  <2>1. NewIDs(p) \in SUBSET RemindIDs
    BY <1>2, CommitTable, NewRows DEF SharedInv
  <2>2. Store!Add(NewIDs(p))
    BY <1>2, CommitAdds DEF SharedInv, KeyInv
  <2>. QED
    BY <2>1, <2>2 DEF Store!Next
<1>3. CASE Update(p)
  BY <1>3, UpdateThrottles DEF Store!Next
<1>4. CASE Delete(p) \/ DeleteByTaskID(p)
  <2>1. PICK S : Remove(p, S)
    BY <1>4 DEF Delete, DeleteByTaskID
  <2>2. events' = events
    BY <1>4 DEF Delete, DeleteByTaskID
  <2>. DEFINE T == S \cap Live
  <2>3. T \in SUBSET RemindIDs /\ Store!Drop(T)
    BY <2>1, <2>2, RemoveDrops
  <2>. HIDE DEF T
  <2>. QED
    BY <2>3 DEF Store!Next, Store!Drop
<1>. QED
  BY <1>1, <1>2, <1>3, <1>4, StepCases

\* The store a reader sees is RemindStore's: batches appear whole with new ids,
\* a remind changes only by becoming throttled, what disappears stays away, and
\* only what disappeared is announced.
THEOREM ImplementsStore == Spec => StoreSpec
<1>1. IInv /\ IInv' /\ [Next]_vars => [Store!Next]_Store!vars
  <2>. SUFFICES ASSUME IInv, IInv', [Next]_vars PROVE [Store!Next]_Store!vars
    OBVIOUS
  <2>1. CASE UNCHANGED vars
    BY <2>1 DEF vars, Store!vars
  <2>2. SharedInv /\ SharedInv'
    BY IInvIsShared, PTL
  <2>3. CASE \E p \in Requests : Step(p)
    BY <2>2, <2>3, StepImplements
  <2>. QED
    BY <2>1, <2>3 DEF Next, Quiescent, Step
<1>. QED
  BY InitImplements, Invariance, <1>1, PTL DEF Spec, StoreSpec, Store!Spec

=============================================================================
