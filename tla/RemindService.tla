---------------------------- MODULE RemindService ----------------------------
(***************************************************************************)
(* The remind service as its clients see it: a set of HTTP requests, each  *)
(* served by a goroutine that runs one method of remindUseCaseImpl          *)
(* (internal/app/remind_usecase_impl.go) over remindRepositoryImpl          *)
(* (internal/infra/repository/remind_repository_impl.go) and one table of   *)
(* a PostgreSQL database.                                                   *)
(*                                                                         *)
(* A goroutine's program counter is named after the repository call it is   *)
(* about to make, and one action is one such call together with the code    *)
(* up to the next one: other goroutines, of this or another instance of     *)
(* the service, run between two calls and never inside one, because each    *)
(* call is one SQL statement.  The statements of WithTx are the exception:  *)
(* their effect stays private until Commit.                                 *)
(***************************************************************************)
EXTENDS Naturals, FiniteSets, Sequences

CONSTANTS
    Requests,          \* the requests the clients send, one goroutine each
    Tasks,             \* task ids
    Times,             \* remind times, in the microseconds the column keeps
    MaxTimes,          \* bound: times in one create request
    MaxEarlier,        \* bound: reminds in the table at the start
    MaxOpenConns,      \* sql.DB.SetMaxOpenConns (cmd/main.go)
    PublisherEnabled,  \* whether run() was given a non-nil publisher
    Inputs,            \* bound: the request bodies the clients may send
    Earlier,           \* stands for the requests served before this start-up
    Null

EarlierIDs == {Earlier} \X (1..MaxEarlier)

RemindIDs == (Requests \X (1..MaxTimes)) \cup EarlierIDs

TimeLists == UNION {[1..n -> Times] : n \in 1..MaxTimes}

Rows == [task : Tasks, time : Times, throttled : BOOLEAN]

\* A body is storable if the columns take its strings: schema and domain let a
\* token with a NUL character pass, and a jsonb column refuses it.
CreateInput   == [op : {"create"}, task : Tasks, times : TimeLists, storable : BOOLEAN]
RangeInput    == [op : {"range"}, start : Times, end : Times]
ThrottleInput == [op : {"throttle"}, id : RemindIDs, throttled : BOOLEAN]
DeleteInput   == [op : {"delete"}, id : RemindIDs]
CancelInput   == [op : {"cancel"}, task : Tasks]

AllInputs ==
    CreateInput \cup RangeInput \cup ThrottleInput \cup DeleteInput \cup CancelInput

ASSUME RequestsAssumption == IsFiniteSet(Requests) /\ Earlier \notin Requests
ASSUME TimesAssumption == Times \subseteq Nat
ASSUME MaxTimesAssumption == MaxTimes \in Nat \ {0}
ASSUME MaxEarlierAssumption == MaxEarlier \in Nat
ASSUME MaxOpenConnsAssumption == MaxOpenConns \in Nat \ {0}
ASSUME PublisherAssumption == PublisherEnabled \in BOOLEAN
ASSUME InputsAssumption == Inputs \subseteq AllInputs
ASSUME NullAssumption == Null \notin Requests /\ Null \notin Rows /\ Null \notin AllInputs

VARIABLES
    pc,         \* the repository call each request is about to make
    input,      \* its body
    ids,        \* the remind ids it holds, and returns when it replies
    entity,     \* the entity UpdateThrottled read and will write back
    saved,      \* how many rows its open transaction has inserted
    table,      \* the committed rows of the table "reminds", by id
    events,     \* the cancel events the broker accepted
    reply,      \* the HTTP status sent, 0 before
    \* What follows is history: no action's guard reads it.
    removedBy,  \* the request whose statement deleted a row
    faulty,     \* the requests one of whose calls failed for an outside reason
    before      \* the requests already answered when a request arrived

vars == <<pc, input, ids, entity, saved, table, events, reply, removedBy, faulty, before>>

Calls == {"FindByTaskID", "NewReminds", "Begin", "Save", "Rollback", "Commit",
          "FindByTimeRange", "FindByID", "Update", "Delete",
          "SelectByTaskID", "DeleteByTaskID", "Publish"}

Ended == {"replied", "crashed"}

Statuses == {0, 200, 201, 204, 400, 404, 500}

-----------------------------------------------------------------------------
(* The database. *)

Live == DOMAIN table

Born(id) == id \in Live \/ removedBy[id] # Null

Key(row) == <<row.task, row.time>>

\* Mutant: the INSERT leaves out the column "throttled".
NewRowWithoutThrottled(p, i) == [task |-> input[p].task, time |-> input[p].times[i]]

\* The row CreateRemind builds for the i-th time of its input; uuid.New gives
\* every remind an id of its own, here the pair <<request, index>>.
NewRow(p, i) == [task |-> input[p].task, time |-> input[p].times[i], throttled |-> FALSE]

NewIDs(p) == {<<p, i>> : i \in DOMAIN input[p].times}

InTx(p) == pc[p] \in {"Save", "Rollback", "Commit"}

\* A statement outside a transaction borrows a connection of the pool, a
\* transaction keeps the one Begin took.
FreeConn == Cardinality({q \in Requests : InTx(q)}) < MaxOpenConns

\* Mutant: the reads and the deletion by task see only reminds still to be throttled.
NotThrottledOfTask(task) == {k \in Live : table[k].task = task /\ ~table[k].throttled}

OfTask(task) == {k \in Live : table[k].task = task}

\* Mutant: no unique index on (task_id, time).
KeyTakenByItself(p) ==
    \E i \in 1..saved[p] : Key(NewRow(p, i)) = Key(NewRow(p, saved[p] + 1))

\* The unique index (task_id, time): the next row p inserts is refused if a
\* committed row, or one the transaction itself inserted, has its key ...
KeyTaken(p) ==
    LET key == Key(NewRow(p, saved[p] + 1))
    IN  \/ \E k \in Live : Key(table[k]) = key
        \/ \E i \in 1..saved[p] : Key(NewRow(p, i)) = key

\* ... and the INSERT waits while another open transaction holds the key.
WaitsFor(p, q) ==
    /\ pc[p] = "Save"
    /\ q # p
    /\ InTx(q)
    /\ \E i \in 1..saved[q] : Key(NewRow(q, i)) = Key(NewRow(p, saved[p] + 1))

Waiting(p) == \E q \in Requests : WaitsFor(p, q)

\* PostgreSQL aborts a transaction of a cycle of waiting transactions: each of
\* a set waits for one of the set and is waited for by one of the set.
DeadlockVictim(p) ==
    \E S \in SUBSET Requests :
        /\ p \in S
        /\ \A q \in S : (\E r \in S : WaitsFor(q, r)) /\ (\E r \in S : WaitsFor(r, q))

\* Mutant: every column is written, as Select("*") or a map of columns would.
UpdatedAllColumns(row, e) == [task |-> e.task, time |-> e.time, throttled |-> e.throttled]

\* gorm's Updates(struct) writes the columns whose value is not zero: false is
\* never written to "throttled".
UpdatedRow(row, e) ==
    [task |-> e.task, time |-> e.time, throttled |-> row.throttled \/ e.throttled]

\* Mutant: gorm's Save, which inserts the row if it is not there.
AfterSave(id, e) == [k \in Live \cup {id} |-> IF k = id THEN e ELSE table[k]]

AfterUpdate(id, e) == [k \in Live |-> IF k = id THEN UpdatedRow(table[k], e) ELSE table[k]]

AfterCommit(p) ==
    [k \in Live \cup NewIDs(p) |-> IF k \in NewIDs(p) THEN NewRow(p, k[2]) ELSE table[k]]

AfterDelete(S) == [k \in Live \ S |-> table[k]]

Remove(p, S) ==
    /\ table' = AfterDelete(S)
    /\ removedBy' = [k \in RemindIDs |-> IF k \in S \cap Live THEN p ELSE removedBy[k]]

-----------------------------------------------------------------------------
(* How a request goes on. *)

Goto(p, call) == pc' = [pc EXCEPT ![p] = call] /\ UNCHANGED reply

End(p, status) ==
    /\ pc' = [pc EXCEPT ![p] = "replied"]
    /\ reply' = [reply EXCEPT ![p] = status]

\* The statement took effect; its answer reaches the service or is lost with
\* the connection, and then the service answers 500.
EndOrLost(p, status) ==
    \/ End(p, status) /\ UNCHANGED faulty
    \/ End(p, 500) /\ faulty' = faulty \cup {p}

Hold(p, S) == ids' = [ids EXCEPT ![p] = S]

-----------------------------------------------------------------------------
(* Arrival.  A client names a remind it was shown, or an id of no remind, for *)
(* which the ids of Earlier that have no row at the start stand.              *)

FirstCall(op) ==
    CASE op = "create"   -> "FindByTaskID"
      [] op = "range"    -> "FindByTimeRange"
      [] op = "throttle" -> "FindByID"
      [] op = "delete"   -> "Delete"
      [] op = "cancel"   -> "SelectByTaskID"

Known(i) == i.op \in {"throttle", "delete"} => Born(i.id) \/ i.id[1] = Earlier

\* The request passes the checks before the first repository call; of a range,
\* the one of the query's binding (gtfield=Start), stricter than the use case's.
Accepted(i) == i.op = "range" => i.start < i.end

Receive(p) ==
    /\ pc[p] = "idle"
    /\ \E i \in Inputs :
        /\ Known(i)
        /\ input' = [input EXCEPT ![p] = i]
        /\ before' = [before EXCEPT ![p] = {q \in Requests : pc[q] = "replied"}]
        /\ \/ Accepted(i) /\ Goto(p, FirstCall(i.op))
           \/ End(p, 400)   \* an id that does not parse, or a refused range
    /\ UNCHANGED <<ids, entity, saved, table, events, removedBy, faulty>>

-----------------------------------------------------------------------------
(* CreateRemind. *)

\* Mutant: the look-up reads one row, First instead of Find.
FindFirstByTaskID(p) ==
    /\ pc[p] = "FindByTaskID"
    /\ FreeConn
    /\ LET existing == OfTask(input[p].task)
       IN  IF existing # {}
           THEN (\E k \in existing : Hold(p, {k})) /\ End(p, 201)
           ELSE Goto(p, "NewReminds") /\ UNCHANGED ids
    /\ UNCHANGED <<input, entity, saved, table, events, removedBy, faulty, before>>

FindByTaskID(p) ==
    /\ pc[p] = "FindByTaskID"
    /\ FreeConn
    /\ LET existing == OfTask(input[p].task)
       IN  IF existing # {}
           THEN Hold(p, existing) /\ End(p, 201)
           ELSE Goto(p, "NewReminds") /\ UNCHANGED ids
    /\ UNCHANGED <<input, entity, saved, table, events, removedBy, faulty, before>>

\* The devices, the task type and each time against the clock are checked only
\* now, after the look-up.
NewReminds(p) ==
    /\ pc[p] = "NewReminds"
    /\ \/ Hold(p, NewIDs(p)) /\ Goto(p, "Begin")
       \/ End(p, 400) /\ UNCHANGED ids
    /\ UNCHANGED <<input, entity, saved, table, events, removedBy, faulty, before>>

Begin(p) ==
    /\ pc[p] = "Begin"
    /\ FreeConn
    /\ Goto(p, "Save")
    /\ UNCHANGED <<input, ids, entity, saved, table, events, removedBy, faulty, before>>

\* Mutant: Save runs on the pool instead of the transaction's connection.
SaveOnPool(p) ==
    /\ pc[p] = "Save"
    /\ IF ~input[p].storable \/ KeyTaken(p) \/ DeadlockVictim(p)
       THEN Goto(p, "Rollback") /\ UNCHANGED saved
       ELSE /\ FreeConn /\ ~Waiting(p)
            /\ saved' = [saved EXCEPT ![p] = @ + 1]
            /\ Goto(p, IF saved[p] + 1 = Len(input[p].times) THEN "Commit" ELSE "Save")
    /\ UNCHANGED <<input, ids, entity, table, events, removedBy, faulty, before>>

\* The INSERT is refused for its data, before it looks for keys, or for its key.
Save(p) ==
    /\ pc[p] = "Save"
    /\ IF ~input[p].storable \/ KeyTaken(p) \/ DeadlockVictim(p)
       THEN Goto(p, "Rollback") /\ UNCHANGED saved
       ELSE /\ ~Waiting(p)
            /\ saved' = [saved EXCEPT ![p] = @ + 1]
            /\ Goto(p, IF saved[p] + 1 = Len(input[p].times) THEN "Commit" ELSE "Save")
    /\ UNCHANGED <<input, ids, entity, table, events, removedBy, faulty, before>>

\* Mutant: the rows inserted before the error stay.
RollbackLeavesRows(p) ==
    /\ pc[p] = "Rollback"
    /\ table' = [k \in Live \cup {<<p, i>> : i \in 1..saved[p]} |->
                   IF k \in Live THEN table[k] ELSE NewRow(p, k[2])]
    /\ saved' = [saved EXCEPT ![p] = 0]
    /\ End(p, 500)
    /\ UNCHANGED <<input, ids, entity, events, removedBy, faulty, before>>

\* A Rollback that fails has lost its connection, and PostgreSQL aborts the
\* transaction by itself: the outcome is the same.
Rollback(p) ==
    /\ pc[p] = "Rollback"
    /\ saved' = [saved EXCEPT ![p] = 0]
    /\ End(p, 500)
    /\ UNCHANGED <<input, ids, entity, table, events, removedBy, faulty, before>>

Commit(p) ==
    /\ pc[p] = "Commit"
    /\ table' = AfterCommit(p)
    /\ saved' = [saved EXCEPT ![p] = 0]
    /\ EndOrLost(p, 201)
    /\ UNCHANGED <<input, ids, entity, events, removedBy, before>>

Create(p) ==
    FindByTaskID(p) \/ NewReminds(p) \/ Begin(p) \/ Save(p) \/ Rollback(p) \/ Commit(p)

-----------------------------------------------------------------------------
(* GetRemindsByTimeRange. *)

\* Mutant: the range is open at its end.
InOpenRange(row, start, end) == start <= row.time /\ row.time < end

InRange(row, start, end) == start <= row.time /\ row.time <= end

FindByTimeRange(p) ==
    /\ pc[p] = "FindByTimeRange"
    /\ FreeConn
    /\ Hold(p, {k \in Live : InRange(table[k], input[p].start, input[p].end)})
    /\ End(p, 200)
    /\ UNCHANGED <<input, entity, saved, table, events, removedBy, faulty, before>>

-----------------------------------------------------------------------------
(* UpdateThrottled: read the remind, mark the copy, write the copy back.     *)

MarkAsThrottled(row) == [row EXCEPT !.throttled = TRUE]

FindByID(p) ==
    LET id == input[p].id
    IN  /\ pc[p] = "FindByID"
        /\ FreeConn
        /\ IF id \in Live
           THEN /\ entity' = [entity EXCEPT ![p] =
                       IF input[p].throttled THEN MarkAsThrottled(table[id]) ELSE table[id]]
                /\ Goto(p, "Update")
           ELSE End(p, 404) /\ UNCHANGED entity
        /\ UNCHANGED <<input, ids, saved, table, events, removedBy, faulty, before>>

\* No row affected is ErrRemindNotFound, which the use case maps to 500.
Update(p) ==
    LET id == input[p].id
    IN  /\ pc[p] = "Update"
        /\ FreeConn
        /\ table' = AfterUpdate(id, entity[p])
        /\ IF id \in Live
           THEN Hold(p, {id}) /\ EndOrLost(p, 200)
           ELSE End(p, 500) /\ UNCHANGED <<ids, faulty>>
        /\ UNCHANGED <<input, entity, saved, events, removedBy, before>>

-----------------------------------------------------------------------------
(* DeleteRemind: a remind that is not there counts as deleted.               *)

\* Mutant: ErrRemindNotFound is an error like the others.
DeleteReportsMissing(p) ==
    /\ pc[p] = "Delete"
    /\ FreeConn
    /\ Remove(p, {input[p].id})
    /\ IF input[p].id \in Live THEN EndOrLost(p, 204) ELSE End(p, 500) /\ UNCHANGED faulty
    /\ UNCHANGED <<input, ids, entity, saved, events, before>>

Delete(p) ==
    /\ pc[p] = "Delete"
    /\ FreeConn
    /\ Remove(p, {input[p].id})
    /\ EndOrLost(p, 204)
    /\ UNCHANGED <<input, ids, entity, saved, events, before>>

-----------------------------------------------------------------------------
(* CancelRemindByTaskID: DeleteByTaskID selects the ids in one statement and *)
(* deletes by task id in another, outside any transaction.                   *)

\* Mutant: an event is published only if the DELETE affected as many rows as
\* the SELECT returned ids.
DeleteThenCompare(p) ==
    /\ pc[p] = "DeleteByTaskID"
    /\ FreeConn
    /\ Remove(p, OfTask(input[p].task))
    /\ \/ /\ IF PublisherEnabled /\ Cardinality(OfTask(input[p].task)) = Cardinality(ids[p])
             THEN Goto(p, "Publish") ELSE End(p, 204)
          /\ UNCHANGED faulty
       \/ End(p, 500) /\ faulty' = faulty \cup {p}
    /\ UNCHANGED <<input, ids, entity, saved, events, before>>

\* Mutant: the event is published before the rows are deleted.
SelectThenPublish(p) ==
    /\ pc[p] = "SelectByTaskID"
    /\ FreeConn
    /\ Hold(p, OfTask(input[p].task))
    /\ IF OfTask(input[p].task) = {} THEN End(p, 204) ELSE Goto(p, "Publish")
    /\ UNCHANGED <<input, entity, saved, table, events, removedBy, faulty, before>>

SelectByTaskID(p) ==
    /\ pc[p] = "SelectByTaskID"
    /\ FreeConn
    /\ Hold(p, OfTask(input[p].task))
    /\ IF OfTask(input[p].task) = {} THEN End(p, 204) ELSE Goto(p, "DeleteByTaskID")
    /\ UNCHANGED <<input, entity, saved, table, events, removedBy, faulty, before>>

DeleteByTaskID(p) ==
    /\ pc[p] = "DeleteByTaskID"
    /\ FreeConn
    /\ Remove(p, OfTask(input[p].task))
    /\ \/ /\ IF PublisherEnabled THEN Goto(p, "Publish") ELSE End(p, 204)
          /\ UNCHANGED faulty
       \/ End(p, 500) /\ faulty' = faulty \cup {p}
    /\ UNCHANGED <<input, ids, entity, saved, events, before>>

Event(p) == [by |-> p, task |-> input[p].task, ids |-> ids[p]]

\* An error of the publisher is logged and the request still succeeds, whether
\* the broker took the event or not.
Publish(p) ==
    /\ pc[p] = "Publish"
    /\ \/ events' = events \cup {Event(p)} /\ UNCHANGED faulty
       \/ events' \in {events, events \cup {Event(p)}} /\ faulty' = faulty \cup {p}
    /\ End(p, 204)
    /\ UNCHANGED <<input, ids, entity, saved, table, removedBy, before>>

Cancel(p) == SelectByTaskID(p) \/ DeleteByTaskID(p) \/ Publish(p)

-----------------------------------------------------------------------------
(* Outside failures. *)

\* A call fails without effect: a lost connection, or a request context the
\* server cancelled, never the data of the request.  FindByID's caller takes any
\* error for "not found".
Fail(p) ==
    /\ pc[p] \in {"FindByTaskID", "Begin", "Save", "Commit", "FindByTimeRange",
                  "FindByID", "Update", "Delete", "SelectByTaskID", "DeleteByTaskID"}
    /\ faulty' = faulty \cup {p}
    /\ IF pc[p] = "Save"
       THEN Goto(p, "Rollback") /\ UNCHANGED saved
       ELSE /\ End(p, IF pc[p] = "FindByID" THEN 404 ELSE 500)
            /\ saved' = [saved EXCEPT ![p] = 0]
    /\ UNCHANGED <<input, ids, entity, table, events, removedBy, before>>

\* The instance serving p stops, or p panics: PanicRecoveryGin panics again and
\* net/http drops the connection and cancels the request's context.  PostgreSQL
\* aborts the open transaction, or sql.DB does for the cancelled context, which
\* Begin was given.
Crash(p) ==
    /\ pc[p] \in Calls
    /\ pc' = [pc EXCEPT ![p] = "crashed"]
    /\ saved' = [saved EXCEPT ![p] = 0]
    /\ UNCHANGED <<input, ids, entity, table, events, reply, removedBy, faulty, before>>

-----------------------------------------------------------------------------

\* The service starts on the table earlier runs left behind.
Init ==
    /\ pc = [p \in Requests |-> "idle"]
    /\ input = [p \in Requests |-> Null]
    /\ ids = [p \in Requests |-> {}]
    /\ entity = [p \in Requests |-> Null]
    /\ saved = [p \in Requests |-> 0]
    /\ \E S \in SUBSET EarlierIDs : table \in [S -> Rows]
    /\ \A j, k \in Live : Key(table[j]) = Key(table[k]) => j = k
    /\ events = {}
    /\ reply = [p \in Requests |-> 0]
    /\ removedBy = [k \in RemindIDs |-> Null]
    /\ faulty = {}
    /\ before = [p \in Requests |-> {}]

Work(p) ==
    Create(p) \/ FindByTimeRange(p) \/ FindByID(p) \/ Update(p) \/ Delete(p) \/ Cancel(p)

\* Every request has been answered or lost.
Quiescent == (\A p \in Requests : pc[p] \in Ended) /\ UNCHANGED vars

Next == (\E p \in Requests : Receive(p) \/ Work(p) \/ Fail(p) \/ Crash(p)) \/ Quiescent

Spec == Init /\ [][Next]_vars

\* A goroutine that can make its next call makes it; nothing has to fail.
Fairness == \A p \in Requests : WF_vars(Work(p))

FairSpec == Spec /\ Fairness

-----------------------------------------------------------------------------
(* Properties. *)

\* The type invariant: every variable has its type.
TypeOK ==
    /\ pc \in [Requests -> {"idle"} \cup Calls \cup Ended]
    /\ input \in [Requests -> AllInputs \cup {Null}]
    /\ ids \in [Requests -> SUBSET RemindIDs]
    /\ entity \in [Requests -> Rows \cup {Null}]
    /\ saved \in [Requests -> 0..MaxTimes]
    /\ Live \subseteq RemindIDs
    /\ table \in [Live -> Rows]
    /\ events \subseteq [by : Requests, task : Tasks, ids : SUBSET RemindIDs]
    /\ reply \in [Requests -> Statuses]
    /\ removedBy \in [RemindIDs -> Requests \cup {Null}]
    /\ faulty \subseteq Requests
    /\ before \in [Requests -> SUBSET Requests]

\* No two committed reminds of a task have the same time, whatever
\* transactions and deletions interleave (migrations/20251217081542.sql).
UniqueKey == \A j, k \in Live : Key(table[j]) = Key(table[k]) => j = k

\* The reminds of a create request come into being all together or not at all
\* (WithTx), and a request answered 201 has created those it lists.
BatchAtomic ==
    \A p \in Requests :
        /\ input[p] # Null /\ input[p].op = "create"
              => (\A k \in NewIDs(p) : Born(k)) \/ (\A k \in NewIDs(p) : ~Born(k))
        /\ reply[p] = 201 => \A k \in ids[p] : Born(k)

\* Once UpdateThrottled answered that a remind is throttled, every later read
\* sees it so until it is deleted, although a concurrent update may still hold
\* a copy read before: a notification is not throttled twice.
ThrottleDurable ==
    \A p \in Requests :
        pc[p] = "replied" /\ reply[p] = 200 /\ input[p].op = "throttle" /\ entity[p].throttled
            => \A k \in ids[p] \cap Live : table[k].throttled

\* A remind named by a cancel event is deleted and stays so: a consumer that
\* drops its queued notification drops no notification still due.
AnnouncedAreGone == \A e \in events : \A k \in e.ids : k \notin Live /\ removedBy[k] # Null

\* After a delete or a cancel was answered 204, what it was asked to remove and
\* could have known of is gone for good: the remind; every remind of the task
\* whose creation was answered before the cancel arrived.
RemovedStayGone ==
    \A p \in Requests :
        reply[p] = 204 =>
            /\ input[p].op = "delete" => input[p].id \notin Live
            /\ input[p].op = "cancel" =>
                 /\ ids[p] \cap Live = {}
                 /\ \A q \in before[p] :
                      reply[q] = 201 /\ input[q].task = input[p].task => ids[q] \cap Live = {}

\* A create request sent after another for the same task was answered 201
\* returns that one's reminds, as long as none of them was removed.
RepeatedCreateReturnsExisting ==
    \A p \in Requests : \A q \in before[p] :
        /\ reply[p] = 201 /\ reply[q] = 201
        /\ input[p].task = input[q].task
        /\ \A k \in ids[q] : removedBy[k] = Null
        => ids[q] \subseteq ids[p]

\* p and q ask for a time of one task, and q came to insert what it asks for.
Clash(p, q) ==
    /\ input[q] # Null /\ input[q].op = "create" /\ input[q].task = input[p].task
    /\ input[q].storable /\ ids[q] = NewIDs(q)
    /\ \E i \in DOMAIN input[p].times, j \in DOMAIN input[q].times :
          /\ input[p].times[i] = input[q].times[j]
          /\ p = q => i # j

\* Without an outside failure a request is answered 500 only for a creation
\* whose tokens the column refuses, that shares a task and a time with another
\* that came to insert its reminds, or that has a time twice, and for an update
\* whose remind another request removed after it was read.
InternalErrorsExplained ==
    \A p \in Requests :
        reply[p] = 500 /\ p \notin faulty =>
            \/ /\ input[p].op = "create"
               /\ ~input[p].storable \/ \E q \in Requests : Clash(p, q)
            \/ input[p].op = "throttle" /\ removedBy[input[p].id] \notin {Null, p}

\* A remind that a lookup did not find, without an outside failure, is gone for
\* good: a concurrent update that still holds a copy does not bring it back.
NotFoundStaysGone ==
    \A p \in Requests : reply[p] = 404 /\ p \notin faulty => input[p].id \notin Live

\* What a cancel selected and deleted itself is in its event once it was
\* answered 204, whoever else deletes reminds of the task meanwhile: an event is
\* lost only to a failing publisher or a process that stops.
RemovedAreAnnounced ==
    \A p \in Requests :
        /\ PublisherEnabled /\ p \notin faulty
        /\ reply[p] = 204 /\ input[p].op = "cancel"
        /\ \E k \in ids[p] : removedBy[k] = p
        => Event(p) \in events

\* A range query lists every remind, still there, of a creation that was
\* answered before the query arrived, and nothing out of its range; both ends
\* are in the range.
RangeSeesAnswered ==
    \A p \in Requests :
        reply[p] = 200 /\ input[p].op = "range" =>
            LET wanted == {k \in Live : input[p].start <= table[k].time
                                          /\ table[k].time <= input[p].end}
            IN  /\ ids[p] \cap Live \subseteq wanted
                /\ \A q \in before[p] : reply[q] = 201 => ids[q] \cap wanted \subseteq ids[p]

\* Every request that arrived is answered or lost with its instance: waiting
\* for a key, for a connection or for each other ends.
EveryRequestEnds == \A p \in Requests : pc[p] # "idle" ~> pc[p] \in Ended

\* What a client sees of the table, whatever the requests do: see RemindStore.
Store == INSTANCE RemindStore WITH
            reminds <- table,
            gone <- {k \in RemindIDs : removedBy[k] # Null},
            announced <- UNION {e.ids : e \in events}

StoreSpec == Store!Spec

-----------------------------------------------------------------------------
(* What the tests and comments say, and does not hold when requests overlap.  *)

\* "duplicate TaskID returns existing reminds" (remind_usecase_impl_test.go):
\* two creations of one task return the same reminds.  Two that both look the
\* task up before either commits create two sets of reminds if they ask for
\* different times.
DuplicateCreateReturnsExisting ==
    \A p, q \in Requests :
        /\ reply[p] = 201 /\ reply[q] = 201
        /\ input[p].task = input[q].task
        /\ \A k \in ids[p] \cup ids[q] : removedBy[k] = Null
        => ids[p] = ids[q]

\* "List of remind IDs that were deleted, used to cancel queued notifications"
\* (throttle.pb.go): every remind a cancel request deleted is in the event it
\* publishes.  One created between the SELECT and the DELETE is not.
EventListsDeleted ==
    \A e \in events : {k \in RemindIDs : removedBy[k] = e.by} \subseteq e.ids

\* "PublishRemindCancelled should NOT be called when deletedCount = 0"
\* (remind_usecase_impl_test.go): whoever publishes an event deleted a remind.
\* The second of two cancel requests that select before either deletes did not.
EventMeansDeletion ==
    \A e \in events : \E k \in RemindIDs : removedBy[k] = e.by

=============================================================================
