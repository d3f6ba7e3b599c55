----------------------------- MODULE RemindModel -----------------------------
(***************************************************************************)
(* One remind on its way between a request, the entity (domain.Remind), the  *)
(* row (RemindModel, internal/infra/repository/remind_model.go) and the       *)
(* answers: what each conversion checks, drops and rounds.  Several           *)
(* UpdateThrottled calls may hold copies of the entity at a time.            *)
(*                                                                         *)
(* Points of time are in ticks, Micro of them to the microsecond the columns  *)
(* keep (1000 nanoseconds in the code); widths are in ticks of their own,     *)
(* Second of them to the second.  The clock does not go back; what is said of  *)
(* it is said of one creation or one update, which runs in one process, so it   *)
(* does not matter whether the clocks of several instances agree.              *)
(* The remind is not removed: RemindService has the removals and the           *)
(* overlapping creations, and the failures from outside.                       *)
(***************************************************************************)
EXTENDS Integers, Sequences

CONSTANTS
    Micro,       \* ticks in a microsecond
    Second,      \* ticks in a second of a width
    Tolerance,   \* ticks in the minute NewRemind allows a time to be past
    MaxClock,    \* bound: the last tick of the clock
    Bodies,      \* bound: the creations the clients may ask for
    Widths,      \* bound: the widths the calculator may come to
    Updaters,    \* UpdateThrottled calls
    Null

TaskTypes == {"short", "near", "relaxed", "scheduled"}

\* A version 7 UUID, or another one: the schema of the request allows both.
UUIDs == {"v7", "v4"}

\* A UUID or a string that is none; a token that is empty, has a NUL
\* character, or is any other string.
Devices == Seq([deviceID : {"uuid", ""}, fcmToken : {"", "nul", "text"}])

Ticks == 0..MaxClock

\* A creation with one time; a type that is no TaskType is "unspecified".
AllBodies ==
    [time : Ticks, userID : UUIDs, taskID : UUIDs, devices : Devices,
     taskType : TaskTypes \cup {"unspecified"}]

\* What an entity, a row and an answer have.
Fields ==
    [time : Ticks, userID : UUIDs, taskID : UUIDs, devices : Devices,
     taskType : TaskTypes \cup {"unspecified"}, throttled : BOOLEAN,
     width : Nat, createdAt : Ticks, updatedAt : Ticks]

InBounds(w) == 60 * Second <= w /\ w <= 600 * Second

ASSUME ScaleAssumption == Micro \in Nat \ {0} /\ Second \in Nat \ {0}
ASSUME ClockAssumption == MaxClock \in Nat /\ Tolerance \in Nat
ASSUME BodiesAssumption == Bodies \subseteq AllBodies
ASSUME WidthsAssumption == Widths \subseteq {w \in Nat : InBounds(w)}
ASSUME NullAssumption == Null \notin Bodies /\ Null \notin Fields /\ Null \notin Ticks

VARIABLES
    clock,      \* time.Now()
    row,        \* the row of the remind, Null without one
    copy,       \* the entity each UpdateThrottled call holds between its two statements
    stamp,      \* the time gorm took for its second statement, Null before
    asked,      \* the body of the creation answered last, Null if it was another request
    reply,      \* the status of the last answer
    \* History:
    created,    \* the body the remind was created from
    shown,      \* the remind as the answer to its creation showed it
    readAt      \* when each call's first statement read the row

vars == <<clock, row, copy, stamp, asked, reply, created, shown, readAt>>

updateVars == <<copy, stamp, readAt>>

-----------------------------------------------------------------------------
(* Checks and conversions. *)

DeviceOK(d) == d.deviceID # "" /\ d.fcmToken # ""

DevicesOK(ds) == Len(ds) > 0 /\ \A k \in 1..Len(ds) : DeviceOK(ds[k])

IDsOK(b) == b.userID = "v7" /\ b.taskID = "v7"

\* Mutant: any UUID is a task's or a user's.
AcceptedAnyUUID(b) == DevicesOK(b.devices) /\ b.taskType \in TaskTypes

\* The request passes the schema, and the checks before the look-up of the task.
\* The use case checks devices and task type after it, for what the schema let pass.
Accepted(b) == DevicesOK(b.devices) /\ b.taskType \in TaskTypes /\ IDsOK(b)

\* NewRemind refuses a time that has passed.
TimeOK(b) == b.time >= clock - Tolerance

NewRemind(b, w) ==
    [time |-> b.time, userID |-> b.userID, taskID |-> b.taskID, devices |-> b.devices,
     taskType |-> b.taskType, throttled |-> FALSE, width |-> w,
     createdAt |-> clock, updatedAt |-> clock]

\* Mutant: the column keeps minutes.
Minutes(w) == w \div (60 * Second)

Seconds(w) == w \div Second

FromSeconds(s) == s * Second

\* The column's precision: timestamptz keeps microseconds.
Stored(t) == t \div Micro

\* FromEntity of the model, and what the columns keep of it.
FromEntity(e) ==
    [e EXCEPT !.time = Stored(@), !.createdAt = Stored(@), !.updatedAt = Stored(@),
              !.width = Seconds(@)]

\* A jsonb column refuses a string with a NUL character.
RefusedByColumn(r) == \E k \in 1..Len(r.devices) : r.devices[k].fcmToken = "nul"

\* A row can be read back ...
Readable(r) ==
    /\ IDsOK(r)
    /\ DevicesOK(r.devices)
    /\ r.taskType \in TaskTypes
    /\ InBounds(FromSeconds(r.width))

\* Mutant: two arguments of one type change places in the call of Reconstitute.
ToEntitySwapped(r) ==
    [r EXCEPT !.time = @ * Micro, !.createdAt = r.updatedAt * Micro,
              !.updatedAt = r.createdAt * Micro, !.width = FromSeconds(@)]

\* ... as this entity.
ToEntity(r) ==
    [r EXCEPT !.time = @ * Micro, !.createdAt = @ * Micro, !.updatedAt = @ * Micro,
              !.width = FromSeconds(@)]

MarkAsThrottled(e) ==
    IF e.throttled THEN e ELSE [e EXCEPT !.throttled = TRUE, !.updatedAt = clock]

\* What an answer shows of an entity.
Output(e) == [e EXCEPT !.width = Seconds(@)]

\* Mutant: updated_at is taken from the entity like the other columns.
UpdatesWithCopyTime(r, m, now) == [m EXCEPT !.throttled = @ \/ r.throttled]

\* gorm's Updates(struct): the columns whose value is not zero, and a time of
\* gorm's own as updated_at whatever the struct says.
Updates(r, m, now) == [m EXCEPT !.throttled = @ \/ r.throttled, !.updatedAt = Stored(now)]

-----------------------------------------------------------------------------

Init ==
    /\ clock \in Ticks
    /\ row = Null
    /\ copy = [u \in Updaters |-> Null]
    /\ stamp = [u \in Updaters |-> Null]
    /\ readAt = [u \in Updaters |-> Null]
    /\ asked = Null
    /\ reply = 0
    /\ created = Null
    /\ shown = Null

Answer(b, status) == asked' = b /\ reply' = status

Unstored == UNCHANGED <<row, created, shown>>

\* Mutant: the time is checked before the task is looked up.
RefusedEvenIfThere(b) ==
    /\ ~Accepted(b) \/ ~TimeOK(b)
    /\ Answer(b, 400) /\ Unstored

CreateRefused(b) ==
    /\ ~Accepted(b) \/ (row = Null /\ ~TimeOK(b))
    /\ Answer(b, 400) /\ Unstored

\* Mutant: a task that has its remind is a conflict.
CreateConflicts(b) ==
    /\ Accepted(b) /\ row # Null
    /\ Answer(b, 409) /\ Unstored

\* The task has its remind already.
CreateRepeated(b) ==
    /\ Accepted(b) /\ row # Null
    /\ Answer(b, IF Readable(row) THEN 201 ELSE 500) /\ Unstored

CreateNew(b) ==
    /\ Accepted(b) /\ row = Null /\ TimeOK(b)
    /\ \E w \in Widths :
         LET m == FromEntity(NewRemind(b, w))
         IN  IF RefusedByColumn(m)
             THEN Answer(b, 500) /\ Unstored
             ELSE /\ Answer(b, 201)
                  /\ row' = m
                  /\ created' = b
                  /\ shown' = Output(NewRemind(b, w))

\* CreateRemind with one time, for the one task.
Create(b) ==
    /\ CreateRefused(b) \/ CreateRepeated(b) \/ CreateNew(b)
    /\ UNCHANGED <<clock, updateVars>>

\* GetRemindsByTimeRange: one row that cannot be read fails the query.
Read ==
    /\ row # Null
    /\ Answer(Null, IF Readable(row) THEN 200 ELSE 500)
    /\ UNCHANGED <<clock, row, updateVars, created, shown>>

\* UpdateThrottled, first statement: any error is answered 404.
FindByID(u) ==
    /\ copy[u] = Null
    /\ IF row # Null /\ Readable(row)
       THEN /\ \E throttled \in BOOLEAN :
                 copy' = [copy EXCEPT ![u] =
                            IF throttled THEN MarkAsThrottled(ToEntity(row)) ELSE ToEntity(row)]
            /\ readAt' = [readAt EXCEPT ![u] = clock]
            /\ UNCHANGED <<asked, reply>>
       ELSE Answer(Null, 404) /\ UNCHANGED <<copy, readAt>>
    /\ UNCHANGED <<clock, row, stamp, created, shown>>

\* UpdateThrottled, second statement: gorm takes the time before it sends the
\* UPDATE, ...
Stamp(u) ==
    /\ copy[u] # Null /\ stamp[u] = Null
    /\ stamp' = [stamp EXCEPT ![u] = clock]
    /\ UNCHANGED <<clock, row, copy, asked, reply, created, shown, readAt>>

\* ... which may wait for a connection, or for another update of the row.
Update(u) ==
    /\ stamp[u] # Null
    /\ row' = Updates(row, FromEntity(copy[u]), stamp[u])
    /\ copy' = [copy EXCEPT ![u] = Null]
    /\ stamp' = [stamp EXCEPT ![u] = Null]
    /\ readAt' = [readAt EXCEPT ![u] = Null]
    /\ Answer(Null, 200)
    /\ UNCHANGED <<clock, created, shown>>

Tick ==
    /\ clock < MaxClock
    /\ clock' = clock + 1
    /\ UNCHANGED <<row, updateVars, asked, reply, created, shown>>

Next ==
    \/ \E b \in Bodies : Create(b)
    \/ Read
    \/ \E u \in Updaters : FindByID(u) \/ Stamp(u) \/ Update(u)
    \/ Tick

Spec == Init /\ [][Next]_vars

-----------------------------------------------------------------------------
(* Properties. *)

\* The type invariant: every variable has its type.
TypeOK ==
    /\ clock \in Ticks
    /\ row \in Fields \cup {Null}
    /\ copy \in [Updaters -> Fields \cup {Null}]
    /\ stamp \in [Updaters -> Ticks \cup {Null}]
    /\ readAt \in [Updaters -> Ticks \cup {Null}]
    /\ asked \in Bodies \cup {Null}
    /\ reply \in {0, 200, 201, 400, 404, 500}
    /\ created \in Bodies \cup {Null}
    /\ shown \in Fields \cup {Null}

\* No row the service writes, by a creation or by any mix of updates, fails the
\* conversion that reads it: it would fail every range query it is in, every
\* look-up of its task, and could not be throttled.
RowsAreReadable == row # Null => Readable(row)

\* An answer, with its times cut to what a row keeps.
Kept(a) == [a EXCEPT !.time = Stored(@), !.createdAt = Stored(@), !.updatedAt = 0,
                     !.throttled = FALSE]

\* Every later answer shows the remind its creation was answered with, but for
\* the precision of its times, whether it is throttled, and updated_at.
AnswersAgree == row # Null => Kept(Output(ToEntity(row))) = Kept(shown)

\* The body of a creation that succeeded can be sent again at any time, also
\* when its time has passed, and is answered 201.
RetrySucceeds == created # Null /\ asked = created => reply = 201

\* updated_at is a moment of the update that wrote the row, after its read and
\* not after its write, never one that its copy brought along.  It may go back all
\* the same, when an update that took a later time writes first.
UpdatedAtOfItsUpdate ==
    [][\A u \in Updaters :
        Update(u) => Stored(readAt[u]) <= row'.updatedAt /\ row'.updatedAt <= Stored(clock)]_vars

\* Nothing from outside failing, an answer 500 is due to a string the column
\* refuses, and then nothing of the request is stored.  With failures a 500 may
\* also hide a commit whose answer was lost: RemindService has those.
InternalErrorStoresNothing ==
    [][reply' = 500 => asked' # Null /\ RefusedByColumn(asked') /\ row' = row]_vars

=============================================================================
