----------------------------- MODULE RemindStore -----------------------------
(***************************************************************************)
(* What the remind service promises of its store to those who read it, as   *)
(* an abstract specification: reminds appear in whole batches of one task,   *)
(* with ids never used before; a remind changes only by becoming throttled;  *)
(* it disappears for ever; and only a remind that disappeared is announced   *)
(* as cancelled.  RemindService implements it.                               *)
(***************************************************************************)
EXTENDS Naturals

CONSTANTS RemindIDs, Tasks, Times

Rows == [task : Tasks, time : Times, throttled : BOOLEAN]

VARIABLES
    reminds,    \* the reminds a reader sees, by id
    gone,       \* the ids of reminds that disappeared
    announced   \* the ids some cancel event named

vars == <<reminds, gone, announced>>

\* No two of these reminds are of one task and one time.
Distinct(rows) ==
    \A j, k \in DOMAIN rows :
        rows[j].task = rows[k].task /\ rows[j].time = rows[k].time => j = k

Init ==
    /\ \E S \in SUBSET RemindIDs : reminds \in [S -> Rows]
    /\ Distinct(reminds)
    /\ gone = {}
    /\ announced = {}

\* A batch appears: new ids, one task, nothing throttled, no key twice.
Add(batch) ==
    /\ batch \cap (DOMAIN reminds \cup gone) = {}
    /\ DOMAIN reminds' = DOMAIN reminds \cup batch
    /\ reminds' \in [DOMAIN reminds' -> Rows]
    /\ \A k \in DOMAIN reminds : reminds'[k] = reminds[k]
    /\ \A j, k \in batch : reminds'[j].task = reminds'[k].task
    /\ \A k \in batch : ~reminds'[k].throttled
    /\ Distinct(reminds')
    /\ UNCHANGED <<gone, announced>>

Throttle(id) ==
    /\ id \in DOMAIN reminds
    /\ reminds' = [reminds EXCEPT ![id].throttled = TRUE]
    /\ UNCHANGED <<gone, announced>>

Drop(S) ==
    /\ S \subseteq DOMAIN reminds
    /\ reminds' = [k \in DOMAIN reminds \ S |-> reminds[k]]
    /\ gone' = gone \cup S
    /\ UNCHANGED announced

Announce ==
    /\ announced \subseteq announced'
    /\ announced' \subseteq gone
    /\ UNCHANGED <<reminds, gone>>

Next ==
    \/ \E batch \in SUBSET RemindIDs : Add(batch)
    \/ \E id \in RemindIDs : Throttle(id)
    \/ \E S \in SUBSET RemindIDs : Drop(S)
    \/ Announce

Spec == Init /\ [][Next]_vars

=============================================================================
