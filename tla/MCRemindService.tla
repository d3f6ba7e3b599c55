--------------------------- MODULE MCRemindService ---------------------------
(***************************************************************************)
(* Small instances of RemindService for TLC.                                *)
(***************************************************************************)
EXTENDS RemindService, TLC

CONSTANTS t1

Creates(lists) ==
    {[op |-> "create", task |-> t, times |-> l, storable |-> TRUE] : t \in Tasks, l \in lists}

\* A creation with a token the column refuses.
Unstorable == {[c EXCEPT !.storable = FALSE] : c \in Creates({<<1, 2>>})}

Ranges(pairs) == {[op |-> "range", start |-> r[1], end |-> r[2]] : r \in pairs}

\* The creations that can wait for each other, one that is refused, and the
\* requests that change or remove what is there.
MCInputs ==
    Creates({<<1, 2>>, <<2, 1>>}) \cup Unstorable
        \cup ThrottleInput \cup DeleteInput \cup CancelInput

\* Requests of every kind: creations that can wait for each other, queries of two
\* ranges that meet in a time and of one that ends before it starts, and whatever
\* changes or removes a remind.
MCPoolInputs ==
    Creates({<<1, 2>>, <<2, 1>>}) \cup Ranges({<<1, 2>>, <<2, 3>>, <<2, 1>>})
        \cup ThrottleInput \cup DeleteInput \cup CancelInput

\* Three creations that can wait for each other in a ring.
MCRingInputs == Creates({<<1, 2>>, <<2, 3>>, <<3, 1>>}) \cup CancelInput

\* Creations of one task that share no time.
MCRaceInputs == Creates({<<1>>, <<2>>})

\* What it takes to create a remind between the two statements of a cancel.
MCCancelInputs == Creates({<<1>>}) \cup DeleteInput \cup CancelInput

\* Cancels only.
MCDoubleInputs == CancelInput

Symmetry == Permutations(Requests)

=============================================================================
