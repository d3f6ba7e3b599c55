--------------------------- MODULE MCRemindRetries ---------------------------
(***************************************************************************)
(* Small instances of RemindRetries for TLC.                                *)
(***************************************************************************)
EXTENDS RemindRetries

CONSTANTS t1

Creation(times, storable) ==
    [op |-> "create", task |-> t1, times |-> times, storable |-> storable]

\* Creations that conflict on one key or on two in either order, one that
\* conflicts with itself and one the column refuses; whatever changes or removes
\* what they create.
MCRetryInputs ==
    {Creation(l, TRUE) : l \in {<<1>>, <<1, 2>>, <<2, 1>>, <<1, 1>>}} \cup {Creation(<<1>>, FALSE)}
        \cup ThrottleInput \cup DeleteInput \cup CancelInput

=============================================================================
