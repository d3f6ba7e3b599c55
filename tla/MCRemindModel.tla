---------------------------- MODULE MCRemindModel ----------------------------
(***************************************************************************)
(* RemindModel with two ticks to the microsecond and to the second.          *)
(***************************************************************************)
EXTENDS RemindModel

Good == [deviceID |-> "uuid", fcmToken |-> "text"]

Base == [time |-> 1, userID |-> "v7", taskID |-> "v7", devices |-> <<Good>>, taskType |-> "short"]

\* A body that passes, one with another time, and one for each way to be refused.
MCBodies ==
    {Base, [Base EXCEPT !.time = 3], [Base EXCEPT !.userID = "v4"],
     [Base EXCEPT !.taskID = "v4"], [Base EXCEPT !.taskType = "unspecified"]}
        \cup {[Base EXCEPT !.devices = ds] : ds \in
                {<<>>, <<Good, [Good EXCEPT !.fcmToken = ""]>>,
                 <<[Good EXCEPT !.deviceID = ""]>>, <<[Good EXCEPT !.fcmToken = "nul"]>>}}

\* Both bounds, and a width that is no whole number of seconds.
MCWidths == {120, 121, 1200}

=============================================================================
