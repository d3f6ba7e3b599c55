---------------------------- MODULE MCSlideWindow ----------------------------
(***************************************************************************)
(* SlideWindow on a scale of a thousand ticks to the second.                 *)
(***************************************************************************)
EXTENDS SlideWindow

\* Between two of these times lie intervals at and one tick around each
\* boundary: 1 min; 3 min 20 s, where 30% reaches the minimum; 16 min 40 s and
\* 33 min 20 s, where it reaches the maximum of a short task and of the others.
MCTimes == {0, 1, 59999, 60000, 199999, 200000, 200004, 1000000, 1000004, 2000000, 2000004}

=============================================================================
