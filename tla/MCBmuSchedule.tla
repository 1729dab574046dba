--------------------------- MODULE MCBmuSchedule ---------------------------
(* Instance of BmuSchedule for TLC. *)
EXTENDS BmuSchedule

\* The GUI offers a time of day and intervals of 5, 10, 30 and 60 minutes.
MCAsked == {Daily(3, 30), Interval(30), Interval(0)}

=============================================================================
