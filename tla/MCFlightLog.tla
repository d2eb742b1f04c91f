----------------------------- MODULE MCFlightLog -----------------------------
EXTENDS FlightLog
\* On the ground, too far from a home it has not been told or might be given; flying with both alarms on;
\* higher up after a silence, with a check skipped, the link stale, no climb rate and another home set by the operator.
\* A stall shows in the average over a session while that over more states hides it.
Aloft == [at |-> 0, armed |-> TRUE, mode |-> "FBWA", motion |-> "cruise", climb |-> TRUE, alt |-> 30,
          alarms |-> {"stall"}, alone |-> {}, skipped |-> {}, place |-> 6, home |-> 20, override |-> 0,
          far |-> {8, 20}, young |-> 2, filled |-> 0, status |-> "connected"]
MCStates == {[Aloft EXCEPT !.armed = FALSE, !.alarms = {}, !.alone = {"stall"}, !.alt = 0, !.place = 1,
                           !.home = 0],
             Aloft,
             [Aloft EXCEPT !.motion = "unknown", !.climb = FALSE, !.alt = 60, !.alarms = {},
                           !.skipped = {"stall"}, !.place = 8, !.override = 1, !.status = "stale", !.young = 0]}
MCEvents == {"stall", "weak_return_margin"}
MCHomeEvents == {"weak_return_margin"}
MCWindowEvents == {"stall"}
MCGaps == {1}
==============================================================================
