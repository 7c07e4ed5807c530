------------------------- MODULE MCAdvisorSchedule -------------------------
(* TLC instances of AdvisorSchedule: a calendar of a few units, services of  *)
(* two durations, and two schedules the advisor goes back and forth between. *)
EXTENDS AdvisorSchedule, TLC

CONSTANTS r1, r2, b1, b2

Symmetry == Permutations(Requests) \cup Permutations(Bookings)

\* All day, or from 1 on with a blocked hour.
MCSchedules == {[windows |-> {<<0, Horizon>>}, blocked |-> {}],
                [windows |-> {<<1, Horizon>>}, blocked |-> {<<2, 3>>}]}
=============================================================================
