------------------------- MODULE MCSeatReservation -------------------------
(* Three learners and a host, a capacity of one or two, a TTL of one tick: *)
(* short enough for the key itself (three TTLs) to expire in MaxTime.      *)
EXTENDS SeatReservation, TLC

MCLimits == {1, 2}
MCLearners == Permutations(Users \ Moderators)
=============================================================================
