----------------------------- MODULE MCRecurrence -----------------------------
(* Instances of Recurrence for TLC: offsets of an organiser in the west, in *)
(* UTC and in the east, with and without summer time.                      *)
EXTENDS Recurrence

MCOffsets == {<<0, 0>>, <<1, 1>>, <<-1, -1>>, <<0, 1>>}
MCDaySets == {{0}, {1}, {0, 3}, {1, 2, 6}}
=============================================================================
