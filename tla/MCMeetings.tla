----------------------------- MODULE MCMeetings ------------------------------
(* Two meetings, alike. *)
EXTENDS Meetings, TLC

CONSTANTS m1, m2

MCMeetings == {m1, m2}
Alike == Permutations(MCMeetings)
==============================================================================
