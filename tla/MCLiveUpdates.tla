----------------------------- MODULE MCLiveUpdates -----------------------------
(* Instances of LiveUpdates small enough for TLC. *)
EXTENDS LiveUpdates, TLC

CONSTANTS r1, r2

\* LiveSpec up to the names of the rooms: the first page is one of r1.  (A
\* symmetry set would be unsound together with a liveness property.)
FirstPageOfR1 ==
  /\ Init
  /\ [][Next /\ (visits' # <<>> => visits'[1].room = r1)]_vars
  /\ Fairness
=============================================================================
