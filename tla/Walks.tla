-------------------------------- MODULE Walks --------------------------------
(***************************************************************************)
(* A while loop that follows one pointer field is the sequence of places   *)
(* it visits: where it starts, and then, from each place, where the field  *)
(* of that place points.  `next' is that field as a function of the place; *)
(* a null pointer is a place that points to itself, so a walk that has     *)
(* reached it stays there.                                                 *)
(***************************************************************************)
EXTENDS Integers

\* The n-th place of the walk along next from start (the start is place 0).
Walk(next, start) ==
    LET place[n \in Nat] == IF n = 0 THEN start ELSE next[place[n - 1]]
    IN  place
==============================================================================
