----------------------------- MODULE BranchStore -----------------------------
(***************************************************************************)
(* What a branch-versioned table promises its users.  Every branch has a   *)
(* table of its own: a branch starts as a copy of its parent's table, and  *)
(* from then on the two never see each other's changes.  Rows are named by *)
(* tids, which are handed out once and shared by all branches.             *)
(*                                                                         *)
(* The test cases of test/query_test.cpp (UpdateBranchVersion,             *)
(* UpdateMasterVersion, DeleteBranchVisibleVersion, InsertIntoVersion...)  *)
(* are single runs of this specification.                                  *)
(***************************************************************************)
EXTENDS Integers, Sequences

CONSTANT Values      \* the contents of a row
CONSTANT Absent      \* what a branch has under a tid whose row it lacks;
                     \* none of the Values

VARIABLE view        \* view[b + 1][t]: the row branch b has under tid t

Branches == DOMAIN view
Tids     == DOMAIN view[1]       \* every branch covers the same tids

Init == view = << <<>> >>        \* the master branch of an empty table

\* A new branch starts with the rows of its parent.
Fork(p) == view' = Append(view, view[p])

\* A new row appears in one branch only.
Insert(b, v) ==
    view' = [c \in Branches |-> Append(view[c], IF c = b THEN v ELSE Absent)]

\* A row a branch has gets a new content in that branch only.
Write(b, t, v) ==
    /\ view[b][t] # Absent
    /\ view' = [view EXCEPT ![b][t] = v]

\* A row disappears from one branch only.
Delete(b, t) == view' = [view EXCEPT ![b][t] = Absent]

Next ==
    \E b \in Branches :
        \/ Fork(b)
        \/ \E v \in Values : Insert(b, v)
        \/ \E t \in Tids : \/ Delete(b, t)
                           \/ \E v \in Values : Write(b, t, v)

Spec == Init /\ [][Next]_view
==============================================================================
