----------------------------- MODULE FleetBudget ----------------------------
(* What the launch gate promises, with no lock, walk or permit in sight: the
   workers of a fleet join one at a time and only while there is room, and may
   leave at any moment, several at once (a repository retires). *)
EXTENDS Naturals

CONSTANTS Ids,     \* what may join
          Max,     \* how many there is room for
          Size(_)  \* the number of elements of a finite set

VARIABLE members

Init == members = {}

Join == \E i \in Ids \ members :
           /\ Size(members) < Max
           /\ members' = members \cup {i}

Leave == members' \in SUBSET members

Next == Join \/ Leave

Spec == Init /\ [][Next]_members
=============================================================================
