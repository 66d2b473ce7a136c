-------------------------------- MODULE LRU --------------------------------
(***************************************************************************)
(* What the page cache promises: a list of at most Capacity pages, least   *)
(* recently used first.  A page is only pushed out when room is needed,    *)
(* and then it is the head of the list.                                    *)
(***************************************************************************)
EXTENDS Naturals, Sequences

CONSTANTS Page, Capacity

VARIABLE order

Listed == {order[i] : i \in DOMAIN order}

Without(p) == SelectSeq(order, LAMBDA q : q # p)

Room == IF Len(order) < Capacity THEN order ELSE Tail(order)

Init == order = << >>

\* A hit makes p the most recently used page.
Touch(p) == p \in Listed /\ order' = Append(Without(p), p)

\* A miss makes room, and brings p in if it can be read.
Bring(p)   == p \notin Listed /\ order' = Append(Room, p)
MakeRoom   == order' = Room
Drop(p)    == order' = Without(p)

Next ==
  \/ \E p \in Page : Touch(p) \/ Bring(p) \/ Drop(p)
  \/ MakeRoom

Spec == Init /\ [][Next]_order

=============================================================================
