---------------------------- MODULE AtomicStore ----------------------------
(***************************************************************************)
(* What both journal modes of the pager promise: one committed database    *)
(* image, which a connection replaces by its own writes in a single step,  *)
(* and a power loss that leaves the image of the last commit or, until the *)
(* deletion of the journal is durable, the one before it.                  *)
(***************************************************************************)
EXTENDS Naturals

CONSTANTS Conn, Pages

VARIABLES
  db,        \* the committed image, a function on Pages
  durable,   \* the images a power loss may leave
  txn        \* the uncommitted writes of every connection

vars == <<db, durable, txn>>

NoWrites == [p \in {} |-> 0]
Overlay(image, writes) ==
  [p \in Pages |-> IF p \in DOMAIN writes THEN writes[p] ELSE image[p]]

Init ==
  /\ durable = {db}
  /\ txn = [c \in Conn |-> NoWrites]

\* A connection changes its own uncommitted writes, or its I/O settles which
\* image is durable; nobody else sees anything.
Work(c) ==
  /\ UNCHANGED db
  /\ \A d \in Conn \ {c} : txn'[d] = txn[d]
  /\ durable' \in {durable, {db}}

Commit(c) ==
  /\ txn[c] # NoWrites
  /\ db' = Overlay(db, txn[c])
  /\ durable' = {db, db'}
  /\ txn' = [txn EXCEPT ![c] = NoWrites]

PowerLoss ==
  /\ db' \in durable
  /\ durable' = {db'}
  /\ txn' = [c \in Conn |-> NoWrites]

Next == (\E c \in Conn : Work(c) \/ Commit(c)) \/ PowerLoss

Spec == Init /\ [][Next]_vars

=============================================================================
