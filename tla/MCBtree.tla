------------------------------ MODULE MCBtree ------------------------------
(***************************************************************************)
(* The b-trees for TLC: a leaf page's bytes, a table and an index, each in  *)
(* behaviours of its own.                                                   *)
(***************************************************************************)
EXTENDS LeafPage, IndexBtree

VARIABLE part   \* which of the three the behaviour is about

\* Two cells of a row or of a key fill a leaf, two entries an interior page;
\* a trunk has room for every page of the file.
MCRow     == {"a", "b"}
MCCellLen == [a |-> 12, b |-> 16]
MCChain   == [a |-> 0, b |-> 2]
MCRowOf   == <<"a", "a", "b", "a", "a">>

MCKeyCell  == [k \in Key |-> 12]
MCKeyChain == [k \in Key |-> IF k = 2 THEN 1 ELSE 0]
MCKeyOf    == <<2, 5, 1, 4, 6, 3, 7>>

mcVars == <<part, leafVars, tableVars>>

MCInit ==
  \/ part = "leaf page" /\ LeafInit /\ TableInit
  \/ part = "table" /\ LeafInit /\ TableInit
  \/ part = "index" /\ LeafInit /\ IndexInit

MCNext ==
  /\ UNCHANGED part
  /\ \/ part = "leaf page" /\ LeafNext /\ UNCHANGED tableVars
     \/ part = "table" /\ TableNext /\ UNCHANGED leafVars
     \/ part = "index" /\ IndexNext /\ UNCHANGED leafVars

MCSpec == MCInit /\ [][MCNext]_mcVars

=============================================================================
