------------------------- MODULE MCVersionController -------------------------
(* Contents of two bytes or three, in the same block: each of the first    *)
(* two can be had back from the other, but their product with the third    *)
(* has the byte that ends a text.                                          *)
EXTENDS VersionController

MCTwoContents == {<<{1}, {1}>>, <<{1}, {1}, {2}>>}
MCContents == MCTwoContents \cup {<<{2}, {1}>>}
==============================================================================
