--------------------------- MODULE MCSessionTree ---------------------------
(* SessionTree for TLC: the writers do the same things, so they are symmetric *)
EXTENDS SessionTree, TLC

WriterSymmetry == Permutations(Writers)
=============================================================================
