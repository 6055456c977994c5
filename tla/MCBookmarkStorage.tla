------------------------- MODULE MCBookmarkStorage -------------------------
(* BookmarkStorage for TLC: the two folders are interchangeable.           *)
EXTENDS BookmarkStorage, TLC

CONSTANTS a, b, c, menu, root

FolderSymmetry == Permutations({a, b})
=============================================================================
