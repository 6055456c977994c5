--------------------------- MODULE MCHistorySync ---------------------------
(* HistorySync for TLC: the URLs are interchangeable.                      *)
EXTENDS HistorySync, TLC

UrlSymmetry == Permutations(Url)
=============================================================================
