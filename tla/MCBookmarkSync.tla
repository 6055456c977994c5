--------------------------- MODULE MCBookmarkSync ---------------------------
(* BookmarkSync for TLC.                                                   *)
EXTENDS BookmarkSync, TLC

CONSTANTS a, b, menu, root
=============================================================================
