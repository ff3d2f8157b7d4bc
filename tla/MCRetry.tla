------------------------------- MODULE MCRetry -------------------------------
(* Small instances of Retry: a word of 16 values, so that int64 runs from   *)
(* -8 to 7; three units to the second; a cap of 4 units. Every int64 may be *)
(* sent: 0 and 1 are honoured, 2 is above the cap, 3 to 5 wrap to less than *)
(* nothing, 6 to less than the cap and 7 to more than it.                   *)
EXTENDS Retry

Int64 == -8..7
=============================================================================
