--------------------------- MODULE MCSleeveLedger ---------------------------
(***************************************************************************)
(* Two sleeves, one that buys two shares at a time and one that buys one:  *)
(* together they order three, and a fill of two must be divided.           *)
(***************************************************************************)
EXTENDS SleeveLedger

TwoAndOne == <<2, 1>>
=============================================================================
