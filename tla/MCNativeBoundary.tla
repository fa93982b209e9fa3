--------------------------- MODULE MCNativeBoundary ---------------------------
(* Three signals: two members of one portfolio that wait for the same open *)
(* of a stream, and a signal of that stream that waits for the next one.   *)
EXTENDS NativeBoundary

CONSTANTS first, second, later, stream

OneStream == [s \in Signals |-> stream]
TwoOpens == [s \in Signals |-> IF s = later THEN 2 ELSE 1]
Reviewed == {Signals, {second, later}}
=============================================================================
