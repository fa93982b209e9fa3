----------------------------- MODULE MCKillLatch -----------------------------
(* Small instances of KillLatch: an ordinary sender on one route and a     *)
(* functional one on another, one native bridge call at a time.            *)
EXTENDS KillLatch, TLC

CONSTANTS o1, f1, kis, upbit

MCRouteLocks == <<upbit, kis>>
MCRouteOf == [s \in Senders |-> IF s = o1 THEN kis ELSE upbit]
=============================================================================
