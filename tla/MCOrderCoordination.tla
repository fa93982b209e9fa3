------------------------- MODULE MCOrderCoordination -------------------------
(***************************************************************************)
(* A session has a buy and a sell order of one symbol, which another       *)
(* program wants too.                                                      *)
(***************************************************************************)
EXTENDS OrderCoordination, TLC

CONSTANTS a, buy, sell, s

MCOwnerOf == [o \in {buy, sell} |-> a]
MCSymbolOf == [o \in {buy, sell} |-> s]
MCSideOf == buy :> 1 @@ sell :> -1
Interchangeable == Permutations(Senders)

=============================================================================
