---------------------------- MODULE OrderPromise ----------------------------
(***************************************************************************)
(* What deferred dispatch promises its operator, without locks, journals,  *)
(* ledgers or threads: a queued order is sent at most once, only while     *)
(* nothing was asked of the runtime since it was queued, only by the       *)
(* process that queued it, and never beside another order of its key.      *)
(***************************************************************************)
EXTENDS FiniteSets

CONSTANTS
    Commands,  \* identities of deferred intents
    KeyOf      \* the idempotency key the order of a command gets

VARIABLES
    fate,  \* what became of each command
    live   \* the pending commands that may still be sent

Fates == {"new", "pending", "sent", "closed"}

Init ==
    /\ fate = [c \in Commands |-> "new"]
    /\ live = {}

\* A command is queued, under an authority that may already be over.
Accept(c) ==
    /\ fate[c] = "new"
    /\ fate' = [fate EXCEPT ![c] = "pending"]
    /\ live' \in {live, live \cup {c}}

\* A command is refused, or given up without being sent.
Refuse(c) ==
    /\ fate[c] \in {"new", "pending"}
    /\ fate' = [fate EXCEPT ![c] = "closed"]
    /\ live' = live \ {c}

\* STOP, a mode change, a settings change: what is queued is not sent any more.
Invalidate ==
    /\ live' = {}
    /\ UNCHANGED fate

\* The order of the command goes to the broker.
Send(c) ==
    /\ c \in live
    /\ \A d \in Commands : KeyOf[d] = KeyOf[c] => fate[d] # "sent"
    /\ fate' = [fate EXCEPT ![c] = "sent"]
    /\ live' = live \ {c}

\* A new process takes over nothing.
Restart ==
    /\ fate' = [c \in Commands |-> IF fate[c] = "pending" THEN "closed" ELSE fate[c]]
    /\ live' = {}

Next ==
    \/ \E c \in Commands : Accept(c) \/ Refuse(c) \/ Send(c)
    \/ Invalidate
    \/ Restart

Spec == Init /\ [][Next]_<<fate, live>>
=============================================================================
