----------------------- MODULE MCContinuousDispatch -----------------------
(***************************************************************************)
(* Instances of ContinuousDispatch: one journal with two commands of its   *)
(* own keys, two journals whose commands share an idempotency key with an  *)
(* order of the operator, and a single command.                            *)
(***************************************************************************)
EXTENDS ContinuousDispatch, TLC

CONSTANTS stock, crypto, first, second

\* Both commands are evaluated by the same worker.
OneJournal == [c \in {first, second} |-> crypto]

\* One command in each journal, two deployments of the same portfolio.
TwoJournals == [c \in {first, second} |-> IF c = first THEN crypto ELSE stock]

\* A single command.
OneCommand == [c \in {first} |-> crypto]
OneKey == [c \in {first} |-> 1]

OwnKeys == [c \in {first, second} |-> IF c = first THEN 1 ELSE 2]
SharedKey == [c \in {first, second} |-> 1]

\* The two journals are alike: what maps one to the other, its worker and its
\* command with it.
EitherJournal ==
    {p \in Permutations({crypto, stock, first, second}) :
        \A c \in {first, second} :
            p[c] \in {first, second} /\ p[TwoJournals[c]] = TwoJournals[p[c]]}
=============================================================================
