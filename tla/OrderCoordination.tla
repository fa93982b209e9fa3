-------------------------- MODULE OrderCoordination --------------------------
(***************************************************************************)
(* Several programs trade one account.  A symbol belongs to one of them at *)
(* a time: order_coordination.py claims it from a coordinator they share,  *)
(* and order_coordination_retirement.py gives it back after a session has  *)
(* stopped, from the broker's answers about every order of the session.    *)
(*                                                                         *)
(* The coordinator is outside the repository.  Its operations are modelled *)
(* from their callers and from the errors the tests expect of it; each is  *)
(* one transaction.                                                        *)
(***************************************************************************)
EXTENDS Integers, FiniteSets

CONSTANTS
    Sessions,    \* owners "live-runtime:..." of this program
    Others,      \* other programs that claim symbols
    NoOne,
    Symbols,
    Orders,      \* client order ids
    OwnerOf,     \* the session of an order
    SymbolOf,
    SideOf,      \* 1 buys, -1 sells
    Reducing,    \* orders that only reduce what is owned
    Senders,     \* threads that dispatch an order
    Retirers     \* threads that retire a stopped session

Owners == Sessions \cup Others

ASSUME OwnersTyped == NoOne \notin Owners
ASSUME OrdersTyped ==
    /\ OwnerOf \in [Orders -> Sessions] /\ SymbolOf \in [Orders -> Symbols]
    /\ SideOf \in [Orders -> {1, -1}]
    /\ Reducing \subseteq Orders

VARIABLES
    scope,       \* coordinator: the owner of each symbol
    intent,      \* coordinator: the state of each intent
    reconciled,  \* coordinator: intents with a terminal status on record
    stopped,     \* retirement journal: sessions that stopped
    proofs,      \* retirement journal: orders registered before they were sent
    response,    \* retirement journal: what was answered, of each order
    sender,      \* [pc, order, prior, result] of each sender
    retirer,     \* [pc, owner, listed, left, symbol, seen] of each retirer
    wire,        \* orders on their way to the broker
    broker,      \* what became of each order
    posts        \* how often each order was sent

core == <<scope, intent, reconciled>>
journal == <<stopped, proofs, response>>
market == <<wire, broker, posts>>
vars == <<core, journal, sender, retirer, market>>

-----------------------------------------------------------------------------
(* The coordinator.                                                        *)

States == {"none", "RESERVED", "SUBMITTED", "ACKNOWLEDGED", "REJECTED", "UNKNOWN"}

\* An answer with an order id is ACKNOWLEDGED, whatever status it names: the order
\* is asked of the broker either way.  REJECTED is the rejection without an id.
Results == {"ACKNOWLEDGED", "REJECTED", "UNKNOWN"}
Sent(state) == state \notin {"none", "RESERVED"}

OrdersOf(p, s) == {o \in Orders : OwnerOf[o] = p /\ SymbolOf[o] = s}
Unreconciled(p, s) ==
    {o \in OrdersOf(p, s) : intent[o] # "none" /\ o \notin reconciled}

\* claim_scope: SCOPE_OWNED_BY_ANOTHER_RUN unless it is free or the caller's.
Claims(p, s) ==
    /\ scope[s] \in {NoOne, p}
    /\ scope' = [scope EXCEPT ![s] = p]
    /\ UNCHANGED <<intent, reconciled>>

\* release_unsubmitted_scope: INTENT_EXISTS_RECONCILIATION_REQUIRED.
Releasable(p, s) == scope[s] = p /\ Unreconciled(p, s) = {}

\* release_scope, after the flat account was shown.
Releases(p, s) ==
    /\ Releasable(p, s)
    /\ scope' = [scope EXCEPT ![s] = NoOne]
    /\ UNCHANGED <<intent, reconciled>>

\* reserve_intent: of a scope one owns; a key that is known is returned as it is.
Reserves(o) ==
    /\ scope[SymbolOf[o]] = OwnerOf[o]
    /\ intent' = IF intent[o] = "none" THEN [intent EXCEPT ![o] = "RESERVED"] ELSE intent
    /\ UNCHANGED <<scope, reconciled>>

\* begin_submission answers whether this call is the first.
FirstSubmission(o) == intent[o] = "RESERVED" /\ o \notin reconciled

\* reconcile_terminal: what was never submitted is not called executed, nor the
\* other way round.
Settles(o, status) ==
    /\ intent[o] # "none"
    /\ (status = "CANCELLED_BEFORE_SUBMIT") <=> (intent[o] = "RESERVED")
    /\ reconciled' = reconciled \cup {o}
    /\ UNCHANGED <<scope, intent>>

\* Another program claims a symbol, or leaves one.
OtherClaims(p, s) == Claims(p, s) /\ UNCHANGED <<journal, sender, retirer, market>>
OtherLeaves(p, s) == Releases(p, s) /\ UNCHANGED <<journal, sender, retirer, market>>

-----------------------------------------------------------------------------
(* The broker.                                                             *)

BrokerTakes(o) ==
    /\ o \in wire
    /\ wire' = wire \ {o}
    /\ \E fate \in {"open", "refused", "none"} : broker' = [broker EXCEPT ![o] = fate]
    /\ UNCHANGED <<core, journal, sender, retirer, posts>>

BrokerEnds(o) ==
    /\ broker[o] = "open"
    /\ \E fate \in {"filled", "canceled"} : broker' = [broker EXCEPT ![o] = fate]
    /\ UNCHANGED <<core, journal, sender, retirer, wire, posts>>

-----------------------------------------------------------------------------
(* LiveOrderCoordination.dispatch, by any thread that sends an order.      *)

Idle == [pc |-> "idle", order |-> NoOne, prior |-> FALSE, result |-> "UNKNOWN"]

At(t, place) == sender[t].pc = place
Order(t) == sender[t].order
SymbolAt(t) == SymbolOf[Order(t)]
OwnerAt(t) == OwnerOf[Order(t)]
Moves(t, place) == sender' = [sender EXCEPT ![t].pc = place]
Leaves(t) == sender' = [sender EXCEPT ![t] = Idle]

\* The session is not stopped; whether it owned the symbol before is kept.  A
\* reducing order is only sent from a symbol that is owned (_owned_scope).
SenderStarts(t, o) ==
    /\ At(t, "idle")
    /\ OwnerOf[o] \notin stopped
    /\ o \in Reducing => scope[SymbolOf[o]] = OwnerOf[o]
    /\ sender' = [sender EXCEPT ![t] =
                    [pc |-> "started", order |-> o,
                     prior |-> scope[SymbolOf[o]] = OwnerOf[o], result |-> "UNKNOWN"]]
    /\ UNCHANGED <<core, journal, retirer, market>>

SenderClaims(t) ==
    /\ At(t, "started")
    /\ Claims(OwnerAt(t), SymbolAt(t))
    /\ Moves(t, "claimed")
    /\ UNCHANGED <<journal, retirer, market>>

SenderClaimFails(t) ==
    /\ At(t, "started")
    /\ Leaves(t)
    /\ UNCHANGED <<core, journal, retirer, market>>

SenderReserves(t) ==
    /\ At(t, "claimed")
    /\ Reserves(Order(t))
    /\ Moves(t, "reserved")
    /\ UNCHANGED <<journal, retirer, market>>

\* No fresh funds, or no reservation: a symbol this call claimed is released
\* unless an intent of it exists.
SenderGivesUp(t) ==
    /\ At(t, "claimed")
    /\ IF ~sender[t].prior /\ Releasable(OwnerAt(t), SymbolAt(t))
         THEN Releases(OwnerAt(t), SymbolAt(t))
         ELSE UNCHANGED core
    /\ Leaves(t)
    /\ UNCHANGED <<journal, retirer, market>>

\* LiveRetirementJournal.register; a session that stopped meanwhile is refused,
\* and so is an order whose proof cannot be saved: its intent stays reserved.
SenderRegisters(t) ==
    /\ At(t, "reserved")
    /\ OwnerAt(t) \notin stopped
    /\ proofs' = proofs \cup {Order(t)}
    /\ Moves(t, "registered")
    /\ UNCHANGED <<core, stopped, response, retirer, market>>

SenderRegisterFails(t) ==
    /\ At(t, "reserved")
    /\ Leaves(t)
    /\ UNCHANGED <<core, journal, retirer, market>>

\* A sender that does not look at what begin_submission answers.
SenderBeginsAnyway(t) ==
    /\ At(t, "registered")
    /\ intent' = [intent EXCEPT ![Order(t)] = "SUBMITTED"]
    /\ Moves(t, "begun")
    /\ UNCHANGED <<scope, reconciled, journal, retirer, market>>

\* begin_submission.
SenderBegins(t) ==
    /\ At(t, "registered")
    /\ FirstSubmission(Order(t))
    /\ intent' = [intent EXCEPT ![Order(t)] = "SUBMITTED"]
    /\ Moves(t, "begun")
    /\ UNCHANGED <<scope, reconciled, journal, retirer, market>>

SenderBeginFails(t) ==
    /\ At(t, "registered")
    /\ Leaves(t)
    /\ UNCHANGED <<core, journal, retirer, market>>

SenderPosts(t) ==
    /\ At(t, "begun")
    /\ wire' = wire \cup {Order(t)}
    /\ posts' = [posts EXCEPT ![Order(t)] = @ + 1]
    /\ Moves(t, "posted")
    /\ UNCHANGED <<core, journal, retirer, broker>>

\* _result: an answer with an order id, an explicit rejection without one, or neither.
SenderHears(t) ==
    /\ At(t, "posted")
    /\ \E result \in Results :
         /\ result = "ACKNOWLEDGED" => broker[Order(t)] \in {"open", "filled", "canceled"}
         /\ result = "REJECTED" => broker[Order(t)] = "refused"
         /\ sender' = [sender EXCEPT ![t] = [pc |-> "answered", order |-> @.order,
                                            prior |-> @.prior, result |-> result]]
    /\ UNCHANGED <<core, journal, retirer, market>>

\* record_result.
SenderRecords(t) ==
    /\ At(t, "answered")
    /\ intent' = [intent EXCEPT ![Order(t)] = sender[t].result]
    /\ Moves(t, "recorded")
    /\ UNCHANGED <<scope, reconciled, journal, retirer, market>>

\* The answer is saved beside the proof, if there was one.
SenderEnds(t) ==
    /\ At(t, "recorded")
    /\ response' = [response EXCEPT ![Order(t)] = sender[t].result]
    /\ Leaves(t)
    /\ UNCHANGED <<core, stopped, proofs, retirer, market>>

\* The call raised, or one of the two records cannot be saved.
SenderEndsUnrecorded(t) ==
    /\ sender[t].pc \in {"answered", "recorded"}
    /\ Leaves(t)
    /\ UNCHANGED <<core, journal, retirer, market>>

-----------------------------------------------------------------------------
(* reconcile_stopped_owner, after a stop or an account refresh.            *)

\* UNFILLED stands for REJECTED, CANCELED and EXPIRED, which are settled alike.
Statuses == {"CANCELLED_BEFORE_SUBMIT", "FILLED", "UNFILLED"}
Unread == [o \in Orders |-> "unread"]
Away == [pc |-> "idle", owner |-> NoOne, listed |-> [o \in Orders |-> "none"],
         left |-> {}, symbol |-> NoOne, seen |-> Unread]

Retiring(r, place) == retirer[r].pc = place
Ours(r) == OrdersOf(retirer[r].owner, retirer[r].symbol)
Listed(r) == {o \in Ours(r) : retirer[r].listed[o] # "none"}
Goes(r, place) == retirer' = [retirer EXCEPT ![r].pc = place]
Finishes(r) ==
    retirer' = [retirer EXCEPT ![r] = [pc |-> "next", owner |-> @.owner, listed |-> @.listed,
                                       left |-> @.left \ {@.symbol}, symbol |-> NoOne,
                                       seen |-> Unread]]

\* What was bought and not sold, when these orders were filled.
Net(filled) ==
    Cardinality({o \in filled : SideOf[o] = 1}) - Cardinality({o \in filled : SideOf[o] = -1})

\* The worker has joined: mark_stopped.  Orders of the operator may be in flight.
SessionStops(p) ==
    /\ stopped' = stopped \cup {p}
    /\ UNCHANGED <<core, proofs, response, sender, retirer, market>>

RetireStarts(r, p) ==
    /\ Retiring(r, "idle")
    /\ p \in stopped
    /\ \E s \in Symbols : scope[s] = p
    /\ retirer' = [retirer EXCEPT ![r] =
                     [pc |-> "next", owner |-> p, listed |-> intent,
                      left |-> {s \in Symbols : scope[s] = p},
                      symbol |-> NoOne, seen |-> Unread]]
    /\ UNCHANGED <<core, journal, sender, market>>

\* _owned_scope looks the claim up and then claims it again.
RetireFinds(r, s) ==
    /\ Retiring(r, "next")
    /\ s \in retirer[r].left
    /\ scope[s] = retirer[r].owner
    /\ retirer' = [retirer EXCEPT ![r] = [pc |-> "found", owner |-> @.owner,
                                          listed |-> @.listed, left |-> @.left,
                                          symbol |-> s, seen |-> Unread]]
    /\ UNCHANGED <<core, journal, sender, market>>

RetireConfirms(r) ==
    /\ Retiring(r, "found")
    /\ Claims(retirer[r].owner, retirer[r].symbol)
    /\ Goes(r, "reading")
    /\ UNCHANGED <<journal, sender, market>>

\* OrdinaryRetirementReader.order: an intent listed as reserved was not sent; a
\* rejection without an order id on record needs no question; all else is asked of
\* the broker.
Answered(r, o, status) ==
    \/ retirer[r].listed[o] = "RESERVED" /\ status = "CANCELLED_BEFORE_SUBMIT"
    \/ /\ retirer[r].listed[o] = "REJECTED" /\ response[o] = "REJECTED"
       /\ status = "UNFILLED"
    \/ /\ Sent(retirer[r].listed[o])
       /\ \/ broker[o] = "filled" /\ status = "FILLED"
          \/ broker[o] = "canceled" /\ status = "UNFILLED"

Notes(r, o, status) ==
    retirer' = [retirer EXCEPT ![r] =
                  [pc |-> @.pc, owner |-> @.owner, listed |-> @.listed, left |-> @.left,
                   symbol |-> @.symbol, seen |-> [@.seen EXCEPT ![o] = status]]]

\* A reader for whom an order the broker does not show ended unfilled.
RetireReadsMissing(r, o) ==
    /\ Retiring(r, "reading")
    /\ o \in Listed(r) \cap proofs
    /\ retirer[r].seen[o] = "unread"
    /\ \E status \in Statuses :
         /\ Answered(r, o, status) \/ (broker[o] = "none" /\ status = "UNFILLED")
         /\ Notes(r, o, status)
    /\ UNCHANGED <<core, journal, sender, market>>

\* Every order of the symbol that is on the list has an ended status.
RetireReads(r, o) ==
    /\ Retiring(r, "reading")
    /\ o \in Listed(r) \cap proofs
    /\ retirer[r].seen[o] = "unread"
    /\ \E status \in Statuses :
         /\ Answered(r, o, status)
         /\ Notes(r, o, status)
    /\ UNCHANGED <<core, journal, sender, market>>

\* A reader that only looks at the open orders of the account.
RetireFindsNothingOpen(r) ==
    /\ Retiring(r, "reading")
    /\ \A o \in Listed(r) : retirer[r].seen[o] # "unread"
    /\ \A o \in Orders : SymbolOf[o] = retirer[r].symbol => broker[o] # "open"
    /\ Goes(r, "flat")
    /\ UNCHANGED <<core, journal, sender, market>>

\* The snapshot of the account: nothing is owned and nothing is open.
RetireFindsFlat(r) ==
    /\ Retiring(r, "reading")
    /\ \A o \in Listed(r) : retirer[r].seen[o] # "unread"
    /\ Net({o \in Ours(r) : retirer[r].seen[o] = "FILLED"}) = 0
    /\ \A o \in Orders : SymbolOf[o] = retirer[r].symbol => broker[o] # "open"
    /\ Goes(r, "flat")
    /\ UNCHANGED <<core, journal, sender, market>>

\* reconcile_release looks the claim up once more, and claims it again.
RetireFindsAgain(r) ==
    /\ Retiring(r, "flat")
    /\ scope[retirer[r].symbol] = retirer[r].owner
    /\ Goes(r, "again")
    /\ UNCHANGED <<core, journal, sender, market>>

RetireConfirmsAgain(r) ==
    /\ Retiring(r, "again")
    /\ Claims(retirer[r].owner, retirer[r].symbol)
    /\ Goes(r, "settling")
    /\ UNCHANGED <<journal, sender, market>>

RetireSettles(r, o) ==
    /\ Retiring(r, "settling")
    /\ o \in Unreconciled(retirer[r].owner, retirer[r].symbol)
    /\ retirer[r].seen[o] # "unread"
    /\ Settles(o, retirer[r].seen[o])
    /\ UNCHANGED <<journal, sender, retirer, market>>

RetireReleases(r) ==
    /\ Retiring(r, "settling")
    /\ Releases(retirer[r].owner, retirer[r].symbol)
    /\ Finishes(r)
    /\ UNCHANGED <<journal, sender, market>>

\* Any other answer, or none, is a blocker of this symbol: it stays claimed.
RetireBlocked(r) ==
    /\ retirer[r].pc \in {"found", "reading", "flat", "again", "settling"}
    /\ Finishes(r)
    /\ UNCHANGED <<core, journal, sender, market>>

RetireEnds(r) ==
    /\ Retiring(r, "next")
    /\ retirer' = [retirer EXCEPT ![r] = Away]
    /\ UNCHANGED <<core, journal, sender, market>>

\* The process ends; what is on the wire is not called back.
Crash ==
    /\ sender' = [t \in Senders |-> Idle]
    /\ retirer' = [r \in Retirers |-> Away]
    /\ UNCHANGED <<core, journal, market>>

-----------------------------------------------------------------------------

Init ==
    /\ scope = [s \in Symbols |-> NoOne]
    /\ intent = [o \in Orders |-> "none"] /\ reconciled = {}
    /\ stopped = {} /\ proofs = {} /\ response = [o \in Orders |-> "none"]
    /\ sender = [t \in Senders |-> Idle]
    /\ retirer = [r \in Retirers |-> Away]
    /\ wire = {} /\ broker = [o \in Orders |-> "none"] /\ posts = [o \in Orders |-> 0]

SenderStep(t) ==
    \/ \E o \in Orders : SenderStarts(t, o)
    \/ SenderClaims(t) \/ SenderClaimFails(t)
    \/ SenderReserves(t) \/ SenderGivesUp(t)
    \/ SenderRegisters(t) \/ SenderRegisterFails(t)
    \/ SenderBegins(t) \/ SenderBeginFails(t)
    \/ SenderPosts(t) \/ SenderHears(t)
    \/ SenderRecords(t) \/ SenderEnds(t) \/ SenderEndsUnrecorded(t)

RetireStep(r) ==
    \/ \E p \in Sessions : RetireStarts(r, p)
    \/ \E s \in Symbols : RetireFinds(r, s)
    \/ RetireConfirms(r)
    \/ \E o \in Orders : RetireReads(r, o) \/ RetireSettles(r, o)
    \/ RetireFindsFlat(r) \/ RetireFindsAgain(r) \/ RetireConfirmsAgain(r)
    \/ RetireReleases(r) \/ RetireBlocked(r) \/ RetireEnds(r)

Next ==
    \/ \E t \in Senders : SenderStep(t)
    \/ \E r \in Retirers : RetireStep(r)
    \/ \E p \in Sessions : SessionStops(p)
    \/ \E p \in Others, s \in Symbols : OtherClaims(p, s) \/ OtherLeaves(p, s)
    \/ \E o \in Orders : BrokerTakes(o) \/ BrokerEnds(o)
    \/ Crash

Spec == Init /\ [][Next]_vars

-----------------------------------------------------------------------------
(* Properties.                                                             *)

SenderPlaces == {"idle", "started", "claimed", "reserved", "registered", "begun",
                 "posted", "answered", "recorded"}
RetirerPlaces == {"idle", "next", "found", "reading", "flat", "again", "settling"}
Fates == {"none", "open", "filled", "canceled", "refused"}

\* The shape of the state.
TypeOK ==
    /\ scope \in [Symbols -> Owners \cup {NoOne}]
    /\ intent \in [Orders -> States]
    /\ reconciled \subseteq Orders /\ proofs \subseteq Orders /\ wire \subseteq Orders
    /\ stopped \subseteq Sessions
    /\ response \in [Orders -> Results \cup {"none"}]
    /\ sender \in [Senders -> [pc : SenderPlaces, order : Orders \cup {NoOne},
                               prior : BOOLEAN, result : Results]]
    /\ retirer \in [Retirers -> [pc : RetirerPlaces, owner : Sessions \cup {NoOne},
                                 listed : [Orders -> States], left : SUBSET Symbols,
                                 symbol : Symbols \cup {NoOne},
                                 seen : [Orders -> Statuses \cup {"unread"}]]]
    /\ broker \in [Orders -> Fates]
    /\ posts \in [Orders -> Nat]

\* begin_submission lets one caller through: however many threads dispatch a
\* client order id, and whatever fails between, it is sent once.
PostedOnce == \A o \in Orders : posts[o] <= 1

\* reconcile_release: when a symbol is not a session's, no order of the session
\* on it is open, on its way, or still to be sent by a thread that is past
\* begin_submission.
NothingLeftBehind ==
    \A o \in Orders : scope[SymbolOf[o]] # OwnerOf[o] =>
        /\ o \notin wire
        /\ broker[o] # "open"
        /\ \A t \in Senders : At(t, "begun") => Order(t) # o

\* "Release only exact stopped owner scopes with current complete proof": what a
\* session bought of a symbol it has sold before the symbol is another's.
NothingStillOwned ==
    \A p \in Sessions, s \in Symbols :
        scope[s] # p => Net({o \in OrdersOf(p, s) : broker[o] = "filled"}) = 0

(* Why they hold.                                                          *)

\* An order is sent after begin_submission and not again; what the broker has, it
\* was sent.
SentOnce ==
    \A o \in Orders :
        /\ posts[o] \in {0, 1}
        /\ posts[o] = 0 => o \notin wire /\ broker[o] = "none"
        /\ posts[o] = 1 => Sent(intent[o])
        /\ o \in wire => broker[o] = "none"
        /\ response[o] = "REJECTED" => broker[o] = "refused"

\* A thread past begin_submission is alone in it, and its order has no terminal
\* status on record.
SendersAgree ==
    \A t \in Senders :
        /\ ~At(t, "idle") => Order(t) \in Orders
        /\ At(t, "begun") =>
             /\ intent[Order(t)] = "SUBMITTED" /\ Order(t) \notin reconciled
             /\ posts[Order(t)] = 0
             /\ \A u \in Senders : At(u, "begun") /\ Order(u) = Order(t) => u = t
        /\ sender[t].pc \in {"posted", "answered", "recorded"} => posts[Order(t)] = 1
        /\ sender[t].pc \in {"answered", "recorded"} /\ sender[t].result = "REJECTED" =>
             broker[Order(t)] = "refused"

\* A terminal status is on record of an order that has ended, or was never sent.
Ended(o) == broker[o] \in {"filled", "canceled", "refused"}
SettledEnded ==
    \A o \in reconciled : intent[o] # "none" /\ (Sent(intent[o]) => Ended(o))

\* A symbol that is not a session's has no intent of it without one.
HandedSettled ==
    \A o \in Orders :
        scope[SymbolOf[o]] # OwnerOf[o] => intent[o] = "none" \/ o \in reconciled

\* What a retirement read of an order is so, or the order was on its list as not
\* sent; and what let it go on was nothing owned.
ReadersTrue ==
    \A r \in Retirers :
        /\ retirer[r].pc \in {"idle", "next", "found"} => retirer[r].seen = Unread
        /\ \A o \in Orders :
             LET status == retirer[r].seen[o] IN
             /\ status = "CANCELLED_BEFORE_SUBMIT" => retirer[r].listed[o] = "RESERVED"
             /\ status \in {"FILLED", "UNFILLED"} => Sent(retirer[r].listed[o])
             /\ status = "FILLED" => broker[o] = "filled"
             /\ status = "UNFILLED" => broker[o] \in {"canceled", "refused"}
        /\ retirer[r].pc \in {"flat", "again", "settling"} =>
             /\ \A o \in Listed(r) : retirer[r].seen[o] # "unread"
             /\ Net({o \in Ours(r) : retirer[r].seen[o] = "FILLED"}) = 0

\* Of two lists, one was made first: what it shows as sent, the other does too.
Unsent(list) == {o \in Orders : ~Sent(list[o])}
ListsOrdered ==
    \A r \in Retirers :
        /\ Unsent(intent) \subseteq Unsent(retirer[r].listed)
        /\ \A q \in Retirers :
             \/ Unsent(retirer[r].listed) \subseteq Unsent(retirer[q].listed)
             \/ Unsent(retirer[q].listed) \subseteq Unsent(retirer[r].listed)

\* A session's orders of a symbol left nothing owned, if those in unsent were not
\* sent; and they were not, as far as a terminal status says.
FlatBut(p, s, unsent) ==
    /\ Unsent(intent) \subseteq unsent
    /\ \A r \in Retirers :
         \/ Unsent(retirer[r].listed) \subseteq unsent
         \/ unsent \subseteq Unsent(retirer[r].listed)
    /\ \A o \in OrdersOf(p, s) \ unsent : Ended(o)
    /\ \A o \in OrdersOf(p, s) \cap reconciled \cap unsent : ~Sent(intent[o])
    /\ Net({o \in OrdersOf(p, s) \ unsent : broker[o] = "filled"}) = 0

\* Two retirements of one session may each settle a part of its orders: there is
\* one list that justifies all that was settled.
FlatWhenSettled ==
    \A p \in Sessions, s \in Symbols :
        OrdersOf(p, s) \cap reconciled # {} => \E unsent \in SUBSET Orders : FlatBut(p, s, unsent)

\* The conjunction is inductive: it explains the properties above.
CoordinationInvariant ==
    /\ TypeOK /\ SentOnce /\ SendersAgree /\ SettledEnded /\ HandedSettled
    /\ ReadersTrue /\ ListsOrdered /\ FlatWhenSettled

\* dispatch: an order reaches the broker only while its session owns the symbol,
\* although the claim was taken long before the order is sent.
PostsOwnSymbol ==
    [][\A o \in Orders : posts'[o] # posts[o] => scope[SymbolOf[o]] = OwnerOf[o]]_vars

=============================================================================
