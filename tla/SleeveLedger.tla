---------------------------- MODULE SleeveLedger ----------------------------
(***************************************************************************)
(* The portfolio sleeve ledger: portfolio_execution.py, the multi-sleeve   *)
(* half of continuous_live.py that plans and validates with it, and the    *)
(* path a KIS execution takes to it through state.py.                      *)
(*                                                                         *)
(* Several sleeves share one symbol of one dedicated account.  Only the    *)
(* net of their targets becomes an order; a fill of it is divided among    *)
(* the sleeves.  The broker reports cumulative fills; a poll turns them    *)
(* into increments with a watermark kept in memory, and saves them as      *)
(* rows; a sync books the rows of accepted orders.  Before it sends, the   *)
(* worker compares the sleeves with the account.                           *)
(***************************************************************************)
EXTENDS Integers, FiniteSets, Functions

CONSTANTS
    SleeveCount,     \* sleeves of the portfolio, numbered in the order of their ids
    MaxOrders,       \* bound: orders sent
    MaxQuantity,     \* bound: shares of one net order
    BuySize,         \* shares each sleeve buys at a time
    Disturbances,    \* what may go wrong
    MaxDisturbances, \* bound: how often
    Noticed          \* bound: orders the WebSocket may report

DisturbanceKinds == {"restart", "record", "evict", "ack", "accept", "notice"}

ASSUME SleevesTyped == SleeveCount \in Nat /\ MaxOrders \in Nat
ASSUME QuantitiesTyped ==
    MaxQuantity \in Nat /\ BuySize \in [1 .. SleeveCount -> Nat \ {0}]
ASSUME DisturbancesTyped ==
    /\ Disturbances \subseteq DisturbanceKinds /\ MaxDisturbances \in Nat
    /\ Noticed \subseteq 1 .. MaxOrders

Sleeves == 1 .. SleeveCount
Orders == 1 .. MaxOrders

VARIABLES
    worker,     \* [pc, plan, holding]: the controller's cycle
    orders,     \* the plan and the dispatch state of each order
    count,      \* orders sent so far
    executed,   \* shares the broker executed of each order
    canceled,   \* orders the broker ended before they were filled
    holding,    \* shares in the account
    known,      \* orders STATE["orders"] lists with their composite key
    watermark,  \* shares already counted in memory, of each order
    poll,       \* [pc, levels, ended, gain, holding]: an execution poll
    levels,     \* cumulative fills whose row is saved, of each order
    tally,      \* shares in the saved rows of each order
    ends,       \* orders with a saved terminal row
    noticed,    \* orders with a saved row of the WebSocket
    accepted,   \* orders the sleeve ledger holds
    booked,     \* shares booked of each order
    terminal,   \* orders the sleeve ledger knows to be over
    position,   \* shares of each sleeve, sleeve_holdings
    observed,   \* STATE["broker_reconciliation"], the account when last polled
    disturbed   \* disturbances so far

market == <<orders, count, executed, canceled, holding>>
memory == <<known, watermark, observed>>
saved == <<levels, tally, ends, noticed>>
ledger == <<accepted, booked, terminal, position>>
vars == <<worker, market, memory, poll, saved, ledger, disturbed>>

-----------------------------------------------------------------------------
(* Net plans.                                                              *)

Abs(x) == IF x < 0 THEN -x ELSE x
Sign(x) == IF x < 0 THEN -1 ELSE IF x > 0 THEN 1 ELSE 0
Clamp(x, most) == IF x \in 0 .. most THEN x ELSE IF x > most THEN most ELSE 0

Total(f) == SumFunctionOnSet(f, Sleeves)

\* _split_internal_and_external_allocations: what sleeves in order of their ids
\* buy from one another.  Each side of the cross is used up from the front.
Crossed(delta) ==
    LET wants(sign) ==
          [s \in Sleeves |-> IF Sign(delta[s]) = sign THEN Abs(delta[s]) ELSE 0]
        side(sign, S) == SumFunctionOnSet(wants(sign), S)
        buys == side(1, Sleeves)
        sells == side(-1, Sleeves)
        both == IF buys < sells THEN buys ELSE sells
    IN  [s \in Sleeves |->
           Sign(delta[s]) *
             Clamp(both - side(Sign(delta[s]), 1 .. s - 1), Abs(delta[s]))]

\* A plan whose allocations forget what was crossed inside.
NetPlanAllocatesAll(base, target, net) ==
    LET delta == [s \in Sleeves |-> target[s] - base[s]]
    IN  [base |-> base,
         target |-> target,
         side |-> Sign(net),
         quantity |-> Abs(net),
         internal |-> Crossed(delta),
         external |-> delta]

\* build_symbol_net_plan: the allocations are what the cross leaves over.
NetPlan(base, target, net) ==
    LET delta == [s \in Sleeves |-> target[s] - base[s]]
        internal == Crossed(delta)
    IN  [base |-> base,
         target |-> target,
         side |-> Sign(net),
         quantity |-> Abs(net),
         internal |-> internal,
         external |-> [s \in Sleeves |-> delta[s] - internal[s]]]

Nothing == [s \in Sleeves |-> 0]
NoPlan == [base |-> Nothing, target |-> Nothing, side |-> 0, quantity |-> 0,
           internal |-> Nothing, external |-> Nothing]

\* A division that leaves the shares it rounded off to nobody.
SharesRoundedDown(plan, filled) ==
    IF filled = 0 THEN Nothing
    ELSE [s \in Sleeves |->
            Sign(plan.external[s]) * ((Abs(plan.external[s]) * filled) \div plan.quantity)]

\* _proportional_signed_quantities: a cumulative fill is divided in proportion,
\* rounded down, and the shares left over go to the largest remainders.
Shares(plan, filled) ==
    LET part(s) == Abs(plan.external[s]) * filled
        whole(s) == part(s) \div plan.quantity
        rest(s) == part(s) % plan.quantity
        left == Abs(filled - Total([s \in Sleeves |-> whole(s)]))
        eligible(s) ==
            Sign(plan.external[s]) = plan.side /\ whole(s) < Abs(plan.external[s])
        before(t, s) == rest(t) > rest(s) \/ (rest(t) = rest(s) /\ t < s)
        chosen(s) ==
            /\ eligible(s)
            /\ Cardinality({t \in Sleeves : eligible(t) /\ before(t, s)}) < left
    IN  IF filled = 0 THEN Nothing
        ELSE [s \in Sleeves |->
                Sign(plan.external[s]) * (whole(s) + IF chosen(s) THEN 1 ELSE 0)]

Quantity(o) == orders[o].plan.quantity
Sent == {o \in Orders : orders[o].state # "none"}
Acked == {o \in Orders : orders[o].state = "acked"}
Live(o) == o \in Sent /\ executed[o] < Quantity(o) /\ o \notin canceled

\* Orders nothing was booked of.
PendingUntouched == {o \in accepted : booked[o] = 0 /\ o \notin terminal}

\* pending_orders.
Pending == {o \in accepted : booked[o] < Quantity(o) /\ o \notin terminal}

Disturb(kind) ==
    /\ kind \in Disturbances
    /\ disturbed < MaxDisturbances
    /\ disturbed' = disturbed + 1

NoPoll == [pc |-> "idle", levels |-> [o \in Orders |-> 0], ended |-> {},
           gain |-> [o \in Orders |-> 0], holding |-> 0]

Init ==
    /\ worker = [pc |-> "idle", plan |-> NoPlan, holding |-> 0]
    /\ orders = [o \in Orders |-> [plan |-> NoPlan, state |-> "none"]]
    /\ count = 0
    /\ executed = [o \in Orders |-> 0] /\ canceled = {} /\ holding = 0
    /\ known = {} /\ watermark = [o \in Orders |-> 0] /\ observed = 0
    /\ poll = NoPoll
    /\ levels = [o \in Orders |-> {}] /\ tally = [o \in Orders |-> 0]
    /\ ends = {} /\ noticed = {}
    /\ accepted = {} /\ booked = [o \in Orders |-> 0] /\ terminal = {}
    /\ position = Nothing
    /\ disturbed = 0

-----------------------------------------------------------------------------
(* _sync_portfolio_execution, by the worker or by any thread that asks for *)
(* a position: first the accepted orders, one transaction each, then the   *)
(* rows.                                                                   *)

\* apply_execution_events raises, and undoes everything, if the rows of any
\* order exceed it.
Bookable == \A o \in accepted : tally[o] <= Quantity(o)

\* Orders with rows the ledger has not booked yet.
ToBook == {o \in accepted : booked[o] # tally[o] \/ o \in ends \ terminal}

\* What a sync that succeeds leaves behind.
Synced ==
    /\ Acked \subseteq accepted
    /\ Bookable
    /\ ToBook = {}

\* An acceptance that leaves the internal crosses out.
AcceptsOnly(o) ==
    /\ accepted' = accepted \cup {o}
    /\ UNCHANGED <<booked, terminal, position>>

\* record_accepted_order: the order and its internal crosses.
Accepts(o) ==
    /\ accepted' = accepted \cup {o}
    /\ position' = [s \in Sleeves |-> position[s] + orders[o].plan.internal[s]]
    /\ UNCHANGED <<booked, terminal>>

\* recover_accepted_orders, from the dispatch rows that have a broker id.
SyncRecovers(o) ==
    /\ o \in Acked \ accepted
    /\ Accepts(o)
    /\ UNCHANGED <<worker, market, memory, poll, saved, disturbed>>

\* apply_execution_events.  Its one transaction may book several orders; here
\* each is a step, and OneOpenOrder says that there never is a second one.
SyncBooks(o) ==
    /\ Acked \subseteq accepted
    /\ Bookable
    /\ o \in ToBook
    /\ booked' = [booked EXCEPT ![o] = tally[o]]
    /\ terminal' = IF o \in ends THEN terminal \cup {o} ELSE terminal
    /\ position' = [s \in Sleeves |-> position[s]
                      + Shares(orders[o].plan, tally[o])[s]
                      - Shares(orders[o].plan, booked[o])[s]]
    /\ UNCHANGED <<worker, market, memory, poll, saved, accepted, disturbed>>

-----------------------------------------------------------------------------
(* A cycle of the controller.                                              *)

Goes(place) == worker' = [worker EXCEPT !.pc = place]

\* The decisions of a cycle: a sleeve holds, leaves, or buys.
Wanted(s) == {position[s], 0, position[s] + BuySize[s]}
Targets ==
    {target \in [Sleeves -> UNION {Wanted(s) : s \in Sleeves}] :
        \A s \in Sleeves : target[s] \in Wanted(s)}

\* reconcile_restart: the sleeves add up to the account, and nothing is pending.
Reconciled(account) == Pending = {} /\ Total(position) = account

\* _handle_portfolio_cycle_locked up to its order: synced, reconciled with the
\* account as last polled, and netted.
CyclePlans ==
    /\ worker.pc = "idle"
    /\ Synced
    /\ Reconciled(observed)
    /\ \E target \in Targets :
         LET net == Total(target) - Total(position)
         IN  /\ Abs(net) \in 1 .. MaxQuantity
             /\ net < 0 => -net <= observed
             /\ worker' = [worker EXCEPT !.pc = "planned",
                                         !.plan = NetPlan(position, target, net)]
    /\ UNCHANGED <<market, memory, poll, saved, ledger, disturbed>>

\* The sleeves trade among themselves only: record_internal_cross.
CycleCrosses ==
    /\ worker.pc = "idle"
    /\ Synced
    /\ Reconciled(observed)
    /\ \E target \in Targets :
         /\ target # position
         /\ Total(target) = Total(position)
         /\ LET plan == NetPlan(position, target, 0)
            IN  position' = [s \in Sleeves |-> position[s] + plan.internal[s]]
    /\ UNCHANGED <<worker, market, memory, poll, saved, accepted, booked,
                   terminal, disturbed>>

\* The order is given up: a gate refuses it, or the validation does.
CycleDrops ==
    /\ worker.pc \in {"planned", "cleared", "fresh", "valid"}
    /\ worker' = [pc |-> "idle", plan |-> NoPlan, holding |-> 0]
    /\ UNCHANGED <<market, memory, poll, saved, ledger, disturbed>>

\* validate_portfolio_execution_dispatch: a sync, then pending_orders.  An
\* order whose outcome is open holds the journal: UncertaintyHolds of
\* ContinuousDispatch, taken here for granted where finding 3 breaks it too.
GateClears ==
    /\ worker.pc = "planned"
    /\ \A o \in Sent : orders[o].state = "acked"
    /\ Synced
    /\ Pending = {}
    /\ Goes("cleared")
    /\ UNCHANGED <<market, memory, poll, saved, ledger, disturbed>>

\* A gate that does without the account as it is now.
GateTrustsCache ==
    /\ worker.pc = "cleared"
    /\ worker' = [worker EXCEPT !.pc = "fresh", !.holding = Total(position)]
    /\ UNCHANGED <<market, memory, poll, saved, ledger, disturbed>>

\* list_positions: the account as it is now.
GateReads ==
    /\ worker.pc = "cleared"
    /\ worker' = [worker EXCEPT !.pc = "fresh", !.holding = holding]
    /\ UNCHANGED <<market, memory, poll, saved, ledger, disturbed>>

GateDecides ==
    /\ worker.pc = "fresh"
    /\ Reconciled(worker.holding)
    /\ worker.plan.base = position
    /\ worker.plan.side = -1 => worker.plan.quantity <= worker.holding
    /\ Goes("valid")
    /\ UNCHANGED <<market, memory, poll, saved, ledger, disturbed>>

Sends ==
    /\ worker.pc = "valid"
    /\ count < MaxOrders
    /\ count' = count + 1
    /\ orders' = [orders EXCEPT ![count + 1] =
                    [plan |-> worker.plan, state |-> "sent"]]
    /\ worker' = [pc |-> "sent", plan |-> NoPlan, holding |-> 0]
    /\ UNCHANGED <<executed, canceled, holding, memory, poll, saved, ledger,
                   disturbed>>

\* The dispatch row has the broker's id: what a sync recovers the order from.
AckSaved ==
    /\ worker.pc = "sent"
    /\ orders' = [orders EXCEPT ![count].state = "acked"]
    /\ Goes("saved")
    /\ UNCHANGED <<count, executed, canceled, holding, memory, poll, saved,
                   ledger, disturbed>>

AckLost ==
    /\ worker.pc = "sent"
    /\ Disturb("ack")
    /\ orders' = [orders EXCEPT ![count].state = "unknown"]
    /\ Goes("idle")
    /\ UNCHANGED <<count, executed, canceled, holding, memory, poll, saved,
                   ledger>>

\* submit_order_intent lists the order only after its dispatch.
OrderListed ==
    /\ worker.pc = "saved"
    /\ known' = known \cup {count}
    /\ Goes("listed")
    /\ UNCHANGED <<market, watermark, observed, poll, saved, ledger, disturbed>>

\* record_portfolio_ack; a sync may have been faster.
AckRecorded ==
    /\ worker.pc = "listed"
    /\ IF count \in accepted THEN UNCHANGED ledger ELSE Accepts(count)
    /\ Goes("idle")
    /\ UNCHANGED <<market, memory, poll, saved, disturbed>>

AckRecordFails ==
    /\ worker.pc = "listed"
    /\ Disturb("accept")
    /\ Goes("idle")
    /\ UNCHANGED <<market, memory, poll, saved, ledger>>

-----------------------------------------------------------------------------
(* The broker.                                                             *)

BrokerFills(o) ==
    /\ Live(o)
    /\ executed' = [executed EXCEPT ![o] = @ + 1]
    /\ holding' = holding + orders[o].plan.side
    /\ UNCHANGED <<worker, orders, count, canceled, memory, poll, saved, ledger,
                   disturbed>>

BrokerCancels(o) ==
    /\ Live(o)
    /\ canceled' = canceled \cup {o}
    /\ UNCHANGED <<worker, orders, count, executed, holding, memory, poll, saved,
                   ledger, disturbed>>

-----------------------------------------------------------------------------
(* _poll_execution_events_unlocked, one poll at a time.                    *)

\* The executions of all orders, one REST read.
PollReads ==
    /\ poll.pc = "idle"
    /\ poll' = [poll EXCEPT !.pc = "read", !.levels = executed, !.ended = canceled]
    /\ UNCHANGED <<worker, market, memory, saved, ledger, disturbed>>

\* The fill events of the poll whose identity, the key of the order and its
\* cumulative fill, is not saved yet.
New == {o \in Orders : poll.levels[o] > 0 /\ poll.levels[o] \notin levels[o]}

\* The balance, read after the executions in a call of its own, and
\* apply_execution_events_to_local_orders: the cumulative fill of an order that
\* STATE["orders"] lists becomes an increment; of another it stays as it is.
PollApplies ==
    /\ poll.pc = "read"
    /\ LET gain(o) ==
             IF o \notin known THEN poll.levels[o]
             ELSE IF poll.levels[o] > watermark[o]
                    THEN poll.levels[o] - watermark[o] ELSE 0
       IN  poll' = [poll EXCEPT !.pc = "applied", !.holding = holding,
                      !.gain = [o \in Orders |-> IF o \in New THEN gain(o) ELSE 0]]
    /\ watermark' = [o \in Orders |->
                       IF o \in New \cap known /\ poll.levels[o] > watermark[o]
                         THEN poll.levels[o] ELSE watermark[o]]
    /\ UNCHANGED <<worker, market, known, observed, saved, ledger, disturbed>>

\* record_execution_events, and the account as polled goes to the cache: two calls
\* of the code, one step here (section 6 of the README).
PollRecords ==
    /\ poll.pc = "applied"
    /\ levels' = [o \in Orders |->
                    IF o \in New THEN levels[o] \cup {poll.levels[o]} ELSE levels[o]]
    /\ tally' = [o \in Orders |-> tally[o] + poll.gain[o]]
    /\ ends' = ends \cup poll.ended
    /\ observed' = poll.holding
    /\ poll' = NoPoll
    /\ UNCHANGED <<worker, market, known, watermark, noticed, ledger, disturbed>>

\* The rows cannot be saved: nothing takes the watermark back.
PollFails ==
    /\ poll.pc = "applied"
    /\ Disturb("record")
    /\ poll' = NoPoll
    /\ UNCHANGED <<worker, market, memory, saved, ledger>>

\* A WebSocket notice of an executed share: it has no composite key, so no
\* watermark is applied to it, and an identity of its own.
NoticeSaved(o) ==
    /\ poll.pc = "idle"
    /\ o \in Noticed
    /\ executed[o] > 0
    /\ Disturb("notice")
    /\ tally' = [tally EXCEPT ![o] = @ + 1]
    /\ noticed' = noticed \cup {o}
    /\ UNCHANGED <<worker, market, memory, poll, levels, ends, ledger>>

\* STATE["orders"] keeps fifty orders.
ListEvicts(o) ==
    /\ o \in known
    /\ Disturb("evict")
    /\ known' = known \ {o}
    /\ UNCHANGED <<worker, market, watermark, observed, poll, saved, ledger>>

\* restore_runtime_from_checkpoint: orders come back from their dispatch rows,
\* which know no fills.  An order without an answer stays open.
Restart ==
    /\ Disturb("restart")
    /\ worker' = [pc |-> "idle", plan |-> NoPlan, holding |-> 0]
    /\ orders' = IF worker.pc = "sent"
                   THEN [orders EXCEPT ![count].state = "unknown"] ELSE orders
    /\ known' = Acked
    /\ watermark' = [o \in Orders |-> 0]
    /\ observed' = 0
    /\ poll' = NoPoll
    /\ UNCHANGED <<count, executed, canceled, holding, saved, ledger>>

CycleStep ==
    \/ CyclePlans \/ CycleCrosses \/ CycleDrops
    \/ GateClears \/ GateReads \/ GateDecides \/ Sends
    \/ AckSaved \/ AckLost \/ OrderListed \/ AckRecorded \/ AckRecordFails

PollStep == PollReads \/ PollApplies \/ PollRecords \/ PollFails

OrderStep(o) ==
    \/ SyncRecovers(o) \/ SyncBooks(o)
    \/ BrokerFills(o) \/ BrokerCancels(o)
    \/ NoticeSaved(o) \/ ListEvicts(o)

Next ==
    \/ CycleStep
    \/ PollStep
    \/ \E o \in Orders : OrderStep(o)
    \/ Restart

Spec == Init /\ [][Next]_vars

-----------------------------------------------------------------------------
(* Properties.                                                             *)

Plans == [base : [Sleeves -> Int], target : [Sleeves -> Int],
          side : {-1, 0, 1}, quantity : Nat,
          internal : [Sleeves -> Int], external : [Sleeves -> Int]]
Places == {"idle", "planned", "cleared", "fresh", "valid", "sent", "saved",
           "listed"}

\* The state is of the shape the controller, the rows and the ledger give it.
TypeOK ==
    /\ worker \in [pc : Places, plan : Plans, holding : Int]
    /\ orders \in [Orders -> [plan : Plans,
                              state : {"none", "sent", "acked", "unknown"}]]
    /\ count \in 0 .. MaxOrders
    /\ worker.pc \in {"sent", "saved", "listed"} => count > 0
    /\ executed \in [Orders -> Nat] /\ canceled \subseteq Orders
    /\ holding \in Int
    /\ known \subseteq Orders /\ watermark \in [Orders -> Nat] /\ observed \in Int
    /\ poll \in [pc : {"idle", "read", "applied"}, levels : [Orders -> Nat],
                 ended : SUBSET Orders, gain : [Orders -> Nat], holding : Int]
    /\ levels \in [Orders -> SUBSET Nat] /\ tally \in [Orders -> Nat]
    /\ ends \subseteq Orders /\ noticed \subseteq Orders
    /\ accepted \subseteq Orders /\ booked \in [Orders -> Nat]
    /\ terminal \subseteq Orders /\ position \in [Sleeves -> Int]
    /\ disturbed \in Nat

\* Executions reach the rows by the poll alone.
PolledOnly == noticed = {}

\* No sleeve ever sells what it does not own, whatever rows are lost, counted
\* twice or saved late: sleeve_holdings never raises (portfolio_execution.py).
NoSleeveShort ==
    PolledOnly => \A s \in Sleeves : position[s] >= 0

\* Nothing more will be booked of the order: it is booked in full, or its end is
\* saved and with it all the broker executed.
Frozen(o) ==
    /\ o \in accepted
    /\ booked[o] = Quantity(o) \/ (o \in ends /\ booked[o] = tally[o])

\* The ledger books what is saved.
BooksFollow == \A o \in Orders : booked[o] <= tally[o]

\* Dispatch states follow the worker; what the ledger holds was acknowledged,
\* and it never books more than was ordered.
OrdersFollow ==
    /\ \A o \in Orders : orders[o].state = "none" <=> o > count
    /\ \A o \in Orders :
          orders[o].state = "sent" <=> worker.pc = "sent" /\ o = count
    /\ worker.pc \in {"saved", "listed"} => orders[count].state = "acked"
    /\ accepted \subseteq Acked
    /\ terminal \subseteq ends
    /\ \A o \in Orders :
          /\ o \in accepted => booked[o] <= Quantity(o)
          /\ o \notin accepted => booked[o] = 0

\* Once the end of an order is saved, no poll finds a new fill of it.
EndsAreFinal ==
    /\ \A o \in ends :
          /\ o \in canceled
          /\ executed[o] = 0 \/ executed[o] \in levels[o]
          /\ poll.pc # "idle" => poll.levels[o] = executed[o]
    /\ poll.pc # "idle" =>
          \A o \in poll.ended : o \in canceled /\ poll.levels[o] = executed[o]
    /\ poll.pc = "applied" => \A o \in Orders \ New : poll.gain[o] = 0

\* No sleeve is short when the order starts, after its crosses, or at its end.
Sound(plan) ==
    /\ plan.quantity > 0
    /\ \A s \in Sleeves :
          /\ plan.base[s] >= 0
          /\ plan.base[s] + plan.internal[s] >= 0
          /\ plan.base[s] + plan.internal[s] + plan.external[s] >= 0

PlansSound ==
    /\ worker.pc \in {"planned", "cleared", "fresh", "valid"} => Sound(worker.plan)
    /\ \A o \in 1 .. count : Sound(orders[o].plan)

\* All orders but the last are over when it is sent, and until that one is over
\* the sleeves are where it puts them.
OneOrderMoves ==
    /\ \A o \in 1 .. count - 1 : Frozen(o)
    /\ worker.pc \in {"cleared", "fresh", "valid"} =>
          \A o \in 1 .. count : Frozen(o)
    /\ worker.pc = "valid" => position = worker.plan.base
    /\ \A o \in Orders \ accepted :
          o = count /\ orders[o].state \in {"sent", "acked"} =>
             position = orders[o].plan.base
    /\ \A o \in accepted : o = count /\ ~Frozen(o) =>
          position = [s \in Sleeves |->
                        orders[o].plan.base[s] + orders[o].plan.internal[s]
                          + Shares(orders[o].plan, booked[o])[s]]

\* The inductive invariant behind NoSleeveShort.
SleeveInvariant ==
    /\ TypeOK
    /\ BooksFollow
    /\ PolledOnly =>
          /\ OrdersFollow
          /\ EndsAreFinal
          /\ PlansSound
          /\ OneOrderMoves
          /\ NoSleeveShort

\* A plan divides its net exactly: what is crossed inside moves no share in or
\* out, what goes to the broker adds up to the order and is all on its side,
\* and both together take every sleeve to its target.
Balanced(plan) ==
    /\ plan.quantity > 0 /\ plan.side \in {-1, 1}
    /\ Total(plan.internal) = 0
    /\ Total(plan.external) = plan.side * plan.quantity
    /\ \A s \in Sleeves :
          /\ Sign(plan.external[s]) \in {0, plan.side}
          /\ plan.base[s] + plan.internal[s] + plan.external[s] = plan.target[s]

PlansBalanced ==
    /\ worker.pc \in {"planned", "cleared", "fresh", "valid"} => Balanced(worker.plan)
    /\ \A o \in 1 .. count : Balanced(orders[o].plan)

\* The broker executes no more than was ordered, and ends only what is open.
FillsBounded ==
    \A o \in Orders :
        /\ o > count => executed[o] = 0 /\ o \notin canceled
        /\ o <= count => executed[o] <= Quantity(o)
        /\ o \in canceled => executed[o] < Quantity(o)

\* The order is filled, or the ledger knows that it ended.
Over(o) == o \in terminal \/ (o \notin canceled /\ executed[o] = Quantity(o))

\* An order is sent only when those before it are over, so that what the last
\* one has open is all the account and the sleeves differ by.  An account that
\* was read and agrees with the sleeves is still the account.
AccountFollows ==
    /\ \A o \in 1 .. count : o < count \/ worker.pc = "valid" => Over(o)
    /\ Total(position) - holding =
          IF count = 0 THEN 0
          ELSE orders[count].plan.side * (booked[count] - executed[count])
    /\ worker.pc = "fresh" /\ Total(position) = worker.holding =>
          /\ worker.holding = holding
          /\ \A o \in Sent : ~Live(o)

\* When the validation passes, it is true and stays true until the order is
\* sent: no order is working at the broker, and each sleeve owns what the
\* ledger says (validate_portfolio_execution_dispatch).
ValidIsTrue ==
    PolledOnly /\ worker.pc = "valid" =>
        /\ \A o \in Sent : ~Live(o)
        /\ Total(position) = holding
        /\ worker.plan.base = position

\* The sleeves together hold what was booked: dividing a fill and crossing
\* inside neither loses nor makes a share (_proportional_signed_quantities).
Conserved ==
    Total(position) =
        SumFunctionOnSet([o \in Orders |-> orders[o].plan.side * booked[o]], Orders)

\* What the broker, the orders and the account have to do with each other.  With
\* SleeveInvariant, Conserved and ValidIsTrue it is inductive, and explains
\* OneOpenOrder.
AccountInvariant ==
    /\ OrdersFollow
    /\ PlansBalanced
    /\ FillsBounded
    /\ PolledOnly => AccountFollows

\* There is at most one order with something to book, so one transaction books
\* one order: the next is sent only when the account and the sleeves agree.
OneOpenOrder ==
    PolledOnly /\ Bookable => \A o, p \in ToBook : o = p

\* An order that is booked in full leaves every sleeve at the target the cycle
\* planned for it, however its fills were cut and whoever else was crossed.
ReachesTargets ==
    [][PolledOnly =>
         \A o \in Orders :
            booked[o] # Quantity(o) /\ booked'[o] = Quantity(o) =>
                position' = orders[o].plan.target]_vars

\* "A fill of one share and then a cumulative fill of three book three shares in
\* all": the sleeves never get more of an order than the broker executed.
BookedIsExecuted == \A o \in Orders : booked[o] <= executed[o]

=============================================================================
