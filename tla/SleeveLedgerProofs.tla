------------------------- MODULE SleeveLedgerProofs -------------------------
(***************************************************************************)
(* Proofs about SleeveLedger.  No sleeve is ever short as long as fills    *)
(* reach the ledger by polls alone: only the last order can still move the *)
(* sleeves, its plan keeps every sleeve above zero however its fills are   *)
(* cut, and an order that is over never moves one again.                   *)
(***************************************************************************)
EXTENDS SleeveLedger, TLAPS

-----------------------------------------------------------------------------
(* Arithmetic of net plans.                                                *)

\* A clamped number is within its bounds, whatever was clamped (Clamp).
LEMMA ClampRange ==
    ASSUME NEW x, NEW most \in Nat
    PROVE  Clamp(x, most) \in 0 .. most
BY DEF Clamp

\* The share of a partial fill never exceeds the allocation: rounding down in
\* proportion (_proportional_signed_quantities).
LEMMA PartRange ==
    ASSUME NEW a \in Nat, NEW q \in Nat, q > 0, NEW c \in 0 .. q
    PROVE  (a * c) \div q \in 0 .. a
<1> DEFINE d == (a * c) \div q
<1>1. a * c \in Nat
  BY SMT
<1>2. d \in Int /\ q * d <= a * c /\ a * c < q * d + q
  BY <1>1, SMT
<1>3. d >= 0
  BY <1>1, <1>2, SMT
<1>4. a * c <= a * q
  BY SMT
<1>5. d <= a
  BY <1>2, <1>4, SMT
<1> QED
  BY <1>2, <1>3, <1>5

\* A number is its sign times its size.
LEMMA SignAbs ==
    ASSUME NEW x \in Int
    PROVE  /\ Sign(x) \in {-1, 0, 1} /\ Abs(x) \in Nat
           /\ x > 0 => Sign(x) = 1 /\ Abs(x) = x
           /\ x < 0 => Sign(x) = -1 /\ Abs(x) = -x
           /\ x = 0 => Sign(x) = 0 /\ Abs(x) = 0
BY DEF Sign, Abs

\* What a sleeve crosses inside goes towards its own target and not beyond
\* (_split_internal_and_external_allocations).
LEMMA CrossedRange ==
    ASSUME NEW delta \in [Sleeves -> Int]
    PROVE  /\ Crossed(delta) \in [Sleeves -> Int]
           /\ \A s \in Sleeves :
                 /\ delta[s] >= 0 => Crossed(delta)[s] \in 0 .. delta[s]
                 /\ delta[s] <= 0 => Crossed(delta)[s] \in delta[s] .. 0
<1> DEFINE wants(sign) ==
             [s \in Sleeves |-> IF Sign(delta[s]) = sign THEN Abs(delta[s]) ELSE 0]
           side(sign, S) == SumFunctionOnSet(wants(sign), S)
           both == IF side(1, Sleeves) < side(-1, Sleeves)
                     THEN side(1, Sleeves) ELSE side(-1, Sleeves)
           ahead(s) == both - side(Sign(delta[s]), 1 .. s - 1)
<1>1. Crossed(delta) =
        [s \in Sleeves |-> Sign(delta[s]) * Clamp(ahead(s), Abs(delta[s]))]
  BY Zenon DEF Crossed
<1> HIDE DEF ahead
<1>2. ASSUME NEW s \in Sleeves
      PROVE  /\ Sign(delta[s]) * Clamp(ahead(s), Abs(delta[s])) \in Int
             /\ delta[s] >= 0 => Sign(delta[s]) * Clamp(ahead(s), Abs(delta[s])) \in 0 .. delta[s]
             /\ delta[s] <= 0 => Sign(delta[s]) * Clamp(ahead(s), Abs(delta[s])) \in delta[s] .. 0
  <2>1. delta[s] \in Int
    OBVIOUS
  <2>2. Clamp(ahead(s), Abs(delta[s])) \in 0 .. Abs(delta[s])
    BY <2>1, SignAbs, ClampRange
  <2> QED
    BY <2>1, <2>2, SignAbs
<1> QED
  BY <1>1, <1>2

\* A net plan is a plan, and one that starts from no short sleeve and aims at
\* none has no short sleeve in between (build_symbol_net_plan).
LEMMA NetPlanSound ==
    ASSUME NEW base \in [Sleeves -> Int], NEW target \in [Sleeves -> Int], NEW net,
           Abs(net) \in Nat
    PROVE  /\ NetPlan(base, target, net) \in Plans
           /\ NetPlan(base, target, net).base = base
           /\ (/\ Abs(net) > 0
               /\ \A s \in Sleeves : base[s] >= 0 /\ target[s] >= 0)
                 => Sound(NetPlan(base, target, net))
           /\ (\A s \in Sleeves : base[s] >= 0 /\ target[s] >= 0)
                 => \A s \in Sleeves :
                       base[s] + NetPlan(base, target, net).internal[s] >= 0
<1> DEFINE delta == [s \in Sleeves |-> target[s] - base[s]]
           internal == Crossed(delta)
           external == [s \in Sleeves |-> delta[s] - internal[s]]
           plan == NetPlan(base, target, net)
<1>1. delta \in [Sleeves -> Int]
  OBVIOUS
<1>2. internal \in [Sleeves -> Int]
  BY <1>1, CrossedRange
<1>3. external \in [Sleeves -> Int]
  BY <1>1, <1>2
<1>4. plan = [base |-> base, target |-> target, side |-> Sign(net),
              quantity |-> Abs(net), internal |-> internal, external |-> external]
  BY Zenon DEF NetPlan
<1>5. Sign(net) \in {-1, 0, 1}
  BY DEF Sign
<1>6. ASSUME NEW s \in Sleeves, base[s] >= 0, target[s] >= 0
      PROVE  /\ base[s] + internal[s] >= 0
             /\ base[s] + internal[s] + external[s] >= 0
  <2>1. /\ delta[s] >= 0 => internal[s] \in 0 .. delta[s]
        /\ delta[s] <= 0 => internal[s] \in delta[s] .. 0
    BY <1>1, CrossedRange
  <2>2. delta[s] = target[s] - base[s] /\ external[s] = delta[s] - internal[s]
    OBVIOUS
  <2>3. base[s] \in Int /\ target[s] \in Int /\ internal[s] \in Int /\ delta[s] \in Int
    BY <1>1, <1>2
  <2> HIDE DEF delta, internal, external
  <2> QED
    BY <1>6, <2>1, <2>2, <2>3
<1> HIDE DEF internal, external, plan, delta
<1>7. plan \in Plans
  BY <1>2, <1>3, <1>4, <1>5 DEF Plans
<1>8. /\ plan.base = base /\ plan.internal = internal /\ plan.external = external
      /\ plan.quantity = Abs(net)
  BY <1>4
<1> QED
  BY <1>6, <1>7, <1>8 DEF Sound, plan

\* Dividing any fill gives every sleeve whole shares
\* (_proportional_signed_quantities).
LEMMA SharesTyped ==
    ASSUME NEW plan \in Plans, NEW filled \in Nat, filled > 0 => plan.quantity > 0
    PROVE  Shares(plan, filled) \in [Sleeves -> Int]
<1> DEFINE ext(s) == plan.external[s]
           part(s) == Abs(ext(s)) * filled
           whole(s) == part(s) \div plan.quantity
           rest(s) == part(s) % plan.quantity
           left == Abs(filled - Total([s \in Sleeves |-> whole(s)]))
           eligible(s) == Sign(ext(s)) = plan.side /\ whole(s) < Abs(ext(s))
           before(t, s) == rest(t) > rest(s) \/ (rest(t) = rest(s) /\ t < s)
           chosen(s) ==
             /\ eligible(s)
             /\ Cardinality({t \in Sleeves : eligible(t) /\ before(t, s)}) < left
           share(s) == Sign(ext(s)) * (whole(s) + IF chosen(s) THEN 1 ELSE 0)
<1>1. Shares(plan, filled) =
        IF filled = 0 THEN Nothing ELSE [s \in Sleeves |-> share(s)]
  BY Zenon DEF Shares
<1>2. plan.quantity \in Nat /\ \A s \in Sleeves : ext(s) \in Int
  BY DEF Plans
<1>3. ASSUME NEW s \in Sleeves, filled # 0
      PROVE  share(s) \in Int
  <2>1. ext(s) \in Int /\ Abs(ext(s)) \in Nat /\ Sign(ext(s)) \in {-1, 0, 1}
    BY <1>2, SignAbs
  <2>2. part(s) \in Int
    BY <2>1
  <2>3. whole(s) \in Int
    <3> HIDE DEF part
    <3> QED
      BY <1>2, <1>3, <2>2
  <2> HIDE DEF ext, whole, chosen
  <2> QED
    BY <2>1, <2>3
<1> HIDE DEF share
<1> QED
  BY <1>1, <1>3 DEF Nothing

\* The shares of a fill stay between nothing and the allocation, sleeve by
\* sleeve (_proportional_signed_quantities).
LEMMA SharesRange ==
    ASSUME NEW plan \in Plans, plan.quantity > 0, NEW filled \in 0 .. plan.quantity
    PROVE  /\ Shares(plan, filled) \in [Sleeves -> Int]
           /\ \A s \in Sleeves :
                 \/ Shares(plan, filled)[s] \in 0 .. plan.external[s]
                 \/ Shares(plan, filled)[s] \in plan.external[s] .. 0
<1> DEFINE ext(s) == plan.external[s]
           part(s) == Abs(ext(s)) * filled
           whole(s) == part(s) \div plan.quantity
           rest(s) == part(s) % plan.quantity
           left == Abs(filled - Total([s \in Sleeves |-> whole(s)]))
           eligible(s) == Sign(ext(s)) = plan.side /\ whole(s) < Abs(ext(s))
           before(t, s) == rest(t) > rest(s) \/ (rest(t) = rest(s) /\ t < s)
           chosen(s) ==
             /\ eligible(s)
             /\ Cardinality({t \in Sleeves : eligible(t) /\ before(t, s)}) < left
           share(s) == Sign(ext(s)) * (whole(s) + IF chosen(s) THEN 1 ELSE 0)
<1>1. Shares(plan, filled) =
        IF filled = 0 THEN Nothing ELSE [s \in Sleeves |-> share(s)]
  BY Zenon DEF Shares
<1>2. plan.quantity \in Nat /\ \A s \in Sleeves : ext(s) \in Int
  BY DEF Plans
<1>3. ASSUME NEW s \in Sleeves
      PROVE  share(s) \in Int /\ (share(s) \in 0 .. ext(s) \/ share(s) \in ext(s) .. 0)
  <2>1. ext(s) \in Int /\ Abs(ext(s)) \in Nat
    BY <1>2, SignAbs
  <2>2. whole(s) \in 0 .. Abs(ext(s))
    <3> HIDE DEF ext
    <3> QED
      BY <1>2, <2>1, PartRange
  <2>3. chosen(s) => whole(s) < Abs(ext(s))
    OBVIOUS
  <2> HIDE DEF ext, whole, chosen
  <2>4. whole(s) + (IF chosen(s) THEN 1 ELSE 0) \in 0 .. Abs(ext(s))
    BY <2>1, <2>2, <2>3
  <2> QED
    BY <2>1, <2>4, SignAbs
<1> HIDE DEF share
<1>4. CASE filled = 0
  <2>1. Shares(plan, filled) = [s \in Sleeves |-> 0]
    BY <1>1, <1>4 DEF Nothing
  <2> QED
    BY <2>1, <1>2
<1>5. CASE filled # 0
  <2>1. Shares(plan, filled) = [s \in Sleeves |-> share(s)]
    BY <1>1, <1>5
  <2> QED
    BY <2>1, <1>3
<1> QED
  BY <1>4, <1>5
-----------------------------------------------------------------------------
(* Types.                                                                  *)

\* No shares at all, and no plan, are of their shape.
LEMMA NothingTyped == Nothing \in [Sleeves -> Int] /\ NoPlan \in Plans
BY DEF Nothing, NoPlan, Plans

\* A poll that has not started is of its shape.
LEMMA PollTyped ==
    /\ NoPoll \in [pc : {"idle", "read", "applied"}, levels : [Orders -> Nat],
                   ended : SUBSET Orders, gain : [Orders -> Nat], holding : Int]
    /\ NoPoll.pc = "idle"
BY DEF NoPoll

\* What the sleeves want is a number of shares, and no short position.
LEMMA TargetsTyped ==
    ASSUME TypeOK, NEW target \in Targets
    PROVE  /\ target \in [Sleeves -> Int]
           /\ (\A s \in Sleeves : position[s] >= 0) => \A s \in Sleeves : target[s] >= 0
<1>1. position \in [Sleeves -> Int] /\ BuySize \in [Sleeves -> Nat \ {0}]
  BY QuantitiesTyped DEF TypeOK, Sleeves
<1>2. \A s \in Sleeves : target[s] \in {position[s], 0, position[s] + BuySize[s]}
  BY DEF Targets, Wanted
<1>3. target = [s \in Sleeves |-> target[s]]
  BY DEF Targets
<1> QED
  BY <1>1, <1>2, <1>3

\* Booking a fill, or the crosses of an order, leaves whole positions.
LEMMA PlanOf ==
    ASSUME TypeOK, NEW o \in Orders
    PROVE  /\ orders[o].plan \in Plans /\ Quantity(o) \in Nat
           /\ orders[o].plan.internal \in [Sleeves -> Int]
           /\ orders[o].plan.base \in [Sleeves -> Int]
           /\ orders[o].plan.external \in [Sleeves -> Int]
           /\ orders[o].plan.side \in {-1, 0, 1}
BY DEF TypeOK, Plans, Quantity

\* The first state is of its shape.
LEMMA TypeInit == Init => TypeOK
BY NothingTyped, PollTyped, SleevesTyped DEF Init, TypeOK, Places, Orders, Nothing

\* A step of the controller leaves the state of its shape.
LEMMA TypeCycle ==
    ASSUME TypeOK, CycleStep PROVE TypeOK'
<1> USE DEF market, memory, saved, ledger
<1>0. /\ worker \in [pc : Places, plan : Plans, holding : Int]
      /\ position \in [Sleeves -> Int] /\ count \in 0 .. MaxOrders /\ holding \in Int
      /\ worker.pc \in {"sent", "saved", "listed"} => count \in Orders
  BY SleevesTyped DEF TypeOK, Orders
<1>1. CASE CyclePlans
  <2>1. PICK target \in Targets :
          /\ Abs(Total(target) - Total(position)) \in 1 .. MaxQuantity
          /\ worker' = [worker EXCEPT !.pc = "planned",
                !.plan = NetPlan(position, target, Total(target) - Total(position))]
    BY <1>1, Zenon DEF CyclePlans
  <2>2. target \in [Sleeves -> Int]
    BY TargetsTyped
  <2>3. Abs(Total(target) - Total(position)) \in Nat
    BY <2>1, QuantitiesTyped
  <2>4. NetPlan(position, target, Total(target) - Total(position)) \in Plans
    BY <1>0, <2>2, <2>3, NetPlanSound, Zenon
  <2>5. worker' \in [pc : Places, plan : Plans, holding : Int] /\ worker'.pc = "planned"
    BY <1>0, <2>1, <2>4 DEF Places
  <2> QED
    BY <1>1, <2>5 DEF CyclePlans, TypeOK
<1>2. CASE CycleCrosses
  <2>1. PICK target \in Targets :
          position' = [s \in Sleeves |->
                         position[s] + NetPlan(position, target, 0).internal[s]]
    BY <1>2 DEF CycleCrosses
  <2>2. NetPlan(position, target, 0) \in Plans
    <3>1. Abs(0) \in Nat
      BY DEF Abs
    <3> QED
      BY <3>1, TargetsTyped, NetPlanSound DEF TypeOK
  <2>3. position' \in [Sleeves -> Int]
    BY <2>1, <2>2 DEF TypeOK, Plans
  <2> QED
    BY <1>2, <2>3 DEF CycleCrosses, TypeOK
<1>3. CASE CycleDrops
  <2>1. worker' \in [pc : Places, plan : Plans, holding : Int] /\ worker'.pc = "idle"
    BY <1>0, <1>3, NothingTyped DEF CycleDrops, Places
  <2> QED
    BY <1>3, <2>1 DEF CycleDrops, TypeOK
<1>4. CASE GateClears
  BY <1>4 DEF GateClears, Goes, TypeOK, Places
<1>5. CASE GateReads
  BY <1>5 DEF GateReads, TypeOK, Places
<1>6. CASE GateDecides
  BY <1>6 DEF GateDecides, Goes, TypeOK, Places
<1>7. CASE Sends
  <2>1. worker' \in [pc : Places, plan : Plans, holding : Int]
    <3>1. worker' = [pc |-> "sent", plan |-> NoPlan, holding |-> 0]
      BY <1>7 DEF Sends
    <3> QED
      BY <1>0, <3>1, NothingTyped DEF Places
  <2>2. orders' \in [Orders -> [plan : Plans,
                                state : {"none", "sent", "acked", "unknown"}]]
    BY <1>7 DEF Sends, TypeOK
  <2>3. count' \in 0 .. MaxOrders /\ count' > 0
    BY <1>0, <1>7, SleevesTyped DEF Sends
  <2> QED
    BY <1>7, <2>1, <2>2, <2>3, SMTT(30) DEF Sends, TypeOK
<1>8. CASE AckSaved
  <2>0. count > 0
    BY <1>0, <1>8, SleevesTyped DEF AckSaved, Orders
  <2>1. worker' \in [pc : Places, plan : Plans, holding : Int]
    BY <1>0, <1>8 DEF AckSaved, Goes, Places
  <2>2. orders' \in [Orders -> [plan : Plans,
                                state : {"none", "sent", "acked", "unknown"}]]
    <3>1. orders' = [orders EXCEPT ![count].state = "acked"]
      BY <1>8 DEF AckSaved
    <3>2. orders \in [Orders -> [plan : Plans,
                                state : {"none", "sent", "acked", "unknown"}]]
      BY DEF TypeOK
    <3> QED
      BY <3>1, <3>2
  <2> QED
    BY <1>8, <2>0, <2>1, <2>2 DEF AckSaved, TypeOK
<1>9. CASE AckLost
  <2>1. worker' \in [pc : Places, plan : Plans, holding : Int] /\ worker'.pc = "idle"
    BY <1>0, <1>9 DEF AckLost, Goes, Places
  <2>2. orders' \in [Orders -> [plan : Plans,
                                state : {"none", "sent", "acked", "unknown"}]]
    <3>1. orders' = [orders EXCEPT ![count].state = "unknown"]
      BY <1>9 DEF AckLost
    <3>2. orders \in [Orders -> [plan : Plans,
                                state : {"none", "sent", "acked", "unknown"}]]
      BY DEF TypeOK
    <3> QED
      BY <3>1, <3>2
  <2>3. disturbed' \in Nat
    BY <1>9 DEF AckLost, Disturb, TypeOK
  <2> QED
    BY <1>9, <2>1, <2>2, <2>3 DEF AckLost, TypeOK
<1>10. CASE OrderListed
  <2>1. worker' \in [pc : Places, plan : Plans, holding : Int] /\ worker.pc = "saved"
    BY <1>0, <1>10 DEF OrderListed, Goes, Places
  <2>2. known' \subseteq Orders /\ count \in Orders
    BY <1>0, <1>10, <2>1 DEF OrderListed, TypeOK
  <2> QED
    BY <1>0, <1>10, <2>1, <2>2 DEF OrderListed, TypeOK, Orders
<1>11. CASE AckRecorded
  <2>1. worker' \in [pc : Places, plan : Plans, holding : Int] /\ worker'.pc = "idle"
    BY <1>0, <1>11 DEF AckRecorded, Goes, Places
  <2>2. worker.pc = "listed" /\ count \in Orders
    BY <1>0, <1>11 DEF AckRecorded
  <2>3. CASE count \in accepted
    BY <1>11, <2>1, <2>3 DEF AckRecorded, TypeOK
  <2>4. CASE count \notin accepted
    <3>1. Accepts(count)
      BY <1>11, <2>4 DEF AckRecorded
    <3>2. accepted' \subseteq Orders
      BY <2>2, <3>1 DEF Accepts, TypeOK
    <3>3. position' \in [Sleeves -> Int]
      BY <1>0, <2>2, <3>1, PlanOf DEF Accepts
    <3> QED
      BY <1>11, <2>1, <3>1, <3>2, <3>3 DEF AckRecorded, Accepts, TypeOK
  <2> QED
    BY <2>3, <2>4
<1>12. CASE AckRecordFails
  <2>1. worker' \in [pc : Places, plan : Plans, holding : Int] /\ worker'.pc = "idle"
    BY <1>0, <1>12 DEF AckRecordFails, Goes, Places
  <2>2. disturbed' \in Nat
    BY <1>12 DEF AckRecordFails, Disturb, TypeOK
  <2> QED
    BY <1>12, <2>1, <2>2 DEF AckRecordFails, TypeOK
<1> QED
  BY <1>1, <1>2, <1>3, <1>4, <1>5, <1>6, <1>7, <1>8, <1>9, <1>10, <1>11, <1>12
     DEF CycleStep
\* A step of a poll leaves the state of its shape.
LEMMA TypePoll ==
    ASSUME TypeOK, PollStep PROVE TypeOK'
<1> USE DEF market, memory, saved, ledger
<1> DEFINE PollType == [pc : {"idle", "read", "applied"}, levels : [Orders -> Nat],
                        ended : SUBSET Orders, gain : [Orders -> Nat], holding : Int]
<1>0. /\ poll \in PollType /\ executed \in [Orders -> Nat] /\ canceled \in SUBSET Orders
      /\ holding \in Int /\ watermark \in [Orders -> Nat] /\ tally \in [Orders -> Nat]
      /\ levels \in [Orders -> SUBSET Nat] /\ ends \subseteq Orders
  BY DEF TypeOK
<1>1. CASE PollReads
  <2>1. poll' \in PollType
    BY <1>0, <1>1 DEF PollReads
  <2> QED
    BY <1>1, <2>1 DEF PollReads, TypeOK
<1>2. CASE PollApplies
  <2> DEFINE gain(o) ==
               IF o \notin known THEN poll.levels[o]
               ELSE IF poll.levels[o] > watermark[o]
                      THEN poll.levels[o] - watermark[o] ELSE 0
             gains == [o \in Orders |-> IF o \in New THEN gain(o) ELSE 0]
  <2>1. poll' = [poll EXCEPT !.pc = "applied", !.holding = holding, !.gain = gains]
    BY <1>2, Zenon DEF PollApplies
  <2>2. gains \in [Orders -> Nat]
    <3>1. ASSUME NEW o \in Orders PROVE gain(o) \in Nat
      BY <1>0
    <3> QED
      BY <3>1
  <2> HIDE DEF gains
  <2>3. poll' \in PollType
    BY <1>0, <2>1, <2>2
  <2>4. watermark' \in [Orders -> Nat]
    BY <1>0, <1>2 DEF PollApplies
  <2> QED
    BY <1>2, <2>3, <2>4 DEF PollApplies, TypeOK
<1>3. CASE PollRecords
  <2>1. levels' \in [Orders -> SUBSET Nat]
    BY <1>0, <1>3 DEF PollRecords
  <2>2. tally' \in [Orders -> Nat]
    BY <1>0, <1>3 DEF PollRecords
  <2>3. ends' \subseteq Orders /\ observed' \in Int
    BY <1>0, <1>3 DEF PollRecords
  <2>4. poll' \in PollType
    BY <1>3, PollTyped DEF PollRecords
  <2> QED
    BY <1>3, <2>1, <2>2, <2>3, <2>4 DEF PollRecords, TypeOK
<1>4. CASE PollFails
  <2>1. poll' \in PollType
    BY <1>4, PollTyped DEF PollFails
  <2>2. disturbed' \in Nat
    BY <1>4 DEF PollFails, Disturb, TypeOK
  <2> QED
    BY <1>4, <2>1, <2>2 DEF PollFails, TypeOK
<1> QED
  BY <1>1, <1>2, <1>3, <1>4 DEF PollStep

\* A sync, a fill or a notice leaves the state of its shape.
LEMMA TypeOrder ==
    ASSUME TypeOK, BooksFollow, NEW o \in Orders, OrderStep(o) PROVE TypeOK'
<1> USE DEF market, memory, saved, ledger
<1>1. CASE SyncRecovers(o)
  <2>1. position' \in [Sleeves -> Int]
    BY <1>1, PlanOf DEF SyncRecovers, Accepts, TypeOK
  <2> QED
    BY <1>1, <2>1 DEF SyncRecovers, Accepts, TypeOK
<1>2. CASE SyncBooks(o)
  <2>1. /\ tally[o] <= Quantity(o) /\ booked[o] \in Nat /\ tally[o] \in Nat
        /\ accepted \subseteq Orders
    BY <1>2 DEF SyncBooks, Bookable, ToBook, TypeOK
  <2>2. booked' \in [Orders -> Nat] /\ terminal' \subseteq Orders
    BY <1>2, <2>1 DEF SyncBooks, TypeOK
  <2>3. position' \in [Sleeves -> Int]
    <3>1. booked[o] <= tally[o]
      BY DEF BooksFollow
    <3>2. \A n \in {tally[o], booked[o]} :
            Shares(orders[o].plan, n) \in [Sleeves -> Int]
      BY <2>1, <3>1, PlanOf, SharesTyped DEF Quantity
    <3> QED
      BY <1>2, <2>1, <3>2 DEF SyncBooks, TypeOK
  <2> QED
    BY <1>2, <2>2, <2>3 DEF SyncBooks, TypeOK
<1>3. CASE BrokerFills(o)
  <2>1. executed' \in [Orders -> Nat] /\ holding' \in Int
    BY <1>3, PlanOf DEF BrokerFills, TypeOK
  <2> QED
    BY <1>3, <2>1 DEF BrokerFills, TypeOK
<1>4. CASE BrokerCancels(o)
  BY <1>4 DEF BrokerCancels, TypeOK
<1>5. CASE NoticeSaved(o)
  <2>1. tally' \in [Orders -> Nat] /\ noticed' \subseteq Orders /\ disturbed' \in Nat
    BY <1>5 DEF NoticeSaved, Disturb, TypeOK
  <2> QED
    BY <1>5, <2>1 DEF NoticeSaved, TypeOK
<1>6. CASE ListEvicts(o)
  <2>1. disturbed' \in Nat /\ known' \subseteq Orders
    BY <1>6 DEF ListEvicts, Disturb, TypeOK
  <2> QED
    BY <1>6, <2>1 DEF ListEvicts, TypeOK
<1> QED
  BY <1>1, <1>2, <1>3, <1>4, <1>5, <1>6 DEF OrderStep

\* A restart leaves the state of its shape.
LEMMA TypeRestart ==
    ASSUME TypeOK, Restart PROVE TypeOK'
<1> USE DEF market, memory, saved, ledger
<1>1. worker' \in [pc : Places, plan : Plans, holding : Int] /\ worker'.pc = "idle"
  BY NothingTyped DEF Restart, Places
<1>2. orders' \in [Orders -> [plan : Plans,
                              state : {"none", "sent", "acked", "unknown"}]]
  <2>1. orders \in [Orders -> [plan : Plans,
                               state : {"none", "sent", "acked", "unknown"}]]
    BY DEF TypeOK
  <2>2. CASE worker.pc = "sent"
    <3>1. orders' = [orders EXCEPT ![count].state = "unknown"]
      BY <2>2 DEF Restart
    <3> QED
      BY <2>1, <3>1
  <2>3. CASE worker.pc # "sent"
    BY <2>1, <2>3 DEF Restart
  <2> QED
    BY <2>2, <2>3
<1>3. /\ poll' = NoPoll /\ disturbed' \in Nat /\ known' \subseteq Orders
      /\ watermark' \in [Orders -> Nat] /\ observed' = 0
  BY DEF Restart, Disturb, TypeOK, Acked
<1> QED
  BY <1>1, <1>2, <1>3, PollTyped DEF Restart, TypeOK

\* The ledger never books a row that is not saved.
LEMMA BooksPreserved ==
    ASSUME TypeOK, BooksFollow, [Next]_vars PROVE BooksFollow'
<1> USE DEF market, memory, saved, ledger
<1>1. tally \in [Orders -> Nat] /\ booked \in [Orders -> Nat]
  BY DEF TypeOK
<1>2. CASE CycleStep
  <2>1. UNCHANGED <<tally, booked>>
    BY <1>2 DEF CycleStep, CyclePlans, CycleCrosses, CycleDrops, GateClears, GateReads,
       GateDecides, Sends, AckSaved, AckLost, OrderListed, AckRecorded, AckRecordFails,
       Accepts
  <2> QED
    BY <2>1 DEF BooksFollow
<1>3. CASE PollRecords
  <2>1. poll.gain \in [Orders -> Nat]
    BY DEF TypeOK
  <2> QED
    BY <1>1, <1>3, <2>1 DEF PollRecords, BooksFollow
<1>4. CASE PollReads \/ PollApplies \/ PollFails
  <2>1. UNCHANGED <<tally, booked>>
    BY <1>4 DEF PollReads, PollApplies, PollFails
  <2> QED
    BY <2>1 DEF BooksFollow
<1>5. ASSUME NEW o \in Orders, OrderStep(o) PROVE BooksFollow'
  <2>1. CASE SyncBooks(o)
    BY <1>1, <2>1 DEF SyncBooks, BooksFollow
  <2>2. CASE NoticeSaved(o)
    BY <1>1, <2>2 DEF NoticeSaved, BooksFollow
  <2>3. CASE SyncRecovers(o) \/ BrokerFills(o) \/ BrokerCancels(o) \/ ListEvicts(o)
    <3>1. UNCHANGED <<tally, booked>>
      BY <2>3 DEF SyncRecovers, Accepts, BrokerFills, BrokerCancels, ListEvicts
    <3> QED
      BY <3>1 DEF BooksFollow
  <2> QED
    BY <1>5, <2>1, <2>2, <2>3 DEF OrderStep
<1>6. CASE Restart \/ UNCHANGED vars
  <2>1. UNCHANGED <<tally, booked>>
    BY <1>6 DEF Restart, vars
  <2> QED
    BY <2>1 DEF BooksFollow
<1> QED
  BY <1>2, <1>3, <1>4, <1>5, <1>6 DEF Next, PollStep

\* Every step leaves the state of its shape.
LEMMA TypePreserved ==
    ASSUME TypeOK, BooksFollow, [Next]_vars PROVE TypeOK'
<1>1. CASE Next
  BY <1>1, TypeCycle, TypePoll, TypeOrder, TypeRestart DEF Next
<1>2. CASE UNCHANGED vars
  BY <1>2 DEF TypeOK, vars, market, memory, saved, ledger
<1> QED
  BY <1>1, <1>2

\* The state is always of its shape: every order, row and position a cycle, a
\* poll, a sync or a restart leaves behind (SleeveLedger's TypeOK).
THEOREM TypeCorrect == Spec => []TypeOK
<1>1. Init => TypeOK /\ BooksFollow
  BY TypeInit DEF Init, BooksFollow
<1>2. TypeOK /\ BooksFollow /\ [Next]_vars => (TypeOK /\ BooksFollow)'
  BY TypePreserved, BooksPreserved
<1> QED
  BY <1>1, <1>2, PTL DEF Spec

-----------------------------------------------------------------------------
(* The parts of the inductive invariant.                                   *)

\* What holds while fills reach the ledger by polls alone.
Polled ==
    /\ TypeOK /\ BooksFollow
    /\ OrdersFollow /\ EndsAreFinal /\ PlansSound /\ OneOrderMoves
    /\ \A s \in Sleeves : position[s] >= 0

\* A notice that was saved stays saved.
LEMMA NoticesStay ==
    ASSUME [Next]_vars, PolledOnly'
    PROVE  PolledOnly /\ noticed' = noticed
<1> USE DEF market, memory, saved, ledger, PolledOnly
<1>1. CASE CycleStep
  BY <1>1 DEF CycleStep, CyclePlans, CycleCrosses, CycleDrops, GateClears, GateReads,
     GateDecides, Sends, AckSaved, AckLost, OrderListed, AckRecorded, AckRecordFails,
     Accepts
<1>2. CASE PollStep
  BY <1>2 DEF PollStep, PollReads, PollApplies, PollRecords, PollFails
<1>3. ASSUME NEW o \in Orders, OrderStep(o) PROVE PolledOnly /\ noticed' = noticed
  BY <1>3 DEF OrderStep, SyncRecovers, SyncBooks, Accepts, BrokerFills, BrokerCancels,
     NoticeSaved, ListEvicts
<1>4. CASE Restart \/ UNCHANGED vars
  BY <1>4 DEF Restart, vars
<1> QED
  BY <1>1, <1>2, <1>3, <1>4 DEF Next

\* Orders are acknowledged one at a time, and the ledger holds none that is not.
LEMMA OrdersFollowCycle ==
    ASSUME TypeOK, OrdersFollow, CycleStep PROVE OrdersFollow'
<1> USE DEF market, memory, saved, ledger
<1>0. /\ count \in 0 .. MaxOrders /\ MaxOrders \in Nat
      /\ orders \in [Orders -> [plan : Plans,
                                state : {"none", "sent", "acked", "unknown"}]]
      /\ worker \in [pc : Places, plan : Plans, holding : Int]
      /\ worker.pc \in {"sent", "saved", "listed"} => count \in Orders
  BY SleevesTyped, SMTT(30) DEF TypeOK, Orders
<1>1. CASE CyclePlans \/ CycleCrosses \/ CycleDrops \/ GateClears \/ GateReads
           \/ GateDecides \/ OrderListed \/ AckRecordFails
  <2>1. /\ UNCHANGED <<orders, count, accepted, terminal, ends, booked>>
        /\ worker.pc \notin {"sent"} /\ worker'.pc \notin {"sent", "saved"}
        /\ worker'.pc = "listed" => worker.pc = "saved"
    <3>1. CASE CyclePlans
      <4>1. PICK plan : worker' = [worker EXCEPT !.pc = "planned", !.plan = plan]
        BY <3>1, Zenon DEF CyclePlans
      <4>2. worker'.pc = "planned"
        BY <1>0, <4>1
      <4> QED
        BY <3>1, <4>2 DEF CyclePlans
    <3>2. CASE CycleCrosses
      BY <3>2 DEF CycleCrosses
    <3>3. CASE CycleDrops
      BY <3>3 DEF CycleDrops
    <3>4. CASE GateClears \/ GateReads \/ GateDecides
      BY <1>0, <3>4 DEF GateClears, GateReads, GateDecides, Goes
    <3>5. CASE OrderListed \/ AckRecordFails
      BY <1>0, <3>5 DEF OrderListed, AckRecordFails, Goes
    <3> QED
      BY <1>1, <3>1, <3>2, <3>3, <3>4, <3>5
  <2> QED
    BY <2>1 DEF OrdersFollow, Quantity, Acked
<1>2. CASE Sends
  <2>1. /\ worker.pc = "valid" /\ worker'.pc = "sent" /\ count' = count + 1
        /\ orders' = [orders EXCEPT ![count + 1] = [plan |-> worker.plan, state |-> "sent"]]
        /\ UNCHANGED <<accepted, terminal, ends, booked>>
        /\ count + 1 \in Orders /\ count < MaxOrders
    BY <1>0, <1>2 DEF Sends, Orders
  <2>2. orders[count + 1].state = "none"
    BY <1>0, <2>1 DEF OrdersFollow
  <2>3. \A o \in Orders : o # count + 1 => orders'[o] = orders[o]
    BY <1>0, <2>1
  <2>4. orders'[count + 1].state = "sent"
    BY <1>0, <2>1
  <2>5. \A o \in accepted : o \in Orders /\ o # count + 1
    BY <2>2 DEF OrdersFollow, Acked
  <2>6. \A o \in Orders : orders'[o].state = "none" <=> o > count'
    BY <1>0, <2>1, <2>3, <2>4 DEF OrdersFollow, Orders
  <2>7. \A o \in Orders : orders'[o].state = "sent" <=> worker'.pc = "sent" /\ o = count'
    BY <1>0, <2>1, <2>3, <2>4 DEF OrdersFollow
  <2>8. accepted' \subseteq Acked'
    BY <2>1, <2>3, <2>5 DEF OrdersFollow, Acked
  <2>9. \A o \in accepted' : Quantity(o)' = Quantity(o)
    BY <2>1, <2>3, <2>5 DEF Quantity
  <2> QED
    BY <2>1, <2>6, <2>7, <2>8, <2>9 DEF OrdersFollow
<1>3. CASE AckSaved \/ AckLost
  <2>1. PICK answer \in {"acked", "unknown"} :
          /\ worker.pc = "sent" /\ worker'.pc = IF answer = "acked" THEN "saved" ELSE "idle"
          /\ orders' = [orders EXCEPT ![count].state = answer]
          /\ UNCHANGED <<accepted, terminal, ends, booked, count>>
    BY <1>0, <1>3 DEF AckSaved, AckLost, Goes
  <2>2. orders[count].state = "sent" /\ count \in Orders
    BY <1>0, <2>1 DEF OrdersFollow
  <2>3. /\ \A o \in Orders : o # count => orders'[o] = orders[o]
        /\ orders'[count].state = answer /\ orders'[count].plan = orders[count].plan
    BY <1>0, <2>1, <2>2
  <2>4. count \notin accepted
    BY <2>2 DEF OrdersFollow, Acked
  <2>5. \A o \in Orders : orders'[o].state = "none" <=> o > count'
    BY <2>1, <2>2, <2>3 DEF OrdersFollow
  <2>6. \A o \in Orders : orders'[o].state = "sent" <=> worker'.pc = "sent" /\ o = count'
    BY <2>1, <2>2, <2>3 DEF OrdersFollow
  <2>7. accepted' \subseteq Acked'
    BY <2>1, <2>3, <2>4 DEF OrdersFollow, Acked
  <2>8. \A o \in Orders : Quantity(o)' = Quantity(o)
    BY <2>3 DEF Quantity
  <2> QED
    BY <2>1, <2>3, <2>5, <2>6, <2>7, <2>8 DEF OrdersFollow
<1>4. CASE AckRecorded
  <2>1. /\ worker.pc = "listed" /\ worker'.pc = "idle"
        /\ UNCHANGED <<orders, count, terminal, ends, booked>>
        /\ accepted' \in {accepted, accepted \cup {count}}
    BY <1>0, <1>4 DEF AckRecorded, Accepts, Goes
  <2>2. count \in Acked
    BY <1>0, <2>1 DEF OrdersFollow, Acked
  <2>3. count \notin accepted => booked[count] = 0 /\ Quantity(count) \in Nat
    BY <1>0, <2>1, PlanOf DEF OrdersFollow
  <2> QED
    BY <2>1, <2>2, <2>3 DEF OrdersFollow, Acked, Quantity
<1> QED
  BY <1>1, <1>2, <1>3, <1>4 DEF CycleStep

\* Polls, syncs, the broker and restarts acknowledge no order.
LEMMA OrdersFollowOthers ==
    ASSUME TypeOK, OrdersFollow, BooksFollow,
           PollStep \/ (\E o \in Orders : OrderStep(o)) \/ Restart \/ UNCHANGED vars
    PROVE  OrdersFollow'
<1> USE DEF market, memory, saved, ledger
<1>0. booked \in [Orders -> Nat] /\ tally \in [Orders -> Nat] /\ ends \subseteq Orders
  BY DEF TypeOK
<1>1. CASE PollStep \/ UNCHANGED vars
  <2>1. /\ UNCHANGED <<worker, orders, count, accepted, terminal, booked>>
        /\ ends \subseteq ends'
    BY <1>1 DEF PollStep, PollReads, PollApplies, PollRecords, PollFails, vars
  <2> QED
    BY <2>1 DEF OrdersFollow, Quantity, Acked
<1>2. ASSUME NEW o \in Orders, SyncRecovers(o) PROVE OrdersFollow'
  <2>1. /\ UNCHANGED <<worker, orders, count, terminal, ends, booked>>
        /\ accepted' = accepted \cup {o} /\ o \in Acked \ accepted
    BY <1>2 DEF SyncRecovers, Accepts
  <2>2. booked[o] = 0 /\ Quantity(o) \in Nat
    BY <2>1, PlanOf DEF OrdersFollow
  <2> QED
    BY <2>1, <2>2 DEF OrdersFollow, Acked, Quantity
<1>3. ASSUME NEW o \in Orders, SyncBooks(o) PROVE OrdersFollow'
  <2>1. /\ UNCHANGED <<worker, orders, count, accepted, ends>>
        /\ booked' = [booked EXCEPT ![o] = tally[o]]
        /\ terminal' \in {terminal, terminal \cup {o}}
        /\ o \notin ends => terminal' = terminal
        /\ o \in accepted /\ tally[o] <= Quantity(o)
    BY <1>3 DEF SyncBooks, ToBook, Bookable
  <2>2. booked'[o] = tally[o] /\ \A p \in Orders : p # o => booked'[p] = booked[p]
    BY <1>0, <2>1
  <2>3. terminal' \subseteq ends'
    BY <2>1 DEF OrdersFollow
  <2> QED
    BY <2>1, <2>2, <2>3 DEF OrdersFollow, Acked, Quantity
<1>4. ASSUME NEW o \in Orders,
             BrokerFills(o) \/ BrokerCancels(o) \/ NoticeSaved(o) \/ ListEvicts(o)
      PROVE  OrdersFollow'
  <2>1. UNCHANGED <<worker, orders, count, accepted, terminal, booked, ends>>
    BY <1>4 DEF BrokerFills, BrokerCancels, NoticeSaved, ListEvicts
  <2> QED
    BY <2>1 DEF OrdersFollow, Quantity, Acked
<1>5. CASE Restart
  <2>1. /\ worker'.pc = "idle" /\ UNCHANGED <<count, accepted, terminal, ends, booked>>
        /\ orders' = IF worker.pc = "sent"
                       THEN [orders EXCEPT ![count].state = "unknown"] ELSE orders
    BY <1>5 DEF Restart
  <2>2. orders \in [Orders -> [plan : Plans,
                               state : {"none", "sent", "acked", "unknown"}]]
    BY DEF TypeOK
  <2>3. worker.pc = "sent" => count \in Orders /\ orders[count].state = "sent"
    BY SleevesTyped DEF TypeOK, OrdersFollow, Orders
  <2>4. \A o \in Orders :
          /\ orders'[o].plan = orders[o].plan
          /\ orders'[o].state = IF orders[o].state = "sent" THEN "unknown" ELSE orders[o].state
    <3>1. CASE worker.pc = "sent"
      BY <2>1, <2>2, <2>3, <3>1 DEF OrdersFollow
    <3>2. CASE worker.pc # "sent"
      BY <2>1, <2>2, <3>2 DEF OrdersFollow
    <3> QED
      BY <3>1, <3>2
  <2> QED
    BY <2>1, <2>4 DEF OrdersFollow, Quantity, Acked
<1> QED
  BY <1>1, <1>2, <1>3, <1>4, <1>5 DEF OrderStep

\* An order whose end is saved was cancelled, and every share of it is in a row.
LEMMA EndsPreserved ==
    ASSUME TypeOK, EndsAreFinal, PolledOnly, noticed' = noticed, [Next]_vars
    PROVE  EndsAreFinal'
<1> USE DEF market, memory, saved, ledger
<1>0. /\ executed \in [Orders -> Nat] /\ levels \in [Orders -> SUBSET Nat]
      /\ ends \subseteq Orders /\ canceled \subseteq Orders
      /\ poll \in [pc : {"idle", "read", "applied"}, levels : [Orders -> Nat],
                   ended : SUBSET Orders, gain : [Orders -> Nat], holding : Int]
  BY DEF TypeOK
<1>1. ASSUME UNCHANGED <<canceled, executed, levels, ends, poll>> PROVE EndsAreFinal'
  BY <1>1 DEF EndsAreFinal, New
<1>2. CASE CycleStep
  <2>1. UNCHANGED <<canceled, executed, levels, ends, poll>>
    BY <1>2 DEF CycleStep, CyclePlans, CycleCrosses, CycleDrops, GateClears, GateReads,
       GateDecides, Sends, AckSaved, AckLost, OrderListed, AckRecorded, AckRecordFails,
       Accepts
  <2> QED
    BY <1>1, <2>1
<1>3. CASE PollReads
  <2>1. /\ poll'.pc = "read" /\ poll'.levels = executed /\ poll'.ended = canceled
        /\ UNCHANGED <<canceled, executed, levels, ends>>
    BY <1>0, <1>3 DEF PollReads
  <2> QED
    BY <1>0, <2>1 DEF EndsAreFinal
<1>4. CASE PollApplies
  <2> DEFINE gain(o) ==
               IF o \notin known THEN poll.levels[o]
               ELSE IF poll.levels[o] > watermark[o]
                      THEN poll.levels[o] - watermark[o] ELSE 0
             gains == [o \in Orders |-> IF o \in New THEN gain(o) ELSE 0]
  <2>1. poll' = [poll EXCEPT !.pc = "applied", !.holding = holding, !.gain = gains] /\ poll.pc = "read"
    BY <1>4, Zenon DEF PollApplies
  <2>2. UNCHANGED <<canceled, executed, levels, ends>>
    BY <1>4 DEF PollApplies
  <2>3. \A o \in Orders \ New : gains[o] = 0
    OBVIOUS
  <2> HIDE DEF gains
  <2>4. /\ poll'.pc = "applied" /\ poll'.gain = gains /\ poll'.levels = poll.levels
        /\ poll'.ended = poll.ended
    BY <1>0, <2>1
  <2>5. New' = New
    BY <2>2, <2>4 DEF New
  <2> QED
    BY <2>1, <2>2, <2>3, <2>4, <2>5 DEF EndsAreFinal
<1>5. CASE PollRecords
  <2>1. /\ poll.pc = "applied" /\ poll'.pc = "idle"
        /\ ends' = ends \cup poll.ended
        /\ UNCHANGED <<canceled, executed>>
    BY <1>5, PollTyped DEF PollRecords
  <2>2. \A o \in Orders : o \in New => levels'[o] = levels[o] \cup {poll.levels[o]}
    BY <1>5 DEF PollRecords
  <2>3. \A o \in Orders : levels[o] \subseteq levels'[o]
    BY <1>0, <1>5 DEF PollRecords
  <2>4. ASSUME NEW o \in poll.ended
        PROVE  o \in canceled /\ (executed[o] = 0 \/ executed[o] \in levels'[o])
    <3>1. o \in canceled /\ poll.levels[o] = executed[o] /\ o \in Orders
      BY <1>0, <2>1 DEF EndsAreFinal
    <3>2. executed[o] \in Nat
      BY <1>0, <3>1
    <3>3. o \in New \/ executed[o] = 0 \/ executed[o] \in levels[o]
      BY <3>1, <3>2 DEF New
    <3> QED
      BY <2>2, <2>3, <3>1, <3>3
  <2>5. ASSUME NEW o \in ends
        PROVE  o \in canceled /\ (executed[o] = 0 \/ executed[o] \in levels'[o])
    BY <1>0, <2>3 DEF EndsAreFinal
  <2> QED
    BY <2>1, <2>4, <2>5 DEF EndsAreFinal
<1>6. CASE PollFails \/ Restart
  <2>1. /\ poll'.pc = "idle" /\ UNCHANGED <<canceled, executed, levels, ends>>
    BY <1>6, PollTyped DEF PollFails, Restart
  <2> QED
    BY <2>1 DEF EndsAreFinal
<1>7. ASSUME NEW o \in Orders, BrokerFills(o) PROVE EndsAreFinal'
  <2>1. /\ o \notin canceled /\ executed' = [executed EXCEPT ![o] = @ + 1]
        /\ UNCHANGED <<canceled, levels, ends, poll>>
    BY <1>7 DEF BrokerFills, Live
  <2>2. \A p \in canceled : executed'[p] = executed[p]
    BY <1>0, <2>1
  <2>3. New' = New
    BY <2>1 DEF New
  <2> QED
    BY <2>1, <2>2, <2>3 DEF EndsAreFinal
<1>8. ASSUME NEW o \in Orders, BrokerCancels(o) PROVE EndsAreFinal'
  <2>1. /\ canceled \subseteq canceled' /\ UNCHANGED <<executed, levels, ends, poll>>
    BY <1>8 DEF BrokerCancels
  <2>2. New' = New
    BY <2>1 DEF New
  <2> QED
    BY <2>1, <2>2 DEF EndsAreFinal
<1>9. ASSUME NEW o \in Orders,
             SyncRecovers(o) \/ SyncBooks(o) \/ ListEvicts(o) \/ NoticeSaved(o)
      PROVE  EndsAreFinal'
  <2>1. UNCHANGED <<canceled, executed, levels, ends, poll>>
    BY <1>9 DEF SyncRecovers, SyncBooks, Accepts, ListEvicts, NoticeSaved
  <2> QED
    BY <1>1, <2>1
<1>10. CASE UNCHANGED vars
  BY <1>1, <1>10 DEF vars
<1> QED
  BY <1>2, <1>3, <1>4, <1>5, <1>6, <1>7, <1>8, <1>9, <1>10
     DEF Next, PollStep, OrderStep

\* The plan of an order that was sent is never replaced.
LEMMA PlansStay ==
    ASSUME TypeOK, OrdersFollow, [Next]_vars, NEW o \in Orders, o <= count
    PROVE  orders'[o].plan = orders[o].plan /\ o <= count'
<1> USE DEF market, memory, saved, ledger
<1>0. /\ count \in 0 .. MaxOrders /\ MaxOrders \in Nat
      /\ orders \in [Orders -> [plan : Plans,
                                state : {"none", "sent", "acked", "unknown"}]]
  BY SleevesTyped DEF TypeOK
<1>1. CASE Sends
  <2>1. /\ orders' = [orders EXCEPT ![count + 1] = [plan |-> worker.plan, state |-> "sent"]]
        /\ count' = count + 1 /\ o # count + 1 /\ o \in Nat
    BY <1>0, <1>1 DEF Sends, Orders
  <2> QED
    BY <1>0, <2>1
<1>2. CASE AckSaved
  BY <1>0, <1>2 DEF AckSaved
<1>3. CASE AckLost
  BY <1>0, <1>3 DEF AckLost
<1>4. CASE Restart
  BY <1>0, <1>4 DEF Restart
<1>5. CASE CyclePlans \/ CycleCrosses \/ CycleDrops \/ GateClears \/ GateReads
           \/ GateDecides \/ OrderListed \/ AckRecorded \/ AckRecordFails
  BY <1>5 DEF CyclePlans, CycleCrosses, CycleDrops, GateClears, GateReads, GateDecides,
     OrderListed, AckRecorded, AckRecordFails
<1>6. CASE PollStep
  BY <1>6 DEF PollStep, PollReads, PollApplies, PollRecords, PollFails
<1>7. ASSUME NEW p \in Orders, OrderStep(p) PROVE UNCHANGED <<orders, count>>
  BY <1>7 DEF OrderStep, SyncRecovers, SyncBooks, BrokerFills, BrokerCancels,
     NoticeSaved, ListEvicts
<1>8. CASE UNCHANGED vars
  BY <1>8 DEF vars
<1> QED
  BY <1>1, <1>2, <1>3, <1>4, <1>5, <1>6, <1>7, <1>8 DEF Next, CycleStep

\* Orders up to the last were sent; one the ledger holds was.
LEMMA AcceptedSent ==
    ASSUME TypeOK, OrdersFollow
    PROVE  /\ \A o \in accepted : o \in Orders /\ o <= count /\ o \in 1 .. count
           /\ \A o \in Orders : orders[o].state # "none" => o \in 1 .. count
           /\ \A o \in 1 .. count : o \in Orders /\ orders[o].state # "none"
<1>1. count \in 0 .. MaxOrders /\ MaxOrders \in Nat
  BY SleevesTyped DEF TypeOK
<1> QED
  BY <1>1 DEF OrdersFollow, Orders, Acked

\* Nothing moves an order that is over: no poll finds a fill of it that is not
\* saved, and what is saved is booked.
LEMMA FrozenStays ==
    ASSUME TypeOK, BooksFollow, OrdersFollow, EndsAreFinal, noticed' = noticed,
           PolledOnly, [Next]_vars, NEW o \in Orders, Frozen(o)
    PROVE  Frozen(o)' /\ booked'[o] = booked[o]
<1> USE DEF market, memory, saved, ledger
<1>0. /\ booked \in [Orders -> Nat] /\ tally \in [Orders -> Nat] /\ ends \subseteq Orders
      /\ o \in accepted /\ Quantity(o) \in Nat /\ booked[o] <= tally[o]
      /\ executed \in [Orders -> Nat]
  BY PlanOf DEF TypeOK, Frozen, BooksFollow
<1>1. Quantity(o)' = Quantity(o)
  BY <1>0, AcceptedSent, PlansStay DEF Quantity
<1>2. ASSUME accepted \subseteq accepted', ends \subseteq ends', booked'[o] = booked[o],
             o \in ends => tally'[o] = tally[o]
      PROVE  Frozen(o)' /\ booked'[o] = booked[o]
  BY <1>0, <1>1, <1>2 DEF Frozen
<1>3. CASE CycleStep
  <2>1. accepted \subseteq accepted' /\ UNCHANGED <<ends, booked, tally>>
    BY <1>3 DEF CycleStep, CyclePlans, CycleCrosses, CycleDrops, GateClears, GateReads,
       GateDecides, Sends, AckSaved, AckLost, OrderListed, AckRecorded, AckRecordFails,
       Accepts
  <2> QED
    BY <1>2, <2>1
<1>4. CASE PollRecords
  <2>1. /\ accepted' = accepted /\ booked' = booked /\ ends \subseteq ends'
        /\ tally'[o] = tally[o] + poll.gain[o]
        /\ poll.pc = "applied"
    BY <1>4 DEF PollRecords
  <2>2. o \in ends => o \notin New
    BY <2>1 DEF EndsAreFinal, New
  <2>3. o \in ends => poll.gain[o] = 0
    BY <2>1, <2>2 DEF EndsAreFinal
  <2> QED
    BY <1>0, <1>2, <2>1, <2>3
<1>5. CASE PollReads \/ PollApplies \/ PollFails \/ Restart \/ UNCHANGED vars
  <2>1. UNCHANGED <<accepted, booked, ends, tally>>
    BY <1>5 DEF PollReads, PollApplies, PollFails, Restart, vars
  <2> QED
    BY <1>2, <2>1
<1>6. ASSUME NEW p \in Orders, SyncBooks(p)
      PROVE  Frozen(o)' /\ booked'[o] = booked[o]
  <2>1. /\ accepted' = accepted /\ UNCHANGED <<ends, tally>>
        /\ booked' = [booked EXCEPT ![p] = tally[p]]
        /\ tally[o] <= Quantity(o)
    BY <1>0, <1>6 DEF SyncBooks, Bookable
  <2>2. booked'[o] = booked[o]
    <3>1. CASE p # o
      BY <1>0, <2>1, <3>1
    <3>2. CASE p = o
      <4>1. booked'[o] = tally[o]
        BY <1>0, <2>1, <3>2
      <4> QED
        BY <1>0, <2>1, <4>1 DEF Frozen
    <3> QED
      BY <3>1, <3>2
  <2> QED
    BY <1>2, <2>1, <2>2
<1>7. ASSUME NEW p \in Orders,
             SyncRecovers(p) \/ BrokerFills(p) \/ BrokerCancels(p) \/ ListEvicts(p)
      PROVE  Frozen(o)' /\ booked'[o] = booked[o]
  <2>1. accepted \subseteq accepted' /\ UNCHANGED <<booked, ends, tally>>
    BY <1>7 DEF SyncRecovers, Accepts, BrokerFills, BrokerCancels, ListEvicts
  <2> QED
    BY <1>2, <2>1
<1>8. ASSUME NEW p \in Orders, NoticeSaved(p) PROVE FALSE
  BY <1>8 DEF NoticeSaved, PolledOnly
<1> QED
  BY <1>3, <1>4, <1>5, <1>6, <1>7, <1>8 DEF Next, PollStep, OrderStep

\* Every plan that is sent was netted from sleeves that were not short.
LEMMA PlansPreserved ==
    ASSUME Polled, [Next]_vars PROVE PlansSound'
<1> USE DEF market, memory, saved, ledger
<1>0. /\ TypeOK /\ OrdersFollow /\ PlansSound /\ count \in 0 .. MaxOrders
      /\ MaxOrders \in Nat /\ \A s \in Sleeves : position[s] >= 0
      /\ worker \in [pc : Places, plan : Plans, holding : Int]
      /\ position \in [Sleeves -> Int]
  BY SleevesTyped DEF Polled, TypeOK
<1>1. ASSUME count' = count,
             worker'.pc \in {"planned", "cleared", "fresh", "valid"} =>
                 Sound(worker'.plan)
      PROVE  PlansSound'
  <2>1. \A o \in 1 .. count : orders'[o].plan = orders[o].plan
    BY <1>0, PlansStay, AcceptedSent
  <2> QED
    BY <1>0, <1>1, <2>1 DEF PlansSound, Sound
<1>2. CASE CyclePlans
  <2>1. PICK target \in Targets :
          /\ Abs(Total(target) - Total(position)) \in 1 .. MaxQuantity
          /\ worker' = [worker EXCEPT !.pc = "planned",
                !.plan = NetPlan(position, target, Total(target) - Total(position))]
    BY <1>2, Zenon DEF CyclePlans
  <2>2. /\ target \in [Sleeves -> Int] /\ \A s \in Sleeves : target[s] >= 0
        /\ Abs(Total(target) - Total(position)) \in Nat
        /\ Abs(Total(target) - Total(position)) > 0
    BY <1>0, <2>1, TargetsTyped, QuantitiesTyped
  <2>3. Sound(NetPlan(position, target, Total(target) - Total(position)))
    BY <1>0, <2>2, NetPlanSound, Zenon
  <2>4. worker'.plan = NetPlan(position, target, Total(target) - Total(position))
    BY <1>0, <2>1
  <2>5. count' = count
    BY <1>2 DEF CyclePlans
  <2> QED
    BY <1>1, <2>3, <2>4, <2>5
<1>3. CASE Sends
  <2>1. /\ worker.pc = "valid" /\ worker'.pc = "sent" /\ count' = count + 1
        /\ count + 1 \in Orders
        /\ orders' = [orders EXCEPT ![count + 1] = [plan |-> worker.plan, state |-> "sent"]]
    BY <1>0, <1>3 DEF Sends, Orders
  <2>2. orders'[count + 1].plan = worker.plan
    BY <1>0, <2>1 DEF TypeOK
  <2>3. \A o \in 1 .. count : orders'[o].plan = orders[o].plan
    BY <1>0, PlansStay, AcceptedSent
  <2>4. Sound(worker.plan)
    BY <1>0, <2>1 DEF PlansSound
  <2>5. \A o \in 1 .. count' : o \in 1 .. count \/ o = count + 1
    BY <1>0, <2>1
  <2> QED
    BY <1>0, <2>1, <2>2, <2>3, <2>4, <2>5 DEF PlansSound, Sound
<1>4. CASE GateClears \/ GateReads \/ GateDecides
  <2>1. /\ worker'.plan = worker.plan /\ count' = count
        /\ worker.pc \in {"planned", "cleared", "fresh", "valid"}
    BY <1>0, <1>4 DEF GateClears, GateReads, GateDecides, Goes
  <2> QED
    BY <1>0, <1>1, <2>1 DEF PlansSound
<1>5. CASE CycleDrops \/ AckSaved \/ AckLost \/ OrderListed \/ AckRecorded
           \/ AckRecordFails \/ Restart
  <2>1. worker'.pc \notin {"planned", "cleared", "fresh", "valid"} /\ count' = count
    BY <1>0, <1>5 DEF CycleDrops, AckSaved, AckLost, OrderListed, AckRecorded,
       AckRecordFails, Restart, Goes
  <2> QED
    BY <1>1, <2>1
<1>6. CASE CycleCrosses \/ PollStep \/ UNCHANGED vars
  <2>1. UNCHANGED <<worker, count>>
    BY <1>6 DEF CycleCrosses, PollStep, PollReads, PollApplies, PollRecords, PollFails, vars
  <2> QED
    BY <1>0, <1>1, <2>1 DEF PlansSound
<1>7. ASSUME NEW o \in Orders, OrderStep(o) PROVE PlansSound'
  <2>1. UNCHANGED <<worker, count>>
    BY <1>7 DEF OrderStep, SyncRecovers, SyncBooks, BrokerFills, BrokerCancels,
       NoticeSaved, ListEvicts
  <2> QED
    BY <1>0, <1>1, <2>1 DEF PlansSound
<1> QED
  BY <1>2, <1>3, <1>4, <1>5, <1>6, <1>7 DEF Next, CycleStep

\* An order the ledger accepts is the last one, and it starts from its base.
LEMMA AcceptMoves ==
    ASSUME Polled, NEW o \in Acked \ accepted, Accepts(o),
           UNCHANGED <<orders, count, ends, tally>>, [Next]_vars, noticed' = noticed,
           PolledOnly, worker'.pc \in {worker.pc, "idle"}
    PROVE  OneOrderMoves' /\ \A s \in Sleeves : position'[s] >= 0
<1>0. /\ TypeOK /\ OrdersFollow /\ PlansSound /\ OneOrderMoves /\ BooksFollow
      /\ EndsAreFinal
      /\ o \in Orders /\ count \in Nat /\ position \in [Sleeves -> Int]
  BY DEF Polled, Acked, TypeOK
<1>1. o \in 1 .. count /\ booked[o] = 0
  BY <1>0, AcceptedSent DEF Acked, OrdersFollow
<1>2. o = count
  <2>1. o \notin 1 .. count - 1
    BY <1>0 DEF OneOrderMoves, Frozen
  <2> QED
    BY <1>0, <1>1, <2>1
<1>3. position = orders[o].plan.base
  BY <1>0, <1>2 DEF OneOrderMoves, Acked
<1>4. position' = [s \in Sleeves |->
                     orders[o].plan.base[s] + orders[o].plan.internal[s]]
  BY <1>3 DEF Accepts
<1>5. /\ orders[o].plan.internal \in [Sleeves -> Int]
      /\ orders[o].plan.base \in [Sleeves -> Int]
  BY <1>0, PlanOf
<1>6. \A s \in Sleeves : position'[s] >= 0
  BY <1>0, <1>1, <1>4 DEF PlansSound, Sound
<1>7. position' = [s \in Sleeves |->
                     orders[o].plan.base[s] + orders[o].plan.internal[s]
                       + Shares(orders[o].plan, 0)[s]]
  <2>1. \A s \in Sleeves : Shares(orders[o].plan, 0)[s] = 0
    BY DEF Shares, Nothing
  <2> QED
    BY <1>4, <1>5, <2>1
<1>8. booked' = booked /\ accepted' = accepted \cup {o}
  BY DEF Accepts
<1>9. worker.pc \notin {"cleared", "fresh", "valid"}
  BY <1>0, <1>1 DEF OneOrderMoves, Frozen
<1>10. \A p \in 1 .. count' - 1 : Frozen(p)'
  BY <1>0, AcceptedSent, FrozenStays DEF OneOrderMoves
<1> QED
  BY <1>1, <1>2, <1>6, <1>7, <1>8, <1>9, <1>10 DEF OneOrderMoves

\* Booking an order that is over moves nothing; booking the last one leaves the
\* sleeves where its plan and its fills put them.
LEMMA BookMoves ==
    ASSUME Polled, NEW o \in Orders, SyncBooks(o), [Next]_vars,
           noticed' = noticed, PolledOnly
    PROVE  OneOrderMoves' /\ \A s \in Sleeves : position'[s] >= 0
<1> USE DEF market, memory, saved, ledger
<1>0. /\ TypeOK /\ OrdersFollow /\ PlansSound /\ OneOrderMoves /\ BooksFollow
      /\ EndsAreFinal /\ \A s \in Sleeves : position[s] >= 0
      /\ count \in Nat /\ position \in [Sleeves -> Int]
      /\ booked \in [Orders -> Nat] /\ tally \in [Orders -> Nat]
  BY DEF Polled, TypeOK
<1>1. /\ UNCHANGED <<worker, orders, count, accepted, ends, tally>>
      /\ booked' = [booked EXCEPT ![o] = tally[o]]
      /\ o \in accepted /\ tally[o] <= Quantity(o)
      /\ position' = [s \in Sleeves |-> position[s]
                        + Shares(orders[o].plan, tally[o])[s]
                        - Shares(orders[o].plan, booked[o])[s]]
  BY DEF SyncBooks, Bookable, ToBook
<1>2. o \in 1 .. count
  BY <1>0, <1>1, AcceptedSent
<1>3. /\ orders[o].plan \in Plans /\ orders[o].plan.quantity > 0
      /\ orders[o].plan.quantity = Quantity(o) /\ Quantity(o) \in Nat
  BY <1>0, <1>2, PlanOf DEF PlansSound, Sound, Quantity
<1>4. booked[o] <= tally[o] /\ booked[o] \in 0 .. Quantity(o) /\ tally[o] \in 0 .. Quantity(o)
  BY <1>0, <1>1, <1>3 DEF BooksFollow
<1>5. /\ Shares(orders[o].plan, tally[o]) \in [Sleeves -> Int]
      /\ Shares(orders[o].plan, booked[o]) \in [Sleeves -> Int]
  BY <1>3, <1>4, SharesRange
<1>6. booked'[o] = tally[o] /\ \A p \in Orders : p # o => booked'[p] = booked[p]
  BY <1>0, <1>1
<1>7. \A p \in Orders : Frozen(p) => Frozen(p)' /\ booked'[p] = booked[p]
  BY <1>0, FrozenStays
<1>8. \A p \in 1 .. count : p \in Orders
  BY <1>0, AcceptedSent
<1>9. CASE Frozen(o)
  <2>1. booked'[o] = booked[o]
    BY <1>7, <1>9
  <2>2. tally[o] = booked[o]
    BY <1>6, <2>1
  <2>3. position' = [s \in Sleeves |-> position[s]]
    BY <1>0, <1>1, <1>5, <2>2
  <2>4. position' = position
    BY <1>0, <2>3
  <2>5. booked' = booked
    BY <1>0, <1>1, <2>2
  <2>6. \A p \in Orders : Frozen(p)' <=> Frozen(p)
    BY <1>1, <2>5 DEF Frozen, Quantity
  <2>7. \A p \in accepted : p \in Orders
    BY <1>0, AcceptedSent
  <2>8. \A p \in 1 .. count : Frozen(p) => Frozen(p)'
    BY <1>8, <2>6
  <2>9. /\ \A p \in 1 .. count' - 1 : Frozen(p)'
        /\ worker'.pc \in {"cleared", "fresh", "valid"} =>
              \A p \in 1 .. count' : Frozen(p)'
    BY <1>0, <1>1, <2>8 DEF OneOrderMoves
  <2>10. \A p \in accepted' : p = count' /\ ~Frozen(p)' =>
           position' = [s \in Sleeves |->
                          orders'[p].plan.base[s] + orders'[p].plan.internal[s]
                            + Shares(orders'[p].plan, booked'[p])[s]]
    BY <1>0, <1>1, <2>4, <2>5, <2>6, <2>7 DEF OneOrderMoves
  <2> QED
    BY <1>0, <1>1, <2>4, <2>9, <2>10 DEF OneOrderMoves
<1>10. CASE ~Frozen(o)
  <2>1. o = count
    BY <1>0, <1>2, <1>10 DEF OneOrderMoves
  <2>2. worker.pc \notin {"cleared", "fresh", "valid"}
    BY <1>0, <1>2, <1>10 DEF OneOrderMoves
  <2>3. position = [s \in Sleeves |->
                      orders[o].plan.base[s] + orders[o].plan.internal[s]
                        + Shares(orders[o].plan, booked[o])[s]]
    BY <1>0, <1>1, <1>10, <2>1 DEF OneOrderMoves
  <2>4. /\ orders[o].plan.internal \in [Sleeves -> Int]
        /\ orders[o].plan.base \in [Sleeves -> Int]
        /\ orders[o].plan.external \in [Sleeves -> Int]
    BY <1>0, PlanOf
  <2>5. position' = [s \in Sleeves |->
                       orders[o].plan.base[s] + orders[o].plan.internal[s]
                         + Shares(orders[o].plan, tally[o])[s]]
    <3>1. \A s \in Sleeves :
            position[s] + Shares(orders[o].plan, tally[o])[s]
                        - Shares(orders[o].plan, booked[o])[s]
              = orders[o].plan.base[s] + orders[o].plan.internal[s]
                  + Shares(orders[o].plan, tally[o])[s]
      BY <1>5, <2>3, <2>4
    <3> QED
      BY <1>1, <3>1
  <2>6. ASSUME NEW s \in Sleeves PROVE position'[s] >= 0
    <3>1. \/ Shares(orders[o].plan, tally[o])[s] \in 0 .. orders[o].plan.external[s]
          \/ Shares(orders[o].plan, tally[o])[s] \in orders[o].plan.external[s] .. 0
      BY <1>3, <1>4, SharesRange
    <3>2. /\ orders[o].plan.base[s] + orders[o].plan.internal[s] >= 0
          /\ orders[o].plan.base[s] + orders[o].plan.internal[s]
               + orders[o].plan.external[s] >= 0
      BY <1>0, <1>2 DEF PlansSound, Sound
    <3>3. /\ orders[o].plan.base[s] \in Int /\ orders[o].plan.internal[s] \in Int
          /\ orders[o].plan.external[s] \in Int
          /\ Shares(orders[o].plan, tally[o])[s] \in Int
      BY <1>5, <2>4
    <3>4. position'[s] = orders[o].plan.base[s] + orders[o].plan.internal[s]
                           + Shares(orders[o].plan, tally[o])[s]
      BY <2>5
    <3> QED
      BY <3>1, <3>2, <3>3, <3>4
  <2>7. \A p \in 1 .. count - 1 : Frozen(p)'
    BY <1>0, <1>7, <1>8 DEF OneOrderMoves
  <2> QED
    BY <1>1, <1>6, <2>1, <2>2, <2>5, <2>6, <2>7 DEF OneOrderMoves
<1> QED
  BY <1>9, <1>10

\* A step that leaves positions, bookings and the last order alone.
LEMMA StillMoves ==
    ASSUME Polled, [Next]_vars, noticed' = noticed, PolledOnly,
           UNCHANGED <<count, accepted, booked, position>>,
           \A o \in Orders : orders'[o].state = "sent" => orders[o].state = "sent",
           \A o \in Orders : orders'[o].state = "acked" => orders[o].state \in {"sent", "acked"},
           worker'.pc \in {"cleared", "fresh", "valid"} =>
               worker.pc \in {"cleared", "fresh", "valid"} \/ \A o \in 1 .. count : Frozen(o),
           worker'.pc = "valid" => position = worker'.plan.base
    PROVE  OneOrderMoves' /\ \A s \in Sleeves : position'[s] >= 0
<1>0. /\ TypeOK /\ OrdersFollow /\ OneOrderMoves /\ BooksFollow /\ EndsAreFinal
      /\ count \in Nat
  BY DEF Polled, TypeOK
<1>1. \A o \in 1 .. count : o \in Orders /\ orders'[o].plan = orders[o].plan
  BY <1>0, AcceptedSent, PlansStay
<1>2. \A o \in Orders : Frozen(o) => Frozen(o)'
  BY <1>0, FrozenStays
<1>3. \A o \in accepted : o \in 1 .. count
  BY <1>0, AcceptedSent
<1>4. \A o \in 1 .. count' - 1 : Frozen(o)'
  BY <1>0, <1>1, <1>2 DEF OneOrderMoves
<1>5. worker'.pc \in {"cleared", "fresh", "valid"} => \A o \in 1 .. count' : Frozen(o)'
  BY <1>0, <1>1, <1>2 DEF OneOrderMoves
<1>6. \A o \in Orders \ accepted' :
        o = count' /\ orders'[o].state \in {"sent", "acked"} =>
          position' = orders'[o].plan.base
  <2> SUFFICES ASSUME NEW o \in Orders \ accepted, o = count,
                      orders'[o].state \in {"sent", "acked"}
               PROVE  position = orders'[o].plan.base
    OBVIOUS
  <2>1. o \in 1 .. count
    BY <1>0 DEF Orders
  <2> QED
    BY <1>0, <1>1, <2>1 DEF OneOrderMoves
<1>7. \A o \in accepted' : o = count' /\ ~Frozen(o)' =>
        position' = [s \in Sleeves |->
                       orders'[o].plan.base[s] + orders'[o].plan.internal[s]
                         + Shares(orders'[o].plan, booked'[o])[s]]
  BY <1>0, <1>1, <1>2, <1>3 DEF OneOrderMoves, Orders, Acked
<1> QED
  BY <1>4, <1>5, <1>6, <1>7 DEF OneOrderMoves, Polled

\* A step of the controller's cycle.
LEMMA CycleMoves ==
    ASSUME Polled, CycleStep, noticed' = noticed, PolledOnly
    PROVE  OneOrderMoves' /\ \A s \in Sleeves : position'[s] >= 0
<1> USE DEF market, memory, saved, ledger
<1>b. TypeOK
  BY DEF Polled
<1>c. /\ count \in 0 .. MaxOrders /\ MaxOrders \in Nat
      /\ worker.pc \in {"sent", "saved", "listed"} => count > 0
  BY <1>b, SleevesTyped DEF TypeOK
<1>0. /\ TypeOK /\ OrdersFollow /\ PlansSound /\ OneOrderMoves /\ BooksFollow
      /\ EndsAreFinal /\ \A s \in Sleeves : position[s] >= 0
      /\ count \in 0 .. MaxOrders /\ MaxOrders \in Nat /\ position \in [Sleeves -> Int]
      /\ worker \in [pc : Places, plan : Plans, holding : Int]
      /\ orders \in [Orders -> [plan : Plans,
                                state : {"none", "sent", "acked", "unknown"}]]
      /\ worker.pc \in {"sent", "saved", "listed"} => count \in Orders
  <2>1. worker.pc \in {"sent", "saved", "listed"} => count \in Orders
    BY <1>c DEF Orders
  <2> QED
    BY <1>b, <1>c, <2>1 DEF Polled, TypeOK
<1>a. [Next]_vars
  BY Zenon DEF Next
<1>1. ASSUME Synced, Pending = {}, NEW o \in Acked PROVE Frozen(o)
  <2>1. o \in accepted /\ o \in Orders
    BY <1>1 DEF Synced, Acked
  <2>2. booked[o] = tally[o] /\ o \notin ends \ terminal
    BY <1>1, <2>1 DEF Synced, ToBook
  <2>3. booked[o] >= Quantity(o) \/ o \in terminal
    BY <1>0, <1>1, <2>1, PlanOf DEF Pending, TypeOK
  <2>4. booked[o] <= Quantity(o) /\ booked[o] \in Nat /\ Quantity(o) \in Nat
    BY <1>0, <2>1, PlanOf DEF OrdersFollow, TypeOK
  <2> QED
    BY <1>0, <2>1, <2>2, <2>3, <2>4 DEF Frozen, OrdersFollow
<1>2. CASE CyclePlans
  <2>1. PICK plan : worker' = [worker EXCEPT !.pc = "planned", !.plan = plan]
    BY <1>2, Zenon DEF CyclePlans
  <2>2. worker'.pc = "planned"
    BY <1>0, <2>1
  <2>3. UNCHANGED <<orders, count, accepted, booked, position>>
    BY <1>2 DEF CyclePlans
  <2> QED
    BY <1>0, <1>a, <2>2, <2>3, StillMoves
<1>3. CASE CycleCrosses
  <2>1. /\ worker.pc = "idle" /\ Synced /\ Pending = {}
        /\ UNCHANGED <<worker, orders, count, accepted, booked>>
    BY <1>3 DEF CycleCrosses, Reconciled
  <2>2. PICK target \in Targets :
          position' = [s \in Sleeves |->
                         position[s] + NetPlan(position, target, 0).internal[s]]
    BY <1>3 DEF CycleCrosses
  <2>3. target \in [Sleeves -> Int] /\ \A s \in Sleeves : target[s] >= 0
    BY <1>0, TargetsTyped
  <2>4. \A s \in Sleeves : position[s] + NetPlan(position, target, 0).internal[s] >= 0
    <3>1. Abs(0) \in Nat
      BY DEF Abs
    <3> QED
      BY <1>0, <2>3, <3>1, NetPlanSound
  <2>5. \A o \in Acked : Frozen(o)
    BY <1>1, <2>1
  <2>6. \A o \in Orders : Frozen(o) => Frozen(o)'
    BY <1>0, <1>a, FrozenStays
  <2>7. \A o \in accepted : o \in Acked /\ o \in Orders
    BY <1>0 DEF OrdersFollow, Acked
  <2>8. \A o \in Orders \ accepted : orders[o].state \notin {"sent", "acked"}
    BY <1>0, <2>1 DEF Synced, Acked, OrdersFollow
  <2>9. \A o \in 1 .. count - 1 : Frozen(o)'
    BY <1>0, <2>6, AcceptedSent DEF OneOrderMoves
  <2>10. worker'.pc \notin {"cleared", "fresh", "valid"}
    BY <2>1
  <2>11. \A o \in accepted' : Frozen(o)'
    BY <2>1, <2>5, <2>6, <2>7
  <2>12. OneOrderMoves'
    BY <2>1, <2>8, <2>9, <2>10, <2>11 DEF OneOrderMoves
  <2> QED
    BY <2>2, <2>4, <2>12
<1>4. CASE GateClears
  <2>1. /\ worker'.pc = "cleared" /\ Synced /\ Pending = {}
        /\ \A o \in Sent : orders[o].state = "acked"
        /\ UNCHANGED <<orders, count, accepted, booked, position>>
    BY <1>0, <1>4 DEF GateClears, Goes
  <2>2. \A o \in 1 .. count : Frozen(o)
    BY <1>0, <1>1, <2>1, AcceptedSent DEF Sent, Acked
  <2> QED
    BY <1>0, <1>a, <2>1, <2>2, StillMoves
<1>5. CASE GateReads \/ GateDecides
  <2>1. /\ worker.pc \in {"cleared", "fresh"} /\ worker'.plan = worker.plan
        /\ worker'.pc = "valid" => position = worker.plan.base
        /\ UNCHANGED <<orders, count, accepted, booked, position>>
    BY <1>0, <1>5 DEF GateReads, GateDecides, Goes
  <2> QED
    BY <1>0, <1>a, <2>1, StillMoves
<1>6. CASE Sends
  <2>1. /\ worker.pc = "valid" /\ worker'.pc = "sent" /\ count' = count + 1
        /\ count + 1 \in Orders
        /\ orders' = [orders EXCEPT ![count + 1] = [plan |-> worker.plan, state |-> "sent"]]
        /\ UNCHANGED <<accepted, booked, position>>
    BY <1>0, <1>6 DEF Sends, Orders
  <2>2. position = worker.plan.base /\ \A o \in 1 .. count : Frozen(o)
    BY <1>0, <2>1 DEF OneOrderMoves
  <2>3. \A o \in 1 .. count : Frozen(o)'
    BY <1>0, <1>a, <2>2, AcceptedSent, FrozenStays
  <2>4. orders'[count + 1].plan = worker.plan
    BY <1>0, <2>1
  <2>5. \A o \in accepted : o \in 1 .. count
    BY <1>0, AcceptedSent
  <2>6. \A o \in accepted' : o # count'
    BY <1>0, <2>1, <2>5
  <2>7. \A o \in 1 .. count' - 1 : Frozen(o)'
    BY <1>0, <2>1, <2>3
  <2>8. OneOrderMoves'
    BY <2>1, <2>2, <2>4, <2>6, <2>7 DEF OneOrderMoves
  <2> QED
    BY <1>0, <2>1, <2>8
<1>7. CASE AckSaved \/ AckLost
  <2>1. /\ worker.pc = "sent" /\ count \in Orders /\ orders[count].state = "sent"
        /\ worker'.pc \notin {"cleared", "fresh", "valid"}
        /\ UNCHANGED <<count, accepted, booked, position>>
    BY <1>0, <1>7 DEF AckSaved, AckLost, Goes, OrdersFollow
  <2>2. PICK answer \in {"acked", "unknown"} :
          orders' = [orders EXCEPT ![count].state = answer]
    BY <1>7 DEF AckSaved, AckLost
  <2>3. \A o \in Orders : orders'[o].state = IF o = count THEN answer ELSE orders[o].state
    BY <1>0, <2>1, <2>2
  <2> QED
    BY <1>0, <1>a, <2>1, <2>3, StillMoves
<1>8. CASE CycleDrops \/ OrderListed \/ AckRecordFails
  <2>1. /\ worker'.pc \notin {"cleared", "fresh", "valid"}
        /\ UNCHANGED <<orders, count, accepted, booked, position>>
    BY <1>0, <1>8 DEF CycleDrops, OrderListed, AckRecordFails, Goes
  <2> QED
    BY <1>0, <1>a, <2>1, StillMoves
<1>9. CASE AckRecorded
  <2>1. /\ worker.pc = "listed" /\ worker'.pc = "idle" /\ count \in Orders
        /\ orders[count].state = "acked"
        /\ UNCHANGED <<orders, count, ends, tally>>
    BY <1>0, <1>9 DEF AckRecorded, Goes, OrdersFollow
  <2>2. CASE count \in accepted
    <3>1. UNCHANGED <<orders, count, accepted, booked, position>>
      BY <1>9, <2>2 DEF AckRecorded
    <3> QED
      BY <1>0, <1>a, <2>1, <3>1, StillMoves
  <2>3. CASE count \notin accepted
    <3>1. Accepts(count) /\ count \in Acked \ accepted
      BY <1>9, <2>1, <2>3 DEF AckRecorded, Acked
    <3> QED
      BY <1>0, <1>a, <2>1, <3>1, AcceptMoves
  <2> QED
    BY <2>2, <2>3
<1> QED
  BY <1>2, <1>3, <1>4, <1>5, <1>6, <1>7, <1>8, <1>9 DEF CycleStep

\* A poll, a sync, the broker, an eviction or a restart.
LEMMA OtherMoves ==
    ASSUME Polled, PollStep \/ (\E o \in Orders : OrderStep(o)) \/ Restart \/ UNCHANGED vars,
           noticed' = noticed, PolledOnly
    PROVE  OneOrderMoves' /\ \A s \in Sleeves : position'[s] >= 0
<1> USE DEF market, memory, saved, ledger
<1>b. TypeOK
  BY DEF Polled
<1>c. /\ count \in 0 .. MaxOrders /\ MaxOrders \in Nat
      /\ worker.pc \in {"sent", "saved", "listed"} => count > 0
  BY <1>b, SleevesTyped DEF TypeOK
<1>0. /\ TypeOK /\ OrdersFollow /\ OneOrderMoves
      /\ orders \in [Orders -> [plan : Plans,
                                state : {"none", "sent", "acked", "unknown"}]]
      /\ worker.pc \in {"sent", "saved", "listed"} => count \in Orders
  <2>1. worker.pc \in {"sent", "saved", "listed"} => count \in Orders
    BY <1>c DEF Orders
  <2> QED
    BY <1>b, <1>c, <2>1 DEF Polled, TypeOK
<1>a. [Next]_vars
  BY Zenon DEF Next
<1>1. CASE PollStep \/ UNCHANGED vars
  <2>1. UNCHANGED <<worker, orders, count, accepted, booked, position>>
    BY <1>1 DEF PollStep, PollReads, PollApplies, PollRecords, PollFails, vars
  <2> QED
    BY <1>0, <1>a, <2>1, StillMoves DEF OneOrderMoves
<1>2. ASSUME NEW o \in Orders, OrderStep(o)
      PROVE  OneOrderMoves' /\ \A s \in Sleeves : position'[s] >= 0
  <2>1. CASE SyncRecovers(o)
    <3>1. /\ Accepts(o) /\ o \in Acked \ accepted
          /\ UNCHANGED <<worker, orders, count, ends, tally>>
      BY <2>1 DEF SyncRecovers
    <3> QED
      BY <1>0, <1>a, <3>1, AcceptMoves
  <2>2. CASE SyncBooks(o)
    BY <1>0, <1>a, <2>2, BookMoves
  <2>3. CASE BrokerFills(o) \/ BrokerCancels(o) \/ NoticeSaved(o) \/ ListEvicts(o)
    <3>1. UNCHANGED <<worker, orders, count, accepted, booked, position>>
      BY <2>3 DEF BrokerFills, BrokerCancels, NoticeSaved, ListEvicts
    <3> QED
      BY <1>0, <1>a, <3>1, StillMoves DEF OneOrderMoves
  <2> QED
    BY <1>2, <2>1, <2>2, <2>3 DEF OrderStep
<1>3. CASE Restart
  <2>1. /\ worker'.pc = "idle" /\ UNCHANGED <<count, accepted, booked, position>>
        /\ orders' = IF worker.pc = "sent"
                       THEN [orders EXCEPT ![count].state = "unknown"] ELSE orders
    BY <1>3 DEF Restart
  <2>2. \A o \in Orders : orders'[o].state \in {orders[o].state, "unknown"}
    <3>1. CASE worker.pc = "sent"
      BY <1>0, <2>1, <3>1
    <3>2. CASE worker.pc # "sent"
      BY <2>1, <3>2
    <3> QED
      BY <3>1, <3>2
  <2> QED
    BY <1>0, <1>a, <2>1, <2>2, StillMoves
<1> QED
  BY <1>1, <1>2, <1>3

-----------------------------------------------------------------------------
(* The theorems.                                                           *)

\* The invariant holds when the program starts.
LEMMA InvariantInit == Init => SleeveInvariant
<1> SUFFICES ASSUME Init PROVE SleeveInvariant
  OBVIOUS
<1>1. TypeOK
  BY TypeInit
<1>2. /\ worker.pc = "idle" /\ count = 0 /\ accepted = {} /\ ends = {} /\ terminal = {}
      /\ poll.pc = "idle"
      /\ \A o \in Orders : /\ orders[o].state = "none" /\ booked[o] = 0 /\ tally[o] = 0
                           /\ o > 0
      /\ \A s \in Sleeves : position[s] = 0
  BY PollTyped DEF Init, Nothing, Orders
<1> QED
  BY <1>1, <1>2 DEF SleeveInvariant, BooksFollow, OrdersFollow, EndsAreFinal, PlansSound,
     OneOrderMoves, NoSleeveShort, Acked

\* Every step preserves the invariant.
LEMMA InvariantStep == SleeveInvariant /\ [Next]_vars => SleeveInvariant'
<1> SUFFICES ASSUME SleeveInvariant, [Next]_vars PROVE SleeveInvariant'
  OBVIOUS
<1>1. TypeOK' /\ BooksFollow'
  BY TypePreserved, BooksPreserved DEF SleeveInvariant
<1>2. ASSUME PolledOnly'
      PROVE  (OrdersFollow /\ EndsAreFinal /\ PlansSound /\ OneOrderMoves /\ NoSleeveShort)'
  <2>1. PolledOnly /\ noticed' = noticed
    BY <1>2, NoticesStay
  <2>2. Polled
    BY <2>1 DEF SleeveInvariant, NoSleeveShort, Polled
  <2>3. OrdersFollow'
    BY <2>2, OrdersFollowCycle, OrdersFollowOthers DEF Polled, Next
  <2>4. EndsAreFinal'
    BY <2>1, <2>2, EndsPreserved DEF Polled
  <2>5. PlansSound'
    BY <2>2, PlansPreserved
  <2>6. OneOrderMoves' /\ \A s \in Sleeves : position'[s] >= 0
    BY <2>1, <2>2, CycleMoves, OtherMoves DEF Next
  <2> QED
    BY <2>3, <2>4, <2>5, <2>6 DEF NoSleeveShort
<1> QED
  BY <1>1, <1>2 DEF SleeveInvariant

\* Only the last order can still move the sleeves, it moves them from where its
\* plan found them to where its plan wants them, and an order that is over
\* moves them never again (SleeveLedger's SleeveInvariant).
THEOREM Invariant == Spec => []SleeveInvariant
<1> QED
  BY InvariantInit, InvariantStep, PTL DEF Spec

\* As long as fills reach the ledger by polls alone no sleeve ever sells what it
\* does not own, whatever is lost, evicted, recorded late or forgotten by a
\* restart: sleeve_holdings never raises (portfolio_execution.py).
THEOREM NoShort == Spec => []NoSleeveShort
<1>1. SleeveInvariant => NoSleeveShort
  BY DEF SleeveInvariant, NoSleeveShort
<1> QED
  BY <1>1, Invariant, PTL

=============================================================================
