----------------------- MODULE OrderCoordinationProofs -----------------------
(***************************************************************************)
(* Proofs about OrderCoordination.  An order is sent once, by a session    *)
(* that owns the symbol; and a symbol changes hands with nothing of the    *)
(* session open, on its way or still owned, however many threads send and  *)
(* retire and wherever the program ends.                                   *)
(***************************************************************************)
EXTENDS OrderCoordination, FiniteSetTheorems, TLAPS

-----------------------------------------------------------------------------
(* The shape of the state.                                                 *)

SenderType == [pc : SenderPlaces, order : Orders \cup {NoOne}, prior : BOOLEAN, result : Results]
RetirerType == [pc : RetirerPlaces, owner : Sessions \cup {NoOne}, listed : [Orders -> States],
                left : SUBSET Symbols, symbol : Symbols \cup {NoOne},
                seen : [Orders -> Statuses \cup {"unread"}]]

\* A thread that goes on keeps all but its place.
LEMMA SenderMoves ==
    ASSUME TypeOK, NEW t \in Senders, NEW place \in SenderPlaces, Moves(t, place)
    PROVE  /\ sender' \in [Senders -> SenderType]
           /\ sender'[t].pc = place
           /\ \A u \in Senders : /\ sender'[u].order = sender[u].order
                                 /\ sender'[u].result = sender[u].result
                                 /\ u # t => sender'[u] = sender[u]
BY DEF TypeOK, SenderType, Moves

\* A thread that is done forgets its order.
LEMMA SenderLeaves ==
    ASSUME TypeOK, NEW t \in Senders, Leaves(t)
    PROVE  /\ sender' \in [Senders -> SenderType]
           /\ sender'[t].pc = "idle"
           /\ \A u \in Senders : u # t => sender'[u] = sender[u]
BY DEF TypeOK, SenderType, Leaves, Idle, SenderPlaces, Results

\* A retirement that goes on keeps all but its place.
LEMMA RetirerGoes ==
    ASSUME TypeOK, NEW r \in Retirers, NEW place \in RetirerPlaces, Goes(r, place)
    PROVE  /\ retirer' \in [Retirers -> RetirerType]
           /\ retirer'[r].pc = place
           /\ \A q \in Retirers : /\ retirer'[q].listed = retirer[q].listed
                                  /\ retirer'[q].seen = retirer[q].seen
                                  /\ retirer'[q].owner = retirer[q].owner
                                  /\ retirer'[q].symbol = retirer[q].symbol
                                  /\ q # r => retirer'[q] = retirer[q]
<1>1. retirer \in [Retirers -> RetirerType]
  BY DEF TypeOK, RetirerType
<1> DEFINE new == [retirer[r] EXCEPT !.pc = place]
<1>2. retirer' = [retirer EXCEPT ![r] = new]
  BY DEF Goes
<1>3. /\ new \in RetirerType
      /\ new.pc = place
      /\ new.listed = retirer[r].listed /\ new.seen = retirer[r].seen
      /\ new.owner = retirer[r].owner /\ new.symbol = retirer[r].symbol
  <2>1. retirer[r] \in RetirerType
    BY <1>1
  <2> QED
    BY <2>1 DEF RetirerType
<1> HIDE DEF new
<1>4. retirer' \in [Retirers -> RetirerType]
  BY <1>1, <1>2, <1>3
<1>5. retirer'[r] = new /\ \A q \in Retirers : q # r => retirer'[q] = retirer[q]
  BY <1>1, <1>2
<1> QED
  BY <1>3, <1>4, <1>5

\* A symbol that is done is forgotten.
LEMMA RetirerFinishes ==
    ASSUME TypeOK, NEW r \in Retirers, Finishes(r)
    PROVE  /\ retirer' \in [Retirers -> RetirerType]
           /\ retirer'[r].pc = "next" /\ retirer'[r].seen = Unread
           /\ retirer'[r].listed = retirer[r].listed
           /\ \A q \in Retirers : q # r => retirer'[q] = retirer[q]
BY DEF TypeOK, RetirerType, RetirerPlaces, Finishes, Unread

\* What a retirement noted of one order leaves the others as they were.
LEMMA RetirerNotes ==
    ASSUME TypeOK, NEW r \in Retirers, NEW o \in Orders, NEW status \in Statuses,
           Notes(r, o, status)
    PROVE  /\ retirer' \in [Retirers -> RetirerType]
           /\ retirer'[r].seen = [retirer[r].seen EXCEPT ![o] = status]
           /\ retirer'[r].pc = retirer[r].pc
           /\ retirer'[r].listed = retirer[r].listed
           /\ \A q \in Retirers : q # r => retirer'[q] = retirer[q]
<1> DEFINE seen == [retirer[r].seen EXCEPT ![o] = status]
<1>1. retirer \in [Retirers -> RetirerType]
  BY DEF TypeOK, RetirerType
<1>2. seen \in [Orders -> Statuses \cup {"unread"}]
  BY <1>1 DEF RetirerType
<1>3. retirer' = [retirer EXCEPT ![r] =
                    [pc |-> retirer[r].pc, owner |-> retirer[r].owner,
                     listed |-> retirer[r].listed, left |-> retirer[r].left,
                     symbol |-> retirer[r].symbol, seen |-> seen]]
  BY DEF Notes
<1> HIDE DEF seen
<1>4. retirer' \in [Retirers -> RetirerType]
  BY <1>1, <1>2, <1>3 DEF RetirerType
<1> QED
  BY <1>1, <1>3, <1>4 DEF seen

\* A thread that does nothing is of its shape.
LEMMA AwayTyped == Idle \in SenderType /\ Away \in RetirerType
BY DEF Idle, Away, Unread, SenderType, RetirerType, SenderPlaces, RetirerPlaces, States,
   Results, Statuses

\* The first state is of its shape.
LEMMA TypeInit == Init => TypeOK
BY AwayTyped DEF Init, TypeOK, SenderType, RetirerType, States, Results, Fates

\* What one thread does keeps the shape (LiveOrderCoordination.dispatch).
LEMMA SenderTyped ==
    ASSUME TypeOK, NEW t \in Senders, SenderStep(t), SendersAgree
    PROVE  TypeOK'
<1> USE DEF core, journal, market, At
<1>0. /\ sender \in [Senders -> SenderType]
      /\ ~At(t, "idle") => Order(t) \in Orders
      /\ sender[t].result \in Results
  BY DEF TypeOK, SenderType, SendersAgree
<1>1. ASSUME NEW o \in Orders, SenderStarts(t, o) PROVE TypeOK'
  <2> DEFINE new == [pc |-> "started", order |-> o,
                     prior |-> scope[SymbolOf[o]] = OwnerOf[o], result |-> "UNKNOWN"]
  <2>1. new \in SenderType
    BY DEF SenderType, SenderPlaces, Results
  <2>2. sender' = [sender EXCEPT ![t] = new]
    BY <1>1 DEF SenderStarts
  <2> HIDE DEF new
  <2>3. sender' \in [Senders -> SenderType]
    BY <1>0, <2>1, <2>2
  <2> QED
    BY <1>1, <2>3 DEF SenderStarts, TypeOK, SenderType
<1>2. CASE SenderClaims(t)
  <2>0. Order(t) \in Orders
    BY <1>0, <1>2 DEF SenderClaims
  <2>1. OwnerAt(t) \in Owners /\ SymbolAt(t) \in Symbols
    BY <2>0, OrdersTyped DEF OwnerAt, SymbolAt, Owners
  <2>2. sender' \in [Senders -> SenderType]
    BY <1>2, SenderMoves DEF SenderClaims, SenderPlaces
  <2>3. scope' \in [Symbols -> Owners \cup {NoOne}]
    BY <1>2, <2>1 DEF SenderClaims, Claims, TypeOK
  <2> QED
    BY <1>2, <2>2, <2>3 DEF SenderClaims, Claims, TypeOK, SenderType
<1>3. CASE SenderClaimFails(t) \/ SenderRegisterFails(t) \/ SenderBeginFails(t)
           \/ SenderEndsUnrecorded(t)
  BY <1>3, SenderLeaves DEF SenderClaimFails, SenderRegisterFails, SenderBeginFails,
     SenderEndsUnrecorded, TypeOK, SenderType
<1>4. CASE SenderReserves(t)
  <2>1. sender' \in [Senders -> SenderType]
    BY <1>4, SenderMoves DEF SenderReserves, SenderPlaces
  <2>2. intent' \in [Orders -> States]
    BY <1>4 DEF SenderReserves, Reserves, TypeOK, States
  <2> QED
    BY <1>4, <2>1, <2>2 DEF SenderReserves, Reserves, TypeOK, SenderType
<1>5. CASE SenderGivesUp(t)
  <2>1. sender' \in [Senders -> SenderType]
    BY <1>5, SenderLeaves DEF SenderGivesUp
  <2>2. scope' \in [Symbols -> Owners \cup {NoOne}] /\ UNCHANGED <<intent, reconciled>>
    BY <1>5 DEF SenderGivesUp, Releases, TypeOK
  <2> QED
    BY <1>5, <2>1, <2>2 DEF SenderGivesUp, TypeOK, SenderType
<1>6. CASE SenderRegisters(t)
  <2>1. sender' \in [Senders -> SenderType]
    BY <1>6, SenderMoves DEF SenderRegisters, SenderPlaces
  <2> QED
    BY <1>0, <1>6, <2>1 DEF SenderRegisters, TypeOK, SenderType
<1>7. CASE SenderBegins(t)
  <2>1. sender' \in [Senders -> SenderType]
    BY <1>7, SenderMoves DEF SenderBegins, SenderPlaces
  <2>2. intent' \in [Orders -> States]
    BY <1>7 DEF SenderBegins, TypeOK, States
  <2> QED
    BY <1>7, <2>1, <2>2 DEF SenderBegins, TypeOK, SenderType
<1>8. CASE SenderPosts(t)
  <2>1. sender' \in [Senders -> SenderType]
    BY <1>8, SenderMoves DEF SenderPosts, SenderPlaces
  <2>2. posts' \in [Orders -> Nat] /\ wire' \subseteq Orders
    <3>1. Order(t) \in Orders
      BY <1>0, <1>8 DEF SenderPosts
    <3> QED
      BY <3>1, <1>8 DEF SenderPosts, TypeOK
  <2> QED
    BY <1>8, <2>1, <2>2 DEF SenderPosts, TypeOK, SenderType
<1>9. CASE SenderHears(t)
  <2> PICK result \in Results :
        sender' = [sender EXCEPT ![t] = [pc |-> "answered", order |-> sender[t].order,
                                         prior |-> sender[t].prior, result |-> result]]
    BY <1>9 DEF SenderHears
  <2> DEFINE new == [pc |-> "answered", order |-> sender[t].order,
                     prior |-> sender[t].prior, result |-> result]
  <2>0. new \in SenderType
    BY <1>0 DEF SenderType, SenderPlaces
  <2> HIDE DEF new
  <2>1. sender' \in [Senders -> SenderType]
    BY <1>0, <2>0 DEF new
  <2> QED
    BY <1>9, <2>1 DEF SenderHears, TypeOK, SenderType
<1>10. CASE SenderRecords(t)
  <2>1. sender' \in [Senders -> SenderType]
    BY <1>10, SenderMoves DEF SenderRecords, SenderPlaces
  <2>2. intent' \in [Orders -> States]
    BY <1>0, <1>10 DEF SenderRecords, TypeOK, States, Results
  <2> QED
    BY <1>10, <2>1, <2>2 DEF SenderRecords, TypeOK, SenderType
<1>11. CASE SenderEnds(t)
  <2>1. sender' \in [Senders -> SenderType]
    BY <1>11, SenderLeaves DEF SenderEnds
  <2>2. response' \in [Orders -> Results \cup {"none"}]
    BY <1>0, <1>11 DEF SenderEnds, TypeOK
  <2> QED
    BY <1>11, <2>1, <2>2 DEF SenderEnds, TypeOK, SenderType
<1> QED
  BY <1>1, <1>2, <1>3, <1>4, <1>5, <1>6, <1>7, <1>8, <1>9, <1>10, <1>11 DEF SenderStep

\* A claim or a release changes who owns a symbol, and nothing else.
LEMMA ClaimsTyped ==
    ASSUME TypeOK, NEW p \in Owners \cup {NoOne}, NEW s, Claims(p, s) \/ Releases(p, s)
    PROVE  /\ scope' \in [Symbols -> Owners \cup {NoOne}]
           /\ UNCHANGED <<intent, reconciled>>
BY DEF TypeOK, Claims, Releases

\* What one retirement does keeps the shape (reconcile_stopped_owner).
LEMMA RetirerTyped ==
    ASSUME TypeOK, NEW r \in Retirers, RetireStep(r)
    PROVE  TypeOK'
<1> USE DEF core, journal, market
<1>0. /\ retirer \in [Retirers -> RetirerType]
      /\ retirer[r].owner \in Owners \cup {NoOne}
      /\ intent \in [Orders -> States]
  BY DEF TypeOK, RetirerType, Owners
<1>1. ASSUME NEW p \in Sessions, RetireStarts(r, p) PROVE TypeOK'
  <2> DEFINE new == [pc |-> "next", owner |-> p, listed |-> intent,
                     left |-> {s \in Symbols : scope[s] = p}, symbol |-> NoOne, seen |-> Unread]
  <2>0. Unread \in [Orders -> Statuses \cup {"unread"}]
    BY DEF Unread
  <2>1. new \in RetirerType
    BY <1>0, <2>0 DEF RetirerType, RetirerPlaces
  <2>2. retirer' = [retirer EXCEPT ![r] = new]
    BY <1>1 DEF RetireStarts
  <2> HIDE DEF new
  <2>3. retirer' \in [Retirers -> RetirerType]
    BY <1>0, <2>1, <2>2
  <2> QED
    BY <1>1, <2>3 DEF RetireStarts, TypeOK, RetirerType
<1>2. ASSUME NEW s \in Symbols, RetireFinds(r, s) PROVE TypeOK'
  <2> DEFINE new == [pc |-> "found", owner |-> retirer[r].owner, listed |-> retirer[r].listed,
                     left |-> retirer[r].left, symbol |-> s, seen |-> Unread]
  <2>0. Unread \in [Orders -> Statuses \cup {"unread"}]
    BY DEF Unread
  <2>1. new \in RetirerType
    BY <1>0, <2>0 DEF RetirerType, RetirerPlaces
  <2>2. retirer' = [retirer EXCEPT ![r] = new]
    BY <1>2 DEF RetireFinds
  <2> HIDE DEF new
  <2>3. retirer' \in [Retirers -> RetirerType]
    BY <1>0, <2>1, <2>2
  <2> QED
    BY <1>2, <2>3 DEF RetireFinds, TypeOK, RetirerType
<1>3. CASE RetireConfirms(r) \/ RetireConfirmsAgain(r)
  <2>1. retirer' \in [Retirers -> RetirerType]
    BY <1>3, RetirerGoes DEF RetireConfirms, RetireConfirmsAgain, RetirerPlaces
  <2>2. scope' \in [Symbols -> Owners \cup {NoOne}] /\ UNCHANGED <<intent, reconciled>>
    BY <1>0, <1>3, ClaimsTyped DEF RetireConfirms, RetireConfirmsAgain
  <2> QED
    BY <1>3, <2>1, <2>2 DEF RetireConfirms, RetireConfirmsAgain, TypeOK, RetirerType
<1>4. ASSUME NEW o \in Orders, RetireReads(r, o) PROVE TypeOK'
  <2>1. PICK status \in Statuses : Notes(r, o, status)
    BY <1>4 DEF RetireReads
  <2>2. retirer' \in [Retirers -> RetirerType]
    BY <2>1, RetirerNotes
  <2> QED
    BY <1>4, <2>2 DEF RetireReads, TypeOK, RetirerType
<1>5. ASSUME NEW o \in Orders, RetireSettles(r, o) PROVE TypeOK'
  BY <1>5 DEF RetireSettles, Settles, TypeOK, RetirerType
<1>6. CASE RetireFindsFlat(r) \/ RetireFindsAgain(r)
  <2>1. retirer' \in [Retirers -> RetirerType]
    BY <1>6, RetirerGoes DEF RetireFindsFlat, RetireFindsAgain, RetirerPlaces
  <2> QED
    BY <1>6, <2>1 DEF RetireFindsFlat, RetireFindsAgain, TypeOK, RetirerType
<1>7. CASE RetireReleases(r)
  <2>1. retirer' \in [Retirers -> RetirerType]
    BY <1>7, RetirerFinishes DEF RetireReleases
  <2>2. scope' \in [Symbols -> Owners \cup {NoOne}] /\ UNCHANGED <<intent, reconciled>>
    BY <1>0, <1>7, ClaimsTyped DEF RetireReleases
  <2> QED
    BY <1>7, <2>1, <2>2 DEF RetireReleases, TypeOK, RetirerType
<1>8. CASE RetireBlocked(r)
  <2>1. retirer' \in [Retirers -> RetirerType]
    BY <1>8, RetirerFinishes DEF RetireBlocked
  <2> QED
    BY <1>8, <2>1 DEF RetireBlocked, TypeOK, RetirerType
<1>9. CASE RetireEnds(r)
  <2>1. retirer' \in [Retirers -> RetirerType]
    BY <1>0, <1>9, AwayTyped DEF RetireEnds
  <2> QED
    BY <1>9, <2>1 DEF RetireEnds, TypeOK, RetirerType
<1> QED
  BY <1>1, <1>2, <1>3, <1>4, <1>5, <1>6, <1>7, <1>8, <1>9 DEF RetireStep

\* Every step leaves the state of its shape.
LEMMA TypePreserved ==
    ASSUME TypeOK, SendersAgree, [Next]_vars
    PROVE  TypeOK'
<1> USE DEF core, journal, market
<1>1. ASSUME NEW t \in Senders, SenderStep(t) PROVE TypeOK'
  BY <1>1, SenderTyped
<1>2. ASSUME NEW r \in Retirers, RetireStep(r) PROVE TypeOK'
  BY <1>2, RetirerTyped
<1>3. ASSUME NEW p \in Sessions, SessionStops(p) PROVE TypeOK'
  BY <1>3 DEF SessionStops, TypeOK
<1>4. ASSUME NEW p \in Others, NEW s \in Symbols, OtherClaims(p, s) \/ OtherLeaves(p, s)
      PROVE  TypeOK'
  <2>1. scope' \in [Symbols -> Owners \cup {NoOne}] /\ UNCHANGED <<intent, reconciled>>
    BY <1>4, ClaimsTyped DEF OtherClaims, OtherLeaves, Owners
  <2> QED
    BY <1>4, <2>1 DEF OtherClaims, OtherLeaves, TypeOK
<1>5. ASSUME NEW o \in Orders, BrokerTakes(o) \/ BrokerEnds(o) PROVE TypeOK'
  <2>1. broker' \in [Orders -> Fates] /\ wire' \subseteq Orders
    BY <1>5 DEF BrokerTakes, BrokerEnds, TypeOK, Fates
  <2> QED
    BY <1>5, <2>1 DEF BrokerTakes, BrokerEnds, TypeOK
<1>6. CASE Crash
  BY <1>6, AwayTyped DEF Crash, TypeOK, SenderType, RetirerType
<1>7. CASE UNCHANGED vars
  BY <1>7 DEF vars, TypeOK
<1> QED
  BY <1>1, <1>2, <1>3, <1>4, <1>5, <1>6, <1>7 DEF Next

-----------------------------------------------------------------------------
(* Orders.                                                                 *)

\* The steps that change what is known of an order.
OrderStep ==
    \/ \E t \in Senders : \/ SenderReserves(t) \/ SenderBegins(t) \/ SenderPosts(t)
                          \/ SenderRecords(t) \/ SenderEnds(t)
    \/ \E o \in Orders : BrokerTakes(o) \/ BrokerEnds(o)

\* Orders are moved by the steps of an order alone.
LEMMA OrderSteps ==
    ASSUME [Next]_vars
    PROVE  OrderStep \/ UNCHANGED <<intent, posts, wire, broker, response>>
<1> USE DEF core, journal, market
<1>1. ASSUME NEW t \in Senders, SenderStep(t)
      PROVE  OrderStep \/ UNCHANGED <<intent, posts, wire, broker, response>>
  BY <1>1 DEF SenderStep, OrderStep, SenderStarts, SenderClaims, Claims, SenderClaimFails,
     SenderGivesUp, Releases, SenderRegisters, SenderRegisterFails, SenderBeginFails,
     SenderHears, SenderEndsUnrecorded
<1>2. ASSUME NEW r \in Retirers, RetireStep(r)
      PROVE  UNCHANGED <<intent, posts, wire, broker, response>>
  BY <1>2 DEF RetireStep, RetireStarts, RetireFinds, RetireConfirms, Claims, RetireReads,
     RetireSettles, Settles, RetireFindsFlat, RetireFindsAgain, RetireConfirmsAgain,
     RetireReleases, Releases, RetireBlocked, RetireEnds
<1>3. ASSUME NEW p \in Others, NEW s \in Symbols, OtherClaims(p, s) \/ OtherLeaves(p, s)
      PROVE  UNCHANGED <<intent, posts, wire, broker, response>>
  BY <1>3 DEF OtherClaims, OtherLeaves, Claims, Releases
<1> QED
  BY <1>1, <1>2, <1>3 DEF Next, vars, SessionStops, Crash, OrderStep

\* The sender's order is one, wherever the sender is.
LEMMA SenderOrder ==
    ASSUME SendersAgree, NEW t \in Senders, NEW place, At(t, place), place # "idle"
    PROVE  Order(t) \in Orders
BY DEF SendersAgree, At

\* No step posts an order a second time, or leaves a post off the record.
LEMMA SentOnceStep ==
    ASSUME TypeOK, SentOnce, SendersAgree, [Next]_vars
    PROVE  SentOnce'
<1> USE DEF core, journal, market
<1>0. /\ intent \in [Orders -> States] /\ broker \in [Orders -> Fates]
      /\ posts \in [Orders -> Nat] /\ response \in [Orders -> Results \cup {"none"}]
  BY DEF TypeOK
<1>1. ASSUME NEW t \in Senders, SenderReserves(t) PROVE SentOnce'
  BY <1>0, <1>1 DEF SenderReserves, Reserves, SentOnce, Sent
<1>2. ASSUME NEW t \in Senders, SenderBegins(t) PROVE SentOnce'
  BY <1>0, <1>2 DEF SenderBegins, FirstSubmission, SentOnce, Sent
<1>3. ASSUME NEW t \in Senders, SenderPosts(t) PROVE SentOnce'
  <2>1. /\ posts[Order(t)] = 0 /\ intent[Order(t)] = "SUBMITTED" /\ Order(t) \in Orders
        /\ posts' = [posts EXCEPT ![Order(t)] = @ + 1] /\ wire' = wire \cup {Order(t)}
        /\ UNCHANGED <<intent, broker, response>>
    BY <1>3, SenderOrder DEF SenderPosts, SendersAgree, At
  <2>2. posts' = [posts EXCEPT ![Order(t)] = 1]
    BY <1>0, <2>1
  <2> QED
    BY <1>0, <2>1, <2>2 DEF SentOnce, Sent
<1>4. ASSUME NEW t \in Senders, SenderRecords(t) PROVE SentOnce'
  <2>1. sender[t].result \in Results
    BY DEF TypeOK
  <2> QED
    BY <1>0, <1>4, <2>1 DEF SenderRecords, SentOnce, Sent, Results
<1>5. ASSUME NEW t \in Senders, SenderEnds(t) PROVE SentOnce'
  <2>1. sender[t].result = "REJECTED" => broker[Order(t)] = "refused"
    BY <1>5 DEF SenderEnds, SendersAgree, At
  <2> QED
    BY <1>0, <1>5, <2>1 DEF SenderEnds, SentOnce
<1>6. ASSUME NEW o \in Orders, BrokerTakes(o) PROVE SentOnce'
  <2>1. PICK fate \in {"open", "refused", "none"} : broker' = [broker EXCEPT ![o] = fate]
    BY <1>6 DEF BrokerTakes
  <2>2. /\ o \in wire /\ wire' = wire \ {o} /\ broker[o] = "none" /\ posts[o] # 0
        /\ UNCHANGED <<intent, posts, response>>
    BY <1>6 DEF BrokerTakes, SentOnce
  <2> QED
    BY <1>0, <2>1, <2>2 DEF SentOnce
<1>7. ASSUME NEW o \in Orders, BrokerEnds(o) PROVE SentOnce'
  <2>1. PICK fate \in {"filled", "canceled"} : broker' = [broker EXCEPT ![o] = fate]
    BY <1>7 DEF BrokerEnds
  <2>2. broker[o] = "open" /\ UNCHANGED <<intent, posts, wire, response>>
    BY <1>7 DEF BrokerEnds
  <2> QED
    BY <1>0, <2>1, <2>2 DEF SentOnce
<1>8. CASE UNCHANGED <<intent, posts, wire, broker, response>>
  BY <1>8 DEF SentOnce
<1> QED
  BY <1>1, <1>2, <1>3, <1>4, <1>5, <1>6, <1>7, <1>8, OrderSteps DEF OrderStep

\* An order goes on: what was sent stays sent, and what ended stays as it ended.
LEMMA OrderGoesOn ==
    ASSUME TypeOK, SentOnce, SendersAgree, [Next]_vars, NEW o \in Orders
    PROVE  /\ intent[o] # "none" => intent'[o] # "none"
           /\ Sent(intent[o]) => Sent(intent'[o])
           /\ Ended(o) => broker'[o] = broker[o]
<1> USE DEF core, journal, market
<1>0. /\ intent \in [Orders -> States] /\ broker \in [Orders -> Fates]
  BY DEF TypeOK
<1>1. ASSUME NEW t \in Senders,
             SenderReserves(t) \/ SenderBegins(t) \/ SenderPosts(t) \/ SenderEnds(t)
      PROVE  /\ intent[o] # "none" => intent'[o] # "none"
             /\ Sent(intent[o]) => Sent(intent'[o])
             /\ broker' = broker
  BY <1>0, <1>1 DEF SenderReserves, Reserves, SenderBegins, SenderPosts, SenderEnds, Sent
<1>2. ASSUME NEW t \in Senders, SenderRecords(t)
      PROVE  /\ intent[o] # "none" => intent'[o] # "none"
             /\ Sent(intent[o]) => Sent(intent'[o])
             /\ broker' = broker
  <2>1. sender[t].result \in Results
    BY DEF TypeOK
  <2> QED
    BY <1>0, <1>2, <2>1 DEF SenderRecords, Sent, Results
<1>3. ASSUME NEW p \in Orders, BrokerTakes(p) \/ BrokerEnds(p)
      PROVE  /\ intent' = intent
             /\ Ended(o) => broker'[o] = broker[o]
  BY <1>0, <1>3 DEF BrokerTakes, BrokerEnds, SentOnce, Ended
<1> QED
  BY <1>1, <1>2, <1>3, OrderSteps DEF OrderStep

-----------------------------------------------------------------------------
(* Threads that send.                                                      *)

\* A thread that stays where it is agrees as long as its order is left alone.
LEMMA SenderKept ==
    ASSUME SendersAgree, NEW t \in Senders, sender'[t] = sender[t],
           At(t, "begun") => /\ intent'[Order(t)] = intent[Order(t)]
                             /\ Order(t) \notin reconciled'
                             /\ posts'[Order(t)] = posts[Order(t)],
           posts[Order(t)] = 1 => posts'[Order(t)] = 1,
           broker[Order(t)] = "refused" => broker'[Order(t)] = "refused"
    PROVE  /\ sender'[t].pc # "idle" => sender'[t].order \in Orders
           /\ sender'[t].pc = "begun" =>
                /\ intent'[sender'[t].order] = "SUBMITTED"
                /\ sender'[t].order \notin reconciled'
                /\ posts'[sender'[t].order] = 0
           /\ sender'[t].pc \in {"posted", "answered", "recorded"} =>
                posts'[sender'[t].order] = 1
           /\ (sender'[t].pc \in {"answered", "recorded"} /\ sender'[t].result = "REJECTED") =>
                broker'[sender'[t].order] = "refused"
BY DEF SendersAgree, At, Order

\* A sending thread's own step (LiveOrderCoordination.dispatch).
LEMMA SendersAgreeSender ==
    ASSUME TypeOK, SentOnce, SendersAgree, NEW t \in Senders, SenderStep(t)
    PROVE  SendersAgree'
<1> USE DEF core, journal, market
<1> DEFINE Fits(u) ==
             /\ sender'[u].pc # "idle" => sender'[u].order \in Orders
             /\ sender'[u].pc = "begun" =>
                  /\ intent'[sender'[u].order] = "SUBMITTED"
                  /\ sender'[u].order \notin reconciled'
                  /\ posts'[sender'[u].order] = 0
             /\ sender'[u].pc \in {"posted", "answered", "recorded"} =>
                  posts'[sender'[u].order] = 1
             /\ (sender'[u].pc \in {"answered", "recorded"} /\ sender'[u].result = "REJECTED") =>
                  broker'[sender'[u].order] = "refused"
           Alone == \A u, v \in Senders :
                      sender'[u].pc = "begun" /\ sender'[v].pc = "begun"
                        /\ sender'[v].order = sender'[u].order => v = u
<1>0. /\ intent \in [Orders -> States] /\ broker \in [Orders -> Fates]
      /\ posts \in [Orders -> Nat] /\ sender[t].result \in Results
      /\ sender \in [Senders -> SenderType]
  BY DEF TypeOK, SenderType
<1>1. SUFFICES (\A u \in Senders : Fits(u)) /\ Alone
  BY DEF SendersAgree, At, Order
<1>2. \A u, v \in Senders :
        At(u, "begun") /\ At(v, "begun") /\ Order(v) = Order(u) => v = u
  BY DEF SendersAgree
<1>3. ASSUME NEW o \in Orders, SenderStarts(t, o) PROVE (\A u \in Senders : Fits(u)) /\ Alone
  <2>1. /\ sender'[t].pc = "started" /\ sender'[t].order = o
        /\ \A u \in Senders : u # t => sender'[u] = sender[u]
        /\ UNCHANGED <<intent, reconciled, posts, broker>>
    BY <1>0, <1>3 DEF SenderStarts
  <2>2. \A u \in Senders : u # t => Fits(u)
    BY <2>1, SenderKept DEF SendersAgree
  <2> QED
    BY <1>2, <2>1, <2>2 DEF At, Order
<1>4. CASE SenderClaims(t) \/ SenderReserves(t) \/ SenderRegisters(t)
  <2>1. /\ ~At(t, "idle") /\ sender'[t].pc \in {"claimed", "reserved", "registered"}
        /\ \A u \in Senders : /\ sender'[u].order = sender[u].order
                              /\ u # t => sender'[u] = sender[u]
        /\ UNCHANGED <<reconciled, posts, broker>>
    BY <1>4, SenderMoves DEF SenderClaims, Claims, SenderReserves, Reserves, SenderRegisters,
       At, SenderPlaces
  <2>2. ASSUME NEW u \in Senders, At(u, "begun") PROVE intent'[Order(u)] = intent[Order(u)]
    <3>1. Order(u) \in Orders /\ intent[Order(u)] = "SUBMITTED"
      BY <2>2, SenderOrder DEF SendersAgree
    <3>2. \/ intent' = intent
          \/ intent[Order(t)] = "none" /\ intent' = [intent EXCEPT ![Order(t)] = "RESERVED"]
      BY <1>4 DEF SenderClaims, Claims, SenderReserves, Reserves, SenderRegisters
    <3> QED
      BY <1>0, <3>1, <3>2
  <2>3. \A u \in Senders : u # t => Fits(u)
    BY <2>1, <2>2, SenderKept DEF SendersAgree
  <2> QED
    BY <1>2, <2>1, <2>3 DEF At, Order, SendersAgree
<1>5. CASE SenderClaimFails(t) \/ SenderRegisterFails(t) \/ SenderBeginFails(t)
           \/ SenderEndsUnrecorded(t) \/ SenderGivesUp(t) \/ SenderEnds(t)
  <2>1. /\ sender'[t].pc = "idle"
        /\ \A u \in Senders : u # t => sender'[u] = sender[u]
        /\ UNCHANGED <<intent, reconciled, posts, broker>>
    BY <1>5, SenderLeaves DEF SenderClaimFails, SenderRegisterFails, SenderBeginFails,
       SenderEndsUnrecorded, SenderGivesUp, Releases, SenderEnds
  <2>2. \A u \in Senders : u # t => Fits(u)
    BY <2>1, SenderKept DEF SendersAgree
  <2> QED
    BY <1>2, <2>1, <2>2 DEF At, Order
<1>6. CASE SenderBegins(t)
  <2>1. /\ Order(t) \in Orders /\ intent[Order(t)] = "RESERVED" /\ Order(t) \notin reconciled
        /\ sender'[t].pc = "begun" /\ intent' = [intent EXCEPT ![Order(t)] = "SUBMITTED"]
        /\ \A u \in Senders : /\ sender'[u].order = sender[u].order
                              /\ u # t => sender'[u] = sender[u]
        /\ UNCHANGED <<reconciled, posts, broker>>
    BY <1>6, SenderMoves, SenderOrder DEF SenderBegins, FirstSubmission, At, SenderPlaces
  <2>2. posts[Order(t)] = 0
    BY <1>0, <2>1 DEF SentOnce, Sent
  <2>3. \A u \in Senders : At(u, "begun") => Order(u) # Order(t) /\ Order(u) \in Orders
    BY <2>1 DEF SendersAgree, At
  <2>4. \A u \in Senders : At(u, "begun") => intent'[Order(u)] = intent[Order(u)]
    BY <1>0, <2>1, <2>3
  <2>5. \A u \in Senders : u # t => Fits(u)
    BY <2>1, <2>4, SenderKept DEF SendersAgree
  <2>6. Fits(t)
    BY <1>0, <2>1, <2>2 DEF Order
  <2>7. Alone
    BY <1>2, <2>1, <2>3 DEF At, Order
  <2> QED
    BY <2>5, <2>6, <2>7
<1>7. CASE SenderPosts(t)
  <2>1. /\ At(t, "begun") /\ Order(t) \in Orders /\ posts[Order(t)] = 0
        /\ sender'[t].pc = "posted" /\ posts' = [posts EXCEPT ![Order(t)] = @ + 1]
        /\ \A u \in Senders : /\ sender'[u].order = sender[u].order
                              /\ u # t => sender'[u] = sender[u]
        /\ UNCHANGED <<intent, reconciled, broker>>
    BY <1>7, SenderMoves, SenderOrder DEF SenderPosts, SendersAgree, At, SenderPlaces
  <2>2. posts' = [posts EXCEPT ![Order(t)] = 1]
    BY <1>0, <2>1
  <2>3. \A u \in Senders : u # t /\ At(u, "begun") => Order(u) # Order(t)
    BY <1>2, <2>1
  <2>4. \A u \in Senders :
          /\ u # t /\ At(u, "begun") => posts'[Order(u)] = posts[Order(u)]
          /\ posts[Order(u)] = 1 => posts'[Order(u)] = 1
    BY <1>0, <2>1, <2>2, <2>3
  <2>5. \A u \in Senders : u # t => Fits(u)
    BY <2>1, <2>4, SenderKept DEF SendersAgree
  <2>6. Fits(t)
    BY <1>0, <2>1, <2>2 DEF Order
  <2> QED
    BY <1>2, <2>1, <2>5, <2>6 DEF At, Order
<1>8. CASE SenderHears(t)
  <2>1. PICK result \in Results :
          /\ result = "REJECTED" => broker[Order(t)] = "refused"
          /\ sender' = [sender EXCEPT ![t] = [pc |-> "answered", order |-> sender[t].order,
                                              prior |-> sender[t].prior, result |-> result]]
    BY <1>8 DEF SenderHears
  <2>2. /\ At(t, "posted") /\ Order(t) \in Orders /\ posts[Order(t)] = 1
        /\ UNCHANGED <<intent, reconciled, posts, broker>>
    BY <1>8, SenderOrder DEF SenderHears, SendersAgree, At
  <2>3. /\ sender'[t] = [pc |-> "answered", order |-> sender[t].order,
                         prior |-> sender[t].prior, result |-> result]
        /\ \A u \in Senders : u # t => sender'[u] = sender[u]
    BY <1>0, <2>1
  <2>4. \A u \in Senders : u # t => Fits(u)
    BY <2>2, <2>3, SenderKept DEF SendersAgree
  <2>5. Fits(t)
    BY <2>1, <2>2, <2>3 DEF Order
  <2> QED
    BY <1>2, <2>3, <2>4, <2>5 DEF At, Order
<1>9. CASE SenderRecords(t)
  <2>1. /\ At(t, "answered") /\ Order(t) \in Orders /\ posts[Order(t)] = 1
        /\ sender'[t].pc = "recorded" /\ sender'[t].result = sender[t].result
        /\ intent' = [intent EXCEPT ![Order(t)] = sender[t].result]
        /\ \A u \in Senders : /\ sender'[u].order = sender[u].order
                              /\ u # t => sender'[u] = sender[u]
        /\ UNCHANGED <<reconciled, posts, broker>>
    BY <1>9, SenderMoves, SenderOrder DEF SenderRecords, SendersAgree, At, SenderPlaces
  <2>2. \A u \in Senders : At(u, "begun") => Order(u) # Order(t) /\ Order(u) \in Orders
    BY <2>1 DEF SendersAgree, At
  <2>3. \A u \in Senders : At(u, "begun") => intent'[Order(u)] = intent[Order(u)]
    BY <1>0, <2>1, <2>2
  <2>4. \A u \in Senders : u # t => Fits(u)
    BY <2>1, <2>3, SenderKept DEF SendersAgree
  <2>5. Fits(t)
    BY <2>1 DEF Order, At, SendersAgree
  <2> QED
    BY <1>2, <2>1, <2>4, <2>5 DEF At, Order
<1> QED
  BY <1>3, <1>4, <1>5, <1>6, <1>7, <1>8, <1>9 DEF SenderStep

\* Nobody else's step disturbs a sender: an order that is to be sent has nothing
\* that could be settled.
LEMMA SendersAgreeStep ==
    ASSUME TypeOK, SentOnce, SendersAgree, ReadersTrue, [Next]_vars
    PROVE  SendersAgree'
<1> USE DEF core, journal, market
<1>0. /\ intent \in [Orders -> States] /\ broker \in [Orders -> Fates]
      /\ sender \in [Senders -> SenderType]
  BY DEF TypeOK, SenderType
<1>1. ASSUME NEW t \in Senders, SenderStep(t) PROVE SendersAgree'
  BY <1>1, SendersAgreeSender
<1>2. ASSUME NEW r \in Retirers, NEW o \in Orders, RetireSettles(r, o) PROVE SendersAgree'
  <2>1. /\ retirer[r].seen[o] # "unread" /\ reconciled' = reconciled \cup {o}
        /\ retirer[r].seen[o] \in Statuses \cup {"unread"}
        /\ retirer[r].seen[o] = "CANCELLED_BEFORE_SUBMIT" <=> intent[o] = "RESERVED"
        /\ UNCHANGED <<intent, sender, posts, broker>>
    BY <1>2 DEF RetireSettles, Settles, TypeOK
  <2>2. ASSUME NEW t \in Senders, At(t, "begun"), Order(t) = o PROVE FALSE
    <3>1. intent[o] = "SUBMITTED" /\ posts[o] = 0
      BY <2>2 DEF SendersAgree
    <3>2. retirer[r].seen[o] \in {"FILLED", "UNFILLED"}
      BY <2>1, <3>1 DEF Statuses
    <3>3. broker[o] # "none"
      BY <3>2 DEF ReadersTrue
    <3> QED
      BY <3>1, <3>3 DEF SentOnce
  <2> QED
    BY <2>1, <2>2 DEF SendersAgree, At, Order
<1>3. ASSUME NEW r \in Retirers, RetireStep(r), ~\E o \in Orders : RetireSettles(r, o)
      PROVE  SendersAgree'
  <2>1. UNCHANGED <<intent, reconciled, sender, posts, broker>>
    BY <1>3 DEF RetireStep, RetireStarts, RetireFinds, RetireConfirms, Claims, RetireReads,
       RetireFindsFlat, RetireFindsAgain, RetireConfirmsAgain, RetireReleases, Releases,
       RetireBlocked, RetireEnds
  <2> QED
    BY <2>1 DEF SendersAgree, At, Order
<1>4. ASSUME NEW p \in Others, NEW s \in Symbols, OtherClaims(p, s) \/ OtherLeaves(p, s)
      PROVE  SendersAgree'
  BY <1>4 DEF OtherClaims, OtherLeaves, Claims, Releases, SendersAgree, At, Order
<1>5. ASSUME NEW o \in Orders, BrokerTakes(o) \/ BrokerEnds(o) PROVE SendersAgree'
  <2>1. /\ UNCHANGED <<intent, reconciled, sender, posts>>
        /\ broker[o] \in {"none", "open"}
        /\ \A q \in Orders : q # o => broker'[q] = broker[q]
    BY <1>0, <1>5 DEF BrokerTakes, BrokerEnds, SentOnce
  <2> QED
    BY <2>1 DEF SendersAgree, At, Order
<1>6. CASE Crash
  BY <1>6 DEF Crash, Idle, SendersAgree, At, Order
<1>7. ASSUME NEW p \in Sessions, SessionStops(p) PROVE SendersAgree'
  BY <1>7 DEF SessionStops, SendersAgree, At, Order
<1>8. CASE UNCHANGED vars
  BY <1>8 DEF vars, SendersAgree, At, Order
<1> QED
  BY <1>1, <1>2, <1>3, <1>4, <1>5, <1>6, <1>7, <1>8 DEF Next

-----------------------------------------------------------------------------
(* The coordinator's records.                                              *)

\* Only a retirement puts a terminal status on record, of an order it has read.
LEMMA Reconciles ==
    ASSUME [Next]_vars
    PROVE  \/ \E r \in Retirers, o \in Orders : RetireSettles(r, o)
           \/ reconciled' = reconciled
<1> USE DEF core, journal, market
<1>1. ASSUME NEW t \in Senders, SenderStep(t) PROVE reconciled' = reconciled
  BY <1>1 DEF SenderStep, SenderStarts, SenderClaims, Claims, SenderClaimFails,
     SenderReserves, Reserves, SenderGivesUp, Releases, SenderRegisters, SenderRegisterFails,
     SenderBegins, SenderBeginFails, SenderPosts, SenderHears, SenderRecords, SenderEnds,
     SenderEndsUnrecorded
<1>2. ASSUME NEW r \in Retirers, RetireStep(r)
      PROVE  (\E o \in Orders : RetireSettles(r, o)) \/ reconciled' = reconciled
  BY <1>2 DEF RetireStep, RetireStarts, RetireFinds, RetireConfirms, Claims, RetireReads,
     RetireFindsFlat, RetireFindsAgain, RetireConfirmsAgain, RetireReleases, Releases,
     RetireBlocked, RetireEnds
<1> QED
  BY <1>1, <1>2 DEF Next, vars, OtherClaims, OtherLeaves, Claims, Releases, BrokerTakes,
     BrokerEnds, SessionStops, Crash

\* What is settled was never sent, or has ended as the retirement read it.
LEMMA SettlesTrue ==
    ASSUME TypeOK, ReadersTrue, NEW r \in Retirers, NEW o \in Orders, RetireSettles(r, o)
    PROVE  /\ reconciled' = reconciled \cup {o} /\ intent' = intent /\ intent[o] # "none"
           /\ Sent(intent[o]) => Ended(o)
           /\ ~Sent(retirer[r].listed[o]) => ~Sent(intent[o])
           /\ UNCHANGED <<retirer, broker, wire, posts, scope>>
<1>1. /\ retirer[r].seen[o] # "unread" /\ reconciled' = reconciled \cup {o}
      /\ retirer[r].seen[o] \in Statuses \cup {"unread"}
      /\ retirer[r].seen[o] = "CANCELLED_BEFORE_SUBMIT" <=> intent[o] = "RESERVED"
      /\ intent[o] # "none"
      /\ UNCHANGED <<scope, intent, retirer, posts, wire, broker>>
  BY DEF RetireSettles, Settles, TypeOK, core, journal, market
<1>2. retirer[r].seen[o] # "CANCELLED_BEFORE_SUBMIT" =>
        retirer[r].seen[o] \in {"FILLED", "UNFILLED"}
  BY <1>1 DEF Statuses
<1> QED
  BY <1>1, <1>2 DEF ReadersTrue, Sent, Ended

\* An order with a terminal status on record is not sent any more.
LEMMA SettledStays ==
    ASSUME TypeOK, SentOnce, SendersAgree, [Next]_vars, NEW o \in reconciled,
           Sent(intent'[o]), intent[o] # "none"
    PROVE  Sent(intent[o])
<1> USE DEF core, journal, market
<1>0. o \in Orders
  BY DEF TypeOK
<1>1. ASSUME NEW t \in Senders, SenderReserves(t) PROVE Sent(intent[o])
  BY <1>0, <1>1 DEF SenderReserves, Reserves, TypeOK, Sent
<1>2. ASSUME NEW t \in Senders, SenderBegins(t) PROVE Sent(intent[o])
  BY <1>0, <1>2 DEF SenderBegins, FirstSubmission, TypeOK
<1>3. ASSUME NEW t \in Senders, SenderRecords(t) PROVE Sent(intent[o])
  <2>1. posts[Order(t)] = 1 /\ Order(t) \in Orders
    BY <1>3, SenderOrder DEF SenderRecords, SendersAgree, At
  <2> QED
    BY <1>0, <1>3, <2>1 DEF SenderRecords, SentOnce, TypeOK
<1> QED
  BY <1>1, <1>2, <1>3, OrderSteps DEF OrderStep, SenderPosts, SenderEnds, BrokerTakes,
     BrokerEnds

\* A terminal status is of an order that ended, or was not sent and will not be.
LEMMA SettledEndedStep ==
    ASSUME TypeOK, SentOnce, SendersAgree, SettledEnded, ReadersTrue, [Next]_vars
    PROVE  SettledEnded'
<1>1. ASSUME NEW o \in reconciled
      PROVE  intent'[o] # "none" /\ (Sent(intent'[o]) => Ended(o)')
  <2>1. o \in Orders /\ intent[o] # "none" /\ (Sent(intent[o]) => Ended(o))
    BY DEF SettledEnded, TypeOK
  <2>2. Sent(intent'[o]) => Sent(intent[o])
    BY <2>1, SettledStays
  <2> QED
    BY <2>1, <2>2, OrderGoesOn DEF Ended
<1>2. ASSUME NEW r \in Retirers, NEW o \in Orders, RetireSettles(r, o) PROVE SettledEnded'
  BY <1>1, <1>2, SettlesTrue DEF SettledEnded, Ended
<1> QED
  BY <1>1, <1>2, Reconciles DEF SettledEnded

\* A symbol leaves its owner only with every intent of the owner settled.
LEMMA ScopeMoves ==
    ASSUME TypeOK, [Next]_vars, NEW s \in Symbols, NEW o \in OrdersOf(scope[s], s)
    PROVE  scope'[s] = scope[s] \/ intent[o] = "none" \/ o \in reconciled
<1> USE DEF core, journal, market
<1>0. scope[s] \in Sessions /\ scope[s] # NoOne
  BY OrdersTyped, OwnersTyped DEF OrdersOf, Owners
<1>1. ASSUME NEW p, NEW z, Claims(p, z) PROVE scope'[s] = scope[s]
  BY <1>0, <1>1 DEF Claims, TypeOK
<1>2. ASSUME NEW p, NEW z, Releases(p, z)
      PROVE  scope'[s] = scope[s] \/ intent[o] = "none" \/ o \in reconciled
  BY <1>0, <1>2 DEF Releases, Releasable, Unreconciled, TypeOK
<1>3. ASSUME NEW t \in Senders, SenderStep(t)
      PROVE  \/ scope' = scope \/ Claims(OwnerAt(t), SymbolAt(t))
             \/ Releases(OwnerAt(t), SymbolAt(t))
  BY <1>3 DEF SenderStep, SenderStarts, SenderClaims, SenderClaimFails,
     SenderReserves, Reserves, SenderGivesUp, SenderRegisters, SenderRegisterFails,
     SenderBegins, SenderBeginFails, SenderPosts, SenderHears, SenderRecords, SenderEnds,
     SenderEndsUnrecorded
<1>4. ASSUME NEW r \in Retirers, RetireStep(r)
      PROVE  \/ scope' = scope \/ Claims(retirer[r].owner, retirer[r].symbol)
             \/ Releases(retirer[r].owner, retirer[r].symbol)
  BY <1>4 DEF RetireStep, RetireStarts, RetireFinds, RetireConfirms, RetireReads,
     RetireSettles, Settles, RetireFindsFlat, RetireFindsAgain, RetireConfirmsAgain,
     RetireReleases, RetireBlocked, RetireEnds
<1>5. ASSUME NEW p \in Others, NEW z \in Symbols, OtherClaims(p, z) \/ OtherLeaves(p, z)
      PROVE  Claims(p, z) \/ Releases(p, z)
  BY <1>5 DEF OtherClaims, OtherLeaves
<1>6. ASSUME UNCHANGED vars \/ Crash \/ (\E p \in Sessions : SessionStops(p))
             \/ (\E q \in Orders : BrokerTakes(q) \/ BrokerEnds(q))
      PROVE  scope' = scope
  BY <1>6 DEF vars, Crash, SessionStops, BrokerTakes, BrokerEnds
<1> QED
  BY <1>1, <1>2, <1>3, <1>4, <1>5, <1>6 DEF Next

\* A symbol changes hands only when the orders on record are settled.
LEMMA HandedSettledStep ==
    ASSUME TypeOK, SentOnce, SendersAgree, HandedSettled, [Next]_vars
    PROVE  HandedSettled'
<1> SUFFICES ASSUME NEW o \in Orders, scope'[SymbolOf[o]] # OwnerOf[o]
             PROVE  intent'[o] = "none" \/ o \in reconciled'
  BY DEF HandedSettled
<1>1. intent[o] = "none" \/ o \in reconciled
  <2>1. CASE scope[SymbolOf[o]] = OwnerOf[o]
    <3>1. SymbolOf[o] \in Symbols /\ o \in OrdersOf(scope[SymbolOf[o]], SymbolOf[o])
      BY <2>1, OrdersTyped DEF OrdersOf
    <3> QED
      BY <2>1, <3>1, ScopeMoves
  <2>2. CASE scope[SymbolOf[o]] # OwnerOf[o]
    BY <2>2 DEF HandedSettled
  <2> QED
    BY <2>1, <2>2
<1>2. reconciled \subseteq reconciled'
  BY Reconciles DEF RetireSettles, Settles
<1>3. ASSUME intent[o] = "none", intent'[o] # "none" PROVE FALSE
  <2> USE DEF core, journal, market
  <2>1. ASSUME NEW t \in Senders, SenderReserves(t) PROVE FALSE
    <3>1. Order(t) = o /\ scope' = scope /\ scope[SymbolOf[Order(t)]] = OwnerOf[Order(t)]
      BY <1>3, <2>1 DEF SenderReserves, Reserves, TypeOK
    <3> QED
      BY <3>1
  <2>2. ASSUME NEW t \in Senders, SenderBegins(t) PROVE FALSE
    BY <1>3, <2>2 DEF SenderBegins, FirstSubmission, TypeOK
  <2>3. ASSUME NEW t \in Senders, SenderRecords(t) PROVE FALSE
    <3>1. posts[Order(t)] = 1 /\ Order(t) \in Orders
      BY <2>3, SenderOrder DEF SenderRecords, SendersAgree, At
    <3>2. Sent(intent[Order(t)])
      BY <3>1 DEF SentOnce
    <3> QED
      BY <1>3, <2>3, <3>1, <3>2 DEF SenderRecords, Sent, TypeOK
  <2> QED
    BY <1>3, <2>1, <2>2, <2>3, OrderSteps DEF OrderStep, SenderPosts, SenderEnds,
       BrokerTakes, BrokerEnds
<1> QED
  BY <1>1, <1>2, <1>3

-----------------------------------------------------------------------------
(* Threads that retire.                                                    *)

\* The steps of a retirement that change what it knows.
ReaderStep(r) ==
    \/ \E p \in Sessions : RetireStarts(r, p)
    \/ \E s \in Symbols : RetireFinds(r, s)
    \/ RetireConfirms(r)
    \/ \E o \in Orders : RetireReads(r, o)
    \/ RetireFindsFlat(r) \/ RetireFindsAgain(r) \/ RetireConfirmsAgain(r)
    \/ RetireReleases(r) \/ RetireBlocked(r) \/ RetireEnds(r)

\* A retirement moves by its own steps, or is cut short by a crash.
LEMMA ReaderSteps ==
    ASSUME [Next]_vars
    PROVE  \/ \E r \in Retirers : ReaderStep(r)
           \/ Crash
           \/ retirer' = retirer
<1> USE DEF core, journal, market
<1>1. ASSUME NEW t \in Senders, SenderStep(t) PROVE retirer' = retirer
  BY <1>1 DEF SenderStep, SenderStarts, SenderClaims, SenderClaimFails,
     SenderReserves, SenderGivesUp, SenderRegisters, SenderRegisterFails,
     SenderBegins, SenderBeginFails, SenderPosts, SenderHears, SenderRecords, SenderEnds,
     SenderEndsUnrecorded
<1>2. ASSUME NEW r \in Retirers, RetireStep(r) PROVE ReaderStep(r) \/ retirer' = retirer
  BY <1>2 DEF RetireStep, ReaderStep, RetireSettles
<1> QED
  BY <1>1, <1>2 DEF Next, vars, OtherClaims, OtherLeaves, BrokerTakes, BrokerEnds,
     SessionStops

\* What one retirement knows (ReadersTrue).
ReadTrue(r) ==
    \A o \in Orders :
        LET status == retirer[r].seen[o] IN
        /\ status = "CANCELLED_BEFORE_SUBMIT" => retirer[r].listed[o] = "RESERVED"
        /\ status \in {"FILLED", "UNFILLED"} => Sent(retirer[r].listed[o])
        /\ status = "FILLED" => broker[o] = "filled"
        /\ status = "UNFILLED" => broker[o] \in {"canceled", "refused"}
AllRead(r) ==
    /\ \A o \in Listed(r) : retirer[r].seen[o] # "unread"
    /\ Net({o \in Ours(r) : retirer[r].seen[o] = "FILLED"}) = 0
Truthful(r) ==
    /\ retirer[r].pc \in {"idle", "next", "found"} => retirer[r].seen = Unread
    /\ ReadTrue(r)
    /\ retirer[r].pc \in {"flat", "again", "settling"} => AllRead(r)

\* ReadersTrue, one retirement at a time.
LEMMA ReadersTruthful == ReadersTrue <=> \A r \in Retirers : Truthful(r)
BY DEF ReadersTrue, Truthful, ReadTrue, AllRead

\* Who has read nothing believes nothing wrong.
LEMMA UnreadTrue ==
    ASSUME NEW r \in Retirers, retirer[r].seen = Unread
    PROVE  ReadTrue(r)
BY DEF ReadTrue, Unread

\* What was read stays so: an order that ended does not change.
LEMMA ReadKept ==
    ASSUME TypeOK, SentOnce, SendersAgree, [Next]_vars, NEW r \in Retirers, ReadTrue(r),
           retirer'[r].listed = retirer[r].listed, retirer'[r].seen = retirer[r].seen
    PROVE  ReadTrue(r)'
<1>1. ASSUME NEW o \in Orders
      PROVE  broker[o] \in {"filled", "canceled", "refused"} => broker'[o] = broker[o]
  BY <1>1, OrderGoesOn DEF Ended
<1> QED
  BY <1>1 DEF ReadTrue

\* A list that was read stays read while the retirement keeps it.
LEMMA AllReadKept ==
    ASSUME NEW r \in Retirers, AllRead(r),
           retirer'[r].listed = retirer[r].listed, retirer'[r].seen = retirer[r].seen,
           retirer'[r].owner = retirer[r].owner, retirer'[r].symbol = retirer[r].symbol
    PROVE  AllRead(r)'
<1>1. Listed(r)' = Listed(r) /\ Ours(r)' = Ours(r)
  BY DEF Listed, Ours
<1> QED
  BY <1>1 DEF AllRead

\* A retirement that does not move goes on believing what is so.
LEMMA TruthfulKept ==
    ASSUME TypeOK, SentOnce, SendersAgree, [Next]_vars, NEW r \in Retirers, Truthful(r),
           retirer'[r] = retirer[r]
    PROVE  Truthful(r)'
BY ReadKept, AllReadKept DEF Truthful

\* A retirement's own step: what it reads is so, and it goes on from a list it has
\* read with nothing owned (reconcile_stopped_owner).
LEMMA TruthfulStep ==
    ASSUME TypeOK, SentOnce, SendersAgree, [Next]_vars, NEW r \in Retirers, Truthful(r),
           ReaderStep(r)
    PROVE  Truthful(r)' /\ \A q \in Retirers : q # r => retirer'[q] = retirer[q]
<1> USE DEF core, journal, market
<1>0. retirer \in [Retirers -> RetirerType]
  BY DEF TypeOK, RetirerType
<1>1. ASSUME NEW p \in Sessions, RetireStarts(r, p)
      PROVE  Truthful(r)' /\ \A q \in Retirers : q # r => retirer'[q] = retirer[q]
  <2>1. /\ retirer'[r].pc = "next" /\ retirer'[r].seen = Unread
        /\ \A q \in Retirers : q # r => retirer'[q] = retirer[q]
    BY <1>0, <1>1 DEF RetireStarts
  <2> QED
    BY <2>1 DEF Truthful, ReadTrue, Unread
<1>2. ASSUME NEW s \in Symbols, RetireFinds(r, s)
      PROVE  Truthful(r)' /\ \A q \in Retirers : q # r => retirer'[q] = retirer[q]
  <2>1. /\ retirer'[r].pc = "found" /\ retirer'[r].seen = Unread
        /\ \A q \in Retirers : q # r => retirer'[q] = retirer[q]
    BY <1>0, <1>2 DEF RetireFinds
  <2> QED
    BY <2>1 DEF Truthful, ReadTrue, Unread
<1>3. CASE RetireConfirms(r)
  <2>1. Goes(r, "reading") /\ "reading" \in RetirerPlaces
    BY <1>3 DEF RetireConfirms, RetirerPlaces
  <2>2. ReadTrue(r)'
    BY <2>1, RetirerGoes, ReadKept DEF Truthful
  <2> QED
    BY <2>1, <2>2, RetirerGoes DEF Truthful
<1>4. ASSUME NEW o \in Orders, RetireReads(r, o)
      PROVE  Truthful(r)' /\ \A q \in Retirers : q # r => retirer'[q] = retirer[q]
  <2>1. PICK status \in Statuses : Answered(r, o, status) /\ Notes(r, o, status)
    BY <1>4 DEF RetireReads
  <2>2. /\ retirer'[r].seen = [retirer[r].seen EXCEPT ![o] = status]
        /\ retirer'[r].pc = "reading" /\ retirer'[r].listed = retirer[r].listed
        /\ \A q \in Retirers : q # r => retirer'[q] = retirer[q]
        /\ broker' = broker
        /\ retirer[r].seen \in [Orders -> Statuses \cup {"unread"}]
    BY <1>0, <1>4, <2>1, RetirerNotes DEF RetireReads, Retiring, RetirerType
  <2>3. /\ status = "CANCELLED_BEFORE_SUBMIT" => retirer[r].listed[o] = "RESERVED"
        /\ status \in {"FILLED", "UNFILLED"} => Sent(retirer[r].listed[o])
        /\ status = "FILLED" => broker[o] = "filled"
        /\ status = "UNFILLED" => broker[o] \in {"canceled", "refused"}
    BY <2>1 DEF Answered, Sent, SentOnce
  <2>4. ReadTrue(r)'
    BY <2>2, <2>3 DEF ReadTrue, Truthful
  <2> QED
    BY <2>2, <2>4 DEF Truthful
<1>5. CASE RetireFindsFlat(r)
  <2>1. Goes(r, "flat") /\ AllRead(r) /\ "flat" \in RetirerPlaces
    BY <1>5 DEF RetireFindsFlat, AllRead, RetirerPlaces
  <2>2. ReadTrue(r)' /\ AllRead(r)'
    BY <2>1, RetirerGoes, ReadKept, AllReadKept DEF Truthful
  <2> QED
    BY <2>1, <2>2, RetirerGoes DEF Truthful
<1>6. CASE RetireFindsAgain(r) \/ RetireConfirmsAgain(r)
  <2>1. PICK place \in {"again", "settling"} : Goes(r, place)
    BY <1>6 DEF RetireFindsAgain, RetireConfirmsAgain
  <2>2. AllRead(r) /\ place \in RetirerPlaces
    BY <1>6 DEF RetireFindsAgain, RetireConfirmsAgain, Retiring, Truthful, RetirerPlaces
  <2>3. ReadTrue(r)' /\ AllRead(r)'
    BY <2>1, <2>2, RetirerGoes, ReadKept, AllReadKept DEF Truthful
  <2> QED
    BY <2>1, <2>2, <2>3, RetirerGoes DEF Truthful
<1>7. CASE RetireReleases(r) \/ RetireBlocked(r)
  <2>1. Finishes(r)
    BY <1>7 DEF RetireReleases, RetireBlocked
  <2> QED
    BY <2>1, RetirerFinishes DEF Truthful, ReadTrue, Unread
<1>8. CASE RetireEnds(r)
  <2>1. /\ retirer'[r].pc = "idle" /\ retirer'[r].seen = Unread
        /\ \A q \in Retirers : q # r => retirer'[q] = retirer[q]
    BY <1>0, <1>8 DEF RetireEnds, Away
  <2> QED
    BY <2>1 DEF Truthful, ReadTrue, Unread
<1> QED
  BY <1>1, <1>2, <1>3, <1>4, <1>5, <1>6, <1>7, <1>8 DEF ReaderStep

\* Every step leaves what retirements read true.
LEMMA ReadersTrueStep ==
    ASSUME TypeOK, SentOnce, SendersAgree, ReadersTrue, [Next]_vars
    PROVE  ReadersTrue'
<1>0. SUFFICES \A q \in Retirers : Truthful(q)'
  BY DEF ReadersTrue, Truthful, ReadTrue, AllRead
<1>1. \A r \in Retirers : Truthful(r)
  BY ReadersTruthful
<1>2. ASSUME NEW r \in Retirers, ReaderStep(r) PROVE \A q \in Retirers : Truthful(q)'
  BY <1>1, <1>2, TruthfulStep, TruthfulKept
<1>3. CASE Crash
  BY <1>3 DEF Crash, Away, Truthful, ReadTrue, Unread
<1>4. CASE retirer' = retirer
  BY <1>1, <1>4, TruthfulKept
<1> QED
  BY <1>2, <1>3, <1>4, ReaderSteps

-----------------------------------------------------------------------------
(* Lists, and what they justify.                                           *)

\* A retirement keeps its list, makes a new one, or forgets it.
LEMMA ListsMove ==
    ASSUME TypeOK, [Next]_vars, NEW r \in Retirers
    PROVE  Unsent(retirer'[r].listed) \in
             {Unsent(retirer[r].listed), Unsent(intent), Orders}
<1> USE DEF core, journal, market
<1>0. retirer \in [Retirers -> RetirerType]
  BY DEF TypeOK, RetirerType
<1>1. Unsent(Away.listed) = Orders
  BY DEF Unsent, Sent, Away
<1>2. ASSUME NEW q \in Retirers, ReaderStep(q)
      PROVE  retirer'[r].listed \in {retirer[r].listed, intent, Away.listed}
  <2>1. ASSUME NEW p \in Sessions, RetireStarts(q, p)
        PROVE  retirer'[r].listed \in {retirer[r].listed, intent}
    BY <1>0, <2>1 DEF RetireStarts
  <2>2. ASSUME NEW s \in Symbols, RetireFinds(q, s) PROVE retirer'[r].listed = retirer[r].listed
    BY <1>0, <2>2 DEF RetireFinds
  <2>3. ASSUME NEW o \in Orders, RetireReads(q, o) PROVE retirer'[r].listed = retirer[r].listed
    BY <2>3, RetirerNotes DEF RetireReads
  <2>4. CASE RetireConfirms(q) \/ RetireFindsFlat(q) \/ RetireFindsAgain(q)
             \/ RetireConfirmsAgain(q)
    <3>1. PICK place \in {"reading", "flat", "again", "settling"} : Goes(q, place)
      BY <2>4 DEF RetireConfirms, RetireFindsFlat, RetireFindsAgain, RetireConfirmsAgain
    <3>2. place \in RetirerPlaces
      BY DEF RetirerPlaces
    <3> QED
      BY <3>1, <3>2, RetirerGoes
  <2>5. CASE RetireReleases(q) \/ RetireBlocked(q)
    <3>1. Finishes(q)
      BY <2>5 DEF RetireReleases, RetireBlocked
    <3> QED
      BY <3>1, RetirerFinishes
  <2>6. CASE RetireEnds(q)
    BY <1>0, <2>6 DEF RetireEnds
  <2> QED
    BY <1>2, <2>1, <2>2, <2>3, <2>4, <2>5, <2>6 DEF ReaderStep
<1>3. CASE Crash
  BY <1>1, <1>3 DEF Crash
<1> QED
  BY <1>1, <1>2, <1>3, ReaderSteps

\* An order that was sent is never unsent again.
LEMMA UnsentShrinks ==
    ASSUME TypeOK, SentOnce, SendersAgree, [Next]_vars
    PROVE  Unsent(intent') \subseteq Unsent(intent)
BY OrderGoesOn DEF Unsent

\* The lists retirements hold stay in the order they were read.
LEMMA ListsOrderedStep ==
    ASSUME TypeOK, SentOnce, SendersAgree, ListsOrdered, [Next]_vars
    PROVE  ListsOrdered'
<1>1. \A r \in Retirers : Unsent(retirer'[r].listed) \in
                            {Unsent(retirer[r].listed), Unsent(intent), Orders}
  BY ListsMove
<1>2. Unsent(intent') \subseteq Unsent(intent) /\ Unsent(intent) \subseteq Orders
  BY UnsentShrinks DEF Unsent
<1>3. \A r \in Retirers : /\ Unsent(intent) \subseteq Unsent(retirer[r].listed)
                          /\ Unsent(retirer[r].listed) \subseteq Orders
  BY DEF ListsOrdered, Unsent
<1>4. ASSUME NEW r \in Retirers PROVE Unsent(intent') \subseteq Unsent(retirer'[r].listed)
  BY <1>1, <1>2, <1>3
<1>5. ASSUME NEW r \in Retirers, NEW q \in Retirers
      PROVE  \/ Unsent(retirer'[r].listed) \subseteq Unsent(retirer'[q].listed)
             \/ Unsent(retirer'[q].listed) \subseteq Unsent(retirer'[r].listed)
  <2>1. \/ Unsent(retirer[r].listed) \subseteq Unsent(retirer[q].listed)
        \/ Unsent(retirer[q].listed) \subseteq Unsent(retirer[r].listed)
    BY DEF ListsOrdered
  <2> QED
    BY <1>1, <1>2, <1>3, <2>1
<1>6. ListsOrdered' <=>
        \A r \in Retirers :
          /\ Unsent(intent') \subseteq Unsent(retirer'[r].listed)
          /\ \A q \in Retirers :
               \/ Unsent(retirer'[r].listed) \subseteq Unsent(retirer'[q].listed)
               \/ Unsent(retirer'[q].listed) \subseteq Unsent(retirer'[r].listed)
  BY DEF ListsOrdered, Unsent
<1> QED
  BY <1>4, <1>5, <1>6

\* The list of a retirement that settles justifies what it settles.
LEMMA ListJustifies ==
    ASSUME TypeOK, ReadersTrue, ListsOrdered, NEW r \in Retirers, NEW o \in Orders,
           RetireSettles(r, o)
    PROVE  LET unsent == Unsent(retirer[r].listed) IN
           /\ Unsent(intent) \subseteq unsent
           /\ \A q \in Retirers : \/ Unsent(retirer[q].listed) \subseteq unsent
                                  \/ unsent \subseteq Unsent(retirer[q].listed)
           /\ \A q \in Ours(r) \ unsent : Ended(q)
           /\ Net({q \in Ours(r) \ unsent : broker[q] = "filled"}) = 0
           /\ Ours(r) = OrdersOf(OwnerOf[o], SymbolOf[o])
<1> DEFINE unsent == Unsent(retirer[r].listed)
<1>1. Truthful(r) /\ AllRead(r) /\ o \in Ours(r)
  BY ReadersTruthful DEF RetireSettles, Retiring, Truthful, Unreconciled, Ours, OrdersOf
<1>2. ASSUME NEW q \in Ours(r), q \notin unsent
      PROVE  retirer[r].seen[q] \in {"FILLED", "UNFILLED"}
  <2>1. q \in Orders /\ Sent(retirer[r].listed[q])
    BY <1>2 DEF Ours, OrdersOf, Unsent
  <2>2. retirer[r].seen[q] # "unread"
    BY <1>1, <1>2, <2>1 DEF AllRead, Listed, Sent
  <2>3. retirer[r].seen[q] # "CANCELLED_BEFORE_SUBMIT"
    BY <1>1, <2>1 DEF Truthful, ReadTrue, Sent
  <2>4. retirer[r].seen[q] \in Statuses \cup {"unread"}
    BY <2>1 DEF TypeOK
  <2> QED
    BY <2>2, <2>3, <2>4 DEF Statuses
<1>3. Ours(r) \subseteq Orders
  BY DEF Ours, OrdersOf
<1>4. \A q \in Ours(r) \ unsent : Ended(q)
  BY <1>1, <1>2, <1>3 DEF Truthful, ReadTrue, Ended
<1>5. {q \in Ours(r) \ unsent : broker[q] = "filled"} =
        {q \in Ours(r) : retirer[r].seen[q] = "FILLED"}
  <2>1. ASSUME NEW q \in Ours(r), q \notin unsent, broker[q] = "filled"
        PROVE  retirer[r].seen[q] = "FILLED"
    BY <1>1, <1>2, <1>3, <2>1 DEF Truthful, ReadTrue
  <2>2. ASSUME NEW q \in Ours(r), retirer[r].seen[q] = "FILLED"
        PROVE  q \notin unsent /\ broker[q] = "filled"
    BY <1>1, <1>3, <2>2 DEF Truthful, ReadTrue, Unsent
  <2> QED
    BY <2>1, <2>2
<1>6. Net({q \in Ours(r) \ unsent : broker[q] = "filled"}) = 0
  BY <1>1, <1>5 DEF AllRead
<1>7. /\ Unsent(intent) \subseteq unsent
      /\ \A q \in Retirers : \/ Unsent(retirer[q].listed) \subseteq unsent
                             \/ unsent \subseteq Unsent(retirer[q].listed)
  BY DEF ListsOrdered
<1>8. Ours(r) = OrdersOf(OwnerOf[o], SymbolOf[o])
  BY <1>1 DEF Ours, OrdersOf
<1> QED
  BY <1>4, <1>6, <1>7, <1>8

\* Orders are settled only when they left nothing owned.
LEMMA FlatWhenSettledStep ==
    ASSUME TypeOK, SentOnce, SendersAgree, SettledEnded, ReadersTrue, ListsOrdered,
           FlatWhenSettled, [Next]_vars
    PROVE  FlatWhenSettled'
<1> SUFFICES ASSUME NEW p \in Sessions, NEW s \in Symbols,
                    OrdersOf(p, s) \cap reconciled' # {}
             PROVE  \E unsent \in SUBSET Orders : FlatBut(p, s, unsent)'
  BY DEF FlatWhenSettled
<1> DEFINE ours == OrdersOf(p, s)
<1>0. ours \subseteq Orders
  BY DEF OrdersOf
<1>1. CASE reconciled' = reconciled
  <2>1. PICK unsent \in SUBSET Orders : FlatBut(p, s, unsent)
    BY <1>1 DEF FlatWhenSettled
  <2>2. Unsent(intent') \subseteq unsent
    BY <2>1, UnsentShrinks DEF FlatBut
  <2>3. ASSUME NEW r \in Retirers
        PROVE  \/ Unsent(retirer'[r].listed) \subseteq unsent
               \/ unsent \subseteq Unsent(retirer'[r].listed)
    <3>1. /\ Unsent(intent) \subseteq unsent
          /\ \/ Unsent(retirer[r].listed) \subseteq unsent
             \/ unsent \subseteq Unsent(retirer[r].listed)
      BY <2>1 DEF FlatBut
    <3> QED
      BY <3>1, ListsMove
  <2>4. \A o \in ours \ unsent : Ended(o) /\ broker'[o] = broker[o]
    BY <1>0, <2>1, OrderGoesOn DEF FlatBut
  <2>5. \A o \in ours \cap reconciled' \cap unsent : ~Sent(intent'[o])
    BY <1>1, <2>1, SettledStays DEF FlatBut, SettledEnded
  <2>6. {o \in ours \ unsent : broker'[o] = "filled"} =
          {o \in ours \ unsent : broker[o] = "filled"}
    BY <2>4
  <2>7. Net({o \in ours \ unsent : broker'[o] = "filled"}) = 0
    BY <2>1, <2>6 DEF FlatBut
  <2>8. FlatBut(p, s, unsent)'
    BY <2>2, <2>3, <2>4, <2>5, <2>7 DEF FlatBut, Unsent, Ended
  <2> QED
    BY <2>8
<1>2. ASSUME NEW r \in Retirers, NEW o \in Orders, RetireSettles(r, o)
      PROVE  \E unsent \in SUBSET Orders : FlatBut(p, s, unsent)'
  <2>0. /\ reconciled' = reconciled \cup {o} /\ intent' = intent
        /\ retirer' = retirer /\ broker' = broker
        /\ ~Sent(retirer[r].listed[o]) => ~Sent(intent[o])
    BY <1>2, SettlesTrue
  <2>1. ASSUME NEW unsent \in SUBSET Orders,
               /\ Unsent(intent) \subseteq unsent
               /\ \A q \in Retirers : \/ Unsent(retirer[q].listed) \subseteq unsent
                                      \/ unsent \subseteq Unsent(retirer[q].listed)
               /\ \A q \in ours \ unsent : Ended(q)
               /\ \A q \in ours \cap reconciled' \cap unsent : ~Sent(intent[q])
               /\ Net({q \in ours \ unsent : broker[q] = "filled"}) = 0
        PROVE  FlatBut(p, s, unsent)'
    <3>1. Unsent(intent') \subseteq unsent
      BY <2>0, <2>1 DEF Unsent
    <3>2. \A q \in Retirers : \/ Unsent(retirer'[q].listed) \subseteq unsent
                              \/ unsent \subseteq Unsent(retirer'[q].listed)
      BY <2>0, <2>1 DEF Unsent
    <3>3. /\ \A q \in ours \ unsent : broker'[q] \in {"filled", "canceled", "refused"}
          /\ \A q \in ours \cap reconciled' \cap unsent : ~Sent(intent'[q])
      BY <2>0, <2>1 DEF Ended
    <3>4. Net({q \in ours \ unsent : broker'[q] = "filled"}) = 0
      BY <2>0, <2>1
    <3> QED
      BY <3>1, <3>2, <3>3, <3>4 DEF FlatBut, Unsent, Ended
  <2>2. CASE o \notin ours
    <3>1. PICK unsent \in SUBSET Orders : FlatBut(p, s, unsent)
      BY <2>0, <2>2 DEF FlatWhenSettled
    <3>2. /\ Unsent(intent) \subseteq unsent
          /\ \A q \in Retirers : \/ Unsent(retirer[q].listed) \subseteq unsent
                                 \/ unsent \subseteq Unsent(retirer[q].listed)
          /\ \A q \in ours \ unsent : Ended(q)
          /\ \A q \in ours \cap reconciled \cap unsent : ~Sent(intent[q])
          /\ Net({q \in ours \ unsent : broker[q] = "filled"}) = 0
      BY <3>1 DEF FlatBut
    <3>3. \A q \in ours \cap reconciled' \cap unsent : ~Sent(intent[q])
      BY <2>0, <2>2, <3>2
    <3>4. FlatBut(p, s, unsent)'
      BY <2>1, <3>2, <3>3
    <3> QED
      BY <3>4
  <2>3. CASE o \in ours
    <3> DEFINE mine == Unsent(retirer[r].listed)
    <3>1. ours = Ours(r)
      <4>1. Ours(r) = OrdersOf(OwnerOf[o], SymbolOf[o])
        BY <1>2, ListJustifies
      <4>2. OwnerOf[o] = p /\ SymbolOf[o] = s
        BY <2>3 DEF OrdersOf
      <4> QED
        BY <4>1, <4>2
    <3>2. /\ mine \in SUBSET Orders /\ Unsent(intent) \subseteq mine
          /\ \A q \in Retirers : \/ Unsent(retirer[q].listed) \subseteq mine
                                 \/ mine \subseteq Unsent(retirer[q].listed)
          /\ \A q \in ours \ mine : Ended(q)
          /\ Net({q \in ours \ mine : broker[q] = "filled"}) = 0
      BY <1>2, <3>1, ListJustifies DEF Unsent
    <3>3. o \in mine => ~Sent(intent[o])
      BY <2>0 DEF Unsent
    <3> HIDE DEF mine
    <3>4. CASE ours \cap reconciled = {}
      <4>1. \A q \in ours \cap reconciled' \cap mine : ~Sent(intent[q])
        BY <2>0, <3>3, <3>4
      <4> QED
        BY <2>1, <3>2, <4>1
    <3>5. CASE ours \cap reconciled # {}
      <4>1. PICK unsent \in SUBSET Orders : FlatBut(p, s, unsent)
        BY <3>5 DEF FlatWhenSettled
      <4>2. \A q \in ours \cap reconciled \cap unsent : ~Sent(intent[q])
        BY <4>1 DEF FlatBut
      <4>3. CASE mine \subseteq unsent
        <5>1. \A q \in ours \cap reconciled' \cap mine : ~Sent(intent[q])
          BY <2>0, <3>3, <4>2, <4>3
        <5> QED
          BY <2>1, <3>2, <5>1
      <4>4. CASE unsent \subseteq mine
        <5>1. \A q \in ours \cap reconciled' \cap unsent : ~Sent(intent[q])
          BY <2>0, <3>3, <4>2, <4>4
        <5>2. FlatBut(p, s, unsent)'
          BY <2>1, <4>1, <5>1 DEF FlatBut
        <5> QED
          BY <5>2
      <4>5. mine \subseteq unsent \/ unsent \subseteq mine
        BY <4>1 DEF FlatBut, mine
      <4> QED
        BY <4>3, <4>4, <4>5
    <3> QED
      BY <3>4, <3>5
  <2> QED
    BY <2>2, <2>3
<1> QED
  BY <1>1, <1>2, Reconciles

-----------------------------------------------------------------------------
(* The theorems.                                                           *)

\* The invariant holds when the program starts.
LEMMA CoordinationInit == Init => CoordinationInvariant
<1> SUFFICES ASSUME Init PROVE CoordinationInvariant
  OBVIOUS
<1>1. TypeOK
  BY TypeInit
<1>2. /\ \A o \in Orders : /\ intent[o] = "none" /\ posts[o] = 0 /\ broker[o] = "none"
                           /\ response[o] = "none"
      /\ \A t \in Senders : sender[t].pc = "idle"
      /\ \A r \in Retirers : /\ retirer[r].pc = "idle" /\ retirer[r].seen = Unread
                             /\ retirer[r].listed = intent
      /\ reconciled = {} /\ wire = {}
  BY DEF Init, Idle, Away
<1>3. SentOnce /\ SendersAgree /\ SettledEnded /\ HandedSettled
  BY <1>2 DEF SentOnce, SendersAgree, SettledEnded, HandedSettled, At
<1>4. ReadersTrue
  BY <1>2 DEF ReadersTrue, Unread
<1>5. ListsOrdered /\ FlatWhenSettled
  BY <1>2 DEF ListsOrdered, FlatWhenSettled
<1> QED
  BY <1>1, <1>3, <1>4, <1>5 DEF CoordinationInvariant

\* Every step preserves the invariant.
LEMMA CoordinationStep == CoordinationInvariant /\ [Next]_vars => CoordinationInvariant'
<1> SUFFICES ASSUME CoordinationInvariant, [Next]_vars PROVE CoordinationInvariant'
  OBVIOUS
<1> QED
  BY TypePreserved, SentOnceStep, SendersAgreeStep, SettledEndedStep, HandedSettledStep,
     ReadersTrueStep, ListsOrderedStep, FlatWhenSettledStep DEF CoordinationInvariant

\* What is on record of an order, at the coordinator, in the journal, in a thread
\* and on a list, agrees with what the broker did with it, for any number of
\* programs, orders and threads.
THEOREM Invariant == Spec => []CoordinationInvariant
<1> QED
  BY CoordinationInit, CoordinationStep, PTL DEF Spec

\* An order is sent once (begin_submission).
THEOREM Once == Spec => []PostedOnce
<1>1. CoordinationInvariant => PostedOnce
  BY DEF CoordinationInvariant, SentOnce, PostedOnce
<1> QED
  BY <1>1, Invariant, PTL

\* A symbol that is not a session's has no order of it open, on its way or about
\* to be sent (reconcile_release, release_unsubmitted_scope).
THEOREM LeavesNothing == Spec => []NothingLeftBehind
<1>1. ASSUME CoordinationInvariant PROVE NothingLeftBehind
  <2> USE <1>1 DEF CoordinationInvariant
  <2> SUFFICES ASSUME NEW o \in Orders, scope[SymbolOf[o]] # OwnerOf[o]
               PROVE  /\ o \notin wire /\ broker[o] # "open"
                      /\ \A t \in Senders : At(t, "begun") => Order(t) # o
    BY DEF NothingLeftBehind
  <2>1. intent[o] = "none" \/ (o \in reconciled /\ (Sent(intent[o]) => Ended(o)))
    BY DEF HandedSettled, SettledEnded
  <2>2. CASE Ended(o)
    BY <2>1, <2>2 DEF Ended, SentOnce, SendersAgree, Sent
  <2>3. CASE ~Sent(intent[o])
    BY <2>3 DEF SentOnce, SendersAgree, Sent
  <2> QED
    BY <2>1, <2>2, <2>3 DEF Sent
<1> QED
  BY <1>1, Invariant, PTL

\* A symbol changes hands when what its session bought of it is sold again
\* (reconcile_stopped_owner), although two retirements of the session may each
\* have settled a part of its orders from a list that is out of date.
THEOREM OwnsNothing == Spec => []NothingStillOwned
<1>1. ASSUME CoordinationInvariant PROVE NothingStillOwned
  <2> USE <1>1 DEF CoordinationInvariant
  <2> SUFFICES ASSUME NEW p \in Sessions, NEW s \in Symbols, scope[s] # p
               PROVE  Net({o \in OrdersOf(p, s) : broker[o] = "filled"}) = 0
    BY DEF NothingStillOwned
  <2>1. \A o \in OrdersOf(p, s) : o \in Orders /\ (intent[o] = "none" \/ o \in reconciled)
    BY DEF OrdersOf, HandedSettled
  <2>2. \A o \in OrdersOf(p, s) : broker[o] = "filled" => Sent(intent[o])
    BY <2>1 DEF SentOnce, TypeOK
  <2>3. CASE OrdersOf(p, s) \cap reconciled = {}
    <3>1. {o \in OrdersOf(p, s) : broker[o] = "filled"} = {}
      BY <2>1, <2>2, <2>3 DEF Sent
    <3>2. Net({}) = 0
      BY FS_EmptySet DEF Net
    <3> QED
      BY <3>1, <3>2
  <2>4. CASE OrdersOf(p, s) \cap reconciled # {}
    <3>1. PICK unsent \in SUBSET Orders : FlatBut(p, s, unsent)
      BY <2>4 DEF FlatWhenSettled
    <3>2. {o \in OrdersOf(p, s) : broker[o] = "filled"} =
            {o \in OrdersOf(p, s) \ unsent : broker[o] = "filled"}
      BY <2>1, <2>2, <3>1 DEF FlatBut, Sent
    <3> QED
      BY <3>1, <3>2 DEF FlatBut
  <2> QED
    BY <2>3, <2>4
<1> QED
  BY <1>1, Invariant, PTL

\* An order reaches the broker only while its session owns the symbol, whatever
\* happened since it claimed it (dispatch).
THEOREM PostsOwn == Spec => PostsOwnSymbol
<1>1. CoordinationInvariant /\ [Next]_vars =>
        \A o \in Orders : posts'[o] # posts[o] => scope[SymbolOf[o]] = OwnerOf[o]
  <2> SUFFICES ASSUME CoordinationInvariant, [Next]_vars, NEW o \in Orders, posts'[o] # posts[o]
               PROVE  scope[SymbolOf[o]] = OwnerOf[o]
    OBVIOUS
  <2>1. PICK t \in Senders : SenderPosts(t)
    BY OrderSteps DEF OrderStep, SenderReserves, Reserves, SenderBegins, SenderRecords,
       SenderEnds, BrokerTakes, BrokerEnds, core, journal, market
  <2>2. Order(t) = o /\ At(t, "begun")
    BY <2>1 DEF SenderPosts, CoordinationInvariant, TypeOK
  <2> QED
    BY <2>2 DEF CoordinationInvariant, SendersAgree, HandedSettled
<1> QED
  BY <1>1, Invariant, PTL DEF Spec, PostsOwnSymbol

=============================================================================
