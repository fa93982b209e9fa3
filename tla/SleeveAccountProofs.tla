------------------------ MODULE SleeveAccountProofs ------------------------
(***************************************************************************)
(* More proofs about SleeveLedger, those that count shares.  A plan and a  *)
(* division of a fill lose no share and make none, so the sleeves together *)
(* hold what was booked; only the last order can make the account and the  *)
(* sleeves differ, so a validation that passes is true; and an order that  *)
(* is booked in full leaves every sleeve at its target.                    *)
(***************************************************************************)
EXTENDS SleeveLedgerProofs, SumTheorems

-----------------------------------------------------------------------------
(* What is crossed inside.                                                 *)

Fewer(x, y) == IF x < y THEN x ELSE y

\* One sleeve takes what is left, up to what it wants.
LEMMA ClampStep ==
    ASSUME NEW b \in Nat, NEW y \in Int, NEW x \in Nat
    PROVE  Fewer(b, y) + Clamp(b - y, x) = Fewer(b, y + x)
BY DEF Clamp, Fewer

\* Taking from the front, each at most what it wants, takes what there is to
\* take (_split_internal_and_external_allocations).
LEMMA ClampsFill ==
    ASSUME NEW N \in Nat, NEW w \in [1 .. N -> Nat],
           NEW b \in 0 .. SumFunctionOnSet(w, 1 .. N), NEW taken,
           \A s \in 1 .. N :
              taken[s] = Clamp(b - SumFunctionOnSet(w, 1 .. s - 1), w[s])
    PROVE  SumFunctionOnSet(taken, 1 .. N) = b
<1> DEFINE sw(n) == SumFunctionOnSet(w, 1 .. n)
           st(n) == SumFunctionOnSet(taken, 1 .. n)
           K == {n \in Nat : n <= N => st(n) = Fewer(b, sw(n))}
<1>1. \A s \in 1 .. N : taken[s] \in Int
  BY ClampRange
<1>2. \A n \in 0 .. N : sw(n) \in Int /\ st(n) \in Int
  <2> TAKE n \in 0 .. N
  <2>1. IsFiniteSet(1 .. n)
    BY FS_Interval
  <2>2. \A s \in 1 .. n : w[s] \in Int /\ taken[s] \in Int
    BY <1>1
  <2> QED
    BY <2>1, <2>2, SumTyped
<1>3. ASSUME NEW n \in Nat, n + 1 <= N
      PROVE  /\ sw(n + 1) = sw(n) + w[n + 1]
             /\ st(n + 1) = st(n) + taken[n + 1]
             /\ taken[n + 1] = Clamp(b - sw(n), w[n + 1])
             /\ w[n + 1] \in Nat
  <2>1. \A s \in 1 .. n + 1 : w[s] \in Int /\ taken[s] \in Int
    BY <1>1, <1>3
  <2>2. n + 1 \in 1 .. N /\ (n + 1) - 1 = n
    BY <1>3
  <2>3. taken[n + 1] = Clamp(b - SumFunctionOnSet(w, 1 .. (n + 1) - 1), w[n + 1])
    BY <2>2
  <2> QED
    BY <2>1, <2>2, <2>3, SumPrefix
<1>4. sw(0) = 0 /\ st(0) = 0
  <2>1. 1 .. 0 = {}
    OBVIOUS
  <2> QED
    BY <2>1, SumEmpty
<1>5. b \in Nat /\ b <= sw(N)
  BY <1>2
<1> HIDE DEF sw, st
<1>6. 0 \in K
  BY <1>4, <1>5 DEF Fewer
<1>7. ASSUME NEW n \in Nat, n \in K
      PROVE  n + 1 \in K
  <2> SUFFICES ASSUME n + 1 <= N
               PROVE  st(n + 1) = Fewer(b, sw(n + 1))
    OBVIOUS
  <2>1. st(n) = Fewer(b, sw(n))
    BY <1>7
  <2>2. sw(n) \in Int /\ st(n) \in Int
    BY <1>2
  <2>3. /\ sw(n + 1) = sw(n) + w[n + 1]
        /\ st(n + 1) = st(n) + Clamp(b - sw(n), w[n + 1])
        /\ w[n + 1] \in Nat
    BY <1>3
  <2> HIDE DEF K
  <2>4. b \in Nat /\ sw(n) \in Int /\ w[n + 1] \in Nat
    BY <1>5, <2>2, <2>3
  <2>5. Fewer(b, sw(n)) + Clamp(b - sw(n), w[n + 1]) = Fewer(b, sw(n) + w[n + 1])
    BY <2>4, ClampStep, Zenon
  <2> QED
    BY <2>1, <2>3, <2>5, Zenon
<1> HIDE DEF K
<1>8. N \in K
  BY <1>6, <1>7, NaturalsFromZero
<1> QED
  BY <1>2, <1>5, <1>8 DEF K, st, sw, Fewer

\* The sleeves are finitely many.
LEMMA SleevesFinite ==
    /\ IsFiniteSet(Sleeves) /\ SleeveCount \in Nat
    /\ \A n \in Int : IsFiniteSet(1 .. n)
BY SleevesTyped, FS_Interval DEF Sleeves

\* The sleeves together, of integers, is an integer.
LEMMA TotalTyped ==
    ASSUME NEW f, \A s \in Sleeves : f[s] \in Int
    PROVE  Total(f) \in Int
BY SleevesFinite, SumTyped DEF Total

\* The totals of two functions are the total of their sum.
LEMMA TotalPlus ==
    ASSUME NEW f, NEW g, NEW h,
           \A s \in Sleeves : f[s] \in Int /\ g[s] \in Int /\ h[s] = f[s] + g[s]
    PROVE  Total(h) = Total(f) + Total(g)
BY SleevesFinite, SumPlus DEF Total

\* A factor common to the sleeves is a factor of the total.
LEMMA TotalTimes ==
    ASSUME NEW f, NEW h, NEW c \in Int,
           \A s \in Sleeves : f[s] \in Int /\ h[s] = c * f[s]
    PROVE  Total(h) = c * Total(f)
BY SleevesFinite, SumTimes DEF Total

\* No sleeve has more: nor have they together.
LEMMA TotalOrder ==
    ASSUME NEW f, NEW g,
           \A s \in Sleeves : f[s] \in Int /\ g[s] \in Int /\ f[s] <= g[s]
    PROVE  Total(f) <= Total(g)
BY SleevesFinite, SumOrder DEF Total

\* Sleeves that have nothing have nothing together.
LEMMA TotalNothing == Total(Nothing) = 0
<1>1. \A s \in Sleeves : Nothing[s] \in Int /\ Nothing[s] = 0 * Nothing[s]
  BY DEF Nothing
<1>2. Total(Nothing) \in Int
  BY <1>1, TotalTyped
<1>3. Total(Nothing) = 0 * Total(Nothing)
  BY <1>1, TotalTimes
<1> QED
  BY <1>2, <1>3

\* No sleeve has more and together they have as much: each has as much.
LEMMA TotalTight ==
    ASSUME NEW f, NEW g,
           \A s \in Sleeves : f[s] \in Int /\ g[s] \in Int /\ f[s] <= g[s],
           Total(f) = Total(g)
    PROVE  \A s \in Sleeves : f[s] = g[s]
BY SleevesFinite, SumTight DEF Total

\* The internal crosses of a plan move no share in or out, and what they leave
\* for the broker is all on the side of the net: the smaller side of the cross
\* is used up (_split_internal_and_external_allocations).
LEMMA CrossedBalanced ==
    ASSUME NEW delta \in [Sleeves -> Int]
    PROVE  /\ Total(Crossed(delta)) = 0
           /\ Total(delta) \in Int
           /\ \A s \in Sleeves :
                 /\ Total(delta) >= 0 => delta[s] - Crossed(delta)[s] >= 0
                 /\ Total(delta) <= 0 => delta[s] - Crossed(delta)[s] <= 0
<1> DEFINE wants(sign) ==
             [s \in Sleeves |-> IF Sign(delta[s]) = sign THEN Abs(delta[s]) ELSE 0]
           side(sign, S) == SumFunctionOnSet(wants(sign), S)
           both == IF side(1, Sleeves) < side(-1, Sleeves)
                     THEN side(1, Sleeves) ELSE side(-1, Sleeves)
           cross == [s \in Sleeves |->
                       Sign(delta[s]) *
                         Clamp(both - side(Sign(delta[s]), 1 .. s - 1), Abs(delta[s]))]
           up == wants(1)
           down == wants(-1)
           ups == [s \in Sleeves |-> Clamp(both - side(1, 1 .. s - 1), up[s])]
           downs == [s \in Sleeves |-> Clamp(both - side(-1, 1 .. s - 1), down[s])]
<1>1. Crossed(delta) = cross
  BY Zenon DEF Crossed
<1>2. /\ \A s \in Sleeves : up[s] = IF delta[s] > 0 THEN delta[s] ELSE 0
      /\ \A s \in Sleeves : down[s] = IF delta[s] < 0 THEN -delta[s] ELSE 0
  BY SignAbs
<1>3. up \in [Sleeves -> Nat] /\ down \in [Sleeves -> Nat]
  BY <1>2
<1>4. /\ side(1, Sleeves) = Total(up) /\ side(-1, Sleeves) = Total(down)
      /\ side(1, 1 .. SleeveCount) = Total(up)
      /\ side(-1, 1 .. SleeveCount) = Total(down)
  BY DEF Total, Sleeves
<1>5. Total(up) \in Int /\ Total(down) \in Int
  <2> HIDE DEF up, down
  <2> QED
    BY <1>3, TotalTyped
<1>6. \A s \in Sleeves :
         /\ cross[s] = ups[s] - downs[s]
         /\ ups[s] \in 0 .. up[s] /\ downs[s] \in 0 .. down[s]
         /\ delta[s] \in Int /\ up[s] \in Nat /\ down[s] \in Nat
         /\ delta[s] = up[s] - down[s]
         /\ delta[s] >= 0 => down[s] = 0
         /\ delta[s] <= 0 => up[s] = 0
  <2> TAKE s \in Sleeves
  <2>1. delta[s] \in Int /\ up[s] \in Nat /\ down[s] \in Nat
    BY <1>3
  <2>2. ups[s] \in 0 .. up[s] /\ downs[s] \in 0 .. down[s]
    BY <2>1, ClampRange
  <2>3. CASE delta[s] > 0
    <3>1. Sign(delta[s]) = 1 /\ Abs(delta[s]) = delta[s] /\ up[s] = delta[s] /\ down[s] = 0
      BY <1>2, <2>1, <2>3, SignAbs
    <3>2. cross[s] = 1 * ups[s]
      BY <3>1, Zenon
    <3> HIDE DEF cross, ups, downs, up, down
    <3> QED
      BY <2>1, <2>2, <2>3, <3>1, <3>2
  <2>4. CASE delta[s] < 0
    <3>1. /\ Sign(delta[s]) = -1 /\ Abs(delta[s]) = -delta[s]
          /\ up[s] = 0 /\ down[s] = -delta[s]
      BY <1>2, <2>1, <2>4, SignAbs
    <3>2. cross[s] = (-1) * downs[s]
      BY <3>1, Zenon
    <3> HIDE DEF cross, ups, downs, up, down
    <3> QED
      BY <2>1, <2>2, <2>4, <3>1, <3>2
  <2>5. CASE delta[s] = 0
    <3>1. Sign(delta[s]) = 0 /\ Abs(delta[s]) = 0 /\ up[s] = 0 /\ down[s] = 0
      BY <1>2, <2>1, <2>5, SignAbs
    <3>2. PICK c \in 0 .. 0 : cross[s] = 0 * c
      BY <3>1, ClampRange
    <3> HIDE DEF cross, ups, downs, up, down
    <3> QED
      BY <2>1, <2>2, <2>5, <3>1, <3>2
  <2> QED
    BY <2>1, <2>3, <2>4, <2>5
<1>7. both \in Int /\ both = Fewer(Total(up), Total(down))
  BY <1>4, <1>5, Zenon DEF Fewer
<1> HIDE DEF wants
<1>8. Total(ups) = both /\ Total(downs) = both
  <2>1. 0 <= Total(up) /\ 0 <= Total(down)
    <3>1. \A s \in Sleeves : /\ Nothing[s] \in Int /\ up[s] \in Int /\ down[s] \in Int
                            /\ Nothing[s] <= up[s] /\ Nothing[s] <= down[s]
      BY <1>3 DEF Nothing
    <3> HIDE DEF up, down
    <3> QED
      BY <3>1, TotalOrder, TotalNothing
  <2>2. both \in 0 .. Total(up) /\ both \in 0 .. Total(down)
    <3> HIDE DEF both, up, down
    <3> QED
      BY <1>5, <1>7, <2>1 DEF Fewer
  <2>3. /\ SleeveCount \in Nat /\ Sleeves = 1 .. SleeveCount
        /\ \A s \in 1 .. SleeveCount :
             /\ ups[s] = Clamp(both - SumFunctionOnSet(up, 1 .. s - 1), up[s])
             /\ downs[s] = Clamp(both - SumFunctionOnSet(down, 1 .. s - 1), down[s])
    BY SleevesTyped DEF Sleeves
  <2> HIDE DEF both, up, down, ups, downs
  <2>4. Total(ups) = both
    BY <1>3, <2>2, <2>3, ClampsFill DEF Total
  <2>5. Total(downs) = both
    BY <1>3, <2>2, <2>3, ClampsFill DEF Total
  <2> QED
    BY <2>4, <2>5
<1> HIDE DEF cross, up, down, ups, downs, both
<1>9. \A s \in Sleeves :
         /\ cross[s] \in Int /\ ups[s] \in Int /\ downs[s] \in Int
         /\ ups[s] <= up[s] /\ downs[s] <= down[s]
         /\ ups[s] = cross[s] + downs[s]
         /\ up[s] = delta[s] + down[s]
         /\ delta[s] - cross[s] = (up[s] - ups[s]) - (down[s] - downs[s])
  BY <1>6
<1>10. Total(cross) \in Int /\ Total(delta) \in Int
  BY <1>6, <1>9, TotalTyped
<1>11. Total(cross) = 0
  <2>1. Total(ups) = Total(cross) + Total(downs)
    BY <1>9, TotalPlus
  <2> QED
    BY <1>7, <1>8, <1>10, <2>1
<1>12. Total(up) = Total(delta) + Total(down)
  BY <1>6, <1>9, TotalPlus
<1>13. ASSUME Total(delta) >= 0
       PROVE  \A s \in Sleeves : delta[s] - cross[s] >= 0
  <2>1. Total(downs) = Total(down)
    BY <1>5, <1>7, <1>8, <1>10, <1>12, <1>13 DEF Fewer
  <2>2. \A s \in Sleeves : downs[s] = down[s]
    BY <1>6, <1>9, <2>1, TotalTight
  <2> QED
    BY <1>6, <1>9, <2>2
<1>14. ASSUME Total(delta) <= 0
       PROVE  \A s \in Sleeves : delta[s] - cross[s] <= 0
  <2>1. Total(ups) = Total(up)
    BY <1>5, <1>7, <1>8, <1>10, <1>12, <1>14 DEF Fewer
  <2>2. \A s \in Sleeves : ups[s] = up[s]
    BY <1>6, <1>9, <2>1, TotalTight
  <2>3. \A s \in Sleeves : delta[s] - cross[s] = 0 - (down[s] - downs[s])
    BY <1>6, <1>9, <2>2
  <2> QED
    BY <1>6, <1>9, <2>3
<1> QED
  BY <1>1, <1>10, <1>11, <1>13, <1>14

\* The net plan of a cycle divides its net exactly, and crossing inside alone
\* leaves the account as it is (build_symbol_net_plan).
THEOREM NetPlanBalanced ==
    ASSUME NEW base \in [Sleeves -> Int], NEW target \in [Sleeves -> Int], NEW net,
           net = Total(target) - Total(base)
    PROVE  /\ net # 0 => Balanced(NetPlan(base, target, net))
           /\ Total(NetPlan(base, target, net).internal) = 0
           /\ NetPlan(base, target, net).internal \in [Sleeves -> Int]
<1> DEFINE delta == [s \in Sleeves |-> target[s] - base[s]]
           internal == Crossed(delta)
           external == [s \in Sleeves |-> delta[s] - internal[s]]
           plan == NetPlan(base, target, net)
<1>1. delta \in [Sleeves -> Int]
  OBVIOUS
<1>2. internal \in [Sleeves -> Int]
  BY <1>1, CrossedRange
<1>3. plan = [base |-> base, target |-> target, side |-> Sign(net),
              quantity |-> Abs(net), internal |-> internal, external |-> external]
  BY Zenon DEF NetPlan
<1>4. \A s \in Sleeves :
         /\ base[s] \in Int /\ target[s] \in Int /\ delta[s] \in Int
         /\ internal[s] \in Int /\ external[s] \in Int
         /\ target[s] = delta[s] + base[s]
         /\ delta[s] = external[s] + internal[s]
         /\ external[s] = delta[s] - internal[s]
  <2> TAKE s \in Sleeves
  <2>1. delta[s] = target[s] - base[s] /\ external[s] = delta[s] - internal[s]
    OBVIOUS
  <2>2. base[s] \in Int /\ target[s] \in Int /\ internal[s] \in Int
    BY <1>2
  <2> HIDE DEF delta, internal, external
  <2> QED
    BY <2>1, <2>2
<1>5. /\ Total(internal) = 0 /\ Total(delta) \in Int
      /\ \A s \in Sleeves : /\ Total(delta) >= 0 => external[s] >= 0
                            /\ Total(delta) <= 0 => external[s] <= 0
  <2>1. /\ Total(internal) = 0 /\ Total(delta) \in Int
        /\ \A s \in Sleeves : /\ Total(delta) >= 0 => delta[s] - internal[s] >= 0
                              /\ Total(delta) <= 0 => delta[s] - internal[s] <= 0
    BY <1>1, CrossedBalanced
  <2> HIDE DEF delta, internal
  <2> QED
    BY <2>1
<1> HIDE DEF delta, internal, external, plan
<1>6. /\ Total(target) = Total(delta) + Total(base)
      /\ Total(delta) = Total(external) + Total(internal)
      /\ Total(base) \in Int /\ Total(external) \in Int
  BY <1>4, TotalPlus, TotalTyped
<1>7. net = Total(delta) /\ net = Total(external) /\ net \in Int
  BY <1>5, <1>6
<1>8. /\ plan.base = base /\ plan.target = target /\ plan.side = Sign(net)
      /\ plan.quantity = Abs(net) /\ plan.internal = internal
      /\ plan.external = external
  BY <1>3
<1>9. ASSUME net # 0
      PROVE  Balanced(plan)
  <2>1. Sign(net) \in {-1, 1} /\ Abs(net) > 0 /\ net = Sign(net) * Abs(net)
    BY <1>7, <1>9 DEF Sign, Abs
  <2>2. ASSUME NEW s \in Sleeves
        PROVE  /\ Sign(external[s]) \in {0, Sign(net)}
               /\ base[s] + internal[s] + external[s] = target[s]
    <3>1. Sign(external[s]) \in {0, Sign(net)}
      BY <1>4, <1>5, <1>7, <1>9 DEF Sign
    <3> QED
      BY <1>4, <3>1
  <2> QED
    BY <1>5, <1>7, <1>8, <2>1, <2>2 DEF Balanced
<1> QED
  BY <1>2, <1>5, <1>8, <1>9 DEF plan

-----------------------------------------------------------------------------
(* What a fill is divided into.                                            *)

\* A division with remainder.
LEMMA Divides ==
    ASSUME NEW x \in Nat, NEW q \in Nat \ {0}
    PROVE  /\ x \div q \in Nat /\ x % q \in 0 .. q - 1
           /\ x = q * (x \div q) + (x % q)
<1>1. x % q \in 0 .. q - 1 /\ x = q * (x \div q) + (x % q)
  OBVIOUS
<1>2. x \div q \in Int /\ x \div q >= 0
  OBVIOUS
<1> QED
  BY <1>1, <1>2

\* A fill is divided without a share lost or made: the rounded parts leave no
\* more shares over than there are sleeves that can take one, and the ranking
\* hands out just those (_proportional_signed_quantities).
THEOREM SharesTotal ==
    ASSUME NEW plan \in Plans, Balanced(plan), NEW filled \in 0 .. plan.quantity
    PROVE  Total(Shares(plan, filled)) = plan.side * filled
<1> DEFINE ext(s) == plan.external[s]
           part(s) == Abs(ext(s)) * filled
           whole(s) == part(s) \div plan.quantity
           rest(s) == part(s) % plan.quantity
           left == Abs(filled - Total([s \in Sleeves |-> whole(s)]))
           eligible(s) == Sign(ext(s)) = plan.side /\ whole(s) < Abs(ext(s))
           before(t, s) == rest(t) > rest(s) \/ (rest(t) = rest(s) /\ t < s)
           chosen(s) ==
             /\ eligible(s)
             /\ Cardinality({t \in Sleeves : eligible(t) /\ before(t, s)}) < left
           share(s) == Sign(ext(s)) * (whole(s) + IF chosen(s) THEN 1 ELSE 0)
           q == plan.quantity
           size == [s \in Sleeves |-> Abs(ext(s))]
           parts == [s \in Sleeves |-> part(s)]
           wholes == [s \in Sleeves |-> whole(s)]
           rests == [s \in Sleeves |-> rest(s)]
           extra == [s \in Sleeves |-> IF chosen(s) THEN 1 ELSE 0]
<1>1. Shares(plan, filled) =
        IF filled = 0 THEN Nothing ELSE [s \in Sleeves |-> share(s)]
  BY Zenon DEF Shares
<1>2. /\ q \in Nat \ {0} /\ filled \in Nat /\ filled <= q
      /\ \A s \in Sleeves : ext(s) \in Int
      /\ plan.side \in {-1, 1} /\ Total(plan.external) = plan.side * q
      /\ \A s \in Sleeves : Sign(ext(s)) \in {0, plan.side}
  BY DEF Plans, Balanced
<1>3. \A s \in Sleeves :
         /\ size[s] \in Nat /\ ext(s) = plan.side * size[s]
         /\ Sign(ext(s)) = IF size[s] = 0 THEN 0 ELSE plan.side
  BY <1>2, SignAbs
<1>4. \A s \in Sleeves :
         /\ parts[s] = filled * size[s] /\ parts[s] \in Nat
         /\ wholes[s] \in Nat /\ rests[s] \in 0 .. q - 1
         /\ parts[s] = q * wholes[s] + rests[s]
  <2> TAKE s \in Sleeves
  <2>1. size[s] \in Nat /\ parts[s] = size[s] * filled
    BY <1>3
  <2>2. parts[s] = filled * size[s] /\ parts[s] \in Nat
    <3> HIDE DEF size, parts
    <3> QED
      BY <1>2, <2>1, Distributes
  <2>3. wholes[s] = parts[s] \div q /\ rests[s] = parts[s] % q
    OBVIOUS
  <2> HIDE DEF size, parts, wholes, rests, q
  <2> QED
    BY <1>2, <2>2, <2>3, Divides
<1> DEFINE E == {s \in Sleeves : eligible(s)}
           B == {p \in Sleeves \X Sleeves : before(p[1], p[2])}
           W == Total(wholes)
<1>5. \A s \in Sleeves : extra[s] = IF chosen(s) THEN 1 ELSE 0
  OBVIOUS
<1>6. \A s \in Sleeves : eligible(s) <=> Sign(ext(s)) = plan.side /\ wholes[s] < size[s]
  OBVIOUS
<1>7. \A s \in Sleeves : share(s) = Sign(ext(s)) * (wholes[s] + extra[s])
  OBVIOUS
<1>8. left = Abs(filled - W)
  OBVIOUS
<1>9. \A s, t \in Sleeves :
         <<s, t>> \in B <=> rests[s] > rests[t] \/ (rests[s] = rests[t] /\ s < t)
  OBVIOUS
<1>10. \A s \in Sleeves :
          chosen(s) <=> /\ s \in E
                        /\ Cardinality({t \in E : <<t, s>> \in B}) < left
  <2> TAKE s \in Sleeves
  <2>1. {t \in Sleeves : eligible(t) /\ before(t, s)} = {t \in E : <<t, s>> \in B}
    OBVIOUS
  <2>2. eligible(s) <=> s \in E
    OBVIOUS
  <2> QED
    BY <2>1, <2>2, Zenon
<1>11. \A s \in Sleeves : s \in E <=> eligible(s)
  OBVIOUS
<1>12. E \subseteq Sleeves
  OBVIOUS
<1> HIDE DEF E, B, left, chosen, share, extra, wholes, rests, parts, size, W
<1>13. /\ \A s \in E : <<s, s>> \notin B
       /\ \A r, s, t \in E : <<r, s>> \in B /\ <<s, t>> \in B => <<r, t>> \in B
       /\ \A s, t \in E : s # t => <<s, t>> \in B \/ <<t, s>> \in B
  <2>1. \A s \in E : s \in Sleeves /\ s \in Int /\ rests[s] \in Int
    BY <1>4, <1>12 DEF Sleeves
  <2> QED
    BY <1>9, <2>1
<1>14. \A s \in Sleeves : extra[s] \in {0, 1}
  BY <1>5
<1>15. Total(size) = q
  <2>1. \A s \in Sleeves : plan.external[s] \in Int /\ size[s] = plan.side * plan.external[s]
    <3> TAKE s \in Sleeves
    <3>1. plan.external[s] = plan.side * size[s] /\ size[s] \in Nat
      BY <1>3
    <3> QED
      BY <1>2, <3>1
  <2>2. Total(size) = plan.side * Total(plan.external)
    BY <1>2, <2>1, TotalTimes
  <2> QED
    BY <1>2, <2>2
<1>16. Total(parts) = filled * q
  BY <1>2, <1>3, <1>4, <1>15, TotalTimes
<1>17. /\ W \in Int /\ Total(rests) \in Int /\ Total(extra) \in Int
       /\ Total(parts) = q * W + Total(rests)
  <2> DEFINE qwholes == [s \in Sleeves |-> q * wholes[s]]
  <2>1. \A s \in Sleeves :
           /\ wholes[s] \in Int /\ rests[s] \in Int /\ extra[s] \in Int
           /\ qwholes[s] = q * wholes[s] /\ parts[s] = qwholes[s] + rests[s]
    BY <1>4, <1>14
  <2>2. \A s \in Sleeves : qwholes[s] \in Int
    BY <1>2, <2>1
  <2> HIDE DEF qwholes
  <2>3. Total(qwholes) = q * Total(wholes)
    BY <1>2, <2>1, TotalTimes
  <2>4. Total(parts) = Total(qwholes) + Total(rests)
    BY <2>1, <2>2, TotalPlus
  <2> QED
    BY <2>1, <2>3, <2>4, TotalTyped DEF W
<1> DEFINE P == {s \in Sleeves : rests[s] > 0}
           pos == [s \in Sleeves |-> IF rests[s] > 0 THEN 1 ELSE 0]
<1>18. P \subseteq E
  <2> SUFFICES ASSUME NEW s \in Sleeves, rests[s] > 0
               PROVE  s \in E
    OBVIOUS
  <2>1. /\ parts[s] = filled * size[s] /\ parts[s] = q * wholes[s] + rests[s]
        /\ wholes[s] \in Nat /\ rests[s] \in Int /\ size[s] \in Nat
    BY <1>3, <1>4
  <2>2. filled * size[s] <= q * size[s]
    <3>1. \A a, b, c \in Nat : a <= b => a * c <= b * c
      OBVIOUS
    <3> QED
      BY <1>2, <2>1, <3>1
  <2>3. wholes[s] < size[s]
    <3> SUFFICES ASSUME wholes[s] >= size[s]
                 PROVE  FALSE
      BY <2>1
    <3>1. q * wholes[s] >= q * size[s]
      <4>1. \A a, b, c \in Nat : a <= b => c * a <= c * b
        OBVIOUS
      <4> QED
        BY <1>2, <2>1, <4>1
    <3>2. q * wholes[s] \in Int /\ q * size[s] \in Int /\ filled * size[s] \in Int
      BY <1>2, <2>1
    <3> QED
      BY <2>1, <2>2, <3>1, <3>2
  <2>4. size[s] # 0
    BY <2>1, <2>3
  <2>5. Sign(ext(s)) = plan.side
    BY <1>3, <2>4
  <2> QED
    BY <1>6, <1>11, <2>3, <2>5
<1>19. /\ IsFiniteSet(E) /\ Cardinality(P) \in Nat /\ Cardinality(E) \in Nat
       /\ Cardinality(P) <= Cardinality(E)
  <2>1. IsFiniteSet(E)
    BY <1>12, SleevesFinite, FS_Subset
  <2> QED
    BY <1>18, <2>1, FS_Subset, FS_CardinalityType
<1>20. Total(pos) = Cardinality(P)
  <2>1. \A s \in Sleeves : pos[s] \in {0, 1} /\ (pos[s] = 1 <=> rests[s] > 0)
    OBVIOUS
  <2> HIDE DEF pos
  <2>2. SumFunctionOnSet(pos, Sleeves) = Cardinality({s \in Sleeves : pos[s] = 1})
    BY <2>1, SleevesFinite, SumCounts
  <2>3. {s \in Sleeves : pos[s] = 1} = P
    BY <2>1
  <2> QED
    BY <2>2, <2>3 DEF Total
<1>21. Total(rests) >= 0 /\ Total(rests) <= (q - 1) * Cardinality(P)
  <2> DEFINE most == [s \in Sleeves |-> (q - 1) * pos[s]]
  <2>1. \A s \in Sleeves :
           /\ rests[s] \in Int /\ 0 <= rests[s] /\ rests[s] <= q - 1
           /\ pos[s] = IF rests[s] > 0 THEN 1 ELSE 0
           /\ most[s] = (q - 1) * pos[s] /\ Nothing[s] = 0
    BY <1>2, <1>4 DEF Nothing
  <2>2. \A s \in Sleeves :
           /\ rests[s] \in Int /\ pos[s] \in Int /\ most[s] \in Int
           /\ rests[s] <= most[s] /\ Nothing[s] <= rests[s] /\ Nothing[s] \in Int
    <3> HIDE DEF pos, most
    <3> QED
      BY <1>2, <2>1
  <2> HIDE DEF pos, most
  <2>3. Total(most) = (q - 1) * Total(pos)
    BY <1>2, <2>1, <2>2, TotalTimes
  <2> QED
    BY <1>20, <2>2, <2>3, TotalOrder, TotalNothing
<1> HIDE DEF P, pos
\* So W falls short of the fill by no more than the sleeves that can take one.
<1>22. left \in 0 .. Cardinality(E) /\ left = filled - W
  <2>1. ASSUME NEW a \in Nat \ {0}, NEW b \in Nat, NEW w \in Int, NEW r \in Int,
               NEW p \in Nat, b * a = a * w + r, r >= 0, r <= (a - 1) * p
        PROVE  w <= b /\ b - w <= p
    <3> DEFINE d == b - w
    <3>1. d \in Int /\ r = a * d
      BY <2>1
    <3>2. d >= 0
      <4>1. \A x \in Nat \ {0}, y \in Int : y <= -1 => x * y <= -1
        OBVIOUS
      <4> HIDE DEF d
      <4> QED
        BY <2>1, <3>1, <4>1
    <3>3. d <= p
      <4>1. \A x \in Nat \ {0}, y \in Nat, z \in Nat : y > z => x * y > (x - 1) * z
        <5> TAKE x \in Nat \ {0}, y \in Nat, z \in Nat
        <5> HAVE y > z
        <5>1. x * y >= x * (z + 1)
          OBVIOUS
        <5> QED
          BY <5>1
      <4> HIDE DEF d
      <4> QED
        BY <2>1, <3>1, <3>2, <4>1
    <3> QED
      BY <2>1, <3>1, <3>2, <3>3
  <2>2. filled * q = q * W + Total(rests)
    BY <1>16, <1>17
  <2>3. W <= filled /\ filled - W <= Cardinality(P)
    BY <1>2, <1>17, <1>19, <1>21, <2>1, <2>2
  <2> QED
    BY <1>2, <1>8, <1>17, <1>19, <2>3 DEF Abs
<1>23. Total(extra) = left
  <2>1. \A s \in Sleeves :
           extra[s] = 1 <=> /\ s \in E
                            /\ Cardinality({t \in E : <<t, s>> \in B}) < left
    BY <1>5, <1>10
  <2>2. {s \in Sleeves : extra[s] = 1} =
          {s \in E : Cardinality({t \in E : <<t, s>> \in B}) < left}
    BY <1>12, <2>1
  <2>3. SumFunctionOnSet(extra, Sleeves) = Cardinality({s \in Sleeves : extra[s] = 1})
    BY <1>14, SleevesFinite, SumCounts
  <2>4. Cardinality({s \in E : Cardinality({t \in E : <<t, s>> \in B}) < left}) = left
    <3>1. IsFiniteSet(E) /\ left \in 0 .. Cardinality(E)
      BY <1>19, <1>22
    <3>2. Ranks(E, B)
      BY <1>13 DEF Ranks
    <3>3. Cardinality(Foremost(E, B, left)) = left
      BY <3>1, <3>2, RanksCount
    <3> QED
      BY <3>3 DEF Foremost
  <2> QED
    BY <2>2, <2>3, <2>4 DEF Total
<1> DEFINE given == [s \in Sleeves |-> wholes[s] + extra[s]]
           shares == [s \in Sleeves |-> share(s)]
<1>24. \A s \in Sleeves : /\ given[s] \in Int
                          /\ given[s] = wholes[s] + extra[s]
                          /\ shares[s] = plan.side * given[s]
  <2> TAKE s \in Sleeves
  <2>1. wholes[s] \in Nat /\ extra[s] \in {0, 1} /\ given[s] = wholes[s] + extra[s]
    BY <1>4, <1>14
  <2>2. shares[s] = Sign(ext(s)) * given[s]
    BY <1>7
  <2>3. CASE size[s] = 0
    <3>1. parts[s] = 0
      BY <1>2, <1>4, <2>3
    <3>2. wholes[s] = 0
      <4>1. 0 = q * wholes[s] + rests[s] /\ rests[s] >= 0
        BY <1>2, <1>4, <3>1
      <4>2. \A x \in Nat \ {0}, y \in Nat, z \in Int : 0 = x * y + z /\ z >= 0 => y = 0
        OBVIOUS
      <4>3. rests[s] \in Int
        BY <1>2, <1>4
      <4> QED
        BY <1>2, <2>1, <4>1, <4>2, <4>3
    <3>3. s \notin E
      BY <1>6, <1>11, <2>3, <3>2
    <3>4. extra[s] = 0
      BY <1>5, <1>10, <3>3
    <3> HIDE DEF given, shares
    <3>5. Sign(ext(s)) = 0 /\ given[s] = 0
      BY <1>3, <2>1, <2>3, <3>2, <3>4
    <3> QED
      BY <1>2, <2>1, <2>2, <3>5
  <2>4. CASE size[s] # 0
    BY <1>3, <2>1, <2>2, <2>4
  <2> QED
    BY <2>1, <2>3, <2>4
<1> HIDE DEF given, shares, q
<1>25. Total(given) = filled
  <2>1. Total(given) = Total(wholes) + Total(extra)
    BY <1>4, <1>14, <1>24, TotalPlus
  <2> QED
    BY <1>2, <1>17, <1>22, <1>23, <2>1 DEF W
<1>26. Total(shares) = plan.side * filled
  BY <1>2, <1>24, <1>25, TotalTimes
<1>27. CASE filled = 0
  BY <1>1, <1>2, <1>27, TotalNothing
<1>28. CASE filled # 0
  BY <1>1, <1>26, <1>28 DEF shares
<1> QED
  BY <1>27, <1>28

\* An order that fills in full gives every sleeve just its allocation
\* (_proportional_signed_quantities).
LEMMA SharesFull ==
    ASSUME NEW plan \in Plans, Balanced(plan), NEW s \in Sleeves
    PROVE  Shares(plan, plan.quantity)[s] = plan.external[s]
<1> DEFINE q == plan.quantity
           ext == plan.external[s]
           whole == (Abs(ext) * q) \div q
<1>1. /\ q \in Nat \ {0} /\ ext \in Int /\ plan.side \in {-1, 1}
      /\ Abs(ext) \in Nat
  BY SignAbs DEF Plans, Balanced
<1>2. whole = Abs(ext)
  <2>1. ASSUME NEW a \in Nat, NEW b \in Nat \ {0}
        PROVE  (a * b) \div b = a
    <3> DEFINE w == (a * b) \div b
               r == (a * b) % b
    <3>1. a * b \in Nat /\ a * b = b * a
      BY <2>1, Distributes
    <3>2. w \in Nat /\ r \in 0 .. b - 1 /\ b * a = b * w + r
      BY <3>1, Divides
    <3> HIDE DEF w, r
    <3>3. b * (a - w) = r
      BY <3>2
    <3>4. a - w \in Int /\ ~ (a - w > 0) /\ ~ (a - w < 0)
      <4>1. \A d \in Int : /\ d > 0 => b * d >= b
                           /\ d < 0 => b * d < 0
        OBVIOUS
      <4>2. a - w \in Int
        BY <3>2
      <4> QED
        BY <3>2, <3>3, <4>1, <4>2
    <3>5. w = a
      BY <3>2, <3>4
    <3> QED
      BY <3>5 DEF w
  <2> QED
    BY <1>1, <2>1
<1>3. Shares(plan, q)[s] = Sign(ext) * (whole + 0)
  <2>1. ~ (whole < Abs(ext))
    BY <1>1, <1>2
  <2> QED
    BY <1>1, <2>1 DEF Shares
<1> HIDE DEF q, whole
<1>4. Sign(ext) * Abs(ext) = ext
  BY <1>1, SignAbs
<1>5. whole + 0 = Abs(ext)
  BY <1>1, <1>2
<1> QED
  BY <1>3, <1>4, <1>5 DEF q

-----------------------------------------------------------------------------
(* The parts of the inductive invariant.                                   *)

\* Dispatch states follow the worker, polls or notices.
LEMMA OrdersFollowPreserved ==
    ASSUME TypeOK, BooksFollow, OrdersFollow, [Next]_vars PROVE OrdersFollow'
BY OrdersFollowCycle, OrdersFollowOthers DEF Next

\* Every plan that is sent divides its net exactly (build_symbol_net_plan).
LEMMA BalancePreserved ==
    ASSUME TypeOK, OrdersFollow, PlansBalanced, [Next]_vars PROVE PlansBalanced'
<1> USE DEF market, memory, saved, ledger
<1>0. /\ count \in 0 .. MaxOrders /\ MaxOrders \in Nat
      /\ worker \in [pc : Places, plan : Plans, holding : Int]
      /\ position \in [Sleeves -> Int]
  BY SleevesTyped DEF TypeOK
<1>1. ASSUME count' = count,
             worker'.pc \in {"planned", "cleared", "fresh", "valid"} =>
                 Balanced(worker'.plan)
      PROVE  PlansBalanced'
  <2>1. \A o \in 1 .. count : orders'[o].plan = orders[o].plan
    BY PlansStay, AcceptedSent
  <2>2. \A o \in 1 .. count' : Balanced(orders'[o].plan)
    BY <1>1, <2>1 DEF PlansBalanced
  <2> QED
    BY <1>1, <2>2 DEF PlansBalanced, Balanced
<1>2. CASE CyclePlans
  <2>1. PICK target \in Targets :
          /\ Abs(Total(target) - Total(position)) \in 1 .. MaxQuantity
          /\ worker' = [worker EXCEPT !.pc = "planned",
                !.plan = NetPlan(position, target, Total(target) - Total(position))]
    BY <1>2, Zenon DEF CyclePlans
  <2>2. target \in [Sleeves -> Int] /\ Total(target) - Total(position) # 0
    <3>1. target \in [Sleeves -> Int]
      BY <2>1, TargetsTyped
    <3>2. ~ (0 \in 1 .. MaxQuantity) /\ Abs(0) = 0
      BY DEF Abs
    <3> QED
      BY <2>1, <3>1, <3>2
  <2>3. Balanced(NetPlan(position, target, Total(target) - Total(position)))
    BY <1>0, <2>2, NetPlanBalanced, Zenon
  <2>4. worker'.plan = NetPlan(position, target, Total(target) - Total(position))
    BY <1>0, <2>1
  <2>5. count' = count
    BY <1>2 DEF CyclePlans
  <2> QED
    BY <1>1, <2>3, <2>4, <2>5
<1>3. CASE Sends
  <2>1. /\ worker.pc = "valid" /\ worker'.pc = "sent" /\ count' = count + 1
        /\ count + 1 \in Orders
        /\ orders' = [orders EXCEPT ![count + 1] = [plan |-> worker.plan, state |-> "sent"]]
    BY <1>0, <1>3 DEF Sends, Orders
  <2>2. orders'[count + 1].plan = worker.plan
    BY <1>0, <2>1 DEF TypeOK
  <2>3. \A o \in 1 .. count : orders'[o].plan = orders[o].plan
    BY PlansStay, AcceptedSent
  <2>4. Balanced(worker.plan)
    BY <2>1 DEF PlansBalanced
  <2>5. \A o \in 1 .. count' : o \in 1 .. count \/ o = count + 1
    BY <1>0, <2>1
  <2>6. \A o \in 1 .. count' : Balanced(orders'[o].plan)
    BY <2>2, <2>3, <2>4, <2>5 DEF PlansBalanced
  <2> QED
    BY <2>1, <2>6 DEF PlansBalanced, Balanced
<1>4. CASE GateClears \/ GateReads \/ GateDecides
  <2>1. /\ worker'.plan = worker.plan /\ count' = count
        /\ worker.pc \in {"planned", "cleared", "fresh", "valid"}
    BY <1>0, <1>4 DEF GateClears, GateReads, GateDecides, Goes
  <2> QED
    BY <1>1, <2>1 DEF PlansBalanced
<1>5. CASE CycleDrops \/ AckSaved \/ AckLost \/ OrderListed \/ AckRecorded
           \/ AckRecordFails \/ Restart
  <2>1. worker'.pc \notin {"planned", "cleared", "fresh", "valid"} /\ count' = count
    BY <1>0, <1>5 DEF CycleDrops, AckSaved, AckLost, OrderListed, AckRecorded,
       AckRecordFails, Restart, Goes
  <2> QED
    BY <1>1, <2>1
<1>6. CASE CycleCrosses \/ PollStep \/ UNCHANGED vars
  <2>1. UNCHANGED <<worker, count>>
    BY <1>6 DEF CycleCrosses, PollStep, PollReads, PollApplies, PollRecords, PollFails, vars
  <2> QED
    BY <1>1, <2>1 DEF PlansBalanced
<1>7. ASSUME NEW o \in Orders, OrderStep(o) PROVE PlansBalanced'
  <2>1. UNCHANGED <<worker, count>>
    BY <1>7 DEF OrderStep, SyncRecovers, SyncBooks, BrokerFills, BrokerCancels,
       NoticeSaved, ListEvicts
  <2> QED
    BY <1>1, <2>1 DEF PlansBalanced
<1> QED
  BY <1>2, <1>3, <1>4, <1>5, <1>6, <1>7 DEF Next, CycleStep

\* What the broker did in a step: it filled one share of one open order, or
\* ended one, or nothing.
LEMMA BrokerSteps ==
    ASSUME [Next]_vars
    PROVE  \/ UNCHANGED <<executed, canceled, holding>>
           \/ \E o \in Orders : BrokerFills(o) \/ BrokerCancels(o)
<1> USE DEF market, memory, saved, ledger
<1>1. CASE CycleStep
  BY <1>1 DEF CycleStep, CyclePlans, CycleCrosses, CycleDrops, GateClears, GateReads,
     GateDecides, Sends, AckSaved, AckLost, OrderListed, AckRecorded, AckRecordFails
<1>2. CASE PollStep \/ Restart \/ UNCHANGED vars
  BY <1>2 DEF PollStep, PollReads, PollApplies, PollRecords, PollFails, Restart, vars
<1>3. ASSUME NEW o \in Orders, OrderStep(o),
             ~ (BrokerFills(o) \/ BrokerCancels(o))
      PROVE  UNCHANGED <<executed, canceled, holding>>
  BY <1>3 DEF OrderStep, SyncRecovers, SyncBooks, NoticeSaved, ListEvicts
<1> QED
  BY <1>1, <1>2, <1>3 DEF Next

\* The broker fills and ends open orders only.
LEMMA FillsPreserved ==
    ASSUME TypeOK, TypeOK', OrdersFollow, FillsBounded, [Next]_vars
    PROVE  FillsBounded'
<1>0. /\ count \in 0 .. MaxOrders /\ count' \in 0 .. MaxOrders /\ MaxOrders \in Nat
      /\ executed \in [Orders -> Nat]
  BY SleevesTyped DEF TypeOK
<1>1. ASSUME NEW o \in Orders
      PROVE  /\ o <= count => Quantity(o)' = Quantity(o) /\ o <= count'
             /\ Quantity(o)' \in Nat /\ o \in Nat
             /\ o \in Sent => o <= count
  <2>1. Quantity(o)' \in Nat
    BY DEF TypeOK, Plans, Quantity
  <2> QED
    BY <2>1, PlansStay, AcceptedSent DEF Quantity, Orders, Sent
<1>2. CASE UNCHANGED <<executed, canceled, holding>>
  BY <1>0, <1>1, <1>2 DEF FillsBounded
<1>3. ASSUME NEW o \in Orders, BrokerFills(o)
      PROVE  FillsBounded'
  BY <1>0, <1>1, <1>3 DEF BrokerFills, Live, FillsBounded
<1>4. ASSUME NEW o \in Orders, BrokerCancels(o)
      PROVE  FillsBounded'
  BY <1>0, <1>1, <1>4 DEF BrokerCancels, Live, FillsBounded
<1> QED
  BY <1>2, <1>3, <1>4, BrokerSteps

\* Who accepts an order adds crosses that move no share in or out.
LEMMA AcceptTotals ==
    ASSUME TypeOK, OrdersFollow, PlansBalanced, NEW o \in Acked, Accepts(o)
    PROVE  Total(position') = Total(position)
<1>1. /\ o \in 1 .. count /\ o \in Orders
  BY AcceptedSent DEF Acked
<1>2. /\ orders[o].plan.internal \in [Sleeves -> Int] /\ position \in [Sleeves -> Int]
  BY <1>1, PlanOf DEF TypeOK
<1>3. Total(orders[o].plan.internal) = 0
  BY <1>1 DEF PlansBalanced, Balanced
<1>4. position' = [s \in Sleeves |-> position[s] + orders[o].plan.internal[s]]
  BY DEF Accepts
<1>5. \A s \in Sleeves :
         /\ position[s] \in Int /\ orders[o].plan.internal[s] \in Int
         /\ position'[s] = position[s] + orders[o].plan.internal[s]
  BY <1>2, <1>4
<1>6. Total(position') = Total(position) + Total(orders[o].plan.internal)
  BY <1>5, TotalPlus
<1>7. Total(position) \in Int
  BY <1>5, TotalTyped
<1> QED
  BY <1>3, <1>6, <1>7

\* A booking adds to the sleeves just the shares it books.
LEMMA BookTotals ==
    ASSUME TypeOK, BooksFollow, OrdersFollow, PlansBalanced, NEW o \in Orders,
           SyncBooks(o)
    PROVE  /\ o \in 1 .. count
           /\ tally[o] \in Nat /\ booked[o] \in Nat /\ tally[o] <= Quantity(o)
           /\ orders[o].plan.side \in {-1, 1}
           /\ booked' = [booked EXCEPT ![o] = tally[o]]
           /\ Total(position') = Total(position)
                + orders[o].plan.side * (tally[o] - booked[o])
<1> DEFINE plan == orders[o].plan
           after == Shares(plan, tally[o])
           before == Shares(plan, booked[o])
           sum == [s \in Sleeves |-> position[s] + after[s]]
<1>1. /\ booked' = [booked EXCEPT ![o] = tally[o]]
      /\ o \in accepted /\ tally[o] <= Quantity(o)
      /\ position' = [s \in Sleeves |-> position[s] + after[s] - before[s]]
  BY DEF SyncBooks, Bookable, ToBook
<1>2. o \in 1 .. count
  BY <1>1, AcceptedSent
<1>3. /\ plan \in Plans /\ Balanced(plan) /\ plan.side \in {-1, 1}
      /\ plan.quantity = Quantity(o) /\ Quantity(o) \in Nat /\ plan.quantity > 0
  BY <1>2, PlanOf DEF PlansBalanced, Balanced, Quantity
<1>4. /\ tally[o] \in Nat /\ booked[o] \in Nat /\ position \in [Sleeves -> Int]
  BY DEF TypeOK
<1>5. tally[o] \in 0 .. plan.quantity /\ booked[o] \in 0 .. plan.quantity
  BY <1>1, <1>3, <1>4 DEF OrdersFollow
<1>6. /\ Total(after) = plan.side * tally[o] /\ Total(before) = plan.side * booked[o]
      /\ after \in [Sleeves -> Int] /\ before \in [Sleeves -> Int]
  BY <1>3, <1>5, SharesTotal, SharesRange
<1> HIDE DEF after, before, plan
<1>7. \A s \in Sleeves :
         /\ position[s] \in Int /\ after[s] \in Int /\ before[s] \in Int
         /\ sum[s] = position[s] + after[s]
         /\ position'[s] = position[s] + after[s] - before[s]
  BY <1>1, <1>4, <1>6
<1> HIDE DEF sum
<1>8. \A s \in Sleeves : sum[s] \in Int /\ position'[s] \in Int
                         /\ sum[s] = position'[s] + before[s]
  BY <1>7
<1>9. Total(sum) = Total(position) + Total(after)
  BY <1>7, <1>8, TotalPlus
<1>10. Total(sum) = Total(position') + Total(before)
  BY <1>7, <1>8, TotalPlus
<1>11. Total(position) \in Int /\ Total(position') \in Int
  BY <1>7, <1>8, TotalTyped
<1>12. \A a, b \in Nat, c \in {-1, 1} : c * (a - b) = c * a - c * b
  OBVIOUS
<1>13. plan.side * (tally[o] - booked[o]) = plan.side * tally[o] - plan.side * booked[o]
  BY <1>3, <1>4, <1>12
<1>14. Total(position') = Total(position) + plan.side * (tally[o] - booked[o])
  <2>1. plan.side * tally[o] \in Int /\ plan.side * booked[o] \in Int
    BY <1>3, <1>4
  <2> QED
    BY <1>6, <1>9, <1>10, <1>11, <1>13, <2>1
<1> QED
  BY <1>1, <1>2, <1>3, <1>4, <1>14 DEF plan

\* What changes the sleeves or what is booked of an order.
LEMMA LedgerSteps ==
    ASSUME TypeOK, OrdersFollow, [Next]_vars
    PROVE  \/ UNCHANGED <<position, booked>>
           \/ CycleCrosses
           \/ \E o \in Acked : Accepts(o)
           \/ \E o \in Orders : SyncBooks(o)
<1> USE DEF market, memory, saved, ledger
<1>1. CASE AckRecorded
  <2>1. worker.pc = "listed" /\ count \in 0 .. MaxOrders /\ count > 0
    BY <1>1 DEF AckRecorded, TypeOK
  <2>2. count \in Acked
    BY <2>1, SleevesTyped DEF OrdersFollow, Acked, Orders
  <2> QED
    BY <1>1, <2>2 DEF AckRecorded
<1>2. CASE CyclePlans \/ CycleDrops \/ GateClears \/ GateReads \/ GateDecides
           \/ Sends \/ AckSaved \/ AckLost \/ OrderListed \/ AckRecordFails
  BY <1>2 DEF CyclePlans, CycleDrops, GateClears, GateReads, GateDecides, Sends,
     AckSaved, AckLost, OrderListed, AckRecordFails
<1>3. CASE PollStep \/ Restart \/ UNCHANGED vars
  BY <1>3 DEF PollStep, PollReads, PollApplies, PollRecords, PollFails, Restart, vars
<1>4. ASSUME NEW o \in Orders, OrderStep(o)
      PROVE  \/ UNCHANGED <<position, booked>>
             \/ \E p \in Acked : Accepts(p)
             \/ \E p \in Orders : SyncBooks(p)
  BY <1>4 DEF OrderStep, SyncRecovers, BrokerFills, BrokerCancels, NoticeSaved,
     ListEvicts
<1> QED
  BY <1>1, <1>2, <1>3, <1>4 DEF Next, CycleStep

\* Crossing inside alone leaves the account as it is.
LEMMA CrossTotals ==
    ASSUME TypeOK, CycleCrosses
    PROVE  Total(position') = Total(position) /\ booked' = booked
<1>0. position \in [Sleeves -> Int]
  BY DEF TypeOK
<1>1. PICK target \in Targets :
        /\ Total(target) = Total(position)
        /\ position' = [s \in Sleeves |->
                          position[s] + NetPlan(position, target, 0).internal[s]]
  BY Zenon DEF CycleCrosses
<1> DEFINE internal == NetPlan(position, target, 0).internal
<1>2. target \in [Sleeves -> Int]
  BY TargetsTyped
<1>3. Total(position) \in Int
  BY <1>0, TotalTyped
<1>4. 0 = Total(target) - Total(position)
  BY <1>1, <1>3
<1>5. Total(internal) = 0 /\ internal \in [Sleeves -> Int]
  BY <1>0, <1>2, <1>4, NetPlanBalanced, Zenon
<1> HIDE DEF internal
<1>6. \A s \in Sleeves :
         /\ position[s] \in Int /\ internal[s] \in Int
         /\ position'[s] = position[s] + internal[s]
  BY <1>0, <1>1, <1>5 DEF internal
<1>7. Total(position') = Total(position) + Total(internal)
  BY <1>6, TotalPlus
<1> QED
  BY <1>3, <1>5, <1>7 DEF CycleCrosses

\* No step moves the sleeves together but by what it books.
LEMMA ConservedPreserved ==
    ASSUME TypeOK, TypeOK', BooksFollow, OrdersFollow, OrdersFollow', PlansBalanced,
           Conserved, [Next]_vars
    PROVE  Conserved'
<1> DEFINE held == [o \in Orders |-> orders[o].plan.side * booked[o]]
           now == [o \in Orders |-> orders'[o].plan.side * booked'[o]]
<1>0. /\ IsFiniteSet(Orders) /\ booked \in [Orders -> Nat] /\ booked' \in [Orders -> Nat]
      /\ \A o \in Orders : o \in Nat
      /\ count \in Nat
      /\ Total(position) = SumFunctionOnSet(held, Orders)
      /\ Conserved' <=> Total(position') = SumFunctionOnSet(now, Orders)
      /\ Total(position) \in Int
  <2>1. IsFiniteSet(Orders)
    BY SleevesTyped, FS_Interval DEF Orders
  <2>2. Total(position) \in Int
    BY TotalTyped DEF TypeOK
  <2>3. Conserved' <=> Total(position') = SumFunctionOnSet(now, Orders)
    BY Zenon DEF Conserved, Total, Sleeves, Orders
  <2> QED
    BY <2>1, <2>2, <2>3 DEF TypeOK, Conserved, Orders
<1>1. \A o \in Orders :
         /\ orders[o].plan.side \in {-1, 0, 1} /\ orders'[o].plan.side \in {-1, 0, 1}
         /\ held[o] = orders[o].plan.side * booked[o]
         /\ now[o] = orders'[o].plan.side * booked'[o]
         /\ o <= count => orders'[o].plan = orders[o].plan
         /\ o > count => booked[o] = 0
  <2> TAKE o \in Orders
  <2>1. /\ orders[o].plan.side \in {-1, 0, 1} /\ orders'[o].plan.side \in {-1, 0, 1}
    BY DEF TypeOK, Plans
  <2>2. o > count => o \notin accepted
    BY <1>0, AcceptedSent
  <2> QED
    BY <2>1, <2>2, PlansStay DEF OrdersFollow
<1> HIDE DEF held, now
<1>2. \A o \in Orders : held[o] \in Int /\ now[o] \in Int
  <2> TAKE o \in Orders
  <2>1. booked[o] \in Int /\ booked'[o] \in Int
    BY <1>0
  <2> QED
    BY <1>1, <2>1
<1>3. \A o \in Orders : booked'[o] = booked[o] => now[o] = held[o]
  <2> SUFFICES ASSUME NEW o \in Orders, booked'[o] = booked[o]
               PROVE  now[o] = held[o]
    OBVIOUS
  <2>1. CASE o <= count
    BY <1>1, <2>1
  <2>2. CASE o > count
    BY <1>1, <2>2
  <2> QED
    BY <1>0, <2>1, <2>2
<1>4. ASSUME booked' = booked, Total(position') = Total(position)
      PROVE  Conserved'
  <2>1. SumFunctionOnSet(held, Orders) = SumFunctionOnSet(now, Orders)
    BY <1>0, <1>2, <1>3, <1>4, SumSame
  <2> QED
    BY <1>0, <1>4, <2>1
<1>5. ASSUME NEW o \in Orders, SyncBooks(o)
      PROVE  Conserved'
  <2>1. /\ o \in 1 .. count /\ tally[o] \in Nat /\ booked[o] \in Nat
        /\ orders[o].plan.side \in {-1, 1}
        /\ booked' = [booked EXCEPT ![o] = tally[o]]
        /\ Total(position') = Total(position)
             + orders[o].plan.side * (tally[o] - booked[o])
    BY <1>5, BookTotals
  <2>2. \A p \in Orders \ {o} : held[p] = now[p]
    BY <1>0, <1>3, <2>1
  <2>3. SumFunctionOnSet(now, Orders) =
          SumFunctionOnSet(held, Orders) + now[o] - held[o]
    <3>1. IsFiniteSet(Orders) /\ o \in Orders
      BY <1>0, <1>5
    <3> QED
      BY <1>2, <2>2, <3>1, SumChanges
  <2>4. /\ held[o] = orders[o].plan.side * booked[o]
        /\ now[o] = orders[o].plan.side * tally[o]
    BY <1>0, <1>1, <2>1
  <2>5. \A a, b \in Nat, c \in {-1, 1} : c * (a - b) = c * a - c * b
    OBVIOUS
  <2>6. orders[o].plan.side * (tally[o] - booked[o]) = now[o] - held[o]
    BY <2>1, <2>4, <2>5
  <2> QED
    BY <1>0, <1>2, <2>1, <2>3, <2>6
<1>6. CASE CycleCrosses
  BY <1>4, <1>6, CrossTotals
<1>7. ASSUME NEW o \in Acked, Accepts(o) PROVE Conserved'
  <2>1. booked' = booked
    BY <1>7 DEF Accepts
  <2> QED
    BY <1>4, <1>7, <2>1, AcceptTotals
<1>8. CASE UNCHANGED <<position, booked>>
  BY <1>4, <1>8
<1> QED
  BY <1>5, <1>6, <1>7, <1>8, LedgerSteps

\* An order that is over stays over, and the broker no longer works on one the
\* ledger knows to be over.
LEMMA OverStays ==
    ASSUME TypeOK, OrdersFollow, EndsAreFinal, FillsBounded, [Next]_vars,
           NEW o \in 1 .. count, Over(o)
    PROVE  Over(o)' /\ ~ Live(o)
<1> USE DEF market, memory, saved, ledger
<1>0. /\ o \in Orders /\ executed \in [Orders -> Nat] /\ Quantity(o) \in Nat
      /\ Quantity(o)' = Quantity(o)
  <2>1. o \in Orders
    BY AcceptedSent
  <2> QED
    BY <2>1, PlanOf, PlansStay DEF TypeOK, Quantity
<1>1. ~ Live(o)
  BY <1>0 DEF Over, Live, OrdersFollow, EndsAreFinal
<1>2. terminal \subseteq terminal'
  <2>1. CASE CycleStep
    BY <2>1 DEF CycleStep, CyclePlans, CycleCrosses, CycleDrops, GateClears, GateReads,
       GateDecides, Sends, AckSaved, AckLost, OrderListed, AckRecorded, AckRecordFails,
       Accepts
  <2>2. CASE PollStep \/ Restart \/ UNCHANGED vars
    BY <2>2 DEF PollStep, PollReads, PollApplies, PollRecords, PollFails, Restart, vars
  <2>3. ASSUME NEW p \in Orders, OrderStep(p) PROVE terminal \subseteq terminal'
    BY <2>3 DEF OrderStep, SyncRecovers, SyncBooks, Accepts, BrokerFills, BrokerCancels,
       NoticeSaved, ListEvicts
  <2> QED
    BY <2>1, <2>2, <2>3 DEF Next
<1>3. executed'[o] = executed[o] /\ (o \in canceled' => o \in canceled)
  <2>1. ASSUME NEW p \in Orders, BrokerFills(p) \/ BrokerCancels(p)
        PROVE  executed'[o] = executed[o] /\ (o \in canceled' => o \in canceled)
    <3>1. p # o
      BY <1>1, <2>1 DEF BrokerFills, BrokerCancels
    <3> QED
      BY <1>0, <2>1, <3>1 DEF BrokerFills, BrokerCancels
  <2> QED
    BY <2>1, BrokerSteps
<1> QED
  BY <1>0, <1>1, <1>2, <1>3 DEF Over

\* Booking an order that is over moves nothing.
LEMMA FrozenBooks ==
    ASSUME TypeOK, BooksFollow, OrdersFollow, NEW o \in Orders, Frozen(o), SyncBooks(o)
    PROVE  tally[o] = booked[o] /\ position' = position /\ booked' = booked
<1>1. /\ booked' = [booked EXCEPT ![o] = tally[o]]
      /\ o \in accepted /\ tally[o] <= Quantity(o)
      /\ position' = [s \in Sleeves |-> position[s]
                        + Shares(orders[o].plan, tally[o])[s]
                        - Shares(orders[o].plan, booked[o])[s]]
  BY DEF SyncBooks, Bookable, ToBook
<1>2. /\ booked \in [Orders -> Nat] /\ tally \in [Orders -> Nat]
      /\ position \in [Sleeves -> Int] /\ booked[o] <= tally[o]
      /\ orders[o].plan \in Plans /\ Quantity(o) \in Nat
      /\ Quantity(o) = orders[o].plan.quantity
  BY PlanOf DEF TypeOK, BooksFollow, Quantity
<1>3. tally[o] = booked[o]
  BY <1>1, <1>2 DEF Frozen
<1>4. Shares(orders[o].plan, booked[o]) \in [Sleeves -> Int]
  BY <1>1, <1>2, <1>3, SharesTyped
<1>5. position' = [s \in Sleeves |-> position[s]]
  BY <1>1, <1>2, <1>3, <1>4
<1> QED
  BY <1>1, <1>2, <1>3, <1>5

\* What is not the controller's: polls, syncs and the broker.
Outside == PollStep \/ (\E o \in Orders : OrderStep(o)) \/ UNCHANGED vars

\* How the controller gets where it reads the account, and where it may send.
LEMMA GateSteps ==
    ASSUME TypeOK, [Next]_vars
    PROVE  /\ worker'.pc = "fresh" => GateReads \/ (worker.pc = "fresh" /\ Outside)
           /\ worker'.pc = "valid" => GateDecides \/ (worker.pc = "valid" /\ Outside)
           /\ Sends \/ count' = count
<1> USE DEF market, memory, saved, ledger
<1>0. worker \in [pc : Places, plan : Plans, holding : Int]
  BY DEF TypeOK
<1>1. CASE CyclePlans
  <2>1. worker'.pc = "planned" /\ count' = count
    BY <1>0, <1>1 DEF CyclePlans
  <2> QED
    BY <2>1
<1>2. CASE CycleCrosses
  BY <1>2 DEF CycleCrosses
<1>3. CASE CycleDrops \/ GateClears \/ AckSaved \/ AckLost \/ OrderListed
           \/ AckRecorded \/ AckRecordFails
  <2>1. worker'.pc \notin {"fresh", "valid"} /\ count' = count
    BY <1>0, <1>3 DEF CycleDrops, GateClears, AckSaved, AckLost, OrderListed,
       AckRecorded, AckRecordFails, Goes
  <2> QED
    BY <2>1
<1>8. CASE GateReads \/ GateDecides
  <2>1. /\ GateReads => worker'.pc = "fresh"
        /\ GateDecides => worker'.pc = "valid"
        /\ count' = count
    BY <1>0, <1>8 DEF GateReads, GateDecides, Goes
  <2> QED
    BY <1>8, <2>1
<1>9. CASE Sends
  <2>1. worker'.pc = "sent"
    BY <1>9 DEF Sends
  <2> QED
    BY <1>9, <2>1
<1>4. CASE Restart
  BY <1>4 DEF Restart
<1>5. CASE PollStep
  <2>1. UNCHANGED <<worker, count>>
    BY <1>5 DEF PollStep, PollReads, PollApplies, PollRecords, PollFails
  <2> QED
    BY <1>5, <2>1 DEF Outside
<1>6. CASE \E o \in Orders : OrderStep(o)
  <2>1. UNCHANGED <<worker, count>>
    BY <1>6 DEF OrderStep, SyncRecovers, SyncBooks, BrokerFills, BrokerCancels,
       NoticeSaved, ListEvicts
  <2> QED
    BY <1>6, <2>1 DEF Outside
<1>7. CASE UNCHANGED vars
  BY <1>7 DEF Outside, vars
<1> QED
  BY <1>1, <1>2, <1>3, <1>4, <1>5, <1>6, <1>7, <1>8, <1>9 DEF Next, CycleStep

\* No order is working at the broker.
Quiet == \A o \in Sent : ~ Live(o)

\* Between the gate that found no order pending and the dispatch the sleeves do
\* not move; and once no order is working, neither does the account.
LEMMA GateHolds ==
    ASSUME Polled, FillsBounded, PolledOnly, [Next]_vars, noticed' = noticed, Outside,
           worker.pc \in {"cleared", "fresh", "valid"}
    PROVE  /\ UNCHANGED <<worker, orders, count, position>>
           /\ Quiet => holding' = holding /\ Quiet'
<1> USE DEF market, memory, saved, ledger
<1>0. /\ TypeOK /\ BooksFollow /\ OrdersFollow /\ EndsAreFinal
      /\ \A o \in 1 .. count : Frozen(o)
  BY DEF Polled, OneOrderMoves
<1>1. UNCHANGED <<worker, orders, count>>
  <2>1. CASE PollStep \/ UNCHANGED vars
    BY <2>1 DEF PollStep, PollReads, PollApplies, PollRecords, PollFails, vars
  <2>2. CASE \E o \in Orders : OrderStep(o)
    BY <2>2 DEF OrderStep, SyncRecovers, SyncBooks, BrokerFills, BrokerCancels,
       NoticeSaved, ListEvicts
  <2> QED
    BY <2>1, <2>2 DEF Outside
<1>2. position' = position
  <2>1. ASSUME NEW o \in Orders, SyncBooks(o) PROVE position' = position
    <3>1. o \in accepted
      BY <2>1 DEF SyncBooks, ToBook
    <3>2. Frozen(o)
      BY <1>0, <3>1, AcceptedSent
    <3> QED
      BY <1>0, <2>1, <3>2, FrozenBooks
  <2>2. ASSUME NEW o \in Orders, SyncRecovers(o) PROVE FALSE
    <3>1. o \in Acked /\ o \notin accepted
      BY <2>2 DEF SyncRecovers
    <3>2. o \in 1 .. count
      BY <1>0, <3>1, AcceptedSent DEF Acked
    <3> QED
      BY <1>0, <3>1, <3>2 DEF Frozen
  <2>3. ASSUME NEW o \in Orders, OrderStep(o) PROVE position' = position
    BY <2>1, <2>2, <2>3 DEF OrderStep, BrokerFills, BrokerCancels, NoticeSaved,
       ListEvicts
  <2>4. CASE PollStep \/ UNCHANGED vars
    BY <2>4 DEF PollStep, PollReads, PollApplies, PollRecords, PollFails, vars
  <2> QED
    BY <2>3, <2>4 DEF Outside
<1>3. ASSUME Quiet
      PROVE  holding' = holding /\ Quiet'
  <2>1. ASSUME NEW o \in Orders, BrokerFills(o) \/ BrokerCancels(o) PROVE FALSE
    <3>1. Live(o) /\ o \in Sent
      BY <2>1 DEF BrokerFills, BrokerCancels, Live
    <3> QED
      BY <1>3, <3>1 DEF Quiet
  <2>2. UNCHANGED <<executed, canceled, holding>>
    BY <2>1, BrokerSteps
  <2> QED
    BY <1>1, <1>3, <2>2 DEF Quiet, Sent, Live, Quantity
<1> QED
  BY <1>1, <1>2, <1>3

\* What the account and the sleeves differ by is open in the last order.
Drift ==
    Total(position) - holding =
        IF count = 0 THEN 0
        ELSE orders[count].plan.side * (booked[count] - executed[count])

\* Everything the proof about the account starts a step from.
Accounted ==
    Polled /\ PlansBalanced /\ FillsBounded /\ AccountFollows /\ ValidIsTrue

\* Shares the broker executes and shares the ledger books are those of the last
\* order; a new one is sent when nothing is open.
LEMMA DriftPreserved ==
    ASSUME Accounted, PolledOnly, [Next]_vars, noticed' = noticed
    PROVE  Drift'
<1> USE DEF market, memory, saved, ledger
<1>0. /\ TypeOK /\ BooksFollow /\ OrdersFollow /\ EndsAreFinal /\ OneOrderMoves
      /\ PlansBalanced /\ FillsBounded /\ AccountFollows /\ ValidIsTrue /\ Drift
  BY DEF Accounted, Polled, AccountFollows, Drift
<1>1. /\ count \in 0 .. MaxOrders /\ MaxOrders \in Nat /\ Orders = 1 .. MaxOrders
      /\ executed \in [Orders -> Nat] /\ booked \in [Orders -> Nat]
      /\ tally \in [Orders -> Nat] /\ holding \in Int
      /\ Total(position) \in Int
      /\ count # 0 => count \in Orders /\ count \in 1 .. count
  <2>1. Total(position) \in Int
    BY <1>0, TotalTyped DEF TypeOK
  <2>2. /\ count \in 0 .. MaxOrders /\ MaxOrders \in Nat /\ Orders = 1 .. MaxOrders
    BY <1>0, SleevesTyped DEF TypeOK, Orders
  <2>3. count # 0 => count \in Orders /\ count \in 1 .. count
    BY <2>2
  <2> QED
    BY <1>0, <2>1, <2>2, <2>3 DEF TypeOK
<1>2. count # 0 => /\ orders'[count].plan = orders[count].plan
                   /\ orders[count].plan.side \in {-1, 1}
  <2> HAVE count # 0
  <2>1. Balanced(orders[count].plan)
    BY <1>0, <1>1 DEF PlansBalanced
  <2>2. orders'[count].plan = orders[count].plan
    BY <1>0, <1>1, PlansStay
  <2> QED
    BY <2>1, <2>2 DEF Balanced
<1>3. ASSUME UNCHANGED <<count, executed, holding, booked>>,
             Total(position') = Total(position)
      PROVE  Drift'
  BY <1>0, <1>2, <1>3 DEF Drift, Total, Sleeves
<1>4. CASE Sends
  <2>1. /\ worker.pc = "valid" /\ count' = count + 1 /\ count + 1 \in Orders
        /\ UNCHANGED <<executed, holding, position, booked>>
        /\ orders' = [orders EXCEPT ![count + 1] =
                        [plan |-> worker.plan, state |-> "sent"]]
    BY <1>1, <1>4 DEF Sends
  <2>2. Total(position) = holding
    BY <1>0, <2>1 DEF ValidIsTrue
  <2>3. executed[count + 1] = 0 /\ booked[count + 1] = 0
    <3>1. count + 1 \notin accepted
      BY <1>0, <1>1, AcceptedSent
    <3> QED
      BY <1>0, <1>1, <2>1, <3>1 DEF FillsBounded, OrdersFollow
  <2>4. orders'[count + 1].plan.side \in {-1, 0, 1}
    BY <1>0, <2>1 DEF TypeOK, Plans
  <2>5. Total(position') - holding' = 0
    BY <1>1, <2>1, <2>2 DEF Total, Sleeves
  <2>6. orders'[count'].plan.side * (booked'[count'] - executed'[count']) = 0
    BY <2>1, <2>3, <2>4
  <2> QED
    BY <2>5, <2>6 DEF Drift, Total, Sleeves
<1>5. ASSUME NEW o \in Orders, BrokerFills(o)
      PROVE  Drift'
  <2>1. /\ Live(o) /\ UNCHANGED <<orders, count, booked, position>>
        /\ executed' = [executed EXCEPT ![o] = @ + 1]
        /\ holding' = holding + orders[o].plan.side
    BY <1>5 DEF BrokerFills
  <2>2. o \in 1 .. count
    BY <1>0, <2>1, AcceptedSent DEF Live, Sent
  <2>3. o = count
    <3>1. ~ (o < count)
      BY <1>0, <2>1, <2>2, OverStays DEF AccountFollows
    <3> QED
      BY <1>1, <2>2, <3>1
  <2>4. executed'[count] = executed[count] + 1 /\ count # 0
    BY <1>1, <2>1, <2>2, <2>3
  <2>5. \A c \in {-1, 1}, a, b \in Nat : c * (a - (b + 1)) = c * (a - b) - c
    OBVIOUS
  <2>6. /\ orders[count].plan.side \in {-1, 1} /\ booked[count] \in Nat
        /\ executed[count] \in Nat
    BY <1>1, <1>2, <2>4
  <2>7. Total(position) - holding =
          orders[count].plan.side * (booked[count] - executed[count])
    BY <1>0, <2>4 DEF Drift
  <2>8. Total(position') - holding' =
          orders'[count'].plan.side * (booked'[count'] - executed'[count'])
    <3>1. orders[count].plan.side * (booked[count] - (executed[count] + 1))
            = orders[count].plan.side * (booked[count] - executed[count])
                - orders[count].plan.side
      BY <2>5, <2>6
    <3>2. Total(position') = Total(position)
      BY <2>1 DEF Total, Sleeves
    <3>3. holding' = holding + orders[count].plan.side
      BY <2>1, <2>3
    <3>4. Total(position') - holding' =
            orders[count].plan.side * (booked[count] - (executed[count] + 1))
      <4>1. \A a, b, c \in Int : a - (b + c) = (a - b) - c
        OBVIOUS
      <4>2. Total(position) - (holding + orders[count].plan.side)
              = (Total(position) - holding) - orders[count].plan.side
        BY <1>1, <2>6, <4>1
      <4> QED
        BY <2>7, <3>1, <3>2, <3>3, <4>2, Zenon
    <3> QED
      BY <2>1, <2>4, <3>4
  <2> QED
    BY <2>1, <2>4, <2>8 DEF Drift, Total, Sleeves
<1>6. ASSUME NEW o \in Orders, BrokerCancels(o)
      PROVE  Drift'
  <2>1. UNCHANGED <<count, executed, holding, booked, position>>
    BY <1>6 DEF BrokerCancels
  <2> QED
    BY <1>3, <2>1
<1>7. ASSUME NEW o \in Orders, SyncBooks(o)
      PROVE  Drift'
  <2>1. UNCHANGED <<orders, count, executed, holding>>
    BY <1>7 DEF SyncBooks
  <2>2. /\ o \in 1 .. count /\ tally[o] \in Nat /\ booked[o] \in Nat
        /\ booked' = [booked EXCEPT ![o] = tally[o]]
        /\ Total(position') = Total(position)
             + orders[o].plan.side * (tally[o] - booked[o])
    BY <1>0, <1>7, BookTotals
  <2>3. CASE o < count
    <3>1. Frozen(o)
      BY <1>0, <1>1, <2>2, <2>3 DEF OneOrderMoves
    <3>2. position' = position /\ booked' = booked
      BY <1>0, <1>7, <3>1, FrozenBooks
    <3> QED
      BY <1>3, <2>1, <3>2
  <2>4. CASE o = count
    <3>1. count # 0 /\ booked'[count] = tally[count]
      BY <1>1, <2>2, <2>4
    <3>2. \A c \in {-1, 1}, a, b, e \in Nat : c * (a - e) + c * (b - a) = c * (b - e)
      OBVIOUS
    <3>3. /\ orders[count].plan.side \in {-1, 1} /\ booked[count] \in Nat
          /\ executed[count] \in Nat /\ tally[count] \in Nat
      BY <1>1, <1>2, <3>1
    <3>4. orders[count].plan.side * (booked[count] - executed[count])
            + orders[count].plan.side * (tally[count] - booked[count])
            = orders[count].plan.side * (tally[count] - executed[count])
      BY <3>2, <3>3
    <3>5. Total(position) - holding =
            orders[count].plan.side * (booked[count] - executed[count])
      BY <1>0, <3>1 DEF Drift
    <3>6. /\ orders[count].plan.side * (booked[count] - executed[count]) \in Int
          /\ orders[count].plan.side * (tally[count] - booked[count]) \in Int
      BY <3>3
    <3>7. Total(position') = Total(position)
            + orders[count].plan.side * (tally[count] - booked[count])
      BY <2>2, <2>4
    <3>8. Total(position') - holding =
            orders[count].plan.side * (tally[count] - executed[count])
      BY <1>1, <3>4, <3>5, <3>6, <3>7
    <3>9. Total(position') - holding' =
            orders'[count'].plan.side * (booked'[count'] - executed'[count'])
      BY <2>1, <3>1, <3>8
    <3> QED
      BY <2>1, <3>1, <3>9 DEF Drift, Total, Sleeves
  <2> QED
    BY <1>1, <2>2, <2>3, <2>4
<1>8. ASSUME count' = count, UNCHANGED <<executed, canceled, holding>>
      PROVE  Drift'
  <2>1. CASE UNCHANGED <<position, booked>>
    BY <1>3, <1>8, <2>1
  <2>2. CASE CycleCrosses
    BY <1>0, <1>3, <1>8, <2>2, CrossTotals
  <2>3. ASSUME NEW o \in Acked, Accepts(o) PROVE Drift'
    <3>1. booked' = booked
      BY <2>3 DEF Accepts
    <3> QED
      BY <1>0, <1>3, <1>8, <2>3, <3>1, AcceptTotals
  <2> QED
    BY <1>0, <1>7, <2>1, <2>2, <2>3, LedgerSteps
<1> QED
  BY <1>0, <1>4, <1>5, <1>6, <1>8, BrokerSteps, GateSteps

\* The account as it is now agrees with the sleeves only if nothing is working
\* at the broker: every order is booked as far as it will ever be, so what the
\* two agree on is that all of it was executed.
LEMMA ReadQuiet ==
    ASSUME Accounted, \A o \in 1 .. count : Frozen(o), Total(position) = holding,
           [Next]_vars
    PROVE  /\ Quiet
           /\ count # 0 => booked[count] = executed[count]
<1>0. /\ TypeOK /\ BooksFollow /\ OrdersFollow /\ EndsAreFinal
      /\ PlansBalanced /\ FillsBounded /\ AccountFollows
  BY DEF Accounted, Polled
<1>1. /\ count \in 0 .. MaxOrders /\ MaxOrders \in Nat /\ Orders = 1 .. MaxOrders
      /\ executed \in [Orders -> Nat] /\ booked \in [Orders -> Nat]
  BY <1>0, SleevesTyped DEF TypeOK, Orders
<1>2. ASSUME count # 0
      PROVE  booked[count] = executed[count] /\ ~ Live(count)
  <2>1. count \in Orders /\ count \in 1 .. count
    BY <1>1, <1>2
  <2>2. orders[count].plan.side \in {-1, 1}
    BY <1>0, <2>1 DEF PlansBalanced, Balanced
  <2>3. orders[count].plan.side * (booked[count] - executed[count]) = 0
    <3>1. Total(position) \in Int
      BY <1>0, TotalTyped DEF TypeOK
    <3> QED
      BY <1>0, <1>2, <3>1 DEF AccountFollows
  <2>4. booked[count] = executed[count]
    <3>1. \A c \in {-1, 1}, a, b \in Nat : c * (a - b) = 0 => a = b
      OBVIOUS
    <3> QED
      BY <1>1, <2>1, <2>2, <2>3, <3>1
  <2>5. Frozen(count)
    BY <2>1
  <2> QED
    BY <1>0, <1>1, <2>1, <2>4, <2>5 DEF Frozen, Live, EndsAreFinal
<1>3. ASSUME NEW o \in Sent
      PROVE  ~ Live(o)
  <2>1. o \in 1 .. count
    BY <1>0, AcceptedSent DEF Sent
  <2>2. CASE o < count
    <3>1. Over(o)
      BY <1>0, <2>1, <2>2 DEF AccountFollows
    <3> QED
      BY <1>0, <2>1, <3>1, OverStays
  <2>3. CASE o = count
    BY <1>1, <1>2, <2>1, <2>3
  <2> QED
    BY <1>1, <2>1, <2>2, <2>3
<1> QED
  BY <1>2, <1>3 DEF Quiet

\* An account that was read and agrees is still the account, and a validation
\* that passes is true (validate_portfolio_execution_dispatch).
LEMMA ReadHolds ==
    ASSUME Accounted, PolledOnly, [Next]_vars, noticed' = noticed
    PROVE  /\ worker'.pc = "fresh" /\ Total(position') = worker'.holding =>
                worker'.holding = holding' /\ Quiet'
           /\ worker'.pc = "valid" =>
                /\ Quiet' /\ Total(position') = holding'
                /\ worker'.plan.base = position'
<1> USE DEF market, memory, saved, ledger
<1>0. /\ Polled /\ TypeOK /\ OneOrderMoves /\ FillsBounded /\ AccountFollows
      /\ ValidIsTrue
      /\ worker \in [pc : Places, plan : Plans, holding : Int]
  BY DEF Accounted, Polled, TypeOK
<1>1. ASSUME UNCHANGED <<orders, count, executed, canceled>>, Quiet
      PROVE  Quiet'
  BY <1>1 DEF Quiet, Sent, Live, Quantity
<1>2. ASSUME worker.pc \in {"fresh", "valid"}, Outside
      PROVE  /\ UNCHANGED <<worker, position>> /\ Total(position') = Total(position)
             /\ Quiet => holding' = holding /\ Quiet'
  <2>1. /\ UNCHANGED <<worker, position>>
        /\ Quiet => holding' = holding /\ Quiet'
    BY <1>0, <1>2, GateHolds
  <2> QED
    BY <2>1 DEF Total, Sleeves
<1>3. CASE worker.pc = "fresh" /\ Outside
  BY <1>0, <1>2, <1>3 DEF AccountFollows, Quiet
<1>4. CASE worker.pc = "valid" /\ Outside
  BY <1>0, <1>2, <1>4 DEF ValidIsTrue, Quiet
<1>5. CASE GateReads
  <2>1. /\ worker.pc = "cleared" /\ worker'.pc = "fresh" /\ worker'.holding = holding
        /\ UNCHANGED <<orders, count, executed, canceled, holding, position>>
    BY <1>0, <1>5 DEF GateReads
  <2>2. \A o \in 1 .. count : Frozen(o)
    BY <1>0, <2>1 DEF OneOrderMoves
  <2>3. Total(position) = holding => Quiet
    BY <2>2, ReadQuiet
  <2>4. Total(position') = Total(position)
    BY <2>1 DEF Total, Sleeves
  <2> QED
    BY <1>1, <2>1, <2>3, <2>4
<1>6. CASE GateDecides
  <2>1. /\ worker.pc = "fresh" /\ worker'.pc = "valid" /\ worker'.plan = worker.plan
        /\ Total(position) = worker.holding /\ worker.plan.base = position
        /\ UNCHANGED <<orders, count, executed, canceled, holding, position>>
    BY <1>0, <1>6 DEF GateDecides, Reconciled, Goes
  <2>2. worker.holding = holding /\ Quiet
    BY <1>0, <2>1 DEF AccountFollows, Quiet
  <2>3. Total(position') = Total(position)
    BY <2>1 DEF Total, Sleeves
  <2> QED
    BY <1>1, <2>1, <2>2, <2>3
<1> QED
  BY <1>0, <1>3, <1>4, <1>5, <1>6, GateSteps

\* An order is sent only when those before it are over.
LEMMA OversPreserved ==
    ASSUME Accounted, PolledOnly, [Next]_vars, noticed' = noticed
    PROVE  \A o \in 1 .. count' : o < count' \/ worker'.pc = "valid" => Over(o)'
<1> USE DEF market, memory, saved, ledger
<1>0. /\ TypeOK /\ OrdersFollow /\ EndsAreFinal /\ OneOrderMoves /\ FillsBounded
      /\ AccountFollows
      /\ count \in 0 .. MaxOrders /\ MaxOrders \in Nat /\ Orders = 1 .. MaxOrders
  BY SleevesTyped DEF Accounted, Polled, TypeOK, Orders
<1>1. \A o \in 1 .. count : Over(o) => Over(o)'
  BY <1>0, OverStays
<1>2. CASE Sends
  <2>1. worker.pc = "valid" /\ worker'.pc = "sent" /\ count' = count + 1
    BY <1>2 DEF Sends
  <2> QED
    BY <1>0, <1>1, <2>1 DEF AccountFollows
<1>3. CASE GateDecides
  <2>1. /\ worker.pc = "fresh" /\ count' = count
        /\ Total(position) = worker.holding /\ Pending = {}
    BY <1>3 DEF GateDecides, Reconciled
  <2>2. worker.holding = holding /\ Quiet /\ \A o \in 1 .. count : Frozen(o)
    BY <1>0, <2>1 DEF AccountFollows, OneOrderMoves, Quiet
  <2>3. count # 0 => booked[count] = executed[count]
    BY <2>1, <2>2, ReadQuiet
  <2>4. ASSUME count # 0
        PROVE  Over(count)
    <3>1. count \in Orders /\ count \in 1 .. count
      BY <1>0, <2>4
    <3>2. /\ count \in accepted /\ executed[count] \in Nat /\ Quantity(count) \in Nat
          /\ executed[count] <= Quantity(count) /\ count \in Sent
      BY <1>0, <2>2, <3>1, AcceptedSent, PlanOf DEF Frozen, FillsBounded, TypeOK, Sent
    <3>3. CASE executed[count] = Quantity(count)
      <4>1. count \notin canceled
        BY <1>0, <3>1, <3>2, <3>3 DEF FillsBounded
      <4> QED
        BY <3>3, <4>1 DEF Over
    <3>4. CASE executed[count] < Quantity(count)
      BY <2>1, <2>3, <2>4, <3>2, <3>4 DEF Pending, Over
    <3> QED
      BY <3>2, <3>3, <3>4
  <2>5. \A o \in 1 .. count : Over(o)
    <3> TAKE o \in 1 .. count
    <3>1. o < count \/ (o = count /\ count # 0)
      BY <1>0
    <3> QED
      BY <1>0, <2>4, <3>1 DEF AccountFollows
  <2> QED
    BY <1>1, <2>1, <2>5
<1>4. CASE count' = count /\ (worker'.pc = "valid" => worker.pc = "valid")
  BY <1>0, <1>1, <1>4 DEF AccountFollows
<1> QED
  BY <1>0, <1>2, <1>3, <1>4, GateSteps

-----------------------------------------------------------------------------
(* The theorems.                                                           *)

\* None of the four invariants is inductive without the others.
AllHolds == SleeveInvariant /\ AccountInvariant /\ Conserved /\ ValidIsTrue

\* The invariant holds when the program starts.
LEMMA AccountInit == Init => AllHolds
<1> SUFFICES ASSUME Init PROVE AllHolds
  OBVIOUS
<1>1. SleeveInvariant
  BY InvariantInit
<1>2. /\ worker.pc = "idle" /\ count = 0 /\ accepted = {} /\ ends = {} /\ terminal = {}
      /\ canceled = {} /\ holding = 0 /\ position = Nothing
      /\ noticed = {}
      /\ \A o \in Orders : /\ orders[o].state = "none" /\ booked[o] = 0
                           /\ executed[o] = 0 /\ o > 0 /\ o \in Nat
                           /\ orders[o].plan.side = 0
  BY DEF Init, Orders, NoPlan
<1>3. OrdersFollow /\ PlansBalanced /\ ValidIsTrue
  BY <1>1, <1>2 DEF SleeveInvariant, PolledOnly, PlansBalanced, ValidIsTrue
<1>4. FillsBounded
  BY <1>2 DEF FillsBounded
<1>5. Total(position) = 0
  BY <1>2, TotalNothing
<1>6. AccountFollows
  BY <1>2, <1>5 DEF AccountFollows
<1>7. Conserved
  <2> DEFINE held == [o \in Orders |-> orders[o].plan.side * booked[o]]
  <2>1. IsFiniteSet(Orders)
    BY SleevesTyped, FS_Interval DEF Orders
  <2>2. \A o \in Orders : held[o] \in Int /\ held[o] = 0 * held[o]
    <3> TAKE o \in Orders
    <3>1. held[o] = 0
      BY <1>2
    <3> HIDE DEF held
    <3> QED
      BY <3>1
  <2> HIDE DEF held
  <2>3. SumFunctionOnSet(held, Orders) \in Int
    BY <2>1, <2>2, SumTyped
  <2>4. SumFunctionOnSet(held, Orders) = 0 * SumFunctionOnSet(held, Orders)
    BY <2>1, <2>2, SumTimes
  <2>5. SumFunctionOnSet(held, Orders) = 0
    BY <2>3, <2>4
  <2> QED
    BY <1>5, <2>5 DEF Conserved, held
<1> QED
  BY <1>1, <1>3, <1>4, <1>6, <1>7 DEF AllHolds, AccountInvariant

\* Every step preserves the invariant.
LEMMA AccountStep == AllHolds /\ [Next]_vars => AllHolds'
<1> SUFFICES ASSUME AllHolds, [Next]_vars PROVE AllHolds'
  OBVIOUS
<1>1. /\ SleeveInvariant /\ TypeOK /\ BooksFollow /\ OrdersFollow /\ PlansBalanced
      /\ FillsBounded /\ Conserved /\ ValidIsTrue /\ (PolledOnly => AccountFollows)
  BY DEF AllHolds, AccountInvariant, SleeveInvariant
<1>2. SleeveInvariant' /\ TypeOK'
  BY <1>1, InvariantStep DEF SleeveInvariant
<1>3. OrdersFollow'
  BY <1>1, OrdersFollowPreserved
<1>4. PlansBalanced' /\ FillsBounded' /\ Conserved'
  BY <1>1, <1>2, <1>3, BalancePreserved, FillsPreserved, ConservedPreserved
<1>5. ASSUME PolledOnly'
      PROVE  AccountFollows' /\ ValidIsTrue'
  <2>1. PolledOnly /\ noticed' = noticed
    BY <1>5, NoticesStay
  <2>2. Accounted
    BY <1>1, <2>1 DEF Accounted, Polled, SleeveInvariant, NoSleeveShort
  <2>3. Drift'
    BY <2>1, <2>2, DriftPreserved
  <2>4. \A o \in 1 .. count' : o < count' \/ worker'.pc = "valid" => Over(o)'
    BY <2>1, <2>2, OversPreserved
  <2>5. /\ worker'.pc = "fresh" /\ Total(position') = worker'.holding =>
              worker'.holding = holding' /\ Quiet'
        /\ worker'.pc = "valid" =>
              /\ Quiet' /\ Total(position') = holding'
              /\ worker'.plan.base = position'
    BY <2>1, <2>2, ReadHolds
  <2>6. AccountFollows'
    BY <2>3, <2>4, <2>5 DEF AccountFollows, Drift, Quiet, Total, Sleeves
  <2>7. ValidIsTrue'
    BY <2>5 DEF ValidIsTrue, Quiet, Total, Sleeves
  <2> QED
    BY <2>6, <2>7
<1>6. ~ PolledOnly' => ValidIsTrue'
  BY DEF ValidIsTrue
<1> QED
  BY <1>2, <1>3, <1>4, <1>5, <1>6 DEF AllHolds, AccountInvariant

\* The four invariants hold together.
LEMMA AllHold == Spec => []AllHolds
<1> QED
  BY AccountInit, AccountStep, PTL DEF Spec

\* What the account and the sleeves differ by is what the ledger has not booked
\* of the last order, and every plan divides its net exactly (SleeveLedger's
\* AccountInvariant).
THEOREM AccountExact == Spec => []AccountInvariant
<1>1. AllHolds => AccountInvariant
  BY DEF AllHolds
<1> QED
  BY <1>1, AllHold, PTL

\* The sleeves together hold what was booked, whatever is lost, counted twice,
\* noticed or forgotten: neither the division of a fill nor a cross inside loses
\* or makes a share (_proportional_signed_quantities).
THEOREM SharesConserved == Spec => []Conserved
<1>1. AllHolds => Conserved
  BY DEF AllHolds, AccountInvariant
<1> QED
  BY <1>1, AllHold, PTL

\* A validation that passes is true and stays true until the order is sent: no
\* order is working at the broker and the sleeves own what the ledger says
\* (validate_portfolio_execution_dispatch).
THEOREM ValidationTrue == Spec => []ValidIsTrue
<1>1. AllHolds => ValidIsTrue
  BY DEF AllHolds, AccountInvariant
<1> QED
  BY <1>1, AllHold, PTL

\* One transaction of apply_execution_events never has more than one order to
\* book, which is why the model books one order a step.
THEOREM OneToBook == Spec => []OneOpenOrder
<1>1. AllHolds => OneOpenOrder
  <2> SUFFICES ASSUME AllHolds, PolledOnly, Bookable, NEW o \in ToBook
               PROVE  o = count
    BY DEF OneOpenOrder
  <2>1. /\ TypeOK /\ BooksFollow /\ OrdersFollow /\ EndsAreFinal /\ OneOrderMoves
        /\ AccountFollows
    BY DEF AllHolds, AccountInvariant, SleeveInvariant
  <2>2. o \in accepted /\ o \in Orders /\ o \in 1 .. count
    BY <2>1, AcceptedSent DEF ToBook
  <2>3. /\ booked[o] \in Nat /\ tally[o] \in Nat /\ Quantity(o) \in Nat
        /\ booked[o] <= tally[o] /\ tally[o] <= Quantity(o) /\ count \in Nat
    BY <2>1, <2>2, PlanOf DEF TypeOK, BooksFollow, Bookable
  <2>4. ASSUME o < count
        PROVE  FALSE
    <3>1. Frozen(o) /\ Over(o)
      BY <2>1, <2>2, <2>3, <2>4 DEF OneOrderMoves, AccountFollows
    <3>2. booked[o] = tally[o]
      BY <2>3, <3>1 DEF Frozen
    <3>3. o \in ends /\ o \notin terminal
      BY <3>2 DEF ToBook
    <3> QED
      BY <2>1, <3>1, <3>3 DEF Over, EndsAreFinal
  <2> QED
    BY <2>2, <2>3, <2>4
<1> QED
  BY <1>1, AllHold, PTL

\* An order that is booked in full leaves every sleeve at the target its cycle
\* planned, however its fills were cut (apply_execution_events).
THEOREM TargetsReached == Spec => ReachesTargets
<1> DEFINE Reaches ==
             PolledOnly =>
               \A o \in Orders :
                  booked[o] # Quantity(o) /\ booked'[o] = Quantity(o) =>
                      position' = orders[o].plan.target
<1>1. AllHolds /\ [Next]_vars => [Reaches]_vars
  <2> SUFFICES ASSUME AllHolds, [Next]_vars, PolledOnly, NEW o \in Orders,
                      booked[o] # Quantity(o), booked'[o] = Quantity(o)
               PROVE  position' = orders[o].plan.target
    BY DEF Reaches
  <2>1. /\ TypeOK /\ BooksFollow /\ OrdersFollow /\ OneOrderMoves /\ PlansBalanced
        /\ booked \in [Orders -> Nat] /\ count \in Nat
    BY DEF AllHolds, AccountInvariant, SleeveInvariant, TypeOK
  <2>2. PICK p \in Orders : SyncBooks(p)
    <3>1. CycleCrosses => booked' = booked
      BY DEF CycleCrosses
    <3>2. \A p \in Acked : Accepts(p) => booked' = booked
      BY DEF Accepts
    <3> QED
      BY <2>1, <3>1, <3>2, LedgerSteps
  <2>3. /\ o = p /\ booked'[o] = tally[o]
    BY <2>1, <2>2 DEF SyncBooks
  <2>4. SyncBooks(o) /\ tally[o] = Quantity(o) /\ o \in accepted
    BY <2>2, <2>3 DEF SyncBooks, ToBook
  <2>5. ~ Frozen(o)
    <3> SUFFICES ASSUME Frozen(o) PROVE FALSE
      OBVIOUS
    <3>1. tally[o] = booked[o]
      BY <2>1, <2>4, FrozenBooks
    <3> QED
      BY <2>4, <3>1
  <2>6. o \in 1 .. count /\ o = count
    BY <2>1, <2>4, <2>5, AcceptedSent DEF OneOrderMoves
  <2> DEFINE plan == orders[o].plan
  <2>7. /\ plan \in Plans /\ Balanced(plan) /\ plan.quantity = Quantity(o)
        /\ Quantity(o) \in Nat /\ booked[o] \in 0 .. Quantity(o)
    BY <2>1, <2>4, <2>6, PlanOf DEF PlansBalanced, Quantity, OrdersFollow
  <2>8. position = [s \in Sleeves |->
                      plan.base[s] + plan.internal[s] + Shares(plan, booked[o])[s]]
    BY <2>1, <2>4, <2>5, <2>6 DEF OneOrderMoves
  <2>9. position' = [s \in Sleeves |-> position[s]
                       + Shares(plan, tally[o])[s] - Shares(plan, booked[o])[s]]
    BY <2>4 DEF SyncBooks
  <2>10. ASSUME NEW s \in Sleeves
         PROVE  position[s] + Shares(plan, tally[o])[s] - Shares(plan, booked[o])[s]
                  = plan.target[s]
    <3>1. Shares(plan, tally[o])[s] = plan.external[s]
      BY <2>4, <2>7, SharesFull
    <3>2. Shares(plan, booked[o])[s] \in Int
      BY <2>7, SharesRange DEF Balanced
    <3>3. /\ plan.base[s] \in Int /\ plan.internal[s] \in Int /\ plan.external[s] \in Int
          /\ plan.base[s] + plan.internal[s] + plan.external[s] = plan.target[s]
      BY <2>7 DEF Plans, Balanced
    <3>4. position[s] = plan.base[s] + plan.internal[s] + Shares(plan, booked[o])[s]
      BY <2>8
    <3> QED
      BY <3>1, <3>2, <3>3, <3>4
  <2>11. plan.target \in [Sleeves -> Int]
    BY <2>7 DEF Plans
  <2> HIDE DEF plan
  <2>12. position' = plan.target
    BY <2>9, <2>10, <2>11
  <2> QED
    BY <2>12 DEF plan
<1>2. Spec => [][Reaches]_vars
  BY <1>1, AllHold, PTL DEF Spec
<1> QED
  BY <1>2 DEF ReachesTargets

=============================================================================
