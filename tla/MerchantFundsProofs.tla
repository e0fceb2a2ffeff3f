------------------------ MODULE MerchantFundsProofs ------------------------
(***************************************************************************)
(* What MerchantFunds promises for all prices, balances and numbers of     *)
(* receipts.                                                               *)
(***************************************************************************)
EXTENDS MerchantFunds, FiniteSetTheorems, TLAPS

\* The ranges of the parameters.
LEMMA Parameters ==
  /\ {N, Size, Listed} \subseteq Nat \ {0}
  /\ {MaxSpent, ApproveGas, AddGas, DefaultTip} \subseteq Nat
  /\ Prices["evm"] \subseteq Nat /\ Prices["tron"] \subseteq Nat
  /\ Tips["evm"] \subseteq Nat /\ Tips["tron"] \subseteq Nat
  /\ Purses["evm"] \subseteq Nat /\ Purses["tron"] \subseteq Nat
  /\ CallGas["claim"] \subseteq Nat /\ CallGas["release"] \subseteq Nat
BY FundsAssumption DEF FundsAssumption, Nets, Calls

-----------------------------------------------------------------------------
(* Arithmetic.                                                             *)

\* A product grows with its factors.
LEMMA ProductMonotone ==
  ASSUME NEW a \in Nat, NEW b \in Nat, NEW c \in Nat, a <= b
  PROVE  a * c <= b * c /\ c * a <= c * b /\ a * c \in Nat /\ c * a \in Nat
OBVIOUS

\* Products and percentages of amounts are amounts, and <= is transitive.
LEMMA ProductType == \A a, b \in Nat : a * b \in Nat
OBVIOUS

LEMMA LeTransitive == \A a, b, c \in Nat : a <= b /\ b <= c => a <= c
OBVIOUS

LEMMA PercentType ==
  ASSUME NEW n \in Nat, NEW p \in Nat PROVE Percent(n, p) \in Nat
BY ProductMonotone DEF Percent

\* Prices that have stayed within a slack were so before.
LEMMA WithinStays ==
  ASSUME NEW p \in Nat, NEW q \in Nat, NEW b \in Nat, NEW d \in Nat, NEW c \in Nat,
         p <= q, d <= b, 100 * q <= d * c
  PROVE  100 * p <= b * c
<1>1. d * c <= b * c OBVIOUS
<1> QED BY <1>1

\* A longer list has as many batches or more.
LEMMA DivisionMonotone ==
  ASSUME NEW l \in Nat, NEW s \in Nat \ {0}
  PROVE  (l + s - 1) \div s <= (l + 1 + s - 1) \div s
<1> DEFINE a == (l + s - 1) \div s  b == (l + 1 + s - 1) \div s
<1>1. a \in Int /\ b \in Int OBVIOUS
<1>2. s * a <= l + s - 1 OBVIOUS
<1>3. l + s < s * (b + 1) OBVIOUS
<1>4. a <= b
  <2> SUFFICES ASSUME b + 1 <= a PROVE FALSE BY <1>1
  <2> HIDE DEF a, b
  <2>1. s * (b + 1) <= s * a BY <1>1
  <2> QED BY <1>1, <1>2, <1>3, <2>1
<1> QED BY <1>4

\* The price of EstimateBatchSetup covers the cap of a transfer and the price
\* of a call, when base fee and tip have risen within the slack.
LEMMA SafeCovers ==
  ASSUME NEW b \in Nat, NEW t \in Nat, NEW q \in Nat, NEW u \in Nat,
         100 * q <= b * 150, 100 * u <= t * 120
  PROVE  /\ SafeAt(b, t) \in Nat
         /\ (3 * q) \div 2 + u <= SafeAt(b, t)
         /\ q + u <= SafeAt(b, t)
BY DEF SafeAt, Percent

\* EstimateTronContractFee, from below and from above.
LEMMA FeeBounds ==
  ASSUME NEW e \in Nat, NEW p \in Nat
  PROVE  /\ ContractFee(e, p) \in Nat
         /\ e * p \in Nat
         /\ 6 * (e * p) + 2996 <= 5 * ContractFee(e, p)
         /\ 5 * ContractFee(e, p) <= 6 * (e * p) + 3000
<1> DEFINE x == e * p
<1>1. x \in Nat BY ProductMonotone
<1> HIDE DEF x
<1>2. /\ ((x + 500) * 6) \div 5 \in Nat
      /\ 6 * x + 2996 <= 5 * (((x + 500) * 6) \div 5)
      /\ 5 * (((x + 500) * 6) \div 5) <= 6 * x + 3000
  BY <1>1
<1> QED BY <1>1, <1>2 DEF ContractFee, x

\* ... and for an approve.
LEMMA ApproveFeeBounds ==
  ASSUME NEW p \in Nat
  PROVE  /\ ContractFee(ApproveGas, p) \in Nat
         /\ ApproveGas * p \in Nat
         /\ 6 * (ApproveGas * p) + 2996 <= 5 * ContractFee(ApproveGas, p)
         /\ 5 * ContractFee(ApproveGas, p) <= 6 * (ApproveGas * p) + 3000
<1>1. ApproveGas \in Nat BY Parameters
<1> QED BY <1>1, FeeBounds

\* The least balance of the dialog covers what the second estimate pays, when
\* prices have risen by a tenth at most in between.
LEMMA DialogCovers ==
  ASSUME NEW p \in Nat, NEW o \in Nat, NEW q \in Nat,
         100 * q <= p * 110, 100 * q <= o * 110
  PROVE  N * ContractFee(ApproveGas, q) + TronShare(ContractFee(ApproveGas, q))
             + Manager * 1100
           <= Percent(DialogOnTron(p, o), 150)
<1> DEFINE e == ApproveGas * p  f == ApproveGas * q  g == ApproveGas * o
           d == AddGas * o
           r == ContractFee(ApproveGas, p)  s == ContractFee(ApproveGas, q)
           base == ContractFee(AddGas, o)
<1>0. N \in Nat \ {0} /\ ApproveGas \in Nat /\ AddGas \in Nat BY Parameters
<1> HIDE DEF e, f, g, d, r, s, base
<1>1. /\ r \in Nat /\ e \in Nat /\ 6 * e + 2996 <= 5 * r
  BY <1>0, FeeBounds DEF e, r
<1>2. /\ s \in Nat /\ f \in Nat /\ 5 * s <= 6 * f + 3000
  BY <1>0, FeeBounds DEF f, s
<1>3. /\ base \in Nat /\ d \in Nat /\ 6 * d + 2996 <= 5 * base
  BY <1>0, FeeBounds DEF d, base
<1>4. 10 * f <= 11 * e
  <2>1. 10 * q <= 11 * p OBVIOUS
  <2>2. ApproveGas * (10 * q) <= ApproveGas * (11 * p) BY <1>0, <2>1, ProductMonotone
  <2> QED BY <1>0, <2>2 DEF e, f
<1>8. 10 * f <= 11 * g /\ g \in Nat
  <2>1. 10 * q <= 11 * o OBVIOUS
  <2>2. ApproveGas * (10 * q) <= ApproveGas * (11 * o) BY <1>0, <2>1, ProductMonotone
  <2>3. g \in Nat BY <1>0, ProductType DEF g
  <2> QED BY <1>0, <2>2, <2>3 DEF f, g
<1>5. 56 * g <= 100 * d
  <2>1. 56 * ApproveGas <= 100 * AddGas BY UsageAssumption DEF UsageAssumption
  <2>2. (56 * ApproveGas) * o <= (100 * AddGas) * o BY <1>0, <2>1, ProductMonotone
  <2> QED BY <1>0, <2>2 DEF g, d
<1>6. /\ TronShare(s) = Percent(s * N, 73)
      /\ DialogOnTron(p, o) = N * r + (base + (base * (N - 1)) \div 2) + (N + 1) * 1100
  BY DEF TronShare, DialogOnTron, r, base
<1>7. N * s + Percent(s * N, 73) + (N + 1) * 1100
        <= Percent(N * r + (base + (base * (N - 1)) \div 2) + (N + 1) * 1100, 150)
  <2> DEFINE E == N * e  F == N * f  G == N * g  D == N * d
             R == N * r  S == N * s  B == base * N
  <2>1. /\ E \in Nat /\ G \in Nat /\ F \in Nat /\ D \in Nat
        /\ R \in Nat /\ S \in Nat /\ B \in Nat
    BY <1>0, <1>1, <1>2, <1>3, <1>8
  <2>2. 10 * F <= 11 * E BY <1>0, <1>1, <1>2, <1>4
  <2>3. 56 * G <= 100 * D BY <1>0, <1>3, <1>5, <1>8
  <2>8. 10 * F <= 11 * G BY <1>0, <1>2, <1>8
  <2>4. 6 * E + 2996 * N <= 5 * R BY <1>0, <1>1
  <2>5. 5 * S <= 6 * F + 3000 * N BY <1>0, <1>2
  <2>6. 6 * D + 2996 * N <= 5 * B BY <1>0, <1>3
  <2>7. base * (N - 1) = B - base /\ s * N = S BY <1>0, <1>2, <1>3
  <2> HIDE DEF E, F, G, D, R, S, B
  <2> QED BY <1>0, <1>1, <1>2, <1>3, <2>1, <2>2, <2>3, <2>4, <2>5, <2>6, <2>7,
           <2>8 DEF Percent, R, S
<1> QED BY <1>0, <1>6, <1>7 DEF Manager, s

\* calculateFeeLimit covers energy prices up to 546.
LEMMA LimitCovers ==
  ASSUME NEW e \in Nat, NEW p \in Nat, p <= 546 PROVE e * p <= FeeLimit(e)
<1> DEFINE x == e * p  l == ((e * 420 + 500) * 13) \div 10
<1>1. x <= e * 546 /\ x \in Nat BY ProductMonotone
<1>2. e * 546 <= l OBVIOUS
<1>3. l \in Nat OBVIOUS
<1> HIDE DEF x, l
<1>4. x <= l BY <1>1, <1>2, <1>3
<1> QED BY <1>4 DEF FeeLimit, DefaultPrice, x, l

\* The energy prices an estimate may have been made at.
EnergyPrices == Prices["tron"] \cup {DefaultPrice}

\* An approve on Tron is covered by its estimate, with coin left to sweep.
LEMMA ApproveOnTron ==
  ASSUME NEW b \in Nat, b \in EnergyPrices, NEW q \in Nat, b <= q,
         NEW p \in Nat, 100 * p <= b * 110
  PROVE  /\ ApproveGas * p \in Nat /\ ApproveGas * b \in Nat
         /\ ApproveGas * p + 350 <= ContractFee(ApproveGas, q)
         /\ 10 * (ApproveGas * p) <= 11 * (ApproveGas * b)
         /\ 10 * ContractFee(ApproveGas, q) > 11 * (ApproveGas * b) + 3500 + 3000
<1> DEFINE e == ApproveGas * p  d == ApproveGas * b  f == ApproveGas * q
           r == ContractFee(ApproveGas, q)
<1>0. ApproveGas \in Nat BY Parameters
<1> HIDE DEF e, d, f, r
<1>1. r \in Nat /\ f \in Nat /\ 6 * f + 2996 <= 5 * r BY ApproveFeeBounds DEF r, f
<1>2. e \in Nat /\ d \in Nat BY <1>0, ProductMonotone DEF e, d
<1>3. 10 * e <= 11 * d
  <2>1. 10 * p <= 11 * b BY <1>0
  <2>2. ApproveGas * (10 * p) <= ApproveGas * (11 * b) BY <1>0, <2>1, ProductMonotone
  <2> QED BY <1>0, <2>2 DEF e, d
<1>4. d <= f BY <1>0, ProductMonotone DEF d, f
<1>5. d >= 3000 BY UsageAssumption DEF UsageAssumption, EnergyPrices, d
<1>6. /\ e + 350 <= r
      /\ 10 * r > 11 * d + 3500 + 3000
  BY <1>1, <1>2, <1>3, <1>4, <1>5
<1> QED BY <1>2, <1>3, <1>6 DEF e, d, r

\* addReceiptWallets on Tron is covered by the manager's share, likewise.
LEMMA AddOnTron ==
  ASSUME NEW b \in Nat, b \in EnergyPrices, NEW q \in Nat, b <= q,
         NEW p \in Nat, 100 * p <= b * 110, NEW c \in Nat, c <= N
  PROVE  /\ (AddGas * c) * p \in Nat /\ N * (AddGas * b) \in Nat
         /\ (AddGas * c) * p + 350 <= TronShare(ContractFee(ApproveGas, q))
         /\ 10 * ((AddGas * c) * p) <= 11 * (N * (AddGas * b))
         /\ 10 * TronShare(ContractFee(ApproveGas, q)) > 11 * (N * (AddGas * b)) + 3500 + 3000
<1> DEFINE e == AddGas * p  d == AddGas * b  a == ApproveGas * b  f == ApproveGas * q
           r == ContractFee(ApproveGas, q)
<1>0. N \in Nat \ {0} /\ ApproveGas \in Nat /\ AddGas \in Nat BY Parameters
<1> HIDE DEF e, d, f, r, a
<1>1. r \in Nat /\ f \in Nat /\ 6 * f + 2996 <= 5 * r BY ApproveFeeBounds DEF r, f
<1>2. e \in Nat /\ d \in Nat /\ a \in Nat BY <1>0, ProductMonotone DEF e, d, a
<1>3. 10 * e <= 11 * d
  <2>1. 10 * p <= 11 * b BY <1>0
  <2>2. AddGas * (10 * p) <= AddGas * (11 * b) BY <1>0, <2>1, ProductMonotone
  <2> QED BY <1>0, <2>2 DEF e, d
<1>4. a <= f BY <1>0, ProductMonotone DEF a, f
<1>5. a >= 3000 BY UsageAssumption DEF UsageAssumption, EnergyPrices, a
<1>6. 100 * d <= 73 * a
  <2>1. 100 * AddGas <= 73 * ApproveGas BY UsageAssumption DEF UsageAssumption
  <2>2. (100 * AddGas) * b <= (73 * ApproveGas) * b BY <1>0, <2>1, ProductMonotone
  <2> QED BY <1>0, <2>2 DEF a, d
<1>7. (AddGas * c) * p = c * e BY <1>0 DEF e
<1>8. /\ c * e \in Nat /\ N * d \in Nat
      /\ c * e + 350 <= Percent(r * N, 73)
      /\ 10 * (c * e) <= 11 * (N * d)
      /\ 10 * Percent(r * N, 73) > 11 * (N * d) + 3500 + 3000
  <2> DEFINE E == c * e  F == N * e  D == N * d  R == r * N  A == N * a  G == N * f
  <2>1. E \in Nat /\ F \in Nat /\ D \in Nat /\ R \in Nat /\ A \in Nat /\ G \in Nat
    BY <1>0, <1>1, <1>2
  <2>2. E <= F BY <1>0, <1>2, ProductMonotone
  <2>3. 10 * F <= 11 * D BY <1>0, <1>2, <1>3
  <2>4. A <= G BY <1>0, <1>1, <1>2, <1>4
  <2>5. A >= 3000 BY <1>0, <1>2, <1>5
  <2>6. 100 * D <= 73 * A BY <1>0, <1>2, <1>6
  <2>7. 6 * G + 2996 * N <= 5 * R BY <1>0, <1>1
  <2> HIDE DEF E, F, D, R, A, G
  <2> QED BY <1>0, <2>1, <2>2, <2>3, <2>4, <2>5, <2>6, <2>7 DEF Percent, E, D, R
<1> QED BY <1>7, <1>8 DEF TronShare, d, r

\* A unit of gas has cost something, and the tip is not too small.
Sound(b, t) == (b # 0 \/ t # 0) /\ (t = 0 \/ t >= 27)

\* An approve on EVM, at the default limit or the estimate and 30 %, and the
\* sweep after it, are covered by PerReceiptWallet.
LEMMA ApproveOnEvm ==
  ASSUME NEW b \in Nat, NEW t \in Nat, Sound(b, t), NEW q \in Nat, NEW u \in Nat,
         100 * q <= b * 150, 100 * u <= t * 120
  PROVE  /\ 100 * ((3 * q) \div 2 + u) <= 81 * SafeAt(b, t)
         /\ 10 * (81 * SafeAt(b, t))
              > 60 * (15 * b + 12 * t) + 10 * (21 * Percent(q + u, 150))
BY DEF Sound, SafeAt, Percent

\* addReceiptWallets on EVM and the sweep after it are covered by ManagerTotal.
LEMMA AddOnEvm ==
  ASSUME NEW b \in Nat, NEW t \in Nat, Sound(b, t), NEW q \in Nat, NEW e \in Nat,
         100 * q <= b * 150, 100 * e <= t * 120, NEW c \in Nat, c <= N
  PROVE  /\ (50 + 100 * c) * ((3 * q) \div 2 + e) <= (71 + 100 * N) * SafeAt(b, t)
         /\ 10 * ((50 + 100 * c) * (q + e)) <= (50 + 100 * N) * (15 * b + 12 * t)
         /\ 10 * ((71 + 100 * N) * SafeAt(b, t))
              > (50 + 100 * N) * (15 * b + 12 * t) + 10 * (21 * Percent(q + e, 150))
<1> DEFINE f == (3 * q) \div 2 + e  x == SafeAt(b, t)  u == 50 + 100 * c
           v == 50 + 100 * N  y == 15 * b + 12 * t  z == q + e  w == Percent(q + e, 150)
<1>0. N \in Nat \ {0} BY Parameters
<1>1. f \in Nat /\ y \in Nat /\ z \in Nat /\ 10 * z <= y /\ w \in Nat
  BY <1>0 DEF Percent
<1>2. /\ x \in Nat /\ f <= x /\ y + 1 <= 10 * x
      /\ 150 * (10 * x) + 210 * x > 150 * y + 210 * w
  BY <1>0 DEF Sound, SafeAt, Percent
<1>3. u \in Nat /\ v \in Nat /\ u <= v /\ 71 + 100 * N = v + 21 /\ v >= 150 BY <1>0
<1> HIDE DEF f, x, y, z, w, u, v
<1>4. u * f <= v * x
  <2>1. u * f <= v * f /\ v * f <= v * x BY <1>1, <1>2, <1>3, ProductMonotone
  <2>2. u * f \in Nat /\ v * f \in Nat /\ v * x \in Nat BY <1>1, <1>2, <1>3
  <2> QED BY <2>1, <2>2
<1>5. v * x <= (v + 21) * x BY <1>2, <1>3
<1>6. 10 * (u * z) <= v * y
  <2>1. u * (10 * z) <= v * (10 * z) /\ v * (10 * z) <= v * y
    BY <1>1, <1>3, ProductMonotone
  <2> QED BY <1>1, <1>3, <2>1
<1>7. 10 * ((v + 21) * x) > v * y + 10 * (21 * w)
  <2> DEFINE d == 10 * x - y  vx == v * x  vy == v * y  vd == v * d
  <2>1. d \in Nat BY <1>1, <1>2
  <2>2. 10 * vx = vy + vd BY <1>1, <1>2, <1>3
  <2>3. vd >= 150 * d
    <3> HIDE DEF d
    <3>1. 150 \in Nat OBVIOUS
    <3> QED BY <1>3, <2>1, <3>1, ProductMonotone
  <2>4. (v + 21) * x = vx + 21 * x BY <1>2, <1>3
  <2>5. vx \in Nat /\ vy \in Nat BY <1>1, <1>2, <1>3, ProductType
  <2>6. vd \in Nat BY <1>3, <2>1, ProductType
  <2> HIDE DEF vx, vy, vd
  <2>7. 10 * (vx + 21 * x) > vy + 10 * (21 * w)
    BY <1>1, <1>2, <2>2, <2>3, <2>5, <2>6
  <2> QED BY <2>4, <2>7 DEF vy
<1>8. u * f <= (v + 21) * x BY <1>1, <1>2, <1>3, <1>4, <1>5
<1> QED BY <1>3, <1>6, <1>7, <1>8 DEF f, x, y, z, w, u, v

\* What is left for the next transfer, and for all of them.
LEMMA TransfersCovered ==
  ASSUME NEW n \in Nat, NEW j \in Nat, j < n, NEW x \in Nat
  PROVE  /\ (j + 1) * x = j * x + x
         /\ j * x + x <= n * x
         /\ j * x \in Nat /\ n * x \in Nat
OBVIOUS

-----------------------------------------------------------------------------
(* Types.                                                                  *)

\* The ranges of the variables, one by one.
LEMMA Ranges ==
  TypeOK => /\ price \in Nat /\ basis \in Nat /\ peak \in Nat
            /\ tip \in Nat /\ basisTip \in Nat /\ peakTip \in Nat
            /\ wallet \in Nat /\ start \in Nat /\ shown \in Nat
            /\ cap \in Nat /\ tipCap \in Nat
            /\ spent \in Nat /\ batches \in Nat /\ k \in Nat /\ listed \in Nat
            /\ refused \in BOOLEAN /\ guessed \in BOOLEAN /\ over \in BOOLEAN
            /\ quote.receipt \in Nat /\ quote.manager \in Nat
<1> SUFFICES ASSUME TypeOK
             PROVE  /\ price \in Nat /\ basis \in Nat /\ peak \in Nat
                    /\ tip \in Nat /\ basisTip \in Nat
                    /\ quote.receipt \in Nat /\ quote.manager \in Nat
  BY DEF TypeOK
<1>1. /\ Prices[net] \subseteq Nat /\ Tips[net] \subseteq Nat /\ DefaultTip \in Nat
      /\ DefaultPrice \in Nat
  BY Parameters DEF TypeOK, Nets, DefaultPrice
<1>2. price \in Nat /\ tip \in Nat BY <1>1 DEF TypeOK
<1>3. basis \in Nat /\ peak \in Nat BY <1>1 DEF TypeOK, PricesRead
<1>4. basisTip \in Nat BY <1>1 DEF TypeOK
<1>5. quote.receipt \in Nat /\ quote.manager \in Nat BY DEF TypeOK
<1> QED BY <1>2, <1>3, <1>4, <1>5

\* TypeOK with a conjunct for each variable, which the provers take apart faster.
TypeParts ==
  /\ net \in Nets
  /\ price \in Prices[net] /\ basis \in PricesRead /\ peak \in PricesRead
  /\ tip \in Tips[net] /\ basisTip \in Tips[net] \cup {DefaultTip} /\ peakTip \in Nat
  /\ wallet \in Nat /\ start \in Nat /\ shown \in Nat /\ cap \in Nat /\ tipCap \in Nat
  /\ spent \in Nat /\ batches \in Nat /\ k \in Nat /\ listed \in Nat
  /\ gas \in [Targets -> Nat]
  /\ op \in Calls \cup {"none", "setup"}
  /\ at \in {"idle", "confirmed", "declined", "begin", "fund", "approve", "add",
             "sweep", "call", "done", "failed"}
  /\ quote \in [receipt : Nat, manager : Nat]
  /\ approved \in SUBSET (1 .. N)
  /\ sent \in [limit : Nat, needs : Nat]
  /\ refused \in BOOLEAN /\ guessed \in BOOLEAN /\ over \in BOOLEAN

LEMMA TypeInParts == (TypeOK <=> TypeParts) /\ (TypeOK' <=> TypeParts')
<1>1. TypeOK <=> TypeParts BY DEF TypeOK, TypeParts
<1>2. TypeOK' <=> TypeParts' BY DEF TypeOK, TypeParts
<1> QED BY <1>1, <1>2

\* What nodes answer, and what is taken for an answer, are amounts; on EVM they
\* are not too small.
LEMMA ReadingTypes ==
  TypeOK => /\ TipReadings \subseteq Tips[net] \cup {DefaultTip}
            /\ TipReadings \subseteq Nat
            /\ PriceReadings \subseteq PricesRead /\ PriceReadings \subseteq Nat
            /\ PricesRead \subseteq Nat
            /\ evm => \A t \in TipReadings : Sound(price, t)
<1> SUFFICES ASSUME TypeOK
             PROVE  /\ TipReadings \subseteq Tips[net] \cup {DefaultTip}
                    /\ TipReadings \subseteq Nat
                    /\ PriceReadings \subseteq PricesRead /\ PriceReadings \subseteq Nat
                    /\ PricesRead \subseteq Nat
                    /\ evm => \A t \in TipReadings : Sound(price, t)
  OBVIOUS
<1>1. price \in Nat /\ tip \in Nat /\ DefaultTip \in Nat /\ DefaultPrice \in Nat
  BY Ranges, Parameters DEF DefaultPrice
<1>2. Prices[net] \subseteq Nat BY Parameters DEF TypeOK, Nets
<1>3. price \in Prices[net] /\ tip \in Tips[net] BY DEF TypeOK
<1>4. ASSUME evm, NEW t \in TipReadings PROVE Sound(price, t)
  <2>1. t \in Tips["evm"] \cup {DefaultTip} BY <1>3, <1>4 DEF evm, TipReadings
  <2>2. t = 0 \/ t >= 27 BY <2>1, TipAssumption DEF TipAssumption
  <2>3. t = 0 => t \in Tips["evm"] BY <1>1, <2>1, TipAssumption DEF TipAssumption
  <2>4. price = 0 /\ t = 0 => FALSE
    BY <1>3, <1>4, <2>3, TipAssumption DEF evm, TipAssumption
  <2> QED BY <2>2, <2>4 DEF Sound
<1> QED BY <1>1, <1>2, <1>3, <1>4 DEF TipReadings, PriceReadings, PricesRead

\* What a call is sent with: no more than the fee data's cap, and what is paid
\* of it is no more than the fees of the moment.
LEMMA OfferTypes ==
  ASSUME TypeOK, NEW offer \in Offers
  PROVE  /\ offer.cap \in Nat /\ offer.tip \in Nat
         /\ offer.cap <= (3 * price) \div 2 + offer.tip
         /\ Paid(offer) \in Nat /\ Paid(offer) <= offer.cap
         /\ Paid(offer) <= price + offer.tip
<1>0. price \in Nat /\ tip \in Nat /\ TipReadings \subseteq Nat
  BY Ranges, ReadingTypes
<1>1. CASE evm
  <2>1. \/ offer = [cap |-> Suggested, tip |-> tip]
        \/ \E t \in TipReadings : offer = [cap |-> FeeCap(t), tip |-> t]
    BY <1>1 DEF Offers
  <2>2. CASE offer = [cap |-> Suggested, tip |-> tip]
    BY <1>0, <2>2 DEF Suggested, Paid, Least
  <2>3. ASSUME NEW t \in TipReadings, offer = [cap |-> FeeCap(t), tip |-> t]
        PROVE  /\ offer.cap \in Nat /\ offer.tip \in Nat
               /\ offer.cap <= (3 * price) \div 2 + offer.tip
               /\ Paid(offer) \in Nat /\ Paid(offer) <= offer.cap
               /\ Paid(offer) <= price + offer.tip
    BY <1>0, <2>3 DEF FeeCap, Paid, Least
  <2> QED BY <2>1, <2>2, <2>3
<1>2. CASE ~evm
  <2>1. offer.cap = 0 /\ offer.tip = 0 BY <1>2 DEF Offers
  <2> QED BY <1>0, <2>1 DEF Paid, Least
<1> QED BY <1>1, <1>2

\* A call on EVM may get two limits, one on Tron gets what it needs.
LEMMA CallTypes ==
  ASSUME NEW needs \in Nat, NEW call \in CallsFor(needs)
  PROVE  /\ call \in [limit : Nat, needs : Nat]
         /\ call.needs = needs
         /\ evm => \/ call.limit = Least(Percent(needs, 130), 500)
                   \/ call.limit = 100
         /\ ~evm => call.limit = needs
<1>1. Least(Percent(needs, 130), 500) \in Nat BY DEF Least, Percent
<1>2. CASE evm BY <1>1, <1>2 DEF CallsFor, Limits
<1>3. CASE ~evm BY <1>3 DEF CallsFor
<1> QED BY <1>2, <1>3

\* Who can hold a call can pay for what it uses.
LEMMA AffordedFee ==
  ASSUME TypeOK, NEW have \in Nat, NEW call \in [limit : Nat, needs : Nat],
         NEW offer \in Offers, Affords(have, call, offer),
         NEW used \in Nat, used <= call.limit, used <= call.needs
  PROVE  Fee(used, offer) \in Nat /\ Fee(used, offer) <= have
<1>0. price \in Nat BY Ranges
<1>1. CASE evm
  <2>1. offer.cap \in Nat /\ Paid(offer) \in Nat /\ Paid(offer) <= offer.cap
    BY OfferTypes
  <2>2. used * Paid(offer) <= used * offer.cap BY <2>1, ProductMonotone
  <2>3. used * offer.cap <= call.limit * offer.cap BY <2>1, ProductMonotone
  <2>4. /\ used * Paid(offer) \in Nat /\ used * offer.cap \in Nat
        /\ call.limit * offer.cap \in Nat
    BY <2>1, ProductMonotone
  <2>5. call.limit * offer.cap <= have BY <1>1, <2>4 DEF Affords
  <2>6. Fee(used, offer) = used * Paid(offer) BY <1>1 DEF Fee
  <2> QED BY <2>2, <2>3, <2>4, <2>5, <2>6
<1>2. CASE ~evm
  <2>1. used * price <= call.needs * price BY <1>0, ProductMonotone
  <2>2. used * price \in Nat /\ call.needs * price \in Nat BY <1>0, ProductMonotone
  <2> QED BY <1>2, <2>1, <2>2 DEF Affords, Fee
<1> QED BY <1>1, <1>2

\* Estimates are amounts.
LEMMA EvmQuoteTypes ==
  ASSUME TypeOK, NEW t \in TipReadings
  PROVE  /\ SafePrice(t) = SafeAt(price, t) /\ SafeAt(price, t) \in Nat
         /\ EstimateEvm(t) \in [receipt : Nat, manager : Nat]
         /\ TotalEvm(t) \in Nat
<1>0. price \in Nat /\ t \in Nat /\ N \in Nat \ {0} BY Ranges, ReadingTypes, Parameters
<1>1. SafePrice(t) = SafeAt(price, t) /\ SafeAt(price, t) \in Nat
  BY <1>0 DEF SafePrice, SafeAt, Percent
<1>2. EstimateEvm(t) \in [receipt : Nat, manager : Nat]
  BY <1>0, <1>1, ProductMonotone DEF EstimateEvm
<1>3. /\ N * EstimateEvm(t).receipt \in Nat /\ EstimateEvm(t).manager \in Nat
      /\ (N + 1) * (21 * SafePrice(t)) \in Nat
  BY <1>0, <1>1, <1>2, ProductType
<1> HIDE DEF SafePrice
<1>4. TotalEvm(t) \in Nat BY <1>3 DEF TotalEvm
<1> QED BY <1>1, <1>2, <1>4

\* ... on Tron too.
LEMMA TronQuoteTypes ==
  ASSUME NEW p \in Nat
  PROVE  /\ ReceiptFee(p) \in Nat /\ ManagerFee(p) \in Nat
         /\ \A r \in TronReceipts(p) : r \in Nat /\ TronShare(r) \in Nat
         /\ TronManagers(p) \subseteq Nat
<1>0. N \in Nat \ {0} /\ ApproveGas \in Nat /\ AddGas \in Nat BY Parameters
<1>1. ReceiptFee(p) \in Nat BY <1>0, FeeBounds DEF ReceiptFee
<1>2. ManagerFee(p) \in Nat
  <2>1. ContractFee(AddGas, p) \in Nat BY <1>0, FeeBounds
  <2>2. ContractFee(AddGas, p) * (N - 1) \in Nat BY <1>0, <2>1, ProductMonotone
  <2> QED BY <2>1, <2>2 DEF ManagerFee
<1>3. ASSUME NEW r \in TronReceipts(p) PROVE r \in Nat /\ TronShare(r) \in Nat
  <2>1. r \in Nat BY <1>1 DEF TronReceipts
  <2>2. r * N \in Nat BY <1>0, <2>1, ProductMonotone
  <2> QED BY <2>1, <2>2, PercentType DEF TronShare
<1> QED BY <1>1, <1>2, <1>3 DEF TronManagers

\* The initial states are typed.
LEMMA InitType == Init => TypeOK
<1> SUFFICES ASSUME Init PROVE TypeOK
  OBVIOUS
<1>1. /\ Prices[net] \subseteq Nat /\ Tips[net] \subseteq Nat /\ Purses[net] \subseteq Nat
      /\ Listed \in Nat
  BY Parameters DEF Init, Nets
<1>2. /\ price \in Prices[net] /\ basis \in PricesRead /\ peak \in PricesRead
      /\ tip \in Tips[net] /\ basisTip \in Tips[net]
  BY DEF Init, PricesRead
<1>3. /\ wallet \in Nat /\ start \in Nat /\ shown \in Nat /\ cap \in Nat
      /\ tipCap \in Nat /\ peakTip \in Nat
      /\ spent \in Nat /\ batches \in Nat /\ k \in Nat /\ listed \in Nat
  BY <1>1 DEF Init
<1>4. gas \in [Targets -> Nat] BY DEF Init
<1>5. /\ quote \in [receipt : Nat, manager : Nat]
      /\ sent \in [limit : Nat, needs : Nat]
      /\ approved \in SUBSET (1 .. N)
  BY DEF Init, NoQuote, NoCall
<1>6. refused = FALSE /\ guessed = FALSE /\ over = FALSE BY DEF Init
<1>7. net \in Nets /\ op = "none" /\ at = "idle" BY DEF Init
<1> QED BY <1>2, <1>3, <1>4, <1>5, <1>6, <1>7 DEF TypeOK

\* What a sweep holds back is an amount.
LEMMA SweepCostType == TypeOK => SweepCost \in Nat
<1> SUFFICES ASSUME TypeOK PROVE SweepCost \in Nat
  OBVIOUS
<1>1. price \in Nat /\ tip \in Nat BY Ranges
<1>2. Suggested \in Nat BY <1>1 DEF Suggested
<1>3. Percent(Suggested, 150) \in Nat BY <1>2, PercentType
<1> QED BY <1>3 DEF SweepCost

\* The operations of a set-up write values of the variables' ranges.
LEMMA SetupType ==
  TypeOK /\ (\/ AskSetupEvm \/ AskSetupTron \/ StartEvm \/ StartTron \/ FundBegin
             \/ Fund \/ FundRefused \/ FundMined)
    => TypeOK'
<1> SUFFICES ASSUME TypeOK, TypeParts,
                    \/ AskSetupEvm \/ AskSetupTron \/ StartEvm \/ StartTron \/ FundBegin
                    \/ Fund \/ FundRefused \/ FundMined
             PROVE  TypeParts'
  BY TypeInParts
<1> USE DEF TypeParts, PricesRead, quoteVars, feeVars, since, ghosts, Targets, Manager
<1>0. /\ price \in Nat /\ basis \in Nat /\ wallet \in Nat /\ cap \in Nat /\ k \in Nat
      /\ tip \in Nat /\ peakTip \in Nat /\ tipCap \in Nat /\ peak \in Nat
      /\ quote.receipt \in Nat /\ quote.manager \in Nat
      /\ N \in Nat \ {0}
      /\ TipReadings \subseteq Tips[net] \cup {DefaultTip} /\ TipReadings \subseteq Nat
      /\ PriceReadings \subseteq PricesRead /\ PriceReadings \subseteq Nat
      /\ price \in PricesRead
  BY Ranges, Parameters, ReadingTypes DEF PricesRead
<1>1. CASE AskSetupEvm
  <2>1. PICK t \in TipReadings : /\ shown' = TotalEvm(t)
                                /\ basisTip' = t /\ peakTip' = Most(tip, t)
    BY <1>1 DEF AskSetupEvm
  <2>2. TotalEvm(t) \in Nat BY EvmQuoteTypes
  <2>3. shown' \in Nat /\ basisTip' \in Tips[net] \cup {DefaultTip} /\ peakTip' \in Nat
    BY <1>0, <2>1, <2>2 DEF Most
  <2>4. /\ op' = "setup" /\ at' = "confirmed"
        /\ start' = wallet /\ basis' = price /\ peak' = price
        /\ UNCHANGED <<net, price, tip, wallet, gas, k, batches, listed, quote, feeVars,
                       approved, sent, refused, guessed, over, spent>>
    BY <1>1 DEF AskSetupEvm
  <2> QED BY <1>0, <2>3, <2>4
<1>2. CASE AskSetupTron
  <2>9. PICK p \in PriceReadings, q \in PriceReadings :
          \E r \in TronReceipts(p), m \in TronManagers(q) :
            /\ shown' = TotalTron(r, m)
            /\ guessed' = (r # ReceiptFee(p) \/ m # ManagerFee(q))
            /\ basis' = Least(p, q) /\ peak' = Most(price, Most(p, q))
    BY <1>2 DEF AskSetupTron
  <2>1. PICK r \in TronReceipts(p), m \in TronManagers(q) :
          /\ shown' = TotalTron(r, m)
          /\ guessed' = (r # ReceiptFee(p) \/ m # ManagerFee(q))
          /\ basis' = Least(p, q) /\ peak' = Most(price, Most(p, q))
    BY <2>9
  <2>2. r \in Nat /\ m \in Nat
    <3>1. p \in Nat /\ q \in Nat BY <1>0
    <3> QED BY <3>1, TronQuoteTypes
  <2>3. N * r \in Nat BY <1>0, <2>2, ProductType
  <2>4. shown' \in Nat
    <3>1. shown' = N * r + m + (N + 1) * 1100 BY <2>1 DEF TotalTron
    <3> HIDE DEF TypeParts
    <3> QED BY <1>0, <2>2, <2>3, <3>1
  <2>5. guessed' \in BOOLEAN BY <2>1
  <2>6. basis' \in PricesRead /\ peak' \in PricesRead
    BY <1>0, <2>1 DEF Least, Most
  <2>7. /\ op' = "setup" /\ at' = "confirmed" /\ start' = wallet
        /\ UNCHANGED <<net, price, tip, wallet, gas, k, batches, listed, quote, feeVars,
                       approved, sent, refused, basisTip, peakTip, over, spent>>
    BY <1>2 DEF AskSetupTron
  <2> QED BY <1>0, <2>4, <2>5, <2>6, <2>7
<1>3. CASE StartEvm
  <2>1. PICK t \in TipReadings : /\ quote' = EstimateEvm(t) /\ shown' = TotalEvm(t)
                                /\ basisTip' = t /\ peakTip' = Most(tip, t)
    BY <1>3 DEF StartEvm
  <2>2. TotalEvm(t) \in Nat /\ EstimateEvm(t) \in [receipt : Nat, manager : Nat]
    BY EvmQuoteTypes
  <2>3. /\ shown' \in Nat /\ quote' \in [receipt : Nat, manager : Nat]
        /\ basisTip' \in Tips[net] \cup {DefaultTip} /\ peakTip' \in Nat
    BY <1>0, <2>1, <2>2 DEF Most
  <2>4. /\ basis' = price /\ peak' = price /\ at' \in {"begin", "declined"}
        /\ UNCHANGED <<net, price, tip, wallet, gas, op, k, batches, listed, feeVars,
                       approved, sent, refused, start, guessed, over, spent>>
    BY <1>3 DEF StartEvm
  <2> QED BY <1>0, <2>3, <2>4
<1>4. CASE StartTron
  <2>9. PICK p \in PriceReadings :
          \E r \in TronReceipts(p) :
            /\ quote' = [receipt |-> r, manager |-> TronShare(r)]
            /\ guessed' = (guessed \/ r # ReceiptFee(p))
            /\ basis' = Least(basis, p) /\ peak' = Most(peak, p)
    BY <1>4 DEF StartTron
  <2>1. PICK r \in TronReceipts(p) :
          /\ quote' = [receipt |-> r, manager |-> TronShare(r)]
          /\ guessed' = (guessed \/ r # ReceiptFee(p))
          /\ basis' = Least(basis, p) /\ peak' = Most(peak, p)
    BY <2>9
  <2>2. quote' \in [receipt : Nat, manager : Nat]
    <3>1. p \in Nat BY <1>0
    <3> QED BY <2>1, <3>1, TronQuoteTypes
  <2>3. guessed' \in BOOLEAN BY <2>1
  <2>4. basis' \in PricesRead /\ peak' \in PricesRead BY <1>0, <2>1 DEF Least, Most
  <2>5. /\ at' = "begin"
        /\ UNCHANGED <<net, price, tip, wallet, gas, op, k, batches, listed, feeVars,
                       approved, sent, refused, start, shown, basisTip, peakTip, over,
                       spent>>
    BY <1>4 DEF StartTron
  <2> QED BY <1>0, <2>2, <2>3, <2>4, <2>5
<1>5. CASE FundBegin
  <2>1. cap' \in Nat /\ tipCap' \in Nat /\ peakTip' \in Nat
    <3>1. \/ \E t \in TipReadings :
               cap' = FeeCap(t) /\ tipCap' = t /\ peakTip' = Most(peakTip, t)
          \/ UNCHANGED <<feeVars, peakTip>>
      BY <1>5 DEF FundBegin
    <3>2. ASSUME NEW t \in TipReadings PROVE FeeCap(t) \in Nat /\ Most(peakTip, t) \in Nat
      <4>1. t \in Nat BY <1>0
      <4> HIDE DEF TypeParts
      <4> QED BY <1>0, <4>1 DEF FeeCap, Most
    <3>3. \A t \in TipReadings : t \in Nat BY <1>0
    <3> QED BY <1>0, <3>1, <3>2, <3>3
  <2> QED BY <1>5, <2>1 DEF FundBegin
<1>6. CASE Fund
  <2>1. Value \in Nat /\ Held \in Nat BY <1>0 DEF Value, Held
  <2>2. wallet' \in Nat
    <3>1. wallet >= Value + Held /\ wallet' = wallet - Value - Held BY <1>6 DEF Fund
    <3> HIDE DEF TypeParts
    <3> QED BY <1>0, <2>1, <3>1
  <2>3. k + 1 \in Targets /\ gas' = [gas EXCEPT ![k + 1] = Value] BY <1>0, <1>6 DEF Fund
  <2> QED BY <1>0, <1>6, <2>1, <2>2, <2>3, SMTT(30) DEF Fund
<1>7. CASE FundRefused BY <1>7 DEF FundRefused
<1>8. CASE FundMined
  <2> DEFINE paid == Paid([cap |-> cap, tip |-> tipCap])
  <2>1. paid \in Nat /\ paid <= cap BY <1>0 DEF Paid, Least
  <2>6. \/ wallet' = wallet
        \/ wallet' = wallet + (Manager * 21) * (cap - paid)
        \/ wallet' = wallet + 0
    BY <1>8 DEF FundMined
  <2> HIDE DEF paid
  <2>5. Manager * 21 \in Nat /\ cap - paid \in Nat
    <3> HIDE DEF TypeParts
    <3>1. Manager * 21 \in Nat BY <1>0
    <3>2. cap - paid \in Nat BY <1>0, <2>1
    <3> QED BY <3>1, <3>2
  <2>2. (Manager * 21) * (cap - paid) \in Nat BY <2>5, ProductType
  <2>3. wallet' \in Nat BY <1>0, <2>2, <2>6, SMTT(30)
  <2>4. at' \in {"failed", "approve"} /\ k' = 0 BY <1>8 DEF FundMined
  <2> QED BY <1>8, <2>3, <2>4, SMTT(30) DEF FundMined
<1> QED BY <1>1, <1>2, <1>3, <1>4, <1>5, <1>6, <1>7, <1>8

\* So do approves, the listing and the sweeps.
LEMMA SpendType ==
  TypeOK /\ (Approve \/ ApproveSkip \/ ApproveEnd \/ AddReceiptWallets \/ Sweep \/ SweepSkip)
    => TypeOK'
<1> SUFFICES ASSUME TypeOK, TypeParts,
                    \/ Approve \/ ApproveSkip \/ ApproveEnd \/ AddReceiptWallets
                    \/ Sweep \/ SweepSkip
             PROVE  TypeParts'
  BY TypeInParts
<1> USE DEF TypeParts, PricesRead, quoteVars, feeVars, since, ghosts, Targets, Manager
<1>0. /\ price \in Nat /\ wallet \in Nat /\ k \in Nat /\ peakTip \in Nat
      /\ N \in Nat \ {0} /\ ApproveGas \in Nat /\ AddGas \in Nat
  BY Ranges, Parameters
<1>1. CASE Approve
  <2>1. k + 1 \in Targets /\ k + 1 \in 1 .. N /\ gas[k + 1] \in Nat
    BY <1>0, <1>1, SMTT(30) DEF Approve
  <2>2. PICK call \in CallsFor(ApproveGas), offer \in Offers : SendApprove(call, offer)
    BY <1>1 DEF Approve
  <2>3. call \in [limit : Nat, needs : Nat] /\ call.needs = ApproveGas
    BY <1>0, CallTypes
  <2>4. LET used == Least(call.limit, ApproveGas)
        IN  used \in Nat /\ used <= call.limit /\ used <= call.needs
    BY <1>0, <2>3 DEF Least
  <2>5. gas' \in [Targets -> Nat] /\ approved' \in SUBSET (1 .. N) /\ refused' \in BOOLEAN
    <3> DEFINE fee == Fee(Least(call.limit, ApproveGas), offer)
    <3>1. CASE Affords(gas[k + 1], call, offer)
      <4>1. fee \in Nat /\ fee <= gas[k + 1]
        BY <2>1, <2>3, <2>4, <3>1, AffordedFee
      <4>2. gas[k + 1] - fee \in Nat BY <2>1, <4>1
      <4>3. /\ gas' = [gas EXCEPT ![k + 1] = @ - fee]
            /\ approved' = approved \cup {k + 1}
            /\ UNCHANGED refused
        BY <2>2, <3>1 DEF SendApprove
      <4> HIDE DEF fee
      <4> QED BY <2>1, <4>2, <4>3
    <3>2. CASE ~Affords(gas[k + 1], call, offer) BY <2>2, <3>2 DEF SendApprove
    <3> QED BY <3>1, <3>2
  <2>8. peakTip' \in Nat
    <3>1. offer.tip \in Nat BY OfferTypes
    <3>2. peakTip' = Most(peakTip, offer.tip) BY <2>2 DEF SendApprove
    <3> QED BY <1>0, <3>1, <3>2 DEF Most
  <2>6. /\ k' = k + 1
        /\ UNCHANGED <<net, price, tip, wallet, op, at, listed, feeVars, sent, quoteVars,
                       start, since, guessed, over, spent>>
    BY <1>1 DEF Approve
  <2>7. k' \in Nat
    <3> HIDE DEF TypeParts
    <3>1. k + 1 \in Nat BY <1>0
    <3> QED BY <2>6, <3>1
  <2> HIDE DEF Targets, Manager
  <2> QED BY <2>5, <2>6, <2>7, <2>8, SMTT(30)
<1>2. CASE ApproveSkip
  <2>1. k' = k + 1 /\ UNCHANGED gas BY <1>2 DEF ApproveSkip
  <2>2. k' \in Nat BY <1>0, <2>1
  <2> HIDE DEF Targets, Manager
  <2> QED BY <1>2, <2>1, <2>2, SMTT(30) DEF ApproveSkip
<1>3. CASE ApproveEnd
  <2>1. at' \in {"failed", "add"} BY <1>3 DEF ApproveEnd
  <2> QED BY <1>3, <2>1 DEF ApproveEnd
<1>4. CASE AddReceiptWallets
  <2>1. AddCall \in [limit : Nat, needs : Nat] /\ AddCall.needs = AddCall.limit
    <3>1. Cardinality(approved) \in Nat
      <4>2. IsFiniteSet(1 .. N)
        <5>1. 1 \in Int /\ N \in Int BY <1>0
        <5> HIDE DEF TypeParts
        <5> QED BY <5>1, FS_Interval
      <4>3. approved \in SUBSET (1 .. N) OBVIOUS
      <4>1. IsFiniteSet(approved) BY <4>2, <4>3, FS_Subset
      <4> QED BY <4>1, FS_CardinalityType
    <3>2. AddGas * Cardinality(approved) \in Nat BY <1>0, <3>1, ProductMonotone
    <3> QED BY <3>1, <3>2, SMTT(30) DEF AddCall
  <2>2. Manager \in Targets /\ gas[Manager] \in Nat BY <1>0
  <2>4. PICK offer \in Offers : SendAdd(offer) BY <1>4 DEF AddReceiptWallets
  <2>3. gas' \in [Targets -> Nat] /\ refused' \in BOOLEAN /\ at' \in {"sweep", "failed"}
    <3>1. CASE Affords(gas[Manager], AddCall, offer)
      <4> DEFINE fee == Fee(AddCall.needs, offer)
      <4>1. fee \in Nat /\ fee <= gas[Manager]
        <5>1. /\ AddCall.needs \in Nat
              /\ AddCall.needs <= AddCall.limit /\ AddCall.needs <= AddCall.needs
          BY <2>1
        <5> HIDE DEF TypeParts
        <5> QED BY <2>1, <2>2, <3>1, <5>1, AffordedFee
      <4>2. gas[Manager] - fee \in Nat BY <2>2, <4>1
      <4>3. gas' = [gas EXCEPT ![Manager] = @ - fee] /\ at' = "sweep" /\ UNCHANGED refused
        BY <2>4, <3>1 DEF SendAdd
      <4> HIDE DEF fee
      <4>4. gas' \in [Targets -> Nat] BY <2>2, <4>2, <4>3
      <4> QED BY <4>3, <4>4
    <3>2. CASE ~Affords(gas[Manager], AddCall, offer) BY <2>4, <3>2 DEF SendAdd
    <3> QED BY <3>1, <3>2
  <2>5. peakTip' \in Nat
    <3>1. offer.tip \in Nat BY OfferTypes
    <3>2. peakTip' = Most(peakTip, offer.tip) BY <2>4 DEF SendAdd
    <3> QED BY <1>0, <3>1, <3>2 DEF Most
  <2> QED BY <1>4, <2>3, <2>5 DEF AddReceiptWallets
<1>5. CASE Sweep
  <2>1. k + 1 \in Targets /\ gas[k + 1] \in Nat BY <1>0, <1>5, SMTT(30) DEF Sweep
  <2>2. SweepCost \in Nat BY SweepCostType
  <2>4. at' \in {"done", "sweep"} /\ k' \in Nat BY <1>0, <1>5 DEF Sweep
  <2>5. CASE UNCHANGED <<wallet, gas, refused>>
    BY <1>5, <2>4, <2>5 DEF Sweep
  <2>6. CASE refused' = TRUE /\ UNCHANGED <<wallet, gas>>
    BY <1>5, <2>4, <2>6 DEF Sweep
  <2>7. CASE /\ gas[k + 1] > SweepCost
             /\ wallet' = wallet + gas[k + 1] - SweepCost
             /\ gas' = [gas EXCEPT ![k + 1] = 0]
             /\ UNCHANGED refused
    <3>1. wallet' \in Nat
      <4> DEFINE left == gas[k + 1]  cost == SweepCost
      <4>1. left \in Nat /\ cost \in Nat /\ left > cost /\ wallet \in Nat
        BY <1>0, <2>1, <2>2, <2>7
      <4>2. wallet' = wallet + left - cost BY <2>7
      <4> HIDE DEF left, cost, TypeParts
      <4> QED BY <4>1, <4>2
    <3>2. gas' \in [Targets -> Nat] BY <2>1, <2>7
    <3> QED BY <1>5, <2>4, <2>7, <3>1, <3>2 DEF Sweep
  <2> QED BY <1>5, <2>5, <2>6, <2>7 DEF Sweep
<1>6. CASE SweepSkip
  <2>1. at' \in {"done", "sweep"} /\ k' \in Nat BY <1>0, <1>6 DEF SweepSkip
  <2> QED BY <1>6, <2>1 DEF SweepSkip
<1> QED BY <1>1, <1>2, <1>3, <1>4, <1>5, <1>6

\* So do calls, the chain and other operations.
LEMMA CallType ==
  TypeOK /\ Where /\ (\/ Call \/ CallSkip \/ CallEnd \/ PriceMoves \/ Spend \/ ListGrows
                      \/ \E o \in Calls : AskCall(o))
    => TypeOK'
<1> SUFFICES ASSUME TypeOK, TypeParts, Where,
                    \/ Call \/ CallSkip \/ CallEnd \/ PriceMoves \/ Spend \/ ListGrows
                    \/ \E o \in Calls : AskCall(o)
             PROVE  TypeParts'
  BY TypeInParts
<1> USE DEF TypeParts, PricesRead, quoteVars, feeVars, since, ghosts
<1>0. /\ price \in Nat /\ tip \in Nat /\ peakTip \in Nat
      /\ wallet \in Nat /\ k \in Nat /\ listed \in Nat
      /\ N \in Nat \ {0} /\ Size \in Nat \ {0} /\ Listed \in Nat
  BY Ranges, Parameters
<1>1. CASE Call
  <2>1. PICK needs \in CallGas[op], offer \in Offers :
          \E call \in CallsFor(needs) : SendCall(call, offer)
    BY <1>1 DEF Call
  <2>2. PICK call \in CallsFor(needs) : SendCall(call, offer) BY <2>1
  <2>3. needs \in Nat
    <3>1. CallGas["claim"] \subseteq Nat /\ CallGas["release"] \subseteq Nat BY Parameters
    <3>2. op \in Calls BY <1>1 DEF Call, Calling, Where
    <3> QED BY <2>1, <3>1, <3>2 DEF Calls
  <2>4. call \in [limit : Nat, needs : Nat] BY <2>3, CallTypes
  <2>5. LET used == Least(call.limit, call.needs)
        IN  used \in Nat /\ used <= call.limit /\ used <= call.needs
    BY <2>4 DEF Least
  <2>6. sent' \in [limit : Nat, needs : Nat] BY <2>2, <2>4 DEF SendCall
  <2>7. guessed' \in BOOLEAN /\ over' \in BOOLEAN BY <2>2 DEF SendCall
  <2>10. peakTip' \in Nat
    <3>1. offer.tip \in Nat BY OfferTypes
    <3>2. peakTip' = Most(peakTip, offer.tip) BY <2>2 DEF SendCall
    <3> QED BY <1>0, <3>1, <3>2 DEF Most
  <2>8. CASE Affords(wallet, call, offer)
    <3> DEFINE fee == Fee(Least(call.limit, call.needs), offer)
    <3>1. fee \in Nat /\ fee <= wallet
      BY <1>0, <2>4, <2>5, <2>8, AffordedFee
    <3>2. /\ wallet' = wallet - fee /\ k' = k + 1
          /\ at' = at /\ refused' = refused
      BY <2>2, <2>8 DEF SendCall
    <3> HIDE DEF fee
    <3>3. wallet' \in Nat /\ k' \in Nat BY <1>0, <3>1, <3>2
    <3> QED BY <1>1, <2>6, <2>7, <2>10, <3>2, <3>3 DEF Call
  <2>9. CASE ~Affords(wallet, call, offer)
    BY <1>1, <2>2, <2>6, <2>7, <2>9, <2>10 DEF Call, SendCall
  <2> QED BY <2>8, <2>9
<1>2. CASE CallSkip BY <1>0, <1>2 DEF CallSkip
<1>3. CASE CallEnd BY <1>3 DEF CallEnd
<1>4. CASE PriceMoves
  <2>1. tip' \in Nat BY <1>4, Parameters DEF PriceMoves, Nets
  <2>2. peakTip' \in Nat BY <1>0, <1>4, <2>1 DEF PriceMoves, Most
  <2>3. peak' \in PricesRead BY <1>4 DEF PriceMoves, Most, PricesRead
  <2> QED BY <1>4, <2>2, <2>3 DEF PriceMoves, PricesRead
<1>5. CASE Spend
  <2>1. wallet' \in Nat /\ spent' \in Nat BY <1>0, <1>5 DEF Spend
  <2> QED BY <1>5, <2>1 DEF Spend
<1>6. CASE ListGrows BY <1>0, <1>6 DEF ListGrows
<1>7. ASSUME NEW o \in Calls, AskCall(o) PROVE TypeParts'
  <2>1. batches' \in Nat BY <1>0, <1>7 DEF AskCall, Batches, Most
  <2>2. GuessedGas[o] \in Nat /\ GuessedTrx[o] \in Nat
    BY <1>0 DEF GuessedGas, GuessedTrx, Calls
  <2>3. Suggested \in Nat BY <1>0 DEF Suggested
  <2>4. GuessedGas[o] * Suggested \in Nat BY <2>2, <2>3, ProductType
  <2>5. ASSUME NEW x \in Nat PROVE Percent(batches' * x, 150) \in Nat
    <3>1. batches' * x \in Nat BY <2>1, ProductType
    <3> HIDE DEF TypeParts
    <3> QED BY <3>1, PercentType
  <2>6. CallFees(o, batches') \in Nat BY <2>2, <2>4, <2>5 DEF CallFees
  <2> QED BY <1>0, <1>7, <2>1, <2>6 DEF AskCall, PricesRead
<1> QED BY <1>1, <1>2, <1>3, <1>4, <1>5, <1>6, <1>7

\* So does every step.
LEMMA StepType == TypeOK /\ Where /\ [Next]_vars => TypeOK'
<1>1. TypeOK /\ UNCHANGED vars => TypeOK'
  BY DEF TypeOK, PricesRead, vars, quoteVars, feeVars, since, ghosts
<1> QED BY <1>1, SetupType, SpendType, CallType DEF Next

-----------------------------------------------------------------------------
(* What a step leaves alone.                                               *)

\* Every step but a dialog and the second estimate on EVM.
Others ==
  \/ StartTron \/ FundBegin \/ Fund \/ FundRefused \/ FundMined \/ Approve \/ ApproveSkip
  \/ ApproveEnd \/ AddReceiptWallets \/ Sweep \/ SweepSkip \/ Call \/ CallSkip \/ CallEnd
  \/ PriceMoves \/ Spend \/ ListGrows \/ UNCHANGED vars

\* Every step keeps to where the operations may be.
LEMMA WhereStep == TypeOK /\ Where /\ [Next]_vars => Where'
<1> SUFFICES ASSUME TypeOK, Where, [Next]_vars PROVE Where'
  OBVIOUS
<1>0. /\ price \in Nat /\ basis \in Nat /\ peak \in Nat /\ k \in Nat /\ N \in Nat \ {0}
      /\ spent \in Nat /\ tip \in Nat /\ peakTip \in Nat
      /\ TipReadings \subseteq Nat /\ PriceReadings \subseteq Nat
  BY Ranges, Parameters, ReadingTypes
<1> USE DEF Where, quoteVars, feeVars, since, ghosts, Manager
<1>1. CASE AskSetupEvm
  <2>1. PICK t \in TipReadings : peakTip' = Most(tip, t) BY <1>1 DEF AskSetupEvm
  <2>2. tip <= peakTip' BY <1>0, <2>1 DEF Most
  <2> QED BY <1>0, <1>1, <2>2 DEF AskSetupEvm
<1>2. CASE AskSetupTron
  <2>1. PICK p \in PriceReadings, q \in PriceReadings :
          basis' = Least(p, q) /\ peak' = Most(price, Most(p, q))
    BY <1>2 DEF AskSetupTron
  <2>2. price <= peak' /\ basis' <= peak'
    <3>1. p \in Nat /\ q \in Nat BY <1>0
    <3> QED BY <1>0, <2>1, <3>1 DEF Least, Most
  <2> QED BY <1>0, <1>2, <2>2 DEF AskSetupTron
<1>3. CASE StartEvm
  <2>1. PICK t \in TipReadings : peakTip' = Most(tip, t) BY <1>3 DEF StartEvm
  <2>2. tip <= peakTip' BY <1>0, <2>1 DEF Most
  <2> QED BY <1>0, <1>3, <2>2 DEF StartEvm
<1>4. CASE StartTron
  <2>1. PICK p \in PriceReadings : basis' = Least(basis, p) /\ peak' = Most(peak, p)
    BY <1>4 DEF StartTron
  <2>2. price <= peak' /\ basis' <= peak'
    <3>1. p \in Nat BY <1>0
    <3> QED BY <1>0, <2>1, <3>1 DEF Least, Most
  <2> QED BY <1>0, <1>4, <2>2 DEF StartTron
<1>5. CASE FundBegin
  <2>1. \/ \E t \in TipReadings : peakTip' = Most(peakTip, t)
        \/ peakTip' = peakTip
    BY <1>5 DEF FundBegin
  <2>2. tip <= peakTip' BY <1>0, <2>1 DEF Most
  <2> QED BY <1>0, <1>5, <2>2 DEF FundBegin
<1>6. CASE Fund BY <1>0, <1>6 DEF Fund
<1>7. CASE FundRefused BY <1>0, <1>7 DEF FundRefused
<1>8. CASE FundMined BY <1>0, <1>8 DEF FundMined
<1>9. CASE Approve
  <2>1. /\ at' = at /\ op' = op /\ over' = over /\ k' = k + 1 /\ k < N /\ at = "approve"
        /\ UNCHANGED <<price, tip, basis, peak, spent, cap, tipCap>>
    BY <1>9 DEF Approve
  <2>2. PICK offer \in Offers : peakTip' = Most(peakTip, offer.tip)
    BY <1>9 DEF Approve, SendApprove
  <2>3. tip <= peakTip'
    <3>1. offer.tip \in Nat BY OfferTypes
    <3> QED BY <1>0, <2>2, <3>1 DEF Most
  <2> QED BY <1>0, <2>1, <2>3
<1>10. CASE ApproveSkip BY <1>0, <1>10 DEF ApproveSkip
<1>11. CASE ApproveEnd BY <1>0, <1>11 DEF ApproveEnd
<1>12. CASE AddReceiptWallets
  <2>1. PICK offer \in Offers : SendAdd(offer) BY <1>12 DEF AddReceiptWallets
  <2>2. tip <= peakTip'
    <3>1. offer.tip \in Nat BY OfferTypes
    <3>2. peakTip' = Most(peakTip, offer.tip) BY <2>1 DEF SendAdd
    <3> QED BY <1>0, <3>1, <3>2 DEF Most
  <2>3. at' \in {"sweep", "failed"} BY <2>1 DEF SendAdd
  <2>4. /\ at = "add" /\ op' = op /\ over' = over /\ k' = 0
        /\ UNCHANGED <<price, tip, basis, peak, spent, cap, tipCap>>
    BY <1>12 DEF AddReceiptWallets
  <2> QED BY <1>0, <2>2, <2>3, <2>4
<1>13. CASE Sweep
  <2>1. /\ op' = op /\ over' = over /\ k' = k + 1 /\ k < Manager /\ at = "sweep"
        /\ at' = IF k' = Manager THEN "done" ELSE "sweep"
        /\ UNCHANGED <<price, tip, basis, peak, peakTip, spent, cap, tipCap>>
    BY <1>13 DEF Sweep
  <2> QED BY <1>0, <2>1
<1>14. CASE SweepSkip BY <1>0, <1>14 DEF SweepSkip
<1>15. CASE Call
  <2>1. PICK needs \in CallGas[op], offer \in Offers :
          \E call \in CallsFor(needs) : SendCall(call, offer)
    BY <1>15 DEF Call
  <2>2. at' \in {at, "failed"} BY <2>1 DEF SendCall
  <2>4. tip <= peakTip'
    <3>1. offer.tip \in Nat BY OfferTypes
    <3>2. peakTip' = Most(peakTip, offer.tip) BY <2>1 DEF SendCall
    <3> QED BY <1>0, <3>1, <3>2 DEF Most
  <2>3. /\ at = "call" /\ op \in Calls /\ op' = op
        /\ UNCHANGED <<price, tip, basis, peak, spent, cap, tipCap>>
    BY <1>15 DEF Call, Calling
  <2> QED BY <1>0, <2>2, <2>3, <2>4
<1>16. CASE CallSkip BY <1>0, <1>16 DEF CallSkip, Calling
<1>17. CASE CallEnd BY <1>0, <1>17 DEF CallEnd
<1>18. CASE PriceMoves
  <2>1. price' \in Nat /\ tip' \in Nat
    BY <1>18, Parameters DEF PriceMoves, TypeOK, Nets
  <2>2. /\ peak' = IF peak < price' THEN price' ELSE peak
        /\ peakTip' = IF peakTip < tip' THEN tip' ELSE peakTip
    BY <1>18 DEF PriceMoves, Most
  <2> QED BY <1>0, <1>18, <2>1, <2>2 DEF PriceMoves
<1>19. CASE Spend BY <1>0, <1>19 DEF Spend
<1>20. CASE ListGrows BY <1>0, <1>20 DEF ListGrows
<1>21. ASSUME NEW o \in Calls, AskCall(o) PROVE Where'
  BY <1>0, <1>21 DEF AskCall, Calls
<1>22. CASE UNCHANGED vars BY <1>22 DEF vars
<1> QED BY <1>1, <1>2, <1>3, <1>4, <1>5, <1>6, <1>7, <1>8, <1>9, <1>10, <1>11, <1>12,
           <1>13, <1>14, <1>15, <1>16, <1>17, <1>18, <1>19, <1>20, <1>21, <1>22 DEF Next

\* A default once taken stays noted.
LEMMA GuessedBefore == Others /\ ~guessed' => ~guessed
<1>1. CASE Call BY <1>1 DEF Call, SendCall
<1>2. CASE StartTron BY <1>2 DEF StartTron
<1>3. CASE guessed' = guessed BY <1>3
<1>4. Others => Call \/ StartTron \/ guessed' = guessed
  BY DEF Others, vars, ghosts, FundBegin, Fund, FundRefused, FundMined, Approve,
         ApproveSkip, ApproveEnd, AddReceiptWallets, Sweep, SweepSkip, CallSkip,
         CallEnd, PriceMoves, Spend, ListGrows
<1> QED BY <1>1, <1>2, <1>3, <1>4

\* Prices seen, what others spent and defaults taken only add up: what is calm
\* after such a step was calm before it.
LEMMA CalmBefore ==
  TypeOK /\ Where /\ Others =>
    /\ net' = net /\ op' = op /\ start' = start /\ shown' = shown
    /\ basis' <= basis /\ peak <= peak' /\ peak' \in Nat
    /\ basisTip' = basisTip /\ peakTip <= peakTip' /\ peakTip' \in Nat
    /\ spent' = 0 => spent = 0
    /\ Calm' => Calm
<1> SUFFICES ASSUME TypeOK, Where, Others
             PROVE  /\ net' = net /\ op' = op /\ start' = start /\ shown' = shown
                    /\ basis' <= basis /\ peak <= peak' /\ peak' \in Nat
                    /\ basisTip' = basisTip /\ peakTip <= peakTip' /\ peakTip' \in Nat
                    /\ spent' = 0 => spent = 0
                    /\ Calm' => Calm
  OBVIOUS
<1>0. /\ price \in Nat /\ basis \in Nat /\ peak \in Nat /\ spent \in Nat
      /\ tip \in Nat /\ basisTip \in Nat /\ peakTip \in Nat
      /\ TipReadings \subseteq Nat /\ PriceReadings \subseteq Nat
      /\ \A offer \in Offers : offer.tip \in Nat
  BY Ranges, ReadingTypes, OfferTypes
<1>1. /\ net' = net /\ op' = op /\ start' = start /\ shown' = shown
      /\ basis' \in Nat /\ basis' <= basis
      /\ peak' \in Nat /\ peak <= peak'
      /\ basisTip' = basisTip /\ peakTip' \in Nat /\ peakTip <= peakTip'
      /\ spent' = 0 => spent = 0
  <2> USE DEF quoteVars, feeVars, since, ghosts
  <2>0. ASSUME NEW x \in Nat PROVE Most(peakTip, x) \in Nat /\ peakTip <= Most(peakTip, x)
    BY <1>0 DEF Most
  <2>1. CASE StartTron
    <3>1. PICK p \in PriceReadings : basis' = Least(basis, p) /\ peak' = Most(peak, p)
      BY <2>1 DEF StartTron
    <3>2. p \in Nat BY <1>0
    <3> QED BY <1>0, <2>1, <3>1, <3>2 DEF StartTron, Least, Most
  <2>2. CASE PriceMoves
    <3>1. price' \in Nat /\ tip' \in Nat
      BY <2>2, Parameters DEF PriceMoves, TypeOK, Nets
    <3> QED BY <1>0, <2>2, <3>1 DEF PriceMoves, Most
  <2>3. CASE Spend BY <1>0, <2>3 DEF Spend
  <2>4. CASE Call
    <3>1. PICK offer \in Offers : peakTip' = Most(peakTip, offer.tip)
      BY <2>4 DEF Call, SendCall
    <3> QED BY <1>0, <2>0, <2>4, <3>1 DEF Call
  <2>5. CASE FundBegin
    <3>1. \/ \E t \in TipReadings : peakTip' = Most(peakTip, t)
          \/ peakTip' = peakTip
      BY <2>5 DEF FundBegin
    <3> QED BY <1>0, <2>0, <2>5, <3>1 DEF FundBegin
  <2>6. CASE Fund BY <1>0, <2>6 DEF Fund
  <2>7. CASE FundRefused BY <1>0, <2>7 DEF FundRefused
  <2>8. CASE FundMined BY <1>0, <2>8 DEF FundMined
  <2>9. CASE Approve
    <3>1. PICK offer \in Offers : peakTip' = Most(peakTip, offer.tip)
      BY <2>9 DEF Approve, SendApprove
    <3> QED BY <1>0, <2>0, <2>9, <3>1 DEF Approve
  <2>10. CASE ApproveSkip BY <1>0, <2>10 DEF ApproveSkip
  <2>11. CASE ApproveEnd BY <1>0, <2>11 DEF ApproveEnd
  <2>12. CASE AddReceiptWallets
    <3>1. PICK offer \in Offers : peakTip' = Most(peakTip, offer.tip)
      BY <2>12 DEF AddReceiptWallets, SendAdd
    <3> QED BY <1>0, <2>0, <2>12, <3>1 DEF AddReceiptWallets
  <2>13. CASE Sweep BY <1>0, <2>13 DEF Sweep
  <2>14. CASE SweepSkip BY <1>0, <2>14 DEF SweepSkip
  <2>15. CASE CallSkip BY <1>0, <2>15 DEF CallSkip
  <2>16. CASE CallEnd BY <1>0, <2>16 DEF CallEnd
  <2>17. CASE ListGrows BY <1>0, <2>17 DEF ListGrows
  <2>18. CASE UNCHANGED vars BY <1>0, <2>18 DEF vars
  <2> QED BY <2>1, <2>2, <2>3, <2>4, <2>5, <2>6, <2>7, <2>8, <2>9, <2>10, <2>11, <2>12,
             <2>13, <2>14, <2>15, <2>16, <2>17, <2>18 DEF Others
<1>2. ~guessed' => ~guessed BY GuessedBefore
<1>3. Calm' => Calm
  <2> SUFFICES ASSUME Calm' PROVE Calm
    OBVIOUS
  <2>1. /\ Within(100)' => Within(100)
        /\ Within(110)' => Within(110)
        /\ Within(150)' => Within(150)
    <3>1. 100 \in Nat /\ 110 \in Nat /\ 150 \in Nat OBVIOUS
    <3> QED BY <1>0, <1>1, <3>1, WithinStays, ZenonT(30) DEF Within
  <2>7. /\ TipWithin(100)' => TipWithin(100)
        /\ TipWithin(120)' => TipWithin(120)
    <3>1. 100 \in Nat /\ 120 \in Nat /\ basisTip <= basisTip BY <1>0
    <3> QED BY <1>0, <1>1, <3>1, WithinStays, ZenonT(30) DEF TipWithin
  <2>2. evm' = evm BY <1>1 DEF evm
  <2>3. spent = 0 BY <1>1 DEF Calm
  <2>4. evm \/ peak <= 546 BY <1>0, <1>1, <2>2 DEF Calm
  <2>5. evm \/ ~guessed BY <1>2, <2>2 DEF Calm
  <2> HIDE DEF evm
  <2>6. IF op # "setup" THEN Within(100) /\ TipWithin(100)
          ELSE IF evm THEN Within(150) /\ TipWithin(120) ELSE Within(110)
    BY <1>1, <2>1, <2>2, <2>7 DEF Calm
  <2> QED BY <2>3, <2>4, <2>5, <2>6 DEF Calm
<1> QED BY <1>1, <1>3

\* What calm is for each kind of operation.
LEMMA CalmMeans ==
  TypeOK /\ Calm =>
    /\ spent = 0
    /\ op # "setup" => peak <= basis /\ peakTip <= basisTip
    /\ op = "setup" /\ evm => 100 * peak <= basis * 150 /\ 100 * peakTip <= basisTip * 120
    /\ op = "setup" /\ ~evm => 100 * peak <= basis * 110
    /\ ~evm => peak <= 546 /\ ~guessed
<1> SUFFICES ASSUME TypeOK, Calm
             PROVE  /\ spent = 0
                    /\ op # "setup" => peak <= basis /\ peakTip <= basisTip
                    /\ op = "setup" /\ evm => /\ 100 * peak <= basis * 150
                                              /\ 100 * peakTip <= basisTip * 120
                    /\ op = "setup" /\ ~evm => 100 * peak <= basis * 110
                    /\ ~evm => peak <= 546 /\ ~guessed
  OBVIOUS
<1>0. basis \in Nat /\ peak \in Nat /\ basisTip \in Nat /\ peakTip \in Nat BY Ranges
<1>1. op # "setup" => peak <= basis /\ peakTip <= basisTip
  <2>1. op # "setup" => 100 * peak <= basis * 100 /\ 100 * peakTip <= basisTip * 100
    BY DEF Calm, Within, TipWithin
  <2> QED BY <1>0, <2>1
<1> QED BY <1>0, <1>1 DEF Calm, Within, TipWithin

-----------------------------------------------------------------------------
(* The quotes.                                                             *)

\* The other steps leave quote and total alone while a set-up pays by them.
LEMMA QuoteKept ==
  TypeOK /\ Where /\ Others /\ ~StartTron =>
    /\ basis' = basis /\ basisTip' = basisTip /\ quote' = quote
    /\ shown' = shown /\ batches' = batches
    /\ op = "setup" /\ Paying' => Paying
<1> SUFFICES ASSUME TypeOK, Where, Others, ~StartTron
             PROVE  /\ basis' = basis /\ basisTip' = basisTip /\ quote' = quote
                    /\ shown' = shown /\ batches' = batches
                    /\ op = "setup" /\ Paying' => Paying
  OBVIOUS
<1> USE DEF quoteVars, since, ghosts, Paying
<1>1. CASE FundBegin BY <1>1 DEF FundBegin
<1>2. CASE Fund BY <1>2 DEF Fund
<1>3. CASE FundRefused BY <1>3 DEF FundRefused
<1>4. CASE FundMined BY <1>4 DEF FundMined
<1>5. CASE Approve BY <1>5 DEF Approve
<1>6. CASE ApproveSkip BY <1>6 DEF ApproveSkip
<1>7. CASE ApproveEnd BY <1>7 DEF ApproveEnd
<1>8. CASE AddReceiptWallets BY <1>8 DEF AddReceiptWallets, SendAdd
<1>9. CASE Sweep BY <1>9 DEF Sweep
<1>10. CASE SweepSkip BY <1>10 DEF SweepSkip
<1>11. CASE Call
  <2>1. at' \in {at, "failed"} BY <1>11 DEF Call, SendCall
  <2> QED BY <1>11, <2>1 DEF Call
<1>12. CASE CallSkip BY <1>12 DEF CallSkip
<1>13. CASE CallEnd BY <1>13 DEF CallEnd, Where, Calls
<1>14. CASE PriceMoves BY <1>14 DEF PriceMoves
<1>15. CASE Spend BY <1>15 DEF Spend
<1>16. CASE ListGrows BY <1>16 DEF ListGrows
<1>17. CASE UNCHANGED vars BY <1>17 DEF vars
<1> QED BY <1>1, <1>2, <1>3, <1>4, <1>5, <1>6, <1>7, <1>8, <1>9, <1>10, <1>11, <1>12,
           <1>13, <1>14, <1>15, <1>16, <1>17 DEF Others

\* The total of a dialog on Tron that has real estimates.
LEMMA DialogTotal ==
  ASSUME NEW p \in Nat, NEW q \in Nat
  PROVE  TotalTron(ReceiptFee(p), ManagerFee(q)) = DialogOnTron(p, q)
BY DEF TotalTron, ReceiptFee, ManagerFee, DialogOnTron

\* The quote of a set-up on EVM is that of its last estimate ...
LEMMA QuotedEvmStep ==
  TypeOK /\ Where /\ QuotedEvm /\ Ledger /\ [Next]_vars => QuotedEvm'
<1> SUFFICES ASSUME TypeOK, Where, QuotedEvm, Ledger, [Next]_vars PROVE QuotedEvm'
  OBVIOUS
<1>1. CASE AskSetupEvm
  <2>1. ~Paying' BY <1>1 DEF AskSetupEvm, Paying
  <2> QED BY <2>1 DEF QuotedEvm
<1>2. CASE AskSetupTron
  <2>1. ~Paying' BY <1>2 DEF AskSetupTron, Paying
  <2> QED BY <2>1 DEF QuotedEvm
<1>3. CASE StartEvm
  <2>1. CASE at' = "declined"
    <3>1. ~Paying' BY <2>1 DEF Paying
    <3> QED BY <3>1 DEF QuotedEvm
  <2>2. CASE at' # "declined"
    <3>9. PICK t \in TipReadings : /\ quote' = EstimateEvm(t) /\ shown' = TotalEvm(t)
                                  /\ basisTip' = t
      BY <1>3 DEF StartEvm
    <3>1. wallet >= shown' BY <1>3, <2>2 DEF StartEvm
    <3>2. basis' = price /\ start' = start /\ spent' = spent /\ evm
      BY <1>3 DEF StartEvm
    <3>3. SafePrice(t) = SafeAt(basis', basisTip') BY <3>2, <3>9, EvmQuoteTypes
    <3>4. /\ quote'.receipt = 81 * SafeAt(basis', basisTip')
          /\ quote'.manager = (71 + 100 * N) * SafeAt(basis', basisTip')
      <4>1. N \in Nat BY Parameters
      <4> QED BY <3>3, <3>9, <4>1 DEF EstimateEvm
    <3>5. shown' = N * quote'.receipt + quote'.manager
                     + Manager * (21 * SafeAt(basis', basisTip'))
      BY <3>3, <3>9 DEF TotalEvm, Manager
    <3>6. spent = 0 => wallet = start BY <1>3 DEF StartEvm, Ledger, Where
    <3>7. spent' = 0 => start' >= shown' BY <3>1, <3>2, <3>6
    <3> QED BY <3>4, <3>5, <3>7 DEF QuotedEvm, SafeAt, Manager
  <2> QED BY <2>1, <2>2
<1>4. CASE StartTron BY <1>4 DEF StartTron, QuotedEvm, evm
<1>5. CASE Others /\ ~StartTron
  <2>1. /\ net' = net /\ op' = op /\ start' = start /\ (spent' = 0 => spent = 0)
    BY <1>5, CalmBefore
  <2> QED BY <1>5, <2>1, QuoteKept DEF QuotedEvm, evm, SafeAt, Manager, Percent
<1>6. ASSUME NEW o \in Calls, AskCall(o) PROVE QuotedEvm'
  BY <1>6 DEF AskCall, QuotedEvm, Calls
<1> QED BY <1>1, <1>2, <1>3, <1>4, <1>5, <1>6 DEF Next, Others

\* ... and that of a set-up on Tron is of a price that has been.
LEMMA QuotedTronStep ==
  TypeOK /\ Where /\ QuotedTron /\ [Next]_vars => QuotedTron'
<1> SUFFICES ASSUME TypeOK, Where, QuotedTron, [Next]_vars PROVE QuotedTron'
  OBVIOUS
<1>0. /\ price \in Nat /\ basis \in Nat /\ peak \in Nat
      /\ PriceReadings \subseteq PricesRead /\ PriceReadings \subseteq Nat
      /\ PricesRead \subseteq Nat
  BY Ranges, ReadingTypes
<1>1. CASE AskSetupEvm BY <1>1 DEF AskSetupEvm, QuotedTron, evm
<1>2. CASE AskSetupTron
  <2>0. PICK p \in PriceReadings, q \in PriceReadings :
          \E r \in TronReceipts(p), m \in TronManagers(q) :
            /\ wallet >= Percent(TotalTron(r, m), 150)
            /\ shown' = TotalTron(r, m)
            /\ guessed' = (r # ReceiptFee(p) \/ m # ManagerFee(q))
            /\ basis' = Least(p, q)
    BY <1>2 DEF AskSetupTron
  <2>1. PICK r \in TronReceipts(p), m \in TronManagers(q) :
          /\ wallet >= Percent(TotalTron(r, m), 150)
          /\ shown' = TotalTron(r, m)
          /\ guessed' = (r # ReceiptFee(p) \/ m # ManagerFee(q))
          /\ basis' = Least(p, q)
    BY <2>0
  <2>2. start' = wallet /\ net' = net /\ ~evm BY <1>2 DEF AskSetupTron
  <2>3. start' >= Percent(shown', 150) BY <2>1, <2>2
  <2>6. p \in Nat /\ q \in Nat /\ p \in PricesRead' /\ q \in PricesRead'
    BY <1>0, <2>2 DEF PricesRead
  <2>4. ~guessed' => \E a, b \in PricesRead' :
                       basis' <= a /\ basis' <= b /\ shown' = DialogOnTron(a, b)
    <3>1. basis' <= p /\ basis' <= q BY <2>1, <2>6 DEF Least
    <3>2. ~guessed' => shown' = DialogOnTron(p, q) BY <2>1, <2>6, DialogTotal
    <3> QED BY <2>6, <3>1, <3>2
  <2>5. ~Paying' BY <1>2 DEF AskSetupTron, Paying
  <2> QED BY <2>3, <2>4, <2>5 DEF QuotedTron, DialogOnTron, ContractFee
<1>3. CASE StartEvm BY <1>3 DEF StartEvm, QuotedTron, evm
<1>4. CASE StartTron
  <2>0. PICK p \in PriceReadings :
          \E r \in TronReceipts(p) :
            /\ quote' = [receipt |-> r, manager |-> TronShare(r)]
            /\ guessed' = (guessed \/ r # ReceiptFee(p))
            /\ basis' = Least(basis, p) /\ peak' = Most(peak, p)
    BY <1>4 DEF StartTron
  <2>1. PICK r \in TronReceipts(p) :
          /\ quote' = [receipt |-> r, manager |-> TronShare(r)]
          /\ guessed' = (guessed \/ r # ReceiptFee(p))
          /\ basis' = Least(basis, p) /\ peak' = Most(peak, p)
    BY <2>0
  <2>2. op = "setup" /\ ~evm /\ UNCHANGED <<net, start, shown>>
    BY <1>4 DEF StartTron, Where
  <2>8. p \in Nat /\ p \in PricesRead' BY <1>0, <2>2 DEF PricesRead
  <2>3. basis' \in Nat /\ basis' <= basis /\ basis' <= p /\ p <= peak'
    BY <1>0, <2>1, <2>8 DEF Least, Most
  <2>4. start' >= Percent(shown', 150) BY <2>2 DEF QuotedTron
  <2>5. ~guessed' => \E a, b \in PricesRead' :
                       basis' <= a /\ basis' <= b /\ shown' = DialogOnTron(a, b)
    <3>1. SUFFICES ASSUME ~guessed'
                   PROVE  \E a, b \in PricesRead :
                            basis' <= a /\ basis' <= b /\ shown = DialogOnTron(a, b)
      BY <2>2 DEF PricesRead
    <3>2. PICK a \in PricesRead, b \in PricesRead :
            basis <= a /\ basis <= b /\ shown = DialogOnTron(a, b)
      BY <2>1, <2>2, <3>1 DEF QuotedTron
    <3>3. a \in Nat /\ b \in Nat BY <1>0
    <3>4. basis' <= a /\ basis' <= b BY <1>0, <2>3, <3>2, <3>3
    <3> QED BY <3>2, <3>4
  <2>6. quote'.manager = TronShare(quote'.receipt) BY <2>1
  <2>7. ~guessed' =>
          \E a \in PricesRead' :
            basis' <= a /\ a <= peak' /\ quote'.receipt = ContractFee(ApproveGas, a)
    BY <2>1, <2>3, <2>8 DEF ReceiptFee
  <2> QED BY <2>4, <2>5, <2>6, <2>7 DEF QuotedTron, TronShare, ContractFee, DialogOnTron,
                                        Percent
<1>5. CASE Others /\ ~StartTron
  <2>1. /\ net' = net /\ op' = op /\ start' = start /\ basis' = basis
        /\ quote' = quote /\ shown' = shown
        /\ op = "setup" /\ Paying' => Paying
    BY <1>5, CalmBefore, QuoteKept
  <2>2. ~guessed' => ~guessed BY <1>5, GuessedBefore
  <2>3. ASSUME NEW p \in PricesRead, p <= peak PROVE p <= peak'
    <3>1. p \in Nat BY <1>0
    <3>2. peak <= peak' /\ peak' \in Nat BY <1>5, CalmBefore
    <3> QED BY <1>0, <2>3, <3>1, <3>2, LeTransitive, Zenon
  <2>4. evm' = evm /\ PricesRead' = PricesRead BY <2>1 DEF evm, PricesRead
  <2> QED BY <2>1, <2>2, <2>3, <2>4 DEF QuotedTron
<1>6. ASSUME NEW o \in Calls, AskCall(o) PROVE QuotedTron'
  BY <1>6 DEF AskCall, QuotedTron, Calls
<1> QED BY <1>1, <1>2, <1>3, <1>4, <1>5, <1>6 DEF Next, Others

-----------------------------------------------------------------------------
(* The ledger.                                                             *)

\* A cap is within that of higher fees.
LEMMA CapGrows ==
  \A c, p, q, t, u \in Nat :
    c <= (3 * p) \div 2 + t /\ p <= q /\ t <= u => c <= (3 * q) \div 2 + u
OBVIOUS

\* So does what was paid for transfers.
LEMMA OutGrows ==
  ASSUME NEW o \in Int, NEW a \in Nat, NEW n \in Nat, NEW x \in Nat, NEW y \in Nat,
         x <= y, o <= a + n * x
  PROVE  o <= a + n * y
<1>1. n * x <= n * y /\ n * x \in Nat /\ n * y \in Nat BY ProductMonotone
<1> QED BY <1>1

\* What a transfer may hold back only grows.
LEMMA HeldMostGrows ==
  TypeOK /\ Where /\ Others =>
    HeldMost \in Nat /\ HeldMost' \in Nat /\ HeldMost <= HeldMost'
<1> SUFFICES ASSUME TypeOK, Where, Others
             PROVE  HeldMost \in Nat /\ HeldMost' \in Nat /\ HeldMost <= HeldMost'
  OBVIOUS
<1>1. peak \in Nat /\ peakTip \in Nat BY Ranges
<1>2. /\ net' = net /\ peak <= peak' /\ peak' \in Nat
      /\ peakTip <= peakTip' /\ peakTip' \in Nat
  BY CalmBefore
<1>3. CASE evm
  <2>1. HeldMost = 21 * (peak + peakTip) /\ HeldMost' = 21 * (peak' + peakTip')
    BY <1>2, <1>3 DEF HeldMost, evm
  <2>2. \A a, b, c, d \in Nat : a <= b /\ c <= d =>
          /\ 21 * (a + c) \in Nat /\ 21 * (b + d) \in Nat
          /\ 21 * (a + c) <= 21 * (b + d)
    OBVIOUS
  <2> QED BY <1>1, <1>2, <2>1, <2>2, Zenon
<1>4. CASE ~evm
  <2>1. HeldMost = 1100 /\ HeldMost' = 1100 BY <1>2, <1>4 DEF HeldMost, evm
  <2> QED BY <2>1
<1> QED BY <1>3, <1>4

\* A cap is of fees that have been.
LEMMA CapStep ==
  TypeOK /\ Where /\ Ledger /\ [Next]_vars =>
    (op' = "setup" => cap' <= (3 * peak') \div 2 + peakTip' /\ tipCap' <= peakTip')
<1> SUFFICES ASSUME TypeOK, Where, Ledger, [Next]_vars, op' = "setup"
             PROVE  cap' <= (3 * peak') \div 2 + peakTip' /\ tipCap' <= peakTip'
  OBVIOUS
<1>0. /\ price \in Nat /\ peak \in Nat /\ cap \in Nat /\ tipCap \in Nat
      /\ tip \in Nat /\ peakTip \in Nat
      /\ TipReadings \subseteq Nat /\ PriceReadings \subseteq Nat
  BY Ranges, ReadingTypes
<1>7. \A x, y \in Nat : 0 <= (3 * x) \div 2 + y /\ 0 <= y OBVIOUS
<1>1. CASE AskSetupEvm
  <2>1. PICK t \in TipReadings : peakTip' = Most(tip, t) BY <1>1 DEF AskSetupEvm
  <2>2. peakTip' \in Nat BY <1>0, <2>1 DEF Most
  <2>3. peak' = price /\ cap' = 0 /\ tipCap' = 0 BY <1>1 DEF AskSetupEvm, feeVars, Where
  <2> QED BY <1>0, <1>7, <2>2, <2>3, Zenon
<1>2. CASE AskSetupTron
  <2>1. PICK p \in PriceReadings, q \in PriceReadings : peak' = Most(price, Most(p, q))
    BY <1>2 DEF AskSetupTron
  <2>2. peak' \in Nat
    <3>1. p \in Nat /\ q \in Nat BY <1>0
    <3> QED BY <1>0, <2>1, <3>1 DEF Most
  <2>3. peakTip' = peakTip /\ cap' = 0 /\ tipCap' = 0
    BY <1>2 DEF AskSetupTron, feeVars, Where
  <2> QED BY <1>0, <1>7, <2>2, <2>3, Zenon
<1>3. CASE StartEvm
  <2>1. PICK t \in TipReadings : peakTip' = Most(tip, t) BY <1>3 DEF StartEvm
  <2>2. peakTip' \in Nat BY <1>0, <2>1 DEF Most
  <2>3. peak' = price /\ cap' = 0 /\ tipCap' = 0 BY <1>3 DEF StartEvm, feeVars, Where
  <2> QED BY <1>0, <1>7, <2>2, <2>3, Zenon
<1>4. CASE FundBegin
  <2>1. peak' = peak /\ price <= peak BY <1>4 DEF FundBegin, since, Where
  <2>2. CASE evm
    <3>1. PICK t \in TipReadings :
            cap' = FeeCap(t) /\ tipCap' = t /\ peakTip' = Most(peakTip, t)
      BY <1>4, <2>2 DEF FundBegin
    <3>2. t \in Nat BY <1>0
    <3>3. t <= peakTip' /\ peakTip' \in Nat BY <1>0, <3>1, <3>2 DEF Most
    <3> QED BY <1>0, <2>1, <3>1, <3>2, <3>3 DEF FeeCap
  <2>3. CASE ~evm
    <3>1. UNCHANGED <<feeVars, peakTip>> BY <1>4, <2>3 DEF FundBegin
    <3>2. cap' = 0 /\ tipCap' = 0 /\ peakTip' = peakTip
      BY <1>4, <3>1 DEF FundBegin, feeVars, Where
    <3> QED BY <1>0, <2>1, <3>2
  <2> QED BY <2>2, <2>3
<1>5. CASE Others /\ ~FundBegin
  <2>1. cap' = cap /\ tipCap' = tipCap
    <3>1. Call => feeVars' = feeVars BY DEF Call
    <3>2. feeVars' = feeVars
      BY <1>5, <3>1 DEF Others, vars, StartTron, Fund, FundRefused, FundMined, Approve,
         ApproveSkip, ApproveEnd, AddReceiptWallets, Sweep, SweepSkip, CallSkip, CallEnd,
         PriceMoves, Spend, ListGrows
    <3> QED BY <3>2 DEF feeVars
  <2>2. /\ op = "setup" /\ peak <= peak' /\ peak' \in Nat
        /\ peakTip <= peakTip' /\ peakTip' \in Nat
    BY <1>5, CalmBefore
  <2>3. cap <= (3 * peak) \div 2 + peakTip /\ tipCap <= peakTip BY <2>2 DEF Ledger
  <2>4. cap <= (3 * peak') \div 2 + peakTip' BY <1>0, <2>2, <2>3, CapGrows, Zenon
  <2>5. tipCap <= peakTip' BY <1>0, <2>2, <2>3
  <2> QED BY <2>1, <2>4, <2>5
<1>6. ASSUME NEW o \in Calls, AskCall(o) PROVE FALSE BY <1>6 DEF AskCall, Calls
<1> QED BY <1>1, <1>2, <1>3, <1>4, <1>5, <1>6 DEF Next, Others

\* What has left the wallet is what the quote and the transfers come to.
LEMMA LedgerStep ==
  TypeOK /\ Where /\ Ledger /\ [Next]_vars => Ledger'
<1> SUFFICES ASSUME TypeOK, Where, Ledger, [Next]_vars, op' = "setup", spent' = 0
             PROVE  /\ at' \in {"confirmed", "begin"} => wallet' = start'
                    /\ at' = "fund" => wallet' + Outlay' = start'
                    /\ at' \in {"approve", "add", "sweep", "done"} =>
                         start' - wallet' <= N * quote'.receipt + quote'.manager
                                               + Manager * HeldMost'
  BY CapStep DEF Ledger, Manager
<1> DEFINE r == quote.receipt  m == quote.manager  n == Manager  later ==
             {"approve", "add", "sweep", "done"}
<1>0. /\ price \in Nat /\ peak \in Nat /\ cap \in Nat /\ peakTip \in Nat
      /\ tip \in Nat /\ tipCap \in Nat /\ k \in Nat
      /\ wallet \in Nat /\ start \in Nat /\ r \in Nat /\ m \in Nat /\ N \in Nat \ {0}
  BY Ranges, Parameters
<1> USE DEF quoteVars, feeVars, since, ghosts
<1>15. Others /\ op = "setup" /\ spent = 0 /\ at \in later =>
         start - wallet <= N * r + m + n * HeldMost'
  <2> SUFFICES ASSUME Others, op = "setup", spent = 0, at \in later
               PROVE  start - wallet <= N * r + m + n * HeldMost'
    OBVIOUS
  <2>1. start - wallet <= N * r + m + n * HeldMost BY DEF Ledger
  <2>2. HeldMost \in Nat /\ HeldMost' \in Nat /\ HeldMost <= HeldMost' BY HeldMostGrows
  <2>3. start - wallet \in Int /\ N * r + m \in Nat /\ n \in Nat
    BY <1>0, ProductType DEF Manager
  <2> HIDE DEF r, m, n
  <2> QED BY <2>1, <2>2, <2>3, OutGrows, Zenon
<1>1. CASE AskSetupEvm BY <1>1 DEF AskSetupEvm
<1>2. CASE AskSetupTron BY <1>2 DEF AskSetupTron
<1>3. CASE StartEvm BY <1>3 DEF StartEvm, Where, Ledger
<1>4. CASE StartTron BY <1>4 DEF StartTron, Where, Ledger
<1>5. CASE FundBegin
  <2>1. /\ wallet' = start' /\ at' = "fund" /\ k' = 0
    BY <1>5 DEF FundBegin, Where, Ledger
  <2>2. Outlay' = 0 * (quote'.receipt + Held') BY <1>0, <2>1 DEF Outlay
  <2>3. quote' = quote BY <1>5 DEF FundBegin
  <2>4. Held' \in Nat
    <3>1. cap' \in Nat
      <4>1. TypeParts' BY <1>5, SetupType, TypeInParts
      <4> QED BY <4>1 DEF TypeParts
    <3>2. \A c \in Nat : 21 * c \in Nat OBVIOUS
    <3>3. 21 * cap' \in Nat BY <3>1, <3>2, Zenon
    <3> QED BY <3>3 DEF Held
  <2>5. \A x, y \in Nat : 0 * (x + y) = 0 OBVIOUS
  <2>6. Outlay' = 0 BY <1>0, <2>2, <2>3, <2>4, <2>5
  <2> QED BY <1>0, <1>5, <2>1, <2>6 DEF FundBegin
<1>6. CASE Fund
  <2>1. /\ at = "fund" /\ k < Manager /\ spent = 0 /\ op = "setup"
        /\ wallet' = wallet - Value - Held /\ k' = k + 1
        /\ UNCHANGED <<at, start, quote, cap, net>>
    BY <1>6 DEF Fund
  <2>2. wallet + Outlay = start BY <2>1 DEF Ledger
  <2>3. Held' = Held BY <2>1 DEF Held, evm
  <2>4. Held \in Nat BY <1>0 DEF Held
  <2> DEFINE h == Held
  <2>5. Outlay' = Outlay + Value + Held
    <3>1. CASE k < N
      <4>1. Outlay = k * (r + h) /\ Value = r BY <1>0, <3>1 DEF Outlay, Value, Manager
      <4>2. Outlay' = (k + 1) * (r + h) BY <1>0, <2>1, <2>3, <3>1 DEF Outlay
      <4> HIDE DEF h, r
      <4>3. r + h \in Nat /\ h \in Nat BY <1>0, <2>4 DEF h
      <4>4. (k + 1) * (r + h) = k * (r + h) + (r + h) /\ k * (r + h) \in Nat
        BY <1>0, <4>3
      <4>5. \A x \in Nat : x + (r + h) = x + r + h BY <1>0, <4>3
      <4> QED BY <4>1, <4>2, <4>4, <4>5 DEF h
    <3>2. CASE k = N
      <4>1. Outlay = N * (r + h) /\ Value = m BY <1>0, <3>2 DEF Outlay, Value, Manager
      <4>2. Outlay' = N * (r + h) + m + h BY <1>0, <2>1, <2>3, <3>2 DEF Outlay
      <4> QED BY <4>1, <4>2
    <3> QED BY <1>0, <2>1, <3>1, <3>2 DEF Manager
  <2>6. Outlay \in Nat
    <3>1. r + h \in Nat BY <1>0, <2>4
    <3>2. k * (r + h) \in Nat /\ N * (r + h) \in Nat BY <1>0, <3>1, ProductType
    <3> QED BY <1>0, <2>4, <3>2 DEF Outlay
  <2>7. Value \in Nat BY <1>0 DEF Value
  <2>8. \A w, v, o, s \in Nat : w + o = s => (w - v - h) + (o + v + h) = s
    BY <2>4
  <2>9. wallet' + Outlay' = start'
    BY <1>0, <2>1, <2>2, <2>4, <2>5, <2>6, <2>7, <2>8
  <2> QED BY <2>1, <2>9
<1>7. CASE FundRefused BY <1>7 DEF FundRefused
<1>8. CASE FundMined
  <2>1. CASE evm /\ price > cap BY <1>8, <2>1 DEF FundMined
  <2>2. CASE ~(evm /\ price > cap)
    <3> DEFINE p == Paid([cap |-> cap, tip |-> tipCap])
    <3>1. /\ at = "fund" /\ k = Manager /\ spent = 0 /\ op = "setup" /\ at' = "approve"
          /\ wallet' = wallet + IF evm THEN Manager * 21 * (cap - p) ELSE 0
          /\ UNCHANGED <<start, quote, net, peak, peakTip, price>>
      BY <1>8, <2>2 DEF FundMined
    <3>2. wallet + Outlay = start BY <3>1 DEF Ledger
    <3>3. Outlay = N * (r + Held) + m + Held BY <1>0, <3>1 DEF Outlay, Manager
    <3>4. HeldMost' = HeldMost BY <3>1 DEF HeldMost, evm
    <3>5. start - wallet' <= N * r + m + n * HeldMost
      <4>1. CASE evm
        <5> DEFINE t == peak + peakTip
        <5>1. /\ p \in Nat /\ p <= cap /\ p <= t /\ t \in Nat
          <6>1. price <= peak /\ tipCap <= peakTip BY <3>1 DEF Where, Ledger
          <6> QED BY <1>0, <6>1 DEF Paid, Least
        <5>2. Held = 21 * cap /\ HeldMost = 21 * t BY <4>1 DEF Held, HeldMost
        <5>3. /\ wallet' = wallet + n * 21 * (cap - p)
              /\ start = wallet + (N * (r + 21 * cap) + m + 21 * cap)
          BY <3>1, <3>2, <3>3, <4>1, <5>2
        <5> HIDE DEF r, m, p, t
        <5>4. n * (21 * p) <= n * (21 * t)
          <6>1. 21 * p \in Nat /\ 21 * t \in Nat /\ 21 * p <= 21 * t /\ n \in Nat
            BY <1>0, <5>1 DEF Manager
          <6> HIDE DEF n
          <6> QED BY <6>1, ProductMonotone
        <5>5. start - wallet' = N * r + m + n * (21 * p)
          <6>1. /\ N * (r + 21 * cap) = N * r + 21 * (N * cap)
                /\ n * 21 * (cap - p) = 21 * (N * cap) + 21 * cap - n * (21 * p)
                /\ N * r \in Nat /\ N * cap \in Nat /\ n * (21 * p) \in Nat
            BY <1>0, <5>1 DEF Manager
          <6> DEFINE a == N * r  b == N * cap  c == n * (21 * p)
          <6> HIDE DEF a, b, c
          <6>2. /\ wallet' = wallet + (21 * b + 21 * cap - c)
                /\ start = wallet + (a + 21 * b + m + 21 * cap)
            BY <5>3, <6>1 DEF a, b, c
          <6>3. a \in Nat /\ b \in Nat /\ c \in Nat BY <6>1 DEF a, b, c
          <6>4. start - wallet' = a + m + c BY <1>0, <6>2, <6>3
          <6> QED BY <6>4 DEF a, c
        <5>6. N * r \in Nat /\ n * (21 * p) \in Nat /\ n * (21 * t) \in Nat
          BY <1>0, <5>1 DEF Manager
        <5>7. N * r + m + n * (21 * p) <= N * r + m + n * (21 * t)
          BY <1>0, <5>4, <5>6
        <5> QED BY <5>2, <5>5, <5>7
      <4>2. CASE ~evm
        <5>1. /\ wallet' = wallet + 0 /\ Held = 1100 /\ HeldMost = 1100
          BY <3>1, <4>2 DEF Held, HeldMost
        <5>2. start = wallet + (N * (r + 1100) + m + 1100) BY <3>2, <3>3, <5>1
        <5> HIDE DEF r, m
        <5>3. N * (r + 1100) = N * r + N * 1100 /\ N * r \in Nat /\ N * 1100 \in Nat
          BY <1>0
        <5> DEFINE a == N * r  b == N * 1100
        <5> HIDE DEF a
        <5>4. start - wallet' <= a + m + (b + 1100)
          BY <1>0, <5>1, <5>2, <5>3 DEF a
        <5>5. n * HeldMost = b + 1100 BY <1>0, <5>1 DEF Manager
        <5> QED BY <5>4, <5>5 DEF a
      <4> QED BY <4>1, <4>2
    <3> QED BY <3>1, <3>4, <3>5
  <2> QED BY <2>1, <2>2
<1>9. CASE Spend BY <1>0, <1>9, Ranges DEF Spend
<1>10. CASE PriceMoves
  <2>1. /\ op = "setup" /\ spent = 0
        /\ UNCHANGED <<at, wallet, start, quote, net, k, cap>>
    BY <1>10 DEF PriceMoves
  <2>2. Held' = Held BY <2>1 DEF Held, evm
  <2>3. Outlay' = Outlay BY <2>1, <2>2 DEF Outlay
  <2>4. at \in later => start - wallet <= N * r + m + n * HeldMost'
    BY <1>10, <1>15, <2>1, Zenon DEF Others
  <2> QED BY <2>1, <2>3, <2>4 DEF Ledger
<1>11. CASE Sweep
  <2>1. /\ at = "sweep" /\ spent = 0 /\ op = "setup" /\ at' \in {"sweep", "done"}
        /\ UNCHANGED <<start, quote, net, peak, peakTip>>
    BY <1>11 DEF Sweep
  <2>2. HeldMost' = HeldMost BY <2>1 DEF HeldMost, evm
  <2>3. start - wallet <= N * r + m + n * HeldMost BY <2>1 DEF Ledger
  <2>4. wallet' = wallet \/ (gas[k + 1] > SweepCost /\ wallet' = wallet + gas[k + 1] - SweepCost)
    BY <1>11 DEF Sweep
  <2>5. SweepCost \in Nat /\ gas[k + 1] \in Nat
    <3>1. SweepCost \in Nat BY SweepCostType
    <3>2. k + 1 \in Targets BY <1>0, <1>11 DEF Sweep, Targets, Manager
    <3> QED BY <3>1, <3>2 DEF TypeOK
  <2>6. start - wallet' <= start - wallet BY <1>0, <2>4, <2>5
  <2>7. /\ start - wallet \in Int /\ start - wallet' \in Int
        /\ N * r + m + n * HeldMost \in Int
    <3>1. N * r \in Nat BY <1>0, ProductType
    <3>2. HeldMost \in Nat /\ n \in Nat BY <1>0 DEF HeldMost, Manager
    <3>3. n * HeldMost \in Nat BY <3>2, ProductType
    <3>4. start - wallet' \in Int BY <1>0, <2>4, <2>5
    <3> QED BY <1>0, <3>1, <3>3, <3>4
  <2>8. \A a, b, c \in Int : a <= b /\ b <= c => a <= c OBVIOUS
  <2>9. start - wallet' <= N * r + m + n * HeldMost
    BY <2>3, <2>6, <2>7, <2>8, Zenon
  <2> QED BY <2>1, <2>2, <2>9
<1>12. CASE \/ Approve \/ ApproveSkip \/ ApproveEnd \/ AddReceiptWallets \/ SweepSkip
            \/ ListGrows \/ UNCHANGED vars
  <2>1. /\ UNCHANGED <<op, spent, start, quote, net, wallet>>
        /\ at' = at \/ at' = "failed" \/ (at' \in later /\ at \in later)
        /\ at = "fund" => UNCHANGED <<k, cap>>
    <3>1. CASE Approve BY <3>1 DEF Approve
    <3>2. CASE ApproveSkip BY <3>2 DEF ApproveSkip
    <3>3. CASE ApproveEnd BY <3>3 DEF ApproveEnd
    <3>4. CASE AddReceiptWallets
      <4>1. at = "add" /\ at' \in {"sweep", "failed"}
        BY <3>4 DEF AddReceiptWallets, SendAdd
      <4> QED BY <3>4, <4>1 DEF AddReceiptWallets
    <3>5. CASE SweepSkip
      <4>1. at = "sweep" /\ at' \in {"sweep", "done"} BY <3>5 DEF SweepSkip
      <4> QED BY <3>5, <4>1 DEF SweepSkip
    <3>6. CASE ListGrows BY <3>6 DEF ListGrows
    <3>7. CASE UNCHANGED vars BY <3>7 DEF vars
    <3> QED BY <1>12, <3>1, <3>2, <3>3, <3>4, <3>5, <3>6, <3>7
  <2>2. at \in later => start - wallet <= N * r + m + n * HeldMost'
    <3>1. Others BY <1>12 DEF Others
    <3> QED BY <1>15, <2>1, <3>1, Zenon
  <2>3. at = "fund" => Outlay' = Outlay BY <2>1 DEF Outlay, Held, evm
  <2> QED BY <2>1, <2>2, <2>3 DEF Ledger
<1>13. CASE Call \/ CallSkip \/ CallEnd
  <2>1. op \in Calls /\ op' = op BY <1>13 DEF Call, CallSkip, CallEnd, Calling, Where
  <2> QED BY <2>1 DEF Calls
<1>14. ASSUME NEW o \in Calls, AskCall(o) PROVE FALSE BY <1>14 DEF AskCall, Calls
<1> QED BY <1>1, <1>2, <1>3, <1>4, <1>5, <1>6, <1>7, <1>8, <1>9, <1>10, <1>11, <1>12,
           <1>13, <1>14 DEF Next

-----------------------------------------------------------------------------
(* The payments of a set-up.                                               *)

\* What the quote of a set-up on Tron was made of, when it is a real estimate.
LEMMA QuoteOnTron ==
  TypeOK /\ Where /\ QuotedTron /\ op = "setup" /\ ~evm /\ Paying /\ Calm =>
    \E q \in Nat :
      /\ basis <= q /\ q <= peak
      /\ quote.receipt = ContractFee(ApproveGas, q)
      /\ quote.manager = TronShare(ContractFee(ApproveGas, q))
<1> SUFFICES ASSUME TypeOK, Where, QuotedTron, op = "setup", ~evm, Paying, Calm
             PROVE  \E q \in Nat :
                      /\ basis <= q /\ q <= peak
                      /\ quote.receipt = ContractFee(ApproveGas, q)
                      /\ quote.manager = TronShare(ContractFee(ApproveGas, q))
  OBVIOUS
<1>1. ~guessed BY CalmMeans
<1>2. PICK q \in PricesRead :
        basis <= q /\ q <= peak /\ quote.receipt = ContractFee(ApproveGas, q)
  BY <1>1 DEF QuotedTron
<1>3. q \in Nat BY ReadingTypes
<1> QED BY <1>2, <1>3 DEF QuotedTron

\* What was found sufficient pays every transfer.
LEMMA SetupCovered ==
  TypeOK /\ Where /\ QuotedEvm /\ QuotedTron /\ Ledger
      /\ op = "setup" /\ at = "fund" /\ Calm =>
    start >= N * quote.receipt + quote.manager + Manager * Held
<1> SUFFICES ASSUME TypeOK, Where, QuotedEvm, QuotedTron, Ledger,
                    op = "setup", at = "fund", Calm
             PROVE  start >= N * quote.receipt + quote.manager + Manager * Held
  OBVIOUS
<1> DEFINE r == quote.receipt  m == quote.manager  n == Manager
<1>0. /\ basis \in Nat /\ peak \in Nat /\ basisTip \in Nat /\ peakTip \in Nat
      /\ cap \in Nat
      /\ start \in Nat /\ shown \in Nat /\ r \in Nat /\ m \in Nat /\ N \in Nat \ {0}
  BY Ranges, Parameters
<1>1. spent = 0 /\ Paying BY CalmMeans DEF Paying
<1>2. CASE evm
  <2> DEFINE s == SafeAt(basis, basisTip)
  <2>1. 100 * peak <= basis * 150 /\ 100 * peakTip <= basisTip * 120
    BY <1>2, CalmMeans
  <2>2. s \in Nat /\ (3 * peak) \div 2 + peakTip <= s
    <3>1. basis \in Nat /\ peak \in Nat /\ basisTip \in Nat /\ peakTip \in Nat
      BY <1>0
    <3> QED BY <2>1, <3>1, SafeCovers, ZenonT(30)
  <2>3. cap <= (3 * peak) \div 2 + peakTip BY DEF Ledger
  <2>4. cap <= s BY <1>0, <2>2, <2>3
  <2>5. Held = 21 * cap BY <1>2 DEF Held
  <2>6. start >= N * r + m + n * (21 * s) BY <1>0, <1>1, <1>2 DEF QuotedEvm
  <2> HIDE DEF s
  <2>7. /\ 21 * cap \in Nat /\ 21 * s \in Nat /\ 21 * cap <= 21 * s /\ n \in Nat
    BY <1>0, <2>2, <2>4 DEF Manager
  <2> HIDE DEF n, r, m
  <2>8. /\ n * (21 * cap) <= n * (21 * s)
        /\ n * (21 * cap) \in Nat /\ n * (21 * s) \in Nat
    BY <2>7, ProductMonotone
  <2>9. N * r \in Nat BY <1>0, ProductType
  <2>10. start >= N * r + m + n * (21 * cap) BY <1>0, <2>6, <2>8, <2>9
  <2> QED BY <2>5, <2>10 DEF n, r, m
<1>3. CASE ~evm
  <2>1. 100 * peak <= basis * 110 /\ ~guessed BY <1>3, CalmMeans
  <2>2. PICK p \in PricesRead, o \in PricesRead :
          basis <= p /\ basis <= o /\ shown = DialogOnTron(p, o)
    BY <1>3, <2>1 DEF QuotedTron
  <2>3. p \in Nat /\ o \in Nat BY ReadingTypes
  <2>4. PICK q \in Nat : /\ basis <= q /\ q <= peak
                         /\ r = ContractFee(ApproveGas, q)
                         /\ m = TronShare(ContractFee(ApproveGas, q))
    BY <1>1, <1>3, QuoteOnTron
  <2>5. 100 * q <= p * 110 /\ 100 * q <= o * 110
    BY <1>0, <2>1, <2>2, <2>3, <2>4
  <2>6. N * r + m + n * 1100 <= Percent(shown, 150)
    BY <2>2, <2>3, <2>4, <2>5, DialogCovers
  <2>7. start >= Percent(shown, 150) BY <1>3 DEF QuotedTron
  <2>8. Held = 1100 BY <1>3 DEF Held
  <2>9. Percent(shown, 150) \in Nat /\ N * r + m + n * 1100 \in Nat
    <3>1. N * r \in Nat BY <1>0, ProductType
    <3>2. Percent(shown, 150) \in Nat BY <1>0, PercentType
    <3>3. N \in Nat BY <1>0
    <3>4. N + 1 \in Nat BY <3>3
    <3>5. n * 1100 \in Nat BY <3>4, ProductType DEF Manager
    <3> HIDE DEF r, n
    <3> QED BY <1>0, <3>1, <3>2, <3>5
  <2>10. \A a, b, c \in Nat : a <= b /\ c >= b => c >= a OBVIOUS
  <2> QED BY <1>0, <2>6, <2>7, <2>8, <2>9, <2>10
<1> QED BY <1>2, <1>3

\* So no transfer is refused.
LEMMA FundingCovered ==
  TypeOK /\ Where /\ QuotedEvm /\ QuotedTron /\ Ledger
      /\ op = "setup" /\ at = "fund" /\ k < Manager /\ Calm =>
    wallet >= Value + Held
<1> SUFFICES ASSUME TypeOK, Where, QuotedEvm, QuotedTron, Ledger,
                    op = "setup", at = "fund", k < Manager, Calm
             PROVE  wallet >= Value + Held
  OBVIOUS
<1> DEFINE r == quote.receipt  m == quote.manager  h == Held  x == r + h
<1>0. /\ cap \in Nat /\ k \in Nat /\ wallet \in Nat /\ start \in Nat
      /\ r \in Nat /\ m \in Nat /\ N \in Nat \ {0} /\ h \in Nat /\ x \in Nat
  BY Ranges, Parameters DEF Held
<1>1. spent = 0 BY CalmMeans
<1>2. wallet + Outlay = start BY <1>1 DEF Ledger
<1>3. start >= N * r + m + Manager * h BY SetupCovered
<1>4. N * r + m + Manager * h = N * x + m + h
  BY <1>0 DEF Manager
<1>5. Outlay = IF k <= N THEN k * x ELSE N * x + m + h BY DEF Outlay
<1>6. k <= N BY <1>0 DEF Manager
<1>7. CASE k < N
  <2>1. Value = r BY <1>0, <1>7 DEF Value, Manager
  <2> HIDE DEF x
  <2>2. /\ k * x + x <= N * x /\ k * x \in Nat /\ N * x \in Nat
    BY <1>0, <1>7, TransfersCovered
  <2>3. wallet + k * x = start /\ start >= N * x + m + h
    BY <1>2, <1>3, <1>4, <1>5, <1>6
  <2>4. wallet >= x BY <1>0, <2>2, <2>3
  <2> QED BY <2>1, <2>4 DEF x
<1>8. CASE k = N
  <2>1. Value = m BY <1>8 DEF Value, Manager
  <2> HIDE DEF x
  <2>2. N * x \in Nat BY <1>0, ProductType
  <2>3. wallet + N * x = start /\ start >= N * x + m + h
    BY <1>2, <1>3, <1>4, <1>5, <1>6, <1>8
  <2>4. wallet >= m + h BY <1>0, <2>2, <2>3
  <2> QED BY <2>1, <2>4
<1> QED BY <1>0, <1>6, <1>7, <1>8

\* The tip a call is sent with is within the slack.
LEMMA CalmOffers ==
  ASSUME TypeOK, NEW offer \in Offers, peakTip' = Most(peakTip, offer.tip), Calm',
         UNCHANGED <<net, op, basisTip>>
  PROVE  /\ op # "setup" => offer.tip <= basisTip
         /\ op = "setup" /\ evm => 100 * offer.tip <= basisTip * 120
<1>1. peakTip \in Nat /\ basisTip \in Nat /\ offer.tip \in Nat BY Ranges, OfferTypes
<1>2. offer.tip <= peakTip' /\ peakTip' \in Nat BY <1>1 DEF Most
<1>3. op # "setup" => 100 * peakTip' <= basisTip * 100 BY DEF Calm, TipWithin
<1>4. op = "setup" /\ evm => 100 * peakTip' <= basisTip * 120
  BY DEF Calm, TipWithin, evm
<1> QED BY <1>1, <1>2, <1>3, <1>4

\* What a calm set-up on EVM was quoted by, and what its fees may be.
LEMMA CalmOnEvm ==
  TypeOK /\ Where /\ QuotedEvm /\ op = "setup" /\ evm /\ Paying /\ Calm =>
    /\ 100 * price <= basis * 150 /\ 100 * tip <= basisTip * 120
    /\ Sound(basis, basisTip)
<1> SUFFICES ASSUME TypeOK, Where, QuotedEvm, op = "setup", evm, Paying, Calm
             PROVE  /\ 100 * price <= basis * 150 /\ 100 * tip <= basisTip * 120
                    /\ Sound(basis, basisTip)
  OBVIOUS
<1>0. /\ basis \in Nat /\ price \in Nat /\ peak \in Nat
      /\ basisTip \in Nat /\ tip \in Nat /\ peakTip \in Nat
      /\ price <= peak /\ tip <= peakTip
  BY Ranges DEF Where
<1>1. 100 * peak <= basis * 150 /\ 100 * peakTip <= basisTip * 120 BY CalmMeans
<1>2. 100 * price <= basis * 150 /\ 100 * tip <= basisTip * 120 BY <1>0, <1>1
<1>3. basisTip = 0 \/ basisTip >= 27
  <2>1. basisTip \in Tips["evm"] \cup {DefaultTip} BY DEF TypeOK, evm
  <2> QED BY <2>1, TipAssumption DEF TipAssumption
<1>4. basis # 0 \/ basisTip # 0
  <2> SUFFICES ASSUME basis = 0, basisTip = 0 PROVE FALSE
    OBVIOUS
  <2>1. price = 0 /\ tip = 0 BY <1>0, <1>2
  <2>2. price \in Prices["evm"] /\ tip \in Tips["evm"] BY DEF TypeOK, evm
  <2> QED BY <2>1, <2>2, TipAssumption DEF TipAssumption
<1> QED BY <1>2, <1>3, <1>4 DEF Sound

\* What an address gets is more than its call costs and what a sweep holds back.
LEMMA SweepCovered ==
  TypeOK /\ Where /\ QuotedEvm /\ QuotedTron /\ op = "setup" /\ Paying /\ Calm =>
    /\ 10 * quote.receipt > ApproveMost + 10 * SweepCost
    /\ 10 * quote.manager > AddMost + 10 * SweepCost
<1> SUFFICES ASSUME TypeOK, Where, QuotedEvm, QuotedTron, op = "setup", Paying, Calm
             PROVE  /\ 10 * quote.receipt > ApproveMost + 10 * SweepCost
                    /\ 10 * quote.manager > AddMost + 10 * SweepCost
  OBVIOUS
<1>0. /\ basis \in Nat /\ price \in Nat /\ peak \in Nat /\ N \in Nat
      /\ basisTip \in Nat /\ tip \in Nat /\ peakTip \in Nat
      /\ price <= peak /\ tip <= peakTip
  BY Ranges, Parameters DEF Where
<1>1. CASE evm
  <2>1. /\ 100 * price <= basis * 150 /\ 100 * tip <= basisTip * 120
        /\ Sound(basis, basisTip)
    BY <1>0, <1>1, CalmOnEvm
  <2>2. /\ quote.receipt = 81 * SafeAt(basis, basisTip)
        /\ quote.manager = (71 + 100 * N) * SafeAt(basis, basisTip)
    BY <1>1 DEF QuotedEvm
  <2>3. SweepCost = 21 * Percent(price + tip, 150)
    BY <1>1 DEF SweepCost, Suggested
  <2>4. /\ ApproveMost = 60 * (15 * basis + 12 * basisTip)
        /\ AddMost = (50 + 100 * N) * (15 * basis + 12 * basisTip)
    BY <1>1 DEF ApproveMost, AddMost
  <2>5. 10 * (81 * SafeAt(basis, basisTip))
          > 60 * (15 * basis + 12 * basisTip) + 10 * (21 * Percent(price + tip, 150))
    BY <1>0, <2>1, ApproveOnEvm
  <2>6. N <= N BY <1>0
  <2>7. 10 * ((71 + 100 * N) * SafeAt(basis, basisTip))
          > (50 + 100 * N) * (15 * basis + 12 * basisTip)
              + 10 * (21 * Percent(price + tip, 150))
    BY <1>0, <2>1, <2>6, AddOnEvm
  <2> QED BY <2>2, <2>3, <2>4, <2>5, <2>7
<1>2. CASE ~evm
  <2>1. 100 * price <= basis * 110
    <3>1. 100 * peak <= basis * 110 BY <1>2, CalmMeans
    <3> QED BY <1>0, <3>1
  <2>2. basis \in EnergyPrices
    BY <1>2 DEF TypeOK, PricesRead, EnergyPrices, Nets, evm
  <2>3. PICK q \in Nat : /\ basis <= q
                         /\ quote.receipt = ContractFee(ApproveGas, q)
                         /\ quote.manager = TronShare(ContractFee(ApproveGas, q))
    BY <1>2, QuoteOnTron
  <2>4. SweepCost = 300 BY <1>2 DEF SweepCost
  <2>5. /\ ApproveMost = 11 * (ApproveGas * basis) + 3500
        /\ AddMost = 11 * (N * (AddGas * basis)) + 3500
    BY <1>2 DEF ApproveMost, AddMost
  <2>6. 10 * quote.receipt > ApproveMost + 3000
    BY <1>0, <2>1, <2>2, <2>3, <2>5, ApproveOnTron
  <2>7. N <= N BY <1>0
  <2>8. 10 * quote.manager > AddMost + 3000
    BY <1>0, <2>1, <2>2, <2>3, <2>5, <2>7, AddOnTron
  <2> QED BY <2>4, <2>6, <2>8
<1> QED BY <1>1, <1>2

\* What a receipt gets pays for its approve.
LEMMA ApproveCovered ==
  ASSUME TypeOK, Where, QuotedEvm, QuotedTron, op = "setup", Paying, Calm,
         NEW call \in CallsFor(ApproveGas),
         NEW offer \in Offers, evm => 100 * offer.tip <= basisTip * 120
  PROVE  /\ Affords(quote.receipt, call, offer)
         /\ 10 * Fee(Least(call.limit, ApproveGas), offer) <= ApproveMost
<1>0. /\ basis \in Nat /\ price \in Nat /\ peak \in Nat /\ basisTip \in Nat
      /\ price <= peak /\ ApproveGas \in Nat
  BY Ranges, Parameters DEF Where
<1>1. /\ call.needs = ApproveGas
      /\ evm => \/ call.limit = Least(Percent(ApproveGas, 130), 500)
                \/ call.limit = 100
      /\ ~evm => call.limit = ApproveGas
  BY <1>0, CallTypes
<1>2. CASE evm
  <2> DEFINE c == offer.cap  t == offer.tip
  <2>1. ApproveGas <= 60 BY UsageAssumption DEF UsageAssumption
  <2>2. call.limit \in Nat /\ call.limit <= 100
    BY <1>0, <1>1, <1>2, <2>1 DEF Least, Percent
  <2>3. 100 * price <= basis * 150 /\ 100 * t <= basisTip * 120 /\ Sound(basis, basisTip)
    BY <1>2, CalmOnEvm
  <2>4. /\ c \in Nat /\ t \in Nat /\ c <= (3 * price) \div 2 + t
        /\ Paid(offer) \in Nat /\ Paid(offer) <= price + t
    BY OfferTypes
  <2> HIDE DEF c, t
  <2>6. 100 * c <= 81 * SafeAt(basis, basisTip)
    <3>1. 100 * ((3 * price) \div 2 + t) <= 81 * SafeAt(basis, basisTip)
      BY <1>0, <2>3, <2>4, ApproveOnEvm
    <3>2. SafeAt(basis, basisTip) \in Nat BY <1>0 DEF SafeAt, Percent
    <3> QED BY <1>0, <2>4, <3>1, <3>2
  <2>7. SafeAt(basis, basisTip) \in Nat BY <1>0 DEF SafeAt, Percent
  <2>8. call.limit * c <= 100 * c BY <2>2, <2>4, ProductMonotone
  <2>9. call.limit * c \in Nat BY <2>2, <2>4, ProductType
  <2>10. quote.receipt >= call.limit * c
    <3>1. quote.receipt = 81 * SafeAt(basis, basisTip) BY <1>2 DEF QuotedEvm
    <3> QED BY <2>4, <2>6, <2>7, <2>8, <2>9, <3>1
  <2>11. Affords(quote.receipt, call, offer) BY <1>2, <2>10 DEF Affords, c
  <2> DEFINE u == Least(call.limit, ApproveGas)  f == Paid(offer)
  <2>12. u \in Nat /\ u <= 60 BY <1>0, <2>1, <2>2 DEF Least
  <2>13. f \in Nat /\ 10 * f <= 15 * basis + 12 * basisTip
    <3> HIDE DEF f
    <3>1. f \in Nat /\ f <= price + t BY <2>4 DEF f
    <3> QED BY <1>0, <2>3, <2>4, <3>1
  <2>14. 10 * Fee(u, offer) = 10 * (u * f) BY <1>2 DEF Fee
  <2>15. ApproveMost = 60 * (15 * basis + 12 * basisTip) BY <1>2 DEF ApproveMost
  <2> HIDE DEF u, f
  <2>16. u * f <= 60 * f /\ u * f \in Nat BY <2>12, <2>13, ProductMonotone
  <2>17. 10 * (u * f) <= 60 * (15 * basis + 12 * basisTip) BY <1>0, <2>13, <2>16
  <2>18. 10 * Fee(u, offer) <= ApproveMost BY <2>14, <2>15, <2>17
  <2> QED BY <2>11, <2>18 DEF u
<1>3. CASE ~evm
  <2>1. 100 * price <= basis * 110 /\ price <= 546
    <3>1. 100 * peak <= basis * 110 /\ peak <= 546 BY <1>3, CalmMeans
    <3> QED BY <1>0, <3>1
  <2>2. basis \in EnergyPrices
    BY <1>3 DEF TypeOK, PricesRead, EnergyPrices, Nets, evm
  <2>3. PICK q \in Nat : basis <= q /\ quote.receipt = ContractFee(ApproveGas, q)
    BY <1>3, QuoteOnTron
  <2>4. /\ ApproveGas * price + 350 <= quote.receipt
        /\ 10 * (ApproveGas * price) <= 11 * (ApproveGas * basis)
        /\ ApproveGas * price \in Nat /\ ApproveGas * basis \in Nat
    BY <1>0, <2>1, <2>2, <2>3, ApproveOnTron
  <2>5. ApproveGas * price <= FeeLimit(ApproveGas) BY <1>0, <2>1, LimitCovers
  <2>6. Fee(ApproveGas, offer) = ApproveGas * price + 350 BY <1>3 DEF Fee
  <2>7. Least(call.limit, ApproveGas) = ApproveGas BY <1>1, <1>3 DEF Least
  <2>8. quote.receipt \in Nat BY Ranges
  <2>9. Affords(quote.receipt, call, offer)
    <3>1. quote.receipt >= ApproveGas * price + 350 BY <2>4, <2>8
    <3> QED BY <1>1, <1>3, <2>5, <2>6, <3>1 DEF Affords
  <2>10. 10 * Fee(ApproveGas, offer) <= ApproveMost
    <3>1. ApproveMost = 11 * (ApproveGas * basis) + 3500
      BY <1>3 DEF ApproveMost
    <3> QED BY <2>4, <2>6, <3>1
  <2> QED BY <2>7, <2>9, <2>10
<1> QED BY <1>2, <1>3

\* At most N receipts are listed.
LEMMA ApprovedCount ==
  TypeOK => Cardinality(approved) \in Nat /\ Cardinality(approved) <= N
<1> SUFFICES ASSUME TypeOK
             PROVE  Cardinality(approved) \in Nat /\ Cardinality(approved) <= N
  OBVIOUS
<1>1. N \in Nat \ {0} /\ 1 \in Int /\ N \in Int BY Parameters
<1>2. IsFiniteSet(1 .. N) /\ Cardinality(1 .. N) = IF 1 > N THEN 0 ELSE N - 1 + 1
  BY <1>1, FS_Interval
<1>3. approved \in SUBSET (1 .. N) BY DEF TypeOK
<1>4. IsFiniteSet(approved) /\ Cardinality(approved) <= Cardinality(1 .. N)
  BY <1>2, <1>3, FS_Subset
<1>5. Cardinality(approved) \in Nat BY <1>4, FS_CardinalityType
<1>6. Cardinality(1 .. N) = N BY <1>1, <1>2
<1> QED BY <1>4, <1>5, <1>6

\* So does the listing with what the manager gets.
LEMMA AddCovered ==
  ASSUME TypeOK, Where, QuotedEvm, QuotedTron, op = "setup", Paying, Calm,
         NEW offer \in Offers, evm => 100 * offer.tip <= basisTip * 120
  PROVE  /\ Affords(quote.manager, AddCall, offer)
         /\ 10 * Fee(AddCall.needs, offer) <= AddMost
<1> DEFINE c == Cardinality(approved)
<1>0. /\ basis \in Nat /\ price \in Nat /\ peak \in Nat /\ basisTip \in Nat
      /\ price <= peak /\ N \in Nat /\ AddGas \in Nat
  BY Ranges, Parameters DEF Where
<1>1. c \in Nat /\ c <= N BY ApprovedCount
<1>2. CASE evm
  <2> DEFINE u == 50 + 100 * c  e == offer.cap  t == offer.tip
  <2>1. AddCall = [limit |-> u, needs |-> u] BY <1>2 DEF AddCall
  <2>3. 100 * price <= basis * 150 /\ 100 * t <= basisTip * 120 /\ Sound(basis, basisTip)
    BY <1>2, CalmOnEvm
  <2>4. /\ e \in Nat /\ t \in Nat /\ e <= (3 * price) \div 2 + t
        /\ Paid(offer) \in Nat /\ Paid(offer) <= price + t
    BY OfferTypes
  <2> HIDE DEF c, e, t
  <2>6. /\ u * ((3 * price) \div 2 + t) <= (71 + 100 * N) * SafeAt(basis, basisTip)
        /\ 10 * (u * (price + t)) <= (50 + 100 * N) * (15 * basis + 12 * basisTip)
    BY <1>0, <1>1, <2>3, <2>4, AddOnEvm, ZenonT(30)
  <2>7. quote.manager = (71 + 100 * N) * SafeAt(basis, basisTip) BY <1>2 DEF QuotedEvm
  <2>8. u \in Nat BY <1>1
  <2> DEFINE h == (3 * price) \div 2 + t
  <2>5. h \in Nat /\ e <= h BY <1>0, <2>4
  <2>9. u * e \in Nat /\ u * h \in Nat /\ u * e <= u * h /\ quote.manager \in Nat
    <3> HIDE DEF h, u
    <3> QED BY <2>4, <2>5, <2>8, Ranges, ProductMonotone
  <2>10. quote.manager >= u * e
    <3>1. u * h <= quote.manager BY <2>6, <2>7
    <3> HIDE DEF h, u
    <3> QED BY <2>9, <3>1
  <2>11. Affords(quote.manager, AddCall, offer) BY <1>2, <2>1, <2>10 DEF Affords, e
  <2> DEFINE f == Paid(offer)  g == price + t  y == 15 * basis + 12 * basisTip
             v == 50 + 100 * N
  <2>12. f \in Nat /\ f <= g /\ g \in Nat /\ y \in Nat /\ v \in Nat
    BY <1>0, <2>4
  <2>13. 10 * Fee(AddCall.needs, offer) = 10 * (u * f) BY <1>2, <2>1 DEF Fee
  <2>14. AddMost = v * y BY <1>2 DEF AddMost
  <2>15. 10 * (u * g) <= v * y BY <2>6
  <2> HIDE DEF u, f, g, v, y
  <2>16. u * f <= u * g /\ u * f \in Nat /\ u * g \in Nat
    BY <2>8, <2>12, ProductMonotone
  <2>17. v * y \in Nat BY <2>12, ProductType
  <2>18. 10 * (u * f) <= v * y BY <2>15, <2>16, <2>17
  <2> QED BY <2>11, <2>13, <2>14, <2>18
<1>3. CASE ~evm
  <2> DEFINE u == AddGas * c
  <2>1. AddCall = [limit |-> u, needs |-> u] BY <1>3 DEF AddCall
  <2>2. 100 * price <= basis * 110 /\ price <= 546
    <3>1. 100 * peak <= basis * 110 /\ peak <= 546 BY <1>3, CalmMeans
    <3> QED BY <1>0, <3>1
  <2>3. basis \in EnergyPrices
    BY <1>3 DEF TypeOK, PricesRead, EnergyPrices, Nets, evm
  <2>4. PICK q \in Nat : /\ basis <= q
                         /\ quote.manager = TronShare(ContractFee(ApproveGas, q))
    BY <1>3, QuoteOnTron
  <2> HIDE DEF c
  <2>5. /\ u * price + 350 <= quote.manager
        /\ 10 * (u * price) <= 11 * (N * (AddGas * basis))
        /\ u * price \in Nat /\ N * (AddGas * basis) \in Nat
    <3>1. basis \in Nat /\ price \in Nat /\ 100 * price <= basis * 110
      BY <1>0, <2>2
    <3>2. \A n \in Nat : n <= N =>
            (AddGas * n) * price + 350 <= TronShare(ContractFee(ApproveGas, q))
      BY <2>3, <2>4, <3>1, AddOnTron
    <3>3. \A n \in Nat : n <= N =>
            10 * ((AddGas * n) * price) <= 11 * (N * (AddGas * basis))
      BY <2>3, <2>4, <3>1, AddOnTron
    <3>4. u * price \in Nat /\ N * (AddGas * basis) \in Nat
      BY <1>0, <1>1, ProductType
    <3> QED BY <1>1, <2>4, <3>2, <3>3, <3>4
  <2>6. u \in Nat BY <1>0, <1>1, ProductType
  <2> HIDE DEF u
  <2>7. u * price <= FeeLimit(u) BY <1>0, <2>2, <2>6, LimitCovers
  <2>8. Fee(u, offer) = u * price + 350 BY <1>3 DEF Fee
  <2>9. quote.manager >= u * price + 350
    <3>1. quote.manager \in Nat BY Ranges
    <3> QED BY <2>5, <3>1
  <2>10. Affords(quote.manager, AddCall, offer)
    BY <1>3, <2>1, <2>7, <2>8, <2>9 DEF Affords
  <2>11. 10 * Fee(u, offer) <= AddMost
    <3>1. AddMost = 11 * (N * (AddGas * basis)) + 3500
      BY <1>3 DEF AddMost
    <3> QED BY <2>5, <2>8, <3>1
  <2> QED BY <2>1, <2>10, <2>11
<1> QED BY <1>2, <1>3

-----------------------------------------------------------------------------
(* What is left of what an address got.                                    *)

\* What a call may cost at most is an amount.
LEMMA MostTypes == TypeOK => ApproveMost \in Nat /\ AddMost \in Nat
<1> SUFFICES ASSUME TypeOK PROVE ApproveMost \in Nat /\ AddMost \in Nat
  OBVIOUS
<1>1. /\ basis \in Nat /\ basisTip \in Nat
      /\ ApproveGas \in Nat /\ AddGas \in Nat /\ N \in Nat
  BY Ranges, Parameters
<1>2. /\ 50 + 100 * N \in Nat /\ 15 * basis + 12 * basisTip \in Nat
      /\ ApproveGas * basis \in Nat /\ AddGas * basis \in Nat
  BY <1>1, ProductType
<1>3. /\ (50 + 100 * N) * (15 * basis + 12 * basisTip) \in Nat
      /\ N * (AddGas * basis) \in Nat
  BY <1>1, <1>2, ProductType
<1> QED BY <1>1, <1>2, <1>3 DEF ApproveMost, AddMost

\* Transfers give each address what it is quoted and none is refused.
LEMMA PurseFunding ==
  TypeOK /\ Where /\ QuotedEvm /\ QuotedTron /\ Ledger /\ Purse
      /\ (\/ AskSetupEvm \/ AskSetupTron \/ StartEvm \/ StartTron \/ FundBegin
          \/ Fund \/ FundRefused \/ FundMined)
    => Purse'
<1> SUFFICES ASSUME TypeOK, Where, QuotedEvm, QuotedTron, Ledger, Purse,
                    \/ AskSetupEvm \/ AskSetupTron \/ StartEvm \/ StartTron \/ FundBegin
                    \/ Fund \/ FundRefused \/ FundMined
             PROVE  Purse'
  OBVIOUS
<1>0. k \in Nat /\ N \in Nat \ {0} BY Ranges, Parameters
<1> USE DEF quoteVars, since, ghosts
<1>1. CASE AskSetupEvm
  <2>1. at' = "confirmed" /\ ~refused' BY <1>1 DEF AskSetupEvm, Where
  <2> QED BY <2>1 DEF Purse
<1>2. CASE AskSetupTron
  <2>1. at' = "confirmed" /\ ~refused' BY <1>2 DEF AskSetupTron, Where
  <2> QED BY <2>1 DEF Purse
<1>3. CASE StartEvm
  <2>1. at' \in {"begin", "declined"} /\ ~refused' BY <1>3 DEF StartEvm, Where
  <2> QED BY <2>1 DEF Purse
<1>4. CASE StartTron
  <2>1. at' = "begin" /\ ~refused' BY <1>4 DEF StartTron, Where
  <2> QED BY <2>1 DEF Purse
<1>5. CASE FundBegin
  <2>1. at' = "fund" /\ ~refused' /\ k' = 0 BY <1>5 DEF FundBegin, Where
  <2>2. Manager # 0 /\ \A i \in 1 .. N : ~(i <= 0) BY <1>0 DEF Manager
  <2> QED BY <2>1, <2>2 DEF Purse, Manager
<1>6. CASE Fund
  <2>1. /\ at = "fund" /\ k < Manager /\ op = "setup"
        /\ gas' = [gas EXCEPT ![k + 1] = Value] /\ k' = k + 1
        /\ UNCHANGED <<at, quote, refused>>
    BY <1>6 DEF Fund, Where
  <2>2. k + 1 \in Targets /\ gas \in [Targets -> Nat]
    <3>1. gas \in [Targets -> Nat] BY DEF TypeOK
    <3>2. k < N + 1 BY <2>1 DEF Manager
    <3>3. k + 1 \in 1 .. N + 1 BY <1>0, <3>2
    <3> QED BY <3>1, <3>3 DEF Targets, Manager
  <2>3. ASSUME NEW i \in 1 .. N, i <= k + 1 PROVE gas'[i] = quote.receipt
    <3>1. i \in Targets BY <1>0 DEF Targets, Manager
    <3>2. CASE i = k + 1
      <4>1. Value = quote.receipt BY <1>0, <3>2 DEF Value, Manager
      <4> QED BY <2>1, <2>2, <3>1, <3>2, <4>1
    <3>3. CASE i # k + 1
      <4>1. i <= k BY <1>0, <2>3, <3>3
      <4>2. gas[i] = quote.receipt BY <2>1, <4>1 DEF Purse
      <4> QED BY <2>1, <2>2, <3>1, <3>3, <4>2
    <3> QED BY <3>2, <3>3
  <2>4. k + 1 = Manager => gas'[Manager] = quote.manager
    BY <2>1, <2>2 DEF Value
  <2>5. ~refused' BY <2>1 DEF Where
  <2> QED BY <2>1, <2>3, <2>4, <2>5 DEF Purse, Manager
<1>7. CASE FundRefused
  <2>1. /\ at = "fund" /\ k < Manager /\ op = "setup" /\ at' = "failed"
        /\ ~(wallet >= Value + Held) /\ op' = op
    <3>1. /\ at = "fund" /\ k < Manager /\ op = "setup" /\ at' = "failed"
          /\ wallet < Value + Held /\ op' = op
      BY <1>7 DEF FundRefused, Where
    <3>2. wallet \in Nat /\ Value \in Nat /\ Held \in Nat
      BY Ranges DEF Value, Held
    <3> QED BY <3>1, <3>2
  <2>2. ~Calm BY <2>1, FundingCovered
  <2>3. ~Calm' BY <1>7, <2>2, CalmBefore DEF Others
  <2> QED BY <2>1, <2>3 DEF Purse
<1>8. CASE FundMined
  <2>1. /\ at = "fund" /\ k = Manager /\ op = "setup" /\ ~refused /\ approved = {}
        /\ at' \in {"failed", "approve"}
        /\ UNCHANGED <<gas, quote, refused, approved>>
    BY <1>8 DEF FundMined, Where
  <2>2. \A i \in 1 .. N : gas[i] = quote.receipt
    <3>1. \A i \in 1 .. N : i <= Manager BY <1>0 DEF Manager
    <3> QED BY <2>1, <3>1 DEF Purse
  <2>3. gas[Manager] = quote.manager BY <2>1 DEF Purse
  <2> QED BY <2>1, <2>2, <2>3 DEF Purse, Manager
<1> QED BY <1>1, <1>2, <1>3, <1>4, <1>5, <1>6, <1>7, <1>8

\* An approve takes no more than ApproveMost.
LEMMA PurseApprove ==
  TypeOK /\ Where /\ QuotedEvm /\ QuotedTron /\ Purse /\ Approve => Purse'
<1> SUFFICES ASSUME TypeOK, Where, QuotedEvm, QuotedTron, Purse, Approve PROVE Purse'
  OBVIOUS
<1>0. k \in Nat /\ N \in Nat \ {0} /\ ApproveGas \in Nat BY Ranges, Parameters
<1> DEFINE r == quote.receipt
<1>1. /\ at = "approve" /\ k < N /\ op = "setup" /\ k' = k + 1
      /\ UNCHANGED <<net, at, op, quote, basis, basisTip>>
  BY DEF Approve, Where, quoteVars, since
<1>2. k + 1 \in Targets /\ k + 1 \in 1 .. N /\ gas \in [Targets -> Nat] /\ gas[k + 1] = r
      /\ Manager \in Targets /\ k + 1 # Manager /\ 1 .. N \subseteq Targets
  <2>1. k + 1 \in 1 .. N /\ k + 1 > k BY <1>0, <1>1
  <2>2. Manager \in Targets /\ 1 .. N \subseteq Targets BY <1>0 DEF Targets, Manager
  <2>3. k + 1 # Manager BY <1>0, <1>1 DEF Manager
  <2>4. gas \in [Targets -> Nat] BY DEF TypeOK
  <2>5. gas[k + 1] = r BY <1>1, <2>1 DEF Purse
  <2> QED BY <2>1, <2>2, <2>3, <2>4, <2>5
<1>3. PICK call \in CallsFor(ApproveGas), offer \in Offers : SendApprove(call, offer)
  BY DEF Approve
<1> DEFINE fee == Fee(Least(call.limit, ApproveGas), offer)
<1>4. \A i \in Targets : i # k + 1 => gas'[i] = gas[i] BY <1>2, <1>3 DEF SendApprove
<1>5. \A i \in 1 .. N : i > k + 1 => gas'[i] = quote.receipt
  <2> SUFFICES ASSUME NEW i \in 1 .. N, i > k + 1 PROVE gas'[i] = quote.receipt
    OBVIOUS
  <2>1. i # k + 1 /\ i > k /\ i \in Targets BY <1>0, <1>2
  <2> QED BY <1>1, <1>4, <2>1 DEF Purse
<1>6. gas'[Manager] = quote.manager BY <1>1, <1>2, <1>4 DEF Purse
<1>7. ASSUME Calm'
      PROVE  /\ \A i \in approved' : 10 * r <= 10 * gas'[i] + ApproveMost
             /\ ~refused'
  <2>1. Calm BY <1>7, CalmBefore DEF Others
  <2>2. /\ Affords(gas[k + 1], call, offer)
        /\ 10 * fee <= ApproveMost
    <3>1. evm => 100 * offer.tip <= basisTip * 120
      <4>1. peakTip' = Most(peakTip, offer.tip) BY <1>3 DEF SendApprove
      <4> QED BY <1>1, <1>7, <4>1, CalmOffers
    <3> QED BY <1>1, <1>2, <2>1, <3>1, ApproveCovered DEF Paying
  <2>3. /\ gas' = [gas EXCEPT ![k + 1] = gas[k + 1] - fee]
        /\ approved' = approved \cup {k + 1}
        /\ refused' = refused
    BY <1>3, <2>2 DEF SendApprove
  <2>4. ~refused' BY <1>1, <2>1, <2>3 DEF Purse
  <2>5. 10 * r <= 10 * gas'[k + 1] + ApproveMost
    <3>1. gas'[k + 1] = r - fee BY <1>2, <2>3
    <3>2. fee \in Nat
      <4>1. call \in [limit : Nat, needs : Nat] /\ call.needs = ApproveGas
        BY <1>0, CallTypes
      <4>2. LET used == Least(call.limit, ApproveGas)
            IN  used \in Nat /\ used <= call.limit /\ used <= call.needs
        BY <1>0, <4>1 DEF Least
      <4>3. gas[k + 1] \in Nat BY <1>2
      <4> QED BY <2>2, <4>1, <4>2, <4>3, AffordedFee
    <3>3. r \in Nat BY Ranges
    <3>4. ApproveMost \in Nat BY MostTypes
    <3> HIDE DEF fee, r
    <3>5. 10 * r <= 10 * (r - fee) + ApproveMost BY <2>2, <3>2, <3>3, <3>4
    <3> QED BY <3>1, <3>5
  <2>6. ASSUME NEW i \in approved', i # k + 1
        PROVE  10 * r <= 10 * gas'[i] + ApproveMost
    <3>1. i \in approved /\ i \in Targets BY <1>2, <2>3, <2>6 DEF TypeOK
    <3>2. 10 * r <= 10 * gas[i] + ApproveMost BY <1>1, <2>1, <3>1 DEF Purse
    <3> QED BY <1>4, <2>6, <3>1, <3>2
  <2> QED BY <2>4, <2>5, <2>6
<1>8. ApproveMost' = ApproveMost
  BY <1>1 DEF ApproveMost, evm
<1>9. /\ at' = "approve" /\ k' = k + 1 /\ quote' = quote /\ op' = "setup" BY <1>1
<1> QED BY <1>5, <1>6, <1>7, <1>8, <1>9 DEF Purse, Manager

\* The listing takes no more than AddMost.
LEMMA PurseListing ==
  TypeOK /\ Where /\ QuotedEvm /\ QuotedTron /\ Purse /\ AddReceiptWallets => Purse'
<1> SUFFICES ASSUME TypeOK, Where, QuotedEvm, QuotedTron, Purse, AddReceiptWallets
             PROVE  Purse'
  OBVIOUS
<1>0. N \in Nat \ {0} BY Parameters
<1> DEFINE m == quote.manager
<1>6. PICK offer \in Offers : SendAdd(offer) BY DEF AddReceiptWallets
<1> DEFINE fee == Fee(AddCall.needs, offer)
<1>5. at' \in {"sweep", "failed"} BY <1>6 DEF SendAdd
<1>1. /\ at = "add" /\ op = "setup" /\ k' = 0 /\ at' \in {"sweep", "failed"}
      /\ UNCHANGED <<net, op, quote, basis, basisTip, approved>>
  BY <1>5 DEF AddReceiptWallets, Where, quoteVars, since
<1>2. Manager \in Targets /\ gas \in [Targets -> Nat] /\ gas[Manager] = m
      /\ 1 .. N \subseteq Targets /\ Manager \notin 1 .. N
  BY <1>0, <1>1 DEF Targets, Manager, TypeOK, Purse
<1>3. ASSUME Calm'
      PROVE  /\ \A i \in approved : 10 * quote.receipt <= 10 * gas'[i] + ApproveMost
             /\ 10 * m <= 10 * gas'[Manager] + AddMost
             /\ ~refused'
  <2>1. Calm BY <1>3, CalmBefore DEF Others
  <2>2. Affords(gas[Manager], AddCall, offer) /\ 10 * fee <= AddMost
    <3>1. evm => 100 * offer.tip <= basisTip * 120
      <4>1. peakTip' = Most(peakTip, offer.tip) BY <1>6 DEF SendAdd
      <4> QED BY <1>1, <1>3, <4>1, CalmOffers
    <3> QED BY <1>1, <1>2, <2>1, <3>1, AddCovered DEF Paying
  <2>3. gas' = [gas EXCEPT ![Manager] = gas[Manager] - fee] /\ refused' = refused
    BY <1>6, <2>2 DEF SendAdd
  <2>4. ~refused' BY <1>1, <2>1, <2>3 DEF Purse
  <2>5. ASSUME NEW i \in approved
        PROVE  10 * quote.receipt <= 10 * gas'[i] + ApproveMost
    <3>1. i \in Targets /\ i # Manager BY <1>2 DEF TypeOK
    <3>2. gas'[i] = gas[i] BY <1>2, <2>3, <3>1
    <3> QED BY <1>1, <2>1, <3>2 DEF Purse
  <2>6. 10 * m <= 10 * gas'[Manager] + AddMost
    <3>1. gas'[Manager] = m - fee BY <1>2, <2>3
    <3>2. fee \in Nat
      <4>1. Cardinality(approved) \in Nat /\ AddGas \in Nat BY ApprovedCount, Parameters
      <4>2. AddGas * Cardinality(approved) \in Nat BY <4>1, ProductType
      <4>3. AddCall \in [limit : Nat, needs : Nat] /\ AddCall.needs = AddCall.limit
        BY <4>1, <4>2 DEF AddCall
      <4>4. /\ AddCall.needs \in Nat /\ AddCall.needs <= AddCall.limit
            /\ AddCall.needs <= AddCall.needs
        BY <4>3
      <4>5. gas[Manager] \in Nat BY <1>2
      <4> QED BY <2>2, <4>3, <4>4, <4>5, AffordedFee
    <3>3. m \in Nat BY Ranges
    <3>4. AddMost \in Nat BY MostTypes
    <3> HIDE DEF fee, m
    <3>5. 10 * m <= 10 * (m - fee) + AddMost BY <2>2, <3>2, <3>3, <3>4
    <3> QED BY <3>1, <3>5
  <2> QED BY <2>4, <2>5, <2>6
<1>4. ApproveMost' = ApproveMost /\ AddMost' = AddMost
  BY <1>1 DEF ApproveMost, AddMost, evm
<1> QED BY <1>1, <1>3, <1>4 DEF Purse, Manager

\* What is left is worth a sweep.
LEMMA PurseSweep ==
  TypeOK /\ Where /\ QuotedEvm /\ QuotedTron /\ Purse /\ (Sweep \/ SweepSkip) => Purse'
<1> SUFFICES ASSUME TypeOK, Where, QuotedEvm, QuotedTron, Purse, Sweep \/ SweepSkip
             PROVE  Purse'
  OBVIOUS
<1>0. k \in Nat /\ N \in Nat \ {0} BY Ranges, Parameters
<1>1. /\ at = "sweep" /\ op = "setup" /\ k < Manager /\ k' = k + 1
      /\ at' = IF k' = Manager THEN "done" ELSE "sweep"
      /\ UNCHANGED <<net, op, quote, basis, basisTip, approved>>
  BY DEF Sweep, SweepSkip, Where, quoteVars, since, ghosts
<1>2. /\ k + 1 \in Targets /\ gas \in [Targets -> Nat] /\ Manager \in Targets
      /\ 1 .. N \subseteq Targets
  BY <1>0, <1>1, SMTT(30) DEF Targets, Manager, TypeOK
<1>3. \A i \in Targets : i # k + 1 => gas'[i] = gas[i]
  BY <1>2 DEF Sweep, SweepSkip
<1>4. ASSUME Calm'
      PROVE  /\ \A i \in approved : i > k + 1 =>
                  10 * quote.receipt <= 10 * gas'[i] + ApproveMost
             /\ k + 1 # Manager => 10 * quote.manager <= 10 * gas'[Manager] + AddMost
             /\ ~refused'
  <2>1. Calm BY <1>4, CalmBefore DEF Others
  <2>2. ASSUME NEW i \in approved, i > k + 1
        PROVE  10 * quote.receipt <= 10 * gas'[i] + ApproveMost
    <3>1. i \in 1 .. N BY DEF TypeOK
    <3>2. i \in Targets /\ i # k + 1 /\ i > k BY <1>0, <1>2, <2>2, <3>1
    <3>3. gas'[i] = gas[i] BY <1>3, <3>2
    <3> QED BY <1>1, <2>1, <3>2, <3>3 DEF Purse
  <2>3. ASSUME k + 1 # Manager
        PROVE  10 * quote.manager <= 10 * gas'[Manager] + AddMost
    <3>1. gas'[Manager] = gas[Manager] BY <1>2, <1>3, <2>3
    <3> QED BY <1>1, <2>1, <3>1 DEF Purse
  <2>4. ~refused BY <1>1, <2>1 DEF Purse
  <2>5. ASSUME k + 1 \in approved \cup {Manager} PROVE gas[k + 1] > SweepCost
    <3>1. /\ 10 * quote.receipt > ApproveMost + 10 * SweepCost
          /\ 10 * quote.manager > AddMost + 10 * SweepCost
      BY <1>1, <2>1, SweepCovered DEF Paying
    <3>2. /\ k + 1 \in approved =>
               10 * quote.receipt <= 10 * gas[k + 1] + ApproveMost
          /\ 10 * quote.manager <= 10 * gas[Manager] + AddMost
      <4>1. k + 1 > k BY <1>0
      <4> QED BY <1>1, <2>1, <4>1 DEF Purse
    <3>4. /\ quote.receipt \in Nat /\ quote.manager \in Nat /\ SweepCost \in Nat
          /\ gas[k + 1] \in Nat
      BY <1>2, Ranges, SweepCostType
    <3>5. ApproveMost \in Nat /\ AddMost \in Nat BY MostTypes
    <3>6. \A q, g, a, s \in Nat :
            10 * q > a + 10 * s /\ 10 * q <= 10 * g + a => g > s
      OBVIOUS
    <3>7. CASE k + 1 \in approved
      <4>1. 10 * quote.receipt <= 10 * gas[k + 1] + ApproveMost BY <3>2, <3>7
      <4> QED BY <3>1, <3>4, <3>5, <3>6, <4>1
    <3>8. CASE k + 1 = Manager
      <4>1. 10 * quote.manager <= 10 * gas[k + 1] + AddMost BY <3>2, <3>8
      <4> QED BY <3>1, <3>4, <3>5, <3>6, <4>1
    <3> QED BY <2>5, <3>7, <3>8
  <2>6. ~refused' BY <2>4, <2>5 DEF Sweep, SweepSkip
  <2> QED BY <2>2, <2>3, <2>6
<1>5. ApproveMost' = ApproveMost /\ AddMost' = AddMost
  BY <1>1 DEF ApproveMost, AddMost, evm
<1>6. at' = "sweep" => k + 1 # Manager BY <1>1
<1>7. at' \in {"done", "sweep"} BY <1>1
<1> QED BY <1>1, <1>4, <1>5, <1>6, <1>7 DEF Purse, Manager

\* Each address keeps what its next step needs.
LEMMA PurseStep ==
  TypeOK /\ Where /\ QuotedEvm /\ QuotedTron /\ Ledger /\ Purse /\ [Next]_vars => Purse'
<1> SUFFICES ASSUME TypeOK, Where, QuotedEvm, QuotedTron, Ledger, Purse, [Next]_vars
             PROVE  Purse'
  OBVIOUS
<1> USE DEF quoteVars, since, ghosts
<1>1. CASE ApproveSkip
  <2>1. /\ at = "approve" /\ k' = k + 1 /\ k \in Nat /\ op = "setup"
        /\ UNCHANGED <<at, op, net, quote, basis, basisTip, gas, approved, refused>>
    BY <1>1, Ranges DEF ApproveSkip, Where
  <2>2. Calm' => Calm BY <1>1, CalmBefore DEF Others
  <2>3. ApproveMost' = ApproveMost
    BY <2>1 DEF ApproveMost, evm
  <2>4. \A i \in 1 .. N : i > k' => i > k BY <2>1, Parameters
  <2> QED BY <2>1, <2>2, <2>3, <2>4 DEF Purse, Manager
<1>2. CASE ApproveEnd
  <2>1. /\ at = "approve" /\ at' \in {"add", "failed"} /\ op = "setup"
        /\ UNCHANGED <<op, net, quote, basis, basisTip, gas, approved, refused>>
    BY <1>2 DEF ApproveEnd, Where
  <2>2. Calm' => Calm BY <1>2, CalmBefore DEF Others
  <2>3. ApproveMost' = ApproveMost
    BY <2>1 DEF ApproveMost, evm
  <2> QED BY <2>1, <2>2, <2>3 DEF Purse, Manager
<1>3. CASE PriceMoves \/ Spend \/ ListGrows \/ UNCHANGED vars
  <2>1. UNCHANGED <<at, k, op, net, quote, basis, basisTip, gas, approved, refused>>
    BY <1>3 DEF PriceMoves, Spend, ListGrows, vars
  <2>2. Calm' => Calm BY <1>3, CalmBefore DEF Others
  <2>3. ApproveMost' = ApproveMost /\ AddMost' = AddMost
    BY <2>1 DEF ApproveMost, AddMost, evm
  <2> QED BY <2>1, <2>2, <2>3 DEF Purse, Manager
<1>4. CASE Call \/ CallSkip \/ CallEnd
  <2>1. op' # "setup"
    BY <1>4 DEF Call, CallSkip, CallEnd, Calling, Where, Calls
  <2> QED BY <2>1 DEF Purse
<1>5. ASSUME NEW o \in Calls, AskCall(o) PROVE Purse'
  BY <1>5 DEF AskCall, Calls, Purse
<1> QED BY <1>1, <1>2, <1>3, <1>4, <1>5, PurseFunding, PurseApprove, PurseListing,
           PurseSweep DEF Next

-----------------------------------------------------------------------------
(* The bill of a claim or a release.                                       *)

\* A call costs at most one and a half times what it is reckoned with.
LEMMA BaseTypes ==
  TypeOK /\ op \in Calls =>
    /\ GuessedGas[op] \in Nat /\ GuessedTrx[op] \in Nat /\ GuessedTrx[op] >= 80000
    /\ CallBase \in Nat /\ CallMost \in Nat
    /\ 2 * CallMost <= 3 * CallBase
<1> SUFFICES ASSUME TypeOK, op \in Calls
             PROVE  /\ GuessedGas[op] \in Nat /\ GuessedTrx[op] \in Nat
                    /\ GuessedTrx[op] >= 80000
                    /\ CallBase \in Nat /\ CallMost \in Nat
                    /\ 2 * CallMost <= 3 * CallBase
  OBVIOUS
<1>1. basis + basisTip \in Nat /\ Size \in Nat BY Ranges, Parameters
<1>2. GuessedGas[op] \in Nat /\ GuessedTrx[op] \in Nat /\ GuessedTrx[op] >= 80000
  BY <1>1 DEF GuessedGas, GuessedTrx, Calls
<1>3. GuessedGas[op] * (basis + basisTip) \in Nat BY <1>1, <1>2, ProductType
<1>4. CASE evm
  <2>1. CallBase = GuessedGas[op] * (basis + basisTip) /\ CallMost = CallBase
    BY <1>4 DEF CallBase, CallMost
  <2>2. CallBase \in Nat BY <1>3, <2>1
  <2> QED BY <1>2, <2>1, <2>2
<1>5. CASE ~evm
  <2>1. CallBase = GuessedTrx[op] /\ CallMost = CallBase + 350
    BY <1>5 DEF CallBase, CallMost
  <2> QED BY <1>2, <2>1
<1> QED BY <1>4, <1>5

\* There is a batch at least.
LEMMA CountTypes ==
  TypeOK => Batches \in Nat /\ Batches >= 1 /\ CallCount \in Nat /\ CallCount >= 1
<1>1. TypeOK => Batches \in Nat /\ Batches >= 1
  BY Ranges, Parameters DEF Batches, Most
<1> QED BY <1>1 DEF CallCount

\* One and a half times n calls pay for k calls and hold one more.
LEMMA BillCovers ==
  ASSUME NEW n \in Nat, NEW j \in Nat, j < n, NEW b \in Nat, NEW c \in Nat,
         2 * c <= 3 * b
  PROVE  /\ n * c \in Nat /\ (j + 1) * c = j * c + c /\ j * c \in Nat
         /\ j * c <= (j + 1) * c
         /\ j * c + c <= Percent(n * b, 150)
         /\ n * c <= Percent(n * b, 150)
<1>1. n * c \in Nat /\ n * b \in Nat /\ 2 * (n * c) <= 3 * (n * b)
  <2>1. n * (2 * c) <= n * (3 * b) BY ProductMonotone
  <2> QED BY <2>1
<1>2. (j + 1) * c = j * c + c /\ j * c \in Nat /\ j * c + c <= n * c
  BY TransfersCovered
<1> DEFINE x == n * c  y == n * b  z == j * c
<1> HIDE DEF x, y, z
<1>3. x <= Percent(y, 150) BY <1>1 DEF Percent, x, y
<1>4. z + c <= Percent(y, 150) /\ z <= z + c
  BY <1>1, <1>2, <1>3 DEF Percent, x, y, z
<1> QED BY <1>1, <1>2, <1>3, <1>4 DEF x, y, z

\* They also leave one and a half times a call.
LEMMA BillHolds ==
  ASSUME NEW n \in Nat, NEW j \in Nat, j < n, NEW b \in Nat, NEW c \in Nat,
         2 * c <= 3 * b
  PROVE  j * c + Percent(b, 150) <= Percent(n * b, 150)
<1>1. /\ j * c \in Nat /\ j * b \in Nat /\ n * b \in Nat /\ 2 * (j * c) <= 3 * (j * b)
  <2>1. j * (2 * c) <= j * (3 * b) BY ProductMonotone
  <2> QED BY <2>1
<1>2. j * b + b <= n * b BY TransfersCovered
<1> DEFINE x == j * c  y == j * b  z == n * b
<1> HIDE DEF x, y, z
<1>3. x + Percent(b, 150) <= Percent(z, 150) BY <1>1, <1>2 DEF Percent, x, y, z
<1> QED BY <1>3 DEF x, z

\* A call that is not dearer than reckoned costs at most what it was reckoned
\* with, and needs no more than one and a half times that.
LEMMA CallCovered ==
  ASSUME TypeOK, Where, op \in Calls, Calm,
         NEW needs \in Nat, NEW call \in CallsFor(needs), ~BeyondReckoned(call),
         NEW offer \in Offers, offer.tip <= basisTip
  PROVE  /\ Fee(Least(call.limit, call.needs), offer) \in Nat
         /\ Fee(Least(call.limit, call.needs), offer) <= CallMost
         /\ \A have \in Nat :
              have >= CallMost /\ have >= Percent(CallBase, 150) =>
                Affords(have, call, offer)
<1> DEFINE u == Least(call.limit, call.needs)  g == GuessedGas[op]
<1>0. /\ basis \in Nat /\ price \in Nat /\ peak \in Nat /\ basisTip \in Nat
      /\ price <= peak /\ peak <= basis /\ price <= basis
  <2>1. /\ basis \in Nat /\ price \in Nat /\ peak \in Nat /\ basisTip \in Nat
        /\ price <= peak
    BY Ranges DEF Where
  <2>2. op # "setup" BY DEF Calls
  <2>3. peak <= basis BY <2>2, CalmMeans
  <2> QED BY <2>1, <2>3
<1>1. /\ call \in [limit : Nat, needs : Nat] /\ call.needs = needs
      /\ ~evm => call.limit = needs
  BY CallTypes
<1>2. call.limit \in Nat /\ call.needs \in Nat BY <1>1
<1>3. u \in Nat /\ u <= call.limit BY <1>2 DEF Least
<1>4. CASE evm
  <2> DEFINE f == Paid(offer)  b == basis + basisTip  o == offer.cap
  <2>1. g \in Nat BY BaseTypes
  <2>2. call.limit <= g BY <1>2, <1>4, <2>1 DEF BeyondReckoned
  <2>3. o \in Nat /\ 2 * o <= 3 * b /\ f \in Nat /\ f <= b /\ b \in Nat
    <3>1. /\ offer.cap \in Nat /\ offer.tip \in Nat
          /\ offer.cap <= (3 * price) \div 2 + offer.tip
          /\ Paid(offer) \in Nat /\ Paid(offer) <= price + offer.tip
      BY OfferTypes
    <3> QED BY <1>0, <3>1
  <2>4. f \in Nat /\ f <= b /\ b \in Nat BY <2>3
  <2>5. CallBase = g * b /\ CallMost = g * b BY <1>4 DEF CallBase, CallMost
  <2>6. Fee(u, offer) = u * f BY <1>4 DEF Fee
  <2> HIDE DEF u, f, b, g, o
  <2>7. u <= g BY <1>2, <1>3, <2>1, <2>2
  <2>8. u * f \in Nat /\ u * f <= g * b
    <3>1. u * f <= g * f /\ g * f <= g * b
      BY <1>3, <2>1, <2>4, <2>7, ProductMonotone
    <3>2. u * f \in Nat /\ g * f \in Nat /\ g * b \in Nat
      BY <1>3, <2>1, <2>4, ProductType
    <3> QED BY <3>1, <3>2
  <2>9. ASSUME NEW have \in Nat, have >= Percent(g * b, 150)
        PROVE  Affords(have, call, offer)
    <3> DEFINE x == call.limit * o  y == g * b
    <3>1. x \in Nat /\ y \in Nat BY <1>2, <2>1, <2>3, <2>4, ProductType
    <3>2. 2 * x <= 3 * y
      <4>1. call.limit * (2 * o) <= g * (2 * o)
        BY <1>2, <2>1, <2>2, <2>3, ProductMonotone
      <4>2. g * (2 * o) <= g * (3 * b) BY <2>1, <2>3, <2>4, ProductMonotone
      <4>3. /\ call.limit * (2 * o) = 2 * x /\ g * (3 * b) = 3 * y
            /\ g * (2 * o) \in Nat
        BY <1>2, <2>1, <2>3, <2>4
      <4> HIDE DEF x, y
      <4> QED BY <3>1, <4>1, <4>2, <4>3
    <3>3. have >= Percent(y, 150) BY <2>9
    <3> HIDE DEF x, y
    <3>4. have >= x BY <3>1, <3>2, <3>3 DEF Percent
    <3> QED BY <1>4, <3>4 DEF Affords, x, o
  <2>10. Fee(u, offer) \in Nat /\ Fee(u, offer) <= CallMost BY <2>5, <2>6, <2>8
  <2>11. \A have \in Nat :
           have >= CallMost /\ have >= Percent(CallBase, 150) =>
                Affords(have, call, offer)
    BY <2>5, <2>9
  <2> QED BY <2>10, <2>11 DEF u
<1>5. CASE ~evm
  <2>1. call.limit = call.needs BY <1>1, <1>5
  <2>2. Least(call.limit, call.needs) = call.needs BY <1>2, <2>1 DEF Least
  <2> DEFINE c == call.needs * price
  <2>3. c \in Nat BY <1>0, <1>2, ProductType
  <2>4. c <= GuessedTrx[op] BY <1>5, <2>3, BaseTypes DEF BeyondReckoned
  <2>5. CallMost = GuessedTrx[op] + 350 BY <1>5 DEF CallBase, CallMost
  <2>6. Fee(call.needs, offer) = c + 350 BY <1>5 DEF Fee
  <2>7. price <= 546
    <3>1. peak <= 546 BY <1>5, CalmMeans
    <3> QED BY <1>0, <3>1
  <2>8. c <= FeeLimit(call.needs) BY <1>0, <1>2, <2>7, LimitCovers
  <2> HIDE DEF c
  <2>9. Fee(call.needs, offer) \in Nat /\ Fee(call.needs, offer) <= CallMost
    BY <2>3, <2>4, <2>5, <2>6, BaseTypes
  <2>10. \A have \in Nat :
           have >= CallMost /\ have >= Percent(CallBase, 150) =>
                Affords(have, call, offer)
    <3>1. ASSUME NEW have \in Nat, have >= CallMost PROVE have >= Fee(call.needs, offer)
      BY <2>9, <3>1, BaseTypes
    <3> QED BY <1>5, <2>8, <3>1 DEF Affords, c
  <2> QED BY <2>2, <2>9, <2>10
<1> QED BY <1>4, <1>5

\* The list only grows and what is over stays over: calls that are as reckoned
\* were so before.
LEMMA ReckonedBefore ==
  TypeOK /\ Where /\ Others =>
    /\ over => over'
    /\ Batches' \in Nat /\ Batches <= Batches'
    /\ op \in Calls /\ AsReckoned' => AsReckoned
<1> SUFFICES ASSUME TypeOK, Where, Others
             PROVE  /\ over => over'
                    /\ Batches' \in Nat /\ Batches <= Batches'
                    /\ op \in Calls /\ AsReckoned' => AsReckoned
  OBVIOUS
<1>0. listed \in Nat /\ Size \in Nat \ {0} /\ Listed \in Nat /\ batches \in Nat
  BY Ranges, Parameters
<1>1. over => over'
  <2>1. CASE Call BY <2>1 DEF Call, SendCall
  <2>2. CASE ~Call
    BY <2>2 DEF Others, vars, ghosts, StartTron, FundBegin, Fund, FundRefused, FundMined,
       Approve, ApproveSkip, ApproveEnd, AddReceiptWallets, Sweep, SweepSkip, CallSkip,
       CallEnd, PriceMoves, Spend, ListGrows
  <2> QED BY <2>1, <2>2
<1>2. listed' = listed \/ listed' = listed + 1
  <2>1. CASE Call BY <2>1 DEF Call
  <2>2. CASE ~Call
    BY <2>2 DEF Others, vars, ghosts, StartTron, FundBegin, Fund, FundRefused, FundMined,
       Approve, ApproveSkip, ApproveEnd, AddReceiptWallets, Sweep, SweepSkip, CallSkip,
       CallEnd, PriceMoves, Spend, ListGrows
  <2> QED BY <2>1, <2>2
<1>3. Batches' \in Nat /\ Batches <= Batches'
  <2> DEFINE B(l) == Most(1, (l + Size - 1) \div Size)
  <2>1. Batches = B(listed) /\ Batches' = B(listed') BY DEF Batches
  <2>2. B(listed) \in Nat /\ B(listed + 1) \in Nat /\ B(listed) <= B(listed + 1)
    <3>1. (listed + Size - 1) \div Size <= (listed + 1 + Size - 1) \div Size
      BY <1>0, DivisionMonotone
    <3>2. /\ (listed + Size - 1) \div Size \in Nat
          /\ (listed + 1 + Size - 1) \div Size \in Nat
      BY <1>0
    <3> QED BY <3>1, <3>2 DEF Most
  <2> HIDE DEF B
  <2> QED BY <1>2, <2>1, <2>2
<1>4. ASSUME op \in Calls, AsReckoned' PROVE AsReckoned
  <2>1. ~over BY <1>1, <1>4 DEF AsReckoned
  <2>2. op' = op BY CalmBefore
  <2>3. batches' = batches
    <3>1. ~StartTron BY <1>4 DEF StartTron, Where, Calls
    <3> QED BY <3>1, QuoteKept
  <2>4. ASSUME op = "claim" PROVE Batches <= batches
    <3>1. Batches' <= batches BY <1>4, <2>2, <2>3, <2>4 DEF AsReckoned
    <3>2. Batches \in Nat BY CountTypes
    <3> QED BY <1>0, <1>3, <3>1, <3>2, LeTransitive, Zenon
  <2> QED BY <2>1, <2>4 DEF AsReckoned
<1> QED BY <1>1, <1>3, <1>4

\* A call as reckoned that was counted is not refused.
LEMMA BillAffords ==
  ASSUME TypeOK, Where, Bill, op \in Calls, Calm, AsReckoned, k < CallCount,
         NEW needs \in Nat, NEW call \in CallsFor(needs), ~BeyondReckoned(call),
         NEW offer \in Offers, offer.tip <= basisTip
  PROVE  Affords(wallet, call, offer)
<1>0. /\ k \in Nat /\ batches \in Nat /\ wallet \in Nat /\ start \in Nat /\ shown \in Nat
      /\ CallCount \in Nat
  BY Ranges, CountTypes
<1>1. /\ CallBase \in Nat /\ CallMost \in Nat /\ 2 * CallMost <= 3 * CallBase
  BY BaseTypes
<1>2. k < batches
  <2>1. CallCount <= batches
    BY <1>0 DEF CallCount, AsReckoned, Bill
  <2> QED BY <1>0, <2>1
<1>3. /\ shown = Percent(batches * CallBase, 150) /\ start >= shown
      /\ start - wallet <= k * CallMost
  BY DEF Bill, AsReckoned
<1> DEFINE n == batches  b == CallBase  c == CallMost
<1>4. /\ k * c \in Nat /\ k * c + c <= Percent(n * b, 150)
  <2>1. /\ n \in Nat /\ k \in Nat /\ k < n /\ b \in Nat /\ c \in Nat
        /\ 2 * c <= 3 * b
    BY <1>0, <1>1, <1>2
  <2> HIDE DEF n, b, c
  <2>2. k * c \in Nat BY <2>1, ProductType
  <2>3. k * c + c <= Percent(n * b, 150) BY <2>1, BillCovers
  <2> QED BY <2>2, <2>3
<1>5. wallet >= c
  <2>1. start >= Percent(n * b, 150) /\ start - wallet <= k * c BY <1>3
  <2>2. wallet \in Int /\ start \in Int /\ c \in Int BY <1>0, <1>1
  <2>3. Percent(n * b, 150) \in Nat BY <1>0, <1>3
  <2> HIDE DEF n, b, c
  <2> QED BY <1>4, <2>1, <2>2, <2>3
<1>6. wallet >= Percent(b, 150)
  <2>1. k * c + Percent(b, 150) <= Percent(n * b, 150)
    <3>1. /\ n \in Nat /\ k \in Nat /\ k < n /\ b \in Nat /\ c \in Nat
          /\ 2 * c <= 3 * b
      BY <1>0, <1>1, <1>2
    <3> HIDE DEF n, b, c
    <3> QED BY <3>1, BillHolds
  <2>2. Percent(b, 150) \in Nat BY <1>1, PercentType
  <2>3. wallet \in Int /\ start \in Int BY <1>0
  <2>4. start >= Percent(n * b, 150) /\ start - wallet <= k * c BY <1>3
  <2>5. Percent(n * b, 150) \in Nat BY <1>0, <1>3
  <2> HIDE DEF n, b, c
  <2> QED BY <2>4, <2>5, <1>4, <2>1, <2>2, <2>3, SMTT(30)
<1> QED BY <1>0, <1>5, <1>6, CallCovered

\* The dialog of a call draws up its bill,
LEMMA BillAsked ==
  ASSUME TypeOK, Where, NEW o \in Calls, AskCall(o) PROVE Bill'
<1>0. /\ price \in Nat /\ tip \in Nat /\ wallet \in Nat BY Ranges
<1>1. /\ op' = o /\ k' = 0 /\ ~refused' /\ start' = wallet /\ wallet' = wallet
      /\ batches' = IF o = "claim" THEN Batches ELSE 1
      /\ shown' = CallFees(o, batches') /\ wallet >= shown'
      /\ basis' = price /\ basisTip' = tip /\ net' = net /\ listed' = listed
  BY DEF AskCall, Where
<1>2. batches' \in Nat /\ batches' >= 1 BY <1>1, CountTypes
<1>3. /\ CallBase' = IF evm THEN GuessedGas[o] * (price + tip) ELSE GuessedTrx[o]
      /\ CallMost' \in Nat
  <2>1. CallBase' = IF evm THEN GuessedGas[o] * (price + tip) ELSE GuessedTrx[o]
    BY <1>1 DEF CallBase, evm, GuessedGas, GuessedTrx
  <2>2. GuessedGas[o] \in Nat /\ GuessedTrx[o] \in Nat /\ price + tip \in Nat
    BY <1>0, Parameters DEF GuessedGas, GuessedTrx, Calls
  <2>3. GuessedGas[o] * (price + tip) \in Nat BY <2>2, ProductType
  <2>4. \E b \in Nat : CallBase' = b BY <2>1, <2>2, <2>3
  <2>5. CallMost' = CallBase' \/ CallMost' = CallBase' + 350 BY DEF CallMost
  <2> QED BY <2>1, <2>4, <2>5
<1>4. shown' = Percent(batches' * CallBase', 150)
  <2>1. shown' = Percent(batches' * IF evm THEN GuessedGas[o] * (price + tip)
                                           ELSE GuessedTrx[o], 150)
    BY <1>1 DEF CallFees, Suggested
  <2> QED BY <1>3, <2>1
<1>5. k' <= CallCount'
  <2>1. CallCount' = IF o = "claim" THEN Batches ELSE 1
    BY <1>1 DEF CallCount, Batches
  <2> QED BY <1>1, <2>1, CountTypes
<1>6. start' - wallet' <= k' * CallMost'
  <2>1. \A c \in Nat : 0 * c = 0 OBVIOUS
  <2>2. start' - wallet' = 0 BY <1>0, <1>1
  <2> QED BY <1>1, <1>3, <2>1, <2>2
<1>7. start' >= shown' BY <1>1
<1>8. NeverShort' BY <1>1 DEF NeverShort
<1> QED BY <1>2, <1>4, <1>5, <1>6, <1>7, <1>8 DEF Bill, Percent

\* What other steps leave of the bill.
LEMMA BillKept ==
  TypeOK /\ Where /\ Bill /\ Others /\ op \in Calls =>
    /\ op' \in Calls /\ CallBase' = CallBase /\ CallMost' = CallMost
    /\ CallCount' \in Nat /\ CallCount <= CallCount'
    /\ shown' = Percent(batches' * CallBase', 150) /\ start' >= shown' /\ batches' >= 1
    /\ start' = start
    /\ (Calm' => Calm) /\ (AsReckoned' => AsReckoned) /\ (over => over')
<1> SUFFICES ASSUME TypeOK, Where, Bill, Others, op \in Calls
             PROVE  /\ op' \in Calls /\ CallBase' = CallBase /\ CallMost' = CallMost
                    /\ CallCount' \in Nat /\ CallCount <= CallCount'
                    /\ shown' = Percent(batches' * CallBase', 150)
                    /\ start' >= shown' /\ batches' >= 1 /\ start' = start
                    /\ (Calm' => Calm) /\ (AsReckoned' => AsReckoned) /\ (over => over')
  OBVIOUS
<1>1. /\ net' = net /\ op' = op /\ start' = start /\ shown' = shown /\ (Calm' => Calm)
  BY CalmBefore
<1>2. basis' = basis /\ basisTip' = basisTip /\ batches' = batches
  <2>1. ~StartTron BY DEF StartTron, Where, Calls
  <2> QED BY <2>1, QuoteKept
<1>3. /\ over => over'
      /\ Batches' \in Nat /\ Batches <= Batches'
      /\ AsReckoned' => AsReckoned
  BY ReckonedBefore
<1>4. CallBase' = CallBase /\ CallMost' = CallMost
  BY <1>1, <1>2 DEF CallBase, CallMost, evm, GuessedGas, GuessedTrx
<1>5. CallCount' \in Nat /\ CallCount <= CallCount'
  <2>1. CASE op = "claim"
    <3>1. CallCount = Batches /\ CallCount' = Batches' BY <1>1, <2>1 DEF CallCount
    <3> QED BY <1>3, <3>1, Zenon
  <2>2. CASE op # "claim"
    <3>1. CallCount = 1 /\ CallCount' = 1 BY <1>1, <2>2 DEF CallCount
    <3> QED BY <3>1
  <2> QED BY <2>1, <2>2
<1> QED BY <1>1, <1>2, <1>3, <1>4, <1>5 DEF Bill

\* a call stays within it,
LEMMA BillCall ==
  TypeOK /\ Where /\ Bill /\ Call => Bill'
<1> SUFFICES ASSUME TypeOK, Where, Bill, Call PROVE Bill'
  OBVIOUS
<1>0. k \in Nat /\ wallet \in Nat /\ start \in Nat BY Ranges
<1>1. op \in Calls /\ k < CallCount BY DEF Call, Calling, CallCount, Where
<1>2. PICK needs \in CallGas[op], offer \in Offers :
        \E call \in CallsFor(needs) : SendCall(call, offer)
  BY DEF Call
<1>3. PICK call \in CallsFor(needs) : SendCall(call, offer) BY <1>2
<1>4. needs \in Nat BY <1>1, <1>2, Parameters DEF Calls
<1> DEFINE fee == Fee(Least(call.limit, call.needs), offer)
<1>5. /\ op' \in Calls /\ CallBase' = CallBase /\ CallMost' = CallMost
      /\ CallCount' = CallCount
      /\ shown' = Percent(batches' * CallBase', 150) /\ start' >= shown' /\ batches' >= 1
      /\ start' = start
      /\ (Calm' => Calm) /\ (AsReckoned' => AsReckoned) /\ (over => over')
  <2>1. CallCount' = CallCount BY DEF Call, CallCount, Batches
  <2> QED BY <1>1, <2>1, BillKept DEF Others
<1>6. CallCount \in Nat /\ CallMost \in Nat BY <1>1, CountTypes, BaseTypes
<1>7. ~over' => ~over /\ ~BeyondReckoned(call) BY <1>3 DEF SendCall
<1>10. Calm' => offer.tip <= basisTip
  <2>1. UNCHANGED <<net, op, basisTip>> BY DEF Call, since
  <2>2. op # "setup" BY <1>1 DEF Calls
  <2>3. peakTip' = Most(peakTip, offer.tip) BY <1>3 DEF SendCall
  <2> QED BY <2>1, <2>2, <2>3, CalmOffers
<1>8. CASE Affords(wallet, call, offer)
  <2>1. wallet' = wallet - fee /\ k' = k + 1 /\ refused' = refused
    BY <1>3, <1>8 DEF SendCall
  <2>2. k' <= CallCount' BY <1>0, <1>1, <1>5, <1>6, <2>1
  <2>3. ASSUME Calm', ~over' PROVE start' - wallet' <= k' * CallMost'
    <3>1. Calm /\ ~over /\ ~BeyondReckoned(call) BY <1>5, <1>7, <2>3
    <3>2. fee \in Nat /\ fee <= CallMost BY <1>1, <1>4, <1>10, <2>3, <3>1, CallCovered
    <3>3. start - wallet <= k * CallMost BY <1>1, <3>1 DEF Bill
    <3> DEFINE c == CallMost
    <3> HIDE DEF c, fee
    <3>4. (k + 1) * c = k * c + c /\ k * c \in Nat /\ c \in Nat BY <1>0, <1>6 DEF c
    <3>5. start - (wallet - fee) <= (k + 1) * c
      BY <1>0, <3>2, <3>3, <3>4 DEF c
    <3> QED BY <1>5, <2>1, <3>5 DEF c
  <2>4. NeverShort' BY <1>1, <1>5, <2>1 DEF NeverShort, Bill
  <2> QED BY <1>5, <2>2, <2>3, <2>4 DEF Bill, Percent
<1>9. CASE ~Affords(wallet, call, offer)
  <2>1. wallet' = wallet /\ k' = k BY <1>3, <1>9 DEF SendCall
  <2>2. k' <= CallCount' BY <1>0, <1>1, <1>5, <1>6, <2>1
  <2>3. Calm' /\ ~over' => start' - wallet' <= k' * CallMost'
    BY <1>1, <1>5, <1>7, <2>1 DEF Bill
  <2>4. ~(Calm' /\ AsReckoned')
    <3> SUFFICES ASSUME Calm', AsReckoned' PROVE FALSE
      OBVIOUS
    <3>1. Calm /\ AsReckoned /\ ~BeyondReckoned(call)
      BY <1>5, <1>7 DEF AsReckoned
    <3> QED BY <1>1, <1>4, <1>9, <1>10, <3>1, BillAffords
  <2> QED BY <1>5, <2>2, <2>3, <2>4 DEF Bill, NeverShort, Percent
<1> QED BY <1>8, <1>9

\* and so does every other step.
LEMMA BillStep ==
  TypeOK /\ Where /\ Bill /\ [Next]_vars => Bill'
<1> SUFFICES ASSUME TypeOK, Where, Bill, [Next]_vars, ~Call, op' \in Calls
             PROVE  Bill'
  BY BillCall DEF Bill
<1>0. k \in Nat /\ wallet \in Nat /\ start \in Nat BY Ranges
<1> USE DEF quoteVars, since, ghosts
<1>1. CASE \E o \in Calls : AskCall(o) BY <1>1, BillAsked
<1>2. CASE CallSkip \/ CallEnd \/ PriceMoves \/ Spend \/ ListGrows \/ UNCHANGED vars
  <2>1. op \in Calls
    BY <1>2 DEF CallSkip, CallEnd, PriceMoves, Spend, ListGrows, vars
  <2>2. /\ CallBase' = CallBase /\ CallMost' = CallMost
        /\ CallCount' \in Nat /\ CallCount <= CallCount'
        /\ shown' = Percent(batches' * CallBase', 150) /\ start' >= shown' /\ batches' >= 1
        /\ start' = start
        /\ (Calm' => Calm) /\ (AsReckoned' => AsReckoned) /\ (over => over')
    BY <1>2, <2>1, BillKept DEF Others
  <2>3. CallCount \in Nat /\ CallMost \in Nat BY <2>1, CountTypes, BaseTypes
  <2>4. refused' = refused
    BY <1>2 DEF CallSkip, CallEnd, PriceMoves, Spend, ListGrows, vars
  <2>5. NeverShort' BY <2>1, <2>2, <2>4 DEF NeverShort, Bill
  <2>6. k <= CallCount BY <2>1 DEF Bill
  <2>7. /\ k' \in Nat /\ k <= k' /\ k' <= CallCount'
        /\ Calm' => wallet' = wallet
    <3>1. CASE CallSkip
      <4>1. k' = k + 1 /\ k + 1 <= CallCount /\ wallet' = wallet /\ CallCount' = CallCount
        BY <1>0, <2>3, <3>1 DEF CallSkip, Calling, CallCount, Batches
      <4> QED BY <1>0, <4>1
    <3>2. CASE CallEnd
      <4>1. k' = k /\ wallet' = wallet /\ CallCount' = CallCount
        BY <3>2 DEF CallEnd, CallCount, Batches
      <4> QED BY <1>0, <2>6, <4>1
    <3>3. CASE PriceMoves
      <4>1. k' = k /\ wallet' = wallet /\ CallCount' = CallCount
        BY <3>3 DEF PriceMoves, CallCount, Batches
      <4> QED BY <1>0, <2>6, <4>1
    <3>4. CASE Spend
      <4>1. k' = k /\ CallCount' = CallCount
        BY <3>4 DEF Spend, CallCount, Batches
      <4>2. ~Calm'
        <5>1. spent' = spent + 1 /\ spent \in Nat BY <3>4, Ranges DEF Spend
        <5>2. spent' # 0 BY <5>1
        <5> QED BY <5>2 DEF Calm
      <4> QED BY <1>0, <2>6, <4>1, <4>2
    <3>5. CASE ListGrows
      <4>1. k' = k /\ wallet' = wallet BY <3>5 DEF ListGrows
      <4> QED BY <1>0, <2>2, <2>3, <2>6, <4>1, LeTransitive
    <3>6. CASE UNCHANGED vars
      <4>1. k' = k /\ wallet' = wallet /\ CallCount' = CallCount
        BY <3>6 DEF vars, CallCount, Batches
      <4> QED BY <1>0, <2>6, <4>1
    <3> QED BY <1>2, <3>1, <3>2, <3>3, <3>4, <3>5, <3>6
  <2>8. ASSUME Calm', ~over' PROVE start' - wallet' <= k' * CallMost'
    <3>1. start - wallet <= k * CallMost BY <2>1, <2>2, <2>8 DEF Bill
    <3>2. /\ k * CallMost <= k' * CallMost /\ k * CallMost \in Nat
      BY <1>0, <2>3, <2>7, ProductMonotone
    <3>3. k' * CallMost \in Nat BY <2>3, <2>7, ProductType
    <3>4. start - wallet \in Int BY <1>0
    <3>5. \A a, b, c \in Int : a <= b /\ b <= c => a <= c OBVIOUS
    <3>6. start - wallet <= k' * CallMost BY <3>1, <3>2, <3>3, <3>4, <3>5
    <3> QED BY <2>2, <2>7, <2>8, <3>6
  <2> QED BY <2>2, <2>5, <2>7, <2>8 DEF Bill, Percent
<1>3. CASE \/ AskSetupEvm \/ AskSetupTron \/ StartEvm \/ StartTron \/ FundBegin \/ Fund
           \/ FundRefused \/ FundMined \/ Approve \/ ApproveSkip \/ ApproveEnd
           \/ AddReceiptWallets \/ Sweep \/ SweepSkip
  <2>1. op' = "setup"
    BY <1>3 DEF Where, AskSetupEvm, AskSetupTron, StartEvm, StartTron, FundBegin, Fund,
       FundRefused, FundMined, Approve, ApproveSkip, ApproveEnd, AddReceiptWallets,
       Sweep, SweepSkip
  <2> QED BY <2>1 DEF Calls
<1> QED BY <1>1, <1>2, <1>3 DEF Next

-----------------------------------------------------------------------------
(* The theorems.                                                           *)

\* The invariant holds at the start ...
LEMMA InitInvariant == Init => IInv
<1> SUFFICES ASSUME Init PROVE IInv
  OBVIOUS
<1>1. TypeOK BY InitType
<1>2. op = "none" /\ at = "idle" BY DEF Init
<1>3. Where
  <2>1. basis \in Nat /\ tip \in Nat BY <1>1, Ranges
  <2> QED BY <2>1 DEF Init, Where
<1>4. QuotedEvm /\ QuotedTron /\ Ledger /\ Purse /\ Bill
  BY <1>2 DEF QuotedEvm, QuotedTron, Ledger, Purse, Bill, Calls
<1> QED BY <1>1, <1>3, <1>4 DEF IInv

\* ... is kept by every step ...
LEMMA StepInvariant == IInv /\ [Next]_vars => IInv'
BY StepType, WhereStep, QuotedEvmStep, QuotedTronStep, LedgerStep, PurseStep, BillStep
   DEF IInv

\* The invariant of the operations' costs: what a quote was made of, what has
\* left the wallet, what is left on each address and what the calls have cost
\* (EstimateBatchSetup, batchFundGas, doSingleApprove, BuildSweepTx).
THEOREM FundsInvariance == Spec => []IInv
BY InitInvariant, StepInvariant, PTL DEF Spec

\* ... and implies that no balance falls short ...
LEMMA InvariantSuffices == IInv => NeverShort
<1> SUFFICES ASSUME IInv, refused, Calm, AsReckoned PROVE FALSE
  BY DEF NeverShort
<1>1. op \in Calls \cup {"none", "setup"} BY DEF IInv, TypeOK
<1>2. CASE op \in Calls BY <1>2 DEF IInv, Bill, NeverShort
<1>3. CASE op = "none" BY <1>3 DEF IInv, Where
<1>4. CASE op = "setup" BY <1>4 DEF IInv, Purse
<1> QED BY <1>1, <1>2, <1>3, <1>4

\* A balance that was found sufficient is: while prices stay within the slack
\* and nothing else spends, no payment is refused and no sweep left out, for
\* every number of receipts, every price and every balance (batchFundGas,
\* doSingleApprove, addReceiptWallets, BuildSweepTx, claims and releases).
THEOREM BalancesSuffice == Spec => []NeverShort
BY FundsInvariance, InvariantSuffices, PTL

\* ... and no cost exceeds what was shown.
LEMMA InvariantWithin == IInv => WithinEstimate
<1> SUFFICES ASSUME IInv, at = "done", Calm, AsReckoned
             PROVE  start - wallet <= IF evm \/ op # "setup" THEN shown
                                                             ELSE Percent(shown, 150)
  BY DEF WithinEstimate
<1> USE DEF IInv
<1> DEFINE r == quote.receipt  m == quote.manager  n == Manager
<1>0. /\ basis \in Nat /\ peak \in Nat /\ k \in Nat /\ batches \in Nat
      /\ start \in Nat /\ wallet \in Nat /\ shown \in Nat /\ r \in Nat /\ m \in Nat
      /\ N \in Nat \ {0} /\ basisTip \in Nat /\ peakTip \in Nat
  BY Ranges, Parameters
<1>1. spent = 0 /\ Paying /\ op # "none" BY CalmMeans DEF Paying, Where
<1>2. CASE op = "setup" /\ evm
  <2> DEFINE h == 21 * (peak + peakTip)  s == 21 * SafeAt(basis, basisTip)
  <2>1. start - wallet <= N * r + m + n * HeldMost BY <1>1, <1>2 DEF Ledger
  <2>2. HeldMost = h BY <1>2 DEF HeldMost
  <2>3. shown = N * r + m + n * s BY <1>1, <1>2 DEF QuotedEvm
  <2>4. h \in Nat /\ s \in Nat /\ h <= s
    <3>1. 100 * peak <= basis * 150 /\ 100 * peakTip <= basisTip * 120
      BY <1>2, CalmMeans
    <3>2. /\ SafeAt(basis, basisTip) \in Nat
          /\ peak + peakTip <= SafeAt(basis, basisTip)
      BY <1>0, <3>1, SafeCovers
    <3> QED BY <1>0, <3>2
  <2>5. n \in Nat BY <1>0 DEF Manager
  <2> HIDE DEF h, s, n, r, m
  <2>6. n * h <= n * s /\ n * h \in Nat /\ n * s \in Nat
    BY <2>4, <2>5, ProductMonotone
  <2>7. N * r \in Nat BY <1>0, ProductType
  <2>8. start - wallet <= shown BY <1>0, <2>1, <2>2, <2>3, <2>6, <2>7
  <2> QED BY <1>2, <2>8
<1>3. CASE op = "setup" /\ ~evm
  <2>1. 100 * peak <= basis * 110 /\ ~guessed BY <1>3, CalmMeans
  <2>2. PICK p, o \in PricesRead :
          basis <= p /\ basis <= o /\ shown = DialogOnTron(p, o)
    BY <1>3, <2>1 DEF QuotedTron
  <2>3. p \in Nat /\ o \in Nat BY ReadingTypes
  <2>4. PICK q \in Nat : /\ basis <= q /\ q <= peak
                         /\ r = ContractFee(ApproveGas, q)
                         /\ m = TronShare(ContractFee(ApproveGas, q))
    BY <1>1, <1>3, QuoteOnTron
  <2>5. 100 * q <= p * 110 /\ 100 * q <= o * 110
    BY <1>0, <2>1, <2>2, <2>3, <2>4
  <2>6. N * r + m + n * 1100 <= Percent(shown, 150)
    BY <2>2, <2>3, <2>4, <2>5, DialogCovers
  <2>7. start - wallet <= N * r + m + n * 1100
    BY <1>1, <1>3 DEF Ledger, HeldMost
  <2>8. Percent(shown, 150) \in Int /\ N * r + m + n * 1100 \in Int /\ start - wallet \in Int
    <3>1. N * r \in Nat BY <1>0, ProductType
    <3>2. Percent(shown, 150) \in Nat BY <1>0, PercentType
    <3>3. N \in Nat BY <1>0
    <3>4. N + 1 \in Nat BY <3>3
    <3>5. n * 1100 \in Nat BY <3>4, ProductType DEF Manager
    <3> HIDE DEF r, n
    <3> QED BY <1>0, <3>1, <3>2, <3>5
  <2> DEFINE x == N * r + m + n * 1100  y == Percent(shown, 150)
  <2>9. start - wallet <= y
    <3>1. x \in Int /\ y \in Int /\ start - wallet <= x /\ x <= y BY <2>6, <2>7, <2>8
    <3> HIDE DEF x, y
    <3> QED BY <1>0, <3>1
  <2> QED BY <1>3, <2>9
<1>4. CASE op \in Calls
  <2> DEFINE b == CallBase  c == CallMost  j == batches
  <2>1. b \in Nat /\ c \in Nat /\ 2 * c <= 3 * b BY <1>4, BaseTypes
  <2>2. /\ shown = Percent(j * b, 150) /\ start - wallet <= k * c /\ k <= CallCount
        /\ batches >= 1
    BY <1>4 DEF Bill, AsReckoned
  <2>3. k <= j
    <3>1. CallCount <= j BY <1>0, <2>2 DEF CallCount, AsReckoned
    <3> QED BY <1>0, <2>2, <3>1, CountTypes
  <2> HIDE DEF b, c, j
  <2>4. j \in Nat /\ 0 < j BY <1>0, <2>2 DEF j
  <2>5. k * c <= j * c /\ k * c \in Nat /\ j * c \in Nat
    BY <1>0, <2>1, <2>3, <2>4, ProductMonotone
  <2>6. 0 \in Nat OBVIOUS
  <2>7. j * c <= Percent(j * b, 150) BY <2>1, <2>4, <2>6, BillCovers
  <2>8. start - wallet <= shown BY <1>0, <2>2, <2>5, <2>7
  <2>9. op # "setup" BY <1>4 DEF Calls
  <2> QED BY <2>8, <2>9
<1> QED BY <1>1, <1>2, <1>3, <1>4 DEF TypeOK

\* What an operation has cost when it ends is at most the total it showed, and
\* on Tron for a set-up at most the one and a half times that the dialog asks
\* for, for every number of receipts, every price and every balance.
THEOREM CostsStayWithin == Spec => []WithinEstimate
BY FundsInvariance, InvariantWithin, PTL
=============================================================================
