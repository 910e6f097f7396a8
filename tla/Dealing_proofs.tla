---------------------------- MODULE Dealing_proofs ----------------------------
(***************************************************************************)
(* Proofs about Dealing, for any stocks, prices, costs, limits, trade unit *)
(* and portfolios.  The cash covers every purchase: the lemmas are about   *)
(* the sizing of an order; CashInv adds to the property what the kind of   *)
(* settlement and the fills must be for it to be inductive.  The account   *)
(* explains the position (ExplainInv), proceeds wait (WaitInv) and no fill *)
(* exceeds a limit (CapacityInv): those are about sums over holdings and   *)
(* executions, and rest on what a sum over a finite set is.                *)
(***************************************************************************)
EXTENDS Dealing, FiniteSetTheorems, WellFoundedInduction, TLAPS

-----------------------------------------------------------------------------
(* The sizing of orders.                                                   *)

\* The greater of two integers, as exchange_trade.rs takes it.
LEMMA MaxOfTwo ==
  ASSUME NEW a \in Int, NEW b \in Int
  PROVE  Max({a, b}) \in {a, b} /\ Max({a, b}) >= a /\ Max({a, b}) >= b
<1>1. \E x \in {a, b} : \A y \in {a, b} : x >= y
  <2>1. CASE a >= b
    BY <2>1
  <2>2. CASE b >= a
    BY <2>2
  <2> QED  BY <2>1, <2>2
<1>2. Max({a, b}) \in {a, b} /\ \A y \in {a, b} : Max({a, b}) >= y
  BY <1>1 DEF Max
<1> QED  BY <1>2

\* The lesser of two integers.
LEMMA MinOfTwo ==
  ASSUME NEW a \in Int, NEW b \in Int
  PROVE  Min({a, b}) \in {a, b} /\ Min({a, b}) <= a /\ Min({a, b}) <= b
<1>1. \E x \in {a, b} : \A y \in {a, b} : x =< y
  <2>1. CASE a <= b
    BY <2>1
  <2>2. CASE b <= a
    BY <2>2
  <2> QED  BY <2>1, <2>2
<1>2. Min({a, b}) \in {a, b} /\ \A y \in {a, b} : Min({a, b}) =< y
  BY <1>1 DEF Min
<1> QED  BY <1>2

\* Products of naturals.
LEMMA Products ==
  ASSUME NEW a \in Int, NEW b \in Int, NEW c \in Nat, a <= b
  PROVE  a * c \in Int /\ b * c \in Int /\ c * a <= c * b /\ a * c <= b * c
  OBVIOUS

LEMMA ProductOfPositive ==
  ASSUME NEW a \in Nat \ {0}, NEW b \in Nat \ {0}
  PROVE  a * b \in Nat \ {0}
  OBVIOUS

\* Rounding gives at most the correction more than it is asked for, times the
\* denominator (round_amount_by_trade_unit).
LEMMA RoundedAtMost ==
  ASSUME NEW n \in Int, NEW d \in Nat \ {0}
  PROVE  /\ Rounded(n, d) \in Int
         /\ Rounded(n, d) * d <= n + Correction * d
         /\ n + Correction * d >= 0 => Rounded(n, d) >= 0
<1> DEFINE q == (n + d) \div (d * Unit)
<1>1. Unit \in Nat \ {0} /\ Correction = 1
  BY DealingAssumption DEF Correction
<1>2. d * Unit \in Nat \ {0}
  BY <1>1, ProductOfPositive
<1>3. q \in Int /\ (d * Unit) * q <= n + d /\ (n + d >= 0 => q >= 0)
  BY <1>2
<1>4. Rounded(n, d) = q * Unit
  BY <1>1 DEF Rounded
<1> HIDE DEF q
<1>5. (q * Unit) * d = (d * Unit) * q /\ q * Unit \in Int
  BY <1>1, <1>3
<1>6. q >= 0 => q * Unit >= 0
  BY <1>1, <1>3
<1> QED  BY <1>1, <1>3, <1>4, <1>5, <1>6

\* What is at most a multiple of a positive number is at most its quotient.
LEMMA Cancel ==
  ASSUME NEW a \in Int, NEW b \in Int, NEW c \in Nat \ {0}, c * a <= c * b
  PROVE  a <= b
<1> SUFFICES ASSUME a >= b + 1 PROVE FALSE
  OBVIOUS
<1>1. c * (b + 1) <= c * a
  BY Products
<1>2. c * (b + 1) = c * b + c
  OBVIOUS
<1> QED  BY <1>1, <1>2

\* Where the cost is proportional (the first branch of buy_amount_by_cash_limit).
LEMMA ProportionalCost ==
  ASSUME NEW cash \in Int, NEW min \in Nat, NEW x \in Int, NEW price \in Nat,
         NEW scale \in Nat \ {0}, NEW rate \in Nat \ {0},
         (scale + rate) * x <= cash + (scale + rate) * price,
         rate * (cash - min) >= scale * min
  PROVE  /\ scale * x + rate * x <= cash + (scale + rate) * price
         /\ scale * x + min <= cash + (scale + rate) * price
<1>1. (scale + rate) * x = scale * x + rate * x
  OBVIOUS
<1>2. (scale + rate) * price >= 0
  OBVIOUS
<1>3. CASE rate * x >= min
  BY <1>1, <1>3
<1>4. CASE rate * x <= min
  <2>1. scale * (rate * x) <= scale * min
    BY <1>4, Products
  <2>2. rate * (scale * x) = scale * (rate * x)
    OBVIOUS
  <2>3. rate * (scale * x) <= rate * (cash - min)
    BY <2>1, <2>2
  <2>4. scale * x \in Int /\ cash - min \in Int
    OBVIOUS
  <2>5. scale * x <= cash - min
    BY <2>3, <2>4, Cancel
  <2> QED  BY <1>1, <1>2, <2>5
<1> QED  BY <1>3, <1>4

\* Where the cost is the minimum (the second branch).
LEMMA MinimumCost ==
  ASSUME NEW cash \in Int, NEW min \in Nat, NEW x \in Int, NEW price \in Nat,
         NEW scale \in Nat \ {0}, NEW rate \in Nat \ {0},
         scale * x <= cash - min + scale * price,
         rate * (cash - min) < scale * min
  PROVE  /\ scale * x + rate * x <= cash + (scale + rate) * price
         /\ scale * x + min <= cash + (scale + rate) * price
<1>1. (scale + rate) * price = scale * price + rate * price /\ rate * price >= 0
  OBVIOUS
<1>2. rate * (scale * x) <= rate * (cash - min + scale * price)
  BY Products
<1>3. /\ rate * (cash - min + scale * price) = rate * (cash - min) + scale * (rate * price)
      /\ rate * (scale * x) = scale * (rate * x)
  OBVIOUS
<1>4. scale * (rate * x) <= scale * (min + rate * price)
  <2>1. scale * (min + rate * price) = scale * min + scale * (rate * price)
    OBVIOUS
  <2> QED  BY <1>2, <1>3, <2>1
<1>5. rate * x <= min + rate * price
  <2>1. rate * x \in Int /\ min + rate * price \in Int
    OBVIOUS
  <2> QED  BY <1>4, <2>1, Cancel
<1> QED  BY <1>1, <1>5

\* What a tick costs at most.
Tick(price, rate) == Correction * (Scale + rate) * price

\* A cost is one of two, and no less than either.
LEMMA FeeIs ==
  ASSUME NEW amount \in Int, NEW price \in Nat, NEW rate \in Nat, config.minimum \in Nat
  PROVE  /\ Fee(amount, price, rate) \in Int
         /\ Fee(amount, price, rate) \in {rate * (amount * price), config.minimum}
         /\ Fee(amount, price, rate) >= rate * (amount * price)
         /\ Fee(amount, price, rate) >= config.minimum
         /\ Value(amount, price) = Scale * (amount * price) /\ Value(amount, price) \in Int
<1>1. rate * amount * price = rate * (amount * price) /\ rate * (amount * price) \in Int
  OBVIOUS
<1>2. Value(amount, price) = Scale * (amount * price) /\ Value(amount, price) \in Int
  BY DealingAssumption DEF Value
<1>3. Fee(amount, price, rate) = Max({rate * (amount * price), config.minimum})
  BY <1>1 DEF Fee
<1>4. config.minimum \in Int
  OBVIOUS
<1> DEFINE cost == rate * (amount * price)
<1>5. cost \in Int
  BY <1>1
<1> HIDE DEF cost
<1>6. Max({cost, config.minimum}) \in {cost, config.minimum}
      /\ Max({cost, config.minimum}) >= cost /\ Max({cost, config.minimum}) >= config.minimum
  BY <1>4, <1>5, MaxOfTwo
<1> QED  BY <1>2, <1>3, <1>4, <1>5, <1>6 DEF cost

\* The limit by cash leaves room for the cost, but for the correction.
LEMMA AffordableCovers ==
  ASSUME NEW price \in Nat \ {0}, NEW rate \in Nat \ {0}, config.minimum \in Nat,
         position.cash \in Int, position.cash >= config.minimum
  PROVE  LET a == Affordable(price, rate)
         IN /\ a \in Nat
            /\ Value(a, price) + Fee(a, price, rate) <= position.cash + Tick(price, rate)
<1> DEFINE a == Affordable(price, rate)
           x == a * price
           min == config.minimum
           cash == position.cash
<1>1. Scale \in Nat \ {0} /\ Correction = 1 /\ Tick(price, rate) = (Scale + rate) * price
  BY DealingAssumption DEF Tick, Correction
<1>2. /\ a \in Nat
      /\ Scale * x + rate * x <= cash + (Scale + rate) * price
      /\ Scale * x + min <= cash + (Scale + rate) * price
  <2>1. CASE rate * (cash - min) >= Scale * min
    <3> DEFINE d == (Scale + rate) * price
    <3>1. Scale + rate \in Nat \ {0}
      BY <1>1
    <3>2. d \in Nat \ {0}
      BY <3>1, ProductOfPositive
    <3>3. a = Rounded(cash, d)
      BY <2>1 DEF Affordable
    <3> HIDE DEF d
    <3>4. a \in Nat /\ a * d <= cash + d
      <4>1. d >= 0 /\ Correction * d = d /\ cash \in Int /\ cash >= 0
        BY <1>1, <3>2
      <4>2. /\ Rounded(cash, d) \in Int /\ Rounded(cash, d) * d <= cash + Correction * d
            /\ cash + Correction * d >= 0 => Rounded(cash, d) >= 0
        BY <3>2, <4>1, RoundedAtMost
      <4> HIDE DEF a, cash
      <4> QED  BY <3>2, <3>3, <4>1, <4>2
    <3>5. a * d = (Scale + rate) * x
      BY <3>1, <3>4 DEF d
    <3>6. x \in Int
      BY <3>4
    <3> HIDE DEF x, a
    <3>7. (Scale + rate) * x <= cash + (Scale + rate) * price
      BY <3>4, <3>5 DEF d
    <3> QED  BY <1>1, <2>1, <3>4, <3>6, <3>7, ProportionalCost
  <2>2. CASE rate * (cash - min) < Scale * min
    <3> DEFINE d == Scale * price
    <3>2. d \in Nat \ {0}
      BY <1>1, ProductOfPositive
    <3>3. a = Rounded(cash - min, d)
      BY <1>1, <2>2 DEF Affordable
    <3> HIDE DEF d
    <3>4. a \in Nat /\ a * d <= cash - min + d
      <4> DEFINE rest == cash - min
      <4>1. d >= 0 /\ Correction * d = d /\ rest \in Int /\ rest >= 0
        BY <1>1, <3>2
      <4> HIDE DEF rest
      <4>2. /\ Rounded(rest, d) \in Int /\ Rounded(rest, d) * d <= rest + Correction * d
            /\ rest + Correction * d >= 0 => Rounded(rest, d) >= 0
        BY <3>2, <4>1, RoundedAtMost
      <4>3. a = Rounded(rest, d)
        BY <3>3 DEF rest
      <4> HIDE DEF a
      <4>4. a \in Nat /\ a * d <= rest + d
        BY <3>2, <4>1, <4>2, <4>3
      <4> QED  BY <4>4 DEF rest
    <3>5. a * d = Scale * x
      BY <1>1, <3>4 DEF d
    <3>6. x \in Int
      BY <3>4
    <3> HIDE DEF x, a
    <3>7. Scale * x <= cash - min + Scale * price
      BY <3>4, <3>5 DEF d
    <3> QED  BY <1>1, <2>2, <3>4, <3>6, <3>7, MinimumCost
  <2>3. rate * (cash - min) \in Int /\ Scale * min \in Int
    BY <1>1
  <2> HIDE DEF a, x
  <2> QED  BY <2>1, <2>2, <2>3
<1> HIDE DEF a
<1>3. Fee(a, price, rate) \in {rate * x, min} /\ Value(a, price) = Scale * x
  <2>1. a \in Int /\ price \in Nat /\ rate \in Nat
    BY <1>2
  <2> QED  BY <2>1, FeeIs
<1> QED  BY <1>1, <1>2, <1>3 DEF a

\* A smaller amount is worth less and costs no more.
LEMMA LessIsCheaper ==
  ASSUME NEW a \in Int, NEW b \in Int, a <= b, NEW price \in Nat, NEW rate \in Nat,
         config.minimum \in Nat
  PROVE  /\ Value(a, price) <= Value(b, price)
         /\ Fee(a, price, rate) <= Fee(b, price, rate)
<1> DEFINE x == a * price
           y == b * price
<1>1. x \in Int /\ y \in Int /\ x <= y
  BY Products
<1>2. Scale \in Nat
  BY DealingAssumption
<1>3. /\ Fee(a, price, rate) \in {rate * x, config.minimum}
      /\ Value(a, price) = Scale * x
      /\ Fee(b, price, rate) >= rate * y /\ Fee(b, price, rate) >= config.minimum
      /\ Value(b, price) = Scale * y /\ Fee(b, price, rate) \in Int
  BY FeeIs
<1> HIDE DEF x, y
<1>4. rate * x <= rate * y /\ Scale * x <= Scale * y /\ rate * x \in Int /\ rate * y \in Int
  BY <1>1, <1>2, Products
<1> QED  BY <1>3, <1>4

\* One tick more costs a tick more.
LEMMA OneTickMore ==
  ASSUME NEW a \in Int, NEW b \in Int, a <= b + Correction, NEW price \in Nat, NEW rate \in Nat,
         config.minimum \in Nat
  PROVE  Value(a, price) + Fee(a, price, rate)
           <= Value(b, price) + Fee(b, price, rate) + Tick(price, rate)
<1> DEFINE x == a * price
           y == b * price
<1>1. Scale \in Nat /\ Correction = 1 /\ Tick(price, rate) = Scale * price + rate * price
  BY DealingAssumption DEF Tick, Correction
<1>2. x \in Int /\ y \in Int /\ x <= y + price
  <2>1. a <= b + 1 /\ b + 1 \in Int
    BY <1>1
  <2>2. a * price <= (b + 1) * price
    BY <2>1, Products
  <2>3. (b + 1) * price = b * price + price
    OBVIOUS
  <2> QED  BY <2>2, <2>3
<1>3. /\ Fee(a, price, rate) \in {rate * x, config.minimum}
      /\ Value(a, price) = Scale * x
      /\ Fee(b, price, rate) >= rate * y /\ Fee(b, price, rate) >= config.minimum
      /\ Value(b, price) = Scale * y /\ Fee(b, price, rate) \in Int
  BY FeeIs
<1> HIDE DEF x, y
<1>4. rate * x <= rate * y + rate * price /\ Scale * x <= Scale * y + Scale * price
  <2>1. y + price \in Int
    BY <1>2
  <2>2. rate * x <= rate * (y + price) /\ Scale * x <= Scale * (y + price)
    BY <1>1, <1>2, <2>1, Products
  <2>3. /\ rate * (y + price) = rate * y + rate * price
        /\ Scale * (y + price) = Scale * y + Scale * price
    BY <1>1, <1>2
  <2> QED  BY <2>2, <2>3
<1>5. /\ rate * x \in Int /\ rate * y \in Int /\ rate * price \in Nat
      /\ Scale * x \in Int /\ Scale * y \in Int /\ Scale * price \in Nat
  BY <1>1, <1>2
<1> QED  BY <1>1, <1>3, <1>4, <1>5

\* A purchase costs no more than the cash, but for the correction (calculate).
LEMMA BuyCovers ==
  ASSUME NEW amount \in Int, NEW price \in Nat \ {0}, NEW rate \in Nat, config.minimum \in Nat,
         position.cash \in Int, ~(rate = 0 /\ CashLimited(amount, price, rate))
  PROVE  LET a == BuyAmount(amount, price, rate)
         IN /\ a \in Int
            /\ a > 0 => Value(a, price) + Fee(a, price, rate) <= position.cash + Tick(price, rate)
<1> DEFINE a == BuyAmount(amount, price, rate)
           r == Rounded(amount, 1)
           cash == position.cash
<1>1. r \in Int /\ r <= amount + Correction
  <2>1. Rounded(amount, 1) * 1 <= amount + Correction * 1 /\ Rounded(amount, 1) \in Int
    BY RoundedAtMost
  <2> QED  BY <2>1 DEF Correction
<1>2. /\ Value(amount, price) \in Int /\ Fee(amount, price, rate) \in Int
      /\ Fee(amount, price, rate) >= config.minimum
  BY FeeIs
<1>3. Tick(price, rate) \in Nat
  BY DealingAssumption DEF Tick, Correction
<1>4. CASE cash < Fee(amount, price, rate)
  BY <1>4 DEF BuyAmount
<1>5. CASE CashLimited(amount, price, rate)
  <2> DEFINE most == Affordable(price, rate)
  <2>1. cash >= config.minimum /\ ~(cash < Fee(amount, price, rate))
    BY <1>2, <1>5 DEF CashLimited
  <2>2. rate \in Nat \ {0}
    BY <1>5
  <2>3. most \in Int /\ Value(most, price) + Fee(most, price, rate) <= cash + Tick(price, rate)
    BY <2>1, <2>2, AffordableCovers
  <2>4. a = Min({most, r})
    BY <1>5, <2>1 DEF BuyAmount
  <2> HIDE DEF a, r, most
  <2>5. a \in Int /\ a <= most
    BY <1>1, <2>3, <2>4, MinOfTwo
  <2>6. Value(a, price) <= Value(most, price) /\ Fee(a, price, rate) <= Fee(most, price, rate)
    BY <2>3, <2>5, LessIsCheaper
  <2>7. /\ Value(a, price) \in Int /\ Fee(a, price, rate) \in Int
        /\ Value(most, price) \in Int /\ Fee(most, price, rate) \in Int
    BY <2>3, <2>5, FeeIs
  <2>8. Value(a, price) + Fee(a, price, rate) <= cash + Tick(price, rate)
    BY <1>3, <2>3, <2>6, <2>7
  <2> QED  BY <2>5, <2>8 DEF a
<1>6. CASE ~(cash < Fee(amount, price, rate)) /\ ~CashLimited(amount, price, rate)
  <2>1. a = r
    BY <1>6 DEF BuyAmount
  <2>2. Value(amount, price) + Fee(amount, price, rate) <= cash
    BY <1>2, <1>6 DEF CashLimited
  <2> HIDE DEF a, r
  <2>3. Value(r, price) + Fee(r, price, rate)
          <= Value(amount, price) + Fee(amount, price, rate) + Tick(price, rate)
    BY <1>1, OneTickMore
  <2>4. Value(r, price) \in Int /\ Fee(r, price, rate) \in Int
    BY <1>1, FeeIs
  <2>5. Value(a, price) + Fee(a, price, rate) <= cash + Tick(price, rate)
    BY <1>2, <1>3, <2>1, <2>2, <2>3, <2>4
  <2> QED  BY <1>1, <2>1, <2>5 DEF a
<1> QED  BY <1>4, <1>5, <1>6

-----------------------------------------------------------------------------
(* The invariant.                                                          *)

FillTypes == [bar : Int, stock : Stocks, direction : Directions, amount : Int,
              capacity : [Limits -> {None} \cup Int], spent : Int, tick : Int]

\* Only an executor that settles in cash holds cash back.
PositionInv ==
  /\ position = [holdings |-> position.holdings, cash |-> position.cash,
                 delayed |-> position.delayed, settle |-> position.settle]
  /\ position.cash \in Int
  /\ \/ position.settle = "None" /\ position.delayed = None
     \/ position.settle = "cash" /\ position.delayed \in Int /\ config.settle = "cash"

BatchInv ==
  /\ config \in Configs
  /\ market \in Markets \cup {None}
  /\ orders \in Seq(Orders) /\ todo \subseteq DOMAIN orders
  /\ \A s \in DOMAIN dealt : dealt[s] \in Int
  /\ bar \in Nat /\ fills \in Seq(FillTypes)

CashInv == PositionInv /\ BatchInv /\ CashCovers

\* A set of naturals that is not empty has a least element.
LEMMA LeastOf ==
  ASSUME NEW S \in SUBSET Nat, S # {}
  PROVE  \E i \in S : \A j \in S : i <= j
<1> DEFINE below == {ss \in Nat \X Nat : ss[1] < ss[2]}
<1>1. IsWellFoundedOn(below, Nat)
  BY NatLessThanWellFounded DEF OpToRel
<1>2. \A i, j \in Nat : i < j => <<i, j>> \in below
  OBVIOUS
<1> HIDE DEF below
<1>3. PICK i \in S : \A j \in S : ~(<<j, i>> \in below)
  BY <1>1, WFMin
<1>4. ASSUME NEW j \in S PROVE i <= j
  <2>1. i \in Nat /\ j \in Nat
    BY <1>3
  <2>2. ~(<<j, i>> \in below)
    BY <1>3
  <2>3. ~(j < i)
    BY <1>2, <2>1, <2>2
  <2> QED  BY <2>1, <2>3
<1> QED  BY <1>3, <1>4

\* There is an order that comes before the others (simulator_order_iterator).
LEMMA NextOrderExists ==
  ASSUME BatchInv, todo # {}
  PROVE  \E i \in todo : \A j \in todo \ {i} : Comes(i, j)
<1>1. todo \in SUBSET Nat
  BY DEF BatchInv
<1> DEFINE buys == {i \in todo : orders[i].direction = "buy"}
<1>2. \E i \in todo : \A j \in todo \ {i} : Comes(i, j)
  <2>1. CASE config.parallel /\ buys # {}
    <3>1. PICK i \in buys : \A j \in buys : i <= j
      <4>1. buys \in SUBSET Nat
        BY <1>1
      <4> QED  BY <2>1, <4>1, LeastOf
    <3>2. ASSUME NEW j \in todo \ {i} PROVE Comes(i, j)
      <4>1. CASE j \in buys
        BY <1>1, <3>1, <4>1 DEF Comes
      <4>2. CASE j \notin buys
        BY <2>1, <3>1, <4>2 DEF Comes
      <4> QED  BY <4>1, <4>2
    <3> QED  BY <3>1, <3>2
  <2>2. CASE ~config.parallel \/ buys = {}
    <3>1. PICK i \in todo : \A j \in todo : i <= j
      BY <1>1, LeastOf
    <3>2. ASSUME NEW j \in todo \ {i} PROVE Comes(i, j)
      <4>1. i < j
        BY <1>1, <3>1
      <4>2. config.parallel => orders[i].direction # "buy" /\ orders[j].direction # "buy"
        BY <2>2
      <4>3. orders[i].direction \in Directions /\ orders[j].direction \in Directions
        <5>1. orders[i] \in Orders /\ orders[j] \in Orders
          BY DEF BatchInv
        <5> QED  BY <5>1 DEF Orders
      <4> QED  BY <4>1, <4>2, <4>3 DEF Comes, Directions
    <3> QED  BY <3>2
  <2> QED  BY <2>1, <2>2
<1> QED  BY <1>2

\* The order that is next is one of those to be dealt, and comes first.
LEMMA CurrentIsNext ==
  ASSUME BatchInv, todo # {}
  PROVE  Current \in todo /\ \A j \in todo \ {Current} : Comes(Current, j)
<1>1. \E i \in todo : \A j \in todo \ {i} : Comes(i, j)
  BY NextOrderExists
<1> QED  BY <1>1 DEF Current

\* Its stock has a quote with a price.
LEMMA OrderIsTyped ==
  ASSUME BatchInv, Turn
  PROVE  /\ Current \in todo /\ Order \in Orders
         /\ Order.stock \in Stocks /\ Order.direction \in Directions /\ Order.amount \in Nat
         /\ Quote \in Quotes /\ Price \in Nat \ {0}
         /\ config.minimum \in Nat
         /\ \A impact \in Impacts : Rate(impact) \in Nat
<1>1. Current \in todo
  BY CurrentIsNext DEF Turn
<1>2. Order \in Orders
  BY <1>1 DEF BatchInv, Order
<1>3. Order.stock \in Stocks /\ Order.direction \in Directions /\ Order.amount \in Nat
  BY <1>2 DEF Orders
<1>4. Quote \in Quotes
  <2>1. market \in [Stocks -> Quotes]
    BY DealingAssumption DEF BatchInv, Turn
  <2> QED  BY <1>3, <2>1 DEF Quote
<1>5. Price \in Nat \ {0}
  <2>1. Quote.price \in [Directions -> Nat \ {0}]
    BY <1>4 DEF Quotes
  <2> QED  BY <1>3, <2>1 DEF Price
<1>6. config \in ConfigTypes
  BY DealingAssumption DEF BatchInv
<1>7. config.minimum \in Nat /\ config.rate \in [Directions -> Nat]
  BY <1>6 DEF ConfigTypes
<1>8. \A impact \in Impacts : Rate(impact) \in Nat
  BY <1>3, <1>7, DealingAssumption DEF Rate
<1> QED  BY <1>1, <1>2, <1>3, <1>4, <1>5, <1>7, <1>8

\* What a limit leaves of an order is a number, and no more than any of the
\* limits that apply (clip_amount_by_volume).
LEMMA ClippedIsTyped ==
  ASSUME BatchInv, Turn, LimitFails = "none"
  PROVE  /\ Clipped(Order, Quote) \in Int
         /\ Clipped(Order, Quote) > 0 /\ ~Unlimited(Order) =>
              \A k \in config.limits[Order.direction] :
                /\ k \in Limits /\ Quote.capacity[k] \in Int
                /\ k = "cum" => Order.stock \in DOMAIN Today
                /\ Left(Order, Quote, k) \in Int
                /\ Clipped(Order, Quote) <= Left(Order, Quote, k)
<1> DEFINE o == Order
           limits == config.limits[o.direction]
           left == [k \in Limits |-> Left(o, Quote, k)]
<1>1. o.amount \in Nat /\ Quote \in Quotes /\ o.direction \in Directions
  BY OrderIsTyped
<1>2. CASE Unlimited(o)
  BY <1>1, <1>2 DEF Clipped
<1>3. CASE ~Unlimited(o)
  <2>1. limits \in SUBSET Limits
    <3>1. config \in ConfigTypes
      BY DealingAssumption DEF BatchInv
    <3>2. config.limits \in [Directions -> {None} \cup SUBSET Limits]
      BY <3>1 DEF ConfigTypes
    <3> QED  BY <1>1, <1>3, <3>2 DEF Unlimited
  <2>2. \A k \in limits : /\ left[k] = Left(o, Quote, k) /\ left[k] \in Int
                          /\ Quote.capacity[k] \in Int
                          /\ k = "cum" => o.stock \in DOMAIN Today
    <3>1. ~Missing(o, Quote, "cum") /\ ~Missing(o, Quote, "current") /\ ~DealtMissing(o)
      BY <1>3 DEF LimitFails
    <3>2. Quote.capacity \in [Limits -> {None} \cup Int]
      BY <1>1 DEF Quotes
    <3>3. \A s \in DOMAIN Today : Today[s] \in Int
      BY DEF Today, Empty, BatchInv
    <3>4. CASE "cum" \in limits
      <4>1. Today[o.stock] \in Int
        BY <3>1, <3>3, <3>4 DEF DealtMissing
      <4>2. \A k \in limits : Quote.capacity[k] \in Int
        BY <2>1, <3>1, <3>2 DEF Missing, Limits
      <4>3. o.stock \in DOMAIN Today
        BY <3>1, <3>4 DEF DealtMissing
      <4>4. \A k \in limits : Left(o, Quote, k) \in Int
        BY <4>1, <4>2 DEF Left
      <4> HIDE DEF limits, o
      <4> QED  BY <2>1, <4>2, <4>3, <4>4
    <3>5. CASE "cum" \notin limits
      <4>1. \A k \in limits : k = "current" /\ Quote.capacity[k] \in Int
        BY <2>1, <3>1, <3>2, <3>5 DEF Missing, Limits
      <4> QED  BY <2>1, <4>1 DEF Left
    <3> QED  BY <3>4, <3>5
  <2> DEFINE S == {o.amount} \cup {left[k] : k \in limits}
  <2>3. S \subseteq Int /\ \E x \in S : \A y \in S : x =< y
    <3> HIDE DEF left, o, limits
    <3>1. limits \in {{}, {"current"}, {"cum"}, {"current", "cum"}}
      BY <2>1 DEF Limits
    <3>2. S \subseteq Int
      BY <1>1, <2>2
    <3>3. CASE limits = {}
      BY <1>1, <3>3
    <3>4. CASE limits \in {{"current"}, {"cum"}}
      <4>1. PICK k : limits = {k}
        BY <3>4
      <4>2. S = {o.amount, left[k]} /\ left[k] \in Int
        BY <2>2, <4>1
      <4>3. o.amount <= left[k] \/ left[k] <= o.amount
        BY <1>1, <4>2
      <4> HIDE DEF S
      <4> QED  BY <1>1, <4>2, <4>3
    <3>5. CASE limits = {"current", "cum"}
      <4> DEFINE f == left["current"]
                 g == left["cum"]
                 a == o.amount
      <4>1. S = {a, f, g} /\ a \in Int /\ f \in Int /\ g \in Int
        BY <1>1, <2>2, <3>5
      <4> HIDE DEF S, a, f, g
      <4>2. \/ a <= f /\ a <= g
            \/ f <= a /\ f <= g
            \/ g <= a /\ g <= f
        BY <4>1
      <4> QED  BY <3>2, <4>1, <4>2
    <3> QED  BY <3>1, <3>2, <3>3, <3>4, <3>5
  <2> DEFINE least == Min(S)
  <2>4. least \in Int /\ \A k \in limits : least <= left[k]
    <3>1. least \in S /\ \A y \in S : least =< y
      <4> HIDE DEF S
      <4> QED  BY <2>3 DEF Min
    <3>2. \A k \in limits : left[k] \in S
      OBVIOUS
    <3> HIDE DEF S, least, left
    <3> QED  BY <2>3, <3>1, <3>2
  <2>5. S = {o.amount} \cup {Left(o, Quote, k) : k \in limits}
    BY <2>1
  <2>6. Clipped(o, Quote) = Max({0, least})
    BY <1>3, <2>5 DEF Clipped
  <2> HIDE DEF least
  <2>7. Max({0, least}) \in {0, least}
    <3>1. least \in Int
      BY <2>4
    <3> QED  BY <3>1, MaxOfTwo
  <2>8. Clipped(o, Quote) > 0 => Clipped(o, Quote) = least
    BY <2>4, <2>6, <2>7
  <2> HIDE DEF left
  <2> QED  BY <2>1, <2>2, <2>4, <2>6, <2>7, <2>8
<1> QED  BY <1>2, <1>3

\* A sale that costs more than it and the cash can pay is not made (calculate).
LEMMA SellCovers ==
  ASSUME NEW held, NEW amount, NEW price \in Nat, NEW rate \in Nat, config.minimum \in Nat,
         position.cash \in Int,
         NEW a \in Nat \ {0}, a = SellAmount(held, amount, price, rate)
  PROVE  position.cash + Value(a, price) - Fee(a, price, rate) >= 0
<1>1. Value(a, price) \in Int /\ Fee(a, price, rate) \in Int
  BY FeeIs
<1>2. ~(position.cash + Value(a, price) < Fee(a, price, rate))
  BY DEF SellAmount
<1> QED  BY <1>1, <1>2

\* An order that is done with leaves the batch as typed as it was; what was
\* filled before stays filled, and the order is the last one filled.
LEMMA RecordsKeeps ==
  ASSUME BatchInv, Turn, NEW amount \in Int, NEW rate \in Nat, Records(amount, rate)
  PROVE  /\ BatchInv' /\ config' = config
         /\ \A i \in DOMAIN fills : i \in DOMAIN fills' /\ fills'[i] = fills[i]
         /\ Len(fills) + 1 \in DOMAIN fills'
         /\ fills'[Len(fills) + 1].amount = amount
         /\ fills'[Len(fills) + 1].direction = Order.direction
         /\ fills'[Len(fills) + 1].tick = Tick(Price, rate)
<1> DEFINE fill == [bar |-> bar, stock |-> Order.stock, direction |-> Order.direction,
                    amount |-> amount, capacity |-> Quote.capacity,
                    spent |-> Value(amount, Price) + Paid(amount, Price, rate),
                    tick |-> Correction * (Scale + rate) * Price]
<1>1. /\ Order.stock \in Stocks /\ Order.direction \in Directions /\ Quote \in Quotes
      /\ Price \in Nat \ {0} /\ config.minimum \in Nat
  BY OrderIsTyped
<1>2. fill \in FillTypes
  <2>1. Value(amount, Price) + Paid(amount, Price, rate) \in Int
    <3>1. Price \in Nat
      BY <1>1
    <3>2. Value(amount, Price) \in Int /\ Fee(amount, Price, rate) \in Int
      BY <1>1, <3>1, FeeIs
    <3>3. Paid(amount, Price, rate) \in Int
      BY <3>2 DEF Paid
    <3> QED  BY <3>2, <3>3
  <2>2. Correction * (Scale + rate) * Price \in Int
    BY <1>1, DealingAssumption DEF Correction
  <2>3. Quote.capacity \in [Limits -> {None} \cup Int]
    BY <1>1 DEF Quotes
  <2>4. bar \in Int
    BY DEF BatchInv
  <2> QED  BY <1>1, <2>1, <2>2, <2>3, <2>4 DEF FillTypes
<1>3. fill.amount = amount /\ fill.direction = Order.direction /\ fill.tick = Tick(Price, rate)
  BY DEF Tick
<1>4. fills' = Append(fills, fill) /\ fills \in Seq(FillTypes)
  BY DEF Records, BatchInv
<1> HIDE DEF fill
<1>5. /\ fills' \in Seq(FillTypes) /\ fills'[Len(fills) + 1] = fill
      /\ \A i \in DOMAIN fills : i \in DOMAIN fills' /\ fills'[i] = fills[i]
      /\ Len(fills) + 1 \in DOMAIN fills'
  BY <1>2, <1>4
<1>6. \A s \in DOMAIN dealt' : dealt'[s] \in Int
  <2>1. \A s \in DOMAIN Today : Today[s] \in Int
    BY DEF Today, Empty, BatchInv
  <2> QED  BY <2>1 DEF Records
<1>7. UNCHANGED <<bar, market, orders, config>> /\ todo' \subseteq todo
  BY DEF Records
<1> QED  BY <1>3, <1>5, <1>6, <1>7 DEF BatchInv

-----------------------------------------------------------------------------
(* The invariant is inductive.                                             *)

\* The portfolio an account begins with is no debt.
LEMMA BeginsCovered == Init => CashInv
<1> SUFFICES ASSUME Init PROVE CashInv
  OBVIOUS
<1>1. PICK p \in Portfolios :
        /\ bar = 0 /\ market = None /\ orders = <<>> /\ todo = {} /\ fills = <<>>
        /\ position = [holdings |-> p.holdings, cash |-> p.cash, delayed |-> None,
                       settle |-> "None"]
        /\ dealt = Empty /\ config \in Configs
  BY DEF Init
<1>2. position.cash \in Nat
  BY <1>1, PortfolioAssumption
<1>3. PositionInv
  BY <1>1, <1>2 DEF PositionInv
<1>4. BatchInv
  BY <1>1 DEF BatchInv, Empty
<1> QED  BY <1>2, <1>3, <1>4 DEF CashInv, CashCovers

\* While the cash and the kind of settlement stay, later fills hurt nothing.
LEMMA CoveredStill ==
  ASSUME CashCovers, config' = config, position'.cash = position.cash,
         \A i \in DOMAIN fills : i \in DOMAIN fills' /\ fills'[i] = fills[i]
  PROVE  CashCovers'
BY DEF CashCovers

\* An executor that does not settle in cash never holds cash back.
LEMMA NothingDelayed ==
  ASSUME PositionInv, config.settle = "None"
  PROVE  position.settle = "None" /\ position.delayed = None
BY DEF PositionInv

\* What a purchase does to a position apart from its holdings.
LEMMA BoughtIs ==
  ASSUME NEW p, p = [holdings |-> p.holdings, cash |-> p.cash, delayed |-> p.delayed,
                     settle |-> p.settle],
         NEW s, NEW amount, NEW price, NEW fee
  PROVE  LET b == Bought(p, s, amount, price, fee)
         IN /\ b = [holdings |-> b.holdings, cash |-> b.cash, delayed |-> b.delayed,
                    settle |-> b.settle]
            /\ b.cash = p.cash - (Value(amount, price) + fee)
            /\ b.delayed = p.delayed /\ b.settle = p.settle
<1> DEFINE b == Bought(p, s, amount, price, fee)
           c == p.cash - (Value(amount, price) + fee)
<1>1. \E h : b = [p EXCEPT !.holdings = h, !.cash = c]
  BY DEF Bought
<1>2. PICK h : b = [p EXCEPT !.holdings = h, !.cash = c]
  BY <1>1
<1> HIDE DEF b, c
<1>3. /\ b = [holdings |-> b.holdings, cash |-> b.cash, delayed |-> b.delayed,
              settle |-> b.settle]
      /\ b.cash = c /\ b.delayed = p.delayed /\ b.settle = p.settle
  BY <1>2
<1> QED  BY <1>3 DEF b, c

\* A purchase (update_order, buy_stock).
LEMMA BuyKeepsCovered ==
  ASSUME CashInv, NEW impact \in Impacts, Buy(impact)
  PROVE  CashInv'
<1> DEFINE rate == Rate(impact)
           amount == Amount(Order, Quote, rate)
           fee == Fee(amount, Price, rate)
           cost == Value(amount, Price) + fee
<1>1. PositionInv /\ BatchInv /\ CashCovers /\ Turn
  BY DEF CashInv, Buy, Deals
<1>2. /\ rate \in Nat /\ Price \in Nat \ {0} /\ config.minimum \in Nat /\ Order.direction = "buy"
      /\ position.cash \in Int
  BY <1>1, OrderIsTyped DEF Buy, PositionInv
<1>3. LimitFails = "none" /\ ~(rate = 0 /\ CashLimited(Clipped(Order, Quote), Price, rate))
  BY <1>2 DEF Buy, Deals, Reason
<1>4. Clipped(Order, Quote) \in Int
  BY <1>1, <1>3, ClippedIsTyped
<1>5. amount = BuyAmount(Clipped(Order, Quote), Price, rate)
  BY <1>2 DEF Amount, Price
<1>6. /\ amount > 0 /\ Records(amount, rate)
      /\ position' = Bought(position, Order.stock, amount, Price, fee)
  BY DEF Buy
<1> HIDE DEF rate, amount
<1>7. amount \in Int /\ cost <= position.cash + Tick(Price, rate)
  BY <1>2, <1>3, <1>4, <1>5, <1>6, BuyCovers
<1>8. cost \in Int /\ Tick(Price, rate) \in Int
  <2>1. Price \in Nat
    BY <1>2
  <2>2. Value(amount, Price) \in Int /\ fee \in Int
    BY <1>2, <1>7, <2>1, FeeIs
  <2>3. Tick(Price, rate) \in Int
    BY <1>2, <2>1, DealingAssumption DEF Tick, Correction
  <2> QED  BY <2>2, <2>3
<1>bought. /\ position' = [holdings |-> position'.holdings, cash |-> position'.cash,
                          delayed |-> position'.delayed, settle |-> position'.settle]
           /\ position'.cash = position.cash - cost
           /\ position'.delayed = position.delayed /\ position'.settle = position.settle
  BY <1>1, <1>6, BoughtIs DEF PositionInv
<1>9. position'.cash = position.cash - cost /\ position'.cash \in Int
  <2> HIDE DEF cost
  <2> QED  BY <1>2, <1>8, <1>bought
<1>10. /\ BatchInv' /\ config' = config /\ Len(fills) + 1 \in DOMAIN fills'
       /\ fills'[Len(fills) + 1].amount = amount
       /\ fills'[Len(fills) + 1].direction = Order.direction
       /\ fills'[Len(fills) + 1].tick = Tick(Price, rate)
  BY <1>1, <1>2, <1>6, <1>7, RecordsKeeps
<1>11. PositionInv'
  BY <1>1, <1>9, <1>10, <1>bought DEF PositionInv
<1>12. position'.cash + Tick(Price, rate) >= 0
  BY <1>2, <1>7, <1>8, <1>9
<1>13. CashCovers'
  BY <1>2, <1>6, <1>10, <1>12 DEF CashCovers
<1> QED  BY <1>10, <1>11, <1>13 DEF CashInv

\* A sale (update_order, sell_stock, record_sale_proceeds).
LEMMA SellKeepsCovered ==
  ASSUME CashInv, NEW impact \in Impacts, Sell(impact)
  PROVE  CashInv'
<1> DEFINE rate == Rate(impact)
           amount == Amount(Order, Quote, rate)
           fee == Fee(amount, Price, rate)
           proceeds == Value(amount, Price) - fee
<1>1. PositionInv /\ BatchInv /\ CashCovers /\ Turn
  BY DEF CashInv, Sell, Deals
<1>2. /\ rate \in Nat /\ Price \in Nat \ {0} /\ config.minimum \in Nat /\ Order.direction = "sell"
      /\ position.cash \in Int
  BY <1>1, OrderIsTyped DEF Sell, PositionInv
<1>3. amount = SellAmount(Held(position, Order.stock), Clipped(Order, Quote), Price, rate)
  BY <1>2 DEF Amount, Price
<1>4. /\ amount \in Nat \ {0} /\ Records(amount, rate)
      /\ position' = Sold(position, Order.stock, amount, Price, fee)
  BY DEF Sell
<1> HIDE DEF rate, amount
<1>5. position.cash + proceeds >= 0 /\ proceeds \in Int
  <2>1. position.cash + Value(amount, Price) - fee >= 0
    BY <1>2, <1>3, <1>4, SellCovers
  <2>2. Value(amount, Price) \in Int /\ fee \in Int
    BY <1>2, <1>4, FeeIs
  <2> QED  BY <1>2, <2>1, <2>2
<1>6. /\ BatchInv' /\ config' = config
      /\ \A i \in DOMAIN fills : i \in DOMAIN fills' /\ fills'[i] = fills[i]
  <2>1. amount \in Int
    BY <1>4
  <2> QED  BY <1>1, <1>2, <1>4, <2>1, RecordsKeeps
<1> HIDE DEF proceeds
<1>7. CASE position.settle = "None"
  <2>1. /\ position'.cash = position.cash + proceeds /\ position'.delayed = position.delayed
        /\ position'.settle = position.settle
        /\ position' = [holdings |-> position'.holdings, cash |-> position'.cash,
                        delayed |-> position'.delayed, settle |-> position'.settle]
    BY <1>1, <1>4, <1>7 DEF Sold, PositionInv, proceeds
  <2>2. PositionInv'
    BY <1>1, <1>2, <1>5, <1>7, <2>1 DEF PositionInv
  <2>3. CashCovers'
    BY <1>5, <2>1 DEF CashCovers
  <2> QED  BY <1>6, <2>2, <2>3 DEF CashInv
<1>8. CASE position.settle = "cash"
  <2>1. /\ position'.cash = position.cash /\ position'.delayed = position.delayed + proceeds
        /\ position'.settle = position.settle
        /\ position' = [holdings |-> position'.holdings, cash |-> position'.cash,
                        delayed |-> position'.delayed, settle |-> position'.settle]
    BY <1>1, <1>4, <1>8 DEF Sold, PositionInv, proceeds
  <2>2. PositionInv'
    BY <1>1, <1>2, <1>5, <1>6, <1>8, <2>1 DEF PositionInv
  <2>3. CashCovers'
    BY <1>1, <1>6, <2>1, CoveredStill
  <2> QED  BY <1>6, <2>2, <2>3 DEF CashInv
<1> QED  BY <1>1, <1>7, <1>8 DEF PositionInv

\* Every step.
LEMMA StaysCovered == CashInv /\ [Next]_vars => CashInv'
<1> SUFFICES ASSUME CashInv, [Next]_vars PROVE CashInv'
  OBVIOUS
<1>1. PositionInv /\ BatchInv /\ CashCovers
  BY DEF CashInv
<1>2. ASSUME NEW quotes \in Markets, NEW decision \in Decisions, OpenBar(quotes, decision)
      PROVE  CashInv'
  <2>1. /\ market' = quotes /\ orders' = decision /\ todo' = DOMAIN decision
        /\ UNCHANGED <<bar, dealt, config, fills>>
        /\ position' = IF config.settle = "cash"
                       THEN [position EXCEPT !.settle = "cash", !.delayed = 0] ELSE position
    BY <1>2 DEF OpenBar
  <2>2. decision \in Seq(Orders)
    BY DealingAssumption
  <2>3. BatchInv'
    BY <1>1, <2>1, <2>2 DEF BatchInv
  <2>4. PositionInv' /\ position'.cash = position.cash
    <3>1. CASE config.settle = "cash"
      <4>1. position' = [holdings |-> position.holdings, cash |-> position.cash,
                         delayed |-> 0, settle |-> "cash"]
        BY <1>1, <2>1, <3>1 DEF PositionInv
      <4>2. /\ position' = [holdings |-> position'.holdings, cash |-> position'.cash,
                           delayed |-> position'.delayed, settle |-> position'.settle]
            /\ position'.cash = position.cash /\ position'.delayed = 0
            /\ position'.settle = "cash"
        BY <4>1
      <4>3. config'.settle = "cash" /\ position.cash \in Int
        BY <1>1, <2>1, <3>1 DEF PositionInv
      <4> QED  BY <4>2, <4>3 DEF PositionInv
    <3>2. CASE config.settle # "cash"
      BY <1>1, <2>1, <3>2 DEF PositionInv
    <3> QED  BY <3>1, <3>2
  <2>5. CashCovers'
    BY <1>1, <2>1, <2>4, CoveredStill
  <2> QED  BY <2>3, <2>4, <2>5 DEF CashInv
<1>3. ASSUME Turn, NEW rate \in Nat, Records(0, rate), UNCHANGED <<position, account>>
      PROVE  CashInv'
  <2>1. /\ BatchInv' /\ config' = config
        /\ \A i \in DOMAIN fills : i \in DOMAIN fills' /\ fills'[i] = fills[i]
    BY <1>1, <1>3, RecordsKeeps
  <2>2. PositionInv'
    BY <1>1, <1>3, <2>1 DEF PositionInv
  <2>3. CashCovers'
    BY <1>1, <1>3, <2>1, CoveredStill
  <2> QED  BY <2>1, <2>2, <2>3 DEF CashInv
<1>4. CASE Untradable
  BY <1>3, <1>4 DEF Untradable
<1>5. ASSUME NEW impact \in Impacts, Nothing(impact) PROVE CashInv'
  <2>1. Turn /\ Rate(impact) \in Nat
    BY <1>1, <1>5, OrderIsTyped DEF Nothing, Deals
  <2> QED  BY <1>3, <1>5, <2>1 DEF Nothing
<1>6. \A s \in DOMAIN Today : Today[s] \in Int
  BY <1>1 DEF Today, Empty, BatchInv
<1>7. ASSUME NEW impact \in Impacts, Refuse(impact) \/ Oversell(impact) PROVE CashInv'
  <2>1. UNCHANGED <<bar, market, orders, todo, config, fills>> /\ dealt' = Today
    BY <1>7 DEF Refuse, Oversell
  <2>2. BatchInv'
    BY <1>1, <1>6, <2>1 DEF BatchInv
  <2>3. PositionInv' /\ position'.cash = position.cash
    <3>1. \/ position' = position
          \/ position' = [position EXCEPT !.holdings = position'.holdings]
      BY <1>1, <1>7 DEF Refuse, Oversell, PositionInv
    <3> QED  BY <1>1, <2>1, <3>1 DEF PositionInv
  <2>4. CashCovers'
    BY <1>1, <2>1, <2>3, CoveredStill
  <2> QED  BY <2>2, <2>3, <2>4 DEF CashInv
<1>8. CASE CloseBar
  <2>1. UNCHANGED <<orders, todo, dealt, config, fills>> /\ market' = None /\ bar' = bar + 1
    BY <1>8 DEF CloseBar
  <2>2. BatchInv'
    BY <1>1, <2>1 DEF BatchInv
  <2> DEFINE p == [position EXCEPT !.holdings = AtClose(@)]
  <2>3. position' = [p EXCEPT !.cash = Cash(p), !.delayed = None, !.settle = "None"]
    BY <1>8 DEF CloseBar
  <2>4. p = [holdings |-> p.holdings, cash |-> position.cash, delayed |-> position.delayed,
             settle |-> position.settle]
    BY <1>1 DEF PositionInv
  <2> HIDE DEF p
  <2>5. Cash(p) \in Int /\ (config.settle = "None" => Cash(p) = position.cash)
    <3>1. position.delayed # None => position.delayed \in Int
      BY <1>1 DEF PositionInv
    <3>2. CASE position.delayed = None
      BY <1>1, <2>4, <3>2 DEF Cash, PositionInv
    <3>3. CASE position.delayed # None
      BY <1>1, <2>4, <3>1, <3>3, NothingDelayed DEF Cash, PositionInv
    <3> QED  BY <3>2, <3>3
  <2>6. PositionInv' /\ position'.cash = Cash(p)
    BY <2>3, <2>4, <2>5 DEF PositionInv
  <2>7. CashCovers'
    BY <1>1, <2>1, <2>5, <2>6 DEF CashCovers
  <2> QED  BY <2>2, <2>6, <2>7 DEF CashInv
<1>9. CASE CloseFails
  <2>1. UNCHANGED <<bar, market, orders, todo, dealt, config, fills>>
    BY <1>9 DEF CloseFails
  <2>2. BatchInv'
    BY <1>1, <2>1 DEF BatchInv
  <2>3. PositionInv' /\ position'.cash = position.cash
    BY <1>1, <1>9, <2>1 DEF CloseFails, PositionInv
  <2>4. CashCovers'
    BY <1>1, <2>1, <2>3, CoveredStill
  <2> QED  BY <2>2, <2>3, <2>4 DEF CashInv
<1>10. CASE UNCHANGED vars
  BY <1>1, <1>10 DEF vars, CashInv, PositionInv, BatchInv, CashCovers
<1>11. ASSUME NEW impact \in Impacts, Buy(impact) \/ Sell(impact) PROVE CashInv'
  BY <1>11, BuyKeepsCovered, SellKeepsCovered
<1> QED  BY <1>2, <1>4, <1>5, <1>7, <1>8, <1>9, <1>10, <1>11 DEF Next

-----------------------------------------------------------------------------

\* Whatever the stocks, prices, costs, limits, portfolios and decisions, an
\* executor that does not settle in cash never runs into debt, but for what
\* the correction of a purchase costs.
THEOREM CashAlwaysCovers == Spec => []CashCovers
<1>1. CashInv => CashCovers
  BY DEF CashInv
<1> QED  BY <1>1, BeginsCovered, StaysCovered, PTL DEF Spec

-----------------------------------------------------------------------------
(* Sums over finite sets.  Induction goes by the least number, as the      *)
(* order of the natural numbers is well-founded.                           *)

\* Induction over the natural numbers, for a set of them.
LEMMA AllNumbers ==
  ASSUME NEW T, 0 \in T, \A n \in Nat : n \in T => n + 1 \in T
  PROVE  Nat \subseteq T
<1> SUFFICES ASSUME Nat \ T # {} PROVE FALSE
  OBVIOUS
<1>1. PICK n \in Nat \ T : \A m \in Nat \ T : n <= m
  <2>1. Nat \ T \in SUBSET Nat
    OBVIOUS
  <2> QED  BY <2>1, LeastOf
<1>2. n - 1 \in Nat /\ ~(n <= n - 1)
  BY <1>1
<1>3. n - 1 \in T
  BY <1>1, <1>2
<1>4. (n - 1) + 1 \in T
  BY <1>2, <1>3
<1> QED  BY <1>1, <1>4

Chosen(s) == CHOOSE x \in s : TRUE
\* What the fold computes: the sums over the sets of D.
Recurs(g, f, D) ==
  \A s \in D : g[s] = IF s = {} THEN 0 ELSE f[Chosen(s)] + g[s \ {Chosen(s)}]
SumsUp(g, f, D) == g \in [D -> Int] /\ Recurs(g, f, D)
Summable(f, S) == IsFiniteSet(S) /\ \A x \in S : f[x] \in Int
AtMost(S, n) == {s \in SUBSET S : Cardinality(s) <= n}

\* The element chosen leaves a set that is smaller by one.
LEMMA ChosenIs ==
  ASSUME NEW S, IsFiniteSet(S), NEW s \in SUBSET S, s # {}
  PROVE  /\ Chosen(s) \in s /\ IsFiniteSet(s) /\ s \ {Chosen(s)} \in SUBSET S
         /\ Cardinality(s) \in Nat \ {0}
         /\ Cardinality(s \ {Chosen(s)}) = Cardinality(s) - 1
<1>1. Chosen(s) \in s
  BY DEF Chosen
<1>2. IsFiniteSet(s)
  BY FS_Subset
<1>3. Cardinality(s) \in Nat /\ Cardinality(s) # 0
  BY <1>2, FS_CardinalityType, FS_EmptySet
<1>4. Cardinality(s \ {Chosen(s)}) = Cardinality(s) - 1
  BY <1>1, <1>2, FS_RemoveElement
<1> QED  BY <1>1, <1>2, <1>3, <1>4

\* The sums over the subsets of a finite set exist.
LEMMA SumsExist ==
  ASSUME NEW f, NEW S, Summable(f, S)
  PROVE  \E g : SumsUp(g, f, SUBSET S)
<1> DEFINE Good == {n \in Nat : \E g : SumsUp(g, f, AtMost(S, n))}
<1>0. IsFiniteSet(S) /\ \A x \in S : f[x] \in Int
  BY DEF Summable
<1>1. 0 \in Good
  <2>1. \A s \in AtMost(S, 0) : s = {}
    <3> SUFFICES ASSUME NEW s \in AtMost(S, 0), s # {} PROVE FALSE
      OBVIOUS
    <3>1. s \in SUBSET S /\ Cardinality(s) <= 0
      BY DEF AtMost
    <3>2. Cardinality(s) \in Nat \ {0}
      BY <1>0, <3>1, ChosenIs
    <3> QED  BY <3>1, <3>2
  <2>2. SumsUp([s \in AtMost(S, 0) |-> 0], f, AtMost(S, 0))
    BY <2>1 DEF SumsUp, Recurs
  <2> QED  BY <2>2
<1>2. ASSUME NEW n \in Nat, n \in Good PROVE n + 1 \in Good
  <2>1. PICK g : SumsUp(g, f, AtMost(S, n))
    BY <1>2
  <2> DEFINE rest(s) == s \ {Chosen(s)}
             h == [s \in AtMost(S, n + 1) |->
                     IF s = {} THEN 0 ELSE f[Chosen(s)] + g[rest(s)]]
  <2>2. \A s \in AtMost(S, n + 1) : s # {} =>
          /\ rest(s) \in AtMost(S, n) /\ rest(s) \in AtMost(S, n + 1)
          /\ Chosen(s) \in S
    BY <1>0, ChosenIs DEF AtMost
  <2>3. h \in [AtMost(S, n + 1) -> Int]
    <3>1. ASSUME NEW s \in AtMost(S, n + 1), s # {}
          PROVE  f[Chosen(s)] + g[rest(s)] \in Int
      <4>1. f[Chosen(s)] \in Int
        BY <1>0, <2>2, <3>1
      <4>2. g[rest(s)] \in Int
        BY <2>1, <2>2, <3>1 DEF SumsUp, Recurs
      <4> QED  BY <4>1, <4>2
    <3> QED  BY <3>1
  <2>4. ASSUME NEW s \in AtMost(S, n) PROVE s \in AtMost(S, n + 1) /\ h[s] = g[s]
    <3>1. Cardinality(s) \in Nat
      BY <1>0, FS_Subset, FS_CardinalityType DEF AtMost
    <3>2. s \in AtMost(S, n + 1)
      BY <3>1 DEF AtMost
    <3>3. h[s] = IF s = {} THEN 0 ELSE f[Chosen(s)] + g[rest(s)]
      BY <3>2
    <3> QED  BY <2>1, <3>2, <3>3 DEF SumsUp, Recurs
  <2>5. ASSUME NEW s \in AtMost(S, n + 1)
        PROVE  h[s] = IF s = {} THEN 0 ELSE f[Chosen(s)] + h[rest(s)]
    <3>1. CASE s = {}
      BY <3>1
    <3>2. CASE s # {}
      <4>1. h[rest(s)] = g[rest(s)]
        BY <2>2, <2>4, <3>2
      <4>2. h[s] = f[Chosen(s)] + g[rest(s)]
        BY <3>2
      <4> QED  BY <3>2, <4>1, <4>2
    <3> QED  BY <3>1, <3>2
  <2>6. SumsUp(h, f, AtMost(S, n + 1))
    <3> HIDE DEF h
    <3> QED  BY <2>3, <2>5 DEF SumsUp, Recurs
  <2> QED  BY <2>6
<1>3. Nat \subseteq Good
  <2> HIDE DEF Good
  <2> QED  BY <1>1, <1>2, AllNumbers
<1>4. Cardinality(S) \in Nat /\ AtMost(S, Cardinality(S)) = SUBSET S
  BY <1>0, FS_CardinalityType, FS_Subset DEF AtMost
<1> QED  BY <1>3, <1>4

\* Two functions that follow the recurrence agree where both are defined.
LEMMA SumsAgree ==
  ASSUME NEW f, NEW S, IsFiniteSet(S), NEW T \in SUBSET S, NEW g, NEW h,
         Recurs(g, f, SUBSET S), Recurs(h, f, SUBSET T)
  PROVE  h[T] = g[T]
<1> DEFINE Good == {n \in Nat : \A s \in SUBSET T : Cardinality(s) = n => h[s] = g[s]}
           rest(s) == s \ {Chosen(s)}
<1>0. IsFiniteSet(T) /\ SUBSET T \subseteq SUBSET S
  BY FS_Subset
<1>1. \A s \in SUBSET T : /\ h[s] = IF s = {} THEN 0 ELSE f[Chosen(s)] + h[rest(s)]
                          /\ g[s] = IF s = {} THEN 0 ELSE f[Chosen(s)] + g[rest(s)]
  BY <1>0 DEF Recurs
<1>2. 0 \in Good
  <2> SUFFICES ASSUME NEW s \in SUBSET T, Cardinality(s) = 0 PROVE h[s] = g[s]
    OBVIOUS
  <2>1. s = {}
    BY <1>0, ChosenIs
  <2> QED  BY <1>1, <2>1
<1>3. ASSUME NEW n \in Nat, n \in Good PROVE n + 1 \in Good
  <2> SUFFICES ASSUME NEW s \in SUBSET T, Cardinality(s) = n + 1
               PROVE  h[s] = g[s]
    BY <1>3
  <2>1. s # {}
    <3>1. Cardinality({}) = 0 /\ n + 1 # 0
      BY FS_EmptySet
    <3> QED  BY <3>1
  <2>2. rest(s) \in SUBSET T /\ Cardinality(rest(s)) = n
    BY <1>0, <2>1, ChosenIs
  <2>3. h[rest(s)] = g[rest(s)]
    BY <1>3, <2>2
  <2> QED  BY <1>1, <2>1, <2>3
<1>4. Nat \subseteq Good
  <2> HIDE DEF Good
  <2> QED  BY <1>2, <1>3, AllNumbers
<1>5. Cardinality(T) \in Nat
  BY <1>0, FS_CardinalityType
<1> QED  BY <1>4, <1>5

\* The fold of the community modules is such a function.
LEMMA SumIs ==
  ASSUME NEW f, NEW S, Summable(f, S), NEW g, SumsUp(g, f, SUBSET S),
         NEW T \in SUBSET S
  PROVE  SumFunctionOnSet(f, T) = g[T]
<1> DEFINE Iter(h) == [s \in SUBSET T |->
                         IF s = {} THEN 0 ELSE f[Chosen(s)] + h[s \ {Chosen(s)}]]
           it == CHOOSE h : h = Iter(h)
<1>1. SumFunctionOnSet(f, T) = it[T]
  BY DEF SumFunctionOnSet, FoldFunctionOnSet, MapThenFoldSet, Chosen
<1>2. Summable(f, T) /\ IsFiniteSet(S)
  BY FS_Subset DEF Summable
<1>3. PICK h : SumsUp(h, f, SUBSET T)
  BY <1>2, SumsExist
<1>4. h = Iter(h)
  BY <1>3 DEF SumsUp, Recurs
<1>5. it = Iter(it)
  BY <1>4
<1> HIDE DEF it
<1>6. Recurs(it, f, SUBSET T)
  <2>1. \A s \in SUBSET T :
          Iter(it)[s] = IF s = {} THEN 0 ELSE f[Chosen(s)] + it[s \ {Chosen(s)}]
    OBVIOUS
  <2> HIDE DEF Iter
  <2> QED  BY <1>5, <2>1 DEF Recurs
<1>7. it[T] = g[T]
  BY <1>2, <1>6, SumsAgree DEF SumsUp
<1> QED  BY <1>1, <1>7

\* A sum over a finite set of integers is an integer, over none it is 0, and
\* it may be taken from any of its elements.
LEMMA SumType ==
  ASSUME NEW f, NEW S, Summable(f, S)
  PROVE  SumFunctionOnSet(f, S) \in Int
<1>1. PICK g : SumsUp(g, f, SUBSET S)
  BY SumsExist
<1>2. SumFunctionOnSet(f, S) = g[S]
  BY <1>1, SumIs
<1> QED  BY <1>1, <1>2 DEF SumsUp

LEMMA SumOfNone ==
  ASSUME NEW f, NEW S, S = {}
  PROVE  SumFunctionOnSet(f, S) = 0
<1>1. Summable(f, S) /\ S \in SUBSET S
  BY FS_EmptySet DEF Summable
<1>2. PICK g : SumsUp(g, f, SUBSET S)
  BY <1>1, SumsExist
<1>3. SumFunctionOnSet(f, S) = g[S]
  BY <1>1, <1>2, SumIs
<1> QED  BY <1>1, <1>2, <1>3 DEF SumsUp, Recurs

LEMMA SumWithout ==
  ASSUME NEW f, NEW S, Summable(f, S), NEW x \in S
  PROVE  SumFunctionOnSet(f, S) = f[x] + SumFunctionOnSet(f, S \ {x})
<1> DEFINE rest(s) == s \ {Chosen(s)}
<1>1. PICK g : SumsUp(g, f, SUBSET S)
  BY SumsExist
<1>2. /\ g \in [SUBSET S -> Int]
      /\ \A s \in SUBSET S : s # {} => g[s] = f[Chosen(s)] + g[rest(s)]
  BY <1>1 DEF SumsUp, Recurs
<1>3. IsFiniteSet(S) /\ \A y \in S : f[y] \in Int
  BY DEF Summable
<1> DEFINE Splits(s) == \A y \in s : g[s] = f[y] + g[s \ {y}]
           Good == {n \in Nat : \A s \in SUBSET S : Cardinality(s) = n => Splits(s)}
<1>4. 0 \in Good
  <2> SUFFICES ASSUME NEW s \in SUBSET S, Cardinality(s) = 0 PROVE Splits(s)
    OBVIOUS
  <2>1. s = {}
    BY <1>3, ChosenIs
  <2> QED  BY <2>1
<1>5. ASSUME NEW n \in Nat, n \in Good PROVE n + 1 \in Good
  <2> SUFFICES ASSUME NEW s \in SUBSET S, Cardinality(s) = n + 1, NEW y \in s
               PROVE  g[s] = f[y] + g[s \ {y}]
    BY <1>5
  <2> DEFINE c == Chosen(s)
  <2>1. c \in s /\ g[s] = f[c] + g[s \ {c}]
    BY <1>2, <1>3, ChosenIs
  <2> HIDE DEF c
  <2>2. CASE y = c
    BY <2>1, <2>2
  <2>3. CASE y # c
    <3>1. /\ s \ {c} \in SUBSET S /\ s \ {y} \in SUBSET S
          /\ y \in s \ {c} /\ c \in s \ {y}
          /\ (s \ {c}) \ {y} = (s \ {y}) \ {c} /\ (s \ {c}) \ {y} \in SUBSET S
      BY <2>1, <2>3
    <3>2. Cardinality(s \ {c}) = n /\ Cardinality(s \ {y}) = n
      <4>1. IsFiniteSet(s)
        BY <1>3, FS_Subset
      <4>2. Cardinality(s \ {c}) = Cardinality(s) - 1
        BY <2>1, <4>1, FS_RemoveElement
      <4>3. Cardinality(s \ {y}) = Cardinality(s) - 1
        BY <4>1, FS_RemoveElement
      <4> QED  BY <4>2, <4>3
    <3>3. Splits(s \ {c}) /\ Splits(s \ {y})
      BY <1>5, <3>1, <3>2
    <3>4. /\ g[s \ {c}] = f[y] + g[(s \ {c}) \ {y}]
          /\ g[s \ {y}] = f[c] + g[(s \ {y}) \ {c}]
      BY <3>1, <3>3
    <3>5. /\ f[y] \in Int /\ f[c] \in Int /\ g[(s \ {c}) \ {y}] \in Int
      BY <1>2, <1>3, <2>1, <3>1
    <3>6. g[(s \ {c}) \ {y}] = g[(s \ {y}) \ {c}]
      BY <3>1
    <3> QED  BY <2>1, <3>4, <3>5, <3>6
  <2> QED  BY <2>2, <2>3
<1>6. Nat \subseteq Good
  <2> HIDE DEF Good
  <2> QED  BY <1>4, <1>5, AllNumbers
<1>7. Splits(S)
  <2>1. Cardinality(S) \in Nat
    BY <1>3, FS_CardinalityType
  <2> QED  BY <1>6, <2>1
<1>8. SumFunctionOnSet(f, S) = g[S] /\ SumFunctionOnSet(f, S \ {x}) = g[S \ {x}]
  BY <1>1, SumIs
<1> QED  BY <1>7, <1>8

\* Functions that agree on a set have the same sum over it.
LEMMA SameSum ==
  ASSUME NEW f, NEW h, NEW S, Summable(f, S), \A x \in S : h[x] = f[x]
  PROVE  SumFunctionOnSet(h, S) = SumFunctionOnSet(f, S)
<1>1. PICK g : SumsUp(g, f, SUBSET S)
  BY SumsExist
<1>2. IsFiniteSet(S) /\ Summable(h, S)
  BY DEF Summable
<1>3. \A s \in SUBSET S : s # {} => h[Chosen(s)] = f[Chosen(s)]
  BY <1>2, ChosenIs
<1>4. SumsUp(g, h, SUBSET S)
  BY <1>1, <1>3 DEF SumsUp, Recurs
<1> QED  BY <1>1, <1>2, <1>4, SumIs

\* One more element adds its value.
LEMMA SumWith ==
  ASSUME NEW f, NEW S, Summable(f, S), NEW x, x \notin S, f[x] \in Int
  PROVE  /\ Summable(f, S \cup {x})
         /\ SumFunctionOnSet(f, S \cup {x}) = SumFunctionOnSet(f, S) + f[x]
<1>1. Summable(f, S \cup {x})
  BY FS_AddElement DEF Summable
<1>2. (S \cup {x}) \ {x} = S
  OBVIOUS
<1>3. SumFunctionOnSet(f, S \cup {x}) = f[x] + SumFunctionOnSet(f, S)
  BY <1>1, <1>2, SumWithout
<1>4. SumFunctionOnSet(f, S) \in Int
  BY SumType
<1> QED  BY <1>1, <1>3, <1>4

-----------------------------------------------------------------------------
(* The value of the holdings.                                              *)

AreCounted(holdings) == IsFiniteSet(DOMAIN holdings) /\ AreHoldings(holdings)
ValueOf(holding) == Value(holding.amount, holding.price)
Values(holdings) == [s \in DOMAIN holdings |-> ValueOf(holdings[s])]

LEMMA ValueType ==
  ASSUME NEW amount \in Int, NEW price \in Nat
  PROVE  Value(amount, price) \in Int
BY DealingAssumption DEF Value

\* A value is shared out with the amount.
LEMMA ValueAdds ==
  ASSUME NEW a \in Int, NEW b \in Int, NEW price \in Nat
  PROVE  /\ Value(a + b, price) = Value(a, price) + Value(b, price)
         /\ Value(a - b, price) = Value(a, price) - Value(b, price)
<1>1. Scale \in Int
  BY DealingAssumption
<1>2. /\ (Scale * (a + b)) * price = (Scale * a) * price + (Scale * b) * price
      /\ (Scale * (a - b)) * price = (Scale * a) * price - (Scale * b) * price
  BY <1>1
<1> QED  BY <1>2 DEF Value

\* The values are integers, and so is their sum.
LEMMA HoldingsAreSummed ==
  ASSUME NEW holdings, AreCounted(holdings)
  PROVE  /\ StockValue(holdings) = SumFunctionOnSet(Values(holdings), DOMAIN holdings)
         /\ Summable(Values(holdings), DOMAIN holdings)
         /\ StockValue(holdings) \in Int
         /\ \A s \in DOMAIN holdings : holdings[s] \in Holding /\ ValueOf(holdings[s]) \in Int
<1>1. StockValue(holdings) = SumFunctionOnSet(Values(holdings), DOMAIN holdings)
  BY DEF StockValue, SumFunction, Values, ValueOf
<1>2. \A s \in DOMAIN holdings : holdings[s] \in Holding
  BY DEF AreCounted, AreHoldings
<1>3. ASSUME NEW x \in Holding PROVE ValueOf(x) \in Int
  <2>1. x.amount \in Int /\ x.price \in Nat
    BY <1>3 DEF Holding
  <2> QED  BY <2>1, ValueType DEF ValueOf
<1>4. Summable(Values(holdings), DOMAIN holdings)
  BY <1>2, <1>3 DEF Summable, Values, AreCounted
<1>5. SumFunctionOnSet(Values(holdings), DOMAIN holdings) \in Int
  BY <1>4, SumType
<1> QED  BY <1>1, <1>2, <1>3, <1>4, <1>5

\* A holding that is given up takes its value with it.
LEMMA ValueWithout ==
  ASSUME NEW holdings, AreCounted(holdings), NEW s \in DOMAIN holdings
  PROVE  /\ AreCounted(Without(holdings, s))
         /\ StockValue(Without(holdings, s)) = StockValue(holdings) - ValueOf(holdings[s])
<1> DEFINE h == Without(holdings, s)
           f == Values(holdings)
           D == DOMAIN holdings
<1>1. DOMAIN h = D \ {s} /\ \A t \in D \ {s} : h[t] = holdings[t]
  BY DEF Without
<1>2. AreCounted(h)
  <2>1. IsFiniteSet(D \ {s}) /\ D \subseteq Stocks
    BY FS_Subset DEF AreCounted, AreHoldings
  <2>2. \A t \in D : holdings[t] \in Holding
    BY HoldingsAreSummed
  <2>3. h \in [DOMAIN h -> Holding]
    BY <1>1, <2>2 DEF Without
  <2> HIDE DEF h
  <2> QED  BY <1>1, <2>1, <2>3 DEF AreCounted, AreHoldings
<1> HIDE DEF h
<1>3. /\ StockValue(holdings) = SumFunctionOnSet(f, D) /\ Summable(f, D)
      /\ \A t \in D : f[t] = ValueOf(holdings[t]) /\ ValueOf(holdings[t]) \in Int
  BY HoldingsAreSummed DEF Values
<1>4. SumFunctionOnSet(f, D) = f[s] + SumFunctionOnSet(f, D \ {s})
  BY <1>3, SumWithout
<1>5. Summable(f, D \ {s})
  BY <1>3, FS_Subset DEF Summable
<1>6. SumFunctionOnSet(f, D \ {s}) \in Int
  BY <1>5, SumType
<1>7. SumFunctionOnSet(Values(h), D \ {s}) = SumFunctionOnSet(f, D \ {s})
  <2>1. \A t \in D \ {s} : Values(h)[t] = f[t]
    BY <1>1 DEF Values
  <2> HIDE DEF f, D
  <2> QED  BY <1>5, <2>1, SameSum
<1>8. StockValue(h) = SumFunctionOnSet(Values(h), D \ {s})
  BY <1>1, <1>2, HoldingsAreSummed
<1>9. f[s] \in Int /\ f[s] = ValueOf(holdings[s])
  BY <1>3
<1> HIDE DEF f, D
<1>10. StockValue(h) = StockValue(holdings) - f[s]
  BY <1>3, <1>4, <1>6, <1>7, <1>8, <1>9
<1> QED  BY <1>2, <1>9, <1>10 DEF h

\* A stock that was not held adds its value.
LEMMA ValueWithNew ==
  ASSUME NEW holdings, AreCounted(holdings), NEW s \in Stocks \ DOMAIN holdings,
         NEW x \in Holding
  PROVE  /\ AreCounted(With(holdings, s, x))
         /\ StockValue(With(holdings, s, x)) = StockValue(holdings) + ValueOf(x)
<1> DEFINE h == With(holdings, s, x)
           f == Values(holdings)
           g == Values(h)
           D == DOMAIN holdings
<1>1. DOMAIN h = D \cup {s} /\ h[s] = x /\ \A t \in D : h[t] = holdings[t]
  BY DEF With
<1>2. AreCounted(h)
  <2>1. IsFiniteSet(D \cup {s}) /\ D \subseteq Stocks
    BY FS_AddElement DEF AreCounted, AreHoldings
  <2>2. \A t \in D : holdings[t] \in Holding
    BY HoldingsAreSummed
  <2>3. h \in [DOMAIN h -> Holding]
    BY <1>1, <2>2 DEF With
  <2> HIDE DEF h
  <2> QED  BY <1>1, <2>1, <2>3 DEF AreCounted, AreHoldings
<1> HIDE DEF h
<1>3. /\ StockValue(holdings) = SumFunctionOnSet(f, D) /\ Summable(f, D)
      /\ StockValue(holdings) \in Int
  BY HoldingsAreSummed
<1>4. StockValue(h) = SumFunctionOnSet(g, D \cup {s}) /\ Summable(g, D \cup {s})
  BY <1>1, <1>2, HoldingsAreSummed
<1>5. g[s] = ValueOf(x) /\ g[s] \in Int
  <2>1. g[s] = ValueOf(x)
    BY <1>1 DEF Values
  <2> QED  BY <1>4, <2>1 DEF Summable
<1>6. \A t \in D : g[t] = f[t]
  BY <1>1 DEF Values
<1> HIDE DEF f, g
<1>7. Summable(g, D)
  BY <1>3, <1>6 DEF Summable
<1>8. SumFunctionOnSet(g, D) = SumFunctionOnSet(f, D)
  BY <1>3, <1>6, SameSum
<1>9. SumFunctionOnSet(g, D \cup {s}) = SumFunctionOnSet(g, D) + g[s]
  BY <1>5, <1>7, SumWith
<1> QED  BY <1>2, <1>3, <1>4, <1>5, <1>8, <1>9 DEF h

\* A holding that changes exchanges its value.
LEMMA ValueWith ==
  ASSUME NEW holdings, AreCounted(holdings), NEW s \in DOMAIN holdings, NEW x \in Holding
  PROVE  /\ AreCounted(With(holdings, s, x))
         /\ StockValue(With(holdings, s, x))
              = StockValue(holdings) - ValueOf(holdings[s]) + ValueOf(x)
<1> DEFINE h == Without(holdings, s)
<1>1. AreCounted(h) /\ StockValue(h) = StockValue(holdings) - ValueOf(holdings[s])
  BY ValueWithout
<1>2. s \in Stocks \ DOMAIN h
  BY DEF Without, AreCounted, AreHoldings
<1>3. With(h, s, x) = With(holdings, s, x)
  <2>1. DOMAIN h \cup {s} = DOMAIN holdings \cup {s}
    BY DEF Without
  <2>2. \A t \in DOMAIN holdings \cup {s} : t # s => h[t] = holdings[t]
    BY DEF Without
  <2> HIDE DEF h
  <2> QED  BY <2>1, <2>2 DEF With
<1> HIDE DEF h
<1> QED  BY <1>1, <1>2, <1>3, ValueWithNew

\* A purchase adds the amount bought at the price the position has for the stock.
LEMMA BoughtValue ==
  ASSUME NEW p, p = [holdings |-> p.holdings, cash |-> p.cash, delayed |-> p.delayed,
                     settle |-> p.settle],
         AreCounted(p.holdings), NEW s \in Stocks, NEW amount \in Int, NEW price \in Nat, NEW fee
  PROVE  LET h == Bought(p, s, amount, price, fee).holdings
         IN /\ AreCounted(h) /\ h[s].price \in Nat
            /\ StockValue(h) = StockValue(p.holdings) + Value(amount, h[s].price)
<1> DEFINE old == p.holdings
           x == IF s \in DOMAIN old THEN [old[s] EXCEPT !.amount = @ + amount]
                ELSE [amount |-> amount, price |-> price]
           h == Bought(p, s, amount, price, fee).holdings
<1>1. h = With(old, s, x)
  <2> DEFINE w == Increased(old, s, amount, price)
             c == p.cash - (Value(amount, price) + fee)
  <2>1. Bought(p, s, amount, price, fee) = [p EXCEPT !.holdings = w, !.cash = c]
    BY DEF Bought
  <2>2. w = With(old, s, x)
    BY DEF Increased
  <2> HIDE DEF w, c, x
  <2>3. [p EXCEPT !.holdings = w, !.cash = c].holdings = w
    OBVIOUS
  <2> QED  BY <2>1, <2>2, <2>3
<1>2. StockValue(old) \in Int /\ \A t \in DOMAIN old : old[t] \in Holding
  BY HoldingsAreSummed
<1>3. h[s] = x
  BY <1>1 DEF With
<1>4. CASE s \in DOMAIN old
  <2> DEFINE y == old[s]
  <2>1. y \in Holding /\ x = [y EXCEPT !.amount = @ + amount]
    BY <1>2, <1>4
  <2> HIDE DEF x, y, h, old
  <2>2. y.amount \in Int /\ y.price \in Nat /\ x.price = y.price /\ x.amount = y.amount + amount
        /\ x \in Holding
    BY <2>1 DEF Holding
  <2>3. ValueOf(x) = ValueOf(y) + Value(amount, x.price)
    <3>1. Value(y.amount + amount, y.price) = Value(y.amount, y.price) + Value(amount, y.price)
      BY <2>2, ValueAdds
    <3> QED  BY <2>2, <3>1 DEF ValueOf
  <2>4. AreCounted(h) /\ StockValue(h) = StockValue(old) - ValueOf(y) + ValueOf(x)
    BY <1>1, <1>4, <2>2, ValueWith DEF y, old
  <2>5. ValueOf(y) \in Int /\ Value(amount, x.price) \in Int
    BY <2>2, ValueType DEF ValueOf
  <2>6. StockValue(h) = StockValue(old) + Value(amount, x.price)
    BY <1>2, <2>3, <2>4, <2>5
  <2> QED  BY <1>3, <2>2, <2>4, <2>6 DEF h, old
<1>5. CASE s \notin DOMAIN old
  <2>1. x = [amount |-> amount, price |-> price]
    BY <1>5
  <2> HIDE DEF x, h, old
  <2>2. x \in Holding /\ x.amount = amount /\ x.price = price
    BY <2>1 DEF Holding
  <2>3. AreCounted(h) /\ StockValue(h) = StockValue(old) + ValueOf(x)
    BY <1>1, <1>5, <2>2, ValueWithNew DEF old
  <2>4. ValueOf(x) = Value(amount, x.price)
    BY <2>2 DEF ValueOf
  <2> QED  BY <1>3, <2>2, <2>3, <2>4 DEF h, old
<1> QED  BY <1>4, <1>5

\* A value that is a hundred-thousandth of another, or less.
Small(x, of) == Precision * x <= of /\ -(Precision * x) <= of

\* So the one is within the quotient of the other.
LEMMA SmallIsWithin ==
  ASSUME NEW x \in Int, NEW of \in Nat, Small(x, of)
  PROVE  x \in -(of \div Precision) .. of \div Precision
<1> DEFINE q == of \div 100000
<1>1. q \in Int /\ of < 100000 * q + 100000
  OBVIOUS
<1>2. 100000 * x <= of /\ -(100000 * x) <= of
  BY DEF Small, Precision
<1> HIDE DEF q
<1>3. x <= q /\ -q <= x
  BY <1>1, <1>2
<1> QED  BY <1>1, <1>3 DEF q, Precision

\* Amounts that are close differ in value by little.
LEMMA CloseValue ==
  ASSUME NEW held \in Int, NEW amount \in Nat, IsClose(held, amount), NEW price \in Nat
  PROVE  Small(Value(amount - held, price), Value(amount, price))
<1> DEFINE q == amount \div 100000
           d == amount - held
           k == Scale * price
<1>1. q \in Int /\ 100000 * q <= amount
  OBVIOUS
<1>2. held - amount \in -q .. q
  BY DEF IsClose, Tolerance, Precision
<1> HIDE DEF q
<1>3. d \in Int /\ 100000 * d <= amount /\ -(100000 * d) <= amount
  BY <1>1, <1>2
<1>4. k \in Nat /\ Scale \in Nat
  <2>1. Scale \in Nat
    BY DealingAssumption
  <2> QED  BY <2>1
<1>5. Value(amount, price) = k * amount /\ Value(d, price) = k * d
  <2> HIDE DEF d
  <2> QED  BY <1>3, <1>4 DEF Value, k
<1> HIDE DEF d, k
<1>6. k * (100000 * d) <= k * amount /\ k * (-(100000 * d)) <= k * amount
  <2>1. 100000 * d \in Int /\ -(100000 * d) \in Int
    BY <1>3
  <2> QED  BY <1>3, <1>4, <2>1, Products
<1>7. 100000 * (k * d) = k * (100000 * d) /\ -(100000 * (k * d)) = k * (-(100000 * d))
  BY <1>3, <1>4
<1> QED  BY <1>5, <1>6, <1>7 DEF Small, Precision, d

\* A sale takes the amount sold away at that price, and the rest with it when
\* it was of about everything.
LEMMA ReducedValue ==
  ASSUME NEW holdings, AreCounted(holdings), NEW s \in DOMAIN holdings, NEW amount \in Nat
  PROVE  LET h == Reduced(holdings, s, amount)
             off == SellsOff(holdings, s, amount)
             price == holdings[s].price
         IN /\ AreCounted(h) /\ price \in Nat
            /\ \E x \in Int :
                 /\ StockValue(h) = StockValue(holdings) - Value(amount, price) + x
                 /\ Small(x, IF off THEN Value(amount, price) ELSE 0)
<1> DEFINE y == holdings[s]
           x == [y EXCEPT !.amount = @ - amount]
           h == Reduced(holdings, s, amount)
           rest == Value(amount - y.amount, y.price)
<1>1. StockValue(holdings) \in Int /\ y \in Holding
  BY HoldingsAreSummed
<1>2. /\ y.amount \in Int /\ y.price \in Nat /\ x.price = y.price
      /\ x.amount = y.amount - amount /\ x \in Holding
  <2> HIDE DEF y
  <2> QED  BY <1>1 DEF Holding
<1>3. CASE SellsOff(holdings, s, amount)
  <2>1. h = Without(holdings, s)
    BY <1>3 DEF Reduced
  <2>2. rest = Value(amount, y.price) - ValueOf(y)
    BY <1>2, ValueAdds DEF ValueOf
  <2>3. Small(rest, Value(amount, y.price))
    BY <1>2, <1>3, CloseValue DEF SellsOff
  <2>4. AreCounted(h) /\ StockValue(h) = StockValue(holdings) - ValueOf(y)
    BY <2>1, ValueWithout
  <2>5. ValueOf(y) \in Int /\ Value(amount, y.price) \in Int /\ rest \in Int
    <3> HIDE DEF y
    <3>1. amount \in Int /\ amount - y.amount \in Int
      BY <1>2
    <3>2. ValueOf(y) \in Int /\ Value(amount, y.price) \in Int
      BY <1>2, <3>1, ValueType DEF ValueOf
    <3>3. rest \in Int
      BY <1>2, <3>1, ValueType
    <3> QED  BY <3>2, <3>3
  <2> HIDE DEF h, y, rest
  <2>6. StockValue(h) = StockValue(holdings) - Value(amount, y.price) + rest
    BY <1>1, <2>2, <2>4, <2>5
  <2> QED  BY <1>2, <1>3, <2>3, <2>4, <2>5, <2>6 DEF h, y
<1>4. CASE ~SellsOff(holdings, s, amount)
  <2>1. h = With(holdings, s, x)
    BY <1>4 DEF Reduced
  <2> HIDE DEF h, x
  <2>2. AreCounted(h) /\ StockValue(h) = StockValue(holdings) - ValueOf(y) + ValueOf(x)
    BY <1>2, <2>1, ValueWith
  <2> HIDE DEF y
  <2>3. ValueOf(x) = ValueOf(y) - Value(amount, y.price)
    <3>1. amount \in Int
      OBVIOUS
    <3>2. Value(y.amount - amount, y.price) = Value(y.amount, y.price) - Value(amount, y.price)
      BY <1>2, <3>1, ValueAdds
    <3> QED  BY <1>2, <3>2 DEF ValueOf
  <2>4. ValueOf(y) \in Int /\ Value(amount, y.price) \in Int
    BY <1>2, ValueType DEF ValueOf
  <2>5. StockValue(h) = StockValue(holdings) - Value(amount, y.price) + 0
    BY <1>1, <2>2, <2>3, <2>4
  <2>6. Small(0, 0)
    BY DEF Small, Precision
  <2> QED  BY <1>2, <1>4, <2>2, <2>5, <2>6 DEF h, y
<1> QED  BY <1>3, <1>4

\* Closing prices are prices of the same holdings (update_current_position).
LEMMA AtCloseIsCounted ==
  ASSUME NEW holdings, AreCounted(holdings), market \in [Stocks -> Quotes]
  PROVE  AreCounted(AtClose(holdings))
<1> DEFINE h == AtClose(holdings)
<1>1. DOMAIN h = DOMAIN holdings
  BY DEF AtClose
<1>2. ASSUME NEW s \in DOMAIN holdings PROVE h[s] \in Holding
  <2>1. holdings[s] \in Holding /\ s \in Stocks
    BY HoldingsAreSummed DEF AreCounted, AreHoldings
  <2>2. market[s].close \in Nat
    <3>1. market[s] \in Quotes
      BY <2>1
    <3> QED  BY <3>1 DEF Quotes
  <2>3. h[s] \in {holdings[s], [holdings[s] EXCEPT !.price = market[s].close]}
    BY DEF AtClose
  <2>4. [holdings[s] EXCEPT !.price = market[s].close] \in Holding
    BY <2>1, <2>2 DEF Holding
  <2> QED  BY <2>1, <2>3, <2>4
<1>3. h \in [DOMAIN h -> Holding]
  BY <1>1, <1>2 DEF AtClose
<1> HIDE DEF h
<1> QED  BY <1>1, <1>3 DEF AreCounted, AreHoldings, h

-----------------------------------------------------------------------------
(* The account explains the position.                                      *)

\* Until more is sold of a stock than is held: what is summed up are integers,
\* and nothing is held back between two bars.
HeldInv ==
  failure # "oversell" =>
    /\ AreCounted(position.holdings)
    /\ account = [returns |-> account.returns, cost |-> account.cost,
                  turnover |-> account.turnover, last |-> account.last]
    /\ account.returns \in Int /\ account.cost \in Int /\ marked \in Int /\ soldOff \in Nat
    /\ market = None => position.delayed = None

\* What is not explained is a hundred-thousandth of what was sold off, at most.
GapInv == config.metrics /\ failure # "oversell" => Small(Unexplained, soldOff)

ExplainInv == HeldInv /\ GapInv

LEMMA CashType ==
  ASSUME PositionInv
  PROVE  /\ Cash(position) \in Int
         /\ position.delayed = None => Cash(position) = position.cash
         /\ position.delayed # None => /\ position.delayed \in Int
                                       /\ Cash(position) = position.cash + position.delayed
BY DEF PositionInv, Cash

\* What is not explained is an integer as well.
LEMMA GapType ==
  ASSUME PositionInv, HeldInv, failure # "oversell"
  PROVE  TotalValue(position) \in Int /\ Unexplained \in Int
<1>1. StockValue(position.holdings) \in Int
  BY HoldingsAreSummed DEF HeldInv
<1>2. Cash(position) \in Int
  BY CashType
<1>3. TotalValue(position) \in Int
  BY <1>1, <1>2 DEF TotalValue
<1> QED  BY <1>3 DEF Unexplained, HeldInv

\* The property is the invariant without a product.
LEMMA GapIsWithin == PositionInv /\ ExplainInv => ValueExplained
BY GapType, SmallIsWithin DEF ExplainInv, HeldInv, GapInv, ValueExplained

LEMMA BeginsExplained == Init => ExplainInv
<1> SUFFICES ASSUME Init PROVE ExplainInv
  OBVIOUS
<1>1. PICK p \in Portfolios :
        /\ position = [holdings |-> p.holdings, cash |-> p.cash, delayed |-> None,
                       settle |-> "None"]
        /\ account = [returns |-> 0, cost |-> 0, turnover |-> 0, last |-> p.cash]
        /\ marked = TotalValue(position) /\ soldOff = 0
  BY DEF Init
<1>2. position.holdings = p.holdings /\ position.cash = p.cash /\ position.delayed = None
  BY <1>1
<1>3. AreCounted(p.holdings) /\ p.cash \in Nat
  BY PortfolioAssumption DEF AreCounted
<1>4. StockValue(p.holdings) \in Int
  BY <1>3, HoldingsAreSummed
<1>5. TotalValue(position) \in Int
  BY <1>2, <1>3, <1>4 DEF TotalValue, Cash
<1>6. /\ account = [returns |-> account.returns, cost |-> account.cost,
                    turnover |-> account.turnover, last |-> account.last]
      /\ account.returns = 0 /\ account.cost = 0
  BY <1>1
<1>7. Unexplained = 0 /\ Small(0, 0)
  BY <1>1, <1>5, <1>6 DEF Unexplained, Small, Precision
<1> QED  BY <1>1, <1>2, <1>3, <1>5, <1>6, <1>7 DEF ExplainInv, HeldInv, GapInv

\* What an execution adds to the account (update_state_from_order).
LEMMA BookedIs ==
  ASSUME account = [returns |-> account.returns, cost |-> account.cost,
                    turnover |-> account.turnover, last |-> account.last],
         account.returns \in Int, account.cost \in Int,
         NEW amount \in Int, NEW price \in Nat, NEW fee \in Int, NEW stockPrice \in Nat,
         account' = Booked(account, Order, amount, price, fee, stockPrice)
  PROVE  /\ account' = [returns |-> account'.returns, cost |-> account'.cost,
                        turnover |-> account'.turnover, last |-> account'.last]
         /\ account'.returns \in Int /\ account'.cost \in Int
         /\ config.metrics =>
              /\ account'.returns
                   = account.returns
                     + (IF Order.direction = "buy"
                        THEN Value(amount, stockPrice) - Value(amount, price)
                        ELSE Value(amount, price) - Value(amount, stockPrice))
              /\ account'.cost = account.cost + fee
<1> DEFINE profit == Value(amount, stockPrice) - Value(amount, price)
           more == IF Order.direction = "buy" THEN profit ELSE -profit
           turned == account.turnover + Value(amount, price)
<1>1. more \in Int /\ more = IF Order.direction = "buy"
                             THEN Value(amount, stockPrice) - Value(amount, price)
                             ELSE Value(amount, price) - Value(amount, stockPrice)
  <2>1. Value(amount, stockPrice) \in Int /\ Value(amount, price) \in Int
    BY ValueType
  <2> QED  BY <2>1
<1>2. CASE ~config.metrics
  <2>1. account' = account
    BY <1>2 DEF Booked
  <2> QED  BY <1>2, <2>1
<1>3. CASE config.metrics
  <2> DEFINE cost == account.cost + fee
             returns == account.returns + more
  <2>1. account' = [account EXCEPT !.turnover = turned, !.cost = cost, !.returns = returns]
    BY <1>3 DEF Booked
  <2>2. cost \in Int /\ returns \in Int
    BY <1>1
  <2> HIDE DEF turned, cost, returns
  <2>3. /\ account' = [returns |-> account'.returns, cost |-> account'.cost,
                       turnover |-> account'.turnover, last |-> account'.last]
        /\ account'.returns = returns /\ account'.cost = cost
    BY <2>1
  <2> HIDE DEF more
  <2> QED  BY <1>1, <2>2, <2>3 DEF cost, returns
<1> QED  BY <1>2, <1>3

\* A purchase: what is paid becomes the value of the stock, a return and a cost.
LEMMA BuyExplains ==
  ASSUME CashInv, ExplainInv, NEW impact \in Impacts, Buy(impact)
  PROVE  ExplainInv'
<1> DEFINE rate == Rate(impact)
           amount == Amount(Order, Quote, rate)
           fee == Fee(amount, Price, rate)
           s == Order.stock
<1>1. PositionInv /\ BatchInv /\ Turn
  BY DEF CashInv, Buy, Deals
<1>2. /\ rate \in Nat /\ Price \in Nat \ {0} /\ config.minimum \in Nat /\ Order.direction = "buy"
      /\ position.cash \in Int /\ s \in Stocks
  BY <1>1, OrderIsTyped DEF Buy, PositionInv
<1>3. LimitFails = "none" /\ ~(rate = 0 /\ CashLimited(Clipped(Order, Quote), Price, rate))
  BY <1>2 DEF Buy, Deals, Reason
<1>4. Clipped(Order, Quote) \in Int
  BY <1>1, <1>3, ClippedIsTyped
<1>5. amount = BuyAmount(Clipped(Order, Quote), Price, rate)
  BY <1>2 DEF Amount, Price
<1>6. /\ position' = Bought(position, s, amount, Price, fee)
      /\ account' = Booked(account, Order, amount, Price, fee, position'.holdings[s].price)
      /\ UNCHANGED <<market, failure, config, marked, soldOff>>
  BY DEF Buy, Records
<1> HIDE DEF rate, amount
<1>7. amount \in Int
  BY <1>2, <1>3, <1>4, <1>5, BuyCovers
<1>8. fee \in Int /\ Value(amount, Price) \in Int
  <2>1. Price \in Nat
    BY <1>2
  <2> QED  BY <1>2, <1>7, <2>1, FeeIs
<1>9. failure = "none" /\ market # None
  BY <1>1 DEF Turn
<1>10. /\ AreCounted(position.holdings)
       /\ account = [returns |-> account.returns, cost |-> account.cost,
                     turnover |-> account.turnover, last |-> account.last]
       /\ account.returns \in Int /\ account.cost \in Int /\ marked \in Int /\ soldOff \in Nat
       /\ config.metrics => Small(Unexplained, soldOff)
  BY <1>9 DEF ExplainInv, HeldInv, GapInv
<1>11. /\ position'.cash = position.cash - (Value(amount, Price) + fee)
       /\ position'.delayed = position.delayed
  <2> HIDE DEF fee
  <2> QED  BY <1>1, <1>6, BoughtIs DEF PositionInv
<1> DEFINE price == position'.holdings[s].price
<1>12. /\ AreCounted(position'.holdings) /\ price \in Nat
       /\ StockValue(position'.holdings)
            = StockValue(position.holdings) + Value(amount, price)
  <2>1. Price \in Nat
    BY <1>2
  <2> HIDE DEF fee, s
  <2> QED  BY <1>1, <1>2, <1>6, <1>7, <1>10, <2>1, BoughtValue DEF PositionInv
<1> HIDE DEF price, fee, s
<1>13. Price \in Nat
  BY <1>2
<1>14. /\ account' = [returns |-> account'.returns, cost |-> account'.cost,
                      turnover |-> account'.turnover, last |-> account'.last]
       /\ account'.returns \in Int /\ account'.cost \in Int
       /\ config.metrics =>
            /\ account'.returns
                 = account.returns + (Value(amount, price) - Value(amount, Price))
            /\ account'.cost = account.cost + fee
  <2>1. account' = Booked(account, Order, amount, Price, fee, price)
    BY <1>6 DEF price
  <2>2. Order.direction = "buy"
    BY <1>2
  <2> QED  BY <1>7, <1>8, <1>10, <1>12, <1>13, <2>1, <2>2, BookedIs
<1>15. HeldInv'
  BY <1>6, <1>9, <1>10, <1>12, <1>14 DEF HeldInv
<1>16. ASSUME config.metrics
       PROVE  Unexplained' = Unexplained
  <2>1. TotalValue(position') = StockValue(position'.holdings) + Cash(position')
        /\ TotalValue(position) = StockValue(position.holdings) + Cash(position)
    BY DEF TotalValue
  <2>2. /\ Cash(position') = Cash(position) - (Value(amount, Price) + fee)
        /\ Cash(position) \in Int
    <3>1. CASE position.delayed = None
      <4>1. position'.cash \in Int
        BY <1>2, <1>8, <1>11
      <4> QED  BY <1>2, <1>8, <1>11, <3>1, <4>1 DEF Cash
    <3>2. CASE position.delayed # None
      BY <1>1, <1>2, <1>8, <1>11, <3>2, CashType DEF Cash
    <3> QED  BY <3>1, <3>2
  <2>3. StockValue(position.holdings) \in Int /\ Value(amount, price) \in Int
    BY <1>7, <1>10, <1>12, HoldingsAreSummed, ValueType
  <2>4. TotalValue(position') = TotalValue(position)
                                + (Value(amount, price) - Value(amount, Price)) - fee
        /\ TotalValue(position) \in Int
    BY <1>8, <1>12, <2>1, <2>2, <2>3
  <2>5. Unexplained' = TotalValue(position') - (marked + account'.returns - account'.cost)
    BY <1>6 DEF Unexplained
  <2> QED  BY <1>8, <1>10, <1>14, <1>16, <2>3, <2>4, <2>5 DEF Unexplained
<1>17. GapInv'
  BY <1>6, <1>10, <1>16 DEF GapInv
<1> QED  BY <1>15, <1>17 DEF ExplainInv

\* What a sale does to a position (sell_stock, record_sale_proceeds).
LEMMA SoldIs ==
  ASSUME NEW p, p = [holdings |-> p.holdings, cash |-> p.cash, delayed |-> p.delayed,
                     settle |-> p.settle],
         NEW s, NEW amount, NEW price, NEW fee
  PROVE  LET b == Sold(p, s, amount, price, fee)
             proceeds == Value(amount, price) - fee
         IN /\ b.holdings = Reduced(p.holdings, s, amount) /\ b.settle = p.settle
            /\ p.settle = "cash" => b.cash = p.cash /\ b.delayed = p.delayed + proceeds
            /\ p.settle # "cash" => b.cash = p.cash + proceeds /\ b.delayed = p.delayed
<1> DEFINE b == Sold(p, s, amount, price, fee)
           proceeds == Value(amount, price) - fee
           h == Reduced(p.holdings, s, amount)
           c == IF p.settle = "cash" THEN p.cash ELSE p.cash + proceeds
           d == IF p.settle = "cash" THEN p.delayed + proceeds ELSE p.delayed
<1>1. b = [p EXCEPT !.holdings = h, !.cash = c, !.delayed = d]
  BY DEF Sold
<1> HIDE DEF b, c, d, h
<1>2. b.holdings = h /\ b.cash = c /\ b.delayed = d /\ b.settle = p.settle
  BY <1>1
<1> QED  BY <1>2 DEF b, c, d, h

\* A sale: the value of the stock becomes proceeds, a return and a cost.
LEMMA SellExplains ==
  ASSUME CashInv, ExplainInv, NEW impact \in Impacts, Sell(impact)
  PROVE  ExplainInv'
<1> DEFINE rate == Rate(impact)
           amount == Amount(Order, Quote, rate)
           fee == Fee(amount, Price, rate)
           s == Order.stock
           price == position.holdings[s].price
<1>1. PositionInv /\ BatchInv /\ Turn
  BY DEF CashInv, Sell, Deals
<1>2. /\ rate \in Nat /\ Price \in Nat /\ config.minimum \in Nat /\ Order.direction = "sell"
      /\ position.cash \in Int
  BY <1>1, OrderIsTyped DEF Sell, PositionInv
<1>3. failure = "none" /\ market # None
  BY <1>1 DEF Turn
<1>4. /\ AreCounted(position.holdings)
      /\ account = [returns |-> account.returns, cost |-> account.cost,
                    turnover |-> account.turnover, last |-> account.last]
      /\ account.returns \in Int /\ account.cost \in Int /\ marked \in Int /\ soldOff \in Nat
      /\ config.metrics => Small(Unexplained, soldOff)
  BY <1>3 DEF ExplainInv, HeldInv, GapInv
<1>5. /\ amount \in Nat \ {0} /\ ~Exceeds(amount)
      /\ position' = Sold(position, s, amount, Price, fee)
      /\ account' = Booked(account, Order, amount, Price, fee, price)
      /\ soldOff' = soldOff + (IF SellsOff(position.holdings, s, amount)
                               THEN Value(amount, price) ELSE 0)
      /\ UNCHANGED <<market, failure, config, marked>>
  BY DEF Sell, Records
<1> HIDE DEF rate, amount
<1>6. s \in DOMAIN position.holdings
  <2>1. amount <= Held(position, s) \/ IsClose(Held(position, s), amount)
    <3>1. Held(position, s) \in Int
      BY <1>4, HoldingsAreSummed DEF Held, Holding
    <3> HIDE DEF s
    <3> QED  BY <1>5, <3>1 DEF Exceeds, s
  <2>2. ~(amount <= 0) /\ ~IsClose(0, amount)
    BY <1>5 DEF IsClose, Tolerance, Precision
  <2>3. s \notin DOMAIN position.holdings => Held(position, s) = 0
    BY DEF Held
  <2> QED  BY <2>1, <2>2, <2>3
<1>7. amount \in Int
  BY <1>5
<1>8. fee \in Int /\ Value(amount, Price) \in Int
  BY <1>2, <1>7, FeeIs
<1> DEFINE more == IF SellsOff(position.holdings, s, amount) THEN Value(amount, price) ELSE 0
<1>9. /\ AreCounted(position'.holdings) /\ price \in Nat
      /\ \E x \in Int : /\ StockValue(position'.holdings)
                             = StockValue(position.holdings) - Value(amount, price) + x
                        /\ Small(x, more)
  <2>1. position'.holdings = Reduced(position.holdings, s, amount)
    <3> HIDE DEF fee, s
    <3> QED  BY <1>1, <1>5, SoldIs DEF PositionInv
  <2> QED  BY <1>4, <1>5, <1>6, <2>1, ReducedValue
<1> HIDE DEF price, fee, s
<1>dropped. PICK dropped \in Int :
              /\ StockValue(position'.holdings)
                   = StockValue(position.holdings) - Value(amount, price) + dropped
              /\ Small(dropped, more)
  BY <1>9
<1>more. more \in Nat /\ soldOff' = soldOff + more
  <2>1. Value(amount, price) \in Nat
    BY <1>5, <1>9, DealingAssumption DEF Value
  <2> QED  BY <1>5, <2>1
<1> HIDE DEF more
<1>10. /\ position.settle = "cash" =>
            /\ position'.cash = position.cash
            /\ position'.delayed = position.delayed + (Value(amount, Price) - fee)
       /\ position.settle # "cash" =>
            /\ position'.cash = position.cash + (Value(amount, Price) - fee)
            /\ position'.delayed = position.delayed
  BY <1>1, <1>5, SoldIs DEF PositionInv
<1>11. /\ account' = [returns |-> account'.returns, cost |-> account'.cost,
                      turnover |-> account'.turnover, last |-> account'.last]
       /\ account'.returns \in Int /\ account'.cost \in Int
       /\ config.metrics =>
            /\ account'.returns
                 = account.returns + (Value(amount, Price) - Value(amount, price))
            /\ account'.cost = account.cost + fee
  <2>1. Order.direction # "buy"
    BY <1>2
  <2> QED  BY <1>2, <1>4, <1>5, <1>7, <1>8, <1>9, <2>1, BookedIs
<1>12. HeldInv'
  BY <1>3, <1>4, <1>5, <1>9, <1>11, <1>more DEF HeldInv
<1>13. ASSUME config.metrics
       PROVE  Unexplained' = Unexplained + dropped /\ Unexplained \in Int
  <2>1. TotalValue(position') = StockValue(position'.holdings) + Cash(position')
        /\ TotalValue(position) = StockValue(position.holdings) + Cash(position)
    BY DEF TotalValue
  <2>2. /\ Cash(position') = Cash(position) + (Value(amount, Price) - fee)
        /\ Cash(position) \in Int
    <3>1. CASE position.settle = "None"
      <4>1. position.delayed = None /\ position'.delayed = None
        BY <1>1, <1>10, <3>1 DEF PositionInv
      <4>2. position'.cash = position.cash + (Value(amount, Price) - fee)
        BY <1>10, <3>1
      <4> QED  BY <1>2, <1>8, <4>1, <4>2 DEF Cash
    <3>2. CASE position.settle = "cash"
      <4>1. position.delayed \in Int /\ position.delayed # None
        BY <1>1, <3>2, DealingAssumption DEF PositionInv
      <4>2. /\ position'.cash = position.cash
            /\ position'.delayed = position.delayed + (Value(amount, Price) - fee)
        BY <1>10, <3>2
      <4>3. position'.delayed \in Int /\ position'.delayed # None
        BY <1>8, <4>1, <4>2, DealingAssumption
      <4> QED  BY <1>2, <1>8, <4>1, <4>2, <4>3 DEF Cash
    <3> QED  BY <1>1, <3>1, <3>2 DEF PositionInv
  <2>3. StockValue(position.holdings) \in Int /\ Value(amount, price) \in Int
    BY <1>4, <1>7, <1>9, HoldingsAreSummed, ValueType
  <2>4. TotalValue(position') = TotalValue(position) + dropped
                                + (Value(amount, Price) - Value(amount, price)) - fee
        /\ TotalValue(position) \in Int
    BY <1>8, <1>dropped, <2>1, <2>2, <2>3
  <2>5. Unexplained' = TotalValue(position') - (marked + account'.returns - account'.cost)
    BY <1>5 DEF Unexplained
  <2> QED  BY <1>4, <1>8, <1>11, <1>13, <2>3, <2>4, <2>5 DEF Unexplained
<1>14. GapInv'
  <2> SUFFICES ASSUME config.metrics PROVE Small(Unexplained', soldOff')
    BY <1>5 DEF GapInv
  <2>1. Small(Unexplained + dropped, soldOff + more)
    BY <1>4, <1>13, <1>dropped, <1>more DEF Small, Precision
  <2> QED  BY <1>13, <1>more, <2>1
<1> QED  BY <1>12, <1>14 DEF ExplainInv

\* Every step.
LEMMA StaysExplained == CashInv /\ ExplainInv /\ [Next]_vars => ExplainInv'
<1> SUFFICES ASSUME CashInv, ExplainInv, [Next]_vars PROVE ExplainInv'
  OBVIOUS
<1>1. PositionInv /\ BatchInv
  BY DEF CashInv
<1> DEFINE Given == /\ AreCounted(position.holdings)
                    /\ account = [returns |-> account.returns, cost |-> account.cost,
                                  turnover |-> account.turnover, last |-> account.last]
                    /\ account.returns \in Int /\ account.cost \in Int /\ marked \in Int
                    /\ soldOff \in Nat /\ TotalValue(position) \in Int
                    /\ market = None => position.delayed = None
                    /\ config.metrics => Small(Unexplained, soldOff)
<1>2. failure = "none" => Given
  BY <1>1, GapType DEF ExplainInv, HeldInv, GapInv
<1>3. ASSUME NEW quotes \in Markets, NEW decision \in Decisions, OpenBar(quotes, decision)
      PROVE  ExplainInv'
  <2>1. /\ market' = quotes /\ failure = "none" /\ market = None
        /\ UNCHANGED <<account, failure, config, marked, soldOff>>
        /\ position' = IF config.settle = "cash"
                       THEN [position EXCEPT !.settle = "cash", !.delayed = 0] ELSE position
    BY <1>3 DEF OpenBar
  <2>2. Given
    BY <1>2, <2>1
  <2>3. /\ position'.holdings = position.holdings /\ position'.cash = position.cash
        /\ position'.delayed \in {None, 0}
    BY <1>1, <2>1, <2>2 DEF PositionInv
  <2>4. market' # None
    BY <2>1, DealingAssumption
  <2>5. TotalValue(position') = TotalValue(position)
    BY <1>1, <2>1, <2>2, <2>3 DEF TotalValue, Cash, PositionInv
  <2>6. Unexplained' = Unexplained
    BY <2>1, <2>5 DEF Unexplained
  <2> QED  BY <2>1, <2>2, <2>3, <2>4, <2>6 DEF ExplainInv, HeldInv, GapInv
<1>4. ASSUME UNCHANGED <<position, account, config, marked, soldOff, market>>, failure = "none",
             failure' # "oversell"
      PROVE  ExplainInv'
  <2>1. Unexplained' = Unexplained
    BY <1>4 DEF Unexplained, TotalValue, Cash, StockValue
  <2> QED  BY <1>2, <1>4, <2>1 DEF ExplainInv, HeldInv, GapInv
<1>5. ASSUME Untradable \/ \E impact \in Impacts : Refuse(impact) \/ Nothing(impact)
      PROVE  ExplainInv'
  BY <1>4, <1>5 DEF Untradable, Refuse, Nothing, Records, Deals, Turn, Reason, LimitFails
<1>6. ASSUME NEW impact \in Impacts, Oversell(impact) PROVE ExplainInv'
  BY <1>6 DEF Oversell, ExplainInv, HeldInv, GapInv
<1>7. ASSUME NEW impact \in Impacts, Buy(impact) \/ Sell(impact) PROVE ExplainInv'
  BY <1>7, BuyExplains, SellExplains
<1> DEFINE p == [position EXCEPT !.holdings = AtClose(@)]
<1>8. ASSUME CloseBar \/ CloseFails
      PROVE  /\ Given /\ failure = "none" /\ market # None
             /\ p = [holdings |-> AtClose(position.holdings), cash |-> position.cash,
                     delayed |-> position.delayed, settle |-> position.settle]
             /\ AreCounted(AtClose(position.holdings))
             /\ StockValue(AtClose(position.holdings)) \in Int
             /\ StockValue(position.holdings) \in Int
             /\ Cash(p) = Cash(position) /\ Cash(p) \in Int
  <2>1. failure = "none" /\ market # None
    BY <1>8 DEF CloseBar, CloseFails, Closing
  <2>2. p = [holdings |-> AtClose(position.holdings), cash |-> position.cash,
             delayed |-> position.delayed, settle |-> position.settle]
    BY <1>1 DEF PositionInv
  <2>3. market \in [Stocks -> Quotes]
    BY <1>1, <2>1, DealingAssumption DEF BatchInv
  <2>4. AreCounted(AtClose(position.holdings))
    BY <1>2, <2>1, <2>3, AtCloseIsCounted
  <2>5. Cash(p) = Cash(position)
    <3> HIDE DEF p
    <3> QED  BY <2>2 DEF Cash
  <2> HIDE DEF p
  <2> QED  BY <1>1, <1>2, <2>1, <2>2, <2>4, <2>5, CashType, HoldingsAreSummed
<1>9. CASE CloseBar
  <2>1. /\ account' = IF config.metrics THEN [account EXCEPT !.last = TotalValue(p)] ELSE account
        /\ position' = [p EXCEPT !.cash = Cash(p), !.delayed = None, !.settle = "None"]
        /\ marked' = marked + StockValue(p.holdings) - StockValue(position.holdings)
        /\ UNCHANGED <<failure, config, soldOff>>
    BY <1>9 DEF CloseBar, Marks
  <2> HIDE DEF p
  <2>2. /\ p.holdings = AtClose(position.holdings)
        /\ position'.holdings = AtClose(position.holdings)
        /\ position'.cash = Cash(position) /\ position'.delayed = None
    BY <1>8, <1>9, <2>1
  <2>3. /\ account'.returns = account.returns /\ account'.cost = account.cost
        /\ account' = [returns |-> account'.returns, cost |-> account'.cost,
                       turnover |-> account'.turnover, last |-> account'.last]
    BY <1>8, <1>9, <2>1
  <2>4. marked' \in Int
        /\ Unexplained' = Unexplained
    <3>1. TotalValue(position') = StockValue(AtClose(position.holdings)) + Cash(position)
      BY <2>2, <1>8, <1>9 DEF TotalValue, Cash
    <3>2. TotalValue(position) = StockValue(position.holdings) + Cash(position)
      BY DEF TotalValue
    <3>3. Unexplained' = TotalValue(position') - (marked' + account'.returns - account'.cost)
      BY DEF Unexplained
    <3> QED  BY <1>8, <1>9, <2>1, <2>2, <2>3, <3>1, <3>2, <3>3 DEF Unexplained
  <2> QED  BY <1>8, <1>9, <2>1, <2>2, <2>3, <2>4 DEF ExplainInv, HeldInv, GapInv
<1>10. CASE CloseFails
  <2>1. /\ position' = p /\ UNCHANGED <<account, config, market, soldOff>> /\ failure' = "value"
        /\ marked' = marked + StockValue(position'.holdings) - StockValue(position.holdings)
    BY <1>10 DEF CloseFails, Marks
  <2> HIDE DEF p
  <2>2. position'.holdings = AtClose(position.holdings) /\ position'.delayed = position.delayed
    BY <1>8, <1>10, <2>1
  <2>3. marked' \in Int
        /\ Unexplained' = Unexplained
    <3>1. TotalValue(position') = StockValue(AtClose(position.holdings)) + Cash(position)
      BY <1>8, <1>10, <2>1, <2>2 DEF TotalValue
    <3>2. TotalValue(position) = StockValue(position.holdings) + Cash(position)
      BY DEF TotalValue
    <3>3. Unexplained' = TotalValue(position') - (marked' + account'.returns - account'.cost)
      BY DEF Unexplained
    <3> QED  BY <1>8, <1>10, <2>1, <2>2, <3>1, <3>2, <3>3 DEF Unexplained
  <2> QED  BY <1>8, <1>10, <2>1, <2>2, <2>3 DEF ExplainInv, HeldInv, GapInv
<1>11. CASE UNCHANGED vars
  BY <1>11 DEF vars, ExplainInv, HeldInv, GapInv, Unexplained, TotalValue, Cash, StockValue
<1> QED  BY <1>3, <1>5, <1>6, <1>7, <1>9, <1>10, <1>11 DEF Next

-----------------------------------------------------------------------------
(* Proceeds wait.                                                          *)

\* A finite set of integers that is not empty has a greatest element.
LEMMA GreatestOf ==
  ASSUME NEW S, IsFiniteSet(S), S \subseteq Int, S # {}
  PROVE  Max(S) \in S /\ \A x \in S : Max(S) >= x
<1> DEFINE Tops(T) == \E x \in T : \A y \in T : x >= y
           Good == {n \in Nat : \A T \in SUBSET S : Cardinality(T) = n + 1 => Tops(T)}
<1>1. \A T \in SUBSET S : IsFiniteSet(T) /\ Cardinality(T) \in Nat
  BY FS_Subset, FS_CardinalityType
<1>2. 0 \in Good
  <2> SUFFICES ASSUME NEW T \in SUBSET S, Cardinality(T) = 1 PROVE Tops(T)
    OBVIOUS
  <2>1. PICK x : T = {x}
    BY <1>1, FS_Singleton
  <2> QED  BY <2>1
<1>3. ASSUME NEW n \in Nat, n \in Good PROVE n + 1 \in Good
  <2> SUFFICES ASSUME NEW T \in SUBSET S, Cardinality(T) = (n + 1) + 1 PROVE Tops(T)
    BY <1>3
  <2>1. T # {}
    <3>1. (n + 1) + 1 # 0
      OBVIOUS
    <3> QED  BY <3>1, FS_EmptySet
  <2>2. PICK x \in T : TRUE
    BY <2>1
  <2>3. Cardinality(T \ {x}) = Cardinality(T) - 1
    BY <1>1, <2>2, FS_RemoveElement
  <2>4. Cardinality(T \ {x}) = n + 1
    BY <2>3
  <2>5. PICK y \in T \ {x} : \A z \in T \ {x} : y >= z
    BY <1>3, <2>4
  <2>6. x \in Int /\ y \in Int /\ \A z \in T : z \in Int
    BY <2>2, <2>5
  <2>7. CASE x >= y
    <3>1. \A z \in T : x >= z
      BY <2>5, <2>6, <2>7
    <3> QED  BY <2>2, <3>1
  <2>8. CASE y >= x
    <3>1. \A z \in T : y >= z
      BY <2>5, <2>6, <2>8
    <3> QED  BY <2>5, <3>1
  <2> QED  BY <2>6, <2>7, <2>8
<1>4. Nat \subseteq Good
  <2> HIDE DEF Good
  <2> QED  BY <1>2, <1>3, AllNumbers
<1>5. Cardinality(S) - 1 \in Nat /\ (Cardinality(S) - 1) + 1 = Cardinality(S)
  <2>1. Cardinality(S) # 0 /\ Cardinality(S) \in Nat
    BY <1>1, FS_EmptySet
  <2> QED  BY <2>1
<1>6. Tops(S)
  BY <1>4, <1>5
<1> QED  BY <1>6 DEF Max

\* What an order that is done with adds to the executions.
LEMMA FilledIs ==
  ASSUME BatchInv, Turn, NEW amount \in Int, NEW rate \in Nat, Records(amount, rate)
  PROVE  LET n == Len(fills) + 1
         IN /\ Len(fills) \in Nat /\ DOMAIN fills = 1 .. Len(fills)
            /\ DOMAIN fills' = DOMAIN fills \cup {n} /\ n \notin DOMAIN fills
            /\ \A i \in DOMAIN fills : fills'[i] = fills[i] /\ fills[i] \in FillTypes
            /\ fills'[n] \in FillTypes
            /\ fills'[n].bar = bar /\ fills'[n].stock = Order.stock
            /\ fills'[n].direction = Order.direction /\ fills'[n].amount = amount
            /\ fills'[n].capacity = Quote.capacity
            /\ fills'[n].spent = Value(amount, Price) + Paid(amount, Price, rate)
            /\ fills'[n].tick = Tick(Price, rate)
<1> DEFINE n == Len(fills) + 1
           fill == [bar |-> bar, stock |-> Order.stock, direction |-> Order.direction,
                    amount |-> amount, capacity |-> Quote.capacity,
                    spent |-> Value(amount, Price) + Paid(amount, Price, rate),
                    tick |-> Correction * (Scale + rate) * Price]
<1>1. fills \in Seq(FillTypes) /\ fills' \in Seq(FillTypes)
  BY RecordsKeeps DEF BatchInv
<1>2. fills' = Append(fills, fill)
  BY DEF Records
<1>3. /\ fill.bar = bar /\ fill.stock = Order.stock
      /\ fill.direction = Order.direction /\ fill.amount = amount
      /\ fill.capacity = Quote.capacity
      /\ fill.spent = Value(amount, Price) + Paid(amount, Price, rate)
      /\ fill.tick = Tick(Price, rate)
  BY DEF Tick
<1> HIDE DEF fill
<1>4. /\ Len(fills) \in Nat /\ DOMAIN fills = 1 .. Len(fills)
      /\ DOMAIN fills' = 1 .. n /\ fills'[n] = fill
      /\ \A i \in DOMAIN fills : fills'[i] = fills[i] /\ fills[i] \in FillTypes
  BY <1>1, <1>2
<1>5. n \in DOMAIN fills' /\ fills'[n] \in FillTypes
  BY <1>1, <1>4
<1>6. 1 .. n = (1 .. Len(fills)) \cup {n} /\ n \notin 1 .. Len(fills)
  BY <1>4
<1> QED  BY <1>3, <1>4, <1>5, <1>6

\* The purchases of the bar, and what was spent on them.
Purchases == {i \in DOMAIN fills : /\ fills[i].bar = bar /\ fills[i].amount > 0
                                   /\ fills[i].direction = "buy"}
Spent == SumFunction([i \in Purchases |-> fills[i].spent])

\* Nothing but purchases changes the cash: while settlement is open, or as long
\* as there is a purchase to come in parallel mode.
Unsold == /\ market # None
          /\ \/ config.settle = "cash"
             \/ config.parallel /\ \E i \in todo : orders[i].direction = "buy"

WaitInv ==
  /\ opening \in Int
  /\ \A i \in DOMAIN fills : fills[i].bar <= bar /\ (market = None => fills[i].bar < bar)
  /\ config.settle = "cash" /\ market # None => position.settle = "cash"
  /\ Unsold => position.cash = opening - Spent
  /\ ProceedsWait

LEMMA PurchasesAreSummed ==
  ASSUME BatchInv
  PROVE  /\ IsFiniteSet(Purchases)
         /\ Summable([i \in Purchases |-> fills[i].spent], Purchases)
         /\ Spent \in Int
         /\ IsFiniteSet({fills[i].tick : i \in Purchases})
         /\ {fills[i].tick : i \in Purchases} \subseteq Int
<1> DEFINE f == [i \in Purchases |-> fills[i].spent]
<1>1. /\ Purchases \subseteq 1 .. Len(fills) /\ Len(fills) \in Nat
      /\ \A i \in Purchases : fills[i] \in FillTypes
  BY DEF BatchInv, Purchases
<1>2. IsFiniteSet(Purchases)
  <2>1. IsFiniteSet(1 .. Len(fills))
    BY <1>1, FS_Interval
  <2> QED  BY <1>1, <2>1, FS_Subset
<1>3. \A i \in Purchases : fills[i].spent \in Int /\ fills[i].tick \in Int
  BY <1>1 DEF FillTypes
<1>4. Summable(f, Purchases)
  BY <1>2, <1>3 DEF Summable
<1>5. SumFunctionOnSet(f, Purchases) \in Int
  BY <1>4, SumType
<1>6. Spent \in Int
  BY <1>5 DEF Spent, SumFunction
<1>7. IsFiniteSet({fills[i].tick : i \in Purchases})
  <2> DEFINE ticks == {fills[i].tick : i \in Purchases}
             tick == [i \in Purchases |-> fills[i].tick]
  <2>1. tick \in [Purchases -> ticks] /\ \A t \in ticks : \E i \in Purchases : tick[i] = t
    OBVIOUS
  <2> HIDE DEF tick, ticks
  <2>2. tick \in Surjection(Purchases, ticks)
    BY <2>1 DEF Surjection
  <2>3. IsFiniteSet(ticks)
    BY <1>2, <2>2, FS_Surjection
  <2> QED  BY <2>3 DEF ticks
<1> QED  BY <1>2, <1>3, <1>4, <1>6, <1>7

\* Where the purchases stay, so does what was spent and what it may be.
LEMMA SpentStays ==
  ASSUME Purchases' = Purchases, \A i \in Purchases : fills'[i] = fills[i]
  PROVE  /\ Spent' = Spent
         /\ ProceedsWait /\ UNCHANGED <<opening, config>> => ProceedsWait'
<1>1. Spent' = Spent
  BY DEF Spent
<1>2. {fills'[i].tick : i \in Purchases'} = {fills[i].tick : i \in Purchases}
  OBVIOUS
<1>3. /\ ProceedsWait = (config.parallel \/ config.settle = "cash" =>
                           Purchases = {}
                             \/ Spent <= opening + Max({fills[i].tick : i \in Purchases}))
      /\ ProceedsWait' = (config'.parallel \/ config'.settle = "cash" =>
                           Purchases' = {}
                             \/ Spent' <= opening' + Max({fills'[i].tick : i \in Purchases'}))
  BY DEF ProceedsWait, Spent, Purchases
<1> QED  BY <1>1, <1>2, <1>3

\* An execution that is no purchase leaves the purchases alone.
LEMMA NoPurchase ==
  ASSUME BatchInv, Turn, NEW amount \in Int, NEW rate \in Nat, Records(amount, rate),
         amount = 0 \/ Order.direction # "buy"
  PROVE  Purchases' = Purchases /\ \A i \in Purchases : fills'[i] = fills[i]
<1>1. bar' = bar
  BY DEF Records
<1> DEFINE n == Len(fills) + 1
<1>2. /\ DOMAIN fills' = DOMAIN fills \cup {n}
      /\ \A i \in DOMAIN fills : fills'[i] = fills[i]
      /\ fills'[n].direction = Order.direction /\ fills'[n].amount = amount
  BY FilledIs
<1> HIDE DEF n
<1>3. ~(fills'[n].amount > 0 /\ fills'[n].direction = "buy")
  BY <1>2
<1> QED  BY <1>1, <1>2, <1>3 DEF Purchases

\* A purchase adds what it costs.
LEMMA PurchaseIsSpent ==
  ASSUME BatchInv, Turn, NEW amount \in Nat \ {0}, NEW rate \in Nat, Records(amount, rate),
         Order.direction = "buy"
  PROVE  /\ Spent' = Spent + (Value(amount, Price) + Fee(amount, Price, rate))
         /\ {fills'[i].tick : i \in Purchases'}
              = {fills[i].tick : i \in Purchases} \cup {Tick(Price, rate)}
<1> DEFINE n == Len(fills) + 1
           f == [i \in Purchases |-> fills[i].spent]
           g == [i \in Purchases' |-> fills'[i].spent]
<1>1. bar' = bar /\ amount \in Int
  BY DEF Records
<1>2. /\ DOMAIN fills' = DOMAIN fills \cup {n} /\ n \notin DOMAIN fills
      /\ \A i \in DOMAIN fills : fills'[i] = fills[i]
      /\ fills'[n] \in FillTypes
      /\ fills'[n].bar = bar
      /\ fills'[n].direction = Order.direction /\ fills'[n].amount = amount
      /\ fills'[n].spent = Value(amount, Price) + Paid(amount, Price, rate)
      /\ fills'[n].tick = Tick(Price, rate)
  BY <1>1, FilledIs
<1> HIDE DEF n
<1>3. Purchases' = Purchases \cup {n} /\ n \notin Purchases
  BY <1>1, <1>2 DEF Purchases
<1>4. \A i \in Purchases : fills'[i] = fills[i]
  BY <1>2 DEF Purchases
<1>5. Summable(f, Purchases)
  BY PurchasesAreSummed
<1>6. fills'[n].spent \in Int
  BY <1>2 DEF FillTypes
<1>7. /\ SumFunction(f) = SumFunctionOnSet(f, Purchases)
      /\ SumFunction(g) = SumFunctionOnSet(g, Purchases \cup {n})
      /\ g[n] = fills'[n].spent /\ g[n] \in Int
      /\ \A i \in Purchases : g[i] = f[i]
  BY <1>3, <1>4, <1>6 DEF SumFunction
<1> HIDE DEF f, g
<1>8. SumFunctionOnSet(g, Purchases \cup {n}) = SumFunctionOnSet(f, Purchases) + g[n]
  <2>1. n \notin Purchases
    BY <1>3
  <2>2. g[n] \in Int
    BY <1>7
  <2>3. \A i \in Purchases : g[i] = f[i]
    BY <1>7
  <2>4. Summable(g, Purchases)
    BY <1>5, <2>3 DEF Summable
  <2>5. SumFunctionOnSet(g, Purchases) = SumFunctionOnSet(f, Purchases)
    BY <1>5, <2>3, SameSum
  <2>6. SumFunctionOnSet(g, Purchases \cup {n}) = SumFunctionOnSet(g, Purchases) + g[n]
    BY <2>1, <2>2, <2>4, SumWith
  <2> QED  BY <2>5, <2>6
<1>9. Paid(amount, Price, rate) = Fee(amount, Price, rate)
  BY DEF Paid
<1>10. Spent' = Spent + fills'[n].spent
  BY <1>7, <1>8 DEF Spent, f, g
<1>11. {fills'[i].tick : i \in Purchases'}
         = {fills[i].tick : i \in Purchases} \cup {Tick(Price, rate)}
  BY <1>2, <1>3, <1>4
<1> QED  BY <1>2, <1>9, <1>10, <1>11

LEMMA BeginsWaiting == Init => WaitInv
<1> SUFFICES ASSUME Init PROVE WaitInv
  OBVIOUS
<1>1. PICK p \in Portfolios : opening = p.cash /\ fills = <<>> /\ market = None
  BY DEF Init
<1>2. opening \in Int
  BY <1>1, PortfolioAssumption
<1>3. ProceedsWait
  BY <1>1 DEF ProceedsWait
<1> QED  BY <1>1, <1>2, <1>3 DEF WaitInv, Unsold

\* A purchase is made of the cash the bar began with and what was spent since.
LEMMA BuyWaits ==
  ASSUME CashInv, WaitInv, NEW impact \in Impacts, Buy(impact)
  PROVE  WaitInv'
<1> DEFINE rate == Rate(impact)
           amount == Amount(Order, Quote, rate)
           fee == Fee(amount, Price, rate)
           cost == Value(amount, Price) + fee
<1>1. PositionInv /\ BatchInv /\ Turn
  BY DEF CashInv, Buy, Deals
<1>2. /\ rate \in Nat /\ Price \in Nat \ {0} /\ config.minimum \in Nat /\ Order.direction = "buy"
      /\ position.cash \in Int /\ Current \in todo
  BY <1>1, OrderIsTyped DEF Buy, PositionInv
<1>3. LimitFails = "none" /\ ~(rate = 0 /\ CashLimited(Clipped(Order, Quote), Price, rate))
  BY <1>2 DEF Buy, Deals, Reason
<1>4. Clipped(Order, Quote) \in Int
  BY <1>1, <1>3, ClippedIsTyped
<1>5. amount = BuyAmount(Clipped(Order, Quote), Price, rate)
  BY <1>2 DEF Amount, Price
<1>6. /\ amount > 0 /\ Records(amount, rate)
      /\ position' = Bought(position, Order.stock, amount, Price, fee)
      /\ UNCHANGED <<bar, market, orders, config, opening>> /\ todo' = todo \ {Current}
  BY DEF Buy, Records
<1> HIDE DEF rate, amount
<1>7. amount \in Nat \ {0} /\ cost <= position.cash + Tick(Price, rate)
  <2>1. amount \in Int /\ cost <= position.cash + Tick(Price, rate)
    BY <1>2, <1>3, <1>4, <1>5, <1>6, BuyCovers
  <2> QED  BY <1>6, <2>1
<1>8. cost \in Int /\ Tick(Price, rate) \in Int
  <2>1. Price \in Nat
    BY <1>2
  <2>2. Value(amount, Price) \in Int /\ fee \in Int
    BY <1>2, <1>7, <2>1, FeeIs
  <2>3. Tick(Price, rate) \in Int
    BY <1>2, <2>1, DealingAssumption DEF Tick, Correction
  <2> QED  BY <2>2, <2>3
<1>9. position'.cash = position.cash - cost /\ position'.settle = position.settle
  BY <1>1, <1>6, BoughtIs DEF PositionInv
<1>10. /\ Spent' = Spent + cost
       /\ {fills'[i].tick : i \in Purchases'}
            = {fills[i].tick : i \in Purchases} \cup {Tick(Price, rate)}
  BY <1>1, <1>2, <1>6, <1>7, PurchaseIsSpent
<1> HIDE DEF cost
<1>11. Spent \in Int /\ opening \in Int
  BY <1>1, PurchasesAreSummed DEF WaitInv
<1>12. ASSUME config.parallel \/ config.settle = "cash"
       PROVE  position.cash = opening - Spent
  <2>1. Unsold
    BY <1>1, <1>2, <1>12 DEF Unsold, Turn, Order
  <2> QED  BY <2>1 DEF WaitInv
<1>13. Unsold' => position'.cash = opening' - Spent'
  <2>1. Unsold' => config.parallel \/ config.settle = "cash"
    BY <1>6 DEF Unsold
  <2> QED  BY <1>2, <1>6, <1>8, <1>9, <1>10, <1>11, <1>12, <2>1
<1>14. ProceedsWait'
  <2> DEFINE ticks == {fills'[i].tick : i \in Purchases'}
  <2>1. ticks = {fills[i].tick : i \in Purchases} \cup {Tick(Price, rate)}
    BY <1>10
  <2>2. IsFiniteSet(ticks) /\ ticks \subseteq Int
    BY <1>1, <1>8, <2>1, PurchasesAreSummed, FS_AddElement
  <2>3. Max(ticks) >= Tick(Price, rate) /\ Max(ticks) \in Int
    <3>1. Tick(Price, rate) \in ticks
      BY <2>1
    <3> HIDE DEF ticks
    <3> QED  BY <2>2, <3>1, GreatestOf
  <2> HIDE DEF ticks
  <2>4. ASSUME config.parallel \/ config.settle = "cash"
        PROVE  Spent' <= opening' + Max(ticks)
    BY <1>2, <1>6, <1>7, <1>8, <1>10, <1>11, <1>12, <2>3, <2>4
  <2>5. ProceedsWait' = (config'.parallel \/ config'.settle = "cash" =>
                           Purchases' = {} \/ Spent' <= opening' + Max(ticks))
    BY DEF ProceedsWait, Spent, Purchases, ticks
  <2> QED  BY <1>6, <2>4, <2>5
<1>15. \A i \in DOMAIN fills' : fills'[i].bar <= bar' /\ (market' = None => fills'[i].bar < bar')
  <2>1. /\ DOMAIN fills' = DOMAIN fills \cup {Len(fills) + 1}
        /\ \A i \in DOMAIN fills : fills'[i] = fills[i]
        /\ fills'[Len(fills) + 1].bar = bar
    <3>1. amount \in Int
      BY <1>7
    <3> QED  BY <1>1, <1>2, <1>6, <3>1, FilledIs
  <2>2. bar \in Int /\ market # None
    BY <1>1 DEF BatchInv, Turn
  <2> QED  BY <1>6, <2>1, <2>2 DEF WaitInv
<1> QED  BY <1>6, <1>9, <1>11, <1>13, <1>14, <1>15 DEF WaitInv

\* A sale changes no cash that a purchase of the bar may still spend.
LEMMA SellWaits ==
  ASSUME CashInv, WaitInv, NEW impact \in Impacts, Sell(impact)
  PROVE  WaitInv'
<1> DEFINE rate == Rate(impact)
           amount == Amount(Order, Quote, rate)
           fee == Fee(amount, Price, rate)
<1>1. PositionInv /\ BatchInv /\ Turn
  BY DEF CashInv, Sell, Deals
<1>2. /\ rate \in Nat /\ Order.direction = "sell" /\ position.cash \in Int /\ Current \in todo
  BY <1>1, OrderIsTyped DEF Sell, PositionInv
<1>3. /\ amount \in Nat \ {0} /\ Records(amount, rate)
      /\ position' = Sold(position, Order.stock, amount, Price, fee)
      /\ UNCHANGED <<bar, market, orders, config, opening>> /\ todo' = todo \ {Current}
  BY DEF Sell, Records
<1> HIDE DEF rate, amount
<1>4. amount \in Int
  BY <1>3
<1>5. /\ position'.settle = position.settle
      /\ position.settle = "cash" => position'.cash = position.cash
  BY <1>1, <1>3, SoldIs DEF PositionInv
<1>6. Purchases' = Purchases /\ \A i \in Purchases : fills'[i] = fills[i]
  BY <1>1, <1>2, <1>3, <1>4, NoPurchase
<1>7. Spent' = Spent /\ ProceedsWait'
  <2>1. ProceedsWait /\ UNCHANGED <<opening, config>>
    BY <1>3 DEF WaitInv
  <2> QED  BY <1>6, <2>1, SpentStays
<1>8. Unsold' => config.settle = "cash"
  <2> SUFFICES ASSUME config.parallel, NEW j \in todo', orders[j].direction = "buy",
                      config.settle # "cash"
               PROVE  FALSE
    BY <1>3 DEF Unsold
  <2>1. j \in todo \ {Current}
    BY <1>3
  <2>2. Comes(Current, j)
    BY <1>1, <2>1, CurrentIsNext DEF Turn
  <2> QED  BY <1>2, <2>2 DEF Comes, Order
<1>9. Unsold' => position'.cash = opening' - Spent'
  <2>1. market # None
    BY <1>1 DEF Turn
  <2> QED  BY <1>3, <1>5, <1>7, <1>8, <2>1 DEF WaitInv, Unsold
<1>10. \A i \in DOMAIN fills' : fills'[i].bar <= bar' /\ (market' = None => fills'[i].bar < bar')
  <2>1. /\ DOMAIN fills' = DOMAIN fills \cup {Len(fills) + 1}
        /\ \A i \in DOMAIN fills : fills'[i] = fills[i]
        /\ fills'[Len(fills) + 1].bar = bar
    BY <1>1, <1>2, <1>3, <1>4, FilledIs
  <2>2. bar \in Int /\ market # None
    BY <1>1 DEF BatchInv, Turn
  <2> QED  BY <1>3, <2>1, <2>2 DEF WaitInv
<1> QED  BY <1>3, <1>5, <1>7, <1>9, <1>10 DEF WaitInv

\* Every step.
LEMMA StaysWaiting == CashInv /\ WaitInv /\ [Next]_vars => WaitInv'
<1> SUFFICES ASSUME CashInv, WaitInv, [Next]_vars PROVE WaitInv'
  OBVIOUS
<1>1. PositionInv /\ BatchInv
  BY DEF CashInv
<1>2. /\ opening \in Int /\ position.cash \in Int /\ bar \in Nat
      /\ \A i \in DOMAIN fills : fills[i] \in FillTypes /\ fills[i].bar \in Int
  <2>1. \A i \in DOMAIN fills : fills[i] \in FillTypes
    BY <1>1 DEF BatchInv
  <2>2. \A fill \in FillTypes : fill.bar \in Int
    BY DEF FillTypes
  <2> QED  BY <1>1, <2>1, <2>2 DEF WaitInv, PositionInv, BatchInv
<1>3. ASSUME NEW quotes \in Markets, NEW decision \in Decisions, OpenBar(quotes, decision)
      PROVE  WaitInv'
  <2>1. /\ market = None /\ market' = quotes
        /\ UNCHANGED <<bar, config, fills>> /\ opening' = position.cash
        /\ position' = IF config.settle = "cash"
                       THEN [position EXCEPT !.settle = "cash", !.delayed = 0] ELSE position
    BY <1>3 DEF OpenBar
  <2>2. /\ config.settle = "cash" => position'.settle = "cash"
        /\ position'.cash = position.cash
    BY <1>1, <2>1 DEF PositionInv
  <2>3. Purchases' = {}
    BY <1>2, <2>1 DEF WaitInv, Purchases
  <2>4. Spent' = 0
    <3>1. SumFunctionOnSet([i \in Purchases' |-> fills'[i].spent], Purchases') = 0
      BY <2>3, SumOfNone
    <3> QED  BY <3>1 DEF Spent, SumFunction
  <2>5. ProceedsWait'
    BY <2>3 DEF ProceedsWait, Purchases
  <2>6. \A i \in DOMAIN fills' : fills'[i].bar <= bar' /\ (market' = None => fills'[i].bar < bar')
    BY <2>1 DEF WaitInv
  <2>7. Unsold' => position'.cash = opening' - Spent'
    BY <1>2, <2>1, <2>2, <2>4
  <2> QED  BY <1>2, <2>1, <2>2, <2>5, <2>6, <2>7 DEF WaitInv
<1>4. ASSUME Turn, NEW rate \in Nat, Records(0, rate), UNCHANGED <<position, account>>
      PROVE  WaitInv'
  <2>1. /\ UNCHANGED <<bar, market, orders, config, opening>> /\ todo' = todo \ {Current}
        /\ market # None
    BY <1>4 DEF Records, Turn
  <2>2. Purchases' = Purchases /\ \A i \in Purchases : fills'[i] = fills[i]
    BY <1>1, <1>4, NoPurchase
  <2>3. Spent' = Spent /\ ProceedsWait'
    BY <2>1, <2>2, SpentStays DEF WaitInv
  <2>4. Unsold' => Unsold
    BY <2>1 DEF Unsold
  <2>5. /\ DOMAIN fills' = DOMAIN fills \cup {Len(fills) + 1}
        /\ \A i \in DOMAIN fills : fills'[i] = fills[i]
        /\ fills'[Len(fills) + 1].bar = bar
    <3>1. 0 \in Int
      OBVIOUS
    <3> QED  BY <1>1, <1>4, <3>1, FilledIs
  <2>6. \A i \in DOMAIN fills' : fills'[i].bar <= bar' /\ (market' = None => fills'[i].bar < bar')
    BY <1>2, <2>1, <2>5 DEF WaitInv
  <2> QED  BY <1>4, <2>1, <2>3, <2>4, <2>6 DEF WaitInv
<1>5. CASE Untradable
  BY <1>4, <1>5 DEF Untradable
<1>6. ASSUME NEW impact \in Impacts, Nothing(impact) PROVE WaitInv'
  <2>1. Turn /\ Rate(impact) \in Nat
    BY <1>1, <1>6, OrderIsTyped DEF Nothing, Deals
  <2> QED  BY <1>4, <1>6, <2>1 DEF Nothing
<1>7. ASSUME UNCHANGED <<bar, market, orders, todo, config, fills, opening>>,
             position'.cash = position.cash, position'.settle = position.settle
      PROVE  WaitInv'
  <2>1. Purchases' = Purchases /\ \A i \in Purchases : fills'[i] = fills[i]
    BY <1>7 DEF Purchases
  <2>2. Spent' = Spent /\ ProceedsWait'
    BY <1>7, <2>1, SpentStays DEF WaitInv
  <2>3. Unsold' => Unsold
    BY <1>7 DEF Unsold
  <2> QED  BY <1>7, <2>2, <2>3 DEF WaitInv
<1>8. ASSUME NEW impact \in Impacts, Refuse(impact) PROVE WaitInv'
  BY <1>7, <1>8 DEF Refuse
<1>9. ASSUME NEW impact \in Impacts, Oversell(impact) PROVE WaitInv'
  <2>1. UNCHANGED <<bar, market, orders, todo, config, fills, opening>>
    BY <1>9 DEF Oversell
  <2>2. \E h : position' = [position EXCEPT !.holdings = h]
    BY <1>9 DEF Oversell
  <2>3. position'.cash = position.cash /\ position'.settle = position.settle
    BY <1>1, <2>2 DEF PositionInv
  <2> QED  BY <1>7, <2>1, <2>3
<1>10. ASSUME NEW impact \in Impacts, Buy(impact) \/ Sell(impact) PROVE WaitInv'
  BY <1>10, BuyWaits, SellWaits
<1>11. CASE CloseBar
  <2>1. market' = None /\ bar' = bar + 1 /\ UNCHANGED <<config, fills, opening>>
    BY <1>11 DEF CloseBar
  <2>2. \A i \in DOMAIN fills' : fills'[i].bar < bar' /\ fills'[i].bar <= bar'
    BY <1>2, <2>1 DEF WaitInv
  <2>3. Purchases' = {}
    <3>1. \A i \in DOMAIN fills' : fills'[i].bar # bar'
      BY <1>2, <2>1, <2>2
    <3> QED  BY <3>1 DEF Purchases
  <2>4. ProceedsWait'
    BY <2>3 DEF ProceedsWait, Purchases
  <2>5. ~Unsold'
    BY <2>1 DEF Unsold
  <2> QED  BY <1>2, <2>1, <2>2, <2>4, <2>5 DEF WaitInv
<1>12. CASE CloseFails
  <2>1. UNCHANGED <<bar, market, orders, todo, config, fills, opening>>
    BY <1>12 DEF CloseFails
  <2>2. \E h : position' = [position EXCEPT !.holdings = h]
    BY <1>12 DEF CloseFails
  <2>3. position'.cash = position.cash /\ position'.settle = position.settle
    BY <1>1, <2>2 DEF PositionInv
  <2> QED  BY <1>7, <2>1, <2>3
<1>13. CASE UNCHANGED vars
  BY <1>7, <1>13 DEF vars
<1> QED  BY <1>3, <1>5, <1>6, <1>8, <1>9, <1>10, <1>11, <1>12, <1>13 DEF Next

-----------------------------------------------------------------------------
(* The limits of volume.                                                   *)

\* Rounding makes something only of something.
LEMMA RoundedFromSome ==
  ASSUME NEW n \in Int, Rounded(n, 1) > 0
  PROVE  n > 0 /\ Rounded(n, 1) \in Int /\ Rounded(n, 1) <= n + Correction
<1>1. Unit \in Nat /\ Unit > 1 /\ Correction = 1
  BY DealingAssumption DEF Correction
<1> DEFINE q == (n + 1) \div Unit
<1>2. Rounded(n, 1) = q * Unit
  BY <1>1 DEF Rounded
<1>3. q \in Int /\ Unit * q <= n + 1
  BY <1>1
<1> HIDE DEF q
<1>4. q >= 1
  <2> SUFFICES ASSUME q <= 0 PROVE FALSE
    BY <1>3
  <2>1. q * Unit <= 0 * Unit /\ q * Unit \in Int
    BY <1>1, <1>3, Products
  <2>2. 0 * Unit = 0
    BY <1>1
  <2> QED  BY <1>2, <2>1, <2>2
<1>5. Unit * 1 <= Unit * q
  BY <1>1, <1>3, <1>4, Products
<1>6. q * Unit = Unit * q /\ Unit * q \in Int
  BY <1>1, <1>3
<1> QED  BY <1>1, <1>2, <1>3, <1>5, <1>6

\* What is dealt exceeds what the limits left by no more than the correction.
LEMMA AmountWithin ==
  ASSUME BatchInv, PositionInv, HeldInv, NEW impact \in Impacts, Deals(impact),
         Amount(Order, Quote, Rate(impact)) > 0
  PROVE  /\ Clipped(Order, Quote) > 0
         /\ Amount(Order, Quote, Rate(impact)) \in Int
         /\ Amount(Order, Quote, Rate(impact)) <= Clipped(Order, Quote) + Correction
<1> DEFINE rate == Rate(impact)
           amount == Amount(Order, Quote, rate)
           a == Clipped(Order, Quote)
           r == Rounded(a, 1)
<1>1. Turn /\ Reason(rate) = "none"
  BY DEF Deals
<1>2. /\ rate \in Nat /\ Price \in Nat \ {0} /\ config.minimum \in Nat
      /\ Order.direction \in Directions /\ position.cash \in Int /\ Order.stock \in Stocks
  BY <1>1, OrderIsTyped DEF PositionInv
<1>3. LimitFails = "none"
  BY <1>1 DEF Reason
<1>4. a \in Int
  BY <1>1, <1>3, ClippedIsTyped
<1>5. Correction = 1
  BY DEF Correction
<1>6. CASE Order.direction = "buy"
  <2>1. ~(rate = 0 /\ CashLimited(a, Price, rate))
    BY <1>1, <1>6 DEF Reason
  <2>2. amount = BuyAmount(a, Price, rate)
    BY <1>6 DEF Amount, Price
  <2> HIDE DEF amount, a, rate
  <2>3. r \in Int
    BY <1>4, RoundedAtMost
  <2>4. amount \in Int /\ amount <= r
    <3>1. CASE CashLimited(a, Price, rate)
      <4> DEFINE most == Affordable(Price, rate)
      <4>1. position.cash >= config.minimum /\ ~(position.cash < Fee(a, Price, rate))
        <5>1. Price \in Nat
          BY <1>2
        <5>2. Fee(a, Price, rate) \in Int /\ Fee(a, Price, rate) >= config.minimum
          BY <1>2, <1>4, <5>1, FeeIs
        <5> QED  BY <1>2, <3>1, <5>2 DEF CashLimited
      <4>2. rate \in Nat \ {0}
        BY <1>2, <2>1, <3>1
      <4>3. most \in Int
        BY <1>2, <4>1, <4>2, AffordableCovers
      <4>4. amount = Min({most, r})
        BY <2>2, <3>1, <4>1 DEF BuyAmount
      <4> HIDE DEF most, r
      <4> QED  BY <2>3, <4>3, <4>4, MinOfTwo
    <3>2. CASE ~CashLimited(a, Price, rate)
      <4>1. amount \in {0, r}
        BY <2>2, <3>2 DEF BuyAmount
      <4>2. amount > 0
        BY DEF amount, rate
      <4>3. amount = r
        BY <4>1, <4>2
      <4> HIDE DEF r
      <4> QED  BY <2>3, <4>3
    <3> QED  BY <3>1, <3>2
  <2>5. r > 0
    <3>1. amount > 0
      BY DEF amount, rate
    <3> HIDE DEF r
    <3> QED  BY <2>3, <2>4, <3>1
  <2>6. a > 0 /\ r <= a + Correction
    BY <1>4, <2>5, RoundedFromSome
  <2> HIDE DEF r
  <2>7. a > 0 /\ amount \in Int /\ amount <= a + Correction
    BY <1>4, <1>5, <2>3, <2>4, <2>6
  <2> QED  BY <2>7 DEF amount, a, rate
<1>7. CASE Order.direction = "sell"
  <2> DEFINE held == Held(position, Order.stock)
  <2>1. amount = SellAmount(held, a, Price, rate)
    BY <1>7 DEF Amount, Price
  <2>2. held \in Int
    <3>1. AreCounted(position.holdings)
      BY <1>1 DEF HeldInv, Turn
    <3>2. \A s \in DOMAIN position.holdings : position.holdings[s].amount \in Int
      BY <3>1, HoldingsAreSummed DEF Holding
    <3> QED  BY <3>2 DEF Held
  <2> DEFINE least == Min({held, a})
             x == IF IsClose(a, held) THEN a ELSE Rounded(least, 1)
  <2>3. least \in Int /\ least <= a
    <3> HIDE DEF held, a
    <3> QED  BY <1>4, <2>2, MinOfTwo
  <2>4. amount = x
    <3>1. amount \in {0, x}
      BY <2>1 DEF SellAmount
    <3>2. amount > 0
      OBVIOUS
    <3> QED  BY <3>1, <3>2
  <2>5. x > 0
    BY <2>4
  <2> HIDE DEF least, amount, a, rate, held
  <2>6. CASE IsClose(a, held)
    <3>1. x = a
      BY <2>6
    <3>2. a > 0 /\ amount \in Int /\ amount <= a + Correction
      BY <1>4, <1>5, <2>4, <2>5, <3>1
    <3> QED  BY <3>2 DEF amount, a, rate
  <2>7. CASE ~IsClose(a, held)
    <3>1. x = Rounded(least, 1)
      BY <2>7
    <3> HIDE DEF x
    <3>2. least > 0 /\ x \in Int /\ x <= least + Correction
      BY <2>3, <2>5, <3>1, RoundedFromSome
    <3>3. a > 0 /\ amount \in Int /\ amount <= a + Correction
      BY <1>4, <1>5, <2>3, <2>4, <3>2
    <3> QED  BY <3>3 DEF amount, a, rate
  <2> QED  BY <2>6, <2>7
<1> QED  BY <1>2, <1>6, <1>7 DEF Directions

\* What was dealt in a stock on a day, by the executions.
FilledSet(log, s, day) ==
  {j \in DOMAIN log : log[j].stock = s /\ log[j].bar \div BarsPerDay = day}
FilledOn(log, s, day) == SumFunction([j \in FilledSet(log, s, day) |-> log[j].amount])
DealtOf(record, s) == IF s \in DOMAIN record THEN record[s] ELSE 0

\* The record of the day agrees with the executions.
DayInv ==
  /\ \A i \in DOMAIN fills : fills[i].bar <= bar
  /\ IF dealDay = None THEN fills = <<>>
     ELSE /\ dealDay \in Int /\ dealDay <= Day
          /\ \A i \in DOMAIN fills : fills[i].bar \div BarsPerDay <= dealDay
          /\ \A s \in Stocks : FilledOn(fills, s, dealDay) = DealtOf(dealt, s)

CapacityInv == DayInv /\ FillsWithinCapacity

\* A later bar is of no earlier day.
LEMMA DaysGrow ==
  ASSUME NEW a \in Int, NEW b \in Int, a <= b
  PROVE  a \div BarsPerDay \in Int /\ a \div BarsPerDay <= b \div BarsPerDay
<1> DEFINE p == a \div BarsPerDay
           q == b \div BarsPerDay
<1>1. BarsPerDay \in Nat \ {0}
  BY DealingAssumption
<1>2. /\ p \in Int /\ BarsPerDay * p <= a
      /\ q \in Int /\ b < BarsPerDay * q + BarsPerDay
  BY <1>1
<1> HIDE DEF p, q
<1>3. BarsPerDay * q + BarsPerDay = BarsPerDay * (q + 1) /\ q + 1 \in Int
  BY <1>1, <1>2
<1>4. p <= q
  <2> SUFFICES ASSUME q + 1 <= p PROVE FALSE
    BY <1>2
  <2>1. BarsPerDay * (q + 1) <= BarsPerDay * p
    BY <1>1, <1>2, <1>3, Products
  <2>2. BarsPerDay * p \in Int /\ BarsPerDay * (q + 1) \in Int
    BY <1>1, <1>2
  <2> QED  BY <1>2, <1>3, <2>1, <2>2
<1> QED  BY <1>2, <1>4 DEF p, q

\* The sums of the executions are sums of integers.
LEMMA FilledIsSummed ==
  ASSUME NEW log \in Seq(FillTypes), NEW S \in SUBSET DOMAIN log
  PROVE  /\ IsFiniteSet(S) /\ Summable([j \in S |-> log[j].amount], S)
         /\ SumFunction([j \in S |-> log[j].amount]) \in Int
<1> DEFINE f == [j \in S |-> log[j].amount]
<1>1. DOMAIN log = 1 .. Len(log) /\ Len(log) \in Nat
  OBVIOUS
<1>2. IsFiniteSet(S)
  <2>1. IsFiniteSet(1 .. Len(log))
    BY <1>1, FS_Interval
  <2> QED  BY <1>1, <2>1, FS_Subset
<1>3. \A j \in S : log[j].amount \in Int
  <2>1. \A j \in S : log[j] \in FillTypes
    OBVIOUS
  <2> QED  BY <2>1 DEF FillTypes
<1>4. Summable(f, S)
  BY <1>2, <1>3 DEF Summable
<1>5. SumFunctionOnSet(f, S) \in Int
  BY <1>4, SumType
<1>6. SumFunction(f) = SumFunctionOnSet(f, S)
  BY DEF SumFunction
<1> QED  BY <1>2, <1>4, <1>5, <1>6

\* An execution adds to what was dealt in its stock on its day, and to no other.
LEMMA FilledGrows ==
  ASSUME BatchInv, Turn, NEW amount \in Int, NEW rate \in Nat, Records(amount, rate),
         NEW s, NEW day
  PROVE  /\ s = Order.stock /\ day = Day =>
              FilledOn(fills', s, day) = FilledOn(fills, s, day) + amount
         /\ ~(s = Order.stock /\ day = Day) => FilledOn(fills', s, day) = FilledOn(fills, s, day)
<1> DEFINE n == Len(fills) + 1
<1>1. /\ DOMAIN fills' = DOMAIN fills \cup {n} /\ n \notin DOMAIN fills
      /\ \A i \in DOMAIN fills : fills'[i] = fills[i]
      /\ fills'[n].bar = bar /\ fills'[n].stock = Order.stock /\ fills'[n].amount = amount
  BY FilledIs
<1> HIDE DEF n
<1> DEFINE S == FilledSet(fills, s, day)
           T == FilledSet(fills', s, day)
           f == [j \in S |-> fills[j].amount]
           g == [j \in T |-> fills'[j].amount]
<1>2. S \subseteq DOMAIN fills /\ n \notin S
  BY <1>1 DEF FilledSet
<1>3. CASE s = Order.stock /\ day = Day
  <2>1. T = S \cup {n}
    BY <1>1, <1>3 DEF FilledSet, Day
  <2>2. Summable(f, S)
    <3>1. fills \in Seq(FillTypes)
      BY DEF BatchInv
    <3> HIDE DEF S
    <3> QED  BY <1>2, <3>1, FilledIsSummed
  <2> HIDE DEF S, T
  <2>3. /\ \A j \in S : g[j] = f[j]
        /\ g[n] = amount
        /\ SumFunction(f) = SumFunctionOnSet(f, S)
        /\ SumFunction(g) = SumFunctionOnSet(g, S \cup {n})
    BY <1>1, <1>2, <2>1 DEF SumFunction
  <2> HIDE DEF f, g
  <2>4. Summable(g, S) /\ g[n] \in Int /\ n \notin S
    BY <1>2, <2>2, <2>3 DEF Summable
  <2>5. SumFunctionOnSet(g, S) = SumFunctionOnSet(f, S)
    BY <2>2, <2>3, SameSum
  <2>6. SumFunctionOnSet(g, S \cup {n}) = SumFunctionOnSet(g, S) + g[n]
    BY <2>4, SumWith
  <2> QED  BY <1>3, <2>3, <2>5, <2>6 DEF FilledOn, f, g, S, T
<1>4. CASE ~(s = Order.stock /\ day = Day)
  <2>1. T = S
    BY <1>1, <1>4 DEF FilledSet, Day
  <2>2. g = f
    BY <1>1, <1>2, <2>1
  <2> QED  BY <1>4, <2>2 DEF FilledOn
<1> QED  BY <1>3, <1>4

\* What the record says of the day that has come (start_order_day).
LEMMA TodayIs ==
  ASSUME BatchInv, DayInv, NEW s \in Stocks
  PROVE  FilledOn(fills, s, Day) = DealtOf(Today, s)
<1>1. Day \in Int
  <2>1. bar \in Int
    BY DEF BatchInv
  <2> QED  BY <2>1, DaysGrow DEF Day
<1>2. ASSUME FilledSet(fills, s, Day) = {} PROVE FilledOn(fills, s, Day) = 0
  <2> DEFINE f == [j \in FilledSet(fills, s, Day) |-> fills[j].amount]
  <2>1. SumFunctionOnSet(f, DOMAIN f) = 0
    BY <1>2, SumOfNone
  <2> QED  BY <2>1 DEF FilledOn, SumFunction
<1>3. DealtOf(Empty, s) = 0
  BY DEF DealtOf, Empty
<1>4. CASE dealDay = None
  <2>1. fills = <<>>
    BY <1>4 DEF DayInv
  <2>2. FilledSet(fills, s, Day) = {}
    BY <2>1 DEF FilledSet
  <2> QED  BY <1>2, <1>3, <1>4, <2>2 DEF Today
<1>5. CASE dealDay # None /\ Day > dealDay
  <2>1. /\ dealDay \in Int
        /\ \A i \in DOMAIN fills : fills[i].bar \div BarsPerDay <= dealDay
    BY <1>5 DEF DayInv
  <2>2. ASSUME NEW j \in FilledSet(fills, s, Day) PROVE FALSE
    <3>1. j \in DOMAIN fills /\ fills[j].bar \div BarsPerDay = Day
      BY <2>2 DEF FilledSet
    <3>2. Day <= dealDay
      BY <2>1, <3>1
    <3> QED  BY <1>1, <1>5, <2>1, <3>2
  <2> QED  BY <1>2, <1>3, <1>5, <2>2 DEF Today
<1>6. CASE dealDay # None /\ ~(Day > dealDay)
  <2>1. dealDay = Day /\ FilledOn(fills, s, dealDay) = DealtOf(dealt, s)
    BY <1>1, <1>6 DEF DayInv
  <2> QED  BY <1>6, <2>1 DEF Today
<1> QED  BY <1>4, <1>5, <1>6

LEMMA DayStarts ==
  ASSUME BatchInv, DayInv, DayStarted
  PROVE  dealDay' = Day /\ Day \in Int /\ Day # None
<1>1. Day \in Int
  <2>1. bar \in Int
    BY DEF BatchInv
  <2> QED  BY <2>1, DaysGrow DEF Day
<1>2. Day # None
  BY <1>1, DealingAssumption
<1>3. CASE dealDay = None
  BY <1>1, <1>2, <1>3 DEF DayStarted
<1>4. CASE dealDay # None
  <2>1. dealDay \in Int /\ dealDay <= Day /\ dealDay' = Max({dealDay, Day})
    BY <1>4 DEF DayInv, DayStarted
  <2>2. Max({dealDay, Day}) \in {dealDay, Day} /\ Max({dealDay, Day}) >= Day
    BY <1>1, <2>1, MaxOfTwo
  <2> QED  BY <1>1, <1>2, <2>1, <2>2
<1> QED  BY <1>3, <1>4

\* What is counted against a limit of an execution.
Counted(log, i, kind) ==
  {j \in 1 .. i : /\ log[j].stock = log[i].stock
                  /\ IF kind = "current" THEN j = i
                     ELSE log[j].bar \div BarsPerDay = log[i].bar \div BarsPerDay}
Within(limits, log, i) ==
  log[i].amount > 0 /\ limits[log[i].direction] # None =>
    \A kind \in limits[log[i].direction] :
      SumFunction([j \in Counted(log, i, kind) |-> log[j].amount])
        <= log[i].capacity[kind] + Correction

LEMMA CapacityIs == FillsWithinCapacity = \A i \in DOMAIN fills : Within(config.limits, fills, i)
BY DEF FillsWithinCapacity, Within, Counted

\* It is decided by the executions so far.
LEMMA WithinStill ==
  ASSUME NEW limits, NEW log, NEW longer, NEW i \in Nat, i \in 1 .. i,
         \A j \in 1 .. i : longer[j] = log[j], Within(limits, log, i)
  PROVE  Within(limits, longer, i)
<1>1. longer[i] = log[i]
  OBVIOUS
<1>2. \A kind : Counted(longer, i, kind) = Counted(log, i, kind)
  BY <1>1 DEF Counted
<1>3. \A kind : \A j \in Counted(log, i, kind) : longer[j] = log[j]
  BY DEF Counted
<1>4. ASSUME NEW kind
      PROVE  [j \in Counted(longer, i, kind) |-> longer[j].amount]
               = [j \in Counted(log, i, kind) |-> log[j].amount]
  BY <1>2, <1>3
<1> QED  BY <1>1, <1>4 DEF Within

\* An execution that is made keeps within the limits of its direction.
LEMMA FillIsWithin ==
  ASSUME BatchInv, PositionInv, HeldInv, DayInv, NEW impact \in Impacts, Deals(impact),
         NEW amount \in Nat \ {0}, amount = Amount(Order, Quote, Rate(impact)),
         Records(amount, Rate(impact))
  PROVE  Within(config.limits, fills', Len(fills) + 1)
<1> DEFINE rate == Rate(impact)
           n == Len(fills) + 1
           a == Clipped(Order, Quote)
           limits == config.limits[Order.direction]
<1>1. Turn /\ LimitFails = "none" /\ rate \in Nat /\ Order.stock \in Stocks
  <2>1. Turn
    BY DEF Deals
  <2> QED  BY <2>1, OrderIsTyped DEF Deals, Reason
<1>2. /\ Len(fills) \in Nat
      /\ DOMAIN fills = 1 .. Len(fills) /\ DOMAIN fills' = DOMAIN fills \cup {n}
      /\ n \notin DOMAIN fills
      /\ fills'[n].bar = bar /\ fills'[n].stock = Order.stock
      /\ fills'[n].direction = Order.direction /\ fills'[n].amount = amount
      /\ fills'[n].capacity = Quote.capacity
  <2>1. amount \in Int
    OBVIOUS
  <2> QED  BY <1>1, <2>1, FilledIs
<1>3. a > 0 /\ amount <= a + Correction
  BY AmountWithin
<1>4. /\ a \in Int
      /\ a > 0 /\ ~Unlimited(Order) =>
           \A k \in limits : /\ k \in Limits /\ Quote.capacity[k] \in Int
                             /\ Left(Order, Quote, k) \in Int /\ a <= Left(Order, Quote, k)
                             /\ k = "cum" => Order.stock \in DOMAIN Today
  BY <1>1, ClippedIsTyped
<1> HIDE DEF n, a
<1> SUFFICES ASSUME limits # None, NEW kind \in limits
             PROVE  SumFunction([j \in Counted(fills', n, kind) |-> fills'[j].amount])
                      <= Quote.capacity[kind] + Correction
  BY <1>2 DEF Within, n
<1>5. /\ Left(Order, Quote, kind) \in Int /\ amount <= Left(Order, Quote, kind) + Correction
      /\ Quote.capacity[kind] \in Int /\ kind \in Limits
      /\ kind = "cum" => Order.stock \in DOMAIN Today
  <2>1. ~Unlimited(Order)
    BY DEF Unlimited
  <2>2. /\ Left(Order, Quote, kind) \in Int /\ a <= Left(Order, Quote, kind)
        /\ Quote.capacity[kind] \in Int /\ kind \in Limits
        /\ kind = "cum" => Order.stock \in DOMAIN Today
    BY <1>3, <1>4, <2>1
  <2> QED  BY <1>3, <1>4, <2>2 DEF Correction
<1>6. CASE kind = "current"
  <2>1. Counted(fills', n, kind) = {n}
    BY <1>2, <1>6 DEF Counted, n
  <2> DEFINE f == [j \in {n} |-> fills'[j].amount]
  <2>2. f[n] = amount /\ f[n] \in Int /\ SumFunction(f) = SumFunctionOnSet(f, {n})
    BY <1>2 DEF SumFunction
  <2> HIDE DEF f
  <2>3. Summable(f, {}) /\ SumFunctionOnSet(f, {}) = 0
    BY FS_EmptySet, SumOfNone DEF Summable
  <2>4. SumFunctionOnSet(f, {} \cup {n}) = SumFunctionOnSet(f, {}) + f[n]
    BY <2>2, <2>3, SumWith
  <2>5. {} \cup {n} = {n}
    OBVIOUS
  <2>6. SumFunction(f) = amount
    BY <2>2, <2>3, <2>4, <2>5
  <2>7. Left(Order, Quote, kind) = Quote.capacity[kind]
    BY <1>5, <1>6 DEF Left
  <2> QED  BY <1>5, <2>1, <2>6, <2>7 DEF f
<1>7. CASE kind = "cum"
  <2>1. Counted(fills', n, kind) = FilledSet(fills', Order.stock, Day)
    <3>1. 1 .. n = DOMAIN fills'
      BY <1>2 DEF n
    <3> QED  BY <1>2, <1>7, <3>1 DEF Counted, FilledSet, Day
  <2>2. FilledOn(fills', Order.stock, Day) = FilledOn(fills, Order.stock, Day) + amount
    BY <1>1, FilledGrows
  <2>3. FilledOn(fills, Order.stock, Day) = Today[Order.stock]
    BY <1>1, <1>5, <1>7, TodayIs DEF DealtOf
  <2>4. Left(Order, Quote, kind) = Quote.capacity[kind] - Today[Order.stock]
    BY <1>7 DEF Left
  <2>5. Today[Order.stock] \in Int
    BY <1>5, <1>7 DEF Today, Empty, BatchInv
  <2>6. FilledOn(fills', Order.stock, Day) <= Quote.capacity[kind] + Correction
    BY <1>5, <2>2, <2>3, <2>4, <2>5 DEF Correction
  <2> QED  BY <2>1, <2>6 DEF FilledOn
<1> QED  BY <1>5, <1>6, <1>7 DEF Limits

\* An order that is done with leaves the record of the day in agreement.
LEMMA DayIsRecorded ==
  ASSUME BatchInv, DayInv, Turn, NEW amount \in Int, NEW rate \in Nat, Records(amount, rate)
  PROVE  DayInv'
<1>1. bar' = bar /\ DayStarted /\ Day' = Day
  BY DEF Records, Day
<1>2. dealDay' = Day /\ Day \in Int /\ Day # None
  BY <1>1, DayStarts
<1>3. /\ DOMAIN fills' = DOMAIN fills \cup {Len(fills) + 1}
      /\ \A i \in DOMAIN fills : fills'[i] = fills[i] /\ fills[i] \in FillTypes
      /\ fills'[Len(fills) + 1].bar = bar
  BY FilledIs
<1>4. bar \in Int /\ \A i \in DOMAIN fills : fills[i].bar \in Int /\ fills[i].bar <= bar
  <2>1. \A fill \in FillTypes : fill.bar \in Int
    BY DEF FillTypes
  <2> QED  BY <1>3, <2>1 DEF BatchInv, DayInv
<1>5. \A i \in DOMAIN fills' : fills'[i].bar \in Int /\ fills'[i].bar <= bar
  BY <1>3, <1>4
<1>6. \A i \in DOMAIN fills' : fills'[i].bar \div BarsPerDay <= Day
  BY <1>4, <1>5, DaysGrow DEF Day
<1>7. ASSUME NEW s \in Stocks
      PROVE  FilledOn(fills', s, Day) = DealtOf(dealt', s)
  <2>1. FilledOn(fills, s, Day) = DealtOf(Today, s)
    BY TodayIs
  <2>2. dealt' = [t \in DOMAIN Today \cup {Order.stock} |->
                    (IF t \in DOMAIN Today THEN Today[t] ELSE 0)
                      + (IF t = Order.stock THEN amount ELSE 0)]
    BY DEF Records
  <2>3. DealtOf(Today, s) \in Int
    <3>1. \A t \in DOMAIN Today : Today[t] \in Int
      BY DEF Today, Empty, BatchInv
    <3> QED  BY <3>1 DEF DealtOf
  <2>4. CASE s = Order.stock
    <3>1. FilledOn(fills', s, Day) = FilledOn(fills, s, Day) + amount
      BY <2>4, FilledGrows
    <3>2. DealtOf(dealt', s) = DealtOf(Today, s) + amount
      BY <2>2, <2>4 DEF DealtOf
    <3> QED  BY <2>1, <3>1, <3>2
  <2>5. CASE s # Order.stock
    <3>1. FilledOn(fills', s, Day) = FilledOn(fills, s, Day)
      BY <2>5, FilledGrows
    <3>2. DealtOf(dealt', s) = DealtOf(Today, s)
      BY <2>2, <2>3, <2>5 DEF DealtOf
    <3> QED  BY <2>1, <3>1, <3>2
  <2> QED  BY <2>4, <2>5
<1>8. dealDay' <= Day'
  BY <1>1, <1>2
<1> QED  BY <1>1, <1>2, <1>5, <1>6, <1>7, <1>8 DEF DayInv

\* So does one that ends the backtest.
LEMMA DayIsKept ==
  ASSUME BatchInv, DayInv, dealt' = Today, DayStarted, UNCHANGED <<bar, fills>>
  PROVE  DayInv'
<1>1. Day' = Day
  BY DEF Day
<1>2. dealDay' = Day /\ Day \in Int /\ Day # None
  BY DayStarts
<1>3. bar \in Int /\ \A i \in DOMAIN fills : fills[i].bar \in Int /\ fills[i].bar <= bar
  <2>1. \A fill \in FillTypes : fill.bar \in Int
    BY DEF FillTypes
  <2>2. \A i \in DOMAIN fills : fills[i] \in FillTypes
    BY DEF BatchInv
  <2> QED  BY <2>1, <2>2 DEF BatchInv, DayInv
<1>4. \A i \in DOMAIN fills : fills[i].bar \div BarsPerDay <= Day
  BY <1>3, DaysGrow DEF Day
<1>5. \A s \in Stocks : FilledOn(fills, s, Day) = DealtOf(Today, s)
  BY TodayIs
<1> QED  BY <1>1, <1>2, <1>3, <1>4, <1>5 DEF DayInv

LEMMA BeginsWithin == Init => CapacityInv
<1> SUFFICES ASSUME Init PROVE CapacityInv
  OBVIOUS
<1>1. fills = <<>> /\ dealDay = None
  BY DEF Init
<1> QED  BY <1>1, CapacityIs DEF CapacityInv, DayInv

\* Every step.
LEMMA StaysWithin == CashInv /\ HeldInv /\ CapacityInv /\ [Next]_vars => CapacityInv'
<1> SUFFICES ASSUME CashInv, HeldInv, CapacityInv, [Next]_vars PROVE CapacityInv'
  OBVIOUS
<1>1. PositionInv /\ BatchInv /\ DayInv /\ FillsWithinCapacity
  BY DEF CashInv, CapacityInv
<1>2. ASSUME UNCHANGED <<config, fills>> PROVE FillsWithinCapacity'
  BY <1>1, <1>2 DEF FillsWithinCapacity
<1>3. ASSUME UNCHANGED <<bar, dealt, dealDay, fills>> PROVE DayInv'
  BY <1>1, <1>3 DEF DayInv, Day
<1>4. ASSUME NEW quotes \in Markets, NEW decision \in Decisions, OpenBar(quotes, decision)
      PROVE  CapacityInv'
  BY <1>2, <1>3, <1>4 DEF OpenBar, CapacityInv
<1>5. ASSUME Turn, NEW amount \in Int, NEW rate \in Nat, Records(amount, rate),
             amount > 0 => Within(config.limits, fills', Len(fills) + 1)
      PROVE  CapacityInv'
  <2>1. DayInv'
    BY <1>1, <1>5, DayIsRecorded
  <2>2. /\ Len(fills) \in Nat /\ DOMAIN fills = 1 .. Len(fills)
        /\ DOMAIN fills' = DOMAIN fills \cup {Len(fills) + 1}
        /\ \A i \in DOMAIN fills : fills'[i] = fills[i]
        /\ fills'[Len(fills) + 1].amount = amount
    BY <1>1, <1>5, FilledIs
  <2>3. config' = config
    BY <1>5 DEF Records
  <2>4. ASSUME NEW i \in DOMAIN fills PROVE Within(config.limits, fills', i)
    <3>1. i \in Nat /\ i \in 1 .. i /\ \A j \in 1 .. i : fills'[j] = fills[j]
      BY <2>2
    <3>2. Within(config.limits, fills, i)
      BY <1>1, CapacityIs
    <3> QED  BY <3>1, <3>2, WithinStill
  <2>5. Within(config.limits, fills', Len(fills) + 1)
    <3>1. CASE amount > 0
      BY <1>5, <3>1
    <3>2. CASE ~(amount > 0)
      BY <2>2, <3>2 DEF Within
    <3> QED  BY <3>1, <3>2
  <2>6. FillsWithinCapacity' = \A i \in DOMAIN fills' : Within(config'.limits, fills', i)
    BY DEF FillsWithinCapacity, Within, Counted
  <2>7. FillsWithinCapacity'
    BY <2>2, <2>3, <2>4, <2>5, <2>6
  <2> QED  BY <2>1, <2>7 DEF CapacityInv
<1>6. CASE Untradable
  <2>1. Turn /\ Records(0, 0) /\ 0 \in Int /\ 0 \in Nat /\ ~(0 > 0)
    BY <1>6 DEF Untradable
  <2> QED  BY <1>5, <2>1
<1>7. ASSUME NEW impact \in Impacts, Nothing(impact) PROVE CapacityInv'
  <2>1. Turn /\ Rate(impact) \in Nat /\ Records(0, Rate(impact)) /\ 0 \in Int /\ ~(0 > 0)
    BY <1>1, <1>7, OrderIsTyped DEF Nothing, Deals
  <2> QED  BY <1>5, <2>1
<1>8. ASSUME NEW impact \in Impacts, Buy(impact) \/ Sell(impact) PROVE CapacityInv'
  <2> DEFINE amount == Amount(Order, Quote, Rate(impact))
  <2>1. Deals(impact) /\ amount > 0 /\ Records(amount, Rate(impact))
    BY <1>8 DEF Buy, Sell
  <2>2. Turn /\ Rate(impact) \in Nat
    BY <1>1, <2>1, OrderIsTyped DEF Deals
  <2>3. amount \in Int
    BY <1>1, <2>1, AmountWithin
  <2> HIDE DEF amount
  <2>4. amount \in Nat \ {0}
    BY <2>1, <2>3
  <2>5. amount = Amount(Order, Quote, Rate(impact))
    BY DEF amount
  <2>6. Within(config.limits, fills', Len(fills) + 1)
    BY <1>1, <2>1, <2>4, <2>5, FillIsWithin
  <2> QED  BY <1>5, <2>1, <2>2, <2>3, <2>6
<1>9. ASSUME NEW impact \in Impacts, Refuse(impact) \/ Oversell(impact) PROVE CapacityInv'
  <2>1. UNCHANGED <<bar, config, fills>> /\ dealt' = Today /\ DayStarted
    BY <1>9 DEF Refuse, Oversell
  <2>2. DayInv'
    BY <1>1, <2>1, DayIsKept
  <2> QED  BY <1>2, <2>1, <2>2 DEF CapacityInv
<1>10. CASE CloseBar
  <2>1. bar' = bar + 1 /\ UNCHANGED <<dealt, dealDay, config, fills>>
    BY <1>10 DEF CloseBar
  <2>2. bar \in Int /\ bar' \in Int /\ \A i \in DOMAIN fills : fills[i].bar \in Int
    <3>1. \A fill \in FillTypes : fill.bar \in Int
      BY DEF FillTypes
    <3>2. \A i \in DOMAIN fills : fills[i] \in FillTypes
      BY <1>1 DEF BatchInv
    <3> QED  BY <1>1, <2>1, <3>1, <3>2 DEF BatchInv
  <2>3. Day <= Day' /\ Day \in Int /\ Day' \in Int
    BY <2>1, <2>2, DaysGrow DEF Day
  <2>4. \A i \in DOMAIN fills : fills[i].bar <= bar'
    BY <1>1, <2>1, <2>2 DEF DayInv
  <2>5. dealDay # None => dealDay \in Int /\ dealDay <= Day'
    BY <1>1, <2>3 DEF DayInv
  <2>6. DayInv'
    BY <1>1, <2>1, <2>4, <2>5 DEF DayInv
  <2> QED  BY <1>2, <2>1, <2>6 DEF CapacityInv
<1>11. CASE CloseFails
  BY <1>2, <1>3, <1>11 DEF CloseFails, CapacityInv
<1>12. CASE UNCHANGED vars
  BY <1>2, <1>3, <1>12 DEF vars, CapacityInv
<1> QED  BY <1>4, <1>6, <1>7, <1>8, <1>9, <1>10, <1>11, <1>12 DEF Next

-----------------------------------------------------------------------------

\* Whatever the stocks, prices, costs, limits, portfolios and decisions, with
\* metrics the account explains the value of the position at every step, but
\* for a hundred-thousandth of what was sold off: what it began with, the
\* closing prices, the returns of the executions and their cost.
THEOREM AccountExplains == Spec => []ValueExplained
<1>1. CashInv /\ ExplainInv => ValueExplained
  BY GapIsWithin DEF CashInv
<1>2. Init => CashInv /\ ExplainInv
  BY BeginsCovered, BeginsExplained
<1>3. CashInv /\ ExplainInv /\ [Next]_vars => CashInv' /\ ExplainInv'
  BY StaysCovered, StaysExplained
<1> QED  BY <1>1, <1>2, <1>3, PTL DEF Spec

\* Whatever they are, the purchases of a bar spend no more than the cash it
\* began with, but for one tick, where purchases come first or settlement is
\* delayed.
THEOREM ProceedsAlwaysWait == Spec => []ProceedsWait
<1>1. CashInv /\ WaitInv => ProceedsWait
  BY DEF WaitInv
<1>2. Init => CashInv /\ WaitInv
  BY BeginsCovered, BeginsWaiting
<1>3. CashInv /\ WaitInv /\ [Next]_vars => CashInv' /\ WaitInv'
  BY StaysCovered, StaysWaiting
<1> QED  BY <1>1, <1>2, <1>3, PTL DEF Spec

\* Whatever they are, no execution exceeds a limit of its direction by more
\* than the correction, by itself or together with what was dealt that day.
THEOREM LimitsAreKept == Spec => []FillsWithinCapacity
<1>1. CashInv /\ ExplainInv /\ CapacityInv => FillsWithinCapacity
  BY DEF CapacityInv
<1>2. Init => CashInv /\ ExplainInv /\ CapacityInv
  BY BeginsCovered, BeginsExplained, BeginsWithin
<1>3. CashInv /\ ExplainInv /\ CapacityInv /\ [Next]_vars
        => CashInv' /\ ExplainInv' /\ CapacityInv'
  BY StaysCovered, StaysExplained, StaysWithin DEF ExplainInv
<1> QED  BY <1>1, <1>2, <1>3, PTL DEF Spec
=============================================================================
