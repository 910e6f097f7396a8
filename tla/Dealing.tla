------------------------------- MODULE Dealing -------------------------------
(***************************************************************************)
(* What one atomic executor does with the orders of each bar: the          *)
(* simulator's batch (simulator_executor.rs), the tradability, the volume  *)
(* limit, the sizing and the cost of every order (exchange_deal.rs,        *)
(* exchange_volume.rs, exchange_trade.rs, exchange_sizing.rs), and the     *)
(* position and the account they change (position.rs, position_cash.rs,    *)
(* account.rs).  One thread runs.                                          *)
(*                                                                         *)
(* Amounts are integers of a tenth of a share, the correction that         *)
(* rounding adds; prices are per tick; money is counted in 1/Scale of the  *)
(* unit of prices, and rates of cost in 1/Scale, so that no quotient but   *)
(* that of the cash limit is left, and that one is rounded.  Stocks are    *)
(* traded in units; their factor is 1.  Two amounts are close when they    *)
(* differ by a hundred-thousandth of the second: the absolute part of that *)
(* test is less than a tick.                                               *)
(***************************************************************************)
EXTENDS Integers, Sequences, FiniteSetsExt

CONSTANTS Stocks,
          Unit,       \* ticks in a trade unit
          Scale,      \* see above
          Markets,    \* what a bar's market may be: a quote for each stock
          Decisions,  \* the orders a bar's decision may hold
          Impacts,    \* what market impact may add to a rate of cost
          Configs,    \* costs, limits, settlement and order of dealing
          Portfolios, \* what the account may begin with
          None,
          BarsPerDay,
          MaxBars     \* bound: bars

Directions == {"sell", "buy"}
Limits == {"current", "cum"}
Correction == 1
Precision == 100000

\* known: price, volume and factor are there; capacity: of the kinds of limit.
Quotes == [price : [Directions -> Nat \ {0}], close : Nat \ {0}, suspended : BOOLEAN,
           limited : SUBSET Directions, known : BOOLEAN,
           capacity : [Limits -> {None} \cup Int]]
Orders == [stock : Stocks, direction : Directions, amount : Nat]
ConfigTypes == [parallel : BOOLEAN, settle : {"None", "cash"}, metrics : BOOLEAN,
                rate : [Directions -> Nat], minimum : Nat,
                limits : [Directions -> {None} \cup SUBSET Limits]]
Holding == [amount : Int, price : Nat]
AreHoldings(h) == DOMAIN h \subseteq Stocks /\ h \in [DOMAIN h -> Holding]

ASSUME DealingAssumption ==
  /\ Unit \in Nat /\ Unit > Correction /\ Scale \in Nat \ {0}
  /\ Markets \subseteq [Stocks -> Quotes] /\ Decisions \subseteq Seq(Orders)
  /\ Impacts \subseteq Nat /\ Configs \subseteq ConfigTypes
  /\ None \notin Int /\ None \notin Markets /\ \A l \in SUBSET Limits : l # None
  /\ BarsPerDay \in Nat \ {0} /\ MaxBars \in Nat
\* Nothing is owed: neither cash nor stocks.
ASSUME PortfolioAssumption ==
  \A p \in Portfolios : /\ p.cash \in Nat
                        /\ IsFiniteSet(DOMAIN p.holdings) /\ AreHoldings(p.holdings)
                        /\ \A s \in DOMAIN p.holdings : p.holdings[s].amount \in Nat

VARIABLES
  bar,      \* the calendar's step
  market,   \* the quotes of the bar, or None between two bars
  orders,   \* those of the bar's decision
  todo,     \* the places of those still to be dealt
  position, \* holdings, cash, delayed cash or None, settlement
  account,  \* accumulated returns, cost and turnover; value of the last row
  dealt,    \* amounts dealt in stocks on dealDay
  dealDay,  \* or None
  failure,  \* what ended the backtest, or "none"
  config,
  fills,    \* history: every execution
  opening,  \* history: the available cash when the bar began
  marked,   \* history: what closing prices have added to the position
  soldOff   \* history: what the holdings that were sold off were worth

vars == <<bar, market, orders, todo, position, account, dealt, dealDay, failure, config,
          fills, opening, marked, soldOff>>

Empty == [s \in {} |-> 0]

Value(amount, price) == Scale * amount * price
Fee(amount, price, rate) == Max({rate * amount * price, config.minimum})

StockValue(holdings) ==
  SumFunction([s \in DOMAIN holdings |-> Value(holdings[s].amount, holdings[s].price)])
Cash(p) == p.cash + (IF p.delayed = None THEN 0 ELSE p.delayed)
TotalValue(p) == StockValue(p.holdings) + Cash(p)
Held(p, s) == IF s \in DOMAIN p.holdings THEN p.holdings[s].amount ELSE 0

Init == \E p \in Portfolios :
          /\ bar = 0 /\ market = None /\ orders = <<>> /\ todo = {}
          /\ position = [holdings |-> p.holdings, cash |-> p.cash, delayed |-> None,
                         settle |-> "None"]
          /\ account = [returns |-> 0, cost |-> 0, turnover |-> 0, last |-> p.cash]
          /\ dealt = Empty /\ dealDay = None
          /\ failure = "none" /\ config \in Configs
          /\ fills = <<>> /\ opening = p.cash
          /\ marked = TotalValue(position) /\ soldOff = 0

-----------------------------------------------------------------------------
(* A bar begins (collect_data of the lifecycle and of the simulator).      *)

OpenBar(quotes, decision) ==
  /\ failure = "none" /\ market = None /\ bar < MaxBars
  /\ market' = quotes
  /\ orders' = decision /\ todo' = DOMAIN decision
  /\ position' = IF config.settle = "cash"
                 THEN [position EXCEPT !.settle = "cash", !.delayed = 0]
                 ELSE position
  /\ opening' = position.cash
  /\ UNCHANGED <<bar, account, dealt, dealDay, failure, config, fills, marked, soldOff>>

\* Seeded fault: sales come first.
ComesBuysLast(i, j) == IF config.parallel /\ orders[i].direction # orders[j].direction
                       THEN orders[i].direction = "sell" ELSE i < j
\* simulator_order_iterator: the sort of the parallel mode is stable.
Comes(i, j) == IF config.parallel /\ orders[i].direction # orders[j].direction
               THEN orders[i].direction = "buy" ELSE i < j

Current == CHOOSE i \in todo : \A j \in todo \ {i} : Comes(i, j)
Order == orders[Current]
Quote == market[Order.stock]
Price == Quote.price[Order.direction]
Rate(impact) == config.rate[Order.direction] + impact
Turn == failure = "none" /\ market # None /\ todo # {}

-----------------------------------------------------------------------------
(* How much of an order is dealt, and at what cost.                        *)

\* start_order_day
Day == bar \div BarsPerDay
Today == IF dealDay = None THEN Empty ELSE IF Day > dealDay THEN Empty ELSE dealt

Tradable(o, q) == ~q.suspended /\ o.direction \notin q.limited

Unlimited(o) == config.limits[o.direction] = None
\* A limit that has no value, or is cumulative where nothing was dealt yet.
Missing(o, q, kind) == kind \in config.limits[o.direction] /\ q.capacity[kind] = None
DealtMissing(o) == "cum" \in config.limits[o.direction] /\ o.stock \notin DOMAIN Today

\* Seeded fault: what was dealt before does not count.
LeftOfCapacity(o, q, kind) == q.capacity[kind]
Left(o, q, kind) == q.capacity[kind] - (IF kind = "cum" THEN Today[o.stock] ELSE 0)

\* clip_amount_by_volume
Clipped(o, q) ==
  IF Unlimited(o) THEN o.amount
  ELSE Max({0, Min({o.amount} \cup {Left(o, q, k) : k \in config.limits[o.direction]})})

\* round_amount_by_trade_unit of numerator / denominator ticks
Rounded(numerator, denominator) ==
  ((numerator + Correction * denominator) \div (denominator * Unit)) * Unit

\* Seeded fault: the cost is not left out of the cash.
Whole(price, rate) == Rounded(position.cash, Scale * price)
\* buy_amount_by_cash_limit, rounded
Affordable(price, rate) ==
  IF rate * (position.cash - config.minimum) >= Scale * config.minimum
  THEN Rounded(position.cash, (Scale + rate) * price)
  ELSE Rounded(position.cash - config.minimum, Scale * price)

\* Whether the cash and the amount were compared, and the cash was the less.
CashLimited(amount, price, rate) ==
  LET fee == Fee(amount, price, rate)
  IN position.cash >= fee /\ position.cash < Value(amount, price) + fee

BuyAmount(amount, price, rate) ==
  IF position.cash < Fee(amount, price, rate) THEN 0
  ELSE IF CashLimited(amount, price, rate)
       THEN Min({Affordable(price, rate), Rounded(amount, 1)})
       ELSE Rounded(amount, 1)

\* numpy_is_close
Tolerance(right) == (IF right < 0 THEN -right ELSE right) \div Precision
IsClose(left, right) == left - right \in -Tolerance(right) .. Tolerance(right)

\* About everything held may be sold although it is no whole number of units.
SellAmount(held, amount, price, rate) ==
  LET a == IF IsClose(amount, held) THEN amount ELSE Rounded(Min({held, amount}), 1)
  IN IF position.cash + Value(a, price) < Fee(a, price, rate) THEN 0 ELSE a

Amount(o, q, rate) ==
  IF o.direction = "buy" THEN BuyAmount(Clipped(o, q), q.price["buy"], rate)
  ELSE SellAmount(Held(position, o.stock), Clipped(o, q), q.price["sell"], rate)

-----------------------------------------------------------------------------
(* What an execution changes.                                              *)

With(holdings, s, holding) ==
  [t \in DOMAIN holdings \cup {s} |-> IF t = s THEN holding ELSE holdings[t]]
Without(holdings, s) == [t \in DOMAIN holdings \ {s} |-> holdings[t]]

Increased(holdings, s, amount, price) ==
  With(holdings, s, IF s \in DOMAIN holdings THEN [holdings[s] EXCEPT !.amount = @ + amount]
                    ELSE [amount |-> amount, price |-> price])
\* Seeded fault: a purchase revalues what was held already.
BoughtAnew(p, s, amount, price, fee) ==
  [p EXCEPT !.holdings = With(@, s, [amount |-> amount + Held(p, s), price |-> price]),
            !.cash = @ - (Value(amount, price) + fee)]
\* buy_stock, pay_for_purchase
Bought(p, s, amount, price, fee) ==
  [p EXCEPT !.holdings = Increased(@, s, amount, price),
            !.cash = @ - (Value(amount, price) + fee)]

\* A sale of about everything leaves nothing.
SellsOff(holdings, s, amount) == IsClose(holdings[s].amount, amount)
Reduced(holdings, s, amount) ==
  IF SellsOff(holdings, s, amount) THEN Without(holdings, s)
  ELSE With(holdings, s, [holdings[s] EXCEPT !.amount = @ - amount])

\* sell_stock, record_sale_proceeds
Sold(p, s, amount, price, fee) ==
  LET proceeds == Value(amount, price) - fee
  IN [p EXCEPT !.holdings = Reduced(@, s, amount),
               !.cash = IF p.settle = "cash" THEN @ ELSE @ + proceeds,
               !.delayed = IF p.settle = "cash" THEN @ + proceeds ELSE @]

\* update_state_from_order; stockPrice is the price the position has for the stock.
Booked(a, o, amount, price, fee, stockPrice) ==
  LET profit == Value(amount, stockPrice) - Value(amount, price)
  IN IF config.metrics
     THEN [a EXCEPT !.turnover = @ + Value(amount, price), !.cost = @ + fee,
                    !.returns = @ + (IF o.direction = "buy" THEN profit ELSE -profit)]
     ELSE a

-----------------------------------------------------------------------------
(* One order (deal_and_report).                                            *)

\* start_order_day has been here.
DayStarted == dealDay' = IF dealDay = None THEN Day ELSE Max({dealDay, Day})

Paid(amount, price, rate) == IF amount = 0 THEN 0 ELSE Fee(amount, price, rate)

\* The order is done with; the simulator adds what was dealt of it.
Records(amount, rate) ==
  /\ dealt' = [s \in DOMAIN Today \cup {Order.stock} |->
                 (IF s \in DOMAIN Today THEN Today[s] ELSE 0)
                   + (IF s = Order.stock THEN amount ELSE 0)]
  /\ DayStarted
  /\ todo' = todo \ {Current}
  /\ fills' = Append(fills, [bar |-> bar, stock |-> Order.stock, direction |-> Order.direction,
                             amount |-> amount, capacity |-> Quote.capacity,
                             spent |-> Value(amount, Price) + Paid(amount, Price, rate),
                             tick |-> Correction * (Scale + rate) * Price])
  /\ UNCHANGED <<bar, market, orders, failure, config, opening, marked>>

\* check_order
Untradable ==
  /\ Turn /\ ~Tradable(Order, Quote)
  /\ Records(0, 0)
  /\ UNCHANGED <<position, account, soldOff>>

\* Why an order that may be traded cannot be dealt: its limits, the cumulative
\* one first, or a division by the rate of cost.
LimitFails ==
  IF Unlimited(Order) THEN "none"
  ELSE IF config.limits[Order.direction] = {} \/ Missing(Order, Quote, "cum") THEN "limit"
  ELSE IF DealtMissing(Order) THEN "dealt"
  ELSE IF Missing(Order, Quote, "current") THEN "limit" ELSE "none"

Reason(rate) ==
  IF ~Quote.known THEN "market"
  ELSE IF LimitFails # "none" THEN LimitFails
  ELSE IF /\ Order.direction = "buy" /\ rate = 0
          /\ CashLimited(Clipped(Order, Quote), Price, rate) THEN "ratio"
  ELSE "none"

Refuse(impact) ==
  /\ Turn /\ Tradable(Order, Quote)
  /\ Reason(Rate(impact)) # "none" /\ failure' = Reason(Rate(impact))
  /\ dealt' = Today /\ DayStarted
  /\ UNCHANGED <<bar, market, orders, todo, position, account, config, fills, opening, marked,
                 soldOff>>

\* calculate; what follows depends on the amount.
Deals(impact) == Turn /\ Tradable(Order, Quote) /\ Reason(Rate(impact)) = "none"

Nothing(impact) ==
  /\ Deals(impact) /\ Amount(Order, Quote, Rate(impact)) = 0
  /\ Records(0, Rate(impact))
  /\ UNCHANGED <<position, account, soldOff>>

\* update_order: a purchase changes the position first, a sale the account.
Buy(impact) ==
  /\ Deals(impact) /\ Order.direction = "buy"
  /\ LET amount == Amount(Order, Quote, Rate(impact))
         fee == Fee(amount, Price, Rate(impact))
     IN /\ amount > 0
        /\ position' = Bought(position, Order.stock, amount, Price, fee)
        /\ account' = Booked(account, Order, amount, Price, fee,
                             position'.holdings[Order.stock].price)
        /\ Records(amount, Rate(impact))
  /\ UNCHANGED soldOff

\* A sale of more than is held, and not of about everything.
Exceeds(amount) ==
  LET held == Held(position, Order.stock) IN amount > held /\ ~IsClose(held, amount)

Sell(impact) ==
  /\ Deals(impact) /\ Order.direction = "sell"
  /\ LET amount == Amount(Order, Quote, Rate(impact))
         fee == Fee(amount, Price, Rate(impact))
         held == position.holdings[Order.stock]
     IN /\ amount \in Nat \ {0} /\ ~Exceeds(amount)
        /\ account' = Booked(account, Order, amount, Price, fee, held.price)
        /\ position' = Sold(position, Order.stock, amount, Price, fee)
        /\ soldOff' = soldOff + (IF SellsOff(position.holdings, Order.stock, amount)
                                 THEN Value(amount, held.price) ELSE 0)
        /\ Records(amount, Rate(impact))

\* Rounding up by the correction asks for more than is held: the account is
\* booked and the holding reduced, the cash and the record of the day not.
Oversell(impact) ==
  /\ Deals(impact) /\ Order.direction = "sell"
  /\ LET amount == Amount(Order, Quote, Rate(impact))
     IN /\ amount > 0 /\ Exceeds(amount)
        /\ account' = Booked(account, Order, amount, Price, Fee(amount, Price, Rate(impact)),
                             position.holdings[Order.stock].price)
        /\ position' = [position EXCEPT !.holdings = Reduced(@, Order.stock, amount)]
  /\ failure' = "oversell"
  /\ dealt' = Today /\ DayStarted
  /\ UNCHANGED <<bar, market, orders, todo, config, fills, opening, marked, soldOff>>

-----------------------------------------------------------------------------
(* The bar ends (update_bar_end, the calendar's step, settle_commit).      *)

Closing == failure = "none" /\ market # None /\ todo = {}

\* update_current_position
AtClose(holdings) ==
  [s \in DOMAIN holdings |-> IF market[s].suspended THEN holdings[s]
                             ELSE [holdings[s] EXCEPT !.price = market[s].close]]

Marks(p) == marked' = marked + StockValue(p.holdings) - StockValue(position.holdings)

\* The last row of an account without metrics is never looked at.
CloseBar ==
  /\ Closing /\ (config.metrics => account.last # 0)
  /\ LET p == [position EXCEPT !.holdings = AtClose(@)]
     IN /\ account' = IF config.metrics THEN [account EXCEPT !.last = TotalValue(p)] ELSE account
        /\ position' = [p EXCEPT !.cash = Cash(p), !.delayed = None, !.settle = "None"]
        /\ Marks(p)
  /\ market' = None /\ bar' = bar + 1
  /\ UNCHANGED <<orders, todo, dealt, dealDay, failure, config, fills, opening, soldOff>>

\* The rates of the row are fractions of the value of the row before.
CloseFails ==
  /\ Closing /\ config.metrics /\ account.last = 0
  /\ position' = [position EXCEPT !.holdings = AtClose(@)]
  /\ Marks(position')
  /\ failure' = "value"
  /\ UNCHANGED <<bar, market, orders, todo, account, dealt, dealDay, config, fills, opening,
                 soldOff>>

Next == \/ \E quotes \in Markets, decision \in Decisions : OpenBar(quotes, decision)
        \/ Untradable
        \/ \E impact \in Impacts :
             \/ Refuse(impact) \/ Nothing(impact) \/ Buy(impact)
             \/ Sell(impact) \/ Oversell(impact)
        \/ CloseBar \/ CloseFails

Spec == Init /\ [][Next]_vars

-----------------------------------------------------------------------------
(* Properties.                                                             *)

\* Without delayed settlement the cash never falls short by more than what the
\* correction of a purchase that was made costs: the limit by cash leaves
\* room for the cost of every rate, minimum and impact, and no sale is made
\* that costs more than it and the cash can pay.
CashCovers ==
  config.settle = "None" =>
    \/ position.cash >= 0
    \/ \E i \in DOMAIN fills : /\ fills[i].direction = "buy"
                               /\ fills[i].amount > 0
                               /\ position.cash + fills[i].tick >= 0

\* With metrics, the account explains the value of the position: it is what it
\* began with, what its closing prices added, the accumulated returns of the
\* executions, less the accumulated cost.  Only what a sale of about everything
\* drops or invents is unexplained, all in all at most a hundred-thousandth of
\* what was sold off.
Unexplained == TotalValue(position) - (marked + account.returns - account.cost)
ValueExplained ==
  config.metrics /\ failure # "oversell" =>
    Unexplained \in -(soldOff \div Precision) .. soldOff \div Precision

\* What is sold in a bar pays for no purchase of the bar when purchases come
\* first or settlement is delayed, whatever the order of the decision.
ProceedsWait ==
  config.parallel \/ config.settle = "cash" =>
    LET purchases == {i \in DOMAIN fills : /\ fills[i].bar = bar /\ fills[i].amount > 0
                                           /\ fills[i].direction = "buy"}
        spent == SumFunction([i \in purchases |-> fills[i].spent])
    IN purchases = {} \/ spent <= opening + Max({fills[i].tick : i \in purchases})

\* No execution exceeds a limit of its direction by more than the correction: of
\* the bar by itself, cumulative together with what was dealt before in the
\* stock that day, whichever way.
FillsWithinCapacity ==
  \A i \in DOMAIN fills :
    fills[i].amount > 0 /\ config.limits[fills[i].direction] # None =>
      \A kind \in config.limits[fills[i].direction] :
        LET counted == {j \in 1 .. i : /\ fills[j].stock = fills[i].stock
                                       /\ IF kind = "current" THEN j = i
                                          ELSE fills[j].bar \div BarsPerDay
                                                 = fills[i].bar \div BarsPerDay}
        IN SumFunction([j \in counted |-> fills[j].amount])
             <= fills[i].capacity[kind] + Correction

\* Documented: a cumulative capacity is reduced by prior fills; there need be none.
FirstOrderDealt == failure # "dealt"

=============================================================================
