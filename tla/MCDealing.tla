------------------------------ MODULE MCDealing ------------------------------
(* Small instances of Dealing for TLC: two stocks, units of one share.      *)
EXTENDS Dealing, TLC

Even == [price |-> [d \in Directions |-> 3], close |-> 3, suspended |-> FALSE,
         limited |-> {}, known |-> TRUE, capacity |-> [k \in Limits |-> 35]]
Dearer == [Even EXCEPT !.price = [sell |-> 4, buy |-> 5], !.close = 4,
                       !.capacity = [current |-> 12, cum |-> 50]]

\* a trades, and b too, or b is suspended, at its limit, or unknown.
MCMarkets ==
  {[s \in Stocks |-> Even], [s \in Stocks |-> Dearer],
   [s \in Stocks |-> IF s = "a" THEN [Even EXCEPT !.limited = {"buy"}]
                     ELSE [Dearer EXCEPT !.suspended = TRUE]],
   [s \in Stocks |-> IF s = "a" THEN [Dearer EXCEPT !.capacity = [current |-> None, cum |-> 30]]
                     ELSE [Even EXCEPT !.known = FALSE]]}

O(s, d, n) == [stock |-> s, direction |-> d, amount |-> n]
MCDecisions ==
  {<<>>, <<O("a", "sell", 20), O("a", "buy", 40)>>, <<O("a", "buy", 25), O("b", "buy", 15)>>,
   <<O("b", "sell", 19), O("a", "sell", 30)>>, <<O("a", "buy", 20), O("a", "sell", 30)>>,
   <<O("a", "sell", 200001), O("b", "sell", 300000)>>}

\* Limits by no, by current and by cumulative capacity, with or without settlement.
Free == [parallel |-> FALSE, settle |-> "None", metrics |-> TRUE, rate |-> [d \in Directions |-> 1],
         minimum |-> 0, limits |-> [d \in Directions |-> None]]
MCConfigs ==
  {[Free EXCEPT !.rate = [sell |-> 2, buy |-> 0]],
   [Free EXCEPT !.parallel = TRUE, !.minimum = 150],
   [Free EXCEPT !.settle = "cash", !.minimum = 15],
   [Free EXCEPT !.metrics = FALSE, !.limits = [sell |-> {"cum"}, buy |-> None]],
   [Free EXCEPT !.limits = [sell |-> {"cum", "current"}, buy |-> {"current"}], !.parallel = TRUE],
   [Free EXCEPT !.settle = "cash", !.limits = [sell |-> None, buy |-> {"cum"}]],
   [Free EXCEPT !.limits = [sell |-> {}, buy |-> None], !.minimum = 15]}

\* Round and odd lots, with little, some and no cash, and large holdings that
\* orders come close to.
MCPortfolios ==
  {[cash |-> 700, holdings |-> ("a" :> [amount |-> 30, price |-> 2])],
   [cash |-> 2000, holdings |-> ("a" :> [amount |-> 19, price |-> 4])
                                  @@ ("b" :> [amount |-> 20, price |-> 3])],
   [cash |-> 0, holdings |-> ("b" :> [amount |-> 19, price |-> 3])],
   [cash |-> 0, holdings |-> ("a" :> [amount |-> 200000, price |-> 2])
                               @@ ("b" :> [amount |-> 199999, price |-> 3])]}
=============================================================================
