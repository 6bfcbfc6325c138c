----------------------------- MODULE MCDemoProbe -----------------------------
(* DemoProbe for TLC: for each read, answers that just pass every gate, and for  *)
(* each gate one that fails it alone.                                            *)
EXTENDS DemoProbe

CONSTANTS AccountIDs, Instruments

Aggregate(age, cid, cash, total, holdings) ==
    [dated |-> TRUE, currency |-> "USD", age |-> age, cid |-> cid, cash |-> cash,
     total |-> total, holdings |-> holdings, mirrors |-> 0]

Funded(cid) == Aggregate(120, cid, 50000, 1000000, 0)

Aggregates ==
    UNION {{Funded(c), Aggregate(-10, c, 60000, 1000000, 0),
            Aggregate(121, c, 50000, 1000000, 0), Aggregate(-11, c, 50000, 1000000, 0),
            Aggregate(0, c, 49999, 1000000, 0), Aggregate(0, c, 50000, 999999, 0),
            Aggregate(0, c, 50000, 1000000, 1),
            [Funded(c) EXCEPT !.mirrors = 1], [Funded(c) EXCEPT !.dated = FALSE],
            [Funded(c) EXCEPT !.currency = "EUR"]}
           : c \in AccountIDs}
    \cup {Funded(0)}

Books == {[n \in BookArrays |-> 0],
          [n \in BookArrays |-> IF n = "exitOrders" THEN 1 ELSE 0],
          [n \in BookArrays \ {"mirrors"} |-> 0]}

Item(symbol, id, tradable) ==
    [symbol |-> symbol, id |-> id, tradable |-> tradable, buyable |-> TRUE]

Searches ==
    {<<Item("BTC.X", 9, TRUE), Item("BTC", i, TRUE)>> : i \in Instruments}
    \cup {<<Item("BTC", 1, FALSE)>>, <<[Item("BTC", 1, TRUE) EXCEPT !.buyable = FALSE]>>,
          <<Item("BTC", 0, TRUE)>>, <<Item("BTC.X", 9, TRUE)>>}

Quote(id, age, bid, ask) ==
    [id |-> id, dated |-> TRUE, quoteType |-> "realtime", age |-> age,
     bid |-> bid, ask |-> ask]

\* The ceiling over an ask of 100.50 is 100.71.
Quotes ==
    UNION {{Quote(i, 30, 10000, 10050), Quote(i, 0, 10050, 10071),
            Quote(i, 0, 10050, 10072), Quote(i, 31, 10000, 10050),
            Quote(i, 0, 10000, 10051), Quote(i, 0, 10000, 10000),
            [Quote(i, 30, 10000, 10050) EXCEPT !.quoteType = "delayed"],
            [Quote(i, 30, 10000, 10050) EXCEPT !.dated = FALSE]}
           : i \in Instruments}

Config(fits, minimum) == [fits |-> fits, minimum |-> minimum]

Eligibility(id, configs) ==
    [id |-> id, currency |-> "USD", canOpen |-> TRUE, symbol |-> "BTC",
     minExposure |-> 10000, configs |-> configs]

Eligible(id) == Eligibility(id, <<Config(TRUE, 10000)>>)

Eligibilities ==
    UNION {{[Eligible(i) EXCEPT !.canOpen = FALSE], [Eligible(i) EXCEPT !.symbol = "BTC.X"],
            [Eligible(i) EXCEPT !.currency = "EUR"],
            [Eligible(i) EXCEPT !.minExposure = 10001],
            [Eligible(i) EXCEPT !.minExposure = -1]} : i \in Instruments}
    \cup
    {Eligibility(i, c) : i \in Instruments,
       c \in {<<Config(TRUE, 10000)>>, <<Config(TRUE, 10001)>>,
              <<Config(TRUE, 10001), Config(TRUE, 0)>>,
              <<Config(TRUE, 10000), Config(FALSE, -1)>>,
              <<Config(TRUE, -1)>>, <<Config(FALSE, 10000)>>, <<>>}}

Cost(type, value) == [type |-> type, currency |-> "USD", value |-> value]

Costs(id, age, items) == [id |-> id, dated |-> TRUE, age |-> age, items |-> items]

CostEstimates ==
    {Costs(i, a, c) : i \in Instruments, a \in {120, 121},
       c \in {<<Cost("markup", 200)>>, <<Cost("markup", 200), Cost("overnightFee", 0)>>,
              <<Cost("markup", 100), Cost("marketSpread", 101)>>,
              <<Cost("overnightFee", 1)>>, <<Cost("ticketFee", 0)>>,
              <<Cost("markup", -1)>>, <<[Cost("markup", 200) EXCEPT !.currency = "EUR"]>>,
              <<>>}}
    \cup {[Costs(i, 120, <<Cost("markup", 200)>>) EXCEPT !.dated = FALSE] : i \in Instruments}

MCBodies ==
    [account |-> Aggregates, book |-> Books, instrument |-> Searches,
     quote |-> Quotes, eligibility |-> Eligibilities, costs |-> CostEstimates]

\* No answer, an unread success, an unread refusal, and error statuses.
MCFailures ==
    {[status |-> 0, form |-> "unread"], [status |-> 200, form |-> "unread"],
     [status |-> 404, form |-> "unread"]}
    \cup {[status |-> s, form |-> "broken"] : s \in {200, 302, 404, 422, 429, 503}}
=============================================================================
