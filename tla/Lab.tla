--------------------------------- MODULE Lab ---------------------------------
(***************************************************************************)
(* The research replay of internal/lab/lab.go: what an experiment is, what *)
(* a sleeve is worth at an observation, and what its strategy decides.     *)
(*                                                                         *)
(* Money is in units of 1/200000 US dollar: on a fixture whose prices are  *)
(* multiples of a twentieth of a dollar every product and every half below *)
(* is exact, as the decimals of the code are.  Times are in minutes.       *)
(***************************************************************************)
EXTENDS Integers, Sequences, Sums

CONSTANT LongName   \* a name of more than 60 bytes, or of more than one line

Symbols == {"AAPL", "MSFT"}

-----------------------------------------------------------------------------
(* NormalizeExperiment *)

\* name "" is a blank one; threshold 0 and a symbol without a shock are what an
\* omitted field decodes to.
Refused == [name |-> "refused"]

Threshold == 1..5000     \* basis points
Shock == -5000..5000

ValidExperiment(e) ==
    /\ e.name # LongName
    /\ e.threshold \in {0} \cup Threshold
    /\ DOMAIN e.shocks \subseteq Symbols
    /\ \A s \in DOMAIN e.shocks : e.shocks[s] \in Shock

NormalizeExperiment(e) ==
    IF ~ValidExperiment(e) THEN Refused
    ELSE [name      |-> IF e.name = "" THEN "Baseline" ELSE e.name,
          threshold |-> IF e.threshold = 0 THEN 100 ELSE e.threshold,
          shocks    |-> e.shocks]

-----------------------------------------------------------------------------
(* The fixture *)

Quote == [symbol : STRING, currency : STRING, bid : Int, ask : Int, at : Int]
Position == [symbol : STRING, currency : STRING, units : Int, cost : Int]
Sleeve == [id : STRING, cash : Int, strategy : STRING, positions : Seq(Position)]
Observation == [at : Int, quotes : Seq(Quote)]
Fixture == [sleeves : Seq(Sleeve), observations : Seq(Observation)]

-----------------------------------------------------------------------------
(* Value *)

\* The quote of a symbol; Valuable excludes a second one.
Mark(quotes, symbol) ==
    quotes[CHOOSE j \in DOMAIN quotes : quotes[j].symbol = symbol]

\* A usable mark: US dollars, not crossed, at most maxAge old and not of the future.
ValidMark(q, at, maxAge) ==
    /\ q.currency = "USD"
    /\ q.bid > 0 /\ q.ask >= q.bid
    /\ at - q.at \in 0..maxAge

\* Not the code: any quote of the symbol will do as a mark.
ValuableUnchecked(s, quotes, at, maxAge) == s.cash >= 0 /\ maxAge > 0

\* One position that cannot be marked makes the whole sleeve worthless to state.
Valuable(s, quotes, at, maxAge) ==
    /\ s.cash >= 0 /\ maxAge > 0
    /\ \A i, j \in DOMAIN quotes : quotes[i].symbol = quotes[j].symbol => i = j
    /\ \A i \in DOMAIN s.positions :
         LET p == s.positions[i] IN
         /\ p.currency = "USD" /\ p.units > 0 /\ p.cost >= 0
         /\ \E j \in DOMAIN quotes : /\ quotes[j].symbol = p.symbol
                                     /\ ValidMark(quotes[j], at, maxAge)

Mid(q) == (q.bid + q.ask) \div 2

\* What a sleeve is worth at its marks: midpoints for equity, bids for liquidation.
Worth(s, marks, at) ==
    LET held == s.positions
        marketValue == Total([i \in DOMAIN held |-> held[i].units * Mid(marks[i])])
        liquidation == Total([i \in DOMAIN held |-> held[i].units * marks[i].bid])
        cost == Total([i \in DOMAIN held |-> held[i].cost])
    IN [sleeve      |-> s.id,
        at          |-> at,
        marketValue |-> marketValue,
        equity      |-> s.cash + marketValue,
        liquidation |-> s.cash + liquidation,
        pnl         |-> marketValue - cost,
        quotes      |-> marks]

\* The snapshot of a valuable sleeve: every position at the quote of its symbol.
Snapshot(s, quotes, at) ==
    Worth(s, [i \in DOMAIN s.positions |-> Mark(quotes, s.positions[i].symbol)], at)

-----------------------------------------------------------------------------
(* ReplayExperiment *)

MaxAge == 5

Shocked(price, bps) == (price \div 10000) * (10000 + bps)

\* The quotes of observation i: the last one is shocked.
Observed(fixture, e, i) ==
    LET shock(q) == IF q.symbol \in DOMAIN e.shocks THEN e.shocks[q.symbol] ELSE 0
        quotes == fixture.observations[i].quotes
    IN IF i < Len(fixture.observations) THEN quotes
       ELSE [j \in DOMAIN quotes |->
               [quotes[j] EXCEPT !.bid = Shocked(@, shock(quotes[j])),
                                 !.ask = Shocked(@, shock(quotes[j]))]]

Abs(n) == IF n < 0 THEN -n ELSE n

\* A move of at least the threshold, either way, is put up for review.
Reviews(strategy, snap, threshold) ==
    LET basis == snap.marketValue - snap.pnl IN
    /\ strategy = "review-move-v1"
    /\ basis > 0 /\ Abs(snap.pnl) >= (basis \div 10000) * threshold

Replayable(fixture, e) ==
    \A i \in DOMAIN fixture.observations, k \in DOMAIN fixture.sleeves :
        Valuable(fixture.sleeves[k], Observed(fixture, e, i),
                 fixture.observations[i].at, MaxAge)

\* Snapshot and decision [i][k] are of sleeve k at observation i: the code lists
\* them observation by observation.
ReplayExperiment(fixture, e) ==
    LET snapshots ==
            [i \in DOMAIN fixture.observations |-> [k \in DOMAIN fixture.sleeves |->
                Snapshot(fixture.sleeves[k], Observed(fixture, e, i),
                         fixture.observations[i].at)]]
    IN [snapshots |-> snapshots,
        decisions |->
            [i \in DOMAIN fixture.observations |-> [k \in DOMAIN fixture.sleeves |->
                IF Reviews(fixture.sleeves[k].strategy, snapshots[i][k], e.threshold)
                THEN "review" ELSE "hold"]]]
=============================================================================
