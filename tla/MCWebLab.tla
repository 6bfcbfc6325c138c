------------------------------ MODULE MCWebLab ------------------------------
(* WebLab for TLC: the fixture of the repository, and one with a late mark. *)
EXTENDS WebLab, TLC

USD == 200000   \* units of money in a dollar
Cents(n) == n * 2000

Holding(symbol, units, cost) ==
    <<[symbol |-> symbol, currency |-> "USD", units |-> units, cost |-> cost * USD]>>

Sleeves ==
    <<[id |-> "core", cash |-> 4000 * USD, strategy |-> "hold-v1",
       positions |-> Holding("AAPL", 10, 2000)],
      [id |-> "experiment", cash |-> 2000 * USD, strategy |-> "review-move-v1",
       positions |-> Holding("MSFT", 5, 2000)]>>

QuoteOf(symbol, bid, at) ==
    [symbol |-> symbol, currency |-> "USD", at |-> at,
     bid |-> Cents(bid), ask |-> Cents(bid + 20)]

ObservationOf(at, aapl, msft, marked) ==
    [at |-> at, quotes |-> <<QuoteOf("AAPL", aapl, at), QuoteOf("MSFT", msft, marked)>>]

FixtureMarkedAt(t) ==
    [sleeves |-> Sleeves,
     observations |-> <<ObservationOf(0, 19990, 39990, 0), ObservationOf(1, 20090, 39790, 1),
                        ObservationOf(8, 19790, 40490, t)>>]

MCFixtures == "fixture-v1" :> FixtureMarkedAt(8) @@ "late" :> FixtureMarkedAt(2)

ExperimentOf(name, shocks, threshold) ==
    [name |-> name, shocks |-> shocks, threshold |-> threshold]

NoShocks == [s \in {} |-> 0]

MCExperiments ==
    {ExperimentOf("", NoShocks, 0), ExperimentOf("Sensitive review", NoShocks, 50),
     ExperimentOf("MSFT +10%", "MSFT" :> 1000, 200), ExperimentOf(LongName, NoShocks, 100)}

\* Submitted here: the baseline, and one that a retry may be edited to.
MCForms == {e \in MCExperiments : e.name \in {"", "Sensitive review"}}
=============================================================================
