----------------------------- MODULE EtoroClient -----------------------------
(***************************************************************************)
(* What the eToro client makes of an HTTP answer                           *)
(* (internal/etoro/client.go and trading.go).                              *)
(*                                                                         *)
(* An answer has a status (0: none arrived), a form and, when its form is  *)
(* "whole", the data of a body that decodes; "broken" is a body that does  *)
(* not decode or lacks a required field, and "unread" one that broke off   *)
(* or is longer than 2 MiB.  Every operation below names the error the     *)
(* client returns, "none" when it returns a value.                         *)
(***************************************************************************)
EXTENDS Integers, Sequences, FiniteSetsExt

Form == {"whole", "broken", "unread"}

\* The error types the callers tell apart: "api" is APIError, with the status.
Error == {"none", "transport", "api", "schema", "other"}

\* request: a body that cannot be read hides its status's APIError.
RequestError(a) ==
    CASE a.status = 0 -> "transport"
      [] a.status # 0 /\ a.form = "unread" -> "other"
      [] a.status \notin {0} \cup 200..299 /\ a.form # "unread" -> "api"
      [] OTHER -> "none"

\* The end of every typed read: valid is what the operation demands of a.data.
TypedError(a, valid) ==
    IF RequestError(a) # "none" THEN RequestError(a)
    ELSE IF a.form = "whole" /\ valid THEN "none"
    ELSE "schema"

-----------------------------------------------------------------------------
(* Reads of the account *)

\* ParseAggregate: a parsable time, US dollars, and a total that is not negative.
ValidAggregate(d) == d.dated /\ d.currency = "USD" /\ d.total >= 0

\* FetchAggregate has a request of its own, which takes nothing but a 200.
FetchAggregateError(a) ==
    IF RequestError(a) = "none" /\ a.status # 200 THEN "api"
    ELSE TypedError(a, ValidAggregate(a.data))

\* FetchDemoBook demands nine arrays and counts what is in them.
BookArrays == {"positions", "mirrors", "orders", "stockOrders", "entryOrders",
               "exitOrders", "ordersForOpen", "ordersForClose",
               "ordersForCloseMultiple"}

ValidBook(d) == BookArrays \subseteq DOMAIN d

FetchDemoBookError(a) == TypedError(a, ValidBook(a.data))

-----------------------------------------------------------------------------
(* Reads of the market *)

\* FindInstrument: the first item of that very symbol, with a positive ID.
ExactItems(d, symbol) == {i \in DOMAIN d : d[i].symbol = symbol /\ d[i].id > 0}
ExactItem(d, symbol) == d[Min(ExactItems(d, symbol))]

FindInstrumentError(a, symbol) ==
    IF TypedError(a, TRUE) # "none" THEN TypedError(a, TRUE)
    ELSE IF ExactItems(a.data, symbol) = {} THEN "other" ELSE "none"

FetchRateError(a, id) ==
    LET d == a.data IN
    TypedError(a, d.id = id /\ d.dated /\ d.bid > 0 /\ d.ask > d.bid)

\* FetchDemoEligibility.  A configuration fits when it is real, long, not
\* potential and has leverage 1; a negative minimum stands for a missing one too.
FittingConfigs(d) == {i \in DOMAIN d.configs : d.configs[i].fits}

FetchDemoEligibilityError(a, id) ==
    LET d == a.data IN
    TypedError(a,
        /\ d.currency = "USD"
        /\ d.id = id
        /\ d.minExposure >= 0
        /\ \A i \in FittingConfigs(d) : d.configs[i].minimum >= 0)

\* The last configuration that fits gives the minimum.
RealLongUnlevered(d) == FittingConfigs(d) # {}
MinPositionAmount(d) == d.configs[Max(FittingConfigs(d))].minimum

FetchDemoCostsError(a, id) ==
    LET d == a.data IN
    TypedError(a,
        /\ d.id = id
        /\ d.dated
        /\ d.items # <<>>
        /\ \A i \in DOMAIN d.items :
             d.items[i].currency = "USD" /\ d.items[i].value >= 0)

-----------------------------------------------------------------------------
(* Orders *)

\* SubmitDemoMarket: a receipt names an order and repeats the request's ID.
SubmitDemoMarketError(a, requestID) ==
    TypedError(a, a.data.orderId > 0 /\ a.data.referenceId = requestID)

\* lookupDemoOrder, by reference or by ID.
LookupDemoOrderError(a) ==
    TypedError(a, a.data.orderId > 0 /\ a.data.statusId > 0)
=============================================================================
