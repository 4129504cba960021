------------------------------- MODULE Queries -------------------------------
(***************************************************************************)
(* The two queries of the API, served by the same process as the           *)
(* purchases: GET /sale-status (services/sale-status.service.js) and       *)
(* GET /purchase-status/:userId (services/purchase-status.service.js).     *)
(* Each samples what it needs when it arrives, awaits one command, and     *)
(* answers.  Neither changes a store (QueryProofs: QueriesObserveOnly).    *)
(***************************************************************************)
EXTENDS FlashSale

CONSTANTS
  StatusQuery, Lookup,   \* the requests of a behaviour
  LastInstant            \* bound: the clock stops there

ASSUME QueriesAssumption == LastInstant \in Nat \ {0}

VARIABLES
  clock,          \* the API's clock
  statusPc,       \* where each status query stands
  statusNow,      \* its `now', sampled when it arrived
  statusAnswer,   \* its answer, with the sale and round it was about
  statusAfter,    \* history: the status queries answered before it arrived
  lookupPc,       \* where each lookup stands
  lookupUser,     \* its normalizedUserId
  lookupAnswer,   \* its answer
  lookupTold      \* history: its user had been told of a purchase before

statusVars == <<statusPc, statusNow, statusAnswer, statusAfter>>
lookupVars == <<lookupPc, lookupUser, lookupAnswer, lookupTold>>
queryVars == <<clock, statusVars, lookupVars>>

SaleStatus == {"upcoming", "active", "sold_out", "ended"}

\* No answer yet, or one without a status.
NoStatus(why) == [status |-> why, stock |-> 0, sale |-> NoSale, round |-> 0]

QueryTypeOK ==
  /\ clock \in 1 .. LastInstant
  /\ statusPc \in [StatusQuery -> {"idle", "stock", "done"}]
  /\ statusNow \in [StatusQuery -> 0 .. LastInstant]
  /\ statusAnswer \in
       [StatusQuery -> [status : SaleStatus, stock : Nat, sale : Sale, round : Nat]
          \cup {NoStatus(why) : why \in {"none", "internal_error", "dropped"}}]
  /\ statusAfter \in [StatusQuery -> SUBSET StatusQuery]
  /\ lookupPc \in [Lookup -> {"idle", "find", "done"}]
  /\ lookupUser \in [Lookup -> User \cup {InvalidUserId}]
  /\ lookupAnswer \in
       [Lookup -> {"none", "true", "false", "invalid_request", "internal_error",
                   "dropped"}]
  /\ lookupTold \in [Lookup -> BOOLEAN]
  /\ \A q \in StatusQuery : statusPc[q] = "stock" => apiSale # NoSale

QueryInit ==
  /\ Init
  /\ clock = 1
  /\ statusPc = [q \in StatusQuery |-> "idle"]
  /\ statusNow = [q \in StatusQuery |-> 0]
  /\ statusAnswer = [q \in StatusQuery |-> NoStatus("none")]
  /\ statusAfter = [q \in StatusQuery |-> {}]
  /\ lookupPc = [l \in Lookup |-> "idle"]
  /\ lookupUser = [l \in Lookup |-> InvalidUserId]
  /\ lookupAnswer = [l \in Lookup |-> "none"]
  /\ lookupTold = [l \in Lookup |-> FALSE]

StatusInFlight == {q \in StatusQuery : statusPc[q] = "stock"}
LookupsInFlight == {l \in Lookup : lookupPc[l] = "find"}

-----------------------------------------------------------------------------
(* GET /sale-status.                                                       *)

\* `now = new Date()' is a default argument: sampled before the first await.
ReceiveStatus(q) ==
  /\ apiSale # NoSale
  /\ statusPc[q] = "idle"
  /\ statusPc' = [statusPc EXCEPT ![q] = "stock"]
  /\ statusNow' = [statusNow EXCEPT ![q] = clock]
  /\ statusAfter' = [statusAfter EXCEPT ![q] =
                       {p \in StatusQuery : statusAnswer[p].status \in SaleStatus}]
  /\ UNCHANGED <<clock, statusAnswer, lookupVars, vars>>

StatusReply(q, answer) ==
  /\ statusPc' = [statusPc EXCEPT ![q] = "done"]
  /\ statusNow' = [statusNow EXCEPT ![q] = 0]
  /\ statusAnswer' = [statusAnswer EXCEPT ![q] = answer]
  /\ UNCHANGED <<clock, statusAfter, lookupVars>>

\* readRemainingStock: GET flashsale:stock, which may be missing.
AnswerStatus(q) ==
  /\ statusPc[q] = "stock"
  /\ StatusReply(q,
       IF StockReadable(stock)
         THEN [status |-> GetSaleStatus(statusNow[q], StartTime[apiSale],
                                        EndTime[apiSale], stock),
               stock |-> stock, sale |-> apiSale, round |-> Len(resets)]
         ELSE NoStatus("internal_error"))
  /\ UNCHANGED vars

-----------------------------------------------------------------------------
(* GET /purchase-status/:userId.                                           *)

LookupReply(l, answer) ==
  /\ lookupPc' = [lookupPc EXCEPT ![l] = "done"]
  /\ lookupAnswer' = [lookupAnswer EXCEPT ![l] = answer]

RejectLookup(l, raw) ==
  /\ apiSale # NoSale
  /\ lookupPc[l] = "idle"
  /\ CanonicalUserId(raw) = InvalidUserId
  /\ LookupReply(l, "invalid_request")
  /\ UNCHANGED <<clock, statusVars, lookupUser, lookupTold, vars>>

\* Somebody has told u of a purchase, by an answer or by an earlier lookup.
ToldOfPurchase(u) ==
  \/ \E r \in Request : response[r] = "success" /\ user[r] = u
  \/ \E l \in Lookup : lookupAnswer[l] = "true" /\ lookupUser[l] = u

ReceiveLookup(l, raw) ==
  /\ apiSale # NoSale
  /\ lookupPc[l] = "idle"
  /\ CanonicalUserId(raw) # InvalidUserId
  /\ lookupPc' = [lookupPc EXCEPT ![l] = "find"]
  /\ lookupUser' = [lookupUser EXCEPT ![l] = CanonicalUserId(raw)]
  /\ lookupTold' = [lookupTold EXCEPT ![l] = ToldOfPurchase(CanonicalUserId(raw))]
  /\ UNCHANGED <<clock, statusVars, lookupAnswer, vars>>

\* Faulty variant: looks in the active sale only.
HasPurchaseInActiveSale(u) ==
  \E p \in purchases : p.user = u /\ p.sale = activeSaleId

\* SELECT EXISTS, over the purchases of every sale.
HasPurchaseForUserId(u) == \E p \in purchases : p.user = u

AnswerLookup(l) ==
  /\ lookupPc[l] = "find"
  /\ LookupReply(l, IF HasPurchaseForUserId(lookupUser[l]) THEN "true" ELSE "false")
  /\ UNCHANGED <<clock, statusVars, lookupUser, lookupTold, vars>>

-----------------------------------------------------------------------------
(* The rest of the API process.                                            *)

\* Redis or Postgres does not answer: a 500.  As often as there are queries.
QueryFails ==
  /\ "query" \in FaultPoints
  /\ \/ \E q \in StatusInFlight : StatusReply(q, NoStatus("internal_error"))
     \/ /\ \E l \in LookupsInFlight : LookupReply(l, "internal_error")
        /\ UNCHANGED <<clock, statusVars, lookupUser, lookupTold>>
  /\ UNCHANGED vars

\* A purchase that arrives samples the same clock.
ArrivesNow == \A r \in Request : now'[r] \in {now[r], 0, clock}

\* The queries in flight go down with the process, which a stop waits for.
FlashSaleStep ==
  /\ Next
  /\ ArrivesNow
  /\ ~CrashServer
  /\ StopServer => StatusInFlight = {} /\ LookupsInFlight = {}
  /\ UNCHANGED queryVars

CrashDropsQueries ==
  /\ CrashServer
  /\ UNCHANGED <<initVars, reconcileVars>>
  /\ statusPc' = [q \in StatusQuery |->
                    IF q \in StatusInFlight THEN "done" ELSE statusPc[q]]
  /\ statusNow' = [q \in StatusQuery |-> 0]
  /\ statusAnswer' = [q \in StatusQuery |->
                        IF q \in StatusInFlight THEN NoStatus("dropped")
                        ELSE statusAnswer[q]]
  /\ lookupPc' = [l \in Lookup |->
                    IF l \in LookupsInFlight THEN "done" ELSE lookupPc[l]]
  /\ lookupAnswer' = [l \in Lookup |->
                        IF l \in LookupsInFlight THEN "dropped"
                        ELSE lookupAnswer[l]]
  /\ UNCHANGED <<clock, statusAfter, lookupUser, lookupTold>>

Tick ==
  /\ clock < LastInstant
  /\ clock' = clock + 1
  /\ UNCHANGED <<statusVars, lookupVars, vars>>

QueryNext ==
  \/ FlashSaleStep
  \/ CrashDropsQueries
  \/ Tick
  \/ QueryFails
  \/ \E q \in StatusQuery : ReceiveStatus(q) \/ AnswerStatus(q)
  \/ \E l \in Lookup :
       \/ \E raw \in RawUserId : RejectLookup(l, raw) \/ ReceiveLookup(l, raw)
       \/ AnswerLookup(l)

allVars == <<vars, queryVars>>

QuerySpec == QueryInit /\ [][QueryNext]_allVars

-----------------------------------------------------------------------------

\* How far a sale is.
Phase(status) ==
  CASE status = "upcoming" -> 1
    [] status = "active"   -> 2
    [] status = "sold_out" -> 3
    [] status = "ended"    -> 4

Answered(q) == statusAnswer[q].status \in SaleStatus

\* A visitor who asks again, after an answer, is never shown an earlier phase
\* of the sale nor more stock, as long as the sale is not initialised again:
\* although the instant is older than the stock it is shown with, and
\* purchases that arrived before the end may still take stock after it
\* (sale-status.service.js, readRemainingStock after `now').
StatusNeverGoesBack ==
  \A q \in StatusQuery : Answered(q) =>
    \A p \in statusAfter[q] :
      /\ statusAnswer[p].sale = statusAnswer[q].sale
      /\ statusAnswer[p].round = statusAnswer[q].round
      => /\ Phase(statusAnswer[p].status) <= Phase(statusAnswer[q].status)
         /\ statusAnswer[p].stock >= statusAnswer[q].stock

\* "sold_out", once shown, is final: every item of that round has been granted,
\* and no purchase of the round is accepted any more.
SoldOutIsFinal ==
  \A q \in StatusQuery :
    statusAnswer[q].status = "sold_out" =>
      LET e == statusAnswer[q].round
      IN  e > 0 => Cardinality(Grants(e)) = resets[e].stock

\* A user who was told of a purchase, by the answer to a purchase or to a
\* lookup, is never told by a later lookup that there is none, however the id
\* is spelt and whichever sale is active by then (purchase.service.js answers
\* after the insert; purchase-status.service.js looks in every sale).
ToldStaysTrue ==
  \A l \in Lookup : lookupTold[l] => lookupAnswer[l] # "false"

=============================================================================
