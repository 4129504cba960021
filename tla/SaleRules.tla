------------------------------ MODULE SaleRules ------------------------------
(***************************************************************************)
(* The pure decision rules of the flash sale: the admission rule that      *)
(* redis/purchase.lua evaluates inside Redis, and the status the API shows *)
(* for the sale (utils/sale-status.js, services/sale-status.service.js).   *)
(* The two are written in different languages and must agree at every      *)
(* boundary, or the page would offer a purchase that the gate refuses.     *)
(***************************************************************************)
EXTENDS Integers

CONSTANT NoStock    \* what GET returns when flashsale:stock does not exist

ASSUME NoStockAssumption == NoStock \notin Int

-----------------------------------------------------------------------------
(* The Lua script.  `stock' is the value of the stock key, or NoStock.     *)

\* Faulty variant: sells one item too many (`stock < 0').
StockExhaustedOffByOne(stock) == stock = NoStock \/ stock < 0

StockExhausted(stock) == stock = NoStock \/ stock <= 0

BeforeStart(now, start) == now < start

\* Faulty variant: the end is excluded.
AfterEndInclusive(now, end) == now >= end
AfterEnd(now, end) == now > end

\* The script's result, in the order in which it makes its tests.  After the last
\* one it takes an item with DECR, which fails if the key does not hold an integer
\* of 64 bits as Redis writes it: SUCCESS stands for a stock that DECR takes, as
\* every stock of FlashSale is, and Configuration (PurchaseAnswer) for the others.
PurchaseScriptResult(now, start, end, isMember, stock) ==
  IF BeforeStart(now, start) THEN "NOT_STARTED"
  ELSE IF AfterEnd(now, end) THEN "ENDED"
  ELSE IF isMember THEN "ALREADY_PURCHASED"
  ELSE IF StockExhausted(stock) THEN "SOLD_OUT"
  ELSE "SUCCESS"

PurchaseScriptResults ==
  {"SUCCESS", "ALREADY_PURCHASED", "SOLD_OUT", "NOT_STARTED", "ENDED"}

\* The status the purchase service answers for each result of the script.
PURCHASE_STATUS_BY_SCRIPT_RESULT ==
  [result \in PurchaseScriptResults |->
     CASE result = "SUCCESS"           -> "success"
       [] result = "ALREADY_PURCHASED" -> "already_purchased"
       [] result = "SOLD_OUT"          -> "sold_out"
       [] result = "NOT_STARTED"       -> "sale_not_started"
       [] result = "ENDED"             -> "sale_ended"]

-----------------------------------------------------------------------------
(* The displayed status.                                                   *)

\* Faulty variants: the stock is looked at before the window, or the last item
\* is not counted.
ComputeSaleStatusStockFirst(now, start, end, remaining) ==
  IF remaining <= 0 THEN "sold_out"
  ELSE IF now < start THEN "upcoming"
  ELSE IF now > end THEN "ended"
  ELSE "active"
ComputeSaleStatusLastItem(now, start, end, remaining) ==
  IF now < start THEN "upcoming"
  ELSE IF now > end THEN "ended"
  ELSE IF remaining <= 1 THEN "sold_out"
  ELSE "active"

ComputeSaleStatus(now, start, end, remaining) ==
  IF now < start THEN "upcoming"
  ELSE IF now > end THEN "ended"
  ELSE IF remaining <= 0 THEN "sold_out"
  ELSE "active"

\* Faulty variant: takes a missing key for a stock.
StockReadableMissing(stock) == stock = NoStock \/ stock >= 0

\* readRemainingStock throws when the key is missing or negative.
StockReadable(stock) == stock # NoStock /\ stock >= 0

\* GET /sale/status: the computed status, or the 500 the error becomes.
GetSaleStatus(now, start, end, stock) ==
  IF StockReadable(stock) THEN ComputeSaleStatus(now, start, end, stock)
  ELSE "internal_error"

=============================================================================
