---------------------------- MODULE Configuration ----------------------------
(***************************************************************************)
(* How a sale gets from the environment and the command line into the two  *)
(* stores: config/env.js reads and checks it when a process loads,         *)
(* scripts/init-sale.js reads the stock once more, the table sales checks  *)
(* it a third time (scripts/schema.sql), and only then Redis gets the      *)
(* stock.  Four pieces of code, in three languages, that must accept the   *)
(* same.                                                                   *)
(*                                                                         *)
(* A variable is its text.  What the code tells apart is its kind: absent, *)
(* empty, blank, a word, a number with something after it, or an integer.  *)
(***************************************************************************)
EXTENDS SaleRules

CONSTANTS
  Invalid,           \* NaN, an invalid date
  MaxPgInteger,      \* the largest INTEGER of Postgres
  MaxRedisInteger,   \* the largest value that DECR takes
  Number,            \* the numbers that texts are about
  Time               \* the instants that SALE_START_TIME and SALE_END_TIME name

ASSUME ConfigurationAssumption ==
  /\ Invalid \notin Int
  /\ MaxPgInteger \in Nat /\ MaxRedisInteger \in Nat
  /\ MaxPgInteger <= MaxRedisInteger
  /\ Number \subseteq Int /\ Time \subseteq Int

\* "5abc" and "1.5" are of the kind "prefix".
Text ==
  [kind : {"undefined", "empty", "blank", "word"}, n : {0}]
    \cup [kind : {"prefix", "integer"}, n : Number]

VARIABLES
  phase,                        \* where the init script stands
  stockText, startText, endText,  \* SALE_INITIAL_STOCK and the window's ends
  argument,                     \* the stock on the command line
  sale,                         \* config.sale, once loaded
  wanted,                       \* the stock to put up
  stock                         \* flashsale:stock

configVars == <<phase, stockText, startText, endText, argument, sale, wanted, stock>>

NoConfig == [start |-> 0, end |-> 0, initialStock |-> 0]

ConfigurationInit ==
  /\ phase = "load"
  /\ stockText \in Text /\ argument \in Text
  /\ startText \in Time \cup {Invalid} /\ endText \in Time \cup {Invalid}
  /\ sale = NoConfig
  /\ wanted = 0
  /\ stock = NoStock

Refuse(why) ==
  /\ phase' = why
  /\ UNCHANGED <<stockText, startText, endText, argument, sale, wanted, stock>>

-----------------------------------------------------------------------------
(* Texts.                                                                  *)

\* Number.parseInt: the number a text begins with.
ParseIntPrefix(text) == IF text.kind \in {"prefix", "integer"} THEN text.n ELSE Invalid

\* /^[+-]?\d+$/ on the trimmed text.
IsInteger(text) == text.kind = "integer"

RequireEnv(text) == text.kind \notin {"undefined", "empty"}

\* Faulty variant: without the regular expression.
ParseIntegerLoosely(text) == IF RequireEnv(text) THEN ParseIntPrefix(text) ELSE Invalid
ParseInteger(text) ==
  IF RequireEnv(text) /\ IsInteger(text) THEN ParseIntPrefix(text) ELSE Invalid

WindowOk(start, end) == start < end

StockOk(n) == n # Invalid /\ n >= 0

-----------------------------------------------------------------------------
(* The init script.                                                        *)

\* Loading config/env.js, which throws.
LoadConfig ==
  /\ phase = "load"
  /\ IF /\ startText # Invalid /\ endText # Invalid
        /\ WindowOk(startText, endText)
        /\ StockOk(ParseInteger(stockText))
       THEN /\ phase' = "resolve"
            /\ sale' = [start |-> startText, end |-> endText,
                        initialStock |-> ParseInteger(stockText)]
            /\ UNCHANGED <<stockText, startText, endText, argument, wanted, stock>>
       ELSE Refuse("env_refuses")

\* The argument, or else the environment: loading it has shown it is there.
GivenStock == IF argument.kind = "undefined" THEN stockText ELSE argument

ResolvedStock ==
  LET n == ParseIntPrefix(GivenStock)
  IN  IF n # Invalid /\ n >= 0 /\ IsInteger(GivenStock) THEN n ELSE Invalid

ResolveInitialStock ==
  /\ phase = "resolve"
  /\ IF ResolvedStock # Invalid
       THEN /\ phase' = "ensure"
            /\ wanted' = ResolvedStock
            /\ UNCHANGED <<stockText, startText, endText, argument, sale, stock>>
       ELSE Refuse("script_refuses")

\* The INTEGER column, sales_initial_stock_check and sales_time_window_check.
StoredByTable(definition) ==
  /\ definition.initialStock \in 0 .. MaxPgInteger
  /\ definition.start < definition.end

\* Faulty variant: Redis is reset first.
TableAsksLast(definition) == TRUE
TableAsks(definition) == StoredByTable(definition)

EnsureSaleRow ==
  /\ phase = "ensure"
  /\ IF TableAsks(sale)
       THEN /\ phase' = "reset"
            /\ UNCHANGED <<stockText, startText, endText, argument, sale, wanted, stock>>
       ELSE Refuse("table_refuses")

ResetStock ==
  /\ phase = "reset"
  /\ phase' = "done"
  /\ stock' = wanted
  /\ UNCHANGED <<stockText, startText, endText, argument, sale, wanted>>

ConfigurationNext == LoadConfig \/ ResolveInitialStock \/ EnsureSaleRow \/ ResetStock

ConfigurationSpec == ConfigurationInit /\ [][ConfigurationNext]_configVars

-----------------------------------------------------------------------------
(* The texts that the stock key may hold, and what its readers make of them. *)

\* "integer" is an integer as Redis writes it.  "loose" is any other text that
\* both languages read as an integer ("5.0", "+5"), "binary" one that only
\* JavaScript does ("0b101"), and "fraction" a number that lies between n and
\* n + 1 or that only Lua has.
Content ==
  [form : {"missing", "blank", "word"}, n : {0}]
    \cup [form : {"integer", "loose", "binary", "fraction"}, n : Number]

\* What resetFlashSaleState writes.
Written(number) == [form |-> "integer", n |-> number]

\* Number.isInteger(Number(text)); Number('') is 0.
ReadRemainingStock(content) ==
  IF content.form \in {"integer", "loose", "binary"} THEN content.n
  ELSE IF content.form = "blank" THEN 0
  ELSE NoStock

\* tonumber(text), a fraction rounded up, which leaves its sign.
LuaStock(content) ==
  IF content.form \in {"integer", "loose"} THEN content.n
  ELSE IF content.form = "fraction" THEN content.n + 1
  ELSE NoStock

DecrTakes(content) == content.form = "integer" /\ content.n <= MaxRedisInteger

\* GET /sale/status with the loaded sale.
SaleStatusAnswer(now, content) ==
  GetSaleStatus(now, sale.start, sale.end, ReadRemainingStock(content))

\* POST /purchase: an error of the script, before SADD, is answered with a 500.
PurchaseAnswer(now, isMember, content) ==
  LET result == PurchaseScriptResult(now, sale.start, sale.end, isMember,
                                     LuaStock(content))
  IN  IF result = "SUCCESS" /\ ~DecrTakes(content) THEN "internal_error"
      ELSE PURCHASE_STATUS_BY_SCRIPT_RESULT[result]

-----------------------------------------------------------------------------

\* The readers agree: without an argument the script never refuses what env.js
\* took for the stock, nor resolves it to another number; and the table refuses
\* nothing that env.js let through but a stock beyond its INTEGER
\* (parseInteger, resolveInitialStock, schema.sql).
ReadersAgree ==
  /\ argument.kind = "undefined" =>
       /\ phase # "script_refuses"
       /\ phase \in {"ensure", "reset", "done"} => wanted = sale.initialStock
  /\ phase = "table_refuses" => sale.initialStock > MaxPgInteger

\* A sale that was initialised can sell: at some instant the gate grants an item
\* while the page says "active".  Only a stock that was typed on the command line
\* can be beyond what DECR takes (schema.sql, init-sale.js, purchase.lua).
InitialisedSaleCanSell ==
  phase = "done" /\ stock > 0 =>
    \/ \E now \in Time :
         /\ SaleStatusAnswer(now, Written(stock)) = "active"
         /\ PurchaseAnswer(now, FALSE, Written(stock)) = "success"
    \/ stock > MaxRedisInteger /\ argument.kind # "undefined"

\* What the page shows is what the gate does, at every instant and with every text
\* under the stock key.  Before the start, after the end and without stock it
\* shows the refusal that a purchase gets.  "active" is a promise only for a stock
\* that DECR takes: with any other the gate grants nothing, and answers with a 500
\* or with "sold_out" while the page goes on saying "active"; such a stock gets
\* there by the argument of init-sale.js, or by hand.  Where the page has no status
\* to show the gate grants nothing either (sale-status.service.js and
\* utils/sale-status.js against redis/purchase.lua).
StatusAgreesWithGate ==
  sale # NoConfig =>
    \A now \in Time, isMember \in BOOLEAN, content \in Content :
      LET shown  == SaleStatusAnswer(now, content)
          answer == PurchaseAnswer(now, isMember, content)
      IN  CASE shown = "upcoming" -> answer = "sale_not_started"
            [] shown = "ended"    -> answer = "sale_ended"
            [] shown = "sold_out" ->
                 answer = IF isMember THEN "already_purchased" ELSE "sold_out"
            [] shown = "active"   ->
                 IF isMember THEN answer = "already_purchased"
                 ELSE answer = "success" <=> DecrTakes(content)
            [] OTHER              -> answer # "success"

=============================================================================
