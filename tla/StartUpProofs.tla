---------------------------- MODULE StartUpProofs ----------------------------
(***************************************************************************)
(* Theorems about what happens before and after the sale: the readers of a *)
(* sale's definition, for every set of instants and numbers and every pair *)
(* of integer widths; and the start and the shutdown of the API container, *)
(* for any number of attempts, connections and signals.  Each of the       *)
(* two has one inductive invariant, ConfigurationInv and ContainerInv.     *)
(***************************************************************************)
EXTENDS Configuration, ApiContainer, TLAPS

-----------------------------------------------------------------------------
(* A sale's definition: what was loaded is what could be sold.              *)

TextsOK ==
  /\ stockText \in Text /\ argument \in Text
  /\ startText \in Time \cup {Invalid} /\ endText \in Time \cup {Invalid}

\* A sale that was loaded is one that could be sold.
SaleOK ==
  /\ sale = NoConfig <=> phase \in {"load", "env_refuses"}
  /\ sale # NoConfig =>
       /\ sale.start \in Time /\ sale.end \in Time /\ sale.start < sale.end
       /\ sale.initialStock \in Nat
       /\ stockText.kind = "integer" /\ stockText.n = sale.initialStock

\* What each step leaves behind it.
StepsOK ==
  /\ phase \in {"load", "resolve", "ensure", "reset", "done",
                "env_refuses", "script_refuses", "table_refuses"}
  /\ phase = "script_refuses" => ResolvedStock = Invalid
  /\ phase \in {"ensure", "reset", "done", "table_refuses"} =>
       wanted \in Nat /\ wanted = ResolvedStock
  /\ phase \in {"reset", "done"} => StoredByTable(sale)
  /\ phase = "table_refuses" => ~StoredByTable(sale)
  /\ phase = "done" => stock = wanted

ConfigurationInv == TextsOK /\ SaleOK /\ StepsOK

LEMMA ConfigurationInitInv == ConfigurationInit => ConfigurationInv
BY DEF ConfigurationInit, ConfigurationInv, TextsOK, SaleOK, StepsOK

\* A text that is an integer has one value, for every reader.
LEMMA IntegerText ==
  ASSUME NEW t \in Text
  PROVE  /\ IsInteger(t) => t.n \in Int /\ t.n # Invalid /\ ParseIntPrefix(t) = t.n
         /\ ParseInteger(t) = IF IsInteger(t) THEN t.n ELSE Invalid
BY ConfigurationAssumption DEF Text, IsInteger, ParseIntPrefix, ParseInteger, RequireEnv

LEMMA TextsStay ==
  TextsOK /\ UNCHANGED <<stockText, startText, endText, argument>> =>
    TextsOK' /\ ResolvedStock' = ResolvedStock /\ stockText' = stockText
BY DEF TextsOK, ResolvedStock, GivenStock, ParseIntPrefix, IsInteger

LEMMA LoadKeepsInv ==
  ConfigurationInv /\ LoadConfig => ConfigurationInv'
<1>. SUFFICES ASSUME ConfigurationInv, LoadConfig PROVE ConfigurationInv'
  OBVIOUS
<1>. DEFINE n == ParseInteger(stockText)
            loads == /\ startText # Invalid /\ endText # Invalid
                     /\ WindowOk(startText, endText) /\ StockOk(n)
<1>1. TextsOK' /\ ResolvedStock' = ResolvedStock /\ stockText' = stockText
  BY TextsStay DEF ConfigurationInv, LoadConfig, Refuse
<1>2. CASE loads
  <2>1. /\ phase' = "resolve"
        /\ sale' = [start |-> startText, end |-> endText, initialStock |-> n]
    BY <1>2 DEF LoadConfig
  <2>2. startText \in Time /\ endText \in Time /\ startText < endText
    BY <1>2 DEF ConfigurationInv, TextsOK, WindowOk
  <2>3. IsInteger(stockText) /\ n = stockText.n /\ n \in Nat
    BY <1>2, IntegerText DEF ConfigurationInv, TextsOK, StockOk
  <2>4. sale' # NoConfig
    <3>1. sale'.start # sale'.end
      BY <2>1, <2>2, ConfigurationAssumption
    <3>. QED BY <3>1 DEF NoConfig
  <2>5. SaleOK'
    BY <1>1, <2>1, <2>2, <2>3, <2>4 DEF SaleOK, IsInteger
  <2>6. StepsOK'
    BY <2>1 DEF StepsOK
  <2>. QED BY <1>1, <2>5, <2>6 DEF ConfigurationInv
<1>3. CASE ~loads
  <2>1. phase' = "env_refuses" /\ sale' = sale /\ phase = "load"
    BY <1>3 DEF LoadConfig, Refuse
  <2>. QED BY <1>1, <2>1 DEF ConfigurationInv, SaleOK, StepsOK
<1>. QED BY <1>2, <1>3

LEMMA ResolveKeepsInv ==
  ConfigurationInv /\ ResolveInitialStock => ConfigurationInv'
<1>. SUFFICES ASSUME ConfigurationInv, ResolveInitialStock PROVE ConfigurationInv'
  OBVIOUS
<1>1. TextsOK' /\ ResolvedStock' = ResolvedStock /\ stockText' = stockText
  BY TextsStay DEF ConfigurationInv, ResolveInitialStock, Refuse
<1>2. ResolvedStock # Invalid => ResolvedStock \in Nat
  <2>1. GivenStock \in Text
    BY DEF GivenStock, ConfigurationInv, TextsOK
  <2>. QED BY <2>1, IntegerText DEF ResolvedStock
<1>3. sale' = sale /\ phase = "resolve" /\ phase' \in {"ensure", "script_refuses"}
  BY DEF ResolveInitialStock, Refuse
<1>4. SaleOK'
  BY <1>1, <1>3 DEF ConfigurationInv, SaleOK
<1>5. StepsOK'
  BY <1>1, <1>2, <1>3 DEF ConfigurationInv, StepsOK, ResolveInitialStock, Refuse
<1>. QED BY <1>1, <1>4, <1>5 DEF ConfigurationInv

LEMMA StoresKeepInv ==
  ConfigurationInv /\ (EnsureSaleRow \/ ResetStock) => ConfigurationInv'
<1>. SUFFICES ASSUME ConfigurationInv, EnsureSaleRow \/ ResetStock
              PROVE  ConfigurationInv'
  OBVIOUS
<1>1. TextsOK' /\ ResolvedStock' = ResolvedStock /\ stockText' = stockText
  BY TextsStay DEF ConfigurationInv, EnsureSaleRow, ResetStock, Refuse
<1>2. /\ sale' = sale /\ wanted' = wanted
      /\ phase \in {"ensure", "reset"} /\ phase' \in {"reset", "done", "table_refuses"}
  BY DEF EnsureSaleRow, ResetStock, Refuse
<1>3. SaleOK'
  BY <1>1, <1>2 DEF ConfigurationInv, SaleOK
<1>4. StepsOK'
  BY <1>1, <1>2
  DEF ConfigurationInv, StepsOK, EnsureSaleRow, ResetStock, Refuse, TableAsks,
      StoredByTable
<1>. QED BY <1>1, <1>3, <1>4 DEF ConfigurationInv

LEMMA ConfigurationInvariant == ConfigurationSpec => []ConfigurationInv
<1>1. ConfigurationInv /\ UNCHANGED configVars => ConfigurationInv'
  BY DEF ConfigurationInv, TextsOK, SaleOK, StepsOK, configVars, ResolvedStock,
         GivenStock, ParseIntPrefix, IsInteger, StoredByTable
<1>2. ConfigurationInv /\ [ConfigurationNext]_configVars => ConfigurationInv'
  BY <1>1, LoadKeepsInv, ResolveKeepsInv, StoresKeepInv DEF ConfigurationNext
<1>. QED BY ConfigurationInitInv, <1>2, PTL DEF ConfigurationSpec

-----------------------------------------------------------------------------
(* The readers.                                                            *)

\* Without an argument the init script takes exactly the number that env.js
\* took, and the table refuses it only for its width, for every text, window and
\* width (parseInteger, resolveInitialStock, schema.sql).
THEOREM AllReadersAgree == ConfigurationSpec => []ReadersAgree
<1>1. ConfigurationInv => ReadersAgree
  <2>. SUFFICES ASSUME ConfigurationInv PROVE ReadersAgree
    OBVIOUS
  <2>1. ASSUME argument.kind = "undefined", sale # NoConfig
        PROVE  ResolvedStock = sale.initialStock /\ ResolvedStock # Invalid
    <3>1. GivenStock = stockText
      BY <2>1 DEF GivenStock
    <3>2. IsInteger(stockText) /\ stockText.n = sale.initialStock /\ stockText.n \in Nat
      BY <2>1 DEF ConfigurationInv, SaleOK, IsInteger
    <3>. QED BY <3>1, <3>2, IntegerText DEF ResolvedStock, ConfigurationInv, TextsOK
  <2>2. phase = "table_refuses" => sale.initialStock > MaxPgInteger
    BY ConfigurationAssumption DEF ConfigurationInv, SaleOK, StepsOK, StoredByTable
  <2>3. phase \in {"script_refuses", "ensure", "reset", "done"} => sale # NoConfig
    BY DEF ConfigurationInv, SaleOK
  <2>. QED
    BY <2>1, <2>2, <2>3 DEF ReadersAgree, ConfigurationInv, StepsOK
<1>. QED BY <1>1, ConfigurationInvariant, PTL

\* The status that the purchase service answers for each result of the script.
LEMMA StatusOfResult ==
  /\ PURCHASE_STATUS_BY_SCRIPT_RESULT["SUCCESS"] = "success"
  /\ PURCHASE_STATUS_BY_SCRIPT_RESULT["ALREADY_PURCHASED"] = "already_purchased"
  /\ PURCHASE_STATUS_BY_SCRIPT_RESULT["SOLD_OUT"] = "sold_out"
  /\ PURCHASE_STATUS_BY_SCRIPT_RESULT["NOT_STARTED"] = "sale_not_started"
  /\ PURCHASE_STATUS_BY_SCRIPT_RESULT["ENDED"] = "sale_ended"
BY DEF PURCHASE_STATUS_BY_SCRIPT_RESULT, PurchaseScriptResults

\* An initialised sale with items can sell one at the instant it starts, and the
\* page says so, for every window that env.js lets through; only a typed stock may
\* be too large for the gate.
THEOREM EverySaleCanSell == ConfigurationSpec => []InitialisedSaleCanSell
<1>1. ConfigurationInv => InitialisedSaleCanSell
  <2>. SUFFICES ASSUME ConfigurationInv, phase = "done", stock > 0,
                       ~(stock > MaxRedisInteger /\ argument.kind # "undefined")
                PROVE  \E now \in Time :
                         /\ SaleStatusAnswer(now, Written(stock)) = "active"
                         /\ PurchaseAnswer(now, FALSE, Written(stock)) = "success"
    BY DEF InitialisedSaleCanSell
  <2>1. /\ sale.start \in Time /\ sale.start \in Int /\ sale.end \in Int
        /\ sale.start < sale.end /\ sale # NoConfig
        /\ sale.initialStock \in Nat /\ sale.initialStock <= MaxPgInteger
    <3>1. sale # NoConfig
      BY DEF ConfigurationInv, SaleOK
    <3>2. /\ sale.start \in Time /\ sale.end \in Time /\ sale.start < sale.end
          /\ sale.initialStock \in Nat
      BY <3>1 DEF ConfigurationInv, SaleOK
    <3>3. sale.initialStock \in 0 .. MaxPgInteger
      BY DEF ConfigurationInv, StepsOK, StoredByTable
    <3>4. sale.start \in Int /\ sale.end \in Int
      BY <3>2, ConfigurationAssumption
    <3>5. sale.initialStock <= MaxPgInteger
      BY <3>3
    <3>. QED BY <3>1, <3>2, <3>4, <3>5
  <2>2. stock \in Nat /\ stock = ResolvedStock /\ stock # NoStock
    BY NoStockAssumption DEF ConfigurationInv, StepsOK
  <2>3. stock <= MaxRedisInteger
    <3>. SUFFICES ASSUME argument.kind = "undefined" PROVE stock <= MaxRedisInteger
      BY <2>2, ConfigurationAssumption
    <3>1. GivenStock = stockText /\ IsInteger(stockText)
          /\ stockText.n = sale.initialStock
      BY <2>1 DEF GivenStock, ConfigurationInv, SaleOK, IsInteger
    <3>2. stock = sale.initialStock
      BY <2>1, <2>2, <3>1, IntegerText DEF ResolvedStock, ConfigurationInv, TextsOK
    <3>. QED BY <2>1, <3>2, ConfigurationAssumption
  <2>4. /\ ReadRemainingStock(Written(stock)) = stock
        /\ LuaStock(Written(stock)) = stock
        /\ DecrTakes(Written(stock))
    BY <2>3 DEF Written, ReadRemainingStock, LuaStock, DecrTakes
  <2>5. SaleStatusAnswer(sale.start, Written(stock)) = "active"
    BY <2>1, <2>2, <2>4 DEF SaleStatusAnswer, GetSaleStatus, StockReadable, ComputeSaleStatus
  <2>6. PurchaseScriptResult(sale.start, sale.start, sale.end, FALSE,
                             LuaStock(Written(stock))) = "SUCCESS"
    BY <2>1, <2>2, <2>4 DEF PurchaseScriptResult, BeforeStart, AfterEnd, StockExhausted
  <2>7. PurchaseAnswer(sale.start, FALSE, Written(stock)) = "success"
    BY <2>4, <2>6, StatusOfResult DEF PurchaseAnswer
  <2>. QED BY <2>1, <2>5, <2>7
<1>. QED BY <1>1, ConfigurationInvariant, PTL

-----------------------------------------------------------------------------
(* The page and the gate.                                                  *)

\* What the page and the gate make of a text under the stock key.
LEMMA ContentRead ==
  ASSUME NEW content \in Content
  PROVE  /\ ReadRemainingStock(content) \in Int \cup {NoStock}
         /\ LuaStock(content) \in Int \cup {NoStock}
         /\ DecrTakes(content) =>
              /\ ReadRemainingStock(content) \in Int
              /\ LuaStock(content) = ReadRemainingStock(content)
         /\ ReadRemainingStock(content) = 0 =>
              LuaStock(content) = NoStock \/ LuaStock(content) = 0
<1>1. CASE content.form \in {"integer", "loose"}
  <2>1. content.n \in Int
    BY <1>1, ConfigurationAssumption DEF Content
  <2>2. ReadRemainingStock(content) = content.n /\ LuaStock(content) = content.n
    BY <1>1 DEF ReadRemainingStock, LuaStock
  <2>. QED BY <2>1, <2>2
<1>2. CASE content.form = "binary"
  <2>1. content.n \in Int
    BY <1>2, ConfigurationAssumption DEF Content
  <2>2. ReadRemainingStock(content) = content.n /\ LuaStock(content) = NoStock
    BY <1>2 DEF ReadRemainingStock, LuaStock
  <2>. QED BY <1>2, <2>1, <2>2 DEF DecrTakes
<1>3. CASE content.form = "fraction"
  <2>1. content.n \in Int
    BY <1>3, ConfigurationAssumption DEF Content
  <2>2. ReadRemainingStock(content) = NoStock /\ LuaStock(content) = content.n + 1
    BY <1>3 DEF ReadRemainingStock, LuaStock
  <2>. QED BY <1>3, <2>1, <2>2, NoStockAssumption DEF DecrTakes
<1>4. CASE content.form \in {"missing", "blank", "word"}
  <2>1. /\ ReadRemainingStock(content) \in {0, NoStock}
        /\ LuaStock(content) = NoStock /\ ~DecrTakes(content)
    BY <1>4 DEF ReadRemainingStock, LuaStock, DecrTakes
  <2>. QED BY <2>1
<1>5. content.form \in {"missing", "blank", "word", "integer", "loose", "binary", "fraction"}
  BY DEF Content
<1>. QED BY <1>1, <1>2, <1>3, <1>4, <1>5

\* They make the same tests at the same bounds, in an order that differs only
\* where the gate also looks at the set of buyers, and "active" keeps its promise
\* for exactly the stocks that DECR takes.  For every instant, window, membership
\* and text under the stock key (computeSaleStatus and readRemainingStock against
\* purchase.lua).
THEOREM StatusAndGateAgree == ConfigurationSpec => []StatusAgreesWithGate
<1>1. ConfigurationInv => StatusAgreesWithGate
  <2>. SUFFICES ASSUME ConfigurationInv, sale # NoConfig,
                       NEW now \in Time, NEW isMember \in BOOLEAN,
                       NEW content \in Content
                PROVE
                  LET shown  == SaleStatusAnswer(now, content)
                      answer == PurchaseAnswer(now, isMember, content)
                  IN  CASE shown = "upcoming" -> answer = "sale_not_started"
                        [] shown = "ended"    -> answer = "sale_ended"
                        [] shown = "sold_out" ->
                             answer = IF isMember THEN "already_purchased" ELSE "sold_out"
                        [] shown = "active"   ->
                             IF isMember THEN answer = "already_purchased"
                             ELSE answer = "success" <=> DecrTakes(content)
                        [] OTHER              -> answer # "success"
    BY DEF StatusAgreesWithGate
  <2>. DEFINE shown  == SaleStatusAnswer(now, content)
              answer == PurchaseAnswer(now, isMember, content)
              left   == ReadRemainingStock(content)
              lua    == LuaStock(content)
  <2>1. /\ now \in Int /\ sale.start \in Int /\ sale.end \in Int
        /\ left \in Int \cup {NoStock} /\ lua \in Int \cup {NoStock} /\ NoStock \notin Int
        /\ DecrTakes(content) => left \in Int /\ lua = left
        /\ left = 0 => lua = NoStock \/ lua = 0
    BY ConfigurationAssumption, NoStockAssumption, ContentRead DEF ConfigurationInv, SaleOK
  <2>2. answer = IF now < sale.start THEN "sale_not_started"
                 ELSE IF now > sale.end THEN "sale_ended"
                 ELSE IF isMember THEN "already_purchased"
                 ELSE IF lua = NoStock \/ lua <= 0 THEN "sold_out"
                 ELSE IF DecrTakes(content) THEN "success"
                 ELSE "internal_error"
    <3>. HIDE DEF left, lua
    <3>. DEFINE result == PurchaseScriptResult(now, sale.start, sale.end, isMember, lua)
    <3>1. result = IF now < sale.start THEN "NOT_STARTED"
                   ELSE IF now > sale.end THEN "ENDED"
                   ELSE IF isMember THEN "ALREADY_PURCHASED"
                   ELSE IF lua = NoStock \/ lua <= 0 THEN "SOLD_OUT"
                   ELSE "SUCCESS"
      BY DEF PurchaseScriptResult, BeforeStart, AfterEnd, StockExhausted
    <3>2. answer = IF result = "SUCCESS" /\ ~DecrTakes(content) THEN "internal_error"
                   ELSE PURCHASE_STATUS_BY_SCRIPT_RESULT[result]
      BY DEF PurchaseAnswer, lua
    <3>. HIDE DEF result, answer
    <3>. QED BY <3>1, <3>2, StatusOfResult
  <2>3. shown = IF left = NoStock \/ left < 0 THEN "internal_error"
                ELSE IF now < sale.start THEN "upcoming"
                ELSE IF now > sale.end THEN "ended"
                ELSE IF left = 0 THEN "sold_out"
                ELSE "active"
    BY <2>1 DEF SaleStatusAnswer, GetSaleStatus, StockReadable, ComputeSaleStatus
  <2>. HIDE DEF shown, answer, left, lua
  <2>4. CASE left = NoStock \/ left < 0
    <3>1. shown = "internal_error"
      BY <2>3, <2>4
    <3>2. answer # "success"
      BY <2>1, <2>2, <2>4
    <3>. QED BY <3>1, <3>2 DEF shown, answer
  <2>5. CASE left \in Int /\ left >= 0
    <3>1. CASE now < sale.start
      BY <2>1, <2>2, <2>3, <2>5, <3>1 DEF shown, answer
    <3>2. CASE ~(now < sale.start) /\ now > sale.end
      BY <2>1, <2>2, <2>3, <2>5, <3>2 DEF shown, answer
    <3>3. CASE ~(now < sale.start) /\ ~(now > sale.end) /\ left = 0
      <4>1. shown = "sold_out"
        BY <2>1, <2>3, <3>3
      <4>2. answer = IF isMember THEN "already_purchased" ELSE "sold_out"
        BY <2>1, <2>2, <3>3
      <4>. QED BY <4>1, <4>2 DEF shown, answer
    <3>4. CASE ~(now < sale.start) /\ ~(now > sale.end) /\ left # 0
      <4>1. shown = "active"
        BY <2>1, <2>3, <2>5, <3>4
      <4>2. isMember => answer = "already_purchased"
        BY <2>2, <3>4
      <4>3. ~isMember => (answer = "success" <=> DecrTakes(content))
        BY <2>1, <2>2, <2>5, <3>4
      <4>. QED BY <4>1, <4>2, <4>3 DEF shown, answer
    <3>. QED BY <3>1, <3>2, <3>3, <3>4
  <2>. QED BY <2>1, <2>4, <2>5 DEF shown, answer
<1>. QED BY <1>1, ConfigurationInvariant, PTL

-----------------------------------------------------------------------------
(* The container: ContainerInv says who owns a shutdown, and what the     *)
(* owner has done so far.                                                  *)

\* The wait: a container that sleeps has attempts left.
WaitInv ==
  /\ stage \in {"probePostgres", "probeRedis", "sleep"} => attempt <= MaxAttempts
  /\ stage = "sleep" => attempt < MaxAttempts
  /\ stage \notin {"probePostgres", "probeRedis", "sleep", "exited"} => ready

\* Until the start is over nothing has been served or stopped, and the stores are
\* released only because it has failed.
StartInv ==
  stage \notin {"started", "exited"} =>
    /\ listener = IF stage = "listen" THEN "opening" ELSE "none"
    /\ ~inShutdown /\ ~broken /\ handlers = {}
    /\ connections = [c \in Connection |-> "closed"]
    /\ poolEnds = (IF stage = "cleanup" THEN 1 ELSE 0)

Owner(s) == shutdown[s] \in {"close", "cleanup"}

\* One call of shutdown has an owner's part, and it has released the stores
\* exactly if it is past the closing of the server.
ShutdownInv ==
  /\ ~inShutdown => \A s \in Signal : shutdown[s] = "no"
  /\ \A s \in handlers : shutdown[s] = "no"
  /\ inShutdown => \E s \in Signal : Owner(s)
  /\ \A s, t \in Signal : Owner(s) /\ Owner(t) => s = t
  /\ \A s \in Signal : shutdown[s] = "close" => poolEnds = 0
  /\ \A s \in Signal : shutdown[s] = "cleanup" => poolEnds = 1
  /\ stage = "started" /\ poolEnds # 0 => inShutdown

\* close() has nothing to wait for.
Quiet == \A c \in Connection : connections[c] \notin {"running", "kept"}

\* The stores while the process runs, and the connections whose requests use them.
StoreInv ==
  /\ poolEnds \in {0, 1}
  /\ IF poolEnds = 0 THEN pool = "open" ELSE pool \in {"ending", "ended", "failed"}
  /\ redisClient \in (IF poolEnds = 0 THEN {"open", "closed"}
                      ELSE {"quitting", "closed", "failed"})
  /\ stage = "connectRedis" \/ stage = "listen" => redisClient = "open"
  /\ stage = "started" /\ poolEnds = 0 => redisClient = "open"
  /\ \A s \in Signal : stage = "started" /\ shutdown[s] = "close" =>
       listener = "closing"
  /\ stage = "started" /\ ~broken /\ poolEnds # 0 =>
       Quiet /\ listener \in {"none", "closed"}
  /\ stage = "started" /\ listener = "closing" =>
       ~broken /\ \E s \in Signal : shutdown[s] = "close"
  /\ stage # "started" => Quiet
  /\ ~broken /\ ~Quiet => listener \in {"listening", "closing"}
  /\ stage = "started" => listener # "opening"
  /\ broken => ~server

ContainerInv ==
  /\ ContainerTypeOK /\ WaitInv /\ StartInv /\ ShutdownInv /\ StoreInv
  /\ ReleasesAwaited

LEMMA ContainerInitInv == ContainerInit => ContainerInv
<1> SUFFICES ASSUME ContainerInit PROVE ContainerInv
  OBVIOUS
<1> USE ContainerAssumption DEF ContainerInit
<1>1. Quiet
  BY DEF Quiet
<1>2. ContainerTypeOK
  <2>1. up \subseteq Service /\ stage \in Stage
    BY DEF Stage, Service
  <2>2. attempt \in 1 .. MaxAttempts + 1 /\ poolEnds \in Nat
    OBVIOUS
  <2>3. /\ shutdown \in [Signal -> {"no", "close", "shared", "cleanup"}]
        /\ connections \in [Connection -> ConnectionState]
    BY DEF ConnectionState
  <2>4. ready \in BOOLEAN /\ server \in BOOLEAN /\ broken \in BOOLEAN /\ inShutdown \in BOOLEAN
    OBVIOUS
  <2> QED
    BY <2>1, <2>2, <2>3, <2>4 DEF ContainerTypeOK, ContainerTypes, ServerIsKnown
<1>3. WaitInv
  BY DEF WaitInv
<1>4. StartInv
  BY DEF StartInv
<1>5. ShutdownInv
  BY DEF ShutdownInv, Owner
<1>6. StoreInv
  BY <1>1 DEF StoreInv
<1>7. ReleasesAwaited
  BY DEF ReleasesAwaited
<1> QED
  BY <1>2, <1>3, <1>4, <1>5, <1>6, <1>7 DEF ContainerInv

LEMMA ContainerNextInv == ContainerInv /\ [ContainerNext]_containerVars => ContainerInv'
<1> SUFFICES ASSUME ContainerInv, [ContainerNext]_containerVars
             PROVE  ContainerInv'
  OBVIOUS
<1> USE ContainerAssumption
         DEF ContainerInv, ContainerTypeOK, serviceVars, waitVars, serverVars, stopVars, storeVars,
             GoTo, Exit, ReleaseStores, AttemptFails, LastAttempt, NextAttempt,
             ShutdownShared, Drained, ServerAfterClose, Settled, SetConnection,
             Quit
<1>1. ASSUME NEW s0 \in Service, ServiceFails(s0) PROVE ContainerInv'
  <2> USE <1>1 DEF ServiceFails
  <2>1. ContainerTypes'
    BY DEF ContainerTypes, ConnectionState, Stage, Service, WaitInv
  <2>2. ServerIsKnown' /\ (exit' = "none" <=> stage' # "exited")
    BY DEF ContainerTypes, ServerIsKnown, StoreInv, StartInv, ShutdownInv
  <2>3. WaitInv'
    BY DEF WaitInv, ContainerTypes
  <2>4. StartInv'
    BY DEF StartInv, ContainerTypes
  <2>5. ShutdownInv'
    BY DEF ShutdownInv, Owner, StoreInv, StartInv, ContainerTypes
  <2>6. StoreInv'
    BY DEF StoreInv, ShutdownInv, StartInv, Quiet, InFlight, Kept, Owner, ContainerTypes
  <2>7. ReleasesAwaited'
    BY DEF ReleasesAwaited, StoreInv, ShutdownInv, StartInv, Owner, ContainerTypes
  <2> QED
    BY <2>1, <2>2, <2>3, <2>4, <2>5, <2>6, <2>7
<1>2. ASSUME NEW s0 \in Service, ServiceRecovers(s0) PROVE ContainerInv'
  <2> USE <1>2 DEF ServiceRecovers
  <2>1. ContainerTypes'
    BY DEF ContainerTypes, ConnectionState, Stage, Service, WaitInv
  <2>2. ServerIsKnown' /\ (exit' = "none" <=> stage' # "exited")
    BY DEF ContainerTypes, ServerIsKnown, StoreInv, StartInv, ShutdownInv
  <2>3. WaitInv'
    BY DEF WaitInv, ContainerTypes
  <2>4. StartInv'
    BY DEF StartInv, ContainerTypes
  <2>5. ShutdownInv'
    BY DEF ShutdownInv, Owner, StoreInv, StartInv, ContainerTypes
  <2>6. StoreInv'
    BY DEF StoreInv, ShutdownInv, StartInv, Quiet, InFlight, Kept, Owner, ContainerTypes
  <2>7. ReleasesAwaited'
    BY DEF ReleasesAwaited, StoreInv, ShutdownInv, StartInv, Owner, ContainerTypes
  <2> QED
    BY <2>1, <2>2, <2>3, <2>4, <2>5, <2>6, <2>7
<1>3. CASE ProbePostgres
  <2> USE <1>3 DEF ProbePostgres
  <2>1. ContainerTypes'
    BY DEF ContainerTypes, ConnectionState, Stage, Service, WaitInv
  <2>2. ServerIsKnown' /\ (exit' = "none" <=> stage' # "exited")
    BY DEF ContainerTypes, ServerIsKnown, StoreInv, StartInv, ShutdownInv
  <2>3. WaitInv'
    BY DEF WaitInv, ContainerTypes
  <2>4. StartInv'
    BY DEF StartInv, ContainerTypes
  <2>5. ShutdownInv'
    BY DEF ShutdownInv, Owner, StoreInv, StartInv, ContainerTypes
  <2>6. StoreInv'
    BY DEF StoreInv, ShutdownInv, StartInv, Quiet, InFlight, Kept, Owner, ContainerTypes
  <2>7. ReleasesAwaited'
    BY DEF ReleasesAwaited, StoreInv, ShutdownInv, StartInv, Owner, ContainerTypes
  <2> QED
    BY <2>1, <2>2, <2>3, <2>4, <2>5, <2>6, <2>7
<1>4. CASE ProbeRedis
  <2> USE <1>4 DEF ProbeRedis
  <2>1. ContainerTypes'
    BY DEF ContainerTypes, ConnectionState, Stage, Service, WaitInv
  <2>2. ServerIsKnown' /\ (exit' = "none" <=> stage' # "exited")
    BY DEF ContainerTypes, ServerIsKnown, StoreInv, StartInv, ShutdownInv
  <2>3. WaitInv'
    BY DEF WaitInv, ContainerTypes
  <2>4. StartInv'
    BY DEF StartInv, ContainerTypes
  <2>5. ShutdownInv'
    BY DEF ShutdownInv, Owner, StoreInv, StartInv, ContainerTypes
  <2>6. StoreInv'
    BY DEF StoreInv, ShutdownInv, StartInv, Quiet, InFlight, Kept, Owner, ContainerTypes
  <2>7. ReleasesAwaited'
    BY DEF ReleasesAwaited, StoreInv, ShutdownInv, StartInv, Owner, ContainerTypes
  <2> QED
    BY <2>1, <2>2, <2>3, <2>4, <2>5, <2>6, <2>7
<1>5. CASE WakeUp
  <2> USE <1>5 DEF WakeUp
  <2>1. ContainerTypes'
    BY DEF ContainerTypes, ConnectionState, Stage, Service, WaitInv
  <2>2. ServerIsKnown' /\ (exit' = "none" <=> stage' # "exited")
    BY DEF ContainerTypes, ServerIsKnown, StoreInv, StartInv, ShutdownInv
  <2>3. WaitInv'
    BY DEF WaitInv, ContainerTypes
  <2>4. StartInv'
    BY DEF StartInv, ContainerTypes
  <2>5. ShutdownInv'
    BY DEF ShutdownInv, Owner, StoreInv, StartInv, ContainerTypes
  <2>6. StoreInv'
    BY DEF StoreInv, ShutdownInv, StartInv, Quiet, InFlight, Kept, Owner, ContainerTypes
  <2>7. ReleasesAwaited'
    BY DEF ReleasesAwaited, StoreInv, ShutdownInv, StartInv, Owner, ContainerTypes
  <2> QED
    BY <2>1, <2>2, <2>3, <2>4, <2>5, <2>6, <2>7
<1>6. CASE ApplySchema
  <2> USE <1>6 DEF ApplySchema
  <2>1. ContainerTypes'
    BY DEF ContainerTypes, ConnectionState, Stage, Service, WaitInv
  <2>2. ServerIsKnown' /\ (exit' = "none" <=> stage' # "exited")
    BY DEF ContainerTypes, ServerIsKnown, StoreInv, StartInv, ShutdownInv
  <2>3. WaitInv'
    BY DEF WaitInv, ContainerTypes
  <2>4. StartInv'
    BY DEF StartInv, ContainerTypes
  <2>5. ShutdownInv'
    BY DEF ShutdownInv, Owner, StoreInv, StartInv, ContainerTypes
  <2>6. StoreInv'
    BY DEF StoreInv, ShutdownInv, StartInv, Quiet, InFlight, Kept, Owner, ContainerTypes
  <2>7. ReleasesAwaited'
    BY DEF ReleasesAwaited, StoreInv, ShutdownInv, StartInv, Owner, ContainerTypes
  <2> QED
    BY <2>1, <2>2, <2>3, <2>4, <2>5, <2>6, <2>7
<1>7. CASE InitialiseSale
  <2> USE <1>7 DEF InitialiseSale
  <2>1. ContainerTypes'
    BY DEF ContainerTypes, ConnectionState, Stage, Service, WaitInv
  <2>2. ServerIsKnown' /\ (exit' = "none" <=> stage' # "exited")
    BY DEF ContainerTypes, ServerIsKnown, StoreInv, StartInv, ShutdownInv
  <2>3. WaitInv'
    BY DEF WaitInv, ContainerTypes
  <2>4. StartInv'
    BY DEF StartInv, ContainerTypes
  <2>5. ShutdownInv'
    BY DEF ShutdownInv, Owner, StoreInv, StartInv, ContainerTypes
  <2>6. StoreInv'
    BY DEF StoreInv, ShutdownInv, StartInv, Quiet, InFlight, Kept, Owner, ContainerTypes
  <2>7. ReleasesAwaited'
    BY DEF ReleasesAwaited, StoreInv, ShutdownInv, StartInv, Owner, ContainerTypes
  <2> QED
    BY <2>1, <2>2, <2>3, <2>4, <2>5, <2>6, <2>7
<1>8. CASE VerifyPostgres
  <2> USE <1>8 DEF VerifyPostgres
  <2>1. ContainerTypes'
    BY DEF ContainerTypes, ConnectionState, Stage, Service, WaitInv
  <2>2. ServerIsKnown' /\ (exit' = "none" <=> stage' # "exited")
    BY DEF ContainerTypes, ServerIsKnown, StoreInv, StartInv, ShutdownInv
  <2>3. WaitInv'
    BY DEF WaitInv, ContainerTypes
  <2>4. StartInv'
    BY DEF StartInv, ContainerTypes
  <2>5. ShutdownInv'
    BY DEF ShutdownInv, Owner, StoreInv, StartInv, ContainerTypes
  <2>6. StoreInv'
    BY DEF StoreInv, ShutdownInv, StartInv, Quiet, InFlight, Kept, Owner, ContainerTypes
  <2>7. ReleasesAwaited'
    BY DEF ReleasesAwaited, StoreInv, ShutdownInv, StartInv, Owner, ContainerTypes
  <2> QED
    BY <2>1, <2>2, <2>3, <2>4, <2>5, <2>6, <2>7
<1>9. CASE ConnectRedis
  <2> USE <1>9 DEF ConnectRedis
  <2>1. ContainerTypes'
    <3>1. /\ poolEnds' \in Nat
          /\ pool' \in {"open", "ending", "ended", "failed"}
          /\ redisClient' \in {"closed", "open", "quitting", "failed"}
      BY DEF ContainerTypes
    <3>2. connections' \in [Connection -> ConnectionState]
      BY DEF ContainerTypes, ConnectionState
    <3>3. shutdown' \in [Signal -> {"no", "close", "shared", "cleanup"}]
      BY DEF ContainerTypes
    <3>4. stage' \in Stage /\ exit' \in {"none", "success", "failure", "killed"}
      BY DEF ContainerTypes, Stage
    <3>5. /\ attempt' = attempt /\ ready' = ready /\ up' = up /\ broken' = broken
          /\ handlers' = handlers /\ inShutdown' = inShutdown
      OBVIOUS
    <3>6. /\ server' \in BOOLEAN
          /\ listener' \in {"none", "opening", "listening", "closing", "closed"}
      BY DEF ContainerTypes
    <3> HIDE DEF ReleaseStores, GoTo, ConnectRedis
    <3> QED
      BY <3>1, <3>2, <3>3, <3>4, <3>5, <3>6 DEF ContainerTypes
  <2>2. ServerIsKnown' /\ (exit' = "none" <=> stage' # "exited")
    BY DEF ContainerTypes, ServerIsKnown, StoreInv, StartInv, ShutdownInv
  <2>3. WaitInv'
    BY DEF WaitInv, ContainerTypes
  <2>4. StartInv'
    BY DEF StartInv, ContainerTypes
  <2>5. ShutdownInv'
    BY DEF ShutdownInv, Owner, StoreInv, StartInv, ContainerTypes
  <2>6. StoreInv'
    BY DEF StoreInv, ShutdownInv, StartInv, Quiet, InFlight, Kept, Owner, ContainerTypes
  <2>7. ReleasesAwaited'
    BY DEF ReleasesAwaited, StoreInv, ShutdownInv, StartInv, Owner, ContainerTypes
  <2> QED
    BY <2>1, <2>2, <2>3, <2>4, <2>5, <2>6, <2>7
<1>10. CASE Listening
  <2> USE <1>10 DEF Listening
  <2>1. ContainerTypes'
    BY DEF ContainerTypes, ConnectionState, Stage, Service, WaitInv
  <2>2. ServerIsKnown' /\ (exit' = "none" <=> stage' # "exited")
    BY DEF ContainerTypes, ServerIsKnown, StoreInv, StartInv, ShutdownInv
  <2>3. WaitInv'
    BY DEF WaitInv, ContainerTypes
  <2>4. StartInv'
    BY DEF StartInv, ContainerTypes
  <2>5. ShutdownInv'
    BY DEF ShutdownInv, Owner, StoreInv, StartInv, ContainerTypes
  <2>6. StoreInv'
    BY DEF StoreInv, ShutdownInv, StartInv, Quiet, InFlight, Kept, Owner, ContainerTypes
  <2>7. ReleasesAwaited'
    BY DEF ReleasesAwaited, StoreInv, ShutdownInv, StartInv, Owner, ContainerTypes
  <2> QED
    BY <2>1, <2>2, <2>3, <2>4, <2>5, <2>6, <2>7
<1>11. CASE ListenFails
  <2> USE <1>11 DEF ListenFails
  <2>1. ContainerTypes'
    BY DEF ContainerTypes, ConnectionState, Stage, Service, WaitInv
  <2>2. ServerIsKnown' /\ (exit' = "none" <=> stage' # "exited")
    BY DEF ContainerTypes, ServerIsKnown, StoreInv, StartInv, ShutdownInv
  <2>3. WaitInv'
    BY DEF WaitInv, ContainerTypes
  <2>4. StartInv'
    BY DEF StartInv, ContainerTypes
  <2>5. ShutdownInv'
    BY DEF ShutdownInv, Owner, StoreInv, StartInv, ContainerTypes
  <2>6. StoreInv'
    BY DEF StoreInv, ShutdownInv, StartInv, Quiet, InFlight, Kept, Owner, ContainerTypes
  <2>7. ReleasesAwaited'
    BY DEF ReleasesAwaited, StoreInv, ShutdownInv, StartInv, Owner, ContainerTypes
  <2> QED
    BY <2>1, <2>2, <2>3, <2>4, <2>5, <2>6, <2>7
<1>12. CASE FailedStart
  <2> USE <1>12 DEF FailedStart
  <2>1. ContainerTypes'
    BY DEF ContainerTypes, ConnectionState, Stage, Service, WaitInv
  <2>2. ServerIsKnown' /\ (exit' = "none" <=> stage' # "exited")
    BY DEF ContainerTypes, ServerIsKnown, StoreInv, StartInv, ShutdownInv
  <2>3. WaitInv'
    BY DEF WaitInv, ContainerTypes
  <2>4. StartInv'
    BY DEF StartInv, ContainerTypes
  <2>5. ShutdownInv'
    BY DEF ShutdownInv, Owner, StoreInv, StartInv, ContainerTypes
  <2>6. StoreInv'
    BY DEF StoreInv, ShutdownInv, StartInv, Quiet, InFlight, Kept, Owner, ContainerTypes
  <2>7. ReleasesAwaited'
    BY DEF ReleasesAwaited, StoreInv, ShutdownInv, StartInv, Owner, ContainerTypes
  <2> QED
    BY <2>1, <2>2, <2>3, <2>4, <2>5, <2>6, <2>7
<1>13. CASE ListenerFails
  <2> USE <1>13 DEF ListenerFails
  <2>1. ContainerTypes'
    BY DEF ContainerTypes, ConnectionState, Stage, Service, WaitInv
  <2>2. ServerIsKnown' /\ (exit' = "none" <=> stage' # "exited")
    BY DEF ContainerTypes, ServerIsKnown, StoreInv, StartInv, ShutdownInv
  <2>3. WaitInv'
    BY DEF WaitInv, ContainerTypes
  <2>4. StartInv'
    BY DEF StartInv, ContainerTypes
  <2>5. ShutdownInv'
    BY DEF ShutdownInv, Owner, StoreInv, StartInv, ContainerTypes
  <2>6. StoreInv'
    BY DEF StoreInv, ShutdownInv, StartInv, Quiet, InFlight, Kept, Owner, ContainerTypes
  <2>7. ReleasesAwaited'
    BY DEF ReleasesAwaited, StoreInv, ShutdownInv, StartInv, Owner, ContainerTypes
  <2> QED
    BY <2>1, <2>2, <2>3, <2>4, <2>5, <2>6, <2>7
<1>14. CASE PoolSettles
  <2> USE <1>14 DEF PoolSettles
  <2>1. ContainerTypes'
    BY DEF ContainerTypes, ConnectionState, Stage, Service, WaitInv
  <2>2. ServerIsKnown' /\ (exit' = "none" <=> stage' # "exited")
    BY DEF ContainerTypes, ServerIsKnown, StoreInv, StartInv, ShutdownInv
  <2>3. WaitInv'
    BY DEF WaitInv, ContainerTypes
  <2>4. StartInv'
    BY DEF StartInv, ContainerTypes
  <2>5. ShutdownInv'
    BY DEF ShutdownInv, Owner, StoreInv, StartInv, ContainerTypes
  <2>6. StoreInv'
    BY DEF StoreInv, ShutdownInv, StartInv, Quiet, InFlight, Kept, Owner, ContainerTypes
  <2>7. ReleasesAwaited'
    BY DEF ReleasesAwaited, StoreInv, ShutdownInv, StartInv, Owner, ContainerTypes
  <2> QED
    BY <2>1, <2>2, <2>3, <2>4, <2>5, <2>6, <2>7
<1>15. CASE QuitAnswered
  <2> USE <1>15 DEF QuitAnswered
  <2>1. ContainerTypes'
    BY DEF ContainerTypes, ConnectionState, Stage, Service, WaitInv
  <2>2. ServerIsKnown' /\ (exit' = "none" <=> stage' # "exited")
    BY DEF ContainerTypes, ServerIsKnown, StoreInv, StartInv, ShutdownInv
  <2>3. WaitInv'
    BY DEF WaitInv, ContainerTypes
  <2>4. StartInv'
    BY DEF StartInv, ContainerTypes
  <2>5. ShutdownInv'
    BY DEF ShutdownInv, Owner, StoreInv, StartInv, ContainerTypes
  <2>6. StoreInv'
    BY DEF StoreInv, ShutdownInv, StartInv, Quiet, InFlight, Kept, Owner, ContainerTypes
  <2>7. ReleasesAwaited'
    BY DEF ReleasesAwaited, StoreInv, ShutdownInv, StartInv, Owner, ContainerTypes
  <2> QED
    BY <2>1, <2>2, <2>3, <2>4, <2>5, <2>6, <2>7
<1>16. CASE QuitFails
  <2> USE <1>16 DEF QuitFails
  <2>1. ContainerTypes'
    BY DEF ContainerTypes, ConnectionState, Stage, Service, WaitInv
  <2>2. ServerIsKnown' /\ (exit' = "none" <=> stage' # "exited")
    BY DEF ContainerTypes, ServerIsKnown, StoreInv, StartInv, ShutdownInv
  <2>3. WaitInv'
    BY DEF WaitInv, ContainerTypes
  <2>4. StartInv'
    BY DEF StartInv, ContainerTypes
  <2>5. ShutdownInv'
    BY DEF ShutdownInv, Owner, StoreInv, StartInv, ContainerTypes
  <2>6. StoreInv'
    BY DEF StoreInv, ShutdownInv, StartInv, Quiet, InFlight, Kept, Owner, ContainerTypes
  <2>7. ReleasesAwaited'
    BY DEF ReleasesAwaited, StoreInv, ShutdownInv, StartInv, Owner, ContainerTypes
  <2> QED
    BY <2>1, <2>2, <2>3, <2>4, <2>5, <2>6, <2>7
<1>17. ASSUME NEW c0 \in Connection, Arrive(c0) PROVE ContainerInv'
  <2> USE <1>17 DEF Arrive
  <2>1. ContainerTypes'
    BY DEF ContainerTypes, ConnectionState, Stage, Service, WaitInv
  <2>2. ServerIsKnown' /\ (exit' = "none" <=> stage' # "exited")
    BY DEF ContainerTypes, ServerIsKnown, StoreInv, StartInv, ShutdownInv
  <2>3. WaitInv'
    BY DEF WaitInv, ContainerTypes
  <2>4. StartInv'
    BY DEF StartInv, ContainerTypes
  <2>5. ShutdownInv'
    BY DEF ShutdownInv, Owner, StoreInv, StartInv, ContainerTypes
  <2>6. StoreInv'
    BY DEF StoreInv, ShutdownInv, StartInv, Quiet, InFlight, Kept, Owner, ContainerTypes
  <2>7. ReleasesAwaited'
    BY DEF ReleasesAwaited, StoreInv, ShutdownInv, StartInv, Owner, ContainerTypes
  <2> QED
    BY <2>1, <2>2, <2>3, <2>4, <2>5, <2>6, <2>7
<1>18. ASSUME NEW c0 \in Connection, Answer(c0) PROVE ContainerInv'
  <2> USE <1>18 DEF Answer
  <2>1. ContainerTypes'
    <3>1. connections' \in [Connection -> ConnectionState]
      BY DEF ContainerTypes, ConnectionState
    <3> QED
      BY <3>1 DEF ContainerTypes, Stage
  <2>2. ServerIsKnown' /\ (exit' = "none" <=> stage' # "exited")
    BY DEF ContainerTypes, ServerIsKnown, StoreInv, StartInv, ShutdownInv
  <2>3. WaitInv'
    BY DEF WaitInv, ContainerTypes
  <2>4. StartInv'
    BY DEF StartInv, ContainerTypes
  <2>5. ShutdownInv'
    BY DEF ShutdownInv, Owner, StoreInv, StartInv, ContainerTypes
  <2>6. StoreInv'
    BY DEF StoreInv, ShutdownInv, StartInv, Quiet, InFlight, Kept, Owner, ContainerTypes
  <2>7. ReleasesAwaited'
    BY DEF ReleasesAwaited, StoreInv, ShutdownInv, StartInv, Owner, ContainerTypes
  <2> QED
    BY <2>1, <2>2, <2>3, <2>4, <2>5, <2>6, <2>7
<1>19. ASSUME NEW c0 \in Connection, Disconnect(c0) PROVE ContainerInv'
  <2> USE <1>19 DEF Disconnect
  <2>1. ContainerTypes'
    BY DEF ContainerTypes, ConnectionState, Stage, Service, WaitInv
  <2>2. ServerIsKnown' /\ (exit' = "none" <=> stage' # "exited")
    BY DEF ContainerTypes, ServerIsKnown, StoreInv, StartInv, ShutdownInv
  <2>3. WaitInv'
    BY DEF WaitInv, ContainerTypes
  <2>4. StartInv'
    BY DEF StartInv, ContainerTypes
  <2>5. ShutdownInv'
    BY DEF ShutdownInv, Owner, StoreInv, StartInv, ContainerTypes
  <2>6. StoreInv'
    BY DEF StoreInv, ShutdownInv, StartInv, Quiet, InFlight, Kept, Owner, ContainerTypes
  <2>7. ReleasesAwaited'
    BY DEF ReleasesAwaited, StoreInv, ShutdownInv, StartInv, Owner, ContainerTypes
  <2> QED
    BY <2>1, <2>2, <2>3, <2>4, <2>5, <2>6, <2>7
<1>20. ASSUME NEW c0 \in Connection, HangUp(c0) PROVE ContainerInv'
  <2> USE <1>20 DEF HangUp
  <2>1. ContainerTypes'
    BY DEF ContainerTypes, ConnectionState, Stage, Service, WaitInv
  <2>2. ServerIsKnown' /\ (exit' = "none" <=> stage' # "exited")
    BY DEF ContainerTypes, ServerIsKnown, StoreInv, StartInv, ShutdownInv
  <2>3. WaitInv'
    BY DEF WaitInv, ContainerTypes
  <2>4. StartInv'
    BY DEF StartInv, ContainerTypes
  <2>5. ShutdownInv'
    BY DEF ShutdownInv, Owner, StoreInv, StartInv, ContainerTypes
  <2>6. StoreInv'
    BY DEF StoreInv, ShutdownInv, StartInv, Quiet, InFlight, Kept, Owner, ContainerTypes
  <2>7. ReleasesAwaited'
    BY DEF ReleasesAwaited, StoreInv, ShutdownInv, StartInv, Owner, ContainerTypes
  <2> QED
    BY <2>1, <2>2, <2>3, <2>4, <2>5, <2>6, <2>7
<1>21. ASSUME NEW s0 \in Signal, Kill(s0) PROVE ContainerInv'
  <2> USE <1>21 DEF Kill
  <2>1. ContainerTypes'
    BY DEF ContainerTypes, ConnectionState, Stage, Service, WaitInv
  <2>2. ServerIsKnown' /\ (exit' = "none" <=> stage' # "exited")
    BY DEF ContainerTypes, ServerIsKnown, StoreInv, StartInv, ShutdownInv
  <2>3. WaitInv'
    BY DEF WaitInv, ContainerTypes
  <2>4. StartInv'
    BY DEF StartInv, ContainerTypes
  <2>5. ShutdownInv'
    BY DEF ShutdownInv, Owner, StoreInv, StartInv, ContainerTypes
  <2>6. StoreInv'
    BY DEF StoreInv, ShutdownInv, StartInv, Quiet, InFlight, Kept, Owner, ContainerTypes
  <2>7. ReleasesAwaited'
    BY DEF ReleasesAwaited, StoreInv, ShutdownInv, StartInv, Owner, ContainerTypes
  <2> QED
    BY <2>1, <2>2, <2>3, <2>4, <2>5, <2>6, <2>7
<1>22. ASSUME NEW s0 \in Signal, ReceiveSignal(s0) PROVE ContainerInv'
  <2> USE <1>22 DEF ReceiveSignal
  <2>0. /\ stage = "started" /\ stage' = "started" /\ inShutdown' = TRUE
        /\ exit' = exit /\ exit = "none"
    OBVIOUS
  <2>1. WaitInv' /\ StartInv' /\ ReleasesAwaited'
    BY <2>0 DEF WaitInv, StartInv, ReleasesAwaited, ContainerTypes
  <2>2. UNCHANGED <<up, stage, attempt, ready, broken, exit>> /\ handlers' \subseteq Signal
    BY DEF ContainerTypes
  <2>3. CASE inShutdown
    <3>0. UNCHANGED <<server, listener, pool, redisClient, poolEnds, connections>>
      BY <2>3
    <3>1. ContainerTypes'
      BY <2>2, <2>3, <3>0 DEF ContainerTypes
    <3>2. ServerIsKnown' /\ (exit' = "none" <=> stage' # "exited")
      BY <2>2, <2>3 DEF ServerIsKnown, ContainerTypes, StoreInv
    <3>3. ShutdownInv'
      BY <2>0, <2>2, <2>3 DEF ShutdownInv, Owner, StoreInv, ContainerTypes
    <3>4. Quiet' = Quiet
      BY <3>0 DEF Quiet
    <3>5. \A s \in Signal : shutdown'[s] = "close" <=> shutdown[s] = "close"
      BY <2>3 DEF ShutdownInv, ContainerTypes
    <3>6. StoreInv'
      BY <2>0, <2>2, <3>0, <3>4, <3>5 DEF StoreInv
    <3> QED
      BY <2>1, <3>1, <3>2, <3>3, <3>6
  <2>4. CASE ~inShutdown /\ server /\ listener = "listening"
    <3>1. /\ shutdown' = [shutdown EXCEPT ![s0] = "close"] /\ listener' = "closing"
          /\ server' = server /\ pool' = pool
          /\ redisClient' = redisClient /\ poolEnds' = poolEnds
          /\ connections' = [c \in Connection |->
                               IF c \in Kept THEN "closed" ELSE connections[c]]
      BY <2>4
    <3>2. poolEnds = 0 /\ ~broken /\ shutdown'[s0] = "close"
      BY <2>0, <2>4, <3>1 DEF ShutdownInv, StoreInv, ContainerTypes
    <3>3. connections' \in [Connection -> ConnectionState]
      BY <3>1 DEF ContainerTypes, ConnectionState
    <3>4. ContainerTypes' /\ ServerIsKnown' /\ (exit' = "none" <=> stage' # "exited")
      BY <2>2, <2>4, <3>1, <3>3 DEF ServerIsKnown, ContainerTypes
    <3>5. ShutdownInv'
      BY <2>0, <2>2, <2>4 DEF ShutdownInv, Owner, StoreInv, ContainerTypes
    <3>6. StoreInv'
      BY <2>0, <2>2, <2>4, <3>1, <3>2 DEF StoreInv, ContainerTypes
    <3> QED
      BY <2>1, <3>4, <3>5, <3>6
  <2>5. CASE ~inShutdown /\ ~(server /\ listener = "listening")
    <3>1. /\ shutdown' = [shutdown EXCEPT ![s0] = "cleanup"] /\ listener' = listener
          /\ server' = FALSE /\ pool' = "ending" /\ connections' = connections
          /\ poolEnds' = poolEnds + 1
      BY <2>5
    <3>2. /\ poolEnds = 0 /\ poolEnds' = 1 /\ shutdown'[s0] = "cleanup"
          /\ \A s \in Signal \ {s0} : shutdown'[s] = "no"
      BY <2>0, <2>5, <3>1 DEF ShutdownInv, ContainerTypes
    <3>3. redisClient' = "quitting"
      BY <2>0, <2>5, <3>2 DEF StoreInv
    <3>4. listener # "closing" /\ listener # "opening"
      BY <2>0, <2>5 DEF StoreInv, ShutdownInv
    <3>5. ~broken => listener \in {"none", "closed"}
      BY <2>0, <2>5, <3>4 DEF ServerIsKnown, ContainerTypes
    <3>6. ContainerTypes'
      <4>1. poolEnds' \in Nat /\ shutdown' \in [Signal -> {"no", "close", "shared", "cleanup"}]
        BY <3>1, <3>2 DEF ContainerTypes
      <4>2. attempt' \in 1 .. MaxAttempts + 1 /\ up' \subseteq Service
        BY <2>2 DEF ContainerTypes
      <4> QED
        BY <2>0, <2>2, <3>1, <3>3, <4>1, <4>2 DEF ContainerTypes
    <3>7. ServerIsKnown' /\ (exit' = "none" <=> stage' # "exited")
      BY <2>2, <3>1, <3>4, <3>5 DEF ServerIsKnown
    <3>8. ShutdownInv'
      BY <2>0, <2>2, <2>5 DEF ShutdownInv, Owner, StoreInv, ContainerTypes
    <3>9. Quiet' = Quiet
      BY <3>1 DEF Quiet
    <3>10. ~broken => Quiet
      BY <2>0, <3>5 DEF StoreInv
    <3>11. StoreInv'
      BY <2>0, <2>2, <3>1, <3>2, <3>3, <3>4, <3>5, <3>9, <3>10 DEF StoreInv, ContainerTypes
    <3> QED
      BY <2>1, <3>6, <3>7, <3>8, <3>11
  <2> QED
    BY <2>3, <2>4, <2>5
<1>23. ASSUME NEW s0 \in Signal, ServerClosed(s0) PROVE ContainerInv'
  <2> USE <1>23 DEF ServerClosed
  <2>1. ContainerTypes'
    <3>1. /\ poolEnds' \in Nat
          /\ pool' \in {"open", "ending", "ended", "failed"}
          /\ redisClient' \in {"closed", "open", "quitting", "failed"}
      BY DEF ContainerTypes
    <3>2. connections' \in [Connection -> ConnectionState]
      BY DEF ContainerTypes, ConnectionState
    <3>3. shutdown' \in [Signal -> {"no", "close", "shared", "cleanup"}]
      BY DEF ContainerTypes
    <3>4. stage' \in Stage /\ exit' \in {"none", "success", "failure", "killed"}
      BY DEF ContainerTypes, Stage
    <3>5. /\ attempt' = attempt /\ ready' = ready /\ up' = up /\ broken' = broken
          /\ handlers' = handlers /\ inShutdown' = inShutdown
      OBVIOUS
    <3>6. /\ server' \in BOOLEAN
          /\ listener' \in {"none", "opening", "listening", "closing", "closed"}
      BY DEF ContainerTypes
    <3> HIDE DEF ReleaseStores, GoTo, ServerClosed
    <3> QED
      BY <3>1, <3>2, <3>3, <3>4, <3>5, <3>6 DEF ContainerTypes
  <2>2. ServerIsKnown' /\ (exit' = "none" <=> stage' # "exited")
    BY DEF ContainerTypes, ServerIsKnown, StoreInv, StartInv, ShutdownInv
  <2>3. WaitInv'
    BY DEF WaitInv, ContainerTypes
  <2>4. StartInv'
    BY DEF StartInv, ContainerTypes
  <2>5. ShutdownInv'
    BY DEF ShutdownInv, Owner, StoreInv, StartInv, ContainerTypes
  <2>6. StoreInv'
    BY DEF StoreInv, ShutdownInv, StartInv, Quiet, InFlight, Kept, Owner, ContainerTypes
  <2>7. ReleasesAwaited'
    BY DEF ReleasesAwaited, StoreInv, ShutdownInv, StartInv, Owner, ContainerTypes
  <2> QED
    BY <2>1, <2>2, <2>3, <2>4, <2>5, <2>6, <2>7
<1>24. ASSUME NEW s0 \in Signal, ShutdownEnds(s0) PROVE ContainerInv'
  <2> USE <1>24 DEF ShutdownEnds
  <2>1. ContainerTypes'
    BY DEF ContainerTypes, ConnectionState, Stage, Service, WaitInv
  <2>2. ServerIsKnown' /\ (exit' = "none" <=> stage' # "exited")
    BY DEF ContainerTypes, ServerIsKnown, StoreInv, StartInv, ShutdownInv
  <2>3. WaitInv'
    BY DEF WaitInv, ContainerTypes
  <2>4. StartInv'
    BY DEF StartInv, ContainerTypes
  <2>5. ShutdownInv'
    BY DEF ShutdownInv, Owner, StoreInv, StartInv, ContainerTypes
  <2>6. StoreInv'
    BY DEF StoreInv, ShutdownInv, StartInv, Quiet, InFlight, Kept, Owner, ContainerTypes
  <2>7. ReleasesAwaited'
    BY DEF ReleasesAwaited, StoreInv, ShutdownInv, StartInv, Owner, ContainerTypes
  <2> QED
    BY <2>1, <2>2, <2>3, <2>4, <2>5, <2>6, <2>7
<1>25. CASE UNCHANGED containerVars
  BY <1>25 DEF containerVars, ContainerTypeOK, ContainerTypes, ServerIsKnown, WaitInv, StartInv, ShutdownInv, StoreInv,
     ReleasesAwaited, Quiet, Owner
<1> QED
  BY <1>1, <1>2, <1>3, <1>4, <1>5, <1>6, <1>7, <1>8, <1>9, <1>10, <1>11, <1>12, <1>13, <1>14, <1>15, <1>16, <1>17, <1>18, <1>19, <1>20, <1>21, <1>22, <1>23, <1>24, <1>25 DEF ContainerNext, StartUp, Stop, Ended

\* The inductive invariant holds.
LEMMA ContainerSafety == ContainerSpec => []ContainerInv
BY ContainerInitInv, ContainerNextInv, PTL DEF ContainerSpec

\* The type invariant, with `server' set exactly while there is a server.
THEOREM ContainerTypeCorrect == ContainerSpec => []ContainerTypeOK
<1>1. ContainerInv => ContainerTypeOK
  BY DEF ContainerInv
<1> QED
  BY <1>1, ContainerSafety, PTL

\* No request of a connected client finds the pool ended or the Redis client closed
\* under it, for any number of signals and connections (shutdown, server.close).
THEOREM RequestsKeepStores == ContainerSpec => []RequestsHaveStores
<1>1. ContainerInv => RequestsHaveStores
  BY DEF ContainerInv, StoreInv, RequestsHaveStores, InFlight, Quiet, ContainerTypeOK,
         ContainerTypes, ShutdownInv, StartInv
<1> QED
  BY <1>1, ContainerSafety, PTL

\* The pool is ended at most once, whichever signals meet (shutdownPromise).
THEOREM PoolEndsOnce == ContainerSpec => []PoolEndedOnce
<1>1. ContainerInv => PoolEndedOnce
  BY DEF ContainerInv, StoreInv, PoolEndedOnce
<1> QED
  BY <1>1, ContainerSafety, PTL

\* The process does not leave a release behind that is still under way, whichever
\* of the two fails and whatever has begun them, a failed start or a signal; and a
\* stop has begun both (cleanupDependencies, allSettled).
THEOREM ReleasesComeToAnEnd == ContainerSpec => []ReleasesAwaited
<1>1. ContainerInv => ReleasesAwaited
  BY DEF ContainerInv
<1> QED
  BY <1>1, ContainerSafety, PTL

\* Nothing is started on services that no attempt found, for any number of
\* attempts (waitForDependencies).
THEOREM StartOnlyWhenReady == ContainerSpec => []StartsWhenReady
<1>1. ContainerInv => StartsWhenReady
  BY DEF ContainerInv, WaitInv, StartsWhenReady
<1> QED
  BY <1>1, ContainerSafety, PTL

=============================================================================
