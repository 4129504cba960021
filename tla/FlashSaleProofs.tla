--------------------------- MODULE FlashSaleProofs ---------------------------
(***************************************************************************)
(* Theorems about FlashSale, for every value of its constants.             *)
(***************************************************************************)
EXTENDS FlashSale, TLAPS, FiniteSetTheorems

-----------------------------------------------------------------------------
(* Type correctness.                                                       *)

LEMMA InitTypes == Init => TypeOK
BY StoresAssumption
DEF Init, TypeOK, StoresInit, PurchaseInit, InitSaleInit, ReconcileInit,
    StoresTypeOK, PurchaseTypeOK, InitSaleTypeOK, ReconcileTypeOK, Pc, InitPc,
    CliPc, Response

\* The script's result is one of the five, and SUCCESS needs a positive stock.
LEMMA ScriptResults ==
  ASSUME NEW r \in Request, StoresTypeOK
  PROVE  /\ ScriptResult(r) \in PurchaseScriptResults
         /\ ScriptResult(r) = "SUCCESS" =>
              /\ stock \in Nat
              /\ stock > 0
              /\ user[r] \notin purchasedUsers
         /\ ScriptResult(r) = "SOLD_OUT" => stock = NoStock \/ stock = 0
         /\ ScriptResult(r) = "ALREADY_PURCHASED" => user[r] \in purchasedUsers
BY NoStockAssumption
DEF ScriptResult, PurchaseScriptResult, PurchaseScriptResults, StockExhausted,
    StoresTypeOK

\* A fault leaves the budget in its range.
LEMMA FaultTypes ==
  ASSUME NEW p, StoresTypeOK, Fault(p)
  PROVE  faults' \in 0 .. MaxFaults
BY StoresAssumption DEF StoresTypeOK, Fault

LEMMA InsertTypes ==
  ASSUME NEW s \in Sale, NEW u \in User, StoresTypeOK, InsertPurchase(s, u)
  PROVE  purchases' \subseteq [sale : Sale, user : User]
<1>1. [sale |-> s, user |-> u] \in [sale : Sale, user : User]
  OBVIOUS
<1>. QED BY <1>1 DEF InsertPurchase, StoresTypeOK

LEMMA ScriptEffectTypes ==
  ASSUME NEW r \in Request, StoresTypeOK, PurchaseTypeOK,
         pc[r] = "script", ScriptEffect(r), faults' \in 0 .. MaxFaults
  PROVE  /\ StoresTypeOK'
         /\ granted' \subseteq Request
         /\ epoch' \in [Request -> Nat]
         /\ now' \in [Request -> Int]
<1>1. /\ ScriptResult(r) = "SUCCESS" => stock \in Nat /\ stock > 0
      /\ user[r] \in User
  BY ScriptResults DEF PurchaseTypeOK
<1>2. stock' \in Nat \cup {NoStock} /\ purchasedUsers' \subseteq User
  BY <1>1 DEF ScriptEffect, StoresTypeOK, DecrStock, AddUser
<1>3. granted' \subseteq Request
  BY DEF ScriptEffect, PurchaseTypeOK
<1>4. epoch' \in [Request -> Nat] /\ now' \in [Request -> Int]
  BY DEF ScriptEffect, StoresTypeOK, PurchaseTypeOK
<1>. QED
  BY <1>2, <1>3, <1>4 DEF ScriptEffect, StoresTypeOK, postgresVars

LEMMA PurchaseStepTypes ==
  ASSUME StoresTypeOK, PurchaseTypeOK, PurchaseNext
  PROVE  StoresTypeOK' /\ PurchaseTypeOK'
<1>. USE StoresAssumption DEF Pc, Response
<1>1. ASSUME NEW d \in Sale, StartServer(d)
      PROVE  StoresTypeOK' /\ PurchaseTypeOK'
  BY <1>1 DEF StartServer, StoresTypeOK, PurchaseTypeOK, storeVars, redisVars,
              postgresVars, requestVars
<1>2. CASE StopServer
  BY <1>2 DEF StopServer, InFlight, StoresTypeOK, PurchaseTypeOK, storeVars,
              redisVars, postgresVars, requestVars
<1>3. CASE CrashServer
  <2>1. StoresTypeOK'
    BY <1>3, FaultTypes DEF CrashServer, StoresTypeOK, redisVars, postgresVars
  <2>2. PurchaseTypeOK'
    BY <1>3 DEF CrashServer, InFlight, PurchaseTypeOK
  <2>. QED BY <2>1, <2>2
<1>4. ASSUME NEW r \in Request, NEW raw \in RawUserId, RejectUserId(r, raw)
      PROVE  StoresTypeOK' /\ PurchaseTypeOK'
  <2>1. StoresTypeOK'
    BY <1>4 DEF RejectUserId, StoresTypeOK, storeVars, redisVars, postgresVars
  <2>2. PurchaseTypeOK'
    BY <1>4 DEF RejectUserId, Reply, PurchaseTypeOK
  <2>. QED BY <2>1, <2>2
<1>5. ASSUME NEW r \in Request, NEW raw \in RawUserId, NEW t \in Instant,
             ReceivePurchase(r, raw, t)
      PROVE  StoresTypeOK' /\ PurchaseTypeOK'
  <2>1. StoresTypeOK'
    BY <1>5 DEF ReceivePurchase, StoresTypeOK, storeVars, redisVars, postgresVars
  <2>2. PurchaseTypeOK'
    BY <1>5, PurchaseAssumption
    DEF ReceivePurchase, CanonicalUserId, GoTo, PurchaseTypeOK
  <2>. QED BY <2>1, <2>2
<1>6. ASSUME NEW r \in Request, GrantPurchase(r)
      PROVE  StoresTypeOK' /\ PurchaseTypeOK'
  <2>1. StoresTypeOK' /\ granted' \subseteq Request
          /\ epoch' \in [Request -> Nat] /\ now' \in [Request -> Int]
    BY <1>6, ScriptEffectTypes DEF GrantPurchase, StoresTypeOK
  <2>2. PurchaseTypeOK'
    BY <1>6, <2>1 DEF GrantPurchase, ScriptEffect, GoTo, PurchaseTypeOK
  <2>. QED BY <2>1, <2>2
<1>7. ASSUME NEW r \in Request, RefusePurchase(r)
      PROVE  StoresTypeOK' /\ PurchaseTypeOK'
  <2>1. StoresTypeOK' /\ granted' \subseteq Request
          /\ epoch' \in [Request -> Nat] /\ now' \in [Request -> Int]
    BY <1>7, ScriptEffectTypes DEF RefusePurchase, StoresTypeOK
  <2>2. PURCHASE_STATUS_BY_SCRIPT_RESULT[ScriptResult(r)] \in Response
    BY ScriptResults
  <2>3. PurchaseTypeOK'
    BY <1>7, <2>1, <2>2 DEF RefusePurchase, ScriptEffect, Reply, PurchaseTypeOK
  <2>. QED BY <2>1, <2>3
<1>8. ASSUME NEW r \in Request, ScriptUnavailable(r)
      PROVE  StoresTypeOK' /\ PurchaseTypeOK'
  <2>1. StoresTypeOK'
    BY <1>8, FaultTypes
    DEF ScriptUnavailable, StoresTypeOK, redisVars, postgresVars
  <2>2. PurchaseTypeOK'
    BY <1>8 DEF ScriptUnavailable, Reply, PurchaseTypeOK
  <2>. QED BY <2>1, <2>2
<1>9. ASSUME NEW r \in Request, ScriptReplyLost(r)
      PROVE  StoresTypeOK' /\ PurchaseTypeOK'
  <2>1. StoresTypeOK' /\ granted' \subseteq Request
          /\ epoch' \in [Request -> Nat] /\ now' \in [Request -> Int]
    BY <1>9, ScriptEffectTypes, FaultTypes DEF ScriptReplyLost
  <2>2. PurchaseTypeOK'
    BY <1>9, <2>1 DEF ScriptReplyLost, ScriptEffect, Reply, PurchaseTypeOK
  <2>. QED BY <2>1, <2>2
<1>10. ASSUME NEW r \in Request, ReadActiveSaleId(r)
       PROVE  StoresTypeOK' /\ PurchaseTypeOK'
  <2>1. StoresTypeOK'
    BY <1>10
    DEF ReadActiveSaleId, StoresTypeOK, storeVars, redisVars, postgresVars
  <2>2. PurchaseTypeOK'
    <3>1. CASE activeSaleId = NoSale
      BY <1>10, <3>1 DEF ReadActiveSaleId, GoTo, PcAfterCacheMiss, PurchaseTypeOK
    <3>2. CASE activeSaleId # NoSale
      <4>1. activeSaleId \in Sale
        BY <3>2 DEF StoresTypeOK
      <4>. QED BY <1>10, <3>2, <4>1 DEF ReadActiveSaleId, GoTo, PurchaseTypeOK
    <3>. QED BY <3>1, <3>2
  <2>. QED BY <2>1, <2>2
<1>11. ASSUME NEW r \in Request, EnsureActiveSale(r)
       PROVE  StoresTypeOK' /\ PurchaseTypeOK'
  <2>1. apiSale \in Sale
    BY <1>11 DEF EnsureActiveSale, PurchaseTypeOK
  <2>2. StoresTypeOK'
    BY <1>11, <2>1 DEF EnsureActiveSale, GetOrCreateSale, StoresTypeOK, redisVars
  <2>3. PurchaseTypeOK'
    BY <1>11, <2>1 DEF EnsureActiveSale, GoTo, PurchaseTypeOK
  <2>. QED BY <2>2, <2>3
<1>12. ASSUME NEW r \in Request, CacheActiveSaleId(r)
       PROVE  StoresTypeOK' /\ PurchaseTypeOK'
  <2>1. StoresTypeOK'
    BY <1>12 DEF CacheActiveSaleId, SetActiveSaleId, StoresTypeOK,
                 PurchaseTypeOK, postgresVars
  <2>2. PurchaseTypeOK'
    BY <1>12 DEF CacheActiveSaleId, SetActiveSaleId, GoTo, PurchaseTypeOK
  <2>. QED BY <2>1, <2>2
<1>13. ASSUME NEW r \in Request, ResolveFails(r)
       PROVE  StoresTypeOK' /\ PurchaseTypeOK'
  <2>1. StoresTypeOK'
    BY <1>13, FaultTypes
    DEF ResolveFails, SetActiveSaleId, StoresTypeOK, PurchaseTypeOK, redisVars,
        postgresVars
  <2>2. PurchaseTypeOK'
    BY <1>13 DEF ResolveFails, SetActiveSaleId, Reply, PurchaseTypeOK
  <2>. QED BY <2>1, <2>2
<1>14. ASSUME NEW r \in Request, PersistPurchase(r)
       PROVE  StoresTypeOK' /\ PurchaseTypeOK'
  <2>0. purchases' \subseteq [sale : Sale, user : User]
    BY <1>14, InsertTypes DEF PersistPurchase, PurchaseTypeOK
  <2>1. StoresTypeOK'
    BY <1>14, <2>0 DEF PersistPurchase, BookingUnchanged, gateVars, StoresTypeOK
  <2>2. PurchaseTypeOK'
    BY <1>14 DEF PersistPurchase, BookingUnchanged, Reply, PurchaseTypeOK,
                 PURCHASE_STATUS_BY_SCRIPT_RESULT, PurchaseScriptResults
  <2>. QED BY <2>1, <2>2
<1>15. ASSUME NEW r \in Request, PersistRejected(r)
       PROVE  StoresTypeOK' /\ PurchaseTypeOK'
  <2>1. StoresTypeOK'
    BY <1>15 DEF PersistRejected, BookingUnchanged, gateVars, StoresTypeOK
  <2>2. PurchaseTypeOK'
    BY <1>15 DEF PersistRejected, BookingUnchanged, GoTo, PurchaseTypeOK
  <2>. QED BY <2>1, <2>2
<1>16. ASSUME NEW r \in Request, PersistFails(r)
       PROVE  StoresTypeOK' /\ PurchaseTypeOK'
  <2>0. /\ purchases' \subseteq [sale : Sale, user : User]
        /\ faults' \in 0 .. MaxFaults
    <3>1. saleId[r] \in Sale /\ user[r] \in User
      BY <1>16 DEF PersistFails, PurchaseTypeOK
    <3>2. purchases' = purchases \/ InsertPurchase(saleId[r], user[r])
      BY <1>16 DEF PersistFails
    <3>3. purchases' \subseteq [sale : Sale, user : User]
      BY <3>1, <3>2, InsertTypes DEF StoresTypeOK
    <3>. QED BY <1>16, <3>3, FaultTypes DEF PersistFails
  <2>1. StoresTypeOK'
    BY <1>16, <2>0 DEF PersistFails, BookingUnchanged, gateVars, StoresTypeOK
  <2>2. PurchaseTypeOK'
    BY <1>16 DEF PersistFails, BookingUnchanged, GoTo, PurchaseTypeOK
  <2>. QED BY <2>1, <2>2
<1>17. ASSUME NEW r \in Request, RecordFailure(r)
       PROVE  StoresTypeOK' /\ PurchaseTypeOK'
  <2>1. FailureRecord(r) \in RawRecord
    BY <1>17 DEF RecordFailure, FailureRecord, RawRecord, PurchaseTypeOK
  <2>2. StoresTypeOK'
    BY <1>17, <2>1 DEF RecordFailure, PushRecord, BookingUnchanged, gateVars,
                       StoresTypeOK
  <2>3. PurchaseTypeOK'
    BY <1>17 DEF RecordFailure, BookingUnchanged, Reply, PurchaseTypeOK
  <2>. QED BY <2>2, <2>3
<1>18. ASSUME NEW r \in Request, RecordFailureFails(r)
       PROVE  StoresTypeOK' /\ PurchaseTypeOK'
  <2>1. FailureRecord(r) \in RawRecord
    BY <1>18 DEF RecordFailureFails, FailureRecord, RawRecord, PurchaseTypeOK
  <2>2. StoresTypeOK'
    <3>1. faults' \in 0 .. MaxFaults
      BY <1>18, FaultTypes DEF RecordFailureFails
    <3>2. failures' \in Seq(RawRecord)
      <4>1. failures' = failures \/ failures' = Append(failures, FailureRecord(r))
        BY <1>18 DEF RecordFailureFails
      <4>2. failures \in Seq(RawRecord)
        BY DEF StoresTypeOK
      <4>3. Append(failures, FailureRecord(r)) \in Seq(RawRecord)
        BY <2>1, <4>2
      <4>. QED BY <4>1, <4>2, <4>3
    <3>. QED BY <1>18, <3>1, <3>2
             DEF RecordFailureFails, BookingUnchanged, gateVars, StoresTypeOK
  <2>3. PurchaseTypeOK'
    BY <1>18 DEF RecordFailureFails, BookingUnchanged, Reply, PurchaseTypeOK
  <2>. QED BY <2>2, <2>3
<1>. QED
  BY <1>1, <1>2, <1>3, <1>4, <1>5, <1>6, <1>7, <1>8, <1>9, <1>10, <1>11, <1>12,
     <1>13, <1>14, <1>15, <1>16, <1>17, <1>18
  DEF PurchaseNext, HandlerStep, HandlerFault

-----------------------------------------------------------------------------

LEMMA InitSaleStepTypes ==
  ASSUME StoresTypeOK, InitSaleTypeOK, InitSaleNext
  PROVE  StoresTypeOK' /\ InitSaleTypeOK'
<1>. USE StoresAssumption, InitAssumption DEF InitPc
<1>0. ASSUME NEW n \in Nat, NEW s \in Sale \cup {NoSale}, ResetSaleState(n, s)
      PROVE  StoresTypeOK'
  <2>1. [sale |-> s, stock |-> n] \in [sale : Sale \cup {NoSale}, stock : Nat]
    OBVIOUS
  <2>2. resets' \in Seq([sale : Sale \cup {NoSale}, stock : Nat])
    BY <1>0, <2>1 DEF ResetSaleState, StoresTypeOK
  <2>. QED BY <1>0, <2>2
           DEF ResetSaleState, BuyersAfterReset, ActiveSaleAfterReset,
               StoresTypeOK, postgresVars
<1>1. ASSUME NEW i \in InitProc, NEW d \in Sale,
             NEW n \in {InitialStock[d]} \cup StockArgument, StartInit(i, d, n)
      PROVE  StoresTypeOK' /\ InitSaleTypeOK'
  <2>1. StoresTypeOK'
    BY <1>1 DEF StartInit, StoresTypeOK, storeVars, redisVars, postgresVars
  <2>2. n \in Nat
    OBVIOUS
  <2>3. InitSaleTypeOK'
    BY <1>1, <2>2 DEF StartInit, FirstStep, InitSaleTypeOK
  <2>. QED BY <2>1, <2>3
<1>2. ASSUME NEW i \in InitProc, EnsureConfiguredSale(i)
      PROVE  StoresTypeOK' /\ InitSaleTypeOK'
  <2>1. StoresTypeOK'
    BY <1>2 DEF EnsureConfiguredSale, GetOrCreateSale, StoresTypeOK,
                InitSaleTypeOK, redisVars
  <2>2. InitSaleTypeOK'
    BY <1>2 DEF EnsureConfiguredSale, InitSaleTypeOK
  <2>. QED BY <2>1, <2>2
<1>3. ASSUME NEW i \in InitProc, ResetConfiguredSale(i)
      PROVE  StoresTypeOK' /\ InitSaleTypeOK'
  <2>1. initStock[i] \in Nat /\ initSale[i] \in Sale \cup {NoSale}
    BY DEF InitSaleTypeOK
  <2>2. StoresTypeOK'
    BY <1>0, <1>3, <2>1 DEF ResetConfiguredSale
  <2>3. InitSaleTypeOK'
    BY <1>3 DEF ResetConfiguredSale, InitExit, InitSaleTypeOK
  <2>. QED BY <2>2, <2>3
<1>4. ASSUME NEW i \in InitProc, InitFails(i)
      PROVE  StoresTypeOK' /\ InitSaleTypeOK'
  <2>1. StoresTypeOK'
    BY <1>4, FaultTypes DEF InitFails, StoresTypeOK, redisVars, postgresVars
  <2>2. InitSaleTypeOK'
    BY <1>4 DEF InitFails, InitExit, InitSaleTypeOK
  <2>. QED BY <2>1, <2>2
<1>5. ASSUME NEW n \in StockAfterBareReset, BareReset(n)
      PROVE  StoresTypeOK' /\ InitSaleTypeOK'
  <2>1. n \in Nat
    BY DEF StockAfterBareReset
  <2>2. StoresTypeOK'
    BY <1>0, <1>5, <2>1 DEF BareReset
  <2>3. InitSaleTypeOK'
    BY <1>5 DEF BareReset, initVars, InitSaleTypeOK
  <2>. QED BY <2>2, <2>3
<1>. QED
  BY <1>1, <1>2, <1>3, <1>4, <1>5 DEF InitSaleNext, InitStep

LEMMA ReconcileStepTypes ==
  ASSUME StoresTypeOK, ReconcileTypeOK, ReconcileNext
  PROVE  StoresTypeOK' /\ ReconcileTypeOK'
<1>. USE StoresAssumption, ReconcileAssumption DEF CliPc, ArchiveStatus
<1>0. ASSUME NEW w \in Worker, CliExit(w), enqueued' = enqueued
      PROVE  ReconcileTypeOK'
  BY <1>0 DEF CliExit, ReconcileTypeOK
<1>a. ASSUME NEW w \in Worker, cliPc[w] = "pop", ArchiveAndPop(w),
             faults' \in 0 .. MaxFaults
      PROVE  StoresTypeOK'
  <2>1. [raw |-> cliRaw[w], status |-> cliStatus[w]]
          \in [raw : RawRecord, status : ArchiveStatus]
    BY <1>a DEF ReconcileTypeOK
  <2>2. archive' \in Seq([raw : RawRecord, status : ArchiveStatus])
    BY <1>a, <2>1 DEF ArchiveAndPop, StoresTypeOK
  <2>3. failures' \in Seq(RawRecord)
    BY <1>a DEF ArchiveAndPop, LPop, StoresTypeOK
  <2>. QED BY <1>a, <2>2, <2>3
           DEF ArchiveAndPop, StoresTypeOK, gateVars, postgresVars
<1>1. ASSUME NEW x \in ExternalRecord, EnqueueExternal(x)
      PROVE  StoresTypeOK' /\ ReconcileTypeOK'
  <2>1. failures' \in Seq(RawRecord)
    BY <1>1 DEF EnqueueExternal, StoresTypeOK
  <2>2. StoresTypeOK'
    BY <1>1, <2>1 DEF EnqueueExternal, StoresTypeOK, gateVars, postgresVars
  <2>3. ReconcileTypeOK'
    BY <1>1 DEF EnqueueExternal, workerVars, ReconcileTypeOK
  <2>. QED BY <2>2, <2>3
<1>2. ASSUME NEW w \in Worker, NEW n \in Limit, StartReconcile(w, n)
      PROVE  StoresTypeOK' /\ ReconcileTypeOK'
  <2>1. StoresTypeOK'
    BY <1>2 DEF StartReconcile, StoresTypeOK, storeVars, redisVars, postgresVars
  <2>2. ReconcileTypeOK'
    BY <1>2 DEF StartReconcile, ReconcileTypeOK
  <2>. QED BY <2>1, <2>2
<1>3. ASSUME NEW w \in Worker, FinishReconcile(w)
      PROVE  StoresTypeOK' /\ ReconcileTypeOK'
  BY <1>0, <1>3 DEF FinishReconcile, StoresTypeOK, storeVars, redisVars,
                    postgresVars
<1>4. ASSUME NEW w \in Worker, ReadHead(w)
      PROVE  StoresTypeOK' /\ ReconcileTypeOK'
  <2>1. StoresTypeOK'
    BY <1>4 DEF ReadHead, StoresTypeOK, storeVars, redisVars, postgresVars
  <2>2. Head(failures) \in RawRecord
    BY <1>4 DEF ReadHead, StoresTypeOK
  <2>3. CASE IsMalformed(Head(failures))
    <3>1. ReconcileTypeOK'
      BY <1>4, <2>2, <2>3 DEF ReadHead, StepAfterMalformed, ReconcileTypeOK
    <3>. QED BY <2>1, <3>1
  <2>4. CASE ~IsMalformed(Head(failures))
    <3>1. ReconcileTypeOK'
      BY <1>4, <2>2, <2>4 DEF ReadHead, ReconcileTypeOK
    <3>. QED BY <2>1, <3>1
  <2>. QED BY <2>3, <2>4
<1>5. ASSUME NEW w \in Worker, FindPersisted(w)
      PROVE  StoresTypeOK' /\ ReconcileTypeOK'
  <2>1. StoresTypeOK'
    BY <1>5 DEF FindPersisted, StoresTypeOK, storeVars, redisVars, postgresVars
  <2>2. ReconcileTypeOK'
    BY <1>5 DEF FindPersisted, CliRepaired, CliGoTo, ReconcileTypeOK
  <2>. QED BY <2>1, <2>2
<1>6. ASSUME NEW w \in Worker, CreateMissing(w)
      PROVE  StoresTypeOK' /\ ReconcileTypeOK'
  <2>1. /\ ParsedSale(cliRaw[w]) \in Sale
        /\ RepairUser(cliRaw[w]) \in User
    BY <1>6 DEF CreateMissing, ReconcileTypeOK, IsMalformed, ParsedSale,
                ParsedUser, RepairUser, CanonicalUserId, RawRecord
  <2>2. purchases' \subseteq [sale : Sale, user : User]
    BY <1>6, <2>1, InsertTypes DEF CreateMissing
  <2>3. StoresTypeOK'
    BY <1>6, <2>2 DEF CreateMissing, StoresTypeOK, redisVars
  <2>4. ReconcileTypeOK'
    BY <1>6 DEF CreateMissing, CliRepaired, ReconcileTypeOK
  <2>. QED BY <2>3, <2>4
<1>7. ASSUME NEW w \in Worker, CreateConflicts(w)
      PROVE  StoresTypeOK' /\ ReconcileTypeOK'
  <2>1. StoresTypeOK'
    BY <1>7 DEF CreateConflicts, StoresTypeOK, storeVars, redisVars, postgresVars
  <2>2. ReconcileTypeOK'
    BY <1>7 DEF CreateConflicts, CliGoTo, ReconcileTypeOK
  <2>. QED BY <2>1, <2>2
<1>8. ASSUME NEW w \in Worker, CreateRejected(w)
      PROVE  StoresTypeOK' /\ ReconcileTypeOK'
  BY <1>0, <1>8 DEF CreateRejected, StoresTypeOK, storeVars, redisVars,
                    postgresVars
<1>9. ASSUME NEW w \in Worker, RefindPersisted(w)
      PROVE  StoresTypeOK' /\ ReconcileTypeOK'
  <2>1. StoresTypeOK'
    BY <1>9
    DEF RefindPersisted, StoresTypeOK, storeVars, redisVars, postgresVars
  <2>2. CASE Persisted(cliRaw[w])
    <3>1. ReconcileTypeOK'
      BY <1>9, <2>2 DEF RefindPersisted, CliRepaired, ReconcileTypeOK
    <3>. QED BY <2>1, <3>1
  <2>3. CASE ~Persisted(cliRaw[w])
    BY <1>0, <1>9, <2>1, <2>3 DEF RefindPersisted
  <2>. QED BY <2>2, <2>3
<1>10. ASSUME NEW w \in Worker, CheckHead(w)
       PROVE  StoresTypeOK' /\ ReconcileTypeOK'
  <2>1. StoresTypeOK'
    BY <1>10 DEF CheckHead, StoresTypeOK, storeVars, redisVars, postgresVars
  <2>2. CASE CliExit(w)
    BY <1>0, <1>10, <2>1, <2>2 DEF CheckHead
  <2>3. CASE CliGoTo(w, "pop")
    <3>1. ReconcileTypeOK'
      BY <1>10, <2>3 DEF CheckHead, CliGoTo, ReconcileTypeOK
    <3>. QED BY <2>1, <3>1
  <2>. QED BY <1>10, <2>2, <2>3 DEF CheckHead
<1>11. ASSUME NEW w \in Worker, PopHead(w)
       PROVE  StoresTypeOK' /\ ReconcileTypeOK'
  <2>1. StoresTypeOK'
    BY <1>a, <1>11 DEF PopHead, StoresTypeOK
  <2>2. cliLeft[w] - 1 \in Nat
    BY <1>11 DEF PopHead, ReconcileTypeOK
  <2>3. ReconcileTypeOK'
    BY <1>11, <2>2 DEF PopHead, ArchiveAndPop, ReconcileTypeOK
  <2>. QED BY <2>1, <2>3
<1>12. ASSUME NEW w \in Worker, CliFails(w)
       PROVE  StoresTypeOK' /\ ReconcileTypeOK'
  <2>1. faults' \in 0 .. MaxFaults
    BY <1>12, FaultTypes DEF CliFails
  <2>2. CASE UNCHANGED <<enqueued, redisVars, postgresVars, resets>>
    BY <1>0, <1>12, <2>1, <2>2 DEF CliFails, StoresTypeOK, redisVars, postgresVars
  <2>3. CASE cliPc[w] = "pop" /\ ArchiveAndPop(w)
    <3>1. enqueued' = enqueued
      BY <2>3 DEF ArchiveAndPop
    <3>. QED BY <1>0, <1>a, <1>12, <2>1, <2>3, <3>1 DEF CliFails
  <2>. QED BY <1>12, <2>2, <2>3 DEF CliFails
<1>. QED
  BY <1>1, <1>2, <1>3, <1>4, <1>5, <1>6, <1>7, <1>8, <1>9, <1>10, <1>11, <1>12
  DEF ReconcileNext, CliStep

\* A component's types do not depend on what other components change.
LEMMA OtherTypes ==
  ASSUME StoresTypeOK
  PROVE  /\ PurchaseTypeOK /\ UNCHANGED purchaseVars => PurchaseTypeOK'
         /\ InitSaleTypeOK /\ UNCHANGED initVars => InitSaleTypeOK'
         /\ ReconcileTypeOK /\ UNCHANGED reconcileVars => ReconcileTypeOK'
         /\ UNCHANGED storeVars => StoresTypeOK'
<1>1. PurchaseTypeOK /\ UNCHANGED purchaseVars => PurchaseTypeOK'
  BY DEF PurchaseTypeOK, purchaseVars, requestVars
<1>2. InitSaleTypeOK /\ UNCHANGED initVars => InitSaleTypeOK'
  BY DEF InitSaleTypeOK, initVars
<1>3. ReconcileTypeOK /\ UNCHANGED reconcileVars => ReconcileTypeOK'
  BY DEF ReconcileTypeOK, reconcileVars, workerVars
<1>4. UNCHANGED storeVars => StoresTypeOK'
  BY DEF StoresTypeOK, storeVars, redisVars, postgresVars
<1>. QED BY <1>1, <1>2, <1>3, <1>4

LEMMA NextTypes == TypeOK /\ [Next]_vars => TypeOK'
<1>. SUFFICES ASSUME TypeOK, [Next]_vars PROVE TypeOK'
  OBVIOUS
<1>1. CASE PurchaseNext /\ UNCHANGED <<initVars, reconcileVars>>
  BY <1>1, PurchaseStepTypes, OtherTypes DEF TypeOK
<1>2. CASE InitSaleNext /\ UNCHANGED <<purchaseVars, reconcileVars>>
  BY <1>2, InitSaleStepTypes, OtherTypes DEF TypeOK
<1>3. CASE ReconcileNext /\ UNCHANGED <<purchaseVars, initVars>>
  BY <1>3, ReconcileStepTypes, OtherTypes DEF TypeOK
<1>4. CASE UNCHANGED vars
  BY <1>4, OtherTypes DEF TypeOK, vars
<1>. QED BY <1>1, <1>2, <1>3, <1>4 DEF Next

\* The type invariant holds in every reachable state: in particular DECR never
\* takes the stock below zero, and no handler or CLI run reaches a step without
\* what that step needs.
THEOREM TypeCorrect == Spec => []TypeOK
<1>. QED BY InitTypes, NextTypes, PTL DEF Spec

-----------------------------------------------------------------------------
(* The gate.                                                               *)

\* GateConservation is not inductive: that a grant takes a new element into
\* Grants rests on a request being granted once, and that the set of buyers
\* speaks for the grants rests on the reset that empties it.
GateInv ==
  /\ GateConservation
  /\ \A r \in Request : epoch[r] \in 0 .. Len(resets)
  /\ \A r \in granted : /\ epoch[r] > 0
                         /\ user[r] \in User
                         /\ pc[r] \notin {"idle", "script"}
  /\ purchasedUsers = {user[r] : r \in Grants(Len(resets))}
  /\ OneGrantPerUserPerReset

LEMMA GrantsFinite ==
  ASSUME PurchaseTypeOK, NEW e
  PROVE  /\ IsFiniteSet(Grants(e))
         /\ Cardinality(Grants(e)) \in Nat
<1>1. Grants(e) \subseteq Request
  BY DEF Grants, PurchaseTypeOK
<1>. QED BY <1>1, FS_Subset, FS_CardinalityType, StoresAssumption

LEMMA GateInit == Init => GateInv
<1>. SUFFICES ASSUME Init PROVE GateInv
  OBVIOUS
<1>1. granted = {} /\ resets = <<>> /\ Len(resets) = 0 /\ purchasedUsers = {}
        /\ stock = NoStock /\ epoch = [r \in Request |-> 0]
  BY DEF Init, StoresInit, PurchaseInit
<1>2. Grants(0) = {}
  BY <1>1 DEF Grants
<1>. QED
  BY <1>1, <1>2 DEF GateInv, GateConservation, OneGrantPerUserPerReset

\* A step that leaves the gate alone, and the users and places of the requests
\* it granted.
LEMMA GateFrame ==
  ASSUME GateInv,
         UNCHANGED <<stock, purchasedUsers, resets, granted, epoch>>,
         \A q \in granted : user'[q] = user[q] /\ pc'[q] \notin {"idle", "script"}
  PROVE  GateInv'
<1>1. \A e : Grants(e)' = Grants(e)
  BY DEF Grants
<1>2. GateConservation'
  BY <1>1 DEF GateInv, GateConservation
<1>3. Grants(Len(resets)) \subseteq granted
  BY DEF Grants
<1>4. purchasedUsers' = {user'[r] : r \in Grants(Len(resets))}
  BY <1>3 DEF GateInv
<1>5. OneGrantPerUserPerReset'
  BY DEF GateInv, OneGrantPerUserPerReset
<1>. QED BY <1>1, <1>2, <1>4, <1>5 DEF GateInv

\* A request is granted only after some reset.
LEMMA GrantNeedsReset ==
  ASSUME StoresTypeOK, GateInv, stock \in Nat
  PROVE  Len(resets) \in Nat /\ Len(resets) > 0 /\ resets # <<>>
BY NoStockAssumption DEF StoresTypeOK, GateInv, GateConservation

\* The script keeps the invariant, whether or not its reply arrives.
LEMMA GateScript ==
  ASSUME StoresTypeOK, PurchaseTypeOK, GateInv, NEW r \in Request,
         pc[r] = "script", ScriptEffect(r),
         NEW label, label \notin {"idle", "script"},
         pc' = [pc EXCEPT ![r] = label]
  PROVE  GateInv'
<1>. DEFINE n == Len(resets)
<1>0. /\ n \in Nat
      /\ resets' = resets /\ user' = user
      /\ epoch' = [epoch EXCEPT ![r] = n]
      /\ r \notin granted
      /\ granted \subseteq Request
  BY DEF ScriptEffect, StoresTypeOK, PurchaseTypeOK, GateInv
<1>1. \A q \in Request : epoch'[q] \in 0 .. Len(resets')
  BY <1>0 DEF GateInv, PurchaseTypeOK
<1>2. CASE ScriptResult(r) # "SUCCESS"
  <2>1. UNCHANGED <<stock, purchasedUsers, granted>>
    BY <1>2 DEF ScriptEffect
  <2>2. \A e : Grants(e)' = Grants(e)
    BY <1>0, <2>1 DEF Grants, PurchaseTypeOK
  <2>3. GateConservation'
    BY <1>0, <2>1, <2>2 DEF GateInv, GateConservation
  <2>4. \A q \in granted' : epoch'[q] = epoch[q] /\ pc'[q] = pc[q]
    BY <1>0, <2>1 DEF PurchaseTypeOK
  <2>5. OneGrantPerUserPerReset'
    BY <1>0, <2>1, <2>4 DEF GateInv, OneGrantPerUserPerReset
  <2>6. purchasedUsers' = {user'[q] : q \in Grants(Len(resets))'}
    BY <1>0, <2>1, <2>2 DEF GateInv
  <2>. QED BY <1>0, <1>1, <2>1, <2>3, <2>4, <2>5, <2>6 DEF GateInv
<1>3. CASE ScriptResult(r) = "SUCCESS"
  <2>1. /\ stock \in Nat /\ stock > 0
        /\ user[r] \notin purchasedUsers
        /\ stock' = stock - 1
        /\ purchasedUsers' = purchasedUsers \cup {user[r]}
        /\ granted' = granted \cup {r}
        /\ user[r] \in User
    BY <1>3, ScriptResults
    DEF ScriptEffect, DecrStock, AddUser, PurchaseTypeOK
  <2>2. n > 0 /\ resets # <<>>
    BY <2>1, GrantNeedsReset
  <2>3. Grants(n)' = Grants(n) \cup {r} /\ r \notin Grants(n)
    BY <1>0, <2>1 DEF Grants, PurchaseTypeOK
  <2>4. \A e : e # n => Grants(e)' = Grants(e)
    BY <1>0, <2>1 DEF Grants, PurchaseTypeOK
  <2>5. /\ Cardinality(Grants(n)) \in Nat
        /\ Cardinality(Grants(n)') = Cardinality(Grants(n)) + 1
    BY <2>3, GrantsFinite, FS_AddElement
  <2>6. GateConservation'
    <3>1. stock + Cardinality(Grants(n)) = resets[n].stock
      BY <2>2 DEF GateInv, GateConservation
    <3>2. /\ stock' \in Nat
          /\ stock' + Cardinality(Grants(n)') = resets[n].stock
          /\ Cardinality(Grants(n)') <= resets[n].stock
      BY <2>1, <2>5, <3>1
    <3>3. \A e \in 1 .. n : Cardinality(Grants(e)') <= resets[e].stock
      <4>1. SUFFICES ASSUME NEW e \in 1 .. n
                     PROVE  Cardinality(Grants(e)') <= resets[e].stock
        OBVIOUS
      <4>2. CASE e = n
        <5>1. Grants(e)' = Grants(n)'
          BY <1>0, <4>2 DEF Grants
        <5>. QED BY <3>2, <4>2, <5>1
      <4>3. CASE e # n
        <5>1. Cardinality(Grants(e)) <= resets[e].stock
          BY DEF GateInv, GateConservation
        <5>2. Grants(e)' = Grants(e)
          BY <2>4, <4>3
        <5>. QED BY <5>1, <5>2
      <4>. QED BY <4>2, <4>3
    <3>4. resets' # <<>> /\ resets' = resets
      BY <1>0, <2>2
    <3>. QED BY <3>2, <3>3, <3>4 DEF GateConservation
  <2>7. purchasedUsers' = {user'[q] : q \in Grants(Len(resets))'}
    <3>1. purchasedUsers = {user[q] : q \in Grants(n)}
      BY DEF GateInv
    <3>2. Grants(Len(resets))' = Grants(n) \cup {r}
      BY <1>0, <2>3
    <3>. QED BY <1>0, <2>1, <3>1, <3>2
  <2>8. \A q \in granted : epoch'[q] = epoch[q] /\ pc'[q] = pc[q] /\ q # r
    BY <1>0 DEF PurchaseTypeOK
  <2>9. epoch'[r] = n /\ pc'[r] = label
    BY <1>0 DEF PurchaseTypeOK
  <2>10. OneGrantPerUserPerReset'
    <3>1. \A q \in granted :
            epoch[q] = n => NormalizeUserId[user[q]] # NormalizeUserId[user[r]]
      <4>1. SUFFICES ASSUME NEW q \in granted, epoch[q] = n
                     PROVE  NormalizeUserId[user[q]] # NormalizeUserId[user[r]]
        OBVIOUS
      <4>2. user[q] \in purchasedUsers
        BY <4>1 DEF GateInv, Grants
      <4>3. user[q] \in User
        BY <4>1 DEF GateInv
      <4>. QED BY <2>1, <4>2, <4>3, StoresAssumption
    <3>2. \A p, q \in granted :
            epoch[p] = epoch[q]
              /\ NormalizeUserId[user[p]] = NormalizeUserId[user[q]] => p = q
      BY DEF GateInv, OneGrantPerUserPerReset
    <3>. QED BY <1>0, <2>1, <2>8, <2>9, <3>1, <3>2 DEF OneGrantPerUserPerReset
  <2>11. \A q \in granted' : /\ epoch'[q] > 0
                             /\ user'[q] \in User
                             /\ pc'[q] \notin {"idle", "script"}
    BY <1>0, <2>1, <2>2, <2>8, <2>9 DEF GateInv
  <2>. QED BY <1>1, <2>6, <2>7, <2>10, <2>11 DEF GateInv
<1>. QED BY <1>2, <1>3

\* The reset of the gate starts a new, empty set of grants.
LEMMA GateReset ==
  ASSUME StoresTypeOK, PurchaseTypeOK, GateInv, NEW m \in Nat, NEW s,
         ResetSaleState(m, s), UNCHANGED purchaseVars
  PROVE  GateInv'
<1>. DEFINE n == Len(resets)
<1>1. /\ n \in Nat
      /\ stock' = m /\ purchasedUsers' = {}
      /\ resets' = Append(resets, [sale |-> s, stock |-> m])
      /\ UNCHANGED <<pc, user, granted, epoch>>
  BY DEF ResetSaleState, BuyersAfterReset, purchaseVars, requestVars, StoresTypeOK
<1>2. /\ Len(resets') = n + 1
      /\ resets'[n + 1] = [sale |-> s, stock |-> m]
      /\ \A e \in 1 .. n : resets'[e] = resets[e]
      /\ resets' # <<>>
  BY <1>1 DEF StoresTypeOK
<1>3. \A e : Grants(e)' = Grants(e)
  BY <1>1 DEF Grants
<1>4. Grants(n + 1) = {}
  BY <1>1 DEF Grants, GateInv, PurchaseTypeOK
<1>5. Cardinality(Grants(n + 1)) = 0
  BY <1>4, FS_EmptySet
<1>6. GateConservation'
  BY <1>1, <1>2, <1>3, <1>5 DEF GateInv, GateConservation
<1>7. \A r \in Request : epoch'[r] \in 0 .. Len(resets')
  BY <1>1, <1>2 DEF GateInv
<1>8. purchasedUsers' = {user'[r] : r \in Grants(Len(resets))'}
  BY <1>1, <1>2, <1>3, <1>4
<1>9. OneGrantPerUserPerReset'
  BY <1>1 DEF GateInv, OneGrantPerUserPerReset
<1>. QED BY <1>1, <1>6, <1>7, <1>8, <1>9 DEF GateInv

LEMMA GatePurchase ==
  ASSUME StoresTypeOK, PurchaseTypeOK, GateInv, PurchaseNext
  PROVE  GateInv'
<1>. USE DEF storeVars, redisVars, postgresVars, requestVars, gateVars
<1>0. /\ granted \subseteq Request
      /\ \A q \in granted : pc[q] \notin {"idle", "script"}
      /\ pc \in [Request -> Pc] /\ user \in [Request -> User \cup {InvalidUserId}]
  BY DEF PurchaseTypeOK, GateInv
<1>1. ASSUME NEW d \in Sale, StartServer(d) PROVE GateInv'
  BY <1>0, <1>1, GateFrame DEF StartServer
<1>2. CASE StopServer
  BY <1>0, <1>2, GateFrame DEF StopServer
<1>3. CASE CrashServer
  BY <1>0, <1>3, GateFrame DEF CrashServer
<1>4. ASSUME NEW r \in Request, NEW raw \in RawUserId,
             RejectUserId(r, raw) \/ \E t \in Instant : ReceivePurchase(r, raw, t)
      PROVE  GateInv'
  <2>1. /\ pc[r] = "idle"
        /\ UNCHANGED <<stock, purchasedUsers, resets, granted, epoch>>
        /\ \E label : pc' = [pc EXCEPT ![r] = label]
        /\ user' = user \/ user' = [user EXCEPT ![r] = CanonicalUserId(raw)]
    BY <1>4 DEF RejectUserId, ReceivePurchase, Reply, GoTo
  <2>2. \A q \in granted : q # r
    BY <1>0, <2>1
  <2>3. \A q \in granted : user'[q] = user[q] /\ pc'[q] = pc[q]
    BY <1>0, <2>1, <2>2
  <2>. QED BY <1>0, <2>1, <2>3, GateFrame
<1>5. ASSUME NEW r \in Request,
             GrantPurchase(r) \/ RefusePurchase(r) \/ ScriptReplyLost(r)
      PROVE  GateInv'
  <2>1. /\ pc[r] = "script" /\ ScriptEffect(r)
        /\ \/ pc' = [pc EXCEPT ![r] = "resolve"]
           \/ pc' = [pc EXCEPT ![r] = "done"]
    BY <1>5 DEF GrantPurchase, RefusePurchase, ScriptReplyLost, GoTo, Reply
  <2>. QED BY <2>1, GateScript
<1>6. ASSUME NEW r \in Request,
             \/ ScriptUnavailable(r) \/ ReadActiveSaleId(r) \/ EnsureActiveSale(r)
             \/ CacheActiveSaleId(r) \/ ResolveFails(r)
      PROVE  GateInv'
  <2>1. /\ UNCHANGED <<stock, purchasedUsers, resets, granted, epoch, user>>
        /\ \E label \in Pc \ {"idle", "script"} : pc' = [pc EXCEPT ![r] = label]
    BY <1>6 DEF ScriptUnavailable, ReadActiveSaleId, EnsureActiveSale,
                CacheActiveSaleId, ResolveFails, SetActiveSaleId, GoTo, Reply,
                PcAfterCacheMiss, Pc
  <2>. QED BY <1>0, <2>1, GateFrame
<1>7. ASSUME NEW r \in Request,
             \/ PersistPurchase(r) \/ PersistRejected(r) \/ PersistFails(r)
             \/ RecordFailure(r) \/ RecordFailureFails(r)
      PROVE  GateInv'
  <2>1. /\ UNCHANGED <<stock, purchasedUsers, resets, granted, epoch, user>>
        /\ \E label \in Pc \ {"idle", "script"} : pc' = [pc EXCEPT ![r] = label]
    BY <1>7 DEF PersistPurchase, PersistRejected, PersistFails, RecordFailure,
                RecordFailureFails, BookingUnchanged, GoTo, Reply, Pc
  <2>. QED BY <1>0, <2>1, GateFrame
<1>. QED
  BY <1>1, <1>2, <1>3, <1>4, <1>5, <1>6, <1>7
  DEF PurchaseNext, HandlerStep, HandlerFault

LEMMA GateInitSale ==
  ASSUME StoresTypeOK, PurchaseTypeOK, InitSaleTypeOK, GateInv, InitSaleNext,
         UNCHANGED purchaseVars
  PROVE  GateInv'
<1>. USE DEF storeVars, redisVars
<1>0. UNCHANGED <<pc, user, granted, epoch>>
  BY DEF purchaseVars, requestVars
<1>1. ASSUME NEW i \in InitProc, ResetConfiguredSale(i) PROVE GateInv'
  BY <1>1, GateReset DEF ResetConfiguredSale, InitSaleTypeOK
<1>2. ASSUME NEW k \in StockAfterBareReset, BareReset(k) PROVE GateInv'
  <2>1. k \in Nat
    BY StoresAssumption, InitAssumption DEF StockAfterBareReset
  <2>. QED BY <1>2, <2>1, GateReset DEF BareReset
<1>3. ASSUME UNCHANGED <<stock, purchasedUsers, resets>> PROVE GateInv'
  BY <1>0, <1>3, GateFrame DEF GateInv
<1>4. ASSUME NEW i \in InitProc, InitStep(i), ~ResetConfiguredSale(i)
      PROVE  GateInv'
  BY <1>3, <1>4 DEF InitStep, StartInit, EnsureConfiguredSale, InitFails
<1>. QED BY <1>1, <1>2, <1>4 DEF InitSaleNext

LEMMA GateReconcile ==
  ASSUME GateInv, ReconcileNext, UNCHANGED purchaseVars
  PROVE  GateInv'
<1>1. UNCHANGED <<stock, purchasedUsers, resets>>
  BY DEF ReconcileNext, CliStep, EnqueueExternal, StartReconcile,
         FinishReconcile, ReadHead, FindPersisted, CreateMissing,
         CreateConflicts, CreateRejected, RefindPersisted, CheckHead, PopHead,
         CliFails, ArchiveAndPop, gateVars, storeVars, redisVars
<1>. QED BY <1>1, GateFrame DEF GateInv, purchaseVars, requestVars

LEMMA GateNext == TypeOK /\ GateInv /\ [Next]_vars => GateInv'
<1>. SUFFICES ASSUME TypeOK, GateInv, [Next]_vars PROVE GateInv'
  OBVIOUS
<1>1. CASE PurchaseNext
  BY <1>1, GatePurchase DEF TypeOK
<1>2. CASE InitSaleNext /\ UNCHANGED <<purchaseVars, reconcileVars>>
  BY <1>2, GateInitSale DEF TypeOK
<1>3. CASE ReconcileNext /\ UNCHANGED <<purchaseVars, initVars>>
  BY <1>3, GateReconcile
<1>4. CASE UNCHANGED vars
  BY <1>4, GateFrame
  DEF GateInv, vars, storeVars, redisVars, purchaseVars, requestVars
<1>. QED BY <1>1, <1>2, <1>3, <1>4 DEF Next

LEMMA GateInvariant == Spec => []GateInv
<1>. QED BY GateInit, GateNext, TypeCorrect, PTL DEF Spec

\* No reset is ever oversold by the gate, and the stock key is exact: what it
\* holds and what was granted add up to what the reset put there (purchase.lua,
\* init-sale.js).
THEOREM GateNeverOversells == Spec => []GateConservation
<1>1. GateInv => GateConservation
  BY DEF GateInv
<1>. QED BY <1>1, GateInvariant, PTL

\* No user is granted twice between two resets (purchase.lua,
\* normalize-user-id.js).
THEOREM OneGrantEach == Spec => []OneGrantPerUserPerReset
<1>1. GateInv => OneGrantPerUserPerReset
  BY DEF GateInv
<1>. QED BY <1>1, GateInvariant, PTL

=============================================================================
