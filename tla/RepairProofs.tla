----------------------------- MODULE RepairProofs -----------------------------
(***************************************************************************)
(* Theorems about the failure list, its archive and the CLI: the mode that *)
(* moves records from the one to the other, and the mode that inspects.    *)
(***************************************************************************)
EXTENDS BookingProofs, Inspect

-----------------------------------------------------------------------------
(* What is archived is dealt with.                                         *)

\* The outcome of a repair tells the truth about the record.
Settled(raw, status) ==
  IF status = "archived_invalid" THEN IsMalformed(raw) ELSE Persisted(raw)

\* A run that has repaired its record and not yet archived it knows as much as
\* the archive will.
RepairInv ==
  /\ \A i \in DOMAIN archive : Settled(archive[i].raw, archive[i].status)
  /\ \A w \in Worker :
       cliPc[w] \in {"check", "pop"} => Settled(cliRaw[w], cliStatus[w])

LEMMA RepairInit == Init => RepairInv
BY DEF Init, StoresInit, ReconcileInit, RepairInv

\* A record that is dealt with stays so: no row is ever deleted.
LEMMA SettledStays ==
  ASSUME purchases \subseteq purchases', NEW raw, NEW status,
         Settled(raw, status)
  PROVE  Settled(raw, status)'
BY DEF Settled, Persisted, FindPurchaseBySaleIdAndUserId, IsMalformed,
       ParsedSale, ParsedUser, CanonicalUserId

\* Only the archive's own command writes it.
LEMMA ArchiveStep ==
  ASSUME Next
  PROVE  \/ archive' = archive
         \/ \E w \in Worker : cliPc[w] = "pop" /\ ArchiveAndPop(w)
<1>1. CASE PurchaseNext
  <2>1. CASE ProcessStep
    BY <2>1 DEF ProcessStep, StartServer, StopServer, CrashServer, storeVars,
                redisVars
  <2>2. ASSUME NEW r \in Request, Moves(r) PROVE archive' = archive
    BY <2>2
    DEF Moves, RejectUserId, ReceivePurchase, HandlerStep, GrantPurchase,
      RefusePurchase, ReadActiveSaleId, EnsureActiveSale, CacheActiveSaleId,
      PersistPurchase, PersistRejected, RecordFailure, HandlerFault,
      ScriptUnavailable, ScriptReplyLost, ResolveFails, PersistFails,
      RecordFailureFails, ScriptEffect, SetActiveSaleId, BookingUnchanged,
      storeVars, redisVars
  <2>. QED BY <1>1, <2>1, <2>2, PurchaseCases
<1>2. CASE InitSaleNext
  BY <1>2 DEF InitSaleNext, InitStep, StartInit, EnsureConfiguredSale,
              ResetConfiguredSale, BareReset, ResetSaleState, InitFails,
              storeVars, redisVars
<1>3. CASE ReconcileNext
  BY <1>3 DEF ReconcileNext, CliStep, EnqueueExternal, StartReconcile,
    FinishReconcile, ReadHead, FindPersisted, CreateMissing, CreateConflicts,
    CreateRejected, RefindPersisted, CheckHead, PopHead, CliFails, storeVars,
    redisVars
<1>. QED BY <1>1, <1>2, <1>3 DEF Next

\* A run reaches the archive with a record it has just dealt with.
LEMMA RepairStep ==
  ASSUME StoresTypeOK, ReconcileTypeOK, ReconcileNext, NEW w \in Worker,
         cliPc'[w] \in {"check", "pop"},
         cliPc[w] \in {"check", "pop"} => Settled(cliRaw[w], cliStatus[w])
  PROVE  Settled(cliRaw[w], cliStatus[w])'
<1>0. purchases \subseteq purchases'
  BY OthersKeepRows
<1>1. CASE cliPc[w] \in {"check", "pop"} /\ UNCHANGED <<cliRaw[w], cliStatus[w]>>
  BY <1>0, <1>1, SettledStays DEF Settled
<1>2. CASE UNCHANGED <<cliPc, cliRaw, cliStatus>>
  BY <1>1, <1>2
<1>3. CASE \E x \in ExternalRecord : EnqueueExternal(x)
  BY <1>2, <1>3 DEF EnqueueExternal, workerVars
<1>4. ASSUME NEW v \in Worker, CliStep(v) \/ CliFails(v), v # w
      PROVE  UNCHANGED <<cliPc[w], cliRaw[w], cliStatus[w]>>
  BY <1>4 DEF CliStep, StartReconcile, FinishReconcile, ReadHead, FindPersisted,
    CreateMissing, CreateConflicts, CreateRejected, RefindPersisted, CheckHead,
    PopHead, CliFails, CliExit, CliGoTo, CliRepaired, ReconcileTypeOK
<1>5. CASE ReadHead(w)
  <2>1. /\ cliRaw'[w] = Head(failures) /\ cliStatus'[w] = "archived_invalid"
        /\ IsMalformed(Head(failures))
    BY <1>5 DEF ReadHead, ReconcileTypeOK
  <2>. QED BY <2>1 DEF Settled, IsMalformed, ParsedSale, ParsedUser, CanonicalUserId
<1>6. CASE FindPersisted(w) \/ RefindPersisted(w)
  <2>1. /\ Persisted(cliRaw[w]) /\ cliRaw' = cliRaw
        /\ cliStatus'[w] = "already_persisted" /\ purchases' = purchases
    BY <1>6 DEF FindPersisted, RefindPersisted, CliRepaired, CliGoTo, CliExit,
                ReconcileTypeOK, storeVars, postgresVars
  <2>. QED BY <2>1 DEF Settled, Persisted, FindPurchaseBySaleIdAndUserId,
                       ParsedSale, ParsedUser, CanonicalUserId
<1>7. CASE CreateMissing(w)
  <2>1. /\ cliRaw' = cliRaw /\ cliStatus'[w] = "persisted_now"
        /\ [sale |-> ParsedSale(cliRaw[w]), user |-> ParsedUser(cliRaw[w])]
             \in purchases'
    BY <1>7 DEF CreateMissing, CliRepaired, InsertPurchase, RepairUser,
                ReconcileTypeOK
  <2>. QED BY <2>1 DEF Settled, Persisted, FindPurchaseBySaleIdAndUserId,
                       ParsedSale, ParsedUser, CanonicalUserId
<1>8. CASE \/ \E n \in Limit : StartReconcile(w, n)
           \/ FinishReconcile(w) \/ CreateConflicts(w) \/ CreateRejected(w)
           \/ PopHead(w) \/ CliFails(w)
  BY <1>8 DEF StartReconcile, FinishReconcile, CreateConflicts, CreateRejected,
              PopHead, CliFails, CliExit, CliGoTo, ReconcileTypeOK
<1>9. CASE CheckHead(w)
  BY <1>1, <1>9 DEF CheckHead, CliExit, CliGoTo, ReconcileTypeOK
<1>. QED
  BY <1>1, <1>3, <1>4, <1>5, <1>6, <1>7, <1>8, <1>9 DEF ReconcileNext, CliStep

LEMMA RepairNext == TypeOK /\ RepairInv /\ [Next]_vars => RepairInv'
<1>. SUFFICES ASSUME TypeOK, RepairInv, [Next]_vars PROVE RepairInv'
  OBVIOUS
<1>0. StoresTypeOK /\ ReconcileTypeOK
  BY DEF TypeOK
<1>1. purchases \subseteq purchases'
  BY HandlersKeepRows, OthersKeepRows DEF Next, vars, storeVars, postgresVars
<1>2. ASSUME NEW w \in Worker, cliPc'[w] \in {"check", "pop"}
      PROVE  Settled(cliRaw[w], cliStatus[w])'
  <2>1. CASE ReconcileNext
    BY <1>0, <1>2, <2>1, RepairStep DEF RepairInv
  <2>2. CASE UNCHANGED reconcileVars
    <3>1. UNCHANGED <<cliPc, cliRaw, cliStatus>> /\ Settled(cliRaw[w], cliStatus[w])
      BY <1>2, <2>2 DEF reconcileVars, workerVars, RepairInv
    <3>. QED BY <1>1, <3>1, SettledStays DEF Settled
  <2>. QED BY <2>1, <2>2 DEF Next, vars
<1>3. ASSUME NEW i \in DOMAIN archive'
      PROVE  Settled(archive[i].raw, archive[i].status)'
  <2>1. CASE archive' = archive
    <3>1. PICK raw, status : /\ raw = archive[i].raw /\ status = archive[i].status
                             /\ raw = archive'[i].raw /\ status = archive'[i].status
                             /\ Settled(raw, status)
      BY <1>3, <2>1 DEF RepairInv
    <3>2. Settled(raw, status)'
      BY <1>1, <3>1, SettledStays
    <3>. QED BY <3>1, <3>2 DEF Settled
  <2>2. ASSUME NEW w \in Worker, cliPc[w] = "pop", ArchiveAndPop(w)
        PROVE  Settled(archive[i].raw, archive[i].status)'
    <3>1. archive' = Append(archive, [raw |-> cliRaw[w], status |-> cliStatus[w]])
      BY <2>2 DEF ArchiveAndPop
    <3>2. /\ DOMAIN archive = 1 .. Len(archive) /\ Len(archive) \in Nat
          /\ DOMAIN archive' = 1 .. Len(archive) + 1
          /\ \A k \in 1 .. Len(archive) : archive'[k] = archive[k]
          /\ archive'[Len(archive) + 1] = [raw |-> cliRaw[w], status |-> cliStatus[w]]
      BY <1>0, <3>1 DEF StoresTypeOK
    <3>3. Settled(cliRaw[w], cliStatus[w])
      BY <2>2 DEF RepairInv
    <3>4. PICK raw, status : /\ raw = archive'[i].raw /\ status = archive'[i].status
                             /\ Settled(raw, status)
      BY <1>3, <3>2, <3>3 DEF RepairInv
    <3>5. Settled(raw, status)'
      BY <1>1, <3>4, SettledStays
    <3>. QED BY <3>4, <3>5 DEF Settled
  <2>. QED BY <2>1, <2>2, ArchiveStep DEF vars, storeVars, redisVars
<1>. QED BY <1>2, <1>3 DEF RepairInv

LEMMA RepairInvariant == Spec => []RepairInv
<1>. QED BY RepairInit, RepairNext, TypeCorrect, PTL DEF Spec

\* Whatever is in the archive has been dealt with, however many operators run
\* the CLI at once (repairPurchasePersistenceFailure).
THEOREM ArchiveIsTruthful == Spec => []ArchivedIsPersisted
<1>1. RepairInv => ArchivedIsPersisted
  BY DEF RepairInv, Settled, ArchivedIsPersisted, Persisted,
         FindPurchaseBySaleIdAndUserId
<1>. QED BY <1>1, RepairInvariant, PTL

-----------------------------------------------------------------------------
(* What is queued can be repaired.                                         *)

\* A sale exists before it is anybody's active sale.
SalesInv ==
  /\ activeSaleId # NoSale => activeSaleId \in sales
  /\ \A r \in Request :
       pc[r] \in {"cache", "create", "record"} => saleId[r] \in sales
  /\ \A i \in InitProc : initPc[i] = "reset" => initSale[i] \in sales

\* What QueuedIsRepairable says of one record.
Repairable(x) == x.id \in Request => ~IsMalformed(x) /\ ParsedSale(x) \in sales

QueueInv == SalesInv /\ \A x \in Elements(failures) : Repairable(x)

LEMMA QueueInit == Init => QueueInv
BY DEF Init, StoresInit, PurchaseInit, InitSaleInit, QueueInv, SalesInv, Elements

\* A handler makes its sale before it caches, books or records it.
LEMMA SalesPurchase ==
  ASSUME PurchaseTypeOK, SalesInv, PurchaseNext,
         UNCHANGED <<initPc, initSale>>
  PROVE  SalesInv' /\ sales \subseteq sales'
<1>1. CASE ProcessStep
  BY <1>1 DEF ProcessStep, StartServer, StopServer, CrashServer, requestVars,
              storeVars, redisVars, postgresVars, InFlight, PurchaseTypeOK, SalesInv
<1>2. ASSUME NEW r \in Request, Moves(r)
      PROVE  /\ sales \subseteq sales'
             /\ activeSaleId' # NoSale => activeSaleId' \in sales'
             /\ pc'[r] \in {"cache", "create", "record"} => saleId'[r] \in sales'
  <2>. USE DEF PurchaseTypeOK, SalesInv, GoTo, Reply, gateVars, storeVars,
               redisVars, postgresVars
  <2>1. CASE \E raw \in RawUserId :
               RejectUserId(r, raw) \/ \E t \in Instant : ReceivePurchase(r, raw, t)
    BY <2>1 DEF RejectUserId, ReceivePurchase
  <2>2. CASE \/ GrantPurchase(r) \/ RefusePurchase(r) \/ ScriptUnavailable(r)
             \/ ScriptReplyLost(r)
    BY <2>2 DEF GrantPurchase, RefusePurchase, ScriptUnavailable,
                ScriptReplyLost, ScriptEffect
  <2>3. CASE ReadActiveSaleId(r) \/ EnsureActiveSale(r)
    BY <2>3 DEF ReadActiveSaleId, EnsureActiveSale, GetOrCreateSale,
                PcAfterCacheMiss
  <2>4. CASE CacheActiveSaleId(r) \/ ResolveFails(r)
    BY <2>4 DEF CacheActiveSaleId, ResolveFails, SetActiveSaleId
  <2>5. CASE \/ PersistPurchase(r) \/ PersistRejected(r) \/ PersistFails(r)
             \/ RecordFailure(r) \/ RecordFailureFails(r)
    BY <2>5 DEF PersistPurchase, PersistRejected, PersistFails, RecordFailure,
                RecordFailureFails, BookingUnchanged
  <2>. QED BY <1>2, <2>1, <2>2, <2>3, <2>4, <2>5
           DEF Moves, HandlerStep, HandlerFault
<1>3. ASSUME NEW r \in Request, Moves(r) PROVE SalesInv' /\ sales \subseteq sales'
  <2>1. \A q \in Request : q # r => pc'[q] = pc[q] /\ saleId'[q] = saleId[q]
    BY <1>3, OneHandlerMoves
  <2>. QED BY <1>2, <1>3, <2>1 DEF SalesInv
<1>. QED BY <1>1, <1>3, PurchaseCases

\* The init script upserts the sale before the reset that makes it active.
LEMMA SalesOthers ==
  ASSUME StoresTypeOK, InitSaleTypeOK, SalesInv, UNCHANGED purchaseVars,
         \/ InitSaleNext
         \/ ReconcileNext /\ UNCHANGED initVars
  PROVE  SalesInv' /\ sales \subseteq sales'
<1>. USE DEF SalesInv, purchaseVars, requestVars, initVars, storeVars, redisVars,
             postgresVars, gateVars
<1>1. CASE ReconcileNext /\ UNCHANGED initVars
  <2>1. activeSaleId' = activeSaleId /\ sales' = sales
    BY <1>1 DEF ReconcileNext, CliStep, EnqueueExternal, StartReconcile,
      FinishReconcile, ReadHead, FindPersisted, CreateMissing, CreateConflicts,
      CreateRejected, RefindPersisted, CheckHead, PopHead, CliFails,
      ArchiveAndPop, InsertPurchase
  <2>. QED BY <1>1, <2>1
<1>2. ASSUME NEW i \in InitProc, InitStep(i)
      PROVE  SalesInv' /\ sales \subseteq sales'
  <2>. USE DEF InitSaleTypeOK
  <2>1. CASE \E d \in Sale : \E n \in {InitialStock[d]} \cup StockArgument :
               StartInit(i, d, n)
    BY <2>1 DEF StartInit, FirstStep
  <2>2. CASE EnsureConfiguredSale(i)
    BY <2>2 DEF EnsureConfiguredSale, GetOrCreateSale
  <2>3. CASE ResetConfiguredSale(i)
    BY <2>3 DEF ResetConfiguredSale, ResetSaleState, ActiveSaleAfterReset, InitExit
  <2>4. CASE InitFails(i)
    BY <2>4 DEF InitFails, InitExit
  <2>. QED BY <1>2, <2>1, <2>2, <2>3, <2>4 DEF InitStep
<1>3. ASSUME NEW k \in StockAfterBareReset, BareReset(k)
      PROVE  SalesInv' /\ sales \subseteq sales'
  BY <1>3 DEF BareReset, ResetSaleState, ActiveSaleAfterReset
<1>. QED BY <1>1, <1>2, <1>3 DEF InitSaleNext

\* The list gets the record of a handler, or one pushed by hand.
LEMMA QueueGrowth ==
  ASSUME TypeOK, HandlerInv, Next
  PROVE  \A x \in Elements(failures') :
           \/ x \in Elements(failures)
           \/ x.id \notin Request
           \/ \E r \in Request : pc[r] = "record" /\ x = FailureRecord(r)
<1>0. failures \in Seq(RawRecord)
  BY DEF TypeOK, StoresTypeOK
<1>1. CASE PurchaseNext
  <2>1. \/ failures' = failures
        \/ \E r \in Request : /\ pc[r] = "record"
                              /\ failures' = Append(failures, FailureRecord(r))
    <3>1. CASE ProcessStep
      BY <3>1 DEF ProcessStep, StartServer, StopServer, CrashServer, storeVars,
                  redisVars
    <3>2. ASSUME NEW r \in Request, Moves(r)
          PROVE  \/ failures' = failures
                 \/ /\ pc[r] = "record"
                    /\ failures' = Append(failures, FailureRecord(r))
      BY <3>2
      DEF Moves, RejectUserId, ReceivePurchase, HandlerStep, GrantPurchase,
        RefusePurchase, ReadActiveSaleId, EnsureActiveSale, CacheActiveSaleId,
        PersistPurchase, PersistRejected, RecordFailure, PushRecord,
        HandlerFault, ScriptUnavailable, ScriptReplyLost, ResolveFails,
        PersistFails, RecordFailureFails, ScriptEffect, SetActiveSaleId,
        storeVars, redisVars
    <3>. QED BY <1>1, <3>1, <3>2, PurchaseCases
  <2>2. ASSUME NEW r \in Request
        PROVE  Elements(Append(failures, FailureRecord(r)))
                 = Elements(failures) \cup {FailureRecord(r)}
    BY <1>0, ElementsOfAppend
  <2>. QED BY <2>1, <2>2
<1>2. CASE InitSaleNext
  BY <1>2, InitSaleWork
<1>3. CASE ReconcileNext
  <2>1. ASSUME NEW x \in ExternalRecord, EnqueueExternal(x)
        PROVE  \A y \in Elements(failures') :
                 y \in Elements(failures) \/ y.id \notin Request
    <3>1. Elements(failures') = Elements(failures) \cup {x}
      BY <1>0, <2>1, ElementsOfAppend DEF EnqueueExternal
    <3>. QED BY <3>1, StoresAssumption
  <2>2. ASSUME NEW w \in Worker, CliStep(w) \/ CliFails(w)
        PROVE  Elements(failures') \subseteq Elements(failures)
    <3>1. failures' = failures \/ failures' = LPop(failures)
      BY <2>2 DEF CliStep, StartReconcile, FinishReconcile, ReadHead,
        FindPersisted, CreateMissing, CreateConflicts, CreateRejected,
        RefindPersisted, CheckHead, PopHead, CliFails, ArchiveAndPop, storeVars,
        redisVars
    <3>. QED BY <1>0, <3>1, ElementsOfLPop
  <2>. QED BY <1>3, <2>1, <2>2 DEF ReconcileNext
<1>. QED BY <1>1, <1>2, <1>3 DEF Next

LEMMA QueueNext == TypeOK /\ HandlerInv /\ QueueInv /\ [Next]_vars => QueueInv'
<1>. SUFFICES ASSUME TypeOK, HandlerInv, QueueInv, [Next]_vars PROVE QueueInv'
  OBVIOUS
<1>1. CASE Next
  <2>1. SalesInv' /\ sales \subseteq sales'
    BY <1>1, SalesPurchase, SalesOthers DEF Next, TypeOK, QueueInv, initVars
  <2>2. ASSUME NEW x \in Elements(failures') PROVE Repairable(x)'
    <3>1. CASE x \in Elements(failures)
      BY <2>1, <3>1 DEF QueueInv, Repairable, IsMalformed, ParsedSale,
                        ParsedUser, CanonicalUserId
    <3>2. ASSUME NEW r \in Request, pc[r] = "record", x = FailureRecord(r)
          PROVE  Repairable(x)'
      <4>1. saleId[r] \in sales /\ saleId[r] \in Sale /\ user[r] \in User
        BY <3>2 DEF QueueInv, SalesInv, TypeOK, PurchaseTypeOK
      <4>2. /\ ParsedSale(x) = saleId[r]
            /\ ParsedUser(x) = user[r]
        BY <3>2, <4>1, StoresAssumption DEF FailureRecord, ParsedSale, ParsedUser,
                                            CanonicalUserId
      <4>3. ~IsMalformed(x) /\ ParsedSale(x) \in sales'
        BY <2>1, <4>1, <4>2, StoresAssumption DEF IsMalformed
      <4>. QED BY <4>3 DEF Repairable, IsMalformed, ParsedSale, ParsedUser,
                           CanonicalUserId
    <3>3. CASE x.id \notin Request
      BY <3>3 DEF Repairable
    <3>. QED BY <1>1, <2>2, <3>1, <3>2, <3>3, QueueGrowth
  <2>. QED BY <2>1, <2>2 DEF QueueInv
<1>2. CASE UNCHANGED vars
  BY <1>2 DEF vars, storeVars, redisVars, postgresVars, purchaseVars, requestVars,
    initVars, QueueInv, SalesInv, Repairable, IsMalformed, ParsedSale, ParsedUser,
    CanonicalUserId
<1>. QED BY <1>1, <1>2

\* No record the API queues can block the head of the list for ever: its sale
\* exists, so its repair cannot fail on a constraint (runInitSale and
\* resolveActiveSaleId upsert before they make a sale active).
THEOREM QueueIsRepairable == Spec => []QueuedIsRepairable
<1>1. QueueInv => QueuedIsRepairable
  BY DEF QueueInv, Repairable, QueuedIsRepairable, Elements
<1>2. Spec => []QueueInv
  BY QueueInit, QueueNext, TypeCorrect, HandlerInvariant, PTL DEF Spec
<1>. QED BY <1>1, <1>2, PTL

-----------------------------------------------------------------------------
(* One operator at a time.                                                 *)

LEMMA OneCli ==
  ASSUME Cardinality(Worker) <= 1, NEW v \in Worker, NEW w \in Worker
  PROVE  v = w
<1>1. IsFiniteSet(Worker)
  BY ReconcileAssumption
<1>2. SUFFICES ASSUME v # w PROVE FALSE
  OBVIOUS
<1>3. /\ {v, w} \subseteq Worker /\ IsFiniteSet({v, w})
      /\ Cardinality({v, w}) = 2
  <2>1. /\ IsFiniteSet({v}) /\ Cardinality({v}) = 1
    BY FS_Singleton
  <2>2. {v, w} = {v} \cup {w} /\ w \notin {v}
    BY <1>2
  <2>. QED BY <2>1, <2>2, FS_AddElement
<1>4. Cardinality({v, w}) <= Cardinality(Worker) /\ Cardinality(Worker) \in Nat
  BY <1>1, <1>3, FS_Subset, FS_CardinalityType
<1>. QED BY <1>3, <1>4

Unique(s) == \A i, j \in DOMAIN s : s[i] = s[j] => i = j

LEMMA UniqueAppend ==
  ASSUME NEW S, NEW s \in Seq(S), NEW x, Unique(s), x \notin Elements(s)
  PROVE  Unique(Append(s, x))
<1>1. /\ DOMAIN s = 1 .. Len(s) /\ Len(s) \in Nat
      /\ DOMAIN Append(s, x) = 1 .. Len(s) + 1
      /\ \A i \in 1 .. Len(s) : Append(s, x)[i] = s[i]
      /\ Append(s, x)[Len(s) + 1] = x
  OBVIOUS
<1>. QED BY <1>1 DEF Unique, Elements

\* Popping a list without duplicates takes out its head, and nothing else.
LEMMA UniqueLPop ==
  ASSUME NEW S, NEW s \in Seq(S), Unique(s), s # <<>>
  PROVE  /\ Unique(LPop(s))
         /\ Elements(LPop(s)) = Elements(s) \ {Head(s)}
<1>1. /\ DOMAIN s = 1 .. Len(s) /\ Len(s) \in Nat /\ Len(s) >= 1
      /\ LPop(s) = Tail(s) /\ Head(s) = s[1]
      /\ DOMAIN Tail(s) = 1 .. Len(s) - 1
      /\ \A i \in 1 .. Len(s) - 1 : Tail(s)[i] = s[i + 1]
  BY DEF LPop
<1>2. Unique(LPop(s))
  BY <1>1 DEF Unique
<1>3. ASSUME NEW x \in Elements(LPop(s)) PROVE x \in Elements(s) \ {Head(s)}
  <2>1. PICK i \in 1 .. Len(s) - 1 : x = s[i + 1]
    BY <1>1, <1>3 DEF Elements
  <2>2. i + 1 \in DOMAIN s /\ 1 \in DOMAIN s /\ i + 1 # 1
    BY <1>1
  <2>3. s[i + 1] # s[1]
    BY <2>2 DEF Unique
  <2>. QED BY <1>1, <2>1, <2>2, <2>3 DEF Elements
<1>. QED BY <1>2, <1>3, LPopKeepsRest

\* Every step as the list, the archive and the CLI see it.
LEMMA ListStep ==
  ASSUME TypeOK, HandlerInv, Next
  PROVE  \/ failures' = failures /\ archive' = archive
         \/ /\ archive' = archive
            /\ \E r \in Request : /\ pc[r] = "record" /\ pc'[r] = "done"
                                  /\ failures' = Append(failures, FailureRecord(r))
         \/ /\ archive' = archive
            /\ \E x \in ExternalRecord \ enqueued :
                 /\ failures' = Append(failures, x)
                 /\ enqueued' = enqueued \cup {x}
         \/ \E w \in Worker : /\ cliPc[w] = "pop" /\ cliPc'[w] # "pop"
                              /\ ArchiveAndPop(w)
<1>1. CASE PurchaseNext
  <2>1. CASE ProcessStep
    BY <2>1 DEF ProcessStep, StartServer, StopServer, CrashServer, storeVars,
                redisVars
  <2>2. ASSUME NEW r \in Request, Moves(r)
        PROVE  /\ archive' = archive
               /\ \/ failures' = failures
                  \/ /\ pc[r] = "record" /\ pc'[r] = "done"
                     /\ failures' = Append(failures, FailureRecord(r))
    BY <2>2
    DEF Moves, RejectUserId, ReceivePurchase, HandlerStep, GrantPurchase,
      RefusePurchase, ReadActiveSaleId, EnsureActiveSale, CacheActiveSaleId,
      PersistPurchase, PersistRejected, RecordFailure, PushRecord, HandlerFault,
      ScriptUnavailable, ScriptReplyLost, ResolveFails, PersistFails,
      RecordFailureFails, ScriptEffect, SetActiveSaleId, BookingUnchanged, Reply,
      storeVars, redisVars, TypeOK, PurchaseTypeOK
  <2>. QED BY <1>1, <2>1, <2>2, PurchaseCases
<1>2. CASE InitSaleNext
  BY <1>2 DEF InitSaleNext, InitStep, StartInit, EnsureConfiguredSale,
              ResetConfiguredSale, BareReset, ResetSaleState, InitFails,
              storeVars, redisVars
<1>3. CASE ReconcileNext
  <2>1. CASE \E x \in ExternalRecord : EnqueueExternal(x)
    BY <2>1 DEF EnqueueExternal
  <2>2. ASSUME NEW w \in Worker, CliStep(w) \/ CliFails(w)
        PROVE  \/ failures' = failures /\ archive' = archive
               \/ cliPc[w] = "pop" /\ cliPc'[w] # "pop" /\ ArchiveAndPop(w)
    BY <2>2 DEF CliStep, StartReconcile, FinishReconcile, ReadHead,
      FindPersisted, CreateMissing, CreateConflicts, CreateRejected,
      RefindPersisted, CheckHead, PopHead, CliFails, CliExit, storeVars,
      redisVars, TypeOK, ReconcileTypeOK
  <2>. QED BY <1>3, <2>1, <2>2 DEF ReconcileNext
<1>. QED BY <1>1, <1>2, <1>3 DEF Next

\* A run comes to the pop only with the head in its hand.
LEMMA PopStep ==
  ASSUME TypeOK, Next, NEW w \in Worker, cliPc'[w] = "pop"
  PROVE  /\ cliRaw'[w] = cliRaw[w]
         /\ \/ cliPc[w] = "pop"
            \/ failures' = failures /\ failures # <<>> /\ Head(failures) = cliRaw[w]
<1>1. CASE UNCHANGED <<cliPc, cliRaw>>
  BY <1>1
<1>2. CASE \E x \in ExternalRecord : EnqueueExternal(x)
  BY <1>1, <1>2 DEF EnqueueExternal, workerVars
<1>3. ASSUME NEW v \in Worker, CliStep(v) \/ CliFails(v)
      PROVE  /\ cliRaw'[w] = cliRaw[w]
             /\ \/ cliPc[w] = "pop"
                \/ failures' = failures /\ failures # <<>> /\ Head(failures) = cliRaw[w]
  BY <1>3 DEF CliStep, StartReconcile, FinishReconcile, ReadHead,
    StepAfterMalformed, FindPersisted, CreateMissing, CreateConflicts,
    CreateRejected, RefindPersisted, CheckHead, PopHead, CliFails, CliExit,
    CliGoTo, CliRepaired, storeVars, redisVars, TypeOK, ReconcileTypeOK
<1>. QED BY <1>1, <1>2, <1>3 DEF Next, ReconcileNext, reconcileVars, workerVars

\* A run at the pop has the head in its hand.
PopInv ==
  \A w \in Worker :
    cliPc[w] = "pop" => failures # <<>> /\ Head(failures) = cliRaw[w]

\* Nobody else takes the head away, and whoever pushes pushes at the other end.
LEMMA PopNext ==
  TypeOK /\ HandlerInv /\ PopInv /\ [Next]_vars /\ Cardinality(Worker) <= 1
    => PopInv'
<1>. SUFFICES ASSUME TypeOK, HandlerInv, PopInv, [Next]_vars,
                     Cardinality(Worker) <= 1, NEW w \in Worker, cliPc'[w] = "pop"
              PROVE  failures' # <<>> /\ Head(failures') = cliRaw'[w]
  BY DEF PopInv
<1>0. failures \in Seq(RawRecord)
  BY DEF TypeOK, StoresTypeOK
<1>1. CASE Next
  <2>1. CASE failures' = failures
    BY <1>1, <2>1, PopStep DEF PopInv
  <2>2. ASSUME NEW x, failures' = Append(failures, x)
        PROVE  failures' # <<>> /\ Head(failures') = cliRaw'[w]
    <3>1. failures' # failures
      BY <1>0, <2>2
    <3>2. cliPc[w] = "pop" /\ cliRaw'[w] = cliRaw[w]
      BY <1>1, <3>1, PopStep
    <3>3. failures # <<>> /\ Head(failures) = cliRaw[w]
      BY <3>2 DEF PopInv
    <3>4. Append(failures, x) # <<>> /\ Head(Append(failures, x)) = Head(failures)
      BY <1>0, <3>3
    <3>. QED BY <2>2, <3>2, <3>3, <3>4
  <2>3. ASSUME NEW v \in Worker, cliPc'[v] # "pop" PROVE FALSE
    BY <2>3, OneCli
  <2>. QED BY <1>1, <2>1, <2>2, <2>3, ListStep
<1>2. CASE UNCHANGED vars
  BY <1>2 DEF vars, storeVars, redisVars, reconcileVars, workerVars, PopInv
<1>. QED BY <1>1, <1>2

\* A record that needs no repair any more, or that no repair understands.
Dealt(x) == IsMalformed(x) \/ Persisted(x)

LEMMA DealtStays ==
  ASSUME purchases \subseteq purchases', NEW x, Dealt(x)
  PROVE  Dealt(x)'
BY DEF Dealt, Persisted, FindPurchaseBySaleIdAndUserId, IsMalformed, ParsedSale,
       ParsedUser, CanonicalUserId

\* A record leaves the list only when it is dealt with.
LEMMA RecordStays ==
  ASSUME TypeOK, HandlerInv, RepairInv, PopInv, [Next]_vars,
         NEW x \in Elements(failures)
  PROVE  x \in Elements(failures') \/ Dealt(x)'
<1>0. failures \in Seq(RawRecord)
  BY DEF TypeOK, StoresTypeOK
<1>1. CASE failures' = failures
  BY <1>1
<1>2. ASSUME NEW y, failures' = Append(failures, y)
      PROVE  x \in Elements(failures')
  BY <1>0, <1>2, ElementsOfAppend
<1>3. ASSUME NEW w \in Worker, cliPc[w] = "pop", ArchiveAndPop(w)
      PROVE  x \in Elements(failures') \/ Dealt(x)'
  <2>1. /\ failures # <<>> /\ Head(failures) = cliRaw[w]
        /\ failures' = LPop(failures) /\ purchases' = purchases
    BY <1>3 DEF PopInv, ArchiveAndPop, postgresVars
  <2>2. CASE x # cliRaw[w]
    BY <1>0, <2>1, <2>2, LPopKeepsRest
  <2>3. CASE x = cliRaw[w]
    <3>1. Dealt(x)
      BY <1>3, <2>3 DEF RepairInv, Settled, Dealt
    <3>. QED BY <2>1, <3>1, DealtStays
  <2>. QED BY <2>2, <2>3
<1>. QED BY <1>1, <1>2, <1>3, ListStep DEF vars, storeVars, redisVars

\* The record of a handler that has not ended, or one that nobody has pushed, is
\* not among the known ones: the failedAt and the error tell records apart.
LEMMA FreshRecord ==
  ASSUME TypeOK
  PROVE  /\ \A r \in Request : pc[r] = "record" => ~KnownRecord(FailureRecord(r))
         /\ \A x \in ExternalRecord \ enqueued : ~KnownRecord(x)
<1>0. /\ \A x \in enqueued : x \in ExternalRecord
      /\ \A x \in ExternalRecord : x.id \notin Request
      /\ \A r : FailureRecord(r).id = r
  BY StoresAssumption DEF TypeOK, ReconcileTypeOK, FailureRecord
<1>. QED BY <1>0 DEF KnownRecord, Ended

\* What a single run guarantees of the two lists: the pop takes the record in
\* its hand, no record is in two places, and the archive holds known records.
ListsInv ==
  /\ PopInv
  /\ Unique(failures)
  /\ \A i, j \in DOMAIN archive : archive[i].raw = archive[j].raw => i = j
  /\ Elements(failures) \cap ArchivedRecords = {}
  /\ \A x \in ArchivedRecords : KnownRecord(x)

OneCliInv == Cardinality(Worker) <= 1 => ListsInv

LEMMA OneCliInit == Init => OneCliInv
BY DEF Init, StoresInit, ReconcileInit, OneCliInv, ListsInv, Unique, Elements,
       ArchivedRecords, PopInv

\* A new record keeps the lists apart.
LEMMA ListsAppend ==
  ASSUME TypeOK, ListsInv, BackedInv, NEW x, ~KnownRecord(x),
         failures' = Append(failures, x), archive' = archive
  PROVE  /\ Unique(failures')
         /\ \A i, j \in DOMAIN archive' : archive'[i].raw = archive'[j].raw => i = j
         /\ Elements(failures') \cap ArchivedRecords' = {}
         /\ ArchivedRecords' = ArchivedRecords
<1>1. failures \in Seq(RawRecord)
  BY DEF TypeOK, StoresTypeOK
<1>2. x \notin Elements(failures) /\ x \notin ArchivedRecords
  BY DEF ListsInv, BackedInv
<1>3. Unique(Append(failures, x))
  BY <1>1, <1>2, UniqueAppend DEF ListsInv
<1>4. Elements(Append(failures, x)) = Elements(failures) \cup {x}
  BY <1>1, ElementsOfAppend
<1>5. ArchivedRecords' = ArchivedRecords
  BY DEF ArchivedRecords
<1>. QED BY <1>2, <1>3, <1>4, <1>5 DEF ListsInv

\* The MULTI moves the head, and only the head, from the list to the archive.
LEMMA ListsPop ==
  ASSUME TypeOK, ListsInv, NEW w \in Worker, cliPc[w] = "pop", ArchiveAndPop(w)
  PROVE  /\ Unique(failures')
         /\ Elements(failures') = Elements(failures) \ {cliRaw[w]}
         /\ cliRaw[w] \in Elements(failures)
         /\ ArchivedRecords' = ArchivedRecords \cup {cliRaw[w]}
         /\ \A i, j \in DOMAIN archive' : archive'[i].raw = archive'[j].raw => i = j
<1>1. /\ failures \in Seq(RawRecord) /\ failures # <<>>
      /\ Head(failures) = cliRaw[w] /\ Unique(failures)
      /\ failures' = LPop(failures)
  BY DEF TypeOK, StoresTypeOK, ListsInv, PopInv, ArchiveAndPop
<1>2. /\ Unique(failures')
      /\ Elements(failures') = Elements(failures) \ {cliRaw[w]}
      /\ cliRaw[w] \in Elements(failures)
  BY <1>1, UniqueLPop, HeadIsElement
<1>3. /\ DOMAIN archive = 1 .. Len(archive) /\ Len(archive) \in Nat
      /\ DOMAIN archive' = 1 .. Len(archive) + 1
      /\ \A k \in 1 .. Len(archive) : archive'[k] = archive[k]
      /\ archive'[Len(archive) + 1] = [raw |-> cliRaw[w], status |-> cliStatus[w]]
  BY DEF TypeOK, StoresTypeOK, ArchiveAndPop
<1>4. archive'[Len(archive) + 1].raw = cliRaw[w]
  BY <1>3
<1>5. ArchivedRecords' = ArchivedRecords \cup {cliRaw[w]}
  BY <1>3, <1>4 DEF ArchivedRecords
<1>6. \A i \in DOMAIN archive : archive[i].raw # cliRaw[w]
  BY <1>2 DEF ListsInv, ArchivedRecords
<1>7. \A i, j \in DOMAIN archive' : archive'[i].raw = archive'[j].raw => i = j
  <2>1. ASSUME NEW i \in DOMAIN archive', NEW j \in DOMAIN archive',
               archive'[i].raw = archive'[j].raw
        PROVE  i = j
    <3>1. CASE i \in DOMAIN archive /\ j \in DOMAIN archive
      BY <1>3, <2>1, <3>1 DEF ListsInv
    <3>2. CASE i = Len(archive) + 1 /\ j \in DOMAIN archive
      BY <1>3, <1>4, <1>6, <2>1, <3>2
    <3>3. CASE i \in DOMAIN archive /\ j = Len(archive) + 1
      BY <1>3, <1>4, <1>6, <2>1, <3>3
    <3>. QED BY <1>3, <3>1, <3>2, <3>3
  <2>. QED BY <2>1
<1>. QED BY <1>2, <1>5, <1>7

LEMMA OneCliNext ==
  TypeOK /\ GateInv /\ HandlerInv /\ BackedInv /\ OneCliInv /\ [Next]_vars
    => OneCliInv'
<1>. SUFFICES ASSUME TypeOK, GateInv, HandlerInv, BackedInv, OneCliInv,
                     [Next]_vars, Cardinality(Worker) <= 1
              PROVE  ListsInv'
  BY DEF OneCliInv
<1>0. ListsInv /\ PopInv'
  BY PopNext DEF OneCliInv, ListsInv
<1>1. CASE Next
  <2>0. enqueued \subseteq enqueued'
    BY <1>1, CliWork DEF Next, TypeOK, reconcileVars
  <2>1. \A x : KnownRecord(x) => KnownRecord(x)'
    BY <2>0, KnownStays, GateGranted
  <2>2. CASE failures' = failures /\ archive' = archive
    <3>1. ArchivedRecords' = ArchivedRecords
      BY <2>2 DEF ArchivedRecords
    <3>. QED BY <1>0, <2>1, <2>2, <3>1 DEF ListsInv
  <2>3. ASSUME NEW x, ~KnownRecord(x),
               failures' = Append(failures, x), archive' = archive
        PROVE  ListsInv'
    BY <1>0, <2>1, <2>3, ListsAppend DEF ListsInv
  <2>4. ASSUME NEW w \in Worker, cliPc[w] = "pop", ArchiveAndPop(w)
        PROVE  ListsInv'
    <3>1. KnownRecord(cliRaw[w])
      BY <2>4 DEF BackedInv
    <3>. QED BY <1>0, <2>1, <2>4, <3>1, ListsPop DEF ListsInv
  <2>5. CASE /\ archive' = archive
             /\ \E r \in Request : /\ pc[r] = "record" /\ pc'[r] = "done"
                                   /\ failures' = Append(failures, FailureRecord(r))
    BY <2>3, <2>5, FreshRecord
  <2>6. CASE /\ archive' = archive
             /\ \E x \in ExternalRecord \ enqueued :
                  /\ failures' = Append(failures, x)
                  /\ enqueued' = enqueued \cup {x}
    BY <2>3, <2>6, FreshRecord
  <2>. QED BY <1>1, <2>2, <2>4, <2>5, <2>6, ListStep
<1>2. CASE UNCHANGED vars
  BY <1>0, <1>2
  DEF vars, storeVars, redisVars, purchaseVars, requestVars, reconcileVars,
      workerVars, ListsInv, Unique, Elements, ArchivedRecords, KnownRecord,
      Ended, FailureRecord
<1>. QED BY <1>1, <1>2

LEMMA OneCliInvariant == Spec => []OneCliInv
<1>. QED
  BY OneCliInit, OneCliNext, TypeCorrect, GateInvariant, HandlerInvariant,
     BackedInvariant, PTL DEF Spec

\* With one CLI run at a time a record is never in two places, and never twice
\* in one: no crash between the repair and the archive, and no handler that
\* pushes meanwhile, duplicates it.
THEOREM NoRecordTwice == Spec => []RecordedOnce
<1>1. OneCliInv => RecordedOnce
  BY DEF OneCliInv, ListsInv, Unique, Elements, RecordedOnce, QueuedRecords,
         ArchivedRecords
<1>. QED BY <1>1, OneCliInvariant, PTL

\* With one CLI run at a time a record leaves the list only into the archive:
\* the check of the head and the pop are two commands, and no other command
\* pops (archivePurchasePersistenceFailure).
THEOREM NothingRemovedUnarchived ==
  ASSUME Cardinality(Worker) <= 1
  PROVE  Spec => RemovedIsArchived
<1>1. TypeOK /\ HandlerInv /\ OneCliInv /\ [Next]_vars =>
        [\A x \in QueuedRecords :
           x \notin QueuedRecords' => x \in ArchivedRecords']_vars
  <2>. SUFFICES ASSUME TypeOK, HandlerInv, OneCliInv, Next, NEW x \in QueuedRecords,
                       x \notin QueuedRecords'
                PROVE  x \in ArchivedRecords'
    OBVIOUS
  <2>0. /\ QueuedRecords = Elements(failures) /\ ListsInv
        /\ QueuedRecords' = Elements(failures')
        /\ failures \in Seq(RawRecord)
    BY DEF QueuedRecords, Elements, OneCliInv, TypeOK, StoresTypeOK
  <2>1. \A y : Elements(Append(failures, y)) = Elements(failures) \cup {y}
    BY <2>0, ElementsOfAppend
  <2>2. PICK w \in Worker : cliPc[w] = "pop" /\ ArchiveAndPop(w)
    BY <2>0, <2>1, ListStep
  <2>. QED BY <2>0, <2>2, ListsPop
<1>. QED
  BY <1>1, TypeCorrect, HandlerInvariant, OneCliInvariant, PTL
  DEF Spec, RemovedIsArchived

-----------------------------------------------------------------------------
(* Nothing the customer was told of is forgotten.                          *)

\* Where the purchase of r can be found.
Accounted(r) ==
  \/ Booking(r) \in purchases
  \/ FailureRecord(r) \in Elements(failures)
  \/ r \in unrecorded

\* A 503 is the last thing a handler does, with a sale and a grant.
FailedOK(r) ==
  response[r] = "purchase_persistence_failed" =>
    /\ Ended(r)
    /\ Cardinality(Worker) <= 1 => Accounted(r)

AcceptedInv == \A r \in Request : FailedOK(r)

LEMMA AcceptedInit == Init => AcceptedInv
BY DEF Init, PurchaseInit, AcceptedInv, FailedOK

\* A handler answers 503 only with the record pushed, or logged as lost.
LEMMA FailedMoves ==
  ASSUME TypeOK, HandlerInv, NEW r \in Request, Moves(r),
         response'[r] = "purchase_persistence_failed"
  PROVE  FailedOK(r)'
<1>0. /\ PurchaseTypeOK /\ StoresTypeOK /\ HandlerOK(r)
      /\ failures \in Seq(RawRecord)
  BY DEF TypeOK, StoresTypeOK, HandlerInv
<1>1. RecordFailure(r) \/ RecordFailureFails(r)
  <2>1. CASE RefusePurchase(r)
    <3>1. ScriptResult(r) \in PurchaseScriptResults
      BY <1>0, ScriptResults
    <3>2. response'[r] = PURCHASE_STATUS_BY_SCRIPT_RESULT[ScriptResult(r)]
      BY <1>0, <2>1 DEF RefusePurchase, Reply, PurchaseTypeOK
    <3>. QED BY <3>1, <3>2, StatusOfResult DEF PurchaseScriptResults
  <2>2. CASE ~RefusePurchase(r)
    BY <1>0, <2>2
    DEF Moves, RejectUserId, ReceivePurchase, HandlerStep, GrantPurchase,
      ReadActiveSaleId, EnsureActiveSale, CacheActiveSaleId, PersistPurchase,
      PersistRejected, HandlerFault, ScriptUnavailable, ScriptReplyLost,
      ResolveFails, PersistFails, GoTo, Reply, HandlerOK, PurchaseTypeOK
  <2>. QED BY <2>1, <2>2
<1>2. /\ pc[r] = "record" /\ pc'[r] = "done"
      /\ granted' = granted /\ saleId' = saleId /\ user' = user
      /\ \/ failures' = Append(failures, FailureRecord(r))
         \/ r \in unrecorded'
  BY <1>0, <1>1 DEF RecordFailure, RecordFailureFails, PushRecord, Reply,
                    BookingUnchanged, PurchaseTypeOK
<1>3. FailureRecord(r)' = FailureRecord(r)
  BY <1>2 DEF FailureRecord
<1>4. Elements(Append(failures, FailureRecord(r)))
        = Elements(failures) \cup {FailureRecord(r)}
  BY <1>0, ElementsOfAppend
<1>5. Accounted(r)'
  BY <1>2, <1>3, <1>4 DEF Accounted
<1>. QED BY <1>0, <1>2, <1>5 DEF FailedOK, Ended, HandlerOK, PurchaseTypeOK

\* A handler that has ended stays ended, and the log keeps its lines.
LEMMA AnswerStays ==
  ASSUME TypeOK, [Next]_vars, NEW q \in Request, pc[q] = "done"
  PROVE  /\ response'[q] = response[q]
         /\ unrecorded \subseteq unrecorded'
<1>0. PurchaseTypeOK
  BY DEF TypeOK
<1>1. CASE PurchaseNext
  <2>1. CASE ProcessStep
    BY <1>0, <2>1 DEF ProcessStep, StartServer, StopServer, CrashServer,
                      requestVars, InFlight, PurchaseTypeOK
  <2>2. ASSUME NEW r \in Request, Moves(r)
        PROVE  response'[q] = response[q] /\ unrecorded \subseteq unrecorded'
    <3>1. unrecorded \subseteq unrecorded' /\ pc[r] # "done"
      BY <2>2
      DEF Moves, RejectUserId, ReceivePurchase, HandlerStep, GrantPurchase,
        RefusePurchase, ReadActiveSaleId, EnsureActiveSale, CacheActiveSaleId,
        PersistPurchase, PersistRejected, RecordFailure, HandlerFault,
        ScriptUnavailable, ScriptReplyLost, ResolveFails, PersistFails,
        RecordFailureFails, ScriptEffect, SetActiveSaleId, BookingUnchanged
    <3>. QED BY <1>0, <2>2, <3>1, OneHandlerMoves
  <2>. QED BY <1>1, <2>1, <2>2, PurchaseCases
<1>2. CASE UNCHANGED purchaseVars
  BY <1>2 DEF purchaseVars, requestVars
<1>. QED BY <1>1, <1>2 DEF Next, vars

\* What is accounted for stays so: a single CLI run pops a record only when its
\* purchase is in the table.
LEMMA AccountedStays ==
  ASSUME TypeOK, GateInv, HandlerInv, RepairInv, PopInv, [Next]_vars,
         NEW q \in Request, Ended(q), Accounted(q)
  PROVE  Accounted(q)'
<1>1. /\ Booking(q)' = Booking(q) /\ FailureRecord(q)' = FailureRecord(q)
      /\ purchases \subseteq purchases' /\ unrecorded \subseteq unrecorded'
  BY EndedStays, HistoryGrows, GateGranted, AnswerStays DEF Ended
<1>2. CASE Booking(q) \in purchases \/ q \in unrecorded
  BY <1>1, <1>2 DEF Accounted
<1>3. CASE FailureRecord(q) \in Elements(failures)
  <2>1. PICK x : x = FailureRecord(q) /\ (x \in Elements(failures') \/ Dealt(x)')
    BY <1>3, RecordStays
  <2>2. /\ ~IsMalformed(x)
        /\ Booking(q) = [sale |-> ParsedSale(x), user |-> ParsedUser(x)]
    BY <2>1, OwnRecord, GateGranted DEF Ended, GrantedInv, Booking
  <2>3. Dealt(x)' => Booking(q) \in purchases'
    BY <2>2 DEF Dealt, Persisted, FindPurchaseBySaleIdAndUserId, IsMalformed,
                ParsedSale, ParsedUser, CanonicalUserId
  <2>. QED BY <1>1, <2>1, <2>3 DEF Accounted
<1>. QED BY <1>2, <1>3 DEF Accounted

LEMMA AcceptedNext ==
  TypeOK /\ GateInv /\ HandlerInv /\ RepairInv /\ OneCliInv /\ AcceptedInv
    /\ [Next]_vars => AcceptedInv'
<1>. SUFFICES ASSUME TypeOK, GateInv, HandlerInv, RepairInv, OneCliInv,
                     AcceptedInv, [Next]_vars, NEW q \in Request,
                     response'[q] = "purchase_persistence_failed"
              PROVE  FailedOK(q)'
  BY DEF AcceptedInv, FailedOK
<1>1. CASE response[q] = "purchase_persistence_failed"
  <2>1. Ended(q) /\ (Cardinality(Worker) <= 1 => Accounted(q))
    BY <1>1 DEF AcceptedInv, FailedOK
  <2>2. Ended(q)'
    BY <2>1, EndedStays, GateGranted
  <2>3. Cardinality(Worker) <= 1 => Accounted(q)'
    BY <2>1, AccountedStays DEF OneCliInv, ListsInv
  <2>. QED BY <2>2, <2>3 DEF FailedOK
<1>2. CASE response[q] # "purchase_persistence_failed"
  <2>1. CASE PurchaseNext
    <3>1. CASE ProcessStep
      BY <1>2, <3>1 DEF ProcessStep, StartServer, StopServer, CrashServer,
                        requestVars, TypeOK, PurchaseTypeOK
    <3>2. ASSUME NEW r \in Request, Moves(r) PROVE q = r
      BY <1>2, <3>2, OneHandlerMoves DEF TypeOK
    <3>. QED BY <2>1, <3>1, <3>2, FailedMoves, PurchaseCases
  <2>2. CASE UNCHANGED purchaseVars
    BY <1>2, <2>2 DEF purchaseVars, requestVars
  <2>. QED BY <2>1, <2>2 DEF Next, vars
<1>. QED BY <1>1, <1>2

\* With one CLI run at a time, whatever the customer was told of, "success" or
\* a 503, is in the table, or queued, or logged as lost, for every
\* interleaving of handlers, failures, resets and repairs.
THEOREM NothingForgotten == Spec => []AcceptedAccountedFor
<1>1. HandlerInv /\ AcceptedInv => AcceptedAccountedFor
  BY DEF HandlerInv, HandlerOK, AcceptedInv, FailedOK, Accounted, Elements,
         AcceptedAccountedFor, QueuedRecords
<1>2. Spec => []AcceptedInv
  BY AcceptedInit, AcceptedNext, TypeCorrect, GateInvariant, HandlerInvariant,
     RepairInvariant, OneCliInvariant, PTL DEF Spec
<1>. QED BY <1>1, <1>2, HandlerInvariant, PTL

-----------------------------------------------------------------------------
(* The CLI that only inspects.                                             *)

\* All that is known of the flash sale beside it.
SaleInv ==
  /\ TypeOK /\ GateInv /\ HandlerInv /\ BackedInv
  /\ RepairInv /\ OneCliInv /\ AcceptedInv

LEMMA SaleInit == Init => SaleInv
BY InitTypes, GateInit, HandlerInit, BackedInit, RepairInit, OneCliInit,
   AcceptedInit DEF SaleInv

LEMMA SaleNext == SaleInv /\ [Next]_vars => SaleInv'
BY NextTypes, GateNext, GateGranted, HandlerNext, BackedNext, RepairNext,
   OneCliNext, AcceptedNext DEF SaleInv

\* A command of the inspecting CLI that fails touches nothing of the sale.
LEMMA SaleFrame ==
  ASSUME SaleInv, faults' \in 0 .. MaxFaults,
         UNCHANGED <<redisVars, postgresVars, resets, purchaseVars, initVars,
                     reconcileVars>>
  PROVE  SaleInv'
<1>. USE DEF SaleInv, redisVars, postgresVars, purchaseVars, requestVars, initVars,
             reconcileVars, workerVars
<1>1. TypeOK'
  BY DEF TypeOK, StoresTypeOK, PurchaseTypeOK, InitSaleTypeOK, ReconcileTypeOK,
         IsMalformed, ParsedSale, ParsedUser, CanonicalUserId
<1>2. GateInv'
  BY GateFrame DEF GateInv
<1>3. HandlerInv'
  BY DEF HandlerInv, HandlerOK, Booking
<1>4. ASSUME NEW x
      PROVE  /\ KnownRecord(x) => KnownRecord(x)'
             /\ Persisted(x) => Persisted(x)'
             /\ IsMalformed(x)' = IsMalformed(x)
  <2>1. KnownRecord(x) => KnownRecord(x)'
    BY DEF KnownRecord, Ended, FailureRecord
  <2>2. Persisted(x) => Persisted(x)'
    BY DEF Persisted, FindPurchaseBySaleIdAndUserId, ParsedSale, ParsedUser,
           CanonicalUserId
  <2>3. IsMalformed(x)' = IsMalformed(x)
    BY DEF IsMalformed, ParsedSale, ParsedUser, CanonicalUserId
  <2>. QED BY <2>1, <2>2, <2>3
<1>5. BackedInv'
  <2>1. PurchasesBacked'
    BY DEF BackedInv, PurchasesBacked, Booking, ParsedSale, ParsedUser,
           CanonicalUserId
  <2>2. \A x \in Elements(failures') : KnownRecord(x)'
    BY <1>4 DEF BackedInv
  <2>3. \A w \in Worker : cliPc'[w] \notin {"off", "read"} => KnownRecord(cliRaw[w])'
    <3>1. ASSUME NEW w \in Worker, cliPc'[w] \notin {"off", "read"}
          PROVE  KnownRecord(cliRaw[w])'
      BY <3>1 DEF BackedInv, KnownRecord, Ended, FailureRecord
    <3>. QED BY <3>1
  <2>. QED BY <2>1, <2>2, <2>3 DEF BackedInv
<1>6. RepairInv'
  BY DEF RepairInv, Settled, Persisted, FindPurchaseBySaleIdAndUserId,
         IsMalformed, ParsedSale, ParsedUser, CanonicalUserId
<1>7. OneCliInv'
  <2>1. ArchivedRecords' = ArchivedRecords /\ PopInv' = PopInv
    BY DEF ArchivedRecords, PopInv
  <2>2. ListsInv => ListsInv'
    BY <1>4, <2>1 DEF ListsInv
  <2>. QED BY <2>2 DEF OneCliInv
<1>8. AcceptedInv'
  BY DEF AcceptedInv, FailedOK, Ended, Accounted, Booking, FailureRecord
<1>. QED BY <1>1, <1>2, <1>3, <1>5, <1>6, <1>7, <1>8

inspectingVars == <<vars, inspectVars>>

\* Every step, as the sale sees it: one of its own, or a failure beside it.
LEMMA SaleSteps ==
  ASSUME SaleInv, [InspectNext]_inspectingVars
  PROVE  \/ [Next]_vars
         \/ InspectFails /\ faults' \in 0 .. MaxFaults
BY FaultTypes DEF InspectNext, InspectStep, InspectFails, inspectingVars, SaleInv,
                  TypeOK

LEMMA SaleStays == SaleInv /\ [InspectNext]_inspectingVars => SaleInv'
BY SaleSteps, SaleNext, SaleFrame DEF InspectFails

\* On the list, or dealt with: where a record that was once on it can be.
Kept(x) == x \in Elements(failures) \/ Dealt(x)

\* What the report relies on does not go away while it is made and read.
LEMMA SaleKeeps ==
  ASSUME SaleInv, [InspectNext]_inspectingVars
  PROVE  /\ purchases \subseteq purchases'
         /\ \A r \in Request :
              response[r] = "purchase_persistence_failed" =>
                /\ response'[r] = response[r]
                /\ Booking(r)' = Booking(r)
                /\ FailureRecord(r)' = FailureRecord(r)
                /\ r \in unrecorded => r \in unrecorded'
         /\ Cardinality(Worker) <= 1 => \A x : Kept(x) => Kept(x)'
<1>1. CASE [Next]_vars
  <2>1. purchases \subseteq purchases'
    BY <1>1, HistoryGrows, GateGranted DEF SaleInv
  <2>2. ASSUME NEW r \in Request, response[r] = "purchase_persistence_failed"
        PROVE  /\ response'[r] = response[r]
               /\ Booking(r)' = Booking(r)
               /\ FailureRecord(r)' = FailureRecord(r)
               /\ r \in unrecorded => r \in unrecorded'
    <3>1. Ended(r)
      BY <2>2 DEF SaleInv, AcceptedInv, FailedOK
    <3>. QED BY <1>1, <3>1, EndedStays, AnswerStays, GateGranted
             DEF SaleInv, Ended
  <2>3. ASSUME Cardinality(Worker) <= 1, NEW x, Kept(x) PROVE Kept(x)'
    BY <1>1, <2>1, <2>3, RecordStays, DealtStays
    DEF SaleInv, OneCliInv, ListsInv, Kept
  <2>. QED BY <2>1, <2>2, <2>3
<1>2. CASE InspectFails
  <2>1. UNCHANGED <<failures, purchases, pc, response, saleId, user, unrecorded>>
    BY <1>2 DEF InspectFails, redisVars, postgresVars, purchaseVars, requestVars
  <2>2. \A x : Kept(x) => Kept(x)'
    BY <2>1, DealtStays DEF Kept
  <2>. QED BY <2>1, <2>2 DEF Booking, FailureRecord
<1>. QED BY <1>1, <1>2, SaleSteps

InspectStatus == {"already_persisted", "invalid_record", "needs_persistence"}

\* The snapshot exists only while it is looked up, the report only after it.
InspectTypeOK ==
  /\ inspectLimit \in Nat
  /\ rawRecords \in Seq(RawRecord)
  /\ report \in Seq([raw : RawRecord, status : InspectStatus])
  /\ inspectPc # "find" => rawRecords = <<>>
  /\ inspectPc \in {"length", "range"} => report = <<>>
  /\ asked \subseteq Request

\* Those who had been told 503 were told nothing else since.
AskedInv == \A r \in asked : response[r] = "purchase_persistence_failed"

\* Where the purchase of r can be found once the snapshot is taken, if the
\* snapshot has not ended at the limit.
Traced(r) ==
  \/ Reported(r)
  \/ FailureRecord(r) \in Elements(rawRecords)
  \/ Booking(r) \in purchases
  \/ r \in unrecorded
  \/ inspectLimit # Unlimited /\ Len(report) + Len(rawRecords) >= inspectLimit

\* A line of the report that can be acted on.
LineOK(line) ==
  /\ line.status = "already_persisted" => Persisted(line.raw)
  /\ line.status = "invalid_record" => IsMalformed(line.raw)
  /\ line.status = "needs_persistence" => ~IsMalformed(line.raw) /\ Kept(line.raw)

InspectInv ==
  Cardinality(Worker) <= 1 =>
    /\ inspectPc \in {"find", "reported"} => \A r \in asked : Traced(r)
    /\ \A x \in Elements(rawRecords) : Kept(x)
    /\ \A i \in DOMAIN report : LineOK(report[i])

LEMMA InspectStarts == InspectInit => SaleInv /\ InspectTypeOK /\ AskedInv /\ InspectInv
<1>1. InspectInit => SaleInv
  BY SaleInit DEF InspectInit
<1>. QED BY <1>1 DEF InspectInit, InspectTypeOK, AskedInv, InspectInv, Elements,
                     Unlimited

LEMMA MemberOfSeq ==
  ASSUME NEW S, NEW s \in Seq(S), NEW i \in DOMAIN s
  PROVE  s[i] \in S
OBVIOUS

LEMMA RangeOfSeq ==
  ASSUME NEW S, NEW q \in Seq(S), NEW n \in Nat
  PROVE  /\ RangeUpTo(q, n) \in Seq(S)
         /\ Elements(RangeUpTo(q, n)) \subseteq Elements(q)
         /\ RangeUpTo(q, n) = q \/ (n # Unlimited /\ Len(RangeUpTo(q, n)) = n)
<1>1. CASE n = Unlimited \/ n >= Len(q)
  <2>1. RangeUpTo(q, n) = q
    BY <1>1 DEF RangeUpTo
  <2>. QED BY <2>1
<1>2. CASE ~(n = Unlimited \/ n >= Len(q))
  <2>1. /\ RangeUpTo(q, n) = SubSeq(q, 1, n) /\ n \in 1 .. Len(q)
        /\ Len(SubSeq(q, 1, n)) = n /\ SubSeq(q, 1, n) \in Seq(S)
        /\ \A i \in 1 .. n : SubSeq(q, 1, n)[i] = q[i]
    BY <1>2 DEF RangeUpTo, Unlimited
  <2>2. Elements(SubSeq(q, 1, n)) \subseteq Elements(q)
    BY <2>1 DEF Elements
  <2>. QED BY <1>2, <2>1, <2>2
<1>. QED BY <1>1, <1>2

\* A lookup moves the head of the snapshot to the end of the report.
LEMMA ReportStep ==
  ASSUME InspectTypeOK, inspectPc = "find", rawRecords # <<>>,
         NEW status \in InspectStatus, Report(status)
  PROVE  /\ InspectTypeOK'
         /\ Head(rawRecords) \in Elements(rawRecords)
         /\ Elements(rawRecords) \subseteq Elements(rawRecords') \cup {Head(rawRecords)}
         /\ Elements(rawRecords') \subseteq Elements(rawRecords)
         /\ DOMAIN report \subseteq DOMAIN report'
         /\ \A i \in DOMAIN report : report'[i] = report[i]
         /\ \E i \in DOMAIN report' : report'[i].raw = Head(rawRecords)
         /\ \A i \in DOMAIN report' :
              i \in DOMAIN report \/ report'[i] = [raw |-> Head(rawRecords), status |-> status]
         /\ Len(report') + Len(rawRecords') = Len(report) + Len(rawRecords)
<1>. DEFINE line == [raw |-> Head(rawRecords), status |-> status]
<1>1. /\ rawRecords \in Seq(RawRecord) /\ Head(rawRecords) \in RawRecord
      /\ rawRecords' = Tail(rawRecords) /\ rawRecords' \in Seq(RawRecord)
      /\ Len(rawRecords') = Len(rawRecords) - 1 /\ Len(rawRecords) \in Nat
      /\ rawRecords' = LPop(rawRecords)
  BY DEF InspectTypeOK, Report, LPop
<1>2. /\ report \in Seq([raw : RawRecord, status : InspectStatus])
      /\ line \in [raw : RawRecord, status : InspectStatus]
      /\ report' = Append(report, line)
  BY <1>1 DEF InspectTypeOK, Report
<1>. HIDE DEF line
<1>3. /\ report' \in Seq([raw : RawRecord, status : InspectStatus])
      /\ DOMAIN report = 1 .. Len(report) /\ Len(report) \in Nat
      /\ DOMAIN report' = 1 .. Len(report) + 1 /\ Len(report') = Len(report) + 1
      /\ \A i \in DOMAIN report : report'[i] = report[i]
      /\ report'[Len(report) + 1] = line
  BY <1>2
<1>4. InspectTypeOK'
  BY <1>1, <1>3 DEF InspectTypeOK, Report
<1>5. /\ Head(rawRecords) \in Elements(rawRecords)
      /\ Elements(rawRecords) \subseteq Elements(rawRecords') \cup {Head(rawRecords)}
      /\ Elements(rawRecords') \subseteq Elements(rawRecords)
  BY <1>1, HeadIsElement, LPopKeepsRest, ElementsOfLPop
<1>6. /\ Len(report) + 1 \in DOMAIN report'
      /\ report'[Len(report) + 1].raw = Head(rawRecords)
  BY <1>3 DEF line
<1>7. \A i \in DOMAIN report' : i \in DOMAIN report \/ report'[i] = line
  BY <1>3
<1>8. Len(report') + Len(rawRecords') = Len(report) + Len(rawRecords)
  BY <1>1, <1>3
<1>. QED BY <1>3, <1>4, <1>5, <1>6, <1>7, <1>8 DEF line

LEMMA InspectTypesNext ==
  SaleInv /\ InspectTypeOK /\ [InspectNext]_inspectingVars => InspectTypeOK'
<1>. SUFFICES ASSUME SaleInv, InspectTypeOK, [InspectNext]_inspectingVars
              PROVE  InspectTypeOK'
  OBVIOUS
<1>1. CASE UNCHANGED inspectVars
  BY <1>1 DEF InspectTypeOK, inspectVars
<1>2. CASE \E n \in Limit \cup {Unlimited} : StartInspect(n)
  <2>1. PICK n \in Nat : StartInspect(n)
    BY <1>2, ReconcileAssumption DEF Unlimited
  <2>2. asked' \subseteq Request /\ inspectLimit' \in Nat
    BY <2>1 DEF StartInspect
  <2>. QED BY <2>1, <2>2 DEF InspectTypeOK, StartInspect
<1>3. CASE ReadRange
  <2>1. RangeUpTo(failures, inspectLimit) \in Seq(RawRecord)
    BY RangeOfSeq DEF InspectTypeOK, SaleInv, TypeOK, StoresTypeOK
  <2>. QED BY <1>3, <2>1 DEF InspectTypeOK, ReadRange
<1>4. CASE ReadLength \/ FinishInspect
  BY <1>4 DEF InspectTypeOK, ReadLength, FinishInspect
<1>5. CASE InspectFails
  BY <1>5 DEF InspectTypeOK, InspectFails
<1>6. CASE InspectInvalid \/ InspectFind
  <2>1. \E status \in InspectStatus : Report(status)
    BY <1>6 DEF InspectInvalid, InspectFind, InspectStatus
  <2>. QED BY <1>6, <2>1, ReportStep DEF InspectInvalid, InspectFind
<1>. QED
  BY <1>1, <1>2, <1>3, <1>4, <1>5, <1>6 DEF InspectNext, InspectStep, inspectingVars

LEMMA AskedNext ==
  SaleInv /\ InspectTypeOK /\ AskedInv /\ [InspectNext]_inspectingVars => AskedInv'
<1>. SUFFICES ASSUME SaleInv, InspectTypeOK, AskedInv, [InspectNext]_inspectingVars,
                     NEW r \in asked'
              PROVE  response'[r] = "purchase_persistence_failed"
  BY DEF AskedInv
<1>1. CASE r \in asked
  BY <1>1, SaleKeeps DEF AskedInv, InspectTypeOK
<1>2. CASE \E n \in Limit \cup {Unlimited} : StartInspect(n) /\ UNCHANGED vars
  BY <1>2 DEF StartInspect, vars, purchaseVars, requestVars
<1>. QED BY <1>1, <1>2
  DEF InspectNext, InspectStep, inspectingVars, inspectVars, ReadLength, ReadRange,
      InspectInvalid, InspectFind, FinishInspect, InspectFails, Report

\* What the report and the snapshot hold stays true under any step that leaves
\* them alone, and under the inspecting run's own.
LEMMA LineStays ==
  ASSUME SaleInv, [InspectNext]_inspectingVars, Cardinality(Worker) <= 1,
         NEW line, LineOK(line)
  PROVE  LineOK(line)'
<1>1. purchases \subseteq purchases' /\ (Kept(line.raw) => Kept(line.raw)')
  BY SaleKeeps
<1>2. IsMalformed(line.raw)' = IsMalformed(line.raw)
  BY DEF IsMalformed, ParsedSale, ParsedUser, CanonicalUserId
<1>3. Persisted(line.raw) => Persisted(line.raw)'
  BY <1>1 DEF Persisted, FindPurchaseBySaleIdAndUserId, ParsedSale, ParsedUser,
              CanonicalUserId
<1>. QED BY <1>1, <1>2, <1>3 DEF LineOK

LEMMA InspectNextInv ==
  SaleInv /\ InspectTypeOK /\ AskedInv /\ InspectInv /\ [InspectNext]_inspectingVars
    => InspectInv'
<1>. SUFFICES ASSUME SaleInv, InspectTypeOK, AskedInv, InspectInv,
                     [InspectNext]_inspectingVars, Cardinality(Worker) <= 1
              PROVE  /\ inspectPc' \in {"find", "reported"} =>
                          \A r \in asked' : Traced(r)'
                     /\ \A x \in Elements(rawRecords') : Kept(x)'
                     /\ \A i \in DOMAIN report' : LineOK(report[i])'
  BY DEF InspectInv
<1>0. /\ inspectPc \in {"find", "reported"} => \A r \in asked : Traced(r)
      /\ \A x \in Elements(rawRecords) : Kept(x) /\ Kept(x)'
      /\ \A i \in DOMAIN report : LineOK(report[i])
  BY SaleKeeps DEF InspectInv
<1>1. ASSUME NEW r \in asked
      PROVE  /\ FailureRecord(r)' = FailureRecord(r)
             /\ Booking(r) \in purchases \/ r \in unrecorded =>
                  Booking(r)' \in purchases' \/ r \in unrecorded'
  BY SaleKeeps DEF AskedInv, InspectTypeOK
<1>2. ASSUME NEW i \in DOMAIN report, i \in DOMAIN report', report'[i] = report[i]
      PROVE  LineOK(report[i])'
  <2>1. PICK line : line = report[i] /\ line = report'[i]
    BY <1>2
  <2>2. LineOK(line)'
    BY <1>0, <2>1, LineStays
  <2>. QED BY <2>1, <2>2 DEF LineOK
<1>3. CASE /\ UNCHANGED <<inspectLimit, rawRecords, report, asked>>
           /\ inspectPc' \in {"find", "reported"} => inspectPc \in {"find", "reported"}
  <2>1. ASSUME NEW r \in asked, Traced(r) PROVE Traced(r)'
    BY <1>1, <1>3, <2>1 DEF Traced, Reported, Unlimited
  <2>2. \A i \in DOMAIN report' : LineOK(report[i])'
    BY <1>2, <1>3
  <2>. QED BY <1>0, <1>3, <2>1, <2>2
<1>4. CASE \E n \in Limit \cup {Unlimited} : StartInspect(n)
  BY <1>4 DEF StartInspect, Elements
<1>5. CASE InspectFails
  <2>1. /\ inspectPc' \notin {"find", "reported"} /\ rawRecords' = <<>>
        /\ report' = report
    BY <1>5 DEF InspectFails
  <2>2. \A i \in DOMAIN report' : LineOK(report[i])'
    BY <1>2, <2>1
  <2>. QED BY <2>1, <2>2 DEF Elements
<1>6. CASE ReadRange /\ UNCHANGED vars
  <2>1. /\ inspectLimit \in Nat /\ failures \in Seq(RawRecord)
        /\ report = <<>> /\ report' = report /\ asked' = asked
        /\ inspectLimit' = inspectLimit
        /\ rawRecords' = RangeUpTo(failures, inspectLimit)
        /\ UNCHANGED <<failures, purchases, pc, response, saleId, user, unrecorded>>
    BY <1>6 DEF ReadRange, InspectTypeOK, SaleInv, TypeOK, StoresTypeOK, vars,
                storeVars, redisVars, postgresVars, purchaseVars, requestVars
  <2>2. /\ Elements(rawRecords') \subseteq Elements(failures)
        /\ \/ rawRecords' = failures
           \/ inspectLimit # Unlimited /\ Len(rawRecords') = inspectLimit
    BY <2>1, RangeOfSeq
  <2>3. \A x \in Elements(rawRecords') : Kept(x)'
    BY <2>1, <2>2 DEF Kept
  <2>4. ASSUME NEW r \in asked PROVE Traced(r)'
    <3>1. Accounted(r)
      BY DEF AskedInv, InspectTypeOK, SaleInv, AcceptedInv, FailedOK
    <3>2. CASE Booking(r) \in purchases \/ r \in unrecorded
      BY <1>1, <3>2 DEF Traced
    <3>3. CASE FailureRecord(r) \in Elements(failures)
      <4>1. CASE rawRecords' = failures
        BY <1>1, <3>3, <4>1 DEF Traced
      <4>2. CASE inspectLimit # Unlimited /\ Len(rawRecords') = inspectLimit
        <5>1. Len(report') + Len(rawRecords') >= inspectLimit'
          BY <2>1, <4>2
        <5>. QED BY <2>1, <4>2, <5>1 DEF Traced, Unlimited
      <4>. QED BY <2>2, <4>1, <4>2
    <3>. QED BY <3>1, <3>2, <3>3 DEF Accounted
  <2>. QED BY <2>1, <2>3, <2>4
<1>7. ASSUME InspectInvalid \/ InspectFind, UNCHANGED vars
      PROVE  /\ inspectPc' \in {"find", "reported"} =>
                  \A r \in asked' : Traced(r)'
             /\ \A x \in Elements(rawRecords') : Kept(x)'
             /\ \A i \in DOMAIN report' : LineOK(report[i])'
  <2>1. PICK x, status :
          /\ x = Head(rawRecords) /\ status \in InspectStatus /\ Report(status)
          /\ inspectPc = "find" /\ rawRecords # <<>>
          /\ status = "already_persisted" => Persisted(x)
          /\ status = "invalid_record" => IsMalformed(x)
          /\ status = "needs_persistence" => ~IsMalformed(x)
    <3>. USE DEF InspectStatus
    <3>1. CASE InspectInvalid
      BY <3>1 DEF InspectInvalid
    <3>2. CASE InspectFind /\ PersistedRecord(Head(rawRecords))
      BY <3>2 DEF InspectFind, PersistedRecord, Persisted
    <3>3. CASE InspectFind /\ ~PersistedRecord(Head(rawRecords))
      BY <3>3 DEF InspectFind
    <3>. QED BY <1>7, <3>1, <3>2, <3>3
  <2>. DEFINE line == [raw |-> x, status |-> status]
  <2>2. /\ x \in Elements(rawRecords)
        /\ Elements(rawRecords) \subseteq Elements(rawRecords') \cup {x}
        /\ Elements(rawRecords') \subseteq Elements(rawRecords)
        /\ DOMAIN report \subseteq DOMAIN report'
        /\ \A i \in DOMAIN report : report'[i] = report[i]
        /\ \E i \in DOMAIN report' : report'[i].raw = x
        /\ \A i \in DOMAIN report' : i \in DOMAIN report \/ report'[i] = line
        /\ Len(report') + Len(rawRecords') = Len(report) + Len(rawRecords)
        /\ inspectPc' = inspectPc /\ inspectLimit' = inspectLimit /\ asked' = asked
    BY <2>1, ReportStep DEF Report
  <2>3. LineOK(line)'
    <3>1. Kept(x)
      BY <1>0, <2>2
    <3>2. LineOK(line)
      BY <2>1, <3>1 DEF LineOK
    <3>. HIDE DEF line
    <3>. QED BY <3>2, LineStays
  <2>4. ASSUME NEW i \in DOMAIN report' PROVE LineOK(report[i])'
    <3>1. CASE i \in DOMAIN report
      BY <1>2, <2>2, <2>4, <3>1
    <3>2. CASE report'[i] = line
      BY <2>3, <3>2 DEF LineOK
    <3>. QED BY <2>2, <2>4, <3>1, <3>2
  <2>5. ASSUME NEW r \in asked PROVE Traced(r)'
    <3>1. Traced(r)
      BY <1>0, <2>1
    <3>2. CASE Reported(r)
      <4>1. PICK i \in DOMAIN report : report[i].raw = FailureRecord(r)
        BY <3>2 DEF Reported
      <4>2. i \in DOMAIN report' /\ report'[i].raw = FailureRecord(r)'
        BY <1>1, <2>2, <4>1
      <4>. QED BY <4>2 DEF Traced, Reported
    <3>3. CASE FailureRecord(r) \in Elements(rawRecords')
      BY <1>1, <3>3 DEF Traced
    <3>4. CASE FailureRecord(r) = x
      <4>1. \E i \in DOMAIN report' : report'[i].raw = FailureRecord(r)'
        BY <1>1, <2>2, <3>4
      <4>. QED BY <4>1 DEF Traced, Reported
    <3>5. CASE Booking(r) \in purchases \/ r \in unrecorded
      BY <1>1, <3>5 DEF Traced
    <3>6. CASE inspectLimit # Unlimited /\ Len(report) + Len(rawRecords) >= inspectLimit
      BY <2>2, <3>6 DEF Traced, Unlimited
    <3>. QED BY <2>2, <3>1, <3>2, <3>3, <3>4, <3>5, <3>6 DEF Traced
  <2>. QED BY <1>0, <2>2, <2>4, <2>5
<1>8. CASE InspectStep
  <2>1. CASE ReadLength \/ FinishInspect
    <3>1. CASE ReadLength
      BY <1>3, <3>1 DEF ReadLength
    <3>2. CASE FinishInspect
      BY <1>3, <3>2 DEF FinishInspect
    <3>. QED BY <2>1, <3>1, <3>2
  <2>. QED BY <1>4, <1>6, <1>7, <1>8, <2>1 DEF InspectStep
<1>. QED BY <1>3, <1>5, <1>8 DEF InspectNext, inspectingVars, inspectVars

LEMMA InspectInvariant == InspectSpec => [](SaleInv /\ InspectTypeOK /\ InspectInv)
<1>. QED
  BY InspectStarts, SaleStays, InspectTypesNext, AskedNext, InspectNextInv, PTL
  DEF InspectSpec, inspectingVars

\* Whatever the handlers, the resets and a repairing CLI do while an operator
\* inspects the list, a report that was not cut misses no purchase whose
\* customer had been told 503 (inspectPurchasePersistenceFailures reads the
\* list once and then looks the records up one by one).
THEOREM ReportsMissNothing == InspectSpec => []ReportMissesNothing
<1>1. InspectTypeOK /\ InspectInv => ReportMissesNothing
  <2>. SUFFICES ASSUME InspectTypeOK, InspectInv, inspectPc = "reported",
                       Cardinality(Worker) <= 1,
                       inspectLimit = Unlimited \/ Len(report) < inspectLimit,
                       NEW r \in asked
                PROVE  Reported(r) \/ Booking(r) \in purchases \/ r \in unrecorded
    BY DEF ReportMissesNothing
  <2>1. Traced(r) /\ rawRecords = <<>> /\ inspectLimit \in Nat /\ Len(report) \in Nat
    BY DEF InspectInv, InspectTypeOK
  <2>2. ~(Len(report) + Len(rawRecords) >= inspectLimit) \/ inspectLimit = Unlimited
    BY <2>1
  <2>. QED BY <2>1, <2>2 DEF Traced, Elements
<1>. QED BY <1>1, InspectInvariant, PTL

\* Acting on a report is safe however old it is: a line keeps its meaning while
\* the list and the table change (inspectPurchasePersistenceFailures).
THEOREM ReportsAreSafe == InspectSpec => []ReportIsSafeToUse
<1>1. InspectTypeOK /\ InspectInv => ReportIsSafeToUse
  <2>. SUFFICES ASSUME InspectTypeOK, InspectInv, Cardinality(Worker) <= 1,
                       NEW i \in DOMAIN report
                PROVE  LET raw == report[i].raw
                           row == [sale |-> ParsedSale(raw), user |-> ParsedUser(raw)]
                       IN  CASE report[i].status = "already_persisted" -> row \in purchases
                             [] report[i].status = "invalid_record"    -> IsMalformed(raw)
                             [] report[i].status = "needs_persistence" ->
                                  raw \in QueuedRecords \/ row \in purchases
    BY DEF ReportIsSafeToUse
  <2>1. PICK raw, status : raw = report[i].raw /\ status = report[i].status
    OBVIOUS
  <2>2. status \in InspectStatus /\ LineOK(report[i])
    <3>1. report[i] \in [raw : RawRecord, status : InspectStatus]
      BY MemberOfSeq DEF InspectTypeOK
    <3>. QED BY <2>1, <3>1 DEF InspectInv
  <2>3. /\ status = "already_persisted" => Persisted(raw)
        /\ status = "invalid_record" => IsMalformed(raw)
        /\ status = "needs_persistence" => raw \in QueuedRecords \/ Persisted(raw)
    BY <2>1, <2>2 DEF LineOK, Kept, Dealt, QueuedRecords, Elements
  <2>. QED BY <2>1, <2>2, <2>3
           DEF InspectStatus, Persisted, FindPurchaseBySaleIdAndUserId
<1>. QED BY <1>1, InspectInvariant, PTL

\* An inspecting CLI beside them, even one whose commands fail, costs the other
\* processes none of what is proved of them: the theorems above hold with it.
THEOREM InspectingIsHarmless ==
  InspectSpec => [](GateConservation /\ PurchasesBacked /\ ArchivedIsPersisted
                      /\ RecordedOnce /\ AcceptedAccountedFor)
<1>1. SaleInv => GateConservation /\ PurchasesBacked
  BY DEF SaleInv, GateInv, BackedInv
<1>2. SaleInv => ArchivedIsPersisted
  BY DEF SaleInv, RepairInv, Settled, ArchivedIsPersisted, Persisted,
         FindPurchaseBySaleIdAndUserId
<1>3. SaleInv => RecordedOnce
  BY DEF SaleInv, OneCliInv, ListsInv, Unique, Elements, RecordedOnce,
         QueuedRecords, ArchivedRecords
<1>4. SaleInv => AcceptedAccountedFor
  BY DEF SaleInv, HandlerInv, HandlerOK, AcceptedInv, FailedOK, Accounted,
         Elements, AcceptedAccountedFor, QueuedRecords
<1>. QED BY <1>1, <1>2, <1>3, <1>4, InspectInvariant, PTL

=============================================================================
