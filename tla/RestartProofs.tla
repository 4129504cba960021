----------------------------- MODULE RestartProofs -----------------------------
(***************************************************************************)
(* Theorems about the flash sale on a Redis that restarts from an older    *)
(* snapshot.  What was proved with a Redis that never dies falls into two  *)
(* halves: the invariants that tie the gate to the grants are gone, those  *)
(* in DurableInv hold at every restart because they speak of each record   *)
(* of a list and never of what the list lacks.                             *)
(***************************************************************************)
EXTENDS RepairProofs, RedisRestart

restartingVars == <<vars, restartVars>>

\* What holds of the flash sale whichever of its data sets Redis has.
DurableInv ==
  /\ TypeOK /\ GrantedInv /\ HandlerInv
  /\ BackedInv /\ RepairInv /\ QueueInv /\ OneSuccessPerSaleUser

\* What is on the volume was true when it was saved, and still is.
SnapshotInv ==
  /\ snapshot.stock \in Nat \cup {NoStock}
  /\ snapshot.purchasedUsers \subseteq User
  /\ snapshot.activeSaleId \in Sale \cup {NoSale}
  /\ snapshot.failures \in Seq(RawRecord)
  /\ snapshot.archive \in Seq([raw : RawRecord, status : ArchiveStatus])
  /\ snapshot.activeSaleId # NoSale => snapshot.activeSaleId \in sales
  /\ \A x \in Elements(snapshot.failures) : KnownRecord(x) /\ Repairable(x)
  /\ \A i \in DOMAIN snapshot.archive :
       Settled(snapshot.archive[i].raw, snapshot.archive[i].status)

\* A record is in the list only when its handler has ended.
SavedInv == saved \subseteq Request /\ \A r \in saved : Ended(r)

\* A record that was saved is in both lists, the one on the volume and the one
\* in Redis, until it is dealt with.
KeptInv ==
  Cardinality(Worker) <= 1 /\ ~caughtCli =>
    /\ PopInv
    /\ \A r \in saved :
         \/ Dealt(FailureRecord(r))
         \/ /\ FailureRecord(r) \in Elements(failures)
            /\ FailureRecord(r) \in Elements(snapshot.failures)

RestartInv ==
  DurableInv /\ SnapshotInv /\ SavedInv /\ caughtCli \in BOOLEAN /\ KeptInv

-----------------------------------------------------------------------------

LEMMA DurableInit == Init => DurableInv
<1>1. Init => OneSuccessPerSaleUser
  BY DEF Init, PurchaseInit, OneSuccessPerSaleUser
<1>. QED
  BY <1>1, InitTypes, GateInit, GateGranted, HandlerInit, BackedInit, RepairInit,
     QueueInit DEF DurableInv

LEMMA RestartStarts == RestartInit => RestartInv
<1>. SUFFICES ASSUME RestartInit PROVE RestartInv
  OBVIOUS
<1>1. DurableInv
  BY DurableInit DEF RestartInit
<1>2. /\ snapshot.stock = stock /\ snapshot.purchasedUsers = purchasedUsers
      /\ snapshot.activeSaleId = activeSaleId /\ snapshot.failures = failures
      /\ snapshot.archive = archive
  BY DEF RestartInit, DataSet
<1>3. SnapshotInv
  BY <1>1, <1>2 DEF SnapshotInv, DurableInv, TypeOK, StoresTypeOK, QueueInv,
                    SalesInv, BackedInv, RepairInv
<1>4. PopInv
  BY DEF RestartInit, Init, ReconcileInit, PopInv
<1>. QED BY <1>1, <1>3, <1>4 DEF RestartInit, RestartInv, SavedInv, KeptInv

LEMMA DurableNext == DurableInv /\ [Next]_vars => DurableInv'
BY NextTypes, GrantedNext, HandlerNext, BackedNext, RepairNext, QueueNext,
   OneSuccessNext DEF DurableInv

\* A step of the processes takes nothing from what is known, sold or booked.
LEMMA StoresKeep ==
  ASSUME DurableInv, [Next]_vars
  PROVE  /\ purchases \subseteq purchases' /\ sales \subseteq sales'
         /\ \A x : KnownRecord(x) => KnownRecord(x)'
<1>1. purchases \subseteq purchases'
  BY HistoryGrows DEF DurableInv
<1>2. sales \subseteq sales'
  <2>1. CASE Next
    BY <2>1, SalesPurchase, SalesOthers
    DEF Next, DurableInv, TypeOK, QueueInv, initVars
  <2>2. CASE UNCHANGED vars
    BY <2>2 DEF vars, storeVars, postgresVars
  <2>. QED BY <2>1, <2>2
<1>3. enqueued \subseteq enqueued'
  <2>1. CASE Next
    BY <2>1, CliWork DEF Next, DurableInv, TypeOK, reconcileVars
  <2>2. CASE UNCHANGED vars
    BY <2>2 DEF vars, reconcileVars
  <2>. QED BY <2>1, <2>2
<1>. QED BY <1>1, <1>2, <1>3, KnownStays DEF DurableInv

\* What a process does while the volume is left alone.
LEMMA ProcessSteps ==
  ASSUME RestartInv, [Next]_vars, UNCHANGED restartVars
  PROVE  RestartInv'
<1>0. DurableInv /\ SnapshotInv /\ SavedInv /\ KeptInv /\ UNCHANGED <<snapshot, saved, caughtCli>>
  BY DEF RestartInv, restartVars
<1>1. DurableInv'
  BY <1>0, DurableNext
<1>2. SnapshotInv'
  <2>1. /\ purchases \subseteq purchases' /\ sales \subseteq sales'
        /\ \A x : KnownRecord(x) => KnownRecord(x)'
    BY <1>0, StoresKeep
  <2>2. ASSUME NEW x \in Elements(snapshot.failures) PROVE Repairable(x)'
    BY <1>0, <2>1 DEF SnapshotInv, Repairable, IsMalformed, ParsedSale, ParsedUser,
                      CanonicalUserId
  <2>3. ASSUME NEW i \in DOMAIN snapshot.archive
        PROVE  Settled(snapshot.archive[i].raw, snapshot.archive[i].status)'
    <3>1. PICK raw, status : /\ raw = snapshot.archive[i].raw
                             /\ status = snapshot.archive[i].status
                             /\ Settled(raw, status)
      BY <1>0 DEF SnapshotInv
    <3>2. Settled(raw, status)'
      BY <2>1, <3>1, SettledStays
    <3>. QED BY <1>0, <3>1, <3>2 DEF Settled
  <2>. QED BY <1>0, <2>1, <2>2, <2>3 DEF SnapshotInv
<1>3. /\ SavedInv'
      /\ \A r \in saved : FailureRecord(r)' = FailureRecord(r)
  BY <1>0, EndedStays DEF SavedInv, DurableInv
<1>4. KeptInv'
  <2>. SUFFICES ASSUME Cardinality(Worker) <= 1, ~caughtCli PROVE
         /\ PopInv'
         /\ \A r \in saved :
              \/ Dealt(FailureRecord(r))'
              \/ /\ FailureRecord(r)' \in Elements(failures')
                 /\ FailureRecord(r)' \in Elements(snapshot.failures)
    BY <1>0 DEF KeptInv
  <2>1. PopInv /\ PopInv'
    BY <1>0, PopNext DEF KeptInv, DurableInv
  <2>2. ASSUME NEW r \in saved
        PROVE  \/ Dealt(FailureRecord(r))'
               \/ /\ FailureRecord(r)' \in Elements(failures')
                  /\ FailureRecord(r)' \in Elements(snapshot.failures)
    <3>1. PICK x : /\ x = FailureRecord(r) /\ x = FailureRecord(r)'
                   /\ \/ Dealt(x)
                      \/ x \in Elements(failures) /\ x \in Elements(snapshot.failures)
      BY <1>0, <1>3 DEF KeptInv
    <3>2. \/ Dealt(x)'
          \/ x \in Elements(failures') /\ x \in Elements(snapshot.failures)
      BY <1>0, <2>1, <3>1, RecordStays, DealtStays, StoresKeep DEF DurableInv
    <3>. QED BY <3>1, <3>2 DEF Dealt
  <2>. QED BY <2>1, <2>2
<1>. QED BY <1>0, <1>1, <1>2, <1>3, <1>4 DEF RestartInv

\* A snapshot makes the two lists one.
LEMMA Saves == RestartInv /\ SaveSnapshot => RestartInv'
<1>. SUFFICES ASSUME RestartInv, SaveSnapshot PROVE RestartInv'
  OBVIOUS
<1>0. /\ DurableInv /\ SnapshotInv /\ SavedInv /\ KeptInv
      /\ UNCHANGED vars /\ caughtCli' = caughtCli
      /\ saved' = saved \cup {r \in Request : FailureRecord(r) \in Elements(failures)}
  BY DEF RestartInv, SaveSnapshot, QueuedRecords, Elements
<1>1. DurableInv'
  BY <1>0, DurableNext
<1>2. /\ snapshot'.stock = stock' /\ snapshot'.purchasedUsers = purchasedUsers'
      /\ snapshot'.activeSaleId = activeSaleId' /\ snapshot'.failures = failures'
      /\ snapshot'.archive = archive'
  BY <1>0 DEF SaveSnapshot, DataSet, vars, storeVars, redisVars
<1>3. SnapshotInv'
  <2>1. \A x \in Elements(failures') : KnownRecord(x)' /\ Repairable(x)'
    BY <1>1 DEF DurableInv, QueueInv, BackedInv
  <2>2. \A i \in DOMAIN archive' : Settled(archive[i].raw, archive[i].status)'
    BY <1>1 DEF DurableInv, RepairInv
  <2>. QED BY <1>1, <1>2, <2>1, <2>2 DEF SnapshotInv, DurableInv, TypeOK, StoresTypeOK, QueueInv,
                    SalesInv
<1>4. ASSUME NEW r \in Request, FailureRecord(r) \in Elements(failures)
      PROVE  Ended(r)
  <2>1. KnownRecord(FailureRecord(r))
    BY <1>0, <1>4 DEF DurableInv, BackedInv
  <2>2. FailureRecord(r) \notin enqueued
    BY <1>0, StoresAssumption DEF DurableInv, TypeOK, ReconcileTypeOK, FailureRecord
  <2>3. PICK q \in Request : Ended(q) /\ FailureRecord(r) = FailureRecord(q)
    BY <2>1, <2>2 DEF KnownRecord
  <2>4. r = q
    BY <2>3 DEF FailureRecord
  <2>. QED BY <2>3, <2>4
<1>5. UNCHANGED <<failures, purchases, granted, pc, saleId, user, cliPc, cliRaw>>
  BY <1>0 DEF vars, storeVars, redisVars, postgresVars, purchaseVars, requestVars,
              reconcileVars, workerVars
<1>6. SavedInv'
  BY <1>0, <1>4, <1>5 DEF SavedInv, Ended
<1>7. KeptInv'
  <2>1. PopInv' <=> PopInv
    BY <1>5 DEF PopInv
  <2>2. ASSUME NEW r \in saved', Cardinality(Worker) <= 1, ~caughtCli
        PROVE  Dealt(FailureRecord(r))' \/ FailureRecord(r)' \in Elements(failures')
    <3>1. PICK x : x = FailureRecord(r) /\ x = FailureRecord(r)'
      BY <1>5 DEF FailureRecord
    <3>2. Dealt(x) \/ x \in Elements(failures)
      BY <1>0, <2>2, <3>1 DEF KeptInv
    <3>3. Dealt(x)' \/ x \in Elements(failures')
      BY <1>5, <3>2, DealtStays
    <3>. QED BY <3>1, <3>3 DEF Dealt
  <2>. QED BY <1>0, <1>2, <2>1, <2>2 DEF KeptInv
<1>. QED BY <1>0, <1>1, <1>3, <1>6, <1>7 DEF RestartInv

\* A restart makes them one too, and no run is at its pop with an old head.
LEMMA Restarts == RestartInv /\ RedisRestarts => RestartInv'
<1>. SUFFICES ASSUME RestartInv, RedisRestarts PROVE RestartInv'
  OBVIOUS
<1>0. /\ TypeOK /\ GrantedInv /\ HandlerInv /\ BackedInv /\ RepairInv /\ QueueInv
      /\ OneSuccessPerSaleUser
      /\ SnapshotInv /\ SavedInv /\ KeptInv /\ caughtCli \in BOOLEAN
  BY DEF RestartInv, DurableInv
<1>1. /\ stock' = snapshot.stock /\ purchasedUsers' = snapshot.purchasedUsers
      /\ activeSaleId' = snapshot.activeSaleId /\ failures' = snapshot.failures
      /\ archive' = snapshot.archive /\ snapshot' = snapshot /\ saved' = saved
  BY DEF RedisRestarts
<1>2. /\ UNCHANGED <<sales, purchases, resets, faults>>
      /\ UNCHANGED <<apiSale, pc, user, now, saleId, response, granted, epoch, unrecorded>>
      /\ UNCHANGED <<initPc, initSale, initStock>>
      /\ UNCHANGED <<cliPc, cliRaw, cliStatus, cliLeft, enqueued>>
  BY DEF RedisRestarts, postgresVars, purchaseVars, requestVars, initVars,
         reconcileVars, workerVars
<1>3. \A x : KnownRecord(x) => KnownRecord(x)'
  BY <1>2 DEF KnownRecord, Ended, FailureRecord
<1>4. TypeOK'
  <2>1. StoresTypeOK'
    BY <1>0, <1>1, <1>2 DEF SnapshotInv, TypeOK, StoresTypeOK
  <2>2. PurchaseTypeOK' /\ InitSaleTypeOK' /\ ReconcileTypeOK'
    BY <1>0, <1>2 DEF TypeOK, PurchaseTypeOK, InitSaleTypeOK, ReconcileTypeOK,
                      IsMalformed, ParsedSale, ParsedUser, CanonicalUserId
  <2>. QED BY <2>1, <2>2 DEF TypeOK
<1>5. GrantedInv' /\ HandlerInv' /\ OneSuccessPerSaleUser'
  BY <1>0, <1>2 DEF GrantedInv, HandlerInv, HandlerOK, Booking, OneSuccessPerSaleUser
<1>6. BackedInv'
  <2>1. PurchasesBacked'
    BY <1>0, <1>2 DEF BackedInv, PurchasesBacked, Booking, ParsedSale, ParsedUser,
                      CanonicalUserId
  <2>2. \A x \in Elements(failures') : KnownRecord(x)'
    BY <1>0, <1>1, <1>3 DEF SnapshotInv
  <2>3. ASSUME NEW w \in Worker, cliPc'[w] \notin {"off", "read"}
        PROVE  KnownRecord(cliRaw[w])'
    <3>1. PICK x : x = cliRaw[w] /\ x = cliRaw'[w] /\ KnownRecord(x)
      BY <1>0, <1>2, <2>3 DEF BackedInv
    <3>. QED BY <1>3, <3>1 DEF KnownRecord
  <2>. QED BY <2>1, <2>2, <2>3 DEF BackedInv
<1>7. RepairInv'
  <2>1. \A raw, status : Settled(raw, status) => Settled(raw, status)'
    BY <1>2, SettledStays
  <2>2. ASSUME NEW i \in DOMAIN archive'
        PROVE  Settled(archive[i].raw, archive[i].status)'
    <3>1. PICK raw, status : /\ raw = archive'[i].raw /\ status = archive'[i].status
                             /\ Settled(raw, status)
      BY <1>0, <1>1 DEF SnapshotInv
    <3>2. Settled(raw, status)'
      BY <2>1, <3>1
    <3>. QED BY <3>1, <3>2 DEF Settled
  <2>3. ASSUME NEW w \in Worker, cliPc'[w] \in {"check", "pop"}
        PROVE  Settled(cliRaw[w], cliStatus[w])'
    <3>1. PICK raw, status : /\ raw = cliRaw'[w] /\ status = cliStatus'[w]
                             /\ Settled(raw, status)
      BY <1>0, <1>2, <2>3 DEF RepairInv
    <3>2. Settled(raw, status)'
      BY <2>1, <3>1
    <3>. QED BY <3>1, <3>2 DEF Settled
  <2>. QED BY <2>2, <2>3 DEF RepairInv
<1>8. QueueInv'
  <2>1. SalesInv'
    BY <1>0, <1>1, <1>2 DEF QueueInv, SalesInv, SnapshotInv
  <2>2. \A x \in Elements(failures') : Repairable(x)'
    BY <1>0, <1>1, <1>2 DEF SnapshotInv, Repairable, IsMalformed, ParsedSale,
                            ParsedUser, CanonicalUserId
  <2>. QED BY <2>1, <2>2 DEF QueueInv
<1>9. SnapshotInv'
  <2>1. ASSUME NEW i \in DOMAIN snapshot.archive
        PROVE  Settled(snapshot.archive[i].raw, snapshot.archive[i].status)'
    <3>1. PICK raw, status : /\ raw = snapshot.archive[i].raw
                             /\ status = snapshot.archive[i].status
                             /\ Settled(raw, status)
      BY <1>0 DEF SnapshotInv
    <3>2. Settled(raw, status)'
      BY <1>2, <3>1, SettledStays
    <3>. QED BY <1>1, <3>1, <3>2 DEF Settled
  <2>2. \A x \in Elements(snapshot.failures) : KnownRecord(x)' /\ Repairable(x)'
    BY <1>0, <1>2, <1>3 DEF SnapshotInv, Repairable, IsMalformed, ParsedSale,
                            ParsedUser, CanonicalUserId
  <2>. QED BY <1>0, <1>1, <1>2, <2>1, <2>2 DEF SnapshotInv
<1>10. SavedInv'
  BY <1>0, <1>1, <1>2 DEF SavedInv, Ended
<1>11. KeptInv'
  <2>. SUFFICES ASSUME Cardinality(Worker) <= 1, ~caughtCli'
                PROVE  /\ PopInv'
                       /\ \A r \in saved :
                            \/ Dealt(FailureRecord(r))'
                            \/ FailureRecord(r)' \in Elements(snapshot.failures)
    BY <1>1 DEF KeptInv
  <2>1. ~caughtCli /\ \A w \in Worker : cliPc[w] # "pop"
    BY <1>0 DEF RedisRestarts
  <2>2. PopInv'
    BY <1>2, <2>1 DEF PopInv
  <2>3. ASSUME NEW r \in saved
        PROVE  \/ Dealt(FailureRecord(r))'
               \/ FailureRecord(r)' \in Elements(snapshot.failures)
    <3>1. PICK x : x = FailureRecord(r) /\ x = FailureRecord(r)'
      BY <1>2 DEF FailureRecord
    <3>2. Dealt(x) \/ x \in Elements(snapshot.failures)
      BY <1>0, <2>1, <3>1 DEF KeptInv
    <3>3. Dealt(x)' \/ x \in Elements(snapshot.failures)
      BY <1>2, <3>2, DealtStays
    <3>. QED BY <3>1, <3>3 DEF Dealt
  <2>. QED BY <2>2, <2>3
<1>12. caughtCli' \in BOOLEAN
  BY DEF RedisRestarts
<1>. QED
  BY <1>4, <1>5, <1>6, <1>7, <1>8, <1>9, <1>10, <1>11, <1>12
  DEF RestartInv, DurableInv

LEMMA RestartInvariant == RestartSpec => []RestartInv
<1>1. RestartInv /\ [RestartNext]_restartingVars => RestartInv'
  BY ProcessSteps, Saves, Restarts DEF RestartNext, restartingVars
<1>. QED BY <1>1, RestartStarts, PTL DEF RestartSpec, restartingVars

-----------------------------------------------------------------------------

\* However often Redis restarts, and from however old a snapshot, what a
\* snapshot had saved is not lost, unless the restart met a CLI between its
\* check of the head and its pop (archivePurchasePersistenceFailure).
THEOREM SavedIsKept == RestartSpec => []RestartKeepsSaved
<1>1. RestartInv => RestartKeepsSaved
  <2>. SUFFICES ASSUME RestartInv, ~caughtCli, Cardinality(Worker) <= 1,
                       NEW r \in saved
                PROVE  Booking(r) \in purchases \/ FailureRecord(r) \in QueuedRecords
    BY DEF RestartKeepsSaved
  <2>1. Ended(r) /\ user[r] \in User
    BY DEF RestartInv, DurableInv, GrantedInv, SavedInv, Ended
  <2>2. ~IsMalformed(FailureRecord(r))
        /\ (Persisted(FailureRecord(r)) <=> Booking(r) \in purchases)
    BY <2>1, OwnRecord DEF Ended
  <2>3. Dealt(FailureRecord(r)) \/ FailureRecord(r) \in Elements(failures)
    BY DEF RestartInv, KeptInv
  <2>. QED BY <2>2, <2>3 DEF Dealt, QueuedRecords, Elements
<1>. QED BY <1>1, RestartInvariant, PTL

\* What the customer was told when Redis remembered them holds when it does not:
\* their row stays, and nobody has two for one sale (createPurchase and the
\* constraints of schema.sql are all in Postgres).
THEOREM SuccessOutlivesRedis == RestartSpec => []SuccessSurvives
<1>1. RestartInv => SuccessSurvives
  BY DEF RestartInv, DurableInv, HandlerInv, HandlerOK, SuccessSurvives
<1>. QED BY <1>1, RestartInvariant, PTL

\* Nor does a restart bring a row that nobody asked for, an archive line that is
\* not true, or a record of the API that no repair can persist: what comes back
\* from the volume speaks of sales and rows that Postgres still has
\* (repairPurchasePersistenceFailure, resolveActiveSaleId).
THEOREM RecordsOutliveRedis ==
  RestartSpec => [](PurchasesBacked /\ ArchivedIsPersisted /\ QueuedIsRepairable)
<1>1. RestartInv => PurchasesBacked
  BY DEF RestartInv, DurableInv, BackedInv
<1>2. RestartInv => ArchivedIsPersisted
  BY DEF RestartInv, DurableInv, RepairInv, Settled, ArchivedIsPersisted, Persisted,
         FindPurchaseBySaleIdAndUserId
<1>3. RestartInv => QueuedIsRepairable
  BY DEF RestartInv, DurableInv, QueueInv, Repairable, QueuedIsRepairable, Elements
<1>. QED BY <1>1, <1>2, <1>3, RestartInvariant, PTL

=============================================================================
