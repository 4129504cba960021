---------------------------- MODULE BookingProofs ----------------------------
(***************************************************************************)
(* Theorems about what follows the gate: the answers, the rows and the     *)
(* records.  They rest on the gate's invariant of FlashSaleProofs.         *)
(***************************************************************************)
EXTENDS FlashSaleProofs

-----------------------------------------------------------------------------
(* The steps of the API process: its own, and those of one handler.        *)

ProcessStep == (\E d \in Sale : StartServer(d)) \/ StopServer \/ CrashServer

Moves(r) ==
  \/ \E raw \in RawUserId :
       RejectUserId(r, raw) \/ \E t \in Instant : ReceivePurchase(r, raw, t)
  \/ HandlerStep(r)
  \/ HandlerFault(r)

LEMMA PurchaseCases == PurchaseNext <=> ProcessStep \/ \E r \in Request : Moves(r)
BY DEF PurchaseNext, ProcessStep, Moves

\* What the gate's invariant says of the requests alone: it needs no Redis.
GrantedInv ==
  \A r \in granted : user[r] \in User /\ pc[r] \notin {"idle", "script"}

LEMMA GateGranted == GateInv => GrantedInv
BY DEF GateInv, GrantedInv

-----------------------------------------------------------------------------
(* The handler of one request.                                             *)

\* What holds of r wherever its handler stands: it is answered only at the
\* end, "success" means a row, past the script it was granted, and it has no
\* sale before it has resolved one.
HandlerOK(r) ==
  /\ response[r] # "none" => pc[r] = "done"
  /\ response[r] = "success" => Booking(r) \in purchases
  /\ pc[r] \notin {"idle", "script", "done"} => r \in granted
  /\ pc[r] \in {"idle", "script", "resolve", "ensure"} => saleId[r] = NoSale

HandlerInv == \A r \in Request : HandlerOK(r)

LEMMA HandlerInit == Init => HandlerInv
BY DEF Init, PurchaseInit, HandlerInv, HandlerOK

\* A request whose handler does not move keeps its part of the invariant: rows
\* and grants are never taken back.
LEMMA HandlerFrame ==
  ASSUME NEW q \in Request, HandlerOK(q),
         purchases \subseteq purchases', granted \subseteq granted',
         pc'[q] = pc[q], response'[q] = response[q],
         saleId'[q] = saleId[q], user'[q] = user[q]
  PROVE  HandlerOK(q)'
BY DEF HandlerOK, Booking

\* Neither the init script nor the CLI moves a handler, or takes a row back.
LEMMA OthersKeepRows ==
  ASSUME InitSaleNext \/ ReconcileNext
  PROVE  purchases \subseteq purchases'
<1>1. CASE InitSaleNext
  BY <1>1 DEF InitSaleNext, InitStep, StartInit, EnsureConfiguredSale,
              ResetConfiguredSale, BareReset, ResetSaleState, InitFails,
              storeVars, postgresVars
<1>2. CASE ReconcileNext
  BY <1>2 DEF ReconcileNext, CliStep, EnqueueExternal, StartReconcile,
              FinishReconcile, ReadHead, FindPersisted, CreateMissing,
              InsertPurchase, CreateConflicts, CreateRejected, RefindPersisted,
              CheckHead, PopHead, CliFails, ArchiveAndPop, storeVars, postgresVars
<1>. QED BY <1>1, <1>2

\* Nor does a handler: rows and grants only grow, whatever it does.
LEMMA HandlersKeepRows ==
  ASSUME PurchaseNext
  PROVE  purchases \subseteq purchases' /\ granted \subseteq granted'
<1>. USE DEF storeVars, postgresVars, requestVars, ScriptEffect, AddUser,
             InsertPurchase, BookingUnchanged
<1>1. CASE ProcessStep
  BY <1>1 DEF ProcessStep, StartServer, StopServer, CrashServer
<1>2. ASSUME NEW r \in Request, NEW raw \in RawUserId,
             RejectUserId(r, raw) \/ \E t \in Instant : ReceivePurchase(r, raw, t)
      PROVE  purchases \subseteq purchases' /\ granted \subseteq granted'
  BY <1>2 DEF RejectUserId, ReceivePurchase
<1>3. ASSUME NEW r \in Request, HandlerStep(r)
      PROVE  purchases \subseteq purchases' /\ granted \subseteq granted'
  BY <1>3 DEF HandlerStep, GrantPurchase, RefusePurchase, ReadActiveSaleId,
              EnsureActiveSale, CacheActiveSaleId, SetActiveSaleId,
              PersistPurchase, PersistRejected, RecordFailure
<1>4. ASSUME NEW r \in Request, HandlerFault(r)
      PROVE  purchases \subseteq purchases' /\ granted \subseteq granted'
  BY <1>4 DEF HandlerFault, ScriptUnavailable, ScriptReplyLost, ResolveFails,
              SetActiveSaleId, PersistFails, RecordFailureFails
<1>. QED BY <1>1, <1>2, <1>3, <1>4, PurchaseCases DEF Moves

\* One handler moves at a time.
LEMMA OneHandlerMoves ==
  ASSUME PurchaseTypeOK, NEW r \in Request,
         Moves(r),
         NEW q \in Request, q # r
  PROVE  /\ pc'[q] = pc[q] /\ response'[q] = response[q]
         /\ saleId'[q] = saleId[q] /\ user'[q] = user[q]
         /\ epoch'[q] = epoch[q] /\ (q \in granted' <=> q \in granted)
<1>. USE DEF PurchaseTypeOK, GoTo, Reply, ScriptEffect, SetActiveSaleId,
             BookingUnchanged
<1>1. CASE \E raw \in RawUserId :
             RejectUserId(r, raw) \/ \E t \in Instant : ReceivePurchase(r, raw, t)
  BY <1>1 DEF RejectUserId, ReceivePurchase
<1>2. CASE GrantPurchase(r) \/ RefusePurchase(r) \/ ScriptReplyLost(r)
  BY <1>2 DEF GrantPurchase, RefusePurchase, ScriptReplyLost
<1>3. CASE \/ ScriptUnavailable(r) \/ ReadActiveSaleId(r) \/ EnsureActiveSale(r)
           \/ CacheActiveSaleId(r) \/ ResolveFails(r)
  BY <1>3 DEF ScriptUnavailable, ReadActiveSaleId, EnsureActiveSale,
              CacheActiveSaleId, ResolveFails
<1>4. CASE \/ PersistPurchase(r) \/ PersistRejected(r) \/ PersistFails(r)
           \/ RecordFailure(r) \/ RecordFailureFails(r)
  BY <1>4 DEF PersistPurchase, PersistRejected, PersistFails, RecordFailure,
              RecordFailureFails
<1>. QED BY <1>1, <1>2, <1>3, <1>4 DEF Moves, HandlerStep, HandlerFault

\* r's own handler keeps r's part.
LEMMA HandlerMoves ==
  ASSUME StoresTypeOK, PurchaseTypeOK, NEW r \in Request, HandlerOK(r), Moves(r)
  PROVE  HandlerOK(r)'
<1>. USE DEF HandlerOK, PurchaseTypeOK, GoTo, Reply
<1>1. CASE \E raw \in RawUserId :
             RejectUserId(r, raw) \/ \E t \in Instant : ReceivePurchase(r, raw, t)
  BY <1>1 DEF RejectUserId, ReceivePurchase
<1>2. CASE GrantPurchase(r)
  BY <1>2 DEF GrantPurchase, ScriptEffect
<1>3. CASE RefusePurchase(r)
  <2>1. ScriptResult(r) \in PurchaseScriptResults \ {"SUCCESS"}
    BY <1>3, ScriptResults DEF RefusePurchase
  <2>2. PURCHASE_STATUS_BY_SCRIPT_RESULT[ScriptResult(r)] # "success"
    BY <2>1 DEF PURCHASE_STATUS_BY_SCRIPT_RESULT, PurchaseScriptResults
  <2>. QED BY <1>3, <2>2 DEF RefusePurchase, ScriptEffect
<1>4. CASE ScriptUnavailable(r) \/ ScriptReplyLost(r)
  BY <1>4 DEF ScriptUnavailable, ScriptReplyLost, ScriptEffect
<1>5. CASE ReadActiveSaleId(r) \/ EnsureActiveSale(r)
  BY <1>5 DEF ReadActiveSaleId, EnsureActiveSale, PcAfterCacheMiss
<1>6. CASE CacheActiveSaleId(r) \/ ResolveFails(r)
  BY <1>6 DEF CacheActiveSaleId, ResolveFails, SetActiveSaleId
<1>7. CASE PersistPurchase(r)
  BY <1>7 DEF PersistPurchase, InsertPurchase, Booking, BookingUnchanged
<1>8. CASE \/ PersistRejected(r) \/ PersistFails(r)
           \/ RecordFailure(r) \/ RecordFailureFails(r)
  BY <1>8 DEF PersistRejected, PersistFails, RecordFailure, RecordFailureFails,
              BookingUnchanged
<1>. QED BY <1>1, <1>2, <1>3, <1>4, <1>5, <1>6, <1>7, <1>8
         DEF Moves, HandlerStep, HandlerFault

\* The process: start and stop touch no handler, a crash ends them all.
LEMMA HandlerProcess ==
  ASSUME NEW q \in Request, HandlerOK(q), PurchaseTypeOK,
         ProcessStep
  PROVE  HandlerOK(q)'
<1>1. CASE (\E d \in Sale : StartServer(d)) \/ StopServer
  BY <1>1 DEF StartServer, StopServer, requestVars, storeVars, postgresVars,
              HandlerOK, Booking
<1>2. CASE CrashServer
  BY <1>2 DEF CrashServer, InFlight, postgresVars, HandlerOK, Booking,
              PurchaseTypeOK
<1>. QED BY <1>1, <1>2 DEF ProcessStep

LEMMA HandlerNext == TypeOK /\ HandlerInv /\ [Next]_vars => HandlerInv'
<1>. SUFFICES ASSUME TypeOK, HandlerInv, [Next]_vars, NEW q \in Request
              PROVE  HandlerOK(q)'
  BY DEF HandlerInv
<1>0. HandlerOK(q)
  BY DEF HandlerInv
<1>1. CASE PurchaseNext
  <2>1. CASE ProcessStep
    BY <1>0, <2>1, HandlerProcess DEF TypeOK
  <2>2. ASSUME NEW r \in Request, Moves(r)
        PROVE  HandlerOK(q)'
    <3>1. CASE q = r
      BY <1>0, <2>2, <3>1, HandlerMoves DEF TypeOK
    <3>2. CASE q # r
      BY <1>0, <1>1, <2>2, <3>2, OneHandlerMoves, HandlersKeepRows, HandlerFrame
      DEF TypeOK
    <3>. QED BY <3>1, <3>2
  <2>. QED BY <1>1, <2>1, <2>2, PurchaseCases
<1>2. CASE (InitSaleNext \/ ReconcileNext) /\ UNCHANGED purchaseVars
  BY <1>0, <1>2, OthersKeepRows, HandlerFrame DEF purchaseVars, requestVars
<1>3. CASE UNCHANGED vars
  BY <1>0, <1>3, HandlerFrame
  DEF vars, storeVars, postgresVars, purchaseVars, requestVars
<1>. QED BY <1>1, <1>2, <1>3 DEF Next

LEMMA HandlerInvariant == Spec => []HandlerInv
<1>. QED BY HandlerInit, HandlerNext, TypeCorrect, PTL DEF Spec

-----------------------------------------------------------------------------
(* One success for a sale and a user.                                      *)

\* Only an insert answers "success", and it inserts what was not there.
LEMMA SuccessIsInsert ==
  ASSUME PurchaseTypeOK, StoresTypeOK, NEW r \in Request, HandlerOK(r), Moves(r),
         response'[r] = "success"
  PROVE  Booking(r)' \notin purchases
<1>. USE DEF HandlerOK, PurchaseTypeOK, GoTo, Reply
<1>1. CASE \E raw \in RawUserId :
             RejectUserId(r, raw) \/ \E t \in Instant : ReceivePurchase(r, raw, t)
  BY <1>1 DEF RejectUserId, ReceivePurchase
<1>2. CASE GrantPurchase(r)
  BY <1>2 DEF GrantPurchase
<1>3. CASE RefusePurchase(r)
  <2>1. ScriptResult(r) \in PurchaseScriptResults \ {"SUCCESS"}
    BY <1>3, ScriptResults DEF RefusePurchase
  <2>2. PURCHASE_STATUS_BY_SCRIPT_RESULT[ScriptResult(r)] # "success"
    BY <2>1 DEF PURCHASE_STATUS_BY_SCRIPT_RESULT, PurchaseScriptResults
  <2>. QED BY <1>3, <2>2 DEF RefusePurchase
<1>4. CASE PersistPurchase(r)
  BY <1>4 DEF PersistPurchase, InsertOutcome, Booking, BookingUnchanged
<1>5. CASE HandlerFault(r)
  BY <1>5 DEF HandlerFault, ScriptUnavailable, ScriptReplyLost, ResolveFails,
              PersistFails, RecordFailureFails
<1>6. CASE \/ ReadActiveSaleId(r) \/ EnsureActiveSale(r) \/ CacheActiveSaleId(r)
           \/ PersistRejected(r) \/ RecordFailure(r)
  BY <1>6 DEF ReadActiveSaleId, EnsureActiveSale, CacheActiveSaleId,
              PersistRejected, RecordFailure
<1>. QED BY <1>1, <1>2, <1>3, <1>4, <1>5, <1>6 DEF Moves, HandlerStep

LEMMA OneSuccessNext ==
  TypeOK /\ HandlerInv /\ OneSuccessPerSaleUser /\ [Next]_vars
    => OneSuccessPerSaleUser'
<1>. SUFFICES ASSUME TypeOK, HandlerInv, OneSuccessPerSaleUser, [Next]_vars,
                     NEW p \in Request, NEW q \in Request,
                     response'[p] = "success", response'[q] = "success",
                     Booking(p)' = Booking(q)'
              PROVE  p = q
  BY DEF OneSuccessPerSaleUser
<1>0. /\ HandlerOK(p) /\ HandlerOK(q) /\ PurchaseTypeOK /\ StoresTypeOK
      /\ response[p] = "success" /\ response[q] = "success"
           /\ Booking(p) = Booking(q) => p = q
  BY DEF HandlerInv, TypeOK, OneSuccessPerSaleUser
<1>1. CASE PurchaseNext
  <2>1. CASE ProcessStep
    BY <1>0, <2>1 DEF ProcessStep, StartServer, StopServer, CrashServer,
                      requestVars, InFlight, HandlerOK, PurchaseTypeOK, Booking
  <2>2. ASSUME NEW r \in Request, Moves(r), p # q PROVE FALSE
    <3>1. ASSUME NEW a \in Request, NEW b \in Request, a = r, b # r,
                 HandlerOK(a), HandlerOK(b),
                 response'[a] = "success", response'[b] = "success",
                 Booking(a)' = Booking(b)'
          PROVE  FALSE
      <4>1. response[b] = "success" /\ Booking(b)' = Booking(b)
        BY <1>0, <2>2, <3>1, OneHandlerMoves DEF Booking
      <4>2. Booking(b) \in purchases
        BY <3>1, <4>1 DEF HandlerOK
      <4>3. Booking(a)' \notin purchases
        BY <1>0, <2>2, <3>1, SuccessIsInsert
      <4>. QED BY <3>1, <4>1, <4>2, <4>3
    <3>2. CASE p # r /\ q # r
      BY <1>0, <2>2, <3>2, OneHandlerMoves DEF Booking
    <3>. QED BY <1>0, <2>2, <3>1, <3>2
  <2>. QED BY <1>1, <2>1, <2>2, PurchaseCases
<1>2. CASE UNCHANGED purchaseVars
  BY <1>0, <1>2 DEF purchaseVars, requestVars, Booking
<1>. QED BY <1>1, <1>2 DEF Next, vars

\* Nobody is told "success" twice for one sale, across any number of resets of
\* the gate (createPurchase and purchases_sale_id_user_id_key).
THEOREM OneSuccessEach == Spec => []OneSuccessPerSaleUser
<1>1. Init => OneSuccessPerSaleUser
  BY DEF Init, PurchaseInit, OneSuccessPerSaleUser
<1>. QED BY <1>1, OneSuccessNext, TypeCorrect, HandlerInvariant, PTL DEF Spec

-----------------------------------------------------------------------------
(* Refusals.                                                               *)

\* What every step preserves: resets, grants and rows are only added to, and a
\* granted request keeps its user and the reset it was granted in.
LEMMA HistoryGrows ==
  ASSUME TypeOK, GrantedInv, [Next]_vars
  PROVE  /\ Len(resets) \in Nat /\ Len(resets') \in Nat
         /\ Len(resets) <= Len(resets')
         /\ \A e \in 1 .. Len(resets) : resets'[e] = resets[e]
         /\ granted \subseteq granted'
         /\ purchases \subseteq purchases'
         /\ \A p \in granted : user'[p] = user[p] /\ epoch'[p] = epoch[p]
<1>0. /\ StoresTypeOK /\ PurchaseTypeOK /\ resets \in Seq([sale : Sale \cup {NoSale}, stock : Nat])
      /\ \A p \in granted : p \in Request /\ pc[p] \notin {"idle", "script"}
  BY DEF TypeOK, StoresTypeOK, PurchaseTypeOK, GrantedInv
<1>1. CASE PurchaseNext
  <2>1. resets' = resets
    <3>1. CASE ProcessStep
      BY <3>1 DEF ProcessStep, StartServer, StopServer, CrashServer, storeVars
    <3>2. ASSUME NEW r \in Request, Moves(r) PROVE resets' = resets
      BY <3>2 DEF Moves, RejectUserId, ReceivePurchase, HandlerStep, GrantPurchase,
        RefusePurchase, ReadActiveSaleId, EnsureActiveSale, CacheActiveSaleId,
        PersistPurchase, PersistRejected, RecordFailure, HandlerFault,
        ScriptUnavailable, ScriptReplyLost, ResolveFails, PersistFails,
        RecordFailureFails, ScriptEffect, SetActiveSaleId, BookingUnchanged,
        gateVars, storeVars
    <3>. QED BY <1>1, <3>1, <3>2, PurchaseCases
  <2>2. \A p \in granted : user'[p] = user[p] /\ epoch'[p] = epoch[p]
    <3>1. CASE ProcessStep
      BY <3>1 DEF ProcessStep, StartServer, StopServer, CrashServer, requestVars
    <3>2. ASSUME NEW r \in Request, Moves(r), NEW p \in granted
          PROVE  user'[p] = user[p] /\ epoch'[p] = epoch[p]
      <4>1. CASE p # r
        BY <1>0, <3>2, <4>1, OneHandlerMoves
      <4>2. CASE p = r
        BY <1>0, <3>2, <4>2
        DEF Moves, RejectUserId, ReceivePurchase, HandlerStep, GrantPurchase,
          RefusePurchase, ReadActiveSaleId, EnsureActiveSale, CacheActiveSaleId,
          PersistPurchase, PersistRejected, RecordFailure, HandlerFault,
          ScriptUnavailable, ScriptReplyLost, ResolveFails, PersistFails,
          RecordFailureFails, SetActiveSaleId, BookingUnchanged
      <4>. QED BY <4>1, <4>2
    <3>. QED BY <1>1, <3>1, <3>2, PurchaseCases
  <2>. QED BY <1>0, <1>1, <2>1, <2>2, HandlersKeepRows
<1>2. CASE (InitSaleNext \/ ReconcileNext) /\ UNCHANGED purchaseVars
  <2>1. \/ resets' = resets
        \/ \E m \in Nat, s \in Sale \cup {NoSale} :
             resets' = Append(resets, [sale |-> s, stock |-> m])
    <3>1. CASE ReconcileNext
      BY <3>1 DEF ReconcileNext, CliStep, EnqueueExternal, StartReconcile,
        FinishReconcile, ReadHead, FindPersisted, CreateMissing, CreateConflicts,
        CreateRejected, RefindPersisted, CheckHead, PopHead, CliFails,
        ArchiveAndPop, gateVars, storeVars
    <3>2. ASSUME NEW i \in InitProc, InitStep(i), ~ResetConfiguredSale(i)
          PROVE  resets' = resets
      BY <3>2 DEF InitStep, StartInit, EnsureConfiguredSale, InitFails, storeVars
    <3>3. ASSUME NEW i \in InitProc, ResetConfiguredSale(i)
          PROVE  \E m \in Nat, s \in Sale \cup {NoSale} :
                   resets' = Append(resets, [sale |-> s, stock |-> m])
      BY <3>3 DEF ResetConfiguredSale, ResetSaleState, TypeOK, InitSaleTypeOK
    <3>4. ASSUME NEW k \in StockAfterBareReset, BareReset(k)
          PROVE  \E m \in Nat, s \in Sale \cup {NoSale} :
                   resets' = Append(resets, [sale |-> s, stock |-> m])
      <4>1. k \in Nat
        BY StoresAssumption, InitAssumption DEF StockAfterBareReset
      <4>. QED BY <3>4, <4>1 DEF BareReset, ResetSaleState
    <3>. QED BY <1>2, <3>1, <3>2, <3>3, <3>4 DEF InitSaleNext
  <2>2. /\ Len(resets) \in Nat /\ Len(resets') \in Nat
        /\ Len(resets) <= Len(resets')
        /\ \A e \in 1 .. Len(resets) : resets'[e] = resets[e]
    <3>1. CASE resets' = resets
      BY <1>0, <3>1
    <3>2. ASSUME NEW m \in Nat, NEW s \in Sale \cup {NoSale},
                 resets' = Append(resets, [sale |-> s, stock |-> m])
          PROVE  /\ Len(resets) \in Nat /\ Len(resets') \in Nat
                 /\ Len(resets) <= Len(resets')
                 /\ \A e \in 1 .. Len(resets) : resets'[e] = resets[e]
      BY <1>0, <3>2
    <3>. QED BY <2>1, <3>1, <3>2
  <2>. QED BY <1>2, <2>2, OthersKeepRows DEF purchaseVars, requestVars
<1>3. CASE UNCHANGED vars
  BY <1>0, <1>3 DEF vars, storeVars, postgresVars, purchaseVars, requestVars
<1>. QED BY <1>1, <1>2, <1>3 DEF Next

\* The script grants a request that has its user, and moves it on.
LEMMA GrantedNext == TypeOK /\ GrantedInv /\ [Next]_vars => GrantedInv'
<1>. SUFFICES ASSUME TypeOK, GrantedInv, [Next]_vars, NEW q \in granted'
              PROVE  user'[q] \in User /\ pc'[q] \notin {"idle", "script"}
  BY DEF GrantedInv
<1>0. /\ PurchaseTypeOK /\ granted \subseteq Request
      /\ q \in granted => user[q] \in User /\ pc[q] \notin {"idle", "script"}
  BY DEF TypeOK, PurchaseTypeOK, GrantedInv
<1>1. CASE PurchaseNext
  <2>1. CASE ProcessStep
    BY <1>0, <2>1 DEF ProcessStep, StartServer, StopServer, CrashServer,
                      requestVars, PurchaseTypeOK
  <2>2. ASSUME NEW r \in Request, Moves(r), q # r
        PROVE  user'[q] \in User /\ pc'[q] \notin {"idle", "script"}
    <3>1. q \in Request
      BY <1>0, <2>2
      DEF Moves, RejectUserId, ReceivePurchase, HandlerStep, GrantPurchase,
        RefusePurchase, ReadActiveSaleId, EnsureActiveSale, CacheActiveSaleId,
        PersistPurchase, PersistRejected, RecordFailure, HandlerFault,
        ScriptUnavailable, ScriptReplyLost, ResolveFails, PersistFails,
        RecordFailureFails, ScriptEffect, SetActiveSaleId, BookingUnchanged
    <3>. QED BY <1>0, <2>2, <3>1, OneHandlerMoves
  <2>3. CASE Moves(q) /\ q \in Request
    BY <1>0, <2>3
    DEF Moves, RejectUserId, ReceivePurchase, HandlerStep, GrantPurchase,
      RefusePurchase, ReadActiveSaleId, EnsureActiveSale, CacheActiveSaleId,
      PersistPurchase, PersistRejected, RecordFailure, HandlerFault,
      ScriptUnavailable, ScriptReplyLost, ResolveFails, PersistFails,
      RecordFailureFails, ScriptEffect, SetActiveSaleId, BookingUnchanged,
      GoTo, Reply, PcAfterCacheMiss, PurchaseTypeOK
  <2>. QED BY <1>1, <2>1, <2>2, <2>3, PurchaseCases
<1>2. CASE UNCHANGED purchaseVars
  BY <1>0, <1>2 DEF purchaseVars, requestVars
<1>. QED BY <1>1, <1>2 DEF Next, vars

\* Grants are only added to, and are in number what their reset allows.
LEMMA GrantsGrow ==
  ASSUME TypeOK, GrantedInv, [Next]_vars, NEW e
  PROVE  /\ Grants(e) \subseteq Grants(e)'
         /\ \A p \in Grants(e) : user'[p] = user[p]
BY HistoryGrows DEF Grants

\* What RejectionsJustified says of one request.
RefusalOK(r) ==
  /\ response[r] = "sold_out" =>
       \/ epoch[r] = 0
       \/ Cardinality(Grants(epoch[r])) = resets[epoch[r]].stock
  /\ response[r] = "already_purchased" =>
       \E q \in Grants(epoch[r]) : q # r /\ user[q] = user[r]

\* A refusal stays justified: a reset that is sold out cannot be granted from.
LEMMA RefusalFrame ==
  ASSUME TypeOK, GateInv, [Next]_vars, TypeOK', GateInv',
         NEW r \in Request, RefusalOK(r),
         response'[r] = response[r] \/ response'[r] \notin {"sold_out", "already_purchased"},
         response'[r] \in {"sold_out", "already_purchased"} =>
           epoch'[r] = epoch[r] /\ user'[r] = user[r]
  PROVE  RefusalOK(r)'
<1>1. ASSUME response'[r] = "sold_out", epoch'[r] # 0
      PROVE  Cardinality(Grants(epoch[r])') = resets'[epoch'[r]].stock
  <2>1. PICK e : e = epoch[r] /\ e = epoch'[r]
    BY <1>1
  <2>2. /\ e \in 1 .. Len(resets) /\ e \in 1 .. Len(resets')
        /\ resets'[e] = resets[e]
    <3>1. e \in 0 .. Len(resets) /\ e # 0
      BY <1>1, <2>1 DEF GateInv
    <3>2. /\ Len(resets) \in Nat /\ Len(resets') \in Nat
          /\ Len(resets) <= Len(resets')
          /\ \A k \in 1 .. Len(resets) : resets'[k] = resets[k]
      BY HistoryGrows, GateGranted
    <3>. QED BY <3>1, <3>2
  <2>3. Cardinality(Grants(e)) = resets[e].stock
    BY <1>1, <2>1 DEF RefusalOK
  <2>4. Cardinality(Grants(e)') <= resets'[e].stock
    BY <2>2 DEF GateInv, GateConservation
  <2>5. Grants(e)' \subseteq Request
    BY DEF Grants, TypeOK, PurchaseTypeOK
  <2>6. IsFiniteSet(Grants(e)') /\ Cardinality(Grants(e)') \in Nat
    BY <2>5, FS_Subset, FS_CardinalityType, StoresAssumption
  <2>7. Cardinality(Grants(e)) <= Cardinality(Grants(e)')
    BY <2>6, GrantsGrow, GateGranted, FS_Subset
  <2>8. Cardinality(Grants(e)) \in Nat
    BY GrantsFinite DEF TypeOK
  <2>9. Grants(epoch[r])' = Grants(e)'
    BY <2>1 DEF Grants
  <2>. QED BY <2>1, <2>2, <2>3, <2>4, <2>6, <2>7, <2>8, <2>9
<1>2. ASSUME response'[r] = "already_purchased"
      PROVE  \E q \in Grants(epoch[r])' : q # r /\ user'[q] = user'[r]
  <2>1. PICK q \in Grants(epoch[r]) : q # r /\ user[q] = user[r]
    BY <1>2 DEF RefusalOK
  <2>. QED BY <1>2, <2>1, GrantsGrow, GateGranted
<1>. QED BY <1>1, <1>2 DEF RefusalOK, Grants

LEMMA StatusOfResult ==
  /\ PURCHASE_STATUS_BY_SCRIPT_RESULT["SUCCESS"] = "success"
  /\ PURCHASE_STATUS_BY_SCRIPT_RESULT["ALREADY_PURCHASED"] = "already_purchased"
  /\ PURCHASE_STATUS_BY_SCRIPT_RESULT["SOLD_OUT"] = "sold_out"
  /\ PURCHASE_STATUS_BY_SCRIPT_RESULT["NOT_STARTED"] = "sale_not_started"
  /\ PURCHASE_STATUS_BY_SCRIPT_RESULT["ENDED"] = "sale_ended"
BY Zenon DEF PURCHASE_STATUS_BY_SCRIPT_RESULT, PurchaseScriptResults

\* A refusal is justified when the script makes it.
LEMMA RefusalMade ==
  ASSUME TypeOK, GateInv, NEW r \in Request, RefusePurchase(r), TypeOK'
  PROVE  RefusalOK(r)'
<1>. DEFINE n == Len(resets)
<1>0. /\ StoresTypeOK /\ PurchaseTypeOK
      /\ pc[r] = "script" /\ r \notin granted /\ granted \subseteq Request
      /\ n \in Nat /\ resets' = resets /\ user' = user /\ granted' = granted
      /\ epoch' = [epoch EXCEPT ![r] = n]
  BY DEF RefusePurchase, ScriptEffect, TypeOK, StoresTypeOK, PurchaseTypeOK, GateInv
<1>1. epoch'[r] = n /\ Grants(n)' = Grants(n)
  BY <1>0 DEF Grants, PurchaseTypeOK
<1>2. /\ ScriptResult(r) \in PurchaseScriptResults
      /\ response'[r] = PURCHASE_STATUS_BY_SCRIPT_RESULT[ScriptResult(r)]
  BY <1>0, ScriptResults DEF RefusePurchase, Reply, PurchaseTypeOK
<1>3. ASSUME response'[r] = "sold_out", n # 0
      PROVE  Cardinality(Grants(n)) = resets[n].stock
  <2>1. ScriptResult(r) = "SOLD_OUT"
    BY <1>2, <1>3, StatusOfResult DEF PurchaseScriptResults
  <2>2. stock = NoStock \/ stock = 0
    BY <1>0, <2>1, ScriptResults
  <2>3. resets # <<>>
    BY <1>0, <1>3 DEF StoresTypeOK
  <2>4. stock \in Nat /\ stock + Cardinality(Grants(n)) = resets[n].stock
    BY <2>3 DEF GateInv, GateConservation
  <2>5. Cardinality(Grants(n)) \in Nat
    BY <1>0, GrantsFinite
  <2>. QED BY <2>2, <2>4, <2>5, NoStockAssumption
<1>4. ASSUME response'[r] = "already_purchased"
      PROVE  \E q \in Grants(n) : q # r /\ user[q] = user[r]
  <2>1. ScriptResult(r) = "ALREADY_PURCHASED"
    BY <1>2, <1>4, StatusOfResult DEF PurchaseScriptResults
  <2>2. user[r] \in purchasedUsers
    BY <1>0, <2>1, ScriptResults
  <2>3. PICK q \in Grants(n) : user[q] = user[r]
    BY <2>2 DEF GateInv
  <2>. QED BY <1>0, <2>3 DEF Grants
<1>. QED BY <1>0, <1>1, <1>3, <1>4 DEF RefusalOK, Grants

LEMMA RefusalNext ==
  TypeOK /\ GateInv /\ HandlerInv /\ RejectionsJustified /\ [Next]_vars
    /\ TypeOK' /\ GateInv' => RejectionsJustified'
<1>. SUFFICES ASSUME TypeOK, GateInv, HandlerInv, RejectionsJustified, [Next]_vars,
                     TypeOK', GateInv', NEW q \in Request
              PROVE  RefusalOK(q)'
  BY DEF RejectionsJustified, RefusalOK
<1>0. RefusalOK(q) /\ HandlerOK(q) /\ PurchaseTypeOK /\ StoresTypeOK
  BY DEF RejectionsJustified, RefusalOK, HandlerInv, TypeOK
<1>1. CASE PurchaseNext
  <2>1. CASE ProcessStep
    <3>1. /\ response'[q] = response[q] \/ response'[q] = "dropped"
          /\ epoch' = epoch /\ user' = user
      BY <1>0, <2>1 DEF ProcessStep, StartServer, StopServer, CrashServer,
                        requestVars, PurchaseTypeOK
    <3>. QED BY <1>0, <3>1, RefusalFrame
  <2>2. ASSUME NEW r \in Request, Moves(r) PROVE RefusalOK(q)'
    <3>1. CASE q # r
      BY <1>0, <2>2, <3>1, OneHandlerMoves, RefusalFrame
    <3>2. CASE q = r /\ RefusePurchase(r)
      BY <3>2, RefusalMade
    <3>3. CASE q = r /\ ~RefusePurchase(r)
      <4>1. response'[q] \notin {"sold_out", "already_purchased"}
        BY <1>0, <2>2, <3>3
        DEF Moves, RejectUserId, ReceivePurchase, HandlerStep, GrantPurchase,
          ReadActiveSaleId, EnsureActiveSale, CacheActiveSaleId,
          PersistPurchase, PersistRejected, RecordFailure, HandlerFault,
          ScriptUnavailable, ScriptReplyLost, ResolveFails, PersistFails,
          RecordFailureFails, GoTo, Reply, HandlerOK, PurchaseTypeOK
      <4>. QED BY <1>0, <4>1, RefusalFrame
    <3>. QED BY <3>1, <3>2, <3>3
  <2>. QED BY <1>1, <2>1, <2>2, PurchaseCases
<1>2. CASE UNCHANGED purchaseVars
  BY <1>0, <1>2, RefusalFrame DEF purchaseVars, requestVars
<1>. QED BY <1>1, <1>2 DEF Next, vars

\* A refusal is right for ever: "sold out" only when that reset's stock went to
\* the last item, "already purchased" only when another request of the user was
\* granted since that reset (the order of the tests in purchase.lua, and the
\* reset of init-sale.js, which empties the buyers with the stock).
THEOREM RefusalsJustified == Spec => []RejectionsJustified
<1>1. Init => RejectionsJustified
  BY DEF Init, PurchaseInit, RejectionsJustified
<1>. QED
  BY <1>1, RefusalNext, TypeCorrect, GateInvariant, HandlerInvariant, PTL DEF Spec

-----------------------------------------------------------------------------
(* Sequences as the failure list uses them.                                *)

Elements(s) == {s[i] : i \in DOMAIN s}

LEMMA ElementsOfAppend ==
  ASSUME NEW S, NEW s \in Seq(S), NEW x
  PROVE  Elements(Append(s, x)) = Elements(s) \cup {x}
<1>1. /\ DOMAIN s = 1 .. Len(s) /\ Len(s) \in Nat
      /\ DOMAIN Append(s, x) = 1 .. Len(s) + 1
      /\ \A i \in 1 .. Len(s) : Append(s, x)[i] = s[i]
      /\ Append(s, x)[Len(s) + 1] = x
  OBVIOUS
<1>. QED BY <1>1 DEF Elements

LEMMA ElementsOfLPop ==
  ASSUME NEW S, NEW s \in Seq(S)
  PROVE  Elements(LPop(s)) \subseteq Elements(s)
<1>1. CASE s = <<>>
  BY <1>1 DEF LPop
<1>2. CASE s # <<>>
  <2>1. /\ DOMAIN s = 1 .. Len(s) /\ Len(s) \in Nat
        /\ DOMAIN Tail(s) = 1 .. Len(s) - 1
        /\ \A i \in 1 .. Len(s) - 1 : Tail(s)[i] = s[i + 1]
    BY <1>2
  <2>. QED BY <1>2, <2>1 DEF Elements, LPop
<1>. QED BY <1>1, <1>2

\* LPOP takes out the head, and nothing that is not equal to it.
LEMMA LPopKeepsRest ==
  ASSUME NEW S, NEW s \in Seq(S), s # <<>>
  PROVE  Elements(s) \subseteq Elements(LPop(s)) \cup {Head(s)}
<1>1. /\ DOMAIN s = 1 .. Len(s) /\ Len(s) \in Nat
      /\ LPop(s) = Tail(s) /\ Head(s) = s[1]
      /\ DOMAIN Tail(s) = 1 .. Len(s) - 1
      /\ \A i \in 1 .. Len(s) - 1 : Tail(s)[i] = s[i + 1]
  BY DEF LPop
<1>2. SUFFICES ASSUME NEW i \in 1 .. Len(s), i # 1
               PROVE  s[i] \in Elements(LPop(s))
  BY <1>1 DEF Elements
<1>3. i - 1 \in 1 .. Len(s) - 1 /\ Tail(s)[i - 1] = s[i]
  BY <1>1, <1>2
<1>. QED BY <1>1, <1>3 DEF Elements

LEMMA HeadIsElement ==
  ASSUME NEW S, NEW s \in Seq(S), s # <<>>
  PROVE  Head(s) \in Elements(s)
BY DEF Elements

-----------------------------------------------------------------------------
(* Where the rows and the records come from.                               *)

\* A request whose handler has ended with a sale it could not book.
Ended(r) == r \in granted /\ pc[r] = "done" /\ saleId[r] \in Sale

\* A record is known if somebody pushed it by hand, or if it is the record of
\* such a request.
KnownRecord(x) ==
  \/ x \in enqueued
  \/ \E r \in Request : Ended(r) /\ x = FailureRecord(r)

\* The record of a request says what the request would have booked.
LEMMA OwnRecord ==
  ASSUME NEW r, user[r] \in User, saleId[r] \in Sale
  PROVE  /\ ParsedSale(FailureRecord(r)) = saleId[r]
         /\ ParsedUser(FailureRecord(r)) = user[r]
         /\ ~IsMalformed(FailureRecord(r))
         /\ Persisted(FailureRecord(r)) <=> Booking(r) \in purchases
<1>1. /\ ParsedSale(FailureRecord(r)) = saleId[r]
      /\ ParsedUser(FailureRecord(r)) = user[r]
  BY StoresAssumption DEF FailureRecord, ParsedSale, ParsedUser, CanonicalUserId
<1>. QED
  BY <1>1, StoresAssumption
  DEF IsMalformed, Persisted, FindPurchaseBySaleIdAndUserId, Booking

\* PurchasesBacked is not inductive: the CLI makes rows from records, so the
\* records it may work on, queued or taken, must be known.
BackedInv ==
  /\ PurchasesBacked
  /\ \A x \in Elements(failures) : KnownRecord(x)
  /\ \A w \in Worker : cliPc[w] \notin {"off", "read"} => KnownRecord(cliRaw[w])

LEMMA BackedInit == Init => BackedInv
BY DEF Init, StoresInit, ReconcileInit, BackedInv, PurchasesBacked, Elements

\* Once a request has resolved its sale, what it books never changes.
LEMMA BookingStays ==
  ASSUME TypeOK, GrantedInv, HandlerInv, [Next]_vars, NEW q \in granted,
         saleId[q] # NoSale \/ pc[q] = "done"
  PROVE  /\ q \in granted'
         /\ saleId'[q] = saleId[q] /\ user'[q] = user[q]
         /\ pc[q] = "done" => pc'[q] = "done"
<1>0. /\ q \in Request /\ q \in granted' /\ user'[q] = user[q]
      /\ PurchaseTypeOK /\ HandlerOK(q)
  BY HistoryGrows DEF TypeOK, PurchaseTypeOK, HandlerInv
<1>1. CASE PurchaseNext
  <2>1. CASE ProcessStep
    BY <1>0, <2>1 DEF ProcessStep, StartServer, StopServer, CrashServer,
                      requestVars, InFlight, PurchaseTypeOK
  <2>2. ASSUME NEW r \in Request, Moves(r)
        PROVE  saleId'[q] = saleId[q] /\ (pc[q] = "done" => pc'[q] = "done")
    <3>1. CASE q # r
      BY <1>0, <2>2, <3>1, OneHandlerMoves
    <3>2. CASE q = r
      BY <1>0, <2>2, <3>2
      DEF Moves, RejectUserId, ReceivePurchase, HandlerStep, GrantPurchase,
        RefusePurchase, ReadActiveSaleId, EnsureActiveSale, CacheActiveSaleId,
        PersistPurchase, PersistRejected, RecordFailure, HandlerFault,
        ScriptUnavailable, ScriptReplyLost, ResolveFails, PersistFails,
        RecordFailureFails, ScriptEffect, SetActiveSaleId, BookingUnchanged,
        HandlerOK
    <3>. QED BY <3>1, <3>2
  <2>. QED BY <1>0, <1>1, <2>1, <2>2, PurchaseCases
<1>2. CASE UNCHANGED purchaseVars
  BY <1>0, <1>2 DEF purchaseVars, requestVars
<1>. QED BY <1>0, <1>1, <1>2 DEF Next, vars

LEMMA EndedStays ==
  ASSUME TypeOK, GrantedInv, HandlerInv, [Next]_vars, NEW r \in Request, Ended(r)
  PROVE  /\ Ended(r)'
         /\ FailureRecord(r)' = FailureRecord(r) /\ Booking(r)' = Booking(r)
BY BookingStays DEF Ended, FailureRecord, Booking

\* What is known stays known, and what is backed stays backed.
LEMMA KnownStays ==
  ASSUME TypeOK, GrantedInv, HandlerInv, [Next]_vars, enqueued \subseteq enqueued'
  PROVE  /\ \A x : KnownRecord(x) => KnownRecord(x)'
         /\ \A q \in granted : saleId[q] # NoSale =>
              q \in granted' /\ Booking(q)' = Booking(q)
<1>1. ASSUME NEW x, KnownRecord(x) PROVE KnownRecord(x)'
  <2>1. CASE x \in enqueued
    BY <2>1 DEF KnownRecord
  <2>2. CASE \E r \in Request : Ended(r) /\ x = FailureRecord(r)
    <3>1. PICK r \in Request : Ended(r) /\ x = FailureRecord(r)
      BY <2>2
    <3>2. Ended(r)' /\ FailureRecord(r)' = x
      BY <3>1, EndedStays
    <3>. QED BY <3>2 DEF KnownRecord
  <2>. QED BY <1>1, <2>1, <2>2 DEF KnownRecord
<1>2. ASSUME NEW q \in granted, saleId[q] # NoSale
      PROVE  q \in granted' /\ Booking(q)' = Booking(q)
  BY <1>2, BookingStays DEF Booking
<1>. QED BY <1>1, <1>2

\* A handler books for its own grant, and queues its own record.
LEMMA HandlerWork ==
  ASSUME StoresTypeOK, PurchaseTypeOK, HandlerInv, PurchaseNext
  PROVE  /\ \A p \in purchases' :
              p \in purchases
                \/ \E r \in granted : saleId[r] \in Sale /\ p = Booking(r)
         /\ \A x \in Elements(failures') :
              x \in Elements(failures)
                \/ \E r \in Request : Ended(r)' /\ x = FailureRecord(r)'
<1>. DEFINE Work ==
       /\ \A p \in purchases' :
            p \in purchases
              \/ \E r \in granted : saleId[r] \in Sale /\ p = Booking(r)
       /\ \A x \in Elements(failures') :
            x \in Elements(failures)
              \/ \E r \in Request : Ended(r)' /\ x = FailureRecord(r)'
<1>1. CASE ProcessStep
  BY <1>1 DEF ProcessStep, StartServer, StopServer, CrashServer, storeVars,
              redisVars, postgresVars
<1>2. ASSUME NEW r \in Request, Moves(r), pc[r] \notin {"create", "record"}
      PROVE  Work
  <2>1. purchases' = purchases /\ failures' = failures
    BY <1>2
    DEF Moves, RejectUserId, ReceivePurchase, HandlerStep, GrantPurchase,
      RefusePurchase, ReadActiveSaleId, EnsureActiveSale, CacheActiveSaleId,
      PersistPurchase, PersistRejected, RecordFailure, HandlerFault,
      ScriptUnavailable, ScriptReplyLost, ResolveFails, PersistFails,
      RecordFailureFails, ScriptEffect, SetActiveSaleId, storeVars, redisVars,
      postgresVars
  <2>. QED BY <2>1
<1>3. ASSUME NEW r \in Request, Moves(r), pc[r] = "create" PROVE Work
  <2>1. PersistPurchase(r) \/ PersistRejected(r) \/ PersistFails(r)
    BY <1>3
    DEF Moves, RejectUserId, ReceivePurchase, HandlerStep, GrantPurchase,
      RefusePurchase, ReadActiveSaleId, EnsureActiveSale, CacheActiveSaleId,
      RecordFailure, HandlerFault, ScriptUnavailable, ScriptReplyLost,
      ResolveFails, RecordFailureFails
  <2>2. /\ failures' = failures
        /\ purchases' = purchases \/ purchases' = purchases \cup {Booking(r)}
    BY <2>1 DEF PersistPurchase, PersistRejected, PersistFails, InsertPurchase,
                Booking
  <2>3. r \in granted /\ saleId[r] \in Sale
    BY <1>3 DEF HandlerInv, HandlerOK, PurchaseTypeOK
  <2>. QED BY <2>2, <2>3
<1>4. ASSUME NEW r \in Request, Moves(r), pc[r] = "record" PROVE Work
  <2>1. RecordFailure(r) \/ RecordFailureFails(r)
    BY <1>4
    DEF Moves, RejectUserId, ReceivePurchase, HandlerStep, GrantPurchase,
      RefusePurchase, ReadActiveSaleId, EnsureActiveSale, CacheActiveSaleId,
      PersistPurchase, PersistRejected, HandlerFault, ScriptUnavailable,
      ScriptReplyLost, ResolveFails, PersistFails
  <2>2. /\ purchases' = purchases
        /\ failures' = failures \/ failures' = Append(failures, FailureRecord(r))
        /\ granted' = granted /\ saleId' = saleId /\ user' = user
        /\ pc' = [pc EXCEPT ![r] = "done"]
    BY <2>1 DEF RecordFailure, RecordFailureFails, PushRecord, Reply,
                BookingUnchanged
  <2>3. Ended(r)' /\ FailureRecord(r)' = FailureRecord(r)
    BY <1>4, <2>2 DEF HandlerInv, HandlerOK, PurchaseTypeOK, FailureRecord, Ended
  <2>4. failures \in Seq(RawRecord)
    BY DEF StoresTypeOK
  <2>5. \A x \in Elements(failures') :
          x \in Elements(failures) \/ x = FailureRecord(r)
    <3>1. Elements(Append(failures, FailureRecord(r)))
            = Elements(failures) \cup {FailureRecord(r)}
      BY <2>4, ElementsOfAppend
    <3>. QED BY <2>2, <3>1
  <2>. QED BY <2>2, <2>3, <2>5
<1>. QED BY <1>1, <1>2, <1>3, <1>4, PurchaseCases

\* The CLI makes rows from the records it takes, and takes them from the list.
LEMMA CliWork ==
  ASSUME StoresTypeOK, ReconcileTypeOK, ReconcileNext
  PROVE  /\ enqueued \subseteq enqueued'
         /\ \A x \in Elements(failures') :
              x \in Elements(failures) \/ x \in enqueued'
         /\ \A w \in Worker : cliPc'[w] \notin {"off", "read"} =>
              \/ cliRaw'[w] \in Elements(failures)
              \/ cliPc[w] \notin {"off", "read"} /\ cliRaw'[w] = cliRaw[w]
         /\ \A p \in purchases' :
              \/ p \in purchases
              \/ \E w \in Worker :
                   /\ cliPc[w] \notin {"off", "read"}
                   /\ p.sale = ParsedSale(cliRaw[w])
                   /\ p.user = ParsedUser(cliRaw[w])
<1>. DEFINE Taken ==
       \A w \in Worker : cliPc'[w] \notin {"off", "read"} =>
         \/ cliRaw'[w] \in Elements(failures)
         \/ cliPc[w] \notin {"off", "read"} /\ cliRaw'[w] = cliRaw[w]
<1>0. failures \in Seq(RawRecord)
  BY DEF StoresTypeOK
<1>1. ASSUME NEW x \in ExternalRecord, EnqueueExternal(x)
      PROVE  /\ enqueued \subseteq enqueued' /\ purchases' = purchases /\ Taken
             /\ Elements(failures') \subseteq Elements(failures) \cup enqueued'
  <2>1. Elements(failures') = Elements(failures) \cup {x}
    BY <1>0, <1>1, ElementsOfAppend DEF EnqueueExternal
  <2>. QED BY <1>1, <2>1 DEF EnqueueExternal, workerVars, postgresVars
<1>2. ASSUME NEW w \in Worker, ReadHead(w)
      PROVE  /\ enqueued' = enqueued /\ purchases' = purchases /\ Taken
             /\ Elements(failures') \subseteq Elements(failures)
  <2>1. cliRaw'[w] \in Elements(failures)
    BY <1>0, <1>2, HeadIsElement DEF ReadHead, ReconcileTypeOK
  <2>. QED BY <1>2, <2>1 DEF ReadHead, ReconcileTypeOK, storeVars, redisVars,
                             postgresVars
<1>3. ASSUME NEW w \in Worker, CreateMissing(w)
      PROVE  /\ enqueued' = enqueued /\ Taken
             /\ Elements(failures') \subseteq Elements(failures)
             /\ \A p \in purchases' :
                  \/ p \in purchases
                  \/ /\ cliPc[w] \notin {"off", "read"}
                     /\ p.sale = ParsedSale(cliRaw[w])
                     /\ p.user = ParsedUser(cliRaw[w])
  BY <1>3 DEF CreateMissing, InsertPurchase, RepairUser, CliRepaired,
              ReconcileTypeOK, redisVars
<1>4. ASSUME NEW w \in Worker,
             \/ \E n \in Limit : StartReconcile(w, n)
             \/ FinishReconcile(w) \/ FindPersisted(w) \/ CreateConflicts(w)
             \/ CreateRejected(w) \/ RefindPersisted(w) \/ CheckHead(w)
      PROVE  /\ enqueued' = enqueued /\ purchases' = purchases /\ Taken
             /\ Elements(failures') \subseteq Elements(failures)
  BY <1>4 DEF StartReconcile, FinishReconcile, FindPersisted, CreateConflicts,
    CreateRejected, RefindPersisted, CheckHead, CliExit, CliGoTo, CliRepaired,
    ReconcileTypeOK, storeVars, redisVars, postgresVars
<1>5. ASSUME NEW w \in Worker, PopHead(w) \/ CliFails(w)
      PROVE  /\ enqueued' = enqueued /\ purchases' = purchases /\ Taken
             /\ Elements(failures') \subseteq Elements(failures)
  <2>1. failures' = failures \/ failures' = LPop(failures)
    BY <1>5 DEF PopHead, CliFails, ArchiveAndPop, redisVars
  <2>2. Elements(failures') \subseteq Elements(failures)
    BY <1>0, <2>1, ElementsOfLPop
  <2>. QED BY <1>5, <2>2 DEF PopHead, CliFails, ArchiveAndPop, CliExit,
                             ReconcileTypeOK, postgresVars
<1>. HIDE DEF Taken
<1>. QED BY <1>1, <1>2, <1>3, <1>4, <1>5 DEF ReconcileNext, CliStep, Taken

\* The init script makes neither rows nor records.
LEMMA InitSaleWork ==
  ASSUME InitSaleNext
  PROVE  purchases' = purchases /\ failures' = failures
BY DEF InitSaleNext, InitStep, StartInit, EnsureConfiguredSale,
       ResetConfiguredSale, BareReset, ResetSaleState, InitFails, storeVars,
       redisVars, postgresVars

\* What a known record books is booked for a grant, or was asked for by hand.
LEMMA KnownIsBacked ==
  ASSUME GrantedInv, NEW x, KnownRecord(x)
  PROVE  \/ \E r \in granted : /\ saleId[r] \in Sale
                               /\ Booking(r) = [sale |-> ParsedSale(x),
                                                user |-> ParsedUser(x)]
         \/ x \in enqueued
<1>1. CASE \E r \in Request : Ended(r) /\ x = FailureRecord(r)
  <2>1. PICK r \in Request : Ended(r) /\ x = FailureRecord(r)
    BY <1>1
  <2>2. r \in granted /\ saleId[r] \in Sale /\ user[r] \in User
    BY <2>1 DEF Ended, GrantedInv
  <2>. QED BY <2>1, <2>2, OwnRecord DEF Booking
<1>. QED BY <1>1 DEF KnownRecord

LEMMA BackedNext ==
  TypeOK /\ GrantedInv /\ HandlerInv /\ BackedInv /\ [Next]_vars /\ TypeOK'
    => BackedInv'
<1>. SUFFICES ASSUME TypeOK, GrantedInv, HandlerInv, BackedInv, [Next]_vars, TypeOK'
              PROVE  BackedInv'
  OBVIOUS
<1>. DEFINE ByGrant(p) == \E r \in granted : saleId[r] \in Sale /\ p = Booking(r)
            ByRecord(p) == \E w \in Worker :
                             /\ cliPc[w] \notin {"off", "read"}
                             /\ p.sale = ParsedSale(cliRaw[w])
                             /\ p.user = ParsedUser(cliRaw[w])
\* What a step adds.
<1>1. /\ enqueued \subseteq enqueued'
      /\ \A p \in purchases' : p \in purchases \/ ByGrant(p) \/ ByRecord(p)
      /\ \A x \in Elements(failures') :
           \/ x \in Elements(failures)
           \/ KnownRecord(x)'
      /\ \A w \in Worker : cliPc'[w] \notin {"off", "read"} =>
           \/ cliRaw'[w] \in Elements(failures)
           \/ cliPc[w] \notin {"off", "read"} /\ cliRaw'[w] = cliRaw[w]
  <2>1. CASE PurchaseNext /\ UNCHANGED <<initVars, reconcileVars>>
    <3>1. /\ \A p \in purchases' : p \in purchases \/ ByGrant(p)
          /\ \A x \in Elements(failures') :
               x \in Elements(failures) \/ KnownRecord(x)'
      BY <2>1, HandlerWork DEF TypeOK, KnownRecord
    <3>. QED BY <2>1, <3>1 DEF reconcileVars, workerVars
  <2>2. CASE InitSaleNext /\ UNCHANGED <<purchaseVars, reconcileVars>>
    BY <2>2, InitSaleWork DEF reconcileVars, workerVars
  <2>3. CASE ReconcileNext
    <3>1. \A x \in Elements(failures') :
            x \in Elements(failures) \/ KnownRecord(x)'
      BY <2>3, CliWork DEF TypeOK, KnownRecord
    <3>. QED BY <2>3, <3>1, CliWork DEF TypeOK
  <2>4. CASE UNCHANGED vars
    BY <2>4 DEF vars, storeVars, redisVars, postgresVars, reconcileVars, workerVars
  <2>. QED BY <2>1, <2>2, <2>3, <2>4 DEF Next
<1>2. /\ \A x : KnownRecord(x) => KnownRecord(x)'
      /\ \A q \in granted : saleId[q] # NoSale =>
           q \in granted' /\ Booking(q)' = Booking(q)
  BY <1>1, KnownStays
<1>3. /\ \A x \in Elements(failures') : KnownRecord(x)'
      /\ \A w \in Worker : cliPc'[w] \notin {"off", "read"} => KnownRecord(cliRaw[w])'
  <2>1. /\ \A x \in Elements(failures) : KnownRecord(x)
        /\ \A w \in Worker : cliPc[w] \notin {"off", "read"} => KnownRecord(cliRaw[w])
    BY DEF BackedInv
  <2>2. ASSUME NEW w \in Worker, cliPc'[w] \notin {"off", "read"}
        PROVE  KnownRecord(cliRaw[w])'
    <3>1. PICK x : x = cliRaw'[w] /\ KnownRecord(x)
      BY <1>1, <2>1, <2>2
    <3>2. KnownRecord(x)'
      BY <1>2, <3>1
    <3>. QED BY <3>1, <3>2 DEF KnownRecord
  <2>. QED BY <1>1, <1>2, <2>1, <2>2
<1>4. PurchasesBacked'
  <2>1. SUFFICES ASSUME NEW p \in purchases'
                 PROVE  \/ \E r \in granted' : Booking(r)' = p
                        \/ \E x \in enqueued' : /\ ParsedSale(x) = p.sale
                                                /\ ParsedUser(x) = p.user
    BY DEF PurchasesBacked, ParsedSale, ParsedUser, CanonicalUserId
  <2>2. /\ p \in [sale : Sale, user : User]
        /\ p.sale \in Sale /\ p = [sale |-> p.sale, user |-> p.user]
    BY DEF TypeOK, StoresTypeOK
  <2>3. ASSUME NEW r \in granted, Booking(r) = p
        PROVE  \E q \in granted' : Booking(q)' = p
    <3>1. saleId[r] = p.sale
      BY <2>3 DEF Booking
    <3>2. saleId[r] # NoSale
      BY <2>2, <3>1, StoresAssumption
    <3>. QED BY <1>2, <2>3, <3>2
  <2>4. CASE p \in purchases
    BY <1>1, <2>3, <2>4 DEF BackedInv, PurchasesBacked
  <2>5. CASE ByGrant(p)
    BY <2>3, <2>5
  <2>6. CASE ByRecord(p)
    <3>1. PICK w \in Worker : /\ cliPc[w] \notin {"off", "read"}
                              /\ p.sale = ParsedSale(cliRaw[w])
                              /\ p.user = ParsedUser(cliRaw[w])
      BY <2>6
    <3>2. KnownRecord(cliRaw[w])
      BY <3>1 DEF BackedInv
    <3>3. \/ \E r \in granted : Booking(r) = p
          \/ cliRaw[w] \in enqueued
      BY <2>2, <3>1, <3>2, KnownIsBacked
    <3>. QED BY <1>1, <2>3, <3>1, <3>3
  <2>. QED BY <1>1, <2>4, <2>5, <2>6
<1>. QED BY <1>3, <1>4 DEF BackedInv

LEMMA BackedInvariant == Spec => []BackedInv
<1>. QED
  BY BackedInit, BackedNext, TypeCorrect, GateInvariant, GateGranted,
     HandlerInvariant, PTL DEF Spec

\* Every row has a grant behind it, or a record somebody pushed by hand: no
\* failure, crash or repair makes a purchase out of nothing, nor for another
\* user (purchase.service.js, purchase-reconciliation.service.js).
THEOREM EveryRowBacked == Spec => []PurchasesBacked
<1>1. BackedInv => PurchasesBacked
  BY DEF BackedInv
<1>. QED BY <1>1, BackedInvariant, PTL

\* Every step as the stock sees it: nothing, a grant, or a reset.
LEMMA GateMoves ==
  ASSUME TypeOK, GateInv, Next
  PROVE  \/ UNCHANGED <<stock, resets, granted>>
         \/ \E r \in Request \ granted :
              /\ stock \in Nat /\ stock > 0 /\ stock' = stock - 1
              /\ granted' = granted \cup {r} /\ resets' = resets
         \/ \E n \in Nat : \E s :
              /\ stock' = n /\ granted' = granted
              /\ resets' = Append(resets, [sale |-> s, stock |-> n])
<1>. DEFINE Same == UNCHANGED <<stock, resets, granted>>
            Grant(r) == /\ stock \in Nat /\ stock > 0 /\ stock' = stock - 1
                        /\ granted' = granted \cup {r} /\ resets' = resets
            Reset(n, s) == /\ stock' = n /\ granted' = granted
                           /\ resets' = Append(resets, [sale |-> s, stock |-> n])
<1>1. CASE PurchaseNext
  <2>1. CASE ProcessStep
    BY <2>1 DEF ProcessStep, StartServer, StopServer, CrashServer, requestVars,
                storeVars, redisVars
  <2>2. ASSUME NEW r \in Request, Moves(r) PROVE Same \/ (r \notin granted /\ Grant(r))
    <3>1. CASE ScriptEffect(r) /\ pc[r] = "script"
      <4>1. CASE ScriptResult(r) = "SUCCESS"
        BY <3>1, <4>1, ScriptResults
        DEF ScriptEffect, DecrStock, AddUser, TypeOK, PurchaseTypeOK, GateInv
      <4>2. CASE ScriptResult(r) # "SUCCESS"
        BY <3>1, <4>2 DEF ScriptEffect
      <4>. QED BY <4>1, <4>2
    <3>2. CASE ~(ScriptEffect(r) /\ pc[r] = "script")
      BY <2>2, <3>2
      DEF Moves, RejectUserId, ReceivePurchase, HandlerStep, GrantPurchase,
        RefusePurchase, ReadActiveSaleId, EnsureActiveSale, CacheActiveSaleId,
        PersistPurchase, PersistRejected, RecordFailure, HandlerFault,
        ScriptUnavailable, ScriptReplyLost, ResolveFails, PersistFails,
        RecordFailureFails, SetActiveSaleId, BookingUnchanged, gateVars,
        storeVars, redisVars
    <3>. QED BY <3>1, <3>2
  <2>. QED BY <1>1, <2>1, <2>2, PurchaseCases
<1>2. CASE InitSaleNext /\ UNCHANGED purchaseVars
  <2>0. granted' = granted
    BY <1>2 DEF purchaseVars, requestVars
  <2>1. ASSUME NEW i \in InitProc, ResetConfiguredSale(i)
        PROVE  \E n \in Nat : \E s : Reset(n, s)
    BY <2>0, <2>1 DEF ResetConfiguredSale, ResetSaleState, TypeOK, InitSaleTypeOK
  <2>2. ASSUME NEW n \in StockAfterBareReset, BareReset(n)
        PROVE  n \in Nat /\ Reset(n, NoSale)
    BY <2>0, <2>2, StoresAssumption, InitAssumption
    DEF BareReset, ResetSaleState, StockAfterBareReset
  <2>3. ASSUME NEW i \in InitProc, InitStep(i), ~ResetConfiguredSale(i) PROVE Same
    BY <2>0, <2>3 DEF InitStep, StartInit, EnsureConfiguredSale, InitFails,
                      storeVars, redisVars
  <2>. QED BY <1>2, <2>1, <2>2, <2>3 DEF InitSaleNext
<1>3. CASE ReconcileNext /\ UNCHANGED purchaseVars
  <2>1. UNCHANGED <<stock, resets>>
    BY <1>3 DEF ReconcileNext, CliStep, EnqueueExternal, StartReconcile,
      FinishReconcile, ReadHead, FindPersisted, CreateMissing, CreateConflicts,
      CreateRejected, RefindPersisted, CheckHead, PopHead, CliFails,
      ArchiveAndPop, gateVars, storeVars, redisVars
  <2>. QED BY <1>3, <2>1 DEF purchaseVars, requestVars
<1>. QED BY <1>1, <1>2, <1>3 DEF Next

\* Records are pushed by hand one at a time.
LEMMA EnqueuedMoves ==
  ASSUME Next
  PROVE  enqueued' = enqueued \/ \E x : enqueued' = enqueued \cup {x}
BY DEF Next, reconcileVars, ReconcileNext, CliStep, EnqueueExternal, StartReconcile,
  FinishReconcile, ReadHead, FindPersisted, CreateMissing, CreateConflicts,
  CreateRejected, RefindPersisted, CheckHead, PopHead, CliFails, ArchiveAndPop

LEMMA CountUpTo ==
  ASSUME NEW n \in Nat
  PROVE  IsFiniteSet(1 .. n) /\ Cardinality(1 .. n) = n
<1>. DEFINE c == Cardinality(1 .. n)
            m == n - 1 + 1
<1>1. 1 \in Int /\ n \in Int
  OBVIOUS
<1>2. IsFiniteSet(1 .. n) /\ c = IF 1 > n THEN 0 ELSE m
  BY <1>1, FS_Interval, Zenon
<1>3. m = n /\ (1 > n => n = 0)
  OBVIOUS
<1>. HIDE DEF c, m
<1>4. c = n
  BY <1>2, <1>3
<1>. QED BY <1>2, <1>4 DEF c

\* The items of a new reset.
LEMMA ItemsOfReset ==
  ASSUME NEW S, resets \in Seq(S), NEW n \in Nat, NEW s,
         resets' = Append(resets, [sale |-> s, stock |-> n]),
         IsFiniteSet(ItemsPutUp)
  PROVE  /\ IsFiniteSet(ItemsPutUp')
         /\ Cardinality(ItemsPutUp') = Cardinality(ItemsPutUp) + n
<1>. DEFINE k == Len(resets) + 1
            new == {k} \X (1 .. n)
<1>1. /\ DOMAIN resets = 1 .. Len(resets) /\ Len(resets) \in Nat
      /\ DOMAIN resets' = (1 .. Len(resets)) \cup {k}
      /\ \A e \in 1 .. Len(resets) : resets'[e] = resets[e]
      /\ resets'[k] = [sale |-> s, stock |-> n]
  OBVIOUS
<1>2. resets'[k].stock = n
  BY <1>1
<1>3. ItemsPutUp' = ItemsPutUp \cup new
  <2>. HIDE DEF k
  <2>. QED BY <1>1, <1>2 DEF ItemsPutUp
<1>4. ItemsPutUp \cap new = {}
  <2>1. k \notin DOMAIN resets
    BY <1>1
  <2>. HIDE DEF k
  <2>. QED BY <2>1 DEF ItemsPutUp
<1>5. IsFiniteSet(new) /\ Cardinality(new) = n
  <2>1. IsFiniteSet({k}) /\ Cardinality({k}) = 1
    BY FS_Singleton
  <2>2. IsFiniteSet(1 .. n) /\ Cardinality(1 .. n) = n
    BY CountUpTo
  <2>. HIDE DEF k
  <2>3. Cardinality(new) = 1 * n
    BY <2>1, <2>2, FS_Product
  <2>4. 1 * n = n
    OBVIOUS
  <2>. QED BY <2>1, <2>2, <2>3, <2>4, FS_Product
<1>. HIDE DEF new
<1>6. /\ IsFiniteSet(ItemsPutUp \cup new)
      /\ Cardinality(ItemsPutUp \cup new)
           = Cardinality(ItemsPutUp) + Cardinality(new) - Cardinality({})
  BY <1>4, <1>5, FS_Union
<1>7. Cardinality({}) = 0 /\ Cardinality(ItemsPutUp) \in Nat
  BY FS_EmptySet, FS_CardinalityType
<1>. QED BY <1>3, <1>5, <1>6, <1>7

\* PersistedWithinStock is not inductive: what bounds the rows is the grants,
\* and what bounds those is the items put up, less those still on sale.
ItemsInv ==
  /\ IsFiniteSet(ItemsPutUp)
  /\ IsFiniteSet(enqueued)
  /\ granted # {} => resets # <<>>
  /\ resets # <<>> =>
       stock \in Nat /\ Cardinality(granted) + stock <= Cardinality(ItemsPutUp)

LEMMA ItemsInit == Init => ItemsInv
<1>. SUFFICES ASSUME Init PROVE ItemsInv
  OBVIOUS
<1>1. resets = <<>> /\ enqueued = {} /\ granted = {}
  BY DEF Init, StoresInit, PurchaseInit, ReconcileInit
<1>2. ItemsPutUp = {}
  BY <1>1 DEF ItemsPutUp
<1>. QED BY <1>1, <1>2, FS_EmptySet DEF ItemsInv

LEMMA ItemsNext == TypeOK /\ GateInv /\ ItemsInv /\ [Next]_vars => ItemsInv'
<1>. SUFFICES ASSUME TypeOK, GateInv, ItemsInv, [Next]_vars PROVE ItemsInv'
  OBVIOUS
<1>0. /\ IsFiniteSet(granted) /\ Cardinality(granted) \in Nat
      /\ Cardinality(ItemsPutUp) \in Nat
  BY FS_Subset, FS_CardinalityType, StoresAssumption
  DEF TypeOK, PurchaseTypeOK, ItemsInv
<1>1. CASE Next
  <2>1. IsFiniteSet(enqueued')
    BY <1>1, EnqueuedMoves, FS_AddElement DEF ItemsInv
  <2>2. CASE UNCHANGED <<stock, resets, granted>>
    BY <2>1, <2>2 DEF ItemsInv, ItemsPutUp
  <2>3. ASSUME NEW r \in Request \ granted, stock \in Nat, stock > 0,
               stock' = stock - 1, granted' = granted \cup {r}, resets' = resets
        PROVE  ItemsInv'
    <3>1. ItemsPutUp' = ItemsPutUp
      BY <2>3 DEF ItemsPutUp
    <3>2. resets # <<>>
      BY <2>3, GrantNeedsReset DEF TypeOK
    <3>3. Cardinality(granted') = Cardinality(granted) + 1
      BY <1>0, <2>3, FS_AddElement
    <3>. QED BY <1>0, <2>1, <2>3, <3>1, <3>2, <3>3 DEF ItemsInv
  <2>4. ASSUME NEW n \in Nat, NEW s, stock' = n, granted' = granted,
               resets' = Append(resets, [sale |-> s, stock |-> n])
        PROVE  ItemsInv'
    <3>1. PICK S : resets \in Seq(S)
      BY DEF TypeOK, StoresTypeOK
    <3>2. /\ IsFiniteSet(ItemsPutUp')
          /\ Cardinality(ItemsPutUp') = Cardinality(ItemsPutUp) + n
      BY <2>4, <3>1, ItemsOfReset DEF ItemsInv
    <3>3. Cardinality(granted) <= Cardinality(ItemsPutUp)
      <4>1. CASE granted = {}
        BY <1>0, <4>1, FS_EmptySet
      <4>2. CASE granted # {}
        BY <1>0, <4>2 DEF ItemsInv
      <4>. QED BY <4>1, <4>2
    <3>4. resets' # <<>>
      BY <2>4, <3>1
    <3>. QED BY <1>0, <2>1, <2>4, <3>2, <3>3, <3>4 DEF ItemsInv
  <2>. QED BY <1>1, <2>2, <2>3, <2>4, GateMoves
<1>2. CASE UNCHANGED vars
  BY <1>2 DEF vars, storeVars, redisVars, purchaseVars, requestVars, reconcileVars,
              ItemsInv, ItemsPutUp
<1>. QED BY <1>1, <1>2

\* Every row belongs to a grant or to a record pushed by hand, and different
\* rows to different ones.
LEMMA RowsWithinGrants ==
  TypeOK /\ BackedInv /\ ItemsInv => PersistedWithinStock
<1>. SUFFICES ASSUME TypeOK, BackedInv, ItemsInv
              PROVE  Cardinality(purchases)
                       <= Cardinality(ItemsPutUp) + Cardinality(enqueued)
  BY DEF PersistedWithinStock
<1>. DEFINE rowOf(x) == [sale |-> ParsedSale(x), user |-> ParsedUser(x)]
            booked == {Booking(r) : r \in granted}
            pushed == {rowOf(x) : x \in enqueued}
<1>1. purchases \subseteq booked \cup pushed
  <2>1. SUFFICES ASSUME NEW p \in purchases PROVE p \in booked \cup pushed
    OBVIOUS
  <2>2. p = [sale |-> p.sale, user |-> p.user]
    BY DEF TypeOK, StoresTypeOK
  <2>. QED BY <2>2 DEF BackedInv, PurchasesBacked
<1>2. /\ IsFiniteSet(granted) /\ IsFiniteSet(enqueued)
  BY FS_Subset, StoresAssumption DEF TypeOK, PurchaseTypeOK, ItemsInv
<1>3. IsFiniteSet(booked) /\ Cardinality(booked) <= Cardinality(granted)
  <2>. DEFINE book == [r \in granted |-> Booking(r)]
  <2>1. book \in Surjection(granted, booked)
    BY DEF Surjection
  <2>. QED BY <1>2, <2>1, FS_Surjection
<1>4. IsFiniteSet(pushed) /\ Cardinality(pushed) <= Cardinality(enqueued)
  <2>. DEFINE ask == [x \in enqueued |-> rowOf(x)]
  <2>. HIDE DEF rowOf
  <2>1. ask \in Surjection(enqueued, pushed)
    BY DEF Surjection
  <2>. QED BY <1>2, <2>1, FS_Surjection
<1>. HIDE DEF booked, pushed
<1>5. /\ IsFiniteSet(booked \cup pushed)
      /\ Cardinality(booked \cup pushed) <= Cardinality(booked) + Cardinality(pushed)
  <2>1. IsFiniteSet(booked \cap pushed)
    BY <1>3, FS_Subset
  <2>. QED BY <1>3, <1>4, <2>1, FS_Union, FS_CardinalityType
<1>6. Cardinality(purchases) <= Cardinality(booked \cup pushed)
  BY <1>1, <1>5, FS_Subset
<1>7. Cardinality(granted) <= Cardinality(ItemsPutUp)
  <2>1. Cardinality(granted) \in Nat /\ Cardinality(ItemsPutUp) \in Nat
    BY <1>2, FS_CardinalityType DEF ItemsInv
  <2>2. CASE granted = {}
    BY <2>1, <2>2, FS_EmptySet
  <2>3. CASE granted # {}
    BY <2>1, <2>3 DEF ItemsInv
  <2>. QED BY <2>2, <2>3
<1>8. /\ Cardinality(granted) \in Nat /\ Cardinality(enqueued) \in Nat
      /\ Cardinality(booked) \in Nat /\ Cardinality(pushed) \in Nat
      /\ Cardinality(booked \cup pushed) \in Nat /\ Cardinality(purchases) \in Nat
      /\ Cardinality(ItemsPutUp) \in Nat
  BY <1>1, <1>2, <1>3, <1>4, <1>5, FS_Subset, FS_CardinalityType DEF ItemsInv
<1>. QED BY <1>3, <1>4, <1>5, <1>6, <1>7, <1>8

LEMMA ItemsInvariant == Spec => []ItemsInv
<1>. QED BY ItemsInit, ItemsNext, TypeCorrect, GateInvariant, PTL DEF Spec

\* However often the sale is initialised, and with whatever stocks, the table
\* never holds more purchases than were put up or asked for by hand, for any
\* number of customers, failures and repairs (purchase.lua, init-sale.js,
\* repairPurchasePersistenceFailure).
THEOREM TableWithinStock == Spec => []PersistedWithinStock
<1>. QED
  BY RowsWithinGrants, TypeCorrect, BackedInvariant, ItemsInvariant, PTL

-----------------------------------------------------------------------------
(* Which sale a purchase is booked for.                                    *)

\* Every reset so far came with a sale.
ResetsNameSales == \A e \in 1 .. Len(resets) : resets[e].sale # NoSale

\* Then the cached sale is that of the last reset, and no handler ever finds
\* the cache empty: the fallback of resolveActiveSaleId is not taken.
ActiveInv ==
  ResetsNameSales =>
    /\ resets = <<>> => activeSaleId = NoSale
    /\ resets # <<>> => activeSaleId = resets[Len(resets)].sale
    /\ \A r \in Request : pc[r] \notin {"ensure", "cache"}
    /\ BookedSaleOrOvertaken

LEMMA ActiveInit == Init => ActiveInv
BY DEF Init, StoresInit, PurchaseInit, ActiveInv, BookedSaleOrOvertaken

\* What a handler does to the cached sale, and to the sale it books.
LEMMA SaleIdStep ==
  ASSUME PurchaseTypeOK, HandlerInv, PurchaseNext
  PROVE  /\ resets' = resets
         /\ activeSaleId' = activeSaleId \/ \E r \in Request : pc[r] = "cache"
         /\ \A r \in Request :
              \/ /\ saleId'[r] = saleId[r]
                 /\ saleId[r] # NoSale => epoch'[r] = epoch[r]
              \/ /\ pc[r] = "resolve" /\ activeSaleId # NoSale
                 /\ saleId'[r] = activeSaleId /\ epoch'[r] = epoch[r]
              \/ pc[r] = "ensure"
         /\ \A r \in Request :
              pc'[r] \in {"ensure", "cache"} =>
                \/ pc[r] \in {"ensure", "cache"}
                \/ pc[r] = "resolve" /\ activeSaleId = NoSale
<1>1. CASE ProcessStep
  BY <1>1 DEF ProcessStep, StartServer, StopServer, CrashServer, requestVars,
              storeVars, redisVars, PurchaseTypeOK
<1>2. ASSUME NEW r \in Request, Moves(r)
      PROVE  /\ resets' = resets
             /\ activeSaleId' = activeSaleId \/ pc[r] = "cache"
             /\ \/ /\ saleId'[r] = saleId[r]
                   /\ saleId[r] # NoSale => epoch'[r] = epoch[r]
                \/ /\ pc[r] = "resolve" /\ activeSaleId # NoSale
                   /\ saleId'[r] = activeSaleId /\ epoch'[r] = epoch[r]
                \/ pc[r] = "ensure"
             /\ pc'[r] \in {"ensure", "cache"} =>
                  \/ pc[r] \in {"ensure", "cache"}
                  \/ pc[r] = "resolve" /\ activeSaleId = NoSale
  <2>. USE DEF PurchaseTypeOK, HandlerInv, HandlerOK, GoTo, Reply, gateVars,
               storeVars, redisVars
  <2>1. CASE \E raw \in RawUserId :
               RejectUserId(r, raw) \/ \E t \in Instant : ReceivePurchase(r, raw, t)
    BY <2>1 DEF RejectUserId, ReceivePurchase
  <2>2. CASE \/ GrantPurchase(r) \/ RefusePurchase(r) \/ ScriptUnavailable(r)
             \/ ScriptReplyLost(r)
    BY <2>2 DEF GrantPurchase, RefusePurchase, ScriptUnavailable,
                ScriptReplyLost, ScriptEffect
  <2>3. CASE \/ ReadActiveSaleId(r) \/ EnsureActiveSale(r)
             \/ CacheActiveSaleId(r) \/ ResolveFails(r)
    BY <2>3 DEF ReadActiveSaleId, EnsureActiveSale, CacheActiveSaleId,
                ResolveFails, SetActiveSaleId, PcAfterCacheMiss
  <2>4. CASE \/ PersistPurchase(r) \/ PersistRejected(r) \/ PersistFails(r)
             \/ RecordFailure(r) \/ RecordFailureFails(r)
    BY <2>4 DEF PersistPurchase, PersistRejected, PersistFails, RecordFailure,
                RecordFailureFails, BookingUnchanged
  <2>. QED BY <1>2, <2>1, <2>2, <2>3, <2>4 DEF Moves, HandlerStep, HandlerFault
<1>3. ASSUME NEW r \in Request, Moves(r), NEW q \in Request, q # r
      PROVE  pc'[q] = pc[q] /\ saleId'[q] = saleId[q] /\ epoch'[q] = epoch[q]
  BY <1>3, OneHandlerMoves
<1>4. ASSUME NEW r \in Request, Moves(r)
      PROVE  /\ resets' = resets
             /\ activeSaleId' = activeSaleId \/ \E q \in Request : pc[q] = "cache"
             /\ \A q \in Request :
                  \/ /\ saleId'[q] = saleId[q]
                     /\ saleId[q] # NoSale => epoch'[q] = epoch[q]
                  \/ /\ pc[q] = "resolve" /\ activeSaleId # NoSale
                     /\ saleId'[q] = activeSaleId /\ epoch'[q] = epoch[q]
                  \/ pc[q] = "ensure"
             /\ \A q \in Request :
                  pc'[q] \in {"ensure", "cache"} =>
                    \/ pc[q] \in {"ensure", "cache"}
                    \/ pc[q] = "resolve" /\ activeSaleId = NoSale
  BY <1>2, <1>3, <1>4
<1>. QED BY <1>1, <1>4, PurchaseCases

\* A reset, or a step of the init script or the CLI that is none.
LEMMA OtherActiveStep ==
  ASSUME StoresTypeOK, InitSaleTypeOK, InitSaleNext \/ ReconcileNext
  PROVE  \/ resets' = resets /\ activeSaleId' = activeSaleId
         \/ \E m \in Nat, s \in Sale \cup {NoSale} :
              /\ resets' = Append(resets, [sale |-> s, stock |-> m])
              /\ activeSaleId' = s
<1>1. CASE ReconcileNext
  BY <1>1 DEF ReconcileNext, CliStep, EnqueueExternal, StartReconcile,
    FinishReconcile, ReadHead, FindPersisted, CreateMissing, CreateConflicts,
    CreateRejected, RefindPersisted, CheckHead, PopHead, CliFails,
    ArchiveAndPop, gateVars, storeVars, redisVars
<1>2. ASSUME NEW i \in InitProc, InitStep(i), ~ResetConfiguredSale(i)
      PROVE  resets' = resets /\ activeSaleId' = activeSaleId
  BY <1>2 DEF InitStep, StartInit, EnsureConfiguredSale, InitFails, storeVars,
              redisVars
<1>3. ASSUME NEW i \in InitProc, ResetConfiguredSale(i)
      PROVE  \E m \in Nat, s \in Sale \cup {NoSale} :
               /\ resets' = Append(resets, [sale |-> s, stock |-> m])
               /\ activeSaleId' = s
  BY <1>3 DEF ResetConfiguredSale, ResetSaleState, ActiveSaleAfterReset,
              InitSaleTypeOK
<1>4. ASSUME NEW k \in StockAfterBareReset, BareReset(k)
      PROVE  \E m \in Nat, s \in Sale \cup {NoSale} :
               /\ resets' = Append(resets, [sale |-> s, stock |-> m])
               /\ activeSaleId' = s
  <2>1. k \in Nat
    BY StoresAssumption, InitAssumption DEF StockAfterBareReset
  <2>. QED BY <1>4, <2>1 DEF BareReset, ResetSaleState, ActiveSaleAfterReset
<1>. QED BY <1>1, <1>2, <1>3, <1>4 DEF InitSaleNext

LEMMA ActiveNext ==
  TypeOK /\ GateInv /\ HandlerInv /\ ActiveInv /\ [Next]_vars => ActiveInv'
<1>. SUFFICES ASSUME TypeOK, GateInv, HandlerInv, ActiveInv, [Next]_vars,
                     ResetsNameSales'
              PROVE  /\ resets' = <<>> => activeSaleId' = NoSale
                     /\ resets' # <<>> => activeSaleId' = resets'[Len(resets')].sale
                     /\ \A r \in Request : pc'[r] \notin {"ensure", "cache"}
                     /\ BookedSaleOrOvertaken'
  BY DEF ActiveInv
<1>. DEFINE n == Len(resets)
            Booked(r) == saleId[r] # NoSale =>
                           \E e \in epoch[r] .. n :
                             e > 0 /\ resets[e].sale = saleId[r]
<1>0. /\ StoresTypeOK /\ PurchaseTypeOK /\ InitSaleTypeOK
      /\ \A e \in 1 .. n : resets'[e] = resets[e]
      /\ n \in Nat /\ Len(resets') \in Nat /\ n <= Len(resets')
  BY HistoryGrows, GateGranted DEF TypeOK
<1>1. ResetsNameSales
  BY <1>0 DEF ResetsNameSales
<1>2. /\ resets = <<>> => activeSaleId = NoSale
      /\ resets # <<>> => activeSaleId = resets[n].sale
      /\ \A r \in Request : pc[r] \notin {"ensure", "cache"}
      /\ \A r \in Request : Booked(r)
  BY <1>1 DEF ActiveInv, BookedSaleOrOvertaken, ResetsNameSales
<1>3. resets = <<>> <=> n = 0
  BY <1>0 DEF StoresTypeOK
\* A granted request knows that there was a reset, hence a cached sale.
<1>4. \A r \in Request : pc[r] = "resolve" =>
        /\ n > 0 /\ activeSaleId = resets[n].sale /\ activeSaleId # NoSale
        /\ epoch[r] \in 1 .. n
  <2>1. ASSUME NEW r \in Request, pc[r] = "resolve" PROVE epoch[r] \in 1 .. n
    <3>1. r \in granted
      BY <2>1 DEF HandlerInv, HandlerOK
    <3>2. epoch[r] \in 0 .. n /\ epoch[r] > 0
      BY <3>1 DEF GateInv
    <3>. QED BY <1>0, <3>2
  <2>. QED BY <1>0, <1>1, <1>2, <1>3, <2>1 DEF ResetsNameSales
<1>5. CASE PurchaseNext
  <2>1. resets' = resets /\ activeSaleId' = activeSaleId
    BY <1>0, <1>2, <1>5, SaleIdStep
  <2>2. \A r \in Request : pc'[r] \notin {"ensure", "cache"}
    BY <1>0, <1>2, <1>4, <1>5, SaleIdStep
  <2>3. ASSUME NEW r \in Request, saleId'[r] # NoSale
        PROVE  \E e \in epoch'[r] .. n : e > 0 /\ resets[e].sale = saleId'[r]
    <3>1. CASE saleId'[r] = saleId[r] /\ epoch'[r] = epoch[r]
      BY <1>2, <2>3, <3>1
    <3>2. CASE /\ pc[r] = "resolve" /\ saleId'[r] = activeSaleId
               /\ epoch'[r] = epoch[r]
      BY <1>0, <1>4, <3>2
    <3>. QED BY <1>0, <1>2, <1>5, <2>3, <3>1, <3>2, SaleIdStep
  <2>. QED BY <1>2, <2>1, <2>2, <2>3 DEF BookedSaleOrOvertaken
<1>6. CASE (InitSaleNext \/ ReconcileNext) /\ UNCHANGED purchaseVars
  <2>1. pc' = pc /\ saleId' = saleId /\ epoch' = epoch
    BY <1>6 DEF purchaseVars, requestVars
  <2>2. \A r \in Request : epoch[r] \in Nat
    BY <1>0 DEF PurchaseTypeOK
  <2>3. BookedSaleOrOvertaken'
    <3>1. SUFFICES ASSUME NEW r \in Request, saleId[r] # NoSale
                   PROVE  \E e \in epoch[r] .. Len(resets') :
                            e > 0 /\ resets'[e].sale = saleId[r]
      BY <2>1 DEF BookedSaleOrOvertaken
    <3>2. PICK e \in epoch[r] .. n : e > 0 /\ resets[e].sale = saleId[r]
      BY <1>2, <3>1
    <3>3. e \in epoch[r] .. Len(resets') /\ resets'[e] = resets[e]
      BY <1>0, <2>2, <3>2
    <3>. QED BY <3>2, <3>3
  <2>4. CASE resets' = resets /\ activeSaleId' = activeSaleId
    BY <1>2, <2>1, <2>3, <2>4
  <2>5. ASSUME NEW m \in Nat, NEW s \in Sale \cup {NoSale},
               resets' = Append(resets, [sale |-> s, stock |-> m]),
               activeSaleId' = s
        PROVE  resets' # <<>> /\ activeSaleId' = resets'[Len(resets')].sale
    BY <1>0, <2>5 DEF StoresTypeOK
  <2>. QED BY <1>0, <1>2, <1>6, <2>1, <2>3, <2>4, <2>5, OtherActiveStep
<1>7. CASE UNCHANGED vars
  <2>1. UNCHANGED <<resets, activeSaleId, pc, saleId, epoch>>
    BY <1>7 DEF vars, storeVars, redisVars, purchaseVars, requestVars
  <2>. QED BY <1>2, <2>1 DEF BookedSaleOrOvertaken
<1>. QED BY <1>5, <1>6, <1>7 DEF Next

\* The sale a request books is the one whose stock it took, or one that a later
\* reset made active; never an earlier one, and never the process's own
\* configuration by accident (resolveActiveSaleId).
THEOREM BookingNeverGoesBack == Spec => []BookedSaleOrOvertaken
<1>1. ActiveInv => BookedSaleOrOvertaken
  BY DEF ActiveInv, BookedSaleOrOvertaken, ResetsNameSales
<1>. QED
  BY <1>1, ActiveInit, ActiveNext, TypeCorrect, GateInvariant, HandlerInvariant,
     PTL DEF Spec

-----------------------------------------------------------------------------
(* Nothing loops: the measures behind the liveness of handlers and runs.   *)

\* How many steps a handler at this point has left, at most.
StepsLeft(label) ==
  CASE label = "idle"    -> 7
    [] label = "script"  -> 6
    [] label = "resolve" -> 5
    [] label = "ensure"  -> 4
    [] label = "cache"   -> 3
    [] label = "create"  -> 2
    [] label = "record"  -> 1
    [] label = "done"    -> 0

\* Each step of a handler brings it nearer to its answer, no step of anybody
\* takes it back, and nobody answers it a second time: a request takes at most
\* seven steps, whatever fails and whatever happens beside it.
HandlerAdvances(r) ==
  /\ pc'[r] # pc[r] => StepsLeft(pc'[r]) < StepsLeft(pc[r])
  /\ HandlerStep(r) \/ HandlerFault(r) => pc'[r] # pc[r]
  /\ pc[r] = "done" => response'[r] = response[r]

HandlersAdvance == [][\A r \in Request : HandlerAdvances(r)]_vars

LEMMA OwnStepsAdvance ==
  ASSUME PurchaseTypeOK, NEW r \in Request, Moves(r)
  PROVE  /\ StepsLeft(pc'[r]) < StepsLeft(pc[r])
         /\ pc'[r] # pc[r]
         /\ pc[r] # "done"
<1>. USE DEF PurchaseTypeOK, GoTo, Reply, StepsLeft
<1>1. CASE \E raw \in RawUserId :
             RejectUserId(r, raw) \/ \E t \in Instant : ReceivePurchase(r, raw, t)
  BY <1>1 DEF RejectUserId, ReceivePurchase
<1>2. CASE \/ GrantPurchase(r) \/ RefusePurchase(r)
           \/ ScriptUnavailable(r) \/ ScriptReplyLost(r)
  BY <1>2 DEF GrantPurchase, RefusePurchase, ScriptUnavailable, ScriptReplyLost
<1>3. CASE ReadActiveSaleId(r)
  BY <1>3 DEF ReadActiveSaleId, PcAfterCacheMiss
<1>4. CASE EnsureActiveSale(r) \/ CacheActiveSaleId(r) \/ ResolveFails(r)
  BY <1>4 DEF EnsureActiveSale, CacheActiveSaleId, ResolveFails
<1>5. CASE \/ PersistPurchase(r) \/ PersistRejected(r) \/ PersistFails(r)
           \/ RecordFailure(r) \/ RecordFailureFails(r)
  BY <1>5 DEF PersistPurchase, PersistRejected, PersistFails, RecordFailure,
              RecordFailureFails
<1>. QED BY <1>1, <1>2, <1>3, <1>4, <1>5 DEF Moves, HandlerStep, HandlerFault

\* No handler loops and no request is answered twice: what EveryRequestAnswered
\* needs besides fairness (purchase.service.js has no retry).
THEOREM EveryHandlerAdvances == Spec => HandlersAdvance
<1>1. ASSUME TypeOK, [Next]_vars, NEW r \in Request
      PROVE  HandlerAdvances(r)
  <2>1. CASE Moves(r)
    BY <1>1, <2>1, OwnStepsAdvance DEF TypeOK, HandlerAdvances
  <2>2. ASSUME ~Moves(r)
        PROVE  /\ pc'[r] # pc[r] => StepsLeft(pc'[r]) < StepsLeft(pc[r])
               /\ pc[r] = "done" => response'[r] = response[r]
    <3>1. ASSUME pc'[r] = pc[r] /\ response'[r] = response[r]
          PROVE  /\ pc'[r] # pc[r] => StepsLeft(pc'[r]) < StepsLeft(pc[r])
                 /\ pc[r] = "done" => response'[r] = response[r]
      BY <3>1
    <3>2. ASSUME NEW q \in Request, Moves(q)
          PROVE  pc'[r] = pc[r] /\ response'[r] = response[r]
      BY <1>1, <2>2, <3>2, OneHandlerMoves DEF TypeOK
    <3>3. ASSUME (\E d \in Sale : StartServer(d)) \/ StopServer
          PROVE  pc'[r] = pc[r] /\ response'[r] = response[r]
      BY <3>3 DEF StartServer, StopServer, requestVars
    <3>4. ASSUME CrashServer
          PROVE  /\ pc'[r] # pc[r] => StepsLeft(pc'[r]) < StepsLeft(pc[r])
                 /\ pc[r] = "done" => response'[r] = response[r]
      BY <1>1, <3>4 DEF CrashServer, InFlight, StepsLeft, TypeOK, PurchaseTypeOK,
                        Pc
    <3>5. CASE UNCHANGED <<pc, response>>
      BY <3>5
    <3>. QED BY <1>1, <3>1, <3>2, <3>3, <3>4, <3>5, PurchaseCases
             DEF Next, ProcessStep, vars, purchaseVars, requestVars
  <2>. QED BY <2>1, <2>2 DEF Moves, HandlerAdvances
<1>2. TypeOK /\ [Next]_vars => [\A r \in Request : HandlerAdvances(r)]_vars
  BY <1>1
<1>. QED BY <1>2, TypeCorrect, PTL DEF Spec, HandlersAdvance

\* How many steps a CLI run has left, at most: seven for each record, counted
\* down from the read to the pop.
CliStepsLeft(label) ==
  CASE label = "read"   -> 6
    [] label = "find"   -> 5
    [] label = "create" -> 4
    [] label = "refind" -> 3
    [] label = "check"  -> 2
    [] label = "pop"    -> 1
    [] label = "off"    -> 0

WorkLeft(w) == 7 * cliLeft[w] + CliStepsLeft(cliPc[w])

\* Each step of a run leaves it less to do, and nobody gives it more: a run
\* with a limit ends after seven steps for each record and six more, even if
\* the API pushes records faster than it repairs them.  (A run without one is
\* some run with a limit up to any of its steps, but it has no such bound.)
RunAdvances(w) ==
  cliPc[w] # "off" =>
    /\ WorkLeft(w)' <= WorkLeft(w)
    /\ CliStep(w) \/ CliFails(w) => WorkLeft(w)' < WorkLeft(w)

RunsAdvance == [][\A w \in Worker : RunAdvances(w)]_vars

LEMMA OwnRunAdvances ==
  ASSUME ReconcileTypeOK, NEW w \in Worker, cliPc[w] # "off",
         CliStep(w) \/ CliFails(w)
  PROVE  WorkLeft(w)' < WorkLeft(w)
<1>. USE DEF ReconcileTypeOK, WorkLeft, CliStepsLeft, CliExit, CliGoTo, CliRepaired
<1>0. cliLeft[w] \in Nat /\ cliPc[w] \in CliPc
  OBVIOUS
<1>1. CASE FinishReconcile(w) \/ CreateRejected(w) \/ CliFails(w)
  BY <1>0, <1>1 DEF FinishReconcile, CreateRejected, CliFails, CliPc
<1>2. CASE ReadHead(w)
  BY <1>0, <1>2 DEF ReadHead, StepAfterMalformed
<1>3. CASE FindPersisted(w) \/ RefindPersisted(w)
  BY <1>0, <1>3 DEF FindPersisted, RefindPersisted
<1>4. CASE CreateMissing(w) \/ CreateConflicts(w)
  BY <1>0, <1>4 DEF CreateMissing, CreateConflicts
<1>5. CASE CheckHead(w)
  BY <1>0, <1>5 DEF CheckHead
<1>6. CASE PopHead(w)
  BY <1>0, <1>6 DEF PopHead
<1>7. ~\E n \in Limit : StartReconcile(w, n)
  BY DEF StartReconcile
<1>. QED BY <1>1, <1>2, <1>3, <1>4, <1>5, <1>6, <1>7 DEF CliStep

LEMMA OtherRunsWait ==
  ASSUME ReconcileTypeOK, NEW v \in Worker, CliStep(v) \/ CliFails(v),
         NEW w \in Worker, w # v
  PROVE  cliPc'[w] = cliPc[w] /\ cliLeft'[w] = cliLeft[w]
<1>. USE DEF ReconcileTypeOK, CliExit, CliGoTo, CliRepaired
<1>1. CASE (\E n \in Limit : StartReconcile(v, n)) \/ FinishReconcile(v) \/ ReadHead(v)
  BY <1>1 DEF StartReconcile, FinishReconcile, ReadHead
<1>2. CASE FindPersisted(v) \/ RefindPersisted(v) \/ CheckHead(v)
  BY <1>2 DEF FindPersisted, RefindPersisted, CheckHead
<1>3. CASE CreateMissing(v) \/ CreateConflicts(v) \/ CreateRejected(v)
  BY <1>3 DEF CreateMissing, CreateConflicts, CreateRejected
<1>4. CASE PopHead(v) \/ CliFails(v)
  BY <1>4 DEF PopHead, CliFails
<1>. QED BY <1>1, <1>2, <1>3, <1>4 DEF CliStep

\* The CLI's loop is bounded by its limit and not by the list, which others
\* lengthen meanwhile (runPurchasePersistenceReconciliation, the while loop):
\* what GrantedEventuallySettled needs of it besides fairness.
THEOREM EveryRunAdvances == Spec => RunsAdvance
<1>1. ASSUME TypeOK, [Next]_vars, NEW w \in Worker, cliPc[w] # "off"
      PROVE  /\ WorkLeft(w)' <= WorkLeft(w)
             /\ CliStep(w) \/ CliFails(w) => WorkLeft(w)' < WorkLeft(w)
  <2>1. WorkLeft(w) \in Int
    BY <1>1 DEF TypeOK, ReconcileTypeOK, WorkLeft, CliStepsLeft, CliPc
  <2>2. CASE CliStep(w) \/ CliFails(w)
    <3>1. WorkLeft(w)' < WorkLeft(w)
      BY <1>1, <2>2, OwnRunAdvances DEF TypeOK
    <3>2. WorkLeft(w)' \in Int
      BY <1>1, NextTypes DEF TypeOK, ReconcileTypeOK, WorkLeft, CliStepsLeft, CliPc
    <3>. QED BY <2>1, <3>1, <3>2
  <2>3. CASE ~(CliStep(w) \/ CliFails(w))
    <3>1. cliPc'[w] = cliPc[w] /\ cliLeft'[w] = cliLeft[w]
      BY <1>1, <2>3, OtherRunsWait
      DEF TypeOK, Next, ReconcileNext, EnqueueExternal, reconcileVars, workerVars,
          vars
    <3>2. WorkLeft(w)' = WorkLeft(w)
      BY <3>1 DEF WorkLeft
    <3>. QED BY <2>1, <2>3, <3>2
  <2>. QED BY <2>2, <2>3
<1>2. TypeOK /\ [Next]_vars => [\A w \in Worker : RunAdvances(w)]_vars
  BY <1>1 DEF RunAdvances
<1>. QED BY <1>2, TypeCorrect, PTL DEF Spec, RunsAdvance

=============================================================================
