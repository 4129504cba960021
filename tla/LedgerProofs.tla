----------------------------- MODULE LedgerProofs -----------------------------
(***************************************************************************)
(* FlashSale implements PurchaseLedger, for every value of the constants.  *)
(* Each step is a step of the ledger or none: the lemmas below go from the *)
(* steps that no claim notices to those that close, accept and book one.   *)
(***************************************************************************)
EXTENDS FlashSaleLedger, BookingProofs

-----------------------------------------------------------------------------
(* What a step of one component leaves alone.                              *)

\* The gate as the ledger sees it.
SameRound == UNCHANGED <<stock, resets, purchasedUsers>>

\* Nobody is granted anything, and who holds an item does not change.
SameOwners ==
  /\ granted' = granted
  /\ \A r \in granted : user'[r] = user[r]

LEMMA OwnersStay ==
  ASSUME SameOwners
  PROVE  ledgerOwner' = ledgerOwner
BY DEF SameOwners, ledgerOwner

LEMMA RoundStays ==
  ASSUME SameRound
  PROVE  ledgerLeft' = ledgerLeft /\ purchasedUsers' = purchasedUsers
BY DEF SameRound, ledgerLeft

\* The claim of a request whose handler does not move, with the same table.
LEMMA ClaimStays ==
  ASSUME NEW q \in Request, purchases' = purchases,
         pc'[q] = pc[q], response'[q] = response[q],
         saleId'[q] = saleId[q], user'[q] = user[q],
         q \in granted' <=> q \in granted,
         q \in unrecorded' <=> q \in unrecorded
  PROVE  ClaimOf(q)' = ClaimOf(q)
BY DEF ClaimOf, GivenUp, Booking

\* A handler logs a lost record of its own request only.
LEMMA OneRecordLost ==
  ASSUME NEW r \in Request, Moves(r), NEW q \in Request, q # r
  PROVE  q \in unrecorded' <=> q \in unrecorded
BY DEF Moves, RejectUserId, ReceivePurchase, HandlerStep, GrantPurchase,
       RefusePurchase, ReadActiveSaleId, EnsureActiveSale, CacheActiveSaleId,
       PersistPurchase, PersistRejected, RecordFailure, HandlerFault,
       ScriptUnavailable, ScriptReplyLost, ResolveFails, PersistFails,
       RecordFailureFails, ScriptEffect, SetActiveSaleId, BookingUnchanged

\* So with the same table the claims of the others stay.
LEMMA OtherClaimsStay ==
  ASSUME PurchaseTypeOK, NEW r \in Request, Moves(r), purchases' = purchases
  PROVE  \A q \in Request \ {r} : ClaimOf(q)' = ClaimOf(q)
<1>. SUFFICES ASSUME NEW q \in Request, q # r
              PROVE  ClaimOf(q)' = ClaimOf(q)
  OBVIOUS
<1>. QED BY OneHandlerMoves, OneRecordLost, ClaimStays

-----------------------------------------------------------------------------
(* The three ways in which r's claim may move.                             *)

\* With the same round, owners and table, r's claim stays or is given up.
LEMMA StayOrGiveUp ==
  ASSUME SameRound, SameOwners, purchases' = purchases, NEW r \in Request,
         \A q \in Request \ {r} : ClaimOf(q)' = ClaimOf(q),
         \/ ClaimOf(r)' = ClaimOf(r)
         \/ ClaimOf(r) = "open" /\ ClaimOf(r)' = "closed"
         \/ ClaimOf(r) = "owed" /\ ClaimOf(r)' = "lost"
  PROVE  [Ledger!Next]_(Ledger!ledgerVars)
<1>0. UNCHANGED <<ledgerLeft, purchasedUsers, ledgerOwner, purchases>>
  BY OwnersStay, RoundStays
<1>1. CASE ClaimOf(r)' = ClaimOf(r)
  <2>1. ledgerClaim' = ledgerClaim
    BY <1>1 DEF ledgerClaim
  <2>. QED BY <1>0, <2>1 DEF Ledger!ledgerVars
<1>2. CASE ClaimOf(r)' # ClaimOf(r)
  <2>1. ledgerClaim' = [q \in Request |->
                          IF q \notin {r} THEN ledgerClaim[q]
                          ELSE IF ledgerClaim[q] = "open" THEN "closed" ELSE "lost"]
    BY <1>2 DEF ledgerClaim
  <2>2. Ledger!GiveUp({r})
    BY <1>0, <1>2, <2>1 DEF Ledger!GiveUp, ledgerClaim
  <2>. QED BY <2>2 DEF Ledger!Next
<1>. QED BY <1>1, <1>2

\* r resolves a sale for which its user has a row already, or not.
LEMMA StayOrFind ==
  ASSUME TypeOK, SameRound, SameOwners, purchases' = purchases,
         NEW r \in granted, r \in Request,
         \A q \in Request \ {r} : ClaimOf(q)' = ClaimOf(q),
         ClaimOf(r) \in {"owed", "lost"},
         ClaimOf(r)' \in {ClaimOf(r), "booked"}
  PROVE  [Ledger!Next]_(Ledger!ledgerVars)
<1>0. UNCHANGED <<ledgerLeft, purchasedUsers, ledgerOwner, purchases>>
  BY OwnersStay, RoundStays
<1>1. CASE ClaimOf(r)' = ClaimOf(r)
  <2>1. ledgerClaim' = ledgerClaim
    BY <1>1 DEF ledgerClaim
  <2>. QED BY <1>0, <2>1 DEF Ledger!ledgerVars
<1>2. CASE ClaimOf(r)' # ClaimOf(r)
  <2>1. ledgerClaim' = [q \in Request |->
                          IF q \in {r} THEN "booked" ELSE ledgerClaim[q]]
    BY <1>2 DEF ledgerClaim
  <2>. DEFINE row == Booking(r)'
  <2>2. row \in purchases /\ row.user = user[r]
    BY <1>2 DEF ClaimOf, GivenUp, Booking, SameOwners
  <2>3. Ledger!Book(row, {r})
    BY <1>0, <2>1, <2>2 DEF Ledger!Book, ledgerClaim, ledgerOwner
  <2>4. row \in [sale : Sale, user : User]
    BY <2>2 DEF TypeOK, StoresTypeOK
  <2>. QED BY <2>3, <2>4 DEF Ledger!Next
<1>. QED BY <1>1, <1>2

\* A new row, for the grants that are booked by it or for a record pushed by
\* hand.
LEMMA NewRow ==
  ASSUME TypeOK, SameRound, SameOwners, UNCHANGED saleId,
         NEW row \in [sale : Sale, user : User], row \notin purchases,
         purchases' = purchases \cup {row},
         \/ \E q \in granted : Booking(q) = row
         \/ row \in ledgerImports,
         \A q \in Request :
           \/ q \in granted /\ Booking(q) = row
           \/ /\ GivenUp(q)' = GivenUp(q)
              /\ q \notin granted => (pc'[q] = "done" <=> pc[q] = "done")
  PROVE  Ledger!Next
<1>. DEFINE S == {q \in granted : Booking(q) = row}
<1>0. granted \subseteq Request
  BY DEF TypeOK, PurchaseTypeOK
<1>1. \A q \in granted : Booking(q)' = Booking(q)
  BY <1>0 DEF SameOwners, Booking
<1>2. ASSUME NEW q \in Request
      PROVE  ClaimOf(q)' = IF q \in S THEN "booked" ELSE ClaimOf(q)
  <2>1. CASE q \in S
    BY <1>1, <2>1 DEF ClaimOf, SameOwners
  <2>2. CASE q \notin granted
    BY <2>2 DEF ClaimOf, SameOwners
  <2>3. CASE q \in granted /\ q \notin S
    <3>1. Booking(q)' \in purchases' <=> Booking(q) \in purchases
      BY <1>1, <2>3
    <3>2. GivenUp(q)' = GivenUp(q)
      BY <2>3
    <3>. QED BY <2>3, <3>1, <3>2 DEF ClaimOf, SameOwners
  <2>. QED BY <2>1, <2>2, <2>3
<1>3. ledgerClaim' = [q \in Request |-> IF q \in S THEN "booked" ELSE ledgerClaim[q]]
  BY <1>2 DEF ledgerClaim
<1>4. \A q \in S : ledgerClaim[q] \in {"owed", "lost"} /\ ledgerOwner[q] = row.user
  BY <1>0 DEF ledgerClaim, ClaimOf, ledgerOwner, Booking
<1>5. Ledger!Book(row, S)
  BY <1>3, <1>4, OwnersStay, RoundStays DEF Ledger!Book
<1>6. S \in SUBSET Request
  BY <1>0
<1>. HIDE DEF S
<1>. QED BY <1>5, <1>6 DEF Ledger!Next

-----------------------------------------------------------------------------
(* The steps of a handler.                                                 *)

\* The script grants r an item, whether or not the handler hears of it.
LEMMA GrantAccepts ==
  ASSUME TypeOK, GateInv, HandlerInv, NEW r \in Request,
         pc[r] = "script", ScriptResult(r) = "SUCCESS", Moves(r),
         GrantPurchase(r) \/ ScriptReplyLost(r)
  PROVE  Ledger!Next
<1>0. /\ StoresTypeOK /\ PurchaseTypeOK /\ HandlerOK(r) /\ user[r] \in User
      /\ r \notin granted /\ saleId[r] = NoSale
  BY DEF TypeOK, PurchaseTypeOK, HandlerInv, HandlerOK, GateInv
<1>1. ScriptEffect(r)
  BY DEF GrantPurchase, ScriptReplyLost
<1>2. stock \in Nat /\ stock > 0 /\ user[r] \notin purchasedUsers /\ resets # <<>>
  BY <1>0, ScriptResults, GrantNeedsReset
<1>3. /\ ledgerLeft > 0
      /\ ledgerLeft' = ledgerLeft - 1
      /\ purchasedUsers' = purchasedUsers \cup {user[r]}
      /\ purchases' = purchases
  BY <1>1, <1>2 DEF ScriptEffect, ledgerLeft, DecrStock, AddUser, postgresVars
<1>4. ledgerClaim[r] = "open"
  BY <1>0 DEF ledgerClaim, ClaimOf
<1>5. granted' = granted \cup {r} /\ user' = user /\ saleId' = saleId
  BY <1>1 DEF ScriptEffect
<1>6. ClaimOf(r)' \in {"owed", "lost"}
  <2>1. Booking(r) \notin purchases
    BY <1>0, StoresAssumption DEF Booking, StoresTypeOK
  <2>. QED BY <1>3, <1>5, <2>1 DEF ClaimOf, Booking
<1>7. ledgerClaim' = [ledgerClaim EXCEPT ![r] = ClaimOf(r)']
  BY <1>0, <1>3, OtherClaimsStay DEF ledgerClaim
<1>8. ledgerOwner' = [ledgerOwner EXCEPT ![r] = user[r]]
  BY <1>5 DEF ledgerOwner
<1>9. Ledger!Accept(r, user[r], ClaimOf(r)')
  BY <1>2, <1>3, <1>4, <1>7, <1>8 DEF Ledger!Accept
<1>. QED BY <1>0, <1>6, <1>9 DEF Ledger!Next

\* r's handler ends before the script grants it anything.
LEMMA RefusalCloses ==
  ASSUME TypeOK, GateInv, NEW r \in Request, Moves(r),
         pc[r] \in {"idle", "script"},
         SameRound, granted' = granted, purchases' = purchases
  PROVE  [Ledger!Next]_(Ledger!ledgerVars)
<1>0. PurchaseTypeOK /\ r \notin granted /\ granted \subseteq Request
  BY DEF TypeOK, PurchaseTypeOK, GateInv
<1>1. SameOwners
  BY <1>0, OneHandlerMoves DEF SameOwners
<1>2. /\ ClaimOf(r) = "open"
      /\ ClaimOf(r)' \in {"open", "closed"}
  BY <1>0 DEF ClaimOf
<1>. QED BY <1>0, <1>1, <1>2, OtherClaimsStay, StayOrGiveUp

\* r's handler resolves its sale.
LEMMA ResolveFinds ==
  ASSUME TypeOK, HandlerInv, NEW r \in Request,
         ReadActiveSaleId(r) \/ EnsureActiveSale(r)
  PROVE  [Ledger!Next]_(Ledger!ledgerVars)
<1>0. /\ PurchaseTypeOK /\ Moves(r) /\ r \in granted /\ saleId[r] = NoSale
  BY DEF TypeOK, HandlerInv, HandlerOK, Moves, HandlerStep, ReadActiveSaleId,
         EnsureActiveSale
<1>1. /\ SameRound /\ SameOwners /\ purchases' = purchases
      /\ response' = response /\ unrecorded' = unrecorded /\ user' = user
  BY DEF ReadActiveSaleId, EnsureActiveSale, SameRound, SameOwners, GoTo,
         storeVars, redisVars, postgresVars
<1>2. Booking(r) \notin purchases
  BY <1>0, StoresAssumption DEF Booking, TypeOK, StoresTypeOK
<1>3. /\ ClaimOf(r) \in {"owed", "lost"}
      /\ ClaimOf(r)' \in {ClaimOf(r), "booked"}
  BY <1>0, <1>1, <1>2 DEF ClaimOf, GivenUp, SameOwners
<1>. QED BY <1>0, <1>1, <1>3, OtherClaimsStay, StayOrFind

\* r's handler goes on, or ends, without a new row.
LEMMA NoRowStep ==
  ASSUME TypeOK, HandlerInv, NEW r \in Request, Moves(r),
         \/ CacheActiveSaleId(r) \/ ResolveFails(r) \/ PersistRejected(r)
         \/ RecordFailure(r) \/ RecordFailureFails(r)
         \/ PersistFails(r) /\ purchases' = purchases
  PROVE  [Ledger!Next]_(Ledger!ledgerVars)
<1>0. /\ PurchaseTypeOK /\ r \in granted /\ response[r] = "none"
  BY DEF TypeOK, PurchaseTypeOK, HandlerInv, HandlerOK, CacheActiveSaleId,
         ResolveFails, PersistRejected, RecordFailure, RecordFailureFails,
         PersistFails
<1>1. /\ SameRound /\ SameOwners /\ purchases' = purchases
      /\ user' = user /\ saleId' = saleId
      /\ r \in unrecorded => r \in unrecorded'
  BY DEF CacheActiveSaleId, ResolveFails, PersistRejected, RecordFailure,
         RecordFailureFails, PersistFails, SetActiveSaleId, BookingUnchanged,
         SameRound, SameOwners, redisVars, postgresVars, gateVars
<1>2. \/ ClaimOf(r)' = ClaimOf(r)
      \/ ClaimOf(r) = "owed" /\ ClaimOf(r)' = "lost"
  BY <1>0, <1>1 DEF ClaimOf, GivenUp, Booking, SameOwners
<1>. QED BY <1>0, <1>1, <1>2, OtherClaimsStay, StayOrGiveUp

\* r's handler inserts the row.
LEMMA RowStep ==
  ASSUME TypeOK, HandlerInv, NEW r \in Request,
         PersistPurchase(r) \/ PersistFails(r), purchases' # purchases
  PROVE  Ledger!Next
<1>0. /\ StoresTypeOK /\ PurchaseTypeOK /\ r \in granted
      /\ saleId[r] \in Sale /\ user[r] \in User
  BY DEF TypeOK, PurchaseTypeOK, HandlerInv, HandlerOK, PersistPurchase,
         PersistFails
<1>1. /\ SameRound /\ SameOwners /\ UNCHANGED <<saleId, unrecorded>>
      /\ purchases' = purchases \cup {Booking(r)}
      /\ \A q \in Request \ {r} : pc'[q] = pc[q] /\ response'[q] = response[q]
  BY <1>0 DEF PersistPurchase, PersistFails, BookingUnchanged, SameRound,
    SameOwners, gateVars, InsertPurchase, Booking, Reply, GoTo, PurchaseTypeOK
<1>2. Booking(r) \notin purchases
  BY <1>1
<1>3. Booking(r) \in [sale : Sale, user : User]
  BY <1>0 DEF Booking
<1>4. \A q \in Request :
        \/ q \in granted /\ Booking(q) = Booking(r)
        \/ /\ GivenUp(q)' = GivenUp(q)
           /\ q \notin granted => (pc'[q] = "done" <=> pc[q] = "done")
  BY <1>0, <1>1 DEF GivenUp
<1>. HIDE DEF Booking
<1>. QED BY <1>0, <1>1, <1>2, <1>3, <1>4, NewRow

-----------------------------------------------------------------------------
(* All steps.                                                              *)

\* A crash gives up the requests in flight, those without an item and those
\* with one.
LEMMA CrashGivesUp ==
  ASSUME TypeOK, CrashServer
  PROVE  Ledger!Next
<1>. DEFINE S == {r \in InFlight : ClaimOf(r) \in {"open", "owed"}}
<1>0. PurchaseTypeOK
  BY DEF TypeOK
<1>1. /\ SameRound /\ SameOwners /\ purchases' = purchases
      /\ UNCHANGED <<saleId, user, unrecorded, granted>>
  BY DEF CrashServer, SameRound, SameOwners, redisVars, postgresVars
<1>2. ASSUME NEW q \in Request
      PROVE  ClaimOf(q)' = IF q \notin S THEN ClaimOf(q)
                           ELSE IF ClaimOf(q) = "open" THEN "closed" ELSE "lost"
  <2>1. CASE q \notin InFlight
    <3>1. pc'[q] = pc[q] /\ response'[q] = response[q]
      BY <2>1 DEF CrashServer
    <3>. QED BY <1>1, <2>1, <3>1, ClaimStays
  <2>2. CASE q \in InFlight
    <3>1. pc'[q] = "done" /\ response'[q] = "dropped" /\ pc[q] # "done"
      BY <2>2 DEF CrashServer, InFlight
    <3>2. Booking(q)' = Booking(q)
      BY <1>1 DEF Booking
    <3>. QED BY <1>1, <2>2, <3>1, <3>2 DEF ClaimOf, GivenUp
  <2>. QED BY <2>1, <2>2
<1>3. ledgerClaim' = [q \in Request |->
                        IF q \notin S THEN ledgerClaim[q]
                        ELSE IF ledgerClaim[q] = "open" THEN "closed" ELSE "lost"]
  BY <1>2 DEF ledgerClaim
<1>4. \A r \in S : ledgerClaim[r] \in {"open", "owed"}
  BY DEF ledgerClaim, InFlight
<1>5. Ledger!GiveUp(S)
  BY <1>1, <1>3, <1>4, OwnersStay, RoundStays DEF Ledger!GiveUp
<1>6. S \in SUBSET Request
  BY DEF InFlight
<1>. HIDE DEF S
<1>. QED BY <1>5, <1>6 DEF Ledger!Next

LEMMA HandlerImplements ==
  ASSUME TypeOK, GateInv, HandlerInv, NEW r \in Request, Moves(r)
  PROVE  [Ledger!Next]_(Ledger!ledgerVars)
<1>1. CASE \E raw \in RawUserId :
             RejectUserId(r, raw) \/ \E t \in Instant : ReceivePurchase(r, raw, t)
  <2>1. /\ pc[r] = "idle" /\ SameRound /\ granted' = granted
        /\ purchases' = purchases
    BY <1>1 DEF RejectUserId, ReceivePurchase, SameRound, storeVars, redisVars,
                postgresVars
  <2>. QED BY <2>1, RefusalCloses
<1>2. CASE GrantPurchase(r) \/ (ScriptReplyLost(r) /\ ScriptResult(r) = "SUCCESS")
  BY <1>2, GrantAccepts DEF GrantPurchase, ScriptReplyLost
<1>3. CASE \/ RefusePurchase(r) \/ ScriptUnavailable(r)
           \/ ScriptReplyLost(r) /\ ScriptResult(r) # "SUCCESS"
  <2>1. /\ pc[r] = "script" /\ SameRound /\ granted' = granted
        /\ purchases' = purchases
    BY <1>3 DEF RefusePurchase, ScriptUnavailable, ScriptReplyLost, ScriptEffect,
                SameRound, redisVars, postgresVars
  <2>. QED BY <2>1, RefusalCloses
<1>4. CASE ReadActiveSaleId(r) \/ EnsureActiveSale(r)
  BY <1>4, ResolveFinds
<1>5. CASE \/ CacheActiveSaleId(r) \/ ResolveFails(r) \/ PersistRejected(r)
           \/ RecordFailure(r) \/ RecordFailureFails(r)
           \/ PersistFails(r) /\ purchases' = purchases
  BY <1>5, NoRowStep
<1>6. CASE PersistPurchase(r) \/ (PersistFails(r) /\ purchases' # purchases)
  <2>1. PersistPurchase(r) => purchases' # purchases
    BY DEF PersistPurchase, InsertOutcome, InsertPurchase
  <2>. QED BY <1>6, <2>1, RowStep
<1>. QED BY <1>1, <1>2, <1>3, <1>4, <1>5, <1>6 DEF Moves, HandlerStep, HandlerFault

\* The init script opens a round or does nothing that the ledger sees.
LEMMA InitSaleImplements ==
  ASSUME TypeOK, InitSaleNext, UNCHANGED purchaseVars
  PROVE  [Ledger!Next]_(Ledger!ledgerVars)
<1>0. /\ purchases' = purchases /\ ledgerClaim' = ledgerClaim
      /\ ledgerOwner' = ledgerOwner
  <2>1. purchases' = purchases /\ UNCHANGED <<pc, user, saleId, response, granted, unrecorded>>
    BY InitSaleWork DEF purchaseVars, requestVars
  <2>. QED BY <2>1 DEF ledgerClaim, ledgerOwner, ClaimOf, GivenUp, Booking
<1>1. ASSUME NEW i \in InitProc, InitStep(i), ~ResetConfiguredSale(i)
      PROVE  [Ledger!Next]_(Ledger!ledgerVars)
  <2>1. SameRound
    BY <1>1 DEF InitStep, StartInit, EnsureConfiguredSale, InitFails, SameRound,
                storeVars, redisVars
  <2>. QED BY <1>0, <2>1, RoundStays DEF Ledger!ledgerVars
<1>2. ASSUME NEW n \in Nat, NEW sale, ResetSaleState(n, sale)
      PROVE  Ledger!Next
  <2>1. resets \in Seq([sale : Sale \cup {NoSale}, stock : Nat])
    BY DEF TypeOK, StoresTypeOK
  <2>2. ledgerLeft' = n /\ purchasedUsers' = {}
    <3>1. resets' # <<>>
      BY <1>2, <2>1 DEF ResetSaleState
    <3>. QED BY <1>2, <3>1 DEF ResetSaleState, ledgerLeft, BuyersAfterReset
  <2>3. Ledger!OpenRound
    BY <1>0, <2>2 DEF Ledger!OpenRound
  <2>. QED BY <2>3 DEF Ledger!Next
<1>3. ASSUME NEW i \in InitProc, ResetConfiguredSale(i)
      PROVE  Ledger!Next
  BY <1>2, <1>3 DEF ResetConfiguredSale, TypeOK, InitSaleTypeOK
<1>4. ASSUME NEW n \in StockAfterBareReset, BareReset(n)
      PROVE  Ledger!Next
  <2>1. n \in Nat
    BY StoresAssumption, InitAssumption DEF StockAfterBareReset
  <2>. QED BY <1>2, <1>4, <2>1 DEF BareReset
<1>. QED BY <1>1, <1>3, <1>4 DEF InitSaleNext

\* The CLI books a known record or does nothing that the ledger sees.
LEMMA ReconcileImplements ==
  ASSUME TypeOK, GateInv, BackedInv, ReconcileNext, UNCHANGED purchaseVars
  PROVE  [Ledger!Next]_(Ledger!ledgerVars)
<1>0. /\ SameRound /\ SameOwners
      /\ UNCHANGED <<pc, user, saleId, response, granted, unrecorded>>
  BY DEF ReconcileNext, CliStep, EnqueueExternal, StartReconcile,
    FinishReconcile, ReadHead, FindPersisted, CreateMissing, CreateConflicts,
    CreateRejected, RefindPersisted, CheckHead, PopHead, CliFails, ArchiveAndPop,
    SameRound, SameOwners, purchaseVars, requestVars, storeVars, redisVars, gateVars
<1>1. CASE purchases' = purchases
  <2>1. ledgerClaim' = ledgerClaim
    BY <1>0, <1>1 DEF ledgerClaim, ClaimOf, GivenUp, Booking
  <2>. QED BY <1>0, <1>1, <2>1, OwnersStay, RoundStays DEF Ledger!ledgerVars
<1>2. CASE purchases' # purchases
  <2>1. PICK w \in Worker : CreateMissing(w)
    BY <1>2 DEF ReconcileNext, CliStep, EnqueueExternal, StartReconcile,
      FinishReconcile, ReadHead, FindPersisted, CreateConflicts, CreateRejected,
      RefindPersisted, CheckHead, PopHead, CliFails, ArchiveAndPop, storeVars,
      postgresVars
  <2>. DEFINE row == [sale |-> ParsedSale(cliRaw[w]), user |-> ParsedUser(cliRaw[w])]
  <2>2. /\ purchases' = purchases \cup {row} /\ row \notin purchases
        /\ cliPc[w] = "create" /\ ParsedSale(cliRaw[w]) \in sales
    BY <2>1 DEF CreateMissing, InsertPurchase, RepairUser, RepairOutcome,
                InsertOutcome
  <2>3. row \in [sale : Sale, user : User]
    <3>1. ~IsMalformed(cliRaw[w]) /\ cliRaw[w] \in RawRecord
      BY <2>2 DEF TypeOK, ReconcileTypeOK
    <3>2. ParsedSale(cliRaw[w]) \in Sale
      BY <2>2 DEF TypeOK, StoresTypeOK
    <3>3. ParsedUser(cliRaw[w]) \in User
      BY <3>1, StoresAssumption
      DEF IsMalformed, ParsedUser, CanonicalUserId, RawRecord
    <3>. QED BY <3>2, <3>3
  <2>4. \/ \E q \in granted : Booking(q) = row
        \/ row \in ledgerImports
    <3>1. KnownRecord(cliRaw[w]) /\ ParsedSale(cliRaw[w]) \in Sale
      BY <2>2, <2>3 DEF BackedInv
    <3>2. \/ \E q \in granted : Booking(q) = row
          \/ cliRaw[w] \in enqueued
      BY <3>1, KnownIsBacked, GateGranted
    <3>3. enqueued \subseteq ExternalRecord
      BY DEF TypeOK, ReconcileTypeOK
    <3>. QED BY <3>2, <3>3 DEF ledgerImports
  <2>5. \A q \in Request :
          /\ GivenUp(q)' = GivenUp(q)
          /\ pc'[q] = "done" <=> pc[q] = "done"
    BY <1>0 DEF GivenUp
  <2>. HIDE DEF row
  <2>6. Ledger!Next
    BY <1>0, <2>2, <2>3, <2>4, <2>5, NewRow
  <2>. QED BY <2>6
<1>. QED BY <1>1, <1>2

LEMMA LedgerInit == Init => Ledger!Init
<1>. SUFFICES ASSUME Init PROVE Ledger!Init
  OBVIOUS
<1>1. /\ ledgerLeft = 0 /\ purchasedUsers = {} /\ purchases = {}
      /\ ledgerClaim = [r \in Request |-> "open"]
      /\ ledgerOwner = [r \in Request |-> InvalidUserId]
  BY DEF Init, StoresInit, PurchaseInit, ledgerLeft, ledgerClaim, ClaimOf,
         ledgerOwner
<1>. QED BY <1>1 DEF Ledger!Init

LEMMA LedgerNext ==
  TypeOK /\ GateInv /\ HandlerInv /\ BackedInv /\ [Next]_vars
    => [Ledger!Next]_(Ledger!ledgerVars)
<1>. SUFFICES ASSUME TypeOK, GateInv, HandlerInv, BackedInv, [Next]_vars
              PROVE  [Ledger!Next]_(Ledger!ledgerVars)
  OBVIOUS
<1>1. CASE PurchaseNext
  <2>1. CASE CrashServer
    BY <2>1, CrashGivesUp
  <2>2. ASSUME UNCHANGED <<requestVars, storeVars>>
        PROVE  UNCHANGED Ledger!ledgerVars
    BY <2>2 DEF Ledger!ledgerVars, ledgerLeft, ledgerClaim, ledgerOwner, ClaimOf,
                GivenUp, Booking, requestVars, storeVars, redisVars, postgresVars
  <2>3. CASE (\E d \in Sale : StartServer(d)) \/ StopServer
    BY <2>2, <2>3 DEF StartServer, StopServer
  <2>4. CASE \E r \in Request : Moves(r)
    BY <2>4, HandlerImplements
  <2>. QED BY <1>1, <2>1, <2>3, <2>4, PurchaseCases DEF ProcessStep
<1>2. CASE InitSaleNext /\ UNCHANGED purchaseVars
  BY <1>2, InitSaleImplements
<1>3. CASE ReconcileNext /\ UNCHANGED purchaseVars
  BY <1>3, ReconcileImplements
<1>4. CASE UNCHANGED vars
  BY <1>4 DEF Ledger!ledgerVars, ledgerLeft, ledgerClaim, ledgerOwner, ClaimOf,
    GivenUp, Booking, vars, purchaseVars, requestVars, storeVars, redisVars,
    postgresVars
<1>. QED BY <1>1, <1>2, <1>3, <1>4 DEF Next

\* FlashSale implements the ledger: whatever the handlers, the init script and
\* the CLI do, in any order and with any failure, an item is taken only from
\* what the round has left by a user who has none, no claim is undecided, and
\* every row is a claim's or an operator's (purchase.lua, purchase.service.js,
\* init-sale.js, purchase-reconciliation.service.js).
THEOREM FlashSaleImplementsLedger == Spec => ImplementsLedger
<1>. QED
  BY LedgerInit, LedgerNext, TypeCorrect, GateInvariant, HandlerInvariant,
     BackedInvariant, PTL
  DEF Spec, ImplementsLedger, Ledger!Spec

=============================================================================
