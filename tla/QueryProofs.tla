----------------------------- MODULE QueryProofs -----------------------------
(***************************************************************************)
(* Theorems about the two queries, for every number of queries, purchases, *)
(* resets and processes.  They rest on the gate's invariant, and on the    *)
(* fact that the queries only look: whatever holds of FlashSale holds of   *)
(* it together with them.                                                  *)
(***************************************************************************)
EXTENDS Queries, BookingProofs

-----------------------------------------------------------------------------
(* The queries change nothing.                                             *)

LEMMA QueryStepObserves == [QueryNext]_allVars => [Next]_vars
<1>. SUFFICES ASSUME [QueryNext]_allVars PROVE [Next]_vars
  OBVIOUS
<1>1. CASE FlashSaleStep
  BY <1>1 DEF FlashSaleStep
<1>2. CASE CrashDropsQueries
  BY <1>2 DEF CrashDropsQueries, Next, PurchaseNext
<1>3. CASE Tick \/ QueryFails
  BY <1>3 DEF Tick, QueryFails
<1>4. ASSUME NEW q \in StatusQuery, ReceiveStatus(q) \/ AnswerStatus(q)
      PROVE  UNCHANGED vars
  BY <1>4 DEF ReceiveStatus, AnswerStatus
<1>5. ASSUME NEW l \in Lookup, NEW raw \in RawUserId,
             RejectLookup(l, raw) \/ ReceiveLookup(l, raw) \/ AnswerLookup(l)
      PROVE  UNCHANGED vars
  BY <1>5 DEF RejectLookup, ReceiveLookup, AnswerLookup
<1>6. ASSUME NEW l \in Lookup, AnswerLookup(l) PROVE UNCHANGED vars
  BY <1>6 DEF AnswerLookup
<1>. QED BY <1>1, <1>2, <1>3, <1>4, <1>5, <1>6 DEF QueryNext, allVars

\* Every behaviour with queries is a behaviour of FlashSale: neither query
\* changes a store, a handler or a run of the CLI (getSaleStatus and
\* getPurchaseStatus).
THEOREM QueriesObserveOnly == QuerySpec => Spec
<1>1. QueryInit => Init
  BY DEF QueryInit
<1>. QED BY <1>1, QueryStepObserves, PTL DEF QuerySpec, Spec

-----------------------------------------------------------------------------
(* Types.                                                                  *)

\* What a step of the whole is to the queries.
StatusStep(q) == ReceiveStatus(q) \/ AnswerStatus(q)
LookupStep(l) ==
  \/ \E raw \in RawUserId : RejectLookup(l, raw) \/ ReceiveLookup(l, raw)
  \/ AnswerLookup(l)

LEMMA QueryCases ==
  QueryNext <=> \/ FlashSaleStep
                \/ CrashDropsQueries
                \/ Tick
                \/ QueryFails
                \/ \E q \in StatusQuery : StatusStep(q)
                \/ \E l \in Lookup : LookupStep(l)
BY DEF QueryNext, StatusStep, LookupStep

\* The status of a stock that can be read.
LEMMA StatusOfStock ==
  ASSUME NEW t \in Int, NEW d \in Sale, stock \in Nat \cup {NoStock},
         StockReadable(stock)
  PROVE  /\ stock \in Nat
         /\ GetSaleStatus(t, StartTime[d], EndTime[d], stock) =
              IF t < StartTime[d] THEN "upcoming"
              ELSE IF t > EndTime[d] THEN "ended"
              ELSE IF stock <= 0 THEN "sold_out"
              ELSE "active"
BY DEF StockReadable, GetSaleStatus, ComputeSaleStatus

\* The API process does not end under a status query.
LEMMA ProcessOutlivesQueries ==
  ASSUME TypeOK, FlashSaleStep, StatusInFlight # {}, apiSale # NoSale
  PROVE  apiSale' # NoSale
<1>. USE DEF requestVars, purchaseVars
<1>1. CASE PurchaseNext
  <2>1. ASSUME NEW d \in Sale, StartServer(d) PROVE apiSale' # NoSale
    BY <2>1, StoresAssumption DEF StartServer
  <2>2. ASSUME NEW r \in Request, NEW raw \in RawUserId,
               RejectUserId(r, raw) \/ \E t \in Instant : ReceivePurchase(r, raw, t)
        PROVE  apiSale' # NoSale
    BY <2>2 DEF RejectUserId, ReceivePurchase
  <2>3. ASSUME NEW r \in Request, HandlerStep(r) PROVE apiSale' # NoSale
    BY <2>3 DEF HandlerStep, GrantPurchase, RefusePurchase, ScriptEffect,
      ReadActiveSaleId, EnsureActiveSale, CacheActiveSaleId, SetActiveSaleId,
      PersistPurchase, PersistRejected, RecordFailure, BookingUnchanged
  <2>4. ASSUME NEW r \in Request, HandlerFault(r) PROVE apiSale' # NoSale
    BY <2>4 DEF HandlerFault, ScriptUnavailable, ScriptReplyLost, ScriptEffect,
      ResolveFails, SetActiveSaleId, PersistFails, RecordFailureFails,
      BookingUnchanged
  <2>. QED
    BY <1>1, <2>1, <2>2, <2>3, <2>4
    DEF PurchaseNext, FlashSaleStep
<1>2. CASE UNCHANGED purchaseVars
  BY <1>2
<1>. QED BY <1>1, <1>2 DEF FlashSaleStep, Next

LEMMA QueryTypesInit == QueryInit => QueryTypeOK
BY QueriesAssumption DEF QueryInit, QueryTypeOK, NoStatus

LEMMA QueryTypesNext == TypeOK /\ QueryTypeOK /\ [QueryNext]_allVars => QueryTypeOK'
<1>. SUFFICES ASSUME TypeOK, QueryTypeOK, [QueryNext]_allVars PROVE QueryTypeOK'
  OBVIOUS
<1>. USE QueriesAssumption DEF QueryTypeOK
<1>1. CASE FlashSaleStep
  <2>1. UNCHANGED queryVars
    BY <1>1 DEF FlashSaleStep
  <2>2. ASSUME NEW q \in StatusQuery, statusPc'[q] = "stock" PROVE apiSale' # NoSale
    BY <1>1, <2>1, <2>2, ProcessOutlivesQueries
    DEF StatusInFlight, queryVars, statusVars
  <2>. QED BY <2>1, <2>2 DEF queryVars, statusVars, lookupVars
<1>2. CASE CrashDropsQueries
  BY <1>2 DEF CrashDropsQueries, StatusInFlight, LookupsInFlight, NoStatus
<1>3. CASE Tick
  BY <1>3 DEF Tick, statusVars, lookupVars, vars, purchaseVars
<1>4. CASE QueryFails
  BY <1>4 DEF QueryFails, StatusReply, LookupReply, StatusInFlight,
              LookupsInFlight, NoStatus, statusVars, lookupVars, vars, purchaseVars
<1>5. ASSUME NEW q \in StatusQuery, ReceiveStatus(q) PROVE QueryTypeOK'
  BY <1>5 DEF ReceiveStatus, lookupVars, vars, purchaseVars
<1>6. ASSUME NEW q \in StatusQuery, AnswerStatus(q) PROVE QueryTypeOK'
  <2>. DEFINE answer == IF StockReadable(stock)
         THEN [status |-> GetSaleStatus(statusNow[q], StartTime[apiSale],
                                        EndTime[apiSale], stock),
               stock |-> stock, sale |-> apiSale, round |-> Len(resets)]
         ELSE NoStatus("internal_error")
  <2>1. /\ apiSale \in Sale /\ statusNow[q] \in Int /\ Len(resets) \in Nat
        /\ stock \in Nat \cup {NoStock} /\ statusPc[q] = "stock"
    BY <1>6 DEF AnswerStatus, TypeOK, PurchaseTypeOK, StoresTypeOK
  <2>2. answer \in [status : SaleStatus, stock : Nat, sale : Sale, round : Nat]
                     \cup {NoStatus(why) : why \in {"none", "internal_error", "dropped"}}
    BY <2>1, StatusOfStock DEF SaleStatus
  <2>3. StatusReply(q, answer) /\ UNCHANGED vars
    BY <1>6 DEF AnswerStatus
  <2>. HIDE DEF answer
  <2>. QED BY <2>2, <2>3 DEF StatusReply, lookupVars, vars, purchaseVars
<1>7. ASSUME NEW l \in Lookup, LookupStep(l) PROVE QueryTypeOK'
  <2>1. ASSUME NEW raw \in RawUserId, RejectLookup(l, raw) PROVE QueryTypeOK'
    BY <2>1 DEF RejectLookup, LookupReply, statusVars, vars, purchaseVars
  <2>2. ASSUME NEW raw \in RawUserId, ReceiveLookup(l, raw) PROVE QueryTypeOK'
    <3>1. CanonicalUserId(raw) \in User \cup {InvalidUserId}
      BY StoresAssumption DEF CanonicalUserId
    <3>2. ToldOfPurchase(CanonicalUserId(raw)) \in BOOLEAN
      BY Zenon DEF ToldOfPurchase
    <3>. QED
      BY <2>2, <3>1, <3>2 DEF ReceiveLookup, statusVars, vars, purchaseVars
  <2>3. CASE AnswerLookup(l)
    BY <2>3 DEF AnswerLookup, LookupReply, statusVars, vars, purchaseVars
  <2>. QED BY <1>7, <2>1, <2>2, <2>3 DEF LookupStep
<1>8. CASE UNCHANGED allVars
  BY <1>8 DEF allVars, queryVars, statusVars, lookupVars, vars, purchaseVars
<1>. QED
  BY <1>1, <1>2, <1>3, <1>4, <1>5, <1>6, <1>7, <1>8, QueryCases DEF StatusStep

\* Every answer is a status of the sale, or an error, and no status query is
\* left without the process that serves it (sale-status.service.js).
THEOREM QueryTypesCorrect == QuerySpec => []QueryTypeOK
<1>. QED
  BY QueryTypesInit, QueryTypesNext, QueriesObserveOnly, TypeCorrect, PTL
  DEF QuerySpec

-----------------------------------------------------------------------------
(* The purchase status.                                                    *)

\* ToldStaysTrue is not inductive: that a lookup in flight will find the
\* purchase its user was told of rests on the row being there when they were
\* told, and staying.
LookupOK(l) ==
  /\ lookupAnswer[l] # "none" => lookupPc[l] = "done"
  /\ lookupTold[l] \/ lookupAnswer[l] = "true" => HasPurchaseForUserId(lookupUser[l])
  /\ lookupTold[l] => lookupAnswer[l] # "false"

LookupInv == \A l \in Lookup : LookupOK(l)

LEMMA LookupInit == QueryInit => LookupInv
BY DEF QueryInit, LookupInv, LookupOK

\* A lookup that does not move keeps its part, whatever becomes of the stores.
LEMMA LookupFrame ==
  ASSUME NEW l \in Lookup, LookupOK(l), purchases \subseteq purchases',
         lookupPc'[l] = lookupPc[l], lookupUser'[l] = lookupUser[l],
         lookupTold'[l] = lookupTold[l],
         lookupAnswer'[l] = lookupAnswer[l]
  PROVE  LookupOK(l)'
BY DEF LookupOK, HasPurchaseForUserId

\* An answer that is an error keeps it, too.
LEMMA LookupAnswered ==
  ASSUME NEW l \in Lookup, LookupOK(l), purchases \subseteq purchases',
         lookupUser'[l] = lookupUser[l], lookupTold'[l] = lookupTold[l],
         lookupPc'[l] = "done",
         lookupAnswer'[l] \notin {"true", "false"}
  PROVE  LookupOK(l)'
BY DEF LookupOK, HasPurchaseForUserId

\* Whoever was told of a purchase has one.
LEMMA ToldHasPurchase ==
  ASSUME HandlerInv, LookupInv, NEW u, ToldOfPurchase(u)
  PROVE  HasPurchaseForUserId(u)
BY DEF ToldOfPurchase, HandlerInv, HandlerOK, LookupInv, LookupOK,
       HasPurchaseForUserId, Booking

LEMMA LookupNext ==
  TypeOK /\ GateInv /\ HandlerInv /\ QueryTypeOK /\ LookupInv
    /\ [QueryNext]_allVars => LookupInv'
<1>. SUFFICES ASSUME TypeOK, GateInv, HandlerInv, QueryTypeOK, LookupInv,
                     [QueryNext]_allVars, NEW m \in Lookup
              PROVE  LookupOK(m)'
  BY DEF LookupInv
<1>0. LookupOK(m) /\ purchases \subseteq purchases'
  BY QueryStepObserves, HistoryGrows, GateGranted DEF LookupInv
<1>1. CASE UNCHANGED lookupVars
  BY <1>0, <1>1, LookupFrame DEF lookupVars
<1>2. CASE CrashDropsQueries
  <2>1. CASE m \in LookupsInFlight
    BY <1>0, <1>2, <2>1, LookupAnswered DEF CrashDropsQueries
  <2>2. CASE m \notin LookupsInFlight
    BY <1>0, <1>2, <2>2, LookupFrame DEF CrashDropsQueries
  <2>. QED BY <2>1, <2>2
<1>3. ASSUME NEW l \in Lookup, LookupReply(l, "internal_error"),
             UNCHANGED <<lookupUser, lookupTold>>
      PROVE  LookupOK(m)'
  <2>1. CASE m = l
    BY <1>0, <1>3, <2>1, LookupAnswered DEF LookupReply, QueryTypeOK
  <2>2. CASE m # l
    BY <1>0, <1>3, <2>2, LookupFrame DEF LookupReply, QueryTypeOK
  <2>. QED BY <2>1, <2>2
<1>4. ASSUME NEW l \in Lookup, LookupStep(l) PROVE LookupOK(m)'
  <2>1. CASE m # l
    BY <1>0, <1>4, <2>1, LookupFrame
    DEF LookupStep, RejectLookup, ReceiveLookup, AnswerLookup, LookupReply,
        QueryTypeOK
  <2>2. CASE m = l
    <3>1. ASSUME NEW raw \in RawUserId, RejectLookup(l, raw) PROVE LookupOK(m)'
      BY <1>0, <2>2, <3>1, LookupAnswered DEF RejectLookup, LookupReply, QueryTypeOK
    <3>2. ASSUME NEW raw \in RawUserId, ReceiveLookup(l, raw) PROVE LookupOK(m)'
      <4>. DEFINE u == CanonicalUserId(raw)
      <4>1. /\ lookupUser'[l] = u /\ lookupPc'[l] = "find"
            /\ lookupAnswer'[l] = lookupAnswer[l] /\ lookupPc[l] = "idle"
            /\ lookupTold'[l] = ToldOfPurchase(u)
            /\ purchases' = purchases
        BY <3>2 DEF ReceiveLookup, QueryTypeOK, vars, storeVars, postgresVars
      <4>2. lookupAnswer[l] = "none"
        BY <1>0, <2>2, <4>1 DEF LookupOK
      <4>3. ToldOfPurchase(u) => HasPurchaseForUserId(u)
        BY ToldHasPurchase
      <4>. HIDE DEF u
      <4>. QED BY <2>2, <4>1, <4>2, <4>3 DEF LookupOK, HasPurchaseForUserId
    <3>3. CASE AnswerLookup(l)
      <4>1. /\ lookupPc'[l] = "done" /\ UNCHANGED <<lookupUser, lookupTold>>
            /\ lookupAnswer'[l] = IF HasPurchaseForUserId(lookupUser[l])
                                    THEN "true" ELSE "false"
            /\ purchases' = purchases
        BY <3>3 DEF AnswerLookup, LookupReply, QueryTypeOK, vars, storeVars,
                    postgresVars
      <4>2. HasPurchaseForUserId(lookupUser[l])' <=> HasPurchaseForUserId(lookupUser[l])
        BY <4>1 DEF HasPurchaseForUserId
      <4>. QED BY <1>0, <2>2, <4>1, <4>2 DEF LookupOK
    <3>. QED BY <1>4, <3>1, <3>2, <3>3 DEF LookupStep
  <2>. QED BY <2>1, <2>2
<1>5. ASSUME NEW q \in StatusQuery, StatusStep(q) PROVE UNCHANGED lookupVars
  BY <1>5 DEF StatusStep, ReceiveStatus, AnswerStatus, StatusReply
<1>6. CASE FlashSaleStep \/ Tick
  BY <1>1, <1>6 DEF FlashSaleStep, Tick, queryVars
<1>7. CASE QueryFails
  <2>1. CASE \E q \in StatusInFlight : StatusReply(q, NoStatus("internal_error"))
    BY <1>1, <2>1 DEF StatusReply
  <2>2. CASE /\ \E l \in LookupsInFlight : LookupReply(l, "internal_error")
             /\ UNCHANGED <<clock, statusVars, lookupUser, lookupTold>>
    BY <1>3, <2>2 DEF LookupsInFlight
  <2>. QED BY <1>7, <2>1, <2>2 DEF QueryFails
<1>8. CASE UNCHANGED allVars
  BY <1>1, <1>8 DEF allVars, queryVars
<1>. QED BY <1>1, <1>2, <1>4, <1>5, <1>6, <1>7, <1>8, QueryCases

\* Who has been told of a purchase is never told by a later lookup that there
\* is none, whatever is reset, repaired or restarted in between
\* (hasPurchaseForUserId looks in every sale, and no row is ever deleted).
THEOREM ToldRemainsTrue == QuerySpec => []ToldStaysTrue
<1>1. LookupInv => ToldStaysTrue
  BY DEF LookupInv, LookupOK, ToldStaysTrue
<1>. QED
  BY <1>1, LookupInit, LookupNext, QueryTypesCorrect, QueriesObserveOnly,
     TypeCorrect, GateInvariant, HandlerInvariant, PTL DEF QuerySpec

-----------------------------------------------------------------------------
(* The sale status.                                                        *)

\* The window is as far at instant t as answer a says.
Reached(a, t) ==
  /\ a.status # "upcoming" => t >= StartTime[a.sale]
  /\ a.status = "ended" => t > EndTime[a.sale]

\* What an answer says is true of its round from then on.
AnswerOK(a) ==
  /\ a.sale \in Sale
  /\ a.round \in 1 .. Len(resets)
  /\ a.stock \in Nat
  /\ a.round = Len(resets) => stock \in Nat /\ stock <= a.stock
  /\ a.status = "sold_out" =>
       a.stock = 0 /\ Cardinality(Grants(a.round)) = resets[a.round].stock
  /\ Reached(a, clock)

\* StatusNeverGoesBack is not inductive: that the answer of a query in flight
\* will not be behind those it arrived after rests on how far the window was at
\* the instant it sampled, and on the stock only falling within a round.
StatusOK(q) ==
  /\ statusAnswer[q].status # "none" => statusPc[q] = "done"
  /\ Answered(q) => AnswerOK(statusAnswer[q])
  /\ \A p \in statusAfter[q] : Answered(p)
  /\ statusPc[q] = "stock" =>
       /\ statusNow[q] <= clock
       /\ \A p \in statusAfter[q] : Reached(statusAnswer[p], statusNow[q])

StatusInv == (\A q \in StatusQuery : StatusOK(q)) /\ StatusNeverGoesBack

\* Within a round the stock only falls, and a round that has sold out stays so.
LEMMA StockOnlyFalls ==
  ASSUME TypeOK, GateInv, [Next]_vars, TypeOK', GateInv'
  PROVE  /\ Len(resets) = Len(resets') /\ stock \in Nat /\ Len(resets) > 0 =>
              stock' \in Nat /\ stock' <= stock
         /\ \A e \in 1 .. Len(resets) :
              Cardinality(Grants(e)) = resets[e].stock =>
                Cardinality(Grants(e)') = resets'[e].stock
<1>1. /\ Len(resets) \in Nat /\ Len(resets') \in Nat /\ Len(resets) <= Len(resets')
      /\ \A e \in 1 .. Len(resets) : resets'[e] = resets[e]
  BY HistoryGrows, GateGranted
<1>2. ASSUME NEW e
      PROVE  /\ Cardinality(Grants(e)) \in Nat /\ Cardinality(Grants(e)') \in Nat
             /\ Cardinality(Grants(e)) <= Cardinality(Grants(e)')
  <2>1. /\ IsFiniteSet(Grants(e)') /\ Cardinality(Grants(e)) \in Nat
        /\ Cardinality(Grants(e)') \in Nat
    <3>1. IsFiniteSet(Grants(e)) /\ Cardinality(Grants(e)) \in Nat
      BY GrantsFinite DEF TypeOK
    <3>2. Grants(e)' \subseteq Request
      BY DEF Grants, TypeOK, PurchaseTypeOK
    <3>. QED BY <3>1, <3>2, FS_Subset, FS_CardinalityType, StoresAssumption
  <2>. QED BY <2>1, GrantsGrow, GateGranted, FS_Subset
<1>3. ASSUME NEW e \in 1 .. Len(resets), Cardinality(Grants(e)) = resets[e].stock
      PROVE  Cardinality(Grants(e)') = resets'[e].stock
  <2>1. e \in 1 .. Len(resets')
    BY <1>1
  <2>2. Cardinality(Grants(e)') <= resets'[e].stock
    BY <2>1 DEF GateInv, GateConservation
  <2>3. resets'[e].stock = resets[e].stock
    BY <1>1
  <2>. QED BY <1>2, <1>3, <2>2, <2>3
<1>4. ASSUME Len(resets) = Len(resets'), stock \in Nat, Len(resets) > 0
      PROVE  stock' \in Nat /\ stock' <= stock
  <2>0. PICK n : n = Len(resets)
    OBVIOUS
  <2>1. resets # <<>> /\ resets' # <<>> /\ n = Len(resets')
    BY <1>1, <1>4, <2>0
  <2>2. stock + Cardinality(Grants(n)) = resets[n].stock
    BY <2>0, <2>1 DEF GateInv, GateConservation
  <2>3. stock' \in Nat /\ stock' + Cardinality(Grants(n)') = resets'[n].stock
    BY <2>1 DEF GateInv, GateConservation, Grants
  <2>4. resets'[n].stock = resets[n].stock
    BY <1>1, <1>4, <2>0
  <2>. QED BY <1>2, <1>4, <2>2, <2>3, <2>4
<1>. QED BY <1>3, <1>4

\* An answer stays right, as time passes and whatever the processes do.
LEMMA AnswerStays ==
  ASSUME TypeOK, GateInv, [Next]_vars, TypeOK', GateInv',
         clock \in Int, clock' \in Int, clock <= clock', NEW a, AnswerOK(a)
  PROVE  AnswerOK(a)'
<1>1. /\ Len(resets) \in Nat /\ Len(resets') \in Nat /\ Len(resets) <= Len(resets')
      /\ a.round \in 1 .. Len(resets)
  BY HistoryGrows, GateGranted DEF AnswerOK
<1>2. Reached(a, clock')
  <2>1. StartTime[a.sale] \in Int /\ EndTime[a.sale] \in Int
    BY StoresAssumption DEF AnswerOK
  <2>. QED BY <2>1 DEF AnswerOK, Reached
<1>3. a.status = "sold_out" => Cardinality(Grants(a.round)') = resets'[a.round].stock
  BY <1>1, StockOnlyFalls DEF AnswerOK
<1>4. a.round = Len(resets') => stock' \in Nat /\ stock' <= a.stock
  <2>. SUFFICES ASSUME a.round = Len(resets')
                PROVE  stock' \in Nat /\ stock' <= a.stock
    OBVIOUS
  <2>1. a.round = Len(resets) /\ Len(resets) > 0
    BY <1>1
  <2>2. stock \in Nat /\ stock <= a.stock /\ a.stock \in Nat
    BY <2>1 DEF AnswerOK
  <2>3. stock' \in Nat /\ stock' <= stock
    BY <2>1, <2>2, StockOnlyFalls
  <2>. QED BY <2>2, <2>3
<1>. QED BY <1>1, <1>2, <1>3, <1>4 DEF AnswerOK, Grants, Reached

\* What a step may do to a query that neither arrives nor reads a stock: leave
\* it alone, or end it with an error.
Undisturbed(q) ==
  /\ statusAfter'[q] = statusAfter[q]
  /\ statusPc'[q] = "stock" => statusPc[q] = "stock" /\ statusNow'[q] = statusNow[q]
  /\ \/ statusAnswer'[q] = statusAnswer[q] /\ (statusPc[q] = "done" => statusPc'[q] = "done")
     \/ /\ statusAnswer'[q].status \notin SaleStatus \cup {"none"}
        /\ statusPc[q] = "stock" /\ statusPc'[q] = "done"

LEMMA StatusReplyElsewhere ==
  ASSUME QueryTypeOK, NEW q \in StatusQuery, NEW answer, StatusReply(q, answer),
         NEW p \in StatusQuery, p # q
  PROVE  Undisturbed(p) /\ statusAnswer'[p] = statusAnswer[p]
BY DEF StatusReply, Undisturbed, QueryTypeOK

LEMMA StatusCases ==
  ASSUME QueryTypeOK, [QueryNext]_allVars, NEW q \in StatusQuery
  PROVE  /\ Undisturbed(q) \/ ReceiveStatus(q)
              \/ (AnswerStatus(q) /\ StockReadable(stock))
         /\ statusPc[q] # "stock" => statusAnswer'[q] = statusAnswer[q]
<1>. USE DEF QueryTypeOK, SaleStatus
<1>1. ASSUME UNCHANGED statusVars
      PROVE  Undisturbed(q) /\ statusAnswer'[q] = statusAnswer[q]
  BY <1>1 DEF Undisturbed, statusVars
<1>2. CASE CrashDropsQueries
  BY <1>2 DEF CrashDropsQueries, StatusInFlight, Undisturbed, NoStatus
<1>3. ASSUME NEW p \in StatusInFlight, StatusReply(p, NoStatus("internal_error"))
      PROVE  /\ Undisturbed(q)
             /\ statusPc[q] # "stock" => statusAnswer'[q] = statusAnswer[q]
  <2>1. CASE p = q
    BY <1>3, <2>1 DEF StatusInFlight, StatusReply, NoStatus, Undisturbed
  <2>2. CASE p # q
    BY <1>3, <2>2, StatusReplyElsewhere DEF StatusInFlight
  <2>. QED BY <2>1, <2>2
<1>4. ASSUME NEW p \in StatusQuery, ReceiveStatus(p), p # q
      PROVE  Undisturbed(q)
  BY <1>4 DEF ReceiveStatus, Undisturbed
<1>5. ASSUME NEW p \in StatusQuery, ReceiveStatus(p)
      PROVE  statusAnswer'[q] = statusAnswer[q]
  BY <1>5 DEF ReceiveStatus
<1>6. ASSUME NEW p \in StatusQuery, AnswerStatus(p), p # q
      PROVE  Undisturbed(q) /\ statusAnswer'[q] = statusAnswer[q]
  BY <1>6, StatusReplyElsewhere DEF AnswerStatus
<1>7. ASSUME AnswerStatus(q), ~StockReadable(stock)
      PROVE  Undisturbed(q)
  BY <1>7 DEF AnswerStatus, StatusReply, NoStatus, Undisturbed
<1>8. AnswerStatus(q) => statusPc[q] = "stock"
  BY DEF AnswerStatus
<1>9. ASSUME NEW l \in Lookup, LookupStep(l) PROVE UNCHANGED statusVars
  BY <1>9 DEF LookupStep, RejectLookup, ReceiveLookup, AnswerLookup
<1>10. CASE FlashSaleStep \/ Tick \/ UNCHANGED allVars
  BY <1>1, <1>10 DEF FlashSaleStep, Tick, allVars, queryVars
<1>11. CASE QueryFails
  <2>1. CASE UNCHANGED statusVars
    BY <1>1, <2>1
  <2>. QED BY <1>3, <1>11, <2>1 DEF QueryFails
<1>12. CASE \E p \in StatusQuery : StatusStep(p)
  BY <1>4, <1>5, <1>6, <1>7, <1>8, <1>12 DEF StatusStep
<1>. QED BY <1>1, <1>2, <1>9, <1>10, <1>11, <1>12, QueryCases

\* An answer that has been given is kept, and the clock does not go back.
LEMMA ClockGrows ==
  ASSUME QueryTypeOK, [QueryNext]_allVars
  PROVE  clock \in Int /\ clock' \in Int /\ clock <= clock'
BY QueryCases, QueriesAssumption
DEF QueryTypeOK, FlashSaleStep, CrashDropsQueries, Tick, QueryFails, StatusReply,
    StatusStep, ReceiveStatus, AnswerStatus, LookupStep, RejectLookup,
    ReceiveLookup, AnswerLookup, allVars, queryVars

LEMMA StatusInit == QueryInit => StatusInv
BY DEF QueryInit, StatusInv, StatusOK, Answered, NoStatus, SaleStatus,
       StatusNeverGoesBack

\* What a query in flight reads is not behind what it arrived after.
LEMMA StatusAnswered ==
  ASSUME TypeOK, GateInv, QueryTypeOK, StatusInv, NEW q \in StatusQuery,
         AnswerStatus(q), StockReadable(stock)
  PROVE  /\ statusPc'[q] = "done" /\ statusAfter'[q] = statusAfter[q]
         /\ AnswerOK(statusAnswer'[q])
         /\ \A p \in statusAfter[q] :
              /\ statusAnswer[p].sale = statusAnswer'[q].sale
              /\ statusAnswer[p].round = statusAnswer'[q].round
              => /\ Phase(statusAnswer[p].status) <= Phase(statusAnswer'[q].status)
                 /\ statusAnswer[p].stock >= statusAnswer'[q].stock
<1>. DEFINE t == statusNow[q]
            d == apiSale
            s == GetSaleStatus(t, StartTime[d], EndTime[d], stock)
            n == Len(resets)
<1>1. /\ d \in Sale /\ t \in Int /\ clock \in Int /\ t <= clock
      /\ StartTime[d] \in Int /\ EndTime[d] \in Int /\ StartTime[d] < EndTime[d]
      /\ statusAfter[q] \subseteq StatusQuery /\ statusPc[q] = "stock"
  BY StoresAssumption
  DEF AnswerStatus, TypeOK, PurchaseTypeOK, QueryTypeOK, StatusInv, StatusOK
<1>2. /\ stock \in Nat
      /\ s = IF t < StartTime[d] THEN "upcoming"
             ELSE IF t > EndTime[d] THEN "ended"
             ELSE IF stock <= 0 THEN "sold_out"
             ELSE "active"
  BY <1>1, StatusOfStock DEF TypeOK, StoresTypeOK
<1>3. /\ n \in Nat /\ n > 0 /\ stock + Cardinality(Grants(n)) = resets[n].stock
      /\ Cardinality(Grants(n)) \in Nat
  <2>1. n \in Nat /\ n > 0 /\ resets # <<>>
    BY <1>2, GrantNeedsReset DEF TypeOK
  <2>. QED BY <2>1, GrantsFinite DEF GateInv, GateConservation, TypeOK
<1>4. /\ statusAnswer'[q] = [status |-> s, stock |-> stock, sale |-> d, round |-> n]
      /\ statusPc'[q] = "done" /\ statusAfter'[q] = statusAfter[q]
  BY DEF AnswerStatus, StatusReply, QueryTypeOK
<1>. HIDE DEF s, n
<1>5. AnswerOK(statusAnswer'[q])
  <2>1. s = "sold_out" => stock = 0 /\ Cardinality(Grants(n)) = resets[n].stock
    BY <1>1, <1>2, <1>3
  <2>2. /\ s # "upcoming" => clock >= StartTime[d]
        /\ s = "ended" => clock > EndTime[d]
    BY <1>1, <1>2
  <2>3. n \in 1 .. Len(resets)
    BY <1>3 DEF n
  <2>. QED BY <1>1, <1>2, <1>4, <2>1, <2>2, <2>3 DEF AnswerOK, Reached
<1>6. ASSUME NEW p \in statusAfter[q],
             statusAnswer[p].sale = d, statusAnswer[p].round = n
      PROVE  /\ Phase(statusAnswer[p].status) <= Phase(s)
             /\ statusAnswer[p].stock >= stock
  <2>. DEFINE a == statusAnswer[p]
  <2>1. /\ p \in StatusQuery /\ a.status \in SaleStatus
        /\ AnswerOK(a) /\ Reached(a, t)
    BY <1>1 DEF StatusInv, StatusOK, Answered
  <2>2. a.stock \in Nat /\ stock <= a.stock
    BY <1>6, <2>1 DEF AnswerOK, n
  <2>3. /\ a.status # "upcoming" => t >= StartTime[d]
        /\ a.status = "ended" => t > EndTime[d]
        /\ a.status = "sold_out" => a.stock = 0
    BY <1>6, <2>1 DEF AnswerOK, Reached
  <2>. HIDE DEF a, t
  <2>4. \/ a.status = "upcoming"
        \/ a.status = "active" /\ s \in {"active", "sold_out", "ended"}
        \/ a.status = "sold_out" /\ s \in {"sold_out", "ended"}
        \/ a.status = "ended" /\ s = "ended"
    BY <1>1, <1>2, <2>1, <2>2, <2>3 DEF SaleStatus
  <2>5. s \in {"upcoming", "active", "sold_out", "ended"}
    BY <1>2
  <2>6. Phase(a.status) <= Phase(s)
    BY <2>4, <2>5 DEF Phase
  <2>. QED BY <1>2, <2>2, <2>6 DEF a
<1>. QED BY <1>4, <1>5, <1>6

LEMMA StatusNext ==
  TypeOK /\ GateInv /\ QueryTypeOK /\ StatusInv /\ [QueryNext]_allVars
    /\ TypeOK' /\ GateInv' => StatusInv'
<1>. SUFFICES ASSUME TypeOK, GateInv, QueryTypeOK, StatusInv, [QueryNext]_allVars,
                     TypeOK', GateInv', NEW q \in StatusQuery
              PROVE  /\ StatusOK(q)'
                     /\ Answered(q)' =>
                          \A p \in statusAfter'[q] :
                            /\ statusAnswer'[p].sale = statusAnswer'[q].sale
                            /\ statusAnswer'[p].round = statusAnswer'[q].round
                            => /\ Phase(statusAnswer'[p].status)
                                    <= Phase(statusAnswer'[q].status)
                               /\ statusAnswer'[p].stock >= statusAnswer'[q].stock
  BY DEF StatusInv, StatusNeverGoesBack, Phase
<1>0. /\ StatusOK(q) /\ statusAfter[q] \subseteq StatusQuery
      /\ clock \in Int /\ clock' \in Int /\ clock <= clock' /\ [Next]_vars
  BY ClockGrows, QueryStepObserves DEF StatusInv, QueryTypeOK
<1>1. ASSUME NEW p \in StatusQuery, Answered(p)
      PROVE  statusAnswer'[p] = statusAnswer[p] /\ Answered(p)'
  <2>1. statusPc[p] # "stock"
    BY <1>1 DEF StatusInv, StatusOK, Answered, SaleStatus
  <2>. QED BY <1>1, <2>1, StatusCases DEF Answered
<1>2. ASSUME NEW a, AnswerOK(a) PROVE AnswerOK(a)'
  BY <1>0, <1>2, AnswerStays
<1>3. CASE Undisturbed(q)
  <2>1. statusAfter'[q] = statusAfter[q]
    BY <1>3 DEF Undisturbed
  <2>2. \A p \in statusAfter[q] : statusAnswer'[p] = statusAnswer[p] /\ Answered(p)'
    BY <1>0, <1>1 DEF StatusOK
  <2>3. Answered(q)' => Answered(q) /\ statusAnswer'[q] = statusAnswer[q]
    BY <1>3 DEF Undisturbed, Answered, SaleStatus
  <2>4. Answered(q)' => AnswerOK(statusAnswer[q])'
    <3>. SUFFICES ASSUME Answered(q)' PROVE AnswerOK(statusAnswer[q])'
      OBVIOUS
    <3>1. PICK a : a = statusAnswer[q] /\ a = statusAnswer'[q] /\ AnswerOK(a)
      BY <1>0, <2>3 DEF StatusOK
    <3>. QED BY <1>2, <3>1 DEF AnswerOK, Reached, Grants
  <2>5. /\ statusAnswer'[q].status # "none" => statusPc'[q] = "done"
        /\ statusPc'[q] = "stock" =>
             /\ statusNow'[q] <= clock'
             /\ \A p \in statusAfter[q] : Reached(statusAnswer[p], statusNow'[q])
    <3>1. statusPc'[q] = "stock" =>
            statusPc[q] = "stock" /\ statusNow'[q] = statusNow[q]
      BY <1>3 DEF Undisturbed
    <3>2. statusNow[q] \in Int
      BY DEF QueryTypeOK
    <3>. QED BY <1>0, <1>3, <3>1, <3>2 DEF StatusOK, Undisturbed
  <2>6. StatusOK(q)'
    BY <2>1, <2>2, <2>4, <2>5 DEF StatusOK, Reached
  <2>. QED BY <2>1, <2>2, <2>3, <2>6 DEF StatusInv, StatusNeverGoesBack
<1>4. CASE ReceiveStatus(q)
  <2>1. /\ statusPc'[q] = "stock" /\ statusNow'[q] = clock /\ clock' = clock
        /\ statusAnswer' = statusAnswer
        /\ statusAfter'[q] = {p \in StatusQuery : Answered(p)}
        /\ statusPc[q] = "idle"
    BY <1>4 DEF ReceiveStatus, QueryTypeOK, Answered
  <2>2. statusAnswer[q].status = "none"
    BY <1>0, <2>1 DEF StatusOK
  <2>3. \A p \in statusAfter'[q] : Reached(statusAnswer[p], clock)
    BY <2>1 DEF StatusInv, StatusOK, AnswerOK
  <2>. QED BY <1>0, <2>1, <2>2, <2>3 DEF StatusOK, Answered, SaleStatus, Reached
<1>5. CASE AnswerStatus(q) /\ StockReadable(stock)
  <2>1. /\ statusPc'[q] = "done" /\ statusAfter'[q] = statusAfter[q]
        /\ AnswerOK(statusAnswer'[q])
        /\ \A p \in statusAfter[q] :
              /\ statusAnswer[p].sale = statusAnswer'[q].sale
              /\ statusAnswer[p].round = statusAnswer'[q].round
              => /\ Phase(statusAnswer[p].status) <= Phase(statusAnswer'[q].status)
                 /\ statusAnswer[p].stock >= statusAnswer'[q].stock
    BY <1>5, StatusAnswered
  <2>2. \A p \in statusAfter[q] : statusAnswer'[p] = statusAnswer[p] /\ Answered(p)'
    BY <1>0, <1>1 DEF StatusOK
  <2>3. AnswerOK(statusAnswer[q])'
    <3>1. PICK a : a = statusAnswer'[q] /\ AnswerOK(a)
      BY <2>1
    <3>. QED BY <1>2, <3>1 DEF AnswerOK, Reached, Grants
  <2>4. StatusOK(q)'
    BY <2>1, <2>2, <2>3 DEF StatusOK
  <2>. QED BY <2>1, <2>2, <2>4
<1>. QED BY <1>3, <1>4, <1>5, StatusCases

LEMMA StatusInvariant == QuerySpec => []StatusInv
<1>. QED
  BY StatusInit, StatusNext, QueryTypesCorrect, QueriesObserveOnly, TypeCorrect,
     GateInvariant, PTL DEF QuerySpec

\* Who asks again, after an answer and in the same round, is never shown an
\* earlier phase of the sale nor more stock, for any number of queries and
\* purchases in flight (getSaleStatus samples the time before the stock).
THEOREM StatusMovesForward == QuerySpec => []StatusNeverGoesBack
<1>1. StatusInv => StatusNeverGoesBack
  BY DEF StatusInv
<1>. QED BY <1>1, StatusInvariant, PTL

\* Once "sold_out" has been shown, every item of that round is granted, for
\* ever (computeSaleStatus, purchase.lua).
THEOREM SoldOutForGood == QuerySpec => []SoldOutIsFinal
<1>1. StatusInv => SoldOutIsFinal
  BY DEF StatusInv, StatusOK, AnswerOK, Answered, SaleStatus, SoldOutIsFinal
<1>. QED BY <1>1, StatusInvariant, PTL

=============================================================================
