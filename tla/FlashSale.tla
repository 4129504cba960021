------------------------------ MODULE FlashSale ------------------------------
(***************************************************************************)
(* The flash sale: the API process, the init script and the reconciliation *)
(* CLI, interleaved on the shared stores.  The specification, then what    *)
(* must be true of it.                                                     *)
(***************************************************************************)
EXTENDS Purchase, InitSale, Reconcile

vars == <<storeVars, purchaseVars, initVars, reconcileVars>>

Init ==
  /\ StoresInit
  /\ PurchaseInit
  /\ InitSaleInit
  /\ ReconcileInit

Next ==
  \/ PurchaseNext /\ UNCHANGED <<initVars, reconcileVars>>
  \/ InitSaleNext /\ UNCHANGED <<purchaseVars, reconcileVars>>
  \/ ReconcileNext /\ UNCHANGED <<purchaseVars, initVars>>

Spec == Init /\ [][Next]_vars

\* A handler that can go on does so: the event loop is fair and a Redis or
\* Postgres command either answers or fails.  The operator keeps running the
\* CLI.  Nothing forces a request, a start, a reset or a failure.
HandlerFairness ==
  \A r \in Request :
    WF_vars(HandlerStep(r) /\ UNCHANGED <<initVars, reconcileVars>>)

CliFairness ==
  \A w \in Worker : WF_vars(CliStep(w) /\ UNCHANGED <<purchaseVars, initVars>>)

LiveSpec == Spec /\ HandlerFairness /\ CliFairness

-----------------------------------------------------------------------------
(* Types.                                                                  *)

\* The type invariant: every key, row and local variable holds a value of
\* its kind; in particular the stock is never negative, and a handler or a
\* CLI run past a step has what that step obtained.
TypeOK ==
  /\ StoresTypeOK
  /\ PurchaseTypeOK
  /\ InitSaleTypeOK
  /\ ReconcileTypeOK

-----------------------------------------------------------------------------
(* The gate.                                                               *)

Grants(e) == {r \in granted : epoch[r] = e}

\* After each reset, what the stock key holds plus what the script has granted
\* since is what the reset put there; and no reset, the current one or an
\* earlier one, has ever had more grants than stock (purchase.lua, the DECR
\* and the SOLD_OUT test).
GateConservation ==
  /\ resets = <<>> => stock = NoStock
  /\ resets # <<>> => /\ stock \in Nat
                      /\ stock + Cardinality(Grants(Len(resets)))
                           = resets[Len(resets)].stock
  /\ \A e \in 1 .. Len(resets) : Cardinality(Grants(e)) <= resets[e].stock

\* Between two resets a user is granted at most once, however the requests
\* spell the user id and however they interleave (normalizeUserId, SISMEMBER
\* and SADD of purchase.lua).
OneGrantPerUserPerReset ==
  \A r, q \in granted :
    epoch[r] = epoch[q] /\ NormalizeUserId[user[r]] = NormalizeUserId[user[q]]
      => r = q

\* A refusal was right when it was made and stays explicable: "sold out" only
\* if the stock of that reset was granted to the last item, "already purchased"
\* only if another request of the same user was granted since that reset.
RejectionsJustified ==
  \A r \in Request :
    /\ response[r] = "sold_out" =>
         \/ epoch[r] = 0
         \/ Cardinality(Grants(epoch[r])) = resets[epoch[r]].stock
    /\ response[r] = "already_purchased" =>
         \E q \in Grants(epoch[r]) : q # r /\ user[q] = user[r]

-----------------------------------------------------------------------------
(* The booking, after the gate.                                            *)

Booking(r) == [sale |-> saleId[r], user |-> user[r]]

\* No user is told "success" twice for one sale, even across resets of the
\* gate, which forgets the buyers (purchases_sale_id_user_id_key).
OneSuccessPerSaleUser ==
  \A r, q \in Request :
    response[r] = "success" /\ response[q] = "success"
      /\ Booking(r) = Booking(q) => r = q

\* A purchase is booked for the sale whose stock it took, or for one that was
\* made active after it took it: the cached id is read after the script, so a
\* reset in between can move the booking forward, never back.  It needs every
\* reset to come with a sale id (resolveActiveSaleId).
BookedSaleOrOvertaken ==
  (\A e \in 1 .. Len(resets) : resets[e].sale # NoSale) =>
    \A r \in Request :
      saleId[r] # NoSale =>
        \E e \in epoch[r] .. Len(resets) :
          e > 0 /\ resets[e].sale = saleId[r]

\* Every row of the purchases table comes from a request that was granted and
\* resolved that sale, or from a record somebody pushed by hand.
PurchasesBacked ==
  \A p \in purchases :
    \/ \E r \in granted : Booking(r) = p
    \/ \E x \in enqueued : ParsedSale(x) = p.sale /\ ParsedUser(x) = p.user

\* The items that the resets have put up so far.
ItemsPutUp == UNION {{e} \X (1 .. resets[e].stock) : e \in DOMAIN resets}

\* The table never holds more purchases than the resets have put up items and
\* somebody has pushed records by hand, whatever fails, crashes or is repaired.
\* With one reset and no such record it is the promise of the README: never
\* more purchases than stock.
PersistedWithinStock ==
  Cardinality(purchases) <= Cardinality(ItemsPutUp) + Cardinality(enqueued)

-----------------------------------------------------------------------------
(* The failure list and its repair.                                        *)

ArchivedRecords == {archive[i].raw : i \in DOMAIN archive}
QueuedRecords == {failures[i] : i \in DOMAIN failures}

\* Every record the API queues names a sale that exists, so that no repair of
\* it can fail on the foreign key and block the head of the list for ever.
QueuedIsRepairable ==
  \A i \in DOMAIN failures :
    failures[i].id \in Request =>
      /\ ~IsMalformed(failures[i])
      /\ ParsedSale(failures[i]) \in sales

\* An archived record has been dealt with: its purchase is in the table, or
\* the record is one that no repair can make sense of.  It holds with any
\* number of CLI runs at once.
ArchivedIsPersisted ==
  \A i \in DOMAIN archive :
    LET raw == archive[i].raw
    IN  IF archive[i].status = "archived_invalid"
          THEN IsMalformed(raw)
          ELSE [sale |-> ParsedSale(raw), user |-> ParsedUser(raw)] \in purchases

\* A purchase the customer was told of, success or 503, is in the table, or
\* waits in the failure list, or the log says that it could not be recorded.
\* It needs the CLI to be run by one operator at a time.
AcceptedAccountedFor ==
  Cardinality(Worker) <= 1 =>
    \A r \in Request :
      response[r] \in {"success", "purchase_persistence_failed"} =>
        \/ Booking(r) \in purchases
        \/ FailureRecord(r) \in QueuedRecords
        \/ r \in unrecorded

\* No record is both queued and archived, or twice in either.
RecordedOnce ==
  Cardinality(Worker) <= 1 =>
    /\ QueuedRecords \cap ArchivedRecords = {}
    /\ \A i, j \in DOMAIN failures : failures[i] = failures[j] => i = j
    /\ \A i, j \in DOMAIN archive : archive[i].raw = archive[j].raw => i = j

\* A record leaves the list only when it is in the archive (README.md, Manual
\* Reconciliation: the item is removed "only after the repair outcome is known
\* and the archive write succeeds").
RemovedIsArchived ==
  [][\A x \in QueuedRecords :
       x \notin QueuedRecords' => x \in ArchivedRecords']_vars

-----------------------------------------------------------------------------
(* Claims of the documentation that the code does not keep.                *)

\* README.md: "the system never records more successful purchases than
\* available stock".
NeverMorePurchasesThanStock ==
  \A d \in Sale :
    Cardinality({p \in purchases : p.sale = d}) <= InitialStock[d]

\* README.md: a purchase that Redis accepted and that is not persisted is
\* answered 503, with a record on the failure list.
UnpersistedGrantIs503 ==
  \A r \in granted :
    pc[r] = "done" /\ response[r] # "dropped" /\ Booking(r) \notin purchases =>
      response[r] = "purchase_persistence_failed"

-----------------------------------------------------------------------------
(* Liveness, under LiveSpec.                                               *)

\* Every request that arrives is answered, if only by the closing socket.
EveryRequestAnswered ==
  \A r \in Request : (pc[r] # "idle") ~> (pc[r] = "done")

\* Every grant is settled in the end: the purchase is persisted, by the
\* handler or by the CLI, unless the grant was already given up in one of the
\* ways the code gives up, a 500, a crash, or a lost record.
GrantedEventuallySettled ==
  \A r \in Request :
    (r \in granted) ~>
      \/ Booking(r) \in purchases
      \/ response[r] \in {"internal_error", "dropped"}
      \/ r \in unrecorded

=============================================================================
