--------------------------- MODULE FlashSaleStores ---------------------------
(***************************************************************************)
(* What the processes of the flash sale share: the Redis keys              *)
(* (redis/keys.js), the two Postgres tables (scripts/schema.sql), and the  *)
(* commands that are atomic on them.  The components that use the stores,  *)
(* Purchase, InitSale and Reconcile, extend this module.                   *)
(*                                                                         *)
(* A sale is identified with its definition (product, stock, start, end):  *)
(* sales_single_sale_definition_key and the upsert of getOrCreateSale give *)
(* each definition one id.                                                 *)
(***************************************************************************)
EXTENDS SaleRules, Sequences, FiniteSets

CONSTANTS
  User,             \* normalised user ids
  RawUserId,        \* user ids as they arrive in a request or a record
  InvalidUserId,    \* what normalizeUserId throws for
  NormalizeUserId,  \* trim and lower-case, as a function on RawUserId
  Sale,             \* sale definitions
  NoSale,           \* an absent sale id
  InitialStock, StartTime, EndTime,  \* the configuration of each definition
  Request,          \* the purchase requests of a behaviour
  ExternalRecord,   \* records pushed to the failure list by hand
  FaultPoints,      \* the places where a command may fail
  MaxFaults         \* bound: failures in a behaviour

\* A record on the failure list.  `id' stands for the fields that make one
\* record's text different from another's (failedAt and the error).
RawRecord ==
  [id   : Request \cup {x.id : x \in ExternalRecord},
   sale : Sale \cup {NoSale},
   user : RawUserId]

ASSUME StoresAssumption ==
  /\ NoSale \notin Sale
  /\ InvalidUserId \notin User
  /\ User \subseteq RawUserId
  /\ NormalizeUserId \in [RawUserId -> User \cup {InvalidUserId}]
  /\ \A u \in User : NormalizeUserId[u] = u
  /\ InitialStock \in [Sale -> Nat]
  /\ StartTime \in [Sale -> Int]
  /\ EndTime \in [Sale -> Int]
  /\ \A d \in Sale : StartTime[d] < EndTime[d]
  /\ ExternalRecord \subseteq RawRecord
  /\ \A x \in ExternalRecord : x.id \notin Request
  /\ IsFiniteSet(Request)
  /\ MaxFaults \in Nat

VARIABLES
  stock,           \* flashsale:stock
  purchasedUsers,  \* flashsale:purchased_users
  activeSaleId,    \* flashsale:active_sale_id
  failures,        \* flashsale:purchase_persistence_failures
  archive,         \* flashsale:purchase_persistence_failures_archive
  sales,           \* table sales
  purchases,       \* table purchases
  resets,          \* history: every reset of the Redis state, in order
  faults           \* failures still allowed

redisVars == <<stock, purchasedUsers, activeSaleId, failures, archive>>
postgresVars == <<sales, purchases>>
gateVars == <<stock, purchasedUsers, activeSaleId, resets>>
queueVars == <<failures, archive>>
storeVars == <<redisVars, postgresVars, resets, faults>>

ArchiveStatus == {"already_persisted", "persisted_now", "archived_invalid"}

StoresTypeOK ==
  /\ stock \in Nat \cup {NoStock}
  /\ purchasedUsers \subseteq User
  /\ activeSaleId \in Sale \cup {NoSale}
  /\ failures \in Seq(RawRecord)
  /\ archive \in Seq([raw : RawRecord, status : ArchiveStatus])
  /\ sales \subseteq Sale
  /\ purchases \subseteq [sale : Sale, user : User]
  /\ resets \in Seq([sale : Sale \cup {NoSale}, stock : Nat])
  /\ faults \in 0 .. MaxFaults

StoresInit ==
  /\ stock = NoStock
  /\ purchasedUsers = {}
  /\ activeSaleId = NoSale
  /\ failures = <<>>
  /\ archive = <<>>
  /\ sales = {}
  /\ purchases = {}
  /\ resets = <<>>
  /\ faults = MaxFaults

\* The command fails at point p: the connection drops, a pool times out, the
\* process dies.
Fault(p) == p \in FaultPoints /\ faults > 0 /\ faults' = faults - 1

-----------------------------------------------------------------------------
(* User ids.                                                               *)

\* Faulty variant: validates but forgets to trim and lower-case.
UnnormalizedUserId(raw) ==
  IF NormalizeUserId[raw] = InvalidUserId THEN InvalidUserId ELSE raw

CanonicalUserId(raw) == NormalizeUserId[raw]

-----------------------------------------------------------------------------
(* Postgres: one statement each.                                           *)

\* Faulty variant: no unique constraint on (sale_id, user_id).
InsertOutcomeNotUnique(sale, user) ==
  IF sale \in sales THEN "ok" ELSE "purchases_sale_id_fkey"

\* What INSERT INTO purchases does: the row, or the constraint it violates.
InsertOutcome(sale, user) ==
  IF sale \notin sales THEN "purchases_sale_id_fkey"
  ELSE IF [sale |-> sale, user |-> user] \in purchases
       THEN "purchases_sale_id_user_id_key"
  ELSE "ok"

InsertPurchase(sale, user) ==
  purchases' = purchases \cup {[sale |-> sale, user |-> user]}

\* Faulty variant: looks the user up in any sale, as hasPurchaseForUserId does.
FindPurchaseOfUser(sale, user) == \E p \in purchases : p.user = user

FindPurchaseBySaleIdAndUserId(sale, user) ==
  [sale |-> sale, user |-> user] \in purchases

\* INSERT ... ON CONFLICT DO UPDATE: the id of the definition, new or not.
GetOrCreateSale(sale) == sales' = sales \cup {sale}

=============================================================================
