------------------------------- MODULE Purchase -------------------------------
(***************************************************************************)
(* POST /purchase (services/purchase.service.js) and the life of the API   *)
(* process that serves it.  A handler runs from one await to the next      *)
(* without interruption: each action below is what happens at one await,   *)
(* with the synchronous code up to the next one.                           *)
(*                                                                         *)
(* The gate is the atomic Lua script.  Everything after it is not: finding *)
(* the sale to book, inserting the row, and recording a failed insert for  *)
(* the operator are separate commands to two stores.                       *)
(***************************************************************************)
EXTENDS FlashSaleStores

CONSTANT Instant   \* instants at which a request may arrive

ASSUME PurchaseAssumption == Instant \subseteq Int

VARIABLES
  apiSale,     \* config.sale of the running API process, NoSale if none runs
  pc,          \* where each request's handler stands
  user,        \* normalizedUserId of each request
  now,         \* nowMs of each request, sampled when it arrived, 0 once used
  saleId,      \* the sale each request resolved
  response,    \* what the client was told
  granted,     \* history: requests the script answered SUCCESS
  epoch,       \* history: the number of resets when the script ran
  unrecorded   \* history: requests whose failure record is logged as lost

requestVars == <<pc, user, now, saleId, response, granted, epoch, unrecorded>>
purchaseVars == <<apiSale, requestVars>>

Pc == {"idle", "script", "resolve", "ensure", "cache", "create", "record",
       "done"}

Response ==
  {PURCHASE_STATUS_BY_SCRIPT_RESULT[s] : s \in PurchaseScriptResults} \cup
  {"none", "invalid_request", "internal_error",
   "purchase_persistence_failed", "dropped"}

PurchaseTypeOK ==
  /\ apiSale \in Sale \cup {NoSale}
  /\ pc \in [Request -> Pc]
  /\ user \in [Request -> User \cup {InvalidUserId}]
  /\ now \in [Request -> Int]
  /\ saleId \in [Request -> Sale \cup {NoSale}]
  /\ response \in [Request -> Response]
  /\ granted \subseteq Request
  /\ epoch \in [Request -> Nat]
  /\ unrecorded \subseteq Request
  /\ \A r \in Request :
       /\ pc[r] \notin {"idle", "done"} => apiSale # NoSale
       /\ pc[r] \notin {"idle", "done"} => user[r] \in User
       /\ pc[r] \in {"cache", "create", "record"} => saleId[r] \in Sale

PurchaseInit ==
  /\ apiSale = NoSale
  /\ pc = [r \in Request |-> "idle"]
  /\ user = [r \in Request |-> InvalidUserId]
  /\ now = [r \in Request |-> 0]
  /\ saleId = [r \in Request |-> NoSale]
  /\ response = [r \in Request |-> "none"]
  /\ granted = {}
  /\ epoch = [r \in Request |-> 0]
  /\ unrecorded = {}

InFlight == {r \in Request : pc[r] \notin {"idle", "done"}}

GoTo(r, label) == pc' = [pc EXCEPT ![r] = label] /\ UNCHANGED response

Reply(r, status) ==
  /\ pc' = [pc EXCEPT ![r] = "done"]
  /\ response' = [response EXCEPT ![r] = status]

-----------------------------------------------------------------------------
(* The API process.                                                        *)

\* `npm start' with the environment of sale d.
StartServer(d) ==
  /\ apiSale = NoSale
  /\ apiSale' = d
  /\ UNCHANGED <<requestVars, storeVars>>

\* SIGTERM: server.close waits for the requests being served.
StopServer ==
  /\ apiSale # NoSale
  /\ InFlight = {}
  /\ apiSale' = NoSale
  /\ UNCHANGED <<requestVars, storeVars>>

\* The process dies: the handlers stop where they are, the clients' sockets
\* close.  What the handlers did to the stores stays.
CrashServer ==
  /\ Fault("crash")
  /\ apiSale # NoSale
  /\ apiSale' = NoSale
  /\ pc' = [r \in Request |-> IF r \in InFlight THEN "done" ELSE pc[r]]
  /\ response' = [r \in Request |->
                    IF r \in InFlight THEN "dropped" ELSE response[r]]
  /\ now' = [r \in Request |-> 0]
  /\ UNCHANGED <<user, saleId, granted, epoch, unrecorded>>
  /\ UNCHANGED <<redisVars, postgresVars, resets>>

-----------------------------------------------------------------------------
(* The handler, up to the script.                                          *)

\* normalizeUserId throws InvalidRequestError, which becomes a 400.
RejectUserId(r, raw) ==
  /\ apiSale # NoSale
  /\ pc[r] = "idle"
  /\ CanonicalUserId(raw) = InvalidUserId
  /\ Reply(r, "invalid_request")
  /\ UNCHANGED <<apiSale, user, now, saleId, granted, epoch, unrecorded>>
  /\ UNCHANGED storeVars

\* The request arrives at instant t; `now' is sampled before the first await
\* and is as old as that await is long when the script compares it.
ReceivePurchase(r, raw, t) ==
  /\ apiSale # NoSale
  /\ pc[r] = "idle"
  /\ CanonicalUserId(raw) # InvalidUserId
  /\ user' = [user EXCEPT ![r] = CanonicalUserId(raw)]
  /\ now' = [now EXCEPT ![r] = t]
  /\ GoTo(r, "script")
  /\ UNCHANGED <<apiSale, saleId, granted, epoch, unrecorded>>
  /\ UNCHANGED storeVars

ScriptResult(r) ==
  PurchaseScriptResult(now[r], StartTime[apiSale], EndTime[apiSale],
                       user[r] \in purchasedUsers, stock)

\* Faulty variant: forgets the DECR.
KeepStock(s) == s
DecrStock(s) == s - 1

\* Faulty variant: forgets the SADD.
ForgetUser(users, u) == users
AddUser(users, u) == users \cup {u}

\* What the script leaves behind, all of it in one Redis command.
ScriptEffect(r) ==
  /\ IF ScriptResult(r) = "SUCCESS"
       THEN /\ stock' = DecrStock(stock)
            /\ purchasedUsers' = AddUser(purchasedUsers, user[r])
            /\ granted' = granted \cup {r}
       ELSE UNCHANGED <<stock, purchasedUsers, granted>>
  /\ epoch' = [epoch EXCEPT ![r] = Len(resets)]
  /\ now' = [now EXCEPT ![r] = 0]
  /\ UNCHANGED <<activeSaleId, failures, archive, postgresVars, resets>>
  /\ UNCHANGED <<apiSale, user, saleId, unrecorded>>

\* The script says SUCCESS: the handler goes on to book the purchase.
GrantPurchase(r) ==
  /\ pc[r] = "script"
  /\ ScriptResult(r) = "SUCCESS"
  /\ ScriptEffect(r)
  /\ GoTo(r, "resolve")
  /\ UNCHANGED faults

\* Any other result is the answer.
RefusePurchase(r) ==
  /\ pc[r] = "script"
  /\ ScriptResult(r) # "SUCCESS"
  /\ ScriptEffect(r)
  /\ Reply(r, PURCHASE_STATUS_BY_SCRIPT_RESULT[ScriptResult(r)])
  /\ UNCHANGED faults

\* EVAL, or the load of the script before it, fails and nothing ran.
ScriptUnavailable(r) ==
  /\ pc[r] = "script"
  /\ Fault("script")
  /\ Reply(r, "internal_error")
  /\ now' = [now EXCEPT ![r] = 0]
  /\ UNCHANGED <<apiSale, user, saleId, granted, epoch, unrecorded>>
  /\ UNCHANGED <<redisVars, postgresVars, resets>>

\* The script ran and its reply is lost: the client rejects, the handler
\* throws, and the stock stays taken.
ScriptReplyLost(r) ==
  /\ pc[r] = "script"
  /\ Fault("script_reply")
  /\ ScriptEffect(r)
  /\ Reply(r, "internal_error")

-----------------------------------------------------------------------------
(* resolveActiveSaleId.  It runs outside the handler's try block.          *)

\* Faulty variant: waits for somebody else to fill the cache.
PcAfterCacheMissWaiting == "resolve"
PcAfterCacheMiss == "ensure"

\* GET flashsale:active_sale_id.
ReadActiveSaleId(r) ==
  /\ pc[r] = "resolve"
  /\ IF activeSaleId # NoSale
       THEN /\ saleId' = [saleId EXCEPT ![r] = activeSaleId]
            /\ GoTo(r, "create")
       ELSE /\ GoTo(r, PcAfterCacheMiss)
            /\ UNCHANGED saleId
  /\ UNCHANGED <<apiSale, user, now, granted, epoch, unrecorded, storeVars>>

\* The cache is empty: the sale of the process's own configuration.
EnsureActiveSale(r) ==
  /\ pc[r] = "ensure"
  /\ GetOrCreateSale(apiSale)
  /\ saleId' = [saleId EXCEPT ![r] = apiSale]
  /\ GoTo(r, "cache")
  /\ UNCHANGED <<apiSale, user, now, granted, epoch, unrecorded>>
  /\ UNCHANGED <<redisVars, purchases, resets, faults>>

\* SET flashsale:active_sale_id, whatever it has become since the GET.
SetActiveSaleId(r) ==
  /\ activeSaleId' = saleId[r]
  /\ UNCHANGED <<apiSale, user, now, saleId, granted, epoch, unrecorded>>
  /\ UNCHANGED <<stock, purchasedUsers, failures, archive, postgresVars,
                 resets>>

CacheActiveSaleId(r) ==
  /\ pc[r] = "cache"
  /\ SetActiveSaleId(r)
  /\ GoTo(r, "create")
  /\ UNCHANGED faults

\* One of the three commands fails: a 500, and nothing records the grant.
ResolveFails(r) ==
  /\ pc[r] \in {"resolve", "ensure", "cache"}
  /\ Fault("resolve")
  /\ Reply(r, "internal_error")
  /\ \/ /\ UNCHANGED <<apiSale, user, now, saleId, granted, epoch, unrecorded>>
        /\ UNCHANGED <<redisVars, postgresVars, resets>>
     \/ pc[r] = "cache" /\ SetActiveSaleId(r)

-----------------------------------------------------------------------------
(* createPurchase and its catch block.                                     *)

BookingUnchanged ==
  /\ UNCHANGED <<apiSale, user, now, saleId, granted, epoch>>
  /\ UNCHANGED <<gateVars, archive, sales>>

PersistPurchase(r) ==
  /\ pc[r] = "create"
  /\ InsertOutcome(saleId[r], user[r]) = "ok"
  /\ InsertPurchase(saleId[r], user[r])
  /\ Reply(r, "success")
  /\ UNCHANGED <<failures, unrecorded, faults>>
  /\ BookingUnchanged

\* The insert violates a constraint, which is an error like any other.
PersistRejected(r) ==
  /\ pc[r] = "create"
  /\ InsertOutcome(saleId[r], user[r]) # "ok"
  /\ GoTo(r, "record")
  /\ UNCHANGED <<purchases, failures, unrecorded, faults>>
  /\ BookingUnchanged

\* Postgres cannot be reached, or commits and the answer is lost.
PersistFails(r) ==
  /\ pc[r] = "create"
  /\ Fault("insert")
  /\ GoTo(r, "record")
  /\ \/ UNCHANGED purchases
     \/ /\ InsertOutcome(saleId[r], user[r]) = "ok"
        /\ InsertPurchase(saleId[r], user[r])
  /\ UNCHANGED <<failures, unrecorded>>
  /\ BookingUnchanged

\* createPurchasePersistenceFailureRecord
FailureRecord(r) == [id |-> r, sale |-> saleId[r], user |-> user[r]]

\* Faulty variant: reports the failure without storing it.
DiscardRecord(queue, record) == queue
PushRecord(queue, record) == Append(queue, record)

\* RPUSH, then PurchasePersistenceError: a 503.
RecordFailure(r) ==
  /\ pc[r] = "record"
  /\ failures' = PushRecord(failures, FailureRecord(r))
  /\ Reply(r, "purchase_persistence_failed")
  /\ UNCHANGED <<purchases, unrecorded, faults>>
  /\ BookingUnchanged

\* The RPUSH fails, before or after Redis has applied it: logged, still 503.
RecordFailureFails(r) ==
  /\ pc[r] = "record"
  /\ Fault("push")
  /\ \/ UNCHANGED failures
     \/ failures' = Append(failures, FailureRecord(r))
  /\ unrecorded' = unrecorded \cup {r}
  /\ Reply(r, "purchase_persistence_failed")
  /\ UNCHANGED purchases
  /\ BookingUnchanged

-----------------------------------------------------------------------------

\* The next step of r's handler when no command fails.
HandlerStep(r) ==
  \/ GrantPurchase(r)
  \/ RefusePurchase(r)
  \/ ReadActiveSaleId(r)
  \/ EnsureActiveSale(r)
  \/ CacheActiveSaleId(r)
  \/ PersistPurchase(r)
  \/ PersistRejected(r)
  \/ RecordFailure(r)

\* A command of r's handler fails.
HandlerFault(r) ==
  \/ ScriptUnavailable(r)
  \/ ScriptReplyLost(r)
  \/ ResolveFails(r)
  \/ PersistFails(r)
  \/ RecordFailureFails(r)

PurchaseNext ==
  \/ \E d \in Sale : StartServer(d)
  \/ StopServer
  \/ CrashServer
  \/ \E r \in Request :
       \/ \E raw \in RawUserId :
            \/ RejectUserId(r, raw)
            \/ \E t \in Instant : ReceivePurchase(r, raw, t)
       \/ HandlerStep(r)
       \/ HandlerFault(r)

=============================================================================
