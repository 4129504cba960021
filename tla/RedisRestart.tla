----------------------------- MODULE RedisRestart -----------------------------
(***************************************************************************)
(* The flash sale with a Redis that may die and come back.  docker-compose *)
(* runs the stock image: a snapshot of the data set is saved to the volume *)
(* from time to time, and a Redis that starts loads the last one.  What    *)
(* was written since is gone, for all keys alike, while Postgres and the   *)
(* processes in the middle of their work know nothing of it: their clients *)
(* reconnect and send what they would have sent.                           *)
(***************************************************************************)
EXTENDS FlashSale

CONSTANT MaxRestarts    \* bound: how often Redis restarts

ASSUME RestartAssumption == MaxRestarts \in Nat

VARIABLES
  snapshot,    \* the data set on the volume
  restarts,    \* restarts still allowed
  saved,       \* history: requests whose record was in some snapshot
  caughtCli    \* history: a restart met a CLI between its check and its pop

restartVars == <<snapshot, restarts, saved, caughtCli>>

DataSet ==
  [stock |-> stock, purchasedUsers |-> purchasedUsers,
   activeSaleId |-> activeSaleId, failures |-> failures, archive |-> archive]

RestartInit ==
  /\ Init
  /\ snapshot = DataSet
  /\ restarts = MaxRestarts
  /\ saved = {}
  /\ caughtCli = FALSE

\* BGSAVE: one point in time for all keys.
SaveSnapshot ==
  /\ snapshot' = DataSet
  /\ saved' = saved \cup {r \in Request : FailureRecord(r) \in QueuedRecords}
  /\ UNCHANGED <<restarts, caughtCli, vars>>

RedisRestarts ==
  /\ restarts > 0
  /\ restarts' = restarts - 1
  /\ caughtCli' = (caughtCli \/ \E w \in Worker : cliPc[w] = "pop")
  /\ stock' = snapshot.stock
  /\ purchasedUsers' = snapshot.purchasedUsers
  /\ activeSaleId' = snapshot.activeSaleId
  /\ failures' = snapshot.failures
  /\ archive' = snapshot.archive
  /\ UNCHANGED <<postgresVars, resets, faults, purchaseVars, initVars,
                 reconcileVars, snapshot, saved>>

RestartNext ==
  \/ Next /\ UNCHANGED restartVars
  \/ SaveSnapshot
  \/ RedisRestarts

RestartSpec == RestartInit /\ [][RestartNext]_<<vars, restartVars>>

-----------------------------------------------------------------------------

\* A restart costs the operator only records that were pushed after the last
\* snapshot: what was in the list when a snapshot was taken is in the table, or
\* queued again, although a CLI may be at work on a record that the restart
\* takes back, and a record it has popped may return and be repaired twice.
\* The exception is a CLI between its check of the head and its pop
\* (archivePurchasePersistenceFailure): the list it checked is gone, and it pops
\* whatever has been pushed since.
RestartKeepsSaved ==
  ~caughtCli /\ Cardinality(Worker) <= 1 =>
    \A r \in saved :
      Booking(r) \in purchases \/ FailureRecord(r) \in QueuedRecords

\* Nor does it matter to a customer who was told "success" that the gate has
\* forgotten them, or that it sells their item again: their row stays, and a
\* second one for the sale is refused (README.md, "Postgres fills that role by
\* storing completed purchases in a form that survives Redis restarts").
SuccessSurvives ==
  /\ \A r \in Request : response[r] = "success" => Booking(r) \in purchases
  /\ OneSuccessPerSaleUser

=============================================================================
