------------------------------ MODULE Reconcile ------------------------------
(***************************************************************************)
(* The manual reconciliation of services/purchase-reconciliation.service.js*)
(* in its --apply mode, one action per await.  A worker is one run of the  *)
(* CLI: it takes the head of the failure list, persists the purchase if it *)
(* is missing, checks that the head is still the same, and then archives   *)
(* and pops in one MULTI.  The check and the MULTI are two commands.       *)
(***************************************************************************)
EXTENDS FlashSaleStores

CONSTANTS
  Worker,    \* terminals from which an operator runs the CLI
  Limit      \* values of --limit an operator gives

ASSUME ReconcileAssumption ==
  /\ IsFiniteSet(Worker)
  /\ Limit \subseteq Nat \ {0}

VARIABLES
  cliPc,      \* where each run stands
  cliRaw,     \* the raw record it works on
  cliStatus,  \* the outcome of its repair
  cliLeft,    \* records it may still process
  enqueued    \* history: the external records that were pushed

workerVars == <<cliPc, cliRaw, cliStatus, cliLeft>>
reconcileVars == <<workerVars, enqueued>>

CliPc == {"off", "read", "find", "create", "refind", "check", "pop"}

NoRecord == [id |-> "none", sale |-> NoSale, user |-> "none"]

ReconcileInit ==
  /\ cliPc = [w \in Worker |-> "off"]
  /\ cliRaw = [w \in Worker |-> NoRecord]
  /\ cliStatus = [w \in Worker |-> "none"]
  /\ cliLeft = [w \in Worker |-> 0]
  /\ enqueued = {}

\* parsePurchasePersistenceFailureRecord: the record's sale and its user,
\* normalised again.  One malformed shape stands for all that it rejects.
ParsedSale(raw) == raw.sale
ParsedUser(raw) == CanonicalUserId(raw.user)
IsMalformed(raw) == ParsedSale(raw) = NoSale \/ ParsedUser(raw) = InvalidUserId

\* A run past the parse holds a record it could parse, and still has a record
\* to count for it.
ReconcileTypeOK ==
  /\ cliPc \in [Worker -> CliPc]
  /\ cliRaw \in [Worker -> RawRecord \cup {NoRecord}]
  /\ cliStatus \in [Worker -> ArchiveStatus \cup {"none"}]
  /\ cliLeft \in [Worker -> Nat]
  /\ enqueued \subseteq ExternalRecord
  /\ \A w \in Worker :
       /\ cliPc[w] \notin {"off", "read"} =>
            cliRaw[w] \in RawRecord /\ cliLeft[w] > 0
       /\ cliPc[w] \in {"find", "create", "refind"} => ~IsMalformed(cliRaw[w])
       /\ cliPc[w] \in {"check", "pop"} => cliStatus[w] \in ArchiveStatus

\* The run ends; its variables end with it.
CliExit(w) ==
  /\ cliPc' = [cliPc EXCEPT ![w] = "off"]
  /\ cliRaw' = [cliRaw EXCEPT ![w] = NoRecord]
  /\ cliStatus' = [cliStatus EXCEPT ![w] = "none"]
  /\ cliLeft' = [cliLeft EXCEPT ![w] = 0]

CliGoTo(w, label) ==
  /\ cliPc' = [cliPc EXCEPT ![w] = label]
  /\ UNCHANGED <<cliRaw, cliStatus, cliLeft>>

\* The repair is done: on to the archive.
CliRepaired(w, status) ==
  /\ cliPc' = [cliPc EXCEPT ![w] = "check"]
  /\ cliStatus' = [cliStatus EXCEPT ![w] = status]
  /\ UNCHANGED <<cliRaw, cliLeft>>

-----------------------------------------------------------------------------

\* Somebody pushes a record by hand, as the smoke test does.
EnqueueExternal(x) ==
  /\ x \notin enqueued
  /\ failures' = Append(failures, x)
  /\ enqueued' = enqueued \cup {x}
  /\ UNCHANGED <<workerVars, gateVars, archive, postgresVars, faults>>

StartReconcile(w, n) ==
  /\ cliPc[w] = "off"
  /\ cliPc' = [cliPc EXCEPT ![w] = "read"]
  /\ cliLeft' = [cliLeft EXCEPT ![w] = n]
  /\ UNCHANGED <<cliRaw, cliStatus, enqueued, storeVars>>

\* Nothing left to do, or the limit is reached.
FinishReconcile(w) ==
  /\ cliPc[w] = "read"
  /\ cliLeft[w] = 0 \/ failures = <<>>
  /\ CliExit(w)
  /\ UNCHANGED <<enqueued, storeVars>>

\* Faulty variant: a malformed record is an error, as a failed repair is.
StepAfterMalformedStops == "off"
StepAfterMalformed == "check"

\* LINDEX 0, and the parse of what it returned.
ReadHead(w) ==
  /\ cliPc[w] = "read"
  /\ cliLeft[w] > 0
  /\ failures # <<>>
  /\ cliRaw' = [cliRaw EXCEPT ![w] = Head(failures)]
  /\ IF IsMalformed(Head(failures))
       THEN /\ cliPc' = [cliPc EXCEPT ![w] = StepAfterMalformed]
            /\ cliStatus' = [cliStatus EXCEPT ![w] = "archived_invalid"]
       ELSE /\ cliPc' = [cliPc EXCEPT ![w] = "find"]
            /\ UNCHANGED cliStatus
  /\ UNCHANGED <<cliLeft, enqueued, storeVars>>

Persisted(raw) ==
  FindPurchaseBySaleIdAndUserId(ParsedSale(raw), ParsedUser(raw))

FindPersisted(w) ==
  /\ cliPc[w] = "find"
  /\ IF Persisted(cliRaw[w]) THEN CliRepaired(w, "already_persisted")
                             ELSE CliGoTo(w, "create")
  /\ UNCHANGED <<enqueued, storeVars>>

\* Faulty variant: persists the user id as the record spells it.
RepairUserAsWritten(raw) == raw.user
RepairUser(raw) == ParsedUser(raw)

RepairOutcome(w) ==
  InsertOutcome(ParsedSale(cliRaw[w]), RepairUser(cliRaw[w]))

CreateMissing(w) ==
  /\ cliPc[w] = "create"
  /\ RepairOutcome(w) = "ok"
  /\ InsertPurchase(ParsedSale(cliRaw[w]), RepairUser(cliRaw[w]))
  /\ CliRepaired(w, "persisted_now")
  /\ UNCHANGED <<enqueued, redisVars, sales, resets, faults>>

\* 23505 on the sale and user: somebody else has persisted it meanwhile.
CreateConflicts(w) ==
  /\ cliPc[w] = "create"
  /\ RepairOutcome(w) = "purchases_sale_id_user_id_key"
  /\ CliGoTo(w, "refind")
  /\ UNCHANGED <<enqueued, storeVars>>

\* Any other violation stops the run; the record stays at the head.
CreateRejected(w) ==
  /\ cliPc[w] = "create"
  /\ RepairOutcome(w) = "purchases_sale_id_fkey"
  /\ CliExit(w)
  /\ UNCHANGED <<enqueued, storeVars>>

RefindPersisted(w) ==
  /\ cliPc[w] = "refind"
  /\ IF Persisted(cliRaw[w]) THEN CliRepaired(w, "already_persisted")
                             ELSE CliExit(w)
  /\ UNCHANGED <<enqueued, storeVars>>

\* archivePurchasePersistenceFailure, its LINDEX: is it still the head?
CheckHead(w) ==
  /\ cliPc[w] = "check"
  /\ IF failures # <<>> /\ Head(failures) = cliRaw[w]
       THEN CliGoTo(w, "pop")
       ELSE CliExit(w)
  /\ UNCHANGED <<enqueued, storeVars>>

\* Faulty variants: RPOP for LPOP, and a MULTI without the pop.
PopTail(queue) == SubSeq(queue, 1, Len(queue) - 1)
PopNothing(queue) == queue
LPop(queue) == IF queue = <<>> THEN queue ELSE Tail(queue)

\* MULTI RPUSH archive, LPOP: pops whatever is the head now.
ArchiveAndPop(w) ==
  /\ archive' = Append(archive, [raw |-> cliRaw[w], status |-> cliStatus[w]])
  /\ failures' = LPop(failures)
  /\ UNCHANGED <<enqueued, gateVars, postgresVars>>

PopHead(w) ==
  /\ cliPc[w] = "pop"
  /\ ArchiveAndPop(w)
  /\ cliPc' = [cliPc EXCEPT ![w] = "read"]
  /\ cliRaw' = [cliRaw EXCEPT ![w] = NoRecord]
  /\ cliStatus' = [cliStatus EXCEPT ![w] = "none"]
  /\ cliLeft' = [cliLeft EXCEPT ![w] = @ - 1]
  /\ UNCHANGED faults

\* A command fails or the process is killed.  A lost reply shows as the
\* command followed by this, except for the MULTI, after which the loop ends.
CliFails(w) ==
  /\ cliPc[w] # "off"
  /\ Fault("cli")
  /\ CliExit(w)
  /\ \/ UNCHANGED <<enqueued, redisVars, postgresVars, resets>>
     \/ cliPc[w] = "pop" /\ ArchiveAndPop(w)

-----------------------------------------------------------------------------

\* The next step of a run when no command fails.
CliStep(w) ==
  \/ \E n \in Limit : StartReconcile(w, n)
  \/ FinishReconcile(w)
  \/ ReadHead(w)
  \/ FindPersisted(w)
  \/ CreateMissing(w)
  \/ CreateConflicts(w)
  \/ CreateRejected(w)
  \/ RefindPersisted(w)
  \/ CheckHead(w)
  \/ PopHead(w)

ReconcileNext ==
  \/ \E x \in ExternalRecord : EnqueueExternal(x)
  \/ \E w \in Worker : CliStep(w) \/ CliFails(w)

=============================================================================
