------------------------------- MODULE Inspect -------------------------------
(***************************************************************************)
(* The reconciliation CLI in its inspect mode, the one an operator runs to *)
(* see what waits for repair (runPurchasePersistenceReconciliation without *)
(* `apply').  It takes one snapshot of the failure list and then looks up  *)
(* each record in Postgres, while the API pushes records and another CLI   *)
(* repairs them.  The report is about a list that no longer exists.        *)
(***************************************************************************)
EXTENDS FlashSale

VARIABLES
  inspectPc,      \* where the run stands; "reported" and "cut" have a report
  inspectLimit,   \* its --limit, or Unlimited
  rawRecords,     \* records of the snapshot still to look up
  report,         \* the results so far
  asked           \* history: requests answered 503 before the run started

inspectVars == <<inspectPc, inspectLimit, rawRecords, report, asked>>

Unlimited == 0    \* stands for Number.POSITIVE_INFINITY

InspectInit ==
  /\ Init
  /\ inspectPc = "off"
  /\ inspectLimit = Unlimited
  /\ rawRecords = <<>>
  /\ report = <<>>
  /\ asked = {}

\* parseCliArgs, and the connections; the previous report is history.
StartInspect(n) ==
  /\ inspectPc \in {"off", "reported", "cut"}
  /\ inspectPc' = "length"
  /\ inspectLimit' = n
  /\ rawRecords' = <<>>
  /\ report' = <<>>
  /\ asked' = {r \in Request : response[r] = "purchase_persistence_failed"}

\* LLEN, for the summary only.
ReadLength ==
  /\ inspectPc = "length"
  /\ inspectPc' = "range"
  /\ UNCHANGED <<inspectLimit, rawRecords, report, asked>>

\* Faulty variant: an exclusive end, as in slice().
RangeUpToExclusive(queue, n) ==
  IF n = Unlimited THEN SubSeq(queue, 1, Len(queue) - 1) ELSE SubSeq(queue, 1, n - 1)

\* LRANGE 0 rangeEnd, where -1 is the end of the list.
RangeUpTo(queue, n) ==
  IF n = Unlimited \/ n >= Len(queue) THEN queue ELSE SubSeq(queue, 1, n)

ReadRange ==
  /\ inspectPc = "range"
  /\ inspectPc' = "find"
  /\ rawRecords' = RangeUpTo(failures, inspectLimit)
  /\ UNCHANGED <<inspectLimit, report, asked>>

Report(status) ==
  /\ report' = Append(report, [raw |-> Head(rawRecords), status |-> status])
  /\ rawRecords' = Tail(rawRecords)
  /\ UNCHANGED <<inspectPc, inspectLimit, asked>>

InspectInvalid ==
  /\ inspectPc = "find"
  /\ rawRecords # <<>>
  /\ IsMalformed(Head(rawRecords))
  /\ Report("invalid_record")

\* Faulty variant: looks for a purchase of the user in any sale.
PersistedForUser(raw) == \E p \in purchases : p.user = ParsedUser(raw)

PersistedRecord(raw) ==
  FindPurchaseBySaleIdAndUserId(ParsedSale(raw), ParsedUser(raw))

InspectFind ==
  /\ inspectPc = "find"
  /\ rawRecords # <<>>
  /\ ~IsMalformed(Head(rawRecords))
  /\ Report(IF PersistedRecord(Head(rawRecords)) THEN "already_persisted"
            ELSE "needs_persistence")

FinishInspect ==
  /\ inspectPc = "find"
  /\ rawRecords = <<>>
  /\ inspectPc' = "reported"
  /\ UNCHANGED <<inspectLimit, rawRecords, report, asked>>

\* A command fails: no report before the first lookup, a cut one after it.
InspectFails ==
  /\ inspectPc \in {"length", "range", "find"}
  /\ Fault("inspect")
  /\ inspectPc' = IF inspectPc = "find" THEN "cut" ELSE "off"
  /\ rawRecords' = <<>>
  /\ UNCHANGED <<inspectLimit, report, asked>>
  /\ UNCHANGED <<redisVars, postgresVars, resets, purchaseVars, initVars,
                 reconcileVars>>

InspectStep ==
  /\ \/ \E n \in Limit \cup {Unlimited} : StartInspect(n)
     \/ ReadLength
     \/ ReadRange
     \/ InspectInvalid
     \/ InspectFind
     \/ FinishInspect
  /\ UNCHANGED vars

InspectNext ==
  \/ Next /\ UNCHANGED inspectVars
  \/ InspectStep
  \/ InspectFails

InspectSpec == InspectInit /\ [][InspectNext]_<<vars, inspectVars>>

-----------------------------------------------------------------------------

Reported(r) == \E i \in DOMAIN report : report[i].raw = FailureRecord(r)

\* A report that was not cut, by a failure or by the limit, misses no purchase
\* whose customer had been told 503 when the operator started it: it is in the
\* report, or persisted by now, or the log says that its record was lost.
ReportMissesNothing ==
  inspectPc = "reported" /\ Cardinality(Worker) <= 1
    /\ (inspectLimit = Unlimited \/ Len(report) < inspectLimit) =>
    \A r \in asked :
      Reported(r) \/ Booking(r) \in purchases \/ r \in unrecorded

\* Whatever happens to the list and the table while the report is made and
\* read, what it says can be acted on: "already_persisted" stays true, a
\* record is called invalid only if no repair can parse it, and a purchase
\* that "needs persistence" is still queued or has been persisted meanwhile.
ReportIsSafeToUse ==
  Cardinality(Worker) <= 1 =>
    \A i \in DOMAIN report :
      LET raw == report[i].raw
          row == [sale |-> ParsedSale(raw), user |-> ParsedUser(raw)]
      IN  CASE report[i].status = "already_persisted" -> row \in purchases
            [] report[i].status = "invalid_record"    -> IsMalformed(raw)
            [] report[i].status = "needs_persistence" ->
                 raw \in QueuedRecords \/ row \in purchases

=============================================================================
