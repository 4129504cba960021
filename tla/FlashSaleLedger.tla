---------------------------- MODULE FlashSaleLedger ----------------------------
(***************************************************************************)
(* FlashSale implements PurchaseLedger: the stock and buyers of the gate   *)
(* are the round, and the claim of a request is read off its handler, the  *)
(* table and the log.                                                      *)
(***************************************************************************)
EXTENDS FlashSale

\* A claim that the code gave up: a 500 or a closed socket after the grant, or
\* a record that only the log has.
GivenUp(r) == response[r] \in {"internal_error", "dropped"} \/ r \in unrecorded

ClaimOf(r) ==
  IF r \notin granted THEN IF pc[r] = "done" THEN "closed" ELSE "open"
  ELSE IF Booking(r) \in purchases THEN "booked"
  ELSE IF GivenUp(r) THEN "lost" ELSE "owed"

ledgerLeft == IF resets = <<>> THEN 0 ELSE stock
ledgerClaim == [r \in Request |-> ClaimOf(r)]
ledgerOwner == [r \in Request |-> IF r \in granted THEN user[r] ELSE InvalidUserId]
ledgerImports ==
  {[sale |-> ParsedSale(x), user |-> ParsedUser(x)] : x \in ExternalRecord}

Ledger == INSTANCE PurchaseLedger
  WITH NoUser <- InvalidUserId, Imports <- ledgerImports,
       left <- ledgerLeft, holders <- purchasedUsers,
       claim <- ledgerClaim, owner <- ledgerOwner, rows <- purchases

\* Whatever the processes do, in whatever order and with whatever failures, the
\* outside sees a ledger: an item is taken only from what the round has left
\* and by a user who has none, a decided claim is never undecided, a row is
\* made only for an accepted claim of its user (or by hand), and an accepted
\* claim ends as a row or as one of the visible losses.
ImplementsLedger == Ledger!Spec

=============================================================================
