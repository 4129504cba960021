---------------------------- MODULE PurchaseLedger ----------------------------
(***************************************************************************)
(* What the flash sale promises, without Redis, Postgres, handlers or CLI: *)
(* rounds of a sale with so many items each, claims that take an item, and *)
(* a table of purchases.  FlashSale implements it (FlashSaleLedger).       *)
(*                                                                         *)
(* A claim is decided once.  An accepted claim is owed a row until it has  *)
(* one, or until it is visibly lost; a lost claim may still be booked (the *)
(* reply was lost, not the purchase), a booked one stays booked, and a     *)
(* closed one never gets an item.                                          *)
(***************************************************************************)
EXTENDS Integers

CONSTANTS
  Request, User, Sale,
  NoUser,    \* the owner of a claim that has no item
  Imports    \* rows an operator may ask for by hand

VARIABLES
  left,      \* items left in this round
  holders,   \* users who took an item in this round
  claim,     \* what became of each request
  owner,     \* who holds the item of each accepted claim
  rows       \* the table

ledgerVars == <<left, holders, claim, owner, rows>>

ClaimState == {"open", "closed", "owed", "booked", "lost"}

Init ==
  /\ left = 0
  /\ holders = {}
  /\ claim = [r \in Request |-> "open"]
  /\ owner = [r \in Request |-> NoUser]
  /\ rows = {}

\* A new round, with any number of items, forgets who held the old ones.
OpenRound ==
  /\ left' \in Nat
  /\ holders' = {}
  /\ UNCHANGED <<claim, owner, rows>>

\* u takes an item; the claim is lost at once if nobody hears of it.
Accept(r, u, outcome) ==
  /\ claim[r] = "open"
  /\ left > 0
  /\ u \notin holders
  /\ left' = left - 1
  /\ holders' = holders \cup {u}
  /\ claim' = [claim EXCEPT ![r] = outcome]
  /\ owner' = [owner EXCEPT ![r] = u]
  /\ UNCHANGED rows

\* Requests come to an end: those without an item are closed, those with one
\* are lost.
GiveUp(S) ==
  /\ \A r \in S : claim[r] \in {"open", "owed"}
  /\ claim' = [r \in Request |->
                 IF r \notin S THEN claim[r]
                 ELSE IF claim[r] = "open" THEN "closed" ELSE "lost"]
  /\ UNCHANGED <<left, holders, owner, rows>>

\* A row is made, or found, for claims of its user, unless it was asked for by
\* hand.
Book(row, S) ==
  /\ S # {} \/ row \in Imports
  /\ \A r \in S : claim[r] \in {"owed", "lost"} /\ owner[r] = row.user
  /\ rows' = rows \cup {row}
  /\ claim' = [r \in Request |-> IF r \in S THEN "booked" ELSE claim[r]]
  /\ UNCHANGED <<left, holders, owner>>

Next ==
  \/ OpenRound
  \/ \E r \in Request, u \in User, outcome \in {"owed", "lost"} :
       Accept(r, u, outcome)
  \/ \E S \in SUBSET Request :
       \/ GiveUp(S)
       \/ \E row \in [sale : Sale, user : User] : Book(row, S)

Spec == Init /\ [][Next]_ledgerVars

=============================================================================
