----------------------------- MODULE MCFlashSale -----------------------------
(***************************************************************************)
(* Small instances of FlashSale for TLC.                                   *)
(***************************************************************************)
EXTENDS FlashSaleLedger, TLC

CONSTANTS r1, r2, r3, x1, x2    \* requests and external record ids

\* Two users.  u1 is also spelt " U1 "; a blank id is invalid.
MCUser == {"u1", "u2"}
MCRawUserId == {"u1", "u2", " U1 ", " "}
MCNormalizeUserId ==
  [raw \in MCRawUserId |->
     CASE raw = " U1 " -> "u1"
       [] raw = " "    -> "invalid"
       [] OTHER        -> raw]

\* Two sales whose windows overlap in part: 2 .. 3 and 3 .. 5.
MCInitialStock == [d \in Sale |-> IF d = "d1" THEN 1 ELSE 2]
MCStartTime == [d \in Sale |-> IF d = "d1" THEN 2 ELSE 3]
MCEndTime == [d \in Sale |-> IF d = "d1" THEN 3 ELSE 5]

Requests == Permutations(Request)

\* Records pushed by hand: one for a purchase that may exist already, spelt
\* differently, and one without a sale.
MCExternalRecord ==
  {[id |-> x1, sale |-> "d1", user |-> " U1 "],
   [id |-> x2, sale |-> NoSale, user |-> "u2"]}

\* Only the malformed one.
MCMalformedRecord == {[id |-> x2, sale |-> NoSale, user |-> "u2"]}

=============================================================================
