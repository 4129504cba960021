------------------------------ MODULE WebProofs ------------------------------
(***************************************************************************)
(* The safety of the page for every set of users and every number of       *)
(* changes of the sale.  The inductive invariant, WebInv, is about the     *)
(* newest request of each kind: nothing that an older one does reaches the *)
(* page, and the newest one knows at least what the page shows.            *)
(***************************************************************************)
EXTENDS WebClient, TLAPS

Version == Nat \cup {None}

StatusTypes ==
  /\ version \in Nat
  /\ page \in {"up", "blank"}
  /\ statusId \in Slot /\ statusReq \in [Slot -> Stage]
  /\ statusBody \in [Slot -> Nat]
  /\ shown \in Version /\ loading \in BOOLEAN /\ statusError \in BOOLEAN

LookupTypes ==
  /\ bought \subseteq User
  /\ lookupId \in Slot /\ lookupReq \in [Slot -> Stage]
  /\ lookupFor \in [Slot -> User \cup {Nobody}]
  /\ lookupBody \in [Slot -> BOOLEAN]
  /\ lookupResult \in [user : User \cup {"none", Nobody}, has : BOOLEAN]
  /\ checking \in BOOLEAN

BuyTypes ==
  /\ buyReq \in Stage
  /\ buyBody \in BOOLEAN /\ submitting \in BOOLEAN
  /\ confirmed \in Version

\* The newest status request has not been aborted, is pending exactly while the
\* page says so, and will bring nothing older than what is shown.
StatusInv ==
  /\ statusReq[statusId] # "aborted"
  /\ loading <=> statusReq[statusId] # "free"
  /\ shown <= version
  /\ loading => shown <= statusBody[statusId] /\ statusBody[statusId] <= version

\* The lookup before the newest one is not in the network any more: a blank
\* lookup, which sends nothing, hands its slot on.
LookupInv ==
  /\ lookupReq[lookupId] # "aborted"
  /\ checking <=> lookupReq[lookupId] # "free"
  /\ lookupReq[NextId(lookupId)] \notin {"waiting", "reading"}

\* A purchase under way belongs to a submission, and one that was answered
\* "success" has taken effect.
SubmissionInv ==
  /\ buyReq # "free" => submitting
  /\ buyReq # "free" \/ buyResult = "success" => buyUser \in User
  /\ buyReq \in {"reading", "read"} /\ buyBody => buyUser \in bought
  /\ confirmed <= version

\* After a confirmed purchase the newest request of each kind, or else what it
\* has left on the page, is as new as the purchase.
ConfirmedInv ==
  page = "up" /\ buyResult = "success" /\ buyReq = "free" =>
    /\ buyUser \in bought
    /\ IF loading THEN confirmed <= statusBody[statusId]
                  ELSE statusError \/ confirmed <= shown
    /\ IF checking THEN lookupFor[lookupId] = buyUser => lookupBody[lookupId]
                   ELSE \/ lookupResult = NoLookup
                        \/ lookupResult.user # buyUser
                        \/ lookupResult.has

WebTypes == StatusTypes /\ LookupTypes /\ BuyTypes

WebInv == WebTypes /\ StatusInv /\ LookupInv /\ SubmissionInv /\ ConfirmedInv

\* What a step may do to the status that is shown.
ShownStep == shown' < shown => shown' = None /\ statusReq[statusId] = "broken"

-----------------------------------------------------------------------------
(* What the helpers do.                                                    *)

LEMMA AbortedStage ==
  ASSUME NEW stage \in Stage
  PROVE  /\ Aborted(stage) \in Stage
         /\ Aborted(stage) \notin {"waiting", "reading"}
BY DEF Aborted, Stage

LEMMA NetworkStage ==
  ASSUME NEW stage \in Stage, NEW next \in NetworkStep(stage)
  PROVE  /\ next \in Stage \ {"free", "waiting", "aborted"}
         /\ stage \in {"waiting", "reading"}
         /\ next = "reading" => stage = "waiting"
         /\ next = "read" => stage = "reading"
<1>1. CASE stage = "waiting"
  BY <1>1 DEF NetworkStep, Stage
<1>2. CASE stage = "reading"
  BY <1>2 DEF NetworkStep, Stage
<1>3. CASE stage \notin {"waiting", "reading"}
  BY <1>3 DEF NetworkStep
<1> QED
  BY <1>1, <1>2, <1>3

LEMMA OtherSlot ==
  ASSUME NEW id \in Slot
  PROVE  NextId(id) \in Slot /\ NextId(id) # id /\ NextId(NextId(id)) = id
BY DEF NextId, Slot

\* A new status request is the newest, and knows the sale as it is.
LEMMA SendStatusKeeps ==
  ASSUME StatusTypes, StatusInv, SendStatus, version' = version, page' = page
  PROVE  /\ StatusTypes' /\ StatusInv'
         /\ loading' /\ statusBody'[statusId'] = version
<1> DEFINE n == NextId(statusId)
<1>1. n \in Slot /\ n # statusId
  BY OtherSlot DEF StatusTypes
<1>2. Aborted(statusReq[statusId]) \in Stage
  BY AbortedStage DEF StatusTypes
<1>3. /\ statusId' = n /\ loading' = TRUE /\ statusError' = FALSE
      /\ shown' = shown
      /\ statusReq' = [statusReq EXCEPT ![statusId] = Aborted(@), ![n] = "waiting"]
      /\ statusBody' = [statusBody EXCEPT ![n] = version]
  BY DEF SendStatus
<1>4. statusReq' \in [Slot -> Stage] /\ statusReq'[n] = "waiting"
  BY <1>1, <1>2, <1>3 DEF StatusTypes, Stage
<1>5. statusBody' \in [Slot -> Nat] /\ statusBody'[n] = version
  BY <1>1, <1>3 DEF StatusTypes
<1>6. StatusTypes'
  BY <1>1, <1>3, <1>4, <1>5 DEF StatusTypes
<1>7. StatusInv'
  BY <1>3, <1>4, <1>5 DEF StatusTypes, StatusInv, Version, None
<1> QED
  BY <1>3, <1>5, <1>6, <1>7

\* A new lookup is the newest, and knows who has bought.
LEMMA SendLookupKeeps ==
  ASSUME LookupTypes, LookupInv, bought' = bought, NEW u \in User, SendLookup(u)
  PROVE  /\ LookupTypes' /\ LookupInv'
         /\ checking' /\ lookupFor'[lookupId'] = u
         /\ lookupBody'[lookupId'] = (u \in bought)
<1> DEFINE n == NextId(lookupId)
<1>1. n \in Slot /\ n # lookupId /\ NextId(n) = lookupId
  BY OtherSlot DEF LookupTypes
<1>2. /\ Aborted(lookupReq[lookupId]) \in Stage
      /\ Aborted(lookupReq[lookupId]) \notin {"waiting", "reading"}
  BY AbortedStage DEF LookupTypes
<1>3. /\ lookupId' = n /\ checking' = TRUE /\ lookupResult' = lookupResult
      /\ lookupReq' = [lookupReq EXCEPT ![lookupId] = Aborted(@), ![n] = "waiting"]
      /\ lookupFor' = [lookupFor EXCEPT ![n] = u]
      /\ lookupBody' = [lookupBody EXCEPT ![n] = u \in bought]
  BY DEF SendLookup
<1>4. /\ lookupReq' \in [Slot -> Stage] /\ lookupReq'[n] = "waiting"
      /\ lookupReq'[lookupId] = Aborted(lookupReq[lookupId])
  BY <1>1, <1>2, <1>3 DEF LookupTypes, Stage
<1>5. lookupFor' \in [Slot -> User \cup {Nobody}] /\ lookupFor'[n] = u
  BY <1>1, <1>3 DEF LookupTypes
<1>6. lookupBody' \in [Slot -> BOOLEAN] /\ lookupBody'[n] = (u \in bought)
  BY <1>1, <1>3 DEF LookupTypes
<1>7. LookupTypes'
  BY <1>1, <1>3, <1>4, <1>5, <1>6 DEF LookupTypes
<1>8. LookupInv'
  BY <1>1, <1>2, <1>3, <1>4 DEF LookupInv
<1> QED
  BY <1>3, <1>5, <1>6, <1>7, <1>8

-----------------------------------------------------------------------------
(* The invariant holds at first.                                           *)

LEMMA WebInitInv == WebInit => WebInv
<1> SUFFICES ASSUME WebInit PROVE WebInv
  OBVIOUS
<1> USE DEF WebInit
<1>1. StatusTypes
  BY DEF StatusTypes, Stage, Slot, Version
<1>2. LookupTypes
  BY DEF LookupTypes, Stage, Slot, NoLookup
<1>3. BuyTypes
  BY DEF BuyTypes, Stage, Version
<1>4. StatusInv
  BY DEF StatusInv, Slot, None
<1>5. LookupInv
  BY OtherSlot DEF LookupInv, Slot
<1>6. SubmissionInv
  BY DEF SubmissionInv, None
<1>7. ConfirmedInv
  BY DEF ConfirmedInv
<1> QED
  BY <1>1, <1>2, <1>3, <1>4, <1>5, <1>6, <1>7 DEF WebInv, WebTypes

-----------------------------------------------------------------------------
(* Every step keeps it.                                                    *)

LEMMA SaleChangesInv == WebInv /\ SaleChanges => WebInv'
<1> SUFFICES ASSUME WebInv, SaleChanges PROVE WebInv'
  OBVIOUS
<1> USE DEF WebInv, WebTypes, SaleChanges, statusVars, lookupVars, buyVars
<1>1. StatusTypes' /\ LookupTypes' /\ BuyTypes'
  BY DEF StatusTypes, LookupTypes, BuyTypes
<1>2. StatusInv'
  BY DEF StatusInv, StatusTypes, Version, None
<1>3. LookupInv'
  BY DEF LookupInv
<1>4. SubmissionInv'
  BY DEF SubmissionInv, StatusTypes, BuyTypes, Version, None
<1>5. ConfirmedInv'
  BY DEF ConfirmedInv
<1> QED
  BY <1>1, <1>2, <1>3, <1>4, <1>5

\* An answer is never older than what the request knew when it was sent.
LEMMA StatusNetworkInv ==
  ASSUME WebInv, NEW i \in Slot, StatusNetwork(i) PROVE WebInv'
<1> USE DEF WebInv, WebTypes
<1>1. PICK stage \in NetworkStep(statusReq[i]) :
        /\ statusReq' = [statusReq EXCEPT ![i] = stage]
        /\ IF stage = "reading"
             THEN \E v \in statusBody[i] .. version :
                    statusBody' = [statusBody EXCEPT ![i] = v]
             ELSE UNCHANGED statusBody
  BY DEF StatusNetwork
<1>2. /\ UNCHANGED <<version, bought, page, statusId, shown, statusError, loading>>
      /\ UNCHANGED <<lookupVars, buyVars>>
  BY DEF StatusNetwork, serverVars
<1>3. statusReq[i] \in Stage
  BY DEF StatusTypes
<1>4. stage \in Stage \ {"free", "waiting", "aborted"} /\ statusReq[i] # "free"
  BY <1>3, NetworkStage
<1>5. /\ statusBody' \in [Slot -> Nat]
      /\ \A j \in Slot : statusBody[j] <= statusBody'[j]
      /\ \A j \in Slot : statusBody[j] <= version => statusBody'[j] <= version
  BY <1>1 DEF StatusTypes
<1>6. /\ statusReq' \in [Slot -> Stage]
      /\ \A j \in Slot : statusReq'[j] = "free" <=> statusReq[j] = "free"
      /\ \A j \in Slot : statusReq'[j] = "aborted" => statusReq[j] = "aborted"
  BY <1>1, <1>4 DEF StatusTypes
<1>7. StatusTypes'
  BY <1>2, <1>5, <1>6 DEF StatusTypes
<1>8. LookupTypes' /\ LookupInv'
  BY <1>2 DEF LookupTypes, LookupInv, lookupVars
<1>9. BuyTypes' /\ SubmissionInv'
  BY <1>2 DEF BuyTypes, SubmissionInv, buyVars
<1>10. StatusInv'
  BY <1>2, <1>5, <1>6 DEF StatusInv, StatusTypes, Version, None
<1>11. confirmed <= statusBody[statusId] => confirmed <= statusBody'[statusId]
  BY <1>5 DEF StatusTypes, BuyTypes, Version, None
<1>12. ConfirmedInv'
  BY <1>2, <1>11 DEF ConfirmedInv, lookupVars, buyVars
<1> QED
  BY <1>7, <1>8, <1>9, <1>10, <1>12

LEMMA LookupNetworkInv ==
  ASSUME WebInv, NEW i \in Slot, LookupNetwork(i) PROVE WebInv'
<1> USE DEF WebInv, WebTypes
<1>1. PICK stage \in NetworkStep(lookupReq[i]) :
        /\ lookupReq' = [lookupReq EXCEPT ![i] = stage]
        /\ IF stage = "reading"
             THEN \E has \in {lookupBody[i], lookupFor[i] \in bought} :
                    lookupBody' = [lookupBody EXCEPT ![i] = has]
             ELSE UNCHANGED lookupBody
  BY DEF LookupNetwork
<1>2. /\ UNCHANGED <<version, bought, page, lookupId, lookupFor, lookupResult, checking>>
      /\ UNCHANGED <<statusVars, buyVars>>
  BY DEF LookupNetwork, serverVars
<1>3. lookupReq[i] \in Stage
  BY DEF LookupTypes
<1>4. /\ stage \in Stage \ {"free", "waiting", "aborted"}
      /\ lookupReq[i] \in {"waiting", "reading"}
  BY <1>3, NetworkStage
<1>5. /\ lookupBody' \in [Slot -> BOOLEAN]
      /\ \A j \in Slot : lookupFor[j] \in bought /\ lookupBody[j] => lookupBody'[j]
  <2>1. CASE stage # "reading"
    BY <1>1, <2>1 DEF LookupTypes
  <2>2. CASE stage = "reading"
    <3>1. PICK has \in {lookupBody[i], lookupFor[i] \in bought} :
            lookupBody' = [lookupBody EXCEPT ![i] = has]
      BY <1>1, <2>2
    <3>2. has \in BOOLEAN /\ (lookupFor[i] \in bought /\ lookupBody[i] => has)
      <4>1. lookupBody[i] \in BOOLEAN /\ (lookupFor[i] \in bought) \in BOOLEAN
        BY DEF LookupTypes
      <4>2. has = lookupBody[i] \/ has = (lookupFor[i] \in bought)
        BY <3>1, Zenon
      <4> QED
        BY <4>1, <4>2, Zenon
    <3>3. lookupBody' \in [Slot -> BOOLEAN] /\ lookupBody'[i] = has
      BY <3>1, <3>2 DEF LookupTypes
    <3>4. \A j \in Slot \ {i} : lookupBody'[j] = lookupBody[j]
      BY <3>1 DEF LookupTypes
    <3> QED
      BY <3>2, <3>3, <3>4, Zenon
  <2> QED
    BY <2>1, <2>2
<1>6. /\ lookupReq' \in [Slot -> Stage]
      /\ \A j \in Slot : lookupReq'[j] = "free" <=> lookupReq[j] = "free"
      /\ \A j \in Slot : lookupReq'[j] = "aborted" => lookupReq[j] = "aborted"
      /\ \A j \in Slot : lookupReq'[j] \in {"waiting", "reading"}
                           => lookupReq[j] \in {"waiting", "reading"}
  BY <1>1, <1>4 DEF LookupTypes
<1>7. LookupTypes'
  BY <1>2, <1>5, <1>6 DEF LookupTypes
<1>8. StatusTypes' /\ StatusInv'
  BY <1>2 DEF StatusTypes, StatusInv, statusVars
<1>9. BuyTypes' /\ SubmissionInv'
  BY <1>2 DEF BuyTypes, SubmissionInv, buyVars
<1>10. LookupInv'
  BY <1>2, <1>6, OtherSlot DEF LookupInv, LookupTypes
<1>11. ConfirmedInv'
  BY <1>2, <1>5 DEF ConfirmedInv, LookupTypes, statusVars, buyVars
<1> QED
  BY <1>7, <1>8, <1>9, <1>10, <1>11

\* The one step that confirms a purchase, before the page has its answer.
LEMMA BuyNetworkInv == WebInv /\ BuyNetwork => WebInv'
<1> SUFFICES ASSUME WebInv, BuyNetwork PROVE WebInv'
  OBVIOUS
<1> USE DEF WebInv, WebTypes
<1>1. PICK stage \in NetworkStep(buyReq), effect \in BOOLEAN :
        /\ buyReq' = stage
        /\ effect => buyReq = "waiting" /\ buyUser \notin bought /\ version < MaxVersion
        /\ bought' = IF effect THEN bought \cup {buyUser} ELSE bought
        /\ version' = IF effect THEN version + 1 ELSE version
        /\ IF stage = "reading"
             THEN /\ buyBody' = effect
                  /\ confirmed' = IF effect THEN version' ELSE confirmed
             ELSE UNCHANGED <<buyBody, confirmed>>
  BY DEF BuyNetwork
<1>2. /\ UNCHANGED <<page, buyUser, buyResult, submitting>>
      /\ UNCHANGED <<statusVars, lookupVars>>
  BY DEF BuyNetwork
<1>3. /\ buyReq \in {"waiting", "reading"}
      /\ stage \in Stage \ {"free", "waiting", "aborted"}
      /\ stage = "read" => buyReq = "reading"
  BY NetworkStage DEF BuyTypes
<1>4. buyUser \in User /\ submitting
  BY <1>3 DEF SubmissionInv
<1>5. version' \in Nat /\ version <= version' /\ bought \subseteq bought'
      /\ bought' \subseteq User
  BY <1>1, <1>4 DEF StatusTypes, LookupTypes
<1>6. confirmed' \in Version /\ confirmed' <= version'
  <2>1. CASE stage = "reading" /\ effect
    BY <1>1, <1>5, <2>1 DEF Version
  <2>2. CASE ~(stage = "reading" /\ effect)
    BY <1>1, <1>5, <2>2 DEF Version, None, SubmissionInv, BuyTypes, StatusTypes
  <2> QED
    BY <2>1, <2>2
<1>7. StatusTypes' /\ StatusInv'
  BY <1>2, <1>5 DEF StatusTypes, StatusInv, statusVars, Version, None
<1>8. LookupTypes' /\ LookupInv'
  BY <1>2, <1>5 DEF LookupTypes, LookupInv, lookupVars
<1>9. BuyTypes'
  BY <1>1, <1>2, <1>3, <1>6 DEF BuyTypes
<1>10. SubmissionInv'
  <2>1. CASE stage = "reading"
    BY <1>1, <1>2, <1>4, <1>6, <2>1 DEF SubmissionInv
  <2>2. CASE stage # "reading"
    BY <1>1, <1>2, <1>3, <1>4, <1>5, <1>6, <2>2 DEF SubmissionInv
  <2> QED
    BY <2>1, <2>2
<1>11. ConfirmedInv'
  BY <1>1, <1>3 DEF ConfirmedInv
<1> QED
  BY <1>7, <1>8, <1>9, <1>10, <1>11

LEMMA LoadSaleStatusInv == WebInv /\ LoadSaleStatus => WebInv'
<1> SUFFICES ASSUME WebInv, LoadSaleStatus PROVE WebInv'
  OBVIOUS
<1> USE DEF WebInv, WebTypes
<1>1. SendStatus /\ UNCHANGED <<version, bought, page, lookupVars, buyVars>>
  BY DEF LoadSaleStatus, serverVars
<1>2. StatusTypes' /\ StatusInv' /\ loading' /\ statusBody'[statusId'] = version
  BY <1>1, SendStatusKeeps
<1>3. LookupTypes' /\ LookupInv'
  BY <1>1 DEF LookupTypes, LookupInv, lookupVars
<1>4. BuyTypes' /\ SubmissionInv'
  BY <1>1 DEF BuyTypes, SubmissionInv, buyVars
<1>5. ConfirmedInv'
  BY <1>1, <1>2 DEF ConfirmedInv, SubmissionInv, lookupVars, buyVars
<1> QED
  BY <1>2, <1>3, <1>4, <1>5

LEMMA LookUpInv ==
  ASSUME WebInv, NEW u \in User, LookUp(u) PROVE WebInv'
<1> USE DEF WebInv, WebTypes
<1>1. SendLookup(u) /\ UNCHANGED <<version, bought, page, statusVars, buyVars>>
  BY DEF LookUp, serverVars
<1>2. /\ LookupTypes' /\ LookupInv' /\ checking' /\ lookupFor'[lookupId'] = u
      /\ lookupBody'[lookupId'] = (u \in bought)
  BY <1>1, SendLookupKeeps
<1>3. StatusTypes' /\ StatusInv'
  BY <1>1 DEF StatusTypes, StatusInv, statusVars
<1>4. BuyTypes' /\ SubmissionInv'
  BY <1>1 DEF BuyTypes, SubmissionInv, buyVars
<1>5. ConfirmedInv'
  BY <1>1, <1>2 DEF ConfirmedInv, statusVars, buyVars
<1> QED
  BY <1>2, <1>3, <1>4, <1>5

\* The slot that a blank lookup moves on to is free.
LEMMA LookUpNobodyInv == WebInv /\ LookUpNobody => WebInv'
<1> SUFFICES ASSUME WebInv, LookUpNobody PROVE WebInv'
  OBVIOUS
<1> USE DEF WebInv, WebTypes
<1> DEFINE n == NextId(lookupId)
<1>1. /\ lookupId' = n /\ lookupResult' = NoLookup /\ checking' = FALSE
      /\ lookupReq' = [lookupReq EXCEPT ![lookupId] = Aborted(@)]
      /\ UNCHANGED <<lookupFor, lookupBody, version, bought, page, statusVars, buyVars>>
  BY DEF LookUpNobody, serverVars
<1>2. n \in Slot /\ n # lookupId /\ NextId(n) = lookupId
  BY OtherSlot DEF LookupTypes
<1>3. /\ Aborted(lookupReq[lookupId]) \in Stage
      /\ Aborted(lookupReq[lookupId]) \notin {"waiting", "reading"}
  BY AbortedStage DEF LookupTypes
<1>4. lookupReq[n] \notin {"read", "broken", "failing", "aborted"}
  BY <1>2 DEF LookUpNobody, Quiet
<1>5. lookupReq[n] = "free"
  BY <1>2, <1>4 DEF LookupInv, LookupTypes, Stage
<1>6. /\ lookupReq' \in [Slot -> Stage] /\ lookupReq'[n] = "free"
      /\ lookupReq'[lookupId] = Aborted(lookupReq[lookupId])
  BY <1>1, <1>2, <1>3, <1>5 DEF LookupTypes
<1>7. LookupTypes'
  BY <1>1, <1>2, <1>6 DEF LookupTypes, NoLookup
<1>8. LookupInv'
  BY <1>1, <1>2, <1>3, <1>6 DEF LookupInv
<1>9. StatusTypes' /\ StatusInv'
  BY <1>1 DEF StatusTypes, StatusInv, statusVars
<1>10. BuyTypes' /\ SubmissionInv'
  BY <1>1 DEF BuyTypes, SubmissionInv, buyVars
<1>11. ConfirmedInv'
  BY <1>1 DEF ConfirmedInv, statusVars, buyVars
<1> QED
  BY <1>7, <1>8, <1>9, <1>10, <1>11

\* Only the newest status request reaches the page.
LEMMA FinishStatusInv ==
  ASSUME WebInv, NEW i \in Slot, FinishStatus(i)
  PROVE  WebInv' /\ ShownStep
<1> USE DEF WebInv, WebTypes
<1>1. /\ page = "up" /\ statusReq[i] \in {"read", "broken", "failing", "aborted"}
      /\ statusReq' = [statusReq EXCEPT ![i] = "free"]
      /\ statusBody' = [statusBody EXCEPT ![i] = 0]
      /\ UNCHANGED <<version, bought, statusId, lookupVars>>
      /\ UNCHANGED <<buyReq, buyUser, buyBody, buyResult, submitting, confirmed>>
  BY DEF FinishStatus, serverVars
<1>2. LookupTypes' /\ LookupInv'
  BY <1>1 DEF LookupTypes, LookupInv, lookupVars
<1>3. BuyTypes' /\ SubmissionInv'
  BY <1>1 DEF BuyTypes, SubmissionInv
<1>4. statusReq' \in [Slot -> Stage] /\ statusBody' \in [Slot -> Nat]
  BY <1>1 DEF StatusTypes, Stage
<1>5. ASSUME i # statusId
      PROVE  WebInv' /\ ShownStep
  <2>1. UNCHANGED <<page, shown, statusError, loading>>
    BY <1>5 DEF FinishStatus, IsCurrent
  <2>2. statusReq'[statusId] = statusReq[statusId] /\ statusBody'[statusId] = statusBody[statusId]
    BY <1>1, <1>5 DEF StatusTypes
  <2>3. StatusTypes'
    BY <1>1, <1>4, <2>1 DEF StatusTypes
  <2>4. StatusInv'
    BY <1>1, <2>1, <2>2 DEF StatusInv
  <2>5. ConfirmedInv'
    BY <1>1, <2>1, <2>2 DEF ConfirmedInv, lookupVars
  <2>6. ShownStep
    BY <2>1 DEF ShownStep, StatusTypes, Version, None
  <2> QED
    BY <1>2, <1>3, <2>3, <2>4, <2>5, <2>6
<1>6. ASSUME i = statusId
      PROVE  WebInv' /\ ShownStep
  <2>1. /\ loading' = FALSE
        /\ shown' = CASE statusReq[i] = "read"   -> statusBody[i]
                      [] statusReq[i] = "broken" -> None
                      [] OTHER                   -> shown
        /\ statusError' = (statusError \/ statusReq[i] = "failing")
        /\ page' = SaleStatusCard(statusReq[i])
    BY <1>6 DEF FinishStatus, IsCurrent
  <2>2. statusReq'[i] = "free"
    BY <1>1 DEF StatusTypes
  <2>3. /\ statusReq[i] \in {"read", "broken", "failing"}
        /\ shown <= statusBody[i] /\ statusBody[i] <= version /\ loading
        /\ statusBody[i] \in Nat
    BY <1>1, <1>6 DEF StatusInv, StatusTypes
  <2>4. CASE statusReq[i] = "read"
    <3>1. shown' = statusBody[i] /\ page' = "up" /\ statusError' = statusError
      BY <2>1, <2>4, <1>1 DEF SaleStatusCard, StatusTypes
    <3>2. StatusTypes'
      BY <1>1, <1>4, <2>1, <2>3, <3>1 DEF StatusTypes, Version
    <3>3. StatusInv'
      BY <1>1, <1>6, <2>1, <2>2, <2>3, <3>1 DEF StatusInv
    <3>4. ConfirmedInv'
      BY <1>1, <1>6, <2>1, <2>3, <3>1 DEF ConfirmedInv, lookupVars
    <3>5. ShownStep
      BY <2>3, <3>1 DEF ShownStep, StatusTypes, Version, None
    <3> QED
      BY <1>2, <1>3, <3>2, <3>3, <3>4, <3>5
  <2>5. CASE statusReq[i] = "broken"
    <3>1. shown' = None /\ page' = "blank" /\ statusError' = statusError
      BY <2>1, <2>5 DEF SaleStatusCard, StatusTypes
    <3>2. StatusTypes'
      BY <1>1, <1>4, <2>1, <3>1 DEF StatusTypes, Version
    <3>3. StatusInv'
      BY <1>1, <1>6, <2>1, <2>2, <3>1 DEF StatusInv, StatusTypes, None
    <3>4. ConfirmedInv'
      BY <3>1 DEF ConfirmedInv
    <3>5. ShownStep
      BY <1>6, <2>5, <3>1 DEF ShownStep
    <3> QED
      BY <1>2, <1>3, <3>2, <3>3, <3>4, <3>5
  <2>6. CASE statusReq[i] = "failing"
    <3>1. shown' = shown /\ page' = "up" /\ statusError' = TRUE
      BY <2>1, <2>6 DEF SaleStatusCard, StatusTypes
    <3>2. StatusTypes'
      BY <1>1, <1>4, <2>1, <3>1 DEF StatusTypes
    <3>3. StatusInv'
      BY <1>1, <1>6, <2>1, <2>2, <3>1 DEF StatusInv
    <3>4. ConfirmedInv'
      BY <1>1, <2>1, <3>1 DEF ConfirmedInv, lookupVars
    <3>5. ShownStep
      BY <3>1 DEF ShownStep, StatusTypes, Version, None
    <3> QED
      BY <1>2, <1>3, <3>2, <3>3, <3>4, <3>5
  <2> QED
    BY <2>3, <2>4, <2>5, <2>6
<1> QED
  BY <1>5, <1>6

LEMMA FinishLookupInv ==
  ASSUME WebInv, NEW i \in Slot, FinishLookup(i) PROVE WebInv'
<1> USE DEF WebInv, WebTypes
<1>1. /\ page = "up" /\ lookupReq[i] \in {"read", "broken", "failing", "aborted"}
      /\ lookupReq' = [lookupReq EXCEPT ![i] = "free"]
      /\ lookupFor' = [lookupFor EXCEPT ![i] = Nobody]
      /\ lookupBody' = [lookupBody EXCEPT ![i] = FALSE]
      /\ UNCHANGED <<version, bought, page, lookupId, statusVars>>
      /\ UNCHANGED <<buyReq, buyUser, buyBody, buyResult, submitting, confirmed>>
  BY DEF FinishLookup, serverVars
<1>2. StatusTypes' /\ StatusInv'
  BY <1>1 DEF StatusTypes, StatusInv, statusVars
<1>3. BuyTypes' /\ SubmissionInv'
  BY <1>1 DEF BuyTypes, SubmissionInv
<1>4. /\ lookupReq' \in [Slot -> Stage] /\ lookupReq'[i] = "free"
      /\ \A j \in Slot \ {i} : lookupReq'[j] = lookupReq[j]
  BY <1>1 DEF LookupTypes, Stage
<1>5. /\ lookupFor' \in [Slot -> User \cup {Nobody}]
      /\ lookupBody' \in [Slot -> BOOLEAN]
  BY <1>1 DEF LookupTypes
<1>6. ASSUME i # lookupId PROVE WebInv'
  <2>1. UNCHANGED <<lookupResult, checking>>
    BY <1>6 DEF FinishLookup, IsCurrent
  <2>2. LookupTypes'
    BY <1>1, <1>4, <1>5, <2>1 DEF LookupTypes
  <2>3. LookupInv'
    BY <1>1, <1>4, <1>6, <2>1, OtherSlot DEF LookupInv, LookupTypes
  <2>4. lookupFor'[lookupId] = lookupFor[lookupId] /\ lookupBody'[lookupId] = lookupBody[lookupId]
    BY <1>1, <1>6 DEF LookupTypes
  <2>5. ConfirmedInv'
    BY <1>1, <2>1, <2>4 DEF ConfirmedInv, statusVars
  <2> QED
    BY <1>2, <1>3, <2>2, <2>3, <2>5
<1>7. ASSUME i = lookupId PROVE WebInv'
  <2>1. /\ checking' = FALSE
        /\ lookupResult' =
             CASE lookupReq[i] = "read" -> [user |-> lookupFor[i], has |-> lookupBody[i]]
               [] lookupReq[i] = "broken" -> [user |-> Nobody, has |-> FALSE]
               [] lookupReq[i] = "failing" -> NoLookup
               [] OTHER -> lookupResult
    BY <1>7 DEF FinishLookup, IsCurrent
  <2>2. lookupReq[i] \in {"read", "broken", "failing"} /\ checking
    BY <1>1, <1>7 DEF LookupInv
  <2>3. \/ lookupResult' = [user |-> lookupFor[i], has |-> lookupBody[i]]
        \/ lookupResult' = [user |-> Nobody, has |-> FALSE]
        \/ lookupResult' = NoLookup
    BY <2>1, <2>2
  <2>4. lookupFor[i] \in User \cup {Nobody} /\ lookupBody[i] \in BOOLEAN
    BY DEF LookupTypes
  <2>5. lookupResult' \in [user : User \cup {"none", Nobody}, has : BOOLEAN]
    <3>1. PICK u \in User \cup {"none", Nobody}, has \in BOOLEAN :
            lookupResult' = [user |-> u, has |-> has]
      BY <2>3, <2>4, Zenon DEF NoLookup
    <3> QED
      BY <3>1
  <2>6. LookupTypes'
    BY <1>1, <1>4, <1>5, <2>1, <2>5 DEF LookupTypes
  <2>7. LookupInv'
    BY <1>1, <1>4, <1>7, <2>1, OtherSlot DEF LookupInv, LookupTypes
  <2>8. ASSUME page = "up", buyResult = "success", buyReq = "free"
        PROVE  \/ lookupResult' = NoLookup
               \/ lookupResult'.user # buyUser
               \/ lookupResult'.has
    <3>1. lookupFor[i] = buyUser => lookupBody[i]
      BY <1>7, <2>2, <2>8 DEF ConfirmedInv
    <3>2. buyUser # Nobody
      BY <2>8, UserAssumption DEF SubmissionInv
    <3> QED
      BY <2>3, <3>1, <3>2
  <2>9. ConfirmedInv'
    BY <1>1, <2>1, <2>8 DEF ConfirmedInv, statusVars
  <2> QED
    BY <1>2, <1>3, <2>6, <2>7, <2>9
<1> QED
  BY <1>6, <1>7

-----------------------------------------------------------------------------
(* The submission.                                                         *)

LEMMA SubmitNobodyInv == WebInv /\ SubmitNobody => WebInv'
<1> SUFFICES ASSUME WebInv, SubmitNobody PROVE WebInv'
  OBVIOUS
<1> USE DEF WebInv, WebTypes, SubmitNobody, serverVars
<1>1. StatusTypes' /\ StatusInv' /\ LookupTypes' /\ LookupInv'
  BY DEF StatusTypes, StatusInv, LookupTypes, LookupInv, statusVars, lookupVars
<1>2. BuyTypes' /\ SubmissionInv' /\ ConfirmedInv'
  BY DEF BuyTypes, SubmissionInv, ConfirmedInv
<1> QED
  BY <1>1, <1>2

LEMMA SubmitPurchaseInv ==
  ASSUME WebInv, NEW u \in User, SubmitPurchase(u) PROVE WebInv'
<1> USE DEF WebInv, WebTypes, SubmitPurchase, serverVars
<1>1. StatusTypes' /\ StatusInv' /\ LookupTypes' /\ LookupInv'
  BY DEF StatusTypes, StatusInv, LookupTypes, LookupInv, statusVars, lookupVars
<1>2. BuyTypes' /\ SubmissionInv' /\ ConfirmedInv'
  BY DEF BuyTypes, SubmissionInv, ConfirmedInv, Stage
<1> QED
  BY <1>1, <1>2

\* Both loads start after the purchase has taken effect.
LEMMA PurchaseAnsweredInv == WebInv /\ PurchaseAnswered => WebInv'
<1> SUFFICES ASSUME WebInv, PurchaseAnswered PROVE WebInv'
  OBVIOUS
<1> USE DEF WebInv, WebTypes
<1>1. /\ buyReq = "read" /\ buyReq' = "free"
      /\ buyResult' = IF buyBody THEN "success" ELSE "refused"
      /\ SendStatus /\ SendLookup(buyUser)
      /\ UNCHANGED <<version, bought, page, buyUser, buyBody, submitting, confirmed>>
  BY DEF PurchaseAnswered, serverVars
<1>2. buyUser \in User /\ (buyBody => buyUser \in bought)
  BY <1>1 DEF SubmissionInv
<1>3. StatusTypes' /\ StatusInv' /\ loading' /\ statusBody'[statusId'] = version
  BY <1>1, SendStatusKeeps
<1>4. /\ LookupTypes' /\ LookupInv' /\ checking' /\ lookupFor'[lookupId'] = buyUser
      /\ lookupBody'[lookupId'] = (buyUser \in bought)
  BY <1>1, <1>2, SendLookupKeeps
<1>5. BuyTypes'
  BY <1>1 DEF BuyTypes, Stage
<1>6. SubmissionInv'
  BY <1>1, <1>2 DEF SubmissionInv
<1>7. ConfirmedInv'
  <2>1. ASSUME buyResult' = "success" PROVE buyUser \in bought
    BY <1>1, <1>2, <2>1
  <2>2. confirmed' <= statusBody'[statusId']
    BY <1>1, <1>3 DEF SubmissionInv
  <2> QED
    BY <1>1, <1>3, <1>4, <2>1, <2>2 DEF ConfirmedInv
<1> QED
  BY <1>3, <1>4, <1>5, <1>6, <1>7

LEMMA PurchaseAnswerBrokenInv == WebInv /\ PurchaseAnswerBroken => WebInv'
<1> SUFFICES ASSUME WebInv, PurchaseAnswerBroken PROVE WebInv'
  OBVIOUS
<1> USE DEF WebInv, WebTypes, PurchaseAnswerBroken, serverVars
<1>1. StatusTypes' /\ StatusInv' /\ LookupTypes' /\ LookupInv'
  BY DEF StatusTypes, StatusInv, LookupTypes, LookupInv, statusVars, lookupVars
<1>2. BuyTypes' /\ SubmissionInv' /\ ConfirmedInv'
  BY DEF BuyTypes, SubmissionInv, ConfirmedInv, Stage
<1> QED
  BY <1>1, <1>2

LEMMA PurchaseFailedInv == WebInv /\ PurchaseFailed => WebInv'
<1> SUFFICES ASSUME WebInv, PurchaseFailed PROVE WebInv'
  OBVIOUS
<1> USE DEF WebInv, WebTypes
<1>1. /\ buyReq = "failing" /\ buyReq' = "free" /\ buyResult' = "none"
      /\ SendStatus
      /\ UNCHANGED <<version, bought, page, lookupVars, buyUser, buyBody, submitting,
                     confirmed>>
  BY DEF PurchaseFailed, serverVars
<1>2. StatusTypes' /\ StatusInv'
  BY <1>1, SendStatusKeeps
<1>3. LookupTypes' /\ LookupInv'
  BY <1>1 DEF LookupTypes, LookupInv, lookupVars
<1>4. BuyTypes' /\ SubmissionInv' /\ ConfirmedInv'
  BY <1>1 DEF BuyTypes, SubmissionInv, ConfirmedInv, Stage
<1> QED
  BY <1>2, <1>3, <1>4

LEMMA EndSubmissionInv == WebInv /\ EndSubmission => WebInv'
<1> SUFFICES ASSUME WebInv, EndSubmission PROVE WebInv'
  OBVIOUS
<1> USE DEF WebInv, WebTypes, EndSubmission, SubmissionSettled, serverVars
<1>1. StatusTypes' /\ StatusInv' /\ LookupTypes' /\ LookupInv'
  BY DEF StatusTypes, StatusInv, LookupTypes, LookupInv, statusVars, lookupVars
<1>2. BuyTypes' /\ SubmissionInv'
  BY DEF BuyTypes, SubmissionInv
<1>3. ConfirmedInv'
  BY DEF ConfirmedInv, statusVars, lookupVars
<1> QED
  BY <1>1, <1>2, <1>3

-----------------------------------------------------------------------------
(* The theorems.                                                           *)

\* A step keeps the invariant, and what is shown goes back only as allowed.
LEMMA WebNextInv ==
  WebInv /\ [WebNext]_webVars => WebInv' /\ ShownStep
<1> SUFFICES ASSUME WebInv, [WebNext]_webVars
             PROVE  WebInv' /\ ShownStep
  OBVIOUS
<1>1. shown' = shown => ShownStep
  BY DEF ShownStep, WebInv, WebTypes, StatusTypes, Version, None
<1>2. ASSUME NEW i \in Slot, FinishStatus(i)
      PROVE  WebInv' /\ ShownStep
  BY <1>2, FinishStatusInv
<1>3. CASE SaleChanges
  BY <1>1, <1>3, SaleChangesInv DEF SaleChanges, statusVars
<1>4. CASE BuyNetwork
  BY <1>1, <1>4, BuyNetworkInv DEF BuyNetwork, statusVars
<1>5. CASE LoadSaleStatus
  BY <1>1, <1>5, LoadSaleStatusInv DEF LoadSaleStatus, SendStatus
<1>6. CASE LookUpNobody
  BY <1>1, <1>6, LookUpNobodyInv DEF LookUpNobody, statusVars
<1>7. CASE SubmitNobody
  BY <1>1, <1>7, SubmitNobodyInv DEF SubmitNobody, statusVars
<1>8. CASE PurchaseAnswered
  BY <1>1, <1>8, PurchaseAnsweredInv DEF PurchaseAnswered, SendStatus
<1>9. CASE PurchaseAnswerBroken
  BY <1>1, <1>9, PurchaseAnswerBrokenInv DEF PurchaseAnswerBroken, statusVars
<1>10. CASE PurchaseFailed
  BY <1>1, <1>10, PurchaseFailedInv DEF PurchaseFailed, SendStatus
<1>11. CASE EndSubmission
  BY <1>1, <1>11, EndSubmissionInv DEF EndSubmission, statusVars
<1>12. ASSUME NEW i \in Slot, StatusNetwork(i)
       PROVE  WebInv' /\ ShownStep
  BY <1>1, <1>12, StatusNetworkInv DEF StatusNetwork
<1>13. ASSUME NEW i \in Slot, LookupNetwork(i)
       PROVE  WebInv' /\ ShownStep
  BY <1>1, <1>13, LookupNetworkInv DEF LookupNetwork, statusVars
<1>14. ASSUME NEW i \in Slot, FinishLookup(i)
       PROVE  WebInv' /\ ShownStep
  BY <1>1, <1>14, FinishLookupInv DEF FinishLookup, statusVars
<1>15. ASSUME NEW u \in User, LookUp(u)
       PROVE  WebInv' /\ ShownStep
  BY <1>1, <1>15, LookUpInv DEF LookUp, statusVars
<1>16. ASSUME NEW u \in User, SubmitPurchase(u)
       PROVE  WebInv' /\ ShownStep
  BY <1>1, <1>16, SubmitPurchaseInv DEF SubmitPurchase, statusVars
<1>17. CASE UNCHANGED webVars
  <2> USE <1>17 DEF webVars, serverVars, statusVars, lookupVars, buyVars
  <2>1. StatusTypes' /\ StatusInv' /\ LookupTypes' /\ LookupInv'
    BY DEF WebInv, WebTypes, StatusTypes, StatusInv, LookupTypes, LookupInv
  <2>2. BuyTypes' /\ SubmissionInv' /\ ConfirmedInv'
    BY DEF WebInv, WebTypes, BuyTypes, SubmissionInv, ConfirmedInv
  <2> QED
    BY <1>1, <2>1, <2>2 DEF WebInv, WebTypes
<1> QED
  BY <1>2, <1>3, <1>4, <1>5, <1>6, <1>7, <1>8, <1>9, <1>10, <1>11, <1>12, <1>13,
     <1>14, <1>15, <1>16, <1>17 DEF WebNext, BuyContinues

LEMMA WebInvariant == WebSpec => []WebInv
BY WebInitInv, WebNextInv, PTL DEF WebSpec

\* "Refreshing..." and "Checking..." are shown exactly while the newest request of
\* their kind is pending (loadSaleStatus, loadPurchaseStatus).
THEOREM BusyButtonsTrue == WebSpec => []BusyMeansPending
<1>1. WebInv => BusyMeansPending
  BY DEF WebInv, StatusInv, LookupInv, BusyMeansPending
<1> QED
  BY <1>1, WebInvariant, PTL

\* A status that the page shows is never replaced by an older one, however loads
\* overlap (saleStatusRequestIdRef).
THEOREM PageNeverGoesBack == WebSpec => ShownNeverGoesBack
<1>1. WebInv /\ [WebNext]_webVars
        => [shown' < shown => shown' = None /\ statusReq[statusId] = "broken"]_webVars
  BY WebNextInv DEF ShownStep
<1> QED
  BY <1>1, WebInvariant, PTL DEF WebSpec, ShownNeverGoesBack

\* A confirmed purchase shows in the status, whatever polls came between
\* (handlePurchaseSubmit).
THEOREM PurchaseShows == WebSpec => []PurchaseIsReflected
<1>1. WebInv => PurchaseIsReflected
  <2> SUFFICES ASSUME WebInv, page = "up", buyResult = "success", ~submitting,
                      ~loading, ~statusError
               PROVE  shown >= confirmed
    BY DEF PurchaseIsReflected
  <2>1. buyReq = "free"
    BY DEF WebInv, SubmissionInv
  <2>2. confirmed <= shown
    BY <2>1 DEF WebInv, ConfirmedInv
  <2> QED
    BY <2>2 DEF WebInv, WebTypes, StatusTypes, BuyTypes, Version, None
<1> QED
  BY <1>1, WebInvariant, PTL

\* And no lookup that is shown for the buyer denies it (loadPurchaseStatus).
THEOREM ConfirmedShows == WebSpec => []ConfirmedIsFound
<1>1. WebInv => ConfirmedIsFound
  <2> SUFFICES ASSUME WebInv, page = "up", buyResult = "success", ~submitting,
                      ~checking, lookupResult # NoLookup,
                      lookupResult.user = buyUser
               PROVE  lookupResult.has
    BY DEF ConfirmedIsFound
  <2>1. buyReq = "free"
    BY DEF WebInv, SubmissionInv
  <2> QED
    BY <2>1 DEF WebInv, ConfirmedInv
<1> QED
  BY <1>1, WebInvariant, PTL

=============================================================================
