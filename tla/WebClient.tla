------------------------------ MODULE WebClient ------------------------------
(***************************************************************************)
(* The page (apps/web/src/App.jsx).  Three flows share its state: the sale *)
(* status, loaded on a timer, by a button and after every purchase; the    *)
(* lookup of a user's purchase; and the purchase itself, which starts the  *)
(* other two.  A load aborts the one before it and counts a request id up; *)
(* a continuation that finds another id than its own does nothing.         *)
(*                                                                         *)
(* JavaScript runs every continuation before the next event: a click, a    *)
(* tick of the timer, something from the network.  So a load meets at most *)
(* one request of its kind that has not settled, and two ids, used in      *)
(* turn, tell them apart as well as a count does.                          *)
(*                                                                         *)
(* The server is abstract: a version of the sale, counted up by every      *)
(* change, and the users who have a purchase.                              *)
(***************************************************************************)
EXTENDS Integers

CONSTANTS
  User,
  MaxVersion      \* bound: changes of the sale

ASSUME WebAssumption == MaxVersion \in Nat

VARIABLES
  version, bought,           \* the server
  page,                      \* "up", or "blank" once rendering has thrown
  statusId, statusReq,       \* saleStatusRequestIdRef; each request's stage
  statusBody,                \* the version in each answer, first as of sending
  shown, statusError, loading,
  lookupId, lookupReq,       \* the same for lookups
  lookupFor, lookupBody,     \* whom each asks for, and the answer
  lookupResult, lookupError, checking,
  buyReq, buyUser, buyBody,  \* the POST, its user and its answer
  awaitStatus, awaitLookup,  \* the loads that the submission waits for
  buyResult, buyError, submitting,
  confirmed                  \* history: the version of the last "success"

serverVars == <<version, bought>>
statusVars == <<statusId, statusReq, statusBody, shown, statusError, loading>>
lookupVars == <<lookupId, lookupReq, lookupFor, lookupBody, lookupResult,
                lookupError, checking>>
buyVars == <<buyReq, buyUser, buyBody, awaitStatus, awaitLookup, buyResult,
             buyError, submitting, confirmed>>
webVars == <<serverVars, page, statusVars, lookupVars, buyVars>>

Slot == {0, 1}
None == -1          \* no slot, no version
Nobody == "nobody"

\* A user id is not blank.
ASSUME UserAssumption == Nobody \notin User

\* A request waits for its headers, then reads its body; the rest are
\* continuations that have yet to run: the body is good ("read"), the body
\* could not be read and requestJson makes it {} ("broken"), requestJson throws
\* ("failing"), or fetch was aborted ("aborted").
Stage == {"free", "waiting", "reading", "read", "broken", "failing", "aborted"}

NoLookup == [user |-> "none", has |-> FALSE]

\* The page after its first effect, which has sent request 0.  In StrictMode
\* the effect runs twice, which is a poll at once.
WebInit ==
  /\ version = 0 /\ bought = {}
  /\ page = "up"
  /\ statusId = 0 /\ lookupId = 0
  /\ statusReq = [i \in Slot |-> IF i = 0 THEN "waiting" ELSE "free"]
  /\ lookupReq = [i \in Slot |-> "free"]
  /\ statusBody = [i \in Slot |-> 0] /\ lookupBody = [i \in Slot |-> FALSE]
  /\ lookupFor = [i \in Slot |-> Nobody]
  /\ shown = None /\ statusError = FALSE /\ loading = TRUE
  /\ lookupResult = NoLookup /\ lookupError = FALSE /\ checking = FALSE
  /\ buyReq = "free" /\ buyUser = Nobody /\ buyBody = FALSE
  /\ awaitStatus = None /\ awaitLookup = None
  /\ buyResult = "none" /\ buyError = FALSE /\ submitting = FALSE
  /\ confirmed = None

-----------------------------------------------------------------------------
(* The server and the network.                                             *)

\* Promise.all.
AllSettled == awaitStatus = None /\ awaitLookup = None

\* All that a submission awaits has settled, and its finally block is next.
SubmissionSettled == submitting /\ buyReq = "free" /\ AllSettled

\* No continuation has yet to run, so that the next event may come.
Quiet ==
  LET Pending == {"read", "broken", "failing", "aborted"}
  IN  /\ \A i \in Slot : {statusReq[i], lookupReq[i], buyReq} \cap Pending = {}
      /\ ~SubmissionSettled

\* Somebody else buys, or the window opens or closes.
SaleChanges ==
  /\ version < MaxVersion
  /\ version' = version + 1
  /\ UNCHANGED <<bought, page, statusVars, lookupVars, buyVars>>

\* How a request of this stage may go on before its continuation runs.
NetworkStep(stage) ==
  CASE stage = "waiting" -> {"reading", "failing"}
    [] stage = "reading" -> {"read", "broken"}
    [] OTHER             -> {}

\* The answer's version is one the sale had since the request was sent.
StatusNetwork(i) ==
  /\ Quiet
  /\ \E stage \in NetworkStep(statusReq[i]) :
       /\ statusReq' = [statusReq EXCEPT ![i] = stage]
       /\ IF stage = "reading"
            THEN \E v \in statusBody[i] .. version :
                   statusBody' = [statusBody EXCEPT ![i] = v]
            ELSE UNCHANGED statusBody
  /\ UNCHANGED <<serverVars, page, statusId, shown, statusError, loading>>
  /\ UNCHANGED <<lookupVars, buyVars>>

\* So is its answer about a user's purchase.
LookupNetwork(i) ==
  /\ Quiet
  /\ \E stage \in NetworkStep(lookupReq[i]) :
       /\ lookupReq' = [lookupReq EXCEPT ![i] = stage]
       /\ IF stage = "reading"
            THEN \E has \in {lookupBody[i], lookupFor[i] \in bought} :
                   lookupBody' = [lookupBody EXCEPT ![i] = has]
            ELSE UNCHANGED lookupBody
  /\ UNCHANGED <<serverVars, page, lookupId, lookupFor, lookupResult, lookupError,
                 checking, statusVars, buyVars>>

\* The purchase takes effect, or not, before its headers come or fail to.
BuyNetwork ==
  /\ Quiet
  /\ \E stage \in NetworkStep(buyReq), effect \in BOOLEAN :
       /\ buyReq' = stage
       /\ effect => buyReq = "waiting" /\ buyUser \notin bought /\ version < MaxVersion
       /\ bought' = IF effect THEN bought \cup {buyUser} ELSE bought
       /\ version' = IF effect THEN version + 1 ELSE version
       /\ IF stage = "reading"
            THEN /\ buyBody' = effect
                 /\ confirmed' = IF effect THEN version' ELSE confirmed
            ELSE UNCHANGED <<buyBody, confirmed>>
  /\ UNCHANGED <<page, buyUser, awaitStatus, awaitLookup, buyResult, buyError,
                 submitting, statusVars, lookupVars>>

-----------------------------------------------------------------------------
(* Loads.                                                                  *)

\* What abort() makes of a request that has not settled.
Aborted(stage) ==
  CASE stage = "waiting" -> "aborted"
    [] stage = "reading" -> "broken"
    [] OTHER             -> stage

NextId(id) == 1 - id

\* Faulty variant: a load that is under way is taken for the new one.
SendStatusUnlessLoading ==
  IF loading
    THEN UNCHANGED statusVars
    ELSE /\ statusId' = NextId(statusId)
         /\ statusReq' = [statusReq EXCEPT ![NextId(statusId)] = "waiting"]
         /\ statusBody' = [statusBody EXCEPT ![NextId(statusId)] = version]
         /\ loading' = TRUE /\ statusError' = FALSE
         /\ UNCHANGED shown
SendStatus ==
  LET n == NextId(statusId)
  IN  /\ statusId' = n
      /\ statusReq' = [statusReq EXCEPT ![statusId] = Aborted(@), ![n] = "waiting"]
      /\ statusBody' = [statusBody EXCEPT ![n] = version]
      /\ loading' = TRUE
      /\ statusError' = FALSE
      /\ UNCHANGED shown

\* loadSaleStatus, on the timer or by the button.
LoadSaleStatus ==
  /\ page = "up" /\ Quiet
  /\ SendStatus
  /\ UNCHANGED <<serverVars, page, lookupVars, buyVars>>

\* Faulty variant: so is a lookup.
SendLookupUnlessChecking(u) ==
  IF checking
    THEN UNCHANGED lookupVars
    ELSE /\ lookupId' = NextId(lookupId)
         /\ lookupReq' = [lookupReq EXCEPT ![NextId(lookupId)] = "waiting"]
         /\ lookupFor' = [lookupFor EXCEPT ![NextId(lookupId)] = u]
         /\ lookupBody' = [lookupBody EXCEPT ![NextId(lookupId)] = u \in bought]
         /\ checking' = TRUE /\ lookupError' = FALSE
         /\ UNCHANGED lookupResult
SendLookup(u) ==
  LET n == NextId(lookupId)
  IN  /\ lookupId' = n
      /\ lookupReq' = [lookupReq EXCEPT ![lookupId] = Aborted(@), ![n] = "waiting"]
      /\ lookupFor' = [lookupFor EXCEPT ![n] = u]
      /\ lookupBody' = [lookupBody EXCEPT ![n] = u \in bought]
      /\ checking' = TRUE
      /\ lookupError' = FALSE
      /\ UNCHANGED lookupResult

\* handleLookupSubmit.  The button is disabled while a lookup is pending, but
\* not before React has rendered a lookup that a purchase has started.
LookUp(u) ==
  /\ page = "up" /\ Quiet
  /\ SendLookup(u)
  /\ UNCHANGED <<serverVars, page, statusVars, buyVars>>

\* loadPurchaseStatus with a blank field: no request, but an id of its own.
LookUpNobody ==
  /\ page = "up" /\ Quiet
  /\ lookupId' = NextId(lookupId)
  /\ lookupReq' = [lookupReq EXCEPT ![lookupId] = Aborted(@)]
  /\ lookupResult' = NoLookup /\ lookupError' = TRUE /\ checking' = FALSE
  /\ UNCHANGED <<lookupFor, lookupBody, serverVars, page, statusVars, buyVars>>

-----------------------------------------------------------------------------
(* Continuations.                                                          *)

\* Faulty variant: no test of the request id.
IsCurrentUnchecked(id, i) == TRUE
\* Faulty variant: the id is taken before it is counted up.
IsCurrentBeforeCount(id, i) == NextId(id) = i
IsCurrent(id, i) == id = i

\* Faulty variant: a load whose id has been passed never returns.
SettledIfCurrent(await, id, i) == IF await = i /\ id = i THEN None ELSE await
Settled(await, id, i) == IF await = i THEN None ELSE await

\* What rendering the new snapshot does: toSentenceCase throws for one without a
\* `status', and the page goes blank.
SaleStatusCard(stage) == IF stage = "broken" THEN "blank" ELSE "up"

FinishStatus(i) ==
  /\ page = "up"
  /\ statusReq[i] \in {"read", "broken", "failing", "aborted"}
  /\ statusReq' = [statusReq EXCEPT ![i] = "free"]
  /\ statusBody' = [statusBody EXCEPT ![i] = 0]
  /\ awaitStatus' = Settled(awaitStatus, statusId, i)
  /\ IF IsCurrent(statusId, i)
       THEN /\ loading' = FALSE
            /\ shown' = CASE statusReq[i] = "read"   -> statusBody[i]
                          [] statusReq[i] = "broken" -> None
                          [] OTHER                   -> shown
            /\ statusError' = (statusError \/ statusReq[i] = "failing")
            /\ page' = SaleStatusCard(statusReq[i])
       ELSE UNCHANGED <<page, shown, statusError, loading>>
  /\ UNCHANGED <<serverVars, statusId, lookupVars>>
  /\ UNCHANGED <<buyReq, buyUser, buyBody, awaitLookup, buyResult, buyError,
                 submitting, confirmed>>

\* A lookup without a body is shown as "No purchase found", of nobody.
FinishLookup(i) ==
  /\ page = "up"
  /\ lookupReq[i] \in {"read", "broken", "failing", "aborted"}
  /\ lookupReq' = [lookupReq EXCEPT ![i] = "free"]
  /\ lookupFor' = [lookupFor EXCEPT ![i] = Nobody]
  /\ lookupBody' = [lookupBody EXCEPT ![i] = FALSE]
  /\ awaitLookup' = Settled(awaitLookup, lookupId, i)
  /\ IF IsCurrent(lookupId, i)
       THEN /\ checking' = FALSE
            /\ lookupResult' =
                 CASE lookupReq[i] = "read" ->
                        [user |-> lookupFor[i], has |-> lookupBody[i]]
                   [] lookupReq[i] = "broken" -> [user |-> Nobody, has |-> FALSE]
                   [] lookupReq[i] = "failing" -> NoLookup
                   [] OTHER -> lookupResult
            /\ lookupError' = (lookupError \/ lookupReq[i] = "failing")
       ELSE UNCHANGED <<lookupResult, lookupError, checking>>
  /\ UNCHANGED <<serverVars, page, lookupId, statusVars>>
  /\ UNCHANGED <<buyReq, buyUser, buyBody, awaitStatus, buyResult, buyError,
                 submitting, confirmed>>

-----------------------------------------------------------------------------
(* handlePurchaseSubmit.                                                   *)

SubmitNobody ==
  /\ page = "up" /\ Quiet /\ ~submitting
  /\ buyResult' = "none" /\ buyError' = TRUE
  /\ UNCHANGED <<buyReq, buyUser, buyBody, awaitStatus, awaitLookup, submitting,
                 confirmed, serverVars, page, statusVars, lookupVars>>

\* The result of the submission before stays on the page.
SubmitPurchase(u) ==
  /\ page = "up" /\ Quiet /\ ~submitting
  /\ submitting' = TRUE /\ buyError' = FALSE
  /\ buyReq' = "waiting" /\ buyUser' = u
  /\ UNCHANGED <<buyBody, awaitStatus, awaitLookup, buyResult, confirmed>>
  /\ UNCHANGED <<serverVars, page, statusVars, lookupVars>>

\* Starts both loads, and waits for both.
PurchaseAnswered ==
  /\ page = "up"
  /\ buyReq = "read"
  /\ buyReq' = "free"
  /\ buyResult' = IF buyBody THEN "success" ELSE "refused"
  /\ SendStatus
  /\ SendLookup(buyUser)
  /\ awaitStatus' = statusId' /\ awaitLookup' = lookupId'
  /\ UNCHANGED <<serverVars, page, buyUser, buyBody, buyError, submitting, confirmed>>

\* A result without `status' cannot be rendered either.
PurchaseAnswerBroken ==
  /\ page = "up"
  /\ buyReq = "broken"
  /\ buyReq' = "free"
  /\ page' = "blank"
  /\ UNCHANGED <<serverVars, statusVars, lookupVars, buyUser, buyBody, awaitStatus,
                 awaitLookup, buyResult, buyError, submitting, confirmed>>

PurchaseFailed ==
  /\ page = "up"
  /\ buyReq = "failing"
  /\ buyReq' = "free"
  /\ buyResult' = "none" /\ buyError' = TRUE
  /\ SendStatus
  /\ awaitStatus' = statusId'
  /\ UNCHANGED <<serverVars, page, lookupVars, buyUser, buyBody, awaitLookup,
                 submitting, confirmed>>

\* The finally block, once what was awaited has settled, aborted or not.
EndSubmission ==
  /\ page = "up"
  /\ SubmissionSettled
  /\ submitting' = FALSE
  /\ UNCHANGED <<buyReq, buyUser, buyBody, awaitStatus, awaitLookup, buyResult,
                 buyError, confirmed, serverVars, page, statusVars, lookupVars>>

-----------------------------------------------------------------------------

BuyContinues ==
  PurchaseAnswered \/ PurchaseAnswerBroken \/ PurchaseFailed \/ EndSubmission

WebNext ==
  \/ SaleChanges \/ BuyNetwork \/ LoadSaleStatus \/ LookUpNobody \/ SubmitNobody
  \/ BuyContinues
  \/ \E i \in Slot :
       StatusNetwork(i) \/ LookupNetwork(i) \/ FinishStatus(i) \/ FinishLookup(i)
  \/ \E u \in User : LookUp(u) \/ SubmitPurchase(u)

WebSpec == WebInit /\ [][WebNext]_webVars

Continues ==
  BuyContinues \/ \E i \in Slot : FinishStatus(i) \/ FinishLookup(i)

\* Continuations run, and a request that is left alone is answered or fails in
\* the end: strongly fair, since between two events of the network the page has
\* its turn.  How long an answer takes is left open.  Of each kind at most one
\* request is left alone at a time.
WebLiveSpec ==
  /\ WebSpec
  /\ WF_webVars(Continues)
  /\ SF_webVars(BuyNetwork)
  /\ SF_webVars(\E i \in Slot : StatusNetwork(i))
  /\ SF_webVars(\E i \in Slot : LookupNetwork(i))

-----------------------------------------------------------------------------

\* What the page shows of the sale never goes back to an older state, whichever
\* loads overlap and whichever of them are aborted while their body is read: such
\* a load has an empty body, which must not reach the page (loadSaleStatus, the
\* request id).  Only the newest load may lose what is shown, if its own body was
\* cut short.
ShownNeverGoesBack ==
  [][shown' < shown => shown' = None /\ statusReq[statusId] = "broken"]_webVars

\* The buttons tell the truth: "Refreshing..." and "Checking..." are shown
\* exactly while the newest request of their kind has not settled, so neither
\* button stays disabled for a request that is gone.
BusyMeansPending ==
  page = "up" => /\ loading <=> statusReq[statusId] # "free"
                 /\ checking <=> lookupReq[lookupId] # "free"

\* Once the page has confirmed a purchase and nothing is being loaded, the
\* status it shows, unless it shows an error, is not older than the purchase,
\* whatever polls came between.
PurchaseIsReflected ==
  page = "up" /\ buyResult = "success" /\ ~submitting /\ ~loading /\ ~statusError
    => shown >= confirmed

\* And the lookup it shows for that user, even one that was asked for before
\* the purchase, does not deny it.
ConfirmedIsFound ==
  page = "up" /\ buyResult = "success" /\ ~submitting /\ ~checking
    /\ lookupResult # NoLookup /\ lookupResult.user = buyUser
    => lookupResult.has

\* A submission ends: the Buy Now button comes back although each of the loads
\* it waits for may be aborted by another.
SubmissionEnds == submitting ~> (~submitting \/ page = "blank")

\* App.jsx: the status is "Updated automatically every 5 seconds": again and
\* again no load is pending, provided that in the end every poll finds the one
\* before it answered.  The code needs this: a poll aborts its predecessor, so
\* with answers that take longer than the interval none ever reaches the page.
PageKeepsUpdating ==
  <>[][LoadSaleStatus => ~loading]_webVars => []<>(~loading \/ page = "blank")

=============================================================================
