------------------------------- MODULE InitSale -------------------------------
(***************************************************************************)
(* scripts/init-sale.js.  The API container runs it before every start of  *)
(* the server, and `docker compose run api-init' runs it while the server  *)
(* serves.  It makes sure the configured sale exists in Postgres, then     *)
(* resets the Redis state of the gate in one MULTI.                        *)
(***************************************************************************)
EXTENDS FlashSaleStores

CONSTANTS
  InitProc,        \* processes that run the script
  StockArgument,   \* stocks an operator may give on the command line
  AllowBareReset,  \* whether resetSaleState is also called without a sale id
  MaxResets        \* bound: resets in a behaviour

ASSUME InitAssumption ==
  /\ StockArgument \subseteq Nat
  /\ AllowBareReset \in BOOLEAN
  /\ MaxResets \in Nat

VARIABLES
  initPc,     \* where each run of the script stands
  initSale,   \* its config.sale, then the id of that sale
  initStock   \* its initialStock

initVars == <<initPc, initSale, initStock>>

InitPc == {"off", "ensure", "reset"}

InitSaleTypeOK ==
  /\ initPc \in [InitProc -> InitPc]
  /\ initSale \in [InitProc -> Sale \cup {NoSale}]
  /\ initStock \in [InitProc -> Nat]
  /\ \A i \in InitProc : initPc[i] # "off" => initSale[i] \in Sale

InitSaleInit ==
  /\ initPc = [i \in InitProc |-> "off"]
  /\ initSale = [i \in InitProc |-> NoSale]
  /\ initStock = [i \in InitProc |-> 0]

\* The script's variables end with it.
InitExit(i) ==
  /\ initPc' = [initPc EXCEPT ![i] = "off"]
  /\ initSale' = [initSale EXCEPT ![i] = NoSale]
  /\ initStock' = [initStock EXCEPT ![i] = 0]

ResetsLeft ==
  Len(resets) + Cardinality({i \in InitProc : initPc[i] # "off"}) < MaxResets

\* Faulty variant: resets Redis without making sure the sale exists.
FirstStepIsReset == "reset"
FirstStep == "ensure"

\* resolveInitialStock: the command line argument, or the configured stock.
StartInit(i, d, n) ==
  /\ initPc[i] = "off"
  /\ ResetsLeft
  /\ n \in {InitialStock[d]} \cup StockArgument
  /\ initPc' = [initPc EXCEPT ![i] = FirstStep]
  /\ initSale' = [initSale EXCEPT ![i] = d]
  /\ initStock' = [initStock EXCEPT ![i] = n]
  /\ UNCHANGED storeVars

\* ensureActiveSale: the upsert that returns the id of the sale.
EnsureConfiguredSale(i) ==
  /\ initPc[i] = "ensure"
  /\ GetOrCreateSale(initSale[i])
  /\ initPc' = [initPc EXCEPT ![i] = "reset"]
  /\ UNCHANGED <<initSale, initStock, redisVars, purchases, resets, faults>>

\* Faulty variants: the set of buyers, or the active sale, survives the reset.
BuyersKept(users) == users
BuyersAfterReset(users) == {}

ActiveSaleKept(sale) == activeSaleId
ActiveSaleAfterReset(sale) == sale

\* resetSaleState: MULTI SET stock, DEL buyers, SET (or DEL) the active sale.
\* The failure list and its archive are not touched.
ResetSaleState(n, sale) ==
  /\ stock' = n
  /\ purchasedUsers' = BuyersAfterReset(purchasedUsers)
  /\ activeSaleId' = ActiveSaleAfterReset(sale)
  /\ resets' = Append(resets, [sale |-> sale, stock |-> n])
  /\ UNCHANGED <<failures, archive, postgresVars, faults>>

ResetConfiguredSale(i) ==
  /\ initPc[i] = "reset"
  /\ ResetSaleState(initStock[i], initSale[i])
  /\ InitExit(i)

\* A caller that gives no sale id (the test helpers do).
BareReset(n) ==
  /\ AllowBareReset
  /\ ResetsLeft
  /\ ResetSaleState(n, NoSale)
  /\ UNCHANGED initVars

\* A command fails, or its reply is lost, and the script exits with 1.
InitFails(i) ==
  /\ initPc[i] # "off"
  /\ Fault("init")
  /\ InitExit(i)
  /\ UNCHANGED <<redisVars, postgresVars, resets>>

InitStep(i) ==
  \/ \E d \in Sale : \E n \in {InitialStock[d]} \cup StockArgument :
       StartInit(i, d, n)
  \/ EnsureConfiguredSale(i)
  \/ ResetConfiguredSale(i)
  \/ InitFails(i)

StockAfterBareReset == {InitialStock[d] : d \in Sale} \cup StockArgument

InitSaleNext ==
  \/ \E i \in InitProc : InitStep(i)
  \/ \E n \in StockAfterBareReset : BareReset(n)

=============================================================================
