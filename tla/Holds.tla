-------------------------------- MODULE Holds --------------------------------
(***************************************************************************)
(* The request handlers that move coins (internal/api/holds.go and          *)
(* adjustments.go) over the transactions and tasks tables and the ledger.   *)
(*                                                                          *)
(* A handler is a goroutine that makes its store and ledger calls one at a  *)
(* time with no transaction around them; every call is one action, so the   *)
(* calls of concurrent handlers interleave freely.  Handlers run on what    *)
(* they read at the start.  A handler may be cut off between any two calls: *)
(* a store or ledger error, the request's 30 s timeout or a client that     *)
(* disconnects, and a crash cuts off all of them.  A call whose effect took *)
(* place although its answer was lost is that call followed by a cut.       *)
(***************************************************************************)
EXTENDS Ledger, FiniteSets

CONSTANTS
  Request,      \* slots for handlers that run at the same time
  RowId,        \* rows of the transactions table a behaviour may insert
  Task,         \* the household's catalog
  Bounty,       \* its one-time tasks
  Coin,         \* what a redemption costs (money.Coin(1))
  MaxFaults     \* handlers cut off, or crashes, in a behaviour

NoTransfer == 0
NoRow == 0
NoTask == "no task"
Nobody == "nobody"

ASSUME HoldsAssumption ==
  /\ Bounty \subseteq Task
  /\ Coin \in Amount
  /\ RowId \subseteq Nat \ {0}
  /\ MaxFaults \in Nat
  /\ NoTask \notin Task
  /\ Nobody \notin Wallet

VARIABLES
  row,          \* the transactions table, by id
  task,         \* the columns of the tasks table that submissions touch
  handler,      \* the running handlers: where each is and its local variables
  faults        \* cuts so far

holdsVars == <<account, transfer, row, task, handler, faults>>

(* domain.Transaction, as a row and as a handler's local copy. *)
Transaction ==
  [type: Code, status: {"pending", "settled", "voided"}, account: Wallet,
   amount: Amount, task: Task \cup {NoTask}, hold: TransferId \cup {NoTransfer}]

(* What a handler does next.  "claim", "hold" and "insert" are the steps of a  *)
(* submission; "resolve", "record" and "release" of a decision; "void",        *)
(* "rehold" and "update" of an adjusted reward; "post" of a manual adjustment. *)
Step == {"claim", "hold", "post", "insert", "resolve", "record", "release",
         "void", "rehold", "update"}

Handler ==
  [step: Step, id: RowId \cup {NoRow}, tx: Transaction,
   outcome: {"settled", "voided"}, amount: Amount, hold: TransferId \cup {NoTransfer}]

TaskRow == [active: BOOLEAN, claimed_by: Wallet \cup {Nobody}]

TypeOK ==
  /\ LedgerTypeOK
  /\ DOMAIN row \subseteq RowId
  /\ \A x \in DOMAIN row : row[x] \in Transaction
  /\ task \in [Task -> TaskRow]
  /\ DOMAIN handler \subseteq Request
  /\ \A r \in DOMAIN handler : handler[r] \in Handler
  /\ faults \in 0..MaxFaults

Init ==
  /\ LedgerInit
  /\ row = [x \in {} |-> NoRow]
  /\ task = [t \in Task |-> [active |-> TRUE, claimed_by |-> Nobody]]
  /\ handler = [r \in {} |-> NoRow]
  /\ faults = 0

----------------------------------------------------------------------------
(* Handlers come and go. *)
Idle == Request \ DOMAIN handler

(* Bounds: a handler starts only if the ids it will need are left. *)
Needing(steps) == {q \in DOMAIN handler : handler[q].step \in steps}
RoomForHold ==
  Cardinality(DOMAIN transfer)
    + Cardinality(Needing({"claim", "hold", "post", "void", "rehold"}))
  < Cardinality(TransferId)
RoomForRow ==
  Cardinality(DOMAIN row) + Cardinality(Needing({"claim", "hold", "post", "insert"}))
  < Cardinality(RowId)

Start(r, h) ==
  /\ r \in Idle
  /\ handler' = [q \in DOMAIN handler \cup {r} |-> IF q = r THEN h ELSE handler[q]]

Ending(S) == handler' = [q \in DOMAIN handler \ S |-> handler[q]]
Finish(r) == Ending({r})

At(r, step) == r \in DOMAIN handler /\ handler[r].step = step

Goto(r, step) == handler' = [handler EXCEPT ![r].step = step]

Submission(step, type, w, amount, t) ==
  [step |-> step, id |-> NoRow, outcome |-> "settled", amount |-> amount, hold |-> NoTransfer,
   tx |-> [type |-> type, status |-> "pending", account |-> w, amount |-> amount,
           task |-> t, hold |-> NoTransfer]]

----------------------------------------------------------------------------
(* Submissions *)

(* handleCreateEarning up to its first call that writes: the task it loads is   *)
(* a copy.  An inactive task ends the request with no effect.                   *)
CreateEarning(r, w, t, value) ==
  /\ RoomForRow /\ RoomForHold
  /\ task[t].active
  /\ Start(r, Submission(IF t \in Bounty THEN "claim" ELSE "hold", EarnCode, w, value, t))
  /\ UNCHANGED <<account, transfer, row, task, faults>>

ProposeChore(r, w, value) ==
  /\ RoomForRow /\ RoomForHold
  /\ Start(r, Submission("hold", EarnCode, w, value, NoTask))
  /\ UNCHANGED <<account, transfer, row, task, faults>>

CreateRedemption(r, w) ==
  /\ RoomForRow /\ RoomForHold
  /\ Start(r, Submission("hold", RedeemCode, w, Coin, NoTask))
  /\ UNCHANGED <<account, transfer, row, task, faults>>

CreateAdjustment(r, w, code, value) ==
  /\ RoomForRow /\ RoomForHold
  /\ Start(r, Submission("post", code, w, value, NoTask))
  /\ UNCHANGED <<account, transfer, row, task, faults>>

(* Mutant: the claim does not ask whether somebody has the bounty already. *)
ClaimableTwice(t) == t \in Bounty /\ task[t].active

(* Store.ClaimBounty is one conditional UPDATE.  (Bounties.tla has the deadlines; *)
(* here a bounty whose deadline passed is one taken off the catalog.)              *)
Claimable(t) ==
  /\ t \in Bounty
  /\ task[t].active
  /\ task[t].claimed_by = Nobody

ClaimBounty(r) ==
  LET tx == handler[r].tx IN
  /\ At(r, "claim")
  /\ \/ /\ Claimable(tx.task)
        /\ task' = [task EXCEPT ![tx.task].claimed_by = tx.account]
        /\ Goto(r, "hold")
     \/ /\ ~Claimable(tx.task)        \* 409 bounty_claimed
        /\ Finish(r)
        /\ UNCHANGED task
  /\ UNCHANGED <<account, transfer, row, faults>>

(* EarnHold or RedeemHold; a redemption the wallet cannot cover is refused. *)
PlaceHold(r) ==
  LET tx == handler[r].tx IN
  /\ At(r, "hold")
  /\ \/ \E id \in FreshId :
          /\ Hold(id, tx.type, tx.account, tx.amount)
          /\ handler' = [handler EXCEPT ![r].step = "insert", ![r].tx.hold = id]
     \/ /\ ~Funded(DebitAccount(tx.type, tx.account), tx.amount)
        /\ Finish(r)
        /\ UNCHANGED ledgerVars
  /\ UNCHANGED <<row, task, faults>>

(* Mutant: a manual adjustment is inserted with the default status. *)
PostAdjustmentAsPending(r) ==
  LET tx == handler[r].tx IN
  /\ At(r, "post")
  /\ \/ \E id \in FreshId :
          /\ Post(id, tx.type, tx.account, tx.amount)
          /\ handler' = [handler EXCEPT ![r].step = "insert", ![r].tx.hold = id]
     \/ /\ ~Funded(DebitAccount(tx.type, tx.account), tx.amount)
        /\ Finish(r)
        /\ UNCHANGED ledgerVars
  /\ UNCHANGED <<row, task, faults>>

(* Credit or Debit: a manual adjustment is settled from the start. *)
PostAdjustment(r) ==
  LET tx == handler[r].tx IN
  /\ At(r, "post")
  /\ \/ \E id \in FreshId :
          /\ Post(id, tx.type, tx.account, tx.amount)
          /\ handler' = [handler EXCEPT ![r].step = "insert", ![r].tx.hold = id,
                                        ![r].tx.status = "settled"]
     \/ /\ ~Funded(DebitAccount(tx.type, tx.account), tx.amount)
        /\ Finish(r)
        /\ UNCHANGED ledgerVars
  /\ UNCHANGED <<row, task, faults>>

FreshRow ==
  LET unused == RowId \ DOMAIN row
  IN {x \in unused : \A y \in unused : x <= y}

(* Mutant: the catalog is asked once more, when the hold is placed already. *)
CreateTransactionIfActive(r) ==
  LET tx == handler[r].tx IN
  /\ At(r, "insert")
  /\ IF tx.task \in Task /\ ~task[tx.task].active
     THEN UNCHANGED row
     ELSE \E x \in FreshRow :
            row' = [y \in DOMAIN row \cup {x} |-> IF y = x THEN tx ELSE row[y]]
  /\ Finish(r)
  /\ UNCHANGED <<account, transfer, task, faults>>

(* Store.CreateTransaction under a new uuid. *)
CreateTransaction(r) ==
  /\ At(r, "insert")
  /\ \E x \in FreshRow :
       row' = [y \in DOMAIN row \cup {x} |-> IF y = x THEN handler[r].tx ELSE row[y]]
  /\ Finish(r)
  /\ UNCHANGED <<account, transfer, task, faults>>

----------------------------------------------------------------------------
(* Decisions *)

Reading(step, x, outcome, amount) ==
  [step |-> step, id |-> x, tx |-> row[x], outcome |-> outcome,
   amount |-> amount, hold |-> NoTransfer]

(* decide reads the row; one that is not pending is refused as already_decided. *)
Decide(r, x, outcome) ==
  /\ row[x].status = "pending"
  /\ Start(r, Reading("resolve", x, outcome, row[x].amount))
  /\ UNCHANGED <<account, transfer, row, task, faults>>

(* Mutant: the ledger's refusal is not treated as an error. *)
ResolveHoldIgnoringRefusal(r) ==
  LET h == handler[r]
      code == CodeFor(h.tx.type)
  IN /\ At(r, "resolve")
     /\ \/ h.outcome = "settled" /\ SettleHold(h.tx.hold, code)
        \/ h.outcome = "voided" /\ VoidHold(h.tx.hold, code)
        \/ ~Resolvable(h.tx.hold, code) /\ UNCHANGED ledgerVars
     /\ Goto(r, "record")
     /\ UNCHANGED <<row, task, faults>>

(* Mutant: a voided hold ends the request before its row is updated. *)
ResolveHoldReturningEarly(r) ==
  LET h == handler[r]
      code == CodeFor(h.tx.type)
  IN /\ At(r, "resolve")
     /\ \/ h.outcome = "settled" /\ SettleHold(h.tx.hold, code) /\ Goto(r, "record")
        \/ h.outcome = "voided" /\ VoidHold(h.tx.hold, code) /\ Finish(r)
        \/ ~Resolvable(h.tx.hold, code) /\ Finish(r) /\ UNCHANGED ledgerVars
     /\ UNCHANGED <<row, task, faults>>

(* Settle or Void of the hold the row named when it was read.  A hold that is   *)
(* no longer pending makes the ledger refuse: 500 ledger_error.                 *)
ResolveHold(r) ==
  LET h == handler[r]
      code == CodeFor(h.tx.type)
  IN /\ At(r, "resolve")
     /\ \/ /\ h.outcome = "settled"
           /\ SettleHold(h.tx.hold, code)
           /\ Goto(r, "record")
        \/ /\ h.outcome = "voided"
           /\ VoidHold(h.tx.hold, code)
           /\ Goto(r, "record")
        \/ /\ ~Resolvable(h.tx.hold, code)
           /\ Finish(r)
           /\ UNCHANGED ledgerVars
     /\ UNCHANGED <<row, task, faults>>

(* Mutant: the decided row is found by its wallet, not by its id. *)
DecideTransactionByWallet(r) ==
  LET h == handler[r] IN
  /\ At(r, "record")
  /\ row' = [x \in DOMAIN row |->
              IF row[x].account = h.tx.account
              THEN [row[x] EXCEPT !.status = h.outcome]
              ELSE row[x]]
  /\ Finish(r)
  /\ UNCHANGED <<account, transfer, task, faults>>

(* Mutant: declining a bounty's submission leaves the bounty claimed. *)
DecideTransactionWithoutRelease(r) ==
  LET h == handler[r] IN
  /\ At(r, "record")
  /\ row' = IF row[h.id].status = "pending"
            THEN [row EXCEPT ![h.id].status = h.outcome]
            ELSE row
  /\ Finish(r)
  /\ UNCHANGED <<account, transfer, task, faults>>

(* Mutant: it is the approval that releases the bounty. *)
DecideTransactionReleasingApproved(r) ==
  LET h == handler[r] IN
  /\ At(r, "record")
  /\ row[h.id].status = "pending"
  /\ row' = [row EXCEPT ![h.id].status = h.outcome]
  /\ IF h.outcome = "settled" /\ h.tx.task \in Bounty THEN Goto(r, "release") ELSE Finish(r)
  /\ UNCHANGED <<account, transfer, task, faults>>

(* Store.DecideTransaction, conditional on the row being pending still. *)
DecideTransaction(r) ==
  LET h == handler[r] IN
  /\ At(r, "record")
  /\ IF row[h.id].status = "pending"
     THEN /\ row' = [row EXCEPT ![h.id].status = h.outcome]
          /\ IF h.outcome = "voided" /\ h.tx.type = EarnCode /\ h.tx.task \in Bounty
             THEN Goto(r, "release")
             ELSE Finish(r)
     ELSE Finish(r) /\ UNCHANGED row
  /\ UNCHANGED <<account, transfer, task, faults>>

ReleaseBountyClaim(r) ==
  /\ At(r, "release")
  /\ task' = [task EXCEPT ![handler[r].tx.task].claimed_by = Nobody]
  /\ Finish(r)
  /\ UNCHANGED <<account, transfer, row, faults>>

----------------------------------------------------------------------------
(* Adjusting the reward of a pending earning *)

(* Mutant: the check that the new amount is positive lets zero through. *)
AdjustTransactionToZero(r, x, amount) ==
  /\ RoomForHold
  /\ row[x].status = "pending"
  /\ row[x].type = EarnCode
  /\ Start(r, Reading("void", x, "voided", amount - 1))
  /\ UNCHANGED <<account, transfer, row, task, faults>>

AdjustTransaction(r, x, amount) ==
  /\ RoomForHold
  /\ row[x].status = "pending"
  /\ row[x].type = EarnCode
  /\ Start(r, Reading("void", x, "voided", amount))
  /\ UNCHANGED <<account, transfer, row, task, faults>>

(* Mutant: the new hold is placed although the prior one was not released. *)
VoidPriorHoldIgnoringRefusal(r) ==
  LET h == handler[r]
      code == CodeFor(h.tx.type)
  IN /\ At(r, "void")
     /\ \/ VoidHold(h.tx.hold, code)
        \/ ~Resolvable(h.tx.hold, code) /\ UNCHANGED ledgerVars
     /\ Goto(r, "rehold")
     /\ UNCHANGED <<row, task, faults>>

VoidPriorHold(r) ==
  LET h == handler[r]
      code == CodeFor(h.tx.type)
  IN /\ At(r, "void")
     /\ \/ /\ VoidHold(h.tx.hold, code)
           /\ Goto(r, "rehold")
        \/ /\ ~Resolvable(h.tx.hold, code)
           /\ Finish(r)
           /\ UNCHANGED ledgerVars
     /\ UNCHANGED <<row, task, faults>>

(* Mutant: the new hold is placed for the amount the row had before. *)
PlaceAdjustedHoldAtOldAmount(r) ==
  LET h == handler[r] IN
  /\ At(r, "rehold")
  /\ \E id \in FreshId :
       /\ Hold(id, EarnCode, h.tx.account, h.tx.amount)
       /\ handler' = [handler EXCEPT ![r].step = "update", ![r].hold = id]
  /\ UNCHANGED <<row, task, faults>>

PlaceAdjustedHold(r) ==
  LET h == handler[r] IN
  /\ At(r, "rehold")
  /\ \E id \in FreshId :
       /\ Hold(id, EarnCode, h.tx.account, h.amount)
       /\ handler' = [handler EXCEPT ![r].step = "update", ![r].hold = id]
  /\ UNCHANGED <<row, task, faults>>

(* Mutant: the row keeps the id of the hold that was voided. *)
AdjustTransactionAmountKeepingHold(r) ==
  LET h == handler[r] IN
  /\ At(r, "update")
  /\ row' = IF row[h.id].status = "pending"
            THEN [row EXCEPT ![h.id].amount = h.amount]
            ELSE row
  /\ Finish(r)
  /\ UNCHANGED <<account, transfer, task, faults>>

(* Store.AdjustTransactionAmount, conditional on the row being pending still. *)
AdjustTransactionAmount(r) ==
  LET h == handler[r] IN
  /\ At(r, "update")
  /\ row' = IF row[h.id].status = "pending"
            THEN [row EXCEPT ![h.id].amount = h.amount, ![h.id].hold = h.hold]
            ELSE row
  /\ Finish(r)
  /\ UNCHANGED <<account, transfer, task, faults>>

----------------------------------------------------------------------------
(* The catalog around the handlers: an operator, or the expiry sweep, takes a  *)
(* task off the catalog, and an operator puts it back.                         *)
SetActive(t, active) ==
  /\ task' = [task EXCEPT ![t].active = active]
  /\ UNCHANGED <<account, transfer, row, handler, faults>>

(* A handler is cut off before its next call; a crash cuts off all of them. *)
CutOff(S) ==
  /\ faults < MaxFaults
  /\ Ending(S)
  /\ faults' = faults + 1
  /\ UNCHANGED <<account, transfer, row, task>>

Fault(r) == r \in DOMAIN handler /\ CutOff({r})
Crash == DOMAIN handler # {} /\ CutOff(DOMAIN handler)

Continue(r) ==
  \/ ClaimBounty(r)
  \/ PlaceHold(r)
  \/ PostAdjustment(r)
  \/ CreateTransaction(r)
  \/ ResolveHold(r)
  \/ DecideTransaction(r)
  \/ ReleaseBountyClaim(r)
  \/ VoidPriorHold(r)
  \/ PlaceAdjustedHold(r)
  \/ AdjustTransactionAmount(r)

Submit(r, w) ==
  \/ \E t \in Task, value \in Amount : CreateEarning(r, w, t, value)
  \/ \E value \in Amount : ProposeChore(r, w, value)
  \/ CreateRedemption(r, w)
  \/ \E code \in {CreditCode, DebitCode}, value \in Amount : CreateAdjustment(r, w, code, value)

Review(r, x) ==
  \/ \E outcome \in {"settled", "voided"} : Decide(r, x, outcome)
  \/ \E value \in Amount : AdjustTransaction(r, x, value)

Next ==
  \/ \E r \in Request, w \in Wallet : Submit(r, w)
  \/ \E r \in Request, x \in DOMAIN row : Review(r, x)
  \/ \E r \in Request : Continue(r)
  \/ \E r \in Request : Fault(r)
  \/ Crash
  \/ \E t \in Task, active \in BOOLEAN : SetActive(t, active)

Spec == Init /\ [][Next]_holdsVars

(* A running handler makes its next call: nothing but a cut stops a goroutine. *)
Fairness == \A r \in Request : WF_holdsVars(Continue(r))
FairSpec == Spec /\ Fairness

----------------------------------------------------------------------------
(* What a row says was decided is what the ledger did with its hold: a settled *)
(* row's coins were posted, a voided row's hold was released, in every         *)
(* interleaving of settle, void and adjust on one row and after every cut      *)
(* (decide, holds.go:277-325, against DecideTransaction, transactions.go:31-47).*)
DecisionsMatchLedger ==
  \A x \in DOMAIN row :
    /\ row[x].status = "settled" =>
         transfer[row[x].hold].state \in {"posted", "single"}
    /\ row[x].status = "voided" => transfer[row[x].hold].state = "voided"

(* Each row stands on a transfer of its own, for the row's wallet, purpose and *)
(* amount: what an operator approves is what moves, also after the reward was  *)
(* adjusted by voiding one hold and placing another (holds.go:161-220).        *)
RowsOwnTheirHolds ==
  \A x \in DOMAIN row :
    /\ row[x].hold \in DOMAIN transfer
    /\ LET t == transfer[row[x].hold]
       IN t.code = row[x].type /\ t.wallet = row[x].account /\ t.amount = row[x].amount
    /\ \A y \in DOMAIN row \ {x} : row[y].hold # row[x].hold

(* Two holders cannot both win a bounty: at most one submission for it is not  *)
(* declined, through stale catalog reads, releases, re-claims and cuts         *)
(* (tasks.go:75-105, holds.go:53-66 and 313-318).                              *)
LiveSubmissions(b) == {x \in DOMAIN row : row[x].task = b /\ row[x].status # "voided"}
OneLiveSubmissionPerBounty ==
  \A b \in Bounty : \A x, y \in LiveSubmissions(b) : x = y

(* A decision is final: no later settle, void, adjustment or submission alters *)
(* a row that was decided (transactions.go:31-33 and 49-51).                   *)
DecidedRowsAreFinal ==
  [][\A x \in DOMAIN row :
       /\ x \in DOMAIN row'
       /\ row[x].status # "pending" => row'[x] = row[x]]_holdsVars

(* A bounty is off the market only while a submission for it is alive or one   *)
(* of its handlers is at work: nobody blocks it for nothing, as long as no     *)
(* handler is cut off (holds.go:53-81 and 313-318).                            *)
ClaimIsBacked(b) ==
  task[b].claimed_by # Nobody =>
    \/ LiveSubmissions(b) # {}
    \/ \E r \in DOMAIN handler :
         handler[r].tx.task = b /\ handler[r].step \in {"hold", "insert", "release"}
ClaimsAreBacked == \A b \in Bounty : ClaimIsBacked(b)

(* A row is pending while its authorization hold awaits a decision             *)
(* (domain.go:57), or while the handler that resolved the hold is still at     *)
(* work on the row.                                                            *)
RowAwaitsDecision(x) ==
  row[x].status = "pending" =>
    \/ transfer[row[x].hold].state = "pending"
    \/ \E r \in DOMAIN handler :
         handler[r].id = x /\ handler[r].step \in {"record", "rehold", "update"}
PendingRowsAwaitDecision == \A x \in DOMAIN row : RowAwaitsDecision(x)

(* Coins that moved, or are reserved, have a row that shows them, or a handler *)
(* about to write one.                                                         *)
NewHold(h) == IF h.step = "update" THEN h.hold ELSE h.tx.hold
HoldIsNamed(t) ==
  transfer[t].state # "voided" =>
    \/ \E x \in DOMAIN row : row[x].hold = t
    \/ \E r \in DOMAIN handler :
         handler[r].step \in {"insert", "update"} /\ NewHold(handler[r]) = t

(* Nothing but a cut strands anything: no step of a running handler, of any    *)
(* other handler or of an operator leaves a claim nobody works for, a row      *)
(* nobody can decide or coins no row shows, where there was none, also after   *)
(* earlier cuts have left some behind (the calls of holds.go:53-94, 187-218    *)
(* and 298-318 and adjustments.go:57-96, and their early returns).             *)
ClaimsStayBacked == \A b \in Bounty : ClaimIsBacked(b) => ClaimIsBacked(b)'
RowsStayAwaited ==
  \A x \in DOMAIN row' :
    (x \in DOMAIN row => RowAwaitsDecision(x)) => RowAwaitsDecision(x)'
HoldsStayNamed ==
  \A t \in DOMAIN transfer' : (t \in DOMAIN transfer => HoldIsNamed(t)) => HoldIsNamed(t)'
OnlyCutsStrand ==
  [][faults' = faults => ClaimsStayBacked /\ RowsStayAwaited /\ HoldsStayNamed]_holdsVars

(* The balance of a wallet is what its transactions add up to: settled        *)
(* earnings and credits less settled redemptions and debits, less the         *)
(* redemptions still awaiting a decision.  The ledger and the table are       *)
(* written by separate calls and agree whenever no handler is between them    *)
(* and none was cut off (holds.go, adjustments.go:57-96, charts.go).          *)
RowsOf(w, types, status) ==
  {x \in DOMAIN row :
     row[x].account = w /\ row[x].type \in types /\ row[x].status = status}
RowTotal(rows) == SumFunctionOnSet([x \in DOMAIN row |-> row[x].amount], rows)

BalanceMatchesRows ==
  DOMAIN handler = {} =>
    \A w \in Wallet :
      Available(w) = RowTotal(RowsOf(w, Mints, "settled"))
                     - RowTotal(RowsOf(w, Code \ Mints, "settled"))
                     - RowTotal(RowsOf(w, Code \ Mints, "pending"))

(* Once the ledger has resolved a row's hold, the row gets its decision or a   *)
(* new hold: the operator's queue never keeps an entry nobody can act on, as   *)
(* long as handlers run on (holds.go:298-312 and 202-214).                     *)
Stranded(x) ==
  x \in DOMAIN row /\ row[x].status = "pending" /\ transfer[row[x].hold].state # "pending"
StrandedRowsRecover == \A x \in RowId : Stranded(x) ~> ~Stranded(x)

(* Declining a bounty's submission puts the bounty back on the market, where   *)
(* the next holder to submit gets it (holds.go:313-318).                       *)
DeclinedBountiesReopen ==
  \A x \in RowId, b \in Bounty :
    (x \in DOMAIN row /\ row[x].task = b /\ row[x].status = "voided")
      ~> (task[b].claimed_by = Nobody \/ LiveSubmissions(b) # {})
=============================================================================
