---------------------------- MODULE HoldsProofs ----------------------------
(***************************************************************************)
(* The ledger and the handlers, for every number of handlers, wallets,      *)
(* rows, tasks, amounts and cuts, in four parts:                            *)
(*   1. what each ledger operation preserves;                               *)
(*   2. Inv of HoldsInductive is inductive: one lemma for each action, one  *)
(*      step in it for each conjunct the action can touch;                  *)
(*   3. the money adds up: the ledger's counters are the sums of its        *)
(*      transfers, the table's rows come to the same, and without cuts and  *)
(*      faults FullInv is inductive;                                        *)
(*   4. the handlers implement Approvals: each call of a handler is one     *)
(*      step of the abstract bank or none.                                  *)
(***************************************************************************)
EXTENDS HoldsInductive, Sums

(***************************************************************************)
(* 1. The ledger                                                             *)
(***************************************************************************)

(* A transfer moves at least one unit. *)
LEMMA Amounts == \A a \in Amount : a \in Int /\ a > 0
BY AmountAssumption

(* The two sides of a transfer are different accounts, at most one a wallet. *)
LEMMA Sides ==
  ASSUME NEW code \in Code, NEW wallet \in Wallet
  PROVE  /\ DebitAccount(code, wallet) \in Account
         /\ CreditAccount(code, wallet) \in Account
         /\ DebitAccount(code, wallet) # CreditAccount(code, wallet)
         /\ code \in Mints => /\ DebitAccount(code, wallet) \notin Wallet
                              /\ CreditAccount(code, wallet) = wallet
         /\ code \notin Mints => /\ DebitAccount(code, wallet) = wallet
                                 /\ CreditAccount(code, wallet) \notin Wallet
BY AccountAssumption DEF DebitAccount, CreditAccount, Account, Mints, Code, EarnCode, CreditCode

(* Recording a transfer keeps the others and the type of the table. *)
LEMMA CreateFacts ==
  ASSUME LedgerTypeOK,
         NEW id \in FreshId, NEW code \in Code, NEW wallet \in Wallet, NEW amount \in Amount,
         NEW state \in {"pending", "single"},
         Create(id, code, wallet, amount, state)
  PROVE  /\ id \in TransferId \ DOMAIN transfer
         /\ DOMAIN transfer' = DOMAIN transfer \cup {id}
         /\ transfer'[id] = [code |-> code, wallet |-> wallet, amount |-> amount, state |-> state]
         /\ \A t \in DOMAIN transfer : transfer'[t] = transfer[t]
         /\ DOMAIN transfer' \subseteq TransferId
         /\ \A t \in DOMAIN transfer' : transfer'[t] \in Transfer
BY DEF LedgerTypeOK, FreshId, Create, Transfer

(* A new hold is well typed and leaves every wallet solvent. *)
LEMMA HoldPreserves ==
  ASSUME LedgerTypeOK, Solvent,
         NEW id, NEW code \in Code, NEW wallet \in Wallet, NEW amount \in Amount,
         Hold(id, code, wallet, amount)
  PROVE  LedgerTypeOK' /\ Solvent'
<1> DEFINE debit == DebitAccount(code, wallet)
           credit == CreditAccount(code, wallet)
<1>1. /\ id \in FreshId
      /\ Create(id, code, wallet, amount, "pending")
      /\ Funded(debit, amount)
      /\ account' = [account EXCEPT ![debit].debits_pending = @ + amount,
                                    ![credit].credits_pending = @ + amount]
  BY DEF Hold
<1>2. debit \in Account /\ credit \in Account /\ debit # credit
  BY Sides
<1>3. amount \in Int /\ amount > 0
  BY AmountAssumption
<1>4. /\ DOMAIN transfer' \subseteq TransferId
      /\ \A t \in DOMAIN transfer' : transfer'[t] \in Transfer
  BY <1>1, CreateFacts
<1>5. account' \in [Account -> Counters]
  BY <1>1, <1>2, <1>3 DEF LedgerTypeOK, Counters
<1>6. LedgerTypeOK'
  BY <1>4, <1>5 DEF LedgerTypeOK
<1>7. Solvent'
  <2> SUFFICES ASSUME NEW w \in Wallet
               PROVE  account'[w].debits_pending + account'[w].debits_posted
                        <= account'[w].credits_posted
    BY DEF Solvent
  <2>1. w \in Account /\ account[w] \in Counters
    BY DEF LedgerTypeOK, Account
  <2>2. account[w].debits_pending + account[w].debits_posted <= account[w].credits_posted
    BY DEF Solvent
  <2>3. CASE w = debit
    <3>1. /\ account'[w].debits_pending = account[w].debits_pending + amount
          /\ account'[w].debits_posted = account[w].debits_posted
          /\ account'[w].credits_posted = account[w].credits_posted
      BY <1>1, <1>2, <2>1, <2>3 DEF LedgerTypeOK, Counters
    <3>2. Available(w) >= amount
      BY <1>1, <2>3 DEF Funded
    <3> QED
      BY <1>3, <2>1, <3>1, <3>2 DEF Available, Counters
  <2>4. CASE w # debit
    <3>1. /\ account'[w].debits_pending = account[w].debits_pending
          /\ account'[w].debits_posted = account[w].debits_posted
          /\ account'[w].credits_posted = account[w].credits_posted
      BY <1>1, <1>2, <2>1, <2>4 DEF LedgerTypeOK, Counters
    <3> QED
      BY <2>2, <3>1
  <2> QED
    BY <2>3, <2>4
<1> QED
  BY <1>6, <1>7

(* A posting is well typed and leaves every wallet solvent. *)
LEMMA PostPreserves ==
  ASSUME LedgerTypeOK, Solvent,
         NEW id, NEW code \in Code, NEW wallet \in Wallet, NEW amount \in Amount,
         Post(id, code, wallet, amount)
  PROVE  LedgerTypeOK' /\ Solvent'
<1> DEFINE debit == DebitAccount(code, wallet)
           credit == CreditAccount(code, wallet)
<1>1. /\ id \in FreshId
      /\ Create(id, code, wallet, amount, "single")
      /\ Funded(debit, amount)
      /\ account' = [account EXCEPT ![debit].debits_posted = @ + amount,
                                    ![credit].credits_posted = @ + amount]
  BY DEF Post
<1>2. debit \in Account /\ credit \in Account /\ debit # credit
  BY Sides
<1>3. amount \in Int /\ amount > 0
  BY AmountAssumption
<1>4. /\ DOMAIN transfer' \subseteq TransferId
      /\ \A t \in DOMAIN transfer' : transfer'[t] \in Transfer
  BY <1>1, CreateFacts
<1>5. account' \in [Account -> Counters]
  BY <1>1, <1>2, <1>3 DEF LedgerTypeOK, Counters
<1>6. LedgerTypeOK'
  BY <1>4, <1>5 DEF LedgerTypeOK
<1>7. Solvent'
  <2> SUFFICES ASSUME NEW w \in Wallet
               PROVE  account'[w].debits_pending + account'[w].debits_posted
                        <= account'[w].credits_posted
    BY DEF Solvent
  <2>1. w \in Account /\ account[w] \in Counters
    BY DEF LedgerTypeOK, Account
  <2>2. account[w].debits_pending + account[w].debits_posted <= account[w].credits_posted
    BY DEF Solvent
  <2>3. CASE w = debit
    <3>1. /\ account'[w].debits_pending = account[w].debits_pending
          /\ account'[w].debits_posted = account[w].debits_posted + amount
          /\ account'[w].credits_posted = account[w].credits_posted
      BY <1>1, <1>2, <2>1, <2>3 DEF LedgerTypeOK, Counters
    <3>2. Available(w) >= amount
      BY <1>1, <2>3 DEF Funded
    <3> QED
      BY <1>3, <2>1, <3>1, <3>2 DEF Available, Counters
  <2>4. CASE w # debit
    <3>1. /\ account'[w].debits_pending = account[w].debits_pending
          /\ account'[w].debits_posted = account[w].debits_posted
          /\ account'[w].credits_posted >= account[w].credits_posted
      BY <1>1, <1>2, <1>3, <2>1, <2>4 DEF LedgerTypeOK, Counters
    <3> QED
      BY <1>5, <2>1, <2>2, <3>1 DEF Counters
  <2> QED
    BY <2>3, <2>4
<1> QED
  BY <1>6, <1>7

(* The hold a resolution names, and the accounts it moves. *)
LEMMA ResolvableFacts ==
  ASSUME LedgerTypeOK, NEW id, NEW code, Resolvable(id, code)
  PROVE  /\ id \in DOMAIN transfer
         /\ transfer[id] \in Transfer
         /\ code \in Code
         /\ transfer[id].wallet \in Wallet
         /\ transfer[id].amount \in Int
         /\ transfer[id].amount > 0
<1>1. id \in DOMAIN transfer /\ transfer[id] \in Transfer /\ transfer[id].code = code
  BY DEF LedgerTypeOK, Resolvable
<1>2. transfer[id].amount \in Amount
  BY <1>1 DEF Transfer
<1>3. transfer[id].amount \in Int /\ transfer[id].amount > 0
  BY <1>2, Amounts
<1> QED
  BY <1>1, <1>3 DEF Transfer

(* Changing the state of a transfer changes nothing else in the table. *)
LEMMA ResolveFacts ==
  ASSUME LedgerTypeOK, NEW id \in DOMAIN transfer, NEW state \in {"posted", "voided"},
         transfer' = [transfer EXCEPT ![id].state = state]
  PROVE  /\ DOMAIN transfer' = DOMAIN transfer
         /\ \A t \in DOMAIN transfer \ {id} : transfer'[t] = transfer[t]
         /\ transfer'[id] = [transfer[id] EXCEPT !.state = state]
         /\ \A t \in DOMAIN transfer' : transfer'[t] \in Transfer
BY DEF LedgerTypeOK, Transfer

(* Settling a hold turns what it reserved into what was spent. *)
LEMMA SettlePreserves ==
  ASSUME LedgerTypeOK, Solvent, NEW id, NEW code, SettleHold(id, code)
  PROVE  LedgerTypeOK' /\ Solvent'
<1> DEFINE amount == transfer[id].amount
           debit == DebitAccount(code, transfer[id].wallet)
           credit == CreditAccount(code, transfer[id].wallet)
<1>1. /\ Resolvable(id, code)
      /\ transfer' = [transfer EXCEPT ![id].state = "posted"]
      /\ account' = [account EXCEPT ![debit].debits_pending = @ - amount,
                                    ![debit].debits_posted = @ + amount,
                                    ![credit].credits_pending = @ - amount,
                                    ![credit].credits_posted = @ + amount]
  BY DEF SettleHold
<1>2. /\ id \in DOMAIN transfer /\ code \in Code /\ transfer[id].wallet \in Wallet
      /\ amount \in Int /\ amount > 0
  BY <1>1, ResolvableFacts
<1>3. debit \in Account /\ credit \in Account /\ debit # credit
  BY <1>2, Sides
<1>4. /\ DOMAIN transfer' \subseteq TransferId
      /\ \A t \in DOMAIN transfer' : transfer'[t] \in Transfer
  BY <1>1, <1>2, ResolveFacts DEF LedgerTypeOK
<1>5. account' \in [Account -> Counters]
  BY <1>1, <1>2, <1>3 DEF LedgerTypeOK, Counters
<1>6. LedgerTypeOK'
  BY <1>4, <1>5 DEF LedgerTypeOK
<1>7. Solvent'
  <2> SUFFICES ASSUME NEW w \in Wallet
               PROVE  account'[w].debits_pending + account'[w].debits_posted
                        <= account'[w].credits_posted
    BY DEF Solvent
  <2>1. w \in Account /\ account[w] \in Counters
    BY DEF LedgerTypeOK, Account
  <2>2. account[w].debits_pending + account[w].debits_posted <= account[w].credits_posted
    BY DEF Solvent
  <2>3. CASE w = debit
    <3>1. /\ account'[w].debits_pending = account[w].debits_pending - amount
          /\ account'[w].debits_posted = account[w].debits_posted + amount
          /\ account'[w].credits_posted = account[w].credits_posted
      BY <1>1, <1>3, <2>1, <2>3 DEF LedgerTypeOK, Counters
    <3> QED
      BY <1>2, <2>1, <2>2, <3>1 DEF Counters
  <2>4. CASE w # debit
    <3>1. /\ account'[w].debits_pending = account[w].debits_pending
          /\ account'[w].debits_posted = account[w].debits_posted
          /\ account'[w].credits_posted >= account[w].credits_posted
      BY <1>1, <1>2, <1>3, <2>1, <2>4 DEF LedgerTypeOK, Counters
    <3> QED
      BY <1>5, <2>1, <2>2, <3>1 DEF Counters
  <2> QED
    BY <2>3, <2>4
<1> QED
  BY <1>6, <1>7

(* Voiding a hold gives back what it reserved. *)
LEMMA VoidPreserves ==
  ASSUME LedgerTypeOK, Solvent, NEW id, NEW code, VoidHold(id, code)
  PROVE  LedgerTypeOK' /\ Solvent'
<1> DEFINE amount == transfer[id].amount
           debit == DebitAccount(code, transfer[id].wallet)
           credit == CreditAccount(code, transfer[id].wallet)
<1>1. /\ Resolvable(id, code)
      /\ transfer' = [transfer EXCEPT ![id].state = "voided"]
      /\ account' = [account EXCEPT ![debit].debits_pending = @ - amount,
                                    ![credit].credits_pending = @ - amount]
  BY DEF VoidHold
<1>2. /\ id \in DOMAIN transfer /\ code \in Code /\ transfer[id].wallet \in Wallet
      /\ amount \in Int /\ amount > 0
  BY <1>1, ResolvableFacts
<1>3. debit \in Account /\ credit \in Account /\ debit # credit
  BY <1>2, Sides
<1>4. /\ DOMAIN transfer' \subseteq TransferId
      /\ \A t \in DOMAIN transfer' : transfer'[t] \in Transfer
  BY <1>1, <1>2, ResolveFacts DEF LedgerTypeOK
<1>5. account' \in [Account -> Counters]
  BY <1>1, <1>2, <1>3 DEF LedgerTypeOK, Counters
<1>6. LedgerTypeOK'
  BY <1>4, <1>5 DEF LedgerTypeOK
<1>7. Solvent'
  <2> SUFFICES ASSUME NEW w \in Wallet
               PROVE  account'[w].debits_pending + account'[w].debits_posted
                        <= account'[w].credits_posted
    BY DEF Solvent
  <2>1. w \in Account /\ account[w] \in Counters
    BY DEF LedgerTypeOK, Account
  <2>2. account[w].debits_pending + account[w].debits_posted <= account[w].credits_posted
    BY DEF Solvent
  <2>3. /\ account'[w].debits_pending <= account[w].debits_pending
        /\ account'[w].debits_posted = account[w].debits_posted
        /\ account'[w].credits_posted = account[w].credits_posted
    BY <1>1, <1>2, <1>3, <2>1 DEF LedgerTypeOK, Counters
  <2> QED
    BY <1>5, <2>1, <2>2, <2>3 DEF Counters
<1> QED
  BY <1>6, <1>7

(***************************************************************************)
(* 2. The handlers                                                           *)
(***************************************************************************)

(* How the table of running handlers changes. *)

LEMMA StartFacts ==
  ASSUME NEW r, NEW h, Start(r, h)
  PROVE  /\ r \in Request
         /\ r \notin DOMAIN handler
         /\ DOMAIN handler' = DOMAIN handler \cup {r}
         /\ handler'[r] = h
         /\ \A q \in DOMAIN handler : handler'[q] = handler[q]
BY DEF Start, Idle

LEMMA EndingFacts ==
  ASSUME NEW S, Ending(S)
  PROVE  /\ DOMAIN handler' = DOMAIN handler \ S
         /\ \A q \in DOMAIN handler' : handler'[q] = handler[q]
BY DEF Ending

(* A handler that ends, or is cut off, takes nothing the others rely on. *)
LEMMA HandlersOnlyEnd ==
  ASSUME Inv, NEW S, Ending(S), UNCHANGED <<account, transfer, row, task>>,
         faults' \in 0..MaxFaults
  PROVE  Inv'
<1>1. /\ DOMAIN handler' \subseteq DOMAIN handler
      /\ \A q \in DOMAIN handler' : handler'[q] = handler[q]
  BY EndingFacts
<1>2. TypeOK'
  BY <1>1 DEF Inv, TypeOK, LedgerTypeOK
<1>3. Solvent' /\ RowsOwnTheirHolds' /\ DecisionsMatchLedger' /\ RowKinds'
  BY DEF Inv, Solvent, RowsOwnTheirHolds, DecisionsMatchLedger, RowKinds
<1>4. HandlersInv'
  <2> SUFFICES ASSUME NEW q \in DOMAIN handler'
               PROVE  (Submitting(handler[q]) /\ Resolving(handler[q])
                        /\ Recording(handler[q]) /\ Releasing(handler[q]))'
    BY DEF HandlersInv
  <2>1. Submitting(handler[q]) /\ Resolving(handler[q])
          /\ Recording(handler[q]) /\ Releasing(handler[q])
    BY <1>1 DEF Inv, HandlersInv
  <2> QED
    BY <1>1, <2>1 DEF Submitting, Resolving, Recording, Releasing, Reviews, OwnsRow, Backs, Unnamed
<1>5. Exclusive'
  BY <1>1 DEF Inv, Exclusive, OwnsRow, NewHold
<1>6. ClaimsInv'
  BY <1>1 DEF Inv, ClaimsInv, ClaimInv, Claimants, HasClaim, LiveSubmissions
<1> QED
  BY <1>2, <1>3, <1>4, <1>5, <1>6 DEF Inv

----------------------------------------------------------------------------
(* Requests that start: the new handler owns nothing yet. *)

LEMMA HandlerStarts ==
  ASSUME Inv, NEW r, NEW h \in Handler, Start(r, h),
         UNCHANGED <<account, transfer, row, task, faults>>,
         h.step \in {"claim", "hold", "post", "resolve", "void"},
         Submitting(h), Resolving(h),
         \A b \in Bounty : ~HasClaim(h, b)
  PROVE  Inv'
<1>1. /\ r \in Request
      /\ r \notin DOMAIN handler
      /\ DOMAIN handler' = DOMAIN handler \cup {r}
      /\ handler'[r] = h
      /\ \A q \in DOMAIN handler : handler'[q] = handler[q]
  BY StartFacts
<1>2. TypeOK'
  BY <1>1 DEF Inv, TypeOK, LedgerTypeOK
<1>3. Solvent' /\ RowsOwnTheirHolds' /\ DecisionsMatchLedger' /\ RowKinds'
  BY DEF Inv, Solvent, RowsOwnTheirHolds, DecisionsMatchLedger, RowKinds
<1>4. HandlersInv'
  <2> SUFFICES ASSUME NEW q \in DOMAIN handler'
               PROVE  (Submitting(handler[q]) /\ Resolving(handler[q])
                        /\ Recording(handler[q]) /\ Releasing(handler[q]))'
    BY DEF HandlersInv
  <2>1. Submitting(handler'[q]) /\ Resolving(handler'[q])
          /\ Recording(handler'[q]) /\ Releasing(handler'[q])
    <3>1. CASE q = r
      BY <1>1, <3>1 DEF Recording, Releasing, OwnsRow
    <3>2. CASE q # r
      BY <1>1, <3>2 DEF Inv, HandlersInv
    <3> QED
      BY <3>1, <3>2
  <2> QED
    BY <2>1 DEF Submitting, Resolving, Recording, Releasing, Reviews, OwnsRow, Backs, Unnamed
<1>5. Exclusive'
  BY <1>1 DEF Inv, Exclusive, OwnsRow, NewHold
<1>6. ClaimsInv'
  BY <1>1 DEF Inv, ClaimsInv, ClaimInv, Claimants, HasClaim, LiveSubmissions
<1> QED
  BY <1>2, <1>3, <1>4, <1>5, <1>6 DEF Inv

(* What a submission starts with. *)
LEMMA SubmissionFacts ==
  ASSUME NEW step \in {"claim", "hold", "post"}, NEW type \in Code, NEW w \in Wallet,
         NEW amount \in Amount, NEW t \in Task \cup {NoTask},
         step = "claim" => t \in Bounty,
         step = "hold" => t \notin Bounty,
         step = "post" => t = NoTask,
         step = "post" <=> type \in {CreditCode, DebitCode}
  PROVE  /\ Submission(step, type, w, amount, t) \in Handler
         /\ Submission(step, type, w, amount, t).step = step
         /\ Submitting(Submission(step, type, w, amount, t))
         /\ Resolving(Submission(step, type, w, amount, t))
         /\ \A b \in Bounty : ~HasClaim(Submission(step, type, w, amount, t), b)
<1> DEFINE h == Submission(step, type, w, amount, t)
<1>1. /\ h.step = step /\ h.tx.type = type /\ h.tx.status = "pending"
      /\ h.tx.task = t
  BY DEF Submission
<1>2. h \in Handler
  BY DEF Submission, Handler, Transaction, Step
<1>3. Submitting(h)
  BY <1>1 DEF Submitting, Code
<1>4. Resolving(h)
  BY <1>1 DEF Resolving
<1>5. \A b \in Bounty : ~HasClaim(h, b)
  BY <1>1 DEF HasClaim
<1> QED
  BY <1>1, <1>2, <1>3, <1>4, <1>5

(* What a review of a pending row starts with. *)
LEMMA ReadingFacts ==
  ASSUME Inv, NEW x \in DOMAIN row, row[x].status = "pending",
         NEW step \in {"resolve", "void"}, NEW outcome \in {"settled", "voided"},
         NEW amount \in Amount,
         step = "void" => row[x].type = EarnCode
  PROVE  /\ Reading(step, x, outcome, amount) \in Handler
         /\ Reading(step, x, outcome, amount).step = step
         /\ Submitting(Reading(step, x, outcome, amount))
         /\ Resolving(Reading(step, x, outcome, amount))
         /\ \A b \in Bounty : ~HasClaim(Reading(step, x, outcome, amount), b)
<1> DEFINE h == Reading(step, x, outcome, amount)
<1>1. h.step = step /\ h.id = x /\ h.tx = row[x]
  BY DEF Reading
<1>2. h \in Handler
  BY DEF Reading, Handler, Step, Inv, TypeOK
<1>3. Submitting(h)
  BY <1>1 DEF Submitting
<1>4. Resolving(h)
  BY <1>1 DEF Resolving, Reviews, Inv, RowsOwnTheirHolds
<1>5. \A b \in Bounty : ~HasClaim(h, b)
  BY <1>1 DEF HasClaim
<1> QED
  BY <1>1, <1>2, <1>3, <1>4, <1>5

LEMMA SubmitPreserves ==
  ASSUME Inv, NEW r \in Request, NEW w \in Wallet, Submit(r, w)
  PROVE  Inv'
<1> USE DEF Code, EarnCode, RedeemCode, CreditCode, DebitCode
<1>1. ASSUME NEW t \in Task, NEW value \in Amount, CreateEarning(r, w, t, value)
      PROVE  Inv'
  <2> DEFINE step == IF t \in Bounty THEN "claim" ELSE "hold"
  <2>1. step \in {"claim", "hold"} /\ (step = "claim" <=> t \in Bounty)
    OBVIOUS
  <2>2. /\ Start(r, Submission(step, EarnCode, w, value, t))
        /\ UNCHANGED <<account, transfer, row, task, faults>>
    BY <1>1 DEF CreateEarning
  <2> HIDE DEF step
  <2> QED
    BY <2>1, <2>2, SubmissionFacts, HandlerStarts
<1>2. ASSUME NEW value \in Amount, ProposeChore(r, w, value)
      PROVE  Inv'
  BY <1>2, HoldsAssumption, SubmissionFacts, HandlerStarts DEF ProposeChore
<1>3. ASSUME CreateRedemption(r, w)
      PROVE  Inv'
  BY <1>3, HoldsAssumption, SubmissionFacts, HandlerStarts DEF CreateRedemption
<1>4. ASSUME NEW code \in {CreditCode, DebitCode}, NEW value \in Amount,
             CreateAdjustment(r, w, code, value)
      PROVE  Inv'
  BY <1>4, HoldsAssumption, SubmissionFacts, HandlerStarts DEF CreateAdjustment
<1> QED
  BY <1>1, <1>2, <1>3, <1>4 DEF Submit

LEMMA ReviewPreserves ==
  ASSUME Inv, NEW r \in Request, NEW x \in DOMAIN row, Review(r, x)
  PROVE  Inv'
<1>1. ASSUME NEW outcome \in {"settled", "voided"}, Decide(r, x, outcome)
      PROVE  Inv'
  <2>1. row[x].amount \in Amount
    BY DEF Inv, TypeOK, Transaction
  <2> QED
    BY <1>1, <2>1, ReadingFacts, HandlerStarts DEF Decide
<1>2. ASSUME NEW value \in Amount, AdjustTransaction(r, x, value)
      PROVE  Inv'
  BY <1>2, ReadingFacts, HandlerStarts DEF AdjustTransaction
<1> QED
  BY <1>1, <1>2 DEF Review

----------------------------------------------------------------------------
(* The steps of a submission *)

LEMMA GotoFacts ==
  ASSUME TypeOK, NEW r \in DOMAIN handler, NEW step \in Step, Goto(r, step)
  PROVE  /\ DOMAIN handler' = DOMAIN handler
         /\ handler'[r] \in Handler
         /\ handler'[r].step = step
         /\ handler'[r].id = handler[r].id
         /\ handler'[r].tx = handler[r].tx
         /\ handler'[r].outcome = handler[r].outcome
         /\ handler'[r].amount = handler[r].amount
         /\ handler'[r].hold = handler[r].hold
         /\ \A q \in DOMAIN handler \ {r} : handler'[q] = handler[q]
<1>1. handler[r] \in Handler
  BY DEF TypeOK
<1>2. /\ DOMAIN handler' = DOMAIN handler
      /\ handler'[r] = [handler[r] EXCEPT !.step = step]
      /\ \A q \in DOMAIN handler \ {r} : handler'[q] = handler[q]
  BY DEF Goto
<1>3. handler'[r] \in Handler
  BY <1>1, <1>2 DEF Handler
<1> QED
  BY <1>1, <1>2, <1>3 DEF Handler

(* A handler that owns no row and carries no new hold excludes nobody. *)
LEMMA ExclusiveKept ==
  ASSUME Exclusive, NEW r, DOMAIN handler' = DOMAIN handler,
         handler'[r].step \notin {"record", "rehold", "update", "insert"},
         \A q \in DOMAIN handler \ {r} : handler'[q] = handler[q]
  PROVE  Exclusive'
BY DEF Exclusive, OwnsRow, NewHold

LEMMA ClaimBountyPreserves ==
  ASSUME Inv, NEW r \in Request, ClaimBounty(r)
  PROVE  Inv'
<1> DEFINE tx == handler[r].tx
           b == tx.task
<1>1. r \in DOMAIN handler /\ handler[r].step = "claim" /\ handler[r] \in Handler
  BY DEF ClaimBounty, At, Inv, TypeOK
<1>2. tx \in Transaction /\ b \in Bounty /\ tx.type \in {EarnCode, RedeemCode}
        /\ tx.status = "pending"
  BY <1>1 DEF Inv, HandlersInv, Submitting, Handler
<1>3. CASE Finish(r) /\ UNCHANGED task
  BY <1>3, HandlersOnlyEnd DEF ClaimBounty, Finish, Inv, TypeOK
<1>4. CASE /\ Claimable(b)
           /\ task' = [task EXCEPT ![b].claimed_by = tx.account]
           /\ Goto(r, "hold")
  <2>1. UNCHANGED <<account, transfer, row, faults>>
    BY DEF ClaimBounty
  <2>2. /\ DOMAIN handler' = DOMAIN handler
        /\ handler'[r] \in Handler
        /\ handler'[r].step = "hold" /\ handler'[r].tx = tx
        /\ \A q \in DOMAIN handler \ {r} : handler'[q] = handler[q]
    BY <1>1, <1>4, GotoFacts DEF Inv, Step
  <2>3. TypeOK'
    <3>1. task' \in [Task -> TaskRow]
      BY <1>2, <1>4, HoldsAssumption DEF Inv, TypeOK, TaskRow, Transaction
    <3> QED
      BY <2>1, <2>2, <3>1 DEF Inv, TypeOK, LedgerTypeOK
  <2>4. Solvent' /\ RowsOwnTheirHolds' /\ DecisionsMatchLedger' /\ RowKinds'
    BY <2>1 DEF Inv, Solvent, RowsOwnTheirHolds, DecisionsMatchLedger, RowKinds
  <2>5. HandlersInv'
    <3> SUFFICES ASSUME NEW q \in DOMAIN handler'
                 PROVE  (Submitting(handler[q]) /\ Resolving(handler[q])
                          /\ Recording(handler[q]) /\ Releasing(handler[q]))'
      BY DEF HandlersInv
    <3>1. Submitting(handler'[q]) /\ Resolving(handler'[q])
            /\ Recording(handler'[q]) /\ Releasing(handler'[q])
      <4>1. CASE q = r
        BY <1>2, <2>2, <4>1 DEF Submitting, Resolving, Recording, Releasing, OwnsRow
      <4>2. CASE q # r
        BY <2>2, <4>2 DEF Inv, HandlersInv
      <4> QED
        BY <4>1, <4>2
    <3> QED
      BY <2>1, <3>1 DEF Submitting, Resolving, Recording, Releasing, Reviews, OwnsRow, Backs, Unnamed
  <2>6. Exclusive'
    BY <2>2, ExclusiveKept DEF Inv
  <2>7. ClaimsInv'
    <3> SUFFICES ASSUME NEW c \in Bounty
                 PROVE  ClaimInv(c)'
      BY DEF ClaimsInv
    <3>1. ClaimInv(c)
      BY DEF Inv, ClaimsInv
    <3>2. LiveSubmissions(c)' = LiveSubmissions(c)
      BY <2>1 DEF LiveSubmissions
    <3>3. CASE c = b
      <4>1. task[b].claimed_by = Nobody /\ task'[b].claimed_by # Nobody
        BY <1>2, <1>4, HoldsAssumption DEF Claimable, Inv, TypeOK, TaskRow, Transaction
      <4>2. LiveSubmissions(c) = {} /\ Claimants(c) = {}
        BY <3>1, <3>3, <4>1 DEF ClaimInv
      <4>3. Claimants(c)' = {r}
        BY <1>1, <2>2, <3>3, <4>2 DEF Claimants, HasClaim
      <4> QED
        BY <3>2, <3>3, <4>1, <4>2, <4>3 DEF ClaimInv
    <3>4. CASE c # b
      <4>1. task'[c] = task[c]
        BY <1>4, <3>4, HoldsAssumption DEF Inv, TypeOK
      <4>2. Claimants(c)' = Claimants(c)
        BY <1>1, <2>2, <3>4 DEF Claimants, HasClaim
      <4> QED
        BY <3>1, <3>2, <4>1, <4>2 DEF ClaimInv
    <3> QED
      BY <3>3, <3>4
  <2> QED
    BY <2>3, <2>4, <2>5, <2>6, <2>7 DEF Inv
<1> QED
  BY <1>3, <1>4 DEF ClaimBounty

(* A handler that obtained a transfer of its own, for the row it will insert.  *)
LEMMA TransferObtained ==
  ASSUME Inv, NEW r \in DOMAIN handler, NEW id \in TransferId \ DOMAIN transfer,
         handler[r].step \in {"hold", "post"},
         LedgerTypeOK', Solvent', UNCHANGED <<row, task, faults>>,
         DOMAIN transfer' = DOMAIN transfer \cup {id},
         \A t \in DOMAIN transfer : transfer'[t] = transfer[t],
         DOMAIN handler' = DOMAIN handler,
         \A q \in DOMAIN handler \ {r} : handler'[q] = handler[q],
         handler'[r] \in Handler,
         handler'[r].step = "insert",
         handler'[r].tx.hold = id,
         handler'[r].tx.task = handler[r].tx.task,
         Submitting(handler[r])',
         handler[r].step = "post" => handler[r].tx.task = NoTask
  PROVE  Inv'
<1>1. TypeOK'
  BY DEF Inv, TypeOK
<1>2. RowsOwnTheirHolds' /\ DecisionsMatchLedger' /\ RowKinds'
  BY DEF Inv, RowsOwnTheirHolds, DecisionsMatchLedger, RowKinds
<1>3. HandlersInv'
  <2> SUFFICES ASSUME NEW q \in DOMAIN handler'
               PROVE  (Submitting(handler[q]) /\ Resolving(handler[q])
                        /\ Recording(handler[q]) /\ Releasing(handler[q]))'
    BY DEF HandlersInv
  <2>1. CASE q = r
    BY <2>1 DEF Resolving, Recording, Releasing, OwnsRow
  <2>2. CASE q # r
    <3>1. Submitting(handler[q]) /\ Resolving(handler[q])
            /\ Recording(handler[q]) /\ Releasing(handler[q])
      BY <2>2 DEF Inv, HandlersInv
    <3>2. handler'[q] = handler[q]
      BY <2>2
    <3> QED
      BY <3>1, <3>2
      DEF Submitting, Resolving, Recording, Releasing, Reviews, OwnsRow, Backs, Unnamed,
          Inv, RowsOwnTheirHolds
  <2> QED
    BY <2>1, <2>2
<1>4. Exclusive'
  <2>1. \A q \in DOMAIN handler \ {r} :
          handler[q].step \in {"insert", "update"} => NewHold(handler[q]) \in DOMAIN transfer
    BY DEF Inv, HandlersInv, Submitting, Recording, OwnsRow, Backs, NewHold
  <2>2. NewHold(handler'[r]) = id
    BY DEF NewHold
  <2> SUFFICES ASSUME NEW p \in DOMAIN handler', NEW q \in DOMAIN handler', p # q
               PROVE  (/\ OwnsRow(handler[p]) /\ OwnsRow(handler[q]) => handler[p].id # handler[q].id
                       /\ handler[p].step \in {"insert", "update"}
                            /\ handler[q].step \in {"insert", "update"}
                            => NewHold(handler[p]) # NewHold(handler[q]))'
    BY DEF Exclusive
  <2>3. CASE p = r
    BY <2>1, <2>2, <2>3 DEF OwnsRow, NewHold
  <2>4. CASE q = r
    BY <2>1, <2>2, <2>4 DEF OwnsRow, NewHold
  <2>5. CASE p # r /\ q # r
    BY <2>5 DEF Inv, Exclusive, OwnsRow, NewHold
  <2> QED
    BY <2>3, <2>4, <2>5
<1>5. ClaimsInv'
  <2> SUFFICES ASSUME NEW c \in Bounty
               PROVE  ClaimInv(c)'
    BY DEF ClaimsInv
  <2>1. ClaimInv(c)
    BY DEF Inv, ClaimsInv
  <2>2. LiveSubmissions(c)' = LiveSubmissions(c)
    BY DEF LiveSubmissions
  <2>3. c # NoTask
    BY HoldsAssumption
  <2>4. Claimants(c)' = Claimants(c)
    BY <2>3 DEF Claimants, HasClaim
  <2> QED
    BY <2>1, <2>2, <2>4 DEF ClaimInv
<1> QED
  BY <1>1, <1>2, <1>3, <1>4, <1>5 DEF Inv

LEMMA PlaceHoldPreserves ==
  ASSUME Inv, NEW r \in Request, PlaceHold(r)
  PROVE  Inv'
<1> DEFINE tx == handler[r].tx
<1>1. r \in DOMAIN handler /\ handler[r].step = "hold" /\ handler[r] \in Handler
  BY DEF PlaceHold, At, Inv, TypeOK
<1>2. tx \in Transaction /\ tx.type \in {EarnCode, RedeemCode} /\ tx.status = "pending"
  BY <1>1 DEF Inv, HandlersInv, Submitting, Handler
<1>3. tx.type \in Code /\ tx.account \in Wallet /\ tx.amount \in Amount
  BY <1>2 DEF Transaction
<1>4. CASE Finish(r) /\ UNCHANGED ledgerVars
  BY <1>4, HandlersOnlyEnd DEF PlaceHold, Finish, Inv, TypeOK, ledgerVars
<1>5. ASSUME NEW id \in FreshId, Hold(id, tx.type, tx.account, tx.amount),
             handler' = [handler EXCEPT ![r].step = "insert", ![r].tx.hold = id]
      PROVE  Inv'
  <2>1. LedgerTypeOK' /\ Solvent'
    BY <1>3, <1>5, HoldPreserves DEF Inv, TypeOK
  <2>2. /\ id \in TransferId \ DOMAIN transfer
        /\ DOMAIN transfer' = DOMAIN transfer \cup {id}
        /\ transfer'[id] = [code |-> tx.type, wallet |-> tx.account,
                            amount |-> tx.amount, state |-> "pending"]
        /\ \A t \in DOMAIN transfer : transfer'[t] = transfer[t]
    BY <1>3, <1>5, CreateFacts DEF Hold, Inv, TypeOK
  <2>3. UNCHANGED <<row, task, faults>>
    BY DEF PlaceHold
  <2>4. /\ DOMAIN handler' = DOMAIN handler
        /\ \A q \in DOMAIN handler \ {r} : handler'[q] = handler[q]
        /\ handler'[r] = [handler[r] EXCEPT !.step = "insert", !.tx = [tx EXCEPT !.hold = id]]
    BY <1>1, <1>5
  <2>5. /\ handler'[r] \in Handler
        /\ handler'[r].step = "insert"
        /\ handler'[r].tx = [tx EXCEPT !.hold = id]
    <3> DEFINE obtained == [tx EXCEPT !.hold = id]
    <3>1. obtained \in Transaction
      BY <1>2, <2>2 DEF Transaction
    <3>2. handler'[r] = [handler[r] EXCEPT !.step = "insert", !.tx = obtained]
      BY <2>4
    <3>3. SUFFICES handler'[r] \in Handler /\ handler'[r].step = "insert"
                     /\ handler'[r].tx = obtained
      OBVIOUS
    <3> HIDE DEF tx, obtained
    <3> QED
      BY <1>1, <3>1, <3>2 DEF Handler, Step
  <2>6. /\ handler'[r].tx.hold = id /\ handler'[r].tx.task = tx.task
        /\ handler'[r].tx.type = tx.type /\ handler'[r].tx.account = tx.account
        /\ handler'[r].tx.amount = tx.amount /\ handler'[r].tx.status = "pending"
    BY <1>2, <2>5 DEF Transaction
  <2>7. \A x \in DOMAIN row : row[x].hold # id
    BY <2>2 DEF Inv, RowsOwnTheirHolds
  <2>8. Submitting(handler[r])'
    BY <1>2, <2>2, <2>3, <2>5, <2>6, <2>7 DEF Submitting, Backs, Unnamed
  <2> QED
    BY <1>1, <2>1, <2>2, <2>3, <2>4, <2>5, <2>6, <2>8, TransferObtained
<1> QED
  BY <1>4, <1>5 DEF PlaceHold

LEMMA PostAdjustmentPreserves ==
  ASSUME Inv, NEW r \in Request, PostAdjustment(r)
  PROVE  Inv'
<1> DEFINE tx == handler[r].tx
<1>1. r \in DOMAIN handler /\ handler[r].step = "post" /\ handler[r] \in Handler
  BY DEF PostAdjustment, At, Inv, TypeOK
<1>2. tx \in Transaction /\ tx.type \in {CreditCode, DebitCode} /\ tx.task = NoTask
  BY <1>1 DEF Inv, HandlersInv, Submitting, Handler
<1>3. tx.type \in Code /\ tx.account \in Wallet /\ tx.amount \in Amount
  BY <1>2 DEF Transaction
<1>4. CASE Finish(r) /\ UNCHANGED ledgerVars
  BY <1>4, HandlersOnlyEnd DEF PostAdjustment, Finish, Inv, TypeOK, ledgerVars
<1>5. ASSUME NEW id \in FreshId, Post(id, tx.type, tx.account, tx.amount),
             handler' = [handler EXCEPT ![r].step = "insert", ![r].tx.hold = id,
                                        ![r].tx.status = "settled"]
      PROVE  Inv'
  <2>1. LedgerTypeOK' /\ Solvent'
    BY <1>3, <1>5, PostPreserves DEF Inv, TypeOK
  <2>2. /\ id \in TransferId \ DOMAIN transfer
        /\ DOMAIN transfer' = DOMAIN transfer \cup {id}
        /\ transfer'[id] = [code |-> tx.type, wallet |-> tx.account,
                            amount |-> tx.amount, state |-> "single"]
        /\ \A t \in DOMAIN transfer : transfer'[t] = transfer[t]
    BY <1>3, <1>5, CreateFacts DEF Post, Inv, TypeOK
  <2>3. UNCHANGED <<row, task, faults>>
    BY DEF PostAdjustment
  <2>4. /\ DOMAIN handler' = DOMAIN handler
        /\ \A q \in DOMAIN handler \ {r} : handler'[q] = handler[q]
        /\ handler'[r] = [handler[r] EXCEPT !.step = "insert",
                             !.tx = [tx EXCEPT !.hold = id, !.status = "settled"]]
    BY <1>1, <1>5
  <2>5. /\ handler'[r] \in Handler
        /\ handler'[r].step = "insert"
        /\ handler'[r].tx = [tx EXCEPT !.hold = id, !.status = "settled"]
    <3> DEFINE obtained == [tx EXCEPT !.hold = id, !.status = "settled"]
    <3>1. obtained \in Transaction
      BY <1>2, <2>2 DEF Transaction
    <3>2. handler'[r] = [handler[r] EXCEPT !.step = "insert", !.tx = obtained]
      BY <2>4
    <3>3. SUFFICES handler'[r] \in Handler /\ handler'[r].step = "insert"
                     /\ handler'[r].tx = obtained
      OBVIOUS
    <3> HIDE DEF tx, obtained
    <3> QED
      BY <1>1, <3>1, <3>2 DEF Handler, Step
  <2>6. /\ handler'[r].tx.hold = id /\ handler'[r].tx.task = NoTask
        /\ handler'[r].tx.type = tx.type /\ handler'[r].tx.account = tx.account
        /\ handler'[r].tx.amount = tx.amount /\ handler'[r].tx.status = "settled"
    BY <1>2, <2>5 DEF Transaction
  <2>7. \A x \in DOMAIN row : row[x].hold # id
    BY <2>2 DEF Inv, RowsOwnTheirHolds
  <2>8. Submitting(handler[r])'
    BY <1>2, <2>2, <2>3, <2>5, <2>6, <2>7 DEF Submitting, Backs, Unnamed
  <2> QED
    BY <1>1, <1>2, <2>1, <2>2, <2>3, <2>4, <2>5, <2>6, <2>8, TransferObtained
<1> QED
  BY <1>4, <1>5 DEF PostAdjustment

LEMMA CreateTransactionPreserves ==
  ASSUME Inv, NEW r \in Request, CreateTransaction(r)
  PROVE  Inv'
<1> DEFINE tx == handler[r].tx
<1>1. r \in DOMAIN handler /\ handler[r].step = "insert" /\ handler[r] \in Handler
  BY DEF CreateTransaction, At, Inv, TypeOK
<1>2. /\ tx \in Transaction
      /\ Backs(tx.hold, tx)
      /\ Unnamed(tx.hold)
      /\ \/ /\ tx.status = "pending" /\ transfer[tx.hold].state = "pending"
            /\ tx.type \in {EarnCode, RedeemCode}
         \/ /\ tx.status = "settled" /\ transfer[tx.hold].state = "single"
            /\ tx.task = NoTask
  BY <1>1 DEF Inv, HandlersInv, Submitting, Handler
<1>3. PICK x \in FreshRow :
        row' = [y \in DOMAIN row \cup {x} |-> IF y = x THEN tx ELSE row[y]]
  BY DEF CreateTransaction
<1>4. /\ x \in RowId \ DOMAIN row
      /\ DOMAIN row' = DOMAIN row \cup {x}
      /\ row'[x] = tx
      /\ \A y \in DOMAIN row : row'[y] = row[y]
  BY <1>3 DEF FreshRow
<1>5. /\ DOMAIN handler' = DOMAIN handler \ {r}
      /\ \A q \in DOMAIN handler' : handler'[q] = handler[q]
  BY EndingFacts DEF CreateTransaction, Finish
<1>6. UNCHANGED <<account, transfer, task, faults>>
  BY DEF CreateTransaction
<1>7. TypeOK'
  BY <1>2, <1>4, <1>5, <1>6 DEF Inv, TypeOK, LedgerTypeOK
<1>8. Solvent'
  BY <1>6 DEF Inv, Solvent
<1>9. RowsOwnTheirHolds' /\ DecisionsMatchLedger' /\ RowKinds'
  <2>1. RowsOwnTheirHolds'
    BY <1>2, <1>4, <1>6 DEF Inv, RowsOwnTheirHolds, Backs, Unnamed
  <2>2. DecisionsMatchLedger'
    BY <1>2, <1>4, <1>6 DEF Inv, DecisionsMatchLedger
  <2>3. RowKinds'
    BY <1>2, <1>4, <1>6 DEF Inv, RowKinds, EarnCode, RedeemCode, CreditCode, DebitCode
  <2> QED
    BY <2>1, <2>2, <2>3
<1>10. HandlersInv'
  <2> SUFFICES ASSUME NEW q \in DOMAIN handler'
               PROVE  (Submitting(handler[q]) /\ Resolving(handler[q])
                        /\ Recording(handler[q]) /\ Releasing(handler[q]))'
    BY DEF HandlersInv
  <2>1. q \in DOMAIN handler /\ q # r /\ handler'[q] = handler[q]
    BY <1>5
  <2>2. Submitting(handler[q]) /\ Resolving(handler[q])
          /\ Recording(handler[q]) /\ Releasing(handler[q])
    BY <2>1 DEF Inv, HandlersInv
  <2>3. handler[q].step \in {"insert", "update"} => NewHold(handler[q]) # tx.hold
    BY <1>1, <2>1 DEF Inv, Exclusive, NewHold
  <2>4. Submitting(handler[q])'
    BY <1>4, <1>6, <2>1, <2>2, <2>3 DEF Submitting, Backs, Unnamed, NewHold
  <2>5. Resolving(handler[q])' /\ Releasing(handler[q])'
    BY <1>4, <1>6, <2>1, <2>2 DEF Resolving, Releasing, Reviews
  <2>6. Recording(handler[q])'
    BY <1>4, <1>6, <2>1, <2>2, <2>3 DEF Recording, Reviews, OwnsRow, Backs, Unnamed, NewHold
  <2> QED
    BY <2>4, <2>5, <2>6
<1>11. Exclusive'
  BY <1>5 DEF Inv, Exclusive, OwnsRow, NewHold
<1>12. ClaimsInv'
  <2> SUFFICES ASSUME NEW c \in Bounty
               PROVE  ClaimInv(c)'
    BY DEF ClaimsInv
  <2>1. ClaimInv(c) /\ c # NoTask
    BY HoldsAssumption DEF Inv, ClaimsInv
  <2>2. CASE tx.task = c
    <3>1. r \in Claimants(c)
      BY <1>1, <2>2 DEF Claimants, HasClaim
    <3>2. Claimants(c)' = {}
      BY <1>5, <2>1, <3>1 DEF ClaimInv, Claimants, HasClaim
    <3>3. LiveSubmissions(c) = {}
      BY <2>1, <3>1 DEF ClaimInv
    <3>4. LiveSubmissions(c)' \subseteq {x}
      BY <1>4, <3>3 DEF LiveSubmissions
    <3>5. task'[c].claimed_by # Nobody
      BY <1>6, <2>1, <3>1 DEF ClaimInv
    <3> QED
      BY <3>2, <3>4, <3>5 DEF ClaimInv
  <2>3. CASE tx.task # c
    <3>1. LiveSubmissions(c)' = LiveSubmissions(c)
      BY <1>4, <2>3 DEF LiveSubmissions
    <3>2. Claimants(c)' = Claimants(c)
      BY <1>5, <2>3 DEF Claimants, HasClaim
    <3> QED
      BY <1>6, <2>1, <3>1, <3>2 DEF ClaimInv
  <2> QED
    BY <2>2, <2>3
<1> QED
  BY <1>7, <1>8, <1>9, <1>10, <1>11, <1>12 DEF Inv

----------------------------------------------------------------------------
(* The steps of a review *)

(* A handler that owns a row resolved its hold. *)
LEMMA OwnedIsResolved ==
  ASSUME NEW q \in DOMAIN handler, Recording(handler[q]), OwnsRow(handler[q])
  PROVE  /\ handler[q].id \in DOMAIN row
         /\ row[handler[q].id].hold = handler[q].tx.hold
         /\ row[handler[q].id].status = "pending"
         /\ transfer[handler[q].tx.hold].state \in {"posted", "voided"}
<1>1. CASE handler[q].step = "record"
  BY <1>1 DEF Recording, Reviews
<1>2. CASE handler[q].step # "record"
  BY <1>2 DEF Recording, Reviews
<1> QED
  BY <1>1, <1>2

(* The row's hold is resolved by one handler, which owns the row from then on. *)
LEMMA HoldResolved ==
  ASSUME Inv, NEW r \in DOMAIN handler, NEW id \in DOMAIN transfer,
         NEW state \in {"posted", "voided"}, NEW step \in {"record", "rehold"},
         handler[r].step \in {"resolve", "void"},
         handler[r].tx.hold = id,
         transfer[id].state = "pending",
         LedgerTypeOK', Solvent', UNCHANGED <<row, task, faults>>,
         DOMAIN transfer' = DOMAIN transfer,
         \A t \in DOMAIN transfer \ {id} : transfer'[t] = transfer[t],
         /\ transfer'[id].code = transfer[id].code
         /\ transfer'[id].wallet = transfer[id].wallet
         /\ transfer'[id].amount = transfer[id].amount
         /\ transfer'[id].state = state,
         Goto(r, step),
         step = "record" => state = IF handler[r].outcome = "settled" THEN "posted" ELSE "voided",
         step = "rehold" => state = "voided" /\ handler[r].step = "void"
  PROVE  Inv'
<1> DEFINE x == handler[r].id
<1>1. /\ Reviews(handler[r])
      /\ row[x].hold = id /\ row[x].status = "pending"
      /\ handler[r].step = "void" => handler[r].tx.type = EarnCode
  BY DEF Inv, HandlersInv, Resolving
<1>2. /\ DOMAIN handler' = DOMAIN handler
      /\ handler'[r] \in Handler
      /\ handler'[r].step = step
      /\ handler'[r].id = x
      /\ handler'[r].tx = handler[r].tx
      /\ handler'[r].outcome = handler[r].outcome
      /\ \A q \in DOMAIN handler \ {r} : handler'[q] = handler[q]
  BY GotoFacts DEF Inv, Step
<1>3. x \in DOMAIN row
  BY <1>1 DEF Reviews
<1>4. \A y \in DOMAIN row \ {x} : row[y].hold # id
  BY <1>1, <1>3 DEF Inv, RowsOwnTheirHolds
<1>5. TypeOK'
  BY <1>2 DEF Inv, TypeOK
<1>6. RowsOwnTheirHolds'
  BY DEF Inv, RowsOwnTheirHolds
<1>7. DecisionsMatchLedger'
  <2> SUFFICES ASSUME NEW y \in DOMAIN row
               PROVE  (/\ row[y].status = "settled" =>
                            transfer[row[y].hold].state \in {"posted", "single"}
                       /\ row[y].status = "voided" => transfer[row[y].hold].state = "voided")'
    BY DEF DecisionsMatchLedger
  <2>1. CASE y = x
    BY <1>1, <2>1
  <2>2. CASE y # x
    <3>1. transfer'[row[y].hold] = transfer[row[y].hold]
      BY <1>4, <2>2 DEF Inv, RowsOwnTheirHolds
    <3> QED
      BY <3>1 DEF Inv, DecisionsMatchLedger
  <2> QED
    BY <2>1, <2>2
<1>8. RowKinds'
  <2> SUFFICES ASSUME NEW y \in DOMAIN row
               PROVE  (/\ row[y].type \in {CreditCode, DebitCode} => row[y].status = "settled"
                       /\ row[y].status = "pending" => transfer[row[y].hold].state # "single")'
    BY DEF RowKinds
  <2>1. CASE y = x
    BY <1>1, <2>1 DEF Inv, RowKinds
  <2>2. CASE y # x
    <3>1. transfer'[row[y].hold] = transfer[row[y].hold]
      BY <1>4, <2>2 DEF Inv, RowsOwnTheirHolds
    <3> QED
      BY <3>1 DEF Inv, RowKinds
  <2> QED
    BY <2>1, <2>2
<1>9. HandlersInv'
  <2> SUFFICES ASSUME NEW q \in DOMAIN handler'
               PROVE  (Submitting(handler[q]) /\ Resolving(handler[q])
                        /\ Recording(handler[q]) /\ Releasing(handler[q]))'
    BY DEF HandlersInv
  <2>1. CASE q = r
    BY <1>1, <1>2, <2>1 DEF Submitting, Resolving, Recording, Releasing, OwnsRow, Reviews
  <2>2. CASE q # r
    <3>1. Submitting(handler[q]) /\ Resolving(handler[q])
            /\ Recording(handler[q]) /\ Releasing(handler[q])
      BY <1>2, <2>2 DEF Inv, HandlersInv
    <3>2. q \in DOMAIN handler /\ handler'[q] = handler[q]
      BY <1>2, <2>2
    <3>3. Submitting(handler[q])'
      BY <1>1, <1>3, <3>1, <3>2 DEF Submitting, Backs, Unnamed
    <3>4. Resolving(handler[q])' /\ Releasing(handler[q])'
      BY <3>1, <3>2 DEF Resolving, Releasing, Reviews
    <3>5. Recording(handler[q])'
      <4>1. CASE OwnsRow(handler[q])
        <5>1. /\ handler[q].id \in DOMAIN row
              /\ row[handler[q].id].hold = handler[q].tx.hold
              /\ transfer[handler[q].tx.hold].state \in {"posted", "voided"}
          BY <3>1, <3>2, <4>1, OwnedIsResolved
        <5>2. handler[q].tx.hold \in DOMAIN transfer \ {id}
          BY <5>1 DEF Inv, RowsOwnTheirHolds
        <5>3. transfer'[handler[q].tx.hold] = transfer[handler[q].tx.hold]
          BY <5>2
        <5>4. handler[q].step = "update" => handler[q].hold # id
          BY <1>1, <1>3, <3>1, <4>1 DEF Recording, Unnamed
        <5> QED
          BY <3>1, <3>2, <4>1, <5>3, <5>4 DEF Recording, Reviews, OwnsRow, Backs, Unnamed
      <4>2. CASE ~OwnsRow(handler[q])
        BY <3>2, <4>2 DEF Recording, OwnsRow
      <4> QED
        BY <4>1, <4>2
    <3> QED
      BY <3>3, <3>4, <3>5
  <2> QED
    BY <2>1, <2>2
<1>10. Exclusive'
  <2>1. ASSUME NEW q \in DOMAIN handler, OwnsRow(handler[q])
        PROVE  handler[q].id # x
    <3>1. Recording(handler[q])
      BY DEF Inv, HandlersInv
    <3> QED
      BY <1>1, <2>1, <3>1, OwnedIsResolved
  <2> SUFFICES ASSUME NEW p \in DOMAIN handler', NEW q \in DOMAIN handler', p # q
               PROVE  (/\ OwnsRow(handler[p]) /\ OwnsRow(handler[q]) => handler[p].id # handler[q].id
                       /\ handler[p].step \in {"insert", "update"}
                            /\ handler[q].step \in {"insert", "update"}
                            => NewHold(handler[p]) # NewHold(handler[q]))'
    BY DEF Exclusive
  <2>2. CASE p = r
    BY <1>2, <2>1, <2>2 DEF OwnsRow
  <2>3. CASE q = r
    BY <1>2, <2>1, <2>3 DEF OwnsRow
  <2>4. CASE p # r /\ q # r
    BY <1>2, <2>4 DEF Inv, Exclusive, OwnsRow, NewHold
  <2> QED
    BY <2>2, <2>3, <2>4
<1>11. ClaimsInv'
  <2> SUFFICES ASSUME NEW c \in Bounty
               PROVE  ClaimInv(c)'
    BY DEF ClaimsInv
  <2>1. ClaimInv(c)
    BY DEF Inv, ClaimsInv
  <2>2. LiveSubmissions(c)' = LiveSubmissions(c)
    BY DEF LiveSubmissions
  <2>3. Claimants(c)' = Claimants(c)
    BY <1>2 DEF Claimants, HasClaim
  <2> QED
    BY <2>1, <2>2, <2>3 DEF ClaimInv
<1> QED
  BY <1>5, <1>6, <1>7, <1>8, <1>9, <1>10, <1>11 DEF Inv

LEMMA ResolveHoldPreserves ==
  ASSUME Inv, NEW r \in Request, ResolveHold(r)
  PROVE  Inv'
<1> DEFINE h == handler[r]
           id == h.tx.hold
           code == CodeFor(h.tx.type)
<1>1. r \in DOMAIN handler /\ h.step = "resolve"
  BY DEF ResolveHold, At
<1>2. UNCHANGED <<row, task, faults>>
  BY DEF ResolveHold
<1>3. CASE Finish(r) /\ UNCHANGED ledgerVars
  BY <1>2, <1>3, HandlersOnlyEnd DEF Finish, Inv, TypeOK, ledgerVars
<1>4. CASE h.outcome = "settled" /\ SettleHold(id, code) /\ Goto(r, "record")
  <2>1. LedgerTypeOK' /\ Solvent'
    BY <1>4, SettlePreserves DEF Inv, TypeOK
  <2>2. /\ id \in DOMAIN transfer /\ transfer[id].state = "pending"
        /\ transfer[id] \in Transfer
        /\ transfer' = [transfer EXCEPT ![id].state = "posted"]
    BY <1>4 DEF SettleHold, Resolvable, Inv, TypeOK, LedgerTypeOK
  <2>3. /\ DOMAIN transfer' = DOMAIN transfer
        /\ \A t \in DOMAIN transfer \ {id} : transfer'[t] = transfer[t]
        /\ transfer'[id].code = transfer[id].code
        /\ transfer'[id].wallet = transfer[id].wallet
        /\ transfer'[id].amount = transfer[id].amount
        /\ transfer'[id].state = "posted"
    BY <2>2 DEF Transfer
  <2> QED
    BY <1>1, <1>2, <1>4, <2>1, <2>2, <2>3, HoldResolved
<1>5. CASE h.outcome = "voided" /\ VoidHold(id, code) /\ Goto(r, "record")
  <2>1. LedgerTypeOK' /\ Solvent'
    BY <1>5, VoidPreserves DEF Inv, TypeOK
  <2>2. /\ id \in DOMAIN transfer /\ transfer[id].state = "pending"
        /\ transfer[id] \in Transfer
        /\ transfer' = [transfer EXCEPT ![id].state = "voided"]
    BY <1>5 DEF VoidHold, Resolvable, Inv, TypeOK, LedgerTypeOK
  <2>3. /\ DOMAIN transfer' = DOMAIN transfer
        /\ \A t \in DOMAIN transfer \ {id} : transfer'[t] = transfer[t]
        /\ transfer'[id].code = transfer[id].code
        /\ transfer'[id].wallet = transfer[id].wallet
        /\ transfer'[id].amount = transfer[id].amount
        /\ transfer'[id].state = "voided"
    BY <2>2 DEF Transfer
  <2> QED
    BY <1>1, <1>2, <1>5, <2>1, <2>2, <2>3, HoldResolved
<1> QED
  BY <1>3, <1>4, <1>5 DEF ResolveHold

LEMMA VoidPriorHoldPreserves ==
  ASSUME Inv, NEW r \in Request, VoidPriorHold(r)
  PROVE  Inv'
<1> DEFINE h == handler[r]
           id == h.tx.hold
           code == CodeFor(h.tx.type)
<1>1. r \in DOMAIN handler /\ h.step = "void"
  BY DEF VoidPriorHold, At
<1>2. UNCHANGED <<row, task, faults>>
  BY DEF VoidPriorHold
<1>3. CASE Finish(r) /\ UNCHANGED ledgerVars
  BY <1>2, <1>3, HandlersOnlyEnd DEF Finish, Inv, TypeOK, ledgerVars
<1>4. CASE VoidHold(id, code) /\ Goto(r, "rehold")
  <2>1. LedgerTypeOK' /\ Solvent'
    BY <1>4, VoidPreserves DEF Inv, TypeOK
  <2>2. /\ id \in DOMAIN transfer /\ transfer[id].state = "pending"
        /\ transfer[id] \in Transfer
        /\ transfer' = [transfer EXCEPT ![id].state = "voided"]
    BY <1>4 DEF VoidHold, Resolvable, Inv, TypeOK, LedgerTypeOK
  <2>3. /\ DOMAIN transfer' = DOMAIN transfer
        /\ \A t \in DOMAIN transfer \ {id} : transfer'[t] = transfer[t]
        /\ transfer'[id].code = transfer[id].code
        /\ transfer'[id].wallet = transfer[id].wallet
        /\ transfer'[id].amount = transfer[id].amount
        /\ transfer'[id].state = "voided"
    BY <2>2 DEF Transfer
  <2> QED
    BY <1>1, <1>2, <1>4, <2>1, <2>2, <2>3, HoldResolved
<1> QED
  BY <1>3, <1>4 DEF VoidPriorHold

(* Writing a row: its owner gives it a decision, or a new hold, and lets go. *)
LEMMA DecideTransactionPreserves ==
  ASSUME Inv, NEW r \in Request, DecideTransaction(r)
  PROVE  Inv'
<1> DEFINE h == handler[r]
           x == h.id
           releases == h.outcome = "voided" /\ h.tx.type = EarnCode /\ h.tx.task \in Bounty
<1>1. r \in DOMAIN handler /\ h.step = "record" /\ h \in Handler
  BY DEF DecideTransaction, At, Inv, TypeOK
<1>2. /\ Reviews(h)
      /\ row[x].hold = h.tx.hold /\ row[x].status = "pending"
      /\ transfer[h.tx.hold].state = IF h.outcome = "settled" THEN "posted" ELSE "voided"
  BY <1>1 DEF Inv, HandlersInv, Recording, OwnsRow
<1>3. x \in DOMAIN row /\ h.tx.task = row[x].task /\ h.outcome \in {"settled", "voided"}
  BY <1>1, <1>2 DEF Reviews, Handler
<1>4. /\ row' = [row EXCEPT ![x].status = h.outcome]
      /\ UNCHANGED <<account, transfer, task, faults>>
      /\ IF releases THEN Goto(r, "release") ELSE Finish(r)
  BY <1>2 DEF DecideTransaction
<1>5. row[x] \in Transaction
  BY <1>3 DEF Inv, TypeOK
<1>6. /\ DOMAIN row' = DOMAIN row
      /\ \A y \in DOMAIN row \ {x} : row'[y] = row[y]
      /\ row'[x] \in Transaction
      /\ row'[x].status = h.outcome
      /\ row'[x].hold = row[x].hold /\ row'[x].task = row[x].task
      /\ row'[x].type = row[x].type /\ row'[x].account = row[x].account
      /\ row'[x].amount = row[x].amount
  BY <1>3, <1>4, <1>5 DEF Transaction
<1>7. /\ DOMAIN handler' \subseteq DOMAIN handler
      /\ \A q \in DOMAIN handler \ {r} : q \in DOMAIN handler' /\ handler'[q] = handler[q]
      /\ r \in DOMAIN handler' =>
           /\ releases
           /\ handler'[r] \in Handler
           /\ handler'[r].step = "release"
           /\ handler'[r].id = x /\ handler'[r].tx = h.tx
      /\ releases => r \in DOMAIN handler'
  <2>1. CASE releases
    BY <1>1, <1>4, <2>1, GotoFacts DEF Inv, Step
  <2>2. CASE ~releases
    BY <1>4, <2>2, EndingFacts DEF Finish
  <2> QED
    BY <2>1, <2>2
<1>8. TypeOK'
  <2>1. \A y \in DOMAIN row' : row'[y] \in Transaction
    BY <1>6 DEF Inv, TypeOK
  <2>2. \A q \in DOMAIN handler' : handler'[q] \in Handler
    BY <1>7 DEF Inv, TypeOK
  <2> QED
    BY <1>4, <1>6, <1>7, <2>1, <2>2 DEF Inv, TypeOK, LedgerTypeOK
<1>9. Solvent'
  BY <1>4 DEF Inv, Solvent
<1>10. RowsOwnTheirHolds'
  BY <1>4, <1>6 DEF Inv, RowsOwnTheirHolds
<1>11. DecisionsMatchLedger' /\ RowKinds'
  <2>1. DecisionsMatchLedger'
    BY <1>2, <1>3, <1>4, <1>6 DEF Inv, DecisionsMatchLedger
  <2>2. RowKinds'
    BY <1>2, <1>3, <1>4, <1>6 DEF Inv, RowKinds
  <2> QED
    BY <2>1, <2>2
<1>12. HandlersInv'
  <2> SUFFICES ASSUME NEW q \in DOMAIN handler'
               PROVE  (Submitting(handler[q]) /\ Resolving(handler[q])
                        /\ Recording(handler[q]) /\ Releasing(handler[q]))'
    BY DEF HandlersInv
  <2>1. CASE q = r
    BY <1>3, <1>6, <1>7, <2>1 DEF Submitting, Resolving, Recording, Releasing, OwnsRow
  <2>2. CASE q # r
    <3>1. q \in DOMAIN handler /\ handler'[q] = handler[q]
      BY <1>7, <2>2
    <3>2. Submitting(handler[q]) /\ Resolving(handler[q])
            /\ Recording(handler[q]) /\ Releasing(handler[q])
      BY <3>1 DEF Inv, HandlersInv
    <3>3. Submitting(handler[q])'
      BY <1>4, <1>6, <3>1, <3>2 DEF Submitting, Backs, Unnamed
    <3>4. Resolving(handler[q])' /\ Releasing(handler[q])'
      BY <1>2, <1>3, <1>4, <1>6, <3>1, <3>2 DEF Resolving, Releasing, Reviews
    <3>5. OwnsRow(handler[q]) => handler[q].id # x
      BY <1>1, <2>2, <3>1 DEF Inv, Exclusive, OwnsRow
    <3>6. Recording(handler[q])'
      BY <1>4, <1>6, <3>1, <3>2, <3>5 DEF Recording, Reviews, OwnsRow, Backs, Unnamed
    <3> QED
      BY <3>3, <3>4, <3>6
  <2> QED
    BY <2>1, <2>2
<1>13. Exclusive'
  <2>1. \A q \in DOMAIN handler' : q # r => q \in DOMAIN handler /\ handler'[q] = handler[q]
    BY <1>7
  <2>2. r \in DOMAIN handler' => handler'[r].step = "release"
    BY <1>7
  <2> QED
    BY <2>1, <2>2 DEF Inv, Exclusive, OwnsRow, NewHold
<1>14. ClaimsInv'
  <2> SUFFICES ASSUME NEW c \in Bounty
               PROVE  ClaimInv(c)'
    BY DEF ClaimsInv
  <2>1. ClaimInv(c)
    BY DEF Inv, ClaimsInv
  <2>2. LiveSubmissions(c)' \subseteq LiveSubmissions(c)
    BY <1>2, <1>6 DEF LiveSubmissions
  <2>3. Claimants(c) \subseteq Claimants(c)' /\ Claimants(c)' \subseteq Claimants(c) \cup {r}
    BY <1>1, <1>7 DEF Claimants, HasClaim
  <2>4. CASE r \in Claimants(c)'
    <3>1. releases /\ row[x].task = c
      BY <1>3, <1>7, <2>4 DEF Claimants, HasClaim
    <3>2. x \in LiveSubmissions(c)
      BY <1>2, <1>3, <3>1 DEF LiveSubmissions
    <3>3. LiveSubmissions(c)' = {}
      BY <1>6, <2>1, <2>2, <3>1, <3>2 DEF ClaimInv, LiveSubmissions
    <3>4. Claimants(c) = {} /\ task[c].claimed_by # Nobody
      BY <2>1, <3>2 DEF ClaimInv
    <3> QED
      BY <1>4, <2>3, <3>3, <3>4 DEF ClaimInv
  <2>5. CASE r \notin Claimants(c)'
    BY <1>4, <2>1, <2>2, <2>3, <2>5 DEF ClaimInv
  <2> QED
    BY <2>4, <2>5
<1> QED
  BY <1>8, <1>9, <1>10, <1>11, <1>12, <1>13, <1>14 DEF Inv

LEMMA ReleasePreserves ==
  ASSUME Inv, NEW r \in Request, ReleaseBountyClaim(r)
  PROVE  Inv'
<1> DEFINE b == handler[r].tx.task
<1>1. r \in DOMAIN handler /\ handler[r].step = "release"
  BY DEF ReleaseBountyClaim, At
<1>2. b \in Bounty /\ b \in Task
  BY <1>1, HoldsAssumption DEF Inv, HandlersInv, Releasing
<1>3. /\ task' = [task EXCEPT ![b].claimed_by = Nobody]
      /\ UNCHANGED <<account, transfer, row, faults>>
      /\ Finish(r)
  BY DEF ReleaseBountyClaim
<1>4. /\ DOMAIN handler' = DOMAIN handler \ {r}
      /\ \A q \in DOMAIN handler' : handler'[q] = handler[q]
  BY <1>3, EndingFacts DEF Finish
<1>5. TypeOK'
  <2>1. task' \in [Task -> TaskRow]
    BY <1>2, <1>3 DEF Inv, TypeOK, TaskRow
  <2> QED
    BY <1>3, <1>4, <2>1 DEF Inv, TypeOK, LedgerTypeOK
<1>6. Solvent' /\ RowsOwnTheirHolds' /\ DecisionsMatchLedger' /\ RowKinds'
  BY <1>3 DEF Inv, Solvent, RowsOwnTheirHolds, DecisionsMatchLedger, RowKinds
<1>7. HandlersInv'
  <2> SUFFICES ASSUME NEW q \in DOMAIN handler'
               PROVE  (Submitting(handler[q]) /\ Resolving(handler[q])
                        /\ Recording(handler[q]) /\ Releasing(handler[q]))'
    BY DEF HandlersInv
  <2>1. Submitting(handler[q]) /\ Resolving(handler[q])
          /\ Recording(handler[q]) /\ Releasing(handler[q])
    BY <1>4 DEF Inv, HandlersInv
  <2> QED
    BY <1>3, <1>4, <2>1 DEF Submitting, Resolving, Recording, Releasing, Reviews, OwnsRow, Backs, Unnamed
<1>8. Exclusive'
  BY <1>4 DEF Inv, Exclusive, OwnsRow, NewHold
<1>9. ClaimsInv'
  <2> SUFFICES ASSUME NEW c \in Bounty
               PROVE  ClaimInv(c)'
    BY DEF ClaimsInv
  <2>1. ClaimInv(c)
    BY DEF Inv, ClaimsInv
  <2>2. LiveSubmissions(c)' = LiveSubmissions(c)
    BY <1>3 DEF LiveSubmissions
  <2>3. Claimants(c)' = Claimants(c) \ {r}
    BY <1>4 DEF Claimants, HasClaim
  <2>4. CASE c = b
    <3>1. r \in Claimants(c)
      BY <1>1, <2>4 DEF Claimants, HasClaim
    <3>2. LiveSubmissions(c)' = {} /\ Claimants(c)' = {}
      BY <2>1, <2>2, <2>3, <3>1 DEF ClaimInv
    <3> QED
      BY <3>2 DEF ClaimInv
  <2>5. CASE c # b
    <3>1. task'[c] = task[c]
      BY <1>3, <2>5, HoldsAssumption DEF Inv, TypeOK
    <3> QED
      BY <2>1, <2>2, <2>3, <3>1 DEF ClaimInv
  <2> QED
    BY <2>4, <2>5
<1> QED
  BY <1>5, <1>6, <1>7, <1>8, <1>9 DEF Inv

----------------------------------------------------------------------------
(* Adjusting a reward *)

LEMMA PlaceAdjustedHoldPreserves ==
  ASSUME Inv, NEW r \in Request, PlaceAdjustedHold(r)
  PROVE  Inv'
<1> DEFINE h == handler[r]
<1>1. r \in DOMAIN handler /\ h.step = "rehold" /\ h \in Handler
  BY DEF PlaceAdjustedHold, At, Inv, TypeOK
<1>2. /\ Reviews(h)
      /\ row[h.id].hold = h.tx.hold /\ row[h.id].status = "pending"
      /\ transfer[h.tx.hold].state = "voided" /\ h.tx.type = EarnCode
  BY <1>1 DEF Inv, HandlersInv, Recording, OwnsRow
<1>3. h.tx \in Transaction /\ h.tx.account \in Wallet /\ h.amount \in Amount /\ EarnCode \in Code
  BY <1>1 DEF Handler, Transaction, Code
<1>4. PICK id \in FreshId :
        /\ Hold(id, EarnCode, h.tx.account, h.amount)
        /\ handler' = [handler EXCEPT ![r].step = "update", ![r].hold = id]
  BY DEF PlaceAdjustedHold
<1>5. UNCHANGED <<row, task, faults>>
  BY DEF PlaceAdjustedHold
<1>6. LedgerTypeOK' /\ Solvent'
  BY <1>3, <1>4, HoldPreserves DEF Inv, TypeOK
<1>7. /\ id \in TransferId \ DOMAIN transfer
      /\ DOMAIN transfer' = DOMAIN transfer \cup {id}
      /\ transfer'[id] = [code |-> EarnCode, wallet |-> h.tx.account,
                          amount |-> h.amount, state |-> "pending"]
      /\ \A t \in DOMAIN transfer : transfer'[t] = transfer[t]
  BY <1>3, <1>4, CreateFacts DEF Hold, Inv, TypeOK
<1>8. /\ DOMAIN handler' = DOMAIN handler
      /\ \A q \in DOMAIN handler \ {r} : handler'[q] = handler[q]
      /\ handler'[r] \in Handler
      /\ handler'[r].step = "update" /\ handler'[r].hold = id
      /\ handler'[r].id = h.id /\ handler'[r].tx = h.tx /\ handler'[r].amount = h.amount
  <2>1. /\ DOMAIN handler' = DOMAIN handler
        /\ \A q \in DOMAIN handler \ {r} : handler'[q] = handler[q]
        /\ handler'[r] = [h EXCEPT !.step = "update", !.hold = id]
    BY <1>1, <1>4
  <2>2. handler'[r] \in Handler
    BY <1>1, <1>7, <2>1 DEF Handler, Step
  <2> QED
    BY <1>1, <2>1, <2>2 DEF Handler
<1>9. TypeOK'
  BY <1>5, <1>6, <1>8 DEF Inv, TypeOK
<1>10. RowsOwnTheirHolds' /\ DecisionsMatchLedger' /\ RowKinds'
  BY <1>5, <1>7 DEF Inv, RowsOwnTheirHolds, DecisionsMatchLedger, RowKinds
<1>11. \A x \in DOMAIN row : row[x].hold # id
  BY <1>7 DEF Inv, RowsOwnTheirHolds
<1>12. HandlersInv'
  <2> SUFFICES ASSUME NEW q \in DOMAIN handler'
               PROVE  (Submitting(handler[q]) /\ Resolving(handler[q])
                        /\ Recording(handler[q]) /\ Releasing(handler[q]))'
    BY DEF HandlersInv
  <2>1. CASE q = r
    <3>1. Submitting(handler[q])' /\ Resolving(handler[q])' /\ Releasing(handler[q])'
      BY <1>8, <2>1 DEF Submitting, Resolving, Releasing
    <3>2. [h.tx EXCEPT !.amount = h.amount].type = EarnCode
            /\ [h.tx EXCEPT !.amount = h.amount].account = h.tx.account
            /\ [h.tx EXCEPT !.amount = h.amount].amount = h.amount
      BY <1>2, <1>3 DEF Transaction
    <3>3. Backs(id, [h.tx EXCEPT !.amount = h.amount])'
      BY <1>7, <1>8, <3>2 DEF Backs
    <3>4. Unnamed(handler[q].hold)'
      BY <1>5, <1>8, <1>11, <2>1 DEF Unnamed
    <3>5. Backs(handler[q].hold, [handler[q].tx EXCEPT !.amount = handler[q].amount])'
      BY <1>8, <2>1, <3>3
    <3>6. Recording(handler[q])'
      <4>1. Reviews(handler[q])'
        BY <1>2, <1>5, <1>8, <2>1 DEF Reviews
      <4>2. h.tx.hold \in DOMAIN transfer
        BY <1>2 DEF Inv, RowsOwnTheirHolds, Reviews
      <4> QED
        BY <1>2, <1>5, <1>7, <1>8, <2>1, <3>4, <3>5, <4>1, <4>2 DEF Recording
    <3> QED
      BY <3>1, <3>6
  <2>2. CASE q # r
    <3>1. Submitting(handler[q]) /\ Resolving(handler[q])
            /\ Recording(handler[q]) /\ Releasing(handler[q])
      BY <1>8, <2>2 DEF Inv, HandlersInv
    <3>2. q \in DOMAIN handler /\ handler'[q] = handler[q]
      BY <1>8, <2>2
    <3> QED
      BY <1>5, <1>7, <3>1, <3>2
      DEF Submitting, Resolving, Recording, Releasing, Reviews, OwnsRow, Backs, Unnamed,
          Inv, RowsOwnTheirHolds
  <2> QED
    BY <2>1, <2>2
<1>13. Exclusive'
  <2>1. \A q \in DOMAIN handler \ {r} :
          handler[q].step \in {"insert", "update"} => NewHold(handler[q]) \in DOMAIN transfer
    BY DEF Inv, HandlersInv, Submitting, Recording, OwnsRow, Backs, NewHold
  <2>2. NewHold(handler'[r]) = id
    BY <1>8 DEF NewHold
  <2>3. \A q \in DOMAIN handler \ {r} : OwnsRow(handler[q]) => handler[q].id # h.id
    BY <1>1 DEF Inv, Exclusive, OwnsRow
  <2> SUFFICES ASSUME NEW p \in DOMAIN handler', NEW q \in DOMAIN handler', p # q
               PROVE  (/\ OwnsRow(handler[p]) /\ OwnsRow(handler[q]) => handler[p].id # handler[q].id
                       /\ handler[p].step \in {"insert", "update"}
                            /\ handler[q].step \in {"insert", "update"}
                            => NewHold(handler[p]) # NewHold(handler[q]))'
    BY DEF Exclusive
  <2>4. CASE p = r
    BY <1>7, <1>8, <2>1, <2>2, <2>3, <2>4 DEF OwnsRow, NewHold
  <2>5. CASE q = r
    BY <1>7, <1>8, <2>1, <2>2, <2>3, <2>5 DEF OwnsRow, NewHold
  <2>6. CASE p # r /\ q # r
    BY <1>8, <2>6 DEF Inv, Exclusive, OwnsRow, NewHold
  <2> QED
    BY <2>4, <2>5, <2>6
<1>14. ClaimsInv'
  <2> SUFFICES ASSUME NEW c \in Bounty
               PROVE  ClaimInv(c)'
    BY DEF ClaimsInv
  <2>1. ClaimInv(c)
    BY DEF Inv, ClaimsInv
  <2>2. LiveSubmissions(c)' = LiveSubmissions(c)
    BY <1>5 DEF LiveSubmissions
  <2>3. Claimants(c)' = Claimants(c)
    BY <1>1, <1>8 DEF Claimants, HasClaim
  <2> QED
    BY <1>5, <2>1, <2>2, <2>3 DEF ClaimInv
<1> QED
  BY <1>6, <1>9, <1>10, <1>12, <1>13, <1>14 DEF Inv

LEMMA AdjustAmountPreserves ==
  ASSUME Inv, NEW r \in Request, AdjustTransactionAmount(r)
  PROVE  Inv'
<1> DEFINE h == handler[r]
           x == h.id
<1>1. r \in DOMAIN handler /\ h.step = "update" /\ h \in Handler
  BY DEF AdjustTransactionAmount, At, Inv, TypeOK
<1>2. /\ Reviews(h)
      /\ row[x].hold = h.tx.hold /\ row[x].status = "pending"
      /\ transfer[h.tx.hold].state = "voided"
      /\ Backs(h.hold, [h.tx EXCEPT !.amount = h.amount])
      /\ Unnamed(h.hold)
      /\ transfer[h.hold].state = "pending"
  BY <1>1 DEF Inv, HandlersInv, Recording, OwnsRow
<1>3. /\ x \in DOMAIN row
      /\ row[x] \in Transaction
      /\ h.tx.type = row[x].type /\ h.tx.account = row[x].account
      /\ h.hold \in TransferId \cup {NoTransfer} /\ h.amount \in Amount
      /\ h.tx \in Transaction
  BY <1>1, <1>2 DEF Reviews, Handler, Inv, TypeOK
<1>4. /\ h.hold \in DOMAIN transfer
      /\ transfer[h.hold].code = row[x].type
      /\ transfer[h.hold].wallet = row[x].account
      /\ transfer[h.hold].amount = h.amount
  BY <1>2, <1>3 DEF Backs, Transaction
<1>5. /\ row' = [row EXCEPT ![x].amount = h.amount, ![x].hold = h.hold]
      /\ UNCHANGED <<account, transfer, task, faults>>
      /\ Finish(r)
  BY <1>2 DEF AdjustTransactionAmount
<1>6. /\ DOMAIN row' = DOMAIN row
      /\ \A y \in DOMAIN row \ {x} : row'[y] = row[y]
      /\ row'[x] \in Transaction
      /\ row'[x].amount = h.amount /\ row'[x].hold = h.hold
      /\ row'[x].status = "pending" /\ row'[x].task = row[x].task
      /\ row'[x].type = row[x].type /\ row'[x].account = row[x].account
  BY <1>2, <1>3, <1>5 DEF Transaction
<1>7. /\ DOMAIN handler' = DOMAIN handler \ {r}
      /\ \A q \in DOMAIN handler' : handler'[q] = handler[q]
  BY <1>5, EndingFacts DEF Finish
<1>8. TypeOK'
  <2>1. \A y \in DOMAIN row' : row'[y] \in Transaction
    BY <1>6 DEF Inv, TypeOK
  <2> QED
    BY <1>5, <1>6, <1>7, <2>1 DEF Inv, TypeOK, LedgerTypeOK
<1>9. Solvent'
  BY <1>5 DEF Inv, Solvent
<1>10. RowsOwnTheirHolds'
  BY <1>2, <1>4, <1>5, <1>6 DEF Inv, RowsOwnTheirHolds, Unnamed
<1>11. DecisionsMatchLedger' /\ RowKinds'
  <2>1. DecisionsMatchLedger'
    BY <1>5, <1>6 DEF Inv, DecisionsMatchLedger
  <2>2. RowKinds'
    BY <1>2, <1>3, <1>5, <1>6 DEF Inv, RowKinds
  <2> QED
    BY <2>1, <2>2
<1>12. HandlersInv'
  <2> SUFFICES ASSUME NEW q \in DOMAIN handler'
               PROVE  (Submitting(handler[q]) /\ Resolving(handler[q])
                        /\ Recording(handler[q]) /\ Releasing(handler[q]))'
    BY DEF HandlersInv
  <2>1. q \in DOMAIN handler /\ q # r /\ handler'[q] = handler[q]
    BY <1>7
  <2>2. Submitting(handler[q]) /\ Resolving(handler[q])
          /\ Recording(handler[q]) /\ Releasing(handler[q])
    BY <2>1 DEF Inv, HandlersInv
  <2>3. handler[q].step \in {"insert", "update"} => NewHold(handler[q]) # h.hold
    BY <1>1, <2>1 DEF Inv, Exclusive, NewHold
  <2>4. OwnsRow(handler[q]) => handler[q].id # x
    BY <1>1, <2>1 DEF Inv, Exclusive, OwnsRow
  <2>5. Submitting(handler[q])'
    BY <1>5, <1>6, <2>1, <2>2, <2>3 DEF Submitting, Backs, Unnamed, NewHold
  <2>6. Resolving(handler[q])' /\ Releasing(handler[q])'
    BY <1>2, <1>3, <1>5, <1>6, <2>1, <2>2 DEF Resolving, Releasing, Reviews
  <2>7. Recording(handler[q])'
    BY <1>5, <1>6, <2>1, <2>2, <2>3, <2>4
    DEF Recording, Reviews, OwnsRow, Backs, Unnamed, NewHold
  <2> QED
    BY <2>5, <2>6, <2>7
<1>13. Exclusive'
  BY <1>7 DEF Inv, Exclusive, OwnsRow, NewHold
<1>14. ClaimsInv'
  <2> SUFFICES ASSUME NEW c \in Bounty
               PROVE  ClaimInv(c)'
    BY DEF ClaimsInv
  <2>1. ClaimInv(c)
    BY DEF Inv, ClaimsInv
  <2>2. LiveSubmissions(c)' = LiveSubmissions(c)
    BY <1>2, <1>3, <1>6 DEF LiveSubmissions
  <2>3. Claimants(c)' = Claimants(c)
    BY <1>1, <1>7 DEF Claimants, HasClaim
  <2> QED
    BY <1>5, <2>1, <2>2, <2>3 DEF ClaimInv
<1> QED
  BY <1>8, <1>9, <1>10, <1>11, <1>12, <1>13, <1>14 DEF Inv

----------------------------------------------------------------------------
(* The catalog *)

LEMMA SetActivePreserves ==
  ASSUME Inv, NEW t \in Task, NEW active \in BOOLEAN, SetActive(t, active)
  PROVE  Inv'
<1>1. /\ task' = [task EXCEPT ![t].active = active]
      /\ UNCHANGED <<account, transfer, row, handler, faults>>
  BY DEF SetActive
<1>2. task' \in [Task -> TaskRow] /\ \A b \in Task : task'[b].claimed_by = task[b].claimed_by
  BY <1>1 DEF Inv, TypeOK, TaskRow
<1>3. TypeOK'
  BY <1>1, <1>2 DEF Inv, TypeOK, LedgerTypeOK
<1>4. Solvent' /\ RowsOwnTheirHolds' /\ DecisionsMatchLedger' /\ RowKinds'
  BY <1>1 DEF Inv, Solvent, RowsOwnTheirHolds, DecisionsMatchLedger, RowKinds
<1>5. HandlersInv' /\ Exclusive'
  BY <1>1 DEF Inv, HandlersInv, Exclusive, Submitting, Resolving, Recording, Releasing,
              Reviews, OwnsRow, Backs, Unnamed, NewHold
<1>6. ClaimsInv'
  BY <1>1, <1>2, HoldsAssumption
  DEF Inv, ClaimsInv, ClaimInv, Claimants, HasClaim, LiveSubmissions
<1> QED
  BY <1>3, <1>4, <1>5, <1>6 DEF Inv

----------------------------------------------------------------------------
(* The theorems *)

LEMMA InitInv == Init => Inv
<1> SUFFICES ASSUME Init PROVE Inv
  OBVIOUS
<1>1. /\ DOMAIN row = {} /\ DOMAIN handler = {} /\ DOMAIN transfer = {}
      /\ task = [t \in Task |-> [active |-> TRUE, claimed_by |-> Nobody]]
      /\ account = [a \in Account |-> NewAccount]
      /\ faults = 0
  BY DEF Init, LedgerInit
<1>2. TypeOK
  BY <1>1, HoldsAssumption DEF TypeOK, LedgerTypeOK, Counters, NewAccount, TaskRow
<1>3. Solvent
  BY <1>1 DEF Solvent, NewAccount, Account
<1>4. RowsOwnTheirHolds /\ DecisionsMatchLedger /\ RowKinds /\ HandlersInv /\ Exclusive
  BY <1>1 DEF RowsOwnTheirHolds, DecisionsMatchLedger, RowKinds, HandlersInv, Exclusive
<1>5. ClaimsInv
  BY <1>1 DEF ClaimsInv, ClaimInv, Claimants, LiveSubmissions
<1> QED
  BY <1>2, <1>3, <1>4, <1>5 DEF Inv

LEMMA StepInv == Inv /\ [Next]_holdsVars => Inv'
<1> SUFFICES ASSUME Inv, [Next]_holdsVars PROVE Inv'
  OBVIOUS
<1>1. ASSUME NEW r \in Request, NEW w \in Wallet, Submit(r, w) PROVE Inv'
  BY <1>1, SubmitPreserves
<1>2. ASSUME NEW r \in Request, NEW x \in DOMAIN row, Review(r, x) PROVE Inv'
  BY <1>2, ReviewPreserves
<1>3. ASSUME NEW r \in Request, Continue(r) PROVE Inv'
  BY <1>3, ClaimBountyPreserves, PlaceHoldPreserves, PostAdjustmentPreserves,
     CreateTransactionPreserves, ResolveHoldPreserves, DecideTransactionPreserves,
     ReleasePreserves, VoidPriorHoldPreserves, PlaceAdjustedHoldPreserves,
     AdjustAmountPreserves
  DEF Continue
<1>4. ASSUME NEW S, CutOff(S) PROVE Inv'
  <2>1. faults' \in 0..MaxFaults
    BY <1>4, HoldsAssumption DEF CutOff, Inv, TypeOK
  <2> QED
    BY <1>4, <2>1, HandlersOnlyEnd DEF CutOff
<1>5. ASSUME NEW t \in Task, NEW active \in BOOLEAN, SetActive(t, active) PROVE Inv'
  BY <1>5, SetActivePreserves
<1>6. CASE UNCHANGED holdsVars
  BY <1>6
  DEF holdsVars, Inv, TypeOK, LedgerTypeOK, Solvent, RowsOwnTheirHolds, DecisionsMatchLedger,
      RowKinds, HandlersInv, Exclusive, Submitting, Resolving, Recording, Releasing,
      Reviews, OwnsRow, Backs, Unnamed, NewHold, ClaimsInv, ClaimInv, Claimants, HasClaim,
      LiveSubmissions
<1> QED
  BY <1>1, <1>2, <1>3, <1>4, <1>5, <1>6 DEF Next, Fault, Crash

(* Every reachable state satisfies the inductive invariant: what each handler  *)
(* of holds.go may rely on at each of its steps.                               *)
THEOREM InvHolds == Spec => []Inv
<1>1. Init => Inv
  BY InitInv
<1>2. Inv /\ [Next]_holdsVars => Inv'
  BY StepInv
<1> QED
  BY <1>1, <1>2, PTL DEF Spec

(* The tables and the handlers' local variables keep their types. *)
THEOREM TypesHold == Spec => []TypeOK
<1>1. Inv => TypeOK
  BY DEF Inv
<1> QED
  BY <1>1, InvHolds, PTL

(* No wallet is ever overdrawn, with its reserved coins counted (ledger.go).   *)
THEOREM WalletsSolvent == Spec => []Solvent
<1>1. Inv => Solvent
  BY DEF Inv
<1> QED
  BY <1>1, InvHolds, PTL

(* A decided row says what the ledger did with its hold (holds.go:277-325).    *)
THEOREM DecisionsHold == Spec => []DecisionsMatchLedger
<1>1. Inv => DecisionsMatchLedger
  BY DEF Inv
<1> QED
  BY <1>1, InvHolds, PTL

(* Each row stands on a hold of its own, for its own amount (holds.go).        *)
THEOREM HoldsAreOwned == Spec => []RowsOwnTheirHolds
<1>1. Inv => RowsOwnTheirHolds
  BY DEF Inv
<1> QED
  BY <1>1, InvHolds, PTL

(* A bounty has at most one submission that is not declined (tasks.go:75-95).  *)
THEOREM OneWinner == Spec => []OneLiveSubmissionPerBounty
<1>1. Inv => OneLiveSubmissionPerBounty
  BY DEF Inv, ClaimsInv, ClaimInv, OneLiveSubmissionPerBounty
<1> QED
  BY <1>1, InvHolds, PTL

----------------------------------------------------------------------------
(* A decision is final: nothing alters a row that was decided                  *)
(* (transactions.go:31-65).                                                    *)
THEOREM DecidedRowsFinal == Spec => DecidedRowsAreFinal
<1>1. ASSUME [Next]_holdsVars, NEW x \in DOMAIN row
      PROVE  /\ x \in DOMAIN row'
             /\ row[x].status # "pending" => row'[x] = row[x]
  <2>1. CASE UNCHANGED row
    BY <2>1
  <2>2. ASSUME NEW r \in Request, CreateTransaction(r)
        PROVE  x \in DOMAIN row' /\ row'[x] = row[x]
    BY <2>2 DEF CreateTransaction, FreshRow
  <2>3. ASSUME NEW r \in Request, DecideTransaction(r) \/ AdjustTransactionAmount(r)
        PROVE  x \in DOMAIN row' /\ (row[x].status # "pending" => row'[x] = row[x])
    BY <2>3 DEF DecideTransaction, AdjustTransactionAmount
  <2> QED
    BY <1>1, <2>1, <2>2, <2>3
    DEF Next, holdsVars, Submit, CreateEarning, ProposeChore, CreateRedemption,
        CreateAdjustment, Review, Decide, AdjustTransaction, Continue, ClaimBounty, PlaceHold,
        PostAdjustment, ResolveHold, ReleaseBountyClaim, VoidPriorHold, PlaceAdjustedHold,
        Fault, Crash, CutOff, SetActive
<1>2. [Next]_holdsVars =>
        [\A x \in DOMAIN row :
           /\ x \in DOMAIN row'
           /\ row[x].status # "pending" => row'[x] = row[x]]_holdsVars
  BY <1>1
<1> QED
  BY <1>2, PTL DEF Spec, DecidedRowsAreFinal

(***************************************************************************)
(* 3. The money adds up                                                      *)
(***************************************************************************)

AmountIn(tr) == [t \in DOMAIN tr |-> tr[t].amount]
TotalIn(tr, S) == SumFunctionOnSet(AmountIn(tr), S)
DebitsIn(tr, a, states) ==
  {t \in DOMAIN tr : tr[t].state \in states /\ DebitAccount(tr[t].code, tr[t].wallet) = a}
CreditsIn(tr, a, states) ==
  {t \in DOMAIN tr : tr[t].state \in states /\ CreditAccount(tr[t].code, tr[t].wallet) = a}
Share(here, amount) == IF here THEN amount ELSE 0

LEMMA TotalInt ==
  ASSUME LedgerTypeOK, IsFiniteSet(DOMAIN transfer), NEW S \in SUBSET DOMAIN transfer
  PROVE  IsFiniteSet(S) /\ TotalIn(transfer, S) \in Int
<1>1. IsFiniteSet(S)
  BY FS_Subset
<1>2. \A t \in S : AmountIn(transfer)[t] \in Int
  BY Amounts DEF LedgerTypeOK, Transfer, AmountIn
<1>3. SumFunctionOnSet(AmountIn(transfer), S) \in Int
  BY <1>1, <1>2, SumInt
<1> QED BY <1>1, <1>3 DEF TotalIn, AmountIn

(* A new transfer adds its amount to the totals of its two sides. *)
LEMMA CreateTotals ==
  ASSUME LedgerTypeOK, IsFiniteSet(DOMAIN transfer),
         NEW id \in FreshId, NEW code \in Code, NEW wallet \in Wallet, NEW amount \in Amount,
         NEW state \in {"pending", "single"},
         Create(id, code, wallet, amount, state),
         NEW a, NEW states
  PROVE  /\ TotalIn(transfer', DebitsIn(transfer', a, states)) =
              TotalIn(transfer, DebitsIn(transfer, a, states))
                + Share(state \in states /\ DebitAccount(code, wallet) = a, amount)
         /\ TotalIn(transfer', CreditsIn(transfer', a, states)) =
              TotalIn(transfer, CreditsIn(transfer, a, states))
                + Share(state \in states /\ CreditAccount(code, wallet) = a, amount)
<1>1. /\ id \in TransferId \ DOMAIN transfer
      /\ DOMAIN transfer' = DOMAIN transfer \cup {id}
      /\ transfer'[id] = [code |-> code, wallet |-> wallet, amount |-> amount, state |-> state]
      /\ \A t \in DOMAIN transfer : transfer'[t] = transfer[t]
  BY DEF LedgerTypeOK, FreshId, Create
<1>2. amount \in Int
  BY Amounts
<1>3. /\ \A t \in DOMAIN transfer : AmountIn(transfer')[t] = AmountIn(transfer)[t] /\ AmountIn(transfer)[t] \in Int
      /\ AmountIn(transfer')[id] = amount
  BY <1>1, Amounts DEF LedgerTypeOK, Transfer, AmountIn
<1>4. ASSUME NEW S \in SUBSET DOMAIN transfer
      PROVE  /\ SumFunctionOnSet(AmountIn(transfer'), S) = TotalIn(transfer, S)
             /\ SumFunctionOnSet(AmountIn(transfer'), S \cup {id}) = TotalIn(transfer, S) + amount
             /\ TotalIn(transfer, S) \in Int
  <2>1. IsFiniteSet(S) /\ TotalIn(transfer, S) \in Int
    BY TotalInt
  <2>2. \A t \in S : AmountIn(transfer)[t] = AmountIn(transfer')[t]
    BY <1>3
  <2>3. SumFunctionOnSet(AmountIn(transfer'), S) = SumFunctionOnSet(AmountIn(transfer), S)
    BY <2>1, <2>2, SumCongruent
  <2>4. id \notin S /\ \A t \in S \cup {id} : AmountIn(transfer')[t] \in Int
    BY <1>1, <1>2, <1>3
  <2>5. SumFunctionOnSet(AmountIn(transfer'), S \cup {id}) = SumFunctionOnSet(AmountIn(transfer'), S) + AmountIn(transfer')[id]
    BY <2>1, <2>4, SumAdd
  <2> QED BY <1>3, <2>1, <2>3, <2>5 DEF TotalIn, AmountIn
<1>5. ASSUME NEW S \in SUBSET DOMAIN transfer, NEW here \in BOOLEAN, NEW T,
             T = IF here THEN S \cup {id} ELSE S
      PROVE  SumFunctionOnSet(AmountIn(transfer'), T) = TotalIn(transfer, S) + Share(here, amount)
  BY <1>4, <1>5 DEF Share
<1>6. /\ DebitsIn(transfer, a, states) \in SUBSET DOMAIN transfer
      /\ DebitsIn(transfer', a, states) =
           IF state \in states /\ DebitAccount(code, wallet) = a
           THEN DebitsIn(transfer, a, states) \cup {id} ELSE DebitsIn(transfer, a, states)
  BY <1>1 DEF DebitsIn
<1>7. /\ CreditsIn(transfer, a, states) \in SUBSET DOMAIN transfer
      /\ CreditsIn(transfer', a, states) =
           IF state \in states /\ CreditAccount(code, wallet) = a
           THEN CreditsIn(transfer, a, states) \cup {id} ELSE CreditsIn(transfer, a, states)
  BY <1>1 DEF CreditsIn
<1>8. SumFunctionOnSet(AmountIn(transfer'), DebitsIn(transfer', a, states)) =
        TotalIn(transfer, DebitsIn(transfer, a, states))
          + Share(state \in states /\ DebitAccount(code, wallet) = a, amount)
  BY <1>5, <1>6
<1>9. SumFunctionOnSet(AmountIn(transfer'), CreditsIn(transfer', a, states)) =
        TotalIn(transfer, CreditsIn(transfer, a, states))
          + Share(state \in states /\ CreditAccount(code, wallet) = a, amount)
  BY <1>5, <1>7
<1>10. /\ TotalIn(transfer', DebitsIn(transfer', a, states)) = SumFunctionOnSet(AmountIn(transfer'), DebitsIn(transfer', a, states))
       /\ TotalIn(transfer', CreditsIn(transfer', a, states)) = SumFunctionOnSet(AmountIn(transfer'), CreditsIn(transfer', a, states))
  BY DEF TotalIn, AmountIn
<1> QED BY <1>8, <1>9, <1>10

Turns(id, state) == transfer' = [transfer EXCEPT ![id].state = state]

(* A resolved hold takes its amount from the totals of what is pending to     *)
(* those of its new state.                                                    *)
LEMMA ResolveTotals ==
  ASSUME LedgerTypeOK, IsFiniteSet(DOMAIN transfer),
         NEW id, NEW code, Resolvable(id, code), NEW state \in {"posted", "voided"},
         Turns(id, state),
         NEW amount, amount = transfer[id].amount,
         NEW debit, debit = DebitAccount(code, transfer[id].wallet),
         NEW credit, credit = CreditAccount(code, transfer[id].wallet),
         NEW a
  PROVE  /\ TotalIn(transfer', DebitsIn(transfer', a, {"pending"})) =
              TotalIn(transfer, DebitsIn(transfer, a, {"pending"})) - Share(debit = a, amount)
         /\ TotalIn(transfer', DebitsIn(transfer', a, {"posted", "single"})) =
              TotalIn(transfer, DebitsIn(transfer, a, {"posted", "single"}))
                + Share(state = "posted" /\ debit = a, amount)
         /\ TotalIn(transfer', CreditsIn(transfer', a, {"pending"})) =
              TotalIn(transfer, CreditsIn(transfer, a, {"pending"})) - Share(credit = a, amount)
         /\ TotalIn(transfer', CreditsIn(transfer', a, {"posted", "single"})) =
              TotalIn(transfer, CreditsIn(transfer, a, {"posted", "single"}))
                + Share(state = "posted" /\ credit = a, amount)
<1> DEFINE debited == debit = a
           credited == credit = a
<1>1. /\ id \in DOMAIN transfer
      /\ transfer[id] \in Transfer
      /\ amount \in Int
      /\ transfer[id].state = "pending"
      /\ transfer[id].code = code
  BY ResolvableFacts DEF Resolvable
<1>2. /\ DOMAIN transfer' = DOMAIN transfer
      /\ \A t \in DOMAIN transfer \ {id} : transfer'[t] = transfer[t]
      /\ transfer'[id] = [transfer[id] EXCEPT !.state = state]
  BY <1>1, ResolveFacts DEF Turns
<1>3. /\ transfer'[id].state = state
      /\ transfer'[id].code = code
      /\ transfer'[id].wallet = transfer[id].wallet
      /\ transfer'[id].amount = amount
  BY <1>1, <1>2 DEF Transfer
<1>4. AmountIn(transfer') = AmountIn(transfer)
  BY <1>1, <1>2, <1>3 DEF AmountIn
<1>5. ASSUME NEW S \in SUBSET DOMAIN transfer
      PROVE  /\ id \in S => SumFunctionOnSet(AmountIn(transfer'), S \ {id}) = TotalIn(transfer, S) - amount
             /\ id \notin S => SumFunctionOnSet(AmountIn(transfer'), S \cup {id}) = TotalIn(transfer, S) + amount
             /\ SumFunctionOnSet(AmountIn(transfer'), S) = TotalIn(transfer, S)
             /\ TotalIn(transfer, S) \in Int
  <2>1. IsFiniteSet(S) /\ TotalIn(transfer, S) \in Int
    BY TotalInt
  <2>2. \A t \in DOMAIN transfer : AmountIn(transfer)[t] \in Int
    BY Amounts DEF LedgerTypeOK, Transfer, AmountIn
  <2>3. AmountIn(transfer)[id] = amount /\ SumFunctionOnSet(AmountIn(transfer), S) = TotalIn(transfer, S)
    BY <1>1 DEF AmountIn, TotalIn
  <2>4. ASSUME id \in S PROVE SumFunctionOnSet(AmountIn(transfer), S \ {id}) = TotalIn(transfer, S) - amount
    <3>1. SumFunctionOnSet(AmountIn(transfer), S) = AmountIn(transfer)[id] + SumFunctionOnSet(AmountIn(transfer), S \ {id})
      BY <2>1, <2>2, <2>4, SumRemove
    <3>2. S \ {id} \in SUBSET DOMAIN transfer
      OBVIOUS
    <3>3. SumFunctionOnSet(AmountIn(transfer), S \ {id}) \in Int
      BY <3>2, TotalInt DEF TotalIn, AmountIn
    <3> QED BY <1>1, <2>1, <2>3, <3>1, <3>3
  <2>5. ASSUME id \notin S PROVE SumFunctionOnSet(AmountIn(transfer), S \cup {id}) = TotalIn(transfer, S) + amount
    <3>1. \A t \in S \cup {id} : AmountIn(transfer)[t] \in Int
      BY <1>1, <2>2
    <3>2. SumFunctionOnSet(AmountIn(transfer), S \cup {id}) = SumFunctionOnSet(AmountIn(transfer), S) + AmountIn(transfer)[id]
      BY <2>1, <2>5, <3>1, SumAdd
    <3> QED BY <2>3, <3>2
  <2> QED BY <1>4, <2>1, <2>3, <2>4, <2>5
<1> DEFINE Moved(D, D2, there, back) ==
             /\ D \in SUBSET DOMAIN transfer
             /\ D2 = IF there THEN D \cup {id} ELSE IF back THEN D \ {id} ELSE D
             /\ there => id \notin D
             /\ back => id \in D
<1>6. ASSUME NEW D, NEW D2, NEW there \in BOOLEAN, Moved(D, D2, there, FALSE)
      PROVE  SumFunctionOnSet(AmountIn(transfer'), D2) = TotalIn(transfer, D) + Share(there, amount)
  <2>1. D \in SUBSET DOMAIN transfer /\ TotalIn(transfer, D) \in Int
    BY <1>5, <1>6
  <2>2. CASE there
    BY <1>5, <1>6, <2>1, <2>2 DEF Share
  <2>3. CASE ~there
    <3>1. D2 = D /\ SumFunctionOnSet(AmountIn(transfer'), D) = TotalIn(transfer, D)
      BY <1>5, <1>6, <2>3
    <3>2. Share(there, amount) = 0
      BY <2>3 DEF Share
    <3> QED BY <2>1, <3>1, <3>2
  <2> QED BY <2>2, <2>3
<1>7. ASSUME NEW D, NEW D2, NEW back \in BOOLEAN, Moved(D, D2, FALSE, back)
      PROVE  SumFunctionOnSet(AmountIn(transfer'), D2) = TotalIn(transfer, D) - Share(back, amount)
  <2>1. D \in SUBSET DOMAIN transfer /\ TotalIn(transfer, D) \in Int
    BY <1>5, <1>7
  <2>2. CASE back
    BY <1>5, <1>7, <2>1, <2>2 DEF Share
  <2>3. CASE ~back
    <3>1. D2 = D /\ SumFunctionOnSet(AmountIn(transfer'), D) = TotalIn(transfer, D)
      BY <1>5, <1>7, <2>3
    <3>2. Share(back, amount) = 0
      BY <2>3 DEF Share
    <3> QED BY <2>1, <3>1, <3>2
  <2> QED BY <2>2, <2>3
<1>8. /\ Moved(DebitsIn(transfer, a, {"pending"}), DebitsIn(transfer', a, {"pending"}), FALSE, debited)
      /\ Moved(DebitsIn(transfer, a, {"posted", "single"}), DebitsIn(transfer', a, {"posted", "single"}),
               state = "posted" /\ debited, FALSE)
  <2>1. \A states : \A t \in DOMAIN transfer \ {id} :
          t \in DebitsIn(transfer', a, states) <=> t \in DebitsIn(transfer, a, states)
    BY <1>2 DEF DebitsIn
  <2>2. \A states : /\ id \in DebitsIn(transfer, a, states) <=> "pending" \in states /\ debited
                    /\ id \in DebitsIn(transfer', a, states) <=> state \in states /\ debited
    BY <1>1, <1>2, <1>3 DEF DebitsIn
  <2>3. \A states : /\ DebitsIn(transfer, a, states) \in SUBSET DOMAIN transfer
                    /\ DebitsIn(transfer', a, states) \in SUBSET DOMAIN transfer
    BY <1>2 DEF DebitsIn
  <2>4. DebitsIn(transfer', a, {"pending"}) =
          IF debited THEN DebitsIn(transfer, a, {"pending"}) \ {id} ELSE DebitsIn(transfer, a, {"pending"})
    <3>1. id \notin DebitsIn(transfer', a, {"pending"})
      BY <2>2
    <3>2. id \in DebitsIn(transfer, a, {"pending"}) <=> debited
      BY <2>2
    <3>3. CASE debited
      BY <2>1, <2>3, <3>1, <3>2, <3>3
    <3>4. CASE ~debited
      BY <2>1, <2>3, <3>1, <3>2, <3>4
    <3> QED BY <3>3, <3>4
  <2>5. DebitsIn(transfer', a, {"posted", "single"}) =
          IF state = "posted" /\ debited
          THEN DebitsIn(transfer, a, {"posted", "single"}) \cup {id}
          ELSE DebitsIn(transfer, a, {"posted", "single"})
    <3>1. id \in DebitsIn(transfer', a, {"posted", "single"}) <=> state = "posted" /\ debited
      BY <2>2
    <3>2. id \notin DebitsIn(transfer, a, {"posted", "single"})
      BY <2>2
    <3>3. CASE state = "posted" /\ debited
      BY <1>1, <2>1, <2>3, <3>1, <3>2, <3>3
    <3>4. CASE ~(state = "posted" /\ debited)
      BY <1>1, <2>1, <2>3, <3>1, <3>2, <3>4
    <3> QED BY <3>3, <3>4
  <2> QED BY <2>2, <2>3, <2>4, <2>5
<1>9. /\ Moved(CreditsIn(transfer, a, {"pending"}), CreditsIn(transfer', a, {"pending"}), FALSE, credited)
      /\ Moved(CreditsIn(transfer, a, {"posted", "single"}), CreditsIn(transfer', a, {"posted", "single"}),
               state = "posted" /\ credited, FALSE)
  <2>1. \A states : \A t \in DOMAIN transfer \ {id} :
          t \in CreditsIn(transfer', a, states) <=> t \in CreditsIn(transfer, a, states)
    BY <1>2 DEF CreditsIn
  <2>2. \A states : /\ id \in CreditsIn(transfer, a, states) <=> "pending" \in states /\ credited
                    /\ id \in CreditsIn(transfer', a, states) <=> state \in states /\ credited
    BY <1>1, <1>2, <1>3 DEF CreditsIn
  <2>3. \A states : /\ CreditsIn(transfer, a, states) \in SUBSET DOMAIN transfer
                    /\ CreditsIn(transfer', a, states) \in SUBSET DOMAIN transfer
    BY <1>2 DEF CreditsIn
  <2>4. CreditsIn(transfer', a, {"pending"}) =
          IF credited THEN CreditsIn(transfer, a, {"pending"}) \ {id} ELSE CreditsIn(transfer, a, {"pending"})
    <3>1. id \notin CreditsIn(transfer', a, {"pending"})
      BY <2>2
    <3>2. id \in CreditsIn(transfer, a, {"pending"}) <=> credited
      BY <2>2
    <3>3. CASE credited
      BY <2>1, <2>3, <3>1, <3>2, <3>3
    <3>4. CASE ~credited
      BY <2>1, <2>3, <3>1, <3>2, <3>4
    <3> QED BY <3>3, <3>4
  <2>5. CreditsIn(transfer', a, {"posted", "single"}) =
          IF state = "posted" /\ credited
          THEN CreditsIn(transfer, a, {"posted", "single"}) \cup {id}
          ELSE CreditsIn(transfer, a, {"posted", "single"})
    <3>1. id \in CreditsIn(transfer', a, {"posted", "single"}) <=> state = "posted" /\ credited
      BY <2>2
    <3>2. id \notin CreditsIn(transfer, a, {"posted", "single"})
      BY <2>2
    <3>3. CASE state = "posted" /\ credited
      BY <1>1, <2>1, <2>3, <3>1, <3>2, <3>3
    <3>4. CASE ~(state = "posted" /\ credited)
      BY <1>1, <2>1, <2>3, <3>1, <3>2, <3>4
    <3> QED BY <3>3, <3>4
  <2> QED BY <2>2, <2>3, <2>4, <2>5
<1>10. \A states : /\ TotalIn(transfer', DebitsIn(transfer', a, states)) = SumFunctionOnSet(AmountIn(transfer'), DebitsIn(transfer', a, states))
                   /\ TotalIn(transfer', CreditsIn(transfer', a, states)) = SumFunctionOnSet(AmountIn(transfer'), CreditsIn(transfer', a, states))
  BY DEF TotalIn, AmountIn
<1> HIDE DEF Moved
<1>11. /\ SumFunctionOnSet(AmountIn(transfer'), DebitsIn(transfer', a, {"pending"})) =
            TotalIn(transfer, DebitsIn(transfer, a, {"pending"})) - Share(debited, amount)
       /\ SumFunctionOnSet(AmountIn(transfer'), CreditsIn(transfer', a, {"pending"})) =
            TotalIn(transfer, CreditsIn(transfer, a, {"pending"})) - Share(credited, amount)
  BY <1>7, <1>8, <1>9
<1>12. /\ SumFunctionOnSet(AmountIn(transfer'), DebitsIn(transfer', a, {"posted", "single"})) =
            TotalIn(transfer, DebitsIn(transfer, a, {"posted", "single"})) + Share(state = "posted" /\ debited, amount)
       /\ SumFunctionOnSet(AmountIn(transfer'), CreditsIn(transfer', a, {"posted", "single"})) =
            TotalIn(transfer, CreditsIn(transfer, a, {"posted", "single"})) + Share(state = "posted" /\ credited, amount)
  BY <1>6, <1>8, <1>9
<1> QED BY <1>10, <1>11, <1>12

(* An account's counters are the sums of the transfers behind them. *)
Matches(acc, tr, a) ==
  /\ acc[a].debits_pending = TotalIn(tr, DebitsIn(tr, a, {"pending"}))
  /\ acc[a].debits_posted = TotalIn(tr, DebitsIn(tr, a, {"posted", "single"}))
  /\ acc[a].credits_pending = TotalIn(tr, CreditsIn(tr, a, {"pending"}))
  /\ acc[a].credits_posted = TotalIn(tr, CreditsIn(tr, a, {"posted", "single"}))

(* What the ledger's tables need for sums over them. *)
Counted ==
  /\ LedgerTypeOK
  /\ IsFiniteSet(DOMAIN transfer)
  /\ \A a \in Account : Matches(account, transfer, a)

LEMMA CreateFinite ==
  ASSUME LedgerTypeOK, IsFiniteSet(DOMAIN transfer),
         NEW id, NEW code, NEW wallet, NEW amount, NEW state,
         Create(id, code, wallet, amount, state)
  PROVE  IsFiniteSet(DOMAIN transfer')
<1>1. DOMAIN transfer' = DOMAIN transfer \cup {id}
  BY DEF Create
<1> QED BY <1>1, FS_AddElement

LEMMA HoldCounts ==
  ASSUME Counted, LedgerTypeOK', NEW id, NEW code \in Code, NEW wallet \in Wallet,
         NEW amount \in Amount, Hold(id, code, wallet, amount)
  PROVE  Counted'
<1> DEFINE debit == DebitAccount(code, wallet)
           credit == CreditAccount(code, wallet)
<1>1. /\ id \in FreshId
      /\ Create(id, code, wallet, amount, "pending")
      /\ account' = [account EXCEPT ![debit].debits_pending = @ + amount,
                                    ![credit].credits_pending = @ + amount]
  BY DEF Hold
<1>2. debit \in Account /\ credit \in Account /\ debit # credit /\ amount \in Int
  BY Sides, Amounts
<1>3. ASSUME NEW a \in Account PROVE Matches(account', transfer', a)
  <2>1. /\ TotalIn(transfer', DebitsIn(transfer', a, {"pending"})) =
             TotalIn(transfer, DebitsIn(transfer, a, {"pending"})) + Share(debit = a, amount)
        /\ TotalIn(transfer', DebitsIn(transfer', a, {"posted", "single"})) =
             TotalIn(transfer, DebitsIn(transfer, a, {"posted", "single"})) + Share(FALSE, amount)
        /\ TotalIn(transfer', CreditsIn(transfer', a, {"pending"})) =
             TotalIn(transfer, CreditsIn(transfer, a, {"pending"})) + Share(credit = a, amount)
        /\ TotalIn(transfer', CreditsIn(transfer', a, {"posted", "single"})) =
             TotalIn(transfer, CreditsIn(transfer, a, {"posted", "single"})) + Share(FALSE, amount)
    BY <1>1, CreateTotals DEF Counted, Share
  <2>2. account[a] \in Counters /\ Matches(account, transfer, a)
    BY DEF Counted, LedgerTypeOK
  <2>3. /\ account'[a].debits_pending = account[a].debits_pending + Share(debit = a, amount)
        /\ account'[a].debits_posted = account[a].debits_posted
        /\ account'[a].credits_pending = account[a].credits_pending + Share(credit = a, amount)
        /\ account'[a].credits_posted = account[a].credits_posted
    BY <1>1, <1>2, <2>2 DEF Counted, LedgerTypeOK, Counters, Share
  <2> HIDE DEF debit, credit
  <2> QED BY <2>1, <2>2, <2>3 DEF Matches, Counters, Share
<1>4. IsFiniteSet(DOMAIN transfer')
  BY <1>1, CreateFinite DEF Counted
<1> QED BY <1>3, <1>4 DEF Counted

LEMMA PostCounts ==
  ASSUME Counted, LedgerTypeOK', NEW id, NEW code \in Code, NEW wallet \in Wallet,
         NEW amount \in Amount, Post(id, code, wallet, amount)
  PROVE  Counted'
<1> DEFINE debit == DebitAccount(code, wallet)
           credit == CreditAccount(code, wallet)
<1>1. /\ id \in FreshId
      /\ Create(id, code, wallet, amount, "single")
      /\ account' = [account EXCEPT ![debit].debits_posted = @ + amount,
                                    ![credit].credits_posted = @ + amount]
  BY DEF Post
<1>2. debit \in Account /\ credit \in Account /\ debit # credit /\ amount \in Int
  BY Sides, Amounts
<1>3. ASSUME NEW a \in Account PROVE Matches(account', transfer', a)
  <2>1. /\ TotalIn(transfer', DebitsIn(transfer', a, {"pending"})) =
             TotalIn(transfer, DebitsIn(transfer, a, {"pending"})) + Share(FALSE, amount)
        /\ TotalIn(transfer', DebitsIn(transfer', a, {"posted", "single"})) =
             TotalIn(transfer, DebitsIn(transfer, a, {"posted", "single"})) + Share(debit = a, amount)
        /\ TotalIn(transfer', CreditsIn(transfer', a, {"pending"})) =
             TotalIn(transfer, CreditsIn(transfer, a, {"pending"})) + Share(FALSE, amount)
        /\ TotalIn(transfer', CreditsIn(transfer', a, {"posted", "single"})) =
             TotalIn(transfer, CreditsIn(transfer, a, {"posted", "single"})) + Share(credit = a, amount)
    BY <1>1, CreateTotals DEF Counted, Share
  <2>2. account[a] \in Counters /\ Matches(account, transfer, a)
    BY DEF Counted, LedgerTypeOK
  <2>3. /\ account'[a].debits_pending = account[a].debits_pending
        /\ account'[a].debits_posted = account[a].debits_posted + Share(debit = a, amount)
        /\ account'[a].credits_pending = account[a].credits_pending
        /\ account'[a].credits_posted = account[a].credits_posted + Share(credit = a, amount)
    BY <1>1, <1>2, <2>2 DEF Counted, LedgerTypeOK, Counters, Share
  <2> HIDE DEF debit, credit
  <2> QED BY <2>1, <2>2, <2>3 DEF Matches, Counters, Share
<1>4. IsFiniteSet(DOMAIN transfer')
  BY <1>1, CreateFinite DEF Counted
<1> QED BY <1>3, <1>4 DEF Counted

LEMMA SettleCounts ==
  ASSUME Counted, LedgerTypeOK', NEW id, NEW code, SettleHold(id, code)
  PROVE  Counted'
<1> DEFINE amount == transfer[id].amount
           debit == DebitAccount(code, transfer[id].wallet)
           credit == CreditAccount(code, transfer[id].wallet)
<1>1. /\ Resolvable(id, code)
      /\ transfer' = [transfer EXCEPT ![id].state = "posted"]
      /\ account' = [account EXCEPT ![debit].debits_pending = @ - amount,
                                    ![debit].debits_posted = @ + amount,
                                    ![credit].credits_pending = @ - amount,
                                    ![credit].credits_posted = @ + amount]
  BY DEF SettleHold
<1>2. debit \in Account /\ credit \in Account /\ debit # credit /\ amount \in Int
  BY <1>1, ResolvableFacts, Sides DEF Counted
<1>3. ASSUME NEW a \in Account PROVE Matches(account', transfer', a)
  <2>1. /\ TotalIn(transfer', DebitsIn(transfer', a, {"pending"})) =
             TotalIn(transfer, DebitsIn(transfer, a, {"pending"})) - Share(debit = a, amount)
        /\ TotalIn(transfer', DebitsIn(transfer', a, {"posted", "single"})) =
             TotalIn(transfer, DebitsIn(transfer, a, {"posted", "single"})) + Share(debit = a, amount)
        /\ TotalIn(transfer', CreditsIn(transfer', a, {"pending"})) =
             TotalIn(transfer, CreditsIn(transfer, a, {"pending"})) - Share(credit = a, amount)
        /\ TotalIn(transfer', CreditsIn(transfer', a, {"posted", "single"})) =
             TotalIn(transfer, CreditsIn(transfer, a, {"posted", "single"})) + Share(credit = a, amount)
    <3>1. LedgerTypeOK /\ IsFiniteSet(DOMAIN transfer)
      BY DEF Counted
    <3> HIDE DEF amount, debit, credit
    <3>2. /\ amount = transfer[id].amount
          /\ debit = DebitAccount(code, transfer[id].wallet)
          /\ credit = CreditAccount(code, transfer[id].wallet)
      BY DEF amount, debit, credit
    <3>3. /\ TotalIn(transfer', DebitsIn(transfer', a, {"pending"})) =
               TotalIn(transfer, DebitsIn(transfer, a, {"pending"})) - Share(debit = a, amount)
          /\ TotalIn(transfer', DebitsIn(transfer', a, {"posted", "single"})) =
               TotalIn(transfer, DebitsIn(transfer, a, {"posted", "single"}))
                 + Share("posted" = "posted" /\ debit = a, amount)
          /\ TotalIn(transfer', CreditsIn(transfer', a, {"pending"})) =
               TotalIn(transfer, CreditsIn(transfer, a, {"pending"})) - Share(credit = a, amount)
          /\ TotalIn(transfer', CreditsIn(transfer', a, {"posted", "single"})) =
               TotalIn(transfer, CreditsIn(transfer, a, {"posted", "single"}))
                 + Share("posted" = "posted" /\ credit = a, amount)
      <4>1. Resolvable(id, code) /\ Turns(id, "posted")
        BY <1>1 DEF Turns
      <4> QED BY <3>1, <3>2, <4>1, ResolveTotals
    <3> QED BY <3>3 DEF Share
  <2>2. account[a] \in Counters /\ Matches(account, transfer, a)
    BY DEF Counted, LedgerTypeOK
  <2>3. /\ account'[a].debits_pending = account[a].debits_pending - Share(debit = a, amount)
        /\ account'[a].debits_posted = account[a].debits_posted + Share(debit = a, amount)
        /\ account'[a].credits_pending = account[a].credits_pending - Share(credit = a, amount)
        /\ account'[a].credits_posted = account[a].credits_posted + Share(credit = a, amount)
    <3>1. account \in [Account -> Counters]
      BY DEF Counted, LedgerTypeOK
    <3> HIDE DEF amount, debit, credit
    <3>2. CASE a = debit
      BY <1>1, <1>2, <2>2, <3>1, <3>2 DEF Counters, Share
    <3>3. CASE a = credit
      BY <1>1, <1>2, <2>2, <3>1, <3>3 DEF Counters, Share
    <3>4. CASE a # debit /\ a # credit
      BY <1>1, <1>2, <2>2, <3>1, <3>4 DEF Counters, Share
    <3> QED BY <3>2, <3>3, <3>4
  <2> QED BY <2>1, <2>2, <2>3 DEF Matches
<1>4. DOMAIN transfer' = DOMAIN transfer
  BY <1>1
<1> QED BY <1>3, <1>4 DEF Counted

LEMMA VoidCounts ==
  ASSUME Counted, LedgerTypeOK', NEW id, NEW code, VoidHold(id, code)
  PROVE  Counted'
<1> DEFINE amount == transfer[id].amount
           debit == DebitAccount(code, transfer[id].wallet)
           credit == CreditAccount(code, transfer[id].wallet)
<1>1. /\ Resolvable(id, code)
      /\ transfer' = [transfer EXCEPT ![id].state = "voided"]
      /\ account' = [account EXCEPT ![debit].debits_pending = @ - amount,
                                    ![credit].credits_pending = @ - amount]
  BY DEF VoidHold
<1>2. debit \in Account /\ credit \in Account /\ debit # credit /\ amount \in Int
  BY <1>1, ResolvableFacts, Sides DEF Counted
<1>3. ASSUME NEW a \in Account PROVE Matches(account', transfer', a)
  <2>1. /\ TotalIn(transfer', DebitsIn(transfer', a, {"pending"})) =
             TotalIn(transfer, DebitsIn(transfer, a, {"pending"})) - Share(debit = a, amount)
        /\ TotalIn(transfer', DebitsIn(transfer', a, {"posted", "single"})) =
             TotalIn(transfer, DebitsIn(transfer, a, {"posted", "single"})) + Share(FALSE, amount)
        /\ TotalIn(transfer', CreditsIn(transfer', a, {"pending"})) =
             TotalIn(transfer, CreditsIn(transfer, a, {"pending"})) - Share(credit = a, amount)
        /\ TotalIn(transfer', CreditsIn(transfer', a, {"posted", "single"})) =
             TotalIn(transfer, CreditsIn(transfer, a, {"posted", "single"})) + Share(FALSE, amount)
    <3>1. LedgerTypeOK /\ IsFiniteSet(DOMAIN transfer)
      BY DEF Counted
    <3> HIDE DEF amount, debit, credit
    <3>2. /\ amount = transfer[id].amount
          /\ debit = DebitAccount(code, transfer[id].wallet)
          /\ credit = CreditAccount(code, transfer[id].wallet)
      BY DEF amount, debit, credit
    <3>3. /\ TotalIn(transfer', DebitsIn(transfer', a, {"pending"})) =
               TotalIn(transfer, DebitsIn(transfer, a, {"pending"})) - Share(debit = a, amount)
          /\ TotalIn(transfer', DebitsIn(transfer', a, {"posted", "single"})) =
               TotalIn(transfer, DebitsIn(transfer, a, {"posted", "single"}))
                 + Share("voided" = "posted" /\ debit = a, amount)
          /\ TotalIn(transfer', CreditsIn(transfer', a, {"pending"})) =
               TotalIn(transfer, CreditsIn(transfer, a, {"pending"})) - Share(credit = a, amount)
          /\ TotalIn(transfer', CreditsIn(transfer', a, {"posted", "single"})) =
               TotalIn(transfer, CreditsIn(transfer, a, {"posted", "single"}))
                 + Share("voided" = "posted" /\ credit = a, amount)
      <4>1. Resolvable(id, code) /\ Turns(id, "voided")
        BY <1>1 DEF Turns
      <4> QED BY <3>1, <3>2, <4>1, ResolveTotals
    <3> QED BY <3>3 DEF Share
  <2>2. account[a] \in Counters /\ Matches(account, transfer, a)
    BY DEF Counted, LedgerTypeOK
  <2>3. /\ account'[a].debits_pending = account[a].debits_pending - Share(debit = a, amount)
        /\ account'[a].debits_posted = account[a].debits_posted
        /\ account'[a].credits_pending = account[a].credits_pending - Share(credit = a, amount)
        /\ account'[a].credits_posted = account[a].credits_posted
    <3>1. account \in [Account -> Counters]
      BY DEF Counted, LedgerTypeOK
    <3> HIDE DEF amount, debit, credit
    <3>2. CASE a = debit
      BY <1>1, <1>2, <2>2, <3>1, <3>2 DEF Counters, Share
    <3>3. CASE a = credit
      BY <1>1, <1>2, <2>2, <3>1, <3>3 DEF Counters, Share
    <3>4. CASE a # debit /\ a # credit
      BY <1>1, <1>2, <2>2, <3>1, <3>4 DEF Counters, Share
    <3> QED BY <3>2, <3>3, <3>4
  <2> QED BY <2>1, <2>2, <2>3 DEF Matches, Counters, Share
<1>4. DOMAIN transfer' = DOMAIN transfer
  BY <1>1
<1> QED BY <1>3, <1>4 DEF Counted

----------------------------------------------------------------------------
(* Without a cut, what a handler takes in hand it brings to an end: a step     *)
(* strands nothing.                                                            *)

StrandsNothing == ClaimsStayBacked /\ RowsStayAwaited /\ HoldsStayNamed
Tidy == TasksAreEarned' /\ StrandsNothing

Kept(r) ==
  \A q \in DOMAIN handler \ {r} : q \in DOMAIN handler' /\ handler'[q] = handler[q]

Carries(h, t) == h.step \in {"insert", "update"} /\ NewHold(h) = t

LEMMA TasksKept ==
  ASSUME TasksAreEarned, NEW r,
         \A x \in DOMAIN row' : \/ /\ x \in DOMAIN row
                                   /\ row'[x].task = row[x].task
                                   /\ row'[x].type = row[x].type
                                \/ row'[x].task # NoTask => row'[x].type = EarnCode,
         \A q \in DOMAIN handler' \ {r} : q \in DOMAIN handler /\ handler'[q] = handler[q],
         r \in DOMAIN handler' => \/ handler'[r].tx.task # NoTask => handler'[r].tx.type = EarnCode
                                  \/ /\ r \in DOMAIN handler
                                     /\ handler'[r].tx.task = handler[r].tx.task
                                     /\ handler'[r].tx.type = handler[r].tx.type
  PROVE  TasksAreEarned'
<1>1. ASSUME NEW x \in DOMAIN row', row'[x].task # NoTask PROVE row'[x].type = EarnCode
  BY <1>1 DEF TasksAreEarned
<1>2. ASSUME NEW q \in DOMAIN handler', handler'[q].tx.task # NoTask
      PROVE  handler'[q].tx.type = EarnCode
  <2>1. CASE q = r
    BY <1>2, <2>1 DEF TasksAreEarned
  <2>2. CASE q # r
    BY <1>2, <2>2 DEF TasksAreEarned
  <2> QED BY <2>1, <2>2
<1> QED BY <1>1, <1>2 DEF TasksAreEarned

LEMMA ClaimsKept ==
  ASSUME NEW r, Kept(r),
         \A x \in DOMAIN row : /\ x \in DOMAIN row'
                               /\ row'[x].task = row[x].task
                               /\ row'[x].status = row[x].status,
         \A b \in Bounty : task'[b].claimed_by # Nobody =>
                             \/ task[b].claimed_by # Nobody
                             \/ r \in DOMAIN handler' /\ HasClaim(handler'[r], b),
         \A b \in Bounty : r \in DOMAIN handler /\ HasClaim(handler[r], b)
                             => r \in DOMAIN handler' /\ HasClaim(handler'[r], b)
  PROVE  ClaimsStayBacked
<1> SUFFICES ASSUME NEW b \in Bounty, ClaimIsBacked(b), task'[b].claimed_by # Nobody
             PROVE  \/ \E x \in DOMAIN row' : row'[x].task = b /\ row'[x].status # "voided"
                    \/ \E q \in DOMAIN handler' : HasClaim(handler'[q], b)
  BY DEF ClaimsStayBacked, ClaimIsBacked, LiveSubmissions, HasClaim
<1>1. CASE task[b].claimed_by # Nobody
  <2>1. \/ \E x \in DOMAIN row : row[x].task = b /\ row[x].status # "voided"
        \/ \E q \in DOMAIN handler : HasClaim(handler[q], b)
    BY <1>1 DEF ClaimIsBacked, LiveSubmissions, HasClaim
  <2> QED BY <2>1 DEF Kept
<1> QED BY <1>1

LEMMA AwaitsKept ==
  ASSUME RowsOwnTheirHolds, NEW r, Kept(r),
         \A x \in DOMAIN row' : row'[x].status = "pending" =>
           x \in DOMAIN row /\ row[x].status = "pending" /\ row'[x].hold = row[x].hold,
         \A t \in DOMAIN transfer : transfer'[t] = transfer[t],
         r \in DOMAIN handler /\ OwnsRow(handler[r]) =>
           r \in DOMAIN handler' /\ OwnsRow(handler'[r]) /\ handler'[r].id = handler[r].id
  PROVE  RowsStayAwaited
<1> SUFFICES ASSUME NEW x \in DOMAIN row', x \in DOMAIN row => RowAwaitsDecision(x),
                    row'[x].status = "pending"
             PROVE  \/ transfer'[row'[x].hold].state = "pending"
                    \/ \E q \in DOMAIN handler' : handler'[q].id = x /\ OwnsRow(handler'[q])
  BY DEF RowsStayAwaited, RowAwaitsDecision, OwnsRow
<1>1. \/ transfer[row[x].hold].state = "pending"
      \/ \E q \in DOMAIN handler : handler[q].id = x /\ OwnsRow(handler[q])
  BY DEF RowAwaitsDecision, OwnsRow
<1>2. row[x].hold \in DOMAIN transfer
  BY DEF RowsOwnTheirHolds
<1> QED BY <1>1, <1>2 DEF Kept

LEMMA NamedKept ==
  ASSUME NEW r, Kept(r),
         \A t \in DOMAIN transfer' : transfer'[t].state # "voided" =>
           \/ t \in DOMAIN transfer /\ transfer[t].state # "voided"
           \/ r \in DOMAIN handler' /\ Carries(handler'[r], t),
         \A x \in DOMAIN row : x \in DOMAIN row' /\ row'[x].hold = row[x].hold,
         \A t : r \in DOMAIN handler /\ Carries(handler[r], t)
                  => r \in DOMAIN handler' /\ Carries(handler'[r], t)
  PROVE  HoldsStayNamed
<1> SUFFICES ASSUME NEW t \in DOMAIN transfer', t \in DOMAIN transfer => HoldIsNamed(t),
                    transfer'[t].state # "voided"
             PROVE  \/ \E x \in DOMAIN row' : row'[x].hold = t
                    \/ \E q \in DOMAIN handler' : Carries(handler'[q], t)
  BY DEF HoldsStayNamed, HoldIsNamed, Carries, NewHold
<1>1. CASE t \in DOMAIN transfer /\ transfer[t].state # "voided"
  <2>1. \/ \E x \in DOMAIN row : row[x].hold = t
        \/ \E q \in DOMAIN handler : Carries(handler[q], t)
    BY <1>1 DEF HoldIsNamed, Carries, NewHold
  <2> QED BY <2>1 DEF Kept
<1> QED BY <1>1

(* A handler that starts has no claim, no hold and no row in hand. *)
LEMMA StartUncut ==
  ASSUME Inv, TasksAreEarned, NEW r, NEW h, Start(r, h),
         UNCHANGED <<account, transfer, row, task, faults>>,
         h.tx.task # NoTask => h.tx.type = EarnCode
  PROVE  Tidy
<1>1. /\ r \notin DOMAIN handler
      /\ DOMAIN handler' = DOMAIN handler \cup {r}
      /\ handler'[r] = h
      /\ \A q \in DOMAIN handler : handler'[q] = handler[q]
  BY StartFacts
<1>2. Kept(r)
  BY <1>1 DEF Kept
<1>3. TasksAreEarned'
  <2>1. /\ \A q \in DOMAIN handler' \ {r} : q \in DOMAIN handler /\ handler'[q] = handler[q]
        /\ handler'[r].tx.task # NoTask => handler'[r].tx.type = EarnCode
    BY <1>1
  <2> QED BY <2>1, TasksKept
<1>4. StrandsNothing
  <2>1. RowsOwnTheirHolds
    BY DEF Inv
  <2>2. ClaimsStayBacked
    BY <1>1, <1>2, <2>1, ClaimsKept
  <2>3. RowsStayAwaited
    BY <1>1, <1>2, <2>1, AwaitsKept
  <2>4. HoldsStayNamed
    BY <1>1, <1>2, <2>1, NamedKept
  <2> QED BY <2>2, <2>3, <2>4 DEF StrandsNothing
<1> QED BY <1>3, <1>4 DEF Tidy

LEMMA SubmitUncut ==
  ASSUME Inv, TasksAreEarned, NEW r \in Request, NEW w \in Wallet, Submit(r, w)
  PROVE  Tidy
<1>1. ASSUME NEW step, NEW type, NEW value, NEW t, Start(r, Submission(step, type, w, value, t)),
             UNCHANGED <<account, transfer, row, task, faults>>,
             t # NoTask => type = EarnCode
      PROVE  Tidy
  <2>1. /\ Submission(step, type, w, value, t).tx.task = t
        /\ Submission(step, type, w, value, t).tx.type = type
    BY DEF Submission
  <2> QED BY <1>1, <2>1, StartUncut
<1> QED BY <1>1 DEF Submit, CreateEarning, ProposeChore, CreateRedemption, CreateAdjustment

LEMMA ReviewUncut ==
  ASSUME Inv, TasksAreEarned, NEW r \in Request, NEW x \in DOMAIN row, Review(r, x)
  PROVE  Tidy
<1>1. ASSUME NEW step, NEW outcome, NEW amount, Start(r, Reading(step, x, outcome, amount)),
             UNCHANGED <<account, transfer, row, task, faults>>
      PROVE  Tidy
  <2>1. Reading(step, x, outcome, amount).tx = row[x]
    BY DEF Reading
  <2>2. row[x].task # NoTask => row[x].type = EarnCode
    BY DEF TasksAreEarned
  <2> QED BY <1>1, <2>1, <2>2, StartUncut
<1> QED BY <1>1 DEF Review, Decide, AdjustTransaction

(* A handler that ends with nothing in hand. *)
LEMMA FinishUncut ==
  ASSUME Inv, TasksAreEarned, NEW r \in DOMAIN handler, Finish(r),
         UNCHANGED <<account, transfer, row, task, faults>>,
         \A b \in Bounty : ~HasClaim(handler[r], b),
         ~OwnsRow(handler[r]), handler[r].step # "insert"
  PROVE  Tidy
<1>1. /\ DOMAIN handler' = DOMAIN handler \ {r}
      /\ \A q \in DOMAIN handler' : handler'[q] = handler[q]
  BY EndingFacts DEF Finish
<1>2. Kept(r)
  BY <1>1 DEF Kept
<1>3. TasksAreEarned'
  <2>1. /\ r \notin DOMAIN handler'
        /\ \A q \in DOMAIN handler' \ {r} : q \in DOMAIN handler /\ handler'[q] = handler[q]
    BY <1>1
  <2> QED BY <2>1, TasksKept
<1>4. StrandsNothing
  <2>1. RowsOwnTheirHolds
    BY DEF Inv
  <2>2. ClaimsStayBacked
    BY <1>2, <2>1, ClaimsKept
  <2>3. RowsStayAwaited
    BY <1>2, <2>1, AwaitsKept
  <2>4. \A t : ~Carries(handler[r], t)
    BY DEF Carries, OwnsRow
  <2>5. HoldsStayNamed
    BY <1>2, <2>1, <2>4, NamedKept
  <2> QED BY <2>2, <2>3, <2>5 DEF StrandsNothing
<1> QED BY <1>3, <1>4 DEF Tidy

LEMMA ClaimBountyUncut ==
  ASSUME Inv, TasksAreEarned, NEW r \in Request, ClaimBounty(r)
  PROVE  Tidy
<1> DEFINE b == handler[r].tx.task
<1>1. r \in DOMAIN handler /\ handler[r].step = "claim"
  BY DEF ClaimBounty, At
<1>2. CASE Finish(r) /\ UNCHANGED task
  <2>1. UNCHANGED <<account, transfer, row, task, faults>>
    BY <1>2 DEF ClaimBounty
  <2> QED BY <1>1, <1>2, <2>1, FinishUncut DEF HasClaim, OwnsRow
<1>3. CASE /\ task' = [task EXCEPT ![b].claimed_by = handler[r].tx.account]
           /\ Goto(r, "hold")
  <2>1. UNCHANGED <<account, transfer, row, faults>>
    BY DEF ClaimBounty
  <2>2. /\ DOMAIN handler' = DOMAIN handler
        /\ handler'[r].step = "hold" /\ handler'[r].tx = handler[r].tx
        /\ \A q \in DOMAIN handler \ {r} : handler'[q] = handler[q]
    BY <1>1, <1>3, GotoFacts DEF Inv, Step
  <2>3. Kept(r)
    BY <2>2 DEF Kept
  <2>4. TasksAreEarned'
    BY <2>1, <2>2, TasksKept
  <2>5. StrandsNothing
    <3>1. RowsOwnTheirHolds
      BY DEF Inv
    <3>2. \A c \in Bounty : task'[c].claimed_by # Nobody =>
            \/ task[c].claimed_by # Nobody
            \/ r \in DOMAIN handler' /\ HasClaim(handler'[r], c)
      BY <1>1, <1>3, <2>2, HoldsAssumption DEF HasClaim, Inv, TypeOK
    <3>3. \A c \in Bounty : ~HasClaim(handler[r], c)
      BY <1>1 DEF HasClaim
    <3>4. ClaimsStayBacked
      BY <2>1, <2>3, <3>1, <3>2, <3>3, ClaimsKept
    <3>5. RowsStayAwaited
      BY <1>1, <2>1, <2>3, <3>1, AwaitsKept DEF OwnsRow
    <3>6. HoldsStayNamed
      BY <1>1, <2>1, <2>3, <3>1, NamedKept DEF Carries
    <3> QED BY <3>4, <3>5, <3>6 DEF StrandsNothing
  <2> QED BY <2>1, <2>4, <2>5 DEF Tidy
<1> QED BY <1>2, <1>3 DEF ClaimBounty

Obtains(old, new, id) ==
  /\ new.tx.task = old.tx.task /\ new.tx.type = old.tx.type /\ new.id = old.id
  /\ \/ old.step \in {"hold", "post"} /\ new.step = "insert" /\ new.tx.hold = id
     \/ old.step = "rehold" /\ new.step = "update" /\ new.hold = id
  /\ old.step = "post" => old.tx.task \notin Bounty

(* The handler has obtained a transfer that its next step puts in a row. *)
LEMMA ObtainUncut ==
  ASSUME Inv, TasksAreEarned, NEW r \in DOMAIN handler, NEW id,
         Obtains(handler[r], handler'[r], id),
         DOMAIN handler' = DOMAIN handler,
         \A q \in DOMAIN handler \ {r} : handler'[q] = handler[q],
         UNCHANGED <<row, task, faults>>,
         DOMAIN transfer' = DOMAIN transfer \cup {id},
         \A t \in DOMAIN transfer : transfer'[t] = transfer[t]
  PROVE  Tidy
<1>1. Kept(r)
  BY DEF Kept
<1>2. TasksAreEarned'
  BY TasksKept DEF Obtains
<1>3. StrandsNothing
  <2>1. RowsOwnTheirHolds
    BY DEF Inv
  <2>2. ClaimsStayBacked
    <3>1. \A b \in Bounty : HasClaim(handler[r], b) => HasClaim(handler'[r], b)
      BY DEF HasClaim, Obtains
    <3> QED BY <1>1, <2>1, <3>1, ClaimsKept
  <2>3. RowsStayAwaited
    <3>1. OwnsRow(handler[r]) => OwnsRow(handler'[r]) /\ handler'[r].id = handler[r].id
      BY DEF OwnsRow, Obtains
    <3> QED BY <1>1, <2>1, <3>1, AwaitsKept
  <2>4. HoldsStayNamed
    <3>1. Carries(handler'[r], id) /\ \A t : ~Carries(handler[r], t)
      BY DEF Carries, NewHold, Obtains
    <3> QED BY <1>1, <2>1, <3>1, NamedKept
  <2> QED BY <2>2, <2>3, <2>4 DEF StrandsNothing
<1> QED BY <1>2, <1>3 DEF Tidy

LEMMA PlaceHoldUncut ==
  ASSUME Inv, TasksAreEarned, NEW r \in Request, PlaceHold(r)
  PROVE  Tidy
<1> DEFINE tx == handler[r].tx
<1>1. r \in DOMAIN handler /\ handler[r].step = "hold" /\ handler[r] \in Handler
  BY DEF PlaceHold, At, Inv, TypeOK
<1>2. tx \in Transaction /\ tx.type \in Code /\ tx.account \in Wallet /\ tx.amount \in Amount
  BY <1>1 DEF Handler, Transaction
<1>3. UNCHANGED <<row, task, faults>>
  BY DEF PlaceHold
<1>4. CASE ~Funded(DebitAccount(tx.type, tx.account), tx.amount) /\ Finish(r) /\ UNCHANGED ledgerVars
  <2>1. tx.type # EarnCode
    <3>1. tx.type = EarnCode => DebitAccount(tx.type, tx.account) \notin Wallet
      BY <1>2, Sides DEF Mints
    <3> QED BY <1>4, <3>1 DEF Funded
  <2>2. tx.task \notin Bounty
    BY <1>1, <2>1, HoldsAssumption DEF TasksAreEarned
  <2>3. UNCHANGED <<account, transfer, row, task, faults>>
    BY <1>3, <1>4 DEF ledgerVars
  <2> QED BY <1>1, <1>4, <2>2, <2>3, FinishUncut DEF HasClaim, OwnsRow
<1>5. ASSUME NEW id \in FreshId, Hold(id, tx.type, tx.account, tx.amount),
             handler' = [handler EXCEPT ![r].step = "insert", ![r].tx.hold = id]
      PROVE  Tidy
  <2>1. /\ DOMAIN transfer' = DOMAIN transfer \cup {id}
        /\ \A t \in DOMAIN transfer : transfer'[t] = transfer[t]
    BY <1>2, <1>5, CreateFacts DEF Hold, Inv, TypeOK
  <2>2. /\ DOMAIN handler' = DOMAIN handler
        /\ \A q \in DOMAIN handler \ {r} : handler'[q] = handler[q]
        /\ handler'[r] = [handler[r] EXCEPT !.step = "insert", !.tx = [tx EXCEPT !.hold = id]]
    BY <1>1, <1>5
  <2>3. /\ handler'[r].step = "insert" /\ handler'[r].id = handler[r].id
        /\ handler'[r].tx = [tx EXCEPT !.hold = id]
    BY <1>1, <2>2 DEF Handler
  <2>4. /\ handler'[r].tx.hold = id /\ handler'[r].tx.task = tx.task
        /\ handler'[r].tx.type = tx.type
    BY <1>2, <2>3 DEF Transaction
  <2>5. Obtains(handler[r], handler'[r], id)
    BY <1>1, <1>3, <2>3, <2>4 DEF Obtains
  <2> QED BY <1>1, <1>3, <2>1, <2>2, <2>5, ObtainUncut
<1> QED BY <1>4, <1>5 DEF PlaceHold

LEMMA PostAdjustmentUncut ==
  ASSUME Inv, TasksAreEarned, NEW r \in Request, PostAdjustment(r)
  PROVE  Tidy
<1> DEFINE tx == handler[r].tx
<1>1. r \in DOMAIN handler /\ handler[r].step = "post" /\ handler[r] \in Handler
  BY DEF PostAdjustment, At, Inv, TypeOK
<1>2. tx \in Transaction /\ tx.type \in Code /\ tx.account \in Wallet /\ tx.amount \in Amount
  BY <1>1 DEF Handler, Transaction
<1>3. UNCHANGED <<row, task, faults>> /\ tx.task \notin Bounty
  BY <1>1, HoldsAssumption DEF PostAdjustment, Inv, HandlersInv, Submitting
<1>4. CASE Finish(r) /\ UNCHANGED ledgerVars
  <2>1. UNCHANGED <<account, transfer, row, task, faults>>
    BY <1>3, <1>4 DEF ledgerVars
  <2> QED BY <1>1, <1>4, <2>1, FinishUncut DEF HasClaim, OwnsRow
<1>5. ASSUME NEW id \in FreshId, Post(id, tx.type, tx.account, tx.amount),
             handler' = [handler EXCEPT ![r].step = "insert", ![r].tx.hold = id,
                                        ![r].tx.status = "settled"]
      PROVE  Tidy
  <2>1. /\ DOMAIN transfer' = DOMAIN transfer \cup {id}
        /\ \A t \in DOMAIN transfer : transfer'[t] = transfer[t]
    BY <1>2, <1>5, CreateFacts DEF Post, Inv, TypeOK
  <2>2. /\ DOMAIN handler' = DOMAIN handler
        /\ \A q \in DOMAIN handler \ {r} : handler'[q] = handler[q]
        /\ handler'[r] = [handler[r] EXCEPT !.step = "insert",
                                            !.tx = [tx EXCEPT !.hold = id, !.status = "settled"]]
    BY <1>1, <1>5
  <2>3. /\ handler'[r].step = "insert" /\ handler'[r].id = handler[r].id
        /\ handler'[r].tx = [tx EXCEPT !.hold = id, !.status = "settled"]
    BY <1>1, <2>2 DEF Handler
  <2>4. /\ handler'[r].tx.hold = id /\ handler'[r].tx.task = tx.task
        /\ handler'[r].tx.type = tx.type
    BY <1>2, <2>3 DEF Transaction
  <2>5. Obtains(handler[r], handler'[r], id)
    BY <1>1, <1>3, <2>3, <2>4 DEF Obtains
  <2> QED BY <1>1, <1>3, <2>1, <2>2, <2>5, ObtainUncut
<1> QED BY <1>4, <1>5 DEF PostAdjustment

LEMMA PlaceAdjustedHoldUncut ==
  ASSUME Inv, TasksAreEarned, NEW r \in Request, PlaceAdjustedHold(r)
  PROVE  Tidy
<1> DEFINE h == handler[r]
<1>1. r \in DOMAIN handler /\ h.step = "rehold" /\ h \in Handler
  BY DEF PlaceAdjustedHold, At, Inv, TypeOK
<1>2. h.tx \in Transaction /\ h.tx.account \in Wallet /\ h.amount \in Amount /\ EarnCode \in Code
  BY <1>1 DEF Handler, Transaction, Code
<1>3. PICK id \in FreshId :
        /\ Hold(id, EarnCode, h.tx.account, h.amount)
        /\ handler' = [handler EXCEPT ![r].step = "update", ![r].hold = id]
  BY DEF PlaceAdjustedHold
<1>4. UNCHANGED <<row, task, faults>>
  BY DEF PlaceAdjustedHold
<1>5. /\ DOMAIN transfer' = DOMAIN transfer \cup {id}
      /\ \A t \in DOMAIN transfer : transfer'[t] = transfer[t]
  BY <1>2, <1>3, CreateFacts DEF Hold, Inv, TypeOK
<1>6. /\ DOMAIN handler' = DOMAIN handler
      /\ \A q \in DOMAIN handler \ {r} : handler'[q] = handler[q]
      /\ handler'[r] = [h EXCEPT !.step = "update", !.hold = id]
  BY <1>1, <1>3
<1>7. /\ handler'[r].step = "update" /\ handler'[r].hold = id
      /\ handler'[r].id = h.id /\ handler'[r].tx = h.tx
  BY <1>1, <1>6 DEF Handler
<1>8. Obtains(handler[r], handler'[r], id)
  BY <1>1, <1>7 DEF Obtains
<1> QED BY <1>1, <1>4, <1>5, <1>6, <1>8, ObtainUncut

LEMMA CreateTransactionUncut ==
  ASSUME Inv, TasksAreEarned, NEW r \in Request, CreateTransaction(r)
  PROVE  Tidy
<1> DEFINE tx == handler[r].tx
<1>1. r \in DOMAIN handler /\ handler[r].step = "insert"
  BY DEF CreateTransaction, At
<1>2. /\ tx.status \in {"pending", "settled"}
      /\ tx.status = "pending" => transfer[tx.hold].state = "pending"
  BY <1>1 DEF Inv, HandlersInv, Submitting
<1>3. PICK x \in FreshRow :
        row' = [y \in DOMAIN row \cup {x} |-> IF y = x THEN tx ELSE row[y]]
  BY DEF CreateTransaction
<1>4. /\ x \notin DOMAIN row
      /\ DOMAIN row' = DOMAIN row \cup {x}
      /\ row'[x] = tx
      /\ \A y \in DOMAIN row : row'[y] = row[y]
  BY <1>3 DEF FreshRow
<1>5. /\ DOMAIN handler' = DOMAIN handler \ {r}
      /\ \A q \in DOMAIN handler' : handler'[q] = handler[q]
  BY EndingFacts DEF CreateTransaction, Finish
<1>6. UNCHANGED <<account, transfer, task, faults>>
  BY DEF CreateTransaction
<1>7. TasksAreEarned'
  <2>1. row'[x].task # NoTask => row'[x].type = EarnCode
    BY <1>1, <1>4 DEF TasksAreEarned
  <2> QED BY <1>4, <1>5, <2>1, TasksKept
<1>8. StrandsNothing
  <2>2. ClaimsStayBacked
    <3> SUFFICES ASSUME NEW b \in Bounty, ClaimIsBacked(b), task'[b].claimed_by # Nobody
                 PROVE  \/ \E y \in DOMAIN row' : row'[y].task = b /\ row'[y].status # "voided"
                        \/ \E q \in DOMAIN handler' : HasClaim(handler'[q], b)
      BY DEF ClaimsStayBacked, ClaimIsBacked, LiveSubmissions, HasClaim
    <3>1. \/ \E y \in DOMAIN row : row[y].task = b /\ row[y].status # "voided"
          \/ \E q \in DOMAIN handler : HasClaim(handler[q], b)
      BY <1>6 DEF ClaimIsBacked, LiveSubmissions, HasClaim
    <3>2. HasClaim(handler[r], b) => row'[x].task = b /\ row'[x].status # "voided"
      BY <1>2, <1>4 DEF HasClaim
    <3> QED BY <1>4, <1>5, <3>1, <3>2
  <2>3. RowsStayAwaited
    <3> SUFFICES ASSUME NEW y \in DOMAIN row', y \in DOMAIN row => RowAwaitsDecision(y),
                        row'[y].status = "pending"
                 PROVE  \/ transfer'[row'[y].hold].state = "pending"
                        \/ \E q \in DOMAIN handler' : handler'[q].id = y /\ OwnsRow(handler'[q])
      BY DEF RowsStayAwaited, RowAwaitsDecision, OwnsRow
    <3>1. CASE y = x
      BY <1>2, <1>4, <1>6, <3>1
    <3>2. CASE y # x
      <4>1. \/ transfer[row[y].hold].state = "pending"
            \/ \E q \in DOMAIN handler : handler[q].id = y /\ OwnsRow(handler[q])
        BY <1>4, <3>2 DEF RowAwaitsDecision, OwnsRow
      <4>2. ~OwnsRow(handler[r])
        BY <1>1 DEF OwnsRow
      <4> QED BY <1>4, <1>5, <1>6, <3>2, <4>1, <4>2
    <3> QED BY <3>1, <3>2
  <2>4. HoldsStayNamed
    <3> SUFFICES ASSUME NEW t \in DOMAIN transfer', t \in DOMAIN transfer => HoldIsNamed(t),
                        transfer'[t].state # "voided"
                 PROVE  \/ \E y \in DOMAIN row' : row'[y].hold = t
                        \/ \E q \in DOMAIN handler' : Carries(handler'[q], t)
      BY DEF HoldsStayNamed, HoldIsNamed, Carries, NewHold
    <3>1. \/ \E y \in DOMAIN row : row[y].hold = t
          \/ \E q \in DOMAIN handler : Carries(handler[q], t)
      BY <1>6 DEF HoldIsNamed, Carries, NewHold
    <3>2. Carries(handler[r], t) => row'[x].hold = t
      BY <1>1, <1>4 DEF Carries, NewHold
    <3> QED BY <1>4, <1>5, <3>1, <3>2
  <2> QED BY <2>2, <2>3, <2>4 DEF StrandsNothing
<1> QED BY <1>6, <1>7, <1>8 DEF Tidy

(* A handler that has resolved its row's hold has that row in hand. *)
LEMMA ResolveUncut ==
  ASSUME Inv, TasksAreEarned, NEW r \in DOMAIN handler, NEW id, NEW code, NEW state \in {"posted", "voided"},
         id = handler[r].tx.hold,
         handler[r].step \in {"resolve", "void"},
         Resolvable(id, code), Turns(id, state),
         UNCHANGED <<row, task, faults>>,
         NEW step \in {"record", "rehold"}, Goto(r, step)
  PROVE  Tidy
<1>1. /\ DOMAIN handler' = DOMAIN handler
      /\ handler'[r].step = step
      /\ handler'[r].tx = handler[r].tx
      /\ handler'[r].id = handler[r].id
      /\ \A q \in DOMAIN handler \ {r} : handler'[q] = handler[q]
  BY GotoFacts DEF Inv, Step
<1>2. /\ Kept(r)
      /\ \A b \in Bounty : ~HasClaim(handler[r], b)
      /\ \A t : ~Carries(handler[r], t)
      /\ ~OwnsRow(handler[r])
  BY <1>1 DEF Kept, HasClaim, Carries, OwnsRow
<1>3. /\ id \in DOMAIN transfer
      /\ transfer[id].state = "pending"
      /\ DOMAIN transfer' = DOMAIN transfer
      /\ \A t \in DOMAIN transfer \ {id} : transfer'[t] = transfer[t]
  BY DEF Resolvable, Turns
<1>4. TasksAreEarned'
  BY <1>1, TasksKept
<1>5. StrandsNothing
  <2>1. RowsOwnTheirHolds
    BY DEF Inv
  <2>2. ClaimsStayBacked
    BY <1>2, <2>1, ClaimsKept
  <2>3. RowsStayAwaited
    <3> SUFFICES ASSUME NEW x \in DOMAIN row, RowAwaitsDecision(x),
                        row[x].status = "pending"
                 PROVE  \/ transfer'[row[x].hold].state = "pending"
                        \/ \E q \in DOMAIN handler' : handler'[q].id = x /\ OwnsRow(handler'[q])
      BY DEF RowsStayAwaited, RowAwaitsDecision, OwnsRow
    <3>1. CASE row[x].hold = id
      <4>1. handler[r].id \in DOMAIN row /\ row[handler[r].id].hold = id
        BY <1>3 DEF Inv, HandlersInv, Resolving, Reviews
      <4>2. handler[r].id = x
        BY <2>1, <3>1, <4>1 DEF RowsOwnTheirHolds
      <4>3. handler'[r].id = x /\ OwnsRow(handler'[r])
        BY <1>1, <4>2 DEF OwnsRow
      <4> QED BY <1>1, <4>3
    <3>2. CASE row[x].hold # id
      <4>1. row[x].hold \in DOMAIN transfer
        BY <2>1 DEF RowsOwnTheirHolds
      <4>2. \/ transfer[row[x].hold].state = "pending"
            \/ \E q \in DOMAIN handler : handler[q].id = x /\ OwnsRow(handler[q])
        BY <2>1 DEF RowAwaitsDecision, OwnsRow
      <4> QED BY <1>1, <1>2, <1>3, <3>2, <4>1, <4>2
    <3> QED BY <3>1, <3>2
  <2>4. HoldsStayNamed
    <3>1. \A t \in DOMAIN transfer' : t \in DOMAIN transfer
            /\ (transfer'[t].state # "voided" => transfer[t].state # "voided")
      BY <1>3
    <3> QED BY <1>2, <2>1, <3>1, NamedKept
  <2> QED BY <2>2, <2>3, <2>4 DEF StrandsNothing
<1> QED BY <1>4, <1>5 DEF Tidy

LEMMA ResolveHoldUncut ==
  ASSUME Inv, TasksAreEarned, NEW r \in Request, ResolveHold(r)
  PROVE  Tidy
<1> DEFINE id == handler[r].tx.hold
           code == CodeFor(handler[r].tx.type)
<1>1. r \in DOMAIN handler /\ handler[r].step = "resolve" /\ UNCHANGED <<row, task, faults>>
  BY DEF ResolveHold, At
<1>2. CASE Finish(r) /\ UNCHANGED ledgerVars
  <2>1. UNCHANGED <<account, transfer, row, task, faults>>
    BY <1>1, <1>2 DEF ledgerVars
  <2> QED BY <1>1, <1>2, <2>1, FinishUncut DEF HasClaim, OwnsRow
<1>3. CASE SettleHold(id, code) /\ Goto(r, "record")
  <2>1. Resolvable(id, code) /\ Turns(id, "posted")
    BY <1>3 DEF SettleHold, Turns
  <2> QED BY <1>1, <1>3, <2>1, ResolveUncut
<1>4. CASE VoidHold(id, code) /\ Goto(r, "record")
  <2>1. Resolvable(id, code) /\ Turns(id, "voided")
    BY <1>4 DEF VoidHold, Turns
  <2> QED BY <1>1, <1>4, <2>1, ResolveUncut
<1> QED BY <1>2, <1>3, <1>4 DEF ResolveHold

LEMMA VoidPriorHoldUncut ==
  ASSUME Inv, TasksAreEarned, NEW r \in Request, VoidPriorHold(r)
  PROVE  Tidy
<1> DEFINE id == handler[r].tx.hold
           code == CodeFor(handler[r].tx.type)
<1>1. r \in DOMAIN handler /\ handler[r].step = "void" /\ UNCHANGED <<row, task, faults>>
  BY DEF VoidPriorHold, At
<1>2. CASE Finish(r) /\ UNCHANGED ledgerVars
  <2>1. UNCHANGED <<account, transfer, row, task, faults>>
    BY <1>1, <1>2 DEF ledgerVars
  <2> QED BY <1>1, <1>2, <2>1, FinishUncut DEF HasClaim, OwnsRow
<1>3. CASE VoidHold(id, code) /\ Goto(r, "rehold")
  <2>1. Resolvable(id, code) /\ Turns(id, "voided")
    BY <1>3 DEF VoidHold, Turns
  <2> QED BY <1>1, <1>3, <2>1, ResolveUncut
<1> QED BY <1>2, <1>3 DEF VoidPriorHold

LEMMA DecideTransactionUncut ==
  ASSUME Inv, TasksAreEarned, NEW r \in Request, DecideTransaction(r)
  PROVE  Tidy
<1> DEFINE h == handler[r]
           x == h.id
           releases == h.outcome = "voided" /\ h.tx.type = EarnCode /\ h.tx.task \in Bounty
<1>1. r \in DOMAIN handler /\ h.step = "record" /\ h \in Handler
  BY DEF DecideTransaction, At, Inv, TypeOK
<1>2. /\ Reviews(h)
      /\ row[x].status = "pending"
  BY <1>1 DEF Inv, HandlersInv, Recording, OwnsRow
<1>3. /\ x \in DOMAIN row /\ row[x] \in Transaction
      /\ h.tx.task = row[x].task /\ h.tx.type = row[x].type
      /\ h.outcome \in {"settled", "voided"}
  BY <1>1, <1>2 DEF Reviews, Handler, Inv, TypeOK
<1>4. /\ row' = [row EXCEPT ![x].status = h.outcome]
      /\ UNCHANGED <<account, transfer, task, faults>>
      /\ IF releases THEN Goto(r, "release") ELSE Finish(r)
  BY <1>2 DEF DecideTransaction
<1>5. /\ DOMAIN row' = DOMAIN row
      /\ \A y \in DOMAIN row \ {x} : row'[y] = row[y]
      /\ row'[x].status = h.outcome
      /\ row'[x].hold = row[x].hold /\ row'[x].task = row[x].task /\ row'[x].type = row[x].type
  BY <1>3, <1>4 DEF Transaction
<1>6. /\ DOMAIN handler' \subseteq DOMAIN handler
      /\ Kept(r)
      /\ r \in DOMAIN handler' <=> releases
      /\ r \in DOMAIN handler' => handler'[r].step = "release" /\ handler'[r].tx = h.tx
  <2>1. CASE releases
    BY <1>1, <1>4, <2>1, GotoFacts DEF Inv, Step, Kept
  <2>2. CASE ~releases
    BY <1>4, <2>2, EndingFacts DEF Finish, Kept
  <2> QED BY <2>1, <2>2
<1>7. TasksAreEarned'
  BY <1>1, <1>5, <1>6, TasksKept DEF Kept
<1>8. StrandsNothing
  <2>2. ClaimsStayBacked
    <3> SUFFICES ASSUME NEW b \in Bounty, ClaimIsBacked(b), task'[b].claimed_by # Nobody
                 PROVE  \/ \E y \in DOMAIN row' : row'[y].task = b /\ row'[y].status # "voided"
                        \/ \E q \in DOMAIN handler' : HasClaim(handler'[q], b)
      BY DEF ClaimsStayBacked, ClaimIsBacked, LiveSubmissions, HasClaim
    <3>1. \/ \E y \in DOMAIN row : row[y].task = b /\ row[y].status # "voided"
          \/ \E q \in DOMAIN handler : HasClaim(handler[q], b)
      BY <1>4 DEF ClaimIsBacked, LiveSubmissions, HasClaim
    <3>2. CASE row[x].task = b
      <4>1. b # NoTask
        BY HoldsAssumption
      <4>2. CASE h.outcome = "settled"
        BY <1>3, <1>5, <3>2, <4>2
      <4>3. CASE h.outcome = "voided"
        <5>1. releases
          BY <1>3, <3>2, <4>1, <4>3 DEF TasksAreEarned
        <5>2. HasClaim(handler'[r], b)
          BY <1>3, <1>6, <3>2, <5>1 DEF HasClaim
        <5> QED BY <1>6, <5>1, <5>2
      <4> QED BY <1>3, <4>2, <4>3
    <3>3. CASE row[x].task # b
      <4>1. ~HasClaim(h, b)
        BY <1>1 DEF HasClaim
      <4> QED BY <1>5, <1>6, <3>1, <3>3, <4>1 DEF Kept
    <3> QED BY <3>2, <3>3
  <2>3. RowsStayAwaited
    <3> SUFFICES ASSUME NEW y \in DOMAIN row', y \in DOMAIN row => RowAwaitsDecision(y),
                        row'[y].status = "pending"
                 PROVE  \/ transfer'[row'[y].hold].state = "pending"
                        \/ \E q \in DOMAIN handler' : handler'[q].id = y /\ OwnsRow(handler'[q])
      BY DEF RowsStayAwaited, RowAwaitsDecision, OwnsRow
    <3>1. y # x /\ row'[y] = row[y] /\ y \in DOMAIN row
      BY <1>3, <1>5
    <3>2. \/ transfer[row[y].hold].state = "pending"
          \/ \E q \in DOMAIN handler : handler[q].id = y /\ OwnsRow(handler[q])
      BY <3>1 DEF RowAwaitsDecision, OwnsRow
    <3> QED BY <1>4, <1>6, <3>1, <3>2 DEF Kept
  <2>4. HoldsStayNamed
    <3>1. \A y \in DOMAIN row : y \in DOMAIN row' /\ row'[y].hold = row[y].hold
      BY <1>5
    <3>2. \A t : ~Carries(h, t)
      BY <1>1 DEF Carries
    <3> QED BY <1>4, <1>6, <3>1, <3>2, NamedKept
  <2> QED BY <2>2, <2>3, <2>4 DEF StrandsNothing
<1> QED BY <1>4, <1>7, <1>8 DEF Tidy

LEMMA ReleaseUncut ==
  ASSUME Inv, TasksAreEarned, NEW r \in Request, ReleaseBountyClaim(r)
  PROVE  Tidy
<1> DEFINE b == handler[r].tx.task
<1>1. r \in DOMAIN handler /\ handler[r].step = "release"
  BY DEF ReleaseBountyClaim, At
<1>2. b \in Task
  BY <1>1, HoldsAssumption DEF Inv, HandlersInv, Releasing
<1>3. /\ task'[b].claimed_by = Nobody
      /\ \A c \in Task \ {b} : task'[c] = task[c]
      /\ UNCHANGED <<account, transfer, row, faults>>
  BY <1>2 DEF ReleaseBountyClaim, Inv, TypeOK, TaskRow
<1>4. /\ DOMAIN handler' = DOMAIN handler \ {r}
      /\ \A q \in DOMAIN handler' : handler'[q] = handler[q]
  BY EndingFacts DEF ReleaseBountyClaim, Finish
<1>5. Kept(r) /\ ~OwnsRow(handler[r]) /\ \A t : ~Carries(handler[r], t)
  BY <1>1, <1>4 DEF Kept, OwnsRow, Carries
<1>6. TasksAreEarned'
  BY <1>3, <1>4, TasksKept
<1>7. StrandsNothing
  <2>1. RowsOwnTheirHolds
    BY DEF Inv
  <2>2. ClaimsStayBacked
    <3> SUFFICES ASSUME NEW c \in Bounty, ClaimIsBacked(c), task'[c].claimed_by # Nobody
                 PROVE  \/ \E y \in DOMAIN row' : row'[y].task = c /\ row'[y].status # "voided"
                        \/ \E q \in DOMAIN handler' : HasClaim(handler'[q], c)
      BY DEF ClaimsStayBacked, ClaimIsBacked, LiveSubmissions, HasClaim
    <3>1. c # b /\ c \in Task /\ task[c].claimed_by # Nobody
      BY <1>3, HoldsAssumption
    <3>2. \/ \E y \in DOMAIN row : row[y].task = c /\ row[y].status # "voided"
          \/ \E q \in DOMAIN handler : HasClaim(handler[q], c)
      BY <2>1, <3>1 DEF ClaimIsBacked, LiveSubmissions, HasClaim
    <3>3. ~HasClaim(handler[r], c)
      BY <3>1 DEF HasClaim
    <3> QED BY <1>3, <1>5, <3>2, <3>3 DEF Kept
  <2>3. RowsStayAwaited
    BY <1>3, <1>5, <2>1, AwaitsKept
  <2>4. HoldsStayNamed
    BY <1>3, <1>5, <2>1, NamedKept
  <2> QED BY <2>2, <2>3, <2>4 DEF StrandsNothing
<1> QED BY <1>3, <1>6, <1>7 DEF Tidy

LEMMA AdjustAmountUncut ==
  ASSUME Inv, TasksAreEarned, NEW r \in Request, AdjustTransactionAmount(r)
  PROVE  Tidy
<1> DEFINE h == handler[r]
           x == h.id
<1>1. r \in DOMAIN handler /\ h.step = "update"
  BY DEF AdjustTransactionAmount, At
<1>2. /\ x \in DOMAIN row /\ row[x] \in Transaction
      /\ row[x].hold = h.tx.hold /\ row[x].status = "pending"
      /\ transfer[h.tx.hold].state = "voided"
      /\ transfer[h.hold].state = "pending"
  BY <1>1 DEF Inv, HandlersInv, Recording, OwnsRow, Reviews, TypeOK
<1>3. /\ row' = [row EXCEPT ![x].amount = h.amount, ![x].hold = h.hold]
      /\ UNCHANGED <<account, transfer, task, faults>>
      /\ Finish(r)
  BY <1>2 DEF AdjustTransactionAmount
<1>4. /\ DOMAIN row' = DOMAIN row
      /\ \A y \in DOMAIN row \ {x} : row'[y] = row[y]
      /\ row'[x].hold = h.hold /\ row'[x].status = row[x].status
      /\ row'[x].task = row[x].task /\ row'[x].type = row[x].type
  BY <1>2, <1>3 DEF Transaction
<1>5. /\ DOMAIN handler' = DOMAIN handler \ {r}
      /\ \A q \in DOMAIN handler' : handler'[q] = handler[q]
  BY <1>3, EndingFacts DEF Finish
<1>6. Kept(r) /\ \A b \in Bounty : ~HasClaim(h, b)
  BY <1>1, <1>5 DEF Kept, HasClaim
<1>7. TasksAreEarned'
  <2>1. \A y \in DOMAIN row' : y \in DOMAIN row /\ row'[y].task = row[y].task /\ row'[y].type = row[y].type
    BY <1>4
  <2> QED BY <1>5, <2>1, TasksKept
<1>8. StrandsNothing
  <2>2. ClaimsStayBacked
    <3>1. \A y \in DOMAIN row : /\ y \in DOMAIN row'
                                /\ row'[y].task = row[y].task
                                /\ row'[y].status = row[y].status
      BY <1>4
    <3> QED BY <1>3, <1>6, <3>1, ClaimsKept
  <2>3. RowsStayAwaited
    <3> SUFFICES ASSUME NEW y \in DOMAIN row, RowAwaitsDecision(y),
                        row'[y].status = "pending"
                 PROVE  \/ transfer[row'[y].hold].state = "pending"
                        \/ \E q \in DOMAIN handler' : handler'[q].id = y /\ OwnsRow(handler'[q])
      BY <1>3, <1>4 DEF RowsStayAwaited, RowAwaitsDecision, OwnsRow
    <3>1. CASE y = x
      BY <1>2, <1>4, <3>1
    <3>2. CASE y # x
      <4>1. \/ transfer[row[y].hold].state = "pending"
            \/ \E q \in DOMAIN handler : handler[q].id = y /\ OwnsRow(handler[q])
        BY <1>4, <3>2 DEF RowAwaitsDecision, OwnsRow
      <4> QED BY <1>4, <1>6, <3>2, <4>1 DEF Kept
    <3> QED BY <3>1, <3>2
  <2>4. HoldsStayNamed
    <3> SUFFICES ASSUME NEW t \in DOMAIN transfer, HoldIsNamed(t),
                        transfer[t].state # "voided"
                 PROVE  \/ \E y \in DOMAIN row' : row'[y].hold = t
                        \/ \E q \in DOMAIN handler' : Carries(handler'[q], t)
      BY <1>3 DEF HoldsStayNamed, HoldIsNamed, Carries, NewHold
    <3>1. \/ \E y \in DOMAIN row : row[y].hold = t
          \/ \E q \in DOMAIN handler : Carries(handler[q], t)
      BY DEF HoldIsNamed, Carries, NewHold
    <3>2. Carries(h, t) => row'[x].hold = t
      BY <1>1, <1>4 DEF Carries, NewHold
    <3>3. row[x].hold # t
      BY <1>2
    <3> QED BY <1>2, <1>4, <1>6, <3>1, <3>2, <3>3 DEF Kept
  <2> QED BY <2>2, <2>3, <2>4 DEF StrandsNothing
<1> QED BY <1>3, <1>7, <1>8 DEF Tidy

LEMMA SetActiveUncut ==
  ASSUME Inv, TasksAreEarned, NEW t \in Task, NEW active \in BOOLEAN, SetActive(t, active)
  PROVE  Tidy
<1>1. /\ UNCHANGED <<account, transfer, row, handler, faults>>
      /\ \A b \in Task : task'[b].claimed_by = task[b].claimed_by
  BY DEF SetActive, Inv, TypeOK, TaskRow
<1>2. TasksAreEarned'
  BY <1>1 DEF TasksAreEarned
<1>3. StrandsNothing
  <2>2. ClaimsStayBacked
    BY <1>1, HoldsAssumption DEF ClaimsStayBacked, ClaimIsBacked, LiveSubmissions
  <2>3. RowsStayAwaited
    BY <1>1 DEF RowsStayAwaited, RowAwaitsDecision
  <2>4. HoldsStayNamed
    BY <1>1 DEF HoldsStayNamed, HoldIsNamed, NewHold
  <2> QED BY <2>2, <2>3, <2>4 DEF StrandsNothing
<1> QED BY <1>1, <1>2, <1>3 DEF Tidy

LEMMA CutUncut ==
  ASSUME Inv, TasksAreEarned, NEW S, CutOff(S)
  PROVE  TasksAreEarned' /\ faults' \notin {0, faults}
<1>1. faults' \notin {0, faults}
  <2>1. faults \in 0..MaxFaults /\ MaxFaults \in Nat /\ faults' = faults + 1
    BY HoldsAssumption DEF CutOff, Inv, TypeOK
  <2> QED BY <2>1
<1>2. /\ DOMAIN handler' \subseteq DOMAIN handler
      /\ \A q \in DOMAIN handler' : handler'[q] = handler[q]
      /\ UNCHANGED row
  BY EndingFacts DEF CutOff
<1>3. TasksAreEarned'
  BY <1>2 DEF TasksAreEarned
<1> QED BY <1>1, <1>3

(* Only a cut strands anything. *)
LEMMA TidyStep ==
  ASSUME Inv, TasksAreEarned, [Next]_holdsVars
  PROVE  TasksAreEarned' /\ (StrandsNothing \/ faults' \notin {0, faults})
<1>1. ASSUME NEW r \in Request, NEW w \in Wallet, Submit(r, w) PROVE Tidy
  BY <1>1, SubmitUncut
<1>2. ASSUME NEW r \in Request, NEW x \in DOMAIN row, Review(r, x) PROVE Tidy
  BY <1>2, ReviewUncut
<1>3. ASSUME NEW r \in Request, Continue(r) PROVE Tidy
  BY <1>3, ClaimBountyUncut, PlaceHoldUncut, PostAdjustmentUncut, CreateTransactionUncut,
     ResolveHoldUncut, DecideTransactionUncut, ReleaseUncut, VoidPriorHoldUncut,
     PlaceAdjustedHoldUncut, AdjustAmountUncut DEF Continue
<1>4. ASSUME NEW S, CutOff(S) PROVE TasksAreEarned' /\ faults' \notin {0, faults}
  BY <1>4, CutUncut
<1>5. ASSUME NEW t \in Task, NEW active \in BOOLEAN, SetActive(t, active) PROVE Tidy
  BY <1>5, SetActiveUncut
<1>6. CASE UNCHANGED holdsVars
  BY <1>6 DEF Tidy, StrandsNothing, holdsVars, TasksAreEarned, ClaimsStayBacked, ClaimIsBacked,
     LiveSubmissions, RowsStayAwaited, RowAwaitsDecision, HoldsStayNamed, HoldIsNamed, NewHold
<1> QED BY <1>1, <1>2, <1>3, <1>4, <1>5, <1>6 DEF Next, Fault, Crash, Tidy

LEMMA UncutStep == Inv /\ UncutInv /\ [Next]_holdsVars => UncutInv'
<1> SUFFICES ASSUME Inv, UncutInv, [Next]_holdsVars PROVE UncutInv'
  OBVIOUS
<1>1. TasksAreEarned' /\ (StrandsNothing \/ faults' \notin {0, faults})
  BY TidyStep DEF UncutInv
<1>2. faults \in Nat /\ (faults' = faults \/ faults' = faults + 1)
  <2>1. faults \in Nat
    BY HoldsAssumption DEF Inv, TypeOK
  <2>2. faults' = faults \/ faults' = faults + 1
    BY DEF Next, holdsVars, Submit, CreateEarning, ProposeChore, CreateRedemption,
           CreateAdjustment, Review, Decide, AdjustTransaction, Continue, ClaimBounty, PlaceHold,
           PostAdjustment, CreateTransaction, ResolveHold, DecideTransaction, ReleaseBountyClaim,
           VoidPriorHold, PlaceAdjustedHold, AdjustTransactionAmount, Fault, Crash, CutOff,
           SetActive
  <2> QED BY <2>1, <2>2
<1>3. ASSUME faults' = 0
      PROVE  ClaimsAreBacked' /\ PendingRowsAwaitDecision' /\ HoldsAreNamed'
  <2>1. faults = 0
    BY <1>2, <1>3
  <2>2. StrandsNothing
    BY <1>1, <1>3
  <2>3. ClaimsAreBacked /\ PendingRowsAwaitDecision /\ HoldsAreNamed
    BY <2>1 DEF UncutInv
  <2>4. ClaimsAreBacked'
    BY <2>2, <2>3 DEF StrandsNothing, ClaimsStayBacked, ClaimsAreBacked
  <2>5. PendingRowsAwaitDecision'
    BY <2>2, <2>3 DEF StrandsNothing, RowsStayAwaited, PendingRowsAwaitDecision
  <2>6. HoldsAreNamed'
    BY <2>2, <2>3 DEF StrandsNothing, HoldsStayNamed, HoldsAreNamed
  <2> QED BY <2>4, <2>5, <2>6
<1> QED BY <1>1, <1>3 DEF UncutInv

LEMMA UncutInit == Init => UncutInv
<1> SUFFICES ASSUME Init PROVE UncutInv
  OBVIOUS
<1>1. /\ DOMAIN row = {} /\ DOMAIN handler = {} /\ DOMAIN transfer = {}
      /\ \A t \in Task : task[t].claimed_by = Nobody
  BY DEF Init, LedgerInit
<1>2. TasksAreEarned
  BY <1>1 DEF TasksAreEarned
<1>3. ClaimsAreBacked
  BY <1>1, HoldsAssumption DEF ClaimsAreBacked, ClaimIsBacked
<1>4. PendingRowsAwaitDecision /\ HoldsAreNamed
  BY <1>1 DEF PendingRowsAwaitDecision, HoldsAreNamed
<1> QED BY <1>2, <1>3, <1>4 DEF UncutInv

THEOREM UncutHolds == Spec => []UncutInv
<1>1. Init => UncutInv
  BY UncutInit
<1>2. Inv /\ UncutInv /\ [Next]_holdsVars => UncutInv'
  BY UncutStep
<1> QED BY <1>1, <1>2, InvHolds, PTL DEF Spec

(* Only a cut strands a claim, a row or coins: no interleaving of running      *)
(* handlers does, also after earlier cuts (holds.go:53-94, 187-218 and         *)
(* 298-318, adjustments.go:57-96).                                             *)
THEOREM StrandingsAreCuts == Spec => OnlyCutsStrand
<1>1. Inv /\ TasksAreEarned /\ [Next]_holdsVars =>
        [faults' = faults => ClaimsStayBacked /\ RowsStayAwaited /\ HoldsStayNamed]_holdsVars
  BY TidyStep DEF StrandsNothing
<1>2. UncutInv => TasksAreEarned
  BY DEF UncutInv
<1> QED BY <1>1, <1>2, InvHolds, UncutHolds, PTL DEF Spec, OnlyCutsStrand

(* All of it, for every value of the constants (holds.go). *)
THEOREM FullInvHolds == Spec => []FullInv
<1>1. Inv /\ UncutInv => FullInv
  BY DEF FullInv
<1> QED BY <1>1, InvHolds, UncutHolds, PTL

(* Without a cut, a bounty is off the market only for a live submission or a  *)
(* handler at work on one (holds.go:53-81 and 313-318).                       *)
THEOREM ClaimsBacked == Spec => [](faults = 0 => ClaimsAreBacked)
<1>1. UncutInv => (faults = 0 => ClaimsAreBacked)
  BY DEF UncutInv
<1> QED BY <1>1, UncutHolds, PTL

(* Without a cut, a pending row's hold awaits a decision, or the handler that *)
(* resolved it is about to write the row (domain.go:57, holds.go:298-312).    *)
THEOREM PendingRowsAwait == Spec => [](faults = 0 => PendingRowsAwaitDecision)
<1>1. UncutInv => (faults = 0 => PendingRowsAwaitDecision)
  BY DEF UncutInv
<1> QED BY <1>1, UncutHolds, PTL

----------------------------------------------------------------------------
(* The counters are the sums of the transfers.                                *)

(* Finite tables, whatever the sets their ids come from. *)
Tables == Counted /\ IsFiniteSet(DOMAIN row)

LEMMA LedgerKept ==
  ASSUME Counted, UNCHANGED <<account, transfer>>
  PROVE  Counted'
BY DEF Counted, LedgerTypeOK, Matches

LEMMA ContinueCounts ==
  ASSUME Inv, Inv', Counted, NEW r \in Request, Continue(r)
  PROVE  Counted'
<1> DEFINE tx == handler[r].tx
           code == CodeFor(handler[r].tx.type)
<1>0. LedgerTypeOK'
  BY DEF Inv, TypeOK
<1>1. ASSUME r \in DOMAIN handler
      PROVE  /\ tx \in Transaction
             /\ tx.type \in Code /\ tx.account \in Wallet /\ tx.amount \in Amount
             /\ handler[r].amount \in Amount
  BY <1>1 DEF Inv, TypeOK, Handler, Transaction
<1>2. CASE PlaceHold(r)
  <2>1. CASE UNCHANGED ledgerVars
    BY <2>1, LedgerKept DEF ledgerVars
  <2>2. ASSUME NEW id, Hold(id, tx.type, tx.account, tx.amount) PROVE Counted'
    BY <1>0, <1>1, <1>2, <2>2, HoldCounts DEF PlaceHold, At
  <2> QED BY <1>2, <2>1, <2>2 DEF PlaceHold
<1>3. CASE PostAdjustment(r)
  <2>1. CASE UNCHANGED ledgerVars
    BY <2>1, LedgerKept DEF ledgerVars
  <2>2. ASSUME NEW id, Post(id, tx.type, tx.account, tx.amount) PROVE Counted'
    BY <1>0, <1>1, <1>3, <2>2, PostCounts DEF PostAdjustment, At
  <2> QED BY <1>3, <2>1, <2>2 DEF PostAdjustment
<1>4. CASE PlaceAdjustedHold(r)
  <2>1. PICK id : Hold(id, EarnCode, tx.account, handler[r].amount)
    BY <1>4 DEF PlaceAdjustedHold
  <2> QED BY <1>0, <1>1, <1>4, <2>1, HoldCounts DEF PlaceAdjustedHold, At, Code
<1>5. CASE ResolveHold(r)
  <2>1. CASE UNCHANGED ledgerVars
    BY <2>1, LedgerKept DEF ledgerVars
  <2>2. CASE SettleHold(tx.hold, code)
    BY <1>0, <2>2, SettleCounts
  <2>3. CASE VoidHold(tx.hold, code)
    BY <1>0, <2>3, VoidCounts
  <2> QED BY <1>5, <2>1, <2>2, <2>3 DEF ResolveHold
<1>6. CASE VoidPriorHold(r)
  <2>1. CASE UNCHANGED ledgerVars
    BY <2>1, LedgerKept DEF ledgerVars
  <2>2. CASE VoidHold(tx.hold, code)
    BY <1>0, <2>2, VoidCounts
  <2> QED BY <1>6, <2>1, <2>2 DEF VoidPriorHold
<1>7. CASE UNCHANGED <<account, transfer>>
  BY <1>7, LedgerKept
<1> QED
  BY <1>2, <1>3, <1>4, <1>5, <1>6, <1>7
  DEF Continue, ClaimBounty, CreateTransaction, DecideTransaction, ReleaseBountyClaim,
      AdjustTransactionAmount

LEMMA TablesStep == Inv /\ Inv' /\ Tables /\ [Next]_holdsVars => Tables'
<1> SUFFICES ASSUME Inv, Inv', Tables, [Next]_holdsVars PROVE Tables'
  OBVIOUS
<1>1. CASE UNCHANGED <<account, transfer, row>>
  BY <1>1, LedgerKept DEF Tables
<1>2. ASSUME NEW r \in Request, Continue(r) PROVE Tables'
  <2>1. Counted'
    BY <1>2, ContinueCounts DEF Tables
  <2>2. IsFiniteSet(DOMAIN row')
    <3>1. CASE DOMAIN row' = DOMAIN row
      BY <3>1 DEF Tables
    <3>2. ASSUME NEW x, DOMAIN row' = DOMAIN row \cup {x} PROVE IsFiniteSet(DOMAIN row')
      BY <3>2, FS_AddElement DEF Tables
    <3>3. CASE CreateTransaction(r)
      BY <3>2, <3>3 DEF CreateTransaction
    <3>4. CASE DecideTransaction(r) \/ AdjustTransactionAmount(r)
      BY <3>1, <3>4 DEF DecideTransaction, AdjustTransactionAmount
    <3>5. CASE UNCHANGED row
      BY <3>1, <3>5
    <3> QED
      BY <1>2, <3>3, <3>4, <3>5
      DEF Continue, ClaimBounty, PlaceHold, PostAdjustment, ResolveHold, ReleaseBountyClaim,
          VoidPriorHold, PlaceAdjustedHold
  <2> QED BY <2>1, <2>2 DEF Tables
<1>3. ASSUME NEW r \in Request, NEW w \in Wallet, Submit(r, w)
      PROVE  UNCHANGED <<account, transfer, row>>
  BY <1>3 DEF Submit, CreateEarning, ProposeChore, CreateRedemption, CreateAdjustment
<1>4. ASSUME NEW r \in Request, NEW x \in DOMAIN row, Review(r, x)
      PROVE  UNCHANGED <<account, transfer, row>>
  BY <1>4 DEF Review, Decide, AdjustTransaction
<1>5. CASE UNCHANGED holdsVars
  BY <1>1, <1>5 DEF holdsVars
<1> QED
  BY <1>1, <1>2, <1>3, <1>4, <1>5 DEF Next, Fault, Crash, CutOff, SetActive

LEMMA TablesInit == Init => Tables
<1> SUFFICES ASSUME Init PROVE Tables
  OBVIOUS
<1>1. LedgerTypeOK /\ DOMAIN transfer = {} /\ DOMAIN row = {}
  BY InitInv DEF Inv, TypeOK, Init, LedgerInit
<1>2. IsFiniteSet(DOMAIN transfer) /\ IsFiniteSet(DOMAIN row)
  BY <1>1, FS_EmptySet
<1>3. ASSUME NEW a \in Account PROVE Matches(account, transfer, a)
  <2>1. \A states : DebitsIn(transfer, a, states) = {} /\ CreditsIn(transfer, a, states) = {}
    BY <1>1 DEF DebitsIn, CreditsIn
  <2>2. TotalIn(transfer, {}) = 0
    BY SumEmpty DEF TotalIn
  <2>3. account[a] = NewAccount
    BY DEF Init, LedgerInit
  <2>4. \A states : /\ TotalIn(transfer, DebitsIn(transfer, a, states)) = 0
                    /\ TotalIn(transfer, CreditsIn(transfer, a, states)) = 0
    BY <2>1, <2>2, Zenon
  <2> QED BY <2>3, <2>4 DEF Matches, NewAccount
<1> QED BY <1>1, <1>2, <1>3 DEF Tables, Counted

THEOREM TablesHold == Spec => []Tables
<1>1. Init => Tables
  BY TablesInit
<1>2. Inv /\ Inv' /\ Tables /\ [Next]_holdsVars => Tables'
  BY TablesStep
<1> QED BY <1>1, <1>2, InvHolds, PTL DEF Spec

----------------------------------------------------------------------------
(* A wallet's balance is what its rows add up to.                             *)

(* Rows and the transfers of the same kind correspond one to one, and carry   *)
(* the same amounts.                                                          *)
LEMMA RowsAlongTransfers ==
  ASSUME RowsOwnTheirHolds, Tables, TypeOK, NEW R \in SUBSET DOMAIN row, NEW T,
         T = {row[x].hold : x \in R}
  PROVE  RowTotal(R) = TotalIn(transfer, T)
<1> DEFINE f == [x \in DOMAIN row |-> row[x].amount]
           h == [x \in DOMAIN row |-> row[x].hold]
<1>1. IsFiniteSet(R)
  BY FS_Subset DEF Tables
<1>2. \A x \in R : f[x] \in Int /\ f[x] = AmountIn(transfer)[h[x]]
  <2> SUFFICES ASSUME NEW x \in R PROVE f[x] \in Int /\ f[x] = AmountIn(transfer)[h[x]]
    OBVIOUS
  <2>1. x \in DOMAIN row /\ row[x].hold \in DOMAIN transfer
        /\ transfer[row[x].hold].amount = row[x].amount
    BY DEF RowsOwnTheirHolds
  <2>2. row[x].amount \in Int
    BY <2>1, Amounts DEF TypeOK, Transaction
  <2> QED BY <2>1, <2>2 DEF AmountIn
<1>3. \A x, y \in R : h[x] = h[y] => x = y
  BY DEF RowsOwnTheirHolds
<1>4. T = {h[x] : x \in R}
  OBVIOUS
<1> HIDE DEF f, h
<1>5. SumFunctionOnSet(f, R) = SumFunctionOnSet(AmountIn(transfer), {h[x] : x \in R})
  BY <1>1, <1>2, <1>3, SumAlong
<1>6. SumFunctionOnSet(f, R) = SumFunctionOnSet(AmountIn(transfer), T)
  BY <1>4, <1>5, Zenon
<1> QED BY <1>6 DEF RowTotal, TotalIn, f

(* With nobody at work and nobody cut off, every coin that moved or waits to  *)
(* has its row, and the row says so.                                          *)
LEMMA RowOfTransfer ==
  ASSUME Inv, PendingRowsAwaitDecision, HoldsAreNamed, DOMAIN handler = {},
         NEW t \in DOMAIN transfer, transfer[t].state # "voided"
  PROVE  \E x \in DOMAIN row :
           /\ row[x].hold = t
           /\ row[x].type = transfer[t].code
           /\ row[x].account = transfer[t].wallet
           /\ row[x].status = IF transfer[t].state = "pending" THEN "pending" ELSE "settled"
<1>1. PICK x \in DOMAIN row : row[x].hold = t
  BY DEF HoldsAreNamed, HoldIsNamed
<1>2. row[x].type = transfer[t].code /\ row[x].account = transfer[t].wallet
  BY <1>1 DEF Inv, RowsOwnTheirHolds
<1>3. row[x].status \in {"pending", "settled", "voided"}
  BY DEF Inv, TypeOK, Transaction
<1>4. CASE row[x].status = "pending"
  <2>1. transfer[t].state = "pending"
    BY <1>1, <1>4 DEF PendingRowsAwaitDecision, RowAwaitsDecision
  <2> QED BY <1>1, <1>2, <1>4, <2>1
<1>5. CASE row[x].status = "settled"
  <2>1. transfer[t].state \in {"posted", "single"}
    BY <1>1, <1>5 DEF Inv, DecisionsMatchLedger
  <2> QED BY <1>1, <1>2, <1>5, <2>1
<1>6. row[x].status # "voided"
  BY <1>1 DEF Inv, DecisionsMatchLedger
<1> QED BY <1>3, <1>4, <1>5, <1>6

LEMMA TransferOfRow ==
  ASSUME Inv, PendingRowsAwaitDecision, DOMAIN handler = {},
         NEW x \in DOMAIN row, row[x].status # "voided"
  PROVE  /\ row[x].hold \in DOMAIN transfer
         /\ transfer[row[x].hold].code = row[x].type
         /\ transfer[row[x].hold].wallet = row[x].account
         /\ row[x].status = "pending" => transfer[row[x].hold].state = "pending"
         /\ row[x].status = "settled" => transfer[row[x].hold].state \in {"posted", "single"}
BY DEF Inv, RowsOwnTheirHolds, PendingRowsAwaitDecision, RowAwaitsDecision, DecisionsMatchLedger

LEMMA BalancesAdd ==
  ASSUME Inv, Tables, PendingRowsAwaitDecision, HoldsAreNamed
  PROVE  BalanceMatchesRows
<1> SUFFICES ASSUME DOMAIN handler = {}, NEW w \in Wallet
             PROVE  Available(w) = RowTotal(RowsOf(w, Mints, "settled"))
                                   - RowTotal(RowsOf(w, Code \ Mints, "settled"))
                                   - RowTotal(RowsOf(w, Code \ Mints, "pending"))
  BY DEF BalanceMatchesRows
<1>0. w \in Account /\ w # Issuance /\ w # Redemption
  BY AccountAssumption DEF Account
<1>1. \A t \in DOMAIN transfer : /\ transfer[t].state \in {"pending", "posted", "voided", "single"}
                                 /\ transfer[t].code \in Code
                                 /\ transfer[t].wallet \in Wallet
  BY DEF Inv, TypeOK, LedgerTypeOK, Transfer
<1>2. \A t \in DOMAIN transfer :
        /\ CreditAccount(transfer[t].code, transfer[t].wallet) = w
             <=> transfer[t].code \in Mints /\ transfer[t].wallet = w
        /\ DebitAccount(transfer[t].code, transfer[t].wallet) = w
             <=> transfer[t].code \in Code \ Mints /\ transfer[t].wallet = w
  BY <1>0, <1>1 DEF CreditAccount, DebitAccount
<1>3. CreditsIn(transfer, w, {"posted", "single"}) =
        {row[x].hold : x \in RowsOf(w, Mints, "settled")}
  <2>1. ASSUME NEW t \in CreditsIn(transfer, w, {"posted", "single"})
        PROVE  \E x \in RowsOf(w, Mints, "settled") : row[x].hold = t
    <3>1. /\ t \in DOMAIN transfer /\ transfer[t].state \in {"posted", "single"}
          /\ transfer[t].code \in Mints /\ transfer[t].wallet = w
      BY <1>2 DEF CreditsIn
    <3> QED BY <3>1, RowOfTransfer DEF RowsOf
  <2>2. ASSUME NEW x \in RowsOf(w, Mints, "settled")
        PROVE  row[x].hold \in CreditsIn(transfer, w, {"posted", "single"})
    BY <1>2, TransferOfRow DEF CreditsIn, RowsOf
  <2> QED BY <2>1, <2>2
<1>4. DebitsIn(transfer, w, {"posted", "single"}) =
        {row[x].hold : x \in RowsOf(w, Code \ Mints, "settled")}
  <2>1. ASSUME NEW t \in DebitsIn(transfer, w, {"posted", "single"})
        PROVE  \E x \in RowsOf(w, Code \ Mints, "settled") : row[x].hold = t
    <3>1. /\ t \in DOMAIN transfer /\ transfer[t].state \in {"posted", "single"}
          /\ transfer[t].code \in Code \ Mints /\ transfer[t].wallet = w
      BY <1>2 DEF DebitsIn
    <3> QED BY <3>1, RowOfTransfer DEF RowsOf
  <2>2. ASSUME NEW x \in RowsOf(w, Code \ Mints, "settled")
        PROVE  row[x].hold \in DebitsIn(transfer, w, {"posted", "single"})
    BY <1>2, TransferOfRow DEF DebitsIn, RowsOf
  <2> QED BY <2>1, <2>2
<1>5. DebitsIn(transfer, w, {"pending"}) =
        {row[x].hold : x \in RowsOf(w, Code \ Mints, "pending")}
  <2>1. ASSUME NEW t \in DebitsIn(transfer, w, {"pending"})
        PROVE  \E x \in RowsOf(w, Code \ Mints, "pending") : row[x].hold = t
    <3>1. /\ t \in DOMAIN transfer /\ transfer[t].state = "pending"
          /\ transfer[t].code \in Code \ Mints /\ transfer[t].wallet = w
      BY <1>2 DEF DebitsIn
    <3> QED BY <3>1, RowOfTransfer DEF RowsOf
  <2>2. ASSUME NEW x \in RowsOf(w, Code \ Mints, "pending")
        PROVE  row[x].hold \in DebitsIn(transfer, w, {"pending"})
    BY <1>2, TransferOfRow DEF DebitsIn, RowsOf
  <2> QED BY <2>1, <2>2
<1>6. \A types, status : RowsOf(w, types, status) \in SUBSET DOMAIN row
  BY DEF RowsOf
<1>7. RowsOwnTheirHolds /\ TypeOK
  BY DEF Inv
<1>8. /\ RowTotal(RowsOf(w, Mints, "settled"))
           = TotalIn(transfer, CreditsIn(transfer, w, {"posted", "single"}))
      /\ RowTotal(RowsOf(w, Code \ Mints, "settled"))
           = TotalIn(transfer, DebitsIn(transfer, w, {"posted", "single"}))
      /\ RowTotal(RowsOf(w, Code \ Mints, "pending"))
           = TotalIn(transfer, DebitsIn(transfer, w, {"pending"}))
  BY <1>3, <1>4, <1>5, <1>6, <1>7, RowsAlongTransfers
<1>9. Matches(account, transfer, w)
  BY <1>0 DEF Tables, Counted
<1> QED BY <1>8, <1>9 DEF Matches, Available

(* Without a cut, and with no handler between its ledger and its store calls, *)
(* every wallet's spendable balance is what its transactions add up to        *)
(* (holds.go, adjustments.go:57-96).                                          *)
THEOREM BalancesMatch == Spec => [](faults = 0 => BalanceMatchesRows)
<1>1. Inv /\ Tables /\ UncutInv => (faults = 0 => BalanceMatchesRows)
  BY BalancesAdd DEF UncutInv
<1> QED BY <1>1, InvHolds, TablesHold, UncutHolds, PTL

(***************************************************************************)
(* 4. The refinement                                                         *)
(***************************************************************************)

(* Manual adjustments are posted at once and everything else is held first.  *)
Kinds ==
  \A t \in DOMAIN transfer :
    transfer[t].state = "single" <=> transfer[t].code \in {CreditCode, DebitCode}

(* A handler at one of these steps keeps its row's request alive.            *)
Keeps(h) == h.step \in {"rehold", "update"}

LEMMA Stutters ==
  ASSUME AbstractTicket' = AbstractTicket, AbstractRequest' = AbstractRequest,
         AbstractBalance' = AbstractBalance, AbstractReserved' = AbstractReserved
  PROVE  UNCHANGED A!vars
  BY DEF A!vars

----------------------------------------------------------------------------
(* What the abstract variables depend on *)

LEMMA SameTickets ==
  ASSUME Unrecorded' = Unrecorded,
         \A t \in Unrecorded : /\ transfer'[t].code = transfer[t].code
                               /\ transfer'[t].wallet = transfer[t].wallet
                               /\ transfer'[t].amount = transfer[t].amount
  PROVE  AbstractTicket' = AbstractTicket
  BY DEF AbstractTicket

LEMMA SameRequests ==
  ASSUME DOMAIN row' = DOMAIN row,
         \A x \in DOMAIN row :
           /\ row'[x].type = row[x].type /\ row'[x].account = row[x].account
           /\ row'[x].amount = row[x].amount
           /\ Outcome(x)' = Outcome(x)
  PROVE  AbstractRequest' = AbstractRequest
  BY DEF AbstractRequest

LEMMA SameAmounts ==
  ASSUME \A w \in Wallet : /\ account'[w].credits_posted = account[w].credits_posted
                           /\ account'[w].debits_posted = account[w].debits_posted
                           /\ account'[w].debits_pending = account[w].debits_pending
  PROVE  AbstractBalance' = AbstractBalance /\ AbstractReserved' = AbstractReserved
  BY DEF AbstractBalance, AbstractReserved

(* A request's outcome, case by case. *)
LEMMA Outcomes ==
  ASSUME NEW x
  PROVE  /\ row[x].status # "pending" => Outcome(x) = row[x].status
         /\ row[x].status = "pending" =>
              /\ transfer[row[x].hold].state = "pending" => Outcome(x) = "pending"
              /\ transfer[row[x].hold].state = "voided" =>
                   Outcome(x) = IF BeingAdjusted(x) THEN "pending" ELSE "voided"
              /\ transfer[row[x].hold].state \in {"posted", "single"} => Outcome(x) = "settled"
  BY DEF Outcome

LEMMA OutcomesNext ==
  ASSUME NEW x
  PROVE  /\ row'[x].status # "pending" => Outcome(x)' = row'[x].status
         /\ row'[x].status = "pending" =>
              /\ transfer'[row'[x].hold].state = "pending" => Outcome(x)' = "pending"
              /\ transfer'[row'[x].hold].state = "voided" =>
                   Outcome(x)' = IF BeingAdjusted(x)' THEN "pending" ELSE "voided"
              /\ transfer'[row'[x].hold].state \in {"posted", "single"} => Outcome(x)' = "settled"
  BY DEF Outcome

(* A handler comes, goes or moves without keeping a row's request alive.       *)
LEMMA SameAdjusting ==
  ASSUME NEW R,
         \A q : q \notin R => (q \in DOMAIN handler' <=> q \in DOMAIN handler),
         \A q \in DOMAIN handler : q \notin R => handler'[q] = handler[q],
         \A q \in R : q \in DOMAIN handler => ~Keeps(handler[q]),
         \A q \in R : q \in DOMAIN handler' => ~Keeps(handler'[q])
  PROVE  \A x : BeingAdjusted(x)' <=> BeingAdjusted(x)
  BY DEF BeingAdjusted, Keeps

(* With the ledger and the rows, the requests stay as they are.                *)
LEMMA RowsAlone ==
  ASSUME UNCHANGED <<transfer, row>>, \A x : BeingAdjusted(x)' <=> BeingAdjusted(x)
  PROVE  AbstractTicket' = AbstractTicket /\ AbstractRequest' = AbstractRequest
<1>1. \A x : Outcome(x)' = Outcome(x)
  BY DEF Outcome
<1> QED BY <1>1, SameTickets, SameRequests DEF Unrecorded

LEMMA Quiet ==
  ASSUME UNCHANGED <<account, transfer, row>>, \A x : BeingAdjusted(x)' <=> BeingAdjusted(x)
  PROVE  UNCHANGED A!vars
<1>1. AbstractTicket' = AbstractTicket /\ AbstractRequest' = AbstractRequest
  BY RowsAlone
<1>2. AbstractBalance' = AbstractBalance /\ AbstractReserved' = AbstractReserved
  BY SameAmounts
<1> QED BY <1>1, <1>2, Stutters

LEMMA StartQuiet ==
  ASSUME NEW r, NEW h, Start(r, h), ~Keeps(h), UNCHANGED <<account, transfer, row>>
  PROVE  UNCHANGED A!vars
<1>1. \A x : BeingAdjusted(x)' <=> BeingAdjusted(x)
  BY StartFacts DEF BeingAdjusted, Keeps
<1> QED BY <1>1, Quiet

LEMMA FinishQuiet ==
  ASSUME NEW r \in DOMAIN handler, Finish(r), ~Keeps(handler[r]),
         UNCHANGED <<account, transfer, row>>
  PROVE  UNCHANGED A!vars
<1>1. /\ DOMAIN handler' = DOMAIN handler \ {r}
      /\ \A q \in DOMAIN handler' : handler'[q] = handler[q]
  BY EndingFacts DEF Finish
<1>2. \A x : BeingAdjusted(x)' <=> BeingAdjusted(x)
  BY <1>1 DEF BeingAdjusted, Keeps
<1> QED BY <1>2, Quiet

----------------------------------------------------------------------------
(* What the ledger's calls do to balances and reserves *)

LEMMA BalanceOf ==
  ASSUME NEW w \in Wallet, NEW b, \A v \in Wallet \ {w} : AbstractBalance'[v] = AbstractBalance[v],
         AbstractBalance'[w] = b
  PROVE  AbstractBalance' = [AbstractBalance EXCEPT ![w] = b]
<1>1. AbstractBalance = [v \in Wallet |-> AbstractBalance[v]]
  BY DEF AbstractBalance
<1>2. AbstractBalance' = [v \in Wallet |-> AbstractBalance'[v]]
  BY DEF AbstractBalance
<1> QED BY <1>1, <1>2

LEMMA HoldAmounts ==
  ASSUME LedgerTypeOK, NEW id, NEW code \in {EarnCode, RedeemCode}, NEW w \in Wallet,
         NEW amount \in Amount, Hold(id, code, w, amount)
  PROVE  /\ AbstractBalance' = AbstractBalance
         /\ code = EarnCode => AbstractReserved' = AbstractReserved
         /\ code = RedeemCode =>
              /\ AbstractReserved' = [AbstractReserved EXCEPT ![w] = @ + amount]
              /\ AbstractBalance[w] - AbstractReserved[w] >= amount
<1> DEFINE debit == DebitAccount(code, w)
           credit == CreditAccount(code, w)
<1>1. /\ account' = [account EXCEPT ![debit].debits_pending = @ + amount,
                                    ![credit].credits_pending = @ + amount]
      /\ Funded(debit, amount)
  BY DEF Hold
<1>2. /\ debit \in Account /\ credit \in Account /\ debit # credit
      /\ code = EarnCode => debit \notin Wallet
      /\ code = RedeemCode => debit = w
  BY Sides DEF Code, Mints, EarnCode, CreditCode, RedeemCode
<1>3. \A v \in Wallet : v \in Account /\ account[v] \in Counters
  BY DEF LedgerTypeOK, Account
<1>4. amount \in Int
  BY Amounts
<1> HIDE DEF debit, credit
<1>5. \A v \in Wallet :
        /\ account'[v].credits_posted = account[v].credits_posted
        /\ account'[v].debits_posted = account[v].debits_posted
        /\ account'[v].debits_pending = IF v = debit THEN account[v].debits_pending + amount
                                        ELSE account[v].debits_pending
  BY <1>1, <1>2, <1>3, <1>4 DEF LedgerTypeOK, Counters
<1>6. AbstractBalance' = AbstractBalance
  BY <1>5 DEF AbstractBalance
<1>7. code = EarnCode => AbstractReserved' = AbstractReserved
  BY <1>2, <1>5 DEF AbstractReserved
<1>8. code = RedeemCode => AbstractReserved' = [AbstractReserved EXCEPT ![w] = @ + amount]
  BY <1>2, <1>5 DEF AbstractReserved
<1>9. code = RedeemCode => AbstractBalance[w] - AbstractReserved[w] >= amount
  BY <1>1, <1>2, <1>3 DEF AbstractBalance, AbstractReserved, Funded, Available, Counters
<1> QED BY <1>6, <1>7, <1>8, <1>9

LEMMA PostAmounts ==
  ASSUME LedgerTypeOK, NEW id, NEW code \in {CreditCode, DebitCode}, NEW w \in Wallet,
         NEW amount \in Amount, Post(id, code, w, amount)
  PROVE  /\ AbstractReserved' = AbstractReserved
         /\ code = CreditCode => AbstractBalance' = [AbstractBalance EXCEPT ![w] = @ + amount]
         /\ code = DebitCode =>
              /\ AbstractBalance' = [AbstractBalance EXCEPT ![w] = @ - amount]
              /\ AbstractBalance[w] - AbstractReserved[w] >= amount
<1> DEFINE debit == DebitAccount(code, w)
           credit == CreditAccount(code, w)
<1>1. /\ account' = [account EXCEPT ![debit].debits_posted = @ + amount,
                                    ![credit].credits_posted = @ + amount]
      /\ Funded(debit, amount)
  BY DEF Post
<1>2. /\ debit \in Account /\ credit \in Account /\ debit # credit
      /\ code = CreditCode => debit \notin Wallet /\ credit = w
      /\ code = DebitCode => debit = w /\ credit \notin Wallet
  BY Sides DEF Code, Mints, EarnCode, CreditCode, DebitCode
<1>3. \A v \in Wallet : v \in Account /\ account[v] \in Counters
  BY DEF LedgerTypeOK, Account
<1>4. amount \in Int
  BY Amounts
<1> HIDE DEF debit, credit
<1>5. \A v \in Wallet :
        /\ account'[v].credits_posted = IF v = credit THEN account[v].credits_posted + amount
                                        ELSE account[v].credits_posted
        /\ account'[v].debits_posted = IF v = debit THEN account[v].debits_posted + amount
                                       ELSE account[v].debits_posted
        /\ account'[v].debits_pending = account[v].debits_pending
  BY <1>1, <1>2, <1>3, <1>4 DEF LedgerTypeOK, Counters
<1>6. AbstractReserved' = AbstractReserved
  BY <1>5 DEF AbstractReserved
<1>7. \A v \in Wallet : /\ account[v].credits_posted \in Int /\ account[v].debits_posted \in Int
                        /\ account[v].debits_pending \in Int
  BY <1>3 DEF Counters
<1>8. CASE code = CreditCode
  <2>1. \A v \in Wallet : AbstractBalance'[v] = IF v = w THEN AbstractBalance[v] + amount
                                                ELSE AbstractBalance[v]
    BY <1>2, <1>4, <1>5, <1>7, <1>8 DEF AbstractBalance
  <2>2. AbstractBalance' = [AbstractBalance EXCEPT ![w] = @ + amount]
    BY <2>1, BalanceOf
  <2> QED BY <1>6, <1>8, <2>2 DEF CreditCode, DebitCode
<1>9. CASE code = DebitCode
  <2>1. \A v \in Wallet : AbstractBalance'[v] = IF v = w THEN AbstractBalance[v] - amount
                                                ELSE AbstractBalance[v]
    BY <1>2, <1>4, <1>5, <1>7, <1>9 DEF AbstractBalance
  <2>2. AbstractBalance' = [AbstractBalance EXCEPT ![w] = @ - amount]
    BY <2>1, BalanceOf
  <2>3. AbstractBalance[w] - AbstractReserved[w] >= amount
    BY <1>1, <1>2, <1>3, <1>9 DEF AbstractBalance, AbstractReserved, Funded, Available, Counters
  <2> QED BY <1>6, <1>9, <2>2, <2>3 DEF CreditCode, DebitCode
<1> QED BY <1>8, <1>9

LEMMA SettleAmounts ==
  ASSUME LedgerTypeOK, NEW id, NEW code \in {EarnCode, RedeemCode}, SettleHold(id, code)
  PROVE  LET w == transfer[id].wallet
             amount == transfer[id].amount
         IN /\ code = EarnCode => /\ AbstractBalance' = [AbstractBalance EXCEPT ![w] = @ + amount]
                                  /\ AbstractReserved' = AbstractReserved
            /\ code = RedeemCode =>
                 /\ AbstractBalance' = [AbstractBalance EXCEPT ![w] = @ - amount]
                 /\ AbstractReserved' = [AbstractReserved EXCEPT ![w] = @ - amount]
<1> DEFINE w == transfer[id].wallet
           amount == transfer[id].amount
           debit == DebitAccount(code, w)
           credit == CreditAccount(code, w)
<1>1. /\ Resolvable(id, code)
      /\ account' = [account EXCEPT ![debit].debits_pending = @ - amount,
                                    ![debit].debits_posted = @ + amount,
                                    ![credit].credits_pending = @ - amount,
                                    ![credit].credits_posted = @ + amount]
  BY DEF SettleHold
<1>2. w \in Wallet /\ amount \in Int
  BY <1>1, ResolvableFacts
<1>3. /\ debit \in Account /\ credit \in Account /\ debit # credit
      /\ code = EarnCode => debit \notin Wallet /\ credit = w
      /\ code = RedeemCode => debit = w /\ credit \notin Wallet
  BY <1>2, Sides DEF Code, Mints, EarnCode, CreditCode, RedeemCode
<1>4. \A v \in Wallet : v \in Account /\ account[v] \in Counters
  BY DEF LedgerTypeOK, Account
<1> HIDE DEF w, amount, debit, credit
<1>5. \A v \in Wallet :
        /\ account'[v].credits_posted = IF v = credit THEN account[v].credits_posted + amount
                                        ELSE account[v].credits_posted
        /\ account'[v].debits_posted = IF v = debit THEN account[v].debits_posted + amount
                                       ELSE account[v].debits_posted
        /\ account'[v].debits_pending = IF v = debit THEN account[v].debits_pending - amount
                                        ELSE account[v].debits_pending
  BY <1>1, <1>2, <1>3, <1>4 DEF LedgerTypeOK, Counters
<1>6. \A v \in Wallet : /\ account[v].credits_posted \in Int /\ account[v].debits_posted \in Int
                        /\ account[v].debits_pending \in Int
  BY <1>4 DEF Counters
<1>7. CASE code = EarnCode
  <2>1. \A v \in Wallet : AbstractBalance'[v] = IF v = w THEN AbstractBalance[v] + amount
                                                ELSE AbstractBalance[v]
    BY <1>2, <1>3, <1>5, <1>6, <1>7 DEF AbstractBalance
  <2>2. AbstractBalance' = [AbstractBalance EXCEPT ![w] = @ + amount]
    BY <1>2, <2>1, BalanceOf
  <2>3. AbstractReserved' = AbstractReserved
    BY <1>3, <1>5, <1>7 DEF AbstractReserved
  <2> QED BY <1>7, <2>2, <2>3 DEF w, amount, EarnCode, RedeemCode
<1>8. CASE code = RedeemCode
  <2>1. \A v \in Wallet : AbstractBalance'[v] = IF v = w THEN AbstractBalance[v] - amount
                                                ELSE AbstractBalance[v]
    BY <1>2, <1>3, <1>5, <1>6, <1>8 DEF AbstractBalance
  <2>2. AbstractBalance' = [AbstractBalance EXCEPT ![w] = @ - amount]
    BY <1>2, <2>1, BalanceOf
  <2>3. AbstractReserved' = [AbstractReserved EXCEPT ![w] = @ - amount]
    BY <1>2, <1>3, <1>5, <1>6, <1>8 DEF AbstractReserved
  <2> QED BY <1>8, <2>2, <2>3 DEF w, amount, EarnCode, RedeemCode
<1> QED BY <1>7, <1>8

LEMMA VoidAmounts ==
  ASSUME LedgerTypeOK, NEW id, NEW code \in {EarnCode, RedeemCode}, VoidHold(id, code)
  PROVE  LET w == transfer[id].wallet
             amount == transfer[id].amount
         IN /\ AbstractBalance' = AbstractBalance
            /\ code = EarnCode => AbstractReserved' = AbstractReserved
            /\ code = RedeemCode => AbstractReserved' = [AbstractReserved EXCEPT ![w] = @ - amount]
<1> DEFINE w == transfer[id].wallet
           amount == transfer[id].amount
           debit == DebitAccount(code, w)
           credit == CreditAccount(code, w)
<1>1. /\ Resolvable(id, code)
      /\ account' = [account EXCEPT ![debit].debits_pending = @ - amount,
                                    ![credit].credits_pending = @ - amount]
  BY DEF VoidHold
<1>2. w \in Wallet /\ amount \in Int
  BY <1>1, ResolvableFacts
<1>3. /\ debit \in Account /\ credit \in Account /\ debit # credit
      /\ code = EarnCode => debit \notin Wallet
      /\ code = RedeemCode => debit = w
  BY <1>2, Sides DEF Code, Mints, EarnCode, CreditCode, RedeemCode
<1>4. \A v \in Wallet : v \in Account /\ account[v] \in Counters
  BY DEF LedgerTypeOK, Account
<1> HIDE DEF w, amount, debit, credit
<1>5. \A v \in Wallet :
        /\ account'[v].credits_posted = account[v].credits_posted
        /\ account'[v].debits_posted = account[v].debits_posted
        /\ account'[v].debits_pending = IF v = debit THEN account[v].debits_pending - amount
                                        ELSE account[v].debits_pending
  BY <1>1, <1>2, <1>3, <1>4 DEF LedgerTypeOK, Counters
<1>6. AbstractBalance' = AbstractBalance
  BY <1>5 DEF AbstractBalance
<1>7. code = EarnCode => AbstractReserved' = AbstractReserved
  BY <1>3, <1>5 DEF AbstractReserved
<1>8. code = RedeemCode => AbstractReserved' = [AbstractReserved EXCEPT ![w] = @ - amount]
  BY <1>2, <1>3, <1>5 DEF AbstractReserved
<1> QED BY <1>6, <1>7, <1>8 DEF w, amount

----------------------------------------------------------------------------
(* A new transfer is a new ticket. *)

LEMMA Announced ==
  ASSUME Inv, NEW id \in TransferId \ DOMAIN transfer, NEW code, NEW w, NEW amount,
         NEW state \in {"pending", "single"},
         DOMAIN transfer' = DOMAIN transfer \cup {id},
         transfer'[id] = [code |-> code, wallet |-> w, amount |-> amount, state |-> state],
         \A t \in DOMAIN transfer : transfer'[t] = transfer[t],
         UNCHANGED row,
         \A x : BeingAdjusted(x)' <=> BeingAdjusted(x)
  PROVE  /\ id \notin DOMAIN AbstractTicket
         /\ AbstractTicket' =
              [u \in DOMAIN AbstractTicket \cup {id} |->
                IF u = id THEN [type |-> code, account |-> w, amount |-> amount]
                ELSE AbstractTicket[u]]
         /\ AbstractRequest' = AbstractRequest
<1>1. \A x \in DOMAIN row : row[x].hold \in DOMAIN transfer
  BY DEF Inv, RowsOwnTheirHolds
<1>2. Unrecorded \subseteq DOMAIN transfer
  BY DEF Unrecorded
<1>3. Unrecorded' = Unrecorded \cup {id}
  BY <1>1 DEF Unrecorded
<1>4. DOMAIN AbstractTicket = Unrecorded
  BY DEF AbstractTicket
<1>5. \A t \in Unrecorded :
        AbstractTicket[t] = [type |-> transfer[t].code, account |-> transfer[t].wallet,
                             amount |-> transfer[t].amount]
  BY DEF AbstractTicket
<1>6. AbstractTicket' =
        [t \in Unrecorded \cup {id} |->
          [type |-> transfer'[t].code, account |-> transfer'[t].wallet,
           amount |-> transfer'[t].amount]]
  BY <1>3 DEF AbstractTicket
<1>7. \A t \in Unrecorded : t # id /\ transfer'[t] = transfer[t]
  BY <1>2
<1>8. AbstractTicket' =
        [u \in Unrecorded \cup {id} |->
          IF u = id THEN [type |-> code, account |-> w, amount |-> amount] ELSE AbstractTicket[u]]
  <2>1. \A u \in Unrecorded \cup {id} :
          [type |-> transfer'[u].code, account |-> transfer'[u].wallet,
           amount |-> transfer'[u].amount]
            = IF u = id THEN [type |-> code, account |-> w, amount |-> amount]
              ELSE AbstractTicket[u]
    BY <1>5, <1>7
  <2> QED BY <1>6, <2>1
<1>9. \A x \in DOMAIN row : Outcome(x)' = Outcome(x)
  BY <1>1 DEF Outcome
<1>10. AbstractRequest' = AbstractRequest
  BY <1>9, SameRequests
<1> QED BY <1>2, <1>4, <1>8, <1>10

----------------------------------------------------------------------------
(* Steps the bank does not see *)

LEMMA SubmitStep ==
  ASSUME NEW r \in Request, NEW w \in Wallet, Submit(r, w)
  PROVE  UNCHANGED A!vars
<1>1. UNCHANGED <<account, transfer, row>>
  BY DEF Submit, CreateEarning, ProposeChore, CreateRedemption, CreateAdjustment
<1>2. PICK step, type, amount, t :
        step \in {"claim", "hold", "post"} /\ Start(r, Submission(step, type, w, amount, t))
  BY DEF Submit, CreateEarning, ProposeChore, CreateRedemption, CreateAdjustment, Code
<1>3. ~Keeps(Submission(step, type, w, amount, t))
  BY <1>2 DEF Keeps, Submission
<1> QED BY <1>1, <1>2, <1>3, StartQuiet

LEMMA ReviewStep ==
  ASSUME NEW r \in Request, NEW x \in DOMAIN row, Review(r, x)
  PROVE  UNCHANGED A!vars
<1>1. UNCHANGED <<account, transfer, row>>
  BY DEF Review, Decide, AdjustTransaction
<1>2. PICK step, outcome, amount :
        step \in {"resolve", "void"} /\ Start(r, Reading(step, x, outcome, amount))
  BY DEF Review, Decide, AdjustTransaction
<1>3. ~Keeps(Reading(step, x, outcome, amount))
  BY <1>2 DEF Keeps, Reading
<1> QED BY <1>1, <1>2, <1>3, StartQuiet

LEMMA ClaimBountyStep ==
  ASSUME Inv, NEW r \in Request, ClaimBounty(r)
  PROVE  UNCHANGED A!vars
<1>1. r \in DOMAIN handler /\ handler[r].step = "claim" /\ UNCHANGED <<account, transfer, row>>
  BY DEF ClaimBounty, At
<1>2. CASE Finish(r)
  BY <1>1, <1>2, FinishQuiet DEF Keeps
<1>3. CASE Goto(r, "hold")
  <2>1. /\ DOMAIN handler' = DOMAIN handler /\ handler'[r].step = "hold"
        /\ \A q \in DOMAIN handler \ {r} : handler'[q] = handler[q]
    BY <1>1, <1>3, GotoFacts DEF Inv, Step
  <2>2. \A x : BeingAdjusted(x)' <=> BeingAdjusted(x)
    BY <1>1, <2>1 DEF BeingAdjusted
  <2> QED BY <1>1, <2>2, Quiet
<1> QED BY <1>2, <1>3 DEF ClaimBounty

LEMMA ReleaseStep ==
  ASSUME NEW r \in Request, ReleaseBountyClaim(r)
  PROVE  UNCHANGED A!vars
<1>1. r \in DOMAIN handler /\ handler[r].step = "release" /\ UNCHANGED <<account, transfer, row>>
      /\ Finish(r)
  BY DEF ReleaseBountyClaim, At
<1> QED BY <1>1, FinishQuiet DEF Keeps

LEMMA SetActiveStep ==
  ASSUME NEW t \in Task, NEW active \in BOOLEAN, SetActive(t, active)
  PROVE  UNCHANGED A!vars
<1>1. UNCHANGED <<account, transfer, row, handler>>
  BY DEF SetActive
<1>2. \A x : BeingAdjusted(x)' <=> BeingAdjusted(x)
  BY <1>1 DEF BeingAdjusted
<1> QED BY <1>1, <1>2, Quiet

(* The row follows the ledger: the request was decided before.                 *)
LEMMA DecideTransactionStep ==
  ASSUME Inv, NEW r \in Request, DecideTransaction(r)
  PROVE  UNCHANGED A!vars
<1>0. PICK h, x : h = handler[r] /\ x = h.id
  OBVIOUS
<1>1. r \in DOMAIN handler /\ h.step = "record" /\ h \in Handler
  BY <1>0 DEF DecideTransaction, At, Inv, TypeOK
<1>2. /\ x \in DOMAIN row /\ row[x].hold = h.tx.hold /\ row[x].status = "pending"
      /\ transfer[row[x].hold].state = IF h.outcome = "settled" THEN "posted" ELSE "voided"
      /\ h.outcome \in {"settled", "voided"}
  BY <1>0, <1>1 DEF Inv, HandlersInv, Recording, OwnsRow, Reviews, Handler
<1>3. /\ row' = [row EXCEPT ![x].status = h.outcome] /\ UNCHANGED <<account, transfer>>
      /\ Finish(r) \/ Goto(r, "release")
  BY <1>0, <1>2 DEF DecideTransaction
<1>4. \A y : BeingAdjusted(y)' <=> BeingAdjusted(y)
  <2>1. CASE Finish(r)
    <3>1. /\ DOMAIN handler' = DOMAIN handler \ {r}
          /\ \A q \in DOMAIN handler' : handler'[q] = handler[q]
      BY <2>1, EndingFacts DEF Finish
    <3> QED BY <1>0, <1>1, <3>1 DEF BeingAdjusted
  <2>2. CASE Goto(r, "release")
    <3>1. /\ DOMAIN handler' = DOMAIN handler /\ handler'[r].step = "release"
          /\ \A q \in DOMAIN handler \ {r} : handler'[q] = handler[q]
      BY <1>0, <1>1, <2>2, GotoFacts DEF Inv, Step
    <3> QED BY <1>0, <1>1, <3>1 DEF BeingAdjusted
  <2> QED BY <1>3, <2>1, <2>2
<1>5. ~BeingAdjusted(x)
  <2>1. \A q \in DOMAIN handler : q # r /\ OwnsRow(handler[q]) => handler[q].id # x
    BY <1>0, <1>1 DEF Inv, Exclusive, OwnsRow
  <2> QED BY <1>0, <1>1, <2>1 DEF BeingAdjusted, OwnsRow
<1>6. row[x] \in Transaction /\ DOMAIN row' = DOMAIN row
      /\ row'[x] = [row[x] EXCEPT !.status = h.outcome]
      /\ \A y \in DOMAIN row \ {x} : row'[y] = row[y]
  BY <1>2, <1>3 DEF Inv, TypeOK
<1>7. /\ row'[x].type = row[x].type /\ row'[x].account = row[x].account
      /\ row'[x].amount = row[x].amount /\ row'[x].hold = row[x].hold
      /\ row'[x].status = h.outcome
  BY <1>6 DEF Transaction
<1>8. Outcome(x)' = Outcome(x)
  <2>1. Outcome(x) = h.outcome
    BY <1>2, <1>5, Outcomes
  <2>2. Outcome(x)' = h.outcome
    BY <1>2, <1>7, OutcomesNext
  <2> QED BY <2>1, <2>2
<1>9. \A y \in DOMAIN row \ {x} : Outcome(y)' = Outcome(y)
  BY <1>3, <1>4, <1>6 DEF Outcome
<1>10. AbstractRequest' = AbstractRequest
  <2>1. \A y \in DOMAIN row :
          /\ row'[y].type = row[y].type /\ row'[y].account = row[y].account
          /\ row'[y].amount = row[y].amount
          /\ Outcome(y)' = Outcome(y)
    BY <1>6, <1>7, <1>8, <1>9
  <2> QED BY <1>6, <2>1, SameRequests
<1>11. AbstractTicket' = AbstractTicket
  <2>1. Unrecorded' = Unrecorded
    BY <1>3, <1>6, <1>7 DEF Unrecorded
  <2> QED BY <1>3, <2>1, SameTickets
<1> QED BY <1>3, <1>10, <1>11, SameAmounts, Stutters

----------------------------------------------------------------------------
(* Steps that announce a movement *)

Movement(code, w, amount) == [type |-> code, account |-> w, amount |-> amount]

LEMMA HoldOpens ==
  ASSUME Inv, NEW id, NEW code \in {EarnCode, RedeemCode}, NEW w \in Wallet,
         NEW amount \in Amount, Hold(id, code, w, amount), UNCHANGED row,
         \A x : BeingAdjusted(x)' <=> BeingAdjusted(x)
  PROVE  A!Next
<1> DEFINE m == Movement(code, w, amount)
<1>1. LedgerTypeOK /\ code \in Code
  BY DEF Inv, TypeOK, Code
<1>2. /\ id \in TransferId \ DOMAIN transfer
      /\ DOMAIN transfer' = DOMAIN transfer \cup {id}
      /\ transfer'[id] = [code |-> code, wallet |-> w, amount |-> amount, state |-> "pending"]
      /\ \A t \in DOMAIN transfer : transfer'[t] = transfer[t]
  BY <1>1, CreateFacts DEF Hold
<1>3. /\ id \notin DOMAIN AbstractTicket
      /\ AbstractTicket' = [u \in DOMAIN AbstractTicket \cup {id} |->
                             IF u = id THEN m ELSE AbstractTicket[u]]
      /\ AbstractRequest' = AbstractRequest
  BY <1>2, Announced DEF Movement
<1>4. /\ AbstractBalance' = AbstractBalance
      /\ code = EarnCode => AbstractReserved' = AbstractReserved
      /\ code = RedeemCode =>
           /\ AbstractReserved' = [AbstractReserved EXCEPT ![w] = @ + amount]
           /\ AbstractBalance[w] - AbstractReserved[w] >= amount
  BY <1>1, HoldAmounts
<1>5. m \in A!Movement /\ m.type = code /\ m.account = w /\ m.amount = amount
  BY <1>1 DEF A!Movement, A!Submitted, A!Manual, Movement, Code, EarnCode, RedeemCode
<1> HIDE DEF m
<1>6. A!Open(id, m)
  BY <1>3, <1>4, <1>5 DEF A!Open, EarnCode, RedeemCode
<1> QED BY <1>2, <1>5, <1>6 DEF A!Next

LEMMA PostOpens ==
  ASSUME Inv, NEW id, NEW code \in {CreditCode, DebitCode}, NEW w \in Wallet,
         NEW amount \in Amount, Post(id, code, w, amount), UNCHANGED row,
         \A x : BeingAdjusted(x)' <=> BeingAdjusted(x)
  PROVE  A!Next
<1> DEFINE m == Movement(code, w, amount)
<1>1. LedgerTypeOK /\ code \in Code
  BY DEF Inv, TypeOK, Code
<1>2. /\ id \in TransferId \ DOMAIN transfer
      /\ DOMAIN transfer' = DOMAIN transfer \cup {id}
      /\ transfer'[id] = [code |-> code, wallet |-> w, amount |-> amount, state |-> "single"]
      /\ \A t \in DOMAIN transfer : transfer'[t] = transfer[t]
  BY <1>1, CreateFacts DEF Post
<1>3. /\ id \notin DOMAIN AbstractTicket
      /\ AbstractTicket' = [u \in DOMAIN AbstractTicket \cup {id} |->
                             IF u = id THEN m ELSE AbstractTicket[u]]
      /\ AbstractRequest' = AbstractRequest
  BY <1>2, Announced DEF Movement
<1>4. /\ AbstractReserved' = AbstractReserved
      /\ code = CreditCode => AbstractBalance' = [AbstractBalance EXCEPT ![w] = @ + amount]
      /\ code = DebitCode =>
           /\ AbstractBalance' = [AbstractBalance EXCEPT ![w] = @ - amount]
           /\ AbstractBalance[w] - AbstractReserved[w] >= amount
  BY <1>1, PostAmounts
<1>5. m \in A!Movement /\ m.type = code /\ m.account = w /\ m.amount = amount
  BY <1>1 DEF A!Movement, A!Submitted, A!Manual, Movement, Code, CreditCode, DebitCode
<1> HIDE DEF m
<1>6. A!Open(id, m)
  BY <1>3, <1>4, <1>5 DEF A!Open, CreditCode, DebitCode
<1> QED BY <1>2, <1>5, <1>6 DEF A!Next

LEMMA PlaceHoldStep ==
  ASSUME Inv, NEW r \in Request, PlaceHold(r)
  PROVE  A!Next \/ UNCHANGED A!vars
<1>0. PICK tx : tx = handler[r].tx
  OBVIOUS
<1>1. r \in DOMAIN handler /\ handler[r].step = "hold" /\ handler[r] \in Handler /\ UNCHANGED row
  BY DEF PlaceHold, At, Inv, TypeOK
<1>2. tx.type \in {EarnCode, RedeemCode} /\ tx.account \in Wallet /\ tx.amount \in Amount
  BY <1>0, <1>1 DEF Inv, HandlersInv, Submitting, Handler, Transaction
<1>3. CASE Finish(r) /\ UNCHANGED ledgerVars
  BY <1>1, <1>3, FinishQuiet DEF Keeps, ledgerVars
<1>4. ASSUME NEW id \in FreshId, Hold(id, tx.type, tx.account, tx.amount),
             handler' = [handler EXCEPT ![r].step = "insert", ![r].tx.hold = id]
      PROVE  A!Next
  <2>1. /\ DOMAIN handler' = DOMAIN handler /\ handler'[r].step = "insert"
        /\ \A q \in DOMAIN handler \ {r} : handler'[q] = handler[q]
    BY <1>1, <1>4 DEF Handler
  <2>2. \A x : BeingAdjusted(x)' <=> BeingAdjusted(x)
    BY <1>1, <2>1 DEF BeingAdjusted
  <2> QED BY <1>1, <1>2, <1>4, <2>2, HoldOpens
<1> QED BY <1>0, <1>3, <1>4 DEF PlaceHold

LEMMA PostAdjustmentStep ==
  ASSUME Inv, NEW r \in Request, PostAdjustment(r)
  PROVE  A!Next \/ UNCHANGED A!vars
<1>0. PICK tx : tx = handler[r].tx
  OBVIOUS
<1>1. r \in DOMAIN handler /\ handler[r].step = "post" /\ handler[r] \in Handler /\ UNCHANGED row
  BY DEF PostAdjustment, At, Inv, TypeOK
<1>2. tx.type \in {CreditCode, DebitCode} /\ tx.account \in Wallet /\ tx.amount \in Amount
  BY <1>0, <1>1 DEF Inv, HandlersInv, Submitting, Handler, Transaction
<1>3. CASE Finish(r) /\ UNCHANGED ledgerVars
  BY <1>1, <1>3, FinishQuiet DEF Keeps, ledgerVars
<1>4. ASSUME NEW id \in FreshId, Post(id, tx.type, tx.account, tx.amount),
             handler' = [handler EXCEPT ![r].step = "insert", ![r].tx.hold = id,
                                        ![r].tx.status = "settled"]
      PROVE  A!Next
  <2>1. /\ DOMAIN handler' = DOMAIN handler /\ handler'[r].step = "insert"
        /\ \A q \in DOMAIN handler \ {r} : handler'[q] = handler[q]
    BY <1>1, <1>4 DEF Handler
  <2>2. \A x : BeingAdjusted(x)' <=> BeingAdjusted(x)
    BY <1>1, <2>1 DEF BeingAdjusted
  <2> QED BY <1>1, <1>2, <1>4, <2>2, PostOpens
<1> QED BY <1>0, <1>3, <1>4 DEF PostAdjustment

LEMMA PlaceAdjustedHoldStep ==
  ASSUME Inv, NEW r \in Request, PlaceAdjustedHold(r)
  PROVE  A!Next
<1>0. PICK h : h = handler[r]
  OBVIOUS
<1>1. r \in DOMAIN handler /\ h.step = "rehold" /\ h \in Handler /\ UNCHANGED row
  BY <1>0 DEF PlaceAdjustedHold, At, Inv, TypeOK
<1>2. h.tx.account \in Wallet /\ h.amount \in Amount
  BY <1>1 DEF Handler, Transaction
<1>3. PICK id \in FreshId :
        /\ Hold(id, EarnCode, h.tx.account, h.amount)
        /\ handler' = [handler EXCEPT ![r].step = "update", ![r].hold = id]
  BY <1>0 DEF PlaceAdjustedHold
<1>4. /\ DOMAIN handler' = DOMAIN handler
      /\ handler'[r].step = "update" /\ handler'[r].id = h.id
      /\ \A q \in DOMAIN handler \ {r} : handler'[q] = handler[q]
  BY <1>0, <1>1, <1>3 DEF Handler
<1>5. \A x : BeingAdjusted(x)' <=> BeingAdjusted(x)
  BY <1>0, <1>1, <1>4 DEF BeingAdjusted
<1> QED BY <1>1, <1>2, <1>3, <1>5, HoldOpens

----------------------------------------------------------------------------
(* A ticket becomes a request of record *)

LEMMA CreateTransactionStep ==
  ASSUME Inv, Kinds, NEW r \in Request, CreateTransaction(r)
  PROVE  A!Next
<1>0. PICK tx : tx = handler[r].tx
  OBVIOUS
<1> DEFINE t == tx.hold
<1>1. r \in DOMAIN handler /\ handler[r].step = "insert" /\ handler[r] \in Handler
      /\ tx \in Transaction /\ UNCHANGED <<account, transfer>> /\ Finish(r)
  BY <1>0 DEF CreateTransaction, At, Inv, TypeOK, Handler
<1>2. PICK x \in FreshRow :
        row' = [y \in DOMAIN row \cup {x} |-> IF y = x THEN tx ELSE row[y]]
  BY <1>0 DEF CreateTransaction
<1>3. /\ x \in RowId /\ x \notin DOMAIN row
      /\ DOMAIN row' = DOMAIN row \cup {x} /\ row'[x] = tx
      /\ \A y \in DOMAIN row : row'[y] = row[y]
  BY <1>2 DEF FreshRow
<1>4. /\ t \in DOMAIN transfer /\ transfer[t].code = tx.type
      /\ transfer[t].wallet = tx.account /\ transfer[t].amount = tx.amount
      /\ \A y \in DOMAIN row : row[y].hold # t
      /\ \/ tx.status = "pending" /\ transfer[t].state = "pending"
            /\ tx.type \in {EarnCode, RedeemCode}
         \/ tx.status = "settled" /\ transfer[t].state = "single"
  BY <1>0, <1>1 DEF Inv, HandlersInv, Submitting, Backs, Unnamed
<1>5. \A y : BeingAdjusted(y)' <=> BeingAdjusted(y)
  <2>1. /\ DOMAIN handler' = DOMAIN handler \ {r}
        /\ \A q \in DOMAIN handler' : handler'[q] = handler[q]
    BY <1>1, EndingFacts DEF Finish
  <2> QED BY <1>1, <2>1 DEF BeingAdjusted
<1>6. t \in TransferId
  BY <1>4 DEF Inv, TypeOK, LedgerTypeOK
<1>7. tx.status = "settled" <=> tx.type \in {CreditCode, DebitCode}
  BY <1>4 DEF Kinds, EarnCode, RedeemCode, CreditCode, DebitCode
<1>8. Unrecorded' = Unrecorded \ {t} /\ t \in Unrecorded
  BY <1>1, <1>3, <1>4 DEF Unrecorded
<1> HIDE DEF t
<1>9. /\ DOMAIN AbstractTicket = Unrecorded
      /\ AbstractTicket[t] = [type |-> tx.type, account |-> tx.account, amount |-> tx.amount]
      /\ AbstractTicket' = [u \in Unrecorded \ {t} |-> AbstractTicket[u]]
  BY <1>1, <1>4, <1>8 DEF AbstractTicket
<1>10. Outcome(x)' = tx.status
  BY <1>1, <1>3, <1>4, OutcomesNext DEF t
<1>11. \A y \in DOMAIN row : Outcome(y)' = Outcome(y)
  BY <1>1, <1>3, <1>5 DEF Outcome
<1>12. AbstractRequest' =
         [y \in DOMAIN AbstractRequest \cup {x} |->
           IF y = x THEN [type |-> tx.type, account |-> tx.account, amount |-> tx.amount,
                          status |-> tx.status]
           ELSE AbstractRequest[y]]
  BY <1>3, <1>10, <1>11 DEF AbstractRequest
<1>13. AbstractBalance' = AbstractBalance /\ AbstractReserved' = AbstractReserved
  BY <1>1, SameAmounts
<1>14. A!Submit(x, t)
  <2>1. DOMAIN AbstractRequest = DOMAIN row
    BY DEF AbstractRequest
  <2>2. A!Use(t)
    BY <1>9 DEF A!Use
  <2>3. A!AddRequest(x, AbstractTicket[t],
                     IF AbstractTicket[t].type \in A!Manual THEN "settled" ELSE "pending")
    <3>1. tx.status = IF AbstractTicket[t].type \in A!Manual THEN "settled" ELSE "pending"
      BY <1>4, <1>7, <1>9 DEF A!Manual, CreditCode, DebitCode
    <3> QED BY <1>9, <1>12, <3>1 DEF A!AddRequest
  <2> QED BY <1>3, <1>8, <1>9, <1>13, <2>1, <2>2, <2>3 DEF A!Submit
<1> QED BY <1>3, <1>6, <1>14 DEF A!Next, t

----------------------------------------------------------------------------
(* The ledger decides *)

LEMMA NobodyAdjusts ==
  ASSUME Inv, NEW x \in DOMAIN row, transfer[row[x].hold].state = "pending"
  PROVE  ~BeingAdjusted(x)
<1> SUFFICES ASSUME NEW q \in DOMAIN handler, handler[q].id = x,
                    handler[q].step \in {"rehold", "update"}
             PROVE  FALSE
  BY DEF BeingAdjusted
<1>1. row[x].hold = handler[q].tx.hold /\ transfer[handler[q].tx.hold].state = "voided"
  BY DEF Inv, HandlersInv, Recording, OwnsRow
<1> QED BY <1>1

(* The hold of one row is resolved: only that row's request is affected.       *)
LEMMA Resolved ==
  ASSUME Inv, NEW x \in DOMAIN row, NEW state \in {"posted", "voided"},
         transfer[row[x].hold].state = "pending",
         transfer' = [transfer EXCEPT ![row[x].hold].state = state],
         UNCHANGED row
  PROVE  /\ AbstractTicket' = AbstractTicket
         /\ transfer'[row[x].hold].state = state
         /\ \A y \in DOMAIN row \ {x} : transfer'[row[y].hold] = transfer[row[y].hold]
<1>1. row[x].hold \in DOMAIN transfer /\ \A y \in DOMAIN row \ {x} : row[y].hold # row[x].hold
  BY DEF Inv, RowsOwnTheirHolds
<1>2. /\ DOMAIN transfer' = DOMAIN transfer
      /\ \A t \in DOMAIN transfer \ {row[x].hold} : transfer'[t] = transfer[t]
      /\ transfer'[row[x].hold] = [transfer[row[x].hold] EXCEPT !.state = state]
  BY <1>1, ResolveFacts DEF Inv, TypeOK
<1>3. transfer'[row[x].hold].state = state
  BY <1>1, <1>2 DEF Inv, TypeOK, LedgerTypeOK, Transfer
<1>4. Unrecorded' = Unrecorded /\ row[x].hold \notin Unrecorded /\ Unrecorded \subseteq DOMAIN transfer
  BY <1>1, <1>2 DEF Unrecorded
<1>5. AbstractTicket' = AbstractTicket
  BY <1>2, <1>4, SameTickets
<1>6. \A y \in DOMAIN row \ {x} : transfer'[row[y].hold] = transfer[row[y].hold]
  BY <1>1, <1>2 DEF Inv, RowsOwnTheirHolds
<1> QED BY <1>3, <1>5, <1>6

LEMMA RequestDecided ==
  ASSUME NEW x \in DOMAIN row, NEW status, UNCHANGED row, Outcome(x)' = status,
         \A y \in DOMAIN row \ {x} : Outcome(y)' = Outcome(y)
  PROVE  AbstractRequest' = [AbstractRequest EXCEPT ![x].status = status]
<1> DEFINE R(y, s) == [type |-> row[y].type, account |-> row[y].account,
                       amount |-> row[y].amount, status |-> s]
<1>1. AbstractRequest = [y \in DOMAIN row |-> R(y, Outcome(y))]
  BY DEF AbstractRequest
<1>2. AbstractRequest' = [y \in DOMAIN row |-> R(y, IF y = x THEN status ELSE Outcome(y))]
  BY DEF AbstractRequest
<1>3. [R(x, Outcome(x)) EXCEPT !.status = status] = R(x, status)
  OBVIOUS
<1> HIDE DEF R
<1> QED BY <1>1, <1>2, <1>3

LEMMA ResolveHoldStep ==
  ASSUME Inv, Kinds, NEW r \in Request, ResolveHold(r)
  PROVE  A!Next \/ UNCHANGED A!vars
<1>0. PICK h, x, id, code : h = handler[r] /\ x = h.id /\ id = h.tx.hold /\ code = CodeFor(h.tx.type)
  OBVIOUS
<1>1. r \in DOMAIN handler /\ h.step = "resolve" /\ h \in Handler /\ UNCHANGED row
  BY <1>0 DEF ResolveHold, At, Inv, TypeOK
<1>2. CASE Finish(r) /\ UNCHANGED ledgerVars
  BY <1>0, <1>1, <1>2, FinishQuiet DEF Keeps, ledgerVars
<1>3. CASE Resolvable(id, code) /\ Goto(r, "record")
  <2>1. /\ x \in DOMAIN row /\ row[x].hold = id /\ row[x].status = "pending"
        /\ transfer[id].state = "pending"
    BY <1>0, <1>1, <1>3 DEF Inv, HandlersInv, Resolving, Reviews, Resolvable
  <2>2. /\ code \in {EarnCode, RedeemCode} /\ id \in DOMAIN transfer /\ transfer[id].code = code
        /\ row[x].type = code /\ row[x].account = transfer[id].wallet
        /\ row[x].amount = transfer[id].amount
    <3>1. code \in {EarnCode, RedeemCode}
      BY <1>0 DEF CodeFor
    <3>2. row[x].type = transfer[id].code /\ row[x].account = transfer[id].wallet
          /\ row[x].amount = transfer[id].amount
      BY <2>1 DEF Inv, RowsOwnTheirHolds
    <3> QED BY <1>3, <3>1, <3>2 DEF Resolvable
  <2>3. \A y : BeingAdjusted(y)' <=> BeingAdjusted(y)
    <3>1. /\ DOMAIN handler' = DOMAIN handler /\ handler'[r].step = "record"
          /\ \A q \in DOMAIN handler \ {r} : handler'[q] = handler[q]
      BY <1>1, <1>3, GotoFacts DEF Inv, Step
    <3> QED BY <1>0, <1>1, <3>1 DEF BeingAdjusted
  <2>4. ~BeingAdjusted(x) /\ ~BeingAdjusted(x)'
    BY <2>1, <2>3, NobodyAdjusts
  <2>5. Outcome(x) = "pending"
    BY <2>1, Outcomes
  <2>6. /\ x \in DOMAIN AbstractRequest
        /\ AbstractRequest[x] = [type |-> code, account |-> transfer[id].wallet,
                                 amount |-> transfer[id].amount, status |-> "pending"]
    BY <2>1, <2>2, <2>5 DEF AbstractRequest
  <2>7. x \in RowId
    BY <2>1 DEF Inv, TypeOK
  <2>8. CASE SettleHold(id, code)
    <3>1. transfer' = [transfer EXCEPT ![row[x].hold].state = "posted"]
      BY <2>1, <2>8 DEF SettleHold
    <3>2. /\ AbstractTicket' = AbstractTicket /\ transfer'[id].state = "posted"
          /\ \A y \in DOMAIN row \ {x} : transfer'[row[y].hold] = transfer[row[y].hold]
      BY <1>1, <2>1, <3>1, Resolved
    <3>3. Outcome(x)' = "settled"
      BY <1>1, <2>1, <3>2, OutcomesNext
    <3>4. \A y \in DOMAIN row \ {x} : Outcome(y)' = Outcome(y)
      BY <1>1, <2>3, <3>2 DEF Outcome
    <3>5. AbstractRequest' = [AbstractRequest EXCEPT ![x].status = "settled"]
      BY <1>1, <2>1, <3>3, <3>4, RequestDecided
    <3>6. /\ code = EarnCode => /\ AbstractBalance' = [AbstractBalance EXCEPT ![transfer[id].wallet]
                                                        = @ + transfer[id].amount]
                                /\ AbstractReserved' = AbstractReserved
          /\ code = RedeemCode =>
               /\ AbstractBalance' = [AbstractBalance EXCEPT ![transfer[id].wallet]
                                       = @ - transfer[id].amount]
               /\ AbstractReserved' = [AbstractReserved EXCEPT ![transfer[id].wallet]
                                        = @ - transfer[id].amount]
      BY <2>2, <2>8, SettleAmounts DEF Inv, TypeOK
    <3>7. A!Approve(x)
      BY <2>2, <2>6, <3>2, <3>5, <3>6 DEF A!Approve, A!Of, EarnCode, RedeemCode
    <3> QED BY <2>7, <3>7 DEF A!Next
  <2>9. CASE VoidHold(id, code)
    <3>1. transfer' = [transfer EXCEPT ![row[x].hold].state = "voided"]
      BY <2>1, <2>9 DEF VoidHold
    <3>2. /\ AbstractTicket' = AbstractTicket /\ transfer'[id].state = "voided"
          /\ \A y \in DOMAIN row \ {x} : transfer'[row[y].hold] = transfer[row[y].hold]
      BY <1>1, <2>1, <3>1, Resolved
    <3>3. Outcome(x)' = "voided"
      BY <1>1, <2>1, <2>4, <3>2, OutcomesNext
    <3>4. \A y \in DOMAIN row \ {x} : Outcome(y)' = Outcome(y)
      BY <1>1, <2>3, <3>2 DEF Outcome
    <3>5. AbstractRequest' = [AbstractRequest EXCEPT ![x].status = "voided"]
      BY <1>1, <2>1, <3>3, <3>4, RequestDecided
    <3>6. /\ AbstractBalance' = AbstractBalance
          /\ code = EarnCode => AbstractReserved' = AbstractReserved
          /\ code = RedeemCode =>
               AbstractReserved' = [AbstractReserved EXCEPT ![transfer[id].wallet]
                                     = @ - transfer[id].amount]
      BY <2>2, <2>9, VoidAmounts DEF Inv, TypeOK
    <3>7. A!Decline(x)
      BY <2>2, <2>6, <3>2, <3>5, <3>6 DEF A!Decline, A!Of, EarnCode, RedeemCode
    <3> QED BY <2>7, <3>7 DEF A!Next
  <2> QED BY <1>0, <1>1, <1>3, <2>8, <2>9 DEF ResolveHold
<1> QED BY <1>0, <1>2, <1>3 DEF ResolveHold, SettleHold, VoidHold

----------------------------------------------------------------------------
(* Adjusting a reward *)

(* The request stays pending although its hold is voided: it gets another one. *)
LEMMA VoidPriorHoldStep ==
  ASSUME Inv, NEW r \in Request, VoidPriorHold(r)
  PROVE  UNCHANGED A!vars
<1>0. PICK h, x, id, code : h = handler[r] /\ x = h.id /\ id = h.tx.hold /\ code = CodeFor(h.tx.type)
  OBVIOUS
<1>1. r \in DOMAIN handler /\ h.step = "void" /\ h \in Handler /\ UNCHANGED row
  BY <1>0 DEF VoidPriorHold, At, Inv, TypeOK
<1>2. CASE Finish(r) /\ UNCHANGED ledgerVars
  BY <1>0, <1>1, <1>2, FinishQuiet DEF Keeps, ledgerVars
<1>3. CASE VoidHold(id, code) /\ Goto(r, "rehold")
  <2>1. /\ x \in DOMAIN row /\ row[x].hold = id /\ row[x].status = "pending"
        /\ transfer[id].state = "pending" /\ code = EarnCode
        /\ transfer' = [transfer EXCEPT ![id].state = "voided"]
    BY <1>0, <1>1, <1>3 DEF Inv, HandlersInv, Resolving, Reviews, VoidHold, Resolvable, CodeFor,
                            EarnCode
  <2>2. /\ DOMAIN handler' = DOMAIN handler /\ handler'[r].step = "rehold" /\ handler'[r].id = x
        /\ \A q \in DOMAIN handler \ {r} : handler'[q] = handler[q]
    BY <1>0, <1>1, <1>3, GotoFacts DEF Inv, Step
  <2>3. BeingAdjusted(x)'
    BY <1>1, <2>2 DEF BeingAdjusted
  <2>4. \A y \in DOMAIN row \ {x} : BeingAdjusted(y)' <=> BeingAdjusted(y)
    BY <1>0, <1>1, <2>2 DEF BeingAdjusted
  <2>5. /\ AbstractTicket' = AbstractTicket /\ transfer'[id].state = "voided"
        /\ \A y \in DOMAIN row \ {x} : transfer'[row[y].hold] = transfer[row[y].hold]
    BY <1>1, <2>1, Resolved
  <2>6. Outcome(x) = "pending" /\ Outcome(x)' = "pending"
    BY <1>1, <2>1, <2>3, <2>5, Outcomes, OutcomesNext
  <2>7. \A y \in DOMAIN row \ {x} : Outcome(y)' = Outcome(y)
    BY <1>1, <2>4, <2>5 DEF Outcome
  <2>8. AbstractRequest' = AbstractRequest
    BY <1>1, <2>6, <2>7, SameRequests
  <2>9. AbstractBalance' = AbstractBalance /\ AbstractReserved' = AbstractReserved
    BY <1>3, <2>1, VoidAmounts DEF Inv, TypeOK
  <2> QED BY <2>5, <2>8, <2>9, Stutters
<1> QED BY <1>0, <1>2, <1>3 DEF VoidPriorHold

LEMMA AdjustAmountStep ==
  ASSUME Inv, NEW r \in Request, AdjustTransactionAmount(r)
  PROVE  A!Next
<1>0. PICK h, x, t : h = handler[r] /\ x = h.id /\ t = h.hold
  OBVIOUS
<1>1. r \in DOMAIN handler /\ h.step = "update" /\ h \in Handler /\ Finish(r)
      /\ UNCHANGED <<account, transfer>>
  BY <1>0 DEF AdjustTransactionAmount, At, Inv, TypeOK
<1>2. /\ x \in DOMAIN row /\ row[x].hold = h.tx.hold /\ row[x].status = "pending"
      /\ transfer[row[x].hold].state = "voided" /\ row[x].type = EarnCode
      /\ row[x].account = h.tx.account /\ h.tx.type = EarnCode
  BY <1>0, <1>1 DEF Inv, HandlersInv, Recording, OwnsRow, Reviews
<1>3. /\ t \in DOMAIN transfer /\ transfer[t].state = "pending"
      /\ \A y \in DOMAIN row : row[y].hold # t
      /\ Backs(t, [h.tx EXCEPT !.amount = h.amount])
  BY <1>0, <1>1 DEF Inv, HandlersInv, Recording, OwnsRow, Backs, Unnamed
<1>4. transfer[t].code = EarnCode /\ transfer[t].wallet = row[x].account
      /\ transfer[t].amount = h.amount
  <2>1. h.tx \in Transaction
    BY <1>1 DEF Handler
  <2> QED BY <1>2, <1>3, <2>1 DEF Backs, Transaction
<1>5. /\ row' = [row EXCEPT ![x].amount = h.amount, ![x].hold = t]
      /\ row[x] \in Transaction
  BY <1>0, <1>2 DEF AdjustTransactionAmount, Inv, TypeOK
<1>6. /\ DOMAIN row' = DOMAIN row /\ \A y \in DOMAIN row \ {x} : row'[y] = row[y]
      /\ row'[x].type = row[x].type /\ row'[x].account = row[x].account
      /\ row'[x].amount = h.amount /\ row'[x].hold = t /\ row'[x].status = "pending"
  BY <1>2, <1>5 DEF Transaction
<1>7. \A y \in DOMAIN row \ {x} : BeingAdjusted(y)' <=> BeingAdjusted(y)
  <2>1. /\ DOMAIN handler' = DOMAIN handler \ {r}
        /\ \A q \in DOMAIN handler' : handler'[q] = handler[q]
    BY <1>1, EndingFacts DEF Finish
  <2> QED BY <1>0, <1>1, <2>1 DEF BeingAdjusted
<1>8. BeingAdjusted(x)
  BY <1>0, <1>1 DEF BeingAdjusted
<1>9. Outcome(x) = "pending" /\ Outcome(x)' = "pending"
  BY <1>1, <1>2, <1>3, <1>6, <1>8, Outcomes, OutcomesNext
<1>10. \A y \in DOMAIN row \ {x} : Outcome(y)' = Outcome(y)
  BY <1>1, <1>6, <1>7 DEF Outcome
<1>11. AbstractRequest' = [AbstractRequest EXCEPT ![x].amount = h.amount]
  <2> DEFINE R(y, a, s) == [type |-> row[y].type, account |-> row[y].account,
                            amount |-> a, status |-> s]
  <2>1. AbstractRequest = [y \in DOMAIN row |-> R(y, row[y].amount, Outcome(y))]
    BY DEF AbstractRequest
  <2>2. AbstractRequest' =
          [y \in DOMAIN row |-> IF y = x THEN R(x, h.amount, Outcome(x))
                                ELSE R(y, row[y].amount, Outcome(y))]
    BY <1>6, <1>9, <1>10 DEF AbstractRequest
  <2>3. [R(x, row[x].amount, Outcome(x)) EXCEPT !.amount = h.amount] = R(x, h.amount, Outcome(x))
    OBVIOUS
  <2> HIDE DEF R
  <2> QED BY <2>1, <2>2, <2>3
<1>12. t \in Unrecorded /\ Unrecorded' = Unrecorded \ {t}
  BY <1>1, <1>2, <1>3, <1>6 DEF Unrecorded
<1>13. /\ DOMAIN AbstractTicket = Unrecorded
       /\ AbstractTicket[t] = [type |-> EarnCode, account |-> row[x].account, amount |-> h.amount]
       /\ AbstractTicket' = [u \in Unrecorded \ {t} |-> AbstractTicket[u]]
  BY <1>1, <1>4, <1>12 DEF AbstractTicket
<1>14. AbstractRequest[x] = [type |-> EarnCode, account |-> row[x].account, amount |-> row[x].amount,
                             status |-> "pending"]
       /\ x \in DOMAIN AbstractRequest
  BY <1>2, <1>9 DEF AbstractRequest
<1>15. AbstractBalance' = AbstractBalance /\ AbstractReserved' = AbstractReserved
  BY <1>1, SameAmounts
<1>16. A!Revise(x, t)
  BY <1>11, <1>12, <1>13, <1>14, <1>15 DEF A!Revise, A!Of, A!Use, EarnCode
<1>17. x \in RowId /\ t \in TransferId
  BY <1>2, <1>3 DEF Inv, TypeOK, LedgerTypeOK
<1> QED BY <1>16, <1>17 DEF A!Next

----------------------------------------------------------------------------
(* A cut abandons the requests whose new hold was on the way. *)

LEMMA CutOffStep ==
  ASSUME Inv, NEW S, CutOff(S)
  PROVE  A!Next \/ UNCHANGED A!vars
<1> DEFINE Lost == {x \in DOMAIN row : \E r \in S \cap DOMAIN handler :
                                         handler[r].id = x /\ Keeps(handler[r])}
<1>1. UNCHANGED <<account, transfer, row>>
  BY DEF CutOff
<1>2. /\ DOMAIN handler' = DOMAIN handler \ S
      /\ \A q \in DOMAIN handler' : handler'[q] = handler[q]
  BY EndingFacts DEF CutOff
<1>3. \A r \in DOMAIN handler : Keeps(handler[r]) =>
        /\ handler[r].id \in DOMAIN row
        /\ row[handler[r].id].type = EarnCode
        /\ row[handler[r].id].status = "pending"
        /\ transfer[row[handler[r].id].hold].state = "voided"
  BY DEF Inv, HandlersInv, Recording, OwnsRow, Reviews, Keeps
<1>4. PICK lost : lost = Lost
  OBVIOUS
<1>5. \A x \in DOMAIN row \ lost : BeingAdjusted(x)' <=> BeingAdjusted(x)
  BY <1>2, <1>4 DEF BeingAdjusted, Keeps
<1>6. \A x \in lost : BeingAdjusted(x) /\ ~BeingAdjusted(x)'
  BY <1>2, <1>4 DEF BeingAdjusted, Keeps, Inv, Exclusive, OwnsRow
<1>7. \A x \in lost : /\ x \in DOMAIN row /\ row[x].type = EarnCode
                      /\ row[x].status = "pending" /\ transfer[row[x].hold].state = "voided"
  BY <1>3, <1>4
<1>8. \A x \in lost : Outcome(x) = "pending" /\ Outcome(x)' = "voided"
  BY <1>1, <1>6, <1>7, Outcomes, OutcomesNext
<1>9. \A x \in DOMAIN row \ lost : Outcome(x)' = Outcome(x)
  BY <1>1, <1>5 DEF Outcome
<1>10. AbstractTicket' = AbstractTicket
  BY <1>1, SameTickets DEF Unrecorded
<1>11. AbstractBalance' = AbstractBalance /\ AbstractReserved' = AbstractReserved
  BY <1>1, SameAmounts
<1>12. CASE lost = {}
  BY <1>1, <1>9, <1>10, <1>11, <1>12, SameRequests, Stutters
<1>13. CASE lost # {}
  <2> DEFINE R(x, s) == [type |-> row[x].type, account |-> row[x].account,
                         amount |-> row[x].amount, status |-> s]
  <2>1. /\ DOMAIN AbstractRequest = DOMAIN row
        /\ \A x \in DOMAIN row : AbstractRequest[x] = R(x, Outcome(x))
    BY DEF AbstractRequest
  <2>2. AbstractRequest' = [x \in DOMAIN row |-> IF x \in lost THEN R(x, "voided")
                                                 ELSE R(x, Outcome(x))]
    BY <1>1, <1>8, <1>9 DEF AbstractRequest
  <2>3. \A x \in DOMAIN row : [R(x, Outcome(x)) EXCEPT !.status = "voided"] = R(x, "voided")
    OBVIOUS
  <2>4. \A x \in lost : x \in DOMAIN AbstractRequest /\ AbstractRequest[x].status = "pending"
                        /\ AbstractRequest[x].type = "earn"
    BY <1>7, <1>8, <2>1 DEF EarnCode
  <2> HIDE DEF R
  <2>5. AbstractRequest' = [x \in DOMAIN AbstractRequest |->
                             IF x \in lost THEN [AbstractRequest[x] EXCEPT !.status = "voided"]
                             ELSE AbstractRequest[x]]
    BY <2>1, <2>2, <2>3
  <2>6. A!Abandon(lost)
    BY <1>10, <1>11, <1>13, <2>4, <2>5 DEF A!Abandon, A!Of
  <2>7. lost \in SUBSET RowId
    BY <1>7 DEF Inv, TypeOK
  <2> QED BY <2>6, <2>7 DEF A!Next
<1> QED BY <1>12, <1>13

----------------------------------------------------------------------------
(* Kinds is kept by every step. *)

LEMMA KindsCreated ==
  ASSUME Inv, Kinds, NEW id \in FreshId, NEW code \in Code, NEW w \in Wallet,
         NEW amount \in Amount, NEW state \in {"pending", "single"},
         Create(id, code, w, amount, state),
         state = "single" <=> code \in {CreditCode, DebitCode}
  PROVE  Kinds'
<1>0. LedgerTypeOK  BY DEF Inv, TypeOK
<1>1. /\ DOMAIN transfer' = DOMAIN transfer \cup {id}
      /\ transfer'[id] = [code |-> code, wallet |-> w, amount |-> amount, state |-> state]
      /\ \A t \in DOMAIN transfer : transfer'[t] = transfer[t]
  BY <1>0 DEF LedgerTypeOK, FreshId, Create, Transfer
<1> QED BY <1>1 DEF Kinds

LEMMA KindsResolved ==
  ASSUME Inv, Kinds, NEW id \in DOMAIN transfer, NEW state \in {"posted", "voided"},
         transfer[id].state = "pending", transfer' = [transfer EXCEPT ![id].state = state]
  PROVE  Kinds'
<1>1. /\ DOMAIN transfer' = DOMAIN transfer
      /\ \A t \in DOMAIN transfer \ {id} : transfer'[t] = transfer[t]
      /\ transfer'[id] = [transfer[id] EXCEPT !.state = state]
  BY ResolveFacts DEF Inv, TypeOK
<1>2. transfer'[id].state = state /\ transfer'[id].code = transfer[id].code
  BY <1>1 DEF Inv, TypeOK, LedgerTypeOK, Transfer
<1> QED BY <1>1, <1>2 DEF Kinds

LEMMA KindsKept ==
  ASSUME Inv, Kinds, [Next]_holdsVars
  PROVE  Kinds'
<1>1. CASE UNCHANGED transfer
  BY <1>1 DEF Kinds
<1>2. ASSUME NEW r \in Request, PlaceHold(r) PROVE Kinds'
  <2>1. CASE UNCHANGED ledgerVars
    BY <1>1, <2>1 DEF ledgerVars
  <2>2. ASSUME NEW id \in FreshId, Hold(id, handler[r].tx.type, handler[r].tx.account,
                                        handler[r].tx.amount)
        PROVE  Kinds'
    <3>1. /\ handler[r].tx.type \in {EarnCode, RedeemCode}
          /\ handler[r].tx.account \in Wallet /\ handler[r].tx.amount \in Amount
      BY <1>2 DEF PlaceHold, At, Inv, TypeOK, HandlersInv, Submitting, Handler, Transaction
    <3> QED BY <2>2, <3>1, KindsCreated
            DEF Hold, Code, EarnCode, RedeemCode, CreditCode, DebitCode
  <2> QED BY <1>2, <2>1, <2>2 DEF PlaceHold
<1>3. ASSUME NEW r \in Request, PostAdjustment(r) PROVE Kinds'
  <2>1. CASE UNCHANGED ledgerVars
    BY <1>1, <2>1 DEF ledgerVars
  <2>2. ASSUME NEW id \in FreshId, Post(id, handler[r].tx.type, handler[r].tx.account,
                                        handler[r].tx.amount)
        PROVE  Kinds'
    <3>1. /\ handler[r].tx.type \in {CreditCode, DebitCode}
          /\ handler[r].tx.account \in Wallet /\ handler[r].tx.amount \in Amount
      BY <1>3 DEF PostAdjustment, At, Inv, TypeOK, HandlersInv, Submitting, Handler, Transaction
    <3> QED BY <2>2, <3>1, KindsCreated DEF Post, Code
  <2> QED BY <1>3, <2>1, <2>2 DEF PostAdjustment
<1>4. ASSUME NEW r \in Request, PlaceAdjustedHold(r) PROVE Kinds'
  <2>1. PICK id \in FreshId : Hold(id, EarnCode, handler[r].tx.account, handler[r].amount)
    BY <1>4 DEF PlaceAdjustedHold
  <2>2. handler[r].tx.account \in Wallet /\ handler[r].amount \in Amount
    BY <1>4 DEF PlaceAdjustedHold, At, Inv, TypeOK, Handler, Transaction
  <2> QED BY <2>1, <2>2, KindsCreated
          DEF Hold, Code, EarnCode, RedeemCode, CreditCode, DebitCode
<1>5. ASSUME NEW id, NEW code, SettleHold(id, code) \/ VoidHold(id, code) PROVE Kinds'
  BY <1>5, KindsResolved DEF SettleHold, VoidHold, Resolvable
<1>6. ASSUME NEW r \in Request, Continue(r) PROVE Kinds'
  BY <1>1, <1>2, <1>3, <1>4, <1>5, <1>6
  DEF Continue, ClaimBounty, CreateTransaction, ResolveHold, DecideTransaction,
      ReleaseBountyClaim, VoidPriorHold, AdjustTransactionAmount, ledgerVars
<1> QED BY <1>1, <1>6
        DEF Next, Submit, CreateEarning, ProposeChore, CreateRedemption, CreateAdjustment,
            Review, Decide, AdjustTransaction, Fault, Crash, CutOff, SetActive, holdsVars

----------------------------------------------------------------------------
LEMMA InitRefines == Init => A!Init /\ Kinds
<1> SUFFICES ASSUME Init PROVE A!Init /\ Kinds
  OBVIOUS
<1>1. /\ DOMAIN row = {} /\ DOMAIN transfer = {}
      /\ account = [a \in Account |-> NewAccount]
  BY DEF Init, LedgerInit
<1>2. AbstractTicket = [t \in {} |-> 0]
  BY <1>1 DEF AbstractTicket, Unrecorded
<1>3. AbstractRequest = [x \in {} |-> 0]
  BY <1>1 DEF AbstractRequest
<1>4. AbstractBalance = [w \in Wallet |-> 0] /\ AbstractReserved = [w \in Wallet |-> 0]
  BY <1>1 DEF AbstractBalance, AbstractReserved, NewAccount, Account
<1> QED BY <1>1, <1>2, <1>3, <1>4 DEF A!Init, Kinds

LEMMA StepRefines ==
  ASSUME Inv, Kinds, [Next]_holdsVars
  PROVE  [A!Next]_(A!vars)
<1>1. ASSUME NEW r \in Request, Continue(r) PROVE A!Next \/ UNCHANGED A!vars
  BY <1>1, ClaimBountyStep, PlaceHoldStep, PostAdjustmentStep, CreateTransactionStep,
     ResolveHoldStep, DecideTransactionStep, ReleaseStep, VoidPriorHoldStep,
     PlaceAdjustedHoldStep, AdjustAmountStep
  DEF Continue
<1>2. CASE UNCHANGED holdsVars
  <2>1. UNCHANGED <<account, transfer, row, handler>>
    BY <1>2 DEF holdsVars
  <2>2. \A x : BeingAdjusted(x)' <=> BeingAdjusted(x)
    BY <2>1 DEF BeingAdjusted
  <2> QED BY <2>1, <2>2, Quiet
<1>3. ASSUME NEW S, CutOff(S) PROVE A!Next \/ UNCHANGED A!vars
  BY <1>3, CutOffStep
<1>4. ASSUME NEW t \in Task, NEW active \in BOOLEAN, SetActive(t, active)
      PROVE  UNCHANGED A!vars
  BY <1>4, SetActiveStep
<1> QED BY <1>1, <1>2, <1>3, <1>4, SubmitStep, ReviewStep DEF Next, Fault, Crash

(* The handlers of holds.go and adjustments.go, call by call and with every     *)
(* interleaving and cut, implement the bank of Approvals: a movement is         *)
(* announced when the ledger takes it and is a request of record when its row   *)
(* is inserted; coins move exactly when the ledger resolves the hold of a       *)
(* pending request, once and by the amount on the row; the update of the row    *)
(* that follows changes nothing any more.                                       *)
THEOREM Refinement == Spec => ImplementsApprovals
<1>1. Init => A!Init /\ Kinds
  BY InitRefines
<1>2. Inv /\ Kinds /\ [Next]_holdsVars => Kinds' /\ [A!Next]_(A!vars)
  BY KindsKept, StepRefines
<1> QED BY <1>1, <1>2, InvHolds, PTL DEF Spec, ImplementsApprovals, A!Spec
==============================================================================
