------------------------------- MODULE Ledger -------------------------------
(***************************************************************************)
(* The double-entry ledger as internal/ledger/ledger.go drives it: one      *)
(* household with an Issuance and a Redemption GL and a wallet per holder,  *)
(* two-phase (pending) transfers for requests awaiting an operator, and     *)
(* single-phase transfers for manual adjustments.  TigerBeetle executes one *)
(* transfer at a time, so each call is one atomic step.                     *)
(***************************************************************************)
EXTENDS Integers, Functions

CONSTANTS
  Wallet,       \* customer accounts (DebitsMustNotExceedCredits)
  Issuance,     \* the GL that mints coins
  Redemption,   \* the GL that takes spent coins
  TransferId,   \* tb.ID(): as many transfers as a behaviour may create
  Amount        \* minor units a transfer may carry

ASSUME AccountAssumption ==
  /\ Issuance \notin Wallet
  /\ Redemption \notin Wallet
  /\ Issuance # Redemption

ASSUME AmountAssumption == Amount \subseteq Nat \ {0}

ASSUME TransferIdAssumption == TransferId \subseteq Nat \ {0}

VARIABLES
  account,      \* balance counters of every account
  transfer      \* the transfers created so far, by id

ledgerVars == <<account, transfer>>

Account == Wallet \cup {Issuance, Redemption}

(* Transfer codes: what a transfer is for fixes its direction. *)
EarnCode == "earn"
RedeemCode == "redeem"
CreditCode == "adjust_credit"
DebitCode == "adjust_debit"
Mints == {EarnCode, CreditCode}
Code == {EarnCode, RedeemCode, CreditCode, DebitCode}

DebitAccount(code, wallet) == IF code \in Mints THEN Issuance ELSE wallet
CreditAccount(code, wallet) == IF code \in Mints THEN wallet ELSE Redemption

Counters == [debits_pending: Int, debits_posted: Int,
             credits_pending: Int, credits_posted: Int]

(* "single" is a transfer that was posted at once and never was a hold. *)
Transfer == [code: Code, wallet: Wallet, amount: Amount,
             state: {"pending", "posted", "voided", "single"}]

LedgerTypeOK ==
  /\ account \in [Account -> Counters]
  /\ DOMAIN transfer \subseteq TransferId
  /\ \A t \in DOMAIN transfer : transfer[t] \in Transfer

----------------------------------------------------------------------------
NewAccount == [debits_pending |-> 0, debits_posted |-> 0,
               credits_pending |-> 0, credits_posted |-> 0]

LedgerInit ==
  /\ account = [a \in Account |-> NewAccount]
  /\ transfer = [t \in {} |-> NewAccount]

(* What a holder sees as spendable: settled coins minus reserved ones. *)
Available(a) ==
  account[a].credits_posted - account[a].debits_posted - account[a].debits_pending

(* Mutant: the overdraft check forgets the coins that holds have reserved. *)
FundedIgnoringHolds(a, amount) ==
  a \in Wallet => account[a].credits_posted - account[a].debits_posted >= amount

(* Only wallets carry the no-overdraft flag; a GL may run a debit balance. *)
Funded(a, amount) == a \in Wallet => Available(a) >= amount

(* tb.ID() is unique and increases with time. *)
FreshId ==
  LET unused == TransferId \ DOMAIN transfer
  IN {t \in unused : \A u \in unused : t <= u}

Create(id, code, wallet, amount, state) ==
  transfer' = [t \in DOMAIN transfer \cup {id} |->
                IF t = id
                THEN [code |-> code, wallet |-> wallet, amount |-> amount, state |-> state]
                ELSE transfer[t]]

(* Ledger.hold: EarnHold and RedeemHold. *)
Hold(id, code, wallet, amount) ==
  LET debit == DebitAccount(code, wallet)
      credit == CreditAccount(code, wallet)
  IN /\ id \in FreshId
     /\ Funded(debit, amount)
     /\ Create(id, code, wallet, amount, "pending")
     /\ account' = [account EXCEPT ![debit].debits_pending = @ + amount,
                                   ![credit].credits_pending = @ + amount]

(* Ledger.post: Credit and Debit. *)
Post(id, code, wallet, amount) ==
  LET debit == DebitAccount(code, wallet)
      credit == CreditAccount(code, wallet)
  IN /\ id \in FreshId
     /\ Funded(debit, amount)
     /\ Create(id, code, wallet, amount, "single")
     /\ account' = [account EXCEPT ![debit].debits_posted = @ + amount,
                                   ![credit].credits_posted = @ + amount]

(* A post or a void names a hold that is still pending, under its own code;  *)
(* anything else is a failed transfer and changes nothing.                   *)
Resolvable(id, code) ==
  /\ id \in DOMAIN transfer
  /\ transfer[id].state = "pending"
  /\ transfer[id].code = code

SettleHold(id, code) ==
  LET amount == transfer[id].amount
      debit == DebitAccount(code, transfer[id].wallet)
      credit == CreditAccount(code, transfer[id].wallet)
  IN /\ Resolvable(id, code)
     /\ transfer' = [transfer EXCEPT ![id].state = "posted"]
     /\ account' = [account EXCEPT ![debit].debits_pending = @ - amount,
                                   ![debit].debits_posted = @ + amount,
                                   ![credit].credits_pending = @ - amount,
                                   ![credit].credits_posted = @ + amount]

VoidHold(id, code) ==
  LET amount == transfer[id].amount
      debit == DebitAccount(code, transfer[id].wallet)
      credit == CreditAccount(code, transfer[id].wallet)
  IN /\ Resolvable(id, code)
     /\ transfer' = [transfer EXCEPT ![id].state = "voided"]
     /\ account' = [account EXCEPT ![debit].debits_pending = @ - amount,
                                   ![credit].credits_pending = @ - amount]

(* codeFor: every type but a redemption is resolved under the earn code. *)
CodeFor(type) == IF type = "redeem" THEN RedeemCode ELSE EarnCode

----------------------------------------------------------------------------
(* No wallet can spend what it does not have: the coins reserved by its      *)
(* pending redemptions and the coins it has spent never exceed those it      *)
(* received, whatever order holds, settlements, voids and debits come in     *)
(* (ledger.go:69-71 and 96-98).                                              *)
Solvent ==
  \A w \in Wallet :
    account[w].debits_pending + account[w].debits_posted <= account[w].credits_posted
=============================================================================
