--------------------------- MODULE HoldsInductive ---------------------------
(***************************************************************************)
(* Why the invariants of Holds hold: what every handler knows about the     *)
(* row, the hold and the bounty it works on, at each of its steps.  The     *)
(* ledger is what arbitrates between handlers: only one of them can resolve *)
(* a hold, and until that one is done nobody else can touch the row.        *)
(***************************************************************************)
EXTENDS HoldsRefinement

(* A hold backs a transaction: same purpose, wallet and amount. *)
Backs(t, tx) ==
  /\ t \in DOMAIN transfer
  /\ transfer[t].code = tx.type
  /\ transfer[t].wallet = tx.account
  /\ transfer[t].amount = tx.amount

Unnamed(t) == \A x \in DOMAIN row : row[x].hold # t

(* Reviewing a row: the handler's copy agrees with what never changes in it. *)
Reviews(h) ==
  /\ h.id \in DOMAIN row
  /\ h.tx.type = row[h.id].type
  /\ h.tx.account = row[h.id].account
  /\ h.tx.task = row[h.id].task

Submitting(h) ==
  /\ h.step \in {"claim", "hold"} =>
       h.tx.type \in {EarnCode, RedeemCode} /\ h.tx.status = "pending"
  /\ h.step = "claim" => h.tx.task \in Bounty
  /\ h.step = "post" =>
       h.tx.type \in {CreditCode, DebitCode} /\ h.tx.task = NoTask
  /\ h.step = "insert" =>
       /\ Backs(h.tx.hold, h.tx)
       /\ Unnamed(h.tx.hold)
       /\ \/ /\ h.tx.status = "pending"
             /\ transfer[h.tx.hold].state = "pending"
             /\ h.tx.type \in {EarnCode, RedeemCode}
          \/ /\ h.tx.status = "settled"
             /\ transfer[h.tx.hold].state = "single"
             /\ h.tx.task = NoTask

(* A handler may act on a stale row, but then its hold is resolved already. *)
Resolving(h) ==
  h.step \in {"resolve", "void"} =>
    /\ Reviews(h)
    /\ h.tx.hold \in DOMAIN transfer
    /\ transfer[h.tx.hold].state = "pending" =>
         row[h.id].hold = h.tx.hold /\ row[h.id].status = "pending"
    /\ h.step = "void" => h.tx.type = EarnCode

(* A handler that resolved the row's hold owns the row until it has written it. *)
OwnsRow(h) == h.step \in {"record", "rehold", "update"}
Recording(h) ==
  OwnsRow(h) =>
    /\ Reviews(h)
    /\ row[h.id].hold = h.tx.hold
    /\ row[h.id].status = "pending"
    /\ h.step = "record" =>
         transfer[h.tx.hold].state = IF h.outcome = "settled" THEN "posted" ELSE "voided"
    /\ h.step # "record" => transfer[h.tx.hold].state = "voided" /\ h.tx.type = EarnCode
    /\ h.step = "update" =>
         /\ Backs(h.hold, [h.tx EXCEPT !.amount = h.amount])
         /\ Unnamed(h.hold)
         /\ transfer[h.hold].state = "pending"

Releasing(h) ==
  h.step = "release" => h.tx.task \in Bounty /\ h.id \in DOMAIN row

HandlersInv ==
  \A r \in DOMAIN handler :
    Submitting(handler[r]) /\ Resolving(handler[r]) /\ Recording(handler[r])
      /\ Releasing(handler[r])

(* No two handlers own one row, or carry one new hold. *)
Exclusive ==
  \A r, q \in DOMAIN handler :
    r # q =>
      /\ OwnsRow(handler[r]) /\ OwnsRow(handler[q]) => handler[r].id # handler[q].id
      /\ handler[r].step \in {"insert", "update"} /\ handler[q].step \in {"insert", "update"}
           => NewHold(handler[r]) # NewHold(handler[q])

(* A manual adjustment is settled from the start, and only holds of earnings   *)
(* and redemptions are ever resolved.                                          *)
RowKinds ==
  \A x \in DOMAIN row :
    /\ row[x].type \in {CreditCode, DebitCode} => row[x].status = "settled"
    /\ row[x].status = "pending" => transfer[row[x].hold].state # "single"

(* The claim on a bounty is a token: one live row or one handler has it. *)
HasClaim(h, b) == h.step \in {"hold", "insert", "release"} /\ h.tx.task = b
Claimants(b) == {r \in DOMAIN handler : HasClaim(handler[r], b)}
ClaimInv(b) ==
  /\ task[b].claimed_by = Nobody => LiveSubmissions(b) = {} /\ Claimants(b) = {}
  /\ Claimants(b) # {} => LiveSubmissions(b) = {}
  /\ \A r, q \in Claimants(b) : r = q
  /\ \A x, y \in LiveSubmissions(b) : x = y
ClaimsInv == \A b \in Bounty : ClaimInv(b)

(* The inductive invariant: a handler that resolved a row's hold is the only   *)
(* one that may write the row until it has done so, a handler with a stale     *)
(* copy finds its hold resolved, and the claim on a bounty is in one pair of   *)
(* hands (holds.go:27-99, 164-220 and 277-325).                                *)
Inv ==
  /\ TypeOK
  /\ Solvent
  /\ RowsOwnTheirHolds
  /\ DecisionsMatchLedger
  /\ RowKinds
  /\ HandlersInv
  /\ Exclusive
  /\ ClaimsInv

----------------------------------------------------------------------------
(* What also holds as long as no handler was cut off. *)

(* Only an earning is for a task of the catalog. *)
TasksAreEarned ==
  /\ \A x \in DOMAIN row : row[x].task # NoTask => row[x].type = EarnCode
  /\ \A r \in DOMAIN handler :
       handler[r].tx.task # NoTask => handler[r].tx.type = EarnCode

(* Coins that move, or wait to, do so for a row or for a handler about to     *)
(* write one.                                                                 *)
HoldsAreNamed == \A t \in DOMAIN transfer : HoldIsNamed(t)

(* The rest of the inductive invariant: without a cut, whatever a handler     *)
(* takes in hand it also brings to an end.                                    *)
UncutInv ==
  /\ TasksAreEarned
  /\ faults = 0 => ClaimsAreBacked /\ PendingRowsAwaitDecision /\ HoldsAreNamed

(* Everything that is proved step by step, with cuts and without: what is owed *)
(* to whom is settled by who holds the claim, the hold and the row, whatever   *)
(* two handlers do in between (holds.go:27-99, 164-220 and 277-325).           *)
FullInv == Inv /\ UncutInv
=============================================================================
