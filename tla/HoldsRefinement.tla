--------------------------- MODULE HoldsRefinement ---------------------------
(***************************************************************************)
(* The handlers of Holds keep the promises of Approvals.  The moment a      *)
(* request is decided is the ledger's answer, not the update of its row: a  *)
(* handler cut off between the two leaves a row that still says pending for *)
(* a request that is decided for good.                                      *)
(***************************************************************************)
EXTENDS Holds

(* The hold of x was voided to be replaced, and its handler is still at it. *)
BeingAdjusted(x) ==
  \E r \in DOMAIN handler : handler[r].id = x /\ handler[r].step \in {"rehold", "update"}

Outcome(x) ==
  IF row[x].status # "pending" THEN row[x].status
  ELSE CASE transfer[row[x].hold].state = "pending" -> "pending"
         [] transfer[row[x].hold].state = "voided" ->
              IF BeingAdjusted(x) THEN "pending" ELSE "voided"
         [] OTHER -> "settled"

(* Holds and postings that no row names: not yet, or never. *)
Unrecorded ==
  {t \in DOMAIN transfer :
     /\ transfer[t].state \in {"pending", "single"}
     /\ \A x \in DOMAIN row : row[x].hold # t}

AbstractTicket ==
  [t \in Unrecorded |-> [type |-> transfer[t].code, account |-> transfer[t].wallet,
                         amount |-> transfer[t].amount]]

AbstractRequest ==
  [x \in DOMAIN row |-> [type |-> row[x].type, account |-> row[x].account,
                         amount |-> row[x].amount, status |-> Outcome(x)]]

AbstractBalance ==
  [w \in Wallet |-> account[w].credits_posted - account[w].debits_posted]

AbstractReserved == [w \in Wallet |-> account[w].debits_pending]

A == INSTANCE Approvals WITH
       TicketId <- TransferId, RequestId <- RowId,
       ticket <- AbstractTicket, request <- AbstractRequest,
       balance <- AbstractBalance, reserved <- AbstractReserved

(* Every behaviour of the handlers, with their interleavings and cuts, is a   *)
(* behaviour of Approvals: coins move exactly when a request is decided, once *)
(* and by the amount on its row (holds.go, adjustments.go, ledger.go).        *)
ImplementsApprovals == A!Spec
=============================================================================
