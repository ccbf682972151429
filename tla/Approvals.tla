------------------------------ MODULE Approvals ------------------------------
(***************************************************************************)
(* What the household bank promises, with no handlers, ledger or tables in  *)
(* sight: coins move once per request, when an operator approves it, by the *)
(* amount the request shows; a decision is final; a wallet never owes more  *)
(* than it holds.  A movement is announced first (a ticket) and becomes a   *)
(* request of record later, or never when its handler is cut off.           *)
(***************************************************************************)
EXTENDS Integers

CONSTANTS Wallet, TicketId, RequestId, Amount

Submitted == {"earn", "redeem"}                    \* decided by an operator
Manual == {"adjust_credit", "adjust_debit"}        \* decided from the start
Movement == [type: Submitted \cup Manual, account: Wallet, amount: Amount]

VARIABLES
  ticket,       \* announced movements that are no request of record yet
  request,      \* requests of record, by id
  balance,      \* settled coins of each wallet
  reserved      \* coins of each wallet set aside for redemptions

vars == <<ticket, request, balance, reserved>>

Init ==
  /\ ticket = [t \in {} |-> 0]
  /\ request = [x \in {} |-> 0]
  /\ balance = [w \in Wallet |-> 0]
  /\ reserved = [w \in Wallet |-> 0]

Of(x, status) ==
  /\ x \in DOMAIN request
  /\ request[x].status = status

AddRequest(x, m, status) ==
  request' = [y \in DOMAIN request \cup {x} |->
               IF y = x
               THEN [type |-> m.type, account |-> m.account, amount |-> m.amount,
                     status |-> status]
               ELSE request[y]]

Use(t) == ticket' = [u \in DOMAIN ticket \ {t} |-> ticket[u]]

(* Announce a movement.  Spending needs coins that are settled and free.      *)
Open(t, m) ==
  LET w == m.account IN
  /\ t \notin DOMAIN ticket
  /\ ticket' = [u \in DOMAIN ticket \cup {t} |-> IF u = t THEN m ELSE ticket[u]]
  /\ m.type \in {"redeem", "adjust_debit"} => balance[w] - reserved[w] >= m.amount
  /\ reserved' = IF m.type = "redeem"
                 THEN [reserved EXCEPT ![w] = @ + m.amount]
                 ELSE reserved
  /\ balance' = CASE m.type = "adjust_credit" -> [balance EXCEPT ![w] = @ + m.amount]
                  [] m.type = "adjust_debit" -> [balance EXCEPT ![w] = @ - m.amount]
                  [] OTHER -> balance
  /\ UNCHANGED request

(* A ticket becomes a request of record, once. *)
Submit(x, t) ==
  /\ x \notin DOMAIN request
  /\ t \in DOMAIN ticket
  /\ AddRequest(x, ticket[t], IF ticket[t].type \in Manual THEN "settled" ELSE "pending")
  /\ Use(t)
  /\ UNCHANGED <<balance, reserved>>

(* A pending earning takes the amount of a newer ticket of its own wallet. *)
Revise(x, t) ==
  /\ Of(x, "pending")
  /\ t \in DOMAIN ticket
  /\ request[x].type = "earn" /\ ticket[t].type = "earn"
  /\ ticket[t].account = request[x].account
  /\ request' = [request EXCEPT ![x].amount = ticket[t].amount]
  /\ Use(t)
  /\ UNCHANGED <<balance, reserved>>

Approve(x) ==
  LET w == request[x].account
      a == request[x].amount
  IN /\ Of(x, "pending")
     /\ request' = [request EXCEPT ![x].status = "settled"]
     /\ IF request[x].type = "earn"
        THEN /\ balance' = [balance EXCEPT ![w] = @ + a]
             /\ UNCHANGED reserved
        ELSE /\ balance' = [balance EXCEPT ![w] = @ - a]
             /\ reserved' = [reserved EXCEPT ![w] = @ - a]
     /\ UNCHANGED ticket

Decline(x) ==
  LET w == request[x].account IN
  /\ Of(x, "pending")
  /\ request' = [request EXCEPT ![x].status = "voided"]
  /\ reserved' = IF request[x].type = "redeem"
                 THEN [reserved EXCEPT ![w] = @ - request[x].amount]
                 ELSE reserved
  /\ UNCHANGED <<ticket, balance>>

(* Earnings whose revision was cut off halfway can no longer be approved. *)
Abandon(S) ==
  /\ S # {}
  /\ \A x \in S : Of(x, "pending") /\ request[x].type = "earn"
  /\ request' = [x \in DOMAIN request |->
                  IF x \in S THEN [request[x] EXCEPT !.status = "voided"] ELSE request[x]]
  /\ UNCHANGED <<ticket, balance, reserved>>

Next ==
  \/ \E t \in TicketId, m \in Movement : Open(t, m)
  \/ \E x \in RequestId, t \in TicketId : Submit(x, t)
  \/ \E x \in RequestId, t \in TicketId : Revise(x, t)
  \/ \E x \in RequestId : Approve(x)
  \/ \E x \in RequestId : Decline(x)
  \/ \E S \in SUBSET RequestId : Abandon(S)

Spec == Init /\ [][Next]_vars
=============================================================================
