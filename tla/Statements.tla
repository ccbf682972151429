------------------------------ MODULE Statements ------------------------------
(***************************************************************************)
(* Monthly statements: the job (cmd/statement-job/main.go) and the        *)
(* download (internal/api/charts.go) generate them                         *)
(* (internal/statement/statement.go) from the transactions table, by one   *)
(* query after the other (internal/store/charts.go, transactions.go),      *)
(* while requests are settled and adjustments are dated back; the ranking  *)
(* of the chores, which only reads too, is left out.  The job stores each  *)
(* in the Inbox (internal/store/statements.go) and mails it.               *)
(***************************************************************************)
EXTENDS Money, Sequences, FiniteSets, Functions

CONSTANTS
  Account,      \* the customer accounts of a household, numbered as they were opened
  Active,       \* those with transactions
  MonthLength,  \* the days of each month of the calendar, in order
  TaskValue,    \* the amounts of requests
  Typed,        \* the amounts that are typed for adjustments
  Recipient,    \* mail is configured and an operator has an address
  MaxRows,      \* transactions
  MaxRuns,      \* statements downloaded and jobs run
  MaxFaults     \* calls that fail, and jobs that are cut

Month == DOMAIN MonthLength

ASSUME StatementsAssumption ==
  /\ Account \subseteq Nat /\ Account # {} /\ IsFiniteSet(Account) /\ Active \subseteq Account
  /\ MonthLength \in Seq(Nat \ {0}) /\ MonthLength # <<>>
  /\ Typed \subseteq Coins /\ TaskValue \subseteq Coins
  /\ \A typed \in Typed \cup TaskValue : typed.places <= Scale => FracIsPartOfCoin(typed)
  /\ Recipient \in BOOLEAN
  /\ MaxRows \in Nat /\ MaxRuns \in Nat /\ MaxFaults \in Nat

VARIABLES
  today,   \* the date, UTC
  row,     \* the transactions table; the month is that of the value date
  run,     \* the job or download that runs, or the last one that did
  inbox,   \* the statements table, in the order of the inserts
  runs, faults

vars == <<today, row, run, inbox, runs, faults>>

Earned == {"earn", "adjust_credit"}
Redeemed == {"redeem", "adjust_debit"}
Transaction == [account: Account, kind: Earned \cup Redeemed, month: Month,
                typed: Typed \cup TaskValue, amount: 1..MaxInt, status: {"pending", "settled"}]

(* What a statement shows, and the account's rows that were settled when it    *)
(* was begun.                                                                  *)
Statement(rows) ==
  [account: Account, month: 0..Len(MonthLength), known: SUBSET rows,
   opening: Int, closing: Int, earned: Nat, redeemed: Nat, items: SUBSET rows]

Step == {"opening", "history", "summary", "items", "made", "mail", "mark", "done"}

TypeOK ==
  LET rows == DOMAIN row IN
  /\ today.month \in Month /\ today.day \in 1..MonthLength[today.month]
  /\ rows \subseteq 1..MaxRows
  /\ \A r \in rows : row[r] \in Transaction
  /\ run.step \in Step
  /\ run.period \in 0..Len(MonthLength)
  /\ run.left \subseteq Account /\ run.failed \subseteq Account
  /\ run.step # "done" => run.page.account \in run.left /\ run.page.month = run.period
  /\ \A i \in 1..Len(inbox) :
       /\ inbox[i].page \in Statement(rows)
       /\ inbox[i].run \in 1..MaxRuns
  /\ runs \in 0..MaxRuns
  /\ faults \in 0..MaxFaults

Fault == faults < MaxFaults /\ faults' = faults + 1

----------------------------------------------------------------------------
(* The calendar and the table *)

Tick ==
  /\ IF today.day < MonthLength[today.month]
     THEN today' = [today EXCEPT !.day = @ + 1]
     ELSE today.month < Len(MonthLength) /\ today' = [month |-> today.month + 1, day |-> 1]
  /\ UNCHANGED <<row, run, inbox, runs, faults>>

Insert(a, kind, typed, month, status) ==
  /\ Cardinality(DOMAIN row) < MaxRows
  /\ Parses(typed)
  /\ ParseCoins(typed) > 0
  /\ row' = Append(row, [account |-> a, kind |-> kind, month |-> month, typed |-> typed,
                         amount |-> ParseCoins(typed), status |-> status])
  /\ UNCHANGED <<today, run, inbox, runs, faults>>

(* A request has the value date of the day it was made on. *)
Submit(a, kind, typed) == Insert(a, kind, typed, today.month, "pending")

(* An adjustment is settled at once, with any date (parseOccurred). *)
Adjust(a, kind, typed, month) == Insert(a, kind, typed, month, "settled")

(* To a statement a request that is voided is like one that stays pending.     *)
Settle(r) ==
  /\ row[r].status = "pending"
  /\ row' = [row EXCEPT ![r].status = "settled"]
  /\ UNCHANGED <<today, run, inbox, runs, faults>>

Total(rows) == SumFunctionOnSet([r \in DOMAIN row |-> row[r].amount], rows)
OfKind(rows, kinds) == {r \in rows : row[r].kind \in kinds}
Balance(rows) == Total(OfKind(rows, Earned)) - Total(OfKind(rows, Redeemed))

Settled(a) == {r \in DOMAIN row : row[r].account = a /\ row[r].status = "settled"}
ValuedIn(a, from, to) == {r \in Settled(a) : from <= row[r].month /\ row[r].month < to}

(* Mutant: the period runs to the end of the month after. *)
PeriodWithNextMonth(m) == [from |-> m, to |-> m + 2]

PeriodBounds(m) == [from |-> m, to |-> m + 1]

----------------------------------------------------------------------------
(* Generate: four queries, no transaction around them *)

Newest(accounts) == CHOOSE a \in accounts : \A b \in accounts : b <= a
NoAccount == Newest(Account)
Blank(a, m) ==
  [account |-> a, month |-> m, known |-> {}, opening |-> 0, closing |-> 0,
   earned |-> 0, redeemed |-> 0, items |-> {}]

At(step) == run.step = step
Page == run.page
Bounds == PeriodBounds(Page.month)
InPeriod == ValuedIn(Page.account, Bounds.from, Bounds.to)

Query(step, page, next) ==
  /\ At(step)
  /\ run' = [run EXCEPT !.page = page, !.step = next]
  /\ UNCHANGED <<today, row, inbox, runs, faults>>

(* Mutant: a month opens with the balance that the stored statement of the     *)
(* month before ended with.                                                    *)
QueryOpeningOfInbox ==
  LET before == {i \in 1..Len(inbox) : inbox[i].page.account = Page.account
                                        /\ inbox[i].page.month = Page.month - 1}
  IN Query("opening",
           [Page EXCEPT !.known = Settled(Page.account),
                        !.opening = IF before # {}
                                    THEN inbox[Newest(before)].page.closing
                                    ELSE Balance({r \in Settled(Page.account) :
                                                    row[r].month < Bounds.from})],
           "history")

QueryOpening ==
  Query("opening",
        [Page EXCEPT !.known = Settled(Page.account),
                     !.opening = Balance({r \in Settled(Page.account) : row[r].month < Bounds.from})],
        "history")
QueryHistory ==
  Query("history", [Page EXCEPT !.closing = Page.opening + Balance(InPeriod)], "summary")

QuerySummary ==
  Query("summary", [Page EXCEPT !.earned = Total(OfKind(InPeriod, Earned)),
                                !.redeemed = Total(OfKind(InPeriod, Redeemed))], "items")
QueryItems ==
  Query("items", [Page EXCEPT !.items = InPeriod], "made")

----------------------------------------------------------------------------
(* The job and the download *)

(* AddDate(0, -1, 0): a day the month before does not have runs over into the  *)
(* month it came from.                                                         *)
MonthBack(date) ==
  IF date.month > 1 /\ date.day > MonthLength[date.month - 1] THEN date.month ELSE date.month - 1

Idle == [kind |-> "none", on |-> [month |-> 1, day |-> 1], period |-> 0, step |-> "done",
         left |-> {}, failed |-> {}, page |-> Blank(NoAccount, 0)]

Begin(kind, accounts, a, period) ==
  /\ At("done") /\ runs < MaxRuns
  /\ runs' = runs + 1
  /\ run' = [kind |-> kind, on |-> today, period |-> period, step |-> "opening",
             left |-> accounts, failed |-> {}, page |-> Blank(a, period)]
  /\ UNCHANGED <<today, row, inbox, faults>>

StartJob == Begin("job", Account, Newest(Account), MonthBack(today))
StartDownload(a, m) == Begin("download", {a}, a, m)

(* Mutant: an account that fails ends the job. *)
GiveUp(failed) ==
  run' = [run EXCEPT !.failed = @ \cup failed, !.step = "done", !.page = Blank(NoAccount, 0)]

(* Mutant: the account that is done is not taken off the list. *)
SameAccount(failed) ==
  run' = [run EXCEPT !.failed = @ \cup failed, !.left = @ \ failed, !.step = "opening",
                     !.page = Blank(Page.account, run.period)]

(* The next account, whatever happened to this one. *)
NextAccount(failed) ==
  LET rest == run.left \ {Page.account}
      after == [run EXCEPT !.failed = @ \cup failed, !.left = rest]
  IN IF rest = {}
     THEN run' = [after EXCEPT !.step = "done", !.page = Blank(NoAccount, 0)]
     ELSE run' = [after EXCEPT !.step = "opening", !.page = Blank(Newest(rest), run.period)]

GenerateFails ==
  /\ run.step \in {"opening", "history", "summary", "items"}
  /\ Fault
  /\ NextAccount({Page.account})
  /\ UNCHANGED <<today, row, inbox, runs>>

(* The download is handed out and not stored. *)
Deliver ==
  /\ At("made") /\ run.kind = "download"
  /\ run' = Idle
  /\ UNCHANGED <<today, row, inbox, runs, faults>>

(* The notification that follows a statement into the Inbox cannot fail it.     *)
SaveStatement ==
  /\ At("made") /\ run.kind = "job"
  /\ \/ /\ inbox' = Append(inbox, [page |-> Page, run |-> runs, mailed |-> FALSE, marked |-> FALSE])
        /\ IF Recipient THEN run' = [run EXCEPT !.step = "mail"] ELSE NextAccount({})
        /\ UNCHANGED faults
     \/ Fault /\ NextAccount({Page.account}) /\ UNCHANGED inbox
  /\ UNCHANGED <<today, row, runs>>

Note(field) == inbox' = [inbox EXCEPT ![Len(inbox)][field] = TRUE]

SendStatement ==
  /\ At("mail")
  /\ \/ Note("mailed") /\ run' = [run EXCEPT !.step = "mark"] /\ UNCHANGED faults
     \/ Fault /\ NextAccount({}) /\ UNCHANGED inbox
  /\ UNCHANGED <<today, row, runs>>

MarkStatementEmailed ==
  /\ At("mark")
  /\ \/ Note("marked") /\ UNCHANGED faults
     \/ Fault /\ UNCHANGED inbox
  /\ NextAccount({})
  /\ UNCHANGED <<today, row, runs>>

(* The job is killed: it is not known to have failed for anybody. *)
CutJob ==
  /\ ~At("done") /\ run.kind = "job"
  /\ Fault
  /\ run' = Idle
  /\ UNCHANGED <<today, row, inbox, runs>>

----------------------------------------------------------------------------
Init ==
  /\ today = [month |-> 1, day |-> 1]
  /\ row = <<>>
  /\ run = Idle
  /\ inbox = <<>>
  /\ runs = 0
  /\ faults = 0

Next ==
  \/ Tick
  \/ \E a \in Active :
       \/ \E kind \in {"earn", "redeem"}, typed \in TaskValue : Submit(a, kind, typed)
       \/ \E kind \in {"adjust_credit", "adjust_debit"}, typed \in Typed, m \in Month :
            Adjust(a, kind, typed, m)
  \/ \E r \in DOMAIN row : Settle(r)
  \/ StartJob
  \/ \E a \in Account, m \in Month : StartDownload(a, m)
  \/ QueryOpening \/ QueryHistory \/ QuerySummary \/ QueryItems \/ GenerateFails
  \/ Deliver \/ SaveStatement \/ SendStatement \/ MarkStatementEmailed
  \/ CutJob

Spec == Init /\ [][Next]_vars

----------------------------------------------------------------------------
(* The statements that were made, stored or just downloaded. *)
Pages == {inbox[i].page : i \in 1..Len(inbox)} \cup (IF At("made") THEN {Page} ELSE {})

(* The four queries are no snapshot (statement.go:70-85), but each sees what    *)
(* the one before saw: the closing balance, the sums of the month and its lines *)
(* are about the rows known at the start and, in this order, ever more of those *)
(* settled meanwhile, and about no other.  The statement of the month after     *)
(* begins with the balance this one ended with, plus exactly the rows dated up  *)
(* to this month that one of the two has counted and the other has not: a late  *)
(* adjustment or settlement is taken in once, by whichever is made after it     *)
(* (store/charts.go:28-60).                                                     *)
DatedBefore(s, m) == {r \in s.known : row[r].month < m}

Continues(t, s, counted) ==
  LET carried == DatedBefore(t, t.month)
  IN t.opening - s.closing = Balance(carried \ counted) - Balance(counted \ carried)

StatementsAgree ==
  \A s \in Pages : \E summed \in SUBSET s.items, closed \in SUBSET s.items :
    /\ {r \in s.known : row[r].month = s.month} \subseteq closed /\ closed \subseteq summed
    /\ s.closing = s.opening + Balance(closed)
    /\ s.earned = Total(OfKind(summed, Earned)) /\ s.redeemed = Total(OfKind(summed, Redeemed))
    /\ \A t \in Pages : t.account = s.account /\ t.month = s.month + 1 =>
         Continues(t, s, DatedBefore(s, s.month) \cup closed)

(* What was settled when the statement of its month was begun is on it, and on  *)
(* no other; a line shows the coins that were typed, unless they were too many  *)
(* for the integers (money.go:60).                                              *)
RowsAreReported ==
  \A s \in Pages :
    /\ {r \in s.known : row[r].month = s.month} \subseteq s.items
    /\ \A r \in s.items :
         /\ row[r].account = s.account /\ row[r].status = "settled" /\ row[r].month = s.month
         /\ SameCoins(row[r].typed, Format(row[r].amount)) \/ TooLarge(row[r].typed)

(* A job that comes to its end has stored one statement of the month before for *)
(* every account it did not fail on, when that month has the day it runs on     *)
(* (main.go:59); each is mailed after it is in the Inbox and marked only then   *)
(* (main.go:108-114).                                                           *)
JobsCoverTheMonthBefore ==
  /\ (run.kind = "job" /\ At("done")) =>
       \A a \in Account \ run.failed :
         \E i \in 1..Len(inbox) :
           /\ inbox[i].run = runs /\ inbox[i].page.account = a
           /\ \A j \in 1..Len(inbox) :
                (inbox[j].run = runs /\ inbox[j].page.account = a) => j = i
           /\ (run.on.month = 1 \/ run.on.day <= MonthLength[run.on.month - 1]) =>
                inbox[i].page.month = run.on.month - 1
  /\ \A i \in 1..Len(inbox) : inbox[i].marked => inbox[i].mailed
===============================================================================
