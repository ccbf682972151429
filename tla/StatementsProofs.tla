--------------------------- MODULE StatementsProofs ---------------------------
(***************************************************************************)
(* Statements and the job that stores them, for any number of accounts,     *)
(* months, rows, runs and faults, any amounts and any width of integers.    *)
(***************************************************************************)
EXTENDS Statements, Sums

----------------------------------------------------------------------------
(* Amounts *)

LEMMA DivideAgain ==
  ASSUME NEW m \in Nat \ {0}, NEW w \in Nat, NEW f \in Nat, f < m
  PROVE  (w * m + f) \div m = w /\ (w * m + f) % m = f
<1>1. f \in 0..(m - 1)
  OBVIOUS
<1> QED BY <1>1

LEMMA WholeFits ==
  ASSUME NEW m \in Nat \ {0}, NEW x \in Nat, NEW w \in Nat, NEW f \in Nat, f < m, w < x \div m
  PROVE  w * m + f <= x
<1>1. w + 1 <= x \div m
  OBVIOUS
<1>2. (w + 1) * m <= x
  BY <1>1
<1>3. (w + 1) * m = w * m + m /\ w * m \in Nat
  OBVIOUS
<1> QED BY <1>2, <1>3

LEMMA WrapFacts ==
  ASSUME NEW n \in Int
  PROVE  /\ Wrap(n) \in Int /\ Wrap(n) <= MaxInt
         /\ 0 <= n /\ n <= MaxInt => Wrap(n) = n
<1>1. MaxInt \in Nat \ {0}
  BY MoneyAssumption
<1>2. (n + MaxInt + 1) % (2 * (MaxInt + 1)) \in 0..(2 * (MaxInt + 1) - 1)
  BY <1>1
<1>3. ASSUME 0 <= n, n <= MaxInt
      PROVE  (n + MaxInt + 1) % (2 * (MaxInt + 1)) = n + MaxInt + 1
  BY <1>1, <1>3
<1> QED BY <1>1, <1>2, <1>3 DEF Wrap

(* What is typed and accepted is a number of coins; unless it is too large it  *)
(* is parsed into minor units that read the same (money.go:27-84).             *)
LEMMA ParsedAmounts ==
  ASSUME NEW typed \in Typed \cup TaskValue, Parses(typed), ParseCoins(typed) > 0
  PROVE  /\ ParseCoins(typed) \in 1..MaxInt
         /\ SameCoins(typed, Format(ParseCoins(typed))) \/ TooLarge(typed)
<1>1. /\ typed.whole \in Nat /\ typed.frac \in Nat /\ typed.places \in Nat
      /\ typed.negative = FALSE /\ typed.places <= Scale
      /\ FracMinor(typed) < MinorPerCoin
  BY StatementsAssumption DEF Coins, Parses, FracIsPartOfCoin
<1>2. MinorPerCoin \in Nat \ {0} /\ FracMinor(typed) \in Nat /\ MaxInt \in Nat
  <2>1. Scale \in Nat /\ Scale - typed.places \in 0..Scale /\ Scale \in 0..Scale
    BY <1>1, MoneyAssumption
  <2>2. Base ^ (Scale - typed.places) \in Nat /\ Base ^ Scale \in Nat \ {0}
    BY <2>1, PowersAssumption
  <2> QED BY <1>1, <2>2, MoneyAssumption DEF MinorPerCoin, FracMinor
<1> DEFINE n == typed.whole * MinorPerCoin + FracMinor(typed)
<1>3. n \in Nat
  BY <1>1, <1>2
<1>4. ParseCoins(typed) \in 1..MaxInt
  BY <1>2, <1>3, WrapFacts DEF ParseCoins
<1>5. ASSUME ~TooLarge(typed)
      PROVE  SameCoins(typed, Format(ParseCoins(typed)))
  <2>1. typed.whole < MaxInt \div MinorPerCoin
    BY <1>1, <1>2, <1>5 DEF TooLarge
  <2>2. n <= MaxInt
    BY <1>1, <1>2, <2>1, WholeFits
  <2>3. ParseCoins(typed) = n
    BY <1>2, <1>3, <2>2, WrapFacts DEF ParseCoins
  <2>4. n \div MinorPerCoin = typed.whole /\ n % MinorPerCoin = FracMinor(typed)
    BY <1>1, <1>2, DivideAgain
  <2> HIDE DEF n
  <2>5. ~(n < 0)
    BY <1>3
  <2>6. /\ Format(n).negative = FALSE
        /\ Format(n).whole = n \div MinorPerCoin
        /\ Format(n).minor = n % MinorPerCoin
    <3>1. (n < 0) = FALSE
      BY <1>3, <2>5
    <3>2. Format(n) = [negative |-> n < 0, whole |-> n \div MinorPerCoin,
                       minor |-> n % MinorPerCoin]
      BY <2>5, Zenon DEF Format
    <3>3. Format(n) = [negative |-> FALSE, whole |-> n \div MinorPerCoin,
                       minor |-> n % MinorPerCoin]
      BY <3>1, <3>2, Zenon
    <3> QED BY <3>3
  <2>7. SameCoins(typed, Format(n))
    BY <1>1, <2>4, <2>6 DEF SameCoins
  <2> QED BY <2>3, <2>7
<1> QED BY <1>4, <1>5

----------------------------------------------------------------------------
(* Sums of amounts, over the rows of a table *)

Sum(table, S) == SumFunctionOnSet([r \in DOMAIN table |-> table[r].amount], S)
Of(table, S, kinds) == {r \in S : table[r].kind \in kinds}
Bal(table, S) == Sum(table, Of(table, S, Earned)) - Sum(table, Of(table, S, Redeemed))

Priced(table) ==
  IsFiniteSet(DOMAIN table) /\ \A r \in DOMAIN table : table[r].amount \in Nat

(* Rows stay; of what a statement shows only that they are settled changes,    *)
(* and never back.                                                             *)
Keeps(old, new) ==
  \A r \in DOMAIN old :
    /\ r \in DOMAIN new
    /\ new[r].account = old[r].account /\ new[r].kind = old[r].kind
    /\ new[r].month = old[r].month /\ new[r].amount = old[r].amount
    /\ new[r].typed = old[r].typed
    /\ old[r].status = "settled" => new[r].status = "settled"

LEMMA SumNat ==
  ASSUME NEW table, Priced(table), NEW S \in SUBSET DOMAIN table
  PROVE  Sum(table, S) \in Nat
<1> DEFINE f == [r \in DOMAIN table |-> table[r].amount]
<1>1. IsFiniteSet(S)
  BY FS_Subset DEF Priced
<1>2. \A r \in S : f[r] \in Nat
  BY DEF Priced
<1> HIDE DEF f
<1>3. SumFunctionOnSet(f, S) \in Nat
  BY <1>1, <1>2, SumOfNats
<1> QED BY <1>3 DEF Sum, f

LEMMA SumKept ==
  ASSUME NEW old, NEW new, Priced(old), Keeps(old, new), NEW S \in SUBSET DOMAIN old
  PROVE  Sum(new, S) = Sum(old, S)
<1> DEFINE f == [r \in DOMAIN old |-> old[r].amount]
           g == [r \in DOMAIN new |-> new[r].amount]
<1>1. IsFiniteSet(S) /\ \A r \in S : g[r] = f[r]
  BY FS_Subset DEF Priced, Keeps
<1> HIDE DEF f, g
<1>2. SumFunctionOnSet(g, S) = SumFunctionOnSet(f, S)
  BY <1>1, SumCongruent
<1> QED BY <1>2 DEF Sum, f, g

LEMMA OfKept ==
  ASSUME NEW old, NEW new, Keeps(old, new), NEW S \in SUBSET DOMAIN old, NEW kinds
  PROVE  Of(new, S, kinds) = Of(old, S, kinds) /\ Of(old, S, kinds) \in SUBSET DOMAIN old
BY DEF Keeps, Of

LEMMA BalKept ==
  ASSUME NEW old, NEW new, Priced(old), Keeps(old, new), NEW S \in SUBSET DOMAIN old
  PROVE  Bal(new, S) = Bal(old, S)
<1>1. /\ Sum(new, Of(new, S, Earned)) = Sum(old, Of(old, S, Earned))
      /\ Sum(new, Of(new, S, Redeemed)) = Sum(old, Of(old, S, Redeemed))
  BY OfKept, SumKept
<1> QED BY <1>1 DEF Bal

LEMMA BalInt ==
  ASSUME NEW table, Priced(table), NEW S \in SUBSET DOMAIN table
  PROVE  Bal(table, S) \in Int
<1>1. Of(table, S, Earned) \in SUBSET DOMAIN table /\ Of(table, S, Redeemed) \in SUBSET DOMAIN table
  BY DEF Of
<1> QED BY <1>1, SumNat DEF Bal

LEMMA SumSplits ==
  ASSUME NEW table, Priced(table), NEW R \in SUBSET DOMAIN table, NEW S \in SUBSET DOMAIN table,
         R \cap S = {}
  PROVE  Sum(table, R \cup S) = Sum(table, R) + Sum(table, S)
<1> DEFINE f == [r \in DOMAIN table |-> table[r].amount]
<1>1. IsFiniteSet(R) /\ IsFiniteSet(S)
  BY FS_Subset DEF Priced
<1>2. \A r \in R \cup S : f[r] \in Int
  BY DEF Priced
<1> HIDE DEF f
<1>3. SumFunctionOnSet(f, R \cup S) = SumFunctionOnSet(f, R) + SumFunctionOnSet(f, S)
  BY <1>1, <1>2, SumDisjoint
<1> QED BY <1>3 DEF Sum, f

LEMMA BalSplits ==
  ASSUME NEW table, Priced(table), NEW R \in SUBSET DOMAIN table, NEW S \in SUBSET DOMAIN table,
         R \cap S = {}
  PROVE  Bal(table, R \cup S) = Bal(table, R) + Bal(table, S)
<1>1. ASSUME NEW kinds
      PROVE  /\ Of(table, R \cup S, kinds) = Of(table, R, kinds) \cup Of(table, S, kinds)
             /\ Of(table, R, kinds) \cap Of(table, S, kinds) = {}
             /\ Of(table, R, kinds) \in SUBSET DOMAIN table
             /\ Of(table, S, kinds) \in SUBSET DOMAIN table
  BY DEF Of
<1>2. ASSUME NEW kinds
      PROVE  Sum(table, Of(table, R \cup S, kinds)) =
               Sum(table, Of(table, R, kinds)) + Sum(table, Of(table, S, kinds))
  <2>1. Sum(table, Of(table, R, kinds) \cup Of(table, S, kinds)) =
          Sum(table, Of(table, R, kinds)) + Sum(table, Of(table, S, kinds))
    BY <1>1, SumSplits
  <2> QED BY <1>1, <2>1, Zenon
<1>3. /\ Sum(table, Of(table, R \cup S, Earned)) =
           Sum(table, Of(table, R, Earned)) + Sum(table, Of(table, S, Earned))
      /\ Sum(table, Of(table, R \cup S, Redeemed)) =
           Sum(table, Of(table, R, Redeemed)) + Sum(table, Of(table, S, Redeemed))
  BY <1>2
<1>4. /\ Sum(table, Of(table, R, Earned)) \in Nat /\ Sum(table, Of(table, S, Earned)) \in Nat
      /\ Sum(table, Of(table, R, Redeemed)) \in Nat /\ Sum(table, Of(table, S, Redeemed)) \in Nat
  BY <1>1, SumNat
<1> QED BY <1>3, <1>4 DEF Bal

(* The model's own operators are these, over the table as it is.              *)
LEMMA TotalIsSum ==
  ASSUME NEW S
  PROVE  /\ Total(S) = Sum(row, S)
         /\ \A kinds : OfKind(S, kinds) = Of(row, S, kinds)
         /\ Balance(S) = Bal(row, S)
BY DEF Total, Sum, OfKind, Of, Balance, Bal

----------------------------------------------------------------------------
(* The newest of some accounts is one of them. *)
LEMMA NewestIsOne ==
  ASSUME NEW S \in SUBSET Account, S # {}
  PROVE  Newest(S) \in S
<1> DEFINE B == {T \in SUBSET S : T # {} /\ ~\E a \in T : \A b \in T : b <= a}
<1>0. S \subseteq Nat
  BY StatementsAssumption
<1>1. ASSUME NEW T \in B, \A U \in B : U \subseteq T => U = T
      PROVE  FALSE
  <2>1. PICK x \in T : TRUE
    OBVIOUS
  <2>2. T \ {x} # {}
    <3>1. x <= x
      BY <1>0
    <3>2. \E b \in T : ~(b <= x)
      OBVIOUS
    <3> QED BY <3>1, <3>2
  <2>3. T \ {x} \notin B
    BY <1>1, <2>1
  <2>4. PICK a \in T \ {x} : \A b \in T \ {x} : b <= a
    BY <2>2, <2>3
  <2>5. a \in Nat /\ x \in Nat /\ \A b \in T : b \in Nat
    BY <1>0
  <2>6. CASE x <= a
    BY <2>4, <2>6
  <2>7. CASE ~(x <= a)
    <3>1. \A b \in T : b <= x
      BY <2>4, <2>5, <2>7
    <3> QED BY <2>1, <3>1
  <2> QED BY <2>6, <2>7
<1>2. B \subseteq SUBSET S
  OBVIOUS
<1> HIDE DEF B
<1>3. B = {}
  <2>1. IsFiniteSet(S)
    BY StatementsAssumption, FS_Subset
  <2> QED BY <1>1, <1>2, <2>1, SmallestSubset
<1>4. \E a \in S : \A b \in S : b <= a
  BY <1>3 DEF B
<1> QED BY <1>4 DEF Newest

----------------------------------------------------------------------------
(* The shape of the state *)

Report == Statement(1..MaxRows)
Delivery == [page: Report, run: Nat, mailed: BOOLEAN, marked: BOOLEAN]
RunRecord ==
  [kind: {"none", "job", "download"}, on: [month: Month, day: Nat],
   period: 0..Len(MonthLength), step: Step, left: SUBSET Account, failed: SUBSET Account,
   page: Report]

(* A table, its rows counted up, with amounts that read as they were typed.   *)
Table(table) ==
  /\ table \in Seq(Transaction) /\ Len(table) <= MaxRows
  /\ \A r \in DOMAIN table :
       SameCoins(table[r].typed, Format(table[r].amount)) \/ TooLarge(table[r].typed)

(* A run that is under way has an account to report on. *)
Running(c, n) ==
  /\ c \in RunRecord
  /\ c.step # "done" => n >= 1 /\ c.page.account \in c.left /\ c.page.month = c.period

Delivered(box, n) ==
  /\ box \in Seq(Delivery)
  /\ \A i \in DOMAIN box : box[i].run \in 1..n

Shape ==
  /\ today \in [month: Month, day: Nat] /\ today.day \in 1..MonthLength[today.month]
  /\ Table(row)
  /\ Running(run, runs)
  /\ Delivered(inbox, runs)
  /\ runs \in 0..MaxRuns /\ faults \in 0..MaxFaults

(* What a statement knew when it was begun, and what it lists.                *)
SettledIn(table, a) == {r \in DOMAIN table : table[r].account = a /\ table[r].status = "settled"}
Earlier(p, table) == {r \in p.known : table[r].month < p.month}
Inside(p, table) == {r \in p.known : table[r].month = p.month}

Begun(p, table) ==
  /\ p.known \subseteq SettledIn(table, p.account)
  /\ p.opening = Bal(table, Earlier(p, table))

Listed(p, table) ==
  /\ Inside(p, table) \subseteq p.items
  /\ p.items \subseteq {r \in SettledIn(table, p.account) : table[r].month = p.month}

Dated(p, table) == {r \in SettledIn(table, p.account) : table[r].month = p.month}

(* What each query added up: the rows known at the start, or more.             *)
Closes(p, table, S) ==
  Inside(p, table) \subseteq S /\ p.closing = p.opening + Bal(table, S)
SumsUp(p, table, S) ==
  /\ p.earned = Sum(table, Of(table, S, Earned))
  /\ p.redeemed = Sum(table, Of(table, S, Redeemed))

AddsUp(p, table, rows) ==
  \E S \in SUBSET rows, T \in SUBSET rows :
    S \subseteq T /\ Closes(p, table, S) /\ SumsUp(p, table, T)

Made(p, table) == Begun(p, table) /\ Listed(p, table) /\ AddsUp(p, table, p.items)

(* A run has counted what was settled by then, and that stays settled.         *)
Working(c, table) ==
  /\ c.step \in {"history", "summary", "items"} => Begun(c.page, table)
  /\ c.step = "summary" =>
       \E S \in SUBSET Dated(c.page, table) : Closes(c.page, table, S)
  /\ c.step = "items" => AddsUp(c.page, table, Dated(c.page, table))
  /\ c.step \in {"made", "mail", "mark"} => Made(c.page, table)

Stored(box, table) == \A i \in DOMAIN box : Made(box[i].page, table)

(* What a job has stored: one statement for every account it has passed and    *)
(* not failed on, none for those that are left.                                *)
Mine(d, a, n) == d.run = n /\ d.page.account = a
Once(a, c, box, n) ==
  \E i \in DOMAIN box :
    /\ Mine(box[i], a, n) /\ box[i].page.month = c.period
    /\ \A j \in DOMAIN box : Mine(box[j], a, n) => j = i
Never(a, box, n) == \A i \in DOMAIN box : ~Mine(box[i], a, n)

Posting(c) == c.step \in {"mail", "mark"}

Marks(box) == \A i \in DOMAIN box : box[i].marked => box[i].mailed

Sent(c, box, n) ==
  /\ Marks(box)
  /\ c.kind = "job" =>
       /\ c.period = MonthBack(c.on)
       /\ \A a \in Account \ (c.left \cup c.failed) : Once(a, c, box, n)
       /\ \A a \in c.left :
            IF Posting(c) /\ a = c.page.account THEN Once(a, c, box, n) ELSE Never(a, box, n)
       /\ c.step = "done" => c.left = {}
  /\ Posting(c) => c.kind = "job" /\ box # <<>>
  /\ c.step = "mark" => box[Len(box)].mailed

Inv == Shape /\ Working(run, row) /\ Stored(inbox, row) /\ Sent(run, inbox, runs)

----------------------------------------------------------------------------
(* Time and the table *)

LEMMA TablePriced ==
  ASSUME NEW table, Table(table)
  PROVE  Priced(table)
<1>1. Len(table) \in Nat /\ DOMAIN table = 1..Len(table) /\ \A r \in DOMAIN table : table[r] \in Transaction
  BY DEF Table
<1>2. IsFiniteSet(DOMAIN table)
  BY <1>1, FS_Interval
<1>3. \A r \in DOMAIN table : table[r].amount \in Nat
  BY <1>1, MoneyAssumption DEF Transaction
<1> QED BY <1>2, <1>3 DEF Priced

LEMMA PartsKept ==
  ASSUME NEW old, NEW new, Keeps(old, new), NEW p, p.known \subseteq SettledIn(old, p.account)
  PROVE  /\ SettledIn(old, p.account) \subseteq SettledIn(new, p.account)
         /\ Earlier(p, new) = Earlier(p, old) /\ Earlier(p, old) \in SUBSET DOMAIN old
         /\ Inside(p, new) = Inside(p, old) /\ Inside(p, old) \in SUBSET DOMAIN old
BY DEF Keeps, SettledIn, Earlier, Inside

LEMMA BegunKept ==
  ASSUME NEW old, NEW new, Priced(old), Keeps(old, new), NEW p, Begun(p, old)
  PROVE  Begun(p, new)
<1>1. Earlier(p, new) = Earlier(p, old) /\ Earlier(p, old) \in SUBSET DOMAIN old
  BY PartsKept DEF Begun
<1>2. Bal(new, Earlier(p, old)) = Bal(old, Earlier(p, old))
  BY <1>1, BalKept
<1>3. p.known \subseteq SettledIn(new, p.account)
  BY PartsKept DEF Begun
<1> QED BY <1>1, <1>2, <1>3 DEF Begun

(* What was added up stays so, also when more is settled.                     *)
LEMMA AddedKept ==
  ASSUME NEW old, NEW new, Priced(old), Keeps(old, new), NEW p, Begun(p, old),
         NEW S \in SUBSET DOMAIN old
  PROVE  /\ Closes(p, old, S) => Closes(p, new, S)
         /\ SumsUp(p, old, S) => SumsUp(p, new, S)
<1>1. Inside(p, new) = Inside(p, old)
  BY PartsKept DEF Begun
<1>2. Bal(new, S) = Bal(old, S)
  BY BalKept
<1>3. ASSUME NEW kinds
      PROVE  Sum(new, Of(new, S, kinds)) = Sum(old, Of(old, S, kinds))
  <2>1. Of(new, S, kinds) = Of(old, S, kinds) /\ Of(old, S, kinds) \in SUBSET DOMAIN old
    BY OfKept
  <2>2. Sum(new, Of(old, S, kinds)) = Sum(old, Of(old, S, kinds))
    BY <2>1, SumKept
  <2> QED BY <2>1, <2>2
<1> QED BY <1>1, <1>2, <1>3 DEF Closes, SumsUp

LEMMA AddsUpKept ==
  ASSUME NEW old, NEW new, Priced(old), Keeps(old, new), NEW p, Begun(p, old),
         NEW R \in SUBSET DOMAIN old, NEW Q, R \subseteq Q, AddsUp(p, old, R)
  PROVE  AddsUp(p, new, Q)
<1>1. PICK S \in SUBSET R, T \in SUBSET R :
        S \subseteq T /\ Closes(p, old, S) /\ SumsUp(p, old, T)
  BY DEF AddsUp
<1>2. S \in SUBSET DOMAIN old /\ T \in SUBSET DOMAIN old
  OBVIOUS
<1>3. Closes(p, new, S) /\ SumsUp(p, new, T)
  BY <1>1, <1>2, AddedKept
<1> QED BY <1>1, <1>3 DEF AddsUp

LEMMA MadeKept ==
  ASSUME NEW old, NEW new, Priced(old), Keeps(old, new), NEW p, Made(p, old)
  PROVE  Made(p, new)
<1>1. Begun(p, old) /\ Begun(p, new)
  BY BegunKept DEF Made
<1>2. Inside(p, new) = Inside(p, old)
  BY <1>1, PartsKept DEF Begun
<1>3. Listed(p, new)
  BY <1>2 DEF Made, Listed, Keeps, SettledIn
<1>4. p.items \in SUBSET DOMAIN old
  BY DEF Made, Listed, SettledIn
<1>5. AddsUp(p, new, p.items)
  BY <1>1, <1>4, AddsUpKept DEF Made
<1> QED BY <1>1, <1>3, <1>5 DEF Made

LEMMA WorkingKept ==
  ASSUME NEW old, NEW new, Priced(old), Keeps(old, new), NEW c, Working(c, old)
  PROVE  Working(c, new)
<1>1. PICK p : p = c.page
  OBVIOUS
<1>2. Dated(p, old) \in SUBSET DOMAIN old /\ Dated(p, old) \subseteq Dated(p, new)
  BY DEF Dated, SettledIn, Keeps
<1>3. ASSUME c.step \in {"history", "summary", "items"}
      PROVE  Begun(p, old) /\ Begun(p, new)
  BY <1>1, <1>3, BegunKept DEF Working
<1>4. ASSUME c.step = "summary"
      PROVE  \E S \in SUBSET Dated(p, new) : Closes(p, new, S)
  <2>1. PICK S \in SUBSET Dated(p, old) : Closes(p, old, S)
    BY <1>1, <1>4 DEF Working
  <2>2. S \in SUBSET DOMAIN old
    BY <1>2
  <2>3. Closes(p, new, S)
    BY <1>3, <1>4, <2>1, <2>2, AddedKept
  <2> QED BY <1>2, <2>3
<1>5. ASSUME c.step = "items"
      PROVE  AddsUp(p, new, Dated(p, new))
  <2>1. AddsUp(p, old, Dated(p, old))
    BY <1>1, <1>5 DEF Working
  <2> QED BY <1>2, <1>3, <1>5, <2>1, AddsUpKept
<1>6. c.step \in {"made", "mail", "mark"} => Made(p, new)
  BY <1>1, MadeKept DEF Working
<1> QED BY <1>1, <1>3, <1>4, <1>5, <1>6 DEF Working

LEMMA RowsKeepInv ==
  ASSUME Inv, Table(row'), Keeps(row, row'), UNCHANGED <<today, run, inbox, runs, faults>>
  PROVE  Inv'
<1>1. Priced(row)
  BY TablePriced DEF Inv, Shape
<1>2. Shape'
  BY DEF Inv, Shape
<1>3. Working(run', row')
  BY <1>1, WorkingKept DEF Inv
<1>4. Stored(inbox', row')
  BY <1>1, MadeKept DEF Inv, Stored
<1>5. Sent(run', inbox', runs')
  BY DEF Inv
<1> QED BY <1>2, <1>3, <1>4, <1>5 DEF Inv

LEMMA InsertInv ==
  ASSUME Inv, NEW a \in Active, NEW kind \in Earned \cup Redeemed, NEW typed \in Typed \cup TaskValue,
         NEW m \in Month, NEW status \in {"pending", "settled"}, Insert(a, kind, typed, m, status)
  PROVE  Inv'
<1> DEFINE new == [account |-> a, kind |-> kind, month |-> m, typed |-> typed,
                   amount |-> ParseCoins(typed), status |-> status]
<1>1. /\ ParseCoins(typed) \in 1..MaxInt
      /\ SameCoins(typed, Format(ParseCoins(typed))) \/ TooLarge(typed)
  BY ParsedAmounts DEF Insert
<1>2. new \in Transaction
  BY <1>1, StatementsAssumption DEF Transaction
<1>3. row \in Seq(Transaction) /\ Len(row) \in Nat /\ DOMAIN row = 1..Len(row) /\ MaxRows \in Nat
  BY StatementsAssumption DEF Inv, Shape, Table
<1>4. Len(row) < MaxRows
  <2>1. Cardinality(1..Len(row)) = Len(row)
    BY <1>3, FS_Interval
  <2> QED BY <1>3, <2>1 DEF Insert
<1>5. new.typed = typed /\ new.amount = ParseCoins(typed)
  OBVIOUS
<1>6. row' = Append(row, new)
  BY DEF Insert
<1> HIDE DEF new
<1>7. /\ row' \in Seq(Transaction) /\ Len(row') = Len(row) + 1
      /\ \A r \in DOMAIN row : r \in DOMAIN row' /\ row'[r] = row[r]
      /\ row'[Len(row) + 1] = new
      /\ \A r \in DOMAIN row' : r \in DOMAIN row \/ r = Len(row) + 1
  BY <1>2, <1>3, <1>6
<1>8. Table(row')
  <2>1. Len(row') <= MaxRows
    BY <1>3, <1>4, <1>7
  <2>2. ASSUME NEW r \in DOMAIN row'
        PROVE  SameCoins(row'[r].typed, Format(row'[r].amount)) \/ TooLarge(row'[r].typed)
    <3>1. CASE r \in DOMAIN row
      BY <1>7, <3>1 DEF Inv, Shape, Table
    <3>2. CASE r = Len(row) + 1
      BY <1>1, <1>5, <1>7, <3>2
    <3> QED BY <1>7, <3>1, <3>2
  <2> QED BY <1>7, <2>1, <2>2 DEF Table
<1>9. Keeps(row, row')
  BY <1>7 DEF Keeps
<1> QED BY <1>8, <1>9, RowsKeepInv DEF Insert

LEMMA SettleInv ==
  ASSUME Inv, NEW r \in DOMAIN row, Settle(r)
  PROVE  Inv'
<1>1. row \in Seq(Transaction) /\ Len(row) \in Nat /\ DOMAIN row = 1..Len(row)
  BY DEF Inv, Shape, Table
<1> DEFINE new == [row[r] EXCEPT !.status = "settled"]
<1>2. row[r] \in Transaction
  BY <1>1
<1>3. /\ new \in Transaction /\ new.account = row[r].account /\ new.kind = row[r].kind
      /\ new.month = row[r].month /\ new.amount = row[r].amount /\ new.typed = row[r].typed
      /\ new.status = "settled"
  BY <1>2 DEF Transaction
<1>4. row' = [row EXCEPT ![r] = new]
  BY DEF Settle
<1> HIDE DEF new
<1>5. /\ row' \in Seq(Transaction) /\ Len(row') = Len(row) /\ DOMAIN row' = DOMAIN row
      /\ row'[r] = new /\ \A s \in DOMAIN row : s # r => row'[s] = row[s]
  BY <1>1, <1>3, <1>4
<1>6. Keeps(row, row')
  BY <1>3, <1>5 DEF Keeps
<1>7. Table(row')
  BY <1>3, <1>5 DEF Inv, Shape, Table
<1> QED BY <1>6, <1>7, RowsKeepInv DEF Settle

LEMMA TickInv ==
  ASSUME Inv, Tick
  PROVE  Inv'
<1>1. Len(MonthLength) \in Nat /\ \A m \in Month : MonthLength[m] \in Nat \ {0} /\ Month = 1..Len(MonthLength)
  BY StatementsAssumption DEF Month
<1>2. today' \in [month: Month, day: Nat] /\ today'.day \in 1..MonthLength[today'.month]
  BY <1>1 DEF Inv, Shape, Tick
<1>3. UNCHANGED <<row, run, inbox, runs, faults>>
  BY DEF Tick
<1> QED BY <1>2, <1>3 DEF Inv, Shape

----------------------------------------------------------------------------
(* The queries *)

LEMMA StartsInv == Init => Inv
<1> SUFFICES ASSUME Init
             PROVE  Inv
  OBVIOUS
<1>1. NoAccount \in Account
  BY StatementsAssumption, NewestIsOne DEF NoAccount
<1>2. Len(MonthLength) \in Nat \ {0} /\ Month = 1..Len(MonthLength)
      /\ \A m \in Month : MonthLength[m] \in Nat \ {0}
  BY StatementsAssumption DEF Month
<1>3. Blank(NoAccount, 0) \in Report
  BY <1>1, <1>2 DEF Blank, Report, Statement
<1>4. /\ run \in RunRecord /\ run.step = "done" /\ run.kind = "none"
  BY <1>2, <1>3 DEF Init, Idle, RunRecord, Step
<1>5. row \in Seq(Transaction) /\ Len(row) = 0 /\ DOMAIN row = {}
  BY DEF Init
<1>6. inbox \in Seq(Delivery) /\ DOMAIN inbox = {}
  BY DEF Init
<1>7. Shape
  <2>1. Table(row)
    BY <1>5, StatementsAssumption DEF Table
  <2>2. Running(run, runs)
    BY <1>4 DEF Running
  <2>3. Delivered(inbox, runs)
    BY <1>6 DEF Delivered
  <2>4. today \in [month: Month, day: Nat] /\ today.day \in 1..MonthLength[today.month]
    <3>1. 1 \in Month
      BY <1>2
    <3> QED BY <1>2, <3>1 DEF Init
  <2>5. runs \in 0..MaxRuns /\ faults \in 0..MaxFaults
    BY StatementsAssumption DEF Init
  <2> QED BY <2>1, <2>2, <2>3, <2>4, <2>5 DEF Shape
<1>8. Working(run, row)
  BY <1>4 DEF Working
<1>9. Stored(inbox, row)
  BY <1>6 DEF Stored
<1>10. Sent(run, inbox, runs)
  BY <1>4, <1>6 DEF Sent, Marks, Posting
<1> QED BY <1>7, <1>8, <1>9, <1>10 DEF Inv

LEMMA QueryInv ==
  ASSUME Inv, NEW step \in {"opening", "history", "summary", "items"},
         NEW next \in {"history", "summary", "items", "made"}, NEW page \in Report,
         page.account = Page.account, page.month = Page.month,
         Query(step, page, next), Working(run', row)
  PROVE  Inv'
<1>1. run \in RunRecord /\ run.step = step /\ run' = [run EXCEPT !.page = page, !.step = next]
      /\ UNCHANGED <<today, row, inbox, runs, faults>>
  BY DEF Inv, Shape, Running, Query, At
<1>2. next \in Step
  BY DEF Step
<1>3. /\ run' \in RunRecord /\ run'.page = page /\ run'.step = next /\ run'.kind = run.kind
      /\ run'.on = run.on /\ run'.period = run.period /\ run'.left = run.left
      /\ run'.failed = run.failed
  BY <1>1, <1>2 DEF RunRecord
<1>4. Running(run', runs')
  BY <1>1, <1>3 DEF Inv, Shape, Running, Page
<1>5. Shape'
  BY <1>1, <1>4 DEF Inv, Shape
<1>6. Working(run', row') /\ Stored(inbox', row')
  BY <1>1 DEF Inv
<1>7. ~Posting(run) /\ ~Posting(run') /\ run'.step # "done" /\ run'.step # "mark"
  BY <1>1, <1>3 DEF Posting
<1>8. ASSUME NEW a, Once(a, run, inbox, runs)
      PROVE  Once(a, run', inbox', runs')
  BY <1>1, <1>3, <1>8 DEF Once
<1>9. Sent(run', inbox', runs')
  <2>1. Marks(inbox')
    BY <1>1 DEF Inv, Sent
  <2>2. ASSUME run'.kind = "job"
        PROVE  /\ run'.period = MonthBack(run'.on)
               /\ \A a \in Account \ (run'.left \cup run'.failed) : Once(a, run', inbox', runs')
               /\ \A a \in run'.left : Never(a, inbox', runs')
    BY <1>1, <1>3, <1>7, <1>8, <2>2 DEF Inv, Sent
  <2> QED BY <1>7, <2>1, <2>2 DEF Sent
<1> QED BY <1>5, <1>6, <1>9 DEF Inv

(* What the queries of a period find.                                         *)
LEMMA PeriodFound ==
  ASSUME Inv, run.step # "done"
  PROVE  /\ Page \in Report /\ Priced(row) /\ DOMAIN row \subseteq 1..MaxRows
         /\ InPeriod = Dated(Page, row)
         /\ InPeriod \in SUBSET DOMAIN row
<1>1. Page \in Report
  BY DEF Inv, Shape, Running, RunRecord, Page
<1>2. row \in Seq(Transaction) /\ Len(row) <= MaxRows /\ Len(row) \in Nat /\ DOMAIN row = 1..Len(row)
  BY DEF Inv, Shape, Table
<1>3. DOMAIN row \subseteq 1..MaxRows
  BY <1>2, StatementsAssumption
<1>4. Page.month \in Int /\ \A r \in DOMAIN row : row[r].month \in Int
  <2>1. Len(MonthLength) \in Nat /\ Month = 1..Len(MonthLength)
    BY StatementsAssumption DEF Month
  <2>2. Page.month \in 0..Len(MonthLength)
    BY <1>1 DEF Report, Statement
  <2>3. ASSUME NEW r \in DOMAIN row
        PROVE  row[r].month \in Month
    <3>1. row[r] \in Transaction
      BY <1>2
    <3> QED BY <3>1 DEF Transaction
  <2> QED BY <2>1, <2>2, <2>3
<1>5. Bounds.from = Page.month /\ Bounds.to = Page.month + 1
  BY DEF Bounds, PeriodBounds
<1>6. InPeriod = Dated(Page, row)
  BY <1>4, <1>5 DEF InPeriod, ValuedIn, Settled, SettledIn, Dated
<1>7. InPeriod \in SUBSET DOMAIN row
  BY <1>6 DEF Dated, SettledIn
<1>8. Priced(row)
  BY TablePriced DEF Inv, Shape
<1> QED BY <1>1, <1>3, <1>6, <1>7, <1>8

LEMMA OpeningInv ==
  ASSUME Inv, QueryOpening
  PROVE  Inv'
<1>1. run.step = "opening"
  BY DEF QueryOpening, Query, At
<1> DEFINE known == Settled(Page.account)
           before == {r \in known : row[r].month < Bounds.from}
           page == [Page EXCEPT !.known = known, !.opening = Balance(before)]
<1>2. Page \in Report /\ Priced(row) /\ DOMAIN row \subseteq 1..MaxRows
  BY <1>1, PeriodFound
<1>3. known = SettledIn(row, Page.account) /\ known \in SUBSET DOMAIN row /\ before \in SUBSET DOMAIN row
  BY DEF Settled, SettledIn
<1>4. Balance(before) = Bal(row, before) /\ Bal(row, before) \in Int
  <2> HIDE DEF before
  <2> QED BY <1>2, <1>3, TotalIsSum, BalInt
<1>5. before = {r \in known : row[r].month < Page.month}
  BY DEF Bounds, PeriodBounds
<1>6. Query("opening", page, "history")
  BY DEF QueryOpening
<1> HIDE DEF known, before
<1>7. /\ page \in Report /\ page.account = Page.account /\ page.month = Page.month
      /\ page.known = known /\ page.opening = Bal(row, before)
  BY <1>2, <1>3, <1>4 DEF Report, Statement
<1> HIDE DEF page
<1>8. Begun(page, row)
  <2>1. Earlier(page, row) = before
    BY <1>5, <1>7 DEF Earlier
  <2> QED BY <1>3, <1>7, <2>1 DEF Begun
<1>9. Working(run', row)
  <2>1. run \in RunRecord /\ run' = [run EXCEPT !.page = page, !.step = "history"]
    BY <1>6 DEF Inv, Shape, Running, Query
  <2>2. run'.page = page /\ run'.step = "history"
    BY <2>1 DEF RunRecord
  <2> QED BY <1>8, <2>2 DEF Working
<1> QED BY <1>6, <1>7, <1>9, QueryInv

(* A statement that was begun stays so, and so does what it added up.         *)
LEMMA SameBegun ==
  ASSUME NEW table, NEW p, NEW q, q.account = p.account, q.month = p.month, q.known = p.known,
         q.opening = p.opening
  PROVE  /\ Earlier(q, table) = Earlier(p, table) /\ Inside(q, table) = Inside(p, table)
         /\ Dated(q, table) = Dated(p, table)
         /\ Begun(p, table) => Begun(q, table)
         /\ Begun(q, table) => Inside(q, table) \subseteq Dated(q, table)
         /\ \A S : q.closing = p.closing /\ Closes(p, table, S) => Closes(q, table, S)
         /\ \A S : q.earned = p.earned /\ q.redeemed = p.redeemed /\ SumsUp(p, table, S) =>
              SumsUp(q, table, S)
<1>1. /\ Earlier(q, table) = Earlier(p, table) /\ Inside(q, table) = Inside(p, table)
      /\ Dated(q, table) = Dated(p, table)
  BY DEF Earlier, Inside, Dated
<1>2. Begun(p, table) => Begun(q, table)
  BY <1>1 DEF Begun
<1>3. Begun(q, table) => Inside(q, table) \subseteq Dated(q, table)
  BY DEF Begun, Inside, Dated
<1> QED BY <1>1, <1>2, <1>3 DEF Closes, SumsUp

LEMMA HistoryInv ==
  ASSUME Inv, QueryHistory
  PROVE  Inv'
<1>1. run.step = "history"
  BY DEF QueryHistory, Query, At
<1> DEFINE page == [Page EXCEPT !.closing = Page.opening + Balance(InPeriod)]
<1>2. Page \in Report /\ Priced(row) /\ InPeriod \in SUBSET DOMAIN row
  BY <1>1, PeriodFound
<1>3. Balance(InPeriod) = Bal(row, InPeriod) /\ Bal(row, InPeriod) \in Int
  BY <1>2, TotalIsSum, BalInt
<1>4. Query("history", page, "summary")
  BY DEF QueryHistory
<1>5. /\ page \in Report /\ page.account = Page.account /\ page.month = Page.month
      /\ page.known = Page.known /\ page.opening = Page.opening
      /\ page.closing = Page.opening + Bal(row, InPeriod)
  BY <1>2, <1>3 DEF Report, Statement
<1> HIDE DEF page
<1>6. Begun(page, row)
  <2>1. Begun(Page, row)
    BY <1>1 DEF Inv, Working, Page
  <2> QED BY <1>5, <2>1, SameBegun
<1>7. InPeriod \in SUBSET Dated(page, row) /\ Closes(page, row, InPeriod)
  <2>1. Dated(page, row) = Dated(Page, row) /\ Inside(page, row) \subseteq Dated(page, row)
    BY <1>5, <1>6, SameBegun
  <2>2. InPeriod = Dated(Page, row)
    BY <1>1, PeriodFound
  <2> QED BY <1>5, <2>1, <2>2 DEF Closes
<1>8. Working(run', row)
  <2>1. run \in RunRecord /\ run' = [run EXCEPT !.page = page, !.step = "summary"]
    BY <1>4 DEF Inv, Shape, Running, Query
  <2>2. run'.page = page /\ run'.step = "summary"
    BY <2>1 DEF RunRecord
  <2> QED BY <1>6, <1>7, <2>2 DEF Working
<1> QED BY <1>4, <1>5, <1>8, QueryInv

LEMMA SummaryInv ==
  ASSUME Inv, QuerySummary
  PROVE  Inv'
<1>1. run.step = "summary"
  BY DEF QuerySummary, Query, At
<1> DEFINE earned == Total(OfKind(InPeriod, Earned))
           redeemed == Total(OfKind(InPeriod, Redeemed))
           page == [Page EXCEPT !.earned = earned, !.redeemed = redeemed]
<1>2. Page \in Report /\ Priced(row) /\ InPeriod \in SUBSET DOMAIN row
  BY <1>1, PeriodFound
<1>3. /\ earned = Sum(row, Of(row, InPeriod, Earned)) /\ earned \in Nat
      /\ redeemed = Sum(row, Of(row, InPeriod, Redeemed)) /\ redeemed \in Nat
  <2>1. ASSUME NEW kinds
        PROVE  Total(OfKind(InPeriod, kinds)) = Sum(row, Of(row, InPeriod, kinds))
    BY TotalIsSum
  <2>2. ASSUME NEW kinds
        PROVE  Sum(row, Of(row, InPeriod, kinds)) \in Nat
    <3>1. Of(row, InPeriod, kinds) \in SUBSET DOMAIN row
      BY <1>2 DEF Of
    <3> QED BY <1>2, <3>1, SumNat
  <2> QED BY <2>1, <2>2
<1>4. Query("summary", page, "items")
  BY DEF QuerySummary
<1> HIDE DEF earned, redeemed
<1>5. /\ page \in Report /\ page.account = Page.account /\ page.month = Page.month
      /\ page.known = Page.known /\ page.opening = Page.opening /\ page.closing = Page.closing
      /\ page.earned = earned /\ page.redeemed = redeemed
  BY <1>2, <1>3 DEF Report, Statement
<1> HIDE DEF page
<1>6. Begun(page, row)
  <2>1. Begun(Page, row)
    BY <1>1 DEF Inv, Working, Page
  <2> QED BY <1>5, <2>1, SameBegun
<1>7. AddsUp(page, row, Dated(page, row))
  <2>1. Dated(page, row) = Dated(Page, row) /\ InPeriod = Dated(Page, row)
    BY <1>1, <1>5, PeriodFound, SameBegun
  <2>2. PICK S \in SUBSET Dated(Page, row) : Closes(Page, row, S)
    BY <1>1 DEF Inv, Working, Page
  <2>3. Closes(page, row, S)
    BY <1>5, <2>2, SameBegun
  <2>4. SumsUp(page, row, InPeriod)
    BY <1>3, <1>5 DEF SumsUp
  <2> QED BY <2>1, <2>2, <2>3, <2>4 DEF AddsUp
<1>8. Working(run', row)
  <2>1. run \in RunRecord /\ run' = [run EXCEPT !.page = page, !.step = "items"]
    BY <1>4 DEF Inv, Shape, Running, Query
  <2>2. run'.page = page /\ run'.step = "items"
    BY <2>1 DEF RunRecord
  <2> QED BY <1>6, <1>7, <2>2 DEF Working
<1> QED BY <1>4, <1>5, <1>8, QueryInv

LEMMA ItemsInv ==
  ASSUME Inv, QueryItems
  PROVE  Inv'
<1>1. run.step = "items"
  BY DEF QueryItems, Query, At
<1> DEFINE page == [Page EXCEPT !.items = InPeriod]
<1>2. /\ Page \in Report /\ InPeriod \in SUBSET DOMAIN row /\ DOMAIN row \subseteq 1..MaxRows
      /\ InPeriod = Dated(Page, row)
  BY <1>1, PeriodFound
<1>3. Query("items", page, "made")
  BY DEF QueryItems
<1>5. /\ page \in Report /\ page.account = Page.account /\ page.month = Page.month
      /\ page.known = Page.known /\ page.opening = Page.opening /\ page.closing = Page.closing
      /\ page.earned = Page.earned /\ page.redeemed = Page.redeemed
      /\ page.items = InPeriod
  BY <1>2 DEF Report, Statement
<1> HIDE DEF page
<1>6. Begun(page, row) /\ Inside(page, row) \subseteq Dated(page, row)
  <2>1. Begun(Page, row)
    BY <1>1 DEF Inv, Working, Page
  <2> QED BY <1>5, <2>1, SameBegun
<1>7. Dated(page, row) = InPeriod
  BY <1>2, <1>5, SameBegun
<1>8. Listed(page, row) /\ AddsUp(page, row, page.items)
  <2>1. Listed(page, row)
    BY <1>5, <1>6, <1>7 DEF Listed, Dated
  <2>2. PICK S \in SUBSET InPeriod, T \in SUBSET InPeriod :
          S \subseteq T /\ Closes(Page, row, S) /\ SumsUp(Page, row, T)
    BY <1>1, <1>2 DEF Inv, Working, Page, AddsUp
  <2>3. Closes(page, row, S) /\ SumsUp(page, row, T)
    BY <1>5, <2>2, SameBegun
  <2> QED BY <1>5, <2>1, <2>2, <2>3 DEF AddsUp
<1>9. Working(run', row)
  <2>1. run \in RunRecord /\ run' = [run EXCEPT !.page = page, !.step = "made"]
    BY <1>3 DEF Inv, Shape, Running, Query
  <2>2. run'.page = page /\ run'.step = "made"
    BY <2>1 DEF RunRecord
  <2> QED BY <1>6, <1>8, <2>2 DEF Working, Made
<1> QED BY <1>3, <1>5, <1>9, QueryInv

----------------------------------------------------------------------------
(* The runs *)

LEMMA CalendarFacts ==
  /\ Len(MonthLength) \in Nat \ {0} /\ Month = 1..Len(MonthLength)
  /\ \A m \in Month : MonthLength[m] \in Nat \ {0}
BY StatementsAssumption DEF Month

LEMMA MonthBackIs ==
  ASSUME NEW date \in [month: Month, day: Nat]
  PROVE  /\ MonthBack(date) \in 0..Len(MonthLength)
         /\ date.month = 1 \/ date.day <= MonthLength[date.month - 1] =>
              MonthBack(date) = date.month - 1
<1>1. date.month \in Month /\ date.day \in Nat
  OBVIOUS
<1>2. date.month \in 1..Len(MonthLength) /\ date.month - 1 \in 0..Len(MonthLength)
  BY <1>1, CalendarFacts
<1>3. date.month > 1 => MonthLength[date.month - 1] \in Nat
  BY <1>2, CalendarFacts
<1> QED BY <1>1, <1>2, <1>3 DEF MonthBack

LEMMA BlankIs ==
  ASSUME NEW a \in Account, NEW m \in 0..Len(MonthLength)
  PROVE  Blank(a, m) \in Report /\ Blank(a, m).account = a /\ Blank(a, m).month = m
BY DEF Blank, Report, Statement

LEMMA IdleIs ==
  Idle \in RunRecord /\ Idle.kind = "none" /\ Idle.step = "done"
<1>1. NoAccount \in Account
  BY StatementsAssumption, NewestIsOne DEF NoAccount
<1>2. Blank(NoAccount, 0) \in Report
  BY <1>1, BlankIs, CalendarFacts
<1>3. 1 \in Month /\ 0 \in 0..Len(MonthLength)
  BY CalendarFacts
<1> QED BY <1>2, <1>3 DEF Idle, RunRecord, Step

(* A run that ends without a word.                                            *)
LEMMA EndInv ==
  ASSUME Inv, run' = Idle, UNCHANGED <<today, row, inbox, runs>>, faults' \in 0..MaxFaults
  PROVE  Inv'
<1>1. run' \in RunRecord /\ run'.kind = "none" /\ run'.step = "done"
  BY IdleIs
<1>2. Running(run', runs')
  BY <1>1 DEF Running
<1>3. Shape'
  BY <1>2 DEF Inv, Shape
<1>4. Working(run', row') /\ Stored(inbox', row')
  BY <1>1 DEF Inv, Working
<1>5. Sent(run', inbox', runs')
  BY <1>1 DEF Inv, Sent, Posting
<1> QED BY <1>3, <1>4, <1>5 DEF Inv

LEMMA BeginInv ==
  ASSUME Inv, NEW kind \in {"job", "download"}, NEW accounts \in SUBSET Account,
         NEW a \in accounts, NEW period \in 0..Len(MonthLength), Begin(kind, accounts, a, period),
         kind = "job" => accounts = Account /\ period = MonthBack(today)
  PROVE  Inv'
<1> DEFINE started == [kind |-> kind, on |-> today, period |-> period, step |-> "opening",
                       left |-> accounts, failed |-> {}, page |-> Blank(a, period)]
<1>1. /\ run' = started /\ runs < MaxRuns /\ runs' = runs + 1
      /\ UNCHANGED <<today, row, inbox, faults>>
  BY DEF Begin
<1>2. runs \in 0..MaxRuns /\ MaxRuns \in Nat /\ today \in [month: Month, day: Nat]
  BY StatementsAssumption DEF Inv, Shape
<1>3. Blank(a, period) \in Report /\ Blank(a, period).account = a /\ Blank(a, period).month = period
  BY BlankIs
<1>4. /\ started \in RunRecord /\ started.step = "opening" /\ started.kind = kind
      /\ started.left = accounts /\ started.period = period /\ started.on = today
      /\ started.page.account = a /\ started.page.month = period
  BY <1>2, <1>3 DEF RunRecord, Step
<1> HIDE DEF started
<1>5. runs' \in 0..MaxRuns /\ runs' >= 1
  BY <1>1, <1>2
<1>6. Running(run', runs')
  BY <1>1, <1>4, <1>5 DEF Running
<1>7. Delivered(inbox', runs')
  BY <1>1, <1>2 DEF Inv, Shape, Delivered
<1>8. Shape'
  BY <1>1, <1>5, <1>6, <1>7 DEF Inv, Shape
<1>9. Working(run', row') /\ Stored(inbox', row')
  BY <1>1, <1>4 DEF Inv, Working
<1>10. \A b : Never(b, inbox', runs')
  <2> SUFFICES ASSUME NEW i \in DOMAIN inbox
               PROVE  inbox[i].run # runs + 1
    BY <1>1 DEF Never, Mine
  <2>1. inbox[i].run \in 1..runs
    BY DEF Inv, Shape, Delivered
  <2> QED BY <1>2, <2>1
<1>11. Sent(run', inbox', runs')
  <2>1. Marks(inbox') /\ ~Posting(run') /\ run'.step # "done" /\ run'.step # "mark"
    BY <1>1, <1>4 DEF Inv, Sent, Posting
  <2>2. ASSUME run'.kind = "job"
        PROVE  run'.left = Account /\ run'.period = MonthBack(run'.on)
    BY <1>1, <1>4, <2>2
  <2> QED BY <1>10, <2>1, <2>2 DEF Sent
<1> QED BY <1>8, <1>9, <1>11 DEF Inv

(* To the next account, or to the end.                                        *)
LEMMA PassedShape ==
  ASSUME Inv, run.step # "done", NEW failed \in {{}, {Page.account}}, NextAccount(failed)
  PROVE  /\ run' \in RunRecord /\ run'.kind = run.kind /\ run'.on = run.on
         /\ run'.period = run.period
         /\ run'.left = run.left \ {Page.account} /\ run'.failed = run.failed \cup failed
         /\ run'.step \in {"opening", "done"}
         /\ run'.step = "done" => run'.left = {}
         /\ run'.step = "opening" => run'.page.account \in run'.left /\ run'.page.month = run'.period
<1> DEFINE rest == run.left \ {Page.account}
           after == [run EXCEPT !.failed = @ \cup failed, !.left = rest]
           Moved(step, page) == [after EXCEPT !.step = step, !.page = page]
<1>1. run \in RunRecord /\ Page.account \in Account
  BY DEF Inv, Shape, Running, Page, RunRecord, Report, Statement
<1>2. rest \in SUBSET Account /\ run.failed \cup failed \in SUBSET Account /\ run.period \in 0..Len(MonthLength)
  BY <1>1 DEF RunRecord
<1>3. /\ rest = {} => run' = Moved("done", Blank(NoAccount, 0))
      /\ rest # {} => run' = Moved("opening", Blank(Newest(rest), run.period))
  BY DEF NextAccount
<1> HIDE DEF rest
<1>4. /\ after \in RunRecord /\ after.kind = run.kind /\ after.on = run.on
      /\ after.period = run.period /\ after.left = rest /\ after.failed = run.failed \cup failed
  BY <1>1, <1>2 DEF RunRecord
<1> HIDE DEF after
<1>5. ASSUME NEW step \in Step, NEW page \in Report
      PROVE  /\ Moved(step, page) \in RunRecord
             /\ Moved(step, page).kind = run.kind /\ Moved(step, page).on = run.on
             /\ Moved(step, page).period = run.period /\ Moved(step, page).left = rest
             /\ Moved(step, page).failed = run.failed \cup failed
             /\ Moved(step, page).step = step /\ Moved(step, page).page = page
  BY <1>4 DEF RunRecord
<1> HIDE DEF Moved
<1>6. CASE rest = {}
  <2>1. NoAccount \in Account
    BY StatementsAssumption, NewestIsOne DEF NoAccount
  <2>2. Blank(NoAccount, 0) \in Report /\ "done" \in Step
    BY <2>1, BlankIs, CalendarFacts DEF Step
  <2>3. /\ run' \in RunRecord /\ run'.kind = run.kind /\ run'.on = run.on /\ run'.period = run.period
        /\ run'.left = rest /\ run'.failed = run.failed \cup failed /\ run'.step = "done"
    BY <1>3, <1>5, <1>6, <2>2
  <2> QED BY <1>6, <2>3 DEF rest
<1>7. CASE rest # {}
  <2>1. Newest(rest) \in rest
    BY <1>2, <1>7, NewestIsOne
  <2>2. /\ Blank(Newest(rest), run.period) \in Report /\ "opening" \in Step
        /\ Blank(Newest(rest), run.period).account = Newest(rest)
        /\ Blank(Newest(rest), run.period).month = run.period
    BY <1>2, <2>1, BlankIs DEF Step
  <2>3. /\ run' \in RunRecord /\ run'.kind = run.kind /\ run'.on = run.on /\ run'.period = run.period
        /\ run'.left = rest /\ run'.failed = run.failed \cup failed /\ run'.step = "opening"
        /\ run'.page = Blank(Newest(rest), run.period)
    BY <1>3, <1>5, <1>7, <2>2
  <2> QED BY <2>1, <2>2, <2>3 DEF rest
<1> QED BY <1>6, <1>7

LEMMA PassInv ==
  ASSUME Inv, run.step # "done", NEW failed \in {{}, {Page.account}}, NextAccount(failed),
         UNCHANGED <<today, row, runs>>, faults' \in 0..MaxFaults,
         Delivered(inbox', runs), Stored(inbox', row), Marks(inbox'),
         run.kind = "job" =>
           /\ failed = {} => Once(Page.account, run, inbox', runs)
           /\ \A a \in Account \ {Page.account} :
                /\ Once(a, run, inbox, runs) => Once(a, run, inbox', runs)
                /\ Never(a, inbox, runs) => Never(a, inbox', runs)
  PROVE  Inv'
<1>1. /\ run' \in RunRecord /\ run'.kind = run.kind /\ run'.on = run.on
      /\ run'.period = run.period
      /\ run'.left = run.left \ {Page.account} /\ run'.failed = run.failed \cup failed
      /\ run'.step \in {"opening", "done"}
      /\ run'.step = "done" => run'.left = {}
      /\ run'.step = "opening" => run'.page.account \in run'.left /\ run'.page.month = run'.period
  BY PassedShape
<1>2. run \in RunRecord /\ runs >= 1 /\ run.left \in SUBSET Account
  BY DEF Inv, Shape, Running, RunRecord
<1>3. Running(run', runs')
  BY <1>1, <1>2 DEF Running
<1>4. Shape'
  BY <1>3 DEF Inv, Shape
<1>5. Working(run', row') /\ Stored(inbox', row')
  BY <1>1 DEF Working
<1>6. ~Posting(run') /\ run'.step # "mark"
  BY <1>1 DEF Posting
<1>7. ASSUME run.kind = "job"
      PROVE  /\ run'.period = MonthBack(run'.on)
             /\ \A a \in Account \ (run'.left \cup run'.failed) : Once(a, run', inbox', runs')
             /\ \A a \in run'.left : Never(a, inbox', runs')
  <2>1. run'.period = MonthBack(run'.on)
    BY <1>1, <1>7 DEF Inv, Sent
  <2>2. ASSUME NEW a \in Account \ (run'.left \cup run'.failed)
        PROVE  Once(a, run', inbox', runs')
    <3>1. Once(a, run, inbox', runs)
      <4>1. CASE a = Page.account
        BY <1>1, <1>7, <2>2, <4>1
      <4>2. CASE a # Page.account
        BY <1>1, <1>7, <2>2, <4>2 DEF Inv, Sent
      <4> QED BY <4>1, <4>2
    <3> QED BY <1>1, <3>1 DEF Once
  <2>3. ASSUME NEW a \in run'.left
        PROVE  Never(a, inbox', runs')
    BY <1>1, <1>2, <1>7, <2>3 DEF Inv, Sent, Page
  <2> QED BY <2>1, <2>2, <2>3
<1>8. Sent(run', inbox', runs')
  BY <1>1, <1>6, <1>7 DEF Sent
<1> QED BY <1>4, <1>5, <1>8 DEF Inv

LEMMA FaultIs ==
  ASSUME Inv, Fault
  PROVE  faults' \in 0..MaxFaults
BY StatementsAssumption DEF Inv, Shape, Fault

LEMMA GenerateFailsInv ==
  ASSUME Inv, GenerateFails
  PROVE  Inv'
<1>1. /\ run.step # "done" /\ ~Posting(run) /\ NextAccount({Page.account})
      /\ UNCHANGED <<today, row, inbox, runs>> /\ Fault
  BY DEF GenerateFails, Posting
<1>2. Delivered(inbox', runs) /\ Stored(inbox', row) /\ Marks(inbox')
  BY <1>1 DEF Inv, Shape, Sent
<1>3. faults' \in 0..MaxFaults
  BY <1>1, FaultIs
<1>4. {Page.account} # {}
  OBVIOUS
<1> QED BY <1>1, <1>2, <1>3, <1>4, PassInv

LEMMA DeliverInv ==
  ASSUME Inv, Deliver
  PROVE  Inv'
<1>1. faults' \in 0..MaxFaults
  BY DEF Inv, Shape, Deliver
<1> QED BY <1>1, EndInv DEF Deliver

LEMMA CutJobInv ==
  ASSUME Inv, CutJob
  PROVE  Inv'
<1>1. faults' \in 0..MaxFaults
  BY FaultIs DEF CutJob
<1> QED BY <1>1, EndInv DEF CutJob

----------------------------------------------------------------------------
(* The Inbox *)

LEMMA Filed ==
  ASSUME Inv, run.step = "made", run.kind = "job",
         inbox' = Append(inbox, [page |-> Page, run |-> runs, mailed |-> FALSE, marked |-> FALSE])
  PROVE  /\ Delivered(inbox', runs) /\ Stored(inbox', row) /\ Marks(inbox') /\ inbox' # <<>>
         /\ Once(Page.account, run, inbox', runs)
         /\ \A a \in Account \ {Page.account} :
              /\ Once(a, run, inbox, runs) => Once(a, run, inbox', runs)
              /\ Never(a, inbox, runs) => Never(a, inbox', runs)
<1> DEFINE d == [page |-> Page, run |-> runs, mailed |-> FALSE, marked |-> FALSE]
           n == Len(inbox) + 1
<1>1. /\ run \in RunRecord /\ runs \in Nat /\ runs >= 1 /\ Page \in Report
      /\ Page.account \in run.left /\ Page.month = run.period /\ ~Posting(run)
  BY StatementsAssumption DEF Inv, Shape, Running, RunRecord, Page, Posting
<1>2. d \in Delivery /\ d.page = Page /\ d.run = runs /\ d.marked = FALSE
  BY <1>1 DEF Delivery
<1>3. inbox \in Seq(Delivery) /\ Len(inbox) \in Nat /\ DOMAIN inbox = 1..Len(inbox)
  BY DEF Inv, Shape, Delivered
<1>4. inbox' = Append(inbox, d)
  OBVIOUS
<1> HIDE DEF d
<1>5. /\ inbox' \in Seq(Delivery) /\ inbox' # <<>> /\ n \in DOMAIN inbox' /\ inbox'[n] = d
      /\ n \notin DOMAIN inbox
      /\ \A i \in DOMAIN inbox : i \in DOMAIN inbox' /\ inbox'[i] = inbox[i]
      /\ \A i \in DOMAIN inbox' : i \in DOMAIN inbox \/ i = n
  BY <1>2, <1>3, <1>4
<1> HIDE DEF n
<1>6. Delivered(inbox', runs)
  <2>1. ASSUME NEW i \in DOMAIN inbox'
        PROVE  inbox'[i].run \in 1..runs
    BY <1>1, <1>2, <1>5 DEF Inv, Shape, Delivered
  <2> QED BY <1>5, <2>1 DEF Delivered
<1>7. Stored(inbox', row)
  <2>1. Made(Page, row)
    BY DEF Inv, Working, Page
  <2> QED BY <1>2, <1>5, <2>1 DEF Inv, Stored
<1>8. Marks(inbox')
  BY <1>2, <1>5 DEF Inv, Sent, Marks
<1>9. Never(Page.account, inbox, runs)
  BY <1>1 DEF Inv, Sent
<1>10. Once(Page.account, run, inbox', runs)
  <2>1. Mine(inbox'[n], Page.account, runs) /\ inbox'[n].page.month = run.period
    BY <1>1, <1>2, <1>5 DEF Mine
  <2>2. ASSUME NEW j \in DOMAIN inbox', Mine(inbox'[j], Page.account, runs)
        PROVE  j = n
    BY <1>5, <1>9, <2>2 DEF Never
  <2> QED BY <1>5, <2>1, <2>2 DEF Once
<1>11. ASSUME NEW a \in Account \ {Page.account}
       PROVE  /\ Once(a, run, inbox, runs) => Once(a, run, inbox', runs)
              /\ Never(a, inbox, runs) => Never(a, inbox', runs)
  <2>1. ~Mine(inbox'[n], a, runs)
    BY <1>2, <1>5 DEF Mine
  <2>2. Never(a, inbox, runs) => Never(a, inbox', runs)
    BY <1>5, <2>1 DEF Never
  <2>3. ASSUME Once(a, run, inbox, runs)
        PROVE  Once(a, run, inbox', runs)
    <3>1. PICK i \in DOMAIN inbox :
            /\ Mine(inbox[i], a, runs) /\ inbox[i].page.month = run.period
            /\ \A j \in DOMAIN inbox : Mine(inbox[j], a, runs) => j = i
      BY <2>3 DEF Once
    <3>2. i \in DOMAIN inbox' /\ Mine(inbox'[i], a, runs) /\ inbox'[i].page.month = run.period
      BY <1>5, <3>1
    <3>3. ASSUME NEW j \in DOMAIN inbox', Mine(inbox'[j], a, runs)
          PROVE  j = i
      BY <1>5, <2>1, <3>1, <3>3
    <3> QED BY <3>2, <3>3 DEF Once
  <2> QED BY <2>2, <2>3
<1> QED BY <1>5, <1>6, <1>7, <1>8, <1>10, <1>11

LEMMA SaveStatementInv ==
  ASSUME Inv, SaveStatement
  PROVE  Inv'
<1>1. run.step = "made" /\ run.kind = "job" /\ UNCHANGED <<today, row, runs>>
  BY DEF SaveStatement, At
<1>2. CASE Fault /\ NextAccount({Page.account}) /\ UNCHANGED inbox
  <2>1. Delivered(inbox', runs) /\ Stored(inbox', row) /\ Marks(inbox')
    BY <1>2 DEF Inv, Shape, Sent
  <2>2. faults' \in 0..MaxFaults /\ {Page.account} # {}
    BY <1>2, FaultIs
  <2> QED BY <1>1, <1>2, <2>1, <2>2, PassInv
<1>3. CASE /\ inbox' = Append(inbox, [page |-> Page, run |-> runs, mailed |-> FALSE, marked |-> FALSE])
           /\ IF Recipient THEN run' = [run EXCEPT !.step = "mail"] ELSE NextAccount({})
           /\ UNCHANGED faults
  <2>1. /\ Delivered(inbox', runs) /\ Stored(inbox', row) /\ Marks(inbox') /\ inbox' # <<>>
        /\ Once(Page.account, run, inbox', runs)
        /\ \A a \in Account \ {Page.account} :
             /\ Once(a, run, inbox, runs) => Once(a, run, inbox', runs)
             /\ Never(a, inbox, runs) => Never(a, inbox', runs)
    BY <1>1, <1>3, Filed
  <2>2. faults' \in 0..MaxFaults
    BY <1>3 DEF Inv, Shape
  <2>3. CASE NextAccount({})
    BY <1>1, <2>1, <2>2, <2>3, PassInv
  <2>4. CASE run' = [run EXCEPT !.step = "mail"]
    <3>1. run \in RunRecord /\ runs >= 1 /\ Page.account \in run.left /\ Page.month = run.period /\ ~Posting(run)
      BY <1>1 DEF Inv, Shape, Running, Page, Posting
    <3>2. /\ run' \in RunRecord /\ run'.step = "mail" /\ run'.kind = run.kind /\ run'.on = run.on
          /\ run'.period = run.period /\ run'.left = run.left /\ run'.failed = run.failed
          /\ run'.page = Page
      BY <2>4, <3>1 DEF RunRecord, Step, Page
    <3>3. Running(run', runs')
      BY <1>1, <3>1, <3>2 DEF Running
    <3>4. Shape'
      BY <1>1, <2>1, <2>2, <3>3 DEF Inv, Shape
    <3>5. Working(run', row')
      BY <1>1, <3>2 DEF Inv, Working, Page
    <3>6. Stored(inbox', row')
      BY <1>1, <2>1
    <3>7. ASSUME NEW a, Once(a, run, inbox', runs)
          PROVE  Once(a, run', inbox', runs')
      BY <1>1, <3>2, <3>7 DEF Once
    <3>8. run'.period = MonthBack(run'.on)
      BY <1>1, <3>2 DEF Inv, Sent
    <3>9. ASSUME NEW a \in Account \ (run'.left \cup run'.failed)
          PROVE  Once(a, run', inbox', runs')
      <4>1. a # Page.account /\ Once(a, run, inbox, runs)
        BY <1>1, <3>1, <3>2 DEF Inv, Sent
      <4> QED BY <2>1, <3>7, <4>1
    <3>10. ASSUME NEW a \in run'.left, a # Page.account
           PROVE  Never(a, inbox', runs')
      <4>1. Never(a, inbox, runs) /\ a \in Account
        BY <1>1, <3>1, <3>2 DEF Inv, Sent, RunRecord
      <4> QED BY <1>1, <2>1, <3>10, <4>1
    <3>11. Once(Page.account, run', inbox', runs')
      BY <2>1, <3>7
    <3>12. Posting(run') /\ run'.step # "done" /\ run'.step # "mark"
      BY <3>2 DEF Posting
    <3>13. Sent(run', inbox', runs')
      BY <1>1, <2>1, <3>2, <3>8, <3>9, <3>10, <3>11, <3>12 DEF Sent
    <3> QED BY <3>4, <3>5, <3>6, <3>13 DEF Inv
  <2> QED BY <1>3, <2>3, <2>4
<1> QED BY <1>2, <1>3 DEF SaveStatement

(* A note on the last statement leaves it what it is.                         *)
LEMMA Noted ==
  ASSUME Inv, Posting(run), NEW last \in Delivery,
         last.page = inbox[Len(inbox)].page, last.run = inbox[Len(inbox)].run,
         last.marked => last.mailed, inbox' = [inbox EXCEPT ![Len(inbox)] = last]
  PROVE  /\ Delivered(inbox', runs) /\ Stored(inbox', row) /\ Marks(inbox') /\ inbox' # <<>>
         /\ inbox'[Len(inbox')] = last
         /\ \A a : /\ Once(a, run, inbox, runs) => Once(a, run, inbox', runs)
                   /\ Never(a, inbox, runs) => Never(a, inbox', runs)
<1> DEFINE n == Len(inbox)
<1>1. inbox \in Seq(Delivery) /\ inbox # <<>> /\ n \in Nat /\ n \in DOMAIN inbox
  BY DEF Inv, Shape, Delivered, Sent
<1>2. /\ inbox' \in Seq(Delivery) /\ Len(inbox') = n /\ DOMAIN inbox' = DOMAIN inbox
      /\ inbox'[n] = last /\ \A i \in DOMAIN inbox : i # n => inbox'[i] = inbox[i]
  BY <1>1
<1>3. ASSUME NEW i \in DOMAIN inbox'
      PROVE  inbox'[i].page = inbox[i].page /\ inbox'[i].run = inbox[i].run
  BY <1>2
<1> HIDE DEF n
<1>4. Delivered(inbox', runs)
  BY <1>2, <1>3 DEF Inv, Shape, Delivered
<1>5. Stored(inbox', row)
  BY <1>2, <1>3 DEF Inv, Stored
<1>6. Marks(inbox')
  BY <1>2 DEF Inv, Sent, Marks
<1>7. ASSUME NEW a
      PROVE  /\ Once(a, run, inbox, runs) => Once(a, run, inbox', runs)
             /\ Never(a, inbox, runs) => Never(a, inbox', runs)
  <2>1. \A i \in DOMAIN inbox : Mine(inbox'[i], a, runs) <=> Mine(inbox[i], a, runs)
    BY <1>2, <1>3 DEF Mine
  <2>2. Never(a, inbox, runs) => Never(a, inbox', runs)
    BY <1>2, <2>1 DEF Never
  <2>3. Once(a, run, inbox, runs) => Once(a, run, inbox', runs)
    BY <1>2, <1>3, <2>1 DEF Once
  <2> QED BY <2>2, <2>3
<1>8. inbox' # <<>> /\ inbox'[Len(inbox')] = last
  BY <1>1, <1>2
<1> QED BY <1>4, <1>5, <1>6, <1>7, <1>8

LEMMA SendStatementInv ==
  ASSUME Inv, SendStatement
  PROVE  Inv'
<1>1. run.step = "mail" /\ Posting(run) /\ run.kind = "job" /\ UNCHANGED <<today, row, runs>>
  BY DEF SendStatement, At, Inv, Sent, Posting
<1>2. Page.account \in run.left /\ Once(Page.account, run, inbox, runs)
  BY <1>1 DEF Inv, Shape, Running, Sent, Page
<1>3. CASE Fault /\ NextAccount({}) /\ UNCHANGED inbox
  <2>1. Delivered(inbox', runs) /\ Stored(inbox', row) /\ Marks(inbox')
    BY <1>3 DEF Inv, Shape, Sent
  <2>2. faults' \in 0..MaxFaults
    BY <1>3, FaultIs
  <2> QED BY <1>1, <1>2, <1>3, <2>1, <2>2, PassInv
<1>4. CASE Note("mailed") /\ run' = [run EXCEPT !.step = "mark"] /\ UNCHANGED faults
  <2> DEFINE last == [inbox[Len(inbox)] EXCEPT !.mailed = TRUE]
  <2>1. inbox \in Seq(Delivery) /\ inbox # <<>> /\ Len(inbox) \in DOMAIN inbox
    BY <1>1 DEF Inv, Shape, Delivered, Sent
  <2>2. inbox[Len(inbox)] \in Delivery
    BY <2>1
  <2>3. /\ last \in Delivery /\ last.page = inbox[Len(inbox)].page
        /\ last.run = inbox[Len(inbox)].run /\ last.mailed = TRUE
    BY <2>2 DEF Delivery
  <2>4. inbox' = [inbox EXCEPT ![Len(inbox)] = last]
    BY <1>4 DEF Note
  <2> HIDE DEF last
  <2>5. /\ Delivered(inbox', runs) /\ Stored(inbox', row) /\ Marks(inbox') /\ inbox' # <<>>
        /\ inbox'[Len(inbox')] = last
        /\ \A a : /\ Once(a, run, inbox, runs) => Once(a, run, inbox', runs)
                  /\ Never(a, inbox, runs) => Never(a, inbox', runs)
    BY <1>1, <2>3, <2>4, Noted
  <2>6. run \in RunRecord /\ runs >= 1 /\ Page.month = run.period
    BY <1>1 DEF Inv, Shape, Running, Page
  <2>7. /\ run' \in RunRecord /\ run'.step = "mark" /\ run'.kind = run.kind /\ run'.on = run.on
        /\ run'.period = run.period /\ run'.left = run.left /\ run'.failed = run.failed
        /\ run'.page = Page
    BY <1>4, <2>6 DEF RunRecord, Step, Page
  <2>8. Running(run', runs')
    BY <1>1, <1>2, <2>6, <2>7 DEF Running
  <2>9. Shape'
    BY <1>1, <1>4, <2>5, <2>8 DEF Inv, Shape
  <2>10. Working(run', row') /\ Stored(inbox', row')
    BY <1>1, <2>5, <2>7 DEF Inv, Working, Page
  <2>11. ASSUME NEW a, Once(a, run, inbox, runs)
         PROVE  Once(a, run', inbox', runs')
    <3>1. Once(a, run, inbox', runs)
      BY <2>5, <2>11
    <3> QED BY <1>1, <2>7, <3>1 DEF Once
  <2>12. /\ run'.period = MonthBack(run'.on)
         /\ \A a \in Account \ (run'.left \cup run'.failed) : Once(a, run', inbox', runs')
    BY <1>1, <2>7, <2>11 DEF Inv, Sent
  <2>13. ASSUME NEW a \in run'.left, a # Page.account
         PROVE  Never(a, inbox', runs')
    <3>1. Never(a, inbox, runs)
      BY <1>1, <2>7, <2>13 DEF Inv, Sent, Page
    <3> QED BY <1>1, <2>5, <3>1
  <2>14. Posting(run') /\ run'.step # "done"
    BY <2>7 DEF Posting
  <2>15. Once(Page.account, run', inbox', runs')
    BY <1>2, <2>11
  <2>16. inbox'[Len(inbox')].mailed
    BY <2>3, <2>5
  <2>17. Sent(run', inbox', runs')
    BY <1>1, <2>5, <2>7, <2>12, <2>13, <2>14, <2>15, <2>16 DEF Sent
  <2> QED BY <2>9, <2>10, <2>17 DEF Inv
<1> QED BY <1>3, <1>4 DEF SendStatement

LEMMA MarkStatementInv ==
  ASSUME Inv, MarkStatementEmailed
  PROVE  Inv'
<1>1. run.step = "mark" /\ Posting(run) /\ run.kind = "job" /\ UNCHANGED <<today, row, runs>>
      /\ NextAccount({})
  BY DEF MarkStatementEmailed, At, Inv, Sent, Posting
<1>2. Page.account \in run.left /\ Once(Page.account, run, inbox, runs)
  BY <1>1 DEF Inv, Shape, Running, Sent, Page
<1>3. CASE Fault /\ UNCHANGED inbox
  <2>1. Delivered(inbox', runs) /\ Stored(inbox', row) /\ Marks(inbox')
    BY <1>3 DEF Inv, Shape, Sent
  <2>2. faults' \in 0..MaxFaults
    BY <1>3, FaultIs
  <2> QED BY <1>1, <1>2, <1>3, <2>1, <2>2, PassInv
<1>4. CASE Note("marked") /\ UNCHANGED faults
  <2> DEFINE last == [inbox[Len(inbox)] EXCEPT !.marked = TRUE]
  <2>1. inbox \in Seq(Delivery) /\ inbox # <<>> /\ Len(inbox) \in DOMAIN inbox
    BY <1>1 DEF Inv, Shape, Delivered, Sent
  <2>2. inbox[Len(inbox)] \in Delivery /\ inbox[Len(inbox)].mailed
    BY <1>1, <2>1 DEF Inv, Sent
  <2>3. /\ last \in Delivery /\ last.page = inbox[Len(inbox)].page
        /\ last.run = inbox[Len(inbox)].run /\ last.mailed
    BY <2>2 DEF Delivery
  <2>4. inbox' = [inbox EXCEPT ![Len(inbox)] = last]
    BY <1>4 DEF Note
  <2> HIDE DEF last
  <2>5. /\ Delivered(inbox', runs) /\ Stored(inbox', row) /\ Marks(inbox')
        /\ \A a : /\ Once(a, run, inbox, runs) => Once(a, run, inbox', runs)
                  /\ Never(a, inbox, runs) => Never(a, inbox', runs)
    BY <1>1, <2>3, <2>4, Noted
  <2>6. faults' \in 0..MaxFaults
    BY <1>4 DEF Inv, Shape
  <2> QED BY <1>1, <1>2, <2>5, <2>6, PassInv
<1> QED BY <1>3, <1>4 DEF MarkStatementEmailed

----------------------------------------------------------------------------
(* Every step *)

LEMMA NextInv ==
  ASSUME Inv, [Next]_vars
  PROVE  Inv'
<1>1. CASE Tick
  BY <1>1, TickInv
<1>2. CASE \E a \in Active : \E kind \in {"earn", "redeem"}, typed \in TaskValue : Submit(a, kind, typed)
  <2>1. PICK a \in Active, kind \in {"earn", "redeem"}, typed \in TaskValue : Submit(a, kind, typed)
    BY <1>2
  <2>2. /\ Insert(a, kind, typed, today.month, "pending") /\ today.month \in Month
        /\ kind \in Earned \cup Redeemed /\ typed \in Typed \cup TaskValue
    BY <2>1 DEF Submit, Inv, Shape, Earned, Redeemed
  <2> QED BY <2>2, InsertInv
<1>3. CASE \E a \in Active : \E kind \in {"adjust_credit", "adjust_debit"}, typed \in Typed, m \in Month :
             Adjust(a, kind, typed, m)
  <2>1. PICK a \in Active, kind \in {"adjust_credit", "adjust_debit"}, typed \in Typed, m \in Month :
          Adjust(a, kind, typed, m)
    BY <1>3
  <2>2. /\ Insert(a, kind, typed, m, "settled")
        /\ kind \in Earned \cup Redeemed /\ typed \in Typed \cup TaskValue
    BY <2>1 DEF Adjust, Earned, Redeemed
  <2> QED BY <2>2, InsertInv
<1>4. CASE \E r \in DOMAIN row : Settle(r)
  BY <1>4, SettleInv
<1>5. CASE StartJob
  <2>1. Newest(Account) \in Account /\ MonthBack(today) \in 0..Len(MonthLength)
    BY StatementsAssumption, NewestIsOne, MonthBackIs DEF Inv, Shape
  <2> QED BY <1>5, <2>1, BeginInv DEF StartJob
<1>6. CASE \E a \in Account, m \in Month : StartDownload(a, m)
  <2>1. PICK a \in Account, m \in Month : StartDownload(a, m)
    BY <1>6
  <2>2. m \in 0..Len(MonthLength) /\ {a} \in SUBSET Account /\ a \in {a}
    BY CalendarFacts
  <2>3. Begin("download", {a}, a, m)
    BY <2>1 DEF StartDownload
  <2> QED BY <2>2, <2>3, BeginInv
<1>7. CASE QueryOpening \/ QueryHistory \/ QuerySummary \/ QueryItems
  BY <1>7, OpeningInv, HistoryInv, SummaryInv, ItemsInv
<1>8. CASE GenerateFails \/ Deliver \/ CutJob
  BY <1>8, GenerateFailsInv, DeliverInv, CutJobInv
<1>9. CASE SaveStatement \/ SendStatement \/ MarkStatementEmailed
  BY <1>9, SaveStatementInv, SendStatementInv, MarkStatementInv
<1>10. CASE UNCHANGED vars
  BY <1>10 DEF vars, Inv, Shape
<1> QED BY <1>1, <1>2, <1>3, <1>4, <1>5, <1>6, <1>7, <1>8, <1>9, <1>10 DEF Next

(* The strengthening that every step keeps.                                   *)
THEOREM InvHolds == Spec => []Inv
BY StartsInv, NextInv, PTL DEF Spec

(* The state of the table, of the runs and of the Inbox keeps its type.       *)
THEOREM TypesHold == Spec => []TypeOK
<1>1. ASSUME Inv
      PROVE  TypeOK
  <2>1. row \in Seq(Transaction) /\ Len(row) <= MaxRows /\ Len(row) \in Nat /\ DOMAIN row = 1..Len(row)
    BY <1>1 DEF Inv, Shape, Table
  <2>2. DOMAIN row \subseteq 1..MaxRows /\ \A r \in DOMAIN row : row[r] \in Transaction
    BY <2>1, StatementsAssumption
  <2>3. /\ run.step \in Step /\ run.period \in 0..Len(MonthLength)
        /\ run.left \subseteq Account /\ run.failed \subseteq Account
        /\ run.step # "done" => run.page.account \in run.left /\ run.page.month = run.period
    BY <1>1 DEF Inv, Shape, Running, RunRecord
  <2>4. inbox \in Seq(Delivery) /\ Len(inbox) \in Nat /\ DOMAIN inbox = 1..Len(inbox)
    BY <1>1 DEF Inv, Shape, Delivered
  <2>5. ASSUME NEW i \in 1..Len(inbox)
        PROVE  inbox[i].page \in Statement(DOMAIN row) /\ inbox[i].run \in 1..MaxRuns
    <3>0. i \in DOMAIN inbox /\ inbox[i] \in Delivery
      BY <2>4
    <3>1. inbox[i].page \in Report /\ inbox[i].run \in 1..runs /\ Made(inbox[i].page, row)
      BY <1>1, <3>0 DEF Inv, Shape, Delivered, Delivery, Stored
    <3>2. inbox[i].page.known \subseteq DOMAIN row /\ inbox[i].page.items \subseteq DOMAIN row
      BY <3>1 DEF Made, Begun, Listed, SettledIn
    <3>3. inbox[i].run \in 1..MaxRuns
      BY <1>1, <3>1, StatementsAssumption DEF Inv, Shape
    <3> QED BY <3>1, <3>2, <3>3 DEF Report, Statement
  <2> QED BY <1>1, <2>2, <2>3, <2>5 DEF TypeOK, Inv, Shape
<1> QED BY <1>1, InvHolds, PTL

LEMMA PagesAreMade ==
  ASSUME Inv, NEW s \in Pages
  PROVE  s \in Report /\ Made(s, row)
<1>1. inbox \in Seq(Delivery) /\ Len(inbox) \in Nat /\ DOMAIN inbox = 1..Len(inbox)
  BY DEF Inv, Shape, Delivered
<1>2. CASE \E i \in 1..Len(inbox) : s = inbox[i].page
  <2>1. PICK i \in DOMAIN inbox : s = inbox[i].page
    BY <1>1, <1>2
  <2>2. inbox[i] \in Delivery
    BY <1>1, <2>1
  <2> QED BY <2>1, <2>2 DEF Inv, Stored, Delivery
<1>3. CASE At("made") /\ s = Page
  BY <1>3 DEF Inv, Shape, Running, RunRecord, Working, At, Page
<1> QED BY <1>2, <1>3 DEF Pages

(* What was settled when the statement of its month was begun is on it, and on *)
(* no other, and a line shows the coins that were typed unless they were too   *)
(* many for the integers (statement.go:70-85, money.go:60).                    *)
THEOREM RowsReported == Spec => []RowsAreReported
<1>1. ASSUME Inv
      PROVE  RowsAreReported
  <2> SUFFICES ASSUME NEW s \in Pages
               PROVE  /\ {r \in s.known : row[r].month = s.month} \subseteq s.items
                      /\ \A r \in s.items :
                           /\ row[r].account = s.account /\ row[r].status = "settled"
                           /\ row[r].month = s.month
                           /\ SameCoins(row[r].typed, Format(row[r].amount)) \/ TooLarge(row[r].typed)
    BY DEF RowsAreReported
  <2>1. Listed(s, row)
    BY <1>1, PagesAreMade DEF Made
  <2>2. \A r \in s.items : r \in DOMAIN row
    BY <2>1 DEF Listed, SettledIn
  <2>3. \A r \in s.items : SameCoins(row[r].typed, Format(row[r].amount)) \/ TooLarge(row[r].typed)
    BY <1>1, <2>2 DEF Inv, Shape, Table
  <2> QED BY <2>1, <2>3 DEF Listed, Inside, SettledIn
<1> QED BY <1>1, InvHolds, PTL

(* Two balances differ by what one counts and the other does not.             *)
LEMMA BalDiffers ==
  ASSUME NEW table, Priced(table), NEW R \in SUBSET DOMAIN table, NEW S \in SUBSET DOMAIN table
  PROVE  Bal(table, R) - Bal(table, S) = Bal(table, R \ S) - Bal(table, S \ R)
<1> DEFINE both == R \cap S
<1>1. /\ R \ S \in SUBSET DOMAIN table /\ S \ R \in SUBSET DOMAIN table
      /\ both \in SUBSET DOMAIN table
      /\ (R \ S) \cap both = {} /\ (R \ S) \cup both = R
      /\ (S \ R) \cap both = {} /\ (S \ R) \cup both = S
  OBVIOUS
<1> HIDE DEF both
<1>2. /\ Bal(table, (R \ S) \cup both) = Bal(table, R \ S) + Bal(table, both)
      /\ Bal(table, (S \ R) \cup both) = Bal(table, S \ R) + Bal(table, both)
  BY <1>1, BalSplits
<1>3. Bal(table, both) \in Int /\ Bal(table, R \ S) \in Int /\ Bal(table, S \ R) \in Int
  BY <1>1, BalInt
<1>4. /\ Bal(table, R) = Bal(table, R \ S) + Bal(table, both)
      /\ Bal(table, S) = Bal(table, S \ R) + Bal(table, both)
  BY <1>1, <1>2, Zenon
<1>5. \A a \in Int, b \in Int, c \in Int : (a + c) - (b + c) = a - b
  OBVIOUS
<1> QED BY <1>3, <1>4, <1>5

(* The four queries are no snapshot, and yet a statement's figures are about   *)
(* growing sets of rows between those known at its start and those on it, and  *)
(* the one of the month after opens with its closing balance and exactly the   *)
(* rows dated up to then that one of the two has counted and the other has not *)
(* (statement.go:70-85, store/charts.go:28-60).                                *)
THEOREM StatementsAgreeHolds == Spec => []StatementsAgree
<1>1. ASSUME Inv
      PROVE  StatementsAgree
  <2> SUFFICES ASSUME NEW s \in Pages
               PROVE  \E T \in SUBSET s.items, S \in SUBSET s.items :
                 /\ {r \in s.known : row[r].month = s.month} \subseteq S /\ S \subseteq T
                 /\ s.closing = s.opening + Balance(S)
                 /\ s.earned = Total(OfKind(T, Earned)) /\ s.redeemed = Total(OfKind(T, Redeemed))
                 /\ \A t \in Pages : t.account = s.account /\ t.month = s.month + 1 =>
                      Continues(t, s, DatedBefore(s, s.month) \cup S)
    BY DEF StatementsAgree
  <2>1. Made(s, row) /\ Priced(row)
    BY <1>1, PagesAreMade, TablePriced DEF Inv, Shape
  <2>2. PICK S \in SUBSET s.items, T \in SUBSET s.items :
          S \subseteq T /\ Closes(s, row, S) /\ SumsUp(s, row, T)
    BY <2>1 DEF Made, AddsUp
  <2>3. {r \in s.known : row[r].month = s.month} \subseteq S
        /\ s.closing = s.opening + Bal(row, S)
    BY <2>2 DEF Closes, Inside
  <2>4. Balance(S) = Bal(row, S)
    BY TotalIsSum
  <2>5. s.earned = Total(OfKind(T, Earned)) /\ s.redeemed = Total(OfKind(T, Redeemed))
    <3>1. \A kinds : Total(OfKind(T, kinds)) = Sum(row, Of(row, T, kinds))
      BY TotalIsSum
    <3> QED BY <2>2, <3>1 DEF SumsUp
  <2>6. ASSUME NEW t \in Pages
        PROVE  Continues(t, s, DatedBefore(s, s.month) \cup S)
    <3> DEFINE counted == DatedBefore(s, s.month) \cup S
               carried == DatedBefore(t, t.month)
    <3>1. Begun(t, row)
      BY <1>1, PagesAreMade DEF Made
    <3>2. carried = Earlier(t, row) /\ carried \in SUBSET DOMAIN row
      BY <3>1 DEF DatedBefore, Earlier, Begun, SettledIn
    <3>3. /\ DatedBefore(s, s.month) = Earlier(s, row)
          /\ Earlier(s, row) \in SUBSET DOMAIN row /\ S \in SUBSET DOMAIN row
          /\ counted \in SUBSET DOMAIN row
      BY <2>1 DEF Made, DatedBefore, Earlier, Begun, Listed, SettledIn
    <3>4. Earlier(s, row) \cap S = {}
      <4>1. \A r \in S : row[r].month = s.month
        BY <2>1 DEF Made, Listed
      <4>2. s.month \in Int
        BY <1>1, PagesAreMade, CalendarFacts DEF Report, Statement
      <4> QED BY <4>1, <4>2 DEF Earlier
    <3>5. s.closing = Bal(row, counted)
      <4>1. Bal(row, Earlier(s, row) \cup S) = Bal(row, Earlier(s, row)) + Bal(row, S)
        BY <2>1, <3>3, <3>4, BalSplits
      <4> QED BY <2>1, <2>3, <3>3, <4>1 DEF Made, Begun
    <3>6. t.opening = Bal(row, carried)
      BY <3>1, <3>2 DEF Begun
    <3> HIDE DEF counted, carried
    <3>7. t.opening - s.closing = Bal(row, carried \ counted) - Bal(row, counted \ carried)
      BY <2>1, <3>2, <3>3, <3>5, <3>6, BalDiffers
    <3>8. /\ Balance(carried \ counted) = Bal(row, carried \ counted)
          /\ Balance(counted \ carried) = Bal(row, counted \ carried)
      BY TotalIsSum
    <3> QED BY <3>7, <3>8 DEF Continues, counted, carried
  <2> QED BY <2>2, <2>3, <2>4, <2>5, <2>6
<1> QED BY <1>1, InvHolds, PTL

(* A job that comes to its end has stored one statement of the month before    *)
(* for every account it did not fail on, when that month has the day it runs   *)
(* on, and a statement is marked only when it was mailed (main.go:59, 108-114). *)
THEOREM JobsCover == Spec => []JobsCoverTheMonthBefore
<1>1. ASSUME Inv
      PROVE  JobsCoverTheMonthBefore
  <2>1. inbox \in Seq(Delivery) /\ DOMAIN inbox = 1..Len(inbox)
    BY <1>1 DEF Inv, Shape, Delivered
  <2>2. \A i \in 1..Len(inbox) : inbox[i].marked => inbox[i].mailed
    BY <1>1, <2>1 DEF Inv, Sent, Marks
  <2>3. ASSUME run.kind = "job", At("done"), NEW a \in Account \ run.failed
        PROVE  \E i \in 1..Len(inbox) :
                 /\ inbox[i].run = runs /\ inbox[i].page.account = a
                 /\ \A j \in 1..Len(inbox) :
                      (inbox[j].run = runs /\ inbox[j].page.account = a) => j = i
                 /\ (run.on.month = 1 \/ run.on.day <= MonthLength[run.on.month - 1]) =>
                      inbox[i].page.month = run.on.month - 1
    <3>1. Once(a, run, inbox, runs) /\ run.period = MonthBack(run.on)
      BY <1>1, <2>3 DEF Inv, Sent, At
    <3>2. run.on \in [month: Month, day: Nat]
      BY <1>1 DEF Inv, Shape, Running, RunRecord
    <3>3. (run.on.month = 1 \/ run.on.day <= MonthLength[run.on.month - 1]) =>
            run.period = run.on.month - 1
      BY <3>1, <3>2, MonthBackIs
    <3> QED BY <2>1, <3>1, <3>3 DEF Once, Mine
  <2> QED BY <2>2, <2>3 DEF JobsCoverTheMonthBefore
<1> QED BY <1>1, InvHolds, PTL
===============================================================================
