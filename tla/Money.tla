--------------------------------- MODULE Money ---------------------------------
(***************************************************************************)
(* Amounts of coins (internal/money/money.go): parsed from what somebody      *)
(* typed into minor units of a signed integer, and written back.  A typed     *)
(* amount is a sign, the number before the point, and the digits after it.    *)
(***************************************************************************)
EXTENDS Integers

CONSTANTS
  Base,      \* of the digits
  Scale,     \* decimal places
  MaxInt     \* the largest value of the integers that hold minor units

ASSUME MoneyAssumption == Base \in Nat \ {0, 1} /\ Scale \in Nat \ {0} /\ MaxInt \in Nat \ {0}

(* True of all numbers; stated because the provers know nothing of powers.     *)
ASSUME PowersAssumption == \A n \in 0..Scale : Base ^ n \in Nat \ {0}

MinorPerCoin == Base ^ Scale
Coins == [negative: BOOLEAN, whole: Nat, places: Nat, frac: Nat]

(* Integers of one width wrap around. *)
Wrap(n) == ((n + MaxInt + 1) % (2 * (MaxInt + 1))) - (MaxInt + 1)

(* What is refused; Sscanf finds a whole part that does not fit.               *)
Parses(typed) == ~typed.negative /\ typed.whole <= MaxInt /\ typed.places <= Scale

(* The digits after the point: how many minor units, and that their places     *)
(* leave no room for a whole coin.                                             *)
FracMinor(typed) == typed.frac * Base ^ (Scale - typed.places)
FracIsPartOfCoin(typed) == FracMinor(typed) < MinorPerCoin

(* The product is not checked. *)
ParseCoins(typed) ==
  Wrap(typed.whole * MinorPerCoin + FracMinor(typed))

(* The whole coins and the minor units that are left, in magnitude. *)
Format(minor) ==
  LET magnitude == IF minor < 0 THEN -minor ELSE minor
  IN [negative |-> minor < 0, whole |-> magnitude \div MinorPerCoin,
      minor |-> magnitude % MinorPerCoin]

(* The same number of coins. *)
SameCoins(typed, shown) ==
  /\ shown.negative = typed.negative
  /\ shown.whole = typed.whole
  /\ shown.minor = FracMinor(typed)

(* What overflows when it is counted in minor units. *)
TooLarge(typed) == typed.whole >= MaxInt \div MinorPerCoin
===============================================================================
