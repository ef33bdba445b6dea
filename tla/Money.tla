------------------------------- MODULE Money -------------------------------
(***************************************************************************)
(* The value object Money (src/src/topics/ddd/order/domain/money.vo.ts) and*)
(* Order.total, which folds it over the lines of an order.                 *)
(*                                                                         *)
(* An amount is a JavaScript number: here an integer of units, 2 * Parts   *)
(* of them to a cent, up to MaxNumber, or Infinity, or NaN.  A factor      *)
(* counts Parts-ths, so that half a piece can be ordered.  A double misses *)
(* the exact value by a share of it: what Money.of gets, and multiplies by *)
(* 100 once more, is off by a slip of at most one part in Precision, up or *)
(* down.  The slip of each call is an argument; Throws stands for the      *)
(* exception.                                                              *)
(***************************************************************************)
EXTENDS Integers, Sequences

CONSTANTS MaxNumber, Parts, Precision, Infinity, NaN, Throws

ASSUME NumbersAssumption ==
  /\ MaxNumber \in Nat /\ Parts \in Nat \ {0} /\ Precision \in Nat \ {0}
  /\ Infinity \notin Int /\ NaN \notin Int /\ NaN # Infinity
ASSUME ThrowsAssumption == Throws \notin [amount : Nat \union {Infinity}, currency : STRING]

Cent == 2 * Parts

\* How far the number for a may be off, and the number, for any slip
Slack(a) == (a + Precision - 1) \div Precision
Computed(a, slip) == IF slip > Slack(a) THEN a + Slack(a)
                     ELSE IF slip < -Slack(a) THEN a - Slack(a) ELSE a + slip

Bounded(n) == IF n > MaxNumber THEN Infinity ELSE n

Plus(a, b) == IF NaN \in {a, b} THEN NaN
              ELSE IF Infinity \in {a, b} THEN Infinity ELSE Bounded(a + b)
Times(a, q) == IF NaN \in {a, q} \/ {a, q} = {0, Infinity} THEN NaN
               ELSE IF Infinity \in {a, q} THEN Infinity
               ELSE Bounded((a * q) \div Parts)

\* Mutant: the amount is kept as computed
InCentsUnrounded(a, slip) ==
  IF 100 * Computed(a, slip) > MaxNumber THEN Infinity ELSE Computed(a, slip)

\* Math.round(amount * 100) / 100: the product may be too large for a number
InCents(a, slip) ==
  IF 100 * Computed(a, slip) > MaxNumber THEN Infinity
  ELSE Cent * ((Computed(a, slip) + Parts) \div Cent)

\* Mutant: NaN, which is neither negative nor infinite, is let through
OfAnyNumber(a, currency, slip) ==
  IF a = Infinity THEN Throws
  ELSE IF a = NaN THEN [amount |-> NaN, currency |-> currency]
  ELSE IF a < 0 THEN Throws
  ELSE [amount |-> InCents(a, slip), currency |-> currency]

Of(a, currency, slip) ==
  IF a \in {NaN, Infinity} THEN Throws
  ELSE IF a < 0 THEN Throws
  ELSE [amount |-> InCents(a, slip), currency |-> currency]

Zero == [amount |-> 0, currency |-> "USD"]

SameCurrency(m, n) == m.currency = n.currency

Add(m, n, slip) ==
  IF Throws \in {m, n} THEN Throws
  ELSE IF ~SameCurrency(m, n) THEN Throws
  ELSE Of(Plus(m.amount, n.amount), m.currency, slip)

Multiply(m, factor, slip) == Of(Times(m.amount, factor), m.currency, slip)

\* Order.total; slips gives, for each line, those of its product and its sum
TotalWith(lines, slips) ==
  LET sum[n \in 0 .. Len(lines)] ==
        IF n = 0 THEN Zero
        ELSE Add(sum[n-1], Multiply(lines[n].unitPrice, lines[n].quantity, slips[n].product),
                 slips[n].sum)
  IN sum[Len(lines)]

Total(lines) == TotalWith(lines, [n \in DOMAIN lines |-> [product |-> 0, sum |-> 0]])
=============================================================================
