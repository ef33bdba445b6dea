------------------------------ MODULE MCMoney ------------------------------
\* Totals of all small carts, line by line, against what they should be.
EXTENDS Money, FiniteSets

CONSTANTS Prices,      \* of single units, as the caller writes them
          Currencies,
          Quantities,  \* those addLine lets through
          Slips, MaxLines

ASSUME CartsAssumption ==
  /\ Prices \subseteq Int \union {Infinity, NaN}
  /\ "USD" \in Currencies /\ Currencies \subseteq STRING
  /\ Quantities \subseteq Nat \union {Infinity, NaN}
  /\ Slips \subseteq Int /\ MaxLines \in Nat

\* As far off as a double can be, in either direction
Extremes == {-MaxNumber, MaxNumber}

VARIABLES lines, slips
vars == <<lines, slips>>

Init == lines = <<>> /\ slips = <<>>

Next == \E p \in Prices, c \in Currencies, q \in Quantities, r, s, t \in Slips :
  /\ Len(lines) < MaxLines
  /\ Of(p, c, r) # Throws
  /\ lines' = Append(lines, [unitPrice |-> Of(p, c, r), quantity |-> q])
  /\ slips' = Append(slips, [product |-> s, sum |-> t])

Spec == Init /\ [][Next]_vars

Lines == DOMAIN lines
Countable == \A n \in Lines : /\ lines[n].unitPrice.amount # Infinity
                              /\ lines[n].quantity \notin {Infinity, NaN}

\* What each line comes to, and whether that is no whole number of cents
Exactly(n) == (lines[n].unitPrice.amount * lines[n].quantity) \div Parts
Broken(n) == IF Exactly(n) % Cent = 0 THEN 0 ELSE 1

SumsOf(v) ==
  LET sum[n \in 0 .. Len(lines)] == IF n = 0 THEN 0 ELSE sum[n-1] + v[n] IN sum
Exact == SumsOf([n \in Lines |-> Exactly(n)])[Len(lines)]
Odd == SumsOf([n \in Lines |-> Broken(n)])[Len(lines)]

\* The most that any sum on the way can come to
Peak == Exact + Cent * Odd

\* While doubles of the size of the total still tell half a cent, and can be
\* multiplied by 100, a total is a whole number of cents; and it is the exact
\* one, but for at most half a cent, and a slip, from each line whose own
\* product is no whole number of cents.  The slips of the other products and
\* of the sums do not add up, however many there are: money.vo.ts:21 rounds
\* after each of them.
CentExact ==
  /\ Countable
  /\ \A n \in Lines : lines[n].unitPrice.currency = "USD"
  /\ Slack(Peak) < Parts /\ 100 * (Peak + Slack(Peak)) <= MaxNumber
  => LET total == TotalWith(lines, slips)
         off == Odd * (Parts + Slack(Peak))
     IN /\ total # Throws /\ total.currency = "USD"
        /\ total.amount % Cent = 0
        /\ total.amount \in Exact - off .. Exact + off

\* What cannot be totalled throws: a total is never the sum of dollars and
\* something else, and never NaN, whatever quantities got past addLine.
TotalThrows ==
  (~Countable \/ \E n \in Lines : lines[n].unitPrice.currency # "USD")
    => TotalWith(lines, slips) = Throws
=============================================================================
