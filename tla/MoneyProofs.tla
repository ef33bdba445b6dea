----------------------------- MODULE MoneyProofs -----------------------------
(* Totals of orders, for carts of any length, any quantities and doubles     *)
(* of any precision, off by whatever that allows: exact to the cent but for  *)
(* the lines that are no whole cents themselves, and an exception whenever   *)
(* a line cannot be counted in dollars.                                      *)
EXTENDS MCMoney, Induction

\* Amounts as of keeps them, the lines of a cart, and what may be off.
Cents == {Cent * k : k \in Nat}
Amounts == [amount : Cents \union {Infinity}, currency : Currencies]
CartLine == [unitPrice : Amounts, quantity : Nat \union {Infinity, NaN}]
CartSlip == [product : Int, sum : Int]

-----------------------------------------------------------------------------
(* Arithmetic. *)

LEMMA Division ==
  ASSUME NEW d \in Nat \ {0}, NEW v \in Nat
  PROVE  v \div d \in Nat /\ d * (v \div d) <= v /\ v < d * (v \div d) + d
BY Z3

LEMMA DivisionUnique ==
  ASSUME NEW d \in Nat \ {0}, NEW v \in Nat, NEW k \in Nat, d * k <= v, v < d * k + d
  PROVE  v \div d = k
BY Z3

LEMMA DivisionGrows ==
  ASSUME NEW d \in Nat \ {0}, NEW v \in Nat, NEW w \in Nat, v <= w
  PROVE  v \div d <= w \div d
BY Z3

LEMMA Remainder ==
  ASSUME NEW d \in Nat \ {0}, NEW v \in Nat
  PROVE  /\ v % d = 0 => \E k \in Nat : v = d * k
         /\ (d * v) % d = 0
<1>1. v % d = 0 => v = d * (v \div d)
  BY Z3
<1>2. (d * v) % d = 0
  BY Z3
<1>. QED BY <1>1, <1>2, Division

LEMMA Products ==
  ASSUME NEW c \in Nat, NEW g \in Nat, NEW h \in Nat, NEW r \in Nat, g <= h, r <= c
  PROVE  g * r <= c * h /\ g * r \in Nat /\ c * h \in Nat
<1>1. g * r <= h * r
  BY Z3
<1>2. h * r <= c * h
  BY Z3
<1>3. g * r \in Nat /\ h * r \in Nat /\ c * h \in Nat
  BY Z3
<1>. QED BY <1>1, <1>2, <1>3

LEMMA CentFacts == Cent \in Nat \ {0} /\ Cent = Parts + Parts /\ Parts \in Nat \ {0}
BY NumbersAssumption DEF Cent

\* A number of a larger size may be off further, but by no more than itself.
LEMMA SlackFacts ==
  ASSUME NEW a \in Nat
  PROVE  /\ Slack(a) \in Nat /\ Slack(a) <= a
         /\ \A b \in Nat : a <= b => Slack(a) <= Slack(b)
<1> DEFINE d == Precision
<1>1. d \in Nat \ {0} /\ \A x \in Nat : x + d - 1 \in Nat
  BY NumbersAssumption
<1>2. \A x \in Nat : Slack(x) = (x + d - 1) \div d
  BY DEF Slack
<1> HIDE DEF d
<1>3. Slack(a) \in Nat
  BY <1>1, <1>2, Division
<1>4. Slack(a) <= a
  <2>1. CASE a = 0
    <3>1. d * 0 <= a + d - 1 /\ a + d - 1 < d * 0 + d
      BY <1>1, <2>1
    <3>2. (a + d - 1) \div d = 0
      BY <1>1, <3>1, DivisionUnique
    <3>. QED BY <1>2, <2>1, <3>2
  <2>2. CASE a # 0
    <3>1. d * Slack(a) <= a + d - 1
      BY <1>1, <1>2, Division
    <3>2. d * (a + 1) = d * a + d /\ a + d - 1 < d * a + d
      BY <1>1, <2>2, Z3
    <3>3. d * Slack(a) < d * (a + 1)
      BY <1>1, <1>3, <3>1, <3>2
    <3>. QED BY <1>1, <1>3, <3>3, Z3
  <2>. QED BY <2>1, <2>2
<1>5. ASSUME NEW b \in Nat, a <= b PROVE Slack(a) <= Slack(b)
  <2>1. a + d - 1 <= b + d - 1
    BY <1>1, <1>5
  <2>. QED BY <1>1, <1>2, <2>1, DivisionGrows
<1>. QED BY <1>3, <1>4, <1>5

LEMMA ComputedNear ==
  ASSUME NEW a \in Nat, NEW s \in Int
  PROVE  /\ Computed(a, s) \in Nat
         /\ Computed(a, s) >= a - Slack(a) /\ Computed(a, s) <= a + Slack(a)
<1> DEFINE x == Slack(a)
<1>1. x \in Nat /\ x <= a
  BY SlackFacts
<1>2. Computed(a, s) = IF s > x THEN a + x ELSE IF s < -x THEN a - x ELSE a + s
  BY DEF Computed
<1> HIDE DEF x
<1>3. Computed(a, s) \in Nat /\ Computed(a, s) >= a - x /\ Computed(a, s) <= a + x
  BY <1>1, <1>2
<1>. QED BY <1>3 DEF x

-----------------------------------------------------------------------------
(* The value object. *)

\* An amount is not the exception.
LEMMA AmountsAre ==
  ASSUME NEW m \in Amounts
  PROVE  /\ m # Throws /\ m.currency \in Currencies
         /\ m.amount = Infinity \/ (m.amount \in Nat /\ m.amount # Infinity /\ m.amount # NaN
                                    /\ \E k \in Nat : m.amount = Cent * k)
         /\ m = [amount |-> m.amount, currency |-> m.currency]
<1>0. \A k \in Nat : Cent * k \in Nat
  BY CentFacts
<1>1. m.amount \in Cents \union {Infinity} /\ m.currency \in Currencies
      /\ m = [amount |-> m.amount, currency |-> m.currency]
  BY DEF Amounts
<1>2. m \in [amount : Nat \union {Infinity}, currency : STRING]
  <2>1. m.amount \in Nat \union {Infinity}
    BY <1>0, <1>1 DEF Cents
  <2>2. m.currency \in STRING
    BY <1>1, CartsAssumption
  <2> DEFINE a == m.amount
             c == m.currency
  <2>3. m = [amount |-> a, currency |-> c] /\ a \in Nat \union {Infinity} /\ c \in STRING
    BY <1>1, <2>1, <2>2
  <2> HIDE DEF a, c
  <2>. QED BY <2>3
<1>3. m # Throws
  BY <1>2, ThrowsAssumption
<1>4. m.amount # Infinity => m.amount \in Nat /\ m.amount # NaN /\ \E k \in Nat : m.amount = Cent * k
  BY <1>0, <1>1, NumbersAssumption DEF Cents
<1>. QED BY <1>1, <1>3, <1>4

\* Money.of throws or keeps the currency, with an amount in whole cents.
LEMMA OfTyped ==
  ASSUME NEW a \in Int \union {NaN, Infinity}, NEW c \in Currencies, NEW s \in Int
  PROVE  /\ Of(a, c, s) = Throws \/ (Of(a, c, s) \in Amounts /\ Of(a, c, s).currency = c)
         /\ a \in {NaN, Infinity} => Of(a, c, s) = Throws
<1>1. CASE a \in {NaN, Infinity}
  BY <1>1 DEF Of
<1>2. CASE a \notin {NaN, Infinity} /\ a < 0
  BY <1>2 DEF Of
<1>3. CASE a \notin {NaN, Infinity} /\ ~(a < 0)
  <2>1. a \in Nat
    BY <1>3
  <2>2. (Computed(a, s) + Parts) \div Cent \in Nat
    <3>1. Computed(a, s) + Parts \in Nat
      BY <2>1, CentFacts, ComputedNear
    <3>. QED BY <3>1, CentFacts, Division
  <2>3. InCents(a, s) \in Cents \union {Infinity}
    BY <2>2 DEF InCents, Cents
  <2>4. Of(a, c, s) = [amount |-> InCents(a, s), currency |-> c]
    BY <1>3 DEF Of
  <2>. QED BY <1>3, <2>3, <2>4 DEF Amounts
<1>. QED BY <1>1, <1>2, <1>3

\* A number that is off by less than half a cent, and can be multiplied by
\* 100, is rounded to whole cents: the right ones, if it stands for such.
LEMMA OfRounds ==
  ASSUME NEW a \in Nat, NEW s \in Int, NEW c \in Currencies, NEW peak \in Nat, a <= peak,
         Slack(peak) < Parts, 100 * (peak + Slack(peak)) <= MaxNumber
  PROVE  \E k \in Nat : /\ Of(Bounded(a), c, s) = [amount |-> Cent * k, currency |-> c]
                        /\ Cent * k <= a + Parts + Slack(peak) /\ a <= Cent * k + Parts + Slack(peak)
                        /\ a % Cent = 0 => a = Cent * k
<1> DEFINE v == Computed(a, s)
           k == (v + Parts) \div Cent
           x == Slack(peak)
<1>1. Slack(a) \in Nat /\ x \in Nat /\ Slack(a) <= x /\ x < Parts
  BY SlackFacts
<1>2. v \in Nat /\ v >= a - x /\ v <= a + x
  <2>1. v \in Nat /\ v >= a - Slack(a) /\ v <= a + Slack(a)
    BY ComputedNear
  <2> HIDE DEF v, x
  <2>. QED BY <1>1, <2>1
<1>3. 100 * v <= MaxNumber /\ a <= MaxNumber /\ MaxNumber \in Nat
  <2> HIDE DEF v, x
  <2>1. 100 * (peak + x) <= MaxNumber
    BY DEF x
  <2>. QED BY <1>1, <1>2, <2>1, NumbersAssumption
<1>4. k \in Nat /\ Cent * k <= v + Parts /\ v + Parts < Cent * k + Cent
  <2> HIDE DEF v
  <2>1. v + Parts \in Nat
    BY <1>2, CentFacts
  <2>. QED BY <2>1, CentFacts, Division
<1>5. Of(Bounded(a), c, s) = [amount |-> Cent * k, currency |-> c]
  <2>1. Bounded(a) = a
    BY <1>3 DEF Bounded
  <2>2. a \notin {NaN, Infinity} /\ ~(a < 0)
    BY NumbersAssumption
  <2>3. ~(100 * v > MaxNumber)
    <3> HIDE DEF v
    <3>. QED BY <1>2, <1>3
  <2>4. InCents(a, s) = Cent * k
    BY <2>3 DEF InCents
  <2>. QED BY <2>1, <2>2, <2>4 DEF Of
<1>6. ASSUME a % Cent = 0 PROVE a = Cent * k
  <2>1. PICK j \in Nat : a = Cent * j
    BY <1>6, CentFacts, Remainder
  <2>2. Cent * j <= v + Parts /\ v + Parts < Cent * j + Cent
    <3> HIDE DEF v, x, k
    <3>1. Cent * j \in Nat
      BY CentFacts
    <3>. QED BY <1>1, <1>2, <2>1, <3>1, CentFacts
  <2>3. k = j
    <3>1. v + Parts \in Nat
      BY <1>2, CentFacts
    <3> HIDE DEF v
    <3>. QED BY <2>2, <3>1, CentFacts, DivisionUnique
  <2>. QED BY <2>1, <2>3
<1>7. Cent * k <= a + Parts + x /\ a <= Cent * k + Parts + x
  <2> DEFINE z == Cent * k
  <2>1. z \in Nat
    BY <1>4, CentFacts
  <2>2. z <= v + Parts /\ v + Parts < z + Cent
    BY <1>4
  <2> HIDE DEF z, v, x, k
  <2>. QED BY <1>1, <1>2, <2>1, <2>2, CentFacts DEF z
<1> HIDE DEF k
<1>. QED BY <1>4, <1>5, <1>6, <1>7 DEF x

\* Of a line's product, and of a sum of whole cents.
LEMMA MultiplyCounts ==
  ASSUME NEW m \in Amounts, m.amount # Infinity, NEW q \in Nat, NEW s \in Int
  PROVE  Multiply(m, q, s) = Of(Bounded((m.amount * q) \div Parts), m.currency, s)
<1>1. m.amount \in Nat
  BY AmountsAre
<1>2. NaN \notin {m.amount, q} /\ Infinity \notin {m.amount, q}
  BY <1>1, NumbersAssumption
<1>3. Times(m.amount, q) = Bounded((m.amount * q) \div Parts)
  BY <1>2 DEF Times
<1>. QED BY <1>3 DEF Multiply

LEMMA AddExact ==
  ASSUME NEW i \in Nat, NEW j \in Nat, NEW s \in Int, NEW c \in Currencies, NEW peak \in Nat,
         Cent * i + Cent * j <= peak, Slack(peak) < Parts, 100 * (peak + Slack(peak)) <= MaxNumber
  PROVE  Add([amount |-> Cent * i, currency |-> c], [amount |-> Cent * j, currency |-> c], s)
           = [amount |-> Cent * i + Cent * j, currency |-> c]
<1> DEFINE m == [amount |-> Cent * i, currency |-> c]
           n == [amount |-> Cent * j, currency |-> c]
           a == Cent * i + Cent * j
<1>1. m \in Amounts /\ n \in Amounts
  BY DEF Amounts, Cents
<1>2. Throws \notin {m, n} /\ SameCurrency(m, n) /\ m.amount = Cent * i /\ n.amount = Cent * j /\ m.currency = c
  BY <1>1, AmountsAre DEF SameCurrency
<1>3. Cent * i \in Nat /\ Cent * j \in Nat
  BY CentFacts
<1>4. NaN \notin {Cent * i, Cent * j} /\ Infinity \notin {Cent * i, Cent * j}
  BY <1>3, NumbersAssumption
<1>5. Plus(Cent * i, Cent * j) = Bounded(a)
  BY <1>4 DEF Plus
<1>6. a \in Nat /\ a <= peak /\ a % Cent = 0
  <2>1. a = Cent * (i + j) /\ i + j \in Nat
    BY CentFacts, Z3
  <2>2. (Cent * (i + j)) % Cent = 0
    BY <2>1, CentFacts, Remainder
  <2>. QED BY <1>3, <2>1, <2>2
<1> HIDE DEF a
<1>7. PICK k \in Nat : /\ Of(Bounded(a), c, s) = [amount |-> Cent * k, currency |-> c]
                       /\ a % Cent = 0 => a = Cent * k
  BY <1>6, OfRounds
<1>8. Of(Bounded(a), c, s) = [amount |-> a, currency |-> c]
  BY <1>6, <1>7
<1> HIDE DEF m, n
<1>9. Add(m, n, s) = Of(Plus(Cent * i, Cent * j), c, s)
  BY <1>2 DEF Add
<1>. QED BY <1>5, <1>8, <1>9 DEF m, n, a

\* A product keeps the currency, and throws for what has no number.
LEMMA MultiplyTyped ==
  ASSUME NEW m \in Amounts, NEW q \in Nat \union {Infinity, NaN}, NEW s \in Int
  PROVE  /\ Multiply(m, q, s) = Throws
              \/ (Multiply(m, q, s) \in Amounts /\ Multiply(m, q, s).currency = m.currency)
         /\ m.amount = Infinity \/ q \in {Infinity, NaN} => Multiply(m, q, s) = Throws
<1> DEFINE a == Times(m.amount, q)
<1>1. /\ a \in Int \union {NaN, Infinity}
      /\ m.amount = Infinity \/ q \in {Infinity, NaN} => a \in {NaN, Infinity}
  <2>1. CASE NaN \in {m.amount, q} \/ {m.amount, q} = {0, Infinity}
    BY <2>1 DEF Times
  <2>2. CASE ~(NaN \in {m.amount, q} \/ {m.amount, q} = {0, Infinity}) /\ Infinity \in {m.amount, q}
    BY <2>2 DEF Times
  <2>3. CASE NaN \notin {m.amount, q} /\ Infinity \notin {m.amount, q}
    <3>1. m.amount \in Nat /\ q \in Nat
      BY <2>3, AmountsAre
    <3>2. (m.amount * q) \div Parts \in Int
      <4>1. m.amount * q \in Nat
        BY <3>1
      <4>. QED BY <4>1, CentFacts, Division
    <3>3. {m.amount, q} # {0, Infinity}
      BY <2>3
    <3>4. a = Bounded((m.amount * q) \div Parts)
      BY <2>3, <3>3 DEF Times
    <3>. QED BY <2>3, <3>2, <3>4 DEF Bounded
  <2>. QED BY <2>1, <2>2, <2>3
<1>2. Multiply(m, q, s) = Of(a, m.currency, s) /\ m.currency \in Currencies
  BY AmountsAre DEF Multiply
<1> HIDE DEF a
<1>. QED BY <1>1, <1>2, OfTyped

\* A sum keeps the currency, and throws when it is not the same, or for an
\* exception before it.
LEMMA AddTyped ==
  ASSUME NEW m \in Amounts \union {Throws}, NEW n \in Amounts \union {Throws}, NEW s \in Int
  PROVE  /\ Add(m, n, s) = Throws \/ (Add(m, n, s) \in Amounts /\ Add(m, n, s).currency = m.currency)
         /\ m = Throws \/ n = Throws \/ m.currency # n.currency => Add(m, n, s) = Throws
<1>1. CASE Throws \in {m, n}
  BY <1>1 DEF Add
<1>2. CASE Throws \notin {m, n} /\ m.currency # n.currency
  BY <1>2 DEF Add, SameCurrency
<1>3. CASE Throws \notin {m, n} /\ m.currency = n.currency
  <2> DEFINE a == Plus(m.amount, n.amount)
  <2>1. m \in Amounts /\ n \in Amounts
    BY <1>3
  <2>2. a \in Int \union {NaN, Infinity}
    <3>1. CASE NaN \in {m.amount, n.amount} \/ Infinity \in {m.amount, n.amount}
      BY <3>1 DEF Plus
    <3>2. CASE NaN \notin {m.amount, n.amount} /\ Infinity \notin {m.amount, n.amount}
      <4>1. m.amount \in Nat /\ n.amount \in Nat
        BY <2>1, <3>2, AmountsAre
      <4>2. a = Bounded(m.amount + n.amount)
        BY <3>2 DEF Plus
      <4>. QED BY <4>1, <4>2 DEF Bounded
    <3>. QED BY <3>1, <3>2
  <2>3. Add(m, n, s) = Of(a, m.currency, s) /\ m.currency \in Currencies
    BY <1>3, <2>1, AmountsAre DEF Add, SameCurrency
  <2> HIDE DEF a
  <2>. QED BY <1>3, <2>2, <2>3, OfTyped
<1>. QED BY <1>1, <1>2, <1>3

-----------------------------------------------------------------------------
(* The recursions. *)

\* Order.total adds the lines up one by one.
LEMMA TotalSteps ==
  ASSUME NEW ls \in Seq(CartLine), NEW ss \in Seq(CartSlip), Len(ss) = Len(ls)
  PROVE  \E sum \in [0 .. Len(ls) -> Amounts \union {Throws}] :
           /\ sum[0] = Zero /\ TotalWith(ls, ss) = sum[Len(ls)]
           /\ \A n \in 1 .. Len(ls) :
                sum[n] = Add(sum[n-1],
                             Multiply(ls[n].unitPrice, ls[n].quantity, ss[n].product), ss[n].sum)
<1> DEFINE V == Amounts \union {Throws}
           product(n) == Multiply(ls[n].unitPrice, ls[n].quantity, ss[n].product)
           next == [n \in 1 .. Len(ls) |-> [v \in V |-> Add(v, product(n), ss[n].sum)]]
           Step(f) == [n \in 0 .. Len(ls) |->
             IF n = 0 THEN Zero
             ELSE Add(f[n-1], Multiply(ls[n].unitPrice, ls[n].quantity, ss[n].product), ss[n].sum)]
           sum == CHOOSE f : f = Step(f)
<1>1. Zero \in V /\ Len(ls) \in Nat
  <2>1. 0 = Cent * 0
    BY CentFacts
  <2>2. 0 \in Cents
    BY <2>1 DEF Cents
  <2>3. Zero \in Amounts
    BY <2>2, CartsAssumption DEF Zero, Amounts
  <2>. QED BY <2>3
<1>2. ASSUME NEW n \in 1 .. Len(ls), NEW v \in V PROVE Add(v, product(n), ss[n].sum) \in V
  <2>1. ls[n].unitPrice \in Amounts /\ ls[n].quantity \in Nat \union {Infinity, NaN}
        /\ ss[n].product \in Int /\ ss[n].sum \in Int
    <3>1. ls[n] \in CartLine /\ ss[n] \in CartSlip
      OBVIOUS
    <3>. QED BY <3>1 DEF CartLine, CartSlip
  <2>2. product(n) \in V
    BY <2>1, MultiplyTyped
  <2> HIDE DEF product
  <2>. QED BY <2>1, <2>2, AddTyped
<1>3. next \in [1 .. Len(ls) -> [V -> V]]
  <2> HIDE DEF V, product
  <2>. QED BY <1>2
<1>4. PICK g \in [0 .. Len(ls) -> V] : g[0] = Zero /\ \A n \in 1 .. Len(ls) : g[n] = next[n][g[n-1]]
  <2> HIDE DEF V, next
  <2>1. \E f : Iterates(f, V, Zero, Len(ls), next)
    BY <1>1, <1>3, RecursionExists
  <2>. QED BY <2>1 DEF Iterates
<1>5. g = Step(g)
  <2>1. ASSUME NEW n \in 1 .. Len(ls) PROVE g[n] = Add(g[n-1], product(n), ss[n].sum)
    <3>1. n - 1 \in 0 .. Len(ls) /\ g[n-1] \in V
      BY <1>1
    <3>2. next[n][g[n-1]] = Add(g[n-1], product(n), ss[n].sum)
      BY <3>1
    <3> HIDE DEF next, product
    <3>. QED BY <1>4, <3>2
  <2>2. ASSUME NEW n \in 0 .. Len(ls)
        PROVE  g[n] = IF n = 0 THEN Zero ELSE Add(g[n-1], product(n), ss[n].sum)
    <3>1. n = 0 \/ n \in 1 .. Len(ls)
      OBVIOUS
    <3> HIDE DEF product
    <3>. QED BY <1>4, <2>1, <3>1
  <2>3. g = [n \in 0 .. Len(ls) |-> g[n]]
    OBVIOUS
  <2>. QED BY <2>2, <2>3
<1>6. sum = Step(sum)
  <2>1. \E f : f = Step(f)
    BY <1>5
  <2>. QED BY <2>1, Zenon
<1>7. TotalWith(ls, ss) = sum[Len(ls)]
  BY Zenon DEF TotalWith
<1> HIDE DEF sum, V
<1>8. ASSUME NEW n \in 0 .. Len(ls)
      PROVE  sum[n] = IF n = 0 THEN Zero ELSE Add(sum[n-1], product(n), ss[n].sum)
  BY <1>6
<1>9. DOMAIN sum = 0 .. Len(ls) /\ sum = [n \in 0 .. Len(ls) |-> sum[n]]
  <2>1. \A f : DOMAIN Step(f) = 0 .. Len(ls) /\ Step(f) = [n \in 0 .. Len(ls) |-> Step(f)[n]]
    OBVIOUS
  <2> HIDE DEF Step
  <2>. QED BY <1>6, <2>1
<1>10. \A n \in 0 .. Len(ls) : sum[n] \in V
  <2> DEFINE S == {n \in 0 .. Len(ls) : sum[n] \in V}
  <2>1. 0 \in S
    BY <1>1, <1>8
  <2>2. ASSUME NEW n \in 0 .. (Len(ls) - 1), n \in S PROVE n + 1 \in S
    <3>1. n + 1 \in 1 .. Len(ls) /\ n + 1 \in 0 .. Len(ls) /\ n + 1 # 0 /\ n + 1 - 1 = n
      BY <1>1
    <3>2. sum[n+1] = Add(sum[n], product(n+1), ss[n+1].sum)
      BY <1>8, <3>1
    <3>3. sum[n] \in V
      BY <2>2
    <3> HIDE DEF product
    <3>4. sum[n+1] \in V
      BY <1>2, <3>1, <3>2, <3>3
    <3>. QED BY <3>1, <3>4
  <2> HIDE DEF S
  <2>3. 0 .. Len(ls) \subseteq S
    BY <1>1, <2>1, <2>2, IntervalInduction
  <2>. QED BY <2>3 DEF S
<1>11. sum \in [0 .. Len(ls) -> V]
  BY <1>9, <1>10
<1>12. sum[0] = Zero
  BY <1>1, <1>8
<1>13. ASSUME NEW n \in 1 .. Len(ls) PROVE sum[n] = Add(sum[n-1], product(n), ss[n].sum)
  BY <1>8
<1>. QED BY <1>7, <1>11, <1>12, <1>13 DEF V

\* A line that can be counted, and what it comes to.
LEMMA LineCounts ==
  ASSUME lines \in Seq(CartLine), Countable, NEW n \in 1 .. Len(lines)
  PROVE  /\ lines[n].unitPrice \in Amounts /\ lines[n].unitPrice.amount # Infinity
         /\ lines[n].quantity \in Nat /\ Exactly(n) \in Nat
<1>1. lines[n] \in CartLine /\ n \in DOMAIN lines
  OBVIOUS
<1>2. lines[n].unitPrice \in Amounts /\ lines[n].quantity \in Nat \union {Infinity, NaN}
  BY <1>1 DEF CartLine
<1>3. lines[n].unitPrice.amount # Infinity /\ lines[n].quantity \notin {Infinity, NaN}
  BY <1>1 DEF Countable, Lines
<1> DEFINE p == lines[n].unitPrice
           q == lines[n].quantity
<1>4. Exactly(n) = (p.amount * q) \div Parts
  BY DEF Exactly
<1> HIDE DEF p, q
<1>5. p \in Amounts /\ p.amount # Infinity /\ q \in Nat
  BY <1>2, <1>3 DEF p, q
<1>6. p.amount \in Nat
  BY <1>5, AmountsAre
<1>7. p.amount * q \in Nat
  BY <1>5, <1>6
<1>8. (p.amount * q) \div Parts \in Nat
  BY <1>7, CentFacts, Division
<1>. QED BY <1>4, <1>5, <1>8 DEF p, q

\* The sums a total is compared with go line by line too, and never fall.
LEMMA SumsGrow ==
  ASSUME lines \in Seq(CartLine), NEW v \in [Lines -> Nat]
  PROVE  /\ SumsOf(v)[0] = 0
         /\ \A n \in 1 .. Len(lines) : SumsOf(v)[n] = SumsOf(v)[n-1] + v[n]
         /\ \A n \in 0 .. Len(lines) : SumsOf(v)[n] \in Nat /\ SumsOf(v)[n] <= SumsOf(v)[Len(lines)]
<1> DEFINE next == [n \in 1 .. Len(lines) |-> [w \in Nat |-> w + v[n]]]
           Step(f) == [n \in 0 .. Len(lines) |-> IF n = 0 THEN 0 ELSE f[n-1] + v[n]]
           s == SumsOf(v)
<1>1. Len(lines) \in Nat /\ Lines = 1 .. Len(lines)
  BY DEF Lines
<1>2. ASSUME NEW n \in 1 .. Len(lines) PROVE v[n] \in Nat
  BY <1>1
<1>3. next \in [1 .. Len(lines) -> [Nat -> Nat]]
  <2>1. \A n \in 1 .. Len(lines), w \in Nat : w + v[n] \in Nat
    BY <1>2
  <2>. QED BY <2>1
<1>4. PICK g : Iterates(g, Nat, 0, Len(lines), next)
  <2> HIDE DEF next
  <2>. QED BY <1>1, <1>3, RecursionExists
<1>5. g \in [0 .. Len(lines) -> Nat] /\ g[0] = 0 /\ \A n \in 1 .. Len(lines) : g[n] = next[n][g[n-1]]
  <2> HIDE DEF next
  <2>. QED BY <1>4 DEF Iterates
<1>6. g = Step(g)
  <2>1. ASSUME NEW n \in 1 .. Len(lines) PROVE g[n] = g[n-1] + v[n]
    <3>1. g[n-1] \in Nat
      <4>1. n - 1 \in 0 .. Len(lines)
        BY <1>1
      <4> HIDE DEF next
      <4>. QED BY <1>5, <4>1
    <3>2. next[n][g[n-1]] = g[n-1] + v[n]
      BY <3>1
    <3> HIDE DEF next
    <3>. QED BY <1>5, <3>2
  <2>2. ASSUME NEW n \in 0 .. Len(lines)
        PROVE  g[n] = IF n = 0 THEN 0 ELSE g[n-1] + v[n]
    <3>1. n = 0 \/ n \in 1 .. Len(lines)
      OBVIOUS
    <3>. QED BY <1>5, <2>1, <3>1
  <2>3. g = [n \in 0 .. Len(lines) |-> g[n]]
    BY <1>5
  <2>. QED BY <2>2, <2>3
<1>7. s = CHOOSE f : f = Step(f)
  BY Zenon DEF SumsOf
<1>8. s = Step(s)
  <2>1. \E f : f = Step(f)
    BY <1>6
  <2>. QED BY <1>7, <2>1, Zenon
<1> HIDE DEF s
<1>9. ASSUME NEW n \in 0 .. Len(lines) PROVE s[n] = IF n = 0 THEN 0 ELSE s[n-1] + v[n]
  BY <1>8
<1> DEFINE S == {m \in 0 .. Len(lines) : \A k \in 0 .. m : s[k] \in Nat /\ s[k] <= s[m]}
<1>10. 0 \in S
  BY <1>1, <1>9
<1>11. ASSUME NEW m \in 0 .. (Len(lines) - 1), m \in S PROVE m + 1 \in S
  <2>1. m + 1 \in 1 .. Len(lines) /\ m + 1 \in 0 .. Len(lines) /\ m + 1 - 1 = m /\ m \in Nat
    BY <1>1
  <2>2. s[m+1] = s[m] + v[m+1] /\ v[m+1] \in Nat
    BY <1>2, <1>9, <2>1
  <2>3. s[m] \in Nat /\ \A k \in 0 .. m : s[k] \in Nat /\ s[k] <= s[m]
    BY <1>11, <2>1
  <2>4. s[m+1] \in Nat /\ s[m] <= s[m+1]
    BY <2>2, <2>3
  <2>5. ASSUME NEW k \in 0 .. m + 1 PROVE s[k] \in Nat /\ s[k] <= s[m+1]
    <3>1. CASE k = m + 1
      BY <2>4, <3>1
    <3>2. CASE k # m + 1
      <4>1. k \in 0 .. m
        BY <2>1, <3>2
      <4>2. s[k] \in Nat /\ s[k] <= s[m]
        BY <2>3, <4>1
      <4>. QED BY <2>3, <2>4, <4>2
    <3>. QED BY <3>1, <3>2
  <2>. QED BY <2>1, <2>5
<1> HIDE DEF S
<1>12. 0 .. Len(lines) \subseteq S /\ Len(lines) \in 0 .. Len(lines)
  <2>1. 0 .. Len(lines) \subseteq S
    BY <1>1, <1>10, <1>11, IntervalInduction, Zenon
  <2>. QED BY <1>1, <2>1
<1>13. \A n \in 0 .. Len(lines) : s[n] \in Nat /\ s[n] <= s[Len(lines)]
  BY <1>12 DEF S
<1>14. s[0] = 0 /\ \A n \in 1 .. Len(lines) : s[n] = s[n-1] + v[n]
  BY <1>1, <1>9
<1>. QED BY <1>13, <1>14 DEF s

-----------------------------------------------------------------------------
(* Carts. *)

\* Every line carries an amount of at least nothing and a quantity or no number, and
\* every step of its total a slip.
CartsTyped == lines \in Seq(CartLine) /\ slips \in Seq(CartSlip) /\ Len(slips) = Len(lines)

LEMMA CartsInductive == Spec => []CartsTyped
<1>1. Init => CartsTyped
  BY DEF Init, CartsTyped
<1>2. CartsTyped /\ [Next]_vars => CartsTyped'
  <2> SUFFICES ASSUME CartsTyped, [Next]_vars PROVE CartsTyped'
    OBVIOUS
  <2>1. CASE UNCHANGED vars
    BY <2>1 DEF CartsTyped, vars
  <2>2. ASSUME NEW p \in Prices, NEW c \in Currencies, NEW q \in Quantities,
               NEW r \in Slips, NEW s \in Slips, NEW t \in Slips, Of(p, c, r) # Throws,
               lines' = Append(lines, [unitPrice |-> Of(p, c, r), quantity |-> q]),
               slips' = Append(slips, [product |-> s, sum |-> t])
        PROVE  CartsTyped'
    <3>1. p \in Int \union {NaN, Infinity} /\ q \in Nat \union {Infinity, NaN} /\ r \in Int /\ s \in Int /\ t \in Int
      BY CartsAssumption
    <3>2. Of(p, c, r) \in Amounts
      BY <2>2, <3>1, OfTyped
    <3>3. [unitPrice |-> Of(p, c, r), quantity |-> q] \in CartLine
      BY <3>1, <3>2 DEF CartLine
    <3>4. [product |-> s, sum |-> t] \in CartSlip
      BY <3>1 DEF CartSlip
    <3>. QED BY <2>2, <3>3, <3>4 DEF CartsTyped
  <2>. QED BY <2>1, <2>2 DEF Next
<1>. QED BY <1>1, <1>2, PTL DEF Spec

\* What carries the induction along a cart: the sum so far is in whole cents
\* and within reach of the exact one.
LEMMA AnyTotalExact == CartsTyped => CentExact
<1> DEFINE exactly == [n \in Lines |-> Exactly(n)]
           broken == [n \in Lines |-> Broken(n)]
           E == SumsOf(exactly)
           O == SumsOf(broken)
           N == Len(lines)
           reach == Parts + Slack(Peak)
<1> SUFFICES ASSUME CartsTyped, Countable, \A n \in Lines : lines[n].unitPrice.currency = "USD",
                    Slack(Peak) < Parts, 100 * (Peak + Slack(Peak)) <= MaxNumber
             PROVE  LET total == TotalWith(lines, slips)
                        off == Odd * reach
                    IN /\ total # Throws /\ total.currency = "USD"
                       /\ total.amount % Cent = 0
                       /\ total.amount \in Exact - off .. Exact + off
  BY DEF CentExact
<1>1. /\ lines \in Seq(CartLine) /\ slips \in Seq(CartSlip) /\ Len(slips) = N /\ N \in Nat
      /\ Lines = 1 .. N /\ N \in 0 .. N
  BY DEF CartsTyped, Lines
<1>2. PICK sum : /\ sum[0] = Zero /\ TotalWith(lines, slips) = sum[N]
                 /\ \A n \in 1 .. N :
                      sum[n] = Add(sum[n-1], Multiply(lines[n].unitPrice, lines[n].quantity,
                                                      slips[n].product), slips[n].sum)
  BY <1>1, TotalSteps
<1>3. exactly \in [Lines -> Nat] /\ broken \in [Lines -> Nat]
  <2>1. \A n \in Lines : Exactly(n) \in Nat
    BY <1>1, LineCounts
  <2>2. \A n \in Lines : Broken(n) \in Nat
    BY DEF Broken
  <2>. QED BY <2>1, <2>2
<1>4. Exact = E[N] /\ Odd = O[N]
  BY DEF Exact, Odd
<1>5. \A n \in Lines : exactly[n] = Exactly(n) /\ broken[n] = Broken(n)
  OBVIOUS
<1> HIDE DEF exactly, broken
<1>6. /\ E[0] = 0 /\ \A n \in 1 .. N : E[n] = E[n-1] + exactly[n]
      /\ \A n \in 0 .. N : E[n] \in Nat /\ E[n] <= E[N]
  BY <1>1, <1>3, SumsGrow
<1>7. /\ O[0] = 0 /\ \A n \in 1 .. N : O[n] = O[n-1] + broken[n]
      /\ \A n \in 0 .. N : O[n] \in Nat /\ O[n] <= O[N]
  BY <1>1, <1>3, SumsGrow
<1> HIDE DEF E, O
<1>8. Peak = E[N] + Cent * O[N] /\ Peak \in Nat /\ E[N] \in Nat /\ O[N] \in Nat
  <2>1. E[N] \in Nat /\ O[N] \in Nat
    BY <1>1, <1>6, <1>7
  <2>2. Cent * O[N] \in Nat
    BY <2>1, CentFacts
  <2>. QED BY <1>4, <2>1, <2>2 DEF Peak
<1>9. reach \in Nat /\ reach <= Cent
  <2>1. Slack(Peak) \in Nat
    BY <1>8, SlackFacts
  <2>. QED BY <2>1, CentFacts
<1> HIDE DEF reach
<1> DEFINE Dollars(k) == [amount |-> Cent * k, currency |-> "USD"]
           S == {n \in 0 .. N : \E k \in Nat : /\ sum[n] = Dollars(k)
                                               /\ Cent * k <= E[n] + O[n] * reach
                                               /\ E[n] <= Cent * k + O[n] * reach}
<1>10. 0 \in S
  <2>1. sum[0] = Dollars(0) /\ Cent * 0 = 0
    BY <1>2, CentFacts DEF Zero
  <2>2. O[0] * reach = 0
    BY <1>7, <1>9
  <2>3. Cent * 0 <= E[0] + O[0] * reach /\ E[0] <= Cent * 0 + O[0] * reach
    BY <1>6, <2>1, <2>2
  <2> HIDE DEF Dollars
  <2>. QED BY <1>1, <2>1, <2>3
<1>11. ASSUME NEW n \in 0 .. (N - 1), n \in S PROVE n + 1 \in S
  <2>1. PICK m \in 1 .. N : m = n + 1
    BY <1>1
  <2>2. m - 1 = n /\ m \in 0 .. N /\ n \in 0 .. N /\ m \in Lines
    BY <1>1, <2>1
  <2>3. PICK k \in Nat : /\ sum[n] = Dollars(k) /\ Cent * k <= E[n] + O[n] * reach
                         /\ E[n] <= Cent * k + O[n] * reach
    BY <1>11
  <2> DEFINE p == lines[m].unitPrice
             q == lines[m].quantity
             a == Exactly(m)
             b == Broken(m)
  <2>4. p \in Amounts /\ p.amount # Infinity /\ q \in Nat /\ p.currency = "USD" /\ a \in Nat
    BY <1>1, <2>2, LineCounts
  <2>5. a = (p.amount * q) \div Parts /\ b = (IF a % Cent = 0 THEN 0 ELSE 1)
    BY DEF Exactly, Broken
  <2>6. /\ E[m] = E[n] + a /\ E[m] \in Nat /\ E[n] \in Nat /\ E[m] <= E[N]
        /\ O[m] = O[n] + b /\ O[m] \in Nat /\ O[n] \in Nat /\ O[m] <= O[N]
    <3>1. E[m] = E[m-1] + exactly[m] /\ O[m] = O[m-1] + broken[m]
      BY <1>6, <1>7
    <3>2. exactly[m] = a /\ broken[m] = b
      BY <1>5, <2>2
    <3> HIDE DEF a, b
    <3>. QED BY <1>6, <1>7, <2>2, <3>1, <3>2
  <2>7. slips[m].product \in Int /\ slips[m].sum \in Int
    <3>1. slips[m] \in CartSlip
      BY <1>1
    <3>. QED BY <3>1 DEF CartSlip
  <2>8. sum[m] = Add(Dollars(k), Multiply(p, q, slips[m].product), slips[m].sum)
    <3> HIDE DEF Dollars
    <3>. QED BY <1>2, <2>2, <2>3
  <2> HIDE DEF p, q, a, b
  <2>9. a <= Peak
    <3>1. Cent * O[N] \in Nat
      BY <1>8, CentFacts
    <3>. QED BY <1>8, <2>4, <2>6, <3>1
  <2>10. PICK j \in Nat : /\ Multiply(p, q, slips[m].product) = Dollars(j)
                          /\ Cent * j <= a + reach /\ a <= Cent * j + reach
                          /\ a % Cent = 0 => a = Cent * j
    <3> DEFINE c == slips[m].product
    <3>1. Multiply(p, q, c) = Of(Bounded(a), "USD", c)
      <4>1. c \in Int
        BY <2>7
      <4> HIDE DEF c
      <4>2. Multiply(p, q, c) = Of(Bounded((p.amount * q) \div Parts), p.currency, c)
        BY <2>4, <4>1, MultiplyCounts
      <4>. QED BY <2>4, <2>5, <4>2
    <3>2. PICK j \in Nat : /\ Of(Bounded(a), "USD", c) = Dollars(j)
                           /\ Cent * j <= a + Parts + Slack(Peak) /\ a <= Cent * j + Parts + Slack(Peak)
                           /\ a % Cent = 0 => a = Cent * j
      <4>1. c \in Int
        BY <2>7
      <4> HIDE DEF c
      <4>2. Peak \in Nat /\ a \in Nat
        BY <1>8, <2>4
      <4>. QED BY <2>9, <4>1, <4>2, CartsAssumption, OfRounds
    <3>3. Cent * j <= a + reach /\ a <= Cent * j + reach
      <4>1. Slack(Peak) \in Nat /\ Cent * j \in Nat
        <5>1. Peak \in Nat
          BY <1>8
        <5>. QED BY <5>1, CentFacts, SlackFacts
      <4> DEFINE z == Cent * j
                 x == Slack(Peak)
      <4>2. reach = Parts + x /\ z <= a + Parts + x /\ a <= z + Parts + x
        BY <3>2 DEF reach
      <4> HIDE DEF z, x
      <4>. QED BY <2>4, <4>1, <4>2, CentFacts DEF z, x
    <3>. QED BY <3>1, <3>2, <3>3
  <2>11. Cent * j <= a + b * reach /\ a <= Cent * j + b * reach /\ b \in {0, 1}
    <3> DEFINE z == Cent * j
    <3>1. z \in Nat /\ z <= a + reach /\ a <= z + reach /\ (a % Cent = 0 => a = z)
      BY <2>10, CentFacts
    <3> HIDE DEF z
    <3>2. CASE a % Cent = 0
      BY <1>9, <2>4, <2>5, <3>1, <3>2 DEF z
    <3>3. CASE a % Cent # 0
      BY <1>9, <2>4, <2>5, <3>1, <3>3 DEF z
    <3>. QED BY <3>2, <3>3
  <2>12. O[m] * reach = O[n] * reach + b * reach /\ O[n] * reach \in Nat /\ b * reach \in Nat
    <3>1. \A x, y, r \in Nat : (x + y) * r = x * r + y * r /\ x * r \in Nat /\ y * r \in Nat
      OBVIOUS
    <3>. QED BY <1>9, <2>6, <2>11, <3>1
  <2>13. Cent * (k + j) = Cent * k + Cent * j /\ Cent * k \in Nat /\ Cent * j \in Nat
    BY CentFacts
  <2> DEFINE y == Cent * k
             z == Cent * j
             u == O[n] * reach
             w == b * reach
  <2>14. y + z <= E[m] + O[m] * reach /\ E[m] <= y + z + O[m] * reach
    <3>1. y \in Nat /\ z \in Nat /\ u \in Nat /\ w \in Nat /\ O[m] * reach = u + w
      BY <2>12, <2>13
    <3>2. y <= E[n] + u /\ E[n] <= y + u /\ z <= a + w /\ a <= z + w
      BY <2>3, <2>11
    <3> DEFINE r == O[m] * reach
               e == E[n]
               f == E[m]
    <3>3. r = u + w /\ e \in Nat /\ f = e + a /\ y <= e + u /\ e <= y + u
      BY <2>6, <3>1, <3>2
    <3> HIDE DEF y, z, u, w, r, e, f
    <3>4. y + z <= f + r /\ f <= y + z + r
      BY <2>4, <3>1, <3>2, <3>3
    <3>. QED BY <3>4 DEF r, f
  <2>15. y + z <= Peak
    <3>1. O[m] * reach <= Cent * O[N] /\ O[m] * reach \in Nat /\ Cent * O[N] \in Nat
      <4>1. \A g, h, r \in Nat : g <= h /\ r <= Cent => g * r <= Cent * h /\ g * r \in Nat /\ Cent * h \in Nat
        BY CentFacts, Products
      <4>. QED BY <1>8, <1>9, <2>6, <4>1
    <3>2. y + z \in Nat
      BY <2>13
    <3> DEFINE r == O[m] * reach
               h == Cent * O[N]
    <3> HIDE DEF y, z, r, h
    <3>3. r <= h /\ r \in Nat /\ h \in Nat /\ y + z <= E[m] + r /\ Peak = E[N] + h
      BY <1>8, <2>14, <3>1 DEF r, h
    <3>. QED BY <1>8, <2>6, <3>2, <3>3
  <2>16. Add(Dollars(k), Dollars(j), slips[m].sum) = [amount |-> y + z, currency |-> "USD"]
    BY <1>8, <2>7, <2>15, CartsAssumption, AddExact
  <2>17. sum[m] = Dollars(k + j)
    <3>1. Dollars(k + j) = [amount |-> y + z, currency |-> "USD"]
      BY <2>13
    <3> HIDE DEF Dollars, y, z
    <3>. QED BY <2>8, <2>10, <2>16, <3>1
  <2>18. Cent * (k + j) <= E[m] + O[m] * reach /\ E[m] <= Cent * (k + j) + O[m] * reach
    BY <2>13, <2>14
  <2> HIDE DEF Dollars, y, z, u, w
  <2>19. m \in S
    <3>1. k + j \in Nat
      OBVIOUS
    <3>. QED BY <2>2, <2>17, <2>18, <3>1
  <2>. QED BY <2>1, <2>19
<1>12. N \in S
  <2> HIDE DEF S
  <2>1. 0 .. N \subseteq S
    BY <1>1, <1>10, <1>11, IntervalInduction, Zenon
  <2>. QED BY <1>1, <2>1
<1>13. PICK k \in Nat : /\ sum[N] = Dollars(k) /\ Cent * k <= E[N] + O[N] * reach
                        /\ E[N] <= Cent * k + O[N] * reach
  BY <1>12
<1>14. Dollars(k) # Throws
  <2>1. Dollars(k) \in Amounts
    BY CartsAssumption DEF Amounts, Cents
  <2> HIDE DEF Dollars
  <2>. QED BY <2>1, AmountsAre
<1>15. (Cent * k) % Cent = 0
  BY CentFacts, Remainder
<1> DEFINE y == Cent * k
           off == O[N] * reach
<1>16. y \in E[N] - off .. E[N] + off
  <2>1. y \in Nat
    BY CentFacts
  <2>2. off \in Nat
    BY <1>8, <1>9
  <2>3. y <= E[N] + off /\ E[N] <= y + off
    BY <1>13
  <2> HIDE DEF y, off
  <2>. QED BY <1>8, <2>1, <2>2, <2>3
<1>17. Dollars(k).amount = y /\ Dollars(k).currency = "USD" /\ off = Odd * reach
  BY <1>4
<1> HIDE DEF Dollars
<1>. QED BY <1>2, <1>4, <1>13, <1>14, <1>15, <1>16, <1>17

\* However long a cart is, whatever its prices and quantities and however
\* far off each number may be: while the size of the total leaves a double
\* half a cent to tell, the total is in whole cents, the exact ones but for
\* half a cent and a slip for each line that is no whole cents itself.
THEOREM TotalsAreExact == Spec => []CentExact
<1>. QED BY AnyTotalExact, CartsInductive, PTL

\* A line that is not in dollars, or has no number for its product, makes the
\* whole total throw.
LEMMA AnyBadTotalThrows == CartsTyped => TotalThrows
<1> DEFINE Bad(n) == \/ lines[n].unitPrice.amount = Infinity \/ lines[n].quantity \in {Infinity, NaN}
                     \/ lines[n].unitPrice.currency # "USD"
<1> SUFFICES ASSUME CartsTyped, NEW b \in Lines, Bad(b)
             PROVE  TotalWith(lines, slips) = Throws
  BY DEF TotalThrows, Countable
<1>1. lines \in Seq(CartLine) /\ slips \in Seq(CartSlip) /\ Len(slips) = Len(lines) /\ Len(lines) \in Nat
      /\ b \in 1 .. Len(lines)
  BY DEF CartsTyped, Lines
<1>2. PICK sum \in [0 .. Len(lines) -> Amounts \union {Throws}] :
        /\ sum[0] = Zero /\ TotalWith(lines, slips) = sum[Len(lines)]
        /\ \A n \in 1 .. Len(lines) :
             sum[n] = Add(sum[n-1], Multiply(lines[n].unitPrice, lines[n].quantity,
                                             slips[n].product), slips[n].sum)
  BY <1>1, TotalSteps
<1> DEFINE S == {n \in 0 .. Len(lines) :
                   /\ sum[n] = Throws \/ sum[n].currency = "USD"
                   /\ b <= n => sum[n] = Throws}
<1>3. 0 \in S
  BY <1>1, <1>2 DEF Zero
<1>4. ASSUME NEW n \in 0 .. (Len(lines) - 1), n \in S PROVE n + 1 \in S
  <2>1. PICK m \in 1 .. Len(lines) : m = n + 1
    BY <1>1
  <2>2. m - 1 = n /\ m \in 0 .. Len(lines) /\ n \in 0 .. Len(lines) /\ (b <= m => b <= n \/ b = m)
    BY <1>1, <2>1
  <2> DEFINE p == lines[m].unitPrice
             q == lines[m].quantity
             product == Multiply(p, q, slips[m].product)
  <2>3. p \in Amounts /\ q \in Nat \union {Infinity, NaN} /\ slips[m].product \in Int /\ slips[m].sum \in Int
    <3>1. slips[m] \in CartSlip /\ lines[m] \in CartLine
      BY <1>1
    <3>. QED BY <3>1 DEF CartSlip, CartLine
  <2>4. sum[m] = Add(sum[n], product, slips[m].sum) /\ sum[n] \in Amounts \union {Throws}
    BY <1>2, <2>2
  <2>5. b = m => p.amount = Infinity \/ q \in {Infinity, NaN} \/ p.currency # "USD"
    OBVIOUS
  <2> HIDE DEF p, q
  <2>6. /\ product = Throws \/ (product \in Amounts /\ product.currency = p.currency)
        /\ p.amount = Infinity \/ q \in {Infinity, NaN} => product = Throws
    BY <2>3, MultiplyTyped
  <2> HIDE DEF product
  <2>7. product \in Amounts \union {Throws}
    BY <2>6
  <2>8. /\ sum[m] = Throws \/ (sum[m] \in Amounts /\ sum[m].currency = sum[n].currency)
        /\ sum[n] = Throws \/ product = Throws \/ sum[n].currency # product.currency => sum[m] = Throws
    <3> DEFINE a == sum[n]
               s == slips[m].sum
    <3>1. a \in Amounts \union {Throws} /\ s \in Int /\ sum[m] = Add(a, product, s)
      BY <2>3, <2>4
    <3> HIDE DEF a, s
    <3>2. /\ Add(a, product, s) = Throws \/ (Add(a, product, s) \in Amounts
                                             /\ Add(a, product, s).currency = a.currency)
          /\ a = Throws \/ product = Throws \/ a.currency # product.currency => Add(a, product, s) = Throws
      BY <2>7, <3>1, AddTyped
    <3>. QED BY <3>1, <3>2, Zenon DEF a
  <2>9. /\ sum[n] = Throws \/ sum[n].currency = "USD"
        /\ b <= n => sum[n] = Throws
    BY <1>4
  <2>10. /\ sum[m] = Throws \/ sum[m].currency = "USD"
         /\ b <= m => sum[m] = Throws
    BY <2>2, <2>5, <2>6, <2>8, <2>9
  <2>. QED BY <2>1, <2>2, <2>10
<1> HIDE DEF S
<1>5. Len(lines) \in S
  <2>1. Len(lines) \in Nat /\ Len(lines) \in 0 .. Len(lines)
    BY <1>1
  <2>2. 0 .. Len(lines) \subseteq S
    BY <1>3, <1>4, <2>1, IntervalInduction, Zenon
  <2>. QED BY <2>1, <2>2
<1>. QED BY <1>1, <1>2, <1>5 DEF S

\* No cart with such a line gets a total.
THEOREM BadTotalsThrow == Spec => []TotalThrows
<1>. QED BY AnyBadTotalThrows, CartsInductive, PTL
==============================================================================
