---------------------------- MODULE TimerWheelProofs ----------------------------
(***************************************************************************)
(* Proofs about the timer wheel, for any number of timers, levels and      *)
(* buckets, any delays and intervals, and any lag: what its digits are,    *)
(* and that WheelInv is an invariant.                                      *)
(***************************************************************************)
EXTENDS TimerWheelInvariants, WellFoundedInduction, TLAPS

--------------------------------------------------------------------------------
\* Numbers.

\* A set of numbers that is not empty has a least one.
LEMMA Least ==
  ASSUME NEW S \in SUBSET Nat, S # {}
  PROVE  \E n \in S : \A m \in S : n <= m
<1> DEFINE R == OpToRel(<, Nat)
<1>1. IsWellFoundedOn(R, Nat)
  BY NatLessThanWellFounded
<1>2. \A x, y \in Nat : x < y => <<x, y>> \in R
  BY DEF OpToRel
<1> HIDE DEF R
<1>3. PICK n \in S : \A m \in S : ~ (<<m, n>> \in R)
  BY <1>1, WFMin
<1>4. \A m \in S : ~ (m < n)
  BY <1>2, <1>3
<1>5. \A m \in S : n <= m
  BY <1>4
<1> QED
  BY <1>5

\* Quotient and remainder, and what they are of a number that is given by them.
LEMMA DivMod ==
  ASSUME NEW x \in Nat, NEW m \in Nat \ {0}
  PROVE  \E q \in Nat, r \in 0 .. m - 1 :
           /\ x \div m = q /\ x % m = r
           /\ q * m \in Nat /\ x = (q * m) + r
<1>1. x \div m \in Nat
  OBVIOUS
<1>2. (x % m) \in 0 .. m - 1
  OBVIOUS
<1>3. x = ((x \div m) * m) + (x % m)
  OBVIOUS
<1>4. (x \div m) * m \in Nat
  BY <1>1
<1> QED
  BY <1>1, <1>2, <1>3, <1>4

LEMMA DivModIs ==
  ASSUME NEW m \in Nat \ {0}, NEW q \in Nat, NEW r \in 0 .. m - 1,
         NEW x, x = (q * m) + r
  PROVE  x \div m = q /\ x % m = r
OBVIOUS

\* Products keep the order of their factors.
LEMMA ProductOrder ==
  ASSUME NEW a \in Nat, NEW b \in Nat, NEW m \in Nat, a <= b
  PROVE  a * m <= b * m
<1>1. PICK d \in Nat : b = a + d
  <2>1. b - a \in Nat /\ b = a + (b - a)
    OBVIOUS
  <2> QED
    BY <2>1
<1>2. b * m = (a * m) + (d * m) /\ a * m \in Nat /\ d * m \in Nat
  BY <1>1
<1> QED
  BY <1>2

\* The remainder of a sum is that of the sum of the remainders.
LEMMA SumMod ==
  ASSUME NEW a \in Nat, NEW b \in Nat, NEW m \in Nat \ {0}
  PROVE  (a + b) % m = ((a % m) + (b % m)) % m
<1>1. PICK q \in Nat, r \in 0 .. m - 1 : a % m = r /\ q * m \in Nat /\ a = (q * m) + r
  BY DivMod
<1>2. PICK p \in Nat, s \in 0 .. m - 1 : b % m = s /\ p * m \in Nat /\ b = (p * m) + s
  BY DivMod
<1>3. r + s \in Nat
  BY <1>1, <1>2
<1>4. PICK c \in Nat, u \in 0 .. m - 1 :
        (r + s) % m = u /\ c * m \in Nat /\ r + s = (c * m) + u
  BY <1>3, DivMod
<1>5. (q + p + c) * m = (q * m) + (p * m) + (c * m)
  OBVIOUS
<1>6. PICK e \in Nat, x \in Nat : e = q + p + c /\ x = a + b
  OBVIOUS
<1>7. x = (e * m) + u
  BY <1>1, <1>2, <1>4, <1>5, <1>6
<1>8. x % m = u
  BY <1>7, DivModIs
<1> QED
  BY <1>1, <1>2, <1>4, <1>6, <1>8

\* Two numbers with the same remainder are at least m apart.
LEMMA SameMod ==
  ASSUME NEW a \in Nat, NEW b \in Nat, NEW m \in Nat \ {0}, a % m = b % m, a < b
  PROVE  a + m <= b
<1>1. PICK q \in Nat, r \in 0 .. m - 1 : a % m = r /\ q * m \in Nat /\ a = (q * m) + r
  BY DivMod
<1>2. PICK p \in Nat, s \in 0 .. m - 1 : b % m = s /\ p * m \in Nat /\ b = (p * m) + s
  BY DivMod
<1>3. q < p
  <2> SUFFICES ASSUME p <= q PROVE FALSE
    OBVIOUS
  <2>1. p * m <= q * m
    BY ProductOrder
  <2> QED
    BY <1>1, <1>2, <2>1
<1>4. (q + 1) * m <= p * m
  BY <1>3, ProductOrder
<1>5. (q + 1) * m = (q * m) + m
  OBVIOUS
<1> QED
  BY <1>1, <1>2, <1>4, <1>5

\* Among m numbers in a row there is one of every remainder.
LEMMA EveryRemainder ==
  ASSUME NEW a \in Nat, NEW m \in Nat \ {0}, NEW r \in 0 .. m - 1
  PROVE  \E k \in a .. a + m - 1 : k % m = r
<1>1. PICK q \in Nat, s \in 0 .. m - 1 : a % m = s /\ q * m \in Nat /\ a = (q * m) + s
  BY DivMod
<1>2. CASE s <= r
  <2>1. (q * m) + r \in a .. a + m - 1
    BY <1>1, <1>2
  <2>2. ((q * m) + r) % m = r
    BY DivModIs
  <2> QED
    BY <2>1, <2>2
<1>3. CASE r < s
  <2>1. (q + 1) * m = (q * m) + m
    OBVIOUS
  <2>2. (q * m) + m + r \in a .. a + m - 1 /\ (q * m) + m + r = ((q + 1) * m) + r
    BY <1>1, <1>3, <2>1
  <2>3. ((q * m) + m + r) % m = r
    BY <2>2, DivModIs
  <2> QED
    BY <2>2, <2>3
<1> QED
  BY <1>2, <1>3

\* Counting on by one either carries or does not.
LEMMA NextMod ==
  ASSUME NEW x \in Nat, NEW m \in Nat \ {0}
  PROVE  \/ (x + 1) \div m = (x \div m) + 1 /\ (x + 1) % m = 0
         \/ (x + 1) \div m = x \div m /\ (x + 1) % m # 0
<1>1. PICK q \in Nat, s \in 0 .. m - 1 :
        x \div m = q /\ q * m \in Nat /\ x = (q * m) + s
  BY DivMod
<1>2. CASE s = m - 1
  <2>1. (q + 1) * m = (q * m) + m
    OBVIOUS
  <2>2. PICK e \in Nat, y \in Nat, z \in 0 .. m - 1 : e = q + 1 /\ y = x + 1 /\ z = 0
    OBVIOUS
  <2>3. y = (e * m) + z
    BY <1>1, <1>2, <2>1, <2>2
  <2>4. y \div m = e /\ y % m = z
    BY <2>3, DivModIs
  <2> QED
    BY <1>1, <2>2, <2>4
<1>3. CASE s < m - 1
  <2>1. PICK y \in Nat, z \in 0 .. m - 1 : y = x + 1 /\ z = s + 1
    BY <1>3
  <2>2. y = (q * m) + z
    BY <1>1, <2>1
  <2>3. y \div m = q /\ y % m = z
    BY <2>2, DivModIs
  <2> QED
    BY <1>1, <2>1, <2>3
<1> QED
  BY <1>2, <1>3
--------------------------------------------------------------------------------
\* The digits of the wheel, and when its passes are due.

LEMMA ProductPositive ==
  ASSUME NEW a \in Nat \ {0}, NEW b \in Nat \ {0}
  PROVE  a * b \in Nat \ {0} /\ a <= a * b
<1>1. PICK c \in Nat : a = c + 1
  <2>1. a - 1 \in Nat /\ a = (a - 1) + 1
    OBVIOUS
  <2> QED
    BY <2>1
<1>2. PICK d \in Nat : b = d + 1
  <2>1. b - 1 \in Nat /\ b = (b - 1) + 1
    OBVIOUS
  <2> QED
    BY <2>1
<1>3. a * b = (a * d) + a /\ a * d \in Nat
  BY <1>2
<1> QED
  BY <1>3

\* The passes are tickGap apart, ...
LEMMA DueSum ==
  ASSUME NEW a \in Int, NEW b \in Int
  PROVE  DueAt(a) \in Int /\ DueAt(a + b) = DueAt(a) + DueAt(b)
<1>1. tickGap \in Nat
  BY WheelAssumption
<1>2. (a + b) * tickGap = (a * tickGap) + (b * tickGap) /\ a * tickGap \in Int
  BY <1>1
<1> QED
  BY <1>2 DEF DueAt

LEMMA DueType ==
  ASSUME NEW a \in Int
  PROVE  DueAt(a) \in Int
BY DueSum

LEMMA DueNext ==
  ASSUME NEW a \in Nat, NEW g \in Nat
  PROVE  /\ DueAt(a + g + 1) = DueAt(a) + DueAt(g + 1)
         /\ DueAt(a) \in Int /\ DueAt(g + 1) \in Int
<1>1. PICK y \in Int : y = g + 1 /\ a + y = a + g + 1
  OBVIOUS
<1>2. a \in Int /\ DueAt(a + y) = DueAt(a) + DueAt(y) /\ DueAt(a) \in Int /\ DueAt(y) \in Int
  <2>1. a \in Int
    OBVIOUS
  <2> QED
    BY <2>1, DueSum, DueType
<1> QED
  BY <1>1, <1>2

LEMMA DueFirst == DueAt(0) = 0 /\ DueAt(1) = tickGap /\ tickGap \in Nat \ {0}
BY WheelAssumption DEF DueAt

\* ... so the later of two is due later, ...
LEMMA DueOrder ==
  ASSUME NEW a \in Int, NEW b \in Int, a <= b
  PROVE  DueAt(a) <= DueAt(b)
<1>1. PICK d \in Nat : b = a + d
  <2>1. b - a \in Nat /\ b = a + (b - a)
    OBVIOUS
  <2> QED
    BY <2>1
<1>2. DueAt(d) \in Nat
  BY DueFirst DEF DueAt
<1>3. DueAt(b) = DueAt(a) + DueAt(d) /\ DueAt(a) \in Int
  BY <1>1, DueSum
<1> QED
  BY <1>2, <1>3

\* ... and none before its number in milliseconds.
LEMMA DueLater ==
  ASSUME NEW n \in Nat
  PROVE  DueAt(n) \in Nat /\ n <= DueAt(n)
<1>1. CASE n = 0
  BY <1>1, DueFirst
<1>2. CASE n # 0
  <2>1. n \in Nat \ {0}
    BY <1>2
  <2> QED
    BY <2>1, ProductPositive, DueFirst DEF DueAt
<1> QED
  BY <1>1, <1>2

\* What the division by tickGap takes off is less than a gap.
LEMMA Truncated ==
  ASSUME NEW x \in Nat
  PROVE  \E q \in Nat : /\ x \div tickGap = q
                        /\ DueAt(q) <= x /\ x < DueAt(q + 1)
<1>1. PICK q \in Nat, r \in 0 .. tickGap - 1 :
        x \div tickGap = q /\ q * tickGap \in Nat /\ x = (q * tickGap) + r
  BY DueFirst, DivMod
<1>2. DueAt(q + 1) = DueAt(q) + tickGap
  BY DueSum, DueFirst
<1> QED
  BY <1>1, <1>2, DueFirst DEF DueAt

\* Sizes of the levels and other facts about the constants.
LEMMA Sizes ==
  /\ Levels \in Nat /\ Levels >= 3
  /\ \A n \in 1 .. Levels : LevelSize[n] \in Nat \ {0, 1}
  /\ LevelSize[1] \in Nat \ {0, 1} /\ LevelSize[2] \in Nat \ {0, 1}
  /\ LevelSize[3] \in Nat \ {0, 1} /\ LevelSize[2] <= LevelSize[3]
BY WheelAssumption

\* There are the spans that Span defines by recursion, ...
LEMMA SpanDefined ==
  Span = [n \in 1 .. Levels + 1 |->
            IF n = 1 THEN 1 ELSE Span[n - 1] * LevelSize[n - 1]]
<1> DEFINE Upto(f, N) ==
      \A n \in 1 .. N + 1 : f[n] = IF n = 1 THEN 1 ELSE f[n - 1] * LevelSize[n - 1]
           Functions == [1 .. Levels + 1 -> Nat \ {0}]
           Bad == {N \in 0 .. Levels : ~ \E f \in Functions : Upto(f, N)}
<1>1. Bad = {}
  <2> SUFFICES ASSUME Bad # {} PROVE FALSE
    OBVIOUS
  <2>1. Bad \in SUBSET Nat
    BY Sizes
  <2>2. PICK N \in Bad : \A M \in Bad : N <= M
    BY <2>1, Least
  <2>3. N # 0
    <3>1. [n \in 1 .. Levels + 1 |-> 1] \in Functions
      OBVIOUS
    <3>2. Upto([n \in 1 .. Levels + 1 |-> 1], 0)
      BY Sizes
    <3> QED
      BY <3>1, <3>2
  <2>4. PICK M \in 0 .. Levels : N = M + 1
    <3>1. N \in 0 .. Levels
      BY <2>2
    <3>2. N - 1 \in 0 .. Levels /\ N = (N - 1) + 1
      BY <2>3, <3>1, Sizes
    <3> QED
      BY <3>2
  <2>5. N \in 1 .. Levels /\ M \notin Bad
    <3>1. ~ (N <= M) /\ N \in 1 .. Levels
      BY <2>2, <2>4, Sizes
    <3>2. M \in Bad => N <= M
      <4> HIDE DEF Bad
      <4> QED
        BY <2>2
    <3> QED
      BY <3>1, <3>2
  <2>6. PICK f \in Functions : Upto(f, M)
    BY <2>4, <2>5
  <2>7. f[N] * LevelSize[N] \in Nat \ {0}
    <3>1. N \in 1 .. Levels + 1
      BY <2>5, Sizes
    <3>2. f[N] \in Nat \ {0}
      BY <2>6, <3>1
    <3>3. LevelSize[N] \in Nat \ {0}
      BY <2>5, Sizes
    <3> QED
      BY <3>2, <3>3, ProductPositive
  <2> DEFINE g == [m \in 1 .. Levels + 1 |->
                     IF m <= N THEN f[m] ELSE f[N] * LevelSize[N]]
  <2>8. g \in Functions
    BY <2>6, <2>7
  <2>9. Upto(g, N)
    <3> SUFFICES ASSUME NEW n \in 1 .. N + 1
                 PROVE  g[n] = IF n = 1 THEN 1 ELSE g[n - 1] * LevelSize[n - 1]
      OBVIOUS
    <3>1. CASE n <= N
      <4>1. n \in 1 .. M + 1 /\ n \in 1 .. Levels + 1
        BY <2>4, <2>5, <3>1, Sizes
      <4>2. f[n] = IF n = 1 THEN 1 ELSE f[n - 1] * LevelSize[n - 1]
        BY <2>6, <4>1
      <4>3. g[n] = f[n]
        BY <3>1, <4>1
      <4>4. n # 1 => n - 1 \in 1 .. Levels + 1 /\ n - 1 <= N /\ g[n - 1] = f[n - 1]
        BY <3>1, <4>1, Sizes
      <4> QED
        BY <4>2, <4>3, <4>4
    <3>2. CASE n = N + 1
      <4>1. n \in 1 .. Levels + 1 /\ ~ (n <= N) /\ N \in 1 .. Levels + 1 /\ n # 1
        BY <2>5, <3>2, Sizes
      <4>2. g[n] = f[N] * LevelSize[N] /\ g[N] = f[N]
        BY <2>5, <4>1
      <4>3. n - 1 = N
        BY <3>2, <2>5
      <4> QED
        BY <4>1, <4>2, <4>3
    <3> QED
      BY <2>5, <3>1, <3>2
  <2> QED
    BY <2>2, <2>8, <2>9
<1>2. PICK f \in Functions : Upto(f, Levels)
  <2>1. Levels \in 0 .. Levels
    BY Sizes
  <2> QED
    BY <1>1, <2>1
<1>3. f = [n \in 1 .. Levels + 1 |->
             IF n = 1 THEN 1 ELSE f[n - 1] * LevelSize[n - 1]]
  BY <1>2
<1>4. Span = CHOOSE h : h = [n \in 1 .. Levels + 1 |->
                               IF n = 1 THEN 1 ELSE h[n - 1] * LevelSize[n - 1]]
  BY DEF Span
<1> QED
  BY <1>3, <1>4

\* ... and they are positive numbers.
LEMMA SpanType ==
  /\ \A n \in 1 .. Levels + 1 : Span[n] \in Nat \ {0}
  /\ Span[1] = 1
  /\ Span[2] = LevelSize[1]
  /\ Span[3] = LevelSize[1] * LevelSize[2]
<1> DEFINE Bad == {n \in 1 .. Levels + 1 : Span[n] \notin Nat \ {0}}
<1>1. \A n \in 1 .. Levels + 1 :
        Span[n] = IF n = 1 THEN 1 ELSE Span[n - 1] * LevelSize[n - 1]
  BY SpanDefined
<1>2. Bad = {}
  <2> SUFFICES ASSUME Bad # {} PROVE FALSE
    OBVIOUS
  <2>1. Bad \in SUBSET Nat
    BY Sizes
  <2>2. PICK n \in Bad : \A m \in Bad : n <= m
    BY <2>1, Least
  <2>3. n # 1
    BY <1>1, <2>2, Sizes
  <2>4. n - 1 \in 1 .. Levels /\ ~ (n - 1 \in Bad)
    BY <2>2, <2>3, Sizes
  <2>5. Span[n - 1] \in Nat \ {0} /\ LevelSize[n - 1] \in Nat \ {0}
    BY <2>4, Sizes
  <2>6. Span[n - 1] * LevelSize[n - 1] \in Nat \ {0}
    BY <2>5, ProductPositive
  <2>7. Span[n] = Span[n - 1] * LevelSize[n - 1]
    BY <1>1, <2>2, <2>3
  <2> QED
    BY <2>2, <2>6, <2>7
<1>3. 1 \in 1 .. Levels + 1 /\ 2 \in 1 .. Levels + 1 /\ 3 \in 1 .. Levels + 1
  BY Sizes
<1>4. Span[1] = 1
  BY <1>1, <1>3
<1>5. Span[2] = Span[1] * LevelSize[1]
  BY <1>1, <1>3
<1>6. Span[2] = LevelSize[1]
  BY <1>4, <1>5, Sizes
<1>7. Span[3] = Span[2] * LevelSize[2]
  BY <1>1, <1>3
<1> QED
  BY <1>2, <1>4, <1>6, <1>7

\* A digit is one of its level, and those of levels one and two are remainders.
LEMMA DigitType ==
  ASSUME NEW n \in 1 .. Levels, NEW x \in Nat
  PROVE  Digit(n, x) \in Nat /\ Digit(n, x) < LevelSize[n]
<1>1. Span[n] \in Nat \ {0} /\ LevelSize[n] \in Nat \ {0}
  BY SpanType, Sizes
<1>2. PICK q \in Nat : x \div Span[n] = q
  BY <1>1, DivMod
<1>3. PICK r \in 0 .. LevelSize[n] - 1 : q % LevelSize[n] = r
  BY <1>1, DivMod
<1> QED
  BY <1>1, <1>2, <1>3 DEF Digit

LEMMA LowDigits ==
  ASSUME NEW x \in Nat
  PROVE  /\ Digit(1, x) = x % LevelSize[1]
         /\ Digit(2, x) = (x \div LevelSize[1]) % LevelSize[2]
<1>1. PICK q \in Nat, r \in 0 .. 1 - 1 : x \div 1 = q /\ q * 1 \in Nat /\ x = (q * 1) + r
  BY DivMod
<1>2. x \div 1 = x
  BY <1>1
<1> QED
  BY <1>2, SpanType DEF Digit

\* The level a delay of g gaps is set on, and what it says of g.
LEMMA LevelForIs ==
  ASSUME NEW g \in Nat
  PROVE  /\ LevelFor(g) \in 1 .. Levels
         /\ LevelFor(g) = Levels \/ g <= check(LevelFor(g))
<1> DEFINE S == {n \in 1 .. Levels : n = Levels \/ g <= check(n)}
           Fits(n) == /\ n = Levels \/ g <= check(n)
                      /\ \A m \in 1 .. n - 1 : g > check(m)
<1>1. \A n \in 1 .. Levels : check(n) \in Int
  <2> SUFFICES ASSUME NEW n \in 1 .. Levels PROVE check(n) \in Int
    OBVIOUS
  <2>1. LevelSize[n] - 1 \in Int /\ Span[n] \in Int
    BY SpanType, Sizes
  <2>2. (LevelSize[n] - 1) * Span[n] \in Int
    BY <2>1
  <2> QED
    BY <2>2 DEF check
<1>2. S \in SUBSET Nat
  BY Sizes
<1>3. S # {}
  <2>1. Levels \in S
    BY Sizes
  <2> QED
    BY <2>1
<1>4. PICK n \in S : \A m \in S : n <= m
  BY <1>2, <1>3, Least
<1>5. \A m \in 1 .. n - 1 : g > check(m)
  <2> SUFFICES ASSUME NEW m \in 1 .. n - 1 PROVE g > check(m)
    OBVIOUS
  <2>1. m \in 1 .. Levels /\ ~ (n <= m)
    BY <1>4, Sizes
  <2>2. m \in S => n <= m
    <3> HIDE DEF S
    <3> QED
      BY <1>4
  <2>3. ~ (g <= check(m))
    BY <2>1, <2>2
  <2> QED
    BY <1>1, <2>1, <2>3
<1>6. n \in 1 .. Levels /\ Fits(n)
  BY <1>4, <1>5
<1>7. LevelFor(g) = CHOOSE k \in 1 .. Levels : Fits(k)
  BY DEF LevelFor
<1> HIDE DEF Fits
<1>8. LevelFor(g) \in 1 .. Levels /\ Fits(LevelFor(g))
  BY <1>6, <1>7
<1> QED
  BY <1>8 DEF Fits

LEMMA NearLevels ==
  ASSUME NEW g \in Nat
  PROVE  /\ LevelFor(g) = 1 => g <= LevelSize[1] - 1
         /\ LevelFor(g) = 2 => g <= (LevelSize[2] - 1) * LevelSize[1]
<1>1. LevelFor(g) <= 2 => g <= check(LevelFor(g))
  BY LevelForIs, Sizes
<1>2. check(1) = (LevelSize[1] - 1) * 1 /\ check(2) = (LevelSize[2] - 1) * LevelSize[1]
  BY SpanType DEF check
<1>3. check(1) = LevelSize[1] - 1
  BY <1>2, Sizes
<1> QED
  BY <1>1, <1>2, <1>3

\* The hand of level two moves on in the next pass just when level one comes round.
LEMMA HandMoves ==
  ASSUME tick \in Nat
  PROVE  MovesOn(2) <=> (tick + 1) % LevelSize[1] = 0
<1>1. PICK c \in Nat, d \in Nat : tick \div LevelSize[1] = c /\ (tick + 1) \div LevelSize[1] = d
  <2>1. tick + 1 \in Nat /\ LevelSize[1] \in Nat \ {0}
    BY Sizes
  <2> QED
    BY <2>1, DivMod
<1> DEFINE m == LevelSize[2]
<1>2. m \in Nat \ {0, 1}
  BY Sizes
<1>3. Digit(2, tick) = c % m /\ Digit(2, tick + 1) = d % m
  BY <1>1, LowDigits
<1> HIDE DEF m
<1>4. PICK q \in Nat, r \in 0 .. m - 1 : c % m = r /\ q * m \in Nat /\ c = (q * m) + r
  BY <1>2, DivMod
<1>5. MovesOn(2) <=> d % m = (r + 1) % m
  BY <1>3, <1>4 DEF MovesOn, m
<1>6. (c + 1) % m = (r + 1) % m
  <2>1. PICK one \in Nat : one = 1
    OBVIOUS
  <2>2. (c + one) % m = ((c % m) + (one % m)) % m
    <3>1. c \in Nat /\ one \in Nat /\ m \in Nat \ {0}
      BY <1>1, <1>2
    <3> QED
      BY ONLY <3>1, SumMod, Zenon
  <2>3. one % m = 1
    BY <1>2, <2>1
  <2> QED
    BY <1>4, <2>1, <2>2, <2>3
<1>7. (r + 1) % m # r
  <2>1. CASE r = m - 1
    <3>1. r + 1 = m /\ m % m = 0
      BY <1>2, <2>1
    <3> QED
      BY <1>2, <2>1, <3>1
  <2>2. CASE r < m - 1
    <3>1. (r + 1) % m = r + 1
      BY <1>2, <2>2
    <3> QED
      BY <3>1
  <2> QED
    BY <1>2, <2>1, <2>2
<1>8. \/ d = c + 1 /\ (tick + 1) % LevelSize[1] = 0
      \/ d = c /\ (tick + 1) % LevelSize[1] # 0
  BY <1>1, NextMod, Sizes
<1> QED
  BY <1>4, <1>5, <1>6, <1>7, <1>8

\* The passes in which it does are those of its places.
LEMMA PlacesOfTwo ==
  ASSUME tick \in Nat
  PROVE  /\ \A k \in Nat : k * LevelSize[1] = tick + 1 =>
              MovesOn(2) /\ Digit(2, tick + 1) = k % LevelSize[2]
         /\ MovesOn(2) =>
              \E k \in Nat : /\ k * LevelSize[1] = tick + 1
                             /\ Digit(2, tick + 1) = k % LevelSize[2]
<1> DEFINE m == LevelSize[1]
<1>1. m \in Nat \ {0}
  BY Sizes
<1>2. PICK x \in Nat : x = tick + 1
  OBVIOUS
<1>3. (MovesOn(2) <=> x % m = 0) /\ Digit(2, x) = (x \div m) % LevelSize[2]
  BY <1>2, HandMoves, LowDigits
<1> HIDE DEF m
<1>4. \A k \in Nat : k * m = x => x \div m = k /\ x % m = 0
  <2> SUFFICES ASSUME NEW k \in Nat, k * m = x PROVE x \div m = k /\ x % m = 0
    OBVIOUS
  <2>1. PICK z \in 0 .. m - 1 : z = 0
    BY <1>1
  <2>2. x = (k * m) + z
    BY <2>1
  <2> QED
    BY <1>1, <2>1, <2>2, DivModIs
<1>5. x % m = 0 => \E k \in Nat : k * m = x
  <2>1. PICK q \in Nat, r \in 0 .. m - 1 : x % m = r /\ q * m \in Nat /\ x = (q * m) + r
    BY <1>1, DivMod
  <2> QED
    BY <2>1
<1>6. \A k \in Nat : k * LevelSize[1] = x =>
        MovesOn(2) /\ Digit(2, x) = k % LevelSize[2]
  BY <1>3, <1>4 DEF m
<1>7. MovesOn(2) => \E k \in Nat : k * LevelSize[1] = x
  BY <1>3, <1>5 DEF m
<1> QED
  BY <1>2, <1>6, <1>7

\* The levels whose hands move on are the lowest ones.
LEMMA HighestHand ==
  \E n \in 1 .. Levels :
    /\ \A m \in 2 .. n : MovesOn(m)
    /\ n = Levels \/ ~ MovesOn(n + 1)
<1> DEFINE S == {n \in 1 .. Levels : n = Levels \/ ~ MovesOn(n + 1)}
<1>1. S \in SUBSET Nat
  BY Sizes
<1>2. S # {}
  <2>1. Levels \in S
    BY Sizes
  <2> QED
    BY <2>1
<1>3. PICK n \in S : \A m \in S : n <= m
  BY <1>1, <1>2, Least
<1>4. ASSUME NEW m \in 2 .. n PROVE MovesOn(m)
  <2>1. PICK k \in 1 .. Levels : m = k + 1 /\ k < n
    <3>1. m - 1 \in 1 .. Levels /\ m = (m - 1) + 1 /\ m - 1 < n
      BY <1>3, Sizes
    <3> QED
      BY <3>1
  <2>2. k \in S => n <= k
    <3> HIDE DEF S
    <3> QED
      BY <1>3
  <2>3. k \notin S
    BY <1>3, <2>1, <2>2
  <2> QED
    BY <2>1, <2>3
<1> QED
  BY <1>3, <1>4
--------------------------------------------------------------------------------
\* What becomes of a timer that is pushed into a bucket.

LEMMA BucketType ==
  ASSUME NEW n \in 1 .. Levels, NEW x \in Nat
  PROVE  BucketFor(n, x) \in Nat /\ BucketFor(n, x) < LevelSize[n]
<1>1. /\ Digit(1, x) \in Nat /\ Digit(1, x) < LevelSize[1]
      /\ Digit(2, x) \in Nat /\ Digit(2, x) < LevelSize[2]
  BY DigitType, Sizes
<1> QED
  BY <1>1, Sizes DEF BucketFor

\* On level one it comes up in the pass for x, or in a round.
LEMMA PushedOnOne ==
  ASSUME tick \in Nat, loopAt \in 0 .. Asleep, NEW x \in Nat
  PROVE  \E k \in Nat :
           /\ k % LevelSize[1] = BucketFor(1, x)
           /\ NextPass(1) <= PassOf(1, k)
           /\ PassOf(1, k) <= IF Overtaken(1, x) THEN tick + Span[1 + 1] ELSE x
<1> DEFINE m == LevelSize[1]
<1>1. m \in Nat \ {0} /\ Span[1 + 1] = m
  BY Sizes, SpanType
<1>2. BucketFor(1, x) = x % m
  BY LowDigits DEF BucketFor
<1>3. NextPass(1) <= tick + 1 /\ (loopAt = Asleep => NextPass(1) = tick)
  BY Sizes DEF NextPass, Asleep
<1>4. Overtaken(1, x) <=> x < tick \/ (x = tick /\ loopAt # Asleep)
  BY DEF Overtaken, TakenIn
<1>5. \A k \in Nat : PassOf(1, k) = k
  BY DEF PassOf
<1> HIDE DEF m
<1>6. CASE Overtaken(1, x)
  <2>1. PICK r \in 0 .. m - 1 : x % m = r
    BY <1>1, DivMod
  <2>2. PICK a \in Nat : a = tick + 1
    OBVIOUS
  <2>3. PICK k \in a .. a + m - 1 : k % m = r
    BY <1>1, EveryRemainder
  <2>4. k \in Nat /\ NextPass(1) <= k /\ k <= tick + m
    BY <1>1, <1>3, <2>2, <2>3 DEF NextPass
  <2> QED
    BY <1>1, <1>2, <1>5, <1>6, <2>1, <2>3, <2>4 DEF m
<1>7. CASE ~ Overtaken(1, x)
  <2>1. NextPass(1) <= x
    BY <1>3, <1>4, <1>7 DEF NextPass
  <2> QED
    BY <1>2, <1>5, <1>7, <2>1 DEF m
<1> QED
  BY <1>6, <1>7

\* So it does on level two.
LEMMA PushedOnTwo ==
  ASSUME tick \in Nat, loopAt \in 0 .. Asleep, NEW x \in Nat
  PROVE  \E k \in Nat :
           /\ k % LevelSize[2] = BucketFor(2, x)
           /\ NextPass(2) <= PassOf(2, k)
           /\ PassOf(2, k) <= IF Overtaken(2, x) THEN tick + Span[2 + 1] ELSE x
<1> DEFINE M == LevelSize[1]
           N == LevelSize[2]
<1>1. M \in Nat \ {0} /\ N \in Nat \ {0} /\ Span[2] = M /\ Span[2 + 1] = M * N
  BY Sizes, SpanType
<1>M. M \in Nat \ {0} /\ N \in Nat \ {0}
  BY <1>1
<1>2. PICK q \in Nat, r \in 0 .. M - 1 : x \div M = q /\ q * M \in Nat /\ x = (q * M) + r
  BY <1>M, DivMod
<1>3. BucketFor(2, x) = q % N
  BY <1>2, LowDigits DEF BucketFor
<1>4. NextPass(2) <= tick + 1 /\ (loopAt = Asleep => NextPass(2) = tick)
  BY Sizes DEF NextPass, Asleep
<1>5. TakenIn(2, x) = (q * M) - 1
  BY <1>1, <1>2 DEF TakenIn
<1>6. Overtaken(2, x) <=>
        \/ (q * M) - 1 < tick
        \/ (q * M) - 1 = tick /\ loopAt # Asleep
  BY <1>5 DEF Overtaken
<1>7. \A k \in Nat : PassOf(2, k) = (k * M) - 1
  BY <1>1 DEF PassOf
<1> HIDE DEF M, N
<1>8. CASE Overtaken(2, x)
  <2>1. PICK s \in 0 .. N - 1 : q % N = s
    BY <1>M, DivMod
  <2>2. PICK y \in Nat : y = tick + 1
    OBVIOUS
  <2>3. PICK c \in Nat, d \in 0 .. M - 1 : c * M \in Nat /\ y = (c * M) + d
    BY <1>M, DivMod
  <2>4. PICK a \in Nat : a = c + 1
    OBVIOUS
  <2>5. PICK k \in a .. a + N - 1 : k % N = s
    <3>1. a \in Nat /\ N \in Nat \ {0} /\ s \in 0 .. N - 1
      BY <1>M
    <3> QED
      BY ONLY <3>1, EveryRemainder
  <2>6. k \in Nat /\ a <= k /\ k <= c + N /\ c + N \in Nat
    BY <1>1, <2>4, <2>5
  <2>7. a * M <= k * M
    BY <1>1, <2>6, ProductOrder
  <2>8. k * M <= (c + N) * M
    BY <1>1, <2>6, ProductOrder
  <2>9. a * M = (c * M) + M /\ (c + N) * M = (c * M) + (M * N) /\ k * M \in Nat
        /\ M * N \in Nat
    BY <1>1, <2>4, <2>6
  <2>10. NextPass(2) <= (k * M) - 1
    BY <1>1, <1>4, <2>2, <2>3, <2>7, <2>9 DEF NextPass
  <2>11. (k * M) - 1 <= tick + (M * N)
    BY <1>1, <2>2, <2>3, <2>8, <2>9
  <2> QED
    BY <1>1, <1>3, <1>7, <1>8, <2>1, <2>5, <2>6, <2>10, <2>11 DEF N
<1>9. CASE ~ Overtaken(2, x)
  <2>1. NextPass(2) <= (q * M) - 1
    BY <1>2, <1>4, <1>6, <1>9 DEF NextPass
  <2>2. (q * M) - 1 <= x
    BY <1>2
  <2> QED
    BY <1>2, <1>3, <1>7, <1>9, <2>1, <2>2 DEF N
<1> QED
  BY <1>8, <1>9

\* No pass that takes it comes more than a place of the hand before x.
LEMMA PushedNotTooEarly ==
  ASSUME tick \in Nat, NEW g \in Nat, NEW base \in Nat, base <= tick,
         NEW x \in Nat, x = base + g,
         NEW n, n = LevelFor(g), n <= 2,
         NEW k \in Nat, k % LevelSize[n] = BucketFor(n, x), tick <= PassOf(n, k)
  PROVE  x <= PassOf(n, k) + Span[n]
<1> DEFINE M == LevelSize[1]
           N == LevelSize[2]
<1>1. M \in Nat \ {0} /\ N \in Nat \ {0} /\ Span[1] = 1 /\ Span[2] = M
  BY Sizes, SpanType
<1>2. n \in {1, 2}
  <2>1. n \in 1 .. Levels
    BY LevelForIs
  <2> QED
    BY <2>1, Sizes
<1>3. CASE n = 1
  <2>1. g <= M - 1
    BY <1>3, NearLevels
  <2>2. k % M = x % M /\ tick <= k
    BY <1>3, LowDigits DEF BucketFor, PassOf
  <2> HIDE DEF M
  <2>3. ~ (k < x)
    <3> SUFFICES ASSUME k < x PROVE FALSE
      OBVIOUS
    <3>1. k + M <= x
      BY <1>1, <2>2, SameMod
    <3> QED
      BY <1>1, <2>1, <2>2, <3>1
  <2> QED
    BY <1>1, <1>3, <2>3 DEF PassOf
<1>4. CASE n = 2
  <2>1. g <= (N - 1) * M
    BY <1>4, NearLevels
  <2>2. PICK q \in Nat, r \in 0 .. M - 1 : x \div M = q /\ q * M \in Nat /\ x = (q * M) + r
    BY <1>1, DivMod
  <2>3. k % N = q % N /\ tick <= (k * M) - 1
    BY <1>1, <1>4, <2>2, LowDigits DEF BucketFor, PassOf
  <2> HIDE DEF M, N
  <2>4. k * M \in Nat /\ N * M \in Nat
    BY <1>1
  <2>5. ~ (k < q)
    <3> SUFFICES ASSUME k < q PROVE FALSE
      OBVIOUS
    <3>1. k + N <= q /\ k + N \in Nat
      <4>1. N \in Nat \ {0}
        BY <1>1
      <4>2. k \in Nat /\ q \in Nat /\ k < q /\ k % N = q % N
        BY <2>3
      <4>3. k + N <= q
        BY ONLY <4>1, <4>2, SameMod
      <4> QED
        BY <4>1, <4>3
    <3>2. (k + N) * M <= q * M
      BY <1>1, <3>1, ProductOrder
    <3>3. (k + N) * M = (k * M) + (N * M) /\ (N - 1) * M = (N * M) - M
      BY <1>1
    <3> QED
      BY <1>1, <2>1, <2>2, <2>3, <2>4, <3>2, <3>3
  <2>6. q * M <= k * M
    BY <1>1, <2>5, ProductOrder
  <2>7. x <= ((k * M) - 1) + M
    BY <1>1, <2>2, <2>4, <2>6
  <2> QED
    BY <1>1, <1>4, <2>7 DEF PassOf
<1> QED
  BY <1>2, <1>3, <1>4

Statuses == {"new", "made", "bound", "read", "waiting", "gone"}

LEMMA BlankType == Blank \in Tasks /\ Blank.bucket < LevelSize[Blank.level]
BY Sizes DEF Blank, Tasks

LEMMA PlaceType ==
  ASSUME NEW n \in {1, 2}, NEW k \in Nat
  PROVE  PassOf(n, k) \in Int /\ Span[n] \in Nat
<1>1. Span[1] \in Nat /\ Span[2] \in Nat
  BY SpanType, Sizes
<1>2. PICK s \in Nat : s = Span[2] /\ k * s \in Nat
  BY <1>1
<1> QED
  BY <1>1, <1>2 DEF PassOf

\* It waits as TimerInv says, and no other timer is touched.
LEMMA PutKeeps ==
  ASSUME TypeOK, NEW t \in Timers, NEW made \in Tasks,
         NEW g \in Nat, NEW base \in Nat, base <= tick, NEW x \in Nat, x = base + g,
         made.expire < DueAt(x + 1) + MaxLag,
         Put(t, made, g, x), tick' = tick, loopAt' = loopAt
  PROVE  /\ status' \in [Timers -> Statuses]
         /\ task' \in [Timers -> Tasks]
         /\ \A u \in Timers : task'[u].bucket < LevelSize[task'[u].level]
         /\ TimerInv(t)'
         /\ \A u \in Timers \ {t} : task'[u] = task[u] /\ status'[u] = status[u]
<1> DEFINE n == LevelFor(g)
           meant == IF Overtaken(n, x) THEN tick + Span[n + 1] ELSE x
           put == [made EXCEPT !.gaps = g, !.tickPlace = 0, !.level = n,
                               !.bucket = BucketFor(n, x), !.meant = meant]
<1>1. n \in 1 .. Levels /\ (n <= 2 => n \in {1, 2})
  BY LevelForIs, Sizes
<1>2. BucketFor(n, x) \in Nat /\ BucketFor(n, x) < LevelSize[n]
  BY <1>1, BucketType
<1>3. tick \in Nat /\ loopAt \in 0 .. Asleep
  BY DEF TypeOK
<1>4. meant \in Nat
  <2>1. n + 1 \in 1 .. Levels + 1
    BY <1>1, Sizes
  <2>2. Span[n + 1] \in Nat
    BY <2>1, SpanType
  <2> QED
    BY <1>3, <2>2
<1>5. /\ status \in [Timers -> Statuses]
      /\ task \in [Timers -> Tasks]
      /\ \A u \in Timers : task[u].bucket < LevelSize[task[u].level]
  BY DEF TypeOK, Statuses
<1>6. status' = [status EXCEPT ![t] = "waiting"] /\ task' = [task EXCEPT ![t] = put]
  BY DEF Put
<1> HIDE DEF n, meant
<1>7. put \in Tasks
  BY <1>1, <1>2, <1>4 DEF Tasks
<1>8. /\ put.gaps = g /\ put.level = n /\ put.bucket = BucketFor(n, x)
      /\ put.meant = meant /\ put.expire = made.expire /\ made.expire \in Nat
  BY DEF Tasks
<1> HIDE DEF put
<1>9. task'[t] = put /\ status'[t] = "waiting"
  BY <1>5, <1>6
<1>10. \A u \in Timers \ {t} : task'[u] = task[u] /\ status'[u] = status[u]
  BY <1>5, <1>6
<1>11. \A u \in Timers : task'[u].bucket < LevelSize[task'[u].level]
  BY <1>2, <1>5, <1>8, <1>9, <1>10
<1>12. status' \in [Timers -> Statuses] /\ task' \in [Timers -> Tasks]
  <2>1. "waiting" \in Statuses
    BY DEF Statuses
  <2> QED
    BY <1>5, <1>6, <1>7, <2>1
<1>13. ASSUME n <= 2 PROVE ComesInTime(t)'
  <2>1. PICK k \in Nat :
           /\ k % LevelSize[n] = BucketFor(n, x)
           /\ NextPass(n) <= PassOf(n, k)
           /\ PassOf(n, k) <= meant
    <3>1. CASE n = 1
      BY <1>3, <3>1, PushedOnOne DEF meant
    <3>2. CASE n = 2
      BY <1>3, <3>2, PushedOnTwo DEF meant
    <3> QED
      BY <1>1, <1>13, <3>1, <3>2
  <2>2. NextPass(n)' = NextPass(n)
    BY DEF NextPass
  <2> QED
    BY <1>8, <1>9, <2>1, <2>2 DEF ComesInTime
<1>14. ASSUME n <= 2 PROVE NeverTooEarly(t)'
  <2> SUFFICES ASSUME NEW k \in Nat, k % LevelSize[n] = BucketFor(n, x), tick <= PassOf(n, k)
               PROVE  made.expire < DueAt(PassOf(n, k) + Span[n] + 1) + MaxLag
    BY <1>8, <1>9 DEF NeverTooEarly
  <2>1. x <= PassOf(n, k) + Span[n]
    BY <1>3, <1>14, PushedNotTooEarly DEF n
  <2>2. PICK y \in Int : y = PassOf(n, k) + Span[n]
    BY <1>1, <1>14, PlaceType
  <2>3. DueAt(x + 1) <= DueAt(y + 1) /\ DueAt(x + 1) \in Int /\ DueAt(y + 1) \in Int
    BY <2>1, <2>2, DueOrder, DueType
  <2> QED
    BY <1>8, <2>2, <2>3, TimeAssumption
<1>15. TimerInv(t)'
  <2>1. Near(t)' => n <= 2
    BY <1>8, <1>9 DEF Near, n
  <2>2. task'[t].level <= LevelFor(task'[t].gaps)
    BY <1>1, <1>8, <1>9, Sizes DEF n
  <2> QED
    BY <1>9, <1>13, <1>14, <2>1, <2>2 DEF TimerInv
<1> QED
  BY <1>10, <1>11, <1>12, <1>15

\* A timer that a step leaves alone is fine as long as the loop has passed no
\* place that takes it.
LEMMA TimerStays ==
  ASSUME TypeOK, NEW t \in Timers, TimerInv(t),
         task'[t] = task[t], status'[t] = status[t],
         tick' \in Nat, tick <= tick',
         status[t] = "waiting" /\ Near(t) =>
           \A k \in Nat :
             k % LevelSize[task[t].level] = task[t].bucket
               /\ NextPass(task[t].level) <= PassOf(task[t].level, k) =>
                 NextPass(task[t].level)' <= PassOf(task[t].level, k)
  PROVE  TimerInv(t)'
<1> DEFINE n == task[t].level
<1>1. tick \in Nat /\ task[t] \in Tasks
  BY DEF TypeOK
<1>2. n \in 1 .. Levels /\ task[t].expire \in Nat /\ task[t].gaps \in Nat
      /\ task[t].tickPlace \in Nat
  BY <1>1 DEF Tasks
<1>3. status'[t] \in {"made", "bound"} =>
        task'[t].expire < DueAt(tick' + task'[t].gaps + 1) + MaxLag
  <2>1. PICK y \in Int, z \in Int : /\ y = tick + task[t].gaps + 1
                                   /\ z = tick' + task[t].gaps + 1
    BY <1>1, <1>2
  <2>2. DueAt(y) <= DueAt(z) /\ DueAt(y) \in Int /\ DueAt(z) \in Int
    BY <1>1, <1>2, <2>1, DueOrder, DueType
  <2> QED
    BY <1>1, <1>2, <2>1, <2>2, TimeAssumption DEF TimerInv
<1>4. status'[t] = "read" =>
        /\ task'[t].tickPlace <= tick'
        /\ task'[t].expire < DueAt(task'[t].tickPlace + task'[t].gaps + 1) + MaxLag
  BY <1>1, <1>2 DEF TimerInv
<1>5. status'[t] = "waiting" => task'[t].level <= LevelFor(task'[t].gaps)
  BY DEF TimerInv
<1>6. Near(t)' = Near(t)
  BY DEF Near
<1>7. ASSUME status[t] = "waiting", Near(t) PROVE ComesInTime(t)' /\ NeverTooEarly(t)'
  <2>1. n \in {1, 2}
    <3>1. n <= LevelFor(task[t].gaps) /\ LevelFor(task[t].gaps) <= 2
      BY <1>7 DEF TimerInv, Near
    <3>2. LevelFor(task[t].gaps) \in 1 .. Levels
      BY <1>2, LevelForIs
    <3> QED
      BY <1>2, <3>1, <3>2, Sizes
  <2>2. ComesInTime(t) /\ NeverTooEarly(t)
    BY <1>7 DEF TimerInv
  <2>3. ComesInTime(t)'
    BY <1>7, <2>2 DEF ComesInTime
  <2>4. NeverTooEarly(t)'
    <3> SUFFICES ASSUME NEW k \in Nat, k % LevelSize[n] = task[t].bucket, tick' <= PassOf(n, k)
                 PROVE  task[t].expire < DueAt(PassOf(n, k) + Span[n] + 1) + MaxLag
      BY DEF NeverTooEarly
    <3>1. PassOf(n, k) \in Int
      BY <2>1, PlaceType
    <3>2. tick <= PassOf(n, k)
      BY <1>1, <3>1
    <3> QED
      BY <2>2, <3>2 DEF NeverTooEarly
  <2> QED
    BY <2>3, <2>4
<1> QED
  BY <1>3, <1>4, <1>5, <1>6, <1>7 DEF TimerInv

\* In particular a step of a thread, which does not move the loop.
LEMMA OthersStay ==
  ASSUME TypeOK, NEW t \in Timers, TimerInv(t),
         task'[t] = task[t], status'[t] = status[t], tick' = tick, loopAt' = loopAt
  PROVE  TimerInv(t)'
<1>1. NextPass(task[t].level)' = NextPass(task[t].level)
  BY DEF NextPass
<1>2. tick' \in Nat /\ tick <= tick'
  BY DEF TypeOK
<1> QED
  BY <1>1, <1>2, TimerStays
--------------------------------------------------------------------------------
\* WheelInv is an invariant.

LEMMA InvInit == Init => WheelInv
<1> SUFFICES ASSUME Init PROVE WheelInv
  OBVIOUS
<1>1. TypeOK
  <2>1. Blank \in Tasks /\ Blank.bucket < LevelSize[Blank.level]
    BY BlankType
  <2>2. \A t \in Timers : task[t] = Blank
    BY DEF Init
  <2>3. task \in [Timers -> Tasks]
    BY <2>1 DEF Init
  <2>4. \A t \in Timers : task[t].bucket < LevelSize[task[t].level]
    BY <2>1, <2>2
  <2> QED
    BY <2>3, <2>4, Sizes, TimeAssumption DEF Init, TypeOK, Asleep
<1>2. LoopInv
  BY Sizes, TimeAssumption, DueFirst DEF Init, LoopInv, Asleep
<1>3. \A t \in Timers : TimerInv(t)
  BY DEF Init, TimerInv
<1> QED
  BY <1>1, <1>2, <1>3 DEF WheelInv

\* What holds of the loop holds on when no step of it is taken.
LEMMA LoopStays ==
  ASSUME LoopInv, UNCHANGED <<now, tick, loopAt, nowTick>>,
         calling' # None => loopAt = 1
  PROVE  LoopInv'
<1>1. \A m \in 2 .. loopAt : MovesOn(m)' = MovesOn(m)
  BY DEF MovesOn
<1> QED
  BY <1>1 DEF LoopInv

LEMMA MakeStep ==
  ASSUME WheelInv, NEW t \in Timers, NEW d \in Nat, NEW s \in {"made", "bound"},
         s = "made" => d \in Intervals, Make(t, d, s)
  PROVE  WheelInv'
<1> USE DEF WheelInv
<1>1. /\ now \in Nat /\ tick \in Nat /\ task \in [Timers -> Tasks]
      /\ status \in [Timers -> Statuses]
      /\ \A u \in Timers : task[u].bucket < LevelSize[task[u].level]
  BY DEF TypeOK, Statuses
<1>2. PICK g \in Nat : d \div tickGap = g /\ d < DueAt(g + 1)
  BY Truncated
<1>3. PICK i \in Intervals \cup {0} : i = IF s = "made" THEN d ELSE 0
  OBVIOUS
<1> DEFINE made == [task[t] EXCEPT !.expire = now + d, !.gaps = g, !.delayInterval = i]
<1>4. task' = [task EXCEPT ![t] = made]
  BY <1>1, <1>2, <1>3 DEF Make, Tasks
<1>5. /\ made \in Tasks
      /\ made.expire = now + d /\ made.gaps = g /\ made.bucket = task[t].bucket
      /\ made.level = task[t].level
  <2>1. now + d \in Nat /\ task[t] \in Tasks
    BY <1>1
  <2> QED
    BY <2>1 DEF Tasks
<1> HIDE DEF made
<1>6. /\ task'[t] = made /\ status'[t] = s
      /\ \A u \in Timers \ {t} : task'[u] = task[u] /\ status'[u] = status[u]
      /\ UNCHANGED <<now, tick, loopAt, nowTick, calling>>
  BY <1>1, <1>4 DEF Make
<1>7. TypeOK'
  <2>1. task' \in [Timers -> Tasks]
    BY <1>1, <1>4, <1>5
  <2>2. status' = [status EXCEPT ![t] = s]
    BY DEF Make
  <2>3. status' \in [Timers -> Statuses]
    BY <1>1, <2>2 DEF Statuses
  <2>4. \A u \in Timers : task'[u].bucket < LevelSize[task'[u].level]
    BY <1>1, <1>5, <1>6
  <2> QED
    BY <1>6, <2>1, <2>3, <2>4 DEF TypeOK, Statuses
<1>8. LoopInv'
  BY <1>6, LoopStays DEF LoopInv
<1>9. TimerInv(t)'
  <2>1. now <= DueAt(tick) + MaxLag
    BY DEF LoopInv
  <2>2. tick \in Nat
    BY <1>1
  <2>3. /\ DueAt(tick + g + 1) = DueAt(tick) + DueAt(g + 1)
        /\ DueAt(tick) \in Int /\ DueAt(g + 1) \in Int
    BY ONLY <2>2, g \in Nat, DueNext
  <2>4. now + d < DueAt(tick + g + 1) + MaxLag
    BY <1>1, <1>2, <2>1, <2>3, TimeAssumption
  <2> QED
    BY <1>5, <1>6, <2>4 DEF TimerInv
<1>10. \A u \in Timers \ {t} : TimerInv(u)'
  BY <1>6, OthersStay
<1> QED
  BY <1>7, <1>8, <1>9, <1>10

LEMMA DateStep ==
  ASSUME WheelInv, NEW t \in Timers, Date(t)
  PROVE  WheelInv'
<1> USE DEF WheelInv
<1>1. /\ now \in Nat /\ tick \in Nat /\ task \in [Timers -> Tasks]
      /\ status \in [Timers -> Statuses]
      /\ \A u \in Timers : task[u].bucket < LevelSize[task[u].level]
  BY DEF TypeOK, Statuses
<1> DEFINE made == [task[t] EXCEPT !.addDateTime = now]
<1>2. task' = [task EXCEPT ![t] = made]
  BY <1>1 DEF Date, Tasks
<1>3. /\ made \in Tasks
      /\ made.expire = task[t].expire /\ made.gaps = task[t].gaps
      /\ made.bucket = task[t].bucket /\ made.level = task[t].level
  BY <1>1 DEF Tasks
<1> HIDE DEF made
<1>4. /\ task'[t] = made /\ status[t] = "made" /\ status'[t] = "bound"
      /\ \A u \in Timers \ {t} : task'[u] = task[u] /\ status'[u] = status[u]
      /\ UNCHANGED <<now, tick, loopAt, nowTick, calling>>
  BY <1>1, <1>2 DEF Date
<1>5. TypeOK'
  <2>1. task' \in [Timers -> Tasks] /\ status' \in [Timers -> Statuses]
    BY <1>1, <1>2, <1>3 DEF Date, Statuses
  <2>2. \A u \in Timers : task'[u].bucket < LevelSize[task'[u].level]
    BY <1>1, <1>3, <1>4
  <2> QED
    BY <1>4, <2>1, <2>2 DEF TypeOK, Statuses
<1>6. LoopInv'
  BY <1>4, LoopStays DEF LoopInv
<1>7. TimerInv(t)'
  BY <1>3, <1>4 DEF TimerInv
<1>8. \A u \in Timers \ {t} : TimerInv(u)'
  BY <1>4, OthersStay
<1> QED
  BY <1>5, <1>6, <1>7, <1>8

LEMMA ReadStep ==
  ASSUME WheelInv, NEW t \in Timers, ReadTick(t)
  PROVE  WheelInv'
<1> USE DEF WheelInv
<1>1. /\ tick \in Nat /\ task \in [Timers -> Tasks]
      /\ status \in [Timers -> Statuses]
      /\ \A u \in Timers : task[u].bucket < LevelSize[task[u].level]
  BY DEF TypeOK, Statuses
<1> DEFINE made == [task[t] EXCEPT !.tickPlace = tick]
<1>2. task' = [task EXCEPT ![t] = made]
  BY <1>1 DEF ReadTick, Tasks
<1>3. /\ made \in Tasks
      /\ made.expire = task[t].expire /\ made.gaps = task[t].gaps
      /\ made.bucket = task[t].bucket /\ made.level = task[t].level
      /\ made.tickPlace = tick
  BY <1>1 DEF Tasks
<1> HIDE DEF made
<1>4. /\ task'[t] = made /\ status[t] = "bound" /\ status'[t] = "read"
      /\ \A u \in Timers \ {t} : task'[u] = task[u] /\ status'[u] = status[u]
      /\ UNCHANGED <<now, tick, loopAt, nowTick, calling>>
  BY <1>1, <1>2 DEF ReadTick
<1>5. TypeOK'
  <2>1. task' \in [Timers -> Tasks] /\ status' \in [Timers -> Statuses]
    BY <1>1, <1>2, <1>3 DEF ReadTick, Statuses
  <2>2. \A u \in Timers : task'[u].bucket < LevelSize[task'[u].level]
    BY <1>1, <1>3, <1>4
  <2> QED
    BY <1>4, <2>1, <2>2 DEF TypeOK, Statuses
<1>6. LoopInv'
  BY <1>4, LoopStays DEF LoopInv
<1>7. TimerInv(t)'
  <2>1. task[t].expire < DueAt(tick + task[t].gaps + 1) + MaxLag
    BY <1>4 DEF TimerInv
  <2> QED
    BY <1>1, <1>3, <1>4, <2>1 DEF TimerInv
<1>8. \A u \in Timers \ {t} : TimerInv(u)'
  BY <1>4, OthersStay
<1> QED
  BY <1>5, <1>6, <1>7, <1>8

LEMMA PushStep ==
  ASSUME WheelInv, NEW t \in Timers, Push(t)
  PROVE  WheelInv'
<1> USE DEF WheelInv
<1>1. TypeOK /\ LoopInv /\ task[t] \in Tasks /\ tick \in Nat
  BY DEF TypeOK
<1>2. PICK g \in Nat, base \in Nat, x \in Nat :
        g = task[t].gaps /\ base = task[t].tickPlace /\ x = base + g
  BY <1>1 DEF Tasks
<1>3. /\ status[t] = "read" /\ Put(t, task[t], g, x)
      /\ UNCHANGED <<now, tick, loopAt, nowTick, calling>>
  BY <1>2 DEF Push
<1>4. base <= tick /\ task[t].expire < DueAt(x + 1) + MaxLag
  BY <1>2, <1>3 DEF TimerInv
<1>5. /\ status' \in [Timers -> Statuses]
      /\ task' \in [Timers -> Tasks]
      /\ \A u \in Timers : task'[u].bucket < LevelSize[task'[u].level]
      /\ TimerInv(t)'
      /\ \A u \in Timers \ {t} : task'[u] = task[u] /\ status'[u] = status[u]
  <2> HIDE DEF WheelInv
  <2> QED
    BY <1>1, <1>2, <1>3, <1>4, PutKeeps
<1>6. TypeOK'
  BY <1>1, <1>3, <1>5 DEF TypeOK, Statuses
<1>7. LoopInv'
  BY <1>1, <1>3, LoopStays DEF LoopInv
<1>8. \A u \in Timers \ {t} : TimerInv(u)'
  BY <1>3, <1>5, OthersStay
<1> QED
  BY <1>5, <1>6, <1>7, <1>8

LEMMA ClearStep ==
  ASSUME WheelInv, NEW t \in Timers, clearTimeout(t) \/ clearInterval(t)
  PROVE  WheelInv'
<1> USE DEF WheelInv
<1>1. /\ task \in [Timers -> Tasks]
      /\ \A u \in Timers : task[u].bucket < LevelSize[task[u].level]
  BY DEF TypeOK
<1>2. PICK made \in Tasks :
        /\ task' = [task EXCEPT ![t] = made]
        /\ made.expire = task[t].expire /\ made.gaps = task[t].gaps
        /\ made.bucket = task[t].bucket /\ made.level = task[t].level
        /\ made.meant = task[t].meant
  <2>1. task[t] \in Tasks
    BY <1>1
  <2>2. CASE clearTimeout(t)
    <3> DEFINE made == [task[t] EXCEPT !.isCancel = TRUE]
    <3>1. task' = [task EXCEPT ![t] = made]
      BY <1>1, <2>2 DEF clearTimeout, Tasks
    <3> QED
      BY <2>1, <3>1 DEF Tasks
  <2>3. CASE clearInterval(t)
    <3> DEFINE made == [task[t] EXCEPT !.delayInterval = 0]
    <3>1. task' = [task EXCEPT ![t] = made]
      BY <1>1, <2>3 DEF clearInterval, Tasks
    <3> QED
      BY <2>1, <3>1 DEF Tasks
  <2> QED
    BY <2>2, <2>3
<1>4. /\ task'[t] = made /\ status[t] = "waiting"
      /\ \A u \in Timers \ {t} : task'[u] = task[u]
      /\ UNCHANGED <<now, tick, loopAt, nowTick, calling, status>>
  BY <1>1, <1>2 DEF clearTimeout, clearInterval
<1>5. TypeOK'
  <2>1. task' \in [Timers -> Tasks]
    BY <1>1, <1>2
  <2>2. \A u \in Timers : task'[u].bucket < LevelSize[task'[u].level]
    BY <1>1, <1>2, <1>4
  <2> QED
    BY <1>4, <2>1, <2>2 DEF TypeOK
<1>6. LoopInv'
  BY <1>4, LoopStays DEF LoopInv
<1>7. TimerInv(t)'
  <2>1. Near(t)' = Near(t)
    BY <1>2, <1>4 DEF Near
  <2>2. \A n \in Nat : NextPass(n)' = NextPass(n)
    BY <1>4 DEF NextPass
  <2>3. ComesInTime(t) => ComesInTime(t)'
    <3>1. task[t].level \in Nat
      BY <1>1, Sizes DEF Tasks
    <3> QED
      BY <1>2, <1>4, <2>2, <3>1 DEF ComesInTime
  <2>4. NeverTooEarly(t) => NeverTooEarly(t)'
    BY <1>2, <1>4 DEF NeverTooEarly
  <2> QED
    BY <1>2, <1>4, <2>1, <2>3, <2>4 DEF TimerInv
<1>8. \A u \in Timers \ {t} : TimerInv(u)'
  BY <1>4, OthersStay
<1> QED
  BY <1>5, <1>6, <1>7, <1>8

\* A timer that is over needs no bucket.
LEMMA DropKeeps ==
  ASSUME TypeOK, NEW t \in Timers, Drop(t)
  PROVE  /\ status' \in [Timers -> Statuses]
         /\ task' \in [Timers -> Tasks]
         /\ \A u \in Timers : task'[u].bucket < LevelSize[task'[u].level]
         /\ TimerInv(t)'
         /\ \A u \in Timers \ {t} : task'[u] = task[u] /\ status'[u] = status[u]
<1>1. /\ status \in [Timers -> Statuses] /\ task \in [Timers -> Tasks]
      /\ \A u \in Timers : task[u].bucket < LevelSize[task[u].level]
  BY DEF TypeOK, Statuses
<1>2. Blank \in Tasks /\ Blank.bucket < LevelSize[Blank.level]
  BY BlankType
<1>3. /\ task'[t] = Blank /\ status'[t] = "gone"
      /\ \A u \in Timers \ {t} : task'[u] = task[u] /\ status'[u] = status[u]
  BY <1>1 DEF Drop
<1>4. status' \in [Timers -> Statuses] /\ task' \in [Timers -> Tasks]
  BY <1>1, <1>2 DEF Drop, Statuses
<1>5. TimerInv(t)'
  BY <1>3 DEF TimerInv
<1> QED
  BY <1>1, <1>2, <1>3, <1>4, <1>5

LEMMA CallStep ==
  ASSUME WheelInv, NEW t \in Timers, Call(t)
  PROVE  WheelInv'
<1> USE DEF WheelInv
<1>1. TypeOK'
  BY DEF Call, TypeOK
<1>2. LoopInv'
  BY LoopStays DEF Call
<1>3. \A u \in Timers : TimerInv(u)'
  BY OthersStay DEF Call
<1> QED
  BY <1>1, <1>2, <1>3

LEMMA ThrowOutStep ==
  ASSUME WheelInv, NEW t \in Timers, ThrowOut(t)
  PROVE  WheelInv'
<1> USE DEF WheelInv
<1>1. Drop(t) /\ UNCHANGED <<now, tick, loopAt, nowTick, calling>>
  BY DEF ThrowOut
<1>2. /\ status' \in [Timers -> Statuses]
      /\ task' \in [Timers -> Tasks]
      /\ \A u \in Timers : task'[u].bucket < LevelSize[task'[u].level]
      /\ TimerInv(t)'
      /\ \A u \in Timers \ {t} : task'[u] = task[u] /\ status'[u] = status[u]
  BY <1>1, DropKeeps
<1>3. TypeOK'
  BY <1>1, <1>2 DEF TypeOK, Statuses
<1>4. LoopInv'
  BY <1>1, LoopStays DEF LoopInv
<1>5. \A u \in Timers \ {t} : TimerInv(u)'
  BY <1>1, <1>2, OthersStay
<1> QED
  BY <1>2, <1>3, <1>4, <1>5

LEMMA ReturnStep ==
  ASSUME WheelInv, NEW t \in Timers, Return(t)
  PROVE  WheelInv'
<1> USE DEF WheelInv
<1>1. TypeOK /\ LoopInv /\ task[t] \in Tasks /\ tick \in Nat /\ now \in Nat
  BY DEF TypeOK
<1>2. UNCHANGED <<now, tick, loopAt, nowTick>> /\ calling' = None
  BY DEF Return
<1>3. /\ status' \in [Timers -> Statuses]
      /\ task' \in [Timers -> Tasks]
      /\ \A u \in Timers : task'[u].bucket < LevelSize[task'[u].level]
      /\ TimerInv(t)'
      /\ \A u \in Timers \ {t} : task'[u] = task[u] /\ status'[u] = status[u]
  <2>1. CASE task[t].delayInterval = 0
    <3>1. Drop(t)
      BY <2>1 DEF Return
    <3> QED
      BY <1>1, <3>1, DropKeeps
  <2>2. CASE task[t].delayInterval # 0
    <3>1. PICK since \in Nat, next \in Nat :
            /\ since = task[t].addDateTime + task[t].delayInterval
            /\ next = since + task[t].delayInterval
      <4>1. \A i \in Intervals \cup {0} : i \in Nat
        BY WheelAssumption
      <4>2. task[t].addDateTime \in Nat /\ task[t].delayInterval \in Nat
        BY <1>1, <4>1 DEF Tasks
      <4>3. PICK since \in Nat : since = task[t].addDateTime + task[t].delayInterval
        BY <4>2
      <4>4. PICK next \in Nat : next = since + task[t].delayInterval
        BY <4>2
      <4> QED
        BY <4>3, <4>4
    <3>2. PICK delay \in Nat : delay = AtLeast(next - now, 2 * tickGap)
      BY <1>1, <3>1, DueFirst DEF AtLeast
    <3>3. PICK gaps \in Nat : delay \div tickGap = gaps /\ delay < DueAt(gaps + 1)
      BY Truncated
    <3>4. PICK x \in Nat : x = tick + gaps
      BY <1>1
    <3> DEFINE made == [task[t] EXCEPT !.expire = next, !.addDateTime = since]
    <3>5. Put(t, made, gaps, x)
      BY <2>2, <3>1, <3>2, <3>3, <3>4 DEF Return
    <3>6. made \in Tasks /\ made.expire = next
      BY <1>1 DEF Tasks
    <3> HIDE DEF made
    <3>7. next < DueAt(x + 1) + MaxLag
      <4>1. next <= now + delay
        BY <1>1, <3>1, <3>2 DEF AtLeast
      <4>2. now <= DueAt(tick) + MaxLag
        BY <1>1 DEF LoopInv
      <4>3. tick \in Nat /\ x + 1 = tick + gaps + 1
        BY <1>1, <3>4
      <4>4. /\ DueAt(x + 1) = DueAt(tick) + DueAt(gaps + 1)
            /\ DueAt(tick) \in Int /\ DueAt(gaps + 1) \in Int
        BY ONLY <4>3, gaps \in Nat, DueNext
      <4> QED
        BY <1>1, <3>1, <3>2, <3>3, <4>1, <4>2, <4>4, TimeAssumption
    <3>8. made.expire < DueAt(x + 1) + MaxLag
      BY <3>6, <3>7
    <3>9. TypeOK /\ tick \in Nat /\ tick <= tick /\ tick' = tick /\ loopAt' = loopAt
      BY <1>1, <1>2
    <3> QED
      BY ONLY <3>9, t \in Timers, gaps \in Nat, x \in Nat, <3>4, <3>5, <3>6, <3>8, PutKeeps
  <2> QED
    BY <2>1, <2>2
<1>4. TypeOK'
  BY <1>1, <1>2, <1>3 DEF TypeOK, Statuses
<1>5. LoopInv'
  BY <1>1, <1>2, LoopStays
<1>6. \A u \in Timers \ {t} : TimerInv(u)'
  BY <1>2, <1>3, OthersStay
<1> QED
  BY <1>3, <1>4, <1>5, <1>6

\* A near timer that waits does so on level one or two.
LEMMA NearIsLow ==
  ASSUME WheelInv, NEW t \in Timers, status[t] = "waiting", Near(t)
  PROVE  task[t].level \in {1, 2}
<1>1. TimerInv(t) /\ task[t] \in Tasks
  BY DEF WheelInv, TypeOK
<1>2. task[t].level <= LevelFor(task[t].gaps) /\ LevelFor(task[t].gaps) <= 2
  BY <1>1 DEF TimerInv, Near
<1>3. LevelFor(task[t].gaps) \in 1 .. Levels
  BY <1>1, LevelForIs DEF Tasks
<1> QED
  BY <1>1, <1>2, <1>3, Sizes DEF Tasks

\* A pass in which the hand of level two does not move takes none of its places.
LEMMA BeginStep ==
  ASSUME WheelInv, BeginPass
  PROVE  WheelInv'
<1> USE DEF WheelInv
<1>1. tick \in Nat /\ now \in 0 .. MaxTime
  BY DEF TypeOK
<1>2. PICK n \in 1 .. Levels :
        /\ loopAt' = n
        /\ \A m \in 2 .. n : MovesOn(m)
        /\ n = Levels \/ ~ MovesOn(n + 1)
  <2> DEFINE Top(n) == /\ \A m \in 2 .. n : MovesOn(m)
                       /\ n = Levels \/ ~ MovesOn(n + 1)
  <2>1. \E n \in 1 .. Levels : Top(n)
    BY HighestHand
  <2>2. loopAt' = CHOOSE n \in 1 .. Levels : Top(n)
    BY DEF BeginPass
  <2> HIDE DEF Top
  <2>3. loopAt' \in 1 .. Levels /\ Top(loopAt')
    BY <2>1, <2>2
  <2> QED
    BY <2>3 DEF Top
<1>3. /\ loopAt = Asleep /\ now >= DueAt(tick) /\ nowTick' = now
      /\ UNCHANGED <<now, tick, calling, status, task>>
  BY DEF BeginPass
<1>4. TypeOK'
  BY <1>1, <1>2, <1>3, Sizes DEF TypeOK, Asleep
<1>5. LoopInv'
  <2>1. \A m \in 2 .. n : MovesOn(m)'
    BY <1>2, <1>3 DEF MovesOn
  <2>2. calling = None
    BY <1>3, Sizes DEF LoopInv, Asleep
  <2>3. DueAt(tick)' = DueAt(tick) /\ DueAt(tick) \in Int
    BY <1>1, <1>3, DueLater DEF DueAt
  <2> QED
    BY <1>1, <1>2, <1>3, <2>1, <2>2, <2>3 DEF LoopInv
<1>6. \A t \in Timers : TimerInv(t)'
  <2> SUFFICES ASSUME NEW t \in Timers, status[t] = "waiting", Near(t), NEW k \in Nat,
                      NextPass(task[t].level) <= PassOf(task[t].level, k)
               PROVE  NextPass(task[t].level)' <= PassOf(task[t].level, k)
    BY <1>1, <1>3, TimerStays
  <2>1. task[t].level \in {1, 2}
    BY NearIsLow
  <2>2. CASE task[t].level = 1
    <3>1. NextPass(1)' = tick /\ NextPass(1) = tick
      BY <1>2, <1>3, Sizes DEF NextPass, Asleep
    <3> QED
      BY <1>3, <2>2, <3>1
  <2>3. CASE task[t].level = 2
    <3>1. NextPass(2) = tick /\ (n # 1 => NextPass(2)' = tick) /\ (n = 1 => NextPass(2)' = tick + 1)
      BY <1>2, <1>3, Sizes DEF NextPass, Asleep
    <3>2. n = 1 => ~ MovesOn(2)
      BY <1>2, Sizes
    <3>3. PICK s \in Nat : s = k * LevelSize[1]
      BY Sizes
    <3>4. PassOf(2, k) = s - 1
      BY <3>3, SpanType DEF PassOf
    <3>5. n = 1 => s # tick + 1
      BY <1>1, <3>2, <3>3, PlacesOfTwo
    <3>6. NextPass(2)' <= s - 1
      BY <1>1, <1>2, <2>3, <3>1, <3>4, <3>5
    <3> QED
      BY <1>3, <2>3, <3>4, <3>6
  <2> QED
    BY <2>1, <2>2, <2>3
<1> QED
  BY <1>4, <1>5, <1>6

\* When the lock is released, no timer is left under the hand of level one.
LEMMA UnlockStep ==
  ASSUME WheelInv, Unlock
  PROVE  WheelInv'
<1> USE DEF WheelInv
<1>1. tick \in Nat
  BY DEF TypeOK
<1>2. /\ loopAt = 1 /\ loopAt' = 0 /\ calling = None /\ Due = {}
      /\ UNCHANGED <<now, tick, nowTick, calling, status, task>>
  BY DEF Unlock
<1>3. TypeOK'
  BY <1>2, Sizes DEF TypeOK, Asleep
<1>4. LoopInv'
  BY <1>2, Sizes DEF LoopInv, Asleep
<1>5. \A t \in Timers : TimerInv(t)'
  <2> SUFFICES ASSUME NEW t \in Timers, status[t] = "waiting", Near(t), NEW k \in Nat,
                      k % LevelSize[task[t].level] = task[t].bucket,
                      NextPass(task[t].level) <= PassOf(task[t].level, k)
               PROVE  NextPass(task[t].level)' <= PassOf(task[t].level, k)
    BY <1>1, <1>2, TimerStays
  <2>1. task[t].level \in {1, 2}
    BY NearIsLow
  <2>2. CASE task[t].level = 1
    <3>1. NextPass(1)' = tick + 1 /\ NextPass(1) = tick /\ PassOf(1, k) = k
      BY <1>2, Sizes DEF NextPass, PassOf
    <3>2. t \notin Waiting(1, Digit(1, tick))
      BY <1>2 DEF Due
    <3>3. task[t].bucket # tick % LevelSize[1]
      BY <1>1, <2>2, <3>2, LowDigits DEF Waiting
    <3>4. k # tick
      BY <2>2, <3>3
    <3> QED
      BY <1>1, <1>2, <2>2, <3>1, <3>4
  <2>3. CASE task[t].level = 2
    <3>1. NextPass(2)' = tick + 1 /\ NextPass(2) = tick + 1
      BY <1>2, Sizes DEF NextPass
    <3> QED
      BY <1>2, <2>3, <3>1
  <2> QED
    BY <2>1, <2>2, <2>3
<1> QED
  BY <1>3, <1>4, <1>5

LEMMA AdvanceStep ==
  ASSUME WheelInv, Advance
  PROVE  WheelInv'
<1> USE DEF WheelInv
<1>1. tick \in Nat /\ now \in 0 .. MaxTime
  BY DEF TypeOK
<1>2. /\ loopAt = 0 /\ loopAt' = Asleep /\ tick' = tick + 1 /\ nowTick' = 0
      /\ UNCHANGED <<now, calling, status, task>>
  BY DEF Advance
<1>3. tick <= DueAt(tick) /\ DueAt(tick) <= now /\ DueAt(tick) \in Nat
  <2>1. tick <= DueAt(tick) /\ DueAt(tick) \in Nat
    BY <1>1, DueLater
  <2>2. nowTick \in Nat /\ DueAt(tick) <= nowTick /\ nowTick <= now
    BY <1>2, Sizes DEF LoopInv, TypeOK, Asleep
  <2> QED
    BY <1>1, <2>1, <2>2
<1>4. TypeOK'
  BY <1>1, <1>2, <1>3, Sizes, TimeAssumption DEF TypeOK, Asleep
<1>5. LoopInv'
  <2>1. DueAt(tick)' = DueAt(tick) + tickGap
    <3>1. DueAt(tick + 1) = DueAt(tick) + tickGap
      BY <1>1, DueSum, DueFirst
    <3> QED
      BY <1>2, <3>1 DEF DueAt
  <2> QED
    BY <1>1, <1>2, <1>3, <2>1, DueFirst, Sizes, TimeAssumption DEF LoopInv, Asleep
<1>6. \A n \in Nat : n \in {1, 2} => NextPass(n)' = NextPass(n)
  BY <1>1, <1>2, Sizes DEF NextPass, Asleep
<1>7. \A t \in Timers : TimerInv(t)'
  <2> SUFFICES ASSUME NEW t \in Timers, status[t] = "waiting", Near(t), NEW k \in Nat,
                      NextPass(task[t].level) <= PassOf(task[t].level, k)
               PROVE  NextPass(task[t].level)' <= PassOf(task[t].level, k)
    BY <1>1, <1>2, TimerStays
  <2>1. task[t].level \in {1, 2}
    BY NearIsLow
  <2>2. NextPass(1)' = NextPass(1) /\ NextPass(2)' = NextPass(2)
    BY <1>6
  <2> QED
    BY <1>2, <2>1, <2>2
<1> QED
  BY <1>4, <1>5, <1>7

LEMMA ClockStep ==
  ASSUME WheelInv, Clock
  PROVE  WheelInv'
<1> USE DEF WheelInv
<1>1. tick \in Nat /\ now \in 0 .. MaxTime
  BY DEF TypeOK
<1>2. /\ now' = now + 1 /\ now < MaxTime /\ now < DueAt(tick) + MaxLag
      /\ UNCHANGED <<tick, loopAt, nowTick, calling, status, task>>
  BY DEF Clock
<1>3. TypeOK'
  BY <1>1, <1>2, TimeAssumption DEF TypeOK
<1>4. LoopInv'
  <2>1. \A m \in 2 .. loopAt : MovesOn(m)' = MovesOn(m)
    BY <1>2 DEF MovesOn
  <2>2. nowTick \in Nat
    BY DEF TypeOK
  <2>3. DueAt(tick)' = DueAt(tick) /\ DueAt(tick) \in Int
    BY <1>1, <1>2, DueLater DEF DueAt
  <2> QED
    BY <1>1, <1>2, <2>1, <2>2, <2>3, TimeAssumption DEF LoopInv
<1>5. \A t \in Timers : TimerInv(t)'
  BY <1>2, OthersStay
<1> QED
  BY <1>3, <1>4, <1>5

\* Where a timer goes on level n - 1 there is a bucket.
LEMMA LowerType ==
  ASSUME WheelInv, NEW t \in Timers, NEW n \in 2 .. Levels
  PROVE  Lower(n, t) \in Nat /\ Lower(n, t) < LevelSize[n - 1]
<1>1. PICK k \in 1 .. Levels : n - 1 = k
  BY Sizes
<1>2. PICK left \in Nat : left = AtLeast(task[t].expire - nowTick, 0) \div tickGap
  <2>1. task[t].expire \in Nat /\ nowTick \in Nat
    BY DEF WheelInv, TypeOK, Tasks
  <2>2. PICK rest \in Nat : rest = AtLeast(task[t].expire - nowTick, 0)
    BY <2>1 DEF AtLeast
  <2> QED
    BY <2>2, Truncated
<1>3. check(k) \in Nat
  <2>1. PICK a \in Nat, b \in Nat : a = LevelSize[k] - 1 /\ b = Span[k]
    BY SpanType, Sizes
  <2>2. a * b \in Nat
    OBVIOUS
  <2> QED
    BY <2>1, <2>2 DEF check
<1>4. PICK gap \in Nat : gap = IF n <= 3 THEN AtMost(left, check(k)) ELSE left
  BY <1>2, <1>3 DEF AtMost
<1>5. tick \in Nat /\ tick + 1 \in Nat
  BY DEF WheelInv, TypeOK
<1>6. PICK hand \in Nat : hand = IF n = 2 THEN Digit(1, tick) ELSE Digit(k, tick + 1)
  <2>1. Digit(1, tick) \in Nat /\ Digit(k, tick + 1) \in Nat
    BY <1>5, DigitType, Sizes
  <2> QED
    BY <2>1
<1>7. PICK sum \in Nat : sum = hand + Digit(k, gap)
  BY DigitType
<1>8. PICK r \in 0 .. LevelSize[k] - 1 : sum % LevelSize[k] = r
  <2>1. LevelSize[k] \in Nat \ {0}
    BY Sizes
  <2> QED
    BY <2>1, DivMod
<1>9. Lower(n, t) = r
  BY <1>1, <1>2, <1>4, <1>6, <1>7, <1>8 DEF Lower
<1> QED
  BY <1>1, <1>8, <1>9, Sizes

\* A near timer that comes down to level one is put in time, and too early by one
\* place of the hand and a gap at most, whatever the time left was cut to.
LEMMA DownInTime ==
  ASSUME WheelInv, HandDown(2), NEW t \in Timers,
         t \in Waiting(2, Digit(2, tick + 1)), ~ task[t].isCancel, Near(t)
  PROVE  ComesInTime(t)' /\ NeverTooEarly(t)'
<1> DEFINE M == LevelSize[1]
<1>1. /\ tick \in Nat /\ now \in Nat /\ nowTick \in Nat /\ MaxLag \in Nat
      /\ task \in [Timers -> Tasks] /\ task[t].expire \in Nat /\ task[t].meant \in Nat
  BY TimeAssumption DEF WheelInv, TypeOK, Tasks
<1>2. /\ loopAt = 2 /\ loopAt' = 1
      /\ UNCHANGED <<now, tick, nowTick, calling>>
      /\ task'[t] = [task[t] EXCEPT !.level = 2 - 1, !.bucket = Lower(2, t)]
  <2> DEFINE down == Waiting(2, Digit(2, tick + 1))
             cleared == {u \in down : task[u].isCancel}
  <2>1. task' = [u \in Timers |->
           IF u \in cleared THEN Blank
           ELSE IF u \in down
             THEN [task[u] EXCEPT !.level = 2 - 1, !.bucket = Lower(2, u)]
             ELSE task[u]]
    BY DEF HandDown
  <2>2. t \in down /\ t \notin cleared
    OBVIOUS
  <2> HIDE DEF down, cleared
  <2>3. task'[t] = [task[t] EXCEPT !.level = 2 - 1, !.bucket = Lower(2, t)]
    BY <2>1, <2>2
  <2>4. loopAt = 2 /\ loopAt' = 2 - 1 /\ UNCHANGED <<now, tick, nowTick, calling>>
    BY DEF HandDown
  <2>5. loopAt' = 1
    BY <2>4
  <2> QED
    BY <2>3, <2>4, <2>5, Zenon
<1>3. /\ status[t] = "waiting" /\ task[t].level = 2
      /\ task[t].bucket = Digit(2, tick + 1)
  BY DEF Waiting
<1>4. /\ task'[t].level = 1 /\ task'[t].bucket = Lower(2, t)
      /\ task'[t].expire = task[t].expire /\ task'[t].meant = task[t].meant
  BY <1>1, <1>2 DEF Tasks
<1>5. M \in Nat \ {0} /\ check(1) = M - 1 /\ Span[1] = 1
  <2>1. PICK a \in Nat : a = M - 1
    BY Sizes
  <2>2. check(1) = a * 1
    BY <2>1, SpanType DEF check
  <2> QED
    BY <2>1, <2>2, Sizes, SpanType
<1>r. PICK rest \in Nat : rest = AtLeast(task[t].expire - nowTick, 0)
  BY <1>1 DEF AtLeast
<1>6. PICK left \in Nat : /\ left = AtLeast(task[t].expire - nowTick, 0) \div tickGap
                          /\ DueAt(left) <= rest /\ rest < DueAt(left + 1)
  BY <1>r, Truncated
<1>7. PICK gap \in Nat : gap = AtMost(left, M - 1)
  BY <1>5, <1>6 DEF AtMost
<1>8. PICK T \in Nat : T = tick + gap
  BY <1>1
<1>9. T % M = Lower(2, t)
  <2>1. Digit(1, tick) = tick % M /\ Digit(1, gap) = gap % M
    BY <1>1, LowDigits
  <2>2. Lower(2, t) = ((tick % M) + (gap % M)) % M
    BY <1>5, <1>6, <1>7, <2>1 DEF Lower
  <2>3. (tick + gap) % M = ((tick % M) + (gap % M)) % M
    <3>1. tick \in Nat /\ gap \in Nat /\ M \in Nat \ {0}
      BY <1>1, <1>5
    <3> HIDE DEF M
    <3> QED
      BY ONLY <3>1, SumMod
  <2> QED
    BY <1>8, <2>2, <2>3
<1>10. DueAt(tick) <= nowTick /\ nowTick <= DueAt(tick) + MaxLag /\ DueAt(tick) \in Nat
  <2>1. DueAt(tick) \in Nat
    BY <1>1, DueLater
  <2> QED
    BY <1>1, <1>2, <2>1, Sizes DEF WheelInv, LoopInv, Asleep
<1>11. TimerInv(t) /\ ComesInTime(t) /\ NeverTooEarly(t)
  BY <1>3 DEF WheelInv, TimerInv
<1>12. DueAt(tick) <= task[t].expire \/ tick <= task[t].meant
  <2>1. PICK k \in Nat :
          /\ NextPass(2) <= PassOf(2, k)
          /\ DueAt(PassOf(2, k)) <= task[t].expire \/ PassOf(2, k) <= task[t].meant
    BY <1>3, <1>11 DEF ComesInTime
  <2>2. PICK y \in Int : y = PassOf(2, k)
    BY PlaceType
  <2>3. NextPass(2) = tick
    BY <1>2 DEF NextPass
  <2>4. DueAt(tick) <= DueAt(y) /\ DueAt(y) \in Int
    BY <1>1, <2>1, <2>2, <2>3, DueOrder, DueType
  <2> QED
    BY <1>1, <1>10, <2>1, <2>2, <2>3, <2>4
<1>13. ComesInTime(t)'
  <2>1. DueAt(T) <= task[t].expire \/ T <= task[t].meant
    <3>1. CASE nowTick <= task[t].expire
      <4>1. gap <= left
        BY <1>5, <1>6, <1>7 DEF AtMost
      <4>2. DueAt(gap) <= DueAt(left) /\ DueAt(gap) \in Int /\ DueAt(left) \in Int
        BY <4>1, DueOrder, DueType
      <4>3. DueAt(T) = DueAt(tick) + DueAt(gap)
        BY <1>1, <1>8, DueSum
      <4>4. rest = task[t].expire - nowTick
        BY <1>1, <1>r, <3>1 DEF AtLeast
      <4> QED
        BY <1>1, <1>6, <1>10, <4>2, <4>3, <4>4
    <3>2. CASE task[t].expire < nowTick
      <4>1. rest = 0
        BY <1>1, <1>r, <3>2 DEF AtLeast
      <4>2. left = 0
        BY <1>6, <4>1, DueLater
      <4>3. T = tick
        BY <1>1, <1>5, <1>7, <1>8, <4>2 DEF AtMost
      <4> QED
        BY <1>12, <4>3
    <3> QED
      BY <1>1, <3>1, <3>2
  <2>2. NextPass(1)' <= T
    BY <1>1, <1>2, <1>8 DEF NextPass
  <2>3. PassOf(1, T) = T
    BY DEF PassOf
  <2> QED
    BY <1>4, <1>8, <1>9, <2>1, <2>2, <2>3 DEF ComesInTime
<1>14. PICK p \in Nat : p * M = tick + 1 /\ Digit(2, tick + 1) = p % LevelSize[2]
  <2>1. MovesOn(2)
    BY <1>2, Sizes DEF WheelInv, LoopInv
  <2> QED
    BY <1>1, <2>1, PlacesOfTwo
<1>15. task[t].expire < DueAt(tick + M + 1) + MaxLag
  <2>1. PassOf(2, p) = tick
    BY <1>1, <1>14, SpanType DEF PassOf
  <2>2. task[t].expire < DueAt(PassOf(2, p) + Span[2] + 1) + MaxLag
    BY <1>1, <1>3, <1>11, <1>14, <2>1 DEF NeverTooEarly
  <2> QED
    BY <2>1, <2>2, SpanType
<1>16. NeverTooEarly(t)'
  <2> SUFFICES ASSUME NEW k \in Nat, k % M = Lower(2, t), tick <= k
               PROVE  task[t].expire < DueAt(k + 1 + 1) + MaxLag
    BY <1>2, <1>4, <1>5 DEF NeverTooEarly, PassOf
  <2>1. T <= k
    <3> SUFFICES ASSUME k < T PROVE FALSE
      OBVIOUS
    <3>1. k \in Nat /\ T \in Nat /\ M \in Nat \ {0} /\ k % M = T % M
      BY <1>5, <1>9
    <3>2. k + M <= T
      <4> HIDE DEF M
      <4> QED
        BY ONLY <3>1, k < T, SameMod
    <3> QED
      BY <1>1, <1>5, <1>6, <1>7, <1>8, <3>2 DEF AtMost
  <2>2. task[t].expire < DueAt(T + 2) + MaxLag
    <3>1. CASE gap = left
      <4>1. tick \in Nat /\ left \in Nat /\ T + 1 = tick + left + 1
        BY <1>1, <1>8, <3>1
      <4>2. DueAt(T + 1) = DueAt(tick) + DueAt(left + 1) /\ DueAt(left + 1) \in Int
        BY ONLY <4>1, DueNext
      <4>3. task[t].expire - nowTick <= rest
        BY <1>1, <1>r DEF AtLeast
      <4>4. task[t].expire < DueAt(T + 1) + MaxLag /\ DueAt(T + 1) \in Int
        BY <1>1, <1>6, <1>10, <4>1, <4>2, <4>3
      <4>5. PICK u \in Int, v \in Int : u = T + 1 /\ v = T + 2
        OBVIOUS
      <4>6. DueAt(u) <= DueAt(v) /\ DueAt(v) \in Int
        BY <4>5, DueOrder, DueType
      <4> QED
        BY <1>1, <4>4, <4>5, <4>6
    <3>2. CASE gap = M - 1
      <4>1. T + 2 = tick + M + 1
        BY <1>1, <1>5, <1>8, <3>2
      <4> QED
        BY <1>15, <4>1
    <3> QED
      BY <1>7, <3>1, <3>2 DEF AtMost
  <2>3. PICK u \in Int, v \in Int : u = T + 2 /\ v = k + 1 + 1 /\ u <= v
    BY <2>1
  <2>4. DueAt(u) <= DueAt(v) /\ DueAt(u) \in Int /\ DueAt(v) \in Int
    BY <2>3, DueOrder, DueType
  <2> QED
    BY <1>1, <2>2, <2>3, <2>4
<1> QED
  BY <1>13, <1>16

LEMMA HandDownStep ==
  ASSUME WheelInv, NEW n \in 2 .. Levels, HandDown(n)
  PROVE  WheelInv'
<1> USE DEF WheelInv
<1> DEFINE down == Waiting(n, Digit(n, tick + 1))
           cleared == {t \in down : task[t].isCancel}
           lowered(t) == [task[t] EXCEPT !.level = n - 1, !.bucket = Lower(n, t)]
<1>1. /\ tick \in Nat
      /\ status \in [Timers -> Statuses] /\ task \in [Timers -> Tasks]
      /\ \A u \in Timers : task[u].bucket < LevelSize[task[u].level]
  BY DEF TypeOK, Statuses
<1>2. /\ loopAt = n /\ loopAt' = n - 1
      /\ UNCHANGED <<now, tick, nowTick, calling>>
      /\ status' = [t \in Timers |-> IF t \in cleared THEN "gone" ELSE status[t]]
      /\ task' = [t \in Timers |->
           IF t \in cleared THEN Blank
           ELSE IF t \in down THEN lowered(t) ELSE task[t]]
  BY DEF HandDown
<1>3. n - 1 \in 1 .. Levels /\ n \in Nat
  BY Sizes
<1>4. ASSUME NEW t \in Timers
      PROVE  /\ lowered(t) \in Tasks
             /\ lowered(t).bucket < LevelSize[lowered(t).level]
             /\ lowered(t).level = n - 1 /\ lowered(t).gaps = task[t].gaps
  <2>1. Lower(n, t) \in Nat /\ Lower(n, t) < LevelSize[n - 1]
    BY LowerType
  <2>2. task[t] \in Tasks
    BY <1>1
  <2> QED
    BY <1>3, <2>1, <2>2 DEF Tasks
<1>5. \A t \in down : t \in Timers /\ status[t] = "waiting" /\ task[t].level = n
  BY DEF Waiting
<1> HIDE DEF down, lowered
<1>6. ASSUME NEW t \in Timers
      PROVE  /\ t \in cleared => status'[t] = "gone" /\ task'[t] = Blank
             /\ t \notin cleared => status'[t] = status[t]
             /\ t \notin cleared /\ t \in down => task'[t] = lowered(t)
             /\ t \notin down => task'[t] = task[t] /\ status'[t] = status[t]
  BY <1>2
<1>7. status' \in [Timers -> Statuses]
  BY <1>1, <1>2 DEF Statuses
<1>8. /\ task' \in [Timers -> Tasks]
      /\ \A t \in Timers : task'[t].bucket < LevelSize[task'[t].level]
  <2>1. Blank \in Tasks /\ Blank.bucket < LevelSize[Blank.level]
    BY BlankType
  <2>2. ASSUME NEW t \in Timers
        PROVE  task'[t] \in Tasks /\ task'[t].bucket < LevelSize[task'[t].level]
    <3> HIDE DEF cleared
    <3>1. task[t] \in Tasks /\ task[t].bucket < LevelSize[task[t].level]
      BY <1>1
    <3>2. task'[t] = Blank \/ task'[t] = lowered(t) \/ task'[t] = task[t]
      BY <1>6
    <3> QED
      BY <1>4, <2>1, <3>1, <3>2
  <2> HIDE DEF cleared
  <2> QED
    BY <1>2, <2>2
<1>9. TypeOK'
  BY <1>2, <1>3, <1>7, <1>8, Sizes DEF TypeOK, Statuses, Asleep
<1>10. LoopInv'
  <2>1. \A m \in 2 .. n : MovesOn(m)'
    BY <1>2, Sizes DEF LoopInv, MovesOn
  <2>2. loopAt # Asleep /\ calling = None
    BY <1>2, Sizes DEF LoopInv, Asleep
  <2> QED
    BY <1>2, <1>3, <2>1, <2>2, Sizes DEF LoopInv, Asleep
<1>11. ASSUME NEW t \in Timers, t \in cleared PROVE TimerInv(t)'
  BY <1>6, <1>11 DEF TimerInv
<1>12. ASSUME NEW t \in Timers, t \in down, t \notin cleared PROVE TimerInv(t)'
  <2>1. status[t] = "waiting" /\ status'[t] = "waiting" /\ task[t].level = n
    BY <1>5, <1>6, <1>12
  <2>2. task'[t].level = n - 1 /\ task'[t].gaps = task[t].gaps
    BY <1>4, <1>6, <1>12
  <2>3. task[t].level <= LevelFor(task[t].gaps) /\ LevelFor(task[t].gaps) \in Nat
    BY <1>1, <2>1, LevelForIs DEF TimerInv, Tasks
  <2>4. Near(t)' = Near(t)
    BY <2>2 DEF Near
  <2>5. ASSUME Near(t) PROVE ComesInTime(t)' /\ NeverTooEarly(t)'
    <3>1. n = 2
      BY <2>1, <2>5, NearIsLow
    <3>2. HandDown(2) /\ t \in Waiting(2, Digit(2, tick + 1)) /\ ~ task[t].isCancel
      BY <1>12, <3>1 DEF down
    <3> QED
      BY <2>5, <3>2, DownInTime
  <2> QED
    BY <1>3, <2>1, <2>2, <2>3, <2>4, <2>5 DEF TimerInv
<1>13. ASSUME NEW t \in Timers, t \notin down PROVE TimerInv(t)'
  <2>1. task'[t] = task[t] /\ status'[t] = status[t]
    BY <1>6, <1>13
  <2> SUFFICES ASSUME status[t] = "waiting", Near(t), NEW k \in Nat,
                      k % LevelSize[task[t].level] = task[t].bucket,
                      NextPass(task[t].level) <= PassOf(task[t].level, k)
               PROVE  NextPass(task[t].level)' <= PassOf(task[t].level, k)
    BY <1>1, <1>2, <2>1, TimerStays
  <2>2. task[t].level \in {1, 2}
    BY NearIsLow
  <2>3. CASE task[t].level = 1 \/ n # 2
    <3>1. NextPass(task[t].level)' = NextPass(task[t].level)
      BY <1>2, <2>1, <2>2, <2>3, Sizes DEF NextPass
    <3> QED
      BY <2>1, <3>1
  <2>4. CASE task[t].level = 2 /\ n = 2
    <3>1. NextPass(2) = tick /\ NextPass(2)' = tick + 1
      BY <1>2, <2>4 DEF NextPass
    <3>2. task[t].bucket # Digit(2, tick + 1)
      BY <1>13, <2>4 DEF down, Waiting
    <3>3. PICK s \in Nat : s = k * LevelSize[1]
      BY Sizes
    <3>4. PassOf(2, k) = s - 1
      BY <3>3, SpanType DEF PassOf
    <3>5. s # tick + 1
      BY <1>1, <2>4, <3>2, <3>3, PlacesOfTwo
    <3>6. tick + 1 <= s - 1
      BY <1>1, <2>4, <3>1, <3>4, <3>5
    <3> QED
      BY <2>1, <2>4, <3>1, <3>4, <3>6
  <2> QED
    BY <2>2, <2>3, <2>4
<1>14. \A t \in Timers : TimerInv(t)'
  <2> HIDE DEF cleared
  <2>1. \A t \in cleared : t \in down
    BY DEF cleared
  <2> QED
    BY <1>11, <1>12, <1>13
<1> QED
  BY <1>9, <1>10, <1>14

LEMMA InvStep == WheelInv /\ [Next]_vars => WheelInv'
<1> SUFFICES ASSUME WheelInv, [Next]_vars PROVE WheelInv'
  OBVIOUS
<1>1. ASSUME NEW t \in Timers, setTimeout(t) PROVE WheelInv'
  <2>1. PICK d \in Delays : Make(t, d, "bound")
    BY <1>1 DEF setTimeout
  <2>2. d \in Nat
    BY WheelAssumption
  <2> QED
    BY <2>1, <2>2, MakeStep
<1>2. ASSUME NEW t \in Timers, setInterval(t) PROVE WheelInv'
  <2>1. PICK d \in Intervals : Make(t, d, "made")
    BY <1>2 DEF setInterval
  <2>2. d \in Nat
    BY WheelAssumption
  <2> QED
    BY <2>1, <2>2, MakeStep
<1>d. ASSUME NEW t \in Timers, Date(t) PROVE WheelInv'
  BY <1>d, DateStep
<1>3. ASSUME NEW t \in Timers, ReadTick(t) PROVE WheelInv'
  BY <1>3, ReadStep
<1>4. ASSUME NEW t \in Timers, Push(t) PROVE WheelInv'
  BY <1>4, PushStep
<1>5. ASSUME NEW t \in Timers, clearTimeout(t) \/ clearInterval(t) PROVE WheelInv'
  BY <1>5, ClearStep
<1>6. ASSUME NEW t \in Timers, Call(t) PROVE WheelInv'
  BY <1>6, CallStep
<1>7. ASSUME NEW t \in Timers, ThrowOut(t) PROVE WheelInv'
  BY <1>7, ThrowOutStep
<1>8. ASSUME NEW t \in Timers, Return(t) PROVE WheelInv'
  BY <1>8, ReturnStep
<1>9. CASE BeginPass
  BY <1>9, BeginStep
<1>10. ASSUME NEW n \in 2 .. Levels, HandDown(n) PROVE WheelInv'
  BY <1>10, HandDownStep
<1>11. CASE Unlock
  BY <1>11, UnlockStep
<1>12. CASE Advance
  BY <1>12, AdvanceStep
<1>13. CASE Clock
  BY <1>13, ClockStep
<1>14. CASE UNCHANGED vars
  <2>1. UNCHANGED <<now, tick, loopAt, nowTick, calling, status, task>>
    BY <1>14 DEF vars
  <2>2. TypeOK'
    BY <2>1 DEF WheelInv, TypeOK
  <2>3. LoopInv'
    BY <2>1, LoopStays DEF WheelInv, LoopInv
  <2>4. \A t \in Timers : TimerInv(t)'
    BY <2>1, OthersStay DEF WheelInv
  <2> QED
    BY <2>2, <2>3, <2>4 DEF WheelInv
<1> QED
  BY <1>1, <1>2, <1>d, <1>3, <1>4, <1>5, <1>6, <1>7, <1>8, <1>9, <1>10, <1>11,
     <1>12, <1>13, <1>14 DEF Next

LEMMA Invariant == Spec => []WheelInv
BY InvInit, InvStep, PTL DEF Spec

\* Every variable keeps its type, and every timer a bucket of its level, whatever
\* digit setTimerWheelTask and the hand-down compute.
THEOREM WheelTyped == Spec => []TypeOK
<1>1. WheelInv => TypeOK
  BY DEF WheelInv
<1> QED
  BY <1>1, Invariant, PTL

\* The hands never pass a near timer by: setTimerWheelTask may push it as late as it
\* likes after it read tick, and the loop may hand it down in a pass that is late.
THEOREM NotPassedBy == Spec => []NoTimerIsPassedBy
<1>1. WheelInv => NoTimerIsPassedBy
  <2> SUFFICES ASSUME WheelInv, NEW t \in Timers, status[t] = "waiting", Near(t)
               PROVE  DueAt(tick) <= task[t].expire \/ tick <= task[t].meant
    BY DEF NoTimerIsPassedBy
  <2>1. /\ tick \in Nat /\ task[t].expire \in Nat /\ task[t].meant \in Nat
    BY DEF WheelInv, TypeOK, Tasks
  <2>2. task[t].level \in {1, 2} /\ ComesInTime(t)
    BY NearIsLow DEF WheelInv, TimerInv
  <2>3. PICK k \in Nat :
          /\ NextPass(task[t].level) <= PassOf(task[t].level, k)
          /\ \/ DueAt(PassOf(task[t].level, k)) <= task[t].expire
             \/ PassOf(task[t].level, k) <= task[t].meant
    BY <2>2 DEF ComesInTime
  <2>4. PICK y \in Int : y = PassOf(task[t].level, k)
    BY <2>2, PlaceType
  <2>5. NextPass(task[t].level) \in Nat /\ tick <= NextPass(task[t].level)
    BY <2>1 DEF NextPass
  <2>6. tick <= y
    BY <2>1, <2>3, <2>4, <2>5
  <2>7. DueAt(tick) <= DueAt(y) /\ DueAt(tick) \in Int /\ DueAt(y) \in Int
    BY <2>1, <2>6, DueOrder, DueType
  <2> QED
    BY <2>1, <2>3, <2>4, <2>6, <2>7
<1> QED
  BY <1>1, Invariant, PTL

\* The loop calls a near timer early by less than it may be behind the clock and two
\* gaps, for the division of the delay and the cut in the hand-down.
THEOREM EarlyByLag == Spec => EarlyByTheLagAtMost
<1> DEFINE NotEarly(t) ==
      calling' = t /\ calling # t /\ Near(t) =>
        task[t].expire < now + MaxLag + 2 * tickGap
<1>1. WheelInv /\ [Next]_vars => [\A t \in Timers : NotEarly(t)]_vars
  <2> SUFFICES ASSUME WheelInv, Next, NEW t \in Timers, calling' = t, calling # t, Near(t)
               PROVE  task[t].expire < now + MaxLag + 2 * tickGap
    OBVIOUS
  <2>1. t # None
    BY WheelAssumption
  <2>2. Call(t)
    <3>1. ASSUME NEW u \in Timers, Call(u) PROVE u = t
      BY <3>1 DEF Call
    <3>2. ASSUME NEW u \in Timers, Return(u) PROVE FALSE
      BY <2>1, <3>2 DEF Return
    <3>3. ASSUME UNCHANGED calling PROVE FALSE
      BY <3>3
    <3>4. ASSUME NEW u \in Timers,
                 \/ setTimeout(u) \/ setInterval(u) \/ Date(u) \/ ReadTick(u)
                 \/ Push(u) \/ clearTimeout(u) \/ clearInterval(u) \/ ThrowOut(u)
          PROVE  UNCHANGED calling
      BY <3>4 DEF setTimeout, setInterval, Make, Date, ReadTick, Push, clearTimeout,
           clearInterval, ThrowOut
    <3>5. ASSUME \/ BeginPass \/ (\E n \in 2 .. Levels : HandDown(n)) \/ Unlock
                 \/ Advance \/ Clock
          PROVE  UNCHANGED calling
      BY <3>5 DEF BeginPass, HandDown, Unlock, Advance, Clock
    <3> QED
      BY <3>1, <3>2, <3>3, <3>4, <3>5 DEF Next
  <2>3. loopAt = 1 /\ t \in Due
    BY <2>2 DEF Call
  <2>4. /\ tick \in Nat /\ now \in Nat /\ MaxLag \in Nat /\ nowTick \in Nat
        /\ task[t].expire \in Nat
    BY TimeAssumption DEF WheelInv, TypeOK, Tasks
  <2>5. DueAt(tick) <= now /\ DueAt(tick) \in Nat
    <3>1. DueAt(tick) \in Nat
      BY <2>4, DueLater
    <3> QED
      BY <2>3, <2>4, <3>1, Sizes DEF WheelInv, LoopInv, Asleep
  <2>6. status[t] = "waiting" /\ task[t].level = 1 /\ task[t].bucket = tick % LevelSize[1]
    BY <2>3, <2>4, LowDigits DEF Due, Waiting
  <2>7. NeverTooEarly(t)
    BY <2>6 DEF WheelInv, TimerInv
  <2>8. PassOf(1, tick) = tick /\ Span[1] = 1
    BY SpanType DEF PassOf
  <2>9. task[t].expire < DueAt(tick + 1 + 1) + MaxLag
    BY <2>4, <2>6, <2>7, <2>8 DEF NeverTooEarly
  <2>10. DueAt(tick + 1 + 1) = DueAt(tick) + 2 * tickGap
    <3>1. DueAt(tick + 1 + 1) = DueAt(tick + 1) + DueAt(1) /\ tick + 1 \in Int
      BY <2>4, DueSum
    <3>2. DueAt(tick + 1) = DueAt(tick) + DueAt(1)
      BY <2>4, DueSum
    <3> QED
      BY <2>5, <3>1, <3>2, DueFirst
  <2> QED
    BY <2>4, <2>5, <2>9, <2>10, DueFirst
<1>2. Spec => [][\A t \in Timers : NotEarly(t)]_vars
  BY <1>1, Invariant, PTL DEF Spec
<1> QED
  BY <1>2 DEF EarlyByTheLagAtMost
================================================================================
