------------------------------ MODULE LabProofs ------------------------------
(* Three of the labs: the two RSA programs (lab8), their arithmetic and their *)
(* ports, for any letters; the parent and its monitors (lab3), for any number *)
(* of them; the TCP server's queue (lab5), for any numbers of clients and of  *)
(* messages.                                                                  *)
EXTENDS Rsa, SequenceTheorems, NaturalsInduction, WellFoundedInduction, TLAPS

-----------------------------------------------------------------------------
(* Loops as functions *)

\* Induction over a set of numbers.
LEMMA SetInduction ==
    ASSUME NEW S \in SUBSET Nat, 0 \in S, \A i \in S : i + 1 \in S
    PROVE  S = Nat
<1> SUFFICES ASSUME Nat \ S # {} PROVE FALSE
    OBVIOUS
<1>1. PICK i \in Nat \ S : \A j \in Nat \ S : ~(<<j, i>> \in OpToRel(<, Nat))
  BY Zenon, NatLessThanWellFounded, WFMin
<1>2. OpToRel(<, Nat) = {ss \in Nat \X Nat : ss[1] < ss[2]}
  BY Zenon DEF OpToRel
<1>3. i # 0 /\ i - 1 \in Nat /\ i - 1 < i /\ (i - 1) + 1 = i
  OBVIOUS
<1>4. i - 1 \in S
  BY <1>1, <1>2, <1>3
<1> QED
  BY <1>3, <1>4

\* A loop that goes on from x by g has been through f after b turns.
LEMMA Iterates ==
    ASSUME NEW g \in [Nat -> Nat], NEW b \in Nat
    PROVE  \E f \in [0..b -> Nat] : f[0] = 1 /\ \A i \in 1..b : f[i] = g[f[i - 1]]
<1> DEFINE Run(j, f) == f \in [0..j -> Nat] /\ f[0] = 1 /\ \A i \in 1..j : f[i] = g[f[i - 1]]
           T == {j \in Nat : \E f : Run(j, f)}
<1>1. 0 \in T
  <2>1. Run(0, [i \in 0..0 |-> 1])
    OBVIOUS
  <2> QED
    BY <2>1
<1>2. ASSUME NEW j \in T PROVE j + 1 \in T
  <2>1. PICK f : Run(j, f)
    OBVIOUS
  <2> DEFINE h == [i \in 0..(j + 1) |-> IF i <= j THEN f[i] ELSE g[f[j]]]
  <2>2. j \in Nat
    OBVIOUS
  <2>3. h \in [0..(j + 1) -> Nat]
    <3>1. f[j] \in Nat /\ g[f[j]] \in Nat
      BY <2>1, <2>2
    <3>2. ASSUME NEW i \in 0..(j + 1), i <= j PROVE f[i] \in Nat
      <4>1. i \in 0..j
        BY <2>2, <3>2
      <4> QED
        BY <2>1, <4>1
    <3> QED
      BY <3>1, <3>2
  <2>4. h[0] = 1
    BY <2>1, <2>2
  <2>5. ASSUME NEW i \in 1..(j + 1) PROVE h[i] = g[h[i - 1]]
    <3>1. i - 1 \in 0..j /\ h[i - 1] = f[i - 1]
      BY <2>2
    <3>2. CASE i <= j
      BY <2>1, <2>2, <3>1, <3>2
    <3>3. CASE i = j + 1
      BY <2>1, <2>2, <3>1, <3>3
    <3> QED
      BY <2>2, <3>2, <3>3
  <2> HIDE DEF h
  <2>6. Run(j + 1, h)
    BY <2>3, <2>4, <2>5
  <2> HIDE DEF Run
  <2> QED
    BY <2>2, <2>6
<1>3. T = Nat
  <2> HIDE DEF T
  <2>1. T \in SUBSET Nat
    BY DEF T
  <2> QED
    BY <1>1, <1>2, <2>1, SetInduction
<1>4. PICK f : Run(b, f)
  BY <1>3
<1> QED
  BY <1>4

\* A sequence whose members are numbers as long as the one before is.
LEMMA AllNumbers ==
    ASSUME NEW b \in Nat, NEW f, f[0] \in Nat,
           \A i \in 1..b : f[i - 1] \in Nat => f[i] \in Nat
    PROVE  \A i \in 0..b : f[i] \in Nat
<1> DEFINE T == {i \in Nat : i <= b => f[i] \in Nat}
<1>1. 0 \in T
  OBVIOUS
<1>2. ASSUME NEW i \in T PROVE i + 1 \in T
  <2>1. i \in Nat /\ (i + 1) - 1 = i
    OBVIOUS
  <2>2. CASE i + 1 <= b
    <3>1. f[i] \in Nat /\ i + 1 \in 1..b
      BY <2>1, <2>2
    <3>2. f[i + 1] \in Nat
      BY <2>1, <3>1
    <3> QED
      BY <2>1, <3>2
  <2> QED
    BY <2>1, <2>2
<1>3. T = Nat
  <2> HIDE DEF T
  <2>1. T \in SUBSET Nat
    BY DEF T
  <2> QED
    BY <1>1, <1>2, <2>1, SetInduction
<1>4. ASSUME NEW i \in 0..b PROVE f[i] \in Nat
  <2>1. i \in Nat /\ i <= b
    OBVIOUS
  <2> QED
    BY <1>3, <2>1
<1> QED
  BY <1>4

\* f is what the loop of PowerMod() goes through.
Turns(f, a, b, c) ==
    /\ \A i \in 0..b : f[i] \in Nat
    /\ f[0] = 1 /\ \A i \in 1..b : f[i] = (f[i - 1] * a) % c

\* PowerMod() gives the last of such a sequence.
LEMMA PowerModRun ==
    ASSUME NEW a \in Nat, NEW b \in Nat, NEW c \in Nat \ {0}
    PROVE  \E f : Turns(f, a, b, c) /\ PowerMod(a, b, c) = f[b]
<1> DEFINE F(f) == [i \in 0..b |-> IF i = 0 THEN 1 ELSE (f[i - 1] * a) % c]
           res  == CHOOSE f : f = F(f)
<1>1. \E f : f = F(f)
  <2>1. PICK g \in [Nat -> Nat] : \A j \in Nat : g[j] = (j * a) % c
    <3>1. [j \in Nat |-> (j * a) % c] \in [Nat -> Nat]
      OBVIOUS
    <3> QED
      BY <3>1
  <2>2. PICK f \in [0..b -> Nat] : f[0] = 1 /\ \A i \in 1..b : f[i] = g[f[i - 1]]
    BY Iterates
  <2>3. ASSUME NEW i \in 0..b PROVE f[i] = IF i = 0 THEN 1 ELSE (f[i - 1] * a) % c
    <3>1. CASE i # 0
      <4>1. i \in 1..b /\ i - 1 \in 0..b
        BY <3>1
      <4> QED
        BY <2>1, <2>2, <3>1, <4>1
    <3> QED
      BY <2>2, <3>1
  <2>4. f = F(f)
    BY <2>2, <2>3
  <2> QED
    BY <2>4
<1>2. res = F(res)
  <2> HIDE DEF F
  <2> QED
    BY <1>1, Zenon
<1>3. PowerMod(a, b, c) = res[b]
  BY DEF PowerMod
<1> HIDE DEF res
<1>4. res[0] = 1 /\ \A i \in 1..b : res[i] = (res[i - 1] * a) % c
  BY <1>2
<1>5. \A i \in 0..b : res[i] \in Nat
  <2>1. \A i \in 1..b : res[i - 1] \in Nat => res[i] \in Nat
    BY <1>4
  <2> QED
    BY <1>4, <2>1, AllNumbers
<1> QED
  BY <1>3, <1>4, <1>5 DEF Turns

\* So does Power, of one without remainders.
LEMMA PowerRun ==
    ASSUME NEW a \in Nat, NEW b \in Nat
    PROVE  \E f : /\ f[0] = 1 /\ \A i \in 1..b : f[i] = f[i - 1] * a
                  /\ Power(a, b) = f[b]
<1> DEFINE F(f) == [i \in 0..b |-> IF i = 0 THEN 1 ELSE f[i - 1] * a]
           pow  == CHOOSE f : f = F(f)
<1>1. \E f : f = F(f)
  <2>1. PICK g \in [Nat -> Nat] : \A j \in Nat : g[j] = j * a
    <3>1. [j \in Nat |-> j * a] \in [Nat -> Nat]
      OBVIOUS
    <3> QED
      BY <3>1
  <2>2. PICK f \in [0..b -> Nat] : f[0] = 1 /\ \A i \in 1..b : f[i] = g[f[i - 1]]
    BY Iterates
  <2>3. ASSUME NEW i \in 0..b PROVE f[i] = IF i = 0 THEN 1 ELSE f[i - 1] * a
    <3>1. CASE i # 0
      <4>1. i \in 1..b /\ i - 1 \in 0..b
        BY <3>1
      <4> QED
        BY <2>1, <2>2, <3>1, <4>1
    <3> QED
      BY <2>2, <3>1
  <2>4. f = F(f)
    BY <2>2, <2>3
  <2> QED
    BY <2>4
<1>2. pow = F(pow)
  <2> HIDE DEF F
  <2> QED
    BY <1>1, Zenon
<1>3. Power(a, b) = pow[b]
  BY DEF Power
<1> HIDE DEF pow
<1>4. pow[0] = 1 /\ \A i \in 1..b : pow[i] = pow[i - 1] * a
  BY <1>2
<1> QED
  BY <1>3, <1>4
-----------------------------------------------------------------------------
(* Remainders *)

\* Division with remainder.
LEMMA Division ==
    ASSUME NEW x \in Nat, NEW r \in {11, 23, 253}
    PROVE  \E a \in Nat : \E w \in 0..(r - 1) : x = r * a + w /\ x % r = w
<1>1. CASE r = 11
  <2>1. x = 11 * (x \div 11) + (x % 11) /\ x \div 11 \in Nat /\ x % 11 \in 0..10
    OBVIOUS
  <2> QED
    BY <1>1, <2>1
<1>2. CASE r = 23
  <2>1. x = 23 * (x \div 23) + (x % 23) /\ x \div 23 \in Nat /\ x % 23 \in 0..22
    OBVIOUS
  <2> QED
    BY <1>2, <2>1
<1>3. CASE r = 253
  <2>1. x = 253 * (x \div 253) + (x % 253) /\ x \div 253 \in Nat /\ x % 253 \in 0..252
    OBVIOUS
  <2> QED
    BY <1>3, <2>1
<1> QED
  BY <1>1, <1>2, <1>3

\* The remainder is what is left over.
LEMMA Remainder ==
    ASSUME NEW r \in {11, 23, 253}, NEW a \in Nat, NEW w \in 0..(r - 1)
    PROVE  (r * a + w) % r = w
<1>1. CASE r = 11
  BY <1>1
<1>2. CASE r = 23
  BY <1>2
<1>3. CASE r = 253
  BY <1>3
<1> QED
  BY <1>1, <1>2, <1>3

\* The remainder of a product is that of the product of the remainders.
LEMMA ProductRemainder ==
    ASSUME NEW x \in Nat, NEW y \in Nat, NEW r \in {11, 23, 253}
    PROVE  (x * y) % r = ((x % r) * (y % r)) % r
<1>1. PICK a \in Nat, v \in 0..(r - 1) : x = r * a + v /\ x % r = v
  BY Division
<1>2. PICK b \in Nat, w \in 0..(r - 1) : y = r * b + w /\ y % r = w
  BY Division
<1>3. v \in Nat /\ w \in Nat /\ r \in Nat /\ v * w \in Nat
  OBVIOUS
<1>4. PICK c \in Nat, z \in 0..(r - 1) : v * w = r * c + z /\ (v * w) % r = z
  BY <1>3, Division
<1> DEFINE t == r * (a * b) + a * w + b * v + c
<1>5. t \in Nat
  BY <1>3
<1>6. x * y = r * t + z
  <2>1. x * y = (r * a + v) * (r * b + w)
    BY <1>1, <1>2
  <2>2. (r * a + v) * (r * b + w) = r * (r * (a * b) + a * w + b * v) + v * w
    BY <1>3
  <2>3. r * (r * (a * b) + a * w + b * v) + (r * c + z) = r * t + z
    BY <1>3
  <2> QED
    BY <1>4, <2>1, <2>2, <2>3
<1>7. (x * y) % r = z
  <2> HIDE DEF t
  <2> QED
    BY <1>5, <1>6, Remainder
<1> QED
  BY <1>1, <1>2, <1>4, <1>7

\* Taking the remainder of a factor first makes no difference.
LEMMA LeftRemainder ==
    ASSUME NEW x \in Nat, NEW y \in Nat
    PROVE  (x * y) % 253 = (x * (y % 253)) % 253
<1>1. PICK a \in Nat, v \in 0..252 : y = 253 * a + v /\ y % 253 = v
  BY Division
<1>2. PICK b \in Nat, w \in 0..252 : x * v = 253 * b + w /\ (x * v) % 253 = w
  <2>1. x * v \in Nat
    OBVIOUS
  <2> QED
    BY <2>1, Division
<1> DEFINE t == x * a + b
<1>3. t \in Nat
  OBVIOUS
<1>4. x * y = 253 * t + w
  <2>1. x * y = x * (253 * a + v)
    BY <1>1
  <2>2. x * (253 * a + v) = 253 * (x * a) + x * v
    OBVIOUS
  <2> QED
    BY <1>2, <2>1, <2>2
<1>5. (x * y) % 253 = w
  <2> HIDE DEF t
  <2> QED
    BY <1>3, <1>4, Remainder
<1> QED
  BY <1>1, <1>2, <1>5

\* Multiplication modulo 253 is associative.
LEMMA Associative ==
    ASSUME NEW x \in Nat, NEW y \in Nat, NEW s \in Nat
    PROVE  (((x * y) % 253) * s) % 253 = (x * ((y * s) % 253)) % 253
<1>1. x * y \in Nat /\ y * s \in Nat /\ (x * y) % 253 \in Nat
  OBVIOUS
<1>2. (((x * y) % 253) * s) % 253 = ((x * y) * s) % 253
  <2>1. (s * ((x * y) % 253)) % 253 = (s * (x * y)) % 253
    BY <1>1, LeftRemainder
  <2>2. PICK z \in Nat : z = x * y
    BY <1>1
  <2>3. s * z = z * s /\ s * (z % 253) = (z % 253) * s
    OBVIOUS
  <2> QED
    BY <2>1, <2>2, <2>3
<1>3. (x * ((y * s) % 253)) % 253 = (x * (y * s)) % 253
  BY <1>1, LeftRemainder
<1>4. (x * y) * s = x * (y * s)
  OBVIOUS
<1> QED
  BY <1>2, <1>3, <1>4

\* A remainder by 253 has the same remainder by its factors.
LEMMA FactorRemainder ==
    ASSUME NEW x \in Nat, NEW r \in {11, 23}
    PROVE  (x % 253) % r = x % r
<1>1. PICK a \in Nat, v \in 0..252 : x = 253 * a + v /\ x % 253 = v
  BY Division
<1>2. CASE r = 11
  BY <1>1, <1>2
<1>3. CASE r = 23
  BY <1>1, <1>3
<1> QED
  BY <1>2, <1>3

\* Two remainders by 253 that agree by both factors are the same.
LEMMA SameRemainders ==
    ASSUME NEW x \in 0..252, NEW y \in 0..252, x % 11 = y % 11, x % 23 = y % 23
    PROVE  x = y
<1>1. PICK a \in Nat, v \in 0..10 : x = 11 * a + v /\ x % 11 = v
  BY Division
<1>2. PICK b \in Nat, w \in 0..10 : y = 11 * b + w /\ y % 11 = w
  BY Division
<1>3. PICK c \in Nat, s \in 0..22 : x = 23 * c + s /\ x % 23 = s
  BY Division
<1>4. PICK f \in Nat, t \in 0..22 : y = 23 * f + t /\ y % 23 = t
  BY Division
<1>5. 11 * (a - b) = 23 * (c - f) /\ a - b \in -22..22 /\ c - f \in -10..10
  BY <1>1, <1>2, <1>3, <1>4
<1>6. a - b = 0
  BY <1>5
<1> QED
  BY <1>1, <1>2, <1>6

-----------------------------------------------------------------------------
(* The keys *)

\* Euclid's loop goes on with a smaller pair.
LEMMA Smaller ==
    ASSUME NEW a \in 0..220, NEW h \in 1..220
    PROVE  a % h \in 0..(h - 1)
OBVIOUS

\* One turn of the loop with h, when f is what follows.
Turn(f, h) == [a \in 0..220 |-> IF a % h = 0 THEN h ELSE f[a % h][h]]

\* A turn looks at what follows for smaller numbers only.
LEMMA SameTurn ==
    ASSUME NEW f, NEW g, NEW h \in 1..220, \A i \in 1..(h - 1) : f[i] = g[i]
    PROVE  Turn(f, h) = Turn(g, h)
<1>1. ASSUME NEW a \in 0..220, a % h # 0 PROVE f[a % h] = g[a % h]
  <2>1. PICK r : r = a % h
    OBVIOUS
  <2>2. r \in 0..(h - 1)
    BY <2>1, Smaller, Zenon
  <2>3. r \in 1..(h - 1)
    BY <1>1, <2>1, <2>2
  <2> QED
    BY <2>1, <2>3, Zenon
<1> QED
  BY <1>1, Zenon DEF Turn

\* There is a function that Euclid's loop computes: for every number h the turns
\* below it are there when h's is taken.
LEMMA GcdExists == \E f : f = [h \in 1..220 |-> Turn(f, h)]
<1> DEFINE Upto(H, f) == \A h \in 1..220 : h <= H => f[h] = Turn(f, h)
           T == {H \in Nat : \E f : Upto(H, f)}
<1>1. 0 \in T
  OBVIOUS
<1>2. ASSUME NEW H \in T PROVE H + 1 \in T
  <2>1. PICK f : Upto(H, f)
    OBVIOUS
  <2> H \in Nat
    OBVIOUS
  <2>2. PICK g : g = [h \in 1..220 |-> IF h <= H THEN f[h] ELSE Turn(f, h)]
    OBVIOUS
  <2>3. ASSUME NEW h \in 1..220, h <= H + 1
        PROVE  g[h] = Turn(g, h)
    <3>1. g[h] = Turn(f, h)
      BY <2>1, <2>2
    <3>2. \A i \in 1..(h - 1) : f[i] = g[i]
      BY <2>2, <2>3
    <3> QED
      BY <3>1, <3>2, SameTurn
  <2>4. Upto(H + 1, g)
    BY <2>3
  <2> HIDE DEF Upto
  <2> QED
    BY <2>4
<1>3. T = Nat
  <2> HIDE DEF T
  <2>1. T \in SUBSET Nat
    BY DEF T
  <2> QED
    BY <1>1, <1>2, <2>1, SetInduction
<1>4. PICK f : Upto(220, f)
  <2> HIDE DEF Upto
  <2> QED
    BY <1>3
<1>5. PICK g : g = [h \in 1..220 |-> f[h]]
  OBVIOUS
<1>6. ASSUME NEW h \in 1..220 PROVE f[h] = Turn(g, h)
  <2>1. f[h] = Turn(f, h)
    BY <1>4
  <2>2. \A i \in 1..(h - 1) : f[i] = g[i]
    BY <1>5
  <2> QED
    BY <2>1, <2>2, SameTurn
<1>7. g = [h \in 1..220 |-> Turn(g, h)]
  BY <1>5, <1>6, Zenon
<1> QED
  BY <1>7, Zenon

\* gcd is such a function.
LEMMA GcdIs == \A h \in 1..220 : gcd[h] = Turn(gcd, h)
<1> DEFINE F(f) == [h \in 1..220 |-> Turn(f, h)]
           g == CHOOSE f : f = F(f)
<1>1. g = F(g)
  <2>1. \E f : f = F(f)
    BY GcdExists
  <2> HIDE DEF F
  <2> QED
    BY <2>1, Zenon
<1>2. gcd = g
  BY Zenon DEF gcd, Turn
<1> HIDE DEF g
<1> QED
  BY <1>1, <1>2, Zenon

\* The numbers the loop works on and its remainders, under names of their own for
\* the provers.
Firsts     == 0..220
Seconds    == 1..220
Rest(x, r) == x % r

\* What one turn of the loop does.
LEMMA GcdTurn ==
    ASSUME NEW a \in Firsts, NEW h \in Seconds
    PROVE  gcd[h][a] = IF Rest(a, h) = 0 THEN h ELSE gcd[Rest(a, h)][h]
<1>1. gcd[h] = Turn(gcd, h)
  BY GcdIs, Zenon DEF Seconds
<1> QED
  BY <1>1, Zenon DEF Turn, Firsts, Rest

\* The same for a remainder that has a name.
LEMMA GcdStep ==
    ASSUME NEW a \in Firsts, NEW h \in Seconds, NEW r, r = Rest(a, h)
    PROVE  /\ r = 0 => gcd[h][a] = h
           /\ r # 0 => gcd[h][a] = gcd[r][h]
BY GcdTurn, Zenon

\* The keys are (3, 253) and (147, 253).
LEMMA Keys == phi = 220 /\ n = 253 /\ e = 3 /\ d = 147
<1>1. phi = 220 /\ n = 253
  BY DEF phi, n, p, q
<1>2. gcd[220][2] = 2 /\ gcd[220][3] = 1
  <2>1. PICK b : b = 220
    OBVIOUS
  <2>2. gcd[b][2] = gcd[2][b]
    <3>1. 2 \in Firsts /\ b \in Seconds /\ 2 = Rest(2, b) /\ 2 # 0
      BY <2>1 DEF Firsts, Seconds, Rest
    <3> QED
      BY <3>1, GcdStep
  <2>3. gcd[2][b] = 2
    <3>1. b \in Firsts /\ 2 \in Seconds /\ 0 = Rest(b, 2)
      BY <2>1 DEF Firsts, Seconds, Rest
    <3> QED
      BY <3>1, GcdStep
  <2>4. gcd[b][3] = gcd[3][b]
    <3>1. 3 \in Firsts /\ b \in Seconds /\ 3 = Rest(3, b) /\ 3 # 0
      BY <2>1 DEF Firsts, Seconds, Rest
    <3> QED
      BY <3>1, GcdStep
  <2>5. gcd[3][b] = gcd[1][3]
    <3>1. b \in Firsts /\ 3 \in Seconds /\ 1 = Rest(b, 3) /\ 1 # 0
      BY <2>1 DEF Firsts, Seconds, Rest
    <3> QED
      BY <3>1, GcdStep
  <2>6. gcd[1][3] = 1
    <3>1. 3 \in Firsts /\ 1 \in Seconds /\ 0 = Rest(3, 1)
      BY <2>1 DEF Firsts, Seconds, Rest
    <3> QED
      BY <3>1, GcdStep
  <2> QED
    BY <2>1, <2>2, <2>3, <2>4, <2>5, <2>6
<1>3. e = 3
  <2> DEFINE First(x) == gcd[220][x] = 1 /\ \A y \in 2..(x - 1) : gcd[220][y] # 1
  <2>1. First(3)
    BY <1>2
  <2>2. ASSUME NEW x \in 2..220, First(x) PROVE x = 3
    <3>1. x # 2
      BY <1>2, <2>2
    <3>2. ~(x > 3)
      BY <1>2, <2>2
    <3> QED
      BY <3>1, <3>2
  <2>3. e = CHOOSE x \in 2..220 : First(x)
    BY <1>1 DEF e
  <2> HIDE DEF First
  <2>4. 3 \in 2..220
    OBVIOUS
  <2> QED
    BY <2>1, <2>2, <2>3, <2>4
<1>4. d = 147
  BY <1>1, <1>3 DEF d, k
<1> QED
  BY <1>1, <1>3, <1>4

-----------------------------------------------------------------------------
(* What the letter comes to *)

\* n, under a name of its own for the provers.
IsModulus(c) == c = 253

\* The powers that the loop goes through multiply.
LEMMA PowersMultiply ==
    ASSUME NEW f, NEW b \in Nat, NEW s \in Nat, NEW c, IsModulus(c), Turns(f, s, b, c)
    PROVE  \A i \in 0..b : \A j \in 1..b : i + j <= b => f[i + j] = (f[i] * f[j]) % c
<1> SUFFICES ASSUME NEW i \in 0..b
             PROVE  \A j \in 1..b : i + j <= b => f[i + j] = (f[i] * f[j]) % c
  OBVIOUS
<1> /\ \A h \in 0..b : f[h] \in Nat
    /\ f[0] = 1 /\ \A h \in 1..b : f[h] = (f[h - 1] * s) % c
  BY DEF Turns
<1> c = 253
  BY DEF IsModulus
<1> DEFINE T == {j \in Nat : i + (j + 1) <= b => f[i + (j + 1)] = (f[i] * f[j + 1]) % 253}
<1>1. 0 \in T
  <2> SUFFICES ASSUME i + 1 <= b PROVE f[i + 1] = (f[i] * f[1]) % 253
    OBVIOUS
  <2>1. f[i] \in Nat /\ 1 \in 1..b /\ 1 \in 0..b /\ i + 1 \in 1..b /\ (i + 1) - 1 = i
    OBVIOUS
  <2>2. f[1] = (1 * s) % 253 /\ f[i + 1] = (f[i] * s) % 253
    BY <2>1
  <2>3. f[1] = s % 253
    BY <2>2
  <2>4. (f[i] * s) % 253 = (f[i] * (s % 253)) % 253
    BY <2>1, LeftRemainder
  <2> QED
    BY <2>2, <2>3, <2>4
<1>2. ASSUME NEW j \in T PROVE j + 1 \in T
  <2> j \in Nat
    OBVIOUS
  <2> SUFFICES ASSUME i + (j + 2) <= b
               PROVE  f[i + (j + 2)] = (f[i] * f[j + 2]) % 253
    OBVIOUS
  <2>1. /\ f[i] \in Nat /\ j + 1 \in 1..b /\ j + 2 \in 1..b /\ i + (j + 2) \in 1..b
        /\ (j + 2) - 1 = j + 1 /\ (i + (j + 2)) - 1 = i + (j + 1) /\ j + 1 \in 0..b
        /\ i + (j + 1) <= b
    OBVIOUS
  <2>2. PICK x \in Nat : x = f[i]
    BY <2>1
  <2>3. PICK y \in Nat : y = f[j + 1]
    BY <2>1
  <2>4. f[i + (j + 1)] = (x * y) % 253
    BY <2>1, <2>2, <2>3
  <2>5. f[i + (j + 2)] = (((x * y) % 253) * s) % 253
    BY <2>1, <2>4
  <2>6. f[j + 2] = (y * s) % 253
    BY <2>1, <2>3
  <2>7. (((x * y) % 253) * s) % 253 = (x * ((y * s) % 253)) % 253
    BY Associative
  <2> QED
    BY <2>2, <2>5, <2>6, <2>7
<1>3. T = Nat
  <2> HIDE DEF T
  <2>1. T \in SUBSET Nat
    BY DEF T
  <2> QED
    BY <1>1, <1>2, <2>1, SetInduction
<1>4. ASSUME NEW j \in 1..b, i + j <= b PROVE f[i + j] = (f[i] * f[j]) % 253
  <2>1. j - 1 \in Nat /\ (j - 1) + 1 = j
    OBVIOUS
  <2>2. j - 1 \in T
    BY <1>3, <2>1
  <2> QED
    BY <1>4, <2>1, <2>2
<1> QED
  BY <1>4

\* Powers modulo r.
Times(x, y, r) == (x * y) % r
Square(x, r)   == Times(x, x, r)
Cube(x, r)     == Times(Square(x, r), x, r)
Fourth(x, r)   == Square(Square(x, r), r)
To147(x, r)    ==
    LET to16  == Fourth(Fourth(x, r), r)
        to128 == Square(Fourth(to16, r), r)
    IN  Times(Times(Times(to128, to16, r), Square(x, r), r), x, r)

\* The remainder, by a factor of 253, of a product modulo 253.
LEMMA TimesByFactor ==
    ASSUME NEW x \in Nat, NEW y \in Nat, NEW r \in {11, 23}
    PROVE  Rest(Times(x, y, 253), r) = Times(Rest(x, r), Rest(y, r), r)
<1>1. x * y \in Nat
  OBVIOUS
<1>2. ((x * y) % 253) % r = (x * y) % r
  BY <1>1, FactorRemainder
<1>3. CASE r = 11
  <2>1. 11 \in {11, 23, 253}
    OBVIOUS
  <2>2. (x * y) % 11 = ((x % 11) * (y % 11)) % 11
    BY <2>1, ProductRemainder
  <2> QED
    BY <1>2, <1>3, <2>2, Zenon DEF Times, Rest
<1>4. CASE r = 23
  <2>1. 23 \in {11, 23, 253}
    OBVIOUS
  <2>2. (x * y) % 23 = ((x % 23) * (y % 23)) % 23
    BY <2>1, ProductRemainder
  <2> QED
    BY <1>2, <1>4, <2>2, Zenon DEF Times, Rest
<1> QED
  BY <1>3, <1>4

\* 3 and 147 are inverse to each other as exponents, modulo 11 and modulo 23.
LEMMA ExponentsInverse ==
    ASSUME NEW r \in {11, 23}, NEW u \in 0..(r - 1)
    PROVE  To147(Cube(u, r), r) = u
<1>1. \A v \in 0..10 : To147(Cube(v, 11), 11) = v
  BY DEF To147, Fourth, Cube, Square, Times
<1>2. \A v \in 0..22 : To147(Cube(v, 23), 23) = v
  BY DEF To147, Fourth, Cube, Square, Times
<1>3. CASE r = 11
  BY <1>1, <1>3
<1>4. CASE r = 23
  BY <1>2, <1>4
<1> QED
  BY <1>3, <1>4

\* A letter's remainder when it is encrypted.
LEMMA Encrypted ==
    ASSUME NEW m \in 0..127
    PROVE  /\ encrypt(m) = (((m * m) * m) % 253) /\ encrypt(m) \in 0..252
           /\ \A r \in {11, 23} : Rest(encrypt(m), r) = Cube(Rest(m, r), r)
<1>1. m \in Nat /\ m * m \in Nat /\ 3 \in Nat
  OBVIOUS
<1>2. Power(m, 3) = (m * m) * m
  <2>1. PICK f : f[0] = 1 /\ (\A i \in 1..3 : f[i] = f[i - 1] * m) /\ Power(m, 3) = f[3]
    BY <1>1, PowerRun
  <2>2. f[1] = f[0] * m /\ f[2] = f[1] * m /\ f[3] = f[2] * m
    BY <2>1
  <2>3. f[1] = m
    BY <2>1, <2>2
  <2>4. f[2] = m * m
    BY <2>2, <2>3
  <2> QED
    BY <2>1, <2>2, <2>4
<1>3. encrypt(m) = (((m * m) * m) % 253)
  BY <1>2, Keys DEF encrypt
<1>4. encrypt(m) \in 0..252
  <2>1. (m * m) * m \in Nat
    BY <1>1
  <2> QED
    BY <1>3, <2>1
<1>5. ASSUME NEW r \in {11, 23} PROVE Rest(encrypt(m), r) = Cube(Rest(m, r), r)
  <2>1. PICK x \in Nat : x = m * m /\ Rest(x, r) = Square(Rest(m, r), r)
    <3>1. Rest(m * m, r) = Rest(Rest(m * m, 253), r)
      BY <1>1, FactorRemainder DEF Rest
    <3>2. Rest(m * m, 253) = Times(m, m, 253)
      BY DEF Rest, Times
    <3> QED
      BY <1>1, <3>1, <3>2, TimesByFactor DEF Square
  <2>2. encrypt(m) = Times(x, m, 253)
    BY <1>3, <2>1 DEF Times
  <2> QED
    BY <1>1, <2>1, <2>2, TimesByFactor DEF Cube
<1> QED
  BY <1>3, <1>4, <1>5

\* What PowerMod() goes through when it decrypts s: numbers that multiply as
\* powers do.
LEMMA Powers ==
    ASSUME NEW s \in Nat, NEW b \in Nat \ {0}, NEW c \in Nat \ {0}, IsModulus(c)
    PROVE  \E f : /\ \A i \in 0..b : f[i] \in Nat
                  /\ f[1] = s % c /\ PowerMod(s, b, c) = f[b]
                  /\ \A i \in 0..b : \A j \in 1..b : i + j <= b => f[i + j] = (f[i] * f[j]) % c
<1>1. PICK f : Turns(f, s, b, c) /\ PowerMod(s, b, c) = f[b]
  BY PowerModRun
<1>2. \A i \in 0..b : \A j \in 1..b : i + j <= b => f[i + j] = (f[i] * f[j]) % c
  BY <1>1, PowersMultiply
<1>3. f[1] = s % c
  <2>1. 1 \in 1..b /\ 1 - 1 = 0
    OBVIOUS
  <2>2. f[1] = (1 * s) % c
    BY <1>1, <2>1 DEF Turns
  <2> QED
    BY <2>2
<1> QED
  BY <1>1, <1>2, <1>3, Zenon DEF Turns

\* The values up to the 147th, and that they multiply as powers do.
Numbers(f)    == \A i \in 0..147 : f[i] \in Nat
Adds(h, i, j) == h \in 1..147 /\ i \in 1..147 /\ j \in 1..147 /\ h = i + j
Multiplies(f) == \A h, i, j : Adds(h, i, j) => f[h] = Times(f[i], f[j], 253)

\* The same for d and n as they are.
LEMMA Powers147 ==
    ASSUME NEW s \in 0..252
    PROVE  \E f : /\ Numbers(f) /\ Multiplies(f)
                  /\ f[1] = s /\ f[147] = PowerMod(s, 147, 253)
<1>1. PICK b \in Nat \ {0}, c \in Nat \ {0} : b = 147 /\ c = 253
  OBVIOUS
<1>2. s \in Nat /\ IsModulus(c)
  BY <1>1 DEF IsModulus
<1>3. PICK f : /\ \A i \in 0..b : f[i] \in Nat
               /\ f[1] = s % c /\ PowerMod(s, b, c) = f[b]
               /\ \A i \in 0..b : \A j \in 1..b : i + j <= b => f[i + j] = (f[i] * f[j]) % c
  BY <1>2, Powers
<1>4. f[1] = s
  <2>1. s % 253 = s
    OBVIOUS
  <2> QED
    BY <1>1, <1>3, <2>1, Zenon
<1>5. Numbers(f)
  BY <1>1, <1>3 DEF Numbers
<1>6. ASSUME NEW h, NEW i, NEW j, Adds(h, i, j) PROVE f[h] = Times(f[i], f[j], 253)
  <2>1. i \in 0..b /\ j \in 1..b /\ i + j <= b /\ h = i + j
    BY <1>1, <1>6 DEF Adds
  <2>2. f[i + j] = (f[i] * f[j]) % c
    BY <1>3, <2>1
  <2> QED
    BY <1>1, <2>1, <2>2 DEF Times
<1>7. f[147] = PowerMod(s, 147, 253)
  BY <1>1, <1>3
<1> QED
  BY <1>4, <1>5, <1>6, <1>7 DEF Multiplies

\* Exponentiation with d modulo n undoes exponentiation with e.
LEMMA Decrypts ==
    ASSUME NEW m \in 0..127
    PROVE  PowerMod(encrypt(m), d, n) = m
<1>1. PICK s \in 0..252 : s = encrypt(m)
  BY Encrypted
<1>2. PICK f : /\ Numbers(f) /\ Multiplies(f)
               /\ f[1] = s /\ f[147] = PowerMod(s, 147, 253)
  BY Powers147
<1>3. /\ f[2] = Times(f[1], f[1], 253) /\ f[4] = Times(f[2], f[2], 253)
      /\ f[8] = Times(f[4], f[4], 253) /\ f[16] = Times(f[8], f[8], 253)
      /\ f[32] = Times(f[16], f[16], 253) /\ f[64] = Times(f[32], f[32], 253)
      /\ f[128] = Times(f[64], f[64], 253) /\ f[144] = Times(f[128], f[16], 253)
      /\ f[146] = Times(f[144], f[2], 253) /\ f[147] = Times(f[146], f[1], 253)
  <2>1. /\ Adds(2, 1, 1) /\ Adds(4, 2, 2) /\ Adds(8, 4, 4) /\ Adds(16, 8, 8)
        /\ Adds(32, 16, 16) /\ Adds(64, 32, 32) /\ Adds(128, 64, 64)
        /\ Adds(144, 128, 16) /\ Adds(146, 144, 2) /\ Adds(147, 146, 1)
    BY DEF Adds
  <2> QED
    BY <1>2, <2>1 DEF Multiplies
<1>4. /\ f[1] \in Nat /\ f[2] \in Nat /\ f[4] \in Nat /\ f[8] \in Nat /\ f[16] \in Nat
      /\ f[32] \in Nat /\ f[64] \in Nat /\ f[128] \in Nat /\ f[144] \in Nat
      /\ f[146] \in Nat
  BY <1>2 DEF Numbers
<1>5. ASSUME NEW r \in {11, 23} PROVE Rest(f[147], r) = Rest(m, r)
  <2>1. /\ Rest(f[2], r) = Square(Rest(s, r), r) /\ Rest(f[4], r) = Square(Rest(f[2], r), r)
        /\ Rest(f[8], r) = Square(Rest(f[4], r), r)
        /\ Rest(f[16], r) = Square(Rest(f[8], r), r)
        /\ Rest(f[32], r) = Square(Rest(f[16], r), r)
        /\ Rest(f[64], r) = Square(Rest(f[32], r), r)
        /\ Rest(f[128], r) = Square(Rest(f[64], r), r)
    BY <1>2, <1>3, <1>4, TimesByFactor DEF Square
  <2>2. /\ Rest(f[144], r) = Times(Rest(f[128], r), Rest(f[16], r), r)
        /\ Rest(f[146], r) = Times(Rest(f[144], r), Rest(f[2], r), r)
        /\ Rest(f[147], r) = Times(Rest(f[146], r), Rest(s, r), r)
    BY <1>2, <1>3, <1>4, TimesByFactor
  <2>3. Rest(f[147], r) = To147(Rest(s, r), r)
    BY <2>1, <2>2 DEF To147, Fourth
  <2>4. Rest(s, r) = Cube(Rest(m, r), r)
    BY <1>1, Encrypted
  <2>5. Rest(m, r) \in 0..(r - 1)
    BY DEF Rest
  <2> QED
    BY <2>3, <2>4, <2>5, ExponentsInverse
<1>6. f[147] \in 0..252
  <2>1. PICK x \in Nat, y \in Nat : x = f[146] /\ y = f[1]
    BY <1>4
  <2>2. f[147] = Times(x, y, 253)
    BY <1>3, <2>1
  <2>3. x * y \in Nat /\ f[147] = (x * y) % 253
    BY <2>2 DEF Times
  <2> QED
    BY <2>3
<1>7. f[147] = m
  <2>1. f[147] % 11 = m % 11 /\ f[147] % 23 = m % 23 /\ m \in 0..252
    BY <1>5 DEF Rest
  <2> QED
    BY <1>6, <2>1, SameRemainders
<1> QED
  BY <1>1, <1>2, <1>7, Keys

-----------------------------------------------------------------------------
(* The programs *)

\* What a client sends is the encryption of what it wanted to send.
LetterInv ==
    /\ letter \in [Clients -> 0..127]
    /\ sendBuf = [c \in Clients |-> encrypt(letter[c])]

\* At the start that is 0, which encrypts to 0.
LEMMA LetterInit == Init => LetterInv
<1> SUFFICES ASSUME Init PROVE LetterInv
    OBVIOUS
<1>1. letter = [c \in Clients |-> 0] /\ sendBuf = [c \in Clients |-> 0]
  BY DEF Init
<1>2. encrypt(0) = 0
  <2>1. encrypt(0) = (((0 * 0) * 0) % 253)
    BY Encrypted
  <2> QED
    BY <2>1
<1>3. letter \in [Clients -> 0..127]
  BY <1>1
<1>4. sendBuf = [c \in Clients |-> encrypt(letter[c])]
  BY <1>1, <1>2
<1> QED
  BY <1>3, <1>4 DEF LetterInv

\* Only Loop sets either, and it sets both.
LEMMA LetterStep == LetterInv /\ [Next]_vars => LetterInv'
<1> SUFFICES ASSUME LetterInv, [Next]_vars PROVE LetterInv'
    OBVIOUS
<1>1. CASE UNCHANGED <<letter, sendBuf>>
  BY <1>1 DEF LetterInv
<1>2. ASSUME NEW c \in Clients, NEW m \in Letters,
             letter' = [letter EXCEPT ![c] = m],
             sendBuf' = [sendBuf EXCEPT ![c] = encrypt(m)]
      PROVE  LetterInv'
  <2>1. letter' \in [Clients -> 0..127]
    BY <1>2, RsaAssumption DEF LetterInv
  <2>2. sendBuf' = [x \in Clients |-> encrypt(letter'[x])]
    BY <1>2 DEF LetterInv
  <2> QED
    BY <2>1, <2>2 DEF LetterInv
<1>3. ASSUME NEW c \in Clients, Loop(c) PROVE LetterInv'
  BY <1>1, <1>2, <1>3 DEF Loop
<1>4. ASSUME NEW c \in Clients,
             \/ Start(c) \/ Bind(c) \/ Create(c) \/ Send(c) \/ Join(c) \/ RecvBind(c)
             \/ RecvLoop(c) \/ Interrupt(c)
      PROVE  UNCHANGED <<letter, sendBuf>>
  BY <1>4 DEF Start, Bind, Create, Send, Join, RecvBind, RecvLoop, Interrupt
<1>5. CASE UNCHANGED vars
  BY <1>1, <1>5 DEF vars
<1> QED
  BY <1>1, <1>3, <1>4, <1>5 DEF Next, MainStep, RecvStep

\* The two keys belong together, whatever is sent (client1.cpp:79-103, 212-217).
THEOREM KeysFitAlways == Spec => []KeysFit
<1>1. LetterInv => KeysFit
  <2> SUFFICES ASSUME LetterInv, NEW c \in Clients
               PROVE  PowerMod(sendBuf[c], d, n) = letter[c]
      BY DEF KeysFit
  <2>1. letter[c] \in 0..127 /\ sendBuf[c] = encrypt(letter[c])
    BY DEF LetterInv
  <2> QED
    BY <2>1, Decrypts
<1> QED
  BY <1>1, LetterInit, LetterStep, PTL DEF Spec

\* The remainder of the greatest int.
LEMMA Greatest == INT_MAX % 253 = 166
BY SMT DEF INT_MAX

\* The remainder of the least int.
LEMMA Least == (-INT_MAX - 1) % 253 = 86
<1>1. \A a \in Int : \A w \in 0..252 : (253 * a + w) % 253 = w
  BY SMT
<1>2. PICK a \in Int, w \in 0..252 : a = -8488078 /\ w = 86
  BY SMT
<1>3. PICK x \in Int : x = 253 * a + w
  BY SMT
<1>4. x = -INT_MAX - 1
  BY <1>2, <1>3, SMT DEF INT_MAX
<1>5. (253 * a + w) % 253 = w
  BY <1>1, SMT
<1>6. x % 253 = 86
  BY <1>2, <1>3, <1>5, SMT
<1> QED
  BY <1>4, <1>6, SMT

\* decrypt() gives no letter back (client1.cpp:205-210).
LEMMA NotBack ==
    ASSUME NEW m \in 0..127
    PROVE  m \notin decrypt(encrypt(m))
<1>1. CASE Fits(encrypt(m), d)
  <2>1. decrypt(encrypt(m)) = {Char(PowerMod(encrypt(m), d, n) + 48)}
    BY <1>1 DEF decrypt
  <2>2. decrypt(encrypt(m)) = {Char(m + 48)}
    BY <2>1, Decrypts
  <2>3. Char(m + 48) # m
    BY DEF Char
  <2> QED
    BY <2>2, <2>3
<1>2. CASE ~Fits(encrypt(m), d)
  <2>1. decrypt(encrypt(m)) = {Char((INT_MAX % n) + 48), Char(((-INT_MAX - 1) % n) - n + 48)}
    BY <1>2 DEF decrypt
  <2>2. Char((INT_MAX % n) + 48) = -42
    BY Keys, Greatest, SMT DEF Char
  <2>3. Char(((-INT_MAX - 1) % n) - n + 48) = -119
    BY Keys, Least, SMT DEF Char
  <2> QED
    BY <2>1, <2>2, <2>3
<1> QED
  BY <1>1, <1>2

\* The power overflows, and the digit's offset is added to what is a character
\* already.
Garbled == \A c \in Clients : letter[c] # 0 => letter[c] \notin decrypt(sendBuf[c])

\* By its comment decrypt() computes "m = C^d mod(n)".  By KeysFitAlways that would
\* be the letter; it never is (client1.cpp:205-210).
THEOREM GarbledAlways == Spec => []Garbled
<1>1. LetterInv => Garbled
  <2> SUFFICES ASSUME LetterInv, NEW c \in Clients
               PROVE  letter[c] \notin decrypt(sendBuf[c])
      BY DEF Garbled
  <2>1. letter[c] \in 0..127 /\ sendBuf[c] = encrypt(letter[c])
    BY DEF LetterInv
  <2> QED
    BY <2>1, NotBack
<1> QED
  BY <1>1, LetterInit, LetterStep, PTL DEF Spec

-----------------------------------------------------------------------------
(* The ports *)

RsaTypes ==
    /\ main \in [Clients -> Idle \cup {"bind", "create", "loop", "send", "join"}]
    /\ recv \in [Clients -> {"none", "bind", "loop", "done"}]
    /\ is_running \in [Clients -> BOOLEAN]
    /\ bound \in [Ports -> 0..2]

\* Which thread holds which port: the receive thread the source's until the
\* process ends, main the destination's until it was told to leave.
RsaPorts ==
    \A c \in Clients :
        /\ main[c] \in {"create", "loop", "send"} => bound[destPort[c]] = c
        /\ recv[c] = "loop" => bound[srcPort[c]] = c
        /\ main[c] = "join" => ~is_running[c]
        /\ main[c] \in {"start", "bind", "create"} => recv[c] = "none"
        /\ main[c] \in {"ended", "failed"} => recv[c] = "done"

RsaInv == RsaTypes /\ RsaPorts

\* Every step keeps the types.
LEMMA RsaTypesStep == RsaTypes /\ [Next]_vars => RsaTypes'
<1> SUFFICES ASSUME RsaTypes, [Next]_vars PROVE RsaTypes'
    OBVIOUS
<1> USE DEF RsaTypes, At, Idle, Clients
<1>1. ASSUME NEW c \in Clients, Start(c) \/ Create(c) \/ RecvLoop(c) PROVE RsaTypes'
  BY <1>1 DEF Start, Create, RecvLoop
<1>2. ASSUME NEW c \in Clients, NEW how \in {"ended", "failed"}, End(c, how),
             is_running' = is_running
      PROVE  RsaTypes'
  BY <1>2 DEF End
<1>3. ASSUME NEW c \in Clients, Bind(c) PROVE RsaTypes'
  <2>1. is_running' = is_running
    BY <1>3 DEF Bind
  <2>2. CASE End(c, "failed")
    BY <1>2, <2>1, <2>2
  <2>3. CASE At(c, "create") /\ recv' = recv /\ bound' = [bound EXCEPT ![destPort[c]] = c]
    <3>1. PICK v \in 0..2 : \E x : bound' = [bound EXCEPT ![x] = v]
      <4>1. c \in 0..2
        OBVIOUS
      <4> QED
        BY <2>3, <4>1
    <3>2. bound' \in [Ports -> 0..2]
      BY <3>1
    <3> QED
      BY <2>1, <2>3, <3>2
  <2> QED
    BY <1>3, <2>2, <2>3 DEF Bind
<1>4. ASSUME NEW c \in Clients, RecvBind(c) PROVE RsaTypes'
  <2>1. is_running' = is_running
    BY <1>4 DEF RecvBind
  <2>2. CASE End(c, "failed")
    BY <1>2, <2>1, <2>2
  <2>3. CASE /\ recv' = [recv EXCEPT ![c] = "loop"] /\ main' = main
             /\ bound' = [bound EXCEPT ![srcPort[c]] = c]
    <3>1. PICK v \in 0..2 : \E x : bound' = [bound EXCEPT ![x] = v]
      <4>1. c \in 0..2
        OBVIOUS
      <4> QED
        BY <2>3, <4>1
    <3>2. bound' \in [Ports -> 0..2]
      BY <3>1
    <3> QED
      BY <2>1, <2>3, <3>2
  <2> QED
    BY <1>4, <2>2, <2>3 DEF RecvBind
<1>5. ASSUME NEW c \in Clients, Loop(c) PROVE RsaTypes'
  <2>1. UNCHANGED <<recv, is_running>>
    BY <1>5 DEF Loop
  <2>2. \/ bound' = bound /\ At(c, "send")
        \/ bound' = [bound EXCEPT ![destPort[c]] = 0] /\ At(c, "join")
    BY <1>5 DEF Loop
  <2> QED
    BY <2>1, <2>2
<1>6. ASSUME NEW c \in Clients, Send(c) \/ Join(c) PROVE RsaTypes'
  BY <1>2, <1>6 DEF Send, Join
<1>7. ASSUME NEW c \in Clients, Interrupt(c) PROVE RsaTypes'
  BY <1>7 DEF Interrupt
<1>8. CASE UNCHANGED vars
  BY <1>8 DEF vars
<1> QED
  BY <1>1, <1>3, <1>4, <1>5, <1>6, <1>7, <1>8 DEF Next, MainStep, RecvStep

\* A port that somebody holds is not taken from him.
LEMMA RsaPortsStep == RsaInv /\ [Next]_vars => RsaPorts'
<1> SUFFICES ASSUME RsaTypes, RsaPorts, [Next]_vars PROVE RsaPorts'
    BY DEF RsaInv
<1> USE DEF RsaTypes, RsaPorts, At, Idle, Clients, Ports, destPort, srcPort
<1>1. ASSUME NEW c \in Clients, Start(c) \/ Create(c) \/ RecvLoop(c) PROVE RsaPorts'
  BY <1>1 DEF Start, Create, RecvLoop
<1>2. ASSUME NEW c \in Clients, NEW how \in {"ended", "failed"}, End(c, how),
             is_running' = is_running
      PROVE  RsaPorts'
  BY <1>2 DEF End
<1>3. ASSUME NEW c \in Clients, Bind(c) PROVE RsaPorts'
  <2>1. is_running' = is_running /\ main[c] = "bind"
    BY <1>3 DEF Bind
  <2>2. CASE End(c, "failed")
    BY <1>2, <2>1, <2>2
  <2>3. CASE /\ At(c, "create") /\ recv' = recv /\ bound[destPort[c]] = 0
             /\ bound' = [bound EXCEPT ![destPort[c]] = c]
    BY <2>1, <2>3
  <2> QED
    BY <1>3, <2>2, <2>3 DEF Bind
<1>4. ASSUME NEW c \in Clients, RecvBind(c) PROVE RsaPorts'
  <2>1. is_running' = is_running /\ recv[c] = "bind"
    BY <1>4 DEF RecvBind
  <2>2. CASE End(c, "failed")
    BY <1>2, <2>1, <2>2
  <2>3. CASE /\ recv' = [recv EXCEPT ![c] = "loop"] /\ main' = main
             /\ bound[srcPort[c]] = 0 /\ bound' = [bound EXCEPT ![srcPort[c]] = c]
    BY <2>1, <2>3
  <2> QED
    BY <1>4, <2>2, <2>3 DEF RecvBind
<1>5. ASSUME NEW c \in Clients, Loop(c) PROVE RsaPorts'
  <2>1. UNCHANGED <<recv, is_running>> /\ main[c] = "loop"
    BY <1>5 DEF Loop
  <2>2. CASE bound' = bound /\ At(c, "send")
    BY <2>1, <2>2
  <2>3. CASE bound' = [bound EXCEPT ![destPort[c]] = 0] /\ At(c, "join") /\ ~is_running[c]
    BY <2>1, <2>3
  <2> QED
    BY <1>5, <2>2, <2>3 DEF Loop
<1>6. ASSUME NEW c \in Clients, Send(c) \/ Join(c) PROVE RsaPorts'
  BY <1>2, <1>6 DEF Send, Join
<1>7. ASSUME NEW c \in Clients, Interrupt(c) PROVE RsaPorts'
  BY <1>7 DEF Interrupt
<1>8. CASE UNCHANGED vars
  BY <1>8 DEF vars
<1> QED
  BY <1>1, <1>3, <1>4, <1>5, <1>6, <1>7, <1>8 DEF Next, MainStep, RecvStep

\* One of the two clients does not listen, or was told to leave.
NeverAPair == \E c \in Clients : recv[c] # "loop" \/ ~is_running[c]

\* By the head of its file a client "communicates with a second client".  Whatever
\* the two encrypt and in whatever order they run, they never both listen, as each
\* needs the port that the other holds (client1.cpp:1, 133-141, 242-248).
THEOREM NeverAPairAlways == Spec => []NeverAPair
<1>1. Init => RsaInv
  BY DEF Init, RsaInv, RsaTypes, RsaPorts, Idle, Clients, Ports
<1>2. RsaInv /\ [Next]_vars => RsaInv'
  BY RsaTypesStep, RsaPortsStep DEF RsaInv
<1>3. RsaInv => NeverAPair
  <2> SUFFICES ASSUME RsaTypes, RsaPorts, ~NeverAPair PROVE FALSE
      BY DEF RsaInv
  <2>1. \A c \in {1, 2} : recv[c] = "loop" /\ is_running[c]
    BY DEF NeverAPair, Clients
  <2>2. main[1] \in {"loop", "send"}
    BY <2>1 DEF RsaTypes, RsaPorts, Clients, Idle
  <2>3. bound[1155] = 1 /\ bound[1155] = 2
    BY <2>1, <2>2 DEF RsaPorts, Clients, destPort, srcPort
  <2> QED
    BY <2>3
<1> QED
  BY <1>1, <1>2, <1>3, PTL DEF Spec

-----------------------------------------------------------------------------
(* The monitors of lab3 *)

CONSTANT NUM

VARIABLES parent, i, childPid, monitor, handlers, isRunning, pending, written, started

Mon == INSTANCE Monitor

\* What makes a monitor write comes from a SIGUSR1 that the parent has sent.
StartInv ==
    \A m \in Mon!Monitors :
        (\/ "SIGUSR1" \in pending[m] \/ isRunning[m]
         \/ monitor[m] \in {"loop", "write"} \/ written[m])
            => started[m]

MonitorInv == Mon!TypeOK /\ StartInv

-----------------------------------------------------------------------------
\* Every step keeps the types.
LEMMA MonitorTypes ==
    ASSUME NUM \in Nat \ {0}
    PROVE  Mon!TypeOK /\ [Mon!Next]_(Mon!vars) => Mon!TypeOK'
<1> SUFFICES ASSUME Mon!TypeOK, [Mon!Next]_(Mon!vars) PROVE Mon!TypeOK'
    OBVIOUS
<1> USE DEF Mon!TypeOK, Mon!Monitors, Mon!Signals, Mon!Gone, Mon!sysmonExec, Mon!intfMonitor
<1>1. CASE Mon!Fork
  <2>1. i' \in 1..NUM /\ parent' \in {"fork", "start"}
    <3>1. parent' \in {"fork", "start"} /\ (i' = 1 \/ (i < NUM /\ i' = i + 1))
      BY <1>1 DEF Mon!Fork, Mon!Turn
    <3> QED
      BY <3>1
  <2>2. childPid' \in [Mon!Monitors -> -1..NUM]
    <3>1. i \in -1..NUM /\ -1 \in -1..NUM
      OBVIOUS
    <3>2. PICK v \in -1..NUM : childPid' = [childPid EXCEPT ![i] = v]
      BY <1>1, <3>1 DEF Mon!Fork
    <3> QED
      BY <3>2
  <2>3. monitor' \in [Mon!Monitors -> Mon!Gone \cup Mon!Signals
                                  \cup {"forked", "wait", "loop", "write"}]
    BY <1>1 DEF Mon!Fork
  <2> QED
    BY <1>1, <2>1, <2>2, <2>3 DEF Mon!Fork
<1>2. CASE Mon!Start
  BY <1>2 DEF Mon!Start, Mon!Turn, Mon!Kill, Mon!Targets
<1>3. CASE Mon!Stop
  BY <1>3 DEF Mon!Stop, Mon!Turn, Mon!Kill, Mon!Targets
<1>4. CASE Mon!Wait \/ Mon!Finish
  BY <1>4 DEF Mon!Wait, Mon!Finish
<1>5. CASE Mon!CtrlC
  BY <1>5 DEF Mon!CtrlC
<1>6. ASSUME NEW m \in Mon!Monitors,
             \/ Mon!Exec(m) \/ Mon!ExecFails(m) \/ Mon!AwaitStart(m)
             \/ Mon!Loop(m) \/ Mon!WriteStats(m)
      PROVE  Mon!TypeOK'
  BY <1>6 DEF Mon!Exec, Mon!ExecFails, Mon!AwaitStart, Mon!Loop, Mon!WriteStats
<1>7. ASSUME NEW m \in Mon!Monitors, Mon!Install(m) PROVE Mon!TypeOK'
  BY <1>7 DEF Mon!Install, Mon!Next3
<1>8. ASSUME NEW m \in Mon!Monitors, Mon!Deliver(m) PROVE Mon!TypeOK'
  <2>1. PICK sig \in pending[m] :
            /\ pending' = [pending EXCEPT ![m] = @ \ {sig}]
            /\ \/ isRunning' = isRunning
               \/ isRunning' = [isRunning EXCEPT ![m] = Mon!SetsRunning(m, sig)]
            /\ monitor' = monitor \/ monitor' = [monitor EXCEPT ![m] = "killed"]
    BY <1>8 DEF Mon!Deliver
  <2>2. Mon!SetsRunning(m, sig) \in BOOLEAN
    BY DEF Mon!SetsRunning
  <2>3. isRunning' \in [Mon!Monitors -> BOOLEAN]
    BY <2>1, <2>2
  <2>4. monitor' \in [Mon!Monitors -> Mon!Gone \cup Mon!Signals
                                  \cup {"forked", "wait", "loop", "write"}]
    BY <2>1
  <2>5. pending' \in [Mon!Monitors -> SUBSET Mon!Signals]
    BY <2>1
  <2> QED
    BY <1>8, <2>3, <2>4, <2>5 DEF Mon!Deliver
<1>9. CASE UNCHANGED Mon!vars
  BY <1>9 DEF Mon!vars
<1> QED
  BY <1>1, <1>2, <1>3, <1>4, <1>5, <1>6, <1>7, <1>8, <1>9
     DEF Mon!Next, Mon!ParentStep, Mon!MonitorStep

\* Only Start sends SIGUSR1, and it remembers to whom.
LEMMA StartStep == Mon!TypeOK /\ StartInv /\ [Mon!Next]_(Mon!vars) => StartInv'
<1> SUFFICES ASSUME Mon!TypeOK, StartInv, [Mon!Next]_(Mon!vars) PROVE StartInv'
    OBVIOUS
<1> USE DEF Mon!TypeOK, StartInv, Mon!sysmonExec, Mon!intfMonitor
<1>1. CASE Mon!Fork
  BY <1>1 DEF Mon!Fork
<1>2. CASE Mon!Start
  BY <1>2 DEF Mon!Start, Mon!Kill
<1>3. CASE Mon!Stop
  BY <1>3 DEF Mon!Stop, Mon!Kill
<1>4. CASE Mon!Wait \/ Mon!Finish
  BY <1>4 DEF Mon!Wait, Mon!Finish
<1>5. CASE Mon!CtrlC
  BY <1>5 DEF Mon!CtrlC
<1>6. ASSUME NEW m \in Mon!Monitors,
             \/ Mon!Exec(m) \/ Mon!ExecFails(m) \/ Mon!AwaitStart(m)
             \/ Mon!Loop(m) \/ Mon!WriteStats(m)
      PROVE  StartInv'
  BY <1>6 DEF Mon!Exec, Mon!ExecFails, Mon!AwaitStart, Mon!Loop, Mon!WriteStats
<1>7. ASSUME NEW m \in Mon!Monitors, Mon!Install(m) PROVE StartInv'
  BY <1>7 DEF Mon!Install, Mon!Next3, Mon!Signals
<1>8. ASSUME NEW m \in Mon!Monitors, Mon!Deliver(m) PROVE StartInv'
  <2>1. PICK sig \in pending[m] :
            /\ pending' = [pending EXCEPT ![m] = @ \ {sig}]
            /\ \/ isRunning' = isRunning
               \/ isRunning' = [isRunning EXCEPT ![m] = Mon!SetsRunning(m, sig)]
            /\ monitor' = monitor \/ monitor' = [monitor EXCEPT ![m] = "killed"]
    BY <1>8 DEF Mon!Deliver
  <2>2. Mon!SetsRunning(m, sig) => sig = "SIGUSR1" \/ isRunning[m]
    BY DEF Mon!SetsRunning
  <2>3. \A o \in Mon!Monitors : isRunning'[o] => isRunning[o] \/ (o = m /\ sig = "SIGUSR1")
    <3>1. \A o \in Mon!Monitors : o # m => isRunning'[o] = isRunning[o]
      BY <2>1
    <3>2. isRunning'[m] = isRunning[m] \/ isRunning'[m] = Mon!SetsRunning(m, sig)
      BY <2>1
    <3> QED
      BY <2>2, <3>1, <3>2
  <2>4. \A o \in Mon!Monitors : /\ "SIGUSR1" \in pending'[o] => "SIGUSR1" \in pending[o]
                          /\ monitor'[o] \in {"loop", "write"} => monitor'[o] = monitor[o]
    BY <2>1
  <2>5. UNCHANGED <<written, started>>
    BY <1>8 DEF Mon!Deliver
  <2>6. ASSUME NEW o \in Mon!Monitors,
               \/ "SIGUSR1" \in pending'[o] \/ isRunning'[o]
               \/ monitor'[o] \in {"loop", "write"} \/ written'[o]
        PROVE  started[o]
    BY <2>1, <2>3, <2>4, <2>5, <2>6
  <2> QED
    BY <2>5, <2>6
<1>9. CASE UNCHANGED Mon!vars
  BY <1>9 DEF Mon!vars
<1> QED
  BY <1>1, <1>2, <1>3, <1>4, <1>5, <1>6, <1>7, <1>8, <1>9
     DEF Mon!Next, Mon!ParentStep, Mon!MonitorStep

-----------------------------------------------------------------------------
\* The inductive invariant: the types, and where SIGUSR1 comes from.
THEOREM MonitorInductive ==
    ASSUME NUM \in Nat \ {0}
    PROVE  Mon!Spec => []MonitorInv
<1>1. Mon!Init => MonitorInv
  BY DEF Mon!TypeOK, Mon!Init, MonitorInv, StartInv,
         Mon!Monitors, Mon!Gone, Mon!Signals
<1>2. MonitorInv /\ [Mon!Next]_(Mon!vars) => MonitorInv'
  BY MonitorTypes, StartStep DEF MonitorInv
<1> QED
  BY <1>1, <1>2, PTL DEF Mon!Spec

\* No monitor writes that the parent has not started, for any number of
\* monitors (intfMonitor.cpp:50-54).
THEOREM WritesWhenStartedAlways ==
    ASSUME NUM \in Nat \ {0}
    PROVE  Mon!Spec => []Mon!WritesWhenStarted
<1>1. MonitorInv => Mon!WritesWhenStarted
  BY DEF MonitorInv, StartInv, Mon!WritesWhenStarted
<1> QED
  BY MonitorInductive, <1>1, PTL

-----------------------------------------------------------------------------
(* The TCP server of lab5 *)

CONSTANTS MAX_CLIENTS, MaxWrites

VARIABLES sMain, reader, mutex, num_client, message, told, buf, end,
          cMain, cRecv, cRunning, accepted, up, down, sent

Tcp == INSTANCE TcpServer

Msg == Tcp!Clients \X Nat

TcpTypes ==
    /\ message \in Seq(Msg)
    /\ buf \in [Tcp!Clients -> Seq(Msg)] /\ up \in [Tcp!Clients -> Seq(Msg)]
    /\ sent \in [Tcp!Clients -> Nat] /\ end \in [Tcp!Clients -> Nat]
    /\ reader \in [Tcp!Clients -> {"none", "loop", "read", "lock", "push", "done"}]

\* A receive thread has something in hand only between its read() and its push.
TcpHands ==
    \A c \in Tcp!Clients : /\ reader[c] \notin {"lock", "push"} => buf[c] = <<>>
                           /\ reader[c] # "none" => c \in accepted

\* Who is in a section under the mutex holds it; the end of the queue that a
\* receive thread has found there is still the end.
TcpMutex ==
    /\ sMain = "print" => mutex = Tcp!MAIN
    /\ \A c \in Tcp!Clients : reader[c] = "push" => mutex = c /\ end[c] = Len(message)

TcpInv == TcpTypes /\ TcpHands /\ TcpMutex /\ Tcp!EachInOrder

\* What a run of messages is.
LEMMA RunIs ==
    ASSUME NEW c \in Tcp!Clients, NEW a \in Nat, NEW b \in Nat, a <= b
    PROVE  /\ Tcp!Run(c, a, b) \in Seq(Msg) /\ Len(Tcp!Run(c, a, b)) = b - a
           /\ \A j \in 1..(b - a) : Tcp!Run(c, a, b)[j] = <<c, a + j>>
<1>1. b - a \in Nat
  OBVIOUS
<1>2. \A j \in 1..(b - a) : <<c, a + j>> \in Msg
  BY DEF Msg
<1> QED
  BY <1>1, <1>2 DEF Tcp!Run

\* An empty run ends where it begins.
LEMMA RunEmpty ==
    ASSUME NEW c \in Tcp!Clients, NEW a \in Nat, NEW b \in Nat, a <= b
    PROVE  Tcp!Run(c, a, b) = <<>> <=> a = b
<1>1. Len(Tcp!Run(c, a, b)) = b - a /\ Tcp!Run(c, a, b) \in Seq(Msg)
  BY RunIs
<1>2. Tcp!Run(c, a, b) = <<>> <=> Len(Tcp!Run(c, a, b)) = 0
  BY <1>1
<1> QED
  BY <1>1, <1>2

\* A run is prolonged by the next message.
LEMMA RunOn ==
    ASSUME NEW c \in Tcp!Clients, NEW a \in Nat, NEW b \in Nat, a <= b
    PROVE  Append(Tcp!Run(c, a, b), <<c, b + 1>>) = Tcp!Run(c, a, b + 1)
<1> DEFINE r == Tcp!Run(c, a, b)
           t == Tcp!Run(c, a, b + 1)
<1>1. /\ r \in Seq(Msg) /\ Len(r) = b - a
      /\ \A j \in 1..(b - a) : r[j] = <<c, a + j>>
  BY RunIs
<1>2. /\ t \in Seq(Msg) /\ Len(t) = (b + 1) - a
      /\ \A j \in 1..((b + 1) - a) : t[j] = <<c, a + j>>
  <2>1. b + 1 \in Nat /\ a <= b + 1
    OBVIOUS
  <2> QED
    BY <2>1, RunIs
<1>3. <<c, b + 1>> \in Msg
  BY DEF Msg
<1> HIDE DEF r, t
<1> DEFINE u == Append(r, <<c, b + 1>>)
<1>4. u \in Seq(Msg) /\ Len(u) = (b + 1) - a
  BY <1>1, <1>3
<1>5. ASSUME NEW j \in 1..((b + 1) - a) PROVE u[j] = <<c, a + j>>
  <2>1. CASE j \in 1..(b - a)
    <3>1. u[j] = r[j]
      BY <1>1, <1>3, <2>1
    <3> QED
      BY <1>1, <2>1, <3>1
  <2>2. CASE j = (b - a) + 1
    <3>1. j = Len(r) + 1 /\ Len(r) \in Nat
      BY <1>1, <2>2
    <3>2. u[j] = <<c, b + 1>>
      BY <1>1, <1>3, <3>1
    <3>3. a + j = b + 1
      BY <2>2
    <3> QED
      BY <3>2, <3>3
  <2>3. j \in 1..(b - a) \/ j = (b - a) + 1
    OBVIOUS
  <2> QED
    BY <2>1, <2>2, <2>3
<1>6. u = t
  <2>1. \A j \in 1..Len(u) : u[j] = t[j]
    BY <1>2, <1>4, <1>5
  <2> HIDE DEF u
  <2> QED
    BY <1>2, <1>4, <2>1, SeqEqual
<1> QED
  BY <1>6 DEF r, t

\* Messages of others at the end of the queue leave a client's where they are.
LEMMA QueuedOthers ==
    ASSUME message \in Seq(Msg), NEW s \in Seq(Msg), message' = message \o s,
           NEW c \in Tcp!Clients, NEW a \in Nat, \A j \in 1..Len(s) : s[j][1] # c,
           Tcp!Queued(c, a)
    PROVE  Tcp!Queued(c, a)'
<1>1. /\ Len(message') = Len(message) + Len(s) /\ Len(message) \in Nat /\ Len(s) \in Nat
      /\ \A x \in 1..Len(message) : message'[x] = message[x]
      /\ \A x \in (Len(message) + 1)..Len(message') : message'[x] = s[x - Len(message)]
  BY ConcatProperties
<1>2. \A x \in (Len(message) + 1)..Len(message') : x - Len(message) \in 1..Len(s)
  BY <1>1
<1>3. \A x \in (Len(message) + 1)..Len(message') : message'[x][1] # c
  BY <1>1, <1>2
<1>4. Tcp!Of(c)' = Tcp!Of(c)
  BY <1>1, <1>3 DEF Tcp!Of
<1>5. \A x \in Tcp!Of(c) : message'[x] = message[x]
  BY <1>1 DEF Tcp!Of
<1>6. {message'[x][2] : x \in Tcp!Of(c)'} = {message[x][2] : x \in Tcp!Of(c)}
  <2> DEFINE O == Tcp!Of(c)
  <2>1. Tcp!Of(c)' = O /\ \A x \in O : message'[x] = message[x]
    BY <1>4, <1>5
  <2> HIDE DEF O
  <2>2. {message'[x][2] : x \in O} = {message[x][2] : x \in O}
    <3>1. \A x \in O : message'[x][2] = message[x][2]
      BY <2>1
    <3> QED
      BY <3>1, Zenon
  <2> QED
    BY <2>1, <2>2 DEF O
<1>7. \A x, y \in Tcp!Of(c)' : x < y => message'[x][2] < message'[y][2]
  BY <1>4, <1>5 DEF Tcp!Queued
<1> QED
  BY <1>6, <1>7 DEF Tcp!Queued

\* The client's next messages at the end of the queue go on where it was.
LEMMA QueuedOn ==
    ASSUME message \in Seq(Msg), NEW c \in Tcp!Clients, NEW a \in Nat, NEW b \in Nat,
           a <= b, message' = message \o Tcp!Run(c, a, b), Tcp!Queued(c, a)
    PROVE  Tcp!Queued(c, b)'
<1> DEFINE s == Tcp!Run(c, a, b)
           L == Len(message)
           N == (L + 1)..(L + (b - a))
<1>1. /\ s \in Seq(Msg) /\ Len(s) = b - a /\ L \in Nat
      /\ \A j \in 1..(b - a) : s[j] = <<c, a + j>>
  <2>1. L \in Nat
    OBVIOUS
  <2> HIDE DEF L
  <2> QED
    BY <2>1, RunIs
<1>2. /\ Len(message') = L + (b - a)
      /\ \A x \in 1..L : message'[x] = message[x]
      /\ \A x \in N : message'[x] = s[x - L]
  <2> HIDE DEF s
  <2>1. message' = message \o s
    BY DEF s
  <2>2. /\ Len(message \o s) = L + Len(s)
        /\ \A x \in 1..(L + Len(s)) :
              (message \o s)[x] = IF x <= L THEN message[x] ELSE s[x - L]
    BY <1>1, ConcatProperties
  <2>3. Len(message') = L + (b - a)
    BY <1>1, <2>1, <2>2
  <2> HIDE DEF L
  <2>4. \A x \in 1..L : message'[x] = message[x]
    BY <1>1, <2>1, <2>2
  <2>5. \A x \in N : x \in 1..(L + Len(s)) /\ ~(x <= L)
    BY <1>1
  <2>6. \A x \in N : message'[x] = s[x - L]
    BY <2>1, <2>2, <2>5
  <2> QED
    BY <2>3, <2>4, <2>6
<1>3. \A x \in N : x - L \in 1..(b - a)
  BY <1>1
<1>4. \A x \in N : message'[x] = <<c, a + (x - L)>>
  BY <1>1, <1>2, <1>3
<1>5. Tcp!Of(c)' = Tcp!Of(c) \cup N
  BY <1>1, <1>2, <1>4 DEF Tcp!Of
<1>6. \A x \in Tcp!Of(c) : message'[x] = message[x] /\ x \in 1..L /\ message[x][2] \in 1..a
  BY <1>1, <1>2 DEF Tcp!Of, Tcp!Queued
<1>7. \A x \in N : message'[x][2] = a + (x - L)
  <2> SUFFICES ASSUME NEW x \in N PROVE message'[x][2] = a + (x - L)
      OBVIOUS
  <2>1. message'[x] = <<c, a + (x - L)>>
    BY <1>4
  <2> HIDE DEF N, L
  <2> QED
    BY <2>1
<1> DEFINE O == Tcp!Of(c)
           P == Tcp!Of(c)'
<1>10. P = O \cup N
  BY <1>5
<1>11. \A x \in O : /\ message'[x][2] = message[x][2] /\ x \in 1..L
                    /\ message[x][2] \in 1..a /\ message'[x][2] \in 1..a
  BY <1>6
<1>12. /\ \A j \in 1..a : \E x \in O : message[x][2] = j
       /\ \A x, y \in O : x < y => message[x][2] < message[y][2]
  BY DEF Tcp!Queued
<1> HIDE DEF s, O, P, L
<1>8. {message'[x][2] : x \in P} = 1..b
  <2>1. ASSUME NEW x \in P PROVE message'[x][2] \in 1..b
    <3>1. CASE x \in O
      <4>1. PICK v \in 1..a : message'[x][2] = v
        BY <1>11, <3>1
      <4>2. v \in 1..b
        OBVIOUS
      <4> QED
        BY <4>1, <4>2
    <3>2. CASE x \in N
      <4>1. message'[x][2] = a + (x - L)
        BY <1>7, <3>2
      <4>2. x - L \in 1..(b - a)
        BY <1>3, <3>2
      <4>3. a + (x - L) \in 1..b
        BY <4>2
      <4> QED
        BY <4>1, <4>3
    <3> QED
      BY <1>10, <3>1, <3>2
  <2>2. ASSUME NEW j \in 1..b PROVE \E x \in P : message'[x][2] = j
    <3>1. CASE j <= a
      <4>1. PICK x \in O : message[x][2] = j
        BY <1>12, <3>1
      <4> QED
        BY <1>10, <1>11, <4>1
    <3>2. CASE ~(j <= a)
      <4>1. L + (j - a) \in N /\ a + ((L + (j - a)) - L) = j
        BY <1>1, <3>2
      <4> QED
        BY <1>7, <1>10, <4>1
    <3> QED
      BY <3>1, <3>2
  <2> QED
    BY <2>1, <2>2
<1>9. ASSUME NEW x \in P, NEW y \in P, x < y
      PROVE  message'[x][2] < message'[y][2]
  <2>1. CASE x \in O /\ y \in O
    <3>1. message[x][2] < message[y][2]
      BY <1>9, <1>12, <2>1
    <3>2. message'[x][2] = message[x][2] /\ message'[y][2] = message[y][2]
      BY <1>11, <2>1
    <3> QED
      BY <3>1, <3>2, Zenon
  <2>2. CASE x \in O /\ y \in N
    <3>1. PICK v \in 1..a : message'[x][2] = v
      BY <1>11, <2>2
    <3>2. message'[y][2] = a + (y - L) /\ y - L \in 1..(b - a)
      BY <1>3, <1>7, <2>2
    <3>3. v < a + (y - L)
      BY <3>2
    <3> QED
      BY <3>1, <3>2, <3>3
  <2>3. CASE x \in N /\ y \in N
    <3>1. message'[x][2] = a + (x - L) /\ message'[y][2] = a + (y - L)
      BY <1>7, <2>3
    <3>2. a + (x - L) < a + (y - L)
      BY <1>1, <1>9, <2>3
    <3> QED
      BY <3>1, <3>2
  <2>4. CASE x \in N /\ y \in O
    <3>1. y \in 1..L
      BY <1>11, <2>4
    <3> QED
      BY <1>1, <1>9, <2>4, <3>1
  <2> QED
    BY <1>10, <1>9, <2>1, <2>2, <2>3, <2>4
<1> QED
  BY <1>8, <1>9 DEF Tcp!Queued, P

\* Under the mutex what is pushed follows all that is there.
LEMMA PushIsAppend ==
    ASSUME TcpTypes, TcpMutex, NEW c \in Tcp!Clients, Tcp!Push(c)
    PROVE  message' = message \o buf[c]
<1>1. end[c] = Len(message) /\ message' = SubSeq(message, 1, end[c]) \o buf[c]
  BY DEF Tcp!Push, TcpMutex
<1>2. message \in Seq(Msg)
  BY DEF TcpTypes
<1>3. SubSeq(message, 1, Len(message)) = message
  BY <1>2
<1> QED
  BY <1>1, <1>3

\* Every step keeps the types.
LEMMA TcpTypesStep == TcpTypes /\ TcpMutex /\ [Tcp!Next]_Tcp!vars => TcpTypes'
<1> SUFFICES ASSUME TcpTypes, TcpMutex, [Tcp!Next]_Tcp!vars PROVE TcpTypes'
    OBVIOUS
<1> USE DEF Tcp!server, Tcp!client, Tcp!streams
<1>1. CASE UNCHANGED <<message, buf, up, sent, end, reader>>
  BY <1>1 DEF TcpTypes
<1>2. CASE Tcp!While \/ Tcp!AcceptedAll \/ Tcp!PrintQueue \/ Tcp!Join \/ Tcp!Interrupt
  BY <1>1, <1>2 DEF Tcp!While, Tcp!AcceptedAll, Tcp!PrintQueue, Tcp!Join, Tcp!Interrupt
<1>3. ASSUME NEW c \in Tcp!Clients,
             \/ Tcp!Quit(c) \/ Tcp!ReadTimeout(c) \/ Tcp!Connect(c) \/ Tcp!Create(c)
             \/ Tcp!SetRunning(c) \/ Tcp!BrokenPipe(c) \/ Tcp!Leave(c) \/ Tcp!RecvLoop(c)
             \/ Tcp!RecvQuit(c) \/ Tcp!Kill(c)
      PROVE  TcpTypes'
  BY <1>1, <1>3 DEF Tcp!Quit, Tcp!ReadTimeout, Tcp!Connect, Tcp!Create, Tcp!SetRunning,
     Tcp!BrokenPipe, Tcp!Leave, Tcp!RecvLoop, Tcp!RecvQuit, Tcp!Kill
<1>4. ASSUME NEW c \in Tcp!Clients, Tcp!Accept(c) \/ Tcp!ReaderLoop(c) PROVE TcpTypes'
  <2>1. UNCHANGED <<message, buf, up, sent, end>>
    BY <1>4 DEF Tcp!Accept, Tcp!ReaderLoop
  <2>2. \E x \in {"loop", "read", "done"} : reader' = [reader EXCEPT ![c] = x]
    BY <1>4 DEF Tcp!Accept, Tcp!ReaderLoop
  <2> QED
    BY <2>1, <2>2 DEF TcpTypes
<1>5. ASSUME NEW c \in Tcp!Clients, Tcp!Read(c) PROVE TcpTypes'
  <2>1. UNCHANGED <<message, sent, end>> /\ reader' = [reader EXCEPT ![c] = "lock"]
    BY <1>5 DEF Tcp!Read
  <2>2. up[c] \in Seq(Msg) /\ <<>> \in Seq(Msg)
    BY DEF TcpTypes
  <2>3. buf' = [buf EXCEPT ![c] = up[c]] /\ up' = [up EXCEPT ![c] = <<>>]
    BY <1>5 DEF Tcp!Read
  <2> QED
    BY <2>1, <2>2, <2>3 DEF TcpTypes
<1>6. ASSUME NEW c \in Tcp!Clients, Tcp!Push(c) PROVE TcpTypes'
  <2>1. /\ UNCHANGED <<up, sent>> /\ reader' = [reader EXCEPT ![c] = "loop"]
        /\ end' = [end EXCEPT ![c] = 0] /\ buf' = [buf EXCEPT ![c] = <<>>]
    BY <1>6 DEF Tcp!Push
  <2>2. message \in Seq(Msg) /\ buf[c] \in Seq(Msg) /\ <<>> \in Seq(Msg)
    BY DEF TcpTypes
  <2>3. message' = message \o buf[c]
    BY <1>6, PushIsAppend
  <2>4. message' \in Seq(Msg)
    BY <2>2, <2>3
  <2> QED
    BY <2>1, <2>2, <2>4 DEF TcpTypes
<1>l. ASSUME NEW c \in Tcp!Clients, Tcp!Lock(c) PROVE TcpTypes'
  <2>1. /\ UNCHANGED <<message, buf, up, sent>> /\ reader' = [reader EXCEPT ![c] = "push"]
        /\ end' = [end EXCEPT ![c] = Len(message)]
    BY <1>l DEF Tcp!Lock
  <2>2. Len(message) \in Nat
    BY DEF TcpTypes
  <2> QED
    BY <2>1, <2>2 DEF TcpTypes
<1>7. ASSUME NEW c \in Tcp!Clients, Tcp!Write(c) PROVE TcpTypes'
  <2>1. UNCHANGED <<message, buf, end, reader>>
    BY <1>7 DEF Tcp!Write
  <2>2. sent' = [sent EXCEPT ![c] = @ + 1]
    BY <1>7 DEF Tcp!Write
  <2>3. sent' \in [Tcp!Clients -> Nat]
    BY <2>2 DEF TcpTypes
  <2>4. PICK m \in Msg : up' = [up EXCEPT ![c] = Append(up[c], m)]
    <3>1. <<c, sent'[c]>> \in Msg
      BY <2>3 DEF Msg
    <3> QED
      BY <1>7, <3>1 DEF Tcp!Write
  <2>5. Append(up[c], m) \in Seq(Msg)
    BY DEF TcpTypes
  <2>6. up' \in [Tcp!Clients -> Seq(Msg)]
    BY <2>4, <2>5 DEF TcpTypes
  <2> QED
    BY <2>1, <2>3, <2>6 DEF TcpTypes
<1>8. CASE UNCHANGED Tcp!vars
  BY <1>1, <1>8 DEF Tcp!vars
<1> QED
  BY <1>2, <1>3, <1>4, <1>5, <1>6, <1>l, <1>7, <1>8
     DEF Tcp!Next, Tcp!ServerMain, Tcp!Reader, Tcp!ClientMain, Tcp!ClientRecv

\* What a receive thread has read it pushes before it reads again.
LEMMA TcpHandsStep == TcpTypes /\ TcpHands /\ [Tcp!Next]_Tcp!vars => TcpHands'
<1> SUFFICES ASSUME TcpTypes, TcpHands, [Tcp!Next]_Tcp!vars PROVE TcpHands'
    OBVIOUS
<1> USE DEF Tcp!server, Tcp!client, Tcp!streams
<1>1. CASE UNCHANGED <<buf, reader, accepted>>
  BY <1>1 DEF TcpHands
<1>2. CASE Tcp!While \/ Tcp!AcceptedAll \/ Tcp!PrintQueue \/ Tcp!Join \/ Tcp!Interrupt
  BY <1>1, <1>2 DEF Tcp!While, Tcp!AcceptedAll, Tcp!PrintQueue, Tcp!Join, Tcp!Interrupt
<1>3. ASSUME NEW c \in Tcp!Clients,
             \/ Tcp!Quit(c) \/ Tcp!ReadTimeout(c) \/ Tcp!Connect(c) \/ Tcp!Create(c)
             \/ Tcp!SetRunning(c) \/ Tcp!BrokenPipe(c) \/ Tcp!Leave(c) \/ Tcp!RecvLoop(c)
             \/ Tcp!RecvQuit(c) \/ Tcp!Kill(c) \/ Tcp!Write(c)
      PROVE  TcpHands'
  BY <1>1, <1>3 DEF Tcp!Quit, Tcp!ReadTimeout, Tcp!Connect, Tcp!Create, Tcp!SetRunning,
     Tcp!BrokenPipe, Tcp!Leave, Tcp!RecvLoop, Tcp!RecvQuit, Tcp!Kill, Tcp!Write
<1>4. ASSUME NEW c \in Tcp!Clients, Tcp!Accept(c) PROVE TcpHands'
  <2>1. /\ c \notin accepted /\ accepted' = accepted \cup {c} /\ buf' = buf
        /\ reader' = [reader EXCEPT ![c] = "loop"]
    BY <1>4 DEF Tcp!Accept, Tcp!Pending
  <2>2. buf[c] = <<>>
    BY <2>1 DEF TcpHands
  <2> QED
    BY <2>1, <2>2 DEF TcpHands, TcpTypes
<1>5. ASSUME NEW c \in Tcp!Clients, Tcp!ReaderLoop(c) PROVE TcpHands'
  <2>1. /\ reader[c] = "loop" /\ accepted' = accepted /\ buf' = buf
        /\ \E x \in {"read", "done"} : reader' = [reader EXCEPT ![c] = x]
    BY <1>5 DEF Tcp!ReaderLoop
  <2> QED
    BY <2>1 DEF TcpHands, TcpTypes
<1>6. ASSUME NEW c \in Tcp!Clients, Tcp!Read(c) PROVE TcpHands'
  BY <1>6 DEF Tcp!Read, TcpHands, TcpTypes
<1>7. ASSUME NEW c \in Tcp!Clients, Tcp!Push(c) PROVE TcpHands'
  BY <1>7 DEF Tcp!Push, TcpHands, TcpTypes
<1>l. ASSUME NEW c \in Tcp!Clients, Tcp!Lock(c) PROVE TcpHands'
  BY <1>l DEF Tcp!Lock, TcpHands, TcpTypes
<1>8. CASE UNCHANGED Tcp!vars
  BY <1>1, <1>8 DEF Tcp!vars
<1> QED
  BY <1>2, <1>3, <1>4, <1>5, <1>6, <1>7, <1>l, <1>8
     DEF Tcp!Next, Tcp!ServerMain, Tcp!Reader, Tcp!ClientMain, Tcp!ClientRecv

\* The mutex excludes.
LEMMA TcpMutexStep == TcpTypes /\ TcpMutex /\ [Tcp!Next]_Tcp!vars => TcpMutex'
<1> SUFFICES ASSUME TcpTypes, TcpMutex, [Tcp!Next]_Tcp!vars PROVE TcpMutex'
    OBVIOUS
<1> USE DEF Tcp!server, Tcp!client, Tcp!streams
<1>n. \A c \in Tcp!Clients : c # Tcp!NOBODY /\ c # Tcp!MAIN
  BY DEF Tcp!Clients, Tcp!NOBODY, Tcp!MAIN
<1>m. Tcp!MAIN # Tcp!NOBODY
  BY DEF Tcp!NOBODY, Tcp!MAIN
<1>1. CASE /\ UNCHANGED <<mutex, message, end, reader>>
           /\ sMain' = sMain \/ sMain' # "print"
  BY <1>1 DEF TcpMutex
<1>2. CASE Tcp!While \/ Tcp!Join \/ Tcp!Interrupt
  BY <1>1, <1>2 DEF Tcp!While, Tcp!Join, Tcp!Interrupt
<1>3. ASSUME NEW c \in Tcp!Clients,
             \/ Tcp!Quit(c) \/ Tcp!ReadTimeout(c) \/ Tcp!Connect(c) \/ Tcp!Create(c)
             \/ Tcp!SetRunning(c) \/ Tcp!BrokenPipe(c) \/ Tcp!Leave(c) \/ Tcp!RecvLoop(c)
             \/ Tcp!RecvQuit(c) \/ Tcp!Kill(c) \/ Tcp!Write(c)
      PROVE  TcpMutex'
  BY <1>1, <1>3 DEF Tcp!Quit, Tcp!ReadTimeout, Tcp!Connect, Tcp!Create, Tcp!SetRunning,
     Tcp!BrokenPipe, Tcp!Leave, Tcp!RecvLoop, Tcp!RecvQuit, Tcp!Kill, Tcp!Write
<1>4. ASSUME NEW c \in Tcp!Clients, Tcp!Accept(c) \/ Tcp!ReaderLoop(c) \/ Tcp!Read(c)
      PROVE  TcpMutex'
  <2>1. UNCHANGED <<sMain, mutex, message, end>>
    BY <1>4 DEF Tcp!Accept, Tcp!ReaderLoop, Tcp!Read
  <2>2. \E x \in {"loop", "read", "done", "lock"} : reader' = [reader EXCEPT ![c] = x]
    BY <1>4 DEF Tcp!Accept, Tcp!ReaderLoop, Tcp!Read
  <2> QED
    BY <2>1, <2>2 DEF TcpMutex, TcpTypes
<1>5. CASE Tcp!AcceptedAll
  BY <1>5, <1>n DEF Tcp!AcceptedAll, TcpMutex
<1>6. CASE Tcp!PrintQueue
  BY <1>6, <1>n DEF Tcp!PrintQueue, TcpMutex
<1>7. ASSUME NEW c \in Tcp!Clients, Tcp!Lock(c) PROVE TcpMutex'
  <2>1. /\ mutex = Tcp!NOBODY /\ mutex' = c /\ UNCHANGED <<sMain, message>>
        /\ reader' = [reader EXCEPT ![c] = "push"]
        /\ end' = [end EXCEPT ![c] = Len(message)]
    BY <1>7 DEF Tcp!Lock
  <2>2. sMain # "print" /\ \A o \in Tcp!Clients : reader[o] # "push"
    BY <1>n, <1>m, <2>1 DEF TcpMutex
  <2> QED
    BY <2>1, <2>2 DEF TcpMutex, TcpTypes
<1>8. ASSUME NEW c \in Tcp!Clients, Tcp!Push(c) PROVE TcpMutex'
  <2>1. /\ reader[c] = "push" /\ reader' = [reader EXCEPT ![c] = "loop"] /\ sMain' = sMain
    BY <1>8 DEF Tcp!Push
  <2>2. sMain # "print" /\ \A o \in Tcp!Clients : o # c => reader[o] # "push"
    BY <1>n, <2>1 DEF TcpMutex
  <2> QED
    BY <2>1, <2>2 DEF TcpMutex, TcpTypes
<1>9. CASE UNCHANGED Tcp!vars
  BY <1>1, <1>9 DEF Tcp!vars
<1> QED
  BY <1>2, <1>3, <1>4, <1>5, <1>6, <1>7, <1>8, <1>9
     DEF Tcp!Next, Tcp!ServerMain, Tcp!Reader, Tcp!ClientMain, Tcp!ClientRecv

\* A client's messages stay where they are while nobody touches them.
LEMMA InOrderKept ==
    ASSUME NEW c \in Tcp!Clients, NEW a \in 0..sent[c], NEW b \in 0..sent[c], a <= b,
           buf[c] = Tcp!Run(c, a, b), up[c] = Tcp!Run(c, b, sent[c]), Tcp!Queued(c, a)',
           buf'[c] = buf[c], up'[c] = up[c], sent'[c] = sent[c]
    PROVE  \E x, y \in 0..sent'[c] :
               /\ x <= y /\ Tcp!Queued(c, x)'
               /\ buf'[c] = Tcp!Run(c, x, y) /\ up'[c] = Tcp!Run(c, y, sent'[c])
BY DEF Tcp!Run

\* Reading, pushing and writing move the ends of the three runs, and nobody
\* else's; the other steps move nothing.
LEMMA EachInOrderStep == TcpInv /\ [Tcp!Next]_Tcp!vars => Tcp!EachInOrder'
<1> SUFFICES ASSUME TcpTypes, TcpHands, TcpMutex, Tcp!EachInOrder, [Tcp!Next]_Tcp!vars,
                    NEW c \in Tcp!Clients
             PROVE  \E x, y \in 0..sent'[c] :
                        /\ x <= y /\ Tcp!Queued(c, x)'
                        /\ buf'[c] = Tcp!Run(c, x, y) /\ up'[c] = Tcp!Run(c, y, sent'[c])
    BY DEF TcpInv, Tcp!EachInOrder, Tcp!Run
<1> USE DEF Tcp!server, Tcp!client, Tcp!streams
<1>0. PICK a \in 0..sent[c], b \in 0..sent[c] :
          /\ a <= b /\ Tcp!Queued(c, a)
          /\ buf[c] = Tcp!Run(c, a, b) /\ up[c] = Tcp!Run(c, b, sent[c])
  BY DEF Tcp!EachInOrder
<1>n. sent[c] \in Nat /\ a \in Nat /\ b \in Nat /\ b <= sent[c]
  <2>1. sent[c] \in Nat
    BY DEF TcpTypes
  <2> QED
    BY <2>1
<1>s. message \in Seq(Msg) /\ \A o \in Tcp!Clients : buf[o] \in Seq(Msg)
  BY DEF TcpTypes
<1>w. message' = message => Tcp!Queued(c, a)'
  BY <1>0 DEF Tcp!Queued, Tcp!Of
<1>1. CASE message' = message /\ buf'[c] = buf[c] /\ up'[c] = up[c] /\ sent'[c] = sent[c]
  BY <1>0, <1>w, <1>1, InOrderKept
<1>2. CASE Tcp!While \/ Tcp!AcceptedAll \/ Tcp!PrintQueue \/ Tcp!Join \/ Tcp!Interrupt
  BY <1>1, <1>2 DEF Tcp!While, Tcp!AcceptedAll, Tcp!PrintQueue, Tcp!Join, Tcp!Interrupt
<1>3. ASSUME NEW o \in Tcp!Clients,
             \/ Tcp!Quit(o) \/ Tcp!ReadTimeout(o) \/ Tcp!Connect(o) \/ Tcp!Create(o)
             \/ Tcp!SetRunning(o) \/ Tcp!BrokenPipe(o) \/ Tcp!Leave(o) \/ Tcp!RecvLoop(o)
             \/ Tcp!RecvQuit(o) \/ Tcp!Kill(o) \/ Tcp!Accept(o) \/ Tcp!ReaderLoop(o)
             \/ Tcp!Lock(o)
      PROVE  UNCHANGED <<message, buf, up, sent>>
  BY <1>3 DEF Tcp!Quit, Tcp!ReadTimeout, Tcp!Connect, Tcp!Create, Tcp!SetRunning,
     Tcp!BrokenPipe, Tcp!Leave, Tcp!RecvLoop, Tcp!RecvQuit, Tcp!Kill, Tcp!Accept, Tcp!ReaderLoop,
     Tcp!Lock
<1>4. ASSUME NEW o \in Tcp!Clients, o # c, Tcp!Read(o) \/ Tcp!Write(o)
      PROVE  message' = message /\ buf'[c] = buf[c] /\ up'[c] = up[c] /\ sent'[c] = sent[c]
  BY <1>4 DEF Tcp!Read, Tcp!Write, TcpTypes
<1>5. ASSUME NEW o \in Tcp!Clients, o # c, Tcp!Push(o)
      PROVE  \E x, y \in 0..sent'[c] :
                 /\ x <= y /\ Tcp!Queued(c, x)'
                 /\ buf'[c] = Tcp!Run(c, x, y) /\ up'[c] = Tcp!Run(c, y, sent'[c])
  <2>1. message' = message \o buf[o] /\ buf'[c] = buf[c] /\ up' = up /\ sent' = sent
    BY <1>5, PushIsAppend DEF Tcp!Push, TcpTypes
  <2>2. PICK x \in Nat, y \in Nat : x <= y /\ buf[o] = Tcp!Run(o, x, y)
    <3>1. sent[o] \in Nat
      BY DEF TcpTypes
    <3>2. PICK x \in 0..sent[o], y \in 0..sent[o] : x <= y /\ buf[o] = Tcp!Run(o, x, y)
      BY DEF Tcp!EachInOrder
    <3>3. x \in Nat /\ y \in Nat
      BY <3>1
    <3> QED
      BY <3>2, <3>3
  <2>3. /\ Len(buf[o]) = y - x
        /\ \A j \in 1..(y - x) : buf[o][j] = <<o, x + j>>
    <3>1. /\ Len(Tcp!Run(o, x, y)) = y - x
          /\ \A j \in 1..(y - x) : Tcp!Run(o, x, y)[j] = <<o, x + j>>
      BY <2>2, RunIs
    <3> QED
      BY <2>2, <3>1
  <2>4. \A j \in 1..Len(buf[o]) : buf[o][j][1] # c
    BY <1>5, <2>3
  <2>5. Tcp!Queued(c, a)'
    BY <1>0, <1>n, <1>s, <2>1, <2>4, QueuedOthers
  <2> QED
    BY <1>0, <2>1, <2>5, InOrderKept
<1>6. ASSUME Tcp!Read(c)
      PROVE  \E x, y \in 0..sent'[c] :
                 /\ x <= y /\ Tcp!Queued(c, x)'
                 /\ buf'[c] = Tcp!Run(c, x, y) /\ up'[c] = Tcp!Run(c, y, sent'[c])
  <2>1. /\ message' = message /\ sent' = sent /\ buf'[c] = up[c] /\ up'[c] = <<>>
        /\ buf[c] = <<>>
    BY <1>6 DEF Tcp!Read, TcpTypes, TcpHands
  <2>2. a = b
    <3>1. Tcp!Run(c, a, b) = <<>>
      BY <1>0, <2>1
    <3> QED
      BY <1>0, <1>n, <3>1, RunEmpty
  <2>3. up'[c] = Tcp!Run(c, sent[c], sent[c])
    BY <1>n, <2>1, RunEmpty
  <2>4. a \in 0..sent[c] /\ sent[c] \in 0..sent[c] /\ a <= sent[c]
    BY <1>n, <2>2
  <2> QED
    BY <1>0, <1>w, <2>1, <2>2, <2>3, <2>4
<1>7. ASSUME Tcp!Push(c)
      PROVE  \E x, y \in 0..sent'[c] :
                 /\ x <= y /\ Tcp!Queued(c, x)'
                 /\ buf'[c] = Tcp!Run(c, x, y) /\ up'[c] = Tcp!Run(c, y, sent'[c])
  <2>1. /\ message' = message \o Tcp!Run(c, a, b) /\ sent' = sent /\ up' = up
        /\ buf'[c] = <<>>
    <3>1. message' = message \o buf[c]
      BY <1>7, PushIsAppend
    <3>2. sent' = sent /\ up' = up /\ buf'[c] = <<>>
      BY <1>7 DEF Tcp!Push, TcpTypes
    <3> QED
      BY <1>0, <3>1, <3>2
  <2>2. Tcp!Queued(c, b)'
    BY <1>0, <1>n, <1>s, <2>1, QueuedOn
  <2>3. buf'[c] = Tcp!Run(c, b, b)
    BY <1>n, <2>1, RunEmpty
  <2>4. b <= b
    BY <1>n
  <2> QED
    BY <1>0, <2>1, <2>2, <2>3, <2>4
<1>8. ASSUME Tcp!Write(c)
      PROVE  \E x, y \in 0..sent'[c] :
                 /\ x <= y /\ Tcp!Queued(c, x)'
                 /\ buf'[c] = Tcp!Run(c, x, y) /\ up'[c] = Tcp!Run(c, y, sent'[c])
  <2>1. message' = message /\ buf' = buf /\ sent'[c] = sent[c] + 1
    BY <1>8 DEF Tcp!Write, TcpTypes
  <2>2. up'[c] = Append(up[c], <<c, sent'[c]>>)
    BY <1>8 DEF Tcp!Write, TcpTypes
  <2>3. up'[c] = Tcp!Run(c, b, sent[c] + 1)
    BY <1>0, <1>n, <2>1, <2>2, RunOn
  <2>4. a \in 0..sent'[c] /\ b \in 0..sent'[c]
    BY <1>n, <2>1
  <2> QED
    BY <1>0, <1>w, <2>1, <2>3, <2>4
<1>9. CASE UNCHANGED Tcp!vars
  BY <1>1, <1>9 DEF Tcp!vars
<1> QED
  BY <1>1, <1>2, <1>3, <1>4, <1>5, <1>6, <1>7, <1>8, <1>9
     DEF Tcp!Next, Tcp!ServerMain, Tcp!Reader, Tcp!ClientMain, Tcp!ClientRecv

\* In the server of lab5 each client's messages are in the queue, in its receive
\* thread's hands or on their way, once and in order, for any number of clients
\* and of messages (server.cpp:90-94, 129-141).
THEOREM EachInOrderAlways == Tcp!Spec => []Tcp!EachInOrder
<1>1. Tcp!Init => TcpInv
  <2> SUFFICES ASSUME Tcp!Init PROVE TcpInv
      OBVIOUS
  <2>1. TcpTypes
    BY DEF Tcp!Init, Tcp!ServerInit, Tcp!ClientInit, TcpTypes
  <2>2. TcpHands /\ TcpMutex
    BY DEF Tcp!Init, Tcp!ServerInit, TcpHands, TcpMutex
  <2>3. ASSUME NEW c \in Tcp!Clients
        PROVE  /\ Tcp!Queued(c, 0) /\ sent[c] = 0
               /\ buf[c] = Tcp!Run(c, 0, 0) /\ up[c] = Tcp!Run(c, 0, 0)
    <3>1. message = <<>> /\ sent[c] = 0 /\ buf[c] = <<>> /\ up[c] = <<>>
      BY DEF Tcp!Init, Tcp!ServerInit, Tcp!ClientInit
    <3>2. Tcp!Queued(c, 0)
      BY <3>1 DEF Tcp!Queued, Tcp!Of
    <3>3. Tcp!Run(c, 0, 0) = <<>>
      BY RunEmpty
    <3> QED
      BY <3>1, <3>2, <3>3
  <2>4. Tcp!EachInOrder
    BY <2>3 DEF Tcp!EachInOrder
  <2> QED
    BY <2>1, <2>2, <2>4 DEF TcpInv
<1>2. TcpInv /\ [Tcp!Next]_Tcp!vars => TcpInv'
  BY TcpTypesStep, TcpHandsStep, TcpMutexStep, EachInOrderStep DEF TcpInv
<1>3. TcpInv => Tcp!EachInOrder
  BY DEF TcpInv
<1> QED
  BY <1>1, <1>2, <1>3, PTL DEF Tcp!Spec
=============================================================================
