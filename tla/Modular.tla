-------------------------------- MODULE Modular --------------------------------
(* Arithmetic modulo a number, for counters that wrap around and index a ring. *)
EXTENDS Integers, TLAPS

(* A number is a multiple and a remainder. *)
LEMMA Division ==
  ASSUME NEW w \in Nat \ {0}, NEW a \in Int
  PROVE  /\ a \div w \in Int
         /\ a % w \in 0..(w - 1)
         /\ a = w * (a \div w) + (a % w)
  <1>1. a \div w \in Int /\ a % w \in 0..(w - 1)
    OBVIOUS
  <1>2. a % w = a - w * (a \div w)
    OBVIOUS
  <1> QED
    BY <1>1, <1>2

(* The only multiple of w strictly between -w and w is 0. *)
LEMMA Multiple ==
  ASSUME NEW w \in Nat \ {0}, NEW q \in Int, -w < w * q, w * q < w
  PROVE  q = 0
  OBVIOUS

(* A remainder is found again. *)
LEMMA Remainder ==
  ASSUME NEW w \in Nat \ {0}, NEW q \in Int, NEW r \in 0..(w - 1)
  PROVE  (w * q + r) % w = r
  <1> DEFINE a == w * q + r
             d == q - (a \div w)
  <1>1. a \in Int
    OBVIOUS
  <1>2. a \div w \in Int /\ a % w \in 0..(w - 1) /\ a = w * (a \div w) + (a % w)
    BY <1>1, Division
  <1>3. d \in Int /\ w * d = (a % w) - r
    BY <1>2
  <1>4. d = 0
    BY <1>2, <1>3, Multiple
  <1> QED
    BY <1>2, <1>3, <1>4

(* Two numbers less than w apart differ modulo w. *)
LEMMA Apart ==
  ASSUME NEW w \in Nat \ {0}, NEW x \in Int, NEW y \in Int, x < y, y < x + w
  PROVE  x % w # y % w
  <1> SUFFICES ASSUME x % w = y % w PROVE FALSE
    OBVIOUS
  <1> DEFINE d == (y \div w) - (x \div w)
  <1>1. x \div w \in Int /\ x % w \in 0..(w - 1) /\ x = w * (x \div w) + (x % w)
    BY Division
  <1>2. y \div w \in Int /\ y % w \in 0..(w - 1) /\ y = w * (y \div w) + (y % w)
    BY Division
  <1>3. d \in Int /\ w * d = y - x
    BY <1>1, <1>2
  <1>4. d = 0
    BY <1>3, Multiple
  <1> QED
    BY <1>3, <1>4

(* Reducing modulo a multiple first changes nothing. *)
LEMMA Nested ==
  ASSUME NEW s \in Nat \ {0}, NEW w \in Nat \ {0}, w % s = 0, NEW x \in Int, NEW k \in Int
  PROVE  ((x % w) + k) % s = (x + k) % s
  <1> DEFINE m == w \div s
             q == x \div w
             u == (x + k) \div s
             v == m * q
             r == (x + k) % s
  <1>1. m \in Int /\ w = s * m
    BY Division
  <1>2. q \in Int /\ x % w \in Int /\ x % w = x - w * q
    BY Division
  <1>3. r \in 0..(s - 1) /\ u \in Int /\ x + k = s * u + r
    BY Division
  <1> HIDE DEF m, q, u, r
  <1>4. v \in Int /\ s * v = w * q
    BY <1>1, <1>2
  <1> HIDE DEF v
  <1>5. u - v \in Int /\ s * (u - v) = s * u - s * v
    BY <1>3, <1>4
  <1>6. s * u \in Int /\ s * v \in Int
    BY <1>3, <1>4
  <1>7. (x % w) + k = s * (u - v) + r
    BY <1>2, <1>3, <1>4, <1>5, <1>6
  <1>8. (s * (u - v) + r) % s = r
    BY <1>3, <1>5, Remainder
  <1> QED
    BY <1>7, <1>8 DEF r

(* The same without a second summand. *)
LEMMA Reduced ==
  ASSUME NEW s \in Nat \ {0}, NEW w \in Nat \ {0}, w % s = 0, NEW x \in Int
  PROVE  (x % w) % s = x % s
  <1>1. ((x % w) + 0) % s = (x + 0) % s
    <2>1. \A k \in Int : ((x % w) + k) % s = (x + k) % s
      BY Nested, ZenonT(40)
    <2> QED
      BY <2>1, SMTT(30)
  <1>2. x % w \in Int
    BY Division
  <1>3. (x % w) + 0 = x % w /\ x + 0 = x
    BY <1>2
  <1> QED
    BY <1>1, <1>3

(* A counter moved on by at most w wraps around at most once. *)
LEMMA Shifted ==
  ASSUME NEW w \in Nat \ {0}, NEW a \in 0..(w - 1), NEW k \in 0..w
  PROVE  (a + k) % w = IF a + k < w THEN a + k ELSE a + k - w
  <1> DEFINE r == IF a + k < w THEN a + k ELSE a + k - w
             q == IF a + k < w THEN 0 ELSE 1
  <1>1. q \in Int /\ r \in 0..(w - 1) /\ w * q + r = a + k
    OBVIOUS
  <1> HIDE DEF q, r
  <1>2. (a + k) % w = r
    BY <1>1, Remainder
  <1> QED
    BY <1>2 DEF r

(* So does one that is moved back. *)
LEMMA Distance ==
  ASSUME NEW w \in Nat \ {0}, NEW a \in 0..w, NEW b \in 0..(w - 1)
  PROVE  (b - a) % w = IF b >= a THEN b - a ELSE b - a + w
  <1> DEFINE r == IF b >= a THEN b - a ELSE b - a + w
             q == IF b >= a THEN 0 ELSE -1
  <1>1. q \in Int /\ r \in 0..(w - 1) /\ w * q + r = b - a
    OBVIOUS
  <1> HIDE DEF q, r
  <1>2. (b - a) % w = r
    BY <1>1, Remainder
  <1> QED
    BY <1>2 DEF r
===============================================================================
