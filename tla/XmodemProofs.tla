----------------------------- MODULE XmodemProofs -----------------------------
(* Proofs about the XMODEM receiver (module Xmodem), for files, block sizes    *)
(* and limits of every value, and about its CRC (module Crc).                  *)
EXTENDS Xmodem, BasicLemmas

-----------------------------------------------------------------------------
(* Bits.                                                                     *)

\* The weight v is that of a bit above the one of weight w.
Higher(v, w) == \E m \in Nat \ {0} : v = 2 * w * m

\* A bit turned over leaves what is above it as it was,
LEMMA Above ==
  ASSUME NEW w \in Nat \ {0}, NEW u \in Nat, Higher(u, w), NEW x \in Nat
  PROVE  /\ Bit(x, w) = 0 => (x + w) \div u = x \div u
         /\ Bit(x, w) # 0 => (x - w) \div u = x \div u /\ x - w \in Nat
<1>0. PICK m \in Nat \ {0} : u = 2 * w * m
  BY DEF Higher
<1> DEFINE v == 2 * w * m
           q == x \div v
           r == x % v
           a == r \div w
           b == r % w
<1>1. v \in Nat \ {0} /\ v >= 2 * w
  OBVIOUS
<1>2. q \in Nat /\ r \in 0..(v - 1) /\ x = v * q + r
  <2> HIDE DEF v
  <2> QED
    BY <1>1, Division
<1>3. a \in Nat /\ b \in 0..(w - 1) /\ r = w * a + b
  <2>1. r \in Nat
    BY <1>1, <1>2
  <2> HIDE DEF r
  <2> QED
    BY <2>1, Division
<1>4. a < 2 * m
  <2>1. w * a < w * (2 * m)
    BY <1>2, <1>3
  <2>2. a \in Int /\ 2 * m \in Int
    BY <1>3
  <2> HIDE DEF a
  <2> QED
    BY <2>1, <2>2, Monotone
<1>5. x \div w = 2 * m * q + a
  <2> HIDE DEF a, b, q, r
  <2>1. x = w * (2 * m * q + a) + b
    BY <1>2, <1>3
  <2>2. 2 * m * q + a \in Nat
    <3>1. m * q \in Nat
      BY <1>2
    <3> QED
      BY <3>1, <1>2, <1>3
  <2> QED
    BY <2>1, <2>2, <1>3, Quotient
<1>6. Bit(x, w) = a % 2
  <2>1. 2 * m * q + a = 2 * (m * q) + a /\ m * q \in Nat
    BY <1>2, <1>3
  <2> HIDE DEF a, q
  <2> QED
    BY <2>1, <1>3, <1>5 DEF Bit
<1>7. ASSUME a % 2 = 0
      PROVE  (x + w) \div v = q
  <2>1. a + 2 <= 2 * m
    BY <1>3, <1>4, <1>7
  <2>2. w * (a + 2) <= v
    <3> HIDE DEF a
    <3>1. w * (a + 2) <= w * (2 * m)
      BY <2>1, <1>3, Monotone
    <3> QED
      BY <3>1
  <2>3. r + w \in 0..(v - 1)
    <3> HIDE DEF a, b, v, r
    <3>1. w * (a + 2) = w * a + 2 * w
      BY <1>3
    <3> QED
      BY <3>1, <2>2, <1>1, <1>2, <1>3
  <2> HIDE DEF v, r, q, a, b
  <2> QED
    BY <1>1, <1>2, <2>3, Quotient
<1>8. ASSUME a % 2 # 0
      PROVE  (x - w) \div v = q /\ x - w \in Nat
  <2>1. a >= 1
    BY <1>3, <1>8
  <2>2. w * a >= w
    <3> HIDE DEF a
    <3>1. w * 1 <= w * a
      BY <2>1, <1>3, Monotone
    <3> QED
      BY <3>1
  <2>3. r - w \in 0..(v - 1)
    <3> HIDE DEF a, b, v, r
    <3> QED
      BY <2>2, <1>1, <1>2, <1>3
  <2> HIDE DEF v, r, q, a, b
  <2> QED
    BY <1>1, <1>2, <2>3, Quotient
<1> QED
  <2> HIDE DEF a
  <2> QED
    BY <1>0, <1>6, <1>7, <1>8

\* and a bit below it.
LEMMA Below ==
  ASSUME NEW v \in Nat \ {0}, NEW w \in Nat, Higher(w, v), NEW x \in Nat
  PROVE  /\ Bit(x + w, v) = Bit(x, v)
         /\ x - w \in Nat => Bit(x - w, v) = Bit(x, v)
<1>0. PICK m \in Nat \ {0} : w = 2 * v * m
  BY DEF Higher
<1> DEFINE q == x \div v
           r == x % v
<1>1. q \in Nat /\ r \in 0..(v - 1) /\ x = v * q + r
  BY Division
<1>2. (x + w) \div v = q + 2 * m
  <2>1. x + 2 * v * m = v * (q + 2 * m) + r
    BY <1>1
  <2> HIDE DEF r, q
  <2> QED
    BY <1>0, <1>1, <2>1, Quotient
<1>3. ASSUME x - w \in Nat
      PROVE  (x - w) \div v = q - 2 * m
  <2>1. x - 2 * v * m = v * (q - 2 * m) + r
    BY <1>1
  <2>2. q - 2 * m \in Nat
    <3>1. v * (q - 2 * m + 1) > 0
      BY <1>0, <1>1, <1>3, <2>1
    <3> HIDE DEF r, q
    <3> QED
      BY <1>1, <3>1
  <2> HIDE DEF r, q
  <2> QED
    BY <1>0, <1>1, <2>1, <2>2, Quotient
<1>4. (q + 2 * m) % 2 = q % 2 /\ (q - 2 * m) % 2 = q % 2
  <2> HIDE DEF q
  <2> QED
    BY <1>1
<1> QED
  BY <1>2, <1>3, <1>4 DEF Bit

\* The weights of the bits of a word.
Weight == {32768, 16384, 8192, 4096, 2048, 1024, 512, 256,
           128, 64, 32, 16, 8, 4, 2, 1}

\* The weights of the bits a round touches.
LEMMA WeightsOrdered ==
  ASSUME NEW w \in Weight
  PROVE  /\ w \in Nat \ {0} /\ Higher(65536, w)
         /\ \A v \in Weight : w < v => Higher(v, w)
<1>1. w \in Nat \ {0}
  BY DEF Weight
<1>2. Higher(65536, w)
  BY DEF Weight, Higher
<1>3. ASSUME NEW v \in Weight, w < v
      PROVE  Higher(v, w)
  BY <1>3 DEF Weight, Higher
<1> QED
  BY <1>1, <1>2, <1>3

\* A word is a number, and a bit is 0 or 1.
LEMMA WordNat ==
  /\ \A x \in Word : x \in Nat /\ x < 65536
  /\ \A x \in Nat : x < 65536 => x \in Word
<1>1. ASSUME NEW n \in Nat, n = 65536
      PROVE  Word = 0..(n - 1)
  BY <1>1 DEF Word
<1>2. ASSUME NEW n \in Nat, n = 65536, NEW x \in Nat, x < n
      PROVE  x \in Word
  BY <1>1, <1>2
<1>3. \A x \in Word : x \in Nat /\ x < 65536
  <2>1. ASSUME NEW n \in Nat, n = 65536, NEW x \in Word
        PROVE  x \in Nat /\ x < n
    BY <1>1, <2>1
  <2> QED
    BY <2>1
<1>4. \A x \in Nat : x < 65536 => x \in Word
  BY <1>2
<1> QED
  BY <1>3, <1>4

LEMMA BitType == ASSUME NEW x \in Nat, NEW w \in Nat \ {0} PROVE Bit(x, w) \in {0, 1}
<1>1. x \div w \in Nat
  BY Division
<1> QED
  BY <1>1 DEF Bit

\* A bit of a word turned over gives a word.
LEMMA FlipWord ==
  ASSUME NEW w \in Weight, NEW x \in Word
  PROVE  /\ Flip(w)[x] = IF Bit(x, w) = 0 THEN x + w ELSE x - w
         /\ Flip(w)[x] \in Word
<1>1. Flip(w)[x] = IF Bit(x, w) = 0 THEN x + w ELSE x - w
  BY DEF Flip
<1>2. w \in Nat \ {0} /\ x \in Nat /\ x < 65536
  BY WeightsOrdered, WordNat
<1>3. x \div 65536 = 0
  BY <1>2
<1>4. /\ Bit(x, w) = 0 => (x + w) \div 65536 = x \div 65536
      /\ Bit(x, w) # 0 => x - w \in Nat
  BY <1>2, WeightsOrdered, Above
<1>5. CASE Bit(x, w) = 0
  <2>1. (x + w) \div 65536 = 0 /\ x + w \in Nat
    BY <1>2, <1>3, <1>4, <1>5
  <2>2. x + w < 65536
    BY <2>1
  <2> QED
    BY <1>1, <1>5, <2>1, <2>2, WordNat
<1>6. CASE Bit(x, w) # 0
  <2>1. x - w \in Nat /\ x - w < 65536
    BY <1>2, <1>4, <1>6
  <2> QED
    BY <1>1, <1>6, <2>1, WordNat
<1> QED
  BY <1>5, <1>6

\* Turning a bit over changes no other.
LEMMA OtherBit ==
  ASSUME NEW w \in Weight, NEW v \in Weight, v # w, NEW x \in Word
  PROVE  Bit(Flip(w)[x], v) = Bit(x, v)
<1>1. w \in Nat \ {0} /\ v \in Nat \ {0} /\ x \in Nat
  BY WeightsOrdered, WordNat
<1>2. Flip(w)[x] = IF Bit(x, w) = 0 THEN x + w ELSE x - w
  BY FlipWord
<1>3. Flip(w)[x] \in Nat
  BY FlipWord, WordNat
<1>4. CASE w < v
  <2>1. Higher(v, w)
    BY <1>4, WeightsOrdered
  <2>2. Flip(w)[x] \div v = x \div v
    BY <1>1, <1>2, <2>1, Above
  <2> QED
    BY <2>2 DEF Bit
<1>5. CASE v < w
  <2>1. Higher(w, v)
    BY <1>5, WeightsOrdered
  <2> QED
    BY <1>1, <1>2, <1>3, <2>1, Below
<1> QED
  BY <1>1, <1>4, <1>5

\* The bit itself is turned over.
LEMMA SameBit ==
  ASSUME NEW w \in Weight, NEW x \in Word
  PROVE  Bit(Flip(w)[x], w) = 1 - Bit(x, w)
<1>1. w \in Nat \ {0} /\ x \in Nat
  BY WeightsOrdered, WordNat
<1>2. Flip(w)[x] = IF Bit(x, w) = 0 THEN x + w ELSE x - w
  BY FlipWord
<1> DEFINE q == x \div w
           r == x % w
<1>3. q \in Nat /\ r \in 0..(w - 1) /\ x = w * q + r
  BY <1>1, Division
<1>4. CASE Bit(x, w) = 0
  <2>1. (x + w) \div w = q + 1
    <3>1. x + w = w * (q + 1) + r
      BY <1>1, <1>3
    <3> HIDE DEF q, r
    <3> QED
      BY <1>1, <1>3, <3>1, Quotient
  <2> HIDE DEF r
  <2> QED
    BY <1>2, <1>3, <1>4, <2>1 DEF Bit
<1>5. CASE Bit(x, w) # 0
  <2>1. q % 2 = 1
    BY <1>3, <1>5 DEF Bit
  <2>2. (x - w) \div w = q - 1
    <3>1. x - w = w * (q - 1) + r
      BY <1>1, <1>3
    <3> HIDE DEF r, q
    <3>2. q - 1 \in Nat
      BY <1>3, <2>1
    <3> QED
      BY <1>1, <1>3, <3>1, <3>2, Quotient
  <2> HIDE DEF r
  <2> QED
    BY <1>2, <1>3, <1>5, <2>1, <2>2 DEF Bit
<1> QED
  BY <1>4, <1>5

\* Turning a bit over twice changes nothing, and the order does not matter.
LEMMA FlipTwice ==
  ASSUME NEW w \in Weight, NEW x \in Word
  PROVE  Flip(w)[Flip(w)[x]] = x
<1>1. w \in Nat /\ x \in Nat /\ Bit(x, w) \in {0, 1}
  BY BitType, WeightsOrdered, WordNat
<1> QED
  BY <1>1, FlipWord, SameBit

LEMMA FlipsCommute ==
  ASSUME NEW v \in Weight, NEW w \in Weight, NEW x \in Word
  PROVE  Flip(v)[Flip(w)[x]] = Flip(w)[Flip(v)[x]]
<1>1. v \in Nat /\ w \in Nat /\ x \in Nat
  BY WeightsOrdered, WordNat
<1>2. CASE v # w
  <2> DEFINE a == Flip(v)[x]
             b == Flip(w)[x]
  <2>1. a \in Word /\ b \in Word
    BY FlipWord
  <2>2. /\ a = IF Bit(x, v) = 0 THEN x + v ELSE x - v
        /\ b = IF Bit(x, w) = 0 THEN x + w ELSE x - w
    BY FlipWord
  <2>3. Bit(b, v) = Bit(x, v) /\ Bit(a, w) = Bit(x, w)
    BY <1>2, OtherBit
  <2>4. /\ Flip(v)[b] = IF Bit(b, v) = 0 THEN b + v ELSE b - v
        /\ Flip(w)[a] = IF Bit(a, w) = 0 THEN a + w ELSE a - w
    <3> HIDE DEF a, b
    <3> QED
      BY <2>1, FlipWord
  <2>5. Flip(v)[b] = Flip(w)[a]
    <3> HIDE DEF a, b
    <3> QED
      BY <1>1, <2>2, <2>3, <2>4
  <2> QED
    BY <2>5
<1> QED
  BY <1>2

-----------------------------------------------------------------------------
(* A round of crc_add: a bit turned over before it is turned over after it,    *)
(* one place higher, or, when it is shifted out, the bits of the divisor are.  *)

\* The same of the three bits of the polynomial.
LEMMA Flip1021Word ==
  ASSUME NEW x \in Word
  PROVE  /\ Flip1021(x) \in Word
         /\ Flip1021(Flip1021(x)) = x
         /\ \A w \in Weight : Flip1021(Flip(w)[x]) = Flip(w)[Flip1021(x)]
<1>1. 4096 \in Weight /\ 32 \in Weight /\ 1 \in Weight
  BY DEF Weight
<1>2. ASSUME NEW y \in Word
      PROVE  /\ Flip(4096)[y] \in Word
             /\ Flip(32)[Flip(4096)[y]] \in Word
             /\ Flip1021(y) \in Word
             /\ \A w \in Weight : Flip1021(Flip(w)[y]) = Flip(w)[Flip1021(y)]
  <2> DEFINE a == Flip(4096)[y]
             b == Flip(32)[a]
  <2>1. a \in Word
    BY <1>1, FlipWord
  <2>2. b \in Word
    BY <1>1, <2>1, FlipWord
  <2>3. Flip(1)[b] \in Word
    <3> HIDE DEF a, b
    <3> QED
      BY <1>1, <2>2, FlipWord
  <2>4. ASSUME NEW w \in Weight
        PROVE  Flip1021(Flip(w)[y]) = Flip(w)[Flip1021(y)]
    <3>1. Flip(4096)[Flip(w)[y]] = Flip(w)[a]
      BY <1>1, FlipsCommute
    <3>2. Flip(32)[Flip(w)[a]] = Flip(w)[b]
      BY <1>1, <2>1, FlipsCommute
    <3>3. Flip(1)[Flip(w)[b]] = Flip(w)[Flip(1)[b]]
      BY <1>1, <2>2, FlipsCommute
    <3> QED
      BY <3>1, <3>2, <3>3 DEF Flip1021
  <2> QED
    BY <2>1, <2>2, <2>3, <2>4 DEF Flip1021
<1>3. Flip1021(Flip1021(x)) = x
  <2> DEFINE a == Flip(4096)[x]
             b == Flip(32)[a]
  <2>1. a \in Word /\ b \in Word
    BY <1>2
  <2>2. Flip1021(Flip(1)[b]) = Flip(1)[Flip1021(b)]
    BY <1>1, <1>2, <2>1
  <2>3. Flip1021(b) = Flip(32)[Flip1021(a)]
    BY <1>1, <1>2, <2>1
  <2>4. Flip1021(a) = Flip(4096)[Flip1021(x)]
    BY <1>1, <1>2
  <2>5. Flip1021(x) = Flip(1)[b]
    BY DEF Flip1021
  <2>6. Flip(4096)[Flip(1)[b]] = Flip(1)[Flip(4096)[b]]
    BY <1>1, <2>1, FlipsCommute
  <2>7. Flip(4096)[b] = Flip(32)[Flip(4096)[a]]
    BY <1>1, <2>1, FlipsCommute
  <2>8. Flip(4096)[a] = x
    BY <1>1, FlipTwice
  <2>9. Flip(4096)[Flip(1)[b]] = Flip(1)[Flip(32)[x]]
    BY <2>6, <2>7, <2>8
  <2>10. Flip(32)[Flip(1)[Flip(32)[x]]] = Flip(1)[x]
    <3>1. Flip(32)[x] \in Word
      BY <1>1, FlipWord
    <3>2. Flip(32)[Flip(1)[Flip(32)[x]]] = Flip(1)[Flip(32)[Flip(32)[x]]]
      BY <1>1, <3>1, FlipsCommute
    <3> QED
      BY <1>1, <3>2, FlipTwice
  <2>11. Flip(1)[Flip(1)[x]] = x
    BY <1>1, FlipTwice
  <2> HIDE DEF a, b
  <2> QED
    BY <2>2, <2>3, <2>4, <2>5, <2>9, <2>10, <2>11
<1> QED
  BY <1>2, <1>3

\* A round keeps a word a word.
LEMMA RoundWord ==
  ASSUME NEW x \in Word
  PROVE  /\ Bit(x, 32768) = 0 => Round[x] = 2 * x /\ 2 * x \in Word
         /\ Bit(x, 32768) # 0 => /\ Round[x] = Flip1021(2 * x - 65536)
                                 /\ 2 * x - 65536 \in Word
         /\ Round[x] \in Word
<1>1. x \in Nat /\ x < 65536
  BY WordNat
<1>2. Round[x] = IF Bit(x, 32768) # 0 THEN Flip1021((2 * x) % 65536) ELSE 2 * x
  BY DEF Round
<1>3. CASE Bit(x, 32768) = 0
  <2>1. x < 32768
    BY <1>1, <1>3 DEF Bit
  <2>2. 2 * x \in Word
    BY <1>1, <2>1, WordNat
  <2> QED
    BY <1>2, <1>3, <2>2
<1>4. CASE Bit(x, 32768) # 0
  <2>1. x >= 32768
    BY <1>1, <1>4 DEF Bit
  <2>2. (2 * x) % 65536 = 2 * x - 65536
    BY <1>1, <2>1
  <2>3. 2 * x - 65536 \in Nat /\ 2 * x - 65536 < 65536
    BY <1>1, <2>1
  <2>4. 2 * x - 65536 \in Word
    BY <2>3, WordNat
  <2> QED
    BY <1>2, <1>4, <2>2, <2>4, Flip1021Word
<1> QED
  BY <1>3, <1>4

\* Doubling both leaves the quotient.
LEMMA Twofold ==
  ASSUME NEW w \in Nat \ {0}, NEW x \in Nat
  PROVE  (2 * x) \div (2 * w) = x \div w
<1> DEFINE q == x \div w
           r == x % w
<1>1. q \in Nat /\ r \in 0..(w - 1) /\ x = w * q + r
  BY Division
<1>2. 2 * x = (2 * w) * q + 2 * r /\ 2 * r \in 0..(2 * w - 1) /\ 2 * w \in Nat \ {0}
  BY <1>1
<1> HIDE DEF q, r
<1>3. (2 * x) \div (2 * w) = q
  BY <1>1, <1>2, Quotient
<1> QED
  BY <1>3 DEF q

\* A round moves a bit up,
LEMMA RoundShifts ==
  ASSUME NEW w \in Weight, w # 32768, NEW x \in Word
  PROVE  2 * w \in Weight /\ Round[Flip(w)[x]] = Flip(2 * w)[Round[x]]
<1>1. 2 * w \in Weight
  BY DEF Weight
<1>2. 32768 \in Weight
  BY DEF Weight
<1>3. w \in Nat \ {0} /\ x \in Nat
  BY WeightsOrdered, WordNat
<1> DEFINE y == Flip(w)[x]
<1>4. y \in Word /\ y = IF Bit(x, w) = 0 THEN x + w ELSE x - w
  BY FlipWord
<1>5. Bit(y, 32768) = Bit(x, 32768)
  BY <1>2, OtherBit
<1>6. Bit(2 * x, 2 * w) = Bit(x, w)
  BY <1>3, Twofold DEF Bit
<1> HIDE DEF y
<1>7. CASE Bit(x, 32768) = 0
  <2>1. Round[y] = 2 * y /\ Round[x] = 2 * x /\ 2 * x \in Word
    BY <1>4, <1>5, <1>7, RoundWord
  <2>2. Flip(2 * w)[2 * x] =
          IF Bit(2 * x, 2 * w) = 0 THEN 2 * x + 2 * w ELSE 2 * x - 2 * w
    BY <1>1, <2>1, FlipWord
  <2> QED
    BY <1>1, <1>3, <1>4, <1>6, <2>1, <2>2 DEF y
<1>8. CASE Bit(x, 32768) # 0
  <2> DEFINE z == 2 * x - 65536
  <2>1. /\ Round[y] = Flip1021(2 * y - 65536) /\ Round[x] = Flip1021(z)
        /\ z \in Word
    BY <1>4, <1>5, <1>8, RoundWord
  <2>2. Bit(z, 2 * w) = Bit(2 * x, 2 * w)
    <3>1. 2 * w \in Nat \ {0} /\ Higher(65536, 2 * w) /\ 2 * x \in Nat /\ z \in Nat
      BY <1>1, <1>3, <2>1, WeightsOrdered, WordNat
    <3> QED
      BY <3>1, Below
  <2>3. Flip(2 * w)[z] = IF Bit(z, 2 * w) = 0 THEN z + 2 * w ELSE z - 2 * w
    <3> HIDE DEF z
    <3> QED
      BY <1>1, <2>1, FlipWord
  <2>4. 2 * y - 65536 = Flip(2 * w)[z]
    <3>1. CASE Bit(x, w) = 0
      BY <1>3, <1>4, <1>6, <2>2, <2>3, <3>1
    <3>2. CASE Bit(x, w) # 0
      BY <1>3, <1>4, <1>6, <2>2, <2>3, <3>2
    <3> QED
      BY <3>1, <3>2
  <2> HIDE DEF z
  <2>5. Flip1021(Flip(2 * w)[z]) = Flip(2 * w)[Flip1021(z)]
    BY <1>1, <2>1, Flip1021Word
  <2> QED
    BY <1>1, <2>1, <2>4, <2>5 DEF y
<1> QED
  BY <1>7, <1>8

\* and makes of the uppermost one the polynomial.
LEMMA RoundDrops ==
  ASSUME NEW x \in Word
  PROVE  Round[Flip(32768)[x]] = Flip1021(Round[x])
<1>1. 32768 \in Weight
  BY DEF Weight
<1>2. x \in Nat
  BY WordNat
<1> DEFINE y == Flip(32768)[x]
<1>3. /\ y \in Word /\ y = IF Bit(x, 32768) = 0 THEN x + 32768 ELSE x - 32768
      /\ Bit(y, 32768) = 1 - Bit(x, 32768) /\ Bit(x, 32768) \in {0, 1}
  BY <1>1, <1>2, FlipWord, SameBit, BitType
<1> HIDE DEF y
<1>4. CASE Bit(x, 32768) = 0
  <2>1. Round[x] = 2 * x /\ Round[y] = Flip1021(2 * y - 65536)
    BY <1>3, <1>4, RoundWord
  <2>2. 2 * y - 65536 = 2 * x
    BY <1>2, <1>3, <1>4
  <2> QED
    BY <2>1, <2>2 DEF y
<1>5. CASE Bit(x, 32768) # 0
  <2>1. /\ Round[x] = Flip1021(2 * x - 65536) /\ 2 * x - 65536 \in Word
        /\ Round[y] = 2 * y
    BY <1>3, <1>5, RoundWord
  <2>2. 2 * y = 2 * x - 65536
    BY <1>2, <1>3, <1>5
  <2>3. Flip1021(Flip1021(2 * x - 65536)) = 2 * x - 65536
    BY <2>1, Flip1021Word
  <2> QED
    BY <2>1, <2>2, <2>3 DEF y
<1> QED
  BY <1>4, <1>5

-----------------------------------------------------------------------------
(* A byte of crc_add is eight times a bit and a round.                       *)

FlipIf(b, w, x) == IF b = 0 THEN x ELSE Flip(w)[x]

\* A bit turned over before a round is the next one turned over after it.
LEMMA FlipIfWord ==
  ASSUME NEW b, NEW w \in Weight, NEW x \in Word
  PROVE  /\ FlipIf(b, w, x) \in Word
         /\ w # 32768 => Round[FlipIf(b, w, x)] = FlipIf(b, 2 * w, Round[x])
  BY FlipWord, RoundShifts DEF FlipIf

\* The bits, first to last, added from the first bit of a word on.
Mix(b1, b2, b3, b4, b5, b6, b7, b8, x) ==
  FlipIf(b8, 256, FlipIf(b7, 512, FlipIf(b6, 1024, FlipIf(b5, 2048,
    FlipIf(b4, 4096, FlipIf(b3, 8192, FlipIf(b2, 16384, FlipIf(b1, 32768, x))))))))

\* A bit of the data enters at the top of the word, and then comes a round.
Enter(b, x) == Round[FlipIf(b, 32768, x)]

LEMMA EnterWord ==
  ASSUME NEW b, NEW x \in Word
  PROVE  Enter(b, x) \in Word
<1>1. 32768 \in Weight
  BY DEF Weight
<1> QED
  BY <1>1, FlipIfWord, RoundWord DEF Enter

\* A round takes one of the eight bits and moves the others up.
LEMMA MixShifts ==
  ASSUME NEW b1, NEW b2, NEW b3, NEW b4, NEW b5, NEW b6, NEW b7, NEW b8,
         NEW x \in Word
  PROVE  Round[Mix(b1, b2, b3, b4, b5, b6, b7, b8, x)] =
           Mix(b2, b3, b4, b5, b6, b7, b8, 0, Enter(b1, x))
<1>1. /\ 32768 \in Weight /\ 16384 \in Weight /\ 8192 \in Weight /\ 4096 \in Weight
      /\ 2048 \in Weight /\ 1024 \in Weight /\ 512 \in Weight /\ 256 \in Weight
  BY DEF Weight
<1> DEFINE x1 == FlipIf(b1, 32768, x)
           x2 == FlipIf(b2, 16384, x1)
           x3 == FlipIf(b3, 8192, x2)
           x4 == FlipIf(b4, 4096, x3)
           x5 == FlipIf(b5, 2048, x4)
           x6 == FlipIf(b6, 1024, x5)
           x7 == FlipIf(b7, 512, x6)
           x8 == FlipIf(b8, 256, x7)
<1>2. x1 \in Word /\ Round[x1] = Enter(b1, x)
  BY <1>1, FlipIfWord DEF Enter
<1>3. x2 \in Word /\ Round[x2] = FlipIf(b2, 32768, Round[x1])
  <2>1. 16384 # 32768 /\ 2 * 16384 = 32768
    OBVIOUS
  <2> HIDE DEF x1
  <2> QED
    BY <1>1, <1>2, <2>1, FlipIfWord DEF x2
<1>4. x3 \in Word /\ Round[x3] = FlipIf(b3, 16384, Round[x2])
  <2>1. 8192 # 32768 /\ 2 * 8192 = 16384
    OBVIOUS
  <2> HIDE DEF x2
  <2> QED
    BY <1>1, <1>3, <2>1, FlipIfWord DEF x3
<1>5. x4 \in Word /\ Round[x4] = FlipIf(b4, 8192, Round[x3])
  <2>1. 4096 # 32768 /\ 2 * 4096 = 8192
    OBVIOUS
  <2> HIDE DEF x3
  <2> QED
    BY <1>1, <1>4, <2>1, FlipIfWord DEF x4
<1>6. x5 \in Word /\ Round[x5] = FlipIf(b5, 4096, Round[x4])
  <2>1. 2048 # 32768 /\ 2 * 2048 = 4096
    OBVIOUS
  <2> HIDE DEF x4
  <2> QED
    BY <1>1, <1>5, <2>1, FlipIfWord DEF x5
<1>7. x6 \in Word /\ Round[x6] = FlipIf(b6, 2048, Round[x5])
  <2>1. 1024 # 32768 /\ 2 * 1024 = 2048
    OBVIOUS
  <2> HIDE DEF x5
  <2> QED
    BY <1>1, <1>6, <2>1, FlipIfWord DEF x6
<1>8. x7 \in Word /\ Round[x7] = FlipIf(b7, 1024, Round[x6])
  <2>1. 512 # 32768 /\ 2 * 512 = 1024
    OBVIOUS
  <2> HIDE DEF x6
  <2> QED
    BY <1>1, <1>7, <2>1, FlipIfWord DEF x7
<1>9. x8 \in Word /\ Round[x8] = FlipIf(b8, 512, Round[x7])
  <2>1. 256 # 32768 /\ 2 * 256 = 512
    OBVIOUS
  <2> HIDE DEF x7
  <2> QED
    BY <1>1, <1>8, <2>1, FlipIfWord DEF x8
<1> HIDE DEF x1, x2, x3, x4, x5, x6, x7
<1>10. Round[x8] = FlipIf(b8, 512, FlipIf(b7, 1024, FlipIf(b6, 2048, FlipIf(b5, 4096,
         FlipIf(b4, 8192, FlipIf(b3, 16384, FlipIf(b2, 32768, Enter(b1, x))))))))
  BY <1>2, <1>3, <1>4, <1>5, <1>6, <1>7, <1>8, <1>9
<1>11. Mix(b1, b2, b3, b4, b5, b6, b7, b8, x) = x8
  BY DEF Mix, x1, x2, x3, x4, x5, x6, x7, x8
<1>12. \A y : FlipIf(0, 256, y) = y
  BY DEF FlipIf
<1> HIDE DEF x8
<1> QED
  BY <1>10, <1>11, <1>12 DEF Mix

\* The registers that eight bits lead through.
EnterByte(v, x) ==
  Enter(Bit(v, 1), Enter(Bit(v, 2), Enter(Bit(v, 4), Enter(Bit(v, 8),
    Enter(Bit(v, 16), Enter(Bit(v, 32), Enter(Bit(v, 64), Enter(Bit(v, 128), x))))))))

\* A byte entered into the upper half gives a word.
LEMMA EnterByteWord ==
  ASSUME NEW v, NEW x \in Word
  PROVE  EnterByte(v, x) \in Word
<1> DEFINE x1 == Enter(Bit(v, 128), x)
           x2 == Enter(Bit(v, 64), x1)
           x3 == Enter(Bit(v, 32), x2)
           x4 == Enter(Bit(v, 16), x3)
           x5 == Enter(Bit(v, 8), x4)
           x6 == Enter(Bit(v, 4), x5)
           x7 == Enter(Bit(v, 2), x6)
<1>1. x1 \in Word
  BY EnterWord
<1>2. x2 \in Word
  <2> HIDE DEF x1
  <2> QED
    BY <1>1, EnterWord DEF x2
<1>3. x3 \in Word
  <2> HIDE DEF x2
  <2> QED
    BY <1>2, EnterWord DEF x3
<1>4. x4 \in Word
  <2> HIDE DEF x3
  <2> QED
    BY <1>3, EnterWord DEF x4
<1>5. x5 \in Word
  <2> HIDE DEF x4
  <2> QED
    BY <1>4, EnterWord DEF x5
<1>6. x6 \in Word
  <2> HIDE DEF x5
  <2> QED
    BY <1>5, EnterWord DEF x6
<1>7. x7 \in Word
  <2> HIDE DEF x6
  <2> QED
    BY <1>6, EnterWord DEF x7
<1>8. Enter(Bit(v, 1), x7) \in Word
  <2> HIDE DEF x7
  <2> QED
    BY <1>7, EnterWord
<1> QED
  BY <1>8 DEF EnterByte

\* Eight rounds of a word to whose high byte v was added.
LEMMA MixedRounds ==
  ASSUME NEW v, NEW x \in Word,
         NEW r0, r0 = Mix(Bit(v, 128), Bit(v, 64), Bit(v, 32), Bit(v, 16),
                          Bit(v, 8), Bit(v, 4), Bit(v, 2), Bit(v, 1), x)
  PROVE  Round[Round[Round[Round[Round[Round[Round[Round[r0]]]]]]]]
           = EnterByte(v, x)
<1> DEFINE x1 == Enter(Bit(v, 128), x)
           x2 == Enter(Bit(v, 64), x1)
           x3 == Enter(Bit(v, 32), x2)
           x4 == Enter(Bit(v, 16), x3)
           x5 == Enter(Bit(v, 8), x4)
           x6 == Enter(Bit(v, 4), x5)
           x7 == Enter(Bit(v, 2), x6)
           x8 == Enter(Bit(v, 1), x7)
<1>1. x1 \in Word
  BY EnterWord
<1>2. x2 \in Word
  <2> HIDE DEF x1
  <2> QED
    BY <1>1, EnterWord DEF x2
<1>3. x3 \in Word
  <2> HIDE DEF x2
  <2> QED
    BY <1>2, EnterWord DEF x3
<1>4. x4 \in Word
  <2> HIDE DEF x3
  <2> QED
    BY <1>3, EnterWord DEF x4
<1>5. x5 \in Word
  <2> HIDE DEF x4
  <2> QED
    BY <1>4, EnterWord DEF x5
<1>6. x6 \in Word
  <2> HIDE DEF x5
  <2> QED
    BY <1>5, EnterWord DEF x6
<1>7. x7 \in Word
  <2> HIDE DEF x6
  <2> QED
    BY <1>6, EnterWord DEF x7
<1>8. x8 \in Word
  <2> HIDE DEF x7
  <2> QED
    BY <1>7, EnterWord DEF x8
<1> HIDE DEF x1, x2, x3, x4, x5, x6, x7, x8
<1> DEFINE r1 == Round[r0]
           r2 == Round[r1]
           r3 == Round[r2]
           r4 == Round[r3]
           r5 == Round[r4]
           r6 == Round[r5]
           r7 == Round[r6]
           r8 == Round[r7]
<1>9. r1 = Mix(Bit(v, 64), Bit(v, 32), Bit(v, 16), Bit(v, 8),
                 Bit(v, 4), Bit(v, 2), Bit(v, 1), 0, x1)
  BY MixShifts DEF x1
<1>10. r2 = Mix(Bit(v, 32), Bit(v, 16), Bit(v, 8), Bit(v, 4),
                 Bit(v, 2), Bit(v, 1), 0, 0, x2)
  <2> HIDE DEF r1
  <2> QED
    BY <1>9, <1>1, MixShifts DEF r2, x2
<1>11. r3 = Mix(Bit(v, 16), Bit(v, 8), Bit(v, 4), Bit(v, 2),
                 Bit(v, 1), 0, 0, 0, x3)
  <2> HIDE DEF r2
  <2> QED
    BY <1>10, <1>2, MixShifts DEF r3, x3
<1>12. r4 = Mix(Bit(v, 8), Bit(v, 4), Bit(v, 2), Bit(v, 1),
                 0, 0, 0, 0, x4)
  <2> HIDE DEF r3
  <2> QED
    BY <1>11, <1>3, MixShifts DEF r4, x4
<1>13. r5 = Mix(Bit(v, 4), Bit(v, 2), Bit(v, 1), 0,
                 0, 0, 0, 0, x5)
  <2> HIDE DEF r4
  <2> QED
    BY <1>12, <1>4, MixShifts DEF r5, x5
<1>14. r6 = Mix(Bit(v, 2), Bit(v, 1), 0, 0,
                 0, 0, 0, 0, x6)
  <2> HIDE DEF r5
  <2> QED
    BY <1>13, <1>5, MixShifts DEF r6, x6
<1>15. r7 = Mix(Bit(v, 1), 0, 0, 0,
                 0, 0, 0, 0, x7)
  <2> HIDE DEF r6
  <2> QED
    BY <1>14, <1>6, MixShifts DEF r7, x7
<1>16. r8 = Mix(0, 0, 0, 0,
                 0, 0, 0, 0, x8)
  <2> HIDE DEF r7
  <2> QED
    BY <1>15, <1>7, MixShifts DEF r8, x8
<1>17. r8 = x8
  <2> HIDE DEF r8
  <2>1. \A w, y : FlipIf(0, w, y) = y
    BY DEF FlipIf
  <2>2. Mix(0, 0, 0, 0, 0, 0, 0, 0, x8) = x8
    BY <2>1 DEF Mix
  <2> QED
    BY <1>16, <2>2
<1> QED
  BY <1>17 DEF EnterByte, x1, x2, x3, x4, x5, x6, x7, x8

\* crc_add enters the byte and does eight rounds.
LEMMA CrcAddIs ==
  ASSUME NEW c \in Word, NEW v
  PROVE  crc_add(c, v) = EnterByte(v, c)
<1> DEFINE IsMixed(f) ==
             f = [n \in 0..8 |->
                    IF n = 0 THEN c
                    ELSE IF Bit(v, Weights[n]) = 0 THEN f[n - 1]
                    ELSE Flip(256 * Weights[n])[f[n - 1]]]
           mixed == CHOOSE f : IsMixed(f)
           m1 == FlipIf(Bit(v, 128), 32768, c)
           m2 == FlipIf(Bit(v, 64), 16384, m1)
           m3 == FlipIf(Bit(v, 32), 8192, m2)
           m4 == FlipIf(Bit(v, 16), 4096, m3)
           m5 == FlipIf(Bit(v, 8), 2048, m4)
           m6 == FlipIf(Bit(v, 4), 1024, m5)
           m7 == FlipIf(Bit(v, 2), 512, m6)
           m8 == FlipIf(Bit(v, 1), 256, m7)
<1>1. \A n \in 1..8 : Weights[n] = IF n = 1 THEN 128 ELSE IF n = 2 THEN 64
                                    ELSE IF n = 3 THEN 32 ELSE IF n = 4 THEN 16
                                    ELSE IF n = 5 THEN 8 ELSE IF n = 6 THEN 4
                                    ELSE IF n = 7 THEN 2 ELSE 1
  BY DEF Weights
<1>2. \A x, n \in 1..8 :
        (IF Bit(v, Weights[n]) = 0 THEN x ELSE Flip(256 * Weights[n])[x])
          = FlipIf(Bit(v, Weights[n]), 256 * Weights[n], x)
  BY DEF FlipIf
<1> HIDE DEF m1, m2, m3, m4, m5, m6, m7, m8
<1> DEFINE w == [n \in 0..8 |->
                   IF n = 0 THEN c ELSE IF n = 1 THEN m1 ELSE IF n = 2 THEN m2
                   ELSE IF n = 3 THEN m3 ELSE IF n = 4 THEN m4
                   ELSE IF n = 5 THEN m5 ELSE IF n = 6 THEN m6
                   ELSE IF n = 7 THEN m7 ELSE m8]
<1>3. ASSUME NEW n \in 1..8
      PROVE  w[n] = IF Bit(v, Weights[n]) = 0 THEN w[n - 1]
                    ELSE Flip(256 * Weights[n])[w[n - 1]]
  <2>1. CASE n = 1
    <3>1. Weights[n] = 128 /\ 256 * Weights[n] = 32768
      BY <1>1, <2>1
    <3>2. w[n] = m1 /\ w[n - 1] = c
      BY <2>1
    <3> HIDE DEF w
    <3> QED
      BY <3>1, <3>2 DEF m1, FlipIf
  <2>2. CASE n = 2
    <3>1. Weights[n] = 64 /\ 256 * Weights[n] = 16384
      BY <1>1, <2>2
    <3>2. w[n] = m2 /\ w[n - 1] = m1
      BY <2>2
    <3> HIDE DEF w
    <3> QED
      BY <3>1, <3>2 DEF m2, FlipIf
  <2>3. CASE n = 3
    <3>1. Weights[n] = 32 /\ 256 * Weights[n] = 8192
      BY <1>1, <2>3
    <3>2. w[n] = m3 /\ w[n - 1] = m2
      BY <2>3
    <3> HIDE DEF w
    <3> QED
      BY <3>1, <3>2 DEF m3, FlipIf
  <2>4. CASE n = 4
    <3>1. Weights[n] = 16 /\ 256 * Weights[n] = 4096
      BY <1>1, <2>4
    <3>2. w[n] = m4 /\ w[n - 1] = m3
      BY <2>4
    <3> HIDE DEF w
    <3> QED
      BY <3>1, <3>2 DEF m4, FlipIf
  <2>5. CASE n = 5
    <3>1. Weights[n] = 8 /\ 256 * Weights[n] = 2048
      BY <1>1, <2>5
    <3>2. w[n] = m5 /\ w[n - 1] = m4
      BY <2>5
    <3> HIDE DEF w
    <3> QED
      BY <3>1, <3>2 DEF m5, FlipIf
  <2>6. CASE n = 6
    <3>1. Weights[n] = 4 /\ 256 * Weights[n] = 1024
      BY <1>1, <2>6
    <3>2. w[n] = m6 /\ w[n - 1] = m5
      BY <2>6
    <3> HIDE DEF w
    <3> QED
      BY <3>1, <3>2 DEF m6, FlipIf
  <2>7. CASE n = 7
    <3>1. Weights[n] = 2 /\ 256 * Weights[n] = 512
      BY <1>1, <2>7
    <3>2. w[n] = m7 /\ w[n - 1] = m6
      BY <2>7
    <3> HIDE DEF w
    <3> QED
      BY <3>1, <3>2 DEF m7, FlipIf
  <2>8. CASE n = 8
    <3>1. Weights[n] = 1 /\ 256 * Weights[n] = 256
      BY <1>1, <2>8
    <3>2. w[n] = m8 /\ w[n - 1] = m7
      BY <2>8
    <3> HIDE DEF w
    <3> QED
      BY <3>1, <3>2 DEF m8, FlipIf
  <2> HIDE DEF w
  <2>9. n \in {1, 2, 3, 4, 5, 6, 7, 8}
    OBVIOUS
  <2> QED
    BY <2>1, <2>2, <2>3, <2>4, <2>5, <2>6, <2>7, <2>8, <2>9
<1>4. IsMixed(w)
  <2>1. w[0] = c /\ w = [n \in 0..8 |-> w[n]]
    OBVIOUS
  <2> HIDE DEF w
  <2> QED
    BY <1>3, <2>1
<1>5. IsMixed(mixed)
  <2> HIDE DEF IsMixed, w
  <2> QED
    BY <1>4
<1>6. mixed[8] = m8
  <2>0. mixed[0] = c
    <3> HIDE DEF mixed
    <3> QED
      BY <1>5
  <2>9. ASSUME NEW n \in 1..8
        PROVE  mixed[n] = FlipIf(Bit(v, Weights[n]), 256 * Weights[n], mixed[n - 1])
    <3> HIDE DEF mixed
    <3> QED
      BY <1>5 DEF FlipIf
  <2>1. mixed[1] = m1
    <3>1. Weights[1] = 128 /\ 256 * Weights[1] = 32768 /\ 1 \in 1..8 /\ 1 - 1 = 0
      BY <1>1
    <3> HIDE DEF mixed, IsMixed
    <3> QED
      BY <2>0, <2>9, <3>1 DEF m1
  <2>2. mixed[2] = m2
    <3>1. Weights[2] = 64 /\ 256 * Weights[2] = 16384 /\ 2 \in 1..8 /\ 2 - 1 = 1
      BY <1>1
    <3> HIDE DEF mixed, IsMixed
    <3> QED
      BY <2>1, <2>9, <3>1 DEF m2
  <2>3. mixed[3] = m3
    <3>1. Weights[3] = 32 /\ 256 * Weights[3] = 8192 /\ 3 \in 1..8 /\ 3 - 1 = 2
      BY <1>1
    <3> HIDE DEF mixed, IsMixed
    <3> QED
      BY <2>2, <2>9, <3>1 DEF m3
  <2>4. mixed[4] = m4
    <3>1. Weights[4] = 16 /\ 256 * Weights[4] = 4096 /\ 4 \in 1..8 /\ 4 - 1 = 3
      BY <1>1
    <3> HIDE DEF mixed, IsMixed
    <3> QED
      BY <2>3, <2>9, <3>1 DEF m4
  <2>5. mixed[5] = m5
    <3>1. Weights[5] = 8 /\ 256 * Weights[5] = 2048 /\ 5 \in 1..8 /\ 5 - 1 = 4
      BY <1>1
    <3> HIDE DEF mixed, IsMixed
    <3> QED
      BY <2>4, <2>9, <3>1 DEF m5
  <2>6. mixed[6] = m6
    <3>1. Weights[6] = 4 /\ 256 * Weights[6] = 1024 /\ 6 \in 1..8 /\ 6 - 1 = 5
      BY <1>1
    <3> HIDE DEF mixed, IsMixed
    <3> QED
      BY <2>5, <2>9, <3>1 DEF m6
  <2>7. mixed[7] = m7
    <3>1. Weights[7] = 2 /\ 256 * Weights[7] = 512 /\ 7 \in 1..8 /\ 7 - 1 = 6
      BY <1>1
    <3> HIDE DEF mixed, IsMixed
    <3> QED
      BY <2>6, <2>9, <3>1 DEF m7
  <2>8. mixed[8] = m8
    <3>1. Weights[8] = 1 /\ 256 * Weights[8] = 256 /\ 8 \in 1..8 /\ 8 - 1 = 7
      BY <1>1
    <3> HIDE DEF mixed, IsMixed
    <3> QED
      BY <2>7, <2>9, <3>1 DEF m8
  <2> QED
    BY <2>8
<1> DEFINE IsAfter(f) == f = [n \in 0..8 |-> IF n = 0 THEN mixed[8] ELSE Round[f[n - 1]]]
           after == CHOOSE f : IsAfter(f)
           r1 == Round[m8]
           r2 == Round[r1]
           r3 == Round[r2]
           r4 == Round[r3]
           r5 == Round[r4]
           r6 == Round[r5]
           r7 == Round[r6]
           r8 == Round[r7]
<1> HIDE DEF IsMixed, mixed, w, r1, r2, r3, r4, r5, r6, r7, r8
<1> DEFINE u == [n \in 0..8 |->
                   IF n = 0 THEN m8 ELSE IF n = 1 THEN r1 ELSE IF n = 2 THEN r2
                   ELSE IF n = 3 THEN r3 ELSE IF n = 4 THEN r4
                   ELSE IF n = 5 THEN r5 ELSE IF n = 6 THEN r6
                   ELSE IF n = 7 THEN r7 ELSE r8]
<1>7. ASSUME NEW n \in 1..8
      PROVE  u[n] = Round[u[n - 1]]
  <2>1. CASE n = 1
    <3>1. u[n] = r1 /\ u[n - 1] = m8
      BY <2>1
    <3> HIDE DEF u
    <3> QED
      BY <3>1 DEF r1
  <2>2. CASE n = 2
    <3>1. u[n] = r2 /\ u[n - 1] = r1
      BY <2>2
    <3> HIDE DEF u
    <3> QED
      BY <3>1 DEF r2
  <2>3. CASE n = 3
    <3>1. u[n] = r3 /\ u[n - 1] = r2
      BY <2>3
    <3> HIDE DEF u
    <3> QED
      BY <3>1 DEF r3
  <2>4. CASE n = 4
    <3>1. u[n] = r4 /\ u[n - 1] = r3
      BY <2>4
    <3> HIDE DEF u
    <3> QED
      BY <3>1 DEF r4
  <2>5. CASE n = 5
    <3>1. u[n] = r5 /\ u[n - 1] = r4
      BY <2>5
    <3> HIDE DEF u
    <3> QED
      BY <3>1 DEF r5
  <2>6. CASE n = 6
    <3>1. u[n] = r6 /\ u[n - 1] = r5
      BY <2>6
    <3> HIDE DEF u
    <3> QED
      BY <3>1 DEF r6
  <2>7. CASE n = 7
    <3>1. u[n] = r7 /\ u[n - 1] = r6
      BY <2>7
    <3> HIDE DEF u
    <3> QED
      BY <3>1 DEF r7
  <2>8. CASE n = 8
    <3>1. u[n] = r8 /\ u[n - 1] = r7
      BY <2>8
    <3> HIDE DEF u
    <3> QED
      BY <3>1 DEF r8
  <2> HIDE DEF u
  <2>9. n \in {1, 2, 3, 4, 5, 6, 7, 8}
    OBVIOUS
  <2> QED
    BY <2>1, <2>2, <2>3, <2>4, <2>5, <2>6, <2>7, <2>8, <2>9
<1>8. IsAfter(u)
  <2>1. u[0] = m8 /\ u = [n \in 0..8 |-> u[n]]
    OBVIOUS
  <2> HIDE DEF u
  <2> QED
    BY <1>6, <1>7, <2>1
<1>9. IsAfter(after)
  <2> HIDE DEF IsAfter, u
  <2> QED
    BY <1>8
<1>10. after[8] = r8
  <2> HIDE DEF after
  <2>0. after[0] = m8
    BY <1>6, <1>9
  <2>1. after[1] = r1
    BY <1>9, <2>0 DEF r1
  <2>2. after[2] = r2
    BY <1>9, <2>1 DEF r2
  <2>3. after[3] = r3
    BY <1>9, <2>2 DEF r3
  <2>4. after[4] = r4
    BY <1>9, <2>3 DEF r4
  <2>5. after[5] = r5
    BY <1>9, <2>4 DEF r5
  <2>6. after[6] = r6
    BY <1>9, <2>5 DEF r6
  <2>7. after[7] = r7
    BY <1>9, <2>6 DEF r7
  <2>8. after[8] = r8
    BY <1>9, <2>7 DEF r8
  <2> QED
    BY <2>8
<1>11. crc_add(c, v) = after[8]
  BY DEF crc_add, after, IsAfter, mixed, IsMixed
<1>12. m8 = Mix(Bit(v, 128), Bit(v, 64), Bit(v, 32), Bit(v, 16),
               Bit(v, 8), Bit(v, 4), Bit(v, 2), Bit(v, 1), c)
  BY DEF Mix, m1, m2, m3, m4, m5, m6, m7, m8
<1>13. Round[Round[Round[Round[Round[Round[Round[Round[m8]]]]]]]] = EnterByte(v, c)
  <2> HIDE DEF m8
  <2> QED
    BY <1>12, MixedRounds
<1> QED
  BY <1>10, <1>11, <1>13 DEF r1, r2, r3, r4, r5, r6, r7, r8

\* So that the check of a packet is a word.
LEMMA CrcAddWord ==
  ASSUME NEW c \in Word, NEW v
  PROVE  crc_add(c, v) \in Word
  BY CrcAddIs, EnterByteWord

-----------------------------------------------------------------------------
(* The division.  Sixteen rounds lead from what the division has left over     *)
(* after some bits to the register of crc_add after the same bits.            *)

BroughtDown(r, b) ==
  LET q == 2 * r + b IN IF q \in Word THEN q ELSE Flip1021(q - 65536)

\* Division brings the bits of the data down one by one.
LEMMA BroughtDownIs ==
  ASSUME NEW r \in Word, NEW b \in {0, 1}
  PROVE  BroughtDown(r, b) = FlipIf(b, 1, Round[r]) /\ BroughtDown(r, b) \in Word
<1>1. 1 \in Weight
  BY DEF Weight
<1>2. r \in Nat /\ r < 65536
  BY WordNat
<1>3. BroughtDown(r, b) = FlipIf(b, 1, Round[r])
  <2>1. CASE Bit(r, 32768) = 0
    <3>1. Round[r] = 2 * r /\ 2 * r \in Word
      BY <2>1, RoundWord
    <3>2. Flip(1)[2 * r] = 2 * r + 1 /\ Flip(1)[2 * r] \in Word
      <4>1. Flip(1)[2 * r] = (IF Bit(2 * r, 1) = 0 THEN 2 * r + 1 ELSE 2 * r - 1)
            /\ Flip(1)[2 * r] \in Word
        BY <1>1, <3>1, FlipWord
      <4>2. Bit(2 * r, 1) = 0
        BY <1>2 DEF Bit
      <4> QED
        BY <4>1, <4>2
    <3>3. 2 * r + b \in Word
      <4>1. CASE b = 0
        BY <1>2, <3>1, <4>1
      <4>2. CASE b = 1
        BY <3>2, <4>2
      <4> QED
        BY <4>1, <4>2
    <3>4. BroughtDown(r, b) = 2 * r + b
      BY <3>3 DEF BroughtDown
    <3>5. CASE b = 0
      BY <1>2, <3>1, <3>4, <3>5 DEF FlipIf
    <3>6. CASE b = 1
      BY <3>1, <3>2, <3>4, <3>6 DEF FlipIf
    <3> QED
      BY <3>5, <3>6
  <2>2. CASE Bit(r, 32768) # 0
    <3> DEFINE z == 2 * r - 65536
               q == 2 * r + b
    <3>1. Round[r] = Flip1021(z) /\ z \in Word
      BY <2>2, RoundWord
    <3>2. q - 65536 = FlipIf(b, 1, z)
      <4>1. CASE b = 0
        BY <1>2, <4>1 DEF FlipIf
      <4>2. CASE b = 1
        <5>1. Flip(1)[z] = IF Bit(z, 1) = 0 THEN z + 1 ELSE z - 1
          <6> HIDE DEF z
          <6> QED
            BY <1>1, <3>1, FlipWord
        <5>2. Bit(z, 1) = 0
          <6>1. z = 2 * (r - 32768) /\ z \in Nat
            BY <1>2, <3>1, WordNat
          <6>2. z \div 1 = z
            BY <6>1
          <6> HIDE DEF z
          <6> QED
            BY <1>2, <6>1, <6>2 DEF Bit
        <5> QED
          BY <1>2, <4>2, <5>1, <5>2 DEF FlipIf
      <4> QED
        BY <4>1, <4>2
    <3>3. 2 * r + b \notin Word
      <4>1. z \in Nat
        BY <3>1, WordNat
      <4>2. ~(2 * r + b < 65536)
        BY <1>2, <4>1
      <4> QED
        BY <4>2, WordNat
    <3>4. BroughtDown(r, b) = Flip1021(q - 65536)
      <4>1. BroughtDown(r, b) = IF q \in Word THEN q ELSE Flip1021(q - 65536)
        BY DEF BroughtDown
      <4>2. q \notin Word
        BY <3>3
      <4> HIDE DEF q
      <4> QED
        BY <4>1, <4>2
    <3>5. Flip1021(FlipIf(b, 1, z)) = FlipIf(b, 1, Flip1021(z))
      <4> HIDE DEF z
      <4> QED
        BY <1>1, <3>1, Flip1021Word DEF FlipIf
    <3> HIDE DEF q, z
    <3> QED
      BY <3>1, <3>2, <3>4, <3>5
  <2> QED
    BY <2>1, <2>2
<1>4. FlipIf(b, 1, Round[r]) \in Word
  BY <1>1, RoundWord, FlipIfWord
<1> QED
  BY <1>3, <1>4

Four(x) == Round[Round[Round[Round[x]]]]
Sixteen(x) == Four(Four(Four(Four(x))))

\* Rounds keep a word a word.
LEMMA FourWord ==
  ASSUME NEW x \in Word
  PROVE  /\ Four(x) \in Word
         /\ Four(Flip(1)[x]) = Flip(16)[Four(x)]
         /\ Four(Flip(16)[x]) = Flip(256)[Four(x)]
         /\ Four(Flip(256)[x]) = Flip(4096)[Four(x)]
         /\ Four(Flip(4096)[x]) = Flip1021(Four(x))
<1> DEFINE x1 == Round[x]
           x2 == Round[x1]
           x3 == Round[x2]
           x4 == Round[x3]
<1>1. x1 \in Word
  BY RoundWord
<1>2. x2 \in Word
  <2> HIDE DEF x1
  <2> QED
    BY <1>1, RoundWord
<1>3. x3 \in Word
  <2> HIDE DEF x2
  <2> QED
    BY <1>2, RoundWord
<1>4. x4 \in Word
  <2> HIDE DEF x3
  <2> QED
    BY <1>3, RoundWord
<1>5. Four(x) = x4
  BY DEF Four
<1> HIDE DEF x1, x2, x3, x4
<1>6. ASSUME NEW w \in {1, 16, 256, 4096}
      PROVE  Round[Round[Round[Flip(w)[x]]]] = Flip(8 * w)[x3]
  <2>1. /\ w \in Weight /\ 2 * w \in Weight /\ 4 * w \in Weight
        /\ w # 32768 /\ 2 * w # 32768 /\ 4 * w # 32768
    BY DEF Weight
  <2>2. w \in Nat /\ 2 * (2 * w) = 4 * w /\ 2 * (4 * w) = 8 * w
    OBVIOUS
  <2>3. Round[Flip(w)[x]] = Flip(2 * w)[x1]
    BY <2>1, RoundShifts DEF x1
  <2>4. Round[Flip(2 * w)[x1]] = Flip(4 * w)[x2]
    BY <1>1, <2>1, <2>2, RoundShifts DEF x2
  <2>5. Round[Flip(4 * w)[x2]] = Flip(8 * w)[x3]
    BY <1>2, <2>1, <2>2, RoundShifts DEF x3
  <2> QED
    BY <2>3, <2>4, <2>5
<1>7. Four(Flip(1)[x]) = Flip(16)[x4]
  <2>1. 8 \in Weight /\ 8 # 32768 /\ 8 * 1 = 8 /\ 2 * 8 = 16
    BY DEF Weight
  <2>2. Round[Round[Round[Flip(1)[x]]]] = Flip(8)[x3]
    BY <1>6, <2>1
  <2>3. Round[Flip(8)[x3]] = Flip(16)[x4]
    BY <1>3, <2>1, RoundShifts DEF x4
  <2> QED
    BY <2>2, <2>3 DEF Four
<1>8. Four(Flip(16)[x]) = Flip(256)[x4]
  <2>1. 128 \in Weight /\ 128 # 32768 /\ 8 * 16 = 128 /\ 2 * 128 = 256
    BY DEF Weight
  <2>2. Round[Round[Round[Flip(16)[x]]]] = Flip(128)[x3]
    BY <1>6, <2>1
  <2>3. Round[Flip(128)[x3]] = Flip(256)[x4]
    BY SMTT(30), <1>3, <2>1, RoundShifts DEF x4
  <2> QED
    BY <2>2, <2>3 DEF Four
<1>9. Four(Flip(256)[x]) = Flip(4096)[x4]
  <2>1. 2048 \in Weight /\ 2048 # 32768 /\ 8 * 256 = 2048 /\ 2 * 2048 = 4096
    BY DEF Weight
  <2>2. Round[Round[Round[Flip(256)[x]]]] = Flip(2048)[x3]
    BY <1>6, <2>1
  <2>3. Round[Flip(2048)[x3]] = Flip(4096)[x4]
    BY <1>3, <2>1, RoundShifts DEF x4
  <2> QED
    BY <2>2, <2>3 DEF Four
<1>10. Four(Flip(4096)[x]) = Flip1021(x4)
  <2>1. Round[Round[Round[Flip(4096)[x]]]] = Flip(32768)[x3]
    <3>1. ASSUME NEW w \in {1, 16, 256, 4096}, w = 4096
          PROVE  Round[Round[Round[Flip(w)[x]]]] = Flip(8 * w)[x3] /\ 8 * w = 32768
      BY <1>6, <3>1
    <3> QED
      BY <3>1
  <2>2. Round[Flip(32768)[x3]] = Flip1021(x4)
    BY <1>3, RoundDrops DEF x4
  <2> QED
    BY <2>1, <2>2 DEF Four
<1> QED
  BY <1>4, <1>5, <1>7, <1>8, <1>9, <1>10

\* A bit brought down in the division is a bit that enters the register.
LEMMA SixteenEnters ==
  ASSUME NEW r \in Word, NEW b \in {0, 1}
  PROVE  Sixteen(BroughtDown(r, b)) = Enter(b, Sixteen(r)) /\ Sixteen(r) \in Word
<1>1. BroughtDown(r, b) = FlipIf(b, 1, Round[r])
  BY BroughtDownIs
<1>2. \A x \in Word : Sixteen(x) \in Word /\ Sixteen(Flip(1)[x]) = Flip1021(Sixteen(x))
  <2> SUFFICES ASSUME NEW x \in Word
               PROVE  Sixteen(x) \in Word /\ Sixteen(Flip(1)[x]) = Flip1021(Sixteen(x))
    OBVIOUS
  <2>1. Four(x) \in Word /\ Four(Flip(1)[x]) = Flip(16)[Four(x)]
    BY FourWord
  <2>2. /\ Four(Four(x)) \in Word
        /\ Four(Flip(16)[Four(x)]) = Flip(256)[Four(Four(x))]
    BY <2>1, FourWord
  <2>3. /\ Four(Four(Four(x))) \in Word
        /\ Four(Flip(256)[Four(Four(x))]) = Flip(4096)[Four(Four(Four(x)))]
    BY <2>2, FourWord
  <2>4. /\ Four(Four(Four(Four(x)))) \in Word
        /\ Four(Flip(4096)[Four(Four(Four(x)))]) = Flip1021(Four(Four(Four(Four(x)))))
    BY <2>3, FourWord
  <2> QED
    BY <2>1, <2>2, <2>3, <2>4 DEF Sixteen
<1>3. Sixteen(Round[r]) = Round[Sixteen(r)]
  BY DEF Sixteen, Four
<1>4. Round[r] \in Word
  BY RoundWord
<1>5. CASE b = 0
  BY <1>1, <1>2, <1>3, <1>5 DEF FlipIf, Enter
<1>6. CASE b = 1
  <2>1. Sixteen(Flip(1)[Round[r]]) = Flip1021(Sixteen(Round[r]))
    BY <1>2, <1>4
  <2>2. Round[Flip(32768)[Sixteen(r)]] = Flip1021(Round[Sixteen(r)])
    BY <1>2, RoundDrops
  <2> QED
    BY <1>1, <1>2, <1>3, <1>6, <2>1, <2>2 DEF FlipIf, Enter
<1> QED
  BY <1>5, <1>6

\* What is brought down in step i.
DataBit(data, i) ==
  IF i > 8 * Len(data) THEN 0
  ELSE Bit(data[1 + (i - 1) \div 8], Weights[1 + ((i - 1) % 8)])

IsRest(f, data) ==
  f = [i \in 0..(8 * Len(data) + 16) |->
         IF i = 0 THEN 0 ELSE BroughtDown(f[i - 1], DataBit(data, i))]

\* The bits of a byte of the data.
LEMMA WeightsType ==
  ASSUME NEW j \in 1..8
  PROVE  Weights[j] \in Nat \ {0}
  BY DEF Weights

LEMMA ByteNat == ASSUME NEW b \in Byte PROVE b \in Nat
  BY DEF Byte

LEMMA DataBitType ==
  ASSUME NEW data \in Seq(Byte), NEW i \in Nat \ {0}
  PROVE  DataBit(data, i) \in {0, 1}
<1>1. CASE i > 8 * Len(data)
  BY <1>1 DEF DataBit
<1>2. CASE ~(i > 8 * Len(data))
  <2> DEFINE k == 1 + (i - 1) \div 8
             j == 1 + ((i - 1) % 8)
  <2>1. Len(data) \in Nat
    BY LenProperties
  <2>2. k \in 1..Len(data) /\ j \in 1..8
    BY <1>2, <2>1
  <2>3. data[k] \in Nat
    <3> HIDE DEF k
    <3>1. data[k] \in Byte
      BY <2>2, ElementOfSeq
    <3> QED
      BY <3>1, ByteNat
  <2>4. Weights[j] \in Nat \ {0}
    <3> HIDE DEF j
    <3> QED
      BY <2>2, WeightsType
  <2>5. DataBit(data, i) = Bit(data[k], Weights[j])
    BY <1>2 DEF DataBit
  <2> HIDE DEF k, j
  <2> QED
    BY <2>3, <2>4, <2>5, BitType
<1> QED
  BY <1>1, <1>2

\* The remainders of the pieces of the data exist,
LEMMA RestExists ==
  ASSUME NEW data
  PROVE  \A n \in Nat : \E f : f = [i \in 0..n |->
           IF i = 0 THEN 0 ELSE BroughtDown(f[i - 1], DataBit(data, i))]
<1> DEFINE N == {n \in Nat : \E f : f = [i \in 0..n |->
                    IF i = 0 THEN 0 ELSE BroughtDown(f[i - 1], DataBit(data, i))]}
<1>1. 0 \in N
  <2> DEFINE f == [i \in 0..0 |-> 0]
  <2>1. f = [i \in 0..0 |->
               IF i = 0 THEN 0 ELSE BroughtDown(f[i - 1], DataBit(data, i))]
    OBVIOUS
  <2> QED
    BY <2>1
<1>2. ASSUME NEW n \in Nat, n \in N
      PROVE  n + 1 \in N
  <2>1. PICK f : f = [i \in 0..n |->
                        IF i = 0 THEN 0 ELSE BroughtDown(f[i - 1], DataBit(data, i))]
    BY <1>2
  <2> DEFINE g == [i \in 0..(n + 1) |->
                     IF i <= n THEN f[i] ELSE BroughtDown(f[n], DataBit(data, n + 1))]
  <2>2. ASSUME NEW i \in 0..(n + 1)
        PROVE  g[i] = IF i = 0 THEN 0 ELSE BroughtDown(g[i - 1], DataBit(data, i))
    <3>1. CASE i = 0
      BY <3>1, <2>1
    <3>2. CASE i \in 1..n
      <4>1. g[i] = f[i] /\ g[i - 1] = f[i - 1]
        BY <3>2
      <4>2. f[i] = BroughtDown(f[i - 1], DataBit(data, i))
        BY <3>2, <2>1
      <4> HIDE DEF g
      <4> QED
        BY <3>2, <4>1, <4>2
    <3>3. CASE i = n + 1
      <4>1. g[i] = BroughtDown(f[n], DataBit(data, n + 1)) /\ g[i - 1] = f[n]
        BY <3>3
      <4> HIDE DEF g
      <4> QED
        BY <3>3, <4>1
    <3> QED
      BY <3>1, <3>2, <3>3
  <2>3. g = [i \in 0..(n + 1) |->
               IF i = 0 THEN 0 ELSE BroughtDown(g[i - 1], DataBit(data, i))]
    <3> HIDE DEF g
    <3>1. g = [i \in 0..(n + 1) |-> g[i]]
      BY DEF g
    <3> QED
      BY <2>2, <3>1
  <2> HIDE DEF g
  <2>4. n + 1 \in Nat
    OBVIOUS
  <2> QED
    BY <2>3, <2>4
<1>3. Nat \subseteq N
  <2> HIDE DEF N
  <2> QED
    BY <1>1, <1>2, SetInduction
<1> QED
  BY <1>3

\* each from the one before it, and are words.
LEMMA RestStep ==
  ASSUME NEW data \in Seq(Byte), NEW f, IsRest(f, data),
         NEW i \in Nat \ {0}, i <= 8 * Len(data) + 16
  PROVE  f[i] = BroughtDown(f[i - 1], DataBit(data, i))
<1> DEFINE n == 8 * Len(data) + 16
<1>1. n \in Nat
  BY LenProperties
<1>2. f = [k \in 0..n |->
             IF k = 0 THEN 0 ELSE BroughtDown(f[k - 1], DataBit(data, k))]
  BY DEF IsRest
<1>3. i <= n
  OBVIOUS
<1> HIDE DEF n
<1>4. i \in 0..n /\ i # 0
  BY <1>1, <1>3
<1> QED
  BY <1>2, <1>4

LEMMA RestWord ==
  ASSUME NEW data \in Seq(Byte), NEW f, IsRest(f, data)
  PROVE  \A i \in 0..(8 * Len(data) + 16) : f[i] \in Word
<1> DEFINE n == 8 * Len(data) + 16
           S == {i \in Nat : i <= n => f[i] \in Word}
<1>1. n \in Nat
  BY LenProperties
<1>2. 0 \in S
  <2>1. f[0] = 0
    BY <1>1 DEF IsRest
  <2>2. 0 \in Word
    BY WordNat
  <2> QED
    BY <2>1, <2>2
<1>3. ASSUME NEW i \in Nat, i \in S
      PROVE  i + 1 \in S
  <2> SUFFICES ASSUME i + 1 <= n PROVE f[i + 1] \in Word
    OBVIOUS
  <2>1. f[i + 1] = BroughtDown(f[i], DataBit(data, i + 1))
    BY <1>1 DEF IsRest
  <2>2. f[i] \in Word
    BY <1>1, <1>3
  <2>3. DataBit(data, i + 1) \in {0, 1}
    BY DataBitType
  <2> QED
    BY <2>1, <2>2, <2>3, BroughtDownIs
<1>4. Nat \subseteq S
  <2> HIDE DEF S
  <2> QED
    BY <1>2, <1>3, SetInduction
<1> QED
  BY <1>1, <1>4

\* The remainder is the last of them.
LEMMA RemainderIs ==
  ASSUME NEW data \in Seq(Byte)
  PROVE  \E f : IsRest(f, data) /\ Remainder(data) = Sixteen(f[8 * Len(data)])
<1> DEFINE n == 8 * Len(data)
           f == CHOOSE g : IsRest(g, data)
<1>1. n \in Nat
  BY LenProperties
<1>2. IsRest(f, data)
  <2>1. n + 16 \in Nat
    BY <1>1
  <2>2. \E g : IsRest(g, data)
    BY <2>1, RestExists DEF IsRest
  <2> QED
    BY <2>2
<1>3. Remainder(data) = f[n + 16]
  BY DEF Remainder, IsRest, BroughtDown, DataBit
<1> HIDE DEF f
<1>4. ASSUME NEW j \in 1..16
      PROVE  f[n + j] = Round[f[n + (j - 1)]]
  <2>1. f[n + j] = BroughtDown(f[n + (j - 1)], DataBit(data, n + j))
    <3>1. /\ n + j \in Nat \ {0} /\ n + j <= 8 * Len(data) + 16
          /\ (n + j) - 1 = n + (j - 1)
      BY <1>1
    <3> HIDE DEF n
    <3> QED
      BY <1>2, <3>1, RestStep
  <2>2. DataBit(data, n + j) = 0
    BY <1>1 DEF DataBit
  <2>3. f[n + (j - 1)] \in Word
    BY <1>1, <1>2, RestWord
  <2>4. BroughtDown(f[n + (j - 1)], 0) = Round[f[n + (j - 1)]]
    BY <2>3, BroughtDownIs DEF FlipIf
  <2> QED
    BY <2>1, <2>2, <2>4
<1>5. f[n + 4] = Four(f[n])
  <2>1. /\ f[n + 1] = Round[f[n + 0]] /\ f[n + 2] = Round[f[n + 1]]
        /\ f[n + 3] = Round[f[n + 2]] /\ f[n + 4] = Round[f[n + 3]]
    BY <1>4
  <2>2. n + 0 = n
    BY <1>1
  <2> HIDE DEF n
  <2> QED
    BY <2>1, <2>2 DEF Four
<1>6. f[n + 8] = Four(f[n + 4])
  <2>1. /\ f[n + 5] = Round[f[n + 4]] /\ f[n + 6] = Round[f[n + 5]]
        /\ f[n + 7] = Round[f[n + 6]] /\ f[n + 8] = Round[f[n + 7]]
    BY <1>4
  <2>2. n + 0 = n
    BY <1>1
  <2> HIDE DEF n
  <2> QED
    BY <2>1, <2>2 DEF Four
<1>7. f[n + 12] = Four(f[n + 8])
  <2>1. /\ f[n + 9] = Round[f[n + 8]] /\ f[n + 10] = Round[f[n + 9]]
        /\ f[n + 11] = Round[f[n + 10]] /\ f[n + 12] = Round[f[n + 11]]
    BY <1>4
  <2>2. n + 0 = n
    BY <1>1
  <2> HIDE DEF n
  <2> QED
    BY <2>1, <2>2 DEF Four
<1>8. f[n + 16] = Four(f[n + 12])
  <2>1. /\ f[n + 13] = Round[f[n + 12]] /\ f[n + 14] = Round[f[n + 13]]
        /\ f[n + 15] = Round[f[n + 14]] /\ f[n + 16] = Round[f[n + 15]]
    BY <1>4
  <2>2. n + 0 = n
    BY <1>1
  <2> HIDE DEF n
  <2> QED
    BY <2>1, <2>2 DEF Four
<1>9. f[n + 16] = Sixteen(f[n])
  BY <1>5, <1>6, <1>7, <1>8 DEF Sixteen
<1> QED
  BY <1>2, <1>3, <1>9

\* One more byte makes one more call of crc_add.
LEMMA RemainderAppend ==
  ASSUME NEW data \in Seq(Byte), NEW v \in Byte
  PROVE  /\ Remainder(data) \in Word
         /\ Remainder(Append(data, v)) = crc_add(Remainder(data), v)
<1> DEFINE L == 8 * Len(data)
           more == Append(data, v)
<1>1. /\ Len(data) \in Nat /\ L \in Nat /\ more \in Seq(Byte)
      /\ Len(more) = Len(data) + 1 /\ 8 * Len(more) = L + 8
  BY LenProperties, AppendProperties
<1>2. PICK f : IsRest(f, data) /\ Remainder(data) = Sixteen(f[L])
  BY RemainderIs
<1>3. PICK g : IsRest(g, more) /\ Remainder(more) = Sixteen(g[L + 8])
  <2>1. \E g : IsRest(g, more) /\ Remainder(more) = Sixteen(g[8 * Len(more)])
    BY <1>1, RemainderIs
  <2> QED
    BY <1>1, <2>1
<1>4. ASSUME NEW i \in 1..L
      PROVE  DataBit(more, i) = DataBit(data, i)
  <2> DEFINE k == 1 + (i - 1) \div 8
  <2>1. k \in 1..Len(data) /\ ~(i > L) /\ ~(i > 8 * Len(more))
    BY <1>1
  <2>2. more[k] = data[k]
    <3> HIDE DEF k
    <3> QED
      BY <2>1, AppendProperties
  <2> HIDE DEF more
  <2> QED
    BY <2>1, <2>2 DEF DataBit
<1>5. g[L] = f[L]
  <2> DEFINE S == {i \in Nat : i <= L => g[i] = f[i]}
  <2>1. 0 \in S
    <3>1. f[0] = 0 /\ g[0] = 0
      BY <1>1, <1>2, <1>3 DEF IsRest
    <3> QED
      BY <3>1
  <2>2. ASSUME NEW i \in Nat, i \in S
        PROVE  i + 1 \in S
    <3> SUFFICES ASSUME i + 1 <= L PROVE g[i + 1] = f[i + 1]
      OBVIOUS
    <3>1. f[i + 1] = BroughtDown(f[i], DataBit(data, i + 1))
      BY <1>1, <1>2 DEF IsRest
    <3>2. g[i + 1] = BroughtDown(g[i], DataBit(more, i + 1))
      BY <1>1, <1>3 DEF IsRest
    <3>3. g[i] = f[i]
      BY <1>1, <2>2
    <3>4. DataBit(more, i + 1) = DataBit(data, i + 1)
      BY <1>1, <1>4
    <3> QED
      BY <3>1, <3>2, <3>3, <3>4
  <2>3. Nat \subseteq S
    <3> HIDE DEF S
    <3> QED
      BY <2>1, <2>2, SetInduction
  <2> QED
    BY <1>1, <2>3
<1>6. ASSUME NEW j \in 1..8
      PROVE  /\ g[L + (j - 1)] \in Word
             /\ g[L + j] = BroughtDown(g[L + (j - 1)], Bit(v, Weights[j]))
             /\ Bit(v, Weights[j]) \in {0, 1}
  <2>1. /\ g[L + j] = BroughtDown(g[L + (j - 1)], DataBit(more, L + j))
        /\ g[L + (j - 1)] \in Word
    <3>1. /\ L + j \in Nat \ {0} /\ L + j <= 8 * Len(more) + 16
          /\ (L + j) - 1 = L + (j - 1) /\ L + (j - 1) \in 0..(8 * Len(more) + 16)
      BY <1>1
    <3> HIDE DEF L, more
    <3> QED
      BY <1>1, <1>3, <3>1, RestStep, RestWord
  <2>2. ~(L + j > 8 * Len(more)) /\ 1 + (L + j - 1) \div 8 = Len(data) + 1
        /\ 1 + ((L + j - 1) % 8) = j
    BY <1>1
  <2>3. more[Len(data) + 1] = v
    BY AppendProperties
  <2>4. DataBit(more, L + j) = Bit(v, Weights[j])
    <3> DEFINE i == L + j
               k == 1 + (i - 1) \div 8
               m == 1 + ((i - 1) % 8)
    <3>1. ~(i > 8 * Len(more)) /\ k = Len(data) + 1 /\ m = j
      BY <2>2
    <3>2. DataBit(more, i) = Bit(more[k], Weights[m])
      <4>1. ~(i > 8 * Len(more))
        BY <3>1
      <4> HIDE DEF i, more
      <4> QED
        BY <4>1 DEF DataBit
    <3> HIDE DEF i, k, m, more
    <3>3. DataBit(more, i) = Bit(v, Weights[j])
      BY <2>3, <3>1, <3>2
    <3> QED
      BY <3>3 DEF i
  <2>5. g[L + (j - 1)] \in Word
    BY <2>1
  <2>6. Bit(v, Weights[j]) \in {0, 1}
    <3>1. v \in Nat /\ Weights[j] \in Nat \ {0}
      BY ByteNat, WeightsType
    <3> QED
      BY <3>1, BitType
  <2> QED
    BY <2>1, <2>4, <2>5, <2>6
<1>7. ASSUME NEW j \in 1..8
      PROVE  /\ Sixteen(g[L + j]) = Enter(Bit(v, Weights[j]), Sixteen(g[L + (j - 1)]))
             /\ Sixteen(g[L + (j - 1)]) \in Word
  BY <1>6, SixteenEnters
<1>8. /\ Weights[1] = 128 /\ Weights[2] = 64 /\ Weights[3] = 32 /\ Weights[4] = 16
      /\ Weights[5] = 8 /\ Weights[6] = 4 /\ Weights[7] = 2 /\ Weights[8] = 1
  BY DEF Weights
<1>9. Sixteen(g[L]) \in Word
  <2>1. L + (1 - 1) = L
    BY <1>1
  <2> HIDE DEF L
  <2> QED
    BY <1>7, <2>1
<1> HIDE DEF L
<1>10. Sixteen(g[L + 1]) = Enter(Bit(v, 128), Sixteen(g[L]))
  <2>1. 1 \in 1..8 /\ L + (1 - 1) = L
    BY <1>1
  <2> QED
    BY <1>7, <1>8, <2>1
<1>11. Sixteen(g[L + 2]) = Enter(Bit(v, 64), Sixteen(g[L + 1]))
  <2>1. 2 \in 1..8 /\ L + (2 - 1) = L + 1
    BY <1>1
  <2> QED
    BY <1>7, <1>8, <2>1
<1>12. Sixteen(g[L + 3]) = Enter(Bit(v, 32), Sixteen(g[L + 2]))
  <2>1. 3 \in 1..8 /\ L + (3 - 1) = L + 2
    BY <1>1
  <2> QED
    BY <1>7, <1>8, <2>1
<1>13. Sixteen(g[L + 4]) = Enter(Bit(v, 16), Sixteen(g[L + 3]))
  <2>1. 4 \in 1..8 /\ L + (4 - 1) = L + 3
    BY <1>1
  <2> QED
    BY <1>7, <1>8, <2>1
<1>14. Sixteen(g[L + 5]) = Enter(Bit(v, 8), Sixteen(g[L + 4]))
  <2>1. 5 \in 1..8 /\ L + (5 - 1) = L + 4
    BY <1>1
  <2> QED
    BY <1>7, <1>8, <2>1
<1>15. Sixteen(g[L + 6]) = Enter(Bit(v, 4), Sixteen(g[L + 5]))
  <2>1. 6 \in 1..8 /\ L + (6 - 1) = L + 5
    BY <1>1
  <2> QED
    BY <1>7, <1>8, <2>1
<1>16. Sixteen(g[L + 7]) = Enter(Bit(v, 2), Sixteen(g[L + 6]))
  <2>1. 7 \in 1..8 /\ L + (7 - 1) = L + 6
    BY <1>1
  <2> QED
    BY <1>7, <1>8, <2>1
<1>17. Sixteen(g[L + 8]) = Enter(Bit(v, 1), Sixteen(g[L + 7]))
  <2>1. 8 \in 1..8 /\ L + (8 - 1) = L + 7
    BY <1>1
  <2> QED
    BY <1>7, <1>8, <2>1
<1>18. Sixteen(g[L + 8]) = EnterByte(v, Sixteen(g[L]))
  BY <1>10, <1>11, <1>12, <1>13, <1>14, <1>15, <1>16, <1>17 DEF EnterByte
<1>19. crc_add(Sixteen(g[L]), v) = EnterByte(v, Sixteen(g[L]))
  BY <1>9, CrcAddIs
<1> QED
  BY <1>2, <1>3, <1>5, <1>9, <1>18, <1>19

\* Nothing leaves nothing over.
LEMMA RemainderEmpty == Remainder(<<>>) = 0
<1>1. <<>> \in Seq(Byte) /\ Len(<<>>) = 0
  OBVIOUS
<1>2. PICK f : IsRest(f, <<>>) /\ Remainder(<<>>) = Sixteen(f[8 * 0])
  BY <1>1, RemainderIs
<1>3. f[0] = 0
  BY <1>1, <1>2 DEF IsRest
<1>4. Round[0] = 0
  <2>1. 0 \in Word /\ Bit(0, 32768) = 0
    BY WordNat DEF Bit
  <2> QED
    BY <2>1, RoundWord
<1>5. Sixteen(0) = 0
  BY <1>4 DEF Sixteen, Four
<1> QED
  BY <1>2, <1>3, <1>5

\* The CRC that a sender computes with the routine of the receiver is the
\* remainder of polynomial division, for data of every length.
THEOREM CrcIsRemainder ==
  ASSUME NEW data \in Seq(Byte)
  PROVE  xmodem_crc16(data) = Remainder(data) /\ xmodem_crc16(data) \in Word
<1> DEFINE n == Len(data)
           IsCrc(f) == f = [i \in 0..n |->
                              IF i = 0 THEN 0 ELSE crc_add(f[i - 1], data[i])]
           f == [i \in 0..n |-> Remainder(SubSeq(data, 1, i))]
           g == CHOOSE h : IsCrc(h)
<1>1. n \in Nat /\ data = SubSeq(data, 1, n)
  BY LenProperties
<1>2. ASSUME NEW i \in 1..n
      PROVE  Remainder(SubSeq(data, 1, i))
               = crc_add(Remainder(SubSeq(data, 1, i - 1)), data[i])
  <2>1. /\ SubSeq(data, 1, i - 1) \in Seq(Byte) /\ data[i] \in Byte
        /\ SubSeq(data, 1, i) = Append(SubSeq(data, 1, i - 1), data[i])
    <3> HIDE DEF Byte
    <3> QED
      BY <1>1
  <2> QED
    BY <2>1, RemainderAppend
<1>3. SubSeq(data, 1, 0) = <<>>
  OBVIOUS
<1>4. ASSUME NEW i \in 0..n
      PROVE  f[i] = IF i = 0 THEN 0 ELSE crc_add(f[i - 1], data[i])
  <2>1. CASE i = 0
    <3>1. f[i] = Remainder(SubSeq(data, 1, 0))
      BY <2>1
    <3> QED
      BY <1>3, <2>1, <3>1, RemainderEmpty
  <2>2. CASE i # 0
    <3>1. i \in 1..n /\ i - 1 \in 0..n
      BY <1>1, <2>2
    <3>2. f[i] = Remainder(SubSeq(data, 1, i)) /\ f[i - 1] = Remainder(SubSeq(data, 1, i - 1))
      BY <3>1
    <3> QED
      BY <1>2, <2>2, <3>1, <3>2
  <2> QED
    BY <2>1, <2>2
<1>5. IsCrc(f)
  <2>1. f = [i \in 0..n |-> f[i]]
    OBVIOUS
  <2> HIDE DEF f
  <2> QED
    BY <1>4, <2>1
<1>6. IsCrc(g)
  <2> HIDE DEF f, IsCrc
  <2> QED
    BY <1>5
<1>7. xmodem_crc16(data) = g[n]
  BY DEF xmodem_crc16
<1> DEFINE S == {i \in 0..n : g[i] = f[i]}
<1>8. n \in S
  <2>1. 0 \in S
    <3> HIDE DEF f, g
    <3> QED
      BY <1>1, <1>5, <1>6
  <2>2. ASSUME NEW i \in 1..n, i - 1 \in S
        PROVE  i \in S
    <3>1. g[i] = crc_add(g[i - 1], data[i]) /\ f[i] = crc_add(f[i - 1], data[i])
      <4> HIDE DEF f, g
      <4> QED
        BY <1>1, <1>5, <1>6
    <3> HIDE DEF f, g
    <3> QED
      BY <2>2, <3>1
  <2>3. 0..n \subseteq S
    <3> HIDE DEF S
    <3> QED
      BY <1>1, <2>1, <2>2, UpTo
  <2> HIDE DEF S
  <2> QED
    BY <1>1, <2>3
<1>9. f[n] = Remainder(data)
  <2>1. f[n] = Remainder(SubSeq(data, 1, n))
    <3> HIDE DEF n
    <3> QED
      BY <1>1
  <2> HIDE DEF f, n
  <2> QED
    BY <1>1, <2>1
<1>10. Remainder(data) \in Word
  <2>1. CASE n = 0
    <3>1. data = <<>>
      BY <2>1
    <3> QED
      BY <3>1, RemainderEmpty, WordNat
  <2>2. CASE n # 0
    <3>1. /\ SubSeq(data, 1, n - 1) \in Seq(Byte) /\ data[n] \in Byte
          /\ n \in 1..n
      <4> HIDE DEF Byte
      <4> QED
        BY <1>1, <2>2
    <3>2. Remainder(SubSeq(data, 1, n - 1)) \in Word
      BY <3>1, RemainderAppend
    <3>3. Remainder(data) = crc_add(Remainder(SubSeq(data, 1, n - 1)), data[n])
      BY <1>1, <1>2, <3>1
    <3> QED
      BY <3>1, <3>2, <3>3, CrcAddWord
  <2> QED
    BY <2>1, <2>2
<1>11. g[n] = f[n]
  <2> HIDE DEF f, g, n
  <2> QED
    BY <1>8
<1> HIDE DEF f, g, n
<1> QED
  BY <1>7, <1>9, <1>10, <1>11

-----------------------------------------------------------------------------
(* The receiver.  Its invariant has four parts besides the CRC: the types, the *)
(* counters, how much of the packet has been stored in each state, and what is *)
(* known of its check.                                                         *)

States == {"WAITING", "BLOCK_NUMBER", "COMPLEMENT", "DATA",
           "CRC_HIGH", "CRC_LOW", "BLOCK_READY", "CHECKSUM"}
Events == {"NONE", "BLOCK_READY", "SEND_C", "SEND_ACK", "SEND_NAK",
           "COMPLETE", "CANCELLED", "ERROR"}
Receivers ==
  [state : States, dataIndex : Nat, crc : Word, receivedCrc : Word,
   checksum : Byte, blockSize : {BLOCK_SIZE, BLOCK_1K_SIZE},
   blocksReceived : Nat, expectedBlock : Byte, blockNumber : Byte,
   checksumMode : BOOLEAN, errors : 0..MAX_ERRORS,
   startupTimeouts : 0..MAX_ERRORS, modeLocked : BOOLEAN,
   cancelCount : 0..2, eotSeen : BOOLEAN]

Types == rx \in Receivers /\ buffer \in Seq(Byte) /\ event \in Events

\* The errors reach their limit, and a second CAN is counted, only in the call
\* that ends the transfer; a timeout of the start is an error too; and the
\* number expected is that of the block after those received.
Counts ==
  /\ event # "ERROR" => rx.errors < MAX_ERRORS
  /\ Startup => rx.startupTimeouts <= rx.errors
  /\ event # "CANCELLED" => rx.cancelCount < 2
  /\ rx.expectedBlock = (rx.blocksReceived + 1) % 256

Stored ==
  /\ In("BLOCK_READY") <=> event = "BLOCK_READY"
  /\ rx.state \in {"WAITING", "BLOCK_NUMBER", "COMPLEMENT"} => rx.dataIndex = 0
  /\ In("DATA") => rx.dataIndex < rx.blockSize
  /\ rx.state \in {"CHECKSUM", "CRC_HIGH", "CRC_LOW", "BLOCK_READY"} =>
       rx.dataIndex = rx.blockSize
  /\ rx.dataIndex <= Len(buffer)

Checked ==
  /\ In("CHECKSUM") => rx.checksumMode
  /\ rx.state \in {"CRC_HIGH", "CRC_LOW"} => ~rx.checksumMode
  /\ In("CRC_LOW") => \E h \in Byte : rx.receivedCrc = h * 256
  /\ In("BLOCK_READY") => /\ rx.blockNumber = rx.expectedBlock
                          /\ rx.checksumMode \/ rx.receivedCrc = rx.crc

RInv == Types /\ Counts /\ Stored /\ Checked /\ CrcOfStored

\* The sizes and the limit are numbers.
LEMMA SizesAreNat ==
  /\ BLOCK_SIZE \in Nat \ {0} /\ BLOCK_1K_SIZE \in Nat \ {0}
  /\ MAX_ERRORS \in Nat \ {0} /\ MAX_ERRORS <= 255
  BY SizesAssumption, LimitsAssumption

\* A number modulo 256 is a byte.
LEMMA ByteOf == ASSUME NEW x \in Nat PROVE x % 256 \in Byte
  BY DEF Byte

\* Two bytes make a word.
LEMMA TwoBytes ==
  ASSUME NEW h \in Byte, NEW v \in Byte
  PROVE  h * 256 + v \in Word /\ h * 256 \in Word
<1>1. /\ h * 256 + v \in Nat /\ h * 256 + v < 65536
      /\ h * 256 \in Nat /\ h * 256 < 65536
  BY DEF Byte
<1> QED
  BY <1>1, WordNat

\* A packet that is given up leaves the receiver waiting for the next one.
LEMMA ResetKeeps ==
  ASSUME NEW r \in Receivers
  PROVE  /\ ResetPacket(r) \in Receivers
         /\ ResetPacket(r).state = "WAITING" /\ ResetPacket(r).dataIndex = 0
         /\ ResetPacket(r).errors = r.errors
         /\ ResetPacket(r).blocksReceived = r.blocksReceived
         /\ ResetPacket(r).startupTimeouts = r.startupTimeouts
         /\ ResetPacket(r).cancelCount = r.cancelCount
         /\ ResetPacket(r).expectedBlock = r.expectedBlock
         /\ ResetPacket(r).modeLocked = r.modeLocked
         /\ ResetPacket(r).checksumMode = r.checksumMode
<1>1. 0 \in Word /\ 0 \in Byte
  BY WordNat DEF Byte
<1> QED
  BY <1>1 DEF ResetPacket, Receivers, States

\* With its errors counted, and with too many of them, it waits as well.
LEMMA PacketErrorKeeps ==
  ASSUME RInv, PacketError, event = "NONE", UNCHANGED buffer
  PROVE  RInv'
<1> DEFINE p == ResetPacket(rx)
           r == [p EXCEPT !.errors = @ + 1]
<1>1. /\ rx \in Receivers /\ rx.errors \in Nat /\ rx.errors < MAX_ERRORS
      /\ MAX_ERRORS \in Nat
  BY SizesAreNat DEF RInv, Types, Counts, Receivers
<1>2. /\ p \in Receivers /\ p.state = "WAITING" /\ p.dataIndex = 0
      /\ p.errors = rx.errors /\ p.blocksReceived = rx.blocksReceived
      /\ p.startupTimeouts = rx.startupTimeouts
      /\ p.cancelCount = rx.cancelCount /\ p.expectedBlock = rx.expectedBlock
  BY <1>1, ResetKeeps
<1>3. rx' = r /\ event' = (IF TooMany(r.errors) THEN "ERROR" ELSE "SEND_NAK")
  BY DEF PacketError, Returns
<1> HIDE DEF p
<1>4. /\ r \in Receivers /\ r.state = "WAITING" /\ r.dataIndex = 0
      /\ r.errors = rx.errors + 1 /\ r.blocksReceived = rx.blocksReceived
      /\ r.startupTimeouts = rx.startupTimeouts
      /\ r.cancelCount = rx.cancelCount /\ r.expectedBlock = rx.expectedBlock
  BY <1>1, <1>2 DEF Receivers
<1> HIDE DEF r
<1>5. Types'
  BY <1>3, <1>4 DEF RInv, Types, Events
<1>6. Counts'
  BY <1>1, <1>3, <1>4 DEF RInv, Types, Receivers, Counts, TooMany, Startup
<1>7. Stored'
  BY <1>3, <1>4 DEF RInv, Types, Stored, In
<1>8. Checked' /\ CrcOfStored'
  BY <1>3, <1>4 DEF Checked, CrcOfStored, In
<1> QED
  BY <1>5, <1>6, <1>7, <1>8 DEF RInv

\* Whether an EOT was seen matters to no other field.
LEMMA EotSeenKeeps ==
  ASSUME NEW r \in Receivers, NEW b \in BOOLEAN
  PROVE  LET s == [r EXCEPT !.eotSeen = b]
         IN /\ s \in Receivers /\ s.eotSeen = b
            /\ s.state = r.state /\ s.dataIndex = r.dataIndex
            /\ s.errors = r.errors /\ s.startupTimeouts = r.startupTimeouts
            /\ s.blocksReceived = r.blocksReceived
            /\ s.expectedBlock = r.expectedBlock
            /\ s.cancelCount = r.cancelCount
  BY DEF Receivers

\* Between packets,
LEMMA WaitingKeeps ==
  ASSUME RInv, event = "NONE", UNCHANGED buffer, NEW v \in Byte,
         Cancels(v) \/ Ends(v) \/ Begins(v) \/ Skips(v)
  PROVE  RInv'
<1>1. /\ rx \in Receivers /\ rx.cancelCount \in {0, 1} /\ rx.state = "WAITING"
      /\ rx.dataIndex = 0 /\ rx.errors < MAX_ERRORS /\ buffer \in Seq(Byte)
  BY DEF RInv, Types, Counts, Stored, Receivers, Cancels, Ends, Begins, Skips, In
<1>2. ASSUME NEW r \in Receivers, NEW e \in Events, Returns(r, e),
             r.state \in {"WAITING", "BLOCK_NUMBER"}, r.dataIndex = 0,
             r.errors = rx.errors, r.startupTimeouts = rx.startupTimeouts,
             r.blocksReceived = rx.blocksReceived,
             r.expectedBlock = rx.expectedBlock,
             e # "CANCELLED" => r.cancelCount < 2, e # "BLOCK_READY"
      PROVE  RInv'
  <2>1. rx' = r /\ event' = e
    BY <1>2 DEF Returns
  <2>2. Types'
    BY <2>1 DEF RInv, Types
  <2>3. Counts'
    BY <1>1, <1>2, <2>1 DEF RInv, Counts, Startup
  <2>4. Stored'
    BY <1>1, <1>2, <2>1 DEF Stored, In
  <2>5. Checked' /\ CrcOfStored'
    BY <1>2, <2>1 DEF Checked, CrcOfStored, In
  <2> QED
    BY <2>2, <2>3, <2>4, <2>5 DEF RInv
<1>3. CASE Cancels(v)
  <2> DEFINE r == [rx EXCEPT !.cancelCount = @ + 1]
  <2>1. /\ r \in Receivers /\ r.state = "WAITING" /\ r.dataIndex = 0
        /\ r.errors = rx.errors /\ r.startupTimeouts = rx.startupTimeouts
        /\ r.blocksReceived = rx.blocksReceived
        /\ r.expectedBlock = rx.expectedBlock /\ r.cancelCount \in {1, 2}
    BY <1>1 DEF Receivers
  <2>2. IF r.cancelCount = 2 THEN Returns(ResetPacket(r), "CANCELLED")
        ELSE Returns(r, "NONE")
    BY <1>3 DEF Cancels
  <2> HIDE DEF r
  <2>3. CASE r.cancelCount = 2
    <3>1. Returns(ResetPacket(r), "CANCELLED")
      BY <2>2, <2>3
    <3>2. /\ ResetPacket(r) \in Receivers
          /\ ResetPacket(r).state = "WAITING" /\ ResetPacket(r).dataIndex = 0
          /\ ResetPacket(r).errors = r.errors
          /\ ResetPacket(r).blocksReceived = r.blocksReceived
          /\ ResetPacket(r).startupTimeouts = r.startupTimeouts
          /\ ResetPacket(r).expectedBlock = r.expectedBlock
      BY <2>1, ResetKeeps
    <3> QED
      BY <1>2, <2>1, <3>1, <3>2 DEF Events
  <2>4. CASE r.cancelCount # 2
    <3>1. Returns(r, "NONE") /\ r.cancelCount < 2
      BY <2>1, <2>2, <2>4
    <3> QED
      BY <1>2, <2>1, <3>1 DEF Events
  <2> QED
    BY <2>3, <2>4
<1>4. CASE Ends(v)
  <2> DEFINE r == [rx EXCEPT !.cancelCount = 0, !.eotSeen = TRUE]
             e == IF rx.eotSeen THEN "COMPLETE" ELSE "SEND_NAK"
  <2>1. /\ r \in Receivers /\ r.state = "WAITING" /\ r.dataIndex = 0
        /\ r.errors = rx.errors /\ r.startupTimeouts = rx.startupTimeouts
        /\ r.blocksReceived = rx.blocksReceived
        /\ r.expectedBlock = rx.expectedBlock /\ r.cancelCount = 0
    <3> DEFINE q == [rx EXCEPT !.cancelCount = 0]
    <3>1. /\ q \in Receivers /\ q.state = "WAITING" /\ q.dataIndex = 0
          /\ q.errors = rx.errors /\ q.startupTimeouts = rx.startupTimeouts
          /\ q.blocksReceived = rx.blocksReceived
          /\ q.expectedBlock = rx.expectedBlock /\ q.cancelCount = 0
      BY <1>1 DEF Receivers
    <3>2. r = [q EXCEPT !.eotSeen = TRUE]
      OBVIOUS
    <3> HIDE DEF q, r
    <3> QED
      BY <3>1, <3>2, EotSeenKeeps
  <2>2. Returns(r, e)
    BY <1>4 DEF Ends
  <2>3. e \in Events \ {"CANCELLED", "BLOCK_READY"}
    BY DEF Events
  <2> HIDE DEF r, e
  <2> QED
    BY <1>2, <2>1, <2>2, <2>3
<1>5. CASE Begins(v)
  <2> DEFINE r == [rx EXCEPT !.cancelCount = 0, !.eotSeen = FALSE,
                     !.state = "BLOCK_NUMBER",
                     !.blockSize = IF v = STX THEN BLOCK_1K_SIZE ELSE BLOCK_SIZE]
  <2>1. /\ r \in Receivers /\ r.state = "BLOCK_NUMBER" /\ r.dataIndex = 0
        /\ r.errors = rx.errors /\ r.startupTimeouts = rx.startupTimeouts
        /\ r.blocksReceived = rx.blocksReceived
        /\ r.expectedBlock = rx.expectedBlock /\ r.cancelCount = 0
    <3> DEFINE q == [rx EXCEPT !.cancelCount = 0]
               s == [q EXCEPT !.eotSeen = FALSE]
               size == IF v = STX THEN BLOCK_1K_SIZE ELSE BLOCK_SIZE
    <3>1. /\ q \in Receivers /\ q.dataIndex = 0
          /\ q.errors = rx.errors /\ q.startupTimeouts = rx.startupTimeouts
          /\ q.blocksReceived = rx.blocksReceived
          /\ q.expectedBlock = rx.expectedBlock /\ q.cancelCount = 0
      BY <1>1 DEF Receivers
    <3>2. size \in {BLOCK_SIZE, BLOCK_1K_SIZE}
      OBVIOUS
    <3>3. r = [[s EXCEPT !.state = "BLOCK_NUMBER"] EXCEPT !.blockSize = size]
      OBVIOUS
    <3> HIDE DEF q, r, size
    <3>4. /\ s \in Receivers /\ s.dataIndex = 0
          /\ s.errors = rx.errors /\ s.startupTimeouts = rx.startupTimeouts
          /\ s.blocksReceived = rx.blocksReceived
          /\ s.expectedBlock = rx.expectedBlock /\ s.cancelCount = 0
      BY <3>1, EotSeenKeeps
    <3> HIDE DEF s
    <3> QED
      BY <3>2, <3>3, <3>4 DEF Receivers, States
  <2>2. Returns(r, "NONE")
    BY <1>5 DEF Begins
  <2> HIDE DEF r
  <2> QED
    BY <1>2, <2>1, <2>2 DEF Events
<1>6. CASE Skips(v)
  <2> DEFINE r == [rx EXCEPT !.cancelCount = 0]
  <2>1. /\ r \in Receivers /\ r.state = "WAITING" /\ r.dataIndex = 0
        /\ r.errors = rx.errors /\ r.startupTimeouts = rx.startupTimeouts
        /\ r.blocksReceived = rx.blocksReceived
        /\ r.expectedBlock = rx.expectedBlock /\ r.cancelCount = 0
    BY <1>1 DEF Receivers
  <2>2. Returns(r, "NONE")
    BY <1>6 DEF Skips
  <2> HIDE DEF r
  <2> QED
    BY <1>2, <2>1, <2>2 DEF Events
<1> QED
  BY <1>3, <1>4, <1>5, <1>6

\* a packet's number and its complement,
LEMMA HeaderKeeps ==
  ASSUME RInv, event = "NONE", UNCHANGED buffer, NEW v \in Byte,
         InBlockNumber(v) \/ InComplement(v)
  PROVE  RInv'
<1>1. /\ rx \in Receivers /\ rx.dataIndex = 0 /\ rx.errors < MAX_ERRORS
      /\ buffer \in Seq(Byte) /\ Len(buffer) \in Nat /\ rx.cancelCount < 2
      /\ rx.state \in {"BLOCK_NUMBER", "COMPLEMENT"}
  BY LenProperties
     DEF RInv, Types, Counts, Stored, Receivers, InBlockNumber, InComplement, In
<1>2. CASE InBlockNumber(v)
  <2> DEFINE r == [rx EXCEPT !.blockNumber = v, !.state = "COMPLEMENT"]
  <2>1. rx' = r /\ event' = "NONE"
    BY <1>2 DEF InBlockNumber, Returns
  <2>2. /\ r \in Receivers /\ r.state = "COMPLEMENT" /\ r.dataIndex = 0
        /\ r.errors = rx.errors /\ r.startupTimeouts = rx.startupTimeouts
        /\ r.blocksReceived = rx.blocksReceived
        /\ r.expectedBlock = rx.expectedBlock
        /\ r.cancelCount = rx.cancelCount
    BY <1>1 DEF Receivers, States
  <2> HIDE DEF r
  <2>3. Types'
    BY <2>1, <2>2 DEF RInv, Types, Events
  <2>4. Counts'
    BY <1>1, <2>1, <2>2 DEF RInv, Counts, Startup
  <2>5. Stored'
    BY <1>1, <2>1, <2>2 DEF Stored, In
  <2>6. Checked' /\ CrcOfStored'
    BY <2>1, <2>2 DEF Checked, CrcOfStored, In
  <2> QED
    BY <2>3, <2>4, <2>5, <2>6 DEF RInv
<1>3. CASE InComplement(v) /\ (rx.blockNumber + v) % 256 # 255
  BY <1>3, PacketErrorKeeps DEF InComplement
<1>4. CASE InComplement(v) /\ (rx.blockNumber + v) % 256 = 255
  <2> DEFINE r == [rx EXCEPT !.dataIndex = 0, !.crc = 0, !.state = "DATA"]
  <2>1. rx' = r /\ event' = "NONE"
    BY <1>4 DEF InComplement, Returns
  <2>2. /\ r \in Receivers /\ r.state = "DATA" /\ r.dataIndex = 0
        /\ r.errors = rx.errors /\ r.startupTimeouts = rx.startupTimeouts
        /\ r.blocksReceived = rx.blocksReceived
        /\ r.expectedBlock = rx.expectedBlock /\ r.crc = 0
        /\ r.cancelCount = rx.cancelCount
    <3> DEFINE q == [rx EXCEPT !.dataIndex = 0]
               s == [q EXCEPT !.crc = 0]
    <3>1. /\ q \in Receivers /\ q.dataIndex = 0
          /\ q.errors = rx.errors /\ q.startupTimeouts = rx.startupTimeouts
          /\ q.blocksReceived = rx.blocksReceived
          /\ q.expectedBlock = rx.expectedBlock
          /\ q.cancelCount = rx.cancelCount
      BY <1>1 DEF Receivers
    <3>2. 0 \in Word
      BY WordNat
    <3>3. r = [s EXCEPT !.state = "DATA"]
      OBVIOUS
    <3> HIDE DEF q, r
    <3>4. /\ s \in Receivers /\ s.dataIndex = 0 /\ s.crc = 0
          /\ s.errors = rx.errors /\ s.startupTimeouts = rx.startupTimeouts
          /\ s.blocksReceived = rx.blocksReceived
          /\ s.expectedBlock = rx.expectedBlock
          /\ s.cancelCount = rx.cancelCount
      BY <3>1, <3>2 DEF Receivers
    <3> HIDE DEF s
    <3> QED
      BY <3>3, <3>4 DEF Receivers, States
  <2>3. r.blockSize \in Nat \ {0}
    BY <2>2, SizesAreNat DEF Receivers
  <2> HIDE DEF r
  <2>4. Types'
    BY <2>1, <2>2 DEF RInv, Types, Events
  <2>5. Counts'
    BY <1>1, <2>1, <2>2 DEF RInv, Counts, Startup
  <2>6. Stored'
    BY <1>1, <2>1, <2>2, <2>3 DEF Stored, In
  <2>7. Checked'
    BY <2>1, <2>2 DEF Checked, In
  <2>8. CrcOfStored'
    <3>1. SubSeq(buffer', 1, rx'.dataIndex) = <<>>
      BY <2>1, <2>2
    <3> QED
      BY <2>1, <2>2, <3>1, RemainderEmpty DEF CrcOfStored
  <2> QED
    BY <2>4, <2>5, <2>6, <2>7, <2>8 DEF RInv
<1> QED
  BY <1>2, <1>3, <1>4

\* its data,
LEMMA DataKeeps ==
  ASSUME RInv, event = "NONE", NEW v \in Byte, InData(v)
  PROVE  RInv'
<1> DEFINE d == SubSeq(buffer, 1, rx.dataIndex)
           to == IF rx.dataIndex + 1 # rx.blockSize THEN "DATA"
                 ELSE IF rx.checksumMode THEN "CHECKSUM" ELSE "CRC_HIGH"
           c == crc_add(rx.crc, v)
           sum == (rx.checksum + v) % 256
           r == [rx EXCEPT !.dataIndex = @ + 1, !.crc = crc_add(@, v),
                   !.checksum = (@ + v) % 256, !.state = to]
<1>1. /\ rx \in Receivers /\ rx.dataIndex \in Nat /\ rx.dataIndex < rx.blockSize
      /\ rx.blockSize \in Nat /\ rx.errors < MAX_ERRORS /\ rx.state = "DATA"
      /\ buffer \in Seq(Byte) /\ Len(buffer) \in Nat
      /\ rx.dataIndex <= Len(buffer) /\ rx.cancelCount < 2
      /\ rx.crc \in Word /\ rx.checksum \in Byte
  BY SMTT(30), LenProperties, SizesAreNat
     DEF RInv, Types, Counts, Stored, Receivers, InData, In
<1>2. d \in Seq(Byte) /\ Len(d) = rx.dataIndex
  <2> HIDE DEF Byte
  <2> QED
    BY <1>1
<1>3. rx.crc = Remainder(d)
  BY <1>1 DEF RInv, CrcOfStored
<1>4. buffer' = Append(d, v) /\ rx' = r /\ event' = "NONE"
  BY DEF InData, Returns
<1> HIDE DEF d
<1>5. /\ buffer' \in Seq(Byte) /\ Len(buffer') = rx.dataIndex + 1
      /\ SubSeq(buffer', 1, rx.dataIndex + 1) = buffer'
  <2> HIDE DEF Byte
  <2> QED
    BY <1>1, <1>2, <1>4
<1>6. c \in Word /\ c = Remainder(buffer')
  BY <1>1, <1>2, <1>3, <1>4, CrcAddWord, RemainderAppend
<1>7. sum \in Byte
  <2>1. rx.checksum + v \in Nat
    BY <1>1, ByteNat
  <2> QED
    BY <2>1, ByteOf
<1>8. to \in States /\ to \in {"DATA", "CHECKSUM", "CRC_HIGH"}
  BY DEF States
<1>9. /\ to = "DATA" => rx.dataIndex + 1 # rx.blockSize
      /\ to # "DATA" => rx.dataIndex + 1 = rx.blockSize
      /\ to = "CHECKSUM" => rx.checksumMode
      /\ to = "CRC_HIGH" => ~rx.checksumMode
  OBVIOUS
<1> HIDE DEF to
<1>0. r = [rx EXCEPT !.dataIndex = @ + 1, !.crc = c, !.checksum = sum, !.state = to]
  OBVIOUS
<1> HIDE DEF r, c, sum
<1>10. /\ r \in Receivers /\ r.state = to /\ r.dataIndex = rx.dataIndex + 1
       /\ r.errors = rx.errors /\ r.startupTimeouts = rx.startupTimeouts
       /\ r.blocksReceived = rx.blocksReceived /\ r.crc = c
       /\ r.expectedBlock = rx.expectedBlock /\ r.blockSize = rx.blockSize
       /\ r.cancelCount = rx.cancelCount /\ r.checksumMode = rx.checksumMode
  <2> DEFINE q == [rx EXCEPT !.dataIndex = @ + 1]
             s == [q EXCEPT !.crc = c]
             u == [s EXCEPT !.checksum = sum]
             Same(x) == /\ x \in Receivers /\ x.dataIndex = rx.dataIndex + 1
                        /\ x.errors = rx.errors
                        /\ x.startupTimeouts = rx.startupTimeouts
                        /\ x.blocksReceived = rx.blocksReceived
                        /\ x.expectedBlock = rx.expectedBlock
                        /\ x.blockSize = rx.blockSize
                        /\ x.cancelCount = rx.cancelCount
                        /\ x.checksumMode = rx.checksumMode
  <2>1. Same(q)
    BY <1>1 DEF Receivers
  <2>2. r = [u EXCEPT !.state = to]
    BY <1>0
  <2> HIDE DEF q
  <2>3. Same(s) /\ s.crc = c
    BY <1>6, <2>1 DEF Receivers
  <2> HIDE DEF s
  <2>4. Same(u) /\ u.crc = c
    BY <1>7, <2>3 DEF Receivers
  <2> HIDE DEF u
  <2> QED
    BY <1>8, <2>2, <2>4 DEF Receivers
<1>11. Types'
  BY <1>4, <1>5, <1>10 DEF RInv, Types, Events
<1>12. Counts'
  BY <1>1, <1>4, <1>10 DEF RInv, Counts, Startup
<1>13. Stored'
  BY <1>1, <1>4, <1>5, <1>8, <1>9, <1>10 DEF Stored, In
<1>14. Checked'
  BY <1>4, <1>8, <1>9, <1>10 DEF Checked, In
<1>15. CrcOfStored'
  BY <1>4, <1>5, <1>6, <1>10 DEF CrcOfStored
<1> QED
  BY <1>11, <1>12, <1>13, <1>14, <1>15 DEF RInv

\* and its end, once the check has matched:
LEMMA WholeKeeps ==
  ASSUME RInv, event = "NONE", UNCHANGED buffer, NEW r \in Receivers, Whole(r),
         r.dataIndex = rx.dataIndex, r.blockSize = rx.blockSize,
         rx.dataIndex = rx.blockSize, r.crc = rx.crc,
         rx.crc = Remainder(SubSeq(buffer, 1, rx.dataIndex)),
         r.checksumMode \/ r.receivedCrc = r.crc,
         r.errors = rx.errors, r.startupTimeouts = rx.startupTimeouts,
         r.blocksReceived = rx.blocksReceived,
         r.expectedBlock = rx.expectedBlock, r.cancelCount = rx.cancelCount
  PROVE  RInv'
<1>1. /\ rx \in Receivers /\ rx.errors < MAX_ERRORS /\ rx.cancelCount < 2
      /\ buffer \in Seq(Byte) /\ Len(buffer) \in Nat
      /\ rx.dataIndex <= Len(buffer)
  BY LenProperties DEF RInv, Types, Counts, Stored, Receivers
<1>2. CASE Returns(ResetPacket(r), "SEND_ACK")
  <2> DEFINE p == ResetPacket(r)
  <2>1. rx' = p /\ event' = "SEND_ACK"
    BY <1>2 DEF Returns
  <2>2. /\ p \in Receivers /\ p.state = "WAITING" /\ p.dataIndex = 0
        /\ p.errors = rx.errors /\ p.blocksReceived = rx.blocksReceived
        /\ p.startupTimeouts = rx.startupTimeouts
        /\ p.cancelCount = rx.cancelCount /\ p.expectedBlock = rx.expectedBlock
    BY ResetKeeps
  <2> HIDE DEF p
  <2>3. Types'
    BY <2>1, <2>2 DEF RInv, Types, Events
  <2>4. Counts'
    BY <1>1, <2>1, <2>2 DEF RInv, Counts, Startup
  <2>5. Stored'
    BY <1>1, <2>1, <2>2 DEF Stored, In
  <2>6. Checked' /\ CrcOfStored'
    BY <2>1, <2>2 DEF Checked, CrcOfStored, In
  <2> QED
    BY <2>3, <2>4, <2>5, <2>6 DEF RInv
<1>3. CASE /\ r.blockNumber = r.expectedBlock
           /\ Returns([r EXCEPT !.state = "BLOCK_READY"], "BLOCK_READY")
  <2> DEFINE p == [r EXCEPT !.state = "BLOCK_READY"]
  <2>1. rx' = p /\ event' = "BLOCK_READY"
    BY <1>3 DEF Returns
  <2>2. /\ p \in Receivers /\ p.state = "BLOCK_READY"
        /\ p.dataIndex = rx.dataIndex /\ p.blockSize = rx.blockSize
        /\ p.errors = rx.errors /\ p.blocksReceived = rx.blocksReceived
        /\ p.startupTimeouts = rx.startupTimeouts /\ p.crc = rx.crc
        /\ p.cancelCount = rx.cancelCount /\ p.expectedBlock = rx.expectedBlock
        /\ p.blockNumber = p.expectedBlock
        /\ p.checksumMode = r.checksumMode /\ p.receivedCrc = r.receivedCrc
    BY <1>3 DEF Receivers, States
  <2> HIDE DEF p
  <2>3. Types'
    BY <2>1, <2>2 DEF RInv, Types, Events
  <2>4. Counts'
    BY <1>1, <2>1, <2>2 DEF RInv, Counts, Startup
  <2>5. Stored'
    BY <1>1, <2>1, <2>2 DEF Stored, In
  <2>6. Checked'
    BY <2>1, <2>2 DEF Checked, In
  <2>7. CrcOfStored'
    BY <2>1, <2>2 DEF CrcOfStored
  <2> QED
    BY <2>3, <2>4, <2>5, <2>6, <2>7 DEF RInv
<1> QED
  BY <1>2, <1>3, PacketErrorKeeps DEF Whole

\* the checksum,
LEMMA ChecksumKeeps ==
  ASSUME RInv, event = "NONE", UNCHANGED buffer, NEW v \in Byte, InChecksum(v)
  PROVE  RInv'
<1>1. /\ rx \in Receivers /\ rx.dataIndex = rx.blockSize /\ rx.checksumMode
      /\ rx.crc = Remainder(SubSeq(buffer, 1, rx.dataIndex))
  BY DEF RInv, Types, Stored, Checked, CrcOfStored, InChecksum, In
<1>2. PacketError \/ Whole(rx)
  BY DEF InChecksum
<1> QED
  BY <1>1, <1>2, PacketErrorKeeps, WholeKeeps

\* the two bytes of the CRC,
LEMMA CrcKeeps ==
  ASSUME RInv, event = "NONE", UNCHANGED buffer, NEW v \in Byte,
         InCrcHigh(v) \/ InCrcLow(v)
  PROVE  RInv'
<1>1. /\ rx \in Receivers /\ rx.dataIndex = rx.blockSize /\ ~rx.checksumMode
      /\ rx.crc = Remainder(SubSeq(buffer, 1, rx.dataIndex))
      /\ rx.errors < MAX_ERRORS /\ rx.cancelCount < 2
      /\ rx.dataIndex <= Len(buffer)
  BY DEF RInv, Types, Counts, Stored, Checked, CrcOfStored, InCrcHigh, InCrcLow, In
<1>2. CASE InCrcHigh(v)
  <2> DEFINE w == v * 256
             r == [rx EXCEPT !.receivedCrc = w, !.state = "CRC_LOW"]
  <2>1. rx' = r /\ event' = "NONE"
    BY <1>2 DEF InCrcHigh, Returns
  <2>2. w \in Word
    BY TwoBytes
  <2>3. \E h \in Byte : w = h * 256
    OBVIOUS
  <2> HIDE DEF w
  <2>4. /\ r \in Receivers /\ r.state = "CRC_LOW" /\ r.dataIndex = rx.dataIndex
        /\ r.errors = rx.errors /\ r.startupTimeouts = rx.startupTimeouts
        /\ r.blocksReceived = rx.blocksReceived /\ r.blockSize = rx.blockSize
        /\ r.expectedBlock = rx.expectedBlock /\ r.crc = rx.crc
        /\ r.cancelCount = rx.cancelCount /\ r.receivedCrc = w
        /\ r.checksumMode = rx.checksumMode
    BY <1>1, <2>2 DEF Receivers, States
  <2> HIDE DEF r
  <2>5. Types'
    BY <2>1, <2>4 DEF RInv, Types, Events
  <2>6. Counts'
    BY <1>1, <2>1, <2>4 DEF RInv, Counts, Startup
  <2>7. Stored'
    BY <1>1, <2>1, <2>4 DEF Stored, In
  <2>8. Checked'
    BY <1>1, <2>1, <2>3, <2>4 DEF Checked, In
  <2>9. CrcOfStored'
    BY <1>1, <2>1, <2>4 DEF CrcOfStored
  <2> QED
    BY <2>5, <2>6, <2>7, <2>8, <2>9 DEF RInv
<1>3. CASE InCrcLow(v)
  <2> DEFINE w == rx.receivedCrc + v
             r == [rx EXCEPT !.receivedCrc = w]
  <2>1. IF r.receivedCrc # r.crc THEN PacketError ELSE Whole(r)
    BY <1>3 DEF InCrcLow
  <2>2. w \in Word
    <3>1. PICK h \in Byte : rx.receivedCrc = h * 256
      BY <1>3 DEF RInv, Checked, InCrcLow
    <3>2. h * 256 + v \in Word
      BY TwoBytes
    <3> QED
      BY <3>1, <3>2
  <2> HIDE DEF w
  <2>3. /\ r \in Receivers /\ r.dataIndex = rx.dataIndex
        /\ r.errors = rx.errors /\ r.startupTimeouts = rx.startupTimeouts
        /\ r.blocksReceived = rx.blocksReceived /\ r.blockSize = rx.blockSize
        /\ r.expectedBlock = rx.expectedBlock /\ r.crc = rx.crc
        /\ r.cancelCount = rx.cancelCount
    BY <1>1, <2>2 DEF Receivers
  <2> HIDE DEF r
  <2>4. CASE r.receivedCrc # r.crc
    BY <2>1, <2>4, PacketErrorKeeps
  <2>5. CASE r.receivedCrc = r.crc
    <3>1. Whole(r)
      BY <2>1, <2>5
    <3> QED
      BY <1>1, <2>3, <2>5, <3>1, WholeKeeps
  <2> QED
    BY <2>4, <2>5
<1> QED
  BY <1>2, <1>3

\* any byte at all.
LEMMA ReceiveKeeps ==
  ASSUME RInv, event = "NONE" \/ In("BLOCK_READY"), NEW v \in Byte, Receive(v)
  PROVE  RInv'
<1>1. CASE InBlockReady /\ UNCHANGED buffer
  BY <1>1 DEF InBlockReady, RInv, Types, Counts, Stored, Checked, CrcOfStored,
              In, Startup
<1>2. CASE event = "NONE"
  <2>1. ~In("BLOCK_READY")
    BY <1>2 DEF RInv, Stored
  <2> QED
    BY <1>2, <2>1, WaitingKeeps, HeaderKeeps, DataKeeps, ChecksumKeeps, CrcKeeps
       DEF Receive, InBlockReady
<1>3. CASE In("BLOCK_READY")
  BY <1>1, <1>3
     DEF Receive, Cancels, Ends, Begins, Skips, InBlockNumber, InComplement,
         InData, InChecksum, InCrcHigh, InCrcLow, In
<1> QED
  BY <1>2, <1>3

-----------------------------------------------------------------------------
(* The caller.                                                               *)

\* A block that is accepted makes room for the next one,
LEMMA SaveKeeps ==
  ASSUME RInv, Save
  PROVE  RInv'
<1> DEFINE q == [rx EXCEPT !.expectedBlock = (@ + 1) % 256,
                   !.blocksReceived = @ + 1, !.errors = 0]
           p == ResetPacket(q)
<1>1. /\ rx \in Receivers /\ rx.blocksReceived \in Nat /\ rx.cancelCount < 2
      /\ rx.expectedBlock \in Byte /\ MAX_ERRORS \in Nat \ {0}
      /\ buffer \in Seq(Byte) /\ Len(buffer) \in Nat
  BY LenProperties, SizesAreNat DEF RInv, Types, Counts, Receivers, Save
<1>2. rx' = p /\ event' = "SEND_ACK" /\ buffer' = buffer
  BY DEF Save
<1>3. /\ q \in Receivers /\ q.errors = 0 /\ q.cancelCount = rx.cancelCount
      /\ q.blocksReceived = rx.blocksReceived + 1
      /\ q.expectedBlock = (rx.expectedBlock + 1) % 256
  <2> DEFINE next == (rx.expectedBlock + 1) % 256
             s == [rx EXCEPT !.expectedBlock = next]
             u == [s EXCEPT !.blocksReceived = @ + 1]
  <2>1. next \in Byte
    <3>1. rx.expectedBlock + 1 \in Nat
      BY <1>1, ByteNat
    <3> QED
      BY <3>1, ByteOf
  <2>2. q = [u EXCEPT !.errors = 0]
    OBVIOUS
  <2> HIDE DEF next, q
  <2>3. /\ s \in Receivers /\ s.expectedBlock = next
        /\ s.blocksReceived = rx.blocksReceived
        /\ s.cancelCount = rx.cancelCount
    BY <1>1, <2>1 DEF Receivers
  <2> HIDE DEF s
  <2>4. /\ u \in Receivers /\ u.expectedBlock = next
        /\ u.blocksReceived = rx.blocksReceived + 1
        /\ u.cancelCount = rx.cancelCount
    <3> DEFINE m == rx.blocksReceived + 1
    <3>1. m \in Nat
      BY <1>1
    <3>2. u = [s EXCEPT !.blocksReceived = m]
      BY <2>3
    <3> HIDE DEF m, u
    <3>3. /\ u \in Receivers /\ u.expectedBlock = next /\ u.blocksReceived = m
          /\ u.cancelCount = rx.cancelCount
      BY <2>3, <3>1, <3>2 DEF Receivers
    <3> QED
      BY <3>3 DEF m
  <2> HIDE DEF u
  <2>5. /\ q \in Receivers /\ q.errors = 0 /\ q.cancelCount = rx.cancelCount
        /\ q.blocksReceived = rx.blocksReceived + 1 /\ q.expectedBlock = next
    <3>1. 0 \in 0..MAX_ERRORS
      BY <1>1
    <3> QED
      BY <2>2, <2>4, <3>1 DEF Receivers
  <2> QED
    BY <2>5 DEF next
<1> HIDE DEF q
<1>4. /\ p \in Receivers /\ p.state = "WAITING" /\ p.dataIndex = 0
      /\ p.errors = 0 /\ p.blocksReceived = rx.blocksReceived + 1
      /\ p.cancelCount = rx.cancelCount
      /\ p.expectedBlock = (rx.expectedBlock + 1) % 256
  BY <1>3, ResetKeeps
<1> HIDE DEF p
<1>5. Types'
  BY <1>2, <1>4 DEF RInv, Types, Events
<1>6. Counts'
  <2>1. p.expectedBlock = (p.blocksReceived + 1) % 256
    <3>1. rx.expectedBlock = (rx.blocksReceived + 1) % 256
      BY DEF RInv, Counts
    <3> QED
      BY <1>1, <1>4, <3>1
  <2>2. p.blocksReceived # 0
    BY <1>1, <1>4
  <2> QED
    BY <1>1, <1>2, <1>4, <2>1, <2>2 DEF Counts, Startup
<1>7. Stored'
  BY <1>1, <1>2, <1>4 DEF Stored, In
<1>8. Checked' /\ CrcOfStored'
  BY <1>2, <1>4 DEF Checked, CrcOfStored, In
<1> QED
  BY <1>5, <1>6, <1>7, <1>8 DEF RInv

\* and a timeout is one error more, and in the beginning one question more.
LEMMA TimeoutKeeps ==
  ASSUME RInv, Timeout
  PROVE  RInv'
<1> DEFINE p == ResetPacket(rx)
           r == [p EXCEPT !.errors = @ + 1]
           s == [r EXCEPT !.startupTimeouts = @ + 1]
           gaveUp == ~s.modeLocked /\ s.startupTimeouts >= CRC_RETRIES
           c == [s EXCEPT !.checksumMode = @ \/ gaveUp]
           e == IF gaveUp \/ (c.modeLocked /\ c.checksumMode)
                THEN "SEND_NAK" ELSE "SEND_C"
<1>1. /\ rx \in Receivers /\ rx.errors \in Nat /\ rx.errors < MAX_ERRORS
      /\ MAX_ERRORS \in Nat /\ rx.startupTimeouts \in Nat /\ rx.cancelCount < 2
      /\ buffer \in Seq(Byte) /\ Len(buffer) \in Nat /\ buffer' = buffer
  BY SizesAreNat, LenProperties DEF RInv, Types, Counts, Receivers, Timeout
<1>2. /\ p \in Receivers /\ p.state = "WAITING" /\ p.dataIndex = 0
      /\ p.errors = rx.errors /\ p.blocksReceived = rx.blocksReceived
      /\ p.startupTimeouts = rx.startupTimeouts
      /\ p.cancelCount = rx.cancelCount /\ p.expectedBlock = rx.expectedBlock
  BY <1>1, ResetKeeps
<1>3. \/ TooMany(r.errors) /\ Returns(r, "ERROR")
      \/ ~TooMany(r.errors) /\ ~Startup /\ Returns(r, "SEND_NAK")
      \/ ~TooMany(r.errors) /\ Startup /\ Returns(c, e)
  BY DEF Timeout
<1> HIDE DEF p
<1>4. /\ r \in Receivers /\ r.state = "WAITING" /\ r.dataIndex = 0
      /\ r.errors = rx.errors + 1 /\ r.blocksReceived = rx.blocksReceived
      /\ r.startupTimeouts = rx.startupTimeouts
      /\ r.cancelCount = rx.cancelCount /\ r.expectedBlock = rx.expectedBlock
  BY SMTT(30), <1>1, <1>2 DEF Receivers
<1>5. e \in {"SEND_NAK", "SEND_C"}
  OBVIOUS
<1> HIDE DEF r, e
<1>6. ASSUME ~TooMany(r.errors), Startup
      PROVE  /\ c \in Receivers /\ c.state = "WAITING" /\ c.dataIndex = 0
             /\ c.errors = rx.errors + 1
             /\ c.blocksReceived = rx.blocksReceived
             /\ c.startupTimeouts = rx.startupTimeouts + 1
             /\ c.cancelCount = rx.cancelCount
             /\ c.expectedBlock = rx.expectedBlock
             /\ rx.startupTimeouts <= rx.errors
  <2>1. rx.startupTimeouts <= rx.errors /\ rx.startupTimeouts + 1 \in 0..MAX_ERRORS
    BY <1>1, <1>6 DEF RInv, Counts
  <2>2. /\ s \in Receivers /\ s.state = "WAITING" /\ s.dataIndex = 0
        /\ s.errors = rx.errors + 1 /\ s.blocksReceived = rx.blocksReceived
        /\ s.startupTimeouts = rx.startupTimeouts + 1
        /\ s.cancelCount = rx.cancelCount /\ s.expectedBlock = rx.expectedBlock
    BY <1>4, <2>1 DEF Receivers
  <2> DEFINE mode == s.checksumMode \/ gaveUp
  <2>3. mode \in BOOLEAN /\ c = [s EXCEPT !.checksumMode = mode]
    OBVIOUS
  <2> HIDE DEF s, mode, c
  <2> QED
    BY <2>1, <2>2, <2>3 DEF Receivers
<1> HIDE DEF c
<1>7. ASSUME NEW x \in Receivers, NEW f \in Events, Returns(x, f),
             x.state = "WAITING", x.dataIndex = 0, x.errors = rx.errors + 1,
             x.blocksReceived = rx.blocksReceived,
             x.cancelCount = rx.cancelCount, x.expectedBlock = rx.expectedBlock,
             Startup => x.startupTimeouts <= x.errors,
             f # "ERROR" => x.errors < MAX_ERRORS, f # "BLOCK_READY"
      PROVE  RInv'
  <2>1. rx' = x /\ event' = f
    BY <1>7 DEF Returns
  <2>2. Types'
    BY <1>1, <2>1 DEF Types
  <2>3. Counts'
    BY <1>1, <1>7, <2>1 DEF RInv, Counts, Startup
  <2>4. Stored'
    BY <1>1, <1>7, <2>1 DEF Stored, In
  <2>5. Checked' /\ CrcOfStored'
    BY <1>7, <2>1 DEF Checked, CrcOfStored, In
  <2> QED
    BY <2>2, <2>3, <2>4, <2>5 DEF RInv
<1>8. Startup => rx.startupTimeouts <= rx.errors
  BY DEF RInv, Counts
<1>9. CASE TooMany(r.errors) /\ Returns(r, "ERROR")
  <2>1. Startup => r.startupTimeouts <= r.errors
    BY <1>1, <1>4, <1>8
  <2> QED
    BY <1>4, <1>7, <1>9, <2>1 DEF Events
<1>10. CASE ~TooMany(r.errors) /\ ~Startup /\ Returns(r, "SEND_NAK")
  <2>1. r.errors < MAX_ERRORS
    BY <1>1, <1>4, <1>10 DEF TooMany
  <2> QED
    BY <1>4, <1>7, <1>10, <2>1 DEF Events
<1>11. CASE ~TooMany(r.errors) /\ Startup /\ Returns(c, e)
  <2>1. c.errors < MAX_ERRORS
    BY <1>1, <1>4, <1>6, <1>11 DEF TooMany
  <2>2. c.startupTimeouts <= c.errors
    BY <1>1, <1>6, <1>11
  <2>3. e \in Events /\ e # "BLOCK_READY"
    BY <1>5 DEF Events
  <2> QED
    BY <1>6, <1>7, <1>11, <2>1, <2>2, <2>3
<1> QED
  BY <1>3, <1>9, <1>10, <1>11

-----------------------------------------------------------------------------
(* The line, the sender and what has been saved.                             *)

Replies == {"SEND_C", "SEND_ACK", "SEND_NAK"}

WireTypes ==
  /\ line \in Seq(Byte) /\ replies \in Seq(Replies)
  /\ sender \in [block : Nat \ {0}, check : {"NONE", "SUM", "CRC"},
                 active : BOOLEAN, base : Nat]
  /\ saved \in Seq(Seq(Byte))
  /\ outcome \in {"OPEN", "COMPLETE", "CANCELLED", "ERROR"}

\* What the receiver has and waits for, and what is on its way.
IInv == RInv /\ WireTypes

\* The checksum of a block is a byte, and its CRC two bytes.
LEMMA CheckBytesType ==
  ASSUME NEW data \in Seq(Byte), NEW check
  PROVE  CheckBytes(data, check) \in Seq(Byte)
<1> DEFINE n == Len(data)
           IsSum(f) == f = [i \in 0..n |->
                              IF i = 0 THEN 0 ELSE (f[i - 1] + data[i]) % 256]
           g == CHOOSE h : IsSum(h)
<1>1. n \in Nat
  BY LenProperties
<1>2. 0 \in Byte
  BY DEF Byte
<1>3. ASSUME NEW i \in 1..n, NEW x \in Byte
      PROVE  (x + data[i]) % 256 \in Byte
  <2>1. data[i] \in Byte
    <3> HIDE DEF Byte
    <3> QED
      OBVIOUS
  <2>2. x + data[i] \in Nat
    BY <2>1, ByteNat
  <2> QED
    BY <2>2, ByteOf
<1>4. \E h : IsSum(h)
  <2> DEFINE step == [p \in Byte \X (1..n) |-> (p[1] + data[p[2]]) % 256]
  <2>1. step \in [Byte \X (1..n) -> Byte]
    BY <1>3
  <2>2. PICK f \in [0..n -> Byte] :
          f[0] = 0 /\ \A i \in 1..n : f[i] = step[<<f[i - 1], i>>]
    <3>1. \E f \in [0..n -> Byte] : StepsBy(f, 0, step, n)
      <4> HIDE DEF step, n, Byte
      <4> QED
        BY <1>1, <1>2, <2>1, Recursion
    <3> QED
      BY <3>1 DEF StepsBy
  <2>3. ASSUME NEW i \in 0..n
        PROVE  f[i] = IF i = 0 THEN 0 ELSE (f[i - 1] + data[i]) % 256
    <3>1. CASE i = 0
      BY <2>2, <3>1
    <3>2. CASE i # 0
      <4>1. i \in 1..n /\ i - 1 \in 0..n
        BY <1>1, <3>2
      <4>2. f[i] = step[<<f[i - 1], i>>] /\ f[i - 1] \in Byte
        BY <2>2, <4>1
      <4>3. step[<<f[i - 1], i>>] = (f[i - 1] + data[i]) % 256
        BY <4>1, <4>2
      <4> QED
        BY <3>2, <4>2, <4>3
    <3> QED
      BY <3>1, <3>2
  <2>4. IsSum(f)
    BY <2>3
  <2> HIDE DEF IsSum
  <2> QED
    BY <2>4
<1>5. IsSum(g)
  <2> HIDE DEF IsSum
  <2> QED
    BY <1>4
<1> HIDE DEF g
<1> DEFINE S == {i \in 0..n : g[i] \in Byte}
<1>6. g[n] \in Byte
  <2>1. 0 \in S
    BY <1>1, <1>2, <1>5
  <2>2. ASSUME NEW i \in 1..n, i - 1 \in S
        PROVE  i \in S
    <3>1. g[i] = (g[i - 1] + data[i]) % 256
      BY <1>1, <1>5
    <3> QED
      BY <1>3, <2>2, <3>1
  <2>3. 0..n \subseteq S
    <3> HIDE DEF S
    <3> QED
      BY <1>1, <2>1, <2>2, UpTo
  <2> QED
    BY <1>1, <2>3
<1>7. /\ xmodem_crc16(data) \div 256 \in Byte
      /\ xmodem_crc16(data) % 256 \in Byte
  <2> DEFINE c == xmodem_crc16(data)
  <2>1. c \in Nat /\ c < 65536
    BY CrcIsRemainder, WordNat
  <2> HIDE DEF c
  <2>2. c \div 256 \in Byte /\ c % 256 \in Byte
    <3>1. PICK q, r : q = c \div 256 /\ r = c % 256
      OBVIOUS
    <3>2. q \in Nat /\ r \in 0..255 /\ c = 256 * q + r
      BY <2>1, <3>1, Division
    <3>3. q < 256
      <4> HIDE DEF c
      <4>1. 256 * q <= c /\ c < 256 * 256 /\ q \in Int /\ c \in Nat
        BY <2>1, <3>2
      <4> QED
        BY <4>1
    <3> QED
      BY <3>1, <3>2, <3>3 DEF Byte
  <2> QED
    BY <2>2 DEF c
<1>8. CheckBytes(data, check) =
        IF check = "SUM" THEN <<g[n]>>
        ELSE <<xmodem_crc16(data) \div 256, xmodem_crc16(data) % 256>>
  BY DEF CheckBytes, g
<1> HIDE DEF Byte
<1> QED
  BY <1>6, <1>7, <1>8

\* What the sender puts on the line is bytes.
LEMMA PacketType ==
  ASSUME NEW i \in 1..Len(File), NEW check, NEW base \in Nat
  PROVE  Packet(i, check, base) \in Seq(Byte)
<1>1. File[i] \in Seq(Byte)
  BY FileAssumption
<1>2. CheckBytes(File[i], check) \in Seq(Byte)
  BY <1>1, CheckBytesType
<1> DEFINE number == (base + i) % 256
           first == IF Len(File[i]) = BLOCK_SIZE THEN SOH ELSE STX
<1>3. number \in Byte
  <2>1. base + i \in Nat
    OBVIOUS
  <2> QED
    BY <2>1, ByteOf
<1>4. 255 - number \in Byte /\ first \in Byte
  BY <1>3 DEF Byte, SOH, STX
<1>5. Packet(i, check, base) =
        <<first, number, 255 - number>> \o File[i] \o CheckBytes(File[i], check)
  BY DEF Packet
<1>6. <<first, number, 255 - number>> \in Seq(Byte)
  <2> HIDE DEF Byte, first, number
  <2> QED
    BY <1>3, <1>4
<1> HIDE DEF Byte, first, number
<1> QED
  BY <1>1, <1>2, <1>5, <1>6, ConcatProperties

\* What the sender sends are bytes.
LEMMA SendsBytes ==
  ASSUME WireTypes, NEW s, Sends(s),
         s \in [block : Nat \ {0}, check : {"NONE", "SUM", "CRC"},
                active : BOOLEAN, base : Nat]
  PROVE  line' \in Seq(Byte)
<1>1. CASE s.block > Len(File)
  <2>1. line' = line \o <<EOT>>
    BY <1>1 DEF Sends
  <2>2. <<EOT>> \in Seq(Byte)
    BY DEF EOT, Byte
  <2> HIDE DEF Byte
  <2> QED
    BY <2>1, <2>2, ConcatProperties DEF WireTypes
<1>2. CASE ~(s.block > Len(File))
  <2>1. line' = line \o Packet(s.block, s.check, s.base)
    BY <1>2 DEF Sends
  <2>2. s.block \in 1..Len(File) /\ s.base \in Nat
    BY <1>2, FileAssumption, LenProperties
  <2>3. Packet(s.block, s.check, s.base) \in Seq(Byte)
    BY <2>2, PacketType
  <2> HIDE DEF Byte
  <2> QED
    BY <2>1, <2>3, ConcatProperties DEF WireTypes
<1> QED
  BY <1>1, <1>2

\* The invariant holds in the initial states.
LEMMA InitIInv == Init => IInv
<1> SUFFICES ASSUME Init PROVE IInv
  OBVIOUS
<1>1. PICK base \in Bases :
        /\ LET new == [NewReceiver EXCEPT !.blocksReceived = base,
                         !.expectedBlock = (base + 1) % 256]
           IN rx \in {new, SelectChecksum(new, TRUE), SelectChecksum(new, FALSE)}
        /\ \E first \in {base, base + 1} :
             sender = [block |-> 1, check |-> "NONE", active |-> TRUE,
                       base |-> first]
  BY DEF Init
<1>2. base \in Nat
  BY BoundsAssumption
<1> DEFINE number == (base + 1) % 256
           fresh == [state |-> "WAITING", dataIndex |-> 0, crc |-> 0,
             receivedCrc |-> 0, checksum |-> 0, blockSize |-> BLOCK_SIZE,
             blocksReceived |-> 0, expectedBlock |-> 1, blockNumber |-> 0,
             checksumMode |-> FALSE, errors |-> 0, startupTimeouts |-> 0,
             modeLocked |-> FALSE, cancelCount |-> 0, eotSeen |-> FALSE]
           new == [NewReceiver EXCEPT !.blocksReceived = base,
                     !.expectedBlock = number]
           Fresh(r) == /\ r \in Receivers /\ r.state = "WAITING"
                       /\ r.dataIndex = 0 /\ r.errors = 0
                       /\ r.startupTimeouts = 0 /\ r.cancelCount = 0
<1>3. number \in Byte
  <2>1. base + 1 \in Nat
    BY <1>2
  <2> QED
    BY <2>1, ByteOf
<1>4. Fresh(fresh)
  <2>1. 0 \in Word /\ 0 \in Byte /\ 1 \in Byte
    BY WordNat DEF Byte
  <2>2. 0 \in 0..MAX_ERRORS
    BY SizesAreNat
  <2> QED
    BY <2>1, <2>2 DEF Receivers, States
<1>5. Fresh(NewReceiver)
  <2> HIDE DEF fresh
  <2>1. NewReceiver = ResetPacket(fresh)
    BY DEF NewReceiver, fresh
  <2> QED
    BY <1>4, <2>1, ResetKeeps
<1> HIDE DEF fresh, number
<1>6. Fresh(new) /\ new.blocksReceived = base /\ new.expectedBlock = number
  <2> DEFINE q == [NewReceiver EXCEPT !.blocksReceived = base]
  <2>1. Fresh(q) /\ q.blocksReceived = base
    BY <1>2, <1>5 DEF Receivers
  <2>2. new = [q EXCEPT !.expectedBlock = number]
    OBVIOUS
  <2> HIDE DEF q, new
  <2> QED
    BY <1>3, <2>1, <2>2 DEF Receivers
<1>7. rx \in {new, SelectChecksum(new, TRUE), SelectChecksum(new, FALSE)}
  BY <1>1 DEF number
<1>8. ASSUME NEW mode \in BOOLEAN, NEW r \in Receivers, Fresh(r)
      PROVE  LET s == SelectChecksum(r, mode)
             IN /\ Fresh(s) /\ s.blocksReceived = r.blocksReceived
                /\ s.expectedBlock = r.expectedBlock
  <2> DEFINE q == [r EXCEPT !.checksumMode = mode]
             s == [q EXCEPT !.startupTimeouts = 0]
             u == [s EXCEPT !.modeLocked = TRUE]
  <2>1. SelectChecksum(r, mode) = u
    BY DEF SelectChecksum
  <2>2. /\ Fresh(q) /\ q.blocksReceived = r.blocksReceived
        /\ q.expectedBlock = r.expectedBlock
    BY <1>8 DEF Receivers
  <2> HIDE DEF q
  <2>3. 0 \in 0..MAX_ERRORS
    BY SizesAreNat
  <2>4. /\ Fresh(s) /\ s.blocksReceived = r.blocksReceived
        /\ s.expectedBlock = r.expectedBlock
    BY <2>2, <2>3 DEF Receivers
  <2> HIDE DEF s
  <2>5. /\ Fresh(u) /\ u.blocksReceived = r.blocksReceived
        /\ u.expectedBlock = r.expectedBlock
    BY <2>4 DEF Receivers
  <2> HIDE DEF u
  <2> QED
    BY <2>1, <2>5
<1>9. Fresh(rx) /\ rx.blocksReceived = base /\ rx.expectedBlock = number
  <2> HIDE DEF new, Fresh
  <2>1. Fresh(new) /\ new \in Receivers
    BY <1>6 DEF Fresh
  <2> QED
    BY <1>6, <1>7, <1>8, <2>1
<1>10. event = "NONE" /\ buffer = <<>> /\ <<>> \in Seq(Byte) /\ Len(<<>>) = 0
  BY DEF Init
<1>11. Types
  BY <1>9, <1>10 DEF Types, Events
<1>12. Counts
  <2>1. rx.expectedBlock = (rx.blocksReceived + 1) % 256
    BY <1>9 DEF number
  <2> QED
    BY <1>9, <1>10, <2>1, SizesAreNat DEF Counts, Startup
<1>13. Stored
  BY <1>9, <1>10 DEF Stored, In
<1>14. Checked /\ CrcOfStored
  BY <1>9 DEF Checked, CrcOfStored, In
<1>15. WireTypes
  <2>1. sender \in [block : Nat \ {0}, check : {"NONE", "SUM", "CRC"},
                    active : BOOLEAN, base : Nat]
    BY <1>1, <1>2
  <2> QED
    BY <2>1 DEF WireTypes, Init
<1> QED
  BY <1>11, <1>12, <1>13, <1>14, <1>15 DEF IInv, RInv

\* The invariant of the receiver speaks of the receiver alone.
LEMMA RInvUnchanged ==
  ASSUME RInv, UNCHANGED <<rx, event, buffer>>
  PROVE  RInv'
  BY DEF RInv, Types, Counts, Stored, Checked, CrcOfStored, In, Startup

\* An event that is done with leaves none.
LEMMA SayKeeps ==
  ASSUME RInv, Say
  PROVE  RInv'
<1>1. /\ rx' = rx /\ buffer' = buffer /\ event' = "NONE"
      /\ event \in {"SEND_C", "SEND_ACK", "SEND_NAK"}
  BY DEF Say
<1>2. Types'
  BY <1>1 DEF RInv, Types, Events
<1>3. Counts'
  BY <1>1 DEF RInv, Counts, Startup
<1>4. Stored'
  BY <1>1 DEF RInv, Stored, In
<1>5. Checked' /\ CrcOfStored'
  BY <1>1 DEF RInv, Checked, CrcOfStored, In
<1> QED
  BY <1>2, <1>3, <1>4, <1>5 DEF RInv

\* Every step keeps what is on its way a sequence of bytes.
LEMMA WireKeeps ==
  ASSUME IInv, Next
  PROVE  WireTypes'
<1> USE DEF IInv
<1>1. /\ line \in Seq(Byte) /\ replies \in Seq(Replies)
      /\ sender \in [block : Nat \ {0}, check : {"NONE", "SUM", "CRC"},
                     active : BOOLEAN, base : Nat]
      /\ saved \in Seq(Seq(Byte)) /\ buffer \in Seq(Byte)
      /\ outcome \in {"OPEN", "COMPLETE", "CANCELLED", "ERROR"}
  BY DEF WireTypes, RInv, Types
<1>2. line # <<>> => Tail(line) \in Seq(Byte)
  <2> HIDE DEF Byte
  <2> QED
    BY <1>1, HeadTailProperties
<1>3. replies # <<>> => Tail(replies) \in Seq(Replies)
  <2> HIDE DEF Replies
  <2> QED
    BY <1>1, HeadTailProperties
<1>4. CASE Save
  <2>1. SubSeq(buffer, 1, rx.blockSize) \in Seq(Byte)
    <3>1. rx.blockSize \in Nat /\ rx.blockSize <= Len(buffer)
      BY <1>4, SizesAreNat DEF RInv, Types, Receivers, Stored, Save, In
    <3> HIDE DEF Byte
    <3> QED
      BY <1>1, <3>1
  <2>2. saved' = Append(saved, SubSeq(buffer, 1, rx.blockSize))
        /\ UNCHANGED <<line, replies, sender, outcome>>
    BY <1>4 DEF Save, wire
  <2>3. saved' \in Seq(Seq(Byte))
    BY <1>1, <2>1, <2>2, AppendProperties
  <2> QED
    BY <1>1, <2>2, <2>3 DEF WireTypes
<1>5. CASE Say
  <2>1. line' \in Seq(Byte) /\ replies' \in Seq(Replies)
    <3>1. line' \in {line, <<>>} /\ replies' \in {replies, Append(replies, event)}
          /\ event \in Replies
      BY <1>5 DEF Say, Replies
    <3>2. <<>> \in Seq(Byte)
      OBVIOUS
    <3>3. Append(replies, event) \in Seq(Replies)
      <4> HIDE DEF Replies
      <4> QED
        BY <1>1, <3>1, AppendProperties
    <3> QED
      BY <1>1, <3>1, <3>2, <3>3
  <2> QED
    BY <1>1, <1>5, <2>1 DEF WireTypes, Say, callerVars
<1>6. CASE Finish
  BY <1>1, <1>6 DEF WireTypes, Finish, wire
<1>7. CASE Timeout
  BY <1>1, <1>7 DEF WireTypes, Timeout, wire, callerVars
<1>8. CASE Deliver \/ Damage \/ Lose
  <2>1. line' = Tail(line) /\ line # <<>> /\ UNCHANGED <<replies, sender, callerVars>>
    BY <1>8 DEF Deliver, Damage, Lose, Fault, Listening
  <2> QED
    BY <1>1, <1>2, <2>1 DEF WireTypes, callerVars
<1>9. CASE LoseAnswer
  <2>1. replies' = Tail(replies) /\ replies # <<>> /\ UNCHANGED <<line, sender, callerVars>>
    BY <1>9 DEF LoseAnswer
  <2> QED
    BY <1>1, <1>3, <2>1 DEF WireTypes, callerVars
<1>10. CASE Sender
  <2>1. PICK s : /\ Sends(s)
                 /\ s \in [block : Nat \ {0}, check : {"NONE", "SUM", "CRC"},
                           active : BOOLEAN, base : Nat]
    <3> DEFINE c == [sender EXCEPT !.check = "CRC"]
               d == [sender EXCEPT !.check = IF @ = "NONE" THEN "SUM" ELSE @]
               e == [sender EXCEPT !.block = @ + 1]
    <3>0. {c, d, e} \subseteq [block : Nat \ {0}, check : {"NONE", "SUM", "CRC"},
                               active : BOOLEAN, base : Nat]
      BY <1>1
    <3>1. CASE HearsC
      <4>1. Sends(c)
        BY <3>1 DEF HearsC
      <4> HIDE DEF c
      <4> QED
        BY <3>0, <4>1
    <3>2. CASE HearsNak
      <4>1. Sends(d)
        BY <3>2 DEF HearsNak
      <4> HIDE DEF d
      <4> QED
        BY <3>0, <4>1
    <3>3. CASE HearsAck
      <4>1. Sends(e)
        BY <3>3 DEF HearsAck
      <4> HIDE DEF e
      <4> QED
        BY <3>0, <4>1
    <3> QED
      BY <1>10, <3>1, <3>2, <3>3 DEF Sender
  <2>2. line' \in Seq(Byte) /\ sender' = s
    BY <2>1, SendsBytes DEF Sends
  <2>3. replies' = Tail(replies) /\ replies # <<>> /\ UNCHANGED callerVars
    BY <1>10 DEF Sender, HearsC, HearsNak, HearsAck, SenderHears
  <2> QED
    BY <1>1, <1>3, <2>1, <2>2, <2>3 DEF WireTypes, callerVars
<1>11. CASE SenderCancels
  <2>1. /\ sender' = [sender EXCEPT !.active = FALSE]
        /\ line' = line \o <<CAN, CAN>> /\ replies' = <<>>
        /\ UNCHANGED callerVars
    BY <1>11 DEF SenderCancels
  <2>2. <<CAN, CAN>> \in Seq(Byte)
    BY DEF CAN, Byte
  <2>3. line' \in Seq(Byte)
    <3> HIDE DEF Byte
    <3> QED
      BY <1>1, <2>1, <2>2, ConcatProperties
  <2>4. sender' \in [block : Nat \ {0}, check : {"NONE", "SUM", "CRC"},
                     active : BOOLEAN, base : Nat]
    BY <1>1, <2>1
  <2> QED
    BY <1>1, <2>1, <2>3, <2>4 DEF WireTypes, callerVars
<1> QED
  BY <1>4, <1>5, <1>6, <1>7, <1>8, <1>9, <1>10, <1>11 DEF Next, Caller

\* Every step keeps the invariant.
LEMMA StepIInv == IInv /\ [Next]_vars => IInv'
<1> SUFFICES ASSUME IInv, [Next]_vars PROVE IInv'
  OBVIOUS
<1>1. CASE UNCHANGED vars
  <2>1. RInv'
    BY <1>1, RInvUnchanged DEF IInv, vars
  <2>2. WireTypes'
    BY <1>1 DEF IInv, WireTypes, vars, wire, callerVars
  <2> QED
    BY <2>1, <2>2 DEF IInv
<1>2. CASE Next
  <2>1. WireTypes'
    BY <1>2, WireKeeps
  <2>2. RInv /\ WireTypes
    BY DEF IInv
  <2>3. ASSUME Caller PROVE RInv'
    <3>1. CASE Finish
      BY <2>2, <3>1, RInvUnchanged DEF Finish
    <3> QED
      BY <2>2, <2>3, <3>1, SaveKeeps, SayKeeps, TimeoutKeeps DEF Caller
  <2>4. ASSUME Deliver PROVE RInv'
    <3>1. Head(line) \in Byte
      <4> HIDE DEF Byte
      <4> QED
        BY <2>2, <2>4, HeadTailProperties DEF WireTypes, Deliver, Listening
    <3> QED
      BY <2>2, <2>4, <3>1, ReceiveKeeps DEF Deliver, Listening
  <2>5. ASSUME Damage PROVE RInv'
    <3>1. PICK v \in Noise : Receive(v)
      BY <2>5 DEF Damage
    <3>2. v \in Byte
      BY BoundsAssumption
    <3> QED
      BY <2>2, <2>5, <3>1, <3>2, ReceiveKeeps DEF Damage, Fault, Listening
  <2>6. ASSUME Lose \/ LoseAnswer \/ Sender \/ SenderCancels PROVE RInv'
    <3>1. UNCHANGED <<rx, event, buffer>>
      BY <2>6 DEF Lose, LoseAnswer, Sender, HearsC, HearsNak, HearsAck,
                  SenderHears, SenderCancels
    <3> QED
      BY <2>2, <3>1, RInvUnchanged
  <2>7. RInv'
    BY <1>2, <2>3, <2>4, <2>5, <2>6 DEF Next
  <2> QED
    BY <2>1, <2>7 DEF IInv
<1> QED
  BY <1>1, <1>2

\* Every reachable state satisfies the invariant.
THEOREM InvariantHolds == Spec => []IInv
<1>1. Init => IInv
  BY InitIInv
<1>2. IInv /\ [Next]_vars => IInv'
  BY StepIInv
<1> QED
  BY <1>1, <1>2, PTL DEF Spec

\* Every field keeps its type, no count leaves its eight bits, and the data of
\* a packet keeps within its buffer, whatever comes in whichever state.
THEOREM TypesHold == Spec => []TypeOK
<1>1. IInv => TypeOK
  <2> SUFFICES ASSUME IInv PROVE TypeOK
    OBVIOUS
  <2>1. rx \in Receivers /\ buffer \in Seq(Byte) /\ event \in Events
    BY DEF IInv, RInv, Types
  <2>2. /\ rx.state \in States /\ rx.blockSize \in {BLOCK_SIZE, BLOCK_1K_SIZE}
        /\ rx.crc \in Word /\ rx.receivedCrc \in Word
        /\ rx.expectedBlock \in Byte /\ rx.blockNumber \in Byte
        /\ rx.checksum \in Byte /\ rx.cancelCount \in 0..2
        /\ rx.errors \in 0..MAX_ERRORS /\ rx.startupTimeouts \in 0..MAX_ERRORS
        /\ rx.blocksReceived \in Nat /\ rx.dataIndex \in Nat
    BY <2>1 DEF Receivers
  <2>3. rx.blockSize \in Nat \ {0}
    BY <2>2, SizesAreNat
  <2>4. {rx.cancelCount, rx.errors, rx.startupTimeouts} \subseteq Byte
    BY <2>2, SizesAreNat DEF Byte
  <2>5. rx.dataIndex \in 0..rx.blockSize
    BY <2>1, <2>2, <2>3 DEF IInv, RInv, Stored, States, In
  <2>6. In("DATA") => rx.dataIndex < rx.blockSize /\ Len(buffer) >= rx.dataIndex
    BY <2>1, <2>2, LenProperties DEF IInv, RInv, Stored
  <2>7. line \in Seq(Byte) /\ outcome \in {"OPEN", "COMPLETE", "CANCELLED", "ERROR"}
    BY DEF IInv, WireTypes
  <2> QED
    BY <2>1, <2>2, <2>4, <2>5, <2>6, <2>7 DEF TypeOK, States, Events
<1> QED
  BY <1>1, InvariantHolds, PTL

\* The CRC of a packet is, at every byte, the remainder of the data stored.
THEOREM CrcHolds == Spec => []CrcOfStored
<1>1. IInv => CrcOfStored
  BY DEF IInv, RInv
<1> QED
  BY <1>1, InvariantHolds, PTL

\* A block is saved only when it is whole, has the number that follows that of
\* the block before it, modulo 256, and, when CRCs are used, comes with the
\* remainder of its data.
SavesChecked ==
  saved' # saved =>
    \E block \in Seq(Byte) :
      /\ saved' = Append(saved, block) /\ Len(block) = rx.blockSize
      /\ rx.blockNumber = (rx.blocksReceived + 1) % 256
      /\ rx'.blocksReceived = rx.blocksReceived + 1
      /\ ~rx.checksumMode => rx.receivedCrc = Remainder(block)

\* No step saves a block that is not whole, in order and checked.
THEOREM SavesCheckedHolds == Spec => [][SavesChecked]_vars
<1>1. ASSUME IInv, [Next]_vars
      PROVE  [SavesChecked]_vars
  <2> SUFFICES ASSUME saved' # saved PROVE SavesChecked
    BY DEF SavesChecked
  <2>1. Save
    BY <1>1 DEF vars, callerVars, Next, Caller, Say, Finish, Timeout, Deliver,
      Damage, Lose, LoseAnswer, Sender, HearsC, HearsNak, HearsAck, SenderHears,
      SenderCancels
  <2> DEFINE block == SubSeq(buffer, 1, rx.blockSize)
  <2>2. In("BLOCK_READY")
    BY <1>1, <2>1 DEF Save, IInv, RInv, Stored
  <2>3. /\ rx \in Receivers /\ buffer \in Seq(Byte) /\ rx.dataIndex = rx.blockSize
        /\ rx.blockSize \in Nat /\ rx.blockSize <= Len(buffer)
        /\ rx.crc = Remainder(block)
    BY <1>1, <2>2, SizesAreNat
       DEF IInv, RInv, Types, Receivers, Stored, CrcOfStored, In
  <2>4. block \in Seq(Byte) /\ Len(block) = rx.blockSize
    <3> HIDE DEF Byte
    <3> QED
      BY <2>3
  <2>5. /\ rx.blockNumber = (rx.blocksReceived + 1) % 256
        /\ ~rx.checksumMode => rx.receivedCrc = Remainder(block)
    BY <1>1, <2>2, <2>3 DEF IInv, RInv, Counts, Checked
  <2>6. saved' = Append(saved, block)
    BY <2>1 DEF Save
  <2>7. rx'.blocksReceived = rx.blocksReceived + 1
    <3> DEFINE q == [rx EXCEPT !.expectedBlock = (@ + 1) % 256,
                       !.blocksReceived = @ + 1, !.errors = 0]
    <3>1. rx' = ResetPacket(q)
      BY <2>1 DEF Save
    <3>2. q.blocksReceived = rx.blocksReceived + 1
      BY <2>3 DEF Receivers
    <3>3. ResetPacket(q).blocksReceived = q.blocksReceived
      BY <2>3 DEF ResetPacket, Receivers
    <3> HIDE DEF q
    <3> QED
      BY <3>1, <3>2, <3>3
  <2> HIDE DEF block
  <2> QED
    BY <2>4, <2>5, <2>6, <2>7 DEF SavesChecked
<1> QED
  BY <1>1, InvariantHolds, PTL DEF Spec

-----------------------------------------------------------------------------
(* What is saved, as long as the line is undisturbed.                        *)

\* The call that ended the transfer.
Ended == event \in {"COMPLETE", "CANCELLED", "ERROR"}

\* The block the sender is at, and all that it sends for it.
Current == File[sender.block]
Sent ==
  IF sender.block > Len(File) THEN <<EOT>>
  ELSE Packet(sender.block, sender.check, sender.base)

\* The number of that block.
Number == (sender.base + sender.block) % 256

\* The sender numbers its blocks as the receiver does, or is one ahead for good.
Matched == rx.expectedBlock = (sender.base + Len(saved) + 1) % 256
Ahead == saved = <<>> /\ sender.block = 1 /\ rx.expectedBlock = sender.base % 256

\* What is saved is the file from its beginning.
FromFile == saved = SubSeq(File, 1, Len(saved)) /\ Len(saved) <= Len(File)

\* The sender is at the block that was saved last or at the next one.
InStep ==
  /\ FromFile
  /\ Matched \/ Ahead
  /\ Matched => sender.block \in {Len(saved), Len(saved) + 1}
  /\ In("BLOCK_READY") => Matched /\ sender.block = Len(saved) + 1
  /\ Startup => saved = <<>>

\* What answer is on its way.
Answers(r) == event = r \/ replies = <<r>>
Answer ==
  /\ replies = <<>> \/ \E r \in Replies : replies = <<r>>
  /\ replies # <<>> => event = "NONE" /\ In("WAITING")
  /\ event \in Replies => In("WAITING")
  /\ Answers("SEND_C") => ~rx.checksumMode
  /\ Answers("SEND_ACK") =>
       Matched /\ sender.block = Len(saved) /\ sender.check # "NONE"
  /\ rx.checksumMode /\ ~rx.modeLocked => rx.startupTimeouts >= CRC_RETRIES

\* Of what was sent k bytes have been taken: those the receiver's state asks for.
Position(k) ==
  /\ In("WAITING") => k \in {0, Len(Sent)}
  /\ In("BLOCK_NUMBER") => k = 1
  /\ In("COMPLEMENT") => k = 2
  /\ In("DATA") => k = 3 + rx.dataIndex
  /\ rx.state \in {"CHECKSUM", "CRC_HIGH"} => k = 3 + Len(Current)
  /\ In("CRC_LOW") => k = 4 + Len(Current)
  /\ In("BLOCK_READY") => k = Len(Sent)

Taken ==
  /\ ~In("WAITING") => sender.block <= Len(File) /\ rx.blockSize = Len(Current)
  /\ rx.state \notin {"WAITING", "BLOCK_NUMBER"} =>
       /\ In("COMPLEMENT") \/ SubSeq(buffer, 1, rx.dataIndex) = SubSeq(Current, 1, rx.dataIndex)
       /\ rx.blockNumber = Number
  /\ In("CRC_LOW") /\ sender.check = "CRC" =>
       rx.receivedCrc = 256 * (xmodem_crc16(Current) \div 256)

\* Some of what was sent is still to come, or to be dealt with.
Flying(k) == k < Len(Sent) \/ ~In("WAITING")

\* A receiver whose sender uses CRCs does not go over to checksums.
Modes(k) ==
  Matched /\ File # <<>> /\ sender.check = "CRC" /\ (sender.active \/ Flying(k))
    => ~rx.checksumMode /\ (Startup => Flying(k))

Tails == {<<>>, <<CAN>>, <<CAN, CAN>>}

\* What is left on the line, unless it is about to be cleared.
OnLine(k, tail) ==
  /\ sender.active => tail = <<>>
  /\ event # "SEND_NAK" => line = SubSeq(Sent, k + 1, Len(Sent)) \o tail
  /\ Position(k) /\ Modes(k)
  /\ Flying(k) => /\ replies = <<>> /\ event \in {"NONE", "BLOCK_READY"}
                  /\ sender.check # "NONE"

\* An undisturbed transfer.
Safe ==
  /\ FromFile
  /\ event = "COMPLETE" => saved = File
  /\ Open \/ event = outcome
  /\ Ended => In("WAITING")
  /\ ~Ended => /\ InStep /\ Answer /\ Taken
               /\ \E k \in 0..Len(Sent), tail \in Tails : OnLine(k, tail)

SInv == faults \in Nat /\ (faults = 0 => Safe)

-----------------------------------------------------------------------------
Left(k) == SubSeq(Sent, k + 1, Len(Sent))

\* The blocks of a file hold bytes, and at least one each.
LEMMA Blocks ==
  /\ Len(File) \in Nat
  /\ \A i \in 1..Len(File) :
       /\ File[i] \in Seq(Byte) /\ Len(File[i]) \in {BLOCK_SIZE, BLOCK_1K_SIZE}
       /\ Len(File[i]) \in Nat /\ Len(File[i]) >= 1
<1>1. File \in Seq(Seq(Byte)) /\ Len(File) \in Nat
  BY FileAssumption, LenProperties
<1>2. ASSUME NEW i \in 1..Len(File)
      PROVE  File[i] \in Seq(Byte) /\ Len(File[i]) \in {BLOCK_SIZE, BLOCK_1K_SIZE}
  BY <1>1, FileAssumption
<1>3. BLOCK_SIZE \in Nat /\ BLOCK_SIZE >= 1 /\ BLOCK_1K_SIZE \in Nat /\ BLOCK_1K_SIZE >= 1
  BY SizesAreNat
<1> QED
  BY <1>1, <1>2, <1>3

\* What is left of a sequence and what follows it lose their first byte.
LEMMA Pushed ==
  ASSUME NEW S, NEW x \in S, NEW w \in Seq(S)
  PROVE  <<x>> \o w # <<>> /\ Head(<<x>> \o w) = x /\ Tail(<<x>> \o w) = w
<1> DEFINE l == <<x>> \o w
<1>1. /\ l \in Seq(S) /\ Len(l) = 1 + Len(w) /\ Len(w) \in Nat
      /\ \A i \in 1..(1 + Len(w)) : l[i] = IF i <= 1 THEN x ELSE w[i - 1]
  <2>1. <<x>> \in Seq(S) /\ Len(<<x>>) = 1 /\ <<x>>[1] = x
    OBVIOUS
  <2>2. /\ l \in Seq(S) /\ Len(l) = Len(<<x>>) + Len(w)
        /\ \A i \in 1..(Len(<<x>>) + Len(w)) :
             l[i] = IF i <= Len(<<x>>) THEN <<x>>[i] ELSE w[i - Len(<<x>>)]
    BY <2>1, ConcatProperties
  <2> HIDE DEF l
  <2>3. Len(w) \in Nat
    BY LenProperties
  <2> QED
    BY <2>1, <2>2, <2>3
<1> HIDE DEF l
<1>2. l # <<>> /\ Head(l) = l[1]
  BY <1>1
<1>3. l[1] = x
  BY <1>1
<1>4. /\ Tail(l) \in Seq(S) /\ Len(Tail(l)) = Len(w)
      /\ \A i \in 1..Len(Tail(l)) : Tail(l)[i] = l[i + 1]
  BY <1>1, <1>2, HeadTailProperties
<1>5. Tail(l) = w
  <2>1. ASSUME NEW i \in 1..Len(Tail(l)) PROVE Tail(l)[i] = w[i]
    <3>1. i + 1 \in 1..(1 + Len(w)) /\ ~(i + 1 <= 1) /\ (i + 1) - 1 = i
      BY <1>1, <1>4
    <3> QED
      BY <1>1, <1>4, <3>1
  <2> QED
    BY <1>4, <2>1, SeqEqual
<1> QED
  BY <1>2, <1>3, <1>5 DEF l

\* When a byte of what is left is taken, the rest is left.
LEMMA TakesFirst ==
  ASSUME NEW S, NEW s \in Seq(S), NEW tail \in Seq(S), NEW k \in Nat, k < Len(s)
  PROVE  LET l == SubSeq(s, k + 1, Len(s)) \o tail
         IN /\ l # <<>> /\ Head(l) = s[k + 1]
            /\ Tail(l) = SubSeq(s, (k + 1) + 1, Len(s)) \o tail
<1> DEFINE b == SubSeq(s, (k + 1) + 1, Len(s))
<1>1. Len(s) \in Nat /\ k + 1 \in 1..Len(s) /\ Len(s) \in (k + 1)..Len(s)
  BY LenProperties
<1>2. s[k + 1] \in S
  BY <1>1, ElementOfSeq
<1>3. b \in Seq(S)
  <2>1. \A i \in ((k + 1) + 1)..Len(s) : s[i] \in S
    BY <1>1, ElementOfSeq
  <2> QED
    BY <1>1, <2>1, SubSeqProperties
<1>4. SubSeq(s, k + 1, Len(s)) = <<s[k + 1]>> \o b
  BY <1>1, SubSeqRecursiveFirst
<1> HIDE DEF b
<1>5. (<<s[k + 1]>> \o b) \o tail = <<s[k + 1]>> \o (b \o tail)
  <2>1. <<s[k + 1]>> \in Seq(S)
    BY <1>2
  <2> QED
    BY <1>3, <2>1, ConcatAssociative
<1>6. b \o tail \in Seq(S)
  BY <1>3, ConcatProperties
<1>7. /\ <<s[k + 1]>> \o (b \o tail) # <<>>
      /\ Head(<<s[k + 1]>> \o (b \o tail)) = s[k + 1]
      /\ Tail(<<s[k + 1]>> \o (b \o tail)) = b \o tail
  BY <1>2, <1>6, Pushed
<1> QED
  BY <1>4, <1>5, <1>7 DEF b

\* Nothing is left of what has been taken to its end.
LEMMA NothingLeft ==
  ASSUME NEW S, NEW s \in Seq(S), NEW tail \in Seq(S)
  PROVE  SubSeq(s, Len(s) + 1, Len(s)) \o tail = tail
<1>1. Len(s) \in Nat
  BY LenProperties
<1>2. SubSeq(s, Len(s) + 1, Len(s)) = <<>>
  BY <1>1, SubSeqEmpty
<1> QED
  BY <1>2, ConcatEmptySeq

Senders == [block : Nat \ {0}, check : {"NONE", "SUM", "CRC"},
            active : BOOLEAN, base : Nat]

\* A check is a sum, or the CRC of the data in two bytes.
LEMMA CheckBytesAre ==
  ASSUME NEW data \in Seq(Byte), NEW check
  PROVE  LET c == CheckBytes(data, check)
         IN /\ c \in Seq(Byte) /\ Len(c) = IF check = "SUM" THEN 1 ELSE 2
            /\ check # "SUM" => /\ c[1] = xmodem_crc16(data) \div 256
                                /\ c[2] = xmodem_crc16(data) % 256
<1>1. CheckBytes(data, check) \in Seq(Byte)
  BY CheckBytesType
<1>2. CASE check = "SUM"
  <2>1. \E x : CheckBytes(data, check) = <<x>>
    BY <1>2 DEF CheckBytes
  <2> QED
    BY <1>1, <1>2, <2>1
<1>3. CASE check # "SUM"
  <2>1. CheckBytes(data, check) = <<xmodem_crc16(data) \div 256, xmodem_crc16(data) % 256>>
    BY <1>3 DEF CheckBytes
  <2> HIDE DEF Byte
  <2> QED
    BY <1>1, <1>3, <2>1
<1> QED
  BY <1>2, <1>3

\* p is the packet of the data d: header, number twice, data and check.
IsPacket(p, d, number, check) ==
  /\ p \in Seq(Byte) /\ d \in Seq(Byte) /\ Len(d) \in Nat /\ Len(d) >= 1
  /\ Len(p) = Len(d) + (IF check = "SUM" THEN 4 ELSE 5)
  /\ p[1] = (IF Len(d) = BLOCK_SIZE THEN SOH ELSE STX)
  /\ p[2] = number /\ p[3] = 255 - number
  /\ \A j \in 1..Len(d) : p[3 + j] = d[j]
  /\ check # "SUM" => /\ p[4 + Len(d)] = xmodem_crc16(d) \div 256
                      /\ p[5 + Len(d)] = xmodem_crc16(d) % 256

\* A packet of the sender has the fields the receiver looks for.
LEMMA PacketIs ==
  ASSUME NEW i \in 1..Len(File), NEW check, NEW base \in Nat
  PROVE  IsPacket(Packet(i, check, base), File[i], (base + i) % 256, check)
<1> DEFINE d == File[i]
           n == Len(d)
           c == CheckBytes(d, check)
           m == IF check = "SUM" THEN 1 ELSE 2
           first == IF n = BLOCK_SIZE THEN SOH ELSE STX
           number == (base + i) % 256
           h == <<first, number, 255 - number>>
           p == Packet(i, check, base)
<1>1. d \in Seq(Byte) /\ n \in Nat /\ n >= 1
  BY Blocks
<1>2. /\ c \in Seq(Byte) /\ Len(c) = m
      /\ check # "SUM" => /\ c[1] = xmodem_crc16(d) \div 256
                          /\ c[2] = xmodem_crc16(d) % 256
  <2> HIDE DEF d
  <2> QED
    BY <1>1, CheckBytesAre
<1>3. p = h \o d \o c
  BY DEF Packet
<1>4. number \in Byte /\ 255 - number \in Byte /\ first \in Byte
  <2>1. base + i \in Nat
    OBVIOUS
  <2>2. number \in Byte
    BY <2>1, ByteOf
  <2> HIDE DEF number
  <2> QED
    BY <2>2 DEF Byte, SOH, STX
<1>5. /\ h \in Seq(Byte) /\ Len(h) = 3
      /\ h[1] = first /\ h[2] = number /\ h[3] = 255 - number
  <2> HIDE DEF Byte, first, number
  <2> QED
    BY <1>4
<1> HIDE DEF h, d, c, p, first, number
<1> DEFINE e == h \o d
<1>6. /\ e \in Seq(Byte) /\ Len(e) = 3 + n
      /\ \A j \in 1..(3 + n) : e[j] = IF j <= 3 THEN h[j] ELSE d[j - 3]
  <2> HIDE DEF Byte
  <2>1. /\ e \in Seq(Byte) /\ Len(e) = Len(h) + Len(d)
        /\ \A j \in 1..(Len(h) + Len(d)) :
             e[j] = IF j <= Len(h) THEN h[j] ELSE d[j - Len(h)]
    <3>1. d \in Seq(Byte) /\ h \in Seq(Byte) /\ e = h \o d
      BY <1>1, <1>5
    <3> HIDE DEF e
    <3> QED
      BY <3>1, ConcatProperties
  <2> HIDE DEF e
  <2> QED
    BY <1>5, <2>1
<1>7. /\ p \in Seq(Byte) /\ Len(p) = 3 + n + m
      /\ \A j \in 1..(3 + n + m) : p[j] = IF j <= 3 + n THEN e[j] ELSE c[j - (3 + n)]
  <2> HIDE DEF Byte
  <2>1. p = e \o c
    BY <1>3
  <2> HIDE DEF e
  <2>2. /\ p \in Seq(Byte) /\ Len(p) = Len(e) + Len(c)
        /\ \A j \in 1..(Len(e) + Len(c)) :
             p[j] = IF j <= Len(e) THEN e[j] ELSE c[j - Len(e)]
    <3>1. e \in Seq(Byte) /\ c \in Seq(Byte)
      BY <1>2, <1>6
    <3> QED
      BY <2>1, <3>1, ConcatProperties
  <2> QED
    BY <1>2, <1>6, <2>2
<1> HIDE DEF e, n, m
<1>8. m \in {1, 2} /\ (check # "SUM" => m = 2) /\ (check = "SUM" => m = 1)
  BY DEF m
<1>9. p[1] = first /\ p[2] = number /\ p[3] = 255 - number
  <2>1. /\ 1 \in 1..(3 + n + m) /\ 2 \in 1..(3 + n + m) /\ 3 \in 1..(3 + n + m)
        /\ 1 \in 1..(3 + n) /\ 2 \in 1..(3 + n) /\ 3 \in 1..(3 + n)
        /\ 3 <= 3 + n /\ 2 <= 3 + n /\ 1 <= 3 + n
    BY <1>1, <1>8
  <2>2. p[1] = h[1] /\ p[2] = h[2] /\ p[3] = h[3]
    BY <1>6, <1>7, <2>1
  <2> QED
    BY <1>5, <2>2
<1>10. ASSUME NEW j \in 1..n PROVE p[3 + j] = d[j]
  <2>1. /\ 3 + j \in 1..(3 + n + m) /\ 3 + j \in 1..(3 + n) /\ 3 + j <= 3 + n
        /\ ~(3 + j <= 3) /\ (3 + j) - 3 = j
    BY <1>1, <1>8
  <2> QED
    BY <1>6, <1>7, <2>1
<1>11. ASSUME check # "SUM"
       PROVE  /\ p[4 + n] = xmodem_crc16(d) \div 256
              /\ p[5 + n] = xmodem_crc16(d) % 256
  <2>1. /\ 4 + n \in 1..(3 + n + m) /\ 5 + n \in 1..(3 + n + m)
        /\ ~(4 + n <= 3 + n) /\ ~(5 + n <= 3 + n)
        /\ (4 + n) - (3 + n) = 1 /\ (5 + n) - (3 + n) = 2
    BY <1>1, <1>8, <1>11
  <2>2. p[4 + n] = c[1] /\ p[5 + n] = c[2]
    BY <1>7, <2>1
  <2> QED
    BY <1>2, <1>11, <2>2
<1>12. 3 + n + m = n + (IF check = "SUM" THEN 4 ELSE 5)
  BY <1>1, <1>8
<1> QED
  BY <1>1, <1>7, <1>9, <1>10, <1>11, <1>12 DEF p, d, n, first, number, IsPacket

\* All that is sent for a block: a packet, or the end.
LEMMA SentIs ==
  ASSUME WireTypes
  PROVE  /\ Sent \in Seq(Byte) /\ Len(Sent) \in Nat /\ Len(Sent) >= 1
         /\ sender.block > Len(File) => Len(Sent) = 1 /\ Sent[1] = EOT
         /\ sender.block <= Len(File) =>
              /\ IsPacket(Sent, Current, Number, sender.check)
              /\ Len(Current) \in {BLOCK_SIZE, BLOCK_1K_SIZE}
              /\ File # <<>>
<1>1. /\ sender \in Senders /\ sender.block \in Nat \ {0} /\ sender.base \in Nat
      /\ Len(File) \in Nat
  BY Blocks DEF WireTypes, Senders
<1>2. CASE sender.block > Len(File)
  <2>1. Sent = <<EOT>>
    BY <1>2 DEF Sent
  <2>2. EOT \in Byte
    BY DEF EOT, Byte
  <2> HIDE DEF Byte
  <2> QED
    BY <1>1, <1>2, <2>1, <2>2
<1>3. CASE sender.block <= Len(File)
  <2>1. sender.block \in 1..Len(File)
    BY <1>1, <1>3
  <2>2. /\ Sent = Packet(sender.block, sender.check, sender.base)
        /\ Current = File[sender.block]
    BY <1>1, <1>3 DEF Sent, Current
  <2>3. IsPacket(Packet(sender.block, sender.check, sender.base), File[sender.block],
                 (sender.base + sender.block) % 256, sender.check)
    BY <1>1, <2>1, PacketIs
  <2>4. IsPacket(Sent, Current, Number, sender.check)
    BY <2>2, <2>3 DEF Number
  <2>5. Len(Current) \in {BLOCK_SIZE, BLOCK_1K_SIZE}
    BY <2>1, <2>2, Blocks
  <2>6. Sent \in Seq(Byte) /\ Len(Sent) \in Nat /\ Len(Sent) >= 1
    BY <2>4 DEF IsPacket
  <2>7. File # <<>>
    BY <2>1
  <2> QED
    BY <1>1, <1>3, <2>4, <2>5, <2>6, <2>7
<1> QED
  BY <1>1, <1>2, <1>3

-----------------------------------------------------------------------------
\* Block numbers that follow each other differ in eight bits too.
LEMMA NumberOf ==
  ASSUME NEW x \in Nat
  PROVE  /\ x % 256 \in 0..255 /\ (x + 1) % 256 # x % 256
         /\ (((x + 1) % 256) - 1) % 256 = x % 256
         /\ ((x % 256) - 1) % 256 # (x + 1) % 256
<1>1. PICK q, r : q = x \div 256 /\ r = x % 256
  OBVIOUS
<1>2. q \in Nat /\ r \in 0..255 /\ x = 256 * q + r
  BY <1>1, Division
<1>3. (x + 1) % 256 = IF r = 255 THEN 0 ELSE r + 1
  BY <1>2
<1> QED
  BY <1>1, <1>2, <1>3

\* The number of the block on its way tells whether it is the next one or the last.
LEMMA Numbers ==
  ASSUME IInv, InStep
  PROVE  /\ Number \in 0..255 /\ (Number + (255 - Number)) % 256 = 255
         /\ Matched => /\ Number = rx.expectedBlock <=> sender.block = Len(saved) + 1
                       /\ Number = (rx.expectedBlock - 1) % 256
                            <=> sender.block = Len(saved)
         /\ ~Matched => /\ Number # rx.expectedBlock
                        /\ Number # (rx.expectedBlock - 1) % 256
<1>1. /\ sender.base \in Nat /\ sender.block \in Nat /\ Len(saved) \in Nat
  BY LenProperties DEF IInv, WireTypes
<1> DEFINE x == sender.base + Len(saved)
           y == sender.base + sender.block
<1>2. x \in Nat /\ y \in Nat /\ sender.base \in Nat
  BY <1>1
<1>3. Number \in 0..255
  <2>1. Number = y % 256
    BY DEF Number
  <2> HIDE DEF y
  <2> QED
    BY <1>2, <2>1, NumberOf
<1>4. (Number + (255 - Number)) % 256 = 255
  <2>1. Number + (255 - Number) = 255
    BY <1>3
  <2> QED
    BY <2>1
<1>5. ASSUME Matched
      PROVE  /\ Number = rx.expectedBlock <=> sender.block = Len(saved) + 1
             /\ Number = (rx.expectedBlock - 1) % 256 <=> sender.block = Len(saved)
  <2>1. sender.block \in {Len(saved), Len(saved) + 1} /\ rx.expectedBlock = (x + 1) % 256
    BY <1>5 DEF InStep, Matched
  <2>2. Number = y % 256
    BY DEF Number
  <2>3. y = IF sender.block = Len(saved) THEN x ELSE x + 1
    BY <1>1, <2>1
  <2>4. (x + 1) % 256 # x % 256 /\ (((x + 1) % 256) - 1) % 256 = x % 256
    <3> HIDE DEF x
    <3> QED
      BY <1>2, NumberOf
  <2>5. CASE sender.block = Len(saved)
    <3>1. Number = x % 256 /\ sender.block # Len(saved) + 1
      BY <1>1, <2>2, <2>3, <2>5
    <3> HIDE DEF x, y
    <3> QED
      BY <2>1, <2>4, <2>5, <3>1
  <2>6. CASE sender.block # Len(saved)
    <3>1. Number = (x + 1) % 256 /\ sender.block = Len(saved) + 1
      BY <2>1, <2>2, <2>3, <2>6
    <3> HIDE DEF x, y
    <3> QED
      BY <2>1, <2>4, <2>6, <3>1
  <2> QED
    BY <2>5, <2>6
<1>6. ASSUME ~Matched
      PROVE  Number # rx.expectedBlock /\ Number # (rx.expectedBlock - 1) % 256
  <2>1. rx.expectedBlock = sender.base % 256 /\ Number = (sender.base + 1) % 256
    BY <1>6 DEF InStep, Ahead, Number
  <2>2. PICK b \in Nat : b = sender.base
    BY <1>2
  <2>3. (b + 1) % 256 # b % 256 /\ ((b % 256) - 1) % 256 # (b + 1) % 256
    BY NumberOf
  <2>4. b % 256 = rx.expectedBlock /\ (b + 1) % 256 = Number
    BY <2>1, <2>2
  <2> QED
    BY <2>3, <2>4
<1> QED
  BY <1>3, <1>4, <1>5, <1>6

\* The sender that is not asked for anything sends what it did.
LEMMA SameSent ==
  ASSUME sender' = sender
  PROVE  Sent' = Sent /\ Current' = Current /\ Number' = Number
  BY DEF Sent, Current, Number

\* The CANs of a sender that gave up.
LEMMA TailIs ==
  ASSUME NEW tail \in Tails
  PROVE  /\ tail \in Seq(Byte)
         /\ tail # <<>> => Head(tail) = CAN /\ Tail(tail) \in Tails
<1>1. CAN \in Byte
  BY DEF CAN, Byte
<1> HIDE DEF Byte
<1>2. <<>> \in Seq(Byte) /\ <<CAN>> \in Seq(Byte) /\ <<CAN, CAN>> \in Seq(Byte)
  BY <1>1
<1>3. tail \in Seq(Byte)
  BY <1>2 DEF Tails
<1>4. Head(<<CAN>>) = CAN /\ Tail(<<CAN>>) = <<>>
  <2>1. <<CAN>> \o <<>> = <<CAN>>
    BY <1>2, ConcatEmptySeq
  <2>2. Head(<<CAN>> \o <<>>) = CAN /\ Tail(<<CAN>> \o <<>>) = <<>>
    BY <1>1, <1>2, Pushed
  <2> QED
    BY <2>1, <2>2
<1>5. Head(<<CAN, CAN>>) = CAN /\ Tail(<<CAN, CAN>>) = <<CAN>>
  <2>1. <<CAN>> \o <<CAN>> = <<CAN, CAN>>
    <3> DEFINE c == <<CAN>> \o <<CAN>>
               d == <<CAN, CAN>>
    <3>1. /\ c \in Seq(Byte) /\ Len(c) = Len(<<CAN>>) + Len(<<CAN>>)
          /\ \A i \in 1..(Len(<<CAN>>) + Len(<<CAN>>)) :
               c[i] = IF i <= Len(<<CAN>>) THEN <<CAN>>[i] ELSE <<CAN>>[i - Len(<<CAN>>)]
      BY <1>2, ConcatProperties
    <3>2. Len(<<CAN>>) = 1 /\ <<CAN>>[1] = CAN
      OBVIOUS
    <3>3. d \in Seq(Byte) /\ Len(d) = 2 /\ d[1] = CAN /\ d[2] = CAN
      BY <1>2
    <3> HIDE DEF c, d
    <3>4. Len(c) = 2 /\ c[1] = CAN /\ c[2] = CAN
      BY <3>1, <3>2
    <3>5. \A i \in 1..Len(c) : c[i] = d[i]
      BY <3>3, <3>4
    <3>6. c = d
      BY <3>1, <3>3, <3>4, <3>5, SeqEqual
    <3> QED
      BY <3>6 DEF c, d
  <2>2. Head(<<CAN>> \o <<CAN>>) = CAN /\ Tail(<<CAN>> \o <<CAN>>) = <<CAN>>
    BY <1>1, <1>2, Pushed
  <2> QED
    BY <2>1, <2>2
<1> QED
  BY <1>3, <1>4, <1>5, Zenon DEF Tails

\* The next byte is one of those sent for the block, or cancels.
LEMMA LineIs ==
  ASSUME WireTypes, NEW k \in 0..Len(Sent), NEW tail \in Tails,
         line = Left(k) \o tail, line # <<>>
  PROVE  \/ /\ k = Len(Sent) /\ Head(line) = CAN
            /\ Tail(line) \in Tails /\ tail # <<>>
         \/ /\ k < Len(Sent) /\ Head(line) = Sent[k + 1]
            /\ k + 1 \in 0..Len(Sent) /\ Tail(line) = Left(k + 1) \o tail
<1>1. Sent \in Seq(Byte) /\ Len(Sent) \in Nat
  BY SentIs
<1>2. /\ tail \in Seq(Byte)
      /\ tail # <<>> => Head(tail) = CAN /\ Tail(tail) \in Tails
  BY TailIs
<1>3. CASE k = Len(Sent)
  <2>1. line = tail
    BY <1>1, <1>2, <1>3, NothingLeft DEF Left
  <2> QED
    BY <1>2, <1>3, <2>1
<1>4. CASE k < Len(Sent)
  <2>1. PICK s \in Seq(Byte) : s = Sent
    BY <1>1
  <2> DEFINE l == SubSeq(s, k + 1, Len(s)) \o tail
  <2>2. /\ l # <<>> /\ Head(l) = s[k + 1]
        /\ Tail(l) = SubSeq(s, (k + 1) + 1, Len(s)) \o tail
    <3>1. k \in Nat /\ k < Len(s)
      BY <1>1, <1>4, <2>1
    <3> HIDE DEF Byte
    <3> QED
      BY <1>2, <3>1, TakesFirst
  <2>3. line = l /\ Left(k + 1) = SubSeq(s, (k + 1) + 1, Len(s))
    BY <2>1 DEF Left
  <2> HIDE DEF l
  <2>4. Head(line) = Sent[k + 1] /\ Tail(line) = Left(k + 1) \o tail
    BY <2>1, <2>2, <2>3
  <2>5. k + 1 \in 0..Len(Sent)
    BY <1>1, <1>4
  <2> QED
    BY <1>4, <2>4, <2>5
<1> QED
  BY SMTT(30), <1>1, <1>3, <1>4

-----------------------------------------------------------------------------
(* A byte of what was sent.                                                  *)

\* The transfer goes on, k bytes of what was sent having been taken.
Running(k, tail) ==
  /\ Open /\ ~Ended /\ InStep /\ Answer /\ Taken
  /\ k \in 0..Len(Sent) /\ tail \in Tails /\ OnLine(k, tail)

\* What a receiver that takes a byte does not touch.
Kept ==
  /\ rx'.expectedBlock = rx.expectedBlock /\ rx'.blocksReceived = rx.blocksReceived
  /\ rx'.checksumMode = rx.checksumMode /\ rx'.modeLocked = rx.modeLocked
  /\ rx'.startupTimeouts = rx.startupTimeouts

OthersKeep == UNCHANGED <<callerVars, replies, sender>>

\* A receiver that waits again keeps its numbers and the kind of check.
LEMMA ResetIs ==
  ASSUME RInv
  PROVE  LET r == ResetPacket(rx)
         IN /\ r.state = "WAITING" /\ r.expectedBlock = rx.expectedBlock
            /\ r.blocksReceived = rx.blocksReceived
            /\ r.checksumMode = rx.checksumMode /\ r.modeLocked = rx.modeLocked
            /\ r.startupTimeouts = rx.startupTimeouts
            /\ r \in Receivers
  BY ResetKeeps DEF RInv, Types

\* So does one that refuses a packet.
LEMMA PacketErrorIs ==
  ASSUME RInv, PacketError
  PROVE  Kept /\ In("WAITING")' /\ event' \in {"SEND_NAK", "ERROR"}
<1> DEFINE p == ResetPacket(rx)
           r == [p EXCEPT !.errors = @ + 1]
<1>1. /\ p.state = "WAITING" /\ p.expectedBlock = rx.expectedBlock
      /\ p.blocksReceived = rx.blocksReceived
      /\ p.checksumMode = rx.checksumMode /\ p.modeLocked = rx.modeLocked
      /\ p.startupTimeouts = rx.startupTimeouts
      /\ p \in Receivers
  BY ResetIs
<1>2. rx' = r /\ event' = (IF TooMany(r.errors) THEN "ERROR" ELSE "SEND_NAK")
  BY DEF PacketError, Returns
<1> HIDE DEF p
<1>3. /\ r.state = "WAITING" /\ r.expectedBlock = p.expectedBlock
      /\ r.blocksReceived = p.blocksReceived
      /\ r.checksumMode = p.checksumMode /\ r.modeLocked = p.modeLocked
      /\ r.startupTimeouts = p.startupTimeouts
  BY <1>1 DEF Receivers
<1> HIDE DEF r
<1> QED
  BY <1>1, <1>2, <1>3 DEF Kept, In

\* What the receiver's steps leave as it was of what ties it to the sender.
LEMMA StepsKeep ==
  ASSUME InStep, Kept, OthersKeep,
         In("BLOCK_READY")' => Matched /\ sender.block = Len(saved) + 1
  PROVE  /\ InStep' /\ Matched' = Matched /\ Startup' = Startup
         /\ Sent' = Sent /\ Current' = Current /\ Number' = Number
<1>1. saved' = saved /\ sender' = sender
  BY DEF OthersKeep, callerVars
<1>2. Sent' = Sent /\ Current' = Current /\ Number' = Number
  BY <1>1, SameSent
<1>3. Matched' = Matched /\ Ahead' = Ahead /\ Startup' = Startup
  BY <1>1 DEF Matched, Ahead, Startup, Kept
<1>4. InStep'
  BY <1>1, <1>3 DEF InStep, FromFile
<1> QED
  BY <1>2, <1>3, <1>4

\* Where the call ends the transfer there is little left to know.
LEMMA EndedSafe ==
  ASSUME InStep', outcome' = "OPEN", Ended', In("WAITING")',
         event' = "COMPLETE" => saved' = File
  PROVE  Safe'
  BY DEF Safe, Ended, Open, InStep

\* Then nothing is saved any more.
LEMMA EndedStays ==
  ASSUME Safe, Ended, UNCHANGED <<rx, event, saved>>, outcome' \in {outcome, event}
  PROVE  Safe'
  BY DEF Safe, Ended, Open, In, FromFile

\* A transfer that goes on is safe wherever on the line it is.
LEMMA RunningSafe ==
  ASSUME NEW k, NEW tail, Running(k, tail)'
  PROVE  Safe'
  BY DEF Safe, Running, Ended, Open, InStep

\* After a packet that was refused nothing more of it is taken.
LEMMA RefusedSafe ==
  ASSUME IInv, NEW k, NEW tail, Running(k, tail), Kept, OthersKeep, Flying(k),
         In("WAITING")', event' \in {"SEND_NAK", "ERROR"}, event = "NONE",
         ~(Matched /\ File # <<>> /\ sender.check = "CRC" /\ sender.active /\ Startup)
  PROVE  Safe'
<1>1. /\ InStep' /\ Matched' = Matched /\ Startup' = Startup
      /\ Sent' = Sent
  BY StepsKeep DEF Running, In
<1>2. outcome' = "OPEN" /\ saved' = saved /\ sender' = sender /\ replies' = <<>>
  BY DEF Running, Open, OthersKeep, callerVars, OnLine
<1>3. CASE event' = "ERROR"
  BY <1>1, <1>2, <1>3, EndedSafe DEF Ended
<1>4. CASE event' = "SEND_NAK"
  <2>1. Answer'
    BY <1>2, <1>4 DEF Answer, Answers, Running, Kept, In, Replies
  <2>2. Taken'
    BY DEF Taken, In
  <2>3. PICK n : n = Len(Sent)
    OBVIOUS
  <2>4. n \in Nat /\ Len(Sent) \in Nat
    BY <2>3, SentIs DEF IInv
  <2>5. Position(n)' /\ ~Flying(n)'
    BY <1>1, <2>3, <2>4 DEF Position, In, Flying
  <2>6. Modes(n)'
    BY <1>1, <1>2, <2>5 DEF Modes, Running, OnLine, Kept
  <2>7. OnLine(n, <<>>)'
    BY <1>4, <2>5, <2>6 DEF OnLine
  <2>8. Running(n, <<>>)'
    BY <1>1, <1>2, <1>4, <2>1, <2>2, <2>3, <2>4, <2>7
       DEF Running, Ended, Open, Tails
  <2> QED
    BY <2>8, RunningSafe
<1> QED
  BY <1>3, <1>4

\* In each state a byte is taken in one way.
LEMMA ReceiveIs ==
  ASSUME NEW v, Receive(v)
  PROVE  /\ In("WAITING") => Cancels(v) \/ Ends(v) \/ Begins(v) \/ Skips(v)
         /\ In("BLOCK_NUMBER") => InBlockNumber(v)
         /\ In("COMPLEMENT") => InComplement(v)
         /\ In("DATA") => InData(v)
         /\ In("CHECKSUM") => InChecksum(v)
         /\ In("CRC_HIGH") => InCrcHigh(v)
         /\ In("CRC_LOW") => InCrcLow(v)
         /\ In("BLOCK_READY") => InBlockReady
         /\ ~In("DATA") => buffer' = buffer
  BY DEF Receive, Cancels, Ends, Begins, Skips, InBlockNumber, InComplement,
         InData, InChecksum, InCrcHigh, InCrcLow, InBlockReady, In

\* The first byte of what was sent begins a packet or ends the file.
LEMMA FirstTaken ==
  ASSUME IInv, NEW k, NEW tail, Running(k, tail), OthersKeep, event = "NONE",
         In("WAITING"), k < Len(Sent), Receive(Sent[k + 1]),
         line' = Left(k + 1) \o tail
  PROVE  Safe'
<1>1. /\ k = 0 /\ Len(Sent) \in Nat /\ rx \in Receivers /\ Flying(k)
      /\ replies = <<>> /\ sender.check # "NONE" /\ k \in Nat
  BY SentIs DEF Running, OnLine, Position, IInv, RInv, Types, Flying
<1>2. outcome' = "OPEN" /\ saved' = saved /\ sender' = sender /\ replies' = <<>>
  BY <1>1 DEF Running, Open, OthersKeep, callerVars
<1>3. /\ Len(File) \in Nat /\ sender.block \in Nat /\ Len(saved) \in Nat
  BY Blocks, LenProperties DEF IInv, WireTypes
<1>4. CASE sender.block > Len(File)
  <2>1. Sent[k + 1] = EOT
    BY <1>1, <1>4, SentIs DEF IInv
  <2>2. Ends(EOT)
    <3>1. Receive(EOT)
      BY <2>1
    <3>2. Cancels(EOT) \/ Ends(EOT) \/ Begins(EOT) \/ Skips(EOT)
      BY <3>1, ReceiveIs
    <3>3. ~(Cancels(EOT) \/ Begins(EOT) \/ Skips(EOT))
      BY DEF Cancels, Begins, Skips, EOT, CAN, SOH, STX
    <3> QED
      BY <3>2, <3>3
  <2>3. /\ Kept /\ In("WAITING")'
        /\ event' = IF rx.eotSeen THEN "COMPLETE" ELSE "SEND_NAK"
    BY <1>1, <2>2 DEF Ends, Returns, Kept, In, Receivers
  <2>4. InStep' /\ Matched' = Matched
    BY <2>3, StepsKeep DEF Running, In
  <2>5. CASE event' = "COMPLETE"
    <3>1. Len(saved) >= Len(File)
      BY <1>3, <1>4 DEF Running, InStep, FromFile, Ahead
    <3>2. saved = SubSeq(File, 1, Len(File))
      BY <1>3, <3>1 DEF Running, InStep, FromFile
    <3>3. saved = File
      BY <3>2, FileAssumption, SubSeqFull
    <3> QED
      BY <1>2, <2>3, <2>4, <2>5, <3>3, EndedSafe DEF Ended
  <2>6. CASE event' = "SEND_NAK"
    <3>1. ~(Matched /\ File # <<>> /\ sender.check = "CRC" /\ sender.active /\ Startup)
      <4> SUFFICES ASSUME Matched, File # <<>>, Startup PROVE FALSE
        OBVIOUS
      <4>1. Len(File) >= 1
        BY <1>3, FileAssumption, EmptySeq
      <4>2. Len(saved) = 0
        BY DEF Running, InStep
      <4> QED
        BY <1>3, <1>4, <4>1, <4>2 DEF Running, InStep
    <3> QED
      BY <1>1, <2>3, <2>6, <3>1, RefusedSafe
  <2> QED
    BY <2>3, <2>5, <2>6
<1>5. CASE sender.block <= Len(File)
  <2>1. /\ Len(Current) \in {BLOCK_SIZE, BLOCK_1K_SIZE} /\ Len(Current) >= 1
        /\ Sent[k + 1] = (IF Len(Current) = BLOCK_SIZE THEN SOH ELSE STX)
        /\ Len(Sent) > 1
    BY <1>1, <1>5, SentIs DEF IInv, IsPacket
  <2>2. Begins(Sent[k + 1])
    BY <1>1, <2>1, ReceiveIs DEF Cancels, Ends, Skips, EOT, CAN, SOH, STX
  <2>3. /\ Kept /\ In("BLOCK_NUMBER")' /\ event' = "NONE"
        /\ rx'.blockSize = Len(Current)
    BY <1>1, <2>1, <2>2, SizesAssumption
       DEF Begins, Returns, Kept, In, Receivers, SOH, STX
  <2>4. /\ InStep' /\ Matched' = Matched /\ Startup' = Startup
        /\ Sent' = Sent /\ Current' = Current /\ Number' = Number
    BY <2>3, StepsKeep DEF Running, In
  <2>5. Answer'
    BY <1>2, <2>3 DEF Answer, Answers, Running, Kept, In, Replies
  <2>6. Taken'
    BY <1>2, <1>5, <2>3, <2>4 DEF Taken, In
  <2>7. Position(1)' /\ Flying(1)'
    BY <2>1, <2>3, <2>4 DEF Position, In, Flying
  <2>8. Modes(1)'
    BY <1>1, <1>2, <2>3, <2>4, <2>7 DEF Modes, Running, OnLine, Kept
  <2>9. OnLine(1, tail)'
    BY <1>1, <1>2, <2>3, <2>4, <2>7, <2>8 DEF OnLine, Running, Left
  <2>10. Running(1, tail)'
    BY <1>1, <1>2, <2>1, <2>3, <2>4, <2>5, <2>6, <2>9 DEF Running, Ended, Open
  <2> QED
    BY <2>10, RunningSafe
<1> QED
  BY <1>3, <1>4, <1>5

\* Within a packet it is enough to know what was taken.
LEMMA PacketGoesOn ==
  ASSUME IInv, NEW k, NEW tail, Running(k, tail), OthersKeep, Kept, Flying(k),
         event = "NONE", event' = "NONE", ~In("WAITING")', ~In("BLOCK_READY")',
         Taken', Position(k + 1)', k + 1 \in 0..Len(Sent),
         line' = Left(k + 1) \o tail
  PROVE  Safe'
<1>1. replies = <<>> /\ sender.check # "NONE"
  BY DEF Running, OnLine
<1>2. outcome' = "OPEN" /\ saved' = saved /\ sender' = sender /\ replies' = <<>>
  BY <1>1 DEF Running, Open, OthersKeep, callerVars
<1>3. /\ InStep' /\ Matched' = Matched /\ Startup' = Startup
      /\ Sent' = Sent /\ Current' = Current /\ Number' = Number
  BY StepsKeep
     DEF Running
<1>4. Answer'
  BY <1>2 DEF Answer, Answers, Running, Kept, In, Replies
<1>5. Flying(k + 1)'
  BY DEF Flying
<1>6. Modes(k + 1)'
  BY <1>1, <1>2, <1>3, <1>5 DEF Modes, Running, OnLine, Kept
<1>7. OnLine(k + 1, tail)'
  BY <1>1, <1>2, <1>3, <1>5, <1>6 DEF OnLine, Running, Left
<1>8. Running(k + 1, tail)'
  BY <1>1, <1>2, <1>3, <1>4, <1>7 DEF Running, Ended, Open
<1> QED
  BY <1>8, RunningSafe

\* The number is sent twice.
LEMMA HeaderTaken ==
  ASSUME IInv, NEW k, NEW tail, Running(k, tail), OthersKeep, event = "NONE",
         In("BLOCK_NUMBER") \/ In("COMPLEMENT"), k < Len(Sent),
         k + 1 \in 0..Len(Sent), Receive(Sent[k + 1]),
         line' = Left(k + 1) \o tail
  PROVE  Safe'
<1>1. /\ rx \in Receivers /\ Flying(k) /\ sender.block <= Len(File)
      /\ rx.blockSize = Len(Current) /\ sender' = sender
  BY DEF Running, Taken, IInv, RInv, Types, Flying, OthersKeep, In
<1>2. /\ Sent' = Sent /\ Current' = Current /\ Number' = Number
  BY <1>1, SameSent
<1>3. /\ Sent[2] = Number /\ Sent[3] = 255 - Number /\ buffer' = buffer
  BY <1>1, SentIs, ReceiveIs DEF IInv, IsPacket, In
<1>4. CASE In("BLOCK_NUMBER")
  <2>1. k = 1 /\ InBlockNumber(Number)
    BY <1>3, <1>4, ReceiveIs DEF Running, OnLine, Position
  <2>2. /\ Kept /\ In("COMPLEMENT")' /\ event' = "NONE"
        /\ rx'.blockNumber = Number /\ rx'.blockSize = rx.blockSize
    BY <1>1, <2>1 DEF InBlockNumber, Returns, Kept, In, Receivers
  <2>3. Taken' /\ Position(k + 1)'
    BY <1>1, <1>2, <2>1, <2>2 DEF Taken, Position, In
  <2> QED
    BY <1>1, <2>2, <2>3, PacketGoesOn DEF In
<1>5. CASE In("COMPLEMENT")
  <2>1. k = 2 /\ InComplement(255 - Number) /\ rx.blockNumber = Number
    BY <1>3, <1>5, ReceiveIs DEF Running, OnLine, Position, Taken, In
  <2>2. (Number + (255 - Number)) % 256 = 255
    BY Numbers DEF Running
  <2>3. /\ Kept /\ In("DATA")' /\ event' = "NONE" /\ rx'.dataIndex = 0
        /\ rx'.blockNumber = Number /\ rx'.blockSize = rx.blockSize
    <3>1. (rx.blockNumber + (255 - Number)) % 256 = 255
      BY <2>1, <2>2
    <3>2. Returns([rx EXCEPT !.dataIndex = 0, !.crc = 0, !.state = "DATA"], "NONE")
      BY <2>1, <3>1, Zenon DEF InComplement
    <3> QED
      BY <1>1, <2>1, <3>2 DEF Returns, Kept, In, Receivers
  <2>4. SubSeq(buffer', 1, 0) = SubSeq(Current, 1, 0)
    BY SubSeqEmpty
  <2>5. Taken' /\ Position(k + 1)'
    BY <1>1, <1>2, <2>1, <2>3, <2>4 DEF Taken, Position, In
  <2> QED
    BY <1>1, <2>3, <2>5, PacketGoesOn DEF In
<1> QED
  BY <1>4, <1>5

\* The data is stored as it comes.
LEMMA DataTaken ==
  ASSUME IInv, NEW k, NEW tail, Running(k, tail), OthersKeep, event = "NONE",
         In("DATA"), k < Len(Sent),
         k + 1 \in 0..Len(Sent), Receive(Sent[k + 1]),
         line' = Left(k + 1) \o tail
  PROVE  Safe'
<1>1. /\ rx \in Receivers /\ Flying(k) /\ sender.block <= Len(File)
      /\ rx.blockSize = Len(Current) /\ sender' = sender
      /\ rx.blockNumber = Number
      /\ SubSeq(buffer, 1, rx.dataIndex) = SubSeq(Current, 1, rx.dataIndex)
      /\ k = 3 + rx.dataIndex
  BY DEF Running, Taken, IInv, RInv, Types, Flying, OthersKeep, In, OnLine, Position
<1>2. /\ Sent' = Sent /\ Current' = Current /\ Number' = Number
  BY <1>1, SameSent
<1>3. /\ Current \in Seq(Byte) /\ Len(Current) \in Nat /\ rx.dataIndex \in Nat
      /\ \A j \in 1..Len(Current) : Sent[3 + j] = Current[j]
      /\ rx.dataIndex < rx.blockSize
  BY <1>1, SentIs DEF IInv, IsPacket, Receivers, RInv, Stored
<1>4. Sent[k + 1] = Current[rx.dataIndex + 1]
  <2>1. rx.dataIndex + 1 \in 1..Len(Current) /\ k + 1 = 3 + (rx.dataIndex + 1)
    BY SMTT(30), <1>1, <1>3
  <2> QED
    BY <1>3, <2>1
<1>5. InData(Current[rx.dataIndex + 1])
  BY <1>4, ReceiveIs
<1>6. /\ Kept /\ event' = "NONE" /\ rx'.dataIndex = rx.dataIndex + 1
      /\ rx'.blockNumber = Number /\ rx'.blockSize = rx.blockSize
      /\ rx'.state = IF rx.dataIndex + 1 # rx.blockSize THEN "DATA"
                     ELSE IF rx.checksumMode THEN "CHECKSUM" ELSE "CRC_HIGH"
      /\ buffer' = Append(SubSeq(buffer, 1, rx.dataIndex), Current[rx.dataIndex + 1])
  BY <1>1, <1>5 DEF InData, Returns, Kept, Receivers
<1>7. SubSeq(buffer', 1, rx'.dataIndex) = SubSeq(Current, 1, rx'.dataIndex)
  <2> DEFINE n == rx.dataIndex
             a == SubSeq(Current, 1, n)
             x == Current[n + 1]
             b == Append(a, x)
  <2>1. buffer' = b /\ rx'.dataIndex = n + 1
    <3>1. buffer' = Append(SubSeq(buffer, 1, n), x) /\ rx'.dataIndex = n + 1
      BY <1>6
    <3>2. SubSeq(buffer, 1, n) = a
      BY <1>1
    <3> HIDE DEF n, a, x
    <3> QED
      BY <3>1, <3>2
  <2>2. n + 1 \in 1..Len(Current) /\ n \in 0..Len(Current) /\ 1 \in 1..Len(Current)
    <3>1. n \in Nat /\ Len(Current) \in Nat /\ n < Len(Current)
      BY <1>1, <1>3
    <3> HIDE DEF n
    <3> QED
      BY <3>1
  <2>3. a \in Seq(Byte) /\ Len(a) = n /\ x \in Byte
    <3>1. \A i \in 1..n : Current[i] \in Byte
      BY <1>3, <2>2, ElementOfSeq
    <3> HIDE DEF Byte
    <3> QED
      BY <1>3, <2>2, <3>1, SubSeqProperties, ElementOfSeq
  <2>4. SubSeq(Current, 1, n + 1) = a \o <<x>>
    <3>1. /\ SubSeq(Current, 1, n + 1) = SubSeq(Current, 1, (n + 1) - 1) \o <<Current[n + 1]>>
      <4>1. n + 1 \in 1..Len(Current)
        BY <2>2
      <4> QED
        BY <1>3, <2>2, <4>1, SubSeqRecursiveSecond
    <3>2. (n + 1) - 1 = n
      BY <1>3
    <3> QED
      BY <3>1, <3>2
  <2>5. b = a \o <<x>>
    BY <2>3, AppendIsConcat
  <2>6. b \in Seq(Byte) /\ Len(b) = n + 1
    BY <2>3, AppendProperties
  <2> HIDE DEF a, x
  <2>7. SubSeq(b, 1, n + 1) = b
    BY <2>6, SubSeqFull
  <2> QED
    BY <2>1, <2>4, <2>5, <2>7
<1>8. k + 1 = 3 + rx'.dataIndex /\ rx'.dataIndex \in Nat
  <2>1. k = 3 + rx.dataIndex /\ rx.dataIndex \in Nat
    BY <1>1, <1>3
  <2>2. rx'.dataIndex = rx.dataIndex + 1
    BY <1>6
  <2> QED
    BY <2>1, <2>2
<1>9. Taken'
  BY <1>1, <1>2, <1>6, <1>7 DEF Taken, In
<1>10. Position(k + 1)'
  BY <1>1, <1>2, <1>6, <1>8 DEF Position, In
<1> QED
  BY <1>1, <1>6, <1>9, <1>10, PacketGoesOn DEF In

\* A packet that is right repeats the last block or brings the next one, or it
\* is that of a sender that is one ahead.
LEMMA WholeSafe ==
  ASSUME IInv, NEW k, NEW tail, Running(k, tail), OthersKeep, event = "NONE",
         In("CHECKSUM") \/ In("CRC_LOW"), buffer' = buffer,
         NEW r \in Receivers, \E c : r = [rx EXCEPT !.receivedCrc = c], Whole(r),
         NEW l \in Tails, Matched => line' = l, sender.active => l = <<>>
  PROVE  Safe'
<1>1. /\ rx \in Receivers /\ Flying(k) /\ sender.block <= Len(File)
      /\ rx.blockSize = Len(Current) /\ sender' = sender
      /\ rx.blockNumber = Number /\ replies = <<>> /\ sender.check # "NONE"
      /\ SubSeq(buffer, 1, rx.dataIndex) = SubSeq(Current, 1, rx.dataIndex)
  BY DEF Running, Taken, IInv, RInv, Types, Flying, OthersKeep, In, OnLine
<1>2. outcome' = "OPEN" /\ saved' = saved /\ replies' = <<>>
  BY <1>1 DEF Running, Open, OthersKeep, callerVars
<1>3. /\ r.expectedBlock = rx.expectedBlock /\ r.blocksReceived = rx.blocksReceived
      /\ r.checksumMode = rx.checksumMode /\ r.modeLocked = rx.modeLocked
      /\ r.startupTimeouts = rx.startupTimeouts /\ r.blockNumber = Number
      /\ r.blockSize = rx.blockSize /\ r.dataIndex = rx.dataIndex
  BY <1>1 DEF Receivers
<1>4. /\ Matched => /\ Number = rx.expectedBlock <=> sender.block = Len(saved) + 1
                    /\ Number = (rx.expectedBlock - 1) % 256
                         <=> sender.block = Len(saved)
      /\ ~Matched => /\ Number # rx.expectedBlock
                     /\ Number # (rx.expectedBlock - 1) % 256
  BY Numbers DEF Running
<1>5. PICK n : n = Len(Sent)
  OBVIOUS
<1>6. n \in Nat /\ n = Len(Sent) /\ Len(saved) \in Nat /\ sender.block \in Nat \ {0}
  BY <1>5, SentIs, LenProperties DEF IInv, WireTypes
<1>7. Left(n) \o l = l
  <2>1. Sent \in Seq(Byte) /\ l \in Seq(Byte)
    BY SentIs, TailIs DEF IInv
  <2> QED
    BY <1>5, <2>1, NothingLeft DEF Left
<1>8. CASE r.blockNumber = (r.expectedBlock - 1) % 256
  <2>1. Matched /\ sender.block = Len(saved)
    BY <1>3, <1>4, <1>8
  <2>2. rx' = ResetPacket(r) /\ event' = "SEND_ACK"
    <3>1. Number # rx.expectedBlock
      BY <1>4, <1>6, <2>1
    <3> QED
      BY <1>3, <1>8, <3>1 DEF Whole, Returns
  <2>3. Kept /\ In("WAITING")'
    BY <1>3, <2>2, ResetKeeps DEF Kept, In
  <2>4. /\ InStep' /\ Matched' = Matched /\ Startup' = Startup
        /\ Sent' = Sent /\ Current' = Current /\ Number' = Number
    BY <2>3, StepsKeep DEF Running, In
  <2>5. Answer'
    BY <1>1, <1>2, <2>1, <2>2, <2>3, <2>4
       DEF Answer, Answers, Running, Kept, In, Replies
  <2>6. Taken'
    BY <2>3 DEF Taken, In
  <2>7. Position(n)' /\ ~Flying(n)'
    BY <1>6, <2>3, <2>4 DEF Position, In, Flying
  <2>8. Modes(n)'
    <3>1. ~Startup
      BY <1>6, <2>1 DEF Running, InStep
    <3> QED
      BY <1>1, <2>1, <2>3, <2>4, <2>7, <3>1 DEF Modes, Running, OnLine, Kept
  <2>9. OnLine(n, l)'
    BY <1>1, <1>7, <2>1, <2>4, <2>7, <2>8 DEF OnLine, Left
  <2>10. Running(n, l)'
    BY <1>2, <1>6, <2>2, <2>4, <2>5, <2>6, <2>9 DEF Running, Ended, Open
  <2> QED
    BY <2>10, RunningSafe
<1>9. CASE r.blockNumber \notin {r.expectedBlock, (r.expectedBlock - 1) % 256}
  <2>1. PacketError
    BY <1>9 DEF Whole
  <2>2. Kept /\ In("WAITING")' /\ event' \in {"SEND_NAK", "ERROR"}
    BY <2>1, PacketErrorIs DEF IInv
  <2>3. ~Matched
    BY <1>3, <1>4, <1>9 DEF Running, InStep
  <2> QED
    BY <1>1, <2>2, <2>3, RefusedSafe
<1>10. CASE r.blockNumber = r.expectedBlock
  <2>1. Matched /\ sender.block = Len(saved) + 1
    BY <1>3, <1>4, <1>10
  <2>2. rx' = [r EXCEPT !.state = "BLOCK_READY"] /\ event' = "BLOCK_READY"
    <3>1. Number # (rx.expectedBlock - 1) % 256
      BY <1>4, <1>6, <2>1
    <3> QED
      BY <1>3, <1>10, <3>1 DEF Whole, Returns
  <2>3. /\ Kept /\ In("BLOCK_READY")' /\ rx'.blockNumber = Number
        /\ rx'.blockSize = rx.blockSize /\ rx'.dataIndex = rx.dataIndex
    BY <1>3, <2>2 DEF Kept, In, Receivers
  <2>4. /\ InStep' /\ Matched' = Matched /\ Startup' = Startup
        /\ Sent' = Sent /\ Current' = Current /\ Number' = Number
    BY <2>1, <2>3, StepsKeep DEF Running
  <2>5. Answer'
    BY <1>2, <2>2, <2>3 DEF Answer, Answers, Running, Kept, In, Replies
  <2>6. Taken'
    BY <1>1, <2>3, <2>4 DEF Taken, In
  <2>7. Position(n)' /\ Flying(n)'
    BY <1>6, <2>3, <2>4 DEF Position, In, Flying
  <2>8. Modes(n)'
    BY <1>1, <2>3, <2>4, <2>7 DEF Modes, Running, OnLine, Kept
  <2>9. OnLine(n, l)'
    BY <1>1, <1>2, <1>7, <2>1, <2>2, <2>4, <2>7, <2>8 DEF OnLine, Left
  <2>10. Running(n, l)'
    BY <1>2, <1>6, <2>2, <2>4, <2>5, <2>6, <2>9 DEF Running, Ended, Open
  <2> QED
    BY <2>10, RunningSafe
<1> QED
  BY <1>8, <1>9, <1>10

\* What was sent of the check makes a packet that is right.
LEMMA CheckTaken ==
  ASSUME IInv, NEW k, NEW tail, Running(k, tail), OthersKeep, event = "NONE",
         In("CHECKSUM") \/ In("CRC_HIGH") \/ In("CRC_LOW"), k < Len(Sent),
         k + 1 \in 0..Len(Sent), Receive(Sent[k + 1]),
         line' = Left(k + 1) \o tail
  PROVE  Safe'
<1> DEFINE n == Len(Current)
<1>1. /\ rx \in Receivers /\ Flying(k) /\ sender.block <= Len(File)
      /\ rx.blockSize = n /\ sender' = sender /\ buffer' = buffer
      /\ rx.blockNumber = Number /\ sender.check # "NONE"
      /\ SubSeq(buffer, 1, rx.dataIndex) = SubSeq(Current, 1, rx.dataIndex)
      /\ rx.dataIndex = rx.blockSize /\ tail \in Tails
      /\ sender.active => tail = <<>>
  BY ReceiveIs
     DEF Running, Taken, IInv, RInv, Types, Flying, OthersKeep, In, OnLine, Stored
<1>2. /\ Current \in Seq(Byte) /\ n \in Nat /\ File # <<>>
      /\ Len(Sent) = n + (IF sender.check = "SUM" THEN 4 ELSE 5)
      /\ sender.check # "SUM" => /\ Sent[4 + n] = xmodem_crc16(Current) \div 256
                                 /\ Sent[5 + n] = xmodem_crc16(Current) % 256
      /\ Sent \in Seq(Byte) /\ Sent[k + 1] \in Byte
  <2>1. IsPacket(Sent, Current, Number, sender.check) /\ File # <<>>
    BY <1>1, SentIs DEF IInv
  <2>2. Sent \in Seq(Byte) /\ Len(Sent) \in Nat
    BY SentIs DEF IInv
  <2>3. k \in Nat /\ k + 1 \in 1..Len(Sent)
    BY <2>2 DEF Running
  <2>4. Sent[k + 1] \in Byte
    BY <2>2, <2>3, ElementOfSeq
  <2> QED
    BY <2>1, <2>2, <2>4 DEF IsPacket
<1>3. /\ Sent' = Sent /\ Current' = Current /\ Number' = Number
  BY <1>1, SameSent
<1>4. k + 1 = Len(Sent) => line' = tail
  <2>1. tail \in Seq(Byte) /\ Sent \in Seq(Byte)
    BY <1>1, <1>2, TailIs
  <2> QED
    BY <2>1, NothingLeft DEF Left
<1>5. sender.check \in {"SUM", "CRC"}
  BY <1>1 DEF IInv, WireTypes
<1>6. CASE In("CHECKSUM")
  <2>1. k = 3 + n /\ rx.checksumMode
    BY <1>6 DEF Running, OnLine, Position, IInv, RInv, Checked, In
  <2>2. ~(Matched /\ sender.check = "CRC")
    BY <1>1, <1>2, <2>1 DEF Running, OnLine, Modes
  <2>3. PacketError \/ Whole(rx)
    BY <1>6, ReceiveIs DEF InChecksum
  <2>4. CASE PacketError
    BY <1>1, <2>2, <2>4, PacketErrorIs, RefusedSafe DEF IInv
  <2>5. CASE Whole(rx)
    <3>1. Matched => line' = tail
      BY <1>2, <1>4, <1>5, <2>1, <2>2
    <3>2. rx = [rx EXCEPT !.receivedCrc = rx.receivedCrc]
      BY <1>1 DEF Receivers
    <3>3. \E c : rx = [rx EXCEPT !.receivedCrc = c]
      BY <3>2
    <3> QED
      BY <1>1, <1>6, <2>5, <3>1, <3>3, WholeSafe
  <2> QED
    BY <2>3, <2>4, <2>5
<1>7. CASE In("CRC_HIGH")
  <2>1. k = 3 + n /\ InCrcHigh(Sent[k + 1])
    BY <1>7, ReceiveIs DEF Running, OnLine, Position, In
  <2>3. /\ Kept /\ In("CRC_LOW")' /\ event' = "NONE"
        /\ rx'.receivedCrc = Sent[k + 1] * 256
        /\ rx'.blockNumber = Number /\ rx'.blockSize = rx.blockSize
        /\ rx'.dataIndex = rx.dataIndex
    BY <1>1, <2>1 DEF InCrcHigh, Returns, Kept, In, Receivers
  <2>4. sender.check = "CRC" => rx'.receivedCrc = 256 * (xmodem_crc16(Current) \div 256)
    <3> SUFFICES ASSUME sender.check = "CRC"
                 PROVE  rx'.receivedCrc = 256 * (xmodem_crc16(Current) \div 256)
      OBVIOUS
    <3>1. Sent[k + 1] = xmodem_crc16(Current) \div 256
      <4>1. k + 1 = 4 + n
        BY <1>2, <2>1
      <4> QED
        BY <1>2, <4>1
    <3> DEFINE h == xmodem_crc16(Current) \div 256
    <3>2. h \in Nat /\ rx'.receivedCrc = h * 256
      BY <1>2, <2>3, <3>1, ByteNat
    <3> HIDE DEF h
    <3>3. rx'.receivedCrc = 256 * h
      BY <3>2
    <3> QED
      BY <3>3 DEF h
  <2>5. Taken'
    BY <1>1, <1>3, <2>3, <2>4 DEF Taken, In
  <2>6. Position(k + 1)'
    BY <1>2, <1>3, <2>1, <2>3 DEF Position, In
  <2> QED
    BY <1>1, <2>3, <2>5, <2>6, PacketGoesOn DEF In
<1>8. CASE In("CRC_LOW")
  <2>1. k = 4 + n /\ InCrcLow(Sent[k + 1]) /\ k + 1 = Len(Sent) /\ sender.check = "CRC"
    <3>1. k = 4 + n
      BY <1>8 DEF Running, OnLine, Position, In
    <3>2. sender.check = "CRC" /\ k + 1 = Len(Sent)
      BY <1>2, <1>5, <3>1
    <3> QED
      BY <1>8, <3>1, <3>2, ReceiveIs
  <2> DEFINE c == xmodem_crc16(Current)
             v == Sent[k + 1]
             r == [rx EXCEPT !.receivedCrc = @ + v]
  <2>2. rx.crc = c /\ c \in Word
    <3>1. rx.crc = Remainder(SubSeq(buffer, 1, rx.dataIndex))
      BY <1>8 DEF IInv, RInv, CrcOfStored, In
    <3>2. SubSeq(Current, 1, Len(Current)) = Current
      BY <1>2, SubSeqFull
    <3>3. rx.crc = Remainder(Current)
      BY <1>1, <3>1, <3>2
    <3> QED
      BY <1>2, <3>3, CrcIsRemainder
  <2>3. rx.receivedCrc + v = c
    <3>1. rx.receivedCrc = 256 * (c \div 256)
      BY <1>8, <2>1 DEF Running, Taken
    <3>2. v = c % 256
      <4>1. k + 1 = 5 + n
        BY <1>2, <2>1
      <4> QED
        BY <1>2, <2>1, <4>1
    <3>3. c \in Nat
      BY <2>2, WordNat
    <3> HIDE DEF c, v
    <3>4. c = 256 * (c \div 256) + (c % 256)
      BY <3>3
    <3> QED
      BY <3>1, <3>2, <3>4
  <2>4. r.receivedCrc = c /\ r.crc = c /\ r \in Receivers
        /\ r = [rx EXCEPT !.receivedCrc = c]
    <3> HIDE DEF c, v
    <3> QED
      BY <1>1, <2>2, <2>3 DEF Receivers
  <2>5. Whole(r)
    <3>1. IF r.receivedCrc # r.crc THEN PacketError ELSE Whole(r)
      BY <2>1 DEF InCrcLow
    <3> HIDE DEF r
    <3> QED
      BY <2>4, <3>1
  <2>6. \E x : r = [rx EXCEPT !.receivedCrc = x]
    BY <2>4
  <2> HIDE DEF r
  <2>7. Matched => line' = tail
    BY <1>4, <2>1
  <2> QED
    BY <1>1, <1>8, <2>4, <2>5, <2>6, <2>7, WholeSafe
<1> QED
  BY <1>6, <1>7, <1>8

\* A CAN of the sender that gave up.
LEMMA TailTaken ==
  ASSUME IInv, NEW k, NEW tail, Running(k, tail), OthersKeep,
         k = Len(Sent), ~sender.active, Receive(CAN), NEW l \in Tails, line' = l,
         event = "NONE" \/ In("BLOCK_READY")
  PROVE  Safe'
<1>1. /\ rx \in Receivers /\ sender' = sender /\ k \in Nat /\ Len(Sent) \in Nat
      /\ Sent \in Seq(Byte) /\ l \in Seq(Byte)
  BY SentIs, TailIs DEF Running, IInv, RInv, Types, OthersKeep
<1>2. /\ outcome' = "OPEN" /\ saved' = saved /\ replies' = replies
      /\ Sent' = Sent /\ Current' = Current /\ Number' = Number
  BY <1>1, SameSent DEF Running, Open, OthersKeep, callerVars
<1>3. Left(k) \o l = l
  BY <1>1, NothingLeft DEF Left
<1>4. CASE In("WAITING")
  <2>1. Cancels(CAN) /\ buffer' = buffer /\ event = "NONE"
    <3>1. Cancels(CAN) \/ Ends(CAN) \/ Begins(CAN) \/ Skips(CAN)
      BY <1>4, ReceiveIs
    <3>2. ~(Ends(CAN) \/ Begins(CAN) \/ Skips(CAN))
      BY DEF Ends, Begins, Skips, EOT, CAN, SOH, STX
    <3> QED
      BY <1>4, <3>1, <3>2, ReceiveIs DEF In
  <2> DEFINE q == [rx EXCEPT !.cancelCount = @ + 1]
  <2>2. IF q.cancelCount = 2 THEN Returns(ResetPacket(q), "CANCELLED")
        ELSE Returns(q, "NONE")
    BY <2>1 DEF Cancels
  <2>3. /\ q.state = "WAITING" /\ q.expectedBlock = rx.expectedBlock
        /\ q.blocksReceived = rx.blocksReceived
        /\ q.checksumMode = rx.checksumMode /\ q.modeLocked = rx.modeLocked
        /\ q.startupTimeouts = rx.startupTimeouts
        /\ q.cancelCount = 2 => q \in Receivers
    BY <1>1, <1>4 DEF Receivers, In
  <2> HIDE DEF q
  <2>4. /\ Kept /\ In("WAITING")' /\ event' \in {"CANCELLED", "NONE"}
    BY <2>2, <2>3, ResetKeeps DEF Kept, In, Returns
  <2>5. /\ InStep' /\ Matched' = Matched /\ Startup' = Startup
    BY <2>4, StepsKeep DEF Running, In
  <2>6. CASE event' = "CANCELLED"
    BY <1>2, <2>4, <2>5, <2>6, EndedSafe DEF Ended
  <2>7. CASE event' = "NONE"
    <3>1. Answer'
      BY <1>1, <1>2, <2>1, <2>4, <2>5, <2>7 DEF Answer, Answers, Running, Kept, In, Replies
    <3>2. Taken'
      BY <2>4 DEF Taken, In
    <3>3. Position(k)' /\ ~Flying(k)' /\ ~Flying(k)
      BY <1>1, <1>2, <1>4, <2>4 DEF Position, In, Flying
    <3>4. Modes(k)'
      BY <1>1, <1>2, <2>4, <2>5, <3>3 DEF Modes, Running, OnLine, Kept
    <3>5. OnLine(k, l)'
      BY <1>1, <1>2, <1>3, <3>3, <3>4 DEF OnLine, Left
    <3>6. Running(k, l)'
      BY <1>1, <1>2, <2>5, <2>7, <3>1, <3>2, <3>5 DEF Running, Ended, Open
    <3> QED
      BY <3>6, RunningSafe
  <2> QED
    BY <2>4, <2>6, <2>7
<1>5. CASE In("BLOCK_READY")
  <2>1. rx' = rx /\ event' = event /\ buffer' = buffer
    BY <1>5, ReceiveIs DEF InBlockReady, In
  <2>2. /\ InStep' /\ Matched' = Matched /\ Startup' = Startup /\ Kept
    <3>1. Kept
      BY <2>1 DEF Kept
    <3> QED
      BY <1>5, <2>1, <3>1, StepsKeep DEF Running, InStep, In
  <2>3. Answer' /\ Taken' /\ Position(k)'
    <3>1. Answer'
      BY <1>1, <1>2, <2>1, <2>2 DEF Running, Answer, Answers, In, Kept
    <3>2. Taken'
      BY <1>1, <1>2, <2>1 DEF Running, Taken, In
    <3>3. Position(k)'
      BY <1>2, <1>5, <2>1, Zenon DEF Running, OnLine, Position, In
    <3> QED
      BY <3>1, <3>2, <3>3
  <2>4. Modes(k)' /\ Flying(k)' = Flying(k)
    BY <1>1, <1>2, <2>1, <2>2 DEF Running, OnLine, Modes, Flying, In
  <2>5. OnLine(k, l)'
    BY <1>1, <1>2, <1>3, <2>1, <2>3, <2>4 DEF Running, OnLine, Left
  <2>6. Running(k, l)'
    BY <1>1, <1>2, <2>1, <2>2, <2>3, <2>5 DEF Running, Ended, Open
  <2> QED
    BY <2>6, RunningSafe
<1>6. CASE ~In("WAITING") /\ ~In("BLOCK_READY")
  <2>1. /\ sender.block <= Len(File) /\ Flying(k) /\ event = "NONE"
    BY <1>6 DEF Running, Taken, Flying
  <2>2. /\ Len(Current) \in Nat
        /\ Len(Sent) = Len(Current) + (IF sender.check = "SUM" THEN 4 ELSE 5)
    BY <2>1, SentIs DEF IInv, IsPacket
  <2>3. In("CRC_LOW") /\ sender.check = "SUM"
    <3>1. rx.state = "DATA" => rx.dataIndex < Len(Current) /\ rx.dataIndex \in Nat
      BY <1>1, <1>6 DEF IInv, RInv, Stored, Running, Taken, In, Receivers
    <3>2. rx.state \in {"BLOCK_NUMBER", "COMPLEMENT", "DATA", "CHECKSUM",
                        "CRC_HIGH", "CRC_LOW"}
      BY <1>1, <1>6 DEF Receivers, States, In
    <3>3. Len(Current) >= 1
      BY <2>1, SentIs DEF IInv, IsPacket
    <3> QED
      BY <2>2, <3>1, <3>2, <3>3 DEF Running, OnLine, Position, In
  <2>4. InCrcLow(CAN) /\ buffer' = buffer
    BY <2>3, ReceiveIs DEF In
  <2> DEFINE r == [rx EXCEPT !.receivedCrc = @ + CAN]
  <2>5. PacketError \/ (r.receivedCrc = r.crc /\ Whole(r))
    <3>1. IF r.receivedCrc # r.crc THEN PacketError ELSE Whole(r)
      <4>1. InCrcLow(CAN)
        BY <2>4
      <4> QED
        BY <4>1, Zenon DEF InCrcLow
    <3> HIDE DEF r
    <3> QED
      BY <3>1
  <2>6. CASE PacketError
    BY <2>1, <2>3, <2>6, PacketErrorIs, RefusedSafe DEF IInv
  <2>7. CASE r.receivedCrc = r.crc /\ Whole(r)
    <3>1. r \in Receivers /\ \E x : r = [rx EXCEPT !.receivedCrc = x]
      BY <1>1, <2>7 DEF Receivers
    <3> HIDE DEF r
    <3> QED
      BY <2>1, <2>3, <2>4, <2>7, <3>1, WholeSafe
  <2> QED
    BY <2>5, <2>6, <2>7
<1> QED
  BY <1>4, <1>5, <1>6

\* Every byte that comes undisturbed keeps the two in step.
LEMMA DeliverSafe ==
  ASSUME IInv, Safe, Deliver
  PROVE  Safe'
<1>1. /\ line # <<>> /\ Open
      /\ event = "NONE" \/ In("BLOCK_READY")
      /\ Receive(Head(line)) /\ line' = Tail(line) /\ OthersKeep
  BY DEF Deliver, Listening, OthersKeep
<1>2. /\ event \in {"NONE", "BLOCK_READY"} /\ rx \in Receivers
      /\ event = "NONE" => ~In("BLOCK_READY")
  BY <1>1 DEF IInv, RInv, Stored, Types
<1>3. PICK k \in 0..Len(Sent), tail \in Tails : OnLine(k, tail)
  BY <1>2 DEF Safe, Ended
<1>4. Running(k, tail) /\ line = Left(k) \o tail
  <2>1. line = Left(k) \o tail
    BY <1>2, <1>3 DEF OnLine, Left
  <2>2. ~Ended
    BY <1>2 DEF Ended
  <2> QED
    BY <1>1, <1>3, <2>1, <2>2, Zenon DEF Safe, Running
<1>5. \/ /\ k = Len(Sent) /\ Head(line) = CAN
         /\ Tail(line) \in Tails /\ tail # <<>>
      \/ /\ k < Len(Sent) /\ Head(line) = Sent[k + 1]
         /\ k + 1 \in 0..Len(Sent) /\ Tail(line) = Left(k + 1) \o tail
  BY <1>1, <1>3, <1>4, LineIs DEF IInv
<1>6. CASE /\ k = Len(Sent) /\ Head(line) = CAN
           /\ Tail(line) \in Tails /\ tail # <<>>
  <2>1. ~sender.active /\ Receive(CAN)
    BY <1>1, <1>3, <1>6 DEF OnLine
  <2>2. PICK l \in Tails : line' = l
    BY <1>1, <1>6
  <2> QED
    BY <1>1, <1>4, <1>6, <2>1, <2>2, TailTaken
<1>7. CASE /\ k < Len(Sent) /\ Head(line) = Sent[k + 1]
           /\ k + 1 \in 0..Len(Sent) /\ Tail(line) = Left(k + 1) \o tail
  <2>1. Receive(Sent[k + 1]) /\ line' = Left(k + 1) \o tail
    BY <1>1, <1>7
  <2>2. ~In("BLOCK_READY") /\ event = "NONE"
    <3>1. ~In("BLOCK_READY")
      BY <1>3, <1>7, SentIs DEF OnLine, Position, IInv
    <3> QED
      BY <1>1, <3>1
  <2>3. \/ In("WAITING") \/ In("BLOCK_NUMBER") \/ In("COMPLEMENT") \/ In("DATA")
        \/ In("CHECKSUM") \/ In("CRC_HIGH") \/ In("CRC_LOW")
    BY <1>2, <2>2 DEF Receivers, States, In
  <2> QED
    BY <1>1, <1>4, <1>7, <2>1, <2>2, <2>3, FirstTaken, HeaderTaken, DataTaken,
       CheckTaken
<1> QED
  BY <1>5, <1>6, <1>7

-----------------------------------------------------------------------------
(* The caller and the sender.                                                *)

\* A transfer that goes on has taken some part of what was sent.
LEMMA IsRunning ==
  ASSUME IInv, Safe, Open, ~Ended
  PROVE  \E k, tail : Running(k, tail)
  BY DEF Safe, Running

\* The block that waits is the next one of the file.
LEMMA SaveSafe ==
  ASSUME IInv, Safe, Save
  PROVE  Safe'
<1>1. /\ event = "BLOCK_READY" /\ In("BLOCK_READY") /\ rx \in Receivers
      /\ rx.dataIndex = rx.blockSize /\ rx.expectedBlock \in 0..255
      /\ rx.blocksReceived \in Nat
      /\ outcome \in {"OPEN", "COMPLETE", "CANCELLED", "ERROR"}
  BY DEF Save, IInv, RInv, Stored, Types, Receivers, In, WireTypes, Byte
<1>2. Open /\ ~Ended
  BY <1>1 DEF Safe, Open, Ended
<1>3. PICK k, tail : Running(k, tail)
  BY <1>2, IsRunning
<1>4. /\ Matched /\ sender.block = Len(saved) + 1 /\ sender.block <= Len(File)
      /\ SubSeq(buffer, 1, rx.blockSize) = SubSeq(Current, 1, Len(Current))
      /\ sender.check # "NONE" /\ replies = <<>> /\ k = Len(Sent)
      /\ saved = SubSeq(File, 1, Len(saved)) /\ Flying(k)
      /\ Modes(k) /\ line = Left(k) \o tail /\ (sender.active => tail = <<>>)
      /\ k \in 0..Len(Sent) /\ tail \in Tails
  BY SMTT(30), <1>1, <1>3
     DEF Running, InStep, FromFile, Taken, In, OnLine, Position, Flying, Left
<1>5. /\ saved' = Append(saved, SubSeq(buffer, 1, rx.blockSize))
      /\ event' = "SEND_ACK" /\ sender' = sender /\ line' = line
      /\ replies' = replies /\ outcome' = outcome
      /\ rx' = ResetPacket([rx EXCEPT !.expectedBlock = (@ + 1) % 256,
                          !.blocksReceived = @ + 1, !.errors = 0])
  BY DEF Save, wire
<1> DEFINE q == [rx EXCEPT !.expectedBlock = (@ + 1) % 256,
                   !.blocksReceived = @ + 1, !.errors = 0]
<1>6. /\ q \in Receivers /\ q.expectedBlock = (rx.expectedBlock + 1) % 256
      /\ q.blocksReceived = rx.blocksReceived + 1
      /\ q.checksumMode = rx.checksumMode
      /\ q.modeLocked = rx.modeLocked
      /\ q.startupTimeouts = rx.startupTimeouts
  <2> DEFINE next == (rx.expectedBlock + 1) % 256
             m == rx.blocksReceived + 1
             t == [rx EXCEPT !.expectedBlock = next]
             u == [t EXCEPT !.blocksReceived = m]
  <2>1. next \in Byte /\ MAX_ERRORS \in Nat /\ 0 \in 0..MAX_ERRORS /\ m \in Nat
    <3>1. rx.expectedBlock + 1 \in Nat
      BY <1>1
    <3>2. next \in Byte
      BY <3>1, ByteOf
    <3> HIDE DEF next
    <3> QED
      BY <1>1, <3>2, SizesAreNat
  <2>2. q = [u EXCEPT !.errors = 0]
    BY <1>1 DEF Receivers
  <2> HIDE DEF next, q, m
  <2>3. /\ t \in Receivers /\ t.expectedBlock = next
        /\ t.checksumMode = rx.checksumMode
        /\ t.modeLocked = rx.modeLocked
        /\ t.startupTimeouts = rx.startupTimeouts
    BY <1>1, <2>1 DEF Receivers
  <2> HIDE DEF t
  <2>4. /\ u \in Receivers /\ u.expectedBlock = next /\ u.blocksReceived = m
        /\ u.checksumMode = rx.checksumMode
        /\ u.modeLocked = rx.modeLocked
        /\ u.startupTimeouts = rx.startupTimeouts
    BY <2>1, <2>3 DEF Receivers
  <2> HIDE DEF u
  <2>5. /\ q \in Receivers /\ q.expectedBlock = next /\ q.blocksReceived = m
        /\ q.checksumMode = rx.checksumMode
        /\ q.modeLocked = rx.modeLocked
        /\ q.startupTimeouts = rx.startupTimeouts
    BY <2>1, <2>2, <2>4 DEF Receivers
  <2> QED
    BY <2>5 DEF next, m
<1>7. rx' = ResetPacket(q)
  BY <1>5
<1> HIDE DEF q
<1>8. /\ In("WAITING")' /\ rx'.expectedBlock = (rx.expectedBlock + 1) % 256
      /\ rx'.blocksReceived = rx.blocksReceived + 1
      /\ rx'.checksumMode = rx.checksumMode
      /\ rx'.modeLocked = rx.modeLocked
      /\ rx'.startupTimeouts = rx.startupTimeouts
  BY <1>6, <1>7, ResetKeeps DEF In
<1>9. Sent' = Sent /\ Current' = Current /\ Number' = Number
  BY <1>5, SameSent
<1>10. /\ Len(saved) \in Nat /\ sender.block \in Nat \ {0} /\ Len(File) \in Nat
       /\ sender.base \in Nat /\ Len(Sent) \in Nat
  BY Blocks, LenProperties, SentIs DEF IInv, WireTypes
<1>11. /\ saved' = SubSeq(File, 1, Len(saved) + 1) /\ Len(saved') = Len(saved) + 1
  <2> DEFINE n == Len(saved)
  <2>1. n + 1 \in 1..Len(File) /\ 1 \in 1..Len(File) /\ (n + 1) - 1 = n
        /\ n + 1 \in 1..Len(File)
    BY <1>4, <1>10
  <2>2. Current \in Seq(Byte) /\ Current = File[n + 1]
    BY <1>4, <2>1, Blocks DEF Current
  <2>3. SubSeq(buffer, 1, rx.blockSize) = Current
    BY <1>4, <2>2, SubSeqFull
  <2>4. saved' = Append(saved, Current) /\ saved \in Seq(Seq(Byte))
    BY <1>5, <2>3 DEF IInv, WireTypes
  <2>5. SubSeq(File, 1, n + 1) = SubSeq(File, 1, (n + 1) - 1) \o <<File[n + 1]>>
    BY <2>1, FileAssumption, SubSeqRecursiveSecond
  <2>6. Append(saved, Current) = saved \o <<Current>>
    BY <2>2, <2>4, AppendIsConcat
  <2>7. Len(Append(saved, Current)) = n + 1
    BY <2>2, <2>4, AppendProperties
  <2>8. saved' = SubSeq(File, 1, n + 1)
    BY <1>4, <2>1, <2>2, <2>4, <2>5, <2>6
  <2> QED
    BY <2>4, <2>7, <2>8
<1>12. Matched'
  <2> DEFINE x == sender.base + Len(saved) + 1
  <2>1. rx.expectedBlock = x % 256 /\ x \in Nat
    BY <1>4, <1>10 DEF Matched
  <2>2. x + 1 = sender.base + Len(saved') + 1
    BY <1>10, <1>11
  <2> HIDE DEF x
  <2>3. ((x % 256) + 1) % 256 = (x + 1) % 256
    BY <2>1
  <2> QED
    BY <1>5, <1>8, <2>1, <2>2, <2>3 DEF Matched
<1>13. InStep' /\ ~Startup'
  <2>1. ~Startup'
    BY <1>1, <1>8 DEF Startup
  <2> QED
    BY ZenonT(30), <1>4, <1>5, <1>8, <1>10, <1>11, <1>12, <2>1 DEF InStep, FromFile, In
<1>14. Answer'
  BY ZenonT(30), <1>3, <1>4, <1>5, <1>8, <1>11, <1>12 DEF Answer, Answers, Running, In, Replies
<1>15. Taken'
  BY <1>8 DEF Taken, In
<1>16. Position(k)' /\ ~Flying(k)'
  BY <1>4, <1>8, <1>9, <1>10 DEF Position, In, Flying
<1>17. Modes(k)'
  BY <1>4, <1>5, <1>8, <1>13, <1>16 DEF Modes
<1>18. OnLine(k, tail)'
  BY <1>4, <1>5, <1>9, <1>16, <1>17 DEF OnLine, Left
<1>19. Running(k, tail)'
  BY <1>2, <1>4, <1>5, <1>9, <1>13, <1>14, <1>15, <1>18 DEF Running, Ended, Open
<1> QED
  BY <1>19, RunningSafe

\* Steps that leave the receiver alone.
LEMMA SameReceiver ==
  ASSUME UNCHANGED <<rx, buffer, saved, sender>>
  PROVE  /\ Matched' = Matched /\ Ahead' = Ahead /\ InStep' = InStep
         /\ Startup' = Startup /\ Taken' = Taken
         /\ Sent' = Sent /\ Current' = Current /\ Number' = Number
<1>1. Sent' = Sent /\ Current' = Current /\ Number' = Number
  BY SameSent
<1>2. Matched' = Matched /\ Ahead' = Ahead /\ Startup' = Startup
  BY DEF Matched, Ahead, Startup
<1>3. InStep' = InStep
  BY <1>2 DEF InStep, FromFile, In
<1>4. Taken' = Taken
  BY <1>1 DEF Taken, In
<1> QED
  BY <1>1, <1>2, <1>3, <1>4

\* An answer is said only when all of the packet is gone.
LEMMA SaySafe ==
  ASSUME IInv, Safe, Say
  PROVE  Safe'
<1>1. /\ event \in Replies /\ event' = "NONE" /\ saved' = saved /\ outcome' = outcome
      /\ replies' = (IF sender.active THEN Append(replies, event) ELSE replies)
      /\ line' = (IF event = "SEND_NAK" THEN <<>> ELSE line)
      /\ UNCHANGED <<rx, buffer, saved, sender>>
      /\ outcome \in {"OPEN", "COMPLETE", "CANCELLED", "ERROR"}
  BY DEF Say, callerVars, Replies, IInv, WireTypes
<1>2. Open /\ ~Ended
  BY <1>1 DEF Safe, Open, Ended, Replies
<1>3. PICK k, tail : Running(k, tail)
  BY <1>2, IsRunning
<1>4. /\ Matched' = Matched /\ Startup' = Startup /\ InStep' /\ Taken'
      /\ Sent' = Sent
  BY <1>1, <1>3, SameReceiver DEF Running
<1>5. /\ ~Flying(k) /\ k = Len(Sent) /\ In("WAITING") /\ replies = <<>>
      /\ Position(k) /\ Modes(k) /\ k \in 0..Len(Sent) /\ tail \in Tails
  <2>1. ~Flying(k) /\ replies = <<>> /\ In("WAITING")
    BY <1>1, <1>3 DEF Running, OnLine, Answer, Replies
  <2> QED
    BY <1>3, <2>1, SentIs DEF Running, OnLine, Flying, IInv
<1>6. replies' = (IF sender.active THEN <<event>> ELSE <<>>)
  <2>1. Append(<<>>, event) = <<event>>
    OBVIOUS
  <2> QED
    BY <1>1, <1>5, <2>1
<1>7. Answer'
  <2>1. \A r, s : <<r>> = <<s>> => r = s
    OBVIOUS
  <2>2. \A r : <<r>> # <<>>
    OBVIOUS
  <2>3. \A r \in Replies : Answers(r)' => Answers(r)
    BY <1>1, <1>6, <2>1, <2>2 DEF Answers, Replies
  <2>4. "SEND_C" \in Replies /\ "SEND_ACK" \in Replies
    BY DEF Replies
  <2>5. Answers("SEND_C")' => ~rx'.checksumMode
    BY <1>1, <1>3, <2>3, <2>4 DEF Running, Answer
  <2>6. Answers("SEND_ACK")' =>
          Matched' /\ sender'.block = Len(saved') /\ sender'.check # "NONE"
    BY <1>1, <1>3, <1>4, <2>3, <2>4 DEF Running, Answer
  <2>7. event' \notin Replies /\ In("WAITING")'
    BY <1>1, <1>5 DEF Replies, In
  <2>8. rx'.checksumMode /\ ~rx'.modeLocked => rx'.startupTimeouts >= CRC_RETRIES
    BY <1>1, <1>3 DEF Running, Answer
  <2>9. replies' = <<>> \/ \E r \in Replies : replies' = <<r>>
    BY <1>1, <1>6
  <2> QED
    BY <1>1, <2>5, <2>6, <2>7, <2>8, <2>9 DEF Answer
<1>8. PICK l \in Tails : line' = Left(k) \o l /\ (sender.active => l = <<>>)
  <2>1. /\ <<>> \in Tails /\ Left(k) \o <<>> = <<>>
    <3>1. Sent \in Seq(Byte) /\ <<>> \in Seq(Byte)
      BY SentIs DEF IInv
    <3> QED
      BY <1>5, <3>1, NothingLeft DEF Left, Tails
  <2>2. event # "SEND_NAK" => line = Left(k) \o tail
    BY <1>3 DEF Running, OnLine, Left
  <2>3. sender.active => tail = <<>>
    BY <1>3 DEF Running, OnLine
  <2> QED
    BY <1>1, <1>5, <2>1, <2>2, <2>3
<1>9. Position(k)' /\ ~Flying(k)'
  BY <1>1, <1>4, <1>5 DEF Position, In, Flying
<1>10. Modes(k)'
  BY <1>1, <1>4, <1>5, <1>9 DEF Modes
<1>11. OnLine(k, l)'
  BY <1>1, <1>4, <1>8, <1>9, <1>10 DEF OnLine, Left
<1>12. Running(k, l)'
  BY <1>1, <1>2, <1>4, <1>5, <1>7, <1>11 DEF Running, Ended, Open
<1> QED
  BY <1>12, RunningSafe

\* The end of a transfer changes nothing that was saved.
LEMMA FinishSafe ==
  ASSUME IInv, Safe, Finish
  PROVE  Safe'
<1>1. UNCHANGED <<rx, event, saved>> /\ Ended /\ outcome' = event
  BY DEF Finish, Ended
<1> QED
  BY <1>1, EndedStays

\* A timeout finds nothing of a packet on the line, and once the sender has
\* been asked for CRCs none before the first block.
LEMMA TimeoutSafe ==
  ASSUME IInv, Safe, Timeout, MaxReplies = 1
  PROVE  Safe'
<1> DEFINE p == ResetPacket(rx)
           r == [p EXCEPT !.errors = @ + 1]
           s == [r EXCEPT !.startupTimeouts = @ + 1]
           gaveUp == ~s.modeLocked /\ s.startupTimeouts >= CRC_RETRIES
           c == [s EXCEPT !.checksumMode = @ \/ gaveUp]
<1>1. /\ Open /\ event = "NONE" /\ line = <<>> /\ replies = <<>> /\ ~In("BLOCK_READY")
      /\ UNCHANGED <<buffer, saved, outcome, line, replies, sender>>
      /\ rx \in Receivers
  <2>1. Len(replies) < 1 /\ replies \in Seq(Replies)
    BY DEF Timeout, IInv, WireTypes
  <2>2. replies = <<>>
    BY <2>1, EmptySeq
  <2> QED
    BY <2>2 DEF Timeout, IInv, RInv, Types, callerVars, wire
<1>2. /\ p.state = "WAITING" /\ p.expectedBlock = rx.expectedBlock
      /\ p.blocksReceived = rx.blocksReceived
      /\ p.checksumMode = rx.checksumMode /\ p.modeLocked = rx.modeLocked
      /\ p.startupTimeouts = rx.startupTimeouts
      /\ p \in Receivers
  BY ResetIs DEF IInv
<1>3. \/ TooMany(r.errors) /\ Returns(r, "ERROR")
      \/ ~TooMany(r.errors) /\ ~Startup /\ Returns(r, "SEND_NAK")
      \/ /\ ~TooMany(r.errors) /\ Startup
         /\ Returns(c, IF gaveUp \/ (c.modeLocked /\ c.checksumMode)
                       THEN "SEND_NAK" ELSE "SEND_C")
  BY DEF Timeout
<1> HIDE DEF p
<1>4. /\ r.state = "WAITING" /\ r.expectedBlock = rx.expectedBlock
      /\ r.blocksReceived = rx.blocksReceived
      /\ r.checksumMode = rx.checksumMode /\ r.modeLocked = rx.modeLocked
      /\ r.startupTimeouts = rx.startupTimeouts
  BY <1>2 DEF Receivers
<1>5. /\ c.state = "WAITING" /\ c.expectedBlock = rx.expectedBlock
      /\ c.blocksReceived = rx.blocksReceived /\ c.modeLocked = rx.modeLocked
      /\ c.startupTimeouts = rx.startupTimeouts + 1
      /\ c.checksumMode = (rx.checksumMode \/ gaveUp)
      /\ gaveUp = (~rx.modeLocked /\ rx.startupTimeouts + 1 >= CRC_RETRIES)
  <2>1. /\ s.state = "WAITING" /\ s.expectedBlock = rx.expectedBlock
        /\ s.blocksReceived = rx.blocksReceived
        /\ s.checksumMode = rx.checksumMode /\ s.modeLocked = rx.modeLocked
        /\ s.startupTimeouts = rx.startupTimeouts + 1
    BY <1>2 DEF Receivers
  <2>2. gaveUp = (~rx.modeLocked /\ rx.startupTimeouts + 1 >= CRC_RETRIES)
    BY <2>1
  <2>3. {"checksumMode", "state", "expectedBlock", "blocksReceived", "modeLocked",
         "startupTimeouts"} \subseteq DOMAIN s
    BY <1>2 DEF Receivers
  <2> HIDE DEF s, gaveUp
  <2> QED
    BY <2>1, <2>2, <2>3
<1> HIDE DEF r, c, gaveUp
<1>6. PICK k, tail : Running(k, tail)
  BY <1>1, IsRunning DEF Ended
<1>7. /\ Len(Sent) \in Nat /\ rx.startupTimeouts \in Nat /\ CRC_RETRIES \in Nat
      /\ Sent \in Seq(Byte) /\ MAX_ERRORS \in Nat
  BY <1>1, SentIs, LimitsAssumption DEF IInv, Receivers
<1>8. k = Len(Sent) /\ k \in Nat
  <2>1. line = Left(k) \o tail
    BY <1>1, <1>6 DEF Running, OnLine, Left
  <2>2. k < Len(Sent) => line # <<>>
    <3> SUFFICES ASSUME k < Len(Sent) PROVE line # <<>>
      OBVIOUS
    <3>1. k \in Nat /\ tail \in Seq(Byte)
      BY <1>6, <1>7, TailIs DEF Running
    <3>2. SubSeq(Sent, k + 1, Len(Sent)) \o tail # <<>>
      BY <1>7, <3>1, TakesFirst
    <3> QED
      BY <2>1, <3>2 DEF Left
  <2> QED
    BY <1>1, <1>6, <1>7, <2>2 DEF Running
<1>9. sender.check = "CRC" => In("WAITING")
  <2> SUFFICES ASSUME sender.check = "CRC", ~In("WAITING") PROVE FALSE
    OBVIOUS
  <2>1. sender.block <= Len(File) /\ rx.blockSize = Len(Current)
    BY <1>6 DEF Running, Taken
  <2>2. /\ Len(Sent) = Len(Current) + 5 /\ Len(Current) \in Nat
    BY <2>1, SentIs DEF IInv, IsPacket
  <2>3. rx.state = "DATA" => rx.dataIndex < Len(Current) /\ rx.dataIndex \in Nat
    BY <1>1, <2>1 DEF IInv, RInv, Stored, In, Receivers
  <2>4. rx.state \in {"BLOCK_NUMBER", "COMPLEMENT", "DATA", "CHECKSUM",
                      "CRC_HIGH", "CRC_LOW"}
    BY <1>1 DEF Receivers, States, In
  <2> QED
    BY <1>6, <1>8, <2>2, <2>3, <2>4 DEF Running, OnLine, Position, In
<1>10. Matched /\ File # <<>> /\ sender.check = "CRC" /\ sender.active
         => ~rx.checksumMode /\ ~Startup
  BY <1>6, <1>8, <1>9 DEF Running, OnLine, Modes, Flying
<1>11. /\ In("WAITING")' /\ rx'.expectedBlock = rx.expectedBlock
       /\ rx'.blocksReceived = rx.blocksReceived /\ rx'.modeLocked = rx.modeLocked
       /\ event' \in {"ERROR", "SEND_NAK", "SEND_C"}
       /\ event' = "SEND_C" => ~rx'.checksumMode
       /\ rx'.checksumMode /\ ~rx'.modeLocked => rx'.startupTimeouts >= CRC_RETRIES
       /\ ~Startup => rx'.checksumMode = rx.checksumMode
  <2>1. rx.checksumMode /\ ~rx.modeLocked => rx.startupTimeouts >= CRC_RETRIES
    BY <1>6 DEF Running, Answer
  <2>2. CASE Returns(r, "ERROR") \/ Returns(r, "SEND_NAK")
    BY <1>4, <2>1, <2>2 DEF Returns, In
  <2>3. CASE /\ Startup
             /\ Returns(c, IF gaveUp \/ (c.modeLocked /\ c.checksumMode)
                           THEN "SEND_NAK" ELSE "SEND_C")
    <3>1. gaveUp \in BOOLEAN /\ rx.modeLocked \in BOOLEAN /\ rx.checksumMode \in BOOLEAN
      BY <1>1, <1>5 DEF Receivers
    <3>2. rx' = c /\ event' = IF gaveUp \/ (c.modeLocked /\ c.checksumMode)
                              THEN "SEND_NAK" ELSE "SEND_C"
      BY <2>3 DEF Returns
    <3> DEFINE late == rx.startupTimeouts + 1 >= CRC_RETRIES
    <3>5. rx.startupTimeouts >= CRC_RETRIES => late
      BY <1>7
    <3>6. gaveUp <=> ~rx.modeLocked /\ late
      BY <1>5
    <3> HIDE DEF late
    <3>3. rx.checksumMode /\ ~rx.modeLocked => gaveUp
      BY <2>1, <3>5, <3>6
    <3>4. ~rx.modeLocked /\ (rx.checksumMode \/ gaveUp) => late
      BY <2>1, <3>5, <3>6
    <3>7. c.startupTimeouts >= CRC_RETRIES <=> late
      BY <1>5 DEF late
    <3> QED
      BY <1>5, <2>3, <3>1, <3>2, <3>3, <3>4, <3>7 DEF In
  <2> QED
    BY <1>3, <2>2, <2>3
<1>12. Sent' = Sent /\ Current' = Current /\ Number' = Number
  BY <1>1, SameSent
<1>13. Matched' = Matched /\ Ahead' = Ahead /\ Startup' = Startup
  BY <1>1, <1>11 DEF Matched, Ahead, Startup
<1>14. InStep'
  BY <1>1, <1>6, <1>11, <1>13 DEF Running, InStep, FromFile, In
<1>15. CASE event' = "ERROR"
  BY <1>1, <1>11, <1>14, <1>15, EndedSafe DEF Ended, Open
<1>16. CASE event' # "ERROR"
  <2>1. Answer'
    BY <1>1, <1>11, <1>16 DEF Answer, Answers, In, Replies
  <2>2. Taken'
    BY <1>11 DEF Taken, In
  <2>3. Position(k)' /\ ~Flying(k)'
    BY <1>8, <1>11, <1>12 DEF Position, In, Flying
  <2>4. Modes(k)'
    BY <1>1, <1>10, <1>11, <1>13, <2>3 DEF Modes
  <2>5. line' = Left(k) \o <<>>
    <3>1. <<>> \in Seq(Byte)
      OBVIOUS
    <3> QED
      BY <1>1, <1>7, <1>8, <3>1, NothingLeft DEF Left
  <2>6. OnLine(k, <<>>)'
    BY <1>12, <2>3, <2>4, <2>5 DEF OnLine, Left
  <2>7. Running(k, <<>>)'
    BY <1>1, <1>7, <1>8, <1>11, <1>12, <1>14, <1>16, <2>1, <2>2, <2>6
       DEF Running, Ended, Open, Tails
  <2> QED
    BY <2>7, RunningSafe
<1> QED
  BY <1>15, <1>16

\* Without its answer the sender waits for the next one.
LEMMA LoseAnswerSafe ==
  ASSUME IInv, Safe, LoseAnswer, ~Ended
  PROVE  Safe'
<1>1. /\ Open /\ replies # <<>> /\ replies' = Tail(replies)
      /\ UNCHANGED <<rx, buffer, saved, sender>>
      /\ event' = event /\ outcome' = outcome /\ line' = line
  BY DEF LoseAnswer, callerVars
<1>3. PICK k, tail : Running(k, tail)
  BY <1>1, IsRunning
<1>4. /\ Matched' = Matched /\ Startup' = Startup /\ InStep' /\ Taken'
      /\ Sent' = Sent
  BY <1>1, <1>3, SameReceiver DEF Running
<1>5. replies' = <<>>
  <2>1. PICK r : replies = <<r>>
    BY <1>1, <1>3 DEF Running, Answer
  <2>2. Tail(<<r>>) = <<>>
    OBVIOUS
  <2> QED
    BY <1>1, <2>1, <2>2, Zenon
<1>6. Answer'
  <2>1. \A r : <<>> # <<r>>
    OBVIOUS
  <2> QED
    BY <1>1, <1>3, <1>4, <1>5, <2>1 DEF Running, Answer, Answers, In
<1>7. OnLine(k, tail)'
  <2>1. OnLine(k, tail) /\ ~Flying(k)
    BY <1>1, <1>3 DEF Running, OnLine
  <2>2. Position(k)' /\ ~Flying(k)'
    BY <1>1, <1>4, <2>1 DEF OnLine, Position, Flying, In
  <2>3. Modes(k)'
    BY <1>1, <1>4, <2>1, <2>2 DEF OnLine, Modes
  <2> QED
    BY <1>1, <1>4, <2>1, <2>2, <2>3 DEF OnLine
<1>8. Running(k, tail)'
  BY <1>1, <1>3, <1>4, <1>6, <1>7 DEF Running, Open, Ended
<1> QED
  BY <1>8, RunningSafe

\* When the sender hears an answer all that it sent has been taken.
LEMMA HearsIs ==
  ASSUME IInv, Safe, SenderHears, ~Ended
  PROVE  /\ Open /\ event = "NONE" /\ In("WAITING") /\ line = <<>>
         /\ replies = <<Head(replies)>> /\ replies' = <<>> /\ sender.active
         /\ InStep /\ Answer
         /\ Matched /\ File # <<>> /\ sender.check = "CRC" => ~rx.checksumMode
<1>1. Open /\ sender.active /\ replies # <<>> /\ replies' = Tail(replies)
  BY DEF SenderHears
<1>3. PICK k, tail : Running(k, tail)
  BY <1>1, IsRunning
<1>4. PICK r : replies = <<r>>
  BY <1>1, <1>3 DEF Running, Answer
<1>5. replies = <<Head(replies)>> /\ replies' = <<>>
  <2>1. Tail(<<r>>) = <<>> /\ Head(<<r>>) = r
    OBVIOUS
  <2> QED
    BY <1>1, <1>4, <2>1, Zenon
<1>6. event = "NONE" /\ In("WAITING") /\ ~Flying(k)
  BY <1>1, <1>3 DEF Running, Answer, OnLine
<1>7. tail = <<>> /\ k = Len(Sent)
  <2>1. Len(Sent) \in Nat
    BY SentIs DEF IInv
  <2> QED
    BY <1>1, <1>3, <1>6, <2>1 DEF Running, OnLine, Flying
<1>8. line = <<>>
  <2>1. line = Left(k) \o tail
    BY <1>3, <1>6 DEF Running, OnLine, Left
  <2>2. Sent \in Seq(Byte) /\ <<>> \in Seq(Byte)
    BY SentIs DEF IInv
  <2>3. Left(k) \o <<>> = <<>>
    BY <1>7, <2>2, NothingLeft DEF Left
  <2> QED
    BY <1>7, <2>1, <2>3
<1>9. Matched /\ File # <<>> /\ sender.check = "CRC" => ~rx.checksumMode
  BY <1>1, <1>3 DEF Running, OnLine, Modes
<1> QED
  BY <1>1, <1>3, <1>5, <1>6, <1>8, <1>9 DEF Running

\* What the sender sends of any block are bytes.
LEMMA SendsAre ==
  ASSUME NEW s \in Senders
  PROVE  LET b == IF s.block > Len(File) THEN <<EOT>>
                  ELSE Packet(s.block, s.check, s.base)
         IN b \in Seq(Byte) /\ Len(b) \in Nat /\ Len(b) >= 1
<1>1. s.block \in Nat \ {0} /\ s.base \in Nat /\ Len(File) \in Nat
  BY Blocks DEF Senders
<1>2. CASE s.block > Len(File)
  <2>1. EOT \in Byte
    BY DEF EOT, Byte
  <2> HIDE DEF Byte
  <2>2. <<EOT>> \in Seq(Byte) /\ Len(<<EOT>>) = 1
    BY <2>1
  <2> QED
    BY <1>2, <2>2
<1>3. CASE ~(s.block > Len(File))
  <2>1. s.block \in 1..Len(File)
    BY <1>1, <1>3
  <2>2. IsPacket(Packet(s.block, s.check, s.base), File[s.block],
                 (s.base + s.block) % 256, s.check)
    BY <1>1, <2>1, PacketIs
  <2>3. Packet(s.block, s.check, s.base) \in Seq(Byte)
    BY <2>2 DEF IsPacket
  <2>5. File[s.block] \in Seq(Byte) /\ Len(File[s.block]) \in Nat
    BY <2>1, Blocks
  <2>4. /\ Len(Packet(s.block, s.check, s.base)) \in Nat
        /\ Len(Packet(s.block, s.check, s.base)) >= 1
    <3>1. Len(Packet(s.block, s.check, s.base)) =
            Len(File[s.block]) + (IF s.check = "SUM" THEN 4 ELSE 5)
      BY <2>2 DEF IsPacket
    <3>2. \A n \in Nat : n + 4 \in Nat /\ n + 5 \in Nat /\ n + 4 >= 1 /\ n + 5 >= 1
      OBVIOUS
    <3> QED
      BY <2>5, <3>1, <3>2, Zenon
  <2> QED
    BY <1>3, <2>3, <2>4
<1> QED
  BY <1>2, <1>3

\* Then what it sends is all that is on the line.
LEMMA SendsSafe ==
  ASSUME IInv, Safe, ~Ended, SenderHears, NEW s \in Senders, Sends(s),
         InStep', s.check # "NONE",
         Matched' /\ File # <<>> /\ s.check = "CRC" => ~rx.checksumMode
  PROVE  Safe'
<1>1. /\ Open /\ event = "NONE" /\ In("WAITING") /\ line = <<>> /\ replies' = <<>>
      /\ Answer
      /\ UNCHANGED <<rx, event, buffer, callerVars>>
  BY HearsIs DEF SenderHears
<1>2. sender' = s /\ line' = Sent'
  <2> DEFINE b == IF s.block > Len(File) THEN <<EOT>>
                  ELSE Packet(s.block, s.check, s.base)
  <2>1. sender' = s /\ line' = line \o b
    BY DEF Sends
  <2>2. b = Sent'
    BY <2>1, Zenon DEF Sent
  <2>3. b \in Seq(Byte)
    BY SendsAre
  <2> HIDE DEF b
  <2>4. <<>> \o b = b
    BY <2>3, ConcatEmptySeq
  <2> QED
    BY <1>1, <2>1, <2>2, <2>4
<1>3. Sent' \in Seq(Byte) /\ Len(Sent') \in Nat /\ Len(Sent') >= 1
  BY <1>2, SendsAre DEF Sent
<1>4. In("WAITING")' /\ Flying(0)' /\ Open' /\ ~Ended'
  BY <1>1, <1>3 DEF In, Flying, Open, Ended, callerVars
<1>5. Answer'
  <2>1. \A r : <<>> # <<r>>
    OBVIOUS
  <2> QED
    BY <1>1, <1>4, <2>1 DEF Answer, Answers, Replies
<1>6. Taken' /\ Position(0)'
  BY <1>1, <1>3, <1>4 DEF Taken, Position, In
<1>7. Modes(0)'
  BY <1>1, <1>2, <1>4 DEF Modes
<1>8. SubSeq(Sent', 0 + 1, Len(Sent')) \o <<>> = Sent'
  <2>1. PICK b : b = Sent'
    OBVIOUS
  <2>2. SubSeq(b, 1, Len(b)) = b
    BY <1>3, <2>1, SubSeqFull
  <2>3. b \o <<>> = b
    BY <1>3, <2>1, ConcatEmptySeq
  <2> QED
    BY <2>1, <2>2, <2>3
<1>9. OnLine(0, <<>>)'
  BY <1>1, <1>2, <1>4, <1>6, <1>7, <1>8 DEF OnLine
<1>10. Running(0, <<>>)'
  BY <1>3, <1>4, <1>5, <1>6, <1>9 DEF Running, Tails
<1> QED
  BY <1>10, RunningSafe

\* A sender that hears an answer sends what the answer asks for.
LEMMA HearsSafe ==
  ASSUME IInv, Safe, ~Ended, Sender
  PROVE  Safe'
<1>1. SenderHears /\ sender \in Senders
  BY DEF Sender, HearsC, HearsNak, HearsAck, IInv, WireTypes, Senders
<1>2. /\ In("WAITING") /\ event = "NONE" /\ replies = <<Head(replies)>>
      /\ InStep /\ Answer
      /\ Matched /\ File # <<>> /\ sender.check = "CRC" => ~rx.checksumMode
  BY <1>1, HearsIs
<1>3. /\ UNCHANGED <<rx, event, buffer, callerVars>>
      /\ saved' = saved /\ Len(saved) \in Nat
      /\ sender.block \in Nat \ {0} /\ sender.base \in Nat
  <2>1. saved \in Seq(Seq(Byte))
    BY DEF IInv, WireTypes
  <2> QED
    BY <1>1, <2>1, LenProperties DEF SenderHears, callerVars, Senders
<1>4. In("WAITING")' /\ Startup' = Startup
  BY <1>2, <1>3 DEF In, Startup
<1>5. CASE HearsC \/ HearsNak
  <2> DEFINE check == IF HearsC THEN "CRC"
                      ELSE IF sender.check = "NONE" THEN "SUM" ELSE sender.check
             s == [sender EXCEPT !.check = check]
  <2>1. Sends(s) /\ (Head(replies) = "SEND_C" \/ check # "CRC" \/ sender.check = "CRC")
    BY <1>5 DEF HearsC, HearsNak
  <2>2. /\ s \in Senders /\ s.check = check /\ check # "NONE"
        /\ s.block = sender.block /\ s.base = sender.base
    BY <1>1 DEF Senders
  <2> HIDE DEF s, check
  <2>3. sender' = s
    BY <2>1 DEF Sends
  <2>4. Matched' = Matched /\ Ahead' = Ahead
    BY SMTT(30), <1>3, <2>2, <2>3 DEF Matched, Ahead
  <2>5. InStep'
    BY <1>2, <1>3, <1>4, <2>2, <2>3, <2>4 DEF InStep, FromFile, In
  <2>6. Head(replies) = "SEND_C" => ~rx.checksumMode
    BY <1>2 DEF Answer, Answers
  <2>7. Matched' /\ File # <<>> /\ s.check = "CRC" => ~rx.checksumMode
    BY <1>2, <2>1, <2>2, <2>4, <2>6
  <2> QED
    BY <1>1, <2>1, <2>2, <2>5, <2>7, SendsSafe
<1>6. CASE HearsAck
  <2> DEFINE s == [sender EXCEPT !.block = @ + 1]
  <2>1. Sends(s) /\ Head(replies) = "SEND_ACK"
    BY <1>6 DEF HearsAck
  <2>2. /\ s \in Senders /\ s.check = sender.check
        /\ s.block = sender.block + 1 /\ s.base = sender.base
    BY <1>1 DEF Senders
  <2> HIDE DEF s
  <2>3. sender' = s
    BY <2>1 DEF Sends
  <2>4. Matched /\ sender.block = Len(saved) /\ sender.check # "NONE"
    BY <1>2, <2>1 DEF Answer, Answers
  <2>5. Matched' = Matched
    BY <1>3, <2>2, <2>3 DEF Matched
  <2>6. InStep'
    BY <1>2, <1>3, <1>4, <2>2, <2>3, <2>4, <2>5 DEF InStep, FromFile, In
  <2>7. Matched' /\ File # <<>> /\ s.check = "CRC" => ~rx.checksumMode
    BY <1>2, <2>2, <2>5
  <2> QED
    BY <1>1, <2>1, <2>2, <2>4, <2>6, <2>7, SendsSafe
<1> QED
  BY <1>5, <1>6 DEF Sender

\* A sender that gives up puts CANs behind what it sent.
LEMMA CancelSafe ==
  ASSUME IInv, Safe, ~Ended, SenderCancels
  PROVE  Safe'
<1> DEFINE cans == <<CAN, CAN>>
<1>1. /\ Open /\ sender.active /\ sender' = [sender EXCEPT !.active = FALSE]
      /\ line' = line \o cans /\ replies' = <<>>
      /\ UNCHANGED <<rx, event, buffer, saved, outcome>>
      /\ sender \in Senders
  BY DEF SenderCancels, callerVars, IInv, WireTypes, Senders
<1>2. cans \in Tails /\ cans \in Seq(Byte) /\ <<>> \in Seq(Byte)
  BY TailIs DEF Tails
<1> HIDE DEF cans
<1>3. /\ sender'.block = sender.block /\ sender'.check = sender.check
      /\ sender'.base = sender.base /\ ~sender'.active
  BY <1>1 DEF Senders
<1>4. Sent' = Sent /\ Current' = Current /\ Number' = Number
  BY <1>3 DEF Sent, Current, Number
<1>5. PICK k, tail : Running(k, tail)
  BY <1>1, IsRunning
<1>6. k \in 0..Len(Sent) /\ tail = <<>> /\ OnLine(k, <<>>)
  BY <1>1, <1>5 DEF Running, OnLine
<1>7. /\ Matched' = Matched /\ Ahead' = Ahead /\ Startup' = Startup
      /\ InStep'
  <2>1. Matched' = Matched /\ Ahead' = Ahead /\ Startup' = Startup
    BY <1>1, <1>3 DEF Matched, Ahead, Startup
  <2> QED
    BY <1>1, <1>3, <1>5, <2>1 DEF Running, InStep, FromFile, In
<1>8. Answer'
  <2>1. \A r : <<>> # <<r>>
    OBVIOUS
  <2> QED
    BY <1>1, <1>3, <1>5, <1>7, <2>1 DEF Running, Answer, Answers, In
<1>9. Taken'
  BY <1>1, <1>3, <1>4, <1>5 DEF Running, Taken, In
<1>10. event' # "SEND_NAK" => line' = Left(k)' \o cans
  <2> SUFFICES ASSUME event # "SEND_NAK" PROVE line' = Left(k)' \o cans
    BY <1>1
  <2>1. line = Left(k) \o <<>>
    BY <1>6 DEF OnLine, Left
  <2>2. Sent \in Seq(Byte) /\ Len(Sent) \in Nat
    BY SentIs DEF IInv
  <2>3. Left(k) \in Seq(Byte)
    <3>1. \A i \in (k + 1)..Len(Sent) : Sent[i] \in Byte
      BY <1>6, <2>2, ElementOfSeq
    <3> QED
      BY <1>6, <2>2, <3>1, SubSeqProperties DEF Left
  <2>4. line = Left(k)
    BY <2>1, <2>3, ConcatEmptySeq
  <2>5. Left(k)' = Left(k)
    BY <1>4 DEF Left
  <2> QED
    BY <1>1, <2>4, <2>5
<1>11. Position(k)' /\ Modes(k)' /\ Flying(k)' = Flying(k)
  <2>1. Position(k)' /\ Flying(k)' = Flying(k)
    BY <1>1, <1>4, <1>6 DEF OnLine, Position, Flying, In
  <2> QED
    BY <1>1, <1>3, <1>6, <1>7, <2>1 DEF OnLine, Modes
<1>12. OnLine(k, cans)'
  BY <1>1, <1>3, <1>6, <1>10, <1>11 DEF OnLine, Left
<1>13. Running(k, cans)'
  BY <1>1, <1>2, <1>4, <1>5, <1>6, <1>7, <1>8, <1>9, <1>12 DEF Running, Open, Ended
<1> QED
  BY <1>13, RunningSafe

\* Nothing is lost where nothing is done.
LEMMA StutterSafe ==
  ASSUME IInv, Safe, ~Ended, UNCHANGED vars
  PROVE  Safe'
<1>1. /\ UNCHANGED <<rx, buffer, saved, sender>> /\ event' = event
      /\ outcome' = outcome /\ line' = line /\ replies' = replies
  BY DEF vars, callerVars, wire
<1>2. Open
  BY DEF Safe, Open, Ended, IInv, WireTypes
<1>3. PICK k, tail : Running(k, tail)
  BY <1>2, IsRunning
<1>4. /\ Matched' = Matched /\ Startup' = Startup /\ InStep' /\ Taken'
      /\ Sent' = Sent /\ Current' = Current
  BY <1>1, <1>3, SameReceiver DEF Running
<1>5. Answer'
  BY <1>1, <1>3, <1>4 DEF Running, Answer, Answers, In
<1>6. OnLine(k, tail)'
  <2>1. OnLine(k, tail)
    BY <1>3 DEF Running
  <2>2. Position(k)' /\ Flying(k)' = Flying(k)
    BY <1>1, <1>4, <2>1 DEF OnLine, Position, Flying, In
  <2>3. Modes(k)'
    BY <1>1, <1>4, <2>1, <2>2 DEF OnLine, Modes
  <2> QED
    BY <1>1, <1>4, <2>1, <2>2, <2>3 DEF OnLine
<1>7. Running(k, tail)'
  BY <1>1, <1>3, <1>4, <1>5, <1>6 DEF Running, Open, Ended
<1> QED
  BY <1>7, RunningSafe

\* At first nothing is sent, and so all of it has been taken.
LEMMA InitSafe ==
  ASSUME Init
  PROVE  SInv
<1>1. IInv
  BY InitIInv
<1>2. /\ event = "NONE" /\ saved = <<>> /\ Open /\ line = <<>> /\ replies = <<>>
      /\ faults = 0
  BY DEF Init, Open
<1>3. PICK base \in Bases : \E first \in {base, base + 1} :
        /\ sender = [block |-> 1, check |-> "NONE", active |-> TRUE, base |-> first]
        /\ LET new == [NewReceiver EXCEPT !.blocksReceived = base,
                         !.expectedBlock = (base + 1) % 256]
           IN rx \in {new, SelectChecksum(new, TRUE), SelectChecksum(new, FALSE)}
  BY ZenonT(30) DEF Init
<1>4. base \in Nat
  BY BoundsAssumption
<1>18. PICK first \in {base, base + 1} :
         sender = [block |-> 1, check |-> "NONE", active |-> TRUE, base |-> first]
  BY <1>3
<1>5. /\ rx.state = "WAITING" /\ rx.expectedBlock = (base + 1) % 256
      /\ rx.checksumMode => rx.modeLocked
  <2> DEFINE new == [NewReceiver EXCEPT !.blocksReceived = base,
                       !.expectedBlock = (base + 1) % 256]
  <2>1. /\ new.state = "WAITING" /\ new.expectedBlock = (base + 1) % 256
        /\ ~new.checksumMode
        /\ DOMAIN new = DOMAIN NewReceiver
        /\ {"state", "expectedBlock", "checksumMode", "startupTimeouts", "modeLocked"}
             \subseteq DOMAIN new
    BY DEF NewReceiver, ResetPacket
  <2> HIDE DEF new
  <2>2. ASSUME NEW mode, rx = SelectChecksum(new, mode)
        PROVE  rx.state = new.state /\ rx.expectedBlock = new.expectedBlock /\ rx.modeLocked
    BY <2>1, <2>2 DEF SelectChecksum
  <2>3. rx = new \/ rx = SelectChecksum(new, TRUE) \/ rx = SelectChecksum(new, FALSE)
    BY <1>3 DEF new
  <2> QED
    BY ZenonT(30), <2>1, <2>2, <2>3
<1>6. In("WAITING") /\ ~Ended /\ Len(saved) = 0
  BY <1>2, <1>5 DEF In, Ended
<1>7. FromFile
  <2>1. Len(File) \in Nat /\ File \in Seq(Seq(Byte))
    BY Blocks, FileAssumption
  <2>2. SubSeq(File, 1, 0) = <<>>
    BY <2>1, SubSeqEmpty
  <2> QED
    BY <1>2, <1>6, <2>1, <2>2 DEF FromFile
<1>8. Matched \/ Ahead
  <2>1. CASE first = base
    BY <1>18, <1>4, <1>5, <1>6, <2>1 DEF Matched
  <2>2. CASE first = base + 1
    BY <1>2, <1>18, <1>5, <2>2 DEF Ahead
  <2> QED
    BY <1>18, <2>1, <2>2
<1>9. InStep
  BY <1>2, <1>18, <1>6, <1>7, <1>8 DEF InStep, In
<1>10. Answer
  <2>1. \A r : <<>> # <<r>>
    OBVIOUS
  <2> QED
    BY <1>2, <1>5, <1>6, <2>1 DEF Answer, Answers, Replies
<1>11. Taken
  BY <1>5 DEF Taken, In
<1>12. PICK k : k = Len(Sent)
  OBVIOUS
<1>13. k \in Nat /\ Sent \in Seq(Byte)
  BY <1>1, <1>12, SentIs DEF IInv
<1>14. Position(k) /\ ~Flying(k) /\ Modes(k)
  <2>1. Position(k) /\ ~Flying(k)
    BY <1>5, <1>12, <1>13 DEF Position, Flying, In
  <2> QED
    BY <1>18, <2>1 DEF Modes
<1>15. line = SubSeq(Sent, k + 1, Len(Sent)) \o <<>>
  <2>1. <<>> \in Seq(Byte)
    OBVIOUS
  <2> QED
    BY <1>2, <1>12, <1>13, <2>1, NothingLeft
<1>16. OnLine(k, <<>>)
  BY <1>14, <1>15 DEF OnLine
<1>17. Safe
  BY <1>2, <1>6, <1>7, <1>9, <1>10, <1>11, <1>12, <1>13, <1>16 DEF Safe, Tails
<1> QED
  BY <1>2, <1>17 DEF SInv

\* No step of an undisturbed transfer loses track of what has been sent.
LEMMA StepSafe ==
  ASSUME MaxReplies = 1, IInv, SInv, [Next]_vars
  PROVE  SInv'
<1>1. CASE faults # 0
  <2>1. faults' \in {faults, faults + 1}
    BY DEF vars, disturbed, Next, Caller, Save, Say, Finish, Timeout, Deliver, Damage,
      Lose, Fault, LoseAnswer, Sender, HearsC, HearsNak, HearsAck, SenderHears,
      SenderCancels
  <2>2. faults \in Nat
    BY DEF SInv
  <2>3. faults' \in Nat /\ faults' # 0
    BY <1>1, <2>1, <2>2
  <2> QED
    BY <2>3 DEF SInv
<1>2. CASE faults = 0
  <2>1. Safe
    BY <1>2 DEF SInv
  <2>2. CASE Damage \/ Lose
    <3>1. faults' = 1
      BY <1>2, <2>2 DEF Damage, Lose, Fault
    <3> QED
      BY <3>1 DEF SInv
  <2>3. CASE ~(Damage \/ Lose)
    <3>1. faults' = 0
      BY <1>2, <2>3 DEF vars, disturbed, Next, Caller, Save, Say, Finish, Timeout,
        Deliver, LoseAnswer, Sender, HearsC, HearsNak, HearsAck, SenderHears,
        SenderCancels
    <3>2. Safe'
      <4>1. CASE Save
        BY <2>1, <4>1, SaveSafe
      <4>2. CASE Say
        BY <2>1, <4>2, SaySafe
      <4>3. CASE Finish
        BY <2>1, <4>3, FinishSafe
      <4>4. CASE Timeout
        BY <2>1, <4>4, TimeoutSafe
      <4>5. CASE Deliver
        BY <2>1, <4>5, DeliverSafe
      <4>6. CASE LoseAnswer \/ Sender \/ SenderCancels
        <5>1. CASE Ended
          <6>1. UNCHANGED <<rx, event, saved, outcome>>
            BY <4>6 DEF LoseAnswer, Sender, HearsC, HearsNak, HearsAck, SenderHears,
              SenderCancels, callerVars
          <6> QED
            BY <2>1, <5>1, <6>1, EndedStays
        <5> QED
          BY <2>1, <4>6, <5>1, LoseAnswerSafe, HearsSafe, CancelSafe
      <4>7. CASE UNCHANGED vars
        <5>1. CASE Ended
          BY <2>1, <4>7, <5>1, EndedStays DEF vars, callerVars
        <5> QED
          BY <2>1, <4>7, <5>1, StutterSafe
      <4> QED
        BY <2>3, <4>1, <4>2, <4>3, <4>4, <4>5, <4>6, <4>7 DEF Next, Caller
    <3> QED
      BY <3>1, <3>2 DEF SInv
  <2> QED
    BY <2>2, <2>3
<1> QED
  BY <1>1, <1>2

\* As long as nothing is lost or damaged on its way to the receiver, and no
\* answer comes late, what is saved is the file from its beginning, and all of
\* it when the transfer is complete: for every file, numbering, size of block
\* and limit, whatever answers are lost and wherever the sender gives up.
THEOREM SavedIsFileHolds ==
  MaxReplies = 1 => (Spec => [](faults = 0 => SavedIsFile))
<1> SUFFICES ASSUME MaxReplies = 1 PROVE Spec => [](faults = 0 => SavedIsFile)
  OBVIOUS
<1>1. Init => SInv
  BY InitSafe
<1>2. IInv /\ SInv /\ [Next]_vars => SInv'
  BY StepSafe
<1>3. IInv /\ SInv => (faults = 0 => SavedIsFile)
  <2> SUFFICES ASSUME IInv, SInv, faults = 0 PROVE SavedIsFile
    OBVIOUS
  <2>1. Safe
    BY DEF SInv
  <2>2. saved \in Seq(Seq(Byte)) /\ Len(saved) \in Nat
    <3>1. saved \in Seq(Seq(Byte))
      BY DEF IInv, WireTypes
    <3> QED
      BY <3>1, LenProperties
  <2>3. SubSeq(saved, 1, Len(saved)) = saved
    BY <2>2, SubSeqFull
  <2>4. IsPrefix(saved, File)
    BY <2>1, <2>3 DEF Safe, FromFile, IsPrefix
  <2>5. outcome = "COMPLETE" => saved = File
    BY <2>1 DEF Safe, Open
  <2> QED
    BY <2>4, <2>5 DEF SavedIsFile
<1> QED
  BY <1>1, <1>2, <1>3, InvariantHolds, PTL DEF Spec
=============================================================================
