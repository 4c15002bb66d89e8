--------------------------------- MODULE Crc ---------------------------------
(* crc_add and xmodem_crc16 of src/core/xmodem.c, bit by bit in words of 16    *)
(* bits, and the polynomial division they are meant to carry out.              *)
EXTENDS Integers, Sequences

Word == 0..65535

\* The weights of the bits of a byte, first to last.
Weights == <<128, 64, 32, 16, 8, 4, 2, 1>>

\* The bit of weight w, and x with that bit turned over.
Bit(x, w) == (x \div w) % 2

Flip(w) == [x \in Word |-> IF Bit(x, w) = 0 THEN x + w ELSE x - w]

\* Exclusive or with 0x1021, the terms of x^16 + x^12 + x^5 + 1 below the first.
Flip1021(x) == Flip(1)[Flip(32)[Flip(4096)[x]]]

(* The bit that is shifted out is forgotten.                                 *)
RoundForgets == [crc \in Word |-> (2 * crc) % 65536]

\* One round of the loop of crc_add.
Round ==
  [crc \in Word |->
     IF Bit(crc, 32768) # 0 THEN Flip1021((2 * crc) % 65536) ELSE 2 * crc]

\* The value is added to the high byte, and then come the rounds.
crc_add(crc, value) ==
  LET mixed[n \in 0..8] ==
        IF n = 0 THEN crc
        ELSE IF Bit(value, Weights[n]) = 0 THEN mixed[n - 1]
        ELSE Flip(256 * Weights[n])[mixed[n - 1]]
      after[n \in 0..8] == IF n = 0 THEN mixed[8] ELSE Round[after[n - 1]]
  IN after[8]

xmodem_crc16(data) ==
  LET crc[n \in 0..Len(data)] ==
        IF n = 0 THEN 0 ELSE crc_add(crc[n - 1], data[n])
  IN crc[Len(data)]

\* The remainder of data, taken as a polynomial over the integers modulo 2 and
\* followed by 16 zeros, divided by x^16 + x^12 + x^5 + 1: the coefficients are
\* brought down one by one, and the divisor taken off when its degree is met.
Remainder(data) ==
  LET n == 8 * Len(data)
      bit(i) == IF i > n THEN 0
                ELSE Bit(data[1 + (i - 1) \div 8], Weights[1 + ((i - 1) % 8)])
      rest[i \in 0..(n + 16)] ==
        IF i = 0 THEN 0
        ELSE LET r == 2 * rest[i - 1] + bit(i)
             IN IF r \in Word THEN r ELSE Flip1021(r - 65536)
  IN rest[n + 16]
=============================================================================
