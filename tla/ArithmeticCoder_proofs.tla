----------------------- MODULE ArithmeticCoder_proofs -----------------------
(***************************************************************************)
(* For any symbols and any contexts: the registers of both arithmetic      *)
(* coders fit.  The interval never outgrows the bits that wait, a carry    *)
(* finds a byte that takes it, and the value that is decoded is inside the *)
(* range.                                                                  *)
(*                                                                         *)
(* What the encoder relies on is where the interval ends.  CarryLimit is   *)
(* the end a held byte allows: one unit of a byte where the held byte can  *)
(* take no carry, two where it can; before the first byte 255, so that the *)
(* first two bytes of a substream lie inside the decoder's first range of  *)
(* 510.  Coding a bin only takes a part of the interval, and writing a     *)
(* byte moves the end to the limit of the byte that is held next.          *)
(*                                                                         *)
(* What the decoder relies on is that the bits of m_Value it has not read  *)
(* are zero: a value below the range then stays below it when the byte     *)
(* that fills them is added.                                               *)
(***************************************************************************)
EXTENDS ArithmeticCoder, SequenceTheorems, WellFoundedInduction, TLAPS

----------------------------------------------------------------------------
(* What holds of the registers. *)

(* The end of the interval, in units of the byte that leaves m_Low next:   *)
(* where a byte could not take a carry, or the first byte would become     *)
(* 255, the interval ends before.                                          *)
CarryLimit(held, byte, out) ==
    IF held = 0 THEN 255
    ELSE IF byte = 255 \/ (out = <<>> /\ byte = 254) THEN 256 ELSE 512

(* Bytes held back and written. *)
HeldBytesOk(held, byte, out) ==
    /\ held = 0 => byte = 255 /\ out = <<>>
    /\ held > 0 /\ out = <<>> => byte <= 254
    /\ out # <<>> => out[1] <= 254

Estimates == {s \in Nat : s <= 32767}
CoderContexts == [s0 : Estimates, s1 : Estimates]

Encoder(low, range, left, held, byte, out, ctx) ==
    [low |-> low, range |-> range, left |-> left, held |-> held, byte |-> byte, out |-> out, ctx |-> ctx]

EncoderRegisters ==
    [low : Nat, range : 64 .. 510, left : 12 .. 23, held : Nat, byte : 0 .. 255,
     out : Seq(0 .. 255), ctx : CoderContexts]

EncoderOk(e) ==
    /\ e \in EncoderRegisters
    /\ HeldBytesOk(e.held, e.byte, e.out)
    /\ e.low + e.range <= CarryLimit(e.held, e.byte, e.out) * 2 ^ (24 - e.left)

DecoderRegisters ==
    [value : Nat, range : 64 .. 510, needed : -8 .. -1, pos : Nat \ {0}, failed : BOOLEAN,
     ctx : CoderContexts]

ReadBits(d) == \E k \in Nat : d.value = k * 2 ^ (8 + d.needed)

DecoderOk(d) ==
    /\ d \in DecoderRegisters
    /\ ReadBits(d)
    /\ d.value < d.range * 128

----------------------------------------------------------------------------
(* Powers of two and division. *)

LEMMA PowerDoubles ==
  ASSUME NEW k \in 0 .. 31 PROVE 2 ^ k \in Nat \ {0} /\ 2 ^ (k + 1) = 2 * 2 ^ k
  <1>c0. CASE k = 0 BY <1>c0
  <1>c1. CASE k = 1 BY <1>c1
  <1>c2. CASE k = 2 BY <1>c2
  <1>c3. CASE k = 3 BY <1>c3
  <1>c4. CASE k = 4 BY <1>c4
  <1>c5. CASE k = 5 BY <1>c5
  <1>c6. CASE k = 6 BY <1>c6
  <1>c7. CASE k = 7 BY <1>c7
  <1>c8. CASE k = 8 BY <1>c8
  <1>c9. CASE k = 9 BY <1>c9
  <1>c10. CASE k = 10 BY <1>c10
  <1>c11. CASE k = 11 BY <1>c11
  <1>c12. CASE k = 12 BY <1>c12
  <1>c13. CASE k = 13 BY <1>c13
  <1>c14. CASE k = 14 BY <1>c14
  <1>c15. CASE k = 15 BY <1>c15
  <1>c16. CASE k = 16 BY <1>c16
  <1>c17. CASE k = 17 BY <1>c17
  <1>c18. CASE k = 18 BY <1>c18
  <1>c19. CASE k = 19 BY <1>c19
  <1>c20. CASE k = 20 BY <1>c20
  <1>c21. CASE k = 21 BY <1>c21
  <1>c22. CASE k = 22 BY <1>c22
  <1>c23. CASE k = 23 BY <1>c23
  <1>c24. CASE k = 24 BY <1>c24
  <1>c25. CASE k = 25 BY <1>c25
  <1>c26. CASE k = 26 BY <1>c26
  <1>c27. CASE k = 27 BY <1>c27
  <1>c28. CASE k = 28 BY <1>c28
  <1>c29. CASE k = 29 BY <1>c29
  <1>c30. CASE k = 30 BY <1>c30
  <1>c31. CASE k = 31 BY <1>c31
  <1> QED
    BY <1>c0, <1>c1, <1>c2, <1>c3, <1>c4, <1>c5, <1>c6, <1>c7, <1>c8, <1>c9, <1>c10,
       <1>c11, <1>c12, <1>c13, <1>c14, <1>c15, <1>c16, <1>c17, <1>c18, <1>c19,
      <1>c20, <1>c21, <1>c22, <1>c23, <1>c24, <1>c25, <1>c26, <1>c27, <1>c28, <1>c29,
      <1>c30, <1>c31

LEMMA PowersMultiply ==
  ASSUME NEW a \in 0 .. 24, NEW n \in 0 .. 8
  PROVE  2 ^ (a + n) = 2 ^ a * 2 ^ n /\ 2 ^ a \in Nat \ {0} /\ 2 ^ n \in 1 .. 256
  <1>a. PICK A : A = 2 ^ a OBVIOUS
  <1>b. a \in 0 .. 31 OBVIOUS
  <1>c. 2 ^ a \in Nat \ {0} /\ 2 ^ (a + 1) = 2 * 2 ^ a BY <1>b, PowerDoubles, Zenon
  <1>0. A \in Nat \ {0} BY <1>a, <1>c
  <1>1. 2 ^ (a + 0) = A * 1 /\ 2 ^ (a + 1) = A * 2
    <2>1. a + 0 = a OBVIOUS
    <2>2. 2 ^ (a + 0) = A BY <1>a, <2>1, Zenon
    <2> QED BY <1>a, <1>c, <1>0, <2>2
  <1>2. 2 ^ (a + 2) = A * 4
    <2>1. a + 1 \in 0 .. 31 /\ (a + 1) + 1 = a + 2 OBVIOUS
    <2>2. 2 ^ ((a + 1) + 1) = 2 * 2 ^ (a + 1) BY <2>1, PowerDoubles
    <2> QED BY <2>1, <2>2, <1>1, <1>0
  <1>3. 2 ^ (a + 3) = A * 8
    <2>1. a + 2 \in 0 .. 31 /\ (a + 2) + 1 = a + 3 OBVIOUS
    <2>2. 2 ^ ((a + 2) + 1) = 2 * 2 ^ (a + 2) BY <2>1, PowerDoubles
    <2> QED BY <2>1, <2>2, <1>2, <1>0
  <1>4. 2 ^ (a + 4) = A * 16
    <2>1. a + 3 \in 0 .. 31 /\ (a + 3) + 1 = a + 4 OBVIOUS
    <2>2. 2 ^ ((a + 3) + 1) = 2 * 2 ^ (a + 3) BY <2>1, PowerDoubles
    <2> QED BY <2>1, <2>2, <1>3, <1>0
  <1>5. 2 ^ (a + 5) = A * 32
    <2>1. a + 4 \in 0 .. 31 /\ (a + 4) + 1 = a + 5 OBVIOUS
    <2>2. 2 ^ ((a + 4) + 1) = 2 * 2 ^ (a + 4) BY <2>1, PowerDoubles
    <2> QED BY <2>1, <2>2, <1>4, <1>0
  <1>6. 2 ^ (a + 6) = A * 64
    <2>1. a + 5 \in 0 .. 31 /\ (a + 5) + 1 = a + 6 OBVIOUS
    <2>2. 2 ^ ((a + 5) + 1) = 2 * 2 ^ (a + 5) BY <2>1, PowerDoubles
    <2> QED BY <2>1, <2>2, <1>5, <1>0
  <1>7. 2 ^ (a + 7) = A * 128
    <2>1. a + 6 \in 0 .. 31 /\ (a + 6) + 1 = a + 7 OBVIOUS
    <2>2. 2 ^ ((a + 6) + 1) = 2 * 2 ^ (a + 6) BY <2>1, PowerDoubles
    <2> QED BY <2>1, <2>2, <1>6, <1>0
  <1>8. 2 ^ (a + 8) = A * 256
    <2>1. a + 7 \in 0 .. 31 /\ (a + 7) + 1 = a + 8 OBVIOUS
    <2>2. 2 ^ ((a + 7) + 1) = 2 * 2 ^ (a + 7) BY <2>1, PowerDoubles
    <2> QED BY <2>1, <2>2, <1>7, <1>0
  <1>c0. CASE n = 0 BY <1>c0, <1>a, <1>0, <1>1
  <1>c1. CASE n = 1 BY <1>c1, <1>a, <1>0, <1>1
  <1>c2. CASE n = 2 BY <1>c2, <1>a, <1>0, <1>2
  <1>c3. CASE n = 3 BY <1>c3, <1>a, <1>0, <1>3
  <1>c4. CASE n = 4 BY <1>c4, <1>a, <1>0, <1>4
  <1>c5. CASE n = 5 BY <1>c5, <1>a, <1>0, <1>5
  <1>c6. CASE n = 6 BY <1>c6, <1>a, <1>0, <1>6
  <1>c7. CASE n = 7 BY <1>c7, <1>a, <1>0, <1>7
  <1>c8. CASE n = 8 BY <1>c8, <1>a, <1>0, <1>8
  <1> QED BY <1>c0, <1>c1, <1>c2, <1>c3, <1>c4, <1>c5, <1>c6, <1>c7, <1>c8

(* For the back-ends: the exponent of the product is a name. *)
LEMMA PowersProduct ==
  ASSUME NEW a \in 0 .. 24, NEW n \in 0 .. 8, NEW c, c = a + n
  PROVE  2 ^ c = 2 ^ a * 2 ^ n /\ 2 ^ a \in Nat \ {0} /\ 2 ^ n \in 1 .. 256
  <1>1. 2 ^ (a + n) = 2 ^ a * 2 ^ n /\ 2 ^ a \in Nat \ {0} /\ 2 ^ n \in 1 .. 256
    BY PowersMultiply, ZenonT(60)
  <1> QED BY <1>1, Zenon

LEMMA ScaledLess ==
  ASSUME NEW a \in Nat, NEW b \in Nat, NEW p \in Nat, a <= b
  PROVE  a * p <= b * p /\ a * p \in Nat
  OBVIOUS

LEMMA Divides ==
  ASSUME NEW a \in Nat, NEW u \in Nat \ {0}
  PROVE  a \div u \in Nat /\ a % u \in 0 .. u - 1 /\ a = (a \div u) * u + (a % u)
  OBVIOUS

LEMMA QuotientBelow ==
  ASSUME NEW a \in Nat, NEW u \in Nat \ {0}, NEW m \in Nat, a < m * u
  PROVE  a \div u < m
  <1>1. PICK q : q = a \div u OBVIOUS
  <1>2. PICK r : r = a % u OBVIOUS
  <1>3. q \in Nat /\ r \in 0 .. u - 1 /\ a = q * u + r BY <1>1, <1>2, Divides
  <1>4. CASE q >= m
    <2>1. m * u <= q * u BY <1>3, <1>4, ScaledLess
    <2> QED BY <2>1, <1>3
  <1> QED BY <1>1, <1>3, <1>4

(* A byte more or less in m_Low. *)
LEMMA ByteOfLow ==
  ASSUME NEW left \in 4 .. 11
  PROVE  /\ 2 ^ (24 - (left + 8)) \in Nat /\ 2 ^ (24 - (left + 8)) >= 32
         /\ 2 ^ (24 - left) = 256 * 2 ^ (24 - (left + 8))
  <1>4. CASE left = 4 BY <1>4
  <1>5. CASE left = 5 BY <1>5
  <1>6. CASE left = 6 BY <1>6
  <1>7. CASE left = 7 BY <1>7
  <1>8. CASE left = 8 BY <1>8
  <1>9. CASE left = 9 BY <1>9
  <1>10. CASE left = 10 BY <1>10
  <1>11. CASE left = 11 BY <1>11
  <1> QED BY <1>4, <1>5, <1>6, <1>7, <1>8, <1>9, <1>10, <1>11

LEMMA RepeatedBytes ==
  ASSUME NEW b \in 0 .. 255, NEW n \in Nat
  PROVE  Repeated(b, n) \in Seq(0 .. 255)
  <1>1. \A k \in 1 .. n : b \in 0 .. 255 OBVIOUS
  <1>2. [k \in 1 .. n |-> b] \in Seq(0 .. 255) BY <1>1, IsASeq
  <1> QED BY <1>2 DEF Repeated

LEMMA BytesFollow ==
  ASSUME NEW out \in Seq(0 .. 255), NEW b \in 0 .. 255, NEW s \in Seq(0 .. 255)
  PROVE  LET t == out \o <<b>> \o s
         IN  /\ t \in Seq(0 .. 255) /\ t # <<>>
             /\ t[1] = IF out = <<>> THEN b ELSE out[1]
  <1>1. <<b>> \in Seq(0 .. 255) /\ Len(<<b>>) = 1 /\ <<b>>[1] = b OBVIOUS
  <1>2. PICK o : o = out \o <<b>> OBVIOUS
  <1>3. o \in Seq(0 .. 255) /\ Len(o) = Len(out) + 1 /\ \A k \in 1 .. Len(out) + 1 :
            o[k] = IF k <= Len(out) THEN out[k] ELSE <<b>>[k - Len(out)]
    BY <1>1, <1>2, ConcatProperties
  <1>4. o[1] = IF out = <<>> THEN b ELSE out[1]
    <2>1. PICK m : m = Len(out) OBVIOUS
    <2>2. m \in Nat /\ (m = 0 <=> out = <<>>) BY <2>1, EmptySeq
    <2>3. CASE m = 0 BY <1>1, <1>3, <2>1, <2>2, <2>3
    <2>4. CASE m > 0 BY <1>1, <1>3, <2>1, <2>2, <2>4
    <2> QED BY <2>2, <2>3, <2>4
  <1>5. PICK t : t = o \o s OBVIOUS
  <1>6. t \in Seq(0 .. 255) /\ Len(t) = Len(o) + Len(s) /\ \A k \in 1 .. Len(o) + Len(s) :
            t[k] = IF k <= Len(o) THEN o[k] ELSE s[k - Len(o)]
    BY <1>3, <1>5, ConcatProperties
  <1>7. Len(out) \in Nat /\ Len(s) \in Nat OBVIOUS
  <1>8. t[1] = o[1] /\ Len(t) > 0 BY <1>3, <1>6, <1>7
  <1>9. t # <<>> BY <1>8
  <1> QED BY <1>2, <1>4, <1>5, <1>6, <1>8, <1>9, Zenon

(* The record of the encoder, field by field. *)
LEMMA EncoderFields ==
  ASSUME NEW low, NEW range, NEW left, NEW held, NEW byte, NEW out, NEW ctx,
         NEW e, e = Encoder(low, range, left, held, byte, out, ctx)
  PROVE  e.low = low /\ e.range = range /\ e.left = left /\ e.held = held /\ e.byte = byte
         /\ e.out = out /\ e.ctx = ctx
  BY DEF Encoder

LEMMA EncoderIsRecord ==
  ASSUME NEW e \in EncoderRegisters
  PROVE  /\ e = Encoder(e.low, e.range, e.left, e.held, e.byte, e.out, e.ctx)
         /\ e.low \in Nat /\ e.range \in 64 .. 510 /\ e.left \in 12 .. 23 /\ e.held \in Nat
         /\ e.byte \in 0 .. 255 /\ e.out \in Seq(0 .. 255) /\ e.ctx \in CoderContexts
  BY DEF EncoderRegisters, Encoder

EncoderParts(low, range, left, held, byte, out, ctx, w) ==
    /\ low \in Nat /\ range \in 64 .. 510 /\ left \in 12 .. 23 /\ held \in Nat
    /\ byte \in 0 .. 255 /\ out \in Seq(0 .. 255) /\ ctx \in CoderContexts
    /\ HeldBytesOk(held, byte, out) /\ w = 2 ^ (24 - left)
    /\ low + range <= CarryLimit(held, byte, out) * w

LEMMA EncoderOkIs ==
  ASSUME NEW low, NEW range, NEW left, NEW held, NEW byte, NEW out, NEW ctx, NEW w,
         EncoderParts(low, range, left, held, byte, out, ctx, w)
  PROVE  EncoderOk(Encoder(low, range, left, held, byte, out, ctx))
  <1>1. PICK e : e = Encoder(low, range, left, held, byte, out, ctx) OBVIOUS
  <1>2. e \in EncoderRegisters BY <1>1 DEF Encoder, EncoderRegisters, EncoderParts
  <1>3. /\ e.low = low /\ e.range = range /\ e.left = left
        /\ e.held = held /\ e.byte = byte /\ e.out = out
    BY <1>1, Zenon DEF Encoder
  <1>4. HeldBytesOk(e.held, e.byte, e.out) BY <1>3, Zenon DEF EncoderParts
  <1>5. e.low + e.range <= CarryLimit(e.held, e.byte, e.out) * 2 ^ (24 - e.left)
    BY <1>3, Zenon DEF EncoderParts
  <1> QED BY <1>1, <1>2, <1>4, <1>5, Zenon DEF EncoderOk

(* What writeOut does with each value of the byte that leaves m_Low. *)
WrittenOut(low, range, left, held, byte, out, ctx) ==
    LET lead == low \div 2 ^ (24 - left)
        rem  == low % 2 ^ (24 - left)
        e    == Encoder(low, range, left, held, byte, out, ctx)
    IN  /\ lead = 255 => WriteOut(e) = Encoder(rem, range, left + 8, held + 1, byte, out, ctx)
        /\ lead # 255 /\ held = 0 => WriteOut(e) = Encoder(rem, range, left + 8, 1, lead, out, ctx)
        /\ lead # 255 /\ held # 0 =>
             WriteOut(e) = Encoder(rem, range, left + 8, 1, lead % 256,
                 out \o <<byte + lead \div 256>> \o Repeated((255 + lead \div 256) % 256, held - 1), ctx)

LEMMA WriteOutIs ==
  ASSUME NEW low, NEW range, NEW left, NEW held, NEW byte, NEW out, NEW ctx
  PROVE  WrittenOut(low, range, left, held, byte, out, ctx)
  <1>a. PICK lead : lead = low \div 2 ^ (24 - left) OBVIOUS
  <1>b. PICK rem : rem = low % 2 ^ (24 - left) OBVIOUS
  <1>d. PICK n : n = left + 8 OBVIOUS
  <1>1. PICK e : e = Encoder(low, range, left, held, byte, out, ctx) OBVIOUS
  <1>2. e.low = low /\ e.left = left /\ e.held = held /\ e.byte = byte /\ e.out = out
    BY <1>1, EncoderFields
  <1>3. PICK rest : rest = [e EXCEPT !.left = @ + 8, !.low = @ % 2 ^ (24 - e.left)] OBVIOUS
  <1>4. rest = Encoder(rem, range, n, held, byte, out, ctx)
    <2>1. PICK x : x = n OBVIOUS
    <2>2. PICK f : f = [e EXCEPT !.left = x] OBVIOUS
    <2>3. f = Encoder(low, range, x, held, byte, out, ctx) BY <1>1, <2>2 DEF Encoder
    <2>4. PICK g : g = [f EXCEPT !.low = rem] OBVIOUS
    <2>5. g = Encoder(rem, range, x, held, byte, out, ctx) BY <2>3, <2>4 DEF Encoder
    <2>6. e.left + 8 = x /\ e.low % 2 ^ (24 - e.left) = rem
      BY <1>2, <1>b, <1>d, <2>1, Zenon
    <2>7. rest = g BY <1>3, <2>2, <2>4, <2>6, Zenon
    <2> QED BY <2>1, <2>5, <2>7
  <1>5. rest.held = held /\ rest.out = out BY <1>4, EncoderFields
  <1>6. e.low \div 2 ^ (24 - e.left) = lead BY <1>2, <1>a, Zenon
  <1>7. PICK c : c = lead \div 256 OBVIOUS
  <1>8. PICK t : t = out \o <<byte + c>> \o Repeated((255 + c) % 256, held - 1) OBVIOUS
  <1>9. lead = 255 => WriteOut(e) = Encoder(rem, range, n, held + 1, byte, out, ctx)
    <2> SUFFICES ASSUME lead = 255 PROVE WriteOut(e) = Encoder(rem, range, n, held + 1, byte, out, ctx)
      OBVIOUS
    <2>1. PICK h : h = held + 1 OBVIOUS
    <2>2. WriteOut(e) = [rest EXCEPT !.held = h]
      BY <1>3, <1>5, <1>6, <2>1, Zenon DEF WriteOut
    <2>3. [rest EXCEPT !.held = h] = Encoder(rem, range, n, h, byte, out, ctx)
      BY <1>4 DEF Encoder
    <2> QED BY <2>1, <2>2, <2>3, Zenon
  <1>10. lead # 255 /\ held = 0 => WriteOut(e) = Encoder(rem, range, n, 1, lead, out, ctx)
    <2> SUFFICES ASSUME lead # 255 /\ held = 0 PROVE WriteOut(e) = Encoder(rem, range, n, 1, lead, out, ctx)
      OBVIOUS
    <2>1. PICK f : f = [rest EXCEPT !.held = 1] OBVIOUS
    <2>2. f = Encoder(rem, range, n, 1, byte, out, ctx) BY <1>4, <2>1 DEF Encoder
    <2>3. WriteOut(e) = [f EXCEPT !.byte = lead]
      BY <1>2, <1>3, <1>6, <2>1, Zenon DEF WriteOut
    <2>4. [f EXCEPT !.byte = lead] = Encoder(rem, range, n, 1, lead, out, ctx)
      BY <2>2 DEF Encoder
    <2> QED BY <2>3, <2>4, Zenon
  <1>11. lead # 255 /\ held # 0 => WriteOut(e) = Encoder(rem, range, n, 1, lead % 256, t, ctx)
    <2> SUFFICES ASSUME lead # 255 /\ held # 0
                 PROVE  WriteOut(e) = Encoder(rem, range, n, 1, lead % 256, t, ctx)
      OBVIOUS
    <2>1. PICK f : f = [rest EXCEPT !.out = t] OBVIOUS
    <2>2. f = Encoder(rem, range, n, held, byte, t, ctx) BY <1>4, <2>1 DEF Encoder
    <2>3. PICK b : b = lead % 256 OBVIOUS
    <2>4. PICK g : g = [f EXCEPT !.byte = b] OBVIOUS
    <2>5. g = Encoder(rem, range, n, held, b, t, ctx) BY <2>2, <2>4 DEF Encoder
    <2>6. t = rest.out \o <<e.byte + c>> \o Repeated((255 + c) % 256, e.held - 1)
      BY <1>2, <1>5, <1>8, Zenon
    <2>7. WriteOut(e) = [g EXCEPT !.held = 1]
      BY <1>2, <1>3, <1>6, <1>7, <2>1, <2>3, <2>4, <2>6, Zenon DEF WriteOut
    <2>8. [g EXCEPT !.held = 1] = Encoder(rem, range, n, 1, b, t, ctx)
      BY <2>5 DEF Encoder
    <2> QED BY <2>3, <2>7, <2>8, Zenon
  <1>12. t = out \o <<byte + lead \div 256>> \o Repeated((255 + lead \div 256) % 256, held - 1)
    BY <1>7, <1>8, Zenon
  <1> QED
    BY <1>a, <1>b, <1>d, <1>1, <1>9, <1>10, <1>11, <1>12, ZenonT(40) DEF WrittenOut

DueByte(lead) == lead \in 0 .. 511 /\ lead # 255
HeldPart(lead) == lead % 256 \in 0 .. 255 /\ (lead % 256 = 255 => lead = 511)

LEMMA HeldPartOfDueByte ==
  ASSUME NEW lead, DueByte(lead)
  PROVE  HeldPart(lead)
  <1>1. lead \in 0 .. 511 BY DEF DueByte
  <1>2. lead # 255 BY DEF DueByte
  <1>3. lead % 256 \in 0 .. 255 BY <1>1
  <1>4. lead % 256 = 255 => lead = 511 BY <1>1, <1>2
  <1> QED BY <1>3, <1>4 DEF HeldPart

(* Fewer than 12 bits are left: a byte has to leave m_Low. *)
ByteIsDue(low, range, left, held, byte, out, ctx) ==
    /\ low \in Nat /\ range \in 64 .. 510 /\ left \in 4 .. 11 /\ held \in Nat
    /\ byte \in 0 .. 255 /\ out \in Seq(0 .. 255) /\ ctx \in CoderContexts
    /\ HeldBytesOk(held, byte, out)
    /\ low + range <= CarryLimit(held, byte, out) * 2 ^ (24 - left)

(* writeOut leaves the bytes and the interval as they have to be. *)
LEMMA WriteOutKeeps ==
  ASSUME NEW low, NEW range, NEW left, NEW held, NEW byte, NEW out, NEW ctx,
         ByteIsDue(low, range, left, held, byte, out, ctx)
  PROVE  LET r == WriteOut(Encoder(low, range, left, held, byte, out, ctx))
         IN  EncoderOk(r) /\ r.range = range
  <1>0. /\ low \in Nat /\ range \in 64 .. 510 /\ left \in 4 .. 11 /\ held \in Nat
        /\ byte \in 0 .. 255 /\ out \in Seq(0 .. 255) /\ ctx \in CoderContexts
        /\ HeldBytesOk(held, byte, out)
    BY DEF ByteIsDue
  <1>b. low + range <= CarryLimit(held, byte, out) * 2 ^ (24 - left) BY DEF ByteIsDue
  <1> USE <1>0
  <1>1. PICK lead : lead = low \div 2 ^ (24 - left) OBVIOUS
  <1>2. PICK rem : rem = low % 2 ^ (24 - left) OBVIOUS
  <1>3. PICK l : l = CarryLimit(held, byte, out) OBVIOUS
  <1>4. l \in {255, 256, 512} BY <1>3 DEF CarryLimit
  <1>5. PICK n : n = left + 8 OBVIOUS
  <1>6. PICK w : w = 2 ^ (24 - n) OBVIOUS
  <1>6a. PICK u : u = 2 ^ (24 - left) OBVIOUS
  <1>6b. u \in Nat \ {0} /\ u >= 8192 /\ u = 256 * w /\ w \in Nat
    <2>1. 24 - n = 24 - (left + 8) BY <1>5
    <2>2. w = 2 ^ (24 - (left + 8)) BY <1>6, <2>1, Zenon
    <2>3. w \in Nat /\ w >= 32 /\ u = 256 * w BY <1>6a, <2>2, ByteOfLow, Zenon
    <2> QED BY <2>3
  <1>7. /\ lead \in 0 .. l - 1 /\ rem \in Nat
        /\ rem + range <= 512 * w
        /\ lead = l - 1 => rem + range <= 256 * w
    <2>1. lead = low \div u /\ rem = low % u BY <1>1, <1>2, <1>6a, Zenon
    <2>2. lead \in Nat /\ rem \in 0 .. u - 1 /\ low = lead * u + rem
      <3>1. u \in Nat \ {0} BY <1>6b
      <3>2. low \div u \in Nat /\ low % u \in 0 .. u - 1 /\ low = (low \div u) * u + (low % u)
        BY <3>1, Divides, Zenon
      <3> QED BY <2>1, <3>2, Zenon
    <2>3. low + range <= l * u BY <1>b, <1>3, <1>6a
    <2>4. low < l * u BY <1>4, <1>6b, <2>3
    <2>5. lead < l
      <3>1. l \in Nat /\ u \in Nat \ {0} BY <1>4, <1>6b
      <3>2. low \div u < l BY <2>4, <3>1, QuotientBelow, Zenon
      <3> QED BY <2>1, <3>2, Zenon
    <2>6. rem + range <= 512 * w BY <1>6b, <2>2
    <2>7. lead = l - 1 => rem + range <= 256 * w
      <3> SUFFICES ASSUME lead = l - 1 PROVE rem + range <= 256 * w OBVIOUS
      <3>1. low = (l - 1) * u + rem BY <2>2
      <3>2. CASE l = 255 BY <1>6b, <2>2, <2>3, <3>1, <3>2
      <3>3. CASE l = 256 BY <1>6b, <2>2, <2>3, <3>1, <3>3
      <3>4. CASE l = 512 BY <1>6b, <2>2, <2>3, <3>1, <3>4
      <3> QED BY <1>4, <3>2, <3>3, <3>4
    <2> QED BY <1>4, <2>2, <2>5, <2>6, <2>7
  <1>8. n \in 12 .. 23 BY <1>5
  <1>9. w \in Nat BY <1>6b
  <1>9b. PICK e : e = Encoder(low, range, left, held, byte, out, ctx) OBVIOUS
  <1>10. PICK r : r = WriteOut(e) OBVIOUS
  <1>11. /\ lead = 255 => r = Encoder(rem, range, n, held + 1, byte, out, ctx)
         /\ lead # 255 /\ held = 0 => r = Encoder(rem, range, n, 1, lead, out, ctx)
         /\ lead # 255 /\ held # 0 =>
              r = Encoder(rem, range, n, 1, lead % 256,
                  out \o <<byte + lead \div 256>> \o Repeated((255 + lead \div 256) % 256, held - 1), ctx)
    <2>1. WrittenOut(low, range, left, held, byte, out, ctx) BY WriteOutIs, Zenon
    <2> QED BY <1>1, <1>2, <1>5, <1>9b, <1>10, <2>1, ZenonT(60) DEF WrittenOut
  <1>12. SUFFICES EncoderOk(r) /\ r.range = range BY <1>9b, <1>10, Zenon
  <1>13. CASE lead = 255
    <2>1. PICK h : h = held + 1 OBVIOUS
    <2>2. r = Encoder(rem, range, n, h, byte, out, ctx) BY <1>11, <1>13, <2>1
    <2>3. held > 0 /\ l # 255 BY <1>3, <1>7, <1>13 DEF CarryLimit
    <2>4. h \in Nat /\ h > 0 BY <2>1
    <2>5. HeldBytesOk(h, byte, out) BY <2>3, <2>4 DEF HeldBytesOk
    <2>6. CarryLimit(h, byte, out) = l BY <1>3, <2>3, <2>4 DEF CarryLimit
    <2>7. rem + range <= l * w
      <3>1. l = 256 \/ l = 512 BY <1>4, <2>3
      <3> QED BY <1>7, <1>9, <1>13, <3>1
    <2>8. rem + range <= CarryLimit(h, byte, out) * w BY <2>6, <2>7
    <2>9. EncoderOk(r)
      <3>1. EncoderParts(rem, range, n, h, byte, out, ctx, w)
        BY <1>6, <1>7, <1>8, <2>2, <2>4, <2>5, <2>8, Zenon DEF EncoderParts
      <3> QED BY <2>2, <3>1, EncoderOkIs, Zenon
    <2> QED BY <2>2, <2>9, EncoderFields
  <1>14. CASE lead # 255 /\ held = 0
    <2>1. r = Encoder(rem, range, n, 1, lead, out, ctx) BY <1>11, <1>14
    <2>2. l = 255 /\ out = <<>> BY <1>3, <1>14 DEF CarryLimit, HeldBytesOk
    <2>3. lead \in 0 .. 254 BY <1>7, <2>2
    <2>4. HeldBytesOk(1, lead, out) BY <2>2, <2>3 DEF HeldBytesOk
    <2>5. CarryLimit(1, lead, out) = IF lead = 254 THEN 256 ELSE 512
      BY <2>2, <2>3 DEF CarryLimit
    <2>6. rem + range <= CarryLimit(1, lead, out) * w
      <3>1. CASE lead = 254 BY <1>7, <1>9, <2>2, <2>5, <3>1
      <3>2. CASE lead # 254 BY <1>7, <1>9, <2>5, <3>2
      <3> QED BY <3>1, <3>2
    <2>7. lead \in 0 .. 255 BY <2>3
    <2>8. EncoderOk(r)
      <3>1. EncoderParts(rem, range, n, 1, lead, out, ctx, w)
        BY <1>6, <1>7, <1>8, <2>1, <2>4, <2>6, <2>7, Zenon DEF EncoderParts
      <3> QED BY <2>1, <3>1, EncoderOkIs, Zenon
    <2> QED BY <2>1, <2>8, EncoderFields
  <1>15. CASE lead # 255 /\ held # 0
    <2>1. PICK c : c = lead \div 256 OBVIOUS
    <2>2. PICK f : f = (255 + c) % 256 OBVIOUS
    <2>3. PICK s : s = Repeated(f, held - 1) OBVIOUS
    <2>4. PICK o : o = byte + c OBVIOUS
    <2>5. PICK t : t = out \o <<o>> \o s OBVIOUS
    <2>6. PICK b : b = lead % 256 OBVIOUS
    <2>7. r = Encoder(rem, range, n, 1, b, t, ctx)
      BY <1>11, <1>15, <2>1, <2>2, <2>3, <2>4, <2>5, <2>6, Zenon
    <2>8. c \in 0 .. 1 /\ (l = 256 => c = 0) /\ l # 255
      <3>1. l # 255 BY <1>3, <1>15 DEF CarryLimit
      <3> QED BY <1>4, <1>7, <2>1, <3>1
    <2>9. s \in Seq(0 .. 255)
      <3>1. f \in 0 .. 255 /\ held - 1 \in Nat BY <1>15, <2>2, <2>8
      <3> QED BY <2>3, <3>1, RepeatedBytes
    <2>10. out = <<>> => byte <= 254 BY <1>15 DEF HeldBytesOk
    <2>11. o \in 0 .. 255 /\ (out = <<>> => o <= 254)
      <3>1. CASE l = 256 BY <2>4, <2>8, <2>10, <3>1
      <3>2. CASE l = 512
        <4>1. byte # 255 /\ (out = <<>> => byte # 254)
          BY <1>3, <1>15, <3>2 DEF CarryLimit
        <4> QED BY <2>4, <2>8, <2>10, <4>1
      <3> QED BY <1>4, <2>8, <3>1, <3>2
    <2>12. t \in Seq(0 .. 255) /\ t # <<>> /\ t[1] = IF out = <<>> THEN o ELSE out[1]
      BY <2>5, <2>9, <2>11, BytesFollow, ZenonT(40)
    <2>13. out # <<>> => out[1] <= 254 BY DEF HeldBytesOk
    <2>14. t[1] <= 254 BY <2>11, <2>12, <2>13
    <2>15. b \in 0 .. 255 /\ (b = 255 => lead = 511)
      <3>1. lead \in 0 .. 511 BY <1>4, <1>7
      <3>2. lead # 255 BY <1>15
      <3>3. lead % 256 \in 0 .. 255 /\ (lead % 256 = 255 => lead = 511) 
        <4>1. DueByte(lead) BY <3>1, <3>2 DEF DueByte
        <4>2. HeldPart(lead) BY <4>1, HeldPartOfDueByte, Zenon
        <4> QED BY <4>2 DEF HeldPart
      <3> QED BY <2>6, <3>3
    <2>16. HeldBytesOk(1, b, t) BY <2>12, <2>14 DEF HeldBytesOk
    <2>17. CarryLimit(1, b, t) = IF b = 255 THEN 256 ELSE 512 BY <2>12 DEF CarryLimit
    <2>18. rem + range <= CarryLimit(1, b, t) * w
      <3>1. CASE b = 255
        <4>1. lead = l - 1 BY <1>4, <1>7, <2>15, <3>1
        <4> QED BY <1>7, <2>17, <3>1, <4>1
      <3>2. CASE b # 255 BY <1>7, <2>17, <3>2
      <3> QED BY <3>1, <3>2
    <2>19. EncoderOk(r)
      <3>1. r \in EncoderRegisters
        BY <1>7, <1>8, <2>7, <2>12, <2>15 DEF Encoder, EncoderRegisters
      <3>2. r.low = rem /\ r.range = range /\ r.left = n /\ r.held = 1 /\ r.byte = b /\ r.out = t
        BY <2>7, EncoderFields
      <3>3. HeldBytesOk(r.held, r.byte, r.out) BY <2>16, <3>2
      <3>4. r.low + r.range <= CarryLimit(r.held, r.byte, r.out) * 2 ^ (24 - r.left)
        BY <1>6, <2>18, <3>2
      <3> QED BY <3>1, <3>3, <3>4, Zenon DEF EncoderOk
    <2> QED BY <2>7, <2>19, EncoderFields
  <1> QED BY <1>13, <1>14, <1>15, Zenon

IntervalEnd(e) == CarryLimit(e.held, e.byte, e.out) * 2 ^ (24 - e.left)

(* Putting n bits below m_Low keeps the interval, scaled, and the bytes.   *)
LEMMA PutKeeps ==
  ASSUME NEW e \in EncoderRegisters, HeldBytesOk(e.held, e.byte, e.out),
         NEW n \in 0 .. 8, NEW v \in Nat,
         e.low * 2 ^ n + v + e.range <= IntervalEnd(e) * 2 ^ n
  PROVE  EncoderOk(Put(e, v, n)) /\ Put(e, v, n).range = e.range
  <1>1. PICK low : low = e.low OBVIOUS
  <1>2. PICK range : range = e.range OBVIOUS
  <1>3. PICK left : left = e.left OBVIOUS
  <1>4. PICK held : held = e.held OBVIOUS
  <1>5. PICK byte : byte = e.byte OBVIOUS
  <1>6. PICK out : out = e.out OBVIOUS
  <1>7. PICK ctx : ctx = e.ctx OBVIOUS
  <1>8. /\ e = Encoder(low, range, left, held, byte, out, ctx)
        /\ low \in Nat /\ range \in 64 .. 510 /\ left \in 12 .. 23 /\ held \in Nat
        /\ byte \in 0 .. 255 /\ out \in Seq(0 .. 255) /\ ctx \in CoderContexts
    <2>1. e = Encoder(e.low, e.range, e.left, e.held, e.byte, e.out, e.ctx)
      BY EncoderIsRecord, Zenon
    <2>2. /\ e.low \in Nat /\ e.range \in 64 .. 510 /\ e.left \in 12 .. 23 /\ e.held \in Nat
          /\ e.byte \in 0 .. 255 /\ e.out \in Seq(0 .. 255) /\ e.ctx \in CoderContexts
      BY DEF EncoderRegisters
    <2>3. e = Encoder(low, range, left, held, byte, out, ctx)
      BY <1>1, <1>2, <1>3, <1>4, <1>5, <1>6, <1>7, <2>1, Zenon
    <2> QED BY <1>1, <1>2, <1>3, <1>4, <1>5, <1>6, <1>7, <2>2, <2>3
  <1>9. PICK l : l = CarryLimit(held, byte, out) OBVIOUS
  <1>10. l \in Nat BY <1>9 DEF CarryLimit
  <1>11. PICK p : p = 2 ^ n OBVIOUS
  <1>12. PICK u : u = 2 ^ (24 - left) OBVIOUS
  <1>13. PICK m : m = left - n OBVIOUS
  <1>14. PICK w : w = 2 ^ (24 - m) OBVIOUS
  <1>15. p \in Nat \ {0} /\ u \in Nat \ {0} /\ w = u * p
    <2>1. PICK a : a = 24 - left OBVIOUS
    <2>2. PICK b : b = 24 - m OBVIOUS
    <2>3. a \in 0 .. 24 /\ b = a + n BY <1>8, <1>13, <2>1, <2>2
    <2>4. 2 ^ b = 2 ^ a * 2 ^ n /\ 2 ^ a \in Nat \ {0} /\ 2 ^ n \in 1 .. 256
      BY <2>3, PowersProduct
    <2>5. u = 2 ^ a /\ w = 2 ^ b BY <1>12, <1>14, <2>1, <2>2, Zenon
    <2> QED BY <1>11, <2>4, <2>5
  <1>16. PICK low2 : low2 = low * p + v OBVIOUS
  <1>17. low2 \in Nat
    <2>1. low * p \in Nat BY <1>8, <1>15
    <2> QED BY <1>16, <2>1
  <1>18. low2 + range <= l * w
    <2>1. e.low * 2 ^ n + v + e.range = low2 + range BY <1>1, <1>2, <1>11, <1>16
    <2>2. IntervalEnd(e) = l * u
      BY <1>3, <1>4, <1>5, <1>6, <1>9, <1>12, Zenon DEF IntervalEnd
    <2>3. low2 + range <= (l * u) * p BY <1>11, <2>1, <2>2
    <2>4. (l * u) * p = l * w BY <1>10, <1>15
    <2> QED BY <2>3, <2>4
  <1>19. PICK put : put = [e EXCEPT !.low = @ * 2 ^ n + v, !.left = @ - n] OBVIOUS
  <1>20. put = Encoder(low2, range, m, held, byte, out, ctx)
    <2>1. PICK f : f = [e EXCEPT !.low = low2] OBVIOUS
    <2>2. f = Encoder(low2, range, left, held, byte, out, ctx) BY <1>8, <2>1 DEF Encoder
    <2>3. PICK g : g = [f EXCEPT !.left = m] OBVIOUS
    <2>4. g = Encoder(low2, range, m, held, byte, out, ctx) BY <2>2, <2>3 DEF Encoder
    <2>5. e.low * 2 ^ n + v = low2 /\ e.left - n = m
      BY <1>1, <1>3, <1>11, <1>13, <1>16, Zenon
    <2>6. put = g BY <1>19, <2>1, <2>3, <2>5, Zenon
    <2> QED BY <2>4, <2>6
  <1>21. put.left = m BY <1>20, EncoderFields
  <1>22. m \in 4 .. 23 BY <1>8, <1>13
  <1>23. HeldBytesOk(held, byte, out) BY <1>4, <1>5, <1>6, Zenon
  <1>24. CASE m < 12
    <2>1. Put(e, v, n) = WriteOut(put) BY <1>19, <1>21, <1>24, Zenon DEF Put
    <2>2. m \in 4 .. 11 BY <1>22, <1>24
    <2>3. low2 + range <= CarryLimit(held, byte, out) * 2 ^ (24 - m)
      BY <1>9, <1>14, <1>18
    <2>4. PICK r : r = WriteOut(Encoder(low2, range, m, held, byte, out, ctx)) OBVIOUS
    <2>4a. ByteIsDue(low2, range, m, held, byte, out, ctx)
      BY <1>8, <1>17, <1>23, <2>2, <2>3, Zenon DEF ByteIsDue
    <2>5. EncoderOk(r) /\ r.range = range BY <2>4, <2>4a, WriteOutKeeps
    <2> QED BY <1>2, <1>20, <2>1, <2>4, <2>5, Zenon
  <1>25. CASE ~(m < 12)
    <2>1. Put(e, v, n) = put BY <1>19, <1>21, <1>25, Zenon DEF Put
    <2>2. m \in 12 .. 23 BY <1>22, <1>25
    <2>3. put \in EncoderRegisters
      BY <1>8, <1>17, <1>20, <2>2 DEF Encoder, EncoderRegisters
    <2>4. put.low = low2 /\ put.range = range /\ put.held = held /\ put.byte = byte /\ put.out = out
      BY <1>20, EncoderFields
    <2>5. HeldBytesOk(put.held, put.byte, put.out) BY <1>23, <2>4, Zenon
    <2>6. put.low + put.range <= CarryLimit(put.held, put.byte, put.out) * 2 ^ (24 - put.left)
      BY <1>9, <1>14, <1>18, <1>21, <2>4
    <2>7. EncoderOk(put) BY <2>3, <2>5, <2>6, Zenon DEF EncoderOk
    <2> QED BY <1>2, <2>1, <2>4, <2>7, Zenon
  <1> QED BY <1>24, <1>25

----------------------------------------------------------------------------
(* Bins with a context.                                                    *)

(* The two estimates stay probabilities of 15 bits. *)
LEMMA EstimateMoves ==
  ASSUME NEW s \in Estimates, NEW bin
  PROVE  Moved(s, bin, 2) \in Estimates /\ Moved(s, bin, 5) \in Estimates
  <1>1. s \in Nat /\ s <= 32767 BY DEF Estimates
  <1>2. Moved(s, bin, 2) = s - s \div 4 + (IF bin = 1 THEN 8191 ELSE 0)
    <2>1. 2 ^ 2 = 4 /\ 32767 \div 4 = 8191 OBVIOUS
    <2> QED BY <2>1 DEF Moved
  <1>3. Moved(s, bin, 5) = s - s \div 32 + (IF bin = 1 THEN 1023 ELSE 0)
    <2>1. 2 ^ 5 = 32 /\ 32767 \div 32 = 1023 OBVIOUS
    <2> QED BY <2>1 DEF Moved
  <1>4. PICK a : a = Moved(s, bin, 2) OBVIOUS
  <1>5. PICK b : b = Moved(s, bin, 5) OBVIOUS
  <1>6. a \in Nat /\ a <= 32767
    <2>1. CASE bin = 1 BY <1>1, <1>2, <1>4, <2>1
    <2>2. CASE bin # 1 BY <1>1, <1>2, <1>4, <2>2
    <2> QED BY <2>1, <2>2
  <1>7. b \in Nat /\ b <= 32767
    <2>1. CASE bin = 1 BY <1>1, <1>3, <1>5, <2>1
    <2>2. CASE bin # 1 BY <1>1, <1>3, <1>5, <2>2
    <2> QED BY <2>1, <2>2
  <1> QED BY <1>4, <1>5, <1>6, <1>7 DEF Estimates

LEMMA ContextMoves ==
  ASSUME NEW c \in CoderContexts, NEW bin
  PROVE  Updated(c, bin) \in CoderContexts
  <1>1. c.s0 \in Estimates /\ c.s1 \in Estimates BY DEF CoderContexts
  <1>2. Rates[1] = 2 /\ Rates[2] = 5 BY DEF Rates
  <1>3. PICK a : a = Moved(c.s0, bin, 2) OBVIOUS
  <1>4. PICK b : b = Moved(c.s1, bin, 5) OBVIOUS
  <1>5. a \in Estimates /\ b \in Estimates BY <1>1, <1>3, <1>4, EstimateMoves
  <1>6. Updated(c, bin) = [s0 |-> a, s1 |-> b] BY <1>2, <1>3, <1>4 DEF Updated
  <1> QED BY <1>5, <1>6 DEF CoderContexts

LEMMA StateBound ==
  ASSUME NEW c \in CoderContexts
  PROVE  State(c) \in Estimates /\ Mps(c) \in 0 .. 1
  <1>1. PICK a : a = c.s0 OBVIOUS
  <1>2. PICK b : b = c.s1 OBVIOUS
  <1>3. a \in Estimates /\ b \in Estimates BY <1>1, <1>2 DEF CoderContexts
  <1>4. a \in Nat /\ a <= 32767 /\ b \in Nat /\ b <= 32767 BY <1>3 DEF Estimates
  <1>5. PICK s : s = State(c) OBVIOUS
  <1>6. s = (a * 16 + b * 16) \div 32 BY <1>1, <1>2, <1>5 DEF State
  <1>7. s \in Nat /\ s <= 32767 BY <1>4, <1>6
  <1>8. 2 ^ 14 = 16384 OBVIOUS
  <1>9. Mps(c) = s \div 16384 BY <1>5, <1>8 DEF Mps
  <1>10. s \in Estimates BY <1>7 DEF Estimates
  <1>11. s \div 16384 \in 0 .. 1 BY <1>7
  <1> QED BY <1>5, <1>9, <1>10, <1>11

(* The least probable symbol takes something and leaves at least 32.       *)
LEMMA LpsBound ==
  ASSUME NEW c \in CoderContexts, NEW range \in 64 .. 510
  PROVE  Lps(c, range) \in 1 .. 255 /\ Lps(c, range) <= range - 32
  <1>1. PICK s : s = State(c) OBVIOUS
  <1>1a. s \in Estimates BY <1>1, StateBound
  <1>1b. s \in Nat /\ s <= 32767 BY <1>1a DEF Estimates
  <1>2. 2 ^ 14 = 16384 OBVIOUS
  <1>3. PICK q : q = IF s \div 16384 = 1 THEN 32767 - s ELSE s OBVIOUS
  <1>4. q \in Nat /\ q <= 16383
    <2>1. CASE s >= 16384
      <3>1. s \div 16384 = 1 BY <1>1b, <2>1
      <3> QED BY <1>1b, <1>3, <2>1, <3>1
    <2>2. CASE s < 16384
      <3>1. s \div 16384 = 0 BY <1>1b, <2>2
      <3> QED BY <1>1b, <1>3, <2>2, <3>1
    <2> QED BY <1>1b, <2>1, <2>2
  <1>5. Lps(c, range) = (range * (q \div 64)) \div 512 + 1 BY <1>1, <1>2, <1>3 DEF Lps
  <1>6. PICK x : x = q \div 64 OBVIOUS
  <1>7. x \in 0 .. 255 BY <1>4, <1>6
  <1>8. PICK y : y = x * range OBVIOUS
  <1>9. y \in Nat /\ y <= 255 * range
    <2>1. range \in Nat /\ x \in Nat /\ x <= 255 BY <1>7
    <2>2. x * range <= 255 * range /\ x * range \in Nat BY <2>1, ScaledLess
    <2> QED BY <1>8, <2>2
  <1>10. Lps(c, range) = y \div 512 + 1
    <2>1. range * x = y BY <1>7, <1>8
    <2> QED BY <1>5, <1>6, <2>1
  <1> QED BY <1>9, <1>10

LEMMA Renormalised ==
  ASSUME NEW lps \in 1 .. 255
  PROVE  RenormBits(lps) \in 1 .. 6 /\ lps * 2 ^ RenormBits(lps) \in 64 .. 510
  <1>1. PICK h : h = lps \div 8 OBVIOUS
  <1>2. h \in 0 .. 31 /\ h * 8 <= lps /\ lps < h * 8 + 8 BY <1>1
  <1>3. RenormBits(lps) =
          CASE h = 0 -> 6 [] h = 1 -> 5 [] h \in 2 .. 3 -> 4
            [] h \in 4 .. 7 -> 3 [] h \in 8 .. 15 -> 2 [] OTHER -> 1
    BY <1>1, Zenon DEF RenormBits
  <1>4. CASE h = 0
    <2>1. RenormBits(lps) = 6 BY <1>3, <1>4
    <2> QED BY <1>2, <1>4, <2>1
  <1>5. CASE h = 1
    <2>1. RenormBits(lps) = 5 BY <1>3, <1>5
    <2> QED BY <1>2, <1>5, <2>1
  <1>6. CASE h \in 2 .. 3
    <2>1. RenormBits(lps) = 4 BY <1>3, <1>6
    <2> QED BY <1>2, <1>6, <2>1
  <1>7. CASE h \in 4 .. 7
    <2>1. RenormBits(lps) = 3 BY <1>3, <1>7
    <2> QED BY <1>2, <1>7, <2>1
  <1>8. CASE h \in 8 .. 15
    <2>1. RenormBits(lps) = 2 BY <1>3, <1>8
    <2> QED BY <1>2, <1>8, <2>1
  <1>9. CASE h \in 16 .. 31
    <2>1. RenormBits(lps) = 1 BY <1>3, <1>9
    <2> QED BY <1>2, <1>9, <2>1
  <1> QED BY <1>2, <1>4, <1>5, <1>6, <1>7, <1>8, <1>9

LEMMA EncoderFacts ==
  ASSUME NEW e, EncoderOk(e)
  PROVE  /\ e \in EncoderRegisters /\ HeldBytesOk(e.held, e.byte, e.out)
         /\ e.low \in Nat /\ e.range \in 64 .. 510 /\ e.left \in 12 .. 23 /\ e.ctx \in CoderContexts
         /\ IntervalEnd(e) \in Nat /\ e.low + e.range <= IntervalEnd(e)
  <1>1. e \in EncoderRegisters /\ HeldBytesOk(e.held, e.byte, e.out) BY DEF EncoderOk
  <1>2. e.low \in Nat /\ e.range \in 64 .. 510 /\ e.left \in 12 .. 23 /\ e.ctx \in CoderContexts
    BY <1>1 DEF EncoderRegisters
  <1>3. e.low + e.range <= IntervalEnd(e) BY DEF EncoderOk, IntervalEnd
  <1>4. PICK l : l = CarryLimit(e.held, e.byte, e.out) OBVIOUS
  <1>5. l \in Nat BY <1>4 DEF CarryLimit
  <1>6. PICK a : a = 24 - e.left OBVIOUS
  <1>7. a \in 0 .. 31 BY <1>2, <1>6
  <1>8. PICK u : u = 2 ^ a OBVIOUS
  <1>9. u \in Nat BY <1>7, <1>8, PowerDoubles
  <1>10. IntervalEnd(e) = l * u BY <1>4, <1>6, <1>8, Zenon DEF IntervalEnd
  <1>11. l * u \in Nat BY <1>5, <1>9
  <1> QED BY <1>1, <1>2, <1>3, <1>10, <1>11

(* f is e with a part of its interval, which n bits and v then scale. *)
PartOf(e, f, v, n) ==
    /\ EncoderOk(e)
    /\ f = Encoder(f.low, f.range, e.left, e.held, e.byte, e.out, f.ctx)
    /\ f.low \in Nat /\ f.range \in 64 .. 510 /\ f.ctx \in CoderContexts /\ v \in Nat /\ n \in 0 .. 8
    /\ f.low * 2 ^ n + v + f.range <= (e.low + e.range) * 2 ^ n

(* Then the interval ends where it did, or before. *)
LEMMA PartPut ==
  ASSUME NEW e, NEW f, NEW v, NEW n, PartOf(e, f, v, n)
  PROVE  /\ EncoderOk(Put(f, v, n)) /\ Put(f, v, n).range = f.range
         /\ n = 0 /\ v = 0 => EncoderOk(f)
  <1>a. PICK low : low = f.low OBVIOUS
  <1>b. PICK range : range = f.range OBVIOUS
  <1>c. PICK ctx : ctx = f.ctx OBVIOUS
  <1>0. /\ EncoderOk(e) /\ low \in Nat /\ range \in 64 .. 510 /\ ctx \in CoderContexts /\ v \in Nat
        /\ n \in 0 .. 8
        /\ f = Encoder(low, range, e.left, e.held, e.byte, e.out, ctx)
    BY <1>a, <1>b, <1>c, Zenon DEF PartOf
  <1>d. low * 2 ^ n + v + range <= (e.low + e.range) * 2 ^ n
    BY <1>a, <1>b, <1>c, Zenon DEF PartOf
  <1> USE <1>0
  <1>1. /\ e \in EncoderRegisters /\ HeldBytesOk(e.held, e.byte, e.out)
        /\ e.low \in Nat /\ e.range \in 64 .. 510
        /\ IntervalEnd(e) \in Nat /\ e.low + e.range <= IntervalEnd(e)
    BY EncoderFacts
  <1>2. /\ f \in EncoderRegisters
        /\ f.low = low /\ f.range = range
        /\ f.held = e.held /\ f.byte = e.byte /\ f.out = e.out
        /\ IntervalEnd(f) = IntervalEnd(e)
    <2>1. /\ f.low = low /\ f.range = range /\ f.left = e.left
          /\ f.held = e.held /\ f.byte = e.byte /\ f.out = e.out
      BY EncoderFields
    <2>2. f \in EncoderRegisters BY <1>1 DEF EncoderRegisters, Encoder
    <2>3. IntervalEnd(f) = IntervalEnd(e) BY <2>1, Zenon DEF IntervalEnd
    <2> QED BY <2>1, <2>2, <2>3
  <1>3. HeldBytesOk(f.held, f.byte, f.out) BY <1>1, <1>2
  <1>4. PICK p : p = 2 ^ n OBVIOUS
  <1>5. p \in Nat
    <2>1. n \in 0 .. 31 OBVIOUS
    <2> QED BY <1>4, <2>1, PowerDoubles
  <1>6. PICK z : z = IntervalEnd(e) OBVIOUS
  <1>7. (e.low + e.range) * p <= z * p
    <2>1. PICK a : a = e.low + e.range OBVIOUS
    <2>2. a \in Nat /\ z \in Nat /\ a <= z BY <1>1, <1>6, <2>1
    <2>3. a * p <= z * p BY <1>5, <2>2, ScaledLess
    <2> QED BY <2>1, <2>3
  <1>8. f.low * 2 ^ n + v + f.range <= IntervalEnd(f) * 2 ^ n
    <2>1. PICK x : x = low * p OBVIOUS
    <2>2. PICK y : y = (e.low + e.range) * p OBVIOUS
    <2>3. PICK t : t = z * p OBVIOUS
    <2>4. x \in Nat /\ y \in Nat /\ t \in Nat BY <1>1, <1>5, <1>6, <2>1, <2>2, <2>3
    <2>5. x + v + range <= y BY <1>d, <1>4, <2>1, <2>2
    <2>6. y <= t BY <1>7, <2>2, <2>3
    <2>7. x + v + range <= t BY <2>4, <2>5, <2>6
    <2>8. f.low * 2 ^ n = x /\ IntervalEnd(f) * 2 ^ n = t
      BY <1>2, <1>4, <1>6, <2>1, <2>3, Zenon
    <2> QED BY <1>2, <2>7, <2>8
  <1>9. EncoderOk(Put(f, v, n)) /\ Put(f, v, n).range = range
    <2>1. EncoderOk(Put(f, v, n)) /\ Put(f, v, n).range = f.range
      BY <1>2, <1>3, <1>8, PutKeeps
    <2> QED BY <1>2, <2>1
  <1>10. ASSUME n = 0, v = 0 PROVE EncoderOk(f)
    <2>1. p = 1 BY <1>4, <1>10
    <2>2. f.low * p + v + f.range <= IntervalEnd(f) * p BY <1>4, <1>8
    <2>3. IntervalEnd(f) \in Nat /\ f.low \in Nat /\ f.range \in Nat BY <1>1, <1>2
    <2>4. f.low + f.range <= IntervalEnd(f) BY <1>10, <2>1, <2>2, <2>3
    <2> QED BY <1>2, <1>3, <2>4 DEF EncoderOk, IntervalEnd
  <1> QED BY <1>b, <1>9, <1>10

(* Only the range and the context change. *)
LEMMA OtherRange ==
  ASSUME NEW e, EncoderOk(e), NEW r, NEW c
  PROVE  [[e EXCEPT !.range = r] EXCEPT !.ctx = c] = Encoder(e.low, r, e.left, e.held, e.byte, e.out, c)
  <1>1. e \in EncoderRegisters BY EncoderFacts, Zenon
  <1>2. e = Encoder(e.low, e.range, e.left, e.held, e.byte, e.out, e.ctx)
    BY <1>1, EncoderIsRecord, Zenon
  <1>3. PICK f : f = [e EXCEPT !.range = r] OBVIOUS
  <1>4. f = Encoder(e.low, r, e.left, e.held, e.byte, e.out, e.ctx)
    BY <1>1, <1>3 DEF Encoder, EncoderRegisters
  <1>5. [f EXCEPT !.ctx = c] = Encoder(e.low, r, e.left, e.held, e.byte, e.out, c)
    BY <1>4 DEF Encoder
  <1> QED BY <1>3, <1>5, Zenon

LEMMA EncodeBinKeeps ==
  ASSUME NEW e, EncoderOk(e), NEW bin
  PROVE  EncoderOk(EncodeBin(e, bin))
  <1>1. /\ e.low \in Nat /\ e.range \in 64 .. 510 /\ e.ctx \in CoderContexts
    BY EncoderFacts
  <1>2. PICK lps : lps = Lps(e.ctx, e.range) OBVIOUS
  <1>3. lps \in 1 .. 255 /\ lps <= e.range - 32 BY <1>1, <1>2, LpsBound
  <1>4. PICK mps : mps = e.range - lps OBVIOUS
  <1>5. mps \in Nat /\ mps >= 32 /\ mps <= 509 BY <1>1, <1>3, <1>4, SMTT(30)
  <1>6. PICK new : new = Updated(e.ctx, bin) OBVIOUS
  <1>7. new \in CoderContexts BY <1>1, <1>6, ContextMoves
  <1>8. PICK n : n = RenormBits(lps) OBVIOUS
  <1>9. n \in 1 .. 6 /\ lps * 2 ^ n \in 64 .. 510 BY <1>3, <1>8, Renormalised
  <1>10. PICK p : p = 2 ^ n OBVIOUS
  <1>11. p \in Nat
    <2>1. n \in 0 .. 31 BY <1>9
    <2> QED BY <1>10, <2>1, PowerDoubles
  <1>12. EncodeBin(e, bin) =
           IF bin # Mps(e.ctx) THEN Put([[e EXCEPT !.range = lps * p] EXCEPT !.ctx = new], mps * p, n)
           ELSE IF mps < 256 THEN Put([[e EXCEPT !.range = mps * 2] EXCEPT !.ctx = new], 0, 1)
           ELSE [[e EXCEPT !.range = mps] EXCEPT !.ctx = new]
    BY <1>2, <1>4, <1>6, <1>8, <1>10 DEF EncodeBin
  <1>13. CASE bin # Mps(e.ctx)
    <2>1. PICK f : f = [[e EXCEPT !.range = lps * p] EXCEPT !.ctx = new] OBVIOUS
    <2>2. f = Encoder(e.low, lps * p, e.left, e.held, e.byte, e.out, new)
      BY <2>1, OtherRange
    <2>3. f.low = e.low /\ f.range = lps * p /\ f.ctx = new BY <2>2, EncoderFields
    <2>4. PICK v : v = mps * p OBVIOUS
    <2>5. v \in Nat BY <1>5, <1>11, <2>4
    <2>6. e.low * p + v + lps * p <= (e.low + e.range) * p
      <3>1. PICK low \in Nat : low = e.low BY <1>1
      <3>2. e.range = mps + lps BY <1>1, <1>3, <1>4
      <3>3. (low + (mps + lps)) * p = low * p + mps * p + lps * p BY <1>3, <1>5, <1>11
      <3>4. low * p + mps * p + lps * p \in Nat BY <1>3, <1>5, <1>11
      <3> QED BY <2>4, <3>1, <3>2, <3>3, <3>4
    <2>7. PartOf(e, f, v, n)
      <3>1. f = Encoder(f.low, f.range, e.left, e.held, e.byte, e.out, f.ctx)
        BY <2>2, <2>3, Zenon
      <3>2. n \in 0 .. 8 BY <1>9
      <3>3. f.range \in 64 .. 510 BY <1>9, <1>10, <2>3
      <3>4. f.low * 2 ^ n + v + f.range <= (e.low + e.range) * 2 ^ n
        BY <1>10, <2>3, <2>6
      <3> QED BY <1>1, <1>7, <2>3, <2>5, <3>1, <3>2, <3>3, <3>4, Zenon DEF PartOf
    <2>8. EncoderOk(Put(f, v, n)) BY <2>7, PartPut
    <2> QED BY <1>12, <1>13, <2>1, <2>4, <2>8
  <1>14. CASE bin = Mps(e.ctx) /\ mps < 256
    <2>1. PICK f : f = [[e EXCEPT !.range = mps * 2] EXCEPT !.ctx = new] OBVIOUS
    <2>2. f = Encoder(e.low, mps * 2, e.left, e.held, e.byte, e.out, new)
      BY <2>1, OtherRange
    <2>3. f.low = e.low /\ f.range = mps * 2 /\ f.ctx = new BY <2>2, EncoderFields
    <2>4. 2 ^ 1 = 2 OBVIOUS
    <2>5. PartOf(e, f, 0, 1)
      <3>1. f = Encoder(f.low, f.range, e.left, e.held, e.byte, e.out, f.ctx)
        BY <2>2, <2>3, Zenon
      <3>2. 1 \in 0 .. 8 /\ 0 \in Nat OBVIOUS
      <3>3. f.range \in 64 .. 510 BY <1>5, <1>14, <2>3
      <3>4a. PICK low \in Nat : low = e.low BY <1>1
      <3>4b. PICK range \in 64 .. 510 : range = e.range BY <1>1
      <3>4c. mps <= range BY <1>3, <1>4, <3>4b
      <3>4d. low * 2 + 0 + mps * 2 <= (low + range) * 2 BY <1>5, <3>4c
      <3>4. e.low * 2 + 0 + mps * 2 <= (e.low + e.range) * 2
        BY <3>4a, <3>4b, <3>4d, Zenon
      <3>5. f.low * 2 ^ 1 + 0 + f.range <= (e.low + e.range) * 2 ^ 1 BY <2>3, <2>4, <3>4
      <3> QED BY <1>1, <1>7, <2>3, <3>1, <3>2, <3>3, <3>5 DEF PartOf
    <2>6. EncoderOk(Put(f, 0, 1)) BY <2>5, PartPut
    <2> QED BY <1>12, <1>14, <2>1, <2>6
  <1>15. CASE bin = Mps(e.ctx) /\ ~(mps < 256)
    <2>1. PICK f : f = [[e EXCEPT !.range = mps] EXCEPT !.ctx = new] OBVIOUS
    <2>2. f = Encoder(e.low, mps, e.left, e.held, e.byte, e.out, new)
      BY <2>1, OtherRange
    <2>3. f.low = e.low /\ f.range = mps /\ f.ctx = new BY <2>2, EncoderFields
    <2>4. 2 ^ 0 = 1 OBVIOUS
    <2>5. PartOf(e, f, 0, 0)
      <3>1. f = Encoder(f.low, f.range, e.left, e.held, e.byte, e.out, f.ctx)
        BY <2>2, <2>3, Zenon
      <3>2. 0 \in 0 .. 8 /\ 0 \in Nat OBVIOUS
      <3>3. f.range \in 64 .. 510 BY <1>5, <1>15, <2>3
      <3>4a. PICK low \in Nat : low = e.low BY <1>1
      <3>4b. low * 1 + 0 + mps <= (low + e.range) * 1 BY <1>1, <1>3, <1>4, SMTT(30)
      <3>4. e.low * 1 + 0 + mps <= (e.low + e.range) * 1 BY <3>4a, <3>4b, Zenon
      <3>5. f.low * 2 ^ 0 + 0 + f.range <= (e.low + e.range) * 2 ^ 0 BY <2>3, <2>4, <3>4
      <3> QED BY <1>1, <1>7, <2>3, <3>1, <3>2, <3>3, <3>5 DEF PartOf
    <2>6. EncoderOk(f) BY <2>5, PartPut
    <2> QED BY <1>12, <1>15, <2>1, <2>6
  <1> QED BY <1>13, <1>14, <1>15

----------------------------------------------------------------------------
(* The terminating bin, bypass bins and escape codes.                      *)

(* The terminating bin takes 2 of the range, and all of them where it is 1. *)
LEMMA EncodeTrmKeeps ==
  ASSUME NEW e, EncoderOk(e), NEW bin
  PROVE  EncoderOk(EncodeTrm(e, bin)) /\ (bin = 1 => EncodeTrm(e, bin).range = 256)
  <1>1. e \in EncoderRegisters /\ e.ctx \in CoderContexts BY EncoderFacts
  <1>2. PICK low \in Nat, range \in 64 .. 510 : low = e.low /\ range = e.range
    BY EncoderFacts
  <1>3. e = Encoder(low, range, e.left, e.held, e.byte, e.out, e.ctx)
    BY <1>1, <1>2, EncoderIsRecord
  <1>4. PICK r : r = range - 2 OBVIOUS
  <1>5. r \in 62 .. 508 BY <1>4
  <1>6. EncodeTrm(e, bin) =
          IF bin = 1 THEN Put([e EXCEPT !.range = 256, !.low = @ + r], 0, 7)
          ELSE IF r >= 256 THEN [e EXCEPT !.range = r] ELSE Put([e EXCEPT !.range = r * 2], 0, 1)
    BY <1>2, <1>4, Zenon DEF EncodeTrm
  <1>7. 2 ^ 0 = 1 /\ 2 ^ 1 = 2 /\ 2 ^ 7 = 128 OBVIOUS
  <1>8. CASE bin = 1
    <2>1. PICK l : l = low + r OBVIOUS
    <2>2. PICK g : g = [e EXCEPT !.range = 256] OBVIOUS
    <2>3. g = Encoder(low, 256, e.left, e.held, e.byte, e.out, e.ctx)
      BY <1>3, <2>2 DEF Encoder
    <2>4. PICK f : f = [g EXCEPT !.low = l] OBVIOUS
    <2>5. f = Encoder(l, 256, e.left, e.held, e.byte, e.out, e.ctx)
      BY <2>3, <2>4 DEF Encoder
    <2>6. f.low = l /\ f.range = 256 /\ f.ctx = e.ctx BY <2>5, EncoderFields
    <2>7. [e EXCEPT !.range = 256, !.low = @ + r] = f
      <3>1. e.low + r = l BY <1>2, <2>1
      <3> QED BY <2>2, <2>4, <3>1, Zenon
    <2>8. PartOf(e, f, 0, 7)
      <3>1. f = Encoder(f.low, f.range, e.left, e.held, e.byte, e.out, f.ctx)
        BY <2>5, <2>6, Zenon
      <3>2. 7 \in 0 .. 8 /\ 0 \in Nat /\ 256 \in 64 .. 510 /\ l \in Nat BY <1>5, <2>1
      <3>3. l * 128 + 0 + 256 <= (low + range) * 128 BY <1>4, <2>1
      <3>4. f.low * 2 ^ 7 + 0 + f.range <= (e.low + e.range) * 2 ^ 7
        BY <1>2, <1>7, <2>6, <3>3
      <3> QED BY <1>1, <2>6, <3>1, <3>2, <3>4 DEF PartOf
    <2>9. EncoderOk(Put(f, 0, 7)) /\ Put(f, 0, 7).range = f.range BY <2>8, PartPut
    <2> QED BY <1>6, <1>8, <2>6, <2>7, <2>9
  <1>9. CASE bin # 1 /\ r >= 256
    <2>1. PICK f : f = [e EXCEPT !.range = r] OBVIOUS
    <2>2. f = Encoder(low, r, e.left, e.held, e.byte, e.out, e.ctx)
      BY <1>3, <2>1 DEF Encoder
    <2>3. f.low = low /\ f.range = r /\ f.ctx = e.ctx BY <2>2, EncoderFields
    <2>4. PartOf(e, f, 0, 0)
      <3>1. f = Encoder(f.low, f.range, e.left, e.held, e.byte, e.out, f.ctx)
        BY <2>2, <2>3, Zenon
      <3>2. 0 \in 0 .. 8 /\ 0 \in Nat /\ r \in 64 .. 510 BY <1>5, <1>9
      <3>3. low * 1 + 0 + r <= (low + range) * 1 BY <1>4
      <3>4. f.low * 2 ^ 0 + 0 + f.range <= (e.low + e.range) * 2 ^ 0
        BY <1>2, <1>7, <2>3, <3>3
      <3> QED BY <1>1, <1>2, <2>3, <3>1, <3>2, <3>4 DEF PartOf
    <2>5. EncoderOk(f) BY <2>4, PartPut
    <2> QED BY <1>6, <1>9, <2>1, <2>5
  <1>10. CASE bin # 1 /\ ~(r >= 256)
    <2>1. PICK s : s = r * 2 OBVIOUS
    <2>2. PICK f : f = [e EXCEPT !.range = s] OBVIOUS
    <2>3. f = Encoder(low, s, e.left, e.held, e.byte, e.out, e.ctx)
      BY <1>3, <2>2 DEF Encoder
    <2>4. f.low = low /\ f.range = s /\ f.ctx = e.ctx BY <2>3, EncoderFields
    <2>5. PartOf(e, f, 0, 1)
      <3>1. f = Encoder(f.low, f.range, e.left, e.held, e.byte, e.out, f.ctx)
        BY <2>3, <2>4, Zenon
      <3>2. 1 \in 0 .. 8 /\ 0 \in Nat /\ s \in 64 .. 510 BY <1>5, <1>10, <2>1
      <3>3. low * 2 + 0 + s <= (low + range) * 2 BY <1>4, <2>1
      <3>4. f.low * 2 ^ 1 + 0 + f.range <= (e.low + e.range) * 2 ^ 1
        BY <1>2, <1>7, <2>4, <3>3
      <3> QED BY <1>1, <1>2, <2>4, <3>1, <3>2, <3>4 DEF PartOf
    <2>6. EncoderOk(Put(f, 0, 1)) BY <2>5, PartPut
    <2> QED BY <1>6, <1>10, <2>1, <2>2, <2>6
  <1> QED BY <1>8, <1>9, <1>10

(* n bypass bins, at most 8, take their part of the range. *)
LEMMA PutBins ==
  ASSUME NEW e, EncoderOk(e), NEW n \in 0 .. 8, NEW bins \in Nat, bins < 2 ^ n
  PROVE  EncoderOk(Put(e, e.range * bins, n))
  <1>1. e \in EncoderRegisters /\ e.ctx \in CoderContexts BY EncoderFacts
  <1>2. PICK low \in Nat, range \in 64 .. 510 : low = e.low /\ range = e.range
    BY EncoderFacts
  <1>3. PICK p : p = 2 ^ n OBVIOUS
  <1>4. p \in Nat
    <2>1. n \in 0 .. 31 OBVIOUS
    <2> QED BY <1>3, <2>1, PowerDoubles
  <1>5. PICK v : v = range * bins OBVIOUS
  <1>6. PICK x : x = range * p OBVIOUS
  <1>7. PICK y : y = low * p OBVIOUS
  <1>8. v \in Nat /\ x \in Nat /\ y \in Nat BY <1>4, <1>5, <1>6, <1>7
  <1>9. v + range <= x
    <2>1. PICK b : b = bins + 1 OBVIOUS
    <2>2. b \in Nat /\ b <= p BY <1>3, <1>4, <2>1
    <2>3. range * b = v + range BY <1>5, <2>1
    <2>4. b * range <= p * range BY <1>4, <2>2, ScaledLess
    <2>5. b * range = range * b /\ p * range = x BY <1>4, <1>6, <2>2
    <2> QED BY <2>3, <2>4, <2>5
  <1>10. (low + range) * p = y + x BY <1>4, <1>6, <1>7
  <1>11. PartOf(e, e, v, n)
    <2>1. e = Encoder(e.low, e.range, e.left, e.held, e.byte, e.out, e.ctx)
      BY <1>1, EncoderIsRecord
    <2>2. low * p + v + range <= (low + range) * p BY <1>7, <1>8, <1>9, <1>10
    <2>3. e.low * 2 ^ n + v + e.range <= (e.low + e.range) * 2 ^ n BY <1>2, <1>3, <2>2
    <2> QED BY <1>1, <1>2, <1>8, <2>1, <2>3, Zenon DEF PartOf
  <1>12. EncoderOk(Put(e, v, n)) BY <1>11, PartPut
  <1> QED BY <1>2, <1>5, <1>12

(* Bins that remain to be coded; the interval is as it has to be.          *)
BinsRemain(w) ==
    /\ EncoderOk(w.e) /\ w.n \in 0 .. 32
    /\ w.bins \in Nat /\ w.bins < 2 ^ w.n

LEMMA EncodeEightKeeps ==
  ASSUME NEW w, BinsRemain(w)
  PROVE  /\ BinsRemain(EncodeEight(w))
         /\ EncodeEight(w).n = IF w.n <= 8 THEN w.n ELSE w.n - 8
  <1>1. PICK e, n, bins : e = w.e /\ n = w.n /\ bins = w.bins OBVIOUS
  <1>2. EncoderOk(e) /\ n \in 0 .. 32 /\ bins \in Nat /\ bins < 2 ^ n
    BY <1>1, Zenon DEF BinsRemain
  <1>3. CASE n <= 8
    <2>1. EncodeEight(w) = w BY <1>1, <1>3, Zenon DEF EncodeEight
    <2> QED BY <1>1, <1>3, <2>1
  <1>4. CASE ~(n <= 8)
    <2>1. PICK m : m = n - 8 OBVIOUS
    <2>2. m \in 1 .. 24 /\ m \in 0 .. 24 /\ n = m + 8 /\ 8 \in 0 .. 8
      BY <1>2, <1>4, <2>1
    <2>3. PICK u : u = 2 ^ m OBVIOUS
    <2>4. 2 ^ n = u * 256 /\ u \in Nat \ {0}
      <3>1. 2 ^ n = 2 ^ m * 2 ^ 8 /\ 2 ^ m \in Nat \ {0} BY <2>2, PowersProduct
      <3> QED BY <2>3, <3>1
    <2>5. PICK q : q = bins \div u OBVIOUS
    <2>6. PICK r : r = bins % u OBVIOUS
    <2>7. q \in Nat /\ r \in 0 .. u - 1
      <3>1. bins \in Nat /\ u \in Nat \ {0} BY <1>2, <2>4
      <3> QED BY <3>1, <2>5, <2>6, Divides
    <2>8. q < 2 ^ 8
      <3>1. bins < 256 * u BY <1>2, <2>4
      <3>2. bins \in Nat /\ u \in Nat \ {0} /\ 256 \in Nat BY <1>2, <2>4
      <3>3. q < 256 BY <2>5, <3>1, <3>2, QuotientBelow
      <3> QED BY <3>3
    <2>9. PICK f : f = Put(e, e.range * q, 8) OBVIOUS
    <2>10. EncoderOk(f) BY <1>2, <2>2, <2>7, <2>8, <2>9, PutBins
    <2>11. EncodeEight(w) = [e |-> f, bins |-> r, n |-> m]
      BY <1>1, <1>4, <2>1, <2>3, <2>5, <2>6, <2>9, Zenon DEF EncodeEight
    <2>12. PICK x : x = EncodeEight(w) OBVIOUS
    <2>13. x.e = f /\ x.bins = r /\ x.n = m BY <2>11, <2>12
    <2>14. r \in Nat /\ r < u BY <2>4, <2>7
    <2>15. BinsRemain(x)
      <3>1. m \in 0 .. 32 BY <2>2
      <3> QED BY <2>3, <2>10, <2>13, <2>14, <3>1, Zenon DEF BinsRemain
    <2> QED BY <1>1, <1>4, <2>1, <2>12, <2>13, <2>15
  <1> QED BY <1>3, <1>4

LEMMA EncodeBinsKeeps ==
  ASSUME NEW e, EncoderOk(e), NEW n \in 0 .. 32, NEW bins \in Nat, bins < 2 ^ n
  PROVE  EncoderOk(EncodeBinsEP(e, bins, n))
  <1>1. PICK w : w = [e |-> e, bins |-> bins, n |-> n] OBVIOUS
  <1>2. w.e = e /\ w.bins = bins /\ w.n = n BY <1>1
  <1>3. BinsRemain(w) BY <1>2, Zenon DEF BinsRemain
  <1>4. PICK x : x = EncodeEight(w) OBVIOUS
  <1>5. BinsRemain(x) /\ x.n = IF n <= 8 THEN n ELSE n - 8
    BY <1>2, <1>3, <1>4, EncodeEightKeeps
  <1>6. PICK y : y = EncodeEight(x) OBVIOUS
  <1>7. BinsRemain(y) /\ y.n = IF x.n <= 8 THEN x.n ELSE x.n - 8
    BY <1>5, <1>6, EncodeEightKeeps
  <1>8. PICK z : z = EncodeEight(y) OBVIOUS
  <1>9. BinsRemain(z) /\ z.n = IF y.n <= 8 THEN y.n ELSE y.n - 8
    BY <1>7, <1>8, EncodeEightKeeps
  <1>10. z.n \in 0 .. 8
    <2>1. PICK a : a = x.n OBVIOUS
    <2>2. PICK b : b = y.n OBVIOUS
    <2>3. PICK c : c = z.n OBVIOUS
    <2>4. a \in 0 .. 24 BY <1>5, <2>1
    <2>5. b \in 0 .. 16 BY <1>7, <2>1, <2>2, <2>4
    <2>6. c \in 0 .. 8 BY <1>9, <2>2, <2>3, <2>5
    <2> QED BY <2>3, <2>6
  <1>11. EncoderOk(z.e) /\ z.bins \in Nat /\ z.bins < 2 ^ z.n BY <1>9 DEF BinsRemain
  <1>12. EncoderOk(Put(z.e, z.e.range * z.bins, z.n)) BY <1>10, <1>11, PutBins
  <1> QED BY <1>1, <1>4, <1>6, <1>8, <1>12, Zenon DEF EncodeBinsEP, EncodeRest

(* A set of numbers has a least one. *)
LEMMA LeastNumber ==
  ASSUME NEW T, T \subseteq Nat, T # {}
  PROVE  \E t \in T : \A u \in T : t <= u
  <1> DEFINE R == OpToRel(<, Nat)
  <1>1. IsWellFoundedOn(R, Nat) BY NatLessThanWellFounded
  <1>2. \A u, w \in Nat : u < w => <<u, w>> \in R
    <2>1. \A u, w \in Nat : <<u, w>>[1] = u /\ <<u, w>>[2] = w /\ <<u, w>> \in Nat \X Nat OBVIOUS
    <2> QED BY <2>1, Zenon DEF OpToRel
  <1> HIDE DEF R
  <1>3. PICK t \in T : \A u \in T : ~(<<u, t>> \in R) BY <1>1, WFMin, Zenon
  <1>4. \A u \in T : t <= u
    <2>1. t \in Nat /\ \A u \in T : u \in Nat /\ ~(u < t) BY <1>2, <1>3
    <2> QED BY <2>1
  <1> QED BY <1>4

LEMMA PrefixLengthIs ==
  ASSUME NEW code \in Nat
  PROVE  LET p == PrefixLength(code)
         IN  /\ p \in 0 .. 12 /\ code >= 2 ^ p - 1
             /\ code <= 2 ^ (p + 1) - 2 \/ (p = 12 /\ code >= 4095)
  <1>1. MaxPrefix = 12 BY DEF MaxPrefix, Cutoff, DynamicRange
  <1>2. 2 ^ 12 = 4096 OBVIOUS
  <1>3. CASE code >= 4095
    <2>1. PrefixLength(code) = 12 BY <1>1, <1>2, <1>3 DEF PrefixLength
    <2> QED BY <1>2, <1>3, <2>1
  <1>4. CASE ~(code >= 4095)
    <2> DEFINE Fits(p) == code <= 2 ^ (p + 1) - 2
               Least(p) == Fits(p) /\ \A k \in 0 .. p - 1 : code > 2 ^ (k + 1) - 2
    <2>1. PrefixLength(code) = CHOOSE p \in 0 .. 12 : Least(p)
      <3>1. ~(code >= 2 ^ MaxPrefix - 1) BY <1>1, <1>2, <1>4
      <3> QED BY <1>1, <3>1, Zenon DEF PrefixLength
    <2>2. \E p \in 0 .. 12 : Least(p)
      <3> DEFINE T == {p \in 0 .. 12 : Fits(p)}
      <3>1. 11 \in T BY <1>2, <1>4
      <3>2a. \A u \in T : u \in 0 .. 12 OBVIOUS
      <3>2. T \subseteq Nat /\ T # {}
        <4> HIDE DEF T
        <4> QED BY <3>1, <3>2a
      <3>3. PICK t \in T : \A u \in T : t <= u
        <4> HIDE DEF T
        <4> QED BY <3>2, LeastNumber
      <3>4. t \in 0 .. 12 /\ Fits(t) BY <3>3
      <3>5. ASSUME NEW k \in 0 .. t - 1 PROVE code > 2 ^ (k + 1) - 2
        <4>1. k \in 0 .. 12 /\ ~(t <= k) BY <3>4
        <4>2. k \notin T BY <3>3, <4>1
        <4>3. ~Fits(k) BY <4>1, <4>2
        <4>4. PICK m : m = k + 1 OBVIOUS
        <4>5. m \in 0 .. 31 BY <4>1, <4>4
        <4>6. 2 ^ m \in Nat BY <4>5, PowerDoubles
        <4>7. ~(code <= 2 ^ m - 2) BY <4>3, <4>4, Zenon
        <4>8. code > 2 ^ m - 2 BY <4>6, <4>7
        <4> QED BY <4>4, <4>8, Zenon
      <3> QED BY <3>4, <3>5, Zenon
    <2> HIDE DEF Least
    <2>3. PICK p : p = PrefixLength(code) OBVIOUS
    <2>4. p \in 0 .. 12 /\ Least(p) BY <2>1, <2>2, <2>3, Zenon
    <2>5. Fits(p) /\ \A k \in 0 .. p - 1 : code > 2 ^ (k + 1) - 2 BY <2>4 DEF Least
    <2>6. code >= 2 ^ p - 1
      <3>1. CASE p = 0 BY <3>1
      <3>2. CASE p # 0
        <4>1. PICK k : k = p - 1 OBVIOUS
        <4>2. k \in 0 .. p - 1 /\ k + 1 = p BY <2>4, <3>2, <4>1
        <4>3. code > 2 ^ (k + 1) - 2 BY <2>5, <4>2
        <4>4. code > 2 ^ p - 2 BY <4>2, <4>3
        <4>5. p \in 0 .. 31 BY <2>4
        <4>6. 2 ^ p \in Nat BY <4>5, PowerDoubles
        <4> QED BY <4>4, <4>6
      <3> QED BY <3>1, <3>2
    <2>7. Fits(p) BY <2>5
    <2> QED BY <2>3, <2>4, <2>6, <2>7
  <1> QED BY <1>3, <1>4

(* What encodeRemAbsEP is called with. *)
EscapeCoded(v, rice) == v \in Nat /\ v <= 2 ^ 15 /\ rice \in 0 .. 3

(* An escape coded value whose prefix has p ones more than the cutoff.     *)
Suffix(v, rice, p, code, bins) ==
    /\ EscapeCoded(v, rice) /\ p \in 0 .. 12 /\ code \in Nat
    /\ code = v \div 2 ^ rice - 5 /\ code >= 2 ^ p - 1
    /\ code <= 2 ^ (p + 1) - 2 \/ (p = 12 /\ code >= 2 ^ 12 - 1)
    /\ bins = (code - (2 ^ p - 1)) * 2 ^ rice + (v % 2 ^ rice)

(* Its bins fit in the bits that take them. *)
LEMMA SuffixFits ==
  ASSUME NEW v, NEW rice, NEW p, NEW code, NEW bins, Suffix(v, rice, p, code, bins)
  PROVE  /\ bins \in Nat
         /\ p = 12 => bins < 2 ^ 15
         /\ p < 12 => bins < 2 ^ (p + rice + 1)
  <1>0. v \in Nat /\ v <= 32768 /\ rice \in 0 .. 3 /\ p \in 0 .. 12 /\ code \in Nat
    <2>1. 2 ^ 15 = 32768 OBVIOUS
    <2> QED BY <2>1 DEF Suffix, EscapeCoded
  <1>1. PICK u : u = 2 ^ rice OBVIOUS
  <1>2. u \in {1, 2, 4, 8}
    <2>0. CASE rice = 0 BY <1>1, <2>0
    <2>1. CASE rice = 1 BY <1>1, <2>1
    <2>2. CASE rice = 2 BY <1>1, <2>2
    <2>3. CASE rice = 3 BY <1>1, <2>3
    <2> QED BY <1>0, <2>0, <2>1, <2>2, <2>3
  <1>3. PICK z : z = 2 ^ p OBVIOUS
  <1>4. z \in Nat \ {0} /\ 2 ^ (p + 1) = 2 * z
    <2>1. p \in 0 .. 31 BY <1>0
    <2> QED BY <1>3, <2>1, PowerDoubles
  <1>5. PICK low : low = v % u OBVIOUS
  <1>6. PICK d : d = code - (z - 1) OBVIOUS
  <1>7. d \in Nat /\ bins = d * u + low
    <2>1. code >= z - 1 /\ bins = (code - (z - 1)) * u + low
      BY <1>1, <1>3, <1>5, Zenon DEF Suffix
    <2>2. d \in Nat BY <1>0, <1>4, <1>6, <2>1
    <2>3. bins = d * u + low BY <1>6, <2>1, Zenon
    <2> QED BY <2>2, <2>3
  <1>7a. code <= 2 * z - 2 \/ (p = 12 /\ code >= 2 ^ 12 - 1)
    BY <1>4, Zenon DEF Suffix
  <1>8. v = (code + 5) * u + low /\ low \in 0 .. u - 1
    <2>1. u \in Nat \ {0} BY <1>2
    <2>2. v \div u \in Nat /\ v % u \in 0 .. u - 1 /\ v = (v \div u) * u + (v % u)
      <3>1. v \in Nat BY <1>0
      <3> QED BY <2>1, <3>1, Divides, Zenon
    <2>3. v \div u = code + 5
      <3>1. code = v \div u - 5 BY <1>1, Zenon DEF Suffix
      <3>2. PICK q : q = v \div u OBVIOUS
      <3>3. q \in Nat BY <2>2, <3>2
      <3>4. code = q - 5 BY <3>1, <3>2
      <3>5. q = code + 5 BY <3>3, <3>4
      <3> QED BY <3>2, <3>5
    <2> QED BY <1>5, <2>2, <2>3, Zenon
  <1>9. bins \in Nat BY <1>2, <1>7, <1>8
  <1>10. ASSUME p = 12 PROVE bins < 2 ^ 15
    <2>p. 2 ^ 15 = 32768 OBVIOUS
    <2>0. z = 4096 BY <1>3, <1>10
    <2>1. CASE u = 1 BY <1>0, <1>6, <1>7, <1>8, <2>p, <2>0, <2>1
    <2>2. CASE u = 2 BY <1>0, <1>6, <1>7, <1>8, <2>p, <2>0, <2>2
    <2>3. CASE u = 4 BY <1>0, <1>6, <1>7, <1>8, <2>p, <2>0, <2>3
    <2>4. CASE u = 8 BY <1>0, <1>6, <1>7, <1>8, <2>p, <2>0, <2>4
    <2> QED BY <1>2, <2>1, <2>2, <2>3, <2>4
  <1>11. ASSUME p < 12 PROVE bins < 2 ^ (p + rice + 1)
    <2>1. d < z BY <1>0, <1>4, <1>6, <1>7a, <1>11
    <2>2. PICK n : n = p + rice OBVIOUS
    <2>3. 2 ^ n = z * u
      <3>1. p \in 0 .. 24 /\ rice \in 0 .. 8 BY <1>0
      <3> QED BY <1>1, <1>3, <2>2, <3>1, PowersProduct
    <2>4. bins < z * u
      <3>1. CASE u = 1 BY <1>4, <1>7, <1>8, <2>1, <3>1
      <3>2. CASE u = 2 BY <1>4, <1>7, <1>8, <2>1, <3>2
      <3>3. CASE u = 4 BY <1>4, <1>7, <1>8, <2>1, <3>3
      <3>4. CASE u = 8 BY <1>4, <1>7, <1>8, <2>1, <3>4
      <3> QED BY <1>2, <3>1, <3>2, <3>3, <3>4
    <2>5. n \in 0 .. 31 BY <1>0, <2>2
    <2>6. 2 ^ n \in Nat /\ 2 ^ (n + 1) = 2 * 2 ^ n BY <2>5, PowerDoubles
    <2>7. bins < 2 ^ (n + 1) BY <1>9, <2>3, <2>4, <2>6
    <2> QED BY <2>2, <2>7
  <1> QED BY <1>9, <1>10, <1>11, Zenon

(* Below the cutoff the code is unary: length bins and rice bins. *)
Unary(v, rice) == EscapeCoded(v, rice) /\ v \div 2 ^ rice - 5 < 0

LEMMA UnaryFits ==
  ASSUME NEW v, NEW rice, Unary(v, rice)
  PROVE  /\ v \div 2 ^ rice + 1 \in 1 .. 5
         /\ 2 ^ (v \div 2 ^ rice + 1) - 2 \in Nat
         /\ 2 ^ (v \div 2 ^ rice + 1) - 2 < 2 ^ (v \div 2 ^ rice + 1)
         /\ v % 2 ^ rice \in Nat /\ v % 2 ^ rice < 2 ^ rice
  <1>0. v \in Nat /\ rice \in 0 .. 3 BY DEF Unary, EscapeCoded
  <1>1. PICK u : u = 2 ^ rice OBVIOUS
  <1>2. u \in Nat \ {0}
    <2>1. rice \in 0 .. 31 BY <1>0
    <2> QED BY <1>1, <2>1, PowerDoubles
  <1>3. v \div u \in Nat /\ v % u \in 0 .. u - 1 BY <1>0, <1>2, Divides
  <1>4. PICK n : n = v \div u + 1 OBVIOUS
  <1>5. v \div u - 5 < 0 BY <1>1, Zenon DEF Unary
  <1>6. n \in 1 .. 5 BY <1>3, <1>4, <1>5
  <1>7. 2 ^ n \in Nat /\ 2 ^ n >= 2
    <2>1. CASE n = 1 BY <2>1
    <2>2. CASE n = 2 BY <2>2
    <2>3. CASE n = 3 BY <2>3
    <2>4. CASE n = 4 BY <2>4
    <2>5. CASE n = 5 BY <2>5
    <2> QED BY <1>6, <2>1, <2>2, <2>3, <2>4, <2>5
  <1>8. 2 ^ n - 2 \in Nat /\ 2 ^ n - 2 < 2 ^ n BY <1>7
  <1>9. v % u \in Nat /\ v % u < u BY <1>2, <1>3
  <1> QED BY <1>1, <1>4, <1>6, <1>8, <1>9, Zenon

LEMMA EncodeRemAbsKeeps ==
  ASSUME NEW e, EncoderOk(e), NEW v, NEW rice, EscapeCoded(v, rice)
  PROVE  EncoderOk(EncodeRemAbs(e, v, rice))
  <1>0. v \in Nat /\ rice \in 0 .. 3 BY DEF EscapeCoded
  <1>1. PICK code : code = v \div 2 ^ rice - 5 OBVIOUS
  <1>2. PICK low : low = v % 2 ^ rice OBVIOUS
  <1>3. Cutoff = 5 /\ DynamicRange = 15 BY DEF Cutoff, DynamicRange
  <1>3a. MaxPrefix = 12 BY <1>3 DEF MaxPrefix
  <1>4. code \in Int
    <2>1. PICK u : u = 2 ^ rice OBVIOUS
    <2>2. u \in Nat \ {0}
      <3>1. rice \in 0 .. 31 BY <1>0
      <3> QED BY <2>1, <3>1, PowerDoubles
    <2>3. v \div u \in Nat BY <1>0, <2>2, Divides
    <2> QED BY <1>1, <2>1, <2>3
  <1>5. CASE code < 0
    <2>1. PICK n : n = v \div 2 ^ rice + 1 OBVIOUS
    <2>2. n \in 1 .. 5 /\ 2 ^ n - 2 \in Nat /\ 2 ^ n - 2 < 2 ^ n /\ low \in Nat /\ low < 2 ^ rice
      <3>1. Unary(v, rice) BY <1>1, <1>5, Zenon DEF Unary
      <3> QED BY <1>2, <2>1, <3>1, UnaryFits, Zenon
    <2>3. PICK f : f = EncodeBinsEP(e, 2 ^ n - 2, n) OBVIOUS
    <2>4. n \in 0 .. 32 /\ rice \in 0 .. 32 BY <1>0, <2>2
    <2>5. EncoderOk(f) BY <2>2, <2>3, <2>4, EncodeBinsKeeps
    <2>6. EncoderOk(EncodeBinsEP(f, low, rice)) BY <2>2, <2>4, <2>5, EncodeBinsKeeps
    <2>7. EncodeRemAbs(e, v, rice) = EncodeBinsEP(f, low, rice)
      BY <1>1, <1>2, <1>3, <1>5, <2>1, <2>3, Zenon DEF EncodeRemAbs
    <2> QED BY <2>6, <2>7
  <1>6. CASE ~(code < 0)
    <2>1. PICK p : p = PrefixLength(code) OBVIOUS
    <2>2. code \in Nat BY <1>4, <1>6
    <2>3. /\ p \in 0 .. 12 /\ code >= 2 ^ p - 1
          /\ code <= 2 ^ (p + 1) - 2 \/ (p = 12 /\ code >= 2 ^ 12 - 1)
      <3>1. 2 ^ 12 = 4096 OBVIOUS
      <3> QED BY <2>1, <2>2, <3>1, PrefixLengthIs
    <2>4. PICK bins : bins = (code - (2 ^ p - 1)) * 2 ^ rice + low OBVIOUS
    <2>5. bins \in Nat /\ (p = 12 => bins < 2 ^ 15) /\ (p < 12 => bins < 2 ^ (p + rice + 1))
      <3>1. Suffix(v, rice, p, code, bins)
        BY <1>1, <1>2, <2>2, <2>3, <2>4, Zenon DEF Suffix
      <3> QED BY <3>1, SuffixFits
    <2>6. PICK s : s = IF p = 12 THEN 15 ELSE p + rice + 1 OBVIOUS
    <2>7. s \in 0 .. 32 /\ bins < 2 ^ s
      <3>1. CASE p = 12
        <4> QED BY <2>5, <2>6, <3>1
      <3>2. CASE p # 12
        <4>1. p < 12 BY <2>3, <3>2
        <4>2. s = p + rice + 1 BY <2>6, <3>2
        <4>3. bins < 2 ^ s BY <2>5, <4>1, <4>2
        <4>4. s \in 0 .. 32 BY <1>0, <2>3, <4>2
        <4> QED BY <4>3, <4>4
      <3> QED BY <3>1, <3>2
    <2>8. PICK n : n = p + 5 OBVIOUS
    <2>9. n \in 0 .. 31 /\ n \in 0 .. 32 BY <2>3, <2>8
    <2>10. PICK z : z = 2 ^ n OBVIOUS
    <2>11. z \in Nat \ {0} BY <2>9, <2>10, PowerDoubles
    <2>12. z - 1 \in Nat /\ z - 1 < z BY <2>11
    <2>13. PICK f : f = EncodeBinsEP(e, z - 1, n) OBVIOUS
    <2>14. EncoderOk(f)
      <3>1. PICK b : b = z - 1 OBVIOUS
      <3>2. b \in Nat /\ b < 2 ^ n BY <2>10, <2>12, <3>1
      <3>3. EncoderOk(EncodeBinsEP(e, b, n)) BY <2>9, <3>2, EncodeBinsKeeps
      <3> QED BY <2>13, <3>1, <3>3
    <2>15. EncoderOk(EncodeBinsEP(f, bins, s)) BY <2>5, <2>7, <2>14, EncodeBinsKeeps
    <2>16. EncodeRemAbs(e, v, rice) = EncodeBinsEP(f, bins, s)
      BY <1>1, <1>2, <1>3, <1>3a, <1>6, <2>1, <2>4, <2>6, <2>8, <2>10, <2>13,
         Zenon DEF EncodeRemAbs
    <2> QED BY <2>15, <2>16
  <1> QED BY <1>5, <1>6

(* Every symbol leaves the registers as they have to be. *)
LEMMA EncodedKeeps ==
  ASSUME NEW e, EncoderOk(e), NEW s \in Symbols
  PROVE  EncoderOk(Encoded(e, s))
  <1>1. /\ s.kind \in SymbolKinds /\ s.v \in Nat
        /\ s.kind \in {"bin", "ep", "trm"} => s.v \in 0 .. 1
        /\ s.kind = "bins" => s.n \in 0 .. 32 /\ s.v < 2 ^ s.n
        /\ s.kind = "rem" => s.n \in 0 .. 3 /\ s.v <= 2 ^ 15
    BY CoderAssumption
  <1>2. CASE s.kind = "bin"
    <2>1. Encoded(e, s) = EncodeBin(e, BinOf(e, s)) BY <1>2 DEF Encoded
    <2> QED BY <2>1, EncodeBinKeeps
  <1>3. CASE s.kind = "ep"
    <2>1. Encoded(e, s) = EncodeBinsEP(e, s.v, 1) BY <1>3 DEF Encoded
    <2>2. 1 \in 0 .. 32 /\ s.v \in Nat /\ s.v < 2 ^ 1 BY <1>1, <1>3
    <2> QED BY <2>1, <2>2, EncodeBinsKeeps
  <1>4. CASE s.kind = "bins"
    <2>1. Encoded(e, s) = EncodeBinsEP(e, s.v, s.n) BY <1>4 DEF Encoded
    <2> QED BY <1>1, <1>4, <2>1, EncodeBinsKeeps
  <1>5. CASE s.kind = "rem"
    <2>1. Encoded(e, s) = EncodeRemAbs(e, s.v, s.n) BY <1>5 DEF Encoded
    <2>3. EscapeCoded(s.v, s.n) BY <1>1, <1>5, Zenon DEF EscapeCoded
    <2> QED BY <2>1, <2>3, EncodeRemAbsKeeps
  <1>6. CASE s.kind = "trm"
    <2>1. Encoded(e, s) = EncodeTrm(e, 0) BY <1>6 DEF Encoded
    <2> QED BY <2>1, EncodeTrmKeeps
  <1> QED BY <1>1, <1>2, <1>3, <1>4, <1>5, <1>6 DEF SymbolKinds

----------------------------------------------------------------------------
(* The bytes that finish writes.                                           *)

(* What EncoderOk says of the registers, in the words of RegistersFit. *)
LEMMA EncoderRegistersFit ==
  ASSUME NEW e, EncoderOk(e)
  PROVE  /\ e.range \in 64 .. 510 /\ e.left \in 12 .. 23
         /\ e.low + e.range <= 2 ^ (33 - e.left)
         /\ e.low >= 2 ^ (32 - e.left) => e.held > 0 /\ e.byte < 255
         /\ \A k \in DOMAIN e.out : e.out[k] \in 0 .. 255
  <1>1. e \in EncoderRegisters BY EncoderFacts
  <1>2. /\ e.held \in Nat /\ e.byte \in 0 .. 255 /\ e.out \in Seq(0 .. 255)
    BY <1>1 DEF EncoderRegisters
  <1>2a. e.low \in Nat /\ e.range \in 64 .. 510 /\ e.left \in 12 .. 23 BY EncoderFacts
  <1>3. PICK low \in Nat, range \in 64 .. 510, left \in 12 .. 23 :
             low = e.low /\ range = e.range /\ left = e.left
    BY <1>2a, Zenon
  <1>4. PICK l : l = CarryLimit(e.held, e.byte, e.out) OBVIOUS
  <1>5. l \in {255, 256, 512} /\ (l = 512 => e.held # 0 /\ e.byte # 255)
    BY <1>4 DEF CarryLimit
  <1>6. PICK a : a = 24 - left OBVIOUS
  <1>7. a \in 1 .. 12 BY <1>6
  <1>8. PICK u : u = 2 ^ a OBVIOUS
  <1>9. low + range <= l * u BY <1>3, <1>4, <1>6, <1>8 DEF EncoderOk
  <1>10. u \in Nat \ {0} /\ 2 ^ (a + 8) = u * 256 /\ 2 ^ (a + 9) = u * 512
    <2>1. PICK m : m = a + 8 OBVIOUS
    <2>2. a \in 0 .. 24 /\ 8 \in 0 .. 8 /\ m \in 0 .. 31 /\ m + 1 = a + 9 BY <1>7, <2>1
    <2>3. 2 ^ m = 2 ^ a * 2 ^ 8 /\ 2 ^ a \in Nat \ {0} BY <2>1, <2>2, PowersProduct
    <2>4. 2 ^ (m + 1) = 2 * 2 ^ m BY <2>2, PowerDoubles
    <2>5. u \in Nat \ {0} /\ 2 ^ m = u * 256 BY <1>8, <2>3
    <2>6. 2 ^ (m + 1) = u * 512 BY <2>4, <2>5
    <2>7. PICK k : k = a + 9 OBVIOUS
    <2>8. 2 ^ k = u * 512 BY <2>2, <2>6, <2>7
    <2> QED BY <2>1, <2>5, <2>7, <2>8
  <1>11. 33 - left = a + 9 /\ 32 - left = a + 8 BY <1>6
  <1>12. low + range <= u * 512
    <2>1. CASE l = 255 BY <1>9, <1>10, <2>1
    <2>2. CASE l = 256 BY <1>9, <1>10, <2>2
    <2>3. CASE l = 512 BY <1>9, <1>10, <2>3
    <2> QED BY <1>5, <2>1, <2>2, <2>3
  <1>13. low >= u * 256 => e.held # 0 /\ e.byte # 255
    <2>1. CASE l = 255 BY <1>9, <1>10, <2>1
    <2>2. CASE l = 256 BY <1>9, <1>10, <2>2
    <2>3. CASE l = 512 BY <1>5, <2>3
    <2> QED BY <1>5, <2>1, <2>2, <2>3
  <1>14. e.low + e.range <= 2 ^ (33 - e.left) BY <1>3, <1>10, <1>11, <1>12
  <1>15. e.low >= 2 ^ (32 - e.left) => e.held > 0 /\ e.byte < 255
    <2>1. 2 ^ (32 - e.left) = u * 256 BY <1>3, <1>10, <1>11
    <2>2. e.low >= 2 ^ (32 - e.left) => e.held # 0 /\ e.byte # 255
      BY <1>3, <1>13, <2>1, Zenon
    <2>3. PICK held \in Nat, byte \in 0 .. 255 : held = e.held /\ byte = e.byte
      BY <1>2, Zenon
    <2>4. (held # 0 => held > 0) /\ (byte # 255 => byte < 255) BY <2>3
    <2> QED BY <2>2, <2>3, <2>4, Zenon
  <1>16. \A k \in DOMAIN e.out : e.out[k] \in 0 .. 255
    <2>1. PICK out : out = e.out OBVIOUS
    <2>2. out \in Seq(0 .. 255) BY <1>2, <2>1
    <2>3. DOMAIN out = 1 .. Len(out) BY <2>2, LenProperties
    <2>4. \A k \in 1 .. Len(out) : out[k] \in 0 .. 255 BY <2>2, ElementOfSeq
    <2>5. ASSUME NEW k \in DOMAIN e.out PROVE e.out[k] \in 0 .. 255
      <3>1. k \in 1 .. Len(out) BY <2>1, <2>3, <2>5
      <3>2. out[k] \in 0 .. 255 BY <2>4, <3>1
      <3> QED BY <2>1, <3>2
    <2> QED BY <2>5, Zenon
  <1> QED BY <1>2a, <1>14, <1>15, <1>16, Zenon

LEMMA Joined ==
  ASSUME NEW s \in Seq(0 .. 255), NEW t \in Seq(0 .. 255)
  PROVE  /\ s \o t \in Seq(0 .. 255) /\ Len(s \o t) = Len(s) + Len(t)
         /\ s # <<>> => s \o t # <<>> /\ (s \o t)[1] = s[1]
         /\ s = <<>> => s \o t = t
  <1>1. PICK o : o = s \o t OBVIOUS
  <1>2. o \in Seq(0 .. 255) /\ Len(o) = Len(s) + Len(t) /\ \A k \in 1 .. Len(s) + Len(t) :
            o[k] = IF k <= Len(s) THEN s[k] ELSE t[k - Len(s)]
    BY <1>1, ConcatProperties
  <1>3. ASSUME s # <<>> PROVE o # <<>> /\ o[1] = s[1]
    <2>1. PICK m : m = Len(s) OBVIOUS
    <2>2. m \in Nat /\ m > 0 BY <1>3, <2>1, EmptySeq
    <2>3. Len(t) \in Nat OBVIOUS
    <2>4. o[1] = s[1] /\ Len(o) > 0 BY <1>2, <2>1, <2>2, <2>3
    <2> QED BY <2>4
  <1>4. s = <<>> => o = t BY <1>1, ConcatEmptySeq
  <1> QED BY <1>1, <1>2, <1>3, <1>4, Zenon

(* The bits of m_Low that finish writes, the stop bit and the padding.     *)
LastBits(low, n) == ((low % 2 ^ (n + 8)) \div 256) * 2 + 1
LastBytes(low, n) ==
    LET pad == (15 - n) % 8
        last == LastBits(low, n)
    IN  IF n + 1 > 8 THEN <<(last * 2 ^ pad) \div 256, (last * 2 ^ pad) % 256>>
        ELSE <<last * 2 ^ pad>>
HeldBytes(held, byte, carry) ==
    IF carry > 0 THEN <<byte + 1>> \o Repeated(0, held - 1)
    ELSE IF held > 0 THEN <<byte>> \o Repeated(255, held - 1) ELSE <<>>

(* n + 1 bits and the padding are whole bytes; where the interval ends     *)
(* before 255, the first of two is less than 255.                          *)
LastFor(low, n, t) == low \in Nat /\ n \in 1 .. 12 /\ t = LastBytes(low, n)

LEMMA LastBytesFit ==
  ASSUME NEW low, NEW n, NEW t, LastFor(low, n, t)
  PROVE  /\ t \in Seq(0 .. 255) /\ Len(t) > 0
         /\ low + 256 <= 255 * 2 ^ n /\ Len(t) > 1 => t[1] <= 254
  <1>0. low \in Nat /\ n \in 1 .. 12 /\ t = LastBytes(low, n) BY DEF LastFor
  <1> USE <1>0
  <1>1. PICK u : u = 2 ^ (n + 8) OBVIOUS
  <1>2. PICK z : z = 2 ^ n OBVIOUS
  <1>3. PICK pad : pad = (15 - n) % 8 OBVIOUS
  <1>4. PICK m : m = (low % u) \div 256 OBVIOUS
  <1>5. z \in Nat \ {0} /\ u = z * 256
    <2>1. n \in 0 .. 24 /\ 8 \in 0 .. 8 OBVIOUS
    <2>2. 2 ^ (n + 8) = 2 ^ n * 2 ^ 8 /\ 2 ^ n \in Nat \ {0} BY <2>1, PowersMultiply
    <2> QED BY <1>1, <1>2, <2>2
  <1>6. PICK r : r = low % u OBVIOUS
  <1>7. r \in 0 .. u - 1 /\ r <= low
    <2>1. u \in Nat \ {0} BY <1>5
    <2>2. low \div u \in Nat /\ r \in 0 .. u - 1 /\ low = (low \div u) * u + r
      BY <1>6, <2>1, Divides
    <2>3. PICK q : q = (low \div u) * u OBVIOUS
    <2>4. q \in Nat BY <2>1, <2>2, <2>3
    <2> QED BY <2>2, <2>3, <2>4
  <1>8. m \in 0 .. z - 1 /\ m * 256 <= low
    <2>1. m = r \div 256 BY <1>4, <1>6
    <2>2. r < z * 256 BY <1>5, <1>7
    <2>3. r \in Nat /\ m \in Nat /\ m * 256 <= r /\ r < m * 256 + 256
      <3>1. r \in Nat BY <1>5, <1>7
      <3> QED BY <2>1, <3>1
    <2>4. m < z BY <1>5, <2>2, <2>3
    <2>5. m * 256 <= low BY <1>5, <1>7, <2>3
    <2>6. m \in 0 .. z - 1 BY <1>5, <2>3, <2>4
    <2> QED BY <2>5, <2>6, Zenon
  <1>9. PICK last : last = m * 2 + 1 OBVIOUS
  <1>10. LastBits(low, n) = last BY <1>1, <1>4, <1>9 DEF LastBits
  <1>11. PICK p : p = 2 ^ pad OBVIOUS
  <1>12. PICK w : w = last * p OBVIOUS
  <1>13. LastBytes(low, n) = IF n + 1 > 8 THEN <<w \div 256, w % 256>> ELSE <<w>>
    BY <1>3, <1>10, <1>11, <1>12, Zenon DEF LastBytes
  <1>14. CASE n <= 7
    <2>1. w \in 0 .. 255
      <3>1. CASE n = 1 BY <1>2, <1>3, <1>8, <1>9, <1>11, <1>12, <3>1
      <3>2. CASE n = 2 BY <1>2, <1>3, <1>8, <1>9, <1>11, <1>12, <3>2
      <3>3. CASE n = 3 BY <1>2, <1>3, <1>8, <1>9, <1>11, <1>12, <3>3
      <3>4. CASE n = 4 BY <1>2, <1>3, <1>8, <1>9, <1>11, <1>12, <3>4
      <3>5. CASE n = 5 BY <1>2, <1>3, <1>8, <1>9, <1>11, <1>12, <3>5
      <3>6. CASE n = 6 BY <1>2, <1>3, <1>8, <1>9, <1>11, <1>12, <3>6
      <3>7. CASE n = 7 BY <1>2, <1>3, <1>8, <1>9, <1>11, <1>12, <3>7
      <3> QED BY <1>14, <3>1, <3>2, <3>3, <3>4, <3>5, <3>6, <3>7
    <2>2. LastBytes(low, n) = <<w>> BY <1>13, <1>14
    <2> QED BY <2>1, <2>2
  <1>15. CASE n > 7
    <2>1. /\ w \in Nat /\ w <= 65535
          /\ low + 256 <= 255 * 2 ^ n => w < 65280
      <3>1. CASE n = 8
        <4>1. (15 - 8) % 8 = 7 /\ 2 ^ 8 = 256 /\ 2 ^ 7 = 128 BY SMT
        <4>2. pad = 7 BY <1>3, <3>1, <4>1
        <4>3. p = 128 BY <1>11, <4>1, <4>2
        <4>4. z = 256 /\ 2 ^ n = 256 BY <1>2, <3>1, <4>1
        <4>5. w = last * 128 BY <1>12, <4>3
        <4> QED BY <1>8, <1>9, <4>4, <4>5, SMT
      <3>2. CASE n = 9
        <4>1. (15 - 9) % 8 = 6 /\ 2 ^ 9 = 512 /\ 2 ^ 6 = 64 BY SMT
        <4>2. pad = 6 BY <1>3, <3>2, <4>1
        <4>3. p = 64 BY <1>11, <4>1, <4>2
        <4>4. z = 512 /\ 2 ^ n = 512 BY <1>2, <3>2, <4>1
        <4>5. w = last * 64 BY <1>12, <4>3
        <4> QED BY <1>8, <1>9, <4>4, <4>5, SMT
      <3>3. CASE n = 10
        <4>1. (15 - 10) % 8 = 5 /\ 2 ^ 10 = 1024 /\ 2 ^ 5 = 32 BY SMT
        <4>2. pad = 5 BY <1>3, <3>3, <4>1
        <4>3. p = 32 BY <1>11, <4>1, <4>2
        <4>4. z = 1024 /\ 2 ^ n = 1024 BY <1>2, <3>3, <4>1
        <4>5. w = last * 32 BY <1>12, <4>3
        <4> QED BY <1>8, <1>9, <4>4, <4>5, SMT
      <3>4. CASE n = 11
        <4>1. (15 - 11) % 8 = 4 /\ 2 ^ 11 = 2048 /\ 2 ^ 4 = 16 BY SMT
        <4>2. pad = 4 BY <1>3, <3>4, <4>1
        <4>3. p = 16 BY <1>11, <4>1, <4>2
        <4>4. z = 2048 /\ 2 ^ n = 2048 BY <1>2, <3>4, <4>1
        <4>5. w = last * 16 BY <1>12, <4>3
        <4> QED BY <1>8, <1>9, <4>4, <4>5, SMT
      <3>5. CASE n = 12
        <4>1. (15 - 12) % 8 = 3 /\ 2 ^ 12 = 4096 /\ 2 ^ 3 = 8 BY SMT
        <4>2. pad = 3 BY <1>3, <3>5, <4>1
        <4>3. p = 8 BY <1>11, <4>1, <4>2
        <4>4. z = 4096 /\ 2 ^ n = 4096 BY <1>2, <3>5, <4>1
        <4>5. w = last * 8 BY <1>12, <4>3
        <4> QED BY <1>8, <1>9, <4>4, <4>5, SMT
      <3> QED BY <1>15, <3>1, <3>2, <3>3, <3>4, <3>5
    <2>2. PICK a : a = w \div 256 OBVIOUS
    <2>3. PICK b : b = w % 256 OBVIOUS
    <2>4. a \in 0 .. 255 /\ b \in 0 .. 255 /\ (low + 256 <= 255 * 2 ^ n => a <= 254)
      BY <2>1, <2>2, <2>3
    <2>5. LastBytes(low, n) = <<a, b>> BY <1>13, <1>15, <2>2, <2>3
    <2> QED BY <2>4, <2>5
  <1> QED BY <1>14, <1>15

(* The bytes held back take the carry, and the first stays below 255.      *)
HeldFor(held, byte, carry, g) ==
    /\ held \in Nat /\ byte \in 0 .. 255 /\ carry \in Nat
    /\ carry > 0 => held > 0 /\ byte < 255
    /\ g = HeldBytes(held, byte, carry)

LEMMA HeldBytesFit ==
  ASSUME NEW held, NEW byte, NEW carry, NEW g, HeldFor(held, byte, carry, g)
  PROVE  /\ g \in Seq(0 .. 255) /\ (g = <<>> <=> held = 0)
         /\ held > 0 => g[1] = IF carry > 0 THEN byte + 1 ELSE byte
  <1>0. /\ held \in Nat /\ byte \in 0 .. 255 /\ carry \in Nat
        /\ carry > 0 => held > 0 /\ byte < 255
        /\ g = HeldBytes(held, byte, carry)
    BY DEF HeldFor
  <1> USE <1>0
  <1>1. CASE carry > 0
    <2>1. PICK b \in 0 .. 255 : b = byte + 1 BY <1>1
    <2>2. PICK k \in Nat : k = held - 1 BY <1>1
    <2>2a. PICK f \in 0 .. 255 : f = 0 OBVIOUS
    <2>3. PICK s : s = Repeated(f, k) OBVIOUS
    <2>4. s \in Seq(0 .. 255) BY <2>2, <2>2a, <2>3, RepeatedBytes
    <2>5. <<b>> \in Seq(0 .. 255) /\ <<b>> # <<>> /\ <<b>>[1] = b OBVIOUS
    <2>6. PICK h : h = <<b>> \o s OBVIOUS
    <2>7. h \in Seq(0 .. 255) /\ h # <<>> /\ h[1] = b BY <2>4, <2>5, <2>6, Joined
    <2>8. HeldBytes(held, byte, carry) = h
      BY <1>1, <2>1, <2>2, <2>2a, <2>3, <2>6, Zenon DEF HeldBytes
    <2> QED BY <1>1, <2>1, <2>7, <2>8
  <1>2. CASE ~(carry > 0) /\ held > 0
    <2>2. PICK k \in Nat : k = held - 1 BY <1>2
    <2>2a. PICK f \in 0 .. 255 : f = 255 OBVIOUS
    <2>3. PICK s : s = Repeated(f, k) OBVIOUS
    <2>4. s \in Seq(0 .. 255) BY <2>2, <2>2a, <2>3, RepeatedBytes
    <2>5. <<byte>> \in Seq(0 .. 255) /\ <<byte>> # <<>> /\ <<byte>>[1] = byte OBVIOUS
    <2>6. PICK h : h = <<byte>> \o s OBVIOUS
    <2>7. h \in Seq(0 .. 255) /\ h # <<>> /\ h[1] = byte BY <2>4, <2>5, <2>6, Joined
    <2>8. HeldBytes(held, byte, carry) = h
      BY <1>2, <2>2, <2>2a, <2>3, <2>6, Zenon DEF HeldBytes
    <2> QED BY <1>2, <2>7, <2>8
  <1>3. CASE ~(carry > 0) /\ ~(held > 0)
    <2>1. HeldBytes(held, byte, carry) = <<>> BY <1>3, Zenon DEF HeldBytes
    <2>2. <<>> \in Seq(0 .. 255) OBVIOUS
    <2> QED BY <1>3, <2>1, <2>2
  <1> QED BY <1>1, <1>2, <1>3

(* The bytes of a substream, and the first below 255: a decoder that       *)
(* starts with them is inside its interval.                                *)
SubstreamOk(s) == s \in Seq(0 .. 255) /\ (Len(s) > 1 => s[1] <= 254)

FinishParts(e, low, n) ==
    Finish(e) = e.out \o HeldBytes(e.held, e.byte, low \div 2 ^ (n + 8)) \o LastBytes(low, n)

LEMMA FinishIs ==
  ASSUME NEW e, NEW low, NEW n, low = e.low, n = 24 - e.left
  PROVE  FinishParts(e, low, n)
  BY DEF FinishParts, Finish, HeldBytes, LastBytes, LastBits

LEMMA FinishedSubstream ==
  ASSUME NEW e, EncoderOk(e), e.range = 256
  PROVE  SubstreamOk(Finish(e))
  <1>1. e \in EncoderRegisters BY EncoderFacts
  <1>2. e.low \in Nat /\ e.left \in 12 .. 23 /\ e.held \in Nat /\ e.byte \in 0 .. 255 /\ e.out \in Seq(0 .. 255)
    BY <1>1 DEF EncoderRegisters
  <1>3a. PICK low, left, held, byte, out :
             low = e.low /\ left = e.left /\ held = e.held /\ byte = e.byte /\ out = e.out
    OBVIOUS
  <1>3b. low \in Nat /\ left \in 12 .. 23 /\ held \in Nat /\ byte \in 0 .. 255 /\ out \in Seq(0 .. 255)
    BY <1>2, <1>3a, Zenon
  <1>3. /\ low = e.low /\ left = e.left /\ held = e.held /\ byte = e.byte /\ out = e.out
        /\ low \in Nat /\ left \in 12 .. 23 /\ held \in Nat /\ byte \in 0 .. 255 /\ out \in Seq(0 .. 255)
    BY <1>3a, <1>3b, Zenon
  <1>4. PICK n : n = 24 - left OBVIOUS
  <1>5. n \in 1 .. 12 BY <1>3b, <1>4
  <1>6. PICK l : l = CarryLimit(held, byte, out) OBVIOUS
  <1>7. PICK z : z = 2 ^ n OBVIOUS
  <1>8. low + 256 <= l * z BY <1>3, <1>4, <1>6, <1>7, Zenon DEF EncoderOk
  <1>9. HeldBytesOk(held, byte, out) BY <1>3, Zenon DEF EncoderOk
  <1>10. PICK u : u = 2 ^ (n + 8) OBVIOUS
  <1>11. z \in Nat \ {0} /\ u = z * 256
    <2>0. PICK m : m = n + 8 OBVIOUS
    <2>1. n \in 0 .. 24 /\ 8 \in 0 .. 8 BY <1>5
    <2>2. 2 ^ m = 2 ^ n * 2 ^ 8 /\ 2 ^ n \in Nat \ {0} BY <2>0, <2>1, PowersProduct
    <2>3. u = 2 ^ m BY <1>10, <2>0, Zenon
    <2> QED BY <1>7, <2>2, <2>3
  <1>12. PICK carry : carry = low \div u OBVIOUS
  <1>13. carry \in Nat /\ (carry > 0 => low >= u)
    <2>1. u \in Nat \ {0} BY <1>11
    <2>2. low \div u \in Nat /\ low % u \in 0 .. u - 1 /\ low = (low \div u) * u + (low % u)
      BY <1>3b, <2>1, Divides
    <2>3. PICK r : r = low % u OBVIOUS
    <2>4. carry \in Nat /\ r \in Nat /\ r < u /\ low = carry * u + r
      BY <1>12, <2>1, <2>2, <2>3
    <2>5. ASSUME carry > 0 PROVE low >= u
      <3>1. 1 * u <= carry * u BY <2>1, <2>4, <2>5, ScaledLess
      <3>2. PICK y : y = carry * u OBVIOUS
      <3> QED BY <2>1, <2>4, <3>1, <3>2
    <2> QED BY <2>4, <2>5
  <1>14. carry > 0 => l = 512
    <2>1. l \in {255, 256, 512} BY <1>6 DEF CarryLimit
    <2>2. CASE l = 255 BY <1>3b, <1>8, <1>11, <1>13, <2>2
    <2>3. CASE l = 256 BY <1>3b, <1>8, <1>11, <1>13, <2>3
    <2> QED BY <2>1, <2>2, <2>3
  <1>15. carry > 0 => held # 0 /\ byte # 255 /\ (out = <<>> => byte # 254)
    BY <1>6, <1>14 DEF CarryLimit
  <1>16. PICK h : h = HeldBytes(held, byte, carry) OBVIOUS
  <1>17. /\ h \in Seq(0 .. 255) /\ (h = <<>> <=> held = 0)
         /\ held > 0 => h[1] = IF carry > 0 THEN byte + 1 ELSE byte
    <2>1. carry > 0 => held > 0 /\ byte < 255 BY <1>3b, <1>15
    <2> QED 
      <3>1. HeldFor(held, byte, carry, h)
        BY <1>3b, <1>13, <1>16, <2>1, Zenon DEF HeldFor
      <3> QED BY <3>1, HeldBytesFit
  <1>18. out = <<>> /\ held > 0 => h[1] <= 254
    <2>1. out = <<>> /\ held > 0 => byte <= 254 BY <1>9 DEF HeldBytesOk
    <2>2. CASE carry > 0 BY <1>3b, <1>15, <1>17, <2>1, <2>2
    <2>3. CASE ~(carry > 0) BY <1>3b, <1>17, <2>1, <2>3
    <2> QED BY <2>2, <2>3
  <1>19. PICK t : t = LastBytes(low, n) OBVIOUS
  <1>20. /\ t \in Seq(0 .. 255) /\ Len(t) > 0
         /\ low + 256 <= 255 * z /\ Len(t) > 1 => t[1] <= 254
    <2>1. /\ t \in Seq(0 .. 255) /\ Len(t) > 0
          /\ low + 256 <= 255 * 2 ^ n /\ Len(t) > 1 => t[1] <= 254
      <3>1. LastFor(low, n, t) BY <1>3b, <1>5, <1>19, Zenon DEF LastFor
      <3> QED BY <3>1, LastBytesFit
    <2> QED BY <1>7, <2>1
  <1>21. PICK o : o = out \o h OBVIOUS
  <1>22. /\ o \in Seq(0 .. 255)
         /\ out # <<>> => o # <<>> /\ o[1] = out[1]
         /\ out = <<>> => o = h
    BY <1>3b, <1>17, <1>21, Joined
  <1>23. PICK s : s = o \o t OBVIOUS
  <1>24. /\ s \in Seq(0 .. 255)
         /\ o # <<>> => s # <<>> /\ s[1] = o[1]
         /\ o = <<>> => s = t
    BY <1>20, <1>22, <1>23, Joined
  <1>25. Finish(e) = s
    <2>1. Finish(e) = e.out \o HeldBytes(e.held, e.byte, low \div 2 ^ (n + 8)) \o LastBytes(low, n)
      <3>1. n = 24 - e.left /\ low = e.low BY <1>3, <1>4, Zenon
      <3>2. FinishParts(e, low, n) BY <3>1, FinishIs
      <3> QED BY <3>2, Zenon DEF FinishParts
    <2> QED BY <1>3, <1>10, <1>12, <1>16, <1>19, <1>21, <1>23, <2>1, Zenon
  <1>26. Len(s) > 1 => s[1] <= 254
    <2>1. CASE out # <<>>
      <3>1. out[1] <= 254 BY <1>9, <2>1 DEF HeldBytesOk
      <3> QED BY <1>22, <1>24, <2>1, <3>1
    <2>2. CASE out = <<>> /\ held > 0
      <3>1. h # <<>> /\ h[1] <= 254 BY <1>17, <1>18, <2>2
      <3> QED BY <1>22, <1>24, <2>2, <3>1
    <2>3. CASE out = <<>> /\ ~(held > 0)
      <3>1. held = 0 BY <1>3b, <2>3
      <3>2. l = 255 BY <1>6, <3>1 DEF CarryLimit
      <3>3. s = t BY <1>17, <1>22, <1>24, <2>3, <3>1
      <3> QED BY <1>8, <1>20, <3>2, <3>3
    <2> QED BY <2>1, <2>2, <2>3
  <1> QED BY <1>24, <1>25, <1>26, Zenon DEF SubstreamOk

----------------------------------------------------------------------------
(* The decoder's registers: the value is inside the interval, and its bits *)
(* that have not been read are zero.                                       *)

Reader(value, range, needed, pos, failed, ctx) ==
    [value |-> value, range |-> range, needed |-> needed, pos |-> pos, failed |-> failed, ctx |-> ctx]

LEMMA ReaderFields ==
  ASSUME NEW value, NEW range, NEW needed, NEW pos, NEW failed, NEW ctx,
         NEW d, d = Reader(value, range, needed, pos, failed, ctx)
  PROVE  d.value = value /\ d.range = range /\ d.needed = needed /\ d.pos = pos
         /\ d.failed = failed /\ d.ctx = ctx
  BY DEF Reader

LEMMA ReaderIsRecord ==
  ASSUME NEW d \in DecoderRegisters
  PROVE  /\ d = Reader(d.value, d.range, d.needed, d.pos, d.failed, d.ctx)
         /\ d.value \in Nat /\ d.range \in 64 .. 510 /\ d.needed \in -8 .. -1 /\ d.pos \in Nat \ {0}
         /\ d.failed \in BOOLEAN /\ d.ctx \in CoderContexts
  BY DEF DecoderRegisters, Reader

(* The bits of m_Value that are read, and the part of the interval it is in. *)
InScale(value, needed, x) ==
    /\ value \in Nat /\ needed \in -8 .. -1 /\ x \in Nat
    /\ \E k \in Nat : value = k * 2 ^ (8 + needed)
    /\ value < x * 128

(* n bits more, and the byte b where it is due. *)
Shift(v, m, x, n, b) == InScale(v, m, x) /\ n \in 0 .. 8 /\ b \in 0 .. 255

LEMMA ShiftKeeps ==
  ASSUME NEW v, NEW m, NEW x, NEW n, NEW b, Shift(v, m, x, n, b)
  PROVE  /\ m + n < 0 => InScale(v * 2 ^ n, m + n, x * 2 ^ n)
         /\ m + n >= 0 => InScale(v * 2 ^ n + b * 2 ^ (m + n), m + n - 8, x * 2 ^ n)
  <1>1. /\ v \in Nat /\ m \in -8 .. -1 /\ x \in Nat /\ n \in 0 .. 8 /\ b \in 0 .. 255
        /\ \E k \in Nat : v = k * 2 ^ (8 + m)
    BY Zenon DEF Shift, InScale
  <1>2. v < x * 128 BY Zenon DEF Shift, InScale
  <1>3. PICK k \in Nat : v = k * 2 ^ (8 + m) BY <1>1
  <1>4. PICK a : a = 8 + m OBVIOUS
  <1>5. PICK r : r = 7 - a OBVIOUS
  <1>6. PICK s : s = a + n OBVIOUS
  <1>7. /\ a \in 0 .. 24 /\ a \in 0 .. 7 /\ r \in 0 .. 8 /\ 7 = a + r /\ n \in 0 .. 8
    BY <1>1, <1>4, <1>5
  <1>8. PICK g : g = 2 ^ a OBVIOUS
  <1>9. PICK p : p = 2 ^ n OBVIOUS
  <1>10. PICK h : h = 2 ^ r OBVIOUS
  <1>11. 2 ^ s = g * p /\ g \in Nat \ {0} /\ p \in 1 .. 256
    BY <1>6, <1>7, <1>8, <1>9, PowersProduct, Zenon
  <1>12. g * h = 128 /\ h \in Nat
    <2>1. PICK i : i = 7 OBVIOUS
    <2>2. i = a + r BY <1>7, <2>1
    <2>3. 2 ^ i = g * h /\ h \in 1 .. 256
      BY <1>7, <1>8, <1>10, <2>2, PowersProduct, Zenon
    <2>4. 2 ^ i = 128 BY <2>1
    <2> QED BY <2>3, <2>4
  <1>13. v = k * g BY <1>3, <1>4, <1>8, Zenon
  <1>14. PICK y : y = x * h OBVIOUS
  <1>15. y \in Nat /\ x * 128 = y * g
    <2>1. y \in Nat BY <1>1, <1>12, <1>14
    <2>2. x * (g * h) = (x * h) * g BY <1>1, <1>11, <1>12, SMT
    <2> QED BY <1>12, <1>14, <2>1, <2>2
  <1>16. k + 1 <= y
    <2>1. CASE y <= k
      <3>1. y * g <= k * g BY <1>11, <1>15, <2>1, ScaledLess
      <3>2. PICK i : i = y * g OBVIOUS
      <3>3. i \in Nat BY <1>11, <1>15, <3>2
      <3> QED BY <1>1, <1>2, <1>13, <1>15, <3>1, <3>2, <3>3
    <2> QED BY <1>15, <2>1
  <1>17. PICK xp : xp = x * p OBVIOUS
  <1>18. PICK vp : vp = v * p OBVIOUS
  <1>19. xp \in Nat /\ vp \in Nat BY <1>1, <1>11, <1>17, <1>18
  <1>20. vp < xp * 128
    <2>1. PICK i : i = x * 128 OBVIOUS
    <2>2. i \in Nat /\ v + 1 <= i BY <1>1, <1>2, <2>1
    <2>3. (v + 1) * p <= i * p BY <1>1, <1>11, <2>2, ScaledLess
    <2>4. (v + 1) * p = vp + p BY <1>1, <1>11, <1>18
    <2>5. i * p = xp * 128 BY <1>1, <1>11, <1>17, <2>1
    <2> QED BY <1>11, <1>19, <2>3, <2>4, <2>5
  <1>21. ASSUME m + n < 0 PROVE InScale(vp, m + n, xp)
    <2>1. PICK t : t = m + n OBVIOUS
    <2>2. t \in -8 .. -1 /\ 8 + t = s BY <1>1, <1>4, <1>6, <1>21, <2>1
    <2>3. vp = k * 2 ^ s
      <3>1. (k * g) * p = k * (g * p) BY <1>11, SMT
      <3> QED BY <1>11, <1>13, <1>18, <3>1
    <2>4. \E j \in Nat : vp = j * 2 ^ (8 + t) BY <2>2, <2>3, Zenon
    <2> QED BY <1>19, <1>20, <2>1, <2>2, <2>4, Zenon DEF InScale
  <1>22. ASSUME m + n >= 0 PROVE InScale(vp + b * 2 ^ (m + n), m + n - 8, xp)
    <2>1. PICK t : t = m + n OBVIOUS
    <2>2. /\ t \in 0 .. 7 /\ t \in 0 .. 24 /\ 8 \in 0 .. 8 /\ s = t + 8
          /\ t - 8 \in -8 .. -1 /\ 8 + (t - 8) = t
      BY <1>1, <1>4, <1>6, <1>22, <2>1
    <2>3. PICK q : q = 2 ^ t OBVIOUS
    <2>4. 2 ^ s = q * 256 /\ q \in Nat \ {0}
      <3>1. 2 ^ s = 2 ^ t * 2 ^ 8 /\ 2 ^ t \in Nat \ {0} BY <2>2, PowersProduct, Zenon
      <3> QED BY <2>3, <3>1
    <2>5. g * p = q * 256 BY <1>11, <2>4
    <2>6. PICK j : j = k * 256 + b OBVIOUS
    <2>7. j \in Nat /\ j < (k + 1) * 256 BY <1>1, <2>6
    <2>8. vp + b * q = j * q
      <3>1. vp = k * (g * p)
        <4>1. (k * g) * p = k * (g * p) BY <1>11, SMT
        <4> QED BY <1>13, <1>18, <4>1
      <3>2. vp = k * (q * 256) BY <2>5, <3>1
      <3>3. k * (q * 256) + b * q = (k * 256 + b) * q BY <1>1, <2>4, SMT
      <3> QED BY <2>6, <3>2, <3>3
    <2>9. j * q < xp * 128
      <3>1. PICK u : u = y * 256 OBVIOUS
      <3>2. u \in Nat /\ j + 1 <= u BY <1>15, <1>16, <2>7, <3>1
      <3>3. (j + 1) * q <= u * q BY <2>4, <2>7, <3>2, ScaledLess
      <3>4. (j + 1) * q = j * q + q BY <2>4, <2>7
      <3>5. u * q = xp * 128
        <4>1. u * q = y * (q * 256) BY <1>15, <2>4, <3>1, SMT
        <4>2. y * (g * p) = (y * g) * p BY <1>11, <1>15, SMT
        <4>3. (x * 128) * p = (x * p) * 128 BY <1>1, <1>11, SMT
        <4> QED BY <1>15, <1>17, <2>5, <4>1, <4>2, <4>3
      <3>6. PICK w : w = j * q OBVIOUS
      <3>7. w \in Nat BY <2>4, <2>7, <3>6
      <3> QED BY <1>19, <2>4, <3>3, <3>4, <3>5, <3>6, <3>7
    <2>10. PICK w : w = vp + b * q OBVIOUS
    <2>11. w \in Nat /\ w < xp * 128 /\ w = j * q
      <3>1. j * q \in Nat BY <2>4, <2>7
      <3> QED BY <2>8, <2>9, <2>10, <3>1
    <2>12. PICK z : z = t - 8 OBVIOUS
    <2>13. \E i \in Nat : w = i * 2 ^ (8 + z) BY <2>2, <2>3, <2>7, <2>11, <2>12, Zenon
    <2>14. InScale(w, z, xp) BY <1>19, <2>2, <2>11, <2>12, <2>13, Zenon DEF InScale
    <2>15. 2 ^ (m + n) = q /\ m + n - 8 = z
      <3>1. 2 ^ (m + n) = q BY <2>1, <2>3, Zenon
      <3>2. m + n - 8 = z BY <1>1, <2>1, <2>12
      <3> QED BY <3>1, <3>2
    <2>16. InScale(vp + b * q, z, xp) BY <2>10, <2>14, Zenon
    <2>17. InScale(vp + b * 2 ^ (m + n), z, xp) BY <2>15, <2>16, Zenon
    <2> QED BY <2>15, <2>17, Zenon
  <1> QED BY <1>9, <1>17, <1>18, <1>21, <1>22, Zenon

(* The registers, the value in its part of an interval x. *)
Scaled(d, x) == d \in DecoderRegisters /\ InScale(d.value, d.needed, x)

LEMMA ScaledIsOk ==
  ASSUME NEW d
  PROVE  DecoderOk(d) <=> Scaled(d, d.range)
  <1>1. ASSUME d \in DecoderRegisters PROVE DecoderOk(d) <=> Scaled(d, d.range)
    <2>1. d.value \in Nat /\ d.range \in 64 .. 510 /\ d.needed \in -8 .. -1
      BY <1>1, ReaderIsRecord
    <2>2. d.range \in Nat BY <2>1
    <2> QED BY <1>1, <2>1, <2>2, Zenon DEF DecoderOk, Scaled, InScale, ReadBits
  <1> QED BY <1>1 DEF DecoderOk, Scaled

ReaderParts(value, range, needed, pos, failed, ctx, x) ==
    /\ range \in 64 .. 510 /\ pos \in Nat \ {0} /\ failed \in BOOLEAN
    /\ ctx \in CoderContexts /\ InScale(value, needed, x)

LEMMA ReaderIsScaled ==
  ASSUME NEW value, NEW range, NEW needed, NEW pos, NEW failed, NEW ctx, NEW x,
         ReaderParts(value, range, needed, pos, failed, ctx, x)
  PROVE  Scaled(Reader(value, range, needed, pos, failed, ctx), x)
  <1>1. /\ range \in 64 .. 510 /\ pos \in Nat \ {0} /\ failed \in BOOLEAN
        /\ ctx \in CoderContexts /\ InScale(value, needed, x)
    BY DEF ReaderParts
  <1>2. value \in Nat /\ needed \in -8 .. -1 BY <1>1 DEF InScale
  <1>3. PICK d : d = Reader(value, range, needed, pos, failed, ctx) OBVIOUS
  <1>4. d \in DecoderRegisters BY <1>1, <1>2, <1>3 DEF DecoderRegisters, Reader
  <1>5. d.value = value /\ d.needed = needed BY <1>3, ReaderFields
  <1> QED BY <1>1, <1>3, <1>4, <1>5, Zenon DEF Scaled

(* A byte is due. *)
DueRegisters ==
    [value : Nat, range : 64 .. 510, needed : 0 .. 7, pos : Nat \ {0}, failed : BOOLEAN,
     ctx : CoderContexts]

LEMMA ByteTaken ==
  ASSUME bytes \in Seq(0 .. 255), NEW d \in DueRegisters
  PROVE  \E b \in 0 .. 255, pos \in Nat \ {0}, failed \in BOOLEAN :
             [Taken(d, d.needed) EXCEPT !.needed = @ - 8] =
                 Reader(d.value + b * 2 ^ d.needed, d.range, d.needed - 8, pos, failed, d.ctx)
  <1>1. PICK value, range, needed, pos, failed, ctx :
             d = Reader(value, range, needed, pos, failed, ctx)
             /\ value \in Nat /\ needed \in 0 .. 7 /\ pos \in Nat \ {0} /\ failed \in BOOLEAN
    BY DEF DueRegisters, Reader
  <1>2. /\ d.value = value /\ d.range = range /\ d.needed = needed /\ d.pos = pos
        /\ d.failed = failed /\ d.ctx = ctx
    BY <1>1, ReaderFields
  <1>3. PICK q : q = 2 ^ needed OBVIOUS
  <1>3a. q \in Nat
    <2>1. needed \in 0 .. 31 BY <1>1
    <2> QED BY <1>3, <2>1, PowerDoubles
  <1>4. PICK m : m = needed - 8 OBVIOUS
  <1>5. PICK t : t = Taken(d, needed) OBVIOUS
  <1>6. \E b \in 0 .. 255, p2 \in Nat \ {0}, f2 \in BOOLEAN :
            t = Reader(value + b * q, range, needed, p2, f2, ctx)
    <2>1. CASE pos > Len(bytes)
      <3>1. t = [d EXCEPT !.failed = TRUE] BY <1>2, <1>5, <2>1, Zenon DEF Taken
      <3>2. t = Reader(value, range, needed, pos, TRUE, ctx) BY <1>1, <3>1 DEF Reader
      <3>3. PICK b \in 0 .. 255 : b = 0 OBVIOUS
      <3>4. value + b * q = value BY <1>1, <1>3a, <3>3
      <3> QED BY <1>1, <3>2, <3>3, <3>4, Zenon
    <2>2. CASE ~(pos > Len(bytes))
      <3>1. bytes[pos] \in 0 .. 255
        <4>1. Len(bytes) \in Nat OBVIOUS
        <4>2. pos \in 1 .. Len(bytes) BY <1>1, <2>2, <4>1
        <4> QED BY <4>2, ElementOfSeq
      <3>2. PICK b \in 0 .. 255 : b = bytes[pos] BY <3>1
      <3>3. PICK v : v = value + b * q OBVIOUS
      <3>4. PICK p2 : p2 = pos + 1 OBVIOUS
      <3>5. p2 \in Nat \ {0} BY <1>1, <3>4
      <3>6. PICK g : g = [d EXCEPT !.value = v] OBVIOUS
      <3>7. g = Reader(v, range, needed, pos, failed, ctx) BY <1>1, <3>6 DEF Reader
      <3>8. PICK h : h = [g EXCEPT !.pos = p2] OBVIOUS
      <3>9. h = Reader(v, range, needed, p2, failed, ctx) BY <3>7, <3>8 DEF Reader
      <3>10. t = h
        <4>1. d.value + bytes[d.pos] * 2 ^ needed = v BY <1>2, <1>3, <3>2, <3>3, Zenon
        <4>2. d.pos + 1 = p2 BY <1>2, <3>4, Zenon
        <4> QED BY <1>2, <1>5, <2>2, <3>6, <3>8, <4>1, <4>2, Zenon DEF Taken
      <3> QED BY <1>1, <3>2, <3>3, <3>5, <3>9, <3>10, Zenon
    <2> QED BY <2>1, <2>2
  <1>7. PICK b \in 0 .. 255, p2 \in Nat \ {0}, f2 \in BOOLEAN :
            t = Reader(value + b * q, range, needed, p2, f2, ctx)
    BY <1>6
  <1>8. t.needed = needed BY <1>7, ReaderFields
  <1>9. [t EXCEPT !.needed = m] = Reader(value + b * q, range, m, p2, f2, ctx)
    BY <1>7 DEF Reader
  <1>10. [Taken(d, d.needed) EXCEPT !.needed = @ - 8] = [t EXCEPT !.needed = m]
    BY <1>2, <1>4, <1>5, <1>8, Zenon
  <1>11. d.needed - 8 = m BY <1>1, <1>2, <1>4
  <1>12. Reader(d.value + b * 2 ^ d.needed, d.range, d.needed - 8, p2, f2, d.ctx) =
            Reader(value + b * q, range, m, p2, f2, ctx)
    BY <1>2, <1>3, <1>11, Zenon
  <1> QED BY <1>7, <1>9, <1>10, <1>12, Zenon

LEMMA AdvanceKeeps ==
  ASSUME bytes \in Seq(0 .. 255), NEW d, NEW x, Scaled(d, x), NEW n \in 0 .. 8
  PROVE  /\ Scaled(Advance(d, n), x * 2 ^ n)
         /\ Advance(d, n).range = d.range /\ Advance(d, n).ctx = d.ctx
  <1>1. d \in DecoderRegisters /\ InScale(d.value, d.needed, x) BY DEF Scaled
  <1>2. PICK value, range, needed, pos, failed, ctx :
            /\ value = d.value /\ range = d.range /\ needed = d.needed /\ pos = d.pos
            /\ failed = d.failed /\ ctx = d.ctx
    OBVIOUS
  <1>3. /\ d = Reader(value, range, needed, pos, failed, ctx)
        /\ value \in Nat /\ range \in 64 .. 510 /\ needed \in -8 .. -1 /\ pos \in Nat \ {0}
        /\ failed \in BOOLEAN /\ ctx \in CoderContexts
    BY <1>1, <1>2, ReaderIsRecord
  <1>4. InScale(value, needed, x) BY <1>1, <1>2, Zenon
  <1>5. PICK p : p = 2 ^ n OBVIOUS
  <1>6. PICK v : v = value * p OBVIOUS
  <1>7. PICK m : m = needed + n OBVIOUS
  <1>8. PICK g : g = [d EXCEPT !.value = v] OBVIOUS
  <1>9. g = Reader(v, range, needed, pos, failed, ctx) BY <1>3, <1>8 DEF Reader
  <1>10. PICK h : h = [g EXCEPT !.needed = m] OBVIOUS
  <1>11. h = Reader(v, range, m, pos, failed, ctx) BY <1>9, <1>10 DEF Reader
  <1>12. h = [d EXCEPT !.value = @ * 2 ^ n, !.needed = @ + n]
    <2>1. d.value * 2 ^ n = v /\ d.needed + n = m BY <1>2, <1>5, <1>6, <1>7, Zenon
    <2> QED BY <1>8, <1>10, <2>1, Zenon
  <1>13. h.value = v /\ h.range = range /\ h.needed = m /\ h.ctx = ctx
    BY <1>11, ReaderFields
  <1>14. m \in -8 .. 7 BY <1>3, <1>7
  <1>15. CASE m < 0
    <2>1. Advance(d, n) = h
      <3>1. ~(m >= 0) BY <1>14, <1>15
      <3> QED BY <1>12, <1>13, <3>1, Zenon DEF Advance, Refilled
    <2>2. InScale(v, m, x * p)
      <3>1. PICK b \in 0 .. 255 : b = 0 OBVIOUS
      <3>2. Shift(value, needed, x, n, b) BY <1>4, Zenon DEF Shift
      <3>3. InScale(value * 2 ^ n, needed + n, x * 2 ^ n)
        BY <1>7, <1>15, <3>2, ShiftKeeps
      <3> QED BY <1>5, <1>6, <1>7, <3>3, Zenon
    <2>3. Scaled(h, x * p)
      <3>1. ReaderParts(v, range, m, pos, failed, ctx, x * p)
        BY <1>3, <1>11, <2>2, Zenon DEF ReaderParts
      <3> QED BY <1>11, <3>1, ReaderIsScaled, Zenon
    <2> QED BY <1>2, <1>5, <1>13, <2>1, <2>3, Zenon
  <1>16. CASE m >= 0
    <2>1. h \in DueRegisters
      <3>1. v \in Nat
        <4>1. n \in 0 .. 31 OBVIOUS
        <4>2. p \in Nat BY <1>5, <4>1, PowerDoubles
        <4> QED BY <1>3, <1>6, <4>2
      <3>2. m \in 0 .. 7 BY <1>14, <1>16
      <3> QED BY <1>3, <1>11, <3>1, <3>2 DEF DueRegisters, Reader
    <2>2. PICK b \in 0 .. 255, p2 \in Nat \ {0}, f2 \in BOOLEAN :
              [Taken(h, h.needed) EXCEPT !.needed = @ - 8] =
                  Reader(h.value + b * 2 ^ h.needed, h.range, h.needed - 8, p2, f2, h.ctx)
      BY <2>1, ByteTaken
    <2>3. PICK r : r = Advance(d, n) OBVIOUS
    <2>4. r = [Taken(h, h.needed) EXCEPT !.needed = @ - 8]
      BY <1>12, <1>13, <1>16, <2>3, Zenon DEF Advance, Refilled
    <2>5. PICK w : w = v + b * 2 ^ m OBVIOUS
    <2>6. PICK k : k = m - 8 OBVIOUS
    <2>7. r = Reader(w, range, k, p2, f2, ctx) BY <1>13, <2>2, <2>4, <2>5, <2>6, Zenon
    <2>8. InScale(w, k, x * p)
      <3>2. Shift(value, needed, x, n, b) BY <1>4, <2>2, Zenon DEF Shift
      <3>3. InScale(value * 2 ^ n + b * 2 ^ (needed + n), needed + n - 8, x * 2 ^ n)
        BY <1>7, <1>16, <3>2, ShiftKeeps
      <3>4. needed + n - 8 = k BY <1>3, <1>7, <2>6
      <3>5. InScale(value * 2 ^ n + b * 2 ^ (needed + n), k, x * 2 ^ n)
        BY <3>3, <3>4, Zenon
      <3> QED BY <1>5, <1>6, <1>7, <2>5, <3>5, Zenon
    <2>9. Scaled(r, x * p)
      <3>1. ReaderParts(w, range, k, p2, f2, ctx, x * p)
        BY <1>3, <2>2, <2>7, <2>8, Zenon DEF ReaderParts
      <3> QED BY <2>7, <3>1, ReaderIsScaled, Zenon
    <2>10. r.range = range /\ r.ctx = ctx BY <2>7, ReaderFields
    <2> QED BY <1>2, <1>5, <2>3, <2>9, <2>10, Zenon
  <1> QED BY <1>14, <1>15, <1>16

----------------------------------------------------------------------------
(* Bypass bins are read.                                                   *)

(* What is left of the value when y of 128 are taken is below z of 128.    *)
Less(v, m, x, y, z) ==
    /\ InScale(v, m, x) /\ y \in Nat /\ z \in Nat
    /\ y * 128 <= v /\ v - y * 128 < z * 128

LEMMA LessKeeps ==
  ASSUME NEW v, NEW m, NEW x, NEW y, NEW z, Less(v, m, x, y, z)
  PROVE  InScale(v - y * 128, m, z)
  <1>1. /\ v \in Nat /\ m \in -8 .. -1 /\ y \in Nat /\ z \in Nat
        /\ \E k \in Nat : v = k * 2 ^ (8 + m)
    BY Zenon DEF Less, InScale
  <1>2. y * 128 <= v /\ v - y * 128 < z * 128 BY Zenon DEF Less
  <1>3. PICK k \in Nat : v = k * 2 ^ (8 + m) BY <1>1
  <1>4. PICK a : a = 8 + m OBVIOUS
  <1>5. PICK r : r = 7 - a OBVIOUS
  <1>6. a \in 0 .. 24 /\ r \in 0 .. 8 /\ 7 = a + r BY <1>1, <1>4, <1>5
  <1>7. PICK g : g = 2 ^ a OBVIOUS
  <1>8. PICK h : h = 2 ^ r OBVIOUS
  <1>9. g * h = 128 /\ g \in Nat \ {0} /\ h \in Nat
    <2>1. PICK i : i = 7 OBVIOUS
    <2>2. i = a + r BY <1>6, <2>1
    <2>3. 2 ^ i = g * h /\ g \in Nat \ {0} /\ h \in 1 .. 256
      BY <1>6, <1>7, <1>8, <2>2, PowersProduct, Zenon
    <2>4. 2 ^ i = 128 BY <2>1
    <2> QED BY <2>3, <2>4
  <1>10. v = k * g BY <1>3, <1>4, <1>7, Zenon
  <1>11. PICK t : t = y * h OBVIOUS
  <1>12. t \in Nat /\ y * 128 = t * g
    <2>1. t \in Nat BY <1>1, <1>9, <1>11
    <2>2. y * (g * h) = (y * h) * g BY <1>1, <1>9, SMT
    <2> QED BY <1>9, <1>11, <2>1, <2>2
  <1>13. t <= k
    <2>1. CASE k + 1 <= t
      <3>1. (k + 1) * g <= t * g BY <1>9, <1>12, <2>1, ScaledLess
      <3>2. (k + 1) * g = k * g + g BY <1>9
      <3>3. PICK i : i = k * g OBVIOUS
      <3>4. i \in Nat BY <1>9, <3>3
      <3>5. PICK j : j = y * 128 OBVIOUS
      <3>6. i + g <= j /\ j <= i BY <1>2, <1>10, <1>12, <3>1, <3>2, <3>3, <3>5
      <3> QED BY <1>9, <1>1, <3>4, <3>5, <3>6
    <2> QED BY <1>12, <2>1
  <1>14. PICK w : w = v - y * 128 OBVIOUS
  <1>15. w \in Nat /\ w < z * 128 BY <1>1, <1>2, <1>14
  <1>16. w = (k - t) * g
    <2>1. k * g - t * g = (k - t) * g BY <1>9, <1>12, SMT
    <2> QED BY <1>10, <1>12, <1>14, <2>1
  <1>17. k - t \in Nat BY <1>12, <1>13
  <1>18. \E j \in Nat : w = j * 2 ^ (8 + m) BY <1>4, <1>7, <1>16, <1>17, Zenon
  <1>19. InScale(w, m, z) BY <1>1, <1>15, <1>18, Zenon DEF InScale
  <1> QED BY <1>14, <1>19, Zenon

(* The same with the registers. *)
LEMMA RegistersLess ==
  ASSUME NEW d, NEW x, Scaled(d, x), NEW y, NEW z, Less(d.value, d.needed, x, y, z),
         NEW v, v = d.value - y * 128
  PROVE  /\ Scaled([d EXCEPT !.value = v], z)
         /\ [d EXCEPT !.value = v].range = d.range /\ [d EXCEPT !.value = v].ctx = d.ctx
  <1>1. d \in DecoderRegisters BY DEF Scaled
  <1>2. PICK value, range, needed, pos, failed, ctx :
            /\ value = d.value /\ range = d.range /\ needed = d.needed /\ pos = d.pos
            /\ failed = d.failed /\ ctx = d.ctx
    OBVIOUS
  <1>3. /\ d = Reader(value, range, needed, pos, failed, ctx)
        /\ value \in Nat /\ range \in 64 .. 510 /\ needed \in -8 .. -1 /\ pos \in Nat \ {0}
        /\ failed \in BOOLEAN /\ ctx \in CoderContexts
    BY <1>1, <1>2, ReaderIsRecord
  <1>4. InScale(v, needed, z) BY <1>2, LessKeeps, Zenon
  <1>5. PICK g : g = [d EXCEPT !.value = v] OBVIOUS
  <1>6. g = Reader(v, range, needed, pos, failed, ctx) BY <1>3, <1>5 DEF Reader
  <1>7. Scaled(g, z)
    <2>1. v \in Nat BY <1>4 DEF InScale
    <2>2. g \in DecoderRegisters BY <1>3, <1>6, <2>1 DEF DecoderRegisters, Reader
    <2>3. g.value = v /\ g.needed = needed BY <1>6, ReaderFields
    <2> QED BY <1>4, <2>2, <2>3, Zenon DEF Scaled
  <1>8. g.range = range /\ g.ctx = ctx BY <1>6, ReaderFields
  <1> QED BY <1>2, <1>5, <1>7, <1>8, Zenon

(* Bypass bins that are left to be read. *)
BinsLeft(w) == DecoderOk(w.d) /\ w.bins \in Nat /\ w.n \in 0 .. 32
SomeLeft(w, n) == BinsLeft(w) /\ n \in 0 .. 8 /\ n <= w.n

LEMMA BinsReadKeeps ==
  ASSUME bytes \in Seq(0 .. 255), NEW w, NEW n, SomeLeft(w, n)
  PROVE  /\ BinsLeft(BinsRead(w, n)) /\ BinsRead(w, n).n = w.n - n
         /\ w.bins = 0 /\ n = 1 => BinsRead(w, n).bins \in 0 .. 1
  <1>1. PICK d, bins, left : d = w.d /\ bins = w.bins /\ left = w.n OBVIOUS
  <1>2. DecoderOk(d) /\ bins \in Nat /\ left \in 0 .. 32 /\ n \in 0 .. 8 /\ n <= left
    BY <1>1, Zenon DEF SomeLeft, BinsLeft
  <1>3. PICK range : range = d.range OBVIOUS
  <1>4. Scaled(d, range) /\ range \in 64 .. 510
    <2>1. Scaled(d, range) BY <1>2, <1>3, ScaledIsOk
    <2> QED BY <2>1, <1>3, ReaderIsRecord DEF Scaled
  <1>5. PICK read : read = Advance(d, n) OBVIOUS
  <1>6. PICK p : p = 2 ^ n OBVIOUS
  <1>7. p \in Nat \ {0} /\ 2 ^ (n + 7) = p * 128
    <2>1. n \in 0 .. 24 /\ 7 \in 0 .. 8 BY <1>2
    <2>2. 2 ^ (n + 7) = 2 ^ n * 2 ^ 7 /\ 2 ^ n \in Nat \ {0} BY <2>1, PowersMultiply
    <2> QED BY <1>6, <2>2
  <1>8. PICK x : x = range * p OBVIOUS
  <1>9. Scaled(read, x) /\ read.range = range
    <2>1. Scaled(read, range * 2 ^ n) /\ read.range = d.range
      BY <1>2, <1>4, <1>5, AdvanceKeeps
    <2> QED BY <1>3, <1>6, <1>8, <2>1, Zenon
  <1>10. PICK v : v = read.value OBVIOUS
  <1>11. InScale(v, read.needed, x) BY <1>9, <1>10, Zenon DEF Scaled
  <1>12. v \in Nat /\ x \in Nat /\ v < x * 128 BY <1>11 DEF InScale
  <1>13. PICK u : u = range * 128 OBVIOUS
  <1>14. u \in Nat \ {0} BY <1>4, <1>13
  <1>15. PICK sr : sr = range * 2 ^ (n + 7) OBVIOUS
  <1>16. sr = x * 128 /\ sr = p * u
    <2>1. sr = range * (p * 128) BY <1>7, <1>15
    <2>2. range * (p * 128) = (range * p) * 128 BY <1>4, <1>7, SMT
    <2>3. range * (p * 128) = p * (range * 128) BY <1>4, <1>7, SMT
    <2> QED BY <1>8, <1>13, <2>1, <2>2, <2>3
  <1>17. sr \div p = u
    <2>1. sr = u * p /\ sr \in Nat
      <3>1. p * u = u * p /\ u * p \in Nat BY <1>7, <1>14
      <3> QED BY <1>16, <3>1
    <2>2. PICK q : q = sr \div p OBVIOUS
    <2>3. PICK r : r = sr % p OBVIOUS
    <2>4. q \in Nat /\ r \in 0 .. p - 1 /\ sr = q * p + r
      BY <1>7, <2>1, <2>2, <2>3, Divides
    <2>5. q = u
      <3>1. CASE q < u
        <4>1. q + 1 \in Nat /\ q + 1 <= u BY <1>14, <2>4, <3>1
        <4>2. (q + 1) * p <= u * p BY <1>7, <1>14, <4>1, ScaledLess
        <4>3. (q + 1) * p = q * p + p BY <1>7, <2>4
        <4>4. PICK i : i = q * p OBVIOUS
        <4>5. i \in Nat BY <1>7, <2>4, <4>4
        <4> QED BY <1>7, <2>1, <2>4, <4>2, <4>3, <4>4, <4>5
      <3>2. CASE u < q
        <4>1. u + 1 \in Nat /\ u + 1 <= q BY <1>14, <2>4, <3>2
        <4>2. (u + 1) * p <= q * p BY <1>7, <2>4, <4>1, ScaledLess
        <4>3. (u + 1) * p = u * p + p BY <1>7, <1>14
        <4>4. PICK i : i = q * p OBVIOUS
        <4>5. i \in Nat BY <1>7, <2>4, <4>4
        <4> QED BY <1>7, <2>1, <2>4, <4>2, <4>3, <4>4, <4>5
      <3> QED BY <1>14, <2>4, <3>1, <3>2
    <2> QED BY <2>2, <2>5
  <1>18. PICK b : b = v \div u OBVIOUS
  <1>19. b \in Nat /\ b < p /\ v = b * u + (v % u) /\ v % u \in 0 .. u - 1
    <2>1. v < p * u BY <1>12, <1>16
    <2>2. b < p BY <1>7, <1>12, <1>14, <1>18, <2>1, QuotientBelow
    <2> QED BY <1>12, <1>14, <1>18, <2>2, Divides
  <1>20. PICK y : y = b * range OBVIOUS
  <1>21. y \in Nat /\ y * 128 = b * u
    <2>1. (b * range) * 128 = b * (range * 128) BY <1>4, <1>19, SMT
    <2> QED BY <1>4, <1>13, <1>19, <1>20, <2>1
  <1>22. PICK z : z = v - y * 128 OBVIOUS
  <1>23. y * 128 <= v /\ v - y * 128 < range * 128
    <2>1. PICK i : i = b * u OBVIOUS
    <2>2. PICK r : r = v % u OBVIOUS
    <2>3. v = i + r /\ r \in 0 .. u - 1 /\ i \in Nat BY <1>14, <1>19, <2>1, <2>2
    <2> QED BY <1>13, <1>14, <1>21, <2>1, <2>3, SMTT(30)
  <1>24. PICK out : out = [read EXCEPT !.value = z] OBVIOUS
  <1>25. Scaled(out, range) /\ out.range = range
    <2>1. range \in Nat BY <1>4
    <2>2. Less(read.value, read.needed, x, y, range)
      BY <1>10, <1>11, <1>21, <1>23, <2>1, Zenon DEF Less
    <2> QED BY <1>9, <1>10, <1>22, <1>24, <2>2, RegistersLess
  <1>26. Divided(v, sr, n) = [bins |-> b, value |-> z]
    <2>1. v < sr BY <1>12, <1>16
    <2>2. z = v - b * u BY <1>21, <1>22, Zenon
    <2> QED BY <1>6, <1>17, <1>18, <2>1, <2>2, Zenon DEF Divided
  <1>27. PICK found : found = Divided(v, sr, n) OBVIOUS
  <1>28. found.bins = b /\ found.value = z BY <1>26, <1>27
  <1>29. PICK all : all = bins * p + b OBVIOUS
  <1>30. PICK more : more = left - n OBVIOUS
  <1>31. BinsRead(w, n) = [d |-> out, bins |-> all, n |-> more]
    BY <1>1, <1>5, <1>6, <1>9, <1>10, <1>15, <1>24, <1>27, <1>28, <1>29, <1>30,
       Zenon DEF BinsRead, BinsFound
  <1>32. PICK f : f = BinsRead(w, n) OBVIOUS
  <1>33. f.d = out /\ f.bins = all /\ f.n = more BY <1>31, <1>32
  <1>34. DecoderOk(out) BY <1>25, ScaledIsOk
  <1>35. all \in Nat /\ more \in 0 .. 32 BY <1>2, <1>7, <1>19, <1>29, <1>30
  <1>36. BinsLeft(f) BY <1>33, <1>34, <1>35, Zenon DEF BinsLeft
  <1>37. bins = 0 /\ n = 1 => all \in 0 .. 1
    <2>1. ASSUME bins = 0, n = 1 PROVE all \in 0 .. 1
      <3>1. p = 2 BY <1>6, <2>1
      <3> QED BY <1>19, <1>29, <2>1, <3>1
    <2> QED BY <2>1
  <1> QED BY <1>1, <1>30, <1>32, <1>33, <1>36, <1>37, Zenon

LEMMA DecodeEightKeeps ==
  ASSUME bytes \in Seq(0 .. 255), NEW w, BinsLeft(w)
  PROVE  /\ BinsLeft(DecodeEight(w))
         /\ w.n <= 8 => DecodeEight(w) = w
         /\ DecodeEight(w).n = IF w.n <= 8 THEN w.n ELSE w.n - 8
  <1>1. w.n \in 0 .. 32 BY DEF BinsLeft
  <1>2. CASE w.n <= 8
    <2>1. DecodeEight(w) = w BY <1>2, Zenon DEF DecodeEight
    <2> QED BY <1>2, <2>1
  <1>3. CASE ~(w.n <= 8)
    <2>1. DecodeEight(w) = BinsRead(w, 8) BY <1>3, Zenon DEF DecodeEight
    <2>2. PICK m : m = 8 OBVIOUS
    <2>3. m \in 0 .. 8 /\ m <= w.n BY <1>1, <1>3, <2>2
    <2>4. SomeLeft(w, m) BY <2>3, Zenon DEF SomeLeft
    <2>5. BinsLeft(BinsRead(w, m)) /\ BinsRead(w, m).n = w.n - m BY <2>4, BinsReadKeeps
    <2> QED BY <1>3, <2>1, <2>2, <2>5, Zenon
  <1> QED BY <1>2, <1>3

LEMMA DecodeUnalignedKeeps ==
  ASSUME bytes \in Seq(0 .. 255), NEW d, DecoderOk(d), NEW n \in 0 .. 32
  PROVE  /\ DecoderOk(DecodeUnaligned(d, n).d)
         /\ DecodeUnaligned(d, n).bins \in Nat
         /\ n = 1 => DecodeUnaligned(d, n).bins \in 0 .. 1
  <1>1. PICK w : w = [d |-> d, bins |-> 0, n |-> n] OBVIOUS
  <1>2. w.d = d /\ w.bins = 0 /\ w.n = n BY <1>1
  <1>3. BinsLeft(w) BY <1>2 DEF BinsLeft
  <1>4. PICK x : x = DecodeEight(w) OBVIOUS
  <1>5. BinsLeft(x) /\ (n <= 8 => x = w) /\ x.n = IF n <= 8 THEN n ELSE n - 8
    BY <1>2, <1>3, <1>4, DecodeEightKeeps
  <1>6. PICK y : y = DecodeEight(x) OBVIOUS
  <1>7. BinsLeft(y) /\ (x.n <= 8 => y = x) /\ y.n = IF x.n <= 8 THEN x.n ELSE x.n - 8
    BY <1>5, <1>6, DecodeEightKeeps
  <1>8. PICK z : z = DecodeEight(y) OBVIOUS
  <1>9. BinsLeft(z) /\ (y.n <= 8 => z = y) /\ z.n = IF y.n <= 8 THEN y.n ELSE y.n - 8
    BY <1>7, <1>8, DecodeEightKeeps
  <1>10. PICK a, b, c : a = x.n /\ b = y.n /\ c = z.n OBVIOUS
  <1>11. c \in 0 .. 8
    <2>4. a \in 0 .. 24 BY <1>5, <1>10
    <2>5. b = (IF a <= 8 THEN a ELSE a - 8) /\ c = (IF b <= 8 THEN b ELSE b - 8)
      BY <1>7, <1>9, <1>10, Zenon
    <2> QED BY <2>4, <2>5
  <1>12. SomeLeft(z, c)
    <2>1. c <= z.n BY <1>10, <1>11
    <2> QED BY <1>9, <1>11, <2>1, Zenon DEF SomeLeft
  <1>13. PICK r : r = BinsRead(z, c) OBVIOUS
  <1>14. BinsLeft(r) /\ (z.bins = 0 /\ c = 1 => r.bins \in 0 .. 1)
    BY <1>12, <1>13, BinsReadKeeps
  <1>15. DecodeUnaligned(d, n) = r
    BY <1>1, <1>4, <1>6, <1>8, <1>10, <1>13, Zenon DEF DecodeUnaligned, DecodeRest
  <1>16. PICK out : out = DecodeUnaligned(d, n) OBVIOUS
  <1>17. out.d = r.d /\ out.bins = r.bins BY <1>15, <1>16, Zenon
  <1>18. n = 1 => z.bins = 0 /\ c = 1
    <2>1. ASSUME n = 1 PROVE z.bins = 0 /\ c = 1
      <3>1. x = w /\ x.n = 1 BY <1>2, <1>5, <2>1
      <3>2. y = x BY <1>7, <3>1
      <3>3. z = y BY <1>9, <3>1, <3>2
      <3> QED BY <1>2, <1>10, <3>1, <3>2, <3>3
    <2> QED BY <2>1
  <1> QED BY <1>14, <1>16, <1>17, <1>18, Zenon DEF BinsLeft

(* With a range of 256 the bins are the upper bits of m_Value. *)
AlignedLeft(w) == BinsLeft(w) /\ w.d.range = 256

UpperOf(v, b) == v \in Nat /\ v < 2 ^ 15 /\ b \in 0 .. 8

LEMMA UpperBits ==
  ASSUME NEW v, NEW b, UpperOf(v, b)
  PROVE  \E t \in Nat, y \in Nat, c \in Nat :
            /\ c = 2 ^ (8 - b) /\ c * 2 ^ b = 256
            /\ t = v \div 2 ^ (15 - b) /\ t % 2 ^ b \in Nat
            /\ y * 128 <= v /\ v - y * 128 < c * 128
            /\ (v * 2 ^ b) % 2 ^ 15 = (v - y * 128) * 2 ^ b
  <1>0. v \in Nat /\ b \in 0 .. 8 BY DEF UpperOf
  <1>w. PICK w : w = 2 ^ (15 - b) OBVIOUS
  <1>p. PICK p : p = 2 ^ b OBVIOUS
  <1>c. PICK c : c = 2 ^ (8 - b) OBVIOUS
  <1>1. w * p = 32768 /\ c * p = 256 /\ w = c * 128 /\ p \in Nat \ {0} /\ c \in Nat \ {0}
    <2>c0. CASE b = 0 BY <1>w, <1>p, <1>c, <2>c0
    <2>c1. CASE b = 1 BY <1>w, <1>p, <1>c, <2>c1
    <2>c2. CASE b = 2 BY <1>w, <1>p, <1>c, <2>c2
    <2>c3. CASE b = 3 BY <1>w, <1>p, <1>c, <2>c3
    <2>c4. CASE b = 4 BY <1>w, <1>p, <1>c, <2>c4
    <2>c5. CASE b = 5 BY <1>w, <1>p, <1>c, <2>c5
    <2>c6. CASE b = 6 BY <1>w, <1>p, <1>c, <2>c6
    <2>c7. CASE b = 7 BY <1>w, <1>p, <1>c, <2>c7
    <2>c8. CASE b = 8 BY <1>w, <1>p, <1>c, <2>c8
    <2> QED BY <1>0, <2>c0, <2>c1, <2>c2, <2>c3, <2>c4, <2>c5, <2>c6, <2>c7, <2>c8
  <1>2. w \in Nat \ {0} BY <1>1
  <1>3. PICK t : t = v \div w OBVIOUS
  <1>4. PICK r : r = v % w OBVIOUS
  <1>5. t \in Nat /\ r \in 0 .. w - 1 /\ v = t * w + r
    BY <1>0, <1>2, <1>3, <1>4, Divides
  <1>6. PICK y : y = t * c OBVIOUS
  <1>7. y \in Nat /\ y * 128 = t * w
    <2>1. (t * c) * 128 = t * (c * 128) BY <1>1, <1>5, SMT
    <2> QED BY <1>1, <1>5, <1>6, <2>1
  <1>8. v - y * 128 = r
    <2>1. PICK i : i = t * w OBVIOUS
    <2>2. i \in Nat BY <1>2, <1>5, <2>1
    <2> QED BY <1>5, <1>7, <2>1, <2>2
  <1>9. t % p \in Nat
    <2>1. PICK i : i = t % p OBVIOUS
    <2>2. i \in 0 .. p - 1 BY <1>1, <1>5, <2>1, Divides
    <2> QED BY <2>1, <2>2, <1>1
  <1>10. (v * p) % 32768 = r * p
    <2>1. v * p = t * 32768 + r * p
      <3>1. (t * w + r) * p = t * (w * p) + r * p BY <1>1, <1>2, <1>5, SMT
      <3> QED BY <1>1, <1>5, <3>1
    <2>2. PICK j : j = r * p OBVIOUS
    <2>3. j \in Nat /\ j < 32768
      <3>1. r + 1 \in Nat /\ r + 1 <= w BY <1>2, <1>5
      <3>2. (r + 1) * p <= w * p BY <1>1, <1>2, <3>1, ScaledLess
      <3>3. (r + 1) * p = j + p /\ j \in Nat BY <1>1, <1>2, <1>5, <2>2
      <3> QED BY <1>1, <3>2, <3>3
    <2>4. (t * 32768 + j) % 32768 = j BY <1>5, <2>3, SMT
    <2> QED BY <2>1, <2>2, <2>4
  <1>11. 2 ^ 15 = 32768 OBVIOUS
  <1>12. y * 128 <= v /\ v - y * 128 < c * 128 BY <1>0, <1>1, <1>2, <1>5, <1>7, <1>8
  <1>13. (v * p) % 2 ^ 15 = (v - y * 128) * p BY <1>8, <1>10, <1>11
  <1>14. c \in Nat BY <1>1
  <1>15. t = v \div 2 ^ (15 - b) /\ t % 2 ^ b \in Nat BY <1>w, <1>p, <1>3, <1>9, Zenon
  <1>16. c * 2 ^ b = 256 /\ (v * 2 ^ b) % 2 ^ 15 = (v - y * 128) * 2 ^ b
    <2>1. c * 2 ^ b = 256 BY <1>p, <1>1
    <2>2. (v * 2 ^ b) % 2 ^ 15 = (v - y * 128) * 2 ^ b BY <1>p, <1>13
    <2> QED BY <2>1, <2>2
  <1>17. t \in Nat /\ y \in Nat BY <1>5, <1>7
  <1> QED BY <1>c, <1>12, <1>14, <1>15, <1>16, <1>17

LEMMA AlignedEightKeeps ==
  ASSUME bytes \in Seq(0 .. 255), NEW w, AlignedLeft(w)
  PROVE  AlignedLeft(DecodeAlignedEight(w))
  <1>1. PICK d, bins, left : d = w.d /\ bins = w.bins /\ left = w.n OBVIOUS
  <1>2. DecoderOk(d) /\ bins \in Nat /\ left \in 0 .. 32 /\ d.range = 256
    BY <1>1, Zenon DEF AlignedLeft, BinsLeft
  <1>3. CASE left = 0
    <2>1. DecodeAlignedEight(w) = w BY <1>1, <1>3, Zenon DEF DecodeAlignedEight
    <2> QED BY <2>1
  <1>4. CASE left # 0
    <2>1. PICK b : b = IF left < 8 THEN left ELSE 8 OBVIOUS
    <2>2. b \in 0 .. 8 /\ b <= left BY <1>2, <2>1
    <2>3. PICK v : v = d.value OBVIOUS
    <2>4. PICK x : x = d.range OBVIOUS
    <2>5. Scaled(d, x) BY <1>2, <2>4, ScaledIsOk
    <2>6. InScale(v, d.needed, x) BY <2>3, <2>5, Zenon DEF Scaled
    <2>7. v \in Nat /\ v < 2 ^ 15
      <3>1. v \in Nat /\ v < x * 128 BY <2>6, Zenon DEF InScale
      <3>2. 2 ^ 15 = 32768 OBVIOUS
      <3> QED BY <1>2, <2>4, <3>1, <3>2
    <2>8. PICK t \in Nat, y \in Nat, c \in Nat :
            /\ c = 2 ^ (8 - b) /\ c * 2 ^ b = 256
            /\ t = v \div 2 ^ (15 - b) /\ t % 2 ^ b \in Nat
            /\ y * 128 <= v /\ v - y * 128 < c * 128
            /\ (v * 2 ^ b) % 2 ^ 15 = (v - y * 128) * 2 ^ b
      <3>1. UpperOf(v, b) BY <2>2, <2>7, Zenon DEF UpperOf
      <3> QED BY <3>1, UpperBits
    <2>9. PICK z : z = v - y * 128 OBVIOUS
    <2>10. PICK g : g = [d EXCEPT !.value = z] OBVIOUS
    <2>11. Scaled(g, c) /\ g.range = d.range
      <3>1. Less(d.value, d.needed, x, y, c) BY <2>3, <2>6, <2>8, Zenon DEF Less
      <3> QED BY <2>3, <2>5, <2>9, <2>10, <3>1, RegistersLess
    <2>12. PICK q : q = 2 ^ b OBVIOUS
    <2>13. PICK i : i = (v * q) % 2 ^ 15 OBVIOUS
    <2>14. i = z * q BY <2>8, <2>9, <2>12, <2>13, Zenon
    <2>15. PICK m : m = d.needed + b OBVIOUS
    <2>16. g.value = z /\ g.needed = d.needed
      <3>1. d \in DecoderRegisters BY <2>5 DEF Scaled
      <3>2. d = Reader(d.value, d.range, d.needed, d.pos, d.failed, d.ctx)
        BY <3>1, ReaderIsRecord
      <3>3. g = Reader(z, d.range, d.needed, d.pos, d.failed, d.ctx)
        BY <2>10, <3>2 DEF Reader
      <3> QED BY <3>3, ReaderFields
    <2>17. PICK cut : cut = [d EXCEPT !.value = (@ * 2 ^ b) % 2 ^ 15, !.needed = @ + b] OBVIOUS
    <2>18. PICK moved : moved = [g EXCEPT !.value = @ * 2 ^ b, !.needed = @ + b] OBVIOUS
    <2>19. cut = moved
      <3>1. d \in DecoderRegisters BY <2>5 DEF Scaled
      <3>2. d = Reader(d.value, d.range, d.needed, d.pos, d.failed, d.ctx)
        BY <3>1, ReaderIsRecord
      <3>3. PICK di : di = [d EXCEPT !.value = i] OBVIOUS
      <3>4. di = Reader(i, d.range, d.needed, d.pos, d.failed, d.ctx)
        BY <3>2, <3>3 DEF Reader
      <3>5. PICK gi : gi = [g EXCEPT !.value = i] OBVIOUS
      <3>6. g = Reader(z, d.range, d.needed, d.pos, d.failed, d.ctx)
        BY <2>10, <3>2 DEF Reader
      <3>7. gi = Reader(i, d.range, d.needed, d.pos, d.failed, d.ctx)
        BY <3>5, <3>6 DEF Reader
      <3>8. cut = [di EXCEPT !.needed = m]
        BY <2>3, <2>12, <2>13, <2>15, <2>17, <3>3, Zenon
      <3>9. moved = [gi EXCEPT !.needed = m]
        BY <2>12, <2>14, <2>15, <2>16, <2>18, <3>5, Zenon
      <3> QED BY <3>4, <3>7, <3>8, <3>9, Zenon
    <2>20. PICK read : read = Advance(g, b) OBVIOUS
    <2>21. read = Refilled(cut)
      BY <2>18, <2>19, <2>20, Zenon DEF Advance
    <2>22. Scaled(read, c * 2 ^ b) /\ read.range = g.range
      BY <2>2, <2>11, <2>20, AdvanceKeeps
    <2>23. read.range = x /\ x = 256 BY <1>2, <2>4, <2>11, <2>22
    <2>24. Scaled(read, x) BY <2>8, <2>22, <2>23, Zenon
    <2>25. DecoderOk(read) BY <2>23, <2>24, ScaledIsOk
    <2>26. PICK f : f = t % q OBVIOUS
    <2>27. f \in Nat BY <2>8, <2>12, <2>26
    <2>28. PICK all : all = bins * q + f OBVIOUS
    <2>29. PICK more : more = left - b OBVIOUS
    <2>30. all \in Nat /\ more \in 0 .. 32
      <3>1. b \in 0 .. 31 BY <2>2
      <3>2. q \in Nat BY <2>12, <3>1, PowerDoubles
      <3>3. all \in Nat BY <1>2, <2>27, <2>28, <3>2
      <3> QED BY <1>2, <2>2, <2>29, <3>3
    <2>31. DecodeAlignedEight(w) = [d |-> read, bins |-> all, n |-> more]
      <3>1. AlignedRead(w, b) = [d |-> read, bins |-> all, n |-> more]
        BY <1>1, <2>3, <2>8, <2>12, <2>17, <2>21, <2>26, <2>28, <2>29,
           Zenon DEF AlignedRead
      <3>2. DecodeAlignedEight(w) = AlignedRead(w, b)
        BY <1>1, <1>4, <2>1, Zenon DEF DecodeAlignedEight
      <3> QED BY <3>1, <3>2
    <2>32. PICK o : o = DecodeAlignedEight(w) OBVIOUS
    <2>33. o.d = read /\ o.bins = all /\ o.n = more BY <2>31, <2>32
    <2>34. AlignedLeft(o) BY <2>23, <2>25, <2>30, <2>33, Zenon DEF AlignedLeft, BinsLeft
    <2> QED BY <2>32, <2>34
  <1> QED BY <1>3, <1>4

LEMMA DecodeBinsKeeps ==
  ASSUME bytes \in Seq(0 .. 255), NEW d, DecoderOk(d), NEW n \in 0 .. 32
  PROVE  DecoderOk(DecodeBinsEP(d, n).d) /\ DecodeBinsEP(d, n).bins \in Nat
  <1>1. CASE d.range = 256
    <2>1. PICK w : w = [d |-> d, bins |-> 0, n |-> n] OBVIOUS
    <2>2. w.d = d /\ w.bins = 0 /\ w.n = n BY <2>1
    <2>3. AlignedLeft(w) BY <1>1, <2>2 DEF AlignedLeft, BinsLeft
    <2>4. PICK x : x = DecodeAlignedEight(w) OBVIOUS
    <2>5. AlignedLeft(x) BY <2>3, <2>4, AlignedEightKeeps
    <2>6. PICK y : y = DecodeAlignedEight(x) OBVIOUS
    <2>7. AlignedLeft(y) BY <2>5, <2>6, AlignedEightKeeps
    <2>8. PICK z : z = DecodeAlignedEight(y) OBVIOUS
    <2>9. AlignedLeft(z) BY <2>7, <2>8, AlignedEightKeeps
    <2>10. PICK r : r = DecodeAlignedEight(z) OBVIOUS
    <2>11. AlignedLeft(r) BY <2>9, <2>10, AlignedEightKeeps
    <2>12. DecodeBinsEP(d, n) = r
      BY <1>1, <2>1, <2>4, <2>6, <2>8, <2>10, Zenon DEF DecodeBinsEP, DecodeAligned
    <2>13. DecodeBinsEP(d, n).d = r.d /\ DecodeBinsEP(d, n).bins = r.bins
      BY <2>12, Zenon
    <2> QED BY <2>11, <2>13 DEF AlignedLeft, BinsLeft
  <1>2. CASE ~(d.range = 256)
    <2>1. DecodeBinsEP(d, n) = DecodeUnaligned(d, n) BY <1>2, Zenon DEF DecodeBinsEP
    <2> QED BY <2>1, DecodeUnalignedKeeps
  <1> QED BY <1>1, <1>2

----------------------------------------------------------------------------
(* Bins with a context, the terminating bin and escape codes are read.     *)

LEMMA WithBinsFields ==
  ASSUME NEW d, NEW bins, NEW r, r = WithBins(d, bins)
  PROVE  r.d = d /\ r.bins = bins
  BY DEF WithBins

LEMMA DecodeBinKeeps ==
  ASSUME bytes \in Seq(0 .. 255), NEW d, DecoderOk(d)
  PROVE  DecoderOk(DecodeBin(d).d) /\ DecodeBin(d).bins \in Nat
  <1>1. PICK value, range, needed, pos, failed, ctx :
            /\ value = d.value /\ range = d.range /\ needed = d.needed /\ pos = d.pos
            /\ failed = d.failed /\ ctx = d.ctx
    OBVIOUS
  <1>2. Scaled(d, range) BY <1>1, ScaledIsOk
  <1>3. /\ d = Reader(value, range, needed, pos, failed, ctx)
        /\ value \in Nat /\ range \in 64 .. 510 /\ needed \in -8 .. -1 /\ pos \in Nat \ {0}
        /\ failed \in BOOLEAN /\ ctx \in CoderContexts
    BY <1>1, <1>2, ReaderIsRecord DEF Scaled
  <1>4. InScale(value, needed, range) BY <1>1, <1>2, Zenon DEF Scaled
  <1>5. value < range * 128 BY <1>4 DEF InScale
  <1>6a. PICK lps : lps = Lps(d.ctx, d.range) OBVIOUS
  <1>6. lps = Lps(ctx, range) BY <1>1, <1>6a, Zenon
  <1>7. lps \in 1 .. 255 /\ lps <= range - 32 BY <1>3, <1>6, LpsBound
  <1>8a. PICK mps : mps = d.range - lps OBVIOUS
  <1>8. mps = range - lps BY <1>1, <1>8a, Zenon
  <1>9. mps \in 32 .. 510 /\ mps + lps = range BY <1>3, <1>7, <1>8
  <1>10. PICK n : n = RenormBits(lps) OBVIOUS
  <1>11. PICK lr : lr = lps * 2 ^ n OBVIOUS
  <1>12. n \in 1 .. 6 /\ lr \in 64 .. 510 BY <1>7, <1>10, <1>11, Renormalised
  <1>14. PICK bin : bin = IF d.value < mps * 128 THEN Mps(d.ctx) ELSE 1 - Mps(d.ctx) OBVIOUS
  <1>15a. PICK c : c = Updated(d.ctx, bin) OBVIOUS
  <1>15. c = Updated(ctx, bin) BY <1>1, <1>15a, Zenon
  <1>16. c \in CoderContexts BY <1>3, <1>15, ContextMoves
  <1>17. PICK new : new = [d EXCEPT !.ctx = c] OBVIOUS
  <1>18. new = Reader(value, range, needed, pos, failed, c) BY <1>3, <1>17 DEF Reader
  <1>19. new.value = value BY <1>18, ReaderFields
  <1>20. PICK out : out = DecodeBin(d).d OBVIOUS
  <1>21. /\ ~(d.value < mps * 128) =>
               DecodeBin(d) = WithBins(Advance([new EXCEPT !.value = @ - mps * 128, !.range = lr], n), bin)
         /\ d.value < mps * 128 /\ mps < 256 =>
               DecodeBin(d) = WithBins(Advance([new EXCEPT !.range = mps * 2], 1), bin)
         /\ d.value < mps * 128 /\ ~(mps < 256) => DecodeBin(d) = WithBins([new EXCEPT !.range = mps], bin)
    BY <1>6a, <1>8a, <1>10, <1>11, <1>14, <1>15a, <1>17, ZenonT(30) DEF DecodeBin
  <1>22. DecodeBin(d).d = out BY <1>20
  <1>22a. DecodeBin(d).bins \in Nat
    <2>1. bin \in Nat
      <3>1. PICK m \in 0 .. 1 : m = Mps(d.ctx) BY <1>1, <1>3, StateBound
      <3>2. bin = m \/ bin = 1 - m BY <1>14, <3>1, Zenon
      <3> QED BY <3>1, <3>2
    <2>2. DecodeBin(d).bins = bin
      <3>1. CASE ~(d.value < mps * 128) BY <1>21, <3>1, WithBinsFields
      <3>2. CASE d.value < mps * 128 /\ mps < 256 BY <1>21, <3>2, WithBinsFields
      <3>3. CASE d.value < mps * 128 /\ ~(mps < 256) BY <1>21, <3>3, WithBinsFields
      <3> QED BY <3>1, <3>2, <3>3
    <2> QED BY <2>1, <2>2
  <1>23. CASE ~(value < mps * 128)
    <2>1. PICK v : v = value - mps * 128 OBVIOUS
    <2>2. InScale(v, needed, lps)
      <3>1. ~(value < mps * 128) BY <1>23
      <3>2. mps * 128 <= value /\ value - mps * 128 < lps * 128
        BY <1>3, <1>5, <1>7, <1>9, <3>1
      <3>3. mps \in Nat /\ lps \in Nat BY <1>7, <1>9
      <3>4. Less(value, needed, range, mps, lps) BY <1>4, <3>2, <3>3, Zenon DEF Less
      <3> QED BY <2>1, <3>4, LessKeeps, Zenon
    <2>3. PICK g : g = [new EXCEPT !.value = v] OBVIOUS
    <2>4. g = Reader(v, range, needed, pos, failed, c) BY <1>18, <2>3 DEF Reader
    <2>5. PICK h : h = [g EXCEPT !.range = lr] OBVIOUS
    <2>6. h = Reader(v, lr, needed, pos, failed, c) BY <2>4, <2>5 DEF Reader
    <2>7. h = [new EXCEPT !.value = @ - mps * 128, !.range = lr]
      BY <1>19, <2>1, <2>3, <2>5, Zenon
    <2>8. Scaled(h, lps)
      <3>1. ReaderParts(v, lr, needed, pos, failed, c, lps)
        BY <1>3, <1>12, <1>16, <2>2, <2>6, Zenon DEF ReaderParts
      <3> QED BY <2>6, <3>1, ReaderIsScaled, Zenon
    <2>9. h.range = lr BY <2>6, ReaderFields
    <2>10. n \in 0 .. 8 BY <1>12
    <2>11. out = Advance(h, n)
      <3>1. DecodeBin(d) = WithBins(Advance(h, n), bin)
        BY <1>1, <1>21, <1>23, <2>7, Zenon
      <3> QED BY <1>20, <3>1, WithBinsFields
    <2>12. Scaled(out, lps * 2 ^ n) /\ out.range = h.range
      BY <2>8, <2>10, <2>11, AdvanceKeeps
    <2>13. Scaled(out, out.range) BY <1>11, <2>9, <2>12, Zenon
    <2> QED BY <1>22, <1>22a, <2>13, ScaledIsOk
  <1>24. CASE value < mps * 128 /\ mps < 256
    <2>1. value < mps * 128 BY <1>24
    <2>2. InScale(value, needed, mps)
      <3>1. mps \in Nat BY <1>9
      <3> QED BY <1>4, <2>1, <3>1, Zenon DEF InScale
    <2>3. PICK t : t = mps * 2 OBVIOUS
    <2>4. t \in 64 .. 510 BY <1>9, <1>24, <2>3
    <2>5. PICK h : h = [new EXCEPT !.range = t] OBVIOUS
    <2>6. h = Reader(value, t, needed, pos, failed, c) BY <1>18, <2>5 DEF Reader
    <2>7. Scaled(h, mps)
      <3>1. ReaderParts(value, t, needed, pos, failed, c, mps)
        BY <1>3, <1>16, <2>2, <2>4, <2>6, Zenon DEF ReaderParts
      <3> QED BY <2>6, <3>1, ReaderIsScaled, Zenon
    <2>8. h.range = t BY <2>6, ReaderFields
    <2>9. PICK o : o = 1 OBVIOUS
    <2>10. o \in 0 .. 8 /\ mps * 2 ^ o = t
      <3>1. 2 ^ o = 2 BY <2>9
      <3> QED BY <2>3, <2>9, <3>1
    <2>11. out = Advance(h, o)
      <3>1. DecodeBin(d) = WithBins(Advance(h, o), bin)
        BY <1>1, <1>21, <1>24, <2>3, <2>5, <2>9, Zenon
      <3> QED BY <1>20, <3>1, WithBinsFields
    <2>12. Scaled(out, mps * 2 ^ o) /\ out.range = h.range
      BY <2>7, <2>10, <2>11, AdvanceKeeps
    <2>13. Scaled(out, out.range) BY <2>8, <2>10, <2>12, Zenon
    <2> QED BY <1>22, <1>22a, <2>13, ScaledIsOk
  <1>25. CASE value < mps * 128 /\ ~(mps < 256)
    <2>1. value < mps * 128 BY <1>25
    <2>2. InScale(value, needed, mps)
      <3>1. mps \in Nat BY <1>9
      <3> QED BY <1>4, <2>1, <3>1, Zenon DEF InScale
    <2>4. mps \in 64 .. 510 BY <1>9, <1>25
    <2>5. PICK h : h = [new EXCEPT !.range = mps] OBVIOUS
    <2>6. h = Reader(value, mps, needed, pos, failed, c) BY <1>18, <2>5 DEF Reader
    <2>7. Scaled(h, mps)
      <3>1. ReaderParts(value, mps, needed, pos, failed, c, mps)
        BY <1>3, <1>16, <2>2, <2>4, <2>6, Zenon DEF ReaderParts
      <3> QED BY <2>6, <3>1, ReaderIsScaled, Zenon
    <2>8. h.range = mps BY <2>6, ReaderFields
    <2>9. out = h
      <3>1. DecodeBin(d) = WithBins(h, bin) BY <1>1, <1>21, <1>25, <2>5, Zenon
      <3> QED BY <1>20, <3>1, WithBinsFields
    <2> QED BY <1>22, <1>22a, <2>7, <2>8, <2>9, ScaledIsOk
  <1> QED BY <1>23, <1>24, <1>25

(* A terminating bin that is not 1 leaves the value in the interval. *)
LEMMA DecodeTrmKeeps ==
  ASSUME bytes \in Seq(0 .. 255), NEW d, DecoderOk(d)
  PROVE  /\ DecodeTrm(d).bins # 1 => DecoderOk(DecodeTrm(d).d)
         /\ DecodeTrm(d).bins \in Nat
  <1>1. PICK value, range, needed, pos, failed, ctx :
            /\ value = d.value /\ range = d.range /\ needed = d.needed /\ pos = d.pos
            /\ failed = d.failed /\ ctx = d.ctx
    OBVIOUS
  <1>2. Scaled(d, range) BY <1>1, ScaledIsOk
  <1>3. /\ d = Reader(value, range, needed, pos, failed, ctx)
        /\ value \in Nat /\ range \in 64 .. 510 /\ needed \in -8 .. -1 /\ pos \in Nat \ {0}
        /\ failed \in BOOLEAN /\ ctx \in CoderContexts
    BY <1>1, <1>2, ReaderIsRecord DEF Scaled
  <1>4. InScale(value, needed, range) BY <1>1, <1>2, Zenon DEF Scaled
  <1>5. PICK r : r = range - 2 OBVIOUS
  <1>6. r \in 62 .. 508 BY <1>3, <1>5
  <1>7. PICK cut : cut = [d EXCEPT !.range = r] OBVIOUS
  <1>8. cut = Reader(value, r, needed, pos, failed, ctx) BY <1>3, <1>7 DEF Reader
  <1>9. CASE value >= r * 128
    <2>1. DecodeTrm(d) = WithBins(cut, 1) BY <1>1, <1>5, <1>7, <1>9, Zenon DEF DecodeTrm
    <2>2. DecodeTrm(d).bins = 1 BY <2>1, WithBinsFields
    <2> QED BY <2>2
  <1>10. CASE ~(value >= r * 128)
    <2>1. PICK t : t = r * 2 OBVIOUS
    <2>2. PICK out : out = IF r < 256 THEN Advance([cut EXCEPT !.range = t], 1) ELSE cut OBVIOUS
    <2>3. DecodeTrm(d) = WithBins(out, 0)
      BY <1>1, <1>5, <1>7, <1>10, <2>1, <2>2, Zenon DEF DecodeTrm
    <2>4. DecodeTrm(d).d = out /\ DecodeTrm(d).bins = 0 BY <2>3, WithBinsFields
    <2>5. InScale(value, needed, r)
      <3>1. r \in Nat /\ value < r * 128 BY <1>3, <1>6, <1>10
      <3> QED BY <1>4, <3>1, Zenon DEF InScale
    <2>6. CASE r < 256
      <3>1. t \in 64 .. 510 BY <1>6, <2>1, <2>6
      <3>2. PICK h : h = [cut EXCEPT !.range = t] OBVIOUS
      <3>3. h = Reader(value, t, needed, pos, failed, ctx) BY <1>8, <3>2 DEF Reader
      <3>4. Scaled(h, r)
        <4>1. ReaderParts(value, t, needed, pos, failed, ctx, r)
          BY <1>3, <2>5, <3>1, <3>3, Zenon DEF ReaderParts
        <4> QED BY <3>3, <4>1, ReaderIsScaled, Zenon
      <3>5. h.range = t BY <3>3, ReaderFields
      <3>6. PICK o : o = 1 OBVIOUS
      <3>7. o \in 0 .. 8 /\ r * 2 ^ o = t
        <4>1. 2 ^ o = 2 BY <3>6
        <4> QED BY <2>1, <3>6, <4>1
      <3>8. out = Advance(h, o) BY <2>2, <2>6, <3>2, <3>6, Zenon
      <3>9. Scaled(out, r * 2 ^ o) /\ out.range = h.range
        BY <3>4, <3>7, <3>8, AdvanceKeeps
      <3>10. Scaled(out, out.range) BY <3>5, <3>7, <3>9, Zenon
      <3> QED BY <2>4, <3>10, ScaledIsOk
    <2>7. CASE ~(r < 256)
      <3>1. r \in 64 .. 510 BY <1>6, <2>7
      <3>2. Scaled(cut, r)
        <4>1. ReaderParts(value, r, needed, pos, failed, ctx, r)
          BY <1>3, <1>8, <2>5, <3>1, Zenon DEF ReaderParts
        <4> QED BY <1>8, <4>1, ReaderIsScaled, Zenon
      <3>3. cut.range = r BY <1>8, ReaderFields
      <3>4. out = cut BY <2>2, <2>7, Zenon
      <3> QED BY <2>4, <3>2, <3>3, <3>4, ScaledIsOk
    <2> QED BY <2>6, <2>7
  <1> QED BY <1>9, <1>10

(* The prefix, bin by bin; it exists as a function for every length.       *)
NoBins(d) == [d |-> d, bins |-> 0, ended |-> FALSE]
Prefixes(f, n, d) == f = [k \in 0 .. n |-> IF k = 0 THEN NoBins(d) ELSE PrefixBin(f[k - 1])]

LEMMA PrefixExtends ==
  ASSUME NEW d, NEW n \in Nat, NEW f, Prefixes(f, n, d)
  PROVE  \E g : Prefixes(g, n + 1, d)
  <1>1. f = [k \in 0 .. n |-> IF k = 0 THEN NoBins(d) ELSE PrefixBin(f[k - 1])]
    BY DEF Prefixes
  <1>2. PICK m : m = n + 1 OBVIOUS
  <1>3. PICK g : g = [k \in 0 .. m |-> IF k = m THEN PrefixBin(f[n]) ELSE f[k]] OBVIOUS
  <1>4. \A k \in 0 .. n : g[k] = f[k] BY <1>2, <1>3
  <1>5. ASSUME NEW k \in 0 .. m
        PROVE  g[k] = IF k = 0 THEN NoBins(d) ELSE PrefixBin(g[k - 1])
    <2>1. CASE k = m
      <3>1. k - 1 = n /\ k # 0 /\ n \in 0 .. n BY <1>2, <2>1
      <3>2. g[k] = PrefixBin(f[n]) BY <1>3, <2>1
      <3>3. g[n] = f[n] BY <1>4, <3>1
      <3> QED BY <3>1, <3>2, <3>3
    <2>2. CASE k # m /\ k # 0
      <3>1. k \in 0 .. n /\ k - 1 \in 0 .. n BY <1>2, <2>2
      <3>2. f[k] = PrefixBin(f[k - 1]) BY <1>1, <2>2, <3>1
      <3>3. g[k] = f[k] /\ g[k - 1] = f[k - 1] BY <1>4, <3>1
      <3> QED BY <2>2, <3>2, <3>3
    <2>3. CASE k # m /\ k = 0
      <3>1. k \in 0 .. n BY <2>3
      <3>2. f[k] = NoBins(d) BY <1>1, <2>3, <3>1
      <3>3. g[k] = f[k] BY <1>4, <3>1
      <3> QED BY <2>3, <3>2, <3>3
    <2> QED BY <2>1, <2>2, <2>3
  <1>6. PICK h : h = [k \in 0 .. m |-> IF k = 0 THEN NoBins(d) ELSE PrefixBin(g[k - 1])] OBVIOUS
  <1>7. \A k \in 0 .. m : g[k] = h[k] BY <1>5, <1>6
  <1>8. g = h BY <1>3, <1>6, <1>7
  <1>9. Prefixes(g, m, d) BY <1>6, <1>8, Zenon DEF Prefixes
  <1> QED BY <1>2, <1>9

LEMMA PrefixesExist ==
  ASSUME NEW d, NEW n \in Nat
  PROVE  \E f : Prefixes(f, n, d)
  <1> DEFINE T == {k \in Nat : ~\E f : Prefixes(f, k, d)}
  <1>1. T \subseteq Nat OBVIOUS
  <1>2. SUFFICES ASSUME T # {} PROVE FALSE
    <2>1. n \notin T => \E f : Prefixes(f, n, d) OBVIOUS
    <2> QED BY <2>1
  <1>3. PICK t \in T : \A u \in T : t <= u
    <2> HIDE DEF T
    <2> QED BY <1>1, <1>2, LeastNumber
  <1>4. t \in Nat /\ ~\E f : Prefixes(f, t, d) OBVIOUS
  <1>5. CASE t = 0
    <2>1. PICK f : f = [k \in 0 .. 0 |-> NoBins(d)] OBVIOUS
    <2>2. PICK h : h = [k \in 0 .. 0 |-> IF k = 0 THEN NoBins(d) ELSE PrefixBin(f[k - 1])] OBVIOUS
    <2>3. \A k \in 0 .. 0 : f[k] = h[k] BY <2>1, <2>2
    <2>4. f = h BY <2>1, <2>2, <2>3
    <2>5. Prefixes(f, 0, d) BY <2>2, <2>4, Zenon DEF Prefixes
    <2> QED BY <1>4, <1>5, <2>5
  <1>6. CASE t # 0
    <2>1. PICK u \in Nat : t = u + 1 BY <1>4, <1>6
    <2>2. ~(t <= u) BY <2>1
    <2>3. u \notin T BY <1>3, <2>2
    <2>4. \E f : Prefixes(f, u, d) BY <2>1, <2>3
    <2>5. \E f : Prefixes(f, u + 1, d) BY <2>1, <2>4, PrefixExtends
    <2> QED BY <1>4, <2>1, <2>5
  <1> QED BY <1>5, <1>6

PrefixOk(w, k) == DecoderOk(w.d) /\ w.bins \in 0 .. k /\ w.ended \in BOOLEAN

LEMMA PrefixBinKeeps ==
  ASSUME bytes \in Seq(0 .. 255), NEW k \in Nat, NEW w, PrefixOk(w, k)
  PROVE  PrefixOk(PrefixBin(w), k + 1)
  <1>1. DecoderOk(w.d) /\ w.bins \in 0 .. k /\ w.ended \in BOOLEAN BY DEF PrefixOk
  <1>2. CASE w.ended
    <2>1. PrefixBin(w) = w BY <1>2, Zenon DEF PrefixBin
    <2>2. PICK m : m = k + 1 OBVIOUS
    <2>3. w.bins \in 0 .. m BY <1>1, <2>2
    <2>4. PrefixOk(w, m) BY <1>1, <2>3, Zenon DEF PrefixOk
    <2> QED BY <2>1, <2>2, <2>4, Zenon
  <1>3. CASE ~w.ended
    <2>1. PICK n : n = 1 OBVIOUS
    <2>2. PICK bin : bin = DecodeUnaligned(w.d, n) OBVIOUS
    <2>3. DecoderOk(bin.d) /\ bin.bins \in 0 .. 1
      <3>1. n \in 0 .. 32 BY <2>1
      <3> QED BY <1>1, <2>1, <2>2, <3>1, DecodeUnalignedKeeps
    <2>4. DecodeBinEP(w.d) = bin BY <2>1, <2>2, Zenon DEF DecodeBinEP
    <2>5. PICK all : all = w.bins + bin.bins OBVIOUS
    <2>6. PICK ended \in BOOLEAN : ended <=> bin.bins = 0 BY <2>3
    <2>7. PICK r : r = PrefixBin(w) OBVIOUS
    <2>8. r.d = bin.d /\ r.bins = all /\ r.ended \in BOOLEAN
      <3>1. PrefixBin(w) = [d |-> bin.d, bins |-> all, ended |-> bin.bins = 0]
        BY <1>3, <2>4, <2>5, Zenon DEF PrefixBin, WithPrefixBin
      <3> QED BY <2>7, <3>1
    <2>9. PICK m : m = k + 1 OBVIOUS
    <2>10. all \in 0 .. m BY <1>1, <2>3, <2>5, <2>9
    <2>11. PrefixOk(r, m) BY <2>3, <2>8, <2>10, Zenon DEF PrefixOk
    <2> QED BY <2>7, <2>9, <2>11, Zenon
  <1> QED BY <1>1, <1>2, <1>3

LEMMA DecodePrefixKeeps ==
  ASSUME bytes \in Seq(0 .. 255), NEW d, DecoderOk(d)
  PROVE  PrefixOk(DecodePrefix(d), 17)
  <1>1. 32 - DynamicRange = 17 BY DEF DynamicRange
  <1>2. PICK n \in Nat : n = 17 OBVIOUS
  <1>3. PICK f : f = CHOOSE g : Prefixes(g, n, d) OBVIOUS
  <1>4. Prefixes(f, n, d) BY <1>3, PrefixesExist, Zenon
  <1>5. DecodePrefix(d) = f[n]
    BY <1>1, <1>2, <1>3, Zenon DEF DecodePrefix, Prefixes, NoBins
  <1>6. f = [k \in 0 .. n |-> IF k = 0 THEN NoBins(d) ELSE PrefixBin(f[k - 1])]
    BY <1>4 DEF Prefixes
  <1> DEFINE T == {k \in 0 .. n : ~PrefixOk(f[k], k)}
  <1>7. T = {}
    <2> SUFFICES ASSUME T # {} PROVE FALSE OBVIOUS
    <2>1. T \subseteq Nat OBVIOUS
    <2>2. PICK t \in T : \A u \in T : t <= u
      <3> HIDE DEF T
      <3> QED BY <2>1, LeastNumber
    <2>3. t \in 0 .. n /\ ~PrefixOk(f[t], t) OBVIOUS
    <2>4. CASE t = 0
      <3>1. f[t] = NoBins(d) BY <1>6, <2>3, <2>4
      <3>2. PICK w : w = NoBins(d) OBVIOUS
      <3>3. w.d = d /\ w.bins = 0 /\ w.ended = FALSE BY <3>2 DEF NoBins
      <3>4. w.bins \in 0 .. 0 BY <3>3
      <3>5. w.ended \in BOOLEAN BY <3>3
      <3>6. PrefixOk(w, 0) BY <3>3, <3>4, <3>5, Zenon DEF PrefixOk
      <3> QED BY <2>3, <2>4, <3>1, <3>2, <3>6
    <2>5. CASE t # 0
      <3>1. PICK u : u = t - 1 OBVIOUS
      <3>2. u \in 0 .. n /\ u \in Nat /\ ~(t <= u) /\ t = u + 1 BY <2>3, <2>5, <3>1
      <3>3. PrefixOk(f[u], u) BY <2>2, <3>2
      <3>4. f[t] = PrefixBin(f[u]) BY <1>6, <2>3, <2>5, <3>1
      <3>5. PrefixOk(PrefixBin(f[u]), u + 1) BY <3>2, <3>3, PrefixBinKeeps
      <3> QED BY <2>3, <3>2, <3>4, <3>5
    <2> QED BY <2>4, <2>5
  <1>8. PrefixOk(f[n], n)
    <2>1. n \in 0 .. n OBVIOUS
    <2> QED BY <1>7, <2>1
  <1> QED BY <1>2, <1>5, <1>8, Zenon

LEMMA DecodeRemAbsKeeps ==
  ASSUME bytes \in Seq(0 .. 255), NEW d, DecoderOk(d), NEW rice \in 0 .. 3
  PROVE  DecoderOk(DecodeRemAbs(d, rice).d) /\ DecodeRemAbs(d, rice).bins \in Nat
  <1>1. PICK w : w = DecodePrefix(d) OBVIOUS
  <1>2. DecoderOk(w.d) /\ w.bins \in 0 .. 17 BY <1>1, DecodePrefixKeeps DEF PrefixOk
  <1>3. PICK p : p = w.bins OBVIOUS
  <1>4. PICK offset : offset = IF p < Cutoff THEN p ELSE 2 ^ (p - Cutoff) + Cutoff - 1 OBVIOUS
  <1>5. PICK length : length = IF p < Cutoff THEN rice
                       ELSE IF p = 32 - DynamicRange THEN DynamicRange ELSE rice + p - Cutoff
    OBVIOUS
  <1>6. length \in 0 .. 32
    <2>1. Cutoff = 5 /\ DynamicRange = 15 BY DEF Cutoff, DynamicRange
    <2>2. p \in 0 .. 17 BY <1>2, <1>3
    <2> QED BY <1>5, <2>1, <2>2
  <1>7. PICK low : low = DecodeBinsEP(w.d, length) OBVIOUS
  <1>8. DecoderOk(low.d) /\ low.bins \in Nat BY <1>2, <1>6, <1>7, DecodeBinsKeeps
  <1>9. PICK bins : bins = offset * 2 ^ rice + low.bins OBVIOUS
  <1>10. DecodeRemAbs(d, rice) = WithBins(low.d, bins)
    <2>1. offset = Offset(p) BY <1>4, Zenon DEF Offset
    <2>2. length = SuffixLength(p, rice) BY <1>5, Zenon DEF SuffixLength
    <2> QED
      BY <1>1, <1>3, <1>7, <1>9, <2>1, <2>2, Zenon
      DEF DecodeRemAbs, DecodeSuffix, WithOffset
  <1>11. DecodeRemAbs(d, rice).d = low.d /\ DecodeRemAbs(d, rice).bins = bins
    BY <1>10, WithBinsFields
  <1>12. offset \in Nat
    <2>1. Cutoff = 5 BY DEF Cutoff
    <2>2. p \in 0 .. 17 BY <1>2, <1>3
    <2>3. CASE p < 5 BY <1>4, <2>1, <2>2, <2>3
    <2>4. CASE ~(p < 5)
      <3>1. PICK k : k = p - 5 OBVIOUS
      <3>2. k \in 0 .. 31 BY <2>2, <2>4, <3>1
      <3>3. PICK a : a = 2 ^ k OBVIOUS
      <3>4. a \in Nat BY <3>2, <3>3, PowerDoubles
      <3>5. offset = a + 5 - 1 BY <1>4, <2>1, <2>4, <3>1, <3>3, Zenon
      <3> QED BY <3>4, <3>5
    <2> QED BY <2>3, <2>4
  <1>13. bins \in Nat
    <2>1. PICK a : a = 2 ^ rice OBVIOUS
    <2>2. a \in Nat
      <3>1. rice \in 0 .. 31 OBVIOUS
      <3> QED BY <2>1, <3>1, PowerDoubles
    <2>3. offset * a \in Nat BY <1>12, <2>2
    <2> QED BY <1>8, <1>9, <2>1, <2>3
  <1> QED BY <1>8, <1>11, <1>13

(* What the decoder is told to read. *)
ToRead == {s \in [kind : SymbolKinds, v : Nat, n : Nat] :
               /\ s.kind = "bins" => s.n \in 0 .. 32
               /\ s.kind = "rem" => s.n \in 0 .. 3}

LEMMA DecodedKeeps ==
  ASSUME bytes \in Seq(0 .. 255), NEW d, DecoderOk(d), NEW s \in ToRead
  PROVE  /\ ~(s.kind = "trm" /\ Decode(d, s).bins = 1) => DecoderOk(Decode(d, s).d)
         /\ Decode(d, s).bins \in Nat
  <1>1. /\ s.kind \in SymbolKinds
        /\ s.kind = "bins" => s.n \in 0 .. 32
        /\ s.kind = "rem" => s.n \in 0 .. 3
    BY DEF ToRead
  <1>2. CASE s.kind = "bin"
    <2>1. Decode(d, s) = DecodeBin(d) BY <1>2 DEF Decode
    <2> QED BY <2>1, DecodeBinKeeps
  <1>3. CASE s.kind = "ep"
    <2>1. Decode(d, s) = DecodeUnaligned(d, 1) BY <1>3 DEF Decode, DecodeBinEP
    <2>2. PICK n : n = 1 OBVIOUS
    <2>3. n \in 0 .. 32 BY <2>2
    <2>4. DecoderOk(DecodeUnaligned(d, n).d) /\ DecodeUnaligned(d, n).bins \in Nat
      BY <2>3, DecodeUnalignedKeeps
    <2> QED BY <2>1, <2>2, <2>4
  <1>4. CASE s.kind = "bins"
    <2>1. Decode(d, s) = DecodeBinsEP(d, s.n) BY <1>4 DEF Decode
    <2> QED BY <1>1, <1>4, <2>1, DecodeBinsKeeps
  <1>5. CASE s.kind = "rem"
    <2>1. Decode(d, s) = DecodeRemAbs(d, s.n) BY <1>5 DEF Decode
    <2> QED BY <1>1, <1>5, <2>1, DecodeRemAbsKeeps
  <1>6. CASE s.kind = "trm"
    <2>1. Decode(d, s) = DecodeTrm(d) BY <1>6 DEF Decode
    <2> QED BY <1>6, <2>1, DecodeTrmKeeps
  <1> QED BY <1>1, <1>2, <1>3, <1>4, <1>5, <1>6 DEF SymbolKinds

----------------------------------------------------------------------------
(* The invariant.                                                          *)

CoderInv ==
    /\ EncoderOk(enc)
    /\ sent \in Seq(ToRead) /\ decoded \in Seq(Nat)
    /\ coding \in {"encode", "decode", "ended"}
    /\ bytes \in Seq(0 .. 255)
    /\ coding = "encode" => dec \in DecoderRegisters /\ dec.range = 510 /\ dec.needed = -8
    /\ coding = "decode" => DecoderOk(dec)

LEMMA ContextStarts ==
  ASSUME NEW clip \in StateClips
  PROVE  Context(clip) \in CoderContexts
  <1>1. clip \in 1 .. 127 BY CoderAssumption
  <1>2. PICK v : v = 256 * clip OBVIOUS
  <1>3. v \in Nat /\ v <= 32767 BY <1>1, <1>2
  <1>4. v \in Estimates BY <1>3 DEF Estimates
  <1>5. Context(clip) = [s0 |-> v, s1 |-> v] BY <1>2 DEF Context
  <1> QED BY <1>4, <1>5 DEF CoderContexts

LEMMA CoderStarts ==
  CoderInit => CoderInv
  <1> SUFFICES ASSUME CoderInit PROVE CoderInv OBVIOUS
  <1>1. PICK clip \in StateClips :
            /\ sent = <<>> /\ bytes = <<>> /\ decoded = <<>> /\ coding = "encode"
            /\ enc = [low |-> 0, range |-> 510, left |-> 23, held |-> 0, byte |-> 255,
                      out |-> <<>>, ctx |-> Context(clip)]
            /\ dec = [value |-> 0, range |-> 510, needed |-> -8, pos |-> 1, failed |-> FALSE,
                      ctx |-> Context(clip)]
    BY DEF CoderInit
  <1>2. PICK c \in CoderContexts : c = Context(clip) BY ContextStarts
  <1>3. EncoderOk(enc)
    <2>1. PICK w : w = 2 ^ (24 - 23) OBVIOUS
    <2>2. w = 2 BY <2>1
    <2>3. <<>> \in Seq(0 .. 255) OBVIOUS
    <2>4. HeldBytesOk(0, 255, <<>>) BY DEF HeldBytesOk
    <2>5. 0 + 510 <= CarryLimit(0, 255, <<>>) * w BY <2>2 DEF CarryLimit
    <2>6a. PICK low \in Nat : low = 0 OBVIOUS
    <2>6b. PICK range \in 64 .. 510 : range = 510 OBVIOUS
    <2>6c. PICK left \in 12 .. 23 : left = 23 OBVIOUS
    <2>6d. PICK byte \in 0 .. 255 : byte = 255 OBVIOUS
    <2>6e. PICK out \in Seq(0 .. 255) : out = <<>> BY <2>3
    <2>6. low = 0 /\ range = 510 /\ left = 23 /\ byte = 255 /\ out = <<>>
      BY <2>6a, <2>6b, <2>6c, <2>6d, <2>6e
    <2>7. /\ HeldBytesOk(low, byte, out) /\ w = 2 ^ (24 - left)
          /\ low + range <= CarryLimit(low, byte, out) * w
      BY <2>1, <2>4, <2>5, <2>6, Zenon
    <2>8. EncoderOk(Encoder(low, range, left, low, byte, out, c))
      <3>1. low \in Nat /\ range \in 64 .. 510 /\ left \in 12 .. 23 /\ byte \in 0 .. 255
            /\ out \in Seq(0 .. 255) /\ c \in CoderContexts
        BY <1>2, <2>6a, <2>6b, <2>6c, <2>6d, <2>6e
      <3>2. EncoderParts(low, range, left, low, byte, out, c, w)
        BY <2>7, <3>1, Zenon DEF EncoderParts
      <3> QED BY <3>2, EncoderOkIs, Zenon
    <2>9. enc = Encoder(low, range, left, low, byte, out, c)
      BY <1>1, <1>2, <2>6, Zenon DEF Encoder
    <2> QED BY <2>8, <2>9
  <1>4. dec \in DecoderRegisters /\ dec.range = 510 /\ dec.needed = -8
    BY <1>1, <1>2 DEF DecoderRegisters
  <1>5. sent \in Seq(ToRead) /\ decoded \in Seq(Nat) /\ bytes \in Seq(0 .. 255) BY <1>1
  <1> QED BY <1>1, <1>3, <1>4, <1>5 DEF CoderInv

StartOf(s, d, v, f) ==
    /\ SubstreamOk(s)
    /\ d \in DecoderRegisters /\ d.range = 510 /\ d.needed = -8
    /\ v = IF Len(s) < 2 THEN 0 ELSE s[1] * 256 + s[2]
    /\ f \in BOOLEAN

(* Start of the decoder: two bytes, the first below 255. *)
LEMMA ReaderStarts ==
  ASSUME NEW s, NEW d, NEW v, NEW f, StartOf(s, d, v, f)
  PROVE  DecoderOk([d EXCEPT !.failed = f, !.pos = 3, !.value = v])
  <1>0. /\ d \in DecoderRegisters /\ d.range = 510 /\ d.needed = -8 /\ f \in BOOLEAN
        /\ SubstreamOk(s)
    BY DEF StartOf
  <1>1. s \in Seq(0 .. 255) /\ (Len(s) > 1 => s[1] <= 254) BY <1>0 DEF SubstreamOk
  <1>2. v \in Nat /\ v < 65280
    <2>0. v = IF Len(s) < 2 THEN 0 ELSE s[1] * 256 + s[2] BY Zenon DEF StartOf
    <2>1. PICK n \in Nat : n = Len(s) BY <1>1
    <2>2. CASE n < 2 BY <2>0, <2>1, <2>2
    <2>3. CASE ~(n < 2)
      <3>1. s[1] \in 0 .. 255 /\ s[2] \in 0 .. 255
        <4>1. 1 \in 1 .. Len(s) /\ 2 \in 1 .. Len(s) BY <2>1, <2>3
        <4> QED BY <1>1, <4>1, ElementOfSeq
      <3>2. PICK a, b : a = s[1] /\ b = s[2] OBVIOUS
      <3>3. a \in 0 .. 254 /\ b \in 0 .. 255
        <4>1. a \in 0 .. 255 /\ b \in 0 .. 255 BY <3>1, <3>2
        <4>2. a <= 254
          <5>1. n > 1 BY <2>1, <2>3
          <5>2. s[1] <= 254 BY <1>1, <2>1, <5>1
          <5> QED BY <3>2, <5>2
        <4> QED BY <4>1, <4>2
      <3>4. v = a * 256 + b BY <2>0, <2>1, <2>3, <3>2, Zenon
      <3> QED BY <3>3, <3>4
    <2> QED BY <2>2, <2>3
  <1>3. PICK value, range, needed, pos, failed, ctx :
            /\ value = d.value /\ range = d.range /\ needed = d.needed /\ pos = d.pos
            /\ failed = d.failed /\ ctx = d.ctx
    OBVIOUS
  <1>4. /\ d = Reader(value, range, needed, pos, failed, ctx)
        /\ range = 510 /\ needed = -8 /\ ctx \in CoderContexts
    BY <1>0, <1>3, ReaderIsRecord
  <1>5. PICK g : g = [d EXCEPT !.failed = f] OBVIOUS
  <1>6. g = Reader(value, range, needed, pos, f, ctx) BY <1>4, <1>5 DEF Reader
  <1>7. PICK h : h = [g EXCEPT !.pos = 3] OBVIOUS
  <1>8. h = Reader(value, range, needed, 3, f, ctx) BY <1>6, <1>7 DEF Reader
  <1>9. PICK o : o = [h EXCEPT !.value = v] OBVIOUS
  <1>10. o = Reader(v, range, needed, 3, f, ctx) BY <1>8, <1>9 DEF Reader
  <1>11. o = [d EXCEPT !.failed = f, !.pos = 3, !.value = v] BY <1>5, <1>7, <1>9, Zenon
  <1>12. InScale(v, needed, range)
    <2>1. 8 + needed = 0 BY <1>4
    <2>2. 2 ^ 0 = 1 /\ v * 1 = v BY <1>2
    <2>3. PICK z : z = 2 ^ (8 + needed) OBVIOUS
    <2>3a. v = v * z BY <2>1, <2>2, <2>3
    <2>3b. v \in Nat BY <1>2
    <2>4. \E k \in Nat : v = k * 2 ^ (8 + needed) BY <2>3, <2>3a, <2>3b, Zenon
    <2>5. needed \in -8 .. -1 /\ range \in Nat /\ v < range * 128 BY <1>2, <1>4
    <2> QED BY <2>3b, <2>4, <2>5, Zenon DEF InScale
  <1>13. range \in 64 .. 510 /\ 3 \in Nat \ {0} BY <1>4
  <1>14. Scaled(o, range)
    <2>1. PICK three : three = 3 OBVIOUS
    <2>2. o = Reader(v, range, needed, three, f, ctx) /\ three \in Nat \ {0}
      BY <1>10, <1>13, <2>1
    <2>3. ctx \in CoderContexts BY <1>4
    <2>4. f \in BOOLEAN BY <1>0
    <2>5. ReaderParts(v, range, needed, three, f, ctx, range)
      BY <1>12, <1>13, <2>2, <2>3, <2>4, Zenon DEF ReaderParts
    <2> QED BY <2>2, <2>5, ReaderIsScaled, Zenon
  <1>15. o.range = range BY <1>10, ReaderFields
  <1>16. DecoderOk(o) BY <1>14, <1>15, ScaledIsOk
  <1> QED BY <1>11, <1>16

LEMMA CoderStep ==
  CoderInv /\ [CoderNext]_coderVars => CoderInv'
  <1> SUFFICES ASSUME CoderInv, [CoderNext]_coderVars PROVE CoderInv' OBVIOUS
  <1>1. /\ EncoderOk(enc)
        /\ sent \in Seq(ToRead) /\ decoded \in Seq(Nat)
        /\ coding \in {"encode", "decode", "ended"}
        /\ bytes \in Seq(0 .. 255)
        /\ coding = "encode" => dec \in DecoderRegisters /\ dec.range = 510 /\ dec.needed = -8
        /\ coding = "decode" => DecoderOk(dec)
    BY DEF CoderInv
  <1>2. ASSUME NEW s \in Symbols, Encode(s) PROVE CoderInv'
    <2>1. /\ sent' = Append(sent, [s EXCEPT !.v = BinOf(enc, s)])
          /\ enc' = Encoded(enc, s)
          /\ bytes' = bytes /\ dec' = dec /\ decoded' = decoded /\ coding' = coding
      BY <1>2 DEF Encode
    <2>2. EncoderOk(enc)' BY <1>1, <2>1, EncodedKeeps
    <2>3. [s EXCEPT !.v = BinOf(enc, s)] \in ToRead
      <3>1. s \in [kind : SymbolKinds, v : Nat, n : Nat]
        BY CoderAssumption
      <3>2. /\ s.kind = "bins" => s.n \in 0 .. 32
            /\ s.kind = "rem" => s.n \in 0 .. 3
        BY CoderAssumption
      <3>3. BinOf(enc, s) \in Nat
        <4>1. enc.ctx \in CoderContexts BY <1>1, EncoderFacts
        <4>2. PICK m \in 0 .. 1 : m = Mps(enc.ctx) BY <4>1, StateBound
        <4>3. BinOf(enc, s) = m \/ BinOf(enc, s) = 1 - m \/ BinOf(enc, s) = s.v
          BY <4>2 DEF BinOf
        <4> QED BY <3>1, <4>2, <4>3
      <3>4. PICK b \in Nat : b = BinOf(enc, s) BY <3>3
      <3>5. PICK r : r = [s EXCEPT !.v = b] OBVIOUS
      <3>6. r \in [kind : SymbolKinds, v : Nat, n : Nat] /\ r.kind = s.kind /\ r.n = s.n
        BY <3>1, <3>4, <3>5
      <3>7. r \in ToRead BY <3>2, <3>6 DEF ToRead
      <3> QED BY <3>4, <3>5, <3>7
    <2>4. sent' \in Seq(ToRead) BY <1>1, <2>1, <2>3, AppendProperties
    <2> QED BY <1>1, <2>1, <2>2, <2>4 DEF CoderInv
  <1>3. CASE EndSubstream
    <2>1. /\ coding = "encode" /\ coding' = "decode"
          /\ bytes' = Finish(EncodeTrm(enc, 1))
          /\ dec' = [dec EXCEPT !.failed = Len(bytes') < 2, !.pos = 3,
                          !.value = IF Len(bytes') < 2 THEN 0 ELSE bytes'[1] * 256 + bytes'[2]]
          /\ sent' = sent /\ enc' = enc /\ decoded' = decoded
      BY <1>3 DEF EndSubstream
    <2>2. PICK e : e = EncodeTrm(enc, 1) OBVIOUS
    <2>3. EncoderOk(e) /\ e.range = 256
      <3>1. PICK o : o = 1 OBVIOUS
      <3>2. EncoderOk(EncodeTrm(enc, o)) /\ EncodeTrm(enc, o).range = 256
        BY <1>1, <3>1, EncodeTrmKeeps
      <3> QED BY <2>2, <3>1, <3>2
    <2>4. PICK b : b = Finish(e) OBVIOUS
    <2>5. SubstreamOk(b) BY <2>3, <2>4, FinishedSubstream
    <2>6. bytes' = b BY <2>1, <2>2, <2>4
    <2>7. PICK v : v = IF Len(b) < 2 THEN 0 ELSE b[1] * 256 + b[2] OBVIOUS
    <2>8. PICK f \in BOOLEAN : f <=> Len(b) < 2 OBVIOUS
    <2>9. DecoderOk([dec EXCEPT !.failed = f, !.pos = 3, !.value = v])
      <3>1. StartOf(b, dec, v, f) BY <1>1, <2>1, <2>5, <2>7, <2>8, Zenon DEF StartOf
      <3> QED BY <3>1, ReaderStarts
    <2>10. dec' = [dec EXCEPT !.failed = f, !.pos = 3, !.value = v]
      <3>1. (Len(b) < 2) = f BY <2>8
      <3> QED BY <2>1, <2>6, <2>7, <3>1
    <2>11. DecoderOk(dec)' BY <2>9, <2>10
    <2>12. b \in Seq(0 .. 255) BY <2>5 DEF SubstreamOk
    <2>13. EncoderOk(enc)' BY <1>1, <2>1
    <2> QED BY <1>1, <2>1, <2>6, <2>11, <2>12, <2>13 DEF CoderInv
  <1>4. CASE DecodeSymbol
    <2>1. PICK s, r : s = sent[Len(decoded) + 1] /\ r = Decode(dec, s) OBVIOUS
    <2>2. /\ coding = "decode" /\ Len(decoded) < Len(sent)
          /\ dec' = r.d /\ decoded' = Append(decoded, r.bins)
          /\ coding' = IF s.kind = "trm" /\ r.bins = 1 THEN "ended" ELSE "decode"
          /\ sent' = sent /\ enc' = enc /\ bytes' = bytes
      <3>1. \E t \in {sent[Len(decoded) + 1]} : \E u \in {Decode(dec, t)} :
                /\ dec' = u.d /\ decoded' = Append(decoded, u.bins)
                /\ coding' = IF t.kind = "trm" /\ u.bins = 1 THEN "ended" ELSE "decode"
        BY <1>4, Zenon DEF DecodeSymbol
      <3>2. /\ dec' = r.d /\ decoded' = Append(decoded, r.bins)
            /\ coding' = IF s.kind = "trm" /\ r.bins = 1 THEN "ended" ELSE "decode"
        BY <2>1, <3>1, Zenon
      <3>3. /\ coding = "decode" /\ Len(decoded) < Len(sent)
            /\ sent' = sent /\ enc' = enc /\ bytes' = bytes
        BY <1>4, Zenon DEF DecodeSymbol
      <3> QED BY <3>2, <3>3, Zenon
    <2>3. s \in ToRead
      <3>1. Len(decoded) + 1 \in 1 .. Len(sent)
        <4>1. PICK n \in Nat, m \in Nat : n = Len(decoded) /\ m = Len(sent) BY <1>1
        <4>2. n + 1 \in 1 .. m BY <2>2, <4>1
        <4> QED BY <4>1, <4>2
      <3> QED BY <1>1, <2>1, <3>1, ElementOfSeq
    <2>4. /\ ~(s.kind = "trm" /\ r.bins = 1) => DecoderOk(r.d)
          /\ r.bins \in Nat
      BY <1>1, <2>1, <2>2, <2>3, DecodedKeeps
    <2>5. decoded' \in Seq(Nat) BY <1>1, <2>2, <2>4, AppendProperties
    <2>6. coding' = "decode" => DecoderOk(dec)' BY <2>2, <2>4
    <2>7. coding' \in {"encode", "decode", "ended"} /\ coding' # "encode" BY <2>2
    <2>8. EncoderOk(enc)' BY <1>1, <2>2
    <2> QED BY <1>1, <2>2, <2>5, <2>6, <2>7, <2>8 DEF CoderInv
  <1>5. CASE Terminate
    <2>1. coding' = "ended" /\ sent' = sent /\ enc' = enc /\ bytes' = bytes /\ decoded' = decoded
      BY <1>5 DEF Terminate
    <2>2. EncoderOk(enc)' BY <1>1, <2>1
    <2> QED BY <1>1, <2>1, <2>2 DEF CoderInv
  <1>6. CASE UNCHANGED coderVars
    <2>1. /\ sent' = sent /\ enc' = enc /\ bytes' = bytes /\ dec' = dec /\ decoded' = decoded
          /\ coding' = coding
      BY <1>6 DEF coderVars
    <2> QED BY <1>1, <2>1 DEF CoderInv
  <1> QED BY <1>2, <1>3, <1>4, <1>5, <1>6 DEF CoderNext

(* The registers of encoder and decoder fit, whatever the contexts, for any *)
(* symbols and any number of them: BinEncoderBase's interval stays in the   *)
(* bits that wait in m_Low, writeOut finds a held byte below 255 for every  *)
(* carry, every byte written is one, and BinDecoderBase's m_Value stays     *)
(* below the scaled range.                                                  *)
THEOREM CoderRegistersFit ==
  CoderSpec => []RegistersFit
  <1>1. CoderInv => RegistersFit
    <2> SUFFICES ASSUME CoderInv PROVE RegistersFit OBVIOUS
    <2>1. EncoderOk(enc) /\ (coding = "decode" => DecoderOk(dec)) BY DEF CoderInv
    <2>2. coding = "decode" => dec.value < dec.range * 128 BY <2>1 DEF DecoderOk
    <2>3. /\ enc.range \in 64 .. 510 /\ enc.left \in 12 .. 23
          /\ enc.low + enc.range <= 2 ^ (33 - enc.left)
          /\ enc.low >= 2 ^ (32 - enc.left) => enc.held > 0 /\ enc.byte < 255
          /\ \A k \in DOMAIN enc.out : enc.out[k] \in 0 .. 255
      BY <2>1, EncoderRegistersFit
    <2> QED BY <2>2, <2>3, Zenon DEF RegistersFit
  <1> QED BY <1>1, CoderStarts, CoderStep, PTL DEF CoderSpec
=============================================================================
