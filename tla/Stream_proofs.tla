---------------------------- MODULE Stream_proofs ----------------------------
(***************************************************************************)
(* What crosses the file: the bytes of a NAL unit (NalBytes) and the NAL   *)
(* units of a stream (ByteStream).                                         *)
(*                                                                         *)
(* For payloads of any length, no start code can be seen inside what the   *)
(* encoder writes, and what the decoder reads is what the encoder wrote.   *)
(* The reader works on the coded bytes, the promise is about the RBSP; "at"*)
(* ties the two together.  Both zero counts are then the number of zeros   *)
(* directly before a place in the coded bytes, which is why the reader     *)
(* skips a byte exactly where the writer has put one in.                   *)
(*                                                                         *)
(* For streams of any length, every NAL unit is read once, in order and in *)
(* its picture.  The NAL units lie one behind the other in the file; a     *)
(* read from the start of one delivers it and peeks the start code of the  *)
(* next, so a look-ahead follows the NAL units too, and by the order of    *)
(* their kinds it decides within four.  Seeking back by three bytes then   *)
(* ends at the start of the NAL unit or, of a long start code, one byte    *)
(* behind it, where the reader finds the same NAL unit.                    *)
(***************************************************************************)
EXTENDS NalBytes, ByteStream, SequenceTheorems, WellFoundedInduction, TLAPS

(* The zeros directly before place k of c, two at most. *)
ZerosBefore(c, k) ==
    IF k = 1 \/ c[k - 1] # 0 THEN 0
    ELSE IF k = 2 \/ c[k - 2] # 0 THEN 1 ELSE 2

Placed ==
    /\ Len(rbsp) >= 2 /\ Len(at) = Len(rbsp) /\ at[1] = 1
    /\ \A k \in 1 .. Len(rbsp) : at[k] <= Len(coded) /\ coded[at[k]] = rbsp[k]
    /\ \A k \in 1 .. Len(rbsp) - 1 :
           IF rbsp[k + 1] <= 3 /\ ZerosBefore(coded, at[k] + 1) = 2
           THEN at[k + 1] = at[k] + 2 /\ coded[at[k] + 1] = 3
           ELSE at[k + 1] = at[k] + 1

TrailingZeros ==
    /\ zeros + 2 <= Len(rbsp)
    /\ rbsp[Len(rbsp) - zeros] # 0
    /\ \A k \in Len(rbsp) - zeros + 1 .. Len(rbsp) : rbsp[k] = 0

WriterCounts ==
    /\ wzero = ZerosBefore(coded, at[Len(rbsp)] + 1)
    /\ wzero = IF zeros = 0 THEN 0 ELSE IF zeros % 2 = 1 THEN 1 ELSE 2
    /\ phase = "write" => Len(coded) = at[Len(rbsp)]
    /\ phase # "write" =>
           \/ wzero = 0 /\ Len(coded) = at[Len(rbsp)]
           \/ wzero = 2 /\ Len(coded) = at[Len(rbsp)] + 1 /\ coded[Len(coded)] = 3

ReaderFollows ==
    /\ phase = "write" => it = 1 /\ got = <<>> /\ rzero = 0
    /\ phase = "read" =>
           /\ Len(got) <= Len(rbsp)
           /\ rzero = ZerosBefore(coded, it)
           /\ \/ got = <<>> /\ it = 1
              \/ got # <<>> /\ it = at[Len(got)] + 1
              \/ Len(got) = Len(rbsp) /\ it = Len(coded) + 1

IInv == NalType /\ NoStartCode /\ Placed /\ TrailingZeros /\ WriterCounts /\ ReaderFollows /\ RoundTrip

----------------------------------------------------------------------------
(* The elements of a sequence of bytes. *)
LEMMA ElementsAreBytes ==
    ASSUME NEW s \in Seq(Octet)
    PROVE  /\ Len(s) \in Nat /\ DOMAIN s = 1 .. Len(s)
           /\ \A k \in 1 .. Len(s) : s[k] \in Octet /\ s[k] \in 0 .. 255
<1>1. Len(s) \in Nat /\ DOMAIN s = 1 .. Len(s) /\ \A k \in 1 .. Len(s) : s[k] \in Octet
    OBVIOUS
<1> QED
    BY <1>1 DEF Octet

(* A byte, or one put before it, is written. *)
LEMMA AppendByte ==
    ASSUME NEW s \in Seq(Octet), NEW v \in 0 .. 255
    PROVE  /\ Append(s, v) \in Seq(Octet) /\ Len(Append(s, v)) = Len(s) + 1
           /\ \A k \in 1 .. Len(s) : Append(s, v)[k] = s[k]
           /\ Append(s, v)[Len(s) + 1] = v
<1>1. v \in Octet
    BY DEF Octet
<1> QED
    BY <1>1

LEMMA AppendEscaped ==
    ASSUME NEW s \in Seq(Octet), NEW v \in 0 .. 255
    PROVE  /\ s \o <<3, v>> \in Seq(Octet) /\ Len(s \o <<3, v>>) = Len(s) + 2
           /\ \A k \in 1 .. Len(s) : (s \o <<3, v>>)[k] = s[k]
           /\ (s \o <<3, v>>)[Len(s) + 1] = 3 /\ (s \o <<3, v>>)[Len(s) + 2] = v
<1>1. v \in Octet /\ 3 \in Octet
    BY DEF Octet
<1>2. s \o <<3, v>> = Append(Append(s, 3), v)
    BY <1>1
<1> QED
    BY <1>1, <1>2

(* The count looks at the places before it only. *)
LEMMA ZerosBeforeLocal ==
    ASSUME NEW c, NEW d, NEW k \in Nat \ {0},
           \A j \in 1 .. k - 1 : c[j] = d[j]
    PROVE  ZerosBefore(c, k) = ZerosBefore(d, k) /\ ZerosBefore(c, k) \in 0 .. 2
<1>1. k > 1 => c[k - 1] = d[k - 1]
    OBVIOUS
<1>2. k > 2 => c[k - 2] = d[k - 2]
    OBVIOUS
<1> QED
    BY <1>1, <1>2 DEF ZerosBefore

(* What is read of a sequence without its last zeros is a part of it. *)
LEMMA StrippedIsSequence ==
    ASSUME NEW s \in Seq(Octet), NEW n \in 0 .. Len(s),
           n = 0 \/ s[n] # 0, \A k \in n + 1 .. Len(s) : s[k] = 0
    PROVE  Stripped(s) \in Seq(Octet)
<1> DEFINE m == CHOOSE i \in 0 .. Len(s) :
                    (i = 0 \/ s[i] # 0) /\ \A k \in i + 1 .. Len(s) : s[k] = 0
<1>1. m \in 0 .. Len(s)
    OBVIOUS
<1>2. Stripped(s) = SubSeq(s, 1, m)
    BY DEF Stripped
<1> HIDE DEF m
<1>3. \A k \in 1 .. m : s[k] \in Octet
    BY <1>1, ElementsAreBytes
<1>4. SubSeq(s, 1, m) \in Seq(Octet)
    BY <1>1, <1>3, SubSeqProperties
<1> QED
    BY <1>2, <1>4

LEMMA InitInv == NalInit => IInv
<1> SUFFICES ASSUME NalInit PROVE IInv
    OBVIOUS
<1>1. PICK h \in HeaderByte : rbsp = <<0, h>>
    BY DEF NalInit
<1>2. h \in 1 .. 255
    BY ByteAssumption
<1>3. /\ coded = <<0, h>> /\ at = <<1, 2>> /\ wzero = 0 /\ zeros = 0 /\ phase = "write"
      /\ it = 1 /\ got = <<>> /\ rzero = 0 /\ failed = FALSE
    BY <1>1 DEF NalInit
<1>4. Len(rbsp) = 2 /\ Len(coded) = 2 /\ Len(at) = 2
    BY <1>1, <1>3
<1>5. rbsp[1] = 0 /\ rbsp[2] = h /\ coded[1] = 0 /\ coded[2] = h /\ at[1] = 1 /\ at[2] = 2
    BY <1>1, <1>3
<1>6. NalType
    <2>1. 0 \in Octet /\ h \in Octet
        BY <1>2 DEF Octet
    <2>2. rbsp \in Seq(Octet) /\ coded \in Seq(Octet) /\ got \in Seq(Octet)
        BY <2>1, <1>1, <1>3
    <2>3. at \in Seq(Nat \ {0})
        BY <1>3
    <2>4. wzero \in 0 .. 2 /\ rzero \in 0 .. 2 /\ zeros \in Nat /\ it \in Nat \ {0}
        BY <1>3
    <2>5. failed \in BOOLEAN /\ phase \in {"write", "read", "done"}
        BY <1>3
    <2> QED
        BY <2>2, <2>3, <2>4, <2>5 DEF NalType
<1>7. NoStartCode /\ RoundTrip
    BY <1>3, <1>4 DEF NoStartCode, RoundTrip
<1>8. ZerosBefore(coded, at[1] + 1) = 1 /\ ZerosBefore(coded, at[2] + 1) = 0
    BY <1>5, <1>2 DEF ZerosBefore
<1>9. Placed
    <2>1. \A k \in 1 .. 2 : k = 1 \/ k = 2
        OBVIOUS
    <2> QED
        BY <2>1, <1>1, <1>4, <1>5, <1>8 DEF Placed
<1>10. TrailingZeros
    BY <1>2, <1>3, <1>4, <1>5 DEF TrailingZeros
<1>11. WriterCounts /\ ReaderFollows
    BY <1>3, <1>4, <1>5, <1>8 DEF WriterCounts, ReaderFollows
<1> QED
    BY <1>6, <1>7, <1>9, <1>10, <1>11 DEF IInv

----------------------------------------------------------------------------
(* The writer.  The new byte is escaped exactly where the count of the     *)
(* coded bytes says two zeros.                                             *)
LEMMA WriteByteInv ==
    ASSUME IInv, NEW v \in Byte, WriteByte(v)
    PROVE  IInv'
<1> DEFINE n == Len(rbsp)
           L == Len(coded)
<1>1. /\ rbsp \in Seq(Octet) /\ coded \in Seq(Octet) /\ at \in Seq(Nat \ {0})
      /\ wzero \in 0 .. 2 /\ zeros \in Nat
      /\ v \in 0 .. 255 /\ phase = "write" /\ phase' = "write"
      /\ UNCHANGED <<it, got, rzero, failed>>
    BY ByteAssumption DEF IInv, NalType, WriteByte, reader
<1>2. n \in Nat /\ n >= 2 /\ Len(at) = n /\ L \in Nat /\ L = at[n]
    BY <1>1 DEF IInv, Placed, WriterCounts
<1>3. /\ rbsp' \in Seq(Octet) /\ Len(rbsp') = n + 1
      /\ \A k \in 1 .. n : rbsp'[k] = rbsp[k]
      /\ rbsp'[n + 1] = v
    BY <1>1, <1>2, AppendByte DEF WriteByte
<1>4. /\ coded' \in Seq(Octet)
      /\ \A k \in 1 .. L : coded'[k] = coded[k]
      /\ IF Escapes(v) THEN Len(coded') = L + 2 /\ coded'[L + 1] = 3 /\ coded'[L + 2] = v
                       ELSE Len(coded') = L + 1 /\ coded'[L + 1] = v
    <2>1. CASE Escapes(v)
        <3>1. coded' = coded \o <<3, v>>
            BY <2>1 DEF WriteByte, EmulationPreventionThreeByte
        <3> QED
            BY <3>1, <2>1, <1>1, <1>2, AppendEscaped
    <2>2. CASE ~Escapes(v)
        <3>1. coded' = Append(coded, v)
            BY <2>2 DEF WriteByte
        <3> QED
            BY <3>1, <2>2, <1>1, <1>2, AppendByte
    <2> QED
        BY <2>1, <2>2
<1>5. /\ at' \in Seq(Nat \ {0}) /\ Len(at') = n + 1
      /\ \A k \in 1 .. n : at'[k] = at[k]
      /\ at'[n + 1] = (IF Escapes(v) THEN L + 2 ELSE L + 1)
      /\ at'[n + 1] = Len(coded')
    BY <1>1, <1>2, <1>4, SMTT(30) DEF WriteByte
<1>6. Escapes(v) <=> v <= 3 /\ ZerosBefore(coded, L + 1) = 2
    BY <1>2 DEF Escapes, IInv, WriterCounts
<1>7. \A k \in 1 .. n :
          /\ at[k] \in 1 .. L
          /\ ZerosBefore(coded', at[k] + 1) = ZerosBefore(coded, at[k] + 1)
    <2> TAKE k \in 1 .. n
    <2>1. at[k] \in Nat \ {0} /\ at[k] <= L
        BY <1>1, <1>2 DEF IInv, Placed
    <2> QED
        BY <2>1, <1>2, <1>4, ZerosBeforeLocal
<1>8. /\ wzero = ZerosBefore(coded, L + 1)
      /\ wzero = IF L = 0 \/ coded[L] # 0 THEN 0 ELSE IF L = 1 \/ coded[L - 1] # 0 THEN 1 ELSE 2
    BY <1>2 DEF IInv, WriterCounts, ZerosBefore
<1>9. NoStartCode'
    <2> SUFFICES ASSUME NEW k \in 1 .. Len(coded') - 2,
                        coded'[k] = 0, coded'[k + 1] = 0, coded'[k + 2] < 3
                 PROVE  FALSE
        BY DEF NoStartCode
    <2>1. CASE k + 2 <= L
        <3>1. k \in 1 .. L - 2 /\ k \in 1 .. L /\ k + 1 \in 1 .. L /\ k + 2 \in 1 .. L
            BY <2>1, <1>2, <1>4
        <3> QED
            BY <3>1, <1>4 DEF IInv, NoStartCode
    <2>2. CASE k + 2 = L + 1
        <3>1. L > 1 /\ k = L - 1 /\ coded[L] = 0 /\ coded[L - 1] = 0
            BY <2>2, <1>2, <1>4, SMTT(30)
        <3>2. wzero = 2
            BY <3>1, <1>8, <1>2
        <3>3. coded'[L + 1] < 3
            BY <2>2
        <3>4. ~Escapes(v) /\ v < 3
            BY <3>3, <1>4
        <3> QED
            BY <3>2, <3>4, <1>1 DEF Escapes
    <2>3. CASE k + 2 = L + 2
        BY <2>3, <1>2, <1>4
    <2> QED
        BY <2>1, <2>2, <2>3, <1>2, <1>4
<1>10. Placed'
    <2>1. Len(rbsp') >= 2 /\ Len(at') = Len(rbsp') /\ at'[1] = 1
        BY <1>2, <1>3, <1>5 DEF IInv, Placed
    <2>2. ASSUME NEW k \in 1 .. n + 1
          PROVE  at'[k] <= Len(coded') /\ coded'[at'[k]] = rbsp'[k]
        <3>1. CASE k <= n
            <4>1. at'[k] = at[k] /\ rbsp'[k] = rbsp[k] /\ k \in 1 .. n
                BY <3>1, <1>2, <1>3, <1>5
            <4>2. at[k] \in 1 .. L /\ coded[at[k]] = rbsp[k]
                BY <4>1, <1>7 DEF IInv, Placed
            <4>3. coded'[at[k]] = coded[at[k]]
                BY <4>2, <1>4
            <4> QED
                BY <4>1, <4>2, <4>3, <1>2, <1>4
        <3>2. CASE k = n + 1
            BY <3>2, <1>2, <1>3, <1>4, <1>5
        <3> QED
            BY <3>1, <3>2, <1>2
    <2>3. ASSUME NEW k \in 1 .. n
          PROVE  IF rbsp'[k + 1] <= 3 /\ ZerosBefore(coded', at'[k] + 1) = 2
                 THEN at'[k + 1] = at'[k] + 2 /\ coded'[at'[k] + 1] = 3
                 ELSE at'[k + 1] = at'[k] + 1
        <3>1. CASE k < n
            <4>1. k \in 1 .. n - 1 /\ k + 1 \in 1 .. n
                BY <3>1, <1>2
            <4>2. /\ rbsp'[k + 1] = rbsp[k + 1] /\ at'[k] = at[k] /\ at'[k + 1] = at[k + 1]
                  /\ ZerosBefore(coded', at'[k] + 1) = ZerosBefore(coded, at[k] + 1)
                BY <4>1, <1>3, <1>5, <1>7
            <4>3. at[k] \in 1 .. L /\ at[k + 1] \in 1 .. L
                BY <4>1, <1>7
            <4>4. IF rbsp[k + 1] <= 3 /\ ZerosBefore(coded, at[k] + 1) = 2
                  THEN at[k + 1] = at[k] + 2 /\ coded[at[k] + 1] = 3
                  ELSE at[k + 1] = at[k] + 1
                BY <4>1 DEF IInv, Placed
            <4>5. at[k + 1] = at[k] + 2 => coded'[at[k] + 1] = coded[at[k] + 1]
                BY <4>3, <1>4, <1>2
            <4> QED
                BY <4>2, <4>4, <4>5
        <3>2. CASE k = n
            <4>1. rbsp'[k + 1] = v /\ at'[k] = L
                BY <3>2, <1>2, <1>3, <1>5
            <4>2. ZerosBefore(coded', L + 1) = ZerosBefore(coded, L + 1)
                BY <1>2, <1>7
            <4> QED
                BY <3>2, <4>1, <4>2, <1>2, <1>4, <1>5, <1>6
        <3> QED
            BY <3>1, <3>2, <1>2
    <2> QED
        BY <2>1, <2>2, <2>3, <1>2, <1>3 DEF Placed
<1>11. zeros' = (IF v = 0 THEN zeros + 1 ELSE 0)
       /\ wzero' = IF v # 0 THEN 0 ELSE IF Escapes(v) THEN 1 ELSE wzero + 1
    BY DEF WriteByte
<1>12. TrailingZeros'
    <2>1. zeros + 2 <= n /\ rbsp[n - zeros] # 0 /\ \A k \in n - zeros + 1 .. n : rbsp[k] = 0
        BY DEF IInv, TrailingZeros
    <2>2. CASE v = 0
        <3>1. zeros' = zeros + 1 /\ Len(rbsp') - zeros' = n - zeros
            BY <2>2, <1>11, <1>3, <1>1, <1>2
        <3>2. n - zeros \in 1 .. n /\ rbsp'[n - zeros] # 0
            <4>1. n - zeros \in 1 .. n
                BY <2>1, <1>1, <1>2
            <4>2. rbsp'[n - zeros] = rbsp[n - zeros]
                BY <4>1, <1>3
            <4> QED
                BY <4>1, <4>2, <2>1
        <3>3. \A k \in n - zeros + 1 .. n + 1 : rbsp'[k] = 0
            <4> TAKE k \in n - zeros + 1 .. n + 1
            <4>1. CASE k = n + 1
                BY <4>1, <2>2, <1>3
            <4>2. CASE k # n + 1
                <5>1. zeros + 2 <= n /\ zeros \in Nat /\ n \in Nat
                    BY <2>1, <1>1, <1>2
                <5>2. k \in n - zeros + 1 .. n /\ k \in 1 .. n
                    <6> HIDE DEF n
                    <6> QED
                        BY <4>2, <5>1
                <5> QED
                    BY <5>2, <2>1, <1>3
            <4> QED
                BY <4>1, <4>2
        <3> QED
            BY <3>1, <3>2, <3>3, <2>1, <1>1, <1>2, <1>3 DEF TrailingZeros
    <2>3. CASE v # 0
        BY <2>3, <1>11, <1>3, <1>2 DEF TrailingZeros
    <2> QED
        BY <2>2, <2>3
<1>13. WriterCounts'
    <2>1. wzero' = IF zeros' = 0 THEN 0 ELSE IF zeros' % 2 = 1 THEN 1 ELSE 2
        <3>1. wzero = IF zeros = 0 THEN 0 ELSE IF zeros % 2 = 1 THEN 1 ELSE 2
            BY DEF IInv, WriterCounts
        <3>2. v = 0 => (Escapes(v) <=> wzero = 2)
            BY DEF Escapes
        <3>3. (zeros + 1) % 2 = 1 <=> zeros % 2 # 1
            BY <1>1
        <3>4. zeros = 0 => zeros % 2 # 1
            BY <1>1
        <3> QED
            BY <3>1, <3>2, <3>3, <3>4, <1>1, <1>11
    <2>2. at'[Len(rbsp')] = Len(coded') /\ Len(coded') \in Nat /\ Len(coded') >= 2
        <3>1. L >= 1
            BY <1>1, <1>2
        <3> QED
            BY <3>1, <1>2, <1>3, <1>4, <1>5
    <2>3. wzero' = ZerosBefore(coded', Len(coded') + 1)
        <3>1. ZerosBefore(coded', Len(coded') + 1) =
                 IF coded'[Len(coded')] # 0 THEN 0
                 ELSE IF coded'[Len(coded') - 1] # 0 THEN 1 ELSE 2
            BY <2>2 DEF ZerosBefore
        <3>2. CASE Escapes(v)
            <4>1. Len(coded') - 1 = L + 1
                BY <3>2, <1>2, <1>4
            <4> QED
                BY <3>1, <3>2, <4>1, <1>2, <1>4, <1>11
        <3>3. CASE ~Escapes(v)
            <4>1. Len(coded') - 1 = L /\ L >= 1
                BY <3>3, <2>2, <1>2, <1>4
            <4>2. coded'[L] = coded[L]
                BY <4>1, <1>2, <1>4
            <4>3. coded'[Len(coded')] = v
                BY <3>3, <1>4
            <4>4. wzero = 2 => v # 0
                BY <3>3 DEF Escapes
            <4> QED
                BY <3>1, <3>3, <4>1, <4>2, <4>3, <4>4, <1>1, <1>2, <1>8, <1>11, SMTT(30)
        <3> QED
            BY <3>2, <3>3
    <2> QED
        BY <2>1, <2>2, <2>3, <1>1 DEF WriterCounts
<1>14. ReaderFollows' /\ RoundTrip'
    BY <1>1 DEF IInv, ReaderFollows, RoundTrip
<1>15. NalType'
    <2>1. wzero' \in 0 .. 2 /\ zeros' \in Nat
        BY <1>1, <1>11 DEF Escapes
    <2> QED
        BY <2>1, <1>1, <1>3, <1>4, <1>5 DEF IInv, NalType
<1> QED
    BY <1>9, <1>10, <1>12, <1>13, <1>14, <1>15 DEF IInv

LEMMA EndWritingInv ==
    ASSUME IInv, EndWriting
    PROVE  IInv'
<1> DEFINE n == Len(rbsp)
           L == Len(coded)
<1>1. /\ rbsp \in Seq(Octet) /\ coded \in Seq(Octet) /\ at \in Seq(Nat \ {0})
      /\ wzero \in 0 .. 2 /\ zeros \in Nat
      /\ phase = "write" /\ phase' = "read"
      /\ UNCHANGED <<rbsp, wzero, zeros, at, it, got, rzero, failed>>
    BY DEF IInv, NalType, EndWriting, reader
<1>2. n \in Nat /\ n >= 2 /\ Len(at) = n /\ L \in Nat \ {0} /\ L = at[n]
    BY <1>1 DEF IInv, Placed, WriterCounts
<1>3. wzero \in {0, 2}
    BY <1>1 DEF EndWriting, EndsProperly, IInv, WriterCounts
<1>4. /\ coded' \in Seq(Octet)
      /\ \A k \in 1 .. L : coded'[k] = coded[k]
      /\ \/ wzero = 0 /\ Len(coded') = L
         \/ wzero = 2 /\ Len(coded') = L + 1 /\ coded'[L + 1] = 3
    <2>1. CASE wzero = 0
        <3>1. coded' = coded
            BY <2>1, <1>1 DEF EndWriting, FinalByte
        <3> QED
            BY <2>1, <3>1, <1>1
    <2>2. CASE wzero = 2
        <3>1. coded' = coded \o <<3>>
            BY <2>2 DEF EndWriting, FinalByte, EmulationPreventionThreeByte
        <3>2. coded \o <<3>> = Append(coded, 3)
            BY <1>1
        <3>3. 3 \in 0 .. 255
            OBVIOUS
        <3>4. /\ coded' \in Seq(Octet) /\ Len(coded') = L + 1
              /\ \A k \in 1 .. L : coded'[k] = coded[k]
              /\ coded'[L + 1] = 3
            BY <3>1, <3>2, <3>3, <1>1, AppendByte
        <3> QED
            BY <2>2, <3>4
    <2> QED
        BY <2>1, <2>2, <1>3
<1>5. \A k \in 1 .. n :
          /\ at[k] \in 1 .. L
          /\ ZerosBefore(coded', at[k] + 1) = ZerosBefore(coded, at[k] + 1)
    <2> TAKE k \in 1 .. n
    <2>1. at[k] \in Nat \ {0} /\ at[k] <= L
        BY <1>1, <1>2 DEF IInv, Placed
    <2> QED
        BY <2>1, <1>2, <1>4, ZerosBeforeLocal
<1>6. NoStartCode'
    <2> SUFFICES ASSUME NEW k \in 1 .. Len(coded') - 2,
                        coded'[k] = 0, coded'[k + 1] = 0, coded'[k + 2] < 3
                 PROVE  FALSE
        BY DEF NoStartCode
    <2>1. k + 2 <= L
        BY <1>2, <1>4
    <2>2. k \in 1 .. L - 2 /\ k \in 1 .. L /\ k + 1 \in 1 .. L /\ k + 2 \in 1 .. L
        BY <2>1, <1>2
    <2> QED
        BY <2>2, <1>4 DEF IInv, NoStartCode
<1>7. Placed'
    <2>1. ASSUME NEW k \in 1 .. n
          PROVE  at[k] <= Len(coded') /\ coded'[at[k]] = rbsp[k]
        BY <1>2, <1>4, <1>5 DEF IInv, Placed
    <2>2. ASSUME NEW k \in 1 .. n - 1
          PROVE  IF rbsp[k + 1] <= 3 /\ ZerosBefore(coded', at[k] + 1) = 2
                 THEN at[k + 1] = at[k] + 2 /\ coded'[at[k] + 1] = 3
                 ELSE at[k + 1] = at[k] + 1
        <3>1. at[k] \in 1 .. L /\ at[k + 1] \in 1 .. L
            BY <1>2, <1>5
        <3>2. ZerosBefore(coded', at[k] + 1) = ZerosBefore(coded, at[k] + 1)
            BY <1>2, <1>5
        <3>3. IF rbsp[k + 1] <= 3 /\ ZerosBefore(coded, at[k] + 1) = 2
              THEN at[k + 1] = at[k] + 2 /\ coded[at[k] + 1] = 3
              ELSE at[k + 1] = at[k] + 1
            BY DEF IInv, Placed
        <3>4. at[k + 1] = at[k] + 2 => coded'[at[k] + 1] = coded[at[k] + 1]
            BY <3>1, <1>4, <1>2
        <3> QED
            BY <3>2, <3>3, <3>4
    <2> QED
        BY <2>1, <2>2, <1>1 DEF IInv, Placed
<1>8. WriterCounts'
    <2>1. wzero = ZerosBefore(coded', at[n] + 1)
        BY <1>2, <1>5 DEF IInv, WriterCounts
    <2> QED
        BY <2>1, <1>1, <1>2, <1>4 DEF IInv, WriterCounts
<1>9. ReaderFollows'
    <2>1. it = 1 /\ got = <<>> /\ rzero = 0
        BY <1>1 DEF IInv, ReaderFollows
    <2>2. ZerosBefore(coded', 1) = 0
        BY DEF ZerosBefore
    <2> QED
        BY <2>1, <2>2, <1>1, <1>2 DEF ReaderFollows
<1>10. TrailingZeros' /\ RoundTrip'
    <2>1. got = <<>>
        BY <1>1 DEF IInv, ReaderFollows
    <2> QED
        BY <2>1, <1>1 DEF IInv, TrailingZeros, RoundTrip
<1>11. NalType'
    BY <1>1, <1>4 DEF IInv, NalType
<1> QED
    BY <1>6, <1>7, <1>8, <1>9, <1>10, <1>11 DEF IInv

----------------------------------------------------------------------------
(* The reader.  At the place of the next byte of the RBSP there is that    *)
(* byte, or the byte 3 that the writer has put before it, and the reader's *)
(* test tells which.                                                       *)
LEMMA NextByteIsFound ==
    ASSUME IInv, phase = "read", it <= Len(coded), Len(got) < Len(rbsp)
    PROVE  LET m == Len(got) + 1
           IN  /\ ~(rzero >= 2 /\ coded[it] < 3)
               /\ IF IsPrevention THEN it < Len(coded) /\ at[m] = it + 1 /\ rbsp[m] <= 3
                                  ELSE at[m] = it
               /\ coded[at[m]] = rbsp[m]
<1> DEFINE m == Len(got) + 1
<1>1. /\ rbsp \in Seq(Octet) /\ coded \in Seq(Octet) /\ at \in Seq(Nat \ {0})
      /\ got \in Seq(Octet) /\ rzero \in 0 .. 2 /\ it \in Nat \ {0}
    BY DEF IInv, NalType
<1>2. m \in 1 .. Len(rbsp) /\ Len(rbsp) >= 2 /\ Len(at) = Len(rbsp) /\ at[1] = 1
    BY <1>1 DEF IInv, Placed
<1>3. at[m] \in Nat \ {0} /\ at[m] <= Len(coded) /\ coded[at[m]] = rbsp[m]
    BY <1>1, <1>2 DEF IInv, Placed
<1>4. rzero = ZerosBefore(coded, it)
    BY DEF IInv, ReaderFollows
<1>5. CASE got = <<>>
    <2>1. it = 1
        BY <1>1, <1>2, <1>5 DEF IInv, ReaderFollows
    <2>2. rzero = 0
        BY <2>1, <1>4 DEF ZerosBefore
    <2> QED
        BY <2>1, <2>2, <1>2, <1>3, <1>5 DEF IsPrevention
<1>6. CASE got # <<>>
    <2>1. it = at[m - 1] + 1 /\ m - 1 \in 1 .. Len(rbsp) - 1
        BY <1>1, <1>2, <1>6 DEF IInv, ReaderFollows
    <2>2. IF rbsp[m] <= 3 /\ rzero = 2
          THEN at[m] = it + 1 /\ coded[it] = 3
          ELSE at[m] = it
        <3>1. at[m - 1] \in Nat
            BY <2>1, <1>1, <1>2
        <3>2. IF rbsp[(m - 1) + 1] <= 3 /\ ZerosBefore(coded, at[m - 1] + 1) = 2
              THEN at[(m - 1) + 1] = at[m - 1] + 2 /\ coded[at[m - 1] + 1] = 3
              ELSE at[(m - 1) + 1] = at[m - 1] + 1
            BY <2>1 DEF IInv, Placed
        <3>3. (m - 1) + 1 = m
            BY <1>1
        <3> QED
            BY <2>1, <3>1, <3>2, <3>3, <1>4
    <2>3. CASE rbsp[m] <= 3 /\ rzero = 2
        BY <2>2, <2>3, <1>1, <1>3 DEF IsPrevention, EmulationPreventionThreeByte
    <2>4. CASE ~(rbsp[m] <= 3 /\ rzero = 2)
        <3>1. at[m] = it /\ coded[it] = rbsp[m]
            BY <2>2, <2>4, <1>3
        <3>2. rbsp[m] \in 0 .. 255
            BY <1>1, <1>2, ElementsAreBytes
        <3>3. \A r \in 0 .. 255 : ~(r <= 3) => r > 3
            OBVIOUS
        <3>4. rzero = 2 => coded[it] > 3
            BY <2>4, <3>1, <3>2, <3>3
        <3>5. rzero >= 2 => rzero = 2
            BY <1>1
        <3>6. \A r \in 0 .. 255 : r > 3 => ~(r < 3) /\ r # 3
            OBVIOUS
        <3>7. ~(rzero >= 2 /\ coded[it] < 3) /\ ~IsPrevention
            BY <3>1, <3>2, <3>4, <3>5, <3>6 DEF IsPrevention, EmulationPreventionThreeByte
        <3> QED
            BY <3>1, <3>7, <1>3
    <2> QED
        BY <2>3, <2>4
<1> QED
    BY <1>5, <1>6

(* When all bytes of the RBSP are there, only the final byte can be left.  *)
LEMMA OnlyFinalByteLeft ==
    ASSUME IInv, phase = "read", it <= Len(coded), ~(Len(got) < Len(rbsp))
    PROVE  IsPrevention /\ it = Len(coded)
<1>1. /\ rbsp \in Seq(Octet) /\ coded \in Seq(Octet) /\ at \in Seq(Nat \ {0})
      /\ got \in Seq(Octet) /\ rzero \in 0 .. 2 /\ it \in Nat \ {0}
    BY DEF IInv, NalType
<1>2. Len(got) = Len(rbsp) /\ Len(rbsp) >= 2 /\ got # <<>>
    BY <1>1 DEF IInv, ReaderFollows, Placed
<1>3. it = at[Len(rbsp)] + 1
    BY <1>1, <1>2 DEF IInv, ReaderFollows
<1>4. wzero = 2 /\ Len(coded) = at[Len(rbsp)] + 1 /\ coded[Len(coded)] = 3
    <2>1. at[Len(rbsp)] \in Nat
        BY <1>1, <1>2 DEF IInv, Placed
    <2> QED
        BY <2>1, <1>1, <1>3 DEF IInv, WriterCounts
<1>5. rzero = 2
    BY <1>3, <1>4 DEF IInv, WriterCounts, ReaderFollows
<1> QED
    BY <1>3, <1>4, <1>5 DEF IsPrevention, EmulationPreventionThreeByte

(* The places before one, as ZerosBefore counts them. *)
LEMMA PlacesBefore ==
    ASSUME NEW k \in Nat \ {0}
    PROVE  k + 1 # 1 /\ (k + 1) - 1 = k /\ (k + 1) - 2 = k - 1 /\ (k + 1 = 2 <=> k = 1)
OBVIOUS

(* Taking the byte at place k, right behind a byte 3 or where the reader   *)
(* stands.                                                                 *)
LEMMA TakeInv ==
    ASSUME IInv, phase = "read", Len(got) < Len(rbsp),
           NEW k \in Nat, k = at[Len(got) + 1], k <= Len(coded), coded[k] = rbsp[Len(got) + 1],
           IF IsPrevention THEN k = it + 1 ELSE k = it,
           ~(rzero >= 2 /\ coded[it] < 3), it <= Len(coded),
           Take(k), UNCHANGED <<failed, phase, writer>>
    PROVE  IInv'
<1>1. /\ rbsp \in Seq(Octet) /\ coded \in Seq(Octet) /\ at \in Seq(Nat \ {0})
      /\ got \in Seq(Octet) /\ rzero \in 0 .. 2 /\ it \in Nat \ {0}
      /\ UNCHANGED <<rbsp, coded, wzero, zeros, at, failed, phase>>
    BY DEF IInv, NalType, writer
<1>2. /\ got' \in Seq(Octet) /\ Len(got') = Len(got) + 1
      /\ \A j \in 1 .. Len(got) : got'[j] = got[j]
      /\ got'[Len(got) + 1] = coded[k]
    <2>1. k \in 1 .. Len(coded)
        <3>1. at[Len(got) + 1] \in Nat \ {0}
            BY <1>1 DEF IInv, Placed
        <3> QED
            BY <3>1
    <2>2. coded[k] \in 0 .. 255
        BY <2>1, <1>1, ElementsAreBytes
    <2> QED
        BY <2>2, <1>1, AppendByte DEF Take
<1>3. it' = k + 1 /\ it' = at[Len(got')] + 1
    BY <1>2 DEF Take
<1>4. rzero' = ZerosBefore(coded, k + 1) /\ rzero' \in 0 .. 2
    <2>1. rzero' = IF coded[k] # 0 THEN 0 ELSE IF IsPrevention THEN 1 ELSE rzero + 1
        BY DEF Take
    <2>2. ZerosBefore(coded, k + 1) =
             IF coded[k] # 0 THEN 0 ELSE IF k = 1 \/ coded[k - 1] # 0 THEN 1 ELSE 2
        <3>1. k \in Nat \ {0}
            <4>1. k = it \/ k = it + 1
                OBVIOUS
            <4> QED
                BY <1>1, <4>1
        <3>2. k + 1 # 1 /\ (k + 1) - 1 = k /\ (k + 1) - 2 = k - 1 /\ (k + 1 = 2 <=> k = 1)
            BY <3>1, PlacesBefore, Zenon
        <3> QED
            BY <3>2, Zenon DEF ZerosBefore
    <2>3. CASE IsPrevention
        <3>1. k - 1 = it /\ coded[it] = 3
            BY <2>3, <1>1 DEF IsPrevention, EmulationPreventionThreeByte
        <3> QED
            BY <2>1, <2>2, <2>3, <3>1
    <2>4. CASE ~IsPrevention
        <3>1. k = it /\ rzero = ZerosBefore(coded, k)
            BY <2>4 DEF IInv, ReaderFollows
        <3>2. coded[k] = 0 => rzero # 2
            BY <3>1, <1>1
        <3>3. rzero = IF k = 1 \/ coded[k - 1] # 0 THEN 0
                      ELSE IF k = 2 \/ coded[k - 2] # 0 THEN 1 ELSE 2
            BY <3>1 DEF ZerosBefore
        <3> QED
            BY <2>1, <2>2, <2>4, <3>2, <3>3, <1>1
    <2> QED
        BY <2>3, <2>4
<1>5. ReaderFollows'
    <2>1. Len(got') <= Len(rbsp) /\ got' # <<>>
        BY <1>1, <1>2
    <2> QED
        BY <2>1, <1>1, <1>3, <1>4 DEF ReaderFollows
<1>6. RoundTrip'
    <2>1. \A j \in 1 .. Len(got') : j \in 1 .. Len(rbsp) /\ got'[j] = rbsp[j]
        <3> TAKE j \in 1 .. Len(got')
        <3>1. CASE j <= Len(got)
            BY <3>1, <1>1, <1>2 DEF IInv, RoundTrip
        <3>2. CASE j = Len(got) + 1
            BY <3>2, <1>1, <1>2
        <3> QED
            BY <3>1, <3>2, <1>1, <1>2
    <2>2. ~failed'
        BY <1>1 DEF IInv, RoundTrip
    <2> QED
        BY <2>1, <2>2, <1>1, <1>2 DEF RoundTrip
<1>7. NalType' /\ NoStartCode' /\ Placed' /\ TrailingZeros' /\ WriterCounts'
    <2>1. it' \in Nat \ {0}
        BY <1>3
    <2> QED
        BY <2>1, <1>1, <1>2, <1>4
           DEF IInv, NalType, NoStartCode, Placed, TrailingZeros, WriterCounts
<1> QED
    BY <1>5, <1>6, <1>7 DEF IInv

LEMMA ReadByteInv ==
    ASSUME IInv, ReadByte
    PROVE  IInv'
<1>1. /\ phase = "read" /\ it <= Len(coded) /\ UNCHANGED <<writer, phase>>
      /\ rbsp \in Seq(Octet) /\ coded \in Seq(Octet) /\ at \in Seq(Nat \ {0})
      /\ got \in Seq(Octet) /\ rzero \in 0 .. 2 /\ it \in Nat \ {0}
    BY DEF ReadByte, IInv, NalType
<1>2. CASE Len(got) < Len(rbsp)
    <2> DEFINE m == Len(got) + 1
    <2>1. /\ ~(rzero >= 2 /\ coded[it] < 3)
          /\ IF IsPrevention THEN it < Len(coded) /\ at[m] = it + 1 /\ rbsp[m] <= 3
                             ELSE at[m] = it
          /\ coded[at[m]] = rbsp[m]
        BY <1>1, <1>2, NextByteIsFound
    <2>2. CASE IsPrevention
        <3>1. it + 1 \in Nat /\ it + 1 <= Len(coded) /\ it # Len(coded) /\ ~(coded[it + 1] > 3)
            <4>1. rbsp[m] \in 0 .. 255
                <5>1. m \in 1 .. Len(rbsp)
                    BY <1>1, <1>2
                <5> QED
                    BY <5>1, <1>1, ElementsAreBytes
            <4>2. coded[it + 1] = rbsp[m] /\ rbsp[m] <= 3 /\ it < Len(coded)
                BY <2>1, <2>2
            <4>3. \A r \in 0 .. 255 : r <= 3 => ~(r > 3)
                OBVIOUS
            <4>4. ~(coded[it + 1] > 3)
                BY <4>1, <4>2, <4>3
            <4>5. it \in Nat /\ Len(coded) \in Nat
                BY <1>1
            <4> QED
                BY <4>2, <4>4, <4>5
        <3>2. Take(it + 1) /\ UNCHANGED failed
            BY <2>1, <2>2, <3>1 DEF ReadByte
        <3> QED
            BY <3>1, <3>2, <2>1, <2>2, <1>1, <1>2, TakeInv
    <2>3. CASE ~IsPrevention
        <3>1. Take(it) /\ UNCHANGED failed
            BY <2>1, <2>3 DEF ReadByte
        <3> QED
            BY <3>1, <2>1, <2>3, <1>1, <1>2, TakeInv
    <2> QED
        BY <2>2, <2>3
<1>3. CASE ~(Len(got) < Len(rbsp))
    <2>1. IsPrevention /\ it = Len(coded) /\ coded[it] = 3
        BY <1>1, <1>3, OnlyFinalByteLeft DEF IsPrevention, EmulationPreventionThreeByte
    <2>2. it' = it + 1 /\ rzero' = 0 /\ UNCHANGED <<got, failed>>
        BY <2>1 DEF ReadByte
    <2>3. ZerosBefore(coded, it + 1) = 0
        BY <2>1, <1>1 DEF ZerosBefore
    <2>4. Len(got) = Len(rbsp)
        BY <1>1, <1>3 DEF IInv, ReaderFollows
    <2>5. ReaderFollows'
        BY <2>1, <2>2, <2>3, <2>4, <1>1 DEF ReaderFollows, writer
    <2>6. NalType' /\ NoStartCode' /\ Placed' /\ TrailingZeros' /\ WriterCounts' /\ RoundTrip'
        BY <2>2, <1>1
           DEF IInv, NalType, NoStartCode, Placed, TrailingZeros, WriterCounts, RoundTrip, writer
    <2> QED
        BY <2>5, <2>6 DEF IInv
<1> QED
    BY <1>2, <1>3

LEMMA EndReadingInv ==
    ASSUME IInv, EndReading
    PROVE  IInv'
<1>1. /\ phase = "read" /\ phase' = "done" /\ it = Len(coded) + 1
      /\ UNCHANGED <<rbsp, coded, wzero, zeros, at, it, rzero>>
      /\ rbsp \in Seq(Octet) /\ coded \in Seq(Octet) /\ at \in Seq(Nat \ {0})
      /\ got \in Seq(Octet) /\ rzero \in 0 .. 2 /\ zeros \in Nat
    BY DEF EndReading, IInv, NalType, writer
<1>2. Len(got) = Len(rbsp) /\ Len(rbsp) >= 2
    <2>1. CASE Len(got) < Len(rbsp)
        <3>1. Len(rbsp) >= 2 /\ Len(at) = Len(rbsp) /\ at[1] = 1 /\ Len(coded) >= 1
            BY <1>1 DEF IInv, Placed
        <3>2. got # <<>> /\ it = at[Len(got)] + 1
            BY <3>1, <2>1, <1>1 DEF IInv, ReaderFollows
        <3>3. Len(got) \in 1 .. Len(rbsp) - 1
            BY <3>2, <2>1, <1>1
        <3>4. at[Len(got) + 1] > at[Len(got)]
            <4>1. at[Len(got)] \in Nat /\ at[Len(got) + 1] \in Nat
                BY <3>1, <3>3, <1>1
            <4> QED
                BY <4>1, <3>3 DEF IInv, Placed
        <3>5. at[Len(got) + 1] <= Len(coded) /\ at[Len(got) + 1] \in Nat /\ at[Len(got)] \in Nat
            BY <3>1, <3>3, <1>1 DEF IInv, Placed
        <3> QED
            BY <3>2, <3>4, <3>5, <1>1
    <2> QED
        BY <2>1, <1>1 DEF IInv, ReaderFollows, Placed
<1>3. got = rbsp
    <2>1. \A k \in 1 .. Len(got) : got[k] = rbsp[k]
        BY <1>1 DEF IInv, RoundTrip
    <2>2. got \in Seq(Octet) /\ rbsp \in Seq(Octet) /\ Len(got) = Len(rbsp)
        BY <1>1, <1>2
    <2> QED
        BY <2>1, <2>2, SeqEqual, Zenon
<1>4. rzero = 0
    <2>1. rzero = ZerosBefore(coded, Len(coded) + 1)
        BY <1>1 DEF IInv, ReaderFollows
    <2>2. CASE wzero = 0 /\ Len(coded) = at[Len(rbsp)]
        BY <2>1, <2>2 DEF IInv, WriterCounts
    <2>3. CASE coded[Len(coded)] = 3
        <3>1. (Len(coded) + 1) - 1 = Len(coded)
            BY <1>1
        <3> QED
            BY <2>1, <2>3, <3>1 DEF ZerosBefore
    <2> QED
        BY <2>2, <2>3, <1>1 DEF IInv, WriterCounts
<1>5. got' = Stripped(rbsp) /\ UNCHANGED failed
    BY <1>3, <1>4 DEF EndReading
<1>6. Stripped(rbsp) \in Seq(Octet)
    <2> DEFINE last == Len(rbsp) - zeros
    <2>1. last \in 0 .. Len(rbsp) /\ rbsp[last] # 0 /\ \A k \in last + 1 .. Len(rbsp) : rbsp[k] = 0
        BY <1>1 DEF IInv, TrailingZeros
    <2> QED
        BY <2>1, <1>1, StrippedIsSequence
<1>7. NalType' /\ NoStartCode' /\ Placed' /\ TrailingZeros' /\ WriterCounts' /\ ReaderFollows'
    BY <1>1, <1>5, <1>6
       DEF IInv, NalType, NoStartCode, Placed, TrailingZeros, WriterCounts, ReaderFollows
<1>8. RoundTrip'
    BY <1>1, <1>5 DEF IInv, RoundTrip
<1> QED
    BY <1>7, <1>8 DEF IInv

----------------------------------------------------------------------------
LEMMA StepInv == IInv /\ [NalNext]_bytesVars => IInv'
<1> SUFFICES ASSUME IInv, [NalNext]_bytesVars
             PROVE  IInv'
    OBVIOUS
<1>1. CASE UNCHANGED bytesVars
    BY <1>1 DEF bytesVars, writer, reader, IInv, NalType, NoStartCode, Placed, TrailingZeros,
                WriterCounts, ReaderFollows, RoundTrip
<1>2. CASE NalNext
    BY <1>2, WriteByteInv, EndWritingInv, ReadByteInv, EndReadingInv DEF NalNext
<1> QED
    BY <1>1, <1>2

(* convertPayloadToRBSP after writeNaluContent: the bytes keep their types, *)
(* no start code is in the payload, and the RBSP comes back without its     *)
(* cabac_zero_words, for every payload.                                     *)
THEOREM BytesComeBack == NalSpec => [](NalType /\ NoStartCode /\ RoundTrip)
<1>1. IInv => NalType /\ NoStartCode /\ RoundTrip
    BY DEF IInv
<1> QED
    BY <1>1, InitInv, StepInv, PTL DEF NalSpec

(* writeNaluContent by itself: whatever the payload, its bytes hold none   *)
(* of the patterns the reader splits the file at.                          *)
THEOREM StartCodesStayOut == NalSpec => []NoStartCode
  BY BytesComeBack, PTL

----------------------------------------------------------------------------
(* ByteStream: the scans of the reader, and reading on to the end. *)

(* A nonempty set of numbers has a least one. *)
LEMMA LeastOf ==
    ASSUME NEW S, S \subseteq Nat, S # {}
    PROVE  \E m \in S : \A j \in S : ~(j < m)
  <1> DEFINE R == OpToRel(<, Nat)
  <1>1. IsWellFoundedOn(R, Nat) BY NatLessThanWellFounded
  <1> HIDE DEF R
  <1>2. \E m \in S : \A j \in S : ~(<<j, m>> \in R) BY <1>1, WFMin
  <1>3. \A m, j \in S : j < m => <<j, m>> \in R BY DEF R, OpToRel
  <1> QED BY <1>2, <1>3

(* A scan from k on stops at the last place at the latest. *)
LEMMA ScanStops ==
    ASSUME NEW A \in Nat, NEW k \in 1 .. A, NEW S, A \in S
    PROVE  \E j \in k .. A : j \in S /\ \A i \in k .. j - 1 : i \notin S
  <1> DEFINE T == S \cap (k .. A)
  <1>1. T \subseteq Nat /\ A \in T OBVIOUS
  <1>2. PICK j \in T : \A i \in T : ~(i < j) BY <1>1, LeastOf
  <1>3. j \in k .. A /\ j \in S OBVIOUS
  <1>4. ASSUME NEW i \in k .. j - 1 PROVE i \notin S
    <2>1. i \in k .. A /\ i < j BY <1>3
    <2> QED BY <2>1, <1>2
  <1> QED BY <1>3, <1>4

(* The three scans of the reader find the first place there is. *)
LEMMA FirstCodeStops ==
    ASSUME file \in Seq(Nat), NEW k \in 1 .. AfterFile
    PROVE  /\ FirstCode[k] \in k .. AfterFile
           /\ FirstCode[k] = AfterFile \/ AtCode(FirstCode[k])
  <1> DEFINE S == {j \in k .. AfterFile : j = AfterFile \/ AtCode(j)}
             Stops(j) == (j = AfterFile \/ AtCode(j)) /\ \A i \in k .. j - 1 : ~AtCode(i)
  <1>1. AfterFile \in Nat /\ k \in 1 .. AfterFile BY DEF AfterFile
  <1>2. AfterFile \in S BY <1>1
  <1>3. PICK j \in k .. AfterFile : j \in S /\ \A i \in k .. j - 1 : i \notin S
    BY <1>1, <1>2, ScanStops
  <1>4. \A i \in k .. j - 1 : ~AtCode(i)
    <2> TAKE i \in k .. j - 1
    <2>1. i \in k .. AfterFile BY <1>1, <1>3
    <2> QED BY <2>1, <1>3
  <1>5. Stops(j) BY <1>3, <1>4
  <1>6. FirstCode[k] = CHOOSE i \in k .. AfterFile : Stops(i) BY DEF FirstCode
  <1> HIDE DEF Stops
  <1>7. FirstCode[k] \in k .. AfterFile /\ Stops(FirstCode[k]) BY <1>5, <1>6
  <1> QED BY <1>7 DEF Stops

LEMMA FirstEndStops ==
    ASSUME file \in Seq(Nat), NEW k \in 1 .. AfterFile
    PROVE  FirstEnd[k] \in k .. AfterFile
  <1> DEFINE S == {j \in k .. AfterFile : j = AfterFile \/ ThreeBytes(j, 0 .. 2)}
             Stops(j) == (j = AfterFile \/ ThreeBytes(j, 0 .. 2)) /\ \A i \in k .. j - 1 : ~ThreeBytes(i, 0 .. 2)
  <1>1. AfterFile \in Nat /\ k \in 1 .. AfterFile BY DEF AfterFile
  <1>2. AfterFile \in S BY <1>1
  <1>3. PICK j \in k .. AfterFile : j \in S /\ \A i \in k .. j - 1 : i \notin S
    BY <1>1, <1>2, ScanStops
  <1>4. \A i \in k .. j - 1 : ~ThreeBytes(i, 0 .. 2)
    <2> TAKE i \in k .. j - 1
    <2>1. i \in k .. AfterFile BY <1>1, <1>3
    <2> QED BY <2>1, <1>3
  <1>5. Stops(j) BY <1>3, <1>4
  <1>6. FirstEnd[k] = CHOOSE i \in k .. AfterFile : Stops(i) BY DEF FirstEnd
  <1> HIDE DEF Stops
  <1> QED BY <1>5, <1>6

LEMMA FirstNonZeroStops ==
    ASSUME file \in Seq(Nat), NEW k \in 1 .. AfterFile
    PROVE  FirstNonZero[k] \in k .. AfterFile
  <1> DEFINE S == {j \in k .. AfterFile : j = AfterFile \/ file[j] # 0}
             Stops(j) == (j = AfterFile \/ file[j] # 0) /\ \A i \in k .. j - 1 : file[i] = 0
  <1>1. AfterFile \in Nat /\ k \in 1 .. AfterFile BY DEF AfterFile
  <1>2. AfterFile \in S BY <1>1
  <1>3. PICK j \in k .. AfterFile : j \in S /\ \A i \in k .. j - 1 : i \notin S
    BY <1>1, <1>2, ScanStops
  <1>4. \A i \in k .. j - 1 : file[i] = 0
    <2> TAKE i \in k .. j - 1
    <2>1. i \in k .. AfterFile BY <1>1, <1>3
    <2> QED BY <2>1, <1>3
  <1>5. Stops(j) BY <1>3, <1>4
  <1>6. FirstNonZero[k] = CHOOSE i \in k .. AfterFile : Stops(i) BY DEF FirstNonZero
  <1> HIDE DEF Stops
  <1> QED BY <1>5, <1>6

(* A scan that is told where it stops. *)
LEMMA FirstCodeIs ==
    ASSUME file \in Seq(Nat), NEW k \in 1 .. AfterFile, k = AfterFile \/ AtCode(k)
    PROVE  FirstCode[k] = k
  <1> DEFINE Stops(i) == (i = AfterFile \/ AtCode(i)) /\ \A m \in k .. i - 1 : ~AtCode(m)
  <1>1. AfterFile \in Nat BY DEF AfterFile
  <1>2. k \in k .. AfterFile /\ Stops(k) BY <1>1
  <1>3. ASSUME NEW i \in k .. AfterFile, Stops(i) PROVE i = k
    <2>1. SUFFICES ASSUME i > k PROVE FALSE BY <1>1
    <2>2. k \in k .. i - 1 BY <2>1, <1>1
    <2>3. k # AfterFile BY <2>1, <1>1
    <2> QED BY <2>2, <2>3, <1>3
  <1>4. FirstCode[k] = CHOOSE i \in k .. AfterFile : Stops(i) BY DEF FirstCode
  <1> HIDE DEF Stops
  <1> QED BY <1>2, <1>3, <1>4

(* The end of a NAL unit, when its place is known. *)
LEMMA FirstEndIs ==
    ASSUME file \in Seq(Nat), NEW k \in 1 .. AfterFile, NEW j \in k .. AfterFile,
           j = AfterFile \/ ThreeBytes(j, 0 .. 2), \A i \in k .. j - 1 : ~ThreeBytes(i, 0 .. 2)
    PROVE  FirstEnd[k] = j
  <1> DEFINE Stops(i) == (i = AfterFile \/ ThreeBytes(i, 0 .. 2)) /\ \A m \in k .. i - 1 : ~ThreeBytes(m, 0 .. 2)
  <1>1. AfterFile \in Nat BY DEF AfterFile
  <1>2. j \in k .. AfterFile /\ Stops(j) OBVIOUS
  <1>3. ASSUME NEW i \in k .. AfterFile, Stops(i) PROVE i = j
    <2>1. i < j => i \in k .. j - 1 BY <1>1
    <2>2. j < i => j \in k .. i - 1 BY <1>1
    <2>3. ~(i < j) BY <2>1, <1>1, <1>3
    <2>4. ~(j < i) BY <2>2, <1>1, <1>3
    <2> QED BY <2>3, <2>4, <1>1
  <1>4. FirstEnd[k] = CHOOSE i \in k .. AfterFile : Stops(i) BY DEF FirstEnd
  <1> HIDE DEF Stops
  <1> QED BY <1>2, <1>3, <1>4

(* The place a read leaves the stream at, without what it has peeked. *)
LEMMA SeekPosition ==
    ASSUME NEW r, NEW next \in Int, NEW p \in Int, NEW n, NEW e,
           r = [nal |-> n, eof |-> e, get |-> next + p, buffered |-> p]
    PROVE  r.get - r.buffered = next /\ r.eof = e
  <1>1. r.get = next + p /\ r.buffered = p /\ r.eof = e OBVIOUS
  <1>2. next + p - p = next OBVIOUS
  <1> QED BY <1>1, <1>2

(* A read leaves the stream further on. *)
LEMMA ReadsGoOn ==
    ASSUME file \in Seq(Nat), NEW k \in 1 .. AfterFile
    PROVE  /\ ReadNal(k).eof \in BOOLEAN
           /\ ~ReadNal(k).eof => ReadNal(k).get - ReadNal(k).buffered \in k + 1 .. AfterFile
  <1> DEFINE code  == FirstCode[k]
             stray == FirstNonZero[k]
             body  == code + (IF ThreeBytes(code, {1}) THEN 3 ELSE 4)
             end   == FirstEnd[body]
             next  == FirstCode[end]
             peeked == IF ThreeBytes(next, {1}) THEN 3 ELSE 4
             r == ReadNal(k)
  <1>0. Len(file) \in Nat /\ AfterFile = Len(file) + 1 BY DEF AfterFile
  <1>1. stray \in k .. AfterFile BY FirstNonZeroStops
  <1>2. code \in k .. AfterFile /\ (code = AfterFile \/ AtCode(code)) BY FirstCodeStops
  <1>3. CASE stray < code
    <2>0. ~(stray >= code)
      <3> HIDE DEF stray, code
      <3> QED BY <1>0, <1>1, <1>2, <1>3
    <2>1. r = [nal |-> <<>>, eof |-> stray + 3 > Len(file), get |-> stray + 4, buffered |-> 3]
      BY <1>3, <2>0, Zenon DEF ReadNal
    <2> HIDE DEF stray, code
    <2>3. r.eof = (stray + 3 > Len(file)) /\ r.get = stray + 4 /\ r.buffered = 3 BY <2>1
    <2>4. r.eof \in BOOLEAN
      <3>1. CASE stray + 3 > Len(file) BY <2>3, <3>1
      <3>2. CASE ~(stray + 3 > Len(file)) BY <2>3, <3>2
      <3> QED BY <3>1, <3>2
    <2>5. ~r.eof => stray + 1 \in k + 1 .. AfterFile
      <3>1. CASE stray + 3 > Len(file) BY <2>3, <3>1
      <3>2. CASE ~(stray + 3 > Len(file))
        <4>1. stray + 1 \in k + 1 .. AfterFile BY <3>2, <1>1, <1>0
        <4> QED BY <4>1
      <3> QED BY <3>1, <3>2
    <2>6. r.get = stray + 4 /\ r.buffered = 3 BY <2>3
    <2>7. r.get - r.buffered = stray + 1 BY <2>6, <1>1, <1>0
    <2> QED BY <2>4, <2>5, <2>7
  <1>4. CASE ~(stray < code)
    <2>0. stray >= code BY <1>0, <1>1, <1>2, <1>4
    <2>1. CASE code = AfterFile
      <3>1. r = [nal |-> <<>>, eof |-> TRUE, get |-> AfterFile, buffered |-> 0]
        BY <1>4, <2>0, <2>1 DEF ReadNal
      <3> QED BY <3>1
    <2>2. CASE code # AfterFile /\ next = AfterFile
      <3>1. r = [nal |-> SubSeq(file, body, end - 1), eof |-> TRUE, get |-> AfterFile, buffered |-> 0]
        BY <1>4, <2>0, <2>2 DEF ReadNal
      <3> QED BY <3>1
    <2>3. CASE code # AfterFile /\ next # AfterFile
      <3>1. r = [nal |-> SubSeq(file, body, end - 1), eof |-> FALSE, get |-> next + peeked, buffered |-> peeked]
        <4>1. ~(stray >= code /\ code = AfterFile) BY <2>3
        <4>2. ~(stray >= code /\ code # AfterFile /\ next = AfterFile) BY <2>3
        <4> QED BY <1>4, <4>1, <4>2, Zenon DEF ReadNal
      <3>2. AtCode(code) BY <1>2, <2>3
      <3>3. body \in code + 3 .. AfterFile
        <4>1. CASE ThreeBytes(code, {1})
          <5>1. body = code + 3 BY <4>1
          <5>2. code + 2 <= Len(file) BY <4>1 DEF ThreeBytes
          <5> HIDE DEF body, code
          <5> QED BY <5>1, <5>2, <1>0, <1>2
        <4>2. CASE ~ThreeBytes(code, {1})
          <5>1. body = code + 4 BY <4>2
          <5>2. code + 1 + 2 <= Len(file) BY <4>2, <3>2 DEF AtCode, ThreeBytes
          <5> HIDE DEF body, code
          <5> QED BY <5>1, <5>2, <1>0, <1>2
        <4> QED BY <4>1, <4>2
      <3> HIDE DEF body
      <3>4. body \in 1 .. AfterFile BY <3>3, <1>0, <1>2
      <3>5. end \in body .. AfterFile BY <3>4, FirstEndStops
      <3> HIDE DEF end
      <3>6. end \in 1 .. AfterFile BY <3>5, <3>4, <1>0
      <3>7. next \in end .. AfterFile BY <3>6, FirstCodeStops
      <3> HIDE DEF next, code
      <3>8. next \in k + 1 .. AfterFile BY <3>7, <3>5, <3>3, <1>2, <1>0
      <3>9. peeked \in {3, 4} OBVIOUS
      <3> HIDE DEF peeked
      <3>10. next \in Int /\ peeked \in Int BY <3>8, <3>9, <1>0
      <3>11. r.get - r.buffered = next /\ r.eof = FALSE BY <3>1, <3>10, SeekPosition
      <3> QED BY <3>8, <3>11
    <2> QED BY <2>1, <2>2, <2>3
  <1> QED BY <1>3, <1>4

(* So reading on until a NAL unit decides comes to an end. *)
Follows(f, A, stop, val, next) ==
    f = [k \in 1 .. A |-> IF stop[k] THEN val[k] ELSE f[next[k]]]

(* A function that follows such a chain exists: were there none, take the  *)
(* shortest end of the places that has none, and put one place before it.  *)
LEMMA ChainsEnd ==
    ASSUME NEW A \in Nat, NEW stop, NEW val, NEW next,
           \A k \in 1 .. A : ~stop[k] => next[k] \in k + 1 .. A
    PROVE  \E f : Follows(f, A, stop, val, next)
  <1> DEFINE Solves(f, m) == f = [k \in A - m + 1 .. A |-> IF stop[k] THEN val[k] ELSE f[next[k]]]
             Bad == {m \in 0 .. A : ~\E f : Solves(f, m)}
  <1>1. SUFFICES ASSUME Bad # {} PROVE FALSE
    <2>1. Bad = {} BY <1>1
    <2>2. A \in 0 .. A OBVIOUS
    <2>3. PICK f : Solves(f, A) BY <2>1, <2>2
    <2>4. A - A + 1 = 1 OBVIOUS
    <2>5. Follows(f, A, stop, val, next) BY <2>3, <2>4 DEF Follows
    <2> QED BY <2>5
  <1>2. PICK m \in Bad : \A j \in Bad : ~(j < m)
    <2>1. Bad \subseteq Nat OBVIOUS
    <2> QED BY <2>1, <1>1, LeastOf
  <1>3. m \in 0 .. A /\ ~\E f : Solves(f, m) OBVIOUS
  <1>4. m # 0
    <2>1. SUFFICES ASSUME m = 0 PROVE FALSE OBVIOUS
    <2>2. A - 0 + 1 .. A = {} OBVIOUS
    <2> DEFINE f == [k \in {} |-> 0]
    <2>3. f = [k \in {} |-> IF stop[k] THEN val[k] ELSE f[next[k]]] OBVIOUS
    <2>4. Solves(f, 0) BY <2>2, <2>3, Zenon
    <2> QED BY <2>1, <2>4, <1>3
  <1>5. m - 1 \in 0 .. A /\ m - 1 < m BY <1>3, <1>4
  <1>6. PICK f : Solves(f, m - 1) BY <1>5, <1>2
  <1> DEFINE first == A - m + 1
             g == [k \in first .. A |-> IF k = first THEN (IF stop[k] THEN val[k] ELSE f[next[k]]) ELSE f[k]]
  <1>7. first \in 1 .. A /\ A - (m - 1) + 1 = first + 1 BY <1>3, <1>4
  <1>8. f = [k \in first + 1 .. A |-> IF stop[k] THEN val[k] ELSE f[next[k]]] BY <1>6, <1>7
  <1> HIDE DEF first, Solves, Bad
  <1>9. ASSUME NEW k \in first .. A
        PROVE  g[k] = IF stop[k] THEN val[k] ELSE g[next[k]]
    <2>1. k \in 1 .. A /\ (k # first => k \in first + 1 .. A) BY <1>7
    <2>2. ~stop[k] => next[k] \in first .. A /\ next[k] # first
      <3>1. ~stop[k] => next[k] \in k + 1 .. A BY <2>1
      <3> QED BY <3>1, <1>7
    <2>3. ~stop[k] => g[next[k]] = f[next[k]] BY <2>2
    <2>4. g[k] = IF k = first THEN (IF stop[k] THEN val[k] ELSE f[next[k]]) ELSE f[k] OBVIOUS
    <2>5. k # first => f[k] = IF stop[k] THEN val[k] ELSE f[next[k]] BY <2>1, <1>8
    <2> HIDE DEF g
    <2> QED BY <2>3, <2>4, <2>5
  <1>10. g = [k \in first .. A |-> IF stop[k] THEN val[k] ELSE g[next[k]]]
    <2>1. g = [k \in first .. A |-> g[k]] OBVIOUS
    <2> HIDE DEF g
    <2> QED BY <2>1, <1>9
  <1>11. Solves(g, m) BY <1>10, Zenon DEF Solves, first
  <1> QED BY <1>11, <1>3

(* What a look-ahead finds is what it finds from the next NAL unit on      *)
(* when the one it reads does not decide.                                  *)
LEMMA LookAheadGoesOn ==
    ASSUME file \in Seq(Nat), NEW k \in 1 .. AfterFile, NEW passing
    PROVE  LookAhead(k, passing) =
              LET r == ReadNal(k)
              IN  IF r.nal # <<>> /\ KindOf(r.nal) \notin passing THEN KindOf(r.nal)
                  ELSE IF r.eof THEN "NONE"
                  ELSE LookAhead(r.get - r.buffered, passing)
  <1> DEFINE Reads == 1 .. AfterFile
             Decides(i) == ReadNal(i).nal # <<>> /\ KindOf(ReadNal(i).nal) \notin passing
             stop == [i \in Reads |-> Decides(i) \/ ReadNal(i).eof]
             val  == [i \in Reads |-> IF Decides(i) THEN KindOf(ReadNal(i).nal) ELSE "NONE"]
             next == [i \in Reads |-> ReadNal(i).get - ReadNal(i).buffered]
             Body(f) == [i \in Reads |->
                 IF ReadNal(i).nal # <<>> /\ KindOf(ReadNal(i).nal) \notin passing THEN KindOf(ReadNal(i).nal)
                 ELSE IF ReadNal(i).eof THEN "NONE" ELSE f[ReadNal(i).get - ReadNal(i).buffered]]
             D == CHOOSE f : f = Body(f)
  <1>1. \A i : LookAhead(i, passing) = D[i] BY DEF LookAhead
  <1>2. AfterFile \in Nat BY DEF AfterFile
  <1>3. \A i \in 1 .. AfterFile : ~stop[i] => next[i] \in i + 1 .. AfterFile
    <2> TAKE i \in 1 .. AfterFile
    <2>1. ~ReadNal(i).eof => ReadNal(i).get - ReadNal(i).buffered \in i + 1 .. AfterFile BY ReadsGoOn
    <2>2. stop[i] = (Decides(i) \/ ReadNal(i).eof) /\ next[i] = ReadNal(i).get - ReadNal(i).buffered OBVIOUS
    <2> HIDE DEF stop, next, Decides
    <2> QED BY <2>1, <2>2
  <1>4. PICK f : Follows(f, AfterFile, stop, val, next)
    <2> HIDE DEF stop, val, next
    <2> QED BY <1>2, <1>3, ChainsEnd
  <1>5. f = Body(f)
    <2>1. ASSUME NEW i \in Reads
          PROVE  (IF stop[i] THEN val[i] ELSE f[next[i]]) = Body(f)[i]
      <3>1. stop[i] = (Decides(i) \/ ReadNal(i).eof) OBVIOUS
      <3>2. val[i] = IF Decides(i) THEN KindOf(ReadNal(i).nal) ELSE "NONE" OBVIOUS
      <3>3. next[i] = ReadNal(i).get - ReadNal(i).buffered OBVIOUS
      <3>4. Body(f)[i] = IF Decides(i) THEN KindOf(ReadNal(i).nal)
                         ELSE IF ReadNal(i).eof THEN "NONE" ELSE f[ReadNal(i).get - ReadNal(i).buffered]
        OBVIOUS
      <3> HIDE DEF stop, val, next, Body, Decides
      <3> QED BY <3>1, <3>2, <3>3, <3>4
    <2>2. Body(f) = [i \in Reads |-> Body(f)[i]] OBVIOUS
    <2> HIDE DEF stop, val, next, Body
    <2>3. Body(f) = [i \in Reads |-> IF stop[i] THEN val[i] ELSE f[next[i]]] BY <2>1, <2>2
    <2>4. f = [i \in Reads |-> IF stop[i] THEN val[i] ELSE f[next[i]]] BY <1>4, Zenon DEF Follows
    <2> QED BY <2>3, <2>4
  <1> HIDE DEF stop, val, next
  <1>6. D = Body(D)
    <2> HIDE DEF Body
    <2> QED BY <1>5
  <1> HIDE DEF D
  <1>7. D[k] = IF ReadNal(k).nal # <<>> /\ KindOf(ReadNal(k).nal) \notin passing THEN KindOf(ReadNal(k).nal)
               ELSE IF ReadNal(k).eof THEN "NONE" ELSE D[ReadNal(k).get - ReadNal(k).buffered]
    BY <1>6
  <1> QED BY <1>1, <1>7

----------------------------------------------------------------------------
(* The bytes of a NAL unit and where they are in the file. *)

Nals == [kind : Kind, pic : Nat]

BodyOf(p, long) == p + (IF long THEN 4 ELSE 3)

(* The bytes of a NAL unit whose start code is at place p. *)
NalAt(p, long, nal) ==
    /\ p \in 1 .. Len(file)
    /\ file[p] = 0 /\ file[p + 1] = 0
    /\ long => file[p + 2] = 0 /\ file[p + 3] = 1
    /\ ~long => file[p + 2] = 1
    /\ BodyOf(p, long) + Len(Bytes(nal)) <= AfterFile
    /\ \A i \in 1 .. Len(Bytes(nal)) : file[BodyOf(p, long) + i - 1] = Bytes(nal)[i]

(* A header, and behind it a byte that is not 0, or a cabac_zero_word too. *)
NalShape(s) ==
    /\ s \in Seq(Nat) /\ Len(s) \in {2, 3, 6} /\ s[2] \in 41 .. 97
    /\ Len(s) > 2 => s[3] = 9
    /\ Len(s) > 3 => Len(s) = 6 /\ s[6] = 3

(* The header of a NAL unit tells its kind. *)
LEMMA HeadersTell ==
    ASSUME NEW kind \in Kind
    PROVE  /\ 8 * TypeCode(kind) + 1 \in 41 .. 97
           /\ (8 * TypeCode(kind) + 1) \div 8 = TypeCode(kind)
           /\ \A other \in Kind : TypeCode(other) = TypeCode(kind) => other = kind
  <1>1. TypeCode("AUD") = 5 /\ TypeCode("PS") = 6 /\ TypeCode("PREFIX") = 7 /\ TypeCode("PH") = 8
    BY DEF TypeCode
  <1>2. TypeCode("FIRST") = 9 /\ TypeCode("SLICE") = 10 /\ TypeCode("SUFFIX") = 11 /\ TypeCode("EOS") = 12
    BY DEF TypeCode
  <1>3. \A k \in Kind : k \in {"AUD", "PS", "PREFIX", "PH", "FIRST", "SLICE", "SUFFIX", "EOS"}
    BY DEF Kind, Slices
  <1>4. TypeCode(kind) \in 5 .. 12 BY <1>1, <1>2, <1>3
  <1>5. \A t \in 5 .. 12 : 8 * t + 1 \in 41 .. 97 /\ (8 * t + 1) \div 8 = t OBVIOUS
  <1>6. ASSUME NEW other \in Kind, TypeCode(other) = TypeCode(kind) PROVE other = kind
    BY <1>1, <1>2, <1>3, <1>6
  <1> QED BY <1>4, <1>5, <1>6

(* The three forms of a NAL unit's bytes. *)
LEMMA SmallSequences ==
    ASSUME NEW c \in Nat
    PROVE  /\ <<0, c>> \o <<>> = <<0, c>>
           /\ <<0, c>> \o <<9>> = <<0, c, 9>>
           /\ <<0, c>> \o <<9, 0, 0, 3>> = <<0, c, 9, 0, 0, 3>>
  <1>1. <<0, c>> \o <<>> = <<0, c>> OBVIOUS
  <1>2. <<0, c>> \o <<9>> = <<0, c, 9>>
    <2> DEFINE h == <<0, c>>
               b == <<9>>
               s == h \o b
               t == <<0, c, 9>>
    <2>1. h \in Seq(Nat) /\ b \in Seq(Nat) /\ t \in Seq(Nat) OBVIOUS
    <2>2. Len(h) = 2 /\ h[1] = 0 /\ h[2] = c /\ Len(b) = 1 /\ b[1] = 9 OBVIOUS
    <2>3. Len(t) = 3 /\ t[1] = 0 /\ t[2] = c /\ t[3] = 9 OBVIOUS
    <2> HIDE DEF h, b, t
    <2>4. s \in Seq(Nat) /\ Len(s) = 3 /\ s[1] = 0 /\ s[2] = c /\ s[3] = 9
      <3>1. /\ s \in Seq(Nat) /\ Len(s) = Len(h) + Len(b)
            /\ \A i \in 1 .. Len(h) + Len(b) : s[i] = IF i <= Len(h) THEN h[i] ELSE b[i - Len(h)]
        BY <2>1, ConcatProperties
      <3>2. Len(h) + Len(b) = 3 /\ Len(h) = 2 BY <2>2
      <3> HIDE DEF s
      <3>3. \A i \in 1 .. 3 : s[i] = IF i <= 2 THEN h[i] ELSE b[i - 2] BY <3>1, <3>2
      <3>4. s[1] = h[1] /\ s[2] = h[2] /\ s[3] = b[1] BY <3>3
      <3> QED BY <3>1, <3>2, <3>4, <2>2
    <2> HIDE DEF s
    <2>5. \A i \in 1 .. Len(s) : i \in {1, 2, 3} BY <2>4
    <2>6. \A i \in 1 .. Len(s) : s[i] = t[i] BY <2>3, <2>4, <2>5
    <2>7. s = t BY <2>1, <2>3, <2>4, <2>6, SeqEqual
    <2> QED BY <2>7 DEF s, t, h, b
  <1>3. <<0, c>> \o <<9, 0, 0, 3>> = <<0, c, 9, 0, 0, 3>>
    <2> DEFINE h == <<0, c>>
               b == <<9, 0, 0, 3>>
               s == h \o b
               t == <<0, c, 9, 0, 0, 3>>
    <2>1. h \in Seq(Nat) /\ b \in Seq(Nat) /\ t \in Seq(Nat) OBVIOUS
    <2>2. Len(h) = 2 /\ h[1] = 0 /\ h[2] = c OBVIOUS
    <2>3. Len(b) = 4 /\ b[1] = 9 /\ b[2] = 0 /\ b[3] = 0 /\ b[4] = 3 OBVIOUS
    <2>4. Len(t) = 6 /\ t[1] = 0 /\ t[2] = c /\ t[3] = 9 /\ t[4] = 0 /\ t[5] = 0 /\ t[6] = 3 OBVIOUS
    <2> HIDE DEF h, b, t
    <2>a. /\ s \in Seq(Nat) /\ Len(s) = Len(h) + Len(b)
          /\ \A i \in 1 .. Len(h) + Len(b) : s[i] = IF i <= Len(h) THEN h[i] ELSE b[i - Len(h)]
      BY <2>1, ConcatProperties
    <2>b. Len(h) + Len(b) = 6 /\ Len(h) = 2 BY <2>2, <2>3
    <2> HIDE DEF s
    <2>c. \A i \in 1 .. 6 : s[i] = IF i <= 2 THEN h[i] ELSE b[i - 2] BY <2>a, <2>b
    <2>5. s \in Seq(Nat) /\ Len(s) = 6 /\ s[1] = 0 /\ s[2] = c BY <2>a, <2>b, <2>c, <2>2
    <2>d. s[3] = b[1] /\ s[4] = b[2] /\ s[5] = b[3] /\ s[6] = b[4] BY <2>c
    <2>6. s[3] = 9 /\ s[4] = 0 /\ s[5] = 0 /\ s[6] = 3 BY <2>d, <2>3
    <2>7. \A i \in 1 .. Len(s) : i \in {1, 2, 3, 4, 5, 6} BY <2>5
    <2>8. \A i \in 1 .. Len(s) : s[i] = t[i] BY <2>4, <2>5, <2>6, <2>7
    <2>9. s = t BY <2>1, <2>4, <2>5, <2>8, SeqEqual
    <2> QED BY <2>9 DEF s, t, h, b
  <1> QED BY <1>1, <1>2, <1>3

(* Each has the shape the reader relies on. *)
LEMMA SmallElements ==
    ASSUME NEW c \in 41 .. 97, NEW s, s \in {<<0, c>>, <<0, c, 9>>, <<0, c, 9, 0, 0, 3>>}
    PROVE  NalShape(s)
  <1>1. CASE s = <<0, c>>
    <2>1. Len(s) = 2 /\ s[1] = 0 /\ s[2] = c /\ s \in Seq(Nat) BY <1>1
    <2> QED BY <2>1 DEF NalShape
  <1>2. CASE s = <<0, c, 9>>
    <2>1. Len(s) = 3 /\ s[1] = 0 /\ s[2] = c /\ s[3] = 9 /\ s \in Seq(Nat) BY <1>2
    <2> QED BY <2>1 DEF NalShape
  <1>3. CASE s = <<0, c, 9, 0, 0, 3>>
    <2>1. Len(s) = 6 /\ s[1] = 0 /\ s[2] = c /\ s[3] = 9 BY <1>3
    <2>2. s[6] = 3 /\ s \in Seq(Nat) BY <1>3
    <2> QED BY <2>1, <2>2 DEF NalShape
  <1> QED BY <1>1, <1>2, <1>3

(* The bytes of a NAL unit tell its kind, and have that shape. *)
LEMMA BytesAre ==
    ASSUME NEW nal \in Nals
    PROVE  /\ Bytes(nal) \in Seq(Nat) /\ Bytes(nal) # <<>>
           /\ KindOf(Bytes(nal)) = nal.kind
           /\ NalShape(Bytes(nal))
  <1>1. nal.kind \in Kind BY DEF Nals
  <1> DEFINE t == TypeCode(nal.kind)
             c == 8 * t + 1
  <1>2. c \in 41 .. 97 /\ c \div 8 = t /\ \A other \in Kind : TypeCode(other) = t => other = nal.kind
    BY <1>1, HeadersTell
  <1>3. Bytes(nal) = <<0, c>> \o (CASE nal.kind \in Slices -> <<9, 0, 0, 3>> [] nal.kind = "EOS" -> <<>> [] OTHER -> <<9>>)
    BY DEF Bytes, Header
  <1> HIDE DEF c, t
  <1>4. Bytes(nal) \in {<<0, c>>, <<0, c, 9>>, <<0, c, 9, 0, 0, 3>>}
    <2>1. CASE nal.kind \in Slices
      <3>1. ~(nal.kind = "EOS") BY <2>1 DEF Slices
      <3>2. Bytes(nal) = <<0, c>> \o <<9, 0, 0, 3>> BY <1>3, <2>1, <3>1
      <3> QED BY <3>2, <1>2, SmallSequences
    <2>2. CASE nal.kind = "EOS"
      <3>1. ~(nal.kind \in Slices) BY <2>2 DEF Slices
      <3>2. Bytes(nal) = <<0, c>> \o <<>> BY <1>3, <2>2, <3>1
      <3> QED BY <3>2, <1>2, SmallSequences
    <2>3. CASE ~(nal.kind \in Slices) /\ ~(nal.kind = "EOS")
      <3>1. Bytes(nal) = <<0, c>> \o <<9>> BY <1>3, <2>3
      <3> QED BY <3>1, <1>2, SmallSequences
    <2> QED BY <2>1, <2>2, <2>3
  <1>5. NalShape(Bytes(nal))
    <2>1. PICK s : s = Bytes(nal) OBVIOUS
    <2>2. s \in {<<0, c>>, <<0, c, 9>>, <<0, c, 9, 0, 0, 3>>} BY <1>4, <2>1, Zenon
    <2>3. NalShape(s) BY <1>2, <2>2, SmallElements
    <2> QED BY <2>1, <2>3, Zenon
  <1>a. Bytes(nal) \in Seq(Nat) /\ Bytes(nal) # <<>> /\ Bytes(nal)[2] = c
    <2>1. Bytes(nal) \in Seq(Nat) /\ Bytes(nal) # <<>> BY <1>5 DEF NalShape
    <2>2. PICK s : s = Bytes(nal) OBVIOUS
    <2>3. s \in {<<0, c>>, <<0, c, 9>>, <<0, c, 9, 0, 0, 3>>} BY <1>4, <2>2, Zenon
    <2>4. s[2] = c BY <2>3
    <2> QED BY <2>1, <2>2, <2>4, Zenon
  <1>6. KindOf(Bytes(nal)) = CHOOSE kind \in Kind : TypeCode(kind) = t
    BY <1>2, <1>a DEF KindOf
  <1>7. TypeCode(nal.kind) = t BY DEF t
  <1>8. KindOf(Bytes(nal)) = nal.kind
    <2> HIDE DEF t
    <2> QED BY <1>1, <1>2, <1>6, <1>7
  <1> QED BY <1>5, <1>a, <1>8

(* Nothing in the body of a NAL unit looks like its end. *)
LEMMA BodyIsClosed ==
    ASSUME file \in Seq(Nat), NEW p, NEW long \in BOOLEAN, NEW nal \in Nals, NalAt(p, long, nal),
           NEW i \in BodyOf(p, long) .. BodyOf(p, long) + Len(Bytes(nal)) - 1
    PROVE  ~ThreeBytes(i, 0 .. 2)
  <1>0. PICK b, s : b = BodyOf(p, long) /\ s = Bytes(nal) OBVIOUS
  <1>1. p \in Nat /\ b \in Nat BY <1>0 DEF NalAt, BodyOf
  <1>2. \A m \in 1 .. Len(s) : file[b + m - 1] = s[m] BY <1>0, Zenon DEF NalAt
  <1>3. NalShape(s) BY <1>0, BytesAre, Zenon
  <1>4. i \in b .. b + Len(s) - 1 BY <1>0, Zenon
  <1>a. Len(s) \in {2, 3, 6} BY <1>3 DEF NalShape
  <1>b. s[2] # 0
    <2>1. PICK c : c = s[2] OBVIOUS
    <2>2. c \in 41 .. 97 BY <1>3, <2>1, Zenon DEF NalShape
    <2>3. c # 0 BY <2>2
    <2> QED BY <2>1, <2>3, Zenon
  <1>c. Len(s) > 2 => s[3] = 9 BY <1>3 DEF NalShape
  <1>d. Len(s) > 3 => Len(s) = 6 /\ s[6] = 3 BY <1>3 DEF NalShape
  <1>5. /\ Len(s) \in {2, 3, 6} /\ s[2] # 0
        /\ Len(s) > 2 => s[3] = 9
        /\ Len(s) > 3 => Len(s) = 6 /\ s[6] = 3
    BY <1>a, <1>b, <1>c, <1>d
  <1>6. file[b + 1] # 0
    <2>1. 2 \in 1 .. Len(s) /\ b + 2 - 1 = b + 1 BY <1>5, <1>1
    <2> QED BY <2>1, <1>2, <1>5
  <1>7. CASE i = b \/ i = b + 1
    <2>1. file[i] # 0 \/ file[i + 1] # 0 BY <1>6, <1>7, <1>1
    <2> QED BY <2>1 DEF ThreeBytes
  <1>8. CASE i = b + 2
    <2>1. 3 \in 1 .. Len(s) /\ b + 3 - 1 = b + 2 /\ Len(s) > 2 BY <1>4, <1>5, <1>8, <1>1
    <2>2. file[i] = 9 BY <2>1, <1>2, <1>5, <1>8
    <2> QED BY <2>2 DEF ThreeBytes
  <1>9. CASE i \in {b + 3, b + 4, b + 5}
    <2>1. 6 \in 1 .. Len(s) /\ b + 6 - 1 = b + 5 /\ Len(s) > 3 BY <1>4, <1>5, <1>9, <1>1
    <2>2. file[b + 5] = 3 BY <2>1, <1>2, <1>5
    <2>3. i = b + 5 \/ i + 1 = b + 5 \/ i + 2 = b + 5 BY <1>9, <1>1
    <2>4. file[i] = 3 \/ file[i + 1] = 3 \/ file[i + 2] = 3 BY <2>2, <2>3
    <2> QED BY <2>4 DEF ThreeBytes
  <1>10. i \in {b, b + 1, b + 2, b + 3, b + 4, b + 5}
    <2>0. Len(s) \in Nat /\ Len(s) <= 6
      <3>1. PICK n : n = Len(s) OBVIOUS
      <3>2. n \in {2, 3, 6} BY <1>a, <3>1, Zenon
      <3>3. n \in Nat /\ n <= 6 BY <3>2
      <3> QED BY <3>1, <3>3, Zenon
    <2>a. i \in Int /\ b <= i /\ i <= b + Len(s) - 1 BY <1>4, <2>0, <1>1
    <2>1. i \in b .. b + 5 BY <2>a, <2>0, <1>1
    <2> QED BY <2>1, <1>1
  <1> QED BY <1>7, <1>8, <1>9, <1>10

(* A start code, seen from its first byte and from the one after a long    *)
(* one's first.                                                            *)
LEMMA CodeSeen ==
    ASSUME file \in Seq(Nat), NEW p, NEW long \in BOOLEAN, NEW nal \in Nals, NalAt(p, long, nal),
           NEW from, from = p \/ (long /\ from = p + 1)
    PROVE  /\ from \in 1 .. Len(file)
           /\ AtCode(from)
           /\ from + (IF ThreeBytes(from, {1}) THEN 3 ELSE 4) = BodyOf(p, long)
           /\ long => ~ThreeBytes(p, {1})
           /\ ~long => ThreeBytes(p, {1})
           /\ ThreeBytes(p, 0 .. 2)
           /\ BodyOf(p, long) \in 1 .. AfterFile
           /\ BodyOf(p, long) + Len(Bytes(nal)) \in BodyOf(p, long) .. AfterFile
  <1> DEFINE n == Len(file)
             b == BodyOf(p, long)
             m == Len(Bytes(nal))
  <1>1. n \in Nat /\ AfterFile = n + 1 BY DEF AfterFile
  <1>2. m \in Nat /\ m >= 2
    <2>1. NalShape(Bytes(nal)) BY BytesAre
    <2> QED BY <2>1 DEF NalShape
  <1>3. p \in 1 .. n /\ b + m <= AfterFile BY DEF NalAt
  <1>4. file[p] = 0 /\ file[p + 1] = 0 /\ (long => file[p + 2] = 0 /\ file[p + 3] = 1) /\ (~long => file[p + 2] = 1)
    BY DEF NalAt
  <1>5. b = IF long THEN p + 4 ELSE p + 3 BY DEF BodyOf
  <1> HIDE DEF n, b, m
  <1>6. b \in 1 .. AfterFile /\ b + m \in b .. AfterFile BY <1>1, <1>2, <1>3, <1>5
  <1>7. CASE ~long
    <2>1. p + 2 <= n /\ b = p + 3 BY <1>1, <1>2, <1>3, <1>5, <1>7
    <2>2. ThreeBytes(p, {1}) /\ ThreeBytes(p, 0 .. 2) BY <2>1, <1>4, <1>7 DEF ThreeBytes, n
    <2>3. from = p BY <1>7
    <2> QED BY <2>1, <2>2, <2>3, <1>3, <1>6, <1>7 DEF AtCode, n, b, m
  <1>8. CASE long
    <2>1. p + 3 <= n /\ b = p + 4 BY <1>1, <1>2, <1>3, <1>5, <1>8
    <2>2. p + 1 + 1 = p + 2 /\ p + 1 + 2 = p + 3 /\ p + 2 <= n /\ p + 1 \in 1 .. n BY <2>1, <1>3, <1>1
    <2>3. ~ThreeBytes(p, {1}) BY <1>4, <1>8 DEF ThreeBytes
    <2>4. ThreeBytes(p, {0}) /\ ThreeBytes(p, 0 .. 2) BY <1>4, <1>8, <2>2 DEF ThreeBytes, n
    <2>5. ThreeBytes(p + 1, {1}) BY <1>4, <1>8, <2>1, <2>2 DEF ThreeBytes, n
    <2>6. CASE from = p
      <3>1. AtCode(from) BY <2>4, <2>5, <2>6 DEF AtCode
      <3>2. from + (IF ThreeBytes(from, {1}) THEN 3 ELSE 4) = b BY <2>1, <2>3, <2>6
      <3> QED BY <3>1, <3>2, <2>3, <2>4, <2>6, <1>3, <1>6, <1>8 DEF n, b, m
    <2>7. CASE from = p + 1
      <3>1. AtCode(from) BY <2>5, <2>7 DEF AtCode
      <3>2. p + 1 + 3 = p + 4 BY <1>3, <1>1
      <3>3. from + (IF ThreeBytes(from, {1}) THEN 3 ELSE 4) = b BY <2>1, <2>5, <2>7, <3>2
      <3> QED BY <3>1, <3>3, <2>2, <2>3, <2>4, <2>7, <1>6, <1>8 DEF n, b, m
    <2> QED BY <2>6, <2>7, <1>8
  <1> QED BY <1>7, <1>8

(* What the read of a NAL unit delivers and where it leaves the stream. *)
LEMMA ReadsTheNal ==
    ASSUME file \in Seq(Nat), NEW p, NEW long \in BOOLEAN, NEW nal \in Nals, NalAt(p, long, nal),
           NEW from, from = p \/ (long /\ from = p + 1),
           NEW e, e = BodyOf(p, long) + Len(Bytes(nal)),
           e = AfterFile \/ ThreeBytes(e, 0 .. 2)
    PROVE  /\ e = AfterFile =>
                 ReadNal(from) = [nal |-> Bytes(nal), eof |-> TRUE, get |-> AfterFile, buffered |-> 0]
           /\ e # AfterFile /\ AtCode(e) =>
                 LET peeked == IF ThreeBytes(e, {1}) THEN 3 ELSE 4
                 IN  ReadNal(from) = [nal |-> Bytes(nal), eof |-> FALSE, get |-> e + peeked, buffered |-> peeked]
  <1> DEFINE b == BodyOf(p, long)
             Code  == FirstCode[from]
             Stray == FirstNonZero[from]
             Body  == Code + (IF ThreeBytes(Code, {1}) THEN 3 ELSE 4)
             End   == FirstEnd[Body]
             Next  == FirstCode[End]
             Peek  == IF ThreeBytes(Next, {1}) THEN 3 ELSE 4
  <1>1. /\ Len(file) \in Nat /\ AfterFile = Len(file) + 1 /\ from \in 1 .. Len(file) /\ AtCode(from)
        /\ from + (IF ThreeBytes(from, {1}) THEN 3 ELSE 4) = b
        /\ b \in 1 .. AfterFile /\ e \in b .. AfterFile
    BY CodeSeen DEF AfterFile
  <1>2. from \in 1 .. AfterFile /\ from # AfterFile BY <1>1
  <1>3. Code = from BY <1>1, <1>2, FirstCodeIs
  <1>4. Stray \in from .. AfterFile BY <1>2, FirstNonZeroStops
  <1>5. Stray >= Code /\ ~(Stray < Code)
    <2> HIDE DEF Stray, Code
    <2> QED BY <1>3, <1>4, <1>1
  <1>6. Body = b
    <2>1. Body = from + (IF ThreeBytes(from, {1}) THEN 3 ELSE 4) BY <1>3, Zenon
    <2>2. from + (IF ThreeBytes(from, {1}) THEN 3 ELSE 4) = b BY <1>1
    <2> QED BY <2>1, <2>2, Zenon
  <1>7. \A i \in b .. e - 1 : ~ThreeBytes(i, 0 .. 2)
    <2> TAKE i \in b .. e - 1
    <2>a. b \in Int /\ Len(Bytes(nal)) \in Nat
      <3>1. Bytes(nal) \in Seq(Nat) BY BytesAre
      <3> QED BY <3>1, <1>1
    <2>0. e - 1 = BodyOf(p, long) + Len(Bytes(nal)) - 1 BY <2>a
    <2>1. i \in BodyOf(p, long) .. BodyOf(p, long) + Len(Bytes(nal)) - 1 BY <2>0
    <2> QED BY <2>1, BodyIsClosed
  <1>8. FirstEnd[b] = e BY <1>1, <1>7, FirstEndIs
  <1>9. End = e BY <1>6, <1>8
  <1>10. SubSeq(file, b, e - 1) = Bytes(nal)
    <2> DEFINE s == Bytes(nal)
               u == SubSeq(file, b, e - 1)
    <2>1. s \in Seq(Nat) BY BytesAre
    <2>2. \A i \in 1 .. Len(s) : file[b + i - 1] = s[i] BY DEF NalAt
    <2>3. e = b + Len(s) OBVIOUS
    <2> HIDE DEF s, b
    <2>4. Len(s) \in Nat BY <2>1
    <2>5. e - 1 = b + Len(s) - 1 /\ b \in Nat /\ e - 1 - b + 1 = Len(s) /\ b - 1 <= e - 1 /\ e - 1 <= Len(file)
      BY <2>3, <2>4, <1>1, SMTT(30)
    <2>6. u \in Seq(Nat) /\ Len(u) = Len(s) /\ \A i \in 1 .. Len(s) : u[i] = file[b + i - 1]
      <3>0. b \in 1 .. Len(file) + 1 /\ e \in b .. Len(file) + 1 BY <1>1
      <3>a. \A i \in b .. e - 1 : i \in 1 .. Len(file) BY <3>0, <1>1
      <3>1. b \in Int /\ e - 1 \in Int /\ \A i \in b .. e - 1 : file[i] \in Nat BY <3>0, <3>a, <1>1
      <3>2. /\ SubSeq(file, b, e - 1) \in Seq(Nat)
            /\ Len(SubSeq(file, b, e - 1)) = IF b <= e - 1 THEN e - 1 - b + 1 ELSE 0
            /\ \A i \in 1 .. e - 1 - b + 1 : SubSeq(file, b, e - 1)[i] = file[b + i - 1]
        BY <3>1, SubSeqProperties
      <3>3. b <= e - 1 \/ Len(s) = 0 BY <2>5, <2>4
      <3> QED BY <3>2, <3>3, <2>5, <2>4
    <2> HIDE DEF u
    <2>7. \A i \in 1 .. Len(s) : u[i] = s[i] BY <2>6, <2>2
    <2>8. u = s BY <2>1, <2>6, <2>7, SeqEqual
    <2> QED BY <2>8 DEF u, s
  <1>11. SubSeq(file, Body, End - 1) = Bytes(nal) BY <1>6, <1>9, <1>10
  <1>12. CASE e = AfterFile
    <2>1. FirstCode[e] = e BY <1>1, <1>12, FirstCodeIs
    <2>2. Next = AfterFile BY <2>1, <1>9, <1>12
    <2>3. Stray >= Code /\ Code # AfterFile /\ Next = AfterFile BY <2>2, <1>2, <1>3, <1>5
    <2>4. ~(Stray >= Code /\ Code = AfterFile) BY <1>2, <1>3
    <2>5. ReadNal(from) = [nal |-> SubSeq(file, Body, End - 1), eof |-> TRUE, get |-> AfterFile, buffered |-> 0]
      BY <1>5, <2>3, <2>4, Zenon DEF ReadNal
    <2> QED BY <2>5, <1>11, <1>12
  <1>13. CASE e # AfterFile /\ AtCode(e)
    <2>1. FirstCode[e] = e BY <1>1, <1>13, FirstCodeIs
    <2>2. Next = e BY <2>1, <1>9
    <2>3. ~(Stray >= Code /\ Code # AfterFile /\ Next = AfterFile) BY <2>2, <1>13
    <2>4. ~(Stray >= Code /\ Code = AfterFile) BY <1>2, <1>3
    <2>5. ReadNal(from) = [nal |-> SubSeq(file, Body, End - 1), eof |-> FALSE, get |-> Next + Peek, buffered |-> Peek]
      BY <1>5, <2>3, <2>4, Zenon DEF ReadNal
    <2> DEFINE P == IF ThreeBytes(e, {1}) THEN 3 ELSE 4
    <2>6. Peek = P BY <2>2, Zenon
    <2> HIDE DEF P, Peek, Next
    <2>7. ReadNal(from) = [nal |-> Bytes(nal), eof |-> FALSE, get |-> e + P, buffered |-> P]
      BY <2>2, <2>5, <2>6, <1>11, Zenon
    <2> QED BY <2>7, <1>13 DEF P
  <1> QED BY <1>12, <1>13

----------------------------------------------------------------------------
(* The NAL units one behind the other. *)

(* The start code of NAL unit k, and the place of its first byte. *)
Long(k) == UseLongStartCode(sent[k].kind, k = 1 \/ sent[k].pic # sent[k - 1].pic)

Layout(place) ==
    /\ place \in [1 .. Len(sent) + 1 -> Nat]
    /\ place[1] = 1 /\ place[Len(sent) + 1] = AfterFile
    /\ \A k \in 1 .. Len(sent) :
           /\ NalAt(place[k], Long(k), sent[k])
           /\ place[k + 1] = BodyOf(place[k], Long(k)) + Len(Bytes(sent[k]))

StartsAt(from, place, k) == from = place[k] \/ (Long(k) /\ from = place[k] + 1)

Peeked(k) == IF Long(k) THEN 4 ELSE 3

(* The writer always decides between a long and a short start code. *)
LEMMA LongIsBoolean ==
    ASSUME NEW k
    PROVE  Long(k) \in BOOLEAN
  BY DEF Long, UseLongStartCode

(* A read from the start of NAL unit k delivers it, with the start code of *)
(* the next one peeked.                                                    *)
LEMMA ReadsNalUnit ==
    ASSUME file \in Seq(Nat), sent \in Seq(Nals), NEW place, Layout(place),
           NEW k \in 1 .. Len(sent), NEW from, StartsAt(from, place, k)
    PROVE  /\ from \in 1 .. AfterFile
           /\ k = Len(sent) =>
                 ReadNal(from) = [nal |-> Bytes(sent[k]), eof |-> TRUE, get |-> AfterFile, buffered |-> 0]
           /\ k < Len(sent) =>
                 ReadNal(from) = [nal |-> Bytes(sent[k]), eof |-> FALSE,
                                  get |-> place[k + 1] + Peeked(k + 1), buffered |-> Peeked(k + 1)]
  <1> DEFINE n == Len(sent)
  <1>1. n \in Nat /\ k \in 1 .. n OBVIOUS
  <1>2. sent[k] \in Nals OBVIOUS
  <1>3. Long(k) \in BOOLEAN BY LongIsBoolean
  <1>4. /\ NalAt(place[k], Long(k), sent[k])
        /\ place[k + 1] = BodyOf(place[k], Long(k)) + Len(Bytes(sent[k]))
        /\ place[n + 1] = AfterFile
    BY <1>1 DEF Layout
  <1>5. from = place[k] \/ (Long(k) /\ from = place[k] + 1) BY DEF StartsAt
  <1>6. from \in 1 .. Len(file) BY <1>2, <1>3, <1>4, <1>5, CodeSeen
  <1>7. Len(file) \in Nat /\ AfterFile = Len(file) + 1 /\ from \in 1 .. AfterFile BY <1>6 DEF AfterFile
  <1>8. CASE k = n
    <2>1. place[k + 1] = AfterFile BY <1>4, <1>8
    <2>2. ReadNal(from) = [nal |-> Bytes(sent[k]), eof |-> TRUE, get |-> AfterFile, buffered |-> 0]
      BY <1>2, <1>3, <1>4, <1>5, <2>1, ReadsTheNal
    <2> QED BY <2>2, <1>7, <1>8
  <1>9. CASE k < n
    <2>1. k + 1 \in 1 .. n BY <1>1, <1>9
    <2>2. NalAt(place[k + 1], Long(k + 1), sent[k + 1]) /\ sent[k + 1] \in Nals /\ Long(k + 1) \in BOOLEAN
      BY <2>1, LongIsBoolean DEF Layout
    <2>3. /\ place[k + 1] \in 1 .. Len(file)
          /\ AtCode(place[k + 1])
          /\ Long(k + 1) => ~ThreeBytes(place[k + 1], {1})
          /\ ~Long(k + 1) => ThreeBytes(place[k + 1], {1})
          /\ ThreeBytes(place[k + 1], 0 .. 2)
      <3>1. PICK p, l : p = place[k + 1] /\ l = Long(k + 1) OBVIOUS
      <3>2. NalAt(p, l, sent[k + 1]) /\ sent[k + 1] \in Nals /\ l \in BOOLEAN BY <2>2, <3>1, Zenon
      <3>3. p = p \/ (l /\ p = p + 1) OBVIOUS
      <3>4. p \in 1 .. Len(file) /\ AtCode(p) BY <3>2, <3>3, CodeSeen
      <3>5. (l => ~ThreeBytes(p, {1})) /\ (~l => ThreeBytes(p, {1}))
        <4>1. CASE l = TRUE
          <5>1. ~ThreeBytes(p, {1}) BY <3>2, <3>3, <4>1, CodeSeen
          <5> QED BY <4>1, <5>1
        <4>2. CASE l = FALSE
          <5>1. ThreeBytes(p, {1}) BY <3>2, <3>3, <4>2, CodeSeen
          <5> QED BY <4>2, <5>1
        <4> QED BY <3>2, <4>1, <4>2
      <3>6. ThreeBytes(p, 0 .. 2) BY <3>2, <3>3, CodeSeen
      <3> QED BY <3>1, <3>4, <3>5, <3>6, Zenon
    <2>4. place[k + 1] # AfterFile BY <2>3, <1>7
    <2> DEFINE P == IF ThreeBytes(place[k + 1], {1}) THEN 3 ELSE 4
    <2>5. ReadNal(from) = [nal |-> Bytes(sent[k]), eof |-> FALSE, get |-> place[k + 1] + P, buffered |-> P]
      BY <1>2, <1>3, <1>4, <1>5, <2>3, <2>4, ReadsTheNal
    <2>6. P = Peeked(k + 1) BY <2>3 DEF Peeked
    <2> HIDE DEF P
    <2>7. ReadNal(from) = [nal |-> Bytes(sent[k]), eof |-> FALSE,
                           get |-> place[k + 1] + Peeked(k + 1), buffered |-> Peeked(k + 1)]
      BY <2>5, <2>6, Zenon
    <2> QED BY <2>7, <1>7, <1>9
  <1> QED BY <1>1, <1>8, <1>9

(* The places from which the loop and its look-aheads go on. *)
LEMMA PlacesAreNumbers ==
    ASSUME file \in Seq(Nat), sent \in Seq(Nals), NEW place, Layout(place), NEW k \in 1 .. Len(sent)
    PROVE  /\ place[k] \in Nat
           /\ place[k] + Peeked(k) - Peeked(k) = place[k]
           /\ StartsAt(place[k], place, k)
           /\ StartsAt(place[k] + Peeked(k) - 3, place, k)
  <1>1. Len(sent) \in Nat /\ k \in 1 .. Len(sent) + 1 OBVIOUS
  <1>2. place[k] \in Nat BY <1>1 DEF Layout
  <1>3. CASE Long(k)
    <2>1. Peeked(k) = 4 BY <1>3 DEF Peeked
    <2>2. place[k] + 4 - 4 = place[k] /\ place[k] + 4 - 3 = place[k] + 1 BY <1>2
    <2> QED BY <1>2, <1>3, <2>1, <2>2 DEF StartsAt
  <1>4. CASE ~Long(k)
    <2>1. Peeked(k) = 3 BY <1>4 DEF Peeked
    <2>2. place[k] + 3 - 3 = place[k] BY <1>2
    <2> QED BY <1>2, <2>1, <2>2 DEF StartsAt
  <1> QED BY <1>3, <1>4

(* A look-ahead at NAL unit k. *)
LEMMA LooksAtNalUnit ==
    ASSUME file \in Seq(Nat), sent \in Seq(Nals), NEW place, Layout(place),
           NEW k \in 1 .. Len(sent), NEW from, StartsAt(from, place, k), NEW passing
    PROVE  /\ sent[k].kind \notin passing => LookAhead(from, passing) = sent[k].kind
           /\ sent[k].kind \in passing /\ k < Len(sent) =>
                 LookAhead(from, passing) = LookAhead(place[k + 1], passing)
  <1> DEFINE r == ReadNal(from)
  <1>1. from \in 1 .. AfterFile BY ReadsNalUnit
  <1>2. sent[k] \in Nals OBVIOUS
  <1>3. Bytes(sent[k]) # <<>> /\ KindOf(Bytes(sent[k])) = sent[k].kind BY <1>2, BytesAre
  <1>4. LookAhead(from, passing) =
            IF r.nal # <<>> /\ KindOf(r.nal) \notin passing THEN KindOf(r.nal)
            ELSE IF r.eof THEN "NONE" ELSE LookAhead(r.get - r.buffered, passing)
    BY <1>1, LookAheadGoesOn
  <1>5. r.nal = Bytes(sent[k])
    <2>1. CASE k = Len(sent)
      <3>1. r = [nal |-> Bytes(sent[k]), eof |-> TRUE, get |-> AfterFile, buffered |-> 0] BY <2>1, ReadsNalUnit
      <3> QED BY <3>1
    <2>2. CASE k < Len(sent)
      <3>1. r = [nal |-> Bytes(sent[k]), eof |-> FALSE,
                 get |-> place[k + 1] + Peeked(k + 1), buffered |-> Peeked(k + 1)] BY <2>2, ReadsNalUnit
      <3> QED BY <3>1
    <2> QED BY <2>1, <2>2
  <1>6. CASE sent[k].kind \notin passing BY <1>3, <1>4, <1>5, <1>6, Zenon
  <1>7. CASE sent[k].kind \in passing /\ k < Len(sent)
    <2>1. r = [nal |-> Bytes(sent[k]), eof |-> FALSE,
               get |-> place[k + 1] + Peeked(k + 1), buffered |-> Peeked(k + 1)] BY <1>7, ReadsNalUnit
    <2>2. k + 1 \in 1 .. Len(sent) BY <1>7
    <2>3. place[k + 1] + Peeked(k + 1) - Peeked(k + 1) = place[k + 1] BY <2>2, PlacesAreNumbers
    <2>4. r.eof = FALSE /\ r.get = place[k + 1] + Peeked(k + 1) /\ r.buffered = Peeked(k + 1) BY <2>1
    <2>5. r.get - r.buffered = place[k + 1]
      <3>1. place[k + 1] \in Int /\ Peeked(k + 1) \in Int BY <2>2, PlacesAreNumbers DEF Peeked
      <3> QED BY <2>1, <3>1, SeekPosition
    <2>6. LookAhead(from, passing) = LookAhead(r.get - r.buffered, passing)
      BY <1>3, <1>4, <1>5, <1>7, <2>4
    <2> QED BY <2>5, <2>6, <1>7
  <1> QED BY <1>6, <1>7

(* What a NAL unit adds to the file. *)
LEMMA NalArrives ==
    ASSUME file \in Seq(Nat), NEW long \in BOOLEAN, NEW nal \in Nals, NEW p, p = AfterFile,
           file' = file \o StartCode(long) \o Bytes(nal)
    PROVE  /\ file' \in Seq(Nat)
           /\ NalAt(p, long, nal)'
           /\ AfterFile' = BodyOf(p, long) + Len(Bytes(nal))
           /\ Len(file) <= Len(file')
           /\ \A i \in 1 .. Len(file) : file'[i] = file[i]
  <1> DEFINE n == Len(file)
  <1>0. PICK c, s, f : c = StartCode(long) /\ s = Bytes(nal) /\ f = file \o c OBVIOUS
  <1>1. c \in Seq(Nat) /\ Len(c) = (IF long THEN 4 ELSE 3) /\ c[1] = 0 /\ c[2] = 0
        /\ (long => c[3] = 0 /\ c[4] = 1) /\ (~long => c[3] = 1)
    <2>1. CASE long
      <3>1. c = <<0, 0, 0, 1>> BY <1>0, <2>1 DEF StartCode
      <3> QED BY <3>1, <2>1
    <2>2. CASE ~long
      <3>1. c = <<0, 0, 1>> BY <1>0, <2>2 DEF StartCode
      <3> QED BY <3>1, <2>2
    <2> QED BY <2>1, <2>2
  <1>2. s \in Seq(Nat) /\ Len(s) \in Nat /\ Len(s) >= 2
    <2>1. NalShape(s) BY <1>0, BytesAre, Zenon
    <2>2. s \in Seq(Nat) /\ Len(s) \in {2, 3, 6} BY <2>1 DEF NalShape
    <2>3. PICK m : m = Len(s) OBVIOUS
    <2>4. m \in {2, 3, 6} BY <2>2, <2>3, Zenon
    <2>5. m \in Nat /\ m >= 2 BY <2>4
    <2> QED BY <2>2, <2>3, <2>5, Zenon
  <1>3. /\ f \in Seq(Nat) /\ Len(f) = n + Len(c)
        /\ \A i \in 1 .. n + Len(c) : f[i] = IF i <= n THEN file[i] ELSE c[i - n]
    BY <1>0, <1>1, ConcatProperties
  <1>4. file' = f \o s BY <1>0
  <1>5. /\ file' \in Seq(Nat) /\ Len(file') = Len(f) + Len(s)
        /\ \A i \in 1 .. Len(f) + Len(s) : file'[i] = IF i <= Len(f) THEN f[i] ELSE s[i - Len(f)]
    <2>1. /\ f \o s \in Seq(Nat) /\ Len(f \o s) = Len(f) + Len(s)
          /\ \A i \in 1 .. Len(f) + Len(s) : (f \o s)[i] = IF i <= Len(f) THEN f[i] ELSE s[i - Len(f)]
      BY <1>2, <1>3, ConcatProperties, ZenonT(40)
    <2> QED BY <1>4, <2>1, Zenon
  <1>6. PICK g, q : g = file' /\ q = Len(c) OBVIOUS
  <1>7. n \in Nat /\ p = n + 1 BY DEF AfterFile
  <1>8. q \in {3, 4} /\ q \in Nat /\ BodyOf(p, long) = n + q + 1 /\ (long <=> q = 4)
    BY <1>1, <1>6, <1>7 DEF BodyOf
  <1>9. PICK m : m = Len(s) OBVIOUS
  <1>10. m \in Nat /\ m >= 2 BY <1>2, <1>9
  <1>11. Len(g) = n + q + m /\ \A i \in 1 .. n + q + m : g[i] = IF i <= n + q THEN f[i] ELSE s[i - (n + q)]
    <2>1. Len(f) = n + q BY <1>3, <1>6
    <2> QED BY <2>1, <1>5, <1>6, <1>9, Zenon
  <1>12. \A i \in 1 .. n + q : f[i] = IF i <= n THEN file[i] ELSE c[i - n] BY <1>3, <1>6, Zenon
  <1> HIDE DEF n
  <1>13. \A i \in 1 .. n : g[i] = file[i]
    <2> TAKE i \in 1 .. n
    <2>1. i \in 1 .. n + q + m /\ i <= n + q /\ i \in 1 .. n + q /\ i <= n BY <1>7, <1>8, <1>10
    <2> QED BY <2>1, <1>11, <1>12
  <1>14. \A i \in 1 .. q : g[p + i - 1] = c[i]
    <2> TAKE i \in 1 .. q
    <2>0. PICK k : k = n + i OBVIOUS
    <2>1. /\ k \in 1 .. n + q + m /\ k <= n + q /\ k \in 1 .. n + q /\ ~(k <= n)
          /\ k - n = i /\ p + i - 1 = k
      BY <2>0, <1>7, <1>8, <1>10
    <2>2. g[k] = f[k] BY <2>1, <1>11
    <2>3. f[k] = c[k - n] BY <2>1, <1>12
    <2> QED BY <2>1, <2>2, <2>3, Zenon
  <1>15. \A i \in 1 .. m : g[n + q + 1 + i - 1] = s[i]
    <2> TAKE i \in 1 .. m
    <2>0. PICK k : k = n + q + i OBVIOUS
    <2>1. /\ k \in 1 .. n + q + m /\ ~(k <= n + q)
          /\ k - (n + q) = i /\ n + q + 1 + i - 1 = k
      BY <2>0, <1>7, <1>8, <1>10
    <2>2. g[k] = s[k - (n + q)] BY <2>1, <1>11
    <2> QED BY <2>1, <2>2, Zenon
  <1>16. p \in 1 .. Len(g) BY <1>7, <1>8, <1>10, <1>11
  <1>17. g[p] = 0 /\ g[p + 1] = 0 /\ (long => g[p + 2] = 0 /\ g[p + 3] = 1) /\ (~long => g[p + 2] = 1)
    <2>1. p + 1 - 1 = p /\ p + 2 - 1 = p + 1 /\ p + 3 - 1 = p + 2 /\ p + 4 - 1 = p + 3 BY <1>7
    <2>2. 1 \in 1 .. q /\ 2 \in 1 .. q /\ 3 \in 1 .. q /\ (long => 4 \in 1 .. q) BY <1>8
    <2>3. g[p] = c[1] /\ g[p + 1] = c[2] /\ g[p + 2] = c[3] BY <2>1, <2>2, <1>14
    <2>4. long => g[p + 3] = c[4] BY <2>1, <2>2, <1>14
    <2> QED BY <2>3, <2>4, <1>1
  <1>18. BodyOf(p, long) + m <= Len(g) + 1 /\ Len(g) + 1 = BodyOf(p, long) + m BY <1>7, <1>8, <1>10, <1>11
  <1>19. \A i \in 1 .. m : g[BodyOf(p, long) + i - 1] = s[i] BY <1>8, <1>15
  <1>20. NalAt(p, long, nal)'
    <2>1. p \in 1 .. Len(file') BY <1>6, <1>16
    <2>2. /\ file'[p] = 0 /\ file'[p + 1] = 0
          /\ long => file'[p + 2] = 0 /\ file'[p + 3] = 1
          /\ ~long => file'[p + 2] = 1
      BY <1>6, <1>17
    <2>3. BodyOf(p, long) + Len(Bytes(nal)) <= Len(file') + 1
      BY <1>0, <1>6, <1>9, <1>18
    <2>4. \A i \in 1 .. Len(Bytes(nal)) : file'[BodyOf(p, long) + i - 1] = Bytes(nal)[i]
      BY <1>0, <1>6, <1>9, <1>19, Zenon
    <2> QED BY <2>1, <2>2, <2>3, <2>4, Zenon DEF NalAt, AfterFile
  <1>21. AfterFile' = BodyOf(p, long) + Len(Bytes(nal)) BY <1>0, <1>6, <1>9, <1>18 DEF AfterFile
  <1>22. Len(file) <= Len(file') BY <1>6, <1>7, <1>8, <1>10, <1>11 DEF n
  <1>23. \A i \in 1 .. Len(file) : file'[i] = file[i] BY <1>6, <1>13 DEF n
  <1> QED BY <1>5, <1>20, <1>21, <1>22, <1>23

(* Writing on leaves the NAL units that are there alone. *)
LEMMA NalStays ==
    ASSUME file \in Seq(Nat), file' \in Seq(Nat), Len(file) <= Len(file'),
           \A i \in 1 .. Len(file) : file'[i] = file[i],
           NEW p, NEW long \in BOOLEAN, NEW nal \in Nals, NalAt(p, long, nal)
    PROVE  NalAt(p, long, nal)'
  <1>0. PICK b, m : b = BodyOf(p, long) /\ m = Len(Bytes(nal)) OBVIOUS
  <1>1. Len(file) \in Nat /\ Len(file') \in Nat OBVIOUS
  <1>2. NalShape(Bytes(nal)) BY BytesAre
  <1>3. m \in Nat /\ m >= 2
    <2>1. m \in {2, 3, 6} BY <1>0, <1>2, Zenon DEF NalShape
    <2> QED BY <2>1
  <1>4. /\ p \in 1 .. Len(file)
        /\ file[p] = 0 /\ file[p + 1] = 0
        /\ long => file[p + 2] = 0 /\ file[p + 3] = 1
        /\ ~long => file[p + 2] = 1
        /\ b + m <= Len(file) + 1
        /\ \A i \in 1 .. m : file[b + i - 1] = Bytes(nal)[i]
    BY <1>0, Zenon DEF NalAt, AfterFile
  <1>5. b = IF long THEN p + 4 ELSE p + 3 BY <1>0 DEF BodyOf
  <1>a. PICK n : n = Len(file) OBVIOUS
  <1>b. n \in Nat /\ p \in 1 .. n /\ b + m <= n + 1 BY <1>1, <1>4, <1>a
  <1>c. b \in Nat /\ b >= p + 3 /\ (long => b = p + 4)
    <2>1. CASE long BY <1>5, <1>b, <2>1
    <2>2. CASE ~long BY <1>5, <1>b, <2>2
    <2> QED BY <2>1, <2>2
  <1>d. p + 1 \in 1 .. n /\ p + 2 \in 1 .. n /\ (long => p + 3 \in 1 .. n) BY <1>b, <1>c, <1>3
  <1>e. \A i \in 1 .. m : b + i - 1 \in 1 .. n BY <1>b, <1>c, <1>3
  <1>6. /\ p \in 1 .. Len(file) /\ p + 1 \in 1 .. Len(file) /\ p + 2 \in 1 .. Len(file)
        /\ long => p + 3 \in 1 .. Len(file)
    BY <1>a, <1>b, <1>d, Zenon
  <1>7. \A i \in 1 .. m : b + i - 1 \in 1 .. Len(file) BY <1>a, <1>e, Zenon
  <1>8. p \in 1 .. Len(file') /\ b + m <= Len(file') + 1
    BY <1>a, <1>b, <1>c, <1>3, <1>1
  <1>9. /\ file'[p] = 0 /\ file'[p + 1] = 0
        /\ long => file'[p + 2] = 0 /\ file'[p + 3] = 1
        /\ ~long => file'[p + 2] = 1
    BY <1>4, <1>6
  <1>10. \A i \in 1 .. m : file'[b + i - 1] = Bytes(nal)[i]
    <2> TAKE i \in 1 .. m
    <2>1. b + i - 1 \in 1 .. Len(file) /\ file[b + i - 1] = Bytes(nal)[i] BY <1>4, <1>7
    <2> QED BY <2>1
  <1> QED BY <1>0, <1>8, <1>9, <1>10, Zenon DEF NalAt, AfterFile

----------------------------------------------------------------------------
(* The order of the kinds. *)

(* A slice of its picture is among the first k NAL units; none is before   *)
(* NAL unit k.                                                             *)
Sliced(k) == \E i \in 1 .. k : sent[i].pic = sent[k].pic /\ sent[i].kind \in Slices

Fresh(k) == \A i \in 1 .. k - 1 : sent[i].pic = sent[k].pic => sent[i].kind \notin Slices

(* NAL unit k + 1 starts a picture, or goes on with the one of k. *)
StartsAfter(k) ==
    /\ sent[k + 1].pic = sent[k].pic + 1 /\ sent[k + 1].kind \in Opening
    /\ Sliced(k) /\ sent[k].kind # "PREFIX"

GoesOnAfter(k) ==
    LET a == sent[k].kind
        b == sent[k + 1].kind
    IN  /\ sent[k + 1].pic = sent[k].pic
        /\ \/ b \in Opening /\ ~Sliced(k) /\ Order[a] < Order[b]
           \/ b = "SLICE" /\ a \in {"PH", "SLICE"}
           \/ b = "SLICE" /\ a = "PREFIX" /\ Sliced(k)
           \/ b = "PREFIX" /\ a = "SLICE"
           \/ b = "SUFFIX" /\ a \in Slices
           \/ b = "EOS" /\ a \in Slices \cup {"SUFFIX"}

UnitsInOrder ==
    /\ sent \in Seq(Nals)
    /\ sent # <<>> => sent[1].pic = 1 /\ sent[1].kind \in Opening
    /\ \A k \in 1 .. Len(sent) - 1 : StartsAfter(k) \/ GoesOnAfter(k)
    /\ \A k \in 1 .. Len(sent) : \A i \in 1 .. k : sent[i].pic <= sent[k].pic
    /\ ~open => sent # <<>> /\ Sliced(Len(sent)) /\ Last.kind # "PREFIX"

(* The type of a NAL unit that was sent. *)
LEMMA UnitsAre ==
    ASSUME UnitsInOrder, NEW k \in 1 .. Len(sent)
    PROVE  /\ Len(sent) \in Nat /\ k \in Nat /\ sent[k] \in Nals
           /\ sent[k].kind \in Kind /\ sent[k].pic \in Nat
  <1>1. sent \in Seq(Nals) BY DEF UnitsInOrder
  <1>2. Len(sent) \in Nat /\ k \in Nat /\ sent[k] \in Nals BY <1>1
  <1> QED BY <1>2 DEF Nals

(* What ends a picture comes after a slice of it. *)
LEMMA EndsAreSliced ==
    ASSUME UnitsInOrder, NEW k \in 1 .. Len(sent), sent[k].kind \in {"SUFFIX", "EOS"}
    PROVE  Sliced(k)
  <1>1. Len(sent) \in Nat /\ sent[k].kind \notin Opening BY UnitsAre DEF Opening
  <1>2. k # 1
    <2>1. SUFFICES ASSUME k = 1 PROVE FALSE OBVIOUS
    <2>2. sent # <<>> BY <1>1, <2>1
    <2> QED BY <2>1, <2>2, <1>1 DEF UnitsInOrder
  <1>3. PICK m : m = k - 1 OBVIOUS
  <1>4. m \in 1 .. Len(sent) - 1 /\ m + 1 = k /\ m \in 1 .. k /\ m \in 1 .. Len(sent) BY <1>1, <1>2, <1>3
  <1>5. StartsAfter(m) \/ GoesOnAfter(m) BY <1>4 DEF UnitsInOrder
  <1>6. GoesOnAfter(m) BY <1>1, <1>4, <1>5 DEF StartsAfter
  <1>7. sent[m].pic = sent[k].pic BY <1>4, <1>6 DEF GoesOnAfter
  <1>8. CASE sent[m].kind \in Slices BY <1>4, <1>7, <1>8 DEF Sliced
  <1>9. CASE sent[m].kind \notin Slices
    <2>1. sent[m].kind = "SUFFIX" BY <1>1, <1>4, <1>6, <1>9 DEF GoesOnAfter, Opening
    <2>2. sent[m].kind \notin Opening BY <2>1 DEF Opening
    <2>3. m # 1
      <3>1. SUFFICES ASSUME m = 1 PROVE FALSE OBVIOUS
      <3>2. sent # <<>> BY <1>1, <1>4, <3>1
      <3> QED BY <3>1, <3>2, <2>2 DEF UnitsInOrder
    <2>4. PICK l : l = m - 1 OBVIOUS
    <2>5. l \in 1 .. Len(sent) - 1 /\ l + 1 = m /\ l \in 1 .. k BY <1>1, <1>4, <2>3, <2>4
    <2>6. StartsAfter(l) \/ GoesOnAfter(l) BY <2>5 DEF UnitsInOrder
    <2>7. GoesOnAfter(l) BY <2>2, <2>5, <2>6 DEF StartsAfter
    <2>8. sent[l].pic = sent[k].pic BY <2>5, <2>7, <1>7 DEF GoesOnAfter
    <2>9. sent[l].kind \in Slices BY <2>1, <2>2, <2>5, <2>7 DEF GoesOnAfter, Opening
    <2> QED BY <2>5, <2>8, <2>9 DEF Sliced
  <1> QED BY <1>8, <1>9

(* Before the first slice of a picture the kinds come in order. *)
Later(kind) ==
    CASE kind = "AUD" -> {"PS", "PREFIX", "PH", "FIRST"}
      [] kind = "PS" -> {"PREFIX", "PH", "FIRST"}
      [] kind = "PREFIX" -> {"PH", "FIRST"}
      [] kind = "PH" -> {"SLICE"}

(* The ranks the author's order gives. *)
LEMMA OrderIs ==
    /\ Order["AUD"] = 1 /\ Order["PS"] = 2 /\ Order["PREFIX"] = 3 /\ Order["PH"] = 4 /\ Order["FIRST"] = 4
  BY DEF Order, Opening

(* A NAL unit before the slices of its picture is followed by a later kind. *)
LEMMA BeforeTheSlices ==
    ASSUME UnitsInOrder, ~open, NEW k \in 1 .. Len(sent), Fresh(k), sent[k].kind \notin Slices
    PROVE  /\ sent[k].kind \in {"AUD", "PS", "PREFIX", "PH"}
           /\ k + 1 \in 1 .. Len(sent)
           /\ sent[k + 1].pic = sent[k].pic
           /\ Fresh(k + 1)
           /\ sent[k + 1].kind \in Later(sent[k].kind)
  <1>1. Len(sent) \in Nat /\ k \in Nat /\ sent[k].kind \in Kind BY UnitsAre
  <1>2. ~Sliced(k)
    <2>1. \A i \in 1 .. k : i \in 1 .. k - 1 \/ i = k BY <1>1
    <2> QED BY <2>1 DEF Fresh, Sliced
  <1>3. sent[k].kind \in {"AUD", "PS", "PREFIX", "PH"}
    <2>1. sent[k].kind \notin {"SUFFIX", "EOS"} BY <1>2, EndsAreSliced
    <2> QED BY <1>1, <2>1 DEF Kind, Slices
  <1>4. k # Len(sent) BY <1>2 DEF UnitsInOrder
  <1>5. k \in 1 .. Len(sent) - 1 /\ k + 1 \in 1 .. Len(sent) BY <1>1, <1>4
  <1>6. StartsAfter(k) \/ GoesOnAfter(k) BY <1>5 DEF UnitsInOrder
  <1>7. GoesOnAfter(k) BY <1>2, <1>6 DEF StartsAfter
  <1>8. sent[k + 1].pic = sent[k].pic BY <1>7 DEF GoesOnAfter
  <1>9. Fresh(k + 1)
    <2>1. \A i \in 1 .. k + 1 - 1 : i \in 1 .. k - 1 \/ i = k BY <1>1
    <2> QED BY <2>1, <1>8 DEF Fresh
  <1>10. sent[k + 1].kind \in Later(sent[k].kind)
    <2>1. PICK a, b : a = sent[k].kind /\ b = sent[k + 1].kind OBVIOUS
    <2>2. a \in {"AUD", "PS", "PREFIX", "PH"} BY <1>3, <2>1
    <2>3. \/ b \in Opening /\ Order[a] < Order[b]
          \/ b = "SLICE" /\ a = "PH"
      BY <1>2, <1>7, <2>1, <2>2 DEF GoesOnAfter, Slices
    <2>4. b \in Opening => b \in {"AUD", "PS", "PREFIX", "PH", "FIRST"} BY DEF Opening
    <2>5. b \in Later(a)
      <3>1. CASE a = "AUD"
        <4>1. Later(a) = {"PS", "PREFIX", "PH", "FIRST"} BY <3>1 DEF Later
        <4>2. b \in Opening /\ Order["AUD"] < Order[b] BY <2>3, <3>1
        <4> QED BY <2>4, <4>1, <4>2, OrderIs
      <3>2. CASE a = "PS"
        <4>1. Later(a) = {"PREFIX", "PH", "FIRST"} BY <3>2 DEF Later
        <4>2. b \in Opening /\ Order["PS"] < Order[b] BY <2>3, <3>2
        <4> QED BY <2>4, <4>1, <4>2, OrderIs
      <3>3. CASE a = "PREFIX"
        <4>1. Later(a) = {"PH", "FIRST"} BY <3>3 DEF Later
        <4>2. b \in Opening /\ Order["PREFIX"] < Order[b] BY <2>3, <3>3
        <4> QED BY <2>4, <4>1, <4>2, OrderIs
      <3>4. CASE a = "PH"
        <4>1. Later(a) = {"SLICE"} BY <3>4 DEF Later
        <4>2. b = "SLICE" \/ (b \in Opening /\ Order["PH"] < Order[b]) BY <2>3, <3>4
        <4> QED BY <2>4, <4>1, <4>2, OrderIs
      <3> QED BY <2>2, <3>1, <3>2, <3>3, <3>4
    <2> QED BY <2>1, <2>5
  <1> QED BY <1>3, <1>5, <1>8, <1>9, <1>10

(* After a slice of a picture, the next one starts or this one goes on. *)
LEMMA AfterASlice ==
    ASSUME UnitsInOrder, ~open, NEW k \in 1 .. Len(sent) - 1, Sliced(k)
    PROVE  \/ /\ sent[k + 1].pic = sent[k].pic + 1 /\ sent[k + 1].kind \in Opening
              /\ Fresh(k + 1)
           \/ /\ sent[k + 1].pic = sent[k].pic /\ sent[k].kind # "EOS" /\ Sliced(k + 1)
              /\ \/ sent[k + 1].kind \in {"SLICE", "SUFFIX", "EOS"}
                 \/ /\ sent[k + 1].kind = "PREFIX"
                    /\ k + 2 \in 1 .. Len(sent) /\ sent[k + 2].kind = "SLICE"
  <1>1. Len(sent) \in Nat /\ k \in 1 .. Len(sent) /\ k + 1 \in 1 .. Len(sent) BY DEF UnitsInOrder
  <1>2. sent[k].pic \in Nat /\ sent[k + 1].pic \in Nat /\ sent[k].kind \in Kind /\ sent[k + 1].kind \in Kind BY <1>1, UnitsAre
  <1>3. StartsAfter(k) \/ GoesOnAfter(k) BY DEF UnitsInOrder
  <1>4. CASE StartsAfter(k)
    <2>1. sent[k + 1].pic = sent[k].pic + 1 /\ sent[k + 1].kind \in Opening BY <1>4 DEF StartsAfter
    <2>2. \A i \in 1 .. k : sent[i].pic <= sent[k].pic BY <1>1 DEF UnitsInOrder
    <2>3. ASSUME NEW i \in 1 .. k + 1 - 1 PROVE sent[i].pic # sent[k + 1].pic
      <3>1. i \in 1 .. k /\ i \in 1 .. Len(sent) BY <1>1
      <3>2. sent[i].pic <= sent[k].pic /\ sent[i].pic \in Nat BY <3>1, <2>2, UnitsAre
      <3> QED BY <3>2, <2>1, <1>2
    <2>4. Fresh(k + 1) BY <2>3 DEF Fresh
    <2> QED BY <2>1, <2>4
  <1>5. CASE GoesOnAfter(k)
    <2>1. sent[k + 1].pic = sent[k].pic BY <1>5 DEF GoesOnAfter
    <2>2. sent[k].kind # "EOS" BY <1>5 DEF GoesOnAfter, Slices
    <2>3. sent[k + 1].kind \in {"SLICE", "PREFIX", "SUFFIX", "EOS"} BY <1>5 DEF GoesOnAfter
    <2>4. Sliced(k + 1)
      <3>1. PICK i \in 1 .. k : sent[i].pic = sent[k].pic /\ sent[i].kind \in Slices BY DEF Sliced
      <3>2. i \in 1 .. k + 1 BY <1>1
      <3> QED BY <3>1, <3>2, <2>1 DEF Sliced
    <2>5. CASE sent[k + 1].kind = "PREFIX"
      <3>1. PICK m : m = k + 1 OBVIOUS
      <3>2. m # Len(sent)
        <4>1. SUFFICES ASSUME m = Len(sent) PROVE FALSE OBVIOUS
        <4>2. Last.kind = "PREFIX" BY <4>1, <3>1, <2>5 DEF Last
        <4> QED BY <4>2 DEF UnitsInOrder
      <3>3. m \in 1 .. Len(sent) - 1 /\ m + 1 = k + 2 /\ k + 2 \in 1 .. Len(sent) BY <1>1, <3>1, <3>2
      <3>4. StartsAfter(m) \/ GoesOnAfter(m) BY <3>3 DEF UnitsInOrder
      <3>5. sent[m].kind = "PREFIX" /\ Sliced(m) BY <2>4, <2>5, <3>1
      <3>6. GoesOnAfter(m) BY <3>4, <3>5 DEF StartsAfter
      <3>7. sent[m + 1].kind = "SLICE" BY <3>5, <3>6 DEF GoesOnAfter, Slices
      <3> QED BY <2>1, <2>2, <2>4, <2>5, <3>3, <3>7
    <2> QED BY <2>1, <2>2, <2>3, <2>4, <2>5
  <1> QED BY <1>3, <1>4, <1>5

----------------------------------------------------------------------------
(* A look-ahead at the start of a picture. *)
LEMMA SeesThePicture ==
    ASSUME UnitsInOrder, ~open, file \in Seq(Nat), NEW place, Layout(place),
           NEW k \in 1 .. Len(sent), Fresh(k), sent[k].kind \in Opening,
           NEW from, StartsAt(from, place, k)
    PROVE  LookAhead(from, Kind \ (StartsPicture \cup StartsNoPicture)) \in StartsPicture
  <1> DEFINE passing == Kind \ (StartsPicture \cup StartsNoPicture)
  <1>0. sent \in Seq(Nals) BY DEF UnitsInOrder
  <1>1. passing = {"PREFIX"} BY DEF Kind, Slices, StartsPicture, StartsNoPicture
  <1> HIDE DEF passing
  <1>2. CASE sent[k].kind # "PREFIX"
    <2>1. LookAhead(from, passing) = sent[k].kind BY <1>0, <1>1, <1>2, LooksAtNalUnit
    <2>2. sent[k].kind \in StartsPicture BY <1>2 DEF Opening, StartsPicture
    <2> QED BY <2>1, <2>2 DEF passing
  <1>3. CASE sent[k].kind = "PREFIX"
    <2>1. sent[k].kind \notin Slices BY <1>3 DEF Slices
    <2>2. k + 1 \in 1 .. Len(sent) /\ sent[k + 1].kind \in Later("PREFIX") BY <1>3, <2>1, BeforeTheSlices
    <2>3. sent[k + 1].kind \in {"PH", "FIRST"} BY <2>2 DEF Later
    <2>4. k < Len(sent) /\ sent[k].kind \in passing BY <1>1, <1>3, <2>2, UnitsAre
    <2>5. LookAhead(from, passing) = LookAhead(place[k + 1], passing) BY <1>0, <2>4, LooksAtNalUnit
    <2>6. StartsAt(place[k + 1], place, k + 1) BY DEF StartsAt
    <2>7. sent[k + 1].kind \notin passing BY <1>1, <2>3
    <2>8. LookAhead(place[k + 1], passing) = sent[k + 1].kind BY <1>0, <2>2, <2>6, <2>7, LooksAtNalUnit
    <2>9. LookAhead(from, passing) \in StartsPicture BY <2>3, <2>5, <2>8 DEF StartsPicture
    <2> QED BY <2>9 DEF passing
  <1> QED BY <1>2, <1>3

(* The look-ahead of the access unit passes more, and goes up to four NAL  *)
(* units far.                                                              *)
LEMMA SeesOneFurther ==
    ASSUME UnitsInOrder, ~open, file \in Seq(Nat), NEW place, Layout(place),
           NEW k \in 1 .. Len(sent), Fresh(k),
           NEW from, StartsAt(from, place, k),
           sent[k].kind \in {"PS", "PREFIX", "PH"}
    PROVE  /\ k + 1 \in 1 .. Len(sent) /\ Fresh(k + 1) /\ StartsAt(place[k + 1], place, k + 1)
           /\ sent[k + 1].kind \in Later(sent[k].kind)
           /\ LookAhead(from, {"PS", "PREFIX", "PH"}) = LookAhead(place[k + 1], {"PS", "PREFIX", "PH"})
  <1>0. sent \in Seq(Nals) BY DEF UnitsInOrder
  <1>1. sent[k].kind \notin Slices BY DEF Slices
  <1>2. k + 1 \in 1 .. Len(sent) /\ Fresh(k + 1) /\ sent[k + 1].kind \in Later(sent[k].kind)
    BY <1>1, BeforeTheSlices
  <1>3. k < Len(sent) BY <1>2, UnitsAre
  <1>4. LookAhead(from, {"PS", "PREFIX", "PH"}) = LookAhead(place[k + 1], {"PS", "PREFIX", "PH"})
    <2>1. PICK passing : passing = {"PS", "PREFIX", "PH"} OBVIOUS
    <2>2. sent[k].kind \in passing BY <2>1
    <2>3. LookAhead(from, passing) = LookAhead(place[k + 1], passing) BY <1>0, <1>3, <2>2, LooksAtNalUnit
    <2> QED BY <2>1, <2>3, Zenon
  <1> QED BY <1>2, <1>4 DEF StartsAt

(* It ends at an access unit delimiter and at a slice. *)
LEMMA SeesTheKind ==
    ASSUME UnitsInOrder, file \in Seq(Nat), NEW place, Layout(place),
           NEW k \in 1 .. Len(sent), NEW from, StartsAt(from, place, k),
           sent[k].kind \in {"AUD"} \cup Slices
    PROVE  LookAhead(from, {"PS", "PREFIX", "PH"}) \in {"AUD"} \cup Slices
  <1>0. sent \in Seq(Nals) BY DEF UnitsInOrder
  <1>1. PICK passing : passing = {"PS", "PREFIX", "PH"} OBVIOUS
  <1>2. sent[k].kind \notin passing BY <1>1 DEF Slices
  <1>3. LookAhead(from, passing) = sent[k].kind BY <1>0, <1>2, LooksAtNalUnit
  <1> QED BY <1>1, <1>3, Zenon

(* From the first NAL unit of a picture it finds that an access unit starts. *)
LEMMA SeesTheAccessUnit ==
    ASSUME UnitsInOrder, ~open, file \in Seq(Nat), NEW place, Layout(place),
           NEW k \in 1 .. Len(sent), Fresh(k), sent[k].kind \in Opening,
           NEW from, StartsAt(from, place, k)
    PROVE  IsNewAccessUnit(from)
  <1> DEFINE L(x) == LookAhead(x, {"PS", "PREFIX", "PH"})
             Found(x) == L(x) \in {"AUD"} \cup Slices
  <1>1. ASSUME NEW m \in 1 .. Len(sent), NEW x, StartsAt(x, place, m), sent[m].kind \in {"AUD", "FIRST", "SLICE"}
        PROVE  Found(x)
    <2>1. sent[m].kind \in {"AUD"} \cup Slices BY <1>1 DEF Slices
    <2> QED BY <1>1, <2>1, SeesTheKind
  <1>2. ASSUME NEW m \in 1 .. Len(sent), Fresh(m), NEW x, StartsAt(x, place, m), sent[m].kind = "PH"
        PROVE  Found(x)
    <2>1. sent[m].kind \in {"PS", "PREFIX", "PH"} BY <1>2
    <2>2. /\ m + 1 \in 1 .. Len(sent) /\ StartsAt(place[m + 1], place, m + 1)
          /\ sent[m + 1].kind \in Later("PH") /\ L(x) = L(place[m + 1])
      BY <1>2, <2>1, SeesOneFurther
    <2>3. sent[m + 1].kind \in {"AUD", "FIRST", "SLICE"} BY <2>2 DEF Later
    <2>4. Found(place[m + 1]) BY <1>1, <2>2, <2>3
    <2> QED BY <2>2, <2>4
  <1>3. ASSUME NEW m \in 1 .. Len(sent), Fresh(m), NEW x, StartsAt(x, place, m), sent[m].kind = "PREFIX"
        PROVE  Found(x)
    <2>1. sent[m].kind \in {"PS", "PREFIX", "PH"} BY <1>3
    <2>2. /\ m + 1 \in 1 .. Len(sent) /\ Fresh(m + 1) /\ StartsAt(place[m + 1], place, m + 1)
          /\ sent[m + 1].kind \in Later("PREFIX") /\ L(x) = L(place[m + 1])
      BY <1>3, <2>1, SeesOneFurther
    <2>3. sent[m + 1].kind \in {"PH", "FIRST"} BY <2>2 DEF Later
    <2>4. Found(place[m + 1])
      <3>1. CASE sent[m + 1].kind = "PH" BY <1>2, <2>2, <3>1
      <3>2. CASE sent[m + 1].kind = "FIRST" BY <1>1, <2>2, <3>2
      <3> QED BY <2>3, <3>1, <3>2
    <2> QED BY <2>2, <2>4
  <1>4. ASSUME NEW m \in 1 .. Len(sent), Fresh(m), NEW x, StartsAt(x, place, m), sent[m].kind = "PS"
        PROVE  Found(x)
    <2>1. sent[m].kind \in {"PS", "PREFIX", "PH"} BY <1>4
    <2>2. /\ m + 1 \in 1 .. Len(sent) /\ Fresh(m + 1) /\ StartsAt(place[m + 1], place, m + 1)
          /\ sent[m + 1].kind \in Later("PS") /\ L(x) = L(place[m + 1])
      BY <1>4, <2>1, SeesOneFurther
    <2>3. sent[m + 1].kind \in {"PREFIX", "PH", "FIRST"} BY <2>2 DEF Later
    <2>4. Found(place[m + 1])
      <3>1. CASE sent[m + 1].kind = "PH" BY <1>2, <2>2, <3>1
      <3>2. CASE sent[m + 1].kind = "FIRST" BY <1>1, <2>2, <3>2
      <3>3. CASE sent[m + 1].kind = "PREFIX" BY <1>3, <2>2, <3>3
      <3> QED BY <2>3, <3>1, <3>2, <3>3
    <2> QED BY <2>2, <2>4
  <1>5. sent[k].kind \in {"AUD", "PS", "PREFIX", "PH", "FIRST"} BY DEF Opening
  <1>6. Found(from)
    <2>1. CASE sent[k].kind \in {"AUD", "FIRST"} BY <1>1, <2>1
    <2>2. CASE sent[k].kind = "PH" BY <1>2, <2>2
    <2>3. CASE sent[k].kind = "PREFIX" BY <1>3, <2>3
    <2>4. CASE sent[k].kind = "PS" BY <1>4, <2>4
    <2> QED BY <1>5, <2>1, <2>2, <2>3, <2>4
  <1> QED BY <1>6 DEF IsNewAccessUnit

(* A look-ahead inside a picture. *)
LEMMA SeesNoPicture ==
    ASSUME UnitsInOrder, ~open, file \in Seq(Nat), NEW place, Layout(place),
           NEW k \in 1 .. Len(sent) - 1, Sliced(k), sent[k + 1].pic = sent[k].pic,
           NEW from, StartsAt(from, place, k + 1)
    PROVE  LookAhead(from, Kind \ (StartsPicture \cup StartsNoPicture)) \notin StartsPicture
  <1> DEFINE passing == Kind \ (StartsPicture \cup StartsNoPicture)
  <1>0. sent \in Seq(Nals) BY DEF UnitsInOrder
  <1>1. passing = {"PREFIX"} BY DEF Kind, Slices, StartsPicture, StartsNoPicture
  <1> HIDE DEF passing
  <1>2. k \in 1 .. Len(sent) /\ k + 1 \in 1 .. Len(sent) /\ Len(sent) \in Nat BY <1>0
  <1>3. sent[k].pic \in Nat BY <1>2, UnitsAre
  <1>4. ~(sent[k + 1].pic = sent[k].pic + 1) BY <1>3
  <1>5. \/ sent[k + 1].kind \in {"SLICE", "SUFFIX", "EOS"}
        \/ /\ sent[k + 1].kind = "PREFIX"
           /\ k + 2 \in 1 .. Len(sent) /\ sent[k + 2].kind = "SLICE"
    BY <1>4, AfterASlice
  <1>6. CASE sent[k + 1].kind \in {"SLICE", "SUFFIX", "EOS"}
    <2>1. sent[k + 1].kind \notin passing BY <1>1, <1>6
    <2>2. LookAhead(from, passing) = sent[k + 1].kind BY <1>0, <1>2, <2>1, LooksAtNalUnit
    <2>3. LookAhead(from, passing) \notin StartsPicture BY <1>6, <2>2 DEF StartsPicture
    <2> QED BY <2>3 DEF passing
  <1>7. CASE sent[k + 1].kind = "PREFIX" /\ k + 2 \in 1 .. Len(sent) /\ sent[k + 2].kind = "SLICE"
    <2>0. PICK m : m = k + 1 OBVIOUS
    <2>1. m \in 1 .. Len(sent) /\ m < Len(sent) /\ m + 1 = k + 2 BY <1>2, <1>7, <2>0
    <2>2. sent[m].kind \in passing /\ StartsAt(from, place, m) BY <1>1, <1>7, <2>0
    <2>3. LookAhead(from, passing) = LookAhead(place[m + 1], passing) BY <1>0, <2>1, <2>2, LooksAtNalUnit
    <2>4. StartsAt(place[m + 1], place, m + 1) BY DEF StartsAt
    <2>5. sent[m + 1].kind \notin passing /\ m + 1 \in 1 .. Len(sent) /\ sent[m + 1].kind = "SLICE" BY <1>1, <1>7, <2>1
    <2>6. LookAhead(place[m + 1], passing) = sent[m + 1].kind BY <1>0, <2>4, <2>5, LooksAtNalUnit
    <2>7. LookAhead(from, passing) \notin StartsPicture BY <2>3, <2>5, <2>6 DEF StartsPicture
    <2> QED BY <2>7 DEF passing
  <1> QED BY <1>5, <1>6, <1>7

----------------------------------------------------------------------------
(* The state of the decoder's loop, and the author's steps. *)

LogEntry == [nal : Seq(Nat), finished : Nat]

(* Every NAL unit read is the one sent, in the picture it belongs to. *)
ReadSoFar ==
    \A k \in 1 .. Len(log) :
        k <= Len(sent) /\ log[k].nal = Bytes(sent[k]) /\ log[k].finished = sent[k].pic - 1

(* The slices of the access unit are of the picture of the last NAL unit. *)
SlicesAreOf(k) ==
    /\ auPics # <<>>
    /\ \A m \in 1 .. Len(auPics) : auPics[m] \in 1 .. k /\ sent[auPics[m]].pic = sent[k].pic

(* An EOS NAL unit ends picture p. *)
EosOf(p) == \E i \in 1 .. Len(sent) : sent[i].kind = "EOS" /\ sent[i].pic = p

(* The loop between two iterations: NAL unit k is the next one and there   *)
(* was no slice of its picture yet; k is the last one read and there was;  *)
(* the end of the file.                                                    *)
BeforeSlices(place, k) ==
    /\ eof = FALSE /\ firstInPic = TRUE /\ auPics = <<>>
    /\ Len(log) + 1 = k /\ Fresh(k)
    /\ StartsAt(get - buffered, place, k)
    /\ finished = sent[k].pic - 1
    /\ loopFiltered <=> EosOf(sent[k].pic - 1)
    /\ eosInPu = FALSE

AmongSlices(place, k) ==
    /\ eof = FALSE /\ firstInPic = FALSE
    /\ Len(log) = k /\ k < Len(sent) /\ Sliced(k)
    /\ get = place[k + 1] + Peeked(k + 1) /\ buffered = Peeked(k + 1)
    /\ firstInSeq = (sent[k].kind = "EOS")
    /\ finished = IF firstInSeq THEN sent[k].pic ELSE sent[k].pic - 1
    /\ loopFiltered <=> (sent[k].kind = "EOS" \/ EosOf(sent[k].pic - 1))
    /\ eosInPu = (sent[k].kind = "EOS")
    /\ SlicesAreOf(k)

AtTheEnd(k) ==
    /\ eof = TRUE /\ Len(log) = k /\ k = Len(sent)
    /\ finished = IF EosOf(sent[k].pic - 1) THEN sent[k].pic - 1 ELSE sent[k].pic
    /\ SlicesAreOf(k)

NotStarted ==
    /\ get = 1 /\ buffered = 0 /\ eof = FALSE
    /\ firstInPic = TRUE /\ firstInSeq = TRUE /\ finished = 0 /\ log = <<>>
    /\ loopFiltered = FALSE /\ eosInPu = FALSE /\ auPics = <<>>

LoopState(place, k) ==
    /\ ReadSoFar
    /\ BeforeSlices(place, k) \/ AmongSlices(place, k) \/ AtTheEnd(k)

TransportInv ==
    /\ TransportType
    /\ UnitsInOrder
    /\ open => NotStarted
    /\ \E place : Layout(place) /\ (~open => \E k \in 1 .. Len(sent) : LoopState(place, k))

(* The parts of the type invariant. *)
LEMMA TypesAre ==
    ASSUME TransportType
    PROVE  /\ file \in Seq(Nat) /\ open \in BOOLEAN /\ eof \in BOOLEAN
           /\ firstInPic \in BOOLEAN /\ firstInSeq \in BOOLEAN
           /\ loopFiltered \in BOOLEAN /\ eosInPu \in BOOLEAN
           /\ get \in Nat /\ buffered \in 0 .. 4 /\ finished \in Nat
           /\ log \in Seq(LogEntry) /\ auPics \in Seq(Nat) /\ Len(log) \in Nat /\ Len(auPics) \in Nat
  BY DEF TransportType, LogEntry

(* Nothing is written and nothing is read. *)
LEMMA TransportStarts ==
    ASSUME TransportInit
    PROVE  TransportInv
  <1>1. /\ sent = <<>> /\ file = <<>> /\ open = TRUE /\ get = 1 /\ buffered = 0 /\ eof = FALSE
        /\ firstInPic = TRUE /\ firstInSeq = TRUE /\ finished = 0 /\ log = <<>> /\ auPics = <<>>
        /\ loopFiltered = FALSE /\ eosInPu = FALSE
    BY DEF TransportInit
  <1>2. TransportType
    <2>1. sent \in Seq([kind : Kind, pic : Nat]) /\ file \in Seq(Nat) /\ auPics \in Seq(Nat) BY <1>1
    <2>2. log \in Seq([nal : Seq(Nat), finished : Nat]) BY <1>1
    <2>3. {open, eof, firstInPic, firstInSeq, loopFiltered, eosInPu} \subseteq BOOLEAN BY <1>1
    <2>4. get \in Nat /\ buffered \in 0 .. 4 /\ finished \in Nat BY <1>1
    <2> QED BY <2>1, <2>2, <2>3, <2>4 DEF TransportType
  <1>3. UnitsInOrder BY <1>1 DEF UnitsInOrder
  <1>4. NotStarted BY <1>1 DEF NotStarted
  <1>5. Layout([k \in 1 .. 1 |-> 1])
    <2>1. Len(sent) = 0 /\ AfterFile = 1 BY <1>1 DEF AfterFile
    <2> QED BY <2>1 DEF Layout
  <1> QED BY <1>1, <1>2, <1>3, <1>4, <1>5 DEF TransportInv

(* The author writes on: the NAL units that are there stay where they are. *)
LEMMA SentGrows ==
    ASSUME sent \in Seq(Nals), NEW nal \in Nals, sent' = Append(sent, nal)
    PROVE  /\ sent' \in Seq(Nals) /\ Len(sent) \in Nat /\ Len(sent') = Len(sent) + 1
           /\ \A k \in 1 .. Len(sent) : sent'[k] = sent[k]
           /\ sent'[Len(sent) + 1] = nal
           /\ \A k \in 1 .. Len(sent) : Sliced(k)' = Sliced(k)
           /\ \A k \in 1 .. Len(sent) - 1 : (StartsAfter(k) => StartsAfter(k)') /\ (GoesOnAfter(k) => GoesOnAfter(k)')
  <1>1. sent' \in Seq(Nals) /\ Len(sent) \in Nat /\ Len(sent') = Len(sent) + 1
        /\ (\A k \in 1 .. Len(sent) : sent'[k] = sent[k]) /\ sent'[Len(sent) + 1] = nal
    OBVIOUS
  <1>2. ASSUME NEW k \in 1 .. Len(sent) PROVE Sliced(k)' = Sliced(k)
    <2>1. sent'[k] = sent[k] /\ \A i \in 1 .. k : sent'[i] = sent[i]
      <3>1. \A i \in 1 .. k : i \in 1 .. Len(sent) BY <1>1
      <3> QED BY <3>1, <1>1
    <2> QED BY <2>1, Zenon DEF Sliced
  <1>3. ASSUME NEW k \in 1 .. Len(sent) - 1
        PROVE  (StartsAfter(k) => StartsAfter(k)') /\ (GoesOnAfter(k) => GoesOnAfter(k)')
    <2>1. k \in 1 .. Len(sent) /\ k + 1 \in 1 .. Len(sent) BY <1>1
    <2>2. sent'[k] = sent[k] /\ sent'[k + 1] = sent[k + 1] /\ Sliced(k)' = Sliced(k) BY <2>1, <1>1, <1>2
    <2>3. StartsAfter(k) => StartsAfter(k)' BY <2>2, Zenon DEF StartsAfter
    <2>4. GoesOnAfter(k) => GoesOnAfter(k)' BY <2>2, Zenon DEF GoesOnAfter
    <2> QED BY <2>3, <2>4
  <1> QED BY <1>1, <1>2, <1>3

(* The new NAL unit has its place at the end of the file. *)
LEMMA LayoutGrows ==
    ASSUME file \in Seq(Nat), sent \in Seq(Nals), NEW place, Layout(place),
           NEW nal \in Nals, sent' = Append(sent, nal), NEW n, n = Len(sent),
           file' = file \o StartCode(Long(n + 1)') \o Bytes(nal)
    PROVE  file' \in Seq(Nat) /\ \E p : Layout(p)'
  <1>0. PICK l : l = Long(n + 1)' OBVIOUS
  <1>1. l \in BOOLEAN BY <1>0 DEF Long, UseLongStartCode
  <1>2. /\ sent' \in Seq(Nals) /\ n \in Nat /\ Len(sent') = n + 1
        /\ \A k \in 1 .. n : sent'[k] = sent[k]
        /\ sent'[n + 1] = nal
    BY SentGrows
  <1>3. PICK a : a = AfterFile OBVIOUS
  <1>4. file' = file \o StartCode(l) \o Bytes(nal) BY <1>0, Zenon
  <1>5. /\ file' \in Seq(Nat)
        /\ NalAt(a, l, nal)'
        /\ AfterFile' = BodyOf(a, l) + Len(Bytes(nal))
        /\ Len(file) <= Len(file')
        /\ \A i \in 1 .. Len(file) : file'[i] = file[i]
    BY <1>1, <1>3, <1>4, NalArrives
  <1>a. PICK z : z = AfterFile' OBVIOUS
  <1>b. PICK new : new = [k \in 1 .. n + 2 |-> IF k = n + 2 THEN z ELSE place[k]] OBVIOUS
  <1>6. place \in [1 .. n + 1 -> Nat] /\ place[1] = 1 /\ place[n + 1] = a BY <1>3 DEF Layout
  <1>7. AfterFile' \in Nat BY <1>5 DEF AfterFile
  <1>8. new \in [1 .. n + 1 + 1 -> Nat]
    <2>1. n + 1 + 1 = n + 2 BY <1>2
    <2>2. \A k \in 1 .. n + 2 : k # n + 2 => k \in 1 .. n + 1 BY <1>2
    <2> QED BY <2>1, <2>2, <1>6, <1>7, <1>a, <1>b
  <1>9. new[1] = 1 /\ new[n + 1 + 1] = AfterFile'
    <2>1. 1 \in 1 .. n + 2 /\ 1 # n + 2 /\ n + 1 + 1 = n + 2 /\ n + 2 \in 1 .. n + 2 BY <1>2
    <2> QED BY <2>1, <1>6, <1>a, <1>b
  <1>10. \A k \in 1 .. n + 1 : new[k] = place[k]
    <2>1. \A k \in 1 .. n + 1 : k \in 1 .. n + 2 /\ k # n + 2 BY <1>2
    <2> QED BY <2>1, <1>b
  <1>11. new[n + 2] = AfterFile' BY <1>2, <1>a, <1>b
  <1>12. ASSUME NEW k \in 1 .. n + 1
         PROVE  /\ NalAt(new[k], Long(k), sent[k])'
                /\ (new[k + 1] = BodyOf(new[k], Long(k)) + Len(Bytes(sent[k])))'
    <2>1. CASE k = n + 1
      <3>1. new[k] = a /\ new[k + 1] = AfterFile' /\ sent'[k] = nal /\ Long(k)' = l
        <4>1. k + 1 = n + 2 BY <1>2, <2>1
        <4>2. new[k] = a BY <2>1, <1>2, <1>6, <1>10
        <4>3. new[k + 1] = AfterFile' BY <4>1, <1>11
        <4>4. sent'[k] = nal BY <2>1, <1>2
        <4>5. Long(k)' = l BY <2>1, <1>0
        <4> QED BY <4>2, <4>3, <4>4, <4>5
      <3> QED BY <3>1, <1>5
    <2>2. CASE k \in 1 .. n
      <3>1. k + 1 \in 1 .. n + 1 BY <1>2, <2>2
      <3>2. new[k] = place[k] /\ new[k + 1] = place[k + 1] /\ sent'[k] = sent[k] BY <3>1, <2>2, <1>2, <1>10
      <3>3. Long(k)' = Long(k)
        <4>1. k # 1 => sent'[k - 1] = sent[k - 1]
          <5>1. k # 1 => k - 1 \in 1 .. n BY <1>2, <2>2
          <5> QED BY <5>1, <1>2
        <4> QED BY <3>2, <4>1 DEF Long
      <3>4. NalAt(place[k], Long(k), sent[k]) /\ place[k + 1] = BodyOf(place[k], Long(k)) + Len(Bytes(sent[k]))
        BY <2>2 DEF Layout
      <3>5. PICK q, m, u : q = place[k] /\ m = Long(k) /\ u = sent[k] OBVIOUS
      <3>6. NalAt(q, m, u) /\ m \in BOOLEAN /\ u \in Nals BY <3>4, <3>5, <2>2, LongIsBoolean
      <3>7. NalAt(q, m, u)' BY <3>6, <1>5, NalStays
      <3> QED BY <3>2, <3>3, <3>4, <3>5, <3>7
    <2>3. k \in 1 .. n \/ k = n + 1 BY <1>2
    <2> QED BY <2>1, <2>2, <2>3
  <1>13. Layout(new)' BY <1>2, <1>8, <1>9, <1>12 DEF Layout
  <1> QED BY <1>5, <1>13

(* When the start code of a NAL unit is long, in the state after a step. *)
LEMMA LongGrows ==
    ASSUME NEW m
    PROVE  Long(m)' <=> (m = 1 \/ sent'[m].pic # sent'[m - 1].pic) \/ sent'[m].kind \in {"PS", "PREFIX"}
  BY DEF Long, UseLongStartCode

(* The writing keeps the order of the NAL units. *)
LEMMA WritingKeepsOrder ==
    ASSUME UnitsInOrder, open, NEW kind \in Kind, Write(kind)
    PROVE  /\ UnitsInOrder' /\ open'
           /\ \E nal \in Nals, n \in Nat :
                 /\ n = Len(sent) /\ sent' = Append(sent, nal)
                 /\ file' = file \o StartCode(Long(n + 1)') \o Bytes(nal)
           /\ UNCHANGED <<get, buffered, eof, firstInPic, firstInSeq, loopFiltered, eosInPu, finished, log, auPics>>
  <1>n. PICK n : n = Len(sent) OBVIOUS
  <1>0. sent \in Seq(Nals) /\ n \in Nat BY <1>n DEF UnitsInOrder
  <1>1. PICK pic : /\ WriteNal(kind, pic)
                   /\ \/ MayStart(kind) /\ pic = (IF sent = <<>> THEN 1 ELSE Last.pic + 1)
                      \/ MayContinue(kind) /\ pic = Last.pic
    BY DEF Write
  <1>2. pic \in Nat /\ (sent # <<>> => n \in 1 .. n /\ Last = sent[n] /\ Last.pic \in Nat)
    <2>1. CASE sent = <<>> BY <1>1, <2>1 DEF MayContinue
    <2>2. CASE sent # <<>>
      <3>1. n \in 1 .. n BY <1>0, <1>n, <2>2
      <3>2. Last = sent[n] /\ sent[n].pic \in Nat BY <1>n, <3>1, UnitsAre DEF Last
      <3> QED BY <1>1, <3>1, <3>2
    <2> QED BY <2>1, <2>2
  <1>3. PICK nal : nal = [kind |-> kind, pic |-> pic] OBVIOUS
  <1>4. nal \in Nals /\ nal.kind = kind /\ nal.pic = pic BY <1>2, <1>3 DEF Nals
  <1>5. /\ sent' = Append(sent, nal)
        /\ file' = file \o StartCode(UseLongStartCode(kind, sent = <<>> \/ pic # Last.pic)) \o Bytes(nal)
        /\ open' = open
        /\ UNCHANGED <<get, buffered, eof, firstInPic, firstInSeq, loopFiltered, eosInPu, finished, log, auPics>>
    BY <1>1, <1>3 DEF WriteNal, byteStream, loopVars
  <1>6. /\ sent' \in Seq(Nals) /\ Len(sent') = n + 1
        /\ \A k \in 1 .. n : sent'[k] = sent[k]
        /\ sent'[n + 1] = nal
        /\ \A k \in 1 .. n : Sliced(k)' = Sliced(k)
        /\ \A k \in 1 .. n - 1 : (StartsAfter(k) => StartsAfter(k)') /\ (GoesOnAfter(k) => GoesOnAfter(k)')
    BY <1>n, <1>0, <1>4, <1>5, SentGrows
  <1>7. Long(n + 1)' = UseLongStartCode(kind, sent = <<>> \/ pic # Last.pic)
    <2>1. CASE sent = <<>>
      <3>1. n + 1 = 1 BY <1>n, <2>1
      <3>2. Long(n + 1)' = UseLongStartCode(kind, TRUE) BY <3>1, <1>4, <1>6 DEF Long
      <3> QED BY <3>2, <2>1
    <2>2. CASE sent # <<>>
      <3>1. n + 1 # 1 /\ n + 1 - 1 = n /\ sent'[n] = sent[n] /\ Last = sent[n] BY <1>0, <1>2, <1>6, <2>2
      <3>2. PICK m : m = n + 1 OBVIOUS
      <3>3. Long(n + 1)' <=> (pic # Last.pic \/ kind \in {"PS", "PREFIX"})
        <4>1. Long(m)' <=> (m = 1 \/ sent'[m].pic # sent'[m - 1].pic) \/ sent'[m].kind \in {"PS", "PREFIX"}
          BY LongGrows
        <4>2. m # 1 /\ sent'[m].kind = kind /\ (sent'[m].pic # sent'[m - 1].pic <=> pic # Last.pic)
          <5>1. m # 1 /\ m - 1 = n BY <3>1, <3>2, <1>0
          <5>2. sent'[m] = nal BY <3>2, <1>6
          <5>3. sent'[m].kind = kind /\ sent'[m].pic = pic BY <5>2, <1>4
          <5>4. sent'[m - 1].pic = Last.pic BY <5>1, <3>1
          <5> QED BY <5>1, <5>3, <5>4
        <4>3. Long(m)' <=> (pic # Last.pic \/ kind \in {"PS", "PREFIX"}) BY <4>1, <4>2
        <4>4. Long(m)' <=> Long(n + 1)' BY <3>2
        <4> QED BY <4>3, <4>4
      <3>4. UseLongStartCode(kind, sent = <<>> \/ pic # Last.pic) <=> (pic # Last.pic \/ kind \in {"PS", "PREFIX"})
        BY <2>2 DEF UseLongStartCode
      <3>5. Long(n + 1)' \in BOOLEAN /\ UseLongStartCode(kind, sent = <<>> \/ pic # Last.pic) \in BOOLEAN
        BY DEF Long, UseLongStartCode
      <3> QED BY <3>3, <3>4, <3>5
    <2> QED BY <2>1, <2>2
  <1>8. sent # <<>> => (SlicesOf(Last.pic) # {} <=> Sliced(n))
    <2>1. SUFFICES ASSUME sent # <<>> PROVE SlicesOf(Last.pic) # {} <=> Sliced(n) OBVIOUS
    <2>2. DOMAIN sent = 1 .. n /\ Last.pic = sent[n].pic BY <1>n, <1>0, <1>2, <2>1
    <2> QED BY <2>2 DEF SlicesOf, Sliced
  <1>9. n \in 1 .. n => StartsAfter(n)' \/ GoesOnAfter(n)'
    <2> SUFFICES ASSUME n \in 1 .. n PROVE StartsAfter(n)' \/ GoesOnAfter(n)' OBVIOUS
    <2>1. sent # <<>> /\ Last = sent[n] BY <1>n, <1>0, <1>2
    <2>2. sent'[n] = sent[n] /\ sent'[n + 1] = nal /\ Sliced(n)' = Sliced(n) BY <1>6
    <2>3. CASE MayStart(kind) /\ pic = Last.pic + 1
      <3>1. kind \in Opening /\ Sliced(n) /\ sent[n].kind # "PREFIX" BY <2>1, <2>3, <1>8 DEF MayStart
      <3>2. nal.pic = sent[n].pic + 1 /\ nal.kind \in Opening BY <1>4, <2>1, <2>3, <3>1
      <3> QED BY <2>2, <3>1, <3>2 DEF StartsAfter
    <2>4. CASE MayContinue(kind) /\ pic = Last.pic
      <3>1. \/ kind \in Opening /\ ~Sliced(n) /\ Order[sent[n].kind] < Order[kind]
            \/ kind = "SLICE" /\ sent[n].kind \in {"PH", "SLICE"}
            \/ kind = "SLICE" /\ sent[n].kind = "PREFIX" /\ Sliced(n)
            \/ kind = "PREFIX" /\ sent[n].kind = "SLICE"
            \/ kind = "SUFFIX" /\ sent[n].kind \in Slices
            \/ kind = "EOS" /\ sent[n].kind \in Slices \cup {"SUFFIX"}
        BY <2>1, <2>4, <1>8 DEF MayContinue
      <3>2. nal.pic = sent[n].pic /\ nal.kind = kind BY <1>4, <2>1, <2>4
      <3> QED BY <2>2, <3>1, <3>2 DEF GoesOnAfter
    <2> QED BY <1>1, <2>1, <2>3, <2>4
  <1>10. sent' # <<>> BY <1>0, <1>6
  <1>11. sent'[1].pic = 1 /\ sent'[1].kind \in Opening
    <2>1. CASE sent = <<>>
      <3>1. MayStart(kind) /\ pic = 1 /\ n = 0 BY <1>n, <1>1, <2>1 DEF MayContinue
      <3>2. sent'[1] = nal BY <1>6, <3>1
      <3> QED BY <1>4, <3>1, <3>2 DEF MayStart
    <2>2. CASE sent # <<>>
      <3>1. 1 \in 1 .. n BY <1>n, <1>0, <2>2
      <3>2. sent'[1] = sent[1] BY <3>1, <1>6
      <3> QED BY <3>2, <2>2 DEF UnitsInOrder
    <2> QED BY <2>1, <2>2
  <1>12. ASSUME NEW k \in 1 .. Len(sent') - 1 PROVE StartsAfter(k)' \/ GoesOnAfter(k)'
    <2>1. k \in 1 .. n - 1 \/ (k = n /\ n \in 1 .. n) BY <1>0, <1>6
    <2>2. CASE k \in 1 .. n - 1
      <3>1. StartsAfter(k) \/ GoesOnAfter(k) BY <1>n, <2>2 DEF UnitsInOrder
      <3> QED BY <3>1, <2>2, <1>6
    <2> QED BY <2>1, <2>2, <1>9
  <1>13. ASSUME NEW k \in 1 .. Len(sent'), NEW i \in 1 .. k PROVE sent'[i].pic <= sent'[k].pic
    <2>1. CASE k \in 1 .. n
      <3>1. i \in 1 .. n /\ sent'[i] = sent[i] /\ sent'[k] = sent[k] BY <2>1, <1>0, <1>6
      <3>2. sent[i].pic <= sent[k].pic BY <1>n, <2>1 DEF UnitsInOrder
      <3> QED BY <3>1, <3>2
    <2>2. CASE k = n + 1 /\ i = n + 1
      <3>1. sent'[i].pic = pic /\ sent'[k].pic = pic BY <2>2, <1>4, <1>6
      <3> QED BY <3>1, <1>2
    <2>3. CASE k = n + 1 /\ i \in 1 .. n
      <3>1. sent # <<>> /\ n \in 1 .. n BY <2>3, <1>n, <1>0
      <3>2. sent[i].pic <= sent[n].pic /\ sent[i].pic \in Nat /\ sent[n].pic \in Nat
        BY <1>n, <2>3, <3>1, UnitsAre DEF UnitsInOrder
      <3>3. sent'[i].pic = sent[i].pic /\ sent'[k].pic = pic BY <2>3, <1>4, <1>6
      <3>4. pic = sent[n].pic \/ pic = sent[n].pic + 1 BY <1>1, <1>2, <3>1
      <3> QED BY <3>2, <3>3, <3>4
    <2>4. k \in 1 .. n \/ (k = n + 1 /\ (i \in 1 .. n \/ i = n + 1)) BY <1>0, <1>6
    <2> QED BY <2>1, <2>2, <2>3, <2>4
  <1>14. open' BY <1>5
  <1>15. UnitsInOrder'
    <2>1. sent' \in Seq(Nals) BY <1>6
    <2>2. \A k \in 1 .. Len(sent') : \A i \in 1 .. k : sent'[i].pic <= sent'[k].pic BY <1>13
    <2> QED BY <2>1, <2>2, <1>11, <1>12, <1>14 DEF UnitsInOrder
  <1>16. file' = file \o StartCode(Long(n + 1)') \o Bytes(nal) BY <1>5, <1>7
  <1> QED BY <1>n, <1>0, <1>4, <1>5, <1>14, <1>15, <1>16

----------------------------------------------------------------------------
(* The last picture unit is a whole one. *)
Whole == sent # <<>> /\ Sliced(Len(sent)) /\ Last.kind # "PREFIX"

(* What the loop and the end of the writing leave alone. *)
LEMMA StreamStays ==
    ASSUME sent' = sent, file' = file, NEW place, NEW k, NEW from
    PROVE  /\ UnitsInOrder /\ (~open' => ~open \/ Whole) => UnitsInOrder'
           /\ Layout(place) => Layout(place)'
           /\ Sliced(k) => Sliced(k)'
           /\ Fresh(k) => Fresh(k)'
           /\ StartsAt(from, place, k) => StartsAt(from, place, k)'
           /\ Peeked(k)' = Peeked(k)
  <1>1. sent' = sent /\ file' = file OBVIOUS
  <1>2. ASSUME NEW i PROVE Long(i)' = Long(i)
    BY <1>1, Zenon DEF Long, UseLongStartCode
  <1>3. ASSUME NEW i PROVE (Sliced(i) => Sliced(i)') /\ (StartsAfter(i) => StartsAfter(i)') /\ (GoesOnAfter(i) => GoesOnAfter(i)')
    <2>1. (Sliced(i) => Sliced(i)') /\ (~Sliced(i) => ~Sliced(i)') BY <1>1, Zenon DEF Sliced
    <2>2. StartsAfter(i) => StartsAfter(i)' BY <1>1, <2>1, Zenon DEF StartsAfter
    <2>3. GoesOnAfter(i) => GoesOnAfter(i)' BY <1>1, <2>1, Zenon DEF GoesOnAfter
    <2> QED BY <2>1, <2>2, <2>3
  <1>4. UnitsInOrder /\ (~open' => ~open \/ Whole) => UnitsInOrder'
    <2> SUFFICES ASSUME UnitsInOrder, ~open' => ~open \/ Whole PROVE UnitsInOrder' OBVIOUS
    <2>1. /\ sent \in Seq(Nals)
          /\ sent # <<>> => sent[1].pic = 1 /\ sent[1].kind \in Opening
          /\ \A i \in 1 .. Len(sent) : \A m \in 1 .. i : sent[m].pic <= sent[i].pic
      BY DEF UnitsInOrder
    <2>2. \A i \in 1 .. Len(sent) - 1 : StartsAfter(i)' \/ GoesOnAfter(i)' BY <1>3 DEF UnitsInOrder
    <2>3. PICK n : n = Len(sent) OBVIOUS
    <2>4. ~open' => sent # <<>> /\ Sliced(n)' /\ Last.kind # "PREFIX" BY <2>3, <1>3 DEF UnitsInOrder, Whole
    <2>5. Last' = Last /\ n = Len(sent') BY <1>1, <2>3 DEF Last
    <2>6. ~open' => sent' # <<>> /\ Sliced(Len(sent))' /\ Last'.kind # "PREFIX"
      <3>1. Sliced(n)' => Sliced(Len(sent))' BY <1>1, <2>3 DEF Sliced
      <3> QED BY <1>1, <2>4, <2>5, <3>1
    <2>7. \A i \in 1 .. Len(sent') - 1 : StartsAfter(i)' \/ GoesOnAfter(i)' BY <1>1, <2>2
    <2>8. /\ sent' \in Seq(Nals)
          /\ sent' # <<>> => sent'[1].pic = 1 /\ sent'[1].kind \in Opening
          /\ \A i \in 1 .. Len(sent') : \A m \in 1 .. i : sent'[m].pic <= sent'[i].pic
      BY <1>1, <2>1
    <2> QED BY <2>6, <2>7, <2>8 DEF UnitsInOrder
  <1>5. Layout(place) => Layout(place)'
    <2> SUFFICES ASSUME Layout(place) PROVE Layout(place)' OBVIOUS
    <2>1. AfterFile' = AfterFile BY <1>1 DEF AfterFile
    <2>2. ASSUME NEW i \in 1 .. Len(sent)
          PROVE  /\ NalAt(place[i], Long(i), sent[i])'
                 /\ (place[i + 1] = BodyOf(place[i], Long(i)) + Len(Bytes(sent[i])))'
      <3>1. NalAt(place[i], Long(i), sent[i]) /\ place[i + 1] = BodyOf(place[i], Long(i)) + Len(Bytes(sent[i]))
        BY DEF Layout
      <3>2. PICK p, l, u : p = place[i] /\ l = Long(i) /\ u = sent[i] OBVIOUS
      <3>3. NalAt(p, l, u) BY <3>1, <3>2, Zenon
      <3>4. NalAt(p, l, u)' BY <1>1, <2>1, <3>3, Zenon DEF NalAt
      <3>5. Long(i)' = l /\ sent'[i] = u BY <1>1, <1>2, <3>2
      <3> QED BY <1>1, <1>2, <3>1, <3>2, <3>4, <3>5
    <2> QED BY <1>1, <2>1, <2>2 DEF Layout
  <1>6. Fresh(k) => Fresh(k)' BY <1>1, Zenon DEF Fresh
  <1>7. StartsAt(from, place, k) => StartsAt(from, place, k)' BY <1>2, Zenon DEF StartsAt
  <1>8. Peeked(k)' = Peeked(k) BY <1>2, Zenon DEF Peeked
  <1> QED BY <1>1, <1>3, <1>4, <1>5, <1>6, <1>7, <1>8

----------------------------------------------------------------------------
(* Behind an EOS NAL unit there are only later pictures, so the last NAL   *)
(* unit of a picture tells whether it is ended by one.                     *)
LEMMA EosIsLast ==
    ASSUME UnitsInOrder, ~open, NEW i \in 1 .. Len(sent), sent[i].kind = "EOS",
           NEW k \in 1 .. Len(sent), i < k
    PROVE  sent[i].pic < sent[k].pic
  <1>1. Len(sent) \in Nat /\ sent[i].pic \in Nat /\ sent[k].pic \in Nat BY UnitsAre
  <1>2. PICK m : m = i + 1 OBVIOUS
  <1>3. i \in 1 .. Len(sent) - 1 /\ m \in 1 .. k BY <1>1, <1>2
  <1>4. Sliced(i) BY EndsAreSliced
  <1>5. sent[m].pic = sent[i].pic + 1 BY <1>2, <1>3, <1>4, AfterASlice
  <1>6. sent[m].pic <= sent[k].pic BY <1>3 DEF UnitsInOrder
  <1> QED BY <1>1, <1>5, <1>6

LEMMA EosAtTheBorder ==
    ASSUME UnitsInOrder, ~open, NEW k \in 1 .. Len(sent) - 1, sent[k + 1].pic = sent[k].pic + 1
    PROVE  EosOf(sent[k].pic) <=> sent[k].kind = "EOS"
  <1>1. Len(sent) \in Nat /\ k \in 1 .. Len(sent) /\ k + 1 \in 1 .. Len(sent) BY DEF UnitsInOrder
  <1>2. sent[k].pic \in Nat BY <1>1, UnitsAre
  <1>3. sent[k].kind = "EOS" => EosOf(sent[k].pic) BY <1>1 DEF EosOf
  <1>4. ASSUME NEW i \in 1 .. Len(sent), sent[i].kind = "EOS", sent[i].pic = sent[k].pic PROVE i = k
    <2>1. CASE k < i
      <3>1. k + 1 \in 1 .. i BY <1>1, <2>1
      <3>2. sent[k + 1].pic <= sent[i].pic BY <3>1 DEF UnitsInOrder
      <3> QED BY <3>2, <1>2, <1>4
    <2>2. CASE i < k
      <3>1. sent[i].pic < sent[k].pic BY <1>1, <1>4, <2>2, EosIsLast
      <3> QED BY <3>1, <1>2, <1>4
    <2> QED BY <2>1, <2>2, <1>1
  <1> QED BY <1>3, <1>4 DEF EosOf

(* No EOS NAL unit comes before the first picture. *)
LEMMA NoEosAtFirst ==
    ASSUME UnitsInOrder
    PROVE  ~EosOf(0)
  <1>1. SUFFICES ASSUME NEW i \in 1 .. Len(sent), sent[i].pic = 0 PROVE FALSE BY DEF EosOf
  <1>2. Len(sent) \in Nat /\ 1 \in 1 .. i /\ sent # <<>> BY DEF UnitsInOrder
  <1>3. sent[1].pic <= sent[i].pic /\ sent[1].pic = 1 BY <1>2 DEF UnitsInOrder
  <1> QED BY <1>1, <1>3

----------------------------------------------------------------------------
(* The author's steps. *)
LEMMA WritesKeepInv ==
    ASSUME TransportInv, NEW kind \in Kind, Write(kind)
    PROVE  TransportInv'
  <1>1. open /\ NotStarted /\ TransportType /\ UnitsInOrder BY DEF TransportInv, Write
  <1>2. PICK place : Layout(place) BY DEF TransportInv
  <1>3. UnitsInOrder' /\ open' /\ UNCHANGED <<get, buffered, eof, firstInPic, firstInSeq, loopFiltered, eosInPu, finished, log, auPics>>
    BY <1>1, WritingKeepsOrder
  <1>4. PICK nal \in Nals, n \in Nat :
            /\ n = Len(sent) /\ sent' = Append(sent, nal)
            /\ file' = file \o StartCode(Long(n + 1)') \o Bytes(nal)
    BY <1>1, WritingKeepsOrder
  <1>5. sent \in Seq(Nals) /\ file \in Seq(Nat) BY <1>1, TypesAre DEF UnitsInOrder
  <1>6. file' \in Seq(Nat) /\ \E p : Layout(p)' BY <1>2, <1>4, <1>5, LayoutGrows
  <1>7. open' = TRUE BY <1>1, <1>3 DEF TransportType, Write, WriteNal
  <1>8. TransportType'
    <2>1. sent' \in Seq([kind : Kind, pic : Nat]) BY <1>3 DEF UnitsInOrder, Nals
    <2> QED BY <1>1, <1>3, <1>6, <1>7, <2>1 DEF TransportType
  <1>9. NotStarted' BY <1>1, <1>3 DEF NotStarted
  <1> QED BY <1>3, <1>6, <1>7, <1>8, <1>9 DEF TransportInv

(* The loop then starts before the first slice of the first picture. *)
LEMMA CloseKeepsInv ==
    ASSUME TransportInv, Close
    PROVE  TransportInv'
  <1>1. open /\ NotStarted /\ TransportType /\ UnitsInOrder BY DEF TransportInv, Close
  <1>2. PICK place : Layout(place) BY DEF TransportInv
  <1>3. /\ sent' = sent /\ file' = file /\ open' = FALSE
        /\ UNCHANGED <<get, buffered, eof, firstInPic, firstInSeq, loopFiltered, eosInPu, finished, log, auPics>>
        /\ sent # <<>> /\ SlicesOf(Last.pic) # {} /\ Last.kind # "PREFIX"
    BY DEF Close, byteStream, loopVars
  <1>4. TransportType' BY <1>1, <1>3 DEF TransportType
  <1>n. PICK n : n = Len(sent) OBVIOUS
  <1>a. sent \in Seq(Nals) /\ n \in Nat /\ n \in 1 .. n /\ 1 \in 1 .. n BY <1>1, <1>3, <1>n DEF UnitsInOrder
  <1>5. Sliced(n)
    <2>1. DOMAIN sent = 1 .. n /\ Last.pic = sent[n].pic BY <1>n, <1>a DEF Last
    <2> QED BY <2>1, <1>3 DEF SlicesOf, Sliced
  <1>6. UnitsInOrder'
    <2>1. Whole BY <1>3, <1>5, <1>n DEF Whole
    <2> QED BY <1>1, <1>3, <2>1, StreamStays
  <1>7. Layout(place)' BY <1>2, <1>3, StreamStays
  <1>8. ReadSoFar'
    <2>1. log' = <<>> BY <1>1, <1>3 DEF NotStarted
    <2> QED BY <2>1 DEF ReadSoFar
  <1>9. BeforeSlices(place, 1)'
    <2>1. /\ eof' = FALSE /\ firstInPic' = TRUE /\ auPics' = <<>> /\ log' = <<>>
          /\ get' = 1 /\ buffered' = 0 /\ finished' = 0 /\ loopFiltered' = FALSE /\ eosInPu' = FALSE
      BY <1>1, <1>3 DEF NotStarted
    <2>2. Fresh(1)' BY DEF Fresh
    <2>3. get' - buffered' = place[1] BY <1>2, <2>1 DEF Layout
    <2>4. sent'[1].pic = 1 BY <1>1, <1>3 DEF UnitsInOrder
    <2>5. Len(log') + 1 = 1 BY <2>1
    <2>6. StartsAt(get - buffered, place, 1)' BY <2>3 DEF StartsAt
    <2>7. ~EosOf(sent[1].pic - 1)'
      <3>1. ~EosOf(0)' BY <1>1, <1>3, NoEosAtFirst DEF EosOf
      <3>2. sent'[1].pic - 1 = 0 BY <2>4
      <3> QED BY <3>1, <3>2 DEF EosOf
    <2> QED BY <2>1, <2>2, <2>4, <2>5, <2>6, <2>7 DEF BeforeSlices
  <1>10. 1 \in 1 .. Len(sent') /\ LoopState(place, 1)' BY <1>3, <1>n, <1>a, <1>8, <1>9 DEF LoopState
  <1> QED BY <1>3, <1>4, <1>6, <1>7, <1>10 DEF TransportInv

----------------------------------------------------------------------------
(* The steps of the decoder's loop. *)

(* A new picture is found behind the slices of the last one, before the    *)
(* first NAL unit of the next one.                                         *)
LEMMA NewPictureKeepsInv ==
    ASSUME TransportInv, NewPictureFound
    PROVE  TransportInv'
  <1>1. TransportType /\ UnitsInOrder /\ open = FALSE /\ ~open /\ eof = FALSE /\ IsNewPicture
    <2>1. TransportType /\ UnitsInOrder /\ ~open /\ ~eof /\ IsNewPicture BY DEF TransportInv, NewPictureFound
    <2>2. open \in BOOLEAN /\ eof \in BOOLEAN BY <2>1, TypesAre
    <2>3. open = FALSE /\ eof = FALSE BY <2>1, <2>2
    <2> QED BY <2>1, <2>3, Zenon
  <1>a. PICK place : Layout(place) /\ \E k \in 1 .. Len(sent) : LoopState(place, k) BY <1>1 DEF TransportInv
  <1>2. PICK k \in 1 .. Len(sent) : Layout(place) /\ LoopState(place, k) BY <1>a
  <1>3. /\ sent' = sent /\ file' = file /\ open' = open /\ eof' = eof /\ firstInSeq' = firstInSeq /\ log' = log
        /\ get' = get - SeekBack /\ buffered' = 0
        /\ finished' = IF firstInSeq THEN finished ELSE finished + 1
        /\ loopFiltered' = IF firstInSeq THEN loopFiltered ELSE FALSE
        /\ firstInPic' = TRUE /\ eosInPu' = FALSE
        /\ auPics' = IF IsNewAccessUnit(get - SeekBack) THEN <<>> ELSE auPics
    BY DEF NewPictureFound, EndPicture, streamVars
  <1>4. AmongSlices(place, k) /\ ReadSoFar
    <2>1. firstInPic = FALSE BY <1>1, TypesAre DEF IsNewPicture
    <2>2. ~BeforeSlices(place, k) BY <2>1 DEF BeforeSlices
    <2>3. ~AtTheEnd(k) BY <1>1 DEF AtTheEnd
    <2> QED BY <1>2, <2>2, <2>3 DEF LoopState
  <1>5. /\ Len(log) = k /\ k < Len(sent) /\ Sliced(k)
        /\ get = place[k + 1] + Peeked(k + 1) /\ buffered = Peeked(k + 1)
        /\ finished = IF firstInSeq THEN sent[k].pic ELSE sent[k].pic - 1
        /\ firstInSeq = (sent[k].kind = "EOS")
        /\ loopFiltered <=> (sent[k].kind = "EOS" \/ EosOf(sent[k].pic - 1))
    BY <1>4 DEF AmongSlices
  <1>6. /\ Len(sent) \in Nat /\ k \in Nat /\ sent[k].pic \in Nat
        /\ file \in Seq(Nat) /\ sent \in Seq(Nals) /\ firstInSeq \in BOOLEAN
    BY <1>1, UnitsAre, TypesAre DEF UnitsInOrder
  <1>7. PICK m : m = k + 1 OBVIOUS
  <1>8. m \in 1 .. Len(sent) /\ k \in 1 .. Len(sent) - 1 BY <1>5, <1>6, <1>7
  <1>9. /\ place[m] \in Nat /\ place[m] + Peeked(m) - Peeked(m) = place[m]
        /\ StartsAt(place[m], place, m) /\ StartsAt(place[m] + Peeked(m) - 3, place, m)
    BY <1>2, <1>6, <1>8, PlacesAreNumbers
  <1>10. get - buffered = place[m] /\ get - SeekBack = place[m] + Peeked(m) - 3
    <2>1. get = place[m] + Peeked(m) /\ buffered = Peeked(m) BY <1>5, <1>7
    <2>2. PICK q, w : q = place[m] /\ w = Peeked(m) OBVIOUS
    <2>3. q \in Nat /\ w \in {3, 4} BY <2>2, <1>9 DEF Peeked
    <2>4. get = q + w /\ buffered = w BY <2>1, <2>2
    <2>5. get - buffered = q /\ get - SeekBack = q + w - 3 BY <2>3, <2>4 DEF SeekBack
    <2> QED BY <2>2, <2>5
  <1>11. sent[m].pic = sent[k].pic + 1 /\ sent[m].kind \in Opening /\ Fresh(m)
    <2>1. sent[m].pic # sent[k].pic
      <3>1. SUFFICES ASSUME sent[m].pic = sent[k].pic PROVE FALSE OBVIOUS
      <3>2. StartsAt(get - buffered, place, k + 1) /\ sent[k + 1].pic = sent[k].pic BY <3>1, <1>7, <1>9, <1>10
      <3>3. LookAhead(get - buffered, Kind \ (StartsPicture \cup StartsNoPicture)) \notin StartsPicture
        BY <3>2, <1>1, <1>2, <1>5, <1>6, <1>8, SeesNoPicture
      <3> QED BY <3>3, <1>1 DEF IsNewPicture
    <2>2. \/ sent[m].pic = sent[k].pic + 1 /\ sent[m].kind \in Opening /\ Fresh(m)
          \/ sent[m].pic = sent[k].pic
      BY <1>1, <1>5, <1>7, <1>8, AfterASlice
    <2> QED BY <2>1, <2>2
  <1>12. IsNewAccessUnit(get - SeekBack)
    BY <1>1, <1>2, <1>6, <1>8, <1>9, <1>10, <1>11, SeesTheAccessUnit
  <1>13. auPics' = <<>> BY <1>3, <1>12
  <1>14. finished' = sent[k].pic
    <2>1. CASE firstInSeq BY <2>1, <1>3, <1>5
    <2>2. CASE ~firstInSeq BY <2>2, <1>3, <1>5, <1>6
    <2> QED BY <2>1, <2>2
  <1>15. finished' = sent[m].pic - 1 BY <1>14, <1>11, <1>6
  <1>b. loopFiltered' \in BOOLEAN /\ (loopFiltered' <=> EosOf(sent[m].pic - 1))
    <2>1. sent[m].pic - 1 = sent[k].pic BY <1>11, <1>6
    <2>2. EosOf(sent[k].pic) <=> sent[k].kind = "EOS" BY <1>1, <1>7, <1>8, <1>11, EosAtTheBorder
    <2>3. EosOf(sent[m].pic - 1) <=> sent[k].kind = "EOS" BY <2>1, <2>2
    <2>4. loopFiltered \in BOOLEAN BY <1>1, TypesAre
    <2> QED BY <2>3, <2>4, <1>3, <1>5
  <1>16. get' \in Nat /\ get' - buffered' = place[m] + Peeked(m) - 3
    <2>1. Peeked(m) \in {3, 4} BY DEF Peeked
    <2>2. PICK q, w : q = place[m] /\ w = Peeked(m) OBVIOUS
    <2>3. q \in Nat /\ w \in {3, 4} BY <2>1, <2>2, <1>9
    <2>4. get' = q + w - 3 /\ buffered' = 0 BY <2>2, <1>3, <1>10
    <2>5. get' \in Nat /\ get' - buffered' = q + w - 3 BY <2>3, <2>4
    <2> QED BY <2>2, <2>5
  <1>17. TransportType'
    <2>1. finished' \in Nat BY <1>14, <1>6
    <2>2. auPics' \in Seq(Nat) BY <1>13
    <2>3. buffered' \in 0 .. 4 BY <1>3
    <2>4. {open', eof', firstInPic', firstInSeq', loopFiltered', eosInPu'} \subseteq BOOLEAN BY <1>1, <1>3, <1>6, <1>b
    <2>5. sent' \in Seq([kind : Kind, pic : Nat]) /\ file' \in Seq(Nat) /\ log' \in Seq([nal : Seq(Nat), finished : Nat])
      BY <1>1, <1>3 DEF TransportType
    <2> QED BY <2>1, <2>2, <2>3, <2>4, <2>5, <1>16 DEF TransportType
  <1>18. UnitsInOrder' /\ Layout(place)' /\ Fresh(m)' BY <1>1, <1>2, <1>3, <1>11, StreamStays
  <1>19. StartsAt(get - buffered, place, m)'
    <2>1. PICK q : q = place[m] + Peeked(m) - 3 OBVIOUS
    <2>2. StartsAt(q, place, m)' BY <2>1, <1>3, <1>9, StreamStays
    <2>3. get' - buffered' = q BY <2>1, <1>16
    <2> QED BY <2>2, <2>3, Zenon DEF StartsAt
  <1>20. ReadSoFar' BY <1>3, <1>4 DEF ReadSoFar
  <1>21. BeforeSlices(place, m)'
    <2>1. eof' = FALSE /\ firstInPic' = TRUE /\ auPics' = <<>> BY <1>1, <1>3, <1>13
    <2>2. Len(log') + 1 = m BY <1>3, <1>5, <1>7
    <2>3. finished' = sent'[m].pic - 1 BY <1>3, <1>15
    <2>4. loopFiltered' <=> EosOf(sent[m].pic - 1)' BY <1>3, <1>b DEF EosOf
    <2> QED BY <2>1, <2>2, <2>3, <2>4, <1>3, <1>18, <1>19 DEF BeforeSlices
  <1>22. m \in 1 .. Len(sent') /\ LoopState(place, m)' BY <1>3, <1>8, <1>20, <1>21 DEF LoopState
  <1> QED BY <1>1, <1>3, <1>17, <1>18, <1>22 DEF TransportInv

----------------------------------------------------------------------------
(* The NAL unit an iteration reads. *)
Delivers(r, place, k) ==
    /\ r.nal = Bytes(sent[k]) /\ r.nal # <<>> /\ r.nal \in Seq(Nat) /\ KindOf(r.nal) = sent[k].kind
    /\ k = Len(sent) => r.eof = TRUE
    /\ k # Len(sent) => r.eof = FALSE
    /\ r.get \in Nat /\ r.buffered \in 0 .. 4
    /\ k < Len(sent) => r.get = place[k + 1] + Peeked(k + 1) /\ r.buffered = Peeked(k + 1)

LEMMA ReadDelivers ==
    ASSUME file \in Seq(Nat), sent \in Seq(Nals), NEW place, Layout(place),
           NEW k \in 1 .. Len(sent), NEW from, StartsAt(from, place, k),
           NEW r, r = ReadNal(from)
    PROVE  Delivers(r, place, k)
  <1>1. sent[k] \in Nals /\ Len(sent) \in Nat OBVIOUS
  <1>2. /\ Bytes(sent[k]) # <<>> /\ Bytes(sent[k]) \in Seq(Nat) /\ KindOf(Bytes(sent[k])) = sent[k].kind
    BY <1>1, BytesAre
  <1>3. CASE k = Len(sent)
    <2>1. r = [nal |-> Bytes(sent[k]), eof |-> TRUE, get |-> AfterFile, buffered |-> 0] BY <1>3, ReadsNalUnit
    <2>2. r.nal = Bytes(sent[k]) /\ r.eof = TRUE /\ r.get = AfterFile /\ r.buffered = 0 BY <2>1
    <2>3. AfterFile \in Nat BY DEF AfterFile
    <2> QED BY <1>2, <1>3, <2>2, <2>3 DEF Delivers
  <1>4. CASE k < Len(sent)
    <2>1. r = [nal |-> Bytes(sent[k]), eof |-> FALSE,
               get |-> place[k + 1] + Peeked(k + 1), buffered |-> Peeked(k + 1)] BY <1>4, ReadsNalUnit
    <2>2. r.nal = Bytes(sent[k]) /\ r.eof = FALSE /\ r.get = place[k + 1] + Peeked(k + 1) /\ r.buffered = Peeked(k + 1)
      BY <2>1
    <2>3. k + 1 \in 1 .. Len(sent) /\ k # Len(sent) BY <1>1, <1>4
    <2>4. place[k + 1] \in Nat BY <2>3, PlacesAreNumbers
    <2>5. Peeked(k + 1) \in {3, 4} BY DEF Peeked
    <2>6. PICK q, w : q = place[k + 1] /\ w = Peeked(k + 1) OBVIOUS
    <2>7. q + w \in Nat /\ w \in 0 .. 4 BY <2>4, <2>5, <2>6
    <2>8. r.get \in Nat /\ r.buffered \in 0 .. 4 BY <2>2, <2>6, <2>7
    <2> QED BY <1>2, <2>2, <2>3, <2>8 DEF Delivers
  <1>5. k = Len(sent) \/ k < Len(sent) BY <1>1
  <1> QED BY <1>3, <1>4, <1>5, Zenon

(* What the iteration makes of it. *)
LEMMA NalReadDoes ==
    ASSUME NalRead, file \in Seq(Nat), sent \in Seq(Nals), NEW place, Layout(place),
           NEW k \in 1 .. Len(sent), sent[k].kind \in Kind,
           StartsAt(IF firstInPic THEN get - buffered ELSE get - SeekBack, place, k),
           NEW c, c = sent[k].kind, NEW done \in BOOLEAN,
           done => k = Len(sent), k = Len(sent) => done
    PROVE  /\ eof' = done /\ get' \in Nat /\ buffered' \in 0 .. 4
           /\ ~done => get' = place[k + 1] + Peeked(k + 1) /\ buffered' = Peeked(k + 1)
           /\ Bytes(sent[k]) \in Seq(Nat)
           /\ log' = Append(log, [nal |-> Bytes(sent[k]), finished |-> finished])
           /\ c \in Slices => auPics' = Append(auPics, Len(log) + 1)
           /\ c \notin Slices => auPics' = auPics
           /\ LET idle == firstInSeq /\ c \notin Slices
                  ends == done \/ c = "EOS"
              IN  /\ ends /\ ~idle => EndPicture(c = "EOS", done)
                  /\ ~(ends /\ ~idle) => UNCHANGED <<finished, loopFiltered>>
                  /\ firstInSeq' = (idle \/ c = "EOS")
                  /\ firstInPic' = FirstSliceNext(c, done, idle)
           /\ eosInPu' = (eosInPu \/ c = "EOS")
           /\ UNCHANGED streamVars
  <1> DEFINE From == IF firstInPic THEN get - buffered ELSE get - SeekBack
             idle == firstInSeq /\ c \notin Slices
             ends == done \/ c = "EOS"
  <1>1. PICK r \in {ReadNal(From)} :
           LET kind == IF r.nal = <<>> THEN "NONE" ELSE KindOf(r.nal)
               i == firstInSeq /\ kind \notin Slices
               e == r.eof \/ kind = "EOS"
           IN  /\ get' = r.get /\ buffered' = r.buffered /\ eof' = r.eof
               /\ log' = IF kind = "NONE" THEN log
                         ELSE Append(log, [nal |-> r.nal, finished |-> finished])
               /\ auPics' = IF kind \in Slices THEN Append(auPics, Len(log) + 1) ELSE auPics
               /\ IF e /\ ~i THEN EndPicture(kind = "EOS", r.eof)
                  ELSE UNCHANGED <<finished, loopFiltered>>
               /\ firstInSeq' = (i \/ kind = "EOS")
               /\ firstInPic' = FirstSliceNext(kind, r.eof, i)
               /\ eosInPu' = (eosInPu \/ kind = "EOS")
    BY DEF NalRead
  <1>2. UNCHANGED streamVars BY DEF NalRead
  <1>3. PICK from : from = From OBVIOUS
  <1>a. r = ReadNal(from) BY <1>3
  <1>b. StartsAt(from, place, k) BY <1>3, Zenon
  <1> HIDE DEF From, idle, ends
  <1>4. /\ r.nal = Bytes(sent[k]) /\ r.nal # <<>> /\ r.nal \in Seq(Nat) /\ KindOf(r.nal) = sent[k].kind
        /\ k = Len(sent) => r.eof = TRUE
        /\ k # Len(sent) => r.eof = FALSE
        /\ r.get \in Nat /\ r.buffered \in 0 .. 4
        /\ k < Len(sent) => r.get = place[k + 1] + Peeked(k + 1) /\ r.buffered = Peeked(k + 1)
    <2>1. Delivers(r, place, k) BY <1>a, <1>b, ReadDelivers
    <2> QED BY <2>1, Zenon DEF Delivers
  <1>5. (IF r.nal = <<>> THEN "NONE" ELSE KindOf(r.nal)) = c /\ r.eof = done
    <2>1. (IF r.nal = <<>> THEN "NONE" ELSE KindOf(r.nal)) = c BY <1>4
    <2>2. CASE done = TRUE BY <2>1, <2>2, <1>4
    <2>3. CASE done = FALSE BY <2>1, <2>3, <1>4
    <2> QED BY <2>2, <2>3
  <1>6. c # "NONE" BY DEF Kind, Slices
  <1>7. /\ get' = r.get /\ buffered' = r.buffered /\ eof' = done
        /\ log' = Append(log, [nal |-> r.nal, finished |-> finished])
        /\ auPics' = IF c \in Slices THEN Append(auPics, Len(log) + 1) ELSE auPics
        /\ IF ends /\ ~idle THEN EndPicture(c = "EOS", done) ELSE UNCHANGED <<finished, loopFiltered>>
        /\ firstInSeq' = (idle \/ c = "EOS")
        /\ firstInPic' = FirstSliceNext(c, done, idle)
        /\ eosInPu' = (eosInPu \/ c = "EOS")
    <2> USE DEF idle, ends
    <2> DEFINE kind == IF r.nal = <<>> THEN "NONE" ELSE KindOf(r.nal)
               i == firstInSeq /\ kind \notin Slices
               e == r.eof \/ kind = "EOS"
    <2>1. /\ get' = r.get /\ buffered' = r.buffered /\ eof' = r.eof
          /\ log' = IF kind = "NONE" THEN log
                    ELSE Append(log, [nal |-> r.nal, finished |-> finished])
          /\ auPics' = IF kind \in Slices THEN Append(auPics, Len(log) + 1) ELSE auPics
          /\ IF e /\ ~i THEN EndPicture(kind = "EOS", r.eof) ELSE UNCHANGED <<finished, loopFiltered>>
          /\ firstInSeq' = (i \/ kind = "EOS")
          /\ firstInPic' = FirstSliceNext(kind, r.eof, i)
          /\ eosInPu' = (eosInPu \/ kind = "EOS")
      BY <1>1
    <2>2. kind = c /\ r.eof = done BY <1>5
    <2> HIDE DEF kind
    <2>3. log' = Append(log, [nal |-> r.nal, finished |-> finished]) BY <2>1, <2>2, <1>6
    <2> QED BY <2>1, <2>2, <2>3, Zenon
  <1>9. ~done => k < Len(sent)
    <2>1. Len(sent) \in Nat OBVIOUS
    <2> QED BY <2>1
  <1>10. log' = Append(log, [nal |-> Bytes(sent[k]), finished |-> finished]) BY <1>4, <1>7, Zenon
  <1> QED BY <1>2, <1>4, <1>7, <1>9, <1>10 DEF idle, ends

----------------------------------------------------------------------------
(* From either state of the loop an iteration reads the next NAL unit; k   *)
(* is its number, and the picture ends counted are those before it.        *)
LEMMA ReadsTheNext ==
    ASSUME TransportInv, NalRead
    PROVE  \E place, k :
              /\ k \in 1 .. Len(sent) /\ Layout(place) /\ Len(log) + 1 = k
              /\ StartsAt(IF firstInPic THEN get - buffered ELSE get - SeekBack, place, k)
              /\ ReadSoFar /\ finished = sent[k].pic - 1
              /\ (loopFiltered <=> EosOf(sent[k].pic - 1)) /\ eosInPu = FALSE
              /\ \/ firstInPic = TRUE /\ auPics = <<>> /\ Fresh(k)
                 \/ /\ firstInPic = FALSE /\ firstInSeq = FALSE /\ Sliced(k)
                    /\ k - 1 \in 1 .. Len(sent) /\ sent[k - 1].pic = sent[k].pic /\ SlicesAreOf(k - 1)
  <1>1. TransportType /\ UnitsInOrder /\ ~open /\ ~eof /\ ~IsNewPicture BY DEF TransportInv, NalRead
  <1>2. PICK place : Layout(place) /\ \E k \in 1 .. Len(sent) : LoopState(place, k) BY <1>1 DEF TransportInv
  <1>3. PICK j \in 1 .. Len(sent) : LoopState(place, j) BY <1>2
  <1>4. /\ Len(sent) \in Nat /\ j \in Nat /\ sent[j].pic \in Nat
        /\ file \in Seq(Nat) /\ sent \in Seq(Nals) /\ firstInSeq \in BOOLEAN
    BY <1>1, UnitsAre, TypesAre DEF UnitsInOrder
  <1>5. ~AtTheEnd(j) BY <1>1 DEF AtTheEnd
  <1>6. CASE BeforeSlices(place, j)
    <2>1. /\ firstInPic = TRUE /\ auPics = <<>> /\ Len(log) + 1 = j /\ Fresh(j)
          /\ StartsAt(get - buffered, place, j) /\ finished = sent[j].pic - 1 /\ ReadSoFar
          /\ (loopFiltered <=> EosOf(sent[j].pic - 1)) /\ eosInPu = FALSE
      BY <1>3, <1>6 DEF BeforeSlices, LoopState
    <2>2. (IF firstInPic THEN get - buffered ELSE get - SeekBack) = get - buffered BY <2>1
    <2>3. StartsAt(IF firstInPic THEN get - buffered ELSE get - SeekBack, place, j) BY <2>1, <2>2, Zenon
    <2> QED BY <1>2, <2>1, <2>3
  <1>7. CASE AmongSlices(place, j)
    <2>1. /\ firstInPic = FALSE /\ Len(log) = j /\ j < Len(sent) /\ Sliced(j)
          /\ get = place[j + 1] + Peeked(j + 1) /\ buffered = Peeked(j + 1)
          /\ firstInSeq = (sent[j].kind = "EOS")
          /\ finished = IF firstInSeq THEN sent[j].pic ELSE sent[j].pic - 1
          /\ loopFiltered <=> (sent[j].kind = "EOS" \/ EosOf(sent[j].pic - 1))
          /\ eosInPu = (sent[j].kind = "EOS")
          /\ SlicesAreOf(j) /\ ReadSoFar
      BY <1>3, <1>7 DEF AmongSlices, LoopState
    <2>2. PICK k : k = j + 1 OBVIOUS
    <2>3. k \in 1 .. Len(sent) /\ j \in 1 .. Len(sent) - 1 /\ k - 1 = j BY <1>4, <2>1, <2>2
    <2>4. /\ place[k] \in Nat /\ place[k] + Peeked(k) - Peeked(k) = place[k]
          /\ StartsAt(place[k], place, k) /\ StartsAt(place[k] + Peeked(k) - 3, place, k)
      BY <1>2, <1>4, <2>3, PlacesAreNumbers
    <2>5. get - buffered = place[k] /\ get - SeekBack = place[k] + Peeked(k) - 3
      <3>1. PICK q, w : q = place[k] /\ w = Peeked(k) OBVIOUS
      <3>2. q \in Nat /\ w \in {3, 4} BY <3>1, <2>4 DEF Peeked
      <3>3. get = q + w /\ buffered = w BY <3>1, <2>1, <2>2
      <3>4. get - buffered = q /\ get - SeekBack = q + w - 3 BY <3>2, <3>3 DEF SeekBack
      <3> QED BY <3>1, <3>4
    <2>6. sent[k].pic = sent[j].pic /\ sent[j].kind # "EOS" /\ Sliced(k)
      <3>1. ~(sent[k].kind \in Opening /\ Fresh(k))
        <4>1. SUFFICES ASSUME sent[k].kind \in Opening, Fresh(k) PROVE FALSE OBVIOUS
        <4>2. StartsAt(get - buffered, place, k) BY <2>4, <2>5
        <4>3. LookAhead(get - buffered, Kind \ (StartsPicture \cup StartsNoPicture)) \in StartsPicture
          BY <4>1, <4>2, <1>1, <1>2, <1>4, <2>3, SeesThePicture
        <4> QED BY <4>3, <1>1, <2>1 DEF IsNewPicture
      <3>2. \/ sent[k].pic = sent[j].pic + 1 /\ sent[k].kind \in Opening /\ Fresh(k)
            \/ sent[k].pic = sent[j].pic /\ sent[j].kind # "EOS" /\ Sliced(k)
        BY <1>1, <2>1, <2>2, <2>3, AfterASlice
      <3> QED BY <3>1, <3>2
    <2>7. firstInSeq = FALSE BY <2>1, <2>6, <1>4
    <2>8. finished = sent[k].pic - 1 BY <2>1, <2>6, <2>7
    <2>9. StartsAt(IF firstInPic THEN get - buffered ELSE get - SeekBack, place, k)
      <3>1. (IF firstInPic THEN get - buffered ELSE get - SeekBack) = place[k] + Peeked(k) - 3 BY <2>1, <2>5
      <3> QED BY <3>1, <2>4, Zenon
    <2>10. Len(log) + 1 = k /\ SlicesAreOf(k - 1) /\ sent[k - 1].pic = sent[k].pic /\ k - 1 \in 1 .. Len(sent)
      BY <2>1, <2>2, <2>3, <2>6
    <2>11. (loopFiltered <=> EosOf(sent[k].pic - 1)) /\ eosInPu = FALSE
      <3>1. eosInPu = FALSE BY <2>1, <2>6
      <3>2. loopFiltered <=> EosOf(sent[j].pic - 1) BY <2>1, <2>6
      <3>3. sent[k].pic - 1 = sent[j].pic - 1 BY <2>6
      <3> QED BY <3>1, <3>2, <3>3
    <2> QED BY <1>2, <2>1, <2>3, <2>6, <2>7, <2>8, <2>9, <2>10, <2>11
  <1> QED BY <1>3, <1>5, <1>6, <1>7 DEF LoopState

(* It leaves the loop before the slices, among them, or at the end. *)
LEMMA NalReadKeepsInv ==
    ASSUME TransportInv, NalRead
    PROVE  TransportInv'
  <1>1. TransportType /\ UnitsInOrder /\ ~open BY DEF TransportInv, NalRead
  <1>2. PICK place, k :
            /\ k \in 1 .. Len(sent) /\ Layout(place) /\ Len(log) + 1 = k
            /\ StartsAt(IF firstInPic THEN get - buffered ELSE get - SeekBack, place, k)
            /\ ReadSoFar /\ finished = sent[k].pic - 1
            /\ (loopFiltered <=> EosOf(sent[k].pic - 1)) /\ eosInPu = FALSE
            /\ \/ firstInPic = TRUE /\ auPics = <<>> /\ Fresh(k)
               \/ /\ firstInPic = FALSE /\ firstInSeq = FALSE /\ Sliced(k)
                  /\ k - 1 \in 1 .. Len(sent) /\ sent[k - 1].pic = sent[k].pic /\ SlicesAreOf(k - 1)
    BY ReadsTheNext
  <1>3. /\ Len(sent) \in Nat /\ k \in Nat /\ sent[k] \in Nals /\ sent[k].kind \in Kind /\ sent[k].pic \in Nat
        /\ file \in Seq(Nat) /\ sent \in Seq(Nals)
    BY <1>1, <1>2, UnitsAre, TypesAre DEF UnitsInOrder
  <1>4. /\ firstInPic \in BOOLEAN /\ firstInSeq \in BOOLEAN /\ loopFiltered \in BOOLEAN /\ finished \in Nat
        /\ log \in Seq(LogEntry) /\ auPics \in Seq(Nat) /\ Len(log) \in Nat /\ Len(auPics) \in Nat
    BY <1>1, TypesAre
  <1>5. PICK c : c = sent[k].kind OBVIOUS
  <1>6. PICK done \in BOOLEAN : (done => k = Len(sent)) /\ (k = Len(sent) => done)
    <2>1. CASE k = Len(sent) BY <2>1
    <2>2. CASE k # Len(sent) BY <2>2
    <2> QED BY <2>1, <2>2
  <1>7. /\ eof' = done /\ get' \in Nat /\ buffered' \in 0 .. 4
        /\ ~done => get' = place[k + 1] + Peeked(k + 1) /\ buffered' = Peeked(k + 1)
        /\ Bytes(sent[k]) \in Seq(Nat)
        /\ log' = Append(log, [nal |-> Bytes(sent[k]), finished |-> finished])
        /\ c \in Slices => auPics' = Append(auPics, Len(log) + 1)
        /\ c \notin Slices => auPics' = auPics
        /\ LET idle == firstInSeq /\ c \notin Slices
               ends == done \/ c = "EOS"
           IN  /\ ends /\ ~idle => EndPicture(c = "EOS", done)
               /\ ~(ends /\ ~idle) => UNCHANGED <<finished, loopFiltered>>
               /\ firstInSeq' = (idle \/ c = "EOS")
               /\ firstInPic' = FirstSliceNext(c, done, idle)
        /\ eosInPu' = (eosInPu \/ c = "EOS")
        /\ UNCHANGED streamVars
    BY <1>2, <1>3, <1>5, <1>6, NalReadDoes
  <1>8. sent' = sent /\ file' = file /\ open' = open BY <1>7 DEF streamVars
  <1>9. UnitsInOrder' /\ Layout(place)' BY <1>1, <1>2, <1>8, StreamStays
  <1>10. PICK e : e = [nal |-> Bytes(sent[k]), finished |-> finished] OBVIOUS
  <1>11. e \in LogEntry /\ e.nal = Bytes(sent[k]) /\ e.finished = finished BY <1>4, <1>7, <1>10 DEF LogEntry
  <1>12. /\ log' = Append(log, e) /\ log' \in Seq(LogEntry) /\ Len(log') = k
         /\ log'[k] = e /\ \A i \in 1 .. k - 1 : log'[i] = log[i]
    <2>1. log' = Append(log, e) BY <1>7, <1>10, Zenon
    <2>2. PICK n : n = Len(log) OBVIOUS
    <2>3. n \in Nat /\ n + 1 = k /\ k - 1 = n BY <1>2, <1>3, <1>4, <2>2
    <2>4. log' \in Seq(LogEntry) /\ Len(log') = n + 1 /\ log'[n + 1] = e /\ \A i \in 1 .. n : log'[i] = log[i]
      BY <1>4, <1>11, <2>1, <2>2
    <2> QED BY <2>1, <2>3, <2>4
  <1>13. ReadSoFar'
    <2>1. ASSUME NEW i \in 1 .. k
          PROVE  i <= Len(sent) /\ log'[i].nal = Bytes(sent[i]) /\ log'[i].finished = sent[i].pic - 1
      <3>1. CASE i = k
        <4>1. log'[i].nal = Bytes(sent[i]) /\ log'[i].finished = sent[i].pic - 1 BY <3>1, <1>2, <1>11, <1>12
        <4>2. i <= Len(sent) BY <3>1, <1>2, <1>3
        <4> QED BY <4>1, <4>2
      <3>2. CASE i # k
        <4>1. i \in 1 .. k - 1 /\ k - 1 = Len(log) BY <3>2, <1>2, <1>3, <1>4
        <4>2. log'[i] = log[i] BY <4>1, <1>12
        <4>3. i <= Len(sent) /\ log[i].nal = Bytes(sent[i]) /\ log[i].finished = sent[i].pic - 1
          BY <4>1, <1>2 DEF ReadSoFar
        <4> QED BY <4>2, <4>3
      <3> QED BY <3>1, <3>2
    <2>2. \A i \in 1 .. Len(log') : i <= Len(sent') /\ log'[i].nal = Bytes(sent'[i]) /\ log'[i].finished = sent'[i].pic - 1
      BY <2>1, <1>8, <1>12
    <2> QED BY <2>2 DEF ReadSoFar
  <1>14. auPics' \in Seq(Nat)
    <2>1. CASE c \in Slices
      <3>1. auPics' = Append(auPics, Len(log) + 1) /\ Len(log) + 1 \in Nat BY <2>1, <1>4, <1>7
      <3> QED BY <3>1, <1>4
    <2>2. CASE c \notin Slices BY <2>2, <1>4, <1>7
    <2> QED BY <2>1, <2>2
  <1>15. c = "EOS" => c \notin Slices BY DEF Slices
  <1>16. /\ firstInPic' \in BOOLEAN /\ firstInSeq' \in BOOLEAN /\ loopFiltered' \in BOOLEAN
         /\ eosInPu' \in BOOLEAN /\ finished' \in Nat
    <2>1. firstInSeq' \in BOOLEAN /\ eosInPu' \in BOOLEAN BY <1>7
    <2>2. firstInPic' \in BOOLEAN BY <1>7 DEF FirstSliceNext
    <2>3. CASE (done \/ c = "EOS") /\ ~(firstInSeq /\ c \notin Slices)
      <3>1. EndPicture(c = "EOS", done) BY <2>3, <1>7
      <3>2. finished' \in Nat /\ loopFiltered' \in BOOLEAN BY <3>1, <1>4 DEF EndPicture
      <3> QED BY <2>1, <2>2, <3>2
    <2>4. CASE ~((done \/ c = "EOS") /\ ~(firstInSeq /\ c \notin Slices))
      <3>1. finished' = finished /\ loopFiltered' = loopFiltered BY <2>4, <1>7
      <3> QED BY <2>1, <2>2, <3>1, <1>4
    <2> QED BY <2>3, <2>4
  <1>17. TransportType'
    <2>1. {open', eof', firstInPic', firstInSeq', loopFiltered', eosInPu'} \subseteq BOOLEAN
      <3>1. open' \in BOOLEAN /\ eof' \in BOOLEAN BY <1>1, <1>6, <1>7, <1>8, TypesAre
      <3> QED BY <3>1, <1>16
    <2>2. sent' \in Seq([kind : Kind, pic : Nat]) /\ file' \in Seq(Nat) BY <1>3, <1>8 DEF Nals
    <2>3. log' \in Seq([nal : Seq(Nat), finished : Nat]) BY <1>12 DEF LogEntry
    <2> QED BY <1>7, <1>14, <1>16, <2>1, <2>2, <2>3 DEF TransportType
  <1>18. \E m \in 1 .. Len(sent') : LoopState(place, m)'
    <2>1. CASE firstInPic = TRUE /\ Fresh(k) /\ auPics = <<>> /\ c \notin Slices
      <3>1. PICK m : m = k + 1 OBVIOUS
      <3>2. /\ c \in {"AUD", "PS", "PREFIX", "PH"} /\ m \in 1 .. Len(sent)
            /\ sent[m].pic = sent[k].pic /\ Fresh(m)
        BY <1>1, <1>2, <1>5, <2>1, <3>1, BeforeTheSlices
      <3>3. c # "EOS" /\ k # Len(sent) /\ done = FALSE BY <1>3, <1>6, <3>1, <3>2
      <3>4. /\ eof' = FALSE /\ auPics' = <<>> /\ finished' = finished /\ loopFiltered' = loopFiltered
            /\ get' = place[m] + Peeked(m) /\ buffered' = Peeked(m) /\ eosInPu' = FALSE
        BY <1>2, <1>7, <2>1, <3>1, <3>3
      <3>9. firstInPic' = TRUE BY <1>7, <2>1, <3>3 DEF FirstSliceNext
      <3>10. loopFiltered' <=> EosOf(sent[m].pic - 1)' BY <1>2, <1>8, <3>2, <3>4 DEF EosOf
      <3>5. StartsAt(get - buffered, place, m)'
        <4>1. StartsAt(place[m], place, m) BY <1>2, <1>3, <3>2, PlacesAreNumbers
        <4>2. PICK q, w : q = place[m] /\ w = Peeked(m) OBVIOUS
        <4>3. StartsAt(q, place, m)' BY <4>1, <4>2, <1>8, StreamStays
        <4>4. q \in Nat /\ w \in {3, 4} BY <4>2, <1>2, <1>3, <3>2, PlacesAreNumbers DEF Peeked
        <4>5. get' = q + w /\ buffered' = w BY <4>2, <3>4
        <4>6. get' - buffered' = q BY <4>4, <4>5
        <4> QED BY <4>3, <4>6, Zenon DEF StartsAt
      <3>6. Fresh(m)' BY <3>2, <1>8, StreamStays
      <3>7. Len(log') + 1 = m /\ finished' = sent'[m].pic - 1 BY <1>2, <1>8, <1>12, <3>1, <3>2, <3>4
      <3>8. BeforeSlices(place, m)' BY <3>4, <3>5, <3>6, <3>7, <3>9, <3>10 DEF BeforeSlices
      <3> QED BY <3>1, <3>2, <3>8, <1>8, <1>13 DEF LoopState
    <2>2. CASE (c \in Slices /\ firstInPic = TRUE /\ auPics = <<>>)
               \/ (firstInSeq = FALSE /\ Sliced(k) /\ k - 1 \in 1 .. Len(sent)
                      /\ sent[k - 1].pic = sent[k].pic /\ SlicesAreOf(k - 1))
      <3>1. Sliced(k)
        <4>1. CASE c \in Slices
          <5>1. k \in 1 .. k BY <1>2, <1>3
          <5> QED BY <4>1, <5>1, <1>5 DEF Sliced
        <4> QED BY <4>1, <2>2
      <3>2. SlicesAreOf(k)'
        <4>1. ASSUME NEW m \in 1 .. Len(auPics) PROVE auPics[m] \in 1 .. k /\ sent[auPics[m]].pic = sent[k].pic
          <5>1. CASE auPics = <<>> BY <5>1, <4>1
          <5>2. CASE k - 1 \in 1 .. Len(sent) /\ sent[k - 1].pic = sent[k].pic /\ SlicesAreOf(k - 1)
            <6>1. auPics[m] \in 1 .. k - 1 /\ sent[auPics[m]].pic = sent[k].pic BY <5>2, <4>1 DEF SlicesAreOf
            <6> QED BY <6>1, <1>3
          <5> QED BY <5>1, <5>2, <2>2
        <4>2. CASE c \in Slices
          <5>1. PICK n : n = Len(auPics) OBVIOUS
          <5>2. n \in Nat /\ auPics' = Append(auPics, k) BY <5>1, <4>2, <1>2, <1>4, <1>7
          <5>3. /\ Len(auPics') = n + 1 /\ auPics'[n + 1] = k /\ \A m \in 1 .. n : auPics'[m] = auPics[m]
                /\ auPics' # <<>>
            BY <5>1, <5>2, <1>3, <1>4, SMTT(30)
          <5>4. ASSUME NEW m \in 1 .. n + 1 PROVE auPics'[m] \in 1 .. k /\ sent'[auPics'[m]].pic = sent'[k].pic
            <6>1. CASE m = n + 1 BY <6>1, <5>3, <1>2, <1>3, <1>8
            <6>2. CASE m \in 1 .. n BY <6>2, <5>1, <5>3, <4>1, <1>8
            <6>3. m = n + 1 \/ m \in 1 .. n
              <7>1. n \in Nat BY <5>2
              <7> QED BY <7>1
            <6> QED BY <6>1, <6>2, <6>3, Zenon
          <5> QED BY <5>3, <5>4 DEF SlicesAreOf
        <4>3. CASE c \notin Slices
          <5>1. auPics' = auPics /\ auPics # <<>> BY <4>3, <2>2, <1>7 DEF SlicesAreOf
          <5>2. \A m \in 1 .. Len(auPics') : auPics'[m] \in 1 .. k /\ sent'[auPics'[m]].pic = sent'[k].pic
            BY <5>1, <4>1, <1>8
          <5> QED BY <5>1, <5>2 DEF SlicesAreOf
        <4> QED BY <4>2, <4>3
      <3>3. /\ finished' = IF (done \/ c = "EOS") /\ ~(loopFiltered /\ done) THEN finished + 1 ELSE finished
            /\ firstInSeq' = (c = "EOS") /\ eosInPu' = (c = "EOS")
            /\ loopFiltered' = IF done \/ c = "EOS" THEN c = "EOS" ELSE loopFiltered
        <4>1. ~(firstInSeq /\ c \notin Slices) BY <2>2
        <4>2. firstInSeq' = (c = "EOS") /\ eosInPu' = (c = "EOS") BY <4>1, <1>2, <1>7
        <4>3. CASE done \/ c = "EOS"
          <5>1. EndPicture(c = "EOS", done) BY <4>1, <4>3, <1>7
          <5> QED BY <4>2, <4>3, <5>1 DEF EndPicture
        <4>4. CASE ~(done \/ c = "EOS")
          <5>1. finished' = finished /\ loopFiltered' = loopFiltered BY <4>4, <1>7
          <5> QED BY <4>2, <4>4, <5>1
        <4> QED BY <4>3, <4>4
      <3>4. finished + 1 = sent[k].pic BY <1>2, <1>3
      <3>5. CASE done = TRUE
        <4>1. eof' = TRUE /\ Len(log') = k /\ k = Len(sent') BY <3>5, <1>6, <1>7, <1>8, <1>12
        <4>2. finished' = IF EosOf(sent[k].pic - 1) THEN sent[k].pic - 1 ELSE sent[k].pic
          BY <3>3, <3>4, <3>5, <1>2
        <4>4. (finished = IF EosOf(sent[k].pic - 1) THEN sent[k].pic - 1 ELSE sent[k].pic)'
          BY <4>2, <1>8 DEF EosOf
        <4>3. AtTheEnd(k)' BY <4>1, <4>4, <3>2 DEF AtTheEnd
        <4> QED BY <4>3, <1>2, <1>8, <1>13 DEF LoopState
      <3>6. CASE done = FALSE
        <4>1. k < Len(sent) BY <3>6, <1>2, <1>3, <1>6
        <4>2. eof' = FALSE /\ Len(log') = k /\ k < Len(sent') BY <4>1, <3>6, <1>7, <1>8, <1>12
        <4>3. firstInPic' = FALSE
          <5>1. CASE c = "EOS" BY <5>1, <1>7 DEF FirstSliceNext
          <5>2. CASE c # "EOS" /\ c \in Slices BY <5>2, <3>6, <1>7 DEF FirstSliceNext
          <5>3. CASE c # "EOS" /\ c \notin Slices
            <6>1. firstInPic = FALSE BY <5>3, <2>2, <1>2 DEF SlicesAreOf
            <6> QED BY <6>1, <5>3, <3>6, <1>7 DEF FirstSliceNext
          <5> QED BY <5>1, <5>2, <5>3
        <4>4. get' = place[k + 1] + Peeked(k + 1)' /\ buffered' = Peeked(k + 1)'
          <5>1. PICK m : m = k + 1 OBVIOUS
          <5>2. get' = place[m] + Peeked(m) /\ buffered' = Peeked(m) BY <5>1, <3>6, <1>7
          <5>3. Peeked(m)' = Peeked(m) BY <1>8, StreamStays
          <5>4. get' = place[m] + Peeked(m)' /\ buffered' = Peeked(m)' BY <5>2, <5>3
          <5> QED BY <5>1, <5>4
        <4>5. Sliced(k)' BY <3>1, <1>8, StreamStays
        <4>6. firstInSeq' = (sent'[k].kind = "EOS") BY <3>3, <1>5, <1>8
        <4>7. finished' = IF firstInSeq' THEN sent'[k].pic ELSE sent'[k].pic - 1
          <5>1. CASE c = "EOS" BY <5>1, <3>3, <3>4, <3>6, <1>8
          <5>2. CASE c # "EOS" BY <5>2, <3>3, <3>6, <1>2, <1>8
          <5> QED BY <5>1, <5>2
        <4>9. eosInPu' = (sent'[k].kind = "EOS") BY <3>3, <1>5, <1>8
        <4>10. (loopFiltered <=> (sent[k].kind = "EOS" \/ EosOf(sent[k].pic - 1)))'
          <5>1. loopFiltered' <=> (c = "EOS" \/ EosOf(sent[k].pic - 1)) BY <3>3, <3>6, <1>2
          <5> QED BY <5>1, <1>5, <1>8 DEF EosOf
        <4>8. AmongSlices(place, k)' BY <4>2, <4>3, <4>4, <4>5, <4>6, <4>7, <4>9, <4>10, <3>2 DEF AmongSlices
        <4> QED BY <4>8, <1>2, <1>8, <1>13 DEF LoopState
      <3> QED BY <3>5, <3>6
    <2> QED BY <1>2, <2>1, <2>2
  <1> QED BY <1>1, <1>8, <1>9, <1>17, <1>18 DEF TransportInv

----------------------------------------------------------------------------
(* The loop may stay where it is. *)
LEMMA TransportStutters ==
    ASSUME TransportInv, UNCHANGED transportVars
    PROVE  TransportInv'
  <1>1. /\ sent' = sent /\ file' = file /\ open' = open
        /\ UNCHANGED <<get, buffered, eof, firstInPic, firstInSeq, loopFiltered, eosInPu, finished, log, auPics>>
    BY DEF transportVars, streamVars, byteStream, loopVars
  <1>2. TransportType' BY <1>1 DEF TransportInv, TransportType
  <1>3. UnitsInOrder' BY <1>1, StreamStays DEF TransportInv
  <1>4. open' => NotStarted' BY <1>1 DEF TransportInv, NotStarted
  <1>5. PICK place : Layout(place) /\ (~open => \E k \in 1 .. Len(sent) : LoopState(place, k)) BY DEF TransportInv
  <1>6. Layout(place)' BY <1>1, <1>5, StreamStays
  <1>7. ASSUME NEW k, LoopState(place, k) PROVE LoopState(place, k)'
    <2>1. ReadSoFar' BY <1>1, <1>7 DEF LoopState, ReadSoFar
    <2>2. /\ Fresh(k) => Fresh(k)'
          /\ Sliced(k) => Sliced(k)'
      BY <1>1, StreamStays
    <2>3. SlicesAreOf(k) => SlicesAreOf(k)' BY <1>1 DEF SlicesAreOf
    <2>7. EosOf(sent[k].pic - 1)' <=> EosOf(sent[k].pic - 1) BY <1>1 DEF EosOf
    <2>4. BeforeSlices(place, k) => BeforeSlices(place, k)'
      <3>1. PICK q : q = get - buffered OBVIOUS
      <3>2. StartsAt(q, place, k) => StartsAt(q, place, k)' BY <1>1, StreamStays
      <3>3. get' - buffered' = q BY <1>1, <3>1
      <3>4. StartsAt(q, place, k)' => StartsAt(get - buffered, place, k)' BY <3>3, Zenon DEF StartsAt
      <3>5. StartsAt(get - buffered, place, k) => StartsAt(q, place, k) BY <3>1, Zenon
      <3> QED BY <1>1, <2>2, <2>7, <3>2, <3>4, <3>5 DEF BeforeSlices
    <2>5. AmongSlices(place, k) => AmongSlices(place, k)'
      <3>1. PICK m : m = k + 1 OBVIOUS
      <3>2. Peeked(m)' = Peeked(m) BY <1>1, StreamStays
      <3>3. Peeked(k + 1)' = Peeked(k + 1) BY <3>1, <3>2
      <3> QED BY <1>1, <2>2, <2>3, <2>7, <3>3 DEF AmongSlices
    <2>6. AtTheEnd(k) => AtTheEnd(k)' BY <1>1, <2>3, <2>7 DEF AtTheEnd
    <2> QED BY <1>7, <2>1, <2>4, <2>5, <2>6 DEF LoopState
  <1> QED BY <1>1, <1>2, <1>3, <1>4, <1>5, <1>6, <1>7 DEF TransportInv

(* So every step keeps the invariant. *)
LEMMA TransportKeepsInv ==
    ASSUME TransportInv, [TransportNext]_transportVars
    PROVE  TransportInv'
  <1>1. CASE \E kind \in Kind : Write(kind) BY <1>1, WritesKeepInv
  <1>2. CASE Close BY <1>2, CloseKeepsInv
  <1>3. CASE NewPictureFound BY <1>3, NewPictureKeepsInv
  <1>4. CASE NalRead BY <1>4, NalReadKeepsInv
  <1>5. CASE UNCHANGED transportVars BY <1>5, TransportStutters
  <1> QED BY <1>1, <1>2, <1>3, <1>4, <1>5 DEF TransportNext

(* The stream of every writing is read NAL unit by NAL unit, whatever the  *)
(* look-aheads have read before, and pictures end where they end, except   *)
(* a last one alone behind an EOS NAL unit.                                *)
THEOREM NalUnitsReadInOrder == TransportSpec => []ReadInOrder
  <1>1. TransportInv => ReadInOrder
    <2> SUFFICES ASSUME TransportInv PROVE ReadInOrder OBVIOUS
    <2>1. TransportType /\ UnitsInOrder /\ (open => NotStarted) BY DEF TransportInv
    <2>2. open \in BOOLEAN /\ log \in Seq(LogEntry) /\ sent \in Seq(Nals) BY <2>1, TypesAre DEF UnitsInOrder
    <2>3. DOMAIN log = 1 .. Len(log) /\ DOMAIN sent = 1 .. Len(sent) /\ Len(log) \in Nat /\ Len(sent) \in Nat BY <2>2
    <2>4. CASE open
      <3>1. log = <<>> /\ eof = FALSE BY <2>1, <2>4 DEF NotStarted
      <3> QED BY <3>1 DEF ReadInOrder
    <2>5. CASE ~open
      <3>1. PICK place, k : LoopState(place, k) BY <2>5 DEF TransportInv
      <3>2. ASSUME NEW i \in DOMAIN log
            PROVE  i \in DOMAIN sent /\ log[i].nal = Bytes(sent[i]) /\ log[i].finished = sent[i].pic - 1
        <4>1. i \in 1 .. Len(log) BY <2>3
        <4>2. i <= Len(sent) /\ log[i].nal = Bytes(sent[i]) /\ log[i].finished = sent[i].pic - 1
          BY <3>1, <4>1 DEF LoopState, ReadSoFar
        <4> QED BY <4>1, <4>2, <2>3
      <3>3. eof => /\ Len(log) = Len(sent)
                   /\ finished = IF AloneBehindEos THEN Last.pic - 1 ELSE Last.pic
        <4> SUFFICES ASSUME eof
                     PROVE  /\ Len(log) = Len(sent)
                            /\ finished = IF AloneBehindEos THEN Last.pic - 1 ELSE Last.pic
          OBVIOUS
        <4>1. AtTheEnd(k) BY <3>1 DEF LoopState, BeforeSlices, AmongSlices
        <4>2. Last.pic = sent[k].pic BY <4>1 DEF AtTheEnd, Last
        <4>3. AloneBehindEos <=> EosOf(sent[k].pic - 1) BY <4>2, <2>3 DEF AloneBehindEos, EosOf
        <4> QED BY <4>1, <4>2, <4>3 DEF AtTheEnd
      <3> QED BY <3>2, <3>3 DEF ReadInOrder
    <2> QED BY <2>4, <2>5
  <1> QED BY <1>1, TransportStarts, TransportKeepsInv, PTL DEF TransportSpec

(* The slices of an access unit whose TemporalIds the decoder compares are *)
(* of one picture, and there is one of them whenever it compares.          *)
THEOREM AccessUnitsAreOne == TransportSpec => []AccessUnitIsOne
  <1>1. TransportInv => AccessUnitIsOne
    <2> SUFFICES ASSUME TransportInv PROVE AccessUnitIsOne OBVIOUS
    <2>1. TransportType /\ (open => NotStarted) BY DEF TransportInv
    <2>2. open \in BOOLEAN /\ auPics \in Seq(Nat) /\ firstInPic \in BOOLEAN BY <2>1, TypesAre
    <2>3. DOMAIN auPics = 1 .. Len(auPics) BY <2>2
    <2>4. CASE open
      <3>1. auPics = <<>> BY <2>1, <2>4 DEF NotStarted
      <3> QED BY <3>1, <2>4 DEF AccessUnitIsOne
    <2>5. CASE ~open
      <3>1. PICK place, k : LoopState(place, k) BY <2>5 DEF TransportInv
      <3>2. auPics = <<>> \/ SlicesAreOf(k) BY <3>1 DEF LoopState, BeforeSlices, AmongSlices, AtTheEnd
      <3>3. \A i, m \in DOMAIN auPics : sent[auPics[i]].pic = sent[auPics[m]].pic
        BY <3>2, <2>3 DEF SlicesAreOf
      <3>4. ~eof /\ IsNewPicture => auPics # <<>>
        <4>1. IsNewPicture => ~firstInPic BY DEF IsNewPicture
        <4> QED BY <3>1, <4>1 DEF LoopState, BeforeSlices, AmongSlices, AtTheEnd, SlicesAreOf
      <3> QED BY <3>3, <3>4 DEF AccessUnitIsOne
    <2> QED BY <2>4, <2>5
  <1> QED BY <1>1, TransportStarts, TransportKeepsInv, PTL DEF TransportSpec

(* An EOS NAL unit that the loop remembers is the last one of its picture  *)
(* unit: the look-ahead is made behind it and sees the next picture, so no *)
(* conforming stream is rejected for NAL units behind it.                  *)
THEOREM EosIsForgotten == TransportSpec => []EosEndsUnit
  <1>1. TransportInv => EosEndsUnit
    <2> SUFFICES ASSUME TransportInv, ~open, ~eof, eosInPu PROVE IsNewPicture BY DEF EosEndsUnit
    <2>1. TransportType /\ UnitsInOrder BY DEF TransportInv
    <2>2. PICK place : Layout(place) /\ \E k \in 1 .. Len(sent) : LoopState(place, k) BY DEF TransportInv
    <2>3. PICK k \in 1 .. Len(sent) : LoopState(place, k) BY <2>2
    <2>4. AmongSlices(place, k) BY <2>3 DEF LoopState, BeforeSlices, AtTheEnd
    <2>5. /\ firstInPic = FALSE /\ k < Len(sent) /\ Sliced(k) /\ sent[k].kind = "EOS"
          /\ get = place[k + 1] + Peeked(k + 1) /\ buffered = Peeked(k + 1)
      BY <2>4 DEF AmongSlices
    <2>6. file \in Seq(Nat) /\ sent \in Seq(Nals) /\ Len(sent) \in Nat BY <2>1, TypesAre DEF UnitsInOrder
    <2>7. PICK m : m = k + 1 OBVIOUS
    <2>8. m \in 1 .. Len(sent) /\ k \in 1 .. Len(sent) - 1 BY <2>5, <2>6, <2>7
    <2>9. sent[m].kind \in Opening /\ Fresh(m) BY <2>1, <2>5, <2>7, <2>8, AfterASlice
    <2>10. /\ place[m] \in Nat /\ place[m] + Peeked(m) - Peeked(m) = place[m]
           /\ StartsAt(place[m], place, m)
      BY <2>2, <2>6, <2>8, PlacesAreNumbers
    <2>11. get - buffered = place[m]
      <3>1. PICK q, w : q = place[m] /\ w = Peeked(m) OBVIOUS
      <3>2. q \in Nat /\ w \in {3, 4} BY <3>1, <2>10 DEF Peeked
      <3>3. get = q + w /\ buffered = w BY <3>1, <2>5, <2>7
      <3> QED BY <3>1, <3>2, <3>3
    <2>12. StartsAt(get - buffered, place, m) BY <2>10, <2>11
    <2>13. LookAhead(get - buffered, Kind \ (StartsPicture \cup StartsNoPicture)) \in StartsPicture
      BY <2>1, <2>2, <2>6, <2>8, <2>9, <2>12, SeesThePicture
    <2> QED BY <2>5, <2>13 DEF IsNewPicture
  <1> QED BY <1>1, TransportStarts, TransportKeepsInv, PTL DEF TransportSpec
=============================================================================
