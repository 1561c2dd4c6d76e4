------------------------------ MODULE NalBytes ------------------------------
(***************************************************************************)
(* The bytes of one NAL unit, from the encoder's RBSP to the decoder's:    *)
(* writeNaluContent puts emulation prevention bytes in, the decoder's      *)
(* convertPayloadToRBSP takes them out and strips cabac_zero_words.  One   *)
(* action is one iteration of the writer's or of the reader's loop; the    *)
(* reader starts when the NAL unit is complete.                            *)
(*                                                                         *)
(* The two header bytes pass the reader's loop but not the writer's, so    *)
(* they are the start of both sequences; the second one is                 *)
(* nal_unit_type * 8 + TemporalId + 1, never 0.                            *)
(***************************************************************************)
EXTENDS Integers, Sequences

CONSTANTS
    Byte,         \* the byte values of a payload
    HeaderByte,   \* values of the second header byte
    RbspBound     \* bound: bytes of an RBSP, the header included

ASSUME ByteAssumption ==
    /\ Byte \subseteq 0 .. 255
    /\ HeaderByte \subseteq 1 .. 255
    /\ RbspBound \in Nat

VARIABLES
    rbsp,    \* header and RBSP, as far as the writer has come
    coded,   \* header and payload in the file: outputBuffer
    wzero,   \* zeroCount of the writer
    zeros,   \* how many zero bytes the RBSP ends with
    phase,   \* "write", "read", "done"
    it,      \* it_read, the next byte the reader looks at
    got,     \* what the reader has written back to the buffer
    rzero,   \* zeroCount of the reader
    failed,  \* a CHECK of the reader has failed
    at       \* history: at[k] is where the k-th byte of rbsp is in coded

writer == <<rbsp, coded, wzero, zeros, at>>
reader == <<it, got, rzero, failed>>
bytesVars == <<writer, reader, phase>>

EmulationPreventionThreeByte == 3

Octet == 0 .. 255

NalType ==
    /\ rbsp \in Seq(Octet) /\ coded \in Seq(Octet)
    /\ wzero \in 0 .. 2 /\ rzero \in 0 .. 2 /\ zeros \in Nat
    /\ phase \in {"write", "read", "done"}
    /\ it \in Nat \ {0}
    /\ got \in Seq(Octet)
    /\ failed \in BOOLEAN
    /\ at \in Seq(Nat \ {0})

NalInit ==
    /\ \E h \in HeaderByte : rbsp = <<0, h>>
    /\ coded = rbsp
    /\ wzero = 0 /\ zeros = 0
    /\ at = <<1, 2>>
    /\ phase = "write"
    /\ it = 1 /\ got = <<>> /\ rzero = 0 /\ failed = FALSE

----------------------------------------------------------------------------
(* Mutants: the count is compared too late; no byte is put before a 3.     *)
EscapesLate(v) == wzero = 3 /\ v <= 3
EscapesOnlyCodes(v) == wzero = 2 /\ v < 3

Escapes(v) == wzero = 2 /\ v <= 3
FinalByte == IF wzero > 0 THEN <<EmulationPreventionThreeByte>> ELSE <<>>

(* The writer's loop, for the next byte of the RBSP. *)
WriteByte(v) ==
    /\ phase = "write" /\ Len(rbsp) < RbspBound
    /\ rbsp' = Append(rbsp, v)
    /\ zeros' = IF v = 0 THEN zeros + 1 ELSE 0
    /\ wzero' = IF v # 0 THEN 0 ELSE IF Escapes(v) THEN 1 ELSE wzero + 1
    /\ coded' = IF Escapes(v) THEN coded \o <<EmulationPreventionThreeByte, v>>
                              ELSE Append(coded, v)
    /\ at' = Append(at, IF Escapes(v) THEN Len(coded) + 2 ELSE Len(coded) + 1)
    /\ UNCHANGED <<reader, phase>>

(* An RBSP ends with its stop bit, or with cabac_zero_words after it. *)
EndsProperly == zeros % 2 = 0 /\ zeros + 2 <= Len(rbsp)

EndWriting ==
    /\ phase = "write" /\ EndsProperly
    /\ coded' = coded \o FinalByte
    /\ phase' = "read"
    /\ UNCHANGED <<rbsp, wzero, zeros, at, reader>>

----------------------------------------------------------------------------
IsPrevention == rzero = 2 /\ coded[it] = EmulationPreventionThreeByte

(* One byte of the reader's loop; a byte 3 after two zeros is skipped and  *)
(* the byte after it, if there is one, is taken in the same iteration.     *)
Take(k) ==
    /\ got' = Append(got, coded[k])
    /\ rzero' = IF coded[k] # 0 THEN 0 ELSE IF IsPrevention THEN 1 ELSE rzero + 1
    /\ it' = k + 1

ReadByte ==
    /\ phase = "read" /\ ~failed /\ it <= Len(coded)
    /\ IF rzero >= 2 /\ coded[it] < 3
       THEN failed' = TRUE /\ UNCHANGED <<it, got, rzero>>
       ELSE IF IsPrevention
       THEN IF it = Len(coded)
            THEN it' = it + 1 /\ rzero' = 0 /\ UNCHANGED <<got, failed>>
            ELSE IF coded[it + 1] > 3
            THEN failed' = TRUE /\ UNCHANGED <<it, got, rzero>>
            ELSE Take(it + 1) /\ UNCHANGED failed
       ELSE Take(it) /\ UNCHANGED failed
    /\ UNCHANGED <<writer, phase>>

(* The bytes before the zeros that end s. *)
Stripped(s) ==
    SubSeq(s, 1, CHOOSE n \in 0 .. Len(s) :
                     (n = 0 \/ s[n] # 0) /\ \A k \in n + 1 .. Len(s) : s[k] = 0)

(* The last CHECK, then the cabac_zero_words go: the test that should keep *)
(* them in other NAL units is on a header bit that is always 0.            *)
EndReading ==
    /\ phase = "read" /\ ~failed /\ it = Len(coded) + 1
    /\ IF rzero # 0 THEN failed' = TRUE /\ UNCHANGED got
                    ELSE got' = Stripped(got) /\ UNCHANGED failed
    /\ phase' = "done"
    /\ UNCHANGED <<writer, it, rzero>>

NalNext ==
    \/ \E v \in Byte : WriteByte(v)
    \/ EndWriting
    \/ ReadByte
    \/ EndReading

NalSpec == NalInit /\ [][NalNext]_bytesVars

----------------------------------------------------------------------------
(* writeNaluContent: "the following three-byte sequences shall not occur   *)
(* at any byte-aligned position: 0x000000, 0x000001, 0x000002" - whatever  *)
(* the payload, no start code can be seen inside a NAL unit.               *)
NoStartCode ==
    \A k \in 1 .. Len(coded) - 2 : ~(coded[k] = 0 /\ coded[k + 1] = 0 /\ coded[k + 2] < 3)

(* The decoder's bytes are the encoder's, less the cabac_zero_words, and   *)
(* no CHECK of convertPayloadToRBSP fails on what the encoder writes.      *)
RoundTrip ==
    /\ ~failed
    /\ phase = "read" => \A k \in DOMAIN got : k \in DOMAIN rbsp /\ got[k] = rbsp[k]
    /\ phase = "done" => got = Stripped(rbsp)
============================================================================
