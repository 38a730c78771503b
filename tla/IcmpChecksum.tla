----------------------------- MODULE IcmpChecksum -----------------------------
(* bridge_ping.py: the checksum of an echo request the host builds, and the  *)
(* patch by which the responder's 6502 code turns it into the reply's.  The  *)
(* other words of the message are one word, their one's-complement sum.      *)
EXTENDS Integers

VARIABLES type,         \* the first word of the message: type and code
          rest,         \* the sum of the identifier, the sequence, the payload
          hi, lo        \* the checksum, at [36] and [37]

cvars == <<type, rest, hi, lo>>

Byte == 0..255
Word == 0..65535
EchoRequest == 2048      \* type 8, code 0
EchoReply == 0

(* Two words added with the carry brought round (_ip_checksum's fold).       *)
Fold(s) == IF s > 65535 THEN s - 65535 ELSE s
Sum(a, b) == Fold(a + b)

Checksum == 256 * hi + lo

(* A request whose checksum _ip_checksum computed: the complement of the sum *)
(* of the rest, which is one of two words.                                   *)
ChecksumInit ==
  /\ type = EchoRequest
  /\ hi \in Byte /\ lo \in Byte
  /\ rest \in {r \in {65535 - Checksum - type, 2 * 65535 - Checksum - type} :
                 r \in Word /\ Sum(type, r) = 65535 - Checksum}

(* CLC, ADC #8 into the high byte; if that carries, CLC, ADC #1 into the low *)
(* byte, whose own carry goes nowhere.                                       *)
Add(byte, n) == IF byte + n > 255 THEN byte + n - 256 ELSE byte + n

Respond ==
  /\ type = EchoRequest
  /\ type' = EchoReply
  /\ hi' = Add(hi, 8)
  /\ lo' = IF hi + 8 > 255 THEN Add(lo, 1) ELSE lo
  /\ UNCHANGED rest

ChecksumSpec == ChecksumInit /\ [][Respond]_cvars

-----------------------------------------------------------------------------
(* The message on the wire adds up, the reply as the request: what its       *)
(* receiver verifies before it believes the ping answered.                   *)
SumIsRight == Sum(Sum(type, rest), Checksum) = 65535
=============================================================================
