------------------------------- MODULE Unicode -------------------------------
(***************************************************************************)
(* UTF8Stream of libsystem/Unicode.h: bytes in, codepoints out.            *)
(*                                                                         *)
(* A writer sends codepoints encoded in UTF-8, and now and then the first  *)
(* bytes of one only (a string cut at a fixed length) or its last ones.    *)
(* The decoder sees nothing but the bytes.                                 *)
(***************************************************************************)
EXTENDS Integers, Sequences

CONSTANT Codepoints    \* bound: the codepoints that are written

CodepointLimit == 17 * 65536      \* seventeen planes

ASSUME UnicodeAssumption == \A c \in Codepoints : c \in Nat /\ c < CodepointLimit

VARIABLES
  is_decoding, current_decoding, width_decoding,   \* the fields of that name
  output,       \* the codepoint passed to write_codepoint by the last byte
  sending,      \* writer: the bytes still to be sent
  ch,           \* writer: the codepoint they belong to
  intact,       \* writer: all its bytes are sent
  clean         \* auxiliary: it was started while the decoder was idle

decoderVars == <<is_decoding, current_decoding, width_decoding>>
unicodeVars == <<decoderVars, output, sending, ch, intact, clean>>

Nothing == -1
Replacement == 63        \* U'?'

\* A shift to the left by that many bytes' worth of bits, six each.
Shift(k) == CASE k = 0 -> 1 [] k = 1 -> 64 [] k = 2 -> 4096 [] k = 3 -> 262144

-----------------------------------------------------------------------------
(***************************************************************************)
(* The writer: the encoding of a codepoint, as RFC 3629 defines it.        *)
(***************************************************************************)
Tail6(c, k) == 128 + ((c \div Shift(k)) % 64)

Encoding(c) ==
  CASE c < 128                 -> <<c>>
    [] 128 <= c /\ c < 2048    -> <<192 + (c \div 64), Tail6(c, 0)>>
    [] 2048 <= c /\ c < 65536  -> <<224 + (c \div 4096), Tail6(c, 1), Tail6(c, 0)>>
    [] OTHER -> <<240 + (c \div 262144), Tail6(c, 2), Tail6(c, 1), Tail6(c, 0)>>

Send ==
  /\ sending = <<>>
  /\ \E c \in Codepoints :
       \E first \in 1 .. Len(Encoding(c)), last \in 1 .. Len(Encoding(c)) :
         /\ first <= last
         /\ sending' = SubSeq(Encoding(c), first, last)
         /\ intact' = (first = 1 /\ last = Len(Encoding(c)))
         /\ ch' = c
  /\ clean' = ~is_decoding
  /\ output' = Nothing
  /\ UNCHANGED decoderVars

-----------------------------------------------------------------------------
(***************************************************************************)
(* write_byte.  The masks select the high bits of the byte.                *)
(***************************************************************************)
IsContinuation(byte) == byte \div 64 = 2

\* Bug: the bits that announce three continuation bytes are not looked at.
Lead_NoFourBytes(byte) ==
  CASE byte \div 16 = 14 -> <<byte % 16, 2>>
    [] byte \div 32 = 6  -> <<byte % 32, 1>>
    [] OTHER             -> <<byte, 0>>

\* The bits a first byte contributes, and how many bytes are to follow.
Lead(byte) ==
  CASE byte \div 8 = 30  -> <<byte % 8, 3>>
    [] byte \div 16 = 14 -> <<byte % 16, 2>>
    [] byte \div 32 = 6  -> <<byte % 32, 1>>
    [] OTHER             -> <<byte, 0>>

\* Bug: a codepoint of one byte leaves the decoder waiting.
FirstByte_Waits(byte) ==
  LET bits == Lead(byte)[1]
      width == Lead(byte)[2]
  IN  /\ ~is_decoding
      /\ current_decoding' = bits * Shift(width)
      /\ width_decoding' = width
      /\ is_decoding' = TRUE
      /\ output' = IF width = 0 THEN bits ELSE Nothing

FirstByte(byte) ==
  LET bits == Lead(byte)[1]
      width == Lead(byte)[2]
  IN  /\ ~is_decoding
      /\ current_decoding' = bits * Shift(width)
      /\ width_decoding' = width
      /\ is_decoding' = (width > 0)
      /\ output' = IF width = 0 THEN bits ELSE Nothing

\* The bits are disjoint from those already there: or is addition.
NextByte(byte) ==
  LET width == width_decoding - 1
      value == current_decoding + (byte % 64) * Shift(width)
  IN  /\ is_decoding /\ IsContinuation(byte)
      /\ current_decoding' = value
      /\ width_decoding' = width
      /\ is_decoding' = (width > 0)
      /\ output' = IF width = 0 THEN value ELSE Nothing

\* Bug: the decoder goes on waiting for the missing bytes.
BadByte_StillDecoding(byte) ==
  /\ is_decoding /\ ~IsContinuation(byte)
  /\ output' = Replacement
  /\ UNCHANGED decoderVars

\* A byte that does not continue the sequence is swallowed with it.
BadByte(byte) ==
  /\ is_decoding /\ ~IsContinuation(byte)
  /\ is_decoding' = FALSE
  /\ output' = Replacement
  /\ UNCHANGED <<current_decoding, width_decoding>>

write_byte ==
  /\ sending # <<>>
  /\ LET byte == Head(sending)
     IN  FirstByte(byte) \/ NextByte(byte) \/ BadByte(byte)
  /\ sending' = Tail(sending)
  /\ UNCHANGED <<ch, intact, clean>>

UnicodeInit ==
  /\ is_decoding = FALSE /\ current_decoding = 0 /\ width_decoding = 0
  /\ output = Nothing
  /\ sending = <<>> /\ ch = 0 /\ intact = FALSE /\ clean = TRUE

UnicodeNext == Send \/ write_byte

UnicodeSpec == UnicodeInit /\ [][UnicodeNext]_unicodeVars

-----------------------------------------------------------------------------
(***************************************************************************)
(* Properties                                                              *)
(***************************************************************************)

\* Four bytes carry 3 + 3 * 6 bits.
Decodings == 8 * Shift(3)

\* The types of the variables.  A decoder that waits knows for how many bytes: the width
\* write_byte shifts by never becomes negative.
UnicodeTypeOK ==
  /\ is_decoding \in BOOLEAN
  /\ is_decoding => width_decoding \in 1 .. 3
  /\ width_decoding \in 0 .. 3
  /\ current_decoding \in 0 .. Decodings - 1
  /\ output \in Nothing .. Decodings - 1
  /\ ch \in Codepoints \cup {0}

Sent == intact /\ sending = <<>>

\* The decoder inverts the encoding: an intact codepoint that starts while the
\* decoder is idle comes out as itself with its last byte, and not before.
DecodesWhatWasEncoded ==
  intact /\ clean => output = IF Sent THEN ch ELSE Nothing

\* Damage does not spread: whatever came before it, after one intact codepoint
\* the decoder is idle, and the next one is decoded; a decoder that waits
\* waits for at most three bytes.
ResynchronizesAfterOne == UnicodeTypeOK /\ (Sent => ~is_decoding)
=============================================================================
