------------------------------- MODULE Base64 -------------------------------
(***************************************************************************)
(* base64_rfc4648 of cppcodec: the pure parts of its encoder and decoder,  *)
(* and what RFC 4648 says of a text.  A character of a text is its index   *)
(* in the alphabet, or what alphabet_index_info makes of it.               *)
(***************************************************************************)
EXTENDS Integers, Sequences, FiniteSets

Byte == 0..255

padding_idx == 256
invalid_idx == 512
eof_idx     == 1024

is_stop_character(idx) == idx \div 256 # 0
-----------------------------------------------------------------------------
(* Encoding *)

\* base64::index, symbol I of the block b of three bytes, or of fewer.
index(I, b) ==
  CASE I = 0 -> b[1] \div 4
    [] I = 1 -> (b[1] % 4) * 16 + (b[2] \div 16)
    [] I = 2 -> (b[2] % 16) * 4 + (b[3] \div 64)
    [] I = 3 -> b[3] % 64

\* base64::index_last, the last symbol of a tail.
index_last(I, b) ==
  CASE I = 1 -> (b[1] % 4) * 16
    [] I = 2 -> (b[2] % 16) * 4

\* A tail of n bytes has n + 1 symbols, and padding.
tail(I, b) ==
  CASE I < Len(b) -> index(I, b)
    [] I = Len(b) -> index_last(I, b)
    [] I > Len(b) -> padding_idx

encoded_size(n) == ((n + 2 - ((n + 2) % 3)) * 4) \div 3

\* The block that byte 3 * j begins, shorter at the end.
BlockOf(content, j) ==
  SubSeq(content, 3 * j + 1, IF 3 * j + 3 > Len(content) THEN Len(content) ELSE 3 * j + 3)

\* A plausible bug: the last symbol of a tail has bits of what follows in memory.
encodeTailReadsOn(content) ==
  [k \in 1..encoded_size(Len(content)) |->
     LET b == BlockOf(content, (k - 1) \div 4)
     IN  IF Len(b) = 3 \/ (k - 1) % 4 > Len(b) THEN tail((k - 1) % 4, b)
         ELSE index((k - 1) % 4, b \o b \o b)]

encode(content) ==
  [k \in 1..encoded_size(Len(content)) |->
     LET b == BlockOf(content, (k - 1) \div 4)
     IN  IF Len(b) = 3 THEN index((k - 1) % 4, b) ELSE tail((k - 1) % 4, b)]
-----------------------------------------------------------------------------
(* Decoding; idx is a function of 0..3. *)

decode_block(idx) ==
  LET dec == ((idx[0] * 64 + idx[1]) * 64 + idx[2]) * 64 + idx[3]
  IN  <<dec \div 65536, (dec \div 256) % 256, dec % 256>>

\* A tail of two symbols, or three.
decode_tail(idx, idx_len) ==
  LET first  == (idx[0] * 4 + ((idx[1] \div 16) % 4)) % 256
      second == ((idx[1] % 16) * 16 + ((idx[2] \div 4) % 16)) % 256
  IN  IF idx_len = 2 THEN <<first>> ELSE <<first, second>>

decoded_max_size(n) == (n \div 4) * 3
-----------------------------------------------------------------------------
(* RFC 4648 *)

\* What a bit of a byte weighs, the least significant one first.
Weights == <<1, 2, 4, 8, 16, 32, 64, 128>>

\* Bit m of a sequence of numbers of w bits, the most significant one first.
Bit(s, w, m) == (s[(m \div w) + 1] \div Weights[w - (m % w)]) % 2

Paddings(text) == Cardinality({k \in DOMAIN text : text[k] = padding_idx})

\* Groups of four symbols, of which the last may end with one or two paddings.
WellFormed(text) ==
  /\ Len(text) % 4 = 0
  /\ Paddings(text) <= 2
  /\ \A k \in DOMAIN text :
       IF k > Len(text) - Paddings(text) THEN text[k] = padding_idx ELSE text[k] \in 0..63

\* The bytes whose bits the symbols of a well-formed text list.
Stands(text, bytes) ==
  /\ Len(bytes) = (Len(text) \div 4) * 3 - Paddings(text)
  /\ \A m \in 0..8 * Len(bytes) - 1 : Bit(bytes, 8, m) = Bit(text, 6, m)

\* The bits of a text's last symbol that no byte has.
UnusedAreZero(text, bytes) ==
  \A m \in 8 * Len(bytes)..6 * (Len(text) - Paddings(text)) - 1 : Bit(text, 6, m) = 0
=============================================================================
