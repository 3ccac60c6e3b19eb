----------------------------- MODULE RespCodec -----------------------------
(***************************************************************************)
(* The wire format of spec 4.A over a small byte alphabet, and the frames  *)
(* it carries.  The encoder (the protocol package's ToBytes) is not under  *)
(* src/, so this module is written from the spec: it says what bytes a     *)
(* frame becomes, and so what a decoder must turn them back into.          *)
(*                                                                         *)
(* A byte is one of the strings below; "CR" and "LF" stand for \r and \n.  *)
(* A payload, what parse0 sends on its channel, is a record [t, v]:        *)
(*   simple / error : v is the text (bytes)                                *)
(*   int            : v is the integer                                     *)
(*   bulk           : v is the bytes, or Nil for the null bulk             *)
(*   array          : v is the sequence of arguments (bytes)               *)
(*   proto          : a protocol error, v is Nil                           *)
(*   io             : an IO error, v is "EOF" or "UnexpectedEOF"           *)
(***************************************************************************)
EXTENDS Integers, Sequences, SequencesExt

CONSTANT Nil

CRLF == <<"CR", "LF">>

DigitOf == [d \in 0..3 |-> CASE d = 0 -> "0" [] d = 1 -> "1" [] d = 2 -> "2" [] d = 3 -> "3"]

\* The decimal text of a small integer (strconv.Itoa); digits 0..3 suffice
\* for the lengths and values the models use.
Decimal(n) == IF n < 0 THEN <<"-", DigitOf[-n]>> ELSE <<DigitOf[n]>>

Frame(t, v) == [t |-> t, v |-> v]

\* $<n>CRLF<bytes>CRLF, or $-1CRLF for the null bulk.
EncodeBulk(b) ==
    IF b = Nil THEN <<"$">> \o Decimal(-1) \o CRLF
    ELSE <<"$">> \o Decimal(Len(b)) \o CRLF \o b \o CRLF

\* The canonical encoding of a frame: arrays are arrays of bulk strings,
\* *-1 is the null array.
Encode(f) ==
    CASE f.t = "simple" -> <<"+">> \o f.v \o CRLF
      [] f.t = "error"  -> <<"-">> \o f.v \o CRLF
      [] f.t = "int"    -> <<":">> \o Decimal(f.v) \o CRLF
      [] f.t = "bulk"   -> EncodeBulk(f.v)
      [] f.t = "array" /\ f.v = Nil -> <<"*">> \o Decimal(-1) \o CRLF
      [] f.t = "array"  -> <<"*">> \o Decimal(Len(f.v)) \o CRLF
                              \o FlattenSeq([i \in 1..Len(f.v) |-> EncodeBulk(f.v[i])])

\* An item of a byte stream: the bytes and the payloads spec 4.A says a
\* decoder yields for them (a frame for an encoded frame, one protocol
\* error for a malformed line).
Item(bytes, exp) == [bytes |-> bytes, exp |-> exp]

FrameItem(f) == Item(Encode(f), <<f>>)
=============================================================================
