--------------------------- MODULE ComPortFraming ---------------------------
(***************************************************************************)
(* Byte-level vocabulary of the SDC-600 COM port protocol: the flag bytes   *)
(* of ECPDProtFlagBytes and the byte stuffing that lets a message carry any *)
(* byte value.  There is no state here; the modules that have some use it.  *)
(***************************************************************************)
EXTENDS Integers, Sequences, SequencesExt

Byte == 0..255

FLAG_IDR    == 160  \* 0xA0 identification request
FLAG_IDA    == 161  \* 0xA1 identification acknowledge
FLAG_LPH1RA == 166  \* 0xA6 link phase 1 request / acknowledge
FLAG_LPH1RL == 167  \* 0xA7 link phase 1 release / acknowledge
FLAG_LPH2RA == 168  \* 0xA8 link phase 2 request / acknowledge
FLAG_LPH2RL == 169  \* 0xA9 link phase 2 release / acknowledge
FLAG_LPH2RR == 170  \* 0xAA link phase 2 reboot request
FLAG_LERR   == 171  \* 0xAB link error
FLAG_START  == 172  \* 0xAC start of protocol data unit
FLAG_END    == 173  \* 0xAD end of protocol data unit
FLAG_ESC    == 174  \* 0xAE escape
FLAG__NULL  == 175  \* 0xAF null: what a read of an empty RX FIFO returns

\* The flags the port hardware acts on itself; none of them enters the TX FIFO.
LinkFlags == {FLAG_LPH1RA, FLAG_LPH1RL, FLAG_LPH2RA, FLAG_LPH2RL, FLAG_LPH2RR}

\* Bytes whose upper three bits are 101: they may not travel in a message.
IsFlag(b) == b \in 160..191

\* data & ~0x80
ClearBit7(b) == b % 128

\* byte | 0x80
SetBit7(b) == IF b < 128 THEN b + 128 ELSE b

\* One message byte as it travels.
Stuff(b) == IF IsFlag(b) THEN <<FLAG_ESC, ClearBit7(b)>> ELSE <<b>>

\* All of a message.
Stuffed(data) == FlattenSeq([i \in DOMAIN data |-> Stuff(data[i])])

\* The whole protocol data unit.
PrepareData(data) == <<FLAG_START>> \o Stuffed(data) \o <<FLAG_END>>

-----------------------------------------------------------------------------
(* The reference decoder, written from the protocol and not from the        *)
(* receiver's loop: NULLs carry nothing, an ESC only marks its successor.   *)

\* The last byte before the n-th that is not a NULL is an ESC.
Escaped(s, n) ==
    \E i \in 1..(n - 1) :
        /\ s[i] = FLAG_ESC
        /\ \A j \in (i + 1)..(n - 1) : s[j] = FLAG__NULL

\* What the n-th byte carries.
DecodedByte(s, n) ==
    IF s[n] \in {FLAG_ESC, FLAG__NULL} THEN <<>>
    ELSE IF Escaped(s, n) THEN <<SetBit7(s[n])>>
    ELSE <<s[n]>>

DecodeBody(body) == FlattenSeq([n \in DOMAIN body |-> DecodedByte(body, n)])

\* An ESC meets the k-th byte with nothing but NULLs and start flags between.
Dangling(s, flag, k) ==
    \E i \in 1..(k - 1) :
        /\ s[i] = FLAG_ESC
        /\ \A j \in (i + 1)..(k - 1) : s[j] \in {FLAG__NULL, flag}

\* A message whose first byte is taken for an escaped one.
FirstFlipped(content) == [content EXCEPT ![1] = SetBit7(@)]
=============================================================================
