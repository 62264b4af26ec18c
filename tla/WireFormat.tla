----------------------------- MODULE WireFormat -----------------------------
(* The words of the device's command stream: how the driver spells register  *)
(* writes, delays and mode changes, how it pads them to blocks, and how the  *)
(* device reads them back. A word is a pair <<command, data>>.               *)
EXTENDS Integers, Sequences, SequencesExt

CONSTANT BlockWords  \* words in a transfer (hs4u.BLOCK is 512 bytes: 256)

ASSUME WireAssumption == BlockWords \in Nat /\ BlockWords >= 2

Bytes == 0 .. 255
Words == Bytes \X Bytes

MIN_CYCLES == 8
FILLER == <<255, 255>>      \* escape: the next word is its payload
DELAY_ZERO == <<238, 0>>
PAD_WORD == DELAY_ZERO

word(c, d) == <<c % 256, d % 256>>

encode_reg(chip, r, d) == <<word(((chip % 4) * 32) + (r % 32), d)>>

\* At most 65535 cycles: the high byte, then the low byte, neither when zero.
Chunk(n) == (IF n >= 256 THEN <<word(239, n \div 256)>> ELSE <<>>)
            \o (IF n % 256 # 0 THEN <<word(238, n)>> ELSE <<>>)

encode_delay(cycles) ==
    [i \in 1 .. 2 * (cycles \div 65535) |-> word(IF i % 2 = 1 THEN 239 ELSE 238, 255)]
    \o Chunk(cycles % 65535)

-----------------------------------------------------------------------------
(* Blocks *)

\* Mutant: the last block is sent as short as it is.
FilledShort(p, w) ==
    [k \in 1 .. (Len(p) + BlockWords - 1) \div BlockWords |->
        SubSeq(p, (k - 1) * BlockWords + 1,
               IF k * BlockWords < Len(p) THEN k * BlockWords ELSE Len(p))]

\* The payload in blocks, what is missing of the last one filled with w.
Filled(p, w) ==
    [k \in 1 .. (Len(p) + BlockWords - 1) \div BlockWords |->
        [i \in 1 .. BlockWords |->
            LET j == (k - 1) * BlockWords + i IN IF j <= Len(p) THEN p[j] ELSE w]]

\* Mutant: padding with the escape, as the driver once did.
pad_filler(p) == Filled(p, FILLER)

\* Mutant: made even with a word that takes no time.
pad_timeless(p) == Filled(IF Len(p) % 2 = 1 THEN Append(p, PAD_WORD) ELSE p, PAD_WORD)

pad_even(p) == Filled(IF Len(p) % 2 = 1 THEN p \o <<word(238, MIN_CYCLES)>> ELSE p, PAD_WORD)

\* A register write is a triple: chip, register, value.
Encoded(w) == encode_reg(w[1], w[2], w[3])[1]

\* Every write followed by the shortest delay.
Spelled(writes) ==
    [i \in 1 .. 2 * Len(writes) |->
        IF i % 2 = 1 THEN Encoded(writes[(i + 1) \div 2]) ELSE word(238, MIN_CYCLES)]

_build_block(writes) == pad_even(encode_delay(MIN_CYCLES) \o Spelled(writes))

ModeBlock(m) == pad_even(<<FILLER, word(0, m)>>)

\* What start_engine sends: the toggle, and zeros where others pad. The zeros
\* are words like any other.
StartBlock == Filled(<<FILLER, word(0, 1)>>, word(0, 0))

\* The exact prefix the driver refuses to send.
IsToggle(b) == b[1] = FILLER /\ b[2] = word(0, 1)

-----------------------------------------------------------------------------
(* Arming a socket: rows of what chip_init_stream sends, <<delay, register,   *)
(* value>>, with the register of socket 0 that each socket's stream ends its  *)
(* probes with written as -1.                                                 *)

After8(r, d) == <<8, r, d>>

ZeroRegs == <<1, 0, 8, 7, 15, 14, 4, 5, 6, 11, 12, 13, 18, 19, 20>>
ProbeRegs == <<2, 3, 4, 5, 6, 9, 10, 11, 12, 13, 16, 17, 18, 19, 20, 21, 22, 23, 25>>

Knock(a, b, c) == <<After8(29, a), After8(30, b), After8(31, c)>>

Settle(n) == <<<<n, 30, 0>>>>

ArmRows ==
    [i \in DOMAIN ZeroRegs |-> After8(ZeroRegs[i], 0)]
    \o FlattenSeq([i \in DOMAIN ProbeRegs |-> <<After8(ProbeRegs[i], 255),
                                               After8(ProbeRegs[i], 8)>>])
    \o Settle(50)
    \o [i \in DOMAIN ProbeRegs |-> After8(ProbeRegs[i], 0)]
    \o <<<<40000, -1, 0>>>>
    \o Knock(83, 73, 68) \o Settle(1000)
    \o Knock(83, 69, 54) \o Knock(83, 73, 68) \o Settle(1000)
    \o FlattenSeq([i \in 1 .. 3 |->
           <<After8(31, <<138, 146, 192>>[i]), After8(30, 69)>> \o Settle(1000)])
    \o Knock(0, 0, 0) \o Settle(20000)
    \o <<After8(25, 128), After8(26, 101), After8(31, 64), After8(25, 0), After8(26, 0)>>

\* Mutant: the socket's offset is left out of the command.
RowWriteAtZero(row, c) == <<0, IF row[2] = -1 THEN 30 ELSE row[2], row[3]>>

\* What a row writes when it arms chip c.
RowWrite(row, c) == IF row[2] = -1 THEN <<0, 30, row[3]>> ELSE <<c, row[2], row[3]>>

SpelledRow(row, c) ==
    LET w == RowWrite(row, c) IN encode_delay(row[1]) \o encode_reg(w[1], w[2], w[3])

chip_init_stream(rows, c) == FlattenSeq([i \in DOMAIN rows |-> SpelledRow(rows[i], c)])

-----------------------------------------------------------------------------
(* How the device reads *)

\* What it is in the middle of, the commands read so far (writes, and modes as
\* <<m>>), cycles since the last write, and whether one came too early.
Start(open, gap) == [open |-> open, gap |-> gap, items |-> <<>>, early |-> FALSE]

Passed(r, n) == [r EXCEPT !.gap = IF @ + n > MIN_CYCLES THEN MIN_CYCLES ELSE @ + n]

\* The payload of an escape: a mode, when its command is zero.
Escaped(r, w) ==
    [r EXCEPT !.open = FALSE, !.items = IF w[1] = 0 THEN Append(@, <<w[2]>>) ELSE @]

Written(r, w) ==
    [r EXCEPT !.items = Append(@, <<w[1] \div 32, w[1] % 32, w[2]>>),
              !.early = @ \/ r.gap < MIN_CYCLES, !.gap = 0]

ReadWord(r, w) ==
    IF r.open THEN Escaped(r, w)
    ELSE IF w = FILLER THEN [r EXCEPT !.open = TRUE]
    ELSE IF w[1] = 238 THEN Passed(r, w[2])
    ELSE IF w[1] = 239 THEN Passed(r, 256 * w[2])
    ELSE IF w[1] < 128 THEN Written(r, w)
    ELSE r

\* What the reader has become before each word and after the last, with one
\* reader for each word (TLC would compute the ones before again and again).
Reading(r, words) ==
    LET after[k \in 0 .. Len(words)] ==
            IF k = 0 THEN r
            ELSE CHOOSE s \in {ReadWord(q, words[k]) : q \in {after[k - 1]}} : TRUE
    IN  after

ReadFrom(r, words) == Reading(r, words)[Len(words)]

Read(open, gap, words) == ReadFrom(Start(open, gap), words)

\* A block that is read from its beginning leaves no escape open.
Closed(b) == ~Read(FALSE, 0, b).open
=============================================================================
