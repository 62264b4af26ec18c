--------------------------- MODULE CommandStream ---------------------------
(* The command stream between the driver's calls and the device. Calls of    *)
(* the buffered API spell register writes into _buf; flush pads it, cuts it  *)
(* into blocks and sends them one by one, as far as there is room; mode      *)
(* changes and real-time writes are blocks of their own that bypass _buf.    *)
(* The device reads words, and cannot tell which call a word came from.      *)
EXTENDS WireFormat, FiniteSets

CONSTANTS
    Chips,     \* the chips in use, in order (--chips)
    Rows,      \* the rows of chip_init_stream: ArmRows, or an excerpt
    Captures,  \* captured streams init_from_capture replays
    Sweep,     \* registers silence() zeroes (0 .. 0x18)
    Values,    \* what the voices are set to, and their frequencies
    Pauses,    \* arguments of delay()
    MaxWords,  \* bound: a longer _buf is not extended
    MaxBlocks  \* bound: blocks in the ring, fewer while _buf is extended

Enabled == Range(Chips)

SweepWrites ==
    FlattenSeq([i \in DOMAIN Chips |->
        [j \in DOMAIN Sweep |-> <<Chips[i], Sweep[j], 0>>]])

InitWords ==
    FlattenSeq([i \in DOMAIN Chips |-> chip_init_stream(Rows, Chips[i])])
    \o encode_delay(40000) \o encode_reg(0, 30, 0)

InitWrites ==
    FlattenSeq([i \in DOMAIN Chips |->
        [j \in DOMAIN Rows |-> RowWrite(Rows[j], Chips[i])]])
    \o <<<<0, 30, 0>>>>

\* As the device reads start_engine's block: mode 1, and a zero for register 0
\* of chip 0 in every word that is left.
StartItems == <<<<1>>>> \o [i \in 1 .. BlockWords - 2 |-> <<0, 0, 0>>]

Writes == (0 .. 3) \X (0 .. 31) \X Bytes

ASSUME StreamAssumption ==
    /\ Chips \in Seq(0 .. 3) /\ Sweep \in Seq(0 .. 31)
    /\ Values \subseteq {n \in Nat : n <= 65535} /\ Pauses \subseteq Nat
    /\ MaxWords \in Nat /\ MaxBlocks \in Nat

\* Every row waits before it writes, and the knock on socket 0 writes zero.
ASSUME RowsAssumption ==
    /\ Rows \in Seq({n \in Nat : n >= MIN_CYCLES} \X (-1 .. 31) \X Bytes)
    /\ \A i \in DOMAIN Rows : Rows[i][2] = -1 => Rows[i][3] = 0

\* Which of the commands read are mode changes.
Modes(items) == {i \in DOMAIN items : Len(items[i]) = 1}

\* Is the time before the next write up wherever a mode changes? What is left
\* of the ring may be dropped there.
Settled(g, blocks) ==
    \A k \in DOMAIN blocks :
        Modes(Read(FALSE, 0, blocks[k]).items) # {} =>
            Read(FALSE, g, FlattenSeq(SubSeq(blocks, 1, k))).gap = MIN_CYCLES

\* A stream that keeps MIN_CYCLES between its writes, and ends with that time
\* or in a write: Cut says what becomes of that.
Timed(p) ==
    LET r == Read(FALSE, MIN_CYCLES, p)
    IN  ~r.early /\ (r.gap = MIN_CYCLES \/ Len(p) % 2 = 1 \/ Last(p)[1] < 128)

\* No captured stream leaves an escape open, at the end of a block or at its
\* own, or writes too early.
ASSUME CaptureAssumption ==
    \A p \in Captures :
        /\ p \in Seq(Words) /\ ~Read(FALSE, 0, p).open /\ Timed(p)
        /\ \A k \in DOMAIN pad_even(p) : Closed(pad_even(p)[k])
        /\ Settled(MIN_CYCLES, pad_even(p))

VARIABLES
    _buf,   \* HardSID4U._buf, in words
    _wave,  \* HardSID4U._wave of the first voice of each chip
    ring,   \* the blocks sent and not yet read
    open,   \* is the device in the middle of an escape?
    gap,    \* cycles since its last register write, MIN_CYCLES at most
    mode,   \* its system mode
    held,   \* what _buf should come to: the writes asked for, in order
    owed,   \* what the ring should come to
    bare    \* is one on its way with no delay after it? (reg, Cut, start_engine)

driver == <<_buf, _wave, held, bare>>
device == <<open, gap, mode>>
vars == <<_buf, _wave, ring, open, gap, mode, held, owed, bare>>

Init == /\ _buf = <<>> /\ _wave = [c \in Enabled |-> 16]
        /\ ring = <<>> /\ open = FALSE /\ gap = MIN_CYCLES /\ mode = 1
        /\ held = <<>> /\ owed = <<>> /\ bare = FALSE

-----------------------------------------------------------------------------
(* Calls that only extend _buf *)

Extend(words, writes) ==
    /\ Len(_buf) < MaxWords /\ Len(ring) < MaxBlocks
    /\ _buf' = _buf \o words /\ held' = held \o writes
    /\ UNCHANGED <<ring, owed, device>>

reg(c, r, d) == /\ Extend(encode_reg(c, r, d), <<<<c, r, d>>>>)
                /\ bare' = TRUE /\ UNCHANGED _wave

delay(n) == Extend(encode_delay(n), <<>>) /\ UNCHANGED <<_wave, bare>>

Compose(writes) == Extend(Spelled(writes), writes) /\ UNCHANGED bare

\* The patch of a voice: envelope and pulse width go out, the waveform later.
Patch(c, x) == <<<<c, 5, x % 256>>, <<c, 6, x \div 256>>, <<c, 2, 0>>, <<c, 3, 8>>>>

voice(c, wave, x) == /\ Compose(Patch(c, x))
                     /\ _wave' = [_wave EXCEPT ![c] = wave]

Strike(c, wave, f) ==
    <<<<c, 0, f % 256>>, <<c, 1, f \div 256>>, <<c, 4, wave + 1>>>>

note_on(c, f) == Compose(Strike(c, _wave[c], f)) /\ UNCHANGED _wave

note_off(c) == Compose(<<<<c, 4, _wave[c]>>>>) /\ UNCHANGED _wave

volume(c, level) == Compose(<<<<c, 24, level>>>>) /\ UNCHANGED _wave

-----------------------------------------------------------------------------
(* Calls that send *)

Items(blocks) == Read(FALSE, 0, FlattenSeq(blocks)).items

\* A flush given up after k blocks, or a payload that ends in a write and is
\* even, so that the padding after it takes no time (init of an odd number of
\* sockets is).
Cut(p, k) == \/ k \in 1 .. Len(pad_even(p)) - 1
             \/ k > 0 /\ Len(p) % 2 = 0 /\ Last(p)[1] < 128

\* Mutant: _buf is cleared once everything is out.
SendClearedLate(p, writes) ==
    \E k \in 0 .. Len(pad_even(p)) :
        LET out == SubSeq(pad_even(p), 1, k)
        IN  /\ \A i \in 1 .. k : ~IsToggle(out[i])
            /\ Len(ring) + k <= MaxBlocks
            /\ ring' = ring \o out
            /\ owed' = owed \o SubSeq(writes, 1, Len(Items(out)))
            /\ _buf' = (IF k = Len(pad_even(p)) THEN <<>> ELSE p) /\ held' = <<>>
            /\ bare' = (bare \/ Cut(p, k))

\* Mutant: what a flush that is given up has not sent stays in _buf.
SendResumed(p, writes) ==
    \E k \in 0 .. Len(pad_even(p)) :
        LET out == SubSeq(pad_even(p), 1, k)
        IN  /\ \A i \in 1 .. k : ~IsToggle(out[i])
            /\ Len(ring) + k <= MaxBlocks
            /\ ring' = ring \o out
            /\ owed' = owed \o SubSeq(writes, 1, Len(Items(out)))
            /\ _buf' = FlattenSeq(SubSeq(pad_even(p), k + 1, Len(pad_even(p))))
            /\ held' = SubSeq(writes, Len(Items(out)) + 1, Len(writes))
            /\ bare' = (bare \/ Cut(p, k))

\* flush: _buf is emptied first. Before any block the wait for room may run out
\* of time, or the block be refused; what is left is lost with the exception.
Send(p, writes) ==
    \E k \in 0 .. Len(pad_even(p)) :
        LET out == SubSeq(pad_even(p), 1, k)
        IN  /\ \A i \in 1 .. k : ~IsToggle(out[i])
            /\ Len(ring) + k <= MaxBlocks
            /\ ring' = ring \o out
            /\ owed' = owed \o SubSeq(writes, 1, Len(Items(out)))
            /\ _buf' = <<>> /\ held' = <<>>
            /\ bare' = (bare \/ Cut(p, k))

flush == /\ _buf # <<>>
         /\ Send(_buf, held)
         /\ UNCHANGED <<device, _wave>>

silence == /\ Send(_buf \o Spelled(SweepWrites), held \o SweepWrites)
           /\ UNCHANGED <<device, _wave>>

\* One pass over the sockets and no warm-up, as every caller has it.
init == /\ Send(_buf \o InitWords, held \o InitWrites)
        /\ UNCHANGED <<device, _wave>>

\* The slice of the capture is what there is to send: whatever it spells was
\* asked for. It is the first thing sent.
init_from_capture(p) ==
    /\ _buf = <<>>
    /\ Send(p, Read(FALSE, MIN_CYCLES, p).items)
    /\ UNCHANGED <<device, _wave>>

\* A block of its own, whatever _buf holds; or no room for it.
Direct(blocks, items) ==
    /\ Len(ring) + Len(blocks) <= MaxBlocks
    /\ ring' = ring \o blocks /\ owed' = owed \o items
    /\ UNCHANGED <<driver, device>>

set_system_mode(m) == Direct(ModeBlock(m), <<<<m>>>>)

write_regs_now(writes) == Direct(_build_block(writes), writes)

\* Sent whenever the run bit is found down (EngineMode has when that is), and
\* not by _write: nothing waits for room, and nothing keeps its zeros apart.
start_engine ==
    /\ Len(ring) + Len(StartBlock) <= MaxBlocks
    /\ ring' = ring \o StartBlock /\ owed' = owed \o StartItems
    /\ bare' = TRUE
    /\ UNCHANGED <<_buf, _wave, held, device>>

-----------------------------------------------------------------------------
(* The device *)

\* Nothing is left that a write could come too early behind, or in.
Quiet(rest, g) == rest = <<>> /\ _buf = <<>> /\ g = MIN_CYCLES

\* It reads a block. One that changes its mode may make it drop the rest.
Execute ==
    /\ ring # <<>>
    /\ LET r == Read(open, gap, Head(ring))
           modes == Modes(r.items)
       IN  /\ open' = r.open /\ gap' = r.gap
           /\ mode' = IF modes = {} THEN mode ELSE r.items[Max(modes)][1]
           /\ \/ /\ ring' = Tail(ring)
                 /\ owed' = SubSeq(owed, Len(r.items) + 1, Len(owed))
              \/ modes # {} /\ ring' = <<>> /\ owed' = <<>>
    /\ bare' = (bare /\ ~Quiet(ring', gap'))
    /\ UNCHANGED <<_buf, _wave, held>>

-----------------------------------------------------------------------------
Phrase(c, f) == <<<<c, 4, 16>>, <<c, 0, f % 256>>, <<c, 1, f \div 256>>, <<c, 4, 17>>>>

Driver == \/ \E c \in Enabled, x \in Values :
                reg(c, 0, x % 256) \/ voice(c, 64, x) \/ note_on(c, x)
                \/ write_regs_now(Phrase(c, x))
          \/ \E c \in Enabled : note_off(c) \/ volume(c, 15)
          \/ \E n \in Pauses : delay(n)
          \/ flush \/ silence \/ init
          \/ \E p \in Captures : init_from_capture(p)
          \/ \E m \in 0 .. 1 : set_system_mode(m)
          \/ start_engine

Next == Driver \/ Execute

Spec == Init /\ [][Next]_vars

-----------------------------------------------------------------------------
(* Properties *)

TypeOK == /\ _buf \in Seq(Words) /\ _wave \in [Enabled -> Bytes]
          /\ ring \in Seq([1 .. BlockWords -> Words])
          /\ open \in BOOLEAN /\ gap \in 0 .. MIN_CYCLES /\ bare \in BOOLEAN

Queued == FlattenSeq(ring) \o _buf

\* The device will read exactly the writes and mode changes that were asked
\* for, in the order in which they were sent, whatever the padding, the cutting
\* into blocks and the abandoned flushes: no word is swallowed by an escape, no
\* write is taken for a mode (encode_reg, pad_even, flush, _build_block).
ReadsWhatWasAsked == Read(open, gap, Queued).items = owed \o held

\* No block leaves the device in the middle of an escape, which would swallow
\* the first word of the next, whoever sends it (pad_even).
NoOpenEscape == /\ ~open
                /\ \A k \in DOMAIN ring : Closed(ring[k])

\* Writes are MIN_CYCLES apart, across blocks and calls too, unless one that
\* was left without its delay is still on its way (MIN_CYCLES, pad_even,
\* _build_block; reg, init and start_engine leave such writes).
Spaced == bare \/ ~Read(open, gap, Queued).early

\* What keeps the promise of --chips ("ZERO writes ever"), but for two registers
\* of chip 0: the one that ends every socket's probes (chip_init_stream, init),
\* and the one the zeros of start_engine's block spell.
Keeps(items) ==
    \A i \in DOMAIN items :
        Len(items[i]) = 3 /\ items[i][1] \notin Enabled
            => items[i] \in {<<0, 30, 0>>, <<0, 0, 0>>}

\* Of the chips that are not enabled only chip 0 is written to, in its registers
\* 0 and 30 and only with zero, as long as no captured stream is replayed that
\* writes to them.
OnlyTheKnock == Keeps(owed)

CapturesKeep == \A p \in Captures : Keeps(Read(FALSE, MIN_CYCLES, p).items)

-----------------------------------------------------------------------------
(* What the calls promise, without words *)

\* The waveforms a voice is set to: the one __init__ gives it, and another.
Waves == {16, 64}

\* What one call that extends _buf asks for; delay asks for nothing.
Requests ==
    {<<>>}
    \union {<<<<c, 0, x % 256>>>> : c \in Enabled, x \in Values}
    \union {Patch(c, x) : c \in Enabled, x \in Values}
    \union {Strike(c, w, x) : c \in Enabled, w \in Waves, x \in Values}
    \union {<<<<c, 4, w>>>> : c \in Enabled, w \in Waves}
    \union {<<<<c, 24, 15>>>> : c \in Enabled}

\* What is sent without a look at _buf.
Orders == {<<<<m>>>> : m \in 0 .. 1} \union {Phrase(c, x) : c \in Enabled, x \in Values}
          \union {StartItems}

Replays == {Read(FALSE, MIN_CYCLES, p).items : p \in Captures}

Promise == INSTANCE CommandQueue WITH
    Waiting <- Requests, Closing <- {<<>>, SweepWrites, InitWrites},
    Alone   <- Replays,  Urgent  <- Orders,
    pending <- Read(FALSE, 0, _buf).items,
    sent    <- Read(open, gap, FlattenSeq(ring)).items

\* Read as the device reads them, _buf and the ring are two queues of commands
\* and nothing else: what waits is sent in order, once, and as a beginning of it
\* if the flush fails; real-time writes and modes overtake only what waits; the
\* device changes to no mode that nobody asked for.
ImplementsQueue == Promise!QueueSpec
=============================================================================
