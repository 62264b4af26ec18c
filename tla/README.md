# hardsid4u in TLA+

`hardsid4u` drives a HardSID 4U, a USB box with four SID chips, from Python. It
has two layers: `hs4u.py` (the device: ring buffer, start, arming, diagnosis,
register streams) and `midi.py` (a live MIDI instrument over it: voices,
pitch bend, panic, recovery, watchdogs). There are no unit tests: what the
driver guarantees was found out by hand on the device and is written in
comments. This directory states those guarantees over models of the code,
model-checks them with TLC and proves the central ones with TLAPS.

Line numbers refer to `src/src/hardsid4u/hs4u.py` (H) and
`src/src/hardsid4u/midi.py` (M). `PROJECT.json` maps every definition to its
lines.

## 1. The system

### Components

| component | state | operations | what is hard | correct when |
|---|---|---|---|---|
| Ring flow control (H 384-391, 588-653; M 178-212, 302-424) | the device's `rd`/`wr`, `_IO_LOCK` | `write_regs_now`, `flush`, `_wait_room`, `drain`, the probes' writes | a full ring reads as empty; late status; slipping pointer; four threads | the ring is never full; room seen is still there at the transfer; the lock is given back |
| Voice table, patch, register blocks (M 116-175, 445-668) | `VoiceSlot.note/state/on_time`, `patch`, `bend_semitones`, `_bend_dirty`; the chip's registers | `note_on`, `note_off`, `pitch_bend`, `flush_bend`, `control_change`, `all_notes_off` | stealing and retriggering; failed writes; what re-arming destroys | table and chip agree; stealing is fair |
| Live session (M 674-1016, 1394-1462) | the same, shared without a lock by three threads; `_bend_lock`, `_IO_LOCK` | the callback, `_bend_flush_loop`, SPACE / R / A / X / V / T, `on_bus_fault` | every interleaving of the three | held keys are heard, released ones are not, the wheel's last position lands, nothing hangs |
| Engine start, mode, reset, diagnosis (H 396-575, 804-901; M 731-816) | `status[0x1E]`; whether the engine executes | `start_engine`, `set_system_mode`, `recover_mode`, `reset_engine`, `engine_executing`, `recover` | a device that answers late, never, or lies; nested retries | a healthy engine is left alone; arming happens in an acknowledged mode; "recovered" is true; every call ends |
| Device handle (H 302-380) | `h` | `open`, `close` | lost in a USB reset | |
| MIDI dispatch over four chips (M 674-695, 818-882) | `channels` | `__call__` | one recovery for all chips | a message reaches its chip only |
| Watchdog, health monitor (M 1094-1237) | last check, `stalled_since`, `was_running` | the two loops | a status read before a check or a recovery is used after it; checks depend on all voices being free | a stopped engine and a stalled ring are reported, the run bit is followed |
| Wire format, arming (H 163-260; M 145-175) | none | `encode_reg`, `encode_delay`, `pad_even`, `chip_init_stream`, `_build_block` | parity of the escape; alignment | no block leaves an escape open; writes are 8 cycles apart; besides the sockets in use only two registers of chip 0 are written to, with zero |
| Buffered API (H 579-586, 657-741) | `_buf`, `_wave` | `reg`, `delay`, `raw`, `voice`, `note_on`, `silence`, `init`, `flush` | a flush given up half way; blocks that go past `_buf` | the device reads the commands asked for |
| Flight recorder (M 227-296, 379-408) | a bounded list, `expected_wr` | `record`, `dump`, the prediction in `write_regs_now` | its prediction must follow every write; statuses are late | what it reports as a slip is one, and every slip it can know of is reported; the culprit is in the dump |
| Command line, shutdown (M 1240-1476) | threads, terminal | `main` | Ctrl+C with a lock held, or in the middle of a bounce | the program ends |
| Conversions, reports, tools, examples, captures | none | | no state | |

### How they interact

- Threads: the rtmidi callback runs `__call__`; `_bend_flush_loop` wakes every
  few milliseconds; the main thread reads keys; `watchdog_loop` and
  `health_monitor_loop` read the device. All of them reach the device through
  `_IO_LOCK`, a re-entrant lock.
- `_IO_LOCK` covers what goes to the device. It does **not** cover the voice
  table, the wheel position, its flag or the patch, which the callback changes
  before it asks for the lock and panic changes while holding it.
- `_bend_lock` covers one flush of the wheel, and is held while the flush waits
  for `_IO_LOCK`; panic holds `_IO_LOCK` and never takes `_bend_lock`.
- A write that finds no room raises `BusBusy` to the handler; `__call__` turns
  it into `on_bus_fault`, which recovers at most once every two seconds.
- Recovery diagnoses the engine by timing a delay; only an engine that does not
  execute has its mode bounced, and only if that fails is the device
  re-enumerated. Arming the sockets destroys filter and volume, which are
  restored afterwards.

## 2. Modules

| module | models | state |
|---|---|---|
| `RingFlow` | ring flow control | `rd wr fill hidden lock phase rest` |
| `ChipState` | voice table, patch, registers and the register blocks as operators | `note state on_time bend dirty patch sid` |
| `ChipChannel` | one chip, its handlers one at a time, with failing writes | + `synced aligned` |
| `KeyHistory` | `ChipChannel` with the player's keys remembered | + `down later` |
| `LiveSession` | one chip and three threads | `ChipState` + `pc block io bend_lock due recent rung news` |
| `Instrument` | what a chip promises: a bounded set of notes | `sounding before reliable` |
| `EngineMode` | engine, its mode, diagnosis, reset, start, exits and restarts | `mode ack willing engine handle pc caller n checking told` |
| `EngineService` | what the callers of `EngineMode` may rely on | `bit plays reach call told` |
| `Watchdog` | watchdog and health monitor, over `EngineService` | + `voices backlog watch seen was_running due stalled probed found` |
| `DelayMeasure` | how the engine is measured through a late status | `wr queue spent engine late old`; `pc n long target hurried raced verdict` |
| `Recorder` | the flight recorder, over `DelayMeasure` | + `recording held writing expected predicted slipped doubt forget run fatal watch` |
| `WireFormat` | words, delays, padding, the arming stream, how the device reads | none: operators |
| `CommandStream` | the calls that compose and send, the ring of blocks, the device | `_buf _wave ring open gap mode held owed bare` |
| `CommandQueue` | what the buffered calls and `flush` promise: two queues of commands | `pending sent mode` |
| `*Proofs` | the theorems about the module of that name (`ChipChannelProofs`: and `KeyHistory`) | |
| `ChipLemmas` | lemmas about `ChipState`: allocation, ages, blocks and registers | |
| `MC*` | the instance for TLC | |

How they are put together: `KeyHistory` extends `ChipChannel`, which extends
`ChipState` and implements `Instrument`; `LiveSession` extends `ChipState` too.
`EngineMode` implements `EngineService`, and `Watchdog` extends `EngineService`,
so that what holds of the watchdog holds over what `EngineMode` was shown to do.
`Recorder` extends `DelayMeasure`; `CommandStream` extends `WireFormat` and
implements `CommandQueue`. `RingFlow` is below all of them: it is why a write may
be taken as one step.

`ChipState` holds what `ChipChannel` and `LiveSession` share: allocation, the
blocks each handler builds, and what a chip does with a block; `ChipLemmas` is
what the proofs about both need of it. `ChipChannel`
takes a handler as one step, with everything a write can do; `LiveSession`
splits each handler where another thread can get in.

### RingFlow

A *call* is what a thread writes during one hold of `_IO_LOCK`: a sequence of
operations, each a poll for room followed by a transfer of one block.
`write_regs_now` asks for 4096 bytes (`RoomRealtime`), `flush`, the mode block and
`full_drain_time` for 1024 (`RoomBuffered`). `delta_probe`, which asks for none,
is not a call of this module. The field `drop` of an operation says how many
operations are abandoned when the wait runs out of time: all of them when the
exception leaves the call, fewer where the code catches it. `fill` is what is
really queued, which no driver can read; `Used` is the masked difference of the
pointers the driver computes. `Send` may let the pointer slip by a block (M
385-396 looks for such slips) and may leave the status behind (H 830-837 describes
the race). `Drain` is the device, which stops whenever it likes. `GiveUp` may
happen at any unsuccessful poll: time is not modelled, only that it ends. One
block per `write_regs_now` is exact: the longest list of registers, the sweep of a
panic, is 100 pairs of 4 bytes.

### ChipState, ChipChannel, KeyHistory

`note`, `state` and `on_time` are the fields of `VoiceSlot`; `on_time` is the
voice's rank in age, which is all that `min` looks at. A register block is a
record of what it writes: gate, waveform, envelope and frequency per voice,
the global settings, and the set of voices that get a gate-off pulse first. A
frequency is the pair of note and wheel position it is computed from; a
waveform, an envelope or a filter setting is one model value. `Apply` executes
a block and flips `attacks[v]` whenever the envelope of `v` restarts, that is
on a 0-1 transition of the gate.

A failed or short transfer leaves registers unknown. `synced` is then false
until a panic or a recovery has rewritten everything; the properties about
registers speak of a synced chip. The rewriting is what they test: with the
restore left out, or a register forgotten, a synced chip would disagree.

A transfer that is cut at an odd number of bytes does more: the device goes on
reading the stream across its word boundaries (`aligned` is FALSE), and register
writes do not reach it until the engine is started again, which discards the
ring (M 731-740). `Rearmed(s, step)` rewrites a device that is in step and
leaves one that is not unknown. `Recovered` may start the engine, when the
measurement finds it stopped, or may not, when the device out of step is taken
to execute; `hard_panic` re-arms without a measurement, unless it finds the run
bit down or its sweep is refused, which are the ways it becomes a `recover`. So
a panic does not bring a device back in step by itself, and the model claims
nothing of the chip until something has.

`KeyHistory` adds what stealing owes the player: which keys are down and which
notes were struck since. Its `Press` and `Lift` are `note_on` and `note_off`
with these two ghosts. `NoEarlySteal` is about the step: a held note loses its
voice to another only when every voice is held, none free or releasing, and then
it is the one struck first.

`Instrument` is the same thing said without voices, blocks or registers: a set
of sounding notes with the order in which they were struck. A note struck when
there is room is added; when there is none it replaces the one struck first; a
note lifted goes; a lost write silences the promise until a panic or a recovery.
`ImplementsInstrument` reads the abstract set off the *registers* of a synced
chip (open gates and the notes of their frequencies), not off the voice table.

### LiveSession

`pc[t]` says where thread `t` is and `block[t]` what it has built but not
written. Table changes happen when the block is built, without a lock; the
write is a step of its own (`WriteSent`, or `WriteBusy` when there is no room).
A flush takes `_bend_lock`, looks at the flag again, builds its block
(`FlushEnter`), writes (`FlushSent`) or drops it (`FlushDropped`), and clears
the flag in a further step (`FlushClear`), because `pitch_bend` may set it in
between. Panic, recovery and SID reset are split at the same places; `io` is
`_IO_LOCK` when it is held over several steps. `due` and `recent` are the two
clocks the code compares with (`BEND_MIN_INTERVAL`, two seconds). `news` is a
ghost: was the flag raised since a bend block was last written?
`OneBlockPerMessage` says that no bend block goes out without it.
`LocksOrdered` is the absence of deadlock as a statement about states: a thread
that holds `_IO_LOCK` is in panic or recovery and waits for no lock; one that
holds `_bend_lock` is inside a flush, and waits for `_IO_LOCK` at most.

The keys are all there: SPACE (`panic`), R and A (`recover`), X (`reset`), V
(`globals`), T (`tone`), and Ctrl+C (`quit`), which may come at any place of the
key loop and leaves what was about to be written. R, A, X and V are the rungs of
the ladder at M 1422-1452, and each ends in the test tone: `rung` remembers that
the key loop is in one, and `Onward` sends it to the tone when the rung is done,
also when its write found no room. A test tone is a note-on and a note-off by the
main thread in the callback's voice table, so that any of these keys may cut a
note the callback struck. The run `live`, whose promise is that no note is cut or
hangs, therefore has SPACE, the panic controllers, Ctrl+C and restarts, and none
of the rungs; `live_fair` has every key. `WriteBusy` is a full ring, `FlushFails`
a failed transfer, `WriteError` an error of the USB layer in the status read,
which `__call__` prints and forgets. `OnBusFault` and `Stamp` are the test and the
assignment of `_last_recovery`: two threads may pass the first and recover twice,
the second after the first. A recovery here re-arms a device that is in step and
executes; one that fails or does not reach the device is `ChipChannel`'s.
`ClosePort`, `Stop`, `all_notes_off` and the last write are the shutdown;
`Restart` is the program run again.

The granularity is the lock and the write. A handler reads or changes the table
in one step, except `pitch_bend`, whose two assignments are two (`pitch_bend`,
`MarkDirty`); Python may also switch threads inside a handler's loop over the
voices, which is left out. So is the early return of `flush_bend` for a `now`
older than the last flush: it only makes a flush later.

### EngineMode and EngineService

The device reports a mode and an acknowledgement. Asked for a mode other than
its own it may or may not acknowledge it later (`willing`, `Acknowledge`); a
block that asks a running device for the mode it is in stops it, as the comment
of `start_engine` reports. `Stray` is the same done by something in the stream
that is read as the toggle (H 99-131, M 1103-1107): the run bit clears. Only the
toggle of the device's own mode is modelled, one that spells another mode is
not. In mode 1, acknowledged, the engine executes, or
swallows its stream without executing it, or is stuck and consumes nothing;
`Fail` moves an executing engine to either. The driver's calls are one step per
poll or block: the acknowledgement may come between the last poll of an attempt
of `start_engine` and the next block, which then stops the device (`poll`,
`send`). A measurement ends in one of three ways: long enough (`MeasureGood`),
too short (`MeasureAgain`, `MeasureShort`; on an executing engine only through
the status race, at most `MaxUnlucky` times in a row), or not at all, on a ring
that does not drain (`MeasureTimeout`). Besides, any status read or transfer of
it may raise (`MeasureRaises`, at any time, and always on a closed handle); so
may those of arming, bouncing and starting (`RearmFails`, `AskFails`,
`StartFails`). Whoever measures catches the exception and goes on as if the
engine executed: the diagnosis of `recover` goes on to arm, its verification
returns True (M 797-816), a check answers that all is well (M 1144-1145). `told`
calls such an answer `"unmeasured"`, which no caller can tell from a good one.
`VerifiedNotSwallowing` is therefore about recoveries whose verification comes
to its end. `ArmedInMode` is about the moment at which `recover` goes on from a
reset to arm the sockets; the mode may go again at any time after it, by
`Stray`. `Quit` ends the program in the middle of any call;
`Rerun` starts it again on the device as it was left, `PowerCycle` on a cold one.

`EngineService` forgets the steps. There is at most one call; while `open` or
`recover` runs, the mode may be asked for and the engine be anything afterwards;
`Break` and `Lapse` are what the engine and the run bit do by themselves.
`Answers` says what each call may return: a check says "stopped" of an engine
that swallows and of no other, a recovery is reported of none that swallows; but
either may be `"unmeasured"` instead, whatever the engine does. `open`, and
`hard_panic` on the main thread, may end the program (`Die`). A *stuck*
engine may be called executing or recovered, as in the code (H 894): the
abstract specification says what the answer is worth, which is less than
"recovered" suggests. A program ended during a bounce leaves mode 0
acknowledged, and the next start, which looks at bit 7 alone, takes it for
running: `plays = "not"` behind a run bit that is set.

### Watchdog

`seen` is the status the loop read under the lock; between that and the
comparison with `was_running` there may be a check and a whole recovery, its own
or another thread's. `Judge` starts a check when one is due and all voices are
free, else looks at the run bit and the backlog (`Look`). The measurement, the
recovery and the other threads' calls are the actions of `EngineService`. Voices
are one of three classes, because that is what the condition tells apart.
`backlog` is "more than two blocks in the ring". Four clocks are reduced to
"has it passed?": the check interval, the two seconds of the stall test, the
twelve after a test tone (`probed`), and the interval of the monitor, which
needs none. The health monitor's probe sets no `_last_probe`, contrary to the
comment at M 1183-1186, so that it may raise a false stall alarm; that
`Probe` finds delays not honored is possible of any engine that consumes.
`StopReported`, that an engine which swallows is reported again and again, needs
measurements that do not raise for ever (`Measured`): each that does counts as a
good answer and puts the report off to the next check.

### WireFormat and CommandStream

A word is a pair of command and data. `Read` is the device: from word to word it
carries whether it is in an escape, the time since the last write, and the
commands read so far. It is a recursive function (`Reading`), so that it can be
proved about. `encode_reg`, `encode_delay`, `pad_even`, `_build_block` and
`chip_init_stream` are the driver's functions; the arming stream is the whole of
it, and an ASSUME of `MCCommandStream` compares its length with the captured one.

`CommandStream` puts them together. The calls of the buffered API extend `_buf`;
`flush` empties it first and sends the blocks until one finds no room (`Send`
with any `k`), so a flush given up loses what was left; mode blocks and
real-time blocks go past `_buf`. `held` and `owed` are ghosts: the commands that
`_buf` and the ring *should* contain, kept as commands, never as words, so that
`ReadsWhatWasAsked` compares two independent accounts. `start_engine` is a call
as well: its block is the toggle, mode 1 and zeros (H 492-495), and every word of
zeros is, to the device, a write of zero to register 0 of chip 0. It may be sent
at any time; when the driver sends it is `EngineMode`'s. `bare` is a ghost too:
it is set where the driver itself leaves a write with no time after it (`reg`
without `delay`, a flush given up, the start block, and `init` of an odd number
of sockets, whose payload is even and ends in a write, so that the zero-length
padding follows), and goes back to FALSE once the device has read everything,
`_buf` is empty and the time after the last write is over (`Quiet`); `Spaced`
speaks of the time in which it is FALSE.

`CommandQueue` is the same without words, blocks, padding or delays: commands
that wait (`pending`), commands on their way (`sent`), the mode last executed.
A call asks for something that waits, sends all that waits or a beginning of it
(`Flush`), or overtakes it; the device performs what was sent in order, and may
drop what is behind a mode change. `ImplementsQueue` reads both queues off the
*words*, as the device does. `ReadsWhatWasAsked` compares the two queues end to
end with ghosts; this says where the boundary between them is at every step, so
that a flush given up which left words behind, to be sent with the next, would
break it without any word being misread.

Three assumptions say what the constants may be: `StreamAssumption` (types),
`RowsAssumption` (every row of the arming stream waits `MIN_CYCLES` before it
writes, and the knock on socket 0 writes zero, which TLC evaluates of the rows of
the instance) and `CaptureAssumption`: a captured stream is one the device can
be sent, with no escape left open at the end of a block, and times itself. The
captures are recordings, so nothing the driver does could make them so. That
they write to chips in use only, `CapturesKeep`, is not assumed but a hypothesis
of `ChipsKept`; `MCCommandStream` assumes it of its one capture.

Two comments of the code say more than it does: that a disabled chip gets "zero
writes" or "zero bytes" (M 677-679, M 1257-1262, M 1347). Arming any socket
writes register 0x1E of chip 0 (H 228), and the zeros of a start block spell
writes of its register 0 (H 492). `OnlyTheKnock` is the promise that does hold:
those two registers of chip 0, always with zero, and nothing else.

### DelayMeasure and Recorder

`queue` is what the device has still to pass beside the block it rests on,
`late`/`old` the status race: from a write on the status may be that of before it,
until `Refresh`. Durations are one bit: `long` says whether the delay of the block
being measured has really passed. `hurried` remembers whether the status was late
when a measurement was judged, and `raced` how many of a check's were. So the
premise of `EngineMode` (`MaxUnlucky`) is not taken from a comment alone:
`StoppedMeansRaced` shows that a healthy engine is called stopped only when all
three measurements were spoilt by the race. `Raised` is an error of the USB layer
at any place of a check. `measure_delay_rate`, which the tools use, is beside it.
With a target read in time its loop ends (`Reached`) when the ring is at rest,
that is after the whole delay; the comments at H 759-763 and H 814-818 say about
half of it. The difference is one of the measured rate, whose healthy baseline the
comment gives as measured; whether the delay passed at all (`long`) is what
`FastMeansLate` tells apart.

`Recorder` adds `write_regs_now` with the recorder on: the transfer, which may
slip by a block (M 385-396), and the recording, both under the lock, unless the
status read between them raises and the block is recorded nowhere
(`WriteUnrecorded`, M 390). `Bypass` is what goes past it: the blocks of `init`
and of mode changes, and a transfer that raises, of which only the first bytes are
kept; a check's blocks do too. Any of these may be the one that stops the engine
(`fatal` is then `"missed"`). `Revive` starts the engine again and resets the ring
and its pointers; `Forget` is where the prediction is dropped, with the lock or
without it. `slipped` and `doubt` are ghosts: whether the transfer being recorded
slipped, and whether the device's pointer may differ from `expected_wr` for
another reason, a late status, a block past the recorder or a restart.
`SlipsAreTrue` says that without such a reason the comparison at M 391-396 finds a
slip exactly if there was one: so one event falsifies one report at most, and none
before it matters, because `expected_wr` is taken from the status after every
recorded write. False reports do occur, after a panic, which does not drop the
prediction, or a check that raised, and the property excuses the first write after
them. `CulpritRecorded` excuses the transfers of `"missed"`. The watchdog's sight
of the run bit takes the lock, the dump does not.

## 3. Runs

| run | asks | answer |
|---|---|---|
| `ring_realtime` | types; does live play ever fill the ring; is room seen still there; is the lock given back | no, even with slips and a late status; yes; yes |
| `ring_stale` | the buffered path (panic, recovery) with a late status | **violated**: the ring fills exactly |
| `chip` | do table, patch and chip agree; is stealing fair; do keys reach their voice; is it the instrument it promises to be | yes |
| `live` | gates under every interleaving of callback, flush thread, panic by key or controller, Ctrl+C and a restart, when no write fails and no rung of the ladder is used; is a wheel message sent twice | right; no |
| `live_fair` | can threads wait for each other; is every message dealt with, every wheel position served, does Ctrl+C end the program | no; yes |
| `live_final_bend` | does the last wheel position land | **violated**: a flush clears the flag of a newer position |
| `live_hang` | does nothing sound after a panic | **violated**: a waiting note-on is written after it |
| `engine` | is a healthy engine left alone; mode before arming; are verified recoveries true; does it keep what callers rely on; do calls end | yes |
| `watchdog` | is the run bit followed; are a swallowing engine and a stalled ring reported | yes; the engine while all voices are free and measurements do not raise |
| `watchdog_blind` | is a swallowing engine reported when no key is held | **violated**: a released voice is not free, and stays so |
| `wire` | does the device read what was asked for; escapes, spacing, other chips; are the words two queues of commands | yes; of the other chips two registers of chip 0, with zeros |
| `recorder` | when is a healthy engine called stopped; are reported slips true; is the culprit in the dump | only after three spoilt measurements; yes, but right after a bypass, a restart or a late status; yes, unless an error kept it out |

The violated properties state what the code's own comments promise; the
findings in `PROJECT.json` quote them.

More divergences need no run: the docstring of `hard_panic` (M 891-893)
says that `reset_engine=True` "is what SPACE now does", but the key loop calls
`hard_panic()` without it; the "zero writes" above; `recover`, whose comment says
"Verify rather than assume" (M 797-816), returns True when the verifying
measurement raised; and the watchdog's "The bytes are in the dump" (M 1103-1107)
fails when the transfer, or the status read after it, raised. The modules follow
the code. The same race as in `live_final_bend`, with two notes on one voice, gives
the second the first one's pitch: a retune built from the old table is written
after the note-on (M 600).

### Bounds

- Ring: the driver's numbers (8192, 512, 4096, 1024). Two threads; the lock
  serialises them, so a third only adds waiters. In `ring_stale` two blocks of
  `init` stand for many: what matters is that buffered writes follow each other
  and mix with real-time ones.
- Chip: three voices and four notes, so that a free, a releasing and a held
  voice can each be the victim and one key is always without a voice; two wheel
  positions and two settings, so that a stale one differs. One waveform and one
  envelope suffice for the gates they travel with; that they are applied is
  proved for any number of them.
- Live: two voices, three notes, one position, two settings for the safety
  properties; one voice, two notes, one position for liveness, where the
  question is who waits for whom; there the registers, which no step reads, are
  not kept (`Listen` is FALSE). `live` has no bus faults, so that the promise it
  checks is not the excuse of a dropped write, and none of the keys R, A, X, V
  and T, which all end in the tone and so cut notes by design; `live_fair` has
  all of them.
- Live violations: the smallest instance with the race.
- Engine: the driver's own counts, four bounces and six start blocks, and two
  spoilt measurements in a row, one less than the driver allows for.
- Watchdog: no bounds; everything it reads is a bit or a class.
- Wire: blocks of eight words instead of 256, so that flushes of several blocks
  and every remainder occur; one chip in use that is not chip 0; two rows of the
  arming stream, an ordinary one and the one that writes to chip 0, an odd number
  of words like the whole; `_buf` is extended up to two words (`MaxWords`) beyond
  which one call may still add its own; two blocks in the ring (`MaxBlocks`).
- Recorder: a ring of four blocks (`RingBlocks`; the pointers wrap) and two
  waiting (`MaxQueue`), which is a block, a slip and the one at rest. The
  theorems about it are for any size.

### Fairness

- `RingFlow`: a thread that holds the lock keeps running (weak fairness of its
  steps) and a wait that keeps finding no room runs out of time (strong
  fairness of `GiveUp`: each wait has a wall-clock limit). Nothing is assumed
  of the device.
- `LiveSession`: the callback and the coalescing thread get a lock that is
  released again and again (strong fairness: the others hold it for
  milliseconds and sleep in between; Python's locks are not starved by threads
  that sleep). A flush that is retried again and again finds room in the end
  (strong fairness of `FlushSent`), because the device drains; a device that
  does not is recovery's business, not the flush's. The key loop and the
  shutdown need only go on while they have something to do. Time passes (`Due`),
  and the coalescing thread wakes (`BendWake`). Nobody has to press a key, play
  or quit.
- `EngineMode`: the driver's call goes on (weak fairness). The device need
  never acknowledge, drain or execute.
- `Watchdog`: calls end, which is `CallsEnd` of `EngineMode`; the loop goes on
  and gets the lock, which the other threads release and sleep (strong fairness
  of `Poll` and `StartCheck`); the clocks run. Nobody has to play, and the
  health monitor, off by default, need not run.

## 4. Proofs

| theorem | says, for every value of the constants |
|---|---|
| `RingFlowProofs!TypeCorrect` | types, whatever the margins |
| `RingFlowProofs!RingSafety` | if every operation asks for more than `MaxWrite + MaxHidden`, the ring is never full and room seen is room had |
| `RingFlowProofs!LivePlayIsSafe` | the real-time threshold satisfies that, slips and late status included |
| `RingFlowProofs!BufferedIsSafeWhenFresh` | the buffered margin does with a fresh status and no slips |
| `ChipChannelProofs!ChipAgreement` | types, one voice per note, gates, pitch and patch agree |
| `ChipChannelProofs!AttackIsFresh` | every note-on that goes out restarts its envelope |
| `ChipChannelProofs!PromiseKept` | `ChipChannel` implements `Instrument` |
| `ChipChannelProofs!StealingIsFair` | a held note is taken only when every voice is held, and then the one struck first; no voice is held for a key lifted |
| `ChipChannelProofs!LastNotesKept` | a key down, with fewer other notes struck after it than there are voices, still has its voice (no panic, recovery or all-notes-off in between) |
| `LiveSessionProofs!TypeCorrect` | types, whatever fails and however the threads interleave |
| `LiveSessionProofs!NoBlockTwice` | two flushes never write one wheel message |
| `LiveSessionProofs!TableIsHeard` | if no write fails and no key but SPACE and Ctrl+C is pressed (the panic controllers included), the gates of a settled chip are the table's |
| `LiveSessionProofs!HangsComeOfPanic` | if no write fails and nothing but Ctrl+C is pressed, what sounds is held in the table |
| `LiveSessionProofs!NoDeadlock` | the locks are taken in one order and given back, whatever fails |
| `EngineModeProofs!TypeCorrect` | types: the counters of attempts, blocks and measurements stay in their bounds |
| `EngineModeProofs!ArmedInModeOne` | `recover` goes on from a reset to arm in mode 1, acknowledged |
| `EngineModeProofs!EngineSafety` | no healthy bounce, if `MaxUnlucky < 3` |
| `EngineModeProofs!RecoveryIsVerified` | a verification that comes to its end reports no success on a swallowing engine |
| `EngineModeProofs!ServiceImplemented` | `EngineMode` implements `EngineService`, if `MaxUnlucky < 3` |
| `WatchdogProofs!TypeCorrect` | types: what the loop works with is a whole status |
| `WatchdogProofs!AnswersAreOwn` | the answer the watchdog waits for is that of its own call |
| `WatchdogProofs!AlarmsAreTrue` | no alarm but of an engine that swallows its stream, found by its own check |
| `CommandStreamProofs!TypeCorrect` | types: what is sent is whole blocks of words, for blocks of any size |
| `CommandStreamProofs!EscapesClosed` | no block leaves an escape open |
| `CommandStreamProofs!ReadAsAsked` | the device reads exactly the commands asked for, in order |
| `CommandStreamProofs!QueueImplemented` | `CommandStream` implements `CommandQueue` |
| `CommandStreamProofs!WritesSpaced` | writes are `MIN_CYCLES` apart, unless one left without its delay is still on its way |
| `CommandStreamProofs!ChipsKept` | a chip not in use gets no write, but for zeros in registers 0x1E and 0 of chip 0, if the captures keep that promise |
| `RecorderProofs!TypeCorrect` | types; a check takes three measurements at most |
| `RecorderProofs!SlipsReported` | a predicted write with statuses in time is reported as a slip exactly if it slipped, for a ring of any size |
| `RecorderProofs!DumpTellsWhy` | the transfer that stops the engine is recorded before the dump, unless it or the status read after it raised |
| `RecorderProofs!StoppedNeedsThreeRaces` | an executing engine is called stopped only after three spoilt measurements |
| `RecorderProofs!FastNeedsALateTarget` | its rate is found too high only from a late `wr_target` |

**RingFlow.** `NoOverrun` is not inductive: a transfer is safe because of the
room its call saw. `IInv` therefore has `RoomHolds`, and this holds because only
the lock's holder is inside a call (`HolderOnly`), because what is left of a
call asks for enough (`SafeRest`) and because the status hides no more than one
write (`HiddenBound`). The assumption `SafeMargins` says that every operation
asks for more than a slipping write plus a hidden one. `ring_stale` is what
happens without it: 1024 bytes is not more than 512 plus 512.

The types need none of that, and hold on a ring that is overrun too: `FlowInv`
says that the difference of the pointers is at most what is really queued
(`Behind`), so that the device, which goes by the pointers, never executes more
than there is; and that only the lock's holder has operations left.

**ChipChannel.** The properties are nearly inductive together: `IInv` adds that
no note is on two voices (`UniqueNotes`, which the runs see through
`HeldForAKey` and `ImplementsInstrument`: a note on two voices breaks both),
that a voice in use has a note and that the ranks are a permutation (so that an
oldest voice exists and `_allocate` always answers). The proof goes handler by
handler, in two halves, the table by itself and the chip's agreement with it.
`CHOOSE` of a least voice is justified by well-founded induction on the natural
numbers, through a library theorem without operator parameters. Constants:
`ChipAssumption` (at least one voice, non-empty sets of values).

**KeyHistory.** `NoEarlySteal` relates a step to the keys, so the invariant must
say what the keys remember: `StruckLater`, that the key of a voice held remembers
the notes of all the younger voices held. When a voice is taken from a key that
is down, all voices are held and it is the oldest (`StealsOldest`); so its key
remembers the notes of all the others, and no step but a strike takes a voice
from a key that stays down (`OnlyStrikesTake`). `LastNotesKept` says what that
comes to over many strikes: the last notes struck, as many as there are voices,
keep theirs. The notes a robbed key remembers are those of the other voices, all
different by `UniqueNotes`, and the new note, which no voice plays: one for each
voice. The counting is an injection from the voices into the notes remembered
(`AsManyAsVoices`).

**LiveSession.** That the types hold needs an invariant about what is in flight,
`TInv`: a block built and not yet written is `WellFormed` (its values are ones
the registers may hold), and the ranks in age are a permutation, so that a voice
to steal exists. There must be a note for the test tone to play
(`LiveAssumption`).

That the flag is looked at again under `_bend_lock` is what
`NoBlockTwice` is about. `IInv`: whoever is inside a flush holds the lock; a
block about to be written carries news; a flag that is up stands for news
unless the flush that sent it is about to take it down.

`GatesAgree` speaks only of moments when every thread is idle. `GInv` says the
same in between: a voice's gate on the chip, or the one in the callback's block
not yet written, is the table's (`Kept`), except while the chip is swept and the
table is not (`Wiping`). The step that could break it is the second arming of a
panic, after the table was reset: a note may have been struck in between, and
survives because its block waits for `_IO_LOCK` (`ArmSafe`). The assumptions
(`Undisturbed`) are those of the run: registers that are kept, no write that
fails, and of the keys SPACE and Ctrl+C. A write that fails breaks it, and so
does every rung of the ladder, by the tone it ends in or by the SID reset, which
cut notes. So nothing is claimed of a `recover` in `LiveSession`, whether a key or
a bus fault asked for it: what it does to one chip is `ChipChannel`'s.

`NothingHangs` is violated by `live_hang`, and `HangsComeOfPanic` says by what:
with no key but Ctrl+C, and so no panic controller either, it holds, for every
number of voices (`Unpanicked`; no run of the project has panic away: `live` with
`Keys = {"quit"}` and `NothingHangs` is the instance to check). A
voice that is free is then silent, and no block of the callback is about to
open it (`Silent`, beside `GInv`); only a reset of the table beside the callback
can free a voice whose note is on its way. `LocksOrdered` needs no strengthening
but that of the labels (`OInv`), and no assumption: it holds through failed
writes, Ctrl+C and restarts. That the locks are in fact obtained again is
`MidiAnswered`, which is liveness and TLC's.

**EngineMode.** `ArmedInMode` is about the steps that go on to arm, and depends on
how a call came to where it is: `Flow` says who can be at each label, that the
mode asked for last is mode 1 once the bounce waits for it, and that
`start_engine` inside a reset finds a device whose last mode is mode 1, or one
that will acknowledge none. That needs no premise about measurements.
`VerifiedNotSwallowing` needs none either: a verification that ends in "recovered"
is one that was long enough or ran out of time, and neither is possible of an
engine that swallows; one that raises is told apart by what it returns in the
model, as it is not in the code. `HealthyUntouched` does: `IInv` adds that a first
bounce begins at a swallowing engine which reports itself running or has lost its
run bit for good (`BounceAtSwallowing`), so that nothing heals it before the
bounce. `MaxUnlucky < 3` is the driver's own premise, that the largest of three
measurements is not spoilt (H 884-889).

**Instrument.** The refinement needs `IInv` and one fact more, that on a synced
chip the open gates are the held voices, each with its own note (`HeardIsHeld`),
so that what is heard can be computed from the voice table. Then every handler is
shown to be a step of `Instrument`: a note-on takes, by `_allocate`'s three
cases, a voice that adds, repeats or replaces, and in the last case it is the
voice of least rank, whose note is the only one nothing was struck before.

**EngineService.** A step-by-step simulation under the invariant of `EngineMode`:
most steps of a call are stutters or `AskMode`; the answers need
`MaxUnlucky < 3` (a check that says "stopped" of an executing engine would
otherwise be possible).

**Watchdog.** `Watchdog` uses the actions of `EngineService` as they are, and
`ServiceImplemented` is what makes that worth something: nothing the watchdog
relies on is more than what `EngineMode` does, if `MaxUnlucky < 3`. `WInv` adds to
the types those of the service and `OwnCalls`: while the watchdog waits, the call
under way is its own, because it was begun in the same step and nobody else begins
one before it ends. So the answer that sends it on is its own too, and an alarm is
one of an engine that swallows its stream at that moment. That it does so still
when the recovery begins is not claimed: another thread may have recovered it in
between. Without parameters or bounds the run `watchdog` is exhaustive already;
TLC also finds `OwnCalls` and the alarms as proved.

**CommandStream.** `IInv` takes the stream apart, so that each part can be read by
itself: `_buf` has no escape and tells what was asked for (`BufOK`); every block
in the ring is closed, and together they tell what is owed (`RingOK`); unless a
write was left bare, `_buf` and the ring are each well spaced and end with the
time up, after the last block and after every one that changes the mode, where
the rest may be dropped (`TimeOK`); and both keep the promise of `--chips`
(`KnockOK`). A start block reads as its toggle and one zero for every word that is
left, for blocks of any size (`StartReads`), and sets `bare`; once the ring and
`_buf` are empty and the time is up, `TimeOK` holds again of what is left, which
is nothing. The lemma that makes this an invariant is that reading one stream
after another is reading them joined. The rest is what `encode_delay`,
`pad_even`, `_build_block` and `chip_init_stream` produce, for any arguments,
and what any number of their blocks is when it is cut short.

What a reader makes of a stream of any length is induction over data. Here it is
done through the least counterexample: a set of numbers that has zero and the
successors of its members is `Nat` (`Upwards`), because its complement would have
a least member (`NatLessThanWellFounded`, a library theorem without operator
parameters). From it follow that the recursion of `Reading` has a solution
(`Recursion`), which a recursive function does not have for nothing, and each
fact about it.

**CommandQueue.** Under `IInv` the mapping is known: no block is open, `_buf`
has no escape, so `_buf` read from the start is `held` and the ring read from
where the device is is `owed` (`QueuesRead`, by which the words leave the proof).
What is left is one case per call: those that extend `_buf` ask for one of
`Requests` (`AskStep`); those that flush send a number of commands from the front
of what waits, because the blocks that went out read as a beginning of the whole
(`FlushedStep`); mode blocks and real-time blocks overtake; and the block the
device reads is a number of commands from the front of `sent`, the last mode
change among them being the mode (`ExecuteStep`).

**Recorder.** `IInv` says where the write pointer is while nothing is in doubt:
between writes it is `expected_wr`, if there is one, and while a block is being
recorded it is the prediction, or a block further if the transfer slipped
(`Accounted`); that a block is being recorded exactly while the lock is held for
it, and that a transfer sent and not recorded has the lock (`LockOK`); and that a
tool has no prediction (`Silent`). A step that goes past the recorder keeps it by
raising `doubt`, and a record re-establishes it from the status, unless that is
late. That a slip is seen at all is arithmetic of remainders: a block further is
another place in a ring of more than one block (`OneOn`), by lemmas on `%` that
follow from what the solver knows of division. The verdicts have an invariant of
their own, `MInv`: a measured block whose delay is not over is the last in the
ring, so a ring that looks at rest is one whose status is late, and all
measurements made so far were. The types follow from the two and from counting the
measurements (`Numbered`).

**Only model-checked:** all liveness (`LockReleased`, `MidiAnswered`,
`BendServed`, `ShutdownEnds`, `CallsEnd`, the three of `Watchdog`), which is out
of the prover's reach, and the violations, which are counterexamples. Every
invariant and every action property of the passing runs is proved.

## 5. What is not modelled, and the plan

Not modelled: conversions (real arithmetic without state), reports, demos,
hardware probes, captures, arguments and terminal settings, the libusb calls of
`open`, `raw` (it sends what it is given), the events of the
recorder. Simplified, and where it matters: time (durations are replaced by
"has it passed?"); four chips (one, since they share only the ring and the
recovery); the content of blocks in `RingFlow` and of mode blocks in
`EngineMode`; a stray toggle that asks for another mode than the device's own;
the registers between a failed write and the recovery after it.
Of the shutdown: an error other than `BusBusy` in the last note-offs, which
skips `hs.close()`, and daemon threads that use a device already closed.
`delta_probe`, which sends a block without asking for room and calls delays
honored when the ring does not drain, is in `Watchdog` by its result only.

Order of the work, the most important behaviour first:

1. *Done.* `RingFlow`, `ChipState`/`ChipChannel`/`KeyHistory`, `LiveSession`,
   `EngineMode`, with their theorems.
2. *Done.* `Instrument` and `EngineService` as abstract specifications, with the
   refinements checked and proved; the shutdown, the remaining keys and the USB
   errors in `LiveSession`; the exits and restarts, and the split of poll and
   block, in `EngineMode`; `Watchdog`; `WireFormat` and `CommandStream`;
   `DelayMeasure` and `Recorder`.
3. *Done.* Proofs of `GatesAgree`, of `NoEarlySteal` and `HeldForAKey`, of
   `StoppedMeansRaced` and `FastMeansLate`, of the reading of the command stream
   (`ReadsWhatWasAsked`, `Spaced`, `OnlyTheKnock`), of all
   types, of the refinement of `CommandQueue`, of the order of the locks
   (`LocksOrdered`), and of what `live_hang` comes of (`HangsComeOfPanic`).
4. `Dispatch`: four chips over one lock, `on_bus_fault` recovering all of them.
5. The block of `delta_probe` in `DelayMeasure`, with the early end it may read.

## 6. Running

    tlc -workers 2 -config MCLive.cfg MCLiveSession
    tlapm EngineModeProofs.tla

Each configuration names the constants of its run; the modules `MC*` hold the
sets that a configuration cannot write down. The definitions introduced as
mutants are never part of a specification: each is a bug that the property named
in `PROJECT.json` notices.
