---------------------------- MODULE LiveSession ----------------------------
(* One chip while the MIDI program runs. Three threads share it:             *)
(*   "midi"  the rtmidi callback, one message at a time;                     *)
(*   "bend"  the coalescing thread, which sends the wheel positions that the *)
(*           callback could not send at once;                                *)
(*   "main"  the key loop: SPACE (panic), R and A (recover), X (SID reset)   *)
(*           and V (the globals again), which all end in a test tone, T (the *)
(*           tone alone), Ctrl+C (shutdown).                                 *)
(* The voice table, the wheel position and its flag are shared and not       *)
(* locked; _IO_LOCK covers what goes to the device, _bend_lock a flush.      *)
EXTENDS ChipState

CONSTANTS
    Keys,     \* the keys pressed, a subset of KeyNames
    MayFail,  \* may writes find no room or fail, and status reads raise?
    Listen,   \* are the chip's registers kept? No step reads them
    Nobody    \* "no thread holds the lock"

KeyNames == {"panic", "recover", "reset", "globals", "tone", "quit"}

\* The keys that end in test_tone
Rungs == {"recover", "reset", "globals"}

ASSUME LiveAssumption ==
    /\ Keys \subseteq KeyNames /\ MayFail \in BOOLEAN /\ Listen \in BOOLEAN
    /\ Nobody \notin {"midi", "bend", "main"}
    /\ Notes # {}

VARIABLES
    pc,        \* where each thread is
    block,     \* the block each thread has built and not yet written
    io,        \* the thread that holds _IO_LOCK over several steps
    bend_lock, \* the thread that holds ChipChannel._bend_lock
    due,       \* has BEND_MIN_INTERVAL passed since _last_bend_write?
    recent,    \* is _last_recovery less than two seconds ago?
    rung,      \* is the key loop in a rung of its ladder, before the tone?
    news       \* was the flag raised since a bend block was last written?

table == <<note, state, on_time>>
wheel == <<bend, dirty, due, news>>
marks == <<recent, rung>>
vars == <<table, wheel, patch, sid, pc, block, io, bend_lock, marks>>

Threads == {"midi", "bend", "main"}

Init == /\ ChipInit
        /\ pc = [t \in Threads |-> "idle"]
        /\ block = [t \in Threads |-> NoWrite]
        /\ io = Nobody /\ bend_lock = Nobody
        /\ due = TRUE /\ news = FALSE
        /\ recent = FALSE /\ rung = FALSE

\* t goes on to l with block b to write.
Goto(t, l, b) == /\ pc' = [pc EXCEPT ![t] = l]
                 /\ block' = [block EXCEPT ![t] = b]

\* What block b does to the chip, as far as it is looked at; how often an
\* envelope restarted is ChipChannel's.
Played(s, b) == IF Listen THEN [Apply(s, b) EXCEPT !.attacks = s.attacks] ELSE s

-----------------------------------------------------------------------------
(* MIDI messages: the table changes and the block is built, without a lock *)

note_on(n) ==
    LET v == _allocate(n)
    IN  /\ pc["midi"] = "idle"
        /\ note' = [note EXCEPT ![v] = n]
        /\ state' = [state EXCEPT ![v] = "held"]
        /\ on_time' = Touch(v)
        /\ Goto("midi", "write", NoteOnBlock(v, n))
        /\ UNCHANGED <<wheel, patch, sid, io, bend_lock, marks>>

note_off(n) ==
    /\ pc["midi"] = "idle" /\ _find_held(n) # {}
    /\ LET v == First(_find_held(n))
       IN  /\ state' = [state EXCEPT ![v] = "releasing"]
           /\ Goto("midi", "write", NoteOffBlock(v))
    /\ UNCHANGED <<note, on_time, wheel, patch, sid, io, bend_lock, marks>>

control_change(p) ==
    /\ pc["midi"] = "idle"
    /\ patch' = p
    /\ \/ p.settings # patch.settings /\ p.wave = patch.wave /\ p.env = patch.env
          /\ Goto("midi", "write", GlobalsBlock(p))
       \/ p.settings = patch.settings /\ Goto("midi", "write", VoicePatchBlock(p))
    /\ UNCHANGED <<table, wheel, sid, io, bend_lock, marks>>

\* The position, and then the flag: a flush may come in between.
pitch_bend(x) ==
    /\ pc["midi"] = "idle"
    /\ bend' = x
    /\ Goto("midi", "mark", NoWrite)
    /\ UNCHANGED <<table, dirty, due, news, patch, sid, io, bend_lock, marks>>

MarkDirty(t) ==
    /\ pc[t] = "mark"
    /\ dirty' = TRUE /\ news' = TRUE
    /\ Goto(t, "flush", NoWrite)
    /\ UNCHANGED <<table, bend, due, patch, sid, io, bend_lock, marks>>

-----------------------------------------------------------------------------
(* write_regs_now, for a note or a controller *)

\* Mutant: writes that do not take _IO_LOCK.
IoIgnored(t) == io \in Threads \union {Nobody}

IoFree(t) == io \in {Nobody, t}

\* Where t goes when it is done: from a rung of the ladder to the test tone.
Onward(t) == IF t = "main" /\ rung THEN "tone" ELSE "idle"

AfterWrite(t) == IF pc[t] = "tone_write" THEN "tone_off"
                 ELSE IF pc[t] = "last_write" THEN "closed" ELSE Onward(t)

\* A write with nothing in it does not wait for the lock.
WriteSent(t) == /\ pc[t] \in {"write", "tone_write", "last_write"}
                /\ block[t] = NoWrite \/ IoFree(t)
                /\ sid' = Played(sid, block[t])
                /\ Goto(t, AfterWrite(t), NoWrite)
                /\ UNCHANGED <<table, wheel, patch, io, bend_lock, marks>>

\* Mutant: the last write is a fault like any other.
WriteBusyRecovers(t) ==
    /\ pc[t] \in {"write", "tone_write", "last_write"} /\ MayFail
    /\ block[t] # NoWrite /\ IoFree(t)
    /\ Goto(t, IF pc[t] # "last_write" /\ t = "main" THEN Onward(t) ELSE "fault", NoWrite)
    /\ UNCHANGED <<table, wheel, patch, sid, io, bend_lock, marks>>

\* No room within the budget: BusBusy, and nothing was written.
WriteBusy(t) == /\ pc[t] \in {"write", "tone_write", "last_write"} /\ MayFail
                /\ block[t] # NoWrite /\ IoFree(t)
                /\ Goto(t, IF pc[t] = "last_write" THEN "closed"
                           ELSE IF t = "main" THEN Onward(t) ELSE "fault", NoWrite)
                /\ UNCHANGED <<table, wheel, patch, sid, io, bend_lock, marks>>

\* An error of the USB layer in a status read is not BusBusy: the message is
\* lost and nobody recovers. On the main thread it would end the program.
WriteError(t) == /\ pc[t] = "write" /\ t = "midi" /\ MayFail
                 /\ block[t] # NoWrite /\ IoFree(t)
                 /\ Goto(t, "idle", NoWrite)
                 /\ UNCHANGED <<table, wheel, patch, sid, io, bend_lock, marks>>

\* on_bus_fault: one recovery every two seconds
OnBusFault(t) == /\ pc[t] = "fault"
                 /\ Goto(t, IF recent THEN "idle" ELSE "stamp", NoWrite)
                 /\ UNCHANGED <<table, wheel, patch, sid, io, bend_lock, marks>>

\* Two threads may both have found no recent recovery.
Stamp(t) == /\ pc[t] = "stamp"
            /\ recent' = TRUE
            /\ Goto(t, "recover", NoWrite)
            /\ UNCHANGED <<table, wheel, patch, sid, io, bend_lock, rung>>

-----------------------------------------------------------------------------
(* flush_bend, called by the callback and by the coalescing thread *)

\* stop() has been called.
Stopped == pc["main"] \in {"off", "last_write", "closed"}

\* Mutant: no coalescing thread.
BendAsleep == dirty /\ ~dirty /\ UNCHANGED vars

\* _bend_flush_loop looks at the flag before it asks for the lock.
BendWake == /\ pc["bend"] = "idle" /\ dirty /\ ~Stopped
            /\ Goto("bend", "flush", NoWrite)
            /\ UNCHANGED <<table, wheel, patch, sid, io, bend_lock, marks>>

\* Mutant: the flag is not looked at again under the lock.
FlushEnterBlind(t) ==
    /\ pc[t] = "flush" /\ bend_lock = Nobody
    /\ IF due
       THEN bend_lock' = t /\ Goto(t, "send", RetuneBlock(bend))
       ELSE bend_lock' = Nobody /\ Goto(t, "idle", NoWrite)
    /\ UNCHANGED <<table, wheel, patch, sid, io, marks>>

\* Under the lock: nothing to send, or too early, or the block is built.
FlushEnter(t) ==
    /\ pc[t] = "flush" /\ bend_lock = Nobody
    /\ IF dirty /\ due
       THEN bend_lock' = t /\ Goto(t, "send", RetuneBlock(bend))
       ELSE bend_lock' = Nobody /\ Goto(t, "idle", NoWrite)
    /\ UNCHANGED <<table, wheel, patch, sid, io, marks>>

FlushSent(t) ==
    /\ pc[t] = "send"
    /\ block[t] = NoWrite \/ IoFree(t)
    /\ sid' = Played(sid, block[t])
    /\ news' = FALSE
    /\ Goto(t, "clear", NoWrite)
    /\ UNCHANGED <<table, bend, dirty, due, patch, io, bend_lock, marks>>

\* Mutant: the early return does not release _bend_lock.
FlushDroppedLocked(t) ==
    /\ pc[t] = "send"
    /\ block[t] # NoWrite /\ IoFree(t)
    /\ Goto(t, "idle", NoWrite)
    /\ UNCHANGED <<table, wheel, patch, sid, io, bend_lock, marks>>

\* drop_if_busy: the flag stays, for the coalescing thread to try again. So it
\* does when the status read raises, which both callers print and pass over.
FlushDropped(t) ==
    /\ pc[t] = "send"
    /\ block[t] # NoWrite /\ IoFree(t)
    /\ bend_lock' = Nobody
    /\ Goto(t, "idle", NoWrite)
    /\ UNCHANGED <<table, wheel, patch, sid, io, marks>>

\* A transfer that fails is BusBusy whatever drop_if_busy says, and a fault for
\* either thread.
FlushFails(t) ==
    /\ pc[t] = "send" /\ MayFail
    /\ block[t] # NoWrite /\ IoFree(t)
    /\ bend_lock' = Nobody
    /\ Goto(t, "fault", NoWrite)
    /\ UNCHANGED <<table, wheel, patch, sid, io, marks>>

FlushClear(t) ==
    /\ pc[t] = "clear"
    /\ dirty' = FALSE /\ due' = FALSE
    /\ bend_lock' = Nobody
    /\ Goto(t, "idle", NoWrite)
    /\ UNCHANGED <<table, bend, news, patch, sid, io, marks>>

-----------------------------------------------------------------------------
(* Panic and recovery hold _IO_LOCK throughout; the table they reset is not  *)
(* covered by it.                                                            *)

Press(k) == /\ pc["main"] = "idle" /\ k \in Keys \ {"quit"}
            /\ IF k \in Rungs THEN rung' = TRUE ELSE rung' = FALSE
            /\ Goto("main", k, NoWrite)
            /\ UNCHANGED <<table, wheel, patch, sid, io, bend_lock, recent>>

\* CC102 and CC123; the key presses of the DAW are debounced.
PanicMessage == /\ pc["midi"] = "idle" /\ "panic" \in Keys
                /\ Goto("midi", "panic", NoWrite)
                /\ UNCHANGED <<table, wheel, patch, sid, io, bend_lock, marks>>

\* The sweep over all registers, or no room for it: on to recover
PanicSweep(t) ==
    /\ pc[t] = "panic" /\ io = Nobody
    /\ io' = t
    /\ \/ sid' = Played(sid, ZeroBlock) /\ Goto(t, "panic_free", NoWrite)
       \/ MayFail /\ UNCHANGED sid /\ Goto(t, "recover", NoWrite)
    /\ UNCHANGED <<table, wheel, patch, bend_lock, marks>>

\* recover: the engine executes and reads the stream in step, so the sockets are
\* armed again. A recovery that fails itself, or that does not reach a device
\* out of step, is ChipChannel's.
RecoverArm(t) ==
    /\ pc[t] = "recover" /\ IoFree(t)
    /\ io' = t
    /\ sid' = Played(sid, ArmBlock)
    /\ Goto(t, "recover_free", NoWrite)
    /\ UNCHANGED <<table, wheel, patch, bend_lock, marks>>

\* Every voice free, the wheel's flag down; _bend_lock is not taken.
FreeVoices(t) ==
    /\ pc[t] \in {"panic_free", "recover_free"}
    /\ note' = NoNotes /\ state' = AllFree /\ dirty' = FALSE
    /\ Goto(t, IF pc[t] = "panic_free" THEN "panic_arm" ELSE "restore", NoWrite)
    /\ UNCHANGED <<on_time, bend, due, news, patch, sid, io, bend_lock, marks>>

\* The sweep is followed by the same re-arming, unless the engine is found
\* stopped: then by recover.
PanicArm(t) ==
    /\ pc[t] = "panic_arm"
    /\ \/ sid' = Played(sid, ArmBlock) /\ Goto(t, "restore", NoWrite)
       \/ MayFail /\ UNCHANGED sid /\ Goto(t, "recover", NoWrite)
    /\ UNCHANGED <<table, wheel, patch, io, bend_lock, marks>>

\* _write_chip_globals, and the lock is released.
Restore(t) ==
    /\ pc[t] = "restore"
    /\ sid' = Played(sid, GlobalsBlock(patch))
    /\ io' = Nobody
    /\ Goto(t, Onward(t), NoWrite)
    /\ UNCHANGED <<table, wheel, patch, bend_lock, marks>>

\* sid_hard_reset: TEST on every voice, unless there is no room for it; a second
\* later the voices are free and, with the lock taken anew, their control
\* registers zero.
ResetTest == /\ pc["main"] = "reset" /\ io = Nobody
             /\ \/ sid' = Played(sid, TestBlock) /\ Goto("main", "reset_free", NoWrite)
                \/ MayFail /\ UNCHANGED sid /\ Goto("main", Onward("main"), NoWrite)
             /\ UNCHANGED <<table, wheel, patch, io, bend_lock, marks>>

ResetFree == /\ pc["main"] = "reset_free"
             /\ note' = NoNotes /\ state' = AllFree
             /\ Goto("main", "write", ControlZeroBlock)
             /\ UNCHANGED <<on_time, wheel, patch, sid, io, bend_lock, marks>>

-----------------------------------------------------------------------------
(* The rung V of the key loop's ladder, and the tone that ends every rung     *)

\* V: the globals alone, built without the lock
PushGlobals == /\ pc["main"] = "globals"
               /\ Goto("main", "write", GlobalsBlock(patch))
               /\ UNCHANGED <<table, wheel, patch, sid, io, bend_lock, marks>>

ToneNote == CHOOSE n \in Notes : TRUE

\* test_tone: note_on beside the callback's, after a check that needs the lock
ToneOn ==
    LET v == _allocate(ToneNote)
    IN  /\ pc["main"] = "tone" /\ IoFree("main")
        /\ note' = [note EXCEPT ![v] = ToneNote]
        /\ state' = [state EXCEPT ![v] = "held"]
        /\ on_time' = Touch(v)
        /\ Goto("main", "tone_write", NoteOnBlock(v, ToneNote))
        /\ rung' = FALSE
        /\ UNCHANGED <<wheel, patch, sid, io, bend_lock, recent>>

\* Another thread may have taken or freed its voice by then.
ToneOff ==
    /\ pc["main"] = "tone_off"
    /\ IF _find_held(ToneNote) = {}
       THEN state' = state /\ Goto("main", "idle", NoWrite)
       ELSE LET v == First(_find_held(ToneNote))
            IN  /\ state' = [state EXCEPT ![v] = "releasing"]
                /\ Goto("main", "write", NoteOffBlock(v))
    /\ UNCHANGED <<note, on_time, wheel, patch, sid, io, bend_lock, marks>>

-----------------------------------------------------------------------------
(* Shutdown, and the program started again *)

\* Where the key loop can be interrupted
KeyLoop == {"idle", "write", "panic", "panic_free", "panic_arm", "recover",
            "recover_free", "restore", "reset", "reset_free", "globals", "tone",
            "tone_write", "tone_off"}

\* Mutant: Ctrl+C leaves _IO_LOCK locked.
InterruptLocked == /\ "quit" \in Keys /\ pc["main"] \in KeyLoop
                   /\ Goto("main", "quit", NoWrite)
                   /\ UNCHANGED <<table, wheel, patch, sid, io, bend_lock, marks>>

\* Ctrl+C and SIGTERM, at any place: what was about to be written is not, and
\* _IO_LOCK is left if it was held.
Interrupt == /\ "quit" \in Keys /\ pc["main"] \in KeyLoop
             /\ io' = IF io = "main" THEN Nobody ELSE io
             /\ Goto("main", "quit", NoWrite)
             /\ UNCHANGED <<table, wheel, patch, sid, bend_lock, marks>>

\* No message comes any more. One that is being handled is not waited for.
ClosePort == /\ pc["main"] = "quit"
             /\ Goto("main", "stop", NoWrite)
             /\ UNCHANGED <<table, wheel, patch, sid, io, bend_lock, marks>>

\* The coalescing thread is told to end, and waited for for a second.
Stop == /\ pc["main"] = "stop"
        /\ Goto("main", "off", NoWrite)
        /\ UNCHANGED <<table, wheel, patch, sid, io, bend_lock, marks>>

all_notes_off == /\ pc["main"] = "off"
                 /\ note' = NoNotes /\ state' = AllFree
                 /\ Goto("main", "last_write",
                         IF InUse = {} THEN NoWrite ELSE GateOffBlock)
                 /\ UNCHANGED <<on_time, wheel, patch, sid, io, bend_lock, marks>>

\* The device is closed, the other threads end with the process.
Restart == /\ pc["main"] = "closed"
           /\ note' = NoNotes /\ state' = AllFree
           /\ on_time' = [v \in Voices |-> v]
           /\ bend' \in Bends /\ dirty' = FALSE /\ due' = TRUE /\ news' = FALSE
           /\ patch' \in Patches
           /\ sid' = Played(Played(sid, ArmBlock), GlobalsBlock(patch'))
           /\ pc' = [t \in Threads |-> "idle"]
           /\ block' = [t \in Threads |-> NoWrite]
           /\ io' = Nobody /\ bend_lock' = Nobody
           /\ recent' = FALSE /\ rung' = FALSE

Leave == Interrupt \/ ClosePort \/ Stop \/ all_notes_off \/ Restart

-----------------------------------------------------------------------------
(* Time *)

Due == /\ ~due
       /\ due' = TRUE
       /\ UNCHANGED <<table, bend, dirty, news, patch, sid, pc, block, io,
                      bend_lock, marks>>

NotRecent == /\ recent
             /\ recent' = FALSE
             /\ UNCHANGED <<table, wheel, patch, sid, pc, block, io, bend_lock, rung>>

-----------------------------------------------------------------------------
\* The port is open.
Open == pc["main"] \notin {"stop", "off", "last_write", "closed"}

Message == /\ Open
           /\ \/ \E n \in Notes : note_on(n) \/ note_off(n)
              \/ \E x \in Bends : pitch_bend(x)
              \/ \E p \in Patches : control_change(p)
              \/ PanicMessage

Busy(t) == \/ WriteSent(t) \/ WriteBusy(t) \/ WriteError(t)
           \/ OnBusFault(t) \/ Stamp(t)
           \/ MarkDirty(t)
           \/ FlushEnter(t) \/ FlushSent(t) \/ FlushDropped(t) \/ FlushFails(t)
           \/ FlushClear(t)
           \/ PanicSweep(t) \/ PanicArm(t) \/ RecoverArm(t)
           \/ FreeVoices(t) \/ Restore(t)

Next == \/ Message \/ BendWake \/ Due \/ NotRecent
        \/ \E k \in Keys : Press(k)
        \/ ResetTest \/ ResetFree \/ PushGlobals \/ ToneOn \/ ToneOff
        \/ Leave
        \/ \E t \in Threads : Busy(t)

Spec == Init /\ [][Next]_vars

\* The callback and the coalescing thread get a lock that is released again
\* and again: the others hold one for milliseconds and sleep in between. The
\* key loop has only to go on while it holds the lock. The device drains: a
\* flush that is tried again and again finds room.
Fairness == /\ \A t \in {"midi", "bend"} : SF_vars(Busy(t)) /\ SF_vars(FlushSent(t))
            /\ WF_vars(Busy("main") \/ ClosePort \/ Stop \/ all_notes_off)
            /\ WF_vars(BendWake) /\ WF_vars(Due)

FairSpec == Spec /\ Fairness

-----------------------------------------------------------------------------
(* Properties *)

Labels == {"idle", "write", "fault", "mark", "flush", "send", "clear", "panic",
           "panic_free", "panic_arm", "recover", "recover_free", "restore",
           "reset", "reset_free", "stamp", "globals", "tone", "tone_write",
           "tone_off", "quit", "stop", "off", "last_write", "closed"}

TypeOK == /\ ChipTypeOK
          /\ pc \in [Threads -> Labels]
          /\ DOMAIN block = Threads
          /\ io \in Threads \union {Nobody} /\ bend_lock \in Threads \union {Nobody}
          /\ {due, recent, news, rung} \subseteq BOOLEAN

Settled == /\ \A t \in Threads : pc[t] = "idle"
           /\ io = Nobody

\* Once the callback is done, a key that the table has on a voice is heard and
\* one it has in release is not, wherever flushes, drops, panics and recoveries
\* came: a note struck after the table was reset is not cut by the re-arming,
\* and no released voice comes back (note_on, note_off, hard_panic, recover).
GatesAgree == Settled => /\ \A v \in InState("held") : sid.gate[v] = 1
                         /\ \A v \in InState("releasing") : sid.gate[v] = 0

BendBlockHasNews == \A t \in Threads : FlushSent(t) => news

\* No two bend blocks for one wheel message: each raises the flag once, and both
\* threads that flush look at it again under the lock (flush_bend).
OneBlockPerMessage == [][BendBlockHasNews]_vars

\* Where a thread may be that holds _IO_LOCK over several steps
Rearming == {"panic_free", "panic_arm", "recover", "recover_free", "restore"}

\* No deadlock: a flush may wait for _IO_LOCK with _bend_lock in its hands, so
\* nobody comes to a flush with _IO_LOCK in his; and whatever ends a flush, a
\* panic or a recovery, a fault or Ctrl+C included, gives its lock back
\* (flush_bend, hard_panic, recover).
LocksOrdered == \A t \in Threads : /\ io = t => pc[t] \in Rearming
                                   /\ bend_lock = t <=> pc[t] \in {"send", "clear"}

\* Every message is dealt with: the callback is never stuck on a lock, behind
\* a flush, a panic, a recovery or an interrupted one (_IO_LOCK, _bend_lock).
MidiAnswered == pc["midi"] # "idle" ~> pc["midi"] = "idle" \/ pc["main"] = "closed"

\* A wheel position that could not be sent is not left waiting: the flag goes
\* down again, although the callback may never flush another (_bend_flush_loop).
BendServed == dirty ~> ~dirty \/ Stopped

\* Ctrl+C ends the program, whatever the other threads are in the middle of and
\* whichever lock they hold (main, stop, all_notes_off).
ShutdownEnds == pc["main"] = "quit" ~> pc["main"] = "closed"

\* The final wheel position lands: with no flush under way and the flag down,
\* every sounding voice is tuned to it (flush_bend).
FinalBendLands == Settled /\ ~dirty =>
    \A v \in InState("held") : sid.freq[v] = <<note[v], bend>>

\* Nothing sounds that the table calls free or releasing: a note-off would not
\* find it, and it would hang (hard_panic, on_bus_fault).
NothingHangs == Settled => \A v \in Voices : sid.gate[v] = 1 => state[v] = "held"
=============================================================================
