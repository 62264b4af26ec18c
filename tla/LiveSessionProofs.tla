------------------------- MODULE LiveSessionProofs -------------------------
(* No wheel message is sent twice, for any chip and any schedule of the      *)
(* threads: what _bend_lock and the second look at the flag are for.         *)
EXTENDS LiveSession, ChipLemmas, TLAPS

Sending == {"send", "clear"}

PcOK == pc \in [Threads -> Labels]

\* Whoever is inside a flush holds the lock.
LockHeld == \A t \in Threads : pc[t] \in Sending => bend_lock = t

\* A block about to be written carries news, and a flag that is up stands for
\* news, unless the flush that sent it is about to take it down.
SendsNews == \A t \in Threads : pc[t] = "send" => news
FlagIsNews == dirty => news \/ \E t \in Threads : pc[t] = "clear"

IInv == PcOK /\ LockHeld /\ SendsNews /\ FlagIsNews

\* What a step that leaves the flush alone does.
Elsewhere(t) ==
    /\ \E l \in Labels \ Sending : pc' = [pc EXCEPT ![t] = l]
    /\ pc[t] \notin Sending
    /\ bend_lock' = bend_lock /\ news' = news
    /\ dirty' => dirty

-----------------------------------------------------------------------------
LEMMA InitIInv == Init => IInv
  BY DEF Init, ChipInit, IInv, PcOK, LockHeld, SendsNews, FlagIsNews, Sending,
         Threads, Labels

LEMMA ElsewhereStep == ASSUME IInv, NEW t \in Threads, Elsewhere(t) PROVE IInv'
<1>1. PICK l \in Labels \ Sending : pc' = [pc EXCEPT ![t] = l]
  BY DEF Elsewhere
<1>2. PcOK'
  BY <1>1 DEF IInv, PcOK
<1>3. \A u \in Threads : pc'[u] \in Sending => pc'[u] = pc[u]
  BY <1>1 DEF IInv, PcOK
<1>4. LockHeld'
  BY <1>3 DEF IInv, LockHeld, Elsewhere
<1>5. SendsNews'
  BY <1>3 DEF IInv, SendsNews, Elsewhere, Sending
<1>6. ASSUME NEW u \in Threads, pc[u] = "clear" PROVE pc'[u] = "clear"
  BY <1>1, <1>6 DEF IInv, PcOK, Elsewhere, Sending
<1>7. FlagIsNews'
  BY <1>6 DEF IInv, FlagIsNews, Elsewhere
<1> QED BY <1>2, <1>4, <1>5, <1>7 DEF IInv

\* The flag is raised: there is news.
LEMMA MarkDirtyStep == ASSUME IInv, NEW t \in Threads, MarkDirty(t) PROVE IInv'
<1>1. /\ pc[t] = "mark" /\ pc' = [pc EXCEPT ![t] = "flush"]
      /\ news' = TRUE /\ bend_lock' = bend_lock
  BY DEF MarkDirty, Goto
<1>2. PcOK'
  BY <1>1 DEF IInv, PcOK, Labels
<1>3. LockHeld'
  BY <1>1 DEF IInv, PcOK, LockHeld, Sending
<1>4. SendsNews' /\ FlagIsNews'
  BY <1>1 DEF SendsNews, FlagIsNews
<1> QED BY <1>2, <1>3, <1>4 DEF IInv

\* The flag is looked at under the lock: nobody is inside another flush, so it
\* stands for news.
LEMMA FlushEnterStep == ASSUME IInv, NEW t \in Threads, FlushEnter(t) PROVE IInv'
<1>1. /\ pc[t] = "flush" /\ bend_lock = Nobody
      /\ news' = news /\ dirty' = dirty
  BY DEF FlushEnter, wheel
<1>2. ASSUME NEW u \in Threads PROVE pc[u] \notin Sending
  BY <1>1, LiveAssumption DEF IInv, LockHeld, Threads
<1>3. dirty => news
  BY <1>2 DEF IInv, FlagIsNews, Sending
<1>4. CASE dirty /\ due
  <2>1. pc' = [pc EXCEPT ![t] = "send"] /\ bend_lock' = t
    BY <1>4 DEF FlushEnter, Goto
  <2>2. PcOK'
    BY <2>1 DEF IInv, PcOK, Labels
  <2>3. ASSUME NEW u \in Threads, u # t PROVE pc'[u] \notin Sending
    BY <1>2, <2>1, <2>3 DEF IInv, PcOK
  <2>4. LockHeld'
    BY <2>1, <2>3 DEF LockHeld
  <2>5. SendsNews' /\ FlagIsNews'
    BY <1>1, <1>3, <1>4 DEF SendsNews, FlagIsNews
  <2> QED BY <2>2, <2>4, <2>5 DEF IInv
<1>5. CASE ~(dirty /\ due)
  <2>1. pc' = [pc EXCEPT ![t] = "idle"]
    BY <1>5 DEF FlushEnter, Goto
  <2>2. PcOK'
    BY <2>1 DEF IInv, PcOK, Labels
  <2>3. ASSUME NEW u \in Threads PROVE pc'[u] \notin Sending
    BY <1>2, <2>1 DEF IInv, PcOK, Sending
  <2>4. LockHeld' /\ SendsNews'
    BY <2>3 DEF LockHeld, SendsNews, Sending
  <2>5. FlagIsNews'
    BY <1>1, <1>3 DEF FlagIsNews
  <2> QED BY <2>2, <2>4, <2>5 DEF IInv
<1> QED BY <1>4, <1>5

\* The block is out: the flag waits to be taken down.
LEMMA FlushSentStep == ASSUME IInv, NEW t \in Threads, FlushSent(t) PROVE IInv'
<1>1. /\ pc[t] = "send" /\ pc' = [pc EXCEPT ![t] = "clear"]
      /\ bend_lock' = bend_lock
  BY DEF FlushSent, Goto
<1>2. PcOK'
  BY <1>1 DEF IInv, PcOK, Labels
<1>3. LockHeld'
  BY <1>1 DEF IInv, PcOK, LockHeld, Sending
<1>4. pc'[t] = "clear"
  BY <1>1 DEF IInv, PcOK
<1>5. ASSUME NEW u \in Threads PROVE pc'[u] # "send"
  BY <1>1, <1>3, <1>4 DEF IInv, LockHeld, Sending
<1>6. SendsNews' /\ FlagIsNews'
  BY <1>4, <1>5 DEF SendsNews, FlagIsNews
<1> QED BY <1>2, <1>3, <1>6 DEF IInv

\* Leaving the flush: nobody else is in it.
LEMMA FlushLeaveStep ==
    ASSUME IInv, NEW t \in Threads,
           FlushDropped(t) \/ FlushFails(t) \/ FlushClear(t)
    PROVE  IInv'
<1>1. /\ pc[t] \in Sending /\ news' = news
      /\ \E l \in {"idle", "fault"} : pc' = [pc EXCEPT ![t] = l]
  BY DEF FlushDropped, FlushFails, FlushClear, Goto, Sending, wheel
<1>2. PcOK'
  BY <1>1 DEF IInv, PcOK, Labels
<1>3. ASSUME NEW u \in Threads PROVE pc'[u] \notin Sending
  BY <1>1 DEF IInv, PcOK, LockHeld, Sending
<1>4. LockHeld' /\ SendsNews'
  BY <1>3 DEF LockHeld, SendsNews, Sending
<1>5. dirty' => news'
  <2>1. CASE FlushDropped(t) \/ FlushFails(t)
    <3>1. pc[t] = "send" /\ news' = news
      BY <2>1 DEF FlushDropped, FlushFails, wheel
    <3> QED BY <3>1 DEF IInv, SendsNews
  <2>2. CASE FlushClear(t)
    BY <2>2 DEF FlushClear
  <2> QED BY <2>1, <2>2
<1>6. FlagIsNews'
  BY <1>5 DEF FlagIsNews
<1> QED BY <1>2, <1>4, <1>6 DEF IInv

-----------------------------------------------------------------------------
LEMMA StutterStep ==
    ASSUME IInv, UNCHANGED <<pc, bend_lock, news, dirty>> PROVE IInv'
  BY DEF IInv, PcOK, LockHeld, SendsNews, FlagIsNews

LEMMA MessageStep == ASSUME IInv, Message PROVE IInv'
<1> USE DEF Elsewhere, Goto, wheel, Threads, Labels, Sending
<1>1. ASSUME NEW m \in Notes, note_on(m) PROVE Elsewhere("midi")
  BY <1>1 DEF note_on
<1>2. ASSUME NEW m \in Notes, note_off(m) PROVE Elsewhere("midi")
  BY <1>2 DEF note_off
<1>3. ASSUME NEW p \in Patches, control_change(p) PROVE Elsewhere("midi")
  BY <1>3 DEF control_change
<1>4. ASSUME PanicMessage PROVE Elsewhere("midi")
  BY <1>4 DEF PanicMessage
<1>5. ASSUME NEW x \in Bends, pitch_bend(x) PROVE Elsewhere("midi")
  BY <1>5 DEF pitch_bend
<1>6. "midi" \in Threads
  OBVIOUS
<1> HIDE DEF Elsewhere, Goto, wheel, Threads, Labels, Sending
<1> QED BY <1>1, <1>2, <1>3, <1>4, <1>5, <1>6, ElsewhereStep
    DEF Message

LEMMA MainStep ==
    ASSUME IInv, \/ BendWake \/ ResetTest \/ ResetFree
                 \/ PushGlobals \/ ToneOn \/ ToneOff
                 \/ \E k \in Keys : Press(k)
    PROVE  IInv'
<1> USE DEF Elsewhere, Goto, wheel, Threads, Labels, Sending
<1>1. ASSUME BendWake PROVE Elsewhere("bend")
  BY <1>1 DEF BendWake
<1>2. ASSUME ResetTest PROVE Elsewhere("main")
  BY <1>2 DEF ResetTest, Onward
<1>3. ASSUME ResetFree PROVE Elsewhere("main")
  BY <1>3 DEF ResetFree
<1>4. ASSUME NEW k \in Keys, Press(k) PROVE Elsewhere("main")
  BY <1>4, LiveAssumption DEF Press, KeyNames
<1>6. ASSUME PushGlobals PROVE Elsewhere("main")
  BY <1>6 DEF PushGlobals
<1>7. ASSUME ToneOn PROVE Elsewhere("main")
  BY <1>7 DEF ToneOn
<1>8. ASSUME ToneOff PROVE Elsewhere("main")
  BY <1>8 DEF ToneOff
<1>5. "main" \in Threads /\ "bend" \in Threads
  OBVIOUS
<1> HIDE DEF Elsewhere, Goto, wheel, Threads, Labels, Sending
<1> QED BY <1>1, <1>2, <1>3, <1>4, <1>5, <1>6, <1>7, <1>8, ElsewhereStep

\* A program started again has no flush under way and no flag up.
LEMMA LeaveStep == ASSUME IInv, Leave PROVE IInv'
<1>1. CASE Restart
  <2>1. pc' = [t \in Threads |-> "idle"] /\ dirty' = FALSE
    BY <1>1 DEF Restart
  <2> QED BY <2>1 DEF IInv, PcOK, LockHeld, SendsNews, FlagIsNews, Sending, Labels
<1> USE DEF Elsewhere, Goto, wheel, Threads, Labels, Sending
<1>2. ASSUME Interrupt PROVE Elsewhere("main")
  BY <1>2 DEF Interrupt, KeyLoop
<1>3. ASSUME ClosePort PROVE Elsewhere("main")
  BY <1>3 DEF ClosePort
<1>4. ASSUME Stop PROVE Elsewhere("main")
  BY <1>4 DEF Stop
<1>5. ASSUME all_notes_off PROVE Elsewhere("main")
  BY <1>5 DEF all_notes_off
<1>6. "main" \in Threads
  OBVIOUS
<1> HIDE DEF Elsewhere, Goto, wheel, Threads, Labels, Sending
<1> QED BY <1>1, <1>2, <1>3, <1>4, <1>5, <1>6, ElsewhereStep DEF Leave

LEMMA BusyStep == ASSUME IInv, NEW t \in Threads, Busy(t) PROVE IInv'
<1> USE DEF Elsewhere, Goto, wheel, Labels, Sending
<1>1. ASSUME WriteSent(t) PROVE Elsewhere(t)
  BY <1>1 DEF WriteSent, AfterWrite, Onward
<1>2. ASSUME WriteBusy(t) PROVE Elsewhere(t)
  BY <1>2 DEF WriteBusy, Onward
<1>3. ASSUME OnBusFault(t) PROVE Elsewhere(t)
  BY <1>3 DEF OnBusFault
<1>4. ASSUME PanicSweep(t) PROVE Elsewhere(t)
  BY <1>4 DEF PanicSweep
<1>5. ASSUME PanicArm(t) PROVE Elsewhere(t)
  BY <1>5 DEF PanicArm
<1>6. ASSUME RecoverArm(t) PROVE Elsewhere(t)
  BY <1>6 DEF RecoverArm
<1>7. ASSUME FreeVoices(t) PROVE Elsewhere(t)
  BY <1>7 DEF FreeVoices
<1>8. ASSUME Restore(t) PROVE Elsewhere(t)
  BY <1>8 DEF Restore, Onward
<1>9. ASSUME WriteError(t) PROVE Elsewhere(t)
  BY <1>9 DEF WriteError
<1>10. ASSUME Stamp(t) PROVE Elsewhere(t)
  BY <1>10 DEF Stamp
<1> HIDE DEF Elsewhere, Goto, wheel, Labels, Sending
<1> QED BY <1>1, <1>2, <1>3, <1>4, <1>5, <1>6, <1>7, <1>8, <1>9, <1>10, ElsewhereStep,
           MarkDirtyStep, FlushEnterStep, FlushSentStep, FlushLeaveStep DEF Busy

LEMMA NextIInv == IInv /\ [Next]_vars => IInv'
<1> SUFFICES ASSUME IInv, [Next]_vars PROVE IInv'
  OBVIOUS
<1>1. CASE UNCHANGED vars \/ Due \/ NotRecent
  BY <1>1, StutterStep DEF vars, wheel, Due, NotRecent
<1>2. CASE Next /\ ~Due /\ ~NotRecent
  BY <1>2, MessageStep, MainStep, LeaveStep, BusyStep DEF Next
<1> QED BY <1>1, <1>2

\* Between two bend blocks there is a wheel message, whichever threads flush
\* (flush_bend, pitch_bend, _bend_flush_loop).
THEOREM NoBlockTwice == Spec => OneBlockPerMessage
<1>1. IInv /\ [Next]_vars => [BendBlockHasNews]_vars
  BY DEF IInv, SendsNews, BendBlockHasNews, FlushSent
<1> QED BY <1>1, InitIInv, NextIInv, PTL DEF Spec, OneBlockPerMessage

-----------------------------------------------------------------------------
(* The gates. When nothing fails, and of the keys only SPACE and Ctrl+C are   *)
(* pressed, nothing that is written crosses what the table says. The rungs of *)
(* the ladder end in a tone that the callback may cross.                      *)

Undisturbed == Listen /\ ~MayFail /\ Keys \subseteq {"panic", "quit"}

Ended == {"quit", "stop", "off", "last_write", "closed"}
Locked == {"panic_free", "panic_arm", "recover_free", "restore"}

\* Where the threads can be then
Flushing == {"idle", "flush", "send", "clear"}
OfMidi == Flushing \union {"write", "mark", "panic", "panic_free", "panic_arm", "restore"}
OfMain == {"idle", "panic", "panic_free", "panic_arm", "restore"} \union Ended

Places == pc["midi"] \in OfMidi /\ pc["bend"] \in Flushing /\ pc["main"] \in OfMain

Shapes == state \in [Voices -> States] /\ DOMAIN block = Threads

IoHeld == \A t \in Threads : pc[t] \in Locked => io = t

\* Only the callback writes gates from outside panic and recovery.
Gateless == \A t \in Threads : pc[t] = "send" => DOMAIN block[t].gate = {}

Pending(v) == pc["midi"] = "write" /\ v \in DOMAIN block["midi"].gate

\* The gate a voice will have when the callback has written its block
Promised(v) == IF Pending(v) THEN block["midi"].gate[v] ELSE sid.gate[v]

\* The chip has been swept and the table not yet, or the program is ending.
Wiping == \/ pc["main"] \in Ended
          \/ \E t \in Threads : pc[t] \in {"panic_free", "recover_free"}

Kept == ~Wiping => \A v \in Voices : /\ state[v] = "held" => Promised(v) = 1
                                     /\ state[v] = "releasing" => Promised(v) = 0

\* A note struck between the reset of the table and the re-arming waits for
\* _IO_LOCK until the re-arming is over.
ArmSafe == \A t \in Threads : pc[t] = "panic_arm" =>
    \A v \in Voices : state[v] # "free" => Pending(v)

GInv == /\ IInv /\ Places /\ Shapes /\ IoHeld /\ Gateless /\ Kept /\ ArmSafe

LEMMA InitGInv == Undisturbed /\ Init => GInv
<1> SUFFICES ASSUME Undisturbed, Init PROVE GInv
  OBVIOUS
<1>1. pc = [t \in Threads |-> "idle"] /\ DOMAIN block = Threads
  BY DEF Init
<1>2. state = AllFree
  BY DEF Init, ChipInit
<1>3. Shapes /\ Kept /\ ArmSafe
  BY <1>1, <1>2 DEF Shapes, Kept, ArmSafe, AllFree, States
<1>4. Places /\ IoHeld /\ Gateless
  BY <1>1 DEF Places, IoHeld, Gateless, Locked, OfMidi, OfMain, Flushing, Threads
<1> QED BY <1>3, <1>4, InitIInv DEF GInv

-----------------------------------------------------------------------------
\* With every voice free there is nothing to keep.
LEMMA AllFreeKeeps == ASSUME state' = AllFree PROVE Kept' /\ ArmSafe'
<1>1. \A v \in Voices : state'[v] = "free"
  BY DEF AllFree
<1> QED BY <1>1 DEF Kept, ArmSafe, Voices

\* Thread t goes from one place to another, both outside panic and recovery
\* but for the end of them.
Walks(t, l, b) ==
    /\ pc[t] \notin {"panic_free", "recover_free", "panic_arm"} \union Ended
    /\ l \notin Locked \union Ended
    /\ pc' = [pc EXCEPT ![t] = l] /\ block' = [block EXCEPT ![t] = b]
    /\ io' = io \/ pc[t] = "restore"

\* It changes no gate, of the table or of the chip, and holds none back.
Quiet(t, l, b) ==
    /\ Walks(t, l, b)
    /\ state' = state /\ \A v \in Voices : sid'.gate[v] = sid.gate[v]
    /\ t = "midi" => pc[t] # "write"
    /\ l \in {"write", "send"} => DOMAIN b.gate = {}
    /\ t = "midi" => l \in OfMidi
    /\ t = "bend" => l \in Flushing
    /\ t = "main" => l \in OfMain

LEMMA After ==
    ASSUME PcOK, DOMAIN block = Threads, NEW t \in Threads, NEW l, NEW b,
           pc' = [pc EXCEPT ![t] = l], block' = [block EXCEPT ![t] = b]
    PROVE  /\ pc'[t] = l /\ block'[t] = b
           /\ \A u \in Threads : u # t => pc'[u] = pc[u] /\ block'[u] = block[u]
           /\ DOMAIN block' = Threads
  BY DEF PcOK

\* Leaving the lock, or not entering it, keeps it held where it must be.
LEMMA WalksKeepsLock ==
    ASSUME GInv, NEW t \in Threads, NEW l, NEW b, Walks(t, l, b)
    PROVE  IoHeld'
<1>1. /\ pc'[t] = l /\ \A u \in Threads : u # t => pc'[u] = pc[u]
  BY After DEF Walks, GInv, IInv, Shapes
<1>2. l \notin Locked /\ (io' = io \/ pc[t] = "restore")
  BY DEF Walks
<1>3. ASSUME NEW u \in Threads, u # t, pc[u] \in Locked PROVE io' = u
  <2>1. io = u
    BY <1>3 DEF GInv, IoHeld
  <2>2. pc[t] # "restore"
    BY <1>3, <2>1 DEF GInv, IoHeld, Locked
  <2> QED BY <1>2, <2>1, <2>2
<1> QED BY <1>1, <1>2, <1>3 DEF IoHeld

\* Whether the table is being wiped does not change either.
LEMMA WalksKeepsWiping ==
    ASSUME GInv, NEW t \in Threads, NEW l, NEW b, Walks(t, l, b)
    PROVE  Wiping' <=> Wiping
<1>1. /\ pc'[t] = l /\ \A u \in Threads : u # t => pc'[u] = pc[u]
  BY After DEF Walks, GInv, IInv, Shapes
<1>2. /\ l \notin Locked \union Ended
      /\ pc[t] \notin {"panic_free", "recover_free"} \union Ended
  BY DEF Walks
<1>3. "main" \in Threads
  BY DEF Threads
<1>4. pc'["main"] \in Ended <=> pc["main"] \in Ended
  BY <1>1, <1>2, <1>3
<1>5. \A u \in Threads : pc'[u] \in {"panic_free", "recover_free"}
                           <=> pc[u] \in {"panic_free", "recover_free"}
  BY <1>1, <1>2 DEF Locked
<1> QED BY <1>4, <1>5 DEF Wiping

LEMMA QuietStep ==
    ASSUME GInv, IInv', NEW t \in Threads, NEW l, NEW b, Quiet(t, l, b)
    PROVE  GInv'
<1>0. Walks(t, l, b)
  BY DEF Quiet
<1>1. /\ pc'[t] = l /\ block'[t] = b /\ DOMAIN block' = Threads
      /\ \A u \in Threads : u # t => pc'[u] = pc[u] /\ block'[u] = block[u]
  BY <1>0, After DEF Walks, GInv, IInv, Shapes
<1>2. {"midi", "bend", "main"} = Threads
  BY DEF Threads
<1>3. Places'
  BY <1>1, <1>2 DEF GInv, Places, Quiet
<1>4. Shapes'
  BY <1>1 DEF GInv, Shapes, Quiet, Voices, Threads, States
<1>5. IoHeld' /\ (Wiping' <=> Wiping)
  BY <1>0, WalksKeepsLock, WalksKeepsWiping
<1>6. Gateless'
  BY <1>1 DEF GInv, Gateless, Quiet
<1>7. ASSUME NEW v \in Voices
      PROVE  /\ Pending(v)' <=> Pending(v)
             /\ Promised(v)' = Promised(v)
  <2>1. CASE t = "midi"
    <3>1. ~Pending(v) /\ ~Pending(v)'
      BY <1>1, <2>1 DEF Quiet, Pending
    <3> QED BY <3>1 DEF Promised, Quiet
  <2>2. CASE t # "midi"
    <3>1. pc'["midi"] = pc["midi"] /\ block'["midi"] = block["midi"]
      BY <1>1, <1>2, <2>2
    <3> QED BY <3>1 DEF Pending, Promised, Quiet
  <2> QED BY <2>1, <2>2
<1>8. state' = state /\ Voices' = Voices
  BY DEF Quiet, Voices
<1>9. Kept'
  BY <1>5, <1>7, <1>8 DEF GInv, Kept
<1>10. ASSUME NEW u \in Threads, pc'[u] = "panic_arm" PROVE pc[u] = "panic_arm"
  BY <1>0, <1>1, <1>10 DEF Walks, Locked
<1>11. ArmSafe'
  BY <1>7, <1>8, <1>10 DEF GInv, ArmSafe
<1> QED BY <1>3, <1>4, <1>5, <1>6, <1>9, <1>11 DEF GInv

-----------------------------------------------------------------------------
(* The callback *)

\* Nothing is in use while the sockets are about to be armed and the callback
\* is idle.
LEMMA ArmingIsIdle ==
    ASSUME GInv, pc["midi"] # "write", NEW t \in Threads, pc[t] = "panic_arm"
    PROVE  \A v \in Voices : state[v] = "free"
  BY DEF GInv, ArmSafe, Pending

\* A message changes the table of the voices in its block, and holds back the
\* gates they are to have.
LEMMA MessageKeeps ==
    ASSUME GInv, IInv', pc["midi"] = "idle", NEW b, io' = io, sid' = sid,
           pc' = [pc EXCEPT !["midi"] = "write"], block' = [block EXCEPT !["midi"] = b],
           state' \in [Voices -> States],
           \A v \in Voices : v \notin DOMAIN b.gate => state'[v] = state[v],
           \A v \in Voices : v \in DOMAIN b.gate =>
               /\ state'[v] = "held" => b.gate[v] = 1
               /\ state'[v] = "releasing" => b.gate[v] = 0
    PROVE  GInv'
<1>0. "midi" \in Threads
  BY DEF Threads
<1>1. Walks("midi", "write", b)
  BY DEF Walks, Locked, Ended
<1>2. /\ pc'["midi"] = "write" /\ block'["midi"] = b /\ DOMAIN block' = Threads
      /\ \A u \in Threads : u # "midi" => pc'[u] = pc[u] /\ block'[u] = block[u]
  BY <1>0, After DEF GInv, IInv, Shapes
<1>3. IoHeld' /\ (Wiping' <=> Wiping)
  BY <1>0, <1>1, WalksKeepsLock, WalksKeepsWiping
<1>4. Places'
  BY <1>2 DEF GInv, Places, OfMidi, Threads
<1>5. Shapes'
  BY <1>2 DEF Shapes, Voices, Threads, States
<1>6. Gateless'
  BY <1>2 DEF GInv, Gateless
<1>7. ASSUME NEW v \in Voices
      PROVE  /\ Pending(v)' <=> v \in DOMAIN b.gate
             /\ v \in DOMAIN b.gate => Promised(v)' = b.gate[v]
             /\ v \notin DOMAIN b.gate => Promised(v)' = Promised(v)
  BY <1>2 DEF Pending, Promised
<1>8. Kept'
  BY <1>3, <1>7 DEF GInv, Kept, Voices
<1>9. ArmSafe'
  <2> SUFFICES ASSUME NEW t \in Threads, pc'[t] = "panic_arm",
                      NEW v \in Voices, state'[v] # "free"
               PROVE  Pending(v)'
    BY DEF ArmSafe, Voices
  <2>1. pc[t] = "panic_arm"
    BY <1>2
  <2>2. state[v] = "free"
    BY <2>1, ArmingIsIdle
  <2> QED BY <1>7, <2>2
<1> QED BY <1>3, <1>4, <1>5, <1>6, <1>8, <1>9 DEF GInv

LEMMA MessageGates == ASSUME GInv, IInv', Message PROVE GInv'
<1>0. "midi" \in Threads
  BY DEF Threads
<1>1. ASSUME NEW m \in Notes, note_on(m) PROVE GInv'
  <2> DEFINE v == _allocate(m)
             b == NoteOnBlock(v, m)
  <2>1. /\ pc["midi"] = "idle" /\ io' = io /\ sid' = sid
        /\ pc' = [pc EXCEPT !["midi"] = "write"]
        /\ block' = [block EXCEPT !["midi"] = b]
        /\ state' = [state EXCEPT ![v] = "held"]
    BY <1>1 DEF note_on, Goto
  <2>2. DOMAIN b.gate = {v} /\ b.gate[v] = 1
    BY DEF NoteOnBlock, NoWrite
  <2> HIDE DEF v, b
  <2>3. /\ state' \in [Voices -> States]
        /\ \A w \in Voices : state'[w] = IF w = v THEN "held" ELSE state[w]
    BY <2>1 DEF GInv, Shapes, States
  <2> QED BY <2>1, <2>2, <2>3, MessageKeeps
<1>2. ASSUME NEW m \in Notes, note_off(m) PROVE GInv'
  <2> DEFINE v == First(_find_held(m))
             b == NoteOffBlock(v)
  <2>1. /\ pc["midi"] = "idle" /\ io' = io /\ sid' = sid
        /\ pc' = [pc EXCEPT !["midi"] = "write"]
        /\ block' = [block EXCEPT !["midi"] = b]
        /\ state' = [state EXCEPT ![v] = "releasing"]
    BY <1>2 DEF note_off, Goto
  <2>2. DOMAIN b.gate = {v} /\ b.gate[v] = 0
    BY DEF NoteOffBlock, NoWrite
  <2> HIDE DEF v, b
  <2>3. /\ state' \in [Voices -> States]
        /\ \A w \in Voices : state'[w] = IF w = v THEN "releasing" ELSE state[w]
    BY <2>1 DEF GInv, Shapes, States
  <2> QED BY <2>1, <2>2, <2>3, MessageKeeps
<1>3. ASSUME NEW p \in Patches, control_change(p) PROVE GInv'
  <2>1. /\ pc["midi"] = "idle" /\ io' = io /\ sid' = sid /\ state' = state
        /\ \E b \in {GlobalsBlock(p), VoicePatchBlock(p)} :
              /\ pc' = [pc EXCEPT !["midi"] = "write"]
              /\ block' = [block EXCEPT !["midi"] = b]
    BY <1>3 DEF control_change, Goto, table
  <2>2. DOMAIN GlobalsBlock(p).gate = {}
    BY DEF GlobalsBlock, NoWrite, NoRegs
  <2>3. /\ DOMAIN VoicePatchBlock(p).gate = InUse
        /\ \A v \in InUse : VoicePatchBlock(p).gate[v] = IF state[v] = "held" THEN 1 ELSE 0
    BY DEF VoicePatchBlock, NoWrite
  <2>4. state' \in [Voices -> States]
    BY <2>1 DEF GInv, Shapes
  <2>5. ASSUME NEW b \in {GlobalsBlock(p), VoicePatchBlock(p)},
               pc' = [pc EXCEPT !["midi"] = "write"],
               block' = [block EXCEPT !["midi"] = b]
        PROVE  GInv'
    <3>1. \A v \in Voices : v \in DOMAIN b.gate =>
               /\ state'[v] = "held" => b.gate[v] = 1
               /\ state'[v] = "releasing" => b.gate[v] = 0
      BY <2>1, <2>2, <2>3
    <3> QED BY <2>1, <2>4, <2>5, <3>1, MessageKeeps
  <2> QED BY <2>1, <2>5
<1>4. ASSUME NEW x \in Bends, pitch_bend(x) PROVE GInv'
  <2>1. Quiet("midi", "mark", NoWrite)
    BY <1>4 DEF pitch_bend, Goto, Quiet, Walks, Locked, Ended, OfMidi, Flushing, table
  <2> QED BY <1>0, <2>1, QuietStep
<1>5. ASSUME PanicMessage PROVE GInv'
  <2>1. Quiet("midi", "panic", NoWrite)
    BY <1>5 DEF PanicMessage, Goto, Quiet, Walks, Locked, Ended, OfMidi, Flushing, table
  <2> QED BY <1>0, <2>1, QuietStep
<1> QED BY <1>1, <1>2, <1>3, <1>4, <1>5 DEF Message

-----------------------------------------------------------------------------
(* Writes and flushes *)

LEMMA PlayedGates ==
    ASSUME Listen, NEW s, NEW b, NEW v \in Voices
    PROVE  Played(s, b).gate[v] = IF v \in DOMAIN b.gate THEN b.gate[v] ELSE s.gate[v]
  BY DEF Played, Apply, Over

\* What is promised is kept: the block is out.
LEMMA WriteGates ==
    ASSUME Undisturbed, GInv, IInv', NEW t \in Threads, WriteSent(t) PROVE GInv'
<1>0. /\ pc[t] \in {"write", "tone_write", "last_write"}
      /\ block[t] = NoWrite \/ IoFree(t)
      /\ sid' = Played(sid, block[t]) /\ io' = io /\ state' = state
      /\ pc' = [pc EXCEPT ![t] = AfterWrite(t)] /\ block' = [block EXCEPT ![t] = NoWrite]
  BY DEF WriteSent, Goto, table
<1>1. /\ pc'[t] = AfterWrite(t) /\ block'[t] = NoWrite /\ DOMAIN block' = Threads
      /\ \A u \in Threads : u # t => pc'[u] = pc[u] /\ block'[u] = block[u]
  BY <1>0, After DEF GInv, IInv, Shapes
<1>2. \/ t = "midi" /\ pc[t] = "write"
      \/ t = "main" /\ pc[t] = "last_write"
  BY <1>0 DEF GInv, Places, OfMidi, OfMain, Flushing, Locked, Ended, Threads
<1>3. \A v \in Voices : sid'.gate[v] =
          IF v \in DOMAIN block[t].gate THEN block[t].gate[v] ELSE sid.gate[v]
  BY <1>0, PlayedGates DEF Undisturbed
<1>5. CASE t = "main" /\ pc[t] = "last_write"
  <2>1. pc'["main"] = "closed"
    BY <1>1, <1>5 DEF AfterWrite
  <2>2. Places' /\ Shapes'
    BY <1>0, <1>1, <1>5, <2>1
    DEF GInv, Places, Shapes, OfMain, Ended, Threads, Voices, States
  <2>3. IoHeld' /\ Gateless'
    <3>1. io' = io /\ pc'[t] = "closed"
      BY <1>0, <1>5, <2>1
    <3>2. IoHeld'
      BY <1>1, <3>1 DEF GInv, IoHeld, Locked
    <3>3. Gateless'
      BY <1>1, <3>1 DEF GInv, Gateless
    <3> QED BY <3>2, <3>3
  <2>4. Kept'
    BY <2>1 DEF Kept, Wiping, Ended
  <2>5. pc'["midi"] = pc["midi"] /\ block'["midi"] = block["midi"]
    BY <1>1, <1>5 DEF Threads
  <2>6. ArmSafe'
    BY <1>0, <1>1, <1>5, <2>1, <2>5 DEF GInv, ArmSafe, Pending, Voices
  <2> QED BY <2>2, <2>3, <2>4, <2>6 DEF GInv
<1>6. CASE t = "midi"
  <2>1. AfterWrite(t) = "idle" /\ pc[t] = "write"
    BY <1>2, <1>6 DEF AfterWrite, Onward
  <2>2. Walks(t, "idle", NoWrite)
    BY <1>0, <2>1 DEF Walks, Locked, Ended
  <2>3. IoHeld' /\ (Wiping' <=> Wiping)
    BY <2>2, WalksKeepsLock, WalksKeepsWiping
  <2>4. Places'
    BY <1>1, <1>6, <2>1 DEF GInv, Places, OfMidi, Flushing, Threads
  <2>5. Shapes' /\ Gateless'
    BY <1>0, <1>1, <1>6, <2>1 DEF GInv, Shapes, Gateless, Voices, Threads, States
  <2>6. ASSUME NEW v \in Voices PROVE Promised(v)' = Promised(v)
    BY <1>1, <1>3, <1>6, <2>1 DEF Promised, Pending
  <2>7. Kept'
    BY <1>0, <2>3, <2>6 DEF GInv, Kept, Voices
  <2>8. ASSUME NEW u \in Threads, pc'[u] = "panic_arm"
        PROVE  \A v \in Voices : state[v] = "free"
    <3>1. u # t /\ pc[u] = "panic_arm"
      BY <1>1, <2>1, <2>8
    <3>2. io = u
      BY <3>1 DEF GInv, IoHeld, Locked
    <3>3. ~IoFree(t)
      BY <3>1, <3>2, LiveAssumption DEF IoFree, Threads
    <3>4. DOMAIN block[t].gate = {}
      BY <1>0, <3>3 DEF NoWrite, NoRegs
    <3> QED BY <1>6, <3>1, <3>4 DEF GInv, ArmSafe, Pending
  <2>9. ArmSafe'
    BY <1>0, <2>8 DEF ArmSafe, Voices
  <2> QED BY <2>3, <2>4, <2>5, <2>7, <2>9 DEF GInv
<1> QED BY <1>2, <1>5, <1>6

LEMMA FlushGates ==
    ASSUME Undisturbed, GInv, IInv', NEW t \in Threads,
           \/ MarkDirty(t) \/ FlushEnter(t) \/ FlushSent(t)
           \/ FlushDropped(t) \/ FlushClear(t) \/ (t = "bend" /\ BendWake)
    PROVE  GInv'
<1>2. pc[t] \in {"mark", "flush", "send", "clear"} => t \in {"midi", "bend"}
  BY DEF GInv, Places, OfMain, Locked, Ended, Threads
<1>3. pc[t] = "mark" => t = "midi"
  BY <1>2 DEF GInv, Places, Flushing
<1> USE DEF Quiet, Walks, Goto, Locked, Ended, OfMidi, Flushing, table
<1>4. CASE MarkDirty(t)
  <2>1. Quiet(t, "flush", NoWrite)
    BY <1>2, <1>3, <1>4 DEF MarkDirty
  <2> QED BY <2>1, QuietStep
<1>5. CASE FlushEnter(t)
  <2>1. DOMAIN RetuneBlock(bend).gate = {}
    BY DEF RetuneBlock, NoWrite, NoRegs
  <2>2. CASE dirty /\ due
    <3>1. Quiet(t, "send", RetuneBlock(bend))
      BY <1>2, <1>5, <2>1, <2>2 DEF FlushEnter
    <3> QED BY <3>1, QuietStep
  <2>3. CASE ~(dirty /\ due)
    <3>1. Quiet(t, "idle", NoWrite)
      BY <1>2, <1>5, <2>3 DEF FlushEnter
    <3> QED BY <3>1, QuietStep
  <2> QED BY <2>2, <2>3
<1>6. CASE FlushSent(t)
  <2>1. /\ pc[t] = "send" /\ io' = io /\ state' = state
        /\ sid' = Played(sid, block[t])
        /\ pc' = [pc EXCEPT ![t] = "clear"] /\ block' = [block EXCEPT ![t] = NoWrite]
    BY <1>6 DEF FlushSent, Goto, table
  <2>2. DOMAIN block[t].gate = {}
    BY <2>1 DEF GInv, Gateless
  <2>3. \A v \in Voices : sid'.gate[v] = sid.gate[v]
    BY <2>1, <2>2, PlayedGates DEF Undisturbed
  <2>4. Quiet(t, "clear", NoWrite)
    BY <1>2, <2>1, <2>3
  <2> QED BY <2>4, QuietStep
<1>7. CASE FlushDropped(t)
  <2>1. Quiet(t, "idle", NoWrite)
    BY <1>2, <1>7 DEF FlushDropped
  <2> QED BY <2>1, QuietStep
<1>8. CASE FlushClear(t)
  <2>1. Quiet(t, "idle", NoWrite)
    BY <1>2, <1>8 DEF FlushClear
  <2> QED BY <2>1, QuietStep
<1>9. CASE t = "bend" /\ BendWake
  <2>1. Quiet(t, "flush", NoWrite)
    BY <1>9 DEF BendWake
  <2> QED BY <2>1, QuietStep
<1> HIDE DEF Quiet, Walks, Goto, Locked, Ended, OfMidi, Flushing, table
<1> QED BY <1>4, <1>5, <1>6, <1>7, <1>8, <1>9

-----------------------------------------------------------------------------
(* Panic, recovery and the end *)

\* The sweep, or the re-arming of recover: until the table follows, nothing is
\* claimed. Nobody else is about to re-arm.
LEMMA SweptGates ==
    ASSUME Undisturbed, GInv, IInv', NEW t \in Threads, PanicSweep(t) \/ RecoverArm(t)
    PROVE  GInv'
<1>0. /\ io \in {Nobody, t} /\ io' = t /\ state' = state
      /\ \E l \in {"panic_free", "recover_free"} :
            /\ (pc[t] = "panic" /\ l = "panic_free") \/ (pc[t] = "recover" /\ l = "recover_free")
            /\ pc' = [pc EXCEPT ![t] = l] /\ block' = [block EXCEPT ![t] = NoWrite]
  BY DEF PanicSweep, RecoverArm, IoFree, Goto, table, Undisturbed
<1> PICK l \in {"panic_free", "recover_free"} :
            /\ (pc[t] = "panic" /\ l = "panic_free") \/ (pc[t] = "recover" /\ l = "recover_free")
            /\ pc' = [pc EXCEPT ![t] = l] /\ block' = [block EXCEPT ![t] = NoWrite]
  BY <1>0
<1>1. /\ pc'[t] = l /\ DOMAIN block' = Threads
      /\ \A u \in Threads : u # t => pc'[u] = pc[u] /\ block'[u] = block[u]
  BY After DEF GInv, IInv, Shapes
<1>2. ASSUME NEW u \in Threads, u # t PROVE pc[u] \notin Locked
  BY <1>0, <1>2, LiveAssumption DEF GInv, IoHeld, Threads
<1>3. t # "bend" /\ l = "panic_free"
  BY DEF GInv, Places, Flushing, OfMidi, OfMain, Ended, Threads
<1>4. Places'
  BY <1>1, <1>3 DEF GInv, Places, OfMidi, OfMain, Flushing, Locked, Threads
<1>5. Shapes'
  BY <1>0, <1>1 DEF GInv, Shapes, Voices, Threads, States
<1>6. IoHeld'
  BY <1>0, <1>1, <1>2 DEF IoHeld
<1>7. Gateless'
  BY <1>1 DEF GInv, Gateless
<1>8. Kept'
  BY <1>1 DEF Kept, Wiping
<1>9. ArmSafe'
  BY <1>1, <1>2 DEF ArmSafe, Locked
<1> QED BY <1>4, <1>5, <1>6, <1>7, <1>8, <1>9 DEF GInv

LEMMA FreeGates ==
    ASSUME GInv, IInv', NEW t \in Threads, FreeVoices(t) PROVE GInv'
<1>0. /\ pc[t] \in {"panic_free", "recover_free"} /\ state' = AllFree /\ io' = io
      /\ \E l \in {"panic_arm", "restore"} :
            pc' = [pc EXCEPT ![t] = l] /\ block' = [block EXCEPT ![t] = NoWrite]
  BY DEF FreeVoices, Goto
<1> PICK l \in {"panic_arm", "restore"} :
         pc' = [pc EXCEPT ![t] = l] /\ block' = [block EXCEPT ![t] = NoWrite]
  BY <1>0
<1>1. /\ pc'[t] = l /\ DOMAIN block' = Threads
      /\ \A u \in Threads : u # t => pc'[u] = pc[u] /\ block'[u] = block[u]
  BY After DEF GInv, IInv, Shapes
<1>2. t # "bend"
  BY <1>0 DEF GInv, Places, Flushing
<1>3. Places'
  BY <1>1, <1>2 DEF GInv, Places, OfMidi, OfMain, Flushing, Locked, Threads
<1>4. Shapes'
  BY <1>0, <1>1 DEF Shapes, AllFree, Voices, Threads, States
<1>5. IoHeld'
  BY <1>0, <1>1 DEF GInv, IoHeld, Locked
<1>6. Gateless'
  BY <1>1 DEF GInv, Gateless
<1> QED BY <1>0, <1>3, <1>4, <1>5, <1>6, AllFreeKeeps DEF GInv

\* The re-arming closes every gate, and a voice in use has its note pending.
LEMMA ArmGates ==
    ASSUME Undisturbed, GInv, IInv', NEW t \in Threads, PanicArm(t) PROVE GInv'
<1>0. /\ pc[t] = "panic_arm" /\ state' = state /\ io' = io
      /\ pc' = [pc EXCEPT ![t] = "restore"] /\ block' = [block EXCEPT ![t] = NoWrite]
  BY DEF PanicArm, Goto, table, Undisturbed
<1>1. /\ pc'[t] = "restore" /\ block'[t] = NoWrite /\ DOMAIN block' = Threads
      /\ \A u \in Threads : u # t => pc'[u] = pc[u] /\ block'[u] = block[u]
  BY <1>0, After DEF GInv, IInv, Shapes
<1>2. ASSUME NEW u \in Threads, u # t PROVE pc[u] \notin Locked
  BY <1>0, <1>2 DEF GInv, IoHeld, Locked
<1>3. t # "bend"
  BY <1>0 DEF GInv, Places, Flushing
<1>4. Places'
  BY <1>1, <1>3 DEF GInv, Places, OfMidi, OfMain, Locked, Threads
<1>5. Shapes'
  BY <1>0, <1>1 DEF GInv, Shapes, Voices, Threads, States
<1>6. IoHeld' /\ Gateless'
  BY <1>0, <1>1 DEF GInv, IoHeld, Gateless, Locked
<1>7. ASSUME NEW v \in Voices, state[v] # "free"
      PROVE  Promised(v)' = Promised(v)
  <2>1. Pending(v)
    BY <1>0, <1>7 DEF GInv, ArmSafe
  <2>2. t # "midi"
    BY <1>0, <2>1 DEF Pending
  <2>3. pc'["midi"] = pc["midi"] /\ block'["midi"] = block["midi"]
    BY <1>1, <2>2 DEF Threads
  <2> QED BY <2>1, <2>3 DEF Pending, Promised
<1>8. Wiping => Wiping'
  BY <1>0, <1>1 DEF Wiping, Ended, Threads
<1>9. Kept'
  <2> SUFFICES ASSUME ~Wiping', NEW v \in Voices
               PROVE  /\ state[v] = "held" => Promised(v)' = 1
                      /\ state[v] = "releasing" => Promised(v)' = 0
    BY <1>0 DEF Kept, Voices
  <2>1. /\ state[v] = "held" => Promised(v) = 1
        /\ state[v] = "releasing" => Promised(v) = 0
    BY <1>8 DEF GInv, Kept
  <2> QED BY <1>7, <2>1
<1>10. ArmSafe'
  BY <1>1, <1>2 DEF ArmSafe, Locked
<1> QED BY <1>4, <1>5, <1>6, <1>9, <1>10 DEF GInv

LEMMA RestoreGates ==
    ASSUME Undisturbed, GInv, IInv', rung = FALSE, NEW t \in Threads, Restore(t)
    PROVE  GInv'
<1>1. /\ pc[t] = "restore" /\ state' = state
      /\ sid' = Played(sid, GlobalsBlock(patch))
      /\ pc' = [pc EXCEPT ![t] = "idle"] /\ block' = [block EXCEPT ![t] = NoWrite]
  BY DEF Restore, Onward, Goto, table
<1>2. DOMAIN GlobalsBlock(patch).gate = {}
  BY DEF GlobalsBlock, NoWrite, NoRegs
<1>3. \A v \in Voices : sid'.gate[v] = sid.gate[v]
  BY <1>1, <1>2, PlayedGates DEF Undisturbed
<1>4. Quiet(t, "idle", NoWrite)
  BY <1>1, <1>3 DEF Quiet, Walks, Locked, Ended, OfMidi, OfMain, Flushing
<1> QED BY <1>4, QuietStep

LEMMA BusyGates ==
    ASSUME Undisturbed, GInv, IInv', rung = FALSE, NEW t \in Threads, Busy(t)
    PROVE  GInv'
<1>1. ~WriteBusy(t) /\ ~WriteError(t) /\ ~FlushFails(t)
  BY DEF Undisturbed, WriteBusy, WriteError, FlushFails
<1>2. ~OnBusFault(t) /\ ~Stamp(t)
  BY DEF GInv, Places, OfMidi, OfMain, Flushing, Locked, Ended, Threads,
         OnBusFault, Stamp
<1> QED BY <1>1, <1>2, WriteGates, FlushGates, SweptGates, FreeGates, ArmGates,
           RestoreGates DEF Busy

LEMMA KeyGates ==
    ASSUME Undisturbed, GInv, IInv',
           \/ \E k \in Keys : Press(k)
           \/ ResetTest \/ ResetFree \/ PushGlobals \/ ToneOn \/ ToneOff
    PROVE  GInv'
<1>0. "main" \in Threads
  BY DEF Threads
<1>1. ~ResetTest /\ ~ResetFree /\ ~PushGlobals /\ ~ToneOn /\ ~ToneOff
  BY DEF GInv, Places, OfMain, Ended, ResetTest, ResetFree, PushGlobals, ToneOn, ToneOff
<1>2. ASSUME NEW k \in Keys, Press(k) PROVE GInv'
  <2>1. k = "panic"
    BY <1>2 DEF Press, Undisturbed
  <2>2. Quiet("main", k, NoWrite)
    BY <1>2, <2>1 DEF Press, Goto, Quiet, Walks, Locked, Ended, OfMain, table
  <2> QED BY <1>0, <2>2, QuietStep
<1> QED BY <1>1, <1>2

\* From Ctrl+C on nothing is claimed until the program is started again.
LEMMA LeaveGates == ASSUME GInv, IInv', Leave PROVE GInv'
<1>1. CASE Restart
  <2>1. /\ pc' = [t \in Threads |-> "idle"] /\ DOMAIN block' = Threads
        /\ state' = AllFree
    BY <1>1 DEF Restart
  <2>2. Places' /\ IoHeld' /\ Gateless'
    BY <2>1 DEF Places, IoHeld, Gateless, Locked, OfMidi, OfMain, Flushing, Threads
  <2>3. Shapes'
    BY <2>1 DEF Shapes, AllFree, Voices, Threads, States
  <2> QED BY <2>1, <2>2, <2>3, AllFreeKeeps DEF GInv
<1>2. CASE Interrupt \/ ClosePort \/ Stop \/ all_notes_off
  <2>0. "main" \in Threads /\ "midi" \in Threads /\ "bend" \in Threads
    BY DEF Threads
  <2>1. PICK l \in Ended, b \in {NoWrite, GateOffBlock} :
            pc' = [pc EXCEPT !["main"] = l] /\ block' = [block EXCEPT !["main"] = b]
    BY <1>2 DEF Interrupt, ClosePort, Stop, all_notes_off, Goto, Ended
  <2>2. /\ pc'["main"] = l /\ DOMAIN block' = Threads
        /\ \A u \in Threads : u # "main" => pc'[u] = pc[u] /\ block'[u] = block[u]
    BY <2>0, <2>1, After DEF GInv, IInv, Shapes
  <2>3. state' = state \/ state' = AllFree
    BY <1>2 DEF Interrupt, ClosePort, Stop, all_notes_off, table
  <2>4. io' = io \/ io = "main"
    BY <1>2 DEF Interrupt, ClosePort, Stop, all_notes_off
  <2>5. Places'
    BY <2>0, <2>2 DEF GInv, Places, OfMain
  <2>6. Shapes'
    BY <2>2, <2>3 DEF GInv, Shapes, AllFree, Voices, Threads, States
  <2>7. l \notin Locked \union {"write", "send"}
    BY DEF Ended, Locked
  <2>8. IoHeld'
    BY <2>2, <2>4, <2>7 DEF GInv, IoHeld
  <2>9. Gateless'
    BY <2>2, <2>7 DEF GInv, Gateless
  <2>10. Kept'
    BY <2>2 DEF Kept, Wiping
  <2>11. ArmSafe'
    <3>1. CASE state' = AllFree
      BY <3>1, AllFreeKeeps
    <3>2. CASE state' = state
      <4>1. \A u \in Threads : pc'[u] = "panic_arm" => pc[u] = "panic_arm"
        BY <2>2, <2>7 DEF Locked
      <4>2. pc'["midi"] = pc["midi"] /\ block'["midi"] = block["midi"]
        BY <2>0, <2>2
      <4> QED BY <3>2, <4>1, <4>2 DEF GInv, ArmSafe, Pending, Voices
    <3> QED BY <2>3, <3>1, <3>2
  <2> QED BY <2>5, <2>6, <2>8, <2>9, <2>10, <2>11 DEF GInv
<1> QED BY <1>1, <1>2 DEF Leave

LEMMA TimeGates ==
    ASSUME GInv, IInv', UNCHANGED <<state, sid, pc, block, io>> PROVE GInv'
<1>1. Places' /\ Shapes' /\ IoHeld' /\ Gateless'
  BY DEF GInv, Places, Shapes, IoHeld, Gateless, Voices, Threads, States
<1>2. (Wiping' <=> Wiping) /\ \A v : (Pending(v)' <=> Pending(v)) /\ Promised(v)' = Promised(v)
  BY DEF Wiping, Pending, Promised
<1>3. Kept' /\ ArmSafe'
  BY <1>2 DEF GInv, Kept, ArmSafe, Voices
<1> QED BY <1>1, <1>3 DEF GInv

\* No rung of the ladder is under way when its keys are not pressed.
LEMMA NoRung == Undisturbed /\ rung = FALSE /\ [Next]_vars => rung' = FALSE
<1> SUFFICES ASSUME Undisturbed, rung = FALSE, Next PROVE rung' = FALSE
  BY DEF vars, marks
<1>1. ASSUME NEW k \in Keys, Press(k) PROVE rung' = FALSE
  <2>1. k \notin Rungs
    BY <1>1 DEF Undisturbed, Rungs
  <2> QED BY <1>1, <2>1 DEF Press
<1>2. CASE Message
  BY <1>2 DEF Message, note_on, note_off, pitch_bend, control_change,
              PanicMessage, marks
<1>3. CASE BendWake \/ Due \/ NotRecent
  BY <1>3 DEF BendWake, Due, NotRecent, marks
<1>4. CASE ResetTest \/ ResetFree \/ PushGlobals \/ ToneOn \/ ToneOff
  BY <1>4 DEF ResetTest, ResetFree, PushGlobals, ToneOn, ToneOff, marks
<1>5. CASE Leave
  BY <1>5 DEF Leave, Interrupt, ClosePort, Stop, all_notes_off, Restart, marks
<1>6. ASSUME NEW t \in Threads, Busy(t) PROVE rung' = FALSE
  BY <1>6 DEF Busy, WriteSent, WriteBusy, WriteError, OnBusFault, Stamp, MarkDirty,
              FlushEnter, FlushSent, FlushDropped, FlushFails, FlushClear,
              PanicSweep, PanicArm, RecoverArm, FreeVoices, Restore, marks
<1> QED BY <1>1, <1>2, <1>3, <1>4, <1>5, <1>6 DEF Next

LEMMA NextGInv == Undisturbed /\ GInv /\ rung = FALSE /\ [Next]_vars => GInv'
<1> SUFFICES ASSUME Undisturbed, GInv, rung = FALSE, [Next]_vars PROVE GInv'
  OBVIOUS
<1>1. IInv'
  BY NextIInv DEF GInv
<1>2. CASE UNCHANGED vars \/ Due \/ NotRecent
  BY <1>1, <1>2, TimeGates DEF vars, table, Due, NotRecent
<1>3. CASE Message
  BY <1>1, <1>3, MessageGates
<1>4. CASE BendWake
  <2>1. "bend" \in Threads
    BY DEF Threads
  <2> QED BY <1>1, <1>4, <2>1, FlushGates
<1>5. CASE \/ \E k \in Keys : Press(k)
           \/ ResetTest \/ ResetFree \/ PushGlobals \/ ToneOn \/ ToneOff
  BY <1>1, <1>5, KeyGates
<1>6. CASE Leave
  BY <1>1, <1>6, LeaveGates
<1>7. CASE \E t \in Threads : Busy(t)
  BY <1>1, <1>7, BusyGates
<1> QED BY <1>2, <1>3, <1>4, <1>5, <1>6, <1>7 DEF Next

\* As long as nothing fails and no rung of the ladder is tried, what a settled
\* chip sounds is what the table says of the voices in use, for any number of
\* voices and any schedule of the callback, the flushes, the panics of SPACE and
\* of the callback, Ctrl+C and the program's next start (_IO_LOCK, hard_panic).
THEOREM TableIsHeard == Undisturbed /\ Spec => []GatesAgree
<1> SUFFICES ASSUME Undisturbed PROVE Spec => []GatesAgree
  OBVIOUS
<1> DEFINE Inv == GInv /\ rung = FALSE
<1>0. (Init => Inv) /\ (Inv /\ [Next]_vars => Inv')
  <2>1. Init => Inv
    BY InitGInv DEF Init
  <2>2. Inv /\ [Next]_vars => Inv'
    BY NextGInv, NoRung
  <2> QED BY <2>1, <2>2
<1>1. Inv => GatesAgree
  <2> SUFFICES ASSUME GInv, Settled
               PROVE  /\ \A v \in InState("held") : sid.gate[v] = 1
                      /\ \A v \in InState("releasing") : sid.gate[v] = 0
    BY DEF GatesAgree
  <2>1. \A t \in Threads : pc[t] = "idle"
    BY DEF Settled
  <2>2. ~Wiping /\ \A v : ~Pending(v)
    BY <2>1 DEF Wiping, Pending, Ended, Threads
  <2> QED BY <2>2 DEF GInv, Kept, Promised, InState
<1> QED BY <1>0, <1>1, PTL DEF Spec

-----------------------------------------------------------------------------
(* What hangs comes of panic: without it a voice the table calls free is     *)
(* silent, and no block is on its way to open its gate.                      *)

Unpanicked == Undisturbed /\ Keys \subseteq {"quit"}

Wild == Locked \union {"panic", "recover"}

Calm == \A t \in Threads : pc[t] \notin Wild

Silent == pc["main"] \notin Ended =>
    \A v \in Voices : state[v] = "free" => ~Pending(v) /\ sid.gate[v] = 0

HInv == GInv /\ rung = FALSE /\ Calm /\ Silent

\* A step that changes no gate and no table, and holds no gate back.
LEMMA HushStep ==
    ASSUME HInv, NEW t \in Threads, NEW l, NEW b,
           pc' = [pc EXCEPT ![t] = l], block' = [block EXCEPT ![t] = b],
           state' = state, \A v \in Voices : sid'.gate[v] = sid.gate[v],
           l \notin Wild, t = "midi" => l # "write",
           t = "main" => pc[t] \notin Ended
    PROVE  Calm' /\ Silent'
<1>1. /\ pc'[t] = l
      /\ \A u \in Threads : u # t => pc'[u] = pc[u] /\ block'[u] = block[u]
  BY After DEF HInv, GInv, IInv, Shapes
<1>2. Calm'
  BY <1>1 DEF HInv, Calm
<1>3. \A v \in Voices : Pending(v)' => Pending(v)
  <2>1. CASE t = "midi"
    BY <1>1, <2>1 DEF Pending
  <2>2. CASE t # "midi"
    <3>1. pc'["midi"] = pc["midi"] /\ block'["midi"] = block["midi"]
      BY <1>1, <2>2 DEF Threads
    <3> QED BY <3>1 DEF Pending
  <2> QED BY <2>1, <2>2
<1>4. pc["main"] \in Ended => pc'["main"] = pc["main"]
  BY <1>1 DEF Threads
<1>5. Silent'
  BY <1>3, <1>4 DEF HInv, Silent, Voices
<1> QED BY <1>2, <1>5

\* A message leaves a gate alone unless the table has its voice in use.
LEMMA MessageHush ==
    ASSUME HInv, pc["midi"] = "idle", NEW b, sid' = sid,
           pc' = [pc EXCEPT !["midi"] = "write"], block' = [block EXCEPT !["midi"] = b],
           \A v \in Voices : state'[v] = "free" => state[v] = "free" /\ v \notin DOMAIN b.gate
    PROVE  Calm' /\ Silent'
<1>0. "midi" \in Threads /\ "main" \in Threads
  BY DEF Threads
<1>1. /\ pc'["midi"] = "write" /\ block'["midi"] = b
      /\ \A u \in Threads : u # "midi" => pc'[u] = pc[u]
  BY <1>0, After DEF HInv, GInv, IInv, Shapes
<1>2. Calm'
  BY <1>1 DEF HInv, Calm, Wild, Locked
<1>3. pc'["main"] = pc["main"]
  BY <1>0, <1>1
<1>4. \A v \in Voices : Pending(v)' <=> v \in DOMAIN b.gate
  BY <1>1 DEF Pending
<1>5. Silent'
  BY <1>3, <1>4 DEF HInv, Silent, Voices
<1> QED BY <1>2, <1>5

LEMMA MessageCalm == ASSUME Unpanicked, HInv, Message PROVE Calm' /\ Silent'
<1>0. "midi" \in Threads /\ state \in [Voices -> States]
  BY DEF Threads, HInv, GInv, Shapes
<1>1. ASSUME NEW m \in Notes, note_on(m) PROVE Calm' /\ Silent'
  <2> DEFINE v == _allocate(m)
             b == NoteOnBlock(v, m)
  <2>1. /\ pc["midi"] = "idle" /\ sid' = sid
        /\ pc' = [pc EXCEPT !["midi"] = "write"]
        /\ block' = [block EXCEPT !["midi"] = b]
        /\ state' = [state EXCEPT ![v] = "held"]
    BY <1>1 DEF note_on, Goto
  <2>2. DOMAIN b.gate = {v}
    BY DEF NoteOnBlock, NoWrite
  <2> HIDE DEF v, b
  <2>3. ASSUME NEW w \in Voices, state'[w] = "free"
        PROVE  state[w] = "free" /\ w \notin DOMAIN b.gate
    <3>1. w # v
      BY <1>0, <2>1, <2>3
    <3> QED BY <1>0, <2>1, <2>2, <2>3, <3>1
  <2> QED BY <2>1, <2>3, MessageHush
<1>2. ASSUME NEW m \in Notes, note_off(m) PROVE Calm' /\ Silent'
  <2> DEFINE v == First(_find_held(m))
             b == NoteOffBlock(v)
  <2>1. /\ pc["midi"] = "idle" /\ sid' = sid
        /\ pc' = [pc EXCEPT !["midi"] = "write"]
        /\ block' = [block EXCEPT !["midi"] = b]
        /\ state' = [state EXCEPT ![v] = "releasing"]
    BY <1>2 DEF note_off, Goto
  <2>2. DOMAIN b.gate = {v}
    BY DEF NoteOffBlock, NoWrite
  <2> HIDE DEF v, b
  <2>3. ASSUME NEW w \in Voices, state'[w] = "free"
        PROVE  state[w] = "free" /\ w \notin DOMAIN b.gate
    <3>1. w # v
      BY <1>0, <2>1, <2>3
    <3> QED BY <1>0, <2>1, <2>2, <2>3, <3>1
  <2> QED BY <2>1, <2>3, MessageHush
<1>3. ASSUME NEW p \in Patches, control_change(p) PROVE Calm' /\ Silent'
  <2>1. /\ pc["midi"] = "idle" /\ sid' = sid /\ state' = state
        /\ \E b \in {GlobalsBlock(p), VoicePatchBlock(p)} :
              /\ pc' = [pc EXCEPT !["midi"] = "write"]
              /\ block' = [block EXCEPT !["midi"] = b]
    BY <1>3 DEF control_change, Goto, table
  <2>2. DOMAIN GlobalsBlock(p).gate = {}
    BY DEF GlobalsBlock, NoWrite, NoRegs
  <2>3. DOMAIN VoicePatchBlock(p).gate = InUse
    BY DEF VoicePatchBlock, NoWrite
  <2>4. ASSUME NEW b \in {GlobalsBlock(p), VoicePatchBlock(p)},
               pc' = [pc EXCEPT !["midi"] = "write"],
               block' = [block EXCEPT !["midi"] = b]
        PROVE  Calm' /\ Silent'
    <3>1. DOMAIN b.gate \subseteq InUse
      BY <2>2, <2>3, <2>4
    <3>2. \A v \in Voices : state'[v] = "free" => state[v] = "free" /\ v \notin DOMAIN b.gate
      BY <2>1, <3>1 DEF InUse
    <3> QED BY <2>1, <2>4, <3>2, MessageHush
  <2> QED BY <2>1, <2>4
<1>4. ASSUME NEW x \in Bends, pitch_bend(x) PROVE Calm' /\ Silent'
  <2>1. /\ pc' = [pc EXCEPT !["midi"] = "mark"]
        /\ block' = [block EXCEPT !["midi"] = NoWrite]
        /\ state' = state /\ \A v \in Voices : sid'.gate[v] = sid.gate[v]
    BY <1>4 DEF pitch_bend, Goto, table
  <2>2. "mark" \notin Wild
    BY DEF Wild, Locked
  <2> QED BY <1>0, <2>1, <2>2, HushStep
<1>5. ~PanicMessage
  BY DEF PanicMessage, Unpanicked
<1> QED BY <1>1, <1>2, <1>3, <1>4, <1>5 DEF Message

LEMMA WriteCalm ==
    ASSUME Unpanicked, HInv, NEW t \in Threads, WriteSent(t) PROVE Calm' /\ Silent'
<1>1. /\ pc[t] \in {"write", "tone_write", "last_write"}
      /\ sid' = Played(sid, block[t]) /\ state' = state
      /\ pc' = [pc EXCEPT ![t] = AfterWrite(t)] /\ block' = [block EXCEPT ![t] = NoWrite]
  BY DEF WriteSent, Goto, table
<1>2. /\ pc'[t] = AfterWrite(t)
      /\ \A u \in Threads : u # t => pc'[u] = pc[u] /\ block'[u] = block[u]
  BY <1>1, After DEF HInv, GInv, IInv, Shapes
<1>3. \/ t = "midi" /\ pc[t] = "write"
      \/ t = "main" /\ pc[t] = "last_write"
  BY <1>1 DEF HInv, GInv, Places, OfMidi, OfMain, Flushing, Locked, Ended, Threads
<1>4. \A v \in Voices : sid'.gate[v] =
          IF v \in DOMAIN block[t].gate THEN block[t].gate[v] ELSE sid.gate[v]
  BY <1>1, PlayedGates DEF Unpanicked, Undisturbed
<1>5. Calm'
  BY <1>1, <1>2 DEF HInv, Calm, AfterWrite, Onward, Wild, Locked
<1>7. CASE t = "main" /\ pc[t] = "last_write"
  <2>1. pc'["main"] = "closed"
    BY <1>2, <1>7 DEF AfterWrite
  <2> QED BY <1>5, <2>1 DEF Silent, Ended
<1>8. CASE t = "midi"
  <2>1. pc'["midi"] = "idle" /\ pc["midi"] = "write" /\ pc'["main"] = pc["main"]
    BY <1>2, <1>3, <1>8 DEF AfterWrite, Onward, Threads
  <2>2. \A v \in Voices : ~Pending(v) => sid'.gate[v] = sid.gate[v]
    BY <1>4, <1>8, <2>1 DEF Pending
  <2>3. Silent'
    BY <1>1, <2>1, <2>2 DEF HInv, Silent, Pending, Voices
  <2> QED BY <1>5, <2>3
<1> QED BY <1>3, <1>7, <1>8

LEMMA FlushCalm ==
    ASSUME Unpanicked, HInv, NEW t \in Threads,
           \/ MarkDirty(t) \/ FlushEnter(t) \/ FlushSent(t)
           \/ FlushDropped(t) \/ FlushClear(t) \/ (t = "bend" /\ BendWake)
    PROVE  Calm' /\ Silent'
<1>1. /\ \E l \in Flushing : \E b \in {NoWrite, RetuneBlock(bend)} :
            pc' = [pc EXCEPT ![t] = l] /\ block' = [block EXCEPT ![t] = b]
      /\ state' = state
  BY DEF MarkDirty, FlushEnter, FlushSent, FlushDropped, FlushClear, BendWake,
         Goto, Flushing, table
<1>2. t = "main" => pc[t] \notin Ended
  BY DEF MarkDirty, FlushEnter, FlushSent, FlushDropped, FlushClear, Ended
<1>3. \A v \in Voices : sid'.gate[v] = sid.gate[v]
  <2>1. CASE FlushSent(t)
    <3>1. DOMAIN block[t].gate = {} /\ sid' = Played(sid, block[t])
      BY <2>1 DEF FlushSent, HInv, GInv, Gateless
    <3> QED BY <3>1, PlayedGates DEF Unpanicked, Undisturbed
  <2>2. CASE ~FlushSent(t)
    BY <2>2 DEF MarkDirty, FlushEnter, FlushDropped, FlushClear, BendWake
  <2> QED BY <2>1, <2>2
<1> QED BY <1>1, <1>2, <1>3, HushStep DEF Flushing, Wild, Locked

LEMMA BusyCalm ==
    ASSUME Unpanicked, HInv, NEW t \in Threads, Busy(t) PROVE Calm' /\ Silent'
<1>1. ~WriteBusy(t) /\ ~WriteError(t) /\ ~FlushFails(t)
  BY DEF Unpanicked, Undisturbed, WriteBusy, WriteError, FlushFails
<1>2. ~OnBusFault(t) /\ ~Stamp(t)
  BY DEF HInv, GInv, Places, OfMidi, OfMain, Flushing, Locked, Ended, Threads,
         OnBusFault, Stamp
<1>3. ~PanicSweep(t) /\ ~PanicArm(t) /\ ~RecoverArm(t) /\ ~FreeVoices(t) /\ ~Restore(t)
  BY DEF HInv, Calm, Wild, Locked, PanicSweep, PanicArm, RecoverArm, FreeVoices, Restore
<1> QED BY <1>1, <1>2, <1>3, WriteCalm, FlushCalm DEF Busy

LEMMA KeyCalm ==
    ASSUME Unpanicked, HInv,
           \/ \E k \in Keys : Press(k)
           \/ ResetTest \/ ResetFree \/ PushGlobals \/ ToneOn \/ ToneOff
    PROVE  Calm' /\ Silent'
<1>1. ~ResetTest /\ ~ResetFree /\ ~PushGlobals /\ ~ToneOn /\ ~ToneOff
  BY DEF HInv, GInv, Places, OfMain, Ended, ResetTest, ResetFree, PushGlobals,
         ToneOn, ToneOff
<1>2. \A k \in Keys : ~Press(k)
  BY DEF Press, Unpanicked
<1> QED BY <1>1, <1>2

\* A device just armed has every gate closed.
LEMMA ArmedIsClosed ==
    ASSUME Listen, NEW p, NEW v \in Voices
    PROVE  Played(Played(sid, ArmBlock), GlobalsBlock(p)).gate[v] = 0
<1>1. DOMAIN GlobalsBlock(p).gate = {}
  BY DEF GlobalsBlock, NoWrite, NoRegs
<1>2. v \in DOMAIN ArmBlock.gate /\ ArmBlock.gate[v] = 0
  BY DEF ArmBlock, TestBlock, NoWrite
<1> QED BY <1>1, <1>2, PlayedGates

LEMMA LeaveCalm == ASSUME Unpanicked, HInv, Leave PROVE Calm' /\ Silent'
<1>1. CASE Restart
  <2>1. /\ pc' = [t \in Threads |-> "idle"]
        /\ sid' = Played(Played(sid, ArmBlock), GlobalsBlock(patch'))
    BY <1>1 DEF Restart
  <2>2. \A v \in Voices : sid'.gate[v] = 0
    BY <2>1, ArmedIsClosed DEF Unpanicked, Undisturbed
  <2>3. Calm' /\ pc'["midi"] = "idle"
    BY <2>1 DEF Calm, Wild, Locked, Threads
  <2> QED BY <2>2, <2>3 DEF Silent, Pending, Voices
<1>2. CASE Interrupt \/ ClosePort \/ Stop \/ all_notes_off
  <2>0. "main" \in Threads
    BY DEF Threads
  <2>1. PICK l \in Ended : pc' = [pc EXCEPT !["main"] = l]
    BY <1>2 DEF Interrupt, ClosePort, Stop, all_notes_off, Goto, Ended
  <2>2. pc'["main"] = l /\ \A u \in Threads : u # "main" => pc'[u] = pc[u]
    BY <2>0, <2>1 DEF HInv, GInv, IInv, PcOK
  <2>3. Calm'
    BY <2>2 DEF HInv, Calm, Wild, Locked, Ended
  <2> QED BY <2>2, <2>3 DEF Silent
<1> QED BY <1>1, <1>2 DEF Leave

LEMMA NextHInv == Unpanicked /\ HInv /\ [Next]_vars => HInv'
<1> SUFFICES ASSUME Unpanicked, HInv, [Next]_vars PROVE HInv'
  OBVIOUS
<1>1. GInv' /\ rung' = FALSE
  BY NextGInv, NoRung DEF Unpanicked, HInv
<1>2. Calm' /\ Silent'
  <2>1. CASE UNCHANGED vars \/ Due \/ NotRecent
    BY <2>1 DEF vars, table, Due, NotRecent, HInv, Calm, Silent, Pending, Voices, Threads
  <2>2. CASE BendWake
    <3>1. "bend" \in Threads
      BY DEF Threads
    <3> QED BY <2>2, <3>1, FlushCalm
  <2> QED BY <2>1, <2>2, MessageCalm, KeyCalm, LeaveCalm, BusyCalm DEF Next
<1> QED BY <1>1, <1>2 DEF HInv

\* While nothing fails and no key but Ctrl+C is pressed, so that nothing panics,
\* every voice that sounds is held in the table, where a note-off finds it, for
\* any number of voices and however the callback, the flushes and the program's
\* end cross: what hangs in live_hang comes of the table that panic resets beside
\* the callback (note_on, hard_panic).
THEOREM HangsComeOfPanic == Unpanicked /\ Spec => []NothingHangs
<1> SUFFICES ASSUME Unpanicked PROVE Spec => []NothingHangs
  OBVIOUS
<1>1. Init => HInv
  <2> SUFFICES ASSUME Init PROVE HInv
    OBVIOUS
  <2>1. GInv
    BY InitGInv DEF Unpanicked
  <2>2. /\ pc = [t \in Threads |-> "idle"] /\ sid.gate = [v \in Voices |-> 0]
        /\ rung = FALSE
    BY DEF Init, ChipInit
  <2>3. Calm /\ pc["midi"] = "idle"
    BY <2>2 DEF Calm, Wild, Locked, Threads
  <2>4. Silent
    BY <2>2, <2>3 DEF Silent, Pending
  <2> QED BY <2>1, <2>2, <2>3, <2>4 DEF HInv
<1>2. HInv /\ [Next]_vars => HInv'
  BY NextHInv
<1>3. HInv => NothingHangs
  <2> SUFFICES ASSUME HInv, Settled, NEW v \in Voices, sid.gate[v] = 1
               PROVE  state[v] = "held"
    BY DEF NothingHangs
  <2>1. \A t \in Threads : pc[t] = "idle"
    BY DEF Settled
  <2>2. ~Wiping /\ pc["main"] \notin Ended /\ ~Pending(v)
    BY <2>1 DEF Wiping, Pending, Ended, Threads
  <2>3. state[v] # "free"
    BY <2>2 DEF HInv, Silent
  <2>4. state[v] # "releasing"
    BY <2>2 DEF HInv, GInv, Kept, Promised
  <2> QED BY <2>3, <2>4 DEF HInv, GInv, Shapes, States
<1> QED BY <1>1, <1>2, <1>3, PTL DEF Spec

-----------------------------------------------------------------------------
(* The locks, whatever fails and whichever keys are pressed. LocksOrdered is *)
(* inductive as it stands.                                                   *)

OInv == PcOK /\ LocksOrdered

\* What a step that takes no lock and leaves none does.
Unlocked(t) ==
    /\ \E l \in Labels \ Sending : pc' = [pc EXCEPT ![t] = l]
    /\ pc[t] \notin Sending \union Rearming
    /\ io' = io /\ bend_lock' = bend_lock

LEMMA UnlockedStep == ASSUME OInv, NEW t \in Threads, Unlocked(t) PROVE OInv'
<1>1. PICK l \in Labels \ Sending : pc' = [pc EXCEPT ![t] = l]
  BY DEF Unlocked
<1>2. PcOK' /\ pc'[t] = l /\ \A u \in Threads : u # t => pc'[u] = pc[u]
  BY <1>1 DEF OInv, PcOK
<1>3. io # t /\ bend_lock # t
  BY DEF Unlocked, OInv, LocksOrdered, Sending
<1>4. ASSUME NEW u \in Threads
      PROVE  /\ io' = u => pc'[u] \in Rearming
             /\ bend_lock' = u <=> pc'[u] \in {"send", "clear"}
  <2>1. CASE u = t
    BY <2>1, <1>2, <1>3 DEF Unlocked, Sending
  <2>2. CASE u # t
    BY <2>2, <1>2 DEF Unlocked, OInv, LocksOrdered
  <2> QED BY <2>1, <2>2
<1> QED BY <1>2, <1>4 DEF OInv, LocksOrdered

\* _IO_LOCK is taken, kept from step to step, or given back at the end.
LEMMA RearmingStep ==
    ASSUME OInv, NEW t \in Threads,
           PanicSweep(t) \/ RecoverArm(t) \/ FreeVoices(t) \/ PanicArm(t) \/ Restore(t)
    PROVE  OInv'
<1>1. PICK l \in Rearming \union {"idle", "tone"} :
          /\ pc' = [pc EXCEPT ![t] = l]
          /\ io' = Nobody \/ (l \in Rearming /\ io' \in {io, t})
  BY DEF PanicSweep, RecoverArm, FreeVoices, PanicArm, Restore, Onward, Goto, Rearming
<1>2. pc[t] \notin Sending /\ bend_lock' = bend_lock
  BY DEF PanicSweep, RecoverArm, FreeVoices, PanicArm, Restore, Sending
<1>3. PcOK' /\ pc'[t] = l /\ \A u \in Threads : u # t => pc'[u] = pc[u]
  BY <1>1 DEF OInv, PcOK, Labels, Rearming
<1>4. ASSUME NEW u \in Threads, io' = u PROVE pc'[u] \in Rearming
  <2>1. io' # Nobody
    BY <1>4, LiveAssumption DEF Threads
  <2> QED BY <1>1, <1>3, <1>4, <2>1 DEF OInv, LocksOrdered
<1>5. ASSUME NEW u \in Threads PROVE bend_lock' = u <=> pc'[u] \in {"send", "clear"}
  BY <1>1, <1>2, <1>3 DEF OInv, LocksOrdered, Sending, Rearming
<1> QED BY <1>3, <1>4, <1>5 DEF OInv, LocksOrdered

\* A flush begins with _bend_lock free, keeps it, and gives it back. Nobody
\* else is in one.
LEMMA FlushingStep ==
    ASSUME OInv, NEW t \in Threads,
           \/ FlushEnter(t) \/ FlushSent(t)
           \/ FlushDropped(t) \/ FlushFails(t) \/ FlushClear(t)
    PROVE  OInv'
<1>1. PICK l \in {"idle", "fault"} \union Sending :
          /\ pc' = [pc EXCEPT ![t] = l]
          /\ bend_lock' = IF l \in Sending THEN t ELSE Nobody
  <2>1. FlushSent(t) => bend_lock = t /\ bend_lock' = bend_lock
    BY DEF FlushSent, OInv, LocksOrdered
  <2> QED BY <2>1 DEF FlushEnter, FlushSent, FlushDropped, FlushFails, FlushClear,
                      Goto, Sending
<1>2. /\ io' = io /\ bend_lock \in {t, Nobody}
      /\ pc[t] \in {"flush", "send", "clear"}
  BY DEF FlushEnter, FlushSent, FlushDropped, FlushFails, FlushClear, OInv, LocksOrdered
<1>3. PcOK' /\ pc'[t] = l /\ \A u \in Threads : u # t => pc'[u] = pc[u]
  BY <1>1 DEF OInv, PcOK, Labels, Sending
<1>4. ASSUME NEW u \in Threads, io' = u PROVE pc'[u] \in Rearming
  BY <1>2, <1>3, <1>4 DEF OInv, LocksOrdered, Rearming
<1>5. ASSUME NEW u \in Threads PROVE bend_lock' = u <=> pc'[u] \in {"send", "clear"}
  <2>1. u # Nobody
    BY LiveAssumption DEF Threads
  <2>2. CASE u = t
    BY <1>1, <1>3, <2>1, <2>2 DEF Sending
  <2>3. CASE u # t
    BY <1>1, <1>2, <1>3, <2>1, <2>3 DEF OInv, LocksOrdered
  <2> QED BY <2>2, <2>3
<1> QED BY <1>3, <1>4, <1>5 DEF OInv, LocksOrdered

LEMMA BusyLocks == ASSUME OInv, NEW t \in Threads, Busy(t) PROVE OInv'
<1> USE DEF Unlocked, Goto, Labels, Sending, Rearming
<1>1. ASSUME WriteSent(t) PROVE Unlocked(t)
  BY <1>1 DEF WriteSent, AfterWrite, Onward
<1>2. ASSUME WriteBusy(t) PROVE Unlocked(t)
  BY <1>2 DEF WriteBusy, Onward
<1>3. ASSUME WriteError(t) PROVE Unlocked(t)
  BY <1>3 DEF WriteError
<1>4. ASSUME OnBusFault(t) PROVE Unlocked(t)
  BY <1>4 DEF OnBusFault
<1>5. ASSUME Stamp(t) PROVE Unlocked(t)
  BY <1>5 DEF Stamp
<1>6. ASSUME MarkDirty(t) PROVE Unlocked(t)
  BY <1>6 DEF MarkDirty
<1> HIDE DEF Unlocked, Goto, Labels, Sending, Rearming
<1> QED BY <1>1, <1>2, <1>3, <1>4, <1>5, <1>6, UnlockedStep, RearmingStep, FlushingStep
        DEF Busy

LEMMA MessageLocks == ASSUME OInv, Message PROVE OInv'
<1> USE DEF Unlocked, Goto, Threads, Labels, Sending, Rearming
<1>1. ASSUME NEW m \in Notes, note_on(m) PROVE Unlocked("midi")
  BY <1>1 DEF note_on
<1>2. ASSUME NEW m \in Notes, note_off(m) PROVE Unlocked("midi")
  BY <1>2 DEF note_off
<1>3. ASSUME NEW p \in Patches, control_change(p) PROVE Unlocked("midi")
  BY <1>3 DEF control_change
<1>4. ASSUME PanicMessage PROVE Unlocked("midi")
  BY <1>4 DEF PanicMessage
<1>5. ASSUME NEW x \in Bends, pitch_bend(x) PROVE Unlocked("midi")
  BY <1>5 DEF pitch_bend
<1>6. "midi" \in Threads
  OBVIOUS
<1> HIDE DEF Unlocked, Goto, Threads, Labels, Sending, Rearming
<1> QED BY <1>1, <1>2, <1>3, <1>4, <1>5, <1>6, UnlockedStep DEF Message

LEMMA KeyLocks ==
    ASSUME OInv, \/ BendWake \/ ResetTest \/ ResetFree
                 \/ PushGlobals \/ ToneOn \/ ToneOff
                 \/ \E k \in Keys : Press(k)
    PROVE  OInv'
<1> USE DEF Unlocked, Goto, Threads, Labels, Sending, Rearming
<1>1. ASSUME BendWake PROVE Unlocked("bend")
  BY <1>1 DEF BendWake
<1>2. ASSUME ResetTest PROVE Unlocked("main")
  BY <1>2 DEF ResetTest, Onward
<1>3. ASSUME ResetFree PROVE Unlocked("main")
  BY <1>3 DEF ResetFree
<1>4. ASSUME NEW k \in Keys, Press(k) PROVE Unlocked("main")
  BY <1>4, LiveAssumption DEF Press, KeyNames
<1>5. ASSUME PushGlobals PROVE Unlocked("main")
  BY <1>5 DEF PushGlobals
<1>6. ASSUME ToneOn PROVE Unlocked("main")
  BY <1>6 DEF ToneOn
<1>7. ASSUME ToneOff PROVE Unlocked("main")
  BY <1>7 DEF ToneOff
<1>8. "main" \in Threads /\ "bend" \in Threads
  OBVIOUS
<1> HIDE DEF Unlocked, Goto, Threads, Labels, Sending, Rearming
<1> QED BY <1>1, <1>2, <1>3, <1>4, <1>5, <1>6, <1>7, <1>8, UnlockedStep

\* Ctrl+C gives _IO_LOCK back from wherever the key loop was; it is in no flush.
LEMMA InterruptLocks == ASSUME OInv, Interrupt PROVE OInv'
<1>1. /\ pc' = [pc EXCEPT !["main"] = "quit"] /\ pc["main"] \notin Sending
      /\ bend_lock' = bend_lock /\ io' = IF io = "main" THEN Nobody ELSE io
  BY DEF Interrupt, Goto, KeyLoop, Sending
<1>2. PcOK' /\ pc'["main"] = "quit" /\ \A u \in Threads : u # "main" => pc'[u] = pc[u]
  BY <1>1 DEF OInv, PcOK, Threads, Labels
<1>3. ASSUME NEW u \in Threads, io' = u PROVE pc'[u] \in Rearming
  <2>1. io' # Nobody /\ io' # "main"
    BY <1>1, <1>3, LiveAssumption DEF Threads
  <2> QED BY <1>1, <1>2, <1>3, <2>1 DEF OInv, LocksOrdered
<1>4. ASSUME NEW u \in Threads PROVE bend_lock' = u <=> pc'[u] \in {"send", "clear"}
  <2>1. CASE u = "main"
    BY <1>1, <1>2, <2>1 DEF OInv, LocksOrdered, Sending
  <2>2. CASE u # "main"
    BY <1>1, <1>2, <2>2 DEF OInv, LocksOrdered
  <2> QED BY <2>1, <2>2
<1> QED BY <1>2, <1>3, <1>4 DEF OInv, LocksOrdered

LEMMA FreshLocks ==
    ASSUME pc = [t \in Threads |-> "idle"], io = Nobody, bend_lock = Nobody PROVE OInv
<1>1. Nobody \notin Threads
  BY LiveAssumption DEF Threads
<1>2. \A t \in Threads : pc[t] = "idle"
  OBVIOUS
<1>3. PcOK
  BY DEF PcOK, Labels
<1> QED BY <1>1, <1>2, <1>3 DEF OInv, LocksOrdered

LEMMA LeaveLocks == ASSUME OInv, Leave PROVE OInv'
<1>1. CASE Restart
  <2>1. /\ pc' = [t \in Threads |-> "idle"]
        /\ io' = Nobody /\ bend_lock' = Nobody
    BY <1>1 DEF Restart
  <2>2. Nobody \notin Threads
    BY LiveAssumption DEF Threads
  <2>3. \A t \in Threads : pc'[t] = "idle"
    BY <2>1
  <2>4. PcOK'
    BY <2>1 DEF PcOK, Labels
  <2> QED BY <2>1, <2>2, <2>3, <2>4 DEF OInv, LocksOrdered
<1> USE DEF Unlocked, Goto, Threads, Labels, Sending, Rearming
<1>2. ASSUME ClosePort PROVE Unlocked("main")
  BY <1>2 DEF ClosePort
<1>3. ASSUME Stop PROVE Unlocked("main")
  BY <1>3 DEF Stop
<1>4. ASSUME all_notes_off PROVE Unlocked("main")
  BY <1>4 DEF all_notes_off
<1>5. "main" \in Threads
  OBVIOUS
<1> HIDE DEF Unlocked, Goto, Threads, Labels, Sending, Rearming
<1> QED BY <1>1, <1>2, <1>3, <1>4, <1>5, UnlockedStep, InterruptLocks DEF Leave

\* Whatever fails and however the threads cross, they cannot wait for each
\* other in a circle, and a lock is held only by a thread that is on its way to
\* give it back (flush_bend, hard_panic, recover, main).
THEOREM NoDeadlock == Spec => []LocksOrdered
<1>1. Init => OInv
  BY FreshLocks DEF Init
<1>2. OInv /\ [Next]_vars => OInv'
  <2> SUFFICES ASSUME OInv, [Next]_vars PROVE OInv'
    OBVIOUS
  <2>1. CASE UNCHANGED vars \/ Due \/ NotRecent
    BY <2>1 DEF vars, Due, NotRecent, OInv, PcOK, LocksOrdered
  <2> QED BY <2>1, MessageLocks, KeyLocks, LeaveLocks, BusyLocks DEF Next
<1>3. OInv => LocksOrdered
  BY DEF OInv
<1> QED BY <1>1, <1>2, <1>3, PTL DEF Spec

-----------------------------------------------------------------------------
(* The types, whatever fails *)

TableKept == TableTypeOK /\ Ranked
WheelKept == /\ bend \in Bends /\ dirty \in BOOLEAN /\ patch \in Patches
             /\ {due, recent, news, rung} \subseteq BOOLEAN
BlocksKept == DOMAIN block = Threads /\ \A t \in Threads : WellFormed(block[t])
LocksKept == io \in Threads \union {Nobody} /\ bend_lock \in Threads \union {Nobody}
RegistersKept == sid \in Registers

\* TypeOK is not inductive: a block that waits to be written must be well
\* formed for the registers to stay so, and the voice stolen by a note must
\* exist.
TInv == TableKept /\ WheelKept /\ BlocksKept /\ LocksKept /\ RegistersKept

LEMMA PlayedType ==
    ASSUME NEW s \in Registers, NEW b, WellFormed(b)
    PROVE  Played(s, b) \in Registers
<1>1. Apply(s, b) \in Registers
  BY ApplyType
<1>2. [Apply(s, b) EXCEPT !.attacks = s.attacks] \in Registers
  <2> DEFINE a == Apply(s, b)
  <2>1. a \in Registers
    BY <1>1
  <2> HIDE DEF a
  <2>2. [a EXCEPT !.attacks = s.attacks] \in Registers
    BY <2>1 DEF Registers
  <2> QED BY <2>2 DEF a
<1> QED BY <1>1, <1>2 DEF Played

\* Striking a note, for a key or for the test tone, takes a voice of the chip.
LEMMA StruckTable ==
    ASSUME TableKept, NEW m \in Notes, NEW v, v = _allocate(m),
           note' = [note EXCEPT ![v] = m], state' = [state EXCEPT ![v] = "held"],
           on_time' = Touch(v)
    PROVE  v \in Voices /\ TableKept'
<1>1. v \in Voices
  BY AllocateIn DEF TableKept
<1>2. on_time' \in [Voices -> Voices] /\ Ranked'
  BY <1>1, TouchRanks DEF TableKept, TableTypeOK
<1>3. /\ note' \in [Voices -> Notes \union {NoNote}]
      /\ state' \in [Voices -> States]
  BY DEF TableKept, TableTypeOK, States
<1> QED BY <1>1, <1>2, <1>3 DEF TableKept, TableTypeOK, Voices, States

\* Lifting it releases one.
LEMMA LiftedTable ==
    ASSUME TableKept, NEW m \in Notes, NEW v, _find_held(m) # {},
           v = First(_find_held(m)),
           note' = note, state' = [state EXCEPT ![v] = "releasing"],
           on_time' = on_time
    PROVE  v \in Voices /\ TableKept'
<1>1. _find_held(m) \in SUBSET Voices
  BY DEF _find_held
<1>2. v \in Voices
  BY <1>1, FirstIn
<1>3. state' \in [Voices -> States]
  BY DEF TableKept, TableTypeOK, States
<1> QED BY <1>2, <1>3 DEF TableKept, TableTypeOK, Ranked, Voices, States

LEMMA FreedTable ==
    ASSUME TableKept, note' = NoNotes, state' = AllFree, on_time' = on_time
    PROVE  TableKept'
  BY DEF TableKept, TableTypeOK, Ranked, NoNotes, AllFree, Voices, States

LEMMA SameTable == ASSUME TableKept, UNCHANGED table PROVE TableKept'
  BY DEF TableKept, TableTypeOK, Ranked, Voices, States, table

LEMMA GoneTo ==
    ASSUME BlocksKept, NEW t \in Threads, NEW l, NEW b, WellFormed(b),
           Goto(t, l, b)
    PROVE  BlocksKept'
<1>1. DOMAIN block' = Threads
  BY DEF Goto, BlocksKept
<1>2. ASSUME NEW u \in Threads PROVE WellFormed(block'[u])
  <2>1. block'[u] = IF u = t THEN b ELSE block[u]
    BY DEF Goto, BlocksKept
  <2> QED BY <2>1 DEF BlocksKept
<1> QED BY <1>1, <1>2 DEF BlocksKept, WellFormed, Voices, Threads

LEMMA SentRegisters ==
    ASSUME RegistersKept, NEW b, WellFormed(b), sid' = Played(sid, b)
    PROVE  RegistersKept'
<1>1. sid' \in Registers
  BY PlayedType DEF RegistersKept
<1> QED BY <1>1 DEF RegistersKept, Registers, Voices

LEMMA SameRegisters == ASSUME RegistersKept, sid' = sid PROVE RegistersKept'
  BY DEF RegistersKept, Registers, Voices

LEMMA WellFormedBlocks ==
    ASSUME TInv
    PROVE  /\ WellFormed(NoWrite)
           /\ WellFormed(TestBlock) /\ WellFormed(ControlZeroBlock)
           /\ WellFormed(ArmBlock) /\ WellFormed(ZeroBlock)
           /\ WellFormed(GateOffBlock) /\ WellFormed(RetuneBlock(bend))
           /\ \A p \in Patches : WellFormed(GlobalsBlock(p))
           /\ \A p \in Patches : WellFormed(VoicePatchBlock(p))
           /\ \A v \in Voices, m \in Notes : WellFormed(NoteOnBlock(v, m))
           /\ \A v \in Voices : WellFormed(NoteOffBlock(v))
  BY PlainBlocks, TableBlocks DEF TInv, TableKept, WheelKept

-----------------------------------------------------------------------------
(* One lemma per part: what the steps of the threads do to it *)

LEMMA BusyTypes == ASSUME TInv, NEW t \in Threads, Busy(t) PROVE TInv'
<1>1. TableKept'
  <2>1. CASE FreeVoices(t)
    BY <2>1, FreedTable DEF FreeVoices, TInv
  <2>2. CASE ~FreeVoices(t)
    <3>1. UNCHANGED table
      BY <2>2
      DEF Busy, WriteSent, WriteBusy, WriteError, OnBusFault, Stamp, MarkDirty,
          FlushEnter, FlushSent, FlushDropped, FlushFails, FlushClear,
          PanicSweep, PanicArm, RecoverArm, Restore
    <3> QED BY <3>1, SameTable DEF TInv
  <2> QED BY <2>1, <2>2
<1>2. WheelKept'
  BY DEF TInv, WheelKept, wheel, marks, Patches, Busy, WriteSent, WriteBusy, WriteError, OnBusFault, Stamp,
         MarkDirty, FlushEnter, FlushSent, FlushDropped, FlushFails, FlushClear,
         PanicSweep, PanicArm, RecoverArm, FreeVoices, Restore
<1>3. LocksKept'
  BY DEF TInv, LocksKept, Busy, WriteSent, WriteBusy, WriteError, OnBusFault, Stamp,
         MarkDirty, FlushEnter, FlushSent, FlushDropped, FlushFails, FlushClear,
         PanicSweep, PanicArm, RecoverArm, FreeVoices, Restore, Threads
<1>4. BlocksKept'
  <2>1. \E l : Goto(t, l, NoWrite) \/ Goto(t, l, RetuneBlock(bend))
    BY DEF Busy, WriteSent, WriteBusy, WriteError, OnBusFault, Stamp,
         MarkDirty, FlushEnter, FlushSent, FlushDropped, FlushFails, FlushClear,
         PanicSweep, PanicArm, RecoverArm, FreeVoices, Restore
  <2> QED BY <2>1, GoneTo, WellFormedBlocks DEF TInv
<1>5. RegistersKept'
  <2>1. \/ sid' = sid
        \/ \E b \in {block[t], ZeroBlock, ArmBlock, GlobalsBlock(patch)} :
              sid' = Played(sid, b)
    BY DEF Busy, WriteSent, WriteBusy, WriteError, OnBusFault, Stamp,
         MarkDirty, FlushEnter, FlushSent, FlushDropped, FlushFails, FlushClear,
         PanicSweep, PanicArm, RecoverArm, FreeVoices, Restore
  <2>2. \A b \in {block[t], ZeroBlock, ArmBlock, GlobalsBlock(patch)} : WellFormed(b)
    BY WellFormedBlocks DEF TInv, BlocksKept, WheelKept
  <2> QED BY <2>1, <2>2, SentRegisters, SameRegisters DEF TInv
<1> QED BY <1>1, <1>2, <1>3, <1>4, <1>5 DEF TInv

LEMMA MessageTypes == ASSUME TInv, Message PROVE TInv'
<1>0. "midi" \in Threads
  BY DEF Threads
<1>1. WheelKept'
  BY DEF TInv, WheelKept, wheel, marks, Patches, Message, note_on, note_off,
         control_change, pitch_bend, PanicMessage
<1>2. LocksKept'
  BY DEF TInv, LocksKept, Message, note_on, note_off, control_change,
         pitch_bend, PanicMessage, Threads
<1>3. RegistersKept'
  <2>1. sid' = sid
    BY DEF Message, note_on, note_off, control_change, pitch_bend, PanicMessage
  <2> QED BY <2>1, SameRegisters DEF TInv
<1>4. ASSUME NEW m \in Notes, note_on(m) PROVE TableKept' /\ BlocksKept'
  <2> DEFINE v == _allocate(m)
             b == NoteOnBlock(v, m)
  <2>1. /\ note' = [note EXCEPT ![v] = m]
        /\ state' = [state EXCEPT ![v] = "held"]
        /\ on_time' = Touch(v)
        /\ Goto("midi", "write", b)
    BY <1>4 DEF note_on
  <2>2. v \in Voices /\ TableKept'
    BY <2>1, StruckTable DEF TInv
  <2> HIDE DEF v
  <2>3. WellFormed(b)
    BY <2>2, WellFormedBlocks
  <2> QED BY <1>0, <2>1, <2>2, <2>3, GoneTo DEF TInv
<1>5. ASSUME NEW m \in Notes, note_off(m) PROVE TableKept' /\ BlocksKept'
  <2> DEFINE v == First(_find_held(m))
             b == NoteOffBlock(v)
  <2>1. /\ _find_held(m) # {} /\ note' = note /\ on_time' = on_time
        /\ state' = [state EXCEPT ![v] = "releasing"]
        /\ Goto("midi", "write", b)
    BY <1>5 DEF note_off
  <2>2. v \in Voices /\ TableKept'
    BY <2>1, LiftedTable DEF TInv
  <2> HIDE DEF v
  <2>3. WellFormed(b)
    BY <2>2, WellFormedBlocks
  <2> QED BY <1>0, <2>1, <2>2, <2>3, GoneTo DEF TInv
<1>6. ASSUME NEW p \in Patches, control_change(p) PROVE TableKept' /\ BlocksKept'
  <2>1. /\ UNCHANGED table
        /\ \E b \in {GlobalsBlock(p), VoicePatchBlock(p)} : Goto("midi", "write", b)
    BY <1>6 DEF control_change
  <2>2. \A b \in {GlobalsBlock(p), VoicePatchBlock(p)} : WellFormed(b)
    BY WellFormedBlocks
  <2> QED BY <1>0, <2>1, <2>2, GoneTo, SameTable DEF TInv
<1>7. ASSUME \/ PanicMessage
             \/ \E x \in Bends : pitch_bend(x)
      PROVE  TableKept' /\ BlocksKept'
  <2>1. UNCHANGED table /\ \E l : Goto("midi", l, NoWrite)
    BY <1>7 DEF PanicMessage, pitch_bend
  <2> QED BY <1>0, <2>1, WellFormedBlocks, GoneTo, SameTable DEF TInv
<1>8. TableKept' /\ BlocksKept'
  BY <1>4, <1>5, <1>6, <1>7 DEF Message
<1> QED BY <1>1, <1>2, <1>3, <1>8 DEF TInv

\* The coalescing thread's wake-up and the rungs of the key loop's ladder
LEMMA KeyTypes ==
    ASSUME TInv, \/ BendWake \/ ResetTest \/ ResetFree
                 \/ PushGlobals \/ ToneOn \/ ToneOff
                 \/ \E k \in Keys : Press(k)
    PROVE  TInv'
<1>0. "main" \in Threads /\ "bend" \in Threads
  BY DEF Threads
<1>1. WheelKept'
  <2>1. CASE BendWake \/ ResetTest \/ ResetFree \/ PushGlobals \/ ToneOn \/ ToneOff
    BY <2>1 DEF TInv, WheelKept, wheel, marks, Patches, BendWake, ResetTest,
                ResetFree, PushGlobals, ToneOn, ToneOff
  <2>2. ASSUME NEW k \in Keys, Press(k) PROVE WheelKept'
    <3>1. rung' \in BOOLEAN
      BY <2>2 DEF Press
    <3> QED BY <2>2, <3>1 DEF Press, TInv, WheelKept, wheel, Patches
  <2> QED BY <2>1, <2>2
<1>2. LocksKept'
  BY DEF TInv, LocksKept, BendWake, ResetTest, ResetFree, PushGlobals, ToneOn,
         ToneOff, Press, Threads
<1>3. RegistersKept'
  <2>1. sid' = sid \/ sid' = Played(sid, TestBlock)
    BY DEF BendWake, ResetTest, ResetFree, PushGlobals, ToneOn, ToneOff, Press
  <2> QED BY <2>1, WellFormedBlocks, SentRegisters, SameRegisters DEF TInv
<1>4. ASSUME BendWake \/ ResetTest \/ PushGlobals \/ \E k \in Keys : Press(k)
      PROVE  TableKept' /\ BlocksKept'
  <2>1. /\ UNCHANGED table
        /\ \E t \in {"main", "bend"}, b \in {NoWrite, GlobalsBlock(patch)} :
              \E l : Goto(t, l, b)
    BY <1>4 DEF BendWake, ResetTest, PushGlobals, Press
  <2>2. WellFormed(NoWrite) /\ WellFormed(GlobalsBlock(patch))
    BY WellFormedBlocks DEF TInv, WheelKept
  <2> QED BY <1>0, <2>1, <2>2, GoneTo, SameTable DEF TInv
<1>5. ASSUME ResetFree PROVE TableKept' /\ BlocksKept'
  BY <1>0, <1>5, FreedTable, WellFormedBlocks, GoneTo DEF TInv, ResetFree
<1>6. ASSUME ToneOn PROVE TableKept' /\ BlocksKept'
  <2> DEFINE v == _allocate(ToneNote)
             b == NoteOnBlock(v, ToneNote)
  <2>0. ToneNote \in Notes
    BY LiveAssumption DEF ToneNote
  <2>1. /\ note' = [note EXCEPT ![v] = ToneNote]
        /\ state' = [state EXCEPT ![v] = "held"]
        /\ on_time' = Touch(v)
        /\ Goto("main", "tone_write", b)
    BY <1>6 DEF ToneOn
  <2>2. v \in Voices /\ TableKept'
    BY <2>0, <2>1, StruckTable DEF TInv
  <2> HIDE DEF v
  <2>3. WellFormed(b)
    BY <2>0, <2>2, WellFormedBlocks
  <2> QED BY <1>0, <2>1, <2>2, <2>3, GoneTo DEF TInv
<1>7. ASSUME ToneOff PROVE TableKept' /\ BlocksKept'
  <2>0. ToneNote \in Notes
    BY LiveAssumption DEF ToneNote
  <2>1. CASE _find_held(ToneNote) = {}
    <3>1. UNCHANGED table /\ Goto("main", "idle", NoWrite)
      BY <1>7, <2>1 DEF ToneOff, table
    <3> QED BY <1>0, <3>1, WellFormedBlocks, GoneTo, SameTable DEF TInv
  <2>2. CASE _find_held(ToneNote) # {}
    <3> DEFINE v == First(_find_held(ToneNote))
               b == NoteOffBlock(v)
    <3>1. /\ note' = note /\ on_time' = on_time
          /\ state' = [state EXCEPT ![v] = "releasing"]
          /\ Goto("main", "write", b)
      BY <1>7, <2>2 DEF ToneOff
    <3>2. v \in Voices /\ TableKept'
      BY <2>0, <2>2, <3>1, LiftedTable DEF TInv
    <3> HIDE DEF v
    <3>3. WellFormed(b)
      BY <3>2, WellFormedBlocks
    <3> QED BY <1>0, <3>1, <3>2, <3>3, GoneTo DEF TInv
  <2> QED BY <2>1, <2>2
<1>8. TableKept' /\ BlocksKept'
  BY <1>4, <1>5, <1>6, <1>7
<1> QED BY <1>1, <1>2, <1>3, <1>8 DEF TInv

\* A program started again finds a patch and a wheel position of its own.
LEMMA RestartTypes == ASSUME TInv, Restart PROVE TInv'
<1>1. patch' \in Patches
  BY DEF Restart
<1>2. WheelKept'
  BY <1>1 DEF WheelKept, Restart, Patches
<1>3. TableKept'
  <2>1. /\ note' = NoNotes /\ state' = AllFree
        /\ on_time' = [v \in Voices |-> v]
    BY DEF Restart
  <2> QED BY <2>1 DEF TableKept, TableTypeOK, Ranked, NoNotes, AllFree, Voices, States
<1>4. LocksKept'
  BY DEF LocksKept, Restart, Threads
<1>5. BlocksKept'
  <2>1. block' = [t \in Threads |-> NoWrite]
    BY DEF Restart
  <2>2. \A t \in Threads : WellFormed(block'[t])
    BY <2>1, WellFormedBlocks
  <2> QED BY <2>1, <2>2 DEF BlocksKept, WellFormed, Voices, Threads
<1>6. RegistersKept'
  <2>1. Played(sid, ArmBlock) \in Registers
    BY WellFormedBlocks, PlayedType DEF TInv, RegistersKept
  <2>2. WellFormed(GlobalsBlock(patch'))
    BY <1>1, WellFormedBlocks
  <2>3. sid' \in Registers
    BY <2>1, <2>2, PlayedType DEF Restart
  <2> QED BY <2>3 DEF RegistersKept, Registers, Voices
<1> QED BY <1>2, <1>3, <1>4, <1>5, <1>6 DEF TInv

LEMMA LeaveTypes == ASSUME TInv, Leave PROVE TInv'
<1>0. "main" \in Threads
  BY DEF Threads
<1>1. CASE Restart
  BY <1>1, RestartTypes
<1>2. CASE Interrupt \/ ClosePort \/ Stop \/ all_notes_off
  <2>1. WheelKept'
    BY <1>2 DEF TInv, WheelKept, wheel, marks, Patches, Interrupt, ClosePort, Stop,
                all_notes_off
  <2>2. LocksKept'
    BY <1>2 DEF TInv, LocksKept, Interrupt, ClosePort, Stop, all_notes_off,
                Threads
  <2>3. sid' = sid
    BY <1>2 DEF Interrupt, ClosePort, Stop, all_notes_off
  <2>4. TableKept'
    <3>1. UNCHANGED table
          \/ (note' = NoNotes /\ state' = AllFree /\ on_time' = on_time)
      BY <1>2 DEF Interrupt, ClosePort, Stop, all_notes_off
    <3> QED BY <3>1, SameTable, FreedTable DEF TInv
  <2>5. \E l : Goto("main", l, NoWrite) \/ Goto("main", l, GateOffBlock)
    BY <1>2 DEF Interrupt, ClosePort, Stop, all_notes_off
  <2>6. BlocksKept'
    BY <1>0, <2>5, WellFormedBlocks, GoneTo DEF TInv
  <2> QED BY <2>1, <2>2, <2>3, <2>4, <2>6, SameRegisters DEF TInv
<1> QED BY <1>1, <1>2 DEF Leave

\* Time passing, or nothing at all
LEMMA TimeTypes ==
    ASSUME TInv, UNCHANGED <<table, bend, dirty, news, patch, sid, block, io, bend_lock>>,
           due' \in {due, TRUE}, recent' \in {recent, FALSE}, rung' = rung
    PROVE  TInv'
<1>1. TableKept' /\ RegistersKept'
  BY SameTable, SameRegisters DEF TInv
<1>2. WheelKept' /\ LocksKept'
  BY DEF TInv, WheelKept, LocksKept, Patches, Threads
<1>3. BlocksKept'
  BY DEF TInv, BlocksKept, WellFormed, Voices, Threads
<1> QED BY <1>1, <1>2, <1>3 DEF TInv

LEMMA NextTInv == TInv /\ [Next]_vars => TInv'
<1> SUFFICES ASSUME TInv, [Next]_vars PROVE TInv'
  OBVIOUS
<1>1. CASE UNCHANGED vars \/ Due \/ NotRecent
  BY <1>1, TimeTypes DEF vars, wheel, marks, Due, NotRecent
<1>2. CASE Next /\ ~Due /\ ~NotRecent
  BY <1>2, MessageTypes, KeyTypes, LeaveTypes, BusyTypes DEF Next
<1> QED BY <1>1, <1>2

LEMMA InitTInv == Init => TInv
<1> SUFFICES ASSUME Init PROVE TInv
  OBVIOUS
<1>1. TableKept
  BY DEF Init, ChipInit, TableKept, TableTypeOK, Ranked, NoNotes, AllFree, States
<1>2. WheelKept /\ LocksKept
  BY DEF Init, ChipInit, WheelKept, LocksKept
<1>3. BlocksKept
  BY PlainBlocks DEF Init, BlocksKept
<1>4. RegistersKept
  BY DEF Init, ChipInit, RegistersKept, Registers, Patches
<1> QED BY <1>1, <1>2, <1>3, <1>4 DEF TInv

\* Whatever crosses, fails or is interrupted, a note takes a voice that exists,
\* the registers hold what was written to them, each thread is where its code
\* goes on, and a lock belongs to a thread or to nobody (ChipChannel, main).
THEOREM TypeCorrect == Spec => []TypeOK
<1>1. Init => IInv /\ TInv
  BY InitIInv, InitTInv
<1>2. IInv /\ TInv /\ [Next]_vars => (IInv /\ TInv)'
  BY NextIInv, NextTInv
<1>3. IInv /\ TInv => TypeOK
  BY DEF IInv, PcOK, TInv, TableKept, WheelKept, BlocksKept, LocksKept,
         RegistersKept, TypeOK, ChipTypeOK
<1> QED BY <1>1, <1>2, <1>3, PTL DEF Spec
=============================================================================
