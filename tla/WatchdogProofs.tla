-------------------------- MODULE WatchdogProofs --------------------------
(* What the watchdog and the health monitor keep of the service they call,   *)
(* whoever else calls it: their types, that an answer reaches the thread     *)
(* that asked, and that no alarm is false.                                   *)
EXTENDS Watchdog, TLAPS

\* The engine's side of the calls, which TypeOK leaves to EngineService.
ServiceOK == /\ {bit, reach} \subseteq BOOLEAN
             /\ plays \in {"executing", "swallowing", "stuck", "not"}
             /\ call \in {"none", "open", "recover", "panic", "check", "ended"}
             /\ told \in {"nothing"} \union Results

\* A watchdog that waits for an answer is the one whose call is under way: the
\* lock is its own until then, or the program has ended.
OwnCalls == /\ watch = "checking" => call \in {"check", "ended"}
            /\ watch = "recovering" => call \in {"recover", "ended"}

\* An alarm: engine_executing has told the watchdog that the engine stopped.
Alarm == watch # "stopped" /\ watch' = "stopped"

\* The watchdog's own check, and not somebody else's, has just found an engine
\* that swallows its stream, and found it so at that moment.
Founded == call = "check" /\ watch = "checking" /\ told' = "stopped" /\ Deaf /\ Deaf'

\* TypeOK is inductive only with the types of what Poll reads; that an alarm is
\* the watchdog's own rests on OwnCalls.
WInv == TypeOK /\ ServiceOK /\ OwnCalls

ServiceStep == ServiceNext \/ UNCHANGED svars

-----------------------------------------------------------------------------
(* Every action of the composition is a step of the service, or none of it. *)

LEMMA InitService == Init => ServiceInit /\ WInv
<1> SUFFICES ASSUME Init PROVE ServiceInit /\ WInv
  OBVIOUS
<1>1. ServiceInit
  BY DEF Init
<1>2. TypeOK
  BY DEF Init, TypeOK, Unread, Status
<1>3. ServiceOK /\ OwnCalls
  BY <1>1 DEF Init, ServiceInit, ServiceOK, OwnCalls
<1> QED BY <1>1, <1>2, <1>3 DEF WInv

LEMMA NextService == Next => ServiceStep
<1> SUFFICES ASSUME Next PROVE ServiceStep
  OBVIOUS
<1>1. CASE Poll
  BY <1>1 DEF Poll, ServiceStep
<1>2. CASE Watching
  BY <1>2 DEF Watching, Judge, Finish, StallReported, Look, ServiceStep
<1>3. CASE StartCheck \/ StartRecovery \/ MonitorRecovers
  BY <1>3 DEF StartCheck, StartRecovery, MonitorRecovers, ServiceStep, ServiceNext
<1>4. CASE Probe
  BY <1>4 DEF Probe, ServiceStep
<1>5. CASE \E c \in Calls : Called(c)
  BY <1>5 DEF Called, Calls, ServiceStep, ServiceNext
<1>6. CASE \E r \in Results : Returns(r)
  BY <1>6 DEF Returns, Results, ServiceStep, ServiceNext
<1>7. CASE Device \/ Restart
  BY <1>7 DEF Device, Restart, ServiceStep, ServiceNext
<1>8. CASE Play \/ Backlog \/ CheckDue \/ TwoSeconds \/ TwelveSeconds
  BY <1>8 DEF Play, Backlog, CheckDue, TwoSeconds, TwelveSeconds, ServiceStep
<1> QED BY <1>1, <1>2, <1>3, <1>4, <1>5, <1>6, <1>7, <1>8 DEF Next

LEMMA ServiceTypes == ASSUME ServiceOK, ServiceStep PROVE ServiceOK'
<1>1. CASE UNCHANGED svars
  BY <1>1 DEF svars, ServiceOK
<1>2. CASE \E c \in {"recover", "panic", "check"} : Begin(c)
  BY <1>2 DEF Begin, ServiceOK
<1>3. CASE \E r \in Results : Answer(r)
  BY <1>3 DEF Answer, ServiceOK
<1>4. CASE Break \/ Lapse \/ Wake \/ AskMode \/ Die
  BY <1>4 DEF Break, Lapse, Wake, AskMode, Die, ServiceOK
<1>5. CASE PowerUp \/ Exit \/ Rerun
  BY <1>5 DEF PowerUp, Exit, Rerun, ServiceOK
<1> QED BY <1>1, <1>2, <1>3, <1>4, <1>5 DEF ServiceStep, ServiceNext, Results

-----------------------------------------------------------------------------
(* The loop's own state *)

LEMMA LookKeeps == ASSUME TypeOK, Look PROVE TypeOK'
<1>1. seen.running \in BOOLEAN
  BY DEF TypeOK, Status
<1>2. watch' \in {"stall", "wait"} /\ stalled' \in {"no", "lately", "long"}
  BY DEF Look, TypeOK
<1>3. seen' \in Status
  BY DEF Look, Unread, Status
<1> QED BY <1>1, <1>2, <1>3 DEF Look, TypeOK

LEMMA LookOwns == ASSUME Look PROVE OwnCalls'
  BY DEF Look, OwnCalls

LEMMA WatchingKeeps == ASSUME WInv, Watching PROVE TypeOK' /\ OwnCalls'
<1>1. CASE Look
  BY <1>1, LookKeeps, LookOwns DEF WInv
<1>2. CASE Judge /\ ~Look
  BY <1>2 DEF Judge, WInv, TypeOK, OwnCalls, svars
<1>3. CASE StallReported
  BY <1>3 DEF StallReported, WInv, TypeOK, OwnCalls, svars
<1> QED BY <1>1, <1>2, <1>3 DEF Watching, Judge, Finish

LEMMA PollKeeps == ASSUME WInv, Poll PROVE TypeOK' /\ OwnCalls'
<1>1. bit \in BOOLEAN /\ backlog \in BOOLEAN
  BY DEF WInv, TypeOK, ServiceOK
<1>2. seen' \in Status
  BY <1>1 DEF Poll, Status
<1> QED BY <1>2 DEF Poll, WInv, TypeOK, OwnCalls

LEMMA StartsKeep ==
    ASSUME WInv, StartCheck \/ StartRecovery \/ MonitorRecovers
    PROVE  TypeOK' /\ OwnCalls'
<1>1. CASE StartCheck
  BY <1>1 DEF StartCheck, Begin, WInv, TypeOK, OwnCalls
<1>2. CASE StartRecovery
  BY <1>2 DEF StartRecovery, Begin, WInv, TypeOK, OwnCalls
<1>3. CASE MonitorRecovers
  BY <1>3 DEF MonitorRecovers, Begin, WInv, TypeOK, OwnCalls, loop
<1> QED BY <1>1, <1>2, <1>3

LEMMA CalledKeeps == ASSUME WInv, NEW c \in Calls, Called(c) PROVE TypeOK' /\ OwnCalls'
  BY DEF Called, Begin, WInv, TypeOK, OwnCalls, loop

\* Whoever's call it was, the watchdog goes on only with an answer of its own.
LEMMA ReturnsKeeps ==
    ASSUME WInv, NEW r \in Results, Returns(r)
    PROVE  TypeOK' /\ OwnCalls'
<1>1. watch' \in {watch, "stopped", "checked"} \ {"checking", "recovering"}
  BY DEF Returns
<1>2. probed' \in BOOLEAN
  BY DEF Returns, WInv, TypeOK
<1> QED BY <1>1, <1>2 DEF Returns, WInv, TypeOK, OwnCalls

LEMMA DeviceKeeps == ASSUME WInv, Device PROVE TypeOK' /\ OwnCalls'
<1>1. call' = call \/ call' = "ended"
  BY DEF Device, Break, Lapse, Wake, AskMode, Die, Exit
<1> QED BY <1>1 DEF Device, WInv, TypeOK, OwnCalls, loop

LEMMA RestartKeeps == ASSUME WInv, Restart PROVE TypeOK' /\ OwnCalls'
<1>1. seen' \in Status
  BY DEF Restart, Unread, Status
<1> QED BY <1>1 DEF Restart, TypeOK, OwnCalls

LEMMA RestKeeps ==
    ASSUME WInv, Probe \/ Play \/ Backlog \/ CheckDue \/ TwoSeconds \/ TwelveSeconds
    PROVE  TypeOK' /\ OwnCalls'
<1>1. CASE Probe
  BY <1>1 DEF Probe, WInv, TypeOK, OwnCalls, loop, svars
<1>2. CASE Play
  BY <1>2 DEF Play, WInv, TypeOK, OwnCalls, loop, svars
<1>3. CASE Backlog
  BY <1>3 DEF Backlog, WInv, TypeOK, OwnCalls, loop, svars
<1>4. CASE CheckDue \/ TwoSeconds
  BY <1>4 DEF CheckDue, TwoSeconds, WInv, TypeOK, OwnCalls, svars
<1>5. CASE TwelveSeconds
  BY <1>5 DEF TwelveSeconds, WInv, TypeOK, OwnCalls, loop, svars
<1> QED BY <1>1, <1>2, <1>3, <1>4, <1>5

LEMMA NextKeeps == ASSUME WInv, [Next]_vars PROVE WInv'
<1>1. CASE UNCHANGED vars
  BY <1>1 DEF vars, svars, loop, WInv, TypeOK, ServiceOK, OwnCalls
<1>2. CASE Next
  <2>1. ServiceOK'
    BY <1>2, NextService, ServiceTypes DEF WInv
  <2>2. TypeOK' /\ OwnCalls'
    BY <1>2, WatchingKeeps, PollKeeps, StartsKeep, CalledKeeps, ReturnsKeeps,
       DeviceKeeps, RestartKeeps, RestKeeps DEF Next
  <2> QED BY <2>1, <2>2 DEF WInv
<1> QED BY <1>1, <1>2

LEMMA Invariance == Spec => []WInv
<1>1. Init => WInv
  BY InitService
<1>2. WInv /\ [Next]_vars => WInv'
  BY NextKeeps
<1> QED BY <1>1, <1>2, PTL DEF Spec

-----------------------------------------------------------------------------
(* Theorems *)

\* Whatever the threads do, the watchdog works with statuses that have both a
\* run bit and a backlog, and is at one of its places (watchdog_loop).
THEOREM TypeCorrect == Spec => []TypeOK
<1>1. WInv => TypeOK
  BY DEF WInv
<1> QED BY <1>1, Invariance, PTL

\* The answer to a check or a recovery that the watchdog waits for is that of
\* its own call, however many threads call at the same time (_IO_LOCK).
THEOREM AnswersAreOwn == Spec => []OwnCalls
<1>1. WInv => OwnCalls
  BY DEF WInv
<1> QED BY <1>1, Invariance, PTL

\* ENGINE STOPPED EXECUTING is said only of an engine that at that moment
\* swallows its stream, found so by the watchdog's own check; a check another
\* thread made of it raises no alarm (watchdog_loop, engine_executing).
LEMMA AlarmFounded == ASSUME WInv, Next, Alarm PROVE Founded
<1>1. PICK r \in Results : Returns(r)
  <2>1. Next => (\E r \in Results : Returns(r)) \/ watch' # "stopped" \/ watch' = watch
    BY DEF Next, Poll, Watching, Judge, Finish, StallReported, Look, StartCheck,
           StartRecovery, Probe, MonitorRecovers, Called, Device, Restart, Play, Backlog,
           CheckDue, TwoSeconds, TwelveSeconds, loop
  <2> QED BY <2>1 DEF Alarm
<1>2. watch = "checking" /\ r = "stopped"
  BY <1>1 DEF Alarm, Returns
<1>3. call = "check"
  BY <1>1, <1>2 DEF WInv, OwnCalls, Returns, Answer, Answers
<1>4. Deaf
  BY <1>1, <1>2, <1>3 DEF Returns, Answer, Answers
<1>5. Deaf' /\ told' = "stopped"
  BY <1>1, <1>2, <1>3, <1>4 DEF Returns, Answer, Deaf
<1> QED BY <1>2, <1>3, <1>4, <1>5 DEF Founded

THEOREM AlarmsAreTrue == Spec => [][Alarm => Founded]_vars
<1>1. WInv /\ [Next]_vars => [Alarm => Founded]_vars
  BY AlarmFounded DEF vars, loop
<1> QED BY <1>1, Invariance, PTL DEF Spec
=============================================================================
