-------------------------- MODULE EngineModeProofs --------------------------
(* A healthy engine is left alone, and the sockets are armed in mode 1 only, *)
(* for any number of attempts, as long as the status race cannot spoil three *)
(* measurements in a row.                                                    *)
EXTENDS EngineMode, TLAPS

\* Who can be where: only recover bounces and goes to USB, and a check does
\* nothing but measure.
Whose == /\ pc \in {"bounce", "ask", "await", "usb"} => caller = "recover"
         /\ pc = "measure" => IF checking = "watch" THEN caller = "check"
                              ELSE caller = "recover"
         /\ pc = "init" => caller \in {"recover", "panic"}
         /\ pc \in {"start", "send", "poll"} => caller \in {"open", "recover"}

\* After a bounce the mode asked for last is the one to play in.
LastAsked == pc \in {"await", "usb", "poll"} => mode = SIDPLAY

\* What start_engine finds when reset_engine calls it: a device acknowledged
\* in mode 1, or a cold one.
ColdOrPlaying ==
    pc \in {"start", "send"} /\ caller = "recover" =>
        mode = SIDPLAY \/ (~ack /\ ~willing)

\* A bounce begins at an engine that swallows its stream; it reports itself
\* running, or lost the run bit for good, and nothing heals it before the bounce.
BounceAtSwallowing == FirstBounce => engine = "swallowing" /\ (ack \/ ~willing)

\* ArmedInMode rests on how the call came to where it is.
Flow == Whose /\ LastAsked /\ ColdOrPlaying

\* Nor is HealthyUntouched: nothing must heal the engine before the bounce.
IInv == TypeOK /\ Flow /\ BounceAtSwallowing

-----------------------------------------------------------------------------
(* The types *)

LEMMA AcknowledgeType == ASSUME TypeOK, Acknowledge PROVE TypeOK'
<1>1. DeviceOK'
  BY DEF TypeOK, DeviceOK, Acknowledge, Playing, Executing, IDLE,
         SIDPLAY
<1>2. CallOK'
  BY DEF TypeOK, CallOK, Acknowledge, Playing, Executing, IDLE,
         SIDPLAY
<1>3. CountOK'
  BY EngineAssumption DEF TypeOK, CountOK, Acknowledge, Playing,
                          Executing, IDLE, SIDPLAY
<1> QED BY <1>1, <1>2, <1>3 DEF TypeOK

LEMMA FailType == ASSUME TypeOK, Fail PROVE TypeOK'
<1>1. DeviceOK'
  BY DEF TypeOK, DeviceOK, Fail, Executing, Playing, IDLE, SIDPLAY
<1>2. CallOK'
  BY DEF TypeOK, CallOK, Fail, Executing, Playing, IDLE, SIDPLAY
<1>3. CountOK'
  BY EngineAssumption DEF TypeOK, CountOK, Fail, Executing, Playing,
                          IDLE, SIDPLAY
<1> QED BY <1>1, <1>2, <1>3 DEF TypeOK

LEMMA StrayType == ASSUME TypeOK, Stray PROVE TypeOK'
<1>1. DeviceOK'
  BY DEF TypeOK, DeviceOK, Stray, Asked, IDLE, SIDPLAY
<1>2. CallOK'
  BY DEF TypeOK, CallOK, Stray, Asked, IDLE, SIDPLAY
<1>3. CountOK'
  BY EngineAssumption DEF TypeOK, CountOK, Stray, Asked, IDLE, SIDPLAY
<1> QED BY <1>1, <1>2, <1>3 DEF TypeOK

LEMMA PowerCycleType == ASSUME TypeOK, PowerCycle PROVE TypeOK'
<1>1. DeviceOK'
  BY DEF TypeOK, DeviceOK, PowerCycle, IDLE, SIDPLAY
<1>2. CallOK'
  BY DEF TypeOK, CallOK, PowerCycle, IDLE, SIDPLAY
<1>3. CountOK'
  BY EngineAssumption DEF TypeOK, CountOK, PowerCycle, IDLE, SIDPLAY
<1> QED BY <1>1, <1>2, <1>3 DEF TypeOK

LEMMA QuitType == ASSUME TypeOK, Quit PROVE TypeOK'
<1>1. DeviceOK'
  BY DEF TypeOK, DeviceOK, Quit, device, IDLE, SIDPLAY
<1>2. CallOK'
  BY DEF TypeOK, CallOK, Quit, device, IDLE, SIDPLAY
<1>3. CountOK'
  BY EngineAssumption DEF TypeOK, CountOK, Quit, device, IDLE, SIDPLAY
<1> QED BY <1>1, <1>2, <1>3 DEF TypeOK

LEMMA RerunType == ASSUME TypeOK, Rerun PROVE TypeOK'
<1>1. DeviceOK'
  BY DEF TypeOK, DeviceOK, Rerun, device, IDLE, SIDPLAY
<1>2. CallOK'
  BY DEF TypeOK, CallOK, Rerun, device, IDLE, SIDPLAY
<1>3. CountOK'
  BY EngineAssumption DEF TypeOK, CountOK, Rerun, device, IDLE, SIDPLAY
<1> QED BY <1>1, <1>2, <1>3 DEF TypeOK

LEMMA RecoverType == ASSUME TypeOK, Recover PROVE TypeOK'
<1>1. DeviceOK'
  BY DEF TypeOK, DeviceOK, Recover, device, IDLE, SIDPLAY
<1>2. CallOK'
  BY DEF TypeOK, CallOK, Recover, device, IDLE, SIDPLAY
<1>3. CountOK'
  BY EngineAssumption DEF TypeOK, CountOK, Recover, device, IDLE,
                          SIDPLAY
<1> QED BY <1>1, <1>2, <1>3 DEF TypeOK

LEMMA CheckType == ASSUME TypeOK, Check PROVE TypeOK'
<1>1. DeviceOK'
  BY DEF TypeOK, DeviceOK, Check, device, IDLE, SIDPLAY
<1>2. CallOK'
  BY DEF TypeOK, CallOK, Check, device, IDLE, SIDPLAY
<1>3. CountOK'
  BY EngineAssumption DEF TypeOK, CountOK, Check, device, IDLE,
                          SIDPLAY
<1> QED BY <1>1, <1>2, <1>3 DEF TypeOK

LEMMA HardPanicType == ASSUME TypeOK, HardPanic PROVE TypeOK'
<1>1. DeviceOK'
  BY DEF TypeOK, DeviceOK, HardPanic, device, Draining, Playing, IDLE,
         SIDPLAY
<1>2. CallOK'
  BY DEF TypeOK, CallOK, HardPanic, device, Draining, Playing, IDLE,
         SIDPLAY
<1>3. CountOK'
  BY EngineAssumption DEF TypeOK, CountOK, HardPanic, device,
                          Draining, Playing, IDLE, SIDPLAY
<1> QED BY <1>1, <1>2, <1>3 DEF TypeOK

LEMMA MeasureGoodType == ASSUME TypeOK, MeasureGood PROVE TypeOK'
<1>1. DeviceOK'
  BY DEF TypeOK, DeviceOK, MeasureGood, device, TakenToExecute, Goto,
         Return, IDLE, SIDPLAY
<1>2. CallOK'
  BY DEF TypeOK, CallOK, MeasureGood, device, TakenToExecute, Goto,
         Return, IDLE, SIDPLAY
<1>3. CountOK'
  BY EngineAssumption DEF TypeOK, CountOK, MeasureGood, device,
                          TakenToExecute, Goto, Return, IDLE, SIDPLAY
<1> QED BY <1>1, <1>2, <1>3 DEF TypeOK

LEMMA MeasureTimeoutType == ASSUME TypeOK, MeasureTimeout PROVE TypeOK'
<1>1. DeviceOK'
  BY DEF TypeOK, DeviceOK, MeasureTimeout, device, TakenToExecute,
         Goto, Return, IDLE, SIDPLAY
<1>2. CallOK'
  BY DEF TypeOK, CallOK, MeasureTimeout, device, TakenToExecute, Goto,
         Return, IDLE, SIDPLAY
<1>3. CountOK'
  BY EngineAssumption DEF TypeOK, CountOK, MeasureTimeout, device,
                          TakenToExecute, Goto, Return, IDLE, SIDPLAY
<1> QED BY <1>1, <1>2, <1>3 DEF TypeOK

LEMMA MeasureRaisesType == ASSUME TypeOK, MeasureRaises PROVE TypeOK'
<1>1. DeviceOK'
  BY DEF TypeOK, DeviceOK, MeasureRaises, device, Goto, Return, IDLE, SIDPLAY
<1>2. CallOK'
  BY DEF TypeOK, CallOK, MeasureRaises, device, Goto, Return, IDLE, SIDPLAY
<1>3. CountOK'
  BY EngineAssumption DEF TypeOK, CountOK, MeasureRaises, device, Goto, Return, IDLE, SIDPLAY
<1> QED BY <1>1, <1>2, <1>3 DEF TypeOK

LEMMA MeasureAgainType == ASSUME TypeOK, MeasureAgain PROVE TypeOK'
<1>1. DeviceOK'
  BY DEF TypeOK, DeviceOK, MeasureAgain, device, Goto, IDLE, SIDPLAY
<1>2. CallOK'
  BY DEF TypeOK, CallOK, MeasureAgain, device, Goto, IDLE, SIDPLAY
<1>3. CountOK'
  BY EngineAssumption DEF TypeOK, CountOK, MeasureAgain, device, Goto,
                          IDLE, SIDPLAY
<1> QED BY <1>1, <1>2, <1>3 DEF TypeOK

LEMMA MeasureShortType == ASSUME TypeOK, MeasureShort PROVE TypeOK'
<1>1. DeviceOK'
  BY DEF TypeOK, DeviceOK, MeasureShort, device, TooShort, Executing,
         Draining, Playing, TakenToBeStopped, Goto, Return, IDLE, SIDPLAY
<1>2. CallOK'
  BY DEF TypeOK, CallOK, MeasureShort, device, TooShort, Executing,
         Draining, Playing, TakenToBeStopped, Goto, Return, IDLE, SIDPLAY
<1>3. CountOK'
  BY EngineAssumption DEF TypeOK, CountOK, MeasureShort, device,
                          TooShort, Executing, Draining, Playing, TakenToBeStopped,
                          Goto, Return, IDLE, SIDPLAY
<1> QED BY <1>1, <1>2, <1>3 DEF TypeOK

LEMMA RearmType == ASSUME TypeOK, Rearm PROVE TypeOK'
<1>1. DeviceOK'
  BY DEF TypeOK, DeviceOK, Rearm, device, Return, IDLE, SIDPLAY
<1>2. CallOK'
  BY DEF TypeOK, CallOK, Rearm, device, Return, IDLE, SIDPLAY
<1>3. CountOK'
  BY EngineAssumption DEF TypeOK, CountOK, Rearm, device, Return,
                          IDLE, SIDPLAY
<1> QED BY <1>1, <1>2, <1>3 DEF TypeOK

LEMMA RearmFailsType == ASSUME TypeOK, RearmFails PROVE TypeOK'
<1>1. DeviceOK'
  BY DEF TypeOK, DeviceOK, RearmFails, device, Goto, Return, IDLE,
         SIDPLAY
<1>2. CallOK'
  BY DEF TypeOK, CallOK, RearmFails, device, Goto, Return, IDLE,
         SIDPLAY
<1>3. CountOK'
  BY EngineAssumption DEF TypeOK, CountOK, RearmFails, device, Goto,
                          Return, IDLE, SIDPLAY
<1> QED BY <1>1, <1>2, <1>3 DEF TypeOK

LEMMA BounceCheckedType == ASSUME TypeOK, BounceChecked PROVE TypeOK'
<1>1. DeviceOK'
  BY DEF TypeOK, DeviceOK, BounceChecked, device, AfterReset, Goto,
         Playing, IDLE, SIDPLAY
<1>2. CallOK'
  BY DEF TypeOK, CallOK, BounceChecked, device, AfterReset, Goto,
         Playing, IDLE, SIDPLAY
<1>3. CountOK'
  BY EngineAssumption DEF TypeOK, CountOK, BounceChecked, device,
                          AfterReset, Goto, Playing, IDLE, SIDPLAY
<1> QED BY <1>1, <1>2, <1>3 DEF TypeOK

LEMMA AskIdleType == ASSUME TypeOK, AskIdle PROVE TypeOK'
<1>1. DeviceOK'
  BY DEF TypeOK, DeviceOK, AskIdle, Asked, Goto, IDLE, SIDPLAY
<1>2. CallOK'
  BY DEF TypeOK, CallOK, AskIdle, Asked, Goto, IDLE, SIDPLAY
<1>3. CountOK'
  BY EngineAssumption DEF TypeOK, CountOK, AskIdle, Asked, Goto, IDLE,
                          SIDPLAY
<1> QED BY <1>1, <1>2, <1>3 DEF TypeOK

LEMMA AskPlayType == ASSUME TypeOK, AskPlay PROVE TypeOK'
<1>1. DeviceOK'
  BY DEF TypeOK, DeviceOK, AskPlay, Asked, Goto, IDLE, SIDPLAY
<1>2. CallOK'
  BY DEF TypeOK, CallOK, AskPlay, Asked, Goto, IDLE, SIDPLAY
<1>3. CountOK'
  BY EngineAssumption DEF TypeOK, CountOK, AskPlay, Asked, Goto, IDLE,
                          SIDPLAY
<1> QED BY <1>1, <1>2, <1>3 DEF TypeOK

LEMMA AskFailsType == ASSUME TypeOK, AskFails PROVE TypeOK'
<1>1. DeviceOK'
  BY DEF TypeOK, DeviceOK, AskFails, device, Return, IDLE, SIDPLAY
<1>2. CallOK'
  BY DEF TypeOK, CallOK, AskFails, device, Return, IDLE, SIDPLAY
<1>3. CountOK'
  BY EngineAssumption DEF TypeOK, CountOK, AskFails, device, Return,
                          IDLE, SIDPLAY
<1> QED BY <1>1, <1>2, <1>3 DEF TypeOK

LEMMA AcknowledgedType == ASSUME TypeOK, Acknowledged PROVE TypeOK'
<1>1. DeviceOK'
  BY DEF TypeOK, DeviceOK, Acknowledged, device, AfterReset, Goto,
         Playing, IDLE, SIDPLAY
<1>2. CallOK'
  BY DEF TypeOK, CallOK, Acknowledged, device, AfterReset, Goto,
         Playing, IDLE, SIDPLAY
<1>3. CountOK'
  BY EngineAssumption DEF TypeOK, CountOK, Acknowledged, device,
                          AfterReset, Goto, Playing, IDLE, SIDPLAY
<1> QED BY <1>1, <1>2, <1>3 DEF TypeOK

LEMMA NotAcknowledgedType == ASSUME TypeOK, NotAcknowledged PROVE TypeOK'
<1>1. DeviceOK'
  BY DEF TypeOK, DeviceOK, NotAcknowledged, device, Goto, IDLE,
         SIDPLAY
<1>2. CallOK'
  BY DEF TypeOK, CallOK, NotAcknowledged, device, Goto, IDLE, SIDPLAY
<1>3. CountOK'
  BY EngineAssumption DEF TypeOK, CountOK, NotAcknowledged, device,
                          Goto, IDLE, SIDPLAY
<1> QED BY <1>1, <1>2, <1>3 DEF TypeOK

LEMMA UsbResetType == ASSUME TypeOK, UsbReset PROVE TypeOK'
<1>1. DeviceOK'
  BY DEF TypeOK, DeviceOK, UsbReset, device, Goto, IDLE, SIDPLAY
<1>2. CallOK'
  BY DEF TypeOK, CallOK, UsbReset, device, Goto, IDLE, SIDPLAY
<1>3. CountOK'
  BY EngineAssumption DEF TypeOK, CountOK, UsbReset, device, Goto,
                          IDLE, SIDPLAY
<1> QED BY <1>1, <1>2, <1>3 DEF TypeOK

LEMMA StartSeenType == ASSUME TypeOK, StartSeen PROVE TypeOK'
<1>1. DeviceOK'
  BY DEF TypeOK, DeviceOK, StartSeen, device, Started, AfterReset,
         Goto, Return, IDLE, SIDPLAY
<1>2. CallOK'
  BY DEF TypeOK, CallOK, StartSeen, device, Started, AfterReset, Goto,
         Return, IDLE, SIDPLAY
<1>3. CountOK'
  BY EngineAssumption DEF TypeOK, CountOK, StartSeen, device, Started,
                          AfterReset, Goto, Return, IDLE, SIDPLAY
<1> QED BY <1>1, <1>2, <1>3 DEF TypeOK

LEMMA StartUnseenType == ASSUME TypeOK, StartUnseen PROVE TypeOK'
<1>1. DeviceOK'
  BY DEF TypeOK, DeviceOK, StartUnseen, device, Goto, IDLE, SIDPLAY
<1>2. CallOK'
  BY DEF TypeOK, CallOK, StartUnseen, device, Goto, IDLE, SIDPLAY
<1>3. CountOK'
  BY EngineAssumption DEF TypeOK, CountOK, StartUnseen, device, Goto,
                          IDLE, SIDPLAY
<1> QED BY <1>1, <1>2, <1>3 DEF TypeOK

LEMMA SendStartType == ASSUME TypeOK, SendStart PROVE TypeOK'
<1>1. DeviceOK'
  BY DEF TypeOK, DeviceOK, SendStart, Asked, Goto, IDLE, SIDPLAY
<1>2. CallOK'
  BY DEF TypeOK, CallOK, SendStart, Asked, Goto, IDLE, SIDPLAY
<1>3. CountOK'
  BY EngineAssumption DEF TypeOK, CountOK, SendStart, Asked, Goto,
                          IDLE, SIDPLAY
<1> QED BY <1>1, <1>2, <1>3 DEF TypeOK

LEMMA StartTimeoutType == ASSUME TypeOK, StartTimeout PROVE TypeOK'
<1>1. DeviceOK'
  BY DEF TypeOK, DeviceOK, StartTimeout, device, Goto, Return, IDLE,
         SIDPLAY
<1>2. CallOK'
  BY DEF TypeOK, CallOK, StartTimeout, device, Goto, Return, IDLE,
         SIDPLAY
<1>3. CountOK'
  BY EngineAssumption DEF TypeOK, CountOK, StartTimeout, device, Goto,
                          Return, IDLE, SIDPLAY
<1> QED BY <1>1, <1>2, <1>3 DEF TypeOK

LEMMA StartFailsType == ASSUME TypeOK, StartFails PROVE TypeOK'
<1>1. DeviceOK'
  BY DEF TypeOK, DeviceOK, StartFails, device, Goto, Return, IDLE, SIDPLAY
<1>2. CallOK'
  BY DEF TypeOK, CallOK, StartFails, device, Goto, Return, IDLE, SIDPLAY
<1>3. CountOK'
  BY EngineAssumption DEF TypeOK, CountOK, StartFails, device, Goto, Return, IDLE, SIDPLAY
<1> QED BY <1>1, <1>2, <1>3 DEF TypeOK

LEMMA NextType == ASSUME TypeOK, [Next]_vars PROVE TypeOK'
<1>1. CASE UNCHANGED vars
  BY <1>1 DEF vars, TypeOK, DeviceOK, CallOK, CountOK
<1>2. CASE Next
  BY <1>2,
     AcknowledgeType, FailType, StrayType, PowerCycleType, QuitType, RerunType,
     RecoverType, CheckType, HardPanicType, MeasureGoodType,
     MeasureTimeoutType, MeasureRaisesType, MeasureAgainType, MeasureShortType, RearmType,
     RearmFailsType, BounceCheckedType, AskIdleType, AskPlayType,
     AskFailsType, AcknowledgedType, NotAcknowledgedType, UsbResetType,
     StartSeenType, StartUnseenType, SendStartType, StartTimeoutType, StartFailsType
  DEF Next, Driver
<1> QED BY <1>1, <1>2

-----------------------------------------------------------------------------
(* How a call comes to where it is *)

\* A mode acknowledged late changes nothing the call relies on.
LEMMA AcknowledgeFlow == ASSUME TypeOK, Flow, Acknowledge PROVE Flow'
  BY EngineAssumption
  DEF TypeOK, DeviceOK, CallOK, CountOK, Flow, Whose, LastAsked,
      ColdOrPlaying, Playing, IDLE, SIDPLAY, Acknowledge,
      Executing

LEMMA FailFlow == ASSUME TypeOK, Flow, Fail PROVE Flow'
  BY EngineAssumption
  DEF TypeOK, DeviceOK, CallOK, CountOK, Flow, Whose, LastAsked,
      ColdOrPlaying, Playing, IDLE, SIDPLAY, Fail, Executing

LEMMA StrayFlow == ASSUME TypeOK, Flow, Stray PROVE Flow'
  BY EngineAssumption
  DEF TypeOK, DeviceOK, CallOK, CountOK, Flow, Whose, LastAsked,
      ColdOrPlaying, Playing, IDLE, SIDPLAY, Stray, Asked

LEMMA PowerCycleFlow == ASSUME TypeOK, Flow, PowerCycle PROVE Flow'
  BY EngineAssumption
  DEF TypeOK, DeviceOK, CallOK, CountOK, Flow, Whose, LastAsked,
      ColdOrPlaying, Playing, IDLE, SIDPLAY, PowerCycle

LEMMA QuitFlow == ASSUME TypeOK, Flow, Quit PROVE Flow'
  BY EngineAssumption
  DEF TypeOK, DeviceOK, CallOK, CountOK, Flow, Whose, LastAsked,
      ColdOrPlaying, Playing, device, IDLE, SIDPLAY, Quit

LEMMA RerunFlow == ASSUME TypeOK, Flow, Rerun PROVE Flow'
  BY EngineAssumption
  DEF TypeOK, DeviceOK, CallOK, CountOK, Flow, Whose, LastAsked,
      ColdOrPlaying, Playing, device, IDLE, SIDPLAY, Rerun

LEMMA RecoverFlow == ASSUME TypeOK, Flow, Recover PROVE Flow'
  BY EngineAssumption
  DEF TypeOK, DeviceOK, CallOK, CountOK, Flow, Whose, LastAsked,
      ColdOrPlaying, Playing, IDLE, SIDPLAY, Recover, device

LEMMA CheckFlow == ASSUME TypeOK, Flow, Check PROVE Flow'
  BY EngineAssumption
  DEF TypeOK, DeviceOK, CallOK, CountOK, Flow, Whose, LastAsked,
      ColdOrPlaying, Playing, IDLE, SIDPLAY, Check, device

LEMMA HardPanicFlow == ASSUME TypeOK, Flow, HardPanic PROVE Flow'
  BY EngineAssumption
  DEF TypeOK, DeviceOK, CallOK, CountOK, Flow, Whose, LastAsked,
      ColdOrPlaying, Playing, IDLE, SIDPLAY, HardPanic, device,
      Draining

LEMMA MeasureGoodFlow == ASSUME TypeOK, Flow, MeasureGood PROVE Flow'
  BY EngineAssumption
  DEF TypeOK, DeviceOK, CallOK, CountOK, Flow, Whose, LastAsked,
      ColdOrPlaying, Playing, IDLE, SIDPLAY, MeasureGood, device,
      TakenToExecute, Goto, Return

LEMMA MeasureTimeoutFlow == ASSUME TypeOK, Flow, MeasureTimeout PROVE Flow'
  BY EngineAssumption
  DEF TypeOK, DeviceOK, CallOK, CountOK, Flow, Whose, LastAsked,
      ColdOrPlaying, Playing, IDLE, SIDPLAY, MeasureTimeout,
      device, TakenToExecute, Goto, Return

LEMMA MeasureRaisesFlow == ASSUME TypeOK, Flow, MeasureRaises PROVE Flow'
  BY EngineAssumption
  DEF TypeOK, DeviceOK, CallOK, CountOK, Flow, Whose, LastAsked,
      ColdOrPlaying, Playing, IDLE, SIDPLAY, MeasureRaises, device, Goto, Return

LEMMA MeasureAgainFlow == ASSUME TypeOK, Flow, MeasureAgain PROVE Flow'
  BY EngineAssumption
  DEF TypeOK, DeviceOK, CallOK, CountOK, Flow, Whose, LastAsked,
      ColdOrPlaying, Playing, IDLE, SIDPLAY, MeasureAgain,
      device, Goto

LEMMA MeasureShortFlow == ASSUME TypeOK, Flow, MeasureShort PROVE Flow'
  BY EngineAssumption
  DEF TypeOK, DeviceOK, CallOK, CountOK, Flow, Whose, LastAsked,
      ColdOrPlaying, Playing, IDLE, SIDPLAY, MeasureShort,
      device, TooShort, Executing, Draining, TakenToBeStopped, Goto, Return

LEMMA RearmFlow == ASSUME TypeOK, Flow, Rearm PROVE Flow'
  BY EngineAssumption
  DEF TypeOK, DeviceOK, CallOK, CountOK, Flow, Whose, LastAsked,
      ColdOrPlaying, Playing, IDLE, SIDPLAY, Rearm, device,
      Return

LEMMA RearmFailsFlow == ASSUME TypeOK, Flow, RearmFails PROVE Flow'
  BY EngineAssumption
  DEF TypeOK, DeviceOK, CallOK, CountOK, Flow, Whose, LastAsked,
      ColdOrPlaying, Playing, IDLE, SIDPLAY, RearmFails, device,
      Goto, Return

LEMMA BounceCheckedFlow == ASSUME TypeOK, Flow, BounceChecked PROVE Flow'
  BY EngineAssumption
  DEF TypeOK, DeviceOK, CallOK, CountOK, Flow, Whose, LastAsked,
      ColdOrPlaying, Playing, IDLE, SIDPLAY, BounceChecked,
      device, AfterReset, Goto

LEMMA AskIdleFlow == ASSUME TypeOK, Flow, AskIdle PROVE Flow'
  BY EngineAssumption
  DEF TypeOK, DeviceOK, CallOK, CountOK, Flow, Whose, LastAsked,
      ColdOrPlaying, Playing, IDLE, SIDPLAY, AskIdle, Asked, Goto

LEMMA AskPlayFlow == ASSUME TypeOK, Flow, AskPlay PROVE Flow'
  BY EngineAssumption
  DEF TypeOK, DeviceOK, CallOK, CountOK, Flow, Whose, LastAsked,
      ColdOrPlaying, Playing, IDLE, SIDPLAY, AskPlay, Asked, Goto

LEMMA AskFailsFlow == ASSUME TypeOK, Flow, AskFails PROVE Flow'
  BY EngineAssumption
  DEF TypeOK, DeviceOK, CallOK, CountOK, Flow, Whose, LastAsked,
      ColdOrPlaying, Playing, IDLE, SIDPLAY, AskFails, device,
      Return

LEMMA AcknowledgedFlow == ASSUME TypeOK, Flow, Acknowledged PROVE Flow'
  BY EngineAssumption
  DEF TypeOK, DeviceOK, CallOK, CountOK, Flow, Whose, LastAsked,
      ColdOrPlaying, Playing, IDLE, SIDPLAY, Acknowledged,
      device, AfterReset, Goto

LEMMA NotAcknowledgedFlow == ASSUME TypeOK, Flow, NotAcknowledged PROVE Flow'
  BY EngineAssumption
  DEF TypeOK, DeviceOK, CallOK, CountOK, Flow, Whose, LastAsked,
      ColdOrPlaying, Playing, IDLE, SIDPLAY, NotAcknowledged,
      device, Goto

\* What USB leaves behind is what start_engine can rely on.
LEMMA UsbResetFlow == ASSUME TypeOK, Flow, UsbReset PROVE Flow'
  BY EngineAssumption
  DEF TypeOK, DeviceOK, CallOK, CountOK, Flow, Whose, LastAsked,
      ColdOrPlaying, Playing, IDLE, SIDPLAY, UsbReset, device,
      Goto

LEMMA StartSeenFlow == ASSUME TypeOK, Flow, StartSeen PROVE Flow'
  BY EngineAssumption
  DEF TypeOK, DeviceOK, CallOK, CountOK, Flow, Whose, LastAsked,
      ColdOrPlaying, Playing, IDLE, SIDPLAY, StartSeen, device,
      Started, AfterReset, Goto, Return

LEMMA StartUnseenFlow == ASSUME TypeOK, Flow, StartUnseen PROVE Flow'
  BY EngineAssumption
  DEF TypeOK, DeviceOK, CallOK, CountOK, Flow, Whose, LastAsked,
      ColdOrPlaying, Playing, IDLE, SIDPLAY, StartUnseen, device,
      Goto

LEMMA SendStartFlow == ASSUME TypeOK, Flow, SendStart PROVE Flow'
  BY EngineAssumption
  DEF TypeOK, DeviceOK, CallOK, CountOK, Flow, Whose, LastAsked,
      ColdOrPlaying, Playing, IDLE, SIDPLAY, SendStart, Asked,
      Goto

LEMMA StartTimeoutFlow == ASSUME TypeOK, Flow, StartTimeout PROVE Flow'
  BY EngineAssumption
  DEF TypeOK, DeviceOK, CallOK, CountOK, Flow, Whose, LastAsked,
      ColdOrPlaying, Playing, IDLE, SIDPLAY, StartTimeout,
      device, Goto, Return

LEMMA StartFailsFlow == ASSUME TypeOK, Flow, StartFails PROVE Flow'
  BY EngineAssumption
  DEF TypeOK, DeviceOK, CallOK, CountOK, Flow, Whose, LastAsked,
      ColdOrPlaying, Playing, IDLE, SIDPLAY, StartFails, device, Goto, Return

LEMMA NextFlow == ASSUME TypeOK, Flow, [Next]_vars PROVE Flow'
<1>1. CASE UNCHANGED vars
  BY <1>1
  DEF vars, Flow, Whose, LastAsked, ColdOrPlaying, Playing
<1>2. CASE Next
  BY <1>2,
     AcknowledgeFlow, FailFlow, StrayFlow, PowerCycleFlow, QuitFlow, RerunFlow,
     RecoverFlow, CheckFlow, HardPanicFlow, MeasureGoodFlow,
     MeasureTimeoutFlow, MeasureRaisesFlow, MeasureAgainFlow, MeasureShortFlow, RearmFlow,
     RearmFailsFlow, BounceCheckedFlow, AskIdleFlow, AskPlayFlow,
     AskFailsFlow, AcknowledgedFlow, NotAcknowledgedFlow, UsbResetFlow,
     StartSeenFlow, StartUnseenFlow, SendStartFlow, StartTimeoutFlow, StartFailsFlow
  DEF Next, Driver
<1> QED BY <1>1, <1>2

LEMMA InitIInv == Init => IInv
  BY EngineAssumption
  DEF Init, IInv, Flow, TypeOK, DeviceOK, CallOK, CountOK, Whose, LastAsked,
      ColdOrPlaying, BounceAtSwallowing, FirstBounce, IDLE, SIDPLAY

-----------------------------------------------------------------------------
(* A healthy engine is left alone *)

\* A bounce is begun after three short measurements only, and the last of them
\* was not spoilt.
LEMMA FirstBounceBegins ==
    ASSUME IInv, Next, FirstBounce', ~FirstBounce
    PROVE  MeasureShort
  BY EngineAssumption
  DEF IInv, TypeOK, DeviceOK, CallOK, CountOK, FirstBounce, Next, Driver,
      Acknowledge, Fail, Stray, Asked, PowerCycle, Quit, Rerun, Recover, HardPanic,
      Check, MeasureGood, MeasureTimeout, MeasureRaises, StartFails, TakenToExecute, MeasureAgain, Rearm,
      RearmFails, BounceChecked, AskIdle, AskPlay, AskFails, Acknowledged,
      NotAcknowledged, UsbReset, StartSeen, StartUnseen, SendStart,
      StartTimeout, Started, AfterReset, Goto, Return

\* Until it asks for the mode, nothing changes the engine it begins at.
LEMMA FirstBounceStays ==
    ASSUME IInv, Next, FirstBounce', FirstBounce
    PROVE  UNCHANGED engine /\ (ack' \/ ~willing')
  BY EngineAssumption
  DEF IInv, BounceAtSwallowing, FirstBounce, Next, Driver, device, Stray, Asked,
      Acknowledge, Fail, Executing, PowerCycle, Quit, Rerun, Recover,
      HardPanic, Check, MeasureGood, MeasureTimeout, MeasureRaises, StartFails, MeasureAgain,
      MeasureShort, Rearm, RearmFails, BounceChecked, AskIdle, AskPlay,
      AskFails, Acknowledged, NotAcknowledged, UsbReset, StartSeen,
      StartUnseen, SendStart, StartTimeout, AfterReset, Goto, Return

LEMMA NextIInv == MaxUnlucky < 3 /\ IInv /\ [Next]_vars => IInv'
<1> SUFFICES ASSUME MaxUnlucky < 3, IInv, [Next]_vars PROVE IInv'
  OBVIOUS
<1>1. TypeOK' /\ Flow'
  BY NextType, NextFlow DEF IInv
<1>2. BounceAtSwallowing'
  <2>1. CASE UNCHANGED vars
    BY <2>1 DEF vars, IInv, BounceAtSwallowing, FirstBounce
  <2>2. CASE Next /\ ~FirstBounce
    <3>1. FirstBounce' => MeasureShort
      BY <2>2, FirstBounceBegins
    <3>2. MeasureShort => ack' = TRUE /\ engine' = "swallowing"
      BY EngineAssumption
      DEF MeasureShort, TooShort, Draining, Playing, device, IInv, TypeOK,
          DeviceOK
    <3> QED BY <3>1, <3>2 DEF BounceAtSwallowing
  <2>3. CASE Next /\ FirstBounce
    <3>1. FirstBounce' => UNCHANGED engine /\ (ack' \/ ~willing')
      BY <2>3, FirstBounceStays
    <3> QED BY <2>3, <3>1 DEF BounceAtSwallowing, IInv
  <2> QED BY <2>1, <2>2, <2>3
<1> QED BY <1>1, <1>2 DEF IInv

\* Whatever the device does and however unlucky the measurements are, the mode
\* is one of the two the driver asks for, and no count of attempts passes its
\* limit (recover_mode, start_engine, engine_executing).
THEOREM TypeCorrect == Spec => []TypeOK
<1>1. TypeOK /\ [Next]_vars => TypeOK'
  BY NextType
<1>2. Init => TypeOK
  BY InitIInv DEF IInv
<1> QED BY <1>1, <1>2, PTL DEF Spec

\* A reset goes on to arm the sockets only in mode 1, acknowledged, even when
\* the status race spoils every measurement (recover, reset_engine).
THEOREM ArmedInModeOne == Spec => ArmedInMode
<1>1. TypeOK /\ Flow /\ [Next]_vars => (TypeOK /\ Flow)'
  BY NextType, NextFlow
<1>2. Init => TypeOK /\ Flow
  BY InitIInv DEF IInv
<1>3. ASSUME Flow, [Next]_vars PROVE [Arming => Playing']_vars
  <2> SUFFICES ASSUME Next, Arming PROVE Playing'
    BY <1>3 DEF Arming, vars
  <2>1. \/ BounceChecked \/ Acknowledged
        \/ StartSeen /\ caller # "open"
    BY EngineAssumption
    DEF Next, Driver, Arming, Acknowledge, Fail, Stray, PowerCycle, Quit, Rerun,
        Recover, HardPanic, Check, MeasureGood, MeasureTimeout, MeasureRaises,
        TakenToExecute, MeasureAgain, MeasureShort, TakenToBeStopped, Rearm, RearmFails,
        AskIdle, AskPlay, AskFails, NotAcknowledged, UsbReset, StartSeen, StartUnseen,
        SendStart, StartTimeout, StartFails, Started, Goto, Return
  <2>2. CASE BounceChecked \/ Acknowledged
    BY <2>2 DEF BounceChecked, Acknowledged, device, Playing
  <2>3. CASE StartSeen /\ caller # "open"
    BY <1>3, <2>3
    DEF StartSeen, Flow, Whose, LastAsked, ColdOrPlaying, device, Playing
  <2> QED BY <2>1, <2>2, <2>3
<1> QED BY <1>1, <1>2, <1>3, PTL DEF Spec, ArmedInMode

\* A device whose engine executes is never bounced, as long as the status race
\* cannot spoil three measurements in a row (recover, engine_executing).
THEOREM EngineSafety ==
    MaxUnlucky < 3 /\ Spec => []HealthyUntouched
<1> SUFFICES ASSUME MaxUnlucky < 3
             PROVE  Spec => []HealthyUntouched
  OBVIOUS
<1>1. IInv /\ [Next]_vars => IInv'
  BY NextIInv
<1>2. IInv => HealthyUntouched
  BY DEF IInv, BounceAtSwallowing, HealthyUntouched, Executing
<1> QED BY <1>1, <1>2, InitIInv, PTL DEF Spec

\* No measurement that comes to its end lets an engine that swallows its stream
\* pass for recovered (recover, engine_executing).
THEOREM RecoveryIsVerified == Spec => VerifiedNotSwallowing
<1>1. ASSUME [Next]_vars PROVE [SwallowingCaught]_vars
  <2> SUFFICES ASSUME Next, Reports
               PROVE  ~(handle = "open" /\ Draining /\ engine = "swallowing")
    BY <1>1 DEF SwallowingCaught, Reports, vars
  <2>1. MeasureGood \/ MeasureTimeout
    BY DEF Next, Driver, Reports, Acknowledge, Fail, Stray, PowerCycle, Quit, Rerun, Recover,
           HardPanic, Check, MeasureRaises, StartFails, MeasureAgain, MeasureShort, TakenToBeStopped, Rearm, RearmFails,
           BounceChecked, AskIdle, AskPlay, AskFails, Acknowledged,
           NotAcknowledged, UsbReset, StartSeen, StartUnseen, SendStart,
           StartTimeout, Started, AfterReset, Goto, Return
  <2> QED BY <2>1 DEF MeasureGood, MeasureTimeout, Executing
<1> QED BY <1>1, PTL DEF Spec, VerifiedNotSwallowing

-----------------------------------------------------------------------------
(* The service the callers rely on *)

\* The end of a call is an answer; going on with it is no step of the service.
LEMMA ReturnAnswers ==
    ASSUME IInv, NEW r \in {"started", "panicked", "recovered", "failed", "executing",
                            "stopped", "unmeasured"},
           Return(r), UNCHANGED device, caller \in DOMAIN Service!Answers,
           pc \notin {"idle", "ended"}, r \in Service!Answers[caller]
    PROVE  Service!ServiceNext
<1>1. Called = caller /\ Called' = "none" /\ Plays' = Plays /\ ack' = ack
  BY DEF Return, device, Called, Plays, Playing
<1>2. handle' = handle /\ told' = r
  BY DEF Return
<1>3. Service!Answer(r)
  BY <1>1, <1>2 DEF Service!Answer
<1> QED BY <1>3 DEF Service!ServiceNext

LEMMA GotoStutters ==
    ASSUME NEW l, NEW k, Goto(l, k), UNCHANGED device, pc \notin {"idle", "ended"},
           l \notin {"idle", "ended"}
    PROVE  UNCHANGED Service!svars
  BY DEF Goto, device, Called, Plays, Playing, Service!svars

\* Asked for a mode, the device stops.
LEMMA AskedStops ==
    ASSUME NEW m, NEW l, NEW k, Asked(m), Goto(l, k), pc \notin {"idle", "ended"},
           l \notin {"idle", "ended"}, caller \in {"open", "recover"}
    PROVE  Service!ServiceNext
<1>1. Called = caller /\ Called' = Called /\ Plays' = "not" /\ ack' = FALSE
  BY DEF Asked, Goto, Called, Plays, Playing
<1>2. handle' = handle /\ told' = told
  BY DEF Goto
<1>3. Service!AskMode
  BY <1>1, <1>2 DEF Service!AskMode
<1> QED BY <1>3 DEF Service!ServiceNext

\* The steps of the device, and the beginnings of calls
LEMMA DeviceServes ==
    ASSUME IInv, Acknowledge \/ Fail \/ Stray \/ PowerCycle \/ Quit \/ Rerun
           \/ Recover \/ HardPanic \/ Check
    PROVE  Service!ServiceNext
<1>1. CASE Acknowledge
  <2>1. Service!Wake
    BY <1>1 DEF Acknowledge, Service!Wake, Plays, Playing, Called, IInv, TypeOK, DeviceOK
  <2> QED BY <2>1 DEF Service!ServiceNext
<1>2. CASE Fail
  <2>1. Service!Break
    BY <1>2 DEF Fail, Service!Break, Plays, Executing, Playing, Called
  <2> QED BY <2>1 DEF Service!ServiceNext
<1>9. CASE Stray
  <2>1. Service!Lapse
    BY <1>9 DEF Stray, Asked, Service!Lapse, Plays, Playing, Called
  <2> QED BY <2>1 DEF Service!ServiceNext
<1>3. CASE PowerCycle
  <2>1. Service!PowerUp
    BY <1>3 DEF PowerCycle, Service!PowerUp, Plays, Playing, Called, IDLE, SIDPLAY
  <2> QED BY <2>1 DEF Service!ServiceNext
<1>7. CASE Quit
  <2>1. Service!Exit
    BY <1>7 DEF Quit, Service!Exit, device, Plays, Playing, Called, IInv, TypeOK, CallOK
  <2> QED BY <2>1 DEF Service!ServiceNext
<1>8. CASE Rerun
  <2>1. Service!Rerun
    BY <1>8 DEF Rerun, Service!Rerun, device, Plays, Playing, Called, IDLE, SIDPLAY
  <2> QED BY <2>1 DEF Service!ServiceNext
<1>4. CASE Recover
  <2>1. Service!Begin("recover")
    BY <1>4 DEF Recover, Service!Begin, device, Plays, Playing, Called
  <2> QED BY <2>1 DEF Service!ServiceNext
<1>5. CASE HardPanic
  <2>1. Service!Begin("panic") \/ Service!Begin("recover")
    BY <1>5 DEF HardPanic, Service!Begin, device, Plays, Playing, Called
  <2> QED BY <2>1 DEF Service!ServiceNext
<1>6. CASE Check
  <2>1. Service!Begin("check")
    BY <1>6 DEF Check, Service!Begin, device, Plays, Playing, Called
  <2> QED BY <2>1 DEF Service!ServiceNext
<1> QED BY <1>1, <1>2, <1>3, <1>4, <1>5, <1>6, <1>7, <1>8, <1>9

\* A measurement that does not raise says what is so, once the race cannot spoil
\* three in a row.
LEMMA MeasureServes ==
    ASSUME MaxUnlucky < 3, IInv,
           \/ MeasureGood \/ MeasureTimeout \/ MeasureRaises
           \/ MeasureAgain \/ MeasureShort
    PROVE  [Service!ServiceNext]_Service!svars
<1>1. /\ pc = "measure" /\ UNCHANGED device
      /\ checking = "watch" => caller = "check"
      /\ checking # "watch" => caller = "recover"
      /\ checking \in {"diagnose", "verify", "watch"}
  BY DEF MeasureGood, MeasureTimeout, MeasureRaises, MeasureAgain, MeasureShort, IInv,
         Flow, Whose, TypeOK, CallOK
<1>2. CASE MeasureAgain
  BY <1>1, <1>2, GotoStutters DEF MeasureAgain
<1>3. CASE MeasureGood \/ MeasureTimeout
  <2>1. TakenToExecute /\ ~Service!Deaf
    BY <1>3 DEF MeasureGood, MeasureTimeout, Executing, Draining, Playing, Plays,
                Service!Deaf
  <2>2. CASE checking = "diagnose"
    BY <1>1, <2>1, <2>2, GotoStutters DEF TakenToExecute
  <2>3. CASE checking = "verify"
    BY <1>1, <2>1, <2>3, ReturnAnswers DEF TakenToExecute, Service!Answers
  <2>4. CASE checking = "watch"
    BY <1>1, <2>1, <2>4, ReturnAnswers DEF TakenToExecute, Service!Answers
  <2> QED BY <1>1, <2>2, <2>3, <2>4
<1>4. CASE MeasureShort
  <2>1. TakenToBeStopped /\ Service!Deaf
    BY <1>4, EngineAssumption
    DEF MeasureShort, TooShort, Draining, Playing, Plays, Service!Deaf
  <2>2. CASE checking = "diagnose"
    BY <1>1, <2>1, <2>2, GotoStutters DEF TakenToBeStopped
  <2>3. CASE checking = "verify"
    BY <1>1, <2>1, <2>3, ReturnAnswers DEF TakenToBeStopped, Service!Answers
  <2>4. CASE checking = "watch"
    BY <1>1, <2>1, <2>4, ReturnAnswers DEF TakenToBeStopped, Service!Answers
  <2> QED BY <1>1, <2>2, <2>3, <2>4
<1>5. CASE MeasureRaises
  <2>1. CASE checking = "diagnose"
    BY <1>1, <1>5, <2>1, GotoStutters DEF MeasureRaises
  <2>2. CASE checking # "diagnose"
    <3>1. caller \in DOMAIN Service!Answers /\ "unmeasured" \in Service!Answers[caller]
      BY <1>1, <2>2 DEF Service!Answers
    <3> QED BY <1>1, <1>5, <2>2, <3>1, ReturnAnswers DEF MeasureRaises
  <2> QED BY <2>1, <2>2
<1> QED BY <1>2, <1>3, <1>4, <1>5

LEMMA ArmServes ==
    ASSUME IInv, Rearm \/ RearmFails
    PROVE  [Service!ServiceNext]_Service!svars
<1>1. pc = "init" /\ UNCHANGED device /\ caller \in {"recover", "panic"}
  BY DEF Rearm, RearmFails, IInv, Flow, Whose
<1>2. "failed" \in Service!Answers[caller] /\ caller \in DOMAIN Service!Answers
  BY <1>1 DEF Service!Answers
<1>3. CASE Return("failed")
  BY <1>1, <1>2, <1>3, ReturnAnswers
<1>4. CASE caller = "panic" /\ Return("panicked")
  <2>1. "panicked" \in Service!Answers[caller]
    BY <1>4 DEF Service!Answers
  <2> QED BY <1>1, <1>2, <1>4, <2>1, ReturnAnswers
<1>5. CASE caller = "panic" /\ Goto("ended", 0)
  <2>1. Service!Die
    BY <1>1, <1>5 DEF Goto, device, Called, Plays, Playing, Service!Die
  <2> QED BY <2>1 DEF Service!ServiceNext
<1>6. CASE pc' = "measure" /\ UNCHANGED <<caller, handle, told>>
  BY <1>1, <1>6 DEF device, Called, Plays, Playing, Service!svars
<1> QED BY <1>3, <1>4, <1>5, <1>6 DEF Rearm, RearmFails

LEMMA ResetServes ==
    ASSUME IInv, \/ BounceChecked \/ AskIdle \/ AskPlay \/ AskFails
                 \/ Acknowledged \/ NotAcknowledged \/ UsbReset
    PROVE  [Service!ServiceNext]_Service!svars
<1>1. pc \in {"bounce", "ask", "await", "usb"} /\ caller = "recover"
  BY DEF BounceChecked, AskIdle, AskPlay, AskFails, Acknowledged, NotAcknowledged,
         UsbReset, IInv, Flow, Whose
<1>2. "failed" \in Service!Answers[caller] /\ caller \in DOMAIN Service!Answers
  BY <1>1 DEF Service!Answers
<1>3. CASE BounceChecked \/ Acknowledged \/ NotAcknowledged
  <2>1. /\ UNCHANGED device
        /\ Goto("init", 1) \/ Goto("bounce", n + 1) \/ Goto("usb", 0)
    BY <1>3 DEF BounceChecked, Acknowledged, NotAcknowledged, AfterReset
  <2> QED BY <1>1, <2>1, GotoStutters
<1>4. CASE AskIdle \/ AskPlay
  <2>1. (Asked(IDLE) /\ Goto("ask", n)) \/ (Asked(SIDPLAY) /\ Goto("await", n))
    BY <1>4 DEF AskIdle, AskPlay
  <2> QED BY <1>1, <2>1, AskedStops
<1>5. CASE AskFails
  BY <1>1, <1>2, <1>5, ReturnAnswers DEF AskFails
<1>6. CASE UsbReset /\ Goto("start", 0)
  <2>1. UNCHANGED <<ack, Plays, Called, handle, told>>
    BY <1>1, <1>6
    DEF UsbReset, Goto, device, Called, Plays, Playing, IDLE, SIDPLAY, IInv, TypeOK,
        DeviceOK
  <2> QED BY <2>1 DEF Service!svars
<1>7. CASE UsbReset /\ pc' = "idle"
  <2>1. /\ Called = "recover" /\ Called' = "none" /\ told' = "failed"
        /\ UNCHANGED <<ack, Plays>>
    BY <1>1, <1>7 DEF UsbReset, Goto, device, Called, Plays, Playing
  <2>2. (handle' = "open") = FALSE
    BY <1>7 DEF UsbReset, Goto
  <2>3. Service!Answer("failed")
    BY <1>1, <1>2, <2>1, <2>2 DEF Service!Answer
  <2> QED BY <2>3 DEF Service!ServiceNext
<1>8. UsbReset => Goto("start", 0) \/ pc' = "idle"
  BY DEF UsbReset
<1> QED BY <1>3, <1>4, <1>5, <1>6, <1>7, <1>8

LEMMA StartServes ==
    ASSUME IInv, StartSeen \/ StartUnseen \/ SendStart \/ StartTimeout \/ StartFails
    PROVE  [Service!ServiceNext]_Service!svars
<1>1. pc \in {"start", "send", "poll"} /\ caller \in {"open", "recover"}
  BY DEF StartSeen, StartUnseen, SendStart, StartTimeout, StartFails, IInv, Flow, Whose
<1>2. caller \in DOMAIN Service!Answers
  BY <1>1 DEF Service!Answers
<1>3. CASE StartSeen /\ caller = "open"
  <2>1. "started" \in Service!Answers[caller]
    BY <1>3 DEF StartSeen, Service!Answers
  <2> QED BY <1>1, <1>2, <1>3, <2>1, ReturnAnswers DEF StartSeen, Started
<1>4. CASE \/ StartSeen /\ caller # "open"
           \/ StartUnseen
           \/ StartTimeout /\ n < StartAttempts
  <2>1. UNCHANGED device /\ \E k : Goto("init", k) \/ Goto("send", k)
    BY <1>4 DEF StartSeen, StartUnseen, StartTimeout, Started, AfterReset
  <2> QED BY <1>1, <2>1, GotoStutters
<1>5. CASE SendStart
  BY <1>1, <1>5, AskedStops DEF SendStart
<1>6. CASE (StartTimeout \/ StartFails) /\ Return("failed") /\ caller = "recover"
  <2>1. "failed" \in Service!Answers[caller]
    BY <1>6 DEF Service!Answers
  <2> QED BY <1>1, <1>2, <1>6, <2>1, ReturnAnswers DEF StartTimeout, StartFails
<1>7. CASE (StartTimeout \/ StartFails) /\ Goto("ended", 0) /\ caller # "recover"
  <2>1. Service!Die
    BY <1>1, <1>7 DEF StartTimeout, StartFails, Goto, device, Called, Plays, Playing, Service!Die
  <2> QED BY <2>1 DEF Service!ServiceNext
<1>8. StartTimeout \/ StartFails => \/ StartTimeout /\ n < StartAttempts
                                    \/ Return("failed") /\ caller = "recover"
                                    \/ Goto("ended", 0) /\ caller # "recover"
  BY DEF StartTimeout, StartFails
<1> QED BY <1>3, <1>4, <1>5, <1>6, <1>7, <1>8

LEMMA NextServes ==
    ASSUME MaxUnlucky < 3, IInv, [Next]_vars
    PROVE  [Service!ServiceNext]_Service!svars
<1>1. CASE UNCHANGED vars
  BY <1>1 DEF vars, Called, Plays, Playing, Service!svars
<1>2. CASE Next
  BY <1>2, DeviceServes, MeasureServes, ArmServes, ResetServes, StartServes
     DEF Next, Driver
<1> QED BY <1>1, <1>2

LEMMA InitServes == Init => Service!ServiceInit
  BY DEF Init, Service!ServiceInit, Plays, Called, Playing, IDLE, SIDPLAY

\* Diagnosis, bounces, USB reset, arming and start, in whatever order they come
\* and whatever the device does, are for their callers one call that does what
\* EngineService says and answers truly (recover, hard_panic, start_engine).
THEOREM ServiceImplemented == MaxUnlucky < 3 /\ Spec => ImplementsService
<1> SUFFICES ASSUME MaxUnlucky < 3 PROVE Spec => ImplementsService
  OBVIOUS
<1>1. IInv /\ [Next]_vars => IInv'
  BY NextIInv
<1>2. IInv /\ [Next]_vars => [Service!ServiceNext]_Service!svars
  BY NextServes
<1> QED BY <1>1, <1>2, InitIInv, InitServes, PTL
        DEF Spec, ImplementsService, Service!ServiceSpec
=============================================================================
