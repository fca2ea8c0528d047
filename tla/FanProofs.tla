----------------------------- MODULE FanProofs -----------------------------
(***************************************************************************)
(* Proofs about Fan, for every setting of the registers, every size of the *)
(* counter and every period: type correctness, and that the fan does not   *)
(* fall back to its preconfigured duty before the dead time is over, nor   *)
(* too long after it, and that the duty is adjusted in every period.       *)
(***************************************************************************)
EXTENDS Fan, TLAPS

(* Bytes and the millisecond counter.                                       *)
LEMMA ByteType ==
  ASSUME NEW n \in Nat
  PROVE  n % Byte \in 0 .. Byte - 1
  <1>1. Byte \in Nat \ {0}
    BY FanAssumption DEF FanAssumption
  <1> QED BY <1>1

LEMMA CounterType ==
  ASSUME NEW n \in Nat
  PROVE  n % Wrap \in 0 .. Wrap - 1
  <1>1. Wrap \in Nat \ {0}
    BY FanAssumption DEF FanAssumption
  <1> QED BY <1>1

LEMMA SettingType ==
  ASSUME NEW s \in Settings
  PROVE  /\ s.unit \in 0 .. 1 /\ s.request \in Nat /\ s.preconfig \in Nat /\ s.min \in Nat
         /\ s.max \in Nat /\ s.delay \in Nat /\ s.dead \in Nat /\ s.frequency \in Nat
  <1>1. s \in Setting
    BY FanAssumption DEF FanAssumption
  <1> QED BY <1>1 DEF Setting

(* The duty cycle aimed at is a byte, and one step towards it is one that   *)
(* the cap brings into range.                                               *)
LEMMA TargetType ==
  ASSUME TypeOK
  PROVE  Target \in 0 .. Byte - 1
  <1>1. Byte \in Nat \ {0} /\ regs \in Settings
    BY FanAssumption DEF FanAssumption, TypeOK
  <1>2. /\ regs.request % Byte \in 0 .. Byte - 1 /\ regs.preconfig % Byte \in 0 .. Byte - 1
        /\ regs.min % Byte \in 0 .. Byte - 1 /\ regs.max % Byte \in 0 .. Byte - 1
    BY <1>1, SettingType, ByteType
  <1> QED BY <1>1, <1>2 DEF Target, AtMostMax, AtLeastMin, Requested

LEMMA DutyType ==
  ASSUME NEW duty \in 0 .. Full, NEW target \in 0 .. Byte - 1
  PROVE  Capped(Moved(duty, target)) \in 0 .. Full
  BY FanAssumption DEF FanAssumption, Capped, Moved

THEOREM InitTypeOK == Init => TypeOK
  <1> SUFFICES ASSUME Init PROVE TypeOK
    OBVIOUS
  <1>1. regs.frequency % Byte \in 0 .. Byte - 1
    BY SettingType, ByteType DEF Init
  <1>2. Full - InitialDuty \in 0 .. Full
    BY FanAssumption DEF FanAssumption
  <1>3. {0} \subseteq 0 .. Wrap - 1 /\ {0} \subseteq 0 .. MaxPass /\ {0} \subseteq 0 .. Horizon
    BY FanAssumption DEF FanAssumption
  <1>4. InitialDuty \in 0 .. Full
    BY FanAssumption DEF FanAssumption
  <1> QED BY <1>1, <1>2, <1>3, <1>4 DEF Init, TypeOK

LEMMA LaterType ==
  ASSUME NEW n \in 0 .. Horizon
  PROVE  Later(n) \in 0 .. Horizon /\ Later(n) >= n
  BY FanAssumption DEF FanAssumption, Later

THEOREM StepTypeOK == TypeOK /\ [Next]_vars => TypeOK'
  <1> SUFFICES ASSUME TypeOK, [Next]_vars PROVE TypeOK'
    OBVIOUS
  <1> USE DEF registers, output, supervision, clock
  <1>1. CASE SysTick_Handler
    <2>1. (jiffies + 1) % Wrap \in 0 .. Wrap - 1
      BY CounterType DEF TypeOK
    <2>2. Later(silent) \in 0 .. Horizon /\ Later(sinceAdjust) \in 0 .. Horizon
      BY LaterType DEF TypeOK
    <2>3. passed' \in 0 .. MaxPass
      BY <1>1, FanAssumption DEF FanAssumption, SysTick_Handler, TypeOK
    <2> QED BY <1>1, <2>1, <2>2, <2>3 DEF SysTick_Handler, TypeOK
  <1>2. CASE FrameComes
    BY <1>2, FanAssumption DEF FanAssumption, FrameComes, TypeOK
  <1>3. CASE TestAdjust
    BY <1>3 DEF TestAdjust, TypeOK
  <1>4. CASE Adjust
    <2>1. pwm_to_fan' \in 0 .. Full
      BY <1>4, TargetType, DutyType DEF Adjust, TypeOK
    <2>2. compare' \in 0 .. Full
      BY <1>4, <2>1, FanAssumption DEF FanAssumption, Adjust
    <2> QED BY <1>4, <2>1, <2>2, FanAssumption DEF FanAssumption, Adjust, TypeOK
  <1>5. CASE SetFrequency
    <2>1. regs.frequency % Byte \in 0 .. Byte - 1
      BY SettingType, ByteType DEF TypeOK
    <2>2. Full - InitialDuty \in 0 .. Full
      BY FanAssumption DEF FanAssumption
    <2> QED BY <1>5, <2>1, <2>2 DEF SetFrequency, TypeOK
  <1>6. CASE do_cli
    BY <1>6 DEF do_cli, TypeOK
  <1>7. CASE TestDeadTime
    BY <1>7 DEF TestDeadTime, TypeOK
  <1>8. CASE Trigger
    BY <1>8 DEF Trigger, TypeOK
  <1>9. CASE ParseFrame
    <2>1. 0 \in 0 .. MaxPass
      BY FanAssumption DEF FanAssumption
    <2>2. CASE frame
      BY <1>9, <2>1, <2>2 DEF ParseFrame, TypeOK
    <2>3. CASE ~frame
      BY <1>9, <2>1, <2>3 DEF ParseFrame, TypeOK
    <2> QED BY <2>2, <2>3
  <1>10. CASE UNCHANGED vars
    BY <1>10 DEF vars, TypeOK
  <1> QED BY <1>1, <1>2, <1>3, <1>4, <1>5, <1>6, <1>7, <1>8, <1>9, <1>10
          DEF Next, MainLoop, do_fan, do_modbus

(* Type correctness; in particular the duty cycle stays in 0 .. Full        *)
(* whatever the master writes to the registers (fan.c:46-93).               *)
THEOREM TypeCorrect == Spec => []TypeOK
  <1> QED BY InitTypeOK, StepTypeOK, PTL DEF Spec
-----------------------------------------------------------------------------
(* While no frame waits, the time since the last frame came is at least     *)
(* what the counter says has elapsed: a wrap of the counter only makes it   *)
(* say less.  So when the dead time is found over, it is; and a watchdog    *)
(* that triggered although a frame waits is taken back before the pass of   *)
(* the main loop ends.                                                      *)
CounterIsBehind == ~frame => Elapsed(last_modbus_watchdog_period) <= silent
OverWhenTriggered == pc = "trigger" /\ ~frame => silent >= DeadTime
BlipIsTakenBack == modbus_watchdog_triggered /\ ~silence => pc = "parse" /\ frame
IInv == TypeOK /\ CounterIsBehind /\ OverWhenTriggered /\ BlipIsTakenBack

LEMMA ElapsedType ==
  ASSUME NEW j \in 0 .. Wrap - 1, NEW l \in 0 .. Wrap - 1
  PROVE  /\ (j - l) % Wrap \in 0 .. Wrap - 1
         /\ j = l => (j - l) % Wrap = 0
         /\ (((j + 1) % Wrap) - l) % Wrap <= ((j - l) % Wrap) + 1
  <1>1. Wrap \in Nat \ {0}
    BY FanAssumption DEF FanAssumption
  <1>2. (j - l) % Wrap = IF j >= l THEN j - l ELSE j - l + Wrap
    BY <1>1
  <1>3. (j + 1) % Wrap = IF j + 1 = Wrap THEN 0 ELSE j + 1
    BY <1>1
  <1> DEFINE k == (j + 1) % Wrap
  <1>4. k \in 0 .. Wrap - 1
    BY <1>1, <1>3
  <1>5. (k - l) % Wrap = IF k >= l THEN k - l ELSE k - l + Wrap
    <2> HIDE DEF k
    <2> QED BY <1>1, <1>4
  <1> QED BY <1>1, <1>2, <1>3, <1>5

THEOREM InitIInv == Init => IInv
  <1> SUFFICES ASSUME Init PROVE IInv
    OBVIOUS
  <1>1. TypeOK
    BY InitTypeOK
  <1>2. Elapsed(last_modbus_watchdog_period) = 0
    BY <1>1, ElapsedType DEF Init, TypeOK, Elapsed
  <1> QED BY <1>1, <1>2 DEF Init, IInv, CounterIsBehind, OverWhenTriggered, BlipIsTakenBack

(* The history variable must be able to count as far as the counter.        *)
THEOREM StepIInv ==
  ASSUME Wrap <= Horizon + 1
  PROVE  IInv /\ [Next]_vars => IInv'
  <1> SUFFICES ASSUME IInv, [Next]_vars PROVE IInv'
    OBVIOUS
  <1> USE DEF registers, output, supervision, clock
  <1>0. TypeOK /\ TypeOK' /\ DeadTime \in Nat
    <2>1. TypeOK /\ TypeOK'
      BY StepTypeOK DEF IInv
    <2> QED BY <2>1, SettingType, FanAssumption DEF FanAssumption, TypeOK, DeadTime
  <1>1. CASE SysTick_Handler
    <2>1. Elapsed(last_modbus_watchdog_period)' <= Elapsed(last_modbus_watchdog_period) + 1
      BY <1>0, <1>1, ElapsedType DEF SysTick_Handler, TypeOK, Elapsed
    <2>2. Elapsed(last_modbus_watchdog_period)' \in 0 .. Wrap - 1
      BY <1>0, <1>1, ElapsedType DEF SysTick_Handler, TypeOK, Elapsed
    <2>3. Elapsed(last_modbus_watchdog_period) \in 0 .. Wrap - 1
      BY <1>0, ElapsedType DEF TypeOK, Elapsed
    <2>4. silent' = IF silent < Horizon THEN silent + 1 ELSE silent
      BY <1>1 DEF SysTick_Handler, Later
    <2>5. CounterIsBehind'
      <3> DEFINE e == Elapsed(last_modbus_watchdog_period)
      <3> HIDE DEF e
      <3>1. frame' = frame
        BY <1>1 DEF SysTick_Handler
      <3>2. ~frame => e <= silent
        BY DEF IInv, CounterIsBehind, e
      <3>3. e \in 0 .. Wrap - 1 /\ e' \in 0 .. Wrap - 1 /\ e' <= e + 1
        BY <2>1, <2>2, <2>3 DEF e
      <3>4. silent \in 0 .. Horizon /\ Wrap \in Nat /\ Horizon \in Nat
        BY <1>0, FanAssumption DEF FanAssumption, TypeOK
      <3>5. ~frame' => e' <= silent'
        BY <2>4, <3>1, <3>2, <3>3, <3>4
      <3> QED BY <3>5 DEF CounterIsBehind, e
    <2>6. OverWhenTriggered' /\ BlipIsTakenBack'
      BY <1>0, <1>1, <2>4 DEF SysTick_Handler, IInv, OverWhenTriggered, BlipIsTakenBack, DeadTime, TypeOK
    <2> QED BY <1>0, <2>5, <2>6 DEF IInv
  <1>2. CASE FrameComes
    BY <1>0, <1>2 DEF FrameComes, IInv, CounterIsBehind, OverWhenTriggered, BlipIsTakenBack
  <1>3. CASE TestAdjust
    BY <1>0, <1>3 DEF TestAdjust, IInv, CounterIsBehind, OverWhenTriggered, BlipIsTakenBack, Elapsed
  <1>4. CASE Adjust
    BY <1>0, <1>4 DEF Adjust, IInv, CounterIsBehind, OverWhenTriggered, BlipIsTakenBack, Elapsed
  <1>5. CASE SetFrequency
    BY <1>0, <1>5 DEF SetFrequency, IInv, CounterIsBehind, OverWhenTriggered, BlipIsTakenBack, Elapsed
  <1>6. CASE do_cli
    BY <1>0, <1>6 DEF do_cli, IInv, CounterIsBehind, OverWhenTriggered, BlipIsTakenBack, Elapsed
  <1>7. CASE TestDeadTime
    <2>1. pc' = "trigger" => Elapsed(last_modbus_watchdog_period) >= DeadTime
      BY <1>7 DEF TestDeadTime
    <2>2. pc' = "trigger" /\ ~frame => silent >= DeadTime
      <3>1. Elapsed(last_modbus_watchdog_period) \in 0 .. Wrap - 1
        BY <1>0, ElapsedType DEF TypeOK, Elapsed
      <3> QED BY <1>0, <2>1, <3>1, FanAssumption DEF FanAssumption, IInv, CounterIsBehind, TypeOK
    <2> QED BY <1>0, <1>7, <2>2 DEF TestDeadTime, IInv, CounterIsBehind, OverWhenTriggered,
                                    BlipIsTakenBack, Elapsed, DeadTime
  <1>8. CASE Trigger
    <2>1. Elapsed(last_modbus_watchdog_period)' = 0
      BY <1>0, <1>8, ElapsedType DEF Trigger, TypeOK, Elapsed
    <2>2. CounterIsBehind'
      BY <1>0, <1>8, <2>1 DEF Trigger, CounterIsBehind, TypeOK
    <2>3. OverWhenTriggered'
      BY <1>8 DEF Trigger, OverWhenTriggered
    <2>4. ~frame => silence'
      BY <1>8 DEF Trigger, IInv, OverWhenTriggered
    <2>5. BlipIsTakenBack'
      BY <1>8, <2>4 DEF Trigger, BlipIsTakenBack
    <2> QED BY <1>0, <2>2, <2>3, <2>5 DEF IInv
  <1>9. CASE ParseFrame
    <2>1. CASE frame
      <3>1. Elapsed(last_modbus_watchdog_period)' = 0
        BY <1>0, <1>9, <2>1, ElapsedType DEF ParseFrame, TypeOK, Elapsed
      <3> QED BY <1>0, <1>9, <2>1, <3>1 DEF ParseFrame, IInv, CounterIsBehind, OverWhenTriggered,
                                            BlipIsTakenBack, TypeOK
    <2>2. CASE ~frame
      BY <1>0, <1>9, <2>2 DEF ParseFrame, IInv, CounterIsBehind, OverWhenTriggered,
                              BlipIsTakenBack, Elapsed
    <2> QED BY <2>1, <2>2
  <1>10. CASE UNCHANGED vars
    BY <1>0, <1>10 DEF vars, IInv, CounterIsBehind, OverWhenTriggered, BlipIsTakenBack, Elapsed, DeadTime
  <1> QED BY <1>1, <1>2, <1>3, <1>4, <1>5, <1>6, <1>7, <1>8, <1>9, <1>10
          DEF Next, MainLoop, do_fan, do_modbus

(* The fan falls back only after a whole dead time without a frame          *)
(* (modbus.c:572-590, main.c:83-97).                                        *)
THEOREM NoEarlyFallback ==
  ASSUME Wrap <= Horizon + 1
  PROVE  Spec => []FallbackOnlyAfterSilence
  <1>1. IInv => FallbackOnlyAfterSilence
    BY DEF IInv, BlipIsTakenBack, FallbackOnlyAfterSilence
  <1>2. IInv /\ [Next]_vars => IInv'
    BY StepIInv
  <1> QED BY <1>1, <1>2, InitIInv, PTL DEF Spec
-----------------------------------------------------------------------------
(* The registers change, but none of the settings they may have lets the    *)
(* counter wrap before a pass of the main loop finds the period over.       *)
AdjustOf(s) == PwmTick * (1 + s.delay)
DeadOf(s) == DeadTick * (1 + s.dead)
PeriodsFit ==
  \A s \in Settings : AdjustOf(s) + 2 * MaxPass <= Wrap /\ DeadOf(s) + 2 * MaxPass <= Wrap

SinceAdjust == Elapsed(last_pwm_adjust)
SinceFrame == Elapsed(last_modbus_watchdog_period)

(* So the counter says what the history says of the time since the last     *)
(* adjustment, and a pass less than it, at most, of that since the last     *)
(* frame: a frame waits for its execution till the end of the pass only.    *)
AdjustIsCounted == sinceAdjust = SinceAdjust
SilenceIsCounted ==
  /\ frame => silent <= passed
  /\ ~frame /\ ~modbus_watchdog_triggered => silent <= SinceFrame + MaxPass

(* A period is found over at the latest one pass after its end: the period  *)
(* of the registers as they are, between its test and the next place where  *)
(* they change, and the period of some setting everywhere.                  *)
AdjustIsTested ==
  /\ pc = "adjust" => sinceAdjust >= AdjustPeriod
  /\ pc = "frequency" => SinceAdjust < AdjustPeriod + passed
  /\ \E s \in Settings :
       /\ SinceAdjust < AdjustOf(s) + MaxPass + passed
       /\ pc \notin {"fan", "adjust"} => SinceAdjust < AdjustOf(s) + passed
DeadTimeIsTested ==
  /\ pc = "parse" => SinceFrame < DeadTime + passed
  /\ pc \in {"fan", "adjust", "frequency", "cli"} => SinceFrame < DeadTime + MaxPass + passed
  /\ \E s \in Settings : SinceFrame < DeadOf(s) + MaxPass + passed

OnTime == TypeOK /\ AdjustIsCounted /\ SilenceIsCounted /\ AdjustIsTested /\ DeadTimeIsTested

LEMMA TickElapsed ==
  ASSUME NEW j \in 0 .. Wrap - 1, NEW l \in 0 .. Wrap - 1, (j - l) % Wrap < Wrap - 1
  PROVE  (((j + 1) % Wrap) - l) % Wrap = ((j - l) % Wrap) + 1
  <1>1. Wrap \in Nat \ {0}
    BY FanAssumption DEF FanAssumption
  <1>2. (j - l) % Wrap = IF j >= l THEN j - l ELSE j - l + Wrap
    BY <1>1
  <1>3. (j + 1) % Wrap = IF j + 1 = Wrap THEN 0 ELSE j + 1
    BY <1>1
  <1> DEFINE k == (j + 1) % Wrap
  <1>4. k \in 0 .. Wrap - 1
    BY <1>1, <1>3
  <1>5. (k - l) % Wrap = IF k >= l THEN k - l ELSE k - l + Wrap
    <2> HIDE DEF k
    <2> QED BY <1>1, <1>4
  <1> QED BY <1>1, <1>2, <1>3, <1>5

LEMMA PeriodType ==
  ASSUME NEW s \in Settings
  PROVE  AdjustOf(s) \in Nat \ {0} /\ DeadOf(s) \in Nat \ {0}
  <1>1. s.delay \in Nat /\ s.dead \in Nat /\ PwmTick \in Nat \ {0} /\ DeadTick \in Nat \ {0}
    BY SettingType, FanAssumption DEF FanAssumption
  <1>2. \A m, n \in Nat \ {0} : m * n \in Nat \ {0}
    OBVIOUS
  <1> QED BY <1>1, <1>2 DEF AdjustOf, DeadOf

(* What the leaves below know of the ticks and of the periods.              *)
LEMMA TimeType ==
  ASSUME TypeOK
  PROVE  /\ SinceAdjust \in 0 .. Wrap - 1 /\ SinceFrame \in 0 .. Wrap - 1
         /\ passed \in 0 .. MaxPass /\ MaxPass \in Nat /\ Wrap \in Nat \ {0} /\ Horizon \in Nat
         /\ silent \in 0 .. Horizon /\ sinceAdjust \in 0 .. Horizon
         /\ regs \in Settings
         /\ AdjustPeriod = AdjustOf(regs) /\ DeadTime = DeadOf(regs)
         /\ AdjustPeriod \in Nat \ {0} /\ DeadTime \in Nat \ {0}
  <1>1. AdjustPeriod = AdjustOf(regs) /\ DeadTime = DeadOf(regs)
    BY DEF AdjustPeriod, DeadTime, AdjustOf, DeadOf
  <1> QED BY <1>1, ElapsedType, PeriodType, FanAssumption
          DEF FanAssumption, TypeOK, Elapsed, SinceAdjust, SinceFrame

LEMMA InitOnTime == Init => OnTime
  <1> SUFFICES ASSUME Init PROVE OnTime
    OBVIOUS
  <1>1. TypeOK
    BY InitTypeOK
  <1>2. SinceAdjust = 0 /\ SinceFrame = 0
    BY <1>1, ElapsedType DEF Init, TypeOK, Elapsed, SinceAdjust, SinceFrame
  <1>3. AdjustIsCounted /\ SilenceIsCounted
    BY <1>1, <1>2, TimeType DEF Init, AdjustIsCounted, SilenceIsCounted
  <1>4. 0 < AdjustOf(regs) + MaxPass + passed /\ 0 < DeadOf(regs) + MaxPass + passed
    BY <1>1, TimeType, PeriodType
  <1>5. AdjustIsTested
    BY <1>1, <1>2, <1>4, TimeType DEF Init, AdjustIsTested
  <1>6. DeadTimeIsTested
    BY <1>1, <1>2, <1>4, TimeType DEF Init, DeadTimeIsTested
  <1> QED BY <1>1, <1>3, <1>5, <1>6 DEF OnTime

LEMMA TickOnTime ==
  ASSUME Wrap <= Horizon + 1, PeriodsFit, OnTime, SysTick_Handler
  PROVE  OnTime'
  <1> USE DEF registers, output, supervision, clock
  <1>1. TypeOK /\ TypeOK'
    BY StepTypeOK DEF OnTime, Next
  <1>2. /\ passed' = passed + 1 /\ passed < MaxPass /\ silent' = Later(silent)
        /\ sinceAdjust' = Later(sinceAdjust) /\ jiffies' = (jiffies + 1) % Wrap
        /\ UNCHANGED <<pc, regs, frame, modbus_watchdog_triggered, last_pwm_adjust,
                       last_modbus_watchdog_period>>
    BY DEF SysTick_Handler
  <1>3. AdjustPeriod' = AdjustPeriod /\ DeadTime' = DeadTime
    BY <1>2 DEF AdjustPeriod, DeadTime
  <1>4. PICK s \in Settings :
          /\ SinceAdjust < AdjustOf(s) + MaxPass + passed
          /\ pc \notin {"fan", "adjust"} => SinceAdjust < AdjustOf(s) + passed
    BY DEF OnTime, AdjustIsTested
  <1>5. PICK t \in Settings : SinceFrame < DeadOf(t) + MaxPass + passed
    BY DEF OnTime, DeadTimeIsTested
  <1>6. SinceAdjust < Wrap - 1 /\ SinceFrame < Wrap - 1
    <2>1. AdjustOf(s) + 2 * MaxPass <= Wrap /\ DeadOf(t) + 2 * MaxPass <= Wrap
      BY DEF PeriodsFit
    <2> QED BY <1>1, <1>2, <1>4, <1>5, <2>1, TimeType, PeriodType
  <1>7. SinceAdjust' = SinceAdjust + 1 /\ SinceFrame' = SinceFrame + 1
    BY <1>1, <1>2, <1>6, TickElapsed DEF TypeOK, Elapsed, SinceAdjust, SinceFrame
  <1>8. silent' <= silent + 1 /\ (sinceAdjust = SinceAdjust => sinceAdjust' = sinceAdjust + 1)
    BY <1>1, <1>2, <1>6, TimeType DEF Later
  <1>9. AdjustIsCounted'
    BY <1>7, <1>8 DEF OnTime, AdjustIsCounted
  <1>10. silent' \in Nat
    BY <1>1 DEF TypeOK
  <1>11. SilenceIsCounted'
    BY <1>1, <1>2, <1>7, <1>8, <1>10, TimeType DEF OnTime, SilenceIsCounted
  <1>12. AdjustIsTested'
    <2>1. pc' = "adjust" => sinceAdjust' >= AdjustPeriod'
      BY <1>1, <1>2, <1>3, <1>8, TimeType DEF OnTime, AdjustIsCounted, AdjustIsTested
    <2>2. pc' = "frequency" => SinceAdjust' < AdjustPeriod' + passed'
      BY <1>1, <1>2, <1>3, <1>7, TimeType DEF OnTime, AdjustIsTested
    <2>3. /\ SinceAdjust' < AdjustOf(s) + MaxPass + passed'
          /\ pc' \notin {"fan", "adjust"} => SinceAdjust' < AdjustOf(s) + passed'
      BY <1>1, <1>2, <1>4, <1>7, TimeType, PeriodType
    <2> QED BY <2>1, <2>2, <2>3 DEF AdjustIsTested
  <1>13. DeadTimeIsTested'
    <2>1. SinceFrame' < DeadOf(t) + MaxPass + passed'
      BY <1>1, <1>2, <1>5, <1>7, TimeType, PeriodType
    <2>2. pc' = "parse" => SinceFrame' < DeadTime' + passed'
      BY <1>1, <1>2, <1>3, <1>7, TimeType DEF OnTime, DeadTimeIsTested
    <2>3. pc' \in {"fan", "adjust", "frequency", "cli"} => SinceFrame' < DeadTime' + MaxPass + passed'
      BY <1>1, <1>2, <1>3, <1>7, TimeType DEF OnTime, DeadTimeIsTested
    <2> QED BY <2>1, <2>2, <2>3 DEF DeadTimeIsTested
  <1> QED BY <1>1, <1>9, <1>11, <1>12, <1>13 DEF OnTime

(* A step of the main loop takes no time: what is elapsed changes only      *)
(* where the time-stamp is taken anew.                                      *)
LEMMA LoopOnTime ==
  ASSUME OnTime, TypeOK', FrameComes \/ MainLoop
  PROVE  OnTime'
  <1> USE DEF registers, output, supervision, clock
  <1>1. TypeOK
    BY DEF OnTime
  <1>2. UNCHANGED <<jiffies>>
    BY DEF FrameComes, MainLoop, do_fan, do_modbus, TestAdjust, Adjust, SetFrequency, do_cli,
           TestDeadTime, Trigger, ParseFrame
  <1>3. last_pwm_adjust' = last_pwm_adjust => SinceAdjust' = SinceAdjust
    BY <1>2 DEF SinceAdjust, Elapsed
  <1>4. last_modbus_watchdog_period' = last_modbus_watchdog_period => SinceFrame' = SinceFrame
    BY <1>2 DEF SinceFrame, Elapsed
  <1>5. last_pwm_adjust' = jiffies => SinceAdjust' = 0
    BY <1>1, <1>2, ElapsedType DEF SinceAdjust, Elapsed, TypeOK
  <1>6. last_modbus_watchdog_period' = jiffies => SinceFrame' = 0
    BY <1>1, <1>2, ElapsedType DEF SinceFrame, Elapsed, TypeOK
  <1>7. regs' = regs => AdjustPeriod' = AdjustPeriod /\ DeadTime' = DeadTime
    BY DEF AdjustPeriod, DeadTime
  <1>8. PICK s \in Settings :
          /\ SinceAdjust < AdjustOf(s) + MaxPass + passed
          /\ pc \notin {"fan", "adjust"} => SinceAdjust < AdjustOf(s) + passed
    BY DEF OnTime, AdjustIsTested
  <1>9. PICK t \in Settings : SinceFrame < DeadOf(t) + MaxPass + passed
    BY DEF OnTime, DeadTimeIsTested
  <1>10. AdjustOf(s) \in Nat \ {0} /\ DeadOf(t) \in Nat \ {0}
    BY PeriodType
  <1>11. OnTime /\ AdjustIsCounted /\ SilenceIsCounted /\ AdjustIsTested /\ DeadTimeIsTested
    BY DEF OnTime
  <1>12. CASE FrameComes
    <2>1. /\ frame' /\ silent' = 0 /\ regs' = regs
          /\ UNCHANGED <<passed, sinceAdjust, pc, modbus_watchdog_triggered, last_pwm_adjust,
                         last_modbus_watchdog_period>>
      BY <1>12 DEF FrameComes
    <2>2. SilenceIsCounted'
      BY <1>1, <2>1, TimeType DEF SilenceIsCounted
    <2>3. AdjustIsCounted' /\ AdjustIsTested' /\ DeadTimeIsTested'
      BY <1>3, <1>4, <1>7, <1>11, <2>1 DEF AdjustIsCounted, AdjustIsTested, DeadTimeIsTested
    <2> QED BY <2>2, <2>3 DEF OnTime
  <1>13. CASE TestAdjust
    <2>1. /\ regs' = regs /\ pc = "fan" /\ pc' \in {"adjust", "frequency"}
          /\ pc' = (IF SinceAdjust >= AdjustPeriod THEN "adjust" ELSE "frequency")
          /\ UNCHANGED <<passed, silent, sinceAdjust, frame, modbus_watchdog_triggered,
                         last_pwm_adjust, last_modbus_watchdog_period>>
      BY <1>13 DEF TestAdjust, SinceAdjust
    <2>2. AdjustIsCounted' /\ SilenceIsCounted'
      BY <1>3, <1>4, <1>11, <2>1 DEF AdjustIsCounted, SilenceIsCounted
    <2>3. DeadTimeIsTested'
      BY <1>4, <1>7, <1>11, <2>1 DEF DeadTimeIsTested
    <2>4. pc' = "adjust" => sinceAdjust' >= AdjustPeriod'
      BY <1>7, <1>11, <2>1 DEF AdjustIsCounted
    <2>5. pc' = "frequency" => SinceAdjust' < AdjustPeriod' + passed'
      BY <1>1, <1>3, <1>7, <2>1, TimeType
    <2>6. /\ SinceAdjust' < AdjustOf(s) + MaxPass + passed'
      BY <1>3, <1>8, <2>1
    <2>7. /\ SinceAdjust' < AdjustOf(regs) + MaxPass + passed' \/ pc' = "adjust"
          /\ pc' \notin {"fan", "adjust"} => SinceAdjust' < AdjustOf(regs) + passed'
      BY <1>1, <1>3, <2>1, <2>5, TimeType
    <2>8. AdjustIsTested'
      <3>1. CASE pc' = "adjust"
        BY <2>4, <2>6, <3>1 DEF AdjustIsTested
      <3>2. CASE pc' = "frequency"
        BY <1>1, <2>5, <2>7, <3>2, TimeType DEF AdjustIsTested
      <3> QED BY <2>1, <3>1, <3>2
    <2> QED BY <2>2, <2>3, <2>8 DEF OnTime
  <1>14. CASE Adjust
    <2>1. /\ regs' = regs /\ pc' = "frequency" /\ pc = "adjust" /\ sinceAdjust' = 0
          /\ last_pwm_adjust' = jiffies
          /\ UNCHANGED <<passed, silent, frame, modbus_watchdog_triggered, last_modbus_watchdog_period>>
      BY <1>14 DEF Adjust
    <2>2. AdjustIsCounted' /\ SilenceIsCounted'
      BY <1>4, <1>5, <1>11, <2>1 DEF AdjustIsCounted, SilenceIsCounted
    <2>3. DeadTimeIsTested'
      BY <1>4, <1>7, <1>11, <2>1 DEF DeadTimeIsTested
    <2>4. SinceAdjust' < AdjustPeriod' + passed' /\ SinceAdjust' < AdjustOf(s) + MaxPass + passed'
          /\ SinceAdjust' < AdjustOf(s) + passed'
      BY <1>1, <1>5, <1>7, <1>10, <2>1, TimeType
    <2>5. AdjustIsTested'
      BY <2>1, <2>4 DEF AdjustIsTested
    <2> QED BY <2>2, <2>3, <2>5 DEF OnTime
  <1>15. CASE SetFrequency
    <2>1. /\ regs' = regs /\ pc' = "cli" /\ pc = "frequency"
          /\ UNCHANGED <<passed, silent, sinceAdjust, frame, modbus_watchdog_triggered,
                         last_pwm_adjust, last_modbus_watchdog_period>>
      BY <1>15 DEF SetFrequency
    <2> QED BY <1>3, <1>4, <1>7, <1>11, <2>1
            DEF OnTime, AdjustIsCounted, SilenceIsCounted, AdjustIsTested, DeadTimeIsTested
  <1>16. CASE do_cli
    <2>1. /\ pc' = "modbus" /\ pc = "cli"
          /\ UNCHANGED <<passed, silent, sinceAdjust, frame, modbus_watchdog_triggered,
                         last_pwm_adjust, last_modbus_watchdog_period>>
      BY <1>16 DEF do_cli
    <2> QED BY <1>3, <1>4, <1>11, <2>1
            DEF OnTime, AdjustIsCounted, SilenceIsCounted, AdjustIsTested, DeadTimeIsTested
  <1>17. CASE TestDeadTime
    <2>1. /\ regs' = regs /\ pc = "modbus" /\ pc' \in {"trigger", "parse"}
          /\ pc' = (IF SinceFrame >= DeadTime THEN "trigger" ELSE "parse")
          /\ UNCHANGED <<passed, silent, sinceAdjust, frame, modbus_watchdog_triggered,
                         last_pwm_adjust, last_modbus_watchdog_period>>
      BY <1>17 DEF TestDeadTime, SinceFrame
    <2>2. AdjustIsCounted' /\ SilenceIsCounted' /\ AdjustIsTested'
      BY <1>3, <1>4, <1>11, <2>1 DEF AdjustIsCounted, SilenceIsCounted, AdjustIsTested
    <2>3. pc' = "parse" => SinceFrame' < DeadTime' + passed'
      BY <1>1, <1>4, <1>7, <2>1, TimeType
    <2>4. DeadTimeIsTested'
      BY <1>4, <1>9, <2>1, <2>3 DEF DeadTimeIsTested
    <2> QED BY <2>2, <2>4 DEF OnTime
  <1>18. CASE Trigger
    <2>1. /\ regs' = regs /\ pc = "trigger" /\ pc' = "parse" /\ modbus_watchdog_triggered'
          /\ last_modbus_watchdog_period' = jiffies
          /\ UNCHANGED <<passed, silent, sinceAdjust, frame, last_pwm_adjust>>
      BY <1>18 DEF Trigger
    <2>2. AdjustIsCounted' /\ SilenceIsCounted' /\ AdjustIsTested'
      BY <1>3, <1>11, <2>1 DEF AdjustIsCounted, SilenceIsCounted, AdjustIsTested
    <2>3. SinceFrame' < DeadTime' + passed' /\ SinceFrame' < DeadOf(t) + MaxPass + passed'
      BY <1>1, <1>6, <1>7, <1>10, <2>1, TimeType
    <2>4. DeadTimeIsTested'
      BY <2>1, <2>3 DEF DeadTimeIsTested
    <2> QED BY <2>2, <2>4 DEF OnTime
  <1>19. CASE ParseFrame
    <2>1. /\ pc = "parse" /\ pc' = "fan" /\ passed' = 0
          /\ UNCHANGED <<silent, sinceAdjust, last_pwm_adjust>>
      BY <1>19 DEF ParseFrame
    <2>2. AdjustIsCounted'
      BY <1>3, <1>11, <2>1 DEF AdjustIsCounted
    <2>3. AdjustIsTested'
      <3>1. SinceAdjust' < AdjustOf(s) + MaxPass + passed'
        BY <1>1, <1>3, <1>8, <1>10, <2>1, TimeType
      <3> QED BY <2>1, <3>1 DEF AdjustIsTested
    <2>4. CASE frame
      <3>1. ~frame' /\ last_modbus_watchdog_period' = jiffies
        BY <1>19, <2>4 DEF ParseFrame
      <3>2. silent' <= SinceFrame' + MaxPass
        BY <1>1, <1>6, <1>11, <2>1, <2>4, <3>1, TimeType DEF SilenceIsCounted
      <3>3. SilenceIsCounted'
        BY <3>1, <3>2 DEF SilenceIsCounted
      <3>4. DeadTime' \in Nat \ {0} /\ MaxPass \in Nat
        <4>1. regs' \in Settings /\ DeadTime' = DeadOf(regs')
          BY DEF TypeOK, DeadTime, DeadOf
        <4> QED BY <1>1, <4>1, TimeType, PeriodType
      <3>5. SinceFrame' < DeadTime' + MaxPass + passed' /\ SinceFrame' < DeadOf(t) + MaxPass + passed'
        <4>1. SinceFrame' = 0 /\ passed' = 0
          BY <1>6, <2>1, <3>1
        <4>2. \A n \in Nat \ {0}, m \in Nat : 0 < n + m + 0
          OBVIOUS
        <4>3. 0 < DeadTime' + MaxPass + 0
          BY <3>4, <4>2
        <4>4. 0 < DeadOf(t) + MaxPass + 0
          BY <1>10, <3>4, <4>2
        <4> QED BY <4>1, <4>3, <4>4
      <3>6. DeadTimeIsTested'
        BY <2>1, <3>5 DEF DeadTimeIsTested
      <3> QED BY <2>2, <2>3, <3>3, <3>6 DEF OnTime
    <2>5. CASE ~frame
      <3>1. UNCHANGED <<frame, modbus_watchdog_triggered, last_modbus_watchdog_period, regs>>
        BY <1>19, <2>5 DEF ParseFrame
      <3>2. SilenceIsCounted'
        BY <1>4, <1>11, <2>1, <2>5, <3>1 DEF SilenceIsCounted
      <3>3. SinceFrame' < DeadTime' + MaxPass + passed'
        BY <1>1, <1>4, <1>7, <1>11, <2>1, <3>1, TimeType DEF DeadTimeIsTested
      <3>4. regs' \in Settings /\ DeadTime' = DeadOf(regs')
        BY <1>1, <3>1, TimeType DEF DeadTime, DeadOf
      <3>5. DeadTimeIsTested'
        BY <2>1, <3>3, <3>4 DEF DeadTimeIsTested
      <3> QED BY <2>2, <2>3, <3>2, <3>5 DEF OnTime
    <2> QED BY <2>4, <2>5
  <1> QED BY <1>12, <1>13, <1>14, <1>15, <1>16, <1>17, <1>18, <1>19 DEF MainLoop, do_fan, do_modbus

LEMMA StepOnTime ==
  ASSUME Wrap <= Horizon + 1, PeriodsFit
  PROVE  OnTime /\ [Next]_vars => OnTime'
  <1> SUFFICES ASSUME OnTime, [Next]_vars PROVE OnTime'
    OBVIOUS
  <1>1. TypeOK'
    BY StepTypeOK DEF OnTime
  <1>2. CASE Next
    BY <1>1, <1>2, TickOnTime, LoopOnTime DEF Next
  <1>3. CASE UNCHANGED vars
    <2>1. UNCHANGED <<SinceAdjust, SinceFrame, AdjustPeriod, DeadTime>>
      BY <1>3 DEF vars, clock, registers, supervision, SinceAdjust, SinceFrame, Elapsed, AdjustPeriod,
                  DeadTime
    <2> QED BY <1>1, <1>3, <2>1 DEF vars, clock, registers, supervision, OnTime, AdjustIsCounted,
                             SilenceIsCounted, AdjustIsTested, DeadTimeIsTested
  <1> QED BY <1>2, <1>3

(* ... and the fan falls back at the latest three passes of the main loop   *)
(* after the dead time: one in which a last frame waits, one to the next    *)
(* test, and one to the next adjustment (modbus.c:572-590).                 *)
THEOREM FallbackComesInTime ==
  ASSUME Wrap <= Horizon + 1, PeriodsFit
  PROVE  Spec => []FallbackInTime
  <1>1. OnTime => FallbackInTime
    <2> SUFFICES ASSUME OnTime, pc = "fan", ~modbus_watchdog_triggered
                 PROVE  silent < DeadTime + 3 * MaxPass
      BY DEF FallbackInTime
    <2>1. TypeOK /\ SinceFrame < DeadTime + MaxPass + passed
      BY DEF OnTime, DeadTimeIsTested
    <2>2. silent <= passed \/ silent <= SinceFrame + MaxPass
      BY DEF OnTime, SilenceIsCounted
    <2> QED BY <2>1, <2>2, TimeType
  <1>2. OnTime /\ [Next]_vars => OnTime'
    BY StepOnTime
  <1> QED BY <1>1, <1>2, InitOnTime, PTL DEF Spec

(* The duty moves once in a period, never earlier, and at the latest a pass *)
(* after its end, also when the counter wraps (fan.c:217-221).              *)
THEOREM AdjustIsPeriodic ==
  ASSUME Wrap <= Horizon + 1, PeriodsFit
  PROVE  Spec => []AdjustKeepsPeriod
  <1>1. OnTime => AdjustKeepsPeriod
    <2> SUFFICES ASSUME OnTime PROVE AdjustKeepsPeriod
      OBVIOUS
    <2>1. pc = "adjust" => sinceAdjust >= AdjustPeriod
      BY DEF OnTime, AdjustIsTested
    <2>2. pc = "frequency" => sinceAdjust < AdjustPeriod + MaxPass
      BY TimeType DEF OnTime, AdjustIsCounted, AdjustIsTested
    <2> QED BY <2>1, <2>2 DEF AdjustKeepsPeriod
  <1>2. OnTime /\ [Next]_vars => OnTime'
    BY StepOnTime
  <1> QED BY <1>1, <1>2, InitOnTime, PTL DEF Spec
=============================================================================
