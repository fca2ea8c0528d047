------------------------- MODULE HoldingStoreProofs -------------------------
(***************************************************************************)
(* Proofs about HoldingStore, for all reset values, all requests, any      *)
(* number of resets and operating minutes: type correctness, that the unit *)
(* resets itself on request only, that a unit that was switched on is      *)
(* configured, and that orderly resets keep the state.                     *)
(***************************************************************************)
EXTENDS HoldingStore, TLAPS

Records == [promised : {TRUE}, regs : [Regs -> Nat], minutes : Nat, first : Nat]

(* The request in RAM is one of this start.                                 *)
RequestIsNew ==
  pc \in LoopPoints \cup {"store"} => (holding_regs["SOFTWARE_RESET"] > 0 => asked)

(* With first_start_done saved, the configuration is in the EEPROM, with    *)
(* its cache and without.                                                   *)
Complete(contents) ==
  contents["first_start_done"] \notin {0, Blank} => \A r \in Kept : contents[r] # Blank

(* The saved environment is the one in RAM, except between the first start  *)
(* and the next do_env, when the registers have their reset values.         *)
EnvironmentSaved ==
  /\ env_dirty => pc \in {"store", "do_env"}
  /\ pc # "env_init" => eeprom["first_start_done"] # Blank
  /\ pc # "env_init" /\ ~env_dirty => first_start_done = eeprom["first_start_done"]
  /\ env_dirty => /\ first_start_done = 1
                  /\ \A r \in Kept : holding_regs[r] = Configured

(* A start from power-on has set the registers.                             *)
PowerOnSet ==
  /\ pc = "store" => ~SoftReset
  /\ pc \in LoopPoints \cup {"store"} /\ ~SoftReset => \A r \in Regs : holding_regs[r] # Blank
  /\ env_dirty => ~SoftReset

(* The registers that a reset restores are in the EEPROM, and so are the    *)
(* minutes; StoreRegisters gets there page by page.                         *)
RamSaved ==
  /\ pc # "store" => stored = 0
  /\ Running => \A r \in Restored : eeprom[r] = holding_regs[r]
  /\ pc = "store" => \A r \in Restored : Page[r] <= stored => eeprom[r] = holding_regs[r]
  /\ pc \in LoopPoints \cup {"store"} => operating_minutes = SavedMinutes

(* What a reset has to keep is in the EEPROM until modbus_init has read it. *)
PromiseSaved ==
  /\ before.promised => /\ pc \in {"env_init", "modbus_init"}
                        /\ before.minutes = SavedMinutes
                        /\ \A r \in Restored : before.regs[r] = eeprom[r]
  /\ before.promised /\ before.first # 0 =>
       \/ eeprom["first_start_done"] \notin {0, Blank}
       \/ \A r \in Kept : before.regs[r] = Configured

TypeInv == TypeOK /\ before \in {NoPromise} \cup Records

IInv ==
  /\ TypeInv /\ RequestIsNew /\ Complete(store) /\ Complete(eeprom)
  /\ EnvironmentSaved /\ PowerOnSet /\ RamSaved /\ PromiseSaved

-----------------------------------------------------------------------------
(* The EEPROM.                                                              *)

EepromType == /\ store \in Contents /\ eeprom \in Contents
              /\ cached \in {0, 1, 4, 5} /\ homeless \in BOOLEAN
              /\ \A c \in Cells : Page[c] # cached => store[c] = eeprom[c]

LEMMA Pages ==
  /\ \A c \in Cells : Page[c] \in {1, 4, 5, 6}
  /\ \A r \in Regs : r \in Cells /\ Page[r] \in {1, 4, 5}
  /\ Page["operating_minutes"] = 5 /\ Page["first_start_done"] = 6
  /\ Page["PRECONFIG_FAN_REQUEST"] = 1 /\ Page["FAN_REQUEST"] = 1
  /\ Page["MODBUS_DEAD_TIME"] = 4
  BY DEF Page, Cells, Regs, Restored

(* Writing a page changes that page as it is read, and without the cache    *)
(* leaves each cell at a content it has had.  The environment is untouched. *)
LEMMA WritePageStep ==
  ASSUME EepromType, NEW p \in {1, 4, 5}, NEW new \in Contents, WritePage(p, new)
  PROVE  /\ EepromType'
         /\ \A c \in Cells : eeprom'[c] = IF Page[c] = p THEN new[c] ELSE eeprom[c]
         /\ \A c \in Cells : store'[c] \in {store[c], eeprom[c], eeprom'[c]}
         /\ store'["first_start_done"] = eeprom["first_start_done"]
         /\ eeprom'["first_start_done"] = eeprom["first_start_done"]
  <1>1. eeprom' = [c \in Cells |-> IF Page[c] = p THEN new[c] ELSE eeprom[c]]
    BY DEF WritePage
  <1>2. eeprom' \in Contents
    BY <1>1 DEF EepromType, Contents
  <1>3. "first_start_done" \in Cells /\ \A c \in Cells : Page[c] # 0
    BY Pages DEF Cells
  <1>4. eeprom'["first_start_done"] = eeprom["first_start_done"]
    BY <1>1, <1>3, Pages
  <1>5. CASE /\ store' = IF cached \in {0, p} THEN store ELSE eeprom
             /\ cached' = p
             /\ homeless' = (homeless /\ cached = p)
    <2>1. store' \in Contents
      BY <1>5 DEF EepromType
    <2>2. \A c \in Cells : Page[c] # p => store'[c] = eeprom'[c]
      BY <1>1, <1>3, <1>5 DEF EepromType
    <2>3. homeless' \in BOOLEAN
      BY <1>5 DEF EepromType
    <2>4. \A c \in Cells : store'[c] \in {store[c], eeprom[c], eeprom'[c]}
      BY <1>5
    <2>5. store'["first_start_done"] = eeprom["first_start_done"]
      BY <1>3, <1>4, <2>2, Pages
    <2> QED BY <1>1, <1>2, <1>4, <1>5, <2>1, <2>2, <2>3, <2>4, <2>5 DEF EepromType
  <1>6. CASE /\ cached # p
             /\ store' = [c \in Cells |-> IF Page[c] = Second(p) THEN eeprom[c] ELSE eeprom'[c]]
             /\ cached' = Second(p)
             /\ homeless' = TRUE
    <2>1. Second(p) \in {1, 5}
      BY DEF Second
    <2>2. store' \in Contents
      BY <1>2, <1>6 DEF EepromType, Contents
    <2>3. \A c \in Cells : Page[c] # Second(p) => store'[c] = eeprom'[c]
      BY <1>6
    <2>4. \A c \in Cells : store'[c] \in {store[c], eeprom[c], eeprom'[c]}
      BY <1>6
    <2>5. store'["first_start_done"] = eeprom["first_start_done"]
      BY <1>3, <1>4, <2>1, <2>3, Pages
    <2> QED BY <1>1, <1>2, <1>4, <1>6, <2>1, <2>2, <2>3, <2>4, <2>5 DEF EepromType
  <1> QED BY <1>5, <1>6 DEF WritePage

LEMMA WriteEnvStep ==
  ASSUME EepromType, NEW v \in Nat, WriteEnv(v)
  PROVE  /\ EepromType'
         /\ \A c \in Cells \ {"first_start_done"} : eeprom'[c] = eeprom[c]
         /\ store' = eeprom' /\ eeprom'["first_start_done"] = v
  <1>1. "first_start_done" \in Cells
    BY DEF Cells
  <1> QED BY <1>1 DEF EepromType, WriteEnv, Contents

LEMMA CommitStep ==
  ASSUME EepromType, Complete(eeprom), Commit
  PROVE  EepromType' /\ eeprom' = eeprom /\ Complete(store)' /\ Complete(eeprom)'
  BY DEF EepromType, Commit, Complete

(* A complete EEPROM stays so when the registers written are not blank.     *)
LEMMA WritePageComplete ==
  ASSUME EepromType, Complete(store), Complete(eeprom),
         NEW p \in {1, 4, 5}, NEW new \in Contents, WritePage(p, new),
         eeprom["first_start_done"] \notin {0, Blank} =>
           \A r \in Kept : Page[r] = p => new[r] # Blank
  PROVE  Complete(store)' /\ Complete(eeprom)'
  <1>1. \A r \in Kept : r \in Cells
    BY DEF Kept, Cells, Regs, Restored
  <1>2. store["first_start_done"] = eeprom["first_start_done"]
    <2>1. "first_start_done" \in Cells /\ Page["first_start_done"] # cached
      BY Pages DEF EepromType, Cells
    <2> QED BY <2>1 DEF EepromType
  <1>3. ASSUME eeprom["first_start_done"] \notin {0, Blank}, NEW r \in Kept
        PROVE  store'[r] # Blank /\ eeprom'[r] # Blank
    <2>1. store[r] # Blank /\ eeprom[r] # Blank
      BY <1>2, <1>3 DEF Complete
    <2>2. eeprom'[r] # Blank
      BY <1>1, <1>3, <2>1, WritePageStep
    <2> QED BY <1>1, <2>1, <2>2, WritePageStep
  <1> QED BY <1>3, WritePageStep DEF Complete

LEMMA WriteEnvComplete ==
  ASSUME EepromType, NEW v \in Nat, WriteEnv(v),
         v \notin {0, Blank} => \A r \in Kept : eeprom[r] # Blank
  PROVE  Complete(store)' /\ Complete(eeprom)'
  <1>1. \A r \in Kept : r \in Cells \ {"first_start_done"}
    BY DEF Kept, Cells, Regs, Restored
  <1> QED BY <1>1, WriteEnvStep DEF Complete

(* Setting a register writes it, and leaves the rest as it reads.           *)
LEMMA SetRegisterStep ==
  ASSUME EepromType, Complete(store), Complete(eeprom), holding_regs \in [Regs -> Nat],
         NEW r \in Regs, NEW v \in Nat \ {Blank}, modbus_set_holding_reg(r, v)
  PROVE  /\ EepromType' /\ Complete(store)' /\ Complete(eeprom)'
         /\ holding_regs' = [holding_regs EXCEPT ![r] = v]
         /\ eeprom'["first_start_done"] = eeprom["first_start_done"]
         /\ eeprom'["operating_minutes"] = eeprom["operating_minutes"]
         /\ \A s \in Regs : eeprom[s] = holding_regs[s] => eeprom'[s] = holding_regs'[s]
  <1>1. CASE holding_regs[r] = v
    <2>1. holding_regs' = holding_regs /\ UNCHANGED eepromVars
      BY <1>1 DEF modbus_set_holding_reg
    <2> QED BY <1>1, <2>1 DEF eepromVars, EepromType, Complete
  <1>2. CASE holding_regs[r] # v
    <2> DEFINE new == [eeprom EXCEPT ![r] = v]
    <2>1. WritePage(Page[r], new) /\ holding_regs' = [holding_regs EXCEPT ![r] = v]
      BY <1>2 DEF modbus_set_holding_reg
    <2>2. Page[r] \in {1, 4, 5} /\ r \in Cells /\ r # "first_start_done" /\ r # "operating_minutes"
      BY Pages DEF Regs, Restored
    <2>3. new \in Contents /\ \A c \in Cells : new[c] = IF c = r THEN v ELSE eeprom[c]
      BY <2>2 DEF EepromType, Contents
    <2> HIDE DEF new
    <2>4. \A s \in Kept : eeprom[s] # Blank => new[s] # Blank
      BY <2>3, Pages DEF Kept, Regs, Restored
    <2>5. EepromType' /\ \A c \in Cells : eeprom'[c] = IF c = r THEN v ELSE eeprom[c]
      BY <2>1, <2>2, <2>3, WritePageStep
    <2>6. Complete(store)' /\ Complete(eeprom)'
      BY <2>1, <2>2, <2>3, <2>4, WritePageComplete DEF Complete
    <2>7. \A s \in Regs : eeprom[s] = holding_regs[s] => eeprom'[s] = holding_regs'[s]
      BY <2>1, <2>5, Pages
    <2> QED BY <2>1, <2>2, <2>5, <2>6, <2>7 DEF Cells
  <1> QED BY <1>1, <1>2

-----------------------------------------------------------------------------
(* Resets.                                                                  *)

LEMMA InitIInv == ASSUME ValuesAssumption, Init PROVE IInv
  <1>1. EepromType /\ \A c \in Cells : eeprom[c] = Blank /\ store[c] = Blank
    BY DEF ValuesAssumption, Init, EepromType, Contents
  <1>2. "first_start_done" \in Cells
    BY DEF Cells
  <1>3. TypeInv
    BY <1>1 DEF Init, TypeInv, TypeOK, EepromType, BootPoints
  <1>4. Complete(store) /\ Complete(eeprom)
    BY <1>1, <1>2 DEF Complete
  <1>5. RequestIsNew /\ EnvironmentSaved /\ PowerOnSet /\ RamSaved /\ PromiseSaved
    BY DEF Init, RequestIsNew, EnvironmentSaved, PowerOnSet, RamSaved, PromiseSaved, NoPromise,
           Running, LoopPoints
  <1> QED BY <1>3, <1>4, <1>5 DEF IInv

(* After a restart all that counts is the EEPROM and what was promised.     *)
LEMMA RestartStep ==
  ASSUME IInv, NEW c \in {"POR", "EXT", "SOFTWARE", "WDT"}, Restart(c, before'),
         EepromType', Complete(store)', Complete(eeprom)',
         before' \in {NoPromise} \cup Records, PromiseSaved'
  PROVE  IInv'
  <1>1. TypeInv'
    <2>1. env_dirty' \in BOOLEAN /\ asked' \in BOOLEAN
      BY DEF Restart
    <2>2. /\ pc' \in BootPoints /\ cause' \in {"POR", "EXT", "SOFTWARE", "WDT"}
          /\ stored' \in {0, 1, 4}
      BY DEF Restart, BootPoints
    <2>3. /\ holding_regs' \in [Regs -> Nat] /\ operating_minutes' \in Nat
          /\ first_start_done' \in Nat
      BY DEF Restart
    <2>4. resets' \in Nat
      BY DEF Restart, IInv, TypeInv, TypeOK
    <2> QED BY <2>1, <2>2, <2>3, <2>4 DEF TypeInv, TypeOK, EepromType
  <1>2. RequestIsNew' /\ EnvironmentSaved' /\ PowerOnSet' /\ RamSaved'
    BY DEF Restart, RequestIsNew, EnvironmentSaved, PowerOnSet, RamSaved, Running, LoopPoints
  <1> QED BY <1>1, <1>2 DEF IInv

(* What a running unit has to keep is in the EEPROM.                        *)
LEMMA NowIsSaved ==
  ASSUME IInv
  PROVE  /\ Now \in {NoPromise} \cup Records
         /\ Now.promised => /\ Now.minutes = SavedMinutes
                            /\ \A r \in Restored : Now.regs[r] = eeprom[r]
         /\ Now.promised /\ Now.first # 0 =>
              \/ eeprom["first_start_done"] \notin {0, Blank}
              \/ \A r \in Kept : Now.regs[r] = Configured
  <1>1. CASE ~Running
    BY <1>1 DEF Now, NoPromise
  <1>2. CASE Running
    <2>1. /\ Now = [promised |-> TRUE, regs |-> holding_regs, minutes |-> operating_minutes,
                    first |-> first_start_done]
          /\ Now \in Records
      BY <1>2 DEF Now, Records, IInv, TypeInv, TypeOK
    <2>2. operating_minutes = SavedMinutes /\ \A r \in Restored : holding_regs[r] = eeprom[r]
      BY <1>2 DEF IInv, RamSaved, Running
    <2>3. first_start_done # 0 => \/ eeprom["first_start_done"] \notin {0, Blank}
                                  \/ \A r \in Kept : holding_regs[r] = Configured
      BY <1>2 DEF IInv, EnvironmentSaved, Running, LoopPoints
    <2> QED BY <2>1, <2>2, <2>3
  <1> QED BY <1>1, <1>2

(* A reset that is preceded by a commit.                                    *)
LEMMA OrderlyStep ==
  ASSUME IInv, Commit, NEW c \in {"POR", "EXT", "SOFTWARE", "WDT"}, Restart(c, Now)
  PROVE  IInv'
  <1>1. EepromType' /\ eeprom' = eeprom /\ Complete(store)' /\ Complete(eeprom)'
    BY CommitStep DEF IInv, TypeInv, TypeOK, EepromType
  <1>2. before' = Now /\ Restart(c, before') /\ pc' = "env_init"
    BY DEF Restart
  <1>3. PromiseSaved'
    BY <1>1, <1>2, NowIsSaved DEF PromiseSaved, SavedMinutes
  <1>4. before' \in {NoPromise} \cup Records
    BY <1>2, NowIsSaved
  <1> QED BY <1>1, <1>2, <1>3, <1>4, RestartStep

LEMMA BrownOutStep == ASSUME IInv, BrownOut PROVE IInv'
  <1>1. CASE Commit /\ Restart("POR", Now)
    BY <1>1, OrderlyStep
  <1>2. CASE Commit /\ UNCHANGED <<pc, cause, stored, ramVars, historyVars>>
    <2>1. EepromType' /\ eeprom' = eeprom /\ Complete(store)' /\ Complete(eeprom)'
      BY <1>2, CommitStep DEF IInv, TypeInv, TypeOK, EepromType
    <2>2. TypeInv'
      BY <1>2, <2>1 DEF IInv, TypeInv, TypeOK, EepromType, ramVars, historyVars
    <2>3. RequestIsNew' /\ EnvironmentSaved' /\ PowerOnSet' /\ RamSaved' /\ PromiseSaved'
      BY <1>2, <2>1 DEF IInv, RequestIsNew, EnvironmentSaved, PowerOnSet, RamSaved, PromiseSaved,
                        Running, SoftReset, SavedMinutes, ramVars, historyVars
    <2> QED BY <2>1, <2>2, <2>3 DEF IInv
  <1> QED BY <1>1, <1>2 DEF BrownOut

LEMMA PowerLossStep == ASSUME IInv, PowerLoss PROVE IInv'
  <1>1. PICK c \in {"POR", "EXT"} : Restart(c, NoPromise)
    BY DEF PowerLoss
  <1>2. before' = NoPromise /\ Restart(c, before')
    BY <1>1 DEF Restart
  <1>3. eeprom' = store /\ store' = store /\ cached' = 0 /\ homeless' = homeless
    BY DEF PowerLoss
  <1>4. EepromType'
    BY <1>3 DEF IInv, TypeInv, TypeOK, EepromType
  <1>5. Complete(store)' /\ Complete(eeprom)'
    BY <1>3 DEF IInv, Complete
  <1>6. PromiseSaved'
    BY <1>2 DEF PromiseSaved, NoPromise
  <1> QED BY <1>2, <1>4, <1>5, <1>6, RestartStep

LEMMA EnvResetStep == ASSUME ValuesAssumption, IInv, env_reset PROVE IInv'
  <1>1. EepromType /\ Blank \in Nat /\ WriteEnv(Blank) /\ Running
    BY DEF env_reset, ValuesAssumption, IInv, TypeInv, TypeOK, EepromType, Running, LoopPoints
  <1>2. EepromType' /\ \A c \in Cells \ {"first_start_done"} : eeprom'[c] = eeprom[c]
    BY <1>1, WriteEnvStep
  <1>3. Complete(store)' /\ Complete(eeprom)'
    BY <1>1, WriteEnvComplete
  <1>4. Now \in Records
    BY <1>1 DEF Now, Records, IInv, TypeInv, TypeOK
  <1>5. before' = [Now EXCEPT !.first = 0] /\ pc' = "env_init" /\ Restart("SOFTWARE", before')
    BY DEF env_reset, Restart
  <1>6. before' \in Records /\ before'.first = 0
        /\ before'.minutes = Now.minutes /\ before'.regs = Now.regs /\ Now.promised
    BY <1>4, <1>5 DEF Records
  <1>7. /\ \A r \in Restored : eeprom'[r] = eeprom[r]
        /\ eeprom'["operating_minutes"] = eeprom["operating_minutes"]
    BY <1>2 DEF Cells, Regs, Restored
  <1>8. PromiseSaved'
    BY <1>5, <1>6, <1>7, NowIsSaved DEF PromiseSaved, SavedMinutes
  <1> QED BY <1>2, <1>3, <1>5, <1>6, <1>8, RestartStep

-----------------------------------------------------------------------------
(* Start-up.                                                                *)

LEMMA EnvInitStep == ASSUME ValuesAssumption, IInv, env_init PROVE IInv'
  <1>1. EepromType /\ 0 \in Nat /\ 0 # Blank
    BY DEF ValuesAssumption, IInv, TypeInv, TypeOK, EepromType
  <1>2. /\ pc = "env_init" /\ pc' = "modbus_init"
        /\ UNCHANGED <<cause, stored, holding_regs, operating_minutes, env_dirty, asked,
                       before, resets>>
    BY DEF env_init, historyVars
  <1>3. /\ EepromType' /\ Complete(store)' /\ Complete(eeprom)'
        /\ \A c \in Cells \ {"first_start_done"} : eeprom'[c] = eeprom[c]
        /\ first_start_done' = eeprom'["first_start_done"]
        /\ eeprom'["first_start_done"] # Blank
        /\ eeprom["first_start_done"] # Blank =>
             eeprom'["first_start_done"] = eeprom["first_start_done"]
    <2>1. CASE eeprom["first_start_done"] = Blank
      <3>1. first_start_done' = 0 /\ WriteEnv(0)
        BY <2>1 DEF env_init
      <3> QED BY <1>1, <2>1, <3>1, WriteEnvStep, WriteEnvComplete
    <2>2. CASE eeprom["first_start_done"] # Blank
      <3>1. first_start_done' = eeprom["first_start_done"] /\ UNCHANGED eepromVars
        BY <2>2 DEF env_init
      <3> QED BY <1>1, <2>2, <3>1 DEF eepromVars, EepromType, IInv, Complete
    <2> QED BY <2>1, <2>2
  <1>4. first_start_done' \in Nat
    BY <1>3 DEF EepromType, Contents, Cells
  <1>5. /\ \A r \in Restored : eeprom'[r] = eeprom[r]
        /\ SavedMinutes' = SavedMinutes
    BY <1>3 DEF Cells, Regs, Restored, SavedMinutes
  <1>6. TypeInv'
    BY <1>2, <1>3, <1>4 DEF IInv, TypeInv, TypeOK, EepromType, BootPoints
  <1>7. ~env_dirty /\ stored = 0
    BY <1>2 DEF IInv, EnvironmentSaved, RamSaved
  <1>8. RequestIsNew' /\ EnvironmentSaved' /\ PowerOnSet' /\ RamSaved'
    BY <1>2, <1>3, <1>7 DEF RequestIsNew, EnvironmentSaved, PowerOnSet, RamSaved, Running, LoopPoints
  <1>9. PromiseSaved'
    BY <1>2, <1>3, <1>5 DEF IInv, PromiseSaved
  <1> QED BY <1>3, <1>6, <1>8, <1>9 DEF IInv

(* What modbus_init finds.                                                  *)
LEMMA InitValues ==
  ASSUME ValuesAssumption, IInv, modbus_init
  PROVE  /\ EepromType /\ EepromType' /\ UNCHANGED <<store, eeprom, cause>>
         /\ Saved \in [Regs -> Nat] /\ \A r \in Regs : Saved[r] = eeprom[r]
         /\ SavedMinutes \in Nat /\ operating_minutes' = SavedMinutes
         /\ first_start_done = eeprom["first_start_done"] /\ first_start_done # Blank
         /\ ~env_dirty
         /\ PowerOnValues \in [Regs -> Nat]
         /\ PowerOnValues["SOFTWARE_RESET"] = 0
         /\ \A r \in Regs : PowerOnValues[r] # Blank
         /\ first_start_done = 0 => \A r \in Kept : PowerOnValues[r] = Configured
         /\ first_start_done # 0 => \A r \in Kept : PowerOnValues[r] = eeprom[r]
         /\ ClearRequests(Saved) \in [Regs -> Nat]
         /\ ClearRequests(Saved)["SOFTWARE_RESET"] = 0
         /\ \A r \in Restored : ClearRequests(Saved)[r] = eeprom[r]
  <1>1. EepromType /\ EepromType' /\ UNCHANGED <<store, eeprom, cause>>
    BY DEF modbus_init, eepromVars, IInv, TypeInv, TypeOK, EepromType
  <1>2. Saved \in [Regs -> Nat] /\ \A r \in Regs : Saved[r] = eeprom[r]
    BY <1>1 DEF EepromType, Contents, Saved, Cells
  <1>3. SavedMinutes \in Nat /\ operating_minutes' = SavedMinutes
    BY <1>1 DEF modbus_init, SavedMinutes, EepromType, Contents, Cells
  <1>4. pc = "modbus_init"
    BY DEF modbus_init
  <1>5. first_start_done = eeprom["first_start_done"] /\ first_start_done # Blank /\ ~env_dirty
    BY <1>4 DEF IInv, EnvironmentSaved
  <1>6. /\ ClearRequests(Saved) \in [Regs -> Nat]
        /\ ClearRequests(Saved)["SOFTWARE_RESET"] = 0
        /\ \A r \in Restored : ClearRequests(Saved)[r] = eeprom[r]
    BY <1>2 DEF ClearRequests, Regs, Restored
  <1>7. Configured \in Nat /\ Configured # Blank /\ Blank # 0
    BY DEF ValuesAssumption
  <1> DEFINE config == IF first_start_done = 0
                       THEN [r \in Regs |-> IF r \in Kept THEN Configured ELSE Saved[r]]
                       ELSE Saved
  <1>8. /\ config \in [Regs -> Nat]
        /\ \A r \in Kept : config[r] = IF first_start_done = 0 THEN Configured ELSE eeprom[r]
    BY <1>2, <1>7 DEF Kept, Regs, Restored
  <1>9. \A r \in Kept : config[r] # Blank
    BY <1>5, <1>7, <1>8 DEF IInv, Complete
  <1> HIDE DEF config
  <1>10. PowerOnValues = ClearRequests([config EXCEPT !["FAN_REQUEST"] =
                                                        config["PRECONFIG_FAN_REQUEST"]])
    BY DEF PowerOnValues, config
  <1>11. /\ PowerOnValues \in [Regs -> Nat]
         /\ PowerOnValues["SOFTWARE_RESET"] = 0 /\ PowerOnValues["UPGRADE_FUNCTION"] = 0
         /\ PowerOnValues["FAN_REQUEST"] = config["PRECONFIG_FAN_REQUEST"]
         /\ \A r \in Kept : PowerOnValues[r] = config[r]
    BY <1>8, <1>10 DEF ClearRequests, Regs, Restored, Kept
  <1>12. \A r \in Regs : PowerOnValues[r] # Blank
    BY <1>7, <1>9, <1>11 DEF Regs, Restored, Kept
  <1> QED BY <1>1, <1>2, <1>3, <1>5, <1>6, <1>8, <1>11, <1>12

LEMMA ModbusInitStep == ASSUME ValuesAssumption, IInv, modbus_init PROVE IInv'
  <1>1. /\ before' = NoPromise /\ UNCHANGED <<cause, eepromVars, stored, asked, resets>>
        /\ pc = "modbus_init" /\ operating_minutes' = SavedMinutes
    BY DEF modbus_init
  <1>2. Complete(store)' /\ Complete(eeprom)' /\ SavedMinutes' = SavedMinutes
        /\ (SoftReset' <=> SoftReset)
    BY <1>1 DEF eepromVars, IInv, Complete, SavedMinutes, SoftReset
  <1>3. PromiseSaved'
    BY <1>1 DEF PromiseSaved, NoPromise
  <1>4. CASE SoftReset
    <2>1. /\ holding_regs' = ClearRequests(Saved) /\ pc' = "do_env"
          /\ UNCHANGED <<first_start_done, env_dirty>>
      BY <1>4 DEF modbus_init
    <2>2. TypeInv'
      BY <1>1, <2>1, InitValues DEF IInv, TypeInv, TypeOK, eepromVars, LoopPoints
    <2>3. RequestIsNew'
      BY <2>1, InitValues DEF RequestIsNew
    <2>4. EnvironmentSaved' /\ PowerOnSet'
      BY <1>1, <1>2, <1>4, <2>1, InitValues DEF EnvironmentSaved, PowerOnSet, eepromVars
    <2>5. stored = 0
      BY <1>1 DEF IInv, RamSaved
    <2>6. RamSaved'
      BY <1>1, <1>2, <2>1, <2>5, InitValues DEF RamSaved, eepromVars
    <2> QED BY <1>2, <1>3, <2>2, <2>3, <2>4, <2>6 DEF IInv
  <1>5. CASE ~SoftReset
    <2>1. /\ holding_regs' = PowerOnValues /\ pc' = "store"
          /\ first_start_done' = IF first_start_done = 0 THEN 1 ELSE first_start_done
          /\ env_dirty' = (env_dirty \/ first_start_done = 0)
      BY <1>5 DEF modbus_init
    <2>2. env_dirty' \in BOOLEAN /\ (env_dirty' <=> first_start_done = 0)
      BY <2>1, InitValues
    <2>3. TypeInv'
      BY <1>1, <2>1, <2>2, InitValues DEF IInv, TypeInv, TypeOK, eepromVars, BootPoints
    <2>4. RequestIsNew'
      BY <2>1, InitValues DEF RequestIsNew
    <2>5. EnvironmentSaved' /\ PowerOnSet'
      BY <1>1, <1>2, <1>5, <2>1, <2>2, InitValues DEF EnvironmentSaved, PowerOnSet, eepromVars
    <2>6. stored = 0
      BY <1>1 DEF IInv, RamSaved
    <2>7. RamSaved'
      BY <1>1, <1>2, <2>1, <2>6, InitValues, Pages DEF RamSaved, Running, LoopPoints, eepromVars,
                                                    Restored
    <2> QED BY <1>2, <1>3, <2>3, <2>4, <2>5, <2>7 DEF IInv
  <1> QED BY <1>4, <1>5

LEMMA StoreStep == ASSUME ValuesAssumption, IInv, StoreRegisters PROVE IInv'
  <1> DEFINE p == NextPage[stored]
             new == [c \in Cells |-> IF c \in Regs THEN holding_regs[c] ELSE eeprom[c]]
  <1>1. /\ pc = "store" /\ WritePage(p, new)
        /\ stored' = IF p = 5 THEN 0 ELSE p
        /\ pc' = IF p = 5 THEN "do_env" ELSE pc
        /\ UNCHANGED <<cause, holding_regs, operating_minutes, first_start_done, env_dirty, asked,
                       before, resets>>
    BY DEF StoreRegisters, ramVars, historyVars
  <1>2. /\ p \in {1, 4, 5} /\ stored < p
        /\ p = 4 => stored = 1
        /\ p = 5 => stored = 4
    BY DEF NextPage, IInv, TypeInv, TypeOK
  <1>3. EepromType /\ holding_regs \in [Regs -> Nat] /\ Complete(store) /\ Complete(eeprom)
    BY DEF IInv, TypeInv, TypeOK, EepromType
  <1>4. new \in Contents /\ \A r \in Regs : new[r] = holding_regs[r]
    BY <1>3, Pages DEF EepromType, Contents
  <1>5. ~SoftReset /\ \A r \in Regs : holding_regs[r] # Blank
    BY <1>1 DEF IInv, PowerOnSet
  <1>6. new["operating_minutes"] = eeprom["operating_minutes"] /\ "operating_minutes" \in Cells
    BY DEF Cells, Regs, Restored
  <1> HIDE DEF p, new
  <1>7. EepromType' /\ Complete(store)' /\ Complete(eeprom)'
    BY <1>1, <1>2, <1>3, <1>4, <1>5, WritePageStep, WritePageComplete DEF Kept, Regs, Restored
  <1>8. /\ \A c \in Cells : eeprom'[c] = IF Page[c] = p THEN new[c] ELSE eeprom[c]
        /\ eeprom'["first_start_done"] = eeprom["first_start_done"]
    BY <1>1, <1>2, <1>3, <1>4, WritePageStep
  <1>9. SavedMinutes' = SavedMinutes
    BY <1>6, <1>8 DEF SavedMinutes
  <1>10. \A r \in Restored : Page[r] <= p => eeprom'[r] = holding_regs[r]
    <2> SUFFICES ASSUME NEW r \in Restored, Page[r] <= p PROVE eeprom'[r] = holding_regs[r]
      OBVIOUS
    <2>1. r \in Regs /\ r \in Cells /\ Page[r] \in {1, 4}
      BY Pages DEF Regs, Restored
    <2>2. CASE Page[r] = p
      BY <1>4, <1>8, <2>1, <2>2
    <2>3. CASE Page[r] # p
      <3>1. Page[r] <= stored
        BY <1>2, <2>1, <2>3
      <3>2. eeprom[r] = holding_regs[r]
        BY <1>1, <3>1 DEF IInv, RamSaved
      <3> QED BY <1>8, <2>1, <2>3, <3>2
    <2> QED BY <2>2, <2>3
  <1>11. \A r \in Restored : Page[r] <= 5
    BY Pages DEF Restored
  <1>12. RamSaved'
    <2>1. operating_minutes' = SavedMinutes'
      BY <1>1, <1>9 DEF IInv, RamSaved
    <2>2. CASE p = 5
      BY <1>1, <1>10, <1>11, <2>1, <2>2 DEF RamSaved
    <2>3. CASE p # 5
      BY <1>1, <1>10, <2>1, <2>3 DEF RamSaved, Running, LoopPoints
    <2> QED BY <2>2, <2>3
  <1>13. TypeInv'
    <2>1. stored' \in {0, 1, 4} /\ pc' \in BootPoints \cup LoopPoints
      BY <1>1, <1>2 DEF BootPoints, LoopPoints
    <2> QED BY <1>1, <1>7, <2>1 DEF IInv, TypeInv, TypeOK, EepromType
  <1>14. RequestIsNew' /\ EnvironmentSaved' /\ PowerOnSet'
    BY <1>1, <1>5, <1>8 DEF IInv, RequestIsNew, EnvironmentSaved, PowerOnSet, SoftReset
  <1>15. PromiseSaved'
    BY <1>1 DEF IInv, PromiseSaved
  <1> QED BY <1>7, <1>12, <1>13, <1>14, <1>15 DEF IInv

-----------------------------------------------------------------------------
(* The main loop.                                                           *)

LEMMA DoEnvStep == ASSUME ValuesAssumption, IInv, do_env PROVE IInv'
  <1>1. /\ pc = "do_env" /\ pc' = "do_cli" /\ env_dirty' = FALSE
        /\ UNCHANGED <<cause, stored, holding_regs, operating_minutes, first_start_done, asked,
                       before, resets>>
    BY DEF do_env, historyVars
  <1>2. EepromType /\ first_start_done \in Nat
    BY DEF IInv, TypeInv, TypeOK, EepromType
  <1>3. /\ EepromType' /\ Complete(store)' /\ Complete(eeprom)'
        /\ \A c \in Cells \ {"first_start_done"} : eeprom'[c] = eeprom[c]
        /\ eeprom'["first_start_done"] = first_start_done /\ first_start_done # Blank
    <2>1. CASE env_dirty
      <3>1. WriteEnv(first_start_done)
        BY <2>1 DEF do_env
      <3>2. first_start_done = 1 /\ first_start_done # Blank
        BY <2>1 DEF IInv, EnvironmentSaved, ValuesAssumption
      <3>3. \A r \in Kept : eeprom[r] # Blank
        <4>1. \A r \in Kept : holding_regs[r] = Configured
          BY <2>1 DEF IInv, EnvironmentSaved
        <4>2. \A r \in Kept : eeprom[r] = holding_regs[r]
          BY <1>1 DEF IInv, RamSaved, Running, LoopPoints, Restored, Kept
        <4> QED BY <4>1, <4>2 DEF ValuesAssumption
      <3> QED BY <1>2, <3>1, <3>2, <3>3, WriteEnvStep, WriteEnvComplete
    <2>2. CASE ~env_dirty
      <3>1. UNCHANGED eepromVars
        BY <2>2 DEF do_env
      <3>2. eeprom["first_start_done"] = first_start_done /\ first_start_done # Blank
        BY <1>1, <2>2 DEF IInv, EnvironmentSaved
      <3> QED BY <1>2, <3>1, <3>2 DEF eepromVars, EepromType, IInv, Complete
    <2> QED BY <2>1, <2>2 DEF IInv, TypeInv, TypeOK
  <1>4. /\ \A r \in Restored : eeprom'[r] = eeprom[r]
        /\ SavedMinutes' = SavedMinutes
    BY <1>3 DEF Cells, Regs, Restored, SavedMinutes
  <1>5. TypeInv'
    BY <1>1, <1>3 DEF IInv, TypeInv, TypeOK, EepromType, LoopPoints
  <1>6. RequestIsNew' /\ EnvironmentSaved' /\ PowerOnSet'
    BY <1>1, <1>3 DEF IInv, RequestIsNew, EnvironmentSaved, PowerOnSet, SoftReset, LoopPoints
  <1>7. RamSaved' /\ PromiseSaved'
    BY <1>1, <1>4 DEF IInv, RamSaved, PromiseSaved, Running, LoopPoints
  <1> QED BY <1>3, <1>5, <1>6, <1>7 DEF IInv

LEMMA MinutesStep ==
  ASSUME ValuesAssumption, BoundsAssumption, IInv, update_operating_hours PROVE IInv'
  <1>1. /\ pc = "do_cli" /\ pc' = "frame"
        /\ UNCHANGED <<cause, stored, holding_regs, first_start_done, env_dirty, asked,
                       before, resets>>
    BY DEF update_operating_hours, historyVars
  <1>2. EepromType /\ Complete(store) /\ Complete(eeprom) /\ operating_minutes \in Nat
    BY DEF IInv, TypeInv, TypeOK, EepromType
  <1>3. operating_minutes = SavedMinutes
    BY <1>1 DEF IInv, RamSaved, LoopPoints
  <1>4. /\ EepromType' /\ Complete(store)' /\ Complete(eeprom)'
        /\ \A c \in Cells \ {"operating_minutes"} : eeprom'[c] = eeprom[c]
        /\ operating_minutes' = SavedMinutes' /\ operating_minutes' \in Nat
    <2>1. CASE UNCHANGED <<eepromVars, operating_minutes>>
      BY <1>2, <1>3, <2>1 DEF eepromVars, EepromType, Complete, SavedMinutes
    <2> DEFINE new == [eeprom EXCEPT !["operating_minutes"] = operating_minutes + 1]
    <2>2. CASE /\ operating_minutes < MaxMinutes
               /\ operating_minutes' = operating_minutes + 1
               /\ WritePage(5, new)
      <3>1. operating_minutes + 1 \in Nat \ {Blank}
        BY <1>2, <2>2 DEF ValuesAssumption, BoundsAssumption
      <3>2. /\ new \in Contents /\ new["operating_minutes"] = operating_minutes + 1
            /\ \A c \in Cells \ {"operating_minutes"} : new[c] = eeprom[c]
        BY <1>2, <3>1 DEF EepromType, Contents, Cells
      <3> HIDE DEF new
      <3>3. /\ EepromType'
            /\ \A c \in Cells : eeprom'[c] = IF Page[c] = 5 THEN new[c] ELSE eeprom[c]
        BY <1>2, <2>2, <3>2, WritePageStep
      <3>4. \A r \in Kept : new[r] = eeprom[r]
        BY <3>2 DEF Kept, Cells, Regs, Restored
      <3>5. Complete(store)' /\ Complete(eeprom)'
        BY <1>2, <2>2, <3>2, <3>4, WritePageComplete DEF Complete
      <3>6. eeprom'["operating_minutes"] = operating_minutes + 1
        BY <3>2, <3>3, Pages DEF Cells
      <3>7. operating_minutes' = SavedMinutes'
        BY <2>2, <3>1, <3>6 DEF SavedMinutes
      <3>8. \A c \in Cells \ {"operating_minutes"} : eeprom'[c] = eeprom[c]
        BY <3>2, <3>3
      <3> QED BY <2>2, <3>1, <3>3, <3>5, <3>7, <3>8
    <2> QED BY <2>1, <2>2 DEF update_operating_hours
  <1>5. /\ \A r \in Restored : eeprom'[r] = eeprom[r]
        /\ eeprom'["first_start_done"] = eeprom["first_start_done"]
    BY <1>4 DEF Cells, Regs, Restored
  <1>6. TypeInv'
    BY <1>1, <1>4 DEF IInv, TypeInv, TypeOK, EepromType, LoopPoints
  <1>7. RequestIsNew' /\ EnvironmentSaved' /\ PowerOnSet'
    BY <1>1, <1>5 DEF IInv, RequestIsNew, EnvironmentSaved, PowerOnSet, SoftReset, LoopPoints
  <1>8. RamSaved' /\ PromiseSaved'
    BY <1>1, <1>4, <1>5 DEF IInv, RamSaved, PromiseSaved, Running, LoopPoints
  <1> QED BY <1>4, <1>6, <1>7, <1>8 DEF IInv

(* A register is set between two points of the main loop.                   *)
LEMMA SetInLoop ==
  ASSUME ValuesAssumption, IInv, NEW r \in Regs, NEW v \in Nat \ {Blank},
         modbus_set_holding_reg(r, v), pc = "frame", pc' \in {"frame", "reset_check"},
         UNCHANGED <<cause, stored, operating_minutes, first_start_done, env_dirty, before, resets>>,
         asked' \in BOOLEAN, asked => asked', (r = "SOFTWARE_RESET" /\ v > 0) => asked'
  PROVE  IInv'
  <1>1. EepromType /\ Complete(store) /\ Complete(eeprom) /\ holding_regs \in [Regs -> Nat]
    BY DEF IInv, TypeInv, TypeOK, EepromType
  <1>2. /\ EepromType' /\ Complete(store)' /\ Complete(eeprom)'
        /\ holding_regs' = [holding_regs EXCEPT ![r] = v]
        /\ eeprom'["first_start_done"] = eeprom["first_start_done"]
        /\ eeprom'["operating_minutes"] = eeprom["operating_minutes"]
        /\ \A s \in Regs : eeprom[s] = holding_regs[s] => eeprom'[s] = holding_regs'[s]
    BY <1>1, SetRegisterStep
  <1>3. ~env_dirty /\ ~before.promised /\ stored = 0
    BY DEF IInv, EnvironmentSaved, PromiseSaved, RamSaved
  <1>4. holding_regs' \in [Regs -> Nat]
    BY <1>1, <1>2
  <1>5. TypeInv'
    BY <1>2, <1>4 DEF IInv, TypeInv, TypeOK, EepromType, LoopPoints
  <1>6. RequestIsNew'
    <2>1. holding_regs["SOFTWARE_RESET"] > 0 => asked
      BY DEF IInv, RequestIsNew, LoopPoints
    <2> QED BY <1>1, <1>2, <2>1 DEF RequestIsNew, Regs
  <1>7. EnvironmentSaved'
    BY <1>2, <1>3 DEF IInv, EnvironmentSaved
  <1>8. PowerOnSet'
    BY <1>1, <1>2, <1>3 DEF IInv, PowerOnSet, SoftReset, LoopPoints
  <1>9. RamSaved'
    <2>1. operating_minutes' = SavedMinutes'
      BY <1>2 DEF IInv, RamSaved, SavedMinutes, LoopPoints
    <2>2. \A s \in Restored : eeprom'[s] = holding_regs'[s]
      BY <1>2 DEF IInv, RamSaved, Running, LoopPoints, Regs
    <2> QED BY <1>3, <2>1, <2>2 DEF RamSaved
  <1>10. PromiseSaved'
    BY <1>3 DEF PromiseSaved
  <1> QED BY <1>2, <1>5, <1>6, <1>7, <1>8, <1>9, <1>10 DEF IInv

LEMMA WriteRegisterStep == ASSUME ValuesAssumption, IInv, WriteRegister PROVE IInv'
  <1>1. PICK r \in Regs : \E v \in Written[r] :
          /\ modbus_set_holding_reg(r, v)
          /\ asked' = (asked \/ (r = "SOFTWARE_RESET" /\ v > 0))
    BY DEF WriteRegister
  <1>2. PICK v \in Written[r] :
          /\ modbus_set_holding_reg(r, v)
          /\ asked' = (asked \/ (r = "SOFTWARE_RESET" /\ v > 0))
    BY <1>1
  <1>3. v \in Nat \ {Blank}
    BY DEF ValuesAssumption
  <1>4. /\ pc = "frame" /\ pc' = "frame"
        /\ UNCHANGED <<cause, stored, operating_minutes, first_start_done, env_dirty, before, resets>>
    BY DEF WriteRegister, historyVars
  <1>5. /\ asked' \in BOOLEAN
        /\ asked => asked'
        /\ (r = "SOFTWARE_RESET" /\ v > 0) => asked'
    BY <1>2
  <1> QED BY <1>2, <1>3, <1>4, <1>5, SetInLoop

LEMMA DispatchStep == ASSUME ValuesAssumption, IInv, Dispatch PROVE IInv'
  <1>1. /\ pc = "frame" /\ pc' = "reset_check"
        /\ UNCHANGED <<cause, stored, operating_minutes, first_start_done, env_dirty, asked,
                       before, resets>>
    BY DEF Dispatch, historyVars
  <1>2. CASE modbus_set_holding_reg("UPGRADE_FUNCTION", 0)
    <2>1. 0 \in Nat \ {Blank} /\ "UPGRADE_FUNCTION" \in Regs
      BY DEF ValuesAssumption, Regs
    <2>2. asked' \in BOOLEAN
      BY <1>1 DEF IInv, TypeInv, TypeOK
    <2> QED BY <1>1, <1>2, <2>1, <2>2, SetInLoop
  <1>3. CASE UNCHANGED <<eepromVars, holding_regs>>
    <2>1. TypeInv'
      BY <1>1, <1>3 DEF IInv, TypeInv, TypeOK, eepromVars, LoopPoints
    <2>2. Complete(store)' /\ Complete(eeprom)'
      BY <1>3 DEF IInv, Complete, eepromVars
    <2>3. RequestIsNew' /\ EnvironmentSaved' /\ PowerOnSet' /\ RamSaved' /\ PromiseSaved'
      BY <1>1, <1>3 DEF IInv, RequestIsNew, EnvironmentSaved, PowerOnSet, RamSaved, PromiseSaved,
                        SoftReset, Running, LoopPoints, SavedMinutes, eepromVars
    <2> QED BY <2>1, <2>2, <2>3 DEF IInv
  <1> QED BY <1>2, <1>3 DEF Dispatch

LEMMA NoResetStep == ASSUME IInv, NoSoftwareReset PROVE IInv'
  <1>1. /\ pc = "reset_check" /\ pc' = "do_env"
        /\ UNCHANGED <<cause, eepromVars, stored, ramVars, historyVars>>
    BY DEF NoSoftwareReset
  <1>2. TypeInv'
    BY <1>1 DEF IInv, TypeInv, TypeOK, eepromVars, ramVars, historyVars, LoopPoints
  <1>3. Complete(store)' /\ Complete(eeprom)'
    BY <1>1 DEF IInv, Complete, eepromVars
  <1>4. RequestIsNew' /\ EnvironmentSaved' /\ PowerOnSet' /\ RamSaved' /\ PromiseSaved'
    BY <1>1 DEF IInv, RequestIsNew, EnvironmentSaved, PowerOnSet, RamSaved, PromiseSaved, SoftReset,
                Running, LoopPoints, SavedMinutes, eepromVars, ramVars, historyVars
  <1> QED BY <1>2, <1>3, <1>4 DEF IInv

LEMMA StutterStep == ASSUME IInv, UNCHANGED vars PROVE IInv'
  <1> USE DEF vars, eepromVars, ramVars, historyVars
  <1>1. TypeInv'
    BY DEF IInv, TypeInv, TypeOK
  <1>2. Complete(store)' /\ Complete(eeprom)'
    BY DEF IInv, Complete
  <1>3. RequestIsNew' /\ EnvironmentSaved' /\ PowerOnSet' /\ RamSaved' /\ PromiseSaved'
    BY DEF IInv, RequestIsNew, EnvironmentSaved, PowerOnSet, RamSaved, PromiseSaved, SoftReset,
           Running, LoopPoints, SavedMinutes
  <1> QED BY <1>1, <1>2, <1>3 DEF IInv

-----------------------------------------------------------------------------
LEMMA IInvStep ==
  ASSUME ValuesAssumption, BoundsAssumption, IInv, [Next]_vars PROVE IInv'
  <1>1. CASE CliReset \/ SoftwareReset
    BY <1>1, OrderlyStep DEF CliReset, SoftwareReset, SYSTEM_RESET
  <1>2. CASE WatchdogReset
    BY <1>2, OrderlyStep DEF WatchdogReset
  <1>3. CASE BrownOut \/ PowerLoss \/ env_reset
    BY <1>3, BrownOutStep, PowerLossStep, EnvResetStep
  <1>4. CASE env_init \/ modbus_init \/ StoreRegisters
    BY <1>4, EnvInitStep, ModbusInitStep, StoreStep
  <1>5. CASE do_env \/ update_operating_hours
    BY <1>5, DoEnvStep, MinutesStep
  <1>6. CASE WriteRegister \/ Dispatch \/ NoSoftwareReset
    BY <1>6, WriteRegisterStep, DispatchStep, NoResetStep
  <1>7. CASE UNCHANGED vars
    BY <1>7, StutterStep
  <1> QED BY <1>1, <1>2, <1>3, <1>4, <1>5, <1>6, <1>7 DEF Next, Main

LEMMA Invariance == Spec => []IInv
  <1>1. Init => IInv
    BY ValuesAssumption, InitIInv
  <1>2. IInv /\ [Next]_vars => IInv'
    BY ValuesAssumption, BoundsAssumption, IInvStep
  <1> QED BY <1>1, <1>2, PTL DEF Spec

(* Registers, minutes and the EEPROM keep their types, and a page that is   *)
(* not in the cache reads the same with and without it.                     *)
THEOREM TypeCorrect == Spec => []TypeOK
  <1>1. IInv => TypeOK
    BY DEF IInv, TypeInv
  <1> QED BY <1>1, Invariance, PTL

(* However often and wherever it was reset, the unit resets itself only     *)
(* when the master has asked for it since (main.c:93-96, modbus.c:219).   *)
THEOREM ResetsAreRequested == Spec => []ResetOnlyOnRequest
  <1>1. IInv => ResetOnlyOnRequest
    BY DEF IInv, RequestIsNew, ResetOnlyOnRequest, LoopPoints
  <1> QED BY <1>1, Invariance, PTL

(* A power failure between any two page writes of the first start leaves no *)
(* unit that runs with blank registers (modbus.c:210-277, env.c).           *)
THEOREM NeverRunsBlank == Spec => []PowerOnIsConfigured
  <1>1. IInv => PowerOnIsConfigured
    BY DEF IInv, PowerOnSet, PowerOnIsConfigured, Running
  <1> QED BY <1>1, Invariance, PTL

(* Orderly resets lose neither the operating minutes nor a register that    *)
(* modbus_init restores (modbus.c:210-277, watchdog.h:43-49).              *)
THEOREM OrderlyResetsKeepState == Spec => OrderlyResetKeepsState
  <1> DEFINE Finds == pc = "modbus_init" /\ pc' \in {"store", "do_env"} /\ before.promised =>
                        /\ operating_minutes' = before.minutes
                        /\ \A r \in Restored : SoftReset => holding_regs'[r] = before.regs[r]
                        /\ \A r \in Kept : before.first # 0 => holding_regs'[r] = before.regs[r]
  <1>1. ASSUME IInv, modbus_init PROVE Finds
    <2> SUFFICES ASSUME before.promised
                 PROVE  /\ operating_minutes' = before.minutes
                        /\ \A r \in Restored : SoftReset => holding_regs'[r] = before.regs[r]
                        /\ \A r \in Kept : before.first # 0 => holding_regs'[r] = before.regs[r]
      OBVIOUS
    <2>1. ValuesAssumption
      BY ValuesAssumption
    <2>2. /\ before.minutes = SavedMinutes
          /\ \A r \in Restored : before.regs[r] = eeprom[r]
          /\ before.first # 0 => \/ eeprom["first_start_done"] \notin {0, Blank}
                                 \/ \A r \in Kept : before.regs[r] = Configured
      BY <1>1 DEF IInv, PromiseSaved
    <2>3. Kept \subseteq Restored
      BY DEF Kept, Restored
    <2>4. operating_minutes' = before.minutes
      BY <1>1, <2>1, <2>2, InitValues
    <2>5. CASE SoftReset
      <3>1. holding_regs' = ClearRequests(Saved)
        BY <1>1, <2>5 DEF modbus_init
      <3> QED BY <1>1, <2>1, <2>2, <2>3, <2>4, <3>1, InitValues
    <2>6. CASE ~SoftReset
      <3>1. holding_regs' = PowerOnValues
        BY <1>1, <2>6 DEF modbus_init
      <3> QED BY <1>1, <2>1, <2>2, <2>3, <2>4, <2>6, <3>1, InitValues
    <2> QED BY <2>5, <2>6
  <1>2. ASSUME IInv, [Next]_vars PROVE [Finds]_vars
    <2>1. pc = "modbus_init" /\ pc' \in {"store", "do_env"} /\ ~UNCHANGED vars => modbus_init
      BY <1>2 DEF Next, Main, env_init, StoreRegisters, do_env, env_reset, CliReset,
                  update_operating_hours, WriteRegister, Dispatch, SoftwareReset, NoSoftwareReset,
                  WatchdogReset, BrownOut, PowerLoss, Restart, SYSTEM_RESET, Running, LoopPoints
    <2> QED BY <1>1, <1>2, <2>1
  <1>3. IInv /\ [Next]_vars => [Finds]_vars
    BY <1>2
  <1> QED BY <1>3, Invariance, PTL DEF Spec, OrderlyResetKeepsState

-----------------------------------------------------------------------------
(* HoldingStore keeps to EepromStore.                                       *)

(* A page that only the cache has is in the cache.                          *)
HomelessIsCached == homeless => cached # 0

LossOfCache == ~homeless /\ eeprom' = store /\ cached' = 0 /\ UNCHANGED <<store, homeless>>

(* All that a step does with the EEPROM.                                    *)
LEMMA EepromSteps ==
  ASSUME ValuesAssumption, BoundsAssumption, IInv, [Next]_vars
  PROVE  \/ Commit \/ LossOfCache \/ UNCHANGED eepromVars
         \/ \E v \in Nat : WriteEnv(v)
         \/ \E p \in {1, 4, 5}, new \in Contents : WritePage(p, new)
  <1>0. EepromType /\ holding_regs \in [Regs -> Nat]
        /\ operating_minutes \in Nat /\ first_start_done \in Nat
    BY DEF IInv, TypeInv, TypeOK, EepromType
  <1>1. CASE CliReset \/ SoftwareReset \/ WatchdogReset \/ BrownOut
    BY <1>1 DEF CliReset, SoftwareReset, SYSTEM_RESET, WatchdogReset, BrownOut
  <1>2. CASE PowerLoss
    BY <1>2 DEF PowerLoss, LossOfCache
  <1>3. CASE env_reset \/ env_init \/ do_env
    BY <1>0, <1>3 DEF env_reset, env_init, do_env, ValuesAssumption
  <1>4. CASE modbus_init \/ NoSoftwareReset \/ UNCHANGED vars
    BY <1>4 DEF modbus_init, NoSoftwareReset, vars, eepromVars
  <1>5. CASE StoreRegisters
    <2> DEFINE new == [c \in Cells |-> IF c \in Regs THEN holding_regs[c] ELSE eeprom[c]]
    <2>1. new \in Contents
      BY <1>0 DEF EepromType, Contents
    <2>2. NextPage[stored] \in {1, 4, 5}
      BY DEF NextPage, IInv, TypeInv, TypeOK
    <2>3. WritePage(NextPage[stored], new)
      BY <1>5 DEF StoreRegisters
    <2> QED BY <2>1, <2>2, <2>3
  <1>6. CASE update_operating_hours
    <2> DEFINE new == [eeprom EXCEPT !["operating_minutes"] = operating_minutes + 1]
    <2>1. new \in Contents
      <3>1. operating_minutes + 1 \in Nat
        BY <1>0
      <3> QED BY <1>0, <3>1 DEF EepromType, Contents
    <2>2. WritePage(5, new) \/ UNCHANGED eepromVars
      BY <1>6 DEF update_operating_hours
    <2> HIDE DEF new
    <2> QED BY <2>1, <2>2
  <1>7. ASSUME NEW r \in Regs, NEW v \in Nat, modbus_set_holding_reg(r, v)
        PROVE  \/ UNCHANGED eepromVars
               \/ \E p \in {1, 4, 5}, new \in Contents : WritePage(p, new)
    <2> DEFINE new == [eeprom EXCEPT ![r] = v]
    <2>1. new \in Contents
      BY <1>0 DEF EepromType, Contents
    <2>2. WritePage(Page[r], new) \/ UNCHANGED eepromVars
      BY <1>7 DEF modbus_set_holding_reg
    <2> QED BY <2>1, <2>2, Pages
  <1>8. CASE WriteRegister
    <2>1. PICK r \in Regs : \E v \in Written[r] : modbus_set_holding_reg(r, v)
      BY <1>8 DEF WriteRegister
    <2>2. PICK v \in Written[r] : modbus_set_holding_reg(r, v)
      BY <2>1
    <2>3. v \in Nat
      BY DEF ValuesAssumption
    <2> QED BY <1>7, <2>2, <2>3
  <1>9. CASE Dispatch
    <2>1. "UPGRADE_FUNCTION" \in Regs /\ 0 \in Nat
      BY DEF Regs
    <2>2. modbus_set_holding_reg("UPGRADE_FUNCTION", 0) \/ UNCHANGED eepromVars
      BY <1>9 DEF Dispatch
    <2> QED BY <1>7, <2>1, <2>2
  <1> QED BY <1>1, <1>2, <1>3, <1>4, <1>5, <1>6, <1>8, <1>9 DEF Next, Main

LEMMA HomelessStep ==
  ASSUME ValuesAssumption, BoundsAssumption, IInv, HomelessIsCached, [Next]_vars
  PROVE  HomelessIsCached'
  <1>1. CASE Commit \/ LossOfCache \/ UNCHANGED eepromVars
    BY <1>1 DEF Commit, LossOfCache, eepromVars, HomelessIsCached
  <1>2. ASSUME NEW v \in Nat, WriteEnv(v) PROVE HomelessIsCached'
    BY <1>2 DEF WriteEnv, HomelessIsCached
  <1>3. ASSUME NEW p \in {1, 4, 5}, NEW new \in Contents, WritePage(p, new) PROVE HomelessIsCached'
    <2>1. Second(p) # 0
      BY DEF Second
    <2> QED BY <1>3, <2>1 DEF WritePage, HomelessIsCached
  <1> QED BY <1>1, <1>2, <1>3, EepromSteps

(* The content of a page, whatever the others hold.                         *)
LEMMA ByPageType ==
  ASSUME NEW x \in Contents
  PROVE  ByPage(x) \in [0 .. NumPages - 1 -> Contents]
  BY DEF ByPage, Contents

LEMMA OtherPagesSame ==
  ASSUME NEW x \in Contents, NEW y \in Contents, NEW p \in 0 .. NumPages - 1,
         \A c \in Cells : Page[c] # p => x[c] = y[c]
  PROVE  /\ ByPage(y) = [ByPage(x) EXCEPT ![p] = ByPage(y)[p]]
         /\ \A g : [ByPage(x) EXCEPT ![p] = g] = [ByPage(y) EXCEPT ![p] = g]
  <1>1. \A q \in 0 .. NumPages - 1 : q # p => ByPage(x)[q] = ByPage(y)[q]
    BY DEF ByPage
  <1>2. /\ ByPage(x) = [q \in 0 .. NumPages - 1 |-> ByPage(x)[q]]
        /\ ByPage(y) = [q \in 0 .. NumPages - 1 |-> ByPage(y)[q]]
    BY DEF ByPage
  <1> QED BY <1>1, <1>2

AbsStore == IF homeless THEN [ByPage(store) EXCEPT ![cached] = << >>] ELSE ByPage(store)
AbsCached == IF cached = 0 THEN NumPages ELSE cached

LEMMA InitRefines == ASSUME ValuesAssumption, Init PROVE Promise!Init
  <1>1. eeprom \in Contents /\ store = eeprom /\ cached = 0 /\ homeless = FALSE
    BY DEF ValuesAssumption, Init, Contents
  <1> QED BY <1>1, ByPageType DEF Promise!Init, Promise!Pages, Promise!NoPage

LEMMA StepRefines ==
  ASSUME ValuesAssumption, BoundsAssumption, IInv, HomelessIsCached, [Next]_vars
  PROVE  [Promise!Next]_(Promise!vars)
  <1> DEFINE Bar(p) == ByPage(eeprom')[p]
  <1>0. /\ EepromType /\ EepromType'
        /\ eeprom \in Contents /\ eeprom' \in Contents /\ store' \in Contents
    BY IInvStep DEF IInv, TypeInv, TypeOK, EepromType
  <1>1. /\ ByPage(eeprom)' = ByPage(eeprom') /\ ByPage(store)' = ByPage(store')
        /\ \A p \in 0 .. NumPages - 1 : Bar(p) \in Contents
    BY <1>0, ByPageType DEF ByPage, EepromType
  <1>2. CASE UNCHANGED eepromVars
    BY <1>2 DEF eepromVars, Promise!vars, ByPage
  <1>3. CASE Commit
    <2>1. store' = eeprom /\ eeprom' = eeprom /\ cached' = 0 /\ homeless' = FALSE
      BY <1>3 DEF Commit
    <2>2. Promise!Commit
      BY <1>1, <2>1 DEF Promise!Commit, Promise!NoPage
    <2> QED BY <2>2 DEF Promise!Next
  <1>4. CASE LossOfCache
    <2>1. ~homeless /\ ~homeless' /\ store' = store /\ eeprom' = store /\ cached' = 0
      BY <1>4 DEF LossOfCache
    <2>2. ByPage(store) \in [0 .. NumPages - 1 -> Contents]
      BY <1>0, ByPageType DEF EepromType
    <2>3. Promise!Loss
      BY <1>1, <2>1, <2>2 DEF Promise!Loss, Promise!NoPage, Promise!Pages
    <2> QED BY <2>3 DEF Promise!Next
  <1>5. ASSUME NEW v \in Nat, WriteEnv(v) PROVE Promise!Next
    <2>1. store' = eeprom' /\ cached' = 0 /\ homeless' = FALSE
          /\ \A c \in Cells : Page[c] # 6 => eeprom[c] = eeprom'[c]
      BY <1>0, <1>5, WriteEnvStep, Pages DEF WriteEnv
    <2>2. 6 \in 0 .. NumPages - 1
      BY DEF NumPages
    <2>3. ByPage(eeprom') = [ByPage(eeprom) EXCEPT ![6] = Bar(6)]
      BY <1>0, <2>1, <2>2, OtherPagesSame
    <2>4. Promise!WriteThrough(6, Bar(6))
      BY <1>1, <2>1, <2>3 DEF Promise!WriteThrough, Promise!NoPage
    <2> QED BY <1>1, <2>2, <2>4 DEF Promise!Next, Promise!Write, Promise!Pages
  <1>6. ASSUME NEW p \in {1, 4, 5}, NEW new \in Contents, WritePage(p, new) PROVE Promise!Next
    <2>1. \A c \in Cells : Page[c] # p => eeprom[c] = eeprom'[c]
      BY <1>0, <1>6, WritePageStep
    <2>2. p \in 0 .. NumPages - 1 /\ p # NumPages
      BY DEF NumPages
    <2>3. ByPage(eeprom') = [ByPage(eeprom) EXCEPT ![p] = Bar(p)]
      BY <1>0, <2>1, <2>2, OtherPagesSame
    <2>4. CASE /\ store' = IF cached \in {0, p} THEN store ELSE eeprom
               /\ cached' = p
               /\ homeless' = (homeless /\ cached = p)
      <3>1. AbsStore' = IF AbsCached \in {NumPages, p} THEN AbsStore ELSE ByPage(eeprom)
        <4>1. CASE cached = 0
          BY <1>1, <2>4, <4>1 DEF AbsStore, AbsCached, HomelessIsCached
        <4>2. CASE cached = p
          BY <1>1, <2>4, <4>2 DEF AbsStore, AbsCached
        <4>3. CASE cached \notin {0, p}
          <5>1. cached # NumPages
            BY <1>0 DEF EepromType, NumPages
          <5> QED BY <1>1, <2>4, <4>3, <5>1 DEF AbsStore, AbsCached
        <4> QED BY <4>1, <4>2, <4>3
      <3>2. AbsCached' = p
        BY <2>2, <2>4 DEF AbsCached
      <3>3. Promise!WriteCached(p, Bar(p))
        BY <1>1, <2>3, <3>1, <3>2 DEF Promise!WriteCached, Promise!NoPage, AbsStore, AbsCached
      <3> QED BY <1>1, <2>2, <3>3 DEF Promise!Next, Promise!Write, Promise!Pages
    <2>5. CASE /\ cached # p
               /\ store' = [c \in Cells |-> IF Page[c] = Second(p) THEN eeprom[c] ELSE eeprom'[c]]
               /\ cached' = Second(p)
               /\ homeless' = TRUE
      <3>1. Second(p) \in {1, 5} /\ Second(p) \in 0 .. NumPages - 1
        BY DEF Second, NumPages
      <3>2. \A c \in Cells : Page[c] # Second(p) => eeprom'[c] = store'[c]
        BY <2>5
      <3>3. AbsStore' = [ByPage(eeprom') EXCEPT ![Second(p)] = << >>]
        BY <1>0, <1>1, <2>5, <3>1, <3>2, OtherPagesSame DEF AbsStore
      <3>4. AbsCached # p /\ AbsCached' = Second(p)
        BY <2>2, <2>5, <3>1 DEF AbsCached
      <3>5. Promise!WriteMoving(p, Bar(p))
        BY <1>1, <2>3, <3>3, <3>4 DEF Promise!WriteMoving, Promise!Second, Second, AbsStore, AbsCached
      <3> QED BY <1>1, <2>2, <3>5 DEF Promise!Next, Promise!Write, Promise!Pages
    <2> QED BY <1>6, <2>4, <2>5 DEF WritePage
  <1> QED BY <1>2, <1>3, <1>4, <1>5, <1>6, EepromSteps

(* Start-up, requests, minutes, the environment and every reset do with the *)
(* EEPROM only what EepromStore allows: HoldingStore may be read with the   *)
(* emulator in place of its EEPROM (eeprom_driver.c:67-81).                 *)
THEOREM UsesEepromStore == Spec => KeepsToEepromStore
  <1>1. Init => HomelessIsCached
    BY DEF Init, HomelessIsCached
  <1>2. IInv /\ HomelessIsCached /\ [Next]_vars => HomelessIsCached'
    BY ValuesAssumption, BoundsAssumption, HomelessStep
  <1>3. Init => Promise!Init
    BY ValuesAssumption, InitRefines
  <1>4. IInv /\ HomelessIsCached /\ [Next]_vars => [Promise!Next]_(Promise!vars)
    BY ValuesAssumption, BoundsAssumption, StepRefines
  <1> QED BY <1>1, <1>2, <1>3, <1>4, Invariance, PTL DEF Spec, KeepsToEepromStore, Promise!Spec
=============================================================================
