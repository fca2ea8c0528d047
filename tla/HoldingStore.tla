---------------------------- MODULE HoldingStore ----------------------------
(***************************************************************************)
(* Persistence of the holding registers, the operating minutes and the     *)
(* environment (modbus.c, env.c, eeprom_driver.c, watchdog.c, main.c).     *)
(*                                                                         *)
(* The emulated EEPROM is durable except for the one page in its cache:    *)
(* writing another page commits the cached one, and so do a brown-out, the *)
(* early warning of the hardware watchdog, SYSTEM_RESET and every write    *)
(* outside the holding area.  Any other loss of power drops the cache.     *)
(* Programming a page of the EEPROM is atomic.  A write to a full row of   *)
(* the EEPROM moves the row and leaves one of its pages in the cache only; *)
(* what a loss of power does then is the subject of EepromEmulator.        *)
(*                                                                         *)
(* Of the 144 holding registers the model keeps one of each kind: what     *)
(* modbus_init does with it, and the page it is stored in.                 *)
(***************************************************************************)
EXTENDS Integers

CONSTANTS
  Blank,         \* content of a formatted EEPROM: 0xFFFF in a register
  Configured,    \* reset value of the registers that the master may change
  Written,       \* the values that a request writes to each register
  MaxMinutes,    \* bound: operating minutes
  MaxResets      \* bound: resets

(* Restored by modbus_init after a watchdog or software reset.              *)
Restored == {"PRECONFIG_FAN_REQUEST", "FAN_REQUEST", "MODBUS_DEAD_TIME"}
(* Kept over a power cycle as well, once the first start is done.           *)
Kept == {"PRECONFIG_FAN_REQUEST", "MODBUS_DEAD_TIME"}
Regs == Restored \cup {"SOFTWARE_RESET", "UPGRADE_FUNCTION"}
Cells == Regs \cup {"operating_minutes", "first_start_done"}

ASSUME ValuesAssumption ==
  /\ Configured \in Nat /\ Blank \in Nat \ {0, 1, Configured}
  /\ Written \in [Regs -> SUBSET (Nat \ {Blank})]
ASSUME BoundsAssumption == MaxMinutes \in Nat /\ MaxMinutes < Blank /\ MaxResets \in Nat

(* The EEPROM page of a cell.                                               *)
Page == [c \in Cells |->
  CASE c \in {"PRECONFIG_FAN_REQUEST", "FAN_REQUEST"} -> 1
    [] c \in {"MODBUS_DEAD_TIME", "SOFTWARE_RESET"} -> 4
    [] c \in {"UPGRADE_FUNCTION", "operating_minutes"} -> 5
    [] c = "first_start_done" -> 6]

(* A row holds an even page and the next one; that one is moved last.       *)
Second(p) == IF p % 2 = 0 THEN p + 1 ELSE p

(* The pages that modbus_init writes, in order.                             *)
NextPage == [p \in {0, 1, 4} |-> CASE p = 0 -> 1 [] p = 1 -> 4 [] p = 4 -> 5]

BootPoints == {"env_init", "modbus_init", "store"}
LoopPoints == {"do_env", "do_cli", "frame", "reset_check"}

VARIABLES
  pc,
  cause,        \* of the last reset, as system_get_reset_cause tells it
  store,        \* the EEPROM, without its cache
  eeprom,       \* the EEPROM as it is read, through its cache
  cached,       \* the page in the cache, or 0
  homeless,     \* the EEPROM holds no older copy of the cached page
  stored,       \* the last page that modbus_init has written, or 0
  holding_regs,
  operating_minutes,
  first_start_done, env_dirty,
  asked,        \* history: SOFTWARE_RESET has been written since the reset
  before,       \* history: the state that the last reset has to keep, if any
  resets

eepromVars == <<store, eeprom, cached, homeless>>
ramVars == <<holding_regs, operating_minutes, first_start_done, env_dirty, asked>>
historyVars == <<before, resets>>
vars == <<pc, cause, eepromVars, stored, ramVars, historyVars>>

Contents == [Cells -> Nat]
NoPromise == [promised |-> FALSE]

Init ==
  /\ pc = "env_init"
  /\ cause \in {"POR", "SOFTWARE"}
  /\ store = [c \in Cells |-> Blank] /\ eeprom = store /\ cached = 0 /\ homeless = FALSE
  /\ stored = 0
  /\ holding_regs = [r \in Regs |-> 0] /\ operating_minutes = 0
  /\ first_start_done = 0 /\ env_dirty = FALSE
  /\ asked = FALSE
  /\ before = NoPromise
  /\ resets = 0

-----------------------------------------------------------------------------
(* The emulated EEPROM.                                                     *)

Commit == store' = eeprom /\ cached' = 0 /\ homeless' = FALSE /\ UNCHANGED eeprom

(* Mutant: the page in the cache is replaced without being committed.       *)
WritePageDropping(p, new) ==
  /\ eeprom' = [c \in Cells |-> IF Page[c] = p THEN new[c] ELSE store[c]]
  /\ cached' = p
  /\ homeless' = FALSE
  /\ UNCHANGED store

(* eeprom_write in the holding area: the cells of page p become new[c].     *)
(* The row of a page that is not in the cache may be full: it is moved.     *)
WritePage(p, new) ==
  /\ eeprom' = [c \in Cells |-> IF Page[c] = p THEN new[c] ELSE eeprom[c]]
  /\ \/ /\ store' = IF cached \in {0, p} THEN store ELSE eeprom
        /\ cached' = p
        /\ homeless' = (homeless /\ cached = p)
     \/ /\ cached # p
        /\ store' = [c \in Cells |-> IF Page[c] = Second(p) THEN eeprom[c] ELSE eeprom'[c]]
        /\ cached' = Second(p)
        /\ homeless' = TRUE

(* Mutant: the page that was in the cache is forgotten.                      *)
WriteEnvForgetting(v) ==
  /\ eeprom' = [eeprom EXCEPT !["first_start_done"] = v]
  /\ store' = [store EXCEPT !["first_start_done"] = v]
  /\ cached' = 0 /\ homeless' = FALSE

(* eeprom_write of the environment, which is committed immediately.         *)
WriteEnv(v) ==
  /\ eeprom' = [eeprom EXCEPT !["first_start_done"] = v]
  /\ store' = eeprom'
  /\ cached' = 0 /\ homeless' = FALSE

(* Written to the EEPROM when it changes, in a critical section.            *)
modbus_set_holding_reg(r, v) ==
  IF holding_regs[r] # v
  THEN /\ WritePage(Page[r], [eeprom EXCEPT ![r] = v])
       /\ holding_regs' = [holding_regs EXCEPT ![r] = v]
  ELSE UNCHANGED <<eepromVars, holding_regs>>

-----------------------------------------------------------------------------
(* Resets.                                                                  *)

(* RAM is gone; state is what this reset promises to keep.                  *)
Restart(c, state) ==
  /\ resets < MaxResets
  /\ resets' = resets + 1
  /\ pc' = "env_init"
  /\ cause' = c
  /\ stored' = 0
  /\ holding_regs' = [r \in Regs |-> 0] /\ operating_minutes' = 0
  /\ first_start_done' = 0 /\ env_dirty' = FALSE
  /\ asked' = FALSE
  /\ before' = state

Running == pc \in LoopPoints

Now == IF Running
       THEN [promised |-> TRUE, regs |-> holding_regs, minutes |-> operating_minutes,
             first |-> first_start_done]
       ELSE NoPromise

(* Mutant: the reset is not preceded by a commit.                           *)
ResetUncommitted ==
  /\ Restart("SOFTWARE", Now)
  /\ cached' = 0 /\ homeless' = FALSE /\ eeprom' = store /\ UNCHANGED store

(* The macro commits the cache before the reset.                            *)
SYSTEM_RESET == Commit /\ Restart("SOFTWARE", Now)

(* The main loop hangs: the early warning commits, then the WDT resets.     *)
WatchdogReset == Running /\ Commit /\ Restart("WDT", Now)

(* The supply voltage falls: the brown-out handler commits, and then the    *)
(* power fails or comes back.                                               *)
BrownOut ==
  /\ Commit
  /\ \/ Restart("POR", Now)
     \/ UNCHANGED <<pc, cause, stored, ramVars, historyVars>>

(* The reset pin, or a voltage that falls before the handler has run.       *)
PowerLoss ==
  /\ ~homeless
  /\ \E c \in {"POR", "EXT"} : Restart(c, NoPromise)
  /\ eeprom' = store /\ cached' = 0
  /\ UNCHANGED <<store, homeless>>

-----------------------------------------------------------------------------
(* Start-up.                                                                *)

(* A saved environment is restored, else the default one is saved.          *)
env_init ==
  /\ pc = "env_init"
  /\ pc' = "modbus_init"
  /\ IF eeprom["first_start_done"] = Blank
     THEN first_start_done' = 0 /\ WriteEnv(0)
     ELSE first_start_done' = eeprom["first_start_done"] /\ UNCHANGED eepromVars
  /\ UNCHANGED <<cause, stored, holding_regs, operating_minutes, env_dirty, asked, historyVars>>

SavedMinutes ==
  IF eeprom["operating_minutes"] = Blank THEN 0 ELSE eeprom["operating_minutes"]

(* What the EEPROM holds for each register.                                 *)
Saved == [r \in Regs |-> eeprom[r]]

ClearRequests(regs) == [regs EXCEPT !["SOFTWARE_RESET"] = 0, !["UPGRADE_FUNCTION"] = 0]

(* The reset values; a first start sets the configuration too.              *)
PowerOnValues ==
  LET config == IF first_start_done = 0
                THEN [r \in Regs |-> IF r \in Kept THEN Configured ELSE Saved[r]]
                ELSE Saved
  IN ClearRequests([config EXCEPT !["FAN_REQUEST"] = config["PRECONFIG_FAN_REQUEST"]])

SoftReset == cause \in {"WDT", "SOFTWARE"}

(* Mutant: SOFTWARE_RESET is restored with the others.                      *)
InitRestoringAll ==
  /\ pc = "modbus_init"
  /\ IF SoftReset
     THEN /\ holding_regs' = [Saved EXCEPT !["UPGRADE_FUNCTION"] = 0]
          /\ pc' = "do_env"
          /\ UNCHANGED <<first_start_done, env_dirty>>
     ELSE /\ holding_regs' = PowerOnValues
          /\ pc' = "store"
          /\ first_start_done' = IF first_start_done = 0 THEN 1 ELSE first_start_done
          /\ env_dirty' = (env_dirty \/ first_start_done = 0)
  /\ operating_minutes' = SavedMinutes
  /\ before' = NoPromise
  /\ UNCHANGED <<cause, eepromVars, stored, asked, resets>>

(* modbus_init up to the write of the registers to the EEPROM.              *)
modbus_init ==
  /\ pc = "modbus_init"
  /\ IF SoftReset
     THEN /\ holding_regs' = ClearRequests(Saved)
          /\ pc' = "do_env"
          /\ UNCHANGED <<first_start_done, env_dirty>>
     ELSE /\ holding_regs' = PowerOnValues
          /\ pc' = "store"
          /\ first_start_done' = IF first_start_done = 0 THEN 1 ELSE first_start_done
          /\ env_dirty' = (env_dirty \/ first_start_done = 0)
  /\ operating_minutes' = SavedMinutes
  /\ before' = NoPromise
  /\ UNCHANGED <<cause, eepromVars, stored, asked, resets>>

(* The registers that were set at power-on are written page by page; the    *)
(* operating minutes at the end of the last page are left alone.            *)
StoreRegisters ==
  /\ pc = "store"
  /\ LET p == NextPage[stored] IN
     /\ WritePage(p, [c \in Cells |-> IF c \in Regs THEN holding_regs[c] ELSE eeprom[c]])
     /\ stored' = IF p = 5 THEN 0 ELSE p
     /\ pc' = IF p = 5 THEN "do_env" ELSE pc
  /\ UNCHANGED <<cause, ramVars, historyVars>>

-----------------------------------------------------------------------------
(* The main loop.                                                           *)

(* A changed environment is saved.                                          *)
do_env ==
  /\ pc = "do_env"
  /\ pc' = "do_cli"
  /\ IF env_dirty THEN WriteEnv(first_start_done) ELSE UNCHANGED eepromVars
  /\ env_dirty' = FALSE
  /\ UNCHANGED <<cause, stored, holding_regs, operating_minutes, first_start_done, asked,
                 historyVars>>

(* The command env_reset: the saved environment loses its magic number.     *)
env_reset ==
  /\ pc = "do_cli"
  /\ WriteEnv(Blank)
  /\ Restart("SOFTWARE", [Now EXCEPT !.first = 0])

(* The command reset.                                                       *)
CliReset == pc = "do_cli" /\ SYSTEM_RESET

(* No such command, and a minute may have passed.                           *)
update_operating_hours ==
  /\ pc = "do_cli"
  /\ pc' = "frame"
  /\ \/ UNCHANGED <<eepromVars, operating_minutes>>
     \/ /\ operating_minutes < MaxMinutes
        /\ operating_minutes' = operating_minutes + 1
        /\ WritePage(5, [eeprom EXCEPT !["operating_minutes"] = operating_minutes + 1])
  /\ UNCHANGED <<cause, stored, holding_regs, first_start_done, env_dirty, asked, historyVars>>

(* A request, or the command holding_regs_write, sets registers in turn.    *)
WriteRegister ==
  /\ pc = "frame"
  /\ \E r \in Regs : \E v \in Written[r] :
       /\ modbus_set_holding_reg(r, v)
       /\ asked' = (asked \/ (r = "SOFTWARE_RESET" /\ v > 0))
  /\ UNCHANGED <<pc, cause, stored, operating_minutes, first_start_done, env_dirty, historyVars>>

(* All requests are done: UPGRADE_FUNCTION is cleared if upgrades are       *)
(* enabled.                                                                 *)
Dispatch ==
  /\ pc = "frame"
  /\ pc' = "reset_check"
  /\ \/ modbus_set_holding_reg("UPGRADE_FUNCTION", 0)
     \/ UNCHANGED <<eepromVars, holding_regs>>
  /\ UNCHANGED <<cause, stored, operating_minutes, first_start_done, env_dirty, asked,
                 historyVars>>

SoftwareReset ==
  /\ pc = "reset_check" /\ holding_regs["SOFTWARE_RESET"] > 0
  /\ SYSTEM_RESET

NoSoftwareReset ==
  /\ pc = "reset_check" /\ holding_regs["SOFTWARE_RESET"] = 0
  /\ pc' = "do_env"
  /\ UNCHANGED <<cause, eepromVars, stored, ramVars, historyVars>>

Main == \/ env_init \/ modbus_init \/ StoreRegisters
        \/ do_env \/ env_reset \/ CliReset \/ update_operating_hours
        \/ WriteRegister \/ Dispatch \/ SoftwareReset \/ NoSoftwareReset

Next == Main \/ WatchdogReset \/ BrownOut \/ PowerLoss

Spec == Init /\ [][Next]_vars

-----------------------------------------------------------------------------
(* Properties.                                                              *)

(* Every variable has its type, and a page that is not in the cache is in   *)
(* the EEPROM as it is read.                                                *)
TypeOK ==
  /\ pc \in BootPoints \cup LoopPoints
  /\ cause \in {"POR", "EXT", "SOFTWARE", "WDT"}
  /\ store \in Contents /\ eeprom \in Contents
  /\ cached \in {0, 1, 4, 5} /\ homeless \in BOOLEAN /\ stored \in {0, 1, 4}
  /\ \A c \in Cells : Page[c] # cached => store[c] = eeprom[c]
  /\ holding_regs \in [Regs -> Nat] /\ operating_minutes \in Nat
  /\ first_start_done \in Nat /\ env_dirty \in BOOLEAN /\ asked \in BOOLEAN
  /\ resets \in Nat

(* modbus_init after a reset that promises to keep the state (software,     *)
(* watchdog, or a brown-out whose handler has run) finds the operating      *)
(* minutes and every register it restores as they were, wherever the reset  *)
(* came and whichever pages were in the cache.                              *)
OrderlyResetKeepsState ==
  [][pc = "modbus_init" /\ pc' \in {"store", "do_env"} /\ before.promised =>
       /\ operating_minutes' = before.minutes
       /\ \A r \in Restored : SoftReset => holding_regs'[r] = before.regs[r]
       /\ \A r \in Kept : before.first # 0 => holding_regs'[r] = before.regs[r]]_vars

(* Whatever was interrupted before, a unit that was switched on runs with a *)
(* complete configuration, never with the content of a blank EEPROM: power  *)
(* may fail between any two page writes, so first_start_done, which stops   *)
(* modbus_init from setting the registers, must not get there before them.  *)
PowerOnIsConfigured ==
  Running /\ ~SoftReset => \A r \in Regs : holding_regs[r] # Blank

(* The unit only resets itself when the master has asked for it since the   *)
(* last reset, though the request stays in the EEPROM: no endless resets.   *)
ResetOnlyOnRequest ==
  pc = "reset_check" /\ holding_regs["SOFTWARE_RESET"] > 0 => asked

(* The EEPROM of this module, by its pages, with 0 for the cells elsewhere; *)
(* the cached page has no durable content while it is homeless.             *)
NumPages == 8
ByPage(contents) ==
  [p \in 0 .. NumPages - 1 |-> [c \in Cells |-> IF Page[c] = p THEN contents[c] ELSE 0]]
Promise == INSTANCE EepromStore WITH
  Data <- Contents,
  Gone <- << >>,
  store <- IF homeless THEN [ByPage(store) EXCEPT ![cached] = << >>] ELSE ByPage(store),
  eeprom <- ByPage(eeprom),
  cached <- IF cached = 0 THEN NumPages ELSE cached

(* What start-up, requests, the minutes, the environment and every reset do *)
(* with the EEPROM is what the emulator promises, which EepromEmulator is   *)
(* shown to keep (eeprom_driver.c:67-81 over eeprom.c).                    *)
KeepsToEepromStore == Promise!Spec
=============================================================================
