# Fan module controller: TLA+ models, model checking and proofs

This directory holds a formal model of the firmware in `src/FanModuleController`
(a SAM D20 controller for a fan module: MODBUS RTU slave, fan control and speed
measurement, I2C sensors, persistent registers, console, firmware upgrade
through an SPI flash and a boot loader). It says what the parts of the firmware
do, checks them on small instances with TLC and proves the most important facts
for every instance with TLAPS.

Paths are relative to `src/FanModuleController/src/`; `eeprom.c` is
`ASF/sam0/services/eeprom/emulator/main_array/eeprom.c`,
`i2c_master_interrupt.c` and `usart_interrupt.c` are the drivers under
`ASF/sam0/drivers/sercom`.

## 1. The system

One processor, no operating system. `main.c` initialises the modules and then
calls `do_env`, `do_heartbeat`, `do_fan`, `do_i2c_local`, `do_cli`, `do_modbus`,
`do_alarms`, `do_led` in a loop, resets the watchdog and tests the register
SOFTWARE_RESET. All concurrency is between this loop and interrupts, all of the
same priority, between the program and devices that work on their own (SPI
flash, I2C bus, timers), and between the program and its resets.

| Component | State | Operations | Interacts with | Correct if |
|---|---|---|---|---|
| MODBUS framing (`modbus.c`, `uart.c`) | `rtu_buf`, `rtu_ptr`, `frame_len`, silence timer | receive interrupt, timer interrupt, `do_modbus`, `modbus_parse_frame`, `modbus_send_response` | the three share the buffer without a lock; `frame_len` hands it over | only intact frames for this slave are executed, in order, once; replies are not torn; the buffer is always released; the silence separates the frames |
| MODBUS requests and registers (`modbus.c`) | `holding_regs`, `input_regs`, `discrete_inputs` | the eight functions, upgrade data | EEPROM, upgrade, fan, the tachometer's interrupt | registers change as the request says, a refused one changes nothing; the reply is the one it deserves |
| MODBUS watchdog (`modbus.c`, `fan.c`, `led.c`) | `last_modbus_watchdog_period`, `modbus_watchdog_triggered` | reset by an accepted frame, triggered by the dead time | fan falls back to PRECONFIG_FAN_REQUEST, red LED blinks | noise does not feed it; a lost master is noticed, neither too early nor too late |
| Persistence (`modbus.c`, `env.c`, `eeprom_driver.c`) | registers, operating minutes and environment in the EEPROM | `modbus_init`, `modbus_set_holding_reg`, `update_operating_hours`, `env_init`, `do_env`, `env_reset` | EEPROM emulator, reset causes | orderly resets lose nothing; a unit that is switched on is configured; no endless resets |
| EEPROM emulator (`eeprom.c`) | flash rows, `page_map`, `spare_row`, `cache`, NVM page buffer | init, format, read, write, commit, row move | brown-out and watchdog interrupts commit the cache | pages read as written; only the cached page is lost when power fails |
| Reset and hardware watchdog (`watchdog.[ch]`, `eeprom_driver.c`) | WDT, BOD33 | early warning, brown-out, `SYSTEM_RESET` | EEPROM commit | the cache is committed before each orderly reset |
| Firmware upgrade (`upgrade.c`, `modbus.c`, `cli.c`) | SPI flash, `last_addr`, UPGRADE_STATUS, `upgrade_mode` | prepare, write data, verify, activate; IHEX on the console | two front ends share the flash | the header only ever names a complete image, as long as the erase of an earlier one is not ignored |
| Boot loader (`bootloader.c`, `upgrade.c`) | program memory | verify, erase, copy, clear header, jump | header in the SPI flash | a complete firmware always remains; an activated image gets to run |
| SPI flash driver (`spi_flash.c`) | the device, which is busy on its own | read, program, erase, status | upgrade, console | a call changes its range and nothing else; confirmed data is in place, also when a poll gives up |
| Console (`cli.c`) | line, `upgrade_mode`, `ihex_upper` | line editor, commands, IHEX records | environment, registers, upgrade | the terminal shows the line; only what the file holds is programmed |
| UART and ring buffer (`uart.c`, `ring_buffer.h`, `usart_interrupt.c`) | receive buffer of the SERCOM, `head`, `tail` | interrupt handler, callback, `uart_gets` | console | a bounded queue: no character reordered or doubled; the receiver never stops |
| Fan (`fan.c`) | duty cycle, frequency, tacho counters | ramp, change of the frequency, measurement, two interrupts | registers, MODBUS watchdog | the duty settles at the request; the speed counts one window; a standing fan is reported |
| I2C sensors (`i2c_local.c`, `i2c_master_interrupt.c`) | the round, completion flags, the driver's job | waiting reads and writes, interrupt handler | input registers, alarm | while no call has given up, a completion is not taken for another job's; a sensor that answers again is no longer broken |
| Alarm and LED (`alarm.c`, `led.c`) | periods, toggle values | polled | registers, watchdog, broken flags | outputs follow the state in time |
| System timer, heartbeat (`sys_timer.c`, `heartbeat.c`) | `jiffies` | tick | every period | periods survive the wrap |
| Checksums (`crc.c`, `modbus.c`) | none | two CRC functions, three checks | frames, images, environment | exactly what is intact is accepted |
| Fuses, ASF | user row, vendored drivers | one-time programming | | external |

What is hard in this code, line by line, is the list `hazards` of
`PROJECT.json`; the properties below are named there. In short: interrupts
between the steps of a request that is checked, executed and answered in one
shared buffer; bytes lost, merged or split by the line; jobs that end before
or after the moment their caller looks; polls that give up while a device goes
on; resets and loss of power between any two writes of the EEPROM or the flash;
a cached page that is committed by an interrupt; two front ends of one upgrade;
a counter that wraps under every period.

## 2. Modules

| Module | Models | Checked by | Proved in |
|---|---|---|---|
| `ModbusRtu` | framing of the MODBUS line | `MCModbusRtu` | `ModbusRtuProofs` |
| `ModbusRequests` | the requests, decoded, executed and answered in one buffer | `MCSerial`, through `SerialLines` | `SerialLinesProofs` |
| `BaudRate` | baud rate, silence timer, refused rates | `MCSerial`, through `SerialLines` | `SerialLinesProofs` |
| `UartReceive` | receive path of the console | `MCSerial`, through `SerialLines` | `SerialLinesProofs` |
| `SerialLines` | both lines: receiver, rates and requests next to each other | `MCSerial` | `SerialLinesProofs` |
| `BoundedQueue` | what that path promises (abstract) | through `UartReceive` | through `SerialLinesProofs` |
| `Checksums` | both CRCs, bit by bit, and the checks | `MCSerial` | |
| `HoldingStore` | registers, minutes and environment over the EEPROM, with resets | `MCHoldingStore` | `HoldingStoreProofs` |
| `EepromStore` | what the EEPROM emulator promises (abstract) | through `EepromEmulator` and `HoldingStore` | through `EepromEmulatorProofs` and `HoldingStoreProofs` |
| `EepromEmulator` | the EEPROM emulator | `MCEepromEmulator` | `EepromEmulatorProofs` |
| `FirmwareUpgrade` | upgrade, SPI flash, boot loader, with resets | `MCFirmwareUpgrade`, `MCUpgrade` | `FirmwareUpgradeProofs` |
| `SpiFlash` | the flash driver over a device that is busy, with the upload | `MCConsole`, `MCSpiFlash` | `FlashUseProofs` |
| `FlashUse` | its two uses, by an upload and by the development commands | `MCConsole` | `FlashUseProofs` |
| `Console` | line editor, commands, IHEX records | `MCConsole` | |
| `Fan` | ramp, periods, MODBUS watchdog | `MCFan` | `FanProofs` |
| `Tacho` | measurement of the speed | `MCPeripherals` | `PeripheralsProofs` |
| `Indicators` | alarm and LEDs | `MCPeripherals` | `PeripheralsProofs` |
| `I2cSensors` | sensors, driver and bus | `MCPeripherals` | `PeripheralsProofs` |
| `Peripherals` | the last three, put together | `MCPeripherals` | `PeripheralsProofs` |

Each module keeps the variables and functions of the code under their names.
`map` in `PROJECT.json` gives the lines of every definition. Operators that a
comment calls *Mutant* are variants with a plausible error; no specification
uses them, they show that each property can fail.

Two abstract specifications are implemented, in each case with the abstract
one as a property of the detailed one: `BoundedQueue` by `UartReceive`, and
`EepromStore` by `EepromEmulator`. `EepromStore` is also checked from above:
`HoldingStore`, the only client, does nothing with its EEPROM that
`EepromStore` does not allow, so the two models meet at the same contract.

The other interfaces are assumptions on one side that the other side checks:
`ModbusRtu`, `FirmwareUpgrade`, `Console` and `SpiFlash` take a checksum as
ideal (`Checksums` says for which errors it is); `ModbusRtu` takes the silence
for a free choice (`BaudRate` says that it separates frames); `Fan` takes a
valid frame for an event (`ModbusRtu` says that only valid frames count);
`Console` takes the device for one that succeeds or fails (`SpiFlash` says what
success means).

### ModbusRtu

The main loop is split at every point where an interrupt makes a difference:
the check of the dead time (`Housekeeping`), the test of `frame_len`
(`SampleFrameLen`), the length, address and CRC tests (`CheckFrame`), the
execution (`ExecuteRequest`), the reply composed in `rtu_buf`, which takes the
line while it is sent (`EnableDriver`, `SendReply`), and the release
(`ReleaseBuffer`). `LineStep` is the receive interrupt with whatever the line
delivers: the next character of the frame, a garbled one, or none.
`modbus_tc_callback` is the silence interrupt: it may come after any character,
also inside a frame whose characters are too far apart. Both interrupts have the
same priority and run to completion. `executed`, `reply`, `out` and `sealedFor`
are history variables.

A character is a record that says which frame it belongs to, its position, the
size of that frame and the value the address test reads. The CRC is ideal: it
accepts exactly an unmodified frame. The suppression of replies to broadcasts is
not in the module; the content of a request is abstract.

### ModbusRequests

One request at a time is decoded from `rtu_buf`, checked, executed on the
registers and answered in the bytes it was decoded from, one action for each
function of `modbus_parse_frame`. A reply of input registers is put together
register by register, since the tachometer's interrupt may write one of them
meanwhile. Bytes have W bits, so that the lengths, which are bytes, wrap where
they wrap in the code. `Power` is the table of the powers of two, and a bit is a
quotient by one of them modulo 2 (`BitOf`): the packed discrete inputs and the
masks are the numbers with the bits the code computes (`NumberOf`).

Requests are well formed (`WellFormed`): as long as their function and the
quantity of registers they write say. This is an assumption about the master and
not a test of the code; what the code does with a frame whose quantity
contradicts its length is outside. The quantity to be read is any, a byte count
inside a request may be wrong, and any address and quantity may lie outside its
table: these the code tests. What it does not test is whether the reply fits:
reads of 126 to 144 holding registers are accepted and answered past the end of
`rtu_buf`. `stray` says that an access has missed its array; what follows is
undefined, and the model ends there.

### BaudRate

`setenv` sets a rate, `do_modbus` applies it (UART and silence), `do_env` saves
it, in the order of the main loop. A rate the UART refuses hangs the loop until
the watchdog resets the unit. Time is in clocks of the timer and appears as the
distance of two characters, within a frame or between frames. The fill pointer
wraps at the end of the buffer, as `rtu_ptr`, a byte, does at 256.

### UartReceive and BoundedQueue

The two-level receive buffer of the SERCOM with its error flags, the branches of
the interrupt handler, the callback with `ring_put`, and `uart_gets` in the steps
of its critical section. The queue is the content of the ring buffer; a
character is put when the callback stores it and taken when `tail` moves.

### Checksums

Both CRC functions run bit by bit over frames, images (with the 16 zeros the
upgrade appends) and environments. Messages may have wrong bits; the reference
is the division of polynomials the sender makes.

### HoldingStore

Five of the 144 holding registers stand for the kinds that `modbus_init` treats
differently; with the operating minutes and `first_start_done` they lie on the
pages of the EEPROM where the code puts them. `store` is the EEPROM without its
cache, `eeprom` what a read returns. Start-up is cut at every page write. The
main loop is cut at each of the calls that write. A reset is orderly (the cache
is committed first: SYSTEM_RESET, early warning of the watchdog, brown-out) or
not (`PowerLoss`). Init has both causes of a first start: power-on, and the
software reset after `program_fuses`. A write may move a row (`homeless`); power
is not lost while a page is only in the cache, see EepromEmulator.

### EepromStore and EepromEmulator

`EepromEmulator` has the flash as an array of physical pages with headers, the
map, the spare row, the cache and the page buffer of the NVM controller.
`eeprom_emulator_write_page` is cut into the search for a free page
(`StartWrite`, which commits another cached page first), the copy into cache and
buffer (`FillPage`) and the change of the map (`ActivatePage`), or into the two
moves and the erase of a row move. A start is one action (`StartUp`): the check
for rows that begin with the same page, the map, the spare row, the master page,
and formatting if one is missing. That check is two nested loops in the code and
one condition for each row in the model (`Kept`); `MCEepromEmulator` has the loops
as well, and TLC finds both to agree on every flash of full, half full and empty
rows (`CheckAssumption`). Programming a page and erasing a row are atomic; a
page that is programmed twice holds `Garbage`.

`EepromStore` is the contract: pages, durable or cached. The refinement mapping
is at the end of `EepromEmulator`: a durable page is the last copy in the flash,
and while a row moves the abstract store is still the one before the move. Two
switches give the behaviours that break the contract: `LossInMove` (power is
lost while a page is only in the cache) and `Unguarded` (a write outside a
critical section).

### FirmwareUpgrade

`do_cli` and `do_modbus` alternate in the main loop; each handles one command,
IHEX record or frame. The flash and the program memory are arrays of pages; a
page holds a page of an image, is erased or is garbage. An erase or program
operation may be complete, fail or be cut short by a reset. The boot loader
erases by rows and copies by pages, with a reset between or inside any two. The
checksum is ideal; the header (8 bytes of one page) is programmed, and its block
erased, as a whole: a loss of power in the middle of it is not modelled.

A call that gives up, or that a reset cuts, may leave the device busy (`busy`)
until it is ready by itself (`Ready`). A busy device ignores the first command of
the next call, whose poll then succeeds (`EraseHeader`, `WriteData`, `Headers`),
answers no read (`Verified`), and is not detected when it is looked for
(`NotDetected`, `detected`). `ignored` remembers an erase of the header's block
by `upgrade_start` that was lost in this way. `SpiFlash` has the same in the
detail of commands and polls. `setenv disable_update_ability`
counts as saved at once, although `do_env` saves it a little later.

### SpiFlash and FlashUse

The device erases blocks and programs pages on its own and answers nothing but
its status meanwhile; the driver polls a limited number of times and then gives
up. Program splits a record into pages, erase steps by blocks. On top of it are
the calls of the upgrade (start, write, verify, activate) and the two
development commands of the console, one action for each point where the
device may become ready. Addresses have their width. A byte is the set of its
bits, so that programming without an erase leaves the AND. `FlashUse` has the
upload and the development commands as two behaviours, since a command of the
second kind writes over an image, and nothing is promised of an image then.
`SpiFlashAssumption` says what the calls may ask for: records of an image that
fits behind the header's block, data inside the device, and erasures that begin
with a block (see the observations below for others).

### Console

Keys of a user, then a HEX file that a host sends without waiting, over a line
that loses, changes or doubles a character. The line editor with its echo, the
split into words, the `upgrade` command and the records are modelled character
by character, over an alphabet of three digits instead of sixteen, so that a
byte has nine values; the offset in the image wraps as a `uint32_t` does.
`screen` is what the terminal shows. `unnoticed` remembers what nobody is told
of: a record whose line begins with a NUL (`cli.c:697`), and a line that was cut
at the end of the buffer and is a record all the same (`cli.c:759`).

### Fan

The main loop is cut at the tests of the two periods; `SysTick_Handler` may come
between any two steps, a valid frame (`FrameComes`) too. `set_pwm` is modelled
with its arithmetic in bytes: the target, the ramp by one, the cap. `silent`,
`sinceAdjust` and `passed` are history variables that count ticks up to a bound;
`silence` says that the last fall back came after a whole dead time.

### Tacho

A measurement clears the counter, starts the timer and registers the counting
interrupt, in separate steps; pulses come between any two. The timer's interrupt
ends it and computes the speed. `inWindow` and `early` are history variables:
pulses since the timer started, and those of them before the registration. The
result of the division by a register that is zero is left open.

### Indicators

`do_alarms` and `do_led`, each with its period on the wrapping counter. Other
parts of the loop set and clear the broken flags, the watchdog and the LED
registers in any pass. `green` and `red` are the pins, which are low active.

### I2cSensors

A round of `do_i2c_local` is a list of writes and reads to the two sensors. A
call starts a job, clears the completion flag behind it (the order of the code)
and polls. The driver has `buffer_length`, `buffer_remaining` and its status;
the interrupt handler is taken branch by branch. The bus acknowledges or refuses
each byte, and a slave may stretch the clock for whole periods of the poll. A
value is the set of the registers its bytes came from.

## 3. Runs

| Run | Question | Result |
|---|---|---|
| `rtu` | Is anything but an intact frame ever executed, executed twice or out of order, answered with a torn reply, or does it feed the watchdog? Is a frame received in one piece executed, and the buffer always released? | no; yes |
| `store_resets` | Do orderly resets keep the state, is a unit that was switched on configured, does it only reset itself on request, and does it keep to `EepromStore`? | yes |
| `eeprom_store` | Does the emulator keep its layout and implement its contract, with no commit inside a write, and power lost only while every page has a copy? | yes |
| `upgrade` | With one front end in use, and unless `upgrade_start` took the end of another command for its erase of the header: does the header tell the truth, does a firmware remain? Does an activated image get to run? | yes |
| `fan` | Does the fan fall back neither too early nor too late, keep its periods, and settle? | yes |
| `peripherals` | Are the speed, the alarm and the sensor values those of their own window, period and register; do faults show, and pass? | yes |
| `serial` | Is the console's input a bounded queue, does the silence separate frames, do the checksums accept exactly what is intact, do requests do what they ask, and do only reads that are too long leave the buffer? | yes |
| `console` | Is only the file programmed, is a clean upload activated, does the screen show the line; is the flash what its calls have promised? | yes |
| `upgrade_both` | Does the header tell the truth with both front ends at once? | no (finding) |
| `eeprom_loss` | Is a page safe if power is lost after a row has moved? | a page is lost (finding) |
| `eeprom_unguarded` | And if an interrupt commits in the middle of a write? | data is destroyed (finding) |
| `spi_start` | Has a start that succeeds erased the header, also after a call that gave up? | no (finding) |

`peripherals`, `serial`, `console` and `upgrade` put parts next to each other
that share no state their properties read: a behaviour is one of a single part,
chosen in the initial state, while the others stand. The state space is the sum
of the parts', not their product; nothing would be learned from interleaving
steps that touch different variables. Where parts do share state they are in one
module (the two front ends and the boot loader, the receive and timer interrupts
and the main loop, the counter and all that reads it in `Fan`).

Properties, and what they would catch:

- `RequestsAreWhole`, `RequestsInOrderOnce`, `RepliesAreUntorn`,
  `WatchdogFedByWholeFrames`: a missing test of `frame_len` in the receive
  interrupt, a fill pointer that is not reset, a release of the buffer too
  early, a watchdog fed before the CRC test. `ReceivedFrameIsExecuted`: an early
  return that forgets `frame_len`, a minimum length that rejects valid frames.
- `RegistersAsRequested`, `ReplyAnswersRequest`: a byte count or a range that is
  not tested, a reply put together over data not yet written, a pair of
  registers torn by the interrupt, firmware data confirmed but not written. They
  are about replies that fit. `OverrunOnlyByLongReads` says that nothing else
  leaves the buffer: a length that counts too much, an index that goes too far.
- `FramesAreSeparated`, `UnitComesBack`: a wrong unit of time, a silence that
  stays with the old rate, a refused rate saved before it is applied.
- `ImplementsQueue`, `ReceiverNeverStops`: an index used half updated, a flag
  of an error that is never cleared.
- `OnlyIntactIsAccepted`: a checksum that is not augmented, a shift in the
  wrong order.
- `OrderlyResetKeepsState`, `PowerOnIsConfigured`, `ResetOnlyOnRequest`,
  `KeepsToEepromStore`: a reset without a commit, a write that drops the cached
  page, `first_start_done` saved before the registers, SOFTWARE_RESET restored.
  `PowerOnIsConfigured` is about units that were switched on: the first start
  ends in a software reset (`program_fuses`), and until the next power cycle the
  unit then runs with the content of a blank EEPROM.
- `LayoutSound`, `ImplementsEepromStore`: a wrong copy taken for the newest, a
  cached page that is overwritten.
- `HeaderTellsTheTruth`, `FirmwareNeverLost`, `HangIsRetryable`,
  `ActivatedImageRuns`: a header erased last, a header cleared after a failed
  copy, loops by rows and by pages that do not end together. The first three are
  stated unless `ignored`: what happens otherwise is finding 4.
  `ActivatedImageRuns` is about boots that find the device ready and whose reads
  do not fail; a failed one is `HangIsRetryable`.
- `UploadIsInPlace`, `VerifiesExactlyTheImage`, `CallKeepsItsPromise`: an image
  at the wrong address, an end of the image taken from the last record instead
  of the highest address, a program operation that wraps in its page.
- `OnlyTheFileIsProgrammed`, `CompleteUploadIsActivated`, `LineIsShownAndSplit`:
  a record checksum that is not tested, records taken to come in order, an echo
  for a character that was not stored. `OnlyTheFileIsProgrammed` has two
  exceptions, which nobody is told of (`unnoticed`): behind a record that was
  skipped, the bytes of the file may go to other addresses, but only to those
  that a missed record of type 4 explains; and nothing is said after a line that
  was cut and accepted.
- `FallbackOnlyAfterSilence`, `FallbackInTime`, `AdjustKeepsPeriod`,
  `FanSettles`: a time-out that skips the waiting frame, a difference that is
  signed, a ramp that swings around its target.
- `CountsOneWindow`, `StoppedFanIsReported`: an interrupt that stays registered,
  a window without pulses that gives no result.
- `AlarmInTime`: a period that does not survive the wrap.
- `ReadIsFresh`, `InterruptIsServed`, `SensorsRecover`: a completion that counts
  for another job, a command put into the buffer too early, a job that is left
  unfinished or whose interrupt is taken for ever.

The type invariant `TypeOK` is checked for `ModbusRtu` and proved for every
module that has a module of proofs; in the others it tells what the variables
hold.

### Bounds

- `rtu`: a buffer of 6 slots, two frames (one of the minimum length, one that
  fills the buffer; without a silence between them two exceed it), one line
  fault. Two frames are enough for what goes wrong between a frame and the next
  one, the tail of a dropped frame included; the proofs remove these bounds.
- `store_resets`: one minute, three resets. A property relates the state before
  a reset and after it; a first start that is interrupted twice and then ends
  needs three.
- `eeprom_*`: four rows (two of data, the spare and the master row). Rows only
  interact through the spare row, so three that take turns show every order of a
  moved row and its copy in the flash. Neither writes nor losses of power are
  bounded.
- `upgrade*`: images of 2 and 3 pages in a memory of 3 or 4 with rows of 2, so
  one of them is not a multiple of a row; two resets and one read fault, with
  any number of operations that fail or leave the device busy. The safety results
  are proved without the bounds.
- `fan`: duty 0 to 3 and a byte of 8 values, so that a register is above the cap
  and above the byte; periods of 1 to 4 ticks on a counter of 7 values that
  wraps without end; one tick in a pass. Three settings differ in everything the
  code reads.
- `peripherals`: `Tacho` with a window of 3 ticks, up to two pulses a second,
  and a register of zero pulses; `Indicators` with one sensor, an alarm period
  of 2, and three LED modes; `I2cSensors` with one refused byte, one completion
  before the flag is cleared, and three stretched periods, which let a call give
  up and the next one begin. Two properties of the sensors are only stated while
  no transfer has outlasted the poll, as the code gives no such promise.
- `serial`: a ring of three slots and six characters, enough to go around it
  twice, one in error; six baud rates, one of them refused (a rate of 0, an
  undefined division, is not among them, nor one below 4700, see below); frames
  of five characters in a buffer of four, so that the fill pointer wraps; bytes
  of 4 bits and tables of 5 to 9 registers, so that some replies just fit the
  buffer, some without their CRC and some not at all, and requests around every
  boundary; messages of up to three bytes with any one or two wrong bits, or a
  burst of up to 16. The checksum of a saved
  environment arrives right: errors of data and checksum that cancel each other
  are not detected there, as the code does not append zeros.
- `console`: five keys; four files; one fault, which may be any character in the
  place of any other. The longest record that fits fills the buffer, as one of
  122 data bytes does in the code, so that one character more cuts it; among the
  files are one whose cut record has a right checksum by chance, one with a
  record of type 4, and one with a record that is too long. A device of 16 bytes,
  blocks of 4, pages of 2, three polls, an image of 6 bytes that ends inside a
  block.

`CHECK_DEADLOCK FALSE` is set where the system may stop: in `upgrade` a device
with an incomplete firmware hangs until the next power cycle, and power cycles
are bounded; in `serial` and `console` the master, the host and the user stop
when their requests, files and keys are used up, and `ModbusRequests` ends with an
access outside its array.

### Fairness

`ModbusRtu`: weak fairness of `modbus_tc_callback`, since a timer that has been
started fires by itself, and of `do_modbus`, since no function in the main loop
blocks. `FirmwareUpgrade`: weak fairness of the boot loader, which runs alone
after a reset; none of the front ends. `UartReceive`: weak fairness of
`uart_gets`, strong of the handler's branches, which the critical section
disables again and again but never for long. `Fan`: weak fairness of the
main loop, strong of the tick, as a pass takes at most `MaxPass` ticks in the
model and time goes on in the next one. `Indicators`: none, its property is an
invariant. `Tacho`: weak fairness of the main
loop's steps, the tick and the timer's interrupt, strong of the publication,
which a measurement may delay. `BaudRate`: weak fairness of the main loop and of
the hardware watchdog. `I2cSensors`: weak fairness of the main loop, the
interrupt handler and the bus: a slave answers in the end. Nothing is assumed of
the master, the line, the host or the user. Faults, resets and stretches do not
go on for ever: their number is bounded.

### Findings

1. **`upgrade_both`** (`upgrade.c:167`). The console command `upgrade` erases the
   flash without touching UPGRADE_STATUS; a MODBUS ACTIVATE afterwards finds
   VERIFIED and programs a header over an image that is not there. The boot
   loader then replaces the running firmware by it. With one front end in use the
   status and the flash agree (proved for each, but for what finding 4 leads to).
2. **`eeprom_unguarded`** (`modbus.c:551`). `update_operating_hours` and
   `env_save` write the EEPROM outside a critical section; a brown-out interrupt
   in the middle programs the page that the write has found free, and the next
   commit programs it again.
3. **`eeprom_loss`** (`eeprom.c:492`). A row move erases the old row while one of
   its pages is only in the cache, against the description in `eeprom.h`. Power
   lost before the next commit (without the brown-out interrupt, or by the reset
   pin) loses a page that was not even written.
4. **`spi_start`** (`spi_flash.c:77`). The driver gives up on a device that goes
   on; the next call's first command is ignored by the busy device, and the poll
   behind it succeeds. An `upgrade_start` after an activation that timed out
   returns success although the header's block was not erased. `FirmwareUpgrade`
   shows what comes of it with MODBUS alone (the variable `ignored`; TLC refutes
   `UpgradeSuccessful` by it): the header of the activation that gave up is in the
   flash, the next PREPARE erases the image and not the header, and after a reset
   the boot loader copies what is left over the firmware and takes that for a
   success (`upgrade.c:225`). The header is cleared then; the device has no
   firmware. That this is the only way there is what `HeaderIsTrue`,
   `FirmwareKept` and `CopyIsSuccessful` prove.

Observations made on the way, which no run shows:

- `modbus.c:337` and `modbus.c:546` say that the cached page is only committed
  before a reset; each write of a register on another page commits it, and so
  does each move of a full row (`HoldingStore`, `WritePage`).
- `i2c_master_write_packet_job` only tests `buffer_remaining`, which is 0 while
  the last byte is on the bus (`i2c_master_interrupt.c:494`, `:506`): a job may
  start on top of one whose caller has given up. `I2cSensors` contains it.
- Reads of 126 to 144 holding registers are accepted (`modbus.c:416-432`, with
  CFG_MODBUS_HOLDING_REGS 0x90), although with the CRC the reply is longer than
  the 256 bytes of `rtu_buf` (`modbus.c:350-355`), which is written past its end.
  `ModbusRequests` contains it up to that access; `OverrunOnlyByLongReads` says
  that there is no other.
- A NUL at the beginning of a line in upgrade mode drops the record without an
  error or an acknowledgement (`cli.c:697`); after a record of type 4 that was
  dropped like this, the data goes to other addresses until the verification
  fails. `Console` contains it.
- A line that is longer than the buffer is cut without an error (`cli.c:759`),
  and what is left may be a record with a right checksum. `Console` contains it.
- A character with a parity or frame error is handed on as a good one at the
  next interrupt (`usart_interrupt.c:407`, `:540`); the MODBUS checksum refuses
  it, the console does not. `UartReceive` contains it.
- `flash_erase` steps by blocks from the given address (`spi_flash.c:152`), so a
  range that starts inside a block and ends in the next leaves that one as it
  was. Only the development command can ask for it.
- Below 4700 baud eight times the silence does not fit the 16-bit compare
  register (`modbus.c:121`), and the timer fires inside a frame.
- When the header cannot be programmed after a HEX upload, the console stays in
  upgrade mode (`cli.c:715`): further records change an image whose header may be
  there all the same. With the console `upgrade` therefore has no SPI failures.
- An address below CFG_FIRMWARE_START wraps (`upgrade.c:117`) and makes
  `last_addr` huge; the verification refuses such an image.

## 4. Proofs

All leaves are checked by `tlapm` (SMT, Zenon, PTL); nothing is assumed beyond
the named assumptions on the constants.

**`ModbusRtuProofs`**, for every buffer size above 5, every set of frame sizes
and addresses, any number of frames and faults:
`TypeCorrect`, `RequestsWhole`, `RequestsOrdered`, `RepliesUntorn` and
`WatchdogFeeding` (an action property). None of the properties is inductive. The
invariant is `IInv`: `HandOverInv` says that from the test of `frame_len` to the
release the main loop owns the buffer, so that the interrupts change nothing that
`do_modbus` reads; `BufferInv` bounds what the buffer can hold
below the fill pointer to characters of frames that are not yet executed, so that
a stale frame is never complete; `ExecutedInv` relates the history to the line;
`ReplyInv` relates the reply to the buffer while it is sent. `IInvInit` and
`IInvStep` show that it is inductive, one lemma for each conjunct and one step
for each action.

**`FirmwareUpgradeProofs`**, for every set of images, memory size, row size and
number of resets and read faults: `TypeCorrect` (with both front ends), and, with
one front end (`OneFrontEnd`: MODBUS, whatever fails or gives up, or the console
while SPI does not fail), `HeaderIsTrue`, `FirmwareKept`, `HangRetried` and
`CopyIsSuccessful`. The assumption is needed: with both front ends
`HeaderNamesCompleteImage` is false (finding 1), and so it is for a console whose
activation fails (see the observations). All four are stated unless `ignored`,
that is unless the last `upgrade_start` took the end of another command for the
end of its first erase; finding 4 shows that this is needed, and the theorems that
it is all that is needed: failed and interrupted erases, writes that give up, a
device that is busy when it is read or looked for do no harm. The invariant
`UInv` adds `UploadInv` (unless `ignored`, no header while an upload is in
progress, be it by status or by `upgrade_mode`; a verified upload is complete up
to `last_addr`; without MODBUS the registers never move), `CopyInv` (up to
`offset` the program memory is erased, or equal to the image) and `FirmwareInv`
(the program memory runs or the header is still there, and in the main loop it
runs).

**`SerialLinesProofs`**, one inductive invariant for each part. For every size of
the ring buffer, every alphabet and any number of characters and errors:
`TypeCorrect`, and `RingBufferIsQueue`, the refinement of `BoundedQueue`. The
invariant says where `uart_gets` stands: interrupts are masked except between two
calls (`Masking`), `tail` is past the end only between `tail++` and
`tail %= size` (`TailInside`), and the characters still to take are there
(`LeftToTake`). Every step is then a put, a drop, a get or a stutter of the queue.
For every set of baud rates whose silence fits the compare register
(`SilenceFits`, 4700 baud and more; below, the property is false, see the
observations above), every default that the UART can have, and every size of
frame and buffer, the fill pointer wrapping at its end: `RateTypeCorrect`, and `SilenceSeparatesFrames`, which is
`FramesAreSeparated`. While the main loop runs, the timer is set for the rate in
use and the UART can have it (`SilenceIsOfRate`: a refused rate leaves the old
silence but stops the main loop). The rest is about the two divisions of
`modbus.c:115` and the UART: `SilenceBounds` compares them by way of their
products with the rate, so that two and a half characters are shorter than the
silence and four and a half are longer (`Distances`), rounded as they are. This is
needed for every rate up to 500000, and a check can only try some.

For every width of a byte above 2, every size of the tables, all well-formed
requests and any changes of the registers by the rest of the program
(`Q!RequestsAssumption`; the function codes must differ, and the registers end
before the addresses of firmware data): `RequestsTypeCorrect`,
`OnlyLongReadsOverrun`, which says that no access misses its array but in the
reply to a read that is too long, `RequestsWriteWhatTheyName` and
`RequestsAreAnswered`, which are `RegistersAsRequested` and `ReplyAnswersRequest`.
The invariant `RequestsInv` holds as long as a request is served (`Serving`), or
the model has ended with the overrun of a read that is too long (`Overrun`).
The two properties are not inductive: they say nothing of a request before it is
served. `Serving` says where it is on its way. The buffer holds it when it has arrived (`Arrived`), the registers are as
they were when it is parsed (`Parsing`), the registers read so far stand in the
buffer in their order while a reply is put together (`ReadSoFar`; it says nothing
of the bytes of the request that are overwritten, since the loop keeps address
and quantity in local variables), each of the values it has at the moment or, of
the register that the interrupt writes, one it had since the request was parsed
(`Remembered`), and what is about to be sent answers the request (`Sending`).
What a function does is one lemma for each (`ReadDiscreteServes` to `RwServes`),
against what `Deserves` says of it. For the write and read, whose reply overwrites
the data, the lemma needs that the write comes first; for the packed bits and the
masks, that every choice of bits is a number's (`NumberExists`), which goes by the
least counterexample (`LeastOf`), induction being out of reach; and that a
number's bit at a place is not disturbed by those above and below it (`BitAdded`,
`BitKept`).

**`FanProofs`**, for every setting of the registers, every period and every
wrap: `TypeCorrect`, and, for a history that counts at least as far as the counter
(`Wrap <= Horizon + 1`), `NoEarlyFallback`. Its invariant says that the counter
never says more than what has passed since the last frame (`CounterIsBehind`: a
wrap only makes it say less), so that a dead time found over is over
(`OverWhenTriggered`), and that a fall back which a waiting frame makes wrong is
taken back before `do_fan` comes (`BlipIsTakenBack`). `FallbackComesInTime` and
`AdjustIsPeriodic` are the other side, for periods which together with the passes
that may go by are shorter than the wrap (`PeriodsFit`; with 32 bits of
milliseconds all of them are). Their invariant `OnTime` says that what the code
reads off the wrapping counter is what has passed (`AdjustIsCounted`,
`SilenceIsCounted`, but for a frame that is still waiting), and how much of it
may have gone by at each point of a pass (`AdjustIsTested`, `DeadTimeIsTested`).

**`EepromEmulatorProofs`**, for every number of rows and every content of the
pages: `TypeCorrect`, `LayoutStaysSound`, and `EmulatorImplementsStore`, the
refinement of `EepromStore`. They assume what the findings 2 and 3 show to be
needed: power is lost only while every page has a copy in the flash
(`~LossInMove`), and writes are not interrupted by a commit (`~Unguarded`).
`LayoutSound` is far from inductive: it says nothing of the middle of a write.
The invariant `IInv` is. `Layout` says what a row of data looks like (one copy of
each page of a pair, newer copies behind them, then erased pages only) and that
each pair has one row. `Settled` says where a page is mapped to: its last copy
or, while it is cached, the next page to be programmed (`NextCopy`). `Moves` does
the same for a row that is moved: without the row it moves to (`Before`) the
layout is sound, and the two pages are on their way with the data they shall
have (`NewData`). The lemmas about the flash come first, without any state:
programming the next copy keeps the layout (`ProgramNext`), so does the erase of
the old row (`EraseSound`), a sound layout passes the check at start-up
unchanged (`MountedSound`), and so does one in the middle of a move, whose new
row is taken for a full one and erased (`MountedInMove`). In the refinement a
write is a step of the store when the page enters the cache (`CacheRefines`) or
the old row is erased (`EraseRefines`); the rest of it stutters. The proof is in
terms of last copies and first free pages, least and greatest elements of sets of
numbers, which exist by well-foundedness (`LeastExists`).

**`PeripheralsProofs`**, for all constants of the three parts: `TypeCorrect`,
and an inductive invariant for each part.
`ResultsCountTheirWindow` holds for every window that is shorter than the period,
every number of pulses and every value of the register (zero pulses per rotation
included). Its invariant says that a measurement begins when the one before is
over (`OverBeforeDue`, which needs `Window < Period`), that the counting interrupt
is registered exactly while the timer runs (`CountsWhileTiming`), and that the
counter holds the pulses since the registration (`CountIsOfWindow`).
`AlarmIsInTime` holds for every wrap of the counter that is not shorter than a
period and two passes (`AlarmPeriodAssumption`). Its invariant bounds the time
since the last update of the alarm (`AlarmIsDue`), so that the counter never wraps
past it, and says that what has not changed since is shown (`ShownSinceAlarm`).
`InterruptsAreServed` needs no more than `JobIsServed`, which survives a job that
is started on top of one whose caller has given up, as nothing in it says whose
job it is. `ReadsAreFresh` does: while no transfer has outlasted the poll, what is
on the bus is the job of the call in progress (`JobOfCall`), with the completion
flag of its direction cleared once the caller polls, so that a completion found is
its own (`OneJob`); the bytes received so far are the first of the buffer (`Got`).
While no byte was refused, either, a selecting write that is over has been
acknowledged and `ptr` is the register of the read that follows (`Selected`), which
every byte it has received comes from (`ReadsSource`).

**`FlashUseProofs`**, for every size of the device, its blocks and pages, every
image, set of records and limit of the polls (`SpiFlashAssumption`):
`TypeCorrect`, `CallsKeepTheirPromise`, `UploadsAreInPlace` and
`VerificationIsExact`. There are two inductive invariants. `CallInv` is about a
call that found the device ready: what the call has promised is what the memory
holds, with the data ANDed in from the next command on (`ToProgram`), or with the
blocks from there on erased (`ToErase`); so each command keeps the promise and the
last one fulfils it. A command stays in its page (`ChunkInPlace`), or the device
would wrap around. `ImageInv` is about an upload and does not assume that the
device is ready. When a write gives up, the device goes on and ignores the first
command of the next call, whose poll then succeeds all the same. What saves the
upload is that the driver reports the failure and the master must repeat the
record: while the device is busy in an upload, it is so with a command of the
refused write, and that record's first chunk is already in place
(`FirstChunkInPlace`), so nothing is lost if the repetition's first command is
(`skipped` marks the behaviours where the master sends another record, of which
nothing is promised). Programming can only clear bits, and only bits that the
image has cleared, so that the image can always still be programmed
(`Programmable`). The verification reads back bytes that are the memory's, or
those of a device that is still busy (`VerifyInv`).

**`HoldingStoreProofs`**, for all reset values and requests, any number of
resets and operating minutes, and every order of page writes, row moves and
losses of power (but for a page that a row move has left in the cache only,
which is finding 3): `TypeCorrect`, `ResetsAreRequested`, `NeverRunsBlank` and
`OrderlyResetsKeepState` (an action property). No reset value, no value that is
written, neither 1 nor the operating minutes may be the content of a blank
EEPROM (`ValuesAssumption`, `BoundsAssumption`); in the code that content is
0xFFFF, or 0xFFFFFFFF for the minutes, and a master that writes 0xFFFF to a
register cannot be told from a register that was never set. The invariant
relates RAM and EEPROM at every point: `Complete` holds of the EEPROM with and
without its cache, as a loss of power makes the second of the first; `RamSaved`
says how far `modbus_init` has come with its pages; `EnvironmentSaved` says that
`first_start_done` is saved behind them, and which values the registers have
until then; `PromiseSaved` says that what an orderly reset has to keep is in the
EEPROM until it is read, by way of `NowIsSaved`, which says so of the moment of
the reset. `UsesEepromStore` is the refinement: every step is one of the five
things that `EepromSteps` lists, and each of them maps to a step of
`EepromStore` or to a stutter.

**Only model-checked**: liveness, which is out of the prover's reach; that the
loops of the start-up check of `EepromEmulator` do what `Kept` says (they are
folds over the rows, and would need an induction over an operator); the
properties of `Console` (`OnlyTheFileIsProgrammed`,
`CompleteUploadIsActivated`, `LineIsShownAndSplit`), which are about folds over
lines and files; and `OnlyIntactIsAccepted`, whose polynomials are divided bit by
bit along a message of any length: both would need an induction over sequences.

## 5. Plan

Done: the framing, the store and its emulator, the upgrade and the boot loader;
then the requests, the serial line with its rates, receiver and checksums, the
console, the flash driver, and the fan, tachometer, indicators and sensors, with
both contracts implemented. What is left, in order:

1. *Prove.* What a record of the console may write, apart from the fold over its
   line, and that the screen shows the line.
2. *Extend.* The brown-out interrupt inside `HoldingStore`'s writes, once the
   code guards them; a layout with a lost page, and what further writes do to it.

## 6. Not modelled

- `fuses.c`: the user row is programmed once, at the first start. Its effect,
  a first start that follows a software reset, is in `HoldingStore`.
- `heartbeat.c`: a message every ten seconds.
- The console commands that only print, `hang`, and the help texts.
- The conversion of the sensors' raw values and of operating minutes to hours.
- The main loop as one composition of all modules: each module keeps the order
  of the calls it models.
- The Atmel Software Framework and CMSIS, apart from the EEPROM emulator and
  the interrupt handlers of the I2C master and the USART. They are more than nine
  tenths of the lines of the source tree, mostly register definitions and
  drivers that the firmware does not call; the firmware's own code is about 4200
  lines.
