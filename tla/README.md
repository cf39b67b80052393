# Verification of the ENSEA FPGA designs and of the Nios V bubble level

This directory holds TLA+ models of the hardware and software in this
repository, the TLC configurations that check them on small instances, and
TLAPS proofs for every value of the constants. Paths below are relative to the
repository; `telecran/` stands for
`Projet/TP_FPGA/TP_FPGA_TELECRAN_QUARTUS/telecran/`, `app/` and `bsp/` for the
two directories of `Projet/TP_FPGA_AVANCE/tp_nios_v/soft/`, and `ip/` for
`Projet/TP_FPGA_AVANCE/tp_nios_v/sopc/nios/synthesis/submodules/`.

Everything is run from this directory:

    tlc -config HdmiConfig_load.cfg MCHdmiConfig.tla
    tlapm HdmiConfigProofs.tla

`PROJECT.json` is the machine-readable index: components, runs, the source
lines each definition models, hazards, findings, theorems, and for each
property a mutant of the code that breaks it.

## 1. The system

Most of the repository is what Quartus, Questa and the BSP generator wrote.
The program itself is four FPGA designs, one C application, and the drivers and
the HAL that the BSP compiles into it.

| component | source | state | operations | who it interacts with |
|---|---|---|---|---|
| HDMI configuration | `telecran/i2c/I2C_HDMI_Config.v`, `I2C_Controller.v`, `I2C_WRITE_WDATA.v` | table index, set-up state, GO, presented data, READY; writer state, bit and byte counters, shift register, SDA, SCL, END, ACK | one clock edge of each machine, asynchronous reset, reload when HDMI_TX_INT is low | the two machines handshake over GO/END/ACK; the writer shares open-drain SDA with the ADV7513 |
| rotary encoder | `Projet/TP_FPGA/TP_FPGA_ENCODEURS_QUARTUS/encodeur.vhd` | two stored samples, 10-bit counter | clock edge, asynchronous reset | two mechanical contacts, not synchronised to the clock |
| LED chaser | `Projet/TP_FPGA/TP_FPGA_CHENILLARD_QUARTUS/tuto_quartus.vhd` | LED register, prescaler | clock edge, reset | none |
| Avalon I2C master IP | `ip/altera_avalon_i2c*.v` | master machine, command and receive FIFOs, enable, NACK and lost-arbitration bits, bus detector | register accesses by software; bus steps of its own; its interrupt line | the driver above it, the chip and other masters below |
| Avalon I2C driver | `bsp/drivers/src/altera_avalon_i2c.c` | position in the call, status, retry counter, the caller's buffer, `IRQ_DATA_t` | `tx`, `rx`, `tx_rx` by polling or by interrupt, the optional callback, the status function | looks at the IP's registers while the IP moves on; its two halves share ISER and `irq_busy` |
| bubble level | `app/main.c` | position in `main`, the LEDs | read DEVID, set POWER_CTL, then read the axes and light a LED for ever | calls the driver, ignores its status |
| JTAG UART | `ip/altera_avalon_jtag_uart.sv` | two FIFOs, two interrupt enables, pause interrupt, activity bit | register accesses; characters to and from the host | the driver above, a terminal at the other end of the cable |
| JTAG UART driver | `bsp/drivers/src/altera_avalon_jtag_uart_*.c`, `bsp/alt_sys_init.c` | two ring buffers, `irq_enable`, `host_inactive`, `timeout` | write, read, close, ioctl, interrupt routine, host-inactivity alarm, start-up | main (printf), interrupt level, system clock |
| HAL: interrupts | `bsp/HAL/src/alt_irq_handler.c`, `alt_iic_isr_register.c`, `intel_niosv_irq.c` | mstatus.MIE, `mie`, the handler table | the trap routine and its dispatch loop, installing and removing a handler | every device and the program, on one processor |
| HAL: alarms and timer | `bsp/HAL/src/mtimer.c`, `alt_tick.c`, `alt_alarm_start.c`, `bsp/HAL/inc/priv/alt_alarm.h` | `mtime`, `mtimecmp`, `_alt_nticks`, a doubly linked list of alarms | timer interrupt, tick, callbacks, start and stop of an alarm | the program changes the list the tick walks |
| HAL: sleep and time of day | `bsp/HAL/src/alt_busy_sleep.c`, `alt_settod.c`, `alt_gettod.c` | the timestamp's start, `alt_resettime` | `usleep`, `settimeofday`, `gettimeofday` | the timer counts and ticks under them |
| HAL: descriptors and start-up | `bsp/HAL/src/alt_open.c`, `alt_close.c`, `alt_get_fd.c`, `alt_fd_lock.c`, `alt_io_redirect.c`, `alt_main.c` | descriptor table, `alt_max_fd`, device lists | open, close, lock by ioctl, registration, redirection, `alt_main` | the drivers register their devices |
| telecran top level, PLL, memory | `telecran/telecran.vhd`, `pll/`, `dpram.vhd` | - | wiring, generated code, an entity that is not instantiated | - |

### What is hard, and what should hold

*HDMI configuration.* Two machines on one clock, each seeing the other one
edge late. The writer starts a transfer when GO **drops**, not when it rises
(`I2C_WRITE_WDATA.v:96`), so each transfer runs with data presented afterwards,
and one more transfer follows the last entry. END and ACK are levels left over
from the transfer before. A reset clears the state of the writer but none of
its counters, its lines or the target. It should hold that an entry is left
only after the target took it, that both ends agree on every bit slot, that
READY means configured, and that READY always comes.

*Encoder.* Only some of the edges of a quadrature signal count, so reversals
and bounces between two counted edges matter; contacts race with the clock; a
reset leaves made-up previous samples.

*I2C IP and driver.* The driver looks at one register at a time while the
machine it looks at moves on: the NACK of a byte appears long after its command
was queued, a NACK empties both FIFOs while the driver drains one of them, a
read queues nine commands in a FIFO of eight, another master may win the bus at
any byte, and a retry starts where the attempt before it stopped. With
interrupts, the callback drains the FIFO and disables the IP while the caller
polls a status function that masks and restores the same interrupts, and
whichever comes first clears the error bits. It should hold that success means
done, that no byte goes past the buffer, that every call returns, that the
interrupt a transaction waits for stays on, and that nothing is left behind for
the next call.

*JTAG UART driver.* Three threads of control share two rings and the interrupt
enables without locks: the caller copies an index, computes with it and
publishes another while the interrupt routine moves its own; the interrupt routine
turns an interrupt off when it finds nothing more to do, and the caller turns it on
again; an alarm counts the seconds without a host while the caller waits for
that count or for the interrupt routine. It should hold that no character is
lost, repeated or overtaken in either direction, that neither direction is ever
left with work to do and its interrupt off, and that every call ends.

*Bubble level.* `main` looks at no status, so what it shows is right only if
the driver's retries are.

*HAL.* `mtime` is read as two words while it counts. The program links and
unlinks alarms, and installs and removes handlers, in several steps, and only
the disabled interrupts keep a tick or a trap out from between them; `alt_main`
starts everything with interrupts already on. A callback may end the alarm
that is being walked. A sleep compares a difference of two timestamps with a
32-bit product. The time of day is kept as the difference to a tick count, so either
part of it may be negative. It should hold that an interrupt finds its handler,
that the clock never runs fast, that the list is whole at every tick and no
alarm late, that a tick ends, that a sleep is long enough, that the time of day
is exact, and that descriptors are neither lost nor given past a lock.

## 2. Modules

```
 I2cWriteWdata  the writer            Encodeur -- EncodeurRacing -- EncodeurDrift
      |                                                                  |
 I2cTarget      + wires, target                                   EncodeurProofs
      |
 HdmiConfig     + configuration       WalkingLight (abstract)
   |   ^ INSTANCE RegisterLoader          ^ INSTANCE
   |     (abstract)                   Chenillard -- ChenillardProofs
 HdmiConfigInv  inductive invariants
   |        \                         AngleToLeds
 HdmiConfigProofs  MCHdmiConfig            |
                                      BubbleLevel
                                      /         \
 Adxl345 -- AvalonI2cCore -- AvalonI2cDriver    BubbleLevelProofs -- MCBubbleLevel
                               |        \        /
                               |    AvalonI2cDriverProofs
                               |              \
                      AvalonI2cInterrupt -- AvalonI2cProofs -- MCAvalonI2c

                 CharacterQueues (abstract)
                     ^ INSTANCE
 JtagUartCore -- JtagUart -- MCJtagUart, JtagUartProofs

 HalProcessor -- HalTimer -- HalClock --\
                             HalFiles -- Hal -- MCHal, HalProofs
```

Lines stand for EXTENDS.

**I2cWriteWdata** has one action per value of `ST`, each the whole branch of
the case statement; state 5 is split in `BitDone` and `ByteDone`, states 6 to 8
are `StopBit`. **I2cTarget** adds the wired-AND of SDA and an external target
that recognises START and STOP, samples on rising SCL, holds SDA low in the
acknowledge slot, stores a register/value pair, and may refuse any byte
(`MaxRefusals`). **HdmiConfig** composes them with the configuration machine.
One step is one edge of `mI2C_CTRL_CLK`: both machines read the values before the
edge, as nonblocking assignments do, and the target reacts to the change of the
lines. `Reset` is a step of its own between any two edges. Bytes have
`ByteBits` bits and the table `LUT_SIZE` entries. The divider of the clock
and the padding to 24 bits are abstracted. The history variables
`delivered`, `resets` and `masked` are read by no guard (but for the bound
on `resets`).

**RegisterLoader** is the promise of that design without clocks, wires and
handshakes: store entry 1, 2, ... in order, each once, then announce, until a
reset cuts a transfer. `HdmiConfig!LoadsRegisters` is its specification,
fairness included, under `index <- LUT_INDEX, stored <- delivered,
ready <- READY = 1, intact <- resets = 0`.

**Encodeur** is the process of `encodeur.vhd`; the shaft is the environment and
moves at most one phase per clock period. **EncodeurRacing** adds a shaft that
moves *at* a clock edge: each stored sample, and each bit of the counter,
latches the old or the new value on its own. **EncodeurDrift** adds the history
against which the counter is measured; after a race the count means nothing until
the next reset.

**Chenillard** and **WalkingLight**: the LED register and its prescaler, and the
light that rests the same time on each LED in turn.

**Adxl345** is the sensor (external): an address pointer, its registers, a
bounded number of refused bytes (`MaxNacks`). A byte read is modelled as where
it came from: the register and the number of the bus transaction that
sampled it. **AvalonI2cCore** is the IP at one step per START, byte, acknowledge
or STOP: `mst_fsm_state` with the values of the RTL, the two FIFOs and what flushes
them, the error bits, the enable bit, and another master that may start first,
win a byte, and keep the bus. **AvalonI2cDriver** is the polling driver at one
step per register access, in the order of the code; `pc` names the access to
come. `altera_avalon_i2c.c` has two nearly identical functions, `transmit` and
`receive`; `fn` tells which one runs. **AvalonI2cInterrupt** adds calls by
interrupt: what differs in the call (`IrqCheckArbLost` to `Arm`), the status
function as `Ask`, `Mask`, `Answer`, `Abort`, and the interrupt routine with the
optional callback as the steps of `isr`. A polling and an interrupt call may
follow each other in any order. **BubbleLevel** puts `main.c` on top of the
polling driver, and **AngleToLeds** is its arithmetic, with the truncating division
of C.

**JtagUartCore** is the JTAG UART at one step per register access, with the
terminal as its environment: it takes characters, types, pauses (which raises the
read interrupt below the threshold and marks the host active), and is attached or
detached at any time. Characters are numbered in the order they enter; `shown`,
`typed`, `put` and `got` count how far each side has got. **JtagUart** is the
driver: the caller's steps (`pc`), the interrupt routine's (`isr`) and the alarm.
The caller runs only when no interrupt routine does, as on a processor; the
routine and the alarm do not preempt each other. A step ends where the code next
reads or writes something that another thread of control changes, so `write` is
`LookForRoom` (both indices), `CopyOut` (memcpy), `PublishOut` (`tx_in`),
`KickWriter` (interrupts disabled), `AwaitRoom` (the polling loop, one step when
its condition fails) and `CheckHost`. `InitUart` and `InitClock` are the last two
lines of `alt_sys_init`. **CharacterQueues** is what the program and the terminal may
rely on: two bounded queues that hand on every character once, in order
(`put` and `shown` are the ends of one, `typed` and `got` of the other). A load, chosen by the initial state, bounds the
characters that are typed and written.

**HalProcessor** is the enable bits of the processor, `handle_trap` with
`alt_irq_handler` below it, and `alt_ic_isr_register` step by step with
interrupts off. **HalTimer** adds the machine timer (`mtime` read as high word,
low word, high word again, by the program and by the trap routine), the tick and
the alarm list; a link or unlink is two steps, the pointers of the node and those of
its neighbours. **HalClock** is `usleep` on the timestamp and the time of day.
**HalFiles** is the descriptor table; only the program touches it, so a call is
one step. **Hal** composes them under `alt_main`: `stage` is how far start-up has
come, then `main` calls a service again and again. A behaviour uses one kind
of service: two kinds share no variable but through the interrupts, so nothing is
lost and the product is avoided. Devices are busy in the behaviours that
change handlers, and time passes in all those in which an interrupt routine touches
the state of the service, that is in all but those of files.

The MC modules only name the values that the configurations give to constants.
Definitions whose name has a suffix (`Launch_KeepsEnd`) and whose comment says
*Mutant* are plausible mistakes; no specification uses them.

## 3. What the runs check

| run | question | bounds | states |
|---|---|---|---|
| `HdmiConfig_load` | does the clocked design implement the register loader, liveness included, with refusals, resets and reload requests at any edge? | 2-bit bytes, 3 entries, 2 refusals, 2 resets | 48 k |
| `HdmiConfig_first` | is the first entry sent? *(no)* | no refusal | - |
| `Encodeur_turns` | is the counter half-turns plus drift less wraps, and does it rest with the shaft even after races? | 3-bit counter, 18 phases either way, 2 resets, drift 2 | 52 k |
| `Chenillard_walk` | is the register a walking light? | 10 LEDs, period 13 | 130 |
| `AvalonI2c_contended` | does every call end and release the IP, by polling or by interrupt, beside another master or a chip that refuses? | 3 registers, FIFOs of 3, 1 refusal or 1 contention, 2 tries, calls in any order | 535 k |
| `AvalonI2c_lost` | is lost arbitration retried, as the header says? *(no)* | the same, polling | - |
| `AvalonI2c_refused` | does success by interrupt mean done? *(no)* | 1 refusal | - |
| `AvalonI2c_dropped` | does the dispatch loop find its interrupt? *(no)* | calls by interrupt beside another master | - |
| `BubbleLevel_level` | does success mean done, and do the LEDs show one measurement of a measuring chip, symmetrically and monotonely? | 5 registers, 3 axis bytes, FIFOs of 4, 2 refusals, 3 tries, 13 samples | 154 k |
| `JtagUart_calls` | do the streams arrive whole, and the calls end, at every interleaving? | rings of 3, FIFOs of 1, 5 characters out, or 3 in and 1 out, calls for 1 or 3 | 381 k |
| `JtagUart_boot` | does a call without a terminal give up? *(no)* | the clock not started, 4 characters out | - |
| `Hal_services` | from reset through `alt_main`, do handlers, ticks, alarms, sleeps, the time of day and descriptors keep what they promise? | 2 lines, words of 4 values, a tick every 3 counts, `mtime` to 16, 2 alarms, 6 descriptors, 2 devices, 1 file system | 1.5 M |

### What each property says

*Configuration.* `EntryDelivered`: no entry but the first is left before the
target took its register and value. `NeverCut`: until a reset, the target sees
START only when idle and STOP only after a last acknowledge, so the two ends
agree on each bit slot. `ReadyMeansConfigured`: READY implies that each
register named by entries 1 and on holds the value of the last entry naming it,
even though an extra transfer follows the last entry and a reload can begin
under it. `AlwaysReadyAgain`: READY is true infinitely often. `ConfigInv` joins
the two inductive invariants of section 4.

*Encoder.* `HalfTurns` equates the counter with the shaft: a reversal inside a
counted half-turn shows as drift, and nothing else is ever lost or counted
twice. `RestsWithTheShaft`: no pair of stale samples keeps the counter moving. What a
race with the clock does to the count itself nothing can promise: the code has no
synchroniser, and `HalfTurns` is silent from a race to the next reset.

*I2C.* `ReadSound`: a successful read holds as many bytes as asked, from
consecutive registers, all of the transaction that ended the call.
`WriteSound`: a successful write is in the chip. `WithinBuffer`: draining the
FIFO without a limit never overruns the caller. `LeftClean` and `Released`:
between calls no command, byte, START or enable bit is left. `OnlyRefusalsFail`: on
a bus of one master a call fails only when the chip refused each of its tries;
no loop of polls gives up on a machine at work, and no refusal ends a call that
has tries left. In the run the tries outlast the refusals, so it
says that no call fails. `LevelInv` is the inductive invariant of section 4. `InterruptSound`
says the first three of calls by interrupt, unless a refusal was cleared unseen
(section 5). `StillAwaited`: whenever neither half is at work, the interrupt the
transaction waits for is on. `OwnBusInv` is the invariant behind `InterruptSound`
(section 4). `CallsEnd`: every call ends, with that same exception.
The soundness of polling calls and `LeftClean` are checked on a bus without another
master, for the calls of `main` in its order; `Released`, `StillAwaited` and
`CallsEnd` with one, or with a chip that refuses, and in any order (section 5
says why).

*JTAG UART driver.* `TxStream`: what the FIFO and the ring hold, in that
order, is exactly what was accepted and not yet shown; `RxStream` the same for what
was typed and not yet read. `Kicked`: the ring is empty, or the write interrupt is
on, or `write` is on its way to turn it on. `Listening`: the read interrupt is off
only while the next read finds characters and so turns it on. `KeepsQueues`: driver and
UART together are **CharacterQueues**. `CallsReturn`: a
write or close ends, and a read ends once something was typed, unless the allowed
silence was set beyond what `host_inactive` counts to. `AllShown`: a terminal that
is attached again and again gets everything.

*Application.* `OneMeasurement`: the two bytes of x on the LEDs come from
DATAX0 and DATAX0+1 of one transaction. `ReadyMeansMeasuring`: "prêt" is printed
only once POWER_CTL holds 8; both rely on tries outlasting refusals.
`Mirrored`, `Follows`: opposite samples light opposite LEDs, and a larger one never a
lower LED.

*HAL.* `HandlersThere`: the dispatch loop never calls a line without a handler,
whatever registration was interrupted. `NeverFast`: ticks counted never exceed the time
they stand for. `WellLinked`: the list is one ring through the head and the running
alarms, both ways, whenever the program or a trap can look at it; `NoneOverdue`: each
alarm is called at its tick; `TickEnds`: every walk ends. `SleepsEnough`: `usleep`
lasts at least as long as asked, as long as its product fits in a word.
`TellsTheTime`: `gettimeofday` is the time set plus the ticks since, to the
microsecond. `Conserved`: the descriptors in use are the standard ones and those
the program holds; `LockedOut`: no open succeeds on a device that a
descriptor has locked.

### Why the bounds are enough

* *Two-bit bytes.* The writer and the target count slots, and treat the first
  data bit, a middle one and the acknowledge apart; two bits and an acknowledge
  have each, and any off-by-one between the ends shows. The proofs are for
  every width.
* *Three entries.* Entry 0 is the exception, entry 2 the last (followed by the
  extra transfer), entry 1 is neither. Entry 2 writes the register of entry 1
  again, as entry 16 of the RTL does that of entry 0, but with another value, so that
  the order shows; first and last differ, so that a byte of one sent with a byte of
  the other does.
* *Refusals and resets.* A refusal leaves END and ACK stale for one round, so two
  in a row, or one before and one after a reset, are the cases that differ. The
  two resets let a reset hit the recovery from a reset.
* *Encoder.* Eighteen phases each way against modulus 8 (half-turns of two phases
  each) make the counter wrap both ways; a torn mix of three bits is every mixture
  there is around a carry.
* *I2C FIFOs.* In the code a read of six bytes queues nine commands (address, register,
  address, six reads) in a FIFO of eight. With interrupts two bytes queue five
  in a FIFO of three; in `BubbleLevel_level` three bytes queue six in a FIFO of four.
* *Tries.* The code tries 10000 times. Three tries are more than two refusals:
  calls succeed and the tries still are a limit (a refused byte costs one).
* *Contention.* One loss of the bus, at any byte or before START, given back or
  never. A behaviour has another master or a chip that refuses, not both, so
  that the two causes of an error are told apart; calls by interrupt are made on a
  bus without another master, except in `AvalonI2c_dropped`.
* *Samples.* Both sides of every bound in `angle_to_leds` and the ends of
  `int16_t`; the proofs are for all.
* *Rings and FIFOs of the UART.* A ring of 3 holds two characters: it fills,
  wraps, and is copied in two pieces. A FIFO of 1 with threshold 0 makes
  every character an interrupt, and the write interrupt as late as it can be. Five
  characters go round the ring more than once; three typed ones fill ring
  and FIFO. With INT_MAX 4 the default timeout (1) is reached and the one a
  TIOCSTIMEOUT of 0 sets (3) never is; `JtagUart_boot` has the one that means no
  alarm (4).
* *Timer.* A word of 4 values against a tick of 3 counts makes the low word of
  `mtime` wrap between any two of its reads, and before, at and after a tick.
  Sixteen counts are five ticks: the time of day passes the end of a second
  twice (2 ticks each), and an alarm of period 2 is called twice. A behaviour
  that sleeps stops at 8 counts: that is longer than each sleep whose product
  fits (5 exceeds a word, and is the case excluded).
* *Alarms and lines.* Two alarms make a list whose middle, head and tail differ,
  with one being linked or ended next to the other. Two lines are the two of the
  system (I2C and UART).
* *Descriptors.* Three beyond the standard ones: a free one may lie below the highest
  ever given, and the table fills.

### Fairness

* `WF(Edge)` and `WF(DriftTick)`: the clocks run freely.
* `WF(ApplicationStep)`, `WF(IsrStep)` and `WF(BusMoves)`: the processor goes on
  executing, in the program or in the routine that interrupted it, and the IP goes
  on being clocked. They are independent, so any interleaving is covered.
  `SF(Interrupt)`: the status function masks the interrupts for a few instructions of
  each poll; between two polls the processor takes what is pending.
* `WF(CallerStep)`, `WF(IsrStep)`, `WF(Alarm)` of the UART driver: the processor
  runs, pending interrupts are served, the clock ticks.
* `SF(HostTake)`, `SF(HostPause)`: a terminal attached infinitely often takes a
  waiting character and looks for input infinitely often. Nobody is made to
  attach it or to type. This is an assumption on the host's program, not on
  this code.
* `WF(TimerIsr)` of the HAL: the trap routine goes on.
* Nothing forces the application to call, the shaft to turn, a reset, a
  refusal, an interrupt of a device, or another master to give the bus back.

A polling loop in the driver gives up after at least 10000 polls, far longer
than a byte. The model lets it give up only when the machine waits for something
other than itself (`Waiting`): with that, a slow machine is never mistaken for a
dead one.

CHECK_DEADLOCK is on in every run.

## 4. What is proved

All theorems hold for every value of the constants that satisfies the named
assumptions of the modules (`ByteBitsAssumption`, `ConfigAssumption`, ...).

**HdmiConfigProofs**, for any width of a byte, any table, and any number of
refusals, resets and reloads. `TypeCorrect` (`TypeOK`) needs `TypeInv`, one fact
more than `TypeOK` about the counters. `DeliveryInvariant` (`DeliveryInv`) gives
`EntriesAreDelivered` (`EntryDelivered`). That property compares two registers of one
machine with the memory of a chip three wires away, so the invariant has to say
what each stage knows: `Handshake` and `EntryHandshake` give the reachable pairs
of the two states (a stale END is seen only with ACK = 1, which is why a refused
entry is presented again rather than passed); `Levels` and `AckReleased` give the
lines in each state; `Framing` says writer and target count the same slots;
`ToSend` and `Received` split the current byte between the shift register and the
target; `Acknowledged` concludes. `LoadInvariant` (`LoadInv`) builds on it for
`ReadyIsConfigured` (`ReadyMeansConfigured`) and `TransfersAreWhole` (`NeverCut`):
`SettledKept` says that the registers hold what the entries taken so far say, a later
entry overriding an earlier one. The extra transfer after the last entry is why
`Received` speaks of the data presented rather than of the entry (`Steady`), and
`StillPresented` that those data are still the last entry's; the target then
rewrites what it already holds. `Whole` says where the target is between transfers.
`ConfigInvariant` (`ConfigInv`) is the two together.

`LoadsInOrder`: the design implements **RegisterLoader**, its fairness apart: an entry is
stored once, in order, before the next, and nothing else is stored but what the
abstract loader allows while entry 0 is presented. That last part needs `Astray`, the
rest of `LoadInv`. When a reload begins, the transfer still under way goes on with
entry 0's data: each of its bytes was made from the first or the last entry
(`StrayByte`), its register is that of one of them, and if its value is the last one's so
is its register, which then holds that value already. One lemma each for the first
entry, the ones after it and the end (`FirstLoads`, `UnderwayLoads`, `LastLoads`) gives
the step of the loader. The hypothesis is that the table has more than one entry (the
RTL's has 31): with one, entry 0 is stored by the transfer after the
announcement, which the loader does not do.

**EncodeurProofs.** `DriftInvariant`, `DriftTypeCorrect`, `CountIsHalfTurns`, for
any width of the counter, races included. `HalfTurns` is not inductive: `DriftInv` adds
that the stored samples are the contacts of the phase last seen, that the shaft is
within one phase of it, and that `entered` is the direction of the odd phase.

**ChenillardProofs.** `ChenillardTypeCorrect`, `OneLedLit` and
`ImplementsWalkingLight` (`Walks`), for any number of LEDs and any period; the invariant
is that the register is the unit vector of some LED (`LitAt`).

**AvalonI2cDriverProofs**, for any chip, depth of the FIFOs, number of refusals and
tries. `ReadsAreSound` (`ReadSound`), `WritesAreSound` (`WriteSound`), `BufferNotOverrun`
(`WithinBuffer`), `CallsLeaveClean` (`LeftClean`, and `Released` with it) and
`FailuresAreRefusals` (`OnlyRefusalsFail`), from `SoundInv`. None of these is inductive:
the driver looks at one register at a time, the machine runs behind it by up to a FIFO
of commands, and the status and buffer of a call that was refused mean nothing until it
is tried again. The invariant counts along the list of commands of the call
(`Entry`): `Written` of them are written, the FIFO holds the last of these, the
machine is at the one popped last, and the chip's pointer, what was written to it, and
the bytes received (in the FIFO and in the buffer) follow from that position
(`Underway`, `Clean`). Once a byte is refused all that remains is `Refusal`: the FIFO is
empty, the machine stops, and `nack_det` stays set until the next try clears it, so that
every path of the driver leads to the retry (`StatusInv`). `CountInv` says that each
attempt behind this one cost the chip a refusal. There is one lemma per access of the
driver and one per step of the machine, each in the three situations.

The hypotheses are two. `SoleMaster`: no other master takes the bus, which is so on
the board, and without which `ReadSound` is false (section 5). `CallsFit`: a call asks for
no more bytes than the receive FIFO holds, and writes no register twice. The
application asks for six of eight. A longer read is not unsound (the driver drains
while it queues, and the call that loses a byte times out), but its proof would have to
speak of the speed of the two, and nothing calls it. A call longer than the chip
overwrites its own bytes.

**BubbleLevelProofs.** `LedInRange`, `OppositeLeds`, `BubbleFollows`: for every
set of 16-bit samples. Lemmas bound the clamp and the quotient and show both to be
odd and monotone; `Shown` ties `lit` to `x`. `LevelLights`: the application implements
the module of the LEDs, so those hold of it. `LedsShowOneMeasurement` (`OneMeasurement`),
`ReadyMeasures` (`ReadyMeansMeasuring`) and `LevelCallsSound` (the four properties of the
driver under the application) assume `LevelFits`: one master, the six axis bytes
within the FIFO, the registers that `main` names on the chip, and fewer refusals than tries.
The last is what the program relies on: `main` looks at no status, and
a call that failed would leave the bytes of the stack on the LEDs. `FailuresAreRefusals`
is what makes it enough. `LevelInv` (`LevelInvariant`) adds to `SoundInv` which request each stage of `main`
made, and that no call but the one to POWER_CTL writes a register.

**AvalonI2cProofs.** `EveryCallReleases` (`Released`) and `InterruptStaysAwaited`
(`StillAwaited`), for any chip, FIFO depth, set of calls, number of tries,
refusals and losses of the bus, calls by polling and by interrupt in any order.
`DisabledInv` adds the transaction that is over and not yet reported; `MaskInv` says
what ISER, and the copy the status function has of it, hold at each step of the
two halves.

`InterruptCallsSound` (`InterruptSound`), where calls by interrupt are made on a bus of
one master only (`NotShared`; on a shared bus an arbitration that is lost is never
looked at) and their bytes fit the FIFO (`AllCallsFit`, as above; polling calls may
still be made beside another master). `OwnBusInv` (`OwnBusInvariant`) follows a call through its stages. While it is
*submitted* (`SubmitInv`) it is a polling call that drains nothing, and `SoundInv` holds of it
as it stands. *In flight* (`InFlight`) the FIFOs and the machine are `Underway`, refused
(`Refusal`), or refused with the bit cleared by the routine (`Unseen`, which is
what `missed` records); the callback's `size` and the buffer add up to what was asked,
and the routine reaches its last step only with `size` at zero and the machine stopped
(`FlightInv`). *Landed*: the IP is at rest and, unless something was refused, the
bytes are those asked for (`Delivered`), which is what the status function then reports
(`Told`). The steps of the machine are the lemmas of the polling calls; the new ones
say what the routine may find at each of its accesses (`RoutinePlace`, `FlightEnds`,
`FlightLands`).

**JtagUartProofs**, for rings and FIFOs of any size, any timeout and load.
`JtagInvariant`, `WriterIsKicked` (`Kicked`) and `ReaderListens` (`Listening`):
`JtagInv` adds that indices stay in the ring, that a copy moves something and
no more than was asked, and that nothing is sent before the driver starts.
`NextIsAnother` is where a full ring is told from an empty one. `StreamsInvariant`,
`TxStreamIsKept` (`TxStream`) and `RxStreamIsKept` (`RxStream`): no character is lost,
repeated or reordered at any interleaving. `Streams` gives each place of the
ring the number of its character, by its `Distance` from the index that empties the
ring (written without the modulus, `DistanceIsShort`), and says of a copy under way
which places it fills or reads. `ImplementsQueues` (`KeepsQueues`): each
step of the driver, the UART or the terminal is one step of an end of a queue or none at
all (`PublishAccepts`, `TakeShows`, `TypeTypes`, `CopyReads`, `OthersStutter`); that no
queue ever holds more than `BUF_LEN - 1 + FifoDepth` is the strict inequality of
`TxCopy`, the place of the ring that stays free.

**HalProofs.** `FilesTypeCorrect`, `DescriptorsConserved` (`Conserved`) and
`LocksHold` (`LockedOut`), for a table of any size: what is locked is in use and what
is in use is below `alt_max_fd`, so the search that ends there sees every lock.
`HandlersAreThere` (`HandlersThere`), for any number of lines: an enabled line has a
handler except between the two steps that remove it, and then the interrupts are
off. `ClockNeverFast` (`NeverFast`), for words of any size and any period:
`ReadingInv` says that the words read so far, as long as the high word has not
moved, join to a time no earlier than the tick, and `ClockInv` that the
comparator is a period past it.

`SleepsLongEnough` (`SleepsEnough`), for words of any width and
any clock: the same argument about the program's reading (`SpanInv`), which
interrupts may stretch. `TimeIsExact` (`TellsTheTime`), for every time set and every
rate that divides a second: `DayInv` is the exact value of `alt_resettime`, either
part of which may be negative, and the lemmas show that one borrow or carry
restores the range.

`AlarmsStayLinked` (`WellLinked`) and `AlarmsAreCalled` (`NoneOverdue`), for any number of
alarms and any periods. The list is never walked in the proof: `IsRing` says that both
directions agree and that no proper part of the ring is closed under `next`, and two
lemmas about arbitrary pointer functions show that linking a node whose own pointers are
set, and unlinking one, keep that (`RingGrows`, `RingShrinks`). `AlarmInv` adds what the
half-done start or stop has written (`CallInv`), that alarms out of the list are loose
(`LooseInv`), and, during a walk, that there is a set of alarms still ahead (`Ahead`): it
holds the next one and, with each, its successor, and every running alarm outside it has
been called. At the end of the walk that set is empty.

**Model-checked only.** Liveness and fairness (`LoadsRegisters`,
`AlwaysReadyAgain`, `RestsWithTheShaft`, `CallsEnd`, `CallsReturn`, `AllShown`,
`TickEnds`), which the prover does not handle (of `LoadsRegisters` that is the
fairness of the loader only; the rest is `LoadsInOrder`).

## 5. What the checks found

Five runs are expected to be violated; each states what a comment or a header
says and the code does not do.

* `HdmiConfig_first`. After reset the idle writer drives END = 1 and ACK = 0;
  the configuration machine takes it for the end of a transfer that never began
  (`I2C_HDMI_Config.v:88`) and passes entry 0. Entry 16 repeats its register, so
  the transmitter still ends up configured.
* `AvalonI2c_lost`. Arbitration lost in the last queued byte ends the
  wait; only NACK_DET is looked at again (`altera_avalon_i2c.c:681`, `864`), so the
  call reports success. The header promises a retry.
* `AvalonI2c_refused`. In interrupt mode a refusal empties the command FIFO, which is
  what the interrupt waits for; the routine clears all of the ISR, NACK_DET too
  (`altera_avalon_i2c.c:108`), before the status function looks, and that answers
  SUCCESS.
* `AvalonI2c_dropped`. Arbitration lost between the trap and the first look at the
  pending lines empties the receive FIFO; no line is pending any more, and the search
  of `alt_irq_handler.c:198` for a set bit has no end.
* `JtagUart_boot`. `alt_sys_init.c:97` starts the UART before line 98 has given
  the system clock a rate, so `alt_alarm_start` answers -ENOTSUP, `timeout` is
  INT_MAX and the alarm that should notice a missing terminal does not exist.
  With no terminal, a blocking write to a full ring, and close, wait for ever.
  `JtagUart_calls` starts with the clock running.

The models also show behaviours that the properties therefore exclude:

* *Configuration.* A reload request during the extra transfer changes `mI2C_DATA`
  between two bytes: one register receives the value of another entry. The reload
  writes it again, so `ReadyMeansConfigured` holds all the same. A reset while the
  target acknowledges leaves it holding SDA low: it does not see the next START and
  takes the address byte for a value. It recovers with a later START; `masked` is
  that window.
* *Encoder.* A contact that moves at a clock edge may take the counter to any mixture of
  the bits of two counts; the report's synchroniser is not in the code. The
  counter also wraps from 0 to 1023 where the report says 1 to 10. One phase right
  and back left has counted one (`encodeur.vhd:42`): that is the `drift` of
  `HalfTurns`, though the report says that turning left decrements.
* *I2C.* With another master, arbitration lost between the look at the FIFO level and
  the read of the byte (`altera_avalon_i2c.c:356-366`) empties the FIFO, and the
  call reports success with a byte nobody sent. Hence `ReadSound` is checked on
  a bus of its own, which the board's is. A read by interrupt whose refusal was
  cleared unseen never has its byte and answers BUSY for ever: the exception of
  `CallsEnd`. A call that timed out leaves its commands queued, and the next call
  sends them first. `speed_set` at 50 MHz and 400 kHz truncates to a half period that
  makes 403 kHz (`altera_avalon_i2c.c:300-305`).
* *Application.* If the chip refuses POWER_CTL until the tries run out, `main` prints
  "prêt" all the same (`main.c:42`, `72`).
* *JTAG UART.* `write` waits for `host_inactive` to reach `timeout`, and then gives up
  if it is not 0 (`write.c:183`): after one silent second a write that found the ring
  full answers -EIO (*Host not connected*) although there is room by then.
* *Timer.* The comparator is set from the time of the trap and not from the time it
  was due (`mtimer.c:72`), so every latency makes the clock fall behind for good,
  which the comment of lines 67 to 69 means to avoid; `NeverFast` is the half that
  holds. `_alt_nticks` is 64 bits on a 32-bit processor and `alt_nticks`
  (`alt_alarm.h:112`) reads it without disabling interrupts: a torn value needs a carry
  after 2^32 ticks (49.7 days at 1 kHz).
* *Alarms.* `alt_tick` looks the next alarm up before the callback
  (`alt_tick.c:102`): a callback that stops that next alarm sends the walk to an alarm
  linked to itself, and the tick never ends. No callback of the BSP does so; the model's
  only ends its own.
* *Sleep.* A sleep of 85.9 s or more at 50 MHz wraps the 32-bit product
  (`alt_busy_sleep.c:100`) and returns early. Every sleep restarts the timestamp
  (line 99), so an application that times with it loses its start.
* *Descriptors.* `alt_fd_lock.c:61` stops its search one short of the highest
  descriptor, so a lock may be granted beside an open descriptor of the device,
  which its comment (lines 42 to 44) excludes; `LockedOut` only promises that later
  opens fail.
* *Interrupts.* `alt_iic_isr_register.c:72` compares a signed id with the number of
  lines, so a negative id passes. No caller in the repository gives one.

## 6. What is not modelled, and why

The map covers only part of the implementation's lines. Most of the rest
is C that holds no behaviour of this program:

* licence headers and comment blocks, register macros and bit masks (most of the
  driver headers), generated headers (`system.h`, the linker's), and the
  declarations of interfaces;
* code the BSP's options compile out: the CLIC and VIC interrupt controllers, ECC, the
  direct drivers, ALT_LOG, the DFL walker
  (`INTEL_FPGA_USE_DFL_WALKER` is 0) and its file, variants for an operating system,
  the small driver of the UART and its option that drops characters;
* library stubs without state (`alt_getpid`, `alt_kill`, ...) and the formatting of
  `printf` and of the log.

Of what remains:

* **Abstracted**: the clock dividers, bit phases and spike filters of the I2C IP,
  RX_OVER and FIFO thresholds but those the interrupts use, the wording of what is
  printed, the register pipeline and JTAG side of the UART.
* **Left out of a modelled part**: the I2C speed computation and 10-bit addresses (the
  application uses neither), a status function that is not called again after BUSY;
  TIOCGCONNECTED, which changes nothing; exceptions, software interrupts, and a
  handler that returns with its line raised (but for the I2C IP); descriptors that
  are passed through to the device (read, write, lseek, fstat, isatty), `fcntl` flags,
  calls on descriptors that are not open, and the search for a device by its name;
  `alt_sbrk`, the environment and the exit of the C library. (The comment of
  `alt_sbrk.c` says that bounds are not checked; the code does check them.)
* **HDMI_TX_INT** is sampled as one level; it too has no synchroniser, and a torn
  table index is not modelled.
* **Wiring and generated code**: `telecran.vhd`, the PLL, the Nios V system, the
  interconnect; `dpram.vhd` is not instantiated. The ModelSim variant of the encoder is
  not the synthesised one.

## 7. What is left

1. **A torn LUT_INDEX** when HDMI_TX_INT moves at a clock edge.
2. **The tick**: the measure by which a walk of the alarm list ends (the set `Ahead` of
   `AlarmInv` only loses members), as a theorem; an alarm whose callback stops the
   alarm after it.
3. **`alt_fd_lock`** searches one place short of the highest descriptor.
