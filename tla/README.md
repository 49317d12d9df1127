# Verification of the meta-fluke-cda drivers and rescue program

`meta-fluke-cda` is a Yocto layer for a family of Fluke instruments. Most of it
is declarative: recipes, machine configuration, device trees, patches to other
projects. What it adds as program code of its own, and what this directory is
about, is four kernel drivers and the program that restores a broken unit:

| part | source | module |
|---|---|---|
| fast UART, receive FIFO level | `fluke_fn_fast_uart.c:79-98` | `FifoLevel` |
| fast UART, registers, ioctl, probe, remove | `fluke_fn_fast_uart.c:60-154, 314-461` | `UartRegisters`, with `FifoLevel` |
| fast UART, receive path | `fluke_fn_fast_uart.c:171-312` | `FastUart`, `RxStream` |
| interval timer, calls | `altera_inttimer.c:71-188` | `IntTimer`, `DeviceCalls` |
| GPIO port, calls | `gpio-fluke.c:118-266` | `GpioPort`, `DeviceCalls` |
| GPIO port, interrupt handler and queue | `gpio-fluke.c:54-99, 268-287` | `GpioQueue`, `BoundedFifo` |
| GPIO port, timer and keypad: module, probe, remove, open files | `gpio-fluke.c:290-500`, `altera_inttimer.c:190-346`, `fluke_keypad.c:106-237` | `DriverLifecycle` |
| keypad, interrupt handler | `fluke_keypad.c:50-97` | `Keypad` |
| rescue program | `rescue_fluke_cda.c` | `Rescue` |

The paths are under `src/recipes-kernel/fluke-drivers/files/src/drivers/` and
`src/recipes-fluke/rescue-fluke-cda/files/src/`.

## Inventory

**Fast UART.** State: the receive FIFO (2048 bytes) and its level, shown in two
8-bit registers; the line status and interrupt identification registers; the
interrupt enable register; the DMA channel (`dma->rx_running`, `rx_buf`,
`rx_xfer_length`); `port.lock`. Three agents: the interrupt handler, the DMA
engine, and the completion callback, a tasklet that may run on another
processor. They interact through the FIFO (handler and engine both take bytes
from it), through `rx_running` and through the interrupt enable bit. Hard:
reading a level split over two registers while it moves; two consumers of one
FIFO; the last byte, which the engine never takes; an identification that is
stale when it is acted on. Correct means: every byte the FIFO accepted comes
out once and in order, a transfer that starts completes, the buffer is not
reused while it is full.

**Interval timer.** State: one semaphore per device and the timer's registers.
Operations: `read`, `write`, `ioctl` of any number of processes. They interact
through the semaphore, which every call takes first. Hard: every return must
give the semaphore back, and one request stores at the caller's address without
looking. Correct means: the writes of two calls are not mixed, a write is done
whole or not at all, every call returns.

**GPIO port.** The same shape as the timer, with returns that do give the
semaphore back, a direction register that reads and writes turn round and that
nothing turns back, and a ring buffer fed by an interrupt handler that `probe`
never registers. Correct means: every call returns, a read samples the pins
and not what another process wrote, a written byte is on the pins.

**Keypad.** An interrupt handler that reads a row and a column register and
keeps whichever it has until the other arrives. Its line is shared. Correct
means: a key event is a key somebody pressed, every key makes one, and an
interrupt of its own is never disclaimed.

**Modules, probe and remove** of the drivers. State: per device a structure
that notes what was obtained (a minor number, a device node, a memory region, a
mapping, a character device; for the keypad an input device and an interrupt
line), per module a class, a range of numbers and the registered driver.
Operations: load, unload, bind, unbind, open, close. They interact through the
kernel's tables, where things are known by number and address and not by owner,
and through open files. Hard: every step may fail; devices are bound and
unbound side by side and under open files; an error return reads what was just
freed. Correct means: what was obtained is released once and by its owner,
nothing is reachable before it is ready or after it is gone, unbinding ends.

**Rescue program.** State: the partitions of the eMMC and of the flash, working
copies and factory backups; `/tmp/mtdX`; whether the boot filesystem is mounted
and a kernel loaded. Operations: the countdown, the menu, one option per thing
to restore, the boot. Everything is done by commands run one after the other.
Hard: a command fails, or the power goes, at any point; all restores share one
temporary file; nothing is ever undone; one option writes to a backup. Correct
means: backups survive (the code keeps this for all but one), images go where
they belong, success is reported only when it happened, a broken
restore can be repeated, the unit boots when left alone.

## The modules

### FifoLevel

One action per register access of `rx_fifo_level()`: `ReadOldMsb`, `ReadLsb`,
`ReadMsb` (which leaves the loop or goes round), `Return` for the caller that
has used the value. `Receive` lets the level grow between any two of them.
`Drain`, the transfer or programmed read that empties the FIFO, happens only
between calls: the function is called under the lock with `rx_running` clear,
so nothing else consumes bytes. `entry` and `sampled` are history: the level
at the beginning of the call and when the LSB was last read.

* `ConsistentSnapshot`: the value is the level at one instant.
* `ResultWithinCall`: it lies between the levels at the beginning and at the
  end; a transfer sized from it finds its bytes.
* `LoopEnds`: the loop terminates, given that the processor runs
  (`WF(ReadLsb \/ ReadMsb)`). The level only grows during a call, so the MSB
  can move finitely often.

### UartRegisters

Extends `FifoLevel` with the other two values that are split over two
registers, the watermark and the receive timeout, and with everything that
touches them: probe (one action per register write, then the registration of
the port, then the replacement of its operations), `ioctl()` (one action per
register access) and remove. The level is asked for by the interrupt handler
in between, once the port is registered. The serial core calls `ioctl()` with
the port's mutex taken, so one at a time. The registers hold anything before
probe.

* `ReadsWhatWasWritten`: what an ioctl reads is what probe or another ioctl
  wrote last, the timeout as far as it fits 16 bits: `write_timeout()` accepts
  more and cuts it (124-125).
* `BurstLeavesByte`: once the port can be used, a burst started at the
  watermark leaves a byte in the FIFO. It depends on two places agreeing,
  `write_watermark()`'s bounds and the value probe passes without looking at
  the result.

Between the registration of the port and the replacement of its operations
(418-428) requests are unknown. `WRITE_UART_WATERMARK`
(`ioctl_8250_fast_uart.h:32`) is declared and never served. Neither is claimed
as a property.

The hardware has 256 values per register and 2048 bytes; the run has three and
eight, so that the MSB moves twice between empty and full and every relative
position of a carry and the three reads occurs. The watermark does not fit one
register at these sizes, as a large one would not on the hardware. The timeouts
are one that is refused, the largest that fits and one that does not.

### FastUart and RxStream

A byte is its number in the order of arrival, which makes "lost", "twice" and
"out of order" visible. `rx_fifo_level()` is one step here, as `FifoLevel`
justifies. Receive side of the handler:

| action | code |
|---|---|
| `ReadIir`, `ReadIirOther` | the identification is read (306), before the lock is taken |
| `LockIrq` | lock, line status read (clears the error), `fn_fast_uart_handle_rx_dma()` decides (255-264) |
| `RxDmaSkips`, `RxDmaStarts`, `RxDmaBusy` | the returns of `fn_fast_uart_rx_dma()` (212-251) |
| `PioByte`, `PioEnds` | `serial8250_rx_chars()`, one byte at a time |
| `UnlockIrq` | modem status, transmitter, unlock |
| `CompleteBegins`, `CompletePushes` | `fn_fast_uart_dma_rx_complete()` before and after the status query |

The hardware and the 8250 core are modelled from what the driver says of them:
the engine takes a byte only while the FIFO holds more than one (comment at
line 222), an empty FIFO suppresses the receive timeout (411-413), line status
interrupts are not masked by `UART_IER_RDI` (only that bit is cleared, 237).
A break is a byte with an error. Bytes that arrive at a full FIFO are dropped
by the UART before the driver can know and are not in the model; the overrun
they cause is a line error.

`useDma` is chosen once: the 8250 core clears `up->dma` at open when no channel
is to be had.

`RxStream` is what a serial port promises: bytes accepted are delivered, none
twice; up to the first line error all of them, in order. After an error it
leaves the order and the liveness open. `Stream == INSTANCE RxStream` maps
`arrived`, `errors` and `tty` to themselves; everything else is hidden.

* `NothingLost`: every byte is in exactly one of the FIFO, the buffer and the
  tty, whatever errors the line makes.
* `BufferHandedOver`: a transfer starts only into a buffer that was emptied.
* `CleanInv`, as long as the line has made no error: a transfer in flight has
  its bytes and one more in the FIFO; the bytes are in order; the processor
  reads the FIFO only while no transfer is in flight.
* `StreamSpec`: the port implements `RxStream`, errors and liveness included; as
  long as there is no error, a transfer that is not completed would break it.

With a line error order and completeness cannot be had: `DmaCompletes`, that a
transfer always ends, fails in the run `uart_dma_stuck`. The line status interrupt
makes the processor read the bytes a transfer was sized for (finding below).

Bounds: a FIFO of five, watermark three (at least two, as `write_watermark()`
keeps it above the burst length), a buffer of three (so that a transfer may be
cut, and need not be), programmed reads of at most two bytes (so that one leaves
bytes behind), eight bytes, two errors. Two transfers with programmed reads
between them, a callback racing a handler that holds a stale identification,
and an error in the middle of a transfer all occur.

Fairness: the handler (`WF(Handler)`) runs because the interrupt line is level
triggered and a handler that was entered runs to its end; the engine
(`WF(DmaBeat)`) serves a request that stays up; the callback gets the lock
(`SF(CompleteBegins)`: the spinlock hands out tickets, so a waiter is passed
over finitely often). The timeout is a hardware timer. The line owes nothing.

### IntTimer

One semaphore, any number of processes, one action per step of `hw_read()`,
`hw_write()` and `hw_ioctl()` that others can see: taking the semaphore (an
ioctl waits without being interruptible), each register access, each failing
allocation or copy, each return. A return without `up()` is modelled as what
it is: `NoMemory` (84-86, 119-122) and `TurnDown` (152, 153, 159) leave `sem`
at zero and count in `kept`. Requests are grouped by the path they take.
`READ_REG0` stores at the caller's address (165) after `access_ok()`, which
compares it with the end of user space and no more. If nothing is mapped there,
or only for reading, the store faults in the kernel, and the process dies in its
call with the semaphore taken (`StoreFaults`, `pc` `"dead"`).

* `Contiguous`, `WroteWhatItSaid`: writes are not mixed and are whole.
* `LostForGood`: after one such return, or a call that died, the timer is never
  written again, and a call ends only if it can be interrupted and is. This is
  what the code does, not what one would wish; the fix is an `up()` on five
  returns, and `put_user()` in place of the store.
* `CallsReturn`: until a call keeps the semaphore or dies with it, every call
  returns. Fairness: a process that has the semaphore goes on; `SF(Down(p))`
  because the kernel's semaphore keeps its waiters in a FIFO list.
* `CallsExclude`: the calls are those of `DeviceCalls` (safety), also once the
  device is lost; proved, and not in a run beside `Balance`, which it follows from.

Bounds: two processes, three calls, two bytes a call; two writers with two
bytes each can interleave in every way, and a third call meets the lost
semaphore.

### DeviceCalls

What both character devices promise: a call is outside, waiting or inside, and
at most one is inside. A call may die inside, and then no other gets in; until
one does, every call returns. `Stage` maps the control state of a process to its
stage. The GPIO port implements all of it, the timer the safety part only: its
calls also stop returning when one has kept the semaphore and gone.

### GpioPort

The timer's shape with the port's registers. `direction` is 0x100 in every port
this build makes, so a read turns all pins to input and a write to output
(145-147, 191-192) and nothing turns them back; `irq` is 0, so that a read
samples the pins (148-151) and the requests about interrupts do nothing. The
pins change from outside at any time (`Outside`). The values of eight pins are
two model values.

* `WriteReachesPins`: at the end of a write that succeeded the pins are driven
  at its last byte, whatever other processes asked for meanwhile.
* `ReadsPins`: a read delivers what the pins are held at from outside, never
  what another process's write left in the latch.
* `CallsSpec`: the port implements `DeviceCalls`: failing allocations, failing
  copies and signals included, every call returns, until one dies. Of the five
  returns that lose the timer, two give the semaphore back here and three come
  before it is taken. `READ_REG0`'s store (256-257) is the timer's, with the same
  `access_ok()` before it and the same end (`StoreFaults`): every later caller
  waits until it is interrupted.

What `READ_REG0` delivers is the register as the last call turned it, input or
output; it is modelled so and no property is claimed of the value.

Bounds and fairness as for the timer.

### GpioQueue and BoundedFifo

The ring buffer's own fields, with `q_enqueue()`, `q_dequeue()` and `q_init()`
as the handler, read's loop and the flush call them. Each of these holds the
port's semaphore, so that an enqueue never falls inside a read (`reading`).
`BoundedFifo` is the queue the port's users see: `Contents` maps the ring to
the sequence of its entries, oldest first, and `x`, what was taken last, to
`out`.

* `FifoSpec`: the ring implements the queue. Full and empty look alike to `Front`
  and `Rear`; `IInv`, that the two and `Size` agree, is what its proof rests on.
* `ShortReadsEndAtZero`: read takes a zero for the end. An entry that is zero
  (an edge on pins that are masked out) therefore ends a read early; the
  entries behind it stay for the next.

Bounds: four slots, so that the indices wrap at every offset; 128 on the unit.
The handler is not registered in this build (428-444 are a comment), so that
what the model shows is what the code would do if it were.

### DriverLifecycle

The three drivers follow one pattern, so the module has their steps as data,
`ProbeScript` and `RemoveScript` in the order of each source, and one action
for each kind of step and one for its failure. `Init` chooses the driver.
`held` is what the kernel has given out and to which port, by the key it knows
it by (number, address); `port[p].note` is what the port's structure says.
Release goes by the note and the key, as the code does, so that a wrong note
takes a thing from whoever has it. The driver core (`Bind`, `Unbind`, `Detach`,
one at a time on a device) and the files are modelled from how the drivers use
them.

What the code does on its unhappy paths is in the model as it is: the error
returns read the freed structure (`misread`: the value may be 0, and the device
then counts as bound to a port that is gone); without a minor number remove
follows a NULL device and the task ends with the device's lock taken
(`FollowNull`); a failed `cdev_add()` returns without remove (`NoCdev`);
`ioremap_nocache()` is not checked (`NoMapping`); the keypad's interrupt number
is not noted, so its handler is never freed. `broken` says that a step has
touched memory that is not there; nothing is said of what comes after.

* `IInv`: the notes are true, nothing has two owners, the driver core and the
  ports agree on who belongs to whom, and a number goes back only after its node
  and its character device (`NodesHaveNumbers`).
* `NothingOutlivesPort`, `LostForGood`: nothing stays given out to a port that
  is gone but the keypad's handler; what a failed `cdev_add()` has cut off
  stays, and makes its device useless from then on.
* `UsersFindPort`: an open file, or the keypad's handler, finds its port there,
  and mapped unless the mapping failed (`MappingFailed`: nobody looks at the
  result, and the first use through the file faults, `UseFaults`). Excepted are
  a device unbound by hand under the file, and the keypad's handler left behind
  by a removal.
* `EverythingEnds`: bind, unbind and unload come to an end, open files or not,
  but for the device lock of the NULL case.

What these except is excepted by name because the code does it: the keypad's
handler that is never freed, the misread return, the NULL device, the unbind by
hand. The properties state these and bound them; they would not catch them.

Bounds: two devices, two ports, two numbers, one file: two probes side by side,
or one device bound again after a failure. With three ports the run takes much
longer than the others together and shows nothing else. The module is loaded
once; one that was loaded again after it left something behind is not looked at.
Fairness: a task in probe, remove or exit goes on (`WF` per device); nobody need
load, bind, open or close anything, and in particular no file need be closed.

### Keypad

The keypad is modelled from what the driver relies on: a register for rows and
one for columns, a bit each, cleared by reading ("read the keypad code, clears
the interrupt", line 66). The halves of a key get to their registers one after
the other, in either order, at any time (`Latch`); that the driver keeps a half
between interrupts is the reason. `Press` is a key going on its way, at most
`Fingers` at a time. The handler reads the registers in two steps (`ReadRows`,
`ReadColumns`) and then disclaims the interrupt, keeps its half, or reports the
key. The line is shared: `Interrupt` may call the handler when the keypad shows
nothing. `overlapped` records that two keys were on their way at once, `found`
that this call of the handler read a bit.

* `OneByOne`, `EveryKeyReported`: as long as keys come one at a time each is
  reported, once and in order, however its halves fall between the reads.
* `NoMoreThanPressed`: when keys overlap the driver may pair the row of one with
  the column of another (the code has no means to tell), but reports no more
  keys than were pressed and no row or column nobody pressed.
* `OursIsClaimed`: an interrupt of which a bit was read is not disclaimed.

Bounds: two by two keys, three keys, two at a time: the key under way, one that
mixes with it, and one after them. Fairness: the keypad raises the interrupt
while a register shows a bit, and the handler runs to its end.

### Rescue

`content` says what each partition holds, as one of a few images; a partition
whose writing has started is `"broken"` until the command ends. A menu option
is a script of commands; `StartCommand` and `CommandSucceeds` / `CommandFails`
run it, so that failure and loss of power can come before a write, in the
middle of it, and between any two commands. Boot and root filesystem and the
six flash partitions are the items; `PowerOn` comes back to the program only if
what it needs to start is not itself broken. The user's confirmation and invalid
selections lead back where they came from. A key other than the one asked for is
no action: Linux's `select()` goes on with what is left of the second, and nothing
else changes (on a system whose `select()` leaves the time alone, a key held down
would stop the countdown). The input may end at any time (`InputEnds`: the console hangs up). The countdown then never times
out, since `select()` returns at once for ever, and compares a byte that was
never set (217-227), so that `Keypress` is possible and `Second` is not; the
menu goes on asking or is aborted by the double free of lines 394 and 433
(`SelectFails`); the question is answered no (`Decline`).

* `FactoryBackups`: every backup keeps its factory image under all failures but
  the FPGA's. That one is written to by its own option (338), so a failure or a
  loss of power in the middle of the write destroys the only copy; the second
  half says that it is then lost for good: no option, repeated or not, brings it
  back.
* `NoForeignImage`: no partition in use holds the image of another.
* `CompletedIsRestored`: an option that ran to its end has restored all it says
  it restores, but the FPGA (`Due`). `SuccessIsTrue` is the stronger claim of the
  printed message itself, and two options break it.
* `RestoreEnds`: once failures stop, restoring again repairs the partition, the
  FPGA's again excepted.
* `FirstBootProceeds`: a boot that nothing is in the way of boots, the one asked
  for in the menu and the one at the end of the countdown. `BootProceeds`,
  without that condition, is broken.
* `WaitEnds`: left alone the program does not stay in the countdown, unless its
  input has ended. That end is excepted by name: the program then stays.
* `NothingBegunUnasked`: once the input has ended, nothing is begun; what was
  confirmed before is carried out.

Bounds: two failures and one loss of power, three choices: an option fails,
another is tried, the first is repeated. The device tree and the U-Boot options
stand for the four that restore one partition. The FPGA's option is among those
of `rescue_faults`, with failures before, in and after its write to the backup;
its message is the subject of `rescue_fpga`.

Fairness: time passes (`WF(Second)`), commands end. The user owes nothing.

## The runs

| run | shows |
|---|---|
| `uart_registers` | the level is a consistent snapshot and the loop ends; watermark and timeout are read as written; a burst leaves a byte |
| `uart` | nothing is lost, the buffer is handed over; the driver implements `RxStream`, in full up to the first line error |
| `uart_dma_stuck` | *violation*: a transfer never completes after a line error |
| `inttimer_faults` | writes of competing processes; calls return until one keeps the semaphore or dies with it; then the device is lost |
| `gpio_faults` | writes reach the pins, reads sample them, every call returns whatever fails, until one dies at the caller's address |
| `gpio_queue` | the ring buffer implements a bounded queue; short reads end at a zero |
| `keypad` | keys one at a time come out as they went in; mixed keys are never more than were pressed |
| `driver_lifecycle` | every step of probe, remove, init and exit failing, with open files: releases, what a file or handler finds, termination |
| `rescue_faults` | backups (and how the FPGA's is lost), images, repair and boot under failures, a loss of power and an input that ends |
| `rescue_fpga` | *violation*: the FPGA option restores nothing |
| `rescue_halfway` | *violation*: success printed with the initrd not restored |
| `rescue_reboot` | *violation*: a failed boot cannot be repeated |

A run with `CHECK_DEADLOCK FALSE` is one whose system really stops: calls used
up, unit booted or switched off, port unregistered, module removed.

## What is proved

TLAPS proves, for every value of the constants that satisfies the modules'
named assumptions:

* `UartRegistersProofs`: `ConsistentSnapshot`, `ResultWithinCall`,
  `BurstLeavesByte` and `ReadsWhatWasWritten`. The first two are not inductive;
  `Reading` adds what each value read so far says of the level at the time (the
  first MSB is at most the level's, the LSB is that of the sampled level). Two
  equal MSBs around the sample then squeeze the sample's own MSB between them,
  and division is monotonic. For the other two, `RegInv` says what the halves of
  the watermark and of the timeout hold at each point of probe and of an ioctl;
  that two digits determine the value they were taken from is a lemma.
  `RetriesAreFew`: the loop, which has no bound in the code, goes round only
  after reading a larger MSB, hence at most as often as the MSB has values.
* `FastUartProofs`: `IInv` (the lock is with whoever is between taking and
  releasing it; `residue + Len(rxBuf) = xferLen` while a transfer runs; the
  interrupt bit is the complement of `rx_running`), from it `BufferHandedOver`
  and `NothingLost`; `CleanInv`; and from both that every step is a step of
  `RxStream` or a stutter, on any line: in order while there is no error, and
  new bytes only, which is `NothingLost`, after one. `DeliveredAtRest`: when the
  driver has come to rest nothing is left in the FIFO or the buffer, unless a
  line error has taken the bytes of the transfer that runs, which is finding 1.
* `IntTimerProofs`: `IInv`, which says that the semaphore is free, held by one
  process, dead or alive, or lost, and that a call's writes are the last ones
  while it holds it; from it `Contiguous` and `LostForGood`. `WroteWhatItSaid` needs a count:
  `Shares` says how many of the writes are whose at each point of a call.
  Also that the timer implements the safety part of `DeviceCalls`. `NoCallHangs`:
  a call that waits waits for one inside, or for a semaphore that was kept or
  died with (`WaitsForCall`), and `Left`, the steps a call inside has still to take, falls
  with each of its steps and with no other (`CallsRunOut`).
* `GpioPortProofs`: `IInv` (`Balance`, as above, but no return keeps the
  semaphore; `Direction`:
  between turning the pins and returning, the direction is that of the call
  inside), from it `WriteReachesPins`, `ReadsPins`, and the safety part of
  `DeviceCalls`; and `NoCallHangs`, as in the timer: a call waits for ever only
  for one that died.
* `GpioQueueProofs`: `IInv` and `FifoSpec`, for every capacity above one. The
  slot of the i-th entry is unique, so that an enqueue changes none of those
  queued, and moving `Front` renumbers them. `ShortReadsEndAtZero` follows from
  there being no zero among the bytes a read has taken.
* `KeypadProofs`: `IInv`, `OursIsClaimed` and, with `OneInv` (each half of the
  key under way is on its way, in its register, or known to the handler, and
  nowhere else), `OneByOne`. That the highest bit of a register exists is
  proved from the well-foundedness of the naturals. For `NoMoreThanPressed`,
  `CountInv` counts rows: those reported, the one in the register and the one
  the handler knows are no more than those latched. `AllReported` is what
  `OneInv` says of a keypad that is settled: no key pressed alone is forgotten.
* `DriverLifecycleProofs`: `IInv`, `NothingOutlivesPort`, `UsersFindPort` and
  `LostForGood`, for any number of devices, ports, numbers and files.
  `Ownership` is the argument: at each position of the scripts it says what the
  port's notes hold (`Marks`), hence what is still to be given back, and what
  the driver core still has to do (`Pending`). A step of one port changes
  nothing another port's part of the invariant speaks of, except through the
  kernel's tables, where what is claimed was free and what is released was its
  own (`PortStep`). That the mapping of a port with users was tried, and so
  succeeded or failed, is read off its notes (`NotedIsReady`). `EveryTaskRunsOut` has a measure, `Work`: what is still to be
  done with a device, a probe above its undoing above a bound device above its
  removal, because each can turn into the next. It falls with each step of a
  task, and in the module's exit with every step there is, until it is gone or a
  fault ends what can be said.
* `RescueProofs`: for every choice of options, and saying exactly what the FPGA's
  option and the rescue system's spoil. `OrderInv` is the argument: every write
  of a flash partition comes, in the commands still to run, after the read of
  its own backup, and what an option has not restored yet is still among them.
  From it `NoForeignImage`; `CompletedIsRestored`; `BackupsKept` (all but the
  FPGA's) and `FactoryBackups`, whose second half is that no command writes a
  lost image back; `OnlyDueChanges`, that a partition in use changes only while an option runs
  that says so; and with `PrintedInv`, that no command still to run undoes what
  was announced, `SuccessIsMostlyTrue`: the message is wrong of the FPGA and the
  initrd alone. `SuccessIsTrue` follows where the two options that break it are
  not offered.
  `ScriptInv` says what is left of a boot and what it has achieved; with it
  `RestoreStops` and `BootStops` (a script is carried through, unless a command
  fails by itself, the power is lost, or for one of two reasons a boot can find,
  one of them finding 4) and `BootsWhole` (nothing half restored is booted).
  `NothingBegunUnasked`, and `TypeOK`, which needs that exec ends the script it
  is in.

Where a theorem states what no run checks, its property is defined beside it, in
the module of proofs: `RetriesAreFew`, `DeliveredAtRest`, `WaitsForCall`,
`CallsRunOut`, `AllReported`, `TasksRunOut`, `UnloadRunsOut`, `BackupsKept`,
`OnlyDueChanges`, `SuccessIsMostlyTrue`, `RestoreStops`,
`BootStops`, `BootsWhole`.

Only model-checked: all liveness (`LoopEnds`, the fair parts of `StreamSpec` and
`CallsSpec`, `CallsReturn`, `EveryKeyReported`, `EverythingEnds`, `RestoreEnds`,
`FirstBootProceeds`, `WaitEnds`), which is beyond the prover, as is ENABLED. Of
most of these the safety half is proved: a measure that falls with every step,
or that nothing is left to do where nothing moves. What remains to the model
checker is that the fairness stated lets the steps be taken.

## Findings

1. `uart_dma_stuck`: "will always complete without needing to be paused"
   (`fluke_fn_fast_uart.c:208-210`) is not so after a line status interrupt
   (260-261).
2. `rescue_fpga`: source and destination are both the backup
   (`rescue_fluke_cda.c:338`). Success is printed with nothing restored; and, in
   `rescue_faults`, an attempt that fails or loses power while writing destroys
   the only factory image of the FPGA.
3. `rescue_halfway`: success is printed after the first of two restores
   (`rescue_fluke_cda.c:362`).
4. `rescue_reboot`: `do_boot()` leaves the mount behind when it fails
   (`rescue_fluke_cda.c:115-125`).

What the passing runs state as the code's behaviour, and a maintainer may want
to change: the returns that keep the timer's semaphore (`LostForGood`), the stores
at the caller's address in both drivers (`StoreFaults`; `put_user()` would report
the fault), the mapping nobody looks at (`MappingFailed`), the unhappy paths of probe listed under `DriverLifecycle`, the countdown at the end
of the input (`WaitEnds`). One comment is not so and not worth a run of its own:
the default case of `hw_ioctl()` "can't happen" (`altera_inttimer.c:184`), but
the check before it looks at the number alone, so that a request with a known
number and another size or direction gets there (`UnknownRequest`).

## Not modelled

* The UART's transmit path and modem status: `serial8250_tx_chars()` and its
  like belong to the kernel's 8250 core, which is not in this repository.
* What the serial core does with the operations left in place after the UART's
  remove (443), and the 8250 core's own open and close.
* The edge capture register behind the GPIO queue: its handler is never
  registered.
* A module loaded again after it has left things behind.
* Recipes, machine configuration, device trees and units: declarative, no
  behaviour of their own.
* Patches to the kernel, the boot loader and libraries: the programs they change
  are not here.

## Left to do

Every safety property a passing run checks is also proved. What is left is
liveness, of which the prover takes the safety half only, and the code named
under "Not modelled".
