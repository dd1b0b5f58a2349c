# Verification of the i.MX8 Little Kernel port

TLA+ models, TLC configurations and TLAPS proofs for the part of this
repository that has protocols of its own: the *ivshmem* communication stack
(`dev/ivshmem`), through which Little Kernel and Linux, in two cells of the
Jailhouse hypervisor, exchange frames over shared memory, and the drivers of
`platform/imx8/drivers` in which threads, interrupt handlers and DMA share
state: audio in both directions, SDMA, I2C, the channel status of S/PDIF and
the UART. Paths below are relative to `src/`.

Every definition that stands for code is listed in `PROJECT.json` under `map`,
with the lines it translates; `hazards` lists what can go wrong, at its line,
with the properties that would catch it.

## 1. The system

```
  application        console   rpc    binary   serial      readers, writers of audio
       |                |       |       |        |            |               |
  service table ------- services/{console,rpc,binary,serial}  |  channel      | status
                        |  consume            | write    SAI  PDM  S/PDIF <--- spdif_cs
                   endpoint (buffer, thread)  |           ^ interrupt, DMA,   |
                        |  push               |           | worker thread    SAI
                        |                     |          SDMA <--- ASRC    codecs: I2C
                   pipe thread  <---------  ivshm_write
                        |   data ring, virtio ring, state register
  ======================= shared memory, interrupts of the hypervisor ===========
                   the same code in the other cell (Linux)
```

### The ivshmem stack

| Component | State | Operations | Interacts through |
| --- | --- | --- | --- |
| driver `ivshmem.c` | registers, mapped regions | probe, set and get a state register | registers; an interrupt when the peer's register changes |
| pipe, handshake `ivshmem-pipe.c` 640-960 | `lstate`, `rstate`, event counters, semaphore, latched interrupt | `ivshm_pipe_init`, `_isr`, `_thread`, `_fsm`, `_set_state` | state registers, interrupts, memory half zeroed by its owner |
| pipe, rings `ivshmem-pipe.c` 440-640, 975-1010 | descriptor table, available and used ring, free list, head, tail, two locks | `ivshm_write`, `ivshm_tx_clean`, `ivshm_tx_frame`, `ivshm_pipe_poll` | shared rings; used and available event indices |
| endpoint `ivshmem-endpoint.c` | circular buffer, semaphore of packets, thread, list | create, push, thread, `pkt_read`, destroy | called by the pipe thread; calls the consumer of a service |
| service table `ivshmem-services.c` | mask of running services | init, disable | starts and stops the services when the pipe enters and leaves RUN |
| binary service | list of packets, semaphores, packet number, receiver state, circular buffer | `cipc_write_buf`, transmission thread, two consumers | frames with acknowledgement, timeout and retry |
| rpc service | `tid`, one shared buffer, one event, mutex | `ivshm_rpc_call`, `ivshm_rpc_consume` | request and response frames |
| serial service | callback, `buffer_rx`, circular buffer | consume, register and unregister a callback, `getchars` | data of either mode to the application |
| console service | logger thread and its event | start, stop, log | endpoint, logger thread |
| event manager | circular buffer, thread | log an event | binary service |

### The drivers

| Component | State | Operations | Interacts through |
| --- | --- | --- | --- |
| reception of SAI, PDM, S/PDIF | circular buffer, count of the units a reader waits for (`xfer_remaining`), event, flags of a life cycle, DMA channel | open, setup, start, read, flush, stop, close; interrupt, worker | spin lock, event, a semaphore that counts periods |
| transmission of SAI | circular buffer, private buffer of the DMA or none (zero copy), flags, counts of periods | the same with write, drop, silence | the same; events for underrun and drain |
| SDMA `sdma.c`, `sdma_hw.c` | channels, ring of buffer descriptors of each, map of events, interrupt status | request, prepare, submit, pause, resume, terminate; handler | callbacks of the clients, under the lock of the driver |
| ASRC `asrc.c` | input and output DMA of a context | start, wait for the end, stop | callback of SDMA, an event |
| I2C `i2c.c` | state of the handler, transfer, status, event, mutex | read and write of registers and streams, with retries | an interrupt for each byte; an event with a timeout |
| channel status `spdif_cs.c` | flag ACTIVE, two buffers, count, reported status, event, mutex, a SAI | start, stop, polling thread, report | deferred calls from and to S/PDIF |
| UART `uart.c`, `debug.c` | circular buffer, FIFO, interrupt enable, event, mutex | print from threads and from handlers; handler | spin lock, event |

The message unit, the GPT and GPIO keep tables of callbacks. Codec drivers
write tables of registers over I2C or forward one command over rpc.

### What is hard, and what should hold

- **Two cells that boot and restart independently.** Each zeroes its half of
  the shared memory when it goes from INIT to READY. A half must not be zeroed
  while the other cell works on it; both must get to RUN; indices read on one
  side must belong to the session of the other.
- **Wake-ups.** Events are counted by an interrupt handler, by the boot code
  and by timeouts, and consumed by one thread: none may be left behind.
- **A ring cleaned in two critical sections** under two locks by whoever comes
  first, writers or the pipe thread; a data ring the two ends of which wrap
  separately. No descriptor is lost or used twice, and what is read is what
  was written.
- **An endpoint that is freed under its thread**, packets written in parts.
- **Stop-and-wait with late acknowledgements** and a packet number that wraps.
- **Responses that arrive after the call they belong to has given up**, in one
  buffer shared by all calls.
- **Modes that switch while data arrives** (serial).
- **Readers that wait without a timeout** (SAI), flushes, stops, FIFO errors
  and closes from other threads, restarts from inside of a read.
- **A player that is ahead of its writer.** The worker fills the ring a few
  periods ahead of the DMA, or, with zero copy, the DMA plays the circular
  buffer itself: underruns, ending silence and a flush in three steps must
  neither replay nor skip nor leave the port in between.
- **A handler and clients on different CPUs** (SDMA): interrupts that merge,
  channels that change hands, descriptors that are freed.
- **Waits with a timeout** (I2C) that race the signal they wait for; retries
  after refused bytes and lost arbitration.
- **Calls that are deferred**, and may be out of date when they run (S/PDIF): a
  driver is started for a line that is lost, stopped in the middle of a sample.
- **A writer that sleeps until there is room** (UART), woken by a handler that
  turns itself off.

## 2. The modules

| Module | Models | Lines of code it stands for |
| --- | --- | --- |
| `IvshmSession` | what the handshake promises | abstract |
| `IvshmPipe` | boot, interrupt, thread, state machine, notification, restart | `ivshmem-pipe.c` |
| `IvshmPipe_proofs`, `IvshmSession_proofs` | theorems about the two | |
| `IvshmChannel` | what a direction of the pipe, and an endpoint, promise | abstract |
| `IvshmVring` | one direction of a running pipe | `ivshmem-pipe.c`, `virtio_ring.h` |
| `VringView`, `MCVring` | view for TLC; two sets of rings, one of which runs | |
| `IvshmVring_proofs`, `Vring_proofs` | lemmas about any rings; theorems about the two sets | |
| `IvshmEndpoint` | endpoint buffer and thread | `ivshmem-endpoint.c` |
| `IvshmBinary` | buffers, acknowledgements, retries | `services/binary/ivshmem-binary.c` |
| `IvshmRpc` | calls, late responses | `services/rpc/ivshmem-rpc.c` |
| `IvshmSerial` | buffered and callback mode | `services/serial/ivshmem-serial.c` |
| `MCServices` | the four above, one of which moves | |
| `Services_proofs` | theorems about the services and the endpoint | |
| `Capture` | the receive side of SAI, PDM and S/PDIF | `sai.c`, `pdm.c`, `spdif.c` |
| `Playback` | the transmit side of SAI with DMA | `sai.c` |
| `MCAudio` | the two above, one of which moves | |
| `Audio_proofs` | theorems about capture and playback | |
| `Sdma` | channels and handler, with audio ports and the ASRC as clients | `sdma.c`, `sdma_hw.c`, `asrc.c` |
| `I2c` | transfers of several threads, the handler | `i2c.c` |
| `Uart` | printing | `uart.c`, `debug.c` |
| `MCDevices` | the three above, one of which moves | |
| `Devices_proofs` | theorems about SDMA, I2C and the UART | |
| `SpdifCs` | S/PDIF driver and channel status driver | `spdif.c`, `spdif_cs.c` |
| `SpdifCs_proofs` | theorems about the status of S/PDIF | |

Components that share nothing are checked in one run without their product:
in `MCServices`, `MCAudio`, `MCDevices` the variable `moves`, and in `MCVring`
the variable `paced`, is chosen in the initial state and says which of them
takes steps; the others stay in their initial state, in which none of their
fair actions is enabled. The properties of such a root are those of the
components, under their names; where two components promise the same kind of
thing the root states the conjunction (`TypeOK`, `AllDelivered`,
`CallsReturn`, `NothingLost`, `CallsEnd`). The assumptions about constants are
definitions of the component (`SdmaAssumption`, ...) that the root assumes.

The layers compose through their abstract specifications. `IvshmPipe`
implements `IvshmSession`; `IvshmVring` is the pipe inside a session, and
implements `IvshmChannel`, as `IvshmEndpoint` does behind it; the services
take the channel for granted (frames are whole, in order and not lost) and are
modelled on sequences of messages.

Definitions whose comment begins with "Mutant" are faulty forms of the
definition that follows them; `PROJECT.json` pairs each property with one that
violates it.

### IvshmPipe

Two peers run the same code, each with four processes: the boot code (`boot`),
the interrupt handler (`Isr`, one step, under `info->lock`), the pipe thread
(`tpc`) and a writer (`wpc`, serialised by `tx_free_lock`).

| State | Code |
| --- | --- |
| `lstate`, `reg`, `rstate` | local state, state register, last state seen of the peer |
| `stateChange`, `dataAvail`, `sem`, `pend` | atomic counters, semaphore, interrupt latched by the hypervisor |
| `tpc`, `seen`, `target`, `doPoll` | control and locals of the thread; `seen` is the register as it was read, which may be stale when it is used |
| `availIdx`, `lastAvail`, `availEvent`, `numAdded` | ring indices and event indices, u16 |
| `geometry`, `services` | the queue lengths have been set; the services run |

`FsmRead`, `FsmAct`, `FsmPublish`, `FsmStore` are the reading of the peer's
register, the work of the transition (`InitQueues` zeroes the half), the
publication of the new state and its storage: four steps since the peer and the
handler can act in between. `Restart` is a reset of a cell: its memory half
survives, its registers do not.

`ShmFits` says whether half of the region holds the smallest rings (32
descriptors; 1920 bytes, so that one page of shared memory does). If not,
`ivshm_calc_qsize` returns an error that nobody looks at, and the thread links
the descriptors of queues of length 0: the loop runs off the mapping, and the
thread stays in `wild`. The theorems hold for either value; the runs have TRUE,
since a cell without memory to share gets no further than that.

Three constants describe the environment:

- `CalmWindow`: no interrupt hits a cell between the moment it enables its
  interrupts and the moment it sets itself to RESET (`ivshm_pipe_init` does
  both, in this order). Without it, a change of the peer starts the state
  machine before the lengths of the queues are known and before RESET is
  published: the thread gets to `wild`, and TLC finds `NoReinitInUse` violated.
  The code does nothing to
  close the window; the hypervisor's order of starting cells does.
- `QuietBoot`: a cell boots when the other one has come to rest. A restart
  takes as long as a boot of a kernel, the thread of the other peer far less.
  Without it `RingsInStep` fails: a peer that comes back quickly meets the
  other one before it has left the old session. A data event that this one
  counted in RUN is then served in READY, after it has reset its own indices
  and before the partner has zeroed its half: it takes a frame of the old
  session for the first of the new one.
- `RestartInRun`: a cell restarts only while its peer is in RUN. The state
  machine leaves READY only for a peer in READY or RUN, so that a peer in READY
  whose partner restarts stays there for good and the partner never passes
  INIT; without this constant TLC finds `BothReachRun` violated, and, from the
  second restart on, `ResetIsNoticed` (section 5).

The safety of the handshake (`HandshakeInv`, `NoReinitInUse`,
`SessionSpec`) needs the first constant only,
`ResetIsNoticed` also the third, `RingsInStep` all three, the pairing of events
and wake-ups (`EventHasWakeup`) none.

### IvshmVring

Writers and the pipe thread of the transmitting peer clean the used ring
(`CleanBegin`, `CleanEntry`, `CleanEnd` under `tx_clean_lock`; `Splice` under
`tx_free_lock`), check for room, take a descriptor, copy and publish; the
receiving peer takes, pushes, returns. The data ring is an array of cells that
hold the number of the frame last copied into them, so that a frame that is
overwritten before it was read is a frame made of different numbers. `Credit`
bounds the frames the callers keep outstanding. `InFlight` reads the frames out
of the rings and the memory; it is the refinement mapping to `IvshmChannel`.

`ivshm_write` goes on when it finds neither a descriptor nor room, so that
`BUG_ON(tx->num_free < 1)` (`ivshmem-pipe.c:604`) stops a caller that outruns
the receiver. The run `vring` has two sets of rings. On the tight ones callers
do that (the outcome is `halted`) and the properties state what holds until
then; on the paced ones (`NoBugOn`) callers who keep one frame outstanding
never get there, although the batch a thread holds between the two critical
sections is in neither list.

### IvshmEndpoint

`build` picks one of the three ways to build the source: Little Kernel (a full
buffer is an assertion), Little Kernel with `ENABLE_PERMISSIVE_MODE` (the pipe
thread waits for room) and Linux (the buffer grows, and a thread can be
stopped). Destruction in Little Kernel does not stop the thread, since that
code is compiled out: the model has the outcome `failed = "freed"`.
`CountedIsComplete` says besides, of the Linux build, that nothing is freed
under its thread.

### IvshmBinary, IvshmRpc, IvshmSerial

`IvshmBinary` has the callers (queue, copy, post), the transmission thread with
its retry loop, the thread that receives acknowledgements (store, post) and the
receiver. A chunk is named `<<buffer, number>>`. `Late` lets any
acknowledgement come after the timeout. `IvshmRpc` has the clients, the endpoint
thread (store, dispatch: the single buffer is overwritten in the first) and the
peer, which is Linux and not in the repository: it answers in order and may
make calls of its own. A procedure is the size of its output; a call without
one returns when it is sent (`SendOnly`). `IvshmSerial` has the endpoint thread and an application
that switches modes; the mode is read before the lock is taken, which is why
buffering is a step of its own.

### Capture

The three drivers were written from one another; the module has one state and
one set of helpers for them, and an action per driver where they differ.
`driver` and `perm` (`IMX_SAI_PERMISSIVE`) are chosen in `Init`. The circular
buffer is reduced to how much it holds (`rx.used`); `rx.xfer` is
`xfer_remaining`, negative for an error. Sections under the spin lock are
atomic; everything outside of them is a step: `SaiStop` and `StopSignal`,
`WorkerTake` and `SaiWork`, `PdmRead` and `PdmBusy`, the loop of a read.
Asynchronous calls follow the discipline of the users in this repository: open,
setup and close while no read is on, stop and flush at any time.

Outcomes that stop the system are values of `halted`: an overflow, a worker
that is too far behind or works after a close, a setup after a FIFO error
(close leaves the flag Started), a stop while a read has given the channel up,
a PDM assertion. A reader under which the buffer was emptied by a flush or a
permissive overflow is marked `cut`; it can be left waiting, and
`ReadIsCovered` and `ReadReturns` are about the others.
"Locked" is locked and warmed up. The mode without a private buffer
(zero-copy) and the `ENABLE_PERMISSIVE_MODE` variants are left out.

### Playback

The unit of data is one DMA period; a unit has the number under which it was
written, silence is 0. `txBuf` is the circular buffer, `slot` the private
buffer of the DMA, `played` what the DMA has played, `elapsed` the worker's
count, `txSem` what it has not yet taken notice of. A round of the worker is
one step, as it holds the lock, with an action for each of its outcomes:
`PopPeriod`, `PopEndingZeros` (first underrun of a flush), `PopStopRequests`
(the second), `PopInject` (silence after an underrun), `PopAssert`,
`TxDiscard` (the port is not open). The exception is an underrun with an empty
buffer in the build without `IMX_SAI_PERMISSIVE`, the default: `SAI_ASSERT`
(`sai.c:276-284`, at 606) prints and sleeps, with `tx_lock` held, and then the
worker goes on as if the slot were filled. These are `PopSleep` and
`PopResume`; in between (`asleep`) no call and no handler that takes the lock
makes a step, but the DMA plays on, the writer writes, and `TxSetup`, which
takes no lock, may set the port up. `underrun` remembers that the stream met
such an underrun: its DMA plays a slot twice, or what the writer has yet to
write, and `PlayedInOrder` and `DrainIsComplete` speak of streams without one.
`FifoEmpty` and `FifoStall` are FIFO
errors: at the end of a flush, and in the middle of a stream. `TxWrite` is the
test of the room, `TxCopy` the copy: two steps, as other calls and the worker
come in between. `mode` (private buffer or zero copy), `perm` (the build) and
`silence` (ending zeros) are chosen in `Init`.

### Sdma

`IsrNext`, `IsrPeriod`, `IsrGiveBack`, `IsrUnlock` are the handler: it reads
the interrupt status once (`todo`), takes the lock for each channel, and for
each buffer descriptor that is done calls back and gives it back to the
engine. `DmaPeriod` and `DmaError` are the engine, which may be as far ahead
as the ring allows. Clients are `Cyclic` (an audio port: terminates under the
lock and frees its descriptor) and `Finite` (the ASRC input, the callback of
which gives no descriptor back when the rest is on its way). `rough` is what
the environment may do to them: periods that fail, and a handler that is more
than one period late.

### I2c

Threads call (`Call`), take the mutex, poll for a free bus, begin, and wait for
the event of the handler or the timeout of a second; `Isr` takes the byte that
is done through the states of `fsm_state`, and `IsrSignal` signals. Between the
two a wait may time out, so that the event of one transfer is met by the next
(`late`). Bytes are refused (`Refused`), get stuck, or meet another master. The
flags of a stream write are uninitialised in the code (`i2c.c:737`): `FlagsOf`
is every combination.

### SpdifCs

Five actors: the interrupt handler of S/PDIF (`IsrLocked`, `IsrLost`), its DMA
worker (`WorkerWake`, which reads the DMA descriptor without the lock;
`WorkerPeriod` and `WorkerParse`, under it; `WorkerQueue`, without it), the
thread of deferred calls, which runs them in the order in which they were queued
(`dpcs`), the polling thread, and the application. The
polling thread holds the mutex for the setup of the SAI (`Configure`), drops it,
and takes it for the acquisition (`Acquire` to `ReadDone`) and for the report
(`Publish`); it decodes, compares and counts without it, so that every access
to `csBuff` and `redundancy_count` is a step. Of `spdif_cs_start` the clearing
of the two buffers is two steps, since the thread may be in between. A status
is a member of `Lines`, and a line has a rate, which it changes only when it is
lost. The S/PDIF driver measures the rate at the end of its warm-up (`fs`); the
status driver refuses one that is not in its table (`RateTable`) and sets its
SAI up for the others (`csRate`). A sample that is taken while the DPLL is not
locked, or at another rate than that of the line, does not decode, one of a
locked line may not. `prompt`: a new rate is handled before the clock is lost
or the port stopped (see section 5 for what happens otherwise). A second start
after a stop without a setup is left out: the interrupts of the DPLL are then
off and no lock is ever noticed.

### Uart

A text is its length. `Fill` is what a writer does in one hold of the spin
lock: it fills the buffer as far as it goes and returns or sleeps; `wasEmpty`
is its local `empty`, which is found out once. `IsrBuffered` moves a chunk to
the FIFO, signals if the buffer was full and disables itself when it is empty.
`FillFifo` and `IsrUnbuffered` are the build without the buffer, `PutsIrq` a
caller that must not sleep. `promptly`: a writer that is woken runs before the
handler has drained the rest of the buffer.

## 3. The runs

| Run | Shows | Bounds | States |
| --- | --- | --- | --- |
| `pipe_session` | `HandshakeInv`, `NoReinitInUse`, `IvshmSession` implemented | one restart of either peer at any moment | 1.1 M |
| `pipe_live` | `EventHasWakeup`, `ResetIsNoticed`, `RingsInStep`, `BothReachRun`, `FramesDelivered` | two restarts, one frame per session, from one peer | 101 k |
| `vring` | `HeldOnce`, `CleanGoesThrough`, `NoBugOn`, `IvshmChannel` implemented | 2 writers; tight: 2 descriptors, 5 cells, frames of 1 and 2; paced: 4 descriptors, one frame outstanding | 431 k |
| `services` | endpoint: `CountedIsComplete`, `IvshmChannel` implemented; binary: `InOrder`, `CountedIsStored`; rpc: `OwnReply`; serial: `NothingLost`; `AllDelivered`, `CallsReturn` | packets of 1 to 3 cells in 4, two destructions, three builds; two buffers of 2 or 3 chunks, 3 transmissions; two clients, 3 calls with or without a response, one call of the peer, 2 retries; 5 frames, 4 switches, 3 places | 152 k |
| `audio` | `PlayedInOrder`, `DrainIsComplete`; `ReadIsCovered`, `FlushHasReader`; `CallsEnd`: `FlushEnds`, `ReadReturns` | 3 units written in pairs, prefill 2, ring of 3, buffer of 6, 0 or 1 period of ending silence, both modes, 3 calls or stalls, 2 periods played while the worker sleeps; reads of 3 and 4 in a buffer of 4, 2 stops, flushes, closes or errors | 676 k |
| `devices` | SDMA: `PeriodsCounted`, `DescAlive`, `TransferEnds`; I2C: `OkIsWhole`; I2C and UART: `CallsEnd` | a port and an ASRC on 2 channels, 2 descriptors, transfers of 1, 3 and 4 periods, 3 calls, one error; 2 threads, transfers of up to 2 bytes, one refusal answered by a retry, 2 faults, 2 transfers; 3 texts of up to 8 characters, a buffer and a FIFO of 4 | 324 k |
| `channel_status` | `SaiIsOpen`, `RedundantReport`, `SteadyIsReported` | 2 statuses, 3 rates, one of which is not in the table, redundancy 2, 4 changes, starts or samples that do not decode | 272 k |
| `binary_wrap` | the violation of `CountedIsStored` by packet number 256 | one buffer of 257 chunks | |
| `rpc_stale` | the violation of `OwnReply` by a sixth late response | 7 calls, 5 retries as in the code | |
| `capture_elapsed` | the violation of `ElapsedInRange` by a setup after a stop | as `audio` | |
| `playback_stop` | the violation of `QuietWhenStopped` by a period that is counted when the port is stopped | as `audio`, 4 calls | |
| `sdma_events` | the violation of `EventMapCleared` by a channel that goes to another client | two clients, the event of one is 0 | |

The passing runs check the type invariants as well, of `IvshmPipe` in the first
of its two.

**Why the bounds are enough.** They are the smallest at which the case in
question happens, and each property has a mutant of the code that it catches
under the same bounds. A second restart adds a restart from a state that a
restart has produced. On the tight rings a frame of two cells does not fit the
last cell of five, so that the head wraps where the tail has to follow by the
length alone, and indices wrap after two rounds of the ring. With packets of
three cells in a buffer of four, most packets are written in parts. In `binary`
the packet number wraps at 4, beyond the longest buffer, as 256 does for a
short buffer; `binary_wrap` has the real number. In `Capture`, reads of 3 and 4
with bursts of 2 leave a rest in the buffer, which the next read meets; DMA
is at most `NrPeriods` ahead of the worker, beyond which the hardware
overwrites what was not read, whatever the driver does. In `Playback` three
units are an odd number of DMA periods, so that a period of the writer is
played by halves; a ring of three with a prefill of two wraps within a stream;
with one period of ending silence a flush cuts nothing off, with none it does.
In `Sdma` a transfer of four periods goes twice around a ring of two, and its
last round is the one that is not given back; one of three leaves the engine in
the middle of the ring, where the next one meets it, and one of a single period
shortens the ring. In `Uart` a text of eight is
twice the buffer: the writer sleeps at least once. In `SpdifCs` four changes
allow a line to be lost, found with another status, lost and found again.

**Deadlock** as TLC knows it is not checked: each system may stop, as a bound
is used up or an assertion of the code has stopped it. That nobody waits for
ever is stated by the liveness properties.

**Fairness.** Weak fairness of a thread that is ready to run: the kernel
schedules by priority, and the threads here block when they have nothing to do.
The exception is the pipe thread of the permissive build, which spins while the
buffer of an endpoint is full (`ivshmem-endpoint.c:189-197`), at a higher
priority than the endpoint thread: for that build `PushedIsRead` assumes a
second processor (`WITH_SMP := 1`, `platform/imx8/rules.mk:30`).
Weak fairness of interrupt handlers and timeouts. `BootIrq` has strong
fairness since with `QuietBoot` it is enabled again and again rather than
continuously: a cell that was reset does boot. A write that has begun goes on;
no service is obliged to write, and no cell to restart. In `Capture` the
hardware delivers data while it runs, and a thread in the middle of stop or
setup goes on; nobody is obliged to call them. In `IvshmRpc` the peer answers.
In `Playback` the DMA plays, an empty FIFO is reported, the worker runs, and no
client is obliged to write. Nothing is assumed of a worker that sleeps with the
lock (`PopResume`): who spins on the lock masks the interrupts of its processor,
perhaps those of the timer that is to wake the worker. In `Sdma` the engine and the handler make progress,
and so does a thread that is woken; in `I2c` bytes that do not get stuck are
done and other masters leave the bus; in `Uart` characters are sent. The thread
of the deferred calls has strong fairness in `SpdifCs`: it competes for the
mutex with a polling thread that sleeps between two rounds
(`spdif_cs.c:624`), so that it gets its turn.

## 4. The proofs

TLAPS checks the theorems below, for every value of the constants that the
assumptions admit: any number of restarts, frames, callers, threads, descriptors,
periods. A hypothesis stands where the property needs it.

| Theorem | Says | If |
| --- | --- | --- |
| **`IvshmPipe_proofs`** | | |
| `TypeCorrect` | `[]TypeOK` | |
| `Wakeups` | `[]EventHasWakeup` | |
| `Handshake`, `NoReinit` | `[]HandshakeInv`, `[]NoReinitInUse` | `CalmWindow` |
| `HandshakeImplementsSession` | `SessionSpec` | `CalmWindow` |
| `ResetNoticed` | `[]ResetIsNoticed` | `CalmWindow`, `RestartInRun` |
| `RingsAgree` | `[]RingsInStep` | these two, `QuietBoot`, `MaxFrames < U16` |
| **`IvshmSession_proofs`** | | |
| `SessionUsesFreshHalf` | whoever uses a session, or is about to, has zeroed its half for it | |
| **`Vring_proofs`** | | |
| `VringTypes`, `VringHeldOnce`, `VringCleans` | `[]TypeOK`, `[]HeldOnce`, `[]CleanGoesThrough` | |
| `VringNoBug` | `[]NoBugOn` | `PacedNum >= 4` |
| `VringChannel` | `ChannelSpec`: the rings implement `IvshmChannel` | `Roomy` |
| **`Services_proofs`** | | |
| `ServicesTypes` | `[]TypeOK` | |
| `ServicesNothingLost` | `[]NothingLost` (serial) | |
| `ServicesOwnReply` | `OwnReply` (rpc) | `Retries >= MaxCalls - 1` |
| `ServicesInOrder` | `[]InOrder` (binary) | `NoWrap`, `NoResend`, `OneCaller` |
| `ServicesCounted` | `[]CountedIsStored` (binary) | `NoWrap`, `NoResend`, not both `Late` and `NoOverwrite` |
| `ServicesComplete` | `[]CountedIsComplete` (endpoint) | |
| `ServicesChannel` | `ChannelSpec`: the endpoint implements `IvshmChannel` | |
| **`Devices_proofs`** | | |
| `DevicesTypes` | `[]TypeOK` | |
| `DevicesDescAlive` | `[]DescAlive` | |
| `DevicesPeriodsCounted` | `[]PeriodsCounted` | `[]NoSharing` |
| `DevicesNoSharing` | `[]NoSharing` | `TwoClients` |
| `DevicesOkIsWhole` | `[]OkIsWhole` (I2C) | |
| **`Audio_proofs`** | | |
| `AudioTypes` | `[]TypeOK` | |
| `ReadsAreCovered`, `FlushesHaveReader` | `[]ReadIsCovered`, `[]FlushHasReader` | |
| `PlaysInOrder`, `DrainsCompletely` | `[]PlayedInOrder`, `[]DrainIsComplete` | `Punctual` |
| **`SpdifCs_proofs`** | | |
| `TypeCorrect`, `OpenWhenRead`, `Redundant` | `[]TypeOK`, `[]SaiIsOpen`, `[]RedundantReport` | |

### What the hypotheses mean

Each is true in the run that checks the property, and says what the code relies
on without ensuring it.

- `CalmWindow`, `RestartInRun`, `QuietBoot`: section 2, `IvshmPipe`.
- `PacedNum >= 4`: with three descriptors TLC finds the `BUG_ON`, even for
  callers who keep one frame outstanding.
- `Roomy`: the data ring holds one frame more than may be outstanding, of the
  greatest length. `ivshm_tx_frame` copies whether or not there is room, so that
  nothing else keeps a frame from being overwritten.
- `Retries >= MaxCalls - 1`: a call meets at most one late response for each
  call before it, and skips as many as it has retries; `rpc_stale` shows what
  happens when they are used up.
- `NoWrap`: a buffer has fewer chunks than there are packet numbers;
  `binary_wrap` shows what happens beyond. `NoResend`: no buffer has a single
  chunk, or no acknowledgement is late. A buffer of one chunk leaves the
  receiver in RESET, where the same chunk, sent again, is taken for a new
  buffer (`ivshmem-binary.c:170`). With `NoOverwrite` a full buffer stops the
  receiver by an assertion, while a late acknowledgement may still let the
  sender count the chunk. `OneCaller`: a caller queues its buffer before it
  copies the payload, and the post of a second caller lets the thread send it
  in between (`ivshmem-binary.c:435-442`).
- `NoSharing`: no channel has two owners. A request returns the last one to
  whoever comes when none is left; two clients with two channels (`TwoClients`,
  as in the run) rule it out.
- `Punctual`: the worker is less late than the prefill is long, and the ending
  zeros fit behind it. (That a stream starts with at most one post that an
  earlier one left behind, for which there is a slot, is part of the properties:
  `FewLeft`.)

### The arguments

**The handshake.** `NoReinitInUse` is not inductive: it speaks of the moment at
which a half is zeroed, while the decision to zero it is taken earlier, from a
reading of the register that may be stale. `HandshakeInv` adds what the
decision rests on. `HeldBack`, its heart, says that as long as a peer uses the
session, or has read its partner READY and so is going to, the partner is
either past zeroing its half or in RESET without being about to leave it.
`LeaveInv` says that a peer leaves RUN only for a partner that is in RESET and
stays there, which gives the partner back the right to initialise.
`PublishInv` ties the state about to be published to the present one,
`RegisterInv` the register to the local state, and `BootInv` says that nothing
happens at a cell before it has set itself to RESET; this is where `CalmWindow` is used. For the refinement,
each action but three leaves the state of the session alone (`QuietSteps`);
reading the register is `Observe` (`ReadRefines`), publishing is `Refresh`,
`Open`, `Close` or `Fail` (`PublishRefines`), and so is a restart
(`RestartRefines`). `EventHasWakeup` is inductive together with `TypeOK`.

**Over sessions.** `NoticeInv` adds to `ResetIsNoticed` why the interrupt is
never taken for a spurious one: a peer in READY or RUN remembers a partner that
is not in RESET (`Remembers`), since the partner does not fall back while the
peer is in READY (`Onward`). `RingLifeInv` says that nothing of an older session
is left when the partner boots (`ClearInv`), that who writes has a session
(`WriteInv`), and that each receive index follows the index of the partner from
the moment both halves are prepared (`IndexInv`).

**Rings.** `IvshmVring_proofs` holds lemmas about `IvshmVring` for any constants
with `VringAssumption`; `Vring_proofs` uses them for both sets of rings. The
invariant `RingInv` counts the entries of a session without wrapping: `c` are
cleaned, `u` given back, `l` taken, `a` published, with `c <= u <= l <= a`;
`e[k]` is the descriptor of entry `k`, `st[k]` where its frame begins, `at[d]`
the place of a descriptor. The indices in memory are these counts modulo the
wrap (`Counts`, `Indexed`); a descriptor is in one place only, the free list,
the batch of the pipe thread, a writer or an entry (`Located`, `FreeList`,
`BatchList`), so that at most `Num` entries are open (the pigeonhole is `Fits`).
Entries come back in the order in which they were published (`InOrder`), which
is why the tail of the data ring follows its head and the cleaner always finds
the descriptor it expects: `CleanGoesThrough`. `Flight` says that the cells of
a frame under way still hold it, which needs `Roomy`; then what `InFlight`
reads out of memory is the numbers from `got` to the last one published, and a
step of the rings is `Send`, `Receive` or a stutter of the channel.

For callers who keep one frame outstanding `CountInv` counts descriptors: a
writer starts when the frame before has been read, cleans all entries but that
one, so that one is left uncleaned while it works and two when it has
published; the thread holds back two at most. `Accounted` adds them up, and a
writer that finds no descriptor would need a fifth in use.

**Services.** Serial: each frame is in exactly one of the buffer, the frames
handled, those lost and the hand of the thread (`SerialPlace`), under the lock
(`SerialLock`). Rpc: `RpcMutex` and `RpcMessages` say which calls the messages
under way answer; each is a call before the present one, counted against the
retries left. Binary: what is stored and what is sent are places in the stream
of all chunks (`StoredStream`, `SentStream`), at most one step apart
(`ReceiverEnd`, `SenderEnd`), and without late acknowledgements one message is
under way (`BinaryTurn`). Endpoint: `Enumerated` numbers the complete packets of
the buffer by an increasing function onto their last cells, of which there are
never fewer than the semaphore counts; `CellsInOrder` and `LastCell` place the
parts of a packet. The channel is this numbering, seen by the reader.

**Devices.** `DescAlive`: a descriptor in a channel belongs to a client whose
transfer is not over (`DescOfOwner`), and a step of the handler (`HandlerSteps`)
is kept apart by the lock from the client that would free it.
`PeriodsCounted`: `RingInStep` gives the place of the engine in the ring of
descriptors from the periods counted and those not yet seen. `NoSharing` for
two clients: at most one of them is beyond the first channel (`OneBeyond`), so
that the scan finds one. I2C: as long as no wait has timed out (`late`), the
state of the handler is that of the transfer of the thread with the mutex
(`XferState`): it is under way (`UnderWay`), or it has ended with all bytes
moved or with an error that the thread will read (`HasEnded`).

**Audio.** Capture: `ReadInv` ties the request of the reader to the flags and
to the worker, and `LagInv` bounds by how many periods the posts left behind by
a former descriptor let the worker run ahead; what the reader gets was
received (`Received`). Playback: in a stream without an underrun for which
nothing was injected, with few posts left by an earlier one (`FewLeft`), the
periods between the DMA and the last unit written form a queue of units and of
zeros; `Follows(g)` witnesses with a function `g` that they tell the units in
order, and each step shifts or extends `g`. `Padded` says that the ending zeros
come behind all that was written before the flush, and `StoppedInv` bounds what
a stop of the requests leaves: together `DrainIsComplete`. Where a number is a
remainder (positions in rings), small lemmas with explicit quotients replace
the division, on which the solver gives up.

**Status of S/PDIF.** The types need `StoreInv`: the thread tests the count and
adds one in two steps, and a start may set the count to 0 between them, so it is
the value read, not the count, that is below the redundancy. `SaiIsOpen` needs
`SaiInv`: the flag ACTIVE stands for an open SAI everywhere but between the two
steps of `spdif_cs_start`, which the mutex keeps apart from the reading. For
`RedundantReport`, `CountInv` compares the count with the statuses that were
really decoded in a row (`streak`), at each point of a round: where no start
has met the thread in a round, the count is at most the streak, and the streak
is one of the current buffer. A start that does meet a round (`crossed`) may
leave the count of the round above the streak; the next change of status, which
starts the count afresh, re-establishes the relation.

**Assumptions.** `PipeAssumption`, `SpdifCsAssumption`, `VringsAssumption`,
`ServicesAssumption`, `AudioAssumption` and `DevicesAssumption`: numbers are
numbers, sizes are positive, names of threads differ from the words that stand
for "nobody" or for the pipe thread. TLC evaluates them in the runs of the
modules. The lemmas of `IvshmVring_proofs` have `VringAssumption` for a
hypothesis, which `VringsAssumption` gives for both sets.

**Only model-checked.** Liveness, since the prover does not handle ENABLED:
`BothReachRun`, `FramesDelivered`, `AllDelivered`, `CallsReturn`, `CallsEnd`,
`TransferEnds`, `SteadyIsReported`. All other properties of the passing runs
have a theorem.

## 5. What the code does not do

Five runs end in a violation of what the code or its comments say.

- `binary_wrap`: the sender's packet number is a `char`, the receiver compares
  with `last_pkt + 1` in `int` (`ivshmem-binary.c:188`). Chunk 256 of a buffer
  and those behind it are acknowledged and dropped, and counted as written.
- `rpc_stale`: the retry counter is unsigned and decremented in the condition
  (`ivshmem-rpc.c:154`), so that the sixth response with a wrong `tid` is
  accepted.
- `capture_elapsed`: a setup frees the DMA descriptor while the semaphore
  counts periods of it; the assertion at `sai.c:1091`, whose FIXME describes
  the effect, fails.
- `playback_stop`: a stop leaves what the semaphore counts; the worker looks at
  Opened only (`sai.c:1225`) and reads from the buffer that stop has emptied:
  the assertion at `sai.c:606` fails, and it sleeps with the lock.
- `sdma_events`: `SDMA_DisableChannel` clears the bit of the channel for event
  `handle->eventSource` (`sdma_hw.c:1228`), which the driver never sets: the
  event of the former client still triggers the channel for the next one.

Others the models show without a run of their own, as nothing in the repository
says otherwise, or as an assumption of the run excludes them.

*ivshmem.* A peer remembers the state in which it last saw its partner, and
takes an interrupt that finds the same state for a spurious one
(`ivshmem-pipe.c:647`). A peer in READY remembers RESET when its partner
restarts; the partner comes back to READY; the peer publishes RUN, but has not
stored the new state of the partner yet, and the partner restarts again. The
peer stays in RUN for good, its partner in RESET. The second restart is the
first that can do this. Callers that outrun the receiver meet a `BUG_ON`
(`ivshmem-pipe.c:604`); the Little Kernel build frees an endpoint under its
thread; new serial data reaches the callback before older data is drained
(`ivshmem-serial.c:197`).

*Capture.* A flush at the wrong moment leaves a reader of SAI waiting
(`sai.c:3053`); the silent retry of a SAI read asks for the full length again
(`sai.c:4067`).

*Playback.* A flush cuts off `Prefill - 1` DMA periods less the ending silence
(`CutOff`). With a private buffer the slot that was not filled when the zeros
were added is played again. A post left behind by an earlier stream puts the
worker one period ahead for good (`excess`). Without `IMX_SAI_PERMISSIVE`,
the default, an underrun makes the worker sleep with `tx_lock` held and
interrupts masked, count the period and go on: with a private buffer the slot
is played again as it was; with zero copy the DMA runs over cells that it has
played, and an underrun is noticed at all only when the buffer is empty. A drop
is not followed by a realignment. A
second flush of a drained port never ends, since the errors are no longer
enabled; a FIFO stall during a flush is taken for its end; a start after a stop
without a setup has no DMA channel.

*SDMA and ASRC.* When a handler is more than one period late, or a period
fails, the transfer of the ASRC hangs and `imx_asrc_start` waits without a
timeout (`asrc.c:896`). So does, with nobody late, the transfer that follows one
whose length is no multiple of the ring: it is prepared with the handler at
descriptor 0 (`sdma_hw.c:1141`), but the engine goes on where it was, since its
current descriptor is set only when the channel is allocated (`sdma.c:899`).
Without its premise `position[chan[k]] = index[chan[k]]` TLC finds
`TransferEnds` violated by a transfer that follows one of three periods. The callback wakes
the thread of the ASRC, which frees the descriptor while the handler still reads
it (`sdma.c:426-444`), although the callback pauses the channel first "to avoid
further races while freeing DMA descriptor" (`asrc.c:256`). When no channel is
left the last one is returned with `NO_ERROR` (`sdma.c:984`).

*I2C.* A wait that times out while the handler is about to signal makes the
next transfer return early; it also leaves its own transfer without a stop, so
that the next call polls for a free bus for ever, with the mutex
(`i2c.c:618`). Retries after a lost arbitration are not counted.

*Channel status.* The call that starts the status driver is queued after the
lock was given up (`spdif.c:855-875`). When it follows a loss of the clock or a
stop, it starts a driver that the next lock finds started (`ERR_BAD_STATE`):
its `cs_data` is the status it reported before, while the S/PDIF driver has
cleared its own "to force update on relock", so that an unchanged status is not
told again. With `Prompts = {FALSE}` TLC finds `SteadyIsReported` violated
without its premise `prompt`. A stop and a start between the two critical
sections of the polling thread leave a SAI that is open and not set up; the
assertion of `imx_sai_rx_start` stops the system (`spdifHalted`). A start in
the middle of a round makes the thread report the status of the line before
(`crossed`). The call that starts it ignores the result (`spdif.c:412-413`): of
a line at a rate that is not in the table, such as 32 kHz, whose entry is
compiled out (`spdif_cs.c:258-260`), no status is ever told. The rate is
measured once, at the end of the warm-up: a loss that is over before the
handler looks leaves the rate of the line before. When the SAI does not open,
ACTIVE stays set, and the stop closes what was not opened.

*UART.* `imx_dputs_buffered` finds out once whether the buffer is empty
(`uart.c:255`). A writer that sleeps on a full buffer and runs again only when
the handler has drained all of it, and turned itself off, fills it without the
interrupt; the next writer sleeps for ever, with `dputs_lock` held. With
`Prompts = {FALSE}` TLC finds this when `promptly` is taken out of
`TextGoesOut`. The buffer of the code is 511 characters, the chunk about 30: a
thread of low priority is late enough.

## 6. What is not modelled

- SAI: chained ports, transmission without DMA, warm-up frames, zero copy in
  reception, counters and clock configuration. The paths of the workers under
  `ENABLE_PERMISSIVE_MODE` (`sai.c:1076-1086`, `spdif.c:750-760`), which only
  `IMX_PERMISSIVE=true` builds (`platform/imx8/rules.mk:121-123`) and no project
  sets. Gain of PDM. S/PDIF: the status in the frames themselves, used without
  the status driver.
- I2C: "Bus ownership lost" before a repeated start (`i2c.c:415-421`). It is not
  reached: who loses the bus sets IAL, which the handler looks at first.
- Channel status: the extraction from samples (`spdif_extract.c`, tables and
  bit patterns; a value or an error in the model), registration, self-test.
- SDMA: channel 0, scripts and contexts, priorities. ASRC: output side, flags.
- UART: reception, panic, and the time before the interrupt is registered.
- The life of the services over sessions. `ivshm_exit_rpc` frees buffers and
  endpoints and `ivshm_init_rpc` creates nothing again; the transmission thread
  of the serial service and the logger of the console block in a wait while
  their join is bounded. The service table, the console, the event manager,
  file requests of the binary service, `ivshm_rpc_reply` belong here.
- The message unit, GPT, GPIO: tables of callbacks under a lock. Of the console
  log, `klog_read` is outside of the repository.
- Registers and their tables: codecs, pin control, the HDMI receivers, clock
  trees, device trees; wrappers of one rpc call each. They have no protocol.
- Vendor code (`fsl_*`, `*_hw.c`), boards and applications.
- Memory ordering. The barriers in the ring code are taken to work: shared
  memory is sequentially consistent in the models.

## 7. Plan

Done: the stack that both operating systems rely on, the data path of audio,
the buses, the status of S/PDIF, the debug output. What is left, in order:

1. **Service table, console, event manager**, composed with several endpoints
   over sessions: what is started is stopped, and nothing uses what was freed.
2. **ASRC**: the output side and the state of a context, composed with `Sdma`.
3. **Message unit, GPT, GPIO**: callbacks registered while interrupts are taken.
4. **File requests** of the binary service, and `ivshm_rpc_reply`.

The proofs cover the safety of what is modelled. The modules above bring their
own theorems; of the present ones, the hypotheses to look at are those a change
of the code could remove: the comparison with the state remembered
(`RestartInRun`), the width of the packet number (`NoWrap`), the retry counter
of a call, and the missing check for room in `ivshm_tx_frame` (`Roomy`).
