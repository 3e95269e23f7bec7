# Verification of the Foxden RISC-V peripherals

Foxden is a RISC-V SoC for FPGA boards. Its processor cores, caches and MAC are third-party generators; what the
repository itself contributes, and what this project is about, are the peripherals of the SoC and the software that
drives them: an SD card controller, a UART and an Ethernet controller in Verilog, with their Linux, u-boot and boot ROM
drivers in C. All paths below are relative to the root of the repository.

Contents: [inventory](#inventory), [modules](#modules), [runs](#runs), [assumptions and fairness](#assumptions-and-fairness),
[proofs](#proofs), [findings](#findings), [not modelled](#not-modelled), [plan](#plan).

## Inventory

Three of these parts have the same shape: a device with a register file, a FIFO or descriptor ring between two actors,
a DMA engine, status bits that hardware sets and a driver clears, and a driver that polls some of them and is
interrupted by others. The hard behaviours are there, between the actors.

| Component | State | Operations | What makes it correct |
|---|---|---|---|
| SD data path: `sdc/sd_data_master.v`, `sdc/sd_data_serial_host.v`, FIFO and AXI master of `sdc/axi_sdc_controller.v` | state machines of master and serial host, FIFO memory and positions, AXI handshake registers, DMA address, `int_status` | clock edge of the SD clock, AXI handshakes on the system clock, start of a transfer, clear of a status | data reported good is all there and in place; DMA stays in the buffer; each burst fits the page and the FIFO; a transfer ends |
| SD command path: `sdc/sd_cmd_master.v`, `sdc/sd_cmd_serial_host.v`, start logic of `sdc/axi_sdc_controller.v` | state machines, watchdog, `cmd_int_status_reg`, armed data transfer | start (write of `argument`), time out, finish, busy check, reset of the serial host | commands do not overlap; the status belongs to the command; a write is started by its command |
| Linux SD driver: `patches/fpga-axi-sdc.c` | `host->mrq`, `host->data`, mapped buffer, interrupt enables | `sdc_request`, `sdc_send_cmd`, `sdc_cmd_finish`, `sdc_setup_data_xfer`, `sdc_isr`, `sdc_set_ios`, `sdc_reset`, probe, remove | a request is reported once and truthfully; no DMA into a buffer that was given back |
| Boot ROM: `bootrom/bootrom.c`, `bootrom/kprintf.c`, on the vendored `bootrom/ff.c` | card registers, retry counters, the window of the file system | card start-up, block reads, search for the FAT volume, load of `boot.elf`, UART output | starts the program of the file and nothing else, boots from any card that answers |
| u-boot drivers: `patches/u-boot/vivado_riscv64/{sdc,serial}.c` | polling state | send command, finish command, finish data, `putc`, `getc` | as the Linux driver, by polling |
| UART: `uart/uart.v` | two FIFOs, shifters, flow control (RTS/CTS, XON/XOFF), interrupt enables | receive, transmit, register accesses, FIFO resets | bytes arrive in order; overrun is flagged; flow control stops the sender in time |
| Linux UART driver and OpenSBI console: `patches/fpga-axi-uart.c`, `patches/opensbi/platform.c` | control register, port lock, transmit ring | transmit, receive, console write, start-up, shutdown, poll | no lost wake-up of the transmitter; the control register is not torn |
| Ethernet controller: `ethernet/ethernet.v` | transmit and receive descriptor rings, DMA engines, interrupt flags, MDIO shifter | descriptor fetch, DMA, status write, interrupt, MDIO | each descriptor is used once and in order; a status belongs to its frame |
| Linux Ethernet driver: `patches/fpga-axi-eth.c` | ring positions, socket buffers, interrupt enables | open, close, xmit, ISR, refill, change MTU | no buffer freed twice or while DMA owns it; no wake-up is lost; close ends |
| JTAG tunnel: `vhdl-wrapper/.../bscan2jtag.vhdl` | shift state | tunnel of a TAP through a user register | the tunnelled TAP sees the states the debugger asked for |
| Board control: `board/common/{fan-control,mem-reset-control}.v` | counters | PWM, reset sequence | – |
| Board glue of the MAC: `ethernet/ethernet-sfp-10g.v`, `board/rk-xcku5p/ethernet-rk-xcku5p.v` | none | wiring | – |
| Configuration and build: `src/main/scala`, `gui`, `Makefile`, TCL | none at run time | – | – |
| Third party: `generators`, `ethernet/verilog-ethernet`, `bootrom/ff.c` | – | – | – |

How they interact:

- A driver and its controller share registers. Writes of the driver become one-edge pulses (`cmd_start`, `cmd_int_rst`,
  `data_int_rst`) that wait for the next edge of the much slower SD clock; status registers change under the driver.
- The SD clock (`clock_posedge`, an enable of the system clock) drives both masters and both serial hosts at once, each
  reading the others' registers as they were. The AXI side runs on every system clock, so that any number of its
  handshakes falls between two SD edges. The FIFO is where the two meet.
- A data transfer is armed by the command path: a read on the start of its command, a write on its good completion.
- Inside the Linux driver `sdc_request` and `sdc_isr` exclude each other by `host->lock`, but a request spans several
  locked sections, with the controller running in between; and `sdc_isr` runs for two reasons (data, card detect).
- The control register of the UART holds the interrupt enables and the stop bit together. The tty layer, the interrupt
  handler and the console each read, change and write it; `port->lock` keeps them apart, start-up and shutdown do not
  take it. Two UARTs meet on a wire: RTS and CTS cross four clocks of delay, XON and XOFF overtake what is queued.
- The Ethernet rings have four positions each way: the hardware owns `rx_pkt_out` and `tx_pkt_out`, the driver the
  other two and its own copies of what it has reclaimed. Every frame sets a flag, the flags share one interrupt, and
  the handler clears them before it looks at the rings. A frame passes a stream, a FIFO and the bus, which run at their
  own speeds and stop separately.

The hazards this gives rise to are listed line by line in `PROJECT.json` ("hazards"), each with the properties that
watch it, or with the reason why none does yet.

## Modules

**`SdTransfer`** is what a driver may rely on, without clocks, FIFO or bus: words arrive one at a time and never twice;
"complete" without an error is reported only when every word has arrived and the bus is quiet; an error may be reported
early, while the bus still runs, and the "complete" bit of that failed transfer follows when it stops.

**`SdDataPath`** is the detailed model. Variables carry the names of the registers. `Posedge` is one edge of the SD
clock: it conjoins one action of `sd_data_master` (`DataMaster`: `MasterIdle`, `MasterStartRx`, ..), one of the serial
host (`SerialHost`), the FIFO port of the serial host and the reload of the DMA address, all reading unprimed values as
nonblocking assignments do. `RxBurst`, `TxBurst`, `AwAccept`, `WBeat`, `BResp`, `RBeat` are the handshakes of the AXI
side. A beat and an SD edge that use the two ports of the FIFO on the same system clock are one step (`PosedgeWBeat`,
`PosedgeRBeat`): what the FIFO does then (`PushPop`) is not a push after a pop, since a word that comes as the only one
leaves goes straight to the output register (`sdc/axi_sdc_controller.v:448`). `CmdStart` and `ClearStatus` are the
environment. Abstractions: a word is its number in the transfer, so that a lost, stale, repeated or misplaced word is
visible in `mem` (a read) or `card` (a write); the FIFO memory with its two positions is a sequence plus `fifo_dout`,
the registered output (positions and their wrap-around are `SdBurst`'s); the 8 or 32 edges of a word are two, the one
that completes it and the one on which the FIFO moves, with `HostWait` for any number of others; the watchdog may expire
on any edge; a CRC or a response token is good or bad.

**`SdBurst`** is the arithmetic the other abstracts: FIFO positions, the length computed for a burst from the fill and
the address, and the beat counter, with the wrap-around of each register. It justifies that `SdDataPath` lets a burst
have any length from one to what the FIFO can serve.

**`SdcHost`** is the Linux driver, the command path, and the data master as the driver sees it. One driver action is
what `sdc_request`, `sdc_send_cmd`, `sdc_cmd_finish` or `sdc_isr` do between two accesses to registers that the hardware
may change: `Request`, `Poll` (read a status, ask for it to be cleared), `AfterSbc`, `AfterCmd`, `AfterLast` (what
follows when the clear was seen), `DataIrq`/`CardDetectIrq` (the two reasons for `sdc_isr`), `IsrStop`, `IsrDone`,
`IsrStray`. `Posedge` conjoins one action of each hardware part; `BurstEnds` and `CardEnds` are the bus and the card.
`pc = "idle"` means that `host->lock` is free. The conditions of the data master on the FIFO are left open here (it
may complete or fail whenever data flows), which is what `SdDataPath` resolves. The wrong end bit and the index error of
a response are folded into `CCRCE`: the driver treats all of them as errors. `CmdFinish` waits for a busy card after the
command that stops a transfer and, at the card's choice, after a command without data, which may have `MMC_RSP_BUSY` too.

**`ByteChannel`** is what a serial link promises: bytes arrive in order, each once and unchanged, and an urgent byte
(XON, XOFF) overtakes the others and may replace one that has not left yet.

**`UartLink`** is `uart/uart.v`, its transmitter wired to the receiver of another one, and RTS of that one to CTS of the
first. A step is a clock of both. Variables carry the register names; the FIFO memories with their positions are
sequences. `Transmit` is `TxIdle`, `TxBit` or `TxStopBit` at the end of a bit and `TxBetween` otherwise; `Receive` is
`RxIdle` (waiting for a start bit), `RxBit`, `RxPush`, or `RxBetween`; `Write` and `Read*` are the register accesses that
each side may make at the same clock. The two UARTs start in any phase to each other. A byte is a function from the
places of its bits; the software writes those of the sequence `Data` over and over, and `Urgent` are XON and XOFF.
`UartLinkMC` gives them values.

**`UartHost`** is the Linux driver with the registers it shares. One step is one register access or one decision between
two: `TrRead`, `TrMask`, `TrXChar`, `TrStopped`, `TrEmpty`, `TrStatus`, `TrArm`, `TrChar`, `TrMax`, `TrReturn` are
`axi_uart_transmit`, `Isr*` the interrupt handler, `Tty*` the tty layer that calls it, `Open*` and `Close*` start-up and
shutdown (which write the control register without the lock), `Con*` a console message. `Drain` and `Arrive` are the
device. A FIFO is the number of bytes in it.

**`EthBus`, `EthTx`, `EthRx`, `EthDma`**: the two DMA engines of `ethernet/ethernet.v`, byte by byte. `EthBus` has what they
share (bursts, alignment, the 4KB rule). A step is a clock: `EthTx` conjoins the stream to the MAC (`TxStream`), the
fetch and the run of a descriptor (`TxFetch`, `TxRun`), the beat and the burst of the read bus (`Beat`, `TxBurst`),
`EthRx` the stream from the MAC (`RxStream`), the descriptor, and the beat, the answer and the burst of the write bus
(`WBeat`, `Answer`, `RxBurst`). A byte of a packet is known by its address, a byte of a frame by its number, so that a
byte which is lost, stale, doubled or shifted shows. The slave takes an address, and answers, at any time. Received
bytes that come after the bus has stopped (a frame longer than its buffer) are counted and not kept. `EthDma` puts the
two together, one direction at a time: they share no registers but the port of the register file.

**`EthHost`** is the driver with both rings. The hardware is `RxStart`, `RxEnd`, `TxStart`, `TxEnd`; how a frame is moved
is `EthDma`'s. `Xmit`, `IsrLock` .. `IsrEnd`, `Open*`, `Close*` and `Mtu*` are the driver: `pc` is where the holder of
`priv->lock` is between two accesses to what the hardware may change, `irq` a processor that has entered the handler
and waits for the lock, `Filled` the common refill, which may fail at any slot. Where driver and hardware hold the same
position (`rx_inp`, `tx_inp`) there is one variable, and `int_status` is `rx_int` or `tx_int`, which the handler clears
together. The branch of `axi_eth_start_xmit` for a full ring (`patches/fpga-axi-eth.c:336`) has no action: a step that
would take it violates `RingsOwned`. What a received frame is worth to the stack is left out.

**`ElfLoad`** is `download()` of the boot ROM without the file system: the loops over the segments of `BOOT.ELF` and over
the chunks of each, the chunk that would go over the memory the boot ROM itself runs on and is put aside instead
(`Clip`, `Target`), and the copy and the jump (`Jump`). Memory, file and segments are counted in blocks of 512 bytes, and
block n of the file contains n. `Scribble` stands for whatever `f_read` does to the memory of its chunk before it
succeeds or fails.

**`BootRom`** is the rest of the boot ROM, on the same variables: `main`'s loop (`Reset` .. `Again`), the start-up of the
card (`ini_sd`, one `StartupCmd` per command of `Startup`, and `StartupOpCond` for ACMD41), `disk_read` (`ReadCmd`,
`ReadAnswer`, `ReadData`, `ReadStop`), the search for the volume, and the calls that `download()` makes. The card is a table
of the states in which it takes a command (`Taken`, `Becomes`); the data engine (`Block`, `BadBlock`, `DataTimeout`) goes on
by itself once a read command has set it up, whatever becomes of the command. A command with its answer and the clearing
of its status is one step, since `SdcHost` shows how they meet; only a read takes two, because it may meet the transfer of
an earlier one. Then its own start is lost (`sdc/sd_data_master.v:81` takes it in `IDLE` only), and the completion of the
earlier transfer shows unless one is set up (`Status`, `sdc/axi_sdc_controller.v:482`). Answers, commands and blocks may be
lost or spoilt and the processor may be reset, `MaxFaults` times in all (`SystemReset`; the card keeps its state, and its
power where the board cannot switch it off). An answer that is spoilt is refused, with two exceptions: that of CMD8 may have
another echo, and that of ACMD41, which nothing protects (`bootrom/bootrom.c:267`), may say anything of the card. A card that
is asked for a sector it does not have (`OnCard`), as with an address in the wrong unit, says so in a field of its answer
that the driver does not look at, and sends nothing.

FatFs is third-party; of it there is what decides which sector is read next. `Mount`, `ReadTable`, `NextPartition` and
`Refuse` are `find_volume` and `check_fs` (`bootrom/ff.c:3316`), for a card without partitions, with an MBR, and with a GPT
whose table shares the one window with the first sectors of the partitions. A read of such a first sector that fails is
not passed on (`Checking`): the search goes on at the next partition, without a reset of the controller (`pc = "skip"`), and the
read that follows may meet what the failed one left behind (`rd.late`). A sector that is not the one asked for is taken for
nothing else (`Refuse`): by its contents no other sector passes for a table or a directory (the FAT volume's
first sector that comes for another partition's makes a volume, on which no file is found). An open reads the directory, in
the sector before the file; a program header is in the first block of the file; a chunk is read in as many pieces as the
clusters make of it. Left out: the alignment of buffers, the checks of the ELF header, and the messages.

**`UbootSd`** composes the boot ROM with what follows it: after the jump, the SD driver of u-boot on the card and the
controller that the boot ROM leaves behind (`Probe`, `Identify`, `Read`, `ReadFinish`, `Stop`). The mmc core of u-boot is
external: it identifies the card at any time, asks for one block or two, and stops a read of more than one block that
went well. `UbootSdMC` has three files to boot from: one over the boot ROM's memory whose first chunk is cut, with a
note and a segment that is cleared in part; one that is cleared over the end of that memory; and one that is too short.
The card has them without partitions, or the first of them in the second of three partitions, by MBR or by GPT
(`SampleInit`).

**`SdDataPathProofs`, `SdBurstProofs`, `SdcHostProofs`, `UartLinkProofs`, `UartHostProofs`, `EthDmaProofs`,
`EthHostProofs`, `UbootSdProofs`** hold the theorems and their proofs.

Operators whose name ends in a suffix after `_` (`rx_stb_uncounted`, `Reload_Never`, ..) and whose comment begins with
"Mutant" are plausible wrong versions of the definition below them. They are not part of the model: each shows that a
property notices the mistake.

## Runs

| Run | Module and configuration | Checks | States |
|---|---|---|---|
| `data_path` | `SdDataPath.cfg` | `TypeOK`, `ReadIntegrity`, `WriteIntegrity`, `DmaInBuffer`, `HeadIsOut`, `TransferEnds`, refinement of `SdTransfer` | 488 319 |
| `burst` | `SdBurst.cfg` | `TypeOK`, `BurstInPage`, `BurstCovered`, `LastBeatMarked`, `BurstMaximal` | 92 308 |
| `host` | `SdcHost.cfg` | `BufferOwned`, `RequestSound`, `DataStatusFresh`, `CmdStatusFresh`, `OneCommand`, `RequestEnds` | 436 255 |
| `host_retry` | `SdcHostRetry.cfg` | `RequestIntegrity` is violated (finding 1) | – |
| `host_clock50` | `SdcHostClock50.cfg` | `RequestEnds` is violated (finding 2) | – |
| `uart_link` | `UartLink.cfg` | `FlowConverges`, refinement of `ByteChannel` | 92 827 |
| `uart_host` | `UartHost.cfg` | `TypeOK`, `Armed`, `StopKept`, `NoDrop`, `TxFlows`, `ConsoleEnds` | 82 015 |
| `uart_reopen` | `UartHostReopen.cfg` | `RxOn` is violated (finding 3) | – |
| `eth_dma` | `EthDma.cfg` | `TxIntegrity`, `RxIntegrity`, `BusSafe`, `Ends` | 33 738 |
| `eth_host` | `EthHost.cfg` | `TypeOK`, `RingsOwned`, `Flows` | 119 184 |
| `eth_close` | `EthHostClose.cfg` | `CloseEnds` is violated (finding 4) | – |
| `boot` | `UbootSd.cfg` | `Loaded`, `OwnKept`, `ReadOk`, `Settled`, `Boots`, `UbootEnds`, refinement of `ElfLoad` (`Loads`) | 765 410 |

All passing runs are exhaustive. All runs check for deadlock but `eth_close`, where the driver hangs.

What they show:

- `data_path`: for transfers one after another, in both directions, with every interleaving of the two clocks, pushes
  and pops of the FIFO on one clock included, good and bad CRCs, bus errors, FIFO overrun and underrun and a watchdog
  that may expire at any time: a transfer reported good has all its words in place (`ReadIntegrity`, `WriteIntegrity`);
  write bursts never leave the buffer, including the beats that follow an abort (`DmaInBuffer`); the FIFO's output
  register is always its oldest word, though it is reloaded from two clocks, sometimes at once (`HeadIsOut`); every
  started transfer gets a status (`TransferEnds`); and the whole is an implementation of `SdTransfer` (`Refines`), with
  the words in place, `bus_cycle` and the visible status for its state.
- `burst`: from every address and every fill, a burst never crosses a 4KB page, never outruns the FIFO, marks its last
  beat, and is never shorter than it must be.
- `host`: with lost or corrupt answers to any command, data CRC errors, data timeouts, FIFO errors that leave a burst on
  the bus, card-detect interrupts at any time, and requests that come while the serial host is still in its reset after
  a command timeout: two commands never overlap (`OneCommand`), the command status that is polled is that of the command
  that was sent (`CmdStatusFresh`), and every request is reported (`RequestEnds`): a start pulse that falls into that
  reset is lost, and the watchdog makes it good. Unless a failed command with data has left its transfer in the
  controller (below), a request reported good has its data (`RequestSound`), the status it was ended by was its own
  (`DataStatusFresh`), and no read DMA hits a buffer that was given back (`BufferOwned`).
- `uart_link`: whatever the phases of the two UARTs and however slowly the receiver is read, the bytes read are the
  bytes written (`Refines`): RTS stops the sender before the receive FIFO is full. An XOFF that is replaced by an XON
  before it has left is not missed: the one written last is the one that counts in the end (`FlowConverges`).
- `uart_host`: whenever a byte may be sent and waits, the interrupt that will send it is enabled or somebody is about to
  enable it (`Armed`); the hardware is stopped exactly when the tty is, although a console message lets it go for a
  while (`StopKept`); a byte taken from the ring enters the FIFO, although room was read an access before (`NoDrop`);
  and the tty (`TxFlows`) and the console (`ConsoleEnds`) both get on.
- `eth_dma`: for buffers at each alignment and lengths around a word, a FIFO and a page, the MAC gets the bytes of the
  packet (`TxIntegrity`), the buffer gets those of the frame (`RxIntegrity`), bursts stay in page and buffer (`BusSafe`),
  and both engines come to their end (`Ends`), also when the frame is longer than the buffer and the MAC goes on after
  the bus has stopped. `RxIntegrity` speaks of frames that fit and does not read the bus-error bit.
- `eth_host`: every descriptor the hardware may use has a mapped buffer, each buffer is freed once and after its use, and
  a packet that `xmit` is given finds a descriptor (`RingsOwned`), in every order of packets, frames, interrupts,
  failing allocations, opening, closing and changes of the MTU; a frame that has come is handed on, and a stopped queue
  is woken (`Flows`).

- `boot`: from reset to u-boot, with cards of each kind, with and without partitions, boards with and without a power
  switch for the card, and two faults anywhere: what the program finds at the jump is the program of the file
  (`Loaded`), the memory the boot ROM runs on is left alone until then (`OwnKept`), a read that is reported good has
  delivered the sectors that were asked for (`ReadOk`, with the exceptions below), u-boot is handed a quiet controller
  and a card that takes commands, and leaves them so after each read, also one whose data was bad (`Settled`), a late
  transfer of an attempt that failed writes into nothing that a later attempt loads (`Loads`, which says that `BootRom`
  implements `ElfLoad`), the card boots once nothing goes wrong any more (`Boots`), and a read of u-boot ends
  (`UbootEnds`). On a card with partitions the search for the volume reads on after an error and into transfers that an
  earlier read left behind; a wrong sector makes the search fail and not find something else, and no block of the
  program comes that way.

The limits of `RequestSound`, `DataStatusFresh` and `BufferOwned` are real ones. The variable `armed` is set when a command
with data fails, and cleared when a later request finds the controller at rest (`AtRest`); in between the three make no
claim, because none holds: finding 1 is the run without the proviso (`RequestIntegrity`). After a FIFO error the driver
reports and unmaps on the error bit, at `patches/fpga-axi-sdc.c:371`, while the last AXI burst may still be on its way,
and a request that follows at once would find a DMA address that is reloaded only when the bus is idle. `Request`
therefore waits for that burst, which `SdDataPath!CmdStart` assumes too, and `BufferOwned` speaks of flowing data only;
both are recorded as hazards.

So are those of the boot. `ReadOk` makes an exception of two kinds of read into the file system's window, on the way to
the file only. One meets the transfer of a read that failed (`late`): a CMD17 for the first sector of a partition whose
answer is lost fails at `bootrom/bootrom.c:394` and leaves its transfer set up; `find_volume` reads on
(`bootrom/ff.c:3358`, or the table of a GPT again at line 3340) without a reset; the start of that read is lost, since
the engine is at work, and the block of the first one ends it. `disk_read` then returns `RES_OK` with another sector in
the window. The other has its address in the wrong unit, after a spoilt answer to ACMD41 (`~Addressing`). Either costs
the attempt, and `main` tries again a second later; blocks of the program are never excepted. `ReadOk` and `Settled`
make no claim for u-boot between a read command that failed and the next identification of the card with the controller
at rest (`clean`), for the reason of finding 1; `Boots` makes an exception of a high-capacity card whose CMD8 was lost
(`Deaf`), which the boot ROM asks for ever (`bootrom/bootrom.c:345`); and `UbootEnds` is about reads that are short
enough for a watchdog of 24 bits: `Unit = 128` makes the longer of the two reads 256 blocks, at 50 MHz and four wires;
from 320 on the register gets 0.

Bounds and why they are enough:

- `SdDataPath`: `FifoSize = 8` (real: 128) is the least power of two for which the thresholds of a third, a half and
  full differ and are more than one word apart; `BlockWords = 4` and `Blocks = 2` make a transfer as long as the FIFO is
  large, so that it fills up, runs dry and is drained below the threshold, and pass once through the boundary of two
  blocks; `BurstMax = 3` (real: 128) makes several bursts per transfer; `MaxResp = 3` (real: 7) is reached by three
  outstanding one-beat bursts. Successive transfers are not bounded: the state returns to its start.
- `SdBurst`: `Fifo = 8`, `Page = 16`, `Cap = 6`, `Memory = 32` (real: 128, 1024, 256 and 2^30 words): a page holds two
  FIFOs, so that the rules for the page, the FIFO wrap and the cap all decide some burst; memory holds two pages, so
  that the address wraps at the end of a page and of memory. The theorems lift the bounds.
- `UartLink`: `Slots = 4` (real: 16), a FIFO of three bytes, fills up while the next byte is under way; `Bits = 3` and
  `PhaseMax = 5`, six clocks per bit (real: 8 bits of some hundred clocks), leave RTS in time, as the real values do with
  a large margin; with three clocks per bit it comes late, which is why `LinkAssumption` excludes it. `Data` has two
  bytes: neighbouring ones differ, so that a lost, doubled or swapped one shows. One direction of the link; the other is
  the same. The theorems lift the bounds.
- `UartHost`: `Slots = 4` (real: 16), `MaxChars = 5` (real: 32), `MaxXmit = 5` (real: thousands); `DrainInCall = 2`
  bounds what the device sends during one call of `axi_uart_transmit`. With these values the loop can also end at
  `MaxChars`, which the real ones reach only if the device sends 17 bytes during a call. With a ring longer than
  `MaxChars` and a device that fast, the loop would end without having enabled the interrupt, and `Armed` fail, which
  the sizes of the code exclude. The theorem `NoLostWakeUp` covers both cases in which it cannot. `ConsoleChars = 2`
  gives a message a middle.
- `EthDma`: words of four bytes over streams of one byte and of four; `Fifo = 4` (real: 16) and `Page = 16` bytes (real:
  4096), so that a packet of 15 bytes is longer than the FIFO and crosses a page; `Adrs` has each kind of alignment and
  one that ends at a page; `Sizes` and `Frames` have the last byte in each place of a word, and frames shorter and longer
  than the buffer.
- `EthHost`: `Ring = 4` (real: 16) is the least ring whose half is a free slot or more, which `RingAssumption` states; on a
  smaller one a full queue is woken at once. Ring positions wrap, so that the run is not bounded in frames. `eth_host`
  closes with an empty transmit ring (`CloseQueued = FALSE`); with packets waiting, see finding 4.
- `SdcHost`: two buffers are enough for a stale one and a current one; `InitDelay` is 2 in place of 4, which leaves room
  for a start at each point of the delay; `Clock` and `XferBlocks` are real values (25 MHz, 8 blocks) and decide only
  whether a timeout fits its register. Requests are not bounded. The theorems lift the bounds.
- `UbootSd`: memory of eight blocks, of which the boot ROM keeps two; `Chunk = 3` (real: 128) is longer than that, so
  that a chunk is cut at its end, and shorter than a segment; `MaxBlockCnt = 2` (real: 4096) splits a chunk into two
  commands, and a chunk may end in a single block, which takes the other command; `MaxBusy = 1` makes ACMD41 repeat;
  `MaxFaults = 2` allows one fault in the handling of another. `Sectors = 18` lets a card that is never stopped run to its
  end, and `BlockSize = 8` (real: 512) keeps addresses in bytes and in sectors apart: in the wrong unit an address is that of
  another sector, or of none. `FileSector = 7` leaves room for the tables, three partitions and the directory. The FAT
  file system is in the second of the three, so that there is a partition to be skipped before it and one after it.
  The theorems of `UbootSdProofs` lift the bounds, except for liveness.

## Assumptions and fairness

Assumptions on the environment, each stated where the model makes it:

- `SdDataPath!CmdStart`: the next command with data comes when the last status is cleared and the bus is quiet. The
  driver ensures the first; the second fails after a FIFO error (above).
- `SdDataPath!WBeat`: the AXI slave takes a write address no later than the last beat of its data, as the interconnect
  of the SoC does. With a slave that waits for all data first, `m_axi_cyc` falls before `awvalid` does
  (hazard at `sdc/axi_sdc_controller.v:491`).
- `EthBus!BusAssumption`: a frame is longer than a word, and a buffer can be counted in the 14 bits of
  `pkt_size_bits_range` (`ethernet/ethernet.v:182`) with the words around it: the largest MTU is 9000
  (`patches/fpga-axi-eth.c:27`).
- `SdcHost!Request`: the mmc core issues a transfer when the card has ended the last one, and announces a transfer of
  several blocks (`sbc`) or stops it (`stop`), not both.
- `SdcHost!Request`: a burst that a FIFO fault has left on the bus has ended before the next request with data; on the
  bus it is the last of at most seven, and a request takes thousands of instructions.
- `BootRom`, `UbootSd`: a card answers a command it does not take with silence, sends the blocks from the address it was
  given, and is not exchanged; a block and the watchdog take longer than a command with its answer (`Underway`). The
  sectors which are read on the way to the file differ from each other and from those of the file in what they say
  (`Refuse`). `ElfLoad!LoadAssumption`: a program is linked as `bootrom/common.h` asks, between the start of memory and
  what is set aside at its end, and its segments do not overlap.
- `UartHost!Arrive`: RTS keeps the receive FIFO from overflowing, which `UartLink` shows.
- `SdcHost!Stuck`: the command watchdog is longer than a command on the wires and an answer of a card that does answer:
  one second against some hundred clocks.

Fairness:

- `SdDataPath`: `WF(SilentEdge)`: the SD clock runs and the watchdog counts edges. Where the card has to let the serial
  host go on, only an edge on which the card is silent is owed: a card that never answers is allowed, and the watchdog
  then ends the transfer. `WF` of the AXI actions together: the interconnect serves what was requested.
- `SdcHost`: `WF(OwedEdge)`: as above, and in addition a watchdog that is on expires, a busy card releases the data line
  (there is no watchdog in `BUSY_CHECK`, see the hazard at `sdc/sd_cmd_master.v:144`), and the FIFO fills up in
  `START_TX_FIFO` (which `SdDataPath` shows under its own fairness). `WF(Driver)`: the processor executes the driver and
  takes its data interrupts. Nothing is assumed of requests, card-detect interrupts or the end of what the card sends.
- `UartLink`: `WF` of a clock at which the receiver is read: both clocks run, and the receiving side reads in the end.
- `UartHost`: `SF(Drain)`: a transmitter that is let go again and again sends, since the other side lets go of CTS.
  `SF(IsrLock)`, `SF(TtyCall)`: spin locks of the kernel are queued and so fair. `WF` of everything that runs with the lock
  held. Nothing is assumed of when the tty writes, stops, opens or closes.
- `EthDma`: `WF` of a step on which what is owed comes: the MAC takes, or gives, the stream and the bus answers.
- `EthHost`: `WF` of the hardware that has begun a frame and of the holder of the lock, `WF(TxStart)`, `WF(IrqTaken)`,
  `SF(IsrLock)` as above. The handler loops while there is work and has no budget, so that with frames coming as fast as
  they are handled the lock is never free: what `Flows` says of stopped queues holds on behaviours on which it is free
  again and again.

- `UbootSd`: `WF` of the processor in the boot ROM, of what it has begun in u-boot (`Probe`, `ReadFinish`, `Stop`), and of
  the blocks, the watchdog and the end of a single block on the wires. Faults are bounded by `MaxFaults`; nobody has to
  ask u-boot for a read.

## Proofs

All theorems are for every value of the constants that satisfies the named assumption of the module.

`SdDataPathProofs` (from `DataPathAssumption`): `TypeCorrect` and `OutputIsHead`. `TypeOK` is not inductive: that
`m_axi_bresp_cnt` stays in range needs that an address is offered only while there is room for its response, and that
`beats` does, that a bus cycle has beats left. The inductive invariant `TInv` adds these, split by part of the hardware
(`MasterType`, `HostType`, `FifoType`, `AxiType`, `BufferType`), with one lemma per part and per action, so that each
action is checked only against the conjuncts it can disturb. `HeadIsOut` is inductive once `TInv` holds: push and pop
preserve it (`PushHead`, `PopHead`), and so do the two together (`PushPopHead`, where the word that comes is forwarded when
the one that leaves was the last); only an edge, the two kinds of beat and an edge with a beat touch the FIFO (`NextHead`).

Then, on top of `TInv` and `HeadIsOut`: `DmaStaysInBuffer`, `ReadsAreWhole`,
`WritesAreWhole` and `PromiseKept`, the refinement of `SdTransfer`. `FlowInv` follows the words. `PhaseInv` and `HostInv` say
which states of master, serial host and bus go together. `RxInv` is about a read: as many words have been assembled as
have been written, are in the FIFO or in the register of the host (`Assembled` = `Sent`), each is at its place
(`RxWords`), and a burst has no more beats left than the FIFO has words and the buffer has room (`Bound`), which is what keeps
the DMA in the buffer. `TxInv` is about a write: card and FIFO together hold consecutive words of the buffer (`Popped`,
`TxWords`). There is one lemma per action of the AXI side and one per state of `sd_data_master` at an edge. The
refinement needs `MoveInv` as well: what the status can show (`StatusInv`), that the bus is not quiet between an address and
its response (`BusInv`), that nothing is written ahead of what memory has (`AheadInv`), and that the card gets no more
words than the transfer has (`CardInv`). Each step is then a step of `SdTransfer` or a stutter (`Promised`).

`SdBurstProofs` (from `BurstAssumption`): `TypeCorrect`, `BurstsInPage`, `BurstsCovered`, `LastBeatsMarked`,
`BurstsMaximal`. The invariant `IInv` is the conjunction of the checked invariants with `Modes` (which handshake
registers may be on together). The arithmetic rests on lemmas about `%`: the sum in the width of the page offset wraps
exactly when the burst would cross the page, and the inverted low address bits are then the distance to the next
FIFO-sized boundary, which a burst no longer than a FIFO cannot pass. The assumption `Cap >= 2` is needed: `wlast` is
initialised from the uncapped length.

`SdcHostProofs` (from `HostAssumption`): `StatusIsFresh` and `CommandsDoNotOverlap`, for every set of faults, every
timeout and every timing of requests, those of the violated runs included. The invariant `HInv` ties the program counter
of the driver to the pulses it waits for and the state of the command master (`StatusInv`) and the command master to the
serial host (`SerialInv`): a serial host that is on the wires has a command master that waits for it.

Then about the data (on top of `HInv`): `BuffersOwned`, `DataStatusIsFresh` and `RequestsAreSound`, for
every timeout, set of buffers, fault and timing. None of the three is inductive: that a status is fresh depends on
where every status before it has gone. The invariant `DInv` has a half that always holds, what the driver's variables say
of each other (`DriverInv`), and one that is given up while `armed` and must be found again at the request that clears
it (`DataInv`): the controller is at rest except from the start of a command with data to the clearing of its status
(`AtWork \/ Still`), in that span the transfer is in one stage at a time (`Stages`), and buffer, card, status and outcome
are those of the request (`Own`). An edge of the SD clock is proved per part (`PosedgeStages`, `PosedgeCard`,
`PosedgeOwn`); of the driver's steps, `Request` and `AfterSbc` touch the transfer, and the others share the lemma
`KeepsData`.

`UbootSdProofs`, first about `ElfLoad` by itself (from `LoadAssumption`): `ProgramLoaded` and `OwnMemoryKept`, for every
linked program, memory and chunk size, and however often a read fails or the processor is reset. The invariant `LInv`
says that each block the loops have passed (`Through`) is where it is kept (`Where`: aside, if it belongs to the boot
ROM's memory) and will be copied (`SoFar`), and what holds while a chunk is read (`Reading`). A step on a chunk changes
only the blocks of that chunk (`ChunkOnly`), those are not the place of a block that is passed already (`ChunkPlaced`,
from `Apart`: `Where` is injective below the memory set aside, and segments do not overlap), and not the boot ROM's
(`ChunkOwn`).

Then about `UbootSd` (also from `BootAssumption`): `DriverLoads`, `BootedProgram`, `GoodReads` and `QuietHandover`, for
every kind of card, size of a chunk and of a command, clock, bus width and number of faults. The invariant `IInv`
follows one transfer through its owners. `Progress` says of a transfer of `n` sectors to `buf`: while the engine is on,
as many blocks are in place as it has counted, the card sends the sector that comes next, and no status is raised; when
the status says that it is through, all are in place. `ReadInv` puts the parts of a `disk_read` of the file together
(`Filing`), `ChunkRead` in `PcInv` the pieces of a chunk, and `UbInv` says the same for u-boot, until one of its
commands fails. On the way to the file (`Searching`) a read may meet an earlier transfer, and less is true: `SearchInv`
says that what an earlier read left is of another sector, so that the window holds the right one only when it came for
this read, and then the card and the controller are at rest again. It needs `SkipInv`: the sector that a failed read
left on its way is of a partition that the search has passed. From the right directory on everything is at rest and
stays one's own, which is how a wrong sector in the search costs the attempt and nothing else; `GoodReads` makes the
same two exceptions as `ReadOk`. `QuietInv` is what makes a status one's own: at every place of `Filing` and of u-boot
where a command with data may be sent the engine is off and no status is left, although an attempt that failed leaves
both behind, because `Reset` (`bootrom/bootrom.c:313`), and `sdc_probe` for u-boot, clear them. `EngInv` says where a
transfer writes that nobody waits for: to the file system's window, or to the chunk it was set up for, and the loops do
not leave that chunk before the reset. `AddrInv` says that the driver counts in sectors exactly when the card does, once
a directory has been found. There is one lemma per group of steps (`StartSafe`, `LookSafe` for the search, `FileSafe`,
`ReadCmdSafe`, `FileAnswerSafe` and `SearchAnswerSafe`, `FileDataSafe` and `SearchDataSafe`, `ReadStopSafe`,
`BlockSafe`, `LossSafe`, one per step of u-boot, ..). With `IInv` each step is one of `ElfLoad` or a stutter
(`StepLoads`): a block that comes in is a `Scribble`, and `ChunkEnd` is `ReadDone`, which sets memory to what it already
holds. `LInv` is needed for `IInv` and the refinement for `LInv`, so that the two are shown together (`Inductive`).

`UartLinkProofs` (from `LinkAssumption`): `NoOverrun` and `LinkIsChannel`, the refinement of `ByteChannel`, for every size of
the FIFO from one byte on, every number of bits, every clock divider from five on and every phase between the two ends.
The invariant `IInv` is about the phases: while a byte is on the wire (`coming`), the receiver is as many clocks behind the
transmitter as the middle of a bit is behind its edge (`Phases`). So it samples the bit that is on the wire (`Wire`), what
it has sampled is what was sent (`Sampling`), and it pushes the byte in the middle of the stop bit. `Room` says that there
is a place for it: RTSn shows a full FIFO a clock late, but the transmitter looks at it at its tick, which is at least two
clocks after the push of the byte before (this is where `PhaseMax >= 4` is needed), so that a byte starts only when there
is a place, and no other byte takes it. `TxMoves`, `RxMoves` and `Coming` say what a clock does to each end, by what is on the
wire; `Reads` and `Writes` what the software does; and `Arrives` and `Launches` how a byte passes from the one FIFO to the
wire and from there to the other, so that with `IInv` each clock is a step of `ByteChannel` (`ClockStep`).

`UartHostProofs` (from `UartAssumption`): `TypeCorrect`, `NothingDropped`, `StopIsKept`, and `NoLostWakeUp`, which in
addition assumes `CallSuffices`: a call may send the whole ring, or more than the FIFO and the wire take during it (the
case of the real values). `TInv` joins to `TypeOK` who holds the lock in which place (`Holders`) and
what a copy of a register says about the register (`Known`): a bit of status read under the lock stays true, since only
the device moves and it only makes room. `ArmInv` adds that the control register a console message will restore has
what `Armed` asks for (`ArmedAround`), how many bytes of the ring the loop can still send (`Share`), and where those are
that it has sent (`Served`); `StopInv` is the
same for the stop bit (`Going`, `StopAround`).

`EthDmaProofs` (from `BusAssumption`): `BusIsSafe`, `PacketsIntact` and `FramesIntact`, for every width of the bus, a stream
of bytes or of words, every FIFO and page, every address and size of a buffer, and every timing of the MAC and the bus.
The three share the invariant `IInv`, since a burst is only known to have its words, or room for them, from where the
words are. `TxWalk` and `RxWalk` are about the bus: the words to come end where the packet or the buffer ends
(`Aligned(addr + size - 1) + Word`), a burst has no more beats than words to come and words or places in the FIFO, and it
stays in its page (`BurstsFit`, which is the arithmetic of `len4k`, and `StaysInPage`). `TxPlaces` and `RxPlaces` are about
the data. Word j of the FIFO has, in lane i, the byte that belongs there (`TxWords`, `RxFrame`), where the place is
counted from the stream for a packet, and from the address of the next beat for a frame; the other end then says which
word is moved next (`Pushed`; the place of `came`). What is half moved is in `tx_burst_head` (`TxHead`), in `rx_part` and in
`rx_burst_tail`, and has its lanes in the invariant too. `rx_burst_1p` says exactly when the last word makes two
(`LastBytes`), so that the burst which ends a frame has one beat more than there are words, and a beat on an empty FIFO
is that one (`EmptyBeat`). `RxDone` is what a frame that fits leaves behind: the beat that stops the bus is the last of the
frame, or else the frame was longer than the buffer (`WBeatDone`). A beat is proved one conjunct at a time (`WBeatWalk`,
`WBeatPlaces`, ..) for the receiver, and by alignment (`BeatAligned`, `BeatFirst`, `BeatJoined`) for the transmitter.

`EthHostProofs` (from `RingAssumption`): `TypeCorrect` and `BuffersOwned`, for closes with packets waiting too. The
invariant `IInv` has one part for each ring (`RxInv`, `TxInv`: the order of its three positions, and which slots between
them hold a buffer), one for the enables (`FlagInv`) and one for what the holder of the lock knows (`PcInv`). Positions are
compared by `Ahead`, the distance on the ring; the lemmas `Grows`, `Shrinks`, `Later`, `EndMoves`, `MiddleMoves` and
`StartMoves` say how `Ahead`, `succ` and `Between` go together, and are all the arithmetic there is. It needs that the
transmit ring is empty while the interface is closed, since `open` takes the position of the hardware for its own.

Only model-checked: liveness (`TransferEnds`, `RequestEnds`, `FlowConverges`, `TxFlows`, `ConsoleEnds`, `Ends`, `Flows`,
`Boots`, `UbootEnds`), which the prover does not reach. Every other property of a passing run is stated by a theorem.

## Findings

1. `host_retry`: a command with data that fails (`patches/fpga-axi-sdc.c:224`) leaves the data engine of the controller
   as it is. A read was armed with its command (`sdc/axi_sdc_controller.v:556`): if the card did get the command, or
   when the data watchdog expires, a status appears in `dat_int_status` for which nobody waits, and the next request
   with data is taken to be finished by it. "Clear the error statuses in case this is a retry"
   (`patches/fpga-axi-sdc.c:236`) clears the fields of the request only.
2. `host_clock50`: at the 50 MHz which `board/rk-xcku5p/bootrom.dts:33` allows, the command timeout of one second
   (`patches/fpga-axi-sdc.c:64`) does not fit the 25 bits of its register. The driver then writes 0, which turns the
   watchdog off, and a lost answer keeps it polling with `host->lock` held. The data timeout overflows its 28 bits in
   the same way from 22 blocks on at 25 MHz.
3. `uart_reopen`: `axi_uart_startup` enables the receive interrupt (`patches/fpga-axi-uart.c:282`) without `port->lock`. A
   console message that another processor is writing has read the control register before (line 67) and writes its
   copy after: the port is open and deaf.
4. `eth_close`: `axi_eth_dev_close` clears both enables, waits for what is active ("Wait active RX, TX to finish",
   `patches/fpga-axi-eth.c:592`), and then also for every packet that was queued (line 609). The hardware begins no
   packet while `tx_enable` is 0 (`ethernet/ethernet.v:372`): with one in the ring that had not begun, the driver polls for
   ever, with the lock held and interrupts disabled.

## Not modelled

- SD controller: DMA to addresses that are not word-aligned, the shifters bit by bit in 1- and 4-bit mode, CRC
  arithmetic, the contents of responses, the clock divider and its pauses, debouncing of the card-detect switch, and a
  software reset in the middle of a transfer. Linux SD driver: `sdc_set_ios`, `sdc_reset`, probe and remove, and the
  argument checks of `sdc_setup_data_xfer`.
- UART: the FIFO resets (the Linux driver never asks for them) and reads of an empty FIFO. Linux UART driver: the early
  console, the poll routines, probe and remove. The OpenSBI console polls the same registers.
- Ethernet controller: the MDIO shifter and the AXI slave. Linux Ethernet driver: MDIO, ethtool and statistics, the
  sizes of buffers over a change of the MTU, a failing `request_irq` (`patches/fpga-axi-eth.c:568` returns with the lock
  held), a failing `skb_padto` (which frees the packet that `patches/fpga-axi-eth.c:331` frees again), probe and remove;
  the hazards list what else is known of them.
- Boot ROM: FatFs, which is third-party, but for the search for the volume and the order of the reads (the contents of its
  sectors, clusters and paths are left out), the fields of the
  ELF header, buffers that are not aligned, and the console, which only prints. u-boot: writes, the checks of the
  arguments, the clock divider, and `serial.c`, which polls the UART; its probe is the only code that resets the FIFOs of
  the UART, while the transmitter may be taking a byte from one.
- The JTAG tunnel and MDIO are shift registers of some hundred lines; they share no state with the rest.
- The components that have no module are those without state of their own, or are generated or third-party code; the
  latter is nearly all of the C code in the repository.

## Plan

Done: `SdTransfer`, `SdDataPath`, `SdBurst`, `SdcHost`; `ByteChannel`, `UartLink`, `UartHost`; `EthBus`, `EthTx`, `EthRx`,
`EthDma`, `EthHost`; `ElfLoad`, `BootRom`, `UbootSd`; the proofs above. What is left, in this order:

1. Sizes of buffers in `EthHost`, for a change of the MTU with frames under way; `sdc_reset` and remove in `SdcHost`.
2. MDIO (`MdioShift`), and `JtagTunnel`: the state machine of `bscan2jtag.vhdl`.
