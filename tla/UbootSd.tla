------------------------------ MODULE UbootSd -------------------------------
(***************************************************************************)
(* From reset to u-boot: the boot ROM (BootRom), and after its jump the    *)
(* SD driver of u-boot, sdc.c, on the controller and the card that the     *)
(* boot ROM leaves behind.                                                 *)
(*                                                                         *)
(* u-boot's mmc core is not modelled: it identifies the card, again at any *)
(* time (mmc rescan), asks for reads of a block or more, and stops those   *)
(* of more that went well.                                                 *)
(***************************************************************************)
EXTENDS BootRom

CONSTANTS
  Clock, BusWidth,  \* as the mmc core set them
  Unit              \* blocks of 512 bytes that a block of a request stands for

ASSUME UbootAssumption ==
  Clock \in Nat /\ BusWidth \in {1, 4} /\ Unit \in Nat

VARIABLES
  up,       \* "off", "probed", "idle", "data", "error" or "stop"
  req,      \* the blocks asked for
  result,   \* of the last request: "none", "ok" or "error"
  clean     \* no read command failed since the card was identified, and no
            \* stop command was spoilt

ubVars == <<up, req, result, clean>>
allVars == <<vars, ubVars>>

UbBuf == Top + 1

romVars == <<loadVars, drvVars, other>>

-----------------------------------------------------------------------------
\* Mutant: 100 ms for each transfer instead of 10.
data_timeout_Generous(blocks) ==
  LET t == (blocks * Unit * 512 * 8) \div BusWidth
           + (Clock \div 1000) * blocks * Unit + Clock \div 10
  IN  IF t > 16777215 THEN 0 ELSE t

\* Bits on the wires, 1 ms for each block and 10 ms; what does not fit in 24
\* bits turns the watchdog off.
data_timeout(blocks) ==
  LET t == (blocks * Unit * 512 * 8) \div BusWidth
           + (Clock \div 1000) * blocks * Unit + Clock \div 100
  IN  IF t > 16777215 THEN 0 ELSE t

\* sdc_probe resets the controller.
Probe ==
  /\ at = "jump" /\ up = "off"
  /\ eng' = NoTransfer /\ dat_int_status' = {}
  /\ up' = "probed"
  /\ UNCHANGED <<romVars, cardVars, faults, req, result, clean>>

\* mmc_init, with sdc_set_ios: the statuses are cleared, a transfer that is
\* set up stays.
Identify ==
  /\ at = "jump" /\ up \in {"probed", "idle"}
  /\ card' = "tran" /\ if_cond' = (kind # "V1") /\ busy' = 0
  /\ dat_int_status' = {}
  /\ up' = "idle" /\ result' = "none" /\ clean' = ~eng.on
  /\ UNCHANGED <<romVars, has_power, kind, layout, next, multi, eng, faults, req>>

\* sdc_send_cmd with a read: command and answer are one step here, since u-boot
\* promises nothing (see clean) when a read begins while another goes on.
Read(sector, blocks) ==
  /\ at = "jump" /\ up = "idle"
  /\ req' = [sector |-> sector, count |-> blocks]
  /\ eng' = IF eng.on THEN eng
            ELSE [on |-> TRUE, buf |-> UbBuf, left |-> blocks,
                  watch |-> data_timeout(blocks) # 0]
  /\ \E ans \in {"ok", "timeout", "crc"} :
       /\ Exchange(IF blocks = 1 THEN "CMD17" ELSE "CMD18",
                   IF kind = "HC" THEN sector ELSE sector * BlockSize, ans)
       /\ IF ans = "ok"
          THEN up' = "data" /\ result' = "none" /\ UNCHANGED clean
          ELSE up' = "idle" /\ result' = "error" /\ clean' = FALSE
  /\ UNCHANGED <<romVars, dat_int_status>>

\* Mutant: an error is returned at once.
ReadFinish_NoStop ==
  /\ up = "data" /\ Status # {}
  /\ dat_int_status' = {}
  /\ up' = IF Status = {"TRS"} /\ req.count > 1 THEN "stop" ELSE "idle"
  /\ result' = IF Status # {"TRS"} THEN "error"
               ELSE IF req.count = 1 THEN "ok" ELSE result
  /\ UNCHANGED <<romVars, cardVars, eng, faults, req, clean>>

\* sdc_data_finish.
ReadFinish ==
  /\ up = "data" /\ Status # {}
  /\ dat_int_status' = {}
  /\ up' = IF Status # {"TRS"} THEN "error"
           ELSE IF req.count > 1 THEN "stop" ELSE "idle"
  /\ result' = IF Status = {"TRS"} /\ req.count = 1 THEN "ok"
               ELSE result
  /\ UNCHANGED <<romVars, cardVars, eng, faults, req, clean>>

\* The stop command: the driver's own after an error, whose answer it does
\* not look at, the mmc core's after a read of many blocks.
Stop ==
  /\ up \in {"error", "stop"}
  /\ \E ans \in {"ok", "timeout", "crc"} :
       /\ Exchange("CMD12", 0, ans)
       /\ result' = IF up = "stop" /\ ans = "ok" THEN "ok" ELSE "error"
  /\ up' = "idle"
  /\ clean' = (clean /\ UNCHANGED faults)
  /\ UNCHANGED <<romVars, eng, dat_int_status, req>>

Uboot == \/ Probe \/ Identify \/ ReadFinish \/ Stop
         \/ \E n \in {1, 2} : Read(FileSector, n)

-----------------------------------------------------------------------------
NoRequest == [sector |-> 0, count |-> 0]

Init ==
  /\ BootInit
  /\ up = "off" /\ req = NoRequest /\ result = "none" /\ clean = FALSE

Next ==
  \/ (Driver \/ Engine) /\ UNCHANGED ubVars
  \/ Uboot
  \/ /\ SystemReset
     /\ up' = "off" /\ req' = NoRequest /\ result' = "none" /\ clean' = FALSE

Spec == Init /\ [][Next]_allVars

\* The processor goes on, and so does what is under way on the wires and on
\* the bus.  Nobody has to ask u-boot for anything.
Fairness ==
  /\ WF_allVars(Driver /\ UNCHANGED ubVars)
  /\ WF_allVars((Block \/ DataTimeout \/ Unheeded) /\ UNCHANGED ubVars)
  /\ WF_allVars(Probe \/ ReadFinish \/ Stop)

FairSpec == Spec /\ Fairness

-----------------------------------------------------------------------------
Holds(r, buf) ==
  \A k \in 0 .. r.count - 1 :
    At(buf + k) = Data(r.sector + k)

\* The driver counts in sectors when the card does.
Addressing == "BLOCK" \in card_type <=> kind = "HC"

\* Either driver reports a read as good only with the sectors it asked for in
\* the buffer: no status of an earlier read is taken for its own, and the
\* address fits the card.  In the boot ROM the search for the file may get
\* another sector, when a read meets the transfer of one that failed or the
\* card was mistaken for one of another kind, but then it finds no file: of
\* the program all is right.  u-boot promises it until a read command fails.
ReadOk ==
  /\ pc = "done" =>
       Holds(rd, rd.buf) \/ (rd.buf = Win /\ (rd.late \/ ~Addressing))
  /\ up = "idle" /\ result = "ok" /\ clean => Holds(req, UbBuf)

\* The program is handed a quiet controller and a card that takes commands,
\* and u-boot is back in that state after every read, also one whose data
\* was bad: nothing is still on its way into memory.
Settled ==
  at = "jump" /\ (up = "off" \/ (up = "idle" /\ clean)) =>
    ~eng.on /\ dat_int_status = {} /\ card = "tran"

\* The driver loads as ElfLoad says: a chunk has come in when f_read returns,
\* and no transfer of an attempt that failed writes into the next one.
Loads == LoadSpec

\* A high-capacity card that never heard CMD8 is asked for ever.
Deaf == pc = "init" /\ kind = "HC" /\ ~if_cond

Whole(im) == \A i \in DOMAIN im.segs :
               im.segs[i].load => im.segs[i].off + im.segs[i].filesz <= im.len

\* Once nothing goes wrong any more a card with a whole file boots, however
\* the attempts before it ended and whatever state they left the card in.
Boots == Whole(image) => <>(at = "jump") \/ <>[]Deaf

\* A read of u-boot ends, also when the card falls silent in the middle.
UbootEnds == up = "data" ~> up # "data"
=============================================================================
