------------------------------ MODULE BootRom ------------------------------
(***************************************************************************)
(* The boot ROM: main's loop, the SD card driver under the FAT file system *)
(* (ini_sd, disk_read, send_data_cmd) and the loading of BOOT.ELF, which   *)
(* is ElfLoad's, step by step, with the same variables.                    *)
(*                                                                         *)
(* The driver polls.  SdcHost shows how a command and its status meet, so  *)
(* here a command, its answer and the clearing of its status are one step, *)
(* but for a read, whose command and answer are two: the transfer of data, *)
(* which the command starts whatever becomes of it, goes on by itself, and *)
(* the next command may meet it.  Commands, answers and data get lost or   *)
(* spoilt, and the processor may be reset, MaxFaults times in all.         *)
(*                                                                         *)
(* Of FatFs there is what decides which sector is read next: the search    *)
(* for the volume, which reads on after an error, the directory, the first *)
(* block of the file for a program header, and a chunk in as many pieces   *)
(* as the clusters make of it.                                             *)
(***************************************************************************)
EXTENDS ElfLoad

CONSTANTS
  Kinds,        \* "V1": SD 1.x; "V2": 2.0, standard capacity; "HC": high
  Boards,       \* SDC_CAPABILITY_SD_RESET: can the board switch the card off?
  MaxBusy,      \* ACMD41s a card needs to get ready
  Layouts,      \* of the card: without partitions ("sfd"), or with how many,
                \* and the first of them with a FAT file system on it
  FileSector,   \* BOOT.ELF, in one piece, after its directory
  Sectors,      \* the size of the card
  BlockSize,    \* of its sectors in bytes: 512, or less in a small instance
  MaxBlockCnt,  \* MAX_BLOCK_CNT
  MaxFaults

ASSUME BootAssumption ==
  /\ Kinds \subseteq {"V1", "V2", "HC"} /\ Boards \subseteq BOOLEAN
  /\ MaxBusy \in Nat /\ MaxFaults \in Nat /\ MaxBlockCnt \in Nat \ {0}
  /\ FileSector \in Nat /\ FileSector > 1 /\ Sectors \in Nat
  /\ Layouts \subseteq [scheme : {"sfd", "mbr", "gpt"}, parts : Nat, fat : Nat]
  /\ BlockSize \in Nat
  /\ \A l \in Layouts : l.parts + 3 < Least(FileSector, BlockSize)

VARIABLES
  \* the card: its kind, what is on it, its state, whether it had CMD8, ACMD41s
  \* to come, and the sector it sends next
  kind, layout, card, if_cond, busy, next, multi,
  \* the controller: the transfer it is set up for, and the data status
  eng, dat_int_status, has_power,
  \* the driver
  pc,          \* "main", "init", "mount", "idle", "cmd", "answer", "data",
               \* "stop", "done", "skip" (of a partition) or "sleep"
  cmd_no,      \* the command of ini_sd to be sent
  card_type, drv_status,
  rd,          \* the disk_read in progress, what f_read still wants, and
               \* whether it came while another read was under way
  done,        \* blocks of it that are through
  part,        \* the partition find_volume looks at
  other,       \* memory beside mem
  faults       \* what may still go wrong

cardVars == <<has_power, kind, layout, card, if_cond, busy, next, multi>>
drvVars == <<pc, cmd_no, card_type, drv_status, rd, done, part>>
bootVars == <<cardVars, eng, dat_int_status, drvVars, other, faults>>
vars == <<loadVars, bootVars>>

\* Memory the loader has nothing to do with: the file system's window, and
\* the buffer of who comes after the boot ROM.
Win == Top
Other == Top .. Top + 2

At(a) == IF a \in Other THEN other[a] ELSE mem[a]

NoTransfer == [on |-> FALSE, buf |-> Win, left |-> 0, watch |-> FALSE]
NoRead == [buf |-> Win, sector |-> 0, count |-> 0, rest |-> 0, late |-> FALSE]

Data(sector) == sector - FileSector

-----------------------------------------------------------------------------
(* The card: the state each command is taken in and the one it leads to.   *)
(* What it does not take it does not answer.                               *)

Taken == [CMD8  |-> {"idle"},    CMD55 |-> {"idle"},  ACMD41 |-> {"idle_app"},
          CMD2  |-> {"ready"},   CMD3  |-> {"ident"}, CMD7   |-> {"stby"},
          CMD55_RCA |-> {"tran"}, ACMD6 |-> {"tran_app"}, CMD16 |-> {"tran"},
          CMD17 |-> {"tran"},    CMD18 |-> {"tran"},  CMD12  |-> {"data"},
          CMD0  |-> {"idle", "idle_app", "ready", "ident", "stby", "tran",
                     "tran_app", "data"}]

Becomes == [CMD8  |-> "idle",  CMD55 |-> "idle_app", ACMD41 |-> "ready",
            CMD2  |-> "ident", CMD3  |-> "stby",     CMD7   |-> "tran",
            CMD55_RCA |-> "tran_app", ACMD6 |-> "tran", CMD16 |-> "tran",
            CMD17 |-> "data",  CMD18 |-> "data",     CMD12  |-> "tran",
            CMD0  |-> "idle"]

Understands(cmd) == card \in Taken[cmd] /\ (cmd = "CMD8" => kind # "V1")

\* A card of high capacity that had no CMD8 stays busy.
GetsReady == busy = 0 /\ (kind = "HC" => if_cond)

\* The sector an address is for, and whether the card has it.  That it has
\* not is in the answer, where the drivers do not look for it.
SectorOf(arg) == IF kind = "HC" THEN arg ELSE arg \div BlockSize

OnCard(arg) == SectorOf(arg) < Sectors /\ (kind = "HC" \/ arg % BlockSize = 0)

Hear(cmd, arg) ==
  /\ card' = CASE cmd = "ACMD41" /\ ~GetsReady -> "idle"
               [] cmd \in {"CMD17", "CMD18"} /\ ~OnCard(arg) -> "tran"
               [] OTHER -> Becomes[cmd]
  /\ if_cond' = CASE cmd = "CMD0" -> FALSE
                  [] cmd = "CMD8" -> TRUE
                  [] OTHER -> if_cond
  /\ busy' = CASE cmd = "CMD0" -> MaxBusy
               [] cmd = "ACMD41" /\ busy > 0 -> busy - 1
               [] OTHER -> busy
  /\ next' = IF cmd \in {"CMD17", "CMD18"} THEN SectorOf(arg) ELSE next
  /\ multi' = IF cmd \in {"CMD17", "CMD18"} THEN cmd = "CMD18" ELSE multi
  /\ UNCHANGED <<has_power, kind, layout>>

\* The answer: "ok", none in time, one that fails its checks, or one that is
\* taken for what it says: that of ACMD41 is not checked, and that of CMD8 may
\* have another echo.  CMD0 has no answer that could be missing.
Exchange(cmd, arg, ans) ==
  \/ /\ Understands(cmd) /\ Hear(cmd, arg) /\ ans = "ok"
     /\ UNCHANGED faults
  \/ /\ ~Understands(cmd) /\ ans = "timeout"
     /\ UNCHANGED <<cardVars, faults>>
  \/ /\ Understands(cmd) /\ faults > 0 /\ faults' = faults - 1
     /\ \/ /\ Hear(cmd, arg)
           /\ \/ ans = "timeout" /\ cmd # "CMD0"
              \/ ans = "crc" /\ cmd \notin {"CMD0", "ACMD41"}
              \/ ans = "bad" /\ cmd \in {"CMD8", "ACMD41"}
        \/ UNCHANGED cardVars /\ ans = IF cmd = "CMD0" THEN "ok" ELSE "timeout"

-----------------------------------------------------------------------------
(* The data engine and the card that feeds it.                             *)

Sending == card = "data"

Store(buf, value) ==
  IF buf \in Other
  THEN other' = [other EXCEPT ![buf] = value] /\ UNCHANGED mem
  ELSE mem' = [mem EXCEPT ![buf] = value] /\ UNCHANGED other

\* Mutant: the completion of an earlier transfer shows.
Status_Unmasked == dat_int_status

\* The completion of a transfer does not show while one is set up.
Status == IF eng.on THEN dat_int_status \ {"TRS"} ELSE dat_int_status

\* A block and the watchdog take longer than a command: the transfer that is
\* set up with a command does not end before the answer.
Underway == eng.on /\ (pc = "answer" => rd.late)

\* A block comes in; the last one completes the transfer.  The card goes on
\* until it is stopped, or at its end.
Block ==
  /\ Underway /\ Sending
  /\ Store(eng.buf, Data(next))
  /\ next' = next + 1
  /\ card' = IF multi /\ next + 1 < Sectors THEN card ELSE "tran"
  /\ eng' = IF eng.left = 1 THEN NoTransfer
            ELSE [eng EXCEPT !.buf = @ + 1, !.left = @ - 1]
  /\ dat_int_status' = IF eng.left = 1 THEN dat_int_status \cup {"TRS"}
                       ELSE dat_int_status
  /\ UNCHANGED <<image, alt_mem, at, seg, pos, has_power, kind, layout,
                 if_cond, busy, multi, drvVars, faults>>

\* A block is spoilt, or lost in the FIFO, or it had begun before the engine
\* was set up.
BadBlock ==
  /\ Underway /\ Sending
  /\ \/ faults > 0 /\ faults' = faults - 1
     \/ rd.late /\ UNCHANGED faults
  /\ eng' = NoTransfer
  /\ dat_int_status' = dat_int_status \cup {"ERR"}
  /\ card' = IF multi THEN card ELSE "tran"
  /\ UNCHANGED <<loadVars, has_power, kind, layout, if_cond, busy, next, multi,
                 drvVars, other>>

\* The card breaks off.
Mute ==
  /\ Sending /\ faults > 0
  /\ faults' = faults - 1
  /\ card' = "tran"
  /\ UNCHANGED <<loadVars, has_power, kind, layout, if_cond, busy, next, multi,
                 eng, dat_int_status, drvVars, other>>

\* Nobody sends, and the watchdog is on.
DataTimeout ==
  /\ Underway /\ ~Sending /\ eng.watch
  /\ eng' = NoTransfer
  /\ dat_int_status' = dat_int_status \cup {"ERR"}
  /\ UNCHANGED <<loadVars, cardVars, drvVars, other, faults>>

\* A block nobody takes.
Unheeded ==
  /\ Sending /\ ~eng.on /\ ~multi
  /\ card' = "tran"
  /\ UNCHANGED <<loadVars, has_power, kind, layout, if_cond, busy, next, multi,
                 eng, dat_int_status, drvVars, other, faults>>

Engine == Block \/ BadBlock \/ Mute \/ DataTimeout \/ Unheeded

-----------------------------------------------------------------------------
(* disk_initialize.                                                        *)

Startup == <<"CMD0", "CMD8", "CMD55", "ACMD41", "CMD2", "CMD3", "CMD7",
             "CMD55_RCA", "ACMD6", "CMD16">>

\* main, f_mount, and ini_sd up to its first command.
Reset ==
  /\ pc = "main"
  /\ eng' = NoTransfer /\ dat_int_status' = {}
  /\ drv_status' = "NOINIT" /\ card_type' = {}
  /\ pc' = "init" /\ cmd_no' = 1
  /\ IF has_power
     THEN card' = "idle" /\ if_cond' = FALSE /\ busy' = MaxBusy
     ELSE UNCHANGED <<card, if_cond, busy>>
  /\ UNCHANGED <<loadVars, has_power, kind, layout, next, multi, rd, done,
                 part, other, faults>>

\* Mutant: a card that does not know CMD8 is refused.
Tolerated_Cmd0 == {"CMD0"}

\* CMD0 is not looked at, and an old card does not know CMD8.
Tolerated == {"CMD0", "CMD8"}

\* What the answer tells of the card.
Learnt(cmd, ans) ==
  IF cmd = "CMD8" THEN {IF ans = "ok" THEN "SD2" ELSE "SD1"} ELSE card_type

StartupCmd ==
  /\ pc = "init" /\ cmd_no <= Len(Startup) /\ Startup[cmd_no] # "ACMD41"
  /\ \E ans \in {"ok", "timeout", "crc", "bad"} :
       LET cmd == Startup[cmd_no] IN
       /\ Exchange(cmd, 0, ans)
       /\ IF ans = "bad" \/ (ans # "ok" /\ cmd \notin Tolerated)
          THEN pc' = "mount" /\ UNCHANGED <<cmd_no, card_type>>
          ELSE /\ cmd_no' = cmd_no + 1
               /\ card_type' = Learnt(cmd, ans)
               /\ UNCHANGED pc
  /\ UNCHANGED <<loadVars, eng, dat_int_status, drv_status, rd, done, part,
                 other>>

\* Bits 31 and 30 of ACMD41's answer: the card is ready, and of high capacity.
\* When they are spoilt they may say anything.
StartupOpCond ==
  /\ pc = "init" /\ cmd_no <= Len(Startup) /\ Startup[cmd_no] = "ACMD41"
  /\ \E ans \in {"ok", "timeout", "bad"}, ready, high \in BOOLEAN :
       /\ Exchange("ACMD41", 0, ans)
       /\ ans = "ok" => ready = GetsReady /\ high = (kind = "HC")
       /\ IF ans = "timeout"
          THEN pc' = "mount" /\ UNCHANGED <<cmd_no, card_type>>
          ELSE /\ cmd_no' = IF ready THEN cmd_no + 1 ELSE cmd_no - 1
               /\ card_type' = IF ready /\ high THEN card_type \cup {"BLOCK"}
                                                 ELSE card_type
               /\ UNCHANGED pc
  /\ UNCHANGED <<loadVars, eng, dat_int_status, drv_status, rd, done, part,
                 other>>

StartupDone ==
  /\ pc = "init" /\ cmd_no > Len(Startup)
  /\ drv_status' = "OK" /\ pc' = "mount"
  /\ UNCHANGED <<loadVars, cardVars, eng, dat_int_status, cmd_no, card_type,
                 rd, done, part, other, faults>>

-----------------------------------------------------------------------------
(* disk_read.                                                              *)

\* A disk_read of count blocks; rest are left of the f_read it is for.
DiskRead(buf, sector, count, rest) ==
  /\ rd' = [buf |-> buf, sector |-> sector, count |-> count, rest |-> rest,
            late |-> FALSE]
  /\ done' = 0
  /\ pc' = "cmd"

\* Mutant: the address of the first part is used for all of them.
Arg_First == IF "BLOCK" \in card_type THEN rd.sector ELSE rd.sector * BlockSize

Arg == IF "BLOCK" \in card_type THEN rd.sector + done
                                ELSE (rd.sector + done) * BlockSize

Part == Least(rd.count - done, MaxBlockCnt)

\* check_fs of a partition: find_volume goes on to the next one when it fails.
Vbr(n) == 2 + n
Checking == part > 0 /\ rd.buf = Win /\ rd.sector = Vbr(part)

\* RES_ERROR.  Any other read's is passed on, and download or f_mount fails.
DiskError ==
  IF Checking THEN pc' = "skip" /\ UNCHANGED at
  ELSE /\ pc' = "sleep"
       /\ at' = IF at \in {"load", "read"} THEN "failed" ELSE at

\* The write of the argument starts the command and sets the engine up, if it
\* is not still at work for a read that failed.
ReadCmd ==
  /\ pc = "cmd"
  /\ pc' = "answer"
  /\ rd' = [rd EXCEPT !.late = @ \/ eng.on \/ Sending]
  /\ eng' = IF eng.on THEN eng
            ELSE [on |-> TRUE, buf |-> rd.buf + done, left |-> Part,
                  watch |-> TRUE]
  /\ UNCHANGED <<loadVars, cardVars, dat_int_status, cmd_no, card_type,
                 drv_status, done, part, other, faults>>

ReadAnswer ==
  /\ pc = "answer"
  /\ \E ans \in {"ok", "timeout", "crc"} :
       /\ Exchange(IF Part = 1 THEN "CMD17" ELSE "CMD18", Arg, ans)
       /\ IF ans = "ok" THEN pc' = "data" /\ UNCHANGED at ELSE DiskError
  /\ UNCHANGED <<image, mem, alt_mem, seg, pos, eng, dat_int_status, cmd_no,
                 card_type, drv_status, rd, done, part, other>>

\* Mutant: there is only one part.
PartDone_Once(n) ==
  /\ done' = done + n
  /\ pc' = "done"

PartDone(n) ==
  /\ done' = done + n
  /\ pc' = IF done + n < rd.count THEN "cmd" ELSE "done"

\* Mutant: the status is waited for, and not looked at.
ReadData_Unchecked ==
  /\ pc = "data" /\ Status # {}
  /\ dat_int_status' = {}
  /\ IF Part = 1 THEN PartDone(1)
                 ELSE pc' = "stop" /\ UNCHANGED done
  /\ UNCHANGED <<loadVars, cardVars, eng, cmd_no, card_type, drv_status, rd,
                 part, other, faults>>

\* sdc_data_finish.  After an error there is no stop command.
ReadData ==
  /\ pc = "data" /\ Status # {}
  /\ dat_int_status' = {}
  /\ IF Status = {"TRS"}
     THEN /\ UNCHANGED at
          /\ IF Part = 1 THEN PartDone(1)
                         ELSE pc' = "stop" /\ UNCHANGED done
     ELSE DiskError /\ UNCHANGED done
  /\ UNCHANGED <<image, mem, alt_mem, seg, pos, cardVars, eng, cmd_no,
                 card_type, drv_status, rd, part, other, faults>>

ReadStop ==
  /\ pc = "stop"
  /\ \E ans \in {"ok", "timeout", "crc"} :
       /\ Exchange("CMD12", 0, ans)
       /\ IF ans = "ok" THEN PartDone(Part) /\ UNCHANGED at
                        ELSE DiskError /\ UNCHANGED done
  /\ UNCHANGED <<image, mem, alt_mem, seg, pos, eng, dat_int_status, cmd_no,
                 card_type, drv_status, rd, part, other>>

-----------------------------------------------------------------------------
(* The file system's reads, and main.                                      *)

\* f_mount, and download with it, when the card could be initialised.
Mount ==
  /\ pc = "mount"
  /\ part' = 0
  /\ IF drv_status = "OK" THEN DiskRead(Win, 0, 1, 0)
                          ELSE pc' = "sleep" /\ UNCHANGED <<rd, done>>
  /\ UNCHANGED <<loadVars, cardVars, eng, dat_int_status, cmd_no, card_type,
                 drv_status, other, faults>>

\* The window holds the sector, and not another one.
Sound == At(Win) = Data(rd.sector)

Found == pc = "done" /\ rd.buf = Win /\ Sound

\* What is not the sector that was asked for is taken for nothing else, but for
\* one: the FAT volume's first sector, which came for another partition's,
\* makes a volume of that one, and there is no file on it.
Refuse ==
  /\ pc = "done" /\ rd.buf = Win
  /\ ~Sound \/ (Checking /\ part # layout.fat)
  /\ IF Checking /\ At(Win) = Data(Vbr(layout.fat))
     THEN pc' = "sleep" /\ UNCHANGED at
     ELSE DiskError
  /\ UNCHANGED <<image, mem, alt_mem, seg, pos, cardVars, eng, dat_int_status,
                 cmd_no, card_type, drv_status, rd, done, part, other, faults>>

\* find_volume: the header of a GPT, and its table, which is read again after
\* each partition, since there is one window.  That of an MBR is kept.
ReadTable ==
  /\ layout.scheme = "gpt"
  /\ \/ Found /\ rd.sector \in {0, 1} /\ DiskRead(Win, rd.sector + 1, 1, 0)
     \/ pc = "skip" /\ DiskRead(Win, 2, 1, 0)
  /\ UNCHANGED <<loadVars, cardVars, eng, dat_int_status, cmd_no, card_type,
                 drv_status, part, other, faults>>

NextPartition ==
  /\ CASE layout.scheme = "mbr" -> (Found /\ rd.sector = 0) \/ pc = "skip"
       [] layout.scheme = "gpt" -> Found /\ rd.sector = 2
       [] OTHER -> FALSE
  /\ IF part < layout.parts
     THEN part' = part + 1 /\ DiskRead(Win, Vbr(part + 1), 1, 0)
     ELSE pc' = "sleep" /\ UNCHANGED <<part, rd, done>>
  /\ UNCHANGED <<loadVars, cardVars, eng, dat_int_status, cmd_no, card_type,
                 drv_status, other, faults>>

\* A volume is found, and in its directory the file.
Directory == FileSector - 1

FileOpen ==
  /\ Found
  /\ \/ layout.scheme = "sfd" /\ rd.sector = 0
     \/ Checking /\ part = layout.fat
  /\ Open
  /\ DiskRead(Win, Directory, 1, 0)
  /\ UNCHANGED <<cardVars, eng, dat_int_status, cmd_no, card_type,
                 drv_status, part, other, faults>>

\* The first header is read after the directory, the next ones as the loop
\* gets to them.
ReadHeader ==
  /\ DiskRead(Win, FileSector, 1, 0)
  /\ UNCHANGED <<cardVars, eng, dat_int_status, cmd_no, card_type,
                 drv_status, part, other, faults>>

FirstHeader ==
  /\ Found /\ rd.sector = Directory
  /\ ReadHeader
  /\ UNCHANGED loadVars

HeaderRead == pc = "done" /\ rd.buf = Win /\ rd.sector = FileSector

InLoop == HeaderRead \/ pc = "idle"

NextHeader ==
  /\ InLoop
  /\ NextSegment
  /\ IF seg < Len(image.segs) THEN ReadHeader
     ELSE /\ pc' = "idle" /\ rd' = NoRead /\ done' = 0
          /\ UNCHANGED <<cardVars, eng, dat_int_status, cmd_no, card_type,
                         drv_status, part, other, faults>>

\* What there is of the chunk is read in pieces.
ChunkBegin ==
  /\ InLoop
  /\ ReadBegin
  /\ IF Got > 0
     THEN \E n \in 1 .. Got :
            DiskRead(base, FileSector + s.off + pos, n, Got - n)
     ELSE pc' = "idle" /\ rd' = NoRead /\ done' = 0
  /\ UNCHANGED <<cardVars, eng, dat_int_status, cmd_no, card_type,
                 drv_status, part, other, faults>>

ChunkMore ==
  /\ pc = "done" /\ at = "read" /\ rd.rest > 0
  /\ \E n \in 1 .. rd.rest :
       DiskRead(rd.buf + rd.count, rd.sector + rd.count, n, rd.rest - n)
  /\ UNCHANGED <<loadVars, cardVars, eng, dat_int_status, cmd_no, card_type,
                 drv_status, part, other, faults>>

\* The whole chunk is in: download goes on.
ChunkEnd ==
  /\ pc = "done" /\ at = "read" /\ rd.rest = 0
  /\ at' = "load" /\ pos' = pos + Got
  /\ pc' = "idle" /\ rd' = NoRead /\ done' = 0
  /\ UNCHANGED <<image, mem, alt_mem, seg, cardVars, eng, dat_int_status,
                 cmd_no, card_type, drv_status, part, other, faults>>

\* ERR_EOF.
EndOfFile ==
  /\ pc = "idle" /\ at = "read" /\ Got <= 0
  /\ at' = "failed" /\ pc' = "sleep"
  /\ UNCHANGED <<image, mem, alt_mem, seg, pos, cardVars, eng, dat_int_status,
                 cmd_no, card_type, drv_status, rd, done, part, other, faults>>

Clear ==
  /\ InLoop
  /\ ZeroChunk
  /\ pc' = "idle" /\ rd' = NoRead /\ done' = 0
  /\ UNCHANGED <<cardVars, eng, dat_int_status, cmd_no, card_type, drv_status,
                 part, other, faults>>

Start ==
  /\ pc = "idle"
  /\ Jump
  /\ UNCHANGED bootVars

\* A second later.
Again ==
  /\ pc = "sleep"
  /\ pc' = "main" /\ rd' = NoRead /\ done' = 0
  /\ UNCHANGED <<loadVars, cardVars, eng, dat_int_status, cmd_no, card_type,
                 drv_status, part, other, faults>>

\* The processor is reset, at any time; the card is not.
SystemReset ==
  /\ faults > 0 /\ faults' = faults - 1
  /\ Restart
  /\ pc' = "main" /\ cmd_no' = 1 /\ card_type' = {} /\ drv_status' = "NOINIT"
  /\ rd' = NoRead /\ done' = 0 /\ part' = 0 /\ other' = [a \in Other |-> Junk]
  /\ eng' = NoTransfer /\ dat_int_status' = {}
  /\ UNCHANGED cardVars

Driver == \/ Reset \/ StartupCmd \/ StartupOpCond \/ StartupDone \/ Mount
          \/ ReadCmd \/ ReadAnswer \/ ReadData \/ ReadStop
          \/ Refuse \/ ReadTable \/ NextPartition
          \/ FileOpen \/ FirstHeader \/ NextHeader
          \/ ChunkBegin \/ ChunkMore \/ ChunkEnd \/ EndOfFile \/ Clear
          \/ Start \/ Again

-----------------------------------------------------------------------------
BootInit ==
  /\ LoadInit
  /\ has_power \in Boards /\ kind \in Kinds /\ layout \in Layouts
  /\ card = "idle" /\ if_cond = FALSE /\ busy = MaxBusy
  /\ next = 0 /\ multi = FALSE
  /\ eng = NoTransfer /\ dat_int_status = {}
  /\ pc = "main" /\ cmd_no = 1 /\ card_type = {} /\ drv_status = "NOINIT"
  /\ rd = NoRead /\ done = 0 /\ part = 0 /\ other = [a \in Other |-> Junk]
  /\ faults = MaxFaults

=============================================================================
