------------------------------ MODULE ElfLoad -------------------------------
(***************************************************************************)
(* download() of the boot ROM: the segments of BOOT.ELF go to memory.      *)
(*                                                                         *)
(* The boot ROM keeps its stack, its variables and the file system's       *)
(* window in the first pages of memory, where the program may want to go   *)
(* as well.  What belongs there is put aside at MemAlt and copied by the   *)
(* last instructions before the jump.  Memory, the file and the segments   *)
(* are counted in blocks of 512 bytes; block n of the file contains n.     *)
(* How f_read brings a chunk in is left to BootRom: until it is done, and  *)
(* when it has failed, the chunk's memory may hold anything.               *)
(***************************************************************************)
EXTENDS Integers, Sequences

CONSTANTS
  MemAddr, MemEnd,  \* BOOTROM_MEM_ADDR, BOOTROM_MEM_END: the ROM's own memory
  MemAlt,           \* BOOTROM_MEM_ALT
  Top,              \* the end of memory
  Chunk,            \* blocks read or cleared at a time, 0x10000 bytes
  Images,           \* files that may be there
  Zero, Own, Junk   \* cleared memory, the boot ROM's data, anything else

Segments == [load : BOOLEAN, off : Nat, vaddr : Nat, filesz : Nat, memsz : Nat]

Extent(g) == g.vaddr .. g.vaddr + g.memsz - 1

\* common.h: memory starts at MemAddr, and the application ends before the
\* memory set aside.  The segments of a linked program do not overlap.
Linked(im) ==
  /\ \A i \in DOMAIN im.segs :
       im.segs[i].load => Extent(im.segs[i]) \subseteq MemAddr .. MemAlt - 1
  /\ \A i, j \in DOMAIN im.segs :
       im.segs[i].load /\ im.segs[j].load /\ i # j =>
         Extent(im.segs[i]) \cap Extent(im.segs[j]) = {}

ASSUME LoadAssumption ==
  /\ MemAddr \in Nat /\ MemEnd \in Nat /\ MemAlt \in Nat /\ Top \in Nat
  /\ Chunk \in Nat \ {0}
  /\ MemAddr < MemEnd /\ MemEnd <= MemAlt
  /\ MemAlt + (MemEnd - MemAddr) <= Top
  /\ Zero \notin Int /\ Own \notin Int /\ Junk \notin Int
  /\ Zero # Own /\ Zero # Junk /\ Own # Junk
  /\ Images \subseteq [segs : Seq(Segments), len : Nat]
  /\ \A im \in Images : Linked(im)

VARIABLES
  image,     \* BOOT.ELF: its program headers and its length
  mem,
  alt_mem,   \* something was put aside
  at,        \* "off", "load", "read" (in f_read), "failed" or "jump"
  seg, pos   \* i and pos of the loops

loadVars == <<image, mem, alt_mem, at, seg, pos>>

Memory == MemAddr .. Top - 1
OwnMemory == MemAddr .. MemEnd - 1

Blank == [a \in Memory |-> IF a \in OwnMemory THEN Own ELSE Junk]

Least(a, b) == IF a < b THEN a ELSE b

-----------------------------------------------------------------------------
(* Where a chunk goes.                                                     *)

\* Mutant: a chunk that begins before the ROM's memory ends is kept whole.
Clip_Whole(addr, size) == size

\* Mutant: only a chunk that ends in the boot ROM's memory is put aside.
Redirected_End(addr, size) == addr + size > MemAddr /\ addr + size <= MemEnd

Redirected(addr, size) == addr + size > MemAddr /\ addr < MemEnd

Clip(addr, size) ==
  IF Redirected(addr, size) /\ addr + size > MemEnd THEN MemEnd - addr ELSE size

Target(addr, size) ==
  IF Redirected(addr, size) THEN addr - MemAddr + MemAlt ELSE addr

s == image.segs[seg]
addr == s.vaddr + pos
InFile == pos < s.filesz /\ pos < s.memsz

\* What is asked for at pos: size before and after it is cut at MemEnd.
Want == IF InFile THEN Least(Chunk, Least(s.filesz - pos, s.memsz - pos))
                  ELSE Least(Chunk, s.memsz - pos)
size == Clip(addr, Want)
base == Target(addr, Want)

\* f_read returns less at the end of the file.
Got == Least(size, image.len - (s.off + pos))

Fill(n, Value(_)) ==
  mem' = [a \in Memory |->
            IF a \in base .. base + n - 1 THEN Value(a) ELSE mem[a]]

-----------------------------------------------------------------------------
LoadInit ==
  /\ image \in Images
  /\ mem = Blank /\ alt_mem = FALSE
  /\ at = "off" /\ seg = 1 /\ pos = 0

\* f_open and the ELF header.
Open ==
  /\ at \in {"off", "failed"}
  /\ at' = "load" /\ seg' = 1 /\ pos' = 0
  /\ UNCHANGED <<image, mem, alt_mem>>

InSegment == at = "load" /\ seg <= Len(image.segs) /\ s.load

ReadBegin ==
  /\ InSegment /\ InFile
  /\ alt_mem' = (alt_mem \/ Redirected(addr, Want))
  /\ at' = "read"
  /\ UNCHANGED <<image, mem, seg, pos>>

\* f_read, or a transfer that has outlived it, writes to the chunk.
Scribble ==
  /\ at \in {"read", "failed"}
  /\ seg <= Len(image.segs) /\ s.load /\ InFile
  /\ mem' \in [Memory -> Int \cup {Zero, Own, Junk}]
  /\ \A a \in Memory \ (base .. base + size - 1) : mem'[a] = mem[a]
  /\ UNCHANGED <<image, alt_mem, at, seg, pos>>

ReadDone ==
  /\ at = "read" /\ Got > 0
  /\ Fill(Got, LAMBDA a : s.off + pos + (a - base))
  /\ pos' = pos + Got
  /\ at' = "load"
  /\ UNCHANGED <<image, alt_mem, seg>>

\* An error of the file system, or the end of the file: at any f_read.
ReadFails ==
  /\ at \in {"load", "read"}
  /\ at' = "failed"
  /\ UNCHANGED <<image, mem, alt_mem, seg, pos>>

ZeroChunk ==
  /\ InSegment /\ ~InFile /\ pos < s.memsz
  /\ Fill(size, LAMBDA a : Zero)
  /\ alt_mem' = (alt_mem \/ Redirected(addr, Want))
  /\ pos' = pos + size
  /\ UNCHANGED <<image, at, seg>>

NextSegment ==
  /\ at = "load" /\ seg <= Len(image.segs)
  /\ s.load => pos >= s.memsz
  /\ seg' = seg + 1 /\ pos' = 0
  /\ UNCHANGED <<image, mem, alt_mem, at>>

\* f_close, then the copy, which overwrites the boot ROM's own memory.
Jump ==
  /\ at = "load" /\ seg > Len(image.segs)
  /\ mem' = IF alt_mem
            THEN [a \in Memory |-> IF a \in OwnMemory
                                   THEN mem[a - MemAddr + MemAlt] ELSE mem[a]]
            ELSE mem
  /\ at' = "jump"
  /\ UNCHANGED <<image, alt_mem, seg, pos>>

\* The processor is reset, and main clears its variables.
Restart ==
  /\ mem' = Blank /\ alt_mem' = FALSE
  /\ at' = "off" /\ seg' = 1 /\ pos' = 0
  /\ UNCHANGED image

LoadNext ==
  \/ Open \/ ReadBegin \/ Scribble \/ ReadDone \/ ReadFails \/ ZeroChunk
  \/ NextSegment \/ Jump \/ Restart

LoadSpec == LoadInit /\ [][LoadNext]_loadVars

-----------------------------------------------------------------------------
\* What block k of segment g is to hold.
Content(g, k) == IF k < g.filesz THEN g.off + k ELSE Zero

\* When the program gets control, every segment is where it was linked to
\* be, read or cleared, also the part that had to be put aside.
Loaded ==
  at = "jump" =>
    \A i \in DOMAIN image.segs :
      LET g == image.segs[i] IN
      g.load => \A k \in 0 .. g.memsz - 1 :
                  mem[g.vaddr + k] = Content(g, k)

\* Until then nothing that is loaded touches the memory the boot ROM runs on.
OwnKept == at # "jump" => \A a \in OwnMemory : mem[a] = Own
=============================================================================
