--------------------------- MODULE UbootSdProofs ---------------------------
(***************************************************************************)
(* From reset to u-boot, for every program that was linked as common.h     *)
(* asks, every size of the boot ROM's memory, every chunk, card and number *)
(* of blocks.                                                              *)
(*                                                                         *)
(* First the loading of BOOT.ELF by itself (LInv): what the program finds  *)
(* at the jump, and that the boot ROM does not overwrite itself before.    *)
(* Then the drivers (IInv): a read that is called good has moved the       *)
(* sectors it was for, the driver of the boot ROM loads as ElfLoad says,   *)
(* and who comes after it finds the controller at rest.                    *)
(***************************************************************************)
EXTENDS UbootSd, TLAPS

Values == Int \cup {Zero, Own, Junk}

TypeOK ==
  /\ image \in Images /\ mem \in [Memory -> Values] /\ alt_mem \in BOOLEAN
  /\ at \in {"off", "load", "read", "failed", "jump"}
  /\ seg \in Nat \ {0} /\ pos \in Nat

\* Where the block for address a is kept until the jump.
Where(a) == IF a \in OwnMemory THEN a - MemAddr + MemAlt ELSE a

\* Block k of segment i has been dealt with.
Through(i, k) == i < seg \/ (i = seg /\ k < pos)

\* It is where it is kept, and it will be copied if it has to be.
Placed(i, k) ==
  LET a == image.segs[i].vaddr + k IN
  /\ mem[Where(a)] = Content(image.segs[i], k)
  /\ a \in OwnMemory => alt_mem

SoFar ==
  at \in {"load", "read"} =>
    \A i \in DOMAIN image.segs :
      image.segs[i].load =>
        \A k \in 0 .. image.segs[i].memsz - 1 : Through(i, k) => Placed(i, k)

\* f_read is called for the chunk that is next.
Reading ==
  at = "read" => /\ seg \in DOMAIN image.segs /\ s.load /\ InFile
                 /\ Redirected(addr, Want) => alt_mem

LInv == TypeOK /\ OwnKept /\ SoFar /\ Reading /\ Loaded

-----------------------------------------------------------------------------
LEMMA LeastFacts ==
  ASSUME NEW a \in Int, NEW b \in Int
  PROVE  Least(a, b) \in {a, b} /\ Least(a, b) <= a /\ Least(a, b) <= b
BY DEF Least

LEMMA Segment ==
  ASSUME image \in Images, NEW i \in DOMAIN image.segs
  PROVE  /\ image.segs[i] \in Segments
         /\ image.segs[i].vaddr \in Nat /\ image.segs[i].memsz \in Nat
         /\ image.segs[i].filesz \in Nat /\ image.segs[i].off \in Nat
         /\ image.len \in Nat /\ i \in Nat \ {0}
         /\ DOMAIN image.segs = 1 .. Len(image.segs)
<1>1. image \in [segs : Seq(Segments), len : Nat] BY LoadAssumption
<1>2. image.segs \in Seq(Segments) /\ image.len \in Nat BY <1>1
<1>3. DOMAIN image.segs = 1 .. Len(image.segs) BY <1>2
<1>4. i \in Nat \ {0} BY <1>2, <1>3
<1>5. image.segs[i] \in Segments BY <1>2
<1> QED BY <1>2, <1>3, <1>4, <1>5 DEF Segments

\* A linked program stays below the memory set aside.
LEMMA Bounds ==
  ASSUME image \in Images, NEW i \in DOMAIN image.segs, image.segs[i].load,
         NEW k \in 0 .. image.segs[i].memsz - 1
  PROVE  image.segs[i].vaddr + k \in MemAddr .. MemAlt - 1
<1>1. Extent(image.segs[i]) \subseteq MemAddr .. MemAlt - 1
  BY LoadAssumption DEF Linked
<1>2. image.segs[i].vaddr + k \in Extent(image.segs[i])
  BY Segment DEF Extent
<1> QED BY <1>1, <1>2

\* Two blocks of it have one address only if they are one block.
LEMMA Apart ==
  ASSUME image \in Images,
         NEW i \in DOMAIN image.segs, image.segs[i].load,
         NEW j \in DOMAIN image.segs, image.segs[j].load,
         NEW k \in 0 .. image.segs[i].memsz - 1,
         NEW l \in 0 .. image.segs[j].memsz - 1,
         image.segs[i].vaddr + k = image.segs[j].vaddr + l
  PROVE  i = j /\ k = l
<1>0. /\ image.segs[i].vaddr \in Nat /\ image.segs[i].memsz \in Nat
      /\ image.segs[j].vaddr \in Nat /\ image.segs[j].memsz \in Nat
  BY Segment
<1>1. image.segs[i].vaddr + k \in Extent(image.segs[i])
  BY <1>0 DEF Extent
<1>2. image.segs[j].vaddr + l \in Extent(image.segs[j])
  BY <1>0 DEF Extent
<1>3. i = j BY <1>1, <1>2, LoadAssumption DEF Linked
<1> QED BY <1>3, Segment

\* Where keeps the addresses of a program apart and off the boot ROM's memory.
LEMMA WhereFacts ==
  ASSUME NEW a \in MemAddr .. MemAlt - 1, NEW b \in MemAddr .. MemAlt - 1
  PROVE  /\ Where(a) \in Memory /\ Where(a) \notin OwnMemory
         /\ Where(a) = Where(b) => a = b
BY LoadAssumption DEF Where, Memory, OwnMemory

\* The chunk at pos: it is not empty, ends within its segment, and each of its
\* blocks goes where its address is kept.
LEMMA ChunkFacts ==
  ASSUME image \in Images, seg \in DOMAIN image.segs, s.load,
         pos \in Nat, pos < s.memsz
  PROVE  /\ size \in Nat \ {0} /\ size <= s.memsz - pos
         /\ InFile => size <= s.filesz - pos
         /\ base \in Int
         /\ \A j \in 0 .. size - 1 :
              /\ base + j = Where(addr + j)
              /\ addr + j \in OwnMemory => Redirected(addr, Want)
<1>1. /\ addr = s.vaddr + pos
      /\ s.vaddr \in Nat /\ s.memsz \in Nat /\ s.filesz \in Nat
  BY Segment DEF s, addr
<1>2. addr \in MemAddr .. MemAlt - 1
  <2>1. pos \in 0 .. s.memsz - 1 BY <1>1
  <2> QED BY <1>1, <2>1, Bounds DEF s
<1>3. s.vaddr + (s.memsz - 1) \in MemAddr .. MemAlt - 1
  <2>1. s.memsz - 1 \in 0 .. s.memsz - 1 BY <1>1
  <2> QED BY <1>1, <2>1, Bounds DEF s
<1>4. /\ Want \in Nat \ {0} /\ Want <= s.memsz - pos
      /\ InFile => Want <= s.filesz - pos
  <2>1. CASE InFile
    <3>1. pos < s.filesz /\ pos < s.memsz BY <2>1 DEF InFile
    <3>2. Want = Least(Chunk, Least(s.filesz - pos, s.memsz - pos))
      BY <2>1 DEF Want
    <3> DEFINE rest == Least(s.filesz - pos, s.memsz - pos)
    <3>4. /\ rest \in {s.filesz - pos, s.memsz - pos}
          /\ rest <= s.filesz - pos /\ rest <= s.memsz - pos
      BY <1>1, LeastFacts
    <3> HIDE DEF rest
    <3>5. rest \in Int BY <1>1, <3>4
    <3>6. Want \in {Chunk, rest} /\ Want <= rest
      BY <3>2, <3>5, LoadAssumption, LeastFacts DEF rest
    <3>3. Want \in {Chunk, s.filesz - pos, s.memsz - pos}
          /\ Want <= s.filesz - pos /\ Want <= s.memsz - pos
      BY <1>1, <3>4, <3>5, <3>6, LoadAssumption
    <3> QED BY <1>1, <3>1, <3>3, LoadAssumption
  <2>2. CASE ~InFile
    <3>1. Want = Least(Chunk, s.memsz - pos) BY <2>2 DEF Want
    <3>2. Want \in {Chunk, s.memsz - pos} /\ Want <= s.memsz - pos
      BY <1>1, <3>1, LoadAssumption, LeastFacts
    <3> QED BY <1>1, <2>2, <3>2, LoadAssumption
  <2> QED BY <2>1, <2>2
<1>5. CASE Redirected(addr, Want)
  <2>1. addr < MemEnd BY <1>5 DEF Redirected
  <2>2. size = IF addr + Want > MemEnd THEN MemEnd - addr ELSE Want
    BY <1>5 DEF size, Clip
  <2>3. base = addr - MemAddr + MemAlt BY <1>5 DEF base, Target
  <2>4. size \in Nat \ {0} /\ size <= Want
    BY <1>2, <1>4, <2>1, <2>2, LoadAssumption
  <2>5. \A j \in 0 .. size - 1 : addr + j \in OwnMemory
    BY <1>2, <1>4, <2>1, <2>2, LoadAssumption DEF OwnMemory
  <2>6. \A j \in 0 .. size - 1 : base + j = Where(addr + j)
    BY <1>2, <2>3, <2>4, <2>5, LoadAssumption DEF Where
  <2>7. base \in Int BY <1>2, <2>3, LoadAssumption
  <2> QED BY <1>1, <1>4, <1>5, <2>4, <2>6, <2>7
<1>6. CASE ~Redirected(addr, Want)
  <2>1. size = Want /\ base = addr
    BY <1>6 DEF size, Clip, base, Target
  <2>2. addr >= MemEnd
    BY <1>2, <1>4, <1>6, LoadAssumption DEF Redirected
  <2>3. \A j \in 0 .. size - 1 : addr + j \notin OwnMemory
    BY <1>2, <1>4, <2>1, <2>2, LoadAssumption DEF OwnMemory
  <2>4. \A j \in 0 .. size - 1 : base + j = Where(addr + j)
    BY <2>1, <2>3 DEF Where
  <2> QED BY <1>1, <1>2, <1>4, <2>1, <2>3, <2>4
<1> QED BY <1>5, <1>6

-----------------------------------------------------------------------------
(* A step that changes no more than the first n blocks of the chunk.       *)

ChunkOnly(n) ==
  /\ mem' \in [Memory -> Values]
  /\ \A a \in Memory : a \notin base .. base + n - 1 => mem'[a] = mem[a]

Positioned ==
  /\ TypeOK /\ seg \in DOMAIN image.segs /\ s.load /\ pos < s.memsz

\* A block of the chunk is one of the segment's.
LEMMA ChunkBlock ==
  ASSUME Positioned, NEW j \in 0 .. size - 1
  PROVE  /\ pos + j \in 0 .. s.memsz - 1
         /\ addr + j = s.vaddr + (pos + j)
         /\ addr + j \in MemAddr .. MemAlt - 1
<1>1. s.vaddr \in Nat /\ s.memsz \in Nat /\ pos \in Nat
  BY Segment DEF Positioned, TypeOK, s
<1>2. size \in Nat /\ size <= s.memsz - pos
  BY ChunkFacts DEF Positioned, TypeOK
<1>3. pos + j \in 0 .. s.memsz - 1 BY <1>1, <1>2
<1>4. addr + j = s.vaddr + (pos + j) BY <1>1, <1>2 DEF addr
<1>5. s.vaddr + (pos + j) \in MemAddr .. MemAlt - 1
  BY <1>3, Bounds DEF Positioned, TypeOK, s
<1> QED BY <1>3, <1>4, <1>5

\* It leaves the boot ROM's memory alone.
LEMMA ChunkOwn ==
  ASSUME Positioned, NEW n \in 0 .. size, ChunkOnly(n),
         \A a \in OwnMemory : mem[a] = Own
  PROVE  \A a \in OwnMemory : mem'[a] = Own
<1> SUFFICES ASSUME NEW a \in OwnMemory PROVE mem'[a] = mem[a]
  OBVIOUS
<1>1. a \in Memory /\ a \in Int BY LoadAssumption DEF OwnMemory, Memory
<1>2. SUFFICES ASSUME a \in base .. base + n - 1 PROVE FALSE
  BY <1>1 DEF ChunkOnly
<1>3. PICK j \in 0 .. size - 1 : a = base + j
  <2>1. base \in Int /\ size \in Nat BY ChunkFacts DEF Positioned, TypeOK
  <2>2. a - base \in 0 .. size - 1 /\ a = base + (a - base)
    BY <1>1, <1>2, <2>1
  <2> QED BY <2>2
<1>4. a = Where(addr + j) BY <1>3, ChunkFacts DEF Positioned, TypeOK
<1>5. addr + j \in MemAddr .. MemAlt - 1 BY <1>3, ChunkBlock
<1> QED BY <1>4, <1>5, WhereFacts

\* It leaves what is placed already alone.
LEMMA ChunkPlaced ==
  ASSUME Positioned, NEW n \in 0 .. size, ChunkOnly(n),
         NEW i \in DOMAIN image.segs, image.segs[i].load,
         NEW k \in 0 .. image.segs[i].memsz - 1, Through(i, k)
  PROVE  LET w == Where(image.segs[i].vaddr + k) IN mem'[w] = mem[w]
<1> DEFINE b == image.segs[i].vaddr + k
<1>1. b \in MemAddr .. MemAlt - 1 BY Bounds DEF Positioned, TypeOK
<1>2. Where(b) \in Memory /\ Where(b) \in Int
  BY <1>1, WhereFacts, LoadAssumption DEF Memory
<1>3. SUFFICES ASSUME Where(b) \in base .. base + n - 1 PROVE FALSE
  BY <1>2 DEF ChunkOnly
<1>4. base \in Int /\ size \in Nat /\ size <= s.memsz - pos
  BY ChunkFacts DEF Positioned, TypeOK
<1>5. PICK j \in 0 .. size - 1 : Where(b) = base + j
  <2>1. Where(b) - base \in 0 .. size - 1
        /\ Where(b) = base + (Where(b) - base)
    BY <1>2, <1>3, <1>4
  <2> QED BY <2>1
<1>6. pos + j \in 0 .. s.memsz - 1 BY <1>5, ChunkBlock
<1>7. addr + j = s.vaddr + (pos + j) BY <1>5, ChunkBlock
<1>8. s.vaddr + (pos + j) \in MemAddr .. MemAlt - 1
  BY <1>5, <1>7, ChunkBlock
<1>9. Where(b) = Where(s.vaddr + (pos + j))
  BY <1>5, <1>7, ChunkFacts DEF Positioned, TypeOK
<1>10. b = s.vaddr + (pos + j) BY <1>1, <1>8, <1>9, WhereFacts
<1>11. i = seg /\ k = pos + j
  BY <1>6, <1>10, Apart DEF Positioned, TypeOK, s
<1> QED BY <1>5, <1>11 DEF Through, Positioned, TypeOK
\* All of it is memory.
LEMMA ChunkInMemory ==
  ASSUME Positioned, NEW j \in 0 .. size - 1
  PROVE  base + j \in Memory
<1>1. addr + j \in MemAddr .. MemAlt - 1 BY ChunkBlock
<1> QED BY <1>1, WhereFacts, ChunkFacts DEF Positioned, TypeOK

-----------------------------------------------------------------------------
LEMMA InitLInv == LoadInit => LInv
<1> SUFFICES ASSUME LoadInit PROVE LInv OBVIOUS
<1>1. mem \in [Memory -> Values]
  <2>1. \A a \in Memory : (IF a \in OwnMemory THEN Own ELSE Junk) \in Values
    BY DEF Values
  <2> QED BY <2>1 DEF LoadInit, Blank
<1>2. TypeOK
  <2>1. alt_mem \in BOOLEAN BY Zenon DEF LoadInit
  <2>2. seg \in Nat \ {0} /\ pos \in Nat BY DEF LoadInit
  <2> QED BY <1>1, <2>1, <2>2 DEF LoadInit, TypeOK
<1>3. OwnKept
  BY LoadAssumption DEF LoadInit, OwnKept, Blank, OwnMemory, Memory
<1> QED BY <1>2, <1>3 DEF LoadInit, LInv, SoFar, Reading, Loaded

\* A chunk that has been read or cleared is placed.
LEMMA ChunkThrough ==
  ASSUME LInv, Positioned, at \in {"load", "read"},
         NEW n \in 1 .. size, ChunkOnly(n),
         \A j \in 0 .. n - 1 : mem'[base + j] = Content(s, pos + j),
         alt_mem' \in BOOLEAN,
         Redirected(addr, Want) => alt_mem', alt_mem => alt_mem',
         pos' = pos + n, at' = "load", UNCHANGED <<image, seg>>
  PROVE  LInv'
<1>1. /\ size \in Nat \ {0} /\ size <= s.memsz - pos /\ base \in Int
      /\ \A j \in 0 .. size - 1 :
           /\ base + j = Where(addr + j)
           /\ addr + j \in OwnMemory => Redirected(addr, Want)
  BY ChunkFacts DEF Positioned, TypeOK
<1>2. n \in 0 .. size
  BY <1>1
<1>4. OwnKept'
  <2>1. \A a \in OwnMemory : mem[a] = Own BY DEF LInv, OwnKept
  <2> QED BY <1>2, <2>1, ChunkOwn DEF OwnKept
<1>5. ASSUME NEW i \in DOMAIN image.segs, image.segs[i].load,
             NEW k \in 0 .. image.segs[i].memsz - 1, Through(i, k)'
      PROVE  Placed(i, k)'
  <2> DEFINE a == image.segs[i].vaddr + k
  <2>1. CASE Through(i, k)
    <3>1. Placed(i, k) BY <1>5, <2>1 DEF LInv, SoFar
    <3>2. mem'[Where(a)] = mem[Where(a)]
      BY <1>2, <1>5, <2>1, ChunkPlaced
    <3> QED BY <3>1, <3>2 DEF Placed, Content, Where
  <2>2. CASE ~Through(i, k)
    <3>1. /\ image.segs[i].vaddr \in Nat /\ image.segs[i].memsz \in Nat
          /\ i \in Nat /\ seg \in Nat /\ pos \in Nat /\ s.vaddr \in Nat
      BY Segment DEF Positioned, TypeOK, s
    <3>2. i = seg /\ k >= pos /\ k < pos + n
      BY <1>5, <2>2, <3>1 DEF Through
    <3> DEFINE j == k - pos
    <3>3. j \in 0 .. n - 1 /\ j \in 0 .. size - 1 /\ a = addr + j
          /\ k = pos + j
      BY <1>1, <3>1, <3>2 DEF addr, s
    <3>4. Where(a) = base + j BY <1>1, <3>3
    <3>5. mem'[base + j] = Content(image.segs[i], k)
      BY <3>2, <3>3 DEF s
    <3>6. a \in OwnMemory => alt_mem' BY <1>1, <3>3
    <3> QED BY <3>4, <3>5, <3>6 DEF Placed, Content, Where
  <2> QED BY <2>1, <2>2
<1>6. SoFar'
  <2>1. image' = image OBVIOUS
  <2>2. SUFFICES ASSUME NEW i \in DOMAIN image.segs, image.segs[i].load,
                        NEW k \in 0 .. image.segs[i].memsz - 1, Through(i, k)'
                 PROVE  Placed(i, k)'
    BY <2>1 DEF SoFar
  <2> QED BY <1>5, <2>2
<1>7. TypeOK'
  <2>1. pos' \in Nat BY <1>1 DEF Positioned, TypeOK
  <2> QED BY <2>1 DEF Positioned, TypeOK, ChunkOnly
<1> QED BY <1>4, <1>6, <1>7 DEF LInv, Reading, Loaded

-----------------------------------------------------------------------------
(* Each step.                                                              *)

\* The steps that leave memory alone.
LEMMA OpenLInv == LInv /\ Open => LInv'
<1> SUFFICES ASSUME LInv, Open PROVE LInv' OBVIOUS
<1>1. TypeOK'
  <2>1. seg' \in Nat \ {0} /\ pos' \in Nat BY DEF Open
  <2> QED BY <2>1 DEF LInv, TypeOK, Open
<1>2. OwnKept' BY DEF LInv, OwnKept, Open
<1>3. SoFar'
  <2> SUFFICES ASSUME NEW i \in DOMAIN image.segs,
                      NEW k \in 0 .. image.segs[i].memsz - 1, Through(i, k)'
               PROVE  FALSE
    BY DEF SoFar, Open
  <2>1. i \in Nat \ {0} /\ k \in Nat BY Segment DEF LInv, TypeOK
  <2> QED BY <2>1 DEF Through, Open
<1> QED BY <1>1, <1>2, <1>3 DEF LInv, Reading, Loaded, Open

LEMMA ReadBeginLInv == LInv /\ ReadBegin => LInv'
<1> SUFFICES ASSUME LInv, ReadBegin PROVE LInv' OBVIOUS
<1>1. TypeOK'
  <2>1. alt_mem' \in BOOLEAN BY Zenon DEF ReadBegin, LInv, TypeOK
  <2> QED BY <2>1 DEF LInv, TypeOK, ReadBegin
<1>2. OwnKept' BY DEF LInv, OwnKept, ReadBegin, InSegment
<1>3. SoFar'
  <2> SUFFICES ASSUME NEW i \in DOMAIN image.segs, image.segs[i].load,
                      NEW k \in 0 .. image.segs[i].memsz - 1, Through(i, k)
               PROVE  Placed(i, k)'
    BY DEF SoFar, ReadBegin, Through
  <2>1. Placed(i, k) BY DEF LInv, SoFar, ReadBegin, InSegment
  <2> QED BY <2>1 DEF Placed, ReadBegin, Where, Content
<1>4. Reading'
  <2>1. seg \in DOMAIN image.segs
    <3>1. image.segs \in Seq(Segments) BY LoadAssumption DEF LInv, TypeOK
    <3> QED BY <3>1 DEF ReadBegin, InSegment, LInv, TypeOK
  <2>2. /\ s' = s /\ addr' = addr /\ InFile' = InFile /\ Want' = Want
    BY DEF ReadBegin, s, addr, InFile, Want
  <2>3. s.load /\ InFile /\ (Redirected(addr, Want) => alt_mem')
    BY Zenon DEF ReadBegin, InSegment
  <2> QED BY <2>1, <2>2, <2>3 DEF Reading, ReadBegin, Redirected
<1> QED BY <1>1, <1>2, <1>3, <1>4 DEF LInv, Loaded, ReadBegin

LEMMA ReadFailsLInv == LInv /\ ReadFails => LInv'
BY DEF LInv, TypeOK, OwnKept, SoFar, Reading, Loaded, ReadFails

LEMMA NextSegmentLInv == LInv /\ NextSegment => LInv'
<1> SUFFICES ASSUME LInv, NextSegment PROVE LInv' OBVIOUS
<1>1. TypeOK'
  <2>1. seg' \in Nat \ {0} /\ pos' \in Nat BY DEF NextSegment, LInv, TypeOK
  <2> QED BY <2>1 DEF LInv, TypeOK, NextSegment
<1>2. OwnKept' BY DEF LInv, OwnKept, NextSegment
<1>3. SoFar'
  <2> SUFFICES ASSUME NEW i \in DOMAIN image.segs, image.segs[i].load,
                      NEW k \in 0 .. image.segs[i].memsz - 1, Through(i, k)'
               PROVE  Placed(i, k)'
    BY DEF SoFar, NextSegment
  <2>1. Through(i, k)
    <3>1. /\ i \in Nat /\ k \in Nat /\ seg \in Nat /\ pos \in Nat
          /\ image.segs[i].memsz \in Nat
      BY Segment DEF LInv, TypeOK
    <3>2. i <= seg BY <3>1 DEF Through, NextSegment
    <3>3. CASE i = seg
      <4>1. k < pos BY <3>1, <3>3 DEF NextSegment, s
      <4> QED BY <3>3, <4>1 DEF Through
    <3>4. CASE i < seg BY <3>4 DEF Through
    <3> QED BY <3>1, <3>2, <3>3, <3>4
  <2>2. Placed(i, k) BY <2>1 DEF LInv, SoFar, NextSegment
  <2> QED BY <2>2 DEF Placed, NextSegment, Where, Content
<1> QED BY <1>1, <1>2, <1>3 DEF LInv, Reading, Loaded, NextSegment

\* What f_read may leave behind, whether it goes on or has failed.
LEMMA ScribbleLInv == LInv /\ Scribble => LInv'
<1> SUFFICES ASSUME LInv, Scribble PROVE LInv' OBVIOUS
<1>1. Positioned
  <2>1. image.segs \in Seq(Segments) BY LoadAssumption DEF LInv, TypeOK
  <2>2. seg \in DOMAIN image.segs BY <2>1 DEF Scribble, LInv, TypeOK
  <2> QED BY <2>2 DEF Scribble, InFile, Positioned, LInv
<1>2. ChunkOnly(size) /\ size \in 0 .. size
  <2>1. size \in Nat BY <1>1, ChunkFacts DEF Positioned, TypeOK
  <2>2. ChunkOnly(size) BY DEF Scribble, ChunkOnly, Values
  <2> QED BY <2>1, <2>2
<1>3. TypeOK' BY <1>2 DEF LInv, TypeOK, Scribble, ChunkOnly
<1>4. OwnKept'
  <2>1. \A a \in OwnMemory : mem[a] = Own BY DEF LInv, OwnKept, Scribble
  <2> QED BY <1>1, <1>2, <2>1, ChunkOwn DEF OwnKept
<1>5. SoFar'
  <2> SUFFICES ASSUME at = "read",
                      NEW i \in DOMAIN image.segs, image.segs[i].load,
                      NEW k \in 0 .. image.segs[i].memsz - 1, Through(i, k)
               PROVE  Placed(i, k)'
    BY DEF SoFar, Scribble, Through
  <2>1. Placed(i, k) BY DEF LInv, SoFar
  <2> DEFINE w == Where(image.segs[i].vaddr + k)
  <2>2. mem'[w] = mem[w] BY <1>1, <1>2, ChunkPlaced
  <2> QED BY <2>1, <2>2 DEF Placed, Scribble, Where, Content
<1>6. Reading'
  <2>1. /\ s' = s /\ addr' = addr /\ InFile' = InFile /\ Want' = Want
    BY DEF Scribble, s, addr, InFile, Want
  <2> QED BY <2>1 DEF LInv, Reading, Scribble, Redirected
<1> QED BY <1>3, <1>4, <1>5, <1>6 DEF LInv, Loaded, Scribble

LEMMA ReadDoneLInv == LInv /\ ReadDone => LInv'
<1> SUFFICES ASSUME LInv, ReadDone PROVE LInv' OBVIOUS
<1>1. /\ Positioned /\ at = "read" /\ InFile
      /\ Redirected(addr, Want) => alt_mem
  BY DEF LInv, Reading, ReadDone, Positioned, InFile
<1>2. /\ size \in Nat /\ base \in Int /\ size <= s.filesz - pos
      /\ size <= s.memsz - pos
      /\ s.off \in Nat /\ s.filesz \in Nat /\ s.memsz \in Nat
      /\ image.len \in Nat /\ pos \in Nat
  BY <1>1, ChunkFacts, Segment DEF Positioned, TypeOK, s
<1>3. Got \in 1 .. size
  <2>1. Got \in {size, image.len - (s.off + pos)} /\ Got <= size
    BY <1>2, LeastFacts DEF Got
  <2>2. Got > 0 BY Zenon DEF ReadDone
  <2> QED BY <1>2, <2>1, <2>2
<1>4. mem' = [a \in Memory |-> IF a \in base .. base + Got - 1
                               THEN s.off + pos + (a - base) ELSE mem[a]]
  BY DEF ReadDone, Fill
<1>5. ChunkOnly(Got)
  <2>1. \A a \in Memory : (IF a \in base .. base + Got - 1
                           THEN s.off + pos + (a - base) ELSE mem[a]) \in Values
    BY <1>2, <1>3 DEF Values, LInv, TypeOK
  <2>2. mem' \in [Memory -> Values] BY <1>4, <2>1
  <2> QED BY <1>4, <2>2 DEF ChunkOnly
<1>6. ASSUME NEW j \in 0 .. Got - 1 PROVE mem'[base + j] = Content(s, pos + j)
  <2>1. base + j \in Memory
    <3>1. j \in 0 .. size - 1 BY <1>2, <1>3
    <3> QED BY <1>1, <3>1, ChunkInMemory
  <2>2. base + j \in base .. base + Got - 1 BY <1>2, <1>3
  <2>3. mem'[base + j] = s.off + pos + ((base + j) - base)
    BY <1>4, <2>1, <2>2
  <2>4. Content(s, pos + j) = s.off + (pos + j) BY <1>2, <1>3 DEF Content
  <2> QED BY <1>2, <1>3, <2>3, <2>4
<1> QED BY <1>1, <1>3, <1>5, <1>6, ChunkThrough DEF ReadDone, LInv, TypeOK

LEMMA ZeroChunkLInv == LInv /\ ZeroChunk => LInv'
<1> SUFFICES ASSUME LInv, ZeroChunk PROVE LInv' OBVIOUS
<1>1. Positioned /\ at = "load"
  <2>1. image.segs \in Seq(Segments) BY LoadAssumption DEF LInv, TypeOK
  <2>2. seg \in DOMAIN image.segs
    BY <2>1 DEF ZeroChunk, InSegment, LInv, TypeOK
  <2> QED BY <2>2 DEF ZeroChunk, InSegment, Positioned, LInv
<1>2. /\ size \in Nat \ {0} /\ base \in Int /\ size <= s.memsz - pos
      /\ s.filesz \in Nat /\ s.memsz \in Nat /\ pos \in Nat
  BY <1>1, ChunkFacts, Segment DEF Positioned, TypeOK, s
<1>3. mem' = [a \in Memory |-> IF a \in base .. base + size - 1
                               THEN Zero ELSE mem[a]]
  BY DEF ZeroChunk, Fill
<1>4. ChunkOnly(size)
  <2>1. \A a \in Memory : (IF a \in base .. base + size - 1
                           THEN Zero ELSE mem[a]) \in Values
    BY DEF Values, LInv, TypeOK
  <2>2. mem' \in [Memory -> Values] BY <1>3, <2>1
  <2> QED BY <1>3, <2>2 DEF ChunkOnly
<1>5. ASSUME NEW j \in 0 .. size - 1
      PROVE  mem'[base + j] = Content(s, pos + j)
  <2>1. base + j \in Memory BY <1>1, ChunkInMemory
  <2>2. base + j \in base .. base + size - 1 BY <1>2
  <2>3. pos >= s.filesz BY <1>2 DEF ZeroChunk, InFile
  <2>4. Content(s, pos + j) = Zero BY <1>2, <2>3 DEF Content
  <2> QED BY <1>3, <2>1, <2>2, <2>4
<1>6. /\ alt_mem' \in BOOLEAN
      /\ Redirected(addr, Want) => alt_mem'
      /\ alt_mem => alt_mem'
  BY Zenon DEF ZeroChunk, LInv, TypeOK
<1>7. size \in 1 .. size BY <1>2
<1> QED BY <1>1, <1>4, <1>5, <1>6, <1>7, ChunkThrough DEF ZeroChunk

\* The jump brings back what was put aside.
LEMMA JumpLInv == LInv /\ Jump => LInv'
<1> SUFFICES ASSUME LInv, Jump PROVE LInv' OBVIOUS
<1>1. TypeOK'
  <2>1. ASSUME alt_mem PROVE mem' \in [Memory -> Values]
    <3>1. mem' = [a \in Memory |-> IF a \in OwnMemory
                                   THEN mem[a - MemAddr + MemAlt] ELSE mem[a]]
      BY <2>1 DEF Jump
    <3>2. \A a \in OwnMemory : a - MemAddr + MemAlt \in Memory
      BY LoadAssumption DEF OwnMemory, Memory
    <3>3. \A a \in Memory : (IF a \in OwnMemory
             THEN mem[a - MemAddr + MemAlt] ELSE mem[a]) \in Values
      BY <3>2 DEF LInv, TypeOK
    <3> QED BY <3>1, <3>3
  <2>2. mem' \in [Memory -> Values] BY <2>1 DEF Jump, LInv, TypeOK
  <2> QED BY <2>2 DEF LInv, TypeOK, Jump
<1>2. Loaded'
  <2> SUFFICES ASSUME NEW i \in DOMAIN image.segs, image.segs[i].load,
                      NEW k \in 0 .. image.segs[i].memsz - 1
               PROVE  mem'[image.segs[i].vaddr + k] = Content(image.segs[i], k)
    BY DEF Loaded, Jump, Content
  <2> DEFINE a == image.segs[i].vaddr + k
  <2>1. Through(i, k)
    <3>1. i <= Len(image.segs) /\ i \in Nat BY Segment DEF LInv, TypeOK
    <3>2. Len(image.segs) \in Nat
      <4>1. image.segs \in Seq(Segments) BY LoadAssumption DEF LInv, TypeOK
      <4> QED BY <4>1
    <3> QED BY <3>1, <3>2 DEF Through, Jump, LInv, TypeOK
  <2>2. Placed(i, k) BY <2>1 DEF LInv, SoFar, Jump
  <2>3. a \in Memory
    <3>1. a \in MemAddr .. MemAlt - 1 BY Bounds DEF LInv, TypeOK
    <3> QED BY <3>1, LoadAssumption DEF Memory
  <2>4. CASE a \in OwnMemory
    <3>1. mem[a - MemAddr + MemAlt] = Content(image.segs[i], k) /\ alt_mem
      BY <2>2, <2>4 DEF Placed, Where
    <3> QED BY <2>3, <2>4, <3>1 DEF Jump
  <2>5. CASE a \notin OwnMemory
    <3>1. mem[a] = Content(image.segs[i], k) BY <2>2, <2>5 DEF Placed, Where
    <3> QED BY <2>3, <2>5, <3>1 DEF Jump
  <2> QED BY <2>4, <2>5
<1> QED BY <1>1, <1>2 DEF LInv, OwnKept, SoFar, Reading, Jump

LEMMA RestartLInv == LInv /\ Restart => LInv'
<1> SUFFICES ASSUME LInv, Restart PROVE LInv' OBVIOUS
<1>1. mem' \in [Memory -> Values]
  <2>1. \A a \in Memory : (IF a \in OwnMemory THEN Own ELSE Junk) \in Values
    BY DEF Values
  <2> QED BY <2>1 DEF Restart, Blank
<1>2. TypeOK'
  <2>1. alt_mem' \in BOOLEAN BY Zenon DEF Restart
  <2>2. seg' \in Nat \ {0} /\ pos' \in Nat BY DEF Restart
  <2> QED BY <1>1, <2>1, <2>2 DEF LInv, Restart, TypeOK
<1>3. OwnKept'
  BY LoadAssumption DEF Restart, OwnKept, Blank, OwnMemory, Memory
<1> QED BY <1>2, <1>3 DEF Restart, LInv, SoFar, Reading, Loaded

LEMMA LInductive == LInv /\ [LoadNext]_loadVars => LInv'
<1> SUFFICES ASSUME LInv, [LoadNext]_loadVars PROVE LInv' OBVIOUS
<1>1. CASE LoadNext
  BY <1>1, OpenLInv, ReadBeginLInv, ScribbleLInv, ReadDoneLInv, ReadFailsLInv,
     ZeroChunkLInv, NextSegmentLInv, JumpLInv, RestartLInv DEF LoadNext
<1>2. CASE UNCHANGED loadVars
  <2>1. /\ s' = s /\ addr' = addr /\ InFile' = InFile /\ Want' = Want
    BY <1>2 DEF loadVars, s, addr, InFile, Want
  <2>2. SoFar'
    BY <1>2 DEF LInv, SoFar, Through, Placed, Where, Content, loadVars
  <2>3. Reading' BY <1>2, <2>1 DEF LInv, Reading, Redirected, loadVars
  <2>4. TypeOK' /\ OwnKept' /\ Loaded'
    BY <1>2 DEF LInv, TypeOK, OwnKept, Loaded, Content, loadVars
  <2> QED BY <2>2, <2>3, <2>4 DEF LInv
<1> QED BY <1>1, <1>2

LEMMA LInvAlways == LoadSpec => []LInv
BY InitLInv, LInductive, PTL DEF LoadSpec

-----------------------------------------------------------------------------
\* Whatever the program, the boot ROM's memory and the chunk, and however often
\* a read fails and download is started again: at the jump of bootrom.c every
\* segment is at the address it was linked for, read or cleared.
THEOREM ProgramLoaded == LoadSpec => []Loaded
BY LInvAlways, PTL DEF LInv

\* Until the jump, no chunk of any program is read or cleared over the memory
\* that download(), the file system and the stack are using, not even by a
\* transfer that fails.
THEOREM OwnMemoryKept == LoadSpec => []OwnKept
BY LInvAlways, PTL DEF LInv

-----------------------------------------------------------------------------
(* The drivers.  A read moves blocks in parts, and a part block by block:  *)
(* Progress says how far a transfer is, ReadInv and UbInv what it is for,  *)
(* EngInv where it writes, and QuietInv when there is none.  While the     *)
(* volume is looked for, reads go on after an error, and may meet what is  *)
(* left of the one that failed:  SearchInv and SkipInv say of those what   *)
(* the window holds when one is called good.                               *)

\* n sectors of the card are in memory.
Moved(buf, sector, n) == \A k \in 0 .. n - 1 : At(buf + k) = Data(sector + k)

Reads == {"cmd", "answer", "data", "stop", "done"}

Statuses == SUBSET {"TRS", "ERR"}

Records == [buf : Nat, sector : Nat, count : Nat, rest : Nat, late : BOOLEAN]

CardType ==
  /\ kind \in {"V1", "V2", "HC"} /\ next \in Nat /\ multi \in BOOLEAN
  /\ faults \in Nat

EngType ==
  /\ eng \in [on : BOOLEAN, buf : Nat, left : Nat, watch : BOOLEAN]
  /\ dat_int_status \in Statuses
  /\ other \in [Other -> Int \cup {Junk}]

DrvType ==
  /\ pc \in {"main", "init", "mount", "skip", "idle", "sleep"} \cup Reads
  /\ cmd_no \in 1 .. Len(Startup) + 1
  /\ rd \in Records /\ done \in Nat

VolType == layout \in Layouts /\ part \in 0 .. layout.parts

UbType ==
  /\ up \in {"off", "probed", "idle", "data", "error", "stop"}
  /\ req \in [sector : Nat, count : Nat]
  /\ result \in {"none", "ok", "error"}
  /\ clean \in BOOLEAN

BootType == CardType /\ EngType /\ DrvType /\ VolType /\ UbType

\* A chunk is being read, or was when the read failed.
InChunk == seg <= Len(image.segs) /\ s.load /\ InFile

\* The engine writes to its window, or to the chunk it was set up for.
EngInv ==
  eng.on =>
    /\ eng.left > 0
    /\ \/ eng.buf >= Top /\ eng.buf + eng.left <= Top + 3
       \/ /\ at \in {"read", "failed"} /\ InChunk
          /\ base <= eng.buf /\ eng.buf + eng.left <= base + size

\* Which read is in progress: one on the way to the file, of a header, or of
\* a chunk.
SearchRead ==
  /\ rd.buf = Win /\ rd.count = 1 /\ rd.rest = 0
  /\ \/ at \in {"off", "failed"} /\ (rd.sector \in {0, 1, 2} \/ Checking)
     \/ at = "load" /\ rd.sector = Directory

FirstRead ==
  /\ rd.buf = Win /\ rd.count = 1 /\ rd.rest = 0
  /\ at = "load" /\ rd.sector = FileSector

\* Where the chunk begins on the card.
ChunkStart == FileSector + s.off + pos

\* The pieces before this one have come in.
ChunkRead ==
  /\ at = "read" /\ InChunk
  /\ rd.buf >= base /\ rd.count > 0 /\ rd.buf + rd.count + rd.rest = base + Got
  /\ rd.sector = ChunkStart + (rd.buf - base)
  /\ Moved(base, ChunkStart, rd.buf - base)

PcInv ==
  /\ pc \in {"main", "init", "mount", "skip", "sleep"} => at \in {"off", "failed"}
  /\ pc \in Reads => SearchRead \/ FirstRead \/ ChunkRead
  /\ pc = "idle" => at \in {"load", "jump"} \/ (at = "read" /\ Got <= 0)
  /\ up # "off" => at = "jump"

Searching == pc \in Reads /\ rd.buf = Win /\ rd.sector # FileSector

Filing == pc \in Reads /\ ~Searching

\* A transfer of n sectors: those that came in are where they belong, the card
\* sends the next one, and a status is its own.
Progress(buf, sector, n) ==
  /\ card \in {"data", "tran"} /\ (n = 1 => ~multi)
  /\ eng.on =>
       /\ dat_int_status = {} /\ eng.left <= n
       /\ eng.buf = buf + (n - eng.left)
       /\ Sending => next = sector + (n - eng.left)
       /\ Moved(buf, sector, n - eng.left)
  /\ dat_int_status = {"TRS"} =>
       Moved(buf, sector, n) /\ (n = 1 => card = "tran")

\* A transfer that waits for the answer to its command.
Begun(buf, n) ==
  /\ eng.on /\ eng.buf = buf /\ eng.left = n
  /\ dat_int_status = {} /\ card = "tran"

\* The parts before this one have come in.
ReadInv ==
  Filing =>
    /\ ~rd.late
    /\ done <= rd.count /\ Moved(rd.buf, rd.sector, done)
    /\ pc \in {"cmd", "answer", "data", "stop"} => done < rd.count
    /\ pc = "answer" => Begun(rd.buf + done, Part)
    /\ pc = "data" => Progress(rd.buf + done, rd.sector + done, Part)
    /\ pc = "stop" => Moved(rd.buf + done, rd.sector + done, Part)
    /\ pc = "done" => done = rd.count

\* The sector that a read asks the card for.
Aim == SectorOf(Arg)

\* What an earlier read left is of another sector, so that the window holds
\* the right one only when it came for this read.
SearchInv ==
  Searching =>
    /\ pc # "stop" /\ (pc # "done" => done = 0)
    /\ eng.on => eng.buf = Win /\ eng.left = 1
    /\ Sending => ~multi
    /\ pc \in {"cmd", "answer"} /\ Sending => next # rd.sector
    /\ pc = "answer" =>
         /\ rd.late \/ eng.on
         /\ ~eng.on /\ dat_int_status = {"TRS"} => ~Sound
    /\ pc = "data" =>
         /\ Sending => next = Aim
         /\ ~eng.on /\ dat_int_status = {"TRS"} =>
              (At(Win) = Data(Aim) /\ card = "tran") \/ (rd.late /\ ~Sound)
    /\ pc = "done" =>
         /\ ~eng.on /\ dat_int_status = {}
         /\ Sound => card = "tran" /\ (Addressing \/ rd.sector = 0)
         /\ ~rd.late /\ Addressing => Sound

\* A sector that nobody waits for any more is of this partition, or of one
\* before it, or the address was in bytes for a card that counts in sectors.
Behind == next > 2 /\ (next <= Vbr(part) \/ next >= BlockSize)

SkipInv ==
  /\ pc = "skip" => /\ eng.on => eng.buf = Win /\ eng.left = 1
                    /\ Sending => ~multi
  /\ pc = "skip" \/ (pc \in Reads /\ Checking) => (Sending => Behind)

\* u-boot has not asked for anything yet.
Handed == at = "jump" /\ up \in {"off", "probed"}

\* No transfer is set up, and no status is left.
AtRest ==
  \/ pc \in {"init", "mount"} \/ (Filing /\ pc \in {"cmd", "stop", "done"})
  \/ (pc = "idle" /\ at # "jump") \/ Handed

\* The card takes a read command.
Ready ==
  \/ Filing /\ pc \in {"cmd", "done"}
  \/ (pc = "idle" /\ at # "jump") \/ Handed
  \/ pc = "mount" /\ drv_status = "OK"
  \/ pc = "init" /\ cmd_no > Len(Startup)

QuietInv ==
  /\ AtRest => ~eng.on /\ dat_int_status = {}
  /\ Ready => card = "tran"

AddrInv ==
  /\ pc = "init" => drv_status = "NOINIT"
  /\ Filing \/ pc = "idle" => Addressing

\* The same for u-boot, as long as nothing happened to its commands.
UbInv ==
  /\ up = "idle" /\ clean => ~eng.on /\ dat_int_status = {} /\ card = "tran"
  /\ up = "data" => req.count > 0 /\ UbBuf + req.count <= Top + 3
  /\ up = "data" /\ clean => Progress(UbBuf, req.sector, req.count)
  /\ up \in {"stop", "error"} /\ clean =>
       ~eng.on /\ dat_int_status = {} /\ card \in {"data", "tran"}
  /\ up = "stop" /\ clean => Moved(UbBuf, req.sector, req.count)
  /\ up = "idle" /\ result = "ok" /\ clean =>
       Moved(UbBuf, req.sector, req.count)

IInv == /\ BootType /\ EngInv /\ PcInv /\ ReadInv /\ SearchInv /\ SkipInv
        /\ QuietInv /\ AddrInv /\ UbInv

-----------------------------------------------------------------------------
(* What the steps share.                                                   *)

\* The chunk is where the loops are.
LEMMA Pos ==
  ASSUME UNCHANGED <<image, seg, pos>>
  PROVE  /\ s' = s /\ addr' = addr /\ InFile' = InFile /\ Want' = Want
         /\ base' = base /\ size' = size /\ Got' = Got
BY DEF s, addr, InFile, Want, base, size, Got

\* A chunk that is read is memory, and so is what f_read returns of it.
LEMMA ChunkPlace ==
  ASSUME LInv, seg <= Len(image.segs), s.load, InFile
  PROVE  /\ base \in Nat /\ MemAddr <= base
         /\ size \in Nat \ {0} /\ base + size <= Top
         /\ Got \in Int /\ Got <= size
         /\ pos \in Nat /\ s.off \in Nat
<1>1. image.segs \in Seq(Segments) BY LoadAssumption DEF LInv, TypeOK
<1>2. seg \in DOMAIN image.segs BY <1>1 DEF LInv, TypeOK
<1>3. Positioned BY <1>2 DEF Positioned, InFile, LInv
<1>4. size \in Nat \ {0} /\ base \in Int
  BY <1>3, ChunkFacts DEF Positioned, TypeOK
<1>5. base + 0 \in Memory /\ base + (size - 1) \in Memory
  <2>1. 0 \in 0 .. size - 1 /\ size - 1 \in 0 .. size - 1 BY <1>4
  <2> QED BY <1>3, <2>1, ChunkInMemory
<1>6. base \in Nat /\ MemAddr <= base /\ base + size <= Top
  BY <1>4, <1>5, LoadAssumption DEF Memory
<1>7. pos \in Nat /\ s.off \in Nat /\ image.len \in Nat
  BY <1>2, Segment DEF LInv, TypeOK, s
<1>8. Got \in Int /\ Got <= size BY <1>4, <1>7, LeastFacts DEF Got
<1> QED BY <1>4, <1>6, <1>7, <1>8

\* A word that is moved changes one cell.
LEMMA BlockMoves ==
  ASSUME IInv, LInv, Block
  PROVE  \A a \in Nat : At(a)' = IF a = eng.buf THEN Data(next) ELSE At(a)
<1>1. eng.on /\ eng.buf \in Nat /\ eng.left \in Nat \ {0}
  BY DEF IInv, BootType, EngType, EngInv, Block, Underway
<1>2. Other = Top .. Top + 2 /\ Top \in Nat BY LoadAssumption DEF Other
<1>3. CASE eng.buf \in Other
  <2>1. other' = [other EXCEPT ![eng.buf] = Data(next)] /\ mem' = mem
    BY <1>3 DEF Block, Store
  <2>2. other \in [Other -> Int \cup {Junk}] BY DEF IInv, BootType, EngType
  <2> QED BY <1>3, <2>1, <2>2 DEF At
<1>4. CASE eng.buf \notin Other
  <2>1. mem' = [mem EXCEPT ![eng.buf] = Data(next)] /\ other' = other
    BY <1>4 DEF Block, Store
  <2>2. eng.buf \in Memory
    <3>1. /\ InChunk /\ base <= eng.buf /\ eng.buf + eng.left <= base + size
      BY <1>1, <1>2, <1>4 DEF IInv, EngInv
    <3>2. base \in Nat /\ MemAddr <= base /\ base + size <= Top /\ size \in Nat
      BY <3>1, ChunkPlace DEF InChunk
    <3> QED BY <1>1, <3>1, <3>2, LoadAssumption DEF Memory, LInv, TypeOK
  <2>3. mem \in [Memory -> Values] BY DEF LInv, TypeOK
  <2> QED BY <1>4, <2>1, <2>2, <2>3 DEF At
<1> QED BY <1>3, <1>4

\* The table of partitions ends before the directory, in sectors and in bytes.
LEMMA Volume ==
  ASSUME VolType
  PROVE  /\ part \in Nat /\ layout.parts \in Nat /\ part <= layout.parts
         /\ FileSector \in Nat /\ layout.parts + 3 < FileSector
         /\ BlockSize \in Nat /\ layout.parts + 3 < BlockSize
<1>1. layout.parts \in Nat /\ FileSector \in Nat /\ BlockSize \in Nat
  BY BootAssumption DEF VolType
<1>2. layout.parts + 3 < Least(FileSector, BlockSize)
  BY BootAssumption DEF VolType
<1>3. Least(FileSector, BlockSize) <= FileSector
      /\ Least(FileSector, BlockSize) <= BlockSize
      /\ Least(FileSector, BlockSize) \in Nat
  BY <1>1, LeastFacts
<1>4. part \in Nat /\ part <= layout.parts BY <1>1 DEF VolType
<1> QED BY <1>1, <1>2, <1>3, <1>4

\* A command the driver sends: what becomes of the card, and that an answer
\* means that it was taken.
LEMMA ReadExchange ==
  ASSUME CardType, VolType, NEW cmd \in {"CMD17", "CMD18"}, NEW arg \in Nat,
         NEW ans, Exchange(cmd, arg, ans)
  PROVE  /\ next' \in Nat /\ multi' \in BOOLEAN /\ faults' \in Nat
         /\ kind' = kind /\ layout' = layout
         /\ \/ UNCHANGED <<card, next, multi>> /\ ans # "ok"
            \/ /\ next' = SectorOf(arg) /\ (multi' <=> cmd = "CMD18")
               /\ card' = IF OnCard(arg) THEN "data" ELSE "tran"
<1>1. SectorOf(arg) \in Nat BY Volume DEF SectorOf
<1>2. faults' \in Nat BY DEF Exchange, CardType
<1>3. CASE UNCHANGED cardVars /\ ans # "ok"
  BY <1>2, <1>3 DEF cardVars, CardType
<1>4. CASE Hear(cmd, arg)
  <2>1. card' = IF OnCard(arg) THEN "data" ELSE "tran"
    BY <1>4 DEF Hear, Becomes
  <2>2. multi' = (cmd = "CMD18") BY Zenon, <1>4 DEF Hear
  <2>3. next' = SectorOf(arg) /\ kind' = kind /\ layout' = layout
    BY <1>4 DEF Hear
  <2> QED BY <1>1, <1>2, <2>1, <2>2, <2>3
<1> QED BY <1>3, <1>4 DEF Exchange

LEMMA StopExchange ==
  ASSUME CardType, NEW ans, Exchange("CMD12", 0, ans)
  PROVE  /\ next' = next /\ multi' = multi /\ kind' = kind
         /\ layout' = layout /\ faults' \in Nat
         /\ ans = "ok" => card' = "tran"
         /\ card = "tran" => card' = "tran"
         /\ card = "data" /\ faults' = faults => card' = "tran"
<1>0. faults' \in Nat BY DEF Exchange, CardType
<1>1. CASE Hear("CMD12", 0) /\ (ans = "ok" \/ faults' = faults - 1)
  BY <1>0, <1>1 DEF Hear, Becomes
<1>2. CASE UNCHANGED cardVars /\ ans = "timeout"
           /\ (faults' = faults - 1 \/ ~Understands("CMD12"))
  BY <1>0, <1>2 DEF cardVars, Understands, Taken, CardType
<1> QED BY <1>1, <1>2 DEF Exchange

\* The address a sector has for a card.
LEMMA Address ==
  ASSUME NEW n \in Nat, NEW b \in Nat \ {0}
  PROVE  n * b \in Nat /\ (n * b) \div b = n
OBVIOUS

LEMMA ArgFacts ==
  ASSUME CardType, DrvType, VolType
  PROVE  Arg \in Nat /\ (Addressing => SectorOf(Arg) = rd.sector + done)
<1>1. rd.sector + done \in Nat BY DEF DrvType, Records
<1>2. BlockSize \in Nat \ {0} BY Volume
<1> QED BY <1>1, <1>2, Address DEF Arg, Addressing, SectorOf

\* An address that does not fit the card is for another sector, and for none
\* of a partition that is still to be looked at.
LEMMA AimFacts ==
  ASSUME CardType, DrvType, VolType, rd.buf = Win, done = 0
  PROVE  /\ Aim \in Nat
         /\ Aim = rd.sector <=> Addressing \/ rd.sector = 0
         /\ Checking /\ OnCard(Arg) =>
              Aim > 2 /\ (Aim <= Vbr(part) \/ Aim >= BlockSize)
<1> DEFINE n == rd.sector
           b == BlockSize
<1>1. n \in Nat BY DEF DrvType, Records
<1>2. b \in Nat /\ b > 3 /\ part \in Nat /\ part + 3 < b BY Volume
<1>3. Checking => n = 2 + part /\ part > 0 BY DEF Checking, Vbr
<1> HIDE DEF n, b
<1>4. CASE kind = "HC" /\ "BLOCK" \in card_type
  <2>1. Aim = n BY <1>1, <1>4 DEF Aim, SectorOf, Arg, n
  <2> QED BY <1>1, <1>2, <1>3, <1>4, <2>1 DEF Addressing, Vbr, n, b
<1>5. CASE kind = "HC" /\ "BLOCK" \notin card_type
  <2>1. Aim = n * b BY <1>1, <1>5 DEF Aim, SectorOf, Arg, n, b
  <2>2. n * b \in Nat /\ (n * b = n => n = 0) BY <1>1, <1>2
  <2>3. n > 0 => n * b >= b BY <1>1, <1>2
  <2>4. n = 0 => n * b = 0 BY <1>2
  <2> QED BY <1>1, <1>2, <1>3, <1>5, <2>1, <2>2, <2>3, <2>4
          DEF Addressing, Vbr, n, b
<1>6. CASE kind # "HC" /\ "BLOCK" \in card_type
  <2>1. Aim = n \div b /\ Arg = n
    BY <1>1, <1>6 DEF Aim, SectorOf, Arg, n, b
  <2>2. n \div b \in Nat /\ (n \div b = n => n = 0) BY <1>1, <1>2
  <2>3. n = 0 => n \div b = 0 BY <1>2
  <2>4. Checking => ~OnCard(Arg)
    <3> SUFFICES ASSUME Checking PROVE n % b # 0
      BY <1>6, <2>1 DEF OnCard, b
    <3>1. n < b /\ n > 0 BY <1>1, <1>2, <1>3
    <3> QED BY <1>1, <1>2, <3>1
  <2> QED BY <1>6, <2>1, <2>2, <2>3, <2>4 DEF Addressing, n
<1>7. CASE kind # "HC" /\ "BLOCK" \notin card_type
  <2>1. Aim = (n * b) \div b BY <1>1, <1>7 DEF Aim, SectorOf, Arg, n, b
  <2>2. Aim = n BY <1>1, <1>2, <2>1, Address
  <2> QED BY <1>1, <1>2, <1>3, <1>7, <2>2 DEF Addressing, Vbr, n, b
<1> QED BY <1>4, <1>5, <1>6, <1>7

\* A chunk is read to where the window is not.
LEMMA ChunkBelow ==
  ASSUME LInv, DrvType, ChunkRead PROVE rd.buf < Top
<1>1. /\ base \in Nat /\ base + size <= Top /\ size \in Nat
      /\ Got \in Int /\ Got <= size
  BY ChunkPlace DEF ChunkRead, InChunk
<1>2. rd.buf \in Nat /\ rd.count \in Nat /\ rd.rest \in Nat
  BY DEF DrvType, Records
<1>3. rd.count > 0 /\ rd.buf + rd.count + rd.rest = base + Got BY DEF ChunkRead
<1> QED BY <1>1, <1>2, <1>3, LoadAssumption

\* A read that is begun comes when no other one is under way.
LEMMA ReadRecord ==
  ASSUME NEW b \in Nat, NEW q \in Nat, NEW c \in Nat, NEW r \in Nat,
         DiskRead(b, q, c, r)
  PROVE  /\ rd' \in Records /\ ~rd'.late /\ done' = 0 /\ pc' = "cmd"
         /\ rd'.buf = b /\ rd'.sector = q /\ rd'.count = c /\ rd'.rest = r
<1>1. rd' = [buf |-> b, sector |-> q, count |-> c, rest |-> r, late |-> FALSE]
  BY DEF DiskRead
<1>2. rd' \in Records BY <1>1, SMT DEF Records
<1>3. ~rd'.late BY <1>1, Zenon
<1>4. rd'.buf = b /\ rd'.sector = q /\ rd'.count = c /\ rd'.rest = r BY <1>1
<1> QED BY <1>2, <1>3, <1>4 DEF DiskRead

\* So is none.
LEMMA NoReadRecord == NoRead \in Records /\ ~NoRead.late
<1>1. NoRead = [buf |-> Win, sector |-> 0, count |-> 0, rest |-> 0,
                late |-> FALSE] /\ Win \in Nat
  BY LoadAssumption DEF NoRead, Win
<1>2. NoRead \in Records BY <1>1, SMT DEF Records
<1>3. ~NoRead.late BY <1>1, Zenon
<1> QED BY <1>2, <1>3

\* The fields of a read.
LEMMA ReadFields ==
  ASSUME rd \in Records
  PROVE  /\ rd.buf \in Nat /\ rd.sector \in Nat /\ rd.count \in Nat
         /\ rd.rest \in Nat /\ rd.late \in BOOLEAN
BY DEF Records

\* Nothing is moved where no more than 0 blocks are meant.
LEMMA NoneMoved == ASSUME NEW b, NEW q PROVE Moved(b, q, 0)
BY DEF Moved

-----------------------------------------------------------------------------
(* Download, which runs with the controller at rest.                       *)

FileStep == \/ FirstHeader \/ NextHeader \/ ChunkBegin \/ ChunkMore
            \/ ChunkEnd \/ EndOfFile \/ Clear \/ Start

\* The read that a step begins.
Asked ==
  \/ /\ pc' = "cmd" /\ done' = 0 /\ rd'.count > 0 /\ ~rd'.late
     /\ rd' \in Records
     /\ rd'.buf = Win => rd'.sector = FileSector
  \/ /\ pc' \in {"idle", "sleep"} /\ done' \in {0, done} /\ rd' \in {NoRead, rd}

\* The reads of the file are not those of its directory.
LEMMA FileReads ==
  ASSUME IInv, LInv, pc \in Reads
  PROVE  /\ FirstRead \/ ChunkRead => Filing
         /\ SearchRead => Searching
<1>1. rd.buf # Win \/ rd.sector = FileSector => Filing
  BY DEF Filing, Searching
<1>2. ChunkRead => rd.buf # Win
  BY ChunkBelow, LoadAssumption DEF IInv, BootType, Win, DrvType, Records
<1>3. FirstRead => rd.sector = FileSector BY DEF FirstRead
<1>4. SearchRead => rd.buf = Win /\ rd.sector # FileSector
  <2>1. /\ part \in Nat /\ FileSector \in Nat /\ part + 3 < FileSector
    BY Volume DEF IInv, BootType
  <2> QED BY <2>1 DEF SearchRead, Checking, Vbr, Directory
<1> QED BY <1>1, <1>2, <1>3, <1>4 DEF Searching

\* The directory was found where the card was asked for it.
LEMMA DirectoryFound ==
  ASSUME IInv, LInv, Found
  PROVE  /\ ~eng.on /\ dat_int_status = {} /\ card = "tran"
         /\ rd.sector = Directory => Addressing
<1>1. pc \in Reads /\ pc = "done" BY DEF Found, Reads
<1>2. /\ FileSector \in Nat /\ FileSector > 3
      /\ Directory # 0 /\ Directory # FileSector
  BY Volume DEF IInv, BootType, Directory
<1>3. CASE Searching
  BY <1>1, <1>2, <1>3 DEF IInv, SearchInv, Found
<1>4. CASE Filing
  <2>1. rd.sector = FileSector BY <1>4 DEF Filing, Searching, Found
  <2> QED BY <1>1, <1>2, <1>4, <2>1 DEF IInv, QuietInv, AtRest, Ready
<1> QED BY <1>1, <1>3, <1>4 DEF Filing

LEMMA FileFacts ==
  ASSUME IInv, LInv, FileStep, UNCHANGED ubVars
  PROVE  /\ UNCHANGED <<kind, layout, card, next, multi, eng, dat_int_status,
                        cmd_no, card_type, drv_status, part, faults, up, req,
                        result, clean>>
         /\ pc \in {"done", "idle"} /\ at # "jump" /\ up = "off"
         /\ (Start \/ Clear) \/ UNCHANGED mem
         /\ other' = other
         /\ ~eng.on /\ dat_int_status = {} /\ card = "tran" /\ Addressing
<1>1. /\ UNCHANGED <<kind, layout, card, next, multi, eng, dat_int_status,
                     cmd_no, card_type, drv_status, part, faults, up, req,
                     result, clean>>
      /\ pc \in {"done", "idle"} /\ at # "jump" /\ up = "off"
      /\ (Start \/ Clear) \/ UNCHANGED mem
      /\ other' = other
  <2> USE DEF IInv, PcInv, ubVars, cardVars, loadVars
  <2>1. CASE FirstHeader
    BY <2>1
    DEF FirstHeader, ReadHeader, Found, SearchRead, FirstRead, ChunkRead, Reads
  <2>2. CASE NextHeader
    BY <2>2 DEF NextHeader, NextSegment, InLoop, HeaderRead, ReadHeader
  <2>3. CASE ChunkBegin
    BY <2>3 DEF ChunkBegin, ReadBegin, InSegment, InLoop, HeaderRead
  <2>4. CASE ChunkMore BY <2>4 DEF ChunkMore
  <2>5. CASE ChunkEnd BY <2>5 DEF ChunkEnd
  <2>6. CASE EndOfFile BY <2>6 DEF EndOfFile
  <2>7. CASE Clear
    BY <2>7 DEF Clear, ZeroChunk, InSegment, InLoop, HeaderRead
  <2>8. CASE Start BY <2>8 DEF Start, Jump, bootVars, drvVars
  <2> QED BY <2>1, <2>2, <2>3, <2>4, <2>5, <2>6, <2>7, <2>8 DEF FileStep
<1>2. ~eng.on /\ dat_int_status = {} /\ card = "tran" /\ Addressing
  <2>1. CASE FirstHeader BY <2>1, DirectoryFound DEF FirstHeader
  <2>2. CASE pc = "idle"
    BY <1>1, <2>2 DEF IInv, QuietInv, AddrInv, AtRest, Ready
  <2>3. CASE pc = "done" /\ Filing
    BY <2>3 DEF IInv, QuietInv, AddrInv, AtRest, Ready
  <2>4. CASE InLoop /\ pc = "done"
    BY <2>3, <2>4 DEF InLoop, HeaderRead, Filing, Searching, Reads
  <2>5. CASE at = "read" /\ pc = "done"
    <3>1. ChunkRead
      BY <2>5 DEF IInv, PcInv, SearchRead, FirstRead, Reads
    <3> QED BY <2>3, <2>5, <3>1, FileReads DEF Reads
  <2> QED
    BY <1>1, <2>1, <2>2, <2>4, <2>5
    DEF FileStep, NextHeader, ChunkBegin, ChunkMore, ChunkEnd, EndOfFile, Clear,
        Start
<1> QED BY <1>1, <1>2

LEMMA FileAsks == ASSUME IInv, LInv, FileStep PROVE Asked
<1> USE DEF Asked, Win
<1>0. /\ FileSector \in Nat /\ Top \in Nat /\ rd.buf \in Nat
      /\ rd.sector \in Nat /\ rd.count \in Nat /\ rd.rest \in Nat
  BY BootAssumption, LoadAssumption, ReadFields DEF IInv, BootType, DrvType
<1>1. ASSUME ReadHeader PROVE Asked
  <2>1. DiskRead(Win, FileSector, 1, 0) BY <1>1 DEF ReadHeader
  <2> QED BY <1>0, <2>1, ReadRecord
<1>2. CASE FirstHeader BY <1>1, <1>2 DEF FirstHeader
<1>3. CASE NextHeader BY <1>1, <1>3 DEF NextHeader
<1>4. CASE ChunkBegin
  <2>1. CASE Got > 0
    <3>1. InChunk BY <1>4 DEF ChunkBegin, ReadBegin, InSegment, InChunk
    <3>2. /\ base \in Nat /\ Got \in Int /\ s.off \in Nat /\ pos \in Nat
          /\ base < Top
      BY <1>0, <3>1, ChunkPlace DEF InChunk
    <3>3. PICK n \in 1 .. Got :
            DiskRead(base, FileSector + s.off + pos, n, Got - n)
      BY <1>4, <2>1 DEF ChunkBegin
    <3>4. /\ FileSector + s.off + pos \in Nat /\ n \in Nat \ {0}
          /\ Got - n \in Nat
      BY <1>0, <3>2
    <3>5. /\ rd' \in Records /\ ~rd'.late /\ done' = 0 /\ pc' = "cmd"
          /\ rd'.buf = base /\ rd'.count = n
      BY <3>2, <3>3, <3>4, ReadRecord
    <3> QED BY <1>0, <3>2, <3>4, <3>5
  <2>2. CASE ~(Got > 0) BY <1>4, <2>2 DEF ChunkBegin
  <2> QED BY <2>1, <2>2
<1>5. CASE ChunkMore
  <2>1. PICK n \in 1 .. rd.rest :
          DiskRead(rd.buf + rd.count, rd.sector + rd.count, n, rd.rest - n)
    BY <1>5 DEF ChunkMore
  <2>2. ChunkRead
    BY <1>5 DEF ChunkMore, IInv, PcInv, SearchRead, FirstRead, Reads
  <2>3. base \in Nat /\ base + size <= Top /\ Got \in Int /\ Got <= size
        /\ size \in Nat
    BY <2>2, ChunkPlace DEF ChunkRead, InChunk
  <2>4. rd.buf + rd.count < Top BY <1>0, <2>1, <2>2, <2>3 DEF ChunkRead
  <2>5. /\ rd.buf + rd.count \in Nat /\ rd.sector + rd.count \in Nat
        /\ n \in Nat \ {0} /\ rd.rest - n \in Nat
    BY <1>0
  <2>6. /\ rd' \in Records /\ ~rd'.late /\ done' = 0 /\ pc' = "cmd"
        /\ rd'.buf = rd.buf + rd.count /\ rd'.count = n
    BY <2>1, <2>5, ReadRecord
  <2> QED BY <1>0, <2>4, <2>5, <2>6
<1>6. CASE ChunkEnd BY <1>6 DEF ChunkEnd
<1>7. CASE EndOfFile BY <1>7 DEF EndOfFile
<1>8. CASE Clear BY <1>8 DEF Clear
<1>9. CASE Start BY <1>9 DEF Start, bootVars, drvVars, IInv, PcInv, ChunkRead
<1> QED
  BY <1>2, <1>3, <1>4, <1>5, <1>6, <1>7, <1>8, <1>9 DEF FileStep

\* A step of download keeps, or sets, what the read in progress is for.
LEMMA FilePc ==
  ASSUME IInv, LInv, FileStep, UNCHANGED ubVars
  PROVE  PcInv'
<1>0. up' = "off" /\ up = "off" BY FileFacts DEF ubVars
<1> USE <1>0 DEF PcInv, Reads, DiskRead, Win
<1>2. CASE FirstHeader
  <2>1. pc \in Reads /\ rd.buf = Win /\ rd.sector = Directory
    BY <1>2 DEF FirstHeader, Found
  <2>2. SearchRead
    <3>1. FileSector \in Nat BY BootAssumption
    <3>2. Searching BY <2>1, <3>1 DEF Searching, Directory
    <3> QED BY <2>1, <3>2, FileReads DEF IInv, Filing
  <2>3. ~Checking
    <3>1. part \in Nat /\ FileSector \in Nat /\ part + 3 < FileSector
      BY Volume DEF IInv, BootType
    <3> QED BY <2>1, <3>1 DEF Checking, Vbr, Directory
  <2>4. at = "load"
    <3>1. FileSector \in Nat /\ FileSector > 3
      BY Volume DEF IInv, BootType
    <3> QED BY <2>1, <2>2, <2>3, <3>1 DEF SearchRead, Directory
  <2> QED BY <1>2, <2>4 DEF FirstHeader, ReadHeader, FirstRead, loadVars
<1>3. CASE NextHeader
  BY <1>3 DEF NextHeader, NextSegment, ReadHeader, FirstRead
<1>4. CASE ChunkBegin
  <2>1. /\ InChunk /\ at' = "read" /\ UNCHANGED <<image, mem, seg, pos>>
    BY <1>4 DEF ChunkBegin, ReadBegin, InSegment, InChunk
  <2>2. base' = base /\ Got' = Got /\ s' = s /\ InFile' = InFile BY <2>1, Pos
  <2>3. base \in Nat /\ Got \in Int /\ s.off \in Nat /\ pos \in Nat
    BY <2>1, ChunkPlace DEF InChunk
  <2>4. CASE Got > 0
    <3>1. PICK n \in 1 .. Got :
            DiskRead(base, FileSector + s.off + pos, n, Got - n)
      BY <1>4, <2>4 DEF ChunkBegin
    <3>2. ChunkRead'
      BY <2>1, <2>2, <2>3, <3>1, BootAssumption
      DEF ChunkRead, InChunk, ChunkStart, Moved
    <3> QED BY <3>1, <3>2
  <2>5. CASE ~(Got > 0) BY <1>4, <2>1, <2>2, <2>3, <2>5 DEF ChunkBegin
  <2> QED BY <2>4, <2>5
<1>5. CASE ChunkMore
  <2>1. PICK n \in 1 .. rd.rest :
          DiskRead(rd.buf + rd.count, rd.sector + rd.count, n, rd.rest - n)
    BY <1>5 DEF ChunkMore
  <2>2. /\ ChunkRead /\ done = rd.count
        /\ Moved(rd.buf, rd.sector, rd.count)
    <3>1. ChunkRead
      BY <1>5 DEF IInv, ChunkMore, SearchRead, FirstRead
    <3> QED BY <1>5, <3>1, FileReads DEF IInv, ReadInv, ChunkMore
  <2>3. /\ UNCHANGED <<image, mem, at, seg, pos, other>>
        /\ base' = base /\ Got' = Got /\ s' = s /\ InFile' = InFile
    BY <1>5, Pos DEF ChunkMore, loadVars
  <2>4. base \in Nat /\ Got \in Int /\ s.off \in Nat /\ pos \in Nat
    BY <2>2, ChunkPlace DEF ChunkRead, InChunk
  <2>5. /\ rd.buf \in Nat /\ rd.sector \in Nat /\ rd.count \in Nat
        /\ rd.rest \in Nat
    BY DEF IInv, BootType, DrvType, Records
  <2>6. Moved(base, ChunkStart, rd.buf + rd.count - base)
    <3> SUFFICES ASSUME NEW k \in 0 .. rd.buf + rd.count - base - 1
                 PROVE  At(base + k) = Data(ChunkStart + k)
      BY <2>4, <2>5 DEF Moved
    <3>1. CASE k < rd.buf - base
      BY <2>2, <2>4, <2>5, <3>1 DEF ChunkRead, Moved
    <3>2. CASE k >= rd.buf - base
      <4> DEFINE j == k - (rd.buf - base)
      <4>1. j \in 0 .. rd.count - 1 BY <2>4, <2>5, <3>2
      <4>2. At(rd.buf + j) = Data(rd.sector + j) BY <2>2, <4>1 DEF Moved
      <4>3. ChunkStart \in Nat BY <2>4, BootAssumption DEF ChunkStart
      <4>4. rd.buf + j = base + k /\ rd.sector + j = ChunkStart + k
        BY <2>2, <2>4, <2>5, <4>3 DEF ChunkRead
      <4> QED BY <4>2, <4>4
    <3> QED BY <2>4, <2>5, <3>1, <3>2
  <2>7. ChunkRead'
    <3>1. Moved(base, ChunkStart, rd.buf - base)'
      <4>1. rd'.buf = rd.buf + rd.count BY <2>1
      <4> QED BY <2>2, <2>3, <2>4, <2>5, <2>6, <4>1
              DEF Moved, At, ChunkStart, Data
    <3>2. rd'.buf = rd.buf + rd.count /\ rd'.sector = rd.sector + rd.count
          /\ rd'.count = n /\ rd'.rest = rd.rest - n
      BY <2>1
    <3>3. ChunkStart' = ChunkStart /\ ChunkStart \in Nat /\ InChunk'
      BY <2>2, <2>3, <2>4, BootAssumption DEF ChunkStart, InChunk, ChunkRead
    <3> QED BY <2>1, <2>2, <2>3, <2>4, <2>5, <3>1, <3>2, <3>3 DEF ChunkRead
  <2> QED BY <1>5, <2>1, <2>7
<1>6. CASE ChunkEnd BY <1>6 DEF ChunkEnd
<1>7. CASE EndOfFile BY <1>7 DEF EndOfFile
<1>8. CASE Clear BY <1>8 DEF Clear, ZeroChunk, InSegment
<1>9. CASE Start BY <1>9 DEF Start, Jump, bootVars, drvVars
<1> QED
  BY <1>2, <1>3, <1>4, <1>5, <1>6, <1>7, <1>8, <1>9 DEF FileStep

LEMMA FileSafe ==
  ASSUME IInv, LInv, FileStep, UNCHANGED ubVars
  PROVE  IInv'
<1>1. /\ UNCHANGED <<kind, layout, card, next, multi, eng, dat_int_status,
                     cmd_no, card_type, drv_status, part, faults, up, req,
                     result, clean>>
      /\ pc \in {"done", "idle"} /\ at # "jump" /\ up = "off"
      /\ other' = other
      /\ ~eng.on /\ dat_int_status = {} /\ card = "tran" /\ Addressing
  BY FileFacts
<1>2. Asked BY FileAsks
<1>3. BootType'
  <2>1. CardType' /\ EngType' /\ UbType' /\ VolType'
    BY <1>1 DEF IInv, BootType, CardType, EngType, UbType, VolType, Other,
                Statuses
  <2>2. rd' \in Records /\ done' \in Nat
    BY <1>2, NoReadRecord DEF IInv, BootType, DrvType, Asked
  <2>3. pc' \in {"cmd", "idle", "sleep"} /\ cmd_no' = cmd_no
    BY <1>1, <1>2 DEF Asked
  <2>4. DrvType' BY <2>2, <2>3 DEF IInv, BootType, DrvType, Reads
  <2> QED BY <2>1, <2>4 DEF BootType
<1>4. EngInv' BY <1>1 DEF EngInv
<1>5. PcInv' BY FilePc
<1>6. ReadInv' /\ SearchInv' /\ SkipInv'
  <2>1. pc' \notin {"answer", "data", "stop", "done", "skip"} BY <1>2 DEF Asked
  <2>2. pc' \in Reads => /\ done' = 0 /\ rd'.count > 0 /\ rd'.count \in Nat
                         /\ ~rd'.late /\ ~Searching'
    BY <1>2, <2>1, <1>3, ReadFields
    DEF Asked, Reads, Searching, Win, BootType, DrvType, Records
  <2>3. pc' \in Reads => Moved(rd.buf, rd.sector, done)'
    BY <2>2 DEF Moved
  <2>4. ~Sending' BY <1>1 DEF Sending
  <2> QED BY <2>1, <2>2, <2>3, <2>4
          DEF ReadInv, SearchInv, SkipInv, Filing, Searching
<1>7. QuietInv' BY <1>1 DEF QuietInv
<1>8. AddrInv' BY <1>1, <1>2 DEF AddrInv, Asked, Addressing
<1>9. UbInv' BY <1>1 DEF IInv, UbInv
<1> QED BY <1>3, <1>4, <1>5, <1>6, <1>7, <1>8, <1>9 DEF IInv

-----------------------------------------------------------------------------
(* main and disk_initialize.                                               *)

StartStep == \/ Reset \/ StartupCmd \/ StartupOpCond \/ StartupDone \/ Mount
             \/ Again

\* What the answer to a command of ini_sd leads to.
LEMMA StartupFacts ==
  ASSUME IInv, StartupCmd \/ StartupOpCond
  PROVE  /\ CardType' /\ layout' = layout
         /\ cmd_no' \in 1 .. Len(Startup) + 1
         /\ pc' \in {"init", "mount"} /\ drv_status' = drv_status
         /\ pc' = "init" /\ cmd_no' > Len(Startup) => card' = "tran"
<1>0. /\ Startup = <<"CMD0", "CMD8", "CMD55", "ACMD41", "CMD2", "CMD3", "CMD7",
                     "CMD55_RCA", "ACMD6", "CMD16">>
      /\ Len(Startup) = 10
  BY DEF Startup
<1>1. pc = "init" /\ cmd_no \in 1 .. 10
  BY <1>0 DEF IInv, BootType, DrvType, StartupCmd, StartupOpCond
<1>2. ASSUME NEW cmd, cmd \notin {"CMD17", "CMD18"}, NEW ans,
             Exchange(cmd, 0, ans)
      PROVE  CardType' /\ layout' = layout
  <2>1. CASE UNCHANGED cardVars
    BY <1>2, <2>1 DEF Exchange, cardVars, IInv, BootType, CardType
  <2>2. CASE Hear(cmd, 0)
    <3>1. next' = next /\ multi' = multi /\ kind' = kind /\ layout' = layout
      BY <1>2, <2>2 DEF Hear
    <3>2. faults' \in Nat BY <1>2 DEF Exchange, IInv, BootType, CardType
    <3> QED BY <3>1, <3>2 DEF IInv, BootType, CardType
  <2> QED BY <1>2, <2>1, <2>2 DEF Exchange
<1>3. CASE StartupCmd
  <2> DEFINE cmd == Startup[cmd_no]
  <2>1. PICK ans \in {"ok", "timeout", "crc", "bad"} :
          /\ Exchange(cmd, 0, ans)
          /\ IF ans = "bad" \/ (ans # "ok" /\ cmd \notin Tolerated)
             THEN pc' = "mount" /\ UNCHANGED <<cmd_no, card_type>>
             ELSE /\ cmd_no' = cmd_no + 1
                  /\ card_type' = Learnt(cmd, ans)
                  /\ UNCHANGED pc
    BY <1>3 DEF StartupCmd
  <2>2. cmd \notin {"CMD17", "CMD18"} BY <1>0, <1>1
  <2>3. CardType' /\ layout' = layout BY <1>2, <2>1, <2>2
  <2>4. drv_status' = drv_status BY <1>3 DEF StartupCmd
  <2>5. CASE pc' = "mount" /\ cmd_no' = cmd_no
    BY <1>0, <1>1, <2>3, <2>4, <2>5
  <2>6. CASE /\ cmd_no' = cmd_no + 1 /\ pc' = pc
             /\ ~(ans = "bad" \/ (ans # "ok" /\ cmd \notin Tolerated))
    <3>1. cmd_no' = 11 => card' = "tran"
      <4> SUFFICES ASSUME cmd_no = 10 PROVE card' = "tran" BY <1>1, <2>6
      <4>1. cmd = "CMD16" BY <1>0
      <4>2. ans = "ok" BY <2>6, <4>1 DEF Tolerated
      <4>3. Hear("CMD16", 0) BY <2>1, <4>1, <4>2 DEF Exchange
      <4> QED BY <4>3 DEF Hear, Becomes
    <3> QED BY <1>0, <1>1, <2>3, <2>4, <2>6, <3>1
  <2> QED BY <2>1, <2>5, <2>6
<1>4. CASE StartupOpCond
  <2>1. PICK ans \in {"ok", "timeout", "bad"}, ready \in BOOLEAN,
             high \in BOOLEAN :
          /\ Exchange("ACMD41", 0, ans)
          /\ IF ans = "timeout"
             THEN pc' = "mount" /\ UNCHANGED <<cmd_no, card_type>>
             ELSE /\ cmd_no' = IF ready THEN cmd_no + 1 ELSE cmd_no - 1
                  /\ UNCHANGED pc
    BY <1>4 DEF StartupOpCond
  <2>2. cmd_no = 4 BY <1>0, <1>1, <1>4 DEF StartupOpCond
  <2>3. CardType' /\ layout' = layout BY <1>2, <2>1
  <2>4. drv_status' = drv_status BY <1>4 DEF StartupOpCond
  <2>5. cmd_no' \in {3, 4, 5} /\ pc' \in {"init", "mount"}
    BY <1>1, <2>1, <2>2
  <2> QED BY <1>0, <2>3, <2>4, <2>5
<1> QED BY <1>3, <1>4

\* None of these moves data, and the controller is at rest from the reset on.
LEMMA StartSafe ==
  ASSUME IInv, LInv, StartStep, UNCHANGED ubVars
  PROVE  IInv'
<1> USE DEF ubVars, loadVars, cardVars
<1>0. /\ Top \in Nat /\ FileSector \in Nat /\ FileSector > 3
      /\ 0 \in 0 .. layout.parts
  BY LoadAssumption, Volume DEF IInv, BootType
<1>1. /\ UNCHANGED <<loadVars, other, ubVars>> /\ up = "off"
      /\ pc \in {"main", "init", "mount", "sleep"} /\ at \in {"off", "failed"}
  BY DEF IInv, PcInv, StartStep, Reset, StartupCmd, StartupOpCond, StartupDone,
         Mount, Again
<1>2. \/ eng' = eng /\ dat_int_status' = dat_int_status /\ pc # "main"
      \/ eng' = NoTransfer /\ dat_int_status' = {} /\ pc' = "init"
  BY DEF StartStep, Reset, StartupCmd, StartupOpCond, StartupDone, Mount, Again
<1>3. \/ /\ pc' \in {"main", "init", "mount", "sleep"}
         /\ rd' \in {rd, NoRead} /\ done' \in {0, done}
      \/ /\ pc = "mount" /\ drv_status = "OK" /\ DiskRead(Win, 0, 1, 0)
         /\ UNCHANGED <<card, card_type, drv_status, kind>>
  <2>1. CASE StartupCmd \/ StartupOpCond
    BY <2>1, StartupFacts DEF StartupCmd, StartupOpCond
  <2>2. CASE Reset \/ StartupDone \/ Again
    BY <2>2 DEF Reset, StartupDone, Again
  <2>3. CASE Mount BY <2>3 DEF Mount
  <2> QED BY <2>1, <2>2, <2>3 DEF StartStep
<1>4. /\ rd' \in Records /\ done' \in Nat
      /\ pc' \in {"main", "init", "mount", "sleep", "cmd"}
      /\ pc' = "cmd" =>
           /\ pc = "mount" /\ drv_status = "OK" /\ card' = card /\ done' = 0
           /\ rd'.buf = Win /\ rd'.sector = 0 /\ rd'.count = 1 /\ rd'.rest = 0
  <2>1. CASE DiskRead(Win, 0, 1, 0)
    <3>1. /\ rd' \in Records /\ done' = 0 /\ pc' = "cmd"
          /\ rd'.buf = Win /\ rd'.sector = 0 /\ rd'.count = 1 /\ rd'.rest = 0
      BY <1>0, <2>1, ReadRecord DEF Win
    <3> QED BY <1>3, <3>1
  <2>2. CASE ~DiskRead(Win, 0, 1, 0)
    <3>1. rd \in Records /\ done \in Nat BY DEF IInv, BootType, DrvType
    <3> QED BY <1>3, <2>2, <3>1, NoReadRecord
  <2> QED BY <2>1, <2>2
<1>5. BootType'
  <2>1. UbType' BY <1>1 DEF IInv, BootType, UbType
  <2>2. EngType'
    <3>1. NoTransfer \in [on : BOOLEAN, buf : Nat, left : Nat, watch : BOOLEAN]
      BY LoadAssumption DEF NoTransfer, Win
    <3> QED BY <1>1, <1>2, <3>1 DEF IInv, BootType, EngType, Statuses, Other
  <2>3. CardType' /\ layout' = layout
    <3>1. CASE StartupCmd \/ StartupOpCond BY <3>1, StartupFacts
    <3>2. CASE Reset \/ StartupDone \/ Mount \/ Again
      BY <3>2
      DEF Reset, StartupDone, Mount, Again, IInv, BootType, CardType
    <3> QED BY <3>1, <3>2 DEF StartStep
  <2>4. cmd_no' \in 1 .. Len(Startup) + 1
    <3>1. CASE StartupCmd \/ StartupOpCond BY <3>1, StartupFacts
    <3>2. CASE Reset \/ StartupDone \/ Mount \/ Again
      BY <3>2
      DEF Reset, StartupDone, Mount, Again, IInv, BootType, DrvType, Startup
    <3> QED BY <3>1, <3>2 DEF StartStep
  <2>5. DrvType' BY <1>4, <2>4 DEF DrvType, Reads
  <2>6. VolType'
    <3>1. part' \in {0, part}
      BY DEF StartStep, Reset, StartupCmd, StartupOpCond, StartupDone, Mount,
             Again
    <3> QED BY <1>0, <2>3, <3>1 DEF IInv, BootType, VolType
  <2> QED BY <2>1, <2>2, <2>3, <2>5, <2>6 DEF BootType
<1>6. EngInv'
  BY <1>1, <1>2, Pos DEF IInv, EngInv, InChunk, NoTransfer
<1>7. PcInv'
  BY <1>1, <1>4 DEF IInv, PcInv, SearchRead, Reads
<1>8. ~Filing'
  BY <1>0, <1>4 DEF Filing, Searching, Reads
<1>9. pc \in {"init", "mount"} => ~eng.on /\ dat_int_status = {}
  BY DEF IInv, QuietInv, AtRest
<1>10. pc' = "cmd" => ~eng'.on /\ ~Sending'
  BY <1>2, <1>4, <1>9 DEF IInv, QuietInv, Ready, Sending
<1>11. ReadInv' /\ SearchInv' /\ SkipInv'
  BY <1>4, <1>8, <1>10 DEF ReadInv, SearchInv, SkipInv, Searching, Reads
<1>12. QuietInv'
  <2>1. AtRest' => ~eng'.on /\ dat_int_status' = {}
    <3>1. AtRest' => pc' \in {"init", "mount"}
      BY <1>1, <1>4, <1>8 DEF AtRest, Handed
    <3>2. CASE pc = "sleep"
      BY <3>1, <3>2
      DEF StartStep, Reset, StartupCmd, StartupOpCond, StartupDone, Mount, Again
    <3>3. CASE pc # "sleep" BY <1>1, <1>2, <1>9, <3>3 DEF NoTransfer
    <3> QED BY <3>2, <3>3
  <2>2. Ready' => card' = "tran"
    <3>1. CASE StartupCmd \/ StartupOpCond
      BY <1>1, <1>8, <3>1, StartupFacts
      DEF IInv, AddrInv, Ready, Handed, StartupCmd, StartupOpCond
    <3>2. CASE Reset
      BY <1>1, <1>8, <3>2 DEF Reset, Ready, Handed, Startup
    <3>3. CASE StartupDone \/ Mount
      BY <1>1, <1>8, <3>3
      DEF IInv, QuietInv, AddrInv, Ready, Handed, StartupDone, Mount, DiskRead
    <3>4. CASE Again BY <1>1, <1>8, <3>4 DEF Again, Ready, Handed
    <3> QED BY <3>1, <3>2, <3>3, <3>4 DEF StartStep
  <2> QED BY <2>1, <2>2 DEF QuietInv
<1>13. AddrInv'
  <2>1. CASE StartupCmd \/ StartupOpCond
    BY <1>1, <1>4, <1>8, <2>1
    DEF IInv, AddrInv, StartupCmd, StartupOpCond
  <2>2. CASE Reset \/ StartupDone \/ Mount \/ Again
    BY <1>8, <2>2 DEF Reset, StartupDone, Mount, Again, AddrInv, DiskRead
  <2> QED BY <2>1, <2>2 DEF StartStep
<1>14. UbInv' BY <1>1 DEF UbInv
<1> QED BY <1>5, <1>6, <1>7, <1>11, <1>12, <1>13, <1>14 DEF IInv

-----------------------------------------------------------------------------
(* The search for the volume, where errors do not end a read.              *)

LookStep == Refuse \/ ReadTable \/ NextPartition \/ FileOpen

\* A read of the window that is not one of the file's.
LEMMA SearchFacts ==
  ASSUME IInv, LInv, pc \in Reads, rd.buf = Win, rd.sector # FileSector
  PROVE  /\ Searching /\ ~Filing /\ SearchRead
         /\ rd.sector # Directory => at \in {"off", "failed"}
<1>1. Searching /\ ~Filing BY DEF Searching, Filing
<1>2. SearchRead BY <1>1, FileReads DEF IInv, PcInv
<1> QED BY <1>1, <1>2 DEF SearchRead

LEMMA CheckingFacts ==
  ASSUME IInv, LInv, Checking
  PROVE  /\ rd.buf = Win /\ rd.sector # FileSector /\ rd.sector # Directory
         /\ rd.sector > 2
<1>1. /\ part \in Nat /\ FileSector \in Nat /\ part + 3 < FileSector
  BY Volume DEF IInv, BootType
<1> QED BY <1>1 DEF Checking, Vbr, Directory

\* A check that failed, or was made on what is no FAT volume.
LEMMA RefuseSafe ==
  ASSUME IInv, LInv, Refuse, UNCHANGED ubVars
  PROVE  IInv'
<1>1. /\ pc = "done" /\ rd.buf = Win
      /\ UNCHANGED <<image, mem, alt_mem, seg, pos, kind, layout, card, next,
                     multi, faults, eng, dat_int_status, cmd_no, card_type,
                     drv_status, rd, done, part, other, up, req, result, clean>>
  BY DEF Refuse, cardVars, ubVars
<1>2. ~eng.on /\ dat_int_status = {}
  <2>1. CASE Searching BY <1>1, <2>1 DEF IInv, SearchInv
  <2>2. CASE Filing BY <1>1, <2>2 DEF IInv, QuietInv, AtRest
  <2> QED BY <1>1, <2>1, <2>2 DEF Filing, Reads
<1>3. Checking => Searching /\ at \in {"off", "failed"}
  BY <1>1, CheckingFacts, SearchFacts DEF Reads
<1>4. /\ pc' \in {"sleep", "skip"} /\ (pc' = "skip" => Checking)
      /\ at' = at \/ (at \in {"load", "read"} /\ at' = "failed")
  BY DEF Refuse, DiskError
<1>5. at \in {"off", "failed", "load", "read"} /\ up = "off"
  BY <1>1 DEF IInv, PcInv, SearchRead, FirstRead, ChunkRead, Reads
<1>6. at' \in {"off", "failed"}
  BY <1>3, <1>5 DEF Refuse, DiskError
<1>7. BootType'
  BY <1>1, <1>4
  DEF IInv, BootType, CardType, EngType, DrvType, VolType, UbType, Other
<1>8. EngInv' BY <1>1, <1>2 DEF EngInv
<1>9. PcInv' /\ ReadInv' /\ SearchInv'
  BY <1>1, <1>4, <1>5, <1>6
  DEF PcInv, ReadInv, SearchInv, Filing, Searching, Reads
<1>10. SkipInv'
  <2>1. pc' = "skip" => (Sending => ~multi /\ Behind)
    BY <1>1, <1>3, <1>4 DEF IInv, SkipInv, SearchInv, Reads
  <2> QED BY <1>1, <1>2, <1>4, <2>1 DEF SkipInv, Sending, Behind, Vbr, Reads
<1>11. QuietInv' /\ AddrInv'
  BY <1>4, <1>6 DEF QuietInv, AddrInv, AtRest, Ready, Handed, Filing, Reads
<1>12. UbInv' BY <1>1, <1>5 DEF UbInv
<1> QED BY <1>7, <1>8, <1>9, <1>10, <1>11, <1>12 DEF IInv

\* No partition is left.
LEMMA NoPartitionSafe ==
  ASSUME IInv, LInv, NextPartition, part >= layout.parts, UNCHANGED ubVars
  PROVE  IInv'
<1>1. /\ pc' = "sleep"
      /\ UNCHANGED <<image, mem, alt_mem, at, seg, pos, kind, layout, card,
                     next, multi, faults, eng, dat_int_status, cmd_no,
                     card_type, drv_status, rd, done, part, other, up, req,
                     result, clean>>
  <2>1. ~(part < layout.parts) BY Volume DEF IInv, BootType
  <2> QED BY <2>1 DEF NextPartition, loadVars, cardVars, ubVars
<1>2. at \in {"off", "failed"} /\ up = "off"
  <2>1. CASE pc = "skip" BY <2>1 DEF IInv, PcInv
  <2>2. CASE Found /\ rd.sector \in {0, 2}
    <3>1. FileSector > 3 /\ rd.sector # FileSector /\ rd.sector # Directory
      BY <2>2, Volume DEF IInv, BootType, Directory
    <3>2. at \in {"off", "failed"}
      BY <2>2, <3>1, SearchFacts DEF Found, Reads
    <3> QED BY <3>2 DEF IInv, PcInv
  <2> QED BY <2>1, <2>2 DEF NextPartition
<1>3. BootType'
  BY <1>1
  DEF IInv, BootType, CardType, EngType, DrvType, VolType, UbType, Other
<1>4. EngInv' BY <1>1, Pos DEF IInv, EngInv, InChunk
<1>5. PcInv' /\ ReadInv' /\ SearchInv' /\ SkipInv'
  BY <1>1, <1>2
  DEF PcInv, ReadInv, SearchInv, SkipInv, Filing, Searching, Reads
<1>6. QuietInv' /\ AddrInv'
  BY <1>1, <1>2 DEF QuietInv, AddrInv, AtRest, Ready, Handed, Filing, Reads
<1>7. UbInv' BY <1>1, <1>2 DEF UbInv
<1> QED BY <1>3, <1>4, <1>5, <1>6, <1>7 DEF IInv

\* The next sector that is looked at, after one that was found or after an
\* error.
Looks(q) ==
  /\ DiskRead(Win, q, 1, 0)
  /\ \/ Found /\ q = 1 /\ part' = part
     \/ (Found \/ pc = "skip") /\ q = 2 /\ part' = part
     \/ /\ Found \/ pc = "skip"
        /\ part < layout.parts /\ part' = part + 1 /\ q = Vbr(part + 1)
     \/ Found /\ q = Directory /\ part' = part /\ at' = "load"

LEMMA LooksOn ==
  ASSUME IInv, LInv, UNCHANGED ubVars,
         ReadTable \/ FileOpen \/ (NextPartition /\ part < layout.parts)
  PROVE  /\ \E q \in Nat : Looks(q)
         /\ at \in {"off", "failed"}
         /\ FileOpen \/ UNCHANGED <<alt_mem, at, seg, pos>>
         /\ UNCHANGED <<image, mem, kind, layout, card, next, multi, faults,
                        eng, dat_int_status, cmd_no, card_type, drv_status,
                        other, up, req, result, clean>>
<1>0. /\ part \in Nat /\ Directory \in Nat /\ Directory > 2
      /\ FileSector \in Nat
  BY Volume DEF IInv, BootType, Directory
<1>1. CASE FileOpen
  <2>1. Looks(Directory) /\ at \in {"off", "failed"}
    BY <1>1 DEF FileOpen, Looks, Open
  <2> QED BY <1>0, <1>1, <2>1 DEF FileOpen, Open, cardVars, ubVars
<1>2. CASE ReadTable \/ (NextPartition /\ part < layout.parts)
  <2>1. UNCHANGED <<alt_mem, at, seg, pos, image, mem, kind, layout, card, next,
                    multi, faults, eng, dat_int_status, cmd_no, card_type,
                    drv_status, other, up, req, result, clean>>
    BY <1>2 DEF ReadTable, NextPartition, loadVars, cardVars, ubVars
  <2>2. pc = "skip" \/ (Found /\ rd.sector \in {0, 1, 2})
    BY <1>2 DEF ReadTable, NextPartition
  <2>3. at \in {"off", "failed"}
    <3>1. CASE pc = "skip" BY <3>1 DEF IInv, PcInv
    <3>2. CASE Found /\ rd.sector \in {0, 1, 2}
      <4>1. rd.sector # FileSector /\ rd.sector # Directory
        BY <1>0, <3>2, Volume DEF IInv, BootType, Directory
      <4> QED BY <3>2, <4>1, SearchFacts DEF Found, Reads
    <3> QED BY <2>2, <3>1, <3>2
  <2>4. \E q \in Nat : Looks(q)
    <3>1. CASE ReadTable /\ Found /\ DiskRead(Win, rd.sector + 1, 1, 0)
               /\ rd.sector \in {0, 1}
      <4>1. Looks(rd.sector + 1) /\ rd.sector + 1 \in Nat
        BY <3>1 DEF ReadTable, Looks
      <4> QED BY <4>1
    <3>2. CASE ReadTable /\ pc = "skip" /\ DiskRead(Win, 2, 1, 0)
      <4>1. Looks(2) BY <3>2 DEF ReadTable, Looks
      <4> QED BY <4>1
    <3>3. CASE NextPartition /\ part < layout.parts
      <4>1. Looks(Vbr(part + 1)) BY <2>2, <3>3 DEF NextPartition, Looks
      <4>2. Vbr(part + 1) \in Nat BY <1>0 DEF Vbr
      <4> QED BY <4>1, <4>2
    <3> QED BY <1>2, <3>1, <3>2, <3>3 DEF ReadTable
  <2> QED BY <2>1, <2>3, <2>4
<1> QED BY <1>1, <1>2

\* After an error the table, or the next partition, is looked at while the card
\* may still be sending what is behind it.
LEMMA LookSafe ==
  ASSUME IInv, LInv, LookStep, UNCHANGED ubVars
  PROVE  IInv'
<1>1. CASE Refuse BY <1>1, RefuseSafe
<1>2. CASE NextPartition /\ ~(part < layout.parts)
  <2>1. part >= layout.parts BY <1>2, Volume DEF IInv, BootType
  <2> QED BY <1>2, <2>1, NoPartitionSafe
<1>3. CASE ReadTable \/ FileOpen \/ (NextPartition /\ part < layout.parts)
  <2>1. /\ \E q \in Nat : Looks(q)
        /\ at \in {"off", "failed"}
        /\ FileOpen \/ UNCHANGED <<alt_mem, at, seg, pos>>
        /\ UNCHANGED <<image, mem, kind, layout, card, next, multi, faults,
                       eng, dat_int_status, cmd_no, card_type, drv_status,
                       other, up, req, result, clean>>
    BY <1>3, LooksOn
  <2>2. PICK q \in Nat : Looks(q) BY <2>1
  <2>3. /\ part \in Nat /\ layout.parts \in Nat /\ part <= layout.parts
        /\ FileSector \in Nat /\ layout.parts + 3 < FileSector
        /\ BlockSize \in Nat /\ layout.parts + 3 < BlockSize
        /\ Win \in Nat /\ up = "off"
    BY <2>1, Volume, LoadAssumption DEF IInv, BootType, PcInv, Win
  <2>4. /\ rd' \in Records /\ done' = 0 /\ pc' = "cmd"
        /\ rd'.buf = Win /\ rd'.sector = q /\ rd'.count = 1 /\ rd'.rest = 0
    BY <2>2, <2>3, ReadRecord DEF Looks
  <2>5. q # FileSector /\ part' \in 0 .. layout.parts
    BY <2>2, <2>3 DEF Looks, Vbr, Directory
  <2>6. Searching' /\ ~Filing' BY <2>4, <2>5 DEF Searching, Filing, Reads, Win
  <2>7. Found => ~eng.on /\ dat_int_status = {} /\ card = "tran"
    BY DirectoryFound
  <2>8. BootType'
    <3>1. CardType' /\ EngType' /\ UbType'
      BY <2>1 DEF IInv, BootType, CardType, EngType, UbType, Other
    <3>2. DrvType' BY <2>1, <2>4 DEF IInv, BootType, DrvType, Reads
    <3>3. VolType' BY <2>1, <2>5 DEF IInv, BootType, VolType
    <3> QED BY <3>1, <3>2, <3>3 DEF BootType
  <2>9. EngInv'
    <3>1. CASE FileOpen
      BY <2>1, <2>7, <3>1 DEF FileOpen, EngInv
    <3>2. CASE UNCHANGED <<alt_mem, at, seg, pos>>
      BY <2>1, <3>2, Pos DEF IInv, EngInv, InChunk
    <3> QED BY <2>1, <3>1, <3>2
  <2>10. PcInv'
    <3>1. SearchRead'
      <4>1. CASE q = Directory /\ at' = "load"
        BY <2>4, <4>1 DEF SearchRead, Win, Directory
      <4>2. CASE q \in {1, 2} /\ ~FileOpen
        BY <2>1, <2>4, <4>2 DEF SearchRead, Win
      <4>3. CASE q = Vbr(part + 1) /\ part' = part + 1 /\ ~FileOpen
        <5>1. Checking' BY <2>3, <2>4, <4>3 DEF Checking, Win, Vbr
        <5> QED BY <2>1, <2>4, <4>3, <5>1 DEF SearchRead, Win
      <4>4. FileOpen => at' = "load" /\ q = Directory
        <5>1. FileOpen => at' = "load" /\ rd'.sector = Directory
          <6>1. FileOpen => DiskRead(Win, Directory, 1, 0) /\ at' = "load"
            BY DEF FileOpen, Open
          <6>2. Directory \in Nat BY <2>3 DEF Directory
          <6> QED BY <2>3, <6>1, <6>2, ReadRecord
        <5> QED BY <2>4, <5>1
      <4> QED BY <2>2, <4>1, <4>2, <4>3, <4>4 DEF Looks
    <3> QED BY <2>1, <2>3, <2>4, <3>1 DEF PcInv, Reads
  <2>11. SearchInv' /\ SkipInv'
    <3>1. CASE Found
      BY <2>1, <2>4, <2>7, <3>1 DEF SearchInv, SkipInv, Sending
    <3>2. CASE pc = "skip"
      <4>1. /\ eng.on => eng.buf = Win /\ eng.left = 1
            /\ Sending => ~multi /\ next > 2
                          /\ (next <= Vbr(part) \/ next >= BlockSize)
        BY <3>2 DEF IInv, SkipInv, Behind
      <4>2. next \in Nat BY DEF IInv, BootType, CardType
      <4>3. CASE q = 2 /\ part' = part
        <5>1. ~Checking' BY <2>3, <2>4, <4>3 DEF Checking, Vbr
        <5>2. SkipInv' BY <2>4, <5>1 DEF SkipInv
        <5>3. SearchInv'
          BY <2>1, <2>4, <4>1, <4>2, <4>3 DEF SearchInv, Sending, Win
        <5> QED BY <5>2, <5>3
      <4>4. CASE part < layout.parts /\ part' = part + 1 /\ q = Vbr(part + 1)
        <5>1. Sending => next # q
          BY <2>3, <4>1, <4>2, <4>4 DEF Vbr
        <5>2. Sending => Behind'
          BY <2>1, <2>3, <4>1, <4>2, <4>4 DEF Vbr, Behind
        <5>3. SkipInv' BY <2>1, <2>4, <5>2 DEF SkipInv, Sending
        <5>4. SearchInv'
          BY <2>1, <2>4, <4>1, <4>2, <5>1 DEF SearchInv, Sending, Win
        <5> QED BY <5>3, <5>4
      <4> QED BY <2>2, <3>2, <4>3, <4>4 DEF Looks, Found
    <3> QED BY <2>2, <3>1, <3>2 DEF Looks
  <2>12. ReadInv' /\ QuietInv' /\ AddrInv'
    <3>1. ~AtRest' /\ ~Ready'
      <4>1. at' # "jump" BY <2>1 DEF FileOpen, Open
      <4> QED BY <2>4, <2>6, <4>1 DEF AtRest, Ready, Handed
    <3>2. ReadInv' BY <2>6 DEF ReadInv
    <3>3. AddrInv' BY <2>4, <2>6 DEF AddrInv
    <3> QED BY <3>1, <3>2, <3>3 DEF QuietInv
  <2>13. UbInv' BY <2>1, <2>3 DEF UbInv
  <2> QED BY <2>8, <2>9, <2>10, <2>11, <2>12, <2>13 DEF IInv
<1> QED BY <1>1, <1>2, <1>3 DEF LookStep

-----------------------------------------------------------------------------
(* disk_read.                                                              *)

LEMMA PartFacts ==
  ASSUME DrvType, done < rd.count
  PROVE  Part \in Nat \ {0} /\ Part <= rd.count - done
<1>1. rd.count - done \in Nat \ {0} BY ReadFields DEF DrvType
<1> QED BY <1>1, LeastFacts, BootAssumption DEF Part

\* Where a read is to, whichever it is.
LEMMA ReadPlace ==
  ASSUME IInv, LInv, pc \in Reads
  PROVE  /\ \/ rd.buf = Win /\ rd.count = 1
            \/ /\ at = "read" /\ InChunk /\ base <= rd.buf
               /\ rd.buf + rd.count <= base + size
         /\ up = "off" /\ at # "jump"
<1>1. CASE SearchRead \/ FirstRead
  BY <1>1 DEF SearchRead, FirstRead, IInv, PcInv
<1>2. CASE ChunkRead
  <2>1. base \in Nat /\ size \in Nat /\ Got \in Int /\ Got <= size
    BY <1>2, ChunkPlace DEF ChunkRead, InChunk
  <2>2. rd.buf \in Nat /\ rd.count \in Nat /\ rd.rest \in Nat
    BY ReadFields DEF IInv, BootType, DrvType
  <2> QED BY <1>2, <2>1, <2>2 DEF ChunkRead, IInv, PcInv
<1> QED BY <1>1, <1>2 DEF IInv, PcInv

\* What is being read does not change when no memory does.
SameRead ==
  /\ rd'.buf = rd.buf /\ rd'.sector = rd.sector /\ rd'.count = rd.count
  /\ rd'.rest = rd.rest

LEMMA StillReading ==
  ASSUME ChunkRead, UNCHANGED <<image, mem, at, seg, pos, other>>, SameRead
  PROVE  ChunkRead'
<1>1. s' = s /\ base' = base /\ Got' = Got /\ InFile' = InFile BY Pos
<1> QED BY <1>1 DEF ChunkRead, InChunk, ChunkStart, Moved, At, Data, SameRead

\* What there is to show of a step within a read on the way to the file.
LEMMA SearchStep ==
  ASSUME IInv, LInv, Searching, pc' \in Reads, SameRead, rd' \in Records,
         done' \in Nat, CardType', EngType',
         UNCHANGED <<at, layout, part, cmd_no, ubVars>>,
         eng'.on => eng'.buf = Win /\ eng'.left = 1, SearchInv', SkipInv'
  PROVE  IInv'
<1>1. /\ pc \in Reads /\ rd.buf = Win /\ rd.sector # FileSector
      /\ UNCHANGED <<up, req, result, clean>>
  BY DEF Searching, ubVars
<1>2. SearchRead /\ up = "off" /\ at # "jump" BY <1>1, SearchFacts, ReadPlace
<1>3. Searching' /\ ~Filing'
  BY <1>1 DEF Searching, Filing, SameRead, Win
<1>4. BootType'
  BY <1>1 DEF IInv, BootType, DrvType, VolType, UbType, Reads
<1>5. EngInv' BY LoadAssumption DEF EngInv, Win
<1>6. PcInv'
  <2>1. SearchRead'
    BY <1>2 DEF SearchRead, Checking, Vbr, SameRead, Win, Directory
  <2> QED BY <1>1, <1>2, <2>1 DEF PcInv, Reads
<1>7. ReadInv' BY <1>3 DEF ReadInv
<1>8. QuietInv'
  <2>1. ~AtRest' /\ ~Ready' BY <1>2, <1>3 DEF AtRest, Ready, Handed, Reads
  <2> QED BY <2>1 DEF QuietInv
<1>9. AddrInv' BY <1>3 DEF AddrInv, Reads
<1>10. UbInv' BY <1>1, <1>2 DEF UbInv
<1> QED BY <1>4, <1>5, <1>6, <1>7, <1>8, <1>9, <1>10 DEF IInv

\* And of one within a read of the file.
LEMMA FilingStep ==
  ASSUME IInv, LInv, Filing, pc' \in Reads, SameRead, rd' \in Records,
         done' \in Nat, CardType', EngType',
         UNCHANGED <<at, layout, part, kind, card_type, cmd_no, ubVars>>,
         EngInv', ReadInv', ChunkRead => ChunkRead',
         pc' \in {"cmd", "stop", "done"} => ~eng'.on /\ dat_int_status' = {},
         pc' \in {"cmd", "done"} => card' = "tran"
  PROVE  IInv'
<1>1. pc \in Reads /\ UNCHANGED <<up, req, result, clean>>
  BY DEF Filing, ubVars
<1>2. up = "off" /\ at # "jump" BY <1>1, ReadPlace
<1>3. FirstRead \/ ChunkRead BY <1>1, FileReads DEF IInv, PcInv, Filing
<1>4. Filing' /\ ~Searching'
  BY DEF Searching, Filing, SameRead, Win
<1>5. BootType'
  BY <1>1 DEF IInv, BootType, DrvType, VolType, UbType, Reads
<1>6. PcInv'
  <2>1. FirstRead => FirstRead' BY DEF FirstRead, SameRead, Win
  <2> QED BY <1>1, <1>2, <1>3, <2>1 DEF PcInv, Reads
<1>7. SearchInv' BY <1>4 DEF SearchInv
<1>8. SkipInv'
  <2>1. ~Checking BY CheckingFacts, <1>1 DEF Filing, Searching
  <2>2. ~Checking' BY <2>1 DEF Checking, Vbr, SameRead, Win
  <2> QED BY <2>2 DEF SkipInv, Reads
<1>9. QuietInv'
  <2>1. AtRest' => pc' \in {"cmd", "stop", "done"}
    BY <1>2 DEF AtRest, Handed, Reads
  <2>2. Ready' => pc' \in {"cmd", "done"}
    BY <1>2 DEF Ready, Handed, Reads
  <2> QED BY <2>1, <2>2 DEF QuietInv
<1>10. AddrInv' BY DEF IInv, AddrInv, Addressing, Reads
<1>11. UbInv' BY <1>1, <1>2 DEF UbInv
<1> QED BY <1>5, <1>6, <1>7, <1>8, <1>9, <1>10, <1>11 DEF IInv

\* An error puts an end to the read, and to download; while the volume is
\* looked for, what is left of the read goes on.
LEMMA ErrorSafe ==
  ASSUME IInv, LInv, pc \in Reads, DiskError,
         eng' = eng, dat_int_status' \in Statuses, CardType',
         UNCHANGED <<image, mem, alt_mem, seg, pos, kind, layout, cmd_no,
                     card_type, drv_status, rd, done, part, other, ubVars>>,
         Checking => /\ Sending' => ~multi' /\ Behind'
                     /\ eng.on => eng.buf = Win /\ eng.left = 1
  PROVE  IInv'
<1>1. UNCHANGED <<up, req, result, clean>> /\ up = "off" /\ at # "jump"
  BY ReadPlace DEF ubVars
<1>2. pc' \in {"sleep", "skip"} /\ (pc' = "skip" => Checking) BY DEF DiskError
<1>3. at' \in {"off", "failed"} /\ (at \in {"read", "failed"} => at' = "failed")
  <2>1. at \in {"off", "failed", "load", "read"}
    BY DEF IInv, PcInv, SearchRead, FirstRead, ChunkRead
  <2>2. Checking => at \in {"off", "failed"}
    BY CheckingFacts, SearchFacts
  <2> QED BY <2>1, <2>2 DEF DiskError
<1>4. BootType'
  BY <1>1, <1>2
  DEF IInv, BootType, EngType, DrvType, VolType, UbType, Other
<1>5. EngInv'
  <2>1. base' = base /\ size' = size /\ s' = s /\ InFile' = InFile BY Pos
  <2> QED BY <1>3, <2>1 DEF IInv, EngInv, InChunk
<1>6. PcInv' /\ ReadInv' /\ SearchInv'
  BY <1>1, <1>2, <1>3 DEF PcInv, ReadInv, SearchInv, Filing, Searching, Reads
<1>7. SkipInv' BY <1>2 DEF SkipInv, Reads
<1>8. QuietInv' /\ AddrInv'
  BY <1>2, <1>3 DEF QuietInv, AddrInv, AtRest, Ready, Handed, Filing, Reads
<1>9. UbInv' BY <1>1 DEF UbInv
<1> QED BY <1>4, <1>5, <1>6, <1>7, <1>8, <1>9 DEF IInv

\* A read on the way to the file is of one block.
LEMMA SearchPart ==
  ASSUME IInv, LInv, Searching, pc # "done"
  PROVE  Part = 1 /\ done = 0 /\ rd.count = 1
<1>1. rd.count = 1 BY SearchFacts DEF Searching, SearchRead
<1>2. done = 0 BY DEF IInv, SearchInv
<1>3. done < rd.count BY <1>1, <1>2
<1> QED BY <1>1, <1>2, <1>3, PartFacts DEF IInv, BootType

LEMMA ReadCmdSafe ==
  ASSUME IInv, LInv, ReadCmd, UNCHANGED ubVars
  PROVE  IInv'
<1>1. /\ pc = "cmd" /\ pc' = "answer" /\ pc \in Reads /\ pc' \in Reads
      /\ UNCHANGED <<image, mem, alt_mem, at, seg, pos, kind, layout, card, next,
                     multi, faults, dat_int_status, cmd_no, card_type,
                     drv_status, done, part, other>>
  BY DEF ReadCmd, loadVars, cardVars, Reads
<1>2. /\ rd' \in Records /\ SameRead
      /\ rd'.late <=> rd.late \/ eng.on \/ Sending
  <2>1. PICK b \in BOOLEAN : b <=> eng.on \/ Sending OBVIOUS
  <2>2. rd' = [rd EXCEPT !.late = @ \/ b]
    <3>1. rd' = [rd EXCEPT !.late = @ \/ eng.on \/ Sending] BY DEF ReadCmd
    <3> QED BY <2>1, <3>1, Zenon
  <2>3. rd \in Records BY DEF IInv, BootType, DrvType
  <2>4. rd' \in Records /\ SameRead /\ (rd'.late <=> rd.late \/ b)
    BY <2>2, <2>3 DEF Records, SameRead
  <2> QED BY <2>1, <2>4
<1>3. /\ rd.buf \in Nat /\ rd.sector \in Nat /\ rd.count \in Nat
      /\ done \in Nat /\ Top \in Nat
  BY ReadFields, LoadAssumption DEF IInv, BootType, DrvType
<1>4. eng' = IF eng.on THEN eng
             ELSE [on |-> TRUE, buf |-> rd.buf + done, left |-> Part,
                   watch |-> TRUE]
  BY DEF ReadCmd
<1>5. CardType' BY <1>1 DEF IInv, BootType, CardType
<1>6. CASE Searching
  <2>1. Part = 1 /\ done = 0 /\ rd.buf = Win
    BY <1>1, <1>6, SearchPart DEF Searching
  <2>2. eng'.on /\ eng'.buf = Win /\ eng'.left = 1
    <3>1. CASE eng.on BY <1>4, <1>6, <3>1 DEF IInv, SearchInv
    <3>2. CASE ~eng.on BY <1>3, <1>4, <2>1, <3>2 DEF Win
    <3> QED BY <3>1, <3>2
  <2>3. EngType'
    <3>1. eng' \in [on : BOOLEAN, buf : Nat, left : Nat, watch : BOOLEAN]
      BY <1>3, <1>4, <2>1 DEF IInv, BootType, EngType
    <3> QED BY <1>1, <3>1 DEF IInv, BootType, EngType, Other
  <2>4. SearchInv'
    BY <1>1, <1>2, <1>6, <2>1, <2>2
    DEF IInv, SearchInv, Sending, SameRead
  <2>5. SkipInv'
    BY <1>1, <1>2
    DEF IInv, SkipInv, Sending, SameRead, Checking, Vbr, Behind, Win
  <2> QED BY <1>1, <1>2, <1>3, <1>5, <1>6, <2>2, <2>3, <2>4, <2>5, SearchStep
<1>7. CASE Filing
  <2>1. /\ ~eng.on /\ dat_int_status = {} /\ card = "tran" /\ ~rd.late
        /\ done < rd.count /\ Moved(rd.buf, rd.sector, done)
    BY <1>1, <1>7 DEF IInv, QuietInv, AtRest, Ready, ReadInv
  <2>2. Part \in Nat \ {0} /\ Part <= rd.count - done
    BY <2>1, PartFacts DEF IInv, BootType
  <2>3. /\ eng'.on /\ eng'.buf = rd.buf + done /\ eng'.left = Part
        /\ eng' \in [on : BOOLEAN, buf : Nat, left : Nat, watch : BOOLEAN]
    BY <1>3, <1>4, <2>1, <2>2
  <2>4. EngType' BY <1>1, <2>3 DEF IInv, BootType, EngType, Other
  <2>5. EngInv'
    <3>1. CASE rd.buf = Win /\ rd.count = 1
      BY <1>3, <2>1, <2>2, <2>3, <3>1 DEF EngInv, Win
    <3>2. CASE /\ at = "read" /\ InChunk /\ base <= rd.buf
               /\ rd.buf + rd.count <= base + size
      <4>1. base' = base /\ size' = size /\ InChunk' /\ base \in Nat
            /\ size \in Nat
        BY <1>1, <3>2, Pos, ChunkPlace DEF InChunk
      <4> QED BY <1>1, <1>3, <2>1, <2>2, <2>3, <3>2, <4>1 DEF EngInv
    <3> QED BY <1>1, <3>1, <3>2, ReadPlace
  <2>6. ReadInv'
    <3>1. Moved(rd.buf, rd.sector, done)'
      BY <1>1, <1>2, <2>1 DEF Moved, At, Data, SameRead
    <3>2. Part' = Part BY <1>1, <1>2 DEF Part, SameRead
    <3>3. Begun(rd.buf + done, Part)'
      BY <1>1, <1>2, <2>1, <2>3, <3>2 DEF Begun, SameRead
    <3>4. ~rd'.late BY <1>2, <2>1 DEF Sending
    <3>5. done' < rd'.count /\ done' <= rd'.count
      BY <1>1, <1>2, <1>3, <2>1 DEF SameRead
    <3> QED BY <1>1, <3>1, <3>3, <3>4, <3>5 DEF ReadInv
  <2>7. ChunkRead => ChunkRead' BY <1>1, <1>2, StillReading
  <2> QED BY <1>1, <1>2, <1>3, <1>5, <1>7, <2>4, <2>5, <2>6, <2>7, FilingStep
<1> QED BY <1>1, <1>6, <1>7 DEF Filing

\* The answer to a read of the file: the card sends what was asked for.
LEMMA FileAnswerSafe ==
  ASSUME IInv, LInv, ReadAnswer, Filing, UNCHANGED ubVars
  PROVE  IInv'
<1>1. /\ pc = "answer" /\ pc \in Reads
      /\ UNCHANGED <<image, mem, alt_mem, seg, pos, eng, dat_int_status,
                     cmd_no, card_type, drv_status, rd, done, part, other>>
  BY DEF ReadAnswer, Reads
<1>2. /\ ~rd.late /\ done < rd.count /\ done <= rd.count
      /\ Moved(rd.buf, rd.sector, done) /\ Begun(rd.buf + done, Part)
      /\ Addressing
  BY <1>1 DEF IInv, ReadInv, AddrInv
<1>3. /\ Part \in Nat \ {0} /\ Arg \in Nat
      /\ SectorOf(Arg) = rd.sector + done
      /\ rd.buf \in Nat /\ rd.sector \in Nat /\ rd \in Records /\ done \in Nat
  BY <1>2, PartFacts, ArgFacts, ReadFields DEF IInv, BootType, DrvType
<1> DEFINE cmd == IF Part = 1 THEN "CMD17" ELSE "CMD18"
<1>4. PICK ans \in {"ok", "timeout", "crc"} :
        /\ Exchange(cmd, Arg, ans)
        /\ IF ans = "ok" THEN pc' = "data" /\ UNCHANGED at ELSE DiskError
  BY DEF ReadAnswer
<1>5. cmd \in {"CMD17", "CMD18"} /\ (cmd = "CMD18" <=> Part # 1) OBVIOUS
<1> HIDE DEF cmd
<1>6. /\ CardType' /\ kind' = kind /\ layout' = layout
      /\ ans = "ok" => /\ next' = rd.sector + done /\ (multi' <=> Part # 1)
                       /\ card' \in {"data", "tran"}
  BY <1>3, <1>4, <1>5, ReadExchange DEF IInv, BootType, CardType
<1>7. CASE ans # "ok"
  <2>1. DiskError BY <1>4, <1>7
  <2>2. ~Checking BY <1>1, CheckingFacts DEF Filing, Searching
  <2>3. dat_int_status' \in Statuses BY <1>1 DEF IInv, BootType, EngType
  <2> QED BY <1>1, <1>6, <2>1, <2>2, <2>3, ErrorSafe
<1>8. CASE ans = "ok"
  <2>1. pc' = "data" /\ at' = at /\ pc' \in Reads BY <1>4, <1>8 DEF Reads
  <2>2. SameRead BY <1>1 DEF SameRead
  <2>3. EngType' BY <1>1 DEF IInv, BootType, EngType, Other
  <2>4. EngInv' BY <1>1, <2>1, Pos DEF IInv, EngInv, InChunk
  <2>5. ReadInv'
    <3>1. Moved(rd.buf, rd.sector, done)' BY <1>1, <1>2 DEF Moved, At, Data
    <3>2. Part' = Part BY <1>1 DEF Part
    <3>3. Moved(rd.buf + done, rd.sector + done, 0)' BY DEF Moved
    <3>4. Progress(rd.buf + done, rd.sector + done, Part)'
      BY <1>1, <1>2, <1>3, <1>6, <1>8, <3>2, <3>3 DEF Progress, Begun
    <3> QED BY <1>1, <1>2, <2>1, <3>1, <3>4 DEF ReadInv
  <2>6. ChunkRead => ChunkRead' BY <1>1, <2>1, <2>2, StillReading
  <2>7. rd' \in Records /\ done' \in Nat BY <1>1, <1>3
  <2> QED BY <1>1, <1>6, <2>1, <2>2, <2>3, <2>4, <2>5, <2>6, <2>7, FilingStep
<1> QED BY <1>7, <1>8

\* The answer to a read on the way to the file: the card sends what the address
\* is for, and the engine may have taken for it what came before.
LEMMA SearchAnswerSafe ==
  ASSUME IInv, LInv, ReadAnswer, Searching, UNCHANGED ubVars
  PROVE  IInv'
<1>1. /\ pc = "answer" /\ pc \in Reads
      /\ UNCHANGED <<image, mem, alt_mem, seg, pos, eng, dat_int_status,
                     cmd_no, card_type, drv_status, rd, done, part, other>>
  BY DEF ReadAnswer, Reads
<1>2. /\ Part = 1 /\ done = 0 /\ rd.buf = Win /\ rd \in Records
      /\ CardType /\ DrvType /\ VolType
  BY <1>1, SearchPart DEF Searching, IInv, BootType, DrvType
<1>3. /\ eng.on => eng.buf = Win /\ eng.left = 1
      /\ Sending => ~multi
      /\ rd.late \/ eng.on
      /\ ~eng.on /\ dat_int_status = {"TRS"} => ~Sound
  BY <1>1 DEF IInv, SearchInv
<1>4. PICK ans \in {"ok", "timeout", "crc"} :
        /\ Exchange("CMD17", Arg, ans)
        /\ IF ans = "ok" THEN pc' = "data" /\ UNCHANGED at ELSE DiskError
  BY <1>2 DEF ReadAnswer
<1>5. /\ CardType' /\ kind' = kind /\ layout' = layout
      /\ \/ UNCHANGED <<card, next, multi>> /\ ans # "ok"
         \/ /\ next' = Aim /\ ~multi'
            /\ card' = IF OnCard(Arg) THEN "data" ELSE "tran"
  BY <1>2, <1>4, ArgFacts, ReadExchange DEF Aim, CardType
<1>6. Sending' => ~multi'
  BY <1>3, <1>5 DEF Sending
<1>7. Checking => (Sending' => Behind')
  <2> SUFFICES ASSUME Checking, Sending' PROVE Behind' OBVIOUS
  <2>1. CASE UNCHANGED <<card, next, multi>>
    BY <1>1, <2>1 DEF IInv, SkipInv, Sending, Behind, Vbr
  <2>2. CASE next' = Aim /\ card' = IF OnCard(Arg) THEN "data" ELSE "tran"
    <3>1. Aim > 2 /\ (Aim <= Vbr(part) \/ Aim >= BlockSize)
      BY <1>2, <2>2, AimFacts DEF Sending
    <3> QED BY <1>1, <2>2, <3>1 DEF Behind, Vbr
  <2> QED BY <1>5, <2>1, <2>2
<1>8. CASE ans # "ok"
  <2>1. DiskError BY <1>4, <1>8
  <2>2. dat_int_status' \in Statuses BY <1>1 DEF IInv, BootType, EngType
  <2> QED BY <1>1, <1>3, <1>5, <1>6, <1>7, <2>1, <2>2, ErrorSafe
<1>9. CASE ans = "ok"
  <2>1. pc' = "data" /\ at' = at /\ pc' \in Reads BY <1>4, <1>9 DEF Reads
  <2>2. SameRead BY <1>1 DEF SameRead
  <2>3. EngType' BY <1>1 DEF IInv, BootType, EngType, Other
  <2>4. SearchInv'
    <3>1. Aim' = Aim BY <1>1, <1>5 DEF Aim, Arg, SectorOf
    <3>2. Sound' <=> Sound BY <1>1 DEF Sound, At, Data, Win
    <3> QED BY <1>1, <1>2, <1>3, <1>5, <1>6, <1>9, <2>1, <3>1, <3>2
            DEF SearchInv
  <2>5. SkipInv'
    <3>1. Checking' <=> Checking BY <1>1 DEF Checking, Vbr, Win
    <3> QED BY <1>7, <2>1, <3>1 DEF SkipInv
  <2>6. rd' \in Records /\ done' \in Nat /\ (eng'.on => eng'.buf = Win /\ eng'.left = 1)
    BY <1>1, <1>2, <1>3
  <2> QED BY <1>1, <1>5, <2>1, <2>2, <2>3, <2>4, <2>5, <2>6, SearchStep
<1> QED BY <1>8, <1>9

\* A part that has come in is one with those before it.
LEMMA Joins ==
  ASSUME NEW b \in Nat, NEW q \in Nat, NEW m \in Nat, NEW n \in Nat,
         Moved(b, q, m), Moved(b + m, q + m, n)
  PROVE  Moved(b, q, m + n)
<1> SUFFICES ASSUME NEW k \in 0 .. m + n - 1
             PROVE  At(b + k) = Data(q + k)
  BY DEF Moved
<1>1. CASE k < m BY <1>1 DEF Moved
<1>2. CASE k >= m
  <2>1. k - m \in 0 .. n - 1 BY <1>2
  <2>2. At(b + m + (k - m)) = Data(q + m + (k - m)) BY <2>1 DEF Moved
  <2>3. b + m + (k - m) = b + k /\ q + m + (k - m) = q + k OBVIOUS
  <2> QED BY <2>2, <2>3
<1> QED BY <1>1, <1>2

\* The part of the file that was read is accounted for.
LEMMA PartDoneSafe ==
  ASSUME IInv, LInv, pc \in {"data", "stop"}, Filing,
         Moved(rd.buf + done, rd.sector + done, Part), PartDone(Part),
         card' = "tran", eng' = eng, ~eng.on, dat_int_status' = {},
         UNCHANGED <<loadVars, kind, layout, next, multi, cmd_no, card_type,
                     drv_status, rd, part, other, ubVars>>, faults' \in Nat
  PROVE  IInv'
<1>1. /\ done < rd.count /\ done \in Nat /\ rd \in Records
      /\ rd.buf \in Nat /\ rd.sector \in Nat /\ rd.count \in Nat
      /\ Moved(rd.buf, rd.sector, done) /\ ~rd.late
  BY ReadFields DEF IInv, BootType, DrvType, ReadInv
<1>2. Part \in Nat \ {0} /\ Part <= rd.count - done
  BY <1>1, PartFacts DEF IInv, BootType
<1>3. /\ done' = done + Part /\ pc' \in {"cmd", "done"} /\ pc' \in Reads
      /\ pc' = "cmd" <=> done' < rd.count
  BY DEF PartDone, Reads
<1>4. UNCHANGED <<image, mem, alt_mem, at, seg, pos>> BY DEF loadVars
<1>5. CardType' /\ EngType'
  BY DEF IInv, BootType, CardType, EngType, Other, Statuses
<1>6. EngInv' BY DEF EngInv
<1>7. ReadInv'
  <2>1. Moved(rd.buf, rd.sector, done + Part) BY <1>1, <1>2, Joins
  <2>2. Moved(rd.buf, rd.sector, done)'
    BY <1>3, <1>4, <2>1 DEF Moved, At, Data
  <2> QED BY <1>1, <1>2, <1>3, <2>2 DEF ReadInv
<1>8. SameRead BY DEF SameRead
<1>9. ChunkRead => ChunkRead' BY <1>4, <1>8, StillReading
<1>10. done' \in Nat /\ rd' \in Records BY <1>1, <1>2, <1>3
<1> QED BY <1>3, <1>4, <1>5, <1>6, <1>7, <1>8, <1>9, <1>10, FilingStep

\* The end of a transfer of the file.
LEMMA FileDataSafe ==
  ASSUME IInv, LInv, ReadData, Filing, UNCHANGED ubVars
  PROVE  IInv'
<1>1. /\ pc = "data" /\ pc \in Reads /\ Status # {} /\ dat_int_status' = {}
      /\ UNCHANGED <<image, mem, alt_mem, seg, pos, kind, layout, card, next,
                     multi, faults, eng, cmd_no, card_type, drv_status, rd,
                     part, other>>
  BY DEF ReadData, cardVars, Reads
<1>2. Progress(rd.buf + done, rd.sector + done, Part)
  BY <1>1 DEF IInv, ReadInv
<1>3. ~eng.on /\ Status = dat_int_status BY <1>1, <1>2 DEF Progress, Status
<1>4. /\ done \in Nat /\ done < rd.count /\ rd \in Records
      /\ CardType' /\ EngType' /\ faults \in Nat
  BY <1>1
  DEF IInv, BootType, CardType, EngType, DrvType, ReadInv, Statuses, Other
<1>5. CASE dat_int_status # {"TRS"}
  <2>1. DiskError /\ done' = done BY <1>3, <1>5 DEF ReadData
  <2>2. ~Checking BY <1>1, CheckingFacts DEF Filing, Searching
  <2>3. dat_int_status' \in Statuses BY <1>1 DEF Statuses
  <2> QED BY <1>1, <1>4, <2>1, <2>2, <2>3, ErrorSafe
<1>6. CASE dat_int_status = {"TRS"} /\ Part = 1
  <2>1. PartDone(Part) /\ at' = at BY <1>3, <1>6 DEF ReadData
  <2>2. Moved(rd.buf + done, rd.sector + done, Part) /\ card = "tran"
    BY <1>2, <1>6 DEF Progress
  <2> QED BY <1>1, <1>3, <1>4, <2>1, <2>2, PartDoneSafe DEF loadVars
<1>7. CASE dat_int_status = {"TRS"} /\ Part # 1
  <2>1. pc' = "stop" /\ done' = done /\ at' = at /\ pc' \in Reads
    BY <1>3, <1>7 DEF ReadData, Reads
  <2>2. Moved(rd.buf + done, rd.sector + done, Part)
    BY <1>2, <1>7 DEF Progress
  <2>3. EngInv' BY <1>1, <1>3 DEF EngInv
  <2>4. ReadInv'
    <3>1. Moved(rd.buf, rd.sector, done) /\ ~rd.late
      BY DEF IInv, ReadInv
    <3>2. Moved(rd.buf, rd.sector, done)'
      BY <1>1, <2>1, <3>1 DEF Moved, At, Data
    <3>3. Part' = Part BY <1>1, <2>1 DEF Part
    <3>4. Moved(rd.buf + done, rd.sector + done, Part)'
      BY <1>1, <2>1, <2>2, <3>3 DEF Moved, At, Data
    <3>5. done' < rd'.count /\ done' <= rd'.count
      BY <1>1, <1>4, <2>1, ReadFields
    <3> QED BY <1>1, <2>1, <3>1, <3>2, <3>4, <3>5 DEF ReadInv
  <2>5. SameRead BY <1>1 DEF SameRead
  <2>6. ChunkRead => ChunkRead' BY <1>1, <2>1, <2>5, StillReading
  <2>7. done' \in Nat /\ rd' \in Records BY <1>1, <1>4, <2>1
  <2> QED BY <1>1, <1>3, <1>4, <2>1, <2>3, <2>4, <2>5, <2>6, <2>7, FilingStep
<1> QED BY <1>5, <1>6, <1>7

\* The end of a transfer on the way to the file: when the window holds the
\* sector that was asked for, it came for this read.
LEMMA SearchDataSafe ==
  ASSUME IInv, LInv, ReadData, Searching, UNCHANGED ubVars
  PROVE  IInv'
<1>1. /\ pc = "data" /\ pc \in Reads /\ Status # {} /\ dat_int_status' = {}
      /\ UNCHANGED <<image, mem, alt_mem, seg, pos, kind, layout, card, next,
                     multi, faults, eng, cmd_no, card_type, drv_status, rd,
                     part, other>>
  BY DEF ReadData, cardVars, Reads
<1>2. /\ Part = 1 /\ done = 0 /\ rd.count = 1 /\ rd.buf = Win
      /\ rd \in Records /\ CardType /\ DrvType /\ VolType
  BY <1>1, SearchPart DEF Searching, IInv, BootType, DrvType
<1>3. /\ eng.on => eng.buf = Win /\ eng.left = 1
      /\ Sending => ~multi
      /\ ~eng.on /\ dat_int_status = {"TRS"} =>
           (At(Win) = Data(Aim) /\ card = "tran") \/ (rd.late /\ ~Sound)
  BY <1>1 DEF IInv, SearchInv
<1>4. Checking => (Sending => Behind) BY <1>1 DEF IInv, SkipInv
<1>5. CardType' /\ EngType' /\ rd.sector \in Nat
  BY <1>1, <1>2, ReadFields
  DEF IInv, BootType, CardType, EngType, Statuses, Other
<1>6. CASE Status # {"TRS"}
  <2>1. DiskError /\ done' = done BY <1>6 DEF ReadData
  <2>2. dat_int_status' \in Statuses BY <1>1 DEF Statuses
  <2>3. Sending' => ~multi' BY <1>1, <1>3 DEF Sending
  <2>4. Checking => (Sending' => Behind')
    BY <1>1, <1>4 DEF Sending, Behind, Vbr
  <2> QED BY <1>1, <1>3, <1>5, <2>1, <2>2, <2>3, <2>4, ErrorSafe
<1>7. CASE Status = {"TRS"}
  <2>1. ~eng.on /\ dat_int_status = {"TRS"} BY <1>7 DEF Status
  <2>2. pc' = "done" /\ pc' \in Reads /\ done' = 1 /\ at' = at
    BY <1>2, <1>7 DEF ReadData, PartDone, Reads
  <2>3. Sound => card = "tran" /\ (Addressing \/ rd.sector = 0)
    <3> SUFFICES ASSUME Sound PROVE card = "tran" /\ Aim = rd.sector
      BY <1>2, AimFacts
    <3>1. At(Win) = Data(Aim) /\ card = "tran" BY <1>3, <2>1
    <3>2. Aim \in Nat /\ FileSector \in Nat
      BY <1>2, AimFacts, BootAssumption
    <3> QED BY <1>5, <3>1, <3>2 DEF Sound, Data
  <2>4. ~rd.late /\ Addressing => Sound
    <3> SUFFICES ASSUME ~rd.late, Addressing PROVE Sound OBVIOUS
    <3>1. At(Win) = Data(Aim) BY <1>3, <2>1
    <3>2. Aim = rd.sector BY <1>2, AimFacts
    <3> QED BY <3>1, <3>2 DEF Sound
  <2>5. SearchInv'
    <3>1. (Sound' <=> Sound) /\ (Addressing' <=> Addressing)
      BY <1>1, <2>2 DEF Sound, At, Data, Win, Addressing
    <3> QED BY <1>1, <1>3, <2>1, <2>2, <2>3, <2>4, <3>1 DEF SearchInv, Sending
  <2>6. SkipInv'
    BY <1>1, <1>4, <2>2 DEF SkipInv, Checking, Sending, Behind, Vbr, Win
  <2>7. SameRead /\ done' \in Nat /\ rd' \in Records
    BY <1>1, <1>2, <2>2 DEF SameRead
  <2> QED BY <1>1, <1>5, <2>1, <2>2, <2>5, <2>6, <2>7, SearchStep
<1> QED BY <1>6, <1>7

LEMMA ReadStopSafe ==
  ASSUME IInv, LInv, ReadStop, UNCHANGED ubVars
  PROVE  IInv'
<1>1. /\ pc = "stop" /\ pc \in Reads
      /\ UNCHANGED <<image, mem, alt_mem, seg, pos, eng, dat_int_status,
                     cmd_no, card_type, drv_status, rd, part, other>>
  BY DEF ReadStop, Reads
<1>2. Filing BY <1>1 DEF IInv, SearchInv, Filing
<1>3. PICK ans \in {"ok", "timeout", "crc"} :
        /\ Exchange("CMD12", 0, ans)
        /\ IF ans = "ok" THEN PartDone(Part) /\ UNCHANGED at
                         ELSE DiskError /\ UNCHANGED done
  BY DEF ReadStop
<1>4. /\ next' = next /\ multi' = multi /\ kind' = kind /\ layout' = layout
      /\ faults' \in Nat /\ (ans = "ok" => card' = "tran")
  BY <1>3, StopExchange DEF IInv, BootType
<1>5. ~eng.on /\ dat_int_status = {}
  BY <1>1, <1>2 DEF IInv, QuietInv, AtRest
<1>6. CardType' /\ dat_int_status' \in Statuses
  BY <1>1, <1>4, <1>5 DEF IInv, BootType, CardType, Statuses
<1>7. Moved(rd.buf + done, rd.sector + done, Part)
  BY <1>1, <1>2 DEF IInv, ReadInv
<1>8. CASE ans = "ok"
  BY <1>1, <1>2, <1>3, <1>4, <1>5, <1>7, <1>8, PartDoneSafe DEF loadVars
<1>9. CASE ans # "ok"
  <2>1. ~Checking BY <1>2, CheckingFacts DEF Filing, Searching
  <2> QED BY <1>1, <1>3, <1>4, <1>6, <1>9, <2>1, ErrorSafe
<1> QED BY <1>8, <1>9

-----------------------------------------------------------------------------
(* The data engine, for whoever has set it up.                             *)

\* Of the reads of the file, one that waits for data has a transfer.
LEMMA FilingEngine ==
  ASSUME IInv, LInv, Filing, Underway
  PROVE  pc = "data"
BY DEF IInv, QuietInv, ReadInv, AtRest, Filing, Underway, Reads

\* The last block ends the transfer, the others move it on.
LEMMA BlockEng ==
  ASSUME IInv, Block
  PROVE  /\ eng.on /\ card = "data" /\ eng.buf \in Nat
         /\ eng.left \in Nat \ {0} /\ next \in Nat /\ next' = next + 1
         /\ eng' \in [on : BOOLEAN, buf : Nat, left : Nat, watch : BOOLEAN]
         /\ eng.left = 1 => /\ ~eng'.on
                            /\ dat_int_status' = dat_int_status \cup {"TRS"}
         /\ eng.left > 1 => /\ eng'.on /\ eng'.buf = eng.buf + 1
                            /\ eng'.left = eng.left - 1
                            /\ dat_int_status' = dat_int_status
<1>1. /\ eng.on /\ card = "data" /\ eng.left \in Nat \ {0} /\ eng.buf \in Nat
      /\ next \in Nat /\ Top \in Nat
      /\ eng \in [on : BOOLEAN, buf : Nat, left : Nat, watch : BOOLEAN]
  BY LoadAssumption
  DEF IInv, BootType, CardType, EngType, EngInv, Block, Sending, Underway
<1>2. next' = next + 1 BY DEF Block
<1>3. CASE eng.left = 1
  <2>1. eng' = NoTransfer /\ dat_int_status' = dat_int_status \cup {"TRS"}
    BY <1>3 DEF Block
  <2> QED BY <1>1, <1>2, <1>3, <2>1 DEF NoTransfer, Win
<1>4. CASE eng.left # 1
  <2>1. /\ eng' = [eng EXCEPT !.buf = @ + 1, !.left = @ - 1]
        /\ dat_int_status' = dat_int_status
    BY <1>4 DEF Block
  <2>2. /\ eng'.on = eng.on /\ eng'.buf = eng.buf + 1
        /\ eng'.left = eng.left - 1
    BY <1>1, <2>1
  <2>3. eng' \in [on : BOOLEAN, buf : Nat, left : Nat, watch : BOOLEAN]
    <3>1. eng.buf + 1 \in Nat /\ eng.left - 1 \in Nat BY <1>1
    <3> QED BY <1>1, <2>1, <3>1
  <2> QED BY <1>1, <1>2, <1>4, <2>1, <2>2, <2>3
<1> QED BY <1>3, <1>4

\* A block that comes in extends what was moved.
LEMMA BlockProgress ==
  ASSUME IInv, LInv, Block, NEW b \in Nat, NEW q \in Nat, NEW n \in Nat \ {0},
         Progress(b, q, n)
  PROVE  Progress(b, q, n)'
<1>1. /\ eng.on /\ card = "data" /\ eng.left \in Nat \ {0} /\ eng.buf \in Nat
      /\ next \in Nat /\ next' = next + 1
      /\ eng.left = 1 => /\ ~eng'.on
                         /\ dat_int_status' = dat_int_status \cup {"TRS"}
      /\ eng.left > 1 => /\ eng'.on /\ eng'.buf = eng.buf + 1
                         /\ eng'.left = eng.left - 1
                         /\ dat_int_status' = dat_int_status
  BY BlockEng
<1>2. /\ eng.left <= n /\ eng.buf = b + (n - eng.left)
      /\ next = q + (n - eng.left) /\ dat_int_status = {}
      /\ Moved(b, q, n - eng.left) /\ (n = 1 => ~multi)
  BY <1>1 DEF Progress, Sending
<1>3. PICK m \in Nat : m = n - eng.left BY <1>1, <1>2
<1>4. m < n /\ eng.buf = b + m /\ next = q + m BY <1>1, <1>2, <1>3
<1>5. card' \in {"data", "tran"} /\ (n = 1 => card' = "tran") /\ multi' = multi
  BY <1>1, <1>2 DEF Block
<1>6. ASSUME NEW k \in 0 .. m PROVE At(b + k)' = Data(q + k)
  <2>1. At(b + k)' = IF b + k = eng.buf THEN Data(next) ELSE At(b + k)
    <3>1. b + k \in Nat BY <1>3
    <3> QED BY <3>1, BlockMoves
  <2>2. CASE k = m BY <1>4, <2>1, <2>2
  <2>3. CASE k # m
    <3>1. k \in 0 .. m - 1 BY <1>3, <2>3
    <3>2. At(b + k) = Data(q + k) BY <1>2, <1>3, <3>1 DEF Moved
    <3> QED BY <1>4, <2>1, <2>3, <3>2
  <2> QED BY <2>2, <2>3
<1>7. CASE eng.left = 1
  <2>1. m = n - 1 BY <1>3, <1>7
  <2>2. Moved(b, q, n)' BY <1>6, <2>1 DEF Moved, Data, At
  <2> QED BY <1>1, <1>2, <1>5, <1>7, <2>2 DEF Progress
<1>8. CASE eng.left > 1
  <2>1. n - eng'.left = m + 1 /\ eng'.left <= n BY <1>1, <1>2, <1>3, <1>8
  <2>2. Moved(b, q, n - eng.left)'
    <3>1. n - eng'.left - 1 = m BY <1>3, <2>1
    <3> QED BY <1>6, <3>1 DEF Moved, Data, At
  <2>3. eng'.buf = b + (n - eng'.left) /\ next' = q + (n - eng'.left)
    BY <1>1, <1>3, <1>4, <1>8, <2>1
  <2> QED BY <1>1, <1>2, <1>5, <1>8, <2>1, <2>2, <2>3 DEF Progress
<1> QED BY <1>1, <1>7, <1>8

\* What has been moved is left alone by a block that goes elsewhere.
LEMMA BlockElsewhere ==
  ASSUME IInv, LInv, Block, NEW b \in Nat, NEW q, NEW n \in Nat,
         Moved(b, q, n), b + n <= eng.buf
  PROVE  Moved(b, q, n)'
<1> SUFFICES ASSUME NEW k \in 0 .. n - 1 PROVE At(b + k)' = Data(q + k)
  BY DEF Moved, Data, At
<1>1. b + k \in Nat /\ b + k # eng.buf BY BlockEng, LoadAssumption
<1>2. At(b + k)' = At(b + k) BY <1>1, BlockMoves
<1>3. At(b + k) = Data(q + k) BY DEF Moved
<1> QED BY <1>2, <1>3

\* A block that comes in for a read of the file.
LEMMA BlockFiling ==
  ASSUME IInv, LInv, Block, Filing, CardType', EngType', EngInv',
         UNCHANGED ubVars
  PROVE  IInv'
<1>1. /\ eng.on /\ eng.left \in Nat \ {0} /\ eng.buf \in Nat
      /\ eng.left = 1 => ~eng'.on
  BY BlockEng
<1>2. /\ UNCHANGED <<image, alt_mem, at, seg, pos, kind, layout, multi, pc,
                     cmd_no, card_type, drv_status, rd, done, part>>
      /\ pc = "data"
  BY FilingEngine DEF Block, drvVars
<1>3. s' = s /\ base' = base /\ size' = size /\ Got' = Got /\ InFile' = InFile
  BY <1>2, Pos
<1>4. /\ Progress(rd.buf + done, rd.sector + done, Part)
      /\ done < rd.count /\ done <= rd.count /\ Moved(rd.buf, rd.sector, done)
      /\ ~rd.late /\ done \in Nat /\ rd \in Records
      /\ rd.buf \in Nat /\ rd.sector \in Nat /\ rd.count \in Nat
      /\ rd.rest \in Nat
  BY <1>2, ReadFields DEF IInv, ReadInv, BootType, DrvType
<1>5. Part \in Nat \ {0} BY <1>4, PartFacts DEF IInv, BootType
<1>6. rd.buf + done \in Nat /\ rd.sector + done \in Nat BY <1>4
<1>7. /\ eng.left <= Part /\ eng.buf = rd.buf + done + (Part - eng.left)
  BY <1>1, <1>4 DEF Progress
<1>8. Progress(rd.buf + done, rd.sector + done, Part)'
  <2>1. PICK b \in Nat, q \in Nat, n \in Nat \ {0} :
          b = rd.buf + done /\ q = rd.sector + done /\ n = Part
    BY <1>5, <1>6
  <2>2. Progress(b, q, n)' BY <1>4, <2>1, BlockProgress
  <2>3. Part' = Part BY <1>2 DEF Part
  <2> QED BY <1>2, <2>1, <2>2, <2>3 DEF Progress, Moved, At, Data, Sending
<1>9. Moved(rd.buf, rd.sector, done)'
  <2>1. PICK c \in Nat, p \in Nat, d \in Nat :
          c = rd.buf /\ p = rd.sector /\ d = done
    BY <1>4
  <2>2. Moved(c, p, d) /\ c + d <= eng.buf BY <1>1, <1>4, <1>5, <1>7, <2>1
  <2>3. Moved(c, p, d)' BY <2>2, BlockElsewhere
  <2> QED BY <1>2, <2>1, <2>3 DEF Moved, At, Data
<1>10. ReadInv' BY <1>2, <1>4, <1>8, <1>9 DEF ReadInv
<1>11. ChunkRead => ChunkRead'
  <2> SUFFICES ASSUME ChunkRead PROVE ChunkRead' OBVIOUS
  <2>1. base \in Nat /\ pos \in Nat /\ s.off \in Nat
    BY ChunkPlace DEF ChunkRead, InChunk
  <2>2. rd.buf - base \in Nat /\ ChunkStart \in Nat
    BY <1>4, <2>1, BootAssumption DEF ChunkRead, ChunkStart
  <2>3. PICK c \in Nat, p \in Nat, d \in Nat :
          c = base /\ p = ChunkStart /\ d = rd.buf - base
    BY <2>1, <2>2
  <2>4. Moved(c, p, d) /\ c + d <= eng.buf
    BY <1>1, <1>4, <1>5, <1>7, <2>3 DEF ChunkRead
  <2>5. Moved(c, p, d)' BY <2>4, BlockElsewhere
  <2>6. ChunkStart' = ChunkStart BY <1>2, <1>3 DEF ChunkStart
  <2>7. Moved(base, ChunkStart, rd.buf - base)'
    BY <1>2, <1>3, <2>3, <2>5, <2>6 DEF Moved, At, Data
  <2> QED BY <1>2, <1>3, <2>6, <2>7 DEF ChunkRead, InChunk
<1>12. SameRead /\ pc' \in Reads /\ rd' \in Records /\ done' \in Nat
  BY <1>2, <1>4 DEF SameRead, Reads
<1> QED BY <1>2, <1>10, <1>11, <1>12, FilingStep

\* A block that comes in on the way to the file: before the answer it is of
\* another sector.
LEMMA BlockSearching ==
  ASSUME IInv, LInv, Block, Searching, CardType', EngType', UNCHANGED ubVars
  PROVE  IInv'
<1>1. /\ eng.on /\ Sending /\ next \in Nat
      /\ eng.left = 1 => /\ ~eng'.on
                         /\ dat_int_status' = dat_int_status \cup {"TRS"}
  BY BlockEng DEF Sending
<1>2. /\ UNCHANGED <<image, alt_mem, at, seg, pos, kind, layout, multi, pc,
                     cmd_no, card_type, drv_status, rd, done, part>>
      /\ pc = "answer" => rd.late
  BY DEF Block, drvVars, Underway
<1>3. /\ pc \in {"cmd", "answer", "data"} /\ pc \in Reads
      /\ eng.buf = Win /\ eng.left = 1 /\ ~multi /\ done = 0
      /\ pc \in {"cmd", "answer"} => next # rd.sector
      /\ pc = "data" => next = Aim
  BY <1>1 DEF IInv, SearchInv, Searching, Reads
<1>4. ~eng'.on /\ card' = "tran" BY <1>1, <1>3 DEF Block
<1>5. rd \in Records /\ done \in Nat /\ rd.sector \in Nat
  BY ReadFields DEF IInv, BootType, DrvType
<1>6. At(Win)' = Data(next)
  <2>1. Win \in Nat BY LoadAssumption DEF Win
  <2> QED BY <1>3, <2>1, BlockMoves DEF Win
<1>7. SearchInv'
  <2>1. pc \in {"cmd", "answer"} => ~Sound'
    <3>1. FileSector \in Nat BY BootAssumption
    <3> QED BY <1>1, <1>2, <1>3, <1>5, <1>6, <3>1 DEF Sound, Data, At, Win
  <2>2. Aim' = Aim BY <1>2 DEF Aim, Arg, SectorOf
  <2>3. pc = "data" => (At(Win) = Data(Aim))'
    BY <1>3, <1>6, <2>2 DEF Data, At, Win
  <2> QED BY <1>2, <1>3, <1>4, <2>1, <2>3 DEF SearchInv, Sending
<1>8. SkipInv' BY <1>2, <1>3, <1>4 DEF SkipInv, Sending
<1>9. SameRead BY <1>2 DEF SameRead
<1> QED BY <1>2, <1>3, <1>4, <1>5, <1>7, <1>8, <1>9, SearchStep

LEMMA BlockSafe ==
  ASSUME IInv, LInv, Block, UNCHANGED ubVars
  PROVE  IInv'
<1>1. /\ eng.on /\ card = "data" /\ eng.left \in Nat \ {0} /\ eng.buf \in Nat
      /\ next \in Nat /\ next' = next + 1
      /\ eng' \in [on : BOOLEAN, buf : Nat, left : Nat, watch : BOOLEAN]
      /\ eng.left = 1 => /\ ~eng'.on
                         /\ dat_int_status' = dat_int_status \cup {"TRS"}
      /\ eng.left > 1 => /\ eng'.on /\ eng'.buf = eng.buf + 1
                         /\ eng'.left = eng.left - 1
                         /\ dat_int_status' = dat_int_status
  BY BlockEng
<1>2. /\ UNCHANGED <<image, alt_mem, at, seg, pos, kind, layout, multi, faults,
                     pc, cmd_no, card_type, drv_status, rd, done, part, up,
                     req, result, clean>>
  BY DEF Block, drvVars, ubVars
<1>3. s' = s /\ base' = base /\ size' = size /\ Got' = Got /\ InFile' = InFile
  BY <1>2, Pos
<1>4. CardType' BY <1>1, <1>2 DEF IInv, BootType, CardType
<1>5. EngType'
  <2>1. other' \in [Other -> Int \cup {Junk}]
    <3>1. other' \in {other, [other EXCEPT ![eng.buf] = Data(next)]}
      BY DEF Block, Store
    <3>2. Data(next) \in Int BY <1>1, BootAssumption DEF Data
    <3> QED BY <3>1, <3>2 DEF IInv, BootType, EngType
  <2>2. dat_int_status' \in Statuses
    <3>1. dat_int_status' \in {dat_int_status, dat_int_status \cup {"TRS"}}
      BY DEF Block
    <3> QED BY <3>1, Zenon DEF IInv, BootType, EngType, Statuses
  <2> QED BY <1>1, <2>1, <2>2 DEF EngType, Other, Statuses
<1>6. EngInv'
  <2>1. CASE eng.left = 1 BY <1>1, <2>1 DEF EngInv
  <2>2. CASE eng.left > 1
    <3>1. eng'.buf = eng.buf + 1 /\ eng'.left = eng.left - 1 BY <1>1, <2>2
    <3>2. CASE eng.buf >= Top /\ eng.buf + eng.left <= Top + 3
      BY <1>1, <2>2, <3>1, <3>2, LoadAssumption DEF EngInv
    <3>3. CASE /\ at \in {"read", "failed"} /\ InChunk
               /\ base <= eng.buf /\ eng.buf + eng.left <= base + size
      <4>1. base \in Nat /\ size \in Nat BY <3>3, ChunkPlace DEF InChunk
      <4>2. InChunk' BY <1>2, <1>3, <3>3 DEF InChunk
      <4> QED BY <1>1, <1>2, <1>3, <2>2, <3>1, <3>3, <4>1, <4>2 DEF EngInv
    <3> QED BY <1>1, <3>2, <3>3 DEF IInv, EngInv
  <2> QED BY <1>1, <2>1, <2>2
<1>7. CASE Filing BY <1>4, <1>5, <1>6, <1>7, BlockFiling
<1>8. CASE Searching BY <1>4, <1>5, <1>8, BlockSearching
<1>9. CASE pc \notin Reads
  <2>1. BootType'
    BY <1>2, <1>4, <1>5 DEF IInv, BootType, DrvType, VolType, UbType
  <2>2. ReadInv' /\ SearchInv'
    BY <1>2, <1>9 DEF ReadInv, SearchInv, Filing, Searching
  <2>3. PcInv' BY <1>2, <1>3, <1>9 DEF IInv, PcInv
  <2>4. SkipInv'
    <3>1. CASE pc = "skip"
      <4>1. eng.left = 1 /\ ~multi
        BY <1>1, <3>1 DEF IInv, SkipInv, Sending
      <4>2. ~eng'.on /\ card' = "tran" BY <1>1, <4>1 DEF Block
      <4> QED BY <4>2 DEF SkipInv, Sending
    <3>2. CASE pc # "skip" BY <1>2, <1>9, <3>2 DEF SkipInv
    <3> QED BY <3>1, <3>2
  <2>5. QuietInv'
    <3>1. ~AtRest /\ ~Ready BY <1>1 DEF IInv, QuietInv
    <3>2. ~AtRest' /\ ~Ready'
      BY <1>2, <1>9, <3>1 DEF AtRest, Ready, Handed, Filing, Searching
    <3> QED BY <3>2 DEF QuietInv
  <2>6. AddrInv'
    BY <1>2 DEF IInv, AddrInv, Addressing, Filing, Searching, Win
  <2>7. UbInv'
    <3>1. CASE up = "data" /\ clean
      <4>1. /\ Progress(UbBuf, req.sector, req.count) /\ req.sector \in Nat
            /\ req.count \in Nat \ {0} /\ UbBuf \in Nat
        BY <3>1, LoadAssumption DEF IInv, UbInv, BootType, UbType, UbBuf
      <4>2. PICK b \in Nat, q \in Nat, n \in Nat \ {0} :
              b = UbBuf /\ q = req.sector /\ n = req.count
        BY <4>1
      <4>3. Progress(b, q, n)' BY <4>1, <4>2, BlockProgress
      <4>4. Progress(UbBuf, req.sector, req.count)'
        BY <1>2, <4>2, <4>3 DEF Progress, Moved, At, Data, Sending, UbBuf
      <4> QED BY <1>2, <3>1, <4>4 DEF IInv, UbInv, UbBuf
    <3>2. CASE ~(up = "data" /\ clean)
      BY <1>1, <1>2, <3>2 DEF IInv, UbInv, UbBuf
    <3> QED BY <3>1, <3>2
  <2> QED BY <1>6, <2>1, <2>2, <2>3, <2>4, <2>5, <2>6, <2>7 DEF IInv
<1> QED BY <1>7, <1>8, <1>9 DEF Filing

\* A transfer that breaks off, or data that nobody takes.
LossStep == BadBlock \/ Mute \/ DataTimeout \/ Unheeded

LEMMA LossFacts ==
  ASSUME IInv, LossStep
  PROVE  /\ UNCHANGED <<image, mem, alt_mem, at, seg, pos, kind, layout, next,
                        multi, pc, cmd_no, card_type, drv_status, rd, done,
                        part, other>>
         /\ card' \in {card, "tran"} /\ faults' \in Nat
         /\ \/ eng' = eng /\ dat_int_status' = dat_int_status /\ card' = "tran"
            \/ /\ Underway /\ eng' = NoTransfer /\ ~eng'.on
               /\ dat_int_status' = dat_int_status \cup {"ERR"}
               /\ Sending => multi \/ card' = "tran"
<1> USE DEF loadVars, cardVars, drvVars, NoTransfer
<1>1. faults \in Nat BY DEF IInv, BootType, CardType
<1>2. CASE BadBlock BY <1>1, <1>2 DEF BadBlock
<1>3. CASE Mute BY <1>1, <1>3 DEF Mute
<1>4. CASE DataTimeout BY <1>1, <1>4 DEF DataTimeout
<1>5. CASE Unheeded BY <1>1, <1>5 DEF Unheeded
<1> QED BY <1>2, <1>3, <1>4, <1>5 DEF LossStep

LEMMA LossProgress ==
  ASSUME IInv, LossStep, NEW b \in Nat, NEW q \in Nat, NEW n \in Nat,
         Progress(b, q, n)
  PROVE  Progress(b, q, n)'
<1>1. /\ mem' = mem /\ other' = other /\ next' = next /\ multi' = multi
      /\ card' \in {card, "tran"}
      /\ \/ eng' = eng /\ dat_int_status' = dat_int_status
         \/ ~eng'.on /\ dat_int_status' = dat_int_status \cup {"ERR"}
  BY LossFacts
<1>2. CASE eng' = eng /\ dat_int_status' = dat_int_status
  BY <1>1, <1>2 DEF Progress, Moved, At, Data, Sending
<1>3. CASE ~eng'.on /\ dat_int_status' = dat_int_status \cup {"ERR"}
  <2>1. dat_int_status' # {"TRS"} BY <1>3
  <2> QED BY <1>1, <1>3, <2>1 DEF Progress
<1> QED BY <1>1, <1>2, <1>3

LEMMA LossSafe ==
  ASSUME IInv, LInv, LossStep, UNCHANGED ubVars
  PROVE  IInv'
<1>1. /\ UNCHANGED <<image, mem, alt_mem, at, seg, pos, kind, layout, next,
                     multi, pc, cmd_no, card_type, drv_status, rd, done, part,
                     other, up, req, result, clean>>
      /\ card' \in {card, "tran"} /\ faults' \in Nat
      /\ \/ eng' = eng /\ dat_int_status' = dat_int_status /\ card' = "tran"
         \/ /\ Underway /\ eng' = NoTransfer /\ ~eng'.on
            /\ dat_int_status' = dat_int_status \cup {"ERR"}
            /\ Sending => multi \/ card' = "tran"
  BY LossFacts DEF ubVars
<1>2. NoTransfer \in [on : BOOLEAN, buf : Nat, left : Nat, watch : BOOLEAN]
  BY LoadAssumption DEF NoTransfer, Win
<1>3. CardType' BY <1>1 DEF IInv, BootType, CardType
<1>4. EngType'
  BY <1>1, <1>2 DEF IInv, BootType, EngType, Other, Statuses
<1>5. EngInv' BY <1>1, Pos DEF IInv, EngInv, InChunk
<1>6. /\ SameRead /\ rd' \in Records /\ done' \in Nat
      /\ done = done' /\ pc' = pc
  BY <1>1 DEF SameRead, IInv, BootType, DrvType
<1>7. Sending' => Sending /\ card' = card BY <1>1 DEF Sending
<1>8. CASE Searching
  <2>1. SearchInv'
    <3>1. /\ Sound' <=> Sound
          /\ Aim' = Aim
          /\ At(Win)' = At(Win) /\ Data(Aim)' = Data(Aim)
          /\ Addressing' <=> Addressing
      BY <1>1 DEF Sound, At, Data, Win, Aim, Arg, SectorOf, Addressing
    <3>2. CASE eng' = eng /\ dat_int_status' = dat_int_status /\ card' = "tran"
      BY <1>1, <1>7, <1>8, <3>1, <3>2 DEF IInv, SearchInv, Sending
    <3>3. CASE /\ Underway /\ ~eng'.on
               /\ dat_int_status' = dat_int_status \cup {"ERR"}
      <4>1. dat_int_status' # {"TRS"} /\ pc # "done"
        BY <1>8, <3>3 DEF IInv, SearchInv, Underway
      <4> QED BY <1>1, <1>7, <1>8, <3>1, <3>3, <4>1
              DEF IInv, SearchInv, Sending, Underway
    <3> QED BY <1>1, <3>2, <3>3
  <2>2. SkipInv'
    BY <1>1, <1>7 DEF IInv, SkipInv, Checking, Vbr, Behind, Win
  <2>3. eng'.on => eng'.buf = Win /\ eng'.left = 1
    BY <1>1, <1>8 DEF IInv, SearchInv
  <2>4. pc' \in Reads BY <1>1, <1>8 DEF Searching
  <2> QED BY <1>1, <1>3, <1>4, <1>6, <1>8, <2>1, <2>2, <2>3, <2>4, SearchStep
<1>9. CASE Filing
  <2>1. ReadInv'
    <3>1. Part' = Part BY <1>1 DEF Part
    <3>2. CASE pc = "data"
      <4>1. /\ done \in Nat /\ rd.buf \in Nat /\ rd.sector \in Nat
            /\ done < rd.count
        BY <1>9, <3>2, ReadFields DEF IInv, BootType, DrvType, ReadInv
      <4>2. Part \in Nat BY <4>1, PartFacts DEF IInv, BootType
      <4>3. PICK b \in Nat, q \in Nat, n \in Nat :
              b = rd.buf + done /\ q = rd.sector + done /\ n = Part
        BY <4>1, <4>2
      <4>4. Progress(b, q, n)'
        BY <1>9, <3>2, <4>3, LossProgress DEF IInv, ReadInv
      <4>5. Progress(rd.buf + done, rd.sector + done, Part)'
        BY <1>1, <3>1, <4>3, <4>4 DEF Progress, Moved, At, Data, Sending
      <4> QED BY <1>1, <1>9, <3>2, <4>5
              DEF IInv, ReadInv, Moved, At, Data
    <3>3. CASE pc # "data"
      <4>1. eng' = eng /\ dat_int_status' = dat_int_status
        BY <1>1, <1>9, <3>3, FilingEngine
      <4>2. Begun(rd.buf + done, Part) => Begun(rd.buf + done, Part)'
        BY <1>1, <3>1, <4>1 DEF Begun
      <4> QED BY <1>1, <1>9, <3>1, <3>3, <4>2
              DEF IInv, ReadInv, Moved, At, Data
    <3> QED BY <3>2, <3>3
  <2>2. ChunkRead => ChunkRead' BY <1>1, <1>6, StillReading
  <2>3. pc' \in {"cmd", "stop", "done"} => ~eng'.on /\ dat_int_status' = {}
    BY <1>1, <1>9, FilingEngine DEF IInv, QuietInv, AtRest
  <2>4. pc' \in {"cmd", "done"} => card' = "tran"
    BY <1>1, <1>9 DEF IInv, QuietInv, Ready
  <2>5. pc' \in Reads BY <1>1, <1>9 DEF Filing
  <2> QED BY <1>1, <1>3, <1>4, <1>5, <1>6, <1>9, <2>1, <2>2, <2>3, <2>4, <2>5,
             FilingStep
<1>10. CASE pc \notin Reads
  <2>1. BootType'
    BY <1>1, <1>3, <1>4 DEF IInv, BootType, DrvType, VolType, UbType
  <2>2. ReadInv' /\ SearchInv'
    BY <1>1, <1>10 DEF ReadInv, SearchInv, Filing, Searching
  <2>3. PcInv'
    <3>1. Got' = Got BY <1>1, Pos
    <3> QED BY <1>1, <1>10, <3>1 DEF IInv, PcInv
  <2>4. SkipInv'
    BY <1>1, <1>7, <1>10 DEF IInv, SkipInv, Behind, Vbr
  <2>5. QuietInv'
    <3>1. (AtRest' <=> AtRest) /\ (Ready' <=> Ready)
      BY <1>1, <1>10 DEF AtRest, Ready, Handed, Filing, Searching
    <3>2. AtRest => ~Underway BY DEF IInv, QuietInv, Underway
    <3> QED BY <1>1, <3>1, <3>2 DEF IInv, QuietInv
  <2>6. AddrInv'
    BY <1>1 DEF IInv, AddrInv, Addressing, Filing, Searching, Win
  <2>7. UbInv'
    <3>1. CASE up = "data" /\ clean
      <4>1. /\ Progress(UbBuf, req.sector, req.count) /\ req.sector \in Nat
            /\ req.count \in Nat /\ UbBuf \in Nat
        BY <3>1, LoadAssumption DEF IInv, UbInv, BootType, UbType, UbBuf
      <4>2. PICK b \in Nat, q \in Nat, n \in Nat :
              b = UbBuf /\ q = req.sector /\ n = req.count
        BY <4>1
      <4>3. Progress(b, q, n)' BY <4>1, <4>2, LossProgress
      <4>4. Progress(UbBuf, req.sector, req.count)'
        BY <1>1, <4>2, <4>3 DEF Progress, Moved, At, Data, Sending, UbBuf
      <4> QED BY <1>1, <3>1, <4>4 DEF IInv, UbInv, UbBuf
    <3>2. CASE ~(up = "data" /\ clean)
      <4>1. ~clean \/ up \notin {"idle", "stop", "error"} \/ ~eng.on
        BY DEF IInv, UbInv
      <4> QED BY <1>1, <3>2, <4>1
              DEF IInv, UbInv, UbBuf, Moved, At, Data, Underway
    <3> QED BY <3>1, <3>2
  <2> QED BY <1>5, <2>1, <2>2, <2>3, <2>4, <2>5, <2>6, <2>7 DEF IInv
<1> QED BY <1>8, <1>9, <1>10 DEF Filing
-----------------------------------------------------------------------------
(* u-boot, and the reset.                                                  *)

\* What does not change when u-boot runs.
LEMMA UbootFrame ==
  ASSUME IInv, Uboot
  PROVE  /\ UNCHANGED <<image, mem, alt_mem, at, seg, pos, pc, cmd_no,
                        card_type, drv_status, rd, done, part, other>>
         /\ at = "jump" /\ pc = "idle" /\ up' # "off"
<1>1. /\ UNCHANGED romVars /\ at = "jump" /\ up' # "off"
  BY DEF Uboot, Probe, Identify, ReadFinish, Stop, Read, IInv, PcInv
<1>2. pc = "idle"
  BY <1>1
  DEF IInv, PcInv, BootType, DrvType, SearchRead, FirstRead, ChunkRead, Reads
<1> QED BY <1>1, <1>2 DEF romVars, loadVars, drvVars

\* It is left to show what becomes of the card, of the engine and of u-boot.
LEMMA UbootRest ==
  ASSUME IInv, Uboot, CardType', kind' = kind, layout' = layout, UbType',
         EngType',
         eng'.on => /\ eng'.left > 0 /\ eng'.buf >= Top
                    /\ eng'.buf + eng'.left <= Top + 3,
         up' = "probed" => ~eng'.on /\ dat_int_status' = {} /\ card' = "tran",
         UbInv'
  PROVE  IInv'
<1>1. /\ UNCHANGED <<image, mem, alt_mem, at, seg, pos, pc, cmd_no,
                     card_type, drv_status, rd, done, part, other>>
      /\ at = "jump" /\ pc = "idle" /\ up' # "off"
  BY UbootFrame
<1>2. BootType' BY <1>1 DEF IInv, BootType, DrvType, VolType
<1>3. EngInv' BY DEF EngInv
<1>4. PcInv' BY <1>1 DEF PcInv, Reads
<1>5. ReadInv' /\ SearchInv' /\ SkipInv'
  BY <1>1 DEF ReadInv, SearchInv, SkipInv, Filing, Searching, Reads
<1>6. QuietInv'
  BY <1>1 DEF QuietInv, AtRest, Ready, Handed, Filing, Reads
<1>7. AddrInv' BY <1>1 DEF IInv, AddrInv, Addressing, Filing, Reads
<1> QED BY <1>2, <1>3, <1>4, <1>5, <1>6, <1>7 DEF IInv

LEMMA ProbeSafe == ASSUME IInv, Probe PROVE IInv'
<1>1. Uboot BY DEF Uboot
<1>2. NoTransfer \in [on : BOOLEAN, buf : Nat, left : Nat, watch : BOOLEAN]
  BY LoadAssumption DEF NoTransfer, Win
<1>3. CardType' /\ kind' = kind /\ layout' = layout /\ UbType' /\ EngType'
  BY <1>1, <1>2, UbootFrame
  DEF Probe, cardVars, IInv, BootType, CardType, UbType, EngType, Other,
      Statuses
<1>4. card = "tran"
  BY <1>1, UbootFrame DEF Probe, IInv, QuietInv, Ready, Handed
<1>5. UbInv' /\ ~eng'.on /\ dat_int_status' = {} /\ card' = "tran"
  BY <1>4 DEF Probe, cardVars, UbInv, NoTransfer
<1> QED BY <1>1, <1>3, <1>5, UbootRest

LEMMA IdentifySafe == ASSUME IInv, Identify PROVE IInv'
<1>1. Uboot BY DEF Uboot
<1>2. /\ up' = "idle" /\ result' = "none" /\ card' = "tran"
      /\ dat_int_status' = {} /\ eng' = eng /\ req' = req
      /\ UNCHANGED <<kind, layout, next, multi, faults>>
  BY DEF Identify
<1>3. clean' = ~eng.on BY Zenon DEF Identify
<1>4. /\ CardType' /\ EngType'
  BY <1>1, <1>2, UbootFrame
  DEF IInv, BootType, CardType, EngType, Other, Statuses
<1>5. UbType' BY <1>2, <1>3 DEF IInv, BootType, UbType
<1>6. UbInv' BY <1>2, <1>3 DEF UbInv
<1>7. at = "jump" BY <1>1, UbootFrame
<1>8. eng'.on => /\ eng'.left > 0 /\ eng'.buf >= Top
                 /\ eng'.buf + eng'.left <= Top + 3
  BY <1>2, <1>7 DEF IInv, EngInv
<1> QED BY <1>1, <1>2, <1>4, <1>5, <1>6, <1>8, UbootRest

LEMMA ReadFinishSafe == ASSUME IInv, ReadFinish PROVE IInv'
<1>1. Uboot BY DEF Uboot
<1>2. /\ up = "data" /\ Status # {} /\ dat_int_status' = {}
      /\ up' \in {"error", "stop", "idle"}
      /\ up' = "error" <=> Status # {"TRS"}
      /\ up' = "idle" <=> Status = {"TRS"} /\ req.count <= 1
      /\ UNCHANGED <<kind, layout, card, next, multi, faults, eng, req, clean>>
      /\ result' \in {"ok", result}
  BY DEF ReadFinish, cardVars, IInv, UbInv, BootType, UbType
<1>3. CardType' /\ EngType' /\ UbType'
  BY <1>1, <1>2, UbootFrame
  DEF IInv, BootType, CardType, EngType, UbType, Other, Statuses
<1>4. UbInv'
  <2>1. CASE clean
    <3>1. Progress(UbBuf, req.sector, req.count)
          /\ req.count > 0 /\ req.count \in Nat
      BY <1>2, <2>1 DEF IInv, UbInv, BootType, UbType
    <3>2. ~eng.on /\ card \in {"data", "tran"} /\ Status = dat_int_status
      BY <1>2, <3>1 DEF Progress, Status
    <3>3. dat_int_status = {"TRS"} =>
            /\ Moved(UbBuf, req.sector, req.count)
            /\ req.count = 1 => card = "tran"
      BY <3>1 DEF Progress
    <3>4. Moved(UbBuf, req.sector, req.count)' <=>
            Moved(UbBuf, req.sector, req.count)
      BY <1>1, <1>2, UbootFrame DEF Moved, At, Data, UbBuf
    <3> QED BY <1>2, <3>1, <3>2, <3>3, <3>4 DEF UbInv
  <2>2. CASE ~clean BY <1>2, <2>2 DEF UbInv
  <2> QED BY <2>1, <2>2
<1>5. at = "jump" BY <1>1, UbootFrame
<1>6. eng'.on => /\ eng'.left > 0 /\ eng'.buf >= Top
                 /\ eng'.buf + eng'.left <= Top + 3
  BY <1>2, <1>5 DEF IInv, EngInv
<1> QED BY <1>1, <1>2, <1>3, <1>4, <1>6, UbootRest

LEMMA StopSafe == ASSUME IInv, Stop PROVE IInv'
<1>1. Uboot BY DEF Uboot
<1>2. PICK ans \in {"ok", "timeout", "crc"} :
        /\ Exchange("CMD12", 0, ans)
        /\ result' = IF up = "stop" /\ ans = "ok" THEN "ok" ELSE "error"
  BY DEF Stop
<1>3. /\ up \in {"error", "stop"} /\ up' = "idle"
      /\ UNCHANGED <<eng, dat_int_status, req>>
  BY DEF Stop
<1>4. clean' = (clean /\ UNCHANGED faults) BY Zenon DEF Stop
<1>5. CardType BY DEF IInv, BootType
<1>6. /\ next' = next /\ multi' = multi /\ kind' = kind
      /\ layout' = layout /\ faults' \in Nat
      /\ ans = "ok" => card' = "tran"
      /\ card = "tran" => card' = "tran"
      /\ card = "data" /\ faults' = faults => card' = "tran"
  BY <1>2, <1>5, StopExchange
<1>7. CardType' BY <1>5, <1>6 DEF CardType
<1>8. clean' \in BOOLEAN /\ (clean' => clean /\ faults' = faults)
  BY Zenon, <1>4
<1>9. EngType'
  BY <1>1, <1>3, UbootFrame DEF IInv, BootType, EngType, Other, Statuses
<1>10. UbType' BY <1>2, <1>3, <1>8 DEF IInv, BootType, UbType
<1>11. UbInv'
  <2>1. CASE clean'
    <3>1. ~eng.on /\ dat_int_status = {} /\ card \in {"data", "tran"}
      BY <1>3, <1>8, <2>1 DEF IInv, UbInv
    <3>2. card' = "tran" BY <1>6, <1>8, <2>1, <3>1
    <3>3. up = "stop" => Moved(UbBuf, req.sector, req.count)
      BY <1>3, <1>8, <2>1 DEF IInv, UbInv
    <3>4. Moved(UbBuf, req.sector, req.count)' <=>
            Moved(UbBuf, req.sector, req.count)
      BY <1>1, <1>3, UbootFrame DEF Moved, At, Data, UbBuf
    <3> QED BY <1>2, <1>3, <3>1, <3>2, <3>3, <3>4 DEF UbInv
  <2>2. CASE ~clean' BY <1>3, <2>2 DEF UbInv
  <2> QED BY <2>1, <2>2
<1>12. at = "jump" BY <1>1, UbootFrame
<1>13. eng'.on => /\ eng'.left > 0 /\ eng'.buf >= Top
                  /\ eng'.buf + eng'.left <= Top + 3
  BY <1>3, <1>12 DEF IInv, EngInv
<1> QED
  BY <1>1, <1>3, <1>6, <1>7, <1>9, <1>10, <1>11, <1>13, UbootRest

LEMMA ReadSafe ==
  ASSUME IInv, NEW n \in {1, 2}, Read(FileSector, n) PROVE IInv'
<1>1. Uboot BY DEF Uboot
<1>2. FileSector \in Nat /\ Top \in Nat BY BootAssumption, LoadAssumption
<1>3. /\ up = "idle" /\ dat_int_status' = dat_int_status
      /\ req' = [sector |-> FileSector, count |-> n]
      /\ eng' = IF eng.on THEN eng
                ELSE [on |-> TRUE, buf |-> UbBuf, left |-> n,
                      watch |-> data_timeout(n) # 0]
  BY DEF Read
<1> DEFINE cmd == IF n = 1 THEN "CMD17" ELSE "CMD18"
           arg == IF kind = "HC" THEN FileSector ELSE FileSector * BlockSize
<1>4. PICK ans \in {"ok", "timeout", "crc"} :
        /\ Exchange(cmd, arg, ans)
        /\ IF ans = "ok"
           THEN up' = "data" /\ result' = "none" /\ UNCHANGED clean
           ELSE up' = "idle" /\ result' = "error" /\ clean' = FALSE
  BY DEF Read
<1>5. /\ CardType' /\ kind' = kind /\ layout' = layout
      /\ ans = "ok" => /\ card' \in {"data", "tran"} /\ (multi' <=> n # 1)
                       /\ next' = FileSector
  <2>1. cmd \in {"CMD17", "CMD18"} OBVIOUS
  <2>2. CardType /\ VolType BY DEF IInv, BootType
  <2>3. arg \in Nat /\ SectorOf(arg) = FileSector
    BY <1>2, <2>2, Volume, Address DEF SectorOf
  <2>4. cmd = "CMD18" <=> n # 1 OBVIOUS
  <2> HIDE DEF cmd, arg
  <2> QED BY <1>4, <2>1, <2>2, <2>3, <2>4, ReadExchange DEF CardType
<1>6. EngType'
  <2>1. (data_timeout(n) # 0) \in BOOLEAN OBVIOUS
  <2>2. eng' \in [on : BOOLEAN, buf : Nat, left : Nat, watch : BOOLEAN]
    <3>1. UbBuf \in Nat /\ n \in Nat BY <1>2 DEF UbBuf
    <3> QED BY <1>3, <2>1, <3>1 DEF IInv, BootType, EngType
  <2> QED BY <1>1, <1>3, <2>2, UbootFrame
          DEF IInv, BootType, EngType, Other, Statuses
<1>7. UbType'
  <2>1. clean' \in {clean, FALSE} /\ up' \in {"data", "idle"}
        /\ result' \in {"none", "error"}
    <3>1. CASE ans = "ok" BY <1>4, <3>1
    <3>2. CASE ans # "ok" BY <1>4, <3>2
    <3> QED BY <3>1, <3>2
  <2>2. req' \in [sector : Nat, count : Nat] BY <1>2, <1>3
  <2> QED BY <2>1, <2>2 DEF IInv, BootType, UbType
<1>8. /\ UbBuf = Top + 1
      /\ ~eng.on => eng'.buf = UbBuf /\ eng'.left = n /\ eng'.on
  BY <1>3 DEF UbBuf
<1>9. UbInv'
  <2>1. CASE ans = "ok"
    <3>1. up' = "data" /\ clean' = clean BY <1>4, <2>1
    <3>2. clean => Progress(UbBuf, req.sector, req.count)'
      <4> SUFFICES ASSUME clean PROVE Progress(UbBuf, req.sector, req.count)'
        OBVIOUS
      <4>1. dat_int_status = {} /\ ~eng.on BY <1>3 DEF IInv, UbInv
      <4>2. Moved(UbBuf, req.sector, 0)' BY DEF Moved
      <4>3. req'.sector = FileSector /\ req'.count = n BY <1>3
      <4>4. UbBuf' = UbBuf BY DEF UbBuf
      <4> QED BY <1>2, <1>3, <1>5, <1>8, <2>1, <4>1, <4>2, <4>3, <4>4
              DEF Progress
    <3> QED BY <1>2, <1>3, <1>8, <3>1, <3>2 DEF UbInv, UbBuf
  <2>2. CASE ans # "ok" BY <1>4, <2>2 DEF UbInv
  <2> QED BY <2>1, <2>2
<1>10. up' # "probed" BY <1>4
<1>11. eng'.on => /\ eng'.left > 0 /\ eng'.buf >= Top
                  /\ eng'.buf + eng'.left <= Top + 3
  <2>1. CASE eng.on
    <3>1. at = "jump" BY <1>1, UbootFrame
    <3> QED BY <1>3, <2>1, <3>1 DEF IInv, EngInv
  <2>2. CASE ~eng.on BY <1>2, <1>8, <2>2
  <2> QED BY <2>1, <2>2
<1> QED BY <1>1, <1>5, <1>6, <1>7, <1>9, <1>10, <1>11, UbootRest

LEMMA ResetSafe ==
  ASSUME IInv, SystemReset, up' = "off", req' = NoRequest, result' = "none",
         clean' = FALSE
  PROVE  IInv'
<1>1. /\ pc' = "main" /\ at' = "off" /\ eng' = NoTransfer
      /\ dat_int_status' = {} /\ drv_status' = "NOINIT" /\ card_type' = {}
      /\ UNCHANGED <<kind, layout, card, next, multi>>
      /\ rd' = NoRead /\ done' = 0 /\ cmd_no' = 1 /\ part' = 0
      /\ other' = [a \in Other |-> Junk]
  BY DEF SystemReset, Restart, cardVars
<1>2. faults' \in Nat BY DEF SystemReset, IInv, BootType, CardType
<1>3. NoTransfer \in [on : BOOLEAN, buf : Nat, left : Nat, watch : BOOLEAN]
      /\ Top \in Nat
  BY LoadAssumption DEF NoTransfer, Win
<1>4. BootType'
  <2>1. CardType' BY <1>1, <1>2 DEF IInv, BootType, CardType
  <2>2. EngType' BY <1>1, <1>3 DEF EngType, Statuses, Other
  <2>3. Len(Startup) = 10 BY DEF Startup
  <2>4. DrvType' BY <1>1, <2>3, NoReadRecord DEF DrvType
  <2>5. UbType' BY DEF UbType, NoRequest
  <2>6. VolType'
    <3>1. layout \in Layouts /\ 0 \in 0 .. layout.parts
      BY Volume DEF IInv, BootType, VolType
    <3> QED BY <1>1, <3>1 DEF VolType
  <2> QED BY <2>1, <2>2, <2>4, <2>5, <2>6 DEF BootType
<1>5. EngInv' BY <1>1 DEF EngInv, NoTransfer
<1>6. PcInv' /\ ReadInv' /\ SearchInv' /\ SkipInv'
  BY <1>1
  DEF PcInv, ReadInv, SearchInv, SkipInv, Filing, Searching, Reads
<1>7. QuietInv'
  BY <1>1 DEF QuietInv, AtRest, Ready, Handed, Filing, Reads
<1>8. AddrInv' BY <1>1 DEF AddrInv, Filing, Reads
<1>9. UbInv' BY DEF UbInv
<1> QED BY <1>4, <1>5, <1>6, <1>7, <1>8, <1>9 DEF IInv

LEMMA SameSafe == ASSUME IInv, UNCHANGED allVars PROVE IInv'
<1>1. /\ UNCHANGED <<image, mem, alt_mem, at, seg, pos>>
      /\ UNCHANGED <<kind, layout, card, next, multi, eng, dat_int_status,
                     faults>>
      /\ UNCHANGED <<pc, cmd_no, card_type, drv_status, rd, done, part, other>>
      /\ UNCHANGED <<up, req, result, clean>>
  BY DEF allVars, vars, bootVars, loadVars, cardVars, drvVars, ubVars
<1>2. s' = s /\ base' = base /\ size' = size /\ Got' = Got /\ InFile' = InFile
  BY <1>1, Pos
<1>3. BootType'
  BY <1>1
  DEF IInv, BootType, CardType, EngType, DrvType, VolType, UbType, Statuses,
      Other
<1>4. EngInv' BY <1>1, <1>2 DEF IInv, EngInv, InChunk
<1>5. PcInv'
  <2>1. ChunkRead => ChunkRead' BY <1>1, StillReading DEF SameRead
  <2>2. SearchRead => SearchRead'
    BY <1>1 DEF SearchRead, Checking, Vbr, Win, Directory
  <2>3. FirstRead => FirstRead' BY <1>1 DEF FirstRead, Win
  <2> QED BY <1>1, <1>2, <2>1, <2>2, <2>3 DEF IInv, PcInv
<1>6. /\ Part' = Part /\ Aim' = Aim /\ (Sending' <=> Sending)
      /\ (Sound' <=> Sound) /\ (Addressing' <=> Addressing)
      /\ (Filing' <=> Filing) /\ (Searching' <=> Searching)
      /\ (Checking' <=> Checking) /\ (Behind' <=> Behind)
  BY <1>1
  DEF Part, Aim, Arg, SectorOf, Sending, Sound, At, Data, Win, Addressing,
      Filing, Searching, Checking, Behind, Vbr
<1>7. ReadInv' /\ SearchInv' /\ SkipInv'
  <2>1. ReadInv'
    BY <1>1, <1>6 DEF IInv, ReadInv, Progress, Begun, Moved, At, Data
  <2>2. SearchInv' BY <1>1, <1>6 DEF IInv, SearchInv, At, Data, Win
  <2>3. SkipInv' BY <1>1, <1>6 DEF IInv, SkipInv, Win
  <2> QED BY <2>1, <2>2, <2>3
<1>8. QuietInv' /\ AddrInv'
  BY <1>1, <1>6 DEF IInv, QuietInv, AddrInv, AtRest, Ready, Handed
<1>9. UbInv'
  BY <1>1 DEF IInv, UbInv, Progress, UbBuf, Moved, At, Data, Sending
<1> QED BY <1>3, <1>4, <1>5, <1>6, <1>7, <1>8, <1>9 DEF IInv

LEMMA InitIInv == Init => IInv
<1> SUFFICES ASSUME Init PROVE IInv OBVIOUS
<1>1. /\ pc = "main" /\ at = "off" /\ eng = NoTransfer
      /\ dat_int_status = {} /\ drv_status = "NOINIT" /\ card_type = {}
      /\ layout \in Layouts /\ part = 0
      /\ kind \in {"V1", "V2", "HC"} /\ next = 0 /\ multi = FALSE
      /\ rd = NoRead /\ done = 0 /\ cmd_no = 1 /\ faults \in Nat
      /\ other = [a \in Other |-> Junk] /\ up = "off" /\ req = NoRequest
      /\ result = "none" /\ clean = FALSE
  BY BootAssumption DEF Init, BootInit, LoadInit
<1>2. NoTransfer \in [on : BOOLEAN, buf : Nat, left : Nat, watch : BOOLEAN]
      /\ Top \in Nat
  BY LoadAssumption DEF NoTransfer, Win
<1>3. BootType
  <2>1. CardType BY <1>1 DEF CardType
  <2>2. EngType BY <1>1, <1>2 DEF EngType, Statuses, Other
  <2>3. Len(Startup) = 10 BY DEF Startup
  <2>4. DrvType BY <1>1, <2>3, NoReadRecord DEF DrvType
  <2>5. UbType BY <1>1 DEF UbType, NoRequest
  <2>6. VolType
    <3>1. layout.parts \in Nat BY <1>1, BootAssumption
    <3> QED BY <1>1, <3>1 DEF VolType
  <2> QED BY <2>1, <2>2, <2>4, <2>5, <2>6 DEF BootType
<1>4. EngInv BY <1>1 DEF EngInv, NoTransfer
<1>5. PcInv /\ ReadInv /\ SearchInv /\ SkipInv
  BY <1>1
  DEF PcInv, ReadInv, SearchInv, SkipInv, Filing, Searching, Reads
<1>6. QuietInv
  BY <1>1 DEF QuietInv, AtRest, Ready, Handed, Filing, Reads
<1>7. AddrInv BY <1>1 DEF AddrInv, Filing, Reads
<1>8. UbInv BY <1>1 DEF UbInv
<1> QED BY <1>3, <1>4, <1>5, <1>6, <1>7, <1>8 DEF IInv
-----------------------------------------------------------------------------
(* Each step is one of ElfLoad, or leaves the loader's variables alone.    *)

\* Where download's own steps say how.
LEMMA FileLoads ==
  ASSUME IInv, LInv, FileStep
  PROVE  LoadNext \/ UNCHANGED loadVars
<1>2. CASE FirstHeader BY <1>2 DEF FirstHeader
<1>3. CASE NextHeader BY <1>3 DEF NextHeader, LoadNext
<1>4. CASE ChunkBegin BY <1>4 DEF ChunkBegin, LoadNext
<1>5. CASE ChunkMore BY <1>5 DEF ChunkMore
<1>6. CASE ChunkEnd
  <2>1. ChunkRead /\ done = rd.count /\ Moved(rd.buf, rd.sector, done)
        /\ rd.rest = 0
    <3>1. ChunkRead
      BY <1>6 DEF ChunkEnd, IInv, PcInv, SearchRead, FirstRead, Reads
    <3>2. Filing BY <1>6, <3>1, FileReads DEF ChunkEnd, Reads
    <3> QED BY <1>6, <3>1, <3>2 DEF ChunkEnd, IInv, ReadInv
  <2>2. /\ rd.buf \in Nat /\ rd.sector \in Nat /\ rd.count \in Nat \ {0}
        /\ rd.rest \in Nat
    <3>1. rd.count > 0 BY <2>1 DEF ChunkRead
    <3> QED BY <3>1, ReadFields DEF IInv, BootType, DrvType
  <2>3. /\ base \in Nat /\ MemAddr <= base /\ size \in Nat \ {0}
        /\ base + size <= Top /\ Got \in Int /\ Got <= size
        /\ pos \in Nat /\ s.off \in Nat
    BY <2>1, ChunkPlace DEF ChunkRead, InChunk
  <2>4. /\ FileSector \in Nat /\ Top \in Nat /\ MemAddr \in Nat
    BY BootAssumption, LoadAssumption
  <2>5. PICK m \in Nat : m = rd.buf - base
    BY <2>1, <2>2, <2>3 DEF ChunkRead
  <2>6. Moved(base, ChunkStart, m + rd.count)
    <3>1. ChunkStart \in Nat BY <2>3, <2>4 DEF ChunkStart
    <3>2. Moved(base, ChunkStart, m) /\ rd.sector = ChunkStart + m
          /\ rd.buf = base + m
      BY <2>1, <2>2, <2>3, <2>5 DEF ChunkRead
    <3> QED BY <2>1, <2>2, <2>3, <3>1, <3>2, Joins
  <2>7. m + rd.count = Got /\ Got > 0
    BY <2>1, <2>2, <2>3, <2>5 DEF ChunkRead
  <2>8. ASSUME NEW a \in base .. base + Got - 1
        PROVE  mem[a] = s.off + pos + (a - base)
    <3>1. a - base \in 0 .. Got - 1 /\ base + (a - base) = a BY <2>3, <2>7
    <3>2. At(a) = Data(ChunkStart + (a - base))
      BY <2>6, <2>7, <3>1 DEF Moved
    <3>3. a \notin Other BY <2>3, <2>4 DEF Other
    <3> QED BY <2>3, <2>4, <3>1, <3>2, <3>3 DEF At, Data, ChunkStart
  <2>9. mem \in [Memory -> Values] BY DEF LInv, TypeOK
  <2>10. Fill(Got, LAMBDA a : s.off + pos + (a - base))
    BY <1>6, <2>8, <2>9 DEF Fill, ChunkEnd
  <2> QED BY <1>6, <2>7, <2>10 DEF ChunkEnd, ReadDone, LoadNext
<1>7. CASE EndOfFile BY <1>7 DEF EndOfFile, ReadFails, LoadNext
<1>8. CASE Clear BY <1>8 DEF Clear, LoadNext
<1>9. CASE Start BY <1>9 DEF Start, LoadNext
<1> QED
  BY <1>2, <1>3, <1>4, <1>5, <1>6, <1>7, <1>8, <1>9 DEF FileStep

\* A block the engine writes to the loader's memory is one of the chunk.
LEMMA BlockLoads ==
  ASSUME IInv, LInv, Block
  PROVE  LoadNext \/ UNCHANGED loadVars
<1>1. /\ eng.on /\ eng.buf \in Nat /\ eng.left \in Nat \ {0} /\ next \in Nat
      /\ UNCHANGED <<image, alt_mem, at, seg, pos>>
  BY BlockEng DEF Block
<1>2. CASE eng.buf >= Top /\ eng.buf + eng.left <= Top + 3
  <2>1. eng.buf \in Other BY <1>1, <1>2, LoadAssumption DEF Other
  <2>2. mem' = mem BY <2>1 DEF Block, Store
  <2> QED BY <1>1, <2>2 DEF loadVars
<1>3. CASE /\ at \in {"read", "failed"} /\ InChunk
           /\ base <= eng.buf /\ eng.buf + eng.left <= base + size
  <2>1. /\ base \in Nat /\ size \in Nat /\ base + size <= Top
        /\ Top \in Nat /\ FileSector \in Nat
    BY <1>3, ChunkPlace, LoadAssumption, BootAssumption DEF InChunk
  <2>2. eng.buf \notin Other BY <1>1, <1>3, <2>1 DEF Other
  <2>3. mem' = [mem EXCEPT ![eng.buf] = Data(next)]
    BY <2>2 DEF Block, Store
  <2>4. Data(next) \in Int BY <1>1, <2>1 DEF Data
  <2>5. mem \in [Memory -> Values] BY DEF LInv, TypeOK
  <2>6. mem' \in [Memory -> Int \cup {Zero, Own, Junk}]
    BY <2>3, <2>4, <2>5 DEF Values
  <2>7. eng.buf \in base .. base + size - 1 BY <1>1, <1>3, <2>1
  <2>8. \A a \in Memory \ (base .. base + size - 1) : mem'[a] = mem[a]
    BY <2>3, <2>5, <2>7
  <2> QED BY <1>1, <1>3, <2>6, <2>8 DEF Scribble, InChunk, LoadNext
<1> QED BY <1>1, <1>2, <1>3 DEF IInv, EngInv

\* An error of the driver is one of f_read.
LEMMA ErrorLoads ==
  ASSUME IInv, DiskError \/ at' = at,
         UNCHANGED <<image, mem, alt_mem, seg, pos>>
  PROVE  LoadNext \/ UNCHANGED loadVars
<1>1. CASE at \in {"load", "read"} /\ at' = "failed"
  BY <1>1 DEF ReadFails, LoadNext
<1>2. CASE at' = at BY <1>2 DEF loadVars
<1>3. DiskError => at' = at \/ (at \in {"load", "read"} /\ at' = "failed")
  BY DEF DiskError
<1> QED BY <1>1, <1>2, <1>3

LEMMA StepLoads ==
  ASSUME IInv, LInv, [Next]_allVars
  PROVE  [LoadNext]_loadVars
<1>1. CASE StartStep
  BY <1>1
  DEF StartStep, Reset, StartupCmd, StartupOpCond, StartupDone, Mount, Again
<1>2. CASE ReadCmd \/ ReadAnswer \/ ReadData \/ ReadStop \/ Refuse
  <2>1. (DiskError \/ at' = at) /\ UNCHANGED <<image, mem, alt_mem, seg, pos>>
    BY <1>2 DEF ReadCmd, ReadAnswer, ReadData, ReadStop, Refuse, loadVars
  <2> QED BY <2>1, ErrorLoads
<1>9. CASE ReadTable \/ NextPartition \/ FileOpen
  BY <1>9 DEF ReadTable, NextPartition, FileOpen, LoadNext
<1>3. CASE FileStep BY <1>3, FileLoads
<1>4. CASE Block BY <1>4, BlockLoads
<1>5. CASE LossStep
  BY <1>5 DEF LossStep, BadBlock, Mute, DataTimeout, Unheeded
<1>6. CASE Uboot
  BY <1>6, UbootFrame DEF loadVars
<1>7. CASE SystemReset BY <1>7 DEF SystemReset, LoadNext
<1>8. CASE UNCHANGED allVars BY <1>8 DEF allVars, vars
<1> QED
  BY <1>1, <1>2, <1>3, <1>4, <1>5, <1>6, <1>7, <1>8, <1>9
  DEF Next, Driver, Engine, StartStep, FileStep, LossStep

LEMMA Inductive ==
  IInv /\ LInv /\ [Next]_allVars => (IInv /\ LInv)'
<1> SUFFICES ASSUME IInv, LInv, [Next]_allVars PROVE IInv' /\ LInv'
  OBVIOUS
<1>1. LInv' BY StepLoads, LInductive
<1>2. ASSUME Driver, UNCHANGED ubVars PROVE IInv'
  <2>1. CASE StartStep \/ LookStep \/ FileStep
    BY <1>2, <2>1, StartSafe, LookSafe, FileSafe
  <2>2. CASE ReadCmd \/ ReadStop BY <1>2, <2>2, ReadCmdSafe, ReadStopSafe
  <2>3. CASE ReadAnswer
    <3>1. Filing \/ Searching BY <2>3 DEF ReadAnswer, Filing, Reads
    <3> QED BY <1>2, <2>3, <3>1, FileAnswerSafe, SearchAnswerSafe
  <2>4. CASE ReadData
    <3>1. Filing \/ Searching BY <2>4 DEF ReadData, Filing, Reads
    <3> QED BY <1>2, <2>4, <3>1, FileDataSafe, SearchDataSafe
  <2> QED
    BY <1>2, <2>1, <2>2, <2>3, <2>4 DEF Driver, StartStep, LookStep, FileStep
<1>3. ASSUME Engine, UNCHANGED ubVars PROVE IInv'
  BY <1>3, BlockSafe, LossSafe DEF Engine, LossStep
<1>4. ASSUME Uboot PROVE IInv'
  BY <1>4, ProbeSafe, IdentifySafe, ReadFinishSafe, StopSafe, ReadSafe
  DEF Uboot
<1>5. ASSUME SystemReset, up' = "off", req' = NoRequest, result' = "none",
             clean' = FALSE
      PROVE  IInv'
  BY <1>5, ResetSafe
<1>6. CASE UNCHANGED allVars BY <1>1, <1>6, SameSafe
<1> QED BY <1>1, <1>2, <1>3, <1>4, <1>5, <1>6 DEF Next

LEMMA Always == Spec => [](IInv /\ LInv)
<1>1. Init => IInv /\ LInv BY InitIInv, InitLInv DEF Init, BootInit
<1> QED BY <1>1, Inductive, PTL DEF Spec

-----------------------------------------------------------------------------
\* The boot ROM with its driver, its card, every transfer and every error,
\* loads as ElfLoad says: what f_read returned of a chunk of bootrom.c is in
\* memory, in however many pieces and parts it came in, and no transfer that a
\* failed attempt left behind writes anywhere but to the chunk it was for.
THEOREM DriverLoads == Spec => Loads
<1>1. Init => LoadInit BY DEF Init, BootInit
<1>2. IInv /\ LInv /\ [Next]_allVars => [LoadNext]_loadVars BY StepLoads
<1> QED BY <1>1, <1>2, Always, PTL DEF Spec, Loads, LoadSpec

\* So the program gets its segments and the boot ROM keeps its memory, with
\* the driver under the file system too.
THEOREM BootedProgram == Spec => [](Loaded /\ OwnKept)
BY Always, PTL DEF LInv

\* A read that disk_read of diskio.c or sdc.c of u-boot calls good has the
\* sectors it asked for in its buffer: whatever the kind of card, the number of
\* blocks, and what went wrong before on the wires or in an earlier boot.  So it
\* is for every block of the program.  In the search for the file the window may
\* hold another sector, but only when the read met a transfer that an earlier
\* one left behind (find_volume of ff.c reads on after an error), or when the
\* spoilt answer to an ACMD41 made the driver count in the wrong unit.
THEOREM GoodReads == Spec => []ReadOk
<1>1. IInv /\ LInv => ReadOk
  <2> SUFFICES ASSUME IInv, LInv PROVE ReadOk OBVIOUS
  <2>1. ASSUME pc = "done"
        PROVE  Holds(rd, rd.buf) \/ (rd.buf = Win /\ (rd.late \/ ~Addressing))
    <3>1. CASE Filing
      BY <2>1, <3>1 DEF IInv, ReadInv, Holds, Moved
    <3>2. CASE Searching
      <4>1. rd.buf = Win /\ rd.count = 1
        BY <2>1, <3>2, SearchFacts DEF Searching, SearchRead
      <4>2. ~rd.late /\ Addressing => Sound
        BY <2>1, <3>2 DEF IInv, SearchInv
      <4>3. Sound => Holds(rd, rd.buf)
        <5>1. rd.sector \in Nat /\ Win \in Nat
          BY ReadFields, LoadAssumption DEF IInv, BootType, DrvType, Win
        <5> QED BY <4>1, <5>1 DEF Sound, Holds
      <4> QED BY <4>1, <4>2, <4>3
    <3> QED BY <2>1, <3>1, <3>2 DEF Filing, Reads
  <2>2. up = "idle" /\ result = "ok" /\ clean => Holds(req, UbBuf)
    BY DEF IInv, UbInv, Holds, Moved
  <2> QED BY <2>1, <2>2 DEF ReadOk
<1> QED BY <1>1, Always, PTL

\* At the jump the controller has no transfer left that would write over the
\* program, nor has it after a read of u-boot, whatever became of its data.
THEOREM QuietHandover == Spec => []Settled
<1>1. IInv => Settled
  BY DEF IInv, QuietInv, UbInv, AtRest, Ready, Handed, Settled
<1> QED BY <1>1, Always, PTL
=============================================================================
