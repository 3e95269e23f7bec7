----------------------------- MODULE UbootSdMC -----------------------------
(***************************************************************************)
(* Small files to boot from:  memory of eight blocks, the boot ROM's own in  *)
(* the first two, the last two set aside, chunks of three blocks.          *)
(***************************************************************************)
EXTENDS UbootSd

Ld(off, vaddr, filesz, memsz) ==
  [load |-> TRUE, off |-> off, vaddr |-> vaddr, filesz |-> filesz,
   memsz |-> memsz]

Note == [Ld(0, 0, 1, 1) EXCEPT !.load = FALSE]

\* A program over the boot ROM's memory whose first chunk is cut, with a note
\* and a second segment that is cleared in part.
Straddling == [segs |-> <<Ld(1, 0, 4, 4), Note, Ld(5, 4, 1, 2)>>, len |-> 6]

\* One that is cleared over the end of the boot ROM's memory, and one block
\* elsewhere; the file holds more than memory takes.
ClearedOver == [segs |-> <<Ld(1, 4, 2, 1), Ld(3, 0, 1, 4)>>, len |-> 4]

\* One that is clear of the boot ROM's memory, in a file that is too short.
Short == [segs |-> <<Ld(1, 2, 4, 4)>>, len |-> 4]

MCImages == {Straddling, ClearedOver, Short}

\* Cards as mkfs, fdisk and parted leave them: the FAT file system is the whole
\* card, or the second of three partitions.
Layout(scheme) == [scheme |-> scheme, parts |-> 3, fat |-> 2]

MCLayouts == {Layout("sfd"), Layout("mbr"), Layout("gpt")}

\* All three programs without partitions, one of them with.
SampleInit == Init /\ (layout.scheme = "sfd" \/ image = Straddling)

SampleSpec == SampleInit /\ [][Next]_allVars /\ Fairness
=============================================================================
