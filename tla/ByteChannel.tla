---------------------------- MODULE ByteChannel ----------------------------
(***************************************************************************)
(* What a serial link promises to the software at its two ends: bytes come *)
(* out once each and in the order they went in.  An urgent byte (XON or    *)
(* XOFF) may enter ahead of others, but none is lost or changed for it.    *)
(***************************************************************************)
EXTENDS Naturals, Sequences

CONSTANTS
  Data,    \* the bytes that are put, in this order, over and over
  Urgent

VARIABLES
  chan,  \* the bytes on their way, the oldest first
  next,  \* the place in Data of the byte to be put next
  got    \* changes with each byte that is taken

bvars == <<chan, next, got>>

BInit == chan = <<>> /\ next = 1 /\ got \in BOOLEAN

\* One clock: a byte may be taken, one put, and an urgent one squeeze in.
BNext ==
  \E take \in BOOLEAN, put \in BOOLEAN, ahead \in {<<>>} \cup {<<u>> : u \in Urgent} :
    /\ take => chan # <<>>
    /\ got' = IF take THEN ~got ELSE got
    /\ next' = IF put THEN (next % Len(Data)) + 1 ELSE next
    /\ LET left == IF take THEN Tail(chan) ELSE chan
       IN \E k \in 0 .. Len(left) :
            chan' = SubSeq(left, 1, k) \o ahead \o SubSeq(left, k + 1, Len(left))
                      \o (IF put THEN <<Data[next]>> ELSE <<>>)

BSpec == BInit /\ [][BNext]_bvars
=============================================================================
