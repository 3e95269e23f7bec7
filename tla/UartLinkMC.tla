----------------------------- MODULE UartLinkMC -----------------------------
(***************************************************************************)
(* Bytes of three bits for UartLink: neighbours in Data differ, so that a  *)
(* lost, doubled or swapped one shows, and each bit is 0 in one byte and 1 *)
(* in another.                                                             *)
(***************************************************************************)
EXTENDS UartLink

Of(b0, b1, b2) == [i \in 0 .. 2 |-> <<b0, b1, b2>>[i + 1]]

MCData == <<Of(1, 0, 0), Of(0, 1, 0)>>
MCUrgent == {Of(1, 0, 1), Of(0, 1, 1)}
=============================================================================
