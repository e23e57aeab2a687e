---------------------------- MODULE MCSpiFlash ----------------------------
(***************************************************************************)
(* Two pages of two bytes of one bit, blank or written. A page, a part of    *)
(* one, both ends of two, and requests that reach past the end or are longer *)
(* than a page.                                                              *)
(***************************************************************************)
EXTENDS SpiFlash

MCImages == {Blank, [c \in Cells |-> IF c = 1 THEN Bits ELSE {}]}
Ask(k, a, l) == [kind |-> k, addr |-> a, len |-> l]
MCRequests ==
  {Ask("write", 0, 2), Ask("write", 1, 2), Ask("write", 0, 3),
   Ask("read", 1, 2), Ask("read", 3, 2), Ask("erase", 0, 0), Ask("clear", 0, 0)}
=============================================================================
