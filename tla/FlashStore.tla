----------------------------- MODULE FlashStore -----------------------------
(***************************************************************************)
(* What the SPI flash requests promise: each takes effect at once, at most  *)
(* one time, and only with its own data. A write can only clear bits, and   *)
(* only in the cells it names; an erase sets them all; a protected flash is *)
(* changed by neither, until its status is cleared.                        *)
(***************************************************************************)
EXTENDS Integers, Sequences

CONSTANTS Bits, Cells, Requests

VARIABLES
  store, locked,
  call, data,   \* the request in progress, and the data that came for it
  done,         \* it has taken effect
  broken        \* nothing is promised of this request

vars == <<store, locked, call, data, done, broken>>

Init ==
  /\ store \in [Cells -> SUBSET Bits] /\ locked \in BOOLEAN
  /\ call \in Requests /\ data = <<>> /\ done = TRUE /\ broken = FALSE

Call ==
  /\ call' \in Requests /\ data' = <<>> /\ done' = FALSE
  /\ broken' = FALSE /\ UNCHANGED <<store, locked>>

Send ==
  /\ call.kind = "write" /\ data = <<>> /\ ~done
  /\ data' \in [1 .. call.len -> SUBSET Bits]
  /\ UNCHANGED <<store, locked, call, done, broken>>

Written == [c \in Cells |->
  IF c \in call.addr .. call.addr + call.len - 1 THEN store[c] \cap data[c - call.addr + 1] ELSE store[c]]

Effect ==
  /\ ~done /\ done' = TRUE
  /\ \/ call.kind = "write" /\ Len(data) = call.len /\ store' = IF locked THEN store ELSE Written
     \/ call.kind = "erase" /\ store' = IF locked THEN store ELSE [c \in Cells |-> Bits]
     \/ call.kind \in {"read", "clear"} /\ store' = store
  /\ locked' = (locked /\ call.kind # "clear")
  /\ UNCHANGED <<call, data, broken>>

Spec == Init /\ [][broken' \/ Call \/ Send \/ Effect]_vars
=============================================================================
