------------------------------ MODULE MCRadio ------------------------------
(***************************************************************************)
(* Two frequencies in different filter bands, one that is refused and one   *)
(* explicit tuning; the sample rate set or not, the receive gain good or    *)
(* bad, so that a start can fail before and after the amplifier step.       *)
(***************************************************************************)
EXTENDS RadioInv

MCExplicit == {"e"}
MCBand == [a |-> "LOW", b |-> "MID", x |-> "none", e |-> "LOW"]
MCSettable ==
  {<<"rate", "r">>, <<"rate", Unset>>, <<"lna", "g">>, <<"lna", Bad>>}
  \cup ({"freq"} \X {"a", "b", "x", "e"}) \cup ({"amp", "ant"} \X BOOLEAN)
MCConfigs ==
  {[rate |-> r, freq |-> f, filter |-> Unset, amp |-> p, lna |-> g, vga |-> Unset,
    txvga |-> Unset, ant |-> t] :
     r \in {Unset, "r"}, f \in {"a", "x"}, p \in BOOLEAN, g \in {"g", Bad}, t \in BOOLEAN}
=============================================================================
