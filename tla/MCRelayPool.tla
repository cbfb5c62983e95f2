----------------------------- MODULE MCRelayPool -----------------------------
(***************************************************************************)
(* An instance of RelayPoolTransport for TLC: a primary slot with two      *)
(* endpoints and a standby slot with one.                                  *)
(***************************************************************************)
EXTENDS RelayPoolTransport

SlotsMC == {0, 1}
EndpointsMC == [s \in SlotsMC |-> 2 - s]
=============================================================================
