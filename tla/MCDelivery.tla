----------------------------- MODULE MCDelivery -----------------------------
(* Small instances of Delivery: a direct message channel and a group of three. *)
EXTENDS Delivery

CONSTANTS ann, bob, cas

MCOne == {ann}
MCOther == {bob}
MCPair == {ann, bob}
MCListeners == {bob, cas}
MCTrio == {ann, bob, cas}
=============================================================================
