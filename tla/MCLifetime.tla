----------------------------- MODULE MCLifetime ------------------------------
(* A unit that is plugged in twice, whose second interface is the one to use,
   so that the first is looked at and released. *)
EXTENDS InterfaceLife

TwoInterfaces == <<1, 0>>
=============================================================================
