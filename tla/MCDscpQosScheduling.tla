------------------------ MODULE MCDscpQosScheduling ------------------------
(* Bearers for the instances of DscpQosScheduling: the default bearer, and *)
(* a conversational GBR bearer whose rates come from the core.             *)
EXTENDS DscpQosScheduling

Default == {[five_qi |-> 9, gbr |-> NoRates]}
Voice == {[five_qi |-> 1, gbr |-> [gbr |-> 1000000, mbr |-> 2000000]]}
=============================================================================
