------------------------------- MODULE MCHdlc -------------------------------
(* Hdlc for TLC: packets of one to three bytes that are flags, escapes,     *)
(* control characters, or what those become, with checksums of the same.    *)
EXTENDS Hdlc

MCPackets == {<<126>>, <<125, 94>>, <<3, 93>>, <<254, 125, 3>>, <<65, 253>>}
MCFcs == [p \in MCPackets |-> CASE p = <<126>>    -> <<126, 125>>
                                [] p = <<125, 94>> -> <<65, 255>>
                                [] p = <<3, 93>>   -> <<94, 3>>
                                [] p = <<254, 125, 3>> -> <<125, 125>>
                                [] OTHER -> <<35, 254>>]
=============================================================================
