------------------------------ MODULE MCRelay -------------------------------
(* What the people of one conversation may write.                          *)
EXTENDS Relay, TLC

CONSTANTS d1, t1, note

AgentContents == {<<>>, <<"text">>, <<"bad">>, <<"file", "unnamed">>, <<"file", "big">>}
CustomerContents == {<<"text">>, <<"file">>, <<"big">>}

=============================================================================
