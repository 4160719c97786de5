-------------------------- MODULE MCDelegatorCalls --------------------------
(* Two calls for one intent: a submission and its retry, a submission and a *)
(* read, or two reads.                                                      *)
EXTENDS DelegatorCalls

MCAsks == {<<"submitIntent", "unsigned">>, <<"submitDelegatedIntent", "reader">>,
           <<"getIntent", "reader">>, <<"getAttestation", "reader">>,
           <<"getAttestation", "stranger">>}
=============================================================================
