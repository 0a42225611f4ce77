------------------------------ MODULE MCMachine ------------------------------
(* Small instances of Machine. *)
EXTENDS Machine

\* a selection that runs and the one that stops the clock
MCCks == {3, 7}

\* an alarm on a second, and on an hour or not
MCRtc == {<<"as", 129>>, <<"ah", 129>>, <<"ah", 0>>}

MCRcr0 == {{"ALARM"}, {"ALARM", "2HZ"}}
=============================================================================
