------------------------------- MODULE MCBoard -------------------------------
(* A small instance of Board. *)
EXTENDS Board

\* every device on every kind of machine that it tells apart
MCBoards ==
  {<<"nc2000", "timers">>, <<"nc2000", "uart">>, <<"nc2000", "dsp">>, <<"nc3000", "dsp">>}
  \cup {<<m, "keypad">> : m \in {"pc1000", "nc1020", "nc3000"}}
  \cup {<<m, "banks">> : m \in Machines}

\* counters of two values, mode 0 to 3 with and without a prescaler of their own
MCFix == <<2, 3>>
MCControls == {<<0, 0, 0, 0>>, <<1, 0, 0, 0>>, <<1, 1, 0, 0>>, <<2, 0, 0, 0>>, <<3, 0, 0, 1>>}

\* two keys in one row, and two of those that are wired otherwise on the pc1000
MCKeys == {<<0, 0>>, <<0, 2>>, <<3, 1>>, <<3, 5>>}
MCSetups ==
  {<<0, FALSE, {0, 1, 2, 3}>>, <<5, TRUE, {0, 2, 3}>>, <<1, FALSE, {0}>>}
MCWritten0 == {{5}}
MCWritten1 == {{0, 3}, {6}}
MCDirections0 == {{}, {5, 7}, {4, 5, 6, 7}}
MCDirections1 == {{}, {1, 3, 6}}

\* baud selections in range and past it, 8N2 and an odd parity
MCBSR == {1, 61}
MCLCR == {3, 6}

\* the six words of a frame, sleep, transfer and its end, the modes, and a syllable
\* with its cut and its length
MCWords ==
  {<<16 * id, 0>> : id \in 0..5} \cup {<<128, 0>>, <<112, 4>>, <<255, 255>>}
  \cup {<<160, mode>> : mode \in {1, 2, 4}}
  \cup {<<194, 1>>, <<196, 1>>, <<200, 1>>, <<195, 0>>}

\* a NOR page that is there, one that is not, and the number past the NOR
MCBanks == {0, 1, 40, 128}
MCBbs == {0, 1, 2, 15}
MCVolumes == {0, 1, 2, 4}
MCZp == {0, 2, 7}
=============================================================================
