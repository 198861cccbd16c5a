---------------------------- MODULE MCLocalSide ----------------------------
EXTENDS LocalSide

Default ==
  [mac |-> "00", address |-> <<"dhcp">>, bridge |-> <<"server", "9000">>,
   upstream |-> "uart", uart |-> "uart0", discovery |-> FALSE]

MCBuilds == {Default, [Default EXCEPT !.upstream = "i2c", !.mac = "02"]}

\* Earlier firmware left 0xff where the record now says whether to discover.
MCOldSettings == {[Default EXCEPT !.discovery = "ff", !.mac = "02"]}

Static == <<"set", "static", "10.0.0.2/24", "10.0.0.1", "10.0.0.1">>

MCLines ==
  {<<"help">>, <<"start">>, <<"reset">>, <<"set", "discover">>,
   <<"set", "discovery", "off">>, <<"set", "upstream", "spiecho">>,
   Static \o <<"x", "x", "x", "x">>}

MCMagics == {<<1, 2>>, <<4, 2>>}

\* All short noises, and false headers that lead into the frames behind them.
MCNoises ==
  UNION {[1..n -> {0, 1, 2}] : n \in 0..2}
  \cup {<<1, 2, low, high>> : low \in {0, 2, 4, 5}, high \in 0..1}

Short == <<<<1, 2>>, <<>>>>
One == <<<<1, 2>>, <<0>>>>
Two == <<<<4, 2>>, <<2, 0>>>>

MCFrameLists ==
  {<<>>} \cup {<<f, Short, g>> : f \in {Short, One, Two}, g \in {One, Two}}

\* What the theorem about Resyncs supposes.
ASSUME MCFramesClear == MagicsApart /\ \A fs \in FrameLists : Clear(fs)

MCTexts ==
  [1..3 -> {"/", "x", "r", "n", "b"}]
  \cup {<<"/", "x", "x", "/", "n", "/">>, <<"r", "/", "r", "b", "/", "n">>,
        <<"/", "n", "/", "b", "n", "/">>, <<"x", "/", "n", "/", "x", "n">>}
=============================================================================
