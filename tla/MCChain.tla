------------------------------ MODULE MCChain ------------------------------
(***************************************************************************)
(* ChainScheduler on chains of two and three units: three for the links on *)
(* both sides of a unit, a hardware slot at either end of two.             *)
(***************************************************************************)
EXTENDS ChainScheduler

MCLayouts == {<<"wasm", "wasm", "silent">>, <<"wasm", "wasm", "wasm">>,
              <<"hardware", "wasm">>, <<"wasm", "hardware">>}
MCLinks == {<<"wasm", "wasm">>}

=============================================================================
