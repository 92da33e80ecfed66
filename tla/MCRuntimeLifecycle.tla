------------------------- MODULE MCRuntimeLifecycle -------------------------
(* RuntimeLifecycle on two components, one of them critical and able to    *)
(* block in stop(), one starter and two stoppers.                          *)
EXTENDS RuntimeLifecycle, TLC

CONSTANTS platform, storage, main, signal, host

MCComps == {platform, storage}
MCCritical == {storage}
MCBlocking == {storage}
MCStarters == {main}
MCStoppers == {signal, host}
MCMaxCalls == (main :> 4) @@ (signal :> 1) @@ (host :> 1)
=============================================================================
