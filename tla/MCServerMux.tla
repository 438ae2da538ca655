----------------------------- MODULE MCServerMux -----------------------------
(* Two goroutines, the trace entry, two middleware of each layer, one      *)
(* handler, lists of at most two middleware.                               *)
EXTENDS ServerMux

CONSTANTS w1, w2, m1, m2, p1, p2, hA

MCWorkers == {w1, w2}
MCSigs == {"traces"}
MCMuxMWs == {m1, m2}
MCSigMWs == {p1, p2}
MCHandlers == {hA}
=============================================================================
