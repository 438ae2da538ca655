------------------------------ MODULE MCClient ------------------------------
(* Instances of Client for TLC: two goroutines, traces and metrics sharing *)
(* one fingerprint, logs on a second one.                                   *)
EXTENDS Client

CONSTANTS t1, t2, h1, h2

MCThreads == {t1, t2}
MCHashes == {h1, h2}

\* traces and metrics over gRPC on one channel, logs over HTTP/JSON.
MixedProtocol == [s \in Signals |-> IF s = "logs" THEN "http/json" ELSE "grpc"]
\* All three signals over gRPC.
GRPCProtocol == [s \in Signals |-> "grpc"]

MCConnHash == [s \in Signals |-> IF s = "logs" THEN h2 ELSE h1]
=============================================================================
