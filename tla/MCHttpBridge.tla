---------------------------- MODULE MCHttpBridge ----------------------------
(* The proxy handler with every status code a handler can return.          *)
EXTENDS HttpBridge

MCHandlerCodes == GrpcCodes \ {"OK"}

=============================================================================
