------------------------------ MODULE GrpcCodes ------------------------------
(***************************************************************************)
(* The gRPC status codes, and the map from a code to the HTTP status the   *)
(* proxy handler answers with (grpcCodeToHTTPStatus, src/otlp/proxy.go;    *)
(* the same function is in src/unnamed/part_003).  A code is named by its *)
(* identifier in google.golang.org/grpc/codes; "Code17" stands for a value *)
(* outside the seventeen named ones, which codes.Code (a uint32) allows.  *)
(***************************************************************************)

GrpcCodes ==
    {"OK", "Canceled", "Unknown", "InvalidArgument", "DeadlineExceeded",
     "NotFound", "AlreadyExists", "PermissionDenied", "ResourceExhausted",
     "FailedPrecondition", "Aborted", "OutOfRange", "Unimplemented",
     "Internal", "Unavailable", "DataLoss", "Unauthenticated", "Code17"}

\* grpcCodeToHTTPStatus: one arm per case of the switch, default 500.
GrpcCodeToHTTPStatus(code) ==
    CASE code = "OK"                 -> 200
      [] code = "Canceled"           -> 408
      [] code = "Unknown"            -> 500
      [] code = "InvalidArgument"    -> 400
      [] code = "DeadlineExceeded"   -> 504
      [] code = "NotFound"           -> 404
      [] code = "AlreadyExists"      -> 409
      [] code = "PermissionDenied"   -> 403
      [] code = "ResourceExhausted"  -> 429
      [] code = "FailedPrecondition" -> 412
      [] code = "Aborted"            -> 409
      [] code = "OutOfRange"         -> 400
      [] code = "Unimplemented"      -> 501
      [] code = "Internal"           -> 500
      [] code = "Unavailable"        -> 503
      [] code = "DataLoss"           -> 500
      [] code = "Unauthenticated"    -> 401
      [] OTHER                       -> 500

=============================================================================
