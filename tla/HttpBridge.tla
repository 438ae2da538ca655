------------------------------ MODULE HttpBridge ------------------------------
(***************************************************************************)
(* The OTLP/HTTP proxy handler of package otlp (src/otlp/proxy.go; the     *)
(* newer copy in src/unnamed/part_003 differs only in logging): one HTTP   *)
(* request served by proxyHandler.ServeHTTP, which checks the method and   *)
(* the Content-Type and hands the request to serveHTTPWithProto or         *)
(* serveHTTPWithJSON.  Each of those reads the body, decodes it, calls the *)
(* handler, encodes the answer and writes it, or writes an error status    *)
(* through errorProto / errorJSON.                                         *)
(*                                                                         *)
(* Each function runs start to end in one step: a request is served by one *)
(* goroutine and the handler holds no state of its own, so only the       *)
(* outcome of every fallible call matters.  Those outcomes are chosen      *)
(* nondeterministically: the request body may fail to read or to decode,  *)
(* protojson's decode error may quote bytes that are not UTF-8 (the        *)
(* ErrorInfo detail then fails to marshal), the handler may answer,        *)
(* return a status error or a plain error, a status message may hold      *)
(* invalid UTF-8 (proto.Marshal and protojson.Marshal then fail), and the *)
(* response may fail to encode.                                            *)
(*                                                                         *)
(* The http.ResponseWriter is modelled by what net/http does with it: the  *)
(* header map, whether the header was sent and with which status and      *)
(* Content-Type, the body written, and the count of WriteHeader calls (a   *)
(* call after the first is ignored and logged as superfluous).             *)
(***************************************************************************)
EXTENDS Naturals, Sequences, GrpcCodes

CONSTANT
    HandlerCodes    \* the codes a handler's status error may carry

\* A handler's status error carries a code other than OK (status.FromError
\* of an OK status is no error).  The theorems of HttpBridgeProofs take it as
\* their hypothesis; MCHttpBridge's HandlerCodes satisfies it.
HttpBridgeAssumption == HandlerCodes \subseteq GrpcCodes \ {"OK"}

ProtoCT == "application/x-protobuf"
JSONCT  == "application/json"
TextCT  == "text/plain; charset=utf-8"

\* The requests a client can send: the method, the Content-Type, whether
\* io.ReadAll of the body succeeds, whether the bytes decode, and whether
\* the text of protojson.Unmarshal's error, which quotes the offending
\* input, is valid UTF-8.
Requests ==
    [method : {"POST", "GET"}, ctype : {ProtoCT, JSONCT, "text/csv"},
     readOK : BOOLEAN, decodeOK : BOOLEAN, errUTF8 : BOOLEAN]

\* What the handler returns: a response, an error carrying a gRPC status,
\* or a plain error; whether the status message (the handler's message, or
\* err.Error() for a plain error) is valid UTF-8, and whether the response
\* encodes.
Outcomes ==
    [kind : {"ok", "status", "plain"}, code : HandlerCodes,
     utf8 : BOOLEAN, respOK : BOOLEAN]

NoOutcome == [kind |-> "none"]

VARIABLES
    req,            \* the request being served
    pc,             \* "serve", "proto", "json" or "done"
    outcome,        \* what the handler returned, once it was called
    handlerCalls,   \* how many times h.handler was called
    rw              \* the http.ResponseWriter

vars == <<req, pc, outcome, handlerCalls, rw>>

-----------------------------------------------------------------------------
(* The ResponseWriter, as net/http's response implements it.               *)

EmptyWriter ==
    [hdr |-> "none", wrote |-> FALSE, status |-> 0, sentCT |-> "none",
     body |-> <<>>, whCalls |-> 0]

\* w.Header().Set("Content-Type", ct): has no effect on a sent header.
SetCT(w, ct) == [w EXCEPT !.hdr = ct]

\* w.WriteHeader(code): the first call sends the header; later ones are
\* ignored ("superfluous response.WriteHeader call").
WriteHeader(w, code) ==
    IF w.wrote THEN [w EXCEPT !.whCalls = @ + 1]
    ELSE [w EXCEPT !.wrote = TRUE, !.status = code, !.sentCT = w.hdr,
                   !.whCalls = @ + 1]

\* w.Write(bs): sends the header with 200 first if it was not sent, then
\* appends bs (<<>> for the nil bytes of a failed Marshal).
Write(w, bs) ==
    LET w1 == IF w.wrote THEN w ELSE WriteHeader(w, 200)
    IN  [w1 EXCEPT !.body = @ \o bs]

\* http.Error(w, text, code): plain-text Content-Type, header, then text.
HTTPError(w, code) == Write(WriteHeader(SetCT(w, TextCT), code), <<"text">>)

-----------------------------------------------------------------------------
(* errorProto and errorJSON.  An encoded status is the record of the codec *)
(* and the code; when the status does not marshal, http.Error writes the   *)
(* fallback and the function goes on to set the header, call WriteHeader   *)
(* again and write the nil bytes (there is no return after http.Error).    *)

WriteStatus(w, ct, code, encodes) ==
    LET st == GrpcCodeToHTTPStatus(code)
        w1 == IF encodes THEN w ELSE HTTPError(w, st)
    IN  Write(WriteHeader(SetCT(w1, ct), st),
              IF encodes THEN <<[ct |-> ct, code |-> code]>> ELSE <<>>)

ErrorProto(w, code, encodes) == WriteStatus(w, ProtoCT, code, encodes)

ErrorJSON(w, code, encodes) == WriteStatus(w, JSONCT, code, encodes)

\* The success path: set the Content-Type, WriteHeader(200), copy the buffer.
WriteResponse(w, ct) == Write(WriteHeader(SetCT(w, ct), 200), <<"resp">>)

-----------------------------------------------------------------------------
Init ==
    /\ req \in Requests
    /\ pc = "serve"
    /\ outcome = NoOutcome
    /\ handlerCalls = 0
    /\ rw = EmptyWriter

\* proxyHandler.ServeHTTP: 405 for a method other than POST, then dispatch
\* on Content-Type, 415 for anything but protobuf or JSON.
ServeHTTP ==
    /\ pc = "serve"
    /\ \/ /\ req.method # "POST"
          /\ rw' = HTTPError(rw, 405)
          /\ pc' = "done"
       \/ /\ req.method = "POST"
          /\ req.ctype \notin {ProtoCT, JSONCT}
          /\ rw' = HTTPError(rw, 415)
          /\ pc' = "done"
       \/ /\ req.method = "POST"
          /\ req.ctype \in {ProtoCT, JSONCT}
          /\ pc' = IF req.ctype = ProtoCT THEN "proto" ELSE "json"
          /\ UNCHANGED rw
    /\ UNCHANGED <<req, outcome, handlerCalls>>

\* serveHTTPWithProto's decode failure: a status without details.
ProtoDecodeStatus == "InvalidArgument"

\* serveHTTPWithJSON's decode failure: st.WithDetails(ErrorInfo{Reason:
\* err.Error()}).  Marshalling the detail fails on invalid UTF-8, so
\* WithDetails returns nil and its error is dropped; errorJSON then gets a
\* nil *status.Status, whose code is OK and whose nil proto protojson
\* writes as {}, the encoding of a status with code OK and nothing else.
JSONDecodeStatus == IF req.errUTF8 THEN "InvalidArgument" ELSE "OK"

\* The body of serveHTTPWithProto and serveHTTPWithJSON, with Err the
\* codec's error writer, ct its Content-Type and decodeSt the code its
\* decode failure reaches Err with: read, decode, call the handler,
\* encode.  bytes.Buffer.Write never returns an error, so the "Unable to
\* write response" branch is dead and left out.
Serve(ct, Err(_, _, _), decodeSt) ==
    /\ pc' = "done"
    /\ \/ /\ ~req.readOK
          /\ rw' = Err(rw, "InvalidArgument", TRUE)
          /\ UNCHANGED <<outcome, handlerCalls>>
       \/ /\ req.readOK /\ ~req.decodeOK
          /\ rw' = Err(rw, decodeSt, TRUE)
          /\ UNCHANGED <<outcome, handlerCalls>>
       \/ /\ req.readOK /\ req.decodeOK
          /\ handlerCalls' = handlerCalls + 1
          /\ \E o \in Outcomes :
                /\ outcome' = o
                /\ rw' = CASE o.kind = "status"           -> Err(rw, o.code, o.utf8)
                           [] o.kind = "plain"            -> Err(rw, "Internal", o.utf8)
                           [] o.kind = "ok" /\ ~o.respOK  -> Err(rw, "Internal", TRUE)
                           [] OTHER                       -> WriteResponse(rw, ct)
    /\ UNCHANGED req

ServeHTTPWithProto == pc = "proto" /\ Serve(ProtoCT, ErrorProto, ProtoDecodeStatus)

ServeHTTPWithJSON == pc = "json" /\ Serve(JSONCT, ErrorJSON, JSONDecodeStatus)

Next == ServeHTTP \/ ServeHTTPWithProto \/ ServeHTTPWithJSON

Spec == Init /\ [][Next]_vars

-----------------------------------------------------------------------------
TypeOK ==
    /\ req \in Requests
    /\ pc \in {"serve", "proto", "json", "done"}
    /\ outcome \in Outcomes \cup {NoOutcome}
    /\ handlerCalls \in Nat
    /\ rw.wrote \in BOOLEAN /\ rw.whCalls \in Nat

-----------------------------------------------------------------------------
(* Properties.  The expected reply is computed from section 4.3 of the    *)
(* specification, with its own copy of the code-to-status table.           *)

SpecStatus ==
    [c \in GrpcCodes |->
        CASE c = "OK" -> 200 [] c = "Canceled" -> 408
          [] c \in {"InvalidArgument", "OutOfRange"} -> 400
          [] c = "DeadlineExceeded" -> 504 [] c = "NotFound" -> 404
          [] c \in {"AlreadyExists", "Aborted"} -> 409
          [] c = "PermissionDenied" -> 403 [] c = "ResourceExhausted" -> 429
          [] c = "FailedPrecondition" -> 412 [] c = "Unimplemented" -> 501
          [] c = "Unavailable" -> 503 [] c = "Unauthenticated" -> 401
          [] OTHER -> 500]

\* The reply the specification prescribes: status, Content-Type, body.
Reply(st, ct, body) == [status |-> st, sentCT |-> ct, body |-> body]

StatusReply(code, encodes) ==
    IF encodes
    THEN Reply(SpecStatus[code], req.ctype, <<[ct |-> req.ctype, code |-> code]>>)
    ELSE Reply(SpecStatus[code], TextCT, <<"text">>)

\* The arms are disjoint, in the order of ServeHTTP's early returns; OTHER
\* is a decoded request whose handler answered with an encodable response.
Expected ==
    LET accepted == req.method = "POST" /\ req.ctype \in {ProtoCT, JSONCT}
        decoded  == accepted /\ req.readOK /\ req.decodeOK
    IN  CASE req.method # "POST" -> Reply(405, TextCT, <<"text">>)
          [] req.method = "POST" /\ req.ctype \notin {ProtoCT, JSONCT}
                -> Reply(415, TextCT, <<"text">>)
          [] accepted /\ ~decoded -> StatusReply("InvalidArgument", TRUE)
          [] decoded /\ outcome.kind = "status" -> StatusReply(outcome.code, outcome.utf8)
          [] decoded /\ outcome.kind = "plain" -> StatusReply("Internal", outcome.utf8)
          [] decoded /\ outcome.kind = "ok" /\ ~outcome.respOK -> StatusReply("Internal", TRUE)
          [] OTHER -> Reply(200, req.ctype, <<"resp">>)

HandlerCalledIffDecoded ==
    pc = "done" =>
        (handlerCalls = 1 <=> /\ req.method = "POST" /\ req.ctype \in {ProtoCT, JSONCT}
                              /\ req.readOK /\ req.decodeOK)
        /\ handlerCalls <= 1

=============================================================================
