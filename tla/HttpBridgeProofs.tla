--------------------------- MODULE HttpBridgeProofs --------------------------
(***************************************************************************)
(* Proofs about the proxy handler model HttpBridge, for every set of       *)
(* status codes a handler may return.  The argument: until ServeHTTP's    *)
(* request is answered, nothing has been written and the handler has not  *)
(* run (Fresh), and each answering step writes one reply onto that fresh  *)
(* writer, which the lemmas below compute.  The reply is the one section  *)
(* 4.3 prescribes on every path but one: a JSON body whose decode error    *)
(* is not UTF-8 gets 200 and {} (ReplyFollowsContract fails there, as the *)
(* run proxy_json_decode_detail_lost shows).                               *)
(***************************************************************************)
EXTENDS HttpBridge, TLAPS

\* Nothing is written and the handler has not been called yet.
Fresh == rw = EmptyWriter /\ handlerCalls = 0 /\ outcome = NoOutcome

\* The fields of a writer a reply is read from.
Sent(w) == [status |-> w.status, sentCT |-> w.sentCT, body |-> w.body]

\* The one path where the code leaves the contract: serveHTTPWithJSON's
\* decode failure whose error text is not UTF-8, so that WithDetails
\* returns a nil status (proxy.go:162-165).
DetailLost ==
    /\ req.method = "POST" /\ req.ctype = JSONCT
    /\ req.readOK /\ ~req.decodeOK /\ ~req.errUTF8

\* What errorJSON(w, nil) sends: 200 and the encoding of an empty status.
LostReply == Reply(200, JSONCT, <<[ct |-> JSONCT, code |-> "OK"]>>)

\* The reply the code sends: the contract's, except on that path.
CodedReply == IF DetailLost THEN LostReply ELSE Expected

\* Once ServeHTTP returns, a reply was sent and it is CodedReply.
ReplyAsCoded == pc = "done" => rw.wrote /\ Sent(rw) = CodedReply

\* The inductive strengthening of ReplyAsCoded and HandlerCalledIffDecoded.
IInv ==
    /\ TypeOK
    /\ pc # "done" => Fresh
    /\ pc = "proto" => req.method = "POST" /\ req.ctype = ProtoCT
    /\ pc = "json" => req.method = "POST" /\ req.ctype = JSONCT
    /\ ReplyAsCoded
    /\ HandlerCalledIffDecoded

\* Serve with the codec's error writer applied: errorProto and errorJSON are
\* WriteStatus in their codec, and dst is the code a decode failure reaches it
\* with.
ServeWith(ct, dst) ==
    /\ pc' = "done"
    /\ \/ /\ ~req.readOK
          /\ rw' = WriteStatus(rw, ct, "InvalidArgument", TRUE)
          /\ UNCHANGED <<outcome, handlerCalls>>
       \/ /\ req.readOK /\ ~req.decodeOK
          /\ rw' = WriteStatus(rw, ct, dst, TRUE)
          /\ UNCHANGED <<outcome, handlerCalls>>
       \/ /\ req.readOK /\ req.decodeOK
          /\ handlerCalls' = handlerCalls + 1
          /\ \E o \in Outcomes :
                /\ outcome' = o
                /\ rw' = CASE o.kind = "status"           -> WriteStatus(rw, ct, o.code, o.utf8)
                           [] o.kind = "plain"            -> WriteStatus(rw, ct, "Internal", o.utf8)
                           [] o.kind = "ok" /\ ~o.respOK  -> WriteStatus(rw, ct, "Internal", TRUE)
                           [] OTHER                       -> WriteResponse(rw, ct)
    /\ UNCHANGED req

-----------------------------------------------------------------------------
(* What the writer helpers leave on a fresh ResponseWriter.               *)

\* The code's status table (grpcCodeToHTTPStatus) is the specification's.
LEMMA StatusTablesAgree ==
    \A c \in GrpcCodes : SpecStatus[c] = GrpcCodeToHTTPStatus(c)
BY DEF SpecStatus, GrpcCodeToHTTPStatus, GrpcCodes

\* http.Error on a fresh writer sends the code with a plain-text body.
LEMMA HTTPErrorFresh ==
    ASSUME NEW code
    PROVE  /\ HTTPError(EmptyWriter, code).wrote
           /\ HTTPError(EmptyWriter, code).whCalls \in Nat
           /\ Sent(HTTPError(EmptyWriter, code)) = Reply(code, TextCT, <<"text">>)
BY DEF HTTPError, EmptyWriter, SetCT, WriteHeader, Write, Sent, Reply

\* The success path on a fresh writer sends 200 and the response.
LEMMA ResponseFresh ==
    ASSUME NEW ct
    PROVE  /\ WriteResponse(EmptyWriter, ct).wrote
           /\ WriteResponse(EmptyWriter, ct).whCalls \in Nat
           /\ Sent(WriteResponse(EmptyWriter, ct)) = Reply(200, ct, <<"resp">>)
BY DEF WriteResponse, EmptyWriter, SetCT, WriteHeader, Write, Sent, Reply

\* errorProto/errorJSON on a fresh writer send the mapped status, encoded
\* in the codec when it marshals, else the http.Error fallback (the
\* second WriteHeader is ignored and the nil bytes add nothing).
LEMMA StatusFresh ==
    ASSUME NEW ct, NEW code \in GrpcCodes, NEW enc \in BOOLEAN
    PROVE  /\ WriteStatus(EmptyWriter, ct, code, enc).wrote
           /\ WriteStatus(EmptyWriter, ct, code, enc).whCalls \in Nat
           /\ Sent(WriteStatus(EmptyWriter, ct, code, enc))
                = IF enc
                  THEN Reply(SpecStatus[code], ct, <<[ct |-> ct, code |-> code]>>)
                  ELSE Reply(SpecStatus[code], TextCT, <<"text">>)
<1> DEFINE st == GrpcCodeToHTTPStatus(code)
<1>1. SpecStatus[code] = st
  BY StatusTablesAgree
<1>2. CASE enc
  BY <1>1, <1>2 DEF WriteStatus, EmptyWriter, SetCT, WriteHeader, Write,
     Sent, Reply
<1>3. CASE ~enc
  <2>1. /\ HTTPError(EmptyWriter, st).wrote
        /\ HTTPError(EmptyWriter, st).whCalls \in Nat
        /\ Sent(HTTPError(EmptyWriter, st)) = Reply(st, TextCT, <<"text">>)
    BY HTTPErrorFresh
  <2>2. QED
    BY <1>1, <1>3, <2>1 DEF WriteStatus, SetCT, WriteHeader, Write, Sent, Reply
<1>4. QED
  BY <1>2, <1>3


-----------------------------------------------------------------------------
\* The request as received: nothing written, handler not called.
LEMMA InitIInv == Init => IInv
BY DEF Init, IInv, Fresh, TypeOK, ReplyAsCoded, HandlerCalledIffDecoded,
   EmptyWriter

\* A step that answers the request: it leaves a written reply equal to the
\* one the code sends and the right count of handler calls.
Answers ==
    /\ pc' = "done" /\ req' \in Requests
    /\ outcome' \in Outcomes \cup {NoOutcome} /\ handlerCalls' \in Nat
    /\ rw'.wrote = TRUE /\ rw'.whCalls \in Nat
    /\ Sent(rw') = CodedReply'
    /\ handlerCalls' = 1 <=> /\ req'.method = "POST"
                             /\ req'.ctype \in {ProtoCT, JSONCT}
                             /\ req'.readOK /\ req'.decodeOK
    /\ handlerCalls' <= 1

\* Such a step re-establishes the invariant.
LEMMA DoneIInv == Answers => IInv'
<1> SUFFICES ASSUME Answers PROVE IInv'
    OBVIOUS
<1>1. TypeOK'
  BY Zenon DEF Answers, TypeOK
<1>2. ReplyAsCoded'
  BY DEF Answers, ReplyAsCoded
<1>3. HandlerCalledIffDecoded'
  BY DEF Answers, HandlerCalledIffDecoded
<1>4. QED
  BY <1>1, <1>2, <1>3 DEF Answers, IInv

\* Off the lost-detail path the code's reply is the contract's.
LEMMA ContractPath == ~DetailLost' => CodedReply' = Expected'
BY DEF CodedReply

\* ServeHTTP: 405, 415, or hand over to the codec's function.
LEMMA ServeHTTPIInv == IInv /\ ServeHTTP => IInv'
<1> SUFFICES ASSUME IInv, ServeHTTP PROVE IInv'
    OBVIOUS
<1>1. pc = "serve" /\ Fresh /\ TypeOK /\ UNCHANGED <<req, outcome, handlerCalls>>
  BY DEF ServeHTTP, IInv
<1>2. CASE req.method # "POST" /\ rw' = HTTPError(rw, 405) /\ pc' = "done"
  <2>1. Expected' = Reply(405, TextCT, <<"text">>) /\ ~DetailLost'
    BY <1>1, <1>2 DEF Expected, DetailLost
  <2>2. /\ rw'.wrote /\ rw'.whCalls \in Nat
        /\ Sent(rw') = Reply(405, TextCT, <<"text">>)
    BY <1>1, <1>2, HTTPErrorFresh DEF Fresh
  <2>3. Answers
    BY <1>1, <1>2, <2>1, <2>2, ContractPath DEF Answers, Fresh, TypeOK
  <2>4. QED
    BY <2>3, DoneIInv
<1>3. CASE req.method = "POST" /\ req.ctype \notin {ProtoCT, JSONCT}
           /\ rw' = HTTPError(rw, 415) /\ pc' = "done"
  <2>1. Expected' = Reply(415, TextCT, <<"text">>) /\ ~DetailLost'
    BY <1>1, <1>3 DEF Expected, DetailLost
  <2>2. /\ rw'.wrote /\ rw'.whCalls \in Nat
        /\ Sent(rw') = Reply(415, TextCT, <<"text">>)
    BY <1>1, <1>3, HTTPErrorFresh DEF Fresh
  <2>3. Answers
    BY <1>1, <1>3, <2>1, <2>2, ContractPath DEF Answers, Fresh, TypeOK
  <2>4. QED
    BY <2>3, DoneIInv
<1>4. CASE req.method = "POST" /\ req.ctype \in {ProtoCT, JSONCT}
           /\ pc' = (IF req.ctype = ProtoCT THEN "proto" ELSE "json")
           /\ UNCHANGED rw
  <2>1. pc' \in {"proto", "json"} /\ Fresh'
    BY <1>1, <1>4 DEF Fresh
  <2>2. pc' = "proto" => req'.ctype = ProtoCT
    BY <1>1, <1>4
  <2>3. pc' = "json" => req'.ctype = JSONCT
    BY <1>1, <1>4 DEF ProtoCT, JSONCT
  <2>4. TypeOK'
    BY <1>1, <2>1 DEF TypeOK, Fresh, EmptyWriter
  <2>5. QED
    BY <1>1, <1>4, <2>1, <2>2, <2>3, <2>4
       DEF IInv, ReplyAsCoded, HandlerCalledIffDecoded
<1>5. QED
  BY <1>2, <1>3, <1>4 DEF ServeHTTP

\* A failure before the handler is called writes one status on the fresh
\* writer and leaves the handler uncalled.
LEMMA EarlyStatusIInv ==
    ASSUME NEW ct \in {ProtoCT, JSONCT}, NEW code \in GrpcCodes,
           IInv, req.ctype = ct, req.method = "POST", pc' = "done",
           UNCHANGED <<req, outcome, handlerCalls>>, Fresh,
           ~(req.readOK /\ req.decodeOK),
           rw' = WriteStatus(EmptyWriter, ct, code, TRUE),
           CodedReply' = Reply(SpecStatus[code], ct, <<[ct |-> ct, code |-> code]>>)
    PROVE  IInv'
<1>1. /\ rw'.wrote /\ rw'.whCalls \in Nat
      /\ Sent(rw') = Reply(SpecStatus[code], ct, <<[ct |-> ct, code |-> code]>>)
  <2>1. /\ WriteStatus(EmptyWriter, ct, code, TRUE).wrote
        /\ WriteStatus(EmptyWriter, ct, code, TRUE).whCalls \in Nat
        /\ Sent(WriteStatus(EmptyWriter, ct, code, TRUE))
             = Reply(SpecStatus[code], ct, <<[ct |-> ct, code |-> code]>>)
    BY Zenon, StatusFresh
  <2>2. QED
    BY Zenon, <2>1
<1>2. req \in Requests /\ handlerCalls' = 0 /\ outcome' = NoOutcome
  BY DEF Fresh, IInv, TypeOK
<1>3. handlerCalls' = 1 <=> (/\ req'.method = "POST"
                             /\ req'.ctype \in {ProtoCT, JSONCT}
                             /\ req'.readOK /\ req'.decodeOK)
  BY <1>2
<1>4. handlerCalls' \in Nat /\ handlerCalls' <= 1
  BY <1>2
<1>5. req' \in Requests /\ outcome' \in Outcomes \cup {NoOutcome}
  BY <1>2
<1>6. Answers
  BY Zenon, <1>1, <1>3, <1>4, <1>5 DEF Answers
<1>7. QED
  BY <1>6, DoneIInv

\* serveHTTPWithProto / serveHTTPWithJSON, with ct the request's codec, the
\* error writer errorProto / errorJSON, which writes a status in ct, and dst
\* the code that reaches it on a decode failure.
LEMMA ServeIInv ==
    ASSUME HttpBridgeAssumption, NEW ct \in {ProtoCT, JSONCT}, IInv, pc \in {"proto", "json"},
           req.ctype = ct,
           ServeWith(ct, IF ct = ProtoCT THEN ProtoDecodeStatus ELSE JSONDecodeStatus)
    PROVE  IInv'
<1> DEFINE dst == IF ct = ProtoCT THEN ProtoDecodeStatus ELSE JSONDecodeStatus
<1>1. Fresh /\ TypeOK /\ req.method = "POST" /\ req' = req /\ pc' = "done"
  BY DEF ServeWith, IInv
<1>2. /\ "InvalidArgument" \in GrpcCodes /\ "Internal" \in GrpcCodes
      /\ "OK" \in GrpcCodes
  BY DEF GrpcCodes
<1>3. req \in Requests
  BY <1>1 DEF TypeOK
\* io.ReadAll fails: InvalidArgument, whose detail is the reader's error.
<1>4. CASE ~req.readOK
  <2>1. rw' = WriteStatus(EmptyWriter, ct, "InvalidArgument", TRUE)
        /\ UNCHANGED <<outcome, handlerCalls>>
    BY Zenon, <1>1, <1>4 DEF ServeWith, Fresh
  <2>2. Expected' = Reply(SpecStatus["InvalidArgument"], ct,
                          <<[ct |-> ct, code |-> "InvalidArgument"]>>)
        /\ ~DetailLost'
    BY <1>1, <1>4, <2>1 DEF Expected, StatusReply, DetailLost
  <2>3. QED
    BY <1>1, <1>2, <1>4, <2>1, <2>2, ContractPath, EarlyStatusIInv
\* The body does not decode and the status keeps its detail: InvalidArgument.
<1>5. CASE req.readOK /\ ~req.decodeOK /\ dst = "InvalidArgument"
  <2>1. rw' = WriteStatus(EmptyWriter, ct, "InvalidArgument", TRUE)
        /\ UNCHANGED <<outcome, handlerCalls>>
    BY Zenon, <1>1, <1>5 DEF ServeWith, Fresh
  <2>2. ~DetailLost'
    BY <1>1, <1>5 DEF DetailLost, JSONDecodeStatus, ProtoDecodeStatus,
       ProtoCT, JSONCT
  <2>3. Expected' = Reply(SpecStatus["InvalidArgument"], ct,
                          <<[ct |-> ct, code |-> "InvalidArgument"]>>)
    BY <1>1, <1>5, <2>1 DEF Expected, StatusReply
  <2>4. QED
    BY <1>1, <1>2, <1>5, <2>1, <2>2, <2>3, ContractPath, EarlyStatusIInv
\* The JSON decode error is not UTF-8: WithDetails fails, errorJSON(w, nil)
\* sends 200 and {}.
<1>6. CASE req.readOK /\ ~req.decodeOK /\ dst # "InvalidArgument"
  <2>1. ct = JSONCT /\ ~req.errUTF8 /\ dst = "OK"
    BY <1>6 DEF JSONDecodeStatus, ProtoDecodeStatus
  <2>2. rw' = WriteStatus(EmptyWriter, ct, "OK", TRUE)
        /\ UNCHANGED <<outcome, handlerCalls>>
    BY Zenon, <1>1, <1>6, <2>1 DEF ServeWith, Fresh
  <2>3. DetailLost'
    BY <1>1, <1>6, <2>1 DEF DetailLost
  <2>4. SpecStatus["OK"] = 200
    BY DEF SpecStatus, GrpcCodes
  <2>5. CodedReply' = Reply(SpecStatus["OK"], ct, <<[ct |-> ct, code |-> "OK"]>>)
    BY <2>1, <2>3, <2>4 DEF CodedReply, LostReply
  <2>6. QED
    BY <1>1, <1>2, <1>6, <2>2, <2>5, EarlyStatusIInv
\* The handler is called once with the decoded request.
<1>7. CASE req.readOK /\ req.decodeOK
  <2>1. PICK o \in Outcomes :
          /\ outcome' = o
          /\ handlerCalls' = handlerCalls + 1
          /\ rw' = CASE o.kind = "status"           -> WriteStatus(rw, ct, o.code, o.utf8)
                     [] o.kind = "plain"            -> WriteStatus(rw, ct, "Internal", o.utf8)
                     [] o.kind = "ok" /\ ~o.respOK  -> WriteStatus(rw, ct, "Internal", TRUE)
                     [] OTHER                       -> WriteResponse(rw, ct)
    BY Zenon, <1>7 DEF ServeWith
  <2>2. /\ o.kind \in {"ok", "status", "plain"} /\ o.code \in GrpcCodes
        /\ o.utf8 \in BOOLEAN /\ o.respOK \in BOOLEAN
    BY DEF Outcomes, HttpBridgeAssumption
  <2>3. handlerCalls' = 1 /\ handlerCalls' \in Nat /\ outcome' \in Outcomes
    BY <1>1, <2>1 DEF Fresh
  <2>0. ~DetailLost'
    BY <1>1, <1>7 DEF DetailLost
  <2>4. CASE o.kind = "status"
    <3>1. rw' = WriteStatus(EmptyWriter, ct, o.code, o.utf8)
      BY <1>1, <2>1, <2>4 DEF Fresh
    <3>2. Expected' = IF o.utf8
                      THEN Reply(SpecStatus[o.code], ct, <<[ct |-> ct, code |-> o.code]>>)
                      ELSE Reply(SpecStatus[o.code], TextCT, <<"text">>)
      BY <1>1, <1>7, <2>1, <2>4 DEF Expected, StatusReply
    <3>3. Sent(rw') = CodedReply' /\ rw'.wrote /\ rw'.whCalls \in Nat
      BY <2>0, <2>2, <3>1, <3>2, StatusFresh, ContractPath
    <3>4. Answers
      BY <1>1, <1>3, <1>7, <2>3, <3>3 DEF Answers
    <3>5. QED
      BY <3>4, DoneIInv
  <2>5. CASE o.kind = "plain"
    <3>1. rw' = WriteStatus(EmptyWriter, ct, "Internal", o.utf8)
      BY <1>1, <2>1, <2>5 DEF Fresh
    <3>2. Expected' = IF o.utf8
                      THEN Reply(SpecStatus["Internal"], ct, <<[ct |-> ct, code |-> "Internal"]>>)
                      ELSE Reply(SpecStatus["Internal"], TextCT, <<"text">>)
      BY <1>1, <1>7, <2>1, <2>5 DEF Expected, StatusReply
    <3>3. Sent(rw') = CodedReply' /\ rw'.wrote /\ rw'.whCalls \in Nat
      BY <1>2, <2>0, <2>2, <3>1, <3>2, StatusFresh, ContractPath
    <3>4. Answers
      BY <1>1, <1>3, <1>7, <2>3, <3>3 DEF Answers
    <3>5. QED
      BY <3>4, DoneIInv
  <2>6. CASE o.kind = "ok" /\ ~o.respOK
    <3>1. rw' = WriteStatus(EmptyWriter, ct, "Internal", TRUE)
      BY <1>1, <2>1, <2>6 DEF Fresh
    <3>2. Expected' = Reply(SpecStatus["Internal"], ct, <<[ct |-> ct, code |-> "Internal"]>>)
      BY <1>1, <1>7, <2>1, <2>6 DEF Expected, StatusReply
    <3>3. Sent(rw') = CodedReply' /\ rw'.wrote /\ rw'.whCalls \in Nat
      <4>1. /\ WriteStatus(EmptyWriter, ct, "Internal", TRUE).wrote
            /\ WriteStatus(EmptyWriter, ct, "Internal", TRUE).whCalls \in Nat
            /\ Sent(WriteStatus(EmptyWriter, ct, "Internal", TRUE))
                 = Reply(SpecStatus["Internal"], ct,
                         <<[ct |-> ct, code |-> "Internal"]>>)
        BY Zenon, <1>2, StatusFresh
      <4>2. CodedReply' = Expected'
        BY <2>0, ContractPath
      <4>3. QED
        BY Zenon, <3>1, <3>2, <4>1, <4>2
    <3>4. Answers
      BY <1>1, <1>3, <1>7, <2>3, <3>3 DEF Answers
    <3>5. QED
      BY <3>4, DoneIInv
  <2>7. CASE o.kind = "ok" /\ o.respOK
    <3>1. rw' = WriteResponse(EmptyWriter, ct)
      BY <1>1, <2>1, <2>7 DEF Fresh
    <3>2. Expected' = Reply(200, ct, <<"resp">>)
      \* Every guard before OTHER is false for an accepted, decoded request
      \* whose handler returned a response that marshals.
      <4>1. /\ req'.method = "POST" /\ req'.ctype = ct
            /\ req'.readOK /\ req'.decodeOK
            /\ outcome'.kind = "ok" /\ outcome'.respOK
        BY <1>1, <1>7, <2>1, <2>7
      <4>2. ct \in {ProtoCT, JSONCT}
        OBVIOUS
      <4>3. QED
        BY ONLY <4>1, <4>2 DEF Expected
    <3>3. Sent(rw') = CodedReply' /\ rw'.wrote /\ rw'.whCalls \in Nat
      BY <2>0, <3>1, <3>2, ResponseFresh, ContractPath
    <3>4. Answers
      BY <1>1, <1>3, <1>7, <2>3, <3>3 DEF Answers
    <3>5. QED
      BY <3>4, DoneIInv
  <2>8. QED
    BY <2>2, <2>4, <2>5, <2>6, <2>7
<1>8. QED
  BY <1>4, <1>5, <1>6, <1>7

\* Every step preserves the invariant.
LEMMA NextIInv ==
    ASSUME HttpBridgeAssumption
    PROVE  IInv /\ [Next]_vars => IInv'
<1> SUFFICES ASSUME IInv, [Next]_vars PROVE IInv'
    OBVIOUS
<1>1. CASE ServeHTTP
  BY <1>1, ServeHTTPIInv
<1>2. CASE ServeHTTPWithProto
  <2>1. pc = "proto" /\ req.ctype = ProtoCT
    BY <1>2 DEF ServeHTTPWithProto, IInv
  <2>2. ServeWith(ProtoCT, ProtoDecodeStatus)
    BY <1>2 DEF ServeHTTPWithProto, Serve, ErrorProto, ServeWith
  <2>3. QED
    BY <2>1, <2>2, ServeIInv, HttpBridgeAssumption
<1>3. CASE ServeHTTPWithJSON
  <2>1. pc = "json" /\ req.ctype = JSONCT
    BY <1>3 DEF ServeHTTPWithJSON, IInv
  <2>2. ServeWith(JSONCT, JSONDecodeStatus)
    BY <1>3 DEF ServeHTTPWithJSON, Serve, ErrorJSON, ServeWith
  <2>3. JSONCT # ProtoCT
    BY DEF JSONCT, ProtoCT
  <2>4. QED
    BY <2>1, <2>2, <2>3, ServeIInv, HttpBridgeAssumption
<1>4. CASE UNCHANGED vars
  BY <1>4 DEF vars, IInv, Fresh, TypeOK, ReplyAsCoded, HandlerCalledIffDecoded,
     CodedReply, DetailLost, LostReply, Expected, StatusReply, Reply
<1>5. QED
  BY <1>1, <1>2, <1>3, <1>4 DEF Next

-----------------------------------------------------------------------------
(***************************************************************************)
(* Once ServeHTTP returns, the proxy handler has sent a reply, and it is   *)
(* the one section 4.3 prescribes for the request and the handler's       *)
(* result (405, 415, InvalidArgument, the handler's mapped status,        *)
(* Internal, or 200 with the response, with the plain-text fallback for a *)
(* status that does not encode) on every path of ServeHTTP,               *)
(* serveHTTPWithProto and serveHTTPWithJSON but one: a JSON body whose    *)
(* decode error is not UTF-8, which gets 200 and {} because WithDetails'  *)
(* error is dropped at proxy.go:162-165.  For every set of codes a        *)
(* handler may return that is not OK.                                       *)
(***************************************************************************)
THEOREM ReplyCorrect ==
    ASSUME HttpBridgeAssumption
    PROVE  Spec => []ReplyAsCoded
<1>1. IInv => ReplyAsCoded
  BY DEF IInv
<1>2. IInv /\ [Next]_vars => IInv'
  BY NextIInv
<1>3. QED
  BY <1>1, <1>2, InitIInv, PTL DEF Spec

(***************************************************************************)
(* The handler runs at most once, and exactly when the request was a POST  *)
(* of a supported Content-Type whose body read and decoded, for every set  *)
(* of codes a handler may return that is not OK.                            *)
(***************************************************************************)
THEOREM HandlerCallCorrect ==
    ASSUME HttpBridgeAssumption
    PROVE  Spec => []HandlerCalledIffDecoded
<1>1. IInv => HandlerCalledIffDecoded
  BY DEF IInv
<1>2. IInv /\ [Next]_vars => IInv'
  BY NextIInv
<1>3. QED
  BY <1>1, <1>2, InitIInv, PTL DEF Spec

=============================================================================
