--------------------------- MODULE ServerMuxProofs ---------------------------
(***************************************************************************)
(* Proofs about the ServerMux module, for every set of goroutines and      *)
(* signals, every set of middleware and handlers and every bound.          *)
(***************************************************************************)
EXTENDS ServerMux, TLAPS

\* The shared state of the multiplexer and its entries is well typed.
MuxTypeOK ==
    /\ entry \in [Sigs -> Nat]
    /\ created \in [Sigs -> Nat]
    /\ routed \in [Sigs -> Nat]
    /\ registered \in [Sigs -> Nat]
    /\ muxMW \in Seq(MuxMWs)
    /\ entMW \in [Sigs -> Seq(SigMWs)]
    /\ handler \in [Sigs -> Handlers \cup {NoHandler}]
    /\ ridx \in 0..4

\* Each goroutine's local state is well typed.
WorkerTypeOK ==
    /\ pc \in [Workers -> WorkerStates]
    /\ wsig \in [Workers -> Sigs]
    /\ wEnt \in [Workers -> Nat]
    /\ snapEnt \in [Workers -> Seq(SigMWs)]
    /\ snapH \in [Workers -> Handlers \cup {NoHandler}]
    /\ snapMux \in [Workers -> Seq(MuxMWs)]
    /\ transport \in [Workers -> {"none", "grpc", "http"}]
    /\ resp \in [Workers -> RespType]
    /\ entMoved \in [Workers -> BOOLEAN]
    /\ mixed \in [Workers -> BOOLEAN]

\* TypeOK is the two parts together, in the current and in the next state.
LEMMA TypeSplit ==
    /\ TypeOK <=> MuxTypeOK /\ WorkerTypeOK
    /\ TypeOK' <=> MuxTypeOK' /\ WorkerTypeOK'
BY DEF TypeOK, MuxTypeOK, WorkerTypeOK

\* The outcomes a dispatch records are responses.
LEMMA RespValues ==
    ASSUME NEW tr \in {"none", "grpc", "http"}
    PROVE  /\ [transport |-> tr, code |-> "Unimplemented", noHandler |-> TRUE] \in RespType
           /\ [transport |-> tr, code |-> "NotFound", noHandler |-> TRUE] \in RespType
           /\ [transport |-> tr, code |-> "OK", noHandler |-> FALSE] \in RespType
BY DEF RespType

\* The initial state is well typed.
LEMMA InitTypeOK == Init => TypeOK
BY ServerMuxAssumption DEF Init, TypeOK, NoResp, WorkerStates, RespType

\* Every step of every goroutine keeps the state well typed.
LEMMA NextTypeOK == TypeOK /\ [Next]_vars => TypeOK'
<1> SUFFICES ASSUME TypeOK, [Next]_vars 
      PROVE MuxTypeOK' /\ WorkerTypeOK'
    BY TypeSplit
<1>0. MuxTypeOK /\ WorkerTypeOK
    BY TypeSplit
<1> USE <1>0, RespValues DEF MuxTypeOK, WorkerTypeOK, WorkerStates, EntryTouched,
        MuxTouched
<1>1. ASSUME NEW w \in Workers, NEW m \in MuxMWs, MuxUse(w, m) 
      PROVE MuxTypeOK' /\ WorkerTypeOK'
  <2>1. MuxTypeOK'
    BY <1>1 DEF MuxUse
  <2>2. WorkerTypeOK'
    BY <1>1 DEF MuxUse
  <2>3. QED
    BY <2>1, <2>2
<1>2. ASSUME NEW w \in Workers, NEW s \in Sigs, TraceCall(w, s) 
      PROVE MuxTypeOK' /\ WorkerTypeOK'
  <2>1. MuxTypeOK'
    BY <1>2 DEF TraceCall
  <2>2. WorkerTypeOK'
    BY <1>2 DEF TraceCall
  <2>3. QED
    BY <2>1, <2>2
<1>3. ASSUME NEW w \in Workers, GetEntry(w) 
      PROVE MuxTypeOK' /\ WorkerTypeOK'
  <2>1. MuxTypeOK'
    BY <1>3 DEF GetEntry
  <2>2. WorkerTypeOK'
    <3>1. entry[wsig[w]] \in Nat
      OBVIOUS
    <3>2. QED
      BY <1>3, <3>1 DEF GetEntry
  <2>3. QED
    BY <2>1, <2>2
<1>4. ASSUME NEW w \in Workers, NewEntry(w) 
      PROVE MuxTypeOK' /\ WorkerTypeOK'
  <2>0. /\ wsig[w] \in Sigs
        /\ created[wsig[w]] + 1 \in Nat
        /\ routed[wsig[w]] \in Nat
        /\ entry[wsig[w]] \in Nat
    OBVIOUS
  <2>1. CASE entry[wsig[w]] = 0
    <3> DEFINE sg == wsig[w]
               id == created[sg] + 1
    <3>0. /\ entry' = [entry EXCEPT ![sg] = id]
          /\ created' = [created EXCEPT ![sg] = id]
          /\ entMW' = [entMW EXCEPT ![sg] = <<>>]
          /\ handler' = [handler EXCEPT ![sg] = NoHandler]
          /\ routed' = [routed EXCEPT ![sg] = IF @ = 0 THEN id ELSE @]
          /\ pc' = [pc EXCEPT ![w] = IF routed[sg] = 0 THEN "apply" ELSE "panicked"]
          /\ wEnt' = [wEnt EXCEPT ![w] = id]
          /\ UNCHANGED <<registered, muxMW, wsig, ridx, snapEnt, snapH, snapMux,
                         transport, resp, mixed>>
      BY <1>4, <2>1 DEF NewEntry
    <3>1. <<>> \in Seq(SigMWs)
      OBVIOUS
    <3>2. MuxTypeOK'
      BY <2>0, <3>0, <3>1
    <3>3. entMoved' \in [Workers -> BOOLEAN]
      BY <1>4, <2>1 DEF NewEntry
    <3>4. QED
      BY <2>0, <3>0, <3>2, <3>3
  <2>2. CASE entry[wsig[w]] # 0
    BY <1>4, <2>0, <2>2 DEF NewEntry
  <2>3. QED
    BY <2>1, <2>2
<1>5. ASSUME NEW w \in Workers, NEW m \in SigMWs, EntryUse(w, m) 
      PROVE MuxTypeOK' /\ WorkerTypeOK'
  <2>1. MuxTypeOK'
    <3>1. wsig[w] \in Sigs /\ Append(entMW[wsig[w]], m) \in Seq(SigMWs)
      OBVIOUS
    <3>2. CASE wEnt[w] = entry[wsig[w]]
      BY <1>5, <3>1, <3>2 DEF EntryUse
    <3>3. CASE wEnt[w] # entry[wsig[w]]
      BY <1>5, <3>3 DEF EntryUse
    <3>4. QED
      BY <3>2, <3>3
  <2>2. WorkerTypeOK'
    \* Either the entry's change marks the dispatches that snapshot it, or
    \* entMoved stays as it is.
    <3>1. entMoved' \in [Workers -> BOOLEAN]
      <4>1. CASE wEnt[w] = entry[wsig[w]]
        BY <1>5, <4>1 DEF EntryUse
      <4>2. CASE wEnt[w] # entry[wsig[w]]
        BY <1>5, <4>2 DEF EntryUse
      <4>3. QED
        BY <4>1, <4>2
    <3>2. /\ pc' = [pc EXCEPT ![w] = "idle"]
          /\ UNCHANGED <<wsig, wEnt, snapEnt, snapH, snapMux, transport, resp,
                         mixed>>
      BY <1>5 DEF EntryUse
    <3>3. QED
      BY <3>1, <3>2
  <2>3. QED
    BY <2>1, <2>2
<1>6. ASSUME NEW w \in Workers, NEW h \in Handlers, EntryHandle(w, h) 
      PROVE MuxTypeOK' /\ WorkerTypeOK'
  <2>1. MuxTypeOK'
    BY <1>6 DEF EntryHandle
  <2>2. WorkerTypeOK'
    \* Either the entry's change marks the dispatches that snapshot it, or
    \* entMoved stays as it is.
    <3>1. entMoved' \in [Workers -> BOOLEAN]
      <4>1. CASE wEnt[w] = entry[wsig[w]]
        BY <1>6, <4>1 DEF EntryHandle
      <4>2. CASE wEnt[w] # entry[wsig[w]]
        BY <1>6, <4>2 DEF EntryHandle
      <4>3. QED
        BY <4>1, <4>2
    <3>2. /\ pc' = [pc EXCEPT ![w] = "idle"]
          /\ UNCHANGED <<wsig, wEnt, snapEnt, snapH, snapMux, transport, resp,
                         mixed>>
      BY <1>6 DEF EntryHandle
    <3>3. QED
      BY <3>1, <3>2
  <2>3. QED
    BY <2>1, <2>2
<1>7. ASSUME NEW w \in Workers, RegisterCall(w) 
      PROVE MuxTypeOK' /\ WorkerTypeOK'
  <2>1. MuxTypeOK'
    BY <1>7 DEF RegisterCall
  <2>2. WorkerTypeOK'
    BY <1>7 DEF RegisterCall
  <2>3. QED
    BY <2>1, <2>2
<1>8. ASSUME NEW w \in Workers, RegisterStep(w) 
      PROVE MuxTypeOK' /\ WorkerTypeOK'
  <2>1. MuxTypeOK'
    <3>1. ridx \in 1..3 /\ ridx' = ridx + 1
      BY <1>8 DEF RegisterStep
    <3>2. registered' \in [Sigs -> Nat]
      BY <1>8, <3>1 DEF RegisterStep
    <3>3. UNCHANGED <<entry, created, routed, muxMW, entMW, handler>>
      BY <1>8 DEF RegisterStep
    <3>4. ridx' \in 0..4
      BY <3>1
    <3>5. QED
      BY ONLY <1>0, <3>2, <3>3, <3>4 DEF MuxTypeOK
  <2>2. WorkerTypeOK'
    BY <1>8 DEF RegisterStep
  <2>3. QED
    BY <2>1, <2>2
<1>9. ASSUME NEW w \in Workers, NEW s \in Sigs, GRPCRequest(w, s) 
      PROVE MuxTypeOK' /\ WorkerTypeOK'
  <2>1. MuxTypeOK'
    BY <1>9 DEF GRPCRequest
  <2>2. WorkerTypeOK'
    <3>1. resp' \in [Workers -> RespType]
      BY <1>9 DEF GRPCRequest
    <3>2. CASE registered[s] # 0
      <4>1. registered[s] \in Nat
        OBVIOUS
      <4>2. QED
        BY <1>9, <3>1, <3>2, <4>1 DEF GRPCRequest
    <3>3. CASE registered[s] = 0
      BY <1>9, <3>1, <3>3 DEF GRPCRequest
    <3>4. QED
      BY <3>2, <3>3
  <2>3. QED
    BY <2>1, <2>2
<1>10. ASSUME NEW w \in Workers, NEW s \in Sigs, HTTPRequest(w, s) 
      PROVE MuxTypeOK' /\ WorkerTypeOK'
  <2>1. MuxTypeOK'
    BY <1>10 DEF HTTPRequest
  <2>2. WorkerTypeOK'
    <3>1. resp' \in [Workers -> RespType]
      BY <1>10 DEF HTTPRequest
    <3>2. CASE routed[s] # 0
      <4>1. routed[s] \in Nat
        OBVIOUS
      <4>2. QED
        BY <1>10, <3>1, <3>2, <4>1 DEF HTTPRequest
    <3>3. CASE routed[s] = 0
      BY <1>10, <3>1, <3>3 DEF HTTPRequest
    <3>4. QED
      BY <3>2, <3>3
  <2>3. QED
    BY <2>1, <2>2
<1>11. ASSUME NEW w \in Workers, SnapHandler(w) 
      PROVE MuxTypeOK' /\ WorkerTypeOK'
  <2>1. MuxTypeOK'
    BY <1>11 DEF SnapHandler
  <2>2. WorkerTypeOK'
    <3>0. transport[w] \in {"none", "grpc", "http"}
      OBVIOUS
    <3>1. CASE handler[wsig[w]] = NoHandler
      <4>1. resp' \in [Workers -> RespType]
        BY <1>11, <3>0, <3>1 DEF SnapHandler
      <4>2. QED
        BY <1>11, <3>1, <4>1 DEF SnapHandler
    <3>2. CASE handler[wsig[w]] # NoHandler
      <4>0. entMW[wsig[w]] \in Seq(SigMWs) /\ handler[wsig[w]] \in Handlers
        BY <3>2
      <4>1. snapEnt' \in [Workers -> Seq(SigMWs)]
            /\ snapH' \in [Workers -> Handlers \cup {NoHandler}]
        BY <1>11, <3>2, <4>0 DEF SnapHandler
      <4>2. QED
        BY <1>11, <3>2, <4>1 DEF SnapHandler
    <3>3. QED
      BY <3>1, <3>2
  <2>3. QED
    BY <2>1, <2>2
<1>12. ASSUME NEW w \in Workers, SnapMux(w) 
      PROVE MuxTypeOK' /\ WorkerTypeOK'
  <2>1. MuxTypeOK'
    BY <1>12 DEF SnapMux
  <2>2. WorkerTypeOK'
    BY <1>12 DEF SnapMux
  <2>3. QED
    BY <2>1, <2>2
<1>13. ASSUME NEW w \in Workers, Invoke(w) 
      PROVE MuxTypeOK' /\ WorkerTypeOK'
  <2>1. MuxTypeOK'
    BY <1>13 DEF Invoke
  <2>2. WorkerTypeOK'
    <3>1. resp' \in [Workers -> RespType]
      BY <1>13 DEF Invoke
    <3>2. pc' \in [Workers -> WorkerStates]
      BY <1>13 DEF Invoke
    <3>3. QED
      BY <1>13, <3>1, <3>2 DEF Invoke
  <2>3. QED
    BY <2>1, <2>2
<1>14. CASE UNCHANGED vars
  BY <1>14 DEF vars
<1>15. QED
  <2> HIDE DEF MuxTypeOK, WorkerTypeOK
  <2> QED
  BY <1>1, <1>2, <1>3, <1>4, <1>5, <1>6, <1>7, <1>8, <1>9, <1>10, <1>11, <1>12, <1>13, <1>14 DEF Next

(***************************************************************************)
(* Type correctness of the multiplexer: entry ids, routes and gRPC         *)
(* registrations, both middleware lists, handlers, Register's loop index   *)
(* and every dispatch's snapshots and response stay in their domains.     *)
(***************************************************************************)
THEOREM TypeCorrect == Spec => []TypeOK
BY InitTypeOK, NextTypeOK, PTL DEF Spec

=============================================================================
