------------------------- MODULE ServerMuxEntryProofs -------------------------
(***************************************************************************)
(* Proof that the multiplexer's configuration always reaches the entry     *)
(* that serves requests (ConfigReachesLiveEntry), for every set of         *)
(* goroutines, signals, middleware and handlers and every bound.           *)
(***************************************************************************)
EXTENDS ServerMuxProofs

(***************************************************************************)
(* The inductive invariant.  ConfigReachesLiveEntry alone is not           *)
(* inductive: it needs that newTraceEntry creates at most one entry per    *)
(* signal and that this entry is the one httpMux routes to (so the        *)
(* pattern is never registered twice), that a goroutine about to apply a  *)
(* Use or Handle holds an entry that exists (so a later create cannot     *)
(* leave it behind), and that a dispatch past getHandler holds a non-nil  *)
(* handler (so Invoke does not panic).                                     *)
(***************************************************************************)
EntryIInv ==
    /\ TypeOK
    /\ ConfigReachesLiveEntry
    /\ \A s \in Sigs : routed[s] = entry[s] /\ created[s] = entry[s]
    /\ \A w \in Workers : pc[w] = "apply" => entry[wsig[w]] # 0
    /\ \A w \in Workers : pc[w] \in {"snap_mux", "invoke"} => snapH[w] # NoHandler

\* The invariant without TypeOK, which NextTypeOK carries.
EntryFacts ==
    /\ ConfigReachesLiveEntry
    /\ \A s \in Sigs : routed[s] = entry[s] /\ created[s] = entry[s]
    /\ \A w \in Workers : pc[w] = "apply" => entry[wsig[w]] # 0
    /\ \A w \in Workers : pc[w] \in {"snap_mux", "invoke"} => snapH[w] # NoHandler

-----------------------------------------------------------------------------
\* No entry, no route, no registration, every goroutine idle.
LEMMA InitEntryIInv == Init => EntryIInv
BY InitTypeOK DEF Init, EntryIInv, ConfigReachesLiveEntry

\* Every step of every goroutine keeps the invariant.
LEMMA NextEntryIInv == EntryIInv /\ [Next]_vars => EntryIInv'
<1> SUFFICES ASSUME EntryIInv, [Next]_vars PROVE EntryFacts'
    BY NextTypeOK DEF EntryIInv, EntryFacts
<1> USE DEF EntryIInv, TypeOK, EntryFacts, ConfigReachesLiveEntry
<1>1. ASSUME NEW w \in Workers, NEW m \in MuxMWs, MuxUse(w, m) PROVE EntryFacts'
  BY <1>1 DEF MuxUse
<1>2. ASSUME NEW w \in Workers, NEW s \in Sigs, TraceCall(w, s) PROVE EntryFacts'
  BY <1>2 DEF TraceCall
<1>3. ASSUME NEW w \in Workers, GetEntry(w) PROVE EntryFacts'
  <2>1. CASE entry[wsig[w]] # 0
    <3>1. /\ wEnt' = [wEnt EXCEPT ![w] = entry[wsig[w]]]
          /\ pc' = [pc EXCEPT ![w] = "apply"]
          /\ UNCHANGED <<entry, created, routed, registered, wsig, snapH>>
      BY <1>3, <2>1 DEF GetEntry
    <3>2. QED
      BY <2>1, <3>1
  <2>2. CASE entry[wsig[w]] = 0
    <3>1. /\ pc' = [pc EXCEPT ![w] = "create"]
          /\ UNCHANGED <<entry, created, routed, registered, wsig, wEnt, snapH>>
      BY <1>3, <2>2 DEF GetEntry
    <3>2. QED
      BY <3>1
  <2>3. QED
    BY <2>1, <2>2
\* The first Trace() of a signal creates the one entry and routes it; a
\* goroutine that lost the race to create takes the winner's entry.
<1>4. ASSUME NEW w \in Workers, NewEntry(w) PROVE EntryFacts'
  <2> DEFINE sg == wsig[w]
  <2>1. CASE entry[sg] = 0
    <3>1. routed[sg] = 0 /\ created[sg] = 0 /\ registered[sg] = 0
      BY <2>1
    <3>2. \A u \in Workers : pc[u] = "apply" => wsig[u] # sg
      BY <2>1
    <3>3. /\ entry' = [entry EXCEPT ![sg] = 1]
          /\ created' = [created EXCEPT ![sg] = 1]
          /\ routed' = [routed EXCEPT ![sg] = 1]
          /\ pc' = [pc EXCEPT ![w] = "apply"]
          /\ wEnt' = [wEnt EXCEPT ![w] = 1]
          /\ UNCHANGED <<registered, wsig, snapH>>
      BY <1>4, <2>1, <3>1 DEF NewEntry
    <3>4. QED
      BY <3>1, <3>2, <3>3
  <2>2. CASE entry[sg] # 0
    <3>1. /\ wEnt' = [wEnt EXCEPT ![w] = entry[sg]]
          /\ pc' = [pc EXCEPT ![w] = "apply"]
          /\ UNCHANGED <<entry, created, routed, registered, wsig, snapH>>
      BY <1>4, <2>2 DEF NewEntry
    <3>2. QED
      BY <2>2, <3>1
  <2>3. QED
    BY <2>1, <2>2
<1>5. ASSUME NEW w \in Workers, NEW m \in SigMWs, EntryUse(w, m) PROVE EntryFacts'
  BY <1>5 DEF EntryUse, EntryTouched
<1>6. ASSUME NEW w \in Workers, NEW h \in Handlers, EntryHandle(w, h) PROVE EntryFacts'
  BY <1>6 DEF EntryHandle, EntryTouched
<1>7. ASSUME NEW w \in Workers, RegisterCall(w) PROVE EntryFacts'
  BY <1>7 DEF RegisterCall
\* Register registers the entry that is mux.trace at that moment.
<1>8. ASSUME NEW w \in Workers, RegisterStep(w) PROVE EntryFacts'
  BY <1>8 DEF RegisterStep
<1>9. ASSUME NEW w \in Workers, NEW s \in Sigs, GRPCRequest(w, s) PROVE EntryFacts'
  <2>1. /\ pc[w] = "idle"
        /\ wsig' = [wsig EXCEPT ![w] = s]
        /\ UNCHANGED <<entry, created, routed, registered, snapH>>
    BY <1>9 DEF GRPCRequest
  <2>2. CASE registered[s] # 0
    <3>1. /\ pc' = [pc EXCEPT ![w] = "snap_handler"]
          /\ wEnt' = [wEnt EXCEPT ![w] = registered[s]]
      BY <1>9, <2>2 DEF GRPCRequest
    <3>2. QED
      BY <2>1, <3>1
  <2>3. CASE registered[s] = 0
    <3>1. UNCHANGED <<pc, wEnt>>
      BY <1>9, <2>3 DEF GRPCRequest
    <3>2. QED
      BY <2>1, <3>1
  <2>4. QED
    BY <2>2, <2>3
<1>10. ASSUME NEW w \in Workers, NEW s \in Sigs, HTTPRequest(w, s) PROVE EntryFacts'
  <2>1. /\ pc[w] = "idle"
        /\ wsig' = [wsig EXCEPT ![w] = s]
        /\ UNCHANGED <<entry, created, routed, registered, snapH>>
    BY <1>10 DEF HTTPRequest
  <2>2. CASE routed[s] # 0
    <3>1. /\ pc' = [pc EXCEPT ![w] = "snap_handler"]
          /\ wEnt' = [wEnt EXCEPT ![w] = routed[s]]
      BY <1>10, <2>2 DEF HTTPRequest
    <3>2. QED
      BY <2>1, <3>1
  <2>3. CASE routed[s] = 0
    <3>1. UNCHANGED <<pc, wEnt>>
      BY <1>10, <2>3 DEF HTTPRequest
    <3>2. QED
      BY <2>1, <3>1
  <2>4. QED
    BY <2>2, <2>3
\* getHandler goes on only with a non-nil handler.
<1>11. ASSUME NEW w \in Workers, SnapHandler(w) PROVE EntryFacts'
  <2>1. CASE handler[wsig[w]] = NoHandler
    <3>1. /\ pc' = [pc EXCEPT ![w] = "idle"]
          /\ UNCHANGED <<entry, created, routed, registered, wsig, wEnt, snapH>>
      BY <1>11, <2>1 DEF SnapHandler
    <3>2. QED
      BY <3>1
  <2>2. CASE handler[wsig[w]] # NoHandler
    <3>1. /\ pc' = [pc EXCEPT ![w] = "snap_mux"]
          /\ snapH' = [snapH EXCEPT ![w] = handler[wsig[w]]]
          /\ UNCHANGED <<entry, created, routed, registered, wsig, wEnt>>
      BY <1>11, <2>2 DEF SnapHandler
    <3>2. QED
      BY <2>2, <3>1
  <2>3. QED
    BY <2>1, <2>2
<1>12. ASSUME NEW w \in Workers, SnapMux(w) PROVE EntryFacts'
  BY <1>12 DEF SnapMux
\* The snapshot handler is not nil, so the call does not panic.
<1>13. ASSUME NEW w \in Workers, Invoke(w) PROVE EntryFacts'
  BY <1>13 DEF Invoke
<1>14. CASE UNCHANGED vars
  BY <1>14 DEF vars
<1>15. QED
  <2> HIDE DEF EntryIInv, TypeOK, EntryFacts, ConfigReachesLiveEntry
  <2> QED
  BY <1>1, <1>2, <1>3, <1>4, <1>5, <1>6, <1>7, <1>8, <1>9, <1>10, <1>11,
     <1>12, <1>13, <1>14 DEF Next

(***************************************************************************)
(* For every number of goroutines and signals: no goroutine ever panics   *)
(* registering /v1/<signal> twice or calling a nil handler, every Use and *)
(* Handle goes to the entry mux.trace holds, and httpMux and the gRPC     *)
(* server only ever route to that entry.  This is what the nil re-check   *)
(* under mux.mu in newTraceEntry (grpc.go:472) buys.                       *)
(***************************************************************************)
THEOREM LiveEntryCorrect == Spec => []ConfigReachesLiveEntry
<1>1. EntryIInv => ConfigReachesLiveEntry
  BY DEF EntryIInv
<1>2. QED
  BY <1>1, InitEntryIInv, NextEntryIInv, PTL DEF Spec

=============================================================================
