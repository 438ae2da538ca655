------------------------- MODULE ServerMuxRefinement -------------------------
(***************************************************************************)
(* Proof that the ServerMux implements AbstractMux under the mapping of    *)
(* ServerMux.tla, for every set of goroutines, signals, middleware and     *)
(* handlers and every bound.  It rests on EntryIInv of                     *)
(* ServerMuxEntryProofs and on one more fact, EmptyUntilCreated.           *)
(***************************************************************************)
EXTENDS ServerMuxEntryProofs

\* A signal without an entry has no middleware and no handler: Use and
\* Handle reach only an entry that exists.
EmptyUntilCreated ==
    \A s \in Sigs : entry[s] = 0 => entMW[s] = <<>> /\ handler[s] = NoHandler

\* The inductive invariant of the refinement.
RefIInv == EntryIInv /\ EmptyUntilCreated

\* A step that leaves the abstract configuration alone.
AbsStutter == UNCHANGED <<entry, entMW, handler, muxMW>>

\* The steps that change neither mux.trace, an entry's configuration nor
\* the cross-signal middleware.
LEMMA StutterSteps ==
    ASSUME NEW w \in Workers,
           \/ \E sg \in Sigs : TraceCall(w, sg) \/ GRPCRequest(w, sg) \/ HTTPRequest(w, sg)
           \/ GetEntry(w) \/ RegisterCall(w) \/ RegisterStep(w)
           \/ SnapHandler(w) \/ SnapMux(w) \/ Invoke(w)
    PROVE  AbsStutter
<1>1. ASSUME NEW sg \in Sigs, TraceCall(w, sg) PROVE AbsStutter
  BY <1>1 DEF TraceCall, AbsStutter
<1>2. ASSUME NEW sg \in Sigs, GRPCRequest(w, sg) PROVE AbsStutter
  BY <1>2 DEF GRPCRequest, AbsStutter
<1>3. ASSUME NEW sg \in Sigs, HTTPRequest(w, sg) PROVE AbsStutter
  BY <1>3 DEF HTTPRequest, AbsStutter
<1>4. GetEntry(w) => AbsStutter
  BY DEF GetEntry, AbsStutter
<1>5. RegisterCall(w) \/ RegisterStep(w) => AbsStutter
  BY DEF RegisterCall, RegisterStep, AbsStutter
<1>6. SnapHandler(w) => AbsStutter
  BY DEF SnapHandler, AbsStutter
<1>7. SnapMux(w) \/ Invoke(w) => AbsStutter
  BY DEF SnapMux, Invoke, AbsStutter
<1>8. QED
  BY <1>1, <1>2, <1>3, <1>4, <1>5, <1>6, <1>7

-----------------------------------------------------------------------------
LEMMA InitRefIInv == Init => RefIInv
BY InitEntryIInv DEF Init, RefIInv, EmptyUntilCreated

LEMMA NextRefIInv == RefIInv /\ [Next]_vars => RefIInv'
<1> SUFFICES ASSUME RefIInv, [Next]_vars PROVE RefIInv'
    OBVIOUS
<1>1. EntryIInv'
  BY NextEntryIInv DEF RefIInv
<1>2. EmptyUntilCreated'
  <2> USE DEF RefIInv, EmptyUntilCreated, EntryIInv, TypeOK
  \* Only a new entry, a Use and a Handle touch what EmptyUntilCreated reads.
  <2>1. ASSUME NEW w \in Workers, NewEntry(w) PROVE EmptyUntilCreated'
    BY <2>1 DEF NewEntry
  <2>2. ASSUME NEW w \in Workers, NEW m \in SigMWs, EntryUse(w, m)
        PROVE EmptyUntilCreated'
    BY <2>2 DEF EntryUse
  <2>3. ASSUME NEW w \in Workers, NEW x \in Handlers, EntryHandle(w, x)
        PROVE EmptyUntilCreated'
    BY <2>3 DEF EntryHandle
  <2>4. ASSUME NEW w \in Workers, NEW m \in MuxMWs, MuxUse(w, m)
        PROVE EmptyUntilCreated'
    BY <2>4 DEF MuxUse
  <2>5. AbsStutter => EmptyUntilCreated'
    BY DEF AbsStutter
  <2>6. ASSUME NEW w \in Workers,
               \/ \E sg \in Sigs : TraceCall(w, sg) \/ GRPCRequest(w, sg) \/ HTTPRequest(w, sg)
               \/ GetEntry(w) \/ RegisterCall(w) \/ RegisterStep(w)
               \/ SnapHandler(w) \/ SnapMux(w) \/ Invoke(w)
        PROVE EmptyUntilCreated'
    BY <2>6, <2>5, StutterSteps
  <2>7. CASE UNCHANGED vars
    BY <2>7 DEF vars
  <2>8. QED
    <3> HIDE DEF RefIInv, EmptyUntilCreated, EntryIInv, TypeOK
    <3> QED
    BY <2>1, <2>2, <2>3, <2>4, <2>6, <2>7 DEF Next
<1>3. QED
  BY <1>1, <1>2 DEF RefIInv


\* A stuttering step of the multiplexer is a stuttering step of AbstractMux.
LEMMA StutterRefines == AbsStutter => UNCHANGED AM!vars
BY DEF AbsStutter, AM!vars

\* Creating the entry of a signal is a step of AbstractMux.
LEMMA CreateIsNext ==
    ASSUME NEW sg \in Sigs, AM!Create(sg) PROVE [AM!Next]_AM!vars
BY DEF AM!Next

-----------------------------------------------------------------------------
\* A new multiplexer has no entry and no middleware.
LEMMA InitRefines == Init => AM!Init
BY DEF Init, AM!Init

\* Every step of the multiplexer is a step of AbstractMux or leaves the
\* abstract configuration alone.
LEMMA NextRefines == RefIInv /\ [Next]_vars => [AM!Next]_AM!vars
<1> SUFFICES ASSUME RefIInv, [Next]_vars PROVE [AM!Next]_AM!vars
    OBVIOUS
<1> USE DEF RefIInv, EmptyUntilCreated, EntryIInv, TypeOK, EntryFacts,
        ConfigReachesLiveEntry
\* mux.Use is the abstract MuxUse.
<1>1. ASSUME NEW w \in Workers, NEW m \in MuxMWs, MuxUse(w, m)
      PROVE [AM!Next]_AM!vars
  <2>1. AM!MuxUse(m)
    BY <1>1 DEF MuxUse, AM!MuxUse
  <2>2. QED
    BY <2>1 DEF AM!Next
\* The entry newTraceEntry stores is the abstract Create; finding it
\* already stored changes nothing.
<1>2. ASSUME NEW w \in Workers, NewEntry(w) PROVE [AM!Next]_AM!vars
  <2>0. PICK sg \in Sigs : sg = wsig[w]
    OBVIOUS
  <2>1. CASE entry[sg] = 0
    <3>1. /\ entry' = [entry EXCEPT ![sg] = created[sg] + 1]
          /\ entMW' = [entMW EXCEPT ![sg] = <<>>]
          /\ handler' = [handler EXCEPT ![sg] = NoHandler]
          /\ UNCHANGED muxMW
      BY <1>2, <2>0, <2>1 DEF NewEntry
    <3>2. created[sg] = 0 /\ entMW[sg] = <<>> /\ handler[sg] = NoHandler
      BY <2>1
    <3>3. /\ {s \in Sigs : entry'[s] # 0} = {s \in Sigs : entry[s] # 0} \cup {sg}
          /\ sg \notin {s \in Sigs : entry[s] # 0}
          /\ entMW' = entMW /\ handler' = handler
      BY <2>0, <2>1, <3>1, <3>2
    <3>4. AM!Create(sg)
      BY <3>1, <3>3 DEF AM!Create
    <3>5. QED
      BY ONLY <2>0, <3>4, CreateIsNext
  <2>2. CASE entry[sg] # 0
    <3>1. AbsStutter
      BY <1>2, <2>0, <2>2 DEF NewEntry, AbsStutter
    <3>2. QED
      BY <3>1, StutterRefines
  <2>3. QED
    BY <2>1, <2>2
\* A Use on the live entry is the abstract Use; on a dead one it is lost
\* and changes nothing.
<1>3. ASSUME NEW w \in Workers, NEW m \in SigMWs, EntryUse(w, m)
      PROVE [AM!Next]_AM!vars
  <2> DEFINE sg == wsig[w]
  <2>0. sg \in Sigs /\ pc[w] = "apply"
    BY <1>3 DEF EntryUse
  <2>1. CASE wEnt[w] = entry[sg]
    <3>1. sg \in {s \in Sigs : entry[s] # 0}
      BY <2>0
    <3>2. /\ entMW' = [entMW EXCEPT ![sg] = Append(@, m)]
          /\ UNCHANGED <<entry, handler, muxMW>>
      BY <1>3, <2>1 DEF EntryUse
    <3>3. AM!Use(sg, m)
      BY <3>1, <3>2 DEF AM!Use
    <3>4. QED
      BY <2>0, <3>3 DEF AM!Next
  <2>2. CASE wEnt[w] # entry[sg]
    <3>1. AbsStutter
      BY <1>3, <2>2 DEF EntryUse, AbsStutter
    <3>2. QED
      BY <3>1, StutterRefines
  <2>3. QED
    BY <2>1, <2>2
\* Handle likewise.
<1>4. ASSUME NEW w \in Workers, NEW x \in Handlers, EntryHandle(w, x)
      PROVE [AM!Next]_AM!vars
  <2> DEFINE sg == wsig[w]
  <2>0. sg \in Sigs /\ pc[w] = "apply"
    BY <1>4 DEF EntryHandle
  <2>1. CASE wEnt[w] = entry[sg]
    <3>1. sg \in {s \in Sigs : entry[s] # 0}
      BY <2>0
    <3>2. /\ handler' = [handler EXCEPT ![sg] = x]
          /\ UNCHANGED <<entry, entMW, muxMW>>
      BY <1>4, <2>1 DEF EntryHandle
    <3>3. AM!Handle(sg, x)
      BY <3>1, <3>2 DEF AM!Handle
    <3>4. QED
      BY <2>0, <3>3 DEF AM!Next
  <2>2. CASE wEnt[w] # entry[sg]
    <3>1. AbsStutter
      BY <1>4, <2>2 DEF EntryHandle, AbsStutter
    <3>2. QED
      BY <3>1, StutterRefines
  <2>3. QED
    BY <2>1, <2>2
\* Every other step: getTraceEntry, Register and dispatch.
<1>5. ASSUME NEW w \in Workers,
             \/ \E sg \in Sigs : TraceCall(w, sg) \/ GRPCRequest(w, sg) \/ HTTPRequest(w, sg)
             \/ GetEntry(w) \/ RegisterCall(w) \/ RegisterStep(w)
             \/ SnapHandler(w) \/ SnapMux(w) \/ Invoke(w)
      PROVE [AM!Next]_AM!vars
  BY <1>5, StutterSteps, StutterRefines
<1>6. CASE UNCHANGED vars
  BY <1>6, StutterRefines DEF vars, AbsStutter
<1>7. QED
  <2> HIDE DEF RefIInv, EmptyUntilCreated, EntryIInv, TypeOK, EntryFacts,
          ConfigReachesLiveEntry
  <2> QED
  BY <1>1, <1>2, <1>3, <1>4, <1>5, <1>6 DEF Next

(***************************************************************************)
(* For every value of the constants the multiplexer implements            *)
(* AbstractMux: each signal's entry is made once and starts empty, every   *)
(* Use and Handle that takes effect configures it, and no configuration is *)
(* ever discarded, the nil re-check of newTraceEntry (grpc.go:472) being  *)
(* what rules out a second entry.                                          *)
(***************************************************************************)
THEOREM Refinement == Spec => ImplementsAbstractMux
<1>1. QED
  BY InitRefines, NextRefines, InitRefIInv, NextRefIInv, PTL
     DEF Spec, ImplementsAbstractMux, AM!Spec

=============================================================================
