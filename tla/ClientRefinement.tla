-------------------------- MODULE ClientRefinement --------------------------
(***************************************************************************)
(* Proof that the Client implements AbstractClient under the mapping of   *)
(* Client.tla (c.conns for the channels, the in-flight gRPC uploads for   *)
(* the exports), for every set of goroutines and fingerprints, every      *)
(* protocol assignment and every bound on Start calls.  It rests on the   *)
(* inductive invariant IInv of ClientProofs.                              *)
(***************************************************************************)
EXTENDS ClientProofs

\* A step that moves no goroutine into or out of a gRPC export, and leaves
\* the sig and callConn of every goroutine that exports, leaves the
\* abstract exports as they are.
LEMMA ExportingSame ==
  ASSUME TypeOK,
         \A u \in Threads : (u \in InflightGRPC)' <=> u \in InflightGRPC,
         \A u \in InflightGRPC : sig'[u] = sig[u] /\ callConn'[u] = callConn[u]
  PROVE  Exporting' = Exporting
BY DEF Exporting

\* A stuttering step of the abstract client.
AbsStutter == UNCHANGED <<conns, Exporting>>

-----------------------------------------------------------------------------
\* A new Client is an abstract client with no channel and no export.
LEMMA InitRefines == Init => AC!Init
BY DEF Init, AC!Init, Exporting, InflightGRPC, AC!Idle

\* Every step of the Client is a step of AbstractClient or leaves the
\* channels and the exports alone.
LEMMA NextRefines == IInv /\ [Next]_vars => [AC!Next]_AC!vars
<1> SUFFICES ASSUME IInv, [Next]_vars PROVE [AC!Next]_AC!vars
    OBVIOUS
<1> USE ClientAssumption DEF IInv, TypeOK, NoId, Ids
<1>0. AbsStutter => [AC!Next]_AC!vars
  BY DEF AbsStutter, AC!vars
\* The steps that change neither c.conns nor a goroutine's gRPC export.
<1>1. ASSUME NEW t \in Threads, AcquireWriter(t) PROVE AbsStutter
  BY <1>1, ExportingSame DEF AcquireWriter, AbsStutter, InflightGRPC
<1>2. ASSUME NEW t \in Threads, StartCall(t) PROVE AbsStutter
  BY <1>2, ExportingSame DEF StartCall, AbsStutter, InflightGRPC
<1>3. ASSUME NEW t \in Threads, StartReturn(t) PROVE AbsStutter
  BY <1>3, ExportingSame DEF StartReturn, AbsStutter, InflightGRPC
<1>4. ASSUME NEW t \in Threads, NEW s \in Signals, UploadCall(t, s)
      PROVE AbsStutter
  BY <1>4, ExportingSame DEF UploadCall, AbsStutter, InflightGRPC
<1>5. ASSUME NEW t \in Threads, StopCall(t) PROVE AbsStutter
  BY <1>5, ExportingSame DEF StopCall, AbsStutter, InflightGRPC
<1>6. ASSUME NEW t \in Threads, StopCancel(t) PROVE AbsStutter
  BY <1>6, ExportingSame DEF StopCancel, AbsStutter, InflightGRPC
<1>7. ASSUME NEW t \in Threads, CancelCaller(t) PROVE AbsStutter
  BY <1>7, ExportingSame DEF CancelCaller, AbsStutter, InflightGRPC
<1>8. ASSUME NEW g \in Gens, CancelStartCtx(g) PROVE AbsStutter
  BY <1>8, ExportingSame DEF CancelStartCtx, AbsStutter, InflightGRPC
<1>9. CASE UNCHANGED vars
  <2>1. AbsStutter
    BY <1>9 DEF vars, AbsStutter, Exporting, InflightGRPC
  <2>2. QED
    BY <1>0, <2>1
\* startGRPC opens a channel for a fingerprint without one: Connect.
<1>10. ASSUME NEW t \in Threads, StartSignal(t) PROVE [AC!Next]_AC!vars
  <2> DEFINE h == ConnHash[SignalOrder[idx[t]]]
             id == <<gen[t], idx[t]>>
  <2>1. idx[t] \in 1..3 /\ gen[t] \in Gens
    <3>1. pc[t] = "start" /\ idx[t] <= 3
      BY <1>10 DEF StartSignal
    <3>2. QED
      BY <3>1 DEF StartGen
  <2>2. h \in Hashes /\ id \in Ids
    BY <2>1 DEF SignalOrder, Signals
  <2>3. Exporting' = Exporting
    BY <1>10, ExportingSame DEF StartSignal, InflightGRPC
  <2>4. CASE /\ conns[h] = NoId
             /\ conns' = [conns EXCEPT ![h] = id]
    <3>1. AC!Connect(h, id)
      BY <2>3, <2>4 DEF AC!Connect
    <3>2. QED
      BY <2>2, <3>1 DEF AC!Next
  <2>5. CASE UNCHANGED conns
    BY <1>0, <2>3, <2>5 DEF AbsStutter
  <2>6. QED
    BY <1>10, <2>4, <2>5 DEF StartSignal
\* A gRPC upload takes the read lock on the stored channel: BeginExport.
<1>11. ASSUME NEW t \in Threads, UploadRLock(t) PROVE [AC!Next]_AC!vars
  <2> DEFINE h == ConnHash[sig[t]]
  <2>1. h \in Hashes /\ pc[t] = "upload_lock"
    BY <1>11 DEF UploadRLock
  <2>2. Exporting[t] = AC!Idle
    BY <2>1 DEF Exporting, InflightGRPC, AC!Idle
  <2>3. CASE /\ IsGRPC(sig[t])
             /\ conns[h] # NoId
             /\ readers' = readers \cup {t}
             /\ pc' = [pc EXCEPT ![t] = "upload_call"]
             /\ callConn' = [callConn EXCEPT ![t] = conns[h]]
             /\ UNCHANGED <<sig, ctxDone>>
    <3>1. Exporting' = [Exporting EXCEPT ![t] = <<h, conns[h]>>]
      BY <1>11, <2>1, <2>3 DEF Exporting, InflightGRPC, UploadRLock
    <3>2. AC!BeginExport(t, h)
      BY <1>11, <2>1, <2>2, <2>3, <3>1 DEF UploadRLock, AC!BeginExport
    <3>3. QED
      BY <2>1, <3>2 DEF AC!Next
  <2>4. CASE ~IsGRPC(sig[t]) \/ conns[h] = NoId
    <3>1. AbsStutter
      BY <1>11, <2>1, <2>4, ExportingSame DEF UploadRLock, AbsStutter,
         InflightGRPC, IsGRPC
    <3>2. QED
      BY <1>0, <3>1
  <2>5. QED
    BY <2>3, <2>4, <1>11 DEF UploadRLock
\* An upload returns: EndExport for a gRPC one, nothing for HTTP.
<1>12. ASSUME NEW t \in Threads, pc[t] = "upload_call", FinishUpload(t)
       PROVE [AC!Next]_AC!vars
  <2>1. CASE t \in InflightGRPC
    <3>1. callConn[t] # NoId
      BY <2>1 DEF InflightBoundToChannel
    <3>2. Exporting[t] # AC!Idle
      BY <2>1, <3>1 DEF Exporting, AC!Idle
    <3>3. Exporting' = [Exporting EXCEPT ![t] = AC!Idle]
      BY <1>12 DEF FinishUpload, Exporting, InflightGRPC, AC!Idle
    <3>4. AC!EndExport(t)
      BY <1>12, <3>2, <3>3 DEF FinishUpload, AC!EndExport
    <3>5. QED
      BY <3>4 DEF AC!Next
  <2>2. CASE t \notin InflightGRPC
    <3>1. AbsStutter
      BY <1>12, <2>2, ExportingSame DEF FinishUpload, AbsStutter, InflightGRPC
    <3>2. QED
      BY <1>0, <3>1
  <2>3. QED
    BY <2>1, <2>2
<1>13. ASSUME NEW t \in Threads, UploadReturn(t) PROVE [AC!Next]_AC!vars
  BY <1>13, <1>12 DEF UploadReturn
<1>14. ASSUME NEW t \in Threads, UploadCanceled(t) PROVE [AC!Next]_AC!vars
  BY <1>14, <1>12 DEF UploadCanceled
\* Stop closes the channels under the write lock, so no upload holds the
\* read lock: CloseAll.
<1>15. ASSUME NEW t \in Threads, StopClose(t) PROVE [AC!Next]_AC!vars
  <2>1. \A u \in Threads : pc[u] # "upload_call"
    BY <1>15 DEF StopClose, WriteLocked, ReadersAreCalls
  <2>2. \A u \in Threads : Exporting[u] = AC!Idle
    BY <2>1 DEF Exporting, InflightGRPC, AC!Idle
  <2>3. Exporting' = Exporting
    BY <1>15, <2>1, ExportingSame DEF StopClose, InflightGRPC
  <2>4. CASE conns' = [h \in Hashes |-> NoId]
    <3>1. AC!CloseAll
      BY <2>2, <2>3, <2>4 DEF AC!CloseAll
    <3>2. QED
      BY <3>1 DEF AC!Next
  <2>5. CASE UNCHANGED conns
    BY <1>0, <2>3, <2>5 DEF AbsStutter
  <2>6. QED
    BY <1>15, <2>4, <2>5 DEF StopClose
<1>16. QED
  <2> HIDE DEF IInv, TypeOK, NoId, Ids
  <2> QED
  BY <1>0, <1>1, <1>2, <1>3, <1>4, <1>5, <1>6, <1>7, <1>8, <1>9, <1>10,
     <1>11, <1>13, <1>14, <1>15 DEF Next

(***************************************************************************)
(* The Client implements AbstractClient: every behaviour of the Client,   *)
(* seen through c.conns and its in-flight gRPC uploads, is a behaviour of *)
(* a client that opens a channel only where there is none, starts an      *)
(* export only on the stored channel, and closes channels only when no    *)
(* export runs.                                                           *)
(***************************************************************************)
THEOREM Refinement == Spec => ImplementsAbstractClient
<1>1. QED
  BY InitRefines, NextRefines, IInvInvariant, PTL
     DEF Spec, ImplementsAbstractClient, AC!Spec


-----------------------------------------------------------------------------
(* What the abstract client guarantees, proved once for AbstractClient and *)
(* inherited by the Client through the refinement.                         *)

\* The inductive invariant of AbstractClient.
AbsInv == AC!TypeOK /\ AC!ExportOnLiveChannel

\* No channel id is the id of no channel.
LEMMA NoIdNotChannel == NoId \notin Ids
BY DEF NoId, Ids, Gens

\* Every abstract step keeps an export on the channel its fingerprint holds:
\* Connect only fills a fingerprint without a channel, which no export uses,
\* and CloseAll waits for every export to end.
LEMMA AbsInvNext == AbsInv /\ [AC!Next]_AC!vars => AbsInv'
<1> SUFFICES ASSUME AbsInv, [AC!Next]_AC!vars PROVE AbsInv'
    OBVIOUS
<1> USE NoIdNotChannel DEF AbsInv, AC!TypeOK, AC!ExportOnLiveChannel, AC!Idle
<1>1. ASSUME NEW h \in Hashes, NEW c \in Ids, AC!Connect(h, c) PROVE AbsInv'
  BY <1>1 DEF AC!Connect
<1>2. ASSUME NEW t \in Threads, NEW h \in Hashes, AC!BeginExport(t, h)
      PROVE AbsInv'
  BY <1>2 DEF AC!BeginExport
<1>3. ASSUME NEW t \in Threads, AC!EndExport(t) PROVE AbsInv'
  BY <1>3 DEF AC!EndExport
<1>4. CASE AC!CloseAll
  BY <1>4 DEF AC!CloseAll
<1>5. CASE UNCHANGED AC!vars
  BY <1>5 DEF AC!vars
<1>6. QED
  BY <1>1, <1>2, <1>3, <1>4, <1>5 DEF AC!Next

\* An abstract client never has an export whose channel is gone.
LEMMA AbsSafe == AC!Spec => []AC!ExportOnLiveChannel
<1>1. AC!Init => AbsInv
  BY NoIdNotChannel DEF AC!Init, AbsInv, AC!TypeOK, AC!ExportOnLiveChannel, AC!Idle
<1>2. QED
  BY <1>1, AbsInvNext, PTL DEF AC!Spec, AbsInv

(***************************************************************************)
(* Through the refinement, every in-flight gRPC export of the Client runs *)
(* on the channel c.conns still holds for its fingerprint: the guarantee  *)
(* of AbstractClient, obtained without looking at the Client's steps      *)
(* again.                                                                  *)
(***************************************************************************)
THEOREM ExportsOnLiveChannel == Spec => []AC!ExportOnLiveChannel
BY Refinement, AbsSafe DEF ImplementsAbstractClient

=============================================================================
