---------------------------- MODULE ClientProofs ----------------------------
(***************************************************************************)
(* Proofs about the Client module, for every set of goroutines and         *)
(* fingerprints, every protocol assignment and every bound on Start calls. *)
(***************************************************************************)
EXTENDS Client, TLAPS

\* Start and Stop store a channel and its stop context under the same
\* fingerprint, and Stop replaces both maps together (part_006:118-121,
\* 544-546).
ConnsAgree == conns = stopCtxs

\* A goroutine holds c.mu.RLock exactly while its upload is in flight: the
\* RLock taken in uploadXxx is released by the deferred RUnlock on return.
ReadersAreCalls == \A t \in Threads : t \in readers <=> pc[t] = "upload_call"

\* A goroutine inside Start works for a Start call that has been counted.
StartGen == \A t \in Threads : pc[t] = "start" => gen[t] \in Gens

\* The inductive strengthening of TypeOK and InflightBoundToChannel.
IInv == TypeOK /\ InflightBoundToChannel /\ ConnsAgree /\ ReadersAreCalls
        /\ StartGen

-----------------------------------------------------------------------------
\* The initial state of a new Client satisfies the strengthening.
LEMMA InitIInv == Init => IInv
BY ClientAssumption DEF Init, IInv, TypeOK, InflightBoundToChannel,
   InflightGRPC, ConnsAgree, ReadersAreCalls, StartGen, NoId, Ids,
   ThreadStates, Signals

\* Every step of every goroutine, and of the environment, preserves it.
LEMMA NextIInv == IInv /\ [Next]_vars => IInv'
<1> SUFFICES ASSUME IInv, [Next]_vars PROVE IInv'
    OBVIOUS
<1> USE ClientAssumption DEF IInv, TypeOK, InflightBoundToChannel,
        InflightGRPC, ConnsAgree, ReadersAreCalls, StartGen, NoId, Ids,
        Gens, ThreadStates, Signals, Protocols
<1>1. ASSUME NEW t \in Threads, AcquireWriter(t) PROVE IInv'
  BY <1>1 DEF AcquireWriter
<1>2. ASSUME NEW t \in Threads, StartCall(t) PROVE IInv'
  BY <1>2 DEF StartCall
<1>3. ASSUME NEW t \in Threads, StartSignal(t) PROVE IInv'
  <2> DEFINE s == SignalOrder[idx[t]]
             h == ConnHash[s]
             id == <<gen[t], idx[t]>>
  <2>0. idx[t] \in 1..3 /\ gen[t] \in Gens
    <3>1. pc[t] = "start" /\ idx[t] <= 3
      BY <1>3 DEF StartSignal
    <3>2. QED
      BY <3>1
  <2>1. s \in Signals /\ h \in Hashes /\ id \in Ids
    <3>1. s \in Signals
      BY <2>0 DEF SignalOrder
    <3>2. QED
      BY <2>0, <3>1
  <2>2. /\ idx' = [idx EXCEPT ![t] = idx[t] + 1]
        /\ UNCHANGED <<pc, sig, gen, ctxDone, callConn, callStop, writer,
                       readers, stopCancelled, startCancelled, starts>>
    BY <1>3 DEF StartSignal
  \* A new channel goes to a fingerprint that has none; otherwise both maps
  \* stay as they are.
  <2>3. \/ /\ conns[h] = NoId
           /\ conns' = [conns EXCEPT ![h] = id]
           /\ stopCtxs' = [stopCtxs EXCEPT ![h] = id]
        \/ UNCHANGED <<conns, stopCtxs>>
    BY <1>3 DEF StartSignal
  <2>4. TypeOK'
    <3>1. idx' \in [Threads -> 1..4]
      BY <2>0, <2>2
    <3>2. /\ conns' \in [Hashes -> Ids \cup {NoId}]
          /\ stopCtxs' \in [Hashes -> Ids \cup {NoId}]
      <4>1. /\ conns \in [Hashes -> Ids \cup {NoId}]
            /\ stopCtxs \in [Hashes -> Ids \cup {NoId}]
        OBVIOUS
      <4>2. QED
        BY ONLY <2>1, <2>3, <4>1
    <3>3. QED
      BY <2>2, <3>1, <3>2
  \* No in-flight upload uses a fingerprint whose channel is NoId.
  <2>5. InflightBoundToChannel'
    <3> SUFFICES ASSUME NEW u \in InflightGRPC'
                 PROVE  LET hu == ConnHash[sig'[u]] IN
                        /\ callConn'[u] # NoId /\ conns'[hu] = callConn'[u]
                        /\ callStop'[u] # NoId /\ stopCtxs'[hu] = callStop'[u]
      OBVIOUS
    <3>1. u \in InflightGRPC
      BY <2>2
    <3>2. /\ callConn[u] # NoId /\ conns[ConnHash[sig[u]]] = callConn[u]
          /\ callStop[u] # NoId /\ stopCtxs[ConnHash[sig[u]]] = callStop[u]
      BY <3>1
    <3>3. ConnHash[sig[u]] \in Hashes
      OBVIOUS
    <3>4. /\ sig' = sig /\ callConn' = callConn /\ callStop' = callStop
          /\ conns \in [Hashes -> Ids \cup {NoId}]
          /\ stopCtxs \in [Hashes -> Ids \cup {NoId}]
      BY <2>2
    \* The fingerprint of the upload has a channel, so it is not the one
    \* that receives the new channel.
    <3>5. CASE /\ conns[h] = NoId
               /\ conns' = [conns EXCEPT ![h] = id]
               /\ stopCtxs' = [stopCtxs EXCEPT ![h] = id]
      <4>1. ConnHash[sig[u]] # h
        BY ONLY <3>2, <3>5
      <4>2. QED
        BY ONLY <3>2, <3>3, <3>4, <3>5, <4>1
    <3>6. CASE UNCHANGED <<conns, stopCtxs>>
      BY ONLY <3>2, <3>4, <3>6
    <3>7. QED
      BY ONLY <2>3, <3>5, <3>6
  <2>6. ConnsAgree' /\ ReadersAreCalls' /\ StartGen'
    BY <2>2, <2>3
  <2>7. QED
    BY <2>4, <2>5, <2>6
<1>4. ASSUME NEW t \in Threads, StartReturn(t) PROVE IInv'
  BY <1>4 DEF StartReturn, WriteLocked
<1>5. ASSUME NEW t \in Threads, NEW s \in Signals, UploadCall(t, s) PROVE IInv'
  BY <1>5 DEF UploadCall
<1>6. ASSUME NEW t \in Threads, UploadRLock(t) PROVE IInv'
  <2> DEFINE h == ConnHash[sig[t]]
  <2>1. h \in Hashes
    OBVIOUS
  <2>2. UNCHANGED <<idx, gen, writer, conns, stopCtxs, stopCancelled,
                    startCancelled, starts>>
    BY <1>6 DEF UploadRLock
  \* The HTTP path takes the read lock and exports over HTTP.
  <2>3. CASE /\ ~IsGRPC(sig[t])
             /\ readers' = readers \cup {t}
             /\ pc' = [pc EXCEPT ![t] = "upload_call"]
             /\ UNCHANGED <<sig, ctxDone, callConn, callStop>>
    <3>1. TypeOK' /\ ConnsAgree' /\ ReadersAreCalls' /\ StartGen'
      BY <2>2, <2>3
    <3>2. InflightBoundToChannel'
      BY <2>2, <2>3 DEF IsGRPC
    <3>3. QED
      BY <3>1, <3>2
  \* ErrNotStarted: the read lock is released before returning.
  <2>4. CASE /\ pc' = [pc EXCEPT ![t] = "idle"]
             /\ sig' = [sig EXCEPT ![t] = "traces"]
             /\ ctxDone' = [ctxDone EXCEPT ![t] = FALSE]
             /\ UNCHANGED <<readers, callConn, callStop>>
    <3>1. pc[t] = "upload_lock"
      BY <1>6 DEF UploadRLock
    <3>2. TypeOK' /\ ConnsAgree' /\ ReadersAreCalls' /\ StartGen'
      BY <2>2, <2>4, <3>1
    <3>3. InflightBoundToChannel'
      BY <2>2, <2>4
    <3>4. QED
      BY <3>2, <3>3
  \* The gRPC path binds the call to the stored channel and stop context.
  <2>5. CASE /\ IsGRPC(sig[t])
             /\ conns[h] # NoId
             /\ readers' = readers \cup {t}
             /\ pc' = [pc EXCEPT ![t] = "upload_call"]
             /\ callConn' = [callConn EXCEPT ![t] = conns[h]]
             /\ callStop' = [callStop EXCEPT ![t] = stopCtxs[h]]
             /\ UNCHANGED <<sig, ctxDone>>
    <3>1. TypeOK' /\ ConnsAgree' /\ ReadersAreCalls' /\ StartGen'
      BY <2>1, <2>2, <2>5
    <3>2. InflightBoundToChannel'
      BY <2>1, <2>2, <2>5
    <3>3. QED
      BY <3>1, <3>2
  <2>6. QED
    BY <1>6, <2>3, <2>4, <2>5 DEF UploadRLock
<1>7. ASSUME NEW t \in Threads, UploadReturn(t) PROVE IInv'
  BY <1>7 DEF UploadReturn, FinishUpload
<1>8. ASSUME NEW t \in Threads, UploadCanceled(t) PROVE IInv'
  BY <1>8 DEF UploadCanceled, FinishUpload
<1>9. ASSUME NEW t \in Threads, StopCall(t) PROVE IInv'
  BY <1>9 DEF StopCall
<1>10. ASSUME NEW t \in Threads, StopCancel(t) PROVE IInv'
  BY <1>10 DEF StopCancel
<1>11. ASSUME NEW t \in Threads, StopClose(t) PROVE IInv'
  BY <1>11 DEF StopClose, WriteLocked
<1>12. ASSUME NEW t \in Threads, CancelCaller(t) PROVE IInv'
  BY <1>12 DEF CancelCaller
<1>13. ASSUME NEW g \in Gens, CancelStartCtx(g) PROVE IInv'
  BY <1>13 DEF CancelStartCtx
<1>14. CASE UNCHANGED vars
  BY <1>14 DEF vars
<1>15. QED
  <2> HIDE DEF IInv
  <2> QED
  BY <1>1, <1>2, <1>3, <1>4, <1>5, <1>6, <1>7, <1>8, <1>9, <1>10, <1>11,
     <1>12, <1>13, <1>14 DEF Next

\* The strengthening holds in every reachable state.
LEMMA IInvInvariant == Spec => []IInv
BY InitIInv, NextIInv, PTL DEF Spec

(***************************************************************************)
(* Type correctness: every goroutine's step, the lock state, the three     *)
(* maps of the Client and the cancelled contexts stay in their domains.    *)
(***************************************************************************)
THEOREM TypeCorrect == Spec => []TypeOK
<1>1. IInv => TypeOK
  BY DEF IInv
<1>2. QED
  BY <1>1, IInvInvariant, PTL

(***************************************************************************)
(* An in-flight gRPC upload always exports on the channel c.conns holds    *)
(* for its fingerprint, chained to the stop context c.stopFuncs holds for  *)
(* it: Stop's close under the write lock (part_006:523-546) never runs     *)
(* while an upload holds the read lock, and Start never replaces it.       *)
(***************************************************************************)
THEOREM InflightSafe == Spec => []InflightBoundToChannel
<1>1. IInv => InflightBoundToChannel
  BY DEF IInv
<1>2. QED
  BY <1>1, IInvInvariant, PTL

\* The channel-preservation step condition of NoChannelOverwrite.
ConnKept == \A h \in Hashes : conns[h] # NoId => conns'[h] \in {conns[h], NoId}

\* Every step keeps or removes a stored channel, never replaces it.
LEMMA NextConnKept == IInv /\ [Next]_vars => ConnKept
<1> SUFFICES ASSUME IInv, [Next]_vars PROVE ConnKept
    OBVIOUS
<1> USE ClientAssumption DEF IInv, TypeOK, ConnKept, NoId, Ids
<1>1. ASSUME NEW t \in Threads, StartSignal(t) PROVE ConnKept
  <2> DEFINE h == ConnHash[SignalOrder[idx[t]]]
             id == <<gen[t], idx[t]>>
  <2>1. CASE /\ conns[h] = NoId
             /\ conns' = [conns EXCEPT ![h] = id]
    BY <2>1
  <2>2. CASE UNCHANGED conns
    BY <2>2
  <2>3. QED
    BY <1>1, <2>1, <2>2 DEF StartSignal
<1>2. ASSUME NEW t \in Threads, StopClose(t) PROVE ConnKept
  BY <1>2 DEF StopClose
<1>3. UNCHANGED conns \/ \E t \in Threads : StartSignal(t) \/ StopClose(t)
  BY DEF Next, vars, AcquireWriter, StartCall, StartReturn, UploadCall,
     UploadRLock, UploadReturn, UploadCanceled, FinishUpload, StopCall,
     StopCancel, CancelCaller, CancelStartCtx
<1>4. QED
  BY <1>1, <1>2, <1>3

(***************************************************************************)
(* A channel stored in c.conns is never overwritten by another one: only   *)
(* Stop removes it (part_006:109-122, 523-546).                            *)
(***************************************************************************)
THEOREM ChannelsNotOverwritten == Spec => NoChannelOverwrite
<1>1. IInv /\ [Next]_vars => [ConnKept]_vars
  BY NextConnKept
<1>2. QED
  BY <1>1, IInvInvariant, PTL DEF Spec, NoChannelOverwrite, ConnKept


\* The step condition of ChannelClosedOnlyWhenIdle.
ClosesIdle ==
    (\E h \in Hashes : conns[h] # NoId /\ conns'[h] = NoId) =>
        \A t \in Threads : pc[t] # "upload_call"

\* Only Stop removes a channel, and it holds the write side of c.mu, which
\* no upload's read lock shares.
LEMMA NextClosesIdle == IInv /\ [Next]_vars => ClosesIdle
<1> SUFFICES ASSUME IInv, [Next]_vars PROVE ClosesIdle
    OBVIOUS
<1>1. ASSUME NEW t \in Threads, StartSignal(t) PROVE ClosesIdle
  BY <1>1, NextConnKept, ClientAssumption
     DEF StartSignal, ClosesIdle, IInv, TypeOK, NoId, Ids
<1>2. ASSUME NEW t \in Threads, StopClose(t) PROVE ClosesIdle
  <2>1. \A u \in Threads : pc[u] # "upload_call"
    BY <1>2 DEF StopClose, WriteLocked, IInv, ReadersAreCalls
  <2>2. QED
    BY <2>1 DEF ClosesIdle
<1>3. UNCHANGED conns \/ \E t \in Threads : StartSignal(t) \/ StopClose(t)
  BY DEF Next, vars, AcquireWriter, StartCall, StartReturn, UploadCall,
     UploadRLock, UploadReturn, UploadCanceled, FinishUpload, StopCall,
     StopCancel, CancelCaller, CancelStartCtx
<1>4. CASE UNCHANGED conns
  BY <1>4 DEF ClosesIdle
<1>5. QED
  BY <1>1, <1>2, <1>3, <1>4

(***************************************************************************)
(* For every number of goroutines and fingerprints: Stop never closes a    *)
(* channel while an upload is in flight, because its Close loop runs under *)
(* c.mu.Lock and every upload holds c.mu.RLock until it returns            *)
(* (part_006:159-160, 523-546).                                            *)
(***************************************************************************)
THEOREM ChannelsClosedWhenIdle == Spec => ChannelClosedOnlyWhenIdle
<1>1. IInv /\ [Next]_vars => [ClosesIdle]_vars
  BY NextClosesIdle
<1>2. QED
  BY <1>1, IInvInvariant, PTL DEF Spec, ChannelClosedOnlyWhenIdle, ClosesIdle

=============================================================================
