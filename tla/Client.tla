------------------------------- MODULE Client -------------------------------
(***************************************************************************)
(* The lifecycle of otlp.Client (src/unnamed/part_006).                    *)
(*                                                                         *)
(* Start opens one gRPC channel per connection fingerprint under the write *)
(* side of c.mu and gives it a stop context derived from Start's ctx.      *)
(* Upload* holds the read side for the whole export; a gRPC upload chains  *)
(* the stop context of its fingerprint into its call context.  Stop starts *)
(* a goroutine that takes the write side and selects between "lock         *)
(* acquired" and "my ctx is done"; in the latter case it first cancels     *)
(* every stop context, then still waits for the lock, closes every         *)
(* channel and clears the maps.                                            *)
(*                                                                         *)
(* A channel and a stop context are identified by the Start call that      *)
(* created them and the signal it was created for: <<gen, i>>.  Payloads,  *)
(* responses and logging are abstracted away; what is kept is which lock   *)
(* a goroutine holds, which channel and stop context it uses, and which    *)
(* contexts are cancelled.                                                 *)
(***************************************************************************)
EXTENDS Naturals, Sequences

CONSTANTS
    Threads,              \* goroutines calling the client
    NoThread,             \* nobody holds the writer slot of c.mu
    Hashes,               \* connection fingerprints (grpcConnectionInfo)
    Protocol,             \* effective protocol of each signal after build()
    ConnHash,             \* fingerprint of each signal
    StartCtxCancellable,  \* the ctx handed to Start may be cancelled later
    MaxStarts             \* bound on the number of Start calls

\* Start examines the signals in this order (part_006:91-105).
SignalOrder == <<"traces", "metrics", "logs">>
Signals == {"traces", "metrics", "logs"}
Protocols == {"grpc", "http/json", "http/protobuf"}

ASSUME ClientAssumption ==
    /\ NoThread \notin Threads
    /\ Protocol \in [Signals -> Protocols]
    /\ ConnHash \in [Signals -> Hashes]
    /\ StartCtxCancellable \in BOOLEAN
    /\ MaxStarts \in Nat

Gens == 1..MaxStarts
\* A channel or stop context: the Start call and the signal index it was made for.
Ids == Gens \X (1..3)
NoId == <<0, 0>>

VARIABLES
    pc,              \* the step each goroutine is at
    sig,             \* the signal of the upload a goroutine performs
    idx,             \* the next signal Start examines
    gen,             \* the Start call a goroutine performs
    ctxDone,         \* the caller's ctx of the current call is done
    callConn,        \* the channel an in-flight gRPC upload exports on
    callStop,        \* the stop context chained into the upload's ctx
    writer,          \* holder of the writer slot of c.mu
    readers,         \* holders of c.mu.RLock
    conns,           \* c.conns: fingerprint -> channel
    stopCtxs,        \* c.stopContexts and c.stopFuncs: fingerprint -> stop context
    stopCancelled,   \* stop contexts cancelled through their stopFunc
    startCancelled,  \* Start calls whose ctx has been cancelled
    starts           \* number of Start calls so far

vars == <<pc, sig, idx, gen, ctxDone, callConn, callStop, writer, readers,
          conns, stopCtxs, stopCancelled, startCancelled, starts>>

ThreadStates == {"idle", "start", "upload_lock", "upload_call",
                 "stop_select", "stop_wait"}

IsGRPC(s) == Protocol[s] = "grpc"

\* context.WithCancel(ctx) at part_006:119: done when cancelled or when the
\* ctx of the Start call that made it is done.
StopCtxDone(id) == id \in stopCancelled \/ id[1] \in startCancelled

\* The call ctx of newGRPCContext (part_006:124-151): done when the caller's
\* ctx is, or when the stop context it was chained to is.
CallDone(t) == ctxDone[t] \/ (callStop[t] # NoId /\ StopCtxDone(callStop[t]))

\* c.mu.Lock has returned for t: t owns the writer slot and readers drained.
WriteLocked(t) == writer = t /\ readers = {}

-----------------------------------------------------------------------------
Init ==
    /\ pc = [t \in Threads |-> "idle"]
    /\ sig = [t \in Threads |-> "traces"]
    /\ idx = [t \in Threads |-> 1]
    /\ gen = [t \in Threads |-> 0]
    /\ ctxDone = [t \in Threads |-> FALSE]
    /\ callConn = [t \in Threads |-> NoId]
    /\ callStop = [t \in Threads |-> NoId]
    /\ writer = NoThread
    /\ readers = {}
    /\ conns = [h \in Hashes |-> NoId]
    /\ stopCtxs = [h \in Hashes |-> NoId]
    /\ stopCancelled = {}
    /\ startCancelled = {}
    /\ starts = 0

\* sync.RWMutex.Lock: first the writer slot, which also blocks new readers;
\* taken by Start itself and by the goroutine Stop spawns (part_006:508-511).
AcquireWriter(t) ==
    /\ pc[t] \in {"start", "stop_select", "stop_wait"}
    /\ writer = NoThread
    /\ writer' = t
    /\ UNCHANGED <<pc, sig, idx, gen, ctxDone, callConn, callStop, readers,
                   conns, stopCtxs, stopCancelled, startCancelled, starts>>

-----------------------------------------------------------------------------
(* Start(ctx), part_006:88-122. *)

StartCall(t) ==
    /\ pc[t] = "idle"
    /\ starts < MaxStarts
    /\ starts' = starts + 1
    /\ pc' = [pc EXCEPT ![t] = "start"]
    /\ gen' = [gen EXCEPT ![t] = starts + 1]
    /\ idx' = [idx EXCEPT ![t] = 1]
    /\ UNCHANGED <<sig, ctxDone, callConn, callStop, writer, readers,
                   conns, stopCtxs, stopCancelled, startCancelled>>

\* Mutant: startGRPC without the "already connected" check (part_006:111).
StartSignalNoDedup(t) ==
    /\ pc[t] = "start"
    /\ WriteLocked(t)
    /\ idx[t] <= 3
    /\ LET s  == SignalOrder[idx[t]]
           h  == ConnHash[s]
           id == <<gen[t], idx[t]>>
       IN \/ /\ IsGRPC(s)
             /\ conns' = [conns EXCEPT ![h] = id]
             /\ stopCtxs' = [stopCtxs EXCEPT ![h] = id]
          \/ /\ ~IsGRPC(s)
             /\ UNCHANGED <<conns, stopCtxs>>
    /\ idx' = [idx EXCEPT ![t] = idx[t] + 1]
    /\ UNCHANGED <<pc, sig, gen, ctxDone, callConn, callStop, writer, readers,
                   stopCancelled, startCancelled, starts>>

\* One turn of the loop: startGRPC for a gRPC signal whose fingerprint has
\* no channel yet opens one and stores its stop context with it.
StartSignal(t) ==
    /\ pc[t] = "start"
    /\ WriteLocked(t)
    /\ idx[t] <= 3
    /\ LET s  == SignalOrder[idx[t]]
           h  == ConnHash[s]
           id == <<gen[t], idx[t]>>
       IN \/ /\ IsGRPC(s)
             /\ conns[h] = NoId
             /\ conns' = [conns EXCEPT ![h] = id]
             /\ stopCtxs' = [stopCtxs EXCEPT ![h] = id]
          \/ /\ ~IsGRPC(s) \/ conns[h] # NoId
             /\ UNCHANGED <<conns, stopCtxs>>
    /\ idx' = [idx EXCEPT ![t] = idx[t] + 1]
    /\ UNCHANGED <<pc, sig, gen, ctxDone, callConn, callStop, writer, readers,
                   stopCancelled, startCancelled, starts>>

\* The deferred c.mu.Unlock once the three signals are done.
StartReturn(t) ==
    /\ pc[t] = "start"
    /\ WriteLocked(t)
    /\ idx[t] = 4
    /\ writer' = NoThread
    /\ pc' = [pc EXCEPT ![t] = "idle"]
    /\ idx' = [idx EXCEPT ![t] = 1]
    /\ gen' = [gen EXCEPT ![t] = 0]
    /\ UNCHANGED <<sig, ctxDone, callConn, callStop, readers,
                   conns, stopCtxs, stopCancelled, startCancelled, starts>>

-----------------------------------------------------------------------------
(* UploadTraces / UploadMetrics / UploadLogs, part_006:158-502. *)
UploadCall(t, s) ==
    /\ pc[t] = "idle"
    /\ pc' = [pc EXCEPT ![t] = "upload_lock"]
    /\ sig' = [sig EXCEPT ![t] = s]
    /\ ctxDone' = [ctxDone EXCEPT ![t] = FALSE]
    /\ UNCHANGED <<idx, gen, callConn, callStop, writer, readers,
                   conns, stopCtxs, stopCancelled, startCancelled, starts>>

\* Mutant: with no channel the upload waits for one instead of failing
\* with ErrNotStarted (part_006:186-189).
UploadRLockRetry(t) ==
    /\ pc[t] = "upload_lock"
    /\ writer = NoThread
    /\ LET h == ConnHash[sig[t]] IN
       \/ /\ ~IsGRPC(sig[t])
          /\ readers' = readers \cup {t}
          /\ pc' = [pc EXCEPT ![t] = "upload_call"]
          /\ UNCHANGED <<sig, ctxDone, callConn, callStop>>
       \/ /\ IsGRPC(sig[t])
          /\ conns[h] = NoId
          /\ UNCHANGED <<pc, sig, ctxDone, readers, callConn, callStop>>
       \/ /\ IsGRPC(sig[t])
          /\ conns[h] # NoId
          /\ readers' = readers \cup {t}
          /\ pc' = [pc EXCEPT ![t] = "upload_call"]
          /\ callConn' = [callConn EXCEPT ![t] = conns[h]]
          /\ callStop' = [callStop EXCEPT ![t] = stopCtxs[h]]
          /\ UNCHANGED <<sig, ctxDone>>
    /\ UNCHANGED <<idx, gen, writer, conns, stopCtxs,
                   stopCancelled, startCancelled, starts>>

\* c.mu.RLock returns once no writer holds or waits for the lock.  Then:
\* HTTP exports on the caller's ctx alone; gRPC without a channel returns
\* ErrNotStarted; gRPC with a channel chains the fingerprint's stop context
\* (Background when absent) into the call ctx and exports.
UploadRLock(t) ==
    /\ pc[t] = "upload_lock"
    /\ writer = NoThread
    /\ LET h == ConnHash[sig[t]] IN
       \/ /\ ~IsGRPC(sig[t])
          /\ readers' = readers \cup {t}
          /\ pc' = [pc EXCEPT ![t] = "upload_call"]
          /\ UNCHANGED <<sig, ctxDone, callConn, callStop>>
       \/ /\ IsGRPC(sig[t])
          /\ conns[h] = NoId
          /\ pc' = [pc EXCEPT ![t] = "idle"]
          /\ sig' = [sig EXCEPT ![t] = "traces"]
          /\ ctxDone' = [ctxDone EXCEPT ![t] = FALSE]
          /\ UNCHANGED <<readers, callConn, callStop>>
       \/ /\ IsGRPC(sig[t])
          /\ conns[h] # NoId
          /\ readers' = readers \cup {t}
          /\ pc' = [pc EXCEPT ![t] = "upload_call"]
          /\ callConn' = [callConn EXCEPT ![t] = conns[h]]
          /\ callStop' = [callStop EXCEPT ![t] = stopCtxs[h]]
          /\ UNCHANGED <<sig, ctxDone>>
    /\ UNCHANGED <<idx, gen, writer, conns, stopCtxs,
                   stopCancelled, startCancelled, starts>>

\* The export ends and the deferred RUnlock runs.
FinishUpload(t) ==
    /\ readers' = readers \ {t}
    /\ pc' = [pc EXCEPT ![t] = "idle"]
    /\ sig' = [sig EXCEPT ![t] = "traces"]
    /\ ctxDone' = [ctxDone EXCEPT ![t] = FALSE]
    /\ callConn' = [callConn EXCEPT ![t] = NoId]
    /\ callStop' = [callStop EXCEPT ![t] = NoId]
    /\ UNCHANGED <<idx, gen, writer, conns, stopCtxs,
                   stopCancelled, startCancelled, starts>>

\* The server answers: success, partial success or an error status.
UploadReturn(t) ==
    /\ pc[t] = "upload_call"
    /\ FinishUpload(t)

\* The call ctx is done: the transport gives up with Canceled.
UploadCanceled(t) ==
    /\ pc[t] = "upload_call"
    /\ CallDone(t)
    /\ FinishUpload(t)

-----------------------------------------------------------------------------
(* Stop(ctx), part_006:504-548. *)
StopCall(t) ==
    /\ pc[t] = "idle"
    /\ \E cancelled \in BOOLEAN : ctxDone' = [ctxDone EXCEPT ![t] = cancelled]
    /\ pc' = [pc EXCEPT ![t] = "stop_select"]
    /\ UNCHANGED <<sig, idx, gen, callConn, callStop, writer, readers,
                   conns, stopCtxs, stopCancelled, startCancelled, starts>>

\* The select takes <-ctx.Done(): every stopFunc in c.stopFuncs is called,
\* without holding c.mu; then Stop waits for <-acquired.
StopCancel(t) ==
    /\ pc[t] = "stop_select"
    /\ ctxDone[t]
    /\ stopCancelled' = stopCancelled \cup
                          {stopCtxs[h] : h \in {g \in Hashes : stopCtxs[g] # NoId}}
    /\ pc' = [pc EXCEPT ![t] = "stop_wait"]
    /\ UNCHANGED <<sig, idx, gen, ctxDone, callConn, callStop, writer, readers,
                   conns, stopCtxs, startCancelled, starts>>

\* Mutant: Stop closes once it owns the writer slot, without waiting for
\* the readers to drain (as if acquired were closed before Lock returned).
StopCloseNoDrain(t) ==
    /\ pc[t] \in {"stop_select", "stop_wait"}
    /\ writer = t
    /\ \/ /\ \A h \in Hashes : conns[h] = NoId
          /\ UNCHANGED <<conns, stopCtxs>>
       \/ /\ \E h \in Hashes : conns[h] # NoId
          /\ conns' = [h \in Hashes |-> NoId]
          /\ stopCtxs' = [h \in Hashes |-> NoId]
    /\ writer' = NoThread
    /\ pc' = [pc EXCEPT ![t] = "idle"]
    /\ ctxDone' = [ctxDone EXCEPT ![t] = FALSE]
    /\ UNCHANGED <<sig, idx, gen, callConn, callStop, readers,
                   stopCancelled, startCancelled, starts>>

\* The lock is acquired: with no channel Stop returns ErrAlreadyClosed;
\* otherwise it closes every channel and replaces the three maps.  The
\* deferred Unlock runs on both paths.
StopClose(t) ==
    /\ pc[t] \in {"stop_select", "stop_wait"}
    /\ WriteLocked(t)
    /\ \/ /\ \A h \in Hashes : conns[h] = NoId
          /\ UNCHANGED <<conns, stopCtxs>>
       \/ /\ \E h \in Hashes : conns[h] # NoId
          /\ conns' = [h \in Hashes |-> NoId]
          /\ stopCtxs' = [h \in Hashes |-> NoId]
    /\ writer' = NoThread
    /\ pc' = [pc EXCEPT ![t] = "idle"]
    /\ ctxDone' = [ctxDone EXCEPT ![t] = FALSE]
    /\ UNCHANGED <<sig, idx, gen, callConn, callStop, readers,
                   stopCancelled, startCancelled, starts>>

-----------------------------------------------------------------------------
(* The environment. *)

\* The caller's ctx of an upload or a Stop is cancelled or times out
\* (including the export timeout of newGRPCContext).
CancelCaller(t) ==
    /\ pc[t] \in {"upload_lock", "upload_call", "stop_select"}
    /\ ~ctxDone[t]
    /\ ctxDone' = [ctxDone EXCEPT ![t] = TRUE]
    /\ UNCHANGED <<pc, sig, idx, gen, callConn, callStop, writer, readers,
                   conns, stopCtxs, stopCancelled, startCancelled, starts>>

\* The ctx that was handed to Start call g is cancelled, at any time after.
CancelStartCtx(g) ==
    /\ StartCtxCancellable
    /\ g \in 1..starts
    /\ g \notin startCancelled
    /\ startCancelled' = startCancelled \cup {g}
    /\ UNCHANGED <<pc, sig, idx, gen, ctxDone, callConn, callStop, writer,
                   readers, conns, stopCtxs, stopCancelled, starts>>

-----------------------------------------------------------------------------
Next ==
    \/ \E t \in Threads :
          \/ AcquireWriter(t)
          \/ StartCall(t) \/ StartSignal(t) \/ StartReturn(t)
          \/ \E s \in Signals : UploadCall(t, s)
          \/ UploadRLock(t) \/ UploadReturn(t) \/ UploadCanceled(t)
          \/ StopCall(t) \/ StopCancel(t) \/ StopClose(t)
          \/ CancelCaller(t)
    \/ \E g \in Gens : CancelStartCtx(g)

Spec == Init /\ [][Next]_vars

\* The client's own goroutines are scheduled fairly.  The writer slot and
\* the read side are taken strongly fairly: sync.Mutex's starvation mode
\* hands the slot to a long waiter, and RUnlock/Unlock wake blocked readers.
\* A transport observes its ctx being done promptly.
Fairness ==
    \A t \in Threads :
        /\ SF_vars(AcquireWriter(t))
        /\ SF_vars(UploadRLock(t))
        /\ WF_vars(StartSignal(t)) /\ WF_vars(StartReturn(t))
        /\ WF_vars(StopCancel(t)) /\ WF_vars(StopClose(t))
        /\ WF_vars(UploadCanceled(t))

\* An assumption about the server, not the client: it answers every export.
ServerAnswers == \A t \in Threads : WF_vars(UploadReturn(t))

LiveSpec == Spec /\ Fairness /\ ServerAnswers

-----------------------------------------------------------------------------
TypeOK ==
    /\ pc \in [Threads -> ThreadStates]
    /\ sig \in [Threads -> Signals]
    /\ idx \in [Threads -> 1..4]
    /\ gen \in [Threads -> 0..MaxStarts]
    /\ ctxDone \in [Threads -> BOOLEAN]
    /\ callConn \in [Threads -> Ids \cup {NoId}]
    /\ callStop \in [Threads -> Ids \cup {NoId}]
    /\ writer \in Threads \cup {NoThread}
    /\ readers \subseteq Threads
    /\ conns \in [Hashes -> Ids \cup {NoId}]
    /\ stopCtxs \in [Hashes -> Ids \cup {NoId}]
    /\ stopCancelled \subseteq Ids
    /\ startCancelled \subseteq Gens
    /\ starts \in 0..MaxStarts

InflightGRPC == {t \in Threads : pc[t] = "upload_call" /\ IsGRPC(sig[t])}

(***************************************************************************)
(* An in-flight gRPC upload exports on the channel that c.conns still      *)
(* holds for its fingerprint, and its ctx is chained to the stop context   *)
(* that c.stopFuncs still holds for it: no Stop has closed the channel     *)
(* under the call (part_006:159, 528-546) and no Start has replaced it,    *)
(* and a later Stop with a cancelled ctx reaches the call through that     *)
(* stop context (part_006:139-149, 515-517).                               *)
(***************************************************************************)
InflightBoundToChannel ==
    \A t \in InflightGRPC :
        LET h == ConnHash[sig[t]] IN
        /\ callConn[t] # NoId /\ conns[h] = callConn[t]
        /\ callStop[t] # NoId /\ stopCtxs[h] = callStop[t]

(***************************************************************************)
(* A channel stored in c.conns is only ever removed by Stop, never         *)
(* overwritten by another one: startGRPC skips a fingerprint that already  *)
(* has a channel (part_006:111-113), also when two signals of one Start    *)
(* share it, so no opened channel escapes Stop's Close loop.               *)
(***************************************************************************)
NoChannelOverwrite ==
    [][\A h \in Hashes : conns[h] # NoId => conns'[h] \in {conns[h], NoId}]_vars

(***************************************************************************)
(* Stop closes a stored channel only while no upload is in flight: Close   *)
(* runs under c.mu.Lock (part_006:523-546), which waits for the RUnlock    *)
(* of every upload (part_006:159-160, 274-275, 390-391), so no export   *)
(* has its channel closed under it.                                        *)
(***************************************************************************)
ChannelClosedOnlyWhenIdle ==
    [][(\E h \in Hashes : conns[h] # NoId /\ conns'[h] = NoId) =>
          \A t \in Threads : pc[t] # "upload_call"]_vars

(***************************************************************************)
(* Every call to Start, Upload* and Stop returns, provided the server      *)
(* answers: the RWMutex, Stop's goroutine and its select never leave a     *)
(* goroutine blocked for good (part_006:88-90, 159-160, 504-523).          *)
(***************************************************************************)
EveryCallReturns == \A t \in Threads : pc[t] # "idle" ~> pc[t] = "idle"


(***************************************************************************)
(* Scenario S6 and spec section 4.5: once Stop(ctx) has observed its ctx   *)
(* cancelled and cancelled the stop contexts (part_006:514-517), every     *)
(* upload still in flight observes cancellation, so Stop does not wait on  *)
(* it for good.                                                            *)
(***************************************************************************)
StopCancelReachesUploads ==
    \A s, t \in Threads :
        pc[s] = "stop_wait" /\ pc[t] = "upload_call" => CallDone(t)

(***************************************************************************)
(* Spec section 4.5: an in-flight upload observes cancellation only        *)
(* through its caller's ctx or through a Stop whose ctx is cancelled; the  *)
(* stop contexts are created at part_006:119 from the ctx given to Start.  *)
(***************************************************************************)
UploadCancelledOnlyByCallerOrStop ==
    \A t \in Threads :
        pc[t] = "upload_call" /\ CallDone(t) =>
            ctxDone[t] \/ callStop[t] \in stopCancelled

(***************************************************************************)
(* Spec section 5: stop contexts are set up under the write lock and only  *)
(* observed under the lock.  Stop's loop over c.stopFuncs (part_006:515)   *)
(* never runs while another goroutine holds the write side and may be      *)
(* writing the maps (startGRPC at part_006:119, Stop at part_006:544-546). *)
(***************************************************************************)
StopFuncsReadRaceFree ==
    [][\A t \in Threads :
          StopCancel(t) => ~\E u \in Threads \ {t} : WriteLocked(u)]_vars

-----------------------------------------------------------------------------
(* The refinement mapping to AbstractClient: c.conns is the abstract       *)
(* channel map, and a goroutine exports on <<fingerprint, channel>> while  *)
(* its gRPC upload holds the read lock (part_006:158-160).                  *)

Exporting ==
    [t \in Threads |-> IF t \in InflightGRPC
                       THEN <<ConnHash[sig[t]], callConn[t]>>
                       ELSE <<NoId, NoId>>]

AC == INSTANCE AbstractClient
        WITH Chans <- Ids, NoChan <- NoId, channels <- conns, exporting <- Exporting

(***************************************************************************)
(* The Client implements AbstractClient: startGRPC opens a channel only    *)
(* for a fingerprint without one (part_006:109-121), a gRPC upload starts  *)
(* on the channel c.conns holds (part_006:186-192) and Stop closes the    *)
(* channels only once every upload has released the read lock             *)
(* (part_006:523-546); every other step leaves channels and exports alone. *)
(***************************************************************************)
ImplementsAbstractClient == AC!Spec

=============================================================================
