------------------------------ MODULE ServerMux ------------------------------
(***************************************************************************)
(* The server multiplexer of package otlp (src/otlp/otlptest/grpc.go,      *)
(* lines 347-776): lazily created per-signal entries, the cross-signal     *)
(* middleware list under mux.mu, each entry's middleware list and handler  *)
(* under the entry's mu, Register on a gRPC server, and dispatch of an     *)
(* export over gRPC or over HTTP.  The trace entry is the template; the    *)
(* metrics and logs entries repeat its code line for line.                *)
(***************************************************************************)
EXTENDS Naturals, Sequences, GrpcCodes

CONSTANTS
    Workers,    \* goroutines configuring the mux or serving requests
    Sigs,       \* the signals whose entries are modelled
    MuxMWs,     \* cross-signal middleware (MiddlewareFunc values)
    SigMWs,     \* per-signal middleware (TraceMiddlewareFunc values)
    Handlers,   \* handlers passed to Handle
    NoHandler,  \* e.h == nil
    MaxMW       \* bound on the length of each middleware list

\* Register examines the entries in this order (grpc.go:396-406).
SignalOrder == <<"traces", "metrics", "logs">>

ASSUME ServerMuxAssumption ==
    /\ Sigs \subseteq {SignalOrder[i] : i \in 1..3} /\ Sigs # {}
    /\ NoHandler \notin Handlers
    /\ MaxMW \in Nat

VARIABLES
    entry,       \* mux.trace etc.: id of the live entry, 0 for nil
    created,     \* number of entries ever made for each signal
    routed,      \* entry id serving the pattern /v1/<signal> in httpMux, 0 if none
    registered,  \* entry id registered on the gRPC server, 0 if none
    muxMW,       \* mux.middlewares
    entMW,       \* e.middlewares of the live entry
    handler,     \* e.h of the live entry
    pc,          \* step each goroutine is at
    wsig,        \* signal a goroutine is working on
    wEnt,        \* entry id a goroutine obtained from Trace()
    ridx,        \* next signal Register examines
    snapEnt,     \* entry middleware snapshot taken by getHandler
    snapH,       \* handler snapshot taken by getHandler
    snapMux,     \* cross-signal snapshot taken by chainedMiddleware
    transport,   \* "grpc" or "http" for a dispatch
    resp,        \* outcome of the last completed dispatch
    entMoved,    \* auxiliary: the entry changed since this dispatch's getHandler
    mixed        \* auxiliary: mux changed after that, before chainedMiddleware

vars == <<entry, created, routed, registered, muxMW, entMW, handler, pc, wsig,
          wEnt, ridx, snapEnt, snapH, snapMux, transport, resp,
          entMoved, mixed>>

WorkerStates == {"idle", "get", "create", "apply", "register",
                 "snap_handler", "snap_mux", "invoke", "panicked"}

\* The outcome of a dispatch: its transport, its status code, and whether
\* no handler was there to serve it.
RespType == [transport : {"none", "grpc", "http"},
             code : {"none", "OK", "NotFound", "Unimplemented"},
             noHandler : BOOLEAN]

NoResp == [transport |-> "none", code |-> "none", noHandler |-> FALSE]

-----------------------------------------------------------------------------
(* The chain builders, as the code's loops compute them.                   *)

\* Mutant: the loop of chainedMiddleware stops at i > 0, so the first
\* registered middleware is left out.
ChainedMiddlewareDropsFirst(mws) ==
    LET n == Len(mws)
        c[i \in 1..n] == IF i = n THEN <<mws[n]>> ELSE <<mws[i]>> \o c[i + 1]
    IN  IF n = 0 THEN <<>> ELSE IF n = 1 THEN c[1] ELSE c[2]

\* chainedMiddleware (grpc.go:377-394): chained starts as the last
\* middleware, and each turn of the loop, from len-2 down to 0, puts
\* middlewares[i] outside it.  A chain is the sequence of the middleware it
\* runs, outermost first.
ChainedMiddleware(mws) ==
    LET n == Len(mws)
        c[i \in 1..n] == IF i = n THEN <<mws[n]>> ELSE <<mws[i]>> \o c[i + 1]
    IN  IF n = 0 THEN <<>> ELSE c[1]

\* getHandler (grpc.go:504-515): wrapped starts as e.h and each turn of the
\* loop, from len-1 down to 0, wraps it in middlewares[i].
WrappedHandler(mws, h) ==
    LET n == Len(mws)
        w[i \in 1..n + 1] == IF i = n + 1 THEN <<h>> ELSE <<mws[i]>> \o w[i + 1]
    IN  w[1]

\* Export (grpc.go:517-533) runs chainedMiddleware()(base).
RunOrder(mx, ms, h) == ChainedMiddleware(mx) \o WrappedHandler(ms, h)

-----------------------------------------------------------------------------
Init ==
    /\ entry = [s \in Sigs |-> 0]
    /\ created = [s \in Sigs |-> 0]
    /\ routed = [s \in Sigs |-> 0]
    /\ registered = [s \in Sigs |-> 0]
    /\ muxMW = <<>>
    /\ entMW = [s \in Sigs |-> <<>>]
    /\ handler = [s \in Sigs |-> NoHandler]
    /\ pc = [w \in Workers |-> "idle"]
    /\ wsig = [w \in Workers |-> CHOOSE s \in Sigs : TRUE]
    /\ wEnt = [w \in Workers |-> 0]
    /\ ridx = 0
    /\ snapEnt = [w \in Workers |-> <<>>]
    /\ snapH = [w \in Workers |-> NoHandler]
    /\ snapMux = [w \in Workers |-> <<>>]
    /\ transport = [w \in Workers |-> "none"]
    /\ resp = [w \in Workers |-> NoResp]
    /\ entMoved = [w \in Workers |-> FALSE]
    /\ mixed = [w \in Workers |-> FALSE]

\* Auxiliary bookkeeping: the entry of s changes (a Use, a Handle or a new
\* entry) while dispatches of s sit between getHandler and chainedMiddleware.
EntryTouched(s) ==
    entMoved' = [u \in Workers |-> entMoved[u] \/ (pc[u] = "snap_mux" /\ wsig[u] = s)]

\* ... and the mux middleware changes after such a change of the entry.
MuxTouched ==
    mixed' = [u \in Workers |-> mixed[u] \/ (pc[u] = "snap_mux" /\ entMoved[u])]

\* ServerMux.Use (grpc.go:370-375): append under mux.mu.
MuxUse(w, m) ==
    /\ pc[w] = "idle"
    /\ Len(muxMW) < MaxMW
    /\ muxMW' = Append(muxMW, m)
    /\ MuxTouched
    /\ UNCHANGED <<entry, created, routed, registered, entMW, handler, pc, wsig,
                   wEnt, ridx, snapEnt, snapH, snapMux, transport,
                   resp, entMoved>>

\* A goroutine calls mux.Trace() to configure the trace entry.
TraceCall(w, s) ==
    /\ pc[w] = "idle"
    /\ pc' = [pc EXCEPT ![w] = "get"]
    /\ wsig' = [wsig EXCEPT ![w] = s]
    /\ UNCHANGED <<entry, created, routed, registered, muxMW, entMW, handler,
                   wEnt, ridx, snapEnt, snapH, snapMux, transport,
                   resp, entMoved, mixed>>

\* getTraceEntry under mux.mu.RLock (grpc.go:463-467, 539-544): an existing
\* entry is returned, otherwise Trace falls through to newTraceEntry.
GetEntry(w) ==
    /\ pc[w] = "get"
    /\ \/ /\ entry[wsig[w]] # 0
          /\ wEnt' = [wEnt EXCEPT ![w] = entry[wsig[w]]]
          /\ pc' = [pc EXCEPT ![w] = "apply"]
       \/ /\ entry[wsig[w]] = 0
          /\ pc' = [pc EXCEPT ![w] = "create"]
          /\ UNCHANGED wEnt
    /\ UNCHANGED <<entry, created, routed, registered, muxMW, entMW, handler,
                   wsig, ridx, snapEnt, snapH, snapMux, transport,
                   resp, entMoved, mixed>>

\* Mutant: newTraceEntry without the nil re-check under the lock.
NewEntryNoRecheck(w) ==
    /\ pc[w] = "create"
    /\ LET s == wsig[w]
           id == created[s] + 1
       IN /\ entry' = [entry EXCEPT ![s] = id]
          /\ created' = [created EXCEPT ![s] = id]
          /\ entMW' = [entMW EXCEPT ![s] = <<>>]
          /\ handler' = [handler EXCEPT ![s] = NoHandler]
          /\ routed' = [routed EXCEPT ![s] = IF @ = 0 THEN id ELSE @]
          /\ pc' = [pc EXCEPT ![w] = IF routed[s] = 0 THEN "apply" ELSE "panicked"]
          /\ wEnt' = [wEnt EXCEPT ![w] = id]
          /\ EntryTouched(s)
    /\ UNCHANGED <<registered, muxMW, wsig, ridx, snapEnt, snapH, snapMux,
                   transport, resp, mixed>>

\* newTraceEntry under mux.mu.Lock (grpc.go:469-485): if the entry is still
\* nil, a new one (no middleware, no handler) is stored and its path is
\* registered with httpMux, which panics on a pattern already registered.
NewEntry(w) ==
    /\ pc[w] = "create"
    /\ LET s == wsig[w] IN
       \/ /\ entry[s] = 0
          /\ LET id == created[s] + 1 IN
             /\ entry' = [entry EXCEPT ![s] = id]
             /\ created' = [created EXCEPT ![s] = id]
             /\ entMW' = [entMW EXCEPT ![s] = <<>>]
             /\ handler' = [handler EXCEPT ![s] = NoHandler]
             /\ routed' = [routed EXCEPT ![s] = IF @ = 0 THEN id ELSE @]
             /\ pc' = [pc EXCEPT ![w] = IF routed[s] = 0 THEN "apply" ELSE "panicked"]
             /\ wEnt' = [wEnt EXCEPT ![w] = id]
             /\ EntryTouched(s)
       \/ /\ entry[s] # 0
          /\ wEnt' = [wEnt EXCEPT ![w] = entry[s]]
          /\ pc' = [pc EXCEPT ![w] = "apply"]
          /\ UNCHANGED <<entry, created, entMW, handler, routed, entMoved>>
    /\ UNCHANGED <<registered, muxMW, wsig, ridx, snapEnt, snapH, snapMux,
                   transport, resp, mixed>>

\* traceEntry.Use (grpc.go:487-492) on the entry Trace() returned: append
\* under e.mu.  An entry that is no longer mux.trace takes the middleware
\* but no request ever sees it.
EntryUse(w, m) ==
    /\ pc[w] = "apply"
    /\ Len(entMW[wsig[w]]) < MaxMW
    /\ IF wEnt[w] = entry[wsig[w]]
       THEN /\ entMW' = [entMW EXCEPT ![wsig[w]] = Append(@, m)]
            /\ EntryTouched(wsig[w])
       ELSE UNCHANGED <<entMW, entMoved>>
    /\ pc' = [pc EXCEPT ![w] = "idle"]
    /\ UNCHANGED <<entry, created, routed, registered, muxMW, handler, wsig,
                   wEnt, ridx, snapEnt, snapH, snapMux, transport,
                   resp, mixed>>

\* traceEntry.Handle (grpc.go:494-498): replace e.h under e.mu.
EntryHandle(w, h) ==
    /\ pc[w] = "apply"
    /\ IF wEnt[w] = entry[wsig[w]]
       THEN /\ handler' = [handler EXCEPT ![wsig[w]] = h]
            /\ EntryTouched(wsig[w])
       ELSE UNCHANGED <<handler, entMoved>>
    /\ pc' = [pc EXCEPT ![w] = "idle"]
    /\ UNCHANGED <<entry, created, routed, registered, muxMW, entMW, wsig,
                   wEnt, ridx, snapEnt, snapH, snapMux, transport,
                   resp, mixed>>

\* mux.Register(grpcServer), called once: a gRPC server refuses a second
\* registration of the same service.
RegisterCall(w) ==
    /\ pc[w] = "idle"
    /\ ridx = 0
    /\ ridx' = 1
    /\ pc' = [pc EXCEPT ![w] = "register"]
    /\ UNCHANGED <<entry, created, routed, registered, muxMW, entMW, handler,
                   wsig, wEnt, snapEnt, snapH, snapMux, transport,
                   resp, entMoved, mixed>>

\* One of the three getXxxEntry calls of Register (grpc.go:396-406), each
\* under its own mux.mu.RLock: an existing entry is registered.
RegisterStep(w) ==
    /\ pc[w] = "register"
    /\ ridx \in 1..3
    /\ LET s == SignalOrder[ridx] IN
       registered' = IF s \in Sigs /\ entry[s] # 0
                     THEN [registered EXCEPT ![s] = entry[s]]
                     ELSE registered
    /\ ridx' = ridx + 1
    /\ pc' = [pc EXCEPT ![w] = IF ridx = 3 THEN "idle" ELSE "register"]
    /\ UNCHANGED <<entry, created, routed, muxMW, entMW, handler, wsig, wEnt,
                   snapEnt, snapH, snapMux, transport, resp,
                   entMoved, mixed>>

\* A client's Export arrives over gRPC.  The gRPC server routes it to the
\* entry registered for the signal, or answers Unimplemented itself when
\* no service of that name was registered.
GRPCRequest(w, s) ==
    /\ pc[w] = "idle"
    /\ wsig' = [wsig EXCEPT ![w] = s]
    /\ transport' = [transport EXCEPT ![w] = "grpc"]
    /\ \/ /\ registered[s] # 0
          /\ wEnt' = [wEnt EXCEPT ![w] = registered[s]]
          /\ pc' = [pc EXCEPT ![w] = "snap_handler"]
          /\ UNCHANGED resp
       \/ /\ registered[s] = 0
          /\ resp' = [resp EXCEPT ![w] = [transport |-> "grpc",
                        code |-> "Unimplemented", noHandler |-> TRUE]]
          /\ UNCHANGED <<wEnt, pc>>
    /\ UNCHANGED <<entry, created, routed, registered, muxMW, entMW, handler,
                   ridx, snapEnt, snapH, snapMux, entMoved, mixed>>

\* A POST to /v1/<signal> reaches mux.ServeHTTP (grpc.go:408-427): a
\* registered pattern hands it to the entry's proxy handler, which calls
\* the entry's Export; without one the mux answers NotFound (404).
HTTPRequest(w, s) ==
    /\ pc[w] = "idle"
    /\ wsig' = [wsig EXCEPT ![w] = s]
    /\ transport' = [transport EXCEPT ![w] = "http"]
    /\ \/ /\ routed[s] # 0
          /\ wEnt' = [wEnt EXCEPT ![w] = routed[s]]
          /\ pc' = [pc EXCEPT ![w] = "snap_handler"]
          /\ UNCHANGED resp
       \/ /\ routed[s] = 0
          /\ resp' = [resp EXCEPT ![w] = [transport |-> "http",
                        code |-> "NotFound", noHandler |-> TRUE]]
          /\ UNCHANGED <<wEnt, pc>>
    /\ UNCHANGED <<entry, created, routed, registered, muxMW, entMW, handler,
                   ridx, snapEnt, snapH, snapMux, entMoved, mixed>>

\* Export's getHandler under e.mu.RLock (grpc.go:518-522, 504-515): with no
\* handler Export returns Unimplemented; otherwise the entry chain and the
\* handler are snapshotted.
SnapHandler(w) ==
    /\ pc[w] = "snap_handler"
    /\ LET s == wsig[w] IN
       \/ /\ handler[s] = NoHandler
          /\ resp' = [resp EXCEPT ![w] = [transport |-> transport[w],
                        code |-> "Unimplemented", noHandler |-> TRUE]]
          /\ pc' = [pc EXCEPT ![w] = "idle"]
          /\ UNCHANGED <<snapEnt, snapH, entMoved, mixed>>
       \/ /\ handler[s] # NoHandler
          /\ snapEnt' = [snapEnt EXCEPT ![w] = entMW[s]]
          /\ snapH' = [snapH EXCEPT ![w] = handler[s]]
          /\ entMoved' = [entMoved EXCEPT ![w] = FALSE]
          /\ mixed' = [mixed EXCEPT ![w] = FALSE]
          /\ pc' = [pc EXCEPT ![w] = "snap_mux"]
          /\ UNCHANGED resp
    /\ UNCHANGED <<entry, created, routed, registered, muxMW, entMW, handler,
                   wsig, wEnt, ridx, snapMux, transport>>

\* Export's chainedMiddleware under mux.mu.RLock (grpc.go:523, 377-394).
SnapMux(w) ==
    /\ pc[w] = "snap_mux"
    /\ snapMux' = [snapMux EXCEPT ![w] = muxMW]
    /\ pc' = [pc EXCEPT ![w] = "invoke"]
    /\ UNCHANGED <<entry, created, routed, registered, muxMW, entMW, handler,
                   wsig, wEnt, ridx, snapEnt, snapH, transport, resp,
                   entMoved, mixed>>

\* The composed chain runs, without any lock, and the response is returned
\* (grpc.go:526-533); over HTTP the proxy writes it with status 200.  A nil
\* handler would be a nil interface call, a panic.
Invoke(w) ==
    /\ pc[w] = "invoke"
    /\ resp' = [resp EXCEPT ![w] = [transport |-> transport[w], code |-> "OK",
                                    noHandler |-> FALSE]]
    /\ pc' = [pc EXCEPT ![w] = IF snapH[w] = NoHandler THEN "panicked" ELSE "idle"]
    /\ snapEnt' = [snapEnt EXCEPT ![w] = <<>>]
    /\ snapH' = [snapH EXCEPT ![w] = NoHandler]
    /\ snapMux' = [snapMux EXCEPT ![w] = <<>>]
    /\ entMoved' = [entMoved EXCEPT ![w] = FALSE]
    /\ mixed' = [mixed EXCEPT ![w] = FALSE]
    /\ UNCHANGED <<entry, created, routed, registered, muxMW, entMW, handler,
                   wsig, wEnt, ridx, transport>>

-----------------------------------------------------------------------------
Next ==
    \E w \in Workers :
        \/ \E m \in MuxMWs : MuxUse(w, m)
        \/ \E s \in Sigs : TraceCall(w, s)
        \/ GetEntry(w) \/ NewEntry(w)
        \/ \E m \in SigMWs : EntryUse(w, m)
        \/ \E h \in Handlers : EntryHandle(w, h)
        \/ RegisterCall(w) \/ RegisterStep(w)
        \/ \E s \in Sigs : GRPCRequest(w, s) \/ HTTPRequest(w, s)
        \/ SnapHandler(w) \/ SnapMux(w) \/ Invoke(w)

Spec == Init /\ [][Next]_vars

-----------------------------------------------------------------------------
TypeOK ==
    /\ entry \in [Sigs -> Nat]
    /\ created \in [Sigs -> Nat]
    /\ routed \in [Sigs -> Nat]
    /\ registered \in [Sigs -> Nat]
    /\ muxMW \in Seq(MuxMWs)
    /\ entMW \in [Sigs -> Seq(SigMWs)]
    /\ handler \in [Sigs -> Handlers \cup {NoHandler}]
    /\ pc \in [Workers -> WorkerStates]
    /\ wsig \in [Workers -> Sigs]
    /\ wEnt \in [Workers -> Nat]
    /\ ridx \in 0..4
    /\ snapEnt \in [Workers -> Seq(SigMWs)]
    /\ snapH \in [Workers -> Handlers \cup {NoHandler}]
    /\ snapMux \in [Workers -> Seq(MuxMWs)]
    /\ transport \in [Workers -> {"none", "grpc", "http"}]
    /\ resp \in [Workers -> RespType]
    /\ entMoved \in [Workers -> BOOLEAN]
    /\ mixed \in [Workers -> BOOLEAN]

(***************************************************************************)
(* Spec section 4.4, composition order: a dispatch runs the cross-signal   *)
(* middleware in registration order, then the per-signal middleware in     *)
(* registration order, then the handler; first registered is outermost.   *)
(* This checks the loops of chainedMiddleware (grpc.go:384-392) and of     *)
(* getHandler (grpc.go:510-513) and their composition in Export            *)
(* (grpc.go:523-526) on every chain the runs build.                        *)
(***************************************************************************)
ChainOrder ==
    \A w \in Workers :
        pc[w] = "invoke" =>
            RunOrder(snapMux[w], snapEnt[w], snapH[w])
                = snapMux[w] \o snapEnt[w] \o <<snapH[w]>>

(***************************************************************************)
(* Every configuration step reaches the entry that requests are served     *)
(* by: the entry Trace() handed out, the one httpMux routes /v1/<signal>   *)
(* to and the one registered on the gRPC server are all mux.trace, and no  *)
(* goroutine panics registering the path twice.  Two concurrent first      *)
(* calls of Trace() both miss in getTraceEntry (grpc.go:540) and the       *)
(* nil re-check under the lock in newTraceEntry (grpc.go:472) is what      *)
(* makes only one of them create the entry.                                *)
(***************************************************************************)
ConfigReachesLiveEntry ==
    /\ \A w \in Workers :
          /\ pc[w] # "panicked"
          /\ pc[w] = "apply" => wEnt[w] = entry[wsig[w]]
    /\ \A s \in Sigs : routed[s] \in {0, entry[s]} /\ registered[s] \in {0, entry[s]}

(***************************************************************************)
(* Spec section 5: dispatch snapshots the middleware chain and the handler *)
(* at one instant.  Export takes the entry's snapshot under e.mu and the   *)
(* mux's under mux.mu, one after the other (grpc.go:518-523); the check is *)
(* that the pair it runs was the configuration at some single instant.    *)
(***************************************************************************)
DispatchSnapshotAtomic == \A w \in Workers : pc[w] = "invoke" => ~mixed[w]


-----------------------------------------------------------------------------
(* The refinement mapping to AbstractMux: a signal has an entry when       *)
(* mux.trace is not nil, and the live entry's e.middlewares and e.h and    *)
(* mux.middlewares are the abstract configuration.                        *)

AM == INSTANCE AbstractMux
        WITH live <- {s \in Sigs : entry[s] # 0}, mws <- entMW, h <- handler,
             chain <- muxMW

(***************************************************************************)
(* The multiplexer implements AbstractMux: an entry is made once per       *)
(* signal and starts empty, every Use and Handle that takes effect goes to *)
(* that entry, and no step discards a configured entry.  A second          *)
(* newTraceEntry that replaced mux.trace (grpc.go:469-485 without the nil  *)
(* re-check) would drop the middleware and handler already set on it.      *)
(***************************************************************************)
ImplementsAbstractMux == AM!Spec

=============================================================================
