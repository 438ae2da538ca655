----------------------------- MODULE AbstractMux -----------------------------
(***************************************************************************)
(* What the otlptest ServerMux promises about its configuration, with the  *)
(* locks, the lazy creation race and the dispatch left out.                *)
(*                                                                         *)
(* Each signal gets an entry the first time it is asked for, and the entry *)
(* starts with no middleware and no handler.  Use and Handle on a signal   *)
(* add to the configuration of that one entry, and the cross-signal        *)
(* middleware list only grows.  Nothing ever discards a configured entry.  *)
(***************************************************************************)
EXTENDS Sequences

CONSTANTS
    Sigs,       \* the signals
    MuxMWs,     \* cross-signal middleware
    SigMWs,     \* per-signal middleware
    Handlers,   \* handlers
    NoHandler   \* no handler set

VARIABLES
    live,       \* the signals that have an entry
    mws,        \* signal -> its entry's middleware, registration order
    h,          \* signal -> its entry's handler
    chain       \* the cross-signal middleware, registration order

vars == <<live, mws, h, chain>>

TypeOK ==
    /\ live \subseteq Sigs
    /\ mws \in [Sigs -> Seq(SigMWs)]
    /\ h \in [Sigs -> Handlers \cup {NoHandler}]
    /\ chain \in Seq(MuxMWs)

Init ==
    /\ live = {}
    /\ mws = [s \in Sigs |-> <<>>]
    /\ h = [s \in Sigs |-> NoHandler]
    /\ chain = <<>>

\* The first Trace() of signal s makes its entry, unconfigured.
Create(s) ==
    /\ s \notin live
    /\ live' = live \cup {s}
    /\ UNCHANGED <<mws, h, chain>>

\* Use on the entry of s appends m to its middleware.
Use(s, m) ==
    /\ s \in live
    /\ mws' = [mws EXCEPT ![s] = Append(@, m)]
    /\ UNCHANGED <<live, h, chain>>

\* Handle on the entry of s sets its handler.
Handle(s, x) ==
    /\ s \in live
    /\ h' = [h EXCEPT ![s] = x]
    /\ UNCHANGED <<live, mws, chain>>

\* mux.Use appends m to the cross-signal middleware.
MuxUse(m) ==
    /\ chain' = Append(chain, m)
    /\ UNCHANGED <<live, mws, h>>

Next ==
    \/ \E s \in Sigs :
          \/ Create(s)
          \/ \E m \in SigMWs : Use(s, m)
          \/ \E x \in Handlers : Handle(s, x)
    \/ \E m \in MuxMWs : MuxUse(m)

Spec == Init /\ [][Next]_vars

=============================================================================
