--------------------------- MODULE AbstractClient ---------------------------
(***************************************************************************)
(* What otlp.Client promises its callers about gRPC channels, with the    *)
(* locking, the loop over signals and the contexts left out.              *)
(*                                                                         *)
(* The client holds at most one channel per connection fingerprint.  A    *)
(* channel is opened only for a fingerprint that has none, and stays      *)
(* until all of them are closed together.  A gRPC export runs on the      *)
(* channel its fingerprint holds when the export begins, and the channels *)
(* are closed only when no export is running, so an export never loses   *)
(* its channel.                                                           *)
(***************************************************************************)
CONSTANTS
    Threads,   \* the callers
    Hashes,    \* connection fingerprints
    Chans,     \* channel identities
    NoChan     \* no channel

VARIABLES
    channels,  \* fingerprint -> the open channel, or NoChan
    exporting  \* caller -> <<fingerprint, channel>> of its export, or Idle

vars == <<channels, exporting>>

\* A caller that is not exporting over gRPC.
Idle == <<NoChan, NoChan>>

TypeOK ==
    /\ channels \in [Hashes -> Chans \cup {NoChan}]
    /\ exporting \in [Threads -> (Hashes \X Chans) \cup {Idle}]

Init ==
    /\ channels = [h \in Hashes |-> NoChan]
    /\ exporting = [t \in Threads |-> Idle]

\* Open channel c for fingerprint h, which has none.
Connect(h, c) ==
    /\ channels[h] = NoChan
    /\ channels' = [channels EXCEPT ![h] = c]
    /\ UNCHANGED exporting

\* Caller t begins an export on the channel fingerprint h holds.
BeginExport(t, h) ==
    /\ exporting[t] = Idle
    /\ channels[h] # NoChan
    /\ exporting' = [exporting EXCEPT ![t] = <<h, channels[h]>>]
    /\ UNCHANGED channels

\* Caller t's export ends, successfully or not.
EndExport(t) ==
    /\ exporting[t] # Idle
    /\ exporting' = [exporting EXCEPT ![t] = Idle]
    /\ UNCHANGED channels

\* Every channel is closed, once no export is running.
CloseAll ==
    /\ \A t \in Threads : exporting[t] = Idle
    /\ channels' = [h \in Hashes |-> NoChan]
    /\ UNCHANGED exporting

Next ==
    \/ \E h \in Hashes, c \in Chans : Connect(h, c)
    \/ \E t \in Threads :
          \/ \E h \in Hashes : BeginExport(t, h)
          \/ EndExport(t)
    \/ CloseAll

Spec == Init /\ [][Next]_vars

(***************************************************************************)
(* Every running export is on the channel its fingerprint still holds.    *)
(***************************************************************************)
ExportOnLiveChannel ==
    \A t \in Threads :
        exporting[t] # Idle => channels[exporting[t][1]] = exporting[t][2]

=============================================================================
