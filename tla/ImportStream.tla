---------------------------- MODULE ImportStream ----------------------------
(***************************************************************************)
(* What an import promises about its FeedRIB streams (holder.currentStream *)
(* and the RIB end of them), without setup, registry or supervisor steps.  *)
(*                                                                         *)
(* An import is live until it is released (its context cancelled or its   *)
(* connection closed); a release is never undone.  The slot holds at most  *)
(* one stream at a time: a new stream is opened only by a live import and  *)
(* only when the slot holds no open stream; updates are sent only by a     *)
(* live import on the open stream, within the flow-control window; a       *)
(* stream is closed (CloseAndRecv) at most once, and only a stream that    *)
(* exists; closing or breaking a stream drops what it still had in flight. *)
(***************************************************************************)
EXTENDS Naturals

CONSTANTS
    Holders,       \* imports
    MaxStreams,    \* bound on the streams one import opens
    MaxInflight    \* flow-control window of a stream, in messages

VARIABLES
    slot,          \* import -> its current stream: none, open, broken, closed
    pending,       \* import -> updates sent on the current stream, not read
    live,          \* import -> not yet released
    opened         \* import -> streams opened so far

svars == <<slot, pending, live, opened>>

Init ==
    /\ slot = [h \in Holders |-> "none"]
    /\ pending = [h \in Holders |-> 0]
    /\ live = [h \in Holders |-> TRUE]
    /\ opened = [h \in Holders |-> 0]

(* FeedRIB succeeds and its stream is stored in the slot.                 *)
OpenStream(h) ==
    /\ live[h]
    /\ slot[h] # "open"
    /\ opened[h] < MaxStreams
    /\ slot' = [slot EXCEPT ![h] = "open"]
    /\ pending' = [pending EXCEPT ![h] = 0]
    /\ opened' = [opened EXCEPT ![h] = @ + 1]
    /\ UNCHANGED live

(* onUpdate's Send goes through.                                           *)
SendUpdate(h) ==
    /\ live[h]
    /\ slot[h] = "open"
    /\ pending[h] < MaxInflight
    /\ pending' = [pending EXCEPT ![h] = @ + 1]
    /\ UNCHANGED <<slot, live, opened>>

(* The RIB reads one update of the open stream.                            *)
DeliverUpdate(h) ==
    /\ slot[h] = "open"
    /\ pending[h] > 0
    /\ pending' = [pending EXCEPT ![h] = @ - 1]
    /\ UNCHANGED <<slot, live, opened>>

(* The stream of a live import fails in transport or on the server.        *)
BreakStream(h) ==
    /\ live[h]
    /\ slot[h] = "open"
    /\ slot' = [slot EXCEPT ![h] = "broken"]
    /\ pending' = [pending EXCEPT ![h] = 0]
    /\ UNCHANGED <<live, opened>>

(* CloseAndRecv on the stream in the slot, which exists and was not closed.*)
CloseStream(h) ==
    /\ slot[h] \in {"open", "broken"}
    /\ slot' = [slot EXCEPT ![h] = "closed"]
    /\ pending' = [pending EXCEPT ![h] = 0]
    /\ UNCHANGED <<live, opened>>

(* The import's context is cancelled or its connection closed.             *)
ReleaseStream(h) ==
    /\ live[h]
    /\ live' = [live EXCEPT ![h] = FALSE]
    /\ UNCHANGED <<slot, pending, opened>>

Next ==
    \E h \in Holders :
        \/ OpenStream(h) \/ SendUpdate(h) \/ DeliverUpdate(h)
        \/ BreakStream(h) \/ CloseStream(h) \/ ReleaseStream(h)

Spec == Init /\ [][Next]_svars

=============================================================================
