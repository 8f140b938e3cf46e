----------------------------- MODULE BirdImport -----------------------------
(***************************************************************************)
(* The BIRD route-import coordinator of the route module                   *)
(* (src/modules/route/coordinator/service.go).                             *)
(*                                                                         *)
(* Every SetupConfig call is one "holder" h: it dials its own gRPC         *)
(* connection, plays the static prelude, opens the initial FeedRIB stream  *)
(* and installs itself in the registry m.imports under the mutex, where it *)
(* cancels and closes the predecessor for the same key and spawns its      *)
(* supervisor goroutine runBirdImportLoop.  The supervisor runs the BIRD   *)
(* reader (bird.Export.Run), whose onUpdate/onFlush callbacks send on the  *)
(* holder's current stream, classifies the reader's error, closes the     *)
(* stream, backs off and reconnects with reconnectStream.                  *)
(*                                                                         *)
(* Data is abstracted away: a route is one Send, a batch is a sequence of  *)
(* Sends, timers and backoff intervals are nondeterministic wake-ups.      *)
(***************************************************************************)
EXTENDS Naturals, FiniteSets

CONSTANTS
    Keys,          \* instanceKey values (config name, dataplane instance)
    Holders,       \* one per SetupConfig call: its connection and import
    NoHolder,      \* "absent" in the registry map
    MaxStreams,    \* bound on FeedRIB streams one holder opens
    MaxInflight    \* HTTP/2 flow-control window of a stream, in messages

ASSUME ConstantsAssumption ==
    /\ NoHolder \notin Holders
    /\ MaxStreams \in Nat \ {0}
    /\ MaxInflight \in Nat \ {0}

VARIABLES
    registry,      \* m.imports: key -> holder
    quit,          \* m.quitCh closed
    setupPc,       \* where the SetupConfig call of h is
    key,           \* the key h was called for
    connSt,        \* h's grpc.ClientConn: "none", "open" or "closed" (Shutdown)
    ctxDone,       \* h's streamCtx cancelled
    supPc,         \* where the runBirdImportLoop goroutine of h is
    streamActive,  \* the supervisor's local streamActive
    curSt,         \* the stream in holder.currentStream: open, broken, closed
    streams,       \* FeedRIB streams h opened so far
    inflight,      \* messages Sent on the current stream not yet read by the RIB
    rdPc,          \* the reader inside Run: "check" (select on ctx) or "send"
    runErr,        \* the error export.Run returned
    overtaken,     \* auxiliary: a FlushRoutes of h reached the RIB before
                   \* updates h had sent earlier
    lastCall       \* auxiliary: key -> the holder whose SetupConfig call
                   \* for that key started last

vars == <<registry, quit, setupPc, key, connSt, ctxDone, supPc, streamActive,
          curSt, streams, inflight, rdPc, runErr, overtaken, lastCall>>

SetupPcs == {"idle", "static", "feed", "install", "done",
             "staticFailed", "feedFailed"}
SupPcs   == {"none", "loop", "reconnect", "run", "handle", "backoff", "done"}
StreamSts == {"none", "open", "broken", "closed"}
(* What export.Run returns: nil, ctx.Err(), the onUpdate join of ctx.Err()*)
(* and errStreamClosed, or any other error (BIRD socket, Send, Flush).     *)
RunErrs  == {"nil", "canceled", "closedJoin", "other"}

(* errors.Is(err, context.Canceled) and errors.Is(err, errStreamClosed).   *)
IsCanceled(e)     == e \in {"canceled", "closedJoin"}
IsStreamClosed(e) == e = "closedJoin"

(* The stream of h is torn down by gRPC once its context is cancelled or   *)
(* its connection closed: every Send and FlushRoutes on it fails.          *)
Aborted(h) == ctxDone[h] \/ connSt[h] = "closed"

Installed(h) == supPc[h] # "none"

-----------------------------------------------------------------------------
Init ==
    /\ registry = [k \in Keys |-> NoHolder]
    /\ quit = FALSE
    /\ setupPc = [h \in Holders |-> "idle"]
    /\ key \in [Holders -> Keys]
    /\ connSt = [h \in Holders |-> "none"]
    /\ ctxDone = [h \in Holders |-> FALSE]
    /\ supPc = [h \in Holders |-> "none"]
    /\ streamActive = [h \in Holders |-> FALSE]
    /\ curSt = [h \in Holders |-> "none"]
    /\ streams = [h \in Holders |-> 0]
    /\ inflight = [h \in Holders |-> 0]
    /\ rdPc = [h \in Holders |-> "check"]
    /\ runErr = [h \in Holders |-> "nil"]
    /\ overtaken = [h \in Holders |-> FALSE]
    /\ lastCall = [k \in Keys |-> NoHolder]

(* The deferred cleanup of runBirdImportLoop, run on every return:         *)
(* holder.cancel(); holder.conn.Close().                                   *)
Terminate(h) ==
    /\ ctxDone' = [ctxDone EXCEPT ![h] = TRUE]
    /\ connSt' = [connSt EXCEPT ![h] = "closed"]
    /\ supPc' = [supPc EXCEPT ![h] = "done"]

-----------------------------------------------------------------------------
(***************************** SetupConfig ********************************)

(* SetupConfig after the YAML parsed: grpc.NewClient never dials, so it    *)
(* yields an open connection.                                              *)
SetupConfigCall(h) ==
    /\ setupPc[h] = "idle"
    /\ setupPc' = [setupPc EXCEPT ![h] = "static"]
    /\ connSt' = [connSt EXCEPT ![h] = "open"]
    /\ lastCall' = [lastCall EXCEPT ![key[h]] = h]
    /\ UNCHANGED <<registry, quit, key, ctxDone, supPc, streamActive, curSt,
                   streams, inflight, rdPc, runErr, overtaken>>

(* InsertRoute per static route, then FlushRoutes.  An RPC error returns   *)
(* without closing conn.  With no BIRD sockets the connection is closed.   *)
StaticPrelude(h) ==
    /\ setupPc[h] = "static"
    /\ \/ /\ setupPc' = [setupPc EXCEPT ![h] = "staticFailed"]
          /\ UNCHANGED connSt
       \/ /\ setupPc' = [setupPc EXCEPT ![h] = "done"]
          /\ connSt' = [connSt EXCEPT ![h] = "closed"]
       \/ /\ setupPc' = [setupPc EXCEPT ![h] = "feed"]
          /\ UNCHANGED connSt
    /\ UNCHANGED <<registry, quit, key, lastCall, ctxDone, supPc,
                   streamActive, curSt, streams, inflight, rdPc, runErr,
                   overtaken>>

(* processBirdImport up to the lock: FeedRIB(streamCtx).  On error it      *)
(* cancels streamCtx and returns, leaving conn open.                       *)
InitialFeed(h) ==
    /\ setupPc[h] = "feed"
    /\ \/ /\ setupPc' = [setupPc EXCEPT ![h] = "install"]
          /\ curSt' = [curSt EXCEPT ![h] = "open"]
          /\ streams' = [streams EXCEPT ![h] = 1]
          /\ UNCHANGED ctxDone
       \/ /\ setupPc' = [setupPc EXCEPT ![h] = "feedFailed"]
          /\ ctxDone' = [ctxDone EXCEPT ![h] = TRUE]
          /\ UNCHANGED <<curSt, streams>>
    /\ UNCHANGED <<registry, quit, key, lastCall, connSt, supPc, streamActive,
                   inflight, rdPc, runErr, overtaken>>

(* Mutant: the replacement branch is lost, the predecessor keeps its       *)
(* context and connection.                                                 *)
InstallKeepsPredecessor(h) ==
    /\ setupPc[h] = "install"
    /\ registry' = [registry EXCEPT ![key[h]] = h]
    /\ setupPc' = [setupPc EXCEPT ![h] = "done"]
    /\ supPc' = [supPc EXCEPT ![h] = "loop"]
    /\ streamActive' = [streamActive EXCEPT ![h] = TRUE]
    /\ UNCHANGED <<quit, key, lastCall, connSt, ctxDone, curSt, streams,
                   inflight, rdPc, runErr, overtaken>>

(* Mutant: the first import of a key is kept and a later one is dropped  *)
(* (the store is done only when the key is absent).                        *)
InstallFirstWins(h) ==
    LET k   == key[h]
        old == registry[k]
    IN
    /\ setupPc[h] = "install"
    /\ registry' = IF old = NoHolder THEN [registry EXCEPT ![k] = h]
                                     ELSE registry
    /\ setupPc' = [setupPc EXCEPT ![h] = "done"]
    /\ supPc' = [supPc EXCEPT ![h] = "loop"]
    /\ streamActive' = [streamActive EXCEPT ![h] = TRUE]
    /\ UNCHANGED <<quit, key, lastCall, connSt, ctxDone, curSt, streams,
                   inflight, rdPc, runErr, overtaken>>

(* The critical section of processBirdImport, atomic under importsMu:      *)
(* cancel and close the predecessor, store h, spawn its supervisor.        *)
Install(h) ==
    LET k   == key[h]
        old == registry[k]
    IN
    /\ setupPc[h] = "install"
    /\ registry' = [registry EXCEPT ![k] = h]
    /\ ctxDone' = [g \in Holders |-> IF g = old THEN TRUE ELSE ctxDone[g]]
    /\ connSt' = [g \in Holders |-> IF g = old THEN "closed" ELSE connSt[g]]
    /\ setupPc' = [setupPc EXCEPT ![h] = "done"]
    /\ supPc' = [supPc EXCEPT ![h] = "loop"]
    /\ streamActive' = [streamActive EXCEPT ![h] = TRUE]
    /\ UNCHANGED <<quit, key, lastCall, curSt, streams, inflight, rdPc,
                   runErr, overtaken>>

-----------------------------------------------------------------------------
(************************** runBirdImportLoop *****************************)

(* Top of the loop: the select on ctx and quitCh, the Shutdown check, and  *)
(* reconnection when the stream is not active; otherwise start Run.        *)
Preflight(h) ==
    /\ supPc[h] = "loop"
    /\ \/ /\ ctxDone[h] \/ quit \/ connSt[h] = "closed"
          /\ Terminate(h)
          /\ UNCHANGED rdPc
       \/ /\ ~(ctxDone[h] \/ quit \/ connSt[h] = "closed")
          /\ supPc' = [supPc EXCEPT ![h] =
                          IF streamActive[h] THEN "run" ELSE "reconnect"]
          /\ rdPc' = [rdPc EXCEPT ![h] = "check"]
          /\ UNCHANGED <<ctxDone, connSt>>
    /\ UNCHANGED <<registry, quit, setupPc, key, lastCall, streamActive,
                   curSt, streams, inflight, runErr, overtaken>>

(* Mutant: reconnectStream's select without the ctx.Done() case.          *)
ReconnectAbortQuitOnly(h) ==
    /\ supPc[h] = "reconnect"
    /\ quit
    /\ Terminate(h)
    /\ UNCHANGED <<registry, quit, setupPc, key, lastCall, streamActive,
                   curSt, streams, inflight, rdPc, runErr, overtaken>>

(* reconnectStream: the select on quitCh and ctx.Done() returns false,    *)
(* and the loop returns.                                                   *)
ReconnectAbort(h) ==
    /\ supPc[h] = "reconnect"
    /\ ctxDone[h] \/ quit
    /\ Terminate(h)
    /\ UNCHANGED <<registry, quit, setupPc, key, lastCall, streamActive,
                   curSt, streams, inflight, rdPc, runErr, overtaken>>

(* reconnectStream: a tick whose FeedRIB(ctx) succeeds stores the new     *)
(* stream in the slot; the loop sets streamActive and starts Run.  A       *)
(* failing FeedRIB changes nothing and waits for the next tick.            *)
ReconnectTick(h) ==
    /\ supPc[h] = "reconnect"
    /\ ~Aborted(h)
    /\ streams[h] < MaxStreams
    /\ curSt' = [curSt EXCEPT ![h] = "open"]
    /\ streams' = [streams EXCEPT ![h] = @ + 1]
    /\ inflight' = [inflight EXCEPT ![h] = 0]
    /\ streamActive' = [streamActive EXCEPT ![h] = TRUE]
    /\ supPc' = [supPc EXCEPT ![h] = "run"]
    /\ rdPc' = [rdPc EXCEPT ![h] = "check"]
    /\ UNCHANGED <<registry, quit, setupPc, key, lastCall, connSt, ctxDone,
                   runErr, overtaken>>

(* CloseAndRecv on the current stream: half-close and wait for the        *)
(* summary.  Once it returns, nothing of this stream is in flight.          *)
CloseCurrent(h) ==
    /\ curSt' = [curSt EXCEPT ![h] = "closed"]
    /\ inflight' = [inflight EXCEPT ![h] = 0]

(* Mutant: the loop retries after a reader error without CloseAndRecv on  *)
(* the old stream.                                                         *)
HandleRunResultNoClose(h) ==
    LET e == runErr[h] IN
    /\ supPc[h] = "handle"
    /\ \/ /\ e = "nil" \/ IsCanceled(e)
          /\ Terminate(h)
          /\ UNCHANGED streamActive
       \/ /\ e # "nil" /\ ~IsCanceled(e)
          /\ streamActive' = [streamActive EXCEPT ![h] = FALSE]
          /\ supPc' = [supPc EXCEPT ![h] = "backoff"]
          /\ UNCHANGED <<ctxDone, connSt>>
    /\ UNCHANGED <<registry, quit, setupPc, key, lastCall, curSt, streams,
                   inflight, rdPc, runErr, overtaken>>

(* The loop is about to call CloseAndRecv itself: Run returned an error    *)
(* that is not a cancellation and does not carry errStreamClosed.          *)
LoopClosesStream(h) ==
    LET e == runErr[h] IN
    supPc[h] = "handle" /\ e # "nil" /\ ~IsCanceled(e) /\ ~IsStreamClosed(e)

(* The loop after export.Run returned.                                     *)
HandleRunResult(h) ==
    LET e == runErr[h] IN
    /\ supPc[h] = "handle"
    /\ \/ /\ e = "nil" \/ IsCanceled(e)
          /\ Terminate(h)
          /\ UNCHANGED <<streamActive, curSt, inflight>>
       \/ /\ e # "nil" /\ ~IsCanceled(e)
          /\ streamActive' = [streamActive EXCEPT ![h] = FALSE]
          /\ IF IsStreamClosed(e) THEN UNCHANGED <<curSt, inflight>>
                                  ELSE CloseCurrent(h)
          /\ supPc' = [supPc EXCEPT ![h] = "backoff"]
          /\ UNCHANGED <<ctxDone, connSt>>
    /\ UNCHANGED <<registry, quit, setupPc, key, lastCall, streams, rdPc,
                   runErr, overtaken>>

(* The backoff select: ctx.Done() or quitCh returns; the timer loops.      *)
Backoff(h) ==
    /\ supPc[h] = "backoff"
    /\ \/ /\ ctxDone[h] \/ quit
          /\ Terminate(h)
       \/ /\ supPc' = [supPc EXCEPT ![h] = "loop"]
          /\ UNCHANGED <<ctxDone, connSt>>
    /\ UNCHANGED <<registry, quit, setupPc, key, lastCall, streamActive,
                   curSt, streams, inflight, rdPc, runErr, overtaken>>

-----------------------------------------------------------------------------
(********************** callbacks and the reader ***************************)

(* export.Run returns err: control goes back to the loop.                  *)
RunReturns(h, e) ==
    /\ runErr' = [runErr EXCEPT ![h] = e]
    /\ supPc' = [supPc EXCEPT ![h] = "handle"]

(* Mutant: on cancellation onUpdate closes the stream and returns the     *)
(* close error alone, without the errStreamClosed sentinel and ctx.Err().  *)
UpdateCheckNoSentinel(h) ==
    /\ supPc[h] = "run"
    /\ rdPc[h] = "check"
    /\ \/ /\ ctxDone[h]
          /\ CloseCurrent(h)
          /\ RunReturns(h, "other")
          /\ UNCHANGED rdPc
       \/ /\ ~ctxDone[h]
          /\ rdPc' = [rdPc EXCEPT ![h] = "send"]
          /\ UNCHANGED <<curSt, inflight, supPc, runErr>>
    /\ UNCHANGED <<registry, quit, setupPc, key, lastCall, connSt, ctxDone,
                   streamActive, streams, overtaken>>

(* onUpdate, before each route: the select on ctx.Done().  When cancelled *)
(* it closes the current stream and returns the joined error, which the   *)
(* reader propagates out of Run.                                           *)
UpdateCheck(h) ==
    /\ supPc[h] = "run"
    /\ rdPc[h] = "check"
    /\ \/ /\ ctxDone[h]
          /\ CloseCurrent(h)
          /\ RunReturns(h, "closedJoin")
          /\ UNCHANGED rdPc
       \/ /\ ~ctxDone[h]
          /\ rdPc' = [rdPc EXCEPT ![h] = "send"]
          /\ UNCHANGED <<curSt, inflight, supPc, runErr>>
    /\ UNCHANGED <<registry, quit, setupPc, key, lastCall, connSt, ctxDone,
                   streamActive, streams, overtaken>>

(* Mutant: updates are handed off without waiting for the stream's flow-  *)
(* control window (an unbounded send buffer).                              *)
UpdateSendUnbounded(h) ==
    /\ supPc[h] = "run"
    /\ rdPc[h] = "send"
    /\ \/ /\ curSt[h] = "open" /\ ~Aborted(h)
          /\ inflight' = [inflight EXCEPT ![h] = @ + 1]
          /\ rdPc' = [rdPc EXCEPT ![h] = "check"]
          /\ UNCHANGED <<supPc, runErr>>
       \/ /\ curSt[h] # "open" \/ Aborted(h)
          /\ RunReturns(h, "other")
          /\ UNCHANGED <<inflight, rdPc>>
    /\ UNCHANGED <<registry, quit, setupPc, key, lastCall, connSt, ctxDone,
                   streamActive, curSt, streams, overtaken>>

(* onUpdate: Send on *holder.currentStream.  It blocks while the flow-    *)
(* control window is full; it fails once the stream is broken or torn      *)
(* down, and the error stops the reader.                                   *)
UpdateSend(h) ==
    /\ supPc[h] = "run"
    /\ rdPc[h] = "send"
    /\ \/ /\ curSt[h] = "open" /\ ~Aborted(h)
          /\ inflight[h] < MaxInflight
          /\ inflight' = [inflight EXCEPT ![h] = @ + 1]
          /\ rdPc' = [rdPc EXCEPT ![h] = "check"]
          /\ UNCHANGED <<supPc, runErr>>
       \/ /\ curSt[h] # "open" \/ Aborted(h)
          /\ RunReturns(h, "other")
          /\ UNCHANGED <<inflight, rdPc>>
    /\ UNCHANGED <<registry, quit, setupPc, key, lastCall, connSt, ctxDone,
                   streamActive, curSt, streams, overtaken>>

(* onFlush between batches: the unary FlushRoutes(streamCtx) goes on its   *)
(* own HTTP/2 stream, so the RIB may serve it before reading the updates   *)
(* still in flight on the FeedRIB stream.  An error stops the reader.      *)
Flush(h) ==
    /\ supPc[h] = "run"
    /\ rdPc[h] = "check"
    /\ \/ /\ ~Aborted(h)
          /\ overtaken' = [overtaken EXCEPT ![h] = @ \/ inflight[h] > 0]
          /\ UNCHANGED <<supPc, runErr>>
       \/ /\ RunReturns(h, "other")
          /\ UNCHANGED overtaken
    /\ UNCHANGED <<registry, quit, setupPc, key, lastCall, connSt, ctxDone,
                   streamActive, curSt, streams, inflight, rdPc>>

(* The reader stops by itself: it honours ctx (returns ctx.Err()), fails   *)
(* on the BIRD side, or returns nil.                                       *)
ReaderStops(h) ==
    /\ supPc[h] = "run"
    /\ rdPc[h] = "check"
    /\ \/ /\ ctxDone[h]
          /\ RunReturns(h, "canceled")
       \/ RunReturns(h, "other")
       \/ RunReturns(h, "nil")
    /\ UNCHANGED <<registry, quit, setupPc, key, lastCall, connSt, ctxDone,
                   streamActive, curSt, streams, inflight, rdPc, overtaken>>

-----------------------------------------------------------------------------
(************************ the RIB side and the process *********************)

(* The RIB's FeedRIB handler reads one message of the stream of h.         *)
Deliver(h) ==
    /\ inflight[h] > 0
    /\ curSt[h] = "open"
    /\ inflight' = [inflight EXCEPT ![h] = @ - 1]
    /\ UNCHANGED <<registry, quit, setupPc, key, lastCall, connSt, ctxDone,
                   supPc, streamActive, curSt, streams, rdPc, runErr,
                   overtaken>>

(* The stream fails on the server or in transport; what was in flight is   *)
(* lost.                                                                   *)
StreamBreak(h) ==
    /\ curSt[h] = "open"
    /\ ~Aborted(h)
    /\ curSt' = [curSt EXCEPT ![h] = "broken"]
    /\ inflight' = [inflight EXCEPT ![h] = 0]
    /\ UNCHANGED <<registry, quit, setupPc, key, lastCall, connSt, ctxDone,
                   supPc, streamActive, streams, rdPc, runErr, overtaken>>

(* Process shutdown closes m.quitCh.                                       *)
Quit ==
    /\ ~quit
    /\ quit' = TRUE
    /\ UNCHANGED <<registry, setupPc, key, lastCall, connSt, ctxDone, supPc,
                   streamActive, curSt, streams, inflight, rdPc, runErr,
                   overtaken>>

-----------------------------------------------------------------------------
Supervisor(h) ==
    \/ Preflight(h) \/ ReconnectAbort(h) \/ ReconnectTick(h)
    \/ HandleRunResult(h) \/ Backoff(h)

Reader(h) == UpdateCheck(h) \/ UpdateSend(h) \/ Flush(h) \/ ReaderStops(h)

Setup(h) == SetupConfigCall(h) \/ StaticPrelude(h) \/ InitialFeed(h) \/ Install(h)

Next ==
    \/ \E h \in Holders :
          Setup(h) \/ Supervisor(h) \/ Reader(h) \/ Deliver(h) \/ StreamBreak(h)
    \/ Quit

Spec == Init /\ [][Next]_vars

(* A caller that serialises SetupConfig per key: a call for a key starts   *)
(* only once no earlier call for that key is still on its way to the       *)
(* mutex (it has returned, or installed its import).                       *)
SerialSetupConfigCall(h) ==
    /\ \A g \in Holders :
          key[g] = key[h] => setupPc[g] \notin {"static", "feed", "install"}
    /\ SetupConfigCall(h)

SerialNext ==
    \/ \E h \in Holders :
          \/ SerialSetupConfigCall(h)
          \/ StaticPrelude(h) \/ InitialFeed(h) \/ Install(h)
          \/ Supervisor(h) \/ Reader(h) \/ Deliver(h) \/ StreamBreak(h)
    \/ Quit

SerialSpec == Init /\ [][SerialNext]_vars

(* Fairness the code justifies: the supervisor goroutine keeps being       *)
(* scheduled (its timers and tickers fire), a Send that can complete or    *)
(* fail does, and the reader honours a cancelled context, as the           *)
(* bird.Export contract requires.  When BIRD has nothing to export the     *)
(* reader may wait forever, and the RIB and SetupConfig callers get no     *)
(* fairness.                                                               *)
Fairness ==
    \A h \in Holders :
        /\ WF_vars(Supervisor(h))
        /\ WF_vars(UpdateSend(h))
        /\ WF_vars(ctxDone[h] /\ Reader(h))

FairSpec == Spec /\ Fairness

-----------------------------------------------------------------------------
(******************************* properties ********************************)

TypeOK ==
    /\ registry \in [Keys -> Holders \cup {NoHolder}]
    /\ quit \in BOOLEAN
    /\ setupPc \in [Holders -> SetupPcs]
    /\ key \in [Holders -> Keys]
    /\ connSt \in [Holders -> {"none", "open", "closed"}]
    /\ ctxDone \in [Holders -> BOOLEAN]
    /\ supPc \in [Holders -> SupPcs]
    /\ streamActive \in [Holders -> BOOLEAN]
    /\ curSt \in [Holders -> StreamSts]
    /\ streams \in [Holders -> 0..MaxStreams]
    /\ inflight \in [Holders -> 0..MaxInflight]
    /\ rdPc \in [Holders -> {"check", "send"}]
    /\ runErr \in [Holders -> RunErrs]
    /\ overtaken \in [Holders -> BOOLEAN]
    /\ lastCall \in [Keys -> Holders \cup {NoHolder}]

(* Replacement (processBirdImport under importsMu): an import that was     *)
(* installed and is no longer the registry's entry for its key has had its *)
(* context cancelled and its connection closed, whatever order concurrent  *)
(* SetupConfig calls for that key reached the mutex in.                    *)
SupersededImportReleased ==
    \A h \in Holders :
        Installed(h) /\ registry[key[h]] # h
            => ctxDone[h] /\ connSt[h] = "closed"

(* runBirdImportLoop/reconnectStream: when a new FeedRIB stream is stored  *)
(* in holder.currentStream, the stream it replaces is no longer open       *)
(* (closed by CloseAndRecv, or broken), so no stream is leaked.            *)
NoStreamLeakOnReconnect ==
    [][\A h \in Holders :
          streams'[h] > streams[h] /\ streams[h] > 0 => curSt[h] # "open"]_vars

(* Spec 4.2 and 5, the errStreamClosed sentinel: when runBirdImportLoop    *)
(* reaches its CloseAndRecv (Run failed with an error that is neither a    *)
(* cancellation nor carries the sentinel), the current stream has not      *)
(* already been closed by onUpdate's cancellation path: a stream is never  *)
(* closed twice, however cancellation interleaves with the reader.         *)
CloseAndRecvOnce ==
    \A h \in Holders : LoopClosesStream(h) => curSt[h] # "closed"

(* A cancelled import (replaced, or its loop returning) eventually has no  *)
(* running supervisor: every blocking point of runBirdImportLoop and       *)
(* reconnectStream watches ctx.                                            *)
CancelledImportTerminates ==
    \A h \in Holders : ctxDone[h] ~> supPc[h] \in {"none", "done"}

(* The refinement mapping to the registry's abstract specification: an     *)
(* import is installed once its supervisor was spawned, and released once  *)
(* its context is cancelled and its connection closed.                     *)
InstalledSet == {h \in Holders : Installed(h)}
ReleasedSet  == {h \in InstalledSet : ctxDone[h] /\ connSt[h] = "closed"}

Registry == INSTANCE ImportRegistry
                WITH entry <- registry, keyOf <- key,
                     installed <- InstalledSet, released <- ReleasedSet

(* processBirdImport and the cleanup of runBirdImportLoop implement the    *)
(* registry: every step installs an import while releasing the one it     *)
(* replaces under importsMu, releases an installed import for good, or    *)
(* leaves the registry's view unchanged.                                   *)
RegistryRefinement == Registry!Spec

(* The refinement mapping to the stream discipline of an import: the slot *)
(* is holder.currentStream, what is pending is what the RIB has not read,  *)
(* and an import is live until its context is cancelled or its connection  *)
(* closed.                                                                 *)
StreamLive == [h \in Holders |-> ~Aborted(h)]

Stream == INSTANCE ImportStream
              WITH slot <- curSt, pending <- inflight, live <- StreamLive,
                   opened <- streams

(* processBirdImport, onUpdate, reconnectStream and the loop's cleanup     *)
(* implement the stream discipline: every step opens a stream only for a   *)
(* live import whose slot holds no open stream, sends only on the open     *)
(* stream of a live import, closes an existing stream at most once,        *)
(* releases an import for good, or leaves the streams' view unchanged.     *)
StreamRefinement == Stream!Spec

(* Spec 5: FlushRoutes is a barrier between update batches: when the RIB   *)
(* serves an import's flush, every update the import sent before it has    *)
(* reached the RIB.                                                        *)
FlushIsBarrier ==
    \A h \in Holders : ~overtaken[h]

(* Spec 7: when the initial FeedRIB of processBirdImport fails, no holder  *)
(* is installed and the connection setupConfig dialled is closed.          *)
SetupFailureReleasesConn ==
    \A h \in Holders : setupPc[h] = "feedFailed" => connSt[h] # "open"

(* Spec 8, replacement-idempotence: of two SetupConfig submissions for the *)
(* same key the second one's import is the one left active.  Once the      *)
(* import of the key's latest SetupConfig call is installed, it stays the  *)
(* key's entry: processBirdImport of an earlier, slower call for the same  *)
(* key must not take the mutex after it and replace it.                    *)
SecondSubmissionWins ==
    \A k \in Keys :
        lastCall[k] # NoHolder /\ Installed(lastCall[k])
            => registry[k] = lastCall[k]

(* Spec 5: closing quitCh cancels every import: eventually no supervisor   *)
(* is running.                                                             *)
QuitStopsImports ==
    quit ~> \A h \in Holders : supPc[h] \in {"none", "done"}


=============================================================================
