-------------------------- MODULE BirdImportProofs --------------------------
(***************************************************************************)
(* Proofs about BirdImport, for every set of keys and holders and every    *)
(* bound: the type invariant; that the replacement protocol of             *)
(* processBirdImport releases every superseded import; the action          *)
(* property of reconnectStream; that the loop never closes                 *)
(* a stream twice; that the coordinator implements the abstract registry   *)
(* (ImportRegistry) and the stream discipline (ImportStream); and that     *)
(* serialised callers get the second submission's import.                  *)
(***************************************************************************)
EXTENDS BirdImport, TLAPS

(* The registry only holds installed imports, under their own key.         *)
RegistryConsistent ==
    \A k \in Keys :
        registry[k] # NoHolder
            => registry[k] \in Holders /\ Installed(registry[k])
               /\ key[registry[k]] = k

(* A SetupConfig call that has not reached the mutex has no supervisor.    *)
SetupBeforeSupervisor ==
    \A h \in Holders :
        setupPc[h] \in {"idle", "static", "feed", "install"} => ~Installed(h)

(* The inductive strengthening of SupersededImportReleased.                *)
IInv ==
    /\ TypeOK
    /\ RegistryConsistent
    /\ SetupBeforeSupervisor
    /\ SupersededImportReleased

(* The stream slot between Run and reconnectStream: reconnectStream only   *)
(* runs with streamActive false, and while streamActive is false at the    *)
(* loop's blocking points the old stream has been closed or has broken.    *)
(* Before the initial FeedRIB no stream exists.                            *)
StreamSlotInv ==
    /\ TypeOK
    /\ \A h \in Holders : supPc[h] = "reconnect" => ~streamActive[h]
    /\ \A h \in Holders :
          supPc[h] \in {"loop", "reconnect", "backoff"} /\ ~streamActive[h]
              => curSt[h] # "open"
    /\ \A h \in Holders : setupPc[h] \in {"idle", "static", "feed"} => streams[h] = 0

(* A SetupConfig call still on its way to the mutex holds an uncancelled   *)
(* context and, once it has dialled, an open connection.                   *)
SetupLive ==
    \A h \in Holders :
        /\ setupPc[h] \in {"idle", "static", "feed", "install"} => ~ctxDone[h]
        /\ setupPc[h] \in {"static", "feed", "install"} => connSt[h] = "open"

(* The stream in the slot between the loop's CloseAndRecv and the next     *)
(* FeedRIB: before the supervisor exists no stream has been closed; while  *)
(* streamActive holds at the top of the loop and in Run the stream is not  *)
(* closed; reconnectStream and the backoff sleep run with streamActive     *)
(* false; Run is only entered with streamActive true.                      *)
CloseInv ==
    /\ TypeOK
    /\ \A h \in Holders :
          setupPc[h] \in {"idle", "static", "feed", "install"}
              => curSt[h] # "closed"
    /\ \A h \in Holders :
          supPc[h] \in {"loop", "run"} /\ streamActive[h] => curSt[h] # "closed"
    /\ \A h \in Holders : supPc[h] = "run" => streamActive[h]
    /\ \A h \in Holders : supPc[h] \in {"reconnect", "backoff"} => ~streamActive[h]
    /\ CloseAndRecvOnce

(* What the stream slot holds in each phase of a holder: nothing is in    *)
(* flight on a stream that is not open; no stream exists and no connection *)
(* was dialled before the setup steps that create them; from the initial   *)
(* FeedRIB on, the slot holds a stream.                                    *)
StreamInv ==
    /\ TypeOK
    /\ \A h \in Holders : curSt[h] # "open" => inflight[h] = 0
    /\ \A h \in Holders :
          setupPc[h] \in {"idle", "static", "feed"} => curSt[h] = "none"
    /\ \A h \in Holders : setupPc[h] = "idle" => connSt[h] = "none"
    /\ \A h \in Holders :
          setupPc[h] = "install" \/ Installed(h) => curSt[h] # "none"

-----------------------------------------------------------------------------
(* Every step keeps the variables in their types.                         *)
LEMMA TypeStep == TypeOK /\ [Next]_vars => TypeOK'
<1> USE ConstantsAssumption
<1> SUFFICES ASSUME TypeOK, [Next]_vars PROVE TypeOK'
  OBVIOUS
<1> USE DEF TypeOK, SetupPcs, SupPcs, StreamSts, RunErrs
<1>1. ASSUME NEW h \in Holders, SetupConfigCall(h) PROVE TypeOK'
  BY <1>1 DEF SetupConfigCall
<1>2. ASSUME NEW h \in Holders, StaticPrelude(h) PROVE TypeOK'
  BY <1>2 DEF StaticPrelude
<1>3. ASSUME NEW h \in Holders, InitialFeed(h) PROVE TypeOK'
  <2>1. /\ setupPc' \in [Holders -> SetupPcs]
        /\ curSt' \in [Holders -> StreamSts]
        /\ streams' \in [Holders -> 0..MaxStreams]
        /\ ctxDone' \in [Holders -> BOOLEAN]
    <3>1. 1 \in 0..MaxStreams
      OBVIOUS
    <3>2. QED
      BY <1>3, <3>1, Zenon DEF InitialFeed
  <2>2. UNCHANGED <<lastCall, registry, quit, key, connSt, supPc, streamActive,
                    inflight, rdPc, runErr, overtaken>>
    BY <1>3 DEF InitialFeed
  <2>3. QED
    BY <2>1, <2>2
<1>4. ASSUME NEW h \in Holders, Install(h) PROVE TypeOK'
  <2>1. /\ registry' \in [Keys -> Holders \cup {NoHolder}]
        /\ ctxDone' \in [Holders -> BOOLEAN]
        /\ connSt' \in [Holders -> {"none", "open", "closed"}]
        /\ setupPc' \in [Holders -> SetupPcs]
        /\ supPc' \in [Holders -> SupPcs]
        /\ streamActive' \in [Holders -> BOOLEAN]
    BY <1>4, Zenon DEF Install
  <2>2. UNCHANGED <<lastCall, quit, key, curSt, streams, inflight, rdPc, runErr,
                    overtaken>>
    BY <1>4 DEF Install
  <2>3. QED
    BY <2>1, <2>2
<1>5. ASSUME NEW h \in Holders, Preflight(h) PROVE TypeOK'
  <2>1. /\ ctxDone' \in [Holders -> BOOLEAN]
        /\ connSt' \in [Holders -> {"none", "open", "closed"}]
        /\ supPc' \in [Holders -> SupPcs]
        /\ rdPc' \in [Holders -> {"check", "send"}]
    BY <1>5, Zenon DEF Preflight, Terminate
  <2>2. UNCHANGED <<lastCall, registry, quit, setupPc, key, streamActive, curSt,
                    streams, inflight, runErr, overtaken>>
    BY <1>5 DEF Preflight
  <2>3. QED
    BY <2>1, <2>2
<1>6. ASSUME NEW h \in Holders, ReconnectAbort(h) PROVE TypeOK'
  BY <1>6 DEF ReconnectAbort, Terminate
<1>7. ASSUME NEW h \in Holders, ReconnectTick(h) PROVE TypeOK'
  BY <1>7 DEF ReconnectTick
<1>8. ASSUME NEW h \in Holders, HandleRunResult(h) PROVE TypeOK'
  <2>1. /\ ctxDone' \in [Holders -> BOOLEAN]
        /\ connSt' \in [Holders -> {"none", "open", "closed"}]
        /\ supPc' \in [Holders -> SupPcs]
        /\ streamActive' \in [Holders -> BOOLEAN]
        /\ curSt' \in [Holders -> StreamSts]
        /\ inflight' \in [Holders -> 0..MaxInflight]
    <3>1. CASE runErr[h] = "nil" \/ IsCanceled(runErr[h])
      BY <1>8, <3>1, Zenon DEF HandleRunResult, Terminate
    <3>2. CASE ~(runErr[h] = "nil" \/ IsCanceled(runErr[h]))
      <4>1. ~IsStreamClosed(runErr[h])
        BY <3>2 DEF IsCanceled, IsStreamClosed
      <4>2. /\ curSt' = [curSt EXCEPT ![h] = "closed"]
            /\ inflight' = [inflight EXCEPT ![h] = 0]
        BY <1>8, <3>2, <4>1 DEF HandleRunResult, CloseCurrent
      <4>3. /\ supPc' = [supPc EXCEPT ![h] = "backoff"]
            /\ streamActive' = [streamActive EXCEPT ![h] = FALSE]
            /\ UNCHANGED <<ctxDone, connSt>>
        BY <1>8, <3>2 DEF HandleRunResult
      <4>4. QED
        BY <4>2, <4>3
    <3>3. QED
      BY <3>1, <3>2
  <2>2. UNCHANGED <<lastCall, registry, quit, setupPc, key, streams, rdPc, runErr,
                    overtaken>>
    BY <1>8 DEF HandleRunResult
  <2>3. QED
    BY <2>1, <2>2
<1>9. ASSUME NEW h \in Holders, Backoff(h) PROVE TypeOK'
  <2>1. /\ ctxDone' \in [Holders -> BOOLEAN]
        /\ connSt' \in [Holders -> {"none", "open", "closed"}]
        /\ supPc' \in [Holders -> SupPcs]
    BY <1>9, Zenon DEF Backoff, Terminate
  <2>2. UNCHANGED <<lastCall, registry, quit, setupPc, key, streamActive, curSt,
                    streams, inflight, rdPc, runErr, overtaken>>
    BY <1>9 DEF Backoff
  <2>3. QED
    BY <2>1, <2>2
<1>10. ASSUME NEW h \in Holders, UpdateCheck(h) PROVE TypeOK'
  BY <1>10 DEF UpdateCheck, CloseCurrent, RunReturns
<1>11. ASSUME NEW h \in Holders, UpdateSend(h) PROVE TypeOK'
  BY <1>11 DEF UpdateSend, RunReturns
<1>12. ASSUME NEW h \in Holders, Flush(h) PROVE TypeOK'
  BY <1>12, Zenon DEF Flush, RunReturns
<1>13. ASSUME NEW h \in Holders, ReaderStops(h) PROVE TypeOK'
  <2>1. /\ runErr' \in [Holders -> RunErrs]
        /\ supPc' \in [Holders -> SupPcs]
    BY <1>13 DEF ReaderStops, RunReturns
  <2>2. UNCHANGED <<lastCall, registry, quit, setupPc, key, connSt, ctxDone, streamActive,
                   curSt, streams, inflight, rdPc, overtaken>>
    BY <1>13 DEF ReaderStops
  <2>3. QED
    BY <2>1, <2>2
<1>14. ASSUME NEW h \in Holders, Deliver(h) PROVE TypeOK'
  BY <1>14 DEF Deliver
<1>15. ASSUME NEW h \in Holders, StreamBreak(h) PROVE TypeOK'
  BY <1>15 DEF StreamBreak
<1>16. CASE Quit
  BY <1>16 DEF Quit
<1>17. CASE UNCHANGED vars
  BY <1>17 DEF vars
<1>18. QED
  BY <1>1, <1>2, <1>3, <1>4, <1>5, <1>6, <1>7, <1>8, <1>9, <1>10, <1>11, <1>12, <1>13, <1>14, <1>15, <1>16, <1>17
     DEF Next, Setup, Supervisor, Reader

(* The initial state is well typed.                                      *)
LEMMA InitTypeOK == Init => TypeOK
<1> SUFFICES ASSUME Init PROVE TypeOK
  OBVIOUS
<1> USE DEF Init, TypeOK
<1>1. registry \in [Keys -> Holders \cup {NoHolder}]
  BY ConstantsAssumption
<1>2. /\ setupPc \in [Holders -> SetupPcs]
      /\ supPc \in [Holders -> SupPcs]
      /\ curSt \in [Holders -> StreamSts]
      /\ runErr \in [Holders -> RunErrs]
  BY DEF SetupPcs, SupPcs, StreamSts, RunErrs
<1>3. /\ streams \in [Holders -> 0..MaxStreams]
      /\ inflight \in [Holders -> 0..MaxInflight]
  BY ConstantsAssumption
<1>4. QED
  BY <1>1, <1>2, <1>3, Zenon

(* Type correctness of the coordinator model.                              *)
THEOREM TypeCorrect == Spec => []TypeOK
<1>1. Init => TypeOK
  BY InitTypeOK
<1>2. TypeOK /\ [Next]_vars => TypeOK'
  BY TypeStep
<1>3. QED
  BY <1>1, <1>2, PTL DEF Spec

-----------------------------------------------------------------------------
(* Every step preserves IInv.  Only Install touches the registry; the      *)
(* other steps only ever cancel contexts and close connections, which      *)
(* cannot undo a release, and SetupConfigCall, the one step that opens a   *)
(* connection, acts on a holder that has no supervisor yet.                *)
LEMMA IInvInductive == IInv /\ [Next]_vars => IInv'
<1> USE ConstantsAssumption
<1> SUFFICES ASSUME IInv, [Next]_vars PROVE IInv'
  BY SMTT(30)
<1>0. TypeOK'
  BY TypeStep DEF IInv
<1> USE DEF IInv, RegistryConsistent, SetupBeforeSupervisor,
            SupersededImportReleased, Installed, TypeOK
<1>1. ASSUME NEW h \in Holders, SetupConfigCall(h) PROVE IInv'
  BY <1>0, <1>1 DEF SetupConfigCall
<1>2. ASSUME NEW h \in Holders, StaticPrelude(h) PROVE IInv'
  BY <1>0, <1>2 DEF StaticPrelude
<1>3. ASSUME NEW h \in Holders, InitialFeed(h) PROVE IInv'
  BY <1>0, <1>3 DEF InitialFeed
<1>4. ASSUME NEW h \in Holders, Install(h) PROVE IInv'
  <2> DEFINE k == key[h]
             old == registry[k]
  <2>1. RegistryConsistent'
    BY <1>4 DEF Install
  <2>2. SetupBeforeSupervisor'
    BY <1>4 DEF Install
  <2>3. SupersededImportReleased'
    <3> SUFFICES ASSUME NEW g \in Holders, Installed(g)', registry'[key'[g]] # g
                 PROVE ctxDone'[g] /\ connSt'[g] = "closed"
      OBVIOUS
    <3>1. CASE g = old
      BY <1>4, <3>1 DEF Install
    <3>2. CASE g # old
      <4>1. g # h /\ Installed(g)
        BY <1>4, <3>2 DEF Install
      <4>2. registry[key[g]] # g
        BY <1>4, <3>2 DEF Install
      <4>3. QED
        BY <1>4, <3>2, <4>1, <4>2 DEF Install
    <3>3. QED
      BY <3>1, <3>2
  <2>4. QED
    BY <1>0, <2>1, <2>2, <2>3
<1>5. ASSUME NEW h \in Holders, Supervisor(h) PROVE IInv'
  BY <1>0, <1>5 DEF Supervisor, Preflight, ReconnectAbort, ReconnectTick,
                    HandleRunResult, CloseCurrent, Backoff, Terminate
<1>6. ASSUME NEW h \in Holders, Reader(h) PROVE IInv'
  BY <1>0, <1>6 DEF Reader, UpdateCheck, UpdateSend, Flush, ReaderStops,
                    RunReturns, CloseCurrent
<1>7. ASSUME NEW h \in Holders, Deliver(h) \/ StreamBreak(h) PROVE IInv'
  BY <1>0, <1>7 DEF Deliver, StreamBreak
<1>8. CASE Quit
  BY <1>0, <1>8 DEF Quit
<1>9. CASE UNCHANGED vars
  BY <1>9 DEF vars
<1>10. QED
  BY <1>1, <1>2, <1>3, <1>4, <1>5, <1>6, <1>7, <1>8, <1>9
     DEF Next, Setup

LEMMA InitIInv == Init => IInv
<1> SUFFICES ASSUME Init PROVE IInv
  BY SMTT(30)
<1>1. TypeOK
  BY InitTypeOK
<1>2. RegistryConsistent /\ SetupBeforeSupervisor /\ SupersededImportReleased
  BY ConstantsAssumption
  DEF Init, RegistryConsistent, SetupBeforeSupervisor,
      SupersededImportReleased, Installed
<1>3. QED
  BY <1>1, <1>2 DEF IInv

LEMMA IInvHolds == Spec => []IInv
BY InitIInv, IInvInductive, PTL DEF Spec

(* Replacement releases the predecessor: every installed import that is no *)
(* longer the registry's entry for its key has been cancelled and its      *)
(* connection closed (processBirdImport, under importsMu).                 *)
THEOREM SupersededReleased == Spec => []SupersededImportReleased
<1>1. IInv => SupersededImportReleased
  BY DEF IInv
<1>2. QED
  BY <1>1, IInvHolds, PTL

-----------------------------------------------------------------------------
(* The stream slot stays consistent.  streamActive turns false only after  *)
(* a reader error that is not a cancellation, and then the loop has just   *)
(* closed the stream with CloseAndRecv: the sentinel errStreamClosed that  *)
(* would skip it always comes joined with ctx.Err() and ends the loop.     *)
(* reconnectStream is entered only with streamActive false.                *)
LEMMA StreamSlotStep ==
    IInv /\ StreamSlotInv /\ [Next]_vars => StreamSlotInv'
<1> SUFFICES ASSUME IInv, StreamSlotInv, [Next]_vars PROVE StreamSlotInv'
  OBVIOUS
<1>0. TypeOK'
  BY TypeStep DEF StreamSlotInv
<1> USE DEF StreamSlotInv, TypeOK
<1>1. ASSUME NEW h \in Holders, Setup(h) PROVE StreamSlotInv'
  <2>1. CASE SetupConfigCall(h) \/ StaticPrelude(h)
    BY <1>0, <2>1 DEF SetupConfigCall, StaticPrelude
  <2>2. CASE InitialFeed(h)
    <3>1. supPc[h] = "none" /\ UNCHANGED <<supPc, streamActive>>
      BY <2>2 DEF InitialFeed, IInv, SetupBeforeSupervisor, Installed
    <3>2. setupPc'[h] \in {"install", "feedFailed"}
      BY <2>2 DEF InitialFeed
    <3>3. \A g \in Holders \ {h} :
             /\ setupPc'[g] = setupPc[g]
             /\ curSt'[g] = curSt[g]
             /\ streams'[g] = streams[g]
      BY <2>2 DEF InitialFeed
    <3>4. QED
      BY <1>0, <3>1, <3>2, <3>3
  <2>3. CASE Install(h)
    BY <1>0, <2>3, Zenon DEF Install
  <2>4. QED
    BY <1>1, <2>1, <2>2, <2>3 DEF Setup
<1>2. ASSUME NEW h \in Holders, Supervisor(h) PROVE StreamSlotInv'
  <2>1. CASE Preflight(h)
    BY <1>0, <2>1 DEF Preflight, Terminate
  <2>2. CASE ReconnectAbort(h) \/ Backoff(h)
    BY <1>0, <2>2 DEF ReconnectAbort, Backoff, Terminate
  <2>5. CASE ReconnectTick(h)
    <3>1. /\ supPc' = [supPc EXCEPT ![h] = "run"]
          /\ streamActive' = [streamActive EXCEPT ![h] = TRUE]
          /\ curSt' = [curSt EXCEPT ![h] = "open"]
          /\ UNCHANGED setupPc
          /\ streams'[h] > 0
      BY <2>5 DEF ReconnectTick
    <3>2. \A g \in Holders \ {h} : streams'[g] = streams[g]
      BY <2>5 DEF ReconnectTick
    <3>4. setupPc[h] \notin {"idle", "static", "feed"}
      BY <2>5 DEF ReconnectTick, IInv, SetupBeforeSupervisor, Installed
    <3>3. QED
      BY <1>0, <3>1, <3>2, <3>4
  <2>3. CASE HandleRunResult(h)
    <3>1. CASE runErr[h] = "nil" \/ IsCanceled(runErr[h])
      BY <1>0, <2>3, <3>1 DEF HandleRunResult, Terminate
    <3>2. CASE ~(runErr[h] = "nil" \/ IsCanceled(runErr[h]))
      <4>1. ~IsStreamClosed(runErr[h])
        BY <3>2 DEF IsCanceled, IsStreamClosed
      <4>2. /\ curSt' = [curSt EXCEPT ![h] = "closed"]
            /\ streamActive' = [streamActive EXCEPT ![h] = FALSE]
            /\ supPc' = [supPc EXCEPT ![h] = "backoff"]
            /\ UNCHANGED <<setupPc, streams>>
        BY <2>3, <3>2, <4>1 DEF HandleRunResult, CloseCurrent
      <4>3. QED
        BY <1>0, <4>2
    <3>3. QED
      BY <3>1, <3>2
  <2>4. QED
    BY <1>2, <2>1, <2>2, <2>3, <2>5 DEF Supervisor
<1>3. ASSUME NEW h \in Holders, Reader(h) PROVE StreamSlotInv'
  BY <1>0, <1>3 DEF Reader, UpdateCheck, UpdateSend, Flush, ReaderStops,
                    RunReturns, CloseCurrent
<1>4. ASSUME NEW h \in Holders, Deliver(h) \/ StreamBreak(h) PROVE StreamSlotInv'
  BY <1>0, <1>4 DEF Deliver, StreamBreak
<1>5. CASE Quit
  BY <1>0, <1>5 DEF Quit
<1>6. CASE UNCHANGED vars
  BY <1>6 DEF vars
<1>7. QED
  BY <1>1, <1>2, <1>3, <1>4, <1>5, <1>6 DEF Next

LEMMA InitStreamSlot == Init => StreamSlotInv
BY InitTypeOK DEF Init, StreamSlotInv

(* A step that opens a further FeedRIB stream of a holder (the store of    *)
(* reconnectStream into the slot) replaces a stream that is no longer      *)
(* open.  The initial FeedRIB is the holder's first stream.                *)
LEMMA NoStreamLeakStep ==
    StreamSlotInv /\ [Next]_vars
        => \A g \in Holders :
              streams'[g] > streams[g] /\ streams[g] > 0 => curSt[g] # "open"
<1> SUFFICES ASSUME StreamSlotInv, [Next]_vars, NEW g \in Holders,
                    streams'[g] > streams[g], streams[g] > 0
             PROVE  curSt[g] # "open"
  OBVIOUS
<1> USE DEF StreamSlotInv, TypeOK
<1>1. ASSUME NEW h \in Holders, ReconnectTick(h) PROVE curSt[g] # "open"
  BY <1>1 DEF ReconnectTick
<1>2. ASSUME NEW h \in Holders, InitialFeed(h) PROVE FALSE
  BY <1>2 DEF InitialFeed
<1>3. ASSUME NEW h \in Holders,
             SetupConfigCall(h) \/ StaticPrelude(h) \/ Install(h)
      PROVE FALSE
  <2>1. UNCHANGED streams
    BY <1>3, Zenon DEF SetupConfigCall, StaticPrelude, Install
  <2>2. QED
    BY <2>1
<1>7. ASSUME NEW h \in Holders,
             Preflight(h) \/ ReconnectAbort(h) \/ Backoff(h)
      PROVE FALSE
  BY <1>7 DEF Preflight, ReconnectAbort, Backoff
<1>4. ASSUME NEW h \in Holders, HandleRunResult(h) \/ Reader(h) PROVE FALSE
  BY <1>4 DEF HandleRunResult, Reader, UpdateCheck, UpdateSend, Flush,
              ReaderStops, RunReturns, CloseCurrent
<1>5. ASSUME NEW h \in Holders, Deliver(h) \/ StreamBreak(h) PROVE FALSE
  BY <1>5 DEF Deliver, StreamBreak
<1>6. QED
  BY <1>1, <1>2, <1>3, <1>4, <1>5, <1>7
  DEF Next, Setup, Supervisor, Quit, vars

(* reconnectStream never overwrites holder.currentStream while the stream  *)
(* it holds is still open: no FeedRIB stream is leaked by a reconnection.  *)
THEOREM NoStreamLeak == Spec => NoStreamLeakOnReconnect
<1>1. StreamSlotInv /\ [Next]_vars
        => [\A h \in Holders :
              streams'[h] > streams[h] /\ streams[h] > 0 => curSt[h] # "open"]_vars
  BY NoStreamLeakStep
<1>2. Spec => []StreamSlotInv /\ [][Next]_vars
  BY IInvHolds, InitStreamSlot, StreamSlotStep, IInvInductive, PTL DEF Spec
<1>3. QED
  BY <1>1, <1>2, PTL DEF NoStreamLeakOnReconnect


-----------------------------------------------------------------------------
(* CloseInv is preserved.  A stream is closed only by onUpdate's           *)
(* cancellation path, which leaves Run with the sentinel joined to         *)
(* ctx.Err(), and by the loop's own CloseAndRecv, after which streamActive *)
(* is false until reconnectStream stores an open stream; setup steps of a  *)
(* holder never close its stream.                                          *)
LEMMA CloseInvStep == IInv /\ CloseInv /\ [Next]_vars => CloseInv'
<1> SUFFICES ASSUME IInv, CloseInv, [Next]_vars PROVE CloseInv'
  BY SMTT(30)
<1>0. TypeOK'
  BY TypeStep DEF CloseInv
<1> USE DEF CloseInv, CloseAndRecvOnce, LoopClosesStream, TypeOK
<1>1. ASSUME NEW h \in Holders, Setup(h) PROVE CloseInv'
  <2>1. CASE SetupConfigCall(h) \/ StaticPrelude(h) \/ InitialFeed(h)
    BY <1>0, <2>1 DEF SetupConfigCall, StaticPrelude, InitialFeed
  <2>2. CASE Install(h)
    <3>1. curSt[h] # "closed"
      BY <2>2 DEF Install
    <3>2. /\ supPc' = [supPc EXCEPT ![h] = "loop"]
          /\ streamActive' = [streamActive EXCEPT ![h] = TRUE]
          /\ setupPc' = [setupPc EXCEPT ![h] = "done"]
          /\ UNCHANGED <<curSt, runErr>>
      BY <2>2 DEF Install
    <3>3. QED
      BY <1>0, <3>1, <3>2
  <2>3. QED
    BY <1>1, <2>1, <2>2 DEF Setup
<1>2. ASSUME NEW h \in Holders, Supervisor(h) PROVE CloseInv'
  <2>1. CASE Preflight(h) \/ ReconnectAbort(h) \/ Backoff(h)
    BY <1>0, <2>1, SMTT(30) DEF Preflight, ReconnectAbort, Backoff, Terminate
  <2>2. CASE ReconnectTick(h)
    BY <1>0, <2>2 DEF ReconnectTick
  <2>3. CASE HandleRunResult(h)
    <3>1. setupPc[h] \notin {"idle", "static", "feed", "install"}
      BY <2>3, SMTT(30)
         DEF HandleRunResult, IInv, SetupBeforeSupervisor, Installed
    <3>2. CASE runErr[h] = "nil" \/ IsCanceled(runErr[h])
      BY <1>0, <2>3, <3>2, SMTT(30) DEF HandleRunResult, Terminate
    <3>3. CASE ~(runErr[h] = "nil" \/ IsCanceled(runErr[h]))
      <4>1. ~IsStreamClosed(runErr[h])
        BY <3>3 DEF IsCanceled, IsStreamClosed
      <4>2. /\ curSt' = [curSt EXCEPT ![h] = "closed"]
            /\ streamActive' = [streamActive EXCEPT ![h] = FALSE]
            /\ supPc' = [supPc EXCEPT ![h] = "backoff"]
            /\ UNCHANGED <<setupPc, runErr>>
        BY <2>3, <3>3, <4>1, SMTT(30) DEF HandleRunResult, CloseCurrent
      <4>3. QED
        BY <1>0, <3>1, <4>2
    <3>4. QED
      BY <3>2, <3>3, SMTT(30)
  <2>4. QED
    BY <1>2, <2>1, <2>2, <2>3 DEF Supervisor
<1>3. ASSUME NEW h \in Holders, Reader(h) PROVE CloseInv'
  <2>1. setupPc[h] \notin {"idle", "static", "feed", "install"}
    BY <1>3, Zenon DEF Reader, UpdateCheck, UpdateSend, Flush, ReaderStops,
                IInv, SetupBeforeSupervisor, Installed
  <2>2. CASE UpdateCheck(h)
    BY <1>0, <2>1, <2>2 DEF UpdateCheck, RunReturns, CloseCurrent,
                            IsCanceled, IsStreamClosed
  <2>3. CASE UpdateSend(h) \/ Flush(h) \/ ReaderStops(h)
    BY <1>0, <2>3 DEF UpdateSend, Flush, ReaderStops, RunReturns
  <2>4. QED
    BY <1>3, <2>2, <2>3, SMTT(30) DEF Reader
<1>4. ASSUME NEW h \in Holders, Deliver(h) \/ StreamBreak(h) PROVE CloseInv'
  BY <1>0, <1>4 DEF Deliver, StreamBreak
<1>5. CASE Quit
  BY <1>0, <1>5 DEF Quit
<1>6. CASE UNCHANGED vars
  BY <1>6 DEF vars
<1>7. QED
  BY <1>1, <1>2, <1>3, <1>4, <1>5, <1>6 DEF Next

LEMMA InitCloseInv == Init => CloseInv
BY InitTypeOK DEF Init, CloseInv, CloseAndRecvOnce, LoopClosesStream

(* For every bound: the loop's CloseAndRecv after a failed Run never      *)
(* closes a stream that onUpdate's cancellation path closed already, so    *)
(* no FeedRIB stream is closed twice.                                      *)
THEOREM CloseOnce == Spec => []CloseAndRecvOnce
<1>1. CloseInv => CloseAndRecvOnce
  BY SMTT(30) DEF CloseInv
<1>2. QED
  BY <1>1, IInvHolds, InitCloseInv, CloseInvStep, IInvInductive, PTL DEF Spec

-----------------------------------------------------------------------------
(* SetupLive is preserved: the setup steps of a holder only move it along  *)
(* idle, static, feed, install and open its connection; the initial        *)
(* FeedRIB failure leaves that range; and every other step that cancels a  *)
(* context or closes a connection acts on an installed holder, which by    *)
(* SetupBeforeSupervisor has finished its setup.                           *)
LEMMA SetupLiveStep == IInv /\ SetupLive /\ [Next]_vars => SetupLive'
<1> SUFFICES ASSUME IInv, SetupLive, [Next]_vars PROVE SetupLive'
  BY SMTT(30)
<1> USE ConstantsAssumption DEF IInv, SetupLive, TypeOK
<1>1. ASSUME NEW h \in Holders,
             SetupConfigCall(h) \/ StaticPrelude(h) \/ InitialFeed(h)
      PROVE SetupLive'
  BY <1>1, SMTT(30) DEF SetupConfigCall, StaticPrelude, InitialFeed
<1>2. ASSUME NEW h \in Holders, Install(h) PROVE SetupLive'
  <2> DEFINE old == registry[key[h]]
  <2>1. old # NoHolder => /\ old \in Holders
                          /\ setupPc[old] \notin {"idle", "static", "feed", "install"}
    BY DEF RegistryConsistent, SetupBeforeSupervisor, Installed
  <2>5. old # h
    <3>1. setupPc[h] = "install"
      BY <1>2 DEF Install
    <3>2. QED
      BY <3>1 DEF RegistryConsistent, SetupBeforeSupervisor, Installed
  <2>2. \A g \in Holders \ {old} :
           ctxDone'[g] = ctxDone[g] /\ connSt'[g] = connSt[g]
    BY <1>2, Zenon DEF Install
  <2>3. setupPc' = [setupPc EXCEPT ![h] = "done"]
    BY <1>2 DEF Install
  <2>4. QED
    BY <2>1, <2>2, <2>3, <2>5
<1>3. ASSUME NEW h \in Holders, Supervisor(h) PROVE SetupLive'
  <2>1. setupPc[h] \notin {"idle", "static", "feed", "install"}
    BY <1>3 DEF Supervisor, Preflight, ReconnectAbort, ReconnectTick,
                HandleRunResult, Backoff, SetupBeforeSupervisor, Installed
  <2>2. /\ UNCHANGED setupPc
        /\ \A g \in Holders \ {h} :
              ctxDone'[g] = ctxDone[g] /\ connSt'[g] = connSt[g]
    BY <1>3 DEF Supervisor, Preflight, ReconnectAbort, ReconnectTick,
                HandleRunResult, Backoff, Terminate
  <2>3. QED
    BY <2>1, <2>2
<1>4. ASSUME NEW h \in Holders, Reader(h) \/ Deliver(h) \/ StreamBreak(h)
      PROVE SetupLive'
  BY <1>4 DEF Reader, UpdateCheck, UpdateSend, Flush, ReaderStops,
              RunReturns, CloseCurrent, Deliver, StreamBreak
<1>5. CASE Quit \/ UNCHANGED vars
  BY <1>5 DEF Quit, vars
<1>6. QED
  BY <1>1, <1>2, <1>3, <1>4, <1>5 DEF Next, Setup

-----------------------------------------------------------------------------
(* The registry's view is unchanged by a step that leaves the registry and *)
(* the keys alone, spawns no supervisor, and touches the context and the   *)
(* connection of no installed holder.                                      *)
LEMMA RegistryStutter ==
    ASSUME UNCHANGED <<registry, key>>,
           \A g \in Holders :
              /\ Installed(g)' = Installed(g)
              /\ Installed(g) => ctxDone'[g] = ctxDone[g] /\ connSt'[g] = connSt[g]
    PROVE  UNCHANGED Registry!avars
<1>1. InstalledSet' = InstalledSet
  BY DEF InstalledSet
<1>2. ReleasedSet' = ReleasedSet
  BY <1>1 DEF ReleasedSet, InstalledSet
<1>3. QED
  BY <1>1, <1>2 DEF Registry!avars

(* A step of an installed holder h that cancels its context and closes its *)
(* connection, and changes no other holder's view, is the release of h or, *)
(* when h was already released by its replacement, a stutter.              *)
LEMMA RegistryRelease ==
    ASSUME NEW h \in Holders, Installed(h), Installed(h)',
           ctxDone'[h], connSt'[h] = "closed",
           UNCHANGED <<registry, key>>,
           \A g \in Holders \ {h} :
              /\ Installed(g)' = Installed(g)
              /\ Installed(g) => ctxDone'[g] = ctxDone[g] /\ connSt'[g] = connSt[g]
    PROVE  [Registry!Next]_Registry!avars
<1>1. InstalledSet' = InstalledSet
  BY SMTT(30) DEF InstalledSet
<1>2. ReleasedSet' = ReleasedSet \cup {h}
  BY <1>1 DEF ReleasedSet, InstalledSet
<1>3. CASE h \in ReleasedSet
  BY <1>1, <1>2, <1>3 DEF Registry!avars
<1>4. CASE h \notin ReleasedSet
  <2>1. Registry!ReleaseImport(h)
    BY <1>1, <1>2, <1>4 DEF Registry!ReleaseImport, InstalledSet
  <2>2. QED
    BY <2>1 DEF Registry!Next
<1>5. QED
  BY <1>3, <1>4

(* Every step of the coordinator is a step of the registry or leaves its   *)
(* view unchanged: Install is InstallImport, the deferred cleanup of a     *)
(* returning loop is ReleaseImport (or a stutter for a replaced import),   *)
(* and every other step touches no installed holder's context or          *)
(* connection.                                                             *)
LEMMA RefinementStep ==
    IInv /\ SetupLive /\ [Next]_vars => [Registry!Next]_Registry!avars
<1> SUFFICES ASSUME IInv, SetupLive, [Next]_vars
             PROVE  [Registry!Next]_Registry!avars
  OBVIOUS
<1> USE ConstantsAssumption DEF IInv, TypeOK
<1>1. ASSUME NEW h \in Holders,
             SetupConfigCall(h) \/ StaticPrelude(h) \/ InitialFeed(h)
      PROVE  [Registry!Next]_Registry!avars
  <2>1. /\ UNCHANGED <<registry, key, supPc>>
        /\ \A g \in Holders \ {h} :
              ctxDone'[g] = ctxDone[g] /\ connSt'[g] = connSt[g]
        /\ setupPc[h] \in {"idle", "static", "feed"}
    BY <1>1, SMTT(30) DEF SetupConfigCall, StaticPrelude, InitialFeed
  <2>2. ~Installed(h)
    BY <2>1, SMTT(30) DEF SetupBeforeSupervisor
  <2>3. UNCHANGED Registry!avars
    BY <2>1, <2>2, RegistryStutter, Zenon DEF Installed
  <2>4. QED
    BY <2>3
<1>2. ASSUME NEW h \in Holders, Install(h) PROVE [Registry!Next]_Registry!avars
  <2> DEFINE k == key[h]
             old == registry[k]
  <2>1. /\ setupPc[h] = "install"
        /\ registry' = [registry EXCEPT ![k] = h]
        /\ supPc' = [supPc EXCEPT ![h] = "loop"]
        /\ ctxDone' = [g \in Holders |-> IF g = old THEN TRUE ELSE ctxDone[g]]
        /\ connSt' = [g \in Holders |-> IF g = old THEN "closed" ELSE connSt[g]]
        /\ UNCHANGED key
    BY <1>2 DEF Install
  <2>2. /\ ~Installed(h)
        /\ ~ctxDone[h]
        /\ old # NoHolder => old \in InstalledSet
        /\ old # h
    BY <2>1 DEF SetupBeforeSupervisor, SetupLive, RegistryConsistent,
                InstalledSet
  <2>3. h \notin InstalledSet
    BY <2>2 DEF InstalledSet
  <2>4. InstalledSet' = InstalledSet \cup {h}
    BY <2>1 DEF InstalledSet, Installed
  <2>5. ReleasedSet' = ReleasedSet \cup ({old} \ {NoHolder})
    BY <2>1, <2>2, <2>4, ZenonT(30) DEF ReleasedSet, InstalledSet, Installed
  <2>6. Registry!InstallImport(h)
    BY <2>1, <2>3, <2>4, <2>5 DEF Registry!InstallImport
  <2>7. QED
    BY <2>6 DEF Registry!Next
<1>3. ASSUME NEW h \in Holders, Supervisor(h) PROVE [Registry!Next]_Registry!avars
  <2>1. /\ Installed(h) /\ Installed(h)'
        /\ UNCHANGED <<registry, key>>
        /\ \A g \in Holders \ {h} :
              /\ supPc'[g] = supPc[g]
              /\ ctxDone'[g] = ctxDone[g] /\ connSt'[g] = connSt[g]
        /\ \/ ctxDone'[h] /\ connSt'[h] = "closed"
           \/ ctxDone'[h] = ctxDone[h] /\ connSt'[h] = connSt[h]
    BY <1>3 DEF Supervisor, Preflight, ReconnectAbort, ReconnectTick,
                HandleRunResult, CloseCurrent, Backoff, Terminate, Installed
  <2>2. CASE ctxDone'[h] /\ connSt'[h] = "closed"
    BY <2>1, <2>2, RegistryRelease, ZenonT(30) DEF Installed
  <2>3. CASE ctxDone'[h] = ctxDone[h] /\ connSt'[h] = connSt[h]
    <3>1. UNCHANGED Registry!avars
      BY <2>1, <2>3, RegistryStutter, Zenon DEF Installed
    <3>2. QED
      BY <3>1, SMTT(30)
  <2>4. QED
    BY <2>1, <2>2, <2>3
<1>4. ASSUME NEW h \in Holders, Reader(h) \/ Deliver(h) \/ StreamBreak(h)
      PROVE  [Registry!Next]_Registry!avars
  <2>1. /\ UNCHANGED <<registry, key, ctxDone, connSt>>
        /\ \A g \in Holders : Installed(g)' = Installed(g)
    BY <1>4 DEF Reader, UpdateCheck, UpdateSend, Flush, ReaderStops,
                RunReturns, CloseCurrent, Deliver, StreamBreak, Installed
  <2>2. UNCHANGED Registry!avars
    BY <2>1, RegistryStutter
  <2>3. QED
    BY <2>2, SMTT(30)
<1>5. CASE Quit \/ UNCHANGED vars
  <2>1. UNCHANGED Registry!avars
    BY <1>5, RegistryStutter DEF Quit, vars, Installed
  <2>2. QED
    BY <2>1
<1>6. QED
  BY <1>1, <1>2, <1>3, <1>4, <1>5 DEF Next, Setup

(* processBirdImport together with the cleanup of runBirdImportLoop        *)
(* implements the abstract registry (ImportRegistry) under the mapping     *)
(* InstalledSet/ReleasedSet.                                               *)
THEOREM RegistryRefined == Spec => RegistryRefinement
<1>1. Init => Registry!Init
  BY DEF Init, Registry!Init, InstalledSet, ReleasedSet, Installed
<1>2. Init => SetupLive
  BY DEF Init, SetupLive
<1>3. Spec => [](IInv /\ SetupLive) /\ [][Next]_vars
  BY <1>2, InitIInv, IInvInductive, SetupLiveStep, PTL DEF Spec
<1>4. QED
  BY <1>1, <1>3, RefinementStep, PTL
  DEF Spec, RegistryRefinement, Registry!Spec

(* No key ever has two live imports: every installed import whose context  *)
(* is not cancelled or whose connection is still open is the registry's    *)
(* entry for its key.  It follows from the refinement and the registry's   *)
(* own invariant.                                                          *)
THEOREM OneLiveImportPerKey == Spec => []Registry!LiveImportIsEntry
<1>1. Registry!Spec => []Registry!LiveImportIsEntry
  BY ConstantsAssumption, Registry!LiveImportIsEntryHolds, SMTT(30)
<1>2. QED
  BY <1>1, RegistryRefined, PTL DEF RegistryRefinement

-----------------------------------------------------------------------------
(* StreamInv is preserved: a holder's stream is created only by its        *)
(* initial FeedRIB, which ends the early setup phases, and every step that *)
(* leaves a stream not open empties what was in flight on it.              *)
LEMMA StreamInvStep == IInv /\ StreamInv /\ [Next]_vars => StreamInv'
<1> SUFFICES ASSUME IInv, StreamInv, [Next]_vars PROVE StreamInv'
  BY SMTT(30)
<1>0. TypeOK'
  BY TypeStep, SMTT(30) DEF StreamInv
<1> USE DEF StreamInv, TypeOK, Installed
<1>1. ASSUME NEW h \in Holders, Setup(h) PROVE StreamInv'
  <2>1. CASE SetupConfigCall(h) \/ StaticPrelude(h) \/ InitialFeed(h)
    BY <1>0, <2>1 DEF SetupConfigCall, StaticPrelude, InitialFeed
  <2>2. CASE Install(h)
    <3> DEFINE old == registry[key[h]]
    <3>1. old # NoHolder => setupPc[old] # "idle"
      BY DEF IInv, RegistryConsistent, SetupBeforeSupervisor
    <3>2. /\ setupPc[h] = "install"
          /\ setupPc' = [setupPc EXCEPT ![h] = "done"]
          /\ supPc' = [supPc EXCEPT ![h] = "loop"]
          /\ connSt' = [g \in Holders |-> IF g = old THEN "closed" ELSE connSt[g]]
          /\ UNCHANGED <<curSt, inflight>>
      BY <2>2 DEF Install
    <3>3. \A g \in Holders : setupPc'[g] = "idle" => connSt'[g] = "none"
      BY <3>1, <3>2, ConstantsAssumption
    <3>4. \A g \in Holders :
             setupPc'[g] = "install" \/ supPc'[g] # "none" => curSt'[g] # "none"
      BY <3>2
    <3>5. \A g \in Holders :
             /\ curSt'[g] # "open" => inflight'[g] = 0
             /\ setupPc'[g] \in {"idle", "static", "feed"} => curSt'[g] = "none"
      BY <3>2, SMTT(30)
    <3>6. QED
      BY <1>0, <3>3, <3>4, <3>5, SMTT(30)
  <2>3. QED
    BY <1>1, <2>1, <2>2, SMTT(30) DEF Setup
<1>2. ASSUME NEW h \in Holders, Supervisor(h) PROVE StreamInv'
  <2>1. setupPc[h] \notin {"idle", "static", "feed", "install"}
    BY <1>2, ZenonT(30)
       DEF Supervisor, Preflight, ReconnectAbort, ReconnectTick,
                HandleRunResult, Backoff, IInv, SetupBeforeSupervisor
  <2>2. CASE Preflight(h) \/ ReconnectAbort(h) \/ Backoff(h)
    BY <1>0, <2>1, <2>2, SMTT(30)
       DEF Preflight, ReconnectAbort, Backoff, Terminate
  <2>3. CASE ReconnectTick(h)
    BY <1>0, <2>1, <2>3 DEF ReconnectTick
  <2>4. CASE HandleRunResult(h)
    <3>1. CASE runErr[h] = "nil" \/ IsCanceled(runErr[h])
      <4>1. /\ supPc' = [supPc EXCEPT ![h] = "done"]
            /\ connSt' = [connSt EXCEPT ![h] = "closed"]
            /\ UNCHANGED <<setupPc, curSt, inflight>>
            /\ supPc[h] = "handle"
        BY <2>4, <3>1, SMTT(30) DEF HandleRunResult, Terminate
      <4>2. QED
        BY <1>0, <2>1, <4>1
    <3>2. CASE ~(runErr[h] = "nil" \/ IsCanceled(runErr[h]))
      <4>1. /\ curSt' = [curSt EXCEPT ![h] = "closed"]
            /\ inflight' = [inflight EXCEPT ![h] = 0]
            /\ supPc' = [supPc EXCEPT ![h] = "backoff"]
            /\ UNCHANGED <<setupPc, connSt>>
        BY <2>4, <3>2 DEF HandleRunResult, CloseCurrent, IsCanceled,
                          IsStreamClosed
      <4>2. QED
        BY <1>0, <2>1, <4>1, ZenonT(30)
    <3>3. QED
      BY <3>1, <3>2
  <2>5. QED
    BY <1>2, <2>2, <2>3, <2>4, ZenonT(30) DEF Supervisor
<1>3. ASSUME NEW h \in Holders, Reader(h) PROVE StreamInv'
  <2>1. setupPc[h] \notin {"idle", "static", "feed", "install"}
    BY <1>3, Zenon DEF Reader, UpdateCheck, UpdateSend, Flush, ReaderStops,
                IInv, SetupBeforeSupervisor
  <2>2. QED
    BY <1>0, <1>3, <2>1 DEF Reader, UpdateCheck, UpdateSend, Flush,
                            ReaderStops, RunReturns, CloseCurrent
<1>4. ASSUME NEW h \in Holders, Deliver(h) \/ StreamBreak(h) PROVE StreamInv'
  BY <1>0, <1>4, SMTT(30) DEF Deliver, StreamBreak
<1>5. CASE Quit
  BY <1>0, <1>5, SMTT(30) DEF Quit
<1>6. CASE UNCHANGED vars
  BY <1>6 DEF vars
<1>7. QED
  BY <1>1, <1>2, <1>3, <1>4, <1>5, <1>6, Zenon DEF Next

LEMMA InitStreamInv == Init => StreamInv
BY InitTypeOK DEF Init, StreamInv, Installed

(* A step that aborts no further stream leaves every import's liveness as *)
(* it was.                                                                 *)
LEMMA StreamLiveUnchanged ==
    ASSUME \A g \in Holders : Aborted(g)' = Aborted(g)
    PROVE  StreamLive' = StreamLive
BY DEF StreamLive

(* A step that changes no stream and no import's liveness is a stutter of  *)
(* the stream discipline.                                                  *)
LEMMA StreamStutter ==
    ASSUME UNCHANGED <<curSt, inflight, streams>>,
           \A g \in Holders : Aborted(g)' = Aborted(g)
    PROVE  UNCHANGED Stream!svars
BY StreamLiveUnchanged DEF Stream!svars

(* A step that cancels the context or closes the connection of h, and      *)
(* changes no stream and no other import's liveness, releases h or, when   *)
(* h was released already, stutters.                                       *)
LEMMA StreamRelease ==
    ASSUME NEW h \in Holders,
           UNCHANGED <<curSt, inflight, streams>>,
           Aborted(h)',
           \A g \in Holders \ {h} : Aborted(g)' = Aborted(g)
    PROVE  [Stream!Next]_Stream!svars
<1>1. StreamLive' = [StreamLive EXCEPT ![h] = FALSE]
  BY Zenon DEF StreamLive
<1>2. CASE StreamLive[h]
  <2>1. Stream!ReleaseStream(h)
    BY <1>1, <1>2 DEF Stream!ReleaseStream
  <2>2. QED
    BY <2>1 DEF Stream!Next
<1>3. CASE ~StreamLive[h]
  <2>1. StreamLive' = StreamLive
    BY <1>1, <1>3, Zenon DEF StreamLive
  <2>2. QED
    BY <2>1 DEF Stream!svars
<1>4. QED
  BY <1>2, <1>3

(* The hypotheses the stream refinement rests on.                         *)
StreamRefInv == IInv /\ SetupLive /\ StreamSlotInv /\ CloseInv /\ StreamInv

(* Every step of the coordinator is a step of the stream discipline or     *)
(* leaves its view unchanged: the initial FeedRIB and reconnectStream open *)
(* a stream in an empty or dead slot, onUpdate's successful Send is a      *)
(* send, onUpdate's cancellation path and the loop's CloseAndRecv close an *)
(* existing stream that was not closed, the failed initial FeedRIB, a      *)
(* static setup without sockets, a replacement and the loop's cleanup      *)
(* release an import, and the RIB's reads and stream failures are the      *)
(* discipline's own.                                                       *)
LEMMA StreamStep ==
    StreamRefInv /\ [Next]_vars => [Stream!Next]_Stream!svars
<1> SUFFICES ASSUME StreamRefInv, [Next]_vars
             PROVE  [Stream!Next]_Stream!svars
  OBVIOUS
<1> USE ConstantsAssumption DEF StreamRefInv, IInv, TypeOK
<1>1. ASSUME NEW h \in Holders, SetupConfigCall(h)
      PROVE  [Stream!Next]_Stream!svars
  <2>1. connSt[h] = "none" /\ connSt'[h] = "open"
    BY <1>1 DEF SetupConfigCall, StreamInv
  <2>2. \A g \in Holders : Aborted(g)' = Aborted(g)
    BY <1>1, <2>1, SMTT(30) DEF SetupConfigCall, Aborted
  <2>3. QED
    BY <1>1, <2>2, StreamStutter, SMTT(30) DEF SetupConfigCall
<1>2. ASSUME NEW h \in Holders, StaticPrelude(h)
      PROVE  [Stream!Next]_Stream!svars
  <2>1. /\ UNCHANGED <<curSt, inflight, streams, ctxDone>>
        /\ \A g \in Holders \ {h} : connSt'[g] = connSt[g]
        /\ connSt'[h] \in {connSt[h], "closed"}
    BY <1>2, SMTT(30) DEF StaticPrelude
  <2>2. CASE connSt'[h] = "closed"
    BY <2>1, <2>2, StreamRelease, ZenonT(30) DEF Aborted
  <2>3. CASE connSt'[h] # "closed"
    <3>1. \A g \in Holders : Aborted(g)' = Aborted(g)
      BY <2>1, <2>3, ZenonT(30) DEF Aborted
    <3>2. QED
      BY <2>1, <3>1, StreamStutter, ZenonT(30)
  <2>4. QED
    BY <2>2, <2>3, Zenon
<1>3. ASSUME NEW h \in Holders, InitialFeed(h)
      PROVE  [Stream!Next]_Stream!svars
  <2>1. /\ setupPc[h] = "feed"
        /\ StreamLive[h]
        /\ curSt[h] = "none"
        /\ inflight[h] = 0
        /\ streams[h] = 0
    BY <1>3, Zenon DEF InitialFeed, SetupLive, StreamInv, StreamSlotInv,
                StreamLive, Aborted
  <2>2. CASE setupPc'[h] = "install"
    <3>1. /\ curSt' = [curSt EXCEPT ![h] = "open"]
          /\ streams' = [streams EXCEPT ![h] = 1]
          /\ UNCHANGED <<ctxDone, connSt, inflight>>
      BY <1>3, <2>2 DEF InitialFeed
    <3>2. inflight' = [inflight EXCEPT ![h] = 0]
      BY <2>1, <3>1, Zenon
    <3>3. streams' = [streams EXCEPT ![h] = @ + 1]
      BY <2>1, <3>1
    <3>4. StreamLive' = StreamLive
      BY <3>1, StreamLiveUnchanged, SMTT(30) DEF Aborted
    <3>5. streams[h] < MaxStreams
      BY <2>1, ConstantsAssumption, SMTT(30)
    <3>7. Stream!OpenStream(h)
      BY <2>1, <3>1, <3>2, <3>3, <3>4, <3>5, Zenon DEF Stream!OpenStream
    <3>6. QED
      BY <3>7 DEF Stream!Next
  <2>3. CASE setupPc'[h] # "install"
    <3>1. /\ ctxDone' = [ctxDone EXCEPT ![h] = TRUE]
          /\ UNCHANGED <<curSt, inflight, streams, connSt>>
      BY <1>3, <2>3 DEF InitialFeed
    <3>2. QED
      BY <3>1, StreamRelease DEF Aborted
  <2>4. QED
    BY <2>2, <2>3, ZenonT(30)
<1>4. ASSUME NEW h \in Holders, Install(h) PROVE [Stream!Next]_Stream!svars
  <2> DEFINE old == registry[key[h]]
  <2>1. /\ ctxDone' = [g \in Holders |-> IF g = old THEN TRUE ELSE ctxDone[g]]
        /\ connSt' = [g \in Holders |-> IF g = old THEN "closed" ELSE connSt[g]]
        /\ UNCHANGED <<curSt, inflight, streams>>
    BY <1>4 DEF Install
  <2>2. CASE old \in Holders
    BY <2>1, <2>2, StreamRelease DEF Aborted
  <2>3. CASE old \notin Holders
    <3>1. \A g \in Holders : Aborted(g)' = Aborted(g)
      BY <2>1, <2>3 DEF Aborted
    <3>2. QED
      BY <2>1, <3>1, StreamStutter
  <2>4. QED
    BY <2>2, <2>3
<1>5. ASSUME NEW h \in Holders, Terminate(h),
             UNCHANGED <<curSt, inflight, streams>>
      PROVE  [Stream!Next]_Stream!svars
  BY <1>5, StreamRelease DEF Terminate, Aborted
<1>6. ASSUME NEW h \in Holders,
             Preflight(h) \/ ReconnectAbort(h) \/ Backoff(h)
      PROVE  [Stream!Next]_Stream!svars
  <2>1. UNCHANGED <<curSt, inflight, streams>>
    BY <1>6 DEF Preflight, ReconnectAbort, Backoff
  <2>2. CASE Terminate(h)
    BY <2>1, <2>2, <1>5
  <2>3. CASE UNCHANGED <<ctxDone, connSt>>
    BY <2>1, <2>3, StreamStutter, SMTT(30) DEF Aborted
  <2>4. QED
    BY <1>6, <2>2, <2>3 DEF Preflight, ReconnectAbort, Backoff
<1>7. ASSUME NEW h \in Holders, ReconnectTick(h)
      PROVE  [Stream!Next]_Stream!svars
  <2>1. /\ supPc[h] = "reconnect"
        /\ StreamLive[h]
        /\ curSt[h] # "open"
        /\ streams[h] < MaxStreams
    BY <1>7, Zenon DEF ReconnectTick, StreamSlotInv, StreamLive
  <2>2. /\ curSt' = [curSt EXCEPT ![h] = "open"]
        /\ inflight' = [inflight EXCEPT ![h] = 0]
        /\ streams' = [streams EXCEPT ![h] = @ + 1]
        /\ UNCHANGED <<ctxDone, connSt>>
    BY <1>7 DEF ReconnectTick
  <2>3. StreamLive' = StreamLive
    BY <2>2, StreamLiveUnchanged DEF Aborted
  <2>4. Stream!OpenStream(h)
    BY <2>1, <2>2, <2>3 DEF Stream!OpenStream
  <2>5. QED
    BY <2>4, SMTT(30) DEF Stream!Next
<1>8. ASSUME NEW h \in Holders, HandleRunResult(h)
      PROVE  [Stream!Next]_Stream!svars
  <2>1. CASE runErr[h] = "nil" \/ IsCanceled(runErr[h])
    <3>1. Terminate(h) /\ UNCHANGED <<curSt, inflight, streams>>
      BY <1>8, <2>1 DEF HandleRunResult
    <3>2. QED
      BY <3>1, <1>5
  <2>2. CASE ~(runErr[h] = "nil" \/ IsCanceled(runErr[h]))
    <3>1. LoopClosesStream(h)
      BY <1>8, <2>2, SMTT(30)
         DEF HandleRunResult, LoopClosesStream, IsCanceled,
                        IsStreamClosed
    <3>2. curSt[h] \in {"open", "broken"}
      BY <1>8, <3>1, Zenon
         DEF CloseInv, CloseAndRecvOnce, StreamInv, Installed,
                        HandleRunResult, StreamSts
    <3>3. /\ curSt' = [curSt EXCEPT ![h] = "closed"]
          /\ inflight' = [inflight EXCEPT ![h] = 0]
          /\ UNCHANGED <<streams, ctxDone, connSt>>
      BY <1>8, <3>1 DEF HandleRunResult, CloseCurrent, LoopClosesStream
    <3>4. StreamLive' = StreamLive
      BY <3>3, StreamLiveUnchanged DEF Aborted
    <3>5. Stream!CloseStream(h)
      BY <3>2, <3>3, <3>4 DEF Stream!CloseStream
    <3>6. QED
      BY <3>5 DEF Stream!Next
  <2>3. QED
    BY <2>1, <2>2
<1>9. ASSUME NEW h \in Holders, UpdateCheck(h)
      PROVE  [Stream!Next]_Stream!svars
  <2>1. CASE ctxDone[h]
    <3>1. curSt[h] \in {"open", "broken"}
      BY <1>9, Zenon DEF UpdateCheck, CloseInv, StreamInv, Installed, StreamSts
    <3>2. /\ curSt' = [curSt EXCEPT ![h] = "closed"]
          /\ inflight' = [inflight EXCEPT ![h] = 0]
          /\ UNCHANGED <<streams, ctxDone, connSt>>
      BY <1>9, <2>1 DEF UpdateCheck, CloseCurrent
    <3>3. StreamLive' = StreamLive
      BY <3>2, StreamLiveUnchanged, SMTT(30) DEF Aborted
    <3>4. Stream!CloseStream(h)
      BY <3>1, <3>2, <3>3, SMTT(30) DEF Stream!CloseStream
    <3>5. QED
      BY <3>4, SMTT(30) DEF Stream!Next
  <2>2. CASE ~ctxDone[h]
    BY <1>9, <2>2, StreamStutter DEF UpdateCheck, Aborted
  <2>3. QED
    BY <2>1, <2>2, SMTT(30)
<1>10. ASSUME NEW h \in Holders, UpdateSend(h)
       PROVE  [Stream!Next]_Stream!svars
  <2>1. UNCHANGED <<curSt, streams, ctxDone, connSt>>
    BY <1>10 DEF UpdateSend
  <2>2. StreamLive' = StreamLive
    BY <2>1, StreamLiveUnchanged DEF Aborted
  <2>3. CASE inflight' = inflight
    BY <2>1, <2>2, <2>3 DEF Stream!svars
  <2>4. CASE inflight' # inflight
    <3>1. /\ curSt[h] = "open" /\ StreamLive[h]
          /\ inflight[h] < MaxInflight
          /\ inflight' = [inflight EXCEPT ![h] = @ + 1]
      BY <1>10, <2>4, Zenon DEF UpdateSend, RunReturns, StreamLive
    <3>2. Stream!SendUpdate(h)
      BY <2>1, <2>2, <3>1, Zenon DEF Stream!SendUpdate
    <3>3. QED
      BY <3>2 DEF Stream!Next
  <2>5. QED
    BY <2>3, <2>4
<1>11. ASSUME NEW h \in Holders, Flush(h) \/ ReaderStops(h)
       PROVE  [Stream!Next]_Stream!svars
  BY <1>11, StreamStutter DEF Flush, ReaderStops, RunReturns, Aborted
<1>12. ASSUME NEW h \in Holders, Deliver(h) PROVE [Stream!Next]_Stream!svars
  <2>1. /\ UNCHANGED <<curSt, streams, ctxDone, connSt>>
        /\ curSt[h] = "open" /\ inflight[h] > 0
        /\ inflight' = [inflight EXCEPT ![h] = @ - 1]
    BY <1>12 DEF Deliver
  <2>2. StreamLive' = StreamLive
    BY <2>1, StreamLiveUnchanged DEF Aborted
  <2>3. Stream!DeliverUpdate(h)
    BY <2>1, <2>2 DEF Stream!DeliverUpdate
  <2>4. QED
    BY <2>3 DEF Stream!Next
<1>13. ASSUME NEW h \in Holders, StreamBreak(h)
       PROVE  [Stream!Next]_Stream!svars
  <2>1. /\ UNCHANGED <<streams, ctxDone, connSt>>
        /\ curSt[h] = "open" /\ StreamLive[h]
        /\ curSt' = [curSt EXCEPT ![h] = "broken"]
        /\ inflight' = [inflight EXCEPT ![h] = 0]
    BY <1>13, Zenon DEF StreamBreak, StreamLive
  <2>2. StreamLive' = StreamLive
    BY <2>1, StreamLiveUnchanged, Zenon DEF Aborted
  <2>3. Stream!BreakStream(h)
    BY <2>1, <2>2 DEF Stream!BreakStream
  <2>4. QED
    BY <2>3 DEF Stream!Next
<1>14. CASE Quit \/ UNCHANGED vars
  BY <1>14, StreamStutter, SMTT(30) DEF Quit, vars, Aborted
<1>15. QED
  BY <1>1, <1>2, <1>3, <1>4, <1>6, <1>7, <1>8, <1>9, <1>10, <1>11, <1>12,
     <1>13, <1>14
  DEF Next, Setup, Supervisor, Reader




LEMMA StreamRefInvHolds == Spec => []StreamRefInv
<1>1. Init => StreamRefInv
  BY InitIInv, InitStreamSlot, InitCloseInv, InitStreamInv
  DEF StreamRefInv, Init, SetupLive
<1>2. StreamRefInv /\ [Next]_vars => StreamRefInv'
  BY IInvInductive, SetupLiveStep, StreamSlotStep, CloseInvStep, StreamInvStep
  DEF StreamRefInv
<1>3. QED
  BY <1>1, <1>2, PTL DEF Spec

(* processBirdImport, onUpdate, reconnectStream and the loop's cleanup      *)
(* implement the stream discipline of an import (ImportStream) under the   *)
(* mapping slot = currentStream, live = neither cancelled nor closed: no   *)
(* stream is opened over an open one or by a released import, no update is *)
(* sent after a release, and no stream is closed twice.                    *)
THEOREM StreamRefined == Spec => StreamRefinement
<1>1. Init => Stream!Init
  BY ZenonT(30) DEF Init, Stream!Init, StreamLive, Aborted
<1>2. QED
  BY <1>1, StreamRefInvHolds, StreamStep, PTL
  DEF Spec, StreamRefinement, Stream!Spec

-----------------------------------------------------------------------------
(* With SetupConfig calls serialised per key, a call on its way to the     *)
(* mutex is the latest call for its key, and the latest call of a key was  *)
(* made for that key.                                                      *)
SerialInv ==
    /\ IInv
    /\ \A g \in Holders :
          setupPc[g] \in {"static", "feed", "install"} => lastCall[key[g]] = g
    /\ \A k \in Keys : lastCall[k] # NoHolder => key[lastCall[k]] = k
    /\ SecondSubmissionWins

LEMMA SerialNextIsNext == SerialNext => Next
BY Zenon DEF SerialNext, SerialSetupConfigCall, Next, Setup

LEMMA SerialStep == SerialInv /\ [SerialNext]_vars => SerialInv'
<1> SUFFICES ASSUME SerialInv, [SerialNext]_vars PROVE SerialInv'
  OBVIOUS
<1>0. IInv'
  BY IInvInductive, SerialNextIsNext, SMTT(30) DEF SerialInv
<1> USE ConstantsAssumption DEF SerialInv, IInv, TypeOK, SecondSubmissionWins
<1>1. ASSUME NEW h \in Holders, SerialSetupConfigCall(h) PROVE SerialInv'
  <2>1. /\ \A g \in Holders :
              key[g] = key[h] => setupPc[g] \notin {"static", "feed", "install"}
        /\ setupPc[h] = "idle"
        /\ setupPc' = [setupPc EXCEPT ![h] = "static"]
        /\ lastCall' = [lastCall EXCEPT ![key[h]] = h]
        /\ UNCHANGED <<registry, key, supPc>>
    BY <1>1 DEF SerialSetupConfigCall, SetupConfigCall
  <2>2. ~Installed(h)
    BY <2>1 DEF SetupBeforeSupervisor
  <2>3. QED
    BY <1>0, <2>1, <2>2, ZenonT(30) DEF Installed
<1>2. ASSUME NEW h \in Holders, StaticPrelude(h) \/ InitialFeed(h)
      PROVE SerialInv'
  BY <1>0, <1>2, SMTT(30) DEF StaticPrelude, InitialFeed, Installed
<1>3. ASSUME NEW h \in Holders, Install(h) PROVE SerialInv'
  <2>1. /\ setupPc[h] = "install"
        /\ registry' = [registry EXCEPT ![key[h]] = h]
        /\ setupPc' = [setupPc EXCEPT ![h] = "done"]
        /\ supPc' = [supPc EXCEPT ![h] = "loop"]
        /\ UNCHANGED <<key, lastCall>>
    BY <1>3 DEF Install
  <2>2. lastCall[key[h]] = h
    BY <2>1
  <2>3. \A k \in Keys : k # key[h] => lastCall[k] # h
    BY <2>2, SMTT(30)
  <2>4. QED
    BY <1>0, <2>1, <2>2, <2>3, ZenonT(30) DEF Installed
<1>4. ASSUME NEW h \in Holders, Supervisor(h) PROVE SerialInv'
  <2>1. /\ UNCHANGED <<registry, key, lastCall, setupPc>>
        /\ \A g \in Holders : Installed(g)' = Installed(g)
    BY <1>4, SMTT(30) DEF Supervisor, Preflight, ReconnectAbort, ReconnectTick,
                HandleRunResult, CloseCurrent, Backoff, Terminate, Installed
  <2>2. QED
    BY <1>0, <2>1, ZenonT(30)
<1>5. ASSUME NEW h \in Holders, Reader(h) \/ Deliver(h) \/ StreamBreak(h)
      PROVE SerialInv'
  <2>1. /\ UNCHANGED <<registry, key, lastCall, setupPc>>
        /\ \A g \in Holders : Installed(g)' = Installed(g)
    BY <1>5, SMTT(30) DEF Reader, UpdateCheck, UpdateSend, Flush, ReaderStops,
                RunReturns, CloseCurrent, Deliver, StreamBreak, Installed
  <2>2. QED
    BY <1>0, <2>1, ZenonT(30)
<1>6. CASE Quit \/ UNCHANGED vars
  BY <1>0, <1>6 DEF Quit, vars, Installed
<1>7. QED
  BY <1>1, <1>2, <1>3, <1>4, <1>5, <1>6, Zenon DEF SerialNext

(* When a caller serialises SetupConfig per key, the import of the latest  *)
(* call stays the key's entry once installed: the replacement of           *)
(* processBirdImport then implements "the second submission wins", which   *)
(* MCBirdImport_order shows it does not for concurrent calls.              *)
THEOREM SerialSecondSubmissionWins == SerialSpec => []SecondSubmissionWins
<1>1. Init => SerialInv
  BY InitIInv DEF Init, SerialInv, SecondSubmissionWins
<1>2. SerialInv => SecondSubmissionWins
  BY DEF SerialInv
<1>3. QED
  BY <1>1, <1>2, SerialStep, PTL DEF SerialSpec

=============================================================================
