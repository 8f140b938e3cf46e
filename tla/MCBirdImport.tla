---------------------------- MODULE MCBirdImport ----------------------------
(* Small instances of BirdImport for TLC.                                  *)
EXTENDS BirdImport, TLC

CONSTANTS k1, k2, h1, h2, h3

MCKeys1 == {k1}
MCKeys2 == {k1, k2}
MCHolders2 == {h1, h2}
MCHolders3 == {h1, h2, h3}

HolderSymmetry == Permutations(MCHolders3)
HolderSymmetry2 == Permutations(MCHolders2)

(* The state without the history variable lastCall, which no guard or      *)
(* assignment of another variable reads: for runs whose properties do not  *)
(* mention it, two states that differ only in lastCall have the same       *)
(* futures.                                                                *)
ViewWithoutCallOrder ==
    <<registry, quit, setupPc, key, connSt, ctxDone, supPc, streamActive,
      curSt, streams, inflight, rdPc, runErr, overtaken>>

=============================================================================
