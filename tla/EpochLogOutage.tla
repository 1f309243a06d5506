----------------------------- MODULE EpochLogOutage -----------------------------
(***************************************************************************)
(* A producer that appends with Append alone, one writer at a time, through*)
(* an outage that ends: at most MaxFaults requests fail or processes crash,*)
(* each where EpochLog lets it happen.  What must go on once it is over.   *)
(***************************************************************************)
EXTENDS EpochLog

CONSTANT MaxFaults  \* bound: failing requests and crashes in a behaviour

ASSUME MaxFaultsAssumption == MaxFaults \in Nat

VARIABLE faults     \* those that happened so far

outageVars == <<vars, faults>>

OutageInit == Init /\ faults = 0

(* A step that needs the store to fail, or the process to die. *)
FaultStep(w) ==
    \/ Crash(w) \/ ReloadFails(w) \/ RecoverFails(w)
    \/ AppendPickedFails(w)
    \/ CommitFails(w)
    \/ CommitUnknown(w) /\ delta[nextDelta[w]] = meta[w]
    \/ WriteSealedFails(w)
    \/ SwapLogRootFails(w)

Fault(w) ==
    /\ faults < MaxFaults
    /\ faults' = faults + 1
    /\ FaultStep(w)

(* A step the writer, its caller or its supervisor takes otherwise. *)
Progress(w) ==
    /\ UNCHANGED faults
    /\ \/ OpenWriter(w) \/ Reload(w) \/ ReadHead(w) \/ ProbeDelta(w) \/ Recovered(w)
       \/ PickSequence(w) \/ AppendPicked(w)
       \/ CommitDelta(w) \/ HoldsCommit(w)
       \/ CommitUnknown(w) /\ delta[nextDelta[w]] # meta[w]
       \/ PublishHead(w) \/ WriteSealed(w) \/ SwapLogRoot(w)
       \/ Reclaim(w) \/ Reclaimed(w)

OutageNext == \E w \in Writers : Progress(w) \/ Fault(w)

(* The producer keeps appending and its process is restarted; an operation *)
(* under way makes its next request, since nothing in it blocks for ever.  *)
OutageSpec ==
    /\ OutageInit
    /\ [][OutageNext]_outageVars
    /\ \A w \in Writers : WF_outageVars(Progress(w))

(* Every operation comes to an end, the loops of recover and seal and the  *)
(* retries of Append included.                                             *)
OperationsEnd ==
    \A w \in Writers : pc[w] \in Steps ~> pc[w] \in {"idle", "down"}

(* A failed write does not stop the next: whatever the outage left behind, *)
(* a producer that keeps calling Append gets its groups committed.         *)
TrackGoesOn == \A n \in Deltas : <>(commits[n] # None)

=================================================================================
