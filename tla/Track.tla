-------------------------------- MODULE Track ---------------------------------
(***************************************************************************)
(* The track root and the epochs (ledger/track.go and Writer.NewEpoch):    *)
(* processes that create and open a track, open its latest epoch for       *)
(* writing and begin epochs, any of them crashing between two requests and *)
(* any request failing, with or without effect.  Each has a Track handle   *)
(* whose cached root may be old.                                           *)
(*                                                                         *)
(* What happens within an epoch is one step here, an append, a Seal call   *)
(* or a recovery; EpochLog has their requests, and rotation by size.     *)
(* A root's version is its LatestEpoch, the only thing in it that changes. *)
(***************************************************************************)
EXTENDS Integers, Sequences

CONSTANTS
    Processes,
    MaxEpoch,       \* bound: epochs are 1..MaxEpoch
    MaxDelta,       \* bound: deltas of an epoch
    GroupSequences, \* the sequences producers give their groups
    NoWriter

ASSUME TrackAssumption ==
    /\ MaxEpoch \in Nat \ {0} /\ MaxDelta \in Nat \ {0}

Epochs == 1 .. MaxEpoch

VARIABLES
    root,       \* LatestEpoch of the track root, 0 when there is none
    logs,       \* logs[e]: the log root of e, with the groups of its sealed runs
    deltas,     \* deltas[e]: the delta manifests present, as a function to their group
    objects,    \* objects[e]: the sequences that have a group object
    cached,     \* cached[p]: the LatestEpoch p's handle has, 0 when p has no handle
    writer,     \* writer[p]: p's Writer
    op, want,   \* the call in progress, and the epoch it makes or opens
    pc,         \* its next request
    \* history
    acked,      \* acked[e]: the groups whose append returned
    shared      \* a Writer was opened beside another, or through a handle whose root is old

store == <<root, logs, deltas, objects>>
handles == <<cached, writer, op, want, pc>>
past == <<acked, shared>>
vars == <<store, handles, past>>

(* A log root, and none. *)
NewLog == [sealed |-> <<>>, openFrom |-> 0, version |-> 0]
NoLog == <<>>

Init ==
    /\ root = 0
    /\ logs = [e \in Epochs |-> NoLog]
    /\ deltas = [e \in Epochs |-> <<>>]
    /\ objects = [e \in Epochs |-> {}]
    /\ cached = [p \in Processes |-> 0]
    /\ writer = [p \in Processes |-> NoWriter]
    /\ op = [p \in Processes |-> "none"]
    /\ pc = [p \in Processes |-> "idle"]
    /\ want = [p \in Processes |-> 0]
    /\ acked = [e \in Epochs |-> {}]
    /\ shared = FALSE

Set(f, p, v) == [f EXCEPT ![p] = v]
GoTo(p, step) == pc' = Set(pc, p, step)

(* A call of p begins with, or goes on to, a request for epoch e. *)
Begin(p, call, e, step) ==
    /\ pc[p] = "idle"
    /\ op' = Set(op, p, call)
    /\ want' = Set(want, p, e)
    /\ GoTo(p, step)

(* The call returns, nil or an error. *)
Return(p) == GoTo(p, "idle") /\ op' = Set(op, p, "none") /\ want' = Set(want, p, 0)

(* createEpochLog has returned nil: Create is done, Writer and NewEpoch    *)
(* read the log root.                                                      *)
EpochRecorded(p) ==
    IF op[p] = "create" THEN Return(p) ELSE GoTo(p, "fetch") /\ UNCHANGED <<op, want>>

-----------------------------------------------------------------------------
(* Create makes the root, with epoch 1 in it, then the log of epoch 1. *)
Create(p) ==
    /\ cached[p] = 0
    /\ root = 0
    /\ root' = 1
    /\ \/ cached' = Set(cached, p, 1) /\ Begin(p, "create", 1, "log")
       \/ pc[p] = "idle" /\ UNCHANGED <<cached, op, want, pc>>
    /\ UNCHANGED <<logs, deltas, objects, writer, past>>

(* Open, and Reload. *)
Open(p) ==
    /\ pc[p] = "idle"
    /\ root # 0
    /\ cached' = Set(cached, p, root)
    /\ UNCHANGED <<store, writer, op, want, pc, past>>

(* Track.Writer opens the latest epoch its handle has. *)
Writer(p) ==
    /\ cached[p] # 0
    /\ writer[p] = NoWriter
    /\ Begin(p, "writer", cached[p], "fetch")
    /\ shared' = \/ shared
                  \/ cached[p] # root
                  \/ \E q \in Processes : writer[q] # NoWriter \/ op[q] = "writer"
    /\ UNCHANGED <<store, cached, writer, acked>>

(* Mutant: the epoch is recorded before it has a log. *)
NewEpochRootFirst(p) ==
    /\ writer[p] # NoWriter
    /\ writer[p].epoch < MaxEpoch
    /\ Begin(p, "epoch", writer[p].epoch + 1, "root")
    /\ UNCHANGED <<store, cached, writer, past>>

NewEpoch(p) ==
    /\ writer[p] # NoWriter
    /\ writer[p].epoch < MaxEpoch
    /\ Begin(p, "epoch", writer[p].epoch + 1, "log")
    /\ UNCHANGED <<store, cached, writer, past>>

-----------------------------------------------------------------------------
(* createEpochLog: the log root is created, or the one there adopted. *)
CreateEpochLog(p) ==
    /\ pc[p] = "log"
    /\ logs' = [logs EXCEPT ![want[p]] = IF @ = NoLog THEN NewLog ELSE @]
    /\ GoTo(p, "root")
    /\ UNCHANGED <<root, deltas, objects, cached, writer, op, want, past>>

(* Mutant: the root is put, whatever its version. *)
AdvanceTrackRootBlind(p) ==
    /\ pc[p] = "root"
    /\ root' = want[p]
    /\ cached' = Set(cached, p, want[p])
    /\ EpochRecorded(p)
    /\ UNCHANGED <<logs, deltas, objects, writer, past>>

(* Mutant: the handle keeps the root it had. *)
AdvanceTrackRootUncached(p) ==
    /\ pc[p] = "root"
    /\ \/ cached[p] >= want[p] /\ EpochRecorded(p) /\ UNCHANGED root
       \/ cached[p] < want[p] /\ cached[p] = root /\ root' = want[p] /\ EpochRecorded(p)
       \/ /\ cached[p] < want[p] /\ cached[p] # root
          /\ GoTo(p, "refetch") /\ UNCHANGED <<root, op, want>>
    /\ UNCHANGED <<logs, deltas, objects, cached, writer, past>>

(* advanceTrackRootLocked: the epoch is in the root already, or is swapped *)
(* in against the cached version.                                          *)
AdvanceTrackRoot(p) ==
    /\ pc[p] = "root"
    /\ \/ /\ cached[p] >= want[p]
          /\ EpochRecorded(p)
          /\ UNCHANGED <<root, cached>>
       \/ /\ cached[p] < want[p]
          /\ cached[p] = root
          /\ root' = want[p]
          /\ cached' = Set(cached, p, want[p])
          /\ EpochRecorded(p)
       \/ /\ cached[p] < want[p]
          /\ cached[p] # root
          /\ GoTo(p, "refetch")
          /\ UNCHANGED <<root, cached, op, want>>
    /\ UNCHANGED <<logs, deltas, objects, writer, past>>

(* Another moved the root, and it has reached the epoch.  The second swap  *)
(* the code has ready for when it has not is never made: RetryUnneeded.    *)
RefetchRoot(p) ==
    /\ pc[p] = "refetch"
    /\ root >= want[p]
    /\ cached' = Set(cached, p, root)
    /\ EpochRecorded(p)
    /\ UNCHANGED <<store, writer, past>>

(* A request fails; a swap of the root, or the create of a log, may have   *)
(* been done.  A Create that fails leaves no handle.                       *)
CallFails(p) ==
    /\ pc[p] # "idle"
    /\ pc[p] = "root" => cached[p] < want[p]
    /\ root' \in {root} \cup
        (IF pc[p] = "root" /\ cached[p] = root THEN {want[p]} ELSE {})
    /\ logs' \in {logs} \cup
        (IF pc[p] = "log" /\ logs[want[p]] = NoLog
         THEN {[logs EXCEPT ![want[p]] = NewLog]} ELSE {})
    /\ cached' = IF op[p] = "create" THEN Set(cached, p, 0) ELSE cached
    /\ Return(p)
    /\ UNCHANGED <<deltas, objects, writer, past>>

-----------------------------------------------------------------------------
(* The log root is fetched.  Writer recovers its position from the epoch;  *)
(* NewEpoch starts the epoch at its first delta, whatever it holds.        *)

Tip(e) == CHOOSE n \in logs[e].openFrom .. MaxDelta :
              /\ n \notin DOMAIN deltas[e]
              /\ \A m \in logs[e].openFrom .. n - 1 : m \in DOMAIN deltas[e]

Recovered(e) ==
    [epoch |-> e, version |-> logs[e].version, from |-> logs[e].openFrom, stale |-> FALSE,
     next |-> Tip(e),
     groups |-> [i \in 1 .. Tip(e) - logs[e].openFrom |-> deltas[e][logs[e].openFrom + i - 1]]]

Started(e, stale) ==
    [epoch |-> e, version |-> logs[e].version, from |-> logs[e].openFrom, stale |-> stale,
     next |-> 0, groups |-> <<>>]

(* Mutant: Writer does not recover. *)
FetchLogUnrecovered(p) ==
    /\ pc[p] = "fetch"
    /\ logs[want[p]] # NoLog
    /\ writer' = Set(writer, p, Started(want[p], FALSE))
    /\ Return(p)
    /\ UNCHANGED <<store, cached, past>>

(* Writer finds no log root when a Create did not finish, and makes it. *)
(* NewEpoch keeps the Writer's stale mark.                              *)
FetchLog(p) ==
    /\ pc[p] = "fetch"
    /\ IF logs[want[p]] = NoLog
       THEN GoTo(p, "log") /\ UNCHANGED <<writer, op, want>>
       ELSE /\ writer' = Set(writer, p, IF op[p] = "writer"
                                      THEN Recovered(want[p])
                                      ELSE Started(want[p], writer[p].stale))
            /\ Return(p)
    /\ UNCHANGED <<store, cached, past>>

-----------------------------------------------------------------------------
(* What is done in an epoch. *)

With(f, k, v) == [j \in DOMAIN f \cup {k} |-> IF j = k THEN v ELSE f[j]]
Stale(p) == writer' = [writer EXCEPT ![p].stale = TRUE]

(* AppendGroup: the group object, then the delta; either may be taken. *)
AppendGroup(p) ==
    LET w == writer[p]
        e == w.epoch
    IN  /\ pc[p] = "idle"
        /\ w # NoWriter
        /\ ~w.stale
        /\ w.next < MaxDelta
        /\ \E s \in GroupSequences :
            /\ objects' = [objects EXCEPT ![e] = @ \cup {s}]
            /\ IF s \in objects[e] \/ w.next \in DOMAIN deltas[e]
               THEN Stale(p) /\ UNCHANGED <<deltas, past>>
               ELSE /\ deltas' = [deltas EXCEPT ![e] = With(@, w.next, s)]
                    /\ writer' = [writer EXCEPT ![p].next = @ + 1, ![p].groups = Append(@, s)]
                    /\ acked' = [acked EXCEPT ![e] = @ \cup {s}]
        /\ UNCHANGED <<root, logs, cached, op, want, pc, shared>>

(* reloadIfStale, before the next append. *)
Reload(p) ==
    /\ pc[p] = "idle"
    /\ writer[p] # NoWriter
    /\ writer[p].stale
    /\ writer' = Set(writer, p, Recovered(writer[p].epoch))
    /\ UNCHANGED <<store, cached, op, want, pc, past>>

(* Seal: the log root is swapped against the version the Writer has, and   *)
(* the deltas it replaces are deleted.  It fails, with nothing changed,    *)
(* when the log root has another version.                                  *)
Seal(p) ==
    LET w == writer[p]
        e == w.epoch
    IN  /\ pc[p] = "idle"
        /\ w # NoWriter
        /\ w.groups # <<>>
        /\ w.version = logs[e].version
        /\ logs' = [logs EXCEPT ![e] = [sealed |-> @.sealed \o w.groups,
                                        openFrom |-> w.next,
                                        version |-> @.version + 1]]
        /\ deltas' = [deltas EXCEPT ![e] =
                        [n \in DOMAIN @ \ (w.from .. w.next - 1) |-> @[n]]]
        /\ writer' = [writer EXCEPT ![p].groups = <<>>, ![p].from = w.next,
                                    ![p].version = @ + 1]
        /\ UNCHANGED <<root, objects, cached, op, want, pc, past>>

(* The process is gone, with its handle and its Writer; it may be started  *)
(* again.                                                                  *)
Crash(p) ==
    /\ cached[p] # 0
    /\ cached' = Set(cached, p, 0)
    /\ writer' = Set(writer, p, NoWriter)
    /\ Return(p)
    /\ UNCHANGED <<store, past>>

Next ==
    \E p \in Processes :
        \/ Create(p) \/ Open(p) \/ Writer(p) \/ NewEpoch(p)
        \/ CreateEpochLog(p) \/ AdvanceTrackRoot(p) \/ RefetchRoot(p)
        \/ FetchLog(p) \/ CallFails(p) \/ Crash(p)
        \/ AppendGroup(p) \/ Reload(p) \/ Seal(p)

Spec == Init /\ [][Next]_vars

-----------------------------------------------------------------------------
(* Properties. *)

(* The epochs in existence are 1..LatestEpoch and at most one orphan after *)
(* them (trackRoot.LatestEpoch), but for epoch 1's log, which a Create     *)
(* that did not finish leaves to the first Writer; no handle and no Writer *)
(* is ahead of the root.                                                   *)
EpochsExist ==
    /\ \A e \in Epochs : 1 < e /\ e <= root => logs[e] # NoLog
    /\ \A e \in Epochs : logs[e] # NoLog => e <= root + 1
    /\ \A p \in Processes :
        /\ cached[p] <= root
        /\ writer[p] # NoWriter => writer[p].epoch <= root /\ logs[writer[p].epoch] # NoLog

(* A swap of the root that finds it moved need not be tried again: who     *)
(* moved it reached the epoch, as a handle is never more than one epoch    *)
(* behind the one its Writer begins.                                       *)
RetryUnneeded == \A p \in Processes : pc[p] = "refetch" => root >= want[p]

(* LatestEpoch never goes back, whoever bumps it from whatever cached      *)
(* root: an epoch that readers were told of stays.                         *)
LatestNeverFalls == [][root' >= root]_vars

Readable(e) ==
    {logs[e].sealed[i] : i \in DOMAIN logs[e].sealed} \cup
    {deltas[e][n] : n \in logs[e].openFrom .. Tip(e) - 1}

(* While writers take turns, each opened through a handle that has the     *)
(* latest root, every group whose append returned is found in its epoch:   *)
(* in a sealed run, or by probing from OpenFrom.  It does not hold of      *)
(* writers that share an epoch, nor of a NewEpoch from an old handle,      *)
(* which adopts an epoch with groups in it as if it were empty.            *)
AppendedReadable ==
    ~shared => \A e \in Epochs : logs[e] # NoLog => acked[e] \subseteq Readable(e)

===============================================================================
