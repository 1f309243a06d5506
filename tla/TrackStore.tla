------------------------------ MODULE TrackStore ------------------------------
(***************************************************************************)
(* The objects of a track over several epochs as a reader meets them, and  *)
(* the one producer that changes them: it appends (Writer.AppendGroup),    *)
(* rotates (Writer.seal), begins epochs (Writer.NewEpoch) and may crash    *)
(* between any two requests and be opened again (Open, Track.Writer).      *)
(*                                                                         *)
(* A group is <<epoch, n>>, n its delta number; sequences are taken to be  *)
(* the delta numbers, as they are when every group comes from Append.  A   *)
(* sealed manifest holds the groups of the run its reference names; that   *)
(* is what EpochLog establishes (RefsDescribeManifests).                   *)
(***************************************************************************)
EXTENDS Integers, Sequences

CONSTANTS
    MaxEpoch,       \* bound: epochs are 1..MaxEpoch
    MaxGroups,      \* bound: groups of an epoch
    StrayEpoch,     \* may NewEpoch fail after the root has moved, and the
                    \* producer append to its old epoch all the same?
    NoLog           \* an epoch without log root

ASSUME TrackBoundsAssumption ==
    /\ MaxEpoch \in Nat \ {0}
    /\ MaxGroups \in Nat \ {0}
    /\ StrayEpoch \in BOOLEAN

Epochs == 1 .. MaxEpoch
Numbers == 0 .. MaxGroups - 1

VARIABLES
    latest,     \* LatestEpoch of the track root
    logs,       \* logs[e]: epoch e's log root
    deltas,     \* deltas[e]: the numbers of the delta manifests present
    head,       \* head[e]: the delta the head object names, -1 when absent
    count,      \* count[e]: how many groups were committed to e
    writing,    \* the epoch the producer's Writer appends to
    busy,       \* what the operation in progress does next, "no" when there is none
    sweep       \* the delta the seal in progress deletes next

objects == <<latest, logs, deltas, head>>
producer == <<count, writing, busy, sweep>>
trackVars == <<objects, producer>>

(* A log root: the epoch, its sealed runs and the first open delta. *)
Log == [epoch : Epochs, runs : Seq([first : Numbers, last : Numbers]),
        openFrom : 0 .. MaxGroups]

ASSUME NoLogAssumption == NoLog \notin Log

NewLog(e) == [epoch |-> e, runs |-> <<>>, openFrom |-> 0]

TrackInit ==
    /\ latest = 1
    /\ logs = [e \in Epochs |-> IF e = 1 THEN NewLog(1) ELSE NoLog]
    /\ deltas = [e \in Epochs |-> {}]
    /\ head = [e \in Epochs |-> -1]
    /\ count = [e \in Epochs |-> 0]
    /\ writing = 1
    /\ busy = "no"
    /\ sweep = 0

(* The create of the delta manifest, the commit. *)
Commit ==
    /\ busy = "no"
    /\ count[writing] < MaxGroups
    /\ deltas' = [deltas EXCEPT ![writing] = @ \cup {count[writing]}]
    /\ count' = [count EXCEPT ![writing] = @ + 1]
    /\ busy' = "head"
    /\ UNCHANGED <<latest, logs, head, writing, sweep>>

(* The head follows, or does not: its failure is dropped. *)
PublishHead ==
    /\ busy = "head"
    /\ \/ head' = [head EXCEPT ![writing] = count[writing] - 1]
       \/ UNCHANGED head
    /\ busy' = "no"
    /\ UNCHANGED <<latest, logs, deltas, count, writing, sweep>>

(* The head object may be lost. *)
LoseHead ==
    /\ head[writing] # -1
    /\ head' = [head EXCEPT ![writing] = -1]
    /\ UNCHANGED <<latest, logs, deltas, producer>>

(* The swap of the log root: the open region becomes a sealed run. *)
Seal ==
    LET log == logs[writing]
    IN  /\ busy = "no"
        /\ log.openFrom < count[writing]
        /\ logs' = [logs EXCEPT
                ![writing].runs = Append(@, [first |-> log.openFrom,
                                             last |-> count[writing] - 1]),
                ![writing].openFrom = count[writing]]
        /\ busy' = "sweep"
        /\ sweep' = log.openFrom
        /\ UNCHANGED <<latest, deltas, head, count, writing>>

(* The deltas it replaced are deleted one by one, best-effort. *)
Reclaim ==
    /\ busy = "sweep"
    /\ \/ deltas' = [deltas EXCEPT ![writing] = @ \ {sweep}]
       \/ UNCHANGED deltas
    /\ IF sweep + 1 = logs[writing].openFrom
       THEN busy' = "no" /\ sweep' = 0
       ELSE UNCHANGED busy /\ sweep' = sweep + 1
    /\ UNCHANGED <<latest, logs, head, count, writing>>

(* NewEpoch creates the next epoch's log root, or adopts the one there. *)
CreateEpochLog ==
    /\ busy = "no"
    /\ writing < MaxEpoch
    /\ logs' = [logs EXCEPT ![writing + 1] = IF @ = NoLog THEN NewLog(writing + 1) ELSE @]
    /\ busy' = "root"
    /\ UNCHANGED <<latest, deltas, head, count, writing, sweep>>

(* It then records the epoch in the track root and moves there.  With a    *)
(* lost answer, or a failed read of the new log, the root has moved and    *)
(* the Writer has not.                                                     *)
AdvanceTrackRoot ==
    /\ busy = "root"
    /\ latest' = IF latest >= writing + 1 THEN latest ELSE writing + 1
    /\ \/ writing' = writing + 1
       \/ /\ StrayEpoch
          /\ UNCHANGED writing
    /\ busy' = "no"
    /\ UNCHANGED <<logs, deltas, head, count, sweep>>

(* The producer dies; the next one opens the latest epoch. *)
Restart ==
    /\ writing' = latest
    /\ busy' = "no"
    /\ sweep' = 0
    /\ UNCHANGED <<objects, count>>

Produce ==
    \/ Commit \/ PublishHead \/ LoseHead \/ Seal \/ Reclaim
    \/ CreateEpochLog \/ AdvanceTrackRoot \/ Restart

(* The numbers from one to another, as the groups of a manifest. *)
From(first, last) == [i \in 1 .. last - first + 1 |-> first + i - 1]

Committed == {g \in Epochs \X Numbers : g[2] < count[g[1]]}

(* Commit order across epochs, as GroupID.Compare has it. *)
Earlier(g, h) == g[1] < h[1] \/ (g[1] = h[1] /\ g[2] < h[2])

===============================================================================
