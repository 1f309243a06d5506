-------------------------------- MODULE Query ---------------------------------
(***************************************************************************)
(* The reads of a track that do not move the cursor: Lookup, the walk      *)
(* under RangeMedia and RangeWallclock (ledger/reader.go), and Before      *)
(* (ledger/before.go).  Each is a sequence of requests, the producer goes  *)
(* on between any two of them, and the groups the call looks for may move  *)
(* from the open region into a sealed run under it.                        *)
(*                                                                         *)
(* Sealed manifests do not change, so those of a log root are read in one  *)
(* step, and as one run: they tile the log below OpenFrom.  The window of  *)
(* a range only drops groups from what walk yields.                        *)
(***************************************************************************)
EXTENDS TrackStore

CONSTANTS
    Ops,                \* the calls made: "lookup", "walk", "before"
    BeforeAttempts,     \* beforeAttempts, before.go:73
    MaxLimit            \* bound: the n of Before

ASSUME QueryAssumption ==
    /\ Ops \subseteq {"lookup", "walk", "before"}
    /\ BeforeAttempts \in Nat \ {0}
    /\ MaxLimit \in Nat \ {0}

VARIABLES
    known,      \* Reader.latest
    op,         \* the call in progress, "none" between calls
    id, limit,  \* its arguments
    at,         \* its next request; "done" when it has returned its answer
    epoch, logRoot,
    n,          \* the delta read next
    last,       \* lastDelta's result so far, -1 for noDelta
    answer,     \* the groups, in commit order
    kept,       \* how many of them are of the epochs after this one (Before)
    attempt,    \* of reading this epoch (Before)
    \* history
    asked,      \* count when the call began
    clean       \* no epoch's log root changed while the call read that epoch

call == <<op, id, limit, at, epoch, logRoot, n, last, answer, kept, attempt, asked, clean>>
queryVars == <<known, call>>
vars == <<trackVars, queryVars>>

Zero == <<0, 0>>

Init ==
    /\ TrackInit
    /\ known = 1
    /\ op = "none" /\ at = "idle" /\ id = Zero /\ limit = 0
    /\ epoch = 1 /\ logRoot = NewLog(1)
    /\ n = 0 /\ last = -1 /\ answer = <<>> /\ kept = 0 /\ attempt = 1
    /\ asked = count /\ clean = TRUE

(* The call ends with the answer given, or fails with none. *)
Done == at' = "done"

(* Between calls nothing of the last one is left. *)
Return ==
    /\ op' = "none" /\ at' = "idle" /\ id' = Zero /\ limit' = 0
    /\ epoch' = 1 /\ logRoot' = NewLog(1)
    /\ n' = 0 /\ last' = -1 /\ answer' = <<>> /\ kept' = 0 /\ attempt' = 1
    /\ asked' = [e \in Epochs |-> 0] /\ clean' = TRUE

(* Refresh, or the Reader is a new one. *)
Refresh ==
    /\ op = "none"
    /\ known' = latest
    /\ UNCHANGED <<trackVars, call>>

Begin(which, e) ==
    /\ op = "none"
    /\ which \in Ops
    /\ op' = which
    /\ epoch' = e
    /\ asked' = count
    /\ UNCHANGED <<trackVars, known, logRoot, n, last, answer, kept, attempt, clean>>

(* The log root of the epoch is read, and remembered for the whole of it.  *)
ReadLog ==
    /\ at = "log"
    /\ logRoot' = logs[epoch]
    /\ n' = logs[epoch].openFrom
    /\ answer' = IF op = "walk"
                 THEN answer \o [i \in 1 .. logs[epoch].openFrom |-> <<epoch, i - 1>>]
                 ELSE answer
    /\ at' = IF op = "before" THEN "head" ELSE "open"
    /\ UNCHANGED <<trackVars, known, op, id, limit, epoch, last, kept, attempt, asked, clean>>

(* What the history notes when the call has finished with the epoch. *)
LeaveEpoch == clean' = (clean /\ logRoot = logs[epoch])

-----------------------------------------------------------------------------
(* Lookup: the open region from OpenFrom to the first absent delta, then   *)
(* the sealed runs.                                                        *)

Lookup ==
    \E g \in Epochs \X Numbers :
        /\ Begin("lookup", g[1])
        /\ id' = g
        /\ at' = IF g[1] > known THEN "done" ELSE "log"
        /\ UNCHANGED limit

LookupDelta ==
    /\ at = "open" /\ op = "lookup"
    /\ n \in deltas[epoch]
    /\ IF id = <<epoch, n>>
       THEN answer' = <<id>> /\ Done /\ LeaveEpoch /\ UNCHANGED n
       ELSE n' = n + 1 /\ UNCHANGED <<answer, at, clean>>
    /\ UNCHANGED <<trackVars, known, op, id, limit, epoch, logRoot, last, kept, attempt,
                   asked>>

(* Mutant: the sealed runs are not searched. *)
LookupSealedSkipped ==
    /\ at = "open" /\ op = "lookup"
    /\ n \notin deltas[epoch]
    /\ Done
    /\ LeaveEpoch
    /\ UNCHANGED <<trackVars, known, op, id, limit, epoch, logRoot, n, last, answer, kept,
                   attempt, asked>>

LookupSealed ==
    /\ at = "open" /\ op = "lookup"
    /\ n \notin deltas[epoch]
    /\ answer' = IF id[2] < logRoot.openFrom THEN <<id>> ELSE <<>>
    /\ Done
    /\ LeaveEpoch
    /\ UNCHANGED <<trackVars, known, op, id, limit, epoch, logRoot, n, last, kept, attempt,
                   asked>>

-----------------------------------------------------------------------------
(* walk: every epoch from the first to the latest known, its runs and then *)
(* its open region.                                                        *)

Walk ==
    /\ Begin("walk", 1)
    /\ at' = "log"
    /\ UNCHANGED <<id, limit>>

WalkDelta ==
    /\ at = "open" /\ op = "walk"
    /\ n \in deltas[epoch]
    /\ answer' = Append(answer, <<epoch, n>>)
    /\ n' = n + 1
    /\ UNCHANGED <<trackVars, known, op, id, limit, at, epoch, logRoot, last, kept, attempt,
                   asked, clean>>

WalkOn ==
    /\ at = "open" /\ op = "walk"
    /\ n \notin deltas[epoch]
    /\ LeaveEpoch
    /\ IF epoch < known
       THEN epoch' = epoch + 1 /\ at' = "log"
       ELSE Done /\ UNCHANGED epoch
    /\ UNCHANGED <<trackVars, known, op, id, limit, logRoot, n, last, answer, kept, attempt,
                   asked>>

-----------------------------------------------------------------------------
(* Before: the epochs from the one id names, or the latest, to the first;  *)
(* in each from the newest delta back, then the sealed runs.               *)

Before ==
    \E g \in Committed \cup {Zero}, most \in 1 .. MaxLimit :
        /\ Begin("before", IF g # Zero /\ g[1] < known THEN g[1] ELSE known)
        /\ id' = g
        /\ limit' = most
        /\ at' = "log"

(* take: of the groups from first to last those before id, the newest of   *)
(* them that are still wanted.                                             *)
Take(first, upto) ==
    LET top == IF epoch = id[1] /\ id[2] <= upto THEN id[2] - 1 ELSE upto
        wanted == limit - Len(answer)
        bottom == IF top - first >= wanted THEN top - wanted + 1 ELSE first
    IN  [i \in 1 .. top - bottom + 1 |-> <<epoch, bottom + i - 1>>] \o answer

(* lastDelta: from the head, when it is in the open region, or from        *)
(* OpenFrom, the deltas are probed until one is absent.                    *)
BeforeHead ==
    /\ at = "head"
    /\ last' = IF head[epoch] >= logRoot.openFrom THEN head[epoch] ELSE -1
    /\ n' = IF last' = -1 THEN logRoot.openFrom ELSE last' + 1
    /\ at' = "probe"
    /\ UNCHANGED <<trackVars, known, op, id, limit, epoch, logRoot, answer, kept, attempt,
                   asked, clean>>

BeforeProbe ==
    /\ at = "probe"
    /\ IF n \in deltas[epoch]
       THEN last' = n /\ n' = n + 1 /\ UNCHANGED at
       ELSE n' = last /\ at' = (IF last = -1 THEN "sealed" ELSE "back") /\ UNCHANGED last
    /\ UNCHANGED <<trackVars, known, op, id, limit, epoch, logRoot, answer, kept, attempt,
                   asked, clean>>

BeforeDelta ==
    /\ at = "back"
    /\ n \in deltas[epoch]
    /\ answer' = Take(n, n)
    /\ IF Len(answer') = limit
       THEN Done /\ LeaveEpoch /\ UNCHANGED n
       ELSE /\ n' = n - 1
            /\ at' = IF n = logRoot.openFrom THEN "sealed" ELSE "back"
            /\ UNCHANGED clean
    /\ UNCHANGED <<trackVars, known, op, id, limit, epoch, logRoot, last, kept, attempt,
                   asked>>

(* Mutant: a delta that is gone is passed over. *)
ResealedIgnored ==
    /\ at = "back"
    /\ n \notin deltas[epoch]
    /\ n' = n - 1
    /\ at' = IF n = logRoot.openFrom THEN "sealed" ELSE "back"
    /\ UNCHANGED <<trackVars, known, op, id, limit, epoch, logRoot, last, answer, kept,
                   attempt, asked, clean>>

(* A delta is gone: the epoch was sealed, and is read again from the start *)
(* unless that was the last attempt.                                       *)
Resealed ==
    /\ at = "back"
    /\ n \notin deltas[epoch]
    /\ IF attempt = BeforeAttempts
       THEN Return
       ELSE /\ answer' = SubSeq(answer, Len(answer) - kept + 1, Len(answer))
            /\ attempt' = attempt + 1
            /\ at' = "log"
            /\ UNCHANGED <<op, id, limit, epoch, logRoot, n, last, kept, asked, clean>>
    /\ UNCHANGED <<trackVars, known>>

BeforeSealed ==
    /\ at = "sealed"
    /\ answer' = Take(0, logRoot.openFrom - 1)
    /\ LeaveEpoch
    /\ IF Len(answer') = limit \/ epoch = 1
       THEN Done /\ UNCHANGED <<epoch, kept, attempt>>
       ELSE epoch' = epoch - 1 /\ kept' = Len(answer') /\ attempt' = 1 /\ at' = "log"
    /\ UNCHANGED <<trackVars, known, op, id, limit, logRoot, n, last, asked>>

-----------------------------------------------------------------------------
(* The caller has the answer, or a request of the call failed. *)
Answered ==
    /\ op # "none"
    /\ Return
    /\ UNCHANGED <<trackVars, known>>

Query ==
    \/ Refresh \/ ReadLog \/ Answered
    \/ Lookup \/ LookupDelta \/ LookupSealed
    \/ Walk \/ WalkDelta \/ WalkOn
    \/ Before \/ BeforeHead \/ BeforeProbe \/ BeforeDelta \/ Resealed \/ BeforeSealed

Next == Query \/ (Produce /\ UNCHANGED queryVars)

Spec == Init /\ [][Next]_vars

-----------------------------------------------------------------------------
(* Properties. *)

Answer == {answer[i] : i \in DOMAIN answer}

(* The groups the call must answer with: those that were committed when it *)
(* began, in the epochs the Reader knows of.                               *)
Promised ==
    LET there == {g \in Epochs \X Numbers : g[2] < asked[g[1]] /\ g[1] <= known}
    IN  CASE op = "lookup" -> there \cap {id}
          [] op = "walk" -> there
          [] op = "before" ->
                {g \in there : /\ id = Zero \/ Earlier(g, id)
                               /\ Len(answer) = limit => Earlier(answer[1], g)}

(* A call during which no log root it read was swapped misses nothing: a   *)
(* Lookup finds its group, a walk yields every group, Before returns the   *)
(* newest before its id, wherever the head points and whatever seals,      *)
(* reclaims and new epochs the producer was in the midst of.               *)
MissesNothing == at = "done" /\ clean => Promised \subseteq Answer

(* Whatever is sealed under it, an answer holds committed groups in commit *)
(* order, none twice, with no group of an epoch left out between two that  *)
(* are there, and with a walk beginning at an epoch's first group.         *)
NoHole ==
    /\ Answer \subseteq Committed
    /\ \A i \in 1 .. Len(answer) - 1 :
        \/ answer[i + 1] = <<answer[i][1], answer[i][2] + 1>>
        \/ answer[i + 1][1] > answer[i][1] /\ answer[i + 1][2] = 0
    /\ op = "walk" /\ answer # <<>> => answer[1][2] = 0

===============================================================================
