-------------------------------- MODULE Reader --------------------------------
(***************************************************************************)
(* A Reader streaming a track with Next while the producer appends, seals, *)
(* reclaims and begins epochs (ledger/reader.go).  Every action makes at   *)
(* most one store request; a Reader has one consumer, so its own calls do  *)
(* not overlap.                                                            *)
(***************************************************************************)
EXTENDS TrackStore

CONSTANT RecheckEvery   \* rootRecheckEvery, reader.go:381

ASSUME ReaderAssumption == RecheckEvery \in Nat \ {0}

ReaderSteps == {"first", "step", "root", "log", "head", "locate", "probe"}

VARIABLES
    known,      \* Reader.latest
    epoch1Log, epoch, logRoot, next, misses,
    batch,      \* what is left of Reader.batch from idx on, as group numbers
    at,         \* the next request of the call in progress, "idle" between calls,
                \* "closed" before Track.Reader
    target,     \* the sequence SeekAfter was given
    \* history
    due,        \* the first group the consumer is owed since its last seek
    seen,       \* those of them yielded since then
    torn        \* the log root under the cursor was once not that of the epoch, or
                \* older than the LatestEpoch known

cursor == <<epoch, logRoot, next, misses, batch>>
owed == <<due, seen, torn>>
readerVars == <<known, epoch1Log, cursor, at, target, owed>>
vars == <<trackVars, readerVars>>

Init ==
    /\ TrackInit
    /\ known = 1 /\ epoch1Log = NewLog(1)
    /\ epoch = 1 /\ logRoot = NewLog(1) /\ next = 0 /\ misses = 0 /\ batch = <<>>
    /\ at = "closed" /\ target = 0
    /\ due = <<1, 0>> /\ seen = {} /\ torn = FALSE

(* loadEpoch: the log root, and the cursor at its start. *)
LoadEpoch(e) ==
    /\ epoch' = e
    /\ logRoot' = logs[e]
    /\ next' = 0 /\ batch' = <<>> /\ misses' = 0

-----------------------------------------------------------------------------
(* Opening: the track root, then epoch 1's log root. *)
OpenTrack ==
    /\ at = "closed"
    /\ known' = latest
    /\ at' = "first"
    /\ UNCHANGED <<trackVars, epoch1Log, cursor, target, owed>>

OpenReader ==
    /\ at = "first"
    /\ LoadEpoch(1)
    /\ epoch1Log' = logs[1]
    /\ at' = "idle"
    /\ UNCHANGED <<trackVars, known, target, owed>>

-----------------------------------------------------------------------------
(* Next. *)

Yield ==
    /\ at = "idle"
    /\ batch # <<>>
    /\ batch' = Tail(batch)
    /\ seen' = seen \cup {g \in {<<epoch, Head(batch)>>} : ~Earlier(g, due)}
    /\ UNCHANGED <<trackVars, known, epoch1Log, epoch, logRoot, next, misses, at, target,
                   due, torn>>

Exhausted == at = "idle" /\ batch = <<>>

Covering(log, n) == {i \in DOMAIN log.runs : log.runs[i].first <= n /\ n <= log.runs[i].last}

(* A run read under the epoch the log root is not of is refused, and the   *)
(* call fails: sealed compares the epoch the manifest names.  A delta      *)
(* below OpenFrom that no run covers would be skipped; runs tile the log   *)
(* below OpenFrom (EpochLog, RefsTile), so there is none.                  *)
TakeSealed ==
    /\ Exhausted
    /\ next < logRoot.openFrom
    /\ logRoot.epoch = epoch
    /\ \E i \in Covering(logRoot, next) :
        /\ \A j \in Covering(logRoot, next) : i <= j
        /\ batch' = From(logRoot.runs[i].first, logRoot.runs[i].last)
        /\ next' = logRoot.runs[i].last + 1
    /\ misses' = 0
    /\ UNCHANGED <<trackVars, known, epoch1Log, epoch, logRoot, at, target, owed>>

TakeDelta ==
    /\ Exhausted
    /\ next >= logRoot.openFrom
    /\ next \in deltas[epoch]
    /\ batch' = <<next>>
    /\ next' = next + 1
    /\ misses' = 0
    /\ UNCHANGED <<trackVars, known, epoch1Log, epoch, logRoot, at, target, owed>>

(* At the latest epoch's tip only the empty polls are counted: every       *)
(* RecheckEvery-th of them, and the first, re-reads the roots.  Counting   *)
(* goes round from 2 * RecheckEvery, which changes no decision.            *)
CountMiss == misses' = IF misses = 2 * RecheckEvery THEN RecheckEvery + 1 ELSE misses + 1

(* Mutant: the roots are re-read on the first empty poll only. *)
RecheckOnce == misses' = 1

Recheck == misses' = 1 \/ misses' % RecheckEvery = 0

(* The delta is absent: the next epoch, if one is known, or the tip. *)
Absent ==
    /\ Exhausted
    /\ next >= logRoot.openFrom
    /\ next \notin deltas[epoch]
    /\ IF epoch < known
       THEN at' = "step" /\ UNCHANGED misses
       ELSE /\ CountMiss
            /\ at' = IF Recheck THEN "root" ELSE "idle"
    /\ UNCHANGED <<trackVars, known, epoch1Log, epoch, logRoot, next, batch, target, owed>>

StepEpoch ==
    /\ at = "step"
    /\ LoadEpoch(epoch + 1)
    /\ at' = "idle"
    /\ UNCHANGED <<trackVars, known, epoch1Log, target, owed>>

-----------------------------------------------------------------------------
(* Refresh: the track root first, then the log root of the epoch read. *)

Refresh ==
    /\ at = "idle"
    /\ at' = "root"
    /\ UNCHANGED <<trackVars, known, epoch1Log, cursor, target, owed>>

RefreshRoot ==
    /\ at = "root"
    /\ known' = latest
    /\ at' = "log"
    /\ UNCHANGED <<trackVars, epoch1Log, cursor, target, owed>>

(* Mutant: the log root read is not kept. *)
RefreshLogForgets ==
    /\ at = "log"
    /\ epoch1Log' = IF epoch = 1 THEN logs[epoch] ELSE epoch1Log
    /\ at' = "idle"
    /\ UNCHANGED <<trackVars, known, cursor, target, owed>>

RefreshLog ==
    /\ at = "log"
    /\ logRoot' = logs[epoch]
    /\ epoch1Log' = IF epoch = 1 THEN logs[epoch] ELSE epoch1Log
    /\ at' = "idle"
    /\ UNCHANGED <<trackVars, known, epoch, next, misses, batch, target, owed>>

-----------------------------------------------------------------------------
(* Seeks. *)

SeekStart ==
    /\ at = "idle"
    /\ epoch' = 1 /\ logRoot' = epoch1Log
    /\ next' = 0 /\ batch' = <<>> /\ misses' = 0
    /\ due' = <<1, 0>> /\ seen' = {}
    /\ UNCHANGED <<trackVars, known, epoch1Log, at, target, torn>>

(* SeekTip: the log root of the latest epoch known, then its head. *)
SeekTip ==
    /\ at = "idle"
    /\ LoadEpoch(known)
    /\ at' = "head"
    /\ due' = <<known, 0>> /\ seen' = {}
    /\ UNCHANGED <<trackVars, known, epoch1Log, target, torn>>

(* Mutant: the cursor is put past the delta after the head. *)
SeekTipHeadPast ==
    /\ at = "head"
    /\ next' = IF head[epoch] = -1 THEN 0 ELSE head[epoch] + 2
    /\ at' = "idle"
    /\ due' = <<epoch, count[epoch]>>
    /\ UNCHANGED <<trackVars, known, epoch1Log, epoch, logRoot, misses, batch, target, seen,
                   torn>>

SeekTipHead ==
    /\ at = "head"
    /\ next' = IF head[epoch] = -1 THEN 0 ELSE head[epoch] + 1
    /\ at' = "idle"
    /\ due' = <<epoch, count[epoch]>>
    /\ UNCHANGED <<trackVars, known, epoch1Log, epoch, logRoot, misses, batch, target, seen,
                   torn>>

(* SeekAfter a committed group, one the Reader may not know the epoch of.  *)
SeekAfter ==
    /\ at = "idle"
    /\ \E g \in Committed :
        LET e == IF g[1] > known THEN known ELSE g[1]
        IN  /\ LoadEpoch(e)
            /\ target' = g[2]
            /\ due' = <<g[1], g[2] + 1>>
    /\ at' = "locate"
    /\ seen' = {}
    /\ UNCHANGED <<trackVars, known, epoch1Log, torn>>

(* locateAfter: the first run that reaches past the sequence has the group *)
(* that follows it; sealed manifests do not change, so when they are read  *)
(* makes no difference.                                                    *)
LocateSealed ==
    /\ at = "locate"
    /\ \E i \in DOMAIN logRoot.runs :
        LET run == logRoot.runs[i]
            first == IF run.first > target THEN run.first ELSE target + 1
        IN  /\ target < run.last
            /\ \A j \in 1 .. i - 1 : target >= logRoot.runs[j].last
            /\ batch' = From(first, run.last)
            /\ next' = run.last + 1
    /\ at' = "idle"
    /\ target' = 0
    /\ UNCHANGED <<trackVars, known, epoch1Log, epoch, logRoot, misses, owed>>

(* Otherwise the open region is searched from its first delta. *)
LocateOpen ==
    /\ at = "locate"
    /\ \A i \in DOMAIN logRoot.runs : target >= logRoot.runs[i].last
    /\ next' = logRoot.openFrom
    /\ at' = "probe"
    /\ UNCHANGED <<trackVars, known, epoch1Log, epoch, logRoot, misses, batch, target, owed>>

LocateProbe ==
    /\ at = "probe"
    /\ \/ /\ next \in deltas[epoch]
          /\ next > target
          /\ batch' = <<next>>
          /\ next' = next + 1
          /\ at' = "idle"
          /\ target' = 0
       \/ /\ next \in deltas[epoch]
          /\ next <= target
          /\ next' = next + 1
          /\ UNCHANGED <<batch, at, target>>
       \/ /\ next \notin deltas[epoch]
          /\ at' = "idle"
          /\ target' = 0
          /\ UNCHANGED <<batch, next>>
    /\ UNCHANGED <<trackVars, known, epoch1Log, epoch, logRoot, misses, owed>>

(* SeekMedia and SeekWallclock: the cursor goes to the group found in the  *)
(* epoch's log root as it is now, in its run or its delta; position leaves *)
(* Reader.logRoot as it was.  The requests are one step here; Query has    *)
(* the races between them.                                                 *)
SeekTime ==
    /\ at = "idle"
    /\ \E g \in Committed :
        /\ g[1] <= known
        /\ epoch' = g[1]
        /\ due' = g
        /\ torn' = (torn \/ g[1] # epoch)
        /\ \/ \E i \in Covering(logs[g[1]], g[2]) :
                /\ batch' = From(g[2], logs[g[1]].runs[i].last)
                /\ next' = logs[g[1]].runs[i].last + 1
           \/ /\ g[2] >= logs[g[1]].openFrom
              /\ batch' = <<g[2]>>
              /\ next' = g[2] + 1
    /\ misses' = 0
    /\ seen' = {}
    /\ UNCHANGED <<trackVars, known, epoch1Log, logRoot, at, target>>

-----------------------------------------------------------------------------
(* A request fails and the call returns its error.  A failed loadEpoch     *)
(* leaves the cursor alone, and so does a failed locateAfter, which the    *)
(* load before it has put at the start of the epoch; a failed Refresh may  *)
(* have taken the track root already.                                      *)
RequestFails ==
    /\ at \in ReaderSteps
    /\ at' = IF at = "first" THEN "closed" ELSE "idle"
    /\ next' = IF at = "probe" THEN 0 ELSE next
    /\ target' = 0
    /\ torn' = (torn \/ (at = "log" /\ epoch < known))
    /\ UNCHANGED <<trackVars, known, epoch1Log, epoch, logRoot, misses, batch, due, seen>>

(* A step of Open, Reader, Next, or of a call begun otherwise. *)
Advance ==
    \/ OpenTrack \/ OpenReader
    \/ Yield \/ TakeSealed \/ TakeDelta \/ Absent \/ StepEpoch
    \/ RefreshRoot \/ RefreshLog
    \/ SeekTipHead \/ LocateSealed \/ LocateOpen \/ LocateProbe

Seek == SeekStart \/ SeekTip \/ SeekAfter \/ SeekTime

Elsewhere == Produce /\ UNCHANGED readerVars

Next == Elsewhere \/ Advance \/ Seek \/ Refresh \/ RequestFails

Spec == Init /\ [][Next]_vars

(* A consumer that opens the track and polls Next for ever. *)
TailSpec == Init /\ [][Elsewhere \/ Advance]_vars /\ WF_vars(Advance)

-----------------------------------------------------------------------------
(* Properties. *)

(* Every variable stays in its type, the producer's and the Reader's. *)
TypeOK ==
    /\ latest \in Epochs
    /\ logs \in [Epochs -> Log \cup {NoLog}]
    /\ deltas \in [Epochs -> SUBSET Numbers]
    /\ head \in [Epochs -> Numbers \cup {-1}]
    /\ count \in [Epochs -> 0 .. MaxGroups]
    /\ writing \in Epochs
    /\ busy \in {"no", "head", "sweep", "root"}
    /\ sweep \in 0 .. MaxGroups
    /\ known \in Epochs
    /\ epoch1Log \in Log
    /\ epoch \in Epochs
    /\ logRoot \in Log
    /\ next \in 0 .. MaxGroups
    /\ misses \in 0 .. 2 * RecheckEvery
    /\ batch \in Seq(Numbers)
    /\ at \in ReaderSteps \cup {"closed", "idle"}
    /\ target \in Numbers
    /\ due \in Epochs \X (0 .. MaxGroups)
    /\ seen \subseteq Epochs \X Numbers
    /\ torn \in BOOLEAN

(* Nothing is claimed of a Reader whose log root was torn from its epoch,  *)
(* and TLC need not follow it.                                             *)
Whole == ~torn

InBatch(g) == g[1] = epoch /\ \E i \in DOMAIN batch : batch[i] = g[2]

(* Next never passes over a committed group: whatever was sealed,          *)
(* reclaimed or begun since the Reader last read the roots, every group it *)
(* owes that lies before its cursor was yielded or is about to be.  But    *)
(* for two cases it does not hold in: a Refresh that took the track root   *)
(* and failed on the log root, and a time seek into another epoch, whose   *)
(* position leaves the log root of the old one (torn).                     *)
NothingSkipped ==
    Whole => \A g \in Committed :
        ~Earlier(g, due) /\ Earlier(g, <<epoch, next>>) => g \in seen \/ InBatch(g)

(* When the Reader knows of a newer epoch, what it holds of the one it     *)
(* reads is final, so that an absent delta is the end of that epoch: the   *)
(* track root is read before the log root (Refresh).                       *)
OldEpochsFinal ==
    at \notin {"closed", "first", "log"} /\ epoch < known /\ Whole =>
        logRoot = logs[epoch]

(* A tailing Reader delivers every group committed: it does not wait for   *)
(* ever on a delta that was sealed away, nor in an epoch that ended.       *)
Delivered == \A g \in Epochs \X Numbers : g \in Committed ~> g \in seen

===============================================================================
