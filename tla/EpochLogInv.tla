------------------------------ MODULE EpochLogInv ------------------------------
(***************************************************************************)
(* The inductive invariants of EpochLog.  TypeInv holds for any number of  *)
(* writers and any failures; IndInv is for one live writer at a time whose *)
(* callers do not call Seal on it while it is stale.  Each part says what  *)
(* one stage of an operation may rely on.                                  *)
(***************************************************************************)
EXTENDS EpochLog

(* What keeps the arithmetic on delta numbers in range. *)
WriterStepOK(w) ==
    /\ pc[w] \in {"down", "head"} => open[w] = <<>> /\ last[w] = None
    /\ pc[w] = "probe" => root[w].openFrom <= cursor[w]
    /\ pc[w] \in {"commit", "holds"} => nextDelta[w] \in Deltas /\ ~stale[w]
    /\ pc[w] \in {"publish", "seal", "swap"} => open[w] # <<>> /\ nextDelta[w] > 0
    /\ pc[w] = "reclaim" => upTo[w] \in Deltas
    /\ pc[w] \notin {"down", "head", "probe"} /\ ~stale[w] =>
            root[w].openFrom <= nextDelta[w]
    /\ open[w] # <<>> => root[w].openFrom \in Deltas

StepOK == \A w \in Writers : WriterStepOK(w)

TypeInv == TypeOK /\ StepOK

-----------------------------------------------------------------------------
(* The regime IndInv is about. *)
SingleWriter == Exclusive /\ SealCalls # "always"

Live(w) == pc[w] # "down"

(* At most one writer is live. *)
Alone == \A v, w \in Writers : Live(v) /\ Live(w) => v = w

(* The deltas of the open region are the commits made there, commits have  *)
(* no gap, and each has its group object.                                  *)
DeltasOK ==
    /\ \A m, n \in Deltas : m < n /\ commits[n] # None => commits[m] # None
    /\ \A n \in Deltas : n < log.openFrom => commits[n] # None
    /\ \A n \in Deltas : n >= log.openFrom => delta[n] = commits[n]
    /\ \A n \in Deltas : commits[n] # None => commits[n].seq \in payload

(* A sealed manifest, referenced or not, holds the commits of its range. *)
HoldsRange(rows, f, l) ==
    /\ Len(rows) = l - f + 1
    /\ \A n \in Deltas : f <= n /\ n <= l => /\ commits[n] # None
                                            /\ rows[n - f + 1] = commits[n]

ManifestsOK ==
    \A f, l \in Deltas :
        sealed[<<f, l>>] # <<>> => HoldsRange(sealed[<<f, l>>], f, l)

RefOK(ref) ==
    /\ ref.key = <<ref.first, ref.last>>
    /\ sealed[ref.key] # <<>>
    /\ commits[ref.last] # None
    /\ ref.lastSeq = commits[ref.last].seq
    /\ ref.mediaEnd = commits[ref.last].end

RefsOK ==
    /\ \A i \in DOMAIN log.sealed : RefOK(log.sealed[i])
    /\ \A n \in Deltas :
            n < log.openFrom => \E i \in DOMAIN log.sealed : Covers(log.sealed[i], n)
    /\ RefsTile

HeadOK == head # NoHead => commits[head] # None

AckedOK == \A row \in acked : \E n \in Deltas : commits[n] = row

StoreOK == DeltasOK /\ ManifestsOK /\ RefsOK /\ HeadOK /\ AckedOK

-----------------------------------------------------------------------------
(* The rows are those c has from one number up to, not including, another. *)
RowsFrom(rows, from, end, c) ==
    /\ from <= end
    /\ Len(rows) = end - from
    /\ \A n \in Deltas : from <= n /\ n < end => rows[n - from + 1] = c[n]

(* A writer's open groups are the rows committed from OpenFrom up to end. *)
OpenUpTo(w, end) == RowsFrom(open[w], root[w].openFrom, end, commits)

(* A log root is identified by its version. *)
RootOK(w) ==
    Live(w) => /\ root[w].ver <= log.ver
               /\ root[w].ver = log.ver => root[w] = log

(* Recovery reads the newest log root and the commits, from OpenFrom up. *)
RecoveryOK(w) ==
    /\ pc[w] \in {"head", "probe"} => root[w] = log
    /\ pc[w] = "probe" =>
        /\ OpenUpTo(w, cursor[w])
        /\ \A n \in Deltas : n < cursor[w] => commits[n] # None
        /\ last[w] = IF open[w] = <<>> THEN None ELSE commits[cursor[w] - 1]
        /\ upTo[w] # root[w].openFrom => upTo[w] \in Deltas /\ commits[upTo[w]] # None

(* Past recovery, with nothing failed since, the writer knows the tip, the *)
(* open groups and the last group, but for the commit it may be waiting to *)
(* learn about.                                                            *)
Current(w) == pc[w] \notin {"down", "head", "probe"} /\ ~stale[w]

ViewOK(w) ==
    Current(w) =>
        /\ \A n \in Deltas : n < nextDelta[w] => commits[n] # None
        /\ \A n \in Deltas : n > nextDelta[w] => commits[n] = None
        /\ pc[w] # "holds" /\ nextDelta[w] \in Deltas => commits[nextDelta[w]] = None
        /\ OpenUpTo(w, nextDelta[w])
        /\ nextDelta[w] = 0 => last[w] = None
        /\ nextDelta[w] > 0 => /\ last[w] # None
                               /\ last[w].seq = commits[nextDelta[w] - 1].seq
                               /\ last[w].end = commits[nextDelta[w] - 1].end

(* The row an append is about to commit, or may have committed, fits. *)
AppendOK(w) ==
    pc[w] \in {"commit", "holds"} =>
        /\ meta[w].seq \in payload
        /\ \A n \in Deltas : n < nextDelta[w] => commits[n].seq # meta[w].seq
        /\ nextDelta[w] > 0 => commits[nextDelta[w] - 1].end <= meta[w].start
        /\ commits[nextDelta[w]] \in {None, meta[w]}

(* A seal in progress folds the open region of a current writer; only      *)
(* deltas below the published OpenFrom are reclaimed.                      *)
SealOK(w) ==
    /\ pc[w] \in {"publish", "seal", "swap"} => ~stale[w]
    /\ pc[w] = "swap" => sealed[SealKey(w)] # <<>>
    /\ pc[w] = "reclaim" => upTo[w] < log.openFrom

WriterOK(w) == RootOK(w) /\ RecoveryOK(w) /\ ViewOK(w) /\ AppendOK(w) /\ SealOK(w)

WritersOK == \A w \in Writers : WriterOK(w)

IndInv == TypeInv /\ Alone /\ StoreOK /\ WritersOK

================================================================================
