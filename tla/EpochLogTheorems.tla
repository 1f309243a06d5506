--------------------------- MODULE EpochLogTheorems ----------------------------
(***************************************************************************)
(* What IndInv gives: the safety properties of EpochLog and that it        *)
(* implements CommitLog, for any bounds, writers and inputs, with or       *)
(* without store faults, as long as one writer is live at a time and Seal  *)
(* is not called on a stale writer.                                        *)
(***************************************************************************)
EXTENDS EpochLogShared, WellFoundedInduction

-----------------------------------------------------------------------------
(***************************************************************************)
(* Every step of a sole writer keeps IndInv: how each kind of step leaves  *)
(* the parts that are about the writers; the steps that open, reload and   *)
(* recover a writer, which at the end knows the tip, the open groups and   *)
(* the last group, whatever the head said; then the other steps and the    *)
(* induction.                                                              *)
(***************************************************************************)

(* A step of nobody, or one that only changes what the caller has picked. *)
LEMMA WritersFrame ==
  ASSUME WritersOK, Alone, UNCHANGED <<payload, sealed, log, viewVars, stepVars, pc, commits>>
  PROVE  WritersOK' /\ Alone'
<1>1. Alone'
  BY Zenon DEF Alone, Live
<1>2. QED
  BY <1>1, Untouched, Zenon DEF WritersOK

(* A step that changes only what the call in progress remembers. *)
LEMMA CallKept ==
  ASSUME IndInv, NEW w \in Writers, Live(w),
         UNCHANGED <<storeVars, viewVars, stepVars, pc, histVars>>
  PROVE  Kept(w)
<1>1. StoreOK'
  BY Parts, StoreFrame, Zenon
<1>2. WriterOK(w)'
  BY Parts, Untouched, Zenon DEF storeVars, histVars
<1>3. QED
  BY <1>1, <1>2, Parts, OthersDown, Zenon DEF Kept

(* A process that ends. *)
LEMMA DownKept ==
  ASSUME IndInv, NEW w \in Writers, Live(w), GoTo(w, "down"), UNCHANGED <<storeVars, histVars>>
  PROVE  Kept(w)
<1>1. StoreOK'
  BY Parts, StoreFrame, Zenon
<1>2. pc'[w] = "down"
  BY Parts, Domains, Zenon DEF GoTo
<1>3. WriterOK(w)'
  BY <1>2, Zenon DEF WriterOK, RootOK, RecoveryOK, ViewOK, AppendOK, SealOK, Live, Current
<1>4. QED
  BY <1>1, <1>3, Parts, OthersDown, Zenon DEF Kept

(* A writer that ends an operation, or goes on to seal, and believes what  *)
(* it believed, or less when it is stale.                                  *)
LEMMA Settle ==
  ASSUME NEW w \in Writers, WriterOK(w), RootOK(w)',
         pc'[w] \in {"idle", "seal"}, pc'[w] = "seal" => ~stale'[w],
         ~stale'[w] => ~stale[w] /\ pc[w] \in {"idle", "publish", "seal", "swap", "reclaim"},
         UNCHANGED <<root, nextDelta, open, last, commits>>
  PROVE  WriterOK(w)'
<1>1. ViewOK(w)'
  BY Zenon DEF WriterOK, ViewOK, Current, OpenUpTo
<1>2. QED
  BY <1>1, Zenon DEF WriterOK, RecoveryOK, AppendOK, SealOK

(* A step that ends an operation, or begins to seal. *)
LEMMA SettleKept ==
  ASSUME IndInv, NEW w \in Writers, Live(w), NEW step \in {"idle", "seal"}, GoTo(w, step),
         step = "seal" => ~stale'[w],
         ~stale'[w] => ~stale[w] /\ pc[w] \in {"idle", "publish", "seal", "swap", "reclaim"},
         UNCHANGED <<storeVars, root, nextDelta, open, last, histVars>>
  PROVE  Kept(w)
<1>1. StoreOK'
  BY Parts, StoreFrame, Zenon
<1>2. pc'[w] = step
  BY Parts, Domains, Zenon DEF GoTo
<1>3. RootOK(w)'
  BY Parts, Zenon DEF WriterOK, RootOK, storeVars
<1>4. WriterOK(w)'
  BY <1>2, <1>3, Parts, Settle, Zenon DEF histVars
<1>5. \A v \in Writers \ {w} : pc'[v] = "down"
  BY Parts, OthersDown, Zenon DEF Steps
<1>6. QED
  BY <1>1, <1>4, <1>5, Zenon DEF Kept

(* Creating the group object, with every answer the store may give. *)
LEMMA GroupKept ==
  ASSUME IndInv, NEW w \in Writers, NEW seq \in GroupSequences, NEW start \in Nat,
         NEW dur \in Nat, NEW c \in Call,
         \/ GroupStored(w, seq, start, dur, c)
         \/ GroupExists(w, seq, start, c)
         \/ GroupFails(w, seq, start, c)
  PROVE  Kept(w)
<1>1. pc[w] = "idle" /\ ~stale[w] /\ nextDelta[w] \in Deltas /\ InOrder(w, seq, start)
  BY Zenon DEF GroupStored, GroupExists, GroupFails, Appendable
<1>2. StoreOK'
  <2>1. /\ payload \subseteq payload'
        /\ UNCHANGED <<delta, sealed, log, head, histVars>>
    BY Zenon DEF GroupStored, GroupExists, GroupFails, storeVars
  <2>2. QED
    BY <2>1, Parts, PayloadFrame, Zenon
<1>3. \A v \in Writers \ {w} : pc'[v] = "down"
  BY <1>1, Parts, OthersDown, Zenon DEF Live, GroupStored, GroupExists, GroupFails, Steps
<1>4. CASE GroupStored(w, seq, start, dur, c)
  <2>1. /\ pc'[w] = "commit" /\ meta'[w].seq = seq /\ meta'[w].start = start
        /\ payload' = payload \cup {seq} /\ seq \notin payload
        /\ UNCHANGED <<root, nextDelta, open, last, stale, log, commits>>
    BY <1>4, Parts, Domains, Zenon DEF GroupStored, GoTo, viewVars, histVars
  <2>2. ViewOK(w) /\ Current(w) /\ RootOK(w) /\ DeltasOK
    BY <1>1, Parts, Zenon DEF WriterOK, Current, StoreOK
  <2>3. /\ \A n \in Deltas : n < nextDelta[w] => commits[n] # None
        /\ commits[nextDelta[w]] = None
        /\ nextDelta[w] > 0 => /\ last[w] # None
                               /\ last[w].end = commits[nextDelta[w] - 1].end
    BY <1>1, <2>2, Zenon DEF ViewOK
  <2>4. \A n \in Deltas : n < nextDelta[w] => commits[n].seq # seq
    BY <2>1, <2>2, <2>3, Zenon DEF DeltasOK
  <2>5. nextDelta[w] > 0 => commits[nextDelta[w] - 1].end <= start
    <3>1. last[w] # None => last[w].end <= start
      <4>1. last[w] # None => last[w].end \in Nat
        BY Parts, RowTypes, Zenon DEF TypeInv, TypeOK
      <4>2. QED
        BY <1>1, <4>1, Zenon DEF InOrder
    <3>2. QED
      BY <2>3, <3>1, Zenon
  <2>6. AppendOK(w)'
    BY <2>1, <2>3, <2>4, <2>5, Zenon DEF AppendOK
  <2>7. RootOK(w)' /\ ViewOK(w)'
    BY <1>1, <2>1, <2>2, Zenon DEF RootOK, ViewOK, Live, Current, OpenUpTo
  <2>8. QED
    BY <1>2, <1>3, <2>1, <2>6, <2>7, Zenon DEF Kept, WriterOK, RecoveryOK, SealOK
<1>5. CASE GroupExists(w, seq, start, c) \/ GroupFails(w, seq, start, c)
  <2>1. pc'[w] = "idle" /\ UNCHANGED <<root, nextDelta, open, last, log, commits>>
    BY <1>1, <1>5, Zenon DEF GroupExists, GroupFails, storeVars, viewVars, histVars
  <2>2. RootOK(w)'
    BY <1>1, <2>1, Parts, Zenon DEF WriterOK, RootOK, Live
  <2>3. WriterOK(w)'
    BY <1>1, <2>1, <2>2, Parts, Settle, Zenon
  <2>4. QED
    BY <1>2, <1>3, <2>3, Zenon DEF Kept
<1>6. QED
  BY <1>4, <1>5, Zenon

-----------------------------------------------------------------------------
(* Opening, reloading and recovering a writer. *)

(* With nothing open, the newest sealed run ends at the delta before the   *)
(* tip, and stands in for its group.                                       *)
LEMMA SealedLastIsTip ==
  ASSUME TypeInv, StoreOK, log.sealed # <<>>
  PROVE  /\ log.openFrom > 0
         /\ SealedLast(log.sealed) # None
         /\ SealedLast(log.sealed).seq = commits[log.openFrom - 1].seq
         /\ SealedLast(log.sealed).end = commits[log.openFrom - 1].end
<1> DEFINE newest == log.sealed[Len(log.sealed)]
<1>1. Len(log.sealed) \in DOMAIN log.sealed /\ newest \in Ref
  BY StoreTypes, LenFacts
<1>2. newest.last \in Deltas
  BY <1>1, Zenon DEF Ref
<1>3. log.openFrom = newest.last + 1
  BY Zenon DEF StoreOK, RefsOK, RefsTile
<1>4. newest.lastSeq = commits[newest.last].seq /\ newest.mediaEnd = commits[newest.last].end
  BY <1>1, Zenon DEF StoreOK, RefsOK, RefOK
<1>5. log.openFrom - 1 = newest.last /\ log.openFrom > 0
  BY <1>2, <1>3 DEF Deltas
<1>6. SealedLast(log.sealed) \in Row
  BY <1>1, RowType, Zenon DEF SealedLast, Ref
<1>7. SealedLast(log.sealed) # None
  BY <1>6, NoneAssumption, Zenon
<1>8. /\ SealedLast(log.sealed).seq = newest.lastSeq
      /\ SealedLast(log.sealed).end = newest.mediaEnd
  BY Zenon DEF SealedLast
<1> HIDE DEF newest
<1>9. QED
  BY <1>4, <1>5, <1>7, <1>8, Zenon

(* The process ends; the objects stay. *)
LEMMA CrashKeeps ==
  ASSUME SingleWriter, IndInv, NEW w \in Writers, Crash(w)
  PROVE  Kept(w)
  BY DownKept, Zenon DEF Crash, Discard, Live


(* Track.Writer fetches the log root before it recovers. *)
LEMMA OpenWriterKeeps ==
  ASSUME SingleWriter, IndInv, NEW w \in Writers, OpenWriter(w)
  PROVE  Kept(w)
<1>0. TypeInv /\ WriterStepOK(w) /\ Alone /\ StoreOK /\ WriterOK(w)
  BY Parts, Zenon
<1>1. StoreOK'
  BY <1>0, StoreFrame, Zenon DEF OpenWriter
<1>2. pc'[w] = "head" /\ root'[w] = log /\ log.ver \in Nat /\ UNCHANGED log
  BY <1>0, Domains, StoreTypes, Zenon DEF OpenWriter, GoTo, storeVars
<1>3. WriterOK(w)'
  BY <1>2 DEF WriterOK, RootOK, RecoveryOK, ViewOK, AppendOK, SealOK, Current
<1>4. \A v \in Writers \ {w} : pc'[v] = "down"
  BY <1>0, Domains, Zenon DEF OpenWriter, GoTo, SingleWriter
<1>5. QED
  BY <1>1, <1>3, <1>4, Zenon DEF Kept


(* reloadIfStale starts again from the log root as it is now. *)
LEMMA ReloadKeeps ==
  ASSUME SingleWriter, IndInv, NEW w \in Writers, Reload(w)
  PROVE  Kept(w)
<1>0. TypeInv /\ WriterStepOK(w) /\ Alone /\ StoreOK /\ WriterOK(w)
  BY Parts, Zenon
<1>1. StoreOK'
  BY <1>0, StoreFrame, Zenon DEF Reload
<1>2. pc'[w] = "head" /\ root'[w] = log /\ log.ver \in Nat /\ UNCHANGED log
  BY <1>0, Domains, StoreTypes, Zenon DEF Reload, GoTo, storeVars
<1>3. WriterOK(w)'
  BY <1>2 DEF WriterOK, RootOK, RecoveryOK, ViewOK, AppendOK, SealOK, Current
<1>4. \A v \in Writers \ {w} : pc'[v] = "down"
  BY <1>0, OthersDown, Zenon DEF Reload, Live, Steps
<1>5. QED
  BY <1>1, <1>3, <1>4, Zenon DEF Kept


(* A reload that fetched nothing leaves the writer stale. *)
LEMMA ReloadFailsKeeps ==
  ASSUME SingleWriter, IndInv, NEW w \in Writers, ReloadFails(w)
  PROVE  Kept(w)
  BY CallKept, Zenon DEF ReloadFails, Live


(* recover takes the head as a lower bound on the tip. *)
LEMMA ReadHeadKeeps ==
  ASSUME SingleWriter, IndInv, NEW w \in Writers, ReadHead(w)
  PROVE  Kept(w)
<1>0. TypeInv /\ WriterStepOK(w) /\ Alone /\ StoreOK /\ WriterOK(w)
  BY Parts, Zenon
<1>1. StoreOK'
  BY <1>0, StoreFrame, Zenon DEF ReadHead
<1>2. /\ root[w] = log /\ open[w] = <<>> /\ last[w] = None /\ RootOK(w) /\ Live(w)
      /\ log.openFrom \in 0 .. MaxDelta + 1 /\ head \in Deltas \cup {NoHead}
  BY <1>0, StoreTypes, Zenon DEF ReadHead, WriterStepOK, WriterOK, RecoveryOK, Live
<1>3. /\ pc'[w] = "probe" /\ cursor'[w] = log.openFrom
      /\ upTo'[w] = IF head >= log.openFrom THEN head ELSE log.openFrom
      /\ UNCHANGED <<root, open, last, log, commits>>
  BY <1>0, <1>2, Domains, Zenon DEF ReadHead, GoTo, storeVars, viewVars, histVars
<1>4. OpenUpTo(w, cursor[w])'
  BY <1>2, <1>3, EmptyFacts DEF OpenUpTo, RowsFrom, Deltas
<1>5. \A n \in Deltas : n < log.openFrom => commits[n] # None
  BY <1>0, Zenon DEF StoreOK, DeltasOK
<1>6. upTo'[w] # log.openFrom => upTo'[w] \in Deltas /\ commits[upTo'[w]] # None
  BY <1>0, <1>2, <1>3 DEF StoreOK, HeadOK, NoHead, Deltas
<1>7. WriterOK(w)'
  <2>1. RecoveryOK(w)'
    BY <1>2, <1>3, <1>4, <1>5, <1>6, Zenon DEF RecoveryOK
  <2>2. QED
    BY <1>2, <1>3, <2>1, Zenon DEF WriterOK, RootOK, ViewOK, AppendOK, SealOK, Current
<1>8. \A v \in Writers \ {w} : pc'[v] = "down"
  BY <1>0, OthersDown, ZenonT(30) DEF ReadHead, Live, Steps
<1>9. QED
  BY <1>1, <1>7, <1>8, Zenon DEF Kept


(* recover finds the next committed delta. *)
LEMMA ProbeDeltaKeeps ==
  ASSUME SingleWriter, IndInv, NEW w \in Writers, ProbeDelta(w)
  PROVE  Kept(w)
<1>0. TypeInv /\ WriterStepOK(w) /\ Alone /\ StoreOK /\ WriterOK(w)
  BY Parts, Zenon
<1>1. StoreOK'
  BY <1>0, StoreFrame, Zenon DEF ProbeDelta
<1>2. /\ pc[w] = "probe" /\ RecoveryOK(w) /\ RootOK(w)
      /\ cursor[w] \in Deltas /\ delta[cursor[w]] # None
      /\ log.openFrom \in 0 .. MaxDelta + 1 /\ root[w].openFrom <= cursor[w]
      /\ open[w] \in Seq(Row) /\ commits \in [Deltas -> Row \cup {None}]
  BY <1>0, StoreTypes, WriterTypes, Zenon DEF ProbeDelta, DeltaAt, WriterStepOK, WriterOK
<1>3. /\ root[w] = log /\ OpenUpTo(w, cursor[w])
      /\ \A n \in Deltas : n < cursor[w] => commits[n] # None
      /\ upTo[w] # root[w].openFrom => upTo[w] \in Deltas /\ commits[upTo[w]] # None
  BY <1>2, Zenon DEF RecoveryOK
<1>4. delta[cursor[w]] = commits[cursor[w]] /\ commits[cursor[w]] \in Row
  BY <1>0, <1>2, <1>3, Zenon DEF StoreOK, DeltasOK
<1>5. /\ open'[w] = Append(open[w], commits[cursor[w]])
      /\ last'[w] = commits[cursor[w]] /\ cursor'[w] = cursor[w] + 1
      /\ UNCHANGED <<root, log, commits, pc, upTo>>
  BY <1>0, <1>4, Domains, Zenon DEF ProbeDelta, storeVars, histVars
<1>6. RowsFrom(Append(open[w], commits[cursor[w]]), log.openFrom, cursor[w] + 1, commits)
  BY <1>2, <1>3, <1>4, RowsGrow DEF OpenUpTo
<1>7. WriterOK(w)'
  <2>1. open'[w] # <<>>
    BY <1>2, <1>4, <1>5, AppendFacts, SMTT(20)
  <2>2. cursor'[w] - 1 = cursor[w]
    BY <1>2, <1>5, SMTT(20) DEF Deltas
  <2>3. \A n \in Deltas : n < cursor[w] + 1 => commits[n] # None
    BY <1>2, <1>3, <1>4 DEF Deltas
  <2>4. OpenUpTo(w, cursor[w])'
    BY <1>3, <1>5, <1>6, Zenon DEF OpenUpTo
  <2>5. RecoveryOK(w)'
    BY <1>2, <1>3, <1>5, <2>1, <2>2, <2>3, <2>4, ZenonT(30) DEF RecoveryOK
  <2>6. QED
    BY <1>2, <1>5, <2>5, ZenonT(30)
    DEF WriterOK, RootOK, ViewOK, AppendOK, SealOK, Live, Current
<1>8. \A v \in Writers \ {w} : pc'[v] = "down"
  BY <1>0, OthersDown, ZenonT(30) DEF ProbeDelta, Live
<1>9. QED
  BY <1>1, <1>7, <1>8, Zenon DEF Kept


(* recover found the first free delta number: the tip. *)
LEMMA RecoveredKeeps ==
  ASSUME SingleWriter, IndInv, NEW w \in Writers, Recovered(w)
  PROVE  Kept(w)
<1>0. TypeInv /\ WriterStepOK(w) /\ Alone /\ StoreOK /\ WriterOK(w)
  BY Parts, Zenon
<1>1. StoreOK'
  BY <1>0, StoreFrame, Zenon DEF Recovered
<1>2. /\ pc[w] = "probe" /\ RecoveryOK(w) /\ RootOK(w)
      /\ cursor[w] \in 0 .. MaxDelta + 1 /\ DeltaAt(cursor[w]) = None
      /\ log.openFrom \in 0 .. MaxDelta + 1 /\ root[w].openFrom <= cursor[w]
      /\ open[w] \in Seq(Row) /\ log.sealed \in Seq(Ref)
  BY <1>0, StoreTypes, WriterTypes, Zenon DEF Recovered, WriterStepOK, WriterOK
<1>3. /\ root[w] = log /\ OpenUpTo(w, cursor[w])
      /\ \A n \in Deltas : n < cursor[w] => commits[n] # None
      /\ last[w] = IF open[w] = <<>> THEN None ELSE commits[cursor[w] - 1]
  BY <1>2, Zenon DEF RecoveryOK
<1>4. /\ pc'[w] = "idle" /\ ~stale'[w] /\ nextDelta'[w] = cursor[w]
      /\ last'[w] = IF last[w] = None /\ log.sealed # <<>>
                    THEN SealedLast(log.sealed) ELSE last[w]
      /\ UNCHANGED <<root, open, log, commits>>
  BY <1>0, <1>3, Domains, Zenon DEF Recovered, Return, GoTo, storeVars, histVars
<1>5. /\ cursor[w] \in Deltas => commits[cursor[w]] = None
      /\ \A n \in Deltas : n > cursor[w] => commits[n] = None
  <2>1. cursor[w] \in Deltas => commits[cursor[w]] = None
    BY <1>0, <1>2, <1>3, Zenon DEF DeltaAt, StoreOK, DeltasOK
  <2>2. \A n \in Deltas : n > cursor[w] => cursor[w] \in Deltas
    BY <1>2, BoundsAssumption DEF Deltas
  <2>3. QED
    BY <1>0, <2>1, <2>2, Zenon DEF StoreOK, DeltasOK
<1>6. /\ cursor[w] = 0 => last'[w] = None
      /\ cursor[w] > 0 => /\ last'[w] # None
                          /\ last'[w].seq = commits[cursor[w] - 1].seq
                          /\ last'[w].end = commits[cursor[w] - 1].end
  <2>1. Len(open[w]) = cursor[w] - log.openFrom /\ (open[w] = <<>> <=> Len(open[w]) = 0)
    BY <1>2, <1>3, LenFacts, Zenon DEF OpenUpTo, RowsFrom
  <2>2. CASE open[w] = <<>>
    <3>1. cursor[w] = log.openFrom /\ last[w] = None
      BY <1>2, <1>3, <2>1, <2>2, SMTT(20)
    <3>2. CASE log.sealed = <<>>
      <4>1. log.openFrom = 0
        BY <1>0, <3>2, Zenon DEF StoreOK, RefsOK, RefsTile
      <4>2. QED
        BY <1>4, <3>1, <3>2, <4>1
    <3>3. CASE log.sealed # <<>>
      BY <1>0, <1>2, <1>4, <3>1, <3>3, SealedLastIsTip, SMTT(20)
    <3>4. QED
      BY <3>2, <3>3, Zenon
  <2>3. CASE open[w] # <<>>
    <3>1. /\ Len(open[w]) \in Nat \ {0} /\ Len(open[w]) = cursor[w] - log.openFrom
          /\ cursor[w] \in 0 .. MaxDelta + 1 /\ log.openFrom \in 0 .. MaxDelta + 1
      BY <1>2, <2>1, <2>3, LenFacts, Zenon
    <3>2. cursor[w] > 0 /\ cursor[w] - 1 \in Deltas /\ cursor[w] - 1 < cursor[w]
      BY <3>1, BoundsAssumption DEF Deltas
    <3>3. commits[cursor[w] - 1] # None
      BY <1>3, <3>2, Zenon
    <3>4. QED
      BY <1>3, <1>4, <2>3, <3>2, <3>3, SMTT(20)
  <2>4. QED
    BY <2>2, <2>3, Zenon
<1>7. WriterOK(w)'
  <2>1. ViewOK(w)'
    <3>1. OpenUpTo(w, nextDelta[w])'
      BY <1>3, <1>4, Zenon DEF OpenUpTo
    <3>2. QED
      BY <1>3, <1>4, <1>5, <1>6, <3>1, Zenon DEF ViewOK
  <2>2. RootOK(w)'
    BY <1>2, <1>4, Zenon DEF RootOK, Live
  <2>3. QED
    BY <1>4, <2>1, <2>2, Zenon DEF WriterOK, RecoveryOK, AppendOK, SealOK
<1>8. \A v \in Writers \ {w} : pc'[v] = "down"
  BY <1>0, OthersDown, Zenon DEF Recovered, Return, Live, Steps
<1>9. QED
  BY <1>1, <1>7, <1>8, Zenon DEF Kept


(* recover gives up: the writer is dropped, or stays stale. *)
LEMMA RecoverFailsKeeps ==
  ASSUME SingleWriter, IndInv, NEW w \in Writers, RecoverFails(w)
  PROVE  Kept(w)
<1>1. Live(w) /\ pc[w] \in {"head", "probe"}
  BY Zenon DEF RecoverFails, Live
<1>2. CASE Discard(w)
  BY <1>1, <1>2, DownKept, Zenon DEF RecoverFails, Discard
<1>3. CASE stale[w] /\ Return(w) /\ UNCHANGED viewVars
  BY <1>1, <1>3, SettleKept, Zenon DEF RecoverFails, Return, viewVars
<1>4. QED
  BY <1>2, <1>3, Zenon DEF RecoverFails


-----------------------------------------------------------------------------

(* Append picks the next sequence. *)
LEMMA PickSequenceKeeps ==
  ASSUME SingleWriter, IndInv, NEW w \in Writers, PickSequence(w)
  PROVE  Kept(w)
  BY CallKept, Zenon DEF PickSequence, Live


(* AppendGroup stores the group object, or meets one with its name. *)
LEMMA AppendGroupKeeps ==
  ASSUME SingleWriter, IndInv, NEW w \in Writers, AppendGroup(w)
  PROVE  Kept(w)
<1>0. TypeInv /\ WriterStepOK(w) /\ Alone /\ StoreOK /\ WriterOK(w)
  BY Parts, Zenon
<1>1. PICK seq \in GroupSequences, start \in Anchors, dur \in Durations :
          \/ GroupStored(w, seq, start, dur, call[w])
          \/ GroupExists(w, seq, start, call[w])
  BY Zenon DEF AppendGroup
<1>2. start \in Nat /\ dur \in Nat /\ call[w] \in Call
  BY <1>0, InputsAssumption, WriterTypes, Zenon
<1>3. QED
  BY <1>1, <1>2, GroupKept, Zenon


(* The group object was stored, or not; the caller sees an error. *)
LEMMA AppendGroupFailsKeeps ==
  ASSUME SingleWriter, IndInv, NEW w \in Writers, AppendGroupFails(w)
  PROVE  Kept(w)
<1>0. TypeInv /\ WriterStepOK(w) /\ Alone /\ StoreOK /\ WriterOK(w)
  BY Parts, Zenon
<1>1. PICK seq \in GroupSequences, start \in Anchors : GroupFails(w, seq, start, call[w])
  BY Zenon DEF AppendGroupFails
<1>2. start \in Nat /\ 0 \in Nat /\ call[w] \in Call
  BY <1>0, InputsAssumption, WriterTypes, Zenon
<1>3. QED
  BY <1>1, <1>2, GroupKept, Zenon


(* Append stores the group it picked, or skips its sequence. *)
LEMMA AppendPickedKeeps ==
  ASSUME SingleWriter, IndInv, NEW w \in Writers, AppendPicked(w)
  PROVE  Kept(w)
<1>0. TypeInv /\ WriterStepOK(w) /\ Alone /\ StoreOK /\ WriterOK(w)
  BY Parts, Zenon
<1>1. PICK dur \in Durations :
          \/ GroupStored(w, call[w].pick.seq, call[w].pick.start, dur, NoCall)
          \/ GroupExists(w, call[w].pick.seq, call[w].pick.start, AfterCollision(call[w]))
  BY Zenon DEF AppendPicked
<1>2. call[w] \in Call /\ call[w].pick # None
  BY <1>0, WriterTypes, Zenon DEF AppendPicked
<1>3. /\ call[w].pick.seq \in GroupSequences /\ call[w].pick.start \in Nat
      /\ AfterCollision(call[w]) \in Call /\ NoCall \in Call /\ dur \in Nat
  BY <1>2, CallTypes, Zeros, InputsAssumption, Zenon
<1>4. QED
  BY <1>1, <1>3, GroupKept, Zenon


(* The same failure under Append. *)
LEMMA AppendPickedFailsKeeps ==
  ASSUME SingleWriter, IndInv, NEW w \in Writers, AppendPickedFails(w)
  PROVE  Kept(w)
<1>0. TypeInv /\ WriterStepOK(w) /\ Alone /\ StoreOK /\ WriterOK(w)
  BY Parts, Zenon
<1>1. call[w] \in Call /\ call[w].pick # None
  BY <1>0, WriterTypes, Zenon DEF AppendPickedFails
<1>2. /\ call[w].pick.seq \in GroupSequences /\ call[w].pick.start \in Nat
      /\ NoCall \in Call /\ 0 \in Nat
  BY <1>1, CallTypes, Zeros, Zenon
<1>3. GroupFails(w, call[w].pick.seq, call[w].pick.start, NoCall)
  BY Zenon DEF AppendPickedFails
<1>4. QED
  BY <1>2, <1>3, GroupKept, Zenon


(* Append gives up. *)
LEMMA PickRefusedKeeps ==
  ASSUME SingleWriter, IndInv, NEW w \in Writers, PickRefused(w)
  PROVE  Kept(w)
  BY CallKept, Zenon DEF PickRefused, Live


(* The delta manifest is created: the commit. *)
LEMMA CommitDeltaKeeps ==
  ASSUME SingleWriter, IndInv, NEW w \in Writers, CommitDelta(w)
  PROVE  Kept(w)
<1>0. TypeInv /\ WriterStepOK(w) /\ Alone /\ StoreOK /\ WriterOK(w)
  BY Parts, Zenon
<1>1. /\ pc[w] \in {"commit", "holds"} /\ WriterOK(w) /\ StoreOK
      /\ nextDelta[w] \in Deltas /\ ~stale[w] /\ meta[w] \in Row
  BY <1>0, WriterTypes, Zenon DEF CommitDelta, WriterStepOK
<1>2. /\ \A n \in Deltas : n < nextDelta[w] => commits[n] # None
      /\ \A n \in Deltas : n > nextDelta[w] => commits[n] = None
      /\ meta[w].seq \in payload /\ commits[nextDelta[w]] \in {None, meta[w]}
      /\ pc[w] = "commit" => commits[nextDelta[w]] = None
  BY <1>1, Zenon DEF WriterOK, ViewOK, AppendOK, Current
<1>3. /\ StoreDelta(w) /\ Confirm(w) /\ pc[w] = "commit"
      /\ acked' = acked \cup {meta[w]}
  BY Zenon DEF CommitDelta, Confirm
<1>4. StoreOK'
  BY <1>0, <1>1, <1>2, <1>3, CommitFrame, Zenon
<1>5. /\ commits'[nextDelta[w]] = meta[w] /\ UNCHANGED log
      /\ \A n \in Deltas : n # nextDelta[w] => commits'[n] = commits[n]
  BY <1>0, <1>1, <1>2, <1>3, StoreTypes, Zenon DEF StoreDelta
<1>6. WriterOK(w)'
  BY <1>0, <1>1, <1>3, <1>5, ConfirmSafe, Zenon
<1>7. \A v \in Writers \ {w} : pc'[v] = "down"
  BY <1>0, OthersDown, Zenon DEF CommitDelta, Confirm, Live, Steps
<1>8. QED
  BY <1>4, <1>6, <1>7, Zenon DEF Kept


(* The create of the delta manifest fails, having taken place or not. *)
LEMMA CommitFailsKeeps ==
  ASSUME SingleWriter, IndInv, NEW w \in Writers, CommitFails(w)
  PROVE  Kept(w)
<1>0. TypeInv /\ WriterStepOK(w) /\ Alone /\ StoreOK /\ WriterOK(w)
  BY Parts, Zenon
<1>1. /\ pc[w] \in {"commit", "holds"} /\ WriterOK(w) /\ StoreOK
      /\ nextDelta[w] \in Deltas /\ ~stale[w] /\ meta[w] \in Row
  BY <1>0, WriterTypes, Zenon DEF CommitFails, WriterStepOK
<1>2. /\ \A n \in Deltas : n < nextDelta[w] => commits[n] # None
      /\ \A n \in Deltas : n > nextDelta[w] => commits[n] = None
      /\ meta[w].seq \in payload /\ commits[nextDelta[w]] \in {None, meta[w]}
      /\ pc[w] = "commit" => commits[nextDelta[w]] = None
  BY <1>1, Zenon DEF WriterOK, ViewOK, AppendOK, Current
<1>3. /\ pc[w] = "commit" /\ pc'[w] = "holds" /\ RootOK(w) /\ Live(w)
      /\ UNCHANGED <<root, nextDelta, open, last, stale, meta, acked>>
  BY <1>0, Domains, Zenon DEF CommitFails, GoTo, WriterOK, viewVars, stepVars, Live
<1>4. \A v \in Writers \ {w} : pc'[v] = "down"
  BY <1>0, OthersDown, Zenon DEF CommitFails, Live, Steps
<1>5. CASE UNCHANGED <<storeVars, commits>>
  <2>1. StoreOK'
    BY <1>1, <1>3, <1>5, StoreFrame, Zenon DEF histVars
  <2>2. RootOK(w)' /\ AppendOK(w)'
    BY <1>1, <1>3, <1>5, Zenon DEF RootOK, WriterOK, AppendOK, storeVars
  <2>3. ViewOK(w)'
    BY <1>1, <1>3, <1>5, Zenon DEF WriterOK, ViewOK, Current, OpenUpTo
  <2>4. QED
    BY <1>3, <1>4, <2>1, <2>2, <2>3, ZenonT(30) DEF Kept, WriterOK, RecoveryOK, SealOK
<1>6. CASE StoreDelta(w)
  <2>1. StoreOK'
    BY <1>0, <1>1, <1>2, <1>3, <1>6, CommitFrame, Zenon
  <2>2. /\ commits'[nextDelta[w]] = meta[w] /\ UNCHANGED <<log, payload>>
        /\ \A n \in Deltas : n # nextDelta[w] => commits'[n] = commits[n]
    BY <1>0, <1>1, <1>2, <1>3, <1>6, StoreTypes, Zenon DEF StoreDelta
  <2>3. /\ \A n \in Deltas : n < nextDelta[w] \/ n > nextDelta[w] => commits'[n] = commits[n]
        /\ nextDelta[w] > 0 => commits'[nextDelta[w] - 1] = commits[nextDelta[w] - 1]
    <3>1. nextDelta[w] > 0 => nextDelta[w] - 1 \in Deltas /\ nextDelta[w] - 1 # nextDelta[w]
      BY <1>1, BoundsAssumption DEF Deltas
    <3>2. \A n \in Deltas : n < nextDelta[w] \/ n > nextDelta[w] => n # nextDelta[w]
      BY <1>1 DEF Deltas
    <3>3. QED
      BY <2>2, <3>1, <3>2, Zenon
  <2>4. OpenUpTo(w, nextDelta[w])'
    BY <1>1, <1>3, <2>3, Zenon DEF WriterOK, ViewOK, Current, OpenUpTo, RowsFrom
  <2>5. ViewOK(w)'
    BY <1>1, <1>3, <2>3, <2>4, Zenon DEF WriterOK, ViewOK, Current
  <2>6. AppendOK(w)'
    BY <1>1, <1>3, <2>2, <2>3, Zenon DEF WriterOK, AppendOK
  <2>7. RootOK(w)'
    BY <1>3, <2>2, Zenon DEF RootOK
  <2>8. QED
    BY <1>3, <1>4, <2>1, <2>5, <2>6, <2>7, ZenonT(30) DEF Kept, WriterOK, RecoveryOK, SealOK
<1>7. QED
  BY <1>5, <1>6, Zenon DEF CommitFails


(* holds found this very row under the delta key. *)
LEMMA HoldsCommitKeeps ==
  ASSUME SingleWriter, IndInv, NEW w \in Writers, HoldsCommit(w)
  PROVE  Kept(w)
<1>0. TypeInv /\ WriterStepOK(w) /\ Alone /\ StoreOK /\ WriterOK(w)
  BY Parts, Zenon
<1>1. /\ pc[w] \in {"commit", "holds"} /\ WriterOK(w) /\ StoreOK
      /\ nextDelta[w] \in Deltas /\ ~stale[w] /\ meta[w] \in Row
  BY <1>0, WriterTypes, Zenon DEF HoldsCommit, WriterStepOK
<1>2. /\ \A n \in Deltas : n < nextDelta[w] => commits[n] # None
      /\ \A n \in Deltas : n > nextDelta[w] => commits[n] = None
      /\ meta[w].seq \in payload /\ commits[nextDelta[w]] \in {None, meta[w]}
      /\ pc[w] = "commit" => commits[nextDelta[w]] = None
  BY <1>1, Zenon DEF WriterOK, ViewOK, AppendOK, Current
<1>3. commits[nextDelta[w]] = meta[w]
  <2>1. delta[nextDelta[w]] = meta[w] /\ meta[w] # None /\ log.openFrom \in Nat
    BY <1>0, WriterTypes, StoreTypes DEF HoldsCommit
  <2>2. nextDelta[w] >= log.openFrom \/ nextDelta[w] < log.openFrom
    BY <1>1, <2>1 DEF Deltas
  <2>3. QED
    BY <1>1, <1>2, <2>1, <2>2, Zenon DEF StoreOK, DeltasOK
<1>4. /\ Confirm(w) /\ UNCHANGED <<storeVars, commits>>
      /\ acked' = acked \cup {commits[nextDelta[w]]}
  BY <1>3, Zenon DEF HoldsCommit, Confirm
<1>5. StoreOK'
  BY <1>1, <1>4, AckFrame, Zenon
<1>6. WriterOK(w)'
  BY <1>0, <1>1, <1>3, <1>4, ConfirmSafe, Zenon DEF storeVars
<1>7. \A v \in Writers \ {w} : pc'[v] = "down"
  BY <1>0, OthersDown, Zenon DEF HoldsCommit, Confirm, Live, Steps
<1>8. QED
  BY <1>5, <1>6, <1>7, Zenon DEF Kept


(* holds did not: the writer is stale from here on. *)
LEMMA CommitUnknownKeeps ==
  ASSUME SingleWriter, IndInv, NEW w \in Writers, CommitUnknown(w)
  PROVE  Kept(w)
<1>0. TypeInv /\ WriterStepOK(w) /\ Alone /\ StoreOK /\ WriterOK(w)
  BY Parts, Zenon
<1>1. stale'[w] /\ Live(w)
  BY <1>0, Domains, Zenon DEF CommitUnknown, Live
<1>2. QED
  BY <1>1, SettleKept, Zenon DEF CommitUnknown, Return


(* The head names the delta just committed. *)
LEMMA PublishHeadKeeps ==
  ASSUME SingleWriter, IndInv, NEW w \in Writers, PublishHead(w)
  PROVE  Kept(w)
<1>0. TypeInv /\ WriterStepOK(w) /\ Alone /\ StoreOK /\ WriterOK(w)
  BY Parts, Zenon
<1>1. /\ pc[w] = "publish" /\ ~stale[w] /\ nextDelta[w] \in 1 .. MaxDelta + 1
      /\ RootOK(w) /\ WriterOK(w) /\ StoreOK
  <2>1. pc[w] = "publish" /\ nextDelta[w] > 0
    BY <1>0, Zenon DEF PublishHead, WriterStepOK
  <2>2. nextDelta[w] \in 0 .. MaxDelta + 1
    BY <1>0, WriterTypes, Zenon
  <2>3. nextDelta[w] \in 1 .. MaxDelta + 1
    BY <2>1, <2>2, BoundsAssumption
  <2>4. QED
    BY <1>0, <2>1, <2>3, Zenon DEF WriterOK, SealOK
<1>2. nextDelta[w] - 1 \in Deltas /\ commits[nextDelta[w] - 1] # None
  <2>1. nextDelta[w] - 1 \in Deltas /\ nextDelta[w] - 1 < nextDelta[w]
    BY <1>1, BoundsAssumption DEF Deltas
  <2>2. QED
    BY <1>1, <2>1, Zenon DEF WriterOK, ViewOK, Current
<1>3. StoreOK'
  <2>1. HeadOK'
    BY <1>1, <1>2, Zenon DEF PublishHead, StoreOK, HeadOK, histVars
  <2>2. QED
    BY <1>1, <2>1, HeadFrame, Zenon DEF PublishHead
<1>4. PICK step \in {"idle", "seal"} : GoTo(w, step)
  BY Zenon DEF PublishHead, Return
<1>5. pc'[w] = step /\ UNCHANGED <<root, nextDelta, open, last, stale, log, commits>>
  BY <1>0, <1>4, Domains, Zenon DEF PublishHead, GoTo, viewVars, histVars
<1>6. RootOK(w)'
  BY <1>1, <1>5, Zenon DEF RootOK, Live
<1>7. WriterOK(w)'
  BY <1>1, <1>5, <1>6, Settle, Zenon
<1>8. \A v \in Writers \ {w} : pc'[v] = "down"
  BY <1>0, <1>1, <1>4, OthersDown, Zenon DEF Live, Steps
<1>9. QED
  BY <1>3, <1>7, <1>8, Zenon DEF Kept


(* Seal begins to fold the open region of a writer that is not stale. *)
LEMMA SealKeeps ==
  ASSUME SingleWriter, IndInv, NEW w \in Writers, Seal(w)
  PROVE  Kept(w)
<1>1. pc[w] = "idle" /\ ~stale[w] /\ Live(w) /\ UNCHANGED stale
  BY SwitchesAssumption, Zenon DEF Seal, SingleWriter, viewVars, Live
<1>2. QED
  BY <1>1, SettleKept, Zenon DEF Seal, viewVars


(* The sealed manifest is written, or its twin was there already. *)
LEMMA WriteSealedKeeps ==
  ASSUME SingleWriter, IndInv, NEW w \in Writers, WriteSealed(w)
  PROVE  Kept(w)
<1>0. TypeInv /\ WriterStepOK(w) /\ Alone /\ StoreOK /\ WriterOK(w)
  BY Parts, Zenon
<1>1. /\ pc[w] = "seal" /\ ~stale[w] /\ StoreSealed(w) /\ RootOK(w) /\ ViewOK(w) /\ Live(w)
      /\ UNCHANGED <<payload, delta, log, head, histVars>>
  BY <1>0, Zenon DEF WriteSealed, WriterOK, SealOK, Live
<1>2. StoreOK' /\ sealed'[SealKey(w)] # <<>>
  BY <1>0, <1>1, SealedFrame, Zenon
<1>3. /\ pc'[w] = "swap" /\ UNCHANGED <<root, nextDelta, open, last, stale, log, commits>>
      /\ SealKey(w)' = SealKey(w)
  BY <1>0, Domains, Zenon DEF WriteSealed, GoTo, viewVars, histVars, SealKey
<1>4. ViewOK(w)'
  BY <1>1, <1>3, Zenon DEF ViewOK, Current, OpenUpTo
<1>5. RootOK(w)' /\ SealOK(w)'
  BY <1>1, <1>2, <1>3, Zenon DEF RootOK, SealOK
<1>6. WriterOK(w)'
  BY <1>3, <1>4, <1>5, Zenon DEF WriterOK, RecoveryOK, AppendOK
<1>7. \A v \in Writers \ {w} : pc'[v] = "down"
  BY <1>0, OthersDown, ZenonT(30) DEF WriteSealed, Live, Steps
<1>8. QED
  BY <1>2, <1>6, <1>7, Zenon DEF Kept


(* The sealed manifest was written, or not; the seal is given up. *)
LEMMA WriteSealedFailsKeeps ==
  ASSUME SingleWriter, IndInv, NEW w \in Writers, WriteSealedFails(w)
  PROVE  Kept(w)
<1>0. TypeInv /\ WriterStepOK(w) /\ Alone /\ StoreOK /\ WriterOK(w)
  BY Parts, Zenon
<1>1. /\ pc[w] = "seal" /\ ~stale[w] /\ RootOK(w) /\ ViewOK(w)
      /\ UNCHANGED <<payload, delta, log, head, histVars>>
      /\ StoreSealed(w) \/ UNCHANGED sealed
  BY <1>0, Zenon DEF WriteSealedFails, WriterOK, SealOK
<1>2. StoreOK'
  BY <1>0, <1>1, SealedFrame, StoreFrame, Zenon DEF storeVars
<1>3. pc'[w] = "idle" /\ UNCHANGED <<root, nextDelta, open, last, log, commits>>
  BY <1>0, Domains, Zenon DEF WriteSealedFails, SealFailed, Return, GoTo, histVars
<1>4. RootOK(w)'
  BY <1>1, <1>3, Zenon DEF RootOK, Live
<1>5. WriterOK(w)'
  BY <1>0, <1>1, <1>3, <1>4, Settle, Zenon
<1>6. \A v \in Writers \ {w} : pc'[v] = "down"
  BY <1>0, OthersDown, ZenonT(30) DEF WriteSealedFails, SealFailed, Return, Live, Steps
<1>7. QED
  BY <1>2, <1>5, <1>6, Zenon DEF Kept


(* The log root now covers the open region. *)
LEMMA SwapLogRootKeeps ==
  ASSUME SingleWriter, IndInv, NEW w \in Writers, SwapLogRoot(w)
  PROVE  Kept(w)
<1>0. TypeInv /\ WriterStepOK(w) /\ Alone /\ StoreOK /\ WriterOK(w)
  BY Parts, Zenon
<1>1. /\ pc[w] = "swap" /\ ~stale[w] /\ WriterOK(w) /\ ViewOK(w) /\ SealOK(w) /\ root[w] = log
      /\ log' = NextLogRoot(w) /\ UNCHANGED <<payload, delta, sealed, head, histVars>>
  BY <1>0, Zenon DEF SwapLogRoot, WriterOK, SealOK, RootOK, Live
<1>2. StoreOK'
  BY <1>0, <1>1, SwapFrame, Zenon
<1>3. /\ pc'[w] = "reclaim" /\ root'[w] = log' /\ open'[w] = <<>>
      /\ upTo'[w] = nextDelta[w] - 1 /\ UNCHANGED <<nextDelta, last, stale, commits>>
  BY <1>0, Domains, Zenon DEF SwapLogRoot, GoTo, histVars
<1>4. /\ log'.openFrom = nextDelta[w] /\ log'.ver = log.ver + 1 /\ log.ver \in Nat
      /\ nextDelta[w] \in 0 .. MaxDelta + 1
  BY <1>0, <1>1, StoreTypes, WriterTypes, Zenon DEF NextLogRoot
<1>5. OpenUpTo(w, nextDelta[w])'
  <2>1. root'[w].openFrom = nextDelta'[w] /\ nextDelta'[w] \in Int /\ Len(open'[w]) = 0
    BY <1>3, <1>4, EmptyFacts
  <2>2. QED
    BY <2>1 DEF OpenUpTo, RowsFrom, Deltas
<1>6. ViewOK(w)'
  BY <1>1, <1>3, <1>5, Zenon DEF ViewOK, Current
<1>7. WriterOK(w)'
  <2>1. RootOK(w)' /\ SealOK(w)'
    BY <1>3, <1>4 DEF RootOK, SealOK
  <2>2. QED
    BY <1>3, <1>6, <2>1, Zenon DEF WriterOK, RecoveryOK, AppendOK
<1>8. \A v \in Writers \ {w} : pc'[v] = "down"
  BY <1>0, OthersDown, ZenonT(30) DEF SwapLogRoot, Live, Steps
<1>9. QED
  BY <1>2, <1>7, <1>8, Zenon DEF Kept


(* The swap took place, or not; the seal is given up. *)
LEMMA SwapLogRootFailsKeeps ==
  ASSUME SingleWriter, IndInv, NEW w \in Writers, SwapLogRootFails(w)
  PROVE  Kept(w)
<1>0. TypeInv /\ WriterStepOK(w) /\ Alone /\ StoreOK /\ WriterOK(w)
  BY Parts, Zenon
<1>1. /\ pc[w] = "swap" /\ ~stale[w] /\ RootOK(w) /\ ViewOK(w) /\ SealOK(w) /\ Live(w)
      /\ UNCHANGED <<payload, delta, sealed, head, histVars>>
  BY <1>0, Zenon DEF SwapLogRootFails, WriterOK, SealOK, Live
<1>2. UNCHANGED log \/ (root[w] = log /\ log' = NextLogRoot(w))
  BY <1>1, Zenon DEF SwapLogRootFails, RootOK
<1>3. StoreOK'
  BY <1>0, <1>1, <1>2, SwapFrame, StoreFrame, Zenon DEF storeVars
<1>4. pc'[w] = "idle" /\ UNCHANGED <<root, nextDelta, open, last, commits>>
  BY <1>0, Domains, Zenon DEF SwapLogRootFails, SealFailed, Return, GoTo, histVars
<1>5. RootOK(w)'
  <2>1. CASE UNCHANGED log
    BY <1>1, <1>4, <2>1, Zenon DEF RootOK
  <2>2. CASE root[w] = log /\ log' = NextLogRoot(w)
    <3>1. root'[w].ver = log.ver /\ log'.ver = log.ver + 1 /\ log.ver \in Nat
      BY <1>0, <1>4, <2>2, StoreTypes, Zenon DEF NextLogRoot
    <3>2. QED
      BY <3>1 DEF RootOK
  <2>3. QED
    BY <1>2, <2>1, <2>2, Zenon
<1>6. WriterOK(w)'
  BY <1>0, <1>1, <1>4, <1>5, Settle, Zenon
<1>7. \A v \in Writers \ {w} : pc'[v] = "down"
  BY <1>0, OthersDown, ZenonT(30) DEF SwapLogRootFails, SealFailed, Return, Live, Steps
<1>8. QED
  BY <1>3, <1>6, <1>7, Zenon DEF Kept


(* One sealed delta is deleted. *)
LEMMA ReclaimKeeps ==
  ASSUME SingleWriter, IndInv, NEW w \in Writers, Reclaim(w)
  PROVE  Kept(w)
<1>0. TypeInv /\ WriterStepOK(w) /\ Alone /\ StoreOK /\ WriterOK(w)
  BY Parts, Zenon
<1>1. cursor[w] \in Deltas /\ cursor[w] < log.openFrom
  <2>1. upTo[w] \in Deltas /\ upTo[w] < log.openFrom /\ cursor[w] <= upTo[w]
    BY <1>0, Zenon DEF Reclaim, WriterStepOK, WriterOK, SealOK
  <2>2. cursor[w] \in 0 .. MaxDelta + 1 /\ log.openFrom \in Nat
    BY <1>0, WriterTypes, StoreTypes
  <2>3. QED
    BY <2>1, <2>2, BoundsAssumption, SMTT(20) DEF Deltas
<1>2. StoreOK'
  BY <1>0, <1>1, ReclaimFrame, Zenon DEF Reclaim
<1>3. /\ pc[w] = "reclaim" /\ RootOK(w) /\ ViewOK(w) /\ SealOK(w)
      /\ UNCHANGED <<pc, root, nextDelta, open, last, stale, log, commits, upTo>>
  BY <1>0, Zenon DEF Reclaim, WriterOK, viewVars, histVars
<1>4. RootOK(w)' /\ ViewOK(w)' /\ SealOK(w)'
  BY <1>3, Zenon DEF RootOK, ViewOK, SealOK, Live, Current, OpenUpTo
<1>5. WriterOK(w)'
  BY <1>3, <1>4, Zenon DEF WriterOK, RecoveryOK, AppendOK
<1>6. \A v \in Writers \ {w} : pc'[v] = "down"
  BY <1>0, OthersDown, Zenon DEF Reclaim, Live
<1>7. QED
  BY <1>2, <1>5, <1>6, Zenon DEF Kept


(* The last one is. *)
LEMMA ReclaimedKeeps ==
  ASSUME SingleWriter, IndInv, NEW w \in Writers, Reclaimed(w)
  PROVE  Kept(w)
<1>1. pc[w] = "reclaim" /\ Live(w) /\ UNCHANGED stale
  BY Zenon DEF Reclaimed, viewVars, Live
<1>2. QED
  BY <1>1, SettleKept, Zenon DEF Reclaimed, Return, viewVars


(* Every step of a single writer keeps the invariant. *)
LEMMA NextIndInv == ASSUME SingleWriter PROVE IndInv /\ [Next]_vars => IndInv'
<1>0. SUFFICES ASSUME IndInv, [Next]_vars PROVE IndInv'
  OBVIOUS
<1>1. TypeInv'
  BY <1>0, NextTypeInv, Zenon DEF IndInv
<1>2. ASSUME NEW w \in Writers, Request(w) \/ Begin(w) PROVE IndInv'
  <2>1. Kept(w)
    BY <1>0, <1>2, CrashKeeps, OpenWriterKeeps, ReloadKeeps, ReloadFailsKeeps,
       ReadHeadKeeps, ProbeDeltaKeeps, RecoveredKeeps, RecoverFailsKeeps,
       PickSequenceKeeps, AppendGroupKeeps, AppendGroupFailsKeeps,
       AppendPickedKeeps, AppendPickedFailsKeeps, PickRefusedKeeps,
       CommitDeltaKeeps, CommitFailsKeeps, HoldsCommitKeeps,
       CommitUnknownKeeps, PublishHeadKeeps, SealKeeps, WriteSealedKeeps,
       WriteSealedFailsKeeps, SwapLogRootKeeps, SwapLogRootFailsKeeps,
       ReclaimKeeps, ReclaimedKeeps, ZenonT(30), Zenon
    DEF Request, Begin
  <2>2. QED
    BY <1>1, <2>1, KeptSuffices, Zenon
<1>3. CASE LoseHead
  <2>1. StoreOK'
    BY <1>0, <1>3, HeadFrame, Zenon DEF LoseHead, HeadOK, IndInv
  <2>2. WritersOK' /\ Alone'
    BY <1>0, <1>3, WritersFrame, ZenonT(30) DEF LoseHead, IndInv, histVars
  <2>3. QED
    BY <1>1, <2>1, <2>2, Zenon DEF IndInv
<1>4. CASE UNCHANGED vars
  <2>1. StoreOK'
    BY <1>0, <1>4, StoreFrame, Zenon DEF vars, IndInv
  <2>2. WritersOK' /\ Alone'
    BY <1>0, <1>4, WritersFrame, Zenon DEF vars, IndInv, storeVars, histVars
  <2>3. QED
    BY <1>1, <2>1, <2>2, Zenon DEF IndInv
<1>5. QED
  BY <1>0, <1>2, <1>3, <1>4, Zenon DEF Next

(* A new epoch satisfies the invariant. *)
LEMMA InitIndInv == Init => IndInv
<1> SUFFICES ASSUME Init PROVE IndInv
  OBVIOUS
<1>1. TypeInv
  BY InitTypeInv, Zenon
<1>2. /\ log.sealed = <<>> /\ log.openFrom = 0 /\ log.ver = 1
      /\ sealed = [key \in Deltas \X Deltas |-> <<>>]
      /\ delta = [n \in Deltas |-> None] /\ commits = [n \in Deltas |-> None]
      /\ acked = {} /\ head = NoHead /\ \A w \in Writers : pc[w] = "down"
  BY Zenon DEF Init, NewLogRoot
<1>3. DeltasOK
  BY <1>2 DEF DeltasOK, Deltas
<1>4. ManifestsOK
  BY <1>2, Zenon DEF ManifestsOK
<1>5. RefsOK
  BY <1>2 DEF RefsOK, RefsTile, Deltas
<1>6. HeadOK /\ AckedOK
  BY <1>2, Zenon DEF HeadOK, AckedOK
<1>7. Alone
  BY <1>2, Zenon DEF Alone, Live
<1>8. WritersOK
  BY <1>2, Zenon
  DEF WritersOK, WriterOK, RootOK, RecoveryOK, ViewOK, AppendOK, SealOK, Live, Current
<1>9. QED
  BY <1>1, <1>3, <1>4, <1>5, <1>6, <1>7, <1>8, ZenonT(30) DEF IndInv, StoreOK

(* With one writer live at a time and Seal never called on a stale writer, *)
(* the store and the writer stay as recover, AppendGroup and seal assume.  *)
THEOREM IndInvariant == ASSUME SingleWriter PROVE Spec => []IndInv
<1>1. Init => IndInv
  BY InitIndInv, Zenon
<1>2. IndInv /\ [Next]_vars => IndInv'
  BY NextIndInv, Zenon
<1>3. QED
  BY <1>1, <1>2, PTL DEF Spec

-----------------------------------------------------------------------------
(* What IndInv gives. *)

(* A writer that is not stale claims the first free delta next: recover    *)
(* and reloadIfStale find the tip whatever head says.                      *)
THEOREM TipAlwaysKnown == ASSUME SingleWriter PROVE Spec => []TipKnown
<1>1. IndInv => TipKnown
  <2> SUFFICES ASSUME IndInv, NEW w \in Writers, pc[w] = "idle", ~stale[w], NEW n \in Deltas
               PROVE  commits[n] # None <=> n < nextDelta[w]
    BY Zenon DEF TipKnown
  <2>1. ViewOK(w) /\ Current(w) /\ nextDelta[w] \in 0 .. MaxDelta + 1
    BY Zenon DEF IndInv, WritersOK, WriterOK, Current, TypeInv, TypeOK
  <2>2. /\ \A m \in Deltas : m < nextDelta[w] => commits[m] # None
        /\ \A m \in Deltas : m > nextDelta[w] => commits[m] = None
        /\ nextDelta[w] \in Deltas => commits[nextDelta[w]] = None
    BY <2>1, Zenon DEF ViewOK
  <2>3. QED
    BY <2>1, <2>2 DEF Deltas
<1>2. QED
  BY <1>1, IndInvariant, PTL

(* recover never refuses an epoch for a delta missing below head.          *)
THEOREM NoGapEver == ASSUME SingleWriter PROVE Spec => []NoGapBelowHead
<1>1. IndInv => NoGapBelowHead
  <2> SUFFICES ASSUME IndInv, NEW w \in Writers, MissingBelowHead(w) PROVE FALSE
    BY Zenon DEF NoGapBelowHead
  <2>1. /\ pc[w] = "probe" /\ cursor[w] < upTo[w] /\ DeltaAt(cursor[w]) = None
        /\ RecoveryOK(w) /\ StoreOK
        /\ cursor[w] \in 0 .. MaxDelta + 1 /\ upTo[w] \in 0 .. MaxDelta + 1
        /\ root[w].openFrom <= cursor[w]
    BY ZenonT(30)
    DEF MissingBelowHead, IndInv, WritersOK, WriterOK, TypeInv, TypeOK, StepOK, WriterStepOK
  <2>2. root[w] = log /\ log.openFrom \in 0 .. MaxDelta + 1
    BY <2>1, RootTypes, SMTT(20) DEF RecoveryOK, IndInv, TypeInv, TypeOK
  <2>3. upTo[w] \in Deltas /\ commits[upTo[w]] # None /\ cursor[w] \in Deltas
    BY <2>1, <2>2, BoundsAssumption DEF RecoveryOK, Deltas
  <2>4. commits[cursor[w]] # None
    BY <2>1, <2>3, Zenon DEF StoreOK, DeltasOK
  <2>5. delta[cursor[w]] = commits[cursor[w]]
    BY <2>1, <2>2, <2>3, ZenonT(30) DEF StoreOK, DeltasOK
  <2>6. QED
    BY <2>1, <2>3, <2>4, <2>5, Zenon DEF DeltaAt
<1>2. QED
  BY <1>1, IndInvariant, PTL

(* A referenced run is stored and holds the commits of its range. *)
LEMMA SealedRun ==
  ASSUME IndInv, NEW i \in DOMAIN log.sealed
  PROVE  /\ log.sealed[i].first \in Deltas /\ log.sealed[i].last \in Deltas
         /\ log.sealed[i].first <= log.sealed[i].last
         /\ RefOK(log.sealed[i])
         /\ sealed[log.sealed[i].key] \in Seq(Row)
         /\ HoldsRange(sealed[log.sealed[i].key], log.sealed[i].first, log.sealed[i].last)
<1>1. log.sealed[i] \in Ref /\ RefOK(log.sealed[i])
  BY RootTypes, SMTT(20) DEF IndInv, TypeInv, TypeOK, StoreOK, RefsOK
<1>2. log.sealed[i].first \in Deltas /\ log.sealed[i].last \in Deltas
  BY <1>1, Zenon DEF Ref
<1>3. log.sealed[i].first <= log.sealed[i].last
  BY Zenon DEF IndInv, StoreOK, RefsOK, RefsTile
<1>4. sealed[log.sealed[i].key] \in Seq(Row)
  BY <1>1, <1>2, ZenonT(30) DEF RefOK, IndInv, TypeInv, TypeOK
<1>5. QED
  BY <1>1, <1>2, <1>3, <1>4, SMTT(20) DEF RefOK, IndInv, StoreOK, ManifestsOK

(* The summaries seal publishes are those of the manifests stored under    *)
(* their keys, although it takes ErrExist for success.                     *)
THEOREM SealsDescribe == ASSUME SingleWriter PROVE Spec => []RefsDescribeManifests
<1>1. IndInv => RefsDescribeManifests
  <2> SUFFICES ASSUME IndInv, NEW i \in DOMAIN log.sealed
               PROVE  LET ref == log.sealed[i]
                          rows == sealed[ref.key]
                      IN  /\ Len(rows) = ref.last - ref.first + 1
                          /\ rows[Len(rows)].seq = ref.lastSeq
                          /\ rows[Len(rows)].end = ref.mediaEnd
    BY Zenon DEF RefsDescribeManifests
  <2> DEFINE ref == log.sealed[i]
             rows == sealed[ref.key]
  <2>1. /\ ref.first \in Deltas /\ ref.last \in Deltas /\ ref.first <= ref.last
        /\ RefOK(ref) /\ HoldsRange(rows, ref.first, ref.last)
    BY SealedRun, Zenon
  <2>2. /\ Len(rows) = ref.last - ref.first + 1
        /\ rows[ref.last - ref.first + 1] = commits[ref.last]
    <3> HIDE DEF ref, rows
    <3>1. ref.last <= ref.last
      BY <2>1 DEF Deltas
    <3>2. QED
      BY <2>1, <3>1, Zenon DEF HoldsRange
  <2>3. QED
    BY <2>1, <2>2, Zenon DEF RefOK
<1>2. QED
  BY <1>1, IndInvariant, PTL

(* sealedCovering finds a run when there is one. *)
LEMMA FirstCovering ==
  ASSUME NEW n \in Deltas, log.sealed \in Seq(Ref),
         \E i \in DOMAIN log.sealed : Covers(log.sealed[i], n)
  PROVE  SealedCovering(n) \in DOMAIN log.sealed /\ Covers(log.sealed[SealedCovering(n)], n)
<1> DEFINE I == {i \in DOMAIN log.sealed : Covers(log.sealed[i], n)}
<1>1. /\ I \subseteq Nat
      /\ I # {}
      /\ DOMAIN log.sealed = 1 .. Len(log.sealed)
      /\ Len(log.sealed) \in Nat
  BY LenFacts
<1>2. PICK i \in I : \A j \in I : ~(<<j, i>> \in OpToRel(<, Nat))
  BY <1>1, WFMin, NatLessThanWellFounded, Zenon
<1>3. \A j \in 1 .. i - 1 : ~Covers(log.sealed[j], n)
  <2> SUFFICES ASSUME NEW j \in 1 .. i - 1, Covers(log.sealed[j], n) PROVE FALSE
    OBVIOUS
  <2>1. i \in Nat /\ j \in Nat /\ j < i /\ j \in I
    <3>1. i \in 1 .. Len(log.sealed) /\ Len(log.sealed) \in Nat
      BY <1>1, <1>2, Zenon
    <3>2. i \in Nat /\ j \in Nat /\ j < i /\ j \in 1 .. Len(log.sealed)
      BY <3>1
    <3>3. QED
      BY <1>1, <3>2, Zenon
  <2>2. <<j, i>> \in OpToRel(<, Nat)
    BY <2>1, Zenon DEF OpToRel
  <2>3. QED
    BY <1>2, <2>1, <2>2, Zenon
<1>4. QED
  BY <1>2, <1>3, Zenon DEF SealedCovering

(* A reader finds the commits that were made and nothing else. *)
LEMMA ReadLogIsCommits == IndInv => ReadLog = commits
<1> SUFFICES ASSUME IndInv PROVE ReadLog = commits
  OBVIOUS
<1>1. /\ commits \in [Deltas -> Row \cup {None}] /\ log.sealed \in Seq(Ref)
      /\ log.openFrom \in 0 .. MaxDelta + 1
  BY RootTypes, Zenon DEF IndInv, TypeInv, TypeOK
<1>2. ASSUME NEW n \in Deltas, n < log.openFrom PROVE ReadAt(n) = commits[n]
  <2>1. \E i \in DOMAIN log.sealed : Covers(log.sealed[i], n)
    BY <1>2, Zenon DEF IndInv, StoreOK, RefsOK
  <2> DEFINE i == SealedCovering(n)
             ref == log.sealed[i]
             rows == sealed[ref.key]
  <2>2. i \in DOMAIN log.sealed /\ Covers(ref, n)
    BY <1>1, <2>1, FirstCovering, Zenon
  <2>3. /\ ref.first \in Deltas /\ ref.last \in Deltas
        /\ rows \in Seq(Row) /\ HoldsRange(rows, ref.first, ref.last)
    BY <2>2, SealedRun, Zenon
  <2> HIDE DEF i
  <2>4. rows[n - ref.first + 1] = commits[n] /\ n - ref.first + 1 \in DOMAIN rows
    <3>1. ref.first <= n /\ n <= ref.last
      BY <2>2, Zenon DEF Covers
    <3>2. Len(rows) = ref.last - ref.first + 1 /\ rows[n - ref.first + 1] = commits[n]
      BY <2>3, <3>1, Zenon DEF HoldsRange
    <3>3. DOMAIN rows = 1 .. Len(rows)
      BY <2>3, LenFacts, Zenon
    <3> HIDE DEF ref, rows
    <3>4. n - ref.first + 1 \in 1 .. ref.last - ref.first + 1
      BY <2>3, <3>1 DEF Deltas
    <3>5. QED
      BY <3>2, <3>3, <3>4, Zenon
  <2>5. ReadSealed(n) = commits[n]
    BY <2>4, Zenon DEF ReadSealed, i
  <2>6. QED
    BY <1>2, <2>1, <2>5, Zenon DEF ReadAt
<1>3. ASSUME NEW n \in Deltas, ~(n < log.openFrom) PROVE ReadAt(n) = commits[n]
  <2>1. \A m \in log.openFrom .. n : m \in Deltas /\ delta[m] = commits[m]
    <3>1. \A m \in log.openFrom .. n : m \in Deltas /\ m >= log.openFrom
      BY <1>1, <1>3, BoundsAssumption DEF Deltas
    <3>2. QED
      BY <3>1, Zenon DEF IndInv, StoreOK, DeltasOK
  <2>2. n \in log.openFrom .. n
    BY <1>1, <1>3 DEF Deltas
  <2>3. commits[n] # None => \A m \in log.openFrom .. n : delta[m] # None
    BY <1>1, <1>3, <2>1, SMTT(20) DEF IndInv, StoreOK, DeltasOK, Deltas
  <2>4. QED
    BY <1>3, <2>1, <2>2, <2>3, Zenon DEF ReadAt
<1>4. QED
  BY <1>1, <1>2, <1>3, Zenon DEF ReadLog

(* A group whose append was confirmed stays readable, through every seal,  *)
(* reclaim, crash, reload and lost answer.                                 *)
THEOREM AckedNeverLost == ASSUME SingleWriter PROVE Spec => []AckedReadable
<1>1. IndInv => AckedReadable
  <2> SUFFICES ASSUME IndInv, NEW row \in acked PROVE \E n \in Deltas : ReadAt(n) = row
    BY Zenon DEF AckedReadable
  <2>1. PICK n \in Deltas : commits[n] = row
    BY Zenon DEF IndInv, StoreOK, AckedOK
  <2>2. ReadLog[n] = commits[n]
    BY ReadLogIsCommits, Zenon
  <2>3. QED
    BY <2>1, <2>2, Zenon DEF ReadLog
<1>2. QED
  BY <1>1, IndInvariant, PTL

(* Every step appends one row to what readers see, confirms one, or leaves *)
(* both as they were.                                                      *)
LEMMA Refinement == IndInv /\ IndInv' /\ [Next]_vars => [Abstract!Next]_<<ReadLog, acked>>
<1> SUFFICES ASSUME IndInv, IndInv', [Next]_vars PROVE [Abstract!Next]_<<ReadLog, acked>>
  OBVIOUS
<1>1. ReadLog = commits /\ ReadLog' = commits'
  <2>1. ReadLog = commits
    BY ReadLogIsCommits, Zenon
  <2>2. (ReadLog = commits)'
    BY ReadLogIsCommits, PTL
  <2>3. QED
    BY <2>1, <2>2, Zenon
<1>2. SUFFICES \/ UNCHANGED <<commits, acked>>
               \/ \E n \in Deltas : Abstract!Commit(n) \/ Abstract!Confirm(n)
  BY <1>1, Zenon DEF Abstract!Next, Abstract!Positions, Deltas
<1>3. ASSUME NEW w \in Writers, pc[w] = "commit", commits[nextDelta[w]] = None, StoreDelta(w),
             acked' \in {acked, acked \cup {meta[w]}}
      PROVE  Abstract!Commit(nextDelta[w]) /\ nextDelta[w] \in Deltas
  <2> DEFINE n == nextDelta[w]
  <2>1. /\ n \in Deltas /\ ~stale[w] /\ ViewOK(w) /\ AppendOK(w)
        /\ commits \in [Deltas -> Row \cup {None}] /\ meta[w] \in Row
    BY <1>3 DEF IndInv, TypeInv, TypeOK, StepOK, WriterStepOK, WritersOK, WriterOK
  <2>2. /\ commits' = [commits EXCEPT ![n] = meta[w]]
        /\ commits'[n] = meta[w]
    BY <1>3, <2>1, Zenon DEF StoreDelta
  <2>3. /\ \A m \in Deltas : m < n => commits[m] # None
        /\ \A m \in Deltas : m > n => commits[m] = None
    BY <1>3, <2>1, ZenonT(30) DEF ViewOK, Current
  <2>4. \A m \in Deltas : commits[m] # None <=> m < n
    BY <1>3, <2>1, <2>3, SMTT(20) DEF Deltas
  <2>5. /\ \A m \in Deltas : m < n => commits[m].seq # meta[w].seq
        /\ n > 0 => commits[n - 1].end <= meta[w].start
    BY <1>3, <2>1, Zenon DEF AppendOK
  <2>6. Abstract!Fits(n, meta[w])
    BY <1>1, <2>4, <2>5, Zenon DEF Abstract!Fits, Abstract!Positions, Deltas
  <2>7. QED
    BY <1>1, <1>3, <2>1, <2>2, <2>6 DEF Abstract!Commit
<1>4. ASSUME NEW w \in Writers, CommitDelta(w) \/ CommitFails(w) \/ HoldsCommit(w)
      PROVE  \/ UNCHANGED <<commits, acked>>
             \/ \E n \in Deltas : Abstract!Commit(n) \/ Abstract!Confirm(n)
  <2>1. pc[w] \in {"commit", "holds"} /\ nextDelta[w] \in Deltas /\ WriterOK(w) /\ ~stale[w]
    BY <1>4, ZenonT(30)
    DEF CommitDelta, CommitFails, HoldsCommit, IndInv, TypeInv, StepOK, WriterStepOK,
                WritersOK
  <2>2. pc[w] = "commit" => commits[nextDelta[w]] = None
    BY <2>1, Zenon DEF WriterOK, ViewOK, Current
  <2>3. CASE CommitDelta(w)
    BY <1>3, <2>2, <2>3, Zenon DEF CommitDelta, Confirm
  <2>4. CASE CommitFails(w)
    BY <1>3, <2>2, <2>4, Zenon DEF CommitFails
  <2>5. CASE HoldsCommit(w)
    <3>1. /\ delta[nextDelta[w]] = meta[w] /\ meta[w] # None /\ meta[w] \in Row
          /\ log.openFrom \in Nat
      BY <2>5, NoneAssumption, RootTypes, SMTT(20) DEF HoldsCommit, IndInv, TypeInv, TypeOK
    <3>2. commits[nextDelta[w]] \in {None, meta[w]} /\ StoreOK
      BY <2>1, ZenonT(30) DEF WriterOK, AppendOK, IndInv
    <3>3. commits[nextDelta[w]] = meta[w]
      BY <2>1, <3>1, <3>2, SMTT(20) DEF StoreOK, DeltasOK, Deltas
    <3>4. Abstract!Confirm(nextDelta[w])
      BY <1>1, <2>5, <3>1, <3>3, ZenonT(30) DEF HoldsCommit, Confirm, Abstract!Confirm
    <3>5. QED
      BY <2>1, <3>4, ZenonT(30)
  <2>6. QED
    BY <1>4, <2>3, <2>4, <2>5, ZenonT(30)
<1>5. ASSUME NEW w \in Writers, Request(w) \/ Begin(w),
             ~(CommitDelta(w) \/ CommitFails(w) \/ HoldsCommit(w))
      PROVE  UNCHANGED <<commits, acked>>
  BY <1>5, Zenon
  DEF Request, Begin, ReadHead, ProbeDelta, Recovered, RecoverFails, CommitUnknown, PublishHead,
      WriteSealed, WriteSealedFails, SwapLogRoot, SwapLogRootFails, Reclaim, Reclaimed,
      OpenWriter, Reload, ReloadFails, Crash, PickSequence, AppendPicked, AppendPickedFails,
      PickRefused, AppendGroup, AppendGroupFails, Seal, GroupStored, GroupExists, GroupFails,
      histVars
<1>6. CASE LoseHead \/ UNCHANGED vars
  BY <1>6, Zenon DEF LoseHead, vars, histVars
<1>7. QED
  BY <1>4, <1>5, <1>6, Zenon DEF Next

(* The epoch as readers see it is an append-only log: AppendGroup, seal    *)
(* and recover implement CommitLog.                                        *)
THEOREM Implements == ASSUME SingleWriter PROVE Spec => ImplementsCommitLog
<1>1. Init => Abstract!Init
  <2> SUFFICES ASSUME Init PROVE Abstract!Init
    OBVIOUS
  <2>1. ReadLog = commits
    BY InitIndInv, ReadLogIsCommits, Zenon
  <2>2. QED
    BY <2>1, Zenon DEF Init, Abstract!Init, Abstract!Positions, Deltas
<1>2. IndInv /\ IndInv' /\ [Next]_vars => [Abstract!Next]_<<ReadLog, acked>>
  BY Refinement, Zenon
<1>3. QED
  BY <1>1, <1>2, IndInvariant, PTL DEF Spec, ImplementsCommitLog, Abstract!Spec

================================================================================
