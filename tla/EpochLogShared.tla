---------------------------- MODULE EpochLogShared -----------------------------
(***************************************************************************)
(* What holds of an epoch however many writers share it and whatever       *)
(* fails: it is type-correct, no manifest names a group object that was    *)
(* not stored, no confirmed group is lost before the first seal, and the   *)
(* sealed runs tile the log.  The lemmas on what a write to each object    *)
(* leaves as it was serve EpochLogTheorems too.                            *)
(***************************************************************************)
EXTENDS EpochLogInv, TLAPS

-----------------------------------------------------------------------------
(* Types, whoever writes and whatever fails. *)

(* What the proofs use of sequences: the empty one, *)
LEMMA EmptyFacts == Len(<<>>) = 0
  OBVIOUS

(* the length and the elements of any, *)
LEMMA LenFacts ==
  ASSUME NEW S, NEW seq \in Seq(S)
  PROVE  /\ Len(seq) \in Nat
         /\ DOMAIN seq = 1 .. Len(seq)
         /\ \A i \in 1 .. Len(seq) : seq[i] \in S
         /\ seq = <<>> <=> Len(seq) = 0
  OBVIOUS

(* and the one with another element at its end. *)
LEMMA AppendFacts ==
  ASSUME NEW S, NEW seq \in Seq(S), NEW elt \in S
  PROVE  /\ Append(seq, elt) \in Seq(S)
         /\ Append(seq, elt) # <<>>
         /\ Len(Append(seq, elt)) = Len(seq) + 1
         /\ \A i \in 1 .. Len(seq) : Append(seq, elt)[i] = seq[i]
         /\ Append(seq, elt)[Len(seq) + 1] = elt
  OBVIOUS

(* The values a variable is reset to. *)
LEMMA Zeros == SomeRow \in Row /\ NewLogRoot \in LogRoot /\ NoCall \in Call
  BY BoundsAssumption
  DEF Deltas, GroupSequences, Row, Ref, LogRoot, Pick, Call, NewLogRoot, SomeRow, NoCall

(* The fields of a log root. *)
LEMMA RootTypes ==
  ASSUME NEW r \in LogRoot
  PROVE  /\ r.openFrom \in 0 .. MaxDelta + 1
         /\ r.sealed \in Seq(Ref)
         /\ r.ver \in Nat
  BY Zenon DEF LogRoot

(* The fields of a row of a manifest. *)
LEMMA RowTypes ==
  ASSUME NEW row \in Row
  PROVE  row.seq \in GroupSequences /\ row.start \in Nat /\ row.end \in Nat
  BY Zenon DEF Row

(* A non-empty sequence has a last element. *)
LEMMA LastOf ==
  ASSUME NEW S, NEW s \in Seq(S), s # <<>>
  PROVE  Len(s) \in Nat \ {0} /\ s[Len(s)] \in S
  OBVIOUS

(* The row a group is appended with. *)
LEMMA RowType ==
  ASSUME NEW seq \in GroupSequences, NEW start \in Nat, NEW end \in Nat
  PROVE  [seq |-> seq, start |-> start, end |-> end] \in Row
  BY Zenon DEF Row

(* What a seal writes: the key, the sealed manifest and the next log root. *)
LEMMA SealTypes ==
  ASSUME TypeInv, NEW w \in Writers, pc[w] \in {"seal", "swap"}
  PROVE  /\ SealKey(w) \in Deltas \X Deltas
         /\ NextLogRoot(w) \in LogRoot
         /\ root[w].openFrom \in Deltas
         /\ nextDelta[w] - 1 \in Deltas
         /\ open[w] \in Seq(Row)
<1>1. /\ open[w] \in Seq(Row) /\ open[w] # <<>>
      /\ nextDelta[w] \in 1 .. MaxDelta + 1
      /\ root[w].openFrom \in Deltas
      /\ root[w] \in LogRoot /\ log \in LogRoot
  BY BoundsAssumption DEF TypeInv, TypeOK, StepOK, WriterStepOK
<1>2. nextDelta[w] - 1 \in Deltas
  BY <1>1, BoundsAssumption DEF Deltas
<1>3. SealKey(w) \in Deltas \X Deltas
  BY <1>1, <1>2, Zenon DEF SealKey
<1>4. Summarize(w) \in Ref
  <2>1. open[w][Len(open[w])] \in Row
    BY <1>1, LastOf, Zenon
  <2>2. QED
    BY <1>1, <1>2, <1>3, <2>1, RowTypes, Zenon DEF Summarize, Ref
<1>5. NextLogRoot(w) \in LogRoot
  BY <1>1, <1>4, SMTT(20) DEF NextLogRoot, LogRoot
<1>6. QED
  BY <1>1, <1>2, <1>3, <1>5, Zenon

(* Creating the group object, whoever chose its sequence and anchor. *)
LEMMA GroupTypes ==
  ASSUME TypeInv, NEW w \in Writers, NEW seq \in GroupSequences, NEW start \in Nat,
         NEW dur \in Nat, NEW c \in Call,
         \/ GroupStored(w, seq, start, dur, c)
         \/ GroupExists(w, seq, start, c)
         \/ GroupFails(w, seq, start, c)
  PROVE  TypeInv'
<1>1. CASE GroupStored(w, seq, start, dur, c)
  <2>1. TypeOK'
    <3>1. [seq |-> seq, start |-> start, end |-> start + dur] \in Row
      BY RowType
    <3>2. QED
      BY <1>1, <3>1, Zenon DEF TypeInv, TypeOK, GroupStored, GoTo, viewVars, histVars, Steps
  <2>2. StepOK'
    BY <1>1, ZenonT(30)
    DEF TypeInv, TypeOK, StepOK, WriterStepOK, GroupStored, Appendable, GoTo,
                viewVars, histVars
  <2>3. QED
    BY <2>1, <2>2, Zenon DEF TypeInv
<1>2. CASE GroupExists(w, seq, start, c)
  BY <1>2, Zenon DEF TypeInv, TypeOK, StepOK, WriterStepOK, GroupExists, Appendable,
              storeVars, stepVars, histVars
<1>3. CASE GroupFails(w, seq, start, c)
  BY <1>3 DEF TypeInv, TypeOK, StepOK, WriterStepOK, GroupFails, viewVars, stepVars,
              histVars
<1>4. QED
  BY <1>1, <1>2, <1>3, Zenon

(* The call an Append goes on with after a collision. *)
LEMMA CallTypes ==
  ASSUME NEW c \in Call, c.pick # None
  PROVE  /\ c.pick.seq \in GroupSequences
         /\ c.pick.start \in Nat
         /\ AfterCollision(c) \in Call
<1>1. /\ c.pick \in Pick
      /\ c.attempt \in 0 .. MaxSkippedSequences
  BY Zenon DEF Call
<1>2. c.pick.seq \in GroupSequences /\ c.pick.start \in Nat
  BY <1>1, Zenon DEF Pick
<1>3. AfterCollision(c) \in Call
  BY <1>1, <1>2, Zeros, BoundsAssumption DEF AfterCollision, Call, GroupSequences
<1>4. QED
  BY <1>2, <1>3, Zenon

(* Every step keeps the epoch well-typed. *)
LEMMA NextTypeInv == TypeInv /\ [Next]_vars => TypeInv'
<1> SUFFICES ASSUME TypeInv, [Next]_vars PROVE TypeInv'
  OBVIOUS
<1> USE InputsAssumption DEF TypeInv, storeVars, viewVars, stepVars, histVars
<1>1. ASSUME NEW w \in Writers, Crash(w) PROVE TypeInv'
  <2>1. TypeOK'
    BY <1>1, Zeros, BoundsAssumption
      DEF Crash, Discard, ForgetStep, GoTo, TypeOK, StepOK, WriterStepOK
  <2>2. StepOK'
    BY <1>1, Zeros, Zenon DEF Crash, Discard, ForgetStep, GoTo, TypeOK, StepOK, WriterStepOK
  <2>3. QED
    BY <2>1, <2>2, Zenon
<1>2. ASSUME NEW w \in Writers, OpenWriter(w) PROVE TypeInv'
  <2>1. TypeOK'
    BY <1>2, Zenon DEF OpenWriter, GoTo, TypeOK, StepOK, WriterStepOK, Steps
  <2>2. StepOK'
    BY <1>2, Zenon DEF OpenWriter, GoTo, TypeOK, StepOK, WriterStepOK
  <2>3. QED
    BY <2>1, <2>2, Zenon
<1>3. ASSUME NEW w \in Writers, Reload(w) PROVE TypeInv'
  <2>1. TypeOK'
    BY <1>3 DEF Reload, GoTo, TypeOK, StepOK, WriterStepOK, Steps
  <2>2. StepOK'
    BY <1>3, ZenonT(30) DEF Reload, GoTo, TypeOK, StepOK, WriterStepOK
  <2>3. QED
    BY <2>1, <2>2, Zenon
<1>4. ASSUME NEW w \in Writers, ReloadFails(w) PROVE TypeInv'
  BY <1>4, Zeros, Zenon DEF ReloadFails, TypeOK, StepOK, WriterStepOK
<1>5. ASSUME NEW w \in Writers, ReadHead(w) PROVE TypeInv'
  <2>1. root[w].openFrom \in 0 .. MaxDelta + 1 /\ head \in Deltas \cup {NoHead}
    BY RootTypes, Zenon DEF TypeOK
  <2>2. (IF head >= root[w].openFrom THEN head ELSE root[w].openFrom) \in 0 .. MaxDelta + 1
    BY <2>1, BoundsAssumption DEF Deltas, NoHead
  <2>3. TypeOK'
    BY <1>5, <2>1, <2>2, Zenon DEF ReadHead, GoTo, TypeOK, Steps
  <2>4. StepOK'
    BY <1>5, <2>1 DEF ReadHead, GoTo, TypeOK, StepOK, WriterStepOK
  <2>5. QED
    BY <2>3, <2>4, Zenon
<1>6. ASSUME NEW w \in Writers, ProbeDelta(w) PROVE TypeInv'
  <2>1. cursor[w] \in Deltas /\ delta[cursor[w]] \in Row
    BY <1>6, Zenon DEF ProbeDelta, DeltaAt, TypeOK
  <2>2. cursor[w] + 1 \in 0 .. MaxDelta + 1
    BY <2>1, BoundsAssumption DEF Deltas
  <2>3. TypeOK'
    BY <1>6, <2>1, <2>2, SMTT(20) DEF ProbeDelta, TypeOK
  <2>4. root[w].openFrom \in Deltas /\ root[w].openFrom <= cursor[w] + 1
    <3>1. root[w].openFrom \in 0 .. MaxDelta + 1
      BY RootTypes, Zenon DEF TypeOK
    <3>2. root[w].openFrom <= cursor[w]
      BY <1>6, Zenon DEF ProbeDelta, StepOK, WriterStepOK
    <3>3. QED
      BY <2>1, <3>1, <3>2, BoundsAssumption DEF Deltas
  <2>5. StepOK'
    BY <1>6, <2>4, ZenonT(30) DEF ProbeDelta, TypeOK, StepOK, WriterStepOK
  <2>6. QED
    BY <2>3, <2>5, Zenon
<1>7. ASSUME NEW w \in Writers, Recovered(w) PROVE TypeInv'
  <2>1. ASSUME root[w].sealed # <<>> PROVE SealedLast(root[w].sealed) \in Row
    <3>1. root[w].sealed[Len(root[w].sealed)] \in Ref
      BY <2>1, RootTypes, LastOf, Zenon DEF TypeOK
    <3>2. QED
      BY <3>1, RowType, Zenon DEF SealedLast, Ref
  <2>2. TypeOK'
    BY <1>7, <2>1, Zeros, BoundsAssumption DEF Recovered, Return, ForgetStep, GoTo, TypeOK
  <2>3. StepOK'
    BY <1>7, Zenon DEF Recovered, Return, ForgetStep, GoTo, TypeOK, StepOK, WriterStepOK
  <2>4. QED
    BY <2>2, <2>3, Zenon
<1>8. ASSUME NEW w \in Writers, RecoverFails(w) PROVE TypeInv'
  <2>1. CASE Discard(w) /\ UNCHANGED <<storeVars, histVars>>
    <3>1. TypeOK'
      BY <2>1, Zeros, BoundsAssumption DEF Discard, ForgetStep, GoTo, TypeOK
    <3>2. StepOK'
      BY <2>1, Zenon DEF Discard, ForgetStep, GoTo, TypeOK, StepOK, WriterStepOK
    <3>3. QED
      BY <3>1, <3>2, Zenon
  <2>2. CASE /\ stale[w]
             /\ Return(w)
             /\ \E c \in {call[w], NoCall} : call' = [call EXCEPT ![w] = c]
             /\ UNCHANGED <<viewVars, storeVars, histVars>>
    <3>1. TypeOK'
      BY <2>2, Zeros, BoundsAssumption DEF Return, ForgetStep, GoTo, TypeOK
    <3>2. StepOK'
      BY <1>8, <2>2, ZenonT(30)
      DEF Return, ForgetStep, GoTo, RecoverFails, TypeOK, StepOK, WriterStepOK
    <3>3. QED
      BY <3>1, <3>2, Zenon
  <2>3. QED
    BY <1>8, <2>1, <2>2, Zenon DEF RecoverFails
<1>9. ASSUME NEW w \in Writers, PickSequence(w) PROVE TypeInv'
  <2>1. LastEnd(w) \in Nat
    BY RowTypes, Zenon DEF LastEnd, TypeOK
  <2>2. PICK seq \in GroupSequences :
            call' = [call EXCEPT ![w].pick = [seq |-> seq, start |-> LastEnd(w)]]
    BY <1>9, Zenon DEF PickSequence
  <2>3. [call[w] EXCEPT !.pick = [seq |-> seq, start |-> LastEnd(w)]] \in Call
    <3>1. [seq |-> seq, start |-> LastEnd(w)] \in Pick
      BY <2>1, Zenon DEF Pick
    <3>2. call[w] \in Call
      BY Zenon DEF TypeOK
    <3>3. QED
      BY <3>1, <3>2, Zenon DEF Call
  <2>4. call' \in [Writers -> Call]
    BY <2>2, <2>3, Zenon DEF TypeOK
  <2>5. QED
    BY <1>9, <2>4, Zenon DEF PickSequence, TypeOK, StepOK, WriterStepOK
<1>10. ASSUME NEW w \in Writers, AppendGroup(w) PROVE TypeInv'
  BY <1>10, GroupTypes, Zenon DEF AppendGroup, TypeOK
<1>11. ASSUME NEW w \in Writers, AppendGroupFails(w) PROVE TypeInv'
  BY <1>11, GroupTypes, Zenon DEF AppendGroupFails, TypeOK
<1>12. ASSUME NEW w \in Writers, AppendPicked(w) PROVE TypeInv'
  BY <1>12, GroupTypes, CallTypes, Zeros, Zenon DEF AppendPicked, TypeOK
<1>13. ASSUME NEW w \in Writers, AppendPickedFails(w) PROVE TypeInv'
  BY <1>13, GroupTypes, CallTypes, Zeros, Zenon DEF AppendPickedFails, TypeOK
<1>14. ASSUME NEW w \in Writers, PickRefused(w) PROVE TypeInv'
  BY <1>14, Zeros, Zenon DEF PickRefused, TypeOK, StepOK, WriterStepOK
<1>15. ASSUME NEW w \in Writers, CommitDelta(w) PROVE TypeInv'
  <2>1. /\ nextDelta[w] \in Deltas
        /\ nextDelta[w] + 1 \in 1 .. MaxDelta + 1
        /\ root[w].openFrom \in Deltas
        /\ root[w].openFrom <= nextDelta[w] + 1
        /\ ~stale[w]
    <3>1. root[w].openFrom \in 0 .. MaxDelta + 1
      BY RootTypes, Zenon DEF TypeOK
    <3>2. nextDelta[w] \in Deltas /\ ~stale[w] /\ root[w].openFrom <= nextDelta[w]
      BY <1>15, Zenon DEF CommitDelta, StepOK, WriterStepOK
    <3>3. QED
      BY <3>1, <3>2, BoundsAssumption DEF Deltas
  <2>2. Append(open[w], meta[w]) \in Seq(Row) /\ Append(open[w], meta[w]) # <<>>
    BY AppendFacts DEF TypeOK
  <2>3. TypeOK'
    BY <1>15, <2>1, <2>2, SMTT(20) DEF CommitDelta, StoreDelta, Confirm, GoTo, TypeOK, Steps
  <2>4. StepOK'
    BY <1>15, <2>1, <2>2, SMTT(20)
      DEF CommitDelta, StoreDelta, Confirm, GoTo, TypeOK, StepOK, WriterStepOK
  <2>5. QED
    BY <2>3, <2>4, Zenon
<1>16. ASSUME NEW w \in Writers, CommitFails(w) PROVE TypeInv'
  <2>1. TypeOK'
    <3>1. CASE UNCHANGED <<storeVars, commits>>
      BY <1>16, <3>1, Zenon DEF CommitFails, GoTo, TypeOK, Steps
    <3>2. CASE StoreDelta(w)
      BY <1>16, <3>2, Zenon DEF CommitFails, StoreDelta, GoTo, TypeOK, Steps
    <3>3. QED
      BY <1>16, <3>1, <3>2, Zenon DEF CommitFails
  <2>2. StepOK'
    BY <1>16, Zenon DEF CommitFails, GoTo, TypeOK, StepOK, WriterStepOK
  <2>3. QED
    BY <2>1, <2>2, Zenon
<1>17. ASSUME NEW w \in Writers, HoldsCommit(w) PROVE TypeInv'
  <2>1. /\ nextDelta[w] \in Deltas
        /\ nextDelta[w] + 1 \in 1 .. MaxDelta + 1
        /\ root[w].openFrom \in Deltas
        /\ root[w].openFrom <= nextDelta[w] + 1
        /\ ~stale[w]
    <3>1. root[w].openFrom \in 0 .. MaxDelta + 1
      BY RootTypes, Zenon DEF TypeOK
    <3>2. nextDelta[w] \in Deltas /\ ~stale[w] /\ root[w].openFrom <= nextDelta[w]
      BY <1>17, Zenon DEF HoldsCommit, StepOK, WriterStepOK
    <3>3. QED
      BY <3>1, <3>2, BoundsAssumption DEF Deltas
  <2>2. Append(open[w], meta[w]) \in Seq(Row) /\ Append(open[w], meta[w]) # <<>>
    BY AppendFacts DEF TypeOK
  <2>3. TypeOK'
    BY <1>17, <2>1, <2>2, SMTT(20) DEF HoldsCommit, Confirm, GoTo, TypeOK, Steps
  <2>4. StepOK'
    <3>1. ASSUME NEW v \in Writers, v # w PROVE WriterStepOK(v)'
      BY <1>17, <3>1, Zenon DEF HoldsCommit, Confirm, GoTo, TypeOK, StepOK, WriterStepOK
    <3>2. WriterStepOK(w)'
      BY <1>17, <2>1, <2>2, SMTT(20) DEF HoldsCommit, Confirm, GoTo, TypeOK, WriterStepOK
    <3>3. QED
      BY <3>1, <3>2, Zenon DEF StepOK
  <2>5. QED
    BY <2>3, <2>4, Zenon
<1>18. ASSUME NEW w \in Writers, CommitUnknown(w) PROVE TypeInv'
  <2>1. TypeOK'
    BY <1>18, Zeros, BoundsAssumption
      DEF CommitUnknown, Return, ForgetStep, GoTo, TypeOK, StepOK, WriterStepOK
  <2>2. StepOK'
    BY <1>18, Zenon
    DEF CommitUnknown, Return, ForgetStep, GoTo, TypeOK, StepOK, WriterStepOK
  <2>3. QED
    BY <2>1, <2>2, Zenon
<1>19. ASSUME NEW w \in Writers, PublishHead(w) PROVE TypeInv'
  <2>1. head' \in Deltas \cup {NoHead}
    BY <1>19, BoundsAssumption DEF PublishHead, TypeOK, Deltas, NoHead
  <2>2. CASE /\ GoTo(w, "seal") /\ auto' = [auto EXCEPT ![w] = TRUE]
             /\ UNCHANGED <<meta, cursor, upTo>>
    BY <1>19, <2>1, <2>2, Zenon DEF PublishHead, GoTo, TypeOK, StepOK, WriterStepOK, Steps
  <2>3. CASE Return(w)
    <3>1. TypeOK'
      BY <1>19, <2>1, <2>3, Zeros, BoundsAssumption, SMTT(20)
        DEF PublishHead, Return, ForgetStep, GoTo, TypeOK
    <3>2. StepOK'
      BY <1>19, <2>3, Zenon
      DEF PublishHead, Return, ForgetStep, GoTo, TypeOK, StepOK, WriterStepOK
    <3>3. QED
      BY <3>1, <3>2, Zenon
  <2>4. QED
    BY <1>19, <2>2, <2>3, Zenon DEF PublishHead
<1>20. ASSUME NEW w \in Writers, Seal(w) PROVE TypeInv'
  BY <1>20, Zenon DEF Seal, GoTo, Steps, TypeOK, StepOK, WriterStepOK
<1>21. ASSUME NEW w \in Writers, WriteSealed(w) PROVE TypeInv'
  <2>1. SealKey(w) \in Deltas \X Deltas /\ open[w] \in Seq(Row)
    BY <1>21, SealTypes, Zenon DEF WriteSealed
  <2>2. TypeOK'
    BY <1>21, <2>1, Zenon DEF WriteSealed, StoreSealed, GoTo, TypeOK, Steps
  <2>3. StepOK'
    BY <1>21, Zenon DEF WriteSealed, GoTo, TypeOK, StepOK, WriterStepOK
  <2>4. QED
    BY <2>2, <2>3, Zenon
<1>22. ASSUME NEW w \in Writers, WriteSealedFails(w) PROVE TypeInv'
  <2>1. SealKey(w) \in Deltas \X Deltas /\ open[w] \in Seq(Row)
    BY <1>22, SealTypes, Zenon DEF WriteSealedFails
  <2>2. sealed' \in [Deltas \X Deltas -> Seq(Row)]
    BY <1>22, <2>1, ZenonT(30) DEF WriteSealedFails, StoreSealed, TypeOK
  <2>3. TypeOK'
    BY <1>22, <2>2, Zeros, BoundsAssumption
    DEF WriteSealedFails, SealFailed, Return, ForgetStep, GoTo, TypeOK
  <2>4. StepOK'
    BY <1>22, Zenon
      DEF WriteSealedFails, SealFailed, Return, ForgetStep, GoTo, TypeOK, StepOK, WriterStepOK
  <2>5. QED
    BY <2>3, <2>4, Zenon
<1>23. ASSUME NEW w \in Writers, SwapLogRoot(w) PROVE TypeInv'
  <2>1. /\ NextLogRoot(w) \in LogRoot
        /\ root[w].openFrom \in 0 .. MaxDelta + 1
        /\ nextDelta[w] - 1 \in Deltas
        /\ nextDelta[w] - 1 \in 0 .. MaxDelta + 1
    BY <1>23, SealTypes, BoundsAssumption DEF SwapLogRoot, Deltas
  <2>2. TypeOK'
    BY <1>23, <2>1 DEF SwapLogRoot, GoTo, TypeOK, Steps
  <2>3. NextLogRoot(w).openFrom <= nextDelta[w]
    BY DEF NextLogRoot, TypeOK
  <2>4. StepOK'
    BY <1>23, <2>1, <2>3, Zenon DEF SwapLogRoot, GoTo, TypeOK, StepOK, WriterStepOK
  <2>5. QED
    BY <2>2, <2>4, Zenon
<1>24. ASSUME NEW w \in Writers, SwapLogRootFails(w) PROVE TypeInv'
  <2>1. log' \in LogRoot
    BY <1>24, SealTypes, Zenon DEF SwapLogRootFails, TypeOK
  <2>2. TypeOK'
    BY <1>24, <2>1, Zeros, BoundsAssumption
    DEF SwapLogRootFails, SealFailed, Return, ForgetStep, GoTo, TypeOK
  <2>3. StepOK'
    BY <1>24, Zenon
      DEF SwapLogRootFails, SealFailed, Return, ForgetStep, GoTo, TypeOK, StepOK, WriterStepOK
  <2>4. QED
    BY <2>2, <2>3, Zenon
<1>25. ASSUME NEW w \in Writers, Reclaim(w) PROVE TypeInv'
  <2>1. cursor[w] + 1 \in 0 .. MaxDelta + 1
    BY <1>25, BoundsAssumption DEF Reclaim, TypeOK, StepOK, WriterStepOK, Deltas
  <2>2. delta' \in [Deltas -> Row \cup {None}]
    BY <1>25, Zenon DEF Reclaim, TypeOK
  <2>3. QED
    BY <1>25, <2>1, <2>2, Zenon DEF Reclaim, TypeOK, StepOK, WriterStepOK
<1>26. ASSUME NEW w \in Writers, Reclaimed(w) PROVE TypeInv'
  <2>1. TypeOK'
    BY <1>26, Zeros, BoundsAssumption, SMTT(20)
      DEF Reclaimed, Return, ForgetStep, GoTo, TypeOK, StepOK, WriterStepOK
  <2>2. StepOK'
    BY <1>26, Zenon DEF Reclaimed, Return, ForgetStep, GoTo, TypeOK, StepOK, WriterStepOK
  <2>3. QED
    BY <2>1, <2>2, Zenon
<1>27. CASE LoseHead
  BY <1>27, Zenon DEF LoseHead, TypeOK, StepOK, WriterStepOK, NoHead
<1>28. CASE UNCHANGED vars
  BY <1>28, Zenon DEF vars, TypeOK, StepOK, WriterStepOK
<1> QED
  BY <1>1, <1>2, <1>3, <1>4, <1>5, <1>6, <1>7, <1>8, <1>9, <1>10, <1>11, <1>12,
     <1>13, <1>14, <1>15, <1>16, <1>17, <1>18, <1>19, <1>20, <1>21, <1>22, <1>23, <1>24,
     <1>25, <1>26, <1>27, <1>28, Zenon, Zenon
  DEF Next, Request, Begin

(* The epoch starts well-typed. *)
LEMMA InitTypeInv == Init => TypeInv
<1> SUFFICES ASSUME Init PROVE TypeInv
  OBVIOUS
<1>1. TypeOK
  BY Zeros, BoundsAssumption DEF Init, TypeOK, Deltas, NoHead
<1>2. StepOK
  BY Zenon DEF Init, StepOK, WriterStepOK
<1>3. QED
  BY <1>1, <1>2, Zenon DEF TypeInv

(* Every variable of the epoch and of its writers keeps its type: for any  *)
(* number of concurrent writers, any store failures and any use of Seal,   *)
(* no delta number is computed past the range it is used in.               *)
THEOREM TypeCorrect == Spec => []TypeOK
<1>1. TypeInv => TypeOK
  BY Zenon DEF TypeInv
<1>2. QED
  BY <1>1, InitTypeInv, NextTypeInv, PTL DEF Spec

-----------------------------------------------------------------------------
(***************************************************************************)
(* How a write to each object of the epoch (group object, delta manifest,  *)
(* sealed manifest, log root, head) leaves the parts of StoreOK, and what  *)
(* a step of a writer has to show of that writer.                          *)
(***************************************************************************)

(* The functions of the writers' state. *)
LEMMA Domains ==
  ASSUME TypeInv
  PROVE  /\ DOMAIN pc = Writers /\ DOMAIN root = Writers /\ DOMAIN nextDelta = Writers
         /\ DOMAIN open = Writers /\ DOMAIN last = Writers /\ DOMAIN stale = Writers
         /\ DOMAIN meta = Writers /\ DOMAIN cursor = Writers /\ DOMAIN upTo = Writers
         /\ DOMAIN auto = Writers
  BY Zenon DEF TypeInv, TypeOK

(* What a writer holds. *)
LEMMA WriterTypes ==
  ASSUME TypeInv, NEW w \in Writers
  PROVE  /\ root[w].openFrom \in 0 .. MaxDelta + 1 /\ root[w].ver \in Nat
         /\ nextDelta[w] \in 0 .. MaxDelta + 1
         /\ open[w] \in Seq(Row) /\ meta[w] \in Row /\ meta[w] # None
         /\ cursor[w] \in 0 .. MaxDelta + 1 /\ upTo[w] \in 0 .. MaxDelta + 1
         /\ call[w] \in Call
<1>1. root[w] \in LogRoot /\ meta[w] \in Row
  BY Zenon DEF TypeInv, TypeOK
<1>2. meta[w] # None
  BY <1>1, NoneAssumption, Zenon
<1>3. QED
  BY <1>1, <1>2, RootTypes, Zenon DEF TypeInv, TypeOK

(* What the store holds. *)
LEMMA StoreTypes ==
  ASSUME TypeInv
  PROVE  /\ log.openFrom \in 0 .. MaxDelta + 1 /\ log.ver \in Nat /\ log.sealed \in Seq(Ref)
         /\ commits \in [Deltas -> Row \cup {None}] /\ delta \in [Deltas -> Row \cup {None}]
         /\ head \in Deltas \cup {NoHead}
  BY RootTypes, Zenon DEF TypeInv, TypeOK

(* A step that leaves the store alone. *)
LEMMA StoreFrame == StoreOK /\ UNCHANGED <<storeVars, histVars>> => StoreOK'
<1> SUFFICES ASSUME StoreOK, UNCHANGED <<storeVars, histVars>> PROVE StoreOK'
  OBVIOUS
<1> USE DEF StoreOK, storeVars, histVars
<1>1. DeltasOK' /\ ManifestsOK' /\ HeadOK' /\ AckedOK'
  BY DEF DeltasOK, ManifestsOK, HoldsRange, HeadOK, AckedOK
<1>2. RefsOK'
  BY ZenonT(30) DEF RefsOK, RefOK, RefsTile, Covers
<1>3. QED
  BY <1>1, <1>2, Zenon

(* Storing a group object disturbs nothing. *)
LEMMA PayloadFrame ==
  ASSUME StoreOK, payload \subseteq payload', UNCHANGED <<delta, sealed, log, head, histVars>>
  PROVE  StoreOK'
  BY DEF StoreOK, DeltasOK, ManifestsOK, HoldsRange, RefsOK, RefOK, RefsTile, Covers, HeadOK,
         AckedOK, histVars

(* A commit at the tip. *)
LEMMA CommitFrame ==
  ASSUME TypeInv, StoreOK, NEW w \in Writers, StoreDelta(w),
         nextDelta[w] \in Deltas,
         meta[w].seq \in payload,
         \A n \in Deltas : n < nextDelta[w] => commits[n] # None,
         \A n \in Deltas : n > nextDelta[w] => commits[n] = None,
         commits[nextDelta[w]] = None,
         acked' \in {acked, acked \cup {meta[w]}}
  PROVE  StoreOK'
<1> DEFINE tip == nextDelta[w]
<1>1. /\ commits' = [commits EXCEPT ![tip] = meta[w]]
      /\ delta' = [delta EXCEPT ![tip] = meta[w]]
      /\ UNCHANGED <<payload, sealed, log, head>>
      /\ commits \in [Deltas -> Row \cup {None}]
      /\ delta \in [Deltas -> Row \cup {None}]
      /\ meta[w] \in Row /\ meta[w] # None
  BY NoneAssumption, Zenon DEF StoreDelta, TypeInv, TypeOK
<1>2. \A n \in Deltas : commits[n] # None => commits'[n] = commits[n]
  BY <1>1, Zenon
<1>3. log.openFrom \in 0 .. MaxDelta + 1 /\ log.openFrom <= tip
  BY RootTypes DEF TypeInv, TypeOK, StoreOK, DeltasOK, Deltas
<1>4. DeltasOK'
  <2>1. \A m, n \in Deltas : m < n /\ commits'[n] # None => commits'[m] # None
    BY <1>1 DEF Deltas
  <2>2. \A n \in Deltas : n < log.openFrom => commits'[n] # None
    BY <1>1, <1>3, Zenon DEF StoreOK, DeltasOK
  <2>3. \A n \in Deltas : n >= log.openFrom => delta'[n] = commits'[n]
    BY <1>1, Zenon DEF StoreOK, DeltasOK
  <2>4. \A n \in Deltas : commits'[n] # None => commits'[n].seq \in payload
    BY <1>1, Zenon DEF StoreOK, DeltasOK
  <2>5. QED
    BY <1>1, <2>1, <2>2, <2>3, <2>4, Zenon DEF DeltasOK
<1>5. ManifestsOK'
  <2>1. ASSUME NEW f \in Deltas, NEW l \in Deltas, sealed[<<f, l>>] # <<>>
        PROVE  HoldsRange(sealed[<<f, l>>], f, l)'
    <3>1. HoldsRange(sealed[<<f, l>>], f, l)
      BY <2>1, Zenon DEF StoreOK, ManifestsOK
    <3>2. sealed' = sealed
      BY <1>1, Zenon
    <3>3. QED
      BY <1>2, <3>1, <3>2, Zenon DEF HoldsRange
  <2>2. QED
    BY <1>1, <2>1, Zenon DEF ManifestsOK
<1>6. RefsOK'
  <2>1. ASSUME NEW i \in DOMAIN log.sealed PROVE RefOK(log.sealed[i])'
    <3>1. log.sealed[i] \in Ref
      BY RootTypes DEF TypeInv, TypeOK
    <3>2. log.sealed[i].last \in Deltas
      BY <3>1, Zenon DEF Ref
    <3>3. QED
      BY <1>1, <1>2, <3>2, Zenon DEF StoreOK, RefsOK, RefOK
  <2>2. QED
    BY <1>1, <2>1, Zenon DEF StoreOK, RefsOK, RefsTile, Covers
<1>7. HeadOK'
  BY <1>1, <1>2, Zenon DEF StoreOK, HeadOK, TypeInv, TypeOK
<1>8. AckedOK'
  BY <1>1, <1>2, NoneAssumption DEF StoreOK, AckedOK, TypeInv, TypeOK
<1>9. QED
  BY <1>4, <1>5, <1>6, <1>7, <1>8, Zenon DEF StoreOK


(* Writing the sealed manifest of a current writer, stored or found there. *)
LEMMA SealedFrame ==
  ASSUME TypeInv, StoreOK, NEW w \in Writers, pc[w] = "seal", StoreSealed(w), ViewOK(w),
         ~stale[w], UNCHANGED <<payload, delta, log, head, histVars>>
  PROVE  StoreOK' /\ sealed'[SealKey(w)] # <<>>
<1>1. /\ SealKey(w) \in Deltas \X Deltas
      /\ root[w].openFrom \in Deltas /\ nextDelta[w] - 1 \in Deltas
      /\ open[w] \in Seq(Row) /\ open[w] # <<>>
      /\ SealKey(w) = <<root[w].openFrom, nextDelta[w] - 1>>
  BY SealTypes, Zenon DEF TypeInv, StepOK, WriterStepOK, SealKey
<1>2. /\ sealed \in [Deltas \X Deltas -> Seq(Row)]
      /\ nextDelta[w] \in 0 .. MaxDelta + 1
  BY Zenon DEF TypeInv, TypeOK
<1>3. HoldsRange(open[w], root[w].openFrom, nextDelta[w] - 1)
  <2>1. /\ OpenUpTo(w, nextDelta[w])
        /\ \A n \in Deltas : n < nextDelta[w] => commits[n] # None
    BY Zenon DEF ViewOK, Current
  <2>2. Len(open[w]) = (nextDelta[w] - 1) - root[w].openFrom + 1
    BY <1>1, <1>2, <2>1 DEF OpenUpTo, RowsFrom, Deltas
  <2>3. QED
    BY <1>1, <1>2, <2>1, <2>2, SMTT(20) DEF HoldsRange, OpenUpTo, RowsFrom, Deltas
<1>4. \A key \in Deltas \X Deltas :
          sealed'[key] = IF key = SealKey(w) /\ sealed[key] = <<>> THEN open[w] ELSE sealed[key]
  BY <1>1, <1>2, Zenon DEF StoreSealed
<1>5. ManifestsOK'
  <2>1. ASSUME NEW f \in Deltas, NEW l \in Deltas, sealed'[<<f, l>>] # <<>>
        PROVE  HoldsRange(sealed'[<<f, l>>], f, l)
    <3>1. CASE <<f, l>> = SealKey(w) /\ sealed[<<f, l>>] = <<>>
      BY <1>1, <1>3, <1>4, <3>1
    <3>2. CASE ~(<<f, l>> = SealKey(w) /\ sealed[<<f, l>>] = <<>>)
      BY <1>4, <2>1, <3>2, Zenon DEF StoreOK, ManifestsOK
    <3>3. QED
      BY <3>1, <3>2, Zenon
  <2>2. QED
    BY <2>1, ZenonT(30) DEF ManifestsOK, HoldsRange, histVars
<1>6. RefsOK'
  <2>1. ASSUME NEW i \in DOMAIN log.sealed PROVE RefOK(log.sealed[i])'
    <3>1. log.sealed[i] \in Ref
      BY RootTypes DEF TypeInv, TypeOK
    <3>2. log.sealed[i].key \in Deltas \X Deltas
      BY <3>1, Zenon DEF Ref
    <3>3. QED
      BY <1>4, <3>2, Zenon DEF StoreOK, RefsOK, RefOK, histVars
  <2>2. QED
    BY <2>1, Zenon DEF StoreOK, RefsOK, RefsTile, Covers
<1>7. DeltasOK' /\ HeadOK' /\ AckedOK'
  BY Zenon DEF StoreOK, DeltasOK, HeadOK, AckedOK, histVars
<1>8. sealed'[SealKey(w)] # <<>>
  BY <1>1, <1>4, Zenon
<1>9. QED
  BY <1>5, <1>6, <1>7, <1>8, Zenon DEF StoreOK

(* Swapping the log root in, answered or not. *)
LEMMA SwapFrame ==
  ASSUME TypeInv, StoreOK, NEW w \in Writers, pc[w] = "swap", ~stale[w], root[w] = log,
         ViewOK(w), SealOK(w), log' = NextLogRoot(w),
         UNCHANGED <<payload, delta, sealed, head, histVars>>
  PROVE  StoreOK'
<1>1. /\ SealKey(w) \in Deltas \X Deltas
      /\ root[w].openFrom \in Deltas /\ nextDelta[w] - 1 \in Deltas
      /\ open[w] \in Seq(Row) /\ open[w] # <<>>
      /\ SealKey(w) = <<root[w].openFrom, nextDelta[w] - 1>>
      /\ nextDelta[w] \in 1 .. MaxDelta + 1
  BY SealTypes, SMTT(20) DEF TypeInv, TypeOK, StepOK, WriterStepOK, SealKey
<1> DEFINE newest == open[w][Len(open[w])]
           from == root[w].openFrom
           refs == log.sealed
           ref == Summarize(w)
<1>2. /\ OpenUpTo(w, nextDelta[w])
      /\ \A n \in Deltas : n < nextDelta[w] => commits[n] # None
      /\ sealed[SealKey(w)] # <<>>
  BY Zenon DEF ViewOK, Current, SealOK
<1>3. from <= nextDelta[w] - 1 /\ Len(open[w]) = nextDelta[w] - from
  <2>1. Len(open[w]) \in Nat \ {0}
    BY <1>1, LastOf, Zenon
  <2>2. QED
    BY <1>1, <1>2, <2>1, SMTT(20) DEF OpenUpTo, RowsFrom, Deltas
<1>4. newest = commits[nextDelta[w] - 1]
  <2>1. Len(open[w]) = (nextDelta[w] - 1) - from + 1
    BY <1>1, <1>3, SMTT(20) DEF Deltas
  <2>2. open[w][(nextDelta[w] - 1) - from + 1] = commits[nextDelta[w] - 1]
    BY <1>1, <1>2, <1>3 DEF OpenUpTo, RowsFrom
  <2>3. QED
    BY <2>1, <2>2, Zenon
<1>5. /\ ref.key = <<from, nextDelta[w] - 1>> /\ ref.first = from
      /\ ref.last = nextDelta[w] - 1
      /\ ref.lastSeq = newest.seq /\ ref.mediaEnd = newest.end
  BY <1>1, Zenon DEF Summarize
<1>6. /\ refs \in Seq(Ref) /\ ref \in Ref
      /\ log'.sealed = Append(refs, ref)
      /\ log'.openFrom = nextDelta[w]
      /\ log.openFrom = from
  <2>1. newest \in Row
    BY <1>1, LastOf, Zenon
  <2>2. ref \in Ref
    BY <1>1, <1>5, <2>1, RowTypes, ZenonT(30) DEF Summarize, Ref
  <2>3. QED
    BY <2>2, RootTypes, Zenon DEF NextLogRoot, TypeInv, TypeOK
<1>7. /\ Len(log'.sealed) = Len(refs) + 1 /\ Len(refs) \in Nat
      /\ DOMAIN log'.sealed = 1 .. Len(refs) + 1 /\ DOMAIN refs = 1 .. Len(refs)
      /\ \A i \in 1 .. Len(refs) : log'.sealed[i] = refs[i]
      /\ log'.sealed[Len(refs) + 1] = ref
      /\ log'.sealed # <<>>
  BY <1>6, AppendFacts, LenFacts, SMTT(20)
<1>8. DeltasOK'
  BY <1>1, <1>2, <1>3, <1>6, SMTT(20) DEF StoreOK, DeltasOK, histVars, Deltas
<1>9. RefsOK'
  <2>1. ASSUME NEW i \in DOMAIN log'.sealed PROVE RefOK(log.sealed[i])'
    <3>1. CASE i = Len(refs) + 1
      <4>1. log'.sealed[i] = ref
        BY <1>7, <3>1, Zenon
      <4>2. commits[nextDelta[w] - 1] # None
        BY <1>1, <1>2, SMTT(20) DEF Deltas
      <4>3. QED
        BY <1>1, <1>2, <1>4, <1>5, <4>1, <4>2, ZenonT(30) DEF RefOK, histVars
    <3>2. CASE i # Len(refs) + 1
      <4>1. i \in DOMAIN refs /\ log'.sealed[i] = refs[i]
        BY <1>7, <3>2, SMTT(20)
      <4>2. QED
        BY <4>1, SMTT(20) DEF StoreOK, RefsOK, RefOK, histVars
    <3>3. QED
      BY <3>1, <3>2, Zenon
  <2>2. ASSUME NEW n \in Deltas, n < log'.openFrom
        PROVE  \E i \in DOMAIN log'.sealed : Covers(log'.sealed[i], n)
    <3>1. CASE n < from
      BY <1>6, <1>7, <3>1, SMTT(20) DEF StoreOK, RefsOK
    <3>2. CASE n >= from
      <4>1. Covers(ref, n)
        BY <1>1, <1>5, <1>6, <2>2, <3>2 DEF Covers, Deltas
      <4>2. QED
        BY <1>7, <4>1, SMTT(20)
    <3>3. QED
      BY <1>1, <3>1, <3>2, SMTT(20) DEF Deltas
  <2>3. RefsTile'
    <3>1. RefsTile
      BY Zenon DEF StoreOK, RefsOK
    <3>2. ASSUME NEW i \in DOMAIN log'.sealed
          PROVE  /\ log'.sealed[i].first = IF i = 1 THEN 0 ELSE log'.sealed[i - 1].last + 1
                 /\ log'.sealed[i].first <= log'.sealed[i].last
      <4>1. CASE i = Len(refs) + 1
        <5>1. from = IF refs = <<>> THEN 0 ELSE refs[Len(refs)].last + 1
          BY <1>6, <3>1, Zenon DEF RefsTile
        <5>2. refs = <<>> <=> Len(refs) = 0
          BY <1>6, EmptyFacts
        <5>3. /\ log'.sealed[i] = ref /\ ref.first = from /\ ref.last = nextDelta[w] - 1
              /\ from <= nextDelta[w] - 1
          BY <1>3, <1>5, <1>7, <4>1, Zenon
        <5>4. PICK n : n = Len(refs)
          OBVIOUS
        <5>5. n \in Nat /\ (i = 1 <=> n = 0) /\ (n # 0 => n \in 1 .. n /\ i - 1 = n)
          BY <1>7, <4>1, <5>4
        <5>6. i # 1 => log'.sealed[i - 1] = refs[n]
          BY <1>7, <5>4, <5>5, Zenon
        <5>7. from = IF i = 1 THEN 0 ELSE log'.sealed[i - 1].last + 1
          BY <5>1, <5>2, <5>4, <5>5, <5>6, Zenon
        <5>8. QED
          BY <5>3, <5>7, Zenon
      <4>2. CASE i # Len(refs) + 1
        <5>1. /\ i \in DOMAIN refs /\ log'.sealed[i] = refs[i]
              /\ i # 1 => log'.sealed[i - 1] = refs[i - 1]
          <6>1. i \in 1 .. Len(refs) /\ (i # 1 => i - 1 \in 1 .. Len(refs))
            BY <1>7, <4>2, SMTT(20)
          <6> QED
            BY <1>7, <6>1, Zenon
        <5>2. QED
          BY <3>1, <5>1, Zenon DEF RefsTile
      <4>3. QED
        BY <4>1, <4>2, Zenon
    <3>3. log'.openFrom = log'.sealed[Len(log'.sealed)].last + 1
      BY <1>1, <1>5, <1>6, <1>7, SMTT(20)
    <3>4. QED
      BY <1>7, <3>2, <3>3, Zenon DEF RefsTile
  <2>4. QED
    BY <2>1, <2>2, <2>3, Zenon DEF RefsOK
<1>10. ManifestsOK' /\ HeadOK' /\ AckedOK'
  BY SMTT(20) DEF StoreOK, ManifestsOK, HoldsRange, HeadOK, AckedOK, histVars
<1>11. QED
  BY <1>8, <1>9, <1>10, Zenon DEF StoreOK

(* Deleting a delta below the open region. *)
LEMMA ReclaimFrame ==
  ASSUME TypeInv, StoreOK, NEW n \in Deltas, n < log.openFrom,
         delta' \in {delta, [delta EXCEPT ![n] = None]},
         UNCHANGED <<payload, sealed, log, head, histVars>>
  PROVE  StoreOK'
<1>1. DeltasOK'
  <2>1. log.openFrom \in Nat /\ delta \in [Deltas -> Row \cup {None}]
    BY RootTypes DEF TypeInv, TypeOK
  <2>2. \A m \in Deltas : m >= log.openFrom => delta'[m] = delta[m]
    <3>1. \A m \in Deltas : m >= log.openFrom => m # n
      BY <2>1 DEF Deltas
    <3>2. QED
      BY <2>1, <3>1, Zenon
  <2>3. QED
    BY <2>2, Zenon DEF StoreOK, DeltasOK, histVars
<1>2. QED
  BY <1>1 DEF StoreOK, ManifestsOK, HoldsRange, RefsOK, RefOK, RefsTile, Covers, HeadOK,
              AckedOK, histVars


(* Moving or losing head. *)
LEMMA HeadFrame ==
  ASSUME StoreOK, HeadOK', UNCHANGED <<payload, delta, sealed, log, histVars>>
  PROVE  StoreOK'
<1>1. DeltasOK' /\ ManifestsOK' /\ AckedOK'
  BY DEF StoreOK, DeltasOK, ManifestsOK, HoldsRange, AckedOK, histVars
<1>2. RefsOK'
  BY Zenon DEF StoreOK, RefsOK, RefOK, RefsTile, Covers, histVars
<1>3. QED
  BY <1>1, <1>2, ZenonT(30) DEF StoreOK

(* Confirming a commit that was made. *)
LEMMA AckFrame ==
  ASSUME StoreOK, NEW n \in Deltas, acked' = acked \cup {commits[n]},
         UNCHANGED <<storeVars, commits>>
  PROVE  StoreOK'
<1>1. AckedOK'
  BY Zenon DEF StoreOK, AckedOK
<1>2. DeltasOK' /\ ManifestsOK' /\ HeadOK'
  BY DEF StoreOK, DeltasOK, ManifestsOK, HoldsRange, HeadOK, storeVars
<1>3. RefsOK'
  BY Zenon DEF StoreOK, RefsOK, RefOK, RefsTile, Covers, storeVars
<1>4. QED
  BY <1>1, <1>2, <1>3, Zenon DEF StoreOK

-----------------------------------------------------------------------------
(* The writers. *)

(* What a step of w has to show: the rest of IndInv follows. *)
Kept(w) ==
    /\ StoreOK'
    /\ WriterOK(w)'
    /\ \A v \in Writers \ {w} : pc'[v] = "down"

(* A step of w that shows it, and keeps the types, keeps the invariant. *)
LEMMA KeptSuffices ==
  ASSUME NEW w \in Writers, Kept(w), TypeInv'
  PROVE  IndInv'
<1>1. Alone'
  BY Zenon DEF Kept, Alone, Live
<1>2. ASSUME NEW v \in Writers \ {w} PROVE WriterOK(v)'
  BY <1>2, Zenon
  DEF Kept, WriterOK, RootOK, RecoveryOK, ViewOK, AppendOK, SealOK, Live, Current
<1>3. QED
  BY <1>1, <1>2, Zenon DEF Kept, IndInv, WritersOK

(* What a step of w may start from. *)
LEMMA Parts ==
  ASSUME IndInv, NEW w \in Writers
  PROVE  TypeInv /\ WriterStepOK(w) /\ Alone /\ StoreOK /\ WriterOK(w)
  BY Zenon DEF IndInv, TypeInv, StepOK, WritersOK

(* A live writer is the only live one. *)
LEMMA OthersDown ==
  ASSUME TypeInv, Alone, NEW w \in Writers, Live(w),
         UNCHANGED pc \/ \E step \in Steps \cup {"idle", "down"} : GoTo(w, step)
  PROVE  \A v \in Writers \ {w} : pc'[v] = "down"
<1>1. DOMAIN pc = Writers /\ \A v \in Writers \ {w} : pc[v] = "down"
  BY Domains, Zenon DEF Alone, Live
<1>2. QED
  BY <1>1, Zenon DEF GoTo

(* One more commit, one more open group. *)
LEMMA RowsGrow ==
  ASSUME NEW rows \in Seq(Row), NEW row \in Row, NEW from \in Nat, NEW end \in Deltas,
         NEW c, NEW d, RowsFrom(rows, from, end, c),
         \A n \in Deltas : n < end => d[n] = c[n], d[end] = row
  PROVE  RowsFrom(Append(rows, row), from, end + 1, d)
<1>1. /\ Len(Append(rows, row)) = Len(rows) + 1 /\ Len(rows) \in Nat
      /\ \A i \in 1 .. Len(rows) : Append(rows, row)[i] = rows[i]
      /\ Append(rows, row)[Len(rows) + 1] = row
  BY AppendFacts, LenFacts
<1>2. end \in Nat /\ from <= end /\ Len(rows) = end - from
  BY BoundsAssumption DEF RowsFrom, Deltas
<1>3. ASSUME NEW n \in Deltas, from <= n, n < end + 1
      PROVE  Append(rows, row)[n - from + 1] = d[n]
  <2>1. CASE n = end
    BY <1>1, <1>2, <2>1, Zenon
  <2>2. CASE n # end
    <3>1. n < end /\ n - from + 1 \in 1 .. Len(rows)
      BY <1>2, <1>3, <2>2 DEF Deltas
    <3>2. QED
      BY <1>1, <1>3, <3>1, Zenon DEF RowsFrom
  <2>3. QED
    BY <2>1, <2>2, Zenon
<1>4. from <= end + 1 /\ Len(Append(rows, row)) = (end + 1) - from
  BY <1>1, <1>2
<1>5. QED
  BY <1>3, <1>4, Zenon DEF RowsFrom

(* The commit of this very append is known: created, or read back. *)
LEMMA ConfirmSafe ==
  ASSUME TypeInv, NEW w \in Writers, WriterStepOK(w), WriterOK(w),
         pc[w] \in {"commit", "holds"}, Confirm(w),
         commits'[nextDelta[w]] = meta[w], UNCHANGED log,
         \A n \in Deltas : n # nextDelta[w] => commits'[n] = commits[n]
  PROVE  WriterOK(w)'
<1>1. /\ nextDelta[w] \in Deltas /\ ~stale[w]
      /\ meta[w] \in Row /\ meta[w] # None /\ open[w] \in Seq(Row)
      /\ root[w].openFrom \in Nat
  <2>1. nextDelta[w] \in Deltas /\ ~stale[w]
    BY Zenon DEF WriterStepOK
  <2>2. QED
    BY <2>1, WriterTypes
<1>2. /\ pc'[w] = "publish" /\ nextDelta'[w] = nextDelta[w] + 1 /\ last'[w] = meta[w]
      /\ open'[w] = Append(open[w], meta[w]) /\ UNCHANGED <<root, stale>>
  BY Domains, Zenon DEF Confirm, GoTo
<1>3. /\ \A n \in Deltas : n < nextDelta[w] => commits[n] # None
      /\ \A n \in Deltas : n > nextDelta[w] => commits[n] = None
      /\ OpenUpTo(w, nextDelta[w])
      /\ RootOK(w)
  BY <1>1, Zenon DEF WriterOK, ViewOK, Current
<1>4. OpenUpTo(w, nextDelta[w])'
  <2>1. \A n \in Deltas : n < nextDelta[w] => commits'[n] = commits[n]
    BY <1>1 DEF Deltas
  <2>2. RowsFrom(Append(open[w], meta[w]), root[w].openFrom, nextDelta[w] + 1, commits')
    BY <1>1, <1>3, <2>1, RowsGrow, Zenon DEF OpenUpTo
  <2>3. QED
    BY <1>2, <2>2, Zenon DEF OpenUpTo
<1>5. ViewOK(w)'
  <2>1. \A n \in Deltas : n < nextDelta[w] + 1 => commits'[n] # None
    <3>1. \A n \in Deltas : n < nextDelta[w] + 1 => n < nextDelta[w] \/ n = nextDelta[w]
      BY <1>1 DEF Deltas
    <3>2. \A n \in Deltas : n < nextDelta[w] => n # nextDelta[w]
      BY <1>1 DEF Deltas
    <3>3. QED
      BY <1>1, <1>3, <3>1, <3>2, Zenon
  <2>2. \A n \in Deltas : n >= nextDelta[w] + 1 => commits'[n] = None
    BY <1>1, <1>3 DEF Deltas
  <2>3. nextDelta[w] + 1 > 0 /\ (nextDelta[w] + 1) - 1 = nextDelta[w] /\ nextDelta[w] + 1 # 0
    BY <1>1, BoundsAssumption DEF Deltas
  <2>4. \A n \in Deltas : n > nextDelta'[w] => commits'[n] = None
    BY <1>1, <1>2, <2>2 DEF Deltas
  <2>5. nextDelta'[w] \in Deltas => commits'[nextDelta'[w]] = None
    BY <1>1, <1>2, <2>2 DEF Deltas
  <2>6. QED
    BY <1>1, <1>2, <1>4, <2>1, <2>3, <2>4, <2>5, Zenon DEF ViewOK
<1>6. RootOK(w)'
  BY <1>2, <1>3, Zenon DEF RootOK, Live
<1>7. QED
  BY <1>1, <1>2, <1>5, <1>6, Zenon DEF WriterOK, RecoveryOK, AppendOK, SealOK

(* A writer nothing happens to. *)
LEMMA Untouched ==
  ASSUME NEW w \in Writers, WriterOK(w),
         UNCHANGED <<payload, sealed, log, viewVars, stepVars, pc, commits>>
  PROVE  WriterOK(w)'
<1>1. RootOK(w)' /\ RecoveryOK(w)'
  BY Zenon DEF WriterOK, RootOK, RecoveryOK, Live, OpenUpTo, viewVars, stepVars
<1>2. ViewOK(w)'
  BY Zenon DEF WriterOK, ViewOK, Current, OpenUpTo, viewVars, stepVars
<1>3. AppendOK(w)' /\ SealOK(w)'
  BY Zenon DEF WriterOK, AppendOK, SealOK, SealKey, viewVars, stepVars
<1>4. QED
  BY <1>1, <1>2, <1>3, Zenon DEF WriterOK

-----------------------------------------------------------------------------
(* Payloads, and confirmed groups before the first seal. *)

(* The rows are of groups whose object is there. *)
Stored(rows) == \A i \in DOMAIN rows : rows[i].seq \in payload

(* PayloadFirst is not inductive: a delta is written from meta, a sealed   *)
(* manifest from the rows a writer has open.                               *)
PayloadInv ==
    /\ \A n \in Deltas : delta[n] # None => delta[n].seq \in payload
    /\ \A key \in Deltas \X Deltas : Stored(sealed[key])
    /\ \A w \in Writers : Stored(open[w])
    /\ \A w \in Writers : pc[w] \in {"commit", "holds"} => meta[w].seq \in payload

(* Group objects are never deleted in EpochLog; a writer that has rows     *)
(* open keeps or forgets them, and one that is to commit goes on with the  *)
(* row it stored the object of.                                            *)
Keeps ==
    /\ payload \subseteq payload'
    /\ \A w \in Writers : open'[w] \in {open[w], <<>>}
    /\ \A w \in Writers : pc'[w] \in {"commit", "holds"} =>
            pc[w] \in {"commit", "holds"} /\ meta'[w] = meta[w]

(* Such a step that leaves the manifests alone. *)
LEMMA KeepsPayload ==
  ASSUME PayloadInv, Keeps, UNCHANGED <<delta, sealed>>
  PROVE  PayloadInv'
  BY DEF PayloadInv, Keeps, Stored

(* One that also writes a sealed manifest of the rows some writer has. *)
LEMMA SealPayload ==
  ASSUME TypeInv, PayloadInv, Keeps, UNCHANGED delta, NEW w \in Writers,
         StoreSealed(w) \/ UNCHANGED sealed
  PROVE  PayloadInv'
<1>1. \A key \in Deltas \X Deltas : sealed'[key] \in {sealed[key], open[w]}
  BY Zenon DEF StoreSealed, TypeInv, TypeOK
<1>2. QED
  BY <1>1 DEF PayloadInv, Keeps, Stored

(* One more row, of a group whose object is there. *)
LEMMA AppendStored ==
  ASSUME NEW rows \in Seq(Row), NEW row \in Row, Stored(rows), row.seq \in payload
  PROVE  Stored(Append(rows, row))
<1>1. /\ DOMAIN Append(rows, row) = 1 .. Len(rows) + 1
      /\ DOMAIN rows = 1 .. Len(rows)
      /\ Len(rows) \in Nat
  BY AppendFacts, LenFacts
<1>2. QED
  BY <1>1, AppendFacts DEF Stored

(* The group object is stored, and its row is to be committed. *)
LEMMA GroupPayload ==
  ASSUME TypeInv, PayloadInv, NEW w \in Writers, NEW seq \in GroupSequences, NEW start,
         NEW dur, NEW c,
         \/ GroupStored(w, seq, start, dur, c)
         \/ GroupExists(w, seq, start, c)
         \/ GroupFails(w, seq, start, c)
  PROVE  PayloadInv'
<1>1. CASE GroupStored(w, seq, start, dur, c)
  BY <1>1, Zenon DEF GroupStored, GoTo, TypeInv, TypeOK, PayloadInv, Stored, viewVars
<1>2. CASE GroupExists(w, seq, start, c)
  BY <1>2, KeepsPayload, Zenon DEF GroupExists, Keeps, storeVars, stepVars
<1>3. CASE GroupFails(w, seq, start, c)
  BY <1>3, KeepsPayload, Zenon DEF GroupFails, Keeps, viewVars, stepVars
<1>4. QED
  BY <1>1, <1>2, <1>3, Zenon

(* A delta is created from the row in meta. *)
LEMMA DeltaPayload ==
  ASSUME TypeInv, PayloadInv, NEW w \in Writers, pc[w] \in {"commit", "holds"},
         StoreDelta(w) \/ UNCHANGED <<payload, delta, sealed>>
  PROVE  /\ payload' = payload /\ sealed' = sealed
         /\ \A n \in Deltas : delta'[n] # None => delta'[n].seq \in payload
  BY Zenon DEF StoreDelta, TypeInv, TypeOK, PayloadInv

(* The commit is confirmed: the row joins those the writer has open. *)
LEMMA ConfirmPayload ==
  ASSUME TypeInv, PayloadInv, NEW w \in Writers, pc[w] \in {"commit", "holds"},
         StoreDelta(w) \/ UNCHANGED <<payload, delta, sealed>>,
         Confirm(w)
  PROVE  PayloadInv'
<1>1. Stored(Append(open[w], meta[w]))
  BY AppendStored, Zenon DEF TypeInv, TypeOK, PayloadInv
<1>2. \A v \in Writers : open'[v] = IF v = w THEN Append(open[w], meta[w]) ELSE open[v]
  BY Zenon DEF Confirm, TypeInv, TypeOK
<1>3. /\ \A v \in Writers : pc'[v] \in {"commit", "holds"} => pc[v] \in {"commit", "holds"}
      /\ meta' = meta
  BY Zenon DEF Confirm, GoTo, stepVars, TypeInv, TypeOK
<1>4. QED
  BY <1>1, <1>2, <1>3, DeltaPayload, Zenon DEF PayloadInv, Stored

(* Every step keeps the objects before the manifests. *)
LEMMA NextPayload == TypeInv /\ PayloadInv /\ [Next]_vars => PayloadInv'
<1> SUFFICES ASSUME TypeInv, PayloadInv, [Next]_vars PROVE PayloadInv'
  OBVIOUS
<1> USE Domains DEF storeVars, viewVars, stepVars
<1>1. ASSUME NEW w \in Writers, Crash(w) PROVE PayloadInv'
  BY <1>1, KeepsPayload, Zenon DEF Crash, Discard, ForgetStep, GoTo, Keeps
<1>2. ASSUME NEW w \in Writers, OpenWriter(w) PROVE PayloadInv'
  BY <1>2, KeepsPayload, Zenon DEF OpenWriter, GoTo, Keeps
<1>3. ASSUME NEW w \in Writers, Reload(w) PROVE PayloadInv'
  BY <1>3, KeepsPayload, Zenon DEF Reload, GoTo, Keeps
<1>4. ASSUME NEW w \in Writers, ReloadFails(w) \/ PickSequence(w) \/ PickRefused(w)
      PROVE  PayloadInv'
  BY <1>4, KeepsPayload, Zenon DEF ReloadFails, PickSequence, PickRefused, Keeps
<1>5. ASSUME NEW w \in Writers, ReadHead(w) PROVE PayloadInv'
  BY <1>5, KeepsPayload, Zenon DEF ReadHead, GoTo, Keeps
<1>6. ASSUME NEW w \in Writers, ProbeDelta(w) PROVE PayloadInv'
  <2>1. cursor[w] \in Deltas /\ delta[cursor[w]] \in Row /\ delta[cursor[w]] # None
    BY <1>6, StoreTypes, Zenon DEF ProbeDelta, DeltaAt
  <2>2. Stored(Append(open[w], delta[cursor[w]]))
    BY <2>1, AppendStored, WriterTypes, Zenon DEF PayloadInv
  <2>3. QED
    BY <1>6, <2>2, Zenon DEF ProbeDelta, PayloadInv, Stored
<1>7. ASSUME NEW w \in Writers, Recovered(w) PROVE PayloadInv'
  BY <1>7, KeepsPayload, Zenon DEF Recovered, Return, ForgetStep, GoTo, Keeps
<1>8. ASSUME NEW w \in Writers, RecoverFails(w) PROVE PayloadInv'
  BY <1>8, KeepsPayload, Zenon DEF RecoverFails, Discard, Return, ForgetStep, GoTo, Keeps
<1>9. ASSUME NEW w \in Writers, AppendGroup(w) \/ AppendGroupFails(w) PROVE PayloadInv'
  BY <1>9, GroupPayload, Zenon DEF AppendGroup, AppendGroupFails
<1>10. ASSUME NEW w \in Writers, AppendPicked(w) \/ AppendPickedFails(w) PROVE PayloadInv'
  BY <1>10, GroupPayload, CallTypes, WriterTypes, Zenon DEF AppendPicked, AppendPickedFails
<1>11. ASSUME NEW w \in Writers, CommitDelta(w) PROVE PayloadInv'
  BY <1>11, ConfirmPayload, Zenon DEF CommitDelta
<1>12. ASSUME NEW w \in Writers, CommitFails(w) PROVE PayloadInv'
  <2>1. /\ payload' = payload /\ sealed' = sealed
        /\ \A n \in Deltas : delta'[n] # None => delta'[n].seq \in payload
    BY <1>12, DeltaPayload, Zenon DEF CommitFails
  <2>2. QED
    BY <1>12, <2>1, Zenon DEF CommitFails, GoTo, PayloadInv, Stored
<1>13. ASSUME NEW w \in Writers, HoldsCommit(w) PROVE PayloadInv'
  BY <1>13, ConfirmPayload, Zenon DEF HoldsCommit
<1>14. ASSUME NEW w \in Writers, CommitUnknown(w) PROVE PayloadInv'
  BY <1>14, KeepsPayload, Zenon DEF CommitUnknown, Return, ForgetStep, GoTo, Keeps
<1>15. ASSUME NEW w \in Writers, PublishHead(w) PROVE PayloadInv'
  BY <1>15, KeepsPayload DEF PublishHead, Return, ForgetStep, GoTo, Keeps
<1>16. ASSUME NEW w \in Writers, Seal(w) PROVE PayloadInv'
  BY <1>16, KeepsPayload, Zenon DEF Seal, GoTo, Keeps
<1>17. ASSUME NEW w \in Writers, WriteSealed(w) PROVE PayloadInv'
  BY <1>17, SealPayload, Zenon DEF WriteSealed, GoTo, Keeps
<1>18. ASSUME NEW w \in Writers, WriteSealedFails(w) PROVE PayloadInv'
  BY <1>18, SealPayload, Zenon
  DEF WriteSealedFails, SealFailed, Return, ForgetStep, GoTo, Keeps
<1>19. ASSUME NEW w \in Writers, SwapLogRoot(w) PROVE PayloadInv'
  BY <1>19, KeepsPayload, Zenon DEF SwapLogRoot, GoTo, Keeps
<1>20. ASSUME NEW w \in Writers, SwapLogRootFails(w) PROVE PayloadInv'
  BY <1>20, KeepsPayload, Zenon
  DEF SwapLogRootFails, SealFailed, Return, ForgetStep, GoTo, Keeps
<1>21. ASSUME NEW w \in Writers, Reclaim(w) PROVE PayloadInv'
  <2>1. \A n \in Deltas : delta'[n] \in {delta[n], None}
    BY <1>21, StoreTypes, Zenon DEF Reclaim
  <2>2. QED
    BY <1>21, <2>1, Zenon DEF Reclaim, PayloadInv, Stored
<1>22. ASSUME NEW w \in Writers, Reclaimed(w) PROVE PayloadInv'
  BY <1>22, KeepsPayload, Zenon DEF Reclaimed, Return, ForgetStep, GoTo, Keeps
<1>23. CASE LoseHead
  BY <1>23, KeepsPayload, Zenon DEF LoseHead, Keeps
<1>24. CASE UNCHANGED vars
  BY <1>24, KeepsPayload, Zenon DEF vars, Keeps
<1> QED
  BY <1>1, <1>2, <1>3, <1>4, <1>5, <1>6, <1>7, <1>8, <1>9, <1>10, <1>11, <1>12, <1>13,
     <1>14, <1>15, <1>16, <1>17, <1>18, <1>19, <1>20, <1>21, <1>22, <1>23, <1>24, Zenon
  DEF Next, Request, Begin

(* A manifest never names a group object that was not stored: AppendGroup  *)
(* creates the object first, and recover and seal only pass on rows they   *)
(* read or committed.  For any number of writers at once, with and without *)
(* seals and store failures, on stale writers too.                         *)
THEOREM PayloadAlwaysFirst == Spec => []PayloadFirst
<1>1. Init => PayloadInv
  BY DEF Init, PayloadInv, Stored
<1>2. PayloadInv => PayloadFirst
  BY Zenon DEF PayloadInv, PayloadFirst, Stored
<1>3. QED
  BY <1>1, <1>2, InitTypeInv, NextTypeInv, NextPayload, PTL DEF Spec

-----------------------------------------------------------------------------
(* Before the first seal. *)

Filled(n) == \A m \in Deltas : m < n => delta[m] # None

(* Until a log root with a sealed run is stored, deltas are never deleted:  *)
(* they are consecutive from zero, and what a writer has read or committed *)
(* is still below its next delta.                                          *)
FencedInv ==
    log.sealed = <<>> =>
        /\ log.openFrom = 0
        /\ \A w \in Writers : root[w].openFrom = 0
        /\ \A w \in Writers : pc[w] # "reclaim"
        /\ \A w \in Writers : Filled(nextDelta[w])
        /\ \A w \in Writers : pc[w] = "probe" => Filled(cursor[w])
        /\ \A n \in Deltas : delta[n] # None => Filled(n)
        /\ \A row \in acked : \E n \in Deltas : delta[n] = row

(* A step that commits nothing and deletes nothing: a writer takes its root *)
(* from the store, and its next delta from a recovery.                     *)
Quiet ==
    /\ \A w \in Writers : root'[w].openFrom \in {root[w].openFrom, log.openFrom, 0}
    /\ \A w \in Writers :
            \/ nextDelta'[w] \in {0, nextDelta[w]}
            \/ pc[w] = "probe" /\ nextDelta'[w] = cursor[w]
    /\ \A w \in Writers : pc'[w] = "reclaim" => pc[w] = "reclaim"
    /\ \A w \in Writers : pc'[w] = "probe" =>
            \/ pc[w] = "probe" /\ cursor'[w] = cursor[w]
            \/ cursor'[w] = root[w].openFrom

(* Such a step keeps the fence. *)
LEMMA QuietFenced ==
  ASSUME FencedInv, Quiet, UNCHANGED <<delta, acked, log>>
  PROVE  FencedInv'
<1> SUFFICES ASSUME log.sealed = <<>> PROVE FencedInv'
  BY Zenon DEF FencedInv
<1>1. Filled(0)
  BY BoundsAssumption DEF Filled, Deltas
<1>2. \A n : Filled(n)' <=> Filled(n)
  BY Zenon DEF Filled
<1>3. QED
  BY <1>1, <1>2, ZenonT(30) DEF FencedInv, Quiet

(* A delta is created where there was none, right above the filled ones. *)
LEMMA DeltaFenced ==
  ASSUME TypeInv, FencedInv, log.sealed = <<>>, NEW w \in Writers,
         pc[w] \in {"commit", "holds"},
         \/ delta[nextDelta[w]] = None /\ StoreDelta(w)
         \/ UNCHANGED <<delta, log>>
  PROVE  /\ log' = log
         /\ \A n \in Deltas : delta[n] # None => delta'[n] = delta[n]
         /\ \A n \in Deltas : delta'[n] # None => Filled(n)'
         /\ nextDelta[w] \in Deltas
<1>1. nextDelta[w] \in Deltas
  BY Zenon DEF TypeInv, StepOK, WriterStepOK
<1>2. CASE delta[nextDelta[w]] = None /\ StoreDelta(w)
  <2>1. /\ log' = log
        /\ \A n \in Deltas : delta'[n] = IF n = nextDelta[w] THEN meta[w] ELSE delta[n]
    BY <1>2, Zenon DEF StoreDelta, TypeInv, TypeOK
  <2>2. meta[w] # None
    BY NoneAssumption, ZenonT(30) DEF TypeInv, TypeOK
  <2>3. QED
    BY <1>1, <1>2, <2>1, <2>2 DEF FencedInv, Filled
<1>3. CASE UNCHANGED <<delta, log>>
  BY <1>1, <1>3, Zenon DEF FencedInv, Filled
<1>4. QED
  BY <1>2, <1>3, Zenon

(* The commit is confirmed: the row is there, under the number claimed. *)
LEMMA ConfirmFenced ==
  ASSUME TypeInv, FencedInv, NEW w \in Writers, pc[w] \in {"commit", "holds"},
         \/ delta[nextDelta[w]] = None /\ StoreDelta(w)
         \/ delta[nextDelta[w]] = meta[w] /\ UNCHANGED <<delta, log>>,
         Confirm(w)
  PROVE  FencedInv'
<1>1. log' = log
  BY Zenon DEF StoreDelta
<1> SUFFICES ASSUME log.sealed = <<>> PROVE FencedInv'
  BY <1>1, Zenon DEF FencedInv
<1>2. /\ \A n \in Deltas : delta[n] # None => delta'[n] = delta[n]
      /\ \A n \in Deltas : delta'[n] # None => Filled(n)'
      /\ nextDelta[w] \in Deltas
  BY DeltaFenced, ZenonT(30)
<1>3. delta'[nextDelta[w]] = meta[w] /\ meta[w] # None
  BY <1>2, NoneAssumption DEF StoreDelta, TypeInv, TypeOK
<1>4. \A n : Filled(n) => Filled(n)'
  BY <1>2, ZenonT(30) DEF Filled
<1>5. \A m \in Deltas : m < nextDelta[w] + 1 => delta'[m] # None
  <2>1. \A m \in Deltas : m < nextDelta[w] => delta'[m] # None
    BY <1>2, Zenon DEF FencedInv, Filled
  <2>2. QED
    BY <1>2, <1>3, <2>1 DEF Deltas
<1>6. \A v \in Writers : /\ root'[v] = root[v] /\ cursor'[v] = cursor[v]
                         /\ nextDelta'[v] = IF v = w THEN nextDelta[w] + 1 ELSE nextDelta[v]
                         /\ pc'[v] = IF v = w THEN "publish" ELSE pc[v]
  BY ZenonT(30) DEF Confirm, GoTo, stepVars, TypeInv, TypeOK
<1>7. \A row \in acked' : \E n \in Deltas : delta'[n] = row
  <2>1. \A row \in acked : row # None
    BY NoneAssumption, Zenon DEF TypeInv, TypeOK
  <2>2. acked' = acked \cup {meta[w]}
    BY Zenon DEF Confirm
  <2>3. QED
    BY <1>2, <1>3, <2>1, <2>2 DEF FencedInv
<1>8. \A v \in Writers : Filled(nextDelta[v])'
  BY <1>4, <1>5, <1>6 DEF FencedInv, Filled
<1>9. QED
  BY <1>1, <1>2, <1>4, <1>6, <1>7, <1>8 DEF FencedInv

(* A log root that is swapped in has a sealed run. *)
LEMMA PublishesSealed ==
  ASSUME TypeInv, NEW w \in Writers, pc[w] = "swap"
  PROVE  NextLogRoot(w).sealed # <<>>
<1>1. NextLogRoot(w) \in LogRoot /\ root[w] \in LogRoot
  BY SealTypes, Zenon DEF TypeInv, TypeOK
<1>2. NextLogRoot(w).sealed = Append(root[w].sealed, Summarize(w))
  BY Zenon DEF NextLogRoot
<1>3. QED
  BY <1>1, <1>2, RootTypes

(* Every step keeps the fence until a sealed run is published. *)
LEMMA NextFenced == TypeInv /\ FencedInv /\ [Next]_vars => FencedInv'
<1> SUFFICES ASSUME TypeInv, FencedInv, [Next]_vars PROVE FencedInv'
  OBVIOUS
<1> USE Domains DEF storeVars, viewVars, stepVars, histVars
<1>0. NewLogRoot.openFrom = 0
  BY Zenon DEF NewLogRoot
<1>1. ASSUME NEW w \in Writers, Crash(w) PROVE FencedInv'
  BY <1>0, <1>1, QuietFenced, Zenon DEF Crash, Discard, ForgetStep, GoTo, Quiet
<1>2. ASSUME NEW w \in Writers, OpenWriter(w) PROVE FencedInv'
  BY <1>2, QuietFenced, Zenon DEF OpenWriter, GoTo, Quiet
<1>3. ASSUME NEW w \in Writers, Reload(w) PROVE FencedInv'
  BY <1>3, QuietFenced, Zenon DEF Reload, GoTo, Quiet
<1>4. ASSUME NEW w \in Writers, ReloadFails(w) \/ PickSequence(w) \/ PickRefused(w)
      PROVE  FencedInv'
  BY <1>4, QuietFenced, Zenon DEF ReloadFails, PickSequence, PickRefused, Quiet
<1>5. ASSUME NEW w \in Writers, ReadHead(w) PROVE FencedInv'
  BY <1>5, QuietFenced, Zenon DEF ReadHead, GoTo, Quiet
<1>6. ASSUME NEW w \in Writers, ProbeDelta(w) PROVE FencedInv'
  <2>1. cursor[w] \in Deltas /\ delta[cursor[w]] # None /\ UNCHANGED <<delta, acked, log>>
    BY <1>6, Zenon DEF ProbeDelta, DeltaAt
  <2>2. \A v \in Writers : cursor'[v] = IF v = w THEN cursor[w] + 1 ELSE cursor[v]
    BY <1>6, Zenon DEF ProbeDelta
  <2>3. log.sealed = <<>> => Filled(cursor[w] + 1)
    BY <1>6, <2>1 DEF ProbeDelta, FencedInv, Filled, Deltas
  <2>4. \A n : Filled(n)' <=> Filled(n)
    BY <2>1, Zenon DEF Filled
  <2>5. QED
    BY <1>6, <2>1, <2>2, <2>3, <2>4, Zenon DEF ProbeDelta, FencedInv
<1>7. ASSUME NEW w \in Writers, Recovered(w) PROVE FencedInv'
  BY <1>7, QuietFenced, Zenon DEF Recovered, Return, ForgetStep, GoTo, Quiet
<1>8. ASSUME NEW w \in Writers, RecoverFails(w) PROVE FencedInv'
  <2>1. UNCHANGED <<delta, acked, log>>
    BY <1>8, Zenon DEF RecoverFails
  <2>2. CASE Discard(w)
    BY <1>0, <2>1, <2>2, QuietFenced, Zenon DEF Discard, ForgetStep, GoTo, Quiet
  <2>3. CASE Return(w) /\ UNCHANGED viewVars
    BY <2>1, <2>3, QuietFenced, Zenon DEF Return, ForgetStep, GoTo, Quiet
  <2>4. QED
    BY <1>8, <2>2, <2>3, Zenon DEF RecoverFails
<1>9. ASSUME NEW w \in Writers, AppendGroup(w) \/ AppendPicked(w) PROVE FencedInv'
  BY <1>9, QuietFenced, Zenon
  DEF AppendGroup, AppendPicked, GroupStored, GroupExists, GoTo, Quiet
<1>10. ASSUME NEW w \in Writers, AppendGroupFails(w) \/ AppendPickedFails(w) PROVE FencedInv'
  BY <1>10, QuietFenced, Zenon DEF AppendGroupFails, AppendPickedFails, GroupFails, Quiet
<1>11. ASSUME NEW w \in Writers, CommitDelta(w) PROVE FencedInv'
  BY <1>11, ConfirmFenced, Zenon DEF CommitDelta
<1>12. ASSUME NEW w \in Writers, CommitFails(w) PROVE FencedInv'
  <2>1. log' = log
    BY <1>12, Zenon DEF CommitFails, StoreDelta
  <2> SUFFICES ASSUME log.sealed = <<>> PROVE FencedInv'
    BY <2>1, Zenon DEF FencedInv
  <2>2. /\ \A n \in Deltas : delta[n] # None => delta'[n] = delta[n]
        /\ \A n \in Deltas : delta'[n] # None => Filled(n)'
    BY <1>12, DeltaFenced, Zenon DEF CommitFails
  <2>3. \A n : Filled(n) => Filled(n)'
    BY <2>2, Zenon DEF Filled
  <2>4. \A row \in acked : row # None
    BY NoneAssumption, Zenon DEF TypeInv, TypeOK
  <2>5. QED
    BY <1>12, <2>1, <2>2, <2>3, <2>4, Zenon DEF CommitFails, GoTo, FencedInv
<1>13. ASSUME NEW w \in Writers, HoldsCommit(w) PROVE FencedInv'
  BY <1>13, ConfirmFenced, Zenon DEF HoldsCommit
<1>14. ASSUME NEW w \in Writers, CommitUnknown(w) PROVE FencedInv'
  BY <1>14, QuietFenced, ZenonT(30) DEF CommitUnknown, Return, ForgetStep, GoTo, Quiet
<1>15. ASSUME NEW w \in Writers, PublishHead(w) PROVE FencedInv'
  BY <1>15, QuietFenced DEF PublishHead, Return, ForgetStep, GoTo, Quiet
<1>16. ASSUME NEW w \in Writers, Seal(w) PROVE FencedInv'
  BY <1>16, QuietFenced, Zenon DEF Seal, GoTo, Quiet
<1>17. ASSUME NEW w \in Writers, WriteSealed(w) PROVE FencedInv'
  BY <1>17, QuietFenced, Zenon DEF WriteSealed, GoTo, Quiet
<1>18. ASSUME NEW w \in Writers, WriteSealedFails(w) PROVE FencedInv'
  BY <1>18, QuietFenced, Zenon
  DEF WriteSealedFails, SealFailed, Return, ForgetStep, GoTo, Quiet
<1>19. ASSUME NEW w \in Writers, SwapLogRoot(w) PROVE FencedInv'
  BY <1>19, PublishesSealed, Zenon DEF SwapLogRoot, FencedInv
<1>20. ASSUME NEW w \in Writers, SwapLogRootFails(w) PROVE FencedInv'
  <2>1. CASE UNCHANGED log
    BY <1>20, <2>1, QuietFenced, Zenon
    DEF SwapLogRootFails, SealFailed, Return, ForgetStep, GoTo, Quiet
  <2>2. CASE log' = NextLogRoot(w)
    BY <1>20, <2>2, PublishesSealed, Zenon DEF SwapLogRootFails, FencedInv
  <2>3. QED
    BY <1>20, <2>1, <2>2, Zenon DEF SwapLogRootFails
<1>21. ASSUME NEW w \in Writers, Reclaim(w) PROVE FencedInv'
  BY <1>21, Zenon DEF Reclaim, FencedInv
<1>22. ASSUME NEW w \in Writers, Reclaimed(w) PROVE FencedInv'
  BY <1>22, QuietFenced, Zenon DEF Reclaimed, Return, ForgetStep, GoTo, Quiet
<1>23. CASE LoseHead
  BY <1>23, QuietFenced, Zenon DEF LoseHead, Quiet
<1>24. CASE UNCHANGED vars
  BY <1>24, QuietFenced, Zenon DEF vars, Quiet
<1> QED
  BY <1>1, <1>2, <1>3, <1>4, <1>5, <1>6, <1>7, <1>8, <1>9, <1>10, <1>11, <1>12, <1>13,
     <1>14, <1>15, <1>16, <1>17, <1>18, <1>19, <1>20, <1>21, <1>22, <1>23, <1>24, ZenonT(30)
  DEF Next, Request, Begin

(* Until the first seal any number of writers may share the epoch: every   *)
(* append confirmed by AppendGroup, through the create of its delta or     *)
(* through holdsCommit, is there to be read.                               *)
THEOREM SharedUntilSealed == Spec => []FencedUntilSealed
<1>1. Init => FencedInv
  BY BoundsAssumption DEF Init, FencedInv, Filled, NewLogRoot, Deltas
<1>2. TypeInv /\ FencedInv => FencedUntilSealed
  <2> SUFFICES ASSUME TypeInv, FencedInv, log.sealed = <<>>, NEW row \in acked
               PROVE  \E n \in Deltas : ReadAt(n) = row
    BY Zenon DEF FencedUntilSealed, AckedReadable
  <2>1. PICK n \in Deltas : delta[n] = row
    BY Zenon DEF FencedInv
  <2>2. row # None
    BY NoneAssumption, Zenon DEF TypeInv, TypeOK
  <2>3. log.openFrom = 0 /\ \A m \in 0 .. n : delta[m] # None
    BY <2>1, <2>2, BoundsAssumption DEF FencedInv, Filled, Deltas
  <2>4. ReadAt(n) = row
    BY <2>1, <2>3, BoundsAssumption DEF ReadAt, Deltas
  <2>5. QED
    BY <2>4, Zenon
<1>3. QED
  BY <1>1, <1>2, InitTypeInv, NextTypeInv, NextFenced, PTL DEF Spec

-----------------------------------------------------------------------------
(* The sealed runs, however many writers seal one epoch. *)

(* A live writer's root is the stored one, or an older one. *)
RootBehind(w) ==
    pc[w] # "down" => /\ root[w].ver <= log.ver
                      /\ root[w].ver = log.ver => root[w] = log

Away == {"down", "head", "probe"}
Busy == {"commit", "holds", "publish", "seal", "swap"}

(* The rows a writer has open are one for each delta from its root's       *)
(* OpenFrom to its next.                                                   *)
RowsCounted(w) ==
    /\ pc[w] \in Busy => ~stale[w]
    /\ pc[w] \notin Away /\ ~stale[w] => nextDelta[w] = root[w].openFrom + Len(open[w])
    /\ pc[w] = "probe" => cursor[w] = root[w].openFrom + Len(open[w])

TileInv == RefsTile /\ \A w \in Writers : RootBehind(w) /\ RowsCounted(w)

(* A step of w leaves the other writers alone. *)
Others(w) == \A v \in Writers \ {w} :
    /\ pc'[v] = pc[v] /\ root'[v] = root[v] /\ stale'[v] = stale[v]
    /\ nextDelta'[v] = nextDelta[v] /\ open'[v] = open[v] /\ cursor'[v] = cursor[v]

(* They count their rows as before. *)
LEMMA OthersCount ==
  ASSUME TileInv, NEW w \in Writers, Others(w), NEW v \in Writers \ {w}
  PROVE  RowsCounted(v)'
  BY Zenon DEF TileInv, Others, RowsCounted

(* A step that leaves the log root alone, of a writer that keeps its root, *)
(* reads the stored one, or ends.                                          *)
LEMMA OneCounts ==
  ASSUME TypeInv, TileInv, NEW w \in Writers, UNCHANGED log, Others(w), RowsCounted(w)',
         \/ root'[w] = root[w] /\ pc[w] # "down"
         \/ root'[w] = log
         \/ pc'[w] = "down"
  PROVE  TileInv'
<1>1. RefsTile'
  BY Zenon DEF TileInv, RefsTile
<1>2. ASSUME NEW v \in Writers PROVE RootBehind(v)'
  <2>1. RootBehind(v) /\ log.ver <= log.ver
    BY StoreTypes DEF TileInv
  <2>2. CASE v = w
    BY <2>1, <2>2, Zenon DEF RootBehind
  <2>3. CASE v # w
    BY <2>1, <2>3, Zenon DEF RootBehind, Others
  <2>4. QED
    BY <2>2, <2>3, Zenon
<1>3. QED
  BY <1>1, <1>2, OthersCount, Zenon DEF TileInv

(* A step within an operation that ends with the same rows open. *)
LEMMA GoesOn ==
  ASSUME TypeInv, TileInv, NEW w \in Writers, NEW step, step \notin Away,
         UNCHANGED <<log, root, nextDelta, open>>, GoTo(w, step), pc[w] \notin Away,
         \A v \in Writers \ {w} : stale'[v] = stale[v] /\ cursor'[v] = cursor[v],
         ~stale'[w] => ~stale[w], step \in Busy => ~stale'[w]
  PROVE  TileInv'
<1>1. pc'[w] = step /\ Others(w)
  BY Domains, Zenon DEF GoTo, Others
<1>2. RowsCounted(w)
  BY Zenon DEF TileInv
<1>3. RowsCounted(w)'
  BY <1>1, <1>2, Zenon DEF RowsCounted, Away
<1>4. QED
  BY <1>1, <1>3, OneCounts, Zenon DEF Away

(* The log root is swapped by a writer that has the stored one: one more   *)
(* run, from OpenFrom to the last delta it has open.                       *)
LEMMA SwapTiles ==
  ASSUME TypeInv, TileInv, NEW w \in Writers, pc[w] = "swap",
         root[w].ver = log.ver, log' = NextLogRoot(w)
  PROVE  RefsTile'
<1>1. /\ root[w] = log
      /\ nextDelta[w] = log.openFrom + Len(open[w])
  BY Zenon DEF TileInv, RootBehind, RowsCounted, Away, Busy
<1>2. /\ open[w] \in Seq(Row) /\ open[w] # <<>>
      /\ log.sealed \in Seq(Ref) /\ log.openFrom \in Nat /\ nextDelta[w] \in Nat
  BY RootTypes, BoundsAssumption DEF TypeInv, TypeOK, StepOK, WriterStepOK
<1>3. Len(open[w]) \in Nat \ {0}
  BY <1>2, LastOf, Zenon
<1> DEFINE ref == Summarize(w)
           refs == Append(log.sealed, ref)
<1>4. ref.first = log.openFrom /\ ref.last = nextDelta[w] - 1
  BY <1>1, Zenon DEF Summarize
<1>5. log'.sealed = refs /\ log'.openFrom = nextDelta[w]
  BY <1>1, ZenonT(30) DEF NextLogRoot
<1>6. ref \in Ref
  <2>1. NextLogRoot(w) \in LogRoot /\ refs \in Seq(Ref)
    BY <1>5, SealTypes, RootTypes, Zenon
  <2>2. /\ DOMAIN refs = 1 .. Len(log.sealed) + 1
        /\ refs[Len(log.sealed) + 1] = ref /\ Len(log.sealed) \in Nat
    BY <1>2, SMTT(20)
  <2>3. QED
    BY <2>1, <2>2
<1>7. /\ refs # <<>> /\ Len(refs) = Len(log.sealed) + 1 /\ DOMAIN refs = 1 .. Len(refs)
      /\ Len(log.sealed) \in Nat /\ DOMAIN log.sealed = 1 .. Len(log.sealed)
      /\ \A i \in 1 .. Len(log.sealed) : refs[i] = log.sealed[i]
      /\ refs[Len(log.sealed) + 1] = ref
      /\ log.sealed = <<>> <=> Len(log.sealed) = 0
  BY <1>2, <1>6, AppendFacts, LenFacts, SMTT(20)
<1> HIDE DEF ref, refs
<1>8. ASSUME NEW i \in DOMAIN refs
      PROVE  /\ refs[i].first = IF i = 1 THEN 0 ELSE refs[i - 1].last + 1
             /\ refs[i].first <= refs[i].last
  <2>1. CASE i \in 1 .. Len(log.sealed)
    <3>1. /\ i \in DOMAIN log.sealed /\ refs[i] = log.sealed[i]
          /\ i # 1 => refs[i - 1] = log.sealed[i - 1]
      BY <1>7, <2>1
    <3>2. RefsTile
      BY Zenon DEF TileInv
    <3>3. QED
      BY <3>1, <3>2, Zenon DEF RefsTile
  <2>2. CASE i = Len(log.sealed) + 1
    <3>1. log.openFrom = IF log.sealed = <<>> THEN 0 ELSE log.sealed[Len(log.sealed)].last + 1
      BY Zenon DEF TileInv, RefsTile
    <3>2. refs[i] = ref /\ (i # 1 => refs[i - 1] = log.sealed[Len(log.sealed)])
      BY <1>7, <2>2, SMTT(20)
    <3>3. ref.first <= ref.last
      BY <1>1, <1>2, <1>3, <1>4, SMTT(20)
    <3>4. QED
      BY <1>4, <1>7, <2>2, <3>1, <3>2, <3>3
  <2>3. QED
    BY <1>7, <1>8, <2>1, <2>2
<1>9. nextDelta[w] = refs[Len(refs)].last + 1
  BY <1>2, <1>4, <1>7
<1>10. QED
  BY <1>5, <1>7, <1>8, <1>9, Zenon DEF RefsTile

(* One more row, one more delta. *)
LEMMA OneMore ==
  ASSUME NEW f \in Nat, NEW rows \in Seq(Row), NEW row \in Row, NEW n, n = f + Len(rows)
  PROVE  n + 1 = f + Len(Append(rows, row))
<1>1. Len(Append(rows, row)) = Len(rows) + 1 /\ Len(rows) \in Nat
  OBVIOUS
<1>2. QED
  BY <1>1

(* What a writer counts with. *)
LEMMA Counts ==
  ASSUME TypeInv, NEW w \in Writers
  PROVE  /\ root[w].openFrom \in Nat /\ nextDelta[w] \in Nat
         /\ open[w] \in Seq(Row) /\ meta[w] \in Row
<1>1. /\ root[w].openFrom \in 0 .. MaxDelta + 1 /\ nextDelta[w] \in 0 .. MaxDelta + 1
      /\ open[w] \in Seq(Row) /\ meta[w] \in Row
  BY WriterTypes, Zenon
<1>2. QED
  BY <1>1, BoundsAssumption

(* A writer that has no rows yet. *)
LEMMA NoneYet ==
  ASSUME NEW n \in Nat
  PROVE  n = n + Len(<<>>) /\ n <= n
  BY EmptyFacts

(* A writer that takes up another row. *)
LEMMA TakesOneMore ==
  ASSUME TypeInv, NEW w \in Writers, NEW row \in Row,
         NEW n, n = root[w].openFrom + Len(open[w])
  PROVE  n + 1 = root[w].openFrom + Len(Append(open[w], row))
<1>1. root[w].openFrom \in Nat /\ open[w] \in Seq(Row)
  BY Counts, Zenon
<1>2. QED
  BY <1>1, OneMore

(* Who has not swapped the log root is now behind it. *)
LEMMA SwapBehind ==
  ASSUME TypeInv, TileInv, NEW w \in Writers, log' = NextLogRoot(w),
         NEW v \in Writers, root'[v] = root[v], pc[v] # "down"
  PROVE  RootBehind(v)'
<1>1. log.ver \in Nat /\ root[v].ver \in Nat /\ root[v].ver <= log.ver
  BY StoreTypes, WriterTypes, Zenon DEF TileInv, RootBehind
<1>2. log'.ver = log.ver + 1
  BY Zenon DEF NextLogRoot
<1>3. root'[v].ver <= log'.ver /\ root'[v].ver # log'.ver
  BY <1>1, <1>2
<1>4. QED
  BY <1>3, Zenon DEF RootBehind

(* The log root is swapped, and the answer is received or not. *)
LEMMA SwapCounts ==
  ASSUME TypeInv, TileInv, NEW w \in Writers, pc[w] = "swap", Others(w),
         root[w].ver = log.ver, log' = NextLogRoot(w), RowsCounted(w)',
         root'[w] \in {root[w], log'}
  PROVE  TileInv'
<1>1. RefsTile'
  BY SwapTiles, Zenon
<1>2. ASSUME NEW v \in Writers \ {w} PROVE RootBehind(v)'
  <2>1. pc'[v] = pc[v] /\ root'[v] = root[v]
    BY Zenon DEF Others
  <2>2. CASE pc[v] = "down"
    BY <2>1, <2>2, Zenon DEF RootBehind
  <2>3. CASE pc[v] # "down"
    BY <2>1, <2>3, SwapBehind, Zenon
  <2>4. QED
    BY <2>2, <2>3, Zenon
<1>3. RootBehind(w)'
  <2>1. CASE root'[w] = root[w]
    BY <2>1, SwapBehind, Zenon
  <2>2. CASE root'[w] = log'
    <3>1. log'.ver = log.ver + 1 /\ log.ver \in Nat
      BY StoreTypes, Zenon DEF NextLogRoot
    <3>2. log'.ver \in Nat
      BY <3>1
    <3>3. log'.ver <= log'.ver
      BY <3>2, NoneYet, Zenon
    <3>4. QED
      BY <2>2, <3>3, Zenon DEF RootBehind
  <2>3. QED
    BY <2>1, <2>2, Zenon
<1>4. QED
  BY <1>1, <1>2, <1>3, OthersCount, Zenon DEF TileInv

(* Every step keeps the runs tiled. *)
LEMMA NextTiles ==
  ASSUME SealCalls # "always"
  PROVE  TypeInv /\ TileInv /\ [Next]_vars => TileInv'
<1> SUFFICES ASSUME TypeInv, TileInv, [Next]_vars PROVE TileInv'
  OBVIOUS
<1> USE Domains DEF storeVars, viewVars, stepVars, histVars
<1>0. \A w \in Writers : RowsCounted(w) /\ WriterStepOK(w)
  BY Zenon DEF TileInv, TypeInv, StepOK
<1>1. ASSUME NEW w \in Writers, Crash(w) \/ (RecoverFails(w) /\ Discard(w)) PROVE TileInv'
  <2>1. Discard(w) /\ UNCHANGED log
    BY <1>1, Zenon DEF Crash, RecoverFails
  <2>2. Others(w) /\ pc'[w] = "down"
    BY <2>1, Zenon DEF Discard, ForgetStep, GoTo, Others
  <2>3. QED
    BY <2>1, <2>2, OneCounts, Zenon DEF RowsCounted, Away, Busy
<1>2. ASSUME NEW w \in Writers, OpenWriter(w) \/ Reload(w) PROVE TileInv'
  <2>1. UNCHANGED log /\ Others(w) /\ pc'[w] = "head" /\ root'[w] = log
    BY <1>2, ZenonT(30) DEF OpenWriter, Reload, GoTo, Others
  <2>2. QED
    BY <2>1, OneCounts, Zenon DEF RowsCounted, Away, Busy
<1>3. ASSUME UNCHANGED <<log, viewVars, cursor, pc>> PROVE TileInv'
  BY <1>3, Zenon DEF TileInv, RefsTile, RootBehind, RowsCounted
<1>4. ASSUME NEW w \in Writers, ReloadFails(w) \/ PickSequence(w) \/ PickRefused(w)
      PROVE  TileInv'
  BY <1>3, <1>4, Zenon DEF ReloadFails, PickSequence, PickRefused
<1>5. ASSUME NEW w \in Writers, ReadHead(w) PROVE TileInv'
  <2>1. /\ UNCHANGED log /\ Others(w) /\ pc[w] = "head" /\ pc'[w] = "probe"
        /\ root'[w] = root[w] /\ open'[w] = open[w] /\ cursor'[w] = root[w].openFrom
    BY <1>5, Zenon DEF ReadHead, GoTo, Others
  <2>2. open[w] = <<>>
    BY <1>0, <2>1, Zenon DEF WriterStepOK
  <2>3. cursor'[w] = root'[w].openFrom + Len(open'[w])
    BY <2>1, <2>2, Counts, NoneYet, Zenon
  <2>4. QED
    BY <2>1, <2>3, OneCounts, Zenon DEF RowsCounted, Away, Busy
<1>6. ASSUME NEW w \in Writers, ProbeDelta(w) PROVE TileInv'
  <2>1. cursor[w] \in Deltas /\ delta[cursor[w]] \in Row
    BY <1>6, StoreTypes, Zenon DEF ProbeDelta, DeltaAt
  <2>2. /\ UNCHANGED log /\ Others(w) /\ pc[w] = "probe" /\ pc'[w] = "probe"
        /\ root'[w] = root[w] /\ cursor'[w] = cursor[w] + 1
        /\ open'[w] = Append(open[w], delta[cursor[w]])
    BY <1>6, Zenon DEF ProbeDelta, Others
  <2>3. cursor[w] = root[w].openFrom + Len(open[w])
    BY <1>0, <2>2, Zenon DEF RowsCounted
  <2>4. cursor[w] + 1 = root[w].openFrom + Len(Append(open[w], delta[cursor[w]]))
    BY <2>1, <2>3, TakesOneMore, Zenon
  <2>5. QED
    BY <2>2, <2>4, OneCounts, Zenon DEF RowsCounted, Away, Busy
<1>7. ASSUME NEW w \in Writers, Recovered(w) PROVE TileInv'
  <2>1. /\ UNCHANGED log /\ Others(w) /\ pc[w] = "probe" /\ pc'[w] = "idle"
        /\ root'[w] = root[w] /\ open'[w] = open[w] /\ nextDelta'[w] = cursor[w]
    BY <1>7, Zenon DEF Recovered, Return, ForgetStep, GoTo, Others
  <2>2. nextDelta'[w] = root'[w].openFrom + Len(open'[w])
    BY <1>0, <2>1, Zenon DEF RowsCounted
  <2>3. QED
    BY <2>1, <2>2, OneCounts, Zenon DEF RowsCounted, Away, Busy
<1>8. ASSUME NEW w \in Writers, RecoverFails(w) PROVE TileInv'
  <2>1. CASE stale[w] /\ Return(w) /\ UNCHANGED viewVars
    <3>1. /\ UNCHANGED log /\ Others(w) /\ pc[w] # "down" /\ pc'[w] = "idle"
          /\ root'[w] = root[w] /\ stale'[w]
      BY <1>8, <2>1, Zenon DEF RecoverFails, Return, ForgetStep, GoTo, Others
    <3>2. QED
      BY <3>1, OneCounts, Zenon DEF RowsCounted, Away, Busy
  <2>2. QED
    BY <1>1, <1>8, <2>1, Zenon DEF RecoverFails
<1>9. ASSUME NEW w \in Writers, AppendGroup(w) \/ AppendPicked(w) PROVE TileInv'
  <2>1. PICK seq, start, dur, c :
            GroupStored(w, seq, start, dur, c) \/ GroupExists(w, seq, start, c)
    BY <1>9, Zenon DEF AppendGroup, AppendPicked
  <2>2. CASE GroupStored(w, seq, start, dur, c)
    BY <2>2, GoesOn, Zenon DEF GroupStored, Appendable, Away
  <2>3. CASE GroupExists(w, seq, start, c)
    <3>1. /\ pc[w] = "idle" /\ UNCHANGED <<log, root, nextDelta, open, cursor, pc>>
          /\ stale'[w] /\ \A v \in Writers \ {w} : stale'[v] = stale[v]
      BY <2>3, Zenon DEF GroupExists, Appendable
    <3>2. Others(w)
      BY <3>1, Zenon DEF Others
    <3>3. QED
      BY <3>1, <3>2, OneCounts, Zenon DEF RowsCounted, Away, Busy
  <2>4. QED
    BY <2>1, <2>2, <2>3, Zenon
<1>10. ASSUME NEW w \in Writers, AppendGroupFails(w) \/ AppendPickedFails(w) PROVE TileInv'
  BY <1>3, <1>10, Zenon DEF AppendGroupFails, AppendPickedFails, GroupFails
<1>11. ASSUME NEW w \in Writers, CommitDelta(w) \/ HoldsCommit(w) PROVE TileInv'
  <2>1. /\ Confirm(w) /\ UNCHANGED log /\ pc[w] \in {"commit", "holds"}
    BY <1>11, Zenon DEF CommitDelta, HoldsCommit, StoreDelta
  <2>2. /\ Others(w) /\ pc'[w] = "publish" /\ root'[w] = root[w] /\ stale' = stale
        /\ open'[w] = Append(open[w], meta[w]) /\ nextDelta'[w] = nextDelta[w] + 1
    BY <2>1, Zenon DEF Confirm, GoTo, Others
  <2>3. ~stale[w] /\ nextDelta[w] = root[w].openFrom + Len(open[w])
    BY <1>0, <2>1, Zenon DEF RowsCounted, Away, Busy
  <2>4. nextDelta[w] + 1 = root[w].openFrom + Len(Append(open[w], meta[w]))
    BY <2>3, Counts, TakesOneMore, Zenon
  <2>5. RowsCounted(w)'
    BY <2>2, <2>3, <2>4, Zenon DEF RowsCounted
  <2>6. QED
    BY <2>1, <2>2, <2>5, OneCounts, Zenon
<1>12. ASSUME NEW w \in Writers, CommitFails(w) PROVE TileInv'
  <2>1. ~stale[w]
    BY <1>0, <1>12, Zenon DEF CommitFails, RowsCounted, Busy
  <2>2. QED
    BY <1>12, <2>1, GoesOn, Zenon DEF CommitFails, StoreDelta, Away
<1>13. ASSUME NEW w \in Writers, CommitUnknown(w) PROVE TileInv'
  <2>1. /\ pc[w] = "holds" /\ GoTo(w, "idle") /\ UNCHANGED <<log, root, nextDelta, open>>
        /\ stale' = [stale EXCEPT ![w] = TRUE] /\ cursor' = [cursor EXCEPT ![w] = 0]
    BY <1>13, Zenon DEF CommitUnknown, Return, ForgetStep
  <2>2. stale'[w] /\ \A v \in Writers \ {w} : stale'[v] = stale[v] /\ cursor'[v] = cursor[v]
    BY <2>1, Zenon
  <2>3. QED
    BY <2>1, <2>2, GoesOn, Zenon DEF Away, Busy
<1>14. ASSUME NEW w \in Writers, PublishHead(w) PROVE TileInv'
  <2>1. ~stale[w] /\ UNCHANGED <<log, viewVars>> /\ pc[w] = "publish"
    BY <1>0, <1>14, Zenon DEF PublishHead, RowsCounted, Busy
  <2>2. \/ GoTo(w, "seal") /\ UNCHANGED cursor
        \/ GoTo(w, "idle") /\ cursor' = [cursor EXCEPT ![w] = 0]
    BY <1>14, Zenon DEF PublishHead, Return, ForgetStep
  <2>3. QED
    BY <2>1, <2>2, GoesOn, Zenon DEF Away
<1>15. ASSUME NEW w \in Writers, Seal(w) PROVE TileInv'
  <2>1. ~stale[w]
    BY <1>15, SwitchesAssumption, Zenon DEF Seal
  <2>2. QED
    BY <1>15, <2>1, GoesOn, Zenon DEF Seal, Away
<1>16. ASSUME NEW w \in Writers, WriteSealed(w) PROVE TileInv'
  <2>1. ~stale[w]
    BY <1>0, <1>16, Zenon DEF WriteSealed, RowsCounted, Busy
  <2>2. QED
    BY <1>16, <2>1, GoesOn, Zenon DEF WriteSealed, Away
<1>17. ASSUME NEW w \in Writers, SealFailed(w), pc[w] \in {"seal", "swap"}
       PROVE  /\ GoTo(w, "idle") /\ UNCHANGED <<root, nextDelta, open>>
              /\ \A v \in Writers \ {w} : stale'[v] = stale[v] /\ cursor'[v] = cursor[v]
              /\ ~stale[w]
  BY <1>0, <1>17, Zenon DEF SealFailed, Return, ForgetStep, RowsCounted, Busy
<1>18. ASSUME NEW w \in Writers, SealFailed(w), pc[w] \in {"seal", "swap"}, UNCHANGED log
       PROVE  TileInv'
  BY <1>17, <1>18, GoesOn, Zenon DEF Away, Busy
<1>19. ASSUME NEW w \in Writers, WriteSealedFails(w) PROVE TileInv'
  BY <1>18, <1>19, Zenon DEF WriteSealedFails
<1>20. ASSUME NEW w \in Writers, SwapLogRoot(w) PROVE TileInv'
  <2>1. /\ Others(w) /\ pc[w] = "swap" /\ pc'[w] = "reclaim" /\ root'[w] = log'
        /\ open'[w] = <<>> /\ nextDelta'[w] = nextDelta[w] /\ log' = NextLogRoot(w)
    BY <1>20, Zenon DEF SwapLogRoot, GoTo, Others
  <2>2. log'.openFrom = nextDelta[w]
    BY <2>1 DEF NextLogRoot
  <2>3. nextDelta'[w] = root'[w].openFrom + Len(open'[w])
    BY <2>1, <2>2, Counts, NoneYet, Zenon
  <2>4. RowsCounted(w)'
    BY <2>1, <2>3, Zenon DEF RowsCounted, Busy
  <2>5. QED
    BY <1>20, <2>1, <2>4, SwapCounts, Zenon DEF SwapLogRoot
<1>21. ASSUME NEW w \in Writers, SwapLogRootFails(w) PROVE TileInv'
  <2>1. CASE UNCHANGED log
    BY <1>18, <1>21, <2>1, Zenon DEF SwapLogRootFails
  <2>2. CASE log' = NextLogRoot(w) /\ root[w].ver = log.ver
    <3>1. pc[w] = "swap" /\ SealFailed(w)
      BY <1>21, Zenon DEF SwapLogRootFails
    <3>2. Others(w) /\ pc'[w] = "idle" /\ ~stale[w] /\ UNCHANGED <<root, nextDelta, open>>
      BY <1>17, <3>1, Zenon DEF GoTo, Others
    <3>3. nextDelta[w] = root[w].openFrom + Len(open[w])
      BY <1>0, <3>1, <3>2, Zenon DEF RowsCounted, Away
    <3>4. RowsCounted(w)'
      BY <3>2, <3>3, Zenon DEF RowsCounted, Busy
    <3>5. QED
      BY <2>2, <3>1, <3>2, <3>4, SwapCounts, Zenon
  <2>3. QED
    BY <1>21, <2>1, <2>2, Zenon DEF SwapLogRootFails
<1>22. ASSUME NEW w \in Writers, Reclaimed(w) PROVE TileInv'
  BY <1>22, GoesOn, Zenon DEF Reclaimed, Return, ForgetStep, Away, Busy
<1>25. ASSUME NEW w \in Writers, Reclaim(w) PROVE TileInv'
  <2>1. /\ pc[w] = "reclaim" /\ UNCHANGED <<log, root, nextDelta, open, stale, pc>>
        /\ cursor' = [cursor EXCEPT ![w] = cursor[w] + 1]
    BY <1>25, Zenon DEF Reclaim
  <2>2. Others(w)
    BY <2>1, Zenon DEF Others
  <2>3. RowsCounted(w)'
    BY <1>0, <2>1, Zenon DEF RowsCounted
  <2>4. QED
    BY <2>1, <2>2, <2>3, OneCounts, Zenon
<1>23. CASE LoseHead
  BY <1>3, <1>23, Zenon DEF LoseHead
<1>24. CASE UNCHANGED vars
  BY <1>3, <1>24, Zenon DEF vars
<1> QED
  BY <1>1, <1>2, <1>4, <1>5, <1>6, <1>7, <1>8, <1>9, <1>10, <1>11, <1>12, <1>13, <1>14,
     <1>15, <1>16, <1>19, <1>20, <1>21, <1>22, <1>23, <1>24, <1>25,
     ZenonT(30) DEF Next, Request, Begin

(* The sealed runs tile the deltas below OpenFrom although any number of   *)
(* writers seal the same epoch: updateLogRoot swaps only the version the   *)
(* writer read, and what it adds starts where that one ended.  Seal must   *)
(* not be called on a stale writer, whose open rows need not match its     *)
(* next delta.                                                             *)
THEOREM SealsTile == ASSUME SealCalls # "always" PROVE Spec => []RefsTile
<1>1. Init => TileInv
  BY EmptyFacts DEF Init, TileInv, RefsTile, RootBehind, RowsCounted, Away, Busy, NewLogRoot
<1>2. TileInv => RefsTile
  BY Zenon DEF TileInv
<1>3. QED
  BY <1>1, <1>2, InitTypeInv, NextTypeInv, NextTiles, PTL DEF Spec

================================================================================
