------------------------------- MODULE EpochLog -------------------------------
(***************************************************************************)
(* One epoch of a track: the objects the ledger keeps for it in the store, *)
(* and the writers that append to it (ledger/writer.go, Track.Writer).     *)
(*                                                                         *)
(* Every action is at most one store request, so a crash, a failing store  *)
(* or another writer fits between any two of them.  A writer's mutex is    *)
(* its program counter: every operation of ledger.Writer holds w.mu from   *)
(* its first request to its last, except Append, which picks a sequence    *)
(* under the lock and calls AppendGroup in a second critical section       *)
(* (variable call).                                                        *)
(***************************************************************************)
EXTENDS Integers, Sequences

CONSTANTS
    Writers,             \* the processes that may open the epoch for writing
    MaxDelta,            \* bound: delta numbers are 0..MaxDelta
    MaxSequence,         \* bound: group sequences are 0..MaxSequence
    Anchors,             \* media times an explicit AppendGroup call may carry
    Durations,           \* durations a caller may pass
    SealThreshold,       \* open deltas that trigger a seal (bytes in the code)
    MaxSkippedSequences, \* writer.go:232
    StoreFails,          \* may a store request fail, its effect taken or not?
    Exclusive,           \* is a writer opened only when no other one is live?
    SealCalls,           \* do callers call Seal: "never", "fresh" (not on a stale
                         \* writer) or "always"?
    None

Deltas == 0 .. MaxDelta
GroupSequences == 0 .. MaxSequence

(* A manifest row, reduced to its identity and its extent in media time. *)
Row == [seq : GroupSequences, start : Nat, end : Nat]

(* A sealedRef.  Of its summary only what a writer reads back is kept. *)
Ref == [key : Deltas \X Deltas, first : Deltas, last : Deltas,
        lastSeq : GroupSequences, mediaEnd : Nat]

(* An epochLogRoot with the version the store holds it under. *)
LogRoot == [sealed : Seq(Ref), openFrom : 0 .. MaxDelta + 1, ver : Nat]

(* The sequence and anchor an Append has picked and not yet used. *)
Pick == [seq : GroupSequences, start : Nat]
Call == [floor : 0 .. MaxSequence + 1, attempt : 0 .. MaxSkippedSequences,
         pick : Pick \cup {None}]

ASSUME BoundsAssumption ==
    /\ MaxDelta \in Nat
    /\ MaxSequence \in Nat
    /\ MaxSkippedSequences \in Nat
    /\ SealThreshold \in Nat \ {0}

ASSUME InputsAssumption ==
    /\ Anchors \subseteq Nat
    /\ Durations \subseteq Nat

ASSUME SwitchesAssumption ==
    /\ StoreFails \in BOOLEAN
    /\ Exclusive \in BOOLEAN
    /\ SealCalls \in {"never", "fresh", "always"}

ASSUME NoneAssumption ==
    /\ None \notin Row
    /\ None \notin Pick

VARIABLES
    \* the store
    payload,    \* sequences whose group object exists
    delta,      \* delta[n]: the row of delta manifest n, None when absent
    sealed,     \* sealed[<<f, l>>]: the rows of that sealed manifest, <<>> absent
    log,        \* the epoch's log root
    head,       \* the delta the head object names, NoHead when absent
    \* what a writer believes (fields of ledger.Writer)
    root, nextDelta, open, last, stale,
    \* where a writer is inside an operation
    pc,         \* the next request, "idle" outside operations, "down" without process
    meta,       \* the row being appended
    cursor,     \* the delta a loop over deltas is at
    upTo,       \* recover: the delta head vouches for; reclaim: the last one to delete
    auto,       \* is the seal in progress part of an AppendGroup?
    call,       \* the Append between its two critical sections
    \* history
    commits,    \* commits[n]: the row first stored as delta n
    acked       \* rows whose commit a writer has confirmed to its caller

storeVars == <<payload, delta, sealed, log, head>>
viewVars == <<root, nextDelta, open, last, stale>>
stepVars == <<meta, cursor, upTo, auto>>
histVars == <<commits, acked>>
vars == <<storeVars, viewVars, stepVars, pc, call, histVars>>

NoHead == -1
NoCall == [floor |-> 0, attempt |-> 0, pick |-> None]
NewLogRoot == [sealed |-> <<>>, openFrom |-> 0, ver |-> 1]
SomeRow == [seq |-> 0, start |-> 0, end |-> 0]

Steps == {"head", "probe", "commit", "holds", "publish", "seal", "swap", "reclaim"}

Init ==
    /\ payload = {}
    /\ delta = [n \in Deltas |-> None]
    /\ sealed = [key \in Deltas \X Deltas |-> <<>>]
    /\ log = NewLogRoot
    /\ head = NoHead
    /\ root = [w \in Writers |-> NewLogRoot]
    /\ nextDelta = [w \in Writers |-> 0]
    /\ open = [w \in Writers |-> <<>>]
    /\ last = [w \in Writers |-> None]
    /\ stale = [w \in Writers |-> FALSE]
    /\ pc = [w \in Writers |-> "down"]
    /\ meta = [w \in Writers |-> SomeRow]
    /\ cursor = [w \in Writers |-> 0]
    /\ upTo = [w \in Writers |-> 0]
    /\ auto = [w \in Writers |-> FALSE]
    /\ call = [w \in Writers |-> NoCall]
    /\ commits = [n \in Deltas |-> None]
    /\ acked = {}

DeltaAt(n) == IF n \in Deltas THEN delta[n] ELSE None

GoTo(w, step) == pc' = [pc EXCEPT ![w] = step]

(* The local variables of an operation go with it. *)
ForgetStep(w) ==
    /\ meta' = [meta EXCEPT ![w] = SomeRow]
    /\ cursor' = [cursor EXCEPT ![w] = 0]
    /\ upTo' = [upTo EXCEPT ![w] = 0]
    /\ auto' = [auto EXCEPT ![w] = FALSE]

Return(w) == GoTo(w, "idle") /\ ForgetStep(w)

-----------------------------------------------------------------------------
(* Opening a writer, reloading a stale one, and crashing. *)

(* A process that ends takes its Writer with it.  The values the variables *)
(* are reset to are those of the zero ledger.Writer newWriter builds.      *)
Discard(w) ==
    /\ GoTo(w, "down")
    /\ nextDelta' = [nextDelta EXCEPT ![w] = 0]
    /\ open' = [open EXCEPT ![w] = <<>>]
    /\ last' = [last EXCEPT ![w] = None]
    /\ stale' = [stale EXCEPT ![w] = FALSE]
    /\ ForgetStep(w)
    /\ call' = [call EXCEPT ![w] = NoCall]
    /\ root' = [root EXCEPT ![w] = NewLogRoot]

Crash(w) ==
    /\ pc[w] # "down"
    /\ Discard(w)
    /\ UNCHANGED <<storeVars, histVars>>

(* Track.Writer reads the log root, then recovers. *)
OpenWriter(w) ==
    /\ pc[w] = "down"
    /\ Exclusive => \A v \in Writers : pc[v] = "down"
    /\ root' = [root EXCEPT ![w] = log]
    /\ GoTo(w, "head")
    /\ UNCHANGED <<storeVars, nextDelta, open, last, stale, stepVars, call, histVars>>

(* reloadIfStale, on behalf of any append, forgets what the writer believed. *)
Reload(w) ==
    /\ pc[w] = "idle"
    /\ stale[w]
    /\ root' = [root EXCEPT ![w] = log]
    /\ open' = [open EXCEPT ![w] = <<>>]
    /\ last' = [last EXCEPT ![w] = None]
    /\ GoTo(w, "head")
    /\ UNCHANGED <<storeVars, nextDelta, stale, stepVars, call, histVars>>

(* The log root cannot be read: the append that asked fails, nothing else. *)
ReloadFails(w) ==
    /\ StoreFails
    /\ pc[w] = "idle"
    /\ stale[w]
    /\ call' = [call EXCEPT ![w] = NoCall]
    /\ UNCHANGED <<storeVars, viewVars, stepVars, pc, histVars>>

(* Mutant: head is taken below OpenFrom too. *)
ReadHeadUnclamped(w) ==
    /\ pc[w] = "head"
    /\ upTo' = [upTo EXCEPT ![w] = head]
    /\ cursor' = [cursor EXCEPT ![w] = root[w].openFrom]
    /\ GoTo(w, "probe")
    /\ UNCHANGED <<storeVars, viewVars, meta, auto, call, histVars>>

(* Mutant: the probe starts at the first delta ever, not at OpenFrom. *)
ReadHeadFromZero(w) ==
    /\ pc[w] = "head"
    /\ upTo' = [upTo EXCEPT ![w] = IF head >= root[w].openFrom
                                   THEN head ELSE root[w].openFrom]
    /\ cursor' = [cursor EXCEPT ![w] = 0]
    /\ GoTo(w, "probe")
    /\ UNCHANGED <<storeVars, viewVars, meta, auto, call, histVars>>

(* recover takes head as a hint to skip ahead, never to stop early. *)
ReadHead(w) ==
    /\ pc[w] = "head"
    /\ upTo' = [upTo EXCEPT ![w] = IF head >= root[w].openFrom
                                   THEN head ELSE root[w].openFrom]
    /\ cursor' = [cursor EXCEPT ![w] = root[w].openFrom]
    /\ GoTo(w, "probe")
    /\ UNCHANGED <<storeVars, viewVars, meta, auto, call, histVars>>

ProbeDelta(w) ==
    /\ pc[w] = "probe"
    /\ DeltaAt(cursor[w]) # None
    /\ open' = [open EXCEPT ![w] = Append(@, delta[cursor[w]])]
    /\ last' = [last EXCEPT ![w] = delta[cursor[w]]]
    /\ cursor' = [cursor EXCEPT ![w] = @ + 1]
    /\ UNCHANGED <<storeVars, root, nextDelta, stale, pc, meta, upTo, auto, call,
                   histVars>>

(* The newest sealed run stands in for the last group: its ID and media end. *)
SealedLast(refs) ==
    LET newest == refs[Len(refs)]
    IN  [seq |-> newest.lastSeq, start |-> newest.mediaEnd, end |-> newest.mediaEnd]

(* Mutant: the newest sealed run is not consulted for the last group. *)
RecoveredWithoutSealed(w) ==
    /\ pc[w] = "probe"
    /\ DeltaAt(cursor[w]) = None
    /\ cursor[w] >= upTo[w]
    /\ nextDelta' = [nextDelta EXCEPT ![w] = cursor[w]]
    /\ stale' = [stale EXCEPT ![w] = FALSE]
    /\ Return(w)
    /\ UNCHANGED <<storeVars, root, open, last, call, histVars>>

(* The first absent delta is the tip. *)
Recovered(w) ==
    /\ pc[w] = "probe"
    /\ DeltaAt(cursor[w]) = None
    /\ cursor[w] >= upTo[w]
    /\ nextDelta' = [nextDelta EXCEPT ![w] = cursor[w]]
    /\ last' = [last EXCEPT ![w] = IF @ = None /\ root[w].sealed # <<>>
                                   THEN SealedLast(root[w].sealed) ELSE @]
    /\ stale' = [stale EXCEPT ![w] = FALSE]
    /\ Return(w)
    /\ UNCHANGED <<storeVars, root, open, call, histVars>>

(* Is there a gap below the delta the head names? *)
MissingBelowHead(w) ==
    /\ pc[w] = "probe"
    /\ DeltaAt(cursor[w]) = None
    /\ cursor[w] < upTo[w]

(* A recovery that meets a gap, or whose read fails, is given up.  An open *)
(* fails; a stale writer stays stale, with what it has read so far, and    *)
(* the append that asked for the reload may be the pending Append.         *)
RecoverFails(w) ==
    /\ pc[w] \in {"head", "probe"}
    /\ StoreFails \/ MissingBelowHead(w)
    /\ \/ /\ ~stale[w]
          /\ Discard(w)
       \/ /\ stale[w]
          /\ Return(w)
          /\ \E c \in {call[w], NoCall} : call' = [call EXCEPT ![w] = c]
          /\ UNCHANGED viewVars
    /\ UNCHANGED <<storeVars, histVars>>

-----------------------------------------------------------------------------
(* Append and AppendGroup. *)

LastSequence(w) == IF last[w] = None THEN -1 ELSE last[w].seq
LastEnd(w) == IF last[w] = None THEN 0 ELSE last[w].end

(* Append: the first critical section. *)
PickSequence(w) ==
    LET after == LastSequence(w) + 1
        seq == IF after >= call[w].floor THEN after ELSE call[w].floor
    IN  /\ pc[w] = "idle"
        /\ ~stale[w]
        /\ call[w].pick = None
        /\ seq \in GroupSequences
        /\ call' = [call EXCEPT ![w].pick = [seq |-> seq, start |-> LastEnd(w)]]
        /\ UNCHANGED <<storeVars, viewVars, stepVars, pc, histVars>>

(* The duplicate check and checkOrder. *)
InOrder(w, seq, start) ==
    last[w] # None => seq # last[w].seq /\ start >= last[w].end

Appendable(w, seq, start) ==
    /\ pc[w] = "idle"
    /\ ~stale[w]
    /\ nextDelta[w] \in Deltas
    /\ InOrder(w, seq, start)

(* Mutant: an error of the payload create is ignored. *)
GroupStoredOrNot(w, seq, start, dur, c) ==
    /\ Appendable(w, seq, start)
    /\ seq \notin payload
    /\ payload' \in {payload, payload \cup {seq}}
    /\ meta' = [meta EXCEPT ![w] = [seq |-> seq, start |-> start, end |-> start + dur]]
    /\ call' = [call EXCEPT ![w] = c]
    /\ GoTo(w, "commit")
    /\ UNCHANGED <<delta, sealed, log, head, viewVars, cursor, upTo, auto, histVars>>

(* The group object is stored; from here only its delta is missing. *)
GroupStored(w, seq, start, dur, c) ==
    /\ Appendable(w, seq, start)
    /\ seq \notin payload
    /\ payload' = payload \cup {seq}
    /\ meta' = [meta EXCEPT ![w] = [seq |-> seq, start |-> start, end |-> start + dur]]
    /\ call' = [call EXCEPT ![w] = c]
    /\ GoTo(w, "commit")
    /\ UNCHANGED <<delta, sealed, log, head, viewVars, cursor, upTo, auto, histVars>>

(* The sequence is taken: the next append learns from the store by whom. *)
GroupExists(w, seq, start, c) ==
    /\ Appendable(w, seq, start)
    /\ seq \in payload
    /\ stale' = [stale EXCEPT ![w] = TRUE]
    /\ call' = [call EXCEPT ![w] = c]
    /\ UNCHANGED <<storeVars, root, nextDelta, open, last, stepVars, pc, histVars>>

(* The store fails to answer, the group object stored or not. *)
GroupFails(w, seq, start, c) ==
    /\ StoreFails
    /\ Appendable(w, seq, start)
    /\ \E taken \in {payload, payload \cup {seq}} : payload' = taken
    /\ call' = [call EXCEPT ![w] = c]
    /\ UNCHANGED <<delta, sealed, log, head, viewVars, stepVars, pc, histVars>>

(* AppendGroup called with a sequence and an anchor of the caller's own. *)
AppendGroup(w) ==
    \E seq \in GroupSequences, start \in Anchors, dur \in Durations :
        \/ GroupStored(w, seq, start, dur, call[w])
        \/ GroupExists(w, seq, start, call[w])

AppendGroupFails(w) ==
    \E seq \in GroupSequences, start \in Anchors : GroupFails(w, seq, start, call[w])

(* Mutant: the floor is not raised past the sequence found taken. *)
AfterCollisionSameFloor(c) ==
    IF c.attempt = MaxSkippedSequences
    THEN NoCall
    ELSE [floor |-> c.floor, attempt |-> c.attempt + 1, pick |-> None]

(* What Append does about a collision: step past it, a bounded number of times. *)
AfterCollision(c) ==
    IF c.attempt = MaxSkippedSequences
    THEN NoCall
    ELSE [floor |-> c.pick.seq + 1, attempt |-> c.attempt + 1, pick |-> None]

(* Append: AppendGroup with the sequence and the anchor it picked. *)
AppendPicked(w) ==
    /\ call[w].pick # None
    /\ \E dur \in Durations :
        \/ GroupStored(w, call[w].pick.seq, call[w].pick.start, dur, NoCall)
        \/ GroupExists(w, call[w].pick.seq, call[w].pick.start, AfterCollision(call[w]))

AppendPickedFails(w) ==
    /\ call[w].pick # None
    /\ GroupFails(w, call[w].pick.seq, call[w].pick.start, NoCall)

(* What it picked is out of order by now: the Append returns the error. *)
PickRefused(w) ==
    /\ pc[w] = "idle"
    /\ ~stale[w]
    /\ call[w].pick # None
    /\ ~InOrder(w, call[w].pick.seq, call[w].pick.start)
    /\ call' = [call EXCEPT ![w] = NoCall]
    /\ UNCHANGED <<storeVars, viewVars, stepVars, pc, histVars>>

(* The commit is known to have been taken. *)
Confirm(w) ==
    /\ nextDelta' = [nextDelta EXCEPT ![w] = @ + 1]
    /\ open' = [open EXCEPT ![w] = Append(@, meta[w])]
    /\ last' = [last EXCEPT ![w] = meta[w]]
    /\ acked' = acked \cup {meta[w]}
    /\ GoTo(w, "publish")
    /\ UNCHANGED <<root, stale, stepVars, call>>

StoreDelta(w) ==
    /\ delta' = [delta EXCEPT ![nextDelta[w]] = meta[w]]
    /\ commits' = [commits EXCEPT ![nextDelta[w]] = IF @ = None THEN meta[w] ELSE @]
    /\ UNCHANGED <<payload, sealed, log, head>>

(* The create of the delta is the commit point. *)
CommitDelta(w) ==
    /\ pc[w] = "commit"
    /\ delta[nextDelta[w]] = None
    /\ StoreDelta(w)
    /\ Confirm(w)

(* The create answers ErrExist, or fails, the delta stored or not. *)
CommitFails(w) ==
    /\ pc[w] = "commit"
    /\ \/ /\ delta[nextDelta[w]] # None \/ StoreFails
          /\ UNCHANGED <<storeVars, commits>>
       \/ /\ delta[nextDelta[w]] = None
          /\ StoreFails
          /\ StoreDelta(w)
    /\ GoTo(w, "holds")
    /\ UNCHANGED <<viewVars, stepVars, call, acked>>

(* Mutant: any delta under the number is taken for this commit. *)
HoldsAnyCommit(w) ==
    /\ pc[w] = "holds"
    /\ delta[nextDelta[w]] # None
    /\ Confirm(w)
    /\ UNCHANGED <<storeVars, commits>>

(* Reading the delta back finds this very commit.  Only the append that    *)
(* created a group object writes a row with its sequence, so equal rows    *)
(* are the same commit, as equal commit times are in the code.             *)
HoldsCommit(w) ==
    /\ pc[w] = "holds"
    /\ delta[nextDelta[w]] = meta[w]
    /\ Confirm(w)
    /\ UNCHANGED <<storeVars, commits>>

(* Mutant: the writer is not marked stale. *)
CommitUnknownNotStale(w) ==
    /\ pc[w] = "holds"
    /\ delta[nextDelta[w]] # meta[w] \/ StoreFails
    /\ Return(w)
    /\ UNCHANGED <<storeVars, viewVars, call, histVars>>

(* It does not, or cannot be read: the outcome stays unknown. *)
CommitUnknown(w) ==
    /\ pc[w] = "holds"
    /\ delta[nextDelta[w]] # meta[w] \/ StoreFails
    /\ stale' = [stale EXCEPT ![w] = TRUE]
    /\ Return(w)
    /\ UNCHANGED <<storeVars, root, nextDelta, open, last, call, histVars>>

(* publishHead retries once against the version it then reads and drops    *)
(* every failure, so head ends up published or as it was; the version it   *)
(* first tried only decides between one request and three.                 *)
PublishHead(w) ==
    /\ pc[w] = "publish"
    /\ \/ head' = nextDelta[w] - 1
       \/ /\ StoreFails \/ ~Exclusive
          /\ UNCHANGED head
    /\ IF Len(open[w]) >= SealThreshold
       THEN /\ GoTo(w, "seal")
            /\ auto' = [auto EXCEPT ![w] = TRUE]
            /\ UNCHANGED <<meta, cursor, upTo>>
       ELSE Return(w)
    /\ UNCHANGED <<payload, delta, sealed, log, viewVars, call, histVars>>

(* The head object may be lost; nothing recreates it until the next commit. *)
LoseHead ==
    /\ StoreFails
    /\ head # NoHead
    /\ head' = NoHead
    /\ UNCHANGED <<payload, delta, sealed, log, viewVars, stepVars, pc, call, histVars>>

-----------------------------------------------------------------------------
(* Sealing. *)

(* Seal.  With nextDelta = 0 its lastDelta wraps around; that is left out. *)
Seal(w) ==
    /\ pc[w] = "idle"
    /\ SealCalls # "never"
    /\ SealCalls = "fresh" => ~stale[w]
    /\ open[w] # <<>>
    /\ nextDelta[w] > 0
    /\ auto' = [auto EXCEPT ![w] = FALSE]
    /\ GoTo(w, "seal")
    /\ UNCHANGED <<storeVars, viewVars, meta, cursor, upTo, call, histVars>>

(* Mutant: the key names the position of the run, not its range. *)
SealKeyPositional(w) == <<Len(root[w].sealed), Len(root[w].sealed)>>

SealKey(w) == <<root[w].openFrom, nextDelta[w] - 1>>

(* A failed seal makes an append's writer stale; Seal just returns the error. *)
SealFailed(w) ==
    /\ stale' = [stale EXCEPT ![w] = @ \/ auto[w]]
    /\ Return(w)
    /\ UNCHANGED <<root, nextDelta, open, last, call>>

(* ErrExist counts as success: the key names the range of deltas. *)
StoreSealed(w) ==
    sealed' = [sealed EXCEPT ![SealKey(w)] = IF @ = <<>> THEN open[w] ELSE @]

(* Mutant: every error of the create counts as success, not only ErrExist. *)
WriteSealedOrNot(w) ==
    /\ pc[w] = "seal"
    /\ StoreSealed(w) \/ UNCHANGED sealed
    /\ GoTo(w, "swap")
    /\ UNCHANGED <<payload, delta, log, head, viewVars, stepVars, call, histVars>>

WriteSealed(w) ==
    /\ pc[w] = "seal"
    /\ StoreSealed(w)
    /\ GoTo(w, "swap")
    /\ UNCHANGED <<payload, delta, log, head, viewVars, stepVars, call, histVars>>

WriteSealedFails(w) ==
    /\ pc[w] = "seal"
    /\ StoreFails
    /\ StoreSealed(w) \/ UNCHANGED sealed
    /\ SealFailed(w)
    /\ UNCHANGED <<payload, delta, log, head, histVars>>

(* sealedManifest.summarize of the open groups. *)
Summarize(w) ==
    LET newest == open[w][Len(open[w])]
    IN  [key |-> SealKey(w), first |-> root[w].openFrom, last |-> nextDelta[w] - 1,
         lastSeq |-> newest.seq, mediaEnd |-> newest.end]

(* Mutant: OpenFrom stays where it was. *)
NextLogRootSameOpenFrom(w) ==
    [sealed |-> Append(root[w].sealed, Summarize(w)),
     openFrom |-> root[w].openFrom,
     ver |-> log.ver + 1]

NextLogRoot(w) ==
    [sealed |-> Append(root[w].sealed, Summarize(w)),
     openFrom |-> nextDelta[w],
     ver |-> log.ver + 1]

(* updateLogRoot is a compare-and-swap on the version the writer last saw. *)
SwapLogRoot(w) ==
    /\ pc[w] = "swap"
    /\ root[w].ver = log.ver
    /\ log' = NextLogRoot(w)
    /\ root' = [root EXCEPT ![w] = NextLogRoot(w)]
    /\ open' = [open EXCEPT ![w] = <<>>]
    /\ cursor' = [cursor EXCEPT ![w] = root[w].openFrom]
    /\ upTo' = [upTo EXCEPT ![w] = nextDelta[w] - 1]
    /\ GoTo(w, "reclaim")
    /\ UNCHANGED <<payload, delta, sealed, head, nextDelta, last, stale, meta, auto,
                   call, histVars>>

(* The swap is refused, or fails, the log root swapped or not. *)
SwapLogRootFails(w) ==
    /\ pc[w] = "swap"
    /\ \/ /\ root[w].ver # log.ver \/ StoreFails
          /\ UNCHANGED log
       \/ /\ root[w].ver = log.ver
          /\ StoreFails
          /\ log' = NextLogRoot(w)
    /\ SealFailed(w)
    /\ UNCHANGED <<payload, delta, sealed, head, histVars>>

(* Mutant: the loop deletes the first delta over and over. *)
ReclaimStuck(w) ==
    /\ pc[w] = "reclaim"
    /\ cursor[w] <= upTo[w]
    /\ delta' = [delta EXCEPT ![cursor[w]] = None]
    /\ UNCHANGED <<payload, sealed, log, head, viewVars, stepVars, pc, call, histVars>>

(* The superseded deltas are deleted one by one, best-effort. *)
Reclaim(w) ==
    /\ pc[w] = "reclaim"
    /\ cursor[w] <= upTo[w]
    /\ \/ delta' = [delta EXCEPT ![cursor[w]] = None]
       \/ /\ StoreFails
          /\ UNCHANGED delta
    /\ cursor' = [cursor EXCEPT ![w] = @ + 1]
    /\ UNCHANGED <<payload, sealed, log, head, viewVars, meta, upTo, auto, pc, call,
                   histVars>>

Reclaimed(w) ==
    /\ pc[w] = "reclaim"
    /\ cursor[w] > upTo[w]
    /\ Return(w)
    /\ UNCHANGED <<storeVars, viewVars, call, histVars>>

-----------------------------------------------------------------------------
(* A request an operation in progress makes. *)
Request(w) ==
    \/ ReadHead(w) \/ ProbeDelta(w) \/ Recovered(w) \/ RecoverFails(w)
    \/ CommitDelta(w) \/ CommitFails(w) \/ HoldsCommit(w) \/ CommitUnknown(w)
    \/ PublishHead(w)
    \/ WriteSealed(w) \/ WriteSealedFails(w)
    \/ SwapLogRoot(w) \/ SwapLogRootFails(w)
    \/ Reclaim(w) \/ Reclaimed(w)

(* A call a caller makes, or a process that starts or dies. *)
Begin(w) ==
    \/ OpenWriter(w) \/ Reload(w) \/ ReloadFails(w) \/ Crash(w)
    \/ PickSequence(w) \/ AppendPicked(w) \/ AppendPickedFails(w) \/ PickRefused(w)
    \/ AppendGroup(w) \/ AppendGroupFails(w)
    \/ Seal(w)

Next ==
    \/ \E w \in Writers : Request(w) \/ Begin(w)
    \/ LoseHead

Spec == Init /\ [][Next]_vars

-----------------------------------------------------------------------------
(* What a reader finds.  A delta number below the open region is served    *)
(* from the first sealed run that covers it (sealedCovering); the open     *)
(* region is read upwards until a delta is absent.                         *)
Covers(ref, n) == ref.first <= n /\ n <= ref.last

SealedCovering(n) ==
    CHOOSE i \in DOMAIN log.sealed :
        /\ Covers(log.sealed[i], n)
        /\ \A j \in 1 .. i - 1 : ~Covers(log.sealed[j], n)

ReadSealed(n) ==
    LET ref == log.sealed[SealedCovering(n)]
        rows == sealed[ref.key]
        at == n - ref.first + 1
    IN  IF at \in DOMAIN rows THEN rows[at] ELSE None

ReadAt(n) ==
    IF n < log.openFrom
    THEN IF \E i \in DOMAIN log.sealed : Covers(log.sealed[i], n)
         THEN ReadSealed(n) ELSE None
    ELSE IF \A m \in log.openFrom .. n : delta[m] # None THEN delta[n] ELSE None

ReadLog == [n \in Deltas |-> ReadAt(n)]

-----------------------------------------------------------------------------
(* Properties. *)

(* Every variable stays in its type: the fields of ledger.Writer, the      *)
(* objects of the epoch and the position inside an operation.              *)
TypeOK ==
    /\ payload \in SUBSET GroupSequences
    /\ delta \in [Deltas -> Row \cup {None}]
    /\ sealed \in [Deltas \X Deltas -> Seq(Row)]
    /\ log \in LogRoot
    /\ head \in Deltas \cup {NoHead}
    /\ root \in [Writers -> LogRoot]
    /\ nextDelta \in [Writers -> 0 .. MaxDelta + 1]
    /\ open \in [Writers -> Seq(Row)]
    /\ last \in [Writers -> Row \cup {None}]
    /\ stale \in [Writers -> BOOLEAN]
    /\ pc \in [Writers -> Steps \cup {"idle", "down"}]
    /\ meta \in [Writers -> Row]
    /\ cursor \in [Writers -> 0 .. MaxDelta + 1]
    /\ upTo \in [Writers -> 0 .. MaxDelta + 1]
    /\ auto \in [Writers -> BOOLEAN]
    /\ call \in [Writers -> Call]
    /\ commits \in [Deltas -> Row \cup {None}]
    /\ acked \in SUBSET Row

(* A group whose append was confirmed to its caller is found by reading    *)
(* the store, through every seal, reclaim, crash, reload and lost answer   *)
(* (AppendGroup, seal, recover).                                           *)
AckedReadable == \A row \in acked : \E n \in Deltas : ReadAt(n) = row

(* Until the first seal any number of live writers may share the epoch:    *)
(* the conditional create of the delta, and holdsCommit after it, confirm  *)
(* no append whose group is not there to be read.                          *)
FencedUntilSealed == log.sealed = <<>> => AckedReadable

(* The sealed runs of the log root tile the deltas below OpenFrom: none is *)
(* covered twice and none is skipped, so no committed group falls between  *)
(* two runs (seal, updateLogRoot).                                         *)
RefsTile ==
    LET refs == log.sealed
    IN  /\ \A i \in DOMAIN refs :
            /\ refs[i].first = IF i = 1 THEN 0 ELSE refs[i - 1].last + 1
            /\ refs[i].first <= refs[i].last
        /\ log.openFrom = IF refs = <<>> THEN 0 ELSE refs[Len(refs)].last + 1

(* A sealed run the log root points at is stored, holds one row per delta  *)
(* of its range, and ends with the group its summary names: ignoring       *)
(* ErrExist in seal never publishes a summary of other groups.             *)
RefsDescribeManifests ==
    \A i \in DOMAIN log.sealed :
        LET ref == log.sealed[i]
            rows == sealed[ref.key]
        IN  /\ Len(rows) = ref.last - ref.first + 1
            /\ rows[Len(rows)].seq = ref.lastSeq
            /\ rows[Len(rows)].end = ref.mediaEnd

(* A manifest never names a group object that was not stored: whatever     *)
(* crashes, the payload comes before the manifest (AppendGroup).           *)
PayloadFirst ==
    /\ \A n \in Deltas : delta[n] # None => delta[n].seq \in payload
    /\ \A key \in Deltas \X Deltas : \A i \in DOMAIN sealed[key] :
            sealed[key][i].seq \in payload

(* An idle writer that is not stale knows the tip: the delta it will claim *)
(* next was never committed, and every one below it was, whatever head     *)
(* said when it recovered (recover, reloadIfStale).                        *)
TipKnown ==
    \A w \in Writers :
        pc[w] = "idle" /\ ~stale[w] =>
            \A n \in Deltas : commits[n] # None <=> n < nextDelta[w]

(* Recovery never meets the gap it refuses: head names no delta that is    *)
(* not committed, and nothing between OpenFrom and head is missing.        *)
NoGapBelowHead == \A w \in Writers : ~MissingBelowHead(w)

(* The epoch read through the log root, its sealed runs and its deltas is  *)
(* the append-only log of CommitLog: a committed group never moves, goes   *)
(* or comes back under another number, groups are serial in media time,    *)
(* no sequence is committed twice, and only committed groups are           *)
(* confirmed.                                                              *)
Abstract == INSTANCE CommitLog WITH log <- ReadLog, confirmed <- acked

ImplementsCommitLog == Abstract!Spec

===============================================================================
