----------------------------- MODULE TrackTheorems -----------------------------
(* Proofs about the epochs of a track, for any number of processes with    *)
(* handles of any age, of epochs and of deltas, and with requests failing  *)
(* and processes ending anywhere.                                          *)
EXTENDS Track, TLAPS

TrackTypes ==
    /\ root \in 0 .. MaxEpoch
    /\ DOMAIN logs = Epochs
    /\ cached \in [Processes -> 0 .. MaxEpoch]
    /\ DOMAIN writer = Processes
    /\ op \in [Processes -> {"none", "create", "writer", "epoch"}]
    /\ want \in [Processes -> 0 .. MaxEpoch]
    /\ pc \in [Processes -> {"idle", "log", "root", "refetch", "fetch"}]

(* The log roots there are. *)
LogsOK ==
    /\ \A e \in Epochs : 1 < e /\ e <= root => logs[e] # NoLog
    /\ \A e \in Epochs : logs[e] # NoLog => e <= root + 1

(* A Writer is in an epoch its handle knows of, so that the one it begins  *)
(* is at most one ahead of the handle.                                     *)
WriterOK(p) ==
    writer[p] # NoWriter =>
        /\ "epoch" \in DOMAIN writer[p]
        /\ writer[p].epoch \in Epochs
        /\ writer[p].epoch <= cached[p]
        /\ logs[writer[p].epoch] # NoLog

(* What a call has established by its next request. *)
CallOK(p) ==
    /\ op[p] = "none" <=> pc[p] = "idle"
    /\ op[p] \in {"create", "writer"} =>
            writer[p] = NoWriter /\ want[p] \in Epochs /\ want[p] <= cached[p]
    /\ op[p] = "epoch" =>
            writer[p] # NoWriter /\ want[p] \in Epochs /\ want[p] = writer[p].epoch + 1
    /\ pc[p] \in {"root", "refetch"} => logs[want[p]] # NoLog
    /\ pc[p] = "refetch" => want[p] <= root
    /\ pc[p] = "fetch" => want[p] <= cached[p] /\ op[p] # "create"

HandleOK(p) == cached[p] <= root /\ WriterOK(p) /\ CallOK(p)

TrackInv == TrackTypes /\ LogsOK /\ \A p \in Processes : HandleOK(p)

(* A step never takes an epoch away. *)
Grows == root' >= root /\ \A e \in Epochs : logs[e] # NoLog => logs'[e] # NoLog

(* A step of p leaves the handles of the others alone. *)
Only(p) ==
    \A q \in Processes \ {p} :
        /\ cached'[q] = cached[q] /\ writer'[q] = writer[q]
        /\ op'[q] = op[q] /\ want'[q] = want[q] /\ pc'[q] = pc[q]

(* A log root is something. *)
LEMMA SomeLog ==
  ASSUME NEW s, NEW o, NEW v
  PROVE  [sealed |-> s, openFrom |-> o, version |-> v] # NoLog
<1>1. "version" \in DOMAIN [sealed |-> s, openFrom |-> o, version |-> v]
  OBVIOUS
<1>2. "version" \notin DOMAIN NoLog
  BY DEF NoLog
<1>3. QED
  BY <1>1, <1>2, Zenon

(* The other handles are as good as before. *)
LEMMA OthersOK ==
  ASSUME TrackInv, TrackTypes', Grows, NEW p \in Processes, Only(p), HandleOK(p)', LogsOK'
  PROVE  TrackInv'
<1>1. ASSUME NEW q \in Processes, q # p PROVE HandleOK(q)'
  <2>1. /\ cached'[q] = cached[q] /\ writer'[q] = writer[q]
        /\ op'[q] = op[q] /\ want'[q] = want[q] /\ pc'[q] = pc[q]
    BY <1>1, Zenon DEF Only
  <2>2. HandleOK(q) /\ TrackTypes
    BY Zenon DEF TrackInv
  <2>3. want[q] \in Int /\ cached[q] \in Int /\ root \in Int /\ root' \in Int
    BY <2>2, TrackAssumption DEF TrackTypes
  <2>4. pc[q] \in {"root", "refetch"} => want[q] \in Epochs
    BY <2>2, Zenon DEF HandleOK, CallOK, TrackTypes
  <2>5. WriterOK(q)'
    BY <2>1, <2>2, Zenon DEF HandleOK, WriterOK, Grows
  <2>6. CallOK(q)'
    BY <2>1, <2>2, <2>3, <2>4 DEF HandleOK, CallOK, Grows
  <2>7. QED
    BY <2>1, <2>2, <2>3, <2>5, <2>6 DEF HandleOK, Grows
<1>2. QED
  BY <1>1, Zenon DEF TrackInv

(* What holds of the handle of the process that takes a step. *)
LEMMA Mine ==
  ASSUME TrackInv, NEW p \in Processes
  PROVE  /\ TrackTypes /\ LogsOK /\ cached[p] <= root /\ WriterOK(p) /\ CallOK(p)
         /\ root \in Nat /\ cached[p] \in Nat /\ want[p] \in Nat /\ MaxEpoch \in Nat
         /\ pc[p] # "idle" => want[p] \in Epochs
         /\ \A e \in Epochs : e \in Nat /\ 1 <= e /\ e <= MaxEpoch
<1>1. TrackTypes /\ LogsOK /\ cached[p] <= root /\ WriterOK(p) /\ CallOK(p)
  BY Zenon DEF TrackInv, HandleOK
<1>2. pc[p] # "idle" => want[p] \in Epochs
  BY <1>1, Zenon DEF CallOK, TrackTypes
<1>3. QED
  BY <1>1, <1>2, TrackAssumption DEF TrackTypes, Epochs

(* Where createEpochLog's caller goes on. *)
LEMMA RecordedOK ==
  ASSUME TrackInv, NEW p \in Processes, pc[p] \in {"root", "refetch"}, EpochRecorded(p),
         UNCHANGED <<logs, writer>>, Grows, TrackTypes', LogsOK',
         cached' = [cached EXCEPT ![p] = cached'[p]],
         cached'[p] >= cached[p], cached'[p] >= want[p], cached'[p] <= root'
  PROVE  TrackInv'
<1>1. Only(p)
  BY DEF Only, EpochRecorded, Return, GoTo, Set, TrackInv, TrackTypes
<1>2. WriterOK(p)'
  BY Mine DEF WriterOK, TrackTypes
<1>3. CallOK(p)'
  <2>1. CASE op[p] = "create" /\ Return(p)
    BY <2>1, Mine, Zenon DEF Return, GoTo, Set, CallOK, TrackTypes
  <2>2. CASE op[p] # "create" /\ GoTo(p, "fetch") /\ UNCHANGED <<op, want>>
    BY <2>2, Mine, Zenon DEF GoTo, Set, CallOK, TrackTypes
  <2>3. QED
    BY <2>1, <2>2, Zenon DEF EpochRecorded
<1>4. QED
  BY <1>1, <1>2, <1>3, OthersOK, Zenon DEF HandleOK

(* The track root is created before its first epoch log. *)
LEMMA CreateOK == ASSUME TrackInv, NEW p \in Processes, Create(p) PROVE TrackInv'
<1> USE DEF Create, Set
<1>1. root = 0 /\ root' = 1 /\ logs' = logs /\ writer' = writer /\ pc[p] = "idle"
  BY Zenon DEF Begin
<1>2. Grows
  BY <1>1 DEF Grows
<1>3. LogsOK'
  BY <1>1, Mine DEF LogsOK
<1>4. TrackTypes' /\ Only(p)
  BY <1>1, Mine, TrackAssumption DEF TrackTypes, Only, Begin, GoTo
<1>5. writer[p] = NoWriter
  BY Mine DEF WriterOK
<1>6. 1 \in Epochs
  BY TrackAssumption DEF Epochs
<1>7. HandleOK(p)'
  <2>1. CASE cached' = Set(cached, p, 1) /\ Begin(p, "create", 1, "log")
    BY <1>1, <1>5, <1>6, <2>1, Mine, ZenonT(30)
    DEF HandleOK, WriterOK, CallOK, TrackTypes, Begin, GoTo
  <2>2. CASE UNCHANGED <<cached, op, want, pc>>
    BY <1>1, <1>5, <2>2, Mine DEF HandleOK, WriterOK, CallOK, TrackTypes
  <2>3. QED
    BY <2>1, <2>2, Zenon
<1>8. QED
  BY <1>2, <1>3, <1>4, <1>7, OthersOK, Zenon

(* A handle opened on an existing root caches what the root says. *)
LEMMA OpenOK == ASSUME TrackInv, NEW p \in Processes, Open(p) PROVE TrackInv'
<1>1. /\ pc[p] = "idle" /\ cached' = [cached EXCEPT ![p] = root]
      /\ UNCHANGED <<root, logs, writer, op, want, pc>>
  BY Zenon DEF Open, Set, store
<1>2. TrackTypes' /\ LogsOK' /\ Grows /\ Only(p)
  BY <1>1, Mine DEF TrackTypes, LogsOK, Grows, Only
<1>3. cached'[p] = root
  BY <1>1, Mine, Zenon DEF TrackTypes
<1>4. HandleOK(p)'
  BY <1>1, <1>3, Mine DEF HandleOK, WriterOK, CallOK, TrackTypes
<1>5. QED
  BY <1>2, <1>4, OthersOK, Zenon

(* A call of Writer or NewEpoch starts from the cached epoch. *)
LEMMA BeginOK == ASSUME TrackInv, NEW p \in Processes, Writer(p) \/ NewEpoch(p) PROVE TrackInv'
<1>1. UNCHANGED <<root, logs, cached, writer>> /\ pc[p] = "idle"
  BY Zenon DEF Writer, NewEpoch, Begin, store
<1>2. CASE Writer(p)
  <2>1. cached[p] \in Epochs /\ writer[p] = NoWriter
    BY <1>2, Mine DEF Writer, TrackTypes, Epochs
  <2>2. TrackTypes' /\ LogsOK' /\ Grows /\ Only(p)
    BY <1>1, <1>2, Mine DEF TrackTypes, LogsOK, Grows, Only, Writer, Begin, GoTo, Set
  <2>3. HandleOK(p)'
    BY <1>1, <1>2, <2>1, Mine
    DEF HandleOK, WriterOK, CallOK, TrackTypes, Writer, Begin, GoTo, Set
  <2>4. QED
    BY <2>2, <2>3, OthersOK, Zenon
<1>3. CASE NewEpoch(p)
  <2>1. writer[p] # NoWriter /\ writer[p].epoch + 1 \in Epochs
    BY <1>3, Mine DEF NewEpoch, WriterOK, Epochs
  <2>2. writer[p].epoch + 1 \in 0 .. MaxEpoch
    BY <2>1 DEF Epochs
  <2>3. TrackTypes' /\ LogsOK' /\ Grows /\ Only(p)
    BY <1>1, <1>3, <2>2, Mine DEF TrackTypes, LogsOK, Grows, Only, NewEpoch, Begin, GoTo, Set
  <2>4. HandleOK(p)'
    BY <1>1, <1>3, <2>1, Mine, Zenon
    DEF HandleOK, WriterOK, CallOK, TrackTypes, NewEpoch, Begin, GoTo, Set
  <2>5. QED
    BY <2>3, <2>4, OthersOK, Zenon
<1>4. QED
  BY <1>2, <1>3, Zenon

(* The log root p wants may be created. *)
LEMMA LogCreated ==
  ASSUME TrackInv, NEW p \in Processes, pc[p] = "log",
         logs' = [logs EXCEPT ![want[p]] = IF @ = NoLog THEN NewLog ELSE @], root' = root
  PROVE  LogsOK' /\ Grows /\ DOMAIN logs' = Epochs /\ logs'[want[p]] # NoLog
<1>1. NewLog # NoLog
  BY SomeLog, Zenon DEF NewLog
<1>2. want[p] \in Epochs /\ want[p] <= root + 1
  BY Mine DEF CallOK, WriterOK, TrackTypes
<1>3. /\ DOMAIN logs' = Epochs
      /\ \A e \in Epochs : logs'[e] # NoLog <=> logs[e] # NoLog \/ e = want[p]
  BY <1>1, <1>2, Mine, Zenon DEF TrackTypes
<1>4. QED
  BY <1>2, <1>3, Mine DEF LogsOK, Grows

(* createEpochLog makes the log root, or adopts it. *)
LEMMA CreateEpochLogOK ==
  ASSUME TrackInv, NEW p \in Processes, CreateEpochLog(p) PROVE TrackInv'
<1>1. /\ pc[p] = "log" /\ pc' = [pc EXCEPT ![p] = "root"]
      /\ UNCHANGED <<root, cached, writer, op, want>>
  BY Zenon DEF CreateEpochLog, GoTo, Set
<1>2. LogsOK' /\ Grows /\ DOMAIN logs' = Epochs /\ logs'[want[p]] # NoLog
  BY <1>1, LogCreated, Zenon DEF CreateEpochLog
<1>3. TrackTypes' /\ Only(p)
  BY <1>1, <1>2, Mine, Zenon DEF TrackTypes, Only
<1>4. WriterOK(p)'
  BY <1>1, <1>2, Mine, Zenon DEF WriterOK, Grows
<1>5. CallOK(p)'
  BY <1>1, <1>2, Mine, Zenon DEF CallOK, TrackTypes
<1>6. QED
  BY <1>1, <1>2, <1>3, <1>4, <1>5, Mine, OthersOK, Zenon DEF HandleOK

(* The root is swapped to the epoch p wants. *)
LEMMA RootSwapped ==
  ASSUME TrackInv, NEW p \in Processes, pc[p] = "root", cached[p] < want[p],
         cached[p] = root, root' = want[p], logs' = logs
  PROVE  LogsOK' /\ Grows /\ root' \in 0 .. MaxEpoch
<1>1. want[p] \in Epochs /\ logs[want[p]] # NoLog
  BY Mine, Zenon DEF CallOK
<1>2. want[p] = root + 1
  BY <1>1, Mine DEF LogsOK
<1>3. QED
  BY <1>1, <1>2, Mine DEF LogsOK, Grows, TrackTypes

(* advanceTrackRoot: in the root already, swapped in, or refused. *)
LEMMA AdvanceTrackRootOK ==
  ASSUME TrackInv, NEW p \in Processes, AdvanceTrackRoot(p) PROVE TrackInv'
<1>1. pc[p] = "root" /\ UNCHANGED <<logs, writer>>
  BY Zenon DEF AdvanceTrackRoot
<1>2. CASE cached[p] >= want[p] /\ EpochRecorded(p) /\ UNCHANGED <<root, cached>>
  <2>1. TrackTypes' /\ LogsOK' /\ Grows
    BY <1>1, <1>2, Mine DEF TrackTypes, LogsOK, Grows, EpochRecorded, Return, GoTo, Set
  <2>2. cached' = [cached EXCEPT ![p] = cached'[p]]
    BY <1>2, Mine, Zenon DEF TrackTypes
  <2>3. QED
    BY <1>1, <1>2, <2>1, <2>2, Mine, RecordedOK
<1>3. CASE /\ cached[p] < want[p] /\ cached[p] = root /\ root' = want[p]
           /\ cached' = Set(cached, p, want[p]) /\ EpochRecorded(p)
  <2>1. LogsOK' /\ Grows /\ root' \in 0 .. MaxEpoch
    BY <1>1, <1>3, RootSwapped, Zenon
  <2>2. TrackTypes' /\ cached'[p] = want[p]
    BY <1>1, <1>3, <2>1, Mine DEF TrackTypes, EpochRecorded, Return, GoTo, Set
  <2>3. cached' = [cached EXCEPT ![p] = cached'[p]]
    BY <1>3, <2>2, Zenon DEF Set
  <2>4. QED
    BY <1>1, <1>3, <2>1, <2>2, <2>3, Mine, RecordedOK
<1>4. CASE /\ cached[p] < want[p] /\ cached[p] # root
           /\ GoTo(p, "refetch") /\ UNCHANGED <<root, cached, op, want>>
  <2>1. want[p] <= root
    BY <1>1, <1>4, Mine DEF CallOK, WriterOK, TrackTypes
  <2>2. TrackTypes' /\ LogsOK' /\ Grows /\ Only(p)
    BY <1>1, <1>4, Mine DEF TrackTypes, LogsOK, Grows, Only, GoTo, Set
  <2>3. HandleOK(p)'
    BY <1>1, <1>4, <2>1, Mine, Zenon DEF HandleOK, WriterOK, CallOK, TrackTypes, GoTo, Set
  <2>4. QED
    BY <2>2, <2>3, OthersOK, Zenon
<1>5. QED
  BY <1>2, <1>3, <1>4, Zenon DEF AdvanceTrackRoot

(* The root is read again after a refused swap. *)
LEMMA RefetchRootOK == ASSUME TrackInv, NEW p \in Processes, RefetchRoot(p) PROVE TrackInv'
<1>1. /\ pc[p] = "refetch" /\ root >= want[p] /\ EpochRecorded(p)
      /\ cached' = [cached EXCEPT ![p] = root] /\ UNCHANGED <<root, logs, writer>>
  BY Zenon DEF RefetchRoot, store, Set
<1>2. TrackTypes' /\ LogsOK' /\ Grows /\ cached'[p] = root
  BY <1>1, Mine DEF TrackTypes, LogsOK, Grows, EpochRecorded, Return, GoTo, Set
<1>3. cached' = [cached EXCEPT ![p] = cached'[p]]
  BY <1>1, <1>2, Zenon
<1>4. cached'[p] >= cached[p] /\ cached'[p] >= want[p] /\ cached'[p] <= root'
  BY <1>1, <1>2, Mine
<1>5. QED
  BY <1>1, <1>2, <1>3, <1>4, RecordedOK, Zenon

(* A call that ends leaves a handle without a call. *)
LEMMA ReturnOK ==
  ASSUME TrackInv, NEW p \in Processes, Return(p), Grows, TrackTypes', LogsOK',
         \A q \in Processes \ {p} : cached'[q] = cached[q] /\ writer'[q] = writer[q],
         cached'[p] <= root', WriterOK(p)'
  PROVE  TrackInv'
<1>1. Only(p)
  BY Zenon DEF Only, Return, GoTo, Set, TrackInv, TrackTypes
<1>2. CallOK(p)'
  BY Mine, Zenon DEF Return, GoTo, Set, CallOK, TrackTypes
<1>3. QED
  BY <1>1, <1>2, OthersOK, Zenon DEF HandleOK

(* A call that fails keeps the Writer it had, if any. *)
LEMMA CallFailsOK == ASSUME TrackInv, NEW p \in Processes, CallFails(p) PROVE TrackInv'
<1>1. /\ pc[p] # "idle" /\ Return(p) /\ UNCHANGED writer
      /\ cached' = IF op[p] = "create" THEN [cached EXCEPT ![p] = 0] ELSE cached
  BY Zenon DEF CallFails, Set
<1>2. LogsOK' /\ Grows /\ root' \in 0 .. MaxEpoch /\ DOMAIN logs' = Epochs
  <2>1. CASE root' = root /\ logs' = logs
    BY <2>1, Mine DEF LogsOK, Grows, TrackTypes
  <2>2. CASE /\ pc[p] = "root" /\ cached[p] < want[p] /\ cached[p] = root
             /\ root' = want[p] /\ logs' = logs
    BY <2>2, RootSwapped, Mine, Zenon DEF TrackTypes
  <2>3. CASE /\ pc[p] = "log" /\ logs[want[p]] = NoLog /\ root' = root
             /\ logs' = [logs EXCEPT ![want[p]] = NewLog]
    <3>1. logs' = [logs EXCEPT ![want[p]] = IF @ = NoLog THEN NewLog ELSE @]
      BY <2>3, Zenon
    <3>2. QED
      BY <2>3, <3>1, LogCreated, Mine, Zenon DEF TrackTypes
  <2>4. QED
    BY <2>1, <2>2, <2>3, Zenon DEF CallFails
<1>3. TrackTypes'
  BY <1>1, <1>2, Mine DEF TrackTypes, Return, GoTo, Set
<1>4. WriterOK(p)'
  BY <1>1, <1>2, Mine, Zenon DEF WriterOK, CallOK, TrackTypes, Grows
<1>5. cached'[p] <= root'
  BY <1>1, <1>2, Mine DEF TrackTypes, Grows
<1>6. QED
  BY <1>1, <1>2, <1>3, <1>4, <1>5, ReturnOK, Mine, Zenon DEF TrackTypes

(* The log root a Writer is built on is read from the store. *)
LEMMA FetchLogOK == ASSUME TrackInv, NEW p \in Processes, FetchLog(p) PROVE TrackInv'
<1>1. pc[p] = "fetch" /\ UNCHANGED <<root, logs, cached>>
  BY Zenon DEF FetchLog, store
<1>2. LogsOK' /\ Grows
  BY <1>1, Mine DEF LogsOK, Grows
<1>3. CASE GoTo(p, "log") /\ UNCHANGED <<writer, op, want>>
  <2>1. TrackTypes' /\ Only(p)
    BY <1>1, <1>3, Mine, Zenon DEF TrackTypes, Only, GoTo, Set
  <2>2. HandleOK(p)'
    BY <1>1, <1>3, Mine, Zenon DEF HandleOK, WriterOK, CallOK, TrackTypes, GoTo, Set
  <2>3. QED
    BY <1>2, <2>1, <2>2, OthersOK, Zenon
<1>4. CASE logs[want[p]] # NoLog /\ Return(p) /\
           \E new : writer' = [writer EXCEPT ![p] = new] /\ "epoch" \in DOMAIN new
                    /\ new.epoch = want[p]
  <2>1. TrackTypes'
    BY <1>1, <1>4, Mine DEF TrackTypes, Return, GoTo, Set
  <2>2. WriterOK(p)'
    BY <1>1, <1>4, Mine, Zenon DEF WriterOK, CallOK, TrackTypes
  <2>3. QED
    BY <1>1, <1>2, <1>4, <2>1, <2>2, ReturnOK, Mine, Zenon DEF TrackTypes
<1>5. /\ "epoch" \in DOMAIN Recovered(want[p]) /\ Recovered(want[p]).epoch = want[p]
      /\ \A s : "epoch" \in DOMAIN Started(want[p], s) /\ Started(want[p], s).epoch = want[p]
  BY Zenon DEF Recovered, Started
<1>6. QED
  BY <1>3, <1>4, <1>5, Zenon DEF FetchLog, Set

(* What is done in an epoch changes no epoch and no root: the Writer stays *)
(* where it is, and the log roots there are stay.                          *)
LEMMA WithinEpoch ==
  ASSUME TrackInv, NEW p \in Processes, UNCHANGED <<root, cached, op, want, pc>>,
         DOMAIN logs' = Epochs,
         \A e \in Epochs : logs'[e] # NoLog <=> logs[e] # NoLog,
         writer[p] # NoWriter,
         NEW new, writer' = [writer EXCEPT ![p] = new],
         "epoch" \in DOMAIN new, new.epoch = writer[p].epoch,
         pc[p] = "idle"
  PROVE  TrackInv'
<1>1. TrackTypes' /\ LogsOK' /\ Grows /\ Only(p)
  BY Mine DEF TrackTypes, LogsOK, Grows, Only
<1>2. WriterOK(p)'
  BY Mine, Zenon DEF WriterOK, TrackTypes
<1>3. CallOK(p)'
  BY Mine, Zenon DEF CallOK, TrackTypes
<1>4. QED
  BY <1>1, <1>2, <1>3, Mine, OthersOK, Zenon DEF HandleOK

(* AppendGroup works in the epoch of its Writer. *)
LEMMA AppendGroupOK == ASSUME TrackInv, NEW p \in Processes, AppendGroup(p) PROVE TrackInv'
<1>1. /\ UNCHANGED <<root, cached, op, want, pc, logs>> /\ pc[p] = "idle"
      /\ writer[p] # NoWriter
  BY Zenon DEF AppendGroup
<1>2. "epoch" \in DOMAIN writer[p] /\ DOMAIN logs = Epochs
  BY <1>1, Mine, Zenon DEF WriterOK, TrackTypes
<1>3. \/ writer' = [writer EXCEPT ![p].stale = TRUE]
      \/ \E s : writer' = [writer EXCEPT ![p].next = @ + 1, ![p].groups = Append(@, s)]
  BY Zenon DEF AppendGroup, Stale
<1>4. CASE writer' = [writer EXCEPT ![p].stale = TRUE]
  BY <1>1, <1>2, <1>4, WithinEpoch, Zenon
<1>5. ASSUME NEW s,
             writer' = [writer EXCEPT ![p].next = @ + 1, ![p].groups = Append(@, s)]
      PROVE  TrackInv'
  <2> DEFINE new == [writer[p] EXCEPT !.next = @ + 1, !.groups = Append(@, s)]
  <2>1. writer' = [writer EXCEPT ![p] = new]
    BY <1>5, Zenon
  <2>2. "epoch" \in DOMAIN new /\ new.epoch = writer[p].epoch
    BY <1>2, Zenon
  <2>3. QED
    BY <1>1, <1>2, <2>1, <2>2, WithinEpoch, Zenon
<1>6. QED
  BY <1>3, <1>4, <1>5, Zenon

(* So does the reload of a stale Writer, *)
LEMMA ReloadOK == ASSUME TrackInv, NEW p \in Processes, Reload(p) PROVE TrackInv'
<1>1. "epoch" \in DOMAIN Recovered(writer[p].epoch)
      /\ Recovered(writer[p].epoch).epoch = writer[p].epoch
  BY Zenon DEF Recovered
<1>2. QED
  BY <1>1, Mine, WithinEpoch, Zenon DEF Reload, store, Set, TrackTypes

(* and so does a seal. *)
LEMMA SealOK == ASSUME TrackInv, NEW p \in Processes, Seal(p) PROVE TrackInv'
<1>1. /\ UNCHANGED <<root, cached, op, want, pc>> /\ pc[p] = "idle" /\ writer[p] # NoWriter
  BY Zenon DEF Seal
<1>2. "epoch" \in DOMAIN writer[p] /\ DOMAIN logs = Epochs /\ logs[writer[p].epoch] # NoLog
      /\ writer[p].epoch \in Epochs
  BY <1>1, Mine, Zenon DEF WriterOK, TrackTypes
<1>3. PICK s, o, v : logs' = [logs EXCEPT ![writer[p].epoch] =
                                [sealed |-> s, openFrom |-> o, version |-> v]]
  BY Zenon DEF Seal
<1>4. DOMAIN logs' = Epochs /\ \A e \in Epochs : logs'[e] # NoLog <=> logs[e] # NoLog
  BY <1>2, <1>3, SomeLog, Zenon
<1> DEFINE new == [writer[p] EXCEPT !.groups = <<>>, !.from = writer[p].next, !.version = @ + 1]
<1>5. writer' = [writer EXCEPT ![p] = new]
  BY Zenon DEF Seal
<1>6. "epoch" \in DOMAIN new /\ new.epoch = writer[p].epoch
  BY <1>2, Zenon
<1>7. QED
  BY <1>1, <1>4, <1>5, <1>6, WithinEpoch, Zenon

(* A crash takes the handle and leaves the store. *)
LEMMA CrashOK == ASSUME TrackInv, NEW p \in Processes, Crash(p) PROVE TrackInv'
<1>1. /\ UNCHANGED <<root, logs>> /\ Return(p)
      /\ cached' = [cached EXCEPT ![p] = 0] /\ writer' = [writer EXCEPT ![p] = NoWriter]
  BY Zenon DEF Crash, Set, store
<1>2. TrackTypes' /\ LogsOK' /\ Grows
  BY <1>1, Mine DEF TrackTypes, LogsOK, Grows, Return, GoTo, Set
<1>3. WriterOK(p)' /\ cached'[p] <= root'
  BY <1>1, Mine DEF WriterOK, TrackTypes
<1>4. QED
  BY <1>1, <1>2, <1>3, ReturnOK, Mine, Zenon DEF TrackTypes

(* The invariant is inductive. *)
LEMMA NextTrackInv == TrackInv /\ [Next]_vars => TrackInv'
<1> SUFFICES ASSUME TrackInv, [Next]_vars PROVE TrackInv'
  OBVIOUS
<1>1. CASE UNCHANGED vars
  BY <1>1, ZenonT(40)
  DEF vars, store, handles, TrackInv, TrackTypes, LogsOK, HandleOK, WriterOK, CallOK
<1>2. CASE Next
  BY <1>2, CreateOK, OpenOK, BeginOK, CreateEpochLogOK, AdvanceTrackRootOK, RefetchRootOK,
     FetchLogOK, CallFailsOK, CrashOK, AppendGroupOK, ReloadOK, SealOK, Zenon
  DEF Next
<1>3. QED
  BY <1>1, <1>2, Zenon

(* Nothing exists at first. *)
LEMMA InitTrackInv == Init => TrackInv
  BY TrackAssumption
  DEF Init, TrackInv, TrackTypes, LogsOK, HandleOK, WriterOK, CallOK, Epochs

(* So it holds of every state. *)
LEMMA TrackInvariant == Spec => []TrackInv
  BY InitTrackInv, NextTrackInv, PTL DEF Spec

(* The epochs in existence are 1..LatestEpoch and at most one orphan, and  *)
(* no handle and no Writer is ahead of the root: createEpochLog before     *)
(* advanceTrackRootLocked, by any number of processes at once and with a   *)
(* crash or a failure at any request.                                      *)
THEOREM EpochsAlwaysExist == Spec => []EpochsExist
<1>1. TrackInv => EpochsExist
  BY Mine DEF EpochsExist, TrackInv, LogsOK, WriterOK, HandleOK
<1>2. QED
  BY <1>1, TrackInvariant, PTL

(* The second swap of advanceTrackRootLocked is dead code: whoever moved   *)
(* the root under a handle has reached the epoch the handle wants.         *)
THEOREM RetryNeverNeeded == Spec => []RetryUnneeded
<1>1. TrackInv => RetryUnneeded
  BY Mine, Zenon DEF RetryUnneeded, CallOK
<1>2. QED
  BY <1>1, TrackInvariant, PTL

(* LatestEpoch never goes back, from whatever cached root it is bumped. *)
THEOREM LatestGrows == Spec => LatestNeverFalls
<1>1. TrackInv /\ [Next]_vars => [root' >= root]_vars
  <2> SUFFICES ASSUME TrackInv, NEW p \in Processes,
                      \/ Create(p) \/ AdvanceTrackRoot(p) \/ CallFails(p)
                      \/ UNCHANGED root
               PROVE  root' >= root
    BY Zenon DEF Next, Open, Writer, NewEpoch, CreateEpochLog, RefetchRoot, FetchLog, Crash,
           AppendGroup, Reload, Seal, store
  <2>1. root \in Nat /\ cached[p] \in Nat /\ want[p] \in Nat
    BY Mine, Zenon
  <2>2. QED
    BY <2>1, SMTT(20) DEF Create, AdvanceTrackRoot, CallFails
<1>2. QED
  BY <1>1, TrackInvariant, PTL DEF Spec, LatestNeverFalls

-----------------------------------------------------------------------------
(* What was appended stays readable while Writers take turns. *)

Elems(s) == {s[i] : i \in DOMAIN s}

(* Nothing was ever written in epoch e. *)
Fresh(e) == logs[e] \in {NoLog, NewLog} /\ DOMAIN deltas[e] = {} /\ acked[e] = {}

(* The open deltas of e are those from OpenFrom to t, and what was         *)
(* confirmed is in them or sealed.                                         *)
Filled(e, t) ==
    /\ logs[e].sealed \in Seq(GroupSequences)
    /\ logs[e].openFrom \in Nat /\ t \in logs[e].openFrom .. MaxDelta
    /\ DOMAIN deltas[e] = logs[e].openFrom .. t - 1
    /\ \A n \in DOMAIN deltas[e] : deltas[e][n] \in GroupSequences
    /\ \A s \in acked[e] :
        s \in Elems(logs[e].sealed) \/ \E n \in DOMAIN deltas[e] : s = deltas[e][n]

(* A Writer w knows the open region of e. *)
Knows(w, e) ==
    /\ {"epoch", "version", "from", "stale", "next", "groups"} \subseteq DOMAIN w
    /\ w.groups \in Seq(GroupSequences)
    /\ Filled(e, w.next)
    /\ w.from = logs[e].openFrom
    /\ \A n \in DOMAIN deltas[e] : deltas[e][n] \in Elems(w.groups)

Writes(p) == writer[p] # NoWriter \/ op[p] = "writer"
Alone == \A p, q \in Processes : Writes(p) /\ Writes(q) => p = q

LaterEmpty == \A e \in Epochs : e > root \/ logs[e] = NoLog => Fresh(e)
LogsKept == \A e \in Epochs : logs[e] # NoLog => \E t \in 0 .. MaxDelta : Filled(e, t)

(* A Writer that is being opened is of the latest epoch, and one that is   *)
(* open has nothing after it.                                              *)
WriterKnows(p) ==
    /\ op[p] = "writer" => want[p] = root
    /\ writer[p] # NoWriter =>
        /\ Knows(writer[p], writer[p].epoch)
        /\ \A e \in Epochs : e > writer[p].epoch => Fresh(e)

ReadInv ==
    /\ DOMAIN deltas = Epochs /\ DOMAIN acked = Epochs /\ shared \in BOOLEAN
    /\ ~shared => Alone /\ LaterEmpty /\ LogsKept /\ \A p \in Processes : WriterKnows(p)

(* The epochs and their logs, before and after a step. *)
LEMMA EpochNumbers ==
  ASSUME TrackInv
  PROVE  /\ root \in Nat /\ MaxEpoch \in Nat /\ MaxDelta \in Nat
         /\ \A e \in Epochs : e \in Nat
         /\ \A p \in Processes : writer[p] # NoWriter =>
                /\ writer[p].epoch \in Epochs /\ writer[p].epoch <= root
                /\ logs[writer[p].epoch] # NoLog
         /\ \A p \in Processes : op[p] = "writer" =>
                /\ writer[p] = NoWriter /\ pc[p] # "idle" /\ want[p] \in Epochs
                /\ want[p] <= cached[p] /\ cached[p] <= root
<1>1. root \in Nat /\ MaxEpoch \in Nat /\ MaxDelta \in Nat /\ \A e \in Epochs : e \in Nat
  BY TrackAssumption DEF TrackInv, TrackTypes, Epochs
<1>2. ASSUME NEW p \in Processes, writer[p] # NoWriter
      PROVE  writer[p].epoch \in Epochs /\ writer[p].epoch <= root /\ logs[writer[p].epoch] # NoLog
  <2>1. /\ writer[p].epoch \in Epochs /\ writer[p].epoch <= cached[p] /\ cached[p] <= root
        /\ logs[writer[p].epoch] # NoLog
    BY <1>2, Zenon DEF TrackInv, HandleOK, WriterOK
  <2>2. cached[p] \in Nat /\ writer[p].epoch \in Nat
    BY <1>1, <2>1, Mine, Zenon
  <2>3. QED
    BY <1>1, <2>1, <2>2
<1>3. ASSUME NEW p \in Processes, op[p] = "writer"
      PROVE  /\ writer[p] = NoWriter /\ pc[p] # "idle" /\ want[p] \in Epochs
             /\ want[p] <= cached[p] /\ cached[p] <= root
  BY <1>3, Zenon DEF TrackInv, HandleOK, CallOK
<1>4. QED
  BY <1>1, <1>2, <1>3, Zenon

(* An epoch in which nothing is written stays so when its log is created,  *)
LEMMA FreshSame ==
  ASSUME NEW e, logs'[e] = logs[e] \/ (logs[e] = NoLog /\ logs'[e] = NewLog),
         deltas'[e] = deltas[e], acked'[e] = acked[e], Fresh(e)
  PROVE  Fresh(e)'
  BY Zenon DEF Fresh

(* and what is written in one stays when nothing of it is changed.         *)
LEMMA FilledSame ==
  ASSUME NEW e, NEW t, logs'[e] = logs[e], deltas'[e] = deltas[e], acked'[e] = acked[e],
         Filled(e, t)
  PROVE  Filled(e, t)'
  BY Zenon DEF Filled

(* The same of what a Writer knows of it. *)
LEMMA KnowsSame ==
  ASSUME NEW e, NEW w, logs'[e] = logs[e], deltas'[e] = deltas[e], acked'[e] = acked[e],
         Knows(w, e)
  PROVE  Knows(w, e)'
<1>1. PICK t : t = w.next
  OBVIOUS
<1>2. Filled(e, t)
  BY <1>1, Zenon DEF Knows
<1>3. Filled(e, t)'
  BY <1>2, FilledSame, Zenon
<1>4. QED
  BY <1>1, <1>3, Zenon DEF Knows

(* A new log root has no delta open. *)
LEMMA FreshFilled ==
  ASSUME NEW e
  PROVE  /\ Fresh(e) /\ logs[e] # NoLog => Filled(e, 0)
         /\ Fresh(e)' /\ logs'[e] # NoLog => Filled(e, 0)'
<1>1. /\ NewLog.sealed = <<>> /\ NewLog.openFrom = 0 /\ <<>> \in Seq(GroupSequences)
      /\ 0 \in Nat /\ 0 .. 0 - 1 = {} /\ 0 \in 0 .. MaxDelta
  BY TrackAssumption DEF NewLog
<1>2. QED
  BY <1>1, Zenon DEF Fresh, Filled

(* A probe from OpenFrom ends at the first delta that is free. *)
LEMMA TipFacts ==
  ASSUME NEW e, NEW t, Filled(e, t)
  PROVE  Tip(e) = t
<1>1. PICK o : o = logs[e].openFrom
  OBVIOUS
<1>2. o \in Nat /\ t \in o .. MaxDelta /\ DOMAIN deltas[e] = o .. t - 1 /\ MaxDelta \in Nat
  BY <1>1, TrackAssumption, Zenon DEF Filled
<1>3. t \notin o .. t - 1 /\ \A m \in o .. t - 1 : m \in o .. t - 1
  BY <1>2
<1>4. PICK n : n = Tip(e)
  OBVIOUS
<1>5. n \in o .. MaxDelta /\ n \notin o .. t - 1 /\ \A m \in o .. n - 1 : m \in o .. t - 1
  BY <1>1, <1>2, <1>3, <1>4, Zenon DEF Tip
<1>6. n \in Int /\ t \in Int /\ n >= t
  BY <1>2, <1>5
<1>7. t \notin o .. n - 1
  BY <1>3, <1>5, Zenon
<1>8. n = t
  BY <1>2, <1>5, <1>6, <1>7
<1>9. QED
  BY <1>4, <1>8, Zenon

(* A function on 1..k is a sequence. *)
LEMMA MakesSeq ==
  ASSUME NEW S, NEW k \in Nat, NEW g, g = [i \in 1 .. k |-> g[i]], \A i \in 1 .. k : g[i] \in S
  PROVE  g \in Seq(S)
  OBVIOUS

(* recover finds the open groups. *)
LEMMA RecoveredKnows ==
  ASSUME NEW e, NEW t, Filled(e, t)
  PROVE  Knows(Recovered(e), e) /\ Recovered(e).epoch = e
<1>1. PICK o : o = logs[e].openFrom
  OBVIOUS
<1>2. PICK g : g = [i \in 1 .. t - o |-> deltas[e][o + i - 1]]
  OBVIOUS
<1>3. PICK w : w = Recovered(e)
  OBVIOUS
<1>4. Tip(e) = t
  BY TipFacts, Zenon
<1>5. /\ w.epoch = e /\ w.from = o /\ w.next = t /\ w.groups = g
      /\ {"epoch", "version", "from", "stale", "next", "groups"} \subseteq DOMAIN w
  BY <1>1, <1>2, <1>3, <1>4, Zenon DEF Recovered
<1>6. /\ o \in Nat /\ t \in o .. MaxDelta /\ DOMAIN deltas[e] = o .. t - 1 /\ MaxDelta \in Nat
      /\ \A n \in DOMAIN deltas[e] : deltas[e][n] \in GroupSequences
  BY <1>1, TrackAssumption, Zenon DEF Filled
<1>7. /\ t - o \in Nat /\ \A i \in 1 .. t - o : o + i - 1 \in o .. t - 1
      /\ \A n \in o .. t - 1 : n - o + 1 \in 1 .. t - o /\ o + (n - o + 1) - 1 = n
  BY <1>6
<1>8. DOMAIN g = 1 .. t - o /\ \A i \in 1 .. t - o : g[i] = deltas[e][o + i - 1]
  BY <1>2, Zenon
<1>9. g \in Seq(GroupSequences)
  <2>1. \A i \in 1 .. t - o : g[i] \in GroupSequences
    BY <1>6, <1>7, <1>8, Zenon
  <2>2. g = [i \in 1 .. t - o |-> g[i]]
    BY <1>2, <1>8, Zenon
  <2>3. QED
    BY <1>7, <2>1, <2>2, MakesSeq, Zenon
<1>10. \A n \in DOMAIN deltas[e] : deltas[e][n] \in Elems(g)
  BY <1>6, <1>7, <1>8, ZenonT(40) DEF Elems
<1>11. QED
  BY <1>1, <1>3, <1>5, <1>9, <1>10, Zenon DEF Knows

-----------------------------------------------------------------------------
(* Steps that write nothing in an epoch: calls begin, go on and end, a log *)
(* may be created, the root may be bumped, a Writer may be gone.           *)
LEMMA CallKeeps ==
  ASSUME TrackInv, TrackInv', ReadInv, UNCHANGED <<deltas, acked>>, shared' \in BOOLEAN,
         ~shared' => ~shared, Grows,
         \A e \in Epochs : logs'[e] = logs[e] \/ (logs[e] = NoLog /\ logs'[e] = NewLog),
         \A q \in Processes : writer'[q] \in {writer[q], NoWriter},
         ~shared' => Alone',
         ~shared' => \A q \in Processes : op'[q] = "writer" => want'[q] = root'
  PROVE  ReadInv'
<1>1. ASSUME ~shared' PROVE LaterEmpty' /\ LogsKept' /\ \A p \in Processes : WriterKnows(p)'
  <2>1. Alone /\ LaterEmpty /\ LogsKept /\ \A p \in Processes : WriterKnows(p)
    BY <1>1, Zenon DEF ReadInv
  <2>2. \A e \in Epochs : Fresh(e) => Fresh(e)'
    BY FreshSame, Zenon
  <2>3. \A e \in Epochs : e > root' => e > root
    <3>1. root' \in Nat /\ root \in Nat /\ root' >= root /\ \A e \in Epochs : e \in Nat
      BY EpochNumbers DEF Grows, TrackInv, TrackTypes
    <3>2. QED
      BY <3>1
  <2>4. \A e \in Epochs : logs'[e] = NoLog => logs[e] = NoLog
    BY Zenon DEF Grows
  <2>5. LaterEmpty'
    BY <2>1, <2>2, <2>3, <2>4, Zenon DEF LaterEmpty
  <2>6. ASSUME NEW e \in Epochs, logs'[e] # NoLog PROVE \E t \in 0 .. MaxDelta : Filled(e, t)'
    <3>1. CASE logs[e] = NoLog
      <4>1. Fresh(e)'
        BY <2>1, <2>2, <3>1, Zenon DEF LaterEmpty
      <4>2. 0 \in 0 .. MaxDelta
        BY TrackAssumption
      <4>3. QED
        BY <2>6, <4>1, <4>2, FreshFilled, Zenon
    <3>2. CASE logs[e] # NoLog
      <4>1. PICK t \in 0 .. MaxDelta : Filled(e, t)
        BY <2>1, <3>2, Zenon DEF LogsKept
      <4>2. QED
        BY <3>2, <4>1, FilledSame, Zenon
    <3>3. QED
      BY <3>1, <3>2, Zenon
  <2>7. LogsKept'
    BY <2>6, Zenon DEF LogsKept
  <2>8. ASSUME NEW p \in Processes PROVE WriterKnows(p)'
    <3>1. ASSUME writer'[p] # NoWriter
          PROVE  /\ Knows(writer[p], writer[p].epoch)'
                 /\ \A e \in Epochs : e > writer'[p].epoch => Fresh(e)'
      <4>1. PICK w, e : w = writer[p] /\ e = writer[p].epoch
        OBVIOUS
      <4>2. writer'[p] = w /\ writer[p] # NoWriter /\ w.epoch = e
        BY <3>1, <4>1, Zenon
      <4>3. e \in Epochs /\ logs'[e] = logs[e]
        BY <4>1, <4>2, EpochNumbers, Zenon
      <4>4. Knows(w, e) /\ \A x \in Epochs : x > e => Fresh(x)
        BY <2>1, <4>1, <4>2, Zenon DEF WriterKnows
      <4>5. Knows(w, e)'
        BY <4>3, <4>4, KnowsSame, Zenon
      <4>6. Knows(writer[p], writer[p].epoch)'
        BY <4>2, <4>5, ZenonT(40) DEF Knows, Filled
      <4>7. \A x \in Epochs : x > writer'[p].epoch => Fresh(x)'
        BY <2>2, <4>2, <4>4, Zenon
      <4>8. QED
        BY <4>6, <4>7, Zenon
    <3>2. QED
      BY <1>1, <3>1, Zenon DEF WriterKnows
  <2>9. QED
    BY <2>5, <2>7, <2>8, Zenon
<1>2. QED
  BY <1>1, Zenon DEF ReadInv

(* Writers stay alone when nobody becomes one. *)
LEMMA AloneSame ==
  ASSUME Alone, \A q \in Processes : Writes(q)' => Writes(q)
  PROVE  Alone'
  BY Zenon DEF Alone

(* No Writer is opened beside a Writer. *)
LEMMA NobodyElse ==
  ASSUME ReadInv, ~shared, NEW p \in Processes, Writes(p)
  PROVE  \A q \in Processes \ {p} : writer[q] = NoWriter /\ op[q] # "writer"
  BY Zenon DEF ReadInv, Alone, Writes

(* A step of a call that opens no Writer; only a NewEpoch, which has the   *)
(* Writer, bumps the root.                                                 *)
LEMMA StepKeeps ==
  ASSUME TrackInv, TrackInv', ReadInv, UNCHANGED <<deltas, acked, shared>>, Grows,
         \A e \in Epochs : logs'[e] = logs[e] \/ (logs[e] = NoLog /\ logs'[e] = NewLog),
         \A q \in Processes : writer'[q] \in {writer[q], NoWriter},
         ~shared => \A q \in Processes : op'[q] = "writer" =>
                        op[q] = "writer" /\ want'[q] = want[q] /\ root' = root
  PROVE  ReadInv'
<1>1. shared' \in BOOLEAN /\ (~shared' => ~shared)
  BY Zenon DEF ReadInv
<1>2. ~shared' => Alone'
  <2>1. ~shared => Alone /\ \A q \in Processes : Writes(q)' => Writes(q)
    BY Zenon DEF ReadInv, Writes
  <2>2. QED
    BY <1>1, <2>1, AloneSame, Zenon
<1>3. ~shared' => \A q \in Processes : op'[q] = "writer" => want'[q] = root'
  BY <1>1, Zenon DEF ReadInv, WriterKnows
<1>4. QED
  BY <1>1, <1>2, <1>3, CallKeeps, Zenon

-----------------------------------------------------------------------------
(* Steps of the Writer p, which is afterwards in epoch e and knows it; the *)
(* other epochs are as they were.                                          *)
LEMMA EpochKeeps ==
  ASSUME TrackInv, ReadInv, NEW p \in Processes, NEW e \in Epochs, ~shared => Writes(p),
         UNCHANGED <<root, shared>>, DOMAIN deltas' = Epochs, DOMAIN acked' = Epochs,
         \A q \in Processes \ {p} : writer'[q] = writer[q] /\ op'[q] = op[q],
         op'[p] # "writer", logs'[e] # NoLog, e <= root,
         \A x \in Epochs \ {e} :
            logs'[x] = logs[x] /\ deltas'[x] = deltas[x] /\ acked'[x] = acked[x],
         NEW w, writer'[p] = w, w.epoch = e,
         ~shared => Knows(w, e)' /\ \A x \in Epochs : x > e => Fresh(x)
  PROVE  ReadInv'
<1>1. ASSUME ~shared PROVE Alone' /\ LaterEmpty' /\ LogsKept' /\ \A q \in Processes : WriterKnows(q)'
  <2>1. Alone /\ LaterEmpty /\ LogsKept /\ Writes(p)
    BY <1>1, Zenon DEF ReadInv
  <2>2. \A q \in Processes \ {p} : writer'[q] = NoWriter /\ op'[q] # "writer"
    BY <1>1, <2>1, NobodyElse, ZenonT(40)
  <2>3. Alone'
    BY <2>2, Zenon DEF Alone, Writes
  <2>4. \A x \in Epochs \ {e} : Fresh(x) => Fresh(x)'
    BY FreshSame, Zenon
  <2>5. /\ \A x \in Epochs : x > root => x # e
        /\ \A x \in Epochs : x > e => x # e
    <3>1. root \in Nat /\ \A x \in Epochs : x \in Nat
      BY EpochNumbers, Zenon
    <3>2. QED
      BY <3>1
  <2>6. LaterEmpty'
    BY <2>1, <2>4, <2>5, Zenon DEF LaterEmpty
  <2>7. Filled(e, w.next)' /\ w.next \in 0 .. MaxDelta
    <3>1. PICK t : t = w.next
      OBVIOUS
    <3>2. Filled(e, t)'
      BY <1>1, <3>1, Zenon DEF Knows
    <3>3. logs'[e].openFrom \in Nat /\ t \in logs'[e].openFrom .. MaxDelta
      BY <3>2, Zenon DEF Filled
    <3>4. t \in 0 .. MaxDelta
      BY <3>3, TrackAssumption
    <3>5. QED
      BY <3>1, <3>2, <3>4, Zenon
  <2>8. ASSUME NEW x \in Epochs, logs'[x] # NoLog, x # e PROVE \E t \in 0 .. MaxDelta : Filled(x, t)'
    <3>1. PICK t \in 0 .. MaxDelta : Filled(x, t)
      BY <2>1, <2>8, Zenon DEF LogsKept
    <3>2. QED
      BY <2>8, <3>1, FilledSame, Zenon
  <2>9. LogsKept'
    <3>1. PICK t : t = w.next
      OBVIOUS
    <3>2. QED
      BY <2>7, <2>8, <3>1, Zenon DEF LogsKept
  <2>10. ASSUME NEW q \in Processes PROVE WriterKnows(q)'
    <3>1. CASE q = p
      BY <1>1, <2>4, <2>5, <3>1, Zenon DEF WriterKnows
    <3>2. CASE q # p
      BY <2>2, <3>2, Zenon DEF WriterKnows
    <3>3. QED
      BY <3>1, <3>2, Zenon
  <2>11. QED
    BY <2>3, <2>6, <2>9, <2>10, Zenon
<1>2. QED
  BY <1>1, Zenon DEF ReadInv

-----------------------------------------------------------------------------
(* Create: nobody has opened a Writer of a track that is not there. *)
LEMMA CreateReads == ASSUME TrackInv, ReadInv, NEW p \in Processes, Create(p) PROVE ReadInv'
<1>1. /\ UNCHANGED <<logs, deltas, acked, shared, writer>> /\ root = 0 /\ root' = 1
      /\ \A q \in Processes : op'[q] = op[q] \/ op'[q] = "create"
  BY Zenon DEF Create, past, Begin, Set, TrackInv, TrackTypes
<1>2. \A q \in Processes : op[q] # "writer"
  <2>1. ASSUME NEW q \in Processes, op[q] = "writer" PROVE FALSE
    <3>1. /\ want[q] \in Epochs /\ want[q] <= cached[q] /\ cached[q] <= root
          /\ cached[q] \in Nat /\ \A e \in Epochs : e \in Nat /\ 1 <= e
      BY <2>1, EpochNumbers, Mine, Zenon
    <3>2. want[q] \in Nat /\ 1 <= want[q] /\ want[q] <= cached[q] /\ cached[q] <= 0
      BY <1>1, <3>1, Zenon
    <3>3. QED
      BY <3>1, <3>2
  <2>2. QED
    BY <2>1, Zenon
<1>3. TrackInv' /\ Grows
  BY <1>1, CreateOK DEF Grows
<1>4. \A q \in Processes : op'[q] # "writer"
  BY <1>1, <1>2, Zenon
<1>5. QED
  BY <1>1, <1>3, <1>4, StepKeeps, Zenon

(* Open and Reload of a handle. *)
LEMMA OpenReads == ASSUME TrackInv, ReadInv, NEW p \in Processes, Open(p) PROVE ReadInv'
<1>1. UNCHANGED <<root, logs, deltas, acked, shared, writer, op, want>>
  BY Zenon DEF Open, past, store
<1>2. TrackInv' /\ Grows
  BY <1>1, OpenOK, EpochNumbers DEF Grows
<1>3. QED
  BY <1>1, <1>2, StepKeeps, Zenon

(* Writer: it is of the root's epoch, and nobody else has one. *)
LEMMA WriterReads == ASSUME TrackInv, ReadInv, NEW p \in Processes, Writer(p) PROVE ReadInv'
<1>1. /\ UNCHANGED <<root, logs, deltas, acked, writer>>
      /\ op' = [op EXCEPT ![p] = "writer"] /\ want' = [want EXCEPT ![p] = cached[p]]
      /\ shared' = (shared \/ cached[p] # root
                    \/ \E q \in Processes : writer[q] # NoWriter \/ op[q] = "writer")
  BY Zenon DEF Writer, Begin, Set, store
<1>2. TrackInv' /\ Grows /\ shared' \in BOOLEAN
  BY <1>1, BeginOK, EpochNumbers DEF Grows
<1>3. /\ \A q \in Processes \ {p} : op'[q] = op[q]
      /\ want'[p] = cached[p]
  BY <1>1, Zenon DEF TrackInv, TrackTypes
<1>4. ~shared' => /\ ~shared /\ cached[p] = root
                  /\ \A q \in Processes : writer[q] = NoWriter /\ op[q] # "writer"
  BY <1>1, Zenon
<1>5. ~shared' => Alone'
  BY <1>1, <1>3, <1>4, Zenon DEF Alone, Writes
<1>6. ~shared' => \A q \in Processes : op'[q] = "writer" => want'[q] = root'
  BY <1>1, <1>3, <1>4, Zenon
<1>7. ~shared' => ~shared
  BY <1>4, Zenon
<1>8. QED
  BY <1>1, <1>2, <1>5, <1>6, <1>7, CallKeeps, Zenon

(* NewEpoch begins. *)
LEMMA NewEpochReads == ASSUME TrackInv, ReadInv, NEW p \in Processes, NewEpoch(p) PROVE ReadInv'
<1>1. /\ UNCHANGED <<root, logs, deltas, acked, shared, writer>>
      /\ op' = [op EXCEPT ![p] = "epoch"] /\ want' = [want EXCEPT ![p] = writer[p].epoch + 1]
  BY Zenon DEF NewEpoch, Begin, Set, store, past
<1>2. TrackInv' /\ Grows
  BY <1>1, BeginOK, EpochNumbers DEF Grows
<1>3. \A q \in Processes : op'[q] = "writer" => op[q] = "writer" /\ want'[q] = want[q]
  BY <1>1, Zenon DEF TrackInv, TrackTypes
<1>4. QED
  BY <1>1, <1>2, <1>3, StepKeeps, Zenon

(* createEpochLog. *)
LEMMA CreateEpochLogReads ==
  ASSUME TrackInv, ReadInv, NEW p \in Processes, CreateEpochLog(p) PROVE ReadInv'
<1>1. /\ UNCHANGED <<root, deltas, acked, shared, writer, op, want>> /\ pc[p] = "log"
      /\ logs' = [logs EXCEPT ![want[p]] = IF @ = NoLog THEN NewLog ELSE @]
  BY Zenon DEF CreateEpochLog, past
<1>2. TrackInv' /\ Grows
  BY <1>1, CreateEpochLogOK, LogCreated, Zenon
<1>3. \A e \in Epochs : logs'[e] = logs[e] \/ (logs[e] = NoLog /\ logs'[e] = NewLog)
  BY <1>1, Zenon DEF TrackInv, TrackTypes
<1>4. QED
  BY <1>1, <1>2, <1>3, StepKeeps, Zenon

(* Where its caller goes on, no Writer is opened. *)
LEMMA RecordedCalls ==
  ASSUME TrackInv, NEW p \in Processes, EpochRecorded(p)
  PROVE  \A q \in Processes : op'[q] = "writer" => op[q] = "writer" /\ want'[q] = want[q]
<1>1. op \in [Processes -> {"none", "create", "writer", "epoch"}] /\ DOMAIN want = Processes
  BY DEF TrackInv, TrackTypes
<1>2. QED
  BY <1>1, Zenon DEF EpochRecorded, Return, GoTo, Set

(* Only a NewEpoch wants an epoch its handle has not. *)
LEMMA Bumping ==
  ASSUME TrackInv, ReadInv, NEW p \in Processes, pc[p] = "root", cached[p] < want[p], ~shared
  PROVE  \A q \in Processes : op[q] # "writer"
<1>1. cached[p] \in Nat /\ want[p] \in Nat /\ TrackTypes /\ CallOK(p)
  BY Mine, Zenon
<1>2. ~(want[p] <= cached[p])
  BY <1>1
<1>3. op[p] = "epoch" /\ writer[p] # NoWriter
  BY <1>1, <1>2, Zenon DEF CallOK, TrackTypes
<1>4. QED
  BY <1>3, NobodyElse, Zenon DEF Writes

(* advanceTrackRootLocked. *)
LEMMA AdvanceTrackRootReads ==
  ASSUME TrackInv, ReadInv, NEW p \in Processes, AdvanceTrackRoot(p) PROVE ReadInv'
<1>1. pc[p] = "root" /\ UNCHANGED <<logs, deltas, acked, shared, writer>>
  BY Zenon DEF AdvanceTrackRoot, past
<1>2. TrackInv'
  BY AdvanceTrackRootOK, Zenon
<1>3. CASE cached[p] < want[p] /\ cached[p] = root /\ root' = want[p] /\ EpochRecorded(p)
  <2>1. Grows
    BY <1>1, <1>3, RootSwapped, Zenon
  <2>2. ~shared => \A q \in Processes : op'[q] # "writer"
    BY <1>1, <1>3, Bumping, RecordedCalls, Zenon
  <2>3. QED
    BY <1>1, <1>2, <2>1, <2>2, StepKeeps, Zenon
<1>4. CASE root' = root /\ (EpochRecorded(p) \/ UNCHANGED <<op, want>>)
  <2>1. Grows
    BY <1>1, <1>4, EpochNumbers DEF Grows
  <2>2. \A q \in Processes : op'[q] = "writer" => op[q] = "writer" /\ want'[q] = want[q]
    BY <1>4, RecordedCalls, Zenon
  <2>3. QED
    BY <1>1, <1>2, <1>4, <2>1, <2>2, StepKeeps, Zenon
<1>5. QED
  BY <1>3, <1>4, Zenon DEF AdvanceTrackRoot

(* The root is read again. *)
LEMMA RefetchRootReads ==
  ASSUME TrackInv, ReadInv, NEW p \in Processes, RefetchRoot(p) PROVE ReadInv'
<1>1. UNCHANGED <<root, logs, deltas, acked, shared, writer>> /\ EpochRecorded(p)
  BY Zenon DEF RefetchRoot, past, store
<1>2. TrackInv' /\ Grows
  BY <1>1, RefetchRootOK, EpochNumbers DEF Grows
<1>3. \A q \in Processes : op'[q] = "writer" => op[q] = "writer" /\ want'[q] = want[q]
  BY <1>1, RecordedCalls, Zenon
<1>4. QED
  BY <1>1, <1>2, <1>3, StepKeeps, Zenon

(* A call that ends is no Writer's. *)
LEMMA ReturnCalls ==
  ASSUME TrackInv, NEW p \in Processes, Return(p)
  PROVE  /\ op'[p] = "none"
         /\ \A q \in Processes \ {p} : op'[q] = op[q] /\ want'[q] = want[q]
  BY Zenon DEF Return, GoTo, Set, TrackInv, TrackTypes

(* A request fails. *)
LEMMA CallFailsReads == ASSUME TrackInv, ReadInv, NEW p \in Processes, CallFails(p) PROVE ReadInv'
<1>1. UNCHANGED <<deltas, acked, shared, writer>> /\ Return(p)
  BY Zenon DEF CallFails, past
<1>2. TrackInv'
  BY CallFailsOK, Zenon
<1>3. \A q \in Processes : op'[q] = "writer" => op[q] = "writer" /\ want'[q] = want[q]
  BY <1>1, ReturnCalls, Zenon
<1>4. CASE root' = root /\ logs' = logs
  <2>1. Grows
    BY <1>4, EpochNumbers DEF Grows
  <2>2. QED
    BY <1>1, <1>2, <1>3, <1>4, <2>1, StepKeeps, Zenon
<1>5. CASE /\ pc[p] = "root" /\ cached[p] < want[p] /\ cached[p] = root
           /\ root' = want[p] /\ logs' = logs
  <2>1. Grows
    BY <1>5, RootSwapped, Zenon
  <2>2. ~shared => \A q \in Processes : op'[q] # "writer"
    BY <1>3, <1>5, Bumping, Zenon
  <2>3. QED
    BY <1>1, <1>2, <1>5, <2>1, <2>2, StepKeeps, Zenon
<1>6. CASE /\ pc[p] = "log" /\ logs[want[p]] = NoLog /\ root' = root
           /\ logs' = [logs EXCEPT ![want[p]] = NewLog]
  <2>1. logs' = [logs EXCEPT ![want[p]] = IF @ = NoLog THEN NewLog ELSE @]
    BY <1>6, Zenon
  <2>2. Grows
    BY <1>6, <2>1, LogCreated, Zenon
  <2>3. \A e \in Epochs : logs'[e] = logs[e] \/ (logs[e] = NoLog /\ logs'[e] = NewLog)
    BY <1>6, Zenon DEF TrackInv, TrackTypes
  <2>4. QED
    BY <1>1, <1>2, <1>3, <1>6, <2>2, <2>3, StepKeeps, Zenon
<1>7. QED
  BY <1>4, <1>5, <1>6, Zenon DEF CallFails

(* A process is gone. *)
LEMMA CrashReads == ASSUME TrackInv, ReadInv, NEW p \in Processes, Crash(p) PROVE ReadInv'
<1>1. /\ UNCHANGED <<root, logs, deltas, acked, shared>> /\ Return(p)
      /\ writer' = [writer EXCEPT ![p] = NoWriter]
  BY Zenon DEF Crash, Set, store, past
<1>2. TrackInv' /\ Grows
  BY <1>1, CrashOK, EpochNumbers DEF Grows
<1>3. \A q \in Processes : op'[q] = "writer" => op[q] = "writer" /\ want'[q] = want[q]
  BY <1>1, ReturnCalls, Zenon
<1>4. \A q \in Processes : writer'[q] \in {writer[q], NoWriter}
  BY <1>1, Zenon DEF TrackInv, TrackTypes
<1>5. QED
  BY <1>1, <1>2, <1>3, <1>4, StepKeeps, Zenon

-----------------------------------------------------------------------------
(* A Writer is opened, or begins an epoch that is empty. *)
LEMMA FetchLogReads == ASSUME TrackInv, ReadInv, NEW p \in Processes, FetchLog(p) PROVE ReadInv'
<1>1. UNCHANGED <<root, logs, deltas, acked, shared>> /\ pc[p] = "fetch"
  BY Zenon DEF FetchLog, store, past
<1>2. CASE UNCHANGED <<writer, op, want>>
  <2>1. TrackInv' /\ Grows
    BY <1>1, FetchLogOK, EpochNumbers DEF Grows
  <2>2. QED
    BY <1>1, <1>2, <2>1, StepKeeps, Zenon
<1>3. CASE /\ logs[want[p]] # NoLog /\ Return(p)
           /\ writer' = [writer EXCEPT ![p] = IF op[p] = "writer" THEN Recovered(want[p])
                                              ELSE Started(want[p], writer[p].stale)]
  <2>1. PICK e, st : e = want[p] /\ st = writer[p].stale
    OBVIOUS
  <2>2. /\ e \in Epochs /\ op[p] \in {"writer", "epoch"} /\ logs[e] # NoLog
        /\ op[p] = "epoch" => writer[p] # NoWriter /\ e = writer[p].epoch + 1
        /\ DOMAIN writer = Processes
    <3>1. TrackTypes /\ CallOK(p) /\ want[p] \in Epochs
      BY <1>1, Mine, Zenon
    <3>2. QED
      BY <1>1, <1>3, <2>1, <3>1, Zenon DEF CallOK, TrackTypes
  <2>3. e <= root
    <3>1. want[p] <= cached[p] /\ cached[p] <= root /\ cached[p] \in Nat /\ want[p] \in Nat /\ root \in Nat
      BY <1>1, Mine, Zenon DEF CallOK
    <3>2. QED
      BY <2>1, <3>1
  <2>4. Writes(p)
    BY <2>2, Zenon DEF Writes
  <2>5. PICK w : w = IF op[p] = "writer" THEN Recovered(e) ELSE Started(e, st)
    OBVIOUS
  <2>6. writer'[p] = w /\ \A q \in Processes \ {p} : writer'[q] = writer[q]
    BY <1>3, <2>1, <2>2, <2>5, Zenon
  <2>7. ASSUME ~shared
        PROVE  Knows(w, e) /\ w.epoch = e /\ \A x \in Epochs : x > e => Fresh(x)
    <3>1. LaterEmpty /\ LogsKept /\ WriterKnows(p)
      BY <2>7, Zenon DEF ReadInv
    <3>2. CASE op[p] = "writer"
      <4>1. PICK t \in 0 .. MaxDelta : Filled(e, t)
        BY <2>2, <3>1, Zenon DEF LogsKept
      <4>2. Knows(w, e) /\ w.epoch = e
        BY <2>5, <3>2, <4>1, RecoveredKnows, Zenon
      <4>3. e = root
        BY <2>1, <3>1, <3>2, Zenon DEF WriterKnows
      <4>4. QED
        BY <3>1, <4>2, <4>3, Zenon DEF LaterEmpty
    <3>3. CASE op[p] # "writer"
      <4>1. PICK y : y = writer[p].epoch
        OBVIOUS
      <4>2. writer[p] # NoWriter /\ e = y + 1 /\ w = Started(e, st) /\ \A x \in Epochs : x > y => Fresh(x)
        BY <2>2, <2>5, <3>1, <3>3, <4>1, Zenon DEF WriterKnows
      <4>3. y \in Nat /\ \A x \in Epochs : x \in Nat
        BY <4>1, <4>2, EpochNumbers, Zenon
      <4>4. e > y /\ \A x \in Epochs : x > e => x > y
        BY <4>2, <4>3
      <4>5. Fresh(e) /\ Filled(e, 0)
        BY <2>2, <4>2, <4>4, FreshFilled, Zenon
      <4>6. /\ w.epoch = e /\ w.from = logs[e].openFrom /\ w.next = 0 /\ w.groups = <<>>
            /\ {"epoch", "version", "from", "stale", "next", "groups"} \subseteq DOMAIN w
        BY <4>2, Zenon DEF Started
      <4>7. <<>> \in Seq(GroupSequences)
        OBVIOUS
      <4>8. Knows(w, e)
        BY <4>5, <4>6, <4>7, Zenon DEF Knows, Fresh
      <4>9. QED
        BY <4>2, <4>4, <4>6, <4>8, Zenon
    <3>4. QED
      BY <3>2, <3>3, Zenon
  <2>8. w.epoch = e
    BY <2>5, Zenon DEF Recovered, Started
  <2>9. ~shared => Knows(w, e)'
    BY <1>1, <2>7, KnowsSame, Zenon
  <2>10. op'[p] # "writer" /\ \A q \in Processes \ {p} : op'[q] = op[q]
    BY <1>3, ReturnCalls, Zenon
  <2>11. DOMAIN deltas' = Epochs /\ DOMAIN acked' = Epochs /\ logs'[e] # NoLog
    BY <1>1, <2>2, Zenon DEF ReadInv
  <2>12. QED
    BY <1>1, <2>2, <2>3, <2>4, <2>6, <2>7, <2>8, <2>9, <2>10, <2>11, EpochKeeps, Zenon
<1>4. QED
  BY <1>2, <1>3, Zenon DEF FetchLog, Set

(* What p's Writer is and knows, when it is to do something in its epoch.  *)
LEMMA WriterFacts ==
  ASSUME TrackInv, ReadInv, NEW p \in Processes, writer[p] # NoWriter, pc[p] = "idle",
         NEW e, e = writer[p].epoch
  PROVE  /\ e \in Epochs /\ e <= root /\ logs[e] # NoLog /\ DOMAIN writer = Processes
         /\ DOMAIN logs = Epochs /\ DOMAIN deltas = Epochs /\ DOMAIN acked = Epochs
         /\ op[p] # "writer" /\ "epoch" \in DOMAIN writer[p]
         /\ ~shared => Writes(p) /\ Knows(writer[p], e) /\ \A x \in Epochs : x > e => Fresh(x)
<1>1. e \in Epochs /\ e <= root /\ logs[e] # NoLog
  BY EpochNumbers, Zenon
<1>2. /\ DOMAIN writer = Processes /\ DOMAIN logs = Epochs /\ op[p] # "writer"
      /\ "epoch" \in DOMAIN writer[p]
  BY Mine, Zenon DEF TrackTypes, CallOK, WriterOK
<1>3. QED
  BY <1>1, <1>2, Zenon DEF ReadInv, WriterKnows, Writes

(* A sequence and one element more. *)
LEMMA Appends ==
  ASSUME NEW S, NEW a \in Seq(S), NEW s \in S
  PROVE  /\ Append(a, s) \in Seq(S) /\ s \in Elems(Append(a, s))
         /\ \A x \in Elems(a) : x \in Elems(Append(a, s))
<1>1. PICK b : b = Append(a, s)
  OBVIOUS
<1>2. /\ b \in Seq(S) /\ DOMAIN a = 1 .. Len(a) /\ Len(a) \in Nat
      /\ DOMAIN b = 1 .. Len(a) + 1 /\ b[Len(a) + 1] = s
      /\ \A i \in 1 .. Len(a) : b[i] = a[i]
  BY <1>1
<1>3. Len(a) + 1 \in 1 .. Len(a) + 1 /\ \A i \in 1 .. Len(a) : i \in 1 .. Len(a) + 1
  BY <1>2
<1>4. s \in Elems(b) /\ \A x \in Elems(a) : x \in Elems(b)
  BY <1>2, <1>3, Zenon DEF Elems
<1>5. QED
  BY <1>1, <1>2, <1>4, Zenon

(* A sequence after another. *)
LEMMA Joins ==
  ASSUME NEW S, NEW a \in Seq(S), NEW b \in Seq(S)
  PROVE  /\ a \o b \in Seq(S)
         /\ \A x : x \in Elems(a) \/ x \in Elems(b) => x \in Elems(a \o b)
<1>1. PICK c : c = a \o b
  OBVIOUS
<1>2. /\ c \in Seq(S) /\ DOMAIN a = 1 .. Len(a) /\ Len(a) \in Nat
      /\ DOMAIN b = 1 .. Len(b) /\ Len(b) \in Nat
      /\ DOMAIN c = 1 .. Len(a) + Len(b)
      /\ \A i \in 1 .. Len(a) : c[i] = a[i]
      /\ \A i \in 1 .. Len(b) : c[Len(a) + i] = b[i]
  BY <1>1
<1>3. /\ \A i \in 1 .. Len(a) : i \in 1 .. Len(a) + Len(b)
      /\ \A i \in 1 .. Len(b) : Len(a) + i \in 1 .. Len(a) + Len(b)
  BY <1>2
<1>4. \A x : x \in Elems(a) \/ x \in Elems(b) => x \in Elems(c)
  BY <1>2, <1>3, Zenon DEF Elems
<1>5. QED
  BY <1>1, <1>2, <1>4, Zenon

(* AppendGroup puts the group where recovery will find it. *)
LEMMA AppendGroupReads ==
  ASSUME TrackInv, ReadInv, NEW p \in Processes, AppendGroup(p) PROVE ReadInv'
<1>1. PICK v, e : v = writer[p] /\ e = writer[p].epoch
  OBVIOUS
<1>2. /\ UNCHANGED <<root, logs, op, shared>> /\ pc[p] = "idle" /\ v # NoWriter
      /\ v.next < MaxDelta
      /\ \/ writer' = [writer EXCEPT ![p].stale = TRUE] /\ UNCHANGED <<deltas, acked>>
         \/ \E s \in GroupSequences :
              /\ v.next \notin DOMAIN deltas[e]
              /\ deltas' = [deltas EXCEPT ![e] = With(@, v.next, s)]
              /\ writer' = [writer EXCEPT ![p].next = @ + 1, ![p].groups = Append(@, s)]
              /\ acked' = [acked EXCEPT ![e] = @ \cup {s}]
  BY <1>1, Zenon DEF AppendGroup, Stale, past
<1>3. /\ e \in Epochs /\ e <= root /\ logs[e] # NoLog /\ DOMAIN writer = Processes
      /\ DOMAIN logs = Epochs /\ DOMAIN deltas = Epochs /\ DOMAIN acked = Epochs
      /\ op[p] # "writer" /\ "epoch" \in DOMAIN v
      /\ ~shared => Writes(p) /\ Knows(v, e) /\ \A x \in Epochs : x > e => Fresh(x)
  BY <1>1, <1>2, WriterFacts, Zenon
<1>4. CASE writer' = [writer EXCEPT ![p].stale = TRUE] /\ UNCHANGED <<deltas, acked>>
  <2>1. PICK w : w = [v EXCEPT !.stale = TRUE]
    OBVIOUS
  <2>2. /\ writer'[p] = w /\ \A q \in Processes \ {p} : writer'[q] = writer[q]
        /\ w.epoch = e
    BY <1>1, <1>3, <1>4, <2>1, Zenon
  <2>3. ASSUME ~shared PROVE Knows(w, e)
    <3>1. Knows(v, e)
      BY <1>3, <2>3, Zenon
    <3>2. {"epoch", "version", "from", "stale", "next", "groups"} \subseteq DOMAIN v
      BY <3>1, Zenon DEF Knows
    <3>3. w.next = v.next /\ w.from = v.from /\ w.groups = v.groups /\ DOMAIN w = DOMAIN v
      BY <2>1, <3>2, Zenon
    <3>4. QED
      BY <3>1, <3>3, Zenon DEF Knows
  <2>4. ~shared => Knows(w, e)'
    BY <1>2, <1>4, <2>3, KnowsSame, Zenon
  <2>5. QED
    BY <1>2, <1>3, <1>4, <2>2, <2>4, EpochKeeps, Zenon
<1>5. ASSUME NEW s \in GroupSequences,
             v.next \notin DOMAIN deltas[e],
             deltas' = [deltas EXCEPT ![e] = With(@, v.next, s)],
             writer' = [writer EXCEPT ![p].next = @ + 1, ![p].groups = Append(@, s)],
             acked' = [acked EXCEPT ![e] = @ \cup {s}]
      PROVE  ReadInv'
  <2>1. PICK w, n : w = [v EXCEPT !.next = @ + 1, !.groups = Append(@, s)] /\ n = v.next
    OBVIOUS
  <2>2. /\ writer'[p] = w /\ \A q \in Processes \ {p} : writer'[q] = writer[q]
        /\ w.epoch = e
    BY <1>1, <1>3, <1>5, <2>1, Zenon
  <2>3. /\ DOMAIN deltas' = Epochs /\ DOMAIN acked' = Epochs
        /\ \A x \in Epochs \ {e} : deltas'[x] = deltas[x] /\ acked'[x] = acked[x]
        /\ acked'[e] = acked[e] \cup {s}
        /\ deltas'[e] = With(deltas[e], n, s)
    BY <1>3, <1>5, <2>1, Zenon
  <2>4. /\ DOMAIN deltas'[e] = DOMAIN deltas[e] \cup {n} /\ deltas'[e][n] = s
        /\ \A m \in DOMAIN deltas[e] : deltas'[e][m] = deltas[e][m]
    <3>1. PICK f, g : f = deltas[e] /\ g = deltas'[e]
      OBVIOUS
    <3>2. g = [j \in DOMAIN f \cup {n} |-> IF j = n THEN s ELSE f[j]] /\ n \notin DOMAIN f
      BY <1>5, <2>1, <2>3, <3>1, Zenon DEF With
    <3>3. DOMAIN g = DOMAIN f \cup {n} /\ g[n] = s
      BY <3>2, Zenon
    <3>4. \A m \in DOMAIN f : g[m] = f[m]
      BY <3>2, Zenon
    <3>5. QED
      BY <3>1, <3>3, <3>4, Zenon
  <2>5. ASSUME ~shared PROVE Knows(w, e)'
    <3>1. Knows(v, e) /\ Filled(e, n)
      BY <1>3, <2>1, <2>5, Zenon DEF Knows
    <3>2. PICK o : o = logs[e].openFrom
      OBVIOUS
    <3>3. /\ v.groups \in Seq(GroupSequences) /\ v.from = o
          /\ {"epoch", "version", "from", "stale", "next", "groups"} \subseteq DOMAIN v
          /\ \A m \in DOMAIN deltas[e] : deltas[e][m] \in Elems(v.groups)
      BY <3>1, <3>2, Zenon DEF Knows
    <3>4. /\ w.next = n + 1 /\ w.groups = Append(v.groups, s) /\ w.from = o
          /\ {"epoch", "version", "from", "stale", "next", "groups"} \subseteq DOMAIN w
      BY <2>1, <3>3, Zenon
    <3>5. /\ logs[e].sealed \in Seq(GroupSequences) /\ o \in Nat /\ n \in o .. MaxDelta
          /\ DOMAIN deltas[e] = o .. n - 1
          /\ \A m \in DOMAIN deltas[e] : deltas[e][m] \in GroupSequences
          /\ \A a \in acked[e] :
                a \in Elems(logs[e].sealed) \/ \E m \in DOMAIN deltas[e] : a = deltas[e][m]
      BY <3>1, <3>2, Zenon DEF Filled
    <3>6. n < MaxDelta /\ MaxDelta \in Nat
      BY <1>2, <2>1, TrackAssumption, Zenon
    <3>7. n + 1 \in o .. MaxDelta /\ (o .. n - 1) \cup {n} = o .. (n + 1) - 1
      BY <3>5, <3>6
    <3>8. DOMAIN deltas'[e] = o .. (n + 1) - 1
      BY <2>4, <3>5, <3>7, Zenon
    <3>9. /\ \A m \in DOMAIN deltas'[e] : deltas'[e][m] \in GroupSequences
          /\ \A a \in acked'[e] :
                a \in Elems(logs[e].sealed) \/ \E m \in DOMAIN deltas'[e] : a = deltas'[e][m]
      <4>1. PICK f, g, k : f = deltas[e] /\ g = deltas'[e] /\ k = Elems(logs[e].sealed)
        OBVIOUS
      <4>2. /\ DOMAIN g = DOMAIN f \cup {n} /\ g[n] = s /\ \A m \in DOMAIN f : g[m] = f[m]
            /\ \A m \in DOMAIN f : f[m] \in GroupSequences
            /\ \A a \in acked[e] : a \in k \/ \E m \in DOMAIN f : a = f[m]
        BY <2>4, <3>5, <4>1, Zenon
      <4>3. \A m \in DOMAIN g : g[m] \in GroupSequences
        BY <4>2, Zenon
      <4>4. s = g[n] /\ n \in DOMAIN g
        BY <4>2, Zenon
      <4>5. \A a \in acked[e] : a \in k \/ \E m \in DOMAIN g : a = g[m]
        BY <4>2, Zenon
      <4>6. \A a \in acked[e] \cup {s} : a \in k \/ \E m \in DOMAIN g : a = g[m]
        BY <4>4, <4>5, Zenon
      <4>7. QED
        BY <2>3, <4>1, <4>3, <4>6, Zenon
    <3>10. PICK t : t = n + 1
      OBVIOUS
    <3>11. Filled(e, t)'
      BY <1>2, <3>2, <3>5, <3>7, <3>8, <3>9, <3>10, Zenon DEF Filled
    <3>12. PICK g : g = Append(v.groups, s)
      OBVIOUS
    <3>13. g \in Seq(GroupSequences) /\ s \in Elems(g) /\ \A x \in Elems(v.groups) : x \in Elems(g)
      BY <3>3, <3>12, Appends, Zenon
    <3>14. \A m \in DOMAIN deltas'[e] : deltas'[e][m] \in Elems(g)
      BY <2>4, <3>3, <3>13, Zenon
    <3>15. QED
      BY <1>2, <3>2, <3>4, <3>10, <3>11, <3>12, <3>13, <3>14, Zenon DEF Knows
  <2>6. QED
    BY <1>2, <1>3, <2>2, <2>3, <2>5, EpochKeeps, ZenonT(40)
<1>6. QED
  BY <1>2, <1>4, <1>5, Zenon

(* A reload reads what there is. *)
LEMMA ReloadReads == ASSUME TrackInv, ReadInv, NEW p \in Processes, Reload(p) PROVE ReadInv'
<1>1. PICK e : e = writer[p].epoch
  OBVIOUS
<1>2. PICK w : w = Recovered(e)
  OBVIOUS
<1>3. /\ UNCHANGED <<root, logs, deltas, acked, shared, op>> /\ pc[p] = "idle"
      /\ writer[p] # NoWriter /\ writer' = [writer EXCEPT ![p] = w]
  BY <1>1, <1>2, Zenon DEF Reload, Set, store, past
<1>4. /\ e \in Epochs /\ e <= root /\ logs[e] # NoLog /\ DOMAIN writer = Processes
      /\ DOMAIN deltas = Epochs /\ DOMAIN acked = Epochs /\ op[p] # "writer"
      /\ ~shared => Writes(p) /\ Knows(writer[p], e) /\ \A x \in Epochs : x > e => Fresh(x)
  BY <1>1, <1>3, WriterFacts, Zenon
<1>5. w.epoch = e /\ writer'[p] = w /\ \A q \in Processes \ {p} : writer'[q] = writer[q]
  BY <1>2, <1>3, <1>4, Zenon DEF Recovered
<1>6. ~shared => Knows(w, e)
  <2>1. PICK t : t = writer[p].next
    OBVIOUS
  <2>2. ~shared => Filled(e, t)
    BY <1>4, <2>1, Zenon DEF Knows
  <2>3. QED
    BY <1>2, <2>2, RecoveredKnows, Zenon
<1>7. ~shared => Knows(w, e)'
  BY <1>3, <1>6, KnowsSame, Zenon
<1>8. QED
  BY <1>3, <1>4, <1>5, <1>7, EpochKeeps, Zenon

(* A seal moves the open groups to a run. *)
LEMMA SealReads == ASSUME TrackInv, ReadInv, NEW p \in Processes, Seal(p) PROVE ReadInv'
<1>1. PICK v, e : v = writer[p] /\ e = writer[p].epoch
  OBVIOUS
<1>2. PICK l, d, w :
        /\ l = [sealed |-> logs[e].sealed \o v.groups, openFrom |-> v.next,
                version |-> logs[e].version + 1]
        /\ d = [m \in DOMAIN deltas[e] \ (v.from .. v.next - 1) |-> deltas[e][m]]
        /\ w = [v EXCEPT !.groups = <<>>, !.from = v.next, !.version = @ + 1]
  BY Zenon
<1>3. /\ UNCHANGED <<root, acked, op, shared>> /\ pc[p] = "idle" /\ v # NoWriter
      /\ logs' = [logs EXCEPT ![e] = l] /\ deltas' = [deltas EXCEPT ![e] = d]
      /\ writer' = [writer EXCEPT ![p] = w]
  BY <1>1, <1>2, Zenon DEF Seal, past
<1>4. /\ e \in Epochs /\ e <= root /\ logs[e] # NoLog /\ DOMAIN writer = Processes
      /\ DOMAIN logs = Epochs /\ DOMAIN deltas = Epochs /\ DOMAIN acked = Epochs
      /\ op[p] # "writer" /\ "epoch" \in DOMAIN v
      /\ ~shared => Writes(p) /\ Knows(v, e) /\ \A x \in Epochs : x > e => Fresh(x)
  BY <1>1, <1>3, WriterFacts, Zenon
<1>5. /\ w.epoch = e /\ writer'[p] = w /\ \A q \in Processes \ {p} : writer'[q] = writer[q]
      /\ logs'[e] = l /\ deltas'[e] = d /\ DOMAIN deltas' = Epochs
      /\ \A x \in Epochs \ {e} : logs'[x] = logs[x] /\ deltas'[x] = deltas[x]
  BY <1>1, <1>2, <1>3, <1>4, Zenon
<1>6. logs'[e] # NoLog
  <2>1. PICK a, b, c : l = [sealed |-> a, openFrom |-> b, version |-> c]
    BY <1>2, Zenon
  <2>2. [sealed |-> a, openFrom |-> b, version |-> c] # NoLog
    BY SomeLog, Zenon
  <2>3. QED
    BY <1>5, <2>1, <2>2, Zenon
<1>7. ASSUME ~shared PROVE Knows(w, e)'
  <2>1. PICK n, o : n = v.next /\ o = logs[e].openFrom
    OBVIOUS
  <2>2. Knows(v, e) /\ Filled(e, n)
    BY <1>4, <1>7, <2>1, Zenon DEF Knows
  <2>3. /\ v.groups \in Seq(GroupSequences) /\ v.from = o
        /\ {"epoch", "version", "from", "stale", "next", "groups"} \subseteq DOMAIN v
        /\ \A m \in DOMAIN deltas[e] : deltas[e][m] \in Elems(v.groups)
    BY <2>1, <2>2, Zenon DEF Knows
  <2>4. /\ logs[e].sealed \in Seq(GroupSequences) /\ o \in Nat /\ n \in o .. MaxDelta
        /\ DOMAIN deltas[e] = o .. n - 1
        /\ \A a \in acked[e] :
              a \in Elems(logs[e].sealed) \/ \E m \in DOMAIN deltas[e] : a = deltas[e][m]
    BY <2>1, <2>2, Zenon DEF Filled
  <2>5. /\ w.groups = <<>> /\ w.from = n /\ w.next = n
        /\ {"epoch", "version", "from", "stale", "next", "groups"} \subseteq DOMAIN w
    BY <1>2, <2>1, <2>3, Zenon
  <2>6. n \in Nat /\ n \in n .. MaxDelta /\ n .. n - 1 = {} /\ <<>> \in Seq(GroupSequences)
    BY <2>4, TrackAssumption
  <2>7. DOMAIN d = {}
    BY <1>2, <2>1, <2>3, <2>4, Zenon
  <2>8. PICK sl : sl = logs[e].sealed \o v.groups
    OBVIOUS
  <2>9. /\ sl \in Seq(GroupSequences)
        /\ \A x : x \in Elems(logs[e].sealed) \/ x \in Elems(v.groups) => x \in Elems(sl)
    BY <2>3, <2>4, <2>8, Joins, Zenon
  <2>10. l.sealed = sl /\ l.openFrom = n
    BY <1>2, <2>1, <2>8, Zenon
  <2>11. \A a \in acked[e] : a \in Elems(sl)
    BY <2>3, <2>4, <2>9, Zenon
  <2>12. Filled(e, n)'
    BY <1>3, <1>5, <2>6, <2>7, <2>9, <2>10, <2>11, Zenon DEF Filled
  <2>13. QED
    BY <1>5, <2>5, <2>6, <2>7, <2>10, <2>12, Zenon DEF Knows
<1>8. QED
  BY <1>3, <1>4, <1>5, <1>6, <1>7, EpochKeeps, Zenon

-----------------------------------------------------------------------------
(* The two invariants together are inductive. *)
LEMMA NextReads == TrackInv /\ ReadInv /\ [Next]_vars => ReadInv'
<1> SUFFICES ASSUME TrackInv, ReadInv, [Next]_vars PROVE ReadInv'
  OBVIOUS
<1>1. CASE UNCHANGED vars
  <2>1. UNCHANGED <<root, logs, deltas, acked, shared, writer, op, want>>
    BY <1>1, Zenon DEF vars, store, handles, past
  <2>2. TrackInv' /\ Grows
    BY <1>1, <2>1, NextTrackInv, EpochNumbers DEF Grows
  <2>3. QED
    BY <2>1, <2>2, StepKeeps, Zenon
<1>2. CASE Next
  BY <1>2, CreateReads, OpenReads, WriterReads, NewEpochReads, CreateEpochLogReads,
     AdvanceTrackRootReads, RefetchRootReads, FetchLogReads, CallFailsReads, CrashReads,
     AppendGroupReads, ReloadReads, SealReads, Zenon
  DEF Next
<1>3. QED
  BY <1>1, <1>2, Zenon

(* Nothing is written at first. *)
LEMMA InitReads == Init => ReadInv
<1> SUFFICES ASSUME Init PROVE ReadInv
  OBVIOUS
<1>1. /\ \A e \in Epochs : logs[e] = NoLog /\ deltas[e] = <<>> /\ acked[e] = {}
      /\ DOMAIN deltas = Epochs /\ DOMAIN acked = Epochs /\ shared \in BOOLEAN
      /\ \A p \in Processes : writer[p] = NoWriter /\ op[p] = "none"
  BY Zenon DEF Init
<1>2. DOMAIN <<>> = {}
  OBVIOUS
<1>3. \A e \in Epochs : Fresh(e)
  BY <1>1, <1>2, Zenon DEF Fresh
<1>4. Alone /\ LaterEmpty /\ LogsKept /\ \A p \in Processes : WriterKnows(p)
  BY <1>1, <1>3, Zenon DEF Alone, Writes, LaterEmpty, LogsKept, WriterKnows
<1>5. QED
  BY <1>1, <1>4, Zenon DEF ReadInv

(* So what the Writers know and what the store has agree in every state.   *)
LEMMA ReadInvariant == Spec => []ReadInv
  BY InitReads, NextReads, TrackInvariant, PTL DEF Spec

(* While Writers take turns, each through a handle that has the latest     *)
(* root, every group whose append returned is found in its epoch, through  *)
(* any number of processes, crashes, orphaned epochs, reloads and seals.   *)
THEOREM AppendedStaysReadable == Spec => []AppendedReadable
<1>1. ASSUME ReadInv PROVE AppendedReadable
  <2>1. ASSUME ~shared, NEW e \in Epochs, logs[e] # NoLog, NEW s \in acked[e]
        PROVE  s \in Readable(e)
    <3>1. PICK t \in 0 .. MaxDelta : Filled(e, t)
      BY <1>1, <2>1, Zenon DEF ReadInv, LogsKept
    <3>2. Tip(e) = t
      BY <3>1, TipFacts, Zenon
    <3>3. QED
      BY <3>1, <3>2, Zenon DEF Filled, Readable, Elems
  <2>2. QED
    BY <2>1, Zenon DEF AppendedReadable
<1>2. QED
  BY <1>1, ReadInvariant, PTL

===============================================================================
