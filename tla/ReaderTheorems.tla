---------------------------- MODULE ReaderTheorems -----------------------------
(***************************************************************************)
(* Proofs about a Reader beside one producer that moves with the track     *)
(* root (StrayEpoch = FALSE), for any number of epochs and groups, any     *)
(* seeks and requests failing anywhere.                                    *)
(***************************************************************************)
EXTENDS Reader, TLAPS

(* A log root of epoch e, the one stored or an older one: its runs are in  *)
(* order and cover what is below OpenFrom, all of it committed.            *)
LogOf(log, e, committed) ==
    /\ log \in Log /\ log.epoch = e
    /\ log.openFrom <= committed
    /\ \A n \in Numbers : n < log.openFrom => Covering(log, n) # {}
    /\ \A i \in DOMAIN log.runs : log.runs[i].last < log.openFrom
    /\ \A i, j \in DOMAIN log.runs : i < j => log.runs[i].last < log.runs[j].first

TrackTypes ==
    /\ latest \in Epochs
    /\ logs \in [Epochs -> Log \cup {NoLog}]
    /\ deltas \in [Epochs -> SUBSET Numbers]
    /\ head \in [Epochs -> Numbers \cup {-1}]
    /\ count \in [Epochs -> 0 .. MaxGroups]
    /\ writing \in Epochs
    /\ busy \in {"no", "head", "sweep", "root"}
    /\ sweep \in 0 .. MaxGroups

ReaderTypes ==
    /\ known \in Epochs
    /\ epoch1Log \in Log
    /\ epoch \in Epochs
    /\ logRoot \in Log
    /\ next \in 0 .. MaxGroups
    /\ misses \in 0 .. 2 * RecheckEvery
    /\ batch \in Seq(Numbers)
    /\ at \in ReaderSteps \cup {"closed", "idle"}
    /\ target \in Numbers
    /\ due \in Epochs \X (0 .. MaxGroups)
    /\ seen \subseteq Epochs \X Numbers
    /\ torn \in BOOLEAN

(* What the store holds: log roots for the epochs the track root names,    *)
(* every committed group either below OpenFrom or in its delta, and        *)
(* nothing in the epochs to come.                                          *)
StoreInv ==
    /\ writing = latest
    /\ \A e \in Epochs : e <= latest => LogOf(logs[e], e, count[e])
    /\ \A e \in Epochs : e > latest => count[e] = 0 /\ logs[e] \in {NoLog, NewLog(e)}
    /\ \A e \in Epochs : \A n \in deltas[e] : n < count[e]
    /\ \A e \in Epochs : e <= latest =>
        \A n \in Numbers : logs[e].openFrom <= n /\ n < count[e] => n \in deltas[e]
    /\ \A e \in Epochs : head[e] < count[e]
    /\ busy = "sweep" => sweep < logs[writing].openFrom
    /\ busy = "root" => writing < MaxEpoch /\ logs[writing + 1] = NewLog(writing + 1)

(* Where the Reader is. *)
PlaceInv ==
    /\ known <= latest /\ epoch <= known
    /\ at = "step" => epoch < known

(* The log roots it keeps are of their epochs, and final when it knows of  *)
(* a newer one.                                                            *)
RootsInv ==
    /\ LogOf(logRoot, epoch, count[epoch]) /\ LogOf(epoch1Log, 1, count[1])
    /\ at \notin {"closed", "first", "log"} /\ epoch < known => logRoot = logs[epoch]
    /\ at \notin {"closed", "first"} /\ ~(at = "log" /\ epoch = 1) /\ 1 < known =>
        epoch1Log = logs[1]

Yielded ==
    \A g \in Committed :
        ~Earlier(g, due) /\ Earlier(g, <<epoch, next>>) => g \in seen \/ InBatch(g)

(* The cursor is at the end of an epoch that is left, and not past the     *)
(* first group owed while SeekAfter looks for it.                          *)
CursorInv ==
    /\ next <= count[epoch]
    /\ at = "step" => batch = <<>> /\ next = count[epoch]
    /\ at \in {"locate", "probe"} =>
        /\ epoch <= due[1]
        /\ epoch = due[1] => due[2] = target + 1
    /\ at = "probe" /\ epoch = due[1] => next <= target + 1
    /\ Yielded

ReaderInv ==
    /\ TrackTypes /\ ReaderTypes /\ StoreInv /\ PlaceInv
    /\ Whole => RootsInv /\ CursorInv

Span == [first : Numbers, last : Numbers]

-----------------------------------------------------------------------------
(* Facts about log roots, runs and batches. *)

(* A sequence and its elements. *)
LEMMA SeqFacts ==
  ASSUME NEW S, NEW s \in Seq(S)
  PROVE  /\ Len(s) \in Nat /\ DOMAIN s = 1 .. Len(s)
         /\ \A i \in DOMAIN s : s[i] \in S
  OBVIOUS

(* A sequence and one element more. *)
LEMMA AppendFacts ==
  ASSUME NEW S, NEW s \in Seq(S), NEW x \in S
  PROVE  /\ Append(s, x) \in Seq(S) /\ DOMAIN Append(s, x) = 1 .. Len(s) + 1
         /\ \A i \in DOMAIN s : Append(s, x)[i] = s[i]
         /\ Append(s, x)[Len(s) + 1] = x
  OBVIOUS

(* The fields of a log root. *)
LEMMA LogFields ==
  ASSUME NEW log \in Log
  PROVE  /\ log.epoch \in Epochs /\ log.openFrom \in 0 .. MaxGroups
         /\ log.runs \in Seq(Span) /\ Len(log.runs) \in Nat
         /\ DOMAIN log.runs = 1 .. Len(log.runs)
         /\ \A i \in DOMAIN log.runs : log.runs[i].first \in Numbers /\ log.runs[i].last \in Numbers
<1>1. log.epoch \in Epochs /\ log.openFrom \in 0 .. MaxGroups /\ log.runs \in Seq(Span)
  BY Zenon DEF Log, Span
<1>2. \A run \in Span : run.first \in Numbers /\ run.last \in Numbers
  BY Zenon DEF Span
<1>3. QED
  BY <1>1, <1>2, SeqFacts, Zenon

(* More may be committed under a log root. *)
LEMMA LogGrows ==
  ASSUME NEW log, NEW e, NEW m \in Int, NEW n \in Int, LogOf(log, e, m), m <= n
  PROVE  LogOf(log, e, n)
<1>1. log.openFrom \in Int
  BY LogFields DEF LogOf
<1>2. log.openFrom <= n
  BY <1>1 DEF LogOf
<1>3. QED
  BY <1>2, Zenon DEF LogOf

(* The log root of an epoch that begins. *)
LEMMA NewLogOf ==
  ASSUME NEW e \in Epochs, NEW n \in Nat
  PROVE  LogOf(NewLog(e), e, n) /\ NewLog(e).openFrom = 0
<1>1. NewLog(e) \in Log /\ NewLog(e).runs = <<>> /\ NewLog(e).openFrom = 0 /\ NewLog(e).epoch = e
  BY TrackBoundsAssumption DEF NewLog, Log
<1>2. QED
  BY <1>1 DEF LogOf, Numbers

(* The log root a seal swaps in. *)
Sealed(log, c) ==
    [epoch |-> log.epoch, openFrom |-> c,
     runs |-> Append(log.runs, [first |-> log.openFrom, last |-> c - 1])]

(* A seal keeps a log root in order and covering. *)
LEMMA SealedLog ==
  ASSUME NEW log, NEW e, NEW c \in 0 .. MaxGroups, LogOf(log, e, c), log.openFrom < c
  PROVE  LogOf(Sealed(log, c), e, c) /\ Sealed(log, c).openFrom = c
<1> DEFINE new == Sealed(log, c)
<1> DEFINE run == [first |-> log.openFrom, last |-> c - 1]
<1>1. /\ log \in Log /\ log.openFrom \in 0 .. MaxGroups /\ log.runs \in Seq(Span)
      /\ Len(log.runs) \in Nat /\ DOMAIN log.runs = 1 .. Len(log.runs)
      /\ \A i \in DOMAIN log.runs : log.runs[i].first \in Numbers /\ log.runs[i].last \in Numbers
  BY LogFields, Zenon DEF LogOf
<1>2. run \in Span /\ run.first = log.openFrom /\ run.last = c - 1
  BY <1>1, TrackBoundsAssumption DEF Span, Numbers
<1>3. /\ new.runs = Append(log.runs, run) /\ new.openFrom = c /\ new.epoch = log.epoch
      /\ new \in Log
  <2>1. Append(log.runs, run) \in Seq(Span)
    BY <1>1, <1>2, AppendFacts, Zenon
  <2>2. new = [epoch |-> log.epoch, runs |-> Append(log.runs, run), openFrom |-> c]
    BY Zenon DEF Sealed
  <2>3. QED
    BY <1>1, <2>1, <2>2 DEF Log, Span
<1> HIDE DEF run, new
<1>4. /\ DOMAIN new.runs = 1 .. Len(log.runs) + 1
      /\ \A i \in DOMAIN log.runs : new.runs[i] = log.runs[i]
      /\ new.runs[Len(log.runs) + 1] = run
  BY <1>1, <1>2, <1>3
<1>5. \A i \in DOMAIN log.runs : new.runs[i].last < log.openFrom
  BY <1>4, Zenon DEF LogOf
<1>6. \A i \in DOMAIN new.runs : new.runs[i].last < new.openFrom
  <2>1. \A i \in DOMAIN new.runs : i \in DOMAIN log.runs \/ i = Len(log.runs) + 1
    BY <1>1, <1>4
  <2>2. \A i \in DOMAIN log.runs : new.runs[i].last < new.openFrom
    <3>1. \A i \in DOMAIN log.runs : new.runs[i].last \in Int
      BY <1>1, <1>4 DEF Numbers
    <3>2. QED
      BY <1>1, <1>3, <1>5, <3>1
  <2>3. new.runs[Len(log.runs) + 1].last < new.openFrom
    BY <1>2, <1>3, <1>4
  <2>4. QED
    BY <2>1, <2>2, <2>3, Zenon
<1>7. ASSUME NEW i \in DOMAIN new.runs, NEW j \in DOMAIN new.runs, i < j
      PROVE  new.runs[i].last < new.runs[j].first
  <2>1. i \in DOMAIN log.runs /\ (j \in DOMAIN log.runs \/ j = Len(log.runs) + 1)
    BY <1>1, <1>4, <1>7
  <2>2. CASE j \in DOMAIN log.runs
    BY <1>4, <1>7, <2>1, <2>2, Zenon DEF LogOf
  <2>3. CASE j = Len(log.runs) + 1
    BY <1>2, <1>4, <1>5, <2>1, <2>3, Zenon
  <2>4. QED
    BY <2>1, <2>2, <2>3, Zenon
<1>8. ASSUME NEW n \in Numbers, n < new.openFrom PROVE Covering(new, n) # {}
  <2>1. CASE n < log.openFrom
    <3>1. PICK i \in DOMAIN log.runs : log.runs[i].first <= n /\ n <= log.runs[i].last
      BY <2>1, Zenon DEF LogOf, Covering
    <3>2. i \in DOMAIN new.runs
      BY <1>1, <1>4
    <3>3. QED
      BY <1>4, <3>1, <3>2, Zenon DEF Covering
  <2>2. CASE ~(n < log.openFrom)
    <3>1. run.first <= n /\ n <= run.last /\ Len(log.runs) + 1 \in DOMAIN new.runs
      BY <1>1, <1>2, <1>3, <1>4, <1>8, <2>2 DEF Numbers
    <3>2. QED
      BY <1>4, <3>1, Zenon DEF Covering
  <2>3. QED
    BY <2>1, <2>2, Zenon
<1>9. new.epoch = e /\ new.openFrom <= c
  BY <1>3 DEF LogOf
<1>10. QED
  BY <1>3, <1>6, <1>7, <1>8, <1>9, Zenon DEF LogOf, new

(* The groups of a run, as a batch. *)
LEMMA FromFacts ==
  ASSUME NEW first \in Numbers, NEW last \in Numbers
  PROVE  /\ From(first, last) \in Seq(Numbers)
         /\ \A n \in Numbers : first <= n /\ n <= last =>
                \E i \in DOMAIN From(first, last) : From(first, last)[i] = n
<1>1. first \in Int /\ last \in Int /\ \A n \in Numbers : n \in Int
  BY DEF Numbers
<1>2. From(first, last) \in Seq(Numbers)
  <2>1. PICK k \in Nat : 1 .. last - first + 1 = 1 .. k
    <3>1. CASE last - first + 1 \in Nat
      BY <3>1, Zenon
    <3>2. CASE last - first + 1 \notin Nat
      <4>1. 1 .. last - first + 1 = 1 .. 0
        BY <1>1, <3>2
      <4>2. QED
        BY <4>1, Zenon
    <3>3. QED
      BY <3>1, <3>2, Zenon
  <2>2. \A i \in 1 .. last - first + 1 : first + i - 1 \in Numbers
    BY TrackBoundsAssumption DEF Numbers
  <2>3. From(first, last) \in [1 .. k -> Numbers]
    BY <2>1, <2>2, Zenon DEF From
  <2>4. QED
    BY <2>3
<1>3. ASSUME NEW n \in Numbers, first <= n, n <= last
      PROVE  \E i \in DOMAIN From(first, last) : From(first, last)[i] = n
  <2>1. n - first + 1 \in 1 .. last - first + 1 /\ first + (n - first + 1) - 1 = n
    BY <1>1, <1>3
  <2>2. QED
    BY <2>1, Zenon DEF From
<1>4. QED
  BY <1>2, <1>3, Zenon

(* What is left of a batch when its first group was yielded. *)
LEMMA TailFacts ==
  ASSUME NEW S, NEW s \in Seq(S), s # <<>>
  PROVE  /\ Head(s) \in S /\ Tail(s) \in Seq(S)
         /\ \A i \in DOMAIN s : s[i] = Head(s) \/ \E j \in DOMAIN Tail(s) : Tail(s)[j] = s[i]
<1>1. Head(s) \in S /\ Tail(s) \in Seq(S)
  OBVIOUS
<1>2. ASSUME NEW i \in DOMAIN s, i # 1 PROVE \E j \in DOMAIN Tail(s) : Tail(s)[j] = s[i]
  <2>1. i - 1 \in DOMAIN Tail(s) /\ Tail(s)[i - 1] = s[i]
    BY <1>2
  <2>2. QED
    BY <2>1, Zenon
<1>3. QED
  BY <1>1, <1>2

-----------------------------------------------------------------------------
(* The producer. *)

(* What a step of the producer leaves alone: an epoch before the latest is *)
(* final, and groups are only added.                                       *)
Grows ==
    /\ latest <= latest'
    /\ \A e \in Epochs : count[e] <= count'[e]
    /\ \A e \in Epochs \ {latest} : count'[e] = count[e]
    /\ \A e \in Epochs : e < latest => logs'[e] = logs[e]

(* What the producer counts with. *)
LEMMA Numbering ==
  ASSUME TrackTypes
  PROVE  /\ latest \in Nat /\ writing \in Nat /\ sweep \in Nat /\ MaxGroups \in Nat /\ MaxEpoch \in Nat
         /\ \A e \in Epochs : e \in Nat /\ count[e] \in Nat /\ head[e] \in Int
         /\ \A n \in Numbers : n \in Nat
  BY TrackBoundsAssumption DEF TrackTypes, Epochs, Numbers

(* A step that leaves groups, log roots and deltas alone. *)
LEMMA ObjectsFrame ==
  ASSUME TrackTypes, StoreInv, UNCHANGED <<latest, logs, deltas, count, writing>>,
         head' \in [Epochs -> Numbers \cup {-1}], \A e \in Epochs : head'[e] < count[e],
         busy' = "no" \/ UNCHANGED <<busy, sweep>>, sweep' = 0 \/ UNCHANGED sweep
  PROVE  TrackTypes' /\ StoreInv' /\ Grows
<1>1. TrackTypes'
  BY TrackBoundsAssumption DEF TrackTypes
<1>2. StoreInv'
  BY Zenon DEF StoreInv
<1>3. Grows
  BY Numbering DEF Grows
<1>4. QED
  BY <1>1, <1>2, <1>3, Zenon

(* The commit of a group. *)
LEMMA CommitKeeps ==
  ASSUME TrackTypes, StoreInv, Commit
  PROVE  TrackTypes' /\ StoreInv' /\ Grows
<1>1. /\ writing = latest /\ latest \in Epochs /\ count[latest] < MaxGroups /\ busy' = "head"
      /\ UNCHANGED <<latest, logs, head, writing, sweep>>
  BY Zenon DEF Commit, StoreInv, TrackTypes
<1>2. /\ deltas' = [deltas EXCEPT ![latest] = @ \cup {count[latest]}]
      /\ count' = [count EXCEPT ![latest] = @ + 1]
  BY <1>1, Zenon DEF Commit
<1>3. count[latest] \in Numbers /\ count[latest] + 1 \in 0 .. MaxGroups
  BY <1>1, Numbering DEF Numbers
<1>4. /\ count'[latest] = count[latest] + 1
      /\ deltas'[latest] = deltas[latest] \cup {count[latest]}
      /\ \A e \in Epochs \ {latest} : count'[e] = count[e] /\ deltas'[e] = deltas[e]
  BY <1>1, <1>2, Zenon DEF TrackTypes
<1>5. TrackTypes'
  <2>1. deltas' \in [Epochs -> SUBSET Numbers]
    BY <1>1, <1>2, <1>3, Zenon DEF TrackTypes
  <2>2. count' \in [Epochs -> 0 .. MaxGroups]
    BY <1>1, <1>2, <1>3, Zenon DEF TrackTypes
  <2>3. QED
    BY <1>1, <2>1, <2>2, Zenon DEF TrackTypes
<1>6. Grows
  BY <1>1, <1>4, Numbering DEF Grows
<1>7. \A e \in Epochs : e <= latest => LogOf(logs'[e], e, count'[e])
  <2>1. \A e \in Epochs : count[e] \in Int /\ count'[e] \in Int /\ count[e] <= count'[e]
    BY <1>4, Numbering
  <2>2. QED
    BY <1>1, <2>1, LogGrows, Zenon DEF StoreInv
<1>8. \A e \in Epochs : e > latest => count'[e] = 0 /\ logs'[e] \in {NoLog, NewLog(e)}
  <2>1. \A e \in Epochs : e > latest => e # latest
    BY Numbering
  <2>2. QED
    BY <1>1, <1>4, <2>1, Zenon DEF StoreInv
<1>9. \A e \in Epochs : \A n \in deltas'[e] : n < count'[e]
  <2>1. \A n \in deltas'[latest] : n < count'[latest]
    <3>1. \A n \in deltas[latest] : n < count[latest] /\ n \in Nat
      BY <1>1, Numbering, Zenon DEF StoreInv, TrackTypes
    <3>2. QED
      BY <1>1, <1>4, <3>1, Numbering
  <2>2. QED
    BY <1>4, <2>1, Zenon DEF StoreInv
<1>10. ASSUME NEW e \in Epochs, e <= latest, NEW n \in Numbers, logs'[e].openFrom <= n, n < count'[e]
       PROVE  n \in deltas'[e]
  <2>1. CASE e # latest
    BY <1>1, <1>4, <1>10, <2>1, Zenon DEF StoreInv
  <2>2. CASE e = latest
    <3>1. n < count[latest] \/ n = count[latest]
      BY <1>1, <1>4, <1>10, <2>2, Numbering
    <3>2. QED
      BY <1>1, <1>4, <1>10, <2>2, <3>1, Zenon DEF StoreInv
  <2>3. QED
    BY <2>1, <2>2, Zenon
<1>11. \A e \in Epochs : head'[e] < count'[e]
  BY <1>1, <1>4, Numbering DEF StoreInv
<1>12. StoreInv'
  BY <1>1, <1>7, <1>8, <1>9, <1>10, <1>11, Zenon DEF StoreInv
<1>13. QED
  BY <1>5, <1>6, <1>12, Zenon

(* The swap of the log root by a seal. *)
LEMMA SealKeeps ==
  ASSUME TrackTypes, StoreInv, Seal
  PROVE  TrackTypes' /\ StoreInv' /\ Grows
<1>1. /\ writing = latest /\ latest \in Epochs /\ logs[latest].openFrom < count[latest]
      /\ busy' = "sweep" /\ sweep' = logs[latest].openFrom
      /\ UNCHANGED <<latest, deltas, head, count, writing>>
  BY Zenon DEF Seal, StoreInv, TrackTypes
<1>2. /\ LogOf(logs[latest], latest, count[latest]) /\ count[latest] \in 0 .. MaxGroups
      /\ logs[latest] \in Log /\ logs[latest].openFrom \in 0 .. MaxGroups
  BY <1>1, LogFields, Numbering DEF StoreInv, TrackTypes, LogOf
<1>3. /\ logs'[latest] = Sealed(logs[latest], count[latest])
      /\ \A e \in Epochs \ {latest} : logs'[e] = logs[e]
      /\ DOMAIN logs' = Epochs /\ logs' = [e \in Epochs |-> logs'[e]]
  BY <1>1, <1>2, Zenon DEF Seal, TrackTypes, Log, Sealed
<1>4. LogOf(logs'[latest], latest, count[latest]) /\ logs'[latest].openFrom = count[latest]
  <2>1. /\ LogOf(Sealed(logs[latest], count[latest]), latest, count[latest])
        /\ Sealed(logs[latest], count[latest]).openFrom = count[latest]
    BY <1>1, <1>2, SealedLog, Zenon
  <2>2. QED
    BY <1>3, <2>1, Zenon
<1>5. TrackTypes'
  <2>1. \A e \in Epochs : logs'[e] \in Log \cup {NoLog}
    BY <1>3, <1>4, Zenon DEF TrackTypes, LogOf
  <2>2. logs' \in [Epochs -> Log \cup {NoLog}]
    BY <1>3, <2>1, Zenon
  <2>3. QED
    BY <1>1, <1>2, <2>2, Zenon DEF TrackTypes
<1>6. Grows
  BY <1>1, <1>3, Numbering DEF Grows
<1>7. \A e \in Epochs : e <= latest => LogOf(logs'[e], e, count[e])
  BY <1>3, <1>4, Zenon DEF StoreInv
<1>8. \A e \in Epochs : e > latest => count[e] = 0 /\ logs'[e] \in {NoLog, NewLog(e)}
  <2>1. \A e \in Epochs : e > latest => e # latest
    BY Numbering
  <2>2. QED
    BY <1>3, <2>1, Zenon DEF StoreInv
<1>9. ASSUME NEW e \in Epochs, e <= latest, NEW n \in Numbers, logs'[e].openFrom <= n, n < count[e]
      PROVE  n \in deltas[e]
  <2>1. CASE e # latest
    BY <1>3, <1>9, <2>1, Zenon DEF StoreInv
  <2>2. CASE e = latest
    BY <1>1, <1>4, <1>9, <2>2, Numbering
  <2>3. QED
    BY <2>1, <2>2, Zenon
<1>10. StoreInv'
  BY <1>1, <1>4, <1>7, <1>8, <1>9, Zenon DEF StoreInv
<1>11. QED
  BY <1>5, <1>6, <1>10, Zenon

(* The deletion of a delta that was sealed. *)
LEMMA ReclaimKeeps ==
  ASSUME TrackTypes, StoreInv, Reclaim
  PROVE  TrackTypes' /\ StoreInv' /\ Grows
<1>1. /\ writing = latest /\ latest \in Epochs /\ busy = "sweep"
      /\ UNCHANGED <<latest, logs, head, count, writing>>
  BY Zenon DEF Reclaim, StoreInv, TrackTypes
<1>2. /\ LogOf(logs[latest], latest, count[latest]) /\ logs[latest].openFrom \in 0 .. MaxGroups
      /\ sweep < logs[latest].openFrom
  BY <1>1, LogFields, Numbering DEF StoreInv, TrackTypes, LogOf
<1>3. /\ DOMAIN deltas' = Epochs /\ deltas' = [e \in Epochs |-> deltas'[e]]
      /\ \A e \in Epochs : deltas'[e] \subseteq deltas[e]
      /\ \A e \in Epochs : \A n \in deltas[e] : n \in deltas'[e] \/ (e = latest /\ n = sweep)
  BY <1>1 DEF Reclaim, TrackTypes
<1>4. \/ busy' = "no" /\ sweep' = 0
      \/ busy' = busy /\ sweep' = sweep + 1 /\ sweep + 1 # logs[latest].openFrom
  BY <1>1, Zenon DEF Reclaim
<1>5. TrackTypes'
  <2>1. \A e \in Epochs : deltas'[e] \in SUBSET Numbers
    BY <1>3, Zenon DEF TrackTypes
  <2>2. deltas' \in [Epochs -> SUBSET Numbers]
    BY <1>3, <2>1, Zenon
  <2>3. sweep' \in 0 .. MaxGroups /\ busy' \in {"no", "head", "sweep", "root"}
    BY <1>1, <1>2, <1>4, Numbering
  <2>4. QED
    BY <1>1, <2>2, <2>3, Zenon DEF TrackTypes
<1>6. Grows
  BY <1>1, Numbering DEF Grows
<1>7. ASSUME NEW e \in Epochs, e <= latest, NEW n \in Numbers, logs[e].openFrom <= n, n < count[e]
      PROVE  n \in deltas'[e]
  <2>1. n \in deltas[e]
    BY <1>7, Zenon DEF StoreInv
  <2>2. ~(e = latest /\ n = sweep)
    BY <1>2, <1>7, Numbering
  <2>3. QED
    BY <1>3, <2>1, <2>2, Zenon
<1>8. busy' = "sweep" => sweep' < logs[latest].openFrom
  BY <1>2, <1>4, Numbering
<1>9. \A e \in Epochs : \A n \in deltas'[e] : n < count[e]
  BY <1>3, Zenon DEF StoreInv
<1>10. busy' # "root"
  BY <1>1, <1>4, Zenon
<1>11. StoreInv'
  BY <1>1, <1>7, <1>8, <1>9, <1>10, Zenon DEF StoreInv
<1>12. QED
  BY <1>5, <1>6, <1>11, Zenon

(* NewEpoch creates the log root, *)
LEMMA CreateKeeps ==
  ASSUME TrackTypes, StoreInv, CreateEpochLog
  PROVE  TrackTypes' /\ StoreInv' /\ Grows
<1>1. /\ writing = latest /\ latest \in Epochs /\ latest < MaxEpoch /\ busy' = "root"
      /\ UNCHANGED <<latest, deltas, head, count, writing, sweep>>
  BY Zenon DEF CreateEpochLog, StoreInv, TrackTypes
<1>2. latest + 1 \in Epochs /\ latest + 1 > latest
  BY <1>1, Numbering DEF Epochs
<1>3. /\ logs'[latest + 1] = NewLog(latest + 1)
      /\ \A e \in Epochs \ {latest + 1} : logs'[e] = logs[e]
      /\ DOMAIN logs' = Epochs /\ logs' = [e \in Epochs |-> logs'[e]]
  BY <1>1, <1>2, Zenon DEF CreateEpochLog, TrackTypes, StoreInv
<1>4. LogOf(NewLog(latest + 1), latest + 1, 0)
  BY <1>2, NewLogOf, Zenon
<1>5. TrackTypes'
  <2>1. \A e \in Epochs : logs'[e] \in Log \cup {NoLog}
    BY <1>3, <1>4, Zenon DEF TrackTypes, LogOf
  <2>2. logs' \in [Epochs -> Log \cup {NoLog}]
    BY <1>3, <2>1, Zenon
  <2>3. QED
    BY <1>1, <2>2, Zenon DEF TrackTypes
<1>6. \A e \in Epochs : e <= latest => logs'[e] = logs[e]
  BY <1>2, <1>3, Numbering
<1>7. Grows
  BY <1>1, <1>6, Numbering DEF Grows
<1>8. \A e \in Epochs : e > latest => count[e] = 0 /\ logs'[e] \in {NoLog, NewLog(e)}
  BY <1>3, Zenon DEF StoreInv
<1>9. StoreInv'
  BY <1>1, <1>3, <1>6, <1>8, Zenon DEF StoreInv
<1>10. QED
  BY <1>5, <1>7, <1>9, Zenon

(* and then names the epoch in the track root and goes there. *)
LEMMA AdvanceKeeps ==
  ASSUME ~StrayEpoch, TrackTypes, StoreInv, AdvanceTrackRoot
  PROVE  TrackTypes' /\ StoreInv' /\ Grows
<1>1. /\ writing = latest /\ latest < MaxEpoch /\ logs[latest + 1] = NewLog(latest + 1)
      /\ latest' = latest + 1 /\ writing' = latest + 1 /\ busy' = "no"
      /\ UNCHANGED <<logs, deltas, head, count, sweep>>
  BY Numbering DEF AdvanceTrackRoot, StoreInv
<1>2. latest + 1 \in Epochs
  BY <1>1, Numbering DEF Epochs
<1>3. \A e \in Epochs : e <= latest + 1 => e <= latest \/ (e = latest + 1 /\ e > latest)
  BY Numbering
<1>4. \A e \in Epochs : e > latest + 1 => e > latest
  BY Numbering
<1>5. LogOf(logs[latest + 1], latest + 1, count[latest + 1])
  BY <1>1, <1>2, NewLogOf, Numbering, Zenon
<1>6. \A n \in Numbers : ~(n < count[latest + 1])
  BY <1>2, <1>3, Numbering DEF StoreInv
<1>7. TrackTypes'
  BY <1>1, <1>2, Zenon DEF TrackTypes
<1>8. StoreInv'
  BY <1>1, <1>2, <1>3, <1>4, <1>5, <1>6, Zenon DEF StoreInv
<1>9. Grows
  BY <1>1, Numbering DEF Grows
<1>10. QED
  BY <1>7, <1>8, <1>9, Zenon

(* Every step of a producer that moves with the track root. *)
LEMMA ProduceKeeps ==
  ASSUME ~StrayEpoch, TrackTypes, StoreInv, Produce
  PROVE  TrackTypes' /\ StoreInv' /\ Grows
<1>1. ASSUME PublishHead PROVE TrackTypes' /\ StoreInv' /\ Grows
  <2>1. /\ UNCHANGED <<latest, logs, deltas, count, writing, sweep>> /\ busy' = "no"
        /\ head' = [head EXCEPT ![writing] = count[writing] - 1] \/ UNCHANGED head
    BY <1>1, Zenon DEF PublishHead
  <2>2. count[writing] - 1 \in Numbers \cup {-1} /\ count[writing] - 1 < count[writing]
    BY Numbering DEF Numbers, TrackTypes
  <2>3. head' \in [Epochs -> Numbers \cup {-1}]
    BY <2>1, <2>2, Zenon DEF TrackTypes
  <2>4. \A e \in Epochs : head'[e] < count[e]
    BY <2>1, <2>2, Zenon DEF TrackTypes, StoreInv
  <2>5. QED
    BY <2>1, <2>3, <2>4, ObjectsFrame, Zenon
<1>2. ASSUME LoseHead PROVE TrackTypes' /\ StoreInv' /\ Grows
  <2>1. /\ UNCHANGED <<latest, logs, deltas, count, writing, busy, sweep>>
        /\ head' = [head EXCEPT ![writing] = -1]
    BY <1>2, Zenon DEF LoseHead, producer
  <2>2. -1 < count[writing]
    BY Numbering DEF TrackTypes
  <2>3. head' \in [Epochs -> Numbers \cup {-1}] /\ \A e \in Epochs : head'[e] < count[e]
    BY <2>1, <2>2, Zenon DEF TrackTypes, StoreInv
  <2>4. QED
    BY <2>1, <2>3, ObjectsFrame, Zenon
<1>3. ASSUME Restart PROVE TrackTypes' /\ StoreInv' /\ Grows
  BY <1>3, ObjectsFrame, Zenon DEF Restart, objects, TrackTypes, StoreInv
<1>4. QED
  BY <1>1, <1>2, <1>3, CommitKeeps, SealKeeps, ReclaimKeeps, CreateKeeps, AdvanceKeeps, Zenon
  DEF Produce

-----------------------------------------------------------------------------
(* The Reader. *)

(* What the Reader counts with. *)
LEMMA ReaderNumbering ==
  ASSUME TrackTypes, ReaderTypes
  PROVE  /\ known \in Nat /\ epoch \in Nat /\ next \in Nat /\ target \in Nat
         /\ 1 \in Epochs /\ latest \in Epochs /\ known \in Epochs /\ epoch \in Epochs
         /\ \A e \in Epochs : 1 <= e
         /\ \A e \in Nat : 1 <= e /\ e <= known => e \in Epochs
         /\ due[1] \in Nat /\ due[2] \in Nat /\ latest \in Nat /\ MaxGroups \in Nat
         /\ \A e \in Epochs : e \in Nat /\ count[e] \in Nat
         /\ \A g \in Committed : g[1] \in Epochs /\ g[2] \in Numbers /\ g[2] < count[g[1]]
         /\ \A n \in Numbers : n \in Nat
<1>1. known \in Epochs /\ epoch \in Epochs /\ latest \in Epochs /\ target \in Numbers
  BY Zenon DEF TrackTypes, ReaderTypes
<1>2. next \in Nat /\ due[1] \in Nat /\ due[2] \in Nat
  BY TrackBoundsAssumption DEF ReaderTypes, Epochs
<1>3. 1 \in Epochs /\ \A e \in Epochs : 1 <= e /\ e <= MaxEpoch
  BY TrackBoundsAssumption DEF Epochs
<1>4. \A e \in Nat : 1 <= e /\ e <= known => e \in Epochs
  BY <1>1, TrackBoundsAssumption DEF Epochs
<1>5. \A g \in Committed : g[1] \in Epochs /\ g[2] \in Numbers /\ g[2] < count[g[1]]
  BY Zenon DEF Committed
<1>6. QED
  BY <1>1, <1>2, <1>3, <1>4, <1>5, Numbering, Zenon

(* A step of the producer leaves the Reader what it has. *)
LEMMA ElsewhereKeeps ==
  ASSUME ~StrayEpoch, ReaderInv, Elsewhere
  PROVE  ReaderInv'
<1>1. UNCHANGED <<known, epoch1Log, epoch, logRoot, next, misses, batch, at, target, due, seen, torn>>
  BY Zenon DEF Elsewhere, readerVars, cursor, owed
<1>2. TrackTypes' /\ StoreInv' /\ Grows
  BY ProduceKeeps, Zenon DEF ReaderInv, Elsewhere
<1>3. ReaderTypes'
  BY <1>1, Zenon DEF ReaderInv, ReaderTypes
<1>4. /\ latest <= latest' /\ latest' \in Nat
      /\ \A e \in Epochs : count'[e] \in Nat /\ count[e] <= count'[e]
      /\ \A e \in Epochs : e < latest => count'[e] = count[e] /\ logs'[e] = logs[e]
      /\ \A e \in Epochs \ {latest} : count'[e] = count[e]
  <2>1. latest' \in Nat /\ \A e \in Epochs : count'[e] \in Nat
    BY <1>2 DEF TrackTypes, Epochs
  <2>2. \A e \in Epochs : e < latest => e # latest
    BY ReaderNumbering DEF ReaderInv
  <2>3. QED
    BY <1>2, <2>1, <2>2, Zenon DEF Grows
<1>5. PlaceInv'
  BY <1>1, <1>4, ReaderNumbering DEF ReaderInv, PlaceInv
<1>6. ASSUME Whole' PROVE RootsInv' /\ CursorInv'
  <2>1. RootsInv /\ CursorInv /\ epoch \in Epochs /\ 1 \in Epochs
    BY <1>1, <1>6, ReaderNumbering, Zenon DEF ReaderInv, Whole, ReaderTypes
  <2>2. \A e \in Epochs : e < known => e < latest
    BY ReaderNumbering DEF ReaderInv, PlaceInv
  <2>3. RootsInv'
    <3>1. LogOf(logRoot, epoch, count'[epoch]) /\ LogOf(epoch1Log, 1, count'[1])
      <4>1. \A e \in Epochs : count[e] \in Int /\ count'[e] \in Int /\ count[e] <= count'[e]
        BY <1>4, ReaderNumbering DEF ReaderInv
      <4>2. QED
        BY <2>1, <4>1, LogGrows, Zenon DEF RootsInv
    <3>2. QED
      BY <1>1, <1>4, <2>1, <2>2, <3>1, Zenon DEF RootsInv
  <2>4. next <= count'[epoch]
    BY <1>4, <2>1, ReaderNumbering DEF ReaderInv, CursorInv
  <2>5. at = "step" => batch = <<>> /\ next = count'[epoch]
    BY <1>4, <2>1, <2>2, Zenon DEF ReaderInv, CursorInv, PlaceInv
  <2>6. ASSUME NEW g \in Committed', ~Earlier(g, due), Earlier(g, <<epoch, next>>)
        PROVE  g \in seen \/ InBatch(g)
    <3>1. g[1] \in Epochs /\ g[2] \in Numbers /\ g[2] < count'[g[1]] /\ g \in Epochs \X Numbers
      BY Zenon DEF Committed
    <3>2. g[2] < count[g[1]]
      <4>1. /\ next <= count[epoch] /\ epoch <= latest /\ epoch \in Nat /\ latest \in Nat
            /\ next \in Nat /\ g[1] \in Nat /\ g[2] \in Nat /\ count[epoch] \in Nat
        BY <2>1, <3>1, ReaderNumbering DEF ReaderInv, CursorInv, PlaceInv
      <4>2. CASE g[1] = latest
        BY <2>6, <4>1, <4>2 DEF Earlier
      <4>3. CASE g[1] # latest
        BY <1>4, <3>1, <4>3, Zenon
      <4>4. QED
        BY <4>2, <4>3, Zenon
    <3>3. g \in Committed
      BY <3>1, <3>2, Zenon DEF Committed
    <3>4. QED
      BY <2>1, <2>6, <3>3, Zenon DEF CursorInv, Yielded
  <2>7. Yielded'
    BY <1>1, <2>6, Zenon DEF Yielded, InBatch, Earlier
  <2>8. CursorInv'
    BY <1>1, <2>1, <2>4, <2>5, <2>7, Zenon DEF CursorInv
  <2>9. QED
    BY <2>3, <2>8, Zenon
<1>7. QED
  BY <1>2, <1>3, <1>5, <1>6, Zenon DEF ReaderInv

(* What a step of the Reader has to show. *)
Kept == ReaderTypes' /\ PlaceInv' /\ (Whole' => RootsInv' /\ CursorInv')

(* The store is as it was. *)
LEMMA KeptIsEnough ==
  ASSUME ReaderInv, UNCHANGED trackVars, Kept
  PROVE  ReaderInv'
  BY Zenon DEF ReaderInv, trackVars, objects, producer, Kept, TrackTypes, StoreInv

(* A step that keeps epoch and log roots, out of a call that had them.     *)
LEMMA RootsFrame ==
  ASSUME RootsInv, at \notin {"closed", "first", "log"},
         UNCHANGED <<trackVars, known, epoch1Log, epoch, logRoot>>
  PROVE  RootsInv'
  BY Zenon DEF RootsInv, trackVars, objects, producer

(* loadEpoch. *)
LEMMA LoadRoots ==
  ASSUME TrackTypes, ReaderTypes, StoreInv, PlaceInv, NEW e \in Epochs, e <= known, LoadEpoch(e),
         UNCHANGED <<trackVars, known>>, LogOf(epoch1Log', 1, count[1]),
         1 < known => epoch1Log' = logs[1]
  PROVE  RootsInv'
<1>1. e <= latest
  BY ReaderNumbering DEF PlaceInv
<1>2. LogOf(logs[e], e, count[e])
  BY <1>1, Zenon DEF StoreInv
<1>3. epoch' = e /\ logRoot' = logs[e] /\ UNCHANGED <<logs, count, known>>
  BY Zenon DEF LoadEpoch, trackVars, objects, producer
<1>4. QED
  BY <1>2, <1>3, Zenon DEF RootsInv

(* Nothing before the cursor is owed. *)
LEMMA NothingOwed ==
  ASSUME UNCHANGED trackVars,
         \A g \in Committed : Earlier(g, <<epoch', next'>>) => Earlier(g, due')
  PROVE  Yielded'
  BY Zenon DEF Yielded, trackVars, producer, Committed, Earlier

(* The cursor stays. *)
LEMMA YieldedFrame ==
  ASSUME Yielded, UNCHANGED <<trackVars, epoch, next, batch, due, seen>>
  PROVE  Yielded'
  BY Zenon DEF Yielded, InBatch, Earlier, Committed, trackVars, producer

(* What a call that loads an epoch has to show. *)
LEMMA LoadKeeps ==
  ASSUME ReaderInv, UNCHANGED <<trackVars, known, torn>>,
         NEW e \in Epochs, e <= known, LoadEpoch(e),
         UNCHANGED epoch1Log \/ epoch1Log' = logs[1],
         at \in {"closed", "first", "log"} => epoch1Log' = logs[1],
         at' \in {"idle", "head", "locate"}, target' \in Numbers,
         due' \in Epochs \X (0 .. MaxGroups), seen' \subseteq Epochs \X Numbers,
         at' = "locate" => e <= due'[1] /\ (e = due'[1] => due'[2] = target' + 1),
         Whole => Yielded'
  PROVE  Kept
<1> TrackTypes /\ ReaderTypes /\ StoreInv /\ PlaceInv /\ (Whole => RootsInv /\ CursorInv)
  BY Zenon DEF ReaderInv
<1>1. /\ epoch' = e /\ next' = 0 /\ batch' = <<>> /\ misses' = 0 /\ logRoot' = logs[e]
  BY Zenon DEF LoadEpoch
<1>2. logs[e] \in Log /\ logs[1] \in Log /\ LogOf(logs[1], 1, count[1])
  <2>1. e <= latest /\ 1 <= latest /\ 1 \in Epochs
    BY ReaderNumbering DEF PlaceInv
  <2>2. LogOf(logs[e], e, count[e]) /\ LogOf(logs[1], 1, count[1])
    BY <2>1, Zenon DEF StoreInv
  <2>3. QED
    BY <2>2, Zenon DEF LogOf
<1>3. ReaderTypes'
  <2>1. next' \in 0 .. MaxGroups /\ misses' \in 0 .. 2 * RecheckEvery /\ batch' \in Seq(Numbers)
    BY <1>1, TrackBoundsAssumption, ReaderAssumption
  <2>2. epoch1Log' \in Log /\ at' \in ReaderSteps \cup {"closed", "idle"}
    BY <1>2, Zenon DEF ReaderTypes, ReaderSteps
  <2>3. QED
    BY <1>1, <1>2, <2>1, <2>2, Zenon DEF ReaderTypes
<1>4. PlaceInv'
  BY <1>1, Zenon DEF PlaceInv, trackVars, objects
<1>5. Whole' => Whole
  BY Zenon DEF Whole
<1>6. ASSUME Whole PROVE RootsInv'
  <2>1. LogOf(epoch1Log', 1, count[1])
    BY <1>2, <1>6, Zenon DEF RootsInv
  <2>2. 1 < known => epoch1Log' = logs[1]
    BY <1>6, Zenon DEF RootsInv
  <2>3. QED
    BY <2>1, <2>2, LoadRoots, Zenon
<1>7. next' <= count'[epoch']
  BY <1>1, ReaderNumbering, SMTT(20) DEF trackVars, producer
<1>8. ASSUME Whole PROVE CursorInv'
  BY <1>1, <1>7, <1>8, Zenon DEF CursorInv
<1>9. QED
  BY <1>3, <1>4, <1>5, <1>6, <1>8, Zenon DEF Kept

(* Track.Reader, *)
LEMMA OpenReaderKeeps ==
  ASSUME ReaderInv, OpenReader
  PROVE  Kept
<1> TrackTypes /\ ReaderTypes /\ PlaceInv
  BY Zenon DEF ReaderInv
<1>1. 1 \in Epochs /\ 1 <= known
  BY ReaderNumbering, Zenon DEF ReaderTypes, Epochs
<1>2. \A g \in Committed : ~Earlier(g, <<1, 0>>)
  BY ReaderNumbering DEF Earlier, Epochs
<1>3. Yielded'
  BY <1>2, NothingOwed, Zenon DEF OpenReader, LoadEpoch
<1>4. QED
  BY <1>1, <1>3, LoadKeeps, Zenon DEF OpenReader, ReaderTypes, owed

(* the step to the next epoch, *)
LEMMA StepEpochKeeps ==
  ASSUME ReaderInv, StepEpoch
  PROVE  Kept
<1> TrackTypes /\ ReaderTypes /\ PlaceInv /\ (Whole => CursorInv)
  BY Zenon DEF ReaderInv
<1>1. at = "step" /\ epoch + 1 \in Epochs /\ epoch + 1 <= known
  <2>1. at = "step" /\ epoch < known
    BY Zenon DEF StepEpoch, PlaceInv
  <2>2. QED
    BY <2>1, ReaderNumbering
<1>2. /\ epoch' = epoch + 1 /\ next' = 0 /\ UNCHANGED <<due, seen>> /\ Committed' = Committed
  BY Zenon DEF StepEpoch, LoadEpoch, owed, trackVars, producer, Committed
<1>3. ASSUME Whole, NEW g \in Committed, ~Earlier(g, due), Earlier(g, <<epoch + 1, 0>>)
      PROVE  g \in seen
  <2>1. /\ g[1] \in Nat /\ g[2] \in Nat /\ g[2] < count[g[1]] /\ epoch \in Nat
    BY ReaderNumbering, Zenon
  <2>2. g[1] < epoch \/ g[1] = epoch
    BY <1>3, <2>1 DEF Earlier
  <2>3. batch = <<>> /\ next = count[epoch] /\ Yielded
    BY <1>1, <1>3, Zenon DEF CursorInv
  <2>4. Earlier(g, <<epoch, next>>)
    BY <2>1, <2>2, <2>3, Zenon DEF Earlier
  <2>5. ~InBatch(g)
    BY <2>3 DEF InBatch
  <2>6. QED
    BY <1>3, <2>3, <2>4, <2>5, Zenon DEF Yielded
<1>4. Whole => Yielded'
  BY <1>2, <1>3, Zenon DEF Yielded, Earlier
<1>5. QED
  BY <1>1, <1>4, LoadKeeps, Zenon DEF StepEpoch, ReaderTypes, owed

(* SeekTip *)
LEMMA SeekTipKeeps ==
  ASSUME ReaderInv, SeekTip
  PROVE  Kept
<1> TrackTypes /\ ReaderTypes /\ PlaceInv
  BY Zenon DEF ReaderInv
<1>1. known \in Epochs /\ known <= known /\ <<known, 0>> \in Epochs \X (0 .. MaxGroups)
  BY ReaderNumbering, TrackBoundsAssumption, SMTT(20) DEF ReaderTypes
<1>2. \A g \in Committed : Earlier(g, <<known, 0>>) => Earlier(g, <<known, 0>>)
  OBVIOUS
<1>3. Yielded'
  BY <1>2, NothingOwed, Zenon DEF SeekTip, LoadEpoch
<1>4. QED
  BY <1>1, <1>3, LoadKeeps, Zenon DEF SeekTip, ReaderTypes

(* and SeekAfter. *)
LEMMA SeekAfterKeeps ==
  ASSUME ReaderInv, SeekAfter
  PROVE  Kept
<1> TrackTypes /\ ReaderTypes /\ PlaceInv
  BY Zenon DEF ReaderInv
<1>1. PICK g \in Committed : /\ LoadEpoch(IF g[1] > known THEN known ELSE g[1])
                             /\ target' = g[2] /\ due' = <<g[1], g[2] + 1>>
  BY Zenon DEF SeekAfter
<1>2. PICK e \in Epochs : e = (IF g[1] > known THEN known ELSE g[1]) /\ e <= known /\ e <= g[1]
  BY ReaderNumbering, SMTT(20) DEF ReaderTypes
<1>3. g[2] \in Numbers /\ g[1] \in Epochs /\ g[2] + 1 \in 0 .. MaxGroups
  BY ReaderNumbering DEF Numbers
<1>4. \A h \in Committed : Earlier(h, <<e, 0>>) => Earlier(h, <<g[1], g[2] + 1>>)
  <2>1. \A h \in Committed : h[1] \in Nat /\ h[2] \in Nat
    BY ReaderNumbering, Zenon
  <2>2. \A h \in Committed : Earlier(h, <<e, 0>>) => h[1] < g[1]
    BY <1>2, <2>1, ReaderNumbering DEF Earlier
  <2>3. QED
    BY <2>2, Zenon DEF Earlier
<1>5. LoadEpoch(e) /\ epoch' = e /\ next' = 0
  BY <1>1, <1>2, Zenon DEF LoadEpoch
<1>6. Yielded'
  BY <1>1, <1>4, <1>5, NothingOwed, Zenon DEF SeekAfter
<1>7. QED
  BY <1>1, <1>2, <1>3, <1>5, <1>6, LoadKeeps, Zenon DEF SeekAfter

(* What a step that keeps the epoch and its log root has to show. *)
LEMMA StayKeeps ==
  ASSUME ReaderInv, at \notin {"closed", "first", "log"},
         UNCHANGED <<trackVars, known, epoch1Log, epoch, logRoot, torn>>,
         next' \in 0 .. MaxGroups, misses' \in 0 .. 2 * RecheckEvery, batch' \in Seq(Numbers),
         at' \in ReaderSteps \cup {"closed", "idle"}, target' \in Numbers,
         due' \in Epochs \X (0 .. MaxGroups), seen' \subseteq Epochs \X Numbers,
         at' = "step" => epoch < known,
         Whole => CursorInv'
  PROVE  Kept
<1> TrackTypes /\ ReaderTypes /\ StoreInv /\ PlaceInv /\ (Whole => RootsInv /\ CursorInv)
  BY Zenon DEF ReaderInv
<1>1. ReaderTypes'
  BY Zenon DEF ReaderTypes
<1>2. PlaceInv'
  BY Zenon DEF PlaceInv, trackVars, objects
<1>3. Whole => RootsInv'
  BY RootsFrame, Zenon
<1>4. QED
  BY <1>1, <1>2, <1>3, Zenon DEF Kept, Whole

(* A batch that begins at or before the cursor and ends with the group     *)
(* before the new one.                                                     *)
LEMMA BatchTaken ==
  ASSUME ReaderInv, CursorInv, batch = <<>>, UNCHANGED <<trackVars, epoch, due, seen>>,
         next' \in Int,
         \A n \in Numbers : next <= n /\ n < next' => \E i \in DOMAIN batch' : batch'[i] = n
  PROVE  Yielded'
<1> TrackTypes /\ ReaderTypes
  BY Zenon DEF ReaderInv
<1>1. Committed' = Committed
  BY Zenon DEF Committed, trackVars, producer
<1>2. ASSUME NEW g \in Committed, ~Earlier(g, due), Earlier(g, <<epoch, next'>>)
      PROVE  g \in seen \/ (g[1] = epoch /\ \E i \in DOMAIN batch' : batch'[i] = g[2])
  <2>1. g[1] \in Nat /\ g[2] \in Nat /\ g[2] \in Numbers /\ next \in Nat /\ epoch \in Nat
    BY ReaderNumbering, Zenon
  <2>2. CASE Earlier(g, <<epoch, next>>)
    <3>1. ~InBatch(g)
      BY DEF InBatch
    <3>2. QED
      BY <1>2, <2>2, <3>1, Zenon DEF CursorInv, Yielded
  <2>3. CASE ~Earlier(g, <<epoch, next>>)
    <3>1. g[1] = epoch /\ next <= g[2] /\ g[2] < next'
      BY <1>2, <2>1, <2>3 DEF Earlier
    <3>2. QED
      BY <2>1, <3>1, Zenon
  <2>4. QED
    BY <2>2, <2>3, Zenon
<1>3. QED
  BY <1>1, <1>2, Zenon DEF Yielded, InBatch, Earlier

(* Next takes a sealed run, *)
LEMMA TakeSealedKeeps ==
  ASSUME ReaderInv, TakeSealed
  PROVE  Kept
<1> TrackTypes /\ ReaderTypes /\ (Whole => RootsInv /\ CursorInv)
  BY Zenon DEF ReaderInv
<1>1. PICK i \in DOMAIN logRoot.runs :
        /\ logRoot.runs[i].first <= next /\ next <= logRoot.runs[i].last
        /\ batch' = From(logRoot.runs[i].first, logRoot.runs[i].last)
        /\ next' = logRoot.runs[i].last + 1
  BY Zenon DEF TakeSealed, Covering
<1>2. /\ at = "idle" /\ batch = <<>> /\ at' = at /\ misses' = 0
      /\ UNCHANGED <<trackVars, known, epoch1Log, epoch, logRoot, target, due, seen, torn>>
  BY Zenon DEF TakeSealed, Exhausted, owed
<1>3. /\ logRoot.runs[i].first \in Numbers /\ logRoot.runs[i].last \in Numbers
      /\ logRoot.openFrom \in 0 .. MaxGroups
  BY LogFields, Zenon DEF ReaderTypes
<1>4. /\ next' \in 0 .. MaxGroups /\ misses' \in 0 .. 2 * RecheckEvery /\ next' \in Int
  <2>1. \A n \in Numbers : n + 1 \in 0 .. MaxGroups
    BY TrackBoundsAssumption DEF Numbers
  <2>2. misses' \in 0 .. 2 * RecheckEvery
    BY <1>2, ReaderAssumption
  <2>3. QED
    BY <1>1, <1>3, <2>1, <2>2
<1>5. batch' \in Seq(Numbers)
  BY <1>1, <1>3, FromFacts, Zenon
<1>6. ASSUME Whole PROVE CursorInv'
  <2>1. ASSUME NEW n \in Numbers, next <= n, n < next'
        PROVE  \E k \in DOMAIN batch' : batch'[k] = n
    <3>1. logRoot.runs[i].first <= n /\ n <= logRoot.runs[i].last
      BY <1>1, <1>3, <2>1, ReaderNumbering
    <3>2. QED
      BY <1>1, <1>3, <3>1, FromFacts
  <2>2. Yielded'
    BY <1>2, <1>4, <1>6, <2>1, BatchTaken, Zenon
  <2>3. next' <= count[epoch]
    <3>1. logRoot.runs[i].last < logRoot.openFrom /\ logRoot.openFrom <= count[epoch]
      BY <1>6, Zenon DEF RootsInv, LogOf
    <3>2. QED
      BY <1>1, <1>3, <3>1, ReaderNumbering
  <2>4. QED
    BY <1>2, <2>2, <2>3, Zenon DEF CursorInv, trackVars, producer
<1>7. QED
  BY <1>2, <1>4, <1>5, <1>6, StayKeeps, Zenon DEF ReaderTypes

(* or a delta; *)
LEMMA TakeDeltaKeeps ==
  ASSUME ReaderInv, TakeDelta
  PROVE  Kept
<1> TrackTypes /\ ReaderTypes /\ StoreInv /\ (Whole => RootsInv /\ CursorInv)
  BY Zenon DEF ReaderInv
<1>1. /\ at = "idle" /\ batch = <<>> /\ at' = at /\ misses' = 0 /\ next \in deltas[epoch]
      /\ batch' = <<next>> /\ next' = next + 1
      /\ UNCHANGED <<trackVars, known, epoch1Log, epoch, logRoot, target, due, seen, torn>>
  BY Zenon DEF TakeDelta, Exhausted, owed
<1>2. next \in Numbers /\ next < count[epoch]
  BY <1>1, Zenon DEF TrackTypes, ReaderTypes, StoreInv
<1>3. /\ next' \in 0 .. MaxGroups /\ misses' \in 0 .. 2 * RecheckEvery /\ next' \in Int
      /\ batch' \in Seq(Numbers)
  BY <1>1, <1>2, ReaderAssumption, ReaderNumbering DEF Numbers
<1>4. ASSUME Whole PROVE CursorInv'
  <2>1. ASSUME NEW n \in Numbers, next <= n, n < next' PROVE \E k \in DOMAIN batch' : batch'[k] = n
    <3>1. n = next
      BY <1>1, <2>1, ReaderNumbering, SMTT(20)
    <3>2. 1 \in DOMAIN batch' /\ batch'[1] = n
      BY <1>1, <3>1
    <3>3. QED
      BY <3>2, Zenon
  <2>2. Yielded'
    BY <1>1, <1>3, <1>4, <2>1, BatchTaken, Zenon
  <2>3. next' <= count[epoch]
    BY <1>1, <1>2, ReaderNumbering, SMTT(20)
  <2>4. QED
    BY <1>1, <2>2, <2>3, Zenon DEF CursorInv, trackVars, producer
<1>5. QED
  BY <1>1, <1>3, <1>4, StayKeeps, Zenon DEF ReaderTypes

(* the delta is absent; *)
LEMMA AbsentKeeps ==
  ASSUME ReaderInv, Absent
  PROVE  Kept
<1> TrackTypes /\ ReaderTypes /\ StoreInv /\ PlaceInv /\ (Whole => RootsInv /\ CursorInv)
  BY Zenon DEF ReaderInv
<1>1. /\ at = "idle" /\ batch = <<>> /\ next \notin deltas[epoch] /\ next >= logRoot.openFrom
      /\ UNCHANGED <<trackVars, known, epoch1Log, epoch, logRoot, next, batch, target, due, seen, torn>>
      /\ at' \in {"step", "root", "idle"} /\ (at' = "step" => epoch < known)
      /\ (UNCHANGED misses \/ CountMiss)
  BY Zenon DEF Absent, Exhausted, owed
<1>2. misses' \in 0 .. 2 * RecheckEvery
  BY <1>1, ReaderAssumption DEF CountMiss, ReaderTypes
<1>3. at' \in ReaderSteps \cup {"closed", "idle"}
  BY <1>1, Zenon DEF ReaderSteps
<1>4. ASSUME Whole PROVE CursorInv'
  <2>1. CursorInv /\ RootsInv
    BY <1>4, Zenon
  <2>2. ASSUME at' = "step" PROVE next = count[epoch]
    <3>1. logRoot = logs[epoch] /\ next <= count[epoch] /\ epoch < known
      BY <1>1, <2>1, <2>2, Zenon DEF RootsInv, CursorInv
    <3>2. epoch <= latest /\ epoch \in Epochs
      BY ReaderNumbering DEF PlaceInv
    <3>3. ~(next < count[epoch])
      <4>1. \A n \in Numbers : logs[epoch].openFrom <= n /\ n < count[epoch] => n \in deltas[epoch]
        BY <3>2, Zenon DEF StoreInv
      <4>2. logRoot.openFrom \in 0 .. MaxGroups /\ count[epoch] \in 0 .. MaxGroups
        BY <3>2, LogFields, Zenon DEF ReaderTypes, TrackTypes
      <4>3. next < count[epoch] => next \in Numbers /\ logs[epoch].openFrom <= next
        BY <1>1, <3>1, <4>2, ReaderNumbering DEF Numbers
      <4>4. QED
        BY <1>1, <4>1, <4>3, Zenon
    <3>4. QED
      BY <3>1, <3>2, <3>3, ReaderNumbering
  <2>3. Yielded'
    BY <1>1, <2>1, YieldedFrame, Zenon DEF CursorInv
  <2>4. QED
    BY <1>1, <2>1, <2>2, <2>3, Zenon DEF CursorInv, trackVars, producer
<1>5. QED
  BY <1>1, <1>2, <1>3, <1>4, StayKeeps, Zenon DEF ReaderTypes

(* and a group of the batch is yielded. *)
LEMMA YieldKeeps ==
  ASSUME ReaderInv, Yield
  PROVE  Kept
<1> TrackTypes /\ ReaderTypes /\ (Whole => CursorInv)
  BY Zenon DEF ReaderInv
<1>1. /\ at = "idle" /\ batch # <<>> /\ batch' = Tail(batch)
      /\ seen' = seen \cup {g \in {<<epoch, Head(batch)>>} : ~Earlier(g, due)}
      /\ UNCHANGED <<trackVars, known, epoch1Log, epoch, logRoot, next, misses, at, target, due, torn>>
  BY Zenon DEF Yield
<1>2. /\ Head(batch) \in Numbers /\ batch' \in Seq(Numbers)
      /\ \A i \in DOMAIN batch : batch[i] = Head(batch) \/ \E j \in DOMAIN batch' : batch'[j] = batch[i]
  BY <1>1, TailFacts, Zenon DEF ReaderTypes
<1>3. seen' \subseteq Epochs \X Numbers
  BY <1>1, <1>2 DEF ReaderTypes
<1>4. ASSUME Whole PROVE CursorInv'
  <2>1. ASSUME NEW g \in Committed, ~Earlier(g, due), Earlier(g, <<epoch, next>>)
        PROVE  g \in seen' \/ (g[1] = epoch /\ \E j \in DOMAIN batch' : batch'[j] = g[2])
    <3>1. CASE g \in seen
      BY <1>1, <3>1, Zenon
    <3>2. CASE InBatch(g)
      <4>1. PICK i \in DOMAIN batch : g[1] = epoch /\ batch[i] = g[2]
        BY <3>2, Zenon DEF InBatch
      <4>2. CASE batch[i] = Head(batch)
        <5>1. g = <<epoch, Head(batch)>>
          <6>1. g \in Epochs \X Numbers
            BY Zenon DEF Committed
          <6>2. g = <<g[1], g[2]>>
            BY <6>1
          <6>3. QED
            BY <4>1, <4>2, <6>2, Zenon
        <5>2. QED
          BY <1>1, <2>1, <5>1, Zenon
      <4>3. CASE batch[i] # Head(batch)
        BY <1>2, <4>1, <4>3, Zenon
      <4>4. QED
        BY <4>2, <4>3, Zenon
    <3>3. QED
      BY <1>4, <2>1, <3>1, <3>2, Zenon DEF CursorInv, Yielded
  <2>2. Yielded'
    BY <1>1, <2>1, Zenon DEF Yielded, InBatch, Earlier, Committed, trackVars, producer
  <2>3. QED
    BY <1>1, <1>4, <2>2, Zenon DEF CursorInv, trackVars, producer
<1>5. at' # "step"
  BY <1>1, Zenon
<1>6. QED
  BY <1>1, <1>2, <1>3, <1>4, <1>5, StayKeeps, Zenon DEF ReaderTypes

(* Refresh begins, *)
LEMMA RefreshKeeps ==
  ASSUME ReaderInv, Refresh
  PROVE  Kept
<1> TrackTypes /\ ReaderTypes /\ (Whole => CursorInv)
  BY Zenon DEF ReaderInv
<1>1. /\ at = "idle" /\ at' = "root"
      /\ UNCHANGED <<trackVars, known, epoch1Log, epoch, logRoot, next, misses, batch, target, due, seen, torn>>
  BY Zenon DEF Refresh, cursor, owed
<1>2. Whole => Yielded'
  BY <1>1, YieldedFrame, Zenon DEF CursorInv
<1>3. Whole => CursorInv'
  BY <1>1, <1>2, Zenon DEF CursorInv, trackVars, producer
<1>4. at' \in ReaderSteps \cup {"closed", "idle"}
  BY <1>1, Zenon DEF ReaderSteps
<1>5. QED
  BY <1>1, <1>3, <1>4, StayKeeps, Zenon DEF ReaderTypes

(* reads the track root *)
LEMMA RefreshRootKeeps ==
  ASSUME ReaderInv, RefreshRoot \/ OpenTrack
  PROVE  Kept
<1> TrackTypes /\ ReaderTypes /\ PlaceInv /\ (Whole => RootsInv /\ CursorInv)
  BY Zenon DEF ReaderInv
<1>1. /\ known' = latest
      /\ (at = "root" /\ at' = "log") \/ (at = "closed" /\ at' = "first")
      /\ UNCHANGED <<trackVars, epoch1Log, epoch, logRoot, next, misses, batch, target, due, seen, torn>>
  BY Zenon DEF RefreshRoot, OpenTrack, cursor, owed
<1>2. ReaderTypes'
  <2>1. known' \in Epochs /\ at' \in ReaderSteps \cup {"closed", "idle"}
    BY <1>1, ReaderNumbering, Zenon DEF ReaderSteps
  <2>2. QED
    BY <1>1, <2>1, Zenon DEF ReaderTypes
<1>3. PlaceInv'
  BY <1>1, ReaderNumbering DEF PlaceInv, trackVars, objects
<1>4. ASSUME Whole PROVE RootsInv'
  <2>1. at = "root" /\ epoch # 1 => 1 < known
    BY ReaderNumbering DEF PlaceInv
  <2>2. at = "root" /\ epoch # 1 => epoch1Log = logs[1]
    BY <1>4, <2>1, Zenon DEF RootsInv
  <2>3. QED
    BY <1>1, <1>4, <2>2, Zenon DEF RootsInv, trackVars, objects, producer
<1>5. ASSUME Whole PROVE CursorInv'
  <2>1. Yielded'
    BY <1>1, <1>5, YieldedFrame, Zenon DEF CursorInv
  <2>2. QED
    BY <1>1, <1>5, <2>1, Zenon DEF CursorInv, trackVars, producer
<1>6. QED
  BY <1>1, <1>2, <1>3, <1>4, <1>5, Zenon DEF Kept, Whole

(* and the log root. *)
LEMMA RefreshLogKeeps ==
  ASSUME ReaderInv, RefreshLog
  PROVE  Kept
<1> TrackTypes /\ ReaderTypes /\ StoreInv /\ PlaceInv /\ (Whole => RootsInv /\ CursorInv)
  BY Zenon DEF ReaderInv
<1>1. /\ at = "log" /\ at' = "idle" /\ logRoot' = logs[epoch]
      /\ epoch1Log' = IF epoch = 1 THEN logs[1] ELSE epoch1Log
      /\ UNCHANGED <<trackVars, known, epoch, next, misses, batch, target, due, seen, torn>>
  BY Zenon DEF RefreshLog, owed
<1>2. LogOf(logs[epoch], epoch, count[epoch]) /\ logs[epoch] \in Log
  <2>1. epoch \in Epochs /\ epoch <= latest
    BY ReaderNumbering DEF PlaceInv
  <2>2. LogOf(logs[epoch], epoch, count[epoch])
    BY <2>1, Zenon DEF StoreInv
  <2>3. QED
    BY <2>2, Zenon DEF LogOf
<1>3. ReaderTypes'
  BY <1>1, <1>2, Zenon DEF ReaderTypes
<1>4. PlaceInv'
  BY <1>1, Zenon DEF PlaceInv, trackVars, objects
<1>5. ASSUME Whole PROVE RootsInv'
  <2>1. LogOf(epoch1Log', 1, count[1]) /\ (1 < known => epoch1Log' = logs[1])
    BY <1>1, <1>2, <1>5, Zenon DEF RootsInv
  <2>2. QED
    BY <1>1, <1>2, <2>1, Zenon DEF RootsInv, trackVars, objects, producer
<1>6. ASSUME Whole PROVE CursorInv'
  <2>1. Yielded'
    BY <1>1, <1>6, YieldedFrame, Zenon DEF CursorInv
  <2>2. QED
    BY <1>1, <1>6, <2>1, Zenon DEF CursorInv, trackVars, producer
<1>7. QED
  BY <1>1, <1>3, <1>4, <1>5, <1>6, Zenon DEF Kept, Whole

(* SeekStart goes back to the log root kept of epoch 1. *)
LEMMA SeekStartKeeps ==
  ASSUME ReaderInv, SeekStart
  PROVE  Kept
<1> TrackTypes /\ ReaderTypes /\ PlaceInv /\ (Whole => RootsInv /\ CursorInv)
  BY Zenon DEF ReaderInv
<1>1. /\ at = "idle" /\ at' = "idle" /\ epoch' = 1 /\ logRoot' = epoch1Log /\ next' = 0
      /\ batch' = <<>> /\ misses' = 0 /\ due' = <<1, 0>> /\ seen' = {}
      /\ UNCHANGED <<trackVars, known, epoch1Log, target, torn>>
  BY Zenon DEF SeekStart
<1>2. ReaderTypes'
  <2>1. /\ 1 \in Epochs /\ 0 \in 0 .. MaxGroups /\ 0 \in 0 .. 2 * RecheckEvery
        /\ <<>> \in Seq(Numbers)
    BY TrackBoundsAssumption, ReaderAssumption, ReaderNumbering
  <2>2. QED
    BY <1>1, <2>1, Zenon DEF ReaderTypes
<1>3. PlaceInv'
  BY <1>1, ReaderNumbering, Zenon DEF PlaceInv, trackVars, objects
<1>4. ASSUME Whole PROVE RootsInv'
  BY <1>1, <1>4, Zenon DEF RootsInv, trackVars, objects, producer
<1>5. CursorInv'
  <2>1. \A g \in Committed : ~Earlier(g, <<1, 0>>)
    BY ReaderNumbering DEF Earlier
  <2>2. Yielded'
    BY <1>1, <2>1, NothingOwed, Zenon
  <2>3. 0 <= count[1]
    BY ReaderNumbering
  <2>4. QED
    BY <1>1, <2>2, <2>3, Zenon DEF CursorInv, trackVars, producer
<1>6. QED
  BY <1>1, <1>2, <1>3, <1>4, <1>5, Zenon DEF Kept, Whole

(* SeekTip reads the head. *)
LEMMA SeekTipHeadKeeps ==
  ASSUME ReaderInv, SeekTipHead
  PROVE  Kept
<1> TrackTypes /\ ReaderTypes /\ StoreInv /\ PlaceInv /\ (Whole => CursorInv)
  BY Zenon DEF ReaderInv
<1>1. /\ at = "head" /\ at' = "idle" /\ next' = (IF head[epoch] = -1 THEN 0 ELSE head[epoch] + 1)
      /\ due' = <<epoch, count[epoch]>>
      /\ UNCHANGED <<trackVars, known, epoch1Log, epoch, logRoot, misses, batch, target, seen, torn>>
  BY Zenon DEF SeekTipHead
<1>2. /\ head[epoch] \in Numbers \cup {-1} /\ head[epoch] < count[epoch]
      /\ count[epoch] \in 0 .. MaxGroups
  BY ReaderNumbering, Zenon DEF TrackTypes, StoreInv
<1>3. next' \in 0 .. MaxGroups /\ next' <= count[epoch]
  BY <1>1, <1>2, TrackBoundsAssumption DEF Numbers
<1>4. \A g \in Committed : Earlier(g, <<epoch, next'>>) => Earlier(g, due')
  <2>1. \A g \in Committed : g[1] \in Nat /\ g[2] \in Nat
    BY ReaderNumbering, Zenon
  <2>2. QED
    BY <1>1, <1>2, <1>3, <2>1 DEF Earlier
<1>5. Yielded'
  BY <1>1, <1>4, NothingOwed, Zenon
<1>6. CursorInv'
  BY <1>1, <1>3, <1>5, Zenon DEF CursorInv, trackVars, producer
<1>7. due' \in Epochs \X (0 .. MaxGroups) /\ at' \in ReaderSteps \cup {"closed", "idle"}
  BY <1>1, <1>2, ReaderNumbering, Zenon
<1>8. QED
  BY <1>1, <1>3, <1>6, <1>7, StayKeeps, Zenon DEF ReaderTypes

(* SeekAfter finds the group that follows in a sealed run, *)
LEMMA LocateSealedKeeps ==
  ASSUME ReaderInv, LocateSealed
  PROVE  Kept
<1> TrackTypes /\ ReaderTypes /\ PlaceInv /\ (Whole => RootsInv /\ CursorInv)
  BY Zenon DEF ReaderInv
<1>1. PICK i \in DOMAIN logRoot.runs :
        /\ target < logRoot.runs[i].last
        /\ \A j \in 1 .. i - 1 : target >= logRoot.runs[j].last
        /\ batch' = From(IF logRoot.runs[i].first > target THEN logRoot.runs[i].first
                         ELSE target + 1, logRoot.runs[i].last)
        /\ next' = logRoot.runs[i].last + 1
  BY Zenon DEF LocateSealed
<1>2. PICK first, last, start :
        /\ first = logRoot.runs[i].first /\ last = logRoot.runs[i].last
        /\ start = IF first > target THEN first ELSE target + 1
  OBVIOUS
<1>3. /\ at = "locate" /\ at' = "idle" /\ target' = 0
      /\ UNCHANGED <<trackVars, known, epoch1Log, epoch, logRoot, misses, due, seen, torn>>
  BY Zenon DEF LocateSealed, owed
<1>4. target < last /\ batch' = From(start, last) /\ next' = last + 1
  BY <1>1, <1>2, Zenon
<1>5. /\ first \in Numbers /\ last \in Numbers /\ logRoot.openFrom \in Nat
      /\ DOMAIN logRoot.runs \subseteq Nat /\ i \in Nat
      /\ \A j \in DOMAIN logRoot.runs : logRoot.runs[j].first \in Nat /\ logRoot.runs[j].last \in Nat
  <2>1. logRoot \in Log
    BY Zenon DEF ReaderTypes
  <2>2. logRoot.openFrom \in 0 .. MaxGroups /\ DOMAIN logRoot.runs = 1 .. Len(logRoot.runs)
        /\ \A j \in DOMAIN logRoot.runs : logRoot.runs[j].first \in Numbers /\ logRoot.runs[j].last \in Numbers
    BY <2>1, LogFields, Zenon
  <2>3. logRoot.openFrom \in Nat /\ DOMAIN logRoot.runs \subseteq Nat
    BY <2>2
  <2>4. QED
    BY <1>2, <2>2, <2>3, ReaderNumbering, Zenon
<1>6. target \in Numbers
  BY Zenon DEF ReaderTypes
<1>7. start \in Numbers /\ next' \in 0 .. MaxGroups /\ 0 \in Numbers
  BY <1>2, <1>4, <1>5, <1>6, TrackBoundsAssumption DEF Numbers
<1>8. batch' \in Seq(Numbers) /\ \A n \in Numbers : start <= n /\ n <= last =>
                                     \E k \in DOMAIN batch' : batch'[k] = n
  <2>1. /\ From(start, last) \in Seq(Numbers)
        /\ \A n \in Numbers : start <= n /\ n <= last =>
               \E k \in DOMAIN From(start, last) : From(start, last)[k] = n
    BY <1>5, <1>7, FromFacts, ZenonT(30)
  <2>2. QED
    BY <1>4, <2>1, Zenon
<1>9. target \in Nat /\ last \in Nat /\ first \in Nat
  BY <1>5, <1>6, ReaderNumbering, Zenon
<1>10. ASSUME Whole PROVE CursorInv'
  <2>1. /\ LogOf(logRoot, epoch, count[epoch]) /\ epoch <= due[1]
        /\ (epoch = due[1] => due[2] = target + 1)
    BY <1>3, <1>10, Zenon DEF RootsInv, CursorInv
  <2>2. last < logRoot.openFrom /\ logRoot.openFrom <= count[epoch] /\ count[epoch] \in Nat
    BY <1>2, <2>1, ReaderNumbering, Zenon DEF LogOf
  <2>3. next' <= count[epoch]
    BY <1>4, <1>5, <1>9, <2>2
  <2>4. ASSUME NEW n \in Numbers, target < n, n <= last PROVE start <= n
    <3>1. n \in Nat
      BY ReaderNumbering, Zenon
    <3>2. n < logRoot.openFrom
      BY <1>5, <1>9, <2>2, <2>4, <3>1
    <3>3. PICK j \in DOMAIN logRoot.runs : logRoot.runs[j].first <= n /\ n <= logRoot.runs[j].last
      BY <2>1, <3>2, Zenon DEF LogOf, Covering
    <3>4. j \in Nat /\ logRoot.runs[j].first \in Nat /\ logRoot.runs[j].last \in Nat
      BY <1>5, Zenon
    <3>5. j < i => j \in 1 .. i - 1
      <4>1. j \in 1 .. Len(logRoot.runs)
        BY LogFields, Zenon DEF ReaderTypes
      <4>2. QED
        BY <1>5, <3>4, <4>1
    <3>6. j < i => target >= logRoot.runs[j].last
      BY <1>1, <3>5, Zenon
    <3>7. i < j => last < logRoot.runs[j].first
      BY <1>2, <2>1, Zenon DEF LogOf
    <3>8. ~(j < i) /\ ~(i < j)
      BY <1>9, <2>4, <3>1, <3>3, <3>4, <3>6, <3>7
    <3>9. i = j
      BY <1>5, <3>4, <3>8
    <3>10. first <= n
      BY <1>2, <3>3, <3>9, Zenon
    <3>11. QED
      BY <1>2, <1>9, <2>4, <3>1, <3>10
  <2>5. ASSUME NEW g \in Committed, ~Earlier(g, due), Earlier(g, <<epoch, next'>>)
        PROVE  g[1] = epoch /\ \E k \in DOMAIN batch' : batch'[k] = g[2]
    <3>1. g[1] \in Nat /\ g[2] \in Nat /\ g[2] \in Numbers /\ epoch \in Nat /\ due[1] \in Nat
      BY ReaderNumbering, Zenon
    <3>2. g[1] = epoch /\ target < g[2] /\ g[2] <= last
      BY <1>4, <1>9, <2>1, <2>5, <3>1 DEF Earlier
    <3>3. QED
      BY <1>8, <2>4, <3>1, <3>2, Zenon
  <2>6. Committed' = Committed
    BY <1>3, Zenon DEF Committed, trackVars, producer
  <2>7. Yielded'
    BY <1>3, <2>5, <2>6, Zenon DEF Yielded, InBatch, Earlier
  <2>8. QED
    BY <1>3, <2>3, <2>7, Zenon DEF CursorInv, trackVars, producer
<1>11. at' # "step" /\ at' \in ReaderSteps \cup {"closed", "idle"}
  BY <1>3, Zenon
<1>12. QED
  BY <1>3, <1>7, <1>8, <1>10, <1>11, StayKeeps, Zenon DEF ReaderTypes

(* A number with nothing below it above t. *)
LEMMA JustAbove ==
  ASSUME NEW n \in 0 .. MaxGroups, NEW t \in Nat, \A m \in Numbers : m < n => m <= t
  PROVE  n <= t + 1
<1>1. n > 0 => n - 1 \in Numbers
  BY TrackBoundsAssumption DEF Numbers
<1>2. n \in Int /\ MaxGroups \in Int
  BY TrackBoundsAssumption
<1>3. QED
  BY <1>1, <1>2

(* or goes to the open region *)
LEMMA LocateOpenKeeps ==
  ASSUME ReaderInv, LocateOpen
  PROVE  Kept
<1> TrackTypes /\ ReaderTypes /\ PlaceInv /\ (Whole => RootsInv /\ CursorInv)
  BY Zenon DEF ReaderInv
<1>1. /\ at = "locate" /\ at' = "probe" /\ next' = logRoot.openFrom
      /\ \A i \in DOMAIN logRoot.runs : target >= logRoot.runs[i].last
      /\ UNCHANGED <<trackVars, known, epoch1Log, epoch, logRoot, misses, batch, target, due, seen, torn>>
  BY Zenon DEF LocateOpen, owed
<1>2. next' \in 0 .. MaxGroups /\ at' \in ReaderSteps \cup {"closed", "idle"}
  BY <1>1, LogFields, Zenon DEF ReaderTypes, ReaderSteps
<1>3. ASSUME Whole PROVE CursorInv'
  <2>1. /\ LogOf(logRoot, epoch, count[epoch]) /\ epoch <= due[1]
        /\ (epoch = due[1] => due[2] = target + 1)
    BY <1>1, <1>3, Zenon DEF RootsInv, CursorInv
  <2>2. next' <= target + 1
    <3>1. \A n \in Numbers : n < next' => n <= target
      <4>1. \A i \in DOMAIN logRoot.runs : logRoot.runs[i].last \in Nat
        BY LogFields, ReaderNumbering, Zenon DEF ReaderTypes
      <4>2. \A n \in Numbers : n < next' =>
                \E i \in DOMAIN logRoot.runs : n <= logRoot.runs[i].last
        BY <1>1, <2>1, Zenon DEF LogOf, Covering
      <4>3. SUFFICES ASSUME NEW n \in Numbers, n < next' PROVE n <= target
        OBVIOUS
      <4>4. PICK i \in DOMAIN logRoot.runs : n <= logRoot.runs[i].last
        BY <4>2, <4>3, Zenon
      <4>5. /\ target >= logRoot.runs[i].last /\ logRoot.runs[i].last \in Nat
            /\ n \in Nat /\ target \in Nat
        BY <1>1, <4>1, ReaderNumbering, Zenon
      <4>6. QED
        BY <4>4, <4>5
    <3>2. target \in Nat
      BY ReaderNumbering, Zenon
    <3>3. QED
      BY <1>2, <3>1, <3>2, JustAbove, Zenon
  <2>3. next' <= count[epoch]
    BY <1>1, <2>1, Zenon DEF LogOf
  <2>4. \A g \in Committed : Earlier(g, <<epoch, next'>>) => Earlier(g, due)
    <3>1. SUFFICES ASSUME NEW g \in Committed, Earlier(g, <<epoch, next'>>) PROVE Earlier(g, due)
      OBVIOUS
    <3>2. /\ g[1] \in Nat /\ g[2] \in Nat /\ epoch \in Nat /\ due[1] \in Nat /\ target \in Nat
          /\ next' \in Nat
      BY <1>2, ReaderNumbering
    <3>3. QED
      BY <2>1, <2>2, <3>1, <3>2 DEF Earlier
  <2>5. epoch' = epoch /\ due' = due /\ UNCHANGED trackVars
    BY <1>1, Zenon
  <2>6. Yielded'
    BY <2>4, <2>5, NothingOwed, Zenon
  <2>7. QED
    BY <1>1, <2>1, <2>2, <2>3, <2>6, Zenon DEF CursorInv, trackVars, producer
<1>4. at' # "step"
  BY <1>1, Zenon
<1>5. QED
  BY <1>1, <1>2, <1>3, <1>4, StayKeeps, Zenon DEF ReaderTypes

(* and looks there, delta by delta. *)
LEMMA LocateProbeKeeps ==
  ASSUME ReaderInv, LocateProbe
  PROVE  Kept
<1> TrackTypes /\ ReaderTypes /\ StoreInv /\ PlaceInv /\ (Whole => RootsInv /\ CursorInv)
  BY Zenon DEF ReaderInv
<1>1. /\ at = "probe" /\ at' \in {"idle", "probe"}
      /\ UNCHANGED <<trackVars, known, epoch1Log, epoch, logRoot, misses, due, seen, torn>>
      /\ \/ /\ next \in deltas[epoch] /\ next > target /\ batch' = <<next>> /\ next' = next + 1
            /\ at' = "idle" /\ target' = 0
         \/ /\ next \in deltas[epoch] /\ next <= target /\ next' = next + 1
            /\ UNCHANGED <<batch, at, target>>
         \/ at' = "idle" /\ target' = 0 /\ UNCHANGED <<batch, next>>
  BY Zenon DEF LocateProbe, owed
<1>2. next \in deltas[epoch] => next \in Numbers /\ next < count[epoch]
  BY Zenon DEF TrackTypes, ReaderTypes, StoreInv
<1>3. next' \in 0 .. MaxGroups /\ target' \in Numbers /\ batch' \in Seq(Numbers)
  <2>1. next \in 0 .. MaxGroups /\ target \in Numbers /\ 0 \in Numbers /\ batch \in Seq(Numbers)
    BY TrackBoundsAssumption DEF Numbers, ReaderTypes
  <2>2. next \in Numbers => next + 1 \in 0 .. MaxGroups /\ <<next>> \in Seq(Numbers)
    BY TrackBoundsAssumption DEF Numbers
  <2>3. QED
    BY <1>1, <1>2, <2>1, <2>2, Zenon
<1>4. ASSUME Whole PROVE CursorInv'
  <2>1. /\ next <= count[epoch] /\ epoch <= due[1] /\ (epoch = due[1] => due[2] = target + 1)
        /\ (epoch = due[1] => next <= target + 1)
    BY <1>1, <1>4, Zenon DEF CursorInv
  <2>2. next' <= count[epoch]
    BY <1>1, <1>2, <2>1, ReaderNumbering
  <2>3. at' = "probe" => target' = target /\ (epoch = due[1] => next' <= target + 1)
    BY <1>1, ReaderNumbering
  <2>4. ASSUME NEW g \in Committed, ~Earlier(g, due), Earlier(g, <<epoch, next'>>)
        PROVE  g[1] = epoch /\ \E k \in DOMAIN batch' : batch'[k] = g[2]
    <3>1. /\ g[1] \in Nat /\ g[2] \in Nat /\ epoch \in Nat /\ due[1] \in Nat
          /\ next \in Nat /\ target \in Nat
      BY ReaderNumbering, Zenon
    <3>2. g[1] = epoch /\ epoch = due[1] /\ target < g[2] /\ g[2] < next'
      BY <1>3, <2>1, <2>4, <3>1, SMTT(20) DEF Earlier
    <3>3. g[2] = next /\ batch' = <<next>>
      BY <1>1, <2>1, <3>1, <3>2
    <3>4. 1 \in DOMAIN batch' /\ batch'[1] = g[2]
      BY <3>3
    <3>5. QED
      BY <3>2, <3>4, Zenon
  <2>5. Committed' = Committed
    BY <1>1, Zenon DEF Committed, trackVars, producer
  <2>6. Yielded'
    BY <1>1, <2>4, <2>5, Zenon DEF Yielded, InBatch, Earlier
  <2>7. QED
    BY <1>1, <2>1, <2>2, <2>3, <2>6, Zenon DEF CursorInv, trackVars, producer
<1>5. at' # "step" /\ at' \in ReaderSteps \cup {"closed", "idle"}
  BY <1>1, Zenon DEF ReaderSteps
<1>6. QED
  BY <1>1, <1>3, <1>4, <1>5, StayKeeps, Zenon DEF ReaderTypes

(* The time seeks go to a group of an epoch known. *)
LEMMA SeekTimeKeeps ==
  ASSUME ReaderInv, SeekTime
  PROVE  Kept
<1> TrackTypes /\ ReaderTypes /\ StoreInv /\ PlaceInv /\ (Whole => RootsInv /\ CursorInv)
  BY Zenon DEF ReaderInv
<1>1. PICK g \in Committed :
        /\ g[1] <= known /\ epoch' = g[1] /\ due' = g /\ torn' = (torn \/ g[1] # epoch)
        /\ \/ \E i \in Covering(logs[g[1]], g[2]) :
                /\ batch' = From(g[2], logs[g[1]].runs[i].last)
                /\ next' = logs[g[1]].runs[i].last + 1
           \/ batch' = <<g[2]>> /\ next' = g[2] + 1
  BY Zenon DEF SeekTime
<1>2. /\ at = "idle" /\ at' = "idle" /\ misses' = 0 /\ seen' = {}
      /\ UNCHANGED <<trackVars, known, epoch1Log, logRoot, target>>
  BY Zenon DEF SeekTime
<1>3. /\ g[1] \in Epochs /\ g[2] \in Numbers /\ g[2] < count[g[1]] /\ g \in Epochs \X Numbers
      /\ g[1] \in Nat /\ g[2] \in Nat /\ count[g[1]] \in Nat /\ epoch \in Nat
  BY ReaderNumbering, Zenon DEF Committed
<1>4. LogOf(logs[g[1]], g[1], count[g[1]])
  <2>1. g[1] <= latest
    BY <1>1, <1>3, ReaderNumbering DEF PlaceInv
  <2>2. QED
    BY <1>3, <2>1, Zenon DEF StoreInv
<1>5. PICK last \in Numbers :
        /\ last < count[g[1]] /\ next' = last + 1 /\ batch' \in Seq(Numbers)
        /\ \A n \in Numbers : g[2] <= n /\ n <= last => \E k \in DOMAIN batch' : batch'[k] = n
  <2>1. CASE batch' = <<g[2]>> /\ next' = g[2] + 1
    <3>1. batch' \in Seq(Numbers) /\ 1 \in DOMAIN batch' /\ batch'[1] = g[2]
      BY <1>3, <2>1
    <3>2. \A n \in Numbers : g[2] <= n /\ n <= g[2] => n = g[2]
      BY <1>3, ReaderNumbering
    <3>3. QED
      BY <1>3, <2>1, <3>1, <3>2, Zenon
  <2>2. CASE \E i \in Covering(logs[g[1]], g[2]) :
                /\ batch' = From(g[2], logs[g[1]].runs[i].last)
                /\ next' = logs[g[1]].runs[i].last + 1
    <3>1. PICK i \in DOMAIN logs[g[1]].runs :
                /\ batch' = From(g[2], logs[g[1]].runs[i].last)
                /\ next' = logs[g[1]].runs[i].last + 1
      BY <2>2, Zenon DEF Covering
    <3>2. PICK last : last = logs[g[1]].runs[i].last
      OBVIOUS
    <3>3. logs[g[1]] \in Log /\ last < logs[g[1]].openFrom /\ logs[g[1]].openFrom <= count[g[1]]
      BY <1>4, <3>2, Zenon DEF LogOf
    <3>4. last \in Numbers /\ logs[g[1]].openFrom \in 0 .. MaxGroups
      BY <3>2, <3>3, LogFields, Zenon
    <3>5. last < count[g[1]]
      BY <1>3, <3>3, <3>4 DEF Numbers
    <3>6. /\ From(g[2], last) \in Seq(Numbers)
          /\ \A n \in Numbers : g[2] <= n /\ n <= last =>
                \E k \in DOMAIN From(g[2], last) : From(g[2], last)[k] = n
      BY <1>3, <3>4, FromFacts, Zenon
    <3>7. batch' = From(g[2], last) /\ next' = last + 1
      BY <3>1, <3>2, Zenon
    <3>8. QED
      BY <3>4, <3>5, <3>6, <3>7, Zenon
  <2>3. QED
    BY <1>1, <2>1, <2>2, Zenon
<1>6. last \in Nat /\ next' \in 0 .. MaxGroups /\ next' <= count[g[1]]
  <2>1. last \in Nat
    BY ReaderNumbering, Zenon
  <2>2. QED
    BY <1>3, <1>5, <2>1, TrackBoundsAssumption DEF Numbers
<1>7. ReaderTypes'
  <2>1. due' \in Epochs \X (0 .. MaxGroups)
    BY <1>1, <1>3, TrackBoundsAssumption, SMTT(20) DEF Numbers
  <2>2. misses' \in 0 .. 2 * RecheckEvery /\ torn' \in BOOLEAN
    BY <1>1, <1>2, ReaderAssumption DEF ReaderTypes
  <2>3. QED
    BY <1>1, <1>2, <1>3, <1>5, <1>6, <2>1, <2>2, Zenon DEF ReaderTypes
<1>8. PlaceInv'
  BY <1>1, <1>2, Zenon DEF PlaceInv, trackVars, objects
<1>9. ASSUME Whole' PROVE RootsInv' /\ CursorInv'
  <2>1. Whole /\ epoch' = epoch /\ g[1] = epoch
    BY <1>1, <1>9, Zenon DEF Whole
  <2>2. RootsInv'
    BY <1>2, <2>1, RootsFrame, Zenon
  <2>3. ASSUME NEW h \in Committed, ~Earlier(h, g), Earlier(h, <<epoch, next'>>)
        PROVE  h[1] = epoch /\ \E k \in DOMAIN batch' : batch'[k] = h[2]
    <3>1. h[1] \in Nat /\ h[2] \in Nat /\ h[2] \in Numbers
      BY ReaderNumbering, Zenon
    <3>2. h[1] = epoch /\ g[2] <= h[2] /\ h[2] <= last
      BY <1>3, <1>5, <1>6, <2>1, <2>3, <3>1 DEF Earlier
    <3>3. QED
      BY <1>5, <3>1, <3>2, Zenon
  <2>4. Committed' = Committed /\ count' = count
    BY <1>2, Zenon DEF Committed, trackVars, producer
  <2>5. Yielded'
    BY <1>1, <2>1, <2>3, <2>4, Zenon DEF Yielded, InBatch, Earlier
  <2>6. CursorInv'
    BY <1>2, <1>6, <2>1, <2>4, <2>5, Zenon DEF CursorInv
  <2>7. QED
    BY <2>2, <2>6, Zenon
<1>10. QED
  BY <1>7, <1>8, <1>9, Zenon DEF Kept

(* A request that fails anywhere. *)
LEMMA RequestFailsKeeps ==
  ASSUME ReaderInv, RequestFails
  PROVE  Kept
<1> TrackTypes /\ ReaderTypes /\ PlaceInv /\ (Whole => RootsInv /\ CursorInv)
  BY Zenon DEF ReaderInv
<1>1. /\ at \in ReaderSteps /\ at' = (IF at = "first" THEN "closed" ELSE "idle")
      /\ next' = (IF at = "probe" THEN 0 ELSE next) /\ target' = 0
      /\ torn' = (torn \/ (at = "log" /\ epoch < known))
      /\ UNCHANGED <<trackVars, known, epoch1Log, epoch, logRoot, misses, batch, due, seen>>
  BY Zenon DEF RequestFails
<1>2. at # "closed" /\ at' \in {"closed", "idle"} /\ (at' = "idle" => at # "first")
  BY <1>1, Zenon DEF ReaderSteps
<1>3. next' \in 0 .. MaxGroups /\ next' <= next /\ next' \in Nat /\ next \in Nat
  BY <1>1, TrackBoundsAssumption DEF ReaderTypes
<1>4. ReaderTypes'
  <2>1. 0 \in Numbers
    BY TrackBoundsAssumption DEF Numbers
  <2>2. torn' \in BOOLEAN
    BY <1>1, Zenon DEF ReaderTypes
  <2>3. QED
    BY <1>1, <1>2, <1>3, <2>1, <2>2, Zenon DEF ReaderTypes
<1>5. PlaceInv'
  BY <1>1, <1>2, Zenon DEF PlaceInv, trackVars, objects
<1>6. ASSUME Whole' PROVE RootsInv' /\ CursorInv'
  <2>1. Whole /\ ~(at = "log" /\ epoch < known) /\ RootsInv /\ CursorInv
    BY <1>1, <1>6, Zenon DEF Whole
  <2>2. at = "log" /\ 1 < known => epoch # 1
    BY <2>1, ReaderNumbering, Zenon
  <2>3. RootsInv'
    BY <1>1, <1>2, <2>1, <2>2, Zenon DEF RootsInv, trackVars, objects, producer
  <2>4. \A g \in Committed : Earlier(g, <<epoch, next'>>) => Earlier(g, <<epoch, next>>)
    <3>1. \A g \in Committed : g[1] \in Nat /\ g[2] \in Nat
      BY ReaderNumbering, Zenon
    <3>2. QED
      BY <1>3, <3>1 DEF Earlier
  <2>5. Committed' = Committed /\ count' = count
    BY <1>1, Zenon DEF Committed, trackVars, producer
  <2>6. Yielded'
    BY <1>1, <2>1, <2>4, <2>5, Zenon DEF CursorInv, Yielded, InBatch, Earlier
  <2>7. next' <= count[epoch]
    BY <1>3, <2>1, ReaderNumbering, SMTT(20) DEF CursorInv
  <2>8. CursorInv'
    BY <1>1, <1>2, <2>5, <2>6, <2>7, Zenon DEF CursorInv
  <2>9. QED
    BY <2>3, <2>8, Zenon
<1>7. QED
  BY <1>4, <1>5, <1>6, Zenon DEF Kept

-----------------------------------------------------------------------------

(* It is what a track and a Reader begin with, *)
LEMMA InitKeeps ==
  ASSUME Init
  PROVE  ReaderInv
<1>1. 1 \in Epochs /\ 0 \in Numbers /\ 0 \in 0 .. MaxGroups /\ \A e \in Epochs : e <= 1 => e = 1
  BY TrackBoundsAssumption DEF Epochs, Numbers
<1>2. NewLog(1) \in Log /\ NewLog(1).openFrom = 0 /\ \A n \in Nat : LogOf(NewLog(1), 1, n)
  BY <1>1, NewLogOf, Zenon DEF LogOf
<1>3. /\ latest = 1 /\ writing = 1 /\ busy = "no" /\ sweep = 0
      /\ logs = [e \in Epochs |-> IF e = 1 THEN NewLog(1) ELSE NoLog]
      /\ deltas = [e \in Epochs |-> {}] /\ head = [e \in Epochs |-> -1]
      /\ count = [e \in Epochs |-> 0]
  BY Zenon DEF Init, TrackInit
<1>4. /\ known = 1 /\ epoch1Log = NewLog(1) /\ epoch = 1 /\ logRoot = NewLog(1) /\ next = 0
      /\ misses = 0 /\ batch = <<>> /\ at = "closed" /\ target = 0 /\ due = <<1, 0>>
      /\ seen = {} /\ torn = FALSE
  BY Zenon DEF Init
<1>5. TrackTypes
  BY <1>1, <1>2, <1>3, Zenon DEF TrackTypes
<1>6. ReaderTypes
  <2>1. 0 \in 0 .. 2 * RecheckEvery /\ <<1, 0>> \in Epochs \X (0 .. MaxGroups) /\ <<>> \in Seq(Numbers)
    BY <1>1, ReaderAssumption
  <2>2. QED
    BY <1>1, <1>2, <1>4, <2>1, Zenon DEF ReaderTypes
<1>7. StoreInv
  <2>1. \A e \in Epochs : count[e] = 0 /\ deltas[e] = {} /\ head[e] = -1 /\ (e # 1 => logs[e] = NoLog)
    BY <1>3, Zenon
  <2>2. logs[1] = NewLog(1) /\ count[1] = 0
    BY <1>1, <1>3, Zenon
  <2>3. \A e \in Epochs : e <= latest => LogOf(logs[e], e, count[e])
    BY <1>1, <1>2, <1>3, <2>2, Zenon
  <2>4. \A e \in Epochs : e > latest => e # 1
    BY <1>3
  <2>5. \A n \in Numbers : ~(n < 0)
    BY DEF Numbers
  <2>6. \A e \in Epochs : head[e] < count[e]
    BY <2>1
  <2>7. \A e \in Epochs : \A n \in Numbers : ~(logs[e].openFrom <= n /\ n < count[e])
    BY <2>1, <2>5, Zenon
  <2>8. QED
    BY <1>3, <2>1, <2>3, <2>4, <2>6, <2>7, Zenon DEF StoreInv
<1>8. PlaceInv
  BY <1>3, <1>4 DEF PlaceInv
<1>9. RootsInv
  BY <1>1, <1>2, <1>3, <1>4, Zenon DEF RootsInv
<1>10. \A g \in Committed : ~Earlier(g, <<1, 0>>)
  BY <1>5, <1>6, ReaderNumbering DEF Earlier
<1>11. CursorInv
  BY <1>1, <1>3, <1>4, <1>10 DEF CursorInv, Yielded
<1>12. QED
  BY <1>5, <1>6, <1>7, <1>8, <1>9, <1>11, Zenon DEF ReaderInv

(* and every step keeps it. *)
LEMMA NextKeeps ==
  ASSUME ~StrayEpoch, ReaderInv, [Next]_vars
  PROVE  ReaderInv'
<1>1. CASE Elsewhere
  BY <1>1, ElsewhereKeeps, Zenon
<1>2. CASE Advance
  <2>1. Kept
    BY <1>2, RefreshRootKeeps, OpenReaderKeeps, YieldKeeps, TakeSealedKeeps, TakeDeltaKeeps,
       AbsentKeeps, StepEpochKeeps, RefreshLogKeeps, SeekTipHeadKeeps, LocateSealedKeeps,
       LocateOpenKeeps, LocateProbeKeeps, Zenon, Zenon DEF Advance
  <2>2. UNCHANGED trackVars
    BY <1>2, Zenon DEF Advance, OpenTrack, OpenReader, Yield, TakeSealed, TakeDelta, Absent,
       StepEpoch, RefreshRoot, RefreshLog, SeekTipHead, LocateSealed, LocateOpen, LocateProbe
  <2>3. QED
    BY <2>1, <2>2, KeptIsEnough, Zenon
<1>3. CASE Seek
  <2>1. Kept
    BY <1>3, SeekStartKeeps, SeekTipKeeps, SeekAfterKeeps, SeekTimeKeeps, Zenon DEF Seek
  <2>2. UNCHANGED trackVars
    BY <1>3, Zenon DEF Seek, SeekStart, SeekTip, SeekAfter, SeekTime
  <2>3. QED
    BY <2>1, <2>2, KeptIsEnough, Zenon
<1>4. CASE Refresh
  BY <1>4, RefreshKeeps, KeptIsEnough, Zenon DEF Refresh
<1>5. CASE RequestFails
  BY <1>5, RequestFailsKeeps, KeptIsEnough, Zenon DEF RequestFails
<1>6. CASE UNCHANGED vars
  <2>1. /\ UNCHANGED <<latest, logs, deltas, head, count, writing, busy, sweep>>
        /\ UNCHANGED <<known, epoch1Log, epoch, logRoot, next, misses, batch, at, target, due, seen, torn>>
    BY <1>6, Zenon DEF vars, trackVars, objects, producer, readerVars, cursor, owed
  <2>2. UNCHANGED trackVars
    BY <2>1, Zenon DEF trackVars, objects, producer
  <2>3. ReaderTypes' /\ PlaceInv'
    BY <2>1, Zenon DEF ReaderInv, ReaderTypes, PlaceInv
  <2>4. ASSUME Whole' PROVE RootsInv' /\ CursorInv'
    <3>1. RootsInv /\ CursorInv
      BY <2>1, <2>4, Zenon DEF ReaderInv, Whole
    <3>2. RootsInv'
      BY <2>1, <3>1, Zenon DEF RootsInv
    <3>3. Yielded'
      BY <2>1, <2>2, <3>1, YieldedFrame, Zenon DEF CursorInv
    <3>4. CursorInv'
      BY <2>1, <3>1, <3>3, Zenon DEF CursorInv
    <3>5. QED
      BY <3>2, <3>4, Zenon
  <2>5. QED
    BY <2>2, <2>3, <2>4, KeptIsEnough, Zenon DEF Kept
<1>7. QED
  BY <1>1, <1>2, <1>3, <1>4, <1>5, <1>6, Zenon DEF Next

(* The invariant ReaderInv of a Reader's calls, whatever the producer does *)
(* between their requests and whichever of these fails.                    *)
LEMMA ReaderInvariant ==
  ASSUME ~StrayEpoch
  PROVE  Spec => []ReaderInv
<1>1. Init => ReaderInv
  BY InitKeeps, Zenon
<1>2. ReaderInv /\ [Next]_vars => ReaderInv'
  BY NextKeeps, Zenon
<1>3. QED
  BY <1>1, <1>2, PTL DEF Spec

(* Every variable stays in its type: the cursor (Reader.next, Reader.epoch *)
(* and the batch) never leaves the epochs and groups there are.            *)
THEOREM ReaderTyped ==
  ASSUME ~StrayEpoch
  PROVE  Spec => []TypeOK
<1>1. ReaderInv => TypeOK
  BY Zenon DEF ReaderInv, TrackTypes, ReaderTypes, TypeOK
<1>2. QED
  BY <1>1, ReaderInvariant, PTL

(* A Reader never passes over a committed group: Next, the seeks and       *)
(* Refresh, interleaved with any appends, rotations, reclaims and new      *)
(* epochs, yield every group owed before the cursor moves past it.         *)
THEOREM NeverSkips ==
  ASSUME ~StrayEpoch
  PROVE  Spec => []NothingSkipped
<1>1. ReaderInv => NothingSkipped
  BY Zenon DEF ReaderInv, CursorInv, Yielded, NothingSkipped
<1>2. QED
  BY <1>1, ReaderInvariant, PTL

(* Refresh reads the track root before the log root, so what a Reader has  *)
(* of an epoch it knows to be over is that epoch's last log root.          *)
THEOREM OldEpochsStayFinal ==
  ASSUME ~StrayEpoch
  PROVE  Spec => []OldEpochsFinal
<1>1. ReaderInv => OldEpochsFinal
  BY Zenon DEF ReaderInv, RootsInv, OldEpochsFinal
<1>2. QED
  BY <1>1, ReaderInvariant, PTL

================================================================================
