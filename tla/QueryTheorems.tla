----------------------------- MODULE QueryTheorems -----------------------------
(***************************************************************************)
(* Proofs about the reads that do not move the cursor, beside a producer   *)
(* that may go on in its old epoch (StrayEpoch): any number of epochs and  *)
(* groups, any limit, any number of attempts of Before.                    *)
(***************************************************************************)
EXTENDS Query, TLAPS

Groups == Epochs \X Numbers

StoreTypes ==
    /\ latest \in Epochs
    /\ logs \in [Epochs -> Log \cup {NoLog}]
    /\ deltas \in [Epochs -> SUBSET Numbers]
    /\ head \in [Epochs -> Numbers \cup {-1}]
    /\ count \in [Epochs -> 0 .. MaxGroups]
    /\ writing \in Epochs
    /\ sweep \in 0 .. MaxGroups

(* What the store holds: log roots for the epochs the track root names,    *)
(* every committed group either below OpenFrom or in its delta, and        *)
(* nothing in the epochs to come.                                          *)
StoreInv ==
    /\ writing <= latest
    /\ \A e \in Epochs : e <= latest => logs[e] \in Log /\ logs[e].openFrom <= count[e]
    /\ \A e \in Epochs : e > latest => count[e] = 0 /\ logs[e] \in {NoLog, NewLog(e)}
    /\ \A e \in Epochs : \A m \in deltas[e] : m < count[e]
    /\ \A e \in Epochs : e <= latest =>
        \A m \in Numbers : logs[e].openFrom <= m /\ m < count[e] => m \in deltas[e]
    /\ \A e \in Epochs : head[e] < count[e]
    /\ busy = "sweep" => sweep < logs[writing].openFrom
    /\ busy = "root" => writing < MaxEpoch /\ logs[writing + 1] \in Log

CallTypes ==
    /\ known \in Epochs
    /\ id \in Groups \cup {Zero} /\ limit \in Nat
    /\ epoch \in Epochs /\ logRoot \in Log
    /\ n \in Int /\ last \in Int
    /\ answer \in Seq(Groups) /\ kept \in Nat
    /\ asked \in [Epochs -> 0 .. MaxGroups]

Searching == {"open", "head", "probe", "back", "sealed"}

(* Which request may be next, of an epoch the track root names, and the    *)
(* log root that was read there: the one stored or an older one.           *)
PlaceInv ==
    /\ known <= latest
    /\ at \in {"idle", "done", "log"} \cup Searching
    /\ op = "none" <=> at = "idle"
    /\ op = "none" => answer = <<>> /\ kept = 0
    /\ at # "idle" => op \in {"lookup", "walk", "before"}
    /\ at = "open" => op \in {"lookup", "walk"}
    /\ at \in {"head", "probe", "back", "sealed"} => op = "before"
    /\ at \in {"log"} \cup Searching => epoch <= known
    /\ at \in Searching => logRoot.openFrom <= logs[epoch].openFrom
    /\ \A e \in Epochs : asked[e] <= count[e]

(* The group a Lookup is for is none of those it has read. *)
LookupInv ==
    op = "lookup" /\ at # "done" =>
        /\ answer = <<>> /\ id[1] = epoch
        /\ at = "open" =>
            /\ logRoot.openFrom <= n
            /\ \A m \in Numbers : logRoot.openFrom <= m /\ m < n => m # id[2]

(* A walk has the groups below n of its epoch, and of the epochs before    *)
(* all that were there, unless one was sealed under it.                    *)
WalkInv ==
    op = "walk" =>
        /\ at = "log" => answer = <<>> \/ answer[Len(answer)][1] < epoch
        /\ at = "open" =>
            /\ logRoot.openFrom <= n
            /\ \A m \in Numbers : m < n => <<epoch, m>> \in Answer
            /\ n = 0 => answer = <<>> \/ answer[Len(answer)][1] < epoch
            /\ n # 0 => answer # <<>> /\ answer[Len(answer)] = <<epoch, n - 1>>
        /\ clean => \A g \in Groups :
            g[2] < asked[g[1]] /\ g[1] <= known /\ (g[1] < epoch \/ at = "done") => g \in Answer

(* The groups Before looks for. *)
Wanted(g) == g[1] <= known /\ g[2] < asked[g[1]] /\ (id = Zero \/ Earlier(g, id))

(* Where the groups of the epoch that Before has read begin. *)
Reach == IF at = "sealed" THEN logRoot.openFrom ELSE n + 1

(* The last k groups are of the epochs after e, and begin one. *)
KeptOK(s, k, e) ==
    /\ k <= Len(s)
    /\ \A i \in DOMAIN s : i > Len(s) - k => s[i][1] > e
    /\ k > 0 => s[Len(s) - k + 1][2] = 0

(* A group is among the last k. *)
KeptHas(s, k, g) == \E i \in DOMAIN s : i > Len(s) - k /\ s[i] = g

(* Before: what is kept is of the epochs after this one, from the first    *)
(* group of one on, and has all that was wanted there.                     *)
KeptInv ==
    op = "before" /\ at # "done" =>
        /\ Len(answer) < limit
        /\ KeptOK(answer, kept, epoch) /\ \A g \in Answer : g[1] >= epoch
        /\ at \in {"log", "head", "probe"} => kept = Len(answer)
        /\ clean => \A g \in Groups : Wanted(g) /\ g[1] > epoch => KeptHas(answer, kept, g)

(* In its epoch it has the groups from Reach on. *)
BeforeInv ==
    /\ at = "probe" =>
        /\ logRoot.openFrom <= n
        /\ \/ last = -1 /\ n = logRoot.openFrom
           \/ last = n - 1 /\ logRoot.openFrom <= last
    /\ at = "back" => logRoot.openFrom <= n
    /\ at \in {"back", "sealed"} =>
        /\ Len(answer) > kept =>
            /\ answer[1] = <<epoch, Reach>>
            /\ epoch = id[1] => Reach < id[2]
        /\ logRoot = logs[epoch] => \A m \in Numbers :
            Wanted(<<epoch, m>>) /\ Reach <= m => <<epoch, m>> \in Answer

(* An answer goes on with the next group of the epoch, or the first of a   *)
(* later one.                                                              *)
Follows(g, h) == h = <<g[1], g[2] + 1>> \/ (h[1] > g[1] /\ h[2] = 0)

Ordered(s) == \A i \in 1 .. Len(s) - 1 : Follows(s[i], s[i + 1])

AnswerInv ==
    /\ Answer \subseteq Committed
    /\ Ordered(answer)
    /\ op = "walk" /\ answer # <<>> => answer[1][2] = 0

QueryInv ==
    /\ StoreTypes /\ StoreInv /\ CallTypes /\ PlaceInv
    /\ LookupInv /\ WalkInv /\ KeptInv /\ BeforeInv
    /\ AnswerInv /\ MissesNothing

-----------------------------------------------------------------------------
(* The producer. *)

(* What a step of the producer does to the objects: groups are only added, *)
(* and the log root of an epoch there is changes only in that OpenFrom     *)
(* moves on.                                                               *)
Grows ==
    /\ latest <= latest'
    /\ \A e \in Epochs : count[e] <= count'[e]
    /\ \A e \in Epochs : e <= latest =>
        logs'[e] = logs[e] \/ logs[e].openFrom < logs'[e].openFrom

(* What the producer counts with. *)
LEMMA Numbering ==
  ASSUME StoreTypes
  PROVE  /\ latest \in Nat /\ writing \in Nat /\ sweep \in Nat /\ MaxGroups \in Nat /\ MaxEpoch \in Nat
         /\ \A e \in Epochs : e \in Nat /\ count[e] \in Nat /\ head[e] \in Int
         /\ \A m \in Numbers : m \in Nat
  BY TrackBoundsAssumption DEF StoreTypes, Epochs, Numbers

(* The fields of a log root. *)
LEMMA LogFields ==
  ASSUME NEW log \in Log
  PROVE  log.openFrom \in 0 .. MaxGroups /\ log.openFrom \in Nat
  BY TrackBoundsAssumption DEF Log

(* The log root of an epoch that begins. *)
LEMMA NewLogFields ==
  ASSUME NEW e \in Epochs
  PROVE  NewLog(e) \in Log /\ NewLog(e).openFrom = 0
  BY TrackBoundsAssumption DEF NewLog, Log

(* A step that leaves groups, log roots and deltas alone. *)
LEMMA ObjectsFrame ==
  ASSUME StoreTypes, StoreInv, UNCHANGED <<latest, logs, deltas, count>>,
         writing' = writing \/ (writing' = latest /\ busy' = "no"),
         head' \in [Epochs -> Numbers \cup {-1}], \A e \in Epochs : head'[e] < count[e],
         busy' = "no" \/ UNCHANGED <<busy, sweep>>, sweep' = 0 \/ UNCHANGED sweep
  PROVE  StoreTypes' /\ StoreInv' /\ Grows
<1>1. StoreTypes'
  BY TrackBoundsAssumption DEF StoreTypes
<1>2. writing' <= latest
  BY Numbering DEF StoreInv
<1>3. StoreInv'
  BY <1>2, Zenon DEF StoreInv
<1>4. Grows
  BY Numbering DEF Grows
<1>5. QED
  BY <1>1, <1>3, <1>4, Zenon

(* The commit of a group. *)
LEMMA CommitKeeps ==
  ASSUME StoreTypes, StoreInv, Commit
  PROVE  StoreTypes' /\ StoreInv' /\ Grows
<1> DEFINE w == writing
<1>1. /\ w \in Epochs /\ w <= latest /\ count[w] < MaxGroups /\ busy' = "head"
      /\ UNCHANGED <<latest, logs, head, writing, sweep>>
  BY Zenon DEF Commit, StoreInv, StoreTypes
<1>2. /\ deltas' = [deltas EXCEPT ![w] = @ \cup {count[w]}]
      /\ count' = [count EXCEPT ![w] = @ + 1]
  BY <1>1, Zenon DEF Commit
<1> HIDE DEF w
<1>3. count[w] \in Numbers /\ count[w] + 1 \in 0 .. MaxGroups
  BY <1>1, Numbering DEF Numbers
<1>4. /\ count'[w] = count[w] + 1
      /\ deltas'[w] = deltas[w] \cup {count[w]}
      /\ \A e \in Epochs \ {w} : count'[e] = count[e] /\ deltas'[e] = deltas[e]
  BY <1>1, <1>2, Zenon DEF StoreTypes
<1>5. StoreTypes'
  <2>1. deltas' \in [Epochs -> SUBSET Numbers]
    BY <1>1, <1>2, <1>3, Zenon DEF StoreTypes
  <2>2. count' \in [Epochs -> 0 .. MaxGroups]
    BY <1>1, <1>2, <1>3, Zenon DEF StoreTypes
  <2>3. QED
    BY <1>1, <2>1, <2>2, Zenon DEF StoreTypes
<1>6. \A e \in Epochs : count[e] \in Nat /\ count'[e] \in Nat /\ count[e] <= count'[e]
  BY <1>1, <1>4, Numbering
<1>7. Grows
  BY <1>1, <1>6, Numbering DEF Grows
<1>8. \A e \in Epochs : e <= latest => logs'[e] \in Log /\ logs'[e].openFrom <= count'[e]
  <2>1. \A a, b, c \in Nat : a <= b /\ b <= c => a <= c
    OBVIOUS
  <2>2. QED
    BY <1>1, <1>6, <2>1, LogFields, Zenon DEF StoreInv
<1>9. \A e \in Epochs : e > latest => count'[e] = 0 /\ logs'[e] \in {NoLog, NewLog(e)}
  <2>1. \A e \in Epochs : e > latest => e # w
    BY <1>1, Numbering
  <2>2. QED
    BY <1>1, <1>4, <2>1, Zenon DEF StoreInv
<1>10. \A e \in Epochs : \A m \in deltas'[e] : m < count'[e]
  <2>1. \A m \in deltas[w] : m < count[w] /\ m \in Nat
    BY <1>1, Numbering, Zenon DEF StoreInv, StoreTypes
  <2>2. \A m \in deltas'[w] : m < count'[w]
    BY <1>1, <1>4, <2>1, Numbering
  <2>3. QED
    BY <1>4, <2>2, Zenon DEF StoreInv
<1>11. ASSUME NEW e \in Epochs, e <= latest, NEW m \in Numbers, logs'[e].openFrom <= m, m < count'[e]
       PROVE  m \in deltas'[e]
  <2>1. CASE e # w
    BY <1>1, <1>4, <1>11, <2>1, Zenon DEF StoreInv
  <2>2. CASE e = w
    <3>1. m < count[w] \/ m = count[w]
      BY <1>1, <1>4, <1>11, <2>2, Numbering
    <3>2. QED
      BY <1>1, <1>4, <1>11, <2>2, <3>1, Zenon DEF StoreInv
  <2>3. QED
    BY <2>1, <2>2, Zenon
<1>12. \A e \in Epochs : head'[e] < count'[e]
  BY <1>1, <1>4, Numbering DEF StoreInv
<1>13. StoreInv'
  BY <1>1, <1>8, <1>9, <1>10, <1>11, <1>12, Zenon DEF StoreInv, w
<1>14. QED
  BY <1>5, <1>7, <1>13, Zenon

(* The swap of the log root by a seal. *)
LEMMA SealKeeps ==
  ASSUME StoreTypes, StoreInv, Seal
  PROVE  StoreTypes' /\ StoreInv' /\ Grows
<1> DEFINE w == writing
           span == [first |-> logs[w].openFrom, last |-> count[w] - 1]
           new == [epoch |-> logs[w].epoch, runs |-> Append(logs[w].runs, span), openFrom |-> count[w]]
<1>1. /\ w \in Epochs /\ w <= latest /\ logs[w].openFrom < count[w]
      /\ busy' = "sweep" /\ sweep' = logs[w].openFrom
      /\ UNCHANGED <<latest, deltas, head, count, writing>>
  BY Zenon DEF Seal, StoreInv, StoreTypes
<1>2. /\ logs[w] \in Log /\ logs[w].openFrom \in Nat /\ logs[w].openFrom \in 0 .. MaxGroups
      /\ count[w] \in 0 .. MaxGroups
  BY <1>1, LogFields, Zenon DEF StoreInv, StoreTypes
<1>3. /\ logs'[w] = new
      /\ \A e \in Epochs \ {w} : logs'[e] = logs[e]
      /\ DOMAIN logs' = Epochs /\ logs' = [e \in Epochs |-> logs'[e]]
  BY <1>1, <1>2, Zenon DEF Seal, StoreTypes, Log
<1>4. new \in Log
  <2>1. span \in [first : Numbers, last : Numbers]
    BY <1>1, <1>2, TrackBoundsAssumption DEF Numbers
  <2>2. /\ logs[w].epoch \in Epochs
        /\ logs[w].runs \in Seq([first : Numbers, last : Numbers])
    BY <1>2, Zenon DEF Log
  <2>3. \A S : \A s \in Seq(S) : \A x \in S : Append(s, x) \in Seq(S)
    OBVIOUS
  <2>4. QED
    BY <1>2, <2>1, <2>2, <2>3, Zenon DEF Log
<1>5. logs'[w] \in Log /\ logs'[w].openFrom = count[w]
  <2>1. new.openFrom = count[w]
    OBVIOUS
  <2> HIDE DEF new
  <2>2. QED
    BY <1>3, <1>4, <2>1, Zenon
<1> HIDE DEF w, new, span
<1>6. StoreTypes'
  <2>1. \A e \in Epochs : logs'[e] \in Log \cup {NoLog}
    BY <1>3, <1>5, Zenon DEF StoreTypes
  <2>2. logs' \in [Epochs -> Log \cup {NoLog}]
    BY <1>3, <2>1, Zenon
  <2>3. QED
    BY <1>1, <1>2, <2>2, Zenon DEF StoreTypes
<1>7. Grows
  <2>1. \A a \in Nat : a <= a
    OBVIOUS
  <2>2. QED
    BY <1>1, <1>3, <1>5, <2>1, Numbering, Zenon DEF Grows
<1>8. \A e \in Epochs : e <= latest => logs'[e] \in Log /\ logs'[e].openFrom <= count[e]
  <2>1. count[w] <= count[w]
    BY <1>2
  <2>2. QED
    BY <1>3, <1>5, <2>1, Zenon DEF StoreInv
<1>9. \A e \in Epochs : e > latest => count[e] = 0 /\ logs'[e] \in {NoLog, NewLog(e)}
  <2>1. \A e \in Epochs : e > latest => e # w
    BY <1>1, Numbering
  <2>2. QED
    BY <1>3, <2>1, Zenon DEF StoreInv
<1>10. ASSUME NEW e \in Epochs, e <= latest, NEW m \in Numbers, logs'[e].openFrom <= m, m < count[e]
      PROVE  m \in deltas[e]
  <2>1. CASE e # w
    BY <1>3, <1>10, <2>1, Zenon DEF StoreInv
  <2>2. CASE e = w
    BY <1>1, <1>5, <1>10, <2>2, Numbering
  <2>3. QED
    BY <2>1, <2>2, Zenon
<1>11. writing = w
  BY Zenon DEF w
<1>12. StoreInv'
  BY <1>1, <1>5, <1>8, <1>9, <1>10, <1>11, Zenon DEF StoreInv
<1>13. QED
  BY <1>6, <1>7, <1>12, Zenon

(* The deletion of a delta that was sealed. *)
LEMMA ReclaimKeeps ==
  ASSUME StoreTypes, StoreInv, Reclaim
  PROVE  StoreTypes' /\ StoreInv' /\ Grows
<1>1. /\ writing \in Epochs /\ writing <= latest /\ busy = "sweep"
      /\ UNCHANGED <<latest, logs, head, count, writing>>
  BY Zenon DEF Reclaim, StoreInv, StoreTypes
<1>2. /\ logs[writing].openFrom \in 0 .. MaxGroups
      /\ sweep < logs[writing].openFrom
  BY <1>1, LogFields, Zenon DEF StoreInv
<1>3. /\ DOMAIN deltas' = Epochs /\ deltas' = [e \in Epochs |-> deltas'[e]]
      /\ \A e \in Epochs : deltas'[e] \subseteq deltas[e]
      /\ \A e \in Epochs : \A m \in deltas[e] : m \in deltas'[e] \/ (e = writing /\ m = sweep)
  BY <1>1 DEF Reclaim, StoreTypes
<1>4. \/ busy' = "no" /\ sweep' = 0
      \/ busy' = busy /\ sweep' = sweep + 1 /\ sweep + 1 # logs[writing].openFrom
  BY <1>1, Zenon DEF Reclaim
<1>5. StoreTypes'
  <2>1. \A e \in Epochs : deltas'[e] \in SUBSET Numbers
    BY <1>3, Zenon DEF StoreTypes
  <2>2. deltas' \in [Epochs -> SUBSET Numbers]
    BY <1>3, <2>1, Zenon
  <2>3. sweep' \in 0 .. MaxGroups
    BY <1>1, <1>2, <1>4, Numbering
  <2>4. QED
    BY <1>1, <2>2, <2>3, Zenon DEF StoreTypes
<1>6. Grows
  BY <1>1, Numbering DEF Grows
<1>7. ASSUME NEW e \in Epochs, e <= latest, NEW m \in Numbers, logs[e].openFrom <= m, m < count[e]
      PROVE  m \in deltas'[e]
  <2>1. m \in deltas[e]
    BY <1>7, Zenon DEF StoreInv
  <2>2. ~(e = writing /\ m = sweep)
    BY <1>2, <1>7, Numbering
  <2>3. QED
    BY <1>3, <2>1, <2>2, Zenon
<1>8. busy' = "sweep" => sweep' < logs[writing].openFrom
  BY <1>2, <1>4, Numbering
<1>9. \A e \in Epochs : \A m \in deltas'[e] : m < count[e]
  BY <1>3, Zenon DEF StoreInv
<1>10. busy' # "root"
  BY <1>1, <1>4, Zenon
<1>11. StoreInv'
  BY <1>1, <1>7, <1>8, <1>9, <1>10, Zenon DEF StoreInv
<1>12. QED
  BY <1>5, <1>6, <1>11, Zenon

(* NewEpoch creates the log root, or adopts the one there, *)
LEMMA CreateKeeps ==
  ASSUME StoreTypes, StoreInv, CreateEpochLog
  PROVE  StoreTypes' /\ StoreInv' /\ Grows
<1>1. /\ writing \in Epochs /\ writing <= latest /\ writing < MaxEpoch /\ busy' = "root"
      /\ UNCHANGED <<latest, deltas, head, count, writing, sweep>>
  BY Zenon DEF CreateEpochLog, StoreInv, StoreTypes
<1> DEFINE w == writing + 1
<1>2. w \in Epochs
  BY <1>1, Numbering DEF Epochs
<1>3. /\ logs'[w] = IF logs[w] = NoLog THEN NewLog(w) ELSE logs[w]
      /\ \A e \in Epochs \ {w} : logs'[e] = logs[e]
      /\ DOMAIN logs' = Epochs /\ logs' = [e \in Epochs |-> logs'[e]]
  BY <1>1, <1>2, Zenon DEF CreateEpochLog, StoreTypes
<1> HIDE DEF w
<1>4. NewLog(w) \in Log
  BY <1>2, NewLogFields, Zenon
<1>5. logs'[w] \in Log
  BY <1>2, <1>3, <1>4, Zenon DEF StoreTypes
<1>6. \A e \in Epochs : e <= latest => logs'[e] = logs[e]
  <2>1. \A e \in Epochs : e <= latest => logs[e] # NoLog
    BY NoLogAssumption, Zenon DEF StoreInv
  <2>2. logs[w] # NoLog => logs'[w] = logs[w]
    BY <1>3, Zenon
  <2>3. QED
    BY <1>2, <1>3, <2>1, <2>2, Zenon
<1>7. StoreTypes'
  <2>1. \A e \in Epochs : logs'[e] \in Log \cup {NoLog}
    BY <1>3, <1>5, Zenon DEF StoreTypes
  <2>2. logs' \in [Epochs -> Log \cup {NoLog}]
    BY <1>3, <2>1, Zenon
  <2>3. QED
    BY <1>1, <2>2, Zenon DEF StoreTypes
<1>8. Grows
  BY <1>1, <1>6, Numbering DEF Grows
<1>9. \A e \in Epochs : e > latest => count[e] = 0 /\ logs'[e] \in {NoLog, NewLog(e)}
  BY <1>3, Zenon DEF StoreInv
<1>10. busy' = "root" /\ writing < MaxEpoch /\ logs'[writing + 1] \in Log
  BY <1>1, <1>5, Zenon DEF w
<1>11. StoreInv'
  BY <1>1, <1>6, <1>9, <1>10, Zenon DEF StoreInv
<1>12. QED
  BY <1>7, <1>8, <1>11, Zenon

(* and then names the epoch in the track root and goes there, or not. *)
LEMMA AdvanceKeeps ==
  ASSUME StoreTypes, StoreInv, AdvanceTrackRoot
  PROVE  StoreTypes' /\ StoreInv' /\ Grows
<1>1. /\ writing <= latest /\ writing < MaxEpoch /\ logs[writing + 1] \in Log
      /\ busy' = "no" /\ UNCHANGED <<logs, deltas, head, count, sweep>>
      /\ writing' = writing + 1 \/ writing' = writing
  BY Zenon DEF AdvanceTrackRoot, StoreInv
<1>2. \/ latest' = latest /\ writing + 1 <= latest
      \/ latest' = writing + 1 /\ latest' = latest + 1
  <2>1. latest' = IF latest >= writing + 1 THEN latest ELSE writing + 1
    BY Zenon DEF AdvanceTrackRoot
  <2>2. latest \in Nat /\ writing \in Nat
    BY Numbering
  <2>3. QED
    BY <1>1, <2>1, <2>2
<1>3. /\ latest' \in Epochs /\ writing' \in Epochs /\ writing' <= latest'
      /\ latest <= latest'
      /\ \A e \in Epochs : e <= latest' => e <= latest \/ (e = writing + 1 /\ e > latest)
      /\ \A e \in Epochs : e > latest' => e > latest
  <2>1. latest \in 1 .. MaxEpoch /\ writing \in 1 .. MaxEpoch /\ MaxEpoch \in Nat
    BY Numbering DEF StoreTypes, Epochs
  <2>2. QED
    BY <1>1, <1>2, <2>1 DEF Epochs
<1>4. \A e \in Epochs : e <= latest' => logs[e] \in Log /\ logs[e].openFrom <= count[e]
  <2>1. ASSUME NEW e \in Epochs, e = writing + 1, e > latest
        PROVE  logs[e] \in Log /\ logs[e].openFrom <= count[e]
    <3>1. count[e] = 0 /\ logs[e] \in Log /\ logs[e] = NewLog(e)
      BY <1>1, <2>1, NoLogAssumption, Zenon DEF StoreInv
    <3>2. NewLog(e).openFrom = 0 /\ 0 <= 0
      BY NewLogFields
    <3>3. QED
      BY <3>1, <3>2, Zenon
  <2>2. QED
    BY <1>3, <2>1, Zenon DEF StoreInv
<1>5. ASSUME NEW e \in Epochs, e <= latest', NEW m \in Numbers, logs[e].openFrom <= m, m < count[e]
      PROVE  m \in deltas[e]
  <2>1. CASE e <= latest
    BY <1>5, <2>1, Zenon DEF StoreInv
  <2>2. CASE e > latest
    <3>1. count[e] = 0
      BY <2>2, Zenon DEF StoreInv
    <3>2. QED
      BY <1>5, <3>1, Numbering
  <2>3. QED
    BY <1>3, <1>5, <2>1, <2>2, Zenon
<1>6. StoreTypes'
  BY <1>1, <1>3, Zenon DEF StoreTypes
<1>7. StoreInv'
  BY <1>1, <1>3, <1>4, <1>5, Zenon DEF StoreInv
<1>8. Grows
  BY <1>1, <1>3, Numbering DEF Grows
<1>9. QED
  BY <1>6, <1>7, <1>8, Zenon

(* Every step of the producer. *)
LEMMA ProduceKeeps ==
  ASSUME StoreTypes, StoreInv, Produce
  PROVE  StoreTypes' /\ StoreInv' /\ Grows
<1>1. ASSUME PublishHead PROVE StoreTypes' /\ StoreInv' /\ Grows
  <2>1. /\ UNCHANGED <<latest, logs, deltas, count, writing, sweep>> /\ busy' = "no"
        /\ head' = [head EXCEPT ![writing] = count[writing] - 1] \/ UNCHANGED head
    BY <1>1, Zenon DEF PublishHead
  <2>2. count[writing] - 1 \in Numbers \cup {-1} /\ count[writing] - 1 < count[writing]
    BY Numbering DEF Numbers, StoreTypes
  <2>3. head' \in [Epochs -> Numbers \cup {-1}]
    BY <2>1, <2>2, Zenon DEF StoreTypes
  <2>4. \A e \in Epochs : head'[e] < count[e]
    BY <2>1, <2>2, Zenon DEF StoreTypes, StoreInv
  <2>5. QED
    BY <2>1, <2>3, <2>4, ObjectsFrame, Zenon
<1>2. ASSUME LoseHead PROVE StoreTypes' /\ StoreInv' /\ Grows
  <2>1. /\ UNCHANGED <<latest, logs, deltas, count, writing, busy, sweep>>
        /\ head' = [head EXCEPT ![writing] = -1]
    BY <1>2, Zenon DEF LoseHead, producer
  <2>2. -1 < count[writing]
    BY Numbering DEF StoreTypes
  <2>3. head' \in [Epochs -> Numbers \cup {-1}] /\ \A e \in Epochs : head'[e] < count[e]
    BY <2>1, <2>2, Zenon DEF StoreTypes, StoreInv
  <2>4. QED
    BY <2>1, <2>3, ObjectsFrame, Zenon
<1>3. ASSUME Restart PROVE StoreTypes' /\ StoreInv' /\ Grows
  BY <1>3, ObjectsFrame, Zenon DEF Restart, objects, StoreTypes, StoreInv
<1>4. QED
  BY <1>1, <1>2, <1>3, CommitKeeps, SealKeeps, ReclaimKeeps, CreateKeeps, AdvanceKeeps, Zenon
  DEF Produce

-----------------------------------------------------------------------------
(* Answers as sequences. *)

Elems(s) == {s[i] : i \in DOMAIN s}

(* r is the run of k groups of epoch e from number b on. *)
IsRun(r, e, b, k) ==
    /\ r \in Seq(Groups) /\ Len(r) = k
    /\ \A i \in 1 .. k : r[i] = <<e, b + i - 1>>

RunSet(e, b, k) == {<<e, m>> : m \in b .. b + k - 1}

(* A sequence and its elements. *)
LEMMA SeqFacts ==
  ASSUME NEW S, NEW s \in Seq(S)
  PROVE  /\ Len(s) \in Nat /\ DOMAIN s = 1 .. Len(s)
         /\ \A i \in 1 .. Len(s) : s[i] \in S
         /\ s # <<>> <=> Len(s) > 0
  OBVIOUS

(* One sequence after another. *)
LEMMA ConcatFacts ==
  ASSUME NEW S, NEW s \in Seq(S), NEW t \in Seq(S)
  PROVE  /\ s \o t \in Seq(S) /\ Len(s \o t) = Len(s) + Len(t)
         /\ \A i \in 1 .. Len(s) : (s \o t)[i] = s[i]
         /\ \A i \in 1 .. Len(t) : (s \o t)[Len(s) + i] = t[i]
         /\ \A i \in 1 .. Len(s) + Len(t) : i > Len(s) => (s \o t)[i] = t[i - Len(s)]
  OBVIOUS

(* A sequence and one element more is the two after one another. *)
LEMMA AppendFacts ==
  ASSUME NEW S, NEW s \in Seq(S), NEW x \in S
  PROVE  <<x>> \in Seq(S) /\ Append(s, x) = s \o <<x>> /\ Len(<<x>>) = 1 /\ <<x>>[1] = x
  OBVIOUS

(* The last k elements of a sequence. *)
LEMMA LastFacts ==
  ASSUME NEW S, NEW s \in Seq(S), NEW k \in Nat, k <= Len(s)
  PROVE  /\ SubSeq(s, Len(s) - k + 1, Len(s)) \in Seq(S)
         /\ Len(SubSeq(s, Len(s) - k + 1, Len(s))) = k
         /\ \A i \in 1 .. k : SubSeq(s, Len(s) - k + 1, Len(s))[i] = s[Len(s) - k + i]
  OBVIOUS

(* The elements of two sequences after one another. *)
LEMMA ConcatElems ==
  ASSUME NEW S, NEW s \in Seq(S), NEW t \in Seq(S)
  PROVE  Elems(s \o t) = Elems(s) \cup Elems(t)
<1>1. PICK u : u = s \o t
  OBVIOUS
<1>2. /\ Len(s) \in Nat /\ DOMAIN s = 1 .. Len(s) /\ Len(t) \in Nat /\ DOMAIN t = 1 .. Len(t)
      /\ DOMAIN u = 1 .. Len(s) + Len(t)
      /\ \A i \in 1 .. Len(s) : u[i] = s[i]
      /\ \A i \in 1 .. Len(t) : u[Len(s) + i] = t[i]
      /\ \A i \in 1 .. Len(s) + Len(t) : i > Len(s) => u[i] = t[i - Len(s)]
  BY <1>1
<1>3. \A i \in 1 .. Len(s) : i \in 1 .. Len(s) + Len(t)
  BY <1>2
<1>4. \A i \in 1 .. Len(t) : Len(s) + i \in 1 .. Len(s) + Len(t)
  BY <1>2
<1>5. \A i \in 1 .. Len(s) + Len(t) : i \in 1 .. Len(s) \/ (i > Len(s) /\ i - Len(s) \in 1 .. Len(t))
  BY <1>2
<1>6. Elems(s) \subseteq Elems(u)
  BY <1>2, <1>3, ZenonT(30) DEF Elems
<1>7. Elems(t) \subseteq Elems(u)
  <2>1. \A i \in DOMAIN t : \E l \in DOMAIN u : u[l] = t[i]
    BY <1>2, <1>4, Zenon
  <2>2. QED
    BY <2>1, Zenon DEF Elems
<1>8. Elems(u) \subseteq Elems(s) \cup Elems(t)
  BY <1>2, <1>5, ZenonT(30) DEF Elems
<1>9. QED
  BY <1>1, <1>6, <1>7, <1>8, Zenon

Joined(u, s, t) == u = s \o t

(* The same of a sequence u that is the two after one another. *)
LEMMA ConcatBoth ==
  ASSUME NEW s \in Seq(Groups), NEW t \in Seq(Groups), NEW u, Joined(u, s, t)
  PROVE  /\ u \in Seq(Groups) /\ Len(u) = Len(s) + Len(t)
         /\ \A i \in 1 .. Len(s) : u[i] = s[i]
         /\ \A i \in 1 .. Len(t) : u[Len(s) + i] = t[i]
         /\ Elems(u) = Elems(s) \cup Elems(t)
<1>1. Elems(u) = Elems(s) \cup Elems(t)
  BY ConcatElems, ZenonT(30) DEF Joined
<1>2. QED
  BY <1>1 DEF Joined

(* Two answers in order after one another, the second following the first. *)
LEMMA ConcatOrdered ==
  ASSUME NEW s \in Seq(Groups), NEW t \in Seq(Groups), Ordered(s), Ordered(t),
         Len(s) > 0 /\ Len(t) > 0 => Follows(s[Len(s)], t[1])
  PROVE  Ordered(s \o t)
<1>1. PICK u : u = s \o t
  OBVIOUS
<1>2. /\ Len(s) \in Nat /\ Len(t) \in Nat /\ Len(u) = Len(s) + Len(t)
      /\ \A i \in 1 .. Len(s) : u[i] = s[i]
      /\ \A i \in 1 .. Len(t) : u[Len(s) + i] = t[i]
  BY <1>1
<1>3. ASSUME NEW i \in 1 .. Len(s) + Len(t) - 1
      PROVE  Follows(u[i], u[i + 1])
  <2>1. CASE i < Len(s)
    <3>1. i \in 1 .. Len(s) - 1 /\ i \in 1 .. Len(s) /\ i + 1 \in 1 .. Len(s)
      BY <1>2, <2>1
    <3>2. QED
      BY <1>2, <3>1, Zenon DEF Ordered
  <2>2. CASE i = Len(s)
    <3>1. i \in 1 .. Len(s) /\ 1 \in 1 .. Len(t) /\ Len(s) > 0 /\ Len(t) > 0
      BY <1>2, <2>2
    <3>2. u[i] = s[Len(s)] /\ u[i + 1] = t[1]
      BY <1>2, <2>2, <3>1, Zenon
    <3>3. QED
      BY <3>1, <3>2, Zenon
  <2>3. CASE i > Len(s)
    <3>1. PICK j \in 1 .. Len(t) - 1 : Len(s) + j = i
      <4>1. i - Len(s) \in 1 .. Len(t) - 1 /\ Len(s) + (i - Len(s)) = i
        BY <1>2, <2>3
      <4>2. QED
        BY <4>1, Zenon
    <3>2. j \in 1 .. Len(t) /\ j + 1 \in 1 .. Len(t) /\ Len(s) + (j + 1) = i + 1
      <4>1. Len(s) \in Nat /\ Len(t) \in Nat
        BY <1>2, Zenon
      <4>2. \A a, b \in Nat : \A l \in 1 .. b - 1 :
                l \in 1 .. b /\ l + 1 \in 1 .. b /\ a + (l + 1) = (a + l) + 1
        OBVIOUS
      <4>3. QED
        BY <3>1, <4>1, <4>2, Zenon
    <3>3. u[i] = t[j]
      BY <1>2, <3>1, <3>2, Zenon
    <3>4. u[i + 1] = t[j + 1]
      <4>1. u[Len(s) + (j + 1)] = t[j + 1]
        BY <1>2, <3>2, Zenon
      <4>2. QED
        BY <3>2, <4>1, Zenon
    <3>5. QED
      BY <3>1, <3>3, <3>4, Zenon DEF Ordered
  <2>4. i < Len(s) \/ i = Len(s) \/ i > Len(s)
    BY <1>2
  <2>5. QED
    BY <2>1, <2>2, <2>3, <2>4, Zenon
<1>4. Ordered(u)
  <2>1. \A i \in 1 .. Len(u) - 1 : i \in 1 .. Len(s) + Len(t) - 1
    BY <1>2
  <2>2. QED
    BY <1>3, <2>1, Zenon DEF Ordered
<1>5. QED
  BY <1>1, <1>4, Zenon

(* A run is in order, and has the numbers it says. *)
LEMMA RunFacts ==
  ASSUME NEW r, NEW e \in Epochs, NEW b \in Nat, NEW k \in Nat, IsRun(r, e, b, k)
  PROVE  /\ Ordered(r)
         /\ Elems(r) = RunSet(e, b, k)
         /\ k > 0 => r[1] = <<e, b>> /\ r[Len(r)] = <<e, b + k - 1>>
<1>1. /\ r \in Seq(Groups) /\ Len(r) = k /\ DOMAIN r = 1 .. k
      /\ \A i \in 1 .. k : r[i] = <<e, b + i - 1>>
  BY SeqFacts, Zenon DEF IsRun
<1>2. Ordered(r)
  <2>1. ASSUME NEW i \in 1 .. k - 1 PROVE Follows(r[i], r[i + 1])
    <3>1. i \in 1 .. k /\ i + 1 \in 1 .. k /\ b + (i + 1) - 1 = (b + i - 1) + 1
      OBVIOUS
    <3>2. r[i] = <<e, b + i - 1>> /\ r[i + 1] = <<e, (b + i - 1) + 1>>
      BY <1>1, <3>1, Zenon
    <3>3. QED
      BY <3>2 DEF Follows
  <2>2. QED
    BY <1>1, <2>1, Zenon DEF Ordered
<1>3. Elems(r) = RunSet(e, b, k)
  <2>1. \A i \in 1 .. k : b + i - 1 \in b .. b + k - 1
    OBVIOUS
  <2>2. ASSUME NEW m \in b .. b + k - 1 PROVE m - b + 1 \in 1 .. k /\ r[m - b + 1] = <<e, m>>
    <3>1. m - b + 1 \in 1 .. k /\ b + (m - b + 1) - 1 = m
      OBVIOUS
    <3>2. QED
      BY <1>1, <3>1, Zenon
  <2>3. QED
    BY <1>1, <2>1, <2>2, ZenonT(30) DEF Elems, RunSet
<1>4. k > 0 => r[1] = <<e, b>> /\ r[Len(r)] = <<e, b + k - 1>>
  <2>1. k > 0 => 1 \in 1 .. k /\ k \in 1 .. k /\ b + 1 - 1 = b
    OBVIOUS
  <2>2. QED
    BY <1>1, <2>1, Zenon
<1>5. QED
  BY <1>2, <1>3, <1>4, Zenon

(* The groups of an epoch from number b on, k of them, are such a run. *)
LEMMA MakesRun ==
  ASSUME NEW e \in Epochs, NEW b \in Nat, NEW k \in Nat, b + k <= MaxGroups
  PROVE  IsRun([i \in 1 .. k |-> <<e, b + i - 1>>], e, b, k)
<1> DEFINE r == [i \in 1 .. k |-> <<e, b + i - 1>>]
<1>1. \A i \in 1 .. k : b + i - 1 \in Numbers
  BY TrackBoundsAssumption DEF Numbers
<1>2. r \in [1 .. k -> Groups]
  BY <1>1, Zenon DEF Groups
<1>3. \A i \in 1 .. k : r[i] = <<e, b + i - 1>>
  BY Zenon
<1> HIDE DEF r
<1>4. r \in Seq(Groups) /\ Len(r) = k
  BY <1>2
<1>5. IsRun(r, e, b, k)
  BY <1>3, <1>4, Zenon DEF IsRun
<1>6. QED
  BY <1>5, Zenon DEF r

(* What is kept stays the end of the answer when groups are put before it. *)
LEMMA PrependKept ==
  ASSUME NEW r \in Seq(Groups), NEW s \in Seq(Groups), NEW k \in Nat, NEW e, KeptOK(s, k, e)
  PROVE  /\ KeptOK(r \o s, k, e)
         /\ \A g : KeptHas(s, k, g) => KeptHas(r \o s, k, g)
<1>1. PICK u : u = r \o s
  OBVIOUS
<1>2. /\ Len(r) \in Nat /\ Len(s) \in Nat /\ Len(u) = Len(r) + Len(s) /\ k <= Len(s)
      /\ DOMAIN u = 1 .. Len(r) + Len(s) /\ DOMAIN s = 1 .. Len(s)
      /\ \A i \in 1 .. Len(s) : u[Len(r) + i] = s[i]
  BY <1>1 DEF KeptOK
<1>3. PICK a \in Nat, b \in Nat : a = Len(r) /\ b = Len(s)
  BY <1>2, Zenon
<1>4. \A i \in 1 .. a + b : i > (a + b) - k =>
        \E j \in 1 .. b : j > b - k /\ a + j = i
  <2>1. ASSUME NEW i \in 1 .. a + b, i > (a + b) - k
        PROVE  i - a \in 1 .. b /\ i - a > b - k /\ a + (i - a) = i
    BY <1>2, <1>3, <2>1
  <2>2. QED
    BY <2>1, Zenon
<1>5. \A j \in 1 .. b : a + j \in 1 .. a + b /\ (j > b - k => a + j > (a + b) - k)
  OBVIOUS
<1>6. k > 0 => b - k + 1 \in 1 .. b /\ a + (b - k + 1) = (a + b) - k + 1
  BY <1>2, <1>3
<1>7. k <= a + b
  BY <1>2, <1>3
<1>8. /\ Len(u) = a + b /\ DOMAIN u = 1 .. a + b /\ Len(s) = b /\ DOMAIN s = 1 .. b
      /\ \A j \in 1 .. b : u[a + j] = s[j]
  BY <1>2, <1>3, Zenon
<1>9. KeptOK(u, k, e)
  <2>1. \A j \in 1 .. b : j > b - k => s[j][1] > e
    BY <1>8, Zenon DEF KeptOK
  <2>2. ASSUME NEW i \in DOMAIN u, i > Len(u) - k PROVE u[i][1] > e
    <3>1. i \in 1 .. a + b /\ i > (a + b) - k
      BY <1>8, <2>2, Zenon
    <3>2. PICK j \in 1 .. b : j > b - k /\ a + j = i
      BY <1>4, <3>1, Zenon
    <3>3. u[i] = s[j]
      BY <1>8, <3>2, Zenon
    <3>4. QED
      BY <2>1, <3>2, <3>3, Zenon
  <2>3. k > 0 => s[b - k + 1][2] = 0
    BY <1>8, Zenon DEF KeptOK
  <2>4. k > 0 => u[(a + b) - k + 1] = s[b - k + 1]
    BY <1>6, <1>8, Zenon
  <2>5. QED
    BY <1>7, <1>8, <2>2, <2>3, <2>4, Zenon DEF KeptOK
<1>10. ASSUME NEW g, KeptHas(s, k, g) PROVE KeptHas(u, k, g)
  <2>1. PICK j \in 1 .. b : j > b - k /\ s[j] = g
    BY <1>8, <1>10, Zenon DEF KeptHas
  <2>2. QED
    BY <1>5, <1>8, <2>1, Zenon DEF KeptHas
<1>11. QED
  BY <1>1, <1>9, <1>10, Zenon

(* The answer is cut back to what is kept. *)
LEMMA CutToKept ==
  ASSUME NEW s \in Seq(Groups), NEW k \in Nat, NEW e, KeptOK(s, k, e), Ordered(s)
  PROVE  LET t == SubSeq(s, Len(s) - k + 1, Len(s))
         IN  /\ t \in Seq(Groups) /\ Len(t) = k /\ Elems(t) \subseteq Elems(s)
             /\ KeptOK(t, k, e) /\ Ordered(t)
             /\ \A g : KeptHas(s, k, g) => KeptHas(t, k, g)
<1>1. PICK t : t = SubSeq(s, Len(s) - k + 1, Len(s))
  OBVIOUS
<1>2. Len(s) \in Nat /\ DOMAIN s = 1 .. Len(s) /\ k <= Len(s)
  BY DEF KeptOK
<1>3. PICK a \in Nat : Len(s) = a + k
  <2>1. Len(s) - k \in Nat /\ Len(s) = (Len(s) - k) + k
    BY <1>2
  <2>2. QED
    BY <2>1, Zenon
<1>4. /\ t \in Seq(Groups) /\ Len(t) = k /\ DOMAIN t = 1 .. k
      /\ \A i \in 1 .. k : t[i] = s[a + i]
  <2>1. Len(s) - k = a
    BY <1>3
  <2>2. /\ t \in Seq(Groups) /\ Len(t) = k
        /\ \A i \in 1 .. k : t[i] = s[Len(s) - k + i]
    BY <1>1, <1>2, LastFacts, ZenonT(30)
  <2>3. QED
    BY <2>1, <2>2, SeqFacts, Zenon
<1>5. /\ \A i \in 1 .. k : a + i \in 1 .. a + k /\ a + i > (a + k) - k /\ i > k - k
      /\ \A i \in 1 .. k - 1 : a + i \in 1 .. (a + k) - 1 /\ (a + i) + 1 = a + (i + 1) /\ i \in 1 .. k /\ i + 1 \in 1 .. k
      /\ k > 0 => 1 \in 1 .. k /\ k - k + 1 = 1 /\ (a + k) - k + 1 = a + 1
      /\ k <= k
  OBVIOUS
<1>6. Elems(t) \subseteq Elems(s)
  <2>1. \A i \in DOMAIN t : \E l \in DOMAIN s : s[l] = t[i]
    BY <1>2, <1>3, <1>4, <1>5, Zenon
  <2>2. QED
    BY <2>1, Zenon DEF Elems
<1>7. KeptOK(t, k, e)
  <2>1. \A i \in DOMAIN t : t[i][1] > e
    BY <1>2, <1>3, <1>4, <1>5, Zenon DEF KeptOK
  <2>2. k > 0 => s[a + 1][2] = 0
    BY <1>3, <1>5, Zenon DEF KeptOK
  <2>3. QED
    BY <1>4, <1>5, <2>1, <2>2, Zenon DEF KeptOK
<1>8. Ordered(t)
  <2>1. \A i \in 1 .. (a + k) - 1 : Follows(s[i], s[i + 1])
    BY <1>3, Zenon DEF Ordered
  <2>2. ASSUME NEW i \in 1 .. k - 1 PROVE Follows(t[i], t[i + 1])
    <3>1. t[i] = s[a + i] /\ t[i + 1] = s[a + (i + 1)]
      BY <1>4, <1>5, Zenon
    <3>2. Follows(s[a + i], s[(a + i) + 1]) /\ (a + i) + 1 = a + (i + 1)
      BY <1>5, <2>1, Zenon
    <3>3. QED
      BY <3>1, <3>2, Zenon
  <2>3. QED
    BY <1>4, <2>2, Zenon DEF Ordered
<1>9. ASSUME NEW g, KeptHas(s, k, g) PROVE KeptHas(t, k, g)
  <2>1. PICK l \in 1 .. a + k : l > (a + k) - k /\ s[l] = g
    BY <1>2, <1>3, <1>9, Zenon DEF KeptHas
  <2>2. l - a \in 1 .. k /\ a + (l - a) = l
    BY <2>1
  <2>3. QED
    BY <1>4, <1>5, <2>1, <2>2, ZenonT(30) DEF KeptHas
<1>10. QED
  BY <1>1, <1>4, <1>6, <1>7, <1>8, <1>9, Zenon

-----------------------------------------------------------------------------
(* The calls. *)

(* What a call counts with. *)
LEMMA CallNumbering ==
  ASSUME CallTypes
  PROVE  /\ known \in Nat /\ epoch \in Nat /\ epoch \in Epochs /\ limit \in Nat /\ kept \in Nat
         /\ n \in Int /\ last \in Int
         /\ id[1] \in Nat /\ id[2] \in Nat
         /\ logRoot.openFrom \in Nat /\ logRoot.openFrom <= MaxGroups
         /\ Len(answer) \in Nat /\ DOMAIN answer = 1 .. Len(answer)
         /\ MaxGroups \in Nat /\ MaxEpoch \in Nat
         /\ \A e \in Epochs : e \in Nat /\ e >= 1 /\ asked[e] \in Nat /\ asked[e] <= MaxGroups
         /\ \A m \in Numbers : m \in Nat /\ m < MaxGroups
<1>1. id[1] \in Nat /\ id[2] \in Nat
  BY TrackBoundsAssumption DEF CallTypes, Groups, Zero, Epochs, Numbers
<1>2. logRoot.openFrom \in Nat /\ logRoot.openFrom <= MaxGroups
  <2>1. logRoot.openFrom \in 0 .. MaxGroups
    BY LogFields, Zenon DEF CallTypes
  <2>2. QED
    BY <2>1, TrackBoundsAssumption
<1>3. Len(answer) \in Nat /\ DOMAIN answer = 1 .. Len(answer)
  BY SeqFacts, Zenon DEF CallTypes
<1>4. QED
  BY <1>1, <1>2, <1>3, TrackBoundsAssumption DEF CallTypes, Epochs, Numbers

(* What take puts before the answer: a run r of k groups from b on. *)
Taken(r, b, k, first, upto) ==
    /\ b \in Nat /\ k \in Nat /\ IsRun(r, epoch, b, k)
    /\ first <= b /\ b + k - 1 <= upto
    /\ k <= limit - Len(answer)
    /\ k < limit - Len(answer) => b = first
    /\ epoch = id[1] /\ k > 0 => b + k - 1 < id[2]
    /\ \A m \in Nat : b <= m /\ m <= upto /\ (epoch = id[1] => m < id[2]) => m <= b + k - 1
    /\ epoch # id[1] \/ upto < id[2] => b + k - 1 = upto

(* The arithmetic of take. *)
LEMMA TakeNumbers ==
  ASSUME NEW f \in Nat, NEW u \in Int, f <= u + 1, NEW i \in Nat, NEW w \in Nat, w > 0,
         NEW top \in Int, NEW bottom \in Int, NEW k \in Nat,
         top = u \/ (i <= u /\ top = i - 1),
         \/ top - f >= w /\ bottom = top - w + 1
         \/ top - f < w /\ bottom = f,
         \/ top - bottom + 1 >= 0 /\ k = top - bottom + 1
         \/ top - bottom + 1 < 0 /\ k = 0
  PROVE  /\ bottom \in Nat /\ f <= bottom /\ bottom + k - 1 <= u
         /\ k <= w
         /\ k < w => bottom = f
         /\ k > 0 => bottom + k - 1 = top
         /\ top = u => bottom + k - 1 = u
         /\ \A m \in Nat : bottom <= m /\ m <= top => m <= bottom + k - 1
  OBVIOUS

(* take yields the newest of the groups given that are before id, no more  *)
(* than are still wanted.                                                  *)
LEMMA TakeFacts ==
  ASSUME CallTypes, Len(answer) < limit,
         NEW first \in Nat, NEW upto \in Int, first <= upto + 1, upto < MaxGroups
  PROVE  \E r, b, k : Taken(r, b, k, first, upto) /\ Take(first, upto) = r \o answer
<1>1. /\ epoch \in Epochs /\ id[1] \in Nat /\ id[2] \in Nat /\ limit \in Nat /\ Len(answer) \in Nat
      /\ MaxGroups \in Nat
  BY CallNumbering, Zenon
<1>2. PICK top \in Int : top = IF epoch = id[1] /\ id[2] <= upto THEN id[2] - 1 ELSE upto
  BY <1>1
<1>3. PICK wanted \in Nat : wanted = limit - Len(answer) /\ wanted > 0
  BY <1>1
<1>4. PICK bottom \in Int : bottom = IF top - first >= wanted THEN top - wanted + 1 ELSE first
  <2>1. (IF top - first >= wanted THEN top - wanted + 1 ELSE first) \in Int
    BY <1>1
  <2>2. QED
    BY <2>1, Zenon
<1>5. PICK k \in Nat : k = IF top - bottom + 1 >= 0 THEN top - bottom + 1 ELSE 0
  <2>1. (IF top - bottom + 1 >= 0 THEN top - bottom + 1 ELSE 0) \in Nat
    OBVIOUS
  <2>2. QED
    BY <2>1, Zenon
<1>6. 1 .. top - bottom + 1 = 1 .. k
  BY <1>5
<1>7. Take(first, upto) = [i \in 1 .. k |-> <<epoch, bottom + i - 1>>] \o answer
  BY <1>2, <1>3, <1>4, <1>6, Zenon DEF Take
<1>8. /\ bottom \in Nat /\ first <= bottom /\ bottom + k - 1 <= upto
      /\ k <= wanted
      /\ k < wanted => bottom = first
      /\ k > 0 => bottom + k - 1 = top
      /\ top = upto => bottom + k - 1 = upto
      /\ \A m \in Nat : bottom <= m /\ m <= top => m <= bottom + k - 1
  <2>1. top = upto \/ (id[2] <= upto /\ top = id[2] - 1)
    BY <1>2, Zenon
  <2>2. \/ top - first >= wanted /\ bottom = top - wanted + 1
        \/ top - first < wanted /\ bottom = first
    BY <1>4
  <2>3. \/ top - bottom + 1 >= 0 /\ k = top - bottom + 1
        \/ top - bottom + 1 < 0 /\ k = 0
    BY <1>5
  <2>4. QED
    <3>1. id[2] \in Nat /\ wanted \in Nat /\ wanted > 0
      BY <1>1, <1>3
    <3>2. QED
      BY <2>1, <2>2, <2>3, <3>1, TakeNumbers, SMTT(20)
<1>9. /\ epoch = id[1] => top < id[2]
      /\ epoch # id[1] \/ upto < id[2] => top = upto
      /\ \A m \in Nat : m <= upto /\ (epoch = id[1] => m < id[2]) => m <= top
  BY <1>1, <1>2
<1>10. /\ epoch = id[1] /\ k > 0 => bottom + k - 1 < id[2]
       /\ epoch # id[1] \/ upto < id[2] => bottom + k - 1 = upto
       /\ \A m \in Nat : bottom <= m /\ m <= upto /\ (epoch = id[1] => m < id[2]) => m <= bottom + k - 1
  BY <1>8, <1>9, Zenon
<1>11. IsRun([i \in 1 .. k |-> <<epoch, bottom + i - 1>>], epoch, bottom, k)
  <2>1. bottom + k <= MaxGroups
    BY <1>1, <1>8
  <2>2. QED
    BY <1>1, <1>8, <2>1, MakesRun, Zenon
<1>12. QED
  BY <1>3, <1>7, <1>8, <1>10, <1>11, Zenon DEF Taken

(* What the call that has ended must have answered. *)
LEMMA PromisedNext ==
  /\ \A g \in Promised' : op' \in {"lookup", "walk", "before"} =>
        g \in Groups /\ g[2] < asked'[g[1]] /\ g[1] <= known'
  /\ op' = "lookup" => \A g \in Promised' : g = id'
  /\ op' = "before" => \A g \in Promised' :
        /\ Wanted(g)'
        /\ Len(answer') = limit' => Earlier(answer'[1], g)
<1>1. CASE op' = "lookup"
  BY <1>1, Zenon DEF Promised, Groups
<1>2. CASE op' = "walk"
  BY <1>2, Zenon DEF Promised, Groups
<1>3. CASE op' = "before"
  BY <1>3, Zenon DEF Promised, Groups, Wanted
<1>4. CASE op' \notin {"lookup", "walk", "before"}
  BY <1>4, Zenon
<1>5. QED
  BY <1>1, <1>2, <1>3, <1>4, Zenon

(* A step of the call leaves the objects and the producer alone. *)
LEMMA StoreFrame ==
  ASSUME StoreTypes, StoreInv, UNCHANGED trackVars
  PROVE  /\ StoreTypes' /\ StoreInv' /\ UNCHANGED <<latest, logs, deltas, head, count, busy, writing, sweep>>
         /\ Committed' = Committed
<1>1. UNCHANGED <<latest, logs, deltas, head, count, busy, writing, sweep>>
  BY Zenon DEF trackVars, objects, producer
<1>2. QED
  BY <1>1, Zenon DEF StoreTypes, StoreInv, Committed

(* A step of the producer during a call. *)
LEMMA ElsewhereKeeps ==
  ASSUME QueryInv, Produce, UNCHANGED queryVars
  PROVE  QueryInv'
<1> /\ StoreTypes /\ StoreInv /\ CallTypes /\ PlaceInv
    /\ LookupInv /\ WalkInv /\ KeptInv /\ BeforeInv
    /\ AnswerInv /\ MissesNothing
  BY Zenon DEF QueryInv
<1>1. StoreTypes' /\ StoreInv' /\ Grows
  BY ProduceKeeps, Zenon
<1>2. /\ known' = known /\ op' = op /\ id' = id /\ limit' = limit /\ at' = at /\ epoch' = epoch
      /\ logRoot' = logRoot /\ n' = n /\ last' = last /\ answer' = answer /\ kept' = kept
      /\ attempt' = attempt /\ asked' = asked /\ clean' = clean
  BY Zenon DEF queryVars, call
<1>3. CallTypes'
  BY <1>2, Zenon DEF CallTypes
<1>4. known <= latest'
  <2>1. known <= latest /\ latest <= latest' /\ known \in Nat /\ latest \in Nat /\ latest' \in Nat
    BY <1>1, Numbering, CallNumbering DEF PlaceInv, Grows, StoreTypes, Epochs
  <2>2. QED
    BY <2>1
<1>5. at \in Searching =>
        /\ logs'[epoch] = logs[epoch] \/ logs[epoch].openFrom < logs'[epoch].openFrom
        /\ logRoot.openFrom \in Nat /\ logs[epoch].openFrom \in Nat
        /\ logRoot.openFrom <= logs[epoch].openFrom
  <2>1. at \in Searching => epoch <= latest
    BY Numbering, CallNumbering, SMTT(20) DEF PlaceInv
  <2>2. epoch \in Epochs /\ logRoot.openFrom \in Nat
    BY CallNumbering, Zenon
  <2>3. QED
    BY <1>1, <2>1, <2>2, LogFields, Zenon DEF Grows, StoreInv, PlaceInv
<1>6. at \in Searching => logRoot.openFrom <= logs'[epoch].openFrom
  <2>1. CASE logs'[epoch] = logs[epoch]
    BY <1>5, <2>1, Zenon
  <2>2. CASE logs'[epoch] # logs[epoch]
    <3>1. ASSUME at \in Searching PROVE logs'[epoch].openFrom \in Nat
      <4>1. epoch \in Epochs /\ epoch <= latest'
        <5>1. epoch <= known /\ epoch \in Epochs /\ known \in Epochs /\ latest' \in Epochs
          BY <1>1, <3>1, Zenon DEF PlaceInv, StoreTypes, CallTypes
        <5>2. \A a, b, c \in Epochs : a <= b /\ b <= c => a <= c
          BY DEF Epochs
        <5>3. QED
          BY <1>4, <5>1, <5>2, Zenon
      <4>2. QED
        BY <1>1, <4>1, LogFields, Zenon DEF StoreInv
    <3>2. QED
      BY <1>5, <2>2, <3>1
  <2>3. QED
    BY <2>1, <2>2, Zenon
<1>7. at \in Searching /\ logRoot = logs'[epoch] => logRoot = logs[epoch]
  <2>1. \A a, b \in Nat : ~(a <= b /\ b < a)
    OBVIOUS
  <2>2. QED
    BY <1>5, <2>1, Zenon
<1>8. \A e \in Epochs : asked[e] <= count'[e]
  <2>1. \A e \in Epochs : asked[e] \in Nat /\ count[e] \in Nat /\ count'[e] \in Nat
    <3>1. \A e \in Epochs : count'[e] \in 0 .. MaxGroups
      BY <1>1, Zenon DEF StoreTypes
    <3>2. \A a \in 0 .. MaxGroups : a \in Nat
      OBVIOUS
    <3>3. QED
      BY <3>1, <3>2, Numbering, CallNumbering, Zenon
  <2>2. \A a, b, c \in Nat : a <= b /\ b <= c => a <= c
    OBVIOUS
  <2>3. QED
    BY <1>1, <2>1, <2>2, Zenon DEF PlaceInv, Grows
<1>9. PlaceInv'
  BY <1>2, <1>4, <1>6, <1>8, Zenon DEF PlaceInv
<1>10. LookupInv'
  BY <1>2, Zenon DEF LookupInv
<1>11. Answer' = Answer /\ \A g : Wanted(g)' <=> Wanted(g)
  BY <1>2, Zenon DEF Answer, Wanted
<1>12. WalkInv'
  BY <1>2, <1>11, Zenon DEF WalkInv
<1>13. KeptInv'
  BY <1>2, <1>11, Zenon DEF KeptInv
<1>14. BeforeInv'
  <2>1. Reach' = Reach
    BY <1>2, Zenon DEF Reach
  <2>2. at \in {"back", "sealed"} => at \in Searching
    BY Zenon DEF Searching
  <2>3. QED
    BY <1>2, <1>7, <1>11, <2>1, <2>2, Zenon DEF BeforeInv
<1>15. AnswerInv'
  <2>1. Committed \subseteq Committed'
    <3>1. \A e \in Epochs : count[e] \in Nat /\ count'[e] \in Nat
      BY <1>1, Numbering DEF StoreTypes
    <3>2. \A g \in Epochs \X Numbers : g[2] < count[g[1]] => g[2] < count'[g[1]]
      <4>1. \A g \in Epochs \X Numbers : g[1] \in Epochs /\ g[2] \in Nat
        BY Numbering
      <4>2. \A a, b, c \in Nat : a < b /\ b <= c => a < c
        OBVIOUS
      <4>3. QED
        BY <1>1, <3>1, <4>1, <4>2, Zenon DEF Grows
    <3>3. QED
      BY <3>2, Zenon DEF Committed
  <2>2. QED
    BY <1>2, <1>11, <2>1, Zenon DEF AnswerInv
<1>16. MissesNothing'
  <2>1. Promised' = Promised
    BY <1>2 DEF Promised
  <2>2. QED
    BY <1>2, <1>11, <2>1, Zenon DEF MissesNothing
<1>17. QED
  BY <1>1, <1>3, <1>9, <1>10, <1>12, <1>13, <1>14, <1>15, <1>16, Zenon DEF QueryInv

(* Nothing is left of a call that has returned. *)
LEMMA ReturnKeeps ==
  ASSUME QueryInv, Return, UNCHANGED <<trackVars, known>>
  PROVE  QueryInv'
<1> /\ StoreTypes /\ StoreInv /\ CallTypes /\ PlaceInv
  BY Zenon DEF QueryInv
<1>1. /\ StoreTypes' /\ StoreInv' /\ UNCHANGED <<latest, logs, deltas, head, count, busy, writing, sweep>>
      /\ Committed' = Committed
  BY StoreFrame, Zenon
<1>2. /\ op' = "none" /\ at' = "idle" /\ id' = Zero /\ limit' = 0
      /\ epoch' = 1 /\ logRoot' = NewLog(1)
      /\ n' = 0 /\ last' = -1 /\ answer' = <<>> /\ kept' = 0
      /\ asked' = [e \in Epochs |-> 0] /\ clean' = TRUE /\ known' = known
  BY Zenon DEF Return
<1>3. 1 \in Epochs /\ 0 \in 0 .. MaxGroups
  BY TrackBoundsAssumption DEF Epochs
<1>4. CallTypes'
  <2>1. NewLog(1) \in Log
    BY <1>3, NewLogFields, Zenon
  <2>2. <<>> \in Seq(Groups) /\ 0 \in Nat /\ 0 \in Int /\ -1 \in Int
    OBVIOUS
  <2>3. asked' \in [Epochs -> 0 .. MaxGroups]
    BY <1>2, <1>3, Zenon
  <2>4. QED
    BY <1>2, <1>3, <2>1, <2>2, <2>3, Zenon DEF CallTypes
<1>5. PlaceInv'
  <2>1. \A e \in Epochs : asked'[e] <= count[e]
    BY <1>2, Numbering
  <2>2. QED
    BY <1>1, <1>2, <2>1, Zenon DEF PlaceInv, Searching
<1>6. LookupInv' /\ WalkInv' /\ KeptInv' /\ BeforeInv' /\ MissesNothing'
  BY <1>2, Zenon DEF LookupInv, WalkInv, KeptInv, BeforeInv, MissesNothing
<1>7. AnswerInv'
  <2>1. Answer' = {} /\ Ordered(<<>>)
    BY <1>2 DEF Answer, Ordered
  <2>2. QED
    BY <1>2, <2>1, Zenon DEF AnswerInv
<1>8. QED
  BY <1>1, <1>4, <1>5, <1>6, <1>7, Zenon DEF QueryInv

(* Refresh, between calls. *)
LEMMA RefreshKeeps ==
  ASSUME QueryInv, Refresh
  PROVE  QueryInv'
<1> /\ StoreTypes /\ StoreInv /\ CallTypes /\ PlaceInv /\ AnswerInv
  BY Zenon DEF QueryInv
<1>1. /\ StoreTypes' /\ StoreInv' /\ UNCHANGED <<latest, logs, deltas, head, count, busy, writing, sweep>>
      /\ Committed' = Committed
  BY StoreFrame, Zenon DEF Refresh
<1>2. /\ op = "none" /\ at = "idle" /\ known' = latest
      /\ op' = op /\ id' = id /\ limit' = limit /\ at' = at /\ epoch' = epoch
      /\ logRoot' = logRoot /\ n' = n /\ last' = last /\ answer' = answer /\ kept' = kept
      /\ asked' = asked /\ clean' = clean
  BY Zenon DEF Refresh, call, PlaceInv
<1>3. CallTypes'
  BY <1>2, Zenon DEF CallTypes, StoreTypes
<1>4. PlaceInv'
  <2>1. latest <= latest
    BY Numbering
  <2>2. QED
    BY <1>1, <1>2, <2>1, Zenon DEF PlaceInv, Searching
<1>5. LookupInv' /\ WalkInv' /\ KeptInv' /\ BeforeInv' /\ MissesNothing'
  BY <1>2, Zenon DEF LookupInv, WalkInv, KeptInv, BeforeInv, MissesNothing
<1>6. AnswerInv'
  <2>1. Answer' = Answer
    BY <1>2, Zenon DEF Answer
  <2>2. QED
    BY <1>1, <1>2, <2>1, Zenon DEF AnswerInv
<1>7. QED
  BY <1>1, <1>3, <1>4, <1>5, <1>6, Zenon DEF QueryInv

(* A call begins, with nothing answered. *)
LEMMA BeginFacts ==
  ASSUME QueryInv, NEW which, NEW e, Begin(which, e), e \in Epochs,
         which \in {"lookup", "walk", "before"},
         id' \in Groups \cup {Zero}, limit' \in Nat, at' \in {"done", "log"},
         at' = "log" => e <= known
  PROVE  /\ op' = which /\ epoch' = e /\ answer' = <<>> /\ kept' = 0 /\ known' = known
         /\ StoreTypes' /\ StoreInv' /\ CallTypes' /\ PlaceInv' /\ AnswerInv'
<1> /\ StoreTypes /\ StoreInv /\ CallTypes /\ PlaceInv
  BY Zenon DEF QueryInv
<1>1. UNCHANGED trackVars
  BY Zenon DEF Begin
<1>2. /\ StoreTypes' /\ StoreInv' /\ UNCHANGED <<latest, logs, deltas, head, count, busy, writing, sweep>>
      /\ Committed' = Committed
  BY <1>1, StoreFrame, Zenon
<1>3. /\ op' = which /\ epoch' = e /\ answer' = <<>> /\ kept' = 0 /\ known' = known
      /\ asked' = count /\ logRoot' = logRoot /\ n' = n /\ last' = last
  BY Zenon DEF Begin, PlaceInv
<1>4. CallTypes'
  <2>1. <<>> \in Seq(Groups) /\ 0 \in Nat
    OBVIOUS
  <2>2. QED
    BY <1>3, <2>1, Zenon DEF CallTypes, StoreTypes
<1>5. PlaceInv'
  <2>1. \A a \in Epochs : count[a] <= count[a]
    BY Numbering
  <2>2. at' \notin Searching /\ at' # "idle" /\ op' # "none"
    BY <1>3, Zenon DEF Searching
  <2>3. QED
    BY <1>2, <1>3, <2>1, <2>2, Zenon DEF PlaceInv, Searching
<1>6. AnswerInv'
  <2>1. Answer' = {} /\ Ordered(<<>>)
    BY <1>3 DEF Answer, Ordered
  <2>2. QED
    BY <1>3, <2>1, Zenon DEF AnswerInv
<1>7. QED
  BY <1>2, <1>3, <1>4, <1>5, <1>6, Zenon

(* A Lookup begins, or ends at once, the epoch being unknown. *)
LEMMA LookupKeeps ==
  ASSUME QueryInv, Lookup
  PROVE  QueryInv'
<1>1. PICK g \in Epochs \X Numbers :
        /\ Begin("lookup", g[1]) /\ id' = g /\ limit' = limit
        /\ at' = IF g[1] > known THEN "done" ELSE "log"
  BY Zenon DEF Lookup
<1>2. CallTypes
  BY Zenon DEF QueryInv
<1>3. g[1] \in Epochs /\ g \in Groups
  BY DEF Groups
<1>4. /\ at' \in {"done", "log"} /\ limit' \in Nat
      /\ at' = "log" => g[1] <= known
      /\ at' = "done" => ~(g[1] <= known)
  <2>1. g[1] \in Nat /\ known \in Nat /\ limit \in Nat
    BY <1>2, <1>3, CallNumbering, Zenon
  <2>2. g[1] > known <=> ~(g[1] <= known)
    BY <2>1
  <2>3. QED
    BY <1>1, <2>1, <2>2, Zenon
<1>5. /\ op' = "lookup" /\ epoch' = g[1] /\ answer' = <<>> /\ known' = known
      /\ StoreTypes' /\ StoreInv' /\ CallTypes' /\ PlaceInv' /\ AnswerInv'
  BY <1>1, <1>3, <1>4, BeginFacts, Zenon
<1>6. LookupInv' /\ WalkInv' /\ KeptInv' /\ BeforeInv'
  BY <1>1, <1>4, <1>5, Zenon DEF LookupInv, WalkInv, KeptInv, BeforeInv
<1>7. MissesNothing'
  BY <1>1, <1>4, <1>5, PromisedNext, Zenon DEF MissesNothing
<1>8. QED
  BY <1>5, <1>6, <1>7, Zenon DEF QueryInv

(* A walk begins at the first epoch. *)
LEMMA WalkKeeps ==
  ASSUME QueryInv, Walk
  PROVE  QueryInv'
<1>1. Begin("walk", 1) /\ at' = "log" /\ id' = id /\ limit' = limit
  BY Zenon DEF Walk
<1>2. CallTypes
  BY Zenon DEF QueryInv
<1>3. /\ 1 \in Epochs /\ 1 <= known /\ \A g \in Groups : ~(g[1] < 1)
      /\ id' \in Groups \cup {Zero} /\ limit' \in Nat
  BY <1>1, <1>2, TrackBoundsAssumption DEF CallTypes, Epochs, Groups
<1>4. /\ op' = "walk" /\ epoch' = 1 /\ answer' = <<>> /\ known' = known
      /\ StoreTypes' /\ StoreInv' /\ CallTypes' /\ PlaceInv' /\ AnswerInv'
  BY <1>1, <1>3, BeginFacts, Zenon
<1>5. LookupInv' /\ WalkInv' /\ KeptInv' /\ BeforeInv' /\ MissesNothing'
  BY <1>1, <1>3, <1>4, Zenon DEF LookupInv, WalkInv, KeptInv, BeforeInv, MissesNothing
<1>6. QED
  BY <1>4, <1>5, Zenon DEF QueryInv

(* Before begins at the epoch of its id, or the latest known. *)
LEMMA BeforeKeeps ==
  ASSUME QueryInv, Before
  PROVE  QueryInv'
<1>1. PICK g \in Committed \cup {Zero}, most \in 1 .. MaxLimit :
        /\ Begin("before", IF g # Zero /\ g[1] < known THEN g[1] ELSE known)
        /\ id' = g /\ limit' = most /\ at' = "log"
  BY Zenon DEF Before
<1>2. CallTypes
  BY Zenon DEF QueryInv
<1>3. PICK e : e = IF g # Zero /\ g[1] < known THEN g[1] ELSE known
  OBVIOUS
<1>4. /\ g \in Groups \cup {Zero} /\ (g # Zero => g[1] \in Epochs) /\ most \in Nat /\ 0 < most
  BY QueryAssumption DEF Committed, Groups
<1>5. known \in Epochs /\ known <= known
  BY <1>2, CallNumbering DEF CallTypes
<1>6. /\ e \in Epochs /\ e <= known
      /\ e = known \/ (g # Zero /\ e = g[1])
  <2>1. \A x \in Nat : x < known => x <= known
    BY <1>2, CallNumbering, SMTT(20)
  <2>2. g # Zero => g[1] \in Nat
    BY <1>2, <1>4, CallNumbering, Zenon
  <2>3. QED
    BY <1>3, <1>4, <1>5, <2>1, <2>2, Zenon
<1>7. /\ op' = "before" /\ epoch' = e /\ answer' = <<>> /\ kept' = 0 /\ known' = known
      /\ StoreTypes' /\ StoreInv' /\ CallTypes' /\ PlaceInv' /\ AnswerInv'
  <2>1. Begin("before", e)
    BY <1>1, <1>3, Zenon
  <2>2. /\ id' \in Groups \cup {Zero} /\ limit' \in Nat /\ at' \in {"done", "log"}
        /\ "before" \in {"lookup", "walk", "before"}
    BY <1>1, <1>4, Zenon
  <2>3. QED
    BY <1>6, <2>1, <2>2, BeginFacts, Zenon
<1>8. \A h \in Groups : ~(Wanted(h)' /\ h[1] > e)
  <2>1. ASSUME NEW h \in Groups, h[1] <= known, g = Zero \/ Earlier(h, g), h[1] > e PROVE FALSE
    <3>1. h[1] \in Nat /\ e \in Nat /\ known \in Nat
      BY <1>2, <1>6, CallNumbering DEF Groups
    <3>2. g # Zero /\ e = g[1] /\ Earlier(h, g)
      BY <1>6, <2>1, <3>1
    <3>3. QED
      BY <2>1, <3>1, <3>2 DEF Earlier
  <2>2. QED
    BY <1>1, <1>7, <2>1, Zenon DEF Wanted
<1>9. KeptOK(<<>>, 0, e) /\ Len(<<>>) = 0
  BY DEF KeptOK
<1>10. KeptInv'
  <2>1. Answer' = {}
    BY <1>7 DEF Answer
  <2>2. QED
    BY <1>1, <1>4, <1>7, <1>8, <1>9, <2>1, Zenon DEF KeptInv
<1>11. LookupInv' /\ WalkInv' /\ BeforeInv' /\ MissesNothing'
  BY <1>1, <1>7, Zenon DEF LookupInv, WalkInv, BeforeInv, MissesNothing
<1>12. QED
  BY <1>7, <1>10, <1>11, Zenon DEF QueryInv

(* A step of a call that goes on, or ends, in an epoch it may leave. *)
LEMMA CallFrame ==
  ASSUME QueryInv, op # "none", UNCHANGED <<trackVars, known, op, id, limit, asked>>,
         epoch' \in Epochs, logRoot' \in Log, n' \in Int, last' \in Int,
         answer' \in Seq(Groups), kept' \in Nat,
         at' \in {"done", "log"} \cup Searching,
         at' = "open" => op \in {"lookup", "walk"},
         at' \in {"head", "probe", "back", "sealed"} => op = "before",
         at' \in {"log"} \cup Searching => epoch' <= known,
         at' \in Searching => logRoot'.openFrom <= logs[epoch'].openFrom
  PROVE  /\ StoreTypes' /\ StoreInv' /\ CallTypes' /\ PlaceInv'
         /\ UNCHANGED <<latest, logs, deltas, head, count>> /\ Committed' = Committed
         /\ Answer' = Elems(answer') /\ Answer = Elems(answer)
         /\ \A g : Wanted(g)' <=> Wanted(g)
<1> /\ StoreTypes /\ StoreInv /\ CallTypes /\ PlaceInv
  BY Zenon DEF QueryInv
<1>1. UNCHANGED trackVars
  BY Zenon
<1>2. /\ StoreTypes' /\ StoreInv' /\ UNCHANGED <<latest, logs, deltas, head, count, busy, writing, sweep>>
      /\ Committed' = Committed
  BY <1>1, StoreFrame, Zenon
<1>3. known' = known /\ op' = op /\ id' = id /\ limit' = limit /\ asked' = asked
  BY Zenon
<1>4. CallTypes'
  BY <1>3, Zenon DEF CallTypes
<1>5. PlaceInv'
  <2>1. at' # "idle"
    BY Zenon DEF Searching
  <2>2. op \in {"lookup", "walk", "before"}
    BY Zenon DEF PlaceInv
  <2>3. QED
    BY <1>2, <1>3, <2>1, <2>2, Zenon DEF PlaceInv
<1>6. QED
  BY <1>2, <1>3, <1>4, <1>5, Zenon DEF Answer, Elems, Wanted

(* The log root of the epoch is read. *)
LEMMA ReadLogKeeps ==
  ASSUME QueryInv, ReadLog
  PROVE  QueryInv'
<1> /\ StoreTypes /\ StoreInv /\ CallTypes /\ PlaceInv
    /\ LookupInv /\ WalkInv /\ KeptInv /\ BeforeInv
    /\ AnswerInv /\ MissesNothing
  BY Zenon DEF QueryInv
<1>1. PICK log : log = logs[epoch]
  OBVIOUS
<1>2. /\ at = "log" /\ logRoot' = log /\ n' = log.openFrom
      /\ op = "walk" => answer' = answer \o [i \in 1 .. log.openFrom |-> <<epoch, i - 1>>]
      /\ op # "walk" => answer' = answer
      /\ op = "before" => at' = "head"
      /\ op # "before" => at' = "open"
      /\ UNCHANGED <<trackVars, known, op, id, limit, epoch, last, kept, attempt, asked, clean>>
  BY <1>1, Zenon DEF ReadLog
<1>3. /\ epoch \in Epochs /\ epoch <= known /\ op # "none" /\ epoch <= latest
  BY <1>2, Numbering, CallNumbering, SMTT(20) DEF PlaceInv
<1>4. /\ log \in Log /\ log.openFrom \in Nat /\ log.openFrom <= MaxGroups
      /\ log.openFrom <= log.openFrom /\ log.openFrom <= count[epoch]
  <2>1. log \in Log /\ log.openFrom <= count[epoch]
    BY <1>1, <1>3, Zenon DEF StoreInv
  <2>2. log.openFrom \in 0 .. MaxGroups
    BY <2>1, LogFields, Zenon
  <2>3. QED
    BY <2>1, <2>2, Numbering
<1>5. PICK r : r = [i \in 1 .. log.openFrom |-> <<epoch, i - 1>>]
  OBVIOUS
<1>6. IsRun(r, epoch, 0, log.openFrom)
  <2>1. 0 + log.openFrom <= MaxGroups /\ \A i \in 1 .. log.openFrom : 0 + i - 1 = i - 1
    BY <1>4
  <2>2. r = [i \in 1 .. log.openFrom |-> <<epoch, 0 + i - 1>>]
    BY <1>5, <2>1
  <2>3. 0 \in Nat
    OBVIOUS
  <2>4. IsRun([i \in 1 .. log.openFrom |-> <<epoch, 0 + i - 1>>], epoch, 0, log.openFrom)
    BY <1>3, <1>4, <2>1, <2>3, MakesRun, Zenon
  <2>5. QED
    BY <2>2, <2>4, Zenon
<1>7. /\ answer \in Seq(Groups) /\ r \in Seq(Groups) /\ Len(r) = log.openFrom /\ Len(answer) \in Nat
      /\ answer \o r \in Seq(Groups) /\ Elems(answer \o r) = Elems(answer) \cup Elems(r)
      /\ Len(answer \o r) = Len(answer) + log.openFrom
  <2>1. answer \in Seq(Groups) /\ r \in Seq(Groups) /\ Len(r) = log.openFrom /\ Len(answer) \in Nat
    BY <1>6, CallNumbering, Zenon DEF CallTypes, IsRun
  <2>2. answer \o r \in Seq(Groups) /\ Len(answer \o r) = Len(answer) + Len(r)
    BY <2>1, ConcatFacts, Zenon
  <2>3. Elems(answer \o r) = Elems(answer) \cup Elems(r)
    BY <2>1, ConcatElems, ZenonT(30)
  <2>4. QED
    BY <2>1, <2>2, <2>3, Zenon
<1>8. answer' \in Seq(Groups)
  BY <1>2, <1>5, <1>7, Zenon
<1>9. /\ StoreTypes' /\ StoreInv' /\ CallTypes' /\ PlaceInv'
      /\ UNCHANGED <<latest, logs, deltas, head, count>> /\ Committed' = Committed
      /\ Answer' = Elems(answer') /\ Answer = Elems(answer)
      /\ \A g : Wanted(g)' <=> Wanted(g)
  <2>1. at' \in {"open", "head"} /\ "open" \in Searching /\ "head" \in Searching
    BY <1>2, Zenon DEF Searching
  <2>2. op \in {"lookup", "walk", "before"}
    BY <1>3, Zenon DEF PlaceInv
  <2>3. n' \in Int /\ last' \in Int /\ kept' \in Nat
    BY <1>2, <1>4, CallNumbering, SMTT(20)
  <2>4. UNCHANGED <<trackVars, known, op, id, limit, asked>> /\ epoch' = epoch
    BY <1>2, Zenon
  <2>5. logRoot' \in Log /\ logRoot'.openFrom <= logs[epoch'].openFrom
    BY <1>1, <1>2, <1>4, Zenon
  <2>6. QED
    BY <1>2, <1>3, <1>8, <2>1, <2>2, <2>3, <2>4, <2>5, CallFrame, Zenon
<1>10. LookupInv'
  <2>1. \A m \in Numbers : ~(log.openFrom <= m /\ m < log.openFrom)
    BY <1>4, Numbering
  <2>2. QED
    BY <1>2, <1>4, <2>1, Zenon DEF LookupInv
<1>11. Elems(r) = RunSet(epoch, 0, log.openFrom) /\ Ordered(r)
       /\ (log.openFrom > 0 => r[1] = <<epoch, 0>> /\ r[Len(r)] = <<epoch, 0 + log.openFrom - 1>>)
  <2>1. 0 \in Nat
    OBVIOUS
  <2>2. QED
    BY <1>3, <1>4, <1>6, <2>1, RunFacts, ZenonT(30)
<1>12. op = "walk" => answer' = answer \o r
  BY <1>2, <1>5, Zenon
<1>13. WalkInv'
  <2>1. CASE op = "walk"
    <3>1. \A m \in Numbers : m < log.openFrom => <<epoch, m>> \in Answer'
      <4>1. \A m \in Numbers : m < log.openFrom => m \in 0 .. 0 + log.openFrom - 1
        BY <1>4, Numbering
      <4>2. QED
        BY <1>7, <1>9, <1>11, <1>12, <2>1, <4>1, Zenon DEF RunSet
    <3>2. log.openFrom = 0 => answer' = <<>> \/ answer'[Len(answer')][1] < epoch
      <4>1. log.openFrom = 0 => answer \o r = answer
        BY <1>7
      <4>2. QED
        BY <1>2, <1>12, <2>1, <4>1, Zenon DEF WalkInv
    <3>3. log.openFrom # 0 => answer' # <<>> /\ answer'[Len(answer')] = <<epoch, log.openFrom - 1>>
      <4>1. log.openFrom # 0 => log.openFrom > 0 /\ 0 + log.openFrom - 1 = log.openFrom - 1
        BY <1>4
      <4>2. log.openFrom # 0 => answer \o r # <<>> /\ (answer \o r)[Len(answer \o r)] = r[Len(r)]
        BY <1>4, <1>7
      <4>3. QED
        BY <1>11, <1>12, <2>1, <4>1, <4>2, Zenon
    <3>4. Answer \subseteq Answer'
      BY <1>7, <1>9, <1>12, <2>1, Zenon
    <3>5. clean => \A g \in Groups :
            g[2] < asked[g[1]] /\ g[1] <= known /\ g[1] < epoch => g \in Answer'
      BY <1>2, <2>1, <3>4, Zenon DEF WalkInv
    <3>6. QED
      BY <1>2, <1>4, <2>1, <3>1, <3>2, <3>3, <3>5, Zenon DEF WalkInv
  <2>2. CASE op # "walk"
    BY <1>2, <2>2, Zenon DEF WalkInv
  <2>3. QED
    BY <2>1, <2>2, Zenon
<1>14. KeptInv'
  BY <1>2, <1>9, Zenon DEF KeptInv
<1>15. BeforeInv'
  BY <1>2, Zenon DEF BeforeInv
<1>16. AnswerInv'
  <2>1. CASE op = "walk"
    <3>1. Elems(r) \subseteq Committed
      <4>1. \A m \in 0 .. 0 + log.openFrom - 1 : m \in Numbers /\ m < count[epoch]
        BY <1>3, <1>4, Numbering DEF Numbers
      <4>2. \A m \in Numbers : m < count[epoch] => <<epoch, m>> \in Committed
        BY <1>3 DEF Committed
      <4>3. QED
        BY <1>11, <4>1, <4>2, Zenon DEF RunSet
    <3>2. Answer' \subseteq Committed'
      BY <1>7, <1>9, <1>12, <2>1, <3>1, Zenon DEF AnswerInv
    <3>3. Ordered(answer')
      <4>1. ASSUME Len(answer) > 0, Len(r) > 0 PROVE Follows(answer[Len(answer)], r[1])
        <5>1. r[1] = <<epoch, 0>>
          BY <1>7, <1>11, <4>1, Zenon
        <5>2. answer # <<>>
          BY <1>7, <4>1
        <5>3. answer[Len(answer)][1] < epoch
          BY <1>2, <2>1, <5>2, Zenon DEF WalkInv
        <5>4. answer[Len(answer)][1] \in Nat /\ epoch \in Nat
          BY <1>7, <4>1, CallNumbering DEF Groups
        <5>5. QED
          BY <5>1, <5>3, <5>4 DEF Follows
      <4>2. Ordered(answer \o r)
        BY <1>7, <1>11, <4>1, ConcatOrdered, Zenon DEF AnswerInv
      <4>3. QED
        BY <1>12, <2>1, <4>2, Zenon
    <3>4. answer' # <<>> => answer'[1][2] = 0
      <4>1. CASE answer = <<>>
        <5>1. answer \o r = r
          BY <1>7, <4>1
        <5>2. r # <<>> => r[1] = <<epoch, 0>>
          BY <1>4, <1>7, <1>11
        <5>3. QED
          BY <1>12, <2>1, <5>1, <5>2
      <4>2. CASE answer # <<>>
        <5>1. (answer \o r)[1] = answer[1]
          BY <1>7, <4>2
        <5>2. QED
          BY <1>12, <2>1, <4>2, <5>1, Zenon DEF AnswerInv
      <4>3. QED
        BY <4>1, <4>2, Zenon
    <3>5. QED
      BY <3>2, <3>3, <3>4, Zenon DEF AnswerInv
  <2>2. CASE op # "walk"
    BY <1>2, <1>9, <2>2, Zenon DEF AnswerInv
  <2>3. QED
    BY <2>1, <2>2, Zenon
<1>17. MissesNothing'
  BY <1>2, Zenon DEF MissesNothing
<1>18. QED
  BY <1>9, <1>10, <1>13, <1>14, <1>15, <1>16, <1>17, Zenon DEF QueryInv

(* A delta that is there is of a committed group; one that is absent from  *)
(* OpenFrom on, under the log root that is still stored, ends the epoch.   *)
LEMMA DeltaFacts ==
  ASSUME QueryInv, at \in Searching, logRoot.openFrom <= n
  PROVE  /\ n \in Nat /\ n + 1 \in Int
         /\ n \in deltas[epoch] => n \in Numbers /\ <<epoch, n>> \in Committed /\ <<epoch, n>> \in Groups
         /\ n \notin deltas[epoch] /\ logRoot = logs[epoch] =>
                \A m \in Numbers : m < asked[epoch] => m < n
         /\ epoch \in Epochs /\ epoch <= known /\ op # "none"
<1> /\ StoreTypes /\ StoreInv /\ CallTypes /\ PlaceInv
  BY Zenon DEF QueryInv
<1>1. epoch \in Epochs /\ epoch <= known /\ op # "none" /\ epoch <= latest
  <2>1. epoch \in Epochs /\ epoch <= known /\ op # "none" /\ known <= latest
    BY Zenon DEF CallTypes, PlaceInv, Searching
  <2>2. epoch \in Nat /\ known \in Nat /\ latest \in Nat
    BY Numbering, CallNumbering, Zenon
  <2>3. QED
    BY <2>1, <2>2
<1>2. n \in Nat /\ n + 1 \in Int
  <2>1. n \in Int /\ logRoot.openFrom \in Nat
    BY CallNumbering, Zenon
  <2>2. QED
    BY <2>1
<1>3. n \in deltas[epoch] => n \in Numbers /\ <<epoch, n>> \in Committed /\ <<epoch, n>> \in Groups
  <2>1. n \in deltas[epoch] => n \in Numbers /\ n < count[epoch]
    BY <1>1, Zenon DEF StoreTypes, StoreInv
  <2>2. QED
    BY <1>1, <2>1 DEF Committed, Groups
<1>4. ASSUME n \notin deltas[epoch], logRoot = logs[epoch], NEW m \in Numbers, m < asked[epoch]
      PROVE  m < n
  <2>1. count[epoch] \in 0 .. MaxGroups /\ asked[epoch] \in Nat /\ m \in Nat /\ asked[epoch] <= count[epoch]
    BY <1>1, Numbering, CallNumbering, Zenon DEF StoreTypes, PlaceInv
  <2>2. n < count[epoch] => n \in Numbers
    BY <1>2, <2>1, TrackBoundsAssumption DEF Numbers
  <2>3. ~(n < count[epoch])
    BY <1>1, <1>4, <2>2, Zenon DEF StoreInv
  <2>4. QED
    BY <1>2, <1>4, <2>1, <2>3
<1>5. QED
  BY <1>1, <1>2, <1>3, <1>4, Zenon

(* A one-group answer. *)
LEMMA OneGroup ==
  ASSUME NEW g \in Groups
  PROVE  <<g>> \in Seq(Groups) /\ Elems(<<g>>) = {g} /\ Ordered(<<g>>) /\ <<g>> # <<>>
         /\ Len(<<g>>) = 1 /\ <<g>>[1] = g
<1>1. /\ <<g>> \in Seq(Groups) /\ Len(<<g>>) = 1 /\ <<g>> # <<>> /\ <<g>>[1] = g /\ DOMAIN <<g>> = {1}
      /\ 1 .. 1 - 1 = {}
  OBVIOUS
<1>2. Elems(<<g>>) = {g}
  BY <1>1, Zenon DEF Elems
<1>3. Ordered(<<g>>)
  BY <1>1, Zenon DEF Ordered
<1>4. QED
  BY <1>1, <1>2, <1>3, Zenon

(* An answer and one group more. *)
LEMMA OneMore ==
  ASSUME NEW s \in Seq(Groups), NEW r \in Seq(Groups), Len(r) = 1
  PROVE  /\ s \o r \in Seq(Groups) /\ Len(s \o r) = Len(s) + 1 /\ s \o r # <<>>
         /\ (s \o r)[Len(s \o r)] = r[1]
         /\ s # <<>> => (s \o r)[1] = s[1]
         /\ s = <<>> => (s \o r)[1] = r[1]
<1>1. s \o r \in Seq(Groups) /\ Len(s \o r) = Len(s) + 1 /\ Len(s) \in Nat
  <2>1. s \o r \in Seq(Groups) /\ Len(s \o r) = Len(s) + Len(r)
    BY ConcatFacts, Zenon
  <2>2. Len(s) \in Nat
    BY SeqFacts, Zenon
  <2>3. QED
    BY <2>1, <2>2, Zenon
<1>2. s \o r # <<>>
  BY <1>1
<1>3. (s \o r)[Len(s \o r)] = r[1]
  BY <1>1
<1>4. s # <<>> => (s \o r)[1] = s[1]
  OBVIOUS
<1>5. s = <<>> => (s \o r)[1] = r[1]
  OBVIOUS
<1>6. QED
  BY <1>1, <1>2, <1>3, <1>4, <1>5, Zenon

(* No group at all. *)
LEMMA NoGroup ==
  <<>> \in Seq(Groups) /\ Elems(<<>>) = {} /\ Ordered(<<>>) /\ Len(<<>>) = 0
  BY DEF Elems, Ordered

(* A Lookup finds its group in the open region, or goes on. *)
LEMMA LookupDeltaKeeps ==
  ASSUME QueryInv, LookupDelta
  PROVE  QueryInv'
<1> /\ StoreTypes /\ StoreInv /\ CallTypes /\ PlaceInv
    /\ LookupInv /\ WalkInv /\ KeptInv /\ BeforeInv
    /\ AnswerInv /\ MissesNothing
  BY Zenon DEF QueryInv
<1>1. /\ at = "open" /\ op = "lookup" /\ n \in deltas[epoch]
      /\ UNCHANGED <<trackVars, known, op, id, limit, epoch, logRoot, last, kept, attempt, asked>>
  BY Zenon DEF LookupDelta
<1>2. at \in Searching /\ logRoot.openFrom <= n /\ answer = <<>> /\ id[1] = epoch
  BY <1>1, Zenon DEF LookupInv, Searching
<1>3. /\ n \in Nat /\ n + 1 \in Int /\ <<epoch, n>> \in Committed /\ <<epoch, n>> \in Groups
      /\ epoch \in Epochs /\ epoch <= known /\ op # "none"
  BY <1>1, <1>2, DeltaFacts, Zenon
<1>4. \/ id = <<epoch, n>> /\ answer' = <<id>> /\ at' = "done" /\ n' = n
      \/ id # <<epoch, n>> /\ n' = n + 1 /\ answer' = answer /\ at' = at /\ clean' = clean
  BY Zenon DEF LookupDelta, Done
<1>5. answer' \in Seq(Groups) /\ n' \in Int
  BY <1>2, <1>3, <1>4, OneGroup, NoGroup, CallNumbering, Zenon
<1>6. /\ StoreTypes' /\ StoreInv' /\ CallTypes' /\ PlaceInv'
      /\ UNCHANGED <<latest, logs, deltas, head, count>> /\ Committed' = Committed
      /\ Answer' = Elems(answer')
  <2>1. at' \in {"done"} \cup Searching /\ (at' = "open" \/ at' = "done")
    BY <1>1, <1>2, <1>4, Zenon
  <2>2. /\ epoch' = epoch /\ logRoot' = logRoot /\ logRoot \in Log /\ last' \in Int /\ kept' \in Nat
        /\ UNCHANGED <<trackVars, known, op, id, limit, asked>>
        /\ logRoot.openFrom <= logs[epoch].openFrom
    BY <1>1, <1>2, Zenon DEF CallTypes, PlaceInv
  <2>3. QED
    BY <1>1, <1>3, <1>5, <2>1, <2>2, CallFrame, Zenon
<1>7. LookupInv'
  <2>1. CASE id = <<epoch, n>>
    BY <1>4, <2>1, Zenon DEF LookupInv
  <2>2. CASE id # <<epoch, n>>
    <3>1. id[2] # n
      <4>1. id = <<id[1], id[2]>>
        BY DEF CallTypes, Groups, Zero
      <4>2. QED
        BY <1>2, <2>2, <4>1, Zenon
    <3>2. \A m \in Numbers : m < n + 1 => m < n \/ m = n
      BY <1>3, Numbering
    <3>3. logRoot.openFrom <= n + 1
      BY <1>2, <1>3, CallNumbering, SMTT(20)
    <3>4. QED
      BY <1>1, <1>2, <1>4, <2>2, <3>1, <3>2, <3>3, Zenon DEF LookupInv
  <2>3. QED
    BY <2>1, <2>2, Zenon
<1>8. WalkInv' /\ KeptInv' /\ BeforeInv'
  BY <1>1, <1>4, Zenon DEF WalkInv, KeptInv, BeforeInv
<1>9. AnswerInv' /\ MissesNothing'
  <2>1. CASE id = <<epoch, n>>
    <3>1. Answer' = {id} /\ Ordered(answer') /\ op' = "lookup" /\ id' = id
      BY <1>1, <1>3, <1>4, <1>6, <2>1, OneGroup, Zenon
    <3>2. QED
      BY <1>3, <1>6, <2>1, <3>1, PromisedNext, Zenon DEF AnswerInv, MissesNothing
  <2>2. CASE id # <<epoch, n>>
    BY <1>1, <1>2, <1>4, <1>6, <2>2, NoGroup, Zenon DEF AnswerInv, MissesNothing
  <2>3. QED
    BY <2>1, <2>2, Zenon
<1>10. QED
  BY <1>6, <1>7, <1>8, <1>9, Zenon DEF QueryInv

(* It ends in the sealed runs. *)
LEMMA LookupSealedKeeps ==
  ASSUME QueryInv, LookupSealed
  PROVE  QueryInv'
<1> /\ StoreTypes /\ StoreInv /\ CallTypes /\ PlaceInv
    /\ LookupInv /\ WalkInv /\ KeptInv /\ BeforeInv
    /\ AnswerInv /\ MissesNothing
  BY Zenon DEF QueryInv
<1>1. /\ at = "open" /\ op = "lookup" /\ n \notin deltas[epoch] /\ at' = "done"
      /\ clean' = (clean /\ logRoot = logs[epoch])
      /\ answer' = IF id[2] < logRoot.openFrom THEN <<id>> ELSE <<>>
      /\ UNCHANGED <<trackVars, known, op, id, limit, epoch, logRoot, n, last, kept, attempt, asked>>
  BY Zenon DEF LookupSealed, Done, LeaveEpoch
<1>2. /\ at \in Searching /\ logRoot.openFrom <= n /\ answer = <<>> /\ id[1] = epoch
      /\ \A m \in Numbers : logRoot.openFrom <= m /\ m < n => m # id[2]
  BY <1>1, Zenon DEF LookupInv, Searching
<1>3. /\ n \in Nat /\ epoch \in Epochs /\ epoch <= known /\ op # "none"
      /\ logRoot = logs[epoch] => \A m \in Numbers : m < asked[epoch] => m < n
  BY <1>1, <1>2, DeltaFacts, Zenon
<1>4. id \in Groups
  <2>1. epoch # 0 /\ Zero[1] = 0
    BY <1>3 DEF Zero, Epochs
  <2>2. QED
    BY <1>2, <2>1, Zenon DEF CallTypes
<1>5. answer' \in Seq(Groups)
  BY <1>1, <1>4, OneGroup, NoGroup, Zenon
<1>6. /\ StoreTypes' /\ StoreInv' /\ CallTypes' /\ PlaceInv'
      /\ UNCHANGED <<latest, logs, deltas, head, count>> /\ Committed' = Committed
      /\ Answer' = Elems(answer')
  <2>1. at' \notin Searching /\ at' # "log" /\ at' \notin {"head", "probe", "back", "sealed"} /\ at' # "open"
    BY <1>1, Zenon DEF Searching
  <2>2. /\ epoch' = epoch /\ logRoot' = logRoot /\ logRoot \in Log /\ last' \in Int /\ kept' \in Nat
        /\ UNCHANGED <<trackVars, known, op, id, limit, asked>> /\ n' \in Int
    BY <1>1, Zenon DEF CallTypes
  <2>3. QED
    BY <1>1, <1>3, <1>5, <2>1, <2>2, CallFrame, Zenon
<1>7. id[2] < logRoot.openFrom => id \in Committed
  <2>1. logRoot.openFrom <= logs[epoch].openFrom /\ logs[epoch] \in Log /\ logs[epoch].openFrom <= count[epoch]
    <3>1. epoch <= latest
      BY <1>3, Numbering, CallNumbering, SMTT(20) DEF PlaceInv
    <3>2. QED
      BY <1>2, <1>3, <3>1, Zenon DEF PlaceInv, StoreInv
  <2>2. logs[epoch].openFrom \in Nat /\ logRoot.openFrom \in Nat /\ count[epoch] \in Nat /\ id[2] \in Nat
    BY <1>3, <2>1, LogFields, Numbering, CallNumbering, Zenon
  <2>3. id[2] < logRoot.openFrom => id[2] < count[epoch]
    BY <2>1, <2>2
  <2>4. QED
    BY <1>2, <1>4, <2>3, Zenon DEF Committed, Groups
<1>8. AnswerInv'
  <2>1. Answer' \subseteq Committed /\ Ordered(answer')
    <3>1. CASE id[2] < logRoot.openFrom
      BY <1>1, <1>4, <1>6, <1>7, <3>1, OneGroup, ZenonT(30)
    <3>2. CASE ~(id[2] < logRoot.openFrom)
      BY <1>1, <1>6, <3>2, NoGroup, Zenon
    <3>3. QED
      BY <3>1, <3>2, Zenon
  <2>2. op' # "walk"
    BY <1>1, Zenon
  <2>3. QED
    BY <1>6, <2>1, <2>2, Zenon DEF AnswerInv
<1>9. MissesNothing'
  <2>1. ASSUME clean', NEW g \in Promised' PROVE g \in Answer'
    <3>1. /\ g = id /\ id[2] < asked[epoch] /\ logRoot = logs[epoch] /\ id[2] \in Numbers
      BY <1>1, <1>2, <1>4, <2>1, PromisedNext DEF Groups
    <3>2. id[2] < n
      BY <1>3, <3>1, Zenon
    <3>3. id[2] < logRoot.openFrom
      BY <1>2, <3>1, <3>2, CallNumbering, SMTT(20)
    <3>4. QED
      BY <1>1, <1>4, <1>6, <3>1, <3>3, OneGroup, Zenon
  <2>2. QED
    BY <2>1, Zenon DEF MissesNothing
<1>10. LookupInv' /\ WalkInv' /\ KeptInv' /\ BeforeInv'
  BY <1>1, Zenon DEF LookupInv, WalkInv, KeptInv, BeforeInv
<1>11. QED
  BY <1>6, <1>8, <1>9, <1>10, Zenon DEF QueryInv

(* A walk yields a delta. *)
LEMMA WalkDeltaKeeps ==
  ASSUME QueryInv, WalkDelta
  PROVE  QueryInv'
<1> /\ StoreTypes /\ StoreInv /\ CallTypes /\ PlaceInv
    /\ LookupInv /\ WalkInv /\ KeptInv /\ BeforeInv
    /\ AnswerInv /\ MissesNothing
  BY Zenon DEF QueryInv
<1>1. /\ at = "open" /\ op = "walk" /\ n \in deltas[epoch] /\ n' = n + 1
      /\ answer' = Append(answer, <<epoch, n>>)
      /\ UNCHANGED <<trackVars, known, op, id, limit, at, epoch, logRoot, last, kept, attempt,
                     asked, clean>>
  BY Zenon DEF WalkDelta
<1>2. at \in Searching /\ logRoot.openFrom <= n
  BY <1>1, Zenon DEF WalkInv, Searching
<1>3. /\ n \in Nat /\ n + 1 \in Int /\ <<epoch, n>> \in Committed /\ <<epoch, n>> \in Groups
      /\ epoch \in Epochs /\ epoch <= known /\ op # "none"
  BY <1>1, <1>2, DeltaFacts, Zenon
<1>4. PICK r : r = <<<<epoch, n>>>>
  OBVIOUS
<1>5. /\ r \in Seq(Groups) /\ Len(r) = 1 /\ r[1] = <<epoch, n>> /\ Elems(r) = {<<epoch, n>>} /\ Ordered(r)
      /\ answer' = answer \o r /\ answer \in Seq(Groups) /\ Len(answer) \in Nat
  <2>1. PICK g \in Groups : g = <<epoch, n>>
    BY <1>3, Zenon
  <2>2. r = <<g>> /\ answer' = Append(answer, g)
    BY <1>1, <1>4, <2>1, Zenon
  <2>3. answer \in Seq(Groups) /\ Len(answer) \in Nat
    BY CallNumbering, Zenon DEF CallTypes
  <2>4. answer' = answer \o r
    BY <2>2, <2>3, AppendFacts, ZenonT(30)
  <2>5. r \in Seq(Groups) /\ Len(r) = 1 /\ r[1] = g /\ Elems(r) = {g} /\ Ordered(r)
    BY <2>2, OneGroup, Zenon
  <2>6. QED
    BY <2>1, <2>3, <2>4, <2>5, Zenon
<1>6. /\ answer' \in Seq(Groups) /\ Len(answer') = Len(answer) + 1 /\ answer' # <<>>
      /\ Elems(answer') = Elems(answer) \cup {<<epoch, n>>}
      /\ answer'[Len(answer')] = <<epoch, n>>
      /\ answer # <<>> => answer'[1] = answer[1]
      /\ answer = <<>> => answer'[1] = <<epoch, n>>
  <2>1. Elems(answer') = Elems(answer) \cup {<<epoch, n>>}
    <3>1. Elems(answer \o r) = Elems(answer) \cup Elems(r)
      BY <1>5, ConcatElems, ZenonT(30)
    <3>2. QED
      BY <1>5, <3>1, Zenon
  <2>2. /\ answer' \in Seq(Groups) /\ Len(answer') = Len(answer) + 1 /\ answer' # <<>>
        /\ answer'[Len(answer')] = r[1]
        /\ answer # <<>> => answer'[1] = answer[1]
        /\ answer = <<>> => answer'[1] = r[1]
    <3>1. answer' = answer \o r /\ answer \in Seq(Groups) /\ r \in Seq(Groups) /\ Len(r) = 1
      BY <1>5, Zenon
    <3>2. QED
      BY <3>1, OneMore, Zenon
  <2>3. QED
    BY <1>5, <2>1, <2>2, Zenon
<1>7. /\ StoreTypes' /\ StoreInv' /\ CallTypes' /\ PlaceInv'
      /\ UNCHANGED <<latest, logs, deltas, head, count>> /\ Committed' = Committed
      /\ Answer' = Elems(answer') /\ Answer = Elems(answer)
  <2>1. /\ epoch' = epoch /\ logRoot' = logRoot /\ logRoot \in Log /\ last' \in Int /\ kept' \in Nat
        /\ UNCHANGED <<trackVars, known, op, id, limit, asked>> /\ at' = "open"
        /\ logRoot.openFrom <= logs[epoch].openFrom /\ n' \in Int
    BY <1>1, <1>2, <1>3, Zenon DEF CallTypes, PlaceInv
  <2>2. QED
    BY <1>1, <1>2, <1>3, <1>6, <2>1, CallFrame, Zenon
<1>8. WalkInv'
  <2>1. \A m \in Numbers : m < n' => m < n \/ m = n
    BY <1>1, <1>3, Numbering
  <2>2. logRoot.openFrom <= n' /\ n' # 0 /\ n' - 1 = n
    <3>1. n' = n + 1 /\ n \in Nat /\ logRoot.openFrom \in Nat
      BY <1>1, <1>3, CallNumbering, Zenon
    <3>2. QED
      BY <1>2, <3>1
  <2>3. \A m \in Numbers : m < n' => <<epoch, m>> \in Answer'
    BY <1>1, <1>6, <1>7, <2>1, Zenon DEF WalkInv
  <2>4. clean => \A g \in Groups :
            g[2] < asked[g[1]] /\ g[1] <= known /\ g[1] < epoch => g \in Answer'
    BY <1>1, <1>6, <1>7, Zenon DEF WalkInv
  <2>5. /\ op' = "walk" /\ at' = "open" /\ epoch' = epoch /\ logRoot' = logRoot /\ asked' = asked
        /\ known' = known /\ clean' = clean
    BY <1>1, Zenon
  <2>6. answer'[Len(answer')] = <<epoch, n' - 1>> /\ answer' # <<>>
    BY <1>6, <2>2, Zenon
  <2>7. QED
    BY <2>2, <2>3, <2>4, <2>5, <2>6, Zenon DEF WalkInv
<1>9. AnswerInv'
  <2>1. Answer' \subseteq Committed
    BY <1>3, <1>6, <1>7, Zenon DEF AnswerInv
  <2>2. Ordered(answer')
    <3>1. ASSUME Len(answer) > 0 PROVE Follows(answer[Len(answer)], <<epoch, n>>)
      <4>1. answer # <<>> /\ answer[Len(answer)] \in Groups
        BY <1>5, <3>1
      <4>2. CASE n = 0
        <5>1. answer[Len(answer)][1] < epoch
          BY <1>1, <4>1, <4>2, Zenon DEF WalkInv
        <5>2. QED
          BY <1>3, <4>1, <4>2, <5>1, CallNumbering DEF Follows, Groups, Epochs
      <4>3. CASE n # 0
        <5>1. answer[Len(answer)] = <<epoch, n - 1>>
          BY <1>1, <4>3, Zenon DEF WalkInv
        <5>2. QED
          BY <1>3, <5>1 DEF Follows
      <4>4. QED
        BY <4>2, <4>3, Zenon
    <3>2. QED
      BY <1>5, <3>1, ConcatOrdered, Zenon DEF AnswerInv
  <2>3. answer'[1][2] = 0
    <3>1. CASE answer = <<>>
      <4>1. n = 0
        BY <1>1, <3>1, Zenon DEF WalkInv
      <4>2. QED
        BY <1>6, <3>1, <4>1
    <3>2. CASE answer # <<>>
      BY <1>1, <1>6, <3>2, Zenon DEF AnswerInv
    <3>3. QED
      BY <3>1, <3>2, Zenon
  <2>4. QED
    BY <1>7, <2>1, <2>2, <2>3, Zenon DEF AnswerInv
<1>10. LookupInv' /\ KeptInv' /\ BeforeInv' /\ MissesNothing'
  BY <1>1, Zenon DEF LookupInv, KeptInv, BeforeInv, MissesNothing
<1>11. QED
  BY <1>7, <1>8, <1>9, <1>10, Zenon DEF QueryInv

(* A walk goes on to the next epoch, or ends. *)
LEMMA WalkOnKeeps ==
  ASSUME QueryInv, WalkOn
  PROVE  QueryInv'
<1> /\ StoreTypes /\ StoreInv /\ CallTypes /\ PlaceInv
    /\ LookupInv /\ WalkInv /\ KeptInv /\ BeforeInv
    /\ AnswerInv /\ MissesNothing
  BY Zenon DEF QueryInv
<1>1. /\ at = "open" /\ op = "walk" /\ n \notin deltas[epoch]
      /\ clean' = (clean /\ logRoot = logs[epoch])
      /\ \/ epoch < known /\ epoch' = epoch + 1 /\ at' = "log"
         \/ ~(epoch < known) /\ epoch' = epoch /\ at' = "done"
      /\ UNCHANGED <<trackVars, known, op, id, limit, logRoot, n, last, answer, kept, attempt, asked>>
  BY Zenon DEF WalkOn, LeaveEpoch, Done
<1>2. at \in Searching /\ logRoot.openFrom <= n
  BY <1>1, Zenon DEF WalkInv, Searching
<1>3. /\ n \in Nat /\ epoch \in Epochs /\ epoch <= known /\ op # "none"
      /\ logRoot = logs[epoch] => \A m \in Numbers : m < asked[epoch] => m < n
  BY <1>1, <1>2, DeltaFacts, Zenon
<1>4. /\ epoch' \in Epochs
      /\ at' = "log" => epoch' <= known
      /\ at' = "done" => epoch = known
  <2>1. /\ epoch \in Nat /\ known \in Nat /\ known \in Epochs /\ epoch \in Epochs /\ epoch <= known
        /\ MaxEpoch \in Nat
    BY <1>3, CallNumbering, Zenon DEF CallTypes
  <2>2. \A x \in Nat, y \in 1 .. MaxEpoch : x >= 1 /\ x < y => x + 1 <= y /\ x + 1 \in 1 .. MaxEpoch
    BY <2>1
  <2>3. epoch >= 1 /\ (~(epoch < known) => epoch = known)
    BY <2>1 DEF Epochs
  <2>4. epoch < known => epoch + 1 <= known /\ epoch + 1 \in Epochs
    BY <2>1, <2>2, <2>3, Zenon DEF Epochs
  <2>5. QED
    BY <1>1, <1>3, <2>3, <2>4, Zenon
<1>5. /\ StoreTypes' /\ StoreInv' /\ CallTypes' /\ PlaceInv'
      /\ UNCHANGED <<latest, logs, deltas, head, count>> /\ Committed' = Committed
      /\ Answer' = Elems(answer') /\ Answer = Elems(answer)
  <2>1. /\ logRoot' \in Log /\ last' \in Int /\ kept' \in Nat /\ n' \in Int /\ answer' \in Seq(Groups)
        /\ UNCHANGED <<trackVars, known, op, id, limit, asked>>
        /\ at' \notin Searching /\ at' \in {"log", "done"}
        /\ at' # "open" /\ at' \notin {"head", "probe", "back", "sealed"}
    BY <1>1, Zenon DEF CallTypes, Searching
  <2>2. QED
    BY <1>3, <1>4, <2>1, CallFrame, Zenon
<1>6. Answer' = Answer
  BY <1>1, <1>5, Zenon
<1>7. ASSUME clean', NEW g \in Groups, g[2] < asked[g[1]], g[1] <= known, g[1] < epoch' \/ at' = "done"
      PROVE  g \in Answer
  <2>1. g[1] < epoch \/ g[1] = epoch
    <3>1. g[1] \in Nat /\ epoch \in Nat /\ known \in Nat
      BY CallNumbering DEF Groups
    <3>2. epoch' = epoch + 1 \/ (at' = "done" /\ epoch' = epoch /\ epoch = known)
      BY <1>1, <1>4, Zenon
    <3>3. at' = "log" => epoch' = epoch + 1
      BY <1>1, Zenon
    <3>4. at' \in {"log", "done"}
      BY <1>1, Zenon
    <3>5. QED
      BY <1>7, <1>1, <3>1, <3>2, <3>3, <3>4
  <2>2. CASE g[1] < epoch
    BY <1>1, <1>7, <2>2, Zenon DEF WalkInv
  <2>3. CASE g[1] = epoch
    <3>1. g[2] \in Numbers /\ g = <<epoch, g[2]>>
      BY <2>3 DEF Groups
    <3>2. g[2] < n
      BY <1>1, <1>3, <1>7, <2>3, <3>1, Zenon
    <3>3. <<epoch, g[2]>> \in Answer
      BY <1>1, <3>1, <3>2, Zenon DEF WalkInv
    <3>4. QED
      BY <3>1, <3>3, Zenon
  <2>4. QED
    BY <2>1, <2>2, <2>3, Zenon
<1>8. WalkInv'
  <2>1. at' = "log" => answer = <<>> \/ answer[Len(answer)][1] < epoch'
    <3>1. answer # <<>> => answer[Len(answer)][1] <= epoch
      <4>1. ASSUME answer # <<>>, n = 0 PROVE answer[Len(answer)][1] <= epoch
        <5>1. answer[Len(answer)][1] < epoch
          BY <1>1, <4>1, Zenon DEF WalkInv
        <5>2. answer[Len(answer)] \in Groups
          BY <4>1 DEF CallTypes
        <5>3. QED
          <6>1. answer[Len(answer)][1] \in Epochs
            BY <5>2 DEF Groups
          <6>2. answer[Len(answer)][1] \in Nat /\ epoch \in Nat
            BY <6>1, CallNumbering, Zenon
          <6>3. QED
            BY <5>1, <6>2
      <4>2. ASSUME n # 0 PROVE answer[Len(answer)][1] <= epoch
        <5>1. answer[Len(answer)] = <<epoch, n - 1>>
          BY <1>1, <4>2, Zenon DEF WalkInv
        <5>2. QED
          BY <5>1, CallNumbering
      <4>3. QED
        BY <4>1, <4>2, Zenon
    <3>2. answer # <<>> => answer[Len(answer)] \in Groups
      BY DEF CallTypes
    <3>3. answer # <<>> => answer[Len(answer)][1] \in Nat
      BY <3>2, CallNumbering DEF Groups
    <3>4. PICK x : x = answer[Len(answer)][1]
      OBVIOUS
    <3>5. epoch \in Nat /\ (x \in Nat /\ x <= epoch => x < epoch + 1)
      BY CallNumbering, SMTT(20)
    <3>6. QED
      BY <1>1, <3>1, <3>3, <3>4, <3>5, Zenon
  <2>2. at' # "open"
    BY <1>1, Zenon
  <2>3. QED
    BY <1>1, <1>6, <1>7, <2>1, <2>2, Zenon DEF WalkInv
<1>9. AnswerInv'
  BY <1>1, <1>5, <1>6, Zenon DEF AnswerInv
<1>10. MissesNothing'
  BY <1>1, <1>6, <1>7, PromisedNext, Zenon DEF MissesNothing
<1>11. LookupInv' /\ KeptInv' /\ BeforeInv'
  BY <1>1, Zenon DEF LookupInv, KeptInv, BeforeInv
<1>12. QED
  BY <1>5, <1>8, <1>9, <1>10, <1>11, Zenon DEF QueryInv

(* Before starts to look for the last delta where the head points. *)
LEMMA BeforeHeadKeeps ==
  ASSUME QueryInv, BeforeHead
  PROVE  QueryInv'
<1> /\ StoreTypes /\ StoreInv /\ CallTypes /\ PlaceInv
    /\ LookupInv /\ WalkInv /\ KeptInv /\ BeforeInv
    /\ AnswerInv /\ MissesNothing
  BY Zenon DEF QueryInv
<1>1. /\ at = "head" /\ at' = "probe"
      /\ last' = IF head[epoch] >= logRoot.openFrom THEN head[epoch] ELSE -1
      /\ n' = IF last' = -1 THEN logRoot.openFrom ELSE last' + 1
      /\ UNCHANGED <<trackVars, known, op, id, limit, epoch, logRoot, answer, kept, attempt, asked, clean>>
  BY Zenon DEF BeforeHead
<1>2. op = "before" /\ at \in Searching /\ epoch <= known /\ epoch \in Epochs
  BY <1>1, Zenon DEF PlaceInv, Searching, CallTypes
<1>3. /\ last' \in Int /\ n' \in Int /\ logRoot.openFrom <= n'
      /\ \/ last' = -1 /\ n' = logRoot.openFrom
         \/ last' = n' - 1 /\ logRoot.openFrom <= last'
  <2>1. PICK h \in Int : h = head[epoch]
    BY <1>2, Numbering, Zenon
  <2>2. PICK o \in Nat : o = logRoot.openFrom
    BY CallNumbering, Zenon
  <2>3. CASE h >= o
    <3>1. last' = h /\ h # -1
      BY <1>1, <2>1, <2>2, <2>3
    <3>2. n' = h + 1
      BY <1>1, <3>1, Zenon
    <3>3. QED
      BY <2>2, <2>3, <3>1, <3>2
  <2>4. CASE ~(h >= o)
    <3>1. last' = -1 /\ n' = o
      BY <1>1, <2>1, <2>2, <2>4, Zenon
    <3>2. QED
      BY <2>2, <3>1
  <2>5. QED
    BY <2>3, <2>4, Zenon
<1>4. /\ StoreTypes' /\ StoreInv' /\ CallTypes' /\ PlaceInv'
      /\ UNCHANGED <<latest, logs, deltas, head, count>> /\ Committed' = Committed
      /\ Answer' = Elems(answer') /\ Answer = Elems(answer)
      /\ \A g : Wanted(g)' <=> Wanted(g)
  <2>1. /\ epoch' = epoch /\ logRoot' = logRoot /\ logRoot \in Log /\ kept' \in Nat /\ answer' \in Seq(Groups)
        /\ UNCHANGED <<trackVars, known, op, id, limit, asked>> /\ op # "none"
        /\ logRoot.openFrom <= logs[epoch].openFrom /\ at' \in Searching /\ at' # "open"
    BY <1>1, <1>2, Zenon DEF CallTypes, PlaceInv, Searching
  <2>2. QED
    BY <1>2, <1>3, <2>1, CallFrame, Zenon
<1>5. KeptInv'
  BY <1>1, <1>2, <1>4, Zenon DEF KeptInv
<1>6. BeforeInv'
  BY <1>1, <1>3, Zenon DEF BeforeInv
<1>7. AnswerInv'
  BY <1>1, <1>4, Zenon DEF AnswerInv
<1>8. LookupInv' /\ WalkInv' /\ MissesNothing'
  BY <1>1, <1>2, Zenon DEF LookupInv, WalkInv, MissesNothing
<1>9. QED
  BY <1>4, <1>5, <1>6, <1>7, <1>8, Zenon DEF QueryInv

(* It probes on, and turns back at the first absent delta. *)
LEMMA BeforeProbeKeeps ==
  ASSUME QueryInv, BeforeProbe
  PROVE  QueryInv'
<1> /\ StoreTypes /\ StoreInv /\ CallTypes /\ PlaceInv
    /\ LookupInv /\ WalkInv /\ KeptInv /\ BeforeInv
    /\ AnswerInv /\ MissesNothing
  BY Zenon DEF QueryInv
<1>1. /\ at = "probe"
      /\ \/ n \in deltas[epoch] /\ last' = n /\ n' = n + 1 /\ at' = "probe"
         \/ n \notin deltas[epoch] /\ last' = last /\ n' = last
            /\ at' = (IF last = -1 THEN "sealed" ELSE "back")
      /\ UNCHANGED <<trackVars, known, op, id, limit, epoch, logRoot, answer, kept, attempt, asked, clean>>
  BY Zenon DEF BeforeProbe
<1>2. /\ op = "before" /\ at \in Searching /\ logRoot.openFrom <= n /\ kept = Len(answer)
      /\ \/ last = -1 /\ n = logRoot.openFrom
         \/ last = n - 1 /\ logRoot.openFrom <= last
  BY <1>1, Zenon DEF PlaceInv, Searching, BeforeInv, KeptInv
<1>3. /\ n \in Nat /\ epoch \in Epochs /\ epoch <= known
      /\ n \notin deltas[epoch] /\ logRoot = logs[epoch] => \A m \in Numbers : m < asked[epoch] => m < n
  BY <1>2, DeltaFacts, Zenon
<1>4. at' \in {"probe", "sealed", "back"} /\ last' \in Int /\ n' \in Int
  <2>1. n \in Int /\ last \in Int /\ n + 1 \in Int
    <3>1. n \in Int /\ last \in Int
      BY CallNumbering, Zenon
    <3>2. QED
      BY <3>1
  <2>2. QED
    BY <1>1, <2>1, Zenon
<1>5. /\ StoreTypes' /\ StoreInv' /\ CallTypes' /\ PlaceInv'
      /\ UNCHANGED <<latest, logs, deltas, head, count>> /\ Committed' = Committed
      /\ Answer' = Elems(answer') /\ Answer = Elems(answer)
      /\ \A g : Wanted(g)' <=> Wanted(g)
  <2>1. /\ epoch' = epoch /\ logRoot' = logRoot /\ logRoot \in Log /\ kept' \in Nat /\ answer' \in Seq(Groups)
        /\ UNCHANGED <<trackVars, known, op, id, limit, asked>> /\ op # "none"
        /\ logRoot.openFrom <= logs[epoch].openFrom /\ at' \in Searching /\ at' # "open"
    BY <1>1, <1>2, <1>4, Zenon DEF CallTypes, PlaceInv, Searching
  <2>2. QED
    BY <1>2, <1>3, <1>4, <2>1, CallFrame, Zenon
<1>6. KeptInv'
  BY <1>1, <1>2, <1>4, <1>5, Zenon DEF KeptInv
<1>7. BeforeInv'
  <2>1. CASE n \in deltas[epoch]
    <3>1. last' = n' - 1 /\ logRoot.openFrom <= last' /\ logRoot.openFrom <= n' /\ at' = "probe"
      <4>1. last' = n /\ n' = n + 1 /\ at' = "probe"
        BY <1>1, <2>1, Zenon
      <4>2. logRoot.openFrom \in Nat
        BY CallNumbering, Zenon
      <4>3. QED
        BY <1>2, <1>3, <4>1, <4>2
    <3>2. QED
      BY <1>1, <3>1, Zenon DEF BeforeInv
  <2>2. CASE n \notin deltas[epoch]
    <3>1. Reach' = n
      <4>1. CASE last = -1
        <5>1. at' = "sealed" /\ n = logRoot.openFrom
          BY <1>1, <1>2, <1>3, <2>2, <4>1, CallNumbering, SMTT(20)
        <5>2. QED
          BY <1>1, <5>1, Zenon DEF Reach
      <4>2. CASE last # -1
        <5>1. at' = "back" /\ n' + 1 = n
          BY <1>1, <1>2, <1>3, <2>2, <4>2
        <5>2. QED
          BY <5>1 DEF Reach
      <4>3. QED
        BY <4>1, <4>2, Zenon
    <3>2. at' = "back" => logRoot.openFrom <= n'
      BY <1>1, <1>2, <2>2, Zenon
    <3>3. logRoot = logs[epoch] => \A m \in Numbers : ~(Wanted(<<epoch, m>>) /\ n <= m)
      <4>1. \A m \in Numbers : Wanted(<<epoch, m>>) => m < asked[epoch]
        BY DEF Wanted
      <4>2. \A m \in Numbers : ~(m < n /\ n <= m)
        BY <1>3, Numbering
      <4>3. QED
        BY <1>3, <2>2, <4>1, <4>2, Zenon
    <3>4. ~(Len(answer) > kept)
      BY <1>2, CallNumbering
    <3>5. at' # "probe"
      BY <1>1, <2>2, Zenon
    <3>6. QED
      BY <1>1, <1>5, <3>1, <3>2, <3>3, <3>4, <3>5, Zenon DEF BeforeInv
  <2>3. QED
    BY <2>1, <2>2, Zenon
<1>8. AnswerInv'
  BY <1>1, <1>5, Zenon DEF AnswerInv
<1>9. LookupInv' /\ WalkInv' /\ MissesNothing'
  BY <1>1, <1>2, <1>4, Zenon DEF LookupInv, WalkInv, MissesNothing
<1>10. QED
  BY <1>5, <1>6, <1>7, <1>8, <1>9, Zenon DEF QueryInv

(* What is true of the answer s that take has made, from number b on. *)
Extended(s, b, k, first) ==
    /\ s \in Seq(Groups) /\ Len(s) = k + Len(answer) /\ Len(s) <= limit
    /\ Len(s) < limit => b = first
    /\ Elems(s) \subseteq Committed /\ Ordered(s)
    /\ KeptOK(s, kept, epoch) /\ \A g \in Elems(s) : g[1] >= epoch
    /\ clean => \A g \in Groups : Wanted(g) /\ g[1] > epoch => KeptHas(s, kept, g)
    /\ Len(s) > kept => s[1] = <<epoch, b>> /\ (epoch = id[1] => b < id[2])
    /\ logRoot = logs[epoch] => \A m \in Numbers :
            Wanted(<<epoch, m>>) /\ b <= m => <<epoch, m>> \in Elems(s)

(* Groups of the epoch are put before the answer, those just below Reach.  *)
LEMMA TakeKeeps ==
  ASSUME QueryInv, at \in {"back", "sealed"},
         NEW first \in Nat, NEW upto \in Int, Reach = upto + 1,
         epoch \in Epochs, \A m \in Nat : m <= upto => m \in Numbers /\ m < count[epoch],
         NEW r, NEW b, NEW k, Taken(r, b, k, first, upto), NEW s, Joined(s, r, answer)
  PROVE  Extended(s, b, k, first)
<1> /\ StoreTypes /\ StoreInv /\ CallTypes /\ PlaceInv /\ KeptInv /\ BeforeInv /\ AnswerInv
  BY Zenon DEF QueryInv
<1>1. /\ op = "before" /\ at # "done" /\ Len(answer) < limit /\ KeptOK(answer, kept, epoch)
      /\ \A g \in Answer : g[1] >= epoch
      /\ clean => \A g \in Groups : Wanted(g) /\ g[1] > epoch => KeptHas(answer, kept, g)
  <2>1. op = "before" /\ at # "done"
    BY Zenon DEF PlaceInv
  <2>2. QED
    BY <2>1, Zenon DEF KeptInv
<1>2. /\ Len(answer) > kept => answer[1] = <<epoch, Reach>> /\ (epoch = id[1] => Reach < id[2])
      /\ logRoot = logs[epoch] => \A m \in Numbers :
            Wanted(<<epoch, m>>) /\ Reach <= m => <<epoch, m>> \in Answer
  BY Zenon DEF BeforeInv
<1>3. /\ b \in Nat /\ k \in Nat /\ IsRun(r, epoch, b, k)
      /\ first <= b /\ b + k - 1 <= upto
      /\ k <= limit - Len(answer)
      /\ k < limit - Len(answer) => b = first
      /\ epoch = id[1] /\ k > 0 => b + k - 1 < id[2]
      /\ \A m \in Nat : b <= m /\ m <= upto /\ (epoch = id[1] => m < id[2]) => m <= b + k - 1
      /\ epoch # id[1] \/ upto < id[2] => b + k - 1 = upto
  BY Zenon DEF Taken
<1>4. /\ Len(answer) \in Nat /\ limit \in Nat /\ kept \in Nat /\ answer \in Seq(Groups)
      /\ id[1] \in Nat /\ id[2] \in Nat /\ epoch \in Nat
  BY CallNumbering, Zenon DEF CallTypes
<1>5. /\ r \in Seq(Groups) /\ Len(r) = k /\ Ordered(r) /\ Elems(r) = RunSet(epoch, b, k)
      /\ k > 0 => r[1] = <<epoch, b>> /\ r[Len(r)] = <<epoch, b + k - 1>>
  <2>1. r \in Seq(Groups) /\ Len(r) = k
    BY <1>3, Zenon DEF IsRun
  <2>2. b \in Nat /\ k \in Nat /\ IsRun(r, epoch, b, k)
    BY <1>3, Zenon
  <2>3. QED
    BY <2>1, <2>2, RunFacts, ZenonT(30)
<1>6. /\ s \in Seq(Groups) /\ Len(s) = k + Len(answer)
      /\ Elems(s) = RunSet(epoch, b, k) \cup Answer /\ Answer = Elems(answer)
      /\ \A i \in 1 .. k : s[i] = r[i]
      /\ k = 0 /\ Len(answer) > 0 => s[1] = answer[1]
  <2>1. /\ s \in Seq(Groups) /\ Len(s) = Len(r) + Len(answer)
        /\ \A i \in 1 .. Len(r) : s[i] = r[i]
        /\ \A i \in 1 .. Len(answer) : s[Len(r) + i] = answer[i]
        /\ Elems(s) = Elems(r) \cup Elems(answer)
    <3>1. r \in Seq(Groups) /\ answer \in Seq(Groups)
      BY <1>4, <1>5, Zenon
    <3>2. QED
      BY <3>1, ConcatBoth, Zenon
  <2>2. Len(answer) > 0 => 1 \in 1 .. Len(answer) /\ 0 + 1 = 1
    BY <1>4
  <2>3. ASSUME k = 0, Len(answer) > 0 PROVE s[1] = answer[1]
    <3>1. s[0 + 1] = answer[1]
      BY <1>5, <2>1, <2>2, <2>3, Zenon
    <3>2. QED
      BY <2>2, <2>3, <3>1, Zenon
  <2>4. Answer = Elems(answer)
    BY Zenon DEF Answer, Elems
  <2>5. QED
    BY <1>5, <2>1, <2>3, <2>4, Zenon
<1>7. Len(s) <= limit /\ (Len(s) < limit => b = first)
  <2>1. k + Len(answer) <= limit /\ (k + Len(answer) < limit => k < limit - Len(answer))
    BY <1>3, <1>4
  <2>2. QED
    BY <1>3, <1>6, <2>1, Zenon
<1>8. \A m \in b .. b + k - 1 : m \in Numbers /\ m < count[epoch]
  <2>1. \A m \in b .. b + k - 1 : m \in Nat /\ m <= upto
    BY <1>3
  <2>2. QED
    BY <2>1, Zenon
<1>9. Elems(s) \subseteq Committed
  <2>1. \A m \in Numbers : m < count[epoch] => <<epoch, m>> \in Committed
    BY DEF Committed
  <2>2. QED
    BY <1>6, <1>8, <2>1, Zenon DEF RunSet, AnswerInv
<1>10. \A g \in Elems(s) : g[1] >= epoch
  <2>1. epoch >= epoch /\ \A m : <<epoch, m>>[1] = epoch
    BY <1>4
  <2>2. \A g \in RunSet(epoch, b, k) : g[1] >= epoch
    BY <2>1, Zenon DEF RunSet
  <2>3. QED
    BY <1>1, <1>6, <2>2, Zenon
<1>11. /\ KeptOK(s, kept, epoch)
       /\ clean => \A g \in Groups : Wanted(g) /\ g[1] > epoch => KeptHas(s, kept, g)
  BY <1>1, <1>4, <1>5, PrependKept, Zenon DEF Joined
<1>12. Ordered(s)
  <2>1. ASSUME Len(r) > 0, Len(answer) > 0 PROVE Follows(r[Len(r)], answer[1])
    <3>1. r[Len(r)] = <<epoch, b + k - 1>>
      BY <1>5, <2>1, Zenon
    <3>2. CASE Len(answer) > kept
      <4>1. answer[1] = <<epoch, Reach>> /\ (epoch = id[1] => Reach < id[2])
        BY <1>2, <3>2, Zenon
      <4>2. Reach = b + k - 1 + 1
        BY <1>3, <1>4, <4>1, SMTT(20)
      <4>3. QED
        BY <3>1, <4>1, <4>2 DEF Follows
    <3>3. CASE ~(Len(answer) > kept)
      <4>1. Len(answer) = kept /\ Len(answer) - kept + 1 = 1 /\ kept > 0 /\ 1 \in 1 .. Len(answer) /\ 1 > Len(answer) - kept
        BY <1>1, <1>4, <2>1, <3>3, SMTT(20) DEF KeptOK
      <4>2. answer[1][1] > epoch /\ answer[1][2] = 0
        BY <1>1, <4>1, CallNumbering, Zenon DEF KeptOK
      <4>3. QED
        BY <3>1, <4>2, SMTT(20) DEF Follows
    <3>4. QED
      BY <3>2, <3>3, Zenon
  <2>2. Ordered(r \o answer)
    BY <1>4, <1>5, <2>1, ConcatOrdered, Zenon DEF AnswerInv
  <2>3. QED
    BY <2>2, Zenon DEF Joined
<1>13. ASSUME Len(s) > kept PROVE s[1] = <<epoch, b>> /\ (epoch = id[1] => b < id[2])
  <2>1. CASE k > 0
    <3>1. 1 \in 1 .. k /\ b <= b + k - 1
      BY <1>3, <2>1, SMTT(20)
    <3>2. epoch = id[1] => b < id[2]
      BY <1>3, <1>4, <2>1, <3>1, SMTT(20)
    <3>3. QED
      BY <1>5, <1>6, <2>1, <3>1, <3>2, Zenon
  <2>2. CASE k = 0
    <3>1. Len(answer) > kept /\ Len(answer) > 0
      BY <1>4, <1>6, <1>13, <2>2
    <3>2. answer[1] = <<epoch, Reach>> /\ (epoch = id[1] => Reach < id[2])
      BY <1>2, <3>1, Zenon
    <3>3. Reach = b
      BY <1>3, <1>4, <2>2, <3>2, SMTT(20)
    <3>4. QED
      BY <1>6, <2>2, <3>1, <3>2, <3>3, Zenon
  <2>3. k = 0 \/ k > 0
    BY <1>3
  <2>4. QED
    BY <2>1, <2>2, <2>3, Zenon
<1>14. ASSUME logRoot = logs[epoch], NEW m \in Numbers, Wanted(<<epoch, m>>), b <= m
       PROVE  <<epoch, m>> \in Elems(s)
  <2>1. CASE Reach <= m
    BY <1>2, <1>6, <1>14, <2>1, Zenon
  <2>2. CASE ~(Reach <= m)
    <3>1. m \in Nat /\ m <= upto
      BY <2>2, Numbering
    <3>2. epoch = id[1] => m < id[2]
      <4>1. id = Zero \/ Earlier(<<epoch, m>>, id)
        BY <1>14, Zenon DEF Wanted
      <4>2. id = Zero => id[1] = 0
        BY DEF Zero
      <4>3. epoch # 0
        BY CallNumbering, SMTT(20)
      <4>4. QED
        BY <1>4, <4>1, <4>2, <4>3 DEF Earlier
    <3>3. m <= b + k - 1
      BY <1>3, <1>14, <3>1, <3>2, Zenon
    <3>4. m \in b .. b + k - 1
      BY <1>3, <1>14, <3>1, <3>3
    <3>5. QED
      BY <1>6, <3>4, Zenon DEF RunSet
  <2>3. QED
    BY <2>1, <2>2, Zenon
<1>15. QED
  BY <1>6, <1>7, <1>9, <1>10, <1>11, <1>12, <1>13, <1>14, Zenon DEF Extended

(* A delta of the epoch is taken, from the newest back. *)
LEMMA BeforeDeltaKeeps ==
  ASSUME QueryInv, BeforeDelta
  PROVE  QueryInv'
<1> /\ StoreTypes /\ StoreInv /\ CallTypes /\ PlaceInv
    /\ LookupInv /\ WalkInv /\ KeptInv /\ BeforeInv
    /\ AnswerInv /\ MissesNothing
  BY Zenon DEF QueryInv
<1>1. /\ at = "back" /\ n \in deltas[epoch] /\ answer' = Take(n, n)
      /\ \/ /\ Len(answer') = limit /\ at' = "done" /\ clean' = (clean /\ logRoot = logs[epoch])
            /\ n' = n
         \/ /\ Len(answer') # limit /\ n' = n - 1 /\ clean' = clean
            /\ at' = IF n = logRoot.openFrom THEN "sealed" ELSE "back"
      /\ UNCHANGED <<trackVars, known, op, id, limit, epoch, logRoot, last, kept, attempt, asked>>
  BY Zenon DEF BeforeDelta, Done, LeaveEpoch
<1>2. /\ op = "before" /\ at \in Searching /\ logRoot.openFrom <= n /\ Len(answer) < limit
  BY <1>1, Zenon DEF PlaceInv, Searching, BeforeInv, KeptInv
<1>3. n \in Nat /\ n \in Numbers /\ epoch \in Epochs /\ epoch <= known /\ n < count[epoch]
  BY <1>1, <1>2, DeltaFacts, Zenon DEF StoreInv
<1>4. /\ n \in Int /\ n <= n + 1 /\ n < MaxGroups /\ n - 1 \in Int
      /\ \A m \in Nat : m <= n => m \in Numbers /\ m < count[epoch]
  BY <1>3, Numbering DEF Numbers
<1>5. PICK r, b, k : Taken(r, b, k, n, n) /\ answer' = r \o answer
  BY <1>1, <1>2, <1>3, <1>4, TakeFacts, Zenon
<1>6. Joined(answer', r, answer) /\ Reach = n + 1 /\ at \in {"back", "sealed"}
  BY <1>1, <1>5, Zenon DEF Joined, Reach
<1>7. /\ answer' \in Seq(Groups) /\ Len(answer') = k + Len(answer) /\ Len(answer') <= limit
      /\ Len(answer') < limit => b = n
      /\ Elems(answer') \subseteq Committed /\ Ordered(answer')
      /\ KeptOK(answer', kept, epoch) /\ \A g \in Elems(answer') : g[1] >= epoch
      /\ clean => \A g \in Groups : Wanted(g) /\ g[1] > epoch => KeptHas(answer', kept, g)
      /\ Len(answer') > kept => answer'[1] = <<epoch, b>> /\ (epoch = id[1] => b < id[2])
      /\ logRoot = logs[epoch] => \A m \in Numbers :
            Wanted(<<epoch, m>>) /\ b <= m => <<epoch, m>> \in Elems(answer')
  <2>1. Extended(answer', b, k, n)
    BY <1>3, <1>4, <1>5, <1>6, TakeKeeps, Zenon
  <2>2. QED
    BY <2>1, Zenon DEF Extended
<1>8. /\ StoreTypes' /\ StoreInv' /\ CallTypes' /\ PlaceInv'
      /\ UNCHANGED <<latest, logs, deltas, head, count>> /\ Committed' = Committed
      /\ Answer' = Elems(answer')
      /\ \A g : Wanted(g)' <=> Wanted(g)
  <2>1. /\ epoch' = epoch /\ logRoot' = logRoot /\ logRoot \in Log /\ kept' \in Nat /\ last' \in Int
        /\ UNCHANGED <<trackVars, known, op, id, limit, asked>> /\ op # "none"
        /\ logRoot.openFrom <= logs[epoch].openFrom
    BY <1>1, <1>2, Zenon DEF CallTypes, PlaceInv, Searching
  <2>2. at' \in {"done", "sealed", "back"} /\ n' \in Int
    BY <1>1, <1>4, Zenon
  <2>3. at' \in {"done"} \cup Searching /\ at' # "open"
    BY <2>2, Zenon DEF Searching
  <2>4. QED
    BY <1>2, <1>3, <1>7, <2>1, <2>2, <2>3, CallFrame, Zenon
<1>9. AnswerInv'
  BY <1>1, <1>2, <1>7, <1>8, Zenon DEF AnswerInv
<1>10. op' = "before" /\ epoch' = epoch /\ kept' = kept /\ limit' = limit /\ logRoot' = logRoot
       /\ id' = id /\ logs' = logs
  BY <1>1, <1>2, <1>8, Zenon
<1>11. CASE Len(answer') = limit
  <2>1. at' = "done" /\ clean' = (clean /\ logRoot = logs[epoch])
    BY <1>1, <1>11, Zenon
  <2>2. answer'[1] = <<epoch, b>>
    <3>1. Len(answer') > kept
      <4>1. kept <= Len(answer) /\ Len(answer) \in Nat /\ kept \in Nat /\ limit \in Nat
        BY <1>1, <1>2, CallNumbering, Zenon DEF KeptInv, KeptOK
      <4>2. QED
        BY <1>2, <1>11, <4>1
    <3>2. QED
      BY <1>7, <3>1, Zenon
  <2>3. ASSUME clean', NEW g \in Promised' PROVE g \in Answer'
    <3>1. g \in Groups /\ Wanted(g) /\ Earlier(<<epoch, b>>, g)
      BY <1>8, <1>10, <1>11, <2>2, PromisedNext, Zenon
    <3>2. CASE g[1] > epoch
      <4>1. KeptHas(answer', kept, g)
        BY <1>7, <2>1, <2>3, <3>1, <3>2, Zenon
      <4>2. QED
        BY <1>8, <4>1, Zenon DEF KeptHas, Elems
    <3>3. CASE g[1] = epoch /\ b < g[2]
      <4>1. g = <<epoch, g[2]>> /\ g[2] \in Numbers
        BY <3>1, <3>3 DEF Groups
      <4>2. b <= g[2]
        <5>1. b \in Nat /\ g[2] \in Nat
          BY <1>5, <4>1, Numbering, Zenon DEF Taken
        <5>2. QED
          BY <3>3, <5>1
      <4>3. <<epoch, g[2]>> \in Elems(answer')
        BY <1>7, <2>1, <2>3, <3>1, <4>1, <4>2, Zenon
      <4>4. QED
        BY <1>8, <4>1, <4>3, Zenon
    <3>4. g[1] > epoch \/ (g[1] = epoch /\ b < g[2])
      <4>1. g[1] \in Nat /\ epoch \in Nat
        BY <3>1, CallNumbering DEF Groups
      <4>2. QED
        BY <3>1, <4>1 DEF Earlier
    <3>5. QED
      BY <3>2, <3>3, <3>4, Zenon
  <2>4. MissesNothing'
    BY <2>3, Zenon DEF MissesNothing
  <2>5. LookupInv' /\ WalkInv' /\ KeptInv' /\ BeforeInv'
    BY <1>10, <2>1, Zenon DEF LookupInv, WalkInv, KeptInv, BeforeInv
  <2>6. QED
    BY <1>8, <1>9, <2>4, <2>5, Zenon DEF QueryInv
<1>12. CASE Len(answer') # limit
  <2>1. n' = n - 1 /\ clean' = clean /\ at' = IF n = logRoot.openFrom THEN "sealed" ELSE "back"
    BY <1>1, <1>12, ZenonT(30)
  <2>2. Len(answer') < limit
    BY <1>7, <1>12, CallNumbering, <1>8
  <2>3. b = n /\ at' \in {"sealed", "back"}
    BY <1>7, <2>1, <2>2, Zenon
  <2>4. Reach' = n /\ (at' = "back" => logRoot.openFrom <= n')
    <3>1. CASE n = logRoot.openFrom
      BY <1>10, <2>1, <3>1, Zenon DEF Reach
    <3>2. CASE n # logRoot.openFrom
      <4>1. at' = "back" /\ n' + 1 = n /\ logRoot.openFrom <= n'
        <5>1. n \in Int /\ logRoot.openFrom \in Nat /\ logRoot.openFrom <= n
          BY <1>2, <1>3, CallNumbering, Zenon
        <5>2. n - 1 + 1 = n /\ logRoot.openFrom <= n - 1
          BY <3>2, <5>1
        <5>3. QED
          BY <2>1, <3>2, <5>2, Zenon
      <4>2. QED
        BY <4>1, Zenon DEF Reach
    <3>3. QED
      BY <3>1, <3>2, Zenon
  <2>5. BeforeInv'
    BY <1>7, <1>8, <1>10, <2>3, <2>4, Zenon DEF BeforeInv
  <2>6. KeptInv'
    BY <1>7, <1>8, <1>10, <2>1, <2>2, <2>3, Zenon DEF KeptInv
  <2>7. LookupInv' /\ WalkInv' /\ MissesNothing'
    BY <1>10, <2>3, Zenon DEF LookupInv, WalkInv, MissesNothing
  <2>8. QED
    BY <1>8, <1>9, <2>5, <2>6, <2>7, Zenon DEF QueryInv
<1>13. QED
  BY <1>11, <1>12, Zenon

(* The epoch was sealed under it and is read again, or the call fails. *)
LEMMA ResealedKeeps ==
  ASSUME QueryInv, Resealed
  PROVE  QueryInv'
<1> /\ StoreTypes /\ StoreInv /\ CallTypes /\ PlaceInv
    /\ LookupInv /\ WalkInv /\ KeptInv /\ BeforeInv
    /\ AnswerInv /\ MissesNothing
  BY Zenon DEF QueryInv
<1>1. CASE attempt = BeforeAttempts
  BY <1>1, ReturnKeeps, Zenon DEF Resealed
<1>2. CASE attempt # BeforeAttempts
  <2>1. /\ at = "back" /\ at' = "log"
        /\ answer' = SubSeq(answer, Len(answer) - kept + 1, Len(answer))
        /\ UNCHANGED <<trackVars, known, op, id, limit, epoch, logRoot, n, last, kept, asked, clean>>
    BY <1>2, Zenon DEF Resealed
  <2>2. /\ op = "before" /\ at \in Searching /\ Len(answer) < limit /\ KeptOK(answer, kept, epoch)
        /\ \A g \in Answer : g[1] >= epoch
        /\ clean => \A g \in Groups : Wanted(g) /\ g[1] > epoch => KeptHas(answer, kept, g)
    BY <2>1, Zenon DEF PlaceInv, Searching, KeptInv
  <2>3. answer \in Seq(Groups) /\ kept \in Nat /\ Ordered(answer) /\ kept <= Len(answer)
    BY <2>2, Zenon DEF CallTypes, AnswerInv, KeptOK
  <2>4. /\ answer' \in Seq(Groups) /\ Len(answer') = kept /\ Elems(answer') \subseteq Elems(answer)
        /\ KeptOK(answer', kept, epoch) /\ Ordered(answer')
        /\ \A g : KeptHas(answer, kept, g) => KeptHas(answer', kept, g)
    BY <2>1, <2>2, <2>3, CutToKept, Zenon
  <2>5. /\ StoreTypes' /\ StoreInv' /\ CallTypes' /\ PlaceInv'
        /\ UNCHANGED <<latest, logs, deltas, head, count>> /\ Committed' = Committed
        /\ Answer' = Elems(answer') /\ Answer = Elems(answer)
        /\ \A g : Wanted(g)' <=> Wanted(g)
    <3>1. /\ epoch' = epoch /\ epoch \in Epochs /\ epoch <= known
          /\ logRoot' \in Log /\ kept' \in Nat /\ last' \in Int /\ n' \in Int
          /\ UNCHANGED <<trackVars, known, op, id, limit, asked>> /\ op # "none"
      BY <2>1, <2>2, Zenon DEF CallTypes, PlaceInv
    <3>2. at' \notin Searching /\ at' # "open" /\ at' \notin {"head", "probe", "back", "sealed"}
      BY <2>1, Zenon DEF Searching
    <3>3. QED
      BY <2>1, <2>4, <3>1, <3>2, CallFrame, Zenon
  <2>6. Len(answer') < limit
    BY <2>2, <2>3, <2>4, CallNumbering
  <2>7. KeptInv'
    BY <2>1, <2>2, <2>4, <2>5, <2>6, Zenon DEF KeptInv
  <2>8. AnswerInv'
    BY <2>1, <2>2, <2>4, <2>5, Zenon DEF AnswerInv
  <2>9. LookupInv' /\ WalkInv' /\ BeforeInv' /\ MissesNothing'
    BY <2>1, <2>2, Zenon DEF LookupInv, WalkInv, BeforeInv, MissesNothing
  <2>10. QED
    BY <2>5, <2>7, <2>8, <2>9, Zenon DEF QueryInv
<1>3. QED
  BY <1>1, <1>2, Zenon

(* The sealed runs of the epoch are taken, and the call ends or goes on    *)
(* with the epoch before.                                                  *)
LEMMA BeforeSealedKeeps ==
  ASSUME QueryInv, BeforeSealed
  PROVE  QueryInv'
<1> /\ StoreTypes /\ StoreInv /\ CallTypes /\ PlaceInv
    /\ LookupInv /\ WalkInv /\ KeptInv /\ BeforeInv
    /\ AnswerInv /\ MissesNothing
  BY Zenon DEF QueryInv
<1>1. PICK upto : upto = logRoot.openFrom - 1
  OBVIOUS
<1>2. /\ at = "sealed" /\ answer' = Take(0, upto)
      /\ clean' = (clean /\ logRoot = logs[epoch])
      /\ \/ /\ Len(answer') = limit \/ epoch = 1
            /\ at' = "done" /\ epoch' = epoch /\ kept' = kept
         \/ /\ Len(answer') # limit /\ epoch # 1
            /\ at' = "log" /\ epoch' = epoch - 1 /\ kept' = Len(answer')
      /\ UNCHANGED <<trackVars, known, op, id, limit, logRoot, n, last, asked>>
  BY <1>1, Zenon DEF BeforeSealed, Done, LeaveEpoch
<1>3. /\ op = "before" /\ at \in Searching /\ Len(answer) < limit /\ epoch \in Epochs /\ epoch <= known
      /\ logRoot.openFrom <= logs[epoch].openFrom
  BY <1>2, Zenon DEF PlaceInv, Searching, KeptInv, CallTypes
<1>4. /\ upto \in Int /\ 0 \in Nat /\ 0 <= upto + 1 /\ upto < MaxGroups
      /\ \A m \in Nat : m <= upto => m \in Numbers /\ m < count[epoch]
  <2>1. epoch <= latest
    <3>1. epoch \in Nat /\ known \in Nat /\ latest \in Nat /\ known <= latest
      BY Numbering, CallNumbering, Zenon DEF PlaceInv
    <3>2. QED
      BY <1>3, <3>1
  <2>2. logs[epoch] \in Log /\ logs[epoch].openFrom <= count[epoch]
    BY <1>3, <2>1, Zenon DEF StoreInv
  <2>3. logs[epoch].openFrom \in Nat /\ count[epoch] \in 0 .. MaxGroups
    BY <1>3, <2>2, LogFields, Zenon DEF StoreTypes
  <2>4. PICK x, y, z : x = logRoot.openFrom /\ y = logs[epoch].openFrom /\ z = count[epoch]
    OBVIOUS
  <2>5. x \in Nat /\ x <= MaxGroups /\ y \in Nat /\ z \in 0 .. MaxGroups /\ MaxGroups \in Nat
    BY <2>3, <2>4, CallNumbering, Zenon
  <2>6. upto = x - 1 /\ x <= y /\ y <= z
    BY <1>1, <1>3, <2>2, <2>4, Zenon
  <2>7. /\ upto \in Int /\ 0 \in Nat /\ 0 <= upto + 1 /\ upto < MaxGroups
        /\ \A m \in Nat : m <= upto => m \in Numbers /\ m < z
    BY <2>5, <2>6 DEF Numbers
  <2>8. QED
    BY <2>4, <2>7, Zenon
<1>5. PICK r, b, k : Taken(r, b, k, 0, upto) /\ answer' = r \o answer
  BY <1>2, <1>3, <1>4, TakeFacts, Zenon
<1>6. Joined(answer', r, answer) /\ Reach = upto + 1 /\ at \in {"back", "sealed"} /\ b \in Nat
  <2>1. Reach = logRoot.openFrom /\ upto + 1 = logRoot.openFrom
    <3>1. PICK x : x = logRoot.openFrom
      OBVIOUS
    <3>2. x \in Nat
      BY <3>1, CallNumbering, Zenon
    <3>3. x - 1 + 1 = x
      BY <3>2
    <3>4. QED
      BY <1>1, <1>2, <3>1, <3>3, Zenon DEF Reach
  <2>2. QED
    BY <1>2, <1>5, <2>1, Zenon DEF Joined, Taken
<1>7. Extended(answer', b, k, 0)
  BY <1>3, <1>4, <1>5, <1>6, TakeKeeps, Zenon
<1>8. /\ answer' \in Seq(Groups) /\ Len(answer') = k + Len(answer) /\ Len(answer') <= limit
      /\ Len(answer') < limit => b = 0
      /\ Elems(answer') \subseteq Committed /\ Ordered(answer')
      /\ KeptOK(answer', kept, epoch) /\ \A g \in Elems(answer') : g[1] >= epoch
      /\ clean => \A g \in Groups : Wanted(g) /\ g[1] > epoch => KeptHas(answer', kept, g)
      /\ Len(answer') > kept => answer'[1] = <<epoch, b>>
      /\ logRoot = logs[epoch] => \A m \in Numbers :
            Wanted(<<epoch, m>>) /\ b <= m => <<epoch, m>> \in Elems(answer')
  BY <1>7, Zenon DEF Extended
<1>9. /\ kept \in Nat /\ limit \in Nat /\ epoch \in Nat /\ Len(answer) \in Nat /\ kept <= Len(answer)
      /\ Len(answer') \in Nat /\ epoch >= 1
  <2>1. kept <= Len(answer)
    BY <1>2, <1>3, Zenon DEF KeptInv, KeptOK
  <2>2. QED
    BY <1>8, <2>1, CallNumbering, SeqFacts, Zenon
<1>10. /\ StoreTypes' /\ StoreInv' /\ CallTypes' /\ PlaceInv'
       /\ UNCHANGED <<latest, logs, deltas, head, count>> /\ Committed' = Committed
       /\ Answer' = Elems(answer')
       /\ \A g : Wanted(g)' <=> Wanted(g)
  <2>1. /\ logRoot' \in Log /\ last' \in Int /\ n' \in Int
        /\ UNCHANGED <<trackVars, known, op, id, limit, asked>> /\ op # "none"
    BY <1>2, <1>3, Zenon DEF CallTypes
  <2>2. epoch # 1 => epoch - 1 \in Epochs /\ epoch - 1 <= known
    <3>1. known \in Nat /\ MaxEpoch \in Nat
      BY CallNumbering, Zenon
    <3>2. QED
      BY <1>3, <1>9, <3>1 DEF Epochs
  <2>3. epoch' \in Epochs /\ epoch' <= known /\ kept' \in Nat
    BY <1>2, <1>3, <1>9, <2>2, Zenon
  <2>4. /\ at' \in {"done", "log"} /\ at' \notin Searching /\ at' # "open"
        /\ at' \notin {"head", "probe", "back", "sealed"}
    BY <1>2, Zenon DEF Searching
  <2>5. QED
    BY <1>8, <2>1, <2>3, <2>4, CallFrame, Zenon
<1>11. AnswerInv'
  BY <1>2, <1>3, <1>8, <1>10, Zenon DEF AnswerInv
<1>12. ASSUME clean', NEW g \in Groups, Wanted(g), g[1] > epoch \/ (g[1] = epoch /\ b <= g[2])
       PROVE  g \in Elems(answer')
  <2>1. CASE g[1] > epoch
    <3>1. KeptHas(answer', kept, g)
      BY <1>2, <1>8, <1>12, <2>1, Zenon
    <3>2. QED
      BY <3>1, Zenon DEF KeptHas, Elems
  <2>2. CASE g[1] = epoch /\ b <= g[2]
    <3>1. g = <<epoch, g[2]>> /\ g[2] \in Numbers
      BY <2>2 DEF Groups
    <3>2. <<epoch, g[2]>> \in Elems(answer')
      BY <1>2, <1>8, <1>12, <2>2, <3>1, Zenon
    <3>3. QED
      BY <3>1, <3>2, Zenon
  <2>3. QED
    BY <1>12, <2>1, <2>2, Zenon
<1>13. \A g \in Groups : g[1] \in Nat /\ g[1] >= 1 /\ g[2] \in Nat
  BY CallNumbering DEF Groups
<1>14. CASE Len(answer') = limit \/ epoch = 1
  <2>1. at' = "done" /\ op' = "before"
    BY <1>2, <1>3, <1>14, Zenon
  <2>2. ASSUME clean', NEW g \in Promised' PROVE g \in Answer'
    <3>1. g \in Groups /\ Wanted(g) /\ (Len(answer') = limit => Earlier(answer'[1], g))
      BY <1>2, <1>10, <2>1, PromisedNext, Zenon
    <3>2. g[1] > epoch \/ (g[1] = epoch /\ b <= g[2])
      <4>1. CASE Len(answer') = limit
        <5>1. Len(answer') > kept
          BY <1>3, <1>9, <4>1
        <5>2. Earlier(<<epoch, b>>, g)
          BY <1>8, <3>1, <4>1, <5>1, Zenon
        <5>3. QED
          BY <1>6, <1>9, <1>13, <3>1, <5>2, SMTT(20) DEF Earlier
      <4>2. CASE Len(answer') # limit
        <5>1. Len(answer') < limit
          BY <1>8, <1>9, <4>2
        <5>2. b = 0 /\ epoch = 1
          BY <1>8, <1>14, <4>2, <5>1, Zenon
        <5>3. QED
          BY <1>13, <3>1, <5>2, SMTT(20)
      <4>3. QED
        BY <4>1, <4>2, Zenon
    <3>3. QED
      BY <1>10, <1>12, <2>2, <3>1, <3>2, Zenon
  <2>3. MissesNothing'
    BY <2>2, Zenon DEF MissesNothing
  <2>4. LookupInv' /\ WalkInv' /\ KeptInv' /\ BeforeInv'
    BY <2>1, Zenon DEF LookupInv, WalkInv, KeptInv, BeforeInv
  <2>5. QED
    BY <1>10, <1>11, <2>3, <2>4, Zenon DEF QueryInv
<1>15. CASE Len(answer') # limit /\ epoch # 1
  <2>1. at' = "log" /\ op' = "before" /\ epoch' = epoch - 1 /\ kept' = Len(answer') /\ limit' = limit
    BY <1>2, <1>3, <1>15, Zenon
  <2>2. Len(answer') < limit
    BY <1>8, <1>9, <1>15
  <2>3. b = 0
    BY <1>8, <2>2, Zenon
  <2>4. /\ \A g \in Elems(answer') : g[1] > epoch' /\ g[1] >= epoch'
        /\ \A g \in Groups : g[1] > epoch' => g[1] > epoch \/ g[1] = epoch
    <3>1. Elems(answer') \subseteq Groups
      BY <1>8, Zenon DEF Committed, Groups
    <3>2. \A g \in Elems(answer') : g[1] \in Nat /\ g[1] >= epoch
      BY <1>8, <1>13, <3>1, Zenon
    <3>3. QED
      BY <1>9, <1>13, <2>1, <3>2
  <2>5. Len(answer') > 0 => answer'[1][2] = 0
    <3>1. CASE Len(answer') > kept
      BY <1>8, <2>3, <3>1
    <3>2. CASE ~(Len(answer') > kept)
      <4>1. kept <= Len(answer')
        BY <1>8, Zenon DEF KeptOK
      <4>2. Len(answer') > 0 => kept > 0 /\ Len(answer') - kept + 1 = 1
        BY <1>9, <3>2, <4>1
      <4>3. kept > 0 => answer'[Len(answer') - kept + 1][2] = 0
        BY <1>8, Zenon DEF KeptOK
      <4>4. QED
        BY <4>2, <4>3, Zenon
    <3>3. QED
      BY <3>1, <3>2, Zenon
  <2>6. KeptOK(answer', Len(answer'), epoch')
    <3>1. Len(answer') <= Len(answer') /\ Len(answer') - Len(answer') + 1 = 1
      BY <1>9
    <3>2. \A i \in DOMAIN answer' : answer'[i] \in Elems(answer')
      BY Zenon DEF Elems
    <3>3. QED
      BY <2>4, <2>5, <3>1, <3>2, Zenon DEF KeptOK
  <2>7. ASSUME clean', NEW g \in Groups, Wanted(g), g[1] > epoch'
        PROVE  KeptHas(answer', Len(answer'), g)
    <3>1. g \in Elems(answer')
      <4>1. b <= g[2]
        BY <1>13, <2>3, SMTT(20)
      <4>2. QED
        BY <1>12, <2>4, <2>7, <4>1, Zenon
    <3>2. \A i \in DOMAIN answer' : i > Len(answer') - Len(answer')
      BY <1>8, <1>9
    <3>3. QED
      BY <3>1, <3>2, Zenon DEF KeptHas, Elems
  <2>8. KeptInv'
    BY <1>10, <2>1, <2>2, <2>4, <2>6, <2>7, Zenon DEF KeptInv
  <2>9. LookupInv' /\ WalkInv' /\ BeforeInv' /\ MissesNothing'
    BY <2>1, Zenon DEF LookupInv, WalkInv, BeforeInv, MissesNothing
  <2>10. QED
    BY <1>10, <1>11, <2>8, <2>9, Zenon DEF QueryInv
<1>16. QED
  BY <1>14, <1>15, Zenon

-----------------------------------------------------------------------------
(* The invariant, and what follows. *)

(* It holds at first. *)
LEMMA InitKeeps ==
  ASSUME Init
  PROVE  QueryInv
<1>1. /\ latest = 1 /\ logs = [e \in Epochs |-> IF e = 1 THEN NewLog(1) ELSE NoLog]
      /\ deltas = [e \in Epochs |-> {}] /\ head = [e \in Epochs |-> -1] /\ count = [e \in Epochs |-> 0]
      /\ writing = 1 /\ busy = "no" /\ sweep = 0
  BY Zenon DEF Init, TrackInit
<1>2. /\ known = 1 /\ op = "none" /\ at = "idle" /\ id = Zero /\ limit = 0 /\ epoch = 1
      /\ logRoot = NewLog(1) /\ n = 0 /\ last = -1 /\ answer = <<>> /\ kept = 0
      /\ asked = count /\ clean = TRUE
  BY Zenon DEF Init
<1>3. 1 \in Epochs /\ 0 \in 0 .. MaxGroups
  BY TrackBoundsAssumption DEF Epochs
<1>4. NewLog(1) \in Log /\ NewLog(1).openFrom = 0
  BY <1>3, NewLogFields, Zenon
<1>5. StoreTypes
  <2>1. logs \in [Epochs -> Log \cup {NoLog}]
    BY <1>1, <1>4, Zenon
  <2>2. QED
    BY <1>1, <1>3, <2>1 DEF StoreTypes
<1>6. StoreInv
  <2>1. \A e \in Epochs : e <= 1 <=> e = 1
    BY DEF Epochs
  <2>2. \A e \in Epochs : e > 1 => e # 1
    BY DEF Epochs
  <2>3. \A e \in Epochs : e <= latest => logs[e] \in Log /\ logs[e].openFrom = 0 /\ count[e] = 0
    BY <1>1, <1>4, <2>1, Zenon
  <2>4. \A e \in Epochs : e <= latest => logs[e] \in Log /\ logs[e].openFrom <= count[e]
    BY <2>3
  <2>5. \A e \in Epochs : e > latest => count[e] = 0 /\ logs[e] \in {NoLog, NewLog(e)}
    BY <1>1, <2>2, Zenon
  <2>6. \A e \in Epochs : \A m \in Numbers : ~(m < count[e])
    BY <1>1, TrackBoundsAssumption DEF Numbers
  <2>7. writing <= latest /\ \A e \in Epochs : head[e] < count[e]
    BY <1>1
  <2>8. \A e \in Epochs : deltas[e] = {}
    BY <1>1, Zenon
  <2>9. busy # "sweep" /\ busy # "root"
    BY <1>1, Zenon
  <2>10. QED
    BY <2>4, <2>5, <2>6, <2>7, <2>8, <2>9, Zenon DEF StoreInv
<1>7. CallTypes
  <2>1. <<>> \in Seq(Groups) /\ 0 \in Nat /\ 0 \in Int /\ -1 \in Int
    OBVIOUS
  <2>2. asked \in [Epochs -> 0 .. MaxGroups]
    BY <1>2, <1>5, Zenon DEF StoreTypes
  <2>3. QED
    BY <1>2, <1>3, <1>4, <2>1, <2>2, Zenon DEF CallTypes
<1>8. PlaceInv
  <2>1. known <= latest /\ \A e \in Epochs : asked[e] <= count[e]
    BY <1>1, <1>2
  <2>2. QED
    BY <1>2, <2>1, Zenon DEF PlaceInv, Searching
<1>9. LookupInv /\ WalkInv /\ KeptInv /\ BeforeInv /\ MissesNothing
  BY <1>2, Zenon DEF LookupInv, WalkInv, KeptInv, BeforeInv, MissesNothing
<1>10. AnswerInv
  <2>1. Answer = {} /\ Ordered(<<>>)
    BY <1>2 DEF Answer, Ordered
  <2>2. QED
    BY <1>2, <2>1, Zenon DEF AnswerInv
<1>11. QED
  BY <1>5, <1>6, <1>7, <1>8, <1>9, <1>10, Zenon DEF QueryInv

(* Every step keeps it. *)
LEMMA NextKeeps ==
  ASSUME QueryInv, [Next]_vars
  PROVE  QueryInv'
<1>1. ASSUME UNCHANGED vars PROVE QueryInv'
  <2>1. UNCHANGED <<trackVars, known, call>>
    BY <1>1, Zenon DEF vars, queryVars
  <2>2. /\ StoreTypes' /\ StoreInv' /\ UNCHANGED <<latest, logs, deltas, head, count, busy, writing, sweep>>
        /\ Committed' = Committed
    BY <2>1, StoreFrame, Zenon DEF QueryInv
  <2>3. /\ known' = known /\ op' = op /\ id' = id /\ limit' = limit /\ at' = at /\ epoch' = epoch
        /\ logRoot' = logRoot /\ n' = n /\ last' = last /\ answer' = answer /\ kept' = kept
        /\ asked' = asked /\ clean' = clean
    BY <2>1, Zenon DEF call
  <2>4. CallTypes' /\ PlaceInv' /\ LookupInv'
    BY <2>2, <2>3, Zenon DEF QueryInv, CallTypes, PlaceInv, LookupInv
  <2>5. Answer' = Answer /\ Reach' = Reach /\ \A g : Wanted(g)' <=> Wanted(g)
    BY <2>3, Zenon DEF Answer, Reach, Wanted
  <2>6. WalkInv' /\ KeptInv'
    BY <2>3, <2>5, Zenon DEF QueryInv, WalkInv, KeptInv
  <2>7. BeforeInv' /\ AnswerInv'
    BY <2>2, <2>3, <2>5, Zenon DEF QueryInv, BeforeInv, AnswerInv
  <2>8. Promised' = Promised
    BY <2>3 DEF Promised
  <2>9. MissesNothing'
    BY <2>3, <2>5, <2>8, Zenon DEF QueryInv, MissesNothing
  <2>10. QED
    BY <2>2, <2>4, <2>6, <2>7, <2>9, Zenon DEF QueryInv
<1>2. ASSUME Answered PROVE QueryInv'
  BY <1>2, ReturnKeeps, Zenon DEF Answered
<1>3. ASSUME Query PROVE QueryInv'
  BY <1>2, <1>3, RefreshKeeps, ReadLogKeeps, LookupKeeps, LookupDeltaKeeps, LookupSealedKeeps,
     WalkKeeps, WalkDeltaKeeps, WalkOnKeeps, BeforeKeeps, BeforeHeadKeeps, BeforeProbeKeeps,
     BeforeDeltaKeeps, ResealedKeeps, BeforeSealedKeeps, Zenon DEF Query
<1>4. QED
  BY <1>1, <1>3, ElsewhereKeeps, Zenon DEF Next

(* What holds of every call, at every request of it. *)
LEMMA QueryInvariant ==
  Spec => []QueryInv
<1>1. Init => QueryInv
  BY InitKeeps
<1>2. QueryInv /\ [Next]_vars => QueryInv'
  BY NextKeeps
<1>3. QED
  BY <1>1, <1>2, PTL DEF Spec

(* A Lookup, a walk or a Before during which no log root it read was       *)
(* swapped misses no group that was committed when it began.               *)
THEOREM NothingMissed ==
  Spec => []MissesNothing
<1>1. QueryInv => MissesNothing
  BY Zenon DEF QueryInv
<1>2. QED
  BY <1>1, QueryInvariant, PTL

(* Whatever is sealed, reclaimed or begun under a call, its answer has     *)
(* only committed groups, in commit order and with none left out between   *)
(* two of an epoch, and a walk has each epoch from its first group on.     *)
THEOREM NeverAHole ==
  Spec => []NoHole
<1>1. ASSUME QueryInv PROVE NoHole
  <2>1. AnswerInv
    BY <1>1, Zenon DEF QueryInv
  <2>2. QED
    BY <2>1, Zenon DEF AnswerInv, NoHole, Ordered, Follows
<1>2. QED
  BY <1>1, QueryInvariant, PTL

===============================================================================
