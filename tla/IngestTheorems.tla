---------------------------- MODULE IngestTheorems ----------------------------
(* Proofs about the handler of one track, for any number of requests and   *)
(* of keys, with requests failing and the process dying anywhere.          *)
EXTENDS Ingest, TLAPS, FiniteSetTheorems

Stages == Holding \cup {"new", "open", "read", "install", "done"}
Working == {"announce", "append", "deliver"}
Before == {"new", "open", "read", "install", "announce", "body", "lock", "append"}
Keys == {Key[r] : r \in Requests}

Types ==
    /\ exists \in BOOLEAN /\ open \in BOOLEAN /\ stale \in BOOLEAN /\ announced \in BOOLEAN
    /\ log \in Seq(Requests)
    /\ users \in Nat
    /\ lock \in Requests \cup {None}
    /\ pos \in Nat
    /\ pc \in [Requests -> Stages]
    /\ found \in [Requests -> Nat]
    /\ group \in [Requests -> Nat \cup {None}]
    /\ answer \in [Requests -> Nat \cup {None}]
    /\ keys \in Seq(Keys)
    /\ delivered \in Seq(Nat)

Held == {r \in Requests : pc[r] \in Holding}

(* The requests that hold the track are counted, one of them at a time     *)
(* works on it, and the first of an opening does so until OnOpen returned. *)
HeldOK ==
    /\ users = Cardinality(Held)
    /\ users > 0 => open
    /\ \A r \in Requests : pc[r] \in Working <=> lock = r
    /\ open /\ ~announced => \E r \in Requests : pc[r] = "announce"

(* A request is in the log once at most, after its append; what the writer *)
(* and the recoveries know of the log is some earlier end of it; a group   *)
(* committed and not delivered is past all that were delivered.            *)
LogOK ==
    /\ pos <= Len(log)
    /\ \A r \in Requests : found[r] <= Len(log)
    /\ \A i, j \in 1 .. Len(log) : log[i] = log[j] => i = j
    /\ \A r \in Requests, i \in 1 .. Len(log) : pc[r] \in Before => log[i] # r

DeliveryOK ==
    /\ \A r \in Requests : group[r] # None <=> pc[r] = "deliver"
    /\ \A r \in Requests : pc[r] = "deliver" =>
        /\ group[r] < Len(log) /\ log[group[r] + 1] = r
        /\ \A i \in 1 .. Len(delivered) : delivered[i] < group[r]
    /\ \A i \in 1 .. Len(delivered) : delivered[i] < Len(log)
    /\ \A i \in 1 .. Len(delivered) - 1 : delivered[i] < delivered[i + 1]

Delivered(g) == \E i \in 1 .. Len(delivered) : delivered[i] = g

(* A reply is of a record delivered under its key, and the key of a record *)
(* that is being appended has none.                                        *)
RepliesOK ==
    /\ \A k \in DOMAIN replies :
        /\ k # NoKey
        /\ replies[k] \in Nat /\ replies[k] < Len(log) /\ Key[log[replies[k] + 1]] = k
        /\ Delivered(replies[k])
    /\ \A r \in Requests : pc[r] \in {"append", "deliver"} => Key[r] \notin DOMAIN replies

KeysOK ==
    /\ Len(keys) <= KeyLimit
    /\ IsFiniteSet(DOMAIN replies) /\ Cardinality(DOMAIN replies) = Len(keys)
    /\ \A i \in 1 .. Len(keys) : keys[i] \in DOMAIN replies
    /\ \A i, j \in 1 .. Len(keys) : keys[i] = keys[j] => i = j

AnswersOK ==
    \A r \in Requests : answer[r] # None =>
        /\ answer[r] < Len(log)
        /\ log[answer[r] + 1] = r \/ Same(log[answer[r] + 1], r)
        /\ Delivered(answer[r])

(* Why a key has no reply although a record of it is stored. *)
Accounted(i) ==
    \/ Key[log[i]] = NoKey
    \/ i - 1 \in forgotten \cup unanswered
    \/ Key[log[i]] \in DOMAIN replies /\ replies[Key[log[i]]] = i - 1
    \/ \E r \in Requests : pc[r] = "deliver" /\ group[r] = i - 1

OnceOK ==
    /\ \A i \in 1 .. Len(log) : Accounted(i)
    /\ \A i, j \in 1 .. Len(log) :
        i < j /\ Same(log[i], log[j]) => i - 1 \in forgotten \cup unanswered

IngestInv ==
    Types /\ HeldOK /\ LogOK /\ DeliveryOK /\ RepliesOK /\ KeysOK /\ AnswersOK /\ OnceOK

(* A step of r leaves the other requests where they are. *)
Others(r) == \A q \in Requests \ {r} : pc'[q] = pc[q]

-----------------------------------------------------------------------------
(* What is used of sequences: their elements, an append, the rest of one.  *)
LEMMA SequenceOf ==
  ASSUME NEW S, NEW s \in Seq(S)
  PROVE  /\ Len(s) \in Nat /\ DOMAIN s = 1 .. Len(s) /\ s \in [1 .. Len(s) -> S]
         /\ \A i \in 1 .. Len(s) : s[i] \in S
  OBVIOUS

(* A sequence with one element more. *)
LEMMA AppendOf ==
  ASSUME NEW S, NEW s \in Seq(S), NEW x \in S
  PROVE  /\ Append(s, x) \in Seq(S) /\ Len(Append(s, x)) = Len(s) + 1
         /\ \A i \in 1 .. Len(s) : Append(s, x)[i] = s[i]
         /\ Append(s, x)[Len(s) + 1] = x
  OBVIOUS

(* A sequence without its first element. *)
LEMMA TailOf ==
  ASSUME NEW S, NEW s \in Seq(S), Len(s) # 0
  PROVE  /\ Tail(s) \in Seq(S) /\ Len(Tail(s)) = Len(s) - 1 /\ Head(s) = s[1]
         /\ \A i \in 1 .. Len(Tail(s)) : Tail(s)[i] = s[i + 1]
  OBVIOUS

-----------------------------------------------------------------------------
(* Where a request goes. *)
LEMMA GoToFacts ==
  ASSUME Types, NEW r \in Requests, NEW step \in Stages, GoTo(r, step)
  PROVE  pc' \in [Requests -> Stages] /\ pc'[r] = step /\ Others(r)
  BY DEF Types, GoTo, Others

(* The requests that hold the track are finitely many. *)
LEMMA HeldFinite == IsFiniteSet(Held) /\ Cardinality(Held) \in Nat
<1>1. Held \in SUBSET Requests
  BY DEF Held
<1>2. IsFiniteSet(Held)
  BY <1>1, FS_Subset, IngestAssumption, Zenon
<1> QED
  BY <1>2, FS_CardinalityType, Zenon

(* No request holds the track, or works on it, when users is 0. *)
LEMMA NobodyHolds ==
  ASSUME HeldOK, users = 0
  PROVE  /\ Held = {} /\ lock \notin Requests
         /\ \A r \in Requests : pc[r] \notin Holding /\ pc[r] \notin Working
<1>1. Held = {}
  BY HeldFinite, FS_EmptySet, Zenon DEF HeldOK
<1>2. \A r \in Requests : pc[r] \notin Holding
  BY <1>1 DEF Held
<1>3. \A r \in Requests : pc[r] \notin Working
  BY <1>2, Zenon DEF Working, Holding
<1> QED
  BY <1>1, <1>2, <1>3, Zenon DEF HeldOK

(* The count of them, when r goes on, comes or goes. *)
LEMMA CountKept ==
  ASSUME NEW r \in Requests, Others(r), pc[r] \in Holding <=> pc'[r] \in Holding
  PROVE  Held' = Held
  BY DEF Held, Others

(* A request that comes to hold the track. *)
LEMMA CountUp ==
  ASSUME NEW r \in Requests, Others(r), pc[r] \notin Holding, pc'[r] \in Holding
  PROVE  Cardinality(Held') = Cardinality(Held) + 1
<1>1. Held' = Held \cup {r} /\ r \notin Held
  BY DEF Held, Others
<1> QED
  BY <1>1, HeldFinite, FS_AddElement, Zenon

(* A request that lets go of it. *)
LEMMA CountDown ==
  ASSUME NEW r \in Requests, Others(r), pc[r] \in Holding, pc'[r] \notin Holding
  PROVE  Cardinality(Held') = Cardinality(Held) - 1 /\ Cardinality(Held) # 0
<1>1. Held' = Held \ {r} /\ r \in Held
  BY DEF Held, Others
<1>2. Cardinality(Held) # 0
  BY <1>1, HeldFinite, FS_EmptySet, Zenon
<1> QED
  BY <1>1, <1>2, HeldFinite, FS_RemoveElement, Zenon

(* The mutex stays, is taken when it is free, or is let go of. *)
LEMMA LockMoves ==
  ASSUME Types, HeldOK, NEW r \in Requests, Others(r),
         \/ (pc'[r] \in Working <=> pc[r] \in Working) /\ lock' = lock
         \/ pc'[r] \in Working /\ lock = None /\ lock' = r
         \/ pc'[r] \notin Working /\ pc[r] \in Working /\ lock' = None
  PROVE  \A q \in Requests : pc'[q] \in Working <=> lock' = q
<1> SUFFICES ASSUME NEW q \in Requests PROVE pc'[q] \in Working <=> lock' = q
  OBVIOUS
<1>0. None # q /\ None # r
  BY IngestAssumption
<1>1. /\ pc[q] \in Working <=> lock = q
      /\ pc[r] \in Working <=> lock = r
  BY DEF HeldOK
<1>2. CASE q = r
  BY <1>0, <1>1, <1>2, Zenon
<1>3. CASE q # r
  <2>1. pc'[q] = pc[q]
    BY <1>3, Zenon DEF Others
  <2> QED
    BY <1>0, <1>1, <1>3, <2>1
<1> QED
  BY <1>2, <1>3, Zenon

(* A step of r that leaves the track open, and its count alone. *)
LEMMA StaysHeld ==
  ASSUME Types, HeldOK, NEW r \in Requests, Others(r),
         pc[r] \in Holding <=> pc'[r] \in Holding, pc[r] # "announce",
         UNCHANGED <<open, users, announced>>,
         \/ (pc'[r] \in Working <=> pc[r] \in Working) /\ lock' = lock
         \/ pc'[r] \in Working /\ lock = None /\ lock' = r
         \/ pc'[r] \notin Working /\ pc[r] \in Working /\ lock' = None
  PROVE  HeldOK'
<1>1. \A q \in Requests : pc'[q] \in Working <=> lock' = q
  BY LockMoves, Zenon
<1>2. Held' = Held
  BY CountKept, Zenon
<1>3. open' /\ ~announced' => \E q \in Requests : pc'[q] = "announce"
  BY Zenon DEF HeldOK, Others
<1> QED
  BY <1>1, <1>2, <1>3, Zenon DEF HeldOK

(* Answers stay true while nothing is forgotten of the log and of what was *)
(* delivered.                                                              *)
LEMMA AnswersFrame ==
  ASSUME AnswersOK, UNCHANGED <<log, delivered, answer>>
  PROVE  AnswersOK'
  BY Zenon DEF AnswersOK, Delivered

(* A step that records nothing keeps what is known of the records.         *)
LEMMA QuietKeeps ==
  ASSUME IngestInv, NEW r \in Requests, Others(r), Types', HeldOK', AnswersOK',
         UNCHANGED <<log, delivered, replies, keys, forgotten, unanswered, group>>,
         pc'[r] \in Before => pc[r] \in Before,
         pc[r] # "deliver", pc'[r] # "deliver",
         pc'[r] = "append" => pc[r] = "append" \/ Key[r] \notin DOMAIN replies,
         pos' <= Len(log), \A q \in Requests : found'[q] <= Len(log)
  PROVE  IngestInv'
<1> Types /\ HeldOK /\ LogOK /\ DeliveryOK /\ RepliesOK /\ KeysOK /\ AnswersOK /\ OnceOK
  BY DEF IngestInv
<1>1. \A q \in Requests : /\ pc'[q] \in Before => pc[q] \in Before
                          /\ pc'[q] = "deliver" <=> pc[q] = "deliver"
                          /\ pc'[q] \in {"append", "deliver"} =>
                                pc[q] \in {"append", "deliver"} \/ Key[q] \notin DOMAIN replies
  BY Zenon DEF Others
<1>2. LogOK'
  <2>1. \A q \in Requests, i \in 1 .. Len(log) : pc'[q] \in Before => log[i] # q
    BY <1>1, Zenon DEF LogOK
  <2>2. /\ pos' <= Len(log') /\ \A q \in Requests : found'[q] <= Len(log')
        /\ \A q \in Requests, i \in 1 .. Len(log') : pc'[q] \in Before => log'[i] # q
    BY <2>1, Zenon
  <2>3. \A i, j \in 1 .. Len(log') : log'[i] = log'[j] => i = j
    BY Zenon DEF LogOK
  <2> QED
    BY <2>2, <2>3, Zenon DEF LogOK
<1>3. DeliveryOK'
  BY <1>1, Zenon DEF DeliveryOK
<1>4. RepliesOK'
  <2>1. \A q \in Requests : pc'[q] \in {"append", "deliver"} => Key[q] \notin DOMAIN replies
    BY <1>1, Zenon DEF RepliesOK
  <2> QED
    BY <2>1, Zenon DEF RepliesOK, Delivered
<1>5. KeysOK'
  BY Zenon DEF KeysOK
<1>6. OnceOK'
  BY <1>1, Zenon DEF OnceOK, Accounted, Same
<1> QED
  BY <1>2, <1>3, <1>4, <1>5, <1>6, Zenon DEF IngestInv

-----------------------------------------------------------------------------
(* The steps that record nothing. *)

(* A request arrives, and a PUT creates the track. *)
LEMMA ArriveKeeps ==
  ASSUME IngestInv, NEW r \in Requests, Arrive(r)
  PROVE  IngestInv'
<1> Types /\ HeldOK /\ LogOK /\ AnswersOK
  BY DEF IngestInv
<1>1. /\ pc[r] = "new" /\ exists' \in {exists, TRUE}
      /\ UNCHANGED <<log, track, found, group, answer, history>>
  BY Zenon DEF Arrive
<1>2. PICK step \in {"open", "done"} : GoTo(r, step)
  BY Zenon DEF Arrive
<1>3. pc' \in [Requests -> Stages] /\ pc'[r] = step /\ Others(r)
  BY <1>2, GoToFacts, Zenon DEF Stages
<1>4. Types'
  BY <1>1, <1>3, Zenon DEF Types, track, history
<1>5. HeldOK'
  BY <1>1, <1>2, <1>3, StaysHeld, Zenon DEF Holding, Working, track, history
<1>6. AnswersOK'
  BY <1>1, AnswersFrame, Zenon DEF history
<1> QED
  BY <1>1, <1>2, <1>3, <1>4, <1>5, <1>6, QuietKeeps, Zenon DEF Before, LogOK, track, history

(* open finds the track and counts the request. *)
LEMMA OpenFoundKeeps ==
  ASSUME IngestInv, NEW r \in Requests, OpenFound(r)
  PROVE  IngestInv'
<1> Types /\ HeldOK /\ LogOK /\ AnswersOK
  BY DEF IngestInv
<1>1. /\ pc[r] = "open" /\ open /\ users' = users + 1 /\ GoTo(r, "body")
      /\ UNCHANGED <<store, open, lock, pos, stale, replies, keys, found, group, answer, history>>
  BY Zenon DEF OpenFound
<1>2. pc' \in [Requests -> Stages] /\ pc'[r] = "body" /\ Others(r)
  BY <1>1, GoToFacts, Zenon DEF Stages, Holding
<1>3. users' \in Nat
  BY <1>1 DEF Types
<1>4. Types'
  BY <1>1, <1>2, <1>3, Zenon DEF Types, store, history
<1>5. HeldOK'
  <2>1. \A q \in Requests : pc'[q] \in Working <=> lock' = q
    BY <1>1, <1>2, LockMoves, Zenon DEF Working
  <2>2. users' = Cardinality(Held')
    BY <1>1, <1>2, CountUp, Zenon DEF HeldOK, Holding
  <2>3. open' /\ ~announced' => \E q \in Requests : pc'[q] = "announce"
    BY <1>1, <1>2, Zenon DEF HeldOK, Others, history
  <2> QED
    BY <1>1, <2>1, <2>2, <2>3, Zenon DEF HeldOK
<1>6. AnswersOK'
  BY <1>1, AnswersFrame, Zenon DEF store, history
<1> QED
  BY <1>1, <1>2, <1>4, <1>5, <1>6, QuietKeeps, Zenon DEF Before, LogOK, store, history

(* Track.Writer finds some end of the log. *)
LEMMA OpenReadsKeeps ==
  ASSUME IngestInv, NEW r \in Requests, OpenReads(r)
  PROVE  IngestInv'
<1> Types /\ HeldOK /\ LogOK /\ AnswersOK
  BY DEF IngestInv
<1>1. /\ pc[r] = "read"
      /\ UNCHANGED <<store, track, group, answer, history>>
  BY Zenon DEF OpenReads
<1>2. PICK step \in {"install", "done"} : GoTo(r, step)
  BY Zenon DEF OpenReads
<1>3. pc' \in [Requests -> Stages] /\ pc'[r] = step /\ Others(r)
  BY <1>2, GoToFacts, Zenon DEF Stages
<1>4. Len(log) \in Nat
  BY SequenceOf, Zenon DEF Types
<1>5. found' \in [Requests -> Nat] /\ \A q \in Requests : found'[q] <= Len(log)
  <2>1. CASE found' = [found EXCEPT ![r] = Len(log)]
    <3>1. Len(log) <= Len(log)
      BY <1>4
    <3> QED
      BY <1>4, <2>1, <3>1, Zenon DEF Types, LogOK
  <2>2. CASE UNCHANGED found
    BY <2>2, Zenon DEF Types, LogOK
  <2> QED
    BY <2>1, <2>2, Zenon DEF OpenReads
<1>6. Types'
  BY <1>1, <1>3, <1>5, Zenon DEF Types, store, track, history
<1>7. HeldOK'
  BY <1>1, <1>2, <1>3, StaysHeld, Zenon DEF Holding, Working, track, history
<1>8. AnswersOK'
  BY <1>1, AnswersFrame, Zenon DEF store, history
<1> QED
  BY <1>1, <1>2, <1>3, <1>5, <1>6, <1>7, <1>8, QuietKeeps, Zenon
  DEF Before, LogOK, store, track, history

(* The first of an opening keeps its writer, the others its track. *)
LEMMA InstallKeeps ==
  ASSUME IngestInv, NEW r \in Requests, Install(r)
  PROVE  IngestInv'
<1> Types /\ HeldOK /\ LogOK /\ AnswersOK
  BY DEF IngestInv
<1>1. /\ pc[r] = "install" /\ found' = [found EXCEPT ![r] = 0]
      /\ UNCHANGED <<store, stale, replies, keys, group, answer, history>>
  BY Zenon DEF Install
<1>2. Len(log) \in Nat
  BY SequenceOf, Zenon DEF Types
<1>3. found' \in [Requests -> Nat] /\ \A q \in Requests : found'[q] <= Len(log)
  <2>1. 0 <= Len(log) /\ 0 \in Nat
    BY <1>2
  <2> QED
    BY <1>1, <2>1, Zenon DEF Types, LogOK
<1>4. AnswersOK'
  BY <1>1, AnswersFrame, Zenon DEF store, history
<1>5. CASE open
  <2>1. users' = users + 1 /\ GoTo(r, "body") /\ UNCHANGED <<open, lock, pos>>
    BY <1>5, Zenon DEF Install
  <2>2. pc' \in [Requests -> Stages] /\ pc'[r] = "body" /\ Others(r)
    BY <2>1, GoToFacts, Zenon DEF Stages, Holding
  <2>3. users' \in Nat
    BY <2>1 DEF Types
  <2>4. Types'
    BY <1>1, <1>3, <2>1, <2>2, <2>3, Zenon DEF Types, store, history
  <2>5. HeldOK'
    <3>1. \A q \in Requests : pc'[q] \in Working <=> lock' = q
      BY <1>1, <2>1, <2>2, LockMoves, Zenon DEF Working
    <3>2. users' = Cardinality(Held')
      BY <1>1, <2>1, <2>2, CountUp, Zenon DEF HeldOK, Holding
    <3>3. open' /\ ~announced' => \E q \in Requests : pc'[q] = "announce"
      BY <1>1, <2>1, <2>2, Zenon DEF HeldOK, Others, history
    <3> QED
      BY <1>5, <2>1, <3>1, <3>2, <3>3, Zenon DEF HeldOK
  <2> QED
    BY <1>1, <1>3, <1>4, <2>1, <2>2, <2>4, <2>5, QuietKeeps, Zenon
    DEF Before, LogOK, store, history
<1>6. CASE ~open
  <2>1. open' = TRUE /\ users' = 1 /\ lock' = r /\ pos' = found[r] /\ GoTo(r, "announce")
    BY <1>6, Zenon DEF Install
  <2>2. pc' \in [Requests -> Stages] /\ pc'[r] = "announce" /\ Others(r)
    BY <2>1, GoToFacts, Zenon DEF Stages, Holding
  <2>3. Types'
    <3>1. users' \in Nat /\ pos' \in Nat
      BY <2>1 DEF Types
    <3> QED
      BY <1>1, <1>3, <2>1, <2>2, <3>1, Zenon DEF Types, store, history
  <2>4. users = 0
    BY <1>6 DEF HeldOK, Types
  <2>5. HeldOK'
    <3>1. lock = None
      BY <2>4, NobodyHolds, Zenon DEF Types
    <3>2. \A q \in Requests : pc'[q] \in Working <=> lock' = q
      BY <2>1, <2>2, <3>1, LockMoves, Zenon DEF Working
    <3>3. Cardinality(Held') = Cardinality(Held) + 1
      BY <1>1, <2>2, CountUp, Zenon DEF Holding
    <3>4. users' = Cardinality(Held')
      <4>1. Cardinality(Held) = 0
        BY <2>4, Zenon DEF HeldOK
      <4>2. 0 + 1 = 1
        OBVIOUS
      <4> QED
        BY <2>1, <3>3, <4>1, <4>2, Zenon
    <3> QED
      BY <2>1, <2>2, <3>2, <3>4, Zenon DEF HeldOK
  <2> QED
    BY <1>1, <1>3, <1>4, <2>1, <2>2, <2>3, <2>5, QuietKeeps, Zenon
    DEF Before, LogOK, store, history
<1> QED
  BY <1>5, <1>6, Zenon

(* OnOpen returns, and the track is unlocked. *)
LEMMA AnnounceKeeps ==
  ASSUME IngestInv, NEW r \in Requests, Announce(r)
  PROVE  IngestInv'
<1> Types /\ HeldOK /\ LogOK /\ AnswersOK
  BY DEF IngestInv
<1>1. /\ pc[r] = "announce" /\ announced' = TRUE /\ lock' = None /\ GoTo(r, "body")
      /\ UNCHANGED <<store, open, users, pos, stale, replies, keys, found, group, answer,
                     delivered, forgotten, unanswered>>
  BY Zenon DEF Announce
<1>2. pc' \in [Requests -> Stages] /\ pc'[r] = "body" /\ Others(r)
  BY <1>1, GoToFacts, Zenon DEF Stages, Holding
<1>3. Types'
  BY <1>1, <1>2, Zenon DEF Types, store
<1>4. HeldOK'
  <2>1. \A q \in Requests : pc'[q] \in Working <=> lock' = q
    BY <1>1, <1>2, LockMoves, Zenon DEF Working
  <2>2. Held' = Held
    BY <1>1, <1>2, CountKept, Zenon DEF Holding
  <2> QED
    BY <1>1, <2>1, <2>2, Zenon DEF HeldOK
<1>5. AnswersOK'
  BY <1>1, AnswersFrame, Zenon DEF store
<1> QED
  BY <1>1, <1>2, <1>3, <1>4, <1>5, QuietKeeps, Zenon DEF Before, LogOK, store

(* release counts the request out. *)
LEMMA ReleaseKeeps ==
  ASSUME IngestInv, NEW r \in Requests, Release(r)
  PROVE  IngestInv'
<1> Types /\ HeldOK /\ LogOK /\ AnswersOK
  BY DEF IngestInv
<1>1. /\ pc[r] = "release" /\ users' = users - 1 /\ GoTo(r, "done")
      /\ UNCHANGED <<store, open, lock, pos, stale, replies, keys, found, group, answer, history>>
  BY Zenon DEF Release
<1>2. pc' \in [Requests -> Stages] /\ pc'[r] = "done" /\ Others(r)
  BY <1>1, GoToFacts, Zenon DEF Stages
<1>3. Cardinality(Held') = Cardinality(Held) - 1 /\ Cardinality(Held) # 0
  BY <1>1, <1>2, CountDown, Zenon DEF Holding
<1>4. /\ users' \in Nat /\ users' = Cardinality(Held')
      /\ open
  BY <1>1, <1>3 DEF Types, HeldOK
<1>5. Types'
  BY <1>1, <1>2, <1>4, Zenon DEF Types, store, history
<1>6. HeldOK'
  <2>1. \A q \in Requests : pc'[q] \in Working <=> lock' = q
    BY <1>1, <1>2, LockMoves, Zenon DEF Working
  <2>2. open' /\ ~announced' => \E q \in Requests : pc'[q] = "announce"
    BY <1>1, <1>2, Zenon DEF HeldOK, Others, history
  <2> QED
    BY <1>1, <1>4, <2>1, <2>2, Zenon DEF HeldOK
<1>7. AnswersOK'
  BY <1>1, AnswersFrame, Zenon DEF store, history
<1> QED
  BY <1>1, <1>2, <1>5, <1>6, <1>7, QuietKeeps, Zenon DEF Before, LogOK, store, history

(* The body is read before the track is locked. *)
LEMMA ReadBodyKeeps ==
  ASSUME IngestInv, NEW r \in Requests, ReadBody(r)
  PROVE  IngestInv'
<1> Types /\ HeldOK /\ LogOK /\ AnswersOK
  BY DEF IngestInv
<1>1. pc[r] = "body" /\ UNCHANGED <<store, track, found, group, answer, history>>
  BY Zenon DEF ReadBody
<1>2. PICK step \in {"lock", "release"} : GoTo(r, step)
  BY Zenon DEF ReadBody
<1>3. pc' \in [Requests -> Stages] /\ pc'[r] = step /\ Others(r)
  BY <1>2, GoToFacts, Zenon DEF Stages, Holding
<1>4. Types'
  BY <1>1, <1>3, Zenon DEF Types, store, track, history
<1>5. HeldOK'
  BY <1>1, <1>2, <1>3, StaysHeld, Zenon DEF Holding, Working, track, history
<1>6. AnswersOK'
  BY <1>1, AnswersFrame, Zenon DEF store, history
<1> QED
  BY <1>1, <1>2, <1>3, <1>4, <1>5, <1>6, QuietKeeps, Zenon DEF Before, LogOK, store, track, history

(* A retry is answered as the first was; others may append. *)
LEMMA LockKeeps ==
  ASSUME IngestInv, NEW r \in Requests, Lock(r)
  PROVE  IngestInv'
<1> Types /\ HeldOK /\ LogOK /\ AnswersOK /\ RepliesOK
  BY DEF IngestInv
<1>1. /\ pc[r] = "lock" /\ lock = None
      /\ UNCHANGED <<store, open, users, pos, stale, replies, keys, found, group, history>>
  BY Zenon DEF Lock
<1>2. CASE Key[r] \in DOMAIN replies
  <2>1. /\ answer' = [answer EXCEPT ![r] = replies[Key[r]]] /\ GoTo(r, "release")
        /\ lock' = lock
    BY <1>2, Zenon DEF Lock
  <2>2. pc' \in [Requests -> Stages] /\ pc'[r] = "release" /\ Others(r)
    BY <2>1, GoToFacts, Zenon DEF Stages, Holding
  <2>3. PICK g : g = replies[Key[r]]
    OBVIOUS
  <2>4. /\ g \in Nat /\ g < Len(log) /\ Same(log[g + 1], r) /\ Delivered(g)
    BY <1>2, <2>3, Zenon DEF RepliesOK, Same
  <2>5. /\ answer'[r] = g /\ \A q \in Requests \ {r} : answer'[q] = answer[q]
        /\ answer' \in [Requests -> Nat \cup {None}]
    BY <2>1, <2>3, <2>4, Zenon DEF Types
  <2>6. Types'
    BY <1>1, <2>1, <2>2, <2>5, Zenon DEF Types, store, history
  <2>7. HeldOK'
    BY <1>1, <2>1, <2>2, StaysHeld, Zenon DEF Holding, Working, history
  <2>8. AnswersOK'
    <3> SUFFICES ASSUME NEW q \in Requests, answer'[q] # None
                 PROVE  /\ answer'[q] < Len(log)
                        /\ log[answer'[q] + 1] = q \/ Same(log[answer'[q] + 1], q)
                        /\ Delivered(answer'[q])
      BY <1>1, Zenon DEF AnswersOK, Delivered, Same, store, history
    <3>1. CASE q = r
      BY <2>4, <2>5, <3>1, Zenon
    <3>2. CASE q # r
      BY <2>5, <3>2, Zenon DEF AnswersOK
    <3> QED
      BY <3>1, <3>2, Zenon
  <2> QED
    BY <1>1, <2>1, <2>2, <2>6, <2>7, <2>8, QuietKeeps, Zenon DEF Before, LogOK, store, history
<1>3. CASE Key[r] \notin DOMAIN replies
  <2>1. /\ answer' = answer
        /\ \/ lock' = r /\ GoTo(r, "append")
           \/ lock' = lock /\ GoTo(r, "release")
    BY <1>3, Zenon DEF Lock
  <2>2. PICK step \in {"append", "release"} :
            GoTo(r, step) /\ lock' = IF step = "append" THEN r ELSE lock
    BY <2>1, Zenon
  <2>3. pc' \in [Requests -> Stages] /\ pc'[r] = step /\ Others(r)
    BY <2>2, GoToFacts, Zenon DEF Stages, Holding
  <2>4. Types'
    BY <1>1, <2>1, <2>2, <2>3, Zenon DEF Types, store, history
  <2>5. HeldOK'
    BY <1>1, <2>2, <2>3, StaysHeld, Zenon DEF Holding, Working, history
  <2>6. AnswersOK'
    BY <1>1, <2>1, AnswersFrame, Zenon DEF store, history
  <2> QED
    BY <1>1, <1>3, <2>2, <2>3, <2>4, <2>5, <2>6, QuietKeeps, Zenon
    DEF Before, LogOK, store, history
<1> QED
  BY <1>2, <1>3, Zenon

(* An append that comes to nothing, or looks again at the epoch. *)
LEMMA AppendQuietKeeps ==
  ASSUME IngestInv, NEW r \in Requests, Reload(r) \/ AppendCollides(r) \/ AppendFails(r)
  PROVE  IngestInv'
<1> Types /\ HeldOK /\ LogOK /\ AnswersOK
  BY DEF IngestInv
<1>1. /\ pc[r] = "append" /\ stale' \in BOOLEAN
      /\ UNCHANGED <<store, open, users, replies, keys, found, group, answer, history>>
  BY Zenon DEF Reload, AppendCollides, AppendFails, Types, requests
<1>2. Len(log) \in Nat /\ pos' \in {pos, Len(log)}
  BY SequenceOf, Zenon DEF Types, Reload, AppendCollides, AppendFails
<1>3. pos' \in Nat /\ pos' <= Len(log)
  <2>1. Len(log) <= Len(log)
    BY <1>2
  <2> QED
    BY <1>2, <2>1, Zenon DEF Types, LogOK
<1>4. \/ lock' = lock /\ pc' = pc
      \/ lock' = None /\ GoTo(r, "release")
  BY Zenon DEF Reload, AppendCollides, AppendFails, requests
<1>5. /\ pc' \in [Requests -> Stages] /\ Others(r)
      /\ \/ lock' = lock /\ pc'[r] = "append"
         \/ lock' = None /\ pc'[r] = "release"
  <2>1. CASE lock' = lock /\ pc' = pc
    BY <1>1, <2>1, Zenon DEF Others, Types
  <2>2. CASE lock' = None /\ GoTo(r, "release")
    BY <2>2, GoToFacts, Zenon DEF Stages, Holding
  <2> QED
    BY <1>4, <2>1, <2>2, Zenon
<1>6. Types'
  BY <1>1, <1>3, <1>5, Zenon DEF Types, store, history
<1>7. HeldOK'
  BY <1>1, <1>5, StaysHeld, Zenon DEF Holding, Working, history
<1>8. AnswersOK'
  BY <1>1, AnswersFrame, Zenon DEF store, history
<1> QED
  BY <1>1, <1>3, <1>5, <1>6, <1>7, <1>8, QuietKeeps, Zenon DEF Before, LogOK, store, history

-----------------------------------------------------------------------------
(* A record more in the log. *)

(* The log after r's record. *)
LEMMA GrownLog ==
  ASSUME Types, NEW r \in Requests, log' = Append(log, r)
  PROVE  /\ log' \in Seq(Requests) /\ Len(log) \in Nat
         /\ Len(log') = Len(log) + 1 /\ Len(log) < Len(log') /\ Len(log) <= Len(log')
         /\ \A i \in 1 .. Len(log) : log'[i] = log[i]
         /\ log'[Len(log) + 1] = r
         /\ \A i \in 1 .. Len(log') : i \in 1 .. Len(log) \/ i = Len(log')
         /\ \A g \in Nat : g < Len(log) => g < Len(log') /\ g + 1 \in 1 .. Len(log)
         /\ \A g \in Nat : g <= Len(log) => g <= Len(log')
<1>1. log \in Seq(Requests)
  BY DEF Types
<1>2. /\ log' \in Seq(Requests) /\ Len(log) \in Nat /\ Len(log') = Len(log) + 1
      /\ \A i \in 1 .. Len(log) : log'[i] = log[i]
      /\ log'[Len(log) + 1] = r
  BY <1>1, AppendOf, SequenceOf
<1>3. PICK n \in Nat : n = Len(log) /\ Len(log') = n + 1
  BY <1>2
<1>4. /\ n < n + 1 /\ n <= n + 1
      /\ \A i \in 1 .. n + 1 : i \in 1 .. n \/ i = n + 1
      /\ \A g \in Nat : g < n => g < n + 1 /\ g + 1 \in 1 .. n
      /\ \A g \in Nat : g <= n => g <= n + 1
  OBVIOUS
<1> QED
  BY <1>2, <1>3, <1>4, Zenon

(* What commit of r's record keeps, whether the append learns of it        *)
(* (AppendCommits) or not (AppendUnknown).                                 *)
LEMMA CommitKeeps ==
  ASSUME IngestInv, NEW r \in Requests, AppendCommits(r) \/ AppendUnknown(r)
  PROVE  IngestInv'
<1> Types /\ HeldOK /\ LogOK /\ DeliveryOK /\ RepliesOK /\ KeysOK /\ AnswersOK /\ OnceOK
  BY DEF IngestInv
<1>1. /\ pc[r] = "append" /\ pos = Len(log) /\ log' = Append(log, r) /\ stale' \in BOOLEAN
      /\ UNCHANGED <<exists, open, users, replies, keys, found, answer, announced, delivered,
                     forgotten>>
  BY Zenon DEF AppendCommits, AppendUnknown, history
<1>2. \/ /\ pos' = pos + 1 /\ group' = [group EXCEPT ![r] = pos] /\ GoTo(r, "deliver")
         /\ UNCHANGED <<lock, unanswered>>
      \/ /\ pos' = pos /\ group' = group /\ GoTo(r, "release") /\ lock' = None
         /\ unanswered' = unanswered \cup {pos}
  BY Zenon DEF AppendCommits, AppendUnknown, history
<1>3. /\ log' \in Seq(Requests) /\ Len(log) \in Nat
      /\ Len(log') = Len(log) + 1 /\ Len(log) < Len(log') /\ Len(log) <= Len(log')
      /\ \A i \in 1 .. Len(log) : log'[i] = log[i]
      /\ log'[Len(log) + 1] = r
      /\ \A i \in 1 .. Len(log') : i \in 1 .. Len(log) \/ i = Len(log')
      /\ \A g \in Nat : g < Len(log) => g < Len(log') /\ g + 1 \in 1 .. Len(log)
      /\ \A g \in Nat : g <= Len(log) => g <= Len(log')
  BY <1>1, GrownLog, Zenon
<1>4. /\ pc' \in [Requests -> Stages] /\ Others(r) /\ pc'[r] \in {"deliver", "release"}
      /\ pc'[r] = "deliver" => lock' = lock
      /\ pc'[r] = "release" => lock' = None
  <2>1. CASE GoTo(r, "deliver") /\ UNCHANGED lock
    <3>1. pc' \in [Requests -> Stages] /\ Others(r) /\ pc'[r] = "deliver"
      BY <2>1, GoToFacts, Zenon DEF Stages, Holding
    <3> QED
      BY <2>1, <3>1, Zenon
  <2>2. CASE GoTo(r, "release") /\ lock' = None
    <3>1. pc' \in [Requests -> Stages] /\ Others(r) /\ pc'[r] = "release"
      BY <2>2, GoToFacts, Zenon DEF Stages, Holding
    <3> QED
      BY <2>2, <3>1, Zenon
  <2> QED
    BY <1>2, <2>1, <2>2, Zenon
<1>5. /\ group' \in [Requests -> Nat \cup {None}]
      /\ \A q \in Requests \ {r} : group'[q] = group[q]
      /\ pc'[r] = "deliver" => group'[r] = Len(log)
      /\ pc'[r] = "release" => group'[r] = None
  <2>1. CASE group' = [group EXCEPT ![r] = pos] /\ GoTo(r, "deliver")
    <3>1. pc'[r] = "deliver"
      BY <2>1, GoToFacts, Zenon DEF Stages, Holding
    <3> QED
      BY <1>1, <1>3, <2>1, <3>1, Zenon DEF Types
  <2>2. CASE group' = group /\ GoTo(r, "release")
    <3>1. pc'[r] = "release" /\ group[r] = None
      BY <1>1, <2>2, GoToFacts, Zenon DEF Stages, Holding, DeliveryOK
    <3> QED
      BY <2>2, <3>1, Zenon DEF Types
  <2> QED
    BY <1>2, <2>1, <2>2, Zenon
<1>6. pos' \in Nat /\ pos' <= Len(log')
  BY <1>1, <1>2, <1>3 DEF Types
<1>7. Types'
  BY <1>1, <1>3, <1>4, <1>5, <1>6, Zenon DEF Types
<1>8. HeldOK'
  BY <1>1, <1>4, StaysHeld, Zenon DEF Holding, Working
<1>9. \A q \in Requests : pc'[q] \in Before => pc[q] \in Before /\ q # r
  BY <1>4, Zenon DEF Others, Before
<1>10. \A i \in 1 .. Len(log) : log[i] # r
  BY <1>1, Zenon DEF LogOK, Before
<1>11. LogOK'
  <2>1. ASSUME NEW i \in 1 .. Len(log'), NEW j \in 1 .. Len(log'), log'[i] = log'[j]
        PROVE  i = j
    BY <1>3, <1>10, <2>1, Zenon DEF LogOK
  <2>2. ASSUME NEW q \in Requests, NEW i \in 1 .. Len(log'), pc'[q] \in Before
        PROVE  log'[i] # q
    BY <1>3, <1>9, <2>2, Zenon DEF LogOK
  <2>3. \A q \in Requests : found'[q] <= Len(log')
    BY <1>1, <1>3, Zenon DEF LogOK, Types
  <2> QED
    BY <1>6, <2>1, <2>2, <2>3, Zenon DEF LogOK
<1>12. \A q \in Requests \ {r} : pc[q] \notin Working /\ pc'[q] \notin Working
  BY <1>1, <1>4, Zenon DEF HeldOK, Others, Working
<1>13. \A q \in Requests : pc'[q] = "deliver" => q = r
  BY <1>12, Zenon DEF Working
<1>14. \A i \in 1 .. Len(delivered) : delivered[i] \in Nat /\ delivered[i] < Len(log)
  BY SequenceOf, Zenon DEF Types, DeliveryOK
<1>15. DeliveryOK'
  <2>1. ASSUME NEW q \in Requests PROVE group'[q] # None <=> pc'[q] = "deliver"
    <3>1. CASE q = r
      <4>1. Len(log) # None
        BY <1>3, IngestAssumption, Zenon
      <4> QED
        BY <1>4, <1>5, <3>1, <4>1, Zenon
    <3>2. CASE q # r
      BY <1>4, <1>5, <3>2, Zenon DEF DeliveryOK, Others
    <3> QED
      BY <3>1, <3>2, Zenon
  <2>2. ASSUME NEW q \in Requests, pc'[q] = "deliver"
        PROVE  /\ group'[q] < Len(log') /\ log'[group'[q] + 1] = q
               /\ \A i \in 1 .. Len(delivered) : delivered[i] < group'[q]
    <3>1. q = r /\ group'[q] = Len(log)
      BY <1>5, <1>13, <2>2, Zenon
    <3> QED
      BY <1>3, <1>14, <3>1, Zenon
  <2>3. \A i \in 1 .. Len(delivered) : delivered[i] < Len(log')
    BY <1>3, <1>14, Zenon
  <2> QED
    BY <1>1, <2>1, <2>2, <2>3, Zenon DEF DeliveryOK
<1>16. RepliesOK'
  <2>1. ASSUME NEW k \in DOMAIN replies
        PROVE  /\ k # NoKey
               /\ replies[k] \in Nat /\ replies[k] < Len(log') /\ Key[log'[replies[k] + 1]] = k
               /\ Delivered(replies[k])
    <3>1. /\ k # NoKey /\ replies[k] \in Nat /\ replies[k] < Len(log)
          /\ Key[log[replies[k] + 1]] = k /\ Delivered(replies[k])
      BY Zenon DEF RepliesOK
    <3>2. replies[k] < Len(log') /\ replies[k] + 1 \in 1 .. Len(log)
      BY <1>3, <3>1, Zenon
    <3>3. log'[replies[k] + 1] = log[replies[k] + 1]
      BY <1>3, <3>2, Zenon
    <3> QED
      BY <3>1, <3>2, <3>3, Zenon
  <2>2. \A q \in Requests : pc'[q] \in {"append", "deliver"} => pc[q] \in {"append", "deliver"}
    BY <1>1, <1>4, Zenon DEF Others
  <2>3. replies' = replies /\ delivered' = delivered
    BY <1>1, Zenon
  <2>4. \A k \in DOMAIN replies : Delivered(replies[k])'
    BY <2>1, <2>3, Zenon DEF Delivered
  <2>5. \A q \in Requests : pc'[q] \in {"append", "deliver"} => Key[q] \notin DOMAIN replies'
    BY <2>2, <2>3, Zenon DEF RepliesOK
  <2> QED
    BY <2>1, <2>3, <2>4, <2>5, Zenon DEF RepliesOK
<1>17. KeysOK'
  BY <1>1, Zenon DEF KeysOK
<1>18. AnswersOK'
  <2> SUFFICES ASSUME NEW q \in Requests, answer[q] # None
               PROVE  /\ answer[q] < Len(log')
                      /\ log'[answer[q] + 1] = q \/ Same(log'[answer[q] + 1], q)
                      /\ Delivered(answer[q])
    BY <1>1, Zenon DEF AnswersOK, Delivered, Same
  <2>1. /\ answer[q] \in Nat /\ answer[q] < Len(log) /\ Delivered(answer[q])
        /\ log[answer[q] + 1] = q \/ Same(log[answer[q] + 1], q)
    BY Zenon DEF AnswersOK, Types
  <2>2. answer[q] < Len(log') /\ answer[q] + 1 \in 1 .. Len(log)
    BY <1>3, <2>1, Zenon
  <2>3. log'[answer[q] + 1] = log[answer[q] + 1]
    BY <1>3, <2>2, Zenon
  <2> QED
    BY <2>1, <2>2, <2>3, Zenon
<1>19. OnceOK'
  <2>1. Len(log') - 1 = Len(log) /\ log'[Len(log')] = r
    BY <1>3
  <2>2. unanswered \subseteq unanswered'
    BY <1>2, Zenon
  <2>3. \A q \in Requests : pc[q] # "deliver"
    BY <1>1, <1>12, Zenon DEF Working
  <2>4. ASSUME NEW i \in 1 .. Len(log)
        PROVE  \/ Key[log[i]] = NoKey
               \/ i - 1 \in forgotten \cup unanswered
               \/ Key[log[i]] \in DOMAIN replies /\ replies[Key[log[i]]] = i - 1
    <3>1. Accounted(i)
      BY Zenon DEF OnceOK
    <3> QED
      BY <2>3, <3>1, Zenon DEF Accounted
  <2>5. ASSUME NEW i \in 1 .. Len(log') PROVE Accounted(i)'
    <3>1. CASE i \in 1 .. Len(log)
      BY <1>1, <1>3, <2>2, <2>4, <3>1, Zenon DEF Accounted
    <3>2. CASE i = Len(log')
      <4>1. CASE GoTo(r, "deliver")
        <5>1. pc'[r] = "deliver" /\ group'[r] = i - 1
          BY <1>5, <2>1, <3>2, <4>1, GoToFacts, Zenon DEF Stages, Holding
        <5> QED
          BY <5>1, Zenon DEF Accounted
      <4>2. CASE unanswered' = unanswered \cup {pos}
        <5>1. i - 1 \in unanswered'
          BY <1>1, <2>1, <3>2, <4>2, Zenon
        <5> QED
          BY <5>1, Zenon DEF Accounted
      <4> QED
        BY <1>2, <4>1, <4>2, Zenon
    <3> QED
      BY <1>3, <3>1, <3>2, Zenon
  <2>6. ASSUME NEW i \in 1 .. Len(log'), NEW j \in 1 .. Len(log'), i < j, Same(log'[i], log'[j])
        PROVE  i - 1 \in forgotten' \cup unanswered'
    <3>0. i \in 1 .. Len(log)
      BY <1>3, <2>6
    <3>1. CASE j \in 1 .. Len(log)
      <4>1. i - 1 \in forgotten \cup unanswered
        BY <1>3, <2>6, <3>0, <3>1, ZenonT(30) DEF OnceOK
      <4> QED
        BY <1>1, <2>2, <4>1, Zenon
    <3>2. CASE j = Len(log')
      <4>1. Key[log[i]] # NoKey /\ Key[log[i]] = Key[r]
        BY <1>3, <2>1, <2>6, <3>0, <3>2, Zenon DEF Same
      <4>2. Key[r] \notin DOMAIN replies
        BY <1>1, Zenon DEF RepliesOK
      <4>3. i - 1 \in forgotten \cup unanswered
        BY <2>4, <3>0, <4>1, <4>2, Zenon
      <4> QED
        BY <1>1, <2>2, <4>3, Zenon
    <3> QED
      BY <1>3, <3>1, <3>2, Zenon
  <2> QED
    BY <2>5, <2>6, Zenon DEF OnceOK, Same
<1> QED
  BY <1>7, <1>8, <1>11, <1>15, <1>16, <1>17, <1>18, <1>19, Zenon DEF IngestInv

-----------------------------------------------------------------------------
(* A record delivered. *)

(* The keys, after remember: the oldest made room, or there was room.      *)
LEMMA RememberKeys ==
  ASSUME Types, KeysOK, RepliesOK, NEW k \in Keys, NEW g, k \notin DOMAIN replies, Remember(k, g)
  PROVE  /\ KeysOK' /\ keys' \in Seq(Keys)
         /\ \A j \in DOMAIN replies' : \/ j = k /\ replies'[j] = g
                                       \/ j # k /\ j \in DOMAIN replies /\ replies'[j] = replies[j]
         /\ k \in DOMAIN replies' /\ replies'[k] = g
         /\ forgotten \subseteq forgotten'
         /\ \A j \in DOMAIN replies :
                (j \in DOMAIN replies' /\ replies'[j] = replies[j]) \/ replies[j] \in forgotten'
<1> DEFINE full == Len(keys) = KeyLimit
           left == IF full THEN DOMAIN replies \ {Head(keys)} ELSE DOMAIN replies
           kept == IF full THEN Tail(keys) ELSE keys
<1>1. /\ replies' = [j \in left \cup {k} |-> IF j = k THEN g ELSE replies[j]]
      /\ keys' = Append(kept, k)
      /\ forgotten' = forgotten \cup (IF full THEN {replies[Head(keys)]} ELSE {})
  BY Zenon DEF Remember
<1>2. keys \in Seq(Keys) /\ Len(keys) \in Nat /\ KeyLimit \in Nat \ {0} /\ Len(keys) <= KeyLimit
  BY SequenceOf, IngestAssumption DEF Types, KeysOK
<1>3. /\ kept \in Seq(Keys) /\ Len(kept) \in Nat /\ Len(kept) < KeyLimit
      /\ IsFiniteSet(left) /\ Cardinality(left) = Len(kept)
      /\ \A i \in 1 .. Len(kept) : kept[i] \in left
      /\ \A i, j \in 1 .. Len(kept) : kept[i] = kept[j] => i = j
  <2>1. CASE ~full
    <3>1. Len(keys) < KeyLimit
      BY <1>2, <2>1
    <3> QED
      BY <1>2, <2>1, <3>1, Zenon DEF KeysOK
  <2>2. CASE full
    <3>1. Len(keys) # 0
      BY <1>2, <2>2
    <3>2. /\ Tail(keys) \in Seq(Keys) /\ Len(Tail(keys)) = Len(keys) - 1
          /\ \A i \in 1 .. Len(Tail(keys)) : Tail(keys)[i] = keys[i + 1]
      BY <1>2, <3>1, TailOf, Zenon
    <3>3. Head(keys) = keys[1]
      BY <1>2, <3>1, TailOf, Zenon
    <3>4. PICK m \in Nat : m = Len(Tail(keys)) /\ Len(keys) = m + 1
      <4>1. \A a, b : a \in Nat /\ a # 0 /\ b = a - 1 => b \in Nat /\ a = b + 1
        OBVIOUS
      <4>2. Len(Tail(keys)) \in Nat /\ Len(keys) = Len(Tail(keys)) + 1
        BY <1>2, <3>1, <3>2, <4>1, Zenon
      <4> QED
        BY <4>2, Zenon
    <3>5. 1 \in 1 .. Len(keys)
      BY <3>4
    <3>6. \A i \in 1 .. m : i + 1 \in 1 .. Len(keys) /\ i + 1 # 1
      BY <3>4
    <3>7. \A i, j \in 1 .. m : i + 1 = j + 1 => i = j
      OBVIOUS
    <3>8. keys[1] \in DOMAIN replies /\ IsFiniteSet(DOMAIN replies)
      BY <3>5, Zenon DEF KeysOK
    <3>9. PICK D, h : D = DOMAIN replies /\ h = keys[1]
      OBVIOUS
    <3>10. IsFiniteSet(D \ {h}) /\ Cardinality(D \ {h}) = Cardinality(D) - 1
      BY <3>8, <3>9, FS_RemoveElement, Zenon
    <3>11. Cardinality(D) = m + 1
      BY <3>4, <3>9, Zenon DEF KeysOK
    <3>12. Cardinality(D \ {h}) = m
      BY <3>10, <3>11
    <3>13. left = D \ {h} /\ kept = Tail(keys)
      BY <2>2, <3>3, <3>9, Zenon
    <3>14. \A i \in 1 .. m : kept[i] = keys[i + 1]
      BY <3>2, <3>4, <3>13, Zenon
    <3>15. \A i \in 1 .. m : kept[i] \in left
      <4> TAKE i \in 1 .. m
      <4>1. keys[i + 1] \in D /\ keys[i + 1] # h
        BY <3>5, <3>6, <3>9, Zenon DEF KeysOK
      <4> QED
        BY <3>13, <3>14, <4>1, Zenon
    <3>16. \A i, j \in 1 .. m : kept[i] = kept[j] => i = j
      <4> TAKE i, j \in 1 .. m
      <4>1. keys[i + 1] = keys[j + 1] => i + 1 = j + 1
        BY <3>6, Zenon DEF KeysOK
      <4>2. kept[i] = keys[i + 1] /\ kept[j] = keys[j + 1]
        BY <3>14, Zenon
      <4>3. i + 1 = j + 1 => i = j
        BY <3>7, Zenon
      <4> HIDE DEF kept
      <4> QED
        BY <4>1, <4>2, <4>3, Zenon
    <3>17. m < KeyLimit
      BY <1>2, <2>2, <3>4
    <3> QED
      BY <3>2, <3>4, <3>10, <3>12, <3>13, <3>15, <3>16, <3>17, ZenonT(30)
  <2> QED
    BY <2>1, <2>2, Zenon
<1>4. k \notin left
  BY Zenon
<1> HIDE DEF full, left, kept
<1>5. /\ DOMAIN replies' = left \cup {k} /\ replies'[k] = g
      /\ \A j \in left : j # k /\ replies'[j] = replies[j]
  BY <1>1, <1>4, Zenon
<1>6. /\ keys' \in Seq(Keys) /\ Len(keys') = Len(kept) + 1
      /\ \A i \in 1 .. Len(kept) : keys'[i] = kept[i]
      /\ keys'[Len(kept) + 1] = k
  <2>1. kept \in Seq(Keys) /\ keys' = Append(kept, k)
    BY <1>1, <1>3, Zenon
  <2>2. ASSUME NEW s \in Seq(Keys)
        PROVE  /\ Append(s, k) \in Seq(Keys) /\ Len(Append(s, k)) = Len(s) + 1
               /\ \A i \in 1 .. Len(s) : Append(s, k)[i] = s[i]
               /\ Append(s, k)[Len(s) + 1] = k
    BY AppendOf
  <2> QED
    BY <2>1, <2>2, Zenon
<1>7. PICK n \in Nat : n = Len(kept) /\ Len(keys') = n + 1 /\ n + 1 <= KeyLimit
  BY <1>2, <1>3, <1>6
<1>8. \A i \in 1 .. n + 1 : i \in 1 .. n \/ i = n + 1
  OBVIOUS
<1>9. KeysOK'
  <2>1. IsFiniteSet(left \cup {k}) /\ Cardinality(left \cup {k}) = n + 1
    BY <1>3, <1>4, <1>7, FS_AddElement, Zenon
  <2>2. \A i \in 1 .. n + 1 : keys'[i] \in left \cup {k}
    BY <1>3, <1>6, <1>7, <1>8, Zenon
  <2>3. \A i, j \in 1 .. n + 1 : keys'[i] = keys'[j] => i = j
    <3> TAKE i, j \in 1 .. n + 1
    <3>1. i \in 1 .. n => keys'[i] = kept[i] /\ kept[i] \in left /\ keys'[i] # k
      BY <1>3, <1>4, <1>6, <1>7, Zenon
    <3>2. j \in 1 .. n => keys'[j] = kept[j] /\ kept[j] \in left /\ keys'[j] # k
      BY <1>3, <1>4, <1>6, <1>7, Zenon
    <3> QED
      BY <1>3, <1>6, <1>7, <1>8, <3>1, <3>2, Zenon
  <2> QED
    BY <1>5, <1>7, <2>1, <2>2, <2>3, Zenon DEF KeysOK
<1>10. left \subseteq DOMAIN replies
  BY Zenon DEF left
<1>11. \A j \in DOMAIN replies : j \in left \/ (full /\ j = Head(keys))
  BY Zenon DEF left
<1>12. full => replies[Head(keys)] \in forgotten'
  BY <1>1, Zenon
<1> QED
  BY <1>1, <1>5, <1>6, <1>9, <1>10, <1>11, <1>12, Zenon

(* OnRecord sees the record after all it has seen, and its reply is        *)
(* remembered.                                                             *)
LEMMA DeliverKeeps ==
  ASSUME IngestInv, NEW r \in Requests, Deliver(r)
  PROVE  IngestInv'
<1> Types /\ HeldOK /\ LogOK /\ DeliveryOK /\ RepliesOK /\ KeysOK /\ AnswersOK /\ OnceOK
  BY DEF IngestInv
<1>1. /\ pc[r] = "deliver" /\ delivered' = Append(delivered, group[r])
      /\ answer' = [answer EXCEPT ![r] = group[r]] /\ group' = [group EXCEPT ![r] = None]
      /\ lock' = None /\ GoTo(r, "release")
      /\ UNCHANGED <<store, open, users, pos, stale, found, announced, unanswered>>
  BY Zenon DEF Deliver
<1>2. PICK g : g = group[r]
  OBVIOUS
<1>3. /\ g \in Nat /\ g < Len(log) /\ log[g + 1] = r
      /\ \A i \in 1 .. Len(delivered) : delivered[i] < g
  BY <1>1, <1>2, Zenon DEF DeliveryOK, Types
<1>4. pc' \in [Requests -> Stages] /\ pc'[r] = "release" /\ Others(r)
  BY <1>1, GoToFacts, Zenon DEF Stages, Holding
<1>5. /\ delivered' \in Seq(Nat) /\ Len(delivered) \in Nat
      /\ Len(delivered') = Len(delivered) + 1
      /\ \A i \in 1 .. Len(delivered) : delivered'[i] = delivered[i]
      /\ delivered'[Len(delivered) + 1] = g
  <2>1. delivered \in Seq(Nat) /\ delivered' = Append(delivered, g)
    BY <1>1, <1>2, Zenon DEF Types
  <2> QED
    BY <1>3, <2>1, AppendOf, SequenceOf
<1>6. PICK n \in Nat : n = Len(delivered) /\ Len(delivered') = n + 1
  BY <1>5, Zenon
<1>7. /\ \A i \in 1 .. n + 1 : i \in 1 .. n \/ i = n + 1
      /\ \A i \in 1 .. n : i \in 1 .. n + 1
      /\ n + 1 \in 1 .. n + 1
      /\ \A i \in 1 .. (n + 1) - 1 : i \in 1 .. n /\ (i = n \/ (i \in 1 .. n - 1 /\ i + 1 \in 1 .. n))
  OBVIOUS
<1>8. Delivered(g)' /\ \A h : Delivered(h) => Delivered(h)'
  BY <1>5, <1>6, <1>7, Zenon DEF Delivered
<1>9. /\ group'[r] = None /\ \A q \in Requests \ {r} : group'[q] = group[q]
      /\ group' \in [Requests -> Nat \cup {None}]
  BY <1>1, Zenon DEF Types
<1>10. /\ answer'[r] = g /\ \A q \in Requests \ {r} : answer'[q] = answer[q]
       /\ answer' \in [Requests -> Nat \cup {None}]
  BY <1>1, <1>2, <1>3, Zenon DEF Types
<1>11. Key[r] \notin DOMAIN replies /\ Key[r] \in Keys
  BY <1>1, Zenon DEF RepliesOK, Keys
<1>12. /\ KeysOK' /\ keys' \in Seq(Keys)
       /\ \A j \in DOMAIN replies' : \/ j = Key[r] /\ j # NoKey /\ replies'[j] = g
                                     \/ j # Key[r] /\ j \in DOMAIN replies /\ replies'[j] = replies[j]
       /\ Key[r] # NoKey => Key[r] \in DOMAIN replies' /\ replies'[Key[r]] = g
       /\ forgotten \subseteq forgotten'
       /\ \A j \in DOMAIN replies :
              (j \in DOMAIN replies' /\ replies'[j] = replies[j]) \/ replies[j] \in forgotten'
  <2>1. CASE Key[r] = NoKey
    <3>1. UNCHANGED <<replies, keys, forgotten>>
      BY <2>1, Zenon DEF Deliver
    <3>2. KeysOK'
      BY <3>1, Zenon DEF KeysOK
    <3> QED
      BY <1>11, <2>1, <3>1, <3>2, Zenon DEF Types
  <2>2. CASE Key[r] # NoKey
    <3>1. Remember(Key[r], g)
      BY <1>2, <2>2, Zenon DEF Deliver
    <3> QED
      BY <1>11, <2>2, <3>1, RememberKeys, Zenon
  <2> QED
    BY <2>1, <2>2, Zenon
<1>13. Types'
  BY <1>1, <1>4, <1>5, <1>9, <1>10, <1>12, Zenon DEF Types, store
<1>14. HeldOK'
  BY <1>1, <1>4, StaysHeld, Zenon DEF Holding, Working
<1>15. LogOK'
  <2>1. \A q \in Requests : pc'[q] \in Before => pc[q] \in Before
    BY <1>4, Zenon DEF Others, Before
  <2>2. \A q \in Requests, i \in 1 .. Len(log) : pc'[q] \in Before => log[i] # q
    BY <2>1, Zenon DEF LogOK
  <2> QED
    BY <1>1, <2>2, Zenon DEF LogOK, store
<1>16. \A q \in Requests : pc'[q] \notin {"append", "deliver"}
  BY <1>1, <1>4, Zenon DEF HeldOK, Others, Working
<1>17. \A i \in 1 .. n + 1 : delivered'[i] < Len(log)
  BY <1>3, <1>5, <1>6, <1>7, Zenon DEF DeliveryOK
<1>18. DeliveryOK'
  <2>1. \A q \in Requests : group'[q] # None <=> pc'[q] = "deliver"
    BY <1>4, <1>9, Zenon DEF DeliveryOK, Others
  <2>2. ASSUME NEW i \in 1 .. Len(delivered') - 1 PROVE delivered'[i] < delivered'[i + 1]
    <3>1. i \in 1 .. n /\ (i = n \/ (i \in 1 .. n - 1 /\ i + 1 \in 1 .. n))
      BY <1>6, <1>7, <2>2, Zenon
    <3>2. CASE i = n
      BY <1>3, <1>5, <1>6, <3>1, <3>2, Zenon
    <3>3. CASE i \in 1 .. n - 1 /\ i + 1 \in 1 .. n
      BY <1>5, <1>6, <3>1, <3>3, Zenon DEF DeliveryOK
    <3> QED
      BY <3>1, <3>2, <3>3, Zenon
  <2> QED
    BY <1>1, <1>6, <1>16, <1>17, <2>1, <2>2, Zenon DEF DeliveryOK, store
<1>19. RepliesOK'
  <2>1. ASSUME NEW k \in DOMAIN replies'
        PROVE  /\ k # NoKey
               /\ replies'[k] \in Nat /\ replies'[k] < Len(log) /\ Key[log[replies'[k] + 1]] = k
               /\ Delivered(replies[k])'
    <3>1. CASE k = Key[r] /\ k # NoKey /\ replies'[k] = g
      BY <1>3, <1>8, <3>1, Zenon DEF Delivered
    <3>2. CASE k # Key[r] /\ k \in DOMAIN replies /\ replies'[k] = replies[k]
      <4>1. /\ k # NoKey /\ Delivered(replies[k])
            /\ replies[k] \in Nat /\ replies[k] < Len(log) /\ Key[log[replies[k] + 1]] = k
        BY <3>2, Zenon DEF RepliesOK
      <4>2. PICK h : h = replies[k] /\ h = replies'[k]
        BY <3>2, Zenon
      <4>3. Delivered(h)'
        BY <1>8, <4>1, <4>2, Zenon
      <4>4. Delivered(replies[k])'
        BY <4>2, <4>3, Zenon DEF Delivered
      <4> QED
        BY <4>1, <4>2, <4>4, Zenon
    <3>3. \/ k = Key[r] /\ k # NoKey /\ replies'[k] = g
          \/ k # Key[r] /\ k \in DOMAIN replies /\ replies'[k] = replies[k]
      BY <1>12, <2>1, Zenon
    <3> QED
      BY <3>1, <3>2, <3>3, Zenon
  <2> QED
    BY <1>1, <1>16, <2>1, Zenon DEF RepliesOK, store
<1>20. AnswersOK'
  <2> SUFFICES ASSUME NEW q \in Requests, answer'[q] # None
               PROVE  /\ answer'[q] < Len(log)
                      /\ log[answer'[q] + 1] = q \/ Same(log[answer'[q] + 1], q)
                      /\ Delivered(answer[q])'
    BY <1>1, Zenon DEF AnswersOK, Same, store
  <2>1. CASE q = r
    BY <1>3, <1>8, <1>10, <2>1, Zenon DEF Delivered
  <2>2. CASE q # r
    BY <1>8, <1>10, <2>2, ZenonT(30) DEF AnswersOK, Delivered
  <2> QED
    BY <2>1, <2>2, Zenon
<1>21. OnceOK'
  <2>1. ASSUME NEW i \in 1 .. Len(log) PROVE Accounted(i)'
    <3>1. Accounted(i)
      BY Zenon DEF OnceOK
    <3>2. log' = log /\ unanswered' = unanswered /\ Len(log) \in Nat
      BY <1>1, SequenceOf, Zenon DEF store, Types
    <3>3. CASE \E q \in Requests : pc[q] = "deliver" /\ group[q] = i - 1
      <4>1. PICK q \in Requests : pc[q] = "deliver" /\ group[q] = i - 1
        BY <3>3, Zenon
      <4>2. q = r
        BY <1>1, <4>1, Zenon DEF HeldOK, Working
      <4>3. g = i - 1
        BY <1>2, <4>1, <4>2, Zenon
      <4>4. g + 1 = i
        BY <1>3, <3>2, <4>3, SMTT(20)
      <4>5. Key[log[i]] = Key[r]
        BY <1>3, <4>4, Zenon
      <4> QED
        BY <1>12, <3>2, <4>3, <4>5, Zenon DEF Accounted
    <3>4. CASE Key[log[i]] \in DOMAIN replies /\ replies[Key[log[i]]] = i - 1
      BY <1>12, <3>2, <3>4, Zenon DEF Accounted
    <3>5. CASE i - 1 \in forgotten \cup unanswered
      BY <1>12, <3>2, <3>5, Zenon DEF Accounted
    <3>6. CASE Key[log[i]] = NoKey
      BY <3>2, <3>6, Zenon DEF Accounted
    <3> QED
      BY <3>1, <3>3, <3>4, <3>5, <3>6, Zenon DEF Accounted
  <2> QED
    BY <1>1, <1>12, <2>1, Zenon DEF OnceOK, Same, store
<1> QED
  BY <1>12, <1>13, <1>14, <1>15, <1>18, <1>19, <1>20, <1>21, Zenon DEF IngestInv

-----------------------------------------------------------------------------
(* The handler without the track. *)

(* What is left when closeIdle forgets the track, or the process dies: the *)
(* log and what was answered, and every reply that is gone is forgotten.   *)
LEMMA EmptiedKeeps ==
  ASSUME IngestInv, UNCHANGED <<store, answer, delivered, unanswered>>,
         open' = FALSE, users' = 0, lock' = None, pos' = 0, stale' = FALSE, announced' = FALSE,
         replies' = NoReplies, keys' = <<>>, forgotten \cup Remembered \subseteq forgotten',
         pc' \in [Requests -> Stages], \A q \in Requests : pc'[q] \notin Holding,
         \A q \in Requests : pc'[q] \in Before => pc[q] \in Before,
         found' \in [Requests -> Nat], \A q \in Requests : found'[q] <= Len(log),
         group' \in [Requests -> Nat \cup {None}], \A q \in Requests : group'[q] = None,
         \A q \in Requests : group[q] # None => group[q] \in forgotten'
  PROVE  IngestInv'
<1> Types /\ HeldOK /\ LogOK /\ DeliveryOK /\ RepliesOK /\ KeysOK /\ AnswersOK /\ OnceOK
  BY DEF IngestInv
<1>1. exists' = exists /\ log' = log
  BY Zenon DEF store
<1>2. DOMAIN replies' = {}
  BY Zenon DEF NoReplies
<1>3. keys' \in Seq(Keys) /\ Len(keys') = 0 /\ 1 .. Len(keys') = {}
  OBVIOUS
<1>4. \A q \in Requests : pc'[q] \notin Working
  BY Zenon DEF Working, Holding
<1>5. 0 \in Nat /\ 0 <= KeyLimit /\ ~(0 > 0) /\ 0 <= Len(log)
  BY SequenceOf, IngestAssumption DEF Types
<1>6. Types'
  BY <1>1, <1>3, <1>5, Zenon DEF Types
<1>7. HeldOK'
  <2>1. Held' = {}
    BY Zenon DEF Held
  <2>2. Cardinality(Held') = 0
    BY <2>1, FS_EmptySet, Zenon
  <2>3. \A q \in Requests : lock' # q
    BY IngestAssumption, Zenon
  <2> QED
    BY <1>4, <1>5, <2>2, <2>3, Zenon DEF HeldOK
<1>8. LogOK'
  BY <1>1, <1>5, ZenonT(30) DEF LogOK
<1>9. DeliveryOK'
  <2>1. \A q \in Requests : pc'[q] # "deliver"
    BY <1>4, Zenon DEF Working
  <2> QED
    BY <1>1, <2>1, Zenon DEF DeliveryOK
<1>10. RepliesOK'
  BY <1>2, Zenon DEF RepliesOK
<1>11. KeysOK'
  <2>1. IsFiniteSet({}) /\ Cardinality({}) = 0
    BY FS_EmptySet, Zenon
  <2> QED
    BY <1>2, <1>3, <1>5, <2>1, Zenon DEF KeysOK
<1>12. AnswersOK'
  BY <1>1, AnswersFrame, Zenon
<1>13. OnceOK'
  <2>1. ASSUME NEW i \in 1 .. Len(log) PROVE Accounted(i)'
    <3>1. Accounted(i)
      BY Zenon DEF OnceOK
    <3>2. Key[log[i]] \in DOMAIN replies /\ replies[Key[log[i]]] = i - 1 => i - 1 \in forgotten'
      BY Zenon DEF Remembered
    <3>3. (\E q \in Requests : pc[q] = "deliver" /\ group[q] = i - 1) => i - 1 \in forgotten'
      BY Zenon DEF DeliveryOK
    <3>4. i - 1 \in forgotten \cup unanswered => i - 1 \in forgotten' \cup unanswered'
      BY Zenon
    <3> QED
      BY <1>1, <3>1, <3>2, <3>3, <3>4, Zenon DEF Accounted
  <2> QED
    BY <1>1, <2>1, Zenon DEF OnceOK, Same
<1> QED
  BY <1>6, <1>7, <1>8, <1>9, <1>10, <1>11, <1>12, <1>13, ZenonT(30) DEF IngestInv

(* closeIdle, for a request that opens the track or a page of history. *)
LEMMA ForgetKeeps ==
  ASSUME IngestInv, IdleTooLong, Forget, UNCHANGED <<store, found, group, answer>>,
         pc' \in [Requests -> Stages],
         \A q \in Requests : pc'[q] = pc[q] \/ (pc[q] = "open" /\ pc'[q] = "read")
  PROVE  IngestInv'
<1> Types /\ HeldOK /\ LogOK /\ DeliveryOK
  BY DEF IngestInv
<1>1. /\ open' = FALSE /\ pos' = 0 /\ stale' = FALSE /\ replies' = NoReplies /\ keys' = <<>>
      /\ announced' = FALSE /\ forgotten \cup Remembered \subseteq forgotten'
      /\ UNCHANGED <<users, lock, delivered, unanswered>> /\ users = 0
  BY Zenon DEF Forget, IdleTooLong
<1>2. lock = None /\ \A q \in Requests : pc[q] \notin Holding /\ pc[q] \notin Working
  BY <1>1, NobodyHolds, Zenon DEF Types
<1>3. \A q \in Requests : pc'[q] \notin Holding /\ (pc'[q] \in Before => pc[q] \in Before)
  BY <1>2, Zenon DEF Holding, Before
<1>4. \A q \in Requests : group[q] = None
  BY <1>2, Zenon DEF DeliveryOK, Working
<1>5. /\ found' \in [Requests -> Nat] /\ group' \in [Requests -> Nat \cup {None}]
      /\ \A q \in Requests : found'[q] <= Len(log) /\ group'[q] = None
  BY <1>4, Zenon DEF Types, LogOK
<1> QED
  BY <1>1, <1>2, <1>3, <1>4, <1>5, EmptiedKeeps, Zenon

(* open does not find the track, or has just closed it. *)
LEMMA OpenMissingKeeps ==
  ASSUME IngestInv, NEW r \in Requests, OpenMissing(r)
  PROVE  IngestInv'
<1> Types /\ HeldOK /\ LogOK /\ AnswersOK
  BY DEF IngestInv
<1>1. pc[r] = "open" /\ GoTo(r, "read") /\ UNCHANGED <<store, found, group, answer>>
  BY Zenon DEF OpenMissing
<1>2. pc' \in [Requests -> Stages] /\ pc'[r] = "read" /\ Others(r)
  BY <1>1, GoToFacts, Zenon DEF Stages
<1>3. CASE IdleTooLong /\ Forget
  <2>1. \A q \in Requests : pc'[q] = pc[q] \/ (pc[q] = "open" /\ pc'[q] = "read")
    BY <1>1, <1>2, Zenon DEF Others
  <2> QED
    BY <1>1, <1>2, <1>3, <2>1, ForgetKeeps, Zenon
<1>4. CASE UNCHANGED <<track, history>>
  <2>1. Types'
    BY <1>1, <1>2, <1>4, Zenon DEF Types, store, track, history
  <2>2. HeldOK'
    BY <1>1, <1>2, <1>4, StaysHeld, Zenon DEF Holding, Working, track, history
  <2>3. AnswersOK'
    BY <1>1, <1>4, AnswersFrame, Zenon DEF store, history
  <2> QED
    BY <1>1, <1>2, <1>4, <2>1, <2>2, <2>3, QuietKeeps, Zenon DEF Before, LogOK, store, track, history
<1> QED
  BY <1>3, <1>4, Zenon DEF OpenMissing

(* A page of history lets go of an idle track. *)
LEMMA ServeHistoryKeeps ==
  ASSUME IngestInv, ServeHistory
  PROVE  IngestInv'
<1> Types
  BY DEF IngestInv
<1>1. IdleTooLong /\ Forget /\ UNCHANGED <<store, found, group, answer>> /\ pc' = pc
  BY Zenon DEF ServeHistory, requests
<1>2. pc' \in [Requests -> Stages]
  BY <1>1, Zenon DEF Types
<1> QED
  BY <1>1, <1>2, ForgetKeeps, Zenon

(* The process dies with requests anywhere. *)
LEMMA CrashKeeps ==
  ASSUME IngestInv, Crash
  PROVE  IngestInv'
<1> Types /\ LogOK
  BY DEF IngestInv
<1>1. /\ open' = FALSE /\ users' = 0 /\ lock' = None /\ pos' = 0 /\ stale' = FALSE
      /\ replies' = NoReplies /\ keys' = <<>> /\ announced' = FALSE
      /\ UNCHANGED <<store, answer, delivered, unanswered>>
  BY Zenon DEF Crash
<1>2. pc' = [q \in Requests |-> IF pc[q] = "new" THEN "new" ELSE "done"]
  BY Zenon DEF Crash
<1>3. /\ pc' \in [Requests -> Stages]
      /\ \A q \in Requests : pc'[q] \notin Holding /\ (pc'[q] \in Before => pc[q] \in Before)
  BY <1>2 DEF Stages, Holding, Before
<1>4. 0 \in Nat /\ 0 <= Len(log)
  BY SequenceOf DEF Types
<1>5. /\ found' \in [Requests -> Nat] /\ group' \in [Requests -> Nat \cup {None}]
      /\ \A q \in Requests : found'[q] <= Len(log) /\ group'[q] = None
  BY <1>4, Zenon DEF Crash
<1>6. /\ forgotten \cup Remembered \subseteq forgotten'
      /\ \A q \in Requests : group[q] # None => group[q] \in forgotten'
  BY Zenon DEF Crash
<1> QED
  BY <1>1, <1>3, <1>5, <1>6, EmptiedKeeps, Zenon

-----------------------------------------------------------------------------
(* Every step. *)

(* The handler starts with nothing. *)
LEMMA IngestInvInit ==
  ASSUME Init
  PROVE  IngestInv
<1>1. /\ exists = FALSE /\ open = FALSE /\ stale = FALSE /\ announced = FALSE
      /\ users = 0 /\ lock = None /\ pos = 0 /\ log = <<>> /\ keys = <<>> /\ delivered = <<>>
      /\ pc = [r \in Requests |-> "new"] /\ found = [r \in Requests |-> 0]
      /\ group = [r \in Requests |-> None] /\ answer = [r \in Requests |-> None]
      /\ DOMAIN replies = {}
  BY Zenon DEF Init, NoReplies
<1>2. /\ log \in Seq(Requests) /\ keys \in Seq(Keys) /\ delivered \in Seq(Nat)
      /\ Len(log) = 0 /\ Len(keys) = 0 /\ Len(delivered) = 0
      /\ 1 .. 0 = {} /\ 1 .. 0 - 1 = {}
  BY <1>1
<1>3. 0 \in Nat /\ 0 <= 0 /\ ~(0 > 0) /\ 0 <= KeyLimit
  BY IngestAssumption
<1>4. Types
  BY <1>1, <1>2, <1>3, Zenon DEF Types, Stages
<1>5. \A r \in Requests : pc[r] = "new" /\ found[r] = 0 /\ group[r] = None /\ answer[r] = None
  BY <1>1, Zenon
<1>6. IsFiniteSet({}) /\ Cardinality({}) = 0
  BY FS_EmptySet, Zenon
<1>7. HeldOK
  <2>1. Held = {}
    BY <1>5 DEF Held, Holding
  <2>2. \A r \in Requests : lock # r
    BY <1>1, IngestAssumption, Zenon
  <2> QED
    BY <1>1, <1>3, <1>5, <1>6, <2>1, <2>2, Zenon DEF HeldOK, Working
<1>8. LogOK
  BY <1>1, <1>2, <1>3, <1>5, Zenon DEF LogOK
<1>9. DeliveryOK
  BY <1>2, <1>5, Zenon DEF DeliveryOK
<1>10. RepliesOK
  BY <1>1, Zenon DEF RepliesOK
<1>11. KeysOK
  BY <1>1, <1>2, <1>3, <1>6, Zenon DEF KeysOK
<1>12. AnswersOK
  BY <1>5, Zenon DEF AnswersOK
<1>13. OnceOK
  BY <1>2, Zenon DEF OnceOK
<1> QED
  BY <1>4, <1>7, <1>8, <1>9, <1>10, <1>11, <1>12, <1>13, ZenonT(30) DEF IngestInv

(* A step of something else. *)
LEMMA IngestInvStutter ==
  ASSUME IngestInv, UNCHANGED vars
  PROVE  IngestInv'
<1> Types /\ HeldOK /\ LogOK /\ DeliveryOK /\ RepliesOK /\ KeysOK /\ AnswersOK /\ OnceOK
  BY DEF IngestInv
<1>1. UNCHANGED store /\ UNCHANGED track /\ UNCHANGED requests /\ UNCHANGED history
  BY Zenon DEF vars
<1>2. /\ exists' = exists /\ log' = log /\ open' = open /\ users' = users /\ lock' = lock
      /\ pos' = pos /\ stale' = stale /\ replies' = replies /\ keys' = keys
  BY <1>1, Zenon DEF store, track
<1>3. /\ pc' = pc /\ found' = found /\ group' = group /\ answer' = answer
      /\ announced' = announced /\ delivered' = delivered
      /\ forgotten' = forgotten /\ unanswered' = unanswered
  BY <1>1, Zenon DEF requests, history
<1>4. Types'
  BY <1>2, <1>3, Zenon DEF Types
<1>5. HeldOK'
  BY <1>2, <1>3, Zenon DEF HeldOK, Held
<1>6. LogOK' /\ KeysOK'
  BY <1>2, <1>3, Zenon DEF LogOK, KeysOK
<1>7. DeliveryOK'
  BY <1>2, <1>3, Zenon DEF DeliveryOK
<1>8. RepliesOK'
  BY <1>2, <1>3, Zenon DEF RepliesOK, Delivered
<1>10. AnswersOK'
  BY <1>2, <1>3, AnswersFrame, Zenon
<1>9. OnceOK'
  BY <1>2, <1>3, Zenon DEF OnceOK, Accounted, Same
<1> QED
  BY <1>4, <1>5, <1>6, <1>7, <1>8, <1>9, <1>10, Zenon DEF IngestInv

(* Every step keeps the invariant. *)
LEMMA IngestInvStep ==
  ASSUME IngestInv, [Next]_vars
  PROVE  IngestInv'
<1>1. ASSUME NEW r \in Requests, Serve(r) PROVE IngestInv'
  <2>1. CASE Arrive(r) \/ OpenFound(r) \/ OpenMissing(r) \/ OpenReads(r) \/ Install(r)
    BY <2>1, ArriveKeeps, OpenFoundKeeps, OpenMissingKeeps, OpenReadsKeeps, InstallKeeps, Zenon
  <2>2. CASE Announce(r) \/ ReadBody(r) \/ Lock(r) \/ Deliver(r) \/ Release(r)
    BY <2>2, AnnounceKeeps, ReadBodyKeeps, LockKeeps, DeliverKeeps, ReleaseKeeps, Zenon
  <2>3. CASE \/ Reload(r) \/ AppendCollides(r) \/ AppendCommits(r)
             \/ AppendFails(r) \/ AppendUnknown(r)
    BY <2>3, AppendQuietKeeps, CommitKeeps, Zenon
  <2> QED
    BY <1>1, <2>1, <2>2, <2>3, Zenon DEF Serve
<1>2. CASE UNCHANGED vars
  BY <1>2, IngestInvStutter, Zenon
<1> QED
  BY <1>1, <1>2, ServeHistoryKeeps, CrashKeeps, Zenon DEF Next

-----------------------------------------------------------------------------
(* What the runs check. *)

(* The handler's table, its writer, the requests and the log agree after   *)
(* every step, crashes and failed requests included.                       *)
THEOREM IngestInvariant == Spec => []IngestInv
<1>1. IngestInv /\ [Next]_vars => IngestInv'
  BY IngestInvStep, Zenon
<1>2. Init => IngestInv
  BY IngestInvInit, Zenon
<1> QED
  BY <1>1, <1>2, PTL DEF Spec

(* The log holds no more records than there were requests. *)
LEMMA LogBounded ==
  ASSUME Types, LogOK
  PROVE  Len(log) \in Nat /\ Len(log) <= Cardinality(Requests) /\ Cardinality(Requests) \in Nat
<1>1. Len(log) \in Nat /\ log \in [1 .. Len(log) -> Requests]
  BY SequenceOf, Zenon DEF Types
<1>2. IsFiniteSet(Requests) /\ Cardinality(Requests) \in Nat
  BY IngestAssumption, FS_CardinalityType, Zenon
<1>3. PICK n \in Nat : n = Len(log)
  BY <1>1, Zenon
<1>4. IsFiniteSet(1 .. n) /\ Cardinality(1 .. n) = n
  <2>1. 1 \in Int /\ n \in Int
    OBVIOUS
  <2>2. IsFiniteSet(1 .. n) /\ Cardinality(1 .. n) = IF 1 > n THEN 0 ELSE n - 1 + 1
    BY <2>1, FS_Interval, Zenon
  <2>3. \A c : c = (IF 1 > n THEN 0 ELSE n - 1 + 1) => c = n
    OBVIOUS
  <2> QED
    BY <2>2, <2>3, Zenon
<1>5. ~(Cardinality(Requests) < Cardinality(1 .. n))
  <2> SUFFICES ASSUME Cardinality(Requests) < Cardinality(1 .. n) PROVE FALSE
    OBVIOUS
  <2>1. PICK S, T : S = 1 .. n /\ T = Requests
    OBVIOUS
  <2>2. /\ IsFiniteSet(S) /\ IsFiniteSet(T) /\ Cardinality(T) < Cardinality(S)
        /\ log \in [S -> T]
    BY <1>1, <1>2, <1>3, <1>4, <2>1, Zenon
  <2>3. \E i, j \in S : i # j /\ log[i] = log[j]
    BY <2>2, FS_PigeonHole
  <2> QED
    BY <1>3, <2>1, <2>3, Zenon DEF LogOK
<1>6. ~(Cardinality(Requests) < n)
  BY <1>4, <1>5, Zenon
<1> QED
  BY <1>1, <1>2, <1>3, <1>6

(* The variables of the handler stay in their types, users within the      *)
(* number of requests and the writer's position within the log.            *)
THEOREM TypesKept == Spec => []TypeOK
<1>1. ASSUME IngestInv PROVE TypeOK
  <2> Types /\ HeldOK /\ LogOK
    BY <1>1 DEF IngestInv
  <2>1. users <= Cardinality(Requests)
    <3>1. Held \in SUBSET Requests
      BY DEF Held
    <3> QED
      BY <3>1, FS_Subset, IngestAssumption, Zenon DEF HeldOK
  <2>2. Len(log) \in Nat /\ Len(log) <= Cardinality(Requests) /\ Cardinality(Requests) \in Nat
    BY LogBounded, Zenon
  <2>3. users \in Nat /\ pos \in Nat /\ pos <= Len(log)
    BY Zenon DEF Types, LogOK
  <2>4. users \in 0 .. Cardinality(Requests) /\ pos \in 0 .. Cardinality(Requests)
    BY <2>1, <2>2, <2>3
  <2>5. \A r \in Requests : {group[r], answer[r]} \subseteq Nat \cup {None}
    BY Zenon DEF Types
  <2> QED
    BY <2>4, <2>5, Zenon DEF Types, TypeOK, Stages
<1> QED
  BY <1>1, IngestInvariant, PTL

(* closeIdle never forgets a track that a request holds: users counts the  *)
(* requests between open and release, and the one that has track.mu is     *)
(* working on the track.                                                   *)
THEOREM NeverClosedUnder == Spec => []HeldStaysOpen
<1>1. ASSUME IngestInv PROVE HeldStaysOpen
  <2> Types /\ HeldOK
    BY <1>1 DEF IngestInv
  <2>1. lock # None => pc[lock] \in {"announce", "append", "deliver"}
    BY Zenon DEF Types, HeldOK, Working
  <2> QED
    BY <2>1, Zenon DEF HeldOK, Held, HeldStaysOpen
<1> QED
  BY <1>1, IngestInvariant, PTL

(* OnRecord is called with ever later records, each once, and only after   *)
(* OnOpen has returned.                                                    *)
THEOREM OnRecordInOrder == Spec => []DeliveredInOrder
<1>1. ASSUME IngestInv PROVE DeliveredInOrder
  <2> HeldOK /\ DeliveryOK /\ Types
    BY <1>1 DEF IngestInv
  <2>1. ASSUME NEW r \in Requests, pc[r] \in {"append", "deliver"} PROVE announced
    <3>1. r \in Held /\ pc[r] # "announce" /\ pc[r] \in Working
      BY <2>1, Zenon DEF Held, Holding, Working
    <3>2. users # 0
      BY <3>1, NobodyHolds, Zenon
    <3>3. users > 0
      BY <3>2 DEF Types
    <3>4. \A q \in Requests : pc[q] = "announce" => q = r
      BY <3>1, Zenon DEF HeldOK, Working
    <3> QED
      BY <3>1, <3>3, <3>4, Zenon DEF HeldOK
  <2> QED
    BY <2>1, Zenon DEF DeliveredInOrder, DeliveryOK
<1> QED
  BY <1>1, IngestInvariant, PTL

(* A request answered 201 has its record, or the one its key was first     *)
(* used for, in the log under the group of the answer, after OnRecord.     *)
THEOREM AnsweredAlwaysStored == Spec => []AnsweredStored
<1>1. ASSUME IngestInv PROVE AnsweredStored
  <2> AnswersOK /\ Types
    BY <1>1 DEF IngestInv
  <2>1. DOMAIN delivered = 1 .. Len(delivered)
    BY SequenceOf, Zenon DEF Types
  <2> QED
    BY <2>1, Zenon DEF AnswersOK, AnsweredStored, Delivered
<1> QED
  BY <1>1, IngestInvariant, PTL

(* remember keeps at most KeyLimit keys, each once and with the reply to a *)
(* record sent under it.                                                   *)
THEOREM KeysAlwaysRemembered == Spec => []KeysRemembered
<1>1. ASSUME IngestInv PROVE KeysRemembered
  <2> KeysOK /\ RepliesOK /\ Types
    BY <1>1 DEF IngestInv
  <2>1. DOMAIN keys = 1 .. Len(keys)
    BY SequenceOf, Zenon DEF Types
  <2> QED
    BY <2>1, Zenon DEF KeysOK, RepliesOK, KeysRemembered
<1> QED
  BY <1>1, IngestInvariant, PTL

(* A key stores a second record only after its reply was forgotten or its  *)
(* first commit went unnoticed.                                            *)
THEOREM KeyStoredOnce == Spec => []StoredOnceKnown
<1>1. ASSUME IngestInv PROVE StoredOnceKnown
  <2> OnceOK /\ Types
    BY <1>1 DEF IngestInv
  <2>1. DOMAIN log = 1 .. Len(log)
    BY SequenceOf, Zenon DEF Types
  <2> QED
    BY <2>1, Zenon DEF OnceOK, StoredOnceKnown
<1> QED
  BY <1>1, IngestInvariant, PTL

===============================================================================
