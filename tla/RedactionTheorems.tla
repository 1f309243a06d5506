--------------------------- MODULE RedactionTheorems --------------------------
(* Proofs about redactions, for any number of DELETE requests and of rows, *)
(* with direct calls of Track.Redact and failing stores.                   *)
EXTENDS Redaction, TLAPS, FiniteSetTheorems

Working == {"check", "read", "commit", "mark", "delete"}
Stages == Working \cup {"new", "lock", "done"}
Row == [seq : SequenceNumbers, redacts : Nat]

Types ==
    /\ rows \in Seq(Row) /\ Len(rows) <= MaxRows
    /\ payload \in [SequenceNumbers -> Nat \cup {None}]
    /\ lock \in Requests \cup {None}
    /\ pc \in [Requests -> Stages]
    /\ target \in [Requests -> Nat]
    /\ failed \subseteq Requests /\ IsFiniteSet(failed)

(* The groups are numbered without a gap, so the next number is free. *)
Numbered == \E n \in 1 .. Len(rows) : Groups = 1 .. n

(* One request at a time works on the track; a request that looked its     *)
(* group up keeps it, and one that failed is over.                         *)
LockOK ==
    /\ \A r \in Requests : pc[r] \in Working <=> lock = r
    /\ \A r \in Requests : pc[r] = "new" \/ target[r] \in Groups
    /\ \A r \in failed : pc[r] = "done"

(* What has no payload, or may lose it, is marked. *)
MarkOK ==
    /\ \A s \in Groups : payload[s] = None => s \in marked
    /\ \A r \in Requests : pc[r] = "delete" => target[r] \in marked
    /\ direct # None => direct \in marked /\ direct \in Groups
    /\ reading # None => reading \in marked
    /\ result # "lost"

(* A group that is not marked has the payload of its rows; a redaction     *)
(* that is about to be committed is of a record.                           *)
RowsOK ==
    /\ \A i \in 1 .. Len(rows) : rows[i].redacts = 0 \/ rows[i].redacts \in Groups
    /\ \A i \in 1 .. Len(rows) :
        rows[i].seq \in marked \/ payload[rows[i].seq] = rows[i].redacts
    /\ \A i, j \in 1 .. Len(rows) : rows[i].redacts = rows[j].seq => rows[j].redacts = 0
    /\ \A r \in Requests, i \in 1 .. Len(rows) : rows[i].seq = target[r] =>
        /\ pc[r] = "read" => payload[target[r]] \in {None, rows[i].redacts}
        /\ pc[r] = "commit" => rows[i].redacts = 0

Twice(s) == \E i, j \in 1 .. Len(rows) : i # j /\ rows[i].seq = s /\ rows[j].seq = s

(* A redacted group has no payload, until its sequence is given again. *)
GoneOK ==
    /\ \A s \in redacted : s \in Groups /\ (payload[s] = None \/ Twice(s))
    /\ after => result # "payload"

Times(s) == {i \in 1 .. Len(rows) : rows[i].redacts = s}
Failures(s) == {r \in failed : target[r] = s}
Few(s) == Cardinality(Times(s)) <= Cardinality(Failures(s))

(* Every redaction of a group that is committed is marked, being marked,   *)
(* or was made by a request that failed.                                   *)
OnceOK ==
    /\ \A s \in SequenceNumbers :
        Cardinality(Times(s)) <= 1 + Cardinality(Failures(s))
    /\ \A s \in SequenceNumbers :
        Few(s) \/ s \in marked \/ \E r \in Requests : pc[r] = "mark" /\ target[r] = s
    /\ \A r \in Requests : pc[r] \in {"read", "commit"} => Few(target[r])

RedactionInv == Types /\ Numbered /\ LockOK /\ MarkOK /\ RowsOK /\ GoneOK /\ OnceOK

(* A step of r leaves the other requests where they are. *)
Others(r) == \A q \in Requests \ {r} : pc'[q] = pc[q]

-----------------------------------------------------------------------------
(* The rows. *)

(* What the rows are, and the groups they name. *)
LEMMA RowFacts ==
  ASSUME Types
  PROVE  /\ Len(rows) \in Nat /\ DOMAIN rows = 1 .. Len(rows)
         /\ \A i \in 1 .. Len(rows) :
                /\ rows[i].seq \in SequenceNumbers /\ rows[i].redacts \in Nat
                /\ rows[i].seq \in Groups
         /\ \A s \in Groups : \E i \in 1 .. Len(rows) : rows[i].seq = s
         /\ Groups \subseteq SequenceNumbers
<1>1. rows \in Seq(Row)
  BY DEF Types
<1>2. Len(rows) \in Nat /\ DOMAIN rows = 1 .. Len(rows) /\ \A i \in 1 .. Len(rows) : rows[i] \in Row
  BY <1>1
<1>3. \A i \in 1 .. Len(rows) : rows[i].seq \in SequenceNumbers /\ rows[i].redacts \in Nat
  BY <1>2 DEF Row
<1>4. /\ \A i \in 1 .. Len(rows) : rows[i].seq \in Groups
      /\ \A s \in Groups : \E i \in 1 .. Len(rows) : rows[i].seq = s
  BY <1>2, Zenon DEF Groups
<1> QED
  BY <1>2, <1>3, <1>4, Zenon

(* Sequence numbers. *)
LEMMA NumberFacts ==
  /\ SequenceNumbers \subseteq Nat /\ 0 \notin SequenceNumbers /\ None \notin SequenceNumbers
  /\ \A n \in Nat : n # None
  BY RedactionAssumption DEF SequenceNumbers

(* The next sequence is one no group has. *)
LEMMA NextFree ==
  ASSUME Types, Numbered, Len(rows) < MaxRows
  PROVE  /\ Cardinality(Groups) + 1 \in SequenceNumbers
         /\ Cardinality(Groups) + 1 \notin Groups
         /\ \E n \in 1 .. Len(rows) + 1 : Groups \cup {Cardinality(Groups) + 1} = 1 .. n
<1>1. PICK n \in 1 .. Len(rows) : Groups = 1 .. n
  BY Zenon DEF Numbered
<1>2. Len(rows) \in Nat /\ MaxRows \in Nat
  BY RowFacts, RedactionAssumption
<1>3. n \in Nat /\ 1 \in Int /\ n \in Int /\ ~(1 > n) /\ n - 1 + 1 = n
  BY <1>2
<1>4. Cardinality(1 .. n) = IF 1 > n THEN 0 ELSE n - 1 + 1
  BY <1>3, FS_Interval, Zenon
<1>5. Cardinality(Groups) = n
  BY <1>1, <1>3, <1>4, Zenon
<1>6. /\ n + 1 \in 1 .. MaxRows /\ n + 1 \notin 1 .. n /\ n + 1 \in 1 .. Len(rows) + 1
      /\ (1 .. n) \cup {n + 1} = 1 .. n + 1
  BY <1>2, <1>3
<1> QED
  BY <1>1, <1>5, <1>6, Zenon DEF SequenceNumbers

(* A row more: the groups, the payloads and the redactions of a group.     *)
LEMMA StoreFacts ==
  ASSUME Types, Len(rows) < MaxRows, NEW s \in SequenceNumbers, NEW what \in Nat, Store(s, what)
  PROVE  /\ rows' \in Seq(Row) /\ Len(rows') <= MaxRows /\ Len(rows) + 1 \in 1 .. Len(rows')
         /\ Len(rows') = Len(rows) + 1
         /\ \A i \in 1 .. Len(rows) : rows'[i] = rows[i] /\ i \in 1 .. Len(rows') /\ i # Len(rows) + 1
         /\ rows'[Len(rows) + 1].seq = s /\ rows'[Len(rows) + 1].redacts = what
         /\ \A i \in 1 .. Len(rows') : i \in 1 .. Len(rows) \/ i = Len(rows) + 1
         /\ payload' \in [SequenceNumbers -> Nat \cup {None}] /\ payload'[s] = what
         /\ \A t \in SequenceNumbers \ {s} : payload'[t] = payload[t]
<1>1. /\ rows \in Seq(Row) /\ rows' = Append(rows, [seq |-> s, redacts |-> what])
      /\ payload' = [payload EXCEPT ![s] = what]
  BY Zenon DEF Types, Store
<1>2. [seq |-> s, redacts |-> what] \in Row
  BY DEF Row
<1>3. PICK row \in Row : row = [seq |-> s, redacts |-> what] /\ row.seq = s /\ row.redacts = what
  BY <1>2
<1>4. /\ rows' \in Seq(Row) /\ Len(rows') = Len(rows) + 1 /\ Len(rows) \in Nat
      /\ \A i \in 1 .. Len(rows) : rows'[i] = rows[i]
      /\ rows'[Len(rows) + 1] = row
  <2>1. rows' = Append(rows, row)
    BY <1>1, <1>3, Zenon
  <2> QED
    BY <1>1, <2>1
<1>5. PICK n \in Nat : n = Len(rows) /\ Len(rows') = n + 1
  BY <1>4, Zenon
<1>6. /\ n + 1 <= MaxRows /\ n + 1 \in 1 .. n + 1
      /\ \A i \in 1 .. n : i \in 1 .. n + 1 /\ i # n + 1
      /\ \A i \in 1 .. n + 1 : i \in 1 .. n \/ i = n + 1
  BY <1>5, RedactionAssumption
<1>7. /\ payload' \in [SequenceNumbers -> Nat \cup {None}] /\ payload'[s] = what
      /\ \A t \in SequenceNumbers \ {s} : payload'[t] = payload[t]
  BY <1>1 DEF Types
<1> QED
  BY <1>3, <1>4, <1>5, <1>6, <1>7, Zenon

(* The groups and the redactions of a group, after it. *)
LEMMA StoredGroups ==
  ASSUME Types, Len(rows) < MaxRows, NEW s \in SequenceNumbers, NEW what \in Nat, Store(s, what)
  PROVE  /\ Groups' = Groups \cup {s}
         /\ \A t : Twice(t) => Twice(t)'
         /\ s \in Groups => Twice(s)'
         /\ \A t : t # what => Times(t)' = Times(t)
         /\ Times(what)' = Times(what) \cup {Len(rows) + 1} /\ Len(rows) + 1 \notin Times(what)
<1>1. /\ Len(rows') = Len(rows) + 1 /\ Len(rows) + 1 \in 1 .. Len(rows')
      /\ \A i \in 1 .. Len(rows) : rows'[i] = rows[i] /\ i \in 1 .. Len(rows') /\ i # Len(rows) + 1
      /\ rows'[Len(rows) + 1].seq = s /\ rows'[Len(rows) + 1].redacts = what
      /\ \A i \in 1 .. Len(rows') : i \in 1 .. Len(rows) \/ i = Len(rows) + 1
      /\ rows' \in Seq(Row)
  BY StoreFacts, Zenon
<1>2. DOMAIN rows = 1 .. Len(rows) /\ DOMAIN rows' = 1 .. Len(rows')
  BY <1>1 DEF Types
<1>3. PICK m : m = Len(rows) + 1
  OBVIOUS
<1>4. Groups' = Groups \cup {s}
  <2>1. ASSUME NEW t \in Groups' PROVE t \in Groups \cup {s}
    <3>1. PICK i \in 1 .. Len(rows') : rows'[i].seq = t
      BY <1>2, <2>1, Zenon DEF Groups
    <3> QED
      BY <1>1, <1>2, <3>1, Zenon DEF Groups
  <2>2. ASSUME NEW t \in Groups PROVE t \in Groups'
    <3>1. PICK i \in 1 .. Len(rows) : rows[i].seq = t
      BY <1>2, <2>2, Zenon DEF Groups
    <3>2. i \in 1 .. Len(rows') /\ rows'[i].seq = t
      BY <1>1, <3>1, Zenon
    <3> QED
      BY <1>2, <3>2, Zenon DEF Groups
  <2>3. s \in Groups'
    BY <1>1, <1>2, Zenon DEF Groups
  <2> QED
    BY <2>1, <2>2, <2>3, Zenon
<1>5. ASSUME NEW t, Twice(t) PROVE Twice(t)'
  <2>1. PICK i, j \in 1 .. Len(rows) : i # j /\ rows[i].seq = t /\ rows[j].seq = t
    BY <1>5, Zenon DEF Twice
  <2>2. /\ i \in 1 .. Len(rows') /\ rows'[i].seq = t
        /\ j \in 1 .. Len(rows') /\ rows'[j].seq = t
    BY <1>1, <2>1, Zenon
  <2> QED
    BY <2>1, <2>2, Zenon DEF Twice
<1>6. ASSUME s \in Groups PROVE Twice(s)'
  <2>1. PICK i \in 1 .. Len(rows) : rows[i].seq = s
    BY <1>6, RowFacts, Zenon
  <2>2. i \in 1 .. Len(rows') /\ rows'[i].seq = s /\ i # m /\ m \in 1 .. Len(rows') /\ rows'[m].seq = s
    BY <1>1, <1>3, <2>1, Zenon
  <2> QED
    BY <2>2, Zenon DEF Twice
<1>7. ASSUME NEW t, NEW i
      PROVE  i \in Times(t)' <=> i \in Times(t) \/ (i = m /\ t = what)
  <2>1. CASE i \in 1 .. Len(rows)
    BY <1>1, <1>3, <2>1, Zenon DEF Times
  <2>2. CASE i = m
    BY <1>1, <1>3, <2>2, Zenon DEF Times
  <2>3. CASE i \notin 1 .. Len(rows) /\ i # m
    BY <1>1, <1>3, <2>3, Zenon DEF Times
  <2> QED
    BY <2>1, <2>2, <2>3, Zenon
<1>8. m \notin Times(what)
  BY <1>1, <1>3, Zenon DEF Times
<1>9. ASSUME NEW t, t # what PROVE Times(t)' = Times(t)
  <2>1. \A i : i \in Times(t)' <=> i \in Times(t)
    BY <1>7, <1>9, Zenon
  <2> QED
    BY <2>1, Zenon
<1>10. Times(what)' = Times(what) \cup {m}
  BY <1>7, Zenon
<1> QED
  BY <1>3, <1>4, <1>5, <1>6, <1>8, <1>9, <1>10, Zenon

(* The rows that redact a group, and the failures, are finitely many. *)
LEMMA CountFacts ==
  ASSUME Types, NEW s
  PROVE  /\ IsFiniteSet(Times(s)) /\ Cardinality(Times(s)) \in Nat
         /\ IsFiniteSet(Failures(s)) /\ Cardinality(Failures(s)) \in Nat
<1>1. Times(s) \in SUBSET (1 .. Len(rows)) /\ Failures(s) \in SUBSET failed
  BY DEF Times, Failures
<1>2. 1 \in Int /\ Len(rows) \in Int
  BY RowFacts
<1>3. IsFiniteSet(1 .. Len(rows)) /\ IsFiniteSet(failed)
  BY <1>2, FS_Interval, Zenon DEF Types
<1>4. IsFiniteSet(Times(s)) /\ IsFiniteSet(Failures(s))
  BY <1>1, <1>3, FS_Subset, Zenon
<1> QED
  BY <1>4, FS_CardinalityType, Zenon

-----------------------------------------------------------------------------
(* Steps that commit no row. *)

(* What such a step may do: payloads go when they are marked; a request    *)
(* reads a record that is not marked, and redacts one it has read; it      *)
(* leaves the marker to come for a marker or a failure.                    *)
Quiet ==
    /\ rows' = rows /\ marked \subseteq marked'
    /\ \A s \in SequenceNumbers : payload'[s] = payload[s] \/ (payload'[s] = None /\ s \in marked')
    /\ \A r \in Requests : pc[r] # "new" => target'[r] = target[r]
    /\ \A r \in Requests : pc'[r] = "read" =>
        pc[r] = "read" \/ (pc[r] = "check" /\ target[r] \notin marked)
    /\ \A r \in Requests : pc'[r] = "commit" =>
        pc[r] = "commit" \/ (pc[r] = "read" /\ payload[target[r]] = 0)
    /\ \A r \in Requests : pc[r] = "mark" =>
        pc'[r] = "mark" \/ target[r] \in marked' \/ r \in failed'
    /\ \/ failed' = failed
       \/ \E r \in Requests : pc[r] \in Working /\ failed' = failed \cup {r}

(* The groups and the counts of rows stay. *)
LEMMA SameRows ==
  ASSUME rows' = rows
  PROVE  /\ Groups' = Groups /\ (Numbered => Numbered')
         /\ \A s : Times(s)' = Times(s) /\ (Twice(s) => Twice(s)') /\ Rows(s)' = Rows(s)
  BY Zenon DEF Groups, Numbered, Times, Twice, Rows

(* A redaction about to be committed is still of a record. *)
LEMMA QuietRows ==
  ASSUME Types, LockOK, RowsOK, Quiet
  PROVE  RowsOK'
<1>1. rows' = rows /\ Groups' = Groups /\ marked \subseteq marked'
  BY SameRows, Zenon DEF Quiet
<1>2. ASSUME NEW i \in 1 .. Len(rows)
      PROVE  rows[i].seq \in marked' \/ payload'[rows[i].seq] = rows[i].redacts
  <2>1. rows[i].seq \in SequenceNumbers
    BY RowFacts, Zenon
  <2>2. rows[i].seq \in marked \/ payload[rows[i].seq] = rows[i].redacts
    BY Zenon DEF RowsOK
  <2>3. \/ payload'[rows[i].seq] = payload[rows[i].seq]
        \/ rows[i].seq \in marked'
    BY <2>1, Zenon DEF Quiet
  <2> QED
    BY <1>1, <2>2, <2>3, Zenon
<1>3. ASSUME NEW r \in Requests, NEW i \in 1 .. Len(rows), rows[i].seq = target'[r], pc'[r] = "read"
      PROVE  payload'[target'[r]] \in {None, rows[i].redacts}
  <2>1. pc[r] = "read" \/ (pc[r] = "check" /\ target[r] \notin marked)
    BY <1>3, Zenon DEF Quiet
  <2>2. target'[r] = target[r] /\ target[r] = rows[i].seq
    BY <1>3, <2>1, Zenon DEF Quiet
  <2>3. payload[target[r]] \in {None, rows[i].redacts}
    BY <2>1, <2>2, Zenon DEF RowsOK
  <2>4. target[r] \in SequenceNumbers
    BY <2>2, RowFacts, Zenon
  <2>5. payload'[target[r]] = payload[target[r]] \/ payload'[target[r]] = None
    BY <2>4, Zenon DEF Quiet
  <2> QED
    BY <2>2, <2>3, <2>5, Zenon
<1>4. ASSUME NEW r \in Requests, NEW i \in 1 .. Len(rows), rows[i].seq = target'[r], pc'[r] = "commit"
      PROVE  rows[i].redacts = 0
  <2>1. pc[r] = "commit" \/ (pc[r] = "read" /\ payload[target[r]] = 0)
    BY <1>4, Zenon DEF Quiet
  <2>2. target[r] = rows[i].seq
    BY <1>4, <2>1, Zenon DEF Quiet
  <2>3. CASE pc[r] = "commit"
    BY <2>2, <2>3, Zenon DEF RowsOK
  <2>4. CASE pc[r] = "read" /\ payload[target[r]] = 0
    <3>1. payload[target[r]] \in {None, rows[i].redacts}
      BY <2>2, <2>4, Zenon DEF RowsOK
    <3>2. None # 0
      BY NumberFacts, Zenon
    <3> QED
      BY <2>4, <3>1, <3>2, Zenon
  <2> QED
    BY <2>1, <2>3, <2>4, Zenon
<1>5. /\ \A i \in 1 .. Len(rows) : rows[i].redacts = 0 \/ rows[i].redacts \in Groups
      /\ \A i, j \in 1 .. Len(rows) : rows[i].redacts = rows[j].seq => rows[j].redacts = 0
  BY Zenon DEF RowsOK
<1> QED
  BY <1>1, <1>2, <1>3, <1>4, <1>5, Zenon DEF RowsOK

(* The failures of a group grow by the request that failed. *)
LEMMA QuietFailures ==
  ASSUME Types, LockOK, Quiet, NEW s
  PROVE  /\ Cardinality(Failures(s)) <= Cardinality(Failures(s)')
         /\ \A r \in Requests : r \in failed' \ failed /\ target[r] = s =>
                Cardinality(Failures(s)') = Cardinality(Failures(s)) + 1
<1>1. IsFiniteSet(Failures(s)) /\ Cardinality(Failures(s)) \in Nat
  BY CountFacts, Zenon
<1>2. \A q \in failed : q \in Requests /\ target'[q] = target[q]
  BY Zenon DEF LockOK, Types, Quiet
<1>3. CASE failed' = failed
  <2>1. Failures(s)' = Failures(s)
    BY <1>2, <1>3, Zenon DEF Failures
  <2> QED
    BY <1>1, <1>3, <2>1
<1>4. ASSUME NEW r \in Requests, pc[r] \in Working, failed' = failed \cup {r}
      PROVE  /\ Cardinality(Failures(s)) <= Cardinality(Failures(s)')
             /\ \A q \in Requests : q \in failed' \ failed /\ target[q] = s =>
                    Cardinality(Failures(s)') = Cardinality(Failures(s)) + 1
  <2>1. r \notin failed /\ target'[r] = target[r]
    BY <1>4, Zenon DEF LockOK, Quiet, Working
  <2>2. CASE target[r] = s
    <3>1. Failures(s)' = Failures(s) \cup {r} /\ r \notin Failures(s)
      BY <1>2, <1>4, <2>1, <2>2, Zenon DEF Failures
    <3>2. Cardinality(Failures(s)') = Cardinality(Failures(s)) + 1
      BY <1>1, <3>1, FS_AddElement, Zenon
    <3>3. Cardinality(Failures(s)) <= Cardinality(Failures(s)')
      BY <1>1, <3>2
    <3> QED
      BY <3>2, <3>3, Zenon
  <2>3. CASE target[r] # s
    <3>1. Failures(s)' = Failures(s)
      BY <1>2, <1>4, <2>1, <2>3, Zenon DEF Failures
    <3>2. Cardinality(Failures(s)) <= Cardinality(Failures(s))
      BY <1>1
    <3> QED
      BY <1>4, <2>3, <3>1, <3>2, Zenon
  <2> QED
    BY <2>2, <2>3, Zenon
<1> QED
  BY <1>3, <1>4, Zenon DEF Quiet

(* The redactions of a group are still accounted for. *)
LEMMA QuietOnce ==
  ASSUME Types, LockOK, OnceOK, Quiet, Types',
         \A r \in Requests : pc[r] = "new" \/ target[r] \in SequenceNumbers
  PROVE  OnceOK'
<1>1. \A s : Times(s)' = Times(s)
  BY SameRows, Zenon DEF Quiet
<1>2. ASSUME NEW s
      PROVE  /\ Cardinality(Times(s)') = Cardinality(Times(s)) /\ Cardinality(Times(s)) \in Nat
             /\ Cardinality(Failures(s)) \in Nat /\ Cardinality(Failures(s)') \in Nat
             /\ Cardinality(Failures(s)) <= Cardinality(Failures(s)')
  <2>1. Cardinality(Times(s)) \in Nat /\ Cardinality(Failures(s)) \in Nat
    BY CountFacts, Zenon
  <2>2. Failures(s)' \in SUBSET failed' /\ IsFiniteSet(failed')
    BY Zenon DEF Failures, Types
  <2>3. Cardinality(Failures(s)') \in Nat
    BY <2>2, FS_Subset, FS_CardinalityType, Zenon
  <2> QED
    BY <1>1, <2>1, <2>3, QuietFailures, Zenon
<1>3. \A a, b, c \in Nat : a <= b /\ b <= c => a <= c /\ a <= 1 + c
  OBVIOUS
<1>4. \A a, b, c \in Nat : a <= 1 + b /\ b <= c => a <= 1 + c
  OBVIOUS
<1>5. \A a, b, c \in Nat : a <= 1 + b /\ c = b + 1 => a <= c
  OBVIOUS
<1>6. ASSUME NEW s, Few(s) PROVE Few(s)'
  BY <1>2, <1>3, <1>6, Zenon DEF Few
<1>7. ASSUME NEW s \in SequenceNumbers
      PROVE  /\ Cardinality(Times(s)') <= 1 + Cardinality(Failures(s)')
             /\ Few(s)' \/ s \in marked' \/ \E r \in Requests : pc'[r] = "mark" /\ target'[r] = s
  <2>1. Cardinality(Times(s)') <= 1 + Cardinality(Failures(s)')
    BY <1>2, <1>4, Zenon DEF OnceOK
  <2>2. CASE Few(s) \/ s \in marked
    BY <1>6, <2>1, <2>2, Zenon DEF Quiet
  <2>3. ASSUME NEW r \in Requests, pc[r] = "mark", target[r] = s
        PROVE  Few(s)' \/ s \in marked' \/ \E q \in Requests : pc'[q] = "mark" /\ target'[q] = s
    <3>1. pc'[r] = "mark" \/ s \in marked' \/ r \in failed'
      BY <2>3, Zenon DEF Quiet
    <3>2. target'[r] = s /\ r \notin failed
      BY <2>3, Zenon DEF Quiet, LockOK
    <3>3. ASSUME r \in failed' PROVE Few(s)'
      <4>1. Cardinality(Failures(s)') = Cardinality(Failures(s)) + 1
        BY <2>3, <3>2, <3>3, QuietFailures, Zenon
      <4>2. Cardinality(Times(s)) <= 1 + Cardinality(Failures(s))
        BY Zenon DEF OnceOK
      <4> QED
        BY <1>2, <1>5, <4>1, <4>2, Zenon DEF Few
    <3> QED
      BY <3>1, <3>2, <3>3, Zenon
  <2> QED
    BY <2>1, <2>2, <2>3, Zenon DEF OnceOK
<1>8. ASSUME NEW r \in Requests, pc'[r] \in {"read", "commit"} PROVE Few(target[r])'
  <2>1. pc[r] \in {"read", "commit"} \/ (pc[r] = "check" /\ target[r] \notin marked)
    BY <1>8, Zenon DEF Quiet
  <2>2. target'[r] = target[r]
    BY <2>1, Zenon DEF Quiet
  <2>3. Few(target[r])
    <3>1. CASE pc[r] \in {"read", "commit"}
      BY <3>1, Zenon DEF OnceOK
    <3>2. CASE pc[r] = "check" /\ target[r] \notin marked
      <4>1. \A q \in Requests : pc[q] # "mark"
        BY <3>2, Zenon DEF LockOK, Working
      <4>2. target[r] \in SequenceNumbers
        BY <3>2, Zenon
      <4> QED
        BY <3>2, <4>1, <4>2, Zenon DEF OnceOK
    <3> QED
      BY <2>1, <3>1, <3>2, Zenon
  <2>4. PICK t : t = target[r] /\ t = target'[r]
    BY <2>2, Zenon
  <2>5. Few(t)'
    BY <1>6, <2>3, <2>4, Zenon
  <2> QED
    BY <2>4, <2>5, Zenon DEF Few, Times, Failures
<1> QED
  BY <1>7, <1>8, Zenon DEF OnceOK

(* A step that commits no row keeps the invariant. *)
LEMMA QuietKeeps ==
  ASSUME RedactionInv, Quiet, Types', LockOK',
         \A r \in Requests : pc'[r] = "delete" => target'[r] \in marked',
         direct' # None => direct' \in marked' /\ direct' \in Groups,
         reading' # None => reading' \in marked',
         result' # "lost", after' => result' # "payload",
         \A s \in redacted' : s \in redacted \/ (s \in Groups /\ payload'[s] = None)
  PROVE  RedactionInv'
<1> Types /\ Numbered /\ LockOK /\ MarkOK /\ RowsOK /\ GoneOK /\ OnceOK
  BY DEF RedactionInv
<1>1. /\ Groups' = Groups /\ Numbered' /\ \A s : Twice(s) => Twice(s)'
      /\ marked \subseteq marked'
  BY SameRows, Zenon DEF Quiet
<1>2. Groups \subseteq SequenceNumbers
  BY RowFacts, Zenon
<1>3. \A s \in Groups : payload'[s] = payload[s] \/ (payload'[s] = None /\ s \in marked')
  BY <1>2, Zenon DEF Quiet
<1>4. MarkOK'
  BY <1>1, <1>3, Zenon DEF MarkOK
<1>5. GoneOK'
  BY <1>1, <1>3, Zenon DEF GoneOK
<1>6. RowsOK'
  BY QuietRows, Zenon
<1>7. OnceOK'
  BY <1>2, QuietOnce, Zenon DEF LockOK
<1> QED
  BY <1>1, <1>4, <1>5, <1>6, <1>7, Zenon DEF RedactionInv

(* The requests stay where they are. *)
LEMMA NoRequest ==
  ASSUME RedactionInv, UNCHANGED <<rows, lock, pc, target, failed>>,
         marked \subseteq marked', payload' \in [SequenceNumbers -> Nat \cup {None}],
         \A s \in SequenceNumbers : payload'[s] = payload[s] \/ (payload'[s] = None /\ s \in marked')
  PROVE  /\ Quiet /\ Types' /\ LockOK'
         /\ \A r \in Requests : pc'[r] = "delete" => target'[r] \in marked'
<1> Types /\ LockOK /\ MarkOK
  BY DEF RedactionInv
<1>1. Quiet
  BY Zenon DEF Quiet
<1>2. Types'
  BY Zenon DEF Types
<1>3. Groups' = Groups
  BY SameRows, Zenon
<1>4. LockOK'
  BY <1>3, Zenon DEF LockOK
<1> QED
  BY <1>1, <1>2, <1>4, Zenon DEF MarkOK

(* Track.Redact by another caller writes the marker. *)
LEMMA DirectMarkKeeps ==
  ASSUME RedactionInv, DirectMark
  PROVE  RedactionInv'
<1> Types /\ MarkOK /\ GoneOK
  BY DEF RedactionInv
<1>1. PICK s \in Groups : direct' = s /\ marked' = marked \cup {s}
  BY Zenon DEF DirectMark
<1>2. UNCHANGED <<rows, payload, lock, pc, target, redacted, failed>> /\ UNCHANGED reader
  BY Zenon DEF DirectMark
<1>3. reading' = reading /\ result' = result /\ after' = after
  BY <1>2, Zenon DEF reader
<1>4. /\ Quiet /\ Types' /\ LockOK'
      /\ \A r \in Requests : pc'[r] = "delete" => target'[r] \in marked'
  BY <1>1, <1>2, NoRequest, Zenon DEF Types
<1> QED
  BY <1>1, <1>2, <1>3, <1>4, QuietKeeps, Zenon DEF MarkOK, GoneOK

(* It deletes the payload, or gives up. *)
LEMMA DirectDeleteKeeps ==
  ASSUME RedactionInv, DirectDelete
  PROVE  RedactionInv'
<1> Types /\ MarkOK /\ GoneOK
  BY DEF RedactionInv
<1>1. /\ direct # None /\ direct' = None
      /\ UNCHANGED <<rows, marked, lock, pc, target, failed>> /\ UNCHANGED reader
      /\ \/ payload' = [payload EXCEPT ![direct] = None] /\ redacted' = redacted \cup {direct}
         \/ UNCHANGED <<payload, redacted>>
  BY Zenon DEF DirectDelete
<1>2. reading' = reading /\ result' = result /\ after' = after
  BY <1>1, Zenon DEF reader
<1>3. direct \in marked /\ direct \in Groups /\ direct \in SequenceNumbers
  BY <1>1, RowFacts, Zenon DEF MarkOK
<1>4. /\ payload' \in [SequenceNumbers -> Nat \cup {None}]
      /\ \A s \in SequenceNumbers : payload'[s] = payload[s] \/ (payload'[s] = None /\ s \in marked')
      /\ \A s \in redacted' : s \in redacted \/ (s \in Groups /\ payload'[s] = None)
  <2>1. CASE payload' = [payload EXCEPT ![direct] = None] /\ redacted' = redacted \cup {direct}
    <3>1. /\ payload' \in [SequenceNumbers -> Nat \cup {None}] /\ payload'[direct] = None
          /\ \A s \in SequenceNumbers \ {direct} : payload'[s] = payload[s]
      BY <1>3, <2>1 DEF Types
    <3> QED
      BY <1>1, <1>3, <2>1, <3>1, Zenon
  <2>2. CASE UNCHANGED <<payload, redacted>>
    BY <2>2, Zenon DEF Types
  <2> QED
    BY <1>1, <2>1, <2>2, Zenon
<1>5. /\ Quiet /\ Types' /\ LockOK'
      /\ \A r \in Requests : pc'[r] = "delete" => target'[r] \in marked'
  BY <1>1, <1>4, NoRequest, Zenon
<1> QED
  BY <1>1, <1>2, <1>4, <1>5, QuietKeeps, Zenon DEF MarkOK, GoneOK

(* ReadGroup looks for the payload: a group redacted, whose sequence was   *)
(* not given again, has none.                                              *)
LEMMA ReadGroupKeeps ==
  ASSUME RedactionInv, ReadGroup
  PROVE  RedactionInv'
<1> Types /\ MarkOK /\ GoneOK
  BY DEF RedactionInv
<1>1. UNCHANGED <<rows, payload, marked, lock, pc, target, direct, redacted, failed>>
  BY Zenon DEF ReadGroup
<1>2. PICK s \in Groups :
        /\ after' = (s \in redacted /\ Rows(s) = 1)
        /\ IF payload[s] = None
           THEN reading' = s /\ result' = "none"
           ELSE reading' = None /\ result' = "payload"
  BY Zenon DEF ReadGroup
<1>3. Twice(s) => Rows(s) # 1
  <2> SUFFICES ASSUME Twice(s), Rows(s) = 1 PROVE FALSE
    OBVIOUS
  <2>1. PICK S : S = {i \in DOMAIN rows : rows[i].seq = s}
    OBVIOUS
  <2>2. DOMAIN rows = 1 .. Len(rows) /\ 1 \in Int /\ Len(rows) \in Int
    BY RowFacts
  <2>3. IsFiniteSet(1 .. Len(rows)) /\ S \in SUBSET (1 .. Len(rows))
    BY <2>1, <2>2, FS_Interval, Zenon
  <2>4. IsFiniteSet(S) /\ Cardinality(S) = 1
    BY <2>1, <2>3, FS_Subset, Zenon DEF Rows
  <2>5. PICK x : S = {x}
    BY <2>4, FS_Singleton, Zenon
  <2>6. PICK i, j \in 1 .. Len(rows) : i # j /\ rows[i].seq = s /\ rows[j].seq = s
    BY Zenon DEF Twice
  <2>7. i \in S /\ j \in S
    BY <2>1, <2>2, <2>6, Zenon
  <2> QED
    BY <2>5, <2>6, <2>7, Zenon
<1>4. after' => payload[s] = None
  BY <1>2, <1>3, Zenon DEF GoneOK
<1>5. /\ Quiet /\ Types' /\ LockOK'
      /\ \A r \in Requests : pc'[r] = "delete" => target'[r] \in marked'
  BY <1>1, NoRequest, Zenon DEF Types
<1>6. /\ reading' # None => reading' \in marked'
      /\ result' # "lost" /\ (after' => result' # "payload")
  BY <1>1, <1>2, <1>4, Zenon DEF MarkOK
<1> QED
  BY <1>1, <1>5, <1>6, QuietKeeps, Zenon DEF MarkOK

(* It looks for the marker, and it is there. *)
LEMMA ReadMarkerKeeps ==
  ASSUME RedactionInv, ReadMarker
  PROVE  RedactionInv'
<1> Types /\ MarkOK /\ GoneOK
  BY DEF RedactionInv
<1>1. /\ UNCHANGED <<rows, payload, marked, lock, pc, target, direct, redacted, failed, after>>
      /\ reading' = None /\ reading # None
      /\ result' = IF reading \in marked THEN "redacted" ELSE "lost"
  BY Zenon DEF ReadMarker
<1>2. result' = "redacted"
  BY <1>1, Zenon DEF MarkOK
<1>3. /\ Quiet /\ Types' /\ LockOK'
      /\ \A r \in Requests : pc'[r] = "delete" => target'[r] \in marked'
  BY <1>1, NoRequest, Zenon DEF Types
<1> QED
  BY <1>1, <1>2, <1>3, QuietKeeps, Zenon DEF MarkOK

-----------------------------------------------------------------------------
(* The steps of a request. *)

(* Where it goes. *)
LEMMA GoToFacts ==
  ASSUME Types, NEW r \in Requests, NEW step \in Stages, GoTo(r, step)
  PROVE  pc' \in [Requests -> Stages] /\ pc'[r] = step /\ Others(r)
  BY DEF Types, GoTo, Others

(* The mutex stays, is taken when it is free, or is let go of. *)
LEMMA LockMoves ==
  ASSUME Types, LockOK, NEW r \in Requests, Others(r),
         \/ (pc'[r] \in Working <=> pc[r] \in Working) /\ lock' = lock
         \/ pc'[r] \in Working /\ lock = None /\ lock' = r
         \/ pc'[r] \notin Working /\ pc[r] \in Working /\ lock' = None
  PROVE  \A q \in Requests : pc'[q] \in Working <=> lock' = q
<1> SUFFICES ASSUME NEW q \in Requests PROVE pc'[q] \in Working <=> lock' = q
  OBVIOUS
<1>1. None # q /\ None # r
  BY RedactionAssumption
<1>2. /\ pc[q] \in Working <=> lock = q
      /\ pc[r] \in Working <=> lock = r
  BY DEF LockOK
<1>3. CASE q = r
  BY <1>1, <1>2, <1>3, Zenon
<1>4. CASE q # r
  <2>1. pc'[q] = pc[q]
    BY <1>4, Zenon DEF Others
  <2> QED
    BY <1>1, <1>2, <1>4, <2>1
<1> QED
  BY <1>3, <1>4, Zenon

(* A step of a request that commits nothing. *)
LEMMA RequestKeeps ==
  ASSUME RedactionInv, NEW r \in Requests, NEW step \in Stages, GoTo(r, step),
         UNCHANGED <<rows, target, direct>>, UNCHANGED reader, pc[r] \notin {"new", "done"},
         marked \subseteq marked', payload' \in [SequenceNumbers -> Nat \cup {None}],
         \A s \in SequenceNumbers : payload'[s] = payload[s] \/ (payload'[s] = None /\ s \in marked'),
         \/ (step \in Working <=> pc[r] \in Working) /\ lock' = lock
         \/ step \in Working /\ lock = None /\ lock' = r
         \/ step \notin Working /\ pc[r] \in Working /\ lock' = None,
         \/ failed' = failed
         \/ pc[r] \in Working /\ step = "done" /\ failed' = failed \cup {r},
         step = "read" => pc[r] = "check" /\ target[r] \notin marked,
         step = "commit" => pc[r] = "read" /\ payload[target[r]] = 0,
         step = "delete" => target[r] \in marked',
         pc[r] = "mark" => target[r] \in marked' \/ r \in failed',
         \A s \in redacted' : s \in redacted \/ (s \in Groups /\ payload'[s] = None)
  PROVE  RedactionInv'
<1> Types /\ LockOK /\ MarkOK /\ GoneOK
  BY DEF RedactionInv
<1>1. pc' \in [Requests -> Stages] /\ pc'[r] = step /\ Others(r)
  BY GoToFacts, Zenon
<1>2. reading' = reading /\ result' = result /\ after' = after
  BY Zenon DEF reader
<1>3. Groups' = Groups
  BY SameRows, Zenon
<1>4. failed' \subseteq Requests /\ IsFiniteSet(failed')
  <2>1. failed \subseteq Requests /\ IsFiniteSet(failed)
    BY DEF Types
  <2>2. IsFiniteSet(failed \cup {r})
    BY <2>1, FS_AddElement, Zenon
  <2> QED
    BY <2>1, <2>2, Zenon
<1>5. Types'
  BY <1>1, <1>4, Zenon DEF Types
<1>6. LockOK'
  <2>1. \A q \in Requests : pc'[q] \in Working <=> lock' = q
    BY <1>1, LockMoves, Zenon
  <2>2. \A q \in Requests : pc'[q] = "new" \/ target'[q] \in Groups'
    BY <1>1, <1>3, Zenon DEF LockOK, Others
  <2>3. \A q \in failed' : pc'[q] = "done"
    BY <1>1, <1>4, Zenon DEF LockOK, Others
  <2> QED
    BY <2>1, <2>2, <2>3, Zenon DEF LockOK
<1>7. Quiet
  <2>1. \A q \in Requests : pc'[q] = "read" =>
            pc[q] = "read" \/ (pc[q] = "check" /\ target[q] \notin marked)
    BY <1>1, Zenon DEF Others
  <2>2. \A q \in Requests : pc'[q] = "commit" =>
            pc[q] = "commit" \/ (pc[q] = "read" /\ payload[target[q]] = 0)
    BY <1>1, Zenon DEF Others
  <2>3. \A q \in Requests : pc[q] = "mark" =>
            pc'[q] = "mark" \/ target[q] \in marked' \/ q \in failed'
    BY <1>1, Zenon DEF Others
  <2> QED
    BY <2>1, <2>2, <2>3, Zenon DEF Quiet
<1>8. \A q \in Requests : pc'[q] = "delete" => target'[q] \in marked'
  BY <1>1, Zenon DEF Others, MarkOK
<1>9. /\ direct' # None => direct' \in marked' /\ direct' \in Groups
      /\ reading' # None => reading' \in marked'
      /\ result' # "lost" /\ (after' => result' # "payload")
  BY <1>2, Zenon DEF MarkOK, GoneOK
<1> QED
  BY <1>5, <1>6, <1>7, <1>8, <1>9, QuietKeeps, Zenon

(* serveRedact looks the group up. *)
LEMMA LookupKeeps ==
  ASSUME RedactionInv, NEW r \in Requests, Lookup(r)
  PROVE  RedactionInv'
<1> Types /\ LockOK /\ MarkOK /\ GoneOK
  BY DEF RedactionInv
<1>1. /\ pc[r] = "new" /\ GoTo(r, "lock") /\ UNCHANGED reader
      /\ UNCHANGED <<rows, payload, marked, lock, direct, redacted, failed>>
  BY Zenon DEF Lookup
<1>2. PICK s \in Groups : target' = [target EXCEPT ![r] = s]
  BY Zenon DEF Lookup
<1>3. s \in Nat /\ target' = [target EXCEPT ![r] = s]
  BY <1>2, RowFacts, NumberFacts, Zenon
<1>4. /\ target' \in [Requests -> Nat] /\ target'[r] \in Groups
      /\ \A q \in Requests \ {r} : target'[q] = target[q]
  BY <1>2, <1>3, Zenon DEF Types
<1>5. pc' \in [Requests -> Stages] /\ pc'[r] = "lock" /\ Others(r)
  BY <1>1, GoToFacts, Zenon DEF Stages
<1>6. reading' = reading /\ result' = result /\ after' = after
  BY <1>1, Zenon DEF reader
<1>7. Types'
  BY <1>1, <1>4, <1>5, Zenon DEF Types
<1>8. LockOK'
  <2>1. \A q \in Requests : pc'[q] \in Working <=> lock' = q
    BY <1>1, <1>5, LockMoves, Zenon DEF Working
  <2>2. Groups' = Groups
    BY <1>1, SameRows, Zenon
  <2>3. \A q \in Requests : pc'[q] = "new" \/ target'[q] \in Groups'
    BY <1>4, <1>5, <2>2, Zenon DEF LockOK, Others
  <2>4. \A q \in failed' : pc'[q] = "done"
    BY <1>1, <1>5, Zenon DEF LockOK, Others, Types
  <2> QED
    BY <2>1, <2>3, <2>4, Zenon DEF LockOK
<1>9. \A q \in Requests : pc[q] # "new" => pc'[q] = pc[q] /\ target'[q] = target[q]
  BY <1>1, <1>4, <1>5, Zenon DEF Others
<1>10. \A q \in Requests : pc'[q] \in {"read", "commit", "delete"} => pc[q] = pc'[q] /\ pc[q] # "new"
  BY <1>1, <1>5, Zenon DEF Others
<1>11. Quiet
  BY <1>1, <1>9, <1>10, Zenon DEF Quiet
<1>12. \A q \in Requests : pc'[q] = "delete" => target'[q] \in marked'
  BY <1>1, <1>9, <1>10, Zenon DEF MarkOK
<1> QED
  BY <1>1, <1>6, <1>7, <1>8, <1>11, <1>12, QuietKeeps, Zenon DEF MarkOK, GoneOK

(* It locks the track. *)
LEMMA LockKeeps ==
  ASSUME RedactionInv, NEW r \in Requests, Lock(r)
  PROVE  RedactionInv'
<1>1. /\ pc[r] = "lock" /\ lock = None /\ lock' = r /\ GoTo(r, "check") /\ UNCHANGED reader
      /\ UNCHANGED <<rows, payload, marked, target, direct, redacted, failed>>
  BY Zenon DEF Lock
<1>2. payload' \in [SequenceNumbers -> Nat \cup {None}]
  BY <1>1, Zenon DEF RedactionInv, Types
<1> QED
  BY <1>1, <1>2, RequestKeeps, Zenon DEF Stages, Working

(* It looks for the marker. *)
LEMMA CheckMarkKeeps ==
  ASSUME RedactionInv, NEW r \in Requests, CheckMark(r)
  PROVE  RedactionInv'
<1>1. /\ pc[r] = "check" /\ UNCHANGED reader
      /\ UNCHANGED <<rows, payload, marked, lock, target, direct, redacted, failed>>
      /\ \/ target[r] \in marked /\ GoTo(r, "mark")
         \/ target[r] \notin marked /\ GoTo(r, "read")
  BY Zenon DEF CheckMark
<1>2. payload' \in [SequenceNumbers -> Nat \cup {None}]
  BY <1>1, Zenon DEF RedactionInv, Types
<1> QED
  BY <1>1, <1>2, RequestKeeps, Zenon DEF Stages, Working

(* It reads the record. *)
LEMMA ReadRecordKeeps ==
  ASSUME RedactionInv, NEW r \in Requests, ReadRecord(r)
  PROVE  RedactionInv'
<1>1. /\ pc[r] = "read" /\ UNCHANGED reader
      /\ UNCHANGED <<rows, payload, marked, target, direct, redacted, failed>>
      /\ \/ payload[target[r]] = 0 /\ GoTo(r, "commit") /\ lock' = lock
         \/ GoTo(r, "done") /\ lock' = None
  BY Zenon DEF ReadRecord, Answer
<1>2. payload' \in [SequenceNumbers -> Nat \cup {None}]
  BY <1>1, Zenon DEF RedactionInv, Types
<1> QED
  BY <1>1, <1>2, RequestKeeps, Zenon DEF Stages, Working

(* It marks the group. *)
LEMMA MarkKeeps ==
  ASSUME RedactionInv, NEW r \in Requests, Mark(r)
  PROVE  RedactionInv'
<1>1. /\ pc[r] = "mark" /\ marked' = marked \cup {target[r]} /\ GoTo(r, "delete") /\ UNCHANGED reader
      /\ UNCHANGED <<rows, payload, lock, target, direct, redacted, failed>>
  BY Zenon DEF Mark
<1>2. payload' \in [SequenceNumbers -> Nat \cup {None}]
  BY <1>1, Zenon DEF RedactionInv, Types
<1> QED
  BY <1>1, <1>2, RequestKeeps, Zenon DEF Stages, Working

(* The payload of a marked group is deleted. *)
LEMMA DeleteFacts ==
  ASSUME RedactionInv, NEW r \in Requests, pc[r] = "delete", marked' = marked,
         payload' = [payload EXCEPT ![target[r]] = None]
  PROVE  /\ payload' \in [SequenceNumbers -> Nat \cup {None}]
         /\ target[r] \in Groups /\ payload'[target[r]] = None
         /\ \A s \in SequenceNumbers : payload'[s] = payload[s] \/ (payload'[s] = None /\ s \in marked')
<1> Types /\ LockOK /\ MarkOK
  BY DEF RedactionInv
<1>1. target[r] \in Groups /\ target[r] \in SequenceNumbers /\ target[r] \in marked
  BY RowFacts, Zenon DEF LockOK, MarkOK
<1>2. /\ payload' \in [SequenceNumbers -> Nat \cup {None}] /\ payload'[target[r]] = None
      /\ \A s \in SequenceNumbers \ {target[r]} : payload'[s] = payload[s]
  BY <1>1 DEF Types
<1> QED
  BY <1>1, <1>2, Zenon

(* The payload of the group is deleted, and the request answered. *)
LEMMA DeleteKeeps ==
  ASSUME RedactionInv, NEW r \in Requests, Delete(r)
  PROVE  RedactionInv'
<1>1. /\ pc[r] = "delete" /\ payload' = [payload EXCEPT ![target[r]] = None]
      /\ redacted' = redacted \cup {target[r]} /\ GoTo(r, "done") /\ lock' = None /\ UNCHANGED reader
      /\ UNCHANGED <<rows, marked, target, direct, failed>>
  BY Zenon DEF Delete, Answer
<1>2. /\ payload' \in [SequenceNumbers -> Nat \cup {None}]
      /\ target[r] \in Groups /\ payload'[target[r]] = None
      /\ \A s \in SequenceNumbers : payload'[s] = payload[s] \/ (payload'[s] = None /\ s \in marked')
  BY <1>1, DeleteFacts, Zenon
<1>3. \A s \in redacted' : s \in redacted \/ (s \in Groups /\ payload'[s] = None)
  BY <1>1, <1>2, Zenon
<1> QED
  BY <1>1, <1>2, <1>3, RequestKeeps, Zenon DEF Stages, Working

(* A request to the store fails, before or after it was done. *)
LEMMA StoreFailsKeeps ==
  ASSUME RedactionInv, NEW r \in Requests, StoreFails(r)
  PROVE  RedactionInv'
<1>1. /\ pc[r] \in Working /\ GoTo(r, "done") /\ lock' = None /\ UNCHANGED reader
      /\ UNCHANGED <<rows, target, direct, redacted>>
  BY Zenon DEF StoreFails, Answer, Working
<1>2. /\ marked' = marked \/ (pc[r] = "mark" /\ marked' = marked \cup {target[r]})
      /\ \/ payload' = payload
         \/ pc[r] = "delete" /\ payload' = [payload EXCEPT ![target[r]] = None]
      /\ failed' = IF pc[r] \in {"mark", "delete"} THEN failed \cup {r} ELSE failed
  BY Zenon DEF StoreFails
<1>3. pc[r] = "delete" => marked' = marked
  BY <1>2, Zenon
<1>4. /\ payload' \in [SequenceNumbers -> Nat \cup {None}]
      /\ \A s \in SequenceNumbers : payload'[s] = payload[s] \/ (payload'[s] = None /\ s \in marked')
  <2>1. CASE payload' = payload
    BY <2>1, Zenon DEF RedactionInv, Types
  <2>2. CASE pc[r] = "delete" /\ payload' = [payload EXCEPT ![target[r]] = None]
    BY <1>3, <2>2, DeleteFacts, Zenon
  <2> QED
    BY <1>2, <2>1, <2>2, Zenon
<1>5. /\ marked \subseteq marked' /\ (pc[r] = "mark" => r \in failed')
      /\ failed' = failed \/ failed' = failed \cup {r}
  BY <1>2, Zenon
<1>6. pc[r] \notin {"new", "done"} /\ "done" \notin Working /\ "done" \in Stages
  BY <1>1, Zenon DEF Working, Stages
<1> QED
  BY <1>1, <1>4, <1>5, <1>6, RequestKeeps, Zenon

-----------------------------------------------------------------------------
(* The steps that commit a row. *)

(* A group whose payload is gone is given a record again, or a new group   *)
(* has one.                                                                *)
LEMMA RecordKeeps ==
  ASSUME RedactionInv, Record
  PROVE  RedactionInv'
<1> Types /\ Numbered /\ LockOK /\ MarkOK /\ RowsOK /\ GoneOK /\ OnceOK
  BY DEF RedactionInv
<1>1. /\ lock = None /\ Len(rows) < MaxRows /\ UNCHANGED reader
      /\ UNCHANGED <<marked, lock, pc, target, direct, redacted, failed>>
  BY Zenon DEF Record
<1>2. reading' = reading /\ result' = result /\ after' = after
  BY <1>1, Zenon DEF reader
<1>3. PICK s \in {Cardinality(Groups) + 1} \cup {t \in Groups : payload[t] = None} : Store(s, 0)
  BY Zenon DEF Record
<1>4. /\ s \in SequenceNumbers
      /\ \/ s \notin Groups
         \/ s \in Groups /\ s \in marked
      /\ \E n \in 1 .. Len(rows) + 1 : Groups \cup {s} = 1 .. n
  <2>1. CASE s = Cardinality(Groups) + 1
    BY <1>1, <2>1, NextFree, Zenon
  <2>2. CASE s \in Groups /\ payload[s] = None
    <3>1. PICK n \in 1 .. Len(rows) : Groups = 1 .. n
      BY Zenon DEF Numbered
    <3>2. n \in 1 .. Len(rows) + 1
      BY RowFacts
    <3>3. Groups \cup {s} = Groups
      BY <2>2, Zenon
    <3> QED
      BY <2>2, <3>1, <3>2, <3>3, RowFacts, Zenon DEF MarkOK
  <2> QED
    BY <1>3, <2>1, <2>2, Zenon
<1>5. PICK m : m = Len(rows) + 1
  OBVIOUS
<1>6. /\ rows' \in Seq(Row) /\ Len(rows') <= MaxRows /\ Len(rows') = m
      /\ \A i \in 1 .. Len(rows) : rows'[i] = rows[i]
      /\ rows'[m].seq = s /\ rows'[m].redacts = 0
      /\ \A i \in 1 .. Len(rows') : i \in 1 .. Len(rows) \/ i = m
      /\ payload' \in [SequenceNumbers -> Nat \cup {None}] /\ payload'[s] = 0
      /\ \A t \in SequenceNumbers \ {s} : payload'[t] = payload[t]
  <2>1. 0 \in Nat
    OBVIOUS
  <2> QED
    BY <1>1, <1>3, <1>4, <1>5, <2>1, StoreFacts, Zenon
<1>7. /\ Groups' = Groups \cup {s} /\ \A t : Twice(t) => Twice(t)'
      /\ s \in Groups => Twice(s)'
      /\ \A t : t # 0 => Times(t)' = Times(t)
  <2>1. 0 \in Nat
    OBVIOUS
  <2> QED
    BY <1>1, <1>3, <1>4, <2>1, StoredGroups, Zenon
<1>8. Groups \subseteq SequenceNumbers /\ 0 \notin SequenceNumbers /\ None # 0
  BY RowFacts, NumberFacts, Zenon
<1>9. Types'
  BY <1>1, <1>6, Zenon DEF Types
<1>10. Numbered'
  BY <1>4, <1>5, <1>6, <1>7, Zenon DEF Numbered
<1>11. LockOK'
  BY <1>1, <1>7, Zenon DEF LockOK
<1>12. MarkOK'
  BY <1>1, <1>2, <1>6, <1>7, <1>8, Zenon DEF MarkOK
<1>13. \A r \in Requests : pc'[r] \notin Working
  <2>1. \A r \in Requests : r # None
    BY RedactionAssumption, Zenon
  <2> QED
    BY <1>1, <2>1, Zenon DEF LockOK
<1>14. RowsOK'
  <2>1. ASSUME NEW i \in 1 .. Len(rows')
        PROVE  /\ rows'[i].redacts = 0 \/ rows'[i].redacts \in Groups'
               /\ rows'[i].seq \in marked' \/ payload'[rows'[i].seq] = rows'[i].redacts
               /\ rows'[i].seq \in SequenceNumbers
    <3>1. CASE i \in 1 .. Len(rows)
      <4>1. /\ rows'[i] = rows[i] /\ rows[i].seq \in Groups /\ rows[i].seq \in SequenceNumbers
            /\ rows[i].redacts = 0 \/ rows[i].redacts \in Groups
            /\ rows[i].seq \in marked \/ payload[rows[i].seq] = rows[i].redacts
        BY <1>6, <3>1, RowFacts, Zenon DEF RowsOK
      <4>2. rows[i].seq \in marked \/ rows[i].seq # s
        BY <1>4, <4>1, Zenon
      <4> QED
        BY <1>1, <1>6, <1>7, <4>1, <4>2, ZenonT(30)
    <3>2. CASE i = m
      BY <1>4, <1>6, <3>2, Zenon
    <3> QED
      BY <1>6, <3>1, <3>2, Zenon
  <2>2. ASSUME NEW i \in 1 .. Len(rows'), NEW j \in 1 .. Len(rows'), rows'[i].redacts = rows'[j].seq
        PROVE  rows'[j].redacts = 0
    <3>1. rows'[i].redacts # 0
      BY <1>8, <2>1, <2>2, Zenon
    <3>2. i \in 1 .. Len(rows)
      BY <1>6, <3>1, Zenon
    <3>3. CASE j \in 1 .. Len(rows)
      <4>1. rows'[i] = rows[i] /\ rows'[j] = rows[j]
        BY <1>6, <3>2, <3>3, Zenon
      <4> QED
        BY <2>2, <3>2, <3>3, <4>1, ZenonT(30) DEF RowsOK
    <3>4. CASE j = m
      BY <1>6, <3>4, Zenon
    <3> QED
      BY <1>6, <3>3, <3>4, Zenon
  <2>3. \A r \in Requests : pc'[r] # "read" /\ pc'[r] # "commit"
    BY <1>13, Zenon DEF Working
  <2> QED
    BY <2>1, <2>2, <2>3, Zenon DEF RowsOK
<1>15. GoneOK'
  BY <1>1, <1>2, <1>6, <1>7, <1>8, Zenon DEF GoneOK
<1>16. OnceOK'
  <2>1. \A t \in SequenceNumbers : t # 0 /\ Times(t)' = Times(t) /\ Failures(t)' = Failures(t)
    BY <1>1, <1>7, <1>8, Zenon DEF Failures
  <2>2. \A t \in SequenceNumbers : Few(t) <=> Few(t)'
    BY <2>1, Zenon DEF Few
  <2>3. \A r \in Requests : pc'[r] \notin {"read", "commit"}
    BY <1>13, Zenon DEF Working
  <2> QED
    BY <1>1, <2>1, <2>2, <2>3, Zenon DEF OnceOK
<1> QED
  BY <1>9, <1>10, <1>11, <1>12, <1>14, <1>15, <1>16, Zenon DEF RedactionInv

(* A redaction of a record is committed, and its answer is lost or not. *)
LEMMA CommitRedactionKeeps ==
  ASSUME RedactionInv, NEW r \in Requests, CommitRedaction(r)
  PROVE  RedactionInv'
<1> Types /\ Numbered /\ LockOK /\ MarkOK /\ RowsOK /\ GoneOK /\ OnceOK
  BY DEF RedactionInv
<1>1. /\ pc[r] = "commit" /\ Len(rows) < MaxRows /\ UNCHANGED reader
      /\ UNCHANGED <<marked, target, direct, redacted>>
      /\ \/ GoTo(r, "mark") /\ lock' = lock /\ failed' = failed
         \/ GoTo(r, "done") /\ lock' = None /\ failed' = failed \cup {r}
  BY Zenon DEF CommitRedaction, Answer
<1>2. reading' = reading /\ result' = result /\ after' = after
  BY <1>1, Zenon DEF reader
<1>3. PICK s, t : s = Cardinality(Groups) + 1 /\ t = target[r] /\ Store(s, t)
  BY Zenon DEF CommitRedaction
<1>4. /\ s \in SequenceNumbers /\ s \notin Groups
      /\ \E n \in 1 .. Len(rows) + 1 : Groups \cup {s} = 1 .. n
  BY <1>1, <1>3, NextFree, Zenon
<1>5. /\ t \in Groups /\ t \in SequenceNumbers /\ t \in Nat /\ t # None /\ t # 0 /\ s # t
      /\ Groups \subseteq SequenceNumbers /\ s # 0
  BY <1>1, <1>3, <1>4, RowFacts, NumberFacts, Zenon DEF LockOK
<1>6. PICK m : m = Len(rows) + 1
  OBVIOUS
<1>7. /\ rows' \in Seq(Row) /\ Len(rows') <= MaxRows /\ Len(rows') = m
      /\ \A i \in 1 .. Len(rows) : rows'[i] = rows[i]
      /\ rows'[m].seq = s /\ rows'[m].redacts = t
      /\ \A i \in 1 .. Len(rows') : i \in 1 .. Len(rows) \/ i = m
      /\ payload' \in [SequenceNumbers -> Nat \cup {None}] /\ payload'[s] = t
      /\ \A u \in SequenceNumbers \ {s} : payload'[u] = payload[u]
  BY <1>1, <1>3, <1>4, <1>5, <1>6, StoreFacts, Zenon
<1>8. /\ Groups' = Groups \cup {s} /\ \A u : Twice(u) => Twice(u)'
      /\ \A u : u # t => Times(u)' = Times(u)
      /\ Times(t)' = Times(t) \cup {m} /\ m \notin Times(t)
  BY <1>1, <1>3, <1>4, <1>5, <1>6, StoredGroups, Zenon
<1>9. /\ pc' \in [Requests -> Stages] /\ Others(r)
      /\ \/ pc'[r] = "mark" /\ lock' = lock /\ failed' = failed
         \/ pc'[r] = "done" /\ lock' = None /\ failed' = failed \cup {r}
  <2>1. CASE GoTo(r, "mark") /\ lock' = lock /\ failed' = failed
    <3>1. pc' \in [Requests -> Stages] /\ pc'[r] = "mark" /\ Others(r)
      BY <2>1, GoToFacts, Zenon DEF Stages, Working
    <3> QED
      BY <2>1, <3>1, Zenon
  <2>2. CASE GoTo(r, "done") /\ lock' = None /\ failed' = failed \cup {r}
    <3>1. pc' \in [Requests -> Stages] /\ pc'[r] = "done" /\ Others(r)
      BY <2>2, GoToFacts, Zenon DEF Stages
    <3> QED
      BY <2>2, <3>1, Zenon
  <2> QED
    BY <1>1, <2>1, <2>2, Zenon
<1>10. failed' \subseteq Requests /\ IsFiniteSet(failed') /\ r \notin failed
  <2>1. failed \subseteq Requests /\ IsFiniteSet(failed)
    BY DEF Types
  <2>2. IsFiniteSet(failed \cup {r})
    BY <2>1, FS_AddElement, Zenon
  <2> QED
    BY <1>1, <1>9, <2>1, <2>2, Zenon DEF LockOK
<1>11. Types'
  <2>1. lock' \in Requests \cup {None} /\ target' \in [Requests -> Nat]
    BY <1>1, <1>9, Zenon DEF Types
  <2> QED
    BY <1>7, <1>9, <1>10, <2>1, Zenon DEF Types
<1>12. Numbered'
  BY <1>4, <1>6, <1>7, <1>8, Zenon DEF Numbered
<1>13. LockOK'
  <2>1. \A q \in Requests : pc'[q] \in Working <=> lock' = q
    BY <1>1, <1>9, LockMoves, Zenon DEF Working
  <2>2. \A q \in Requests : pc'[q] = "new" \/ target'[q] \in Groups'
    BY <1>1, <1>8, <1>9, Zenon DEF LockOK, Others
  <2>3. \A q \in failed' : pc'[q] = "done"
    <3> TAKE q \in failed'
    <3>1. CASE q = r
      BY <1>9, <1>10, <3>1, Zenon
    <3>2. CASE q # r
      <4>1. q \in failed /\ q \in Requests
        BY <1>9, <1>10, <3>2, Zenon
      <4> QED
        BY <1>9, <3>2, <4>1, Zenon DEF LockOK, Others
    <3> QED
      BY <3>1, <3>2, Zenon
  <2> QED
    BY <2>1, <2>2, <2>3, Zenon DEF LockOK
<1>14. \A q \in Requests : q # r => pc[q] \notin Working /\ pc'[q] \notin Working
  BY <1>1, <1>9, Zenon DEF LockOK, Others, Working
<1>15. \A q \in Requests : pc'[q] \notin {"read", "commit", "delete"}
  BY <1>9, <1>14, Zenon DEF Working
<1>16. MarkOK'
  <2>1. \A u \in Groups' : payload'[u] = None => u \in marked
    BY <1>5, <1>7, <1>8, Zenon DEF MarkOK
  <2> QED
    BY <1>1, <1>2, <1>8, <1>15, <2>1, Zenon DEF MarkOK
<1>17. RowsOK'
  <2>1. ASSUME NEW i \in 1 .. Len(rows)
        PROVE  /\ rows'[i] = rows[i] /\ rows[i].seq \in Groups /\ rows[i].seq \in SequenceNumbers
               /\ rows[i].redacts = 0 \/ rows[i].redacts \in Groups
               /\ rows[i].seq \in marked \/ payload[rows[i].seq] = rows[i].redacts
               /\ rows[i].seq = t => rows[i].redacts = 0
               /\ rows[i].seq # s /\ rows[i].redacts # s
    <3>1. rows'[i] = rows[i] /\ rows[i].seq \in Groups /\ rows[i].seq \in SequenceNumbers
      BY <1>7, RowFacts, Zenon
    <3>2. /\ rows[i].redacts = 0 \/ rows[i].redacts \in Groups
          /\ rows[i].seq \in marked \/ payload[rows[i].seq] = rows[i].redacts
      BY Zenon DEF RowsOK
    <3>3. rows[i].seq = t => rows[i].redacts = 0
      BY <1>1, <1>3, Zenon DEF RowsOK
    <3>4. rows[i].seq # s /\ rows[i].redacts # s
      BY <1>4, <1>5, <3>1, <3>2, Zenon
    <3> QED
      BY <3>1, <3>2, <3>3, <3>4, Zenon
  <2>2. ASSUME NEW i \in 1 .. Len(rows')
        PROVE  /\ rows'[i].redacts = 0 \/ rows'[i].redacts \in Groups'
               /\ rows'[i].seq \in marked' \/ payload'[rows'[i].seq] = rows'[i].redacts
    <3>1. CASE i \in 1 .. Len(rows)
      <4>1. payload'[rows[i].seq] = payload[rows[i].seq]
        BY <1>7, <2>1, <3>1, Zenon
      <4> QED
        BY <1>1, <1>8, <2>1, <3>1, <4>1, Zenon
    <3>2. CASE i = m
      BY <1>5, <1>7, <1>8, <3>2, Zenon
    <3> QED
      BY <1>7, <3>1, <3>2, Zenon
  <2>3. ASSUME NEW i \in 1 .. Len(rows'), NEW j \in 1 .. Len(rows'), rows'[i].redacts = rows'[j].seq
        PROVE  rows'[j].redacts = 0
    <3>1. CASE i \in 1 .. Len(rows) /\ j \in 1 .. Len(rows)
      <4>1. rows'[i] = rows[i] /\ rows'[j] = rows[j]
        BY <1>7, <3>1, Zenon
      <4>2. rows[i].redacts = rows[j].seq => rows[j].redacts = 0
        BY <3>1, Zenon DEF RowsOK
      <4> QED
        BY <2>3, <4>1, <4>2, Zenon
    <3>2. CASE i \in 1 .. Len(rows) /\ j = m
      BY <1>7, <2>1, <2>3, <3>2, Zenon
    <3>3. CASE i = m /\ j \in 1 .. Len(rows)
      BY <1>7, <2>1, <2>3, <3>3, Zenon
    <3>4. CASE i = m /\ j = m
      BY <1>5, <1>7, <2>3, <3>4, Zenon
    <3> QED
      BY <1>7, <3>1, <3>2, <3>3, <3>4, Zenon
  <2> QED
    BY <1>15, <2>2, <2>3, Zenon DEF RowsOK
<1>18. GoneOK'
  BY <1>1, <1>2, <1>4, <1>5, <1>7, <1>8, Zenon DEF GoneOK
<1>19. OnceOK'
  <2>1. /\ IsFiniteSet(Times(t)) /\ Cardinality(Times(t)) \in Nat
        /\ IsFiniteSet(Failures(t)) /\ Cardinality(Failures(t)) \in Nat
    BY CountFacts, Zenon
  <2>2. Cardinality(Times(t)') = Cardinality(Times(t)) + 1
    BY <1>8, <2>1, FS_AddElement, ZenonT(30)
  <2>3. Cardinality(Times(t)) <= Cardinality(Failures(t))
    BY <1>1, <1>3, Zenon DEF OnceOK, Few
  <2>4. \A u : u # t => Failures(u)' = Failures(u)
    BY <1>1, <1>3, <1>9, Zenon DEF Failures
  <2>5. \A u : u # t => Times(u)' = Times(u) /\ (Few(u) <=> Few(u)')
    BY <1>8, <2>4, Zenon DEF Few
  <2>6. /\ Cardinality(Times(t)') <= 1 + Cardinality(Failures(t)')
        /\ Few(t)' \/ pc'[r] = "mark"
    <3>1. CASE pc'[r] = "mark" /\ failed' = failed
      <4>1. Failures(t)' = Failures(t)
        BY <1>1, <3>1, Zenon DEF Failures
      <4>2. Cardinality(Times(t)) + 1 <= 1 + Cardinality(Failures(t))
        BY <2>1, <2>3
      <4> QED
        BY <2>2, <3>1, <4>1, <4>2, Zenon
    <3>2. CASE failed' = failed \cup {r}
      <4>1. Failures(t)' = Failures(t) \cup {r} /\ r \notin Failures(t)
        BY <1>1, <1>3, <1>10, <3>2, Zenon DEF Failures
      <4>2. Cardinality(Failures(t)') = Cardinality(Failures(t)) + 1
        BY <2>1, <4>1, FS_AddElement, Zenon
      <4>3. \A a, b \in Nat : a <= b => a + 1 <= b + 1 /\ a + 1 <= 1 + (b + 1)
        OBVIOUS
      <4>4. /\ Cardinality(Times(t)') <= Cardinality(Failures(t)')
            /\ Cardinality(Times(t)') <= 1 + Cardinality(Failures(t)')
        BY <2>1, <2>2, <2>3, <4>2, <4>3, ZenonT(30)
      <4> QED
        BY <4>4, Zenon DEF Few
    <3> QED
      BY <1>9, <3>1, <3>2, Zenon
  <2>7. ASSUME NEW u \in SequenceNumbers
        PROVE  /\ Cardinality(Times(u)') <= 1 + Cardinality(Failures(u)')
               /\ \/ Few(u)' \/ u \in marked'
                  \/ \E q \in Requests : pc'[q] = "mark" /\ target'[q] = u
    <3>1. CASE u = t
      BY <1>1, <1>3, <2>6, <3>1, Zenon
    <3>2. CASE u # t
      <4>1. ~ \E q \in Requests : pc[q] = "mark"
        BY <1>1, <1>14, Zenon DEF Working
      <4>2. Cardinality(Times(u)) <= 1 + Cardinality(Failures(u)) /\ (Few(u) \/ u \in marked)
        BY <4>1, Zenon DEF OnceOK
      <4> QED
        BY <1>1, <2>4, <2>5, <3>2, <4>2, Zenon
    <3> QED
      BY <3>1, <3>2, Zenon
  <2> QED
    BY <1>15, <2>7, Zenon DEF OnceOK
<1> QED
  BY <1>11, <1>12, <1>13, <1>16, <1>17, <1>18, <1>19, Zenon DEF RedactionInv

-----------------------------------------------------------------------------
(* Every step. *)

(* The track starts with one record. *)
LEMMA RedactionInvInit ==
  ASSUME Init
  PROVE  RedactionInv
<1>1. /\ rows = <<[seq |-> 1, redacts |-> 0]>>
      /\ payload = [s \in SequenceNumbers |-> IF s = 1 THEN 0 ELSE None]
      /\ lock = None /\ pc = [r \in Requests |-> "new"] /\ target = [r \in Requests |-> 0]
      /\ direct = None /\ reading = None /\ result = "none"
      /\ redacted = {} /\ failed = {} /\ after = FALSE
  BY Zenon DEF Init
<1>2. MaxRows \in Nat /\ 1 <= MaxRows /\ 1 \in SequenceNumbers
  BY RedactionAssumption DEF SequenceNumbers
<1>3. [seq |-> 1, redacts |-> 0] \in Row
  BY <1>2 DEF Row
<1>4. rows \in Seq(Row) /\ Len(rows) = 1
  BY <1>1, <1>3
<1>5. 1 .. 1 = {1}
  OBVIOUS
<1>6. rows[1].seq = 1 /\ rows[1].redacts = 0 /\ DOMAIN rows = 1 .. 1
  BY <1>1
<1>7. Groups = {1}
  BY <1>5, <1>6, Zenon DEF Groups
<1>8. /\ payload \in [SequenceNumbers -> Nat \cup {None}] /\ payload[1] = 0
  BY <1>1, <1>2
<1>9. IsFiniteSet({}) /\ Cardinality({}) = 0
  BY FS_EmptySet, Zenon
<1>10. Types
  <2>1. 0 \in Nat
    OBVIOUS
  <2> QED
    BY <1>1, <1>2, <1>4, <1>8, <1>9, <2>1, ZenonT(30) DEF Types, Stages
<1>11. \A r \in Requests : pc[r] = "new" /\ r # None
  BY <1>1, RedactionAssumption, Zenon
<1>12. Numbered
  BY <1>4, <1>5, <1>7, Zenon DEF Numbered
<1>13. LockOK
  BY <1>1, <1>11, Zenon DEF LockOK, Working
<1>14. None # 0 /\ 0 # 1 /\ 0 \notin SequenceNumbers
  BY NumberFacts
<1>15. MarkOK
  BY <1>1, <1>7, <1>8, <1>11, <1>14, Zenon DEF MarkOK
<1>16. RowsOK
  BY <1>4, <1>5, <1>6, <1>8, <1>11, Zenon DEF RowsOK
<1>17. GoneOK
  BY <1>1, Zenon DEF GoneOK
<1>18. OnceOK
  <2>1. ASSUME NEW s \in SequenceNumbers
        PROVE  Cardinality(Times(s)) <= 1 + Cardinality(Failures(s)) /\ Few(s)
    <3>1. s # 0
      BY <1>14, Zenon
    <3>2. Times(s) = {} /\ Failures(s) = {}
      BY <1>1, <1>4, <1>5, <1>6, <3>1, Zenon DEF Times, Failures
    <3>3. 0 <= 1 + 0 /\ 0 <= 0
      OBVIOUS
    <3> QED
      BY <1>9, <3>2, <3>3, Zenon DEF Few
  <2> QED
    BY <1>11, <2>1, Zenon DEF OnceOK
<1> QED
  BY <1>10, <1>12, <1>13, <1>15, <1>16, <1>17, <1>18, ZenonT(30) DEF RedactionInv

(* A step of something else. *)
LEMMA RedactionInvStutter ==
  ASSUME RedactionInv, UNCHANGED vars
  PROVE  RedactionInv'
<1> Types /\ MarkOK /\ GoneOK
  BY DEF RedactionInv
<1>1. /\ rows' = rows /\ payload' = payload /\ marked' = marked /\ lock' = lock /\ pc' = pc
      /\ target' = target /\ direct' = direct /\ reading' = reading /\ result' = result
      /\ redacted' = redacted /\ failed' = failed /\ after' = after
  BY Zenon DEF vars
<1>2. /\ Quiet /\ Types' /\ LockOK'
      /\ \A r \in Requests : pc'[r] = "delete" => target'[r] \in marked'
  BY <1>1, NoRequest, Zenon DEF Types
<1> QED
  BY <1>1, <1>2, QuietKeeps, Zenon DEF MarkOK, GoneOK

(* Every step keeps the invariant. *)
LEMMA RedactionInvStep ==
  ASSUME RedactionInv, [Next]_vars
  PROVE  RedactionInv'
<1>1. ASSUME NEW r \in Requests,
             \/ Lookup(r) \/ Lock(r) \/ CheckMark(r) \/ ReadRecord(r) \/ CommitRedaction(r)
             \/ Mark(r) \/ Delete(r) \/ StoreFails(r)
      PROVE  RedactionInv'
  BY <1>1, LookupKeeps, LockKeeps, CheckMarkKeeps, ReadRecordKeeps, CommitRedactionKeeps,
     MarkKeeps, DeleteKeeps, StoreFailsKeeps, ZenonT(30)
<1> QED
  BY <1>1, RecordKeeps, DirectMarkKeeps, DirectDeleteKeeps, ReadGroupKeeps, ReadMarkerKeeps,
     RedactionInvStutter, Zenon DEF Next

(* The rows, the markers, the payloads and the requests agree after every  *)
(* step, whatever fails.                                                   *)
THEOREM RedactionInvariant == Spec => []RedactionInv
<1>1. Init => RedactionInv
  BY RedactionInvInit, Zenon
<1>2. RedactionInv /\ [Next]_vars => RedactionInv'
  BY RedactionInvStep, Zenon
<1> QED
  BY <1>1, <1>2, PTL DEF Spec

-----------------------------------------------------------------------------
(* What the run checks. *)

(* A payload that Track.Redact took out is never reported as a lost        *)
(* object: the marker is written before it and read after it.              *)
THEOREM RedactedNeverLost == Spec => []NeverLost
<1>1. RedactionInv => NeverLost
  BY Zenon DEF RedactionInv, MarkOK, NeverLost
<1> QED
  BY <1>1, RedactionInvariant, PTL

(* A ReadGroup begun after a redaction succeeded gets no payload, unless   *)
(* AppendGroup was given the sequence again.                               *)
THEOREM StaysRedacted == Spec => []RedactedForGood
<1>1. RedactionInv => RedactedForGood
  BY Zenon DEF RedactionInv, GoneOK, RedactedForGood
<1> QED
  BY <1>1, RedactionInvariant, PTL

(* Two DELETEs of one record commit one redaction, unless a request failed *)
(* after its commit and was retried.                                       *)
THEOREM CommittedOnce == Spec => []RedactedOnce
<1>1. ASSUME RedactionInv PROVE RedactedOnce
  <2> Types /\ OnceOK
    BY <1>1 DEF RedactionInv
  <2>1. DOMAIN rows = 1 .. Len(rows) /\ Groups \subseteq SequenceNumbers
    BY RowFacts, Zenon
  <2> QED
    BY <2>1, Zenon DEF OnceOK, RedactedOnce, Times, Failures
<1> QED
  BY <1>1, RedactionInvariant, PTL

(* redact reads the record it names while the track is locked, so no       *)
(* redaction of a redaction is committed.                                  *)
THEOREM OnlyRecordsRedacted == Spec => []RedactsRecords
<1>1. ASSUME RedactionInv PROVE RedactsRecords
  <2> Types /\ RowsOK
    BY <1>1 DEF RedactionInv
  <2>1. DOMAIN rows = 1 .. Len(rows)
    BY RowFacts, Zenon
  <2> QED
    BY <2>1, ZenonT(30) DEF RowsOK, RedactsRecords
<1> QED
  BY <1>1, RedactionInvariant, PTL

===============================================================================
