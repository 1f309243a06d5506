------------------------------- MODULE Redaction ------------------------------
(***************************************************************************)
(* Taking a record out of a track: the DELETE requests of one handler      *)
(* (ingest/handler.go, serveRedact and redact), Track.Redact called        *)
(* directly (ledger/redact.go), the appends that go on meanwhile, and a    *)
(* ReadGroup (ledger/reader.go) between any of their requests.  Every      *)
(* store request may fail, and a write that fails may have been done.      *)
(*                                                                         *)
(* The commit of a redaction is one step: EpochLog has its requests.       *)
(***************************************************************************)
EXTENDS Integers, Sequences, FiniteSets

CONSTANTS
    Requests,       \* the DELETE requests
    MaxRows,        \* bound: rows committed
    None

ASSUME RedactionAssumption ==
    /\ MaxRows \in Nat \ {0}
    /\ None \notin Requests /\ None \notin Nat

SequenceNumbers == 1 .. MaxRows

VARIABLES
    rows,       \* the committed rows: a sequence number, and the one it redacts or 0
    payload,    \* payload[s]: what the group object of s redacts, None when absent
    marked,     \* the sequences with a marker object
    lock,       \* track.mu
    pc, target,
    direct,     \* the group a direct Track.Redact has marked and not deleted yet
    reading,    \* the group ReadGroup found no payload of and checks the marker of
    result,     \* what the last ReadGroup answered
    \* history
    redacted,   \* the groups whose redaction was answered 201 or 204, or nil
    failed,     \* the requests that failed after their commit
    after       \* the ReadGroup in progress began when its group was in redacted, and
                \* no other group had been given its sequence

vars == <<rows, payload, marked, lock, pc, target, direct, reading, result, redacted, failed,
          after>>
reader == <<reading, result, after>>

Init ==
    /\ rows = <<[seq |-> 1, redacts |-> 0]>>
    /\ payload = [s \in SequenceNumbers |-> IF s = 1 THEN 0 ELSE None]
    /\ marked = {}
    /\ lock = None
    /\ pc = [r \in Requests |-> "new"]
    /\ target = [r \in Requests |-> 0]
    /\ direct = None /\ reading = None /\ result = "none"
    /\ redacted = {} /\ failed = {} /\ after = FALSE

Groups == {rows[i].seq : i \in DOMAIN rows}
Rows(s) == Cardinality({i \in DOMAIN rows : rows[i].seq = s})

GoTo(r, step) == pc' = [pc EXCEPT ![r] = step]

(* The request is answered and the track unlocked. *)
Answer(r) == GoTo(r, "done") /\ lock' = None

(* Writer.Append and AppendGroup: payload, then row. *)
Store(s, what) ==
    /\ rows' = Append(rows, [seq |-> s, redacts |-> what])
    /\ payload' = [payload EXCEPT ![s] = what]

-----------------------------------------------------------------------------
(* A record is appended; by AppendGroup it may be given a sequence whose   *)
(* group object is gone, unless it is that of the last row.                *)
Record ==
    /\ lock = None
    /\ Len(rows) < MaxRows
    /\ \E s \in {Cardinality(Groups) + 1} \cup {t \in Groups : payload[t] = None} :
        /\ s # rows[Len(rows)].seq
        /\ Store(s, 0)
    /\ UNCHANGED <<marked, lock, pc, target, direct, reader, redacted, failed>>

(* Track.Redact by another caller: the marker, then the payload; the       *)
(* caller may give up between them.                                        *)
DirectMark ==
    /\ direct = None
    /\ \E s \in Groups : direct' = s /\ marked' = marked \cup {s}
    /\ UNCHANGED <<rows, payload, lock, pc, target, reader, redacted, failed>>

DirectDelete ==
    /\ direct # None
    /\ direct' = None
    /\ \/ /\ payload' = [payload EXCEPT ![direct] = None]
          /\ redacted' = redacted \cup {direct}
       \/ UNCHANGED <<payload, redacted>>
    /\ UNCHANGED <<rows, marked, lock, pc, target, reader, failed>>

-----------------------------------------------------------------------------
(* serveRedact: the group is looked up, then the track locked. *)
Lookup(r) ==
    /\ pc[r] = "new"
    /\ \E s \in Groups : target' = [target EXCEPT ![r] = s]
    /\ GoTo(r, "lock")
    /\ UNCHANGED <<rows, payload, marked, lock, direct, reader, redacted, failed>>

(* Mutant: redactions of the track do not wait for one another. *)
LockSkipped(r) ==
    /\ pc[r] = "lock"
    /\ GoTo(r, "check")
    /\ UNCHANGED <<rows, payload, marked, lock, target, direct, reader, redacted, failed>>

Lock(r) ==
    /\ pc[r] = "lock"
    /\ lock = None
    /\ lock' = r
    /\ GoTo(r, "check")
    /\ UNCHANGED <<rows, payload, marked, target, direct, reader, redacted, failed>>

(* A group redacted already is redacted again with nothing committed. *)
CheckMark(r) ==
    /\ pc[r] = "check"
    /\ GoTo(r, IF target[r] \in marked THEN "mark" ELSE "read")
    /\ UNCHANGED <<rows, payload, marked, lock, target, direct, reader, redacted, failed>>

(* Mutant: the record is not looked at. *)
ReadRecordBlind(r) ==
    /\ pc[r] = "read"
    /\ GoTo(r, "commit")
    /\ UNCHANGED <<rows, payload, marked, lock, target, direct, reader, redacted, failed>>

(* The record is read: without payload the answer is 500, for a redaction  *)
(* 400.                                                                    *)
ReadRecord(r) ==
    /\ pc[r] = "read"
    /\ IF payload[target[r]] = 0 THEN GoTo(r, "commit") /\ UNCHANGED lock ELSE Answer(r)
    /\ UNCHANGED <<rows, payload, marked, target, direct, reader, redacted, failed>>

(* The redaction is appended; it may be committed and the answer lost. *)
CommitRedaction(r) ==
    /\ pc[r] = "commit"
    /\ Len(rows) < MaxRows
    /\ Store(Cardinality(Groups) + 1, target[r])
    /\ \/ GoTo(r, "mark") /\ UNCHANGED <<lock, failed>>
       \/ Answer(r) /\ failed' = failed \cup {r}
    /\ UNCHANGED <<marked, target, direct, reader, redacted>>

(* Mutant: the payload is deleted before the group is marked. *)
MarkLate(r) ==
    /\ pc[r] = "mark"
    /\ payload' = [payload EXCEPT ![target[r]] = None]
    /\ GoTo(r, "delete")
    /\ UNCHANGED <<rows, marked, lock, target, direct, reader, redacted, failed>>

(* Track.Redact: the marker is created or found there. *)
Mark(r) ==
    /\ pc[r] = "mark"
    /\ marked' = marked \cup {target[r]}
    /\ GoTo(r, "delete")
    /\ UNCHANGED <<rows, payload, lock, target, direct, reader, redacted, failed>>

(* Mutant: the payload is left to an earlier delete. *)
DeleteSkipped(r) ==
    /\ pc[r] = "delete"
    /\ redacted' = redacted \cup {target[r]}
    /\ Answer(r)
    /\ UNCHANGED <<rows, payload, marked, target, direct, reader, failed>>

Delete(r) ==
    /\ pc[r] = "delete"
    /\ payload' = [payload EXCEPT ![target[r]] = None]
    /\ redacted' = redacted \cup {target[r]}
    /\ Answer(r)
    /\ UNCHANGED <<rows, marked, target, direct, reader, failed>>

(* A request to the store fails, and the answer is 500.  The marker may    *)
(* have been created, the payload deleted.                                 *)
StoreFails(r) ==
    /\ pc[r] \in {"check", "read", "commit", "mark", "delete"}
    /\ marked' \in {marked} \cup (IF pc[r] = "mark" THEN {marked \cup {target[r]}} ELSE {})
    /\ payload' \in {payload} \cup
        (IF pc[r] = "delete" THEN {[payload EXCEPT ![target[r]] = None]} ELSE {})
    /\ failed' = IF pc[r] \in {"mark", "delete"} THEN failed \cup {r} ELSE failed
    /\ Answer(r)
    /\ UNCHANGED <<rows, target, direct, reader, redacted>>

-----------------------------------------------------------------------------
(* ReadGroup: the payload, and when it is missing the marker. *)
ReadGroup ==
    /\ reading = None
    /\ \E s \in Groups :
        /\ after' = (s \in redacted /\ Rows(s) = 1)
        /\ IF payload[s] = None
           THEN reading' = s /\ result' = "none"
           ELSE reading' = None /\ result' = "payload"
    /\ UNCHANGED <<rows, payload, marked, lock, pc, target, direct, redacted, failed>>

ReadMarker ==
    /\ reading # None
    /\ result' = IF reading \in marked THEN "redacted" ELSE "lost"
    /\ reading' = None
    /\ UNCHANGED <<rows, payload, marked, lock, pc, target, direct, redacted, failed, after>>

Next ==
    \/ Record \/ DirectMark \/ DirectDelete \/ ReadGroup \/ ReadMarker
    \/ \E r \in Requests :
        \/ Lookup(r) \/ Lock(r) \/ CheckMark(r) \/ ReadRecord(r) \/ CommitRedaction(r)
        \/ Mark(r) \/ Delete(r) \/ StoreFails(r)

Spec == Init /\ [][Next]_vars

-----------------------------------------------------------------------------
(* Properties. *)

(* A payload taken out by a redaction is never mistaken for a lost object: *)
(* whatever fails and whoever redacts, the marker is there before the      *)
(* payload is gone, and so it is when ReadGroup looks for it.              *)
NeverLost ==
    /\ \A s \in Groups : payload[s] = None => s \in marked
    /\ result # "lost"

(* ReadGroup answers ErrGroupRedacted "for g from then on" (redact.go:16): *)
(* a read begun after a redaction succeeded gets no payload, unless        *)
(* AppendGroup was given the sequence of the redacted group again.         *)
RedactedForGood == after => result # "payload"

(* One record is redacted once: a second redaction of it is committed only *)
(* by a retry of a request that failed after its commit.                   *)
RedactedOnce ==
    \A s \in Groups :
        Cardinality({i \in DOMAIN rows : rows[i].redacts = s}) <=
            1 + Cardinality({r \in failed : target[r] = s})

(* No redaction names another redaction, whatever was marked or deleted    *)
(* since the request looked its group up.                                  *)
RedactsRecords ==
    \A i, j \in DOMAIN rows : rows[i].redacts = rows[j].seq => rows[j].redacts = 0

===============================================================================
