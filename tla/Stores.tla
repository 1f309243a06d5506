-------------------------------- MODULE Stores --------------------------------
(***************************************************************************)
(* The four backends of store.Store (ledger/store): mem, a map under a     *)
(* mutex; fs, files; db, rows of a table; and bucket, an S3 service, with  *)
(* "missing" for a bucket that does not exist.  Callers of one process     *)
(* work on one key at the same time; the backend, and the use the ledger   *)
(* makes of the key, are chosen once:                                      *)
(*    once   created, read, deleted (groups, manifests, markers)           *)
(*    root   created, read, swapped against a version had (root, log)      *)
(*    head   swapped, created by a swap that expects nothing               *)
(* A request to a service or a system call is one step, and may fail, with *)
(* or without effect where the answer can be lost.                         *)
(***************************************************************************)
EXTENDS Integers

CONSTANTS
    Callers, Values,
    MaxWrites,          \* bound: writes of a behaviour
    ConflictAttempts,   \* conflictAttempts, bucket.go:57
    Absent, Torn, None

(* What a key may hold: data, the version by which Swap names it, the      *)
(* number of the write that made it, and whether it survives a crash.      *)
Revisions ==
    [data : Values \cup {Torn, None}, version : Values \cup {Torn, None} \cup Nat,
     rev : Nat, safe : BOOLEAN]

ASSUME StoresAssumption ==
    /\ MaxWrites \in Nat /\ ConflictAttempts \in Nat \ {0}
    /\ Torn \notin Values /\ None \notin Callers /\ Absent \notin Revisions

VARIABLES
    backend, use,
    object,     \* what the key holds, Absent when nothing
    lock,       \* fs.Store.mu
    writes,     \* revisions made so far, mem.Store.nextVersion
    pc, call,
    had,        \* had[c]: the revision c read or wrote last
    tries,      \* tries[c]: conditional PUTs made by the call
    result,
    \* history
    made,       \* made[c]: the revision the call made, 0 when none
    replaced,   \* replaced[c]: what it put that in place of
    during,     \* what was true of the key at some time during the call
    confirmed   \* the revisions whose write was answered nil

callers == <<pc, call, had, tries, result, made, replaced>>
vars == <<backend, use, object, lock, writes, callers, during, confirmed>>

NoCall == [op |-> "none", data |-> None, base |-> Absent]

Init ==
    /\ backend \in {"mem", "fs", "db", "bucket", "missing"}
    /\ use \in {"once", "root", "head"}
    /\ object = Absent /\ lock = None /\ writes = 0
    /\ pc = [c \in Callers |-> "idle"] /\ call = [c \in Callers |-> NoCall]
    /\ had = [c \in Callers |-> Absent] /\ tries = [c \in Callers |-> 0]
    /\ result = [c \in Callers |-> "none"]
    /\ made = [c \in Callers |-> 0] /\ replaced = [c \in Callers |-> None]
    /\ during = [c \in Callers |-> {}] /\ confirmed = {}

-----------------------------------------------------------------------------
(* A call.  base is the revision whose version Swap is given, Absent for   *)
(* NoVersion and for a Create.                                             *)

Set(f, c, v) == [f EXCEPT ![c] = v]

Facts(call_, o) ==
    IF o = Absent THEN {"absent"}
    ELSE {"present"} \cup
         (IF call_.base # Absent /\ o.version = call_.base.version THEN {} ELSE {"other"})

Calls(c) ==
    [op : {"get"}, data : {None}, base : {Absent}]
    \cup (IF use = "once" THEN [op : {"delete"}, data : {None}, base : {Absent}] ELSE {})
    \cup (IF writes >= MaxWrites THEN {}
          ELSE (IF use = "head" THEN {} ELSE [op : {"create"}, data : Values, base : {Absent}])
               \cup (IF use = "once" \/ (use = "root" /\ had[c] = Absent) THEN {}
                     ELSE [op : {"swap"}, data : Values, base : {had[c]}]))

Begin(c) ==
    /\ pc[c] = "idle"
    /\ \E new \in Calls(c) :
        /\ call' = Set(call, c, new)
        /\ during' = Set(during, c, Facts(new, object))
    /\ pc' = Set(pc, c, "call")
    /\ tries' = Set(tries, c, 0) /\ result' = Set(result, c, "none")
    /\ made' = Set(made, c, 0) /\ replaced' = Set(replaced, c, None)
    /\ UNCHANGED <<backend, use, object, lock, writes, had, confirmed>>

At(c, step, ops) == pc[c] = step /\ call[c].op \in ops
On(backends) == backend \in backends /\ UNCHANGED <<backend, use>>

Return(c, answer) ==
    /\ pc' = Set(pc, c, "idle")
    /\ result' = Set(result, c, answer)
    /\ UNCHANGED <<call, tries>>

(* The call is answered and the key is as it was. *)
Answer(c, answer) ==
    /\ Return(c, answer)
    /\ UNCHANGED <<object, writes, had, made, replaced, during, confirmed>>

(* The key holds o from now on. *)
Becomes(o) ==
    /\ object' = o
    /\ during' = [c \in Callers |->
                    IF pc[c] = "idle" THEN during[c] ELSE during[c] \cup Facts(call[c], o)]

(* The version of a new revision: unique in mem, counted by row in db, and *)
(* a digest of the data in fs and in bucket, where it is the ETag.         *)
Version(data) ==
    CASE backend = "mem" -> writes + 1
      [] backend = "db" -> IF object = Absent THEN 1 ELSE object.version + 1
      [] OTHER -> data

Revision(data) == [data |-> data, version |-> Version(data), rev |-> writes + 1, safe |-> TRUE]

(* A revision with the data of the call is put in place, and had by c when *)
(* it is told so.                                                          *)
Put(c, answer) ==
    LET new == Revision(call[c].data)
    IN  /\ Becomes(new)
        /\ writes' = writes + 1
        /\ made' = Set(made, c, writes + 1)
        /\ replaced' = Set(replaced, c, object)
        /\ had' = IF answer = "nil" THEN Set(had, c, new) ELSE had
        /\ confirmed' = IF answer = "nil" THEN confirmed \cup {writes + 1} ELSE confirmed
        /\ Return(c, answer)

(* The condition of a Create or a Swap. *)
Holds(c) ==
    IF call[c].base = Absent THEN object = Absent
    ELSE object # Absent /\ object.version = call[c].base.version

(* How a Create or a Swap is refused. *)
Refusal(c) ==
    IF call[c].op = "create" THEN "exist"
    ELSE IF object = Absent THEN "notexist" ELSE "mismatch"

-----------------------------------------------------------------------------
(* Get and Delete, one request in every backend.  A caller that reads an   *)
(* unfinished file cannot decode it and has nothing of it.                 *)

Get(c) ==
    /\ At(c, "call", {"get"})
    /\ On({"mem", "fs", "db", "bucket"})
    /\ had' = IF object # Absent /\ object.data = Torn THEN had ELSE Set(had, c, object)
    /\ Return(c, IF object = Absent THEN "notexist" ELSE "nil")
    /\ UNCHANGED <<object, lock, writes, made, replaced, during, confirmed>>

(* Deleting an absent key is no error; the answer may be lost. *)
Delete(c) ==
    /\ At(c, "call", {"delete"})
    /\ On({"mem", "fs", "db", "bucket"})
    /\ Becomes(Absent)
    /\ \/ Return(c, "nil")
       \/ backend \in {"db", "bucket"} /\ Return(c, "error")
    /\ UNCHANGED <<lock, writes, had, made, replaced, confirmed>>

(* mem: Create and Swap hold the mutex from end to end. *)
MemWrite(c) ==
    /\ At(c, "call", {"create", "swap"})
    /\ On({"mem"})
    /\ IF Holds(c) THEN Put(c, "nil") ELSE Answer(c, Refusal(c))
    /\ UNCHANGED lock

-----------------------------------------------------------------------------
(* db: an INSERT that a conflict turns into nothing, or an UPDATE of the   *)
(* row that has the version.  A Swap that changed no row asks whether      *)
(* there is one.                                                           *)

DbWrite(c) ==
    /\ At(c, "call", {"create", "swap"})
    /\ On({"db"})
    /\ IF Holds(c) THEN Put(c, "nil") \/ Put(c, "error")
       ELSE IF call[c].base # Absent
       THEN /\ pc' = Set(pc, c, "exists")
            /\ UNCHANGED <<object, writes, call, had, tries, result, made, replaced,
                           during, confirmed>>
       ELSE Answer(c, IF call[c].op = "create" THEN "exist" ELSE "mismatch")
    /\ UNCHANGED lock

(* Mutant: the row is taken to be absent. *)
DbExistsNot(c) ==
    /\ At(c, "exists", {"swap"})
    /\ On({"db"})
    /\ Answer(c, "notexist")
    /\ UNCHANGED lock

DbExists(c) ==
    /\ At(c, "exists", {"swap"})
    /\ On({"db"})
    /\ Answer(c, Refusal(c))
    /\ UNCHANGED lock

-----------------------------------------------------------------------------
(* bucket: a conditional PUT, sent again when the service reports a        *)
(* conflict with another one.  412 is a condition not met, 404 an If-Match *)
(* that found nothing.                                                     *)

BucketPut(c) ==
    /\ At(c, "call", {"create", "swap"})
    /\ On({"bucket"})
    /\ IF Holds(c) THEN Put(c, "nil") \/ Put(c, "error") ELSE Answer(c, Refusal(c))
    /\ UNCHANGED lock

BucketConflict(c) ==
    /\ At(c, "call", {"create", "swap"})
    /\ On({"bucket"})
    /\ \E d \in Callers \ {c} : At(d, "call", {"create", "swap", "delete"})
    /\ IF tries[c] + 1 < ConflictAttempts
       THEN tries' = Set(tries, c, tries[c] + 1) /\ UNCHANGED <<pc, call, result>>
       ELSE Return(c, "error")
    /\ UNCHANGED <<object, lock, writes, had, made, replaced, during, confirmed>>

(* A bucket that is not there answers 404 to everything, which Create does *)
(* not take for an error.                                                  *)
BucketMissing(c) ==
    /\ pc[c] = "call"
    /\ On({"missing"})
    /\ Answer(c, IF call[c].op \in {"create", "delete"} THEN "nil" ELSE "notexist")
    /\ UNCHANGED lock

-----------------------------------------------------------------------------
(* fs.  Create makes the file, writes it and syncs it, without the mutex;  *)
(* what it writes goes to the file it made, wherever that is by now.       *)

FsCreate(c) ==
    /\ At(c, "call", {"create"})
    /\ On({"fs"})
    /\ IF object # Absent
       THEN Answer(c, "exist")
       ELSE /\ Becomes([Revision(Torn) EXCEPT !.safe = FALSE])
            /\ writes' = writes + 1
            /\ made' = Set(made, c, writes + 1)
            /\ replaced' = Set(replaced, c, object)
            /\ pc' = Set(pc, c, "write")
            /\ UNCHANGED <<call, had, tries, result, confirmed>>
    /\ UNCHANGED lock

Mine(c) == object # Absent /\ object.rev = made[c]

FsWrite(c) ==
    /\ pc[c] = "write"
    /\ On({"fs"})
    /\ IF Mine(c)
       THEN Becomes([object EXCEPT !.data = call[c].data, !.version = call[c].data])
       ELSE UNCHANGED <<object, during>>
    /\ pc' = Set(pc, c, "sync")
    /\ UNCHANGED <<lock, writes, call, had, tries, result, made, replaced, confirmed>>

(* Mutant: the file is not synced. *)
FsSyncNot(c) ==
    /\ pc[c] = "sync"
    /\ On({"fs"})
    /\ Return(c, "nil")
    /\ confirmed' = confirmed \cup {made[c]}
    /\ UNCHANGED <<object, lock, writes, had, made, replaced, during>>

FsSync(c) ==
    /\ pc[c] = "sync"
    /\ On({"fs"})
    /\ object' = IF Mine(c) THEN [object EXCEPT !.safe = TRUE] ELSE object
    /\ had' = Set(had, c, [data |-> call[c].data, version |-> call[c].data,
                           rev |-> made[c], safe |-> TRUE])
    /\ confirmed' = confirmed \cup {made[c]}
    /\ Return(c, "nil")
    /\ UNCHANGED <<lock, writes, made, replaced, during>>

(* Mutant: the file is read and compared before the mutex is taken. *)
FsSwapUnlocked(c) ==
    /\ At(c, "call", {"swap"})
    /\ On({"fs"})
    /\ IF Holds(c)
       THEN /\ pc' = Set(pc, c, "rename")
            /\ UNCHANGED <<object, writes, call, had, tries, result, made, replaced,
                           during, confirmed>>
       ELSE Answer(c, Refusal(c))
    /\ UNCHANGED lock

(* Swap reads and compares the file under the mutex, and keeps it ... *)
FsSwap(c) ==
    /\ At(c, "call", {"swap"})
    /\ On({"fs"})
    /\ lock = None
    /\ IF Holds(c)
       THEN /\ lock' = c
            /\ pc' = Set(pc, c, "rename")
            /\ UNCHANGED <<object, writes, call, had, tries, result, made, replaced,
                           during, confirmed>>
       ELSE Answer(c, Refusal(c)) /\ UNCHANGED lock

(* ... until it has renamed a new file, written and synced, over it. *)
FsRename(c) ==
    /\ pc[c] = "rename"
    /\ On({"fs"})
    /\ Put(c, "nil")
    /\ lock' = None

-----------------------------------------------------------------------------
(* A step fails before it has an effect, or ctx is done; a file that was   *)
(* made stays, and the mutex is let go of.                                 *)
Fails(c) ==
    /\ pc[c] # "idle"
    /\ Answer(c, "error")
    /\ lock' = IF lock = c THEN None ELSE lock
    /\ UNCHANGED <<backend, use>>

(* The machine goes down under the files.  Of a file that was not synced   *)
(* all, a part or nothing is left; a rename is taken to be as durable as   *)
(* the file it names.                                                      *)
Crash ==
    /\ On({"fs"})
    /\ object' \in {object} \cup
        (IF object = Absent \/ object.safe THEN {}
         ELSE {Absent, [object EXCEPT !.data = Torn, !.version = Torn]})
    /\ pc' = [c \in Callers |-> "idle"] /\ lock' = None
    /\ call' = [c \in Callers |-> NoCall] /\ had' = [c \in Callers |-> Absent]
    /\ result' = [c \in Callers |-> "none"]
    /\ UNCHANGED <<writes, tries, made, replaced, during, confirmed>>

Step(c) ==
    \/ Get(c) \/ Delete(c)
    \/ MemWrite(c) \/ DbWrite(c) \/ DbExists(c)
    \/ BucketPut(c) \/ BucketMissing(c)
    \/ FsCreate(c) \/ FsWrite(c) \/ FsSync(c) \/ FsSwap(c) \/ FsRename(c)

Next == Crash \/ \E c \in Callers : Begin(c) \/ Step(c) \/ BucketConflict(c) \/ Fails(c)

Spec == Init /\ [][Next]_vars

-----------------------------------------------------------------------------
(* Properties. *)

Answered(c, answers) == pc[c] = "idle" /\ result[c] \in answers

(* A Create or Swap answered nil put its data in place of what its caller  *)
(* had, so that no update is lost: of nothing, or of the revision it read, *)
(* or of one with the very data of it, as digests do not tell them apart.  *)
(* But for a bucket that does not exist, where a Create is answered nil    *)
(* and stores nothing.                                                     *)
NoUpdateLost ==
    \A c \in Callers :
        Answered(c, {"nil"}) /\ call[c].op \in {"create", "swap"} /\ backend # "missing" =>
            /\ made[c] # 0
            /\ LET base == call[c].base
               IN  IF base = Absent THEN replaced[c] = Absent
                   ELSE replaced[c] # Absent /\
                        (replaced[c].rev = base.rev \/ replaced[c].data = base.data)

(* A refusal tells the truth about some moment of the call, and means that *)
(* nothing was written: ErrExist, ErrNotExist and ErrVersionMismatch are   *)
(* what the ledger decides by.                                             *)
RefusalsTrue ==
    \A c \in Callers :
        /\ Answered(c, {"exist", "notexist", "mismatch"}) => made[c] = 0
        /\ Answered(c, {"exist"}) => "present" \in during[c]
        /\ Answered(c, {"notexist"}) => "absent" \in during[c]
        /\ Answered(c, {"mismatch"}) => "other" \in during[c]

(* An object whose Create or Swap was answered is whole from then on,      *)
(* after a crash too; only one whose Create did not finish may be torn.    *)
ConfirmedWhole == object # Absent /\ object.rev \in confirmed => object.data # Torn

===============================================================================
