-------------------------------- MODULE Ingest --------------------------------
(***************************************************************************)
(* The HTTP handler that records into one track (ingest/handler.go):       *)
(* requests that create the track or record into it run at the same time,  *)
(* share the one writer the handler keeps for the track, and are answered  *)
(* once their record is committed.  Handler.mu guards the table of tracks  *)
(* and is held for one step at a time; track.mu (lock) is held across the  *)
(* steps of a record.  Tracks do not share state, so one stands for all.   *)
(*                                                                         *)
(* The ledger is what EpochLog shows it to be with one writer.  A group is *)
(* its delta number, and its sequence: the handler uses Append, and the    *)
(* objects failed appends leave behind are EpochLog's.                     *)
(***************************************************************************)
EXTENDS Integers, Sequences, FiniteSets

CONSTANTS
    Requests,       \* every one is one HTTP request
    Creates,        \* those that are PUTs; the others record
    Key,            \* Key[r]: the sender and Idempotency-Key of r, or NoKey
    NoKey,
    KeyLimit,       \* idempotencyKeys, handler.go:50
    None

ASSUME IngestAssumption ==
    /\ IsFiniteSet(Requests) /\ Creates \subseteq Requests
    /\ None \notin Requests /\ None \notin Nat
    /\ KeyLimit \in Nat \ {0}
    /\ DOMAIN Key = Requests

VARIABLES
    \* the store
    exists,     \* the track has been created
    log,        \* the records committed, as the requests that sent them
    \* the handler's track
    open,       \* it is in Handler.tracks
    users, lock,
    pos,        \* nextDelta of its writer
    stale,      \* of its writer
    replies,    \* replies[k]: the group answered to key k
    keys,
    \* the requests
    pc,
    found,      \* found[r]: the delta r's own recovery found to be next
    group,      \* group[r]: the group r's append committed
    answer,     \* answer[r]: the group r is answered with, 201
    \* history
    announced,  \* OnOpen has returned for this opening
    delivered,  \* the groups OnRecord was called with, in order
    forgotten,  \* the groups whose reply was evicted or closed away
    unanswered  \* the groups committed without the writer learning of it

store == <<exists, log>>
track == <<open, users, lock, pos, stale, replies, keys>>
requests == <<pc, found, group, answer>>
history == <<announced, delivered, forgotten, unanswered>>
vars == <<store, track, requests, history>>

NoReplies == [k \in {} |-> 0]

Init ==
    /\ exists = FALSE /\ log = <<>>
    /\ open = FALSE /\ users = 0 /\ lock = None /\ pos = 0 /\ stale = FALSE
    /\ replies = NoReplies /\ keys = <<>>
    /\ pc = [r \in Requests |-> "new"]
    /\ found = [r \in Requests |-> 0]
    /\ group = [r \in Requests |-> None]
    /\ answer = [r \in Requests |-> None]
    /\ announced = FALSE /\ delivered = <<>> /\ forgotten = {} /\ unanswered = {}

GoTo(r, step) == pc' = [pc EXCEPT ![r] = step]

Remembered == {replies[k] : k \in DOMAIN replies}

-----------------------------------------------------------------------------
(* The request arrives; a PUT creates the track first, or finds it there.  *)
(* A create that fails may have reached the store.                         *)
Arrive(r) ==
    /\ pc[r] = "new"
    /\ \/ r \notin Creates /\ GoTo(r, "open") /\ UNCHANGED exists
       \/ r \in Creates /\ GoTo(r, "open") /\ exists' = TRUE
       \/ r \in Creates /\ GoTo(r, "done") /\ exists' \in {exists, TRUE}
    /\ UNCHANGED <<log, track, found, group, answer, history>>

-----------------------------------------------------------------------------
(* open *)

(* closeIdle forgets the track when no request holds it and the timeout    *)
(* has passed.  Time is not modelled: the timeout may have passed or not,  *)
(* even while a request is opening the track.                              *)
IdleTooLong == open /\ users = 0

Forget ==
    /\ open' = FALSE /\ pos' = 0 /\ stale' = FALSE
    /\ replies' = NoReplies /\ keys' = <<>>
    /\ announced' = FALSE
    /\ forgotten' = forgotten \cup Remembered
    /\ UNCHANGED <<users, lock, delivered, unanswered>>

(* A page of history lets go of an idle track as well. *)
ServeHistory ==
    /\ IdleTooLong
    /\ Forget
    /\ UNCHANGED <<store, requests>>

(* The track is found, or it must be opened from the store. *)
OpenFound(r) ==
    /\ pc[r] = "open"
    /\ open
    /\ users' = users + 1
    /\ GoTo(r, "body")
    /\ UNCHANGED <<store, open, lock, pos, stale, replies, keys, found, group, answer, history>>

OpenMissing(r) ==
    /\ pc[r] = "open"
    /\ \/ ~open /\ UNCHANGED <<track, history>>
       \/ IdleTooLong /\ Forget
    /\ GoTo(r, "read")
    /\ UNCHANGED <<store, found, group, answer>>

(* ledger.Open and Track.Writer, whose recovery ends at the first absent   *)
(* delta; or they fail, and the request is answered 404 or 500.            *)
OpenReads(r) ==
    /\ pc[r] = "read"
    /\ \/ /\ exists
          /\ found' = [found EXCEPT ![r] = Len(log)]
          /\ GoTo(r, "install")
       \/ /\ GoTo(r, "done")
          /\ UNCHANGED found
    /\ UNCHANGED <<store, track, group, answer, history>>

(* Mutant: the new track is not locked while OnOpen runs. *)
InstallUnlocked(r) ==
    /\ pc[r] = "install"
    /\ found' = [found EXCEPT ![r] = 0]
    /\ IF open
       THEN /\ users' = users + 1
            /\ GoTo(r, "body")
            /\ UNCHANGED <<open, pos>>
       ELSE /\ open' = TRUE
            /\ users' = 1
            /\ pos' = found[r]
            /\ GoTo(r, "announce")
    /\ UNCHANGED <<store, lock, stale, replies, keys, group, answer, history>>

(* Mutant: the request that finds the track open does not count itself. *)
InstallUncounted(r) ==
    /\ pc[r] = "install"
    /\ found' = [found EXCEPT ![r] = 0]
    /\ IF open
       THEN /\ GoTo(r, "body")
            /\ UNCHANGED <<open, users, lock, pos>>
       ELSE /\ open' = TRUE
            /\ users' = 1
            /\ lock' = r
            /\ pos' = found[r]
            /\ GoTo(r, "announce")
    /\ UNCHANGED <<store, stale, replies, keys, group, answer, history>>

(* The first request to get here has its writer kept, and holds the track  *)
(* until OnOpen has returned.                                              *)
Install(r) ==
    /\ pc[r] = "install"
    /\ found' = [found EXCEPT ![r] = 0]
    /\ IF open
       THEN /\ users' = users + 1
            /\ GoTo(r, "body")
            /\ UNCHANGED <<open, lock, pos, stale, replies, keys>>
       ELSE /\ open' = TRUE
            /\ users' = 1
            /\ lock' = r
            /\ pos' = found[r]
            /\ GoTo(r, "announce")
            /\ UNCHANGED <<stale, replies, keys>>
    /\ UNCHANGED <<store, group, answer, history>>

Announce(r) ==
    /\ pc[r] = "announce"
    /\ announced' = TRUE
    /\ lock' = None
    /\ GoTo(r, "body")
    /\ UNCHANGED <<store, open, users, pos, stale, replies, keys, found, group, answer,
                   delivered, forgotten, unanswered>>

(* Mutant: the track is let go of twice. *)
ReleaseTwice(r) ==
    /\ pc[r] = "release"
    /\ users' = users - 2
    /\ GoTo(r, "done")
    /\ UNCHANGED <<store, open, lock, pos, stale, replies, keys, found, group, answer, history>>

Release(r) ==
    /\ pc[r] = "release"
    /\ users' = users - 1
    /\ GoTo(r, "done")
    /\ UNCHANGED <<store, open, lock, pos, stale, replies, keys, found, group, answer, history>>

-----------------------------------------------------------------------------
(* serveRecord *)

(* The body is read and checked before the track is locked; a PUT has none *)
(* and is done with the track.                                             *)
ReadBody(r) ==
    /\ pc[r] = "body"
    /\ \/ r \notin Creates /\ GoTo(r, "lock")
       \/ GoTo(r, "release")
    /\ UNCHANGED <<store, track, found, group, answer, history>>

(* Mutant: the replies are looked at before the track is locked. *)
LockForgetful(r) ==
    /\ pc[r] = "lock"
    /\ lock = None
    /\ lock' = r
    /\ GoTo(r, "append")
    /\ UNCHANGED <<store, open, users, pos, stale, replies, keys, found, group, answer, history>>

(* Mutant: a record waits for another to reload the writer. *)
LockFresh(r) ==
    /\ pc[r] = "lock"
    /\ lock = None
    /\ ~stale
    /\ IF Key[r] \in DOMAIN replies
       THEN /\ answer' = [answer EXCEPT ![r] = replies[Key[r]]]
            /\ GoTo(r, "release")
            /\ UNCHANGED lock
       ELSE lock' = r /\ GoTo(r, "append") /\ UNCHANGED answer
    /\ UNCHANGED <<store, open, users, pos, stale, replies, keys, found, group, history>>

(* A retry is answered as the first was, a record past a limit with 429,   *)
(* both without appending.                                                 *)
Lock(r) ==
    /\ pc[r] = "lock"
    /\ lock = None
    /\ IF Key[r] \in DOMAIN replies
       THEN /\ answer' = [answer EXCEPT ![r] = replies[Key[r]]]
            /\ GoTo(r, "release")
            /\ UNCHANGED lock
       ELSE /\ \/ lock' = r /\ GoTo(r, "append")
               \/ GoTo(r, "release") /\ UNCHANGED lock
            /\ UNCHANGED answer
    /\ UNCHANGED <<store, open, users, pos, stale, replies, keys, found, group, history>>

(* reloadIfStale, as the first thing Append does.  It may fail, and then   *)
(* nothing is committed.                                                   *)
Reload(r) ==
    /\ pc[r] = "append"
    /\ stale
    /\ \/ pos' = Len(log) /\ stale' = FALSE /\ UNCHANGED <<lock, pc>>
       \/ lock' = None /\ GoTo(r, "release") /\ UNCHANGED <<pos, stale>>
    /\ UNCHANGED <<store, open, users, replies, keys, found, group, answer, history>>

(* A writer that recovered long ago picks a sequence that is taken, by its *)
(* group object; Append then re-reads the epoch and picks again.           *)
AppendCollides(r) ==
    /\ pc[r] = "append"
    /\ ~stale
    /\ pos < Len(log)
    /\ stale' = TRUE
    /\ UNCHANGED <<store, open, users, lock, pos, replies, keys, requests, history>>

(* Mutant: the commit overwrites what is there. *)
AppendCommitsOver(r) ==
    /\ pc[r] = "append"
    /\ ~stale
    /\ log' = IF pos = Len(log) THEN Append(log, r) ELSE [log EXCEPT ![pos + 1] = r]
    /\ pos' = pos + 1
    /\ group' = [group EXCEPT ![r] = pos]
    /\ GoTo(r, "deliver")
    /\ UNCHANGED <<exists, open, users, lock, stale, replies, keys, found, answer, history>>

(* The delta is created.  An append that committed and could not seal      *)
(* returns the group, and leaves the writer stale.                         *)
AppendCommits(r) ==
    /\ pc[r] = "append"
    /\ ~stale
    /\ pos = Len(log)
    /\ log' = Append(log, r)
    /\ pos' = pos + 1
    /\ stale' \in BOOLEAN
    /\ group' = [group EXCEPT ![r] = pos]
    /\ GoTo(r, "deliver")
    /\ UNCHANGED <<exists, open, users, lock, replies, keys, found, answer, history>>

(* A request of the append failed and nothing was committed. *)
AppendFails(r) ==
    /\ pc[r] = "append"
    /\ ~stale
    /\ stale' \in BOOLEAN
    /\ lock' = None
    /\ GoTo(r, "release")
    /\ UNCHANGED <<store, open, users, pos, replies, keys, found, group, answer, history>>

(* The commit landed, its answer is lost and the delta cannot be read back *)
(* either: an error to the caller.                                         *)
AppendUnknown(r) ==
    /\ pc[r] = "append"
    /\ ~stale
    /\ pos = Len(log)
    /\ log' = Append(log, r)
    /\ unanswered' = unanswered \cup {pos}
    /\ stale' = TRUE
    /\ lock' = None
    /\ GoTo(r, "release")
    /\ UNCHANGED <<exists, open, users, pos, replies, keys, found, group, answer,
                   announced, delivered, forgotten>>

(* Mutant: the oldest reply is dropped, its place in keys is not. *)
RememberLeaks(k, g) ==
    /\ replies' = [j \in DOMAIN replies \cup {k} |-> IF j = k THEN g ELSE replies[j]]
    /\ keys' = Append(keys, k)
    /\ UNCHANGED forgotten

(* remember: the oldest key makes room when the limit is reached. *)
Remember(k, g) ==
    LET full == Len(keys) = KeyLimit
        left == IF full THEN DOMAIN replies \ {Head(keys)} ELSE DOMAIN replies
    IN  /\ replies' = [j \in left \cup {k} |-> IF j = k THEN g ELSE replies[j]]
        /\ keys' = Append(IF full THEN Tail(keys) ELSE keys, k)
        /\ forgotten' = forgotten \cup (IF full THEN {replies[Head(keys)]} ELSE {})

(* OnRecord is called and the reply remembered before the track is         *)
(* unlocked; then the request is answered 201.                             *)
Deliver(r) ==
    /\ pc[r] = "deliver"
    /\ delivered' = Append(delivered, group[r])
    /\ IF Key[r] = NoKey
       THEN UNCHANGED <<replies, keys, forgotten>>
       ELSE Remember(Key[r], group[r])
    /\ answer' = [answer EXCEPT ![r] = group[r]]
    /\ group' = [group EXCEPT ![r] = None]
    /\ lock' = None
    /\ GoTo(r, "release")
    /\ UNCHANGED <<store, open, users, pos, stale, found, announced, unanswered>>

-----------------------------------------------------------------------------
(* The process dies, and another takes its place. *)
Crash ==
    /\ \E r \in Requests : pc[r] \notin {"new", "done"}
    /\ open' = FALSE /\ users' = 0 /\ lock' = None /\ pos' = 0 /\ stale' = FALSE
    /\ replies' = NoReplies /\ keys' = <<>>
    /\ pc' = [r \in Requests |-> IF pc[r] = "new" THEN "new" ELSE "done"]
    /\ found' = [r \in Requests |-> 0]
    /\ group' = [r \in Requests |-> None]
    /\ announced' = FALSE
    /\ forgotten' = forgotten \cup Remembered \cup
                     {group[r] : r \in {q \in Requests : group[q] # None}}
    /\ UNCHANGED <<store, answer, delivered, unanswered>>

Serve(r) ==
    \/ Arrive(r) \/ OpenFound(r) \/ OpenMissing(r) \/ OpenReads(r) \/ Install(r)
    \/ Announce(r) \/ ReadBody(r) \/ Lock(r) \/ Reload(r)
    \/ AppendCollides(r) \/ AppendCommits(r) \/ AppendFails(r) \/ AppendUnknown(r)
    \/ Deliver(r) \/ Release(r)

Next == (\E r \in Requests : Serve(r)) \/ ServeHistory \/ Crash

Spec == Init /\ [][Next]_vars

(* Every request is served on; the goroutines that wait for a mutex get it *)
(* in turn.                                                                *)
FairSpec == Spec /\ \A r \in Requests : WF_vars(Serve(r))

-----------------------------------------------------------------------------
(* Properties. *)

Holding == {"announce", "body", "lock", "append", "deliver", "release"}

(* The variables stay in their types. *)
TypeOK ==
    /\ exists \in BOOLEAN /\ open \in BOOLEAN /\ stale \in BOOLEAN /\ announced \in BOOLEAN
    /\ log \in Seq(Requests)
    /\ users \in 0 .. Cardinality(Requests)
    /\ lock \in Requests \cup {None}
    /\ pos \in 0 .. Cardinality(Requests)
    /\ pc \in [Requests -> Holding \cup {"new", "open", "read", "install", "done"}]
    /\ \A r \in Requests : {group[r], answer[r]} \subseteq Nat \cup {None}

(* A track some request holds is never closed under it, and the count that *)
(* closeIdle trusts is that of the requests holding it: a double or a      *)
(* missing release would close a track in use, or never.                   *)
HeldStaysOpen ==
    /\ users = Cardinality({r \in Requests : pc[r] \in Holding})
    /\ users > 0 => open
    /\ lock # None => pc[lock] \in {"announce", "append", "deliver"}

(* OnRecord sees the records of a track in commit order, each once, and    *)
(* none before OnOpen has returned for the opening it belongs to.          *)
DeliveredInOrder ==
    /\ \A i \in 1 .. Len(delivered) - 1 : delivered[i] < delivered[i + 1]
    /\ \A r \in Requests : pc[r] \in {"append", "deliver"} => announced

Same(r, q) == Key[r] # NoKey /\ Key[r] = Key[q]

(* Every record answered 201 is in the log under the group it was answered *)
(* with, its own or the one its key was first used for, and OnRecord was   *)
(* called with it.                                                         *)
AnsweredStored ==
    \A r \in Requests : answer[r] # None =>
        /\ answer[r] < Len(log)
        /\ log[answer[r] + 1] = r \/ Same(log[answer[r] + 1], r)
        /\ \E i \in DOMAIN delivered : delivered[i] = answer[r]

(* The handler remembers as many keys as it may, each once, with its       *)
(* record, so that the eviction of one never drops another's reply.        *)
KeysRemembered ==
    /\ Len(keys) <= KeyLimit
    /\ Cardinality(DOMAIN replies) = Len(keys)
    /\ \A i \in DOMAIN keys :
        keys[i] \in DOMAIN replies /\ Key[log[replies[keys[i]] + 1]] = keys[i]

(* A key's record is stored again only after its reply was forgotten, or   *)
(* after an append whose commit went unnoticed: two requests with one key  *)
(* that are open at the same time store one record.                        *)
StoredOnceKnown ==
    \A i, j \in DOMAIN log :
        i < j /\ Same(log[i], log[j]) => i - 1 \in forgotten \cup unanswered

(* Every request that arrives is answered: none waits for ever on a lock   *)
(* that a refused, failed or answered record kept.                         *)
Served == \A r \in Requests : pc[r] # "new" ~> pc[r] = "done"

===============================================================================
