-------------------------------- MODULE Limits --------------------------------
(***************************************************************************)
(* How a track of the ingest handler limits its records (ingest/limit.go): *)
(* a token bucket for the track and one for each sender, refilled when     *)
(* they are looked at, all read and changed under the track's mutex.  The  *)
(* track keeps SenderBuckets buckets before it forgets those that are      *)
(* full, and it forgets all of them when it is closed for being idle.      *)
(* Tokens are counted in shares of 1/Token, and time in seconds.           *)
(***************************************************************************)
EXTENDS Integers, Sequences, FiniteSets, FiniteSetsExt, Functions

CONSTANTS
    Senders,        \* the senders, NoSender for records that name none
    NoSender,
    TrackLimit,     \* [rate, burst]: shares gained in a second, tokens held
    SenderLimit,
    Token,          \* shares in a token
    SenderBuckets,  \* buckets kept before full ones are forgotten
    IdleTimeout,    \* Options.TrackIdleTimeout
    MaxTime         \* bound: seconds of a behaviour

(* Both limits are active, and a track is idle long enough before it is    *)
(* closed for its buckets to fill.                                         *)
ASSUME LimitsAssumption ==
    /\ NoSender \in Senders
    /\ {Token, SenderBuckets, IdleTimeout, MaxTime} \subseteq Nat \ {0}
    /\ \A l \in {TrackLimit, SenderLimit} :
        /\ l.rate \in Nat \ {0} /\ l.burst \in Nat \ {0}
        /\ IdleTimeout * l.rate >= l.burst * Token

VARIABLES
    now,
    limit,          \* the track's bucket
    senders,        \* the buckets kept, by sender
    used,           \* when the track's last request ended
    admitted,       \* admitted[s]: when the records of s were admitted
    promised        \* promised[s]: when a refused s was told to come back, 0 if it was not

vars == <<now, limit, senders, used, admitted, promised>>

-----------------------------------------------------------------------------
(* The bucket that has not started: its first refill fills it. *)
Unstarted == [tokens |-> 0, last |-> -1]

Refill(b, l) ==
    [tokens |-> IF b.last = -1 THEN l.burst * Token
                ELSE Min({l.burst * Token, b.tokens + (now - b.last) * l.rate}),
     last |-> now]

(* The shares a bucket lacks, and the seconds it takes to gain them, as    *)
(* Retry-After has them: rounded down, and one more.                       *)
Lacks(b) == b.tokens < Token
Wait(b, l) == IF Lacks(b) THEN (Token - b.tokens) \div l.rate + 1 ELSE 0

Full(b, l) == b.tokens >= l.burst * Token

(* Mutant: a crowded track forgets every bucket. *)
SenderBucketEager(s) ==
    IF s \in DOMAIN senders
    THEN [senders EXCEPT ![s] = Refill(@, SenderLimit)]
    ELSE LET crowded == Cardinality(DOMAIN senders) >= SenderBuckets
             kept == {t \in DOMAIN senders : ~crowded}
         IN  [t \in kept \cup {s} |->
                IF t = s THEN Refill(Unstarted, SenderLimit) ELSE senders[t]]

(* The buckets after senderBucket: s has one, refilled; one made for it    *)
(* when the track has enough of them puts out the full ones.               *)
SenderBucket(s) ==
    IF s \in DOMAIN senders
    THEN [senders EXCEPT ![s] = Refill(@, SenderLimit)]
    ELSE LET crowded == Cardinality(DOMAIN senders) >= SenderBuckets
             refilled == [t \in DOMAIN senders |->
                            IF crowded THEN Refill(senders[t], SenderLimit) ELSE senders[t]]
             kept == {t \in DOMAIN senders : ~crowded \/ ~Full(refilled[t], SenderLimit)}
         IN  [t \in kept \cup {s} |->
                IF t = s THEN Refill(Unstarted, SenderLimit) ELSE refilled[t]]

(* The buckets an admit for s looks at, and how long s must wait for them. *)
TrackBucket == Refill(limit, TrackLimit)
Buckets(s) == IF s = NoSender THEN senders ELSE SenderBucket(s)

(* Mutant: the sender's wait hides the track's. *)
WaitForBothLast(s) ==
    IF s # NoSender /\ Lacks(Buckets(s)[s])
    THEN Wait(Buckets(s)[s], SenderLimit) ELSE Wait(TrackBucket, TrackLimit)

WaitForBoth(s) ==
    Max({Wait(TrackBucket, TrackLimit),
         IF s = NoSender THEN 0 ELSE Wait(Buckets(s)[s], SenderLimit)})

-----------------------------------------------------------------------------
Init ==
    /\ now = 0
    /\ limit = Unstarted
    /\ senders = << >>
    /\ used = 0
    /\ admitted = [s \in Senders |-> <<>>]
    /\ promised = [s \in Senders |-> 0]

(* A record of s is admitted: it takes a token from both buckets. *)
Admit(s) ==
    /\ WaitForBoth(s) = 0
    /\ limit' = [TrackBucket EXCEPT !.tokens = @ - Token]
    /\ senders' = IF s = NoSender THEN senders
                  ELSE [Buckets(s) EXCEPT ![s].tokens = @ - Token]
    /\ used' = now
    /\ admitted' = [admitted EXCEPT ![s] = Append(@, now)]
    /\ promised' = [t \in Senders |-> 0]
    /\ UNCHANGED now

(* It is refused: the buckets are refilled, and no token is taken. *)
Refuse(s) ==
    /\ WaitForBoth(s) > 0
    /\ limit' = TrackBucket
    /\ senders' = Buckets(s)
    /\ used' = now
    /\ promised' = [promised EXCEPT ![s] = now + WaitForBoth(s)]
    /\ UNCHANGED <<now, admitted>>

(* closeIdle: the track goes, with its buckets; the next request opens it  *)
(* with none.                                                              *)
CloseIdle ==
    /\ now - used >= IdleTimeout
    /\ limit' = Unstarted
    /\ senders' = << >>
    /\ UNCHANGED <<now, used, admitted, promised>>

Tick ==
    /\ now < MaxTime
    /\ now' = now + 1
    /\ UNCHANGED <<limit, senders, used, admitted, promised>>

Next == Tick \/ CloseIdle \/ \E s \in Senders : Admit(s) \/ Refuse(s)

Spec == Init /\ [][Next]_vars

-----------------------------------------------------------------------------
(* Between any two of its records a limit admits no more than its burst    *)
(* and what it gained meanwhile.                                           *)
Keeps(count(_, _), times, l) ==
    \A t, u \in times : t <= u => count(t, u) * Token <= l.burst * Token + (u - t) * l.rate

Between(s, t, u) == Cardinality({i \in DOMAIN admitted[s] : t <= admitted[s][i] /\ admitted[s][i] <= u})

(* However the track's map forgot and remade its bucket, and across idle   *)
(* closes, no sender ever gets more records in than its limit allows in    *)
(* the time, and the track no more than its own ("It holds up to Burst     *)
(* tokens and gains Rate a second", limit.go).                             *)
LimitsKept ==
    /\ \A s \in Senders \ {NoSender} :
        Keeps(LAMBDA t, u : Between(s, t, u), Range(admitted[s]), SenderLimit)
    /\ Keeps(LAMBDA t, u : MapThenSumSet(LAMBDA s : Between(s, t, u), Senders),
             UNION {Range(admitted[s]) : s \in Senders}, TrackLimit)

(* A sender refused with a Retry-After that comes back no sooner is let    *)
(* in, if nobody was meanwhile: neither another's refusal nor a forgotten  *)
(* bucket puts it off.                                                     *)
RetryAfterKept ==
    \A s \in Senders : promised[s] # 0 /\ now >= promised[s] =>
        ~Lacks(TrackBucket) /\ (s # NoSender => ~Lacks(SenderBucket(s)[s]))

===============================================================================
