------------------------------- MODULE TimeIndex ------------------------------
(***************************************************************************)
(* Finding groups by time (ledger/reader.go, ledger/group.go): the ranges  *)
(* RangeMedia and RangeWallclock, which read only the sealed runs whose    *)
(* summary admits a match, and the seeks SeekMedia and SeekWallclock,      *)
(* which go from the newest epoch and the open region back.  The history   *)
(* they run on is any a Writer can make; a group is named by its epoch and *)
(* its place in it.  What they answer is compared with what the whole      *)
(* history, read group by group, has to say.                               *)
(***************************************************************************)
EXTENDS Integers, Sequences, FiniteSets, FiniteSetsExt

CONSTANTS
    MaxEpoch,       \* bound: epochs
    MaxGroups,      \* bound: groups of the track
    MaxTime,        \* bound: the windows and targets asked for
    Gaps,           \* bound: the media time producers leave between groups
    Durations,      \* the durations producers give, 0 for none
    Wallclocks,     \* the wallclock anchors of groups, 0 for none
    Timescale,      \* media units in a second
    NanosPerSecond,
    MaxInt64        \* the largest int64

ASSUME TimeIndexAssumption ==
    /\ {MaxEpoch, MaxGroups, MaxTime, Timescale, NanosPerSecond, MaxInt64} \subseteq Nat \ {0}
    /\ Gaps \subseteq Nat /\ Durations \subseteq Nat /\ Wallclocks \subseteq Nat

VARIABLE epochs     \* epochs[e]: its groups in commit order, and its sealed runs

Times == 0 .. MaxTime

-----------------------------------------------------------------------------
(* GroupInfo. *)

HasDuration(g) == g.duration > 0
HasWallclock(g) == g.wallclock # 0
MediaEnd(g) == g.media + g.duration

(* Whole seconds and the rest apart, so that nothing overflows; -1 is the  *)
(* failure.                                                                *)
MediaToNanos(units) ==
    LET seconds == units \div Timescale
        whole == seconds * NanosPerSecond
        fraction == ((units % Timescale) * NanosPerSecond) \div Timescale
    IN  IF seconds > MaxInt64 \div NanosPerSecond \/ whole > MaxInt64 - fraction
        THEN -1 ELSE whole + fraction

(* The end on the shared timeline, -1 when there is none. *)
WallclockEnd(g) ==
    LET nanos == MediaToNanos(g.duration)
    IN  IF ~HasWallclock(g) \/ ~HasDuration(g) \/ nanos = -1
           \/ g.wallclock > MaxInt64 - nanos
        THEN -1 ELSE g.wallclock + nanos

OverlapsMedia(g, from, to) ==
    IF HasDuration(g) THEN g.media < to /\ MediaEnd(g) > from
                      ELSE g.media >= from /\ g.media < to

OverlapsWallclock(g, from, to) ==
    /\ HasWallclock(g)
    /\ IF WallclockEnd(g) = -1 THEN g.wallclock >= from /\ g.wallclock < to
                               ELSE g.wallclock < to /\ WallclockEnd(g) > from

-----------------------------------------------------------------------------
(* The history. *)

(* The groups, as epoch and place. *)
All == UNION {{<<e, i>> : i \in DOMAIN epochs[e].groups} : e \in DOMAIN epochs}
Group(p) == epochs[p[1]].groups[p[2]]

OpenFrom(e) ==
    LET runs == epochs[e].runs IN IF runs = <<>> THEN 1 ELSE runs[Len(runs)].last + 1

(* Mutant: the summary begins with the last anchor of the run. *)
SummarizeLast(groups, first, last) ==
    LET walls == {groups[i].wallclock : i \in {j \in first .. last : HasWallclock(groups[j])}}
    IN  [first |-> first, last |-> last,
         mediaStart |-> groups[first].media, mediaEnd |-> MediaEnd(groups[last]),
         wallclockStart |-> IF walls = {} THEN 0 ELSE Max(walls)]

(* summarize: media time is in order, wallclock where there is one. *)
Summarize(groups, first, last) ==
    LET walls == {groups[i].wallclock : i \in {j \in first .. last : HasWallclock(groups[j])}}
    IN  [first |-> first, last |-> last,
         mediaStart |-> groups[first].media, mediaEnd |-> MediaEnd(groups[last]),
         wallclockStart |-> IF walls = {} THEN 0 ELSE Min(walls)]

Init == epochs = <<[groups |-> <<>>, runs |-> <<>>]>>

(* Groups of an epoch are serial in media time (checkOrder), and one whose *)
(* end is no int64 is refused (validate); the clock they are anchored by   *)
(* does not go back.                                                       *)
AppendGroup ==
    LET e == Len(epochs)
        groups == epochs[e].groups
        end == IF groups = <<>> THEN 0 ELSE MediaEnd(groups[Len(groups)])
        walls == {Group(p).wallclock : p \in All}
    IN  /\ Cardinality(All) < MaxGroups
        /\ \E gap \in Gaps, duration \in Durations, wallclock \in Wallclocks :
            /\ end + gap + duration <= MaxInt64
            /\ wallclock # 0 => \A w \in walls : w <= wallclock
            /\ epochs' = [epochs EXCEPT ![e].groups =
                    Append(@, [media |-> end + gap, duration |-> duration,
                               wallclock |-> wallclock])]

(* seal: the open region becomes a run. *)
Seal ==
    LET e == Len(epochs)
        groups == epochs[e].groups
    IN  /\ OpenFrom(e) <= Len(groups)
        /\ epochs' = [epochs EXCEPT ![e].runs =
                Append(@, Summarize(groups, OpenFrom(e), Len(groups)))]

NewEpoch ==
    /\ Len(epochs) < MaxEpoch
    /\ epochs' = Append(epochs, [groups |-> <<>>, runs |-> <<>>])

Next == AppendGroup \/ Seal \/ NewEpoch

Spec == Init /\ [][Next]_epochs

-----------------------------------------------------------------------------
(* Ranges.  walk reads the runs its caller includes, and the open region;  *)
(* filterGroups keeps what overlaps.                                       *)

(* Mutant: a run that reaches one unit into the window is not read. *)
IncludeMediaTight(run, from, to) == run.mediaStart < to /\ run.mediaEnd > from + 1

IncludeMedia(run, from, to) == run.mediaStart < to /\ run.mediaEnd > from

IncludeWallclock(run, from, to) == run.wallclockStart = 0 \/ run.wallclockStart < to

Runs == UNION {{e} \X DOMAIN epochs[e].runs : e \in DOMAIN epochs}

Run(r) == epochs[r[1]].runs[r[2]]

Walked(included) ==
    {p \in All :
        \/ p[2] >= OpenFrom(p[1])
        \/ \E r \in included :
                r[1] = p[1] /\ Run(r).first <= p[2] /\ p[2] <= Run(r).last}

RangeMedia(from, to) ==
    {p \in Walked({r \in Runs : IncludeMedia(Run(r), from, to)}) :
        OverlapsMedia(Group(p), from, to)}

RangeWallclock(from, to) ==
    {p \in Walked({r \in Runs : IncludeWallclock(Run(r), from, to)}) :
        OverlapsWallclock(Group(p), from, to)}

-----------------------------------------------------------------------------
(* Seeks, on the media and on the wallclock timeline. *)

None == <<0, 0>>

Anchor(kind, g) == IF kind = "media" THEN g.media ELSE g.wallclock
HasAnchor(kind, g) == kind = "media" \/ HasWallclock(g)

(* May the run hold a group anchored at or before target? *)
MayHold(kind, run, target) ==
    IF kind = "media" THEN run.mediaStart <= target
                      ELSE run.wallclockStart = 0 \/ run.wallclockStart <= target

(* consider: of the groups from first to last anchored at or before target *)
(* the one anchored last, and the later of two anchored alike.             *)
Considered(kind, e, first, last, target) ==
    LET at(i) == Anchor(kind, epochs[e].groups[i])
        hits == {i \in first .. last :
                    HasAnchor(kind, epochs[e].groups[i]) /\ at(i) <= target}
    IN  {i \in hits : \A j \in hits : at(j) < at(i) \/ (at(j) = at(i) /\ j <= i)}

(* Mutant: the oldest run is searched first. *)
SeekWithinEpochOldest(kind, e, target) ==
    LET open == Considered(kind, e, OpenFrom(e), Len(epochs[e].groups), target)
        runs == epochs[e].runs
        held(r) == Considered(kind, e, runs[r].first, runs[r].last, target)
        good == {r \in DOMAIN runs : MayHold(kind, runs[r], target) /\ held(r) # {}}
    IN  IF open # {} \/ good = {} THEN open ELSE held(Min(good))

(* The open region, and without a match there the sealed runs from the     *)
(* newest back to the first that has one.                                  *)
SeekWithinEpoch(kind, e, target) ==
    LET open == Considered(kind, e, OpenFrom(e), Len(epochs[e].groups), target)
        runs == epochs[e].runs
        held(r) == Considered(kind, e, runs[r].first, runs[r].last, target)
        good == {r \in DOMAIN runs : MayHold(kind, runs[r], target) /\ held(r) # {}}
    IN  IF open # {} \/ good = {} THEN open ELSE held(Max(good))

(* The end a target must not be past, when it is known. *)
End(kind, g) ==
    IF kind = "wallclock" THEN WallclockEnd(g) ELSE IF HasDuration(g) THEN MediaEnd(g) ELSE -1

SeekTime(kind, target) ==
    LET good == {e \in DOMAIN epochs : SeekWithinEpoch(kind, e, target) # {}}
        e == Max(good)
        best == <<e, CHOOSE i \in SeekWithinEpoch(kind, e, target) : TRUE>>
        end == End(kind, Group(best))
    IN  IF good = {} \/ (end # -1 /\ target >= end) THEN None ELSE best

-----------------------------------------------------------------------------
(* Properties. *)

(* The instants a group takes up, one when its extent is not known or is   *)
(* past the largest int64.                                                 *)
Instants(kind, g) ==
    LET at == Anchor(kind, g)
        extent == IF kind = "media" THEN g.duration
                  ELSE (g.duration * NanosPerSecond) \div Timescale
    IN  IF ~HasAnchor(kind, g) THEN {}
        ELSE IF ~HasDuration(g) \/ at + extent > MaxInt64 THEN {at}
        ELSE at .. at + extent - 1

Within(kind, from, to) == {p \in All : Instants(kind, Group(p)) \cap (from .. to - 1) # {}}

(* The groups without duration at the very end of a sealed run, which the  *)
(* summary of the run does not reach past.                                 *)
SealedPoints(at) ==
    {p \in All : \E r \in DOMAIN epochs[p[1]].runs :
        LET run == epochs[p[1]].runs[r]
        IN  /\ run.first <= p[2] /\ p[2] <= run.last
            /\ run.mediaEnd = at
            /\ ~HasDuration(Group(p)) /\ Group(p).media = at}

(* RangeMedia yields every group some instant of which is in the window,   *)
(* and no run that holds one is passed over for its summary, but for one   *)
(* case: the points a run ends with, when the window begins at them.       *)
RangeMediaComplete ==
    \A from, to \in Times :
        from < to => RangeMedia(from, to) = Within("media", from, to) \ SealedPoints(from)

(* RangeWallclock likewise, for groups with and without anchor or extent,  *)
(* and at the limit of an int64.                                           *)
RangeWallclockComplete ==
    \A from, to \in Times :
        from < to => RangeWallclock(from, to) = Within("wallclock", from, to)

(* The last group anchored at or before target in the newest epoch that    *)
(* has one.                                                                *)
Latest(kind, target) ==
    LET before == {p \in All : HasAnchor(kind, Group(p)) /\ Anchor(kind, Group(p)) <= target}
    IN  {p \in before : \A q \in before : q[1] < p[1] \/ (q[1] = p[1] /\ q[2] <= p[2])}

(* A seek lands on the last group anchored at or before its target, in the *)
(* newest epoch that has one, however the epoch was cut into runs; or it   *)
(* finds none, and then there is none or the target is past its end.       *)
SeeksLand ==
    \A kind \in {"media", "wallclock"}, target \in Times :
        LET found == SeekTime(kind, target)
        IN  IF found = None
            THEN \A p \in Latest(kind, target) : target \notin Instants(kind, Group(p))
            ELSE found \in Latest(kind, target)

===============================================================================
