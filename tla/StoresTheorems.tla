---------------------------- MODULE StoresTheorems ----------------------------
(* Proofs about the backends of the store, for any number of callers of a  *)
(* key, of values and of writes, with steps failing and crashes anywhere.  *)
EXTENDS Stores, TLAPS

Steps == {"idle", "call", "exists", "rename", "write", "sync"}
Ops == {"none", "get", "delete", "create", "swap"}
Answers == {"none", "nil", "error", "exist", "notexist", "mismatch"}
Sorts == {"absent", "present", "other"}

Types ==
    /\ backend \in {"mem", "fs", "db", "bucket", "missing"}
    /\ use \in {"once", "root", "head"}
    /\ object \in Revisions \cup {Absent}
    /\ lock \in Callers \cup {None}
    /\ writes \in Nat
    /\ pc \in [Callers -> Steps]
    /\ call \in [Callers -> [op : Ops, data : Values \cup {None}, base : Revisions \cup {Absent}]]
    /\ had \in [Callers -> Revisions \cup {Absent}]
    /\ DOMAIN tries = Callers
    /\ result \in [Callers -> Answers]
    /\ made \in [Callers -> Nat]
    /\ replaced \in [Callers -> Revisions \cup {Absent, None}]
    /\ during \in [Callers -> SUBSET Sorts]
    /\ confirmed \in SUBSET Nat

(* What the version of a revision is, by backend. *)
Versioned(o) ==
    o # Absent =>
        /\ backend = "mem" => o.version = o.rev
        /\ backend = "db" => o.version \in Nat
        /\ backend \in {"fs", "bucket"} => o.version = o.data
        /\ backend # "missing"

(* What the key holds was made by a write so far, and is whole and durable *)
(* once that write was answered.                                           *)
ObjectOK ==
    /\ Versioned(object)
    /\ object # Absent => object.rev \in 1 .. writes
    /\ object # Absent /\ object.rev \in confirmed => object.safe /\ object.data # Torn
    /\ \A r \in confirmed : r <= writes

(* The revision c had is the one there, or an older one: where versions    *)
(* are counted by row, the row was never deleted since.                    *)
HadOK(c) ==
    /\ Versioned(had[c])
    /\ use # "once" /\ had[c] # Absent =>
        /\ object # Absent
        /\ backend = "db" =>
            /\ had[c].version <= object.version
            /\ had[c].version = object.version => had[c].rev = object.rev

(* A call is one the use of the key allows, and knows what it saw. *)
CallOK(c) ==
    pc[c] # "idle" =>
        /\ Facts(call[c], object) \subseteq during[c]
        /\ call[c].op = "swap" =>
            call[c].base = had[c] /\ use # "once" /\ (had[c] = Absent => use = "head")
        /\ call[c].op # "swap" => call[c].base = Absent
        /\ call[c].op = "create" => use # "head"
        /\ call[c].op = "delete" => use = "once"
        /\ call[c].op \in {"create", "swap"} => call[c].data \in Values

(* What a call has done by its next step. *)
StepOK(c) ==
    /\ made[c] <= writes
    /\ pc[c] \in {"call", "exists", "rename"} => made[c] = 0
    /\ pc[c] = "exists" => backend = "db" /\ call[c].op = "swap" /\ "other" \in during[c]
    /\ pc[c] = "rename" => backend = "fs" /\ call[c].op = "swap" /\ lock = c /\ Holds(c)
    /\ pc[c] \in {"write", "sync"} =>
        /\ backend = "fs" /\ call[c].op = "create"
        /\ made[c] # 0 /\ replaced[c] = Absent
        /\ use = "root" => object # Absent
    /\ pc[c] = "sync" /\ Mine(c) => object.data = call[c].data
    /\ pc[c] = "write" /\ use = "root" => Mine(c) /\ object.data = Torn

(* What an answer says of the call. *)
AnswerOK(c) ==
    /\ Answered(c, {"nil"}) /\ call[c].op \in {"create", "swap"} /\ backend # "missing" =>
        /\ made[c] # 0
        /\ call[c].base = Absent => replaced[c] = Absent
        /\ call[c].base # Absent =>
            /\ replaced[c] # Absent
            /\ replaced[c].rev = call[c].base.rev \/ replaced[c].data = call[c].base.data
    /\ Answered(c, {"exist", "notexist", "mismatch"}) => made[c] = 0
    /\ Answered(c, {"exist"}) => "present" \in during[c]
    /\ Answered(c, {"notexist"}) => "absent" \in during[c]
    /\ Answered(c, {"mismatch"}) => "other" \in during[c]

CallerOK(c) == HadOK(c) /\ CallOK(c) /\ StepOK(c) /\ AnswerOK(c)

(* No two calls made the same revision; and while the file of a root is    *)
(* being written nobody has it yet, so that nobody can swap it.            *)
ApartOK ==
    \A c, d \in Callers :
        /\ c # d /\ made[c] # 0 => made[c] # made[d]
        /\ use = "root" /\ pc[c] = "write" =>
            had[d] = Absent /\ (c # d => pc[d] # "sync")

StoresInv == Types /\ ObjectOK /\ ApartOK /\ \A c \in Callers : CallerOK(c)

(* A step leaves caller d alone. *)
Same(d) ==
    /\ pc'[d] = pc[d] /\ call'[d] = call[d] /\ had'[d] = had[d]
    /\ result'[d] = result[d] /\ made'[d] = made[d] /\ replaced'[d] = replaced[d]

Alone(c) == \A d \in Callers \ {c} : Same(d)

(* The mutex, at a step of c: it is taken when free, or let go of. *)
LockMoves(c) == lock' = lock \/ (lock = None /\ lock' = c) \/ (lock = c /\ lock' = None)

(* What makes an answer true of a call that wrote nothing. *)
Told(c, answer) ==
    /\ answer \in Answers
    /\ answer = "nil" => call[c].op \notin {"create", "swap"} \/ backend = "missing"
    /\ answer \in {"exist", "notexist", "mismatch"} => made[c] = 0
    /\ answer = "exist" => "present" \in during[c]
    /\ answer = "notexist" => "absent" \in during[c]
    /\ answer = "mismatch" => "other" \in during[c]

-----------------------------------------------------------------------------
(* A new revision has the number of the write, the data it was given, and  *)
(* the version its backend gives it.                                       *)
LEMMA RevisionFacts ==
  ASSUME Types, ObjectOK, NEW data \in Values \cup {Torn, None}
  PROVE  /\ Revision(data) \in Revisions
         /\ Revision(data) # Absent
         /\ Revision(data).rev = writes + 1
         /\ Revision(data).data = data
         /\ Revision(data).safe = TRUE
         /\ backend # "missing" => Versioned(Revision(data))
         /\ backend = "db" /\ object # Absent => Revision(data).version = object.version + 1
<1>1. Version(data) \in Values \cup {Torn, None} \cup Nat
  <2>1. CASE backend = "mem"
    BY <2>1 DEF Version, Types
  <2>2. CASE backend = "db"
    BY <2>2 DEF Version, Types, ObjectOK, Versioned
  <2>3. CASE backend \notin {"mem", "db"}
    BY <2>3, Zenon DEF Version
  <2> QED
    BY <2>1, <2>2, <2>3, Zenon
<1>2. /\ backend = "mem" => Version(data) = writes + 1
      /\ backend = "db" => Version(data) \in Nat
      /\ backend = "db" /\ object # Absent => Version(data) = object.version + 1
      /\ backend \in {"fs", "bucket"} => Version(data) = data
  BY DEF Version, Types, ObjectOK, Versioned
<1>3. PICK v : v = Version(data)
  OBVIOUS
<1>4. PICK n : n = writes + 1 /\ n \in Nat
  BY DEF Types
<1>5. Revision(data) = [data |-> data, version |-> v, rev |-> n, safe |-> TRUE]
  BY <1>3, <1>4, Zenon DEF Revision
<1>6. Revision(data) \in Revisions
  BY <1>1, <1>3, <1>4, <1>5 DEF Revisions
<1>7. /\ Revision(data).rev = n /\ Revision(data).data = data
      /\ Revision(data).safe = TRUE /\ Revision(data).version = v
  BY <1>5
<1> QED
  BY <1>2, <1>3, <1>4, <1>6, <1>7, StoresAssumption, Zenon DEF Versioned

(* A call that left another alone, and the key as it was. *)
LEMMA Undisturbed ==
  ASSUME NEW c \in Callers, NEW d \in Callers \ {c}, CallerOK(d), Same(d),
         during'[d] = during[d], UNCHANGED <<backend, use, object, writes>>, LockMoves(c),
         StoresInv
  PROVE  CallerOK(d)'
<1>1. HadOK(d)'
  BY Zenon DEF CallerOK, HadOK, Same, Versioned
<1>2. CallOK(d)'
  BY Zenon DEF CallerOK, CallOK, Same, Facts
<1>3. lock = d => lock' = d
  BY StoresAssumption, Zenon DEF LockMoves
<1>4. StepOK(d)'
  BY <1>3, Zenon DEF CallerOK, StepOK, Same, Holds, Mine
<1>5. AnswerOK(d)'
  BY Zenon DEF CallerOK, AnswerOK, Same, Answered
<1> QED
  BY <1>1, <1>2, <1>4, <1>5, Zenon DEF CallerOK

(* A step of c that leaves the key as it was keeps the invariant, when     *)
(* what it does for c is right.                                            *)
LEMMA QuietKeeps ==
  ASSUME StoresInv, NEW c \in Callers, Types', Alone(c), CallerOK(c)',
         \A d \in Callers \ {c} : during'[d] = during[d],
         UNCHANGED <<backend, use, object, writes, confirmed>>, LockMoves(c),
         made'[c] \in {0, made[c]}, pc'[c] \notin {"write", "sync"},
         had'[c] \in {Absent, had[c]} \/ object.data # Torn
  PROVE  StoresInv'
<1>1. ObjectOK'
  BY Zenon DEF StoresInv, ObjectOK, Versioned
<1>2. \A d \in Callers \ {c} : CallerOK(d)'
  BY Undisturbed, Zenon DEF StoresInv, Alone
<1>3. ApartOK'
  <2> SUFFICES ASSUME NEW d \in Callers, NEW e \in Callers
               PROVE  /\ d # e /\ made'[d] # 0 => made'[d] # made'[e]
                      /\ use' = "root" /\ pc'[d] = "write" =>
                            had'[e] = Absent /\ (d # e => pc'[e] # "sync")
    BY Zenon DEF ApartOK
  <2>1. d # e /\ made'[d] # 0 => made'[d] # made'[e]
    <3>1. made[d] # 0 /\ d # e => made[d] # made[e]
      BY Zenon DEF StoresInv, ApartOK
    <3>2. made[e] # 0 /\ d # e => made[e] # made[d]
      BY Zenon DEF StoresInv, ApartOK
    <3> QED
      BY <3>1, <3>2, Zenon DEF Alone, Same
  <2>2. ASSUME use' = "root", pc'[d] = "write"
        PROVE  had'[e] = Absent /\ (d # e => pc'[e] # "sync")
    <3>1. d # c /\ pc[d] = "write" /\ use = "root"
      BY <2>2, Zenon DEF Alone, Same
    <3>2. had[e] = Absent /\ (d # e => pc[e] # "sync")
      BY <3>1, Zenon DEF StoresInv, ApartOK
    <3>3. object.data = Torn
      BY <3>1, Zenon DEF StoresInv, CallerOK, StepOK
    <3> QED
      BY <3>1, <3>2, <3>3, Zenon DEF Alone, Same
  <2> QED
    BY <2>1, <2>2, Zenon
<1> QED
  BY <1>1, <1>2, <1>3, Zenon DEF StoresInv

(* A call that is answered by what is true, and wrote nothing, keeps the   *)
(* invariant.                                                              *)
LEMMA AnswerKeeps ==
  ASSUME StoresInv, NEW c \in Callers, NEW answer, Answer(c, answer), Told(c, answer),
         pc[c] # "idle", UNCHANGED <<backend, use>>,
         lock' = lock \/ (lock = c /\ lock' = None)
  PROVE  StoresInv'
<1>1. /\ pc' = Set(pc, c, "idle") /\ result' = Set(result, c, answer)
      /\ UNCHANGED <<call, tries, object, writes, had, made, replaced, during, confirmed>>
  BY Zenon DEF Answer, Return
<1>2. Types
  BY Zenon DEF StoresInv
<1>3. /\ pc'[c] = "idle" /\ \A d \in Callers \ {c} : pc'[d] = pc[d]
      /\ pc' \in [Callers -> Steps]
  BY <1>1, <1>2, Zenon DEF Types, Steps, Set
<1>4. /\ result'[c] = answer /\ \A d \in Callers \ {c} : result'[d] = result[d]
      /\ result' \in [Callers -> Answers]
  BY <1>1, <1>2, Zenon DEF Types, Told, Set
<1>5. Types'
  BY <1>1, <1>2, <1>3, <1>4, Zenon DEF Types
<1>6. Alone(c)
  BY <1>1, <1>3, <1>4, Zenon DEF Alone, Same
<1>7. CallerOK(c)'
  <2> CallerOK(c)
    BY Zenon DEF StoresInv
  <2>1. HadOK(c)'
    BY <1>1, Zenon DEF CallerOK, HadOK, Versioned
  <2>2. CallOK(c)'
    BY <1>3, Zenon DEF CallOK
  <2>3. StepOK(c)'
    BY <1>1, <1>3, Zenon DEF CallerOK, StepOK
  <2>4. AnswerOK(c)'
    BY <1>1, <1>3, <1>4, Zenon DEF AnswerOK, Answered, Told
  <2> QED
    BY <2>1, <2>2, <2>3, <2>4, Zenon DEF CallerOK
<1>8. LockMoves(c)
  BY Zenon DEF LockMoves
<1> QED
  BY <1>1, <1>3, <1>5, <1>6, <1>7, <1>8, QuietKeeps, Zenon

(* A Create or Swap whose condition does not hold is refused for a reason  *)
(* that is true.                                                           *)
LEMMA RefusalTold ==
  ASSUME StoresInv, NEW c \in Callers, At(c, "call", {"create", "swap"}), ~Holds(c)
  PROVE  Told(c, Refusal(c))
<1>1. CallOK(c) /\ made[c] = 0 /\ pc[c] = "call"
  BY Zenon DEF StoresInv, CallerOK, StepOK, At
<1>2. Facts(call[c], object) \subseteq during[c]
  BY <1>1, Zenon DEF CallOK
<1>3. call[c].op = "create" => object # Absent
  BY <1>1, Zenon DEF CallOK, Holds
<1>4. object # Absent => "present" \in during[c] /\ "other" \in during[c]
  BY <1>2, Zenon DEF Facts, Holds
<1>5. object = Absent => "absent" \in during[c]
  BY <1>2, Zenon DEF Facts
<1> QED
  BY <1>1, <1>3, <1>4, <1>5, Zenon DEF Told, Refusal, Answers

(* A step that puts a revision in place of what the caller had keeps the   *)
(* invariant.                                                              *)
LEMMA PutKeeps ==
  ASSUME StoresInv, NEW c \in Callers, NEW answer \in {"nil", "error"}, Put(c, answer),
         pc[c] # "idle", call[c].op \in {"create", "swap"}, Holds(c),
         backend # "missing", backend = "fs" => pc[c] = "rename",
         UNCHANGED <<backend, use>>, lock' = lock \/ (lock = c /\ lock' = None)
  PROVE  StoresInv'
<1> Types /\ ObjectOK /\ ApartOK /\ \A d \in Callers : CallerOK(d)
  BY Zenon DEF StoresInv
<1> CallOK(c) /\ StepOK(c) /\ HadOK(c)
  BY Zenon DEF CallerOK
<1>1. PICK new : new = Revision(call[c].data)
  OBVIOUS
<1>2. call[c].data \in Values /\ call[c].data # Torn
  BY StoresAssumption, Zenon DEF CallOK
<1>3. /\ new \in Revisions /\ new # Absent /\ new.rev = writes + 1
      /\ new.data = call[c].data /\ new.safe = TRUE /\ Versioned(new)
      /\ backend = "db" /\ object # Absent => new.version = object.version + 1
  BY <1>1, <1>2, RevisionFacts, Zenon
<1>4. /\ object' = new /\ writes' = writes + 1
      /\ during' = [d \in Callers |-> IF pc[d] = "idle" THEN during[d]
                                      ELSE during[d] \cup Facts(call[d], new)]
      /\ made' = Set(made, c, writes + 1) /\ replaced' = Set(replaced, c, object)
      /\ had' = IF answer = "nil" THEN Set(had, c, new) ELSE had
      /\ confirmed' = IF answer = "nil" THEN confirmed \cup {writes + 1} ELSE confirmed
      /\ pc' = Set(pc, c, "idle") /\ result' = Set(result, c, answer)
      /\ UNCHANGED <<call, tries>>
  BY <1>1, Zenon DEF Put, Becomes, Return
<1>5. /\ pc'[c] = "idle" /\ \A d \in Callers \ {c} : pc'[d] = pc[d]
      /\ pc' \in [Callers -> Steps]
  BY <1>4, Zenon DEF Types, Steps, Set
<1>6. /\ result'[c] = answer /\ \A d \in Callers \ {c} : result'[d] = result[d]
      /\ result' \in [Callers -> Answers]
  BY <1>4, Zenon DEF Types, Answers, Set
<1>7. /\ made'[c] = writes + 1 /\ \A d \in Callers \ {c} : made'[d] = made[d]
      /\ made' \in [Callers -> Nat]
  BY <1>4 DEF Types, Set
<1>8. /\ replaced'[c] = object /\ \A d \in Callers \ {c} : replaced'[d] = replaced[d]
      /\ replaced' \in [Callers -> Revisions \cup {Absent, None}]
  BY <1>4, Zenon DEF Types, Set
<1>9. /\ had'[c] = IF answer = "nil" THEN new ELSE had[c]
      /\ \A d \in Callers \ {c} : had'[d] = had[d]
      /\ had' \in [Callers -> Revisions \cup {Absent}]
  BY <1>3, <1>4, Zenon DEF Types, Set
<1>10. /\ during' \in [Callers -> SUBSET Sorts]
       /\ \A d \in Callers : during[d] \subseteq during'[d]
       /\ \A d \in Callers : pc[d] = "idle" => during'[d] = during[d]
       /\ \A d \in Callers : pc[d] # "idle" => Facts(call[d], new) \subseteq during'[d]
  <2>1. \A d \in Callers : Facts(call[d], new) \subseteq Sorts
    BY Zenon DEF Facts, Sorts
  <2> QED
    BY <1>4, <2>1, Zenon DEF Types
<1>11. confirmed' \in SUBSET Nat
  BY <1>4 DEF Types
<1>12. Types'
  BY <1>3, <1>4, <1>5, <1>6, <1>7, <1>8, <1>9, <1>10, <1>11 DEF Types
<1>13. ObjectOK'
  <2>1. Versioned(object)'
    BY <1>3, <1>4, Zenon DEF Versioned
  <2>2. object'.rev \in 1 .. writes'
    BY <1>3, <1>4 DEF Types
  <2>3. object'.safe /\ object'.data # Torn
    BY <1>2, <1>3, <1>4, Zenon
  <2>4. \A r \in confirmed' : r <= writes'
    BY <1>4 DEF ObjectOK, Types
  <2> QED
    BY <2>1, <2>2, <2>3, <2>4, Zenon DEF ObjectOK
<1>14. object' # Absent
  BY <1>3, <1>4, Zenon
<1>15. ASSUME NEW d \in Callers \ {c} PROVE CallerOK(d)'
  <2>1. Same(d) /\ CallerOK(d)
    BY <1>4, <1>5, <1>6, <1>7, <1>8, <1>9, Zenon DEF Same
  <2>2. HadOK(d)'
    <3>1. Versioned(had[d])'
      BY <2>1, Zenon DEF CallerOK, HadOK, Same, Versioned
    <3>2. ASSUME use # "once", had[d] # Absent, backend = "db"
          PROVE  had[d].version <= new.version /\ had[d].version # new.version
      <4>1. had[d].version \in Nat /\ object.version \in Nat
        BY <2>1, <3>2, Zenon DEF CallerOK, HadOK, Versioned, ObjectOK
      <4>2. had[d].version <= object.version /\ new.version = object.version + 1
        BY <1>3, <2>1, <3>2, Zenon DEF CallerOK, HadOK
      <4> QED
        BY <4>1, <4>2
    <3> QED
      BY <1>4, <1>14, <2>1, <3>1, <3>2, Zenon DEF HadOK, Same
  <2>3. CallOK(d)'
    BY <1>4, <1>10, <2>1, Zenon DEF CallerOK, CallOK, Same
  <2>4. StepOK(d)'
    <3>1. made'[d] <= writes' /\ made[d] # writes + 1
      BY <1>4, <1>7, <2>1 DEF CallerOK, StepOK, Types
    <3>2. pc[d] # "rename"
      BY <2>1, Zenon DEF CallerOK, StepOK
    <3>3. ~(pc[d] = "write" /\ use = "root")
      BY <2>1, Zenon DEF ApartOK, CallerOK, StepOK, CallOK
    <3>4. ~Mine(d)'
      BY <1>3, <1>4, <2>1, <3>1, Zenon DEF Mine, Same
    <3>5. "other" \in during[d] => "other" \in during'[d]
      BY <1>10, Zenon
    <3> QED
      BY <1>14, <2>1, <3>1, <3>2, <3>3, <3>4, <3>5, Zenon DEF CallerOK, StepOK, Same
  <2>5. AnswerOK(d)'
    BY <1>10, <2>1, Zenon DEF CallerOK, AnswerOK, Same, Answered
  <2> QED
    BY <2>2, <2>3, <2>4, <2>5, Zenon DEF CallerOK
<1>16. CallerOK(c)'
  <2>1. HadOK(c)'
    <3>1. CASE answer = "nil"
      <4>1. had'[c] = new
        BY <1>9, <3>1, Zenon
      <4> QED
        BY <1>3, <1>4, <4>1 DEF HadOK, Versioned
    <3>2. CASE answer # "nil"
      <4>1. had'[c] = had[c]
        BY <1>9, <3>2, Zenon
      <4>2. Versioned(had[c])'
        BY <4>1, Zenon DEF HadOK, Versioned
      <4>3. ASSUME use # "once", had[c] # Absent, backend = "db"
            PROVE  had[c].version <= new.version /\ had[c].version # new.version
        <5>1. had[c].version \in Nat /\ object.version \in Nat
          BY <4>3, Zenon DEF HadOK, Versioned, ObjectOK
        <5>2. had[c].version <= object.version /\ new.version = object.version + 1
          BY <1>3, <4>3, Zenon DEF HadOK
        <5> QED
          BY <5>1, <5>2
      <4> QED
        BY <1>4, <1>14, <4>1, <4>2, <4>3, Zenon DEF HadOK
    <3> QED
      BY <3>1, <3>2, Zenon
  <2>2. CallOK(c)'
    BY <1>5, Zenon DEF CallOK
  <2>3. StepOK(c)'
    <3>1. made'[c] <= writes'
      BY <1>4, <1>7 DEF Types
    <3> QED
      BY <1>5, <3>1, Zenon DEF StepOK
  <2>4. AnswerOK(c)'
    <3>1. made'[c] # 0
      BY <1>7 DEF Types
    <3>2. call[c].base = Absent => object = Absent
      BY Zenon DEF Holds
    <3>3. ASSUME call[c].base # Absent
          PROVE  object # Absent /\ (object.rev = call[c].base.rev \/ object.data = call[c].base.data)
      <4>1. object # Absent /\ object.version = call[c].base.version
        BY <3>3, Zenon DEF Holds
      <4>2. call[c].base = had[c] /\ use # "once"
        BY <3>3, Zenon DEF CallOK
      <4>3. CASE backend = "db"
        BY <3>3, <4>1, <4>2, <4>3, Zenon DEF HadOK
      <4>4. CASE backend # "db"
        BY <3>3, <4>1, <4>2, <4>4, ZenonT(30) DEF HadOK, ObjectOK, Versioned, Types
      <4> QED
        BY <4>1, <4>3, <4>4, Zenon
    <3>4. result'[c] \in {"nil", "error"}
      BY <1>6, Zenon
    <3> QED
      BY <1>4, <1>8, <3>1, <3>2, <3>3, <3>4, Zenon DEF AnswerOK, Answered
  <2> QED
    BY <2>1, <2>2, <2>3, <2>4, Zenon DEF CallerOK
<1>17. ApartOK'
  <2> SUFFICES ASSUME NEW d \in Callers, NEW e \in Callers
               PROVE  /\ d # e /\ made'[d] # 0 => made'[d] # made'[e]
                      /\ use' = "root" /\ pc'[d] = "write" =>
                            had'[e] = Absent /\ (d # e => pc'[e] # "sync")
    BY Zenon DEF ApartOK
  <2>1. d # e /\ made'[d] # 0 => made'[d] # made'[e]
    <3>1. made[d] # writes + 1 /\ made[e] # writes + 1
      BY DEF CallerOK, StepOK, Types
    <3>2. made[d] # 0 /\ d # e => made[d] # made[e]
      BY Zenon DEF ApartOK
    <3> QED
      BY <1>7, <3>1, <3>2, Zenon
  <2>2. ~(use = "root" /\ pc'[d] = "write")
    <3>1. pc'[d] = "write" => d # c /\ pc[d] = "write"
      BY <1>5, Zenon
    <3>2. use = "root" /\ pc[d] = "write" => backend = "fs" /\ had[c] = Absent
      BY Zenon DEF ApartOK, CallerOK, StepOK
    <3>3. backend = "fs" => call[c].op = "swap"
      BY Zenon DEF StepOK
    <3> QED
      BY <3>1, <3>2, <3>3, Zenon DEF CallOK
  <2> QED
    BY <2>1, <2>2, Zenon
<1> QED
  BY <1>12, <1>13, <1>15, <1>16, <1>17, Zenon DEF StoresInv

(* Get leaves its caller with what the key holds. *)
LEMMA GetKeeps ==
  ASSUME StoresInv, NEW c \in Callers, Get(c)
  PROVE  StoresInv'
<1> Types /\ ObjectOK /\ ApartOK /\ \A d \in Callers : CallerOK(d)
  BY Zenon DEF StoresInv
<1> CallOK(c) /\ StepOK(c) /\ HadOK(c)
  BY Zenon DEF CallerOK
<1>1. PICK answer : answer = IF object = Absent THEN "notexist" ELSE "nil"
  OBVIOUS
<1>2. /\ pc[c] = "call" /\ call[c].op = "get" /\ backend # "missing"
      /\ had' = IF object # Absent /\ object.data = Torn THEN had ELSE Set(had, c, object)
      /\ pc' = Set(pc, c, "idle") /\ result' = Set(result, c, answer)
      /\ UNCHANGED <<backend, use, object, lock, writes, call, tries, made, replaced,
                     during, confirmed>>
  BY <1>1, Zenon DEF Get, At, On, Return
<1>3. /\ pc'[c] = "idle" /\ \A d \in Callers \ {c} : pc'[d] = pc[d]
      /\ pc' \in [Callers -> Steps]
  BY <1>2, Zenon DEF Types, Steps, Set
<1>4. /\ result'[c] = answer /\ \A d \in Callers \ {c} : result'[d] = result[d]
      /\ result' \in [Callers -> Answers]
  BY <1>1, <1>2, Zenon DEF Types, Answers, Set
<1>5. /\ had'[c] = had[c] \/ (had'[c] = object /\ (object = Absent \/ object.data # Torn))
      /\ \A d \in Callers \ {c} : had'[d] = had[d]
      /\ had' \in [Callers -> Revisions \cup {Absent}]
  BY <1>2, Zenon DEF Types, Set
<1>6. Types'
  BY <1>2, <1>3, <1>4, <1>5, Zenon DEF Types
<1>7. Alone(c)
  BY <1>2, <1>3, <1>4, <1>5, Zenon DEF Alone, Same
<1>8. CallerOK(c)'
  <2>1. HadOK(c)'
    <3>1. CASE had'[c] = had[c]
      BY <1>2, <3>1, Zenon DEF HadOK, Versioned
    <3>2. CASE had'[c] = object
      <4>1. backend = "db" /\ object # Absent => object.version \in Nat
        BY Zenon DEF ObjectOK, Versioned
      <4>2. backend = "db" /\ object # Absent => object.version <= object.version
        BY <4>1
      <4> QED
        BY <1>2, <3>2, <4>2, Zenon DEF HadOK, Versioned, ObjectOK
    <3> QED
      BY <1>5, <3>1, <3>2, Zenon
  <2>2. CallOK(c)'
    BY <1>3, Zenon DEF CallOK
  <2>3. StepOK(c)'
    BY <1>2, <1>3, Zenon DEF StepOK
  <2>4. AnswerOK(c)'
    <3>1. object = Absent => "absent" \in during[c]
      BY <1>2, Zenon DEF CallOK, Facts
    <3>2. made[c] = 0
      BY <1>2, Zenon DEF StepOK
    <3> QED
      BY <1>1, <1>2, <1>4, <3>1, <3>2, Zenon DEF AnswerOK, Answered
  <2> QED
    BY <2>1, <2>2, <2>3, <2>4, Zenon DEF CallerOK
<1>9. LockMoves(c)
  BY <1>2, Zenon DEF LockMoves
<1>10. had'[c] \in {Absent, had[c]} \/ object.data # Torn
  BY <1>5, Zenon
<1> QED
  BY <1>2, <1>3, <1>6, <1>7, <1>8, <1>9, <1>10, QuietKeeps, Zenon

(* A call that begins has done nothing yet. *)
LEMMA BeginKeeps ==
  ASSUME StoresInv, NEW c \in Callers, Begin(c)
  PROVE  StoresInv'
<1> Types /\ ObjectOK /\ ApartOK /\ \A d \in Callers : CallerOK(d)
  BY Zenon DEF StoresInv
<1> CallOK(c) /\ StepOK(c) /\ HadOK(c)
  BY Zenon DEF CallerOK
<1>1. PICK new \in Calls(c) :
        call' = Set(call, c, new) /\ during' = Set(during, c, Facts(new, object))
  BY Zenon DEF Begin
<1>2. /\ pc' = Set(pc, c, "call") /\ tries' = Set(tries, c, 0)
      /\ result' = Set(result, c, "none")
      /\ made' = Set(made, c, 0) /\ replaced' = Set(replaced, c, None)
      /\ UNCHANGED <<backend, use, object, lock, writes, had, confirmed>>
  BY Zenon DEF Begin
<1>3. /\ new \in [op : Ops, data : Values \cup {None}, base : Revisions \cup {Absent}]
      /\ new.op = "swap" =>
            new.base = had[c] /\ use # "once" /\ (had[c] = Absent => use = "head")
      /\ new.op # "swap" => new.base = Absent
      /\ new.op = "create" => use # "head"
      /\ new.op = "delete" => use = "once"
      /\ new.op \in {"create", "swap"} => new.data \in Values
  <2> had[c] \in Revisions \cup {Absent} /\ use \in {"once", "root", "head"}
    BY Zenon DEF Types
  <2>1. CASE new \in [op : {"get"}, data : {None}, base : {Absent}]
    BY <2>1, Zenon DEF Ops
  <2>2. CASE new \in [op : {"delete"}, data : {None}, base : {Absent}] /\ use = "once"
    BY <2>2, Zenon DEF Ops
  <2>3. CASE new \in [op : {"create"}, data : Values, base : {Absent}] /\ use # "head"
    BY <2>3, Zenon DEF Ops
  <2>4. CASE /\ new \in [op : {"swap"}, data : Values, base : {had[c]}]
             /\ use # "once" /\ (had[c] = Absent => use = "head")
    BY <2>4, Zenon DEF Ops
  <2> QED
    BY <2>1, <2>2, <2>3, <2>4, Zenon DEF Calls
<1>4. /\ pc'[c] = "call" /\ \A d \in Callers \ {c} : pc'[d] = pc[d]
      /\ pc' \in [Callers -> Steps]
  BY <1>2, Zenon DEF Types, Steps, Set
<1>5. /\ result'[c] = "none" /\ \A d \in Callers \ {c} : result'[d] = result[d]
      /\ result' \in [Callers -> Answers]
  BY <1>2, Zenon DEF Types, Answers, Set
<1>6. /\ made'[c] = 0 /\ \A d \in Callers \ {c} : made'[d] = made[d]
      /\ made' \in [Callers -> Nat]
  BY <1>2, Zenon DEF Types, Set
<1>7. /\ \A d \in Callers \ {c} : replaced'[d] = replaced[d]
      /\ replaced' \in [Callers -> Revisions \cup {Absent, None}]
  BY <1>2, Zenon DEF Types, Set
<1>8. /\ call'[c] = new /\ \A d \in Callers \ {c} : call'[d] = call[d]
      /\ call' \in [Callers -> [op : Ops, data : Values \cup {None},
                                base : Revisions \cup {Absent}]]
  BY <1>1, <1>3, Zenon DEF Types, Set
<1>9. /\ during'[c] = Facts(new, object)
      /\ \A d \in Callers \ {c} : during'[d] = during[d]
      /\ during' \in [Callers -> SUBSET Sorts]
  <2>1. Facts(new, object) \in SUBSET Sorts
    BY Zenon DEF Facts, Sorts
  <2>2. PICK f : f = Facts(new, object)
    OBVIOUS
  <2> QED
    BY <1>1, <2>1, <2>2, Zenon DEF Types, Set
<1>10. DOMAIN tries' = Callers
  BY <1>2, Zenon DEF Types, Set
<1>11. Types'
  BY <1>2, <1>4, <1>5, <1>6, <1>7, <1>8, <1>9, <1>10, Zenon DEF Types
<1>12. Alone(c)
  BY <1>2, <1>4, <1>5, <1>6, <1>7, <1>8, Zenon DEF Alone, Same
<1>13. CallerOK(c)'
  <2>1. HadOK(c)'
    BY <1>2, Zenon DEF HadOK, Versioned
  <2>2. CallOK(c)'
    BY <1>2, <1>3, <1>8, <1>9, Zenon DEF CallOK, Facts
  <2>3. StepOK(c)'
    <3>1. made'[c] <= writes'
      BY <1>2, <1>6 DEF Types
    <3> QED
      BY <1>4, <1>6, <3>1, Zenon DEF StepOK
  <2>4. AnswerOK(c)'
    BY <1>4, Zenon DEF AnswerOK, Answered
  <2> QED
    BY <2>1, <2>2, <2>3, <2>4, Zenon DEF CallerOK
<1>14. LockMoves(c)
  BY <1>2, Zenon DEF LockMoves
<1> QED
  BY <1>2, <1>4, <1>6, <1>9, <1>11, <1>12, <1>13, <1>14, QuietKeeps, Zenon

(* A Swap that changed no row goes on to ask whether there is one, and the *)
(* row it expected was another by then; one whose file is the one it       *)
(* expects keeps the mutex.                                                *)
LEMMA MoveKeeps ==
  ASSUME StoresInv, NEW c \in Callers, NEW next \in {"exists", "rename"},
         At(c, "call", {"create", "swap"}), call[c].base # Absent \/ next = "rename",
         pc' = Set(pc, c, next),
         UNCHANGED <<backend, use, object, writes, call, had, tries, result, made, replaced,
                     during, confirmed>>,
         next = "exists" => backend = "db" /\ ~Holds(c) /\ lock' = lock,
         next = "rename" => /\ backend = "fs" /\ Holds(c) /\ call[c].op = "swap"
                            /\ lock = None /\ lock' = c
  PROVE  StoresInv'
<1> Types /\ ObjectOK /\ ApartOK /\ \A d \in Callers : CallerOK(d)
  BY Zenon DEF StoresInv
<1> CallOK(c) /\ StepOK(c) /\ HadOK(c) /\ pc[c] = "call"
  BY Zenon DEF CallerOK, At
<1>1. /\ pc'[c] = next /\ \A d \in Callers \ {c} : pc'[d] = pc[d]
      /\ pc' \in [Callers -> Steps]
  BY Zenon DEF Types, Steps, Set
<1>2. Types'
  BY <1>1, Zenon DEF Types
<1>3. Alone(c)
  BY <1>1, Zenon DEF Alone, Same
<1>4. CallerOK(c)'
  <2>1. HadOK(c)'
    BY Zenon DEF HadOK, Versioned
  <2>2. CallOK(c)'
    BY Zenon DEF CallOK, Facts
  <2>3. ASSUME next = "exists"
        PROVE  backend = "db" /\ call[c].op = "swap" /\ "other" \in during[c]
    <3>1. call[c].op = "swap" /\ call[c].base = had[c] /\ use # "once"
      BY <2>3, Zenon DEF CallOK
    <3>2. object # Absent
      BY <2>3, <3>1, Zenon DEF HadOK
    <3>3. "other" \in Facts(call[c], object)
      BY <2>3, <3>2, Zenon DEF Facts, Holds
    <3> QED
      BY <2>3, <3>1, <3>3, Zenon DEF CallOK
  <2>4. next = "rename" => Holds(c)'
    BY Zenon DEF Holds
  <2>5. StepOK(c)'
    BY <1>1, <2>3, <2>4, Zenon DEF StepOK
  <2>6. AnswerOK(c)'
    BY <1>1, Zenon DEF AnswerOK, Answered
  <2> QED
    BY <2>1, <2>2, <2>5, <2>6, Zenon DEF CallerOK
<1>5. LockMoves(c)
  BY Zenon DEF LockMoves
<1> QED
  BY <1>1, <1>2, <1>3, <1>4, <1>5, QuietKeeps, Zenon

(* A conditional PUT that met another is sent again, or given up. *)
LEMMA ConflictKeeps ==
  ASSUME StoresInv, NEW c \in Callers, BucketConflict(c)
  PROVE  StoresInv'
<1> Types /\ CallerOK(c)
  BY Zenon DEF StoresInv
<1>1. /\ pc[c] = "call" /\ UNCHANGED <<backend, use, object, lock, writes, had, made, replaced,
                                       during, confirmed>>
  BY Zenon DEF BucketConflict, At, On
<1>2. CASE Return(c, "error")
  <2>1. Answer(c, "error") /\ Told(c, "error")
    BY <1>1, <1>2, Zenon DEF Answer, Told, Answers
  <2> QED
    BY <1>1, <2>1, AnswerKeeps, Zenon
<1>3. CASE tries' = Set(tries, c, tries[c] + 1) /\ UNCHANGED <<pc, call, result>>
  <2>1. Types'
    BY <1>1, <1>3, Zenon DEF Types, Set
  <2>2. Alone(c)
    BY <1>1, <1>3, Zenon DEF Alone, Same
  <2>3. CallerOK(c)'
    BY <1>1, <1>3, ZenonT(30)
    DEF CallerOK, HadOK, CallOK, StepOK, AnswerOK, Versioned, Facts, Holds, Mine,
                      Answered
  <2>4. LockMoves(c)
    BY <1>1, Zenon DEF LockMoves
  <2> QED
    BY <1>1, <1>3, <2>1, <2>2, <2>3, <2>4, QuietKeeps, Zenon
<1> QED
  BY <1>2, <1>3, Zenon DEF BucketConflict

(* Whatever the key comes to hold, a call that is under way has seen it.   *)
LEMMA BecomesFacts ==
  ASSUME Types, NEW o, Becomes(o)
  PROVE  /\ object' = o
         /\ during' \in [Callers -> SUBSET Sorts]
         /\ \A d \in Callers : during[d] \subseteq during'[d]
         /\ \A d \in Callers : pc[d] = "idle" => during'[d] = during[d]
         /\ \A d \in Callers : pc[d] # "idle" => Facts(call[d], o) \subseteq during'[d]
<1>1. \A d \in Callers : Facts(call[d], o) \subseteq Sorts
  BY Zenon DEF Facts, Sorts
<1> QED
  BY <1>1, Zenon DEF Becomes, Types

(* Only a key that is never swapped is deleted. *)
LEMMA DeleteKeeps ==
  ASSUME StoresInv, NEW c \in Callers, Delete(c)
  PROVE  StoresInv'
<1> Types /\ ObjectOK /\ ApartOK /\ \A d \in Callers : CallerOK(d)
  BY Zenon DEF StoresInv
<1> CallOK(c) /\ StepOK(c) /\ HadOK(c)
  BY Zenon DEF CallerOK
<1>1. PICK answer \in {"nil", "error"} : Return(c, answer)
  BY Zenon DEF Delete
<1>2. /\ pc[c] = "call" /\ call[c].op = "delete" /\ Becomes(Absent)
      /\ pc' = Set(pc, c, "idle") /\ result' = Set(result, c, answer)
      /\ UNCHANGED <<backend, use, lock, writes, call, tries, had, made, replaced, confirmed>>
  BY <1>1, Zenon DEF Delete, At, On, Return
<1>3. use = "once"
  BY <1>2, Zenon DEF CallOK
<1>4. /\ object' = Absent
      /\ during' \in [Callers -> SUBSET Sorts]
      /\ \A d \in Callers : during[d] \subseteq during'[d]
      /\ \A d \in Callers : pc[d] = "idle" => during'[d] = during[d]
      /\ \A d \in Callers : pc[d] # "idle" => Facts(call[d], Absent) \subseteq during'[d]
  BY <1>2, BecomesFacts, Zenon
<1>5. /\ pc'[c] = "idle" /\ \A d \in Callers \ {c} : pc'[d] = pc[d]
      /\ pc' \in [Callers -> Steps]
  BY <1>2, Zenon DEF Types, Steps, Set
<1>6. /\ result'[c] = answer /\ \A d \in Callers \ {c} : result'[d] = result[d]
      /\ result' \in [Callers -> Answers]
  BY <1>2, Zenon DEF Types, Answers, Set
<1>7. Types'
  BY <1>2, <1>4, <1>5, <1>6, Zenon DEF Types
<1>8. ObjectOK'
  BY <1>2, <1>4, Zenon DEF ObjectOK, Versioned
<1>9. ASSUME NEW d \in Callers PROVE HadOK(d)'
  BY <1>2, <1>3, Zenon DEF CallerOK, HadOK, Versioned
<1>10. ASSUME NEW d \in Callers \ {c} PROVE CallerOK(d)'
  <2>1. Same(d) /\ CallerOK(d)
    BY <1>2, <1>5, <1>6, Zenon DEF Same
  <2>2. CallOK(d)'
    BY <1>2, <1>4, <2>1, Zenon DEF CallerOK, CallOK, Same
  <2>3. ~Mine(d)' /\ pc[d] # "rename"
    BY <1>3, <1>4, <2>1, Zenon DEF CallerOK, StepOK, CallOK, Mine
  <2>4. StepOK(d)'
    BY <1>2, <1>3, <1>4, <2>1, <2>3, Zenon DEF CallerOK, StepOK, Same
  <2>5. AnswerOK(d)'
    BY <1>2, <1>4, <2>1, Zenon DEF CallerOK, AnswerOK, Same, Answered
  <2> QED
    BY <1>9, <2>2, <2>4, <2>5, Zenon DEF CallerOK
<1>11. CallerOK(c)'
  <2>1. CallOK(c)'
    BY <1>5, Zenon DEF CallOK
  <2>2. StepOK(c)'
    BY <1>2, <1>5, Zenon DEF StepOK
  <2>3. AnswerOK(c)'
    BY <1>2, <1>6, Zenon DEF AnswerOK, Answered
  <2> QED
    BY <1>9, <2>1, <2>2, <2>3, Zenon DEF CallerOK
<1>12. ApartOK'
  BY <1>2, <1>3, Zenon DEF ApartOK
<1> QED
  BY <1>7, <1>8, <1>10, <1>11, <1>12, Zenon DEF StoresInv

(* A file that Create made is torn as yet, and nobody expects it. *)
LEMMA FsCreateKeeps ==
  ASSUME StoresInv, NEW c \in Callers, FsCreate(c), object = Absent
  PROVE  StoresInv'
<1> Types /\ ObjectOK /\ ApartOK /\ \A d \in Callers : CallerOK(d)
  BY Zenon DEF StoresInv
<1> CallOK(c) /\ StepOK(c) /\ HadOK(c)
  BY Zenon DEF CallerOK
<1>1. PICK new : new = [Revision(Torn) EXCEPT !.safe = FALSE]
  OBVIOUS
<1>2. /\ pc[c] = "call" /\ call[c].op = "create" /\ backend = "fs" /\ Becomes(new)
      /\ writes' = writes + 1
      /\ made' = Set(made, c, writes + 1) /\ replaced' = Set(replaced, c, object)
      /\ pc' = Set(pc, c, "write")
      /\ UNCHANGED <<backend, use, lock, call, had, tries, result, confirmed>>
  BY <1>1, Zenon DEF FsCreate, At, On
<1>3. /\ new \in Revisions /\ new # Absent /\ new.rev = writes + 1 /\ new.data = Torn
      /\ new.version = Torn
  <2>1. /\ Revision(Torn) \in Revisions /\ Revision(Torn).rev = writes + 1
        /\ Revision(Torn).data = Torn /\ Versioned(Revision(Torn)) /\ Revision(Torn) # Absent
    BY <1>2, RevisionFacts, Zenon
  <2>2. Revision(Torn).version = Torn
    BY <1>2, <2>1, Zenon DEF Versioned
  <2>3. PICK old : old = Revision(Torn)
    OBVIOUS
  <2>4. /\ old \in Revisions /\ new = [old EXCEPT !.safe = FALSE]
        /\ old.rev = writes + 1 /\ old.data = Torn /\ old.version = Torn
    BY <1>1, <2>1, <2>2, <2>3, Zenon
  <2>5. new \in Revisions /\ new.rev = old.rev /\ new.data = old.data /\ new.version = old.version
    BY <2>4, Zenon DEF Revisions
  <2> QED
    BY <2>4, <2>5, StoresAssumption, Zenon
<1>4. /\ object' = new
      /\ during' \in [Callers -> SUBSET Sorts]
      /\ \A d \in Callers : during[d] \subseteq during'[d]
      /\ \A d \in Callers : pc[d] = "idle" => during'[d] = during[d]
      /\ \A d \in Callers : pc[d] # "idle" => Facts(call[d], new) \subseteq during'[d]
  BY <1>2, BecomesFacts, Zenon
<1>5. /\ pc'[c] = "write" /\ \A d \in Callers \ {c} : pc'[d] = pc[d]
      /\ pc' \in [Callers -> Steps]
  BY <1>2, Zenon DEF Types, Steps, Set
<1>6. /\ made'[c] = writes + 1 /\ \A d \in Callers \ {c} : made'[d] = made[d]
      /\ made' \in [Callers -> Nat]
  BY <1>2 DEF Types, Set
<1>7. /\ replaced'[c] = Absent /\ \A d \in Callers \ {c} : replaced'[d] = replaced[d]
      /\ replaced' \in [Callers -> Revisions \cup {Absent, None}]
  BY <1>2, Zenon DEF Types, Set
<1>8. /\ writes' \in Nat /\ 1 <= writes' /\ writes <= writes' /\ made'[c] # 0
      /\ made'[c] = writes' /\ new.rev = writes' /\ made'[c] <= writes'
  BY <1>2, <1>3, <1>6 DEF Types
<1>9. \A d \in Callers : made[d] <= writes' /\ made[d] # writes'
  BY <1>2 DEF Types, CallerOK, StepOK
<1>10. \A r \in confirmed : r <= writes' /\ r # writes'
  BY <1>2 DEF Types, ObjectOK
<1>11. Types'
  BY <1>2, <1>3, <1>4, <1>5, <1>6, <1>7, <1>8, Zenon DEF Types
<1>12. ObjectOK'
  <2>1. Versioned(object)'
    BY <1>2, <1>3, <1>4, Zenon DEF Versioned
  <2>2. object'.rev \in 1 .. writes'
    BY <1>4, <1>8
  <2>3. object'.rev \notin confirmed'
    BY <1>2, <1>4, <1>8, <1>10, Zenon
  <2> QED
    BY <1>2, <1>10, <2>1, <2>2, <2>3, Zenon DEF ObjectOK
<1>13. use # "head"
  BY <1>2, Zenon DEF CallOK
<1>14. ASSUME NEW d \in Callers PROVE HadOK(d)'
  BY <1>2, <1>3, <1>4, Zenon DEF CallerOK, HadOK, Versioned
<1>15. ASSUME NEW d \in Callers \ {c} PROVE CallerOK(d)'
  <2>1. Same(d) /\ CallerOK(d)
    BY <1>2, <1>5, <1>6, <1>7, Zenon DEF Same
  <2>2. CallOK(d)'
    BY <1>2, <1>4, <2>1, Zenon DEF CallerOK, CallOK, Same
  <2>3. pc[d] # "rename"
    BY <1>13, <2>1, Zenon DEF CallerOK, StepOK, CallOK, Holds
  <2>4. ~Mine(d)'
    BY <1>4, <1>8, <1>9, <2>1, Zenon DEF Mine, Same
  <2>5. ~(pc[d] = "write" /\ use = "root")
    BY <2>1, Zenon DEF CallerOK, StepOK
  <2>6. StepOK(d)'
    BY <1>2, <1>3, <1>4, <1>9, <2>1, <2>3, <2>4, <2>5, Zenon DEF CallerOK, StepOK, Same
  <2>7. AnswerOK(d)'
    BY <1>2, <1>4, <2>1, Zenon DEF CallerOK, AnswerOK, Same, Answered
  <2> QED
    BY <1>14, <2>2, <2>6, <2>7, Zenon DEF CallerOK
<1>16. CallerOK(c)'
  <2>1. CallOK(c)'
    BY <1>2, <1>4, Zenon DEF CallOK
  <2>2. StepOK(c)'
    BY <1>2, <1>3, <1>4, <1>5, <1>7, <1>8, Zenon DEF StepOK, Mine
  <2>3. AnswerOK(c)'
    BY <1>5, Zenon DEF AnswerOK, Answered
  <2> QED
    BY <1>14, <2>1, <2>2, <2>3, Zenon DEF CallerOK
<1>17. ApartOK'
  <2> SUFFICES ASSUME NEW d \in Callers, NEW e \in Callers
               PROVE  /\ d # e /\ made'[d] # 0 => made'[d] # made'[e]
                      /\ use' = "root" /\ pc'[d] = "write" =>
                            had'[e] = Absent /\ (d # e => pc'[e] # "sync")
    BY Zenon DEF ApartOK
  <2>1. d # e /\ made'[d] # 0 => made'[d] # made'[e]
    BY <1>6, <1>8, <1>9, Zenon DEF ApartOK
  <2>2. ASSUME use = "root" PROVE had[e] = Absent /\ pc[e] # "sync"
    BY <2>2, Zenon DEF CallerOK, HadOK, StepOK
  <2> QED
    BY <1>2, <1>5, <2>1, <2>2, Zenon
<1> QED
  BY <1>11, <1>12, <1>15, <1>16, <1>17, Zenon DEF StoresInv

(* Create writes the file it made, which nobody had before. *)
LEMMA FsWriteKeeps ==
  ASSUME StoresInv, NEW c \in Callers, FsWrite(c)
  PROVE  StoresInv'
<1> Types /\ ObjectOK /\ ApartOK /\ \A d \in Callers : CallerOK(d)
  BY Zenon DEF StoresInv
<1> CallOK(c) /\ StepOK(c) /\ HadOK(c)
  BY Zenon DEF CallerOK
<1>1. /\ pc[c] = "write" /\ backend = "fs"
      /\ pc' = Set(pc, c, "sync")
      /\ UNCHANGED <<backend, use, lock, writes, call, had, tries, result, made, replaced,
                     confirmed>>
  BY Zenon DEF FsWrite, On
<1>2. PICK new : new = [object EXCEPT !.data = call[c].data, !.version = call[c].data]
  OBVIOUS
<1>3. call[c].op = "create" /\ call[c].data \in Values /\ call[c].data # Torn /\ made[c] # 0
  BY <1>1, StoresAssumption, Zenon DEF StepOK, CallOK
<1>4. \/ ~Mine(c) /\ object' = object /\ during' = during
      \/ Mine(c) /\ Becomes(new)
  BY <1>2, Zenon DEF FsWrite
<1>5. ASSUME Mine(c)
      PROVE  /\ new \in Revisions /\ new # Absent /\ new.data = call[c].data
             /\ new.version = call[c].data /\ new.rev = object.rev /\ new.safe = object.safe
  <2>1. object \in Revisions
    BY <1>5, Zenon DEF Mine, Types
  <2>2. /\ new \in Revisions /\ new.data = call[c].data
        /\ new.version = call[c].data /\ new.rev = object.rev /\ new.safe = object.safe
    BY <1>2, <1>3, <2>1, Zenon DEF Revisions
  <2> QED
    BY <2>2, StoresAssumption, Zenon
<1>6. /\ during' \in [Callers -> SUBSET Sorts]
      /\ \A d \in Callers : during[d] \subseteq during'[d]
      /\ \A d \in Callers : pc[d] = "idle" => during'[d] = during[d]
      /\ \A d \in Callers : pc[d] # "idle" => Facts(call[d], object') \subseteq during'[d]
  <2>1. CASE ~Mine(c) /\ object' = object /\ during' = during
    BY <2>1, Zenon DEF Types, CallerOK, CallOK
  <2>2. CASE Becomes(new)
    BY <2>2, BecomesFacts, Zenon
  <2> QED
    BY <1>4, <2>1, <2>2, Zenon
<1>7. Mine(c) => object' = new
  BY <1>4, Zenon DEF Becomes
<1>8. /\ object' = Absent <=> object = Absent
      /\ object' # Absent => object'.rev = object.rev /\ object'.safe = object.safe
      /\ object' \in Revisions \cup {Absent}
      /\ Versioned(object)'
  BY <1>1, <1>4, <1>5, <1>7, Zenon DEF Mine, Types, ObjectOK, Versioned
<1>9. /\ pc'[c] = "sync" /\ \A d \in Callers \ {c} : pc'[d] = pc[d]
      /\ pc' \in [Callers -> Steps]
  BY <1>1, Zenon DEF Types, Steps, Set
<1>10. Types'
  BY <1>1, <1>6, <1>8, <1>9, Zenon DEF Types
<1>11. object' # Absent /\ object'.data = Torn => object.data = Torn
  BY <1>3, <1>4, <1>5, <1>7, Zenon
<1>12. ObjectOK'
  BY <1>1, <1>8, <1>11, Zenon DEF ObjectOK
<1>13. ASSUME NEW d \in Callers PROVE HadOK(d)'
  BY <1>1, <1>8, Zenon DEF CallerOK, HadOK, Versioned
<1>14. use = "root" => \A d \in Callers : had[d] = Absent
  BY <1>1, Zenon DEF ApartOK
<1>15. use # "head"
  BY <1>1, <1>3, Zenon DEF CallOK
<1>16. ASSUME NEW d \in Callers \ {c} PROVE CallerOK(d)'
  <2>1. Same(d) /\ CallerOK(d)
    BY <1>1, <1>9, Zenon DEF Same
  <2>2. CallOK(d)'
    BY <1>1, <1>6, <2>1, Zenon DEF CallerOK, CallOK, Same
  <2>3. pc[d] # "rename"
    BY <1>14, <1>15, <2>1, Zenon DEF CallerOK, StepOK, CallOK, Types
  <2>4. Mine(d)' => Mine(d) /\ ~Mine(c)
    BY <1>3, <1>8, <2>1, Zenon DEF Mine, Same, ApartOK
  <2>5. Mine(d)' => object' = object
    BY <1>4, <2>4, Zenon
  <2>6. ~(pc[d] = "write" /\ use = "root")
    <3>1. use = "root" => Mine(c)
      BY <1>1, Zenon DEF StepOK
    <3>2. pc[d] = "write" /\ use = "root" => Mine(d)
      BY <2>1, Zenon DEF CallerOK, StepOK
    <3>3. ~(Mine(c) /\ Mine(d))
      BY <1>3, Zenon DEF Mine, ApartOK
    <3> QED
      BY <3>1, <3>2, <3>3, Zenon
  <2>7. StepOK(d)'
    BY <1>1, <1>6, <1>8, <2>1, <2>3, <2>4, <2>5, <2>6, Zenon DEF CallerOK, StepOK, Same
  <2>8. AnswerOK(d)'
    BY <1>1, <1>6, <2>1, Zenon DEF CallerOK, AnswerOK, Same, Answered
  <2> QED
    BY <1>13, <2>2, <2>7, <2>8, Zenon DEF CallerOK
<1>17. CallerOK(c)'
  <2>1. CallOK(c)'
    BY <1>1, <1>6, Zenon DEF CallOK
  <2>2. Mine(c)' => object'.data = call[c].data
    BY <1>1, <1>5, <1>7, <1>8, Zenon DEF Mine
  <2>3. StepOK(c)'
    BY <1>1, <1>8, <1>9, <2>2, Zenon DEF StepOK
  <2>4. AnswerOK(c)'
    BY <1>9, Zenon DEF AnswerOK, Answered
  <2> QED
    BY <1>13, <2>1, <2>3, <2>4, Zenon DEF CallerOK
<1>18. ApartOK'
  <2>1. ASSUME use = "root", NEW d \in Callers, pc'[d] = "write" PROVE FALSE
    <3>1. d # c /\ pc[d] = "write" /\ Mine(c) /\ Mine(d)
      BY <1>1, <1>9, <2>1, Zenon DEF CallerOK, StepOK
    <3> QED
      BY <1>3, <3>1, Zenon DEF Mine, ApartOK
  <2> QED
    BY <1>1, <2>1, Zenon DEF ApartOK
<1> QED
  BY <1>10, <1>12, <1>16, <1>17, <1>18, Zenon DEF StoresInv

(* A file is synced, and its Create is answered. *)
LEMMA FsSyncKeeps ==
  ASSUME StoresInv, NEW c \in Callers, FsSync(c)
  PROVE  StoresInv'
<1> Types /\ ObjectOK /\ ApartOK /\ \A d \in Callers : CallerOK(d)
  BY Zenon DEF StoresInv
<1> CallOK(c) /\ StepOK(c) /\ HadOK(c)
  BY Zenon DEF CallerOK
<1>1. PICK new : new = [data |-> call[c].data, version |-> call[c].data, rev |-> made[c],
                        safe |-> TRUE]
  OBVIOUS
<1>2. /\ pc[c] = "sync" /\ backend = "fs"
      /\ object' = IF Mine(c) THEN [object EXCEPT !.safe = TRUE] ELSE object
      /\ had' = Set(had, c, new)
      /\ confirmed' = confirmed \cup {made[c]}
      /\ pc' = Set(pc, c, "idle") /\ result' = Set(result, c, "nil")
      /\ UNCHANGED <<backend, use, lock, writes, call, tries, made, replaced, during>>
  BY <1>1, Zenon DEF FsSync, On, Return
<1>3. /\ call[c].op = "create" /\ call[c].data \in Values /\ call[c].data # Torn
      /\ made[c] # 0 /\ replaced[c] = Absent /\ call[c].base = Absent
      /\ use = "root" => object # Absent
  BY <1>2, StoresAssumption, Zenon DEF StepOK, CallOK
<1>4. /\ object' = Absent <=> object = Absent
      /\ object' \in Revisions \cup {Absent}
      /\ object' # Absent => /\ object'.rev = object.rev /\ object'.data = object.data
                             /\ object'.version = object.version
                             /\ object.safe \/ Mine(c) => object'.safe
  <2>1. CASE ~Mine(c)
    <3>1. object' = object
      BY <1>2, <2>1, Zenon
    <3> QED
      BY <2>1, <3>1, Zenon DEF Types
  <2>2. CASE Mine(c)
    <3>1. object \in Revisions
      BY <2>2, Zenon DEF Mine, Types
    <3>2. PICK o : o = [object EXCEPT !.safe = TRUE]
      OBVIOUS
    <3>3. /\ o \in Revisions /\ o.rev = object.rev /\ o.data = object.data
          /\ o.version = object.version /\ o.safe = TRUE
      BY <3>1, <3>2, Zenon DEF Revisions
    <3>4. object' = o
      BY <1>2, <2>2, <3>2, Zenon
    <3> QED
      BY <2>2, <3>3, <3>4, StoresAssumption, Zenon DEF Mine
  <2> QED
    BY <2>1, <2>2, Zenon
<1>5. new \in Revisions /\ new # Absent /\ new.version = new.data
  <2>1. made[c] \in Nat
    BY Zenon DEF Types
  <2>2. new \in Revisions /\ new.version = new.data
    BY <1>1, <1>3, <2>1, Zenon DEF Revisions
  <2> QED
    BY <2>2, StoresAssumption, Zenon
<1>6. /\ pc'[c] = "idle" /\ \A d \in Callers \ {c} : pc'[d] = pc[d]
      /\ pc' \in [Callers -> Steps]
  BY <1>2, Zenon DEF Types, Steps, Set
<1>7. /\ result'[c] = "nil" /\ \A d \in Callers \ {c} : result'[d] = result[d]
      /\ result' \in [Callers -> Answers]
  BY <1>2, Zenon DEF Types, Answers, Set
<1>8. /\ had'[c] = new /\ \A d \in Callers \ {c} : had'[d] = had[d]
      /\ had' \in [Callers -> Revisions \cup {Absent}]
  BY <1>2, <1>5, Zenon DEF Types, Set
<1>9. Types'
  <2>1. confirmed' \in SUBSET Nat
    BY <1>2, Zenon DEF Types
  <2> QED
    BY <1>2, <1>4, <1>6, <1>7, <1>8, <2>1, Zenon DEF Types
<1>10. ObjectOK'
  <2>1. Versioned(object)'
    BY <1>2, <1>4, Zenon DEF ObjectOK, Versioned
  <2>2. object' # Absent => object'.rev \in 1 .. writes'
    BY <1>2, <1>4, Zenon DEF ObjectOK
  <2>3. object' # Absent /\ object'.rev \in confirmed => object'.safe /\ object'.data # Torn
    BY <1>4, Zenon DEF ObjectOK
  <2>4. object' # Absent /\ object'.rev = made[c] => object'.safe /\ object'.data # Torn
    BY <1>2, <1>3, <1>4, Zenon DEF StepOK, Mine
  <2>5. \A r \in confirmed' : r <= writes'
    BY <1>2, Zenon DEF ObjectOK, StepOK
  <2>6. object' # Absent /\ object'.rev \in confirmed' => object'.safe /\ object'.data # Torn
    <3>1. confirmed' = confirmed \cup {made[c]}
      BY <1>2, Zenon
    <3> QED
      BY <2>3, <2>4, <3>1, Zenon
  <2> QED
    BY <2>1, <2>2, <2>5, <2>6, Zenon DEF ObjectOK
<1>11. ASSUME NEW d \in Callers \ {c} PROVE CallerOK(d)'
  <2>1. Same(d) /\ CallerOK(d)
    BY <1>2, <1>6, <1>7, <1>8, Zenon DEF Same
  <2>2. HadOK(d)'
    BY <1>2, <1>4, <2>1, Zenon DEF CallerOK, HadOK, Versioned, Same
  <2>3. Facts(call[d], object') = Facts(call[d], object)
    BY <1>4, Zenon DEF Facts
  <2>4. CallOK(d)'
    BY <1>2, <2>1, <2>3, Zenon DEF CallerOK, CallOK, Same
  <2>5. (Holds(d)' <=> Holds(d)) /\ (Mine(d)' <=> Mine(d))
    BY <1>2, <1>4, <2>1, Zenon DEF Holds, Mine, Same
  <2>6. Mine(d) => object'.data = object.data
    BY <1>4, Zenon DEF Mine
  <2>7. StepOK(d)'
    BY <1>2, <1>4, <2>1, <2>5, <2>6, Zenon DEF CallerOK, StepOK, Same
  <2>8. AnswerOK(d)'
    BY <1>2, <2>1, Zenon DEF CallerOK, AnswerOK, Same, Answered
  <2> QED
    BY <2>2, <2>4, <2>7, <2>8, Zenon DEF CallerOK
<1>12. CallerOK(c)'
  <2>1. use # "once" => object # Absent
    BY <1>2, <1>3, Zenon DEF CallOK, Types
  <2>2. HadOK(c)'
    BY <1>2, <1>4, <1>5, <1>8, <2>1, Zenon DEF HadOK, Versioned
  <2>3. CallOK(c)'
    BY <1>6, Zenon DEF CallOK
  <2>4. StepOK(c)'
    BY <1>2, <1>6, Zenon DEF StepOK
  <2>5. AnswerOK(c)'
    BY <1>2, <1>3, <1>7, Zenon DEF AnswerOK, Answered
  <2> QED
    BY <2>2, <2>3, <2>4, <2>5, Zenon DEF CallerOK
<1>13. ApartOK'
  <2>1. ASSUME use = "root", NEW d \in Callers, pc'[d] = "write" PROVE FALSE
    <3>1. d # c /\ pc[d] = "write"
      BY <1>6, <2>1, Zenon
    <3> QED
      BY <1>2, <2>1, <3>1, Zenon DEF ApartOK
  <2> QED
    BY <1>2, <2>1, Zenon DEF ApartOK
<1> QED
  BY <1>9, <1>10, <1>11, <1>12, <1>13, Zenon DEF StoresInv

(* A crash leaves no call under way, and tears no file that was answered.  *)
LEMMA CrashKeeps ==
  ASSUME StoresInv, Crash
  PROVE  StoresInv'
<1> Types /\ ObjectOK /\ ApartOK /\ \A d \in Callers : CallerOK(d)
  BY Zenon DEF StoresInv
<1>1. /\ backend = "fs"
      /\ pc' = [c \in Callers |-> "idle"] /\ lock' = None
      /\ call' = [c \in Callers |-> NoCall] /\ had' = [c \in Callers |-> Absent]
      /\ result' = [c \in Callers |-> "none"]
      /\ UNCHANGED <<backend, use, writes, tries, made, replaced, during, confirmed>>
  BY Zenon DEF Crash, On
<1>2. PICK torn : torn = [object EXCEPT !.data = Torn, !.version = Torn]
  OBVIOUS
<1>3. \/ object' \in {object, Absent}
      \/ object # Absent /\ ~object.safe /\ object' = torn
  BY <1>2, Zenon DEF Crash
<1>4. ASSUME object # Absent
      PROVE  /\ torn \in Revisions /\ torn.rev = object.rev
             /\ torn.version = torn.data
  <2>1. object \in Revisions
    BY <1>4, Zenon DEF Types
  <2> QED
    BY <1>2, <2>1, Zenon DEF Revisions
<1>5. Types'
  <2>1. pc' \in [Callers -> Steps] /\ result' \in [Callers -> Answers]
    BY <1>1, Zenon DEF Steps, Answers
  <2>2. had' \in [Callers -> Revisions \cup {Absent}]
    BY <1>1, Zenon
  <2>3. call' \in [Callers -> [op : Ops, data : Values \cup {None}, base : Revisions \cup {Absent}]]
    BY <1>1, Zenon DEF NoCall, Ops
  <2>4. object' \in Revisions \cup {Absent}
    BY <1>3, <1>4, Zenon DEF Types
  <2> QED
    BY <1>1, <2>1, <2>2, <2>3, <2>4, Zenon DEF Types
<1>6. ObjectOK'
  <2>1. CASE object' \in {object, Absent}
    BY <1>1, <2>1, Zenon DEF ObjectOK, Versioned
  <2>2. CASE object # Absent /\ ~object.safe /\ object' = torn
    BY <1>1, <1>4, <2>2, Zenon DEF ObjectOK, Versioned
  <2> QED
    BY <1>3, <2>1, <2>2, Zenon
<1>7. \A c \in Callers : pc'[c] = "idle" /\ had'[c] = Absent /\ result'[c] = "none"
  BY <1>1, Zenon
<1>8. ASSUME NEW c \in Callers PROVE CallerOK(c)'
  <2>1. HadOK(c)' /\ CallOK(c)' /\ AnswerOK(c)'
    BY <1>7, Zenon DEF HadOK, Versioned, CallOK, AnswerOK, Answered
  <2>2. StepOK(c)'
    BY <1>1, <1>7, Zenon DEF StepOK, CallerOK
  <2> QED
    BY <2>1, <2>2, Zenon DEF CallerOK
<1>9. ApartOK'
  BY <1>1, <1>7, Zenon DEF ApartOK
<1> QED
  BY <1>5, <1>6, <1>8, <1>9, Zenon DEF StoresInv

(* The invariant is kept by every step of Spec. *)
LEMMA StoresInvStep ==
  ASSUME StoresInv, [Next]_vars
  PROVE  StoresInv'
<1>1. CASE Crash
  BY <1>1, CrashKeeps, Zenon
<1>2. ASSUME NEW c \in Callers, Step(c) PROVE StoresInv'
  <2> CallOK(c) /\ StepOK(c)
    BY Zenon DEF StoresInv, CallerOK
  <2>1. CASE Get(c)
    BY <2>1, GetKeeps, Zenon
  <2>2. CASE Delete(c)
    BY <2>2, DeleteKeeps, Zenon
  <2>3. CASE MemWrite(c)
    <3>1. /\ At(c, "call", {"create", "swap"}) /\ backend = "mem" /\ UNCHANGED <<backend, use, lock>>
          /\ IF Holds(c) THEN Put(c, "nil") ELSE Answer(c, Refusal(c))
      BY <2>3, Zenon DEF MemWrite, On
    <3>2. pc[c] = "call" /\ call[c].op \in {"create", "swap"}
      BY <3>1, Zenon DEF At
    <3>3. CASE Holds(c)
      BY <3>1, <3>2, <3>3, PutKeeps, Zenon
    <3>4. CASE ~Holds(c)
      BY <3>1, <3>2, <3>4, RefusalTold, AnswerKeeps, Zenon
    <3> QED
      BY <3>3, <3>4, Zenon
  <2>4. CASE DbWrite(c)
    <3>1. /\ At(c, "call", {"create", "swap"}) /\ backend = "db" /\ UNCHANGED <<backend, use, lock>>
          /\ Holds(c) => Put(c, "nil") \/ Put(c, "error")
          /\ ~Holds(c) /\ call[c].base # Absent =>
                /\ pc' = Set(pc, c, "exists")
                /\ UNCHANGED <<object, writes, call, had, tries, result, made, replaced,
                               during, confirmed>>
          /\ ~Holds(c) /\ call[c].base = Absent =>
                Answer(c, IF call[c].op = "create" THEN "exist" ELSE "mismatch")
      BY <2>4, Zenon DEF DbWrite, On
    <3>2. pc[c] = "call" /\ call[c].op \in {"create", "swap"}
      BY <3>1, Zenon DEF At
    <3>3. CASE Holds(c)
      BY <3>1, <3>2, <3>3, PutKeeps, Zenon
    <3>4. CASE ~Holds(c) /\ call[c].base # Absent
      BY <3>1, <3>4, MoveKeeps, Zenon
    <3>5. CASE ~Holds(c) /\ call[c].base = Absent
      <4>1. Refusal(c) = IF call[c].op = "create" THEN "exist" ELSE "mismatch"
        BY <3>5, Zenon DEF Holds, Refusal
      <4> QED
        BY <3>1, <3>2, <3>5, <4>1, RefusalTold, AnswerKeeps, Zenon
    <3> QED
      BY <3>3, <3>4, <3>5, Zenon
  <2>5. CASE DbExists(c)
    <3>1. /\ pc[c] = "exists" /\ call[c].op = "swap" /\ Answer(c, Refusal(c))
          /\ UNCHANGED <<backend, use, lock>>
      BY <2>5, Zenon DEF DbExists, At, On
    <3>2. made[c] = 0 /\ "other" \in during[c]
      BY <3>1, Zenon DEF StepOK
    <3>3. object = Absent => "absent" \in during[c]
      BY <3>1, Zenon DEF CallOK, Facts
    <3>4. Told(c, Refusal(c))
      BY <3>1, <3>2, <3>3, Zenon DEF Told, Refusal, Answers
    <3> QED
      BY <3>1, <3>4, AnswerKeeps, Zenon
  <2>6. CASE BucketPut(c)
    <3>1. /\ At(c, "call", {"create", "swap"}) /\ backend = "bucket"
          /\ UNCHANGED <<backend, use, lock>>
          /\ IF Holds(c) THEN Put(c, "nil") \/ Put(c, "error") ELSE Answer(c, Refusal(c))
      BY <2>6, Zenon DEF BucketPut, On
    <3>2. pc[c] = "call" /\ call[c].op \in {"create", "swap"}
      BY <3>1, Zenon DEF At
    <3>3. CASE Holds(c)
      BY <3>1, <3>2, <3>3, PutKeeps, Zenon
    <3>4. CASE ~Holds(c)
      BY <3>1, <3>2, <3>4, RefusalTold, AnswerKeeps, Zenon
    <3> QED
      BY <3>3, <3>4, Zenon
  <2>7. CASE BucketMissing(c)
    <3>1. PICK answer : /\ answer = IF call[c].op \in {"create", "delete"} THEN "nil" ELSE "notexist"
                        /\ pc[c] = "call" /\ backend = "missing" /\ Answer(c, answer)
                        /\ UNCHANGED <<backend, use, lock>>
      BY <2>7, Zenon DEF BucketMissing, On
    <3>2. object = Absent
      BY <3>1, Zenon DEF StoresInv, ObjectOK, Versioned
    <3>3. "absent" \in during[c] /\ made[c] = 0
      BY <3>1, <3>2, Zenon DEF StepOK, CallOK, Facts
    <3>4. Told(c, answer)
      BY <3>1, <3>3, Zenon DEF Told, Answers
    <3> QED
      BY <3>1, <3>4, AnswerKeeps, Zenon
  <2>8. CASE FsCreate(c)
    <3>1. CASE object = Absent
      BY <2>8, <3>1, FsCreateKeeps, Zenon
    <3>2. CASE object # Absent
      <4>1. /\ pc[c] = "call" /\ call[c].op = "create" /\ Answer(c, "exist")
            /\ UNCHANGED <<backend, use, lock>>
        BY <2>8, <3>2, Zenon DEF FsCreate, At, On
      <4>2. "present" \in during[c] /\ made[c] = 0
        BY <3>2, <4>1, Zenon DEF StepOK, CallOK, Facts
      <4>3. Told(c, "exist")
        BY <4>2, Zenon DEF Told, Answers
      <4> QED
        BY <4>1, <4>3, AnswerKeeps, Zenon
    <3> QED
      BY <3>1, <3>2, Zenon
  <2>9. CASE FsWrite(c)
    BY <2>9, FsWriteKeeps, Zenon
  <2>10. CASE FsSync(c)
    BY <2>10, FsSyncKeeps, Zenon
  <2>11. CASE FsSwap(c)
    <3>1. /\ pc[c] = "call" /\ call[c].op = "swap" /\ backend = "fs" /\ UNCHANGED <<backend, use>>
          /\ At(c, "call", {"create", "swap"}) /\ lock = None
          /\ Holds(c) =>
                /\ lock' = c /\ pc' = Set(pc, c, "rename")
                /\ UNCHANGED <<object, writes, call, had, tries, result, made, replaced,
                               during, confirmed>>
          /\ ~Holds(c) => Answer(c, Refusal(c)) /\ lock' = lock
      BY <2>11, Zenon DEF FsSwap, At, On
    <3>2. CASE Holds(c)
      BY <3>1, <3>2, MoveKeeps, Zenon
    <3>3. CASE ~Holds(c)
      BY <3>1, <3>3, RefusalTold, AnswerKeeps, Zenon
    <3> QED
      BY <3>2, <3>3, Zenon
  <2>12. CASE FsRename(c)
    <3>1. /\ pc[c] = "rename" /\ backend = "fs" /\ UNCHANGED <<backend, use>>
          /\ Put(c, "nil") /\ lock' = None
      BY <2>12, Zenon DEF FsRename, On
    <3>2. call[c].op = "swap" /\ lock = c /\ Holds(c)
      BY <3>1, Zenon DEF StepOK
    <3> QED
      BY <3>1, <3>2, PutKeeps, Zenon
  <2> QED
    BY <1>2, <2>1, <2>2, <2>3, <2>4, <2>5, <2>6, <2>7, <2>8, <2>9, <2>10, <2>11, <2>12,
       Zenon, Zenon DEF Step
<1>3. ASSUME NEW c \in Callers, Fails(c) PROVE StoresInv'
  <2>1. /\ pc[c] # "idle" /\ Answer(c, "error") /\ UNCHANGED <<backend, use>>
        /\ lock' = lock \/ (lock = c /\ lock' = None)
    BY <1>3, Zenon DEF Fails
  <2>2. Told(c, "error")
    BY Zenon DEF Told, Answers
  <2> QED
    BY <2>1, <2>2, AnswerKeeps, Zenon
<1>4. CASE UNCHANGED vars
  <2>1. /\ backend' = backend /\ use' = use /\ object' = object /\ lock' = lock
        /\ writes' = writes /\ pc' = pc /\ call' = call /\ had' = had /\ tries' = tries
        /\ result' = result /\ made' = made /\ replaced' = replaced /\ during' = during
        /\ confirmed' = confirmed
    BY <1>4, Zenon DEF vars, callers
  <2>2. Types'
    BY <2>1, Zenon DEF StoresInv, Types
  <2>3. ObjectOK'
    BY <2>1, Zenon DEF StoresInv, ObjectOK, Versioned
  <2>4. ApartOK'
    BY <2>1, Zenon DEF StoresInv, ApartOK
  <2>5. ASSUME NEW c \in Callers PROVE CallerOK(c)'
    <3> CallerOK(c)
      BY Zenon DEF StoresInv
    <3>1. HadOK(c)'
      BY <2>1, Zenon DEF CallerOK, HadOK, Versioned
    <3>2. CallOK(c)'
      BY <2>1, Zenon DEF CallerOK, CallOK, Facts
    <3>3. StepOK(c)'
      BY <2>1, Zenon DEF CallerOK, StepOK, Holds, Mine
    <3>4. AnswerOK(c)'
      BY <2>1, Zenon DEF CallerOK, AnswerOK, Answered
    <3> QED
      BY <3>1, <3>2, <3>3, <3>4, Zenon DEF CallerOK
  <2> QED
    BY <2>2, <2>3, <2>4, <2>5, Zenon DEF StoresInv
<1> QED
  BY <1>1, <1>2, <1>3, <1>4, BeginKeeps, ConflictKeeps, Zenon DEF Next

(* The invariant holds at first. *)
LEMMA StoresInvInit ==
  ASSUME Init
  PROVE  StoresInv
<1>1. /\ backend \in {"mem", "fs", "db", "bucket", "missing"} /\ use \in {"once", "root", "head"}
      /\ object = Absent /\ lock = None /\ writes = 0 /\ confirmed = {}
      /\ pc = [c \in Callers |-> "idle"] /\ call = [c \in Callers |-> NoCall]
      /\ had = [c \in Callers |-> Absent] /\ tries = [c \in Callers |-> 0]
      /\ result = [c \in Callers |-> "none"]
      /\ made = [c \in Callers |-> 0] /\ replaced = [c \in Callers |-> None]
      /\ during = [c \in Callers |-> {}]
  BY Zenon DEF Init
<1>2. Types
  <2>1. NoCall \in [op : Ops, data : Values \cup {None}, base : Revisions \cup {Absent}]
    BY Zenon DEF NoCall, Ops
  <2>2. /\ call \in [Callers -> [op : Ops, data : Values \cup {None}, base : Revisions \cup {Absent}]]
        /\ pc \in [Callers -> Steps] /\ result \in [Callers -> Answers]
        /\ had \in [Callers -> Revisions \cup {Absent}]
        /\ replaced \in [Callers -> Revisions \cup {Absent, None}]
        /\ during \in [Callers -> SUBSET Sorts] /\ DOMAIN tries = Callers
    BY <1>1, <2>1, Zenon DEF Steps, Answers
  <2>3. made \in [Callers -> Nat] /\ writes \in Nat /\ confirmed \in SUBSET Nat
    BY <1>1, Zenon
  <2> QED
    BY <1>1, <2>2, <2>3, Zenon DEF Types
<1>3. ObjectOK
  BY <1>1, Zenon DEF ObjectOK, Versioned
<1>4. \A c \in Callers : pc[c] = "idle" /\ had[c] = Absent /\ result[c] = "none" /\ made[c] = 0
  BY <1>1, Zenon
<1>5. ASSUME NEW c \in Callers PROVE CallerOK(c)
  <2>1. made[c] <= writes
    BY <1>1, <1>4
  <2> QED
    BY <1>4, <2>1, Zenon DEF CallerOK, HadOK, CallOK, StepOK, AnswerOK, Versioned, Answered
<1>6. ApartOK
  BY <1>4, Zenon DEF ApartOK
<1> QED
  BY <1>2, <1>3, <1>5, <1>6, Zenon DEF StoresInv

(* What every caller can rely on, in every backend. *)
THEOREM StoresInvariant == Spec => []StoresInv
<1>1. Init => StoresInv
  BY StoresInvInit, Zenon
<1>2. StoresInv /\ [Next]_vars => StoresInv'
  BY StoresInvStep, Zenon
<1> QED
  BY <1>1, <1>2, PTL DEF Spec

(* No Create or Swap that was answered nil has overwritten an update its   *)
(* caller had not seen (store.Store, Create and Swap), in any backend, for *)
(* any number of callers and of crashes.                                   *)
THEOREM UpdatesNeverLost == Spec => []NoUpdateLost
<1>1. StoresInv => NoUpdateLost
  BY Zenon DEF StoresInv, CallerOK, AnswerOK, NoUpdateLost
<1> QED
  BY <1>1, StoresInvariant, PTL

(* ErrExist, ErrNotExist and ErrVersionMismatch are answered by calls that *)
(* wrote nothing, and were true at some moment of the call, in any         *)
(* backend, though db asks twice and fs and bucket answer late.            *)
THEOREM RefusalsAlwaysTrue == Spec => []RefusalsTrue
<1>1. StoresInv => RefusalsTrue
  BY Zenon DEF StoresInv, CallerOK, AnswerOK, RefusalsTrue
<1> QED
  BY <1>1, StoresInvariant, PTL

(* A write that was answered nil is never torn, by a crash between the     *)
(* steps of another write either: fs syncs a file before it is answered    *)
(* for.                                                                    *)
THEOREM ConfirmedStaysWhole == Spec => []ConfirmedWhole
<1>1. StoresInv => ConfirmedWhole
  BY Zenon DEF StoresInv, ObjectOK, ConfirmedWhole
<1> QED
  BY <1>1, StoresInvariant, PTL

===============================================================================
