-------------------------- MODULE StorageCacheProofs --------------------------
(***************************************************************************)
(* Proofs about StorageCache, for any messages, rents and number of calls. *)
(* The events that a count does not have yet are the pairs of a call and a *)
(* message that the call still has to add or to take off: the cached count *)
(* and a scan that has read the database differ from the number of stored  *)
(* messages by just these, as long as nothing was applied to a cold cache. *)
(***************************************************************************)
EXTENDS StorageCache, WellFoundedInduction, FiniteSetTheorems, TLAPS

Stamps == {m.ts : m \in Messages}

PCs == {"idle", "await", "limit", "slot", "setSlot", "earliest", "first", "cacheFirst",
        "merge", "prune", "delete", "event", "apply"}

Jobs ==
    [op : Ops \cup {None}, pc : PCs, then : {None, "limit", "earliest", "apply"},
     msg : Messages \cup CompactStates \cup {None}, value : Int \cup {None},
     add : SUBSET Messages, gone : SUBSET Messages, at : Nat, read : SUBSET Rents]

\* A merge that is not committed yet.
Deciding(j) ==
    \/ j.pc \in {"limit", "slot", "setSlot", "earliest", "first", "cacheFirst", "merge"}
    \/ j.pc = "await" /\ j.then # "apply"

\* A call that has committed and has an event to tell of.
Telling(j) == j.pc \in {"event", "apply"} \/ (j.pc = "await" /\ j.then = "apply")

\* What a call knows at each of its steps.
Knows(j, t, R) ==
    /\ j.pc = "idle" => j = Idle
    /\ j.pc = "await" => j.then \in {"limit", "earliest", "apply"}
    /\ j.pc \in {"limit", "slot", "setSlot", "earliest", "apply", "prune"} => j.value \in Int
    /\ j.pc = "cacheFirst" => j.value \in Stamps \cup {None}
    /\ j.pc = "merge" => j.op = "merge"
    /\ j.op = "merge" /\ Deciding(j) => j.msg \in Messages \cup CompactStates
    /\ j.pc \in {"slot", "setSlot"} => j.at <= t
    /\ j.pc = "setSlot" => j.read \subseteq R
    /\ j.add # {} => Telling(j) /\ j.op = "merge" /\ \E x \in Messages : j.add = {x}

CallInv(j) == Knows(j, now, rents)

CallsInv == call \in [Calls -> Jobs] /\ \A c \in Calls : CallInv(call[c])

RentsInv == now \in Nat /\ fresh \cap missed = {}

Shape == TypeOK /\ CallsInv /\ RentsInv

\* The messages that a call has added to the database, and those it has deleted from it,
\* and not told the cache of.
AddOf(j) == IF j.pc = "event" THEN j.add ELSE {}
GoneOf(j) == IF j.pc = "event" THEN j.gone ELSE {}

\* The number of pairs of a call and a message that f gives it.
Pairs(f) == {p \in Calls \X Messages : p[2] \in f[p[1]]}
Total(f) == Cardinality(Pairs(f))

\* The count that the cache is to have before it is told.
Balance ==
    Cardinality(db) + compacted - Total([c \in Calls |-> AddOf(call[c])]) + Total([c \in Calls |-> GoneOf(call[c])])

Accounts(n) == n <= Balance /\ ("delete" \notin history => n = Balance)

\* A cache that no event found cold: a scan runs only before there is a count, and
\* no message is merged before there is one.
WarmInv ==
    /\ \A c \in Calls : call[c].pc # "apply" /\ (call[c].pc = "await" => call[c].then # "apply")
    /\ scan # NoScan => count = None
    /\ count = None => \A c \in Calls : call[c].op = "merge" => call[c].pc \in {"idle", "await"}
    /\ count = None => compacted = 0
    /\ scan.pc = "read" => Accounts(scan.total)
    /\ count # None => Accounts(count)

MergesOnly == "cold" \notin history /\ \A c \in Calls : call[c].pc = "event" => call[c].op = "merge"

CountInv ==
    /\ "delete" \notin history => MergesOnly
    /\ "cold" \notin history => WarmInv

Counted == InForce(rents, now) \ (fresh \cup missed)

SlotInv ==
    /\ slot = None => Counted = {}
    /\ slot # None /\ slot.until >= now =>
         slot.units = Units(Counted) /\ \A r \in Counted : slot.until <= r.until

IInv == Shape /\ CountInv /\ SlotInv

-----------------------------------------------------------------------------
(* Numbers and rents                                                       *)

LEMMA NatHasLeast ==
    ASSUME NEW T \in SUBSET Nat, T # {}
    PROVE  \E x \in T : \A y \in T : x <= y
<1> DEFINE R == {ss \in Nat \X Nat : ss[1] < ss[2]}
<1>1. IsWellFoundedOn(R, Nat)
  BY NatLessThanWellFounded, Zenon DEF OpToRel
<1> HIDE DEF R
<1>2. PICK x \in T : \A y \in T : ~ (<<y, x>> \in R)
  BY <1>1, WFMin
<1>3. ASSUME NEW y \in T PROVE x <= y
  <2>1. ~(<<y, x>> \in R) /\ x \in Nat /\ y \in Nat
    BY <1>2
  <2>2. ~(y < x)
    BY <2>1 DEF R
  <2>3. QED BY <2>1, <2>2
<1>4. QED BY <1>3

\* The first of several times.
LEMMA MinType ==
    ASSUME NEW T \in SUBSET Nat, T # {}
    PROVE  Min(T) \in T /\ \A y \in T : Min(T) <= y
<1>1. \E x \in T : \A y \in T : x <= y
  BY NatHasLeast
<1>2. QED BY <1>1, Zenon DEF Min

LEMMA PlacesAreFinite ==
    ASSUME NEW R \in SUBSET Rents
    PROVE  IsFiniteSet(UNION {Places(r) : r \in R})
<1> DEFINE P == {Places(r) : r \in R}
           f == [r \in R |-> Places(r)]
<1>1. IsFiniteSet(R)
  BY FS_Subset, CacheAssumption
<1>2. f \in Surjection(R, P)
  BY DEF Surjection
<1> HIDE DEF f
<1>3. IsFiniteSet(P)
  <2> HIDE DEF P
  <2>1. QED BY <1>1, <1>2, FS_Surjection
<1>4. ASSUME NEW T \in P PROVE IsFiniteSet(T)
  <2>1. PICK r \in R : T = {r} \X (1..r.units)
    BY <1>4 DEF Places
  <2>2. r.units \in Nat
    BY CacheAssumption
  <2>3. IsFiniteSet({r}) /\ IsFiniteSet(1..r.units)
    <3>1. 1 \in Int /\ r.units \in Int
      BY <2>2
    <3>2. IsFiniteSet(1..r.units)
      BY <3>1, FS_Interval, Zenon
    <3>3. QED BY <3>2, FS_Singleton, Zenon
  <2>4. QED BY <2>1, <2>3, FS_Product
<1> HIDE DEF P
<1>5. IsFiniteSet(UNION P)
  BY <1>3, <1>4, FS_UNION
<1>6. QED BY <1>5 DEF P

LEMMA UnitsType ==
    ASSUME NEW R \in SUBSET Rents
    PROVE  Units(R) \in Nat
BY PlacesAreFinite, FS_CardinalityType DEF Units

LEMMA UnitsOfNone == Units({}) = 0
<1>1. UNION {Places(r) : r \in {}} = {}
  OBVIOUS
<1>2. QED BY <1>1, FS_EmptySet DEF Units

\* One more rent.
LEMMA UnitsAdd ==
    ASSUME NEW R \in SUBSET Rents, NEW s \in Rents, s \notin R
    PROVE  Units(R \cup {s}) = s.units + Units(R)
<1> DEFINE P == UNION {Places(r) : r \in R}
           Q == UNION {Places(r) : r \in R \cup {s}}
<1>1. Q = P \cup Places(s)
  OBVIOUS
<1>2. P \cap Places(s) = {}
  BY DEF Places
<1>3. IsFiniteSet(P)
  BY PlacesAreFinite
<1>4. s.units \in Nat
  BY CacheAssumption
<1>5. IsFiniteSet(Places(s)) /\ Cardinality(Places(s)) = s.units
  <2>1. IsFiniteSet({s}) /\ Cardinality({s}) = 1
    BY FS_Singleton
  <2>2. IsFiniteSet(1..s.units) /\ Cardinality(1..s.units) = s.units
    <3>1. 1 \in Int /\ s.units \in Int
      BY <1>4
    <3>2. IsFiniteSet(1..s.units) /\ Cardinality(1..s.units) = IF 1 > s.units THEN 0 ELSE s.units - 1 + 1
      BY <3>1, FS_Interval, Zenon
    <3>3. QED BY <3>2, <1>4
  <2>3. IsFiniteSet({s} \X (1..s.units)) /\ Cardinality({s} \X (1..s.units)) = 1 * s.units
    BY <2>1, <2>2, FS_Product
  <2>4. QED BY <2>3, <1>4 DEF Places
<1> HIDE DEF P, Q
<1>6. Cardinality(P \cup Places(s)) = Cardinality(P) + Cardinality(Places(s)) - Cardinality(P \cap Places(s))
  BY <1>3, <1>5, FS_Union
<1>7. Cardinality(P \cap Places(s)) = 0
  BY <1>2, FS_EmptySet
<1>8. Cardinality(P) \in Nat
  BY <1>3, FS_CardinalityType
<1>9. Cardinality(Q) = s.units + Cardinality(P)
  BY <1>1, <1>4, <1>5, <1>6, <1>7, <1>8
<1>10. QED BY <1>9 DEF Units, P, Q

LEMMA SlotOfType ==
    ASSUME NEW R \in SUBSET Rents, NEW ends \in SUBSET Nat, ends # {} \/ R # {}
    PROVE  /\ slotOf(R, ends) \in [units : Nat, until : Nat]
           /\ slotOf(R, ends).units = Units(R)
           /\ \A r \in R : slotOf(R, ends).until <= r.until
<1> DEFINE T == ends \cup {r.until : r \in R}
<1>1. T \in SUBSET Nat /\ T # {}
  <2>1. \A r \in R : r.until \in Nat
    BY CacheAssumption
  <2>2. QED BY <2>1
<1>2. \A r \in R : r.until \in T
  OBVIOUS
<1> HIDE DEF T
<1>3. Min(T) \in T /\ \A y \in T : Min(T) <= y
  BY <1>1, MinType
<1>4. slotOf(R, ends) = [units |-> Units(R), until |-> Min(T)]
  BY DEF slotOf, T
<1>5. Units(R) \in Nat
  BY UnitsType
<1>6. slotOf(R, ends).units = Units(R) /\ slotOf(R, ends).until = Min(T)
  BY <1>4
<1>7. Min(T) \in Nat /\ \A r \in R : Min(T) <= r.until
  BY <1>1, <1>2, <1>3
<1>8. slotOf(R, ends) \in [units : Nat, until : Nat]
  BY <1>4, <1>5, <1>7
<1>9. QED BY <1>6, <1>7, <1>8

-----------------------------------------------------------------------------
(* The steps of a call up to its event                                     *)

\* Call j at its next step, with what it has got.
At(j, pc, v) ==
    [op |-> j.op, pc |-> pc, then |-> None, msg |-> j.msg, value |-> v,
     add |-> j.add, gone |-> j.gone, at |-> 0, read |-> {}]

Waiting(j, then) == [j EXCEPT !.pc = "await", !.then = then]

\* Call c goes on with n, and no event is taken up or made.
Walks(c, n) ==
    /\ call' = [call EXCEPT ![c] = n] /\ n \in Jobs /\ CallInv(n)
    /\ call[c].pc \notin {"event", "apply"}
    /\ n.pc \notin {"event", "apply"} /\ (n.pc = "await" => n.then # "apply")
    /\ count = None /\ n.op = "merge" =>
         n.pc \in {"idle", "await"} \/ (call[c].op = "merge" /\ call[c].pc \notin {"idle", "await"})
    /\ scan' = scan \/ (scan = NoScan /\ count = None /\ scan' = [pc |-> "running", total |-> 0])

LEMMA IdleType == Idle \in Jobs /\ CallInv(Idle) /\ Idle.pc = "idle" /\ Idle.add = {} /\ Idle.gone = {}
BY DEF Idle, Jobs, CallInv, Knows, PCs, Deciding

LEMMA GotoType ==
    ASSUME NEW j \in Jobs, NEW pc \in PCs \ {"idle"}, NEW v \in Int \cup {None}
    PROVE  /\ Goto(j, pc) = At(j, pc, 0) /\ [Goto(j, pc) EXCEPT !.value = v] = At(j, pc, v)
           /\ At(j, pc, v) \in Jobs /\ At(j, pc, 0) \in Jobs
<1>1. j = [op |-> j.op, pc |-> j.pc, then |-> j.then, msg |-> j.msg, value |-> j.value,
           add |-> j.add, gone |-> j.gone, at |-> j.at, read |-> j.read]
  BY DEF Jobs
<1>2. Goto(j, pc) = At(j, pc, 0)
  BY <1>1 DEF Goto, At
<1>3. [Goto(j, pc) EXCEPT !.value = v] = At(j, pc, v)
  BY <1>2 DEF At
<1>4. At(j, pc, v) \in Jobs /\ At(j, pc, 0) \in Jobs
  BY DEF At, Jobs
<1>5. QED BY <1>2, <1>3, <1>4

LEMMA AtFields ==
    ASSUME NEW j, NEW pc, NEW v
    PROVE  /\ At(j, pc, v).op = j.op /\ At(j, pc, v).pc = pc /\ At(j, pc, v).value = v
           /\ At(j, pc, v).msg = j.msg /\ At(j, pc, v).add = j.add /\ At(j, pc, v).gone = j.gone
BY DEF At

LEMMA WaitingType ==
    ASSUME NEW j \in Jobs, NEW then \in {"limit", "earliest", "apply"}
    PROVE  /\ Waiting(j, then) \in Jobs /\ Waiting(j, then).pc = "await"
           /\ Waiting(j, then).then = then /\ Waiting(j, then).op = j.op
           /\ Waiting(j, then).msg = j.msg /\ Waiting(j, then).add = j.add
BY DEF Waiting, Jobs, PCs

\* A call that asks for the count before its merge, for its usage or for its prune.
LEMMA GetCountWalks ==
    ASSUME Shape, NEW c \in Calls, NEW j \in Jobs, NEW then \in {"limit", "earliest"},
           NEW fetch \in BOOLEAN, getMessageCount(c, j, then, fetch, Idle),
           call[c].pc \notin {"event", "apply"}, j.op = "merge" => fetch /\ j.msg \in Messages \cup CompactStates,
           j.add = {}
    PROVE  \E n \in Jobs : Walks(c, n)
<1>1. CASE scan # NoScan /\ call' = [call EXCEPT ![c] = Waiting(j, then)] /\ UNCHANGED scan
  <2>1. CallInv(Waiting(j, then))
    BY WaitingType DEF CallInv, Knows, Deciding, Telling
  <2>2. Walks(c, Waiting(j, then))
    BY <1>1, <2>1, WaitingType DEF Walks
  <2>3. QED BY <2>2, WaitingType
<1>2. CASE /\ scan = NoScan /\ count = None
           /\ \/ scan' = [NoScan EXCEPT !.pc = "running"] /\ call' = [call EXCEPT ![c] = Waiting(j, then)]
              \/ call' = [call EXCEPT ![c] = Idle] /\ UNCHANGED scan
  <2>1. CallInv(Waiting(j, then))
    BY WaitingType DEF CallInv, Knows, Deciding, Telling
  <2>2. [NoScan EXCEPT !.pc = "running"] = [pc |-> "running", total |-> 0]
    BY DEF NoScan
  <2>3. CASE scan' = [NoScan EXCEPT !.pc = "running"] /\ call' = [call EXCEPT ![c] = Waiting(j, then)]
    <3>1. Walks(c, Waiting(j, then))
      BY <1>2, <2>1, <2>2, <2>3, WaitingType DEF Walks
    <3>2. QED BY <3>1, WaitingType
  <2>4. CASE call' = [call EXCEPT ![c] = Idle] /\ UNCHANGED scan
    <3>1. Walks(c, Idle)
      BY <2>4, IdleType DEF Walks
    <3>2. QED BY <3>1, IdleType
  <2>5. QED BY <1>2, <2>3, <2>4
<1>3. CASE /\ count # None \/ ~fetch
           /\ call' = [call EXCEPT ![c] = [Goto(j, then) EXCEPT !.value = IF count = None THEN 0 ELSE count]]
           /\ UNCHANGED scan
  <2> DEFINE v == IF count = None THEN 0 ELSE count
  <2>1. v \in Int
    BY DEF Shape, TypeOK
  <2> HIDE DEF v
  <2>2. call' = [call EXCEPT ![c] = [Goto(j, then) EXCEPT !.value = v]]
    BY <1>3 DEF v
  <2>3. [Goto(j, then) EXCEPT !.value = v] = At(j, then, v) /\ At(j, then, v) \in Jobs
    BY <2>1, GotoType DEF PCs
  <2>4. CallInv(At(j, then, v))
    BY <2>1, AtFields DEF CallInv, Knows, Deciding, Telling
  <2>5. Walks(c, At(j, then, v))
    <3>1. At(j, then, v).pc = then /\ At(j, then, v).op = j.op
      BY AtFields
    <3>2. count = None => j.op # "merge"
      BY <1>3
    <3>3. call' = [call EXCEPT ![c] = At(j, then, v)]
      BY <2>2, <2>3
    <3>4. scan' = scan
      BY <1>3
    <3> HIDE DEF v
    <3>5. QED BY <2>3, <2>4, <3>1, <3>2, <3>3, <3>4 DEF Walks
  <2>6. QED BY <2>3, <2>5
<1>4. QED BY <1>1, <1>2, <1>3 DEF getMessageCount, Waiting

\* m may be merged, or a usage query returns.
LEMMA ProceedWalks ==
    ASSUME Shape, NEW c \in Calls, Proceed(c), UNCHANGED scan,
           call[c].pc \notin {"idle", "await", "event", "apply"}, Deciding(call[c])
    PROVE  \E n \in Jobs : Walks(c, n)
<1>1. call[c] \in Jobs /\ CallInv(call[c])
  BY DEF Shape, CallsInv
<1>2. CASE call[c].op = "merge"
  <2>1. Goto(call[c], "merge") = At(call[c], "merge", 0) /\ At(call[c], "merge", 0) \in Jobs
    BY <1>1, GotoType DEF PCs
  <2>2. CallInv(At(call[c], "merge", 0))
    BY <1>1, <1>2, AtFields DEF CallInv, Knows, Telling
  <2>3. call' = [call EXCEPT ![c] = At(call[c], "merge", 0)]
    BY <1>2, <2>1 DEF Proceed
  <2>4. At(call[c], "merge", 0).pc = "merge"
    BY AtFields
  <2>5. Walks(c, At(call[c], "merge", 0))
    BY <1>2, <2>1, <2>2, <2>3, <2>4 DEF Walks
  <2>6. QED BY <2>1, <2>5
<1>3. CASE call[c].op # "merge"
  <2>1. call' = [call EXCEPT ![c] = Idle]
    BY <1>3 DEF Proceed, Goto
  <2>2. Walks(c, Idle)
    BY <2>1, IdleType DEF Walks
  <2>3. QED BY <2>2, IdleType
<1>4. QED BY <1>2, <1>3

LEMMA DecideWalks ==
    ASSUME Shape, NEW c \in Calls, NEW first, Decide(c, first), UNCHANGED scan,
           call[c].pc \notin {"idle", "await", "event", "apply"}, Deciding(call[c])
    PROVE  \E n \in Jobs : Walks(c, n)
<1>1. CASE call' = [call EXCEPT ![c] = Idle]
  <2>1. Walks(c, Idle)
    BY <1>1, IdleType DEF Walks
  <2>2. QED BY <2>1, IdleType
<1>2. CASE Proceed(c)
  BY <1>2, ProceedWalks
<1>3. QED BY <1>1, <1>2 DEF Decide

\* The count is compared with a limit.
LEMMA CompareWalks ==
    ASSUME Shape, NEW c \in Calls, NEW limit \in Nat, Compare(c, limit),
           call[c].pc \in {"limit", "setSlot"}
    PROVE  \E n \in Jobs : Walks(c, n)
<1>1. call[c] \in Jobs /\ CallInv(call[c]) /\ call[c].value \in Int
  BY DEF Shape, CallsInv, CallInv, Knows, Telling
<1>2. Deciding(call[c]) /\ call[c].add = {}
  BY <1>1 DEF Deciding, CallInv, Knows, Telling
<1>3. CASE call[c].op = "prune"
  <2> DEFINE v == call[c].value - rustLimit(limit)
  <2>1. v \in Int
    BY <1>1, CacheAssumption DEF rustLimit
  <2> HIDE DEF v
  <2>2. [Goto(call[c], "prune") EXCEPT !.value = v] = At(call[c], "prune", v) /\ At(call[c], "prune", v) \in Jobs
    BY <1>1, <2>1, GotoType DEF PCs
  <2>3. call' = [call EXCEPT ![c] = Idle] \/ call' = [call EXCEPT ![c] = At(call[c], "prune", v)]
    BY <1>3, <2>2 DEF Compare, v
  <2>4. scan' = scan
    BY <1>3 DEF Compare
  <2>5. At(call[c], "prune", v).pc = "prune" /\ At(call[c], "prune", v).op = "prune"
        /\ At(call[c], "prune", v).value = v /\ At(call[c], "prune", v).add = {}
    BY <1>2, <1>3, AtFields
  <2>6. CallInv(At(call[c], "prune", v))
    BY <2>1, <2>5 DEF CallInv, Knows, Deciding, Telling
  <2>7. CASE call' = [call EXCEPT ![c] = Idle]
    <3>1. Walks(c, Idle)
      BY <2>4, <2>7, IdleType DEF Walks
    <3>2. QED BY <3>1, IdleType
  <2>8. CASE call' = [call EXCEPT ![c] = At(call[c], "prune", v)]
    <3>1. Walks(c, At(call[c], "prune", v))
      BY <2>2, <2>4, <2>5, <2>6, <2>8 DEF Walks
    <3>2. QED BY <2>2, <3>1
  <2>9. QED BY <2>3, <2>7, <2>8
<1>4. CASE Proceed(c) /\ UNCHANGED scan
  BY <1>2, <1>4, ProceedWalks
<1>5. CASE getMessageCount(c, Goto(call[c], "limit"), "earliest", TRUE, Idle)
  <2>1. Goto(call[c], "limit") = At(call[c], "limit", 0) /\ At(call[c], "limit", 0) \in Jobs
    BY <1>1, GotoType DEF PCs
  <2>2. /\ At(call[c], "limit", 0).op = "merge" => At(call[c], "limit", 0).msg \in Messages \cup CompactStates
        /\ At(call[c], "limit", 0).add = {}
    BY <1>1, <1>2, AtFields DEF CallInv, Knows
  <2>3. QED BY <1>5, <2>1, <2>2, GetCountWalks
<1>6. QED BY <1>3, <1>4, <1>5 DEF Compare

LEMMA MaxCountType ==
    ASSUME NEW units \in Nat
    PROVE  maxCount(units) \in Nat
BY CacheAssumption DEF maxCount

LEMMA StartWalks ==
    ASSUME Shape, NEW c \in Calls, NEW m \in Messages \cup CompactStates,
           StartMerge(c, m) \/ (m \in Messages /\ StartRevoke(c, m))
    PROVE  \E n \in Jobs : Walks(c, n)
<1>1. CASE StartMerge(c, m)
  <2> DEFINE j == [Idle EXCEPT !.op = "merge", !.msg = m]
  <2>1. "merge" \in Ops /\ call[c].pc = "idle" /\ getMessageCount(c, j, "limit", TRUE, Idle)
    BY <1>1 DEF StartMerge, Start
  <2>2. j \in Jobs /\ j.op = "merge" /\ j.msg = m /\ j.add = {}
    BY <2>1, IdleType DEF Jobs
  <2> HIDE DEF j
  <2>3. QED BY <2>1, <2>2, GetCountWalks
<1>2. CASE m \in Messages /\ StartRevoke(c, m)
  <2> DEFINE j == [Idle EXCEPT !.op = "revoke", !.pc = "delete", !.gone = {m}]
  <2>1. "revoke" \in Ops /\ call[c].pc = "idle" /\ call' = [call EXCEPT ![c] = j] /\ UNCHANGED scan
    BY <1>2 DEF StartRevoke, Start
  <2>2. j \in Jobs /\ j.op = "revoke" /\ j.pc = "delete" /\ j.add = {}
    BY <1>2, <2>1, IdleType DEF Jobs, PCs
  <2> HIDE DEF j
  <2>3. CallInv(j)
    BY <2>2 DEF CallInv, Knows, Deciding, Telling
  <2>4. Walks(c, j)
    BY <2>1, <2>2, <2>3 DEF Walks
  <2>5. QED BY <2>2, <2>4
<1>3. QED BY <1>1, <1>2

LEMMA StartQueryWalks ==
    ASSUME Shape, NEW c \in Calls, StartUsage(c) \/ StartPrune(c)
    PROVE  \E n \in Jobs : Walks(c, n)
<1>1. CASE StartUsage(c)
  <2> DEFINE j == [Idle EXCEPT !.op = "usage"]
  <2>1. "usage" \in Ops /\ call[c].pc = "idle" /\ getMessageCount(c, j, "limit", TRUE, Idle)
    BY <1>1 DEF StartUsage, Start
  <2>2. j \in Jobs /\ j.op = "usage" /\ j.add = {}
    BY <2>1 DEF Jobs, Idle, PCs
  <2> HIDE DEF j
  <2>3. QED BY <2>1, <2>2, GetCountWalks
<1>2. CASE StartPrune(c)
  <2> DEFINE j == [Idle EXCEPT !.op = "prune"]
  <2>1. "prune" \in Ops /\ call[c].pc = "idle" /\ getMessageCount(c, j, "limit", FALSE, Idle)
    BY <1>2 DEF StartPrune, Start
  <2>2. j \in Jobs /\ j.op = "prune" /\ j.add = {}
    BY <2>1 DEF Jobs, Idle, PCs
  <2> HIDE DEF j
  <2>3. QED BY <2>1, <2>2, GetCountWalks
<1>3. QED BY <1>1, <1>2

LEMMA CheckLimitWalks ==
    ASSUME Shape, NEW c \in Calls, CheckLimit(c)
    PROVE  \E n \in Jobs : Walks(c, n)
<1>1. call[c] \in Jobs /\ CallInv(call[c]) /\ call[c].pc = "limit" /\ now \in Nat /\ call[c].add = {}
  BY DEF Shape, CallsInv, RentsInv, CheckLimit, CallInv, Knows, Telling
<1>2. CASE getMessageCount(c, Goto(call[c], "limit"), "earliest", TRUE, Idle)
  <2>1. Goto(call[c], "limit") = At(call[c], "limit", 0) /\ At(call[c], "limit", 0) \in Jobs
    BY <1>1, GotoType DEF PCs
  <2>2. /\ At(call[c], "limit", 0).op = "merge" => At(call[c], "limit", 0).msg \in Messages \cup CompactStates
        /\ At(call[c], "limit", 0).add = {}
    BY <1>1, AtFields DEF CallInv, Knows, Deciding, Telling
  <2>3. QED BY <1>1, <1>2, <2>1, <2>2, GetCountWalks
<1>3. CASE Compare(c, 0)
  BY <1>1, <1>3, CompareWalks
<1>4. CASE slot # None /\ Compare(c, maxCount(slot.units))
  <2>1. maxCount(slot.units) \in Nat
    BY <1>4, MaxCountType DEF Shape, TypeOK
  <2>2. QED BY <1>1, <1>4, <2>1, CompareWalks
<1>5. CASE call' = [call EXCEPT ![c] = [@ EXCEPT !.pc = "slot", !.at = now]] /\ UNCHANGED scan
  <2> DEFINE j == [call[c] EXCEPT !.pc = "slot", !.at = now]
  <2>1. /\ j \in Jobs /\ j.pc = "slot" /\ j.at = now /\ j.op = call[c].op /\ j.msg = call[c].msg
        /\ j.value = call[c].value /\ j.add = call[c].add
    BY <1>1 DEF Jobs, PCs
  <2>2. call' = [call EXCEPT ![c] = j]
    BY <1>5
  <2> HIDE DEF j
  <2>3. CallInv(j)
    BY <1>1, <2>1 DEF CallInv, Knows, Deciding, Telling
  <2>4. Walks(c, j)
    BY <1>1, <1>5, <2>1, <2>2, <2>3 DEF Walks
  <2>5. QED BY <2>1, <2>4
<1>6. QED BY <1>2, <1>3, <1>4, <1>5 DEF CheckLimit

LEMMA ReadRentsWalks ==
    ASSUME Shape, NEW c \in Calls, ReadRents(c)
    PROVE  \E n \in Jobs : Walks(c, n)
<1>1. call[c] \in Jobs /\ CallInv(call[c]) /\ call[c].pc = "slot" /\ rents \subseteq Rents
  BY DEF Shape, CallsInv, TypeOK, ReadRents
<1> DEFINE j == [call[c] EXCEPT !.pc = "setSlot", !.read = rents]
<1>2. /\ j \in Jobs /\ j.pc = "setSlot" /\ j.at = call[c].at /\ j.op = call[c].op /\ j.msg = call[c].msg
      /\ j.value = call[c].value /\ j.read = rents /\ j.add = call[c].add
  BY <1>1 DEF Jobs, PCs
<1>3. call' = [call EXCEPT ![c] = j] /\ UNCHANGED scan
  BY DEF ReadRents
<1> HIDE DEF j
<1>4. CallInv(j)
  BY <1>1, <1>2 DEF CallInv, Knows, Deciding, Telling
<1>5. Walks(c, j)
  BY <1>1, <1>2, <1>3, <1>4 DEF Walks
<1>6. QED BY <1>2, <1>5

\* The slot that a call makes of the rents it has read.
LEMMA NewSlot ==
    ASSUME Shape, NEW c \in Calls, getCurrentStorageSlotForFid(c)
    PROVE  /\ slot' \in [units : Nat, until : Nat]
           /\ slot'.units = Units(InForce(call[c].read, call[c].at))
           /\ \A r \in InForce(call[c].read, call[c].at) : slot'.until <= r.until
           /\ call[c].pc = "setSlot" /\ call[c].at \in Nat /\ call[c].at <= now
           /\ call[c].read \subseteq rents /\ call[c].read \in SUBSET Rents
           /\ slot' # None
<1>1. /\ call[c] \in Jobs /\ CallInv(call[c]) /\ call[c].pc = "setSlot"
      /\ slot' = slotOf(InForce(call[c].read, call[c].at), {call[c].at + YEAR})
  BY DEF Shape, CallsInv, getCurrentStorageSlotForFid
<1>2. call[c].at \in Nat /\ call[c].read \in SUBSET Rents
  BY <1>1 DEF Jobs
<1>3. call[c].at <= now /\ call[c].read \subseteq rents
  BY <1>1 DEF CallInv, Knows, Telling
<1>4. InForce(call[c].read, call[c].at) \in SUBSET Rents /\ {call[c].at + YEAR} \in SUBSET Nat
  BY <1>2, CacheAssumption DEF InForce
<1>5. /\ slot' \in [units : Nat, until : Nat]
      /\ slot'.units = Units(InForce(call[c].read, call[c].at))
      /\ \A r \in InForce(call[c].read, call[c].at) : slot'.until <= r.until
  BY <1>1, <1>4, SlotOfType
<1>6. slot' # None
  BY <1>5, CacheAssumption
<1>7. QED BY <1>1, <1>2, <1>3, <1>5, <1>6

LEMMA SetSlotWalks ==
    ASSUME Shape, NEW c \in Calls, getCurrentStorageSlotForFid(c)
    PROVE  \E n \in Jobs : Walks(c, n)
<1>1. call[c].pc = "setSlot" /\ Compare(c, maxCount(slot'.units))
  BY DEF getCurrentStorageSlotForFid
<1>2. maxCount(slot'.units) \in Nat
  BY NewSlot, MaxCountType
<1>3. QED BY <1>1, <1>2, CompareWalks

LEMMA EarliestWalks ==
    ASSUME Shape, NEW c \in Calls, getEarliestTsHash(c)
    PROVE  \E n \in Jobs : Walks(c, n)
<1>1. call[c] \in Jobs /\ CallInv(call[c]) /\ call[c].pc = "earliest" /\ UNCHANGED scan
  BY DEF Shape, CallsInv, getEarliestTsHash
<1>2. Deciding(call[c])
  BY <1>1 DEF Deciding
<1>3. CASE Proceed(c)
  BY <1>1, <1>2, <1>3, ProceedWalks
<1>4. CASE Decide(c, earliest)
  BY <1>1, <1>2, <1>4, DecideWalks
<1>5. CASE call' = [call EXCEPT ![c] = Goto(@, "first")]
  <2>1. Goto(call[c], "first") = At(call[c], "first", 0) /\ At(call[c], "first", 0) \in Jobs
    BY <1>1, GotoType DEF PCs
  <2>2. call' = [call EXCEPT ![c] = At(call[c], "first", 0)]
    BY <1>5, <2>1
  <2>3. /\ At(call[c], "first", 0).pc = "first" /\ At(call[c], "first", 0).op = call[c].op
        /\ At(call[c], "first", 0).msg = call[c].msg /\ At(call[c], "first", 0).add = call[c].add
    BY AtFields
  <2>4. CallInv(At(call[c], "first", 0))
    BY <1>1, <1>2, <2>3 DEF CallInv, Knows, Telling
  <2>5. Walks(c, At(call[c], "first", 0))
    BY <1>1, <2>1, <2>2, <2>3, <2>4 DEF Walks
  <2>6. QED BY <2>1, <2>5
<1>6. QED BY <1>3, <1>4, <1>5 DEF getEarliestTsHash

LEMMA ReadFirstWalks ==
    ASSUME Shape, NEW c \in Calls, ReadFirstKey(c)
    PROVE  \E n \in Jobs : Walks(c, n)
<1>1. call[c] \in Jobs /\ CallInv(call[c]) /\ call[c].pc = "first" /\ UNCHANGED scan
  BY DEF Shape, CallsInv, ReadFirstKey
<1>2. Deciding(call[c])
  BY <1>1 DEF Deciding
<1> DEFINE v == IF db = {} THEN None ELSE Min({m.ts : m \in db})
<1>3. v \in Stamps \cup {None} /\ v \in Int \cup {None}
  <2>1. db \subseteq Messages
    BY DEF Shape, TypeOK
  <2>2. {m.ts : m \in db} \in SUBSET Nat /\ {m.ts : m \in db} \subseteq Stamps
    BY <2>1, CacheAssumption DEF Stamps
  <2>3. CASE db # {}
    <3>1. {m.ts : m \in db} # {}
      BY <2>3
    <3>2. Min({m.ts : m \in db}) \in {m.ts : m \in db}
      BY <2>2, <3>1, MinType
    <3>3. QED BY <2>2, <2>3, <3>2
  <2>4. QED BY <2>3
<1>4. call' = [call EXCEPT ![c] = [Goto(@, "cacheFirst") EXCEPT !.value = v]]
  BY DEF ReadFirstKey
<1> HIDE DEF v
<1>5. [Goto(call[c], "cacheFirst") EXCEPT !.value = v] = At(call[c], "cacheFirst", v)
      /\ At(call[c], "cacheFirst", v) \in Jobs
  BY <1>1, <1>3, GotoType DEF PCs
<1>6. call' = [call EXCEPT ![c] = At(call[c], "cacheFirst", v)]
  BY <1>4, <1>5
<1>7. /\ At(call[c], "cacheFirst", v).pc = "cacheFirst" /\ At(call[c], "cacheFirst", v).op = call[c].op
      /\ At(call[c], "cacheFirst", v).msg = call[c].msg /\ At(call[c], "cacheFirst", v).value = v
      /\ At(call[c], "cacheFirst", v).add = call[c].add
  BY AtFields
<1>8. CallInv(At(call[c], "cacheFirst", v))
  BY <1>1, <1>2, <1>3, <1>7 DEF CallInv, Knows, Telling
<1>9. Walks(c, At(call[c], "cacheFirst", v))
  BY <1>1, <1>5, <1>6, <1>7, <1>8 DEF Walks
<1>10. QED BY <1>5, <1>9

LEMMA CacheFirstWalks ==
    ASSUME Shape, NEW c \in Calls, CacheFirstKey(c)
    PROVE  /\ \E n \in Jobs : Walks(c, n)
           /\ earliest' \in Stamps \cup {None}
<1>1. call[c] \in Jobs /\ CallInv(call[c]) /\ call[c].pc = "cacheFirst" /\ UNCHANGED scan
  BY DEF Shape, CallsInv, CacheFirstKey
<1>2. Deciding(call[c])
  BY <1>1 DEF Deciding
<1>3. \E n \in Jobs : Walks(c, n)
  <2>1. CASE Proceed(c)
    BY <1>1, <1>2, <2>1, ProceedWalks
  <2>2. CASE Decide(c, call[c].value)
    BY <1>1, <1>2, <2>2, DecideWalks
  <2>3. QED BY <2>1, <2>2 DEF CacheFirstKey
<1>4. earliest' \in Stamps \cup {None}
  <2>1. earliest \in Stamps \cup {None}
    BY DEF Shape, TypeOK, Stamps
  <2>2. call[c].value \in Stamps \cup {None}
    BY <1>1 DEF CallInv, Knows, Telling
  <2>3. QED BY <2>1, <2>2 DEF CacheFirstKey
<1>5. QED BY <1>3, <1>4

LEMMA PruneWalks ==
    ASSUME Shape, NEW c \in Calls, RustPrune(c)
    PROVE  \E n \in Jobs : Walks(c, n)
<1> DEFINE oldest == {m \in db : Cardinality({n \in db : n.ts < m.ts}) < call[c].value}
<1>1. /\ call[c] \in Jobs /\ call[c].pc = "prune" /\ UNCHANGED scan /\ CallInv(call[c])
      /\ call' = [call EXCEPT ![c] = IF oldest = {} THEN Idle
                                     ELSE [Goto(call[c], "delete") EXCEPT !.gone = oldest]]
  BY DEF Shape, CallsInv, RustPrune
<1>2. oldest \subseteq Messages
  BY DEF Shape, TypeOK
<1> HIDE DEF oldest
<1>3. CASE oldest = {}
  <2>1. Walks(c, Idle)
    BY <1>1, <1>3, IdleType DEF Walks
  <2>2. QED BY <2>1, IdleType
<1>4. CASE oldest # {}
  <2> DEFINE n == [At(call[c], "delete", 0) EXCEPT !.gone = oldest]
  <2>1. Goto(call[c], "delete") = At(call[c], "delete", 0) /\ At(call[c], "delete", 0) \in Jobs
    BY <1>1, GotoType DEF PCs
  <2>2. call' = [call EXCEPT ![c] = n]
    BY <1>1, <1>4, <2>1
  <2>3. /\ At(call[c], "delete", 0).pc = "delete" /\ At(call[c], "delete", 0).op = call[c].op
        /\ At(call[c], "delete", 0).add = {}
    BY <1>1, AtFields DEF CallInv, Knows, Telling
  <2>4. n \in Jobs /\ n.pc = "delete" /\ n.op = call[c].op /\ n.add = {}
    BY <1>2, <2>1, <2>3 DEF Jobs
  <2> HIDE DEF n
  <2>5. CallInv(n)
    BY <2>4 DEF CallInv, Knows, Deciding, Telling
  <2>6. Walks(c, n)
    BY <1>1, <2>2, <2>4, <2>5 DEF Walks
  <2>7. QED BY <2>4, <2>6
<1>5. QED BY <1>3, <1>4

-----------------------------------------------------------------------------
(* Counting what is still to be told                                       *)

LEMMA SubsetsAreFinite ==
    ASSUME NEW T \in SUBSET Messages
    PROVE  IsFiniteSet(T) /\ Cardinality(T) \in Nat
BY FS_Subset, FS_CardinalityType, CacheAssumption

LEMMA TotalType ==
    ASSUME NEW f
    PROVE  IsFiniteSet(Pairs(f)) /\ Total(f) \in Nat
<1>1. IsFiniteSet(Calls \X Messages)
  BY FS_Product, CacheAssumption
<1>2. Pairs(f) \in SUBSET (Calls \X Messages)
  BY DEF Pairs
<1>3. IsFiniteSet(Pairs(f))
  BY <1>1, <1>2, FS_Subset
<1>4. QED BY <1>3, FS_CardinalityType DEF Total

LEMMA TotalOfNone ==
    ASSUME NEW f, \A c \in Calls : f[c] = {}
    PROVE  Total(f) = 0
<1>1. Pairs(f) = {}
  BY DEF Pairs
<1>2. QED BY <1>1, FS_EmptySet DEF Total

\* The total changes by what one call's set changes.
LEMMA TotalChanges ==
    ASSUME NEW f \in [Calls -> SUBSET Messages], NEW g \in [Calls -> SUBSET Messages], NEW c \in Calls,
           \A d \in Calls \ {c} : g[d] = f[d]
    PROVE  Total(g) = Total(f) - Cardinality(f[c]) + Cardinality(g[c])
<1> DEFINE Rest == {p \in Calls \X Messages : p[1] # c /\ p[2] \in f[p[1]]}
<1>1. ASSUME NEW h \in [Calls -> SUBSET Messages], \A d \in Calls \ {c} : h[d] = f[d]
      PROVE  Total(h) = Cardinality(Rest) + Cardinality(h[c])
  <2>1. Pairs(h) = Rest \cup ({c} \X h[c])
    BY <1>1 DEF Pairs
  <2>2. Rest \cap ({c} \X h[c]) = {}
    OBVIOUS
  <2>3. IsFiniteSet(Rest)
    <3>1. Rest \in SUBSET Pairs(f) /\ IsFiniteSet(Pairs(f))
      BY TotalType DEF Pairs
    <3>2. QED BY <3>1, FS_Subset
  <2>4. IsFiniteSet(h[c]) /\ Cardinality(h[c]) \in Nat
    BY SubsetsAreFinite
  <2>5. IsFiniteSet({c} \X h[c]) /\ Cardinality({c} \X h[c]) = Cardinality(h[c])
    <3>1. IsFiniteSet({c}) /\ Cardinality({c}) = 1
      BY FS_Singleton
    <3>2. IsFiniteSet({c} \X h[c]) /\ Cardinality({c} \X h[c]) = 1 * Cardinality(h[c])
      BY <2>4, <3>1, FS_Product
    <3>3. QED BY <2>4, <3>2
  <2> HIDE DEF Rest
  <2>6. Cardinality(Rest \cup ({c} \X h[c]))
          = Cardinality(Rest) + Cardinality({c} \X h[c]) - Cardinality(Rest \cap ({c} \X h[c]))
    BY <2>3, <2>5, FS_Union
  <2>7. Cardinality(Rest \cap ({c} \X h[c])) = 0
    BY <2>2, FS_EmptySet
  <2>8. Cardinality(Rest) \in Nat
    BY <2>3, FS_CardinalityType
  <2>9. QED BY <2>1, <2>4, <2>5, <2>6, <2>7, <2>8 DEF Total
<1>2. Cardinality(Rest) \in Nat
  <2>1. Rest \in SUBSET Pairs(f) /\ IsFiniteSet(Pairs(f))
    BY TotalType DEF Pairs
  <2>2. IsFiniteSet(Rest)
    BY <2>1, FS_Subset
  <2>3. QED BY <2>2, FS_CardinalityType
<1> HIDE DEF Rest
<1>3. Total(f) = Cardinality(Rest) + Cardinality(f[c])
  BY <1>1
<1>4. Total(g) = Cardinality(Rest) + Cardinality(g[c])
  BY <1>1
<1>5. Cardinality(f[c]) \in Nat /\ Cardinality(g[c]) \in Nat
  BY SubsetsAreFinite
<1>6. QED BY <1>2, <1>3, <1>4, <1>5

LEMMA ToldType ==
    ASSUME NEW j \in Jobs
    PROVE  AddOf(j) \in SUBSET Messages /\ GoneOf(j) \in SUBSET Messages
BY DEF AddOf, GoneOf, Jobs

LEMMA BalanceType ==
    ASSUME Shape
    PROVE  Balance \in Int
<1>1. Cardinality(db) \in Nat /\ compacted \in Nat
  BY SubsetsAreFinite DEF Shape, TypeOK
<1>2. QED BY <1>1, TotalType DEF Balance

\* The balance after a step of one call.
LEMMA BalanceChanges ==
    ASSUME Shape, NEW c \in Calls, NEW n \in Jobs, call' = [call EXCEPT ![c] = n], db' \subseteq Messages,
           UNCHANGED compacted
    PROVE  /\ Balance' = Balance - Cardinality(db) + Cardinality(db')
                           + Cardinality(AddOf(call[c])) - Cardinality(AddOf(n))
                           - Cardinality(GoneOf(call[c])) + Cardinality(GoneOf(n))
           /\ Balance \in Int /\ Balance' \in Int /\ Cardinality(db) \in Nat /\ Cardinality(db') \in Nat
           /\ Cardinality(AddOf(call[c])) \in Nat /\ Cardinality(AddOf(n)) \in Nat
           /\ Cardinality(GoneOf(call[c])) \in Nat /\ Cardinality(GoneOf(n)) \in Nat
<1>1. call \in [Calls -> Jobs] /\ call[c] \in Jobs
  BY DEF Shape, CallsInv
<1>2. \A d \in Calls : call'[d] = IF d = c THEN n ELSE call[d]
  BY <1>1
<1> DEFINE a == [d \in Calls |-> AddOf(call[d])]
           a1 == [d \in Calls |-> AddOf(call'[d])]
           g == [d \in Calls |-> GoneOf(call[d])]
           g1 == [d \in Calls |-> GoneOf(call'[d])]
<1>3. a \in [Calls -> SUBSET Messages] /\ g \in [Calls -> SUBSET Messages]
  BY <1>1, ToldType
<1>4. a1 \in [Calls -> SUBSET Messages] /\ g1 \in [Calls -> SUBSET Messages]
  <2>1. \A d \in Calls : call'[d] \in Jobs
    BY <1>1, <1>2
  <2>2. QED BY <2>1, ToldType
<1>5. \A d \in Calls \ {c} : a1[d] = a[d] /\ g1[d] = g[d]
  BY <1>2
<1>6. a[c] = AddOf(call[c]) /\ g[c] = GoneOf(call[c]) /\ a1[c] = AddOf(n) /\ g1[c] = GoneOf(n)
  BY <1>2
<1>7. /\ Balance = Cardinality(db) + compacted - Total(a) + Total(g)
      /\ Balance' = Cardinality(db') + compacted - Total(a1) + Total(g1) /\ compacted \in Nat
  BY DEF Balance, Shape, TypeOK
<1> HIDE DEF a, a1, g, g1
<1>8. Total(a1) = Total(a) - Cardinality(a[c]) + Cardinality(a1[c])
  BY <1>3, <1>4, <1>5, TotalChanges
<1>9. Total(g1) = Total(g) - Cardinality(g[c]) + Cardinality(g1[c])
  BY <1>3, <1>4, <1>5, TotalChanges
<1>10. Total(a) \in Nat /\ Total(a1) \in Nat /\ Total(g) \in Nat /\ Total(g1) \in Nat
  BY TotalType
<1>11. Cardinality(db) \in Nat /\ Cardinality(db') \in Nat
  BY SubsetsAreFinite DEF Shape, TypeOK
<1>12. /\ Cardinality(AddOf(call[c])) \in Nat /\ Cardinality(AddOf(n)) \in Nat
       /\ Cardinality(GoneOf(call[c])) \in Nat /\ Cardinality(GoneOf(n)) \in Nat
  BY <1>1, ToldType, SubsetsAreFinite
<1>13. QED BY <1>6, <1>7, <1>8, <1>9, <1>10, <1>11, <1>12

-----------------------------------------------------------------------------
(* The shape of the state                                                  *)

LEMMA CallsKept ==
    ASSUME CallsInv, NEW c \in Calls, NEW n \in Jobs, CallInv(n), call' = [call EXCEPT ![c] = n],
           UNCHANGED <<now, rents>>
    PROVE  CallsInv'
<1>1. call' \in [Calls -> Jobs]
  BY DEF CallsInv
<1>2. ASSUME NEW d \in Calls PROVE Knows(call'[d], now', rents')
  <2>1. call'[d] = IF d = c THEN n ELSE call[d]
    BY DEF CallsInv
  <2>2. Knows(call[d], now, rents) /\ Knows(n, now, rents)
    BY DEF CallsInv, CallInv
  <2>3. QED BY <2>1, <2>2
<1>3. QED BY <1>1, <1>2 DEF CallsInv, CallInv

\* Time goes on and rents are stored: no call knows less.
LEMMA CallsKeptLater ==
    ASSUME CallsInv, now \in Nat, now' \in Nat, now <= now', rents \subseteq rents', UNCHANGED call
    PROVE  CallsInv'
<1>1. ASSUME NEW d \in Calls PROVE Knows(call[d], now', rents')
  <2>1. Knows(call[d], now, rents) /\ call[d].at \in Nat
    BY DEF CallsInv, CallInv, Jobs
  <2>2. call[d].at <= now => call[d].at <= now'
    BY <2>1
  <2>3. call[d].read \subseteq rents => call[d].read \subseteq rents'
    OBVIOUS
  <2>4. QED BY <2>1, <2>2, <2>3 DEF Knows, Telling
<1>2. QED BY <1>1 DEF CallsInv, CallInv

LEMMA CallSetsTyped ==
    ASSUME call' \in [Calls -> Jobs]
    PROVE  \A c \in Calls : call'[c].add \cup call'[c].gone \subseteq Messages
<1>1. ASSUME NEW c \in Calls PROVE call'[c].add \in SUBSET Messages /\ call'[c].gone \in SUBSET Messages
  BY DEF Jobs
<1>2. QED BY <1>1

LEMMA WalksKeepShape ==
    ASSUME Shape, NEW c \in Calls, NEW n \in Jobs, Walks(c, n),
           UNCHANGED <<db, count, now, rents, fresh, compacted>>, earliest' \in Stamps \cup {None},
           UNCHANGED <<slot, missed>> \/ getCurrentStorageSlotForFid(c)
    PROVE  Shape'
<1>1. CallsInv'
  BY CallsKept DEF Shape, Walks
<1>2. \A d \in Calls : call'[d].add \cup call'[d].gone \subseteq Messages
  BY <1>1, CallSetsTyped DEF CallsInv
<1>3. scan' \in [pc : {"none", "running", "read"}, total : Nat]
  BY DEF Shape, TypeOK, Walks
<1>4. /\ slot' = None \/ slot' \in [units : Nat, until : Nat]
      /\ fresh' \cup missed' \subseteq rents' /\ fresh' \cap missed' = {}
  <2>1. CASE UNCHANGED <<slot, missed>>
    BY <2>1 DEF Shape, TypeOK, RentsInv
  <2>2. CASE getCurrentStorageSlotForFid(c)
    <3>1. slot' \in [units : Nat, until : Nat]
      BY <2>2, NewSlot
    <3>2. missed' = rents \ (call[c].read \cup fresh)
      BY <2>2 DEF getCurrentStorageSlotForFid
    <3>3. QED BY <3>1, <3>2 DEF Shape, TypeOK
  <2>3. QED BY <2>1, <2>2
<1>5. RentsInv'
  BY <1>4 DEF Shape, RentsInv
<1>6. TypeOK'
  BY <1>2, <1>3, <1>4 DEF Shape, TypeOK, Stamps
<1>7. QED BY <1>1, <1>5, <1>6 DEF Shape

LEMMA WalksKeepCount ==
    ASSUME Shape, CountInv, NEW c \in Calls, NEW n \in Jobs, Walks(c, n), UNCHANGED <<db, count, history, compacted>>
    PROVE  CountInv'
<1>1. call \in [Calls -> Jobs] /\ call' = [call EXCEPT ![c] = n]
  BY DEF Shape, CallsInv, Walks
<1>2. \A d \in Calls : call'[d] = IF d = c THEN n ELSE call[d]
  BY <1>1
<1>3. Balance' = Balance
  <2>1. AddOf(n) = {} /\ GoneOf(n) = {} /\ AddOf(call[c]) = {} /\ GoneOf(call[c]) = {}
    BY DEF Walks, AddOf, GoneOf
  <2>2. /\ Balance' = Balance - Cardinality(db) + Cardinality(db')
                           + Cardinality(AddOf(call[c])) - Cardinality(AddOf(n))
                           - Cardinality(GoneOf(call[c])) + Cardinality(GoneOf(n))
        /\ Balance \in Int /\ Cardinality(db) \in Nat
    BY <1>1, BalanceChanges DEF Shape, TypeOK
  <2>3. Cardinality({}) = 0
    BY FS_EmptySet
  <2>4. QED BY <2>1, <2>2, <2>3
<1>4. ASSUME "delete" \notin history PROVE MergesOnly'
  <2>1. MergesOnly
    BY <1>4 DEF CountInv
  <2>2. QED BY <1>2, <2>1 DEF MergesOnly, Walks
<1>5. ASSUME "cold" \notin history PROVE WarmInv'
  <2>1. WarmInv
    BY <1>5 DEF CountInv
  <2>2. \A d \in Calls : call'[d].pc # "apply" /\ (call'[d].pc = "await" => call'[d].then # "apply")
    BY <1>2, <2>1 DEF WarmInv, Walks
  <2>3. scan' # NoScan => count' = None
    BY <2>1 DEF WarmInv, Walks
  <2>4. ASSUME count' = None, NEW d \in Calls, call'[d].op = "merge"
        PROVE  call'[d].pc \in {"idle", "await"}
    <3>1. count = None /\ \A e \in Calls : call[e].op = "merge" => call[e].pc \in {"idle", "await"}
      BY <2>1, <2>4 DEF WarmInv
    <3>2. CASE d = c
      BY <1>2, <2>4, <3>1, <3>2 DEF Walks
    <3>3. CASE d # c
      BY <1>2, <2>4, <3>1, <3>3
    <3>4. QED BY <3>2, <3>3
  <2>5. scan'.pc = "read" => scan' = scan
    BY DEF Walks
  <2>7. count' # None => Accounts(count)'
    BY <1>3, <2>1 DEF WarmInv, Accounts
  <2>8. scan'.pc = "read" => Accounts(scan.total)'
    BY <1>3, <2>1, <2>5 DEF WarmInv, Accounts
  <2>10. count' = None => compacted' = 0
    BY <2>1 DEF WarmInv
  <2>9. QED BY <2>2, <2>3, <2>4, <2>7, <2>8, <2>10 DEF WarmInv
<1>6. QED BY <1>4, <1>5 DEF CountInv

-----------------------------------------------------------------------------
(* Merges and deletions in the database                                    *)

\* A merge that is refused ends, one that is not has an event to tell of.
LEMMA RustMergeCases ==
    ASSUME Shape, NEW c \in Calls, RustMerge(c)
    PROVE  \/ Walks(c, Idle) /\ UNCHANGED db
           \/ \E R \in SUBSET db, m \in Messages, n \in Jobs :
                /\ m \notin db /\ db' = (db \ R) \cup {m}
                /\ call' = [call EXCEPT ![c] = n] /\ CallInv(n)
                /\ n.pc = "event" /\ n.op = "merge" /\ n.add = {m} /\ n.gone = R
<1> DEFINE m == call[c].msg
           R == {n \in db : n.key = m.key}
<1>1. call[c] \in Jobs /\ CallInv(call[c]) /\ call[c].pc = "merge" /\ UNCHANGED scan
  BY DEF Shape, CallsInv, RustMerge
<1>2. call[c].op = "merge" /\ m \in Messages
  BY <1>1 DEF CallInv, Knows, RustMerge
<1>3. CASE call' = [call EXCEPT ![c] = Idle] /\ UNCHANGED db
  <2>1. Walks(c, Idle)
    BY <1>1, <1>3, IdleType DEF Walks
  <2>2. QED BY <1>3, <2>1
<1>4. CASE /\ ~ \E n \in R : n.ts >= m.ts
           /\ db' = (db \ R) \cup {m}
           /\ call' = [call EXCEPT ![c] = [Goto(call[c], "event") EXCEPT !.msg = None, !.add = {m}, !.gone = R]]
  <2> DEFINE n == [At(call[c], "event", 0) EXCEPT !.msg = None, !.add = {m}, !.gone = R]
  <2>1. Goto(call[c], "event") = At(call[c], "event", 0) /\ At(call[c], "event", 0) \in Jobs
    BY <1>1, GotoType DEF PCs
  <2>2. /\ db' = (db \ R) \cup {m}
        /\ call' = [call EXCEPT ![c] = [Goto(call[c], "event") EXCEPT !.msg = None, !.add = {m}, !.gone = R]]
    BY <1>4
  <2>3. call' = [call EXCEPT ![c] = n]
    BY <2>1, <2>2
  <2>4. m \notin db
    <3>1. m.ts \in Nat
      BY <1>2, CacheAssumption
    <3>2. QED BY <1>4, <3>1
  <2>5. R \in SUBSET db /\ R \in SUBSET Messages
    BY DEF Shape, TypeOK
  <2>6. At(call[c], "event", 0).pc = "event" /\ At(call[c], "event", 0).op = "merge"
    BY <1>2, AtFields
  <2> HIDE DEF R, m
  <2>7. n \in Jobs /\ n.pc = "event" /\ n.op = "merge" /\ n.add = {m} /\ n.gone = R
    BY <1>2, <2>1, <2>5, <2>6 DEF Jobs
  <2> HIDE DEF n
  <2>8. CallInv(n)
    BY <1>2, <2>7 DEF CallInv, Knows, Deciding, Telling
  <2>9. QED BY <1>2, <2>2, <2>3, <2>4, <2>5, <2>7, <2>8
<1>5. QED BY <1>3, <1>4 DEF RustMerge

LEMMA MergeKeeps ==
    ASSUME Shape, CountInv, NEW c \in Calls, RustMerge(c)
    PROVE  Shape' /\ CountInv'
<1>1. UNCHANGED <<count, earliest, scan, storage, history, compacted>> /\ call[c].pc = "merge"
  BY DEF RustMerge
<1>2. earliest' \in Stamps \cup {None}
  BY <1>1 DEF Shape, TypeOK, Stamps
<1>3. CASE Walks(c, Idle) /\ UNCHANGED db
  <2>1. Shape'
    BY <1>1, <1>2, <1>3, IdleType, WalksKeepShape DEF storage
  <2>2. CountInv'
    BY <1>1, <1>3, IdleType, WalksKeepCount
  <2>3. QED BY <2>1, <2>2
<1>4. ASSUME NEW R \in SUBSET db, NEW m \in Messages, NEW n \in Jobs,
             m \notin db, db' = (db \ R) \cup {m}, call' = [call EXCEPT ![c] = n], CallInv(n),
             n.pc = "event", n.op = "merge", n.add = {m}, n.gone = R
      PROVE  Shape' /\ CountInv'
  <2>1. call \in [Calls -> Jobs] /\ db \subseteq Messages /\ db' \subseteq Messages
    BY <1>4 DEF Shape, CallsInv, TypeOK
  <2>2. \A d \in Calls : call'[d] = IF d = c THEN n ELSE call[d]
    BY <1>4, <2>1
  <2>3. CallsInv'
    BY <1>1, <1>4, CallsKept DEF Shape, storage
  <2>4. Shape'
    <3>1. \A d \in Calls : call'[d].add \cup call'[d].gone \subseteq Messages
      BY <2>3, CallSetsTyped DEF CallsInv
    <3>2. TypeOK'
      BY <1>1, <2>1, <3>1 DEF Shape, TypeOK, storage
    <3>3. QED BY <1>1, <2>3, <3>2 DEF Shape, RentsInv, storage
  <2>5. Balance' = Balance
    <3>1. AddOf(call[c]) = {} /\ GoneOf(call[c]) = {} /\ AddOf(n) = {m} /\ GoneOf(n) = R
      BY <1>1, <1>4 DEF AddOf, GoneOf
    <3>2. /\ Balance' = Balance - Cardinality(db) + Cardinality(db')
                           + Cardinality(AddOf(call[c])) - Cardinality(AddOf(n))
                           - Cardinality(GoneOf(call[c])) + Cardinality(GoneOf(n))
          /\ Balance \in Int /\ Cardinality(db) \in Nat /\ Cardinality(GoneOf(n)) \in Nat
      BY <1>1, <1>4, <2>1, BalanceChanges
    <3>3. Cardinality({}) = 0 /\ Cardinality({m}) = 1
      BY FS_EmptySet, FS_Singleton
    <3>4. Cardinality(db') = Cardinality(db) - Cardinality(R) + 1
      <4>1. IsFiniteSet(db)
        BY <2>1, SubsetsAreFinite
      <4>2. IsFiniteSet(db \ R) /\ Cardinality(db \ R) = Cardinality(db) - Cardinality(db \cap R)
        BY <4>1, FS_Difference
      <4>3. db \cap R = R /\ m \notin db \ R
        BY <1>4
      <4>4. Cardinality((db \ R) \cup {m}) = Cardinality(db \ R) + 1
        BY <4>2, <4>3, FS_AddElement
      <4>5. QED BY <1>4, <4>2, <4>3, <4>4
    <3>5. QED BY <3>1, <3>2, <3>3, <3>4
  <2>6. ASSUME "delete" \notin history PROVE MergesOnly'
    BY <1>1, <1>4, <2>2, <2>6 DEF CountInv, MergesOnly
  <2>7. ASSUME "cold" \notin history PROVE WarmInv'
    <3>1. WarmInv
      BY <2>7 DEF CountInv
    <3>2. call[c].op = "merge"
      BY <1>1 DEF Shape, CallsInv, CallInv, Knows
    <3>3. count # None /\ scan = NoScan
      BY <1>1, <3>1, <3>2 DEF WarmInv
    <3>4. \A d \in Calls : call'[d].pc # "apply" /\ (call'[d].pc = "await" => call'[d].then # "apply")
      BY <1>4, <2>2, <3>1 DEF WarmInv
    <3>5. Accounts(count)'
      BY <1>1, <2>5, <3>1, <3>3 DEF WarmInv, Accounts
    <3>6. QED BY <1>1, <3>3, <3>4, <3>5 DEF WarmInv, NoScan
  <2>8. QED BY <1>1, <2>4, <2>6, <2>7 DEF CountInv
<1>5. QED BY <1>3, <1>4, RustMergeCases

\* What a compact state deletes is still in the count, and stays there.
LEMMA CompactKeeps ==
    ASSUME Shape, CountInv, NEW c \in Calls, merge_compact_state(c)
    PROVE  Shape' /\ CountInv'
<1>1. /\ UNCHANGED <<count, earliest, scan, storage, history>> /\ call[c].pc = "merge"
      /\ call' = [call EXCEPT ![c] = Idle]
  BY DEF merge_compact_state
<1>2. PICK D \in SUBSET db : db' = db \ D /\ compacted' = compacted + Cardinality(D)
  <2>1. \E D \in SUBSET {n \in db : n.ts <= call[c].msg.ts} :
           db' = db \ D /\ compacted' = compacted + Cardinality(D)
    BY DEF merge_compact_state
  <2>2. QED BY <2>1
<1>3. db \subseteq Messages /\ db' \subseteq Messages /\ compacted \in Nat
  BY <1>2 DEF Shape, TypeOK
<1>4. Cardinality(D) \in Nat /\ Cardinality(db) \in Nat /\ Cardinality(db') = Cardinality(db) - Cardinality(D)
  <2>1. IsFiniteSet(db) /\ Cardinality(db) \in Nat /\ Cardinality(D) \in Nat
    BY <1>2, <1>3, SubsetsAreFinite
  <2>2. Cardinality(db \ D) = Cardinality(db) - Cardinality(db \cap D) /\ db \cap D = D
    BY <2>1, FS_Difference
  <2>3. QED BY <1>2, <2>1, <2>2
<1>5. CallsInv'
  BY <1>1, IdleType, CallsKept DEF Shape, storage
<1>6. call \in [Calls -> Jobs] /\ \A d \in Calls : call'[d] = IF d = c THEN Idle ELSE call[d]
  BY <1>1 DEF Shape, CallsInv
<1>7. Shape'
  <2>1. \A d \in Calls : call'[d].add \cup call'[d].gone \subseteq Messages
    BY <1>5, CallSetsTyped DEF CallsInv
  <2>2. compacted' \in Nat
    BY <1>2, <1>3, <1>4
  <2>3. TypeOK'
    BY <1>1, <1>3, <2>1, <2>2 DEF Shape, TypeOK, storage
  <2>4. QED BY <1>1, <1>5, <2>3 DEF Shape, RentsInv, storage
<1>8. Balance' = Balance
  <2> DEFINE a == [d \in Calls |-> AddOf(call[d])]
             a1 == [d \in Calls |-> AddOf(call'[d])]
             g == [d \in Calls |-> GoneOf(call[d])]
             g1 == [d \in Calls |-> GoneOf(call'[d])]
  <2>1. \A d \in Calls : AddOf(call'[d]) = AddOf(call[d]) /\ GoneOf(call'[d]) = GoneOf(call[d])
    BY <1>1, <1>6, IdleType DEF AddOf, GoneOf
  <2>2. a1 = a /\ g1 = g
    BY <2>1
  <2>3. /\ Balance = Cardinality(db) + compacted - Total(a) + Total(g)
        /\ Balance' = Cardinality(db') + compacted' - Total(a1) + Total(g1)
    BY DEF Balance
  <2> HIDE DEF a, a1, g, g1
  <2>4. Total(a) \in Nat /\ Total(g) \in Nat
    BY TotalType
  <2>5. QED BY <1>2, <1>3, <1>4, <2>2, <2>3, <2>4
<1>9. ASSUME "delete" \notin history PROVE MergesOnly'
  BY <1>1, <1>6, <1>9, IdleType DEF CountInv, MergesOnly
<1>10. ASSUME "cold" \notin history PROVE WarmInv'
  <2>1. WarmInv
    BY <1>10 DEF CountInv
  <2>2. call[c].op = "merge"
    BY <1>1 DEF Shape, CallsInv, CallInv, Knows
  <2>3. count # None /\ scan = NoScan
    BY <1>1, <2>1, <2>2 DEF WarmInv
  <2>4. \A d \in Calls : call'[d].pc # "apply" /\ (call'[d].pc = "await" => call'[d].then # "apply")
    BY <1>6, <2>1, IdleType DEF WarmInv
  <2>5. Accounts(count)'
    BY <1>1, <1>8, <2>1, <2>3 DEF WarmInv, Accounts
  <2>6. QED BY <1>1, <2>3, <2>4, <2>5 DEF WarmInv, NoScan
<1>11. QED BY <1>1, <1>7, <1>9, <1>10 DEF CountInv

LEMMA DeleteKeeps ==
    ASSUME Shape, CountInv, NEW c \in Calls, CommitDelete(c)
    PROVE  Shape' /\ CountInv'
<1> DEFINE n == At(call[c], "event", 0)
<1>1. /\ UNCHANGED <<count, earliest, scan, storage, compacted>> /\ call[c].pc = "delete"
      /\ db' = db \ call[c].gone /\ history' = history \cup {"delete"}
      /\ call' = [call EXCEPT ![c] = Goto(@, "event")]
  BY DEF CommitDelete
<1>2. call \in [Calls -> Jobs] /\ call[c] \in Jobs /\ CallInv(call[c]) /\ call[c].add = {}
  BY <1>1 DEF Shape, CallsInv, CallInv, Knows, Telling
<1>3. call' = [call EXCEPT ![c] = n] /\ n \in Jobs
  BY <1>1, <1>2, GotoType DEF PCs
<1>4. n.pc = "event" /\ n.op = call[c].op /\ n.add = {} /\ n.gone = call[c].gone
  BY <1>2, AtFields
<1> HIDE DEF n
<1>5. CallInv(n)
  BY <1>4 DEF CallInv, Knows, Deciding, Telling
<1>6. \A d \in Calls : call'[d] = IF d = c THEN n ELSE call[d]
  BY <1>2, <1>3
<1>7. CallsInv'
  BY <1>1, <1>3, <1>5, CallsKept DEF Shape, storage
<1>8. db \subseteq Messages /\ db' \subseteq Messages
  BY <1>1 DEF Shape, TypeOK
<1>9. Shape'
  <2>1. \A d \in Calls : call'[d].add \cup call'[d].gone \subseteq Messages
    BY <1>7, CallSetsTyped DEF CallsInv
  <2>2. TypeOK'
    BY <1>1, <1>8, <2>1 DEF Shape, TypeOK, storage
  <2>3. QED BY <1>1, <1>7, <2>2 DEF Shape, RentsInv, storage
<1>10. Balance <= Balance' /\ Balance \in Int /\ Balance' \in Int
  <2>1. AddOf(call[c]) = {} /\ GoneOf(call[c]) = {} /\ AddOf(n) = {} /\ GoneOf(n) = call[c].gone
    BY <1>1, <1>4 DEF AddOf, GoneOf
  <2>2. /\ Balance' = Balance - Cardinality(db) + Cardinality(db')
                         + Cardinality(AddOf(call[c])) - Cardinality(AddOf(n))
                         - Cardinality(GoneOf(call[c])) + Cardinality(GoneOf(n))
        /\ Balance \in Int /\ Cardinality(db) \in Nat /\ Cardinality(GoneOf(n)) \in Nat
    BY <1>1, <1>3, <1>8, BalanceChanges
  <2>3. Cardinality({}) = 0
    BY FS_EmptySet
  <2>4. Cardinality(db') = Cardinality(db) - Cardinality(db \cap call[c].gone)
    <3>1. IsFiniteSet(db)
      BY <1>8, SubsetsAreFinite
    <3>2. QED BY <1>1, <3>1, FS_Difference
  <2>5. Cardinality(db \cap call[c].gone) <= Cardinality(call[c].gone) /\ Cardinality(db \cap call[c].gone) \in Nat
    <3>1. call[c].gone \in SUBSET Messages
      BY <1>2 DEF Jobs
    <3>2. IsFiniteSet(call[c].gone) /\ db \cap call[c].gone \in SUBSET call[c].gone
          /\ db \cap call[c].gone \in SUBSET Messages
      BY <3>1, SubsetsAreFinite
    <3>3. QED BY <3>2, FS_Subset, SubsetsAreFinite
  <2>6. QED BY <2>1, <2>2, <2>3, <2>4, <2>5
<1>11. ASSUME "cold" \notin history' PROVE WarmInv'
  <2>1. WarmInv
    BY <1>1, <1>11 DEF CountInv
  <2>2. \A d \in Calls : call'[d].pc # "apply" /\ (call'[d].pc = "await" => call'[d].then # "apply")
    BY <1>4, <1>6, <2>1 DEF WarmInv
  <2>3. ASSUME count' = None, NEW d \in Calls, call'[d].op = "merge"
        PROVE  call'[d].pc \in {"idle", "await"}
    BY <1>1, <1>4, <1>6, <2>1, <2>3 DEF WarmInv
  <2>4. \A x \in Int : Accounts(x) => Accounts(x)'
    <3>1. \A x \in Int : Accounts(x) => x <= Balance'
      BY <1>10 DEF Accounts
    <3>2. QED BY <1>1, <3>1 DEF Accounts
  <2>5. count # None => Accounts(count)'
    BY <1>1, <2>1, <2>4 DEF WarmInv, Shape, TypeOK, Accounts
  <2>6. scan.pc = "read" => Accounts(scan.total)'
    BY <1>1, <2>1, <2>4 DEF WarmInv, Shape, TypeOK, Accounts
  <2>7. QED BY <1>1, <2>1, <2>2, <2>3, <2>5, <2>6 DEF WarmInv
<1>12. QED BY <1>1, <1>9, <1>11 DEF CountInv

-----------------------------------------------------------------------------
(* Events                                                                  *)

LEMMA EventGoesOnType ==
    ASSUME NEW j \in Jobs, j.add # {} => j.op = "merge" /\ \E x \in Messages : j.add = {x}
    PROVE  /\ EventGoesOn(j) \in Jobs /\ CallInv(EventGoesOn(j))
           /\ EventGoesOn(j).pc \in {"idle", "event"}
           /\ EventGoesOn(j).pc = "event" => EventGoesOn(j).op = j.op
           /\ AddOf(EventGoesOn(j)) = j.add /\ GoneOf(EventGoesOn(j)) = j.gone
<1>1. CASE j.add = {} /\ j.gone = {}
  <2>1. EventGoesOn(j) = Idle
    BY <1>1 DEF EventGoesOn
  <2>2. AddOf(Idle) = {} /\ GoneOf(Idle) = {}
    BY IdleType DEF AddOf, GoneOf
  <2>3. QED BY <1>1, <2>1, <2>2, IdleType
<1>2. CASE ~(j.add = {} /\ j.gone = {})
  <2>1. EventGoesOn(j) = At(j, "event", 0) /\ At(j, "event", 0) \in Jobs
    BY <1>2, GotoType DEF EventGoesOn, PCs
  <2>2. /\ At(j, "event", 0).pc = "event" /\ At(j, "event", 0).op = j.op
        /\ At(j, "event", 0).add = j.add /\ At(j, "event", 0).gone = j.gone
    BY AtFields
  <2>3. CallInv(At(j, "event", 0))
    BY <2>2 DEF CallInv, Knows, Deciding, Telling
  <2>4. AddOf(At(j, "event", 0)) = j.add /\ GoneOf(At(j, "event", 0)) = j.gone
    BY <2>2 DEF AddOf, GoneOf
  <2>5. QED BY <2>1, <2>2, <2>3, <2>4
<1>3. QED BY <1>1, <1>2

\* Call c tells the cache, which had the count v, of a message it has added or of
\* messages it has deleted.
Tells(c, v, n) ==
    /\ call' = [call EXCEPT ![c] = n] /\ CallInv(n)
    /\ n.pc \in {"idle", "event"} /\ (n.pc = "event" => n.op = call[c].op)
    /\ count' \in Int /\ earliest' \in Stamps \cup {None}
    /\ UNCHANGED <<db, scan, started, storage, history, compacted>>
    /\ count' = v + Cardinality(call[c].add) - Cardinality(AddOf(n))
                  - Cardinality(call[c].gone) + Cardinality(GoneOf(n))

LEMMA AddTells ==
    ASSUME Shape, NEW c \in Calls, NEW v \in Int, addMessage(c, v)
    PROVE  \E n \in Jobs : Tells(c, v, n)
<1> DEFINE j == [call[c] EXCEPT !.add = {}]
           n == EventGoesOn(j)
           m == CHOOSE x \in call[c].add : TRUE
<1>1. call[c] \in Jobs /\ CallInv(call[c]) /\ call[c].add # {}
  BY DEF Shape, CallsInv, addMessage
<1>2. j \in Jobs /\ j.add = {} /\ j.gone = call[c].gone /\ j.op = call[c].op
  BY <1>1 DEF Jobs
<1>3. call' = [call EXCEPT ![c] = n]
  BY DEF addMessage
<1> HIDE DEF j
<1>4. /\ n \in Jobs /\ CallInv(n) /\ n.pc \in {"idle", "event"} /\ (n.pc = "event" => n.op = call[c].op)
      /\ AddOf(n) = {} /\ GoneOf(n) = call[c].gone
  BY <1>2, EventGoesOnType
<1> HIDE DEF n
<1>5. m \in call[c].add /\ call[c].add \subseteq Messages
  BY <1>1 DEF Jobs
<1>6. earliest' \in Stamps \cup {None}
  <2>1. earliest' = IF earliest = None THEN m.ts ELSE Min({earliest, m.ts})
    BY DEF addMessage
  <2> HIDE DEF m
  <2>2. m.ts \in Stamps /\ m.ts \in Nat
    BY <1>5, CacheAssumption DEF Stamps
  <2>3. earliest # None => earliest \in Stamps /\ earliest \in Nat
    BY CacheAssumption DEF Shape, TypeOK, Stamps
  <2>4. CASE earliest = None
    BY <2>1, <2>2, <2>4
  <2>5. CASE earliest # None
    <3>1. Min({earliest, m.ts}) \in {earliest, m.ts}
      BY <2>2, <2>3, <2>5, MinType
    <3>2. QED BY <2>1, <2>2, <2>3, <2>5, <3>1
  <2>6. QED BY <2>4, <2>5
<1>7. Cardinality(call[c].add) = 1 /\ Cardinality(AddOf(n)) = 0 /\ Cardinality(call[c].gone) \in Nat
  <2>1. \E x \in Messages : call[c].add = {x}
    BY <1>1 DEF CallInv, Knows
  <2>2. call[c].gone \in SUBSET Messages
    BY <1>1 DEF Jobs
  <2>3. QED BY <1>4, <2>1, <2>2, FS_Singleton, FS_EmptySet, SubsetsAreFinite
<1>8. count' = v + 1 /\ UNCHANGED <<db, scan, started, storage, history, compacted>>
  BY DEF addMessage
<1>9. count' = v + Cardinality(call[c].add) - Cardinality(AddOf(n))
                 - Cardinality(call[c].gone) + Cardinality(GoneOf(n))
  BY <1>4, <1>7, <1>8
<1>10. count' \in Int
  BY <1>8
<1>11. Tells(c, v, n)
  BY <1>3, <1>4, <1>6, <1>8, <1>9, <1>10 DEF Tells
<1>12. QED BY <1>4, <1>11

LEMMA RemoveTells ==
    ASSUME Shape, NEW c \in Calls, NEW v \in Int, NEW D \in Removals(c), removeMessage(c, v, D)
    PROVE  \E n \in Jobs : Tells(c, v, n)
<1> DEFINE j == [call[c] EXCEPT !.gone = call[c].gone \ D]
           n == EventGoesOn(j)
<1>1. call[c] \in Jobs /\ CallInv(call[c]) /\ call[c].add = {}
  BY DEF Shape, CallsInv, removeMessage
<1>2. j \in Jobs /\ j.add = {} /\ j.gone = call[c].gone \ D /\ j.op = call[c].op
  BY <1>1 DEF Jobs
<1>3. call' = [call EXCEPT ![c] = n]
  BY DEF removeMessage
<1> HIDE DEF j
<1>4. /\ n \in Jobs /\ CallInv(n) /\ n.pc \in {"idle", "event"} /\ (n.pc = "event" => n.op = call[c].op)
      /\ AddOf(n) = {} /\ GoneOf(n) = call[c].gone \ D
  BY <1>2, EventGoesOnType
<1> HIDE DEF n
<1>5. /\ UNCHANGED <<db, scan, started, storage, history, compacted>> /\ count' = v - Cardinality(D)
      /\ earliest' = IF earliest \in {m.ts : m \in D} THEN None ELSE earliest
  BY DEF removeMessage
<1>6. earliest' \in Stamps \cup {None}
  BY <1>5 DEF Shape, TypeOK, Stamps
<1>7. D \subseteq call[c].gone
  BY DEF Removals
<1>8. call[c].gone \in SUBSET Messages
  BY <1>1 DEF Jobs
<1>9. /\ Cardinality(call[c].gone \ D) = Cardinality(call[c].gone) - Cardinality(D)
      /\ Cardinality(call[c].gone) \in Nat /\ Cardinality(D) \in Nat
  <2>1. IsFiniteSet(call[c].gone) /\ Cardinality(call[c].gone) \in Nat
    BY <1>8, SubsetsAreFinite
  <2>2. D \in SUBSET Messages /\ call[c].gone \cap D = D
    BY <1>7, <1>8
  <2>3. Cardinality(D) \in Nat
    BY <2>2, SubsetsAreFinite
  <2>4. Cardinality(call[c].gone \ D) = Cardinality(call[c].gone) - Cardinality(call[c].gone \cap D)
    BY <2>1, FS_Difference
  <2>5. QED BY <2>1, <2>2, <2>3, <2>4
<1>10. Cardinality({}) = 0
  BY FS_EmptySet
<1>11. count' = v + Cardinality(call[c].add) - Cardinality(AddOf(n))
                  - Cardinality(call[c].gone) + Cardinality(GoneOf(n))
  BY <1>1, <1>4, <1>5, <1>9, <1>10
<1>12. count' \in Int
  BY <1>5, <1>9
<1>13. Tells(c, v, n)
  BY <1>3, <1>4, <1>5, <1>6, <1>11, <1>12 DEF Tells
<1>14. QED BY <1>4, <1>13

LEMMA TellsKeepShape ==
    ASSUME Shape, NEW c \in Calls, NEW v \in Int, NEW n \in Jobs, Tells(c, v, n)
    PROVE  Shape'
<1>1. UNCHANGED <<db, scan, storage, compacted>> /\ count' \in Int /\ earliest' \in Stamps \cup {None}
  BY DEF Tells
<1>2. CallsInv'
  BY <1>1, CallsKept DEF Shape, Tells, storage
<1>3. \A d \in Calls : call'[d].add \cup call'[d].gone \subseteq Messages
  BY <1>2, CallSetsTyped DEF CallsInv
<1>4. TypeOK'
  BY <1>1, <1>3 DEF Shape, TypeOK, storage, Stamps
<1>5. QED BY <1>1, <1>2, <1>4 DEF Shape, RentsInv, storage

LEMMA ProcessEventKeeps ==
    ASSUME Shape, CountInv, NEW c \in Calls, ProcessEvent(c)
    PROVE  Shape' /\ CountInv'
<1>1. call[c].pc = "event" /\ count # None /\ count \in Int
  BY DEF ProcessEvent, Shape, TypeOK
<1>2. PICK n \in Jobs : Tells(c, count, n)
  BY <1>1, AddTells, RemoveTells DEF ProcessEvent
<1>3. Shape'
  BY <1>1, <1>2, TellsKeepShape
<1>4. /\ call \in [Calls -> Jobs] /\ call' = [call EXCEPT ![c] = n]
      /\ UNCHANGED <<db, scan, history, compacted>> /\ count' \in Int
      /\ n.pc \in {"idle", "event"} /\ (n.pc = "event" => n.op = call[c].op)
  BY <1>2 DEF Shape, CallsInv, Tells
<1>5. \A d \in Calls : call'[d] = IF d = c THEN n ELSE call[d]
  BY <1>4
<1>6. Balance' - Balance = count' - count /\ Balance \in Int /\ Balance' \in Int
  <2>1. AddOf(call[c]) = call[c].add /\ GoneOf(call[c]) = call[c].gone
    BY <1>1 DEF AddOf, GoneOf
  <2>2. /\ Balance' = Balance - Cardinality(db) + Cardinality(db')
                         + Cardinality(AddOf(call[c])) - Cardinality(AddOf(n))
                         - Cardinality(GoneOf(call[c])) + Cardinality(GoneOf(n))
        /\ Balance \in Int /\ Balance' \in Int /\ Cardinality(db) \in Nat
        /\ Cardinality(AddOf(call[c])) \in Nat /\ Cardinality(AddOf(n)) \in Nat
        /\ Cardinality(GoneOf(call[c])) \in Nat /\ Cardinality(GoneOf(n)) \in Nat
    BY <1>4, BalanceChanges DEF Shape, TypeOK
  <2>3. count' = count + Cardinality(call[c].add) - Cardinality(AddOf(n))
                   - Cardinality(call[c].gone) + Cardinality(GoneOf(n))
    BY <1>2 DEF Tells
  <2>4. QED BY <1>1, <1>4, <2>1, <2>2, <2>3
<1>7. ASSUME "delete" \notin history PROVE MergesOnly'
  BY <1>1, <1>4, <1>5, <1>7 DEF CountInv, MergesOnly
<1>8. ASSUME "cold" \notin history PROVE WarmInv'
  <2>1. WarmInv
    BY <1>8 DEF CountInv
  <2>2. scan = NoScan /\ Accounts(count)
    BY <1>1, <2>1 DEF WarmInv
  <2>3. Accounts(count)'
    <3>1. count <= Balance /\ ("delete" \notin history => count = Balance)
      BY <2>2 DEF Accounts
    <3>2. count' <= Balance' /\ ("delete" \notin history' => count' = Balance')
      BY <1>1, <1>4, <1>6, <3>1
    <3>3. QED BY <3>2 DEF Accounts
  <2>4. \A d \in Calls : call'[d].pc # "apply" /\ (call'[d].pc = "await" => call'[d].then # "apply")
    BY <1>4, <1>5, <2>1 DEF WarmInv
  <2>5. count' # None
    BY <1>4, CacheAssumption
  <2>6. QED BY <1>4, <2>2, <2>3, <2>4, <2>5 DEF WarmInv, NoScan
<1>9. QED BY <1>3, <1>4, <1>7, <1>8 DEF CountInv

LEMMA ApplyEventKeeps ==
    ASSUME Shape, CountInv, NEW c \in Calls, ApplyEvent(c)
    PROVE  Shape' /\ CountInv'
<1>1. call[c].pc = "apply" /\ call[c].value \in Int
  BY DEF ApplyEvent, Shape, CallsInv, CallInv, Knows
<1>2. PICK n \in Jobs : Tells(c, call[c].value, n)
  BY <1>1, AddTells, RemoveTells DEF ApplyEvent
<1>3. Shape'
  BY <1>1, <1>2, TellsKeepShape
<1>4. "cold" \in history /\ "delete" \in history
  BY <1>1 DEF CountInv, WarmInv, MergesOnly
<1>5. UNCHANGED history
  BY <1>2 DEF Tells
<1>6. QED BY <1>3, <1>4, <1>5 DEF CountInv

\* An event that finds no count waits for a scan, or leaves out what it had to tell.
LEMMA ColdEventCases ==
    ASSUME Shape, NEW c \in Calls, ProcessEventCold(c)
    PROVE  /\ \E n \in Jobs : call' = [call EXCEPT ![c] = n] /\ CallInv(n)
           /\ scan' \in [pc : {"none", "running", "read"}, total : Nat]
<1>1. call[c] \in Jobs /\ CallInv(call[c]) /\ call[c].pc = "event" /\ count = None
  BY DEF Shape, CallsInv, ProcessEventCold
<1>2. scan \in [pc : {"none", "running", "read"}, total : Nat]
  BY DEF Shape, TypeOK
<1> DEFINE wait == Waiting(call[c], "apply")
           left == IF call[c].add # {} THEN {[call[c] EXCEPT !.add = {}]}
                   ELSE {[call[c] EXCEPT !.gone = @ \ D] : D \in Removals(c)}
<1>3. wait \in Jobs /\ CallInv(wait)
  <2>1. /\ wait \in Jobs /\ wait.pc = "await" /\ wait.then = "apply" /\ wait.op = call[c].op
        /\ wait.add = call[c].add
    BY <1>1, WaitingType
  <2> HIDE DEF wait
  <2>2. CallInv(wait)
    BY <1>1, <2>1 DEF CallInv, Knows, Deciding, Telling
  <2>3. QED BY <2>1, <2>2
<1>4. ASSUME NEW failed \in left
      PROVE  EventGoesOn(failed) \in Jobs /\ CallInv(EventGoesOn(failed))
  <2>1. failed \in Jobs /\ failed.add = {}
    <3>1. CASE call[c].add # {}
      <4>1. failed = [call[c] EXCEPT !.add = {}]
        BY <1>4, <3>1
      <4>2. QED BY <1>1, <4>1 DEF Jobs
    <3>2. CASE call[c].add = {}
      <4>1. PICK D \in Removals(c) : failed = [call[c] EXCEPT !.gone = @ \ D]
        BY <1>4, <3>2
      <4>2. QED BY <1>1, <3>2, <4>1 DEF Jobs
    <3>3. QED BY <3>1, <3>2
  <2>2. QED BY <2>1, EventGoesOnType
<1>5. PICK failed \in left : getMessageCount(c, call[c], "apply", TRUE, EventGoesOn(failed))
  BY DEF ProcessEventCold
<1> HIDE DEF left
<1>6. \/ call' = [call EXCEPT ![c] = wait] /\ (scan' = scan \/ scan' = [NoScan EXCEPT !.pc = "running"])
      \/ call' = [call EXCEPT ![c] = EventGoesOn(failed)] /\ scan' = scan
  BY <1>1, <1>5 DEF getMessageCount, Waiting
<1>7. [NoScan EXCEPT !.pc = "running"] \in [pc : {"none", "running", "read"}, total : Nat]
  BY DEF NoScan
<1>8. QED BY <1>2, <1>3, <1>4, <1>6, <1>7

LEMMA ColdEventKeeps ==
    ASSUME Shape, CountInv, NEW c \in Calls, ProcessEventCold(c)
    PROVE  Shape' /\ CountInv'
<1>1. /\ call[c].pc = "event" /\ count = None /\ history' = history \cup {"cold"}
      /\ UNCHANGED <<db, count, earliest, storage, compacted>>
  BY DEF ProcessEventCold
<1>2. PICK n \in Jobs : call' = [call EXCEPT ![c] = n] /\ CallInv(n)
  BY ColdEventCases
<1>3. scan' \in [pc : {"none", "running", "read"}, total : Nat]
  BY ColdEventCases
<1>4. CallsInv'
  BY <1>1, <1>2, CallsKept DEF Shape, storage
<1>5. \A d \in Calls : call'[d].add \cup call'[d].gone \subseteq Messages
  BY <1>4, CallSetsTyped DEF CallsInv
<1>6. TypeOK'
  BY <1>1, <1>3, <1>5 DEF Shape, TypeOK, storage
<1>7. Shape'
  BY <1>1, <1>4, <1>6 DEF Shape, RentsInv, storage
<1>8. "delete" \in history
  BY <1>1 DEF CountInv, MergesOnly, WarmInv
<1>9. QED BY <1>1, <1>7, <1>8 DEF CountInv

-----------------------------------------------------------------------------
(* The scan                                                                *)

LEMMA ScanReadsKeeps ==
    ASSUME Shape, CountInv, ScanReads
    PROVE  Shape' /\ CountInv'
<1>1. /\ scan.pc = "running" /\ scan' = [pc |-> "read", total |-> Cardinality(db)]
      /\ UNCHANGED <<db, count, earliest, call, storage, history, compacted>>
  BY DEF ScanReads
<1>2. Cardinality(db) \in Nat /\ compacted \in Nat
  BY SubsetsAreFinite DEF Shape, TypeOK
<1>3. CallsInv' /\ RentsInv'
  BY <1>1 DEF Shape, CallsInv, CallInv, RentsInv, storage
<1>4. TypeOK'
  BY <1>1, <1>2 DEF Shape, TypeOK, storage
<1>5. Balance' = Balance
  BY <1>1 DEF Balance
<1>6. ASSUME "cold" \notin history PROVE WarmInv'
  <2>1. WarmInv
    BY <1>6 DEF CountInv
  <2>2. count = None /\ compacted = 0
    BY <1>1, <2>1 DEF WarmInv, NoScan
  <2> DEFINE a == [c \in Calls |-> AddOf(call[c])]
             g == [c \in Calls |-> GoneOf(call[c])]
  <2>3. \A c \in Calls : call[c].pc = "event" => call[c].op # "merge"
    BY <2>1, <2>2 DEF WarmInv
  <2>4. \A c \in Calls : a[c] = {}
    <3>1. \A c \in Calls : call[c].add # {} => call[c].op = "merge"
      BY DEF Shape, CallsInv, CallInv, Knows
    <3>2. QED BY <2>3, <3>1 DEF AddOf
  <2>5. "delete" \notin history => \A c \in Calls : g[c] = {}
    BY <2>3 DEF CountInv, MergesOnly, GoneOf
  <2>6. Balance = Cardinality(db) - Total(a) + Total(g)
    BY <1>2, <2>2, TotalType DEF Balance
  <2> HIDE DEF a, g
  <2>7. Total(a) = 0 /\ Total(g) \in Nat /\ ("delete" \notin history => Total(g) = 0)
    BY <2>4, <2>5, TotalOfNone, TotalType
  <2>8. Cardinality(db) <= Balance /\ ("delete" \notin history => Cardinality(db) = Balance)
    BY <1>2, <2>6, <2>7
  <2>9. scan'.total = Cardinality(db)
    BY <1>1
  <2>10. Accounts(scan.total)'
    BY <1>1, <1>5, <2>8, <2>9 DEF Accounts
  <2>11. QED BY <1>1, <2>1, <2>2, <2>10 DEF WarmInv
<1>7. CountInv'
  BY <1>1, <1>6 DEF CountInv, MergesOnly
<1>8. QED BY <1>3, <1>4, <1>7 DEF Shape

LEMMA ScanReturnsKeeps ==
    ASSUME Shape, CountInv, ScanReturns
    PROVE  Shape' /\ CountInv'
<1> DEFINE got(j) == IF j.pc = "await" THEN [Goto(j, j.then) EXCEPT !.value = scan.total] ELSE j
<1>1. /\ scan.pc = "read" /\ count' = scan.total /\ scan' = NoScan
      /\ call' = [c \in Calls |-> got(call[c])]
      /\ UNCHANGED <<db, earliest, storage, history, compacted>>
  BY DEF ScanReturns
<1>2. scan.total \in Nat
  BY DEF Shape, TypeOK
<1>3. ASSUME NEW c \in Calls
      PROVE  /\ call'[c] \in Jobs /\ CallInv(call'[c])
             /\ AddOf(call'[c]) = AddOf(call[c]) /\ GoneOf(call'[c]) = GoneOf(call[c])
             /\ call[c].pc = "await" => call'[c].pc = call[c].then /\ call[c].then \in {"limit", "earliest", "apply"}
             /\ call[c].pc # "await" => call'[c] = call[c]
  <2>1. call[c] \in Jobs /\ CallInv(call[c])
    BY DEF Shape, CallsInv
  <2>2. CASE call[c].pc = "await"
    <3> DEFINE n == At(call[c], call[c].then, scan.total)
    <3>1. call[c].then \in {"limit", "earliest", "apply"}
      BY <2>1, <2>2 DEF CallInv, Knows
    <3>2. call'[c] = n /\ n \in Jobs
      BY <1>1, <1>2, <2>1, <2>2, <3>1, GotoType DEF PCs
    <3>3. /\ n.pc = call[c].then /\ n.op = call[c].op /\ n.msg = call[c].msg /\ n.value = scan.total
          /\ n.add = call[c].add /\ n.gone = call[c].gone
      BY AtFields
    <3> HIDE DEF n
    <3>4. CallInv(n)
      <4>1. n.pc \in {"limit", "earliest", "apply"} /\ n.value \in Int
        BY <1>2, <3>1, <3>3
      <4>2. n.op = "merge" /\ Deciding(n) => n.msg \in Messages \cup CompactStates
        BY <2>1, <2>2, <3>1, <3>3 DEF CallInv, Knows, Deciding
      <4>3. n.add # {} => Telling(n) /\ n.op = "merge" /\ \E x \in Messages : n.add = {x}
        BY <2>1, <2>2, <3>1, <3>3 DEF CallInv, Knows, Telling
      <4>4. QED BY <4>1, <4>2, <4>3 DEF CallInv, Knows
    <3>5. AddOf(n) = {} /\ GoneOf(n) = {} /\ AddOf(call[c]) = {} /\ GoneOf(call[c]) = {}
      BY <2>2, <3>1, <3>3 DEF AddOf, GoneOf
    <3>6. QED BY <2>2, <3>1, <3>2, <3>3, <3>4, <3>5
  <2>3. CASE call[c].pc # "await"
    BY <1>1, <2>1, <2>3
  <2>4. QED BY <2>2, <2>3
<1> HIDE DEF got
<1>4. CallsInv'
  <2>1. call' \in [Calls -> Jobs]
    BY <1>1, <1>3
  <2>2. \A c \in Calls : Knows(call'[c], now', rents')
    BY <1>1, <1>3 DEF CallInv, storage
  <2>3. QED BY <2>1, <2>2 DEF CallsInv, CallInv
<1>5. Shape'
  <2>1. \A d \in Calls : call'[d].add \cup call'[d].gone \subseteq Messages
    BY <1>4, CallSetsTyped DEF CallsInv
  <2>2. NoScan \in [pc : {"none", "running", "read"}, total : Nat]
    BY DEF NoScan
  <2>3. TypeOK'
    BY <1>1, <1>2, <2>1, <2>2 DEF Shape, TypeOK, storage
  <2>4. QED BY <1>1, <1>4, <2>3 DEF Shape, RentsInv, storage
<1>6. Balance' = Balance
  <2>1. [c \in Calls |-> AddOf(call'[c])] = [c \in Calls |-> AddOf(call[c])]
    BY <1>3
  <2>2. [c \in Calls |-> GoneOf(call'[c])] = [c \in Calls |-> GoneOf(call[c])]
    BY <1>3
  <2>3. QED BY <1>1, <2>1, <2>2 DEF Balance
<1>7. ASSUME "delete" \notin history PROVE MergesOnly'
  BY <1>1, <1>3, <1>7 DEF CountInv, MergesOnly
<1>8. ASSUME "cold" \notin history PROVE WarmInv'
  <2>1. WarmInv
    BY <1>8 DEF CountInv
  <2>2. ASSUME NEW c \in Calls
        PROVE  call'[c].pc # "apply" /\ (call'[c].pc = "await" => call'[c].then # "apply")
    BY <1>3, <2>1 DEF WarmInv
  <2>3. Accounts(scan.total)
    BY <1>1, <2>1 DEF WarmInv
  <2>4. Accounts(count)'
    BY <1>1, <1>6, <2>3 DEF Accounts
  <2>5. count' # None
    BY <1>1, <1>2, CacheAssumption
  <2>6. QED BY <1>1, <2>2, <2>4, <2>5 DEF WarmInv, NoScan
<1>9. QED BY <1>1, <1>5, <1>7, <1>8 DEF CountInv

-----------------------------------------------------------------------------
(* Rent                                                                    *)

LEMMA CountedType ==
    ASSUME Shape
    PROVE  Counted \in SUBSET Rents /\ \A r \in Rents : r.units \in Nat /\ r.until \in Nat
BY CacheAssumption DEF Shape, TypeOK, Counted, InForce

\* The rents that a call has read make the slot: what was stored since is missed, what
\* has expired since makes the slot invalid.
LEMMA SetSlotKeepsSlot ==
    ASSUME Shape, NEW c \in Calls, getCurrentStorageSlotForFid(c)
    PROVE  SlotInv'
<1> DEFINE j == call[c]
           R == InForce(j.read, j.at)
<1>1. /\ j.read \cap fresh = {} /\ missed' = rents \ (j.read \cup fresh)
      /\ UNCHANGED <<rents, fresh, now>>
  BY DEF getCurrentStorageSlotForFid
<1>2. /\ slot' \in [units : Nat, until : Nat] /\ slot'.units = Units(R) /\ slot' # None
      /\ \A r \in R : slot'.until <= r.until
      /\ j.at \in Nat /\ j.at <= now /\ j.read \subseteq rents /\ j.read \in SUBSET Rents
  BY NewSlot
<1>3. now \in Nat /\ \A r \in Rents : r.until \in Nat
  BY CacheAssumption DEF Shape, RentsInv
<1>4. Counted' = {r \in j.read : r.until >= now}
  BY <1>1, <1>2 DEF Counted, InForce
<1>5. Counted' \subseteq R
  BY <1>2, <1>3, <1>4 DEF InForce
<1>6. ASSUME slot'.until >= now PROVE R \subseteq Counted'
  <2>1. ASSUME NEW r \in R PROVE r \in j.read /\ r.until >= now
    <3>1. r \in j.read /\ r \in Rents /\ slot'.until <= r.until /\ r.until \in Nat /\ slot'.until \in Nat
      BY <1>2, <1>3, <2>1 DEF InForce
    <3>2. QED BY <1>3, <1>6, <3>1
  <2>2. QED BY <1>4, <2>1
<1>7. ASSUME slot'.until >= now'
      PROVE  slot'.units = Units(Counted') /\ \A r \in Counted' : slot'.until <= r.until
  <2>1. Counted' = R
    BY <1>1, <1>5, <1>6, <1>7
  <2> HIDE DEF R
  <2>2. QED BY <1>2, <2>1
<1>8. Units(Counted') = Units(Counted)'
  BY DEF Units
<1>9. QED BY <1>2, <1>7, <1>8 DEF SlotInv

LEMMA MergeRentKeeps ==
    ASSUME Shape, CountInv, SlotInv, NEW r \in Rents, MergeRent(r)
    PROVE  Shape' /\ CountInv' /\ SlotInv'
<1>1. /\ r \notin rents /\ rents' = rents \cup {r} /\ fresh' = fresh \cup {r}
      /\ UNCHANGED <<db, count, earliest, scan, call, slot, now, missed, history, compacted>>
  BY DEF MergeRent
<1>2. now \in Nat /\ now' \in Nat /\ now <= now'
  BY <1>1 DEF Shape, RentsInv
<1>3. CallsInv'
  BY <1>1, <1>2, CallsKeptLater DEF Shape
<1>4. TypeOK' /\ RentsInv'
  BY <1>1 DEF Shape, TypeOK, RentsInv
<1>5. CountInv'
  BY <1>1 DEF CountInv, WarmInv, MergesOnly, Accounts, Balance
<1>6. Counted' = Counted
  BY <1>1 DEF Counted, InForce
<1>7. SlotInv'
  BY <1>1, <1>6 DEF SlotInv, Units
<1>8. QED BY <1>3, <1>4, <1>5, <1>7 DEF Shape

LEMMA AddRentKeeps ==
    ASSUME Shape, CountInv, SlotInv, NEW r \in Rents, addRent(r)
    PROVE  Shape' /\ CountInv' /\ SlotInv'
<1>1. /\ r \in fresh /\ fresh' = fresh \ {r}
      /\ slot' = IF r.until < now THEN slot
                 ELSE IF slot = None THEN r
                 ELSE [units |-> r.units + slot.units, until |-> Min({r.until, slot.until})]
      /\ UNCHANGED <<db, count, earliest, scan, call, rents, now, missed, history, compacted>>
  BY DEF addRent
<1>2. /\ now \in Nat /\ Counted \in SUBSET Rents /\ fresh \cap missed = {} /\ fresh \subseteq rents
      /\ r.units \in Nat /\ r.until \in Nat /\ r \in [units : Nat, until : Nat]
      /\ \A s \in Rents : s.units \in Nat /\ s.until \in Nat
  BY CountedType, CacheAssumption DEF Shape, RentsInv, TypeOK
<1>3. CallsInv' /\ CountInv' /\ RentsInv'
  <2>1. CallsInv'
    BY <1>1 DEF Shape, CallsInv, CallInv
  <2>2. CountInv'
    BY <1>1 DEF CountInv, WarmInv, MergesOnly, Accounts, Balance
  <2>3. RentsInv'
    BY <1>1 DEF Shape, RentsInv
  <2>4. QED BY <2>1, <2>2, <2>3
<1>4. r \notin Counted
  BY <1>1 DEF Counted
<1>5. CASE r.until < now
  <2>1. slot' = slot
    BY <1>1, <1>5
  <2>2. Counted' = Counted
    <3>1. ~(r.until >= now)
      BY <1>2, <1>5
    <3>2. QED BY <1>1, <3>1 DEF Counted, InForce
  <2>3. SlotInv'
    BY <1>1, <2>1, <2>2 DEF SlotInv, Units
  <2>4. TypeOK'
    BY <1>1, <2>1 DEF Shape, TypeOK
  <2>5. QED BY <1>3, <2>3, <2>4 DEF Shape
<1>6. CASE ~(r.until < now)
  <2>1. Counted' = Counted \cup {r}
    <3>1. r.until >= now
      BY <1>2, <1>6
    <3>2. QED BY <1>1, <1>2, <3>1 DEF Counted, InForce
  <2>2. Units(Counted') = r.units + Units(Counted)
    BY <1>2, <1>4, <2>1, UnitsAdd
  <2>3. CASE slot = None
    <3>1. slot' = r /\ Counted = {}
      BY <1>1, <1>6, <2>3 DEF SlotInv
    <3>2. Units(Counted') = r.units /\ Counted' = {r}
      BY <1>2, <2>1, <2>2, <3>1, UnitsOfNone
    <3>3. slot' # None
      BY <1>2, <3>1, CacheAssumption
    <3>4. \A s \in Counted' : slot'.until <= s.until
      BY <1>2, <3>1, <3>2
    <3>5. SlotInv'
      BY <3>1, <3>2, <3>3, <3>4 DEF SlotInv, Units
    <3>6. TypeOK'
      BY <1>1, <1>2, <3>1 DEF Shape, TypeOK
    <3>7. QED BY <1>3, <3>5, <3>6 DEF Shape
  <2>4. CASE slot # None
    <3> DEFINE u == Min({r.until, slot.until})
    <3>1. slot \in [units : Nat, until : Nat] /\ slot.units \in Nat /\ slot.until \in Nat
      BY <2>4 DEF Shape, TypeOK
    <3>2. slot' = [units |-> r.units + slot.units, until |-> u]
      BY <1>1, <1>6, <2>4
    <3>3. u \in {r.until, slot.until} /\ u <= r.until /\ u <= slot.until
      BY <1>2, <3>1, MinType
    <3> HIDE DEF u
    <3>4. u \in Nat
      BY <1>2, <3>1, <3>3
    <3>5. slot' \in [units : Nat, until : Nat] /\ slot'.units = r.units + slot.units /\ slot'.until = u
      BY <1>2, <3>1, <3>2, <3>4
    <3>6. slot' # None
      BY <3>5, CacheAssumption
    <3>7. ASSUME u >= now
          PROVE  r.units + slot.units = Units(Counted') /\ \A s \in Counted' : u <= s.until
      <4>1. slot.until >= now
        BY <1>2, <3>1, <3>3, <3>4, <3>7
      <4>2. slot.units = Units(Counted) /\ \A s \in Counted : slot.until <= s.until
        BY <2>4, <4>1 DEF SlotInv
      <4>3. \A s \in Counted : u <= s.until
        <5>1. ASSUME NEW s \in Counted PROVE u <= s.until
          <6>1. s.until \in Nat /\ slot.until <= s.until
            BY <1>2, <4>2
          <6>2. QED BY <3>1, <3>3, <3>4, <6>1
        <5>2. QED BY <5>1
      <4>4. QED BY <2>1, <2>2, <3>3, <4>2, <4>3
    <3>8. SlotInv'
      BY <1>1, <3>5, <3>6, <3>7 DEF SlotInv, Units
    <3>9. TypeOK'
      BY <1>1, <3>5 DEF Shape, TypeOK
    <3>10. QED BY <1>3, <3>8, <3>9 DEF Shape
  <2>5. QED BY <2>3, <2>4
<1>7. QED BY <1>5, <1>6

LEMMA TickKeeps ==
    ASSUME Shape, CountInv, SlotInv, Tick
    PROVE  Shape' /\ CountInv' /\ SlotInv'
<1>1. now' = now + 1 /\ UNCHANGED <<db, count, earliest, scan, call, rents, fresh, slot, missed, history, compacted>>
  BY DEF Tick
<1>2. now \in Nat /\ now' \in Nat /\ now <= now'
  BY <1>1 DEF Shape, RentsInv
<1>3. CallsInv'
  BY <1>1, <1>2, CallsKeptLater DEF Shape
<1>4. TypeOK' /\ RentsInv'
  BY <1>1, <1>2 DEF Shape, TypeOK, RentsInv
<1>5. CountInv'
  BY <1>1 DEF CountInv, WarmInv, MergesOnly, Accounts, Balance
<1>6. Counted \in SUBSET Rents /\ \A r \in Rents : r.until \in Nat
  BY CountedType
<1>7. Counted' \subseteq Counted
  <2>1. \A r \in rents : r \in Rents
    BY DEF Shape, TypeOK
  <2>2. QED BY <1>1, <1>2, <1>6, <2>1 DEF Counted, InForce
<1>8. ASSUME slot # None, slot.until >= now'
      PROVE  slot.units = Units(Counted') /\ \A r \in Counted' : slot.until <= r.until
  <2>1. slot.until \in Nat
    BY <1>8 DEF Shape, TypeOK
  <2>2. slot.until >= now
    BY <1>1, <1>2, <1>8, <2>1
  <2>3. slot.units = Units(Counted) /\ \A r \in Counted : slot.until <= r.until
    BY <1>8, <2>2 DEF SlotInv
  <2>4. Counted \subseteq Counted'
    <3>1. ASSUME NEW r \in Counted PROVE r.until >= now'
      BY <1>2, <1>6, <1>8, <2>1, <2>3
    <3>2. QED BY <1>1, <3>1 DEF Counted, InForce
  <2>5. Counted' = Counted
    BY <1>7, <2>4
  <2>6. QED BY <2>3, <2>5
<1>9. SlotInv'
  <2>1. slot = None => Counted' = {}
    BY <1>7 DEF SlotInv
  <2>2. QED BY <1>1, <1>8, <2>1 DEF SlotInv, Units
<1>10. QED BY <1>3, <1>4, <1>5, <1>9 DEF Shape

LEMMA SlotUntouched ==
    ASSUME SlotInv, UNCHANGED storage
    PROVE  SlotInv'
BY DEF SlotInv, Counted, InForce, Units, storage

-----------------------------------------------------------------------------
(* The theorems                                                            *)

LEMMA InitHolds == Init => IInv
<1> SUFFICES ASSUME Init PROVE IInv
  OBVIOUS
<1>1. /\ rents \in InitialRents /\ fresh = {} /\ missed = {} /\ now = 0
      /\ slot = IF rents = {} THEN None ELSE slotOf(rents, {})
      /\ db \in InitialDbs /\ count \in {Cardinality(db), None} /\ earliest = None /\ scan = NoScan
      /\ call = [c \in Calls |-> Idle] /\ history = {} /\ compacted = 0
  BY DEF Init
<1>2. db \subseteq Messages /\ rents \in SUBSET Rents
  BY <1>1, CacheAssumption
<1>3. Cardinality(db) \in Nat
  BY <1>2, SubsetsAreFinite
<1>4. CallsInv
  <2>1. \A c \in Calls : call[c] = Idle
    BY <1>1
  <2>2. QED BY <1>1, <2>1, IdleType DEF CallsInv
<1>5. rents # {} => /\ slot \in [units : Nat, until : Nat] /\ slot.units = Units(rents)
                    /\ \A r \in rents : slot.until <= r.until
  BY <1>1, <1>2, SlotOfType
<1>6. TypeOK
  <2>1. \A c \in Calls : call[c].add \cup call[c].gone \subseteq Messages
    BY <1>1, IdleType
  <2>2. scan \in [pc : {"none", "running", "read"}, total : Nat]
    BY <1>1 DEF NoScan
  <2>3. QED BY <1>1, <1>2, <1>3, <1>5, <2>1, <2>2 DEF TypeOK
<1>7. RentsInv
  BY <1>1 DEF RentsInv
<1>8. SlotInv
  <2>1. \A r \in rents : r.until \in Nat
    BY <1>2, CacheAssumption
  <2>2. Counted = rents
    BY <1>1, <2>1 DEF Counted, InForce
  <2>3. CASE rents = {}
    BY <1>1, <2>2, <2>3 DEF SlotInv
  <2>4. CASE rents # {}
    <3>1. slot # None
      BY <1>5, <2>4, CacheAssumption
    <3>2. QED BY <1>5, <2>2, <2>4, <3>1 DEF SlotInv
  <2>5. QED BY <2>3, <2>4
<1>9. CountInv
  <2> DEFINE a == [c \in Calls |-> AddOf(call[c])]
             g == [c \in Calls |-> GoneOf(call[c])]
  <2>1. \A c \in Calls : a[c] = {} /\ g[c] = {}
    BY <1>1, IdleType DEF AddOf, GoneOf
  <2>2. Balance = Cardinality(db) + compacted - Total(a) + Total(g)
    BY DEF Balance
  <2> HIDE DEF a, g
  <2>3. Total(a) = 0 /\ Total(g) = 0
    BY <2>1, TotalOfNone
  <2>4. Balance = Cardinality(db)
    BY <1>1, <1>3, <2>2, <2>3
  <2>5. \A c \in Calls : call[c].pc = "idle"
    BY <1>1, IdleType
  <2>6. count # None => Accounts(count)
    BY <1>1, <1>3, <2>4 DEF Accounts
  <2>7. scan = NoScan /\ scan.pc # "read"
    BY <1>1 DEF NoScan
  <2>8. WarmInv
    BY <1>1, <2>5, <2>6, <2>7 DEF WarmInv
  <2>9. QED BY <1>1, <2>5, <2>8 DEF CountInv, MergesOnly
<1>10. QED BY <1>4, <1>6, <1>7, <1>8, <1>9 DEF IInv, Shape

\* A call that goes on before its event.
LEMMA WalksKeep ==
    ASSUME IInv, NEW c \in Calls, \E n \in Jobs : Walks(c, n), UNCHANGED <<db, count, storage, history, compacted>>,
           earliest' \in Stamps \cup {None}
    PROVE  IInv'
<1>1. PICK n \in Jobs : Walks(c, n)
  OBVIOUS
<1>2. UNCHANGED <<now, rents, fresh, slot, missed>>
  BY DEF storage
<1>3. Shape'
  BY <1>1, <1>2, WalksKeepShape DEF IInv
<1>4. CountInv'
  BY <1>1, WalksKeepCount DEF IInv
<1>5. SlotInv'
  BY SlotUntouched DEF IInv
<1>6. QED BY <1>3, <1>4, <1>5 DEF IInv

LEMMA StepHolds ==
    ASSUME IInv, NEW c \in Calls, Step(c)
    PROVE  IInv'
<1>1. Shape /\ CountInv /\ SlotInv /\ earliest \in Stamps \cup {None}
  BY DEF IInv, Shape, TypeOK, Stamps
<1>2. CASE CheckLimit(c)
  BY <1>1, <1>2, CheckLimitWalks, WalksKeep DEF CheckLimit
<1>3. CASE ReadRents(c)
  BY <1>1, <1>3, ReadRentsWalks, WalksKeep DEF ReadRents
<1>4. CASE getCurrentStorageSlotForFid(c)
  <2>1. PICK n \in Jobs : Walks(c, n)
    BY <1>1, <1>4, SetSlotWalks
  <2>2. UNCHANGED <<db, count, earliest, now, rents, fresh, history, compacted>>
    BY <1>4 DEF getCurrentStorageSlotForFid
  <2>3. Shape'
    BY <1>1, <1>4, <2>1, <2>2, WalksKeepShape
  <2>4. CountInv'
    BY <1>1, <2>1, <2>2, WalksKeepCount
  <2>5. SlotInv'
    BY <1>1, <1>4, SetSlotKeepsSlot
  <2>6. QED BY <2>3, <2>4, <2>5 DEF IInv
<1>5. CASE getEarliestTsHash(c)
  BY <1>1, <1>5, EarliestWalks, WalksKeep DEF getEarliestTsHash
<1>6. CASE ReadFirstKey(c)
  BY <1>1, <1>6, ReadFirstWalks, WalksKeep DEF ReadFirstKey
<1>7. CASE CacheFirstKey(c)
  <2>1. UNCHANGED <<db, count, storage, history, compacted>>
    BY <1>7 DEF CacheFirstKey
  <2>2. QED BY <1>1, <1>7, <2>1, CacheFirstWalks, WalksKeep
<1>8. CASE RustPrune(c)
  BY <1>1, <1>8, PruneWalks, WalksKeep DEF RustPrune
<1>9. CASE RustMerge(c)
  <2>1. UNCHANGED storage
    BY <1>9 DEF RustMerge
  <2>2. QED BY <1>1, <1>9, <2>1, MergeKeeps, SlotUntouched DEF IInv
<1>15. CASE merge_compact_state(c)
  <2>1. UNCHANGED storage
    BY <1>15 DEF merge_compact_state
  <2>2. QED BY <1>1, <1>15, <2>1, CompactKeeps, SlotUntouched DEF IInv
<1>10. CASE CommitDelete(c)
  <2>1. UNCHANGED storage
    BY <1>10 DEF CommitDelete
  <2>2. QED BY <1>1, <1>10, <2>1, DeleteKeeps, SlotUntouched DEF IInv
<1>11. CASE ProcessEvent(c)
  <2>1. UNCHANGED storage
    BY <1>11 DEF ProcessEvent, addMessage, removeMessage
  <2>2. QED BY <1>1, <1>11, <2>1, ProcessEventKeeps, SlotUntouched DEF IInv
<1>12. CASE ProcessEventCold(c)
  <2>1. UNCHANGED storage
    BY <1>12 DEF ProcessEventCold
  <2>2. QED BY <1>1, <1>12, <2>1, ColdEventKeeps, SlotUntouched DEF IInv
<1>13. CASE ApplyEvent(c)
  <2>1. UNCHANGED storage
    BY <1>13 DEF ApplyEvent, addMessage, removeMessage
  <2>2. QED BY <1>1, <1>13, <2>1, ApplyEventKeeps, SlotUntouched DEF IInv
<1>14. QED BY <1>2, <1>3, <1>4, <1>5, <1>6, <1>7, <1>8, <1>9, <1>10, <1>11, <1>12, <1>13, <1>15 DEF Step

LEMMA NextHolds == IInv /\ [Next]_vars => IInv'
<1> SUFFICES ASSUME IInv, [Next]_vars PROVE IInv'
  OBVIOUS
<1>1. Shape /\ CountInv /\ SlotInv /\ earliest \in Stamps \cup {None}
  BY DEF IInv, Shape, TypeOK, Stamps
<1>2. ASSUME NEW c \in Calls, NEW m \in Messages \cup CompactStates,
             StartMerge(c, m) \/ (m \in Messages /\ StartRevoke(c, m))
      PROVE  IInv'
  <2>1. UNCHANGED <<db, count, earliest, storage, history, compacted>>
    BY <1>2 DEF StartMerge, StartRevoke
  <2>2. \E n \in Jobs : Walks(c, n)
    BY <1>1, <1>2, StartWalks
  <2>3. QED BY <1>1, <2>1, <2>2, WalksKeep
<1>3. ASSUME NEW c \in Calls, StartUsage(c) \/ StartPrune(c)
      PROVE  IInv'
  <2>1. UNCHANGED <<db, count, earliest, storage, history, compacted>>
    BY <1>3 DEF StartUsage, StartPrune
  <2>2. \E n \in Jobs : Walks(c, n)
    BY <1>1, <1>3, StartQueryWalks
  <2>3. QED BY <1>1, <2>1, <2>2, WalksKeep
<1>4. ASSUME NEW c \in Calls, Step(c) PROVE IInv'
  BY <1>4, StepHolds
<1>5. CASE ScanReads
  <2>1. UNCHANGED storage
    BY <1>5 DEF ScanReads
  <2>2. QED BY <1>1, <1>5, <2>1, ScanReadsKeeps, SlotUntouched DEF IInv
<1>6. CASE ScanReturns
  <2>1. UNCHANGED storage
    BY <1>6 DEF ScanReturns
  <2>2. QED BY <1>1, <1>6, <2>1, ScanReturnsKeeps, SlotUntouched DEF IInv
<1>7. ASSUME NEW r \in Rents, MergeRent(r) \/ addRent(r) PROVE IInv'
  BY <1>1, <1>7, MergeRentKeeps, AddRentKeeps DEF IInv
<1>8. CASE Tick
  BY <1>1, <1>8, TickKeeps DEF IInv
<1>9. CASE UNCHANGED vars
  <2>1. UNCHANGED <<db, count, earliest, scan, call, history, compacted, storage>>
    BY <1>9 DEF vars
  <2>2. UNCHANGED <<rents, fresh, slot, now, missed>>
    BY <2>1 DEF storage
  <2>3. CallsInv' /\ RentsInv'
    BY <1>1, <2>1, <2>2 DEF Shape, CallsInv, CallInv, RentsInv
  <2>4. TypeOK'
    BY <1>1, <2>1, <2>2 DEF Shape, TypeOK
  <2>5. CountInv'
    BY <1>1, <2>1 DEF CountInv, WarmInv, MergesOnly, Accounts, Balance
  <2>6. QED BY <1>1, <2>1, <2>3, <2>4, <2>5, SlotUntouched DEF IInv, Shape
<1>10. QED BY <1>2, <1>3, <1>4, <1>5, <1>6, <1>7, <1>8, <1>9 DEF Next

LEMMA Inductive == Spec => []IInv
<1>1. QED BY InitHolds, NextHolds, PTL DEF Spec

\* The cache, the scan and the calls keep their type: a count is a number or absent, and
\* a slot is made of rents, however calls, events, scans and rents interleave.
THEOREM TypeCorrect == Spec => []TypeOK
<1>1. IInv => TypeOK
  BY DEF IInv, Shape
<1>2. QED BY <1>1, Inductive, PTL

\* In a quiet state nothing is left to be told.
LEMMA QuietBalance ==
    ASSUME IInv, Quiet
    PROVE  Balance = Cardinality(db) + compacted
<1> DEFINE a == [c \in Calls |-> AddOf(call[c])]
           g == [c \in Calls |-> GoneOf(call[c])]
<1>1. \A c \in Calls : a[c] = {} /\ g[c] = {}
  BY DEF Quiet, AddOf, GoneOf
<1>2. Balance = Cardinality(db) + compacted - Total(a) + Total(g)
  BY DEF Balance
<1> HIDE DEF a, g
<1>3. Total(a) = 0 /\ Total(g) = 0
  BY <1>1, TotalOfNone
<1>4. Cardinality(db) \in Nat /\ compacted \in Nat
  BY SubsetsAreFinite DEF IInv, Shape, TypeOK
<1>5. QED BY <1>2, <1>3, <1>4

\* Merges alone never make the cached count wrong: with any number of concurrent merges
\* and usage queries and a scan that reads the database between their commits and their
\* events, it is the number of stored messages once every event is processed, but for the
\* messages that compact states deleted, which stay in it.
THEOREM CountsMergesExactly == Spec => []CountIsExact
<1>1. IInv => CountIsExact
  <2> SUFFICES ASSUME IInv, Quiet, count # None, "delete" \notin history
                PROVE count = Cardinality(db) + compacted
    BY DEF CountIsExact
  <2>1. Accounts(count)
    BY DEF IInv, CountInv, MergesOnly, WarmInv
  <2>2. QED BY <2>1, QuietBalance DEF Accounts
<1>2. QED BY <1>1, Inductive, PTL

\* With revokes and prunes as well, whose events count off messages that were perhaps
\* deleted by another call before, the count is too high by no more than what compact
\* states deleted.
THEOREM CountNeverTooHigh == Spec => []NeverOvercounts
<1>1. IInv => NeverOvercounts
  <2> SUFFICES ASSUME IInv, Quiet, count # None, "cold" \notin history
                PROVE count <= Cardinality(db) + compacted
    BY DEF NeverOvercounts
  <2>1. Accounts(count)
    BY DEF IInv, CountInv, WarmInv
  <2>2. QED BY <2>1, QuietBalance DEF Accounts
<1>2. QED BY <1>1, Inductive, PTL

\* The slot allows what the rents in force allow, whatever rents are merged, expire and
\* are read again by any number of calls at once.
THEOREM SlotFollowsRents == Spec => []SlotIsExact
<1>1. IInv => SlotIsExact
  BY DEF IInv, SlotInv, SlotIsExact, Counted
<1>2. QED BY <1>1, Inductive, PTL

\* At every await of every call the cached count differs from the number of stored
\* messages by the events that processEvent has still to apply and by what compact states
\* deleted, and is never higher than with these,
\* unless an event has met a cold cache.
THEOREM CountAccountsForEvents == Spec => []CountOffByEvents
<1>1. IInv => CountOffByEvents
  <2>1. SUFFICES ASSUME IInv, count # None, "cold" \notin history
                 PROVE  LET told == Cardinality(db) + compacted - Cardinality(ToAdd) + Cardinality(ToRemove)
                        IN  count <= told /\ ("delete" \notin history => count = told)
    BY DEF CountOffByEvents
  <2>2. Accounts(count)
    BY <2>1 DEF IInv, CountInv, WarmInv
  <2>3. Pairs([c \in Calls |-> AddOf(call[c])]) = ToAdd
    BY DEF Pairs, AddOf, ToAdd
  <2>4. Pairs([c \in Calls |-> GoneOf(call[c])]) = ToRemove
    BY DEF Pairs, GoneOf, ToRemove
  <2>5. QED BY <2>2, <2>3, <2>4 DEF Accounts, Balance, Total
<1>2. QED BY <1>1, Inductive, PTL
===============================================================================
