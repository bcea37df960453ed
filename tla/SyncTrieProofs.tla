---------------------------- MODULE SyncTrieProofs ----------------------------
(***************************************************************************)
(* Proofs about SyncTrie, for any messages, on-chain events and numbers of *)
(* changes and faults.  What is under way is an insert of an id or a       *)
(* delete of it.  For an id whose updates never overlapped, and that was   *)
(* not revoked by mistake, all that is under way agrees with the store,    *)
(* and when nothing is, the trie does.                                     *)
(***************************************************************************)
EXTENDS SyncTrie, SequenceTheorems, FiniteSetTheorems, TLAPS

Evs == {ev \in [kind : {"merge", "remove"}, id : Ids, then : Seq(Ids)] :
            ev.kind = "remove" => ev.then = <<>>}
Upds == [id : Ids, then : Seq(Ids), sync : BOOLEAN]
Batches == [pc : {"idle", "insert", "delete", "sleep"}, ins : Seq(Upds), del : SUBSET Upds]

\* The ids that a set of updates inserts or deletes, and those deleted after it.
UIds(U) == {u.id : u \in U}
ThenIds(U) == UNION {Range(u.then) : u \in U}

MergeIds(E) == {ev.id : ev \in {x \in E : x.kind = "merge"}}
GoneIds(E) == {ev.id : ev \in {x \in E : x.kind = "remove"}} \cup ThenIds(E)

\* What is queued or in flight, in the trie's queues.
QueuedIns == Range(inserts) \cup Range(flight.ins)
QueuedDel == deletes \cup flight.del

\* The ids with an insert, and with a delete, under way.
Inserting == MergeIds(Range(events)) \cup UIds(QueuedIns) \cup checks \cup dups
Deleting == GoneIds(Range(events)) \cup ThenIds(QueuedIns) \cup ThenIds(QueuedDel) \cup UIds(QueuedDel)
            \cup UNION asks

BatchInv ==
    /\ inserts \in Seq(Upds) /\ deletes \in SUBSET Upds /\ flight \in Batches
    /\ flight.pc \in {"idle", "sleep"} => flight.ins = <<>> /\ flight.del = {}

QueueInv == events \in Seq(Evs) /\ BatchInv

SetsInv ==
    /\ store \subseteq Ids /\ trie \subseteq Ids /\ saved \subseteq Ids /\ gone \subseteq Ids \ trie
    /\ checks \subseteq Events /\ dups \subseteq Ids /\ asks \subseteq SUBSET Ids
    /\ cleared \subseteq Events \ store

DownInv == up \in BOOLEAN /\ (~up => Idle /\ trie = {} /\ gone = {})

Follow(k) ==
    /\ k \in Inserting => k \in store
    /\ k \in Deleting => k \notin store
    /\ k \notin Inserting \cup Deleting => (k \in trie <=> k \in store)
    /\ flight.pc = "delete" /\ k \in UIds(Range(flight.ins)) => k \in trie

FollowInv ==
    /\ up => \A k \in Ids \ tainted : Follow(k)
    /\ ~up => \A k \in Ids \ tainted : (k \in saved <=> k \in store)

Shape == QueueInv /\ SetsInv /\ DownInv

IInv == Shape /\ FollowInv

-----------------------------------------------------------------------------
(* Sequences and sets of updates                                           *)

LEMMA EmptyRange == Range(<<>>) = {}
BY DEF Range

LEMMA RangeOfAppend ==
    ASSUME NEW S, NEW s \in Seq(S), NEW e \in S
    PROVE  Append(s, e) \in Seq(S) /\ Range(Append(s, e)) = Range(s) \cup {e}
<1>1. Append(s, e) \in Seq(S) /\ Append(s, e) = s \o <<e>>
  BY AppendProperties, AppendIsConcat
<1>2. <<e>> \in Seq(S) /\ Range(<<e>>) = {e}
  BY DEF Range
<1>3. Range(s \o <<e>>) = Range(s) \cup Range(<<e>>)
  <2> DEFINE t == <<e>>
  <2>1. t \in Seq(S)
    BY <1>2
  <2> HIDE DEF t
  <2>2. Range(s \o t) = Range(s) \cup Range(t)
    BY <2>1, RangeConcatenation
  <2>3. QED BY <2>2 DEF t
<1>4. QED BY <1>1, <1>2, <1>3

LEMMA RangeOfRemoveAt ==
    ASSUME NEW S, NEW s \in Seq(S), NEW j \in DOMAIN s
    PROVE  /\ RemoveAt(s, j) \in Seq(S)
           /\ Range(RemoveAt(s, j)) \subseteq Range(s)
           /\ Range(s) = Range(RemoveAt(s, j)) \cup {s[j]}
<1> DEFINE a == SubSeq(s, 1, j - 1)
           b == SubSeq(s, j + 1, Len(s))
<1>1. j \in 1..Len(s) /\ Len(s) \in Nat /\ DOMAIN s = 1..Len(s) /\ \A i \in 1..Len(s) : s[i] \in S
  BY LenProperties, ElementOfSeq
<1>2. a \in Seq(S) /\ Len(a) = j - 1 /\ \A i \in 1..(j - 1) : a[i] = s[i]
  <2>1. \A i \in 1..(j - 1) : s[i] \in S
    BY <1>1
  <2>2. /\ a \in Seq(S) /\ Len(a) = IF 1 <= j - 1 THEN (j - 1) - 1 + 1 ELSE 0
        /\ \A i \in 1..((j - 1) - 1 + 1) : a[i] = s[1 + i - 1]
    BY <1>1, <2>1, SubSeqProperties
  <2> HIDE DEF a
  <2>3. QED BY <1>1, <2>2
<1>3. b \in Seq(S) /\ Len(b) = Len(s) - j /\ \A i \in 1..(Len(s) - j) : b[i] = s[j + i]
  <2>1. \A i \in (j + 1)..Len(s) : s[i] \in S
    BY <1>1
  <2>2. /\ b \in Seq(S) /\ Len(b) = IF j + 1 <= Len(s) THEN Len(s) - (j + 1) + 1 ELSE 0
        /\ \A i \in 1..(Len(s) - (j + 1) + 1) : b[i] = s[(j + 1) + i - 1]
    BY <1>1, <2>1, SubSeqProperties
  <2> HIDE DEF b
  <2>3. Len(b) = Len(s) - j
    BY <1>1, <2>2
  <2>4. ASSUME NEW i \in 1..(Len(s) - j) PROVE b[i] = s[j + i]
    <3>1. i \in 1..(Len(s) - (j + 1) + 1) /\ (j + 1) + i - 1 = j + i
      BY <1>1
    <3>2. QED BY <2>2, <3>1
  <2>5. QED BY <2>2, <2>3, <2>4
<1>4. RemoveAt(s, j) = a \o b
  BY DEF RemoveAt
<1> HIDE DEF a, b
<1>5. a \o b \in Seq(S) /\ Range(a \o b) = Range(a) \cup Range(b)
  BY <1>2, <1>3, ConcatProperties, RangeConcatenation
<1>6. Range(a) = {s[i] : i \in 1..(j - 1)}
  BY <1>2, LenProperties DEF Range
<1>7. Range(b) = {s[i] : i \in (j + 1)..Len(s)}
  <2>1. DOMAIN b = 1..(Len(s) - j)
    BY <1>3, LenProperties
  <2>2. ASSUME NEW x \in Range(b) PROVE x \in {s[i] : i \in (j + 1)..Len(s)}
    <3>1. PICK i \in 1..(Len(s) - j) : x = b[i]
      BY <2>1, <2>2 DEF Range
    <3>2. j + i \in (j + 1)..Len(s) /\ x = s[j + i]
      BY <1>1, <1>3, <3>1
    <3>3. QED BY <3>2
  <2>3. ASSUME NEW i \in (j + 1)..Len(s) PROVE s[i] \in Range(b)
    <3>1. i - j \in 1..(Len(s) - j) /\ j + (i - j) = i
      BY <1>1
    <3>2. b[i - j] = s[i]
      BY <1>3, <3>1
    <3>3. QED BY <2>1, <3>1, <3>2 DEF Range
  <2>4. QED BY <2>2, <2>3
<1>8. Range(s) = {s[i] : i \in 1..Len(s)}
  BY <1>1 DEF Range
<1>9. 1..Len(s) = (1..(j - 1)) \cup {j} \cup ((j + 1)..Len(s))
  BY <1>1
<1>10. QED BY <1>4, <1>5, <1>6, <1>7, <1>8, <1>9

LEMMA HeadAndTail ==
    ASSUME NEW S, NEW s \in Seq(S), s # <<>>
    PROVE  Head(s) \in S /\ Tail(s) \in Seq(S) /\ Range(s) = {Head(s)} \cup Range(Tail(s))
<1>1. /\ Head(s) \in S /\ Tail(s) \in Seq(S) /\ Len(Tail(s)) = Len(s) - 1
      /\ \A i \in 1..Len(Tail(s)) : Tail(s)[i] = s[i + 1]
  BY HeadTailProperties
<1>2. Head(s) = s[1] /\ Len(s) \in Nat /\ Len(s) > 0 /\ DOMAIN s = 1..Len(s)
  BY LenProperties, EmptySeq
<1>3. DOMAIN Tail(s) = 1..(Len(s) - 1)
  BY <1>1, LenProperties
<1>4. ASSUME NEW x \in Range(s) PROVE x \in {Head(s)} \cup Range(Tail(s))
  <2>1. PICK i \in 1..Len(s) : x = s[i]
    BY <1>2, <1>4 DEF Range
  <2>2. CASE i = 1
    BY <1>2, <2>1, <2>2
  <2>3. CASE i # 1
    <3>1. i - 1 \in 1..(Len(s) - 1) /\ (i - 1) + 1 = i
      BY <1>2, <2>3
    <3>2. Tail(s)[i - 1] = s[i]
      BY <1>1, <3>1
    <3>3. QED BY <1>3, <2>1, <3>1, <3>2 DEF Range
  <2>4. QED BY <2>2, <2>3
<1>5. ASSUME NEW x \in Range(Tail(s)) PROVE x \in Range(s)
  <2>1. PICK i \in 1..(Len(s) - 1) : x = Tail(s)[i]
    BY <1>3, <1>5 DEF Range
  <2>2. x = s[i + 1] /\ i + 1 \in 1..Len(s)
    BY <1>1, <1>2, <2>1
  <2>3. QED BY <1>2, <2>2 DEF Range
<1>6. Head(s) \in Range(s)
  BY <1>2 DEF Range
<1>7. QED BY <1>1, <1>4, <1>5, <1>6

\* The handler goes through all that was replaced.
LEMMA RangeOfSetToSeq ==
    ASSUME NEW D \in SUBSET Ids
    PROVE  SetToSeq(D) \in Seq(Ids) /\ Range(SetToSeq(D)) = D
<1> DEFINE n == Cardinality(D)
           f == SetToSeq(D)
<1>1. IsFiniteSet(D)
  BY FS_Subset, SyncTrieAssumption DEF Ids
<1>2. n \in Nat /\ ExistsBijection(1..n, D)
  BY <1>1, FS_CardinalityType
<1>3. \E g \in [1..n -> D] : IsInjective(g)
  BY <1>2 DEF ExistsBijection, Bijection, Injection
<1>4. f \in [1..n -> D] /\ IsInjective(f)
  BY <1>3 DEF SetToSeq
<1> HIDE DEF f
<1>5. f \in Injection(1..n, D)
  BY <1>4 DEF Injection
<1>6. IsFiniteSet(1..n) /\ Cardinality(1..n) = n
  <2>1. 1 \in Int /\ n \in Int
    BY <1>2
  <2>2. IsFiniteSet(1..n) /\ Cardinality(1..n) = IF 1 > n THEN 0 ELSE n - 1 + 1
    BY <2>1, FS_Interval, Zenon
  <2>3. QED BY <1>2, <2>2
<1>7. f \in Surjection(1..n, D)
  BY <1>1, <1>5, <1>6, FS_Injection
<1>8. Range(f) = D
  BY <1>4, <1>7 DEF Surjection, Range
<1>9. f \in Seq(Ids)
  BY <1>2, <1>4, SeqDef
<1>10. QED BY <1>8, <1>9 DEF f

\* The ids of what is added to a set of updates.
LEMMA IdsOfUnion ==
    ASSUME NEW U, NEW V
    PROVE  UIds(U \cup V) = UIds(U) \cup UIds(V) /\ ThenIds(U \cup V) = ThenIds(U) \cup ThenIds(V)
BY DEF UIds, ThenIds

LEMMA IdsOfOne ==
    ASSUME NEW id, NEW then, NEW sync
    PROVE  UIds({Update(id, then, sync)}) = {id} /\ ThenIds({Update(id, then, sync)}) = Range(then)
<1>1. Update(id, then, sync).id = id /\ Update(id, then, sync).then = then
  BY DEF Update
<1>2. QED BY <1>1 DEF UIds, ThenIds

LEMMA IdsOfNone == UIds({}) = {} /\ ThenIds({}) = {} /\ MergeIds({}) = {} /\ GoneIds({}) = {}
BY DEF UIds, ThenIds, MergeIds, GoneIds

\* The id that the handler of an event inserts, if any, and the ids that it deletes.
Merged(ev) == IF ev.kind = "merge" THEN {ev.id} ELSE {}
Gone(ev) == (IF ev.kind = "remove" THEN {ev.id} ELSE {}) \cup Range(ev.then)

LEMMA EventIds ==
    ASSUME NEW E, NEW ev
    PROVE  /\ MergeIds(E \cup {ev}) = MergeIds(E) \cup Merged(ev)
           /\ GoneIds(E \cup {ev}) = GoneIds(E) \cup Gone(ev)
<1>1. MergeIds(E \cup {ev}) = MergeIds(E) \cup Merged(ev)
  BY DEF MergeIds, Merged
<1>2. GoneIds(E \cup {ev}) = GoneIds(E) \cup Gone(ev)
  BY DEF GoneIds, ThenIds, Gone
<1>3. QED BY <1>1, <1>2

LEMMA UpdateType ==
    ASSUME NEW id \in Ids, NEW then \in Seq(Ids), NEW sync \in BOOLEAN
    PROVE  Update(id, then, sync) \in Upds
BY DEF Update, Upds

LEMMA IdsTyped ==
    ASSUME NEW U \in SUBSET Upds
    PROVE  UIds(U) \subseteq Ids /\ ThenIds(U) \subseteq Ids /\ IdsOf(U) = UIds(U) \cup ThenIds(U)
<1>1. UIds(U) \subseteq Ids
  BY DEF UIds, Upds
<1>2. \A u \in U : Range(u.then) \subseteq Ids
  BY RangeOfSeq DEF Upds
<1>3. ThenIds(U) \subseteq Ids
  BY <1>2 DEF ThenIds
<1>4. QED BY <1>1, <1>3 DEF IdsOf, UIds, ThenIds

\* Updates of an id are under way just when an insert or a delete of it is.
LEMMA PendingIs ==
    ASSUME QueueInv, NEW k
    PROVE  Pending(k) <=> k \in Inserting \cup Deleting
<1>1. Range(events) \in SUBSET Evs /\ Range(inserts) \in SUBSET Upds /\ Range(flight.ins) \in SUBSET Upds
      /\ deletes \in SUBSET Upds /\ flight.del \in SUBSET Upds
  BY RangeOfSeq DEF QueueInv, BatchInv, Batches
<1>2. (\E ev \in Range(events) : k = ev.id \/ k \in Range(ev.then))
        <=> k \in MergeIds(Range(events)) \cup GoneIds(Range(events))
  <2>1. \A ev \in Range(events) : ev.kind \in {"merge", "remove"}
    BY <1>1 DEF Evs
  <2>2. QED BY <2>1 DEF MergeIds, GoneIds, ThenIds
<1>3. IdsOf(Range(inserts) \cup deletes \cup Range(flight.ins) \cup flight.del)
        = UIds(QueuedIns) \cup UIds(QueuedDel) \cup ThenIds(QueuedIns) \cup ThenIds(QueuedDel)
  BY DEF IdsOf, UIds, ThenIds, QueuedIns, QueuedDel
<1>4. QED BY <1>2, <1>3 DEF Pending, Inserting, Deleting

-----------------------------------------------------------------------------
(* The queues of the trie                                                  *)

LEMMA NoBatchType == NoBatch \in Batches /\ NoBatch.ins = <<>> /\ NoBatch.del = {} /\ NoBatch.pc = "idle"
BY DEF NoBatch, Batches

LEMMA BatchType ==
    ASSUME BatchInv
    PROVE  /\ flight.ins \in Seq(Upds) /\ flight.del \in SUBSET Upds
           /\ Range(inserts) \in SUBSET Upds /\ Range(flight.ins) \in SUBSET Upds
BY RangeOfSeq DEF BatchInv, Batches

\* What is queued is added to what is queued or in flight, and no batch that has done its
\* inserts takes it up.
LEMMA QueueAdds ==
    ASSUME BatchInv, NEW ins \in Seq(Upds), NEW del \in SUBSET Upds, Queue(ins, del)
    PROVE  /\ BatchInv'
           /\ QueuedIns' = QueuedIns \cup Range(ins)
           /\ QueuedDel' = QueuedDel \cup del
           /\ flight'.pc = "delete" => flight' = flight
<1>1. CASE flight = NoBatch
  <2>1. flight' = [pc |-> "insert", ins |-> ins, del |-> del] /\ inserts' = inserts /\ deletes' = deletes
    BY <1>1 DEF Queue
  <2>2. flight'.pc = "insert" /\ flight'.ins = ins /\ flight'.del = del /\ flight' \in Batches
    BY <2>1 DEF Batches
  <2>3. Range(flight.ins) = {} /\ flight.del = {}
    BY <1>1, NoBatchType, EmptyRange
  <2>4. BatchInv'
    BY <2>1, <2>2 DEF BatchInv
  <2>5. QED BY <2>1, <2>2, <2>3, <2>4 DEF QueuedIns, QueuedDel
<1>2. CASE flight # NoBatch
  <2>1. inserts' = inserts \o ins /\ deletes' = deletes \cup del /\ flight' = flight
    BY <1>2 DEF Queue
  <2>2. inserts \in Seq(Upds) /\ deletes \in SUBSET Upds
    BY DEF BatchInv
  <2>3. inserts \o ins \in Seq(Upds) /\ Range(inserts \o ins) = Range(inserts) \cup Range(ins)
    BY <2>2, ConcatProperties, RangeConcatenation
  <2>4. BatchInv'
    BY <2>1, <2>2, <2>3 DEF BatchInv
  <2>5. QED BY <2>1, <2>3, <2>4 DEF QueuedIns, QueuedDel
<1>3. QED BY <1>1, <1>2

LEMMA QueueInsertAdds ==
    ASSUME BatchInv, NEW u \in Upds, Queue(<<u>>, {})
    PROVE  /\ BatchInv'
           /\ QueuedIns' = QueuedIns \cup {u} /\ QueuedDel' = QueuedDel
           /\ flight'.pc = "delete" => flight' = flight
<1> DEFINE ins == <<u>>
<1>1. ins \in Seq(Upds) /\ Range(ins) = {u} /\ {} \in SUBSET Upds
  BY DEF Range
<1>2. Queue(ins, {})
  OBVIOUS
<1> HIDE DEF ins
<1>3. QED BY <1>1, <1>2, QueueAdds

LEMMA QueueDeleteAdds ==
    ASSUME BatchInv, NEW u \in Upds, Queue(<<>>, {u})
    PROVE  /\ BatchInv'
           /\ QueuedIns' = QueuedIns /\ QueuedDel' = QueuedDel \cup {u}
           /\ flight'.pc = "delete" => flight' = flight
<1> DEFINE ins == <<>>
<1>1. ins \in Seq(Upds) /\ Range(ins) = {} /\ {u} \in SUBSET Upds
  BY EmptyRange
<1>2. Queue(ins, {u})
  OBVIOUS
<1> HIDE DEF ins
<1>3. QED BY <1>1, <1>2, QueueAdds

\* What the handlers delete next, of the updates that are done.
Nexts(U) == {Update(Head(u.then), Tail(u.then), FALSE) : u \in {v \in U : v.then # <<>>}}

\* Nothing that is still to be deleted is forgotten, or deleted that was not to be.
LEMMA NextIds ==
    ASSUME NEW U \in SUBSET Upds
    PROVE  Nexts(U) \in SUBSET Upds /\ UIds(Nexts(U)) \cup ThenIds(Nexts(U)) = ThenIds(U)
<1>1. ASSUME NEW u \in U, u.then # <<>>
      PROVE  /\ Update(Head(u.then), Tail(u.then), FALSE) \in Upds
             /\ Range(u.then) = {Head(u.then)} \cup Range(Tail(u.then))
  <2>1. u.then \in Seq(Ids)
    BY DEF Upds
  <2>2. Head(u.then) \in Ids /\ Tail(u.then) \in Seq(Ids)
        /\ Range(u.then) = {Head(u.then)} \cup Range(Tail(u.then))
    BY <1>1, <2>1, HeadAndTail
  <2>3. QED BY <2>2, UpdateType
<1>2. Nexts(U) \in SUBSET Upds
  BY <1>1 DEF Nexts
<1>3. ASSUME NEW x \in Nexts(U)
      PROVE  {x.id} \cup Range(x.then) \subseteq ThenIds(U)
  <2>1. PICK u \in U : u.then # <<>> /\ x = Update(Head(u.then), Tail(u.then), FALSE)
    BY <1>3 DEF Nexts
  <2>2. x.id = Head(u.then) /\ x.then = Tail(u.then)
    BY <2>1 DEF Update
  <2>3. {x.id} \cup Range(x.then) = Range(u.then)
    BY <1>1, <2>1, <2>2
  <2>4. QED BY <2>3 DEF ThenIds
<1>4. UIds(Nexts(U)) \cup ThenIds(Nexts(U)) \subseteq ThenIds(U)
  BY <1>3 DEF UIds, ThenIds
<1>5. ASSUME NEW k \in ThenIds(U) PROVE k \in UIds(Nexts(U)) \cup ThenIds(Nexts(U))
  <2>1. PICK u \in U : k \in Range(u.then)
    BY <1>5 DEF ThenIds
  <2>2. u.then # <<>>
    BY <2>1, EmptyRange
  <2> DEFINE x == Update(Head(u.then), Tail(u.then), FALSE)
  <2>3. x \in Nexts(U)
    BY <2>2 DEF Nexts
  <2>4. x.id = Head(u.then) /\ x.then = Tail(u.then)
    BY DEF Update
  <2> HIDE DEF x
  <2>5. k = x.id \/ k \in Range(x.then)
    BY <1>1, <2>1, <2>2, <2>4
  <2>6. QED BY <2>3, <2>5 DEF UIds, ThenIds
<1>6. QED BY <1>2, <1>4, <1>5

LEMMA ResolveLeaves ==
    ASSUME BatchInv, Resolve
    PROVE  /\ BatchInv' /\ flight'.pc = "sleep"
           /\ QueuedIns' = Range(inserts)
           /\ QueuedDel' = deletes \cup Nexts(Range(flight.ins) \cup flight.del)
<1>1. Range(flight.ins) \cup flight.del \in SUBSET Upds
  BY BatchType
<1>2. /\ flight' = [NoBatch EXCEPT !.pc = "sleep"] /\ inserts' = inserts
      /\ deletes' = deletes \cup Nexts(Range(flight.ins) \cup flight.del)
  BY DEF Resolve, Nexts
<1>3. flight' \in Batches /\ flight'.pc = "sleep" /\ flight'.ins = <<>> /\ flight'.del = {}
  <2>1. [NoBatch EXCEPT !.pc = "sleep"] = [pc |-> "sleep", ins |-> <<>>, del |-> {}]
    <3>1. PICK none : none = <<>>
      OBVIOUS
    <3>2. NoBatch = [pc |-> "idle", ins |-> none, del |-> {}]
      BY <3>1 DEF NoBatch
    <3>3. [NoBatch EXCEPT !.pc = "sleep"] = [pc |-> "sleep", ins |-> none, del |-> {}]
      BY <3>2
    <3>4. QED BY <3>1, <3>3
  <2>2. flight' = [pc |-> "sleep", ins |-> <<>>, del |-> {}]
    BY <1>2, <2>1
  <2>3. <<>> \in Seq(Upds) /\ {} \in SUBSET Upds
    OBVIOUS
  <2>4. QED BY <2>2, <2>3 DEF Batches
<1>4. Nexts(Range(flight.ins) \cup flight.del) \in SUBSET Upds
  BY <1>1, NextIds
<1>5. BatchInv'
  BY <1>2, <1>3, <1>4 DEF BatchInv
<1>6. QED BY <1>2, <1>3, <1>5, EmptyRange DEF QueuedIns, QueuedDel

-----------------------------------------------------------------------------
(* What a step does to the ids under way                                   *)

\* What a step may do to the trie: it comes to insert only what is in the store, and no
\* on-chain event leaves the store unless it is cleared; the trie takes in what was to be
\* inserted, or what was saved or stored at a start, and loses what was to be deleted.
Flows ==
    /\ Inserting' \subseteq Inserting \cup store'
    /\ (store \cup cleared) \cap Events \subseteq store' \cup cleared'
    /\ saved' \subseteq saved \cup trie
    /\ trie' \subseteq trie \cup Inserting \cup (IF up THEN {} ELSE saved \cup store)
    /\ up /\ up' => /\ trie \ trie' \subseteq Deleting
                    /\ tainted \subseteq tainted'
                    /\ trie' = trie \/ store' = store

\* Steps between the queues, and those that leave the ids alone.
LEMMA SameFlows ==
    ASSUME Inserting' \subseteq Inserting \cup store', cleared' = cleared,
           store' = store, trie' = trie, saved' \subseteq saved \cup trie, tainted \subseteq tainted'
    PROVE  Flows
BY DEF Flows

\* Updates move on, from an event to a queue and from a queue to a batch.
LEMMA SameUpdates ==
    ASSUME FollowInv, up, up', store' = store, trie' = trie, tainted' = tainted,
           Inserting' = Inserting, Deleting' = Deleting,
           flight'.pc = "delete" => flight' = flight
    PROVE  FollowInv'
<1>1. ASSUME NEW k \in Ids \ tainted PROVE Follow(k)'
  <2>1. Follow(k)
    BY DEF FollowInv
  <2>2. QED BY <2>1 DEF Follow
<1>2. QED BY <1>1 DEF FollowInv

\* Inserts of A and deletes of B come under way, of ids that had none or are tainted.
LEMMA NewUpdates ==
    ASSUME QueueInv, FollowInv, up, up', NEW A, NEW B, trie' = trie, flight' = flight,
           Inserting' = Inserting \cup A, Deleting' = Deleting \cup B, tainted \subseteq tainted',
           \A k \in Ids \ tainted' : /\ k \in A \cup B => ~Pending(k)
                                     /\ k \in A => k \in store'
                                     /\ k \in B => k \notin store'
                                     /\ k \notin A \cup B => (k \in store' <=> k \in store)
    PROVE  FollowInv'
<1>1. ASSUME NEW k \in Ids \ tainted' PROVE Follow(k)'
  <2>1. Follow(k)
    BY DEF FollowInv
  <2>2. k \in A \cup B => k \notin Inserting \cup Deleting
    BY PendingIs
  <2>3. (k \in Inserting => k \in store)' /\ (k \in Deleting => k \notin store)'
    BY <2>1, <2>2 DEF Follow
  <2>4. (k \notin Inserting \cup Deleting => (k \in trie <=> k \in store))'
    BY <2>1, <2>2 DEF Follow
  <2>5. (flight.pc = "delete" /\ k \in UIds(Range(flight.ins)) => k \in trie)'
    BY <2>1 DEF Follow
  <2>6. QED BY <2>3, <2>4, <2>5 DEF Follow
<1>2. QED BY <1>1 DEF FollowInv

\* A change of the store by an event.
LEMMA PutKeeps ==
    ASSUME IInv, NEW S \in SUBSET Ids, NEW ev \in Evs, NEW missed, Put(S, ev, missed),
           Merged(ev) \subseteq S, Gone(ev) \cap S = {}, Gone(ev) \subseteq Messages,
           store \cap Events \subseteq S, S \subseteq store \cup Merged(ev), cleared' = cleared \ Merged(ev),
           \A k \in Ids \ missed : k \notin Merged(ev) \cup Gone(ev) => (k \in S <=> k \in store)
    PROVE  IInv' /\ Flows
<1> DEFINE A == Merged(ev)
           B == Gone(ev)
<1>1. up /\ up' /\ up' = up
  BY DEF Put
<1>2. events \in Seq(Evs) /\ BatchInv
  BY DEF IInv, Shape, QueueInv
<1>3. events' = Append(events, ev)
  BY DEF Put
<1>4. events' \in Seq(Evs) /\ Range(events') = Range(events) \cup {ev}
  BY <1>2, <1>3, RangeOfAppend
<1>5. inserts' = inserts /\ deletes' = deletes /\ flight' = flight /\ checks' = checks /\ dups' = dups
      /\ asks' = asks /\ trie' = trie /\ saved' = saved /\ gone' = gone /\ store' = S
  BY DEF Put
<1>6. QueueInv'
  BY <1>2, <1>4, <1>5 DEF QueueInv, BatchInv
<1>7. SetsInv' /\ DownInv'
  <2>1. cleared' \subseteq Events \ store'
    BY <1>5 DEF IInv, Shape, SetsInv
  <2>2. QED BY <1>1, <1>5, <2>1 DEF IInv, Shape, SetsInv, DownInv
<1>8. Inserting' = Inserting \cup A
  <2>1. MergeIds(Range(events')) = MergeIds(Range(events)) \cup A
    BY <1>4, EventIds
  <2>2. QED BY <2>1, <1>5 DEF Inserting, QueuedIns
<1>9. Deleting' = Deleting \cup B
  <2>1. GoneIds(Range(events')) = GoneIds(Range(events)) \cup B
    BY <1>4, EventIds
  <2>2. QED BY <2>1, <1>5 DEF Deleting, QueuedIns, QueuedDel
<1>10. A \cup B = {ev.id} \cup Range(ev.then)
  BY DEF Evs, Merged, Gone
<1>11. tainted' = tainted \cup missed \cup {k \in {ev.id} \cup Range(ev.then) : Pending(k)}
  BY DEF Put
<1>12. \A k \in Ids \ tainted' : /\ k \in A \cup B => ~Pending(k)
                                 /\ k \in A => k \in store'
                                 /\ k \in B => k \notin store'
                                 /\ k \notin A \cup B => (k \in store' <=> k \in store)
  BY <1>5, <1>10, <1>11
<1>13. tainted \subseteq tainted' /\ A \subseteq store' /\ B \cap store' = {}
  BY <1>5, <1>11
<1>14. QueueInv /\ FollowInv
  BY DEF IInv, Shape
<1> HIDE DEF A, B
<1>15. FollowInv'
  BY <1>1, <1>5, <1>8, <1>9, <1>12, <1>13, <1>14, NewUpdates
<1>16. Flows
  <2>1. (store \cup cleared) \cap Events \subseteq store' \cup cleared'
    BY <1>5, <1>13 DEF A
  <2>2. QED BY <1>1, <1>5, <1>8, <1>9, <1>13, <2>1 DEF Flows
<1>17. QED BY <1>16, <1>6, <1>7, <1>15 DEF IInv, Shape

LEMMA MergeMessageKeeps ==
    ASSUME IInv, NEW m \in Messages \ store, NEW D \in SUBSET (store \cap Messages), MergeMessage(m, D)
    PROVE  IInv' /\ Flows
<1> DEFINE ev == [kind |-> "merge", id |-> m, then |-> SetToSeq(D)]
<1>1. D \in SUBSET Ids /\ m \in Ids /\ m \notin D /\ store \subseteq Ids
  BY DEF Ids, IInv, Shape, SetsInv
<1>2. SetToSeq(D) \in Seq(Ids) /\ Range(SetToSeq(D)) = D
  BY <1>1, RangeOfSetToSeq
<1>3. ev \in Evs /\ ev.kind = "merge" /\ ev.id = m /\ Range(ev.then) = D
  BY <1>1, <1>2 DEF Evs
<1>4. PICK S : S = (store \ D) \cup {m}
  OBVIOUS
<1>5. Put(S, ev, {}) /\ cleared' = cleared
  BY <1>4 DEF MergeMessage, Change
<1> HIDE DEF ev
<1>6. S \in SUBSET Ids
  BY <1>1, <1>4
<1>7. \A k \in Ids \ {} : k \notin {m} \cup D => (k \in S <=> k \in store)
  BY <1>4
<1>8. {m} \subseteq S /\ D \cap S = {}
  BY <1>1, <1>4
<1>9. Merged(ev) = {m} /\ Gone(ev) = D
  BY <1>3 DEF Merged, Gone
<1>10. D \subseteq Messages /\ store \cap Events \subseteq S
  BY <1>4, SyncTrieAssumption
<1>11. S \subseteq store \cup Merged(ev) /\ cleared' = cleared \ Merged(ev)
  BY <1>4, <1>5, <1>9, SyncTrieAssumption DEF IInv, Shape, SetsInv
<1>12. QED BY <1>11, <1>10, <1>3, <1>5, <1>6, <1>7, <1>8, <1>9, PutKeeps

LEMMA MergeCompactStateKeeps ==
    ASSUME IInv, NEW m \in Messages \ store, NEW D \in SUBSET (store \cap Messages), MergeCompactState(m, D)
    PROVE  IInv' /\ Flows
<1> DEFINE ev == [kind |-> "merge", id |-> m, then |-> <<>>]
<1>1. D \in SUBSET Ids /\ m \in Ids /\ m \notin D /\ store \subseteq Ids
  BY DEF Ids, IInv, Shape, SetsInv
<1>2. ev \in Evs /\ ev.kind = "merge" /\ ev.id = m /\ ev.then = <<>>
  BY <1>1 DEF Evs
<1>3. Range(ev.then) = {}
  BY <1>2, EmptyRange
<1>4. PICK S : S = (store \ D) \cup {m}
  OBVIOUS
<1>5. Put(S, ev, D) /\ cleared' = cleared
  BY <1>4 DEF MergeCompactState, Change
<1> HIDE DEF ev
<1>6. S \in SUBSET Ids
  BY <1>1, <1>4
<1>7. \A k \in Ids \ D : k \notin {m} \cup {} => (k \in S <=> k \in store)
  BY <1>4
<1>8. {m} \subseteq S /\ {} \cap S = {}
  BY <1>4
<1>9. Merged(ev) = {m} /\ Gone(ev) = {}
  BY <1>2, <1>3 DEF Merged, Gone
<1>10. {} \subseteq Messages /\ store \cap Events \subseteq S
  BY <1>4, SyncTrieAssumption
<1>11. S \subseteq store \cup Merged(ev) /\ cleared' = cleared \ Merged(ev)
  BY <1>4, <1>5, <1>9, SyncTrieAssumption DEF IInv, Shape, SetsInv
<1>12. QED BY <1>11, <1>10, <1>2, <1>5, <1>6, <1>7, <1>8, <1>9, PutKeeps

LEMMA RemoveMessageKeeps ==
    ASSUME IInv, NEW m \in Messages \cap store, RemoveMessage(m)
    PROVE  IInv' /\ Flows
<1> DEFINE ev == [kind |-> "remove", id |-> m, then |-> <<>>]
<1>1. m \in Ids /\ store \subseteq Ids
  BY DEF Ids, IInv, Shape, SetsInv
<1>2. ev \in Evs /\ ev.kind = "remove" /\ ev.id = m /\ ev.then = <<>>
  BY <1>1 DEF Evs
<1>3. Range(ev.then) = {}
  BY <1>2, EmptyRange
<1>4. PICK S : S = store \ {m}
  OBVIOUS
<1>5. Put(S, ev, {}) /\ cleared' = cleared
  BY <1>4 DEF RemoveMessage, Change
<1> HIDE DEF ev
<1>6. S \in SUBSET Ids
  BY <1>1, <1>4
<1>7. \A k \in Ids \ {} : k \notin {} \cup {m} => (k \in S <=> k \in store)
  BY <1>4
<1>8. {} \subseteq S /\ {m} \cap S = {}
  BY <1>4
<1>9. Merged(ev) = {} /\ Gone(ev) = {m}
  BY <1>2, <1>3 DEF Merged, Gone
<1>10. {m} \subseteq Messages /\ store \cap Events \subseteq S
  BY <1>4, SyncTrieAssumption
<1>11. S \subseteq store \cup Merged(ev) /\ cleared' = cleared \ Merged(ev)
  BY <1>4, <1>5, <1>9, SyncTrieAssumption DEF IInv, Shape, SetsInv
<1>12. QED BY <1>11, <1>10, <1>2, <1>5, <1>6, <1>7, <1>8, <1>9, PutKeeps

LEMMA MergeOnChainEventKeeps ==
    ASSUME IInv, NEW e \in Events \ store, MergeOnChainEvent(e)
    PROVE  IInv' /\ Flows
<1> DEFINE ev == [kind |-> "merge", id |-> e, then |-> <<>>]
<1>1. e \in Ids /\ store \subseteq Ids
  BY DEF Ids, IInv, Shape, SetsInv
<1>2. ev \in Evs /\ ev.kind = "merge" /\ ev.id = e /\ ev.then = <<>>
  BY <1>1 DEF Evs
<1>3. Range(ev.then) = {}
  BY <1>2, EmptyRange
<1>4. PICK S : S = store \cup {e}
  OBVIOUS
<1>5. Put(S, ev, {}) /\ cleared' = cleared \ {e}
  BY <1>4 DEF MergeOnChainEvent
<1> HIDE DEF ev
<1>6. S \in SUBSET Ids
  BY <1>1, <1>4
<1>7. \A k \in Ids \ {} : k \notin {e} \cup {} => (k \in S <=> k \in store)
  BY <1>4
<1>8. {e} \subseteq S /\ {} \cap S = {}
  BY <1>4
<1>9. Merged(ev) = {e} /\ Gone(ev) = {}
  BY <1>2, <1>3 DEF Merged, Gone
<1>10. {} \subseteq Messages /\ store \cap Events \subseteq S
  BY <1>4, SyncTrieAssumption
<1>11. S \subseteq store \cup Merged(ev) /\ cleared' = cleared \ Merged(ev)
  BY <1>4, <1>5, <1>9
<1>12. QED BY <1>11, <1>10, <1>2, <1>5, <1>6, <1>7, <1>8, <1>9, PutKeeps

-----------------------------------------------------------------------------
(* The handlers                                                            *)

LEMMA HandleKeeps ==
    ASSUME IInv, NEW j \in DOMAIN events, Handle(j)
    PROVE  IInv' /\ Flows
<1>1. QueueInv /\ BatchInv /\ FollowInv /\ events \in Seq(Evs)
  BY DEF IInv, Shape, QueueInv
<1>2. PICK ev : ev = events[j]
  OBVIOUS
<1>3. ev \in Evs
  BY <1>1, <1>2, ElementOfSeq, LenProperties
<1>4. up /\ up' /\ up' = up /\ UNCHANGED <<store, trie, saved, gone, checks, dups, asks, cleared, tainted>>
  BY DEF Handle
<1>5. events' = RemoveAt(events, j)
  BY DEF Handle
<1>6. events' \in Seq(Evs) /\ Range(events) = Range(events') \cup {ev}
  BY <1>1, <1>2, <1>5, RangeOfRemoveAt
<1>7. /\ MergeIds(Range(events)) = MergeIds(Range(events')) \cup Merged(ev)
      /\ GoneIds(Range(events)) = GoneIds(Range(events')) \cup Gone(ev)
  BY <1>6, EventIds
<1>8. SetsInv' /\ DownInv'
  BY <1>4 DEF IInv, Shape, SetsInv, DownInv
<1>9. BatchInv' /\ Inserting' = Inserting /\ Deleting' = Deleting /\ (flight'.pc = "delete" => flight' = flight)
  <2>1. CASE ev.kind = "merge"
    <3> DEFINE u == Update(ev.id, ev.then, FALSE)
    <3>1. u \in Upds
      BY <1>3, UpdateType DEF Evs
    <3>2. Queue(<<u>>, {})
      BY <1>2, <2>1 DEF Handle
    <3>3. UIds({u}) = {ev.id} /\ ThenIds({u}) = Range(ev.then)
      BY IdsOfOne
    <3>4. Merged(ev) = {ev.id} /\ Gone(ev) = Range(ev.then)
      BY <2>1 DEF Merged, Gone
    <3> HIDE DEF u
    <3>5. /\ BatchInv' /\ QueuedIns' = QueuedIns \cup {u} /\ QueuedDel' = QueuedDel
          /\ (flight'.pc = "delete" => flight' = flight)
      BY <1>1, <3>1, <3>2, QueueInsertAdds
    <3>6. UIds(QueuedIns') = UIds(QueuedIns) \cup {ev.id}
      BY <3>3, <3>5, IdsOfUnion
    <3>7. ThenIds(QueuedIns') = ThenIds(QueuedIns) \cup Range(ev.then)
      <4>1. ThenIds(QueuedIns \cup {u}) = ThenIds(QueuedIns) \cup ThenIds({u})
        BY IdsOfUnion
      <4>2. QED BY <3>3, <3>5, <4>1
    <3>8. Inserting' = Inserting
      BY <1>4, <1>7, <3>4, <3>6 DEF Inserting
    <3>9. Deleting' = Deleting
      BY <1>4, <1>7, <3>4, <3>5, <3>7 DEF Deleting
    <3>10. QED BY <3>5, <3>8, <3>9
  <2>2. CASE ev.kind = "remove"
    <3> DEFINE u == Update(ev.id, <<>>, FALSE)
    <3>1. u \in Upds
      <4>1. ev.id \in Ids /\ <<>> \in Seq(Ids) /\ FALSE \in BOOLEAN
        BY <1>3 DEF Evs
      <4>2. QED BY <4>1, UpdateType
    <3>2. Queue(<<>>, {u})
      BY <1>2, <2>2 DEF Handle
    <3>3. UIds({u}) = {ev.id} /\ ThenIds({u}) = {}
      BY IdsOfOne, EmptyRange
    <3> HIDE DEF u
    <3>5. /\ BatchInv' /\ QueuedIns' = QueuedIns /\ QueuedDel' = QueuedDel \cup {u}
          /\ (flight'.pc = "delete" => flight' = flight)
      BY <1>1, <3>1, <3>2, QueueDeleteAdds
    <3>6. UIds(QueuedDel') = UIds(QueuedDel) \cup {ev.id}
      BY <3>3, <3>5, IdsOfUnion
    <3>7. ThenIds(QueuedDel') = ThenIds(QueuedDel)
      <4>1. ThenIds(QueuedDel \cup {u}) = ThenIds(QueuedDel) \cup ThenIds({u})
        BY IdsOfUnion
      <4>2. QED BY <3>3, <3>5, <4>1
    <3>8. Merged(ev) = {} /\ Gone(ev) = {ev.id}
      <4>1. ev.then = <<>>
        BY <1>3, <2>2 DEF Evs
      <4>2. QED BY <2>2, <4>1, EmptyRange DEF Merged, Gone
    <3>9. Inserting' = Inserting
      BY <1>4, <1>7, <3>5, <3>8 DEF Inserting
    <3>10. Deleting' = Deleting
      BY <1>4, <1>7, <3>5, <3>6, <3>7, <3>8 DEF Deleting
    <3>11. QED BY <3>5, <3>9, <3>10
  <2>3. QED BY <1>3, <2>1, <2>2 DEF Evs
<1>10. QueueInv'
  BY <1>6, <1>9 DEF QueueInv
<1>11. FollowInv'
  BY <1>1, <1>4, <1>9, SameUpdates
<1>12. Flows
  BY <1>4, <1>9, SameFlows
<1>13. QED BY <1>12, <1>8, <1>10, <1>11 DEF IInv, Shape

\* An insert, or a delete, after which nothing is deleted.
LEMMA OneInsert ==
    ASSUME BatchInv, NEW id \in Ids, NEW sync \in BOOLEAN, Queue(<<Update(id, <<>>, sync)>>, {})
    PROVE  /\ BatchInv' /\ QueuedDel' = QueuedDel
           /\ UIds(QueuedIns') = UIds(QueuedIns) \cup {id} /\ ThenIds(QueuedIns') = ThenIds(QueuedIns)
           /\ flight'.pc = "delete" => flight' = flight
<1> DEFINE u == Update(id, <<>>, sync)
<1>1. u \in Upds
  <2>1. <<>> \in Seq(Ids)
    OBVIOUS
  <2>2. QED BY <2>1, UpdateType
<1>2. UIds({u}) = {id} /\ ThenIds({u}) = {}
  BY IdsOfOne, EmptyRange
<1>3. Queue(<<u>>, {})
  OBVIOUS
<1> HIDE DEF u
<1>4. /\ BatchInv' /\ QueuedIns' = QueuedIns \cup {u} /\ QueuedDel' = QueuedDel
      /\ flight'.pc = "delete" => flight' = flight
  BY <1>1, <1>3, QueueInsertAdds
<1>5. /\ UIds(QueuedIns \cup {u}) = UIds(QueuedIns) \cup UIds({u})
      /\ ThenIds(QueuedIns \cup {u}) = ThenIds(QueuedIns) \cup ThenIds({u})
  BY IdsOfUnion
<1>6. QED BY <1>2, <1>4, <1>5

LEMMA ManyDeletes ==
    ASSUME BatchInv, NEW K \in SUBSET Ids, Queue(<<>>, {Update(k, <<>>, FALSE) : k \in K})
    PROVE  /\ BatchInv' /\ QueuedIns' = QueuedIns
           /\ UIds(QueuedDel') = UIds(QueuedDel) \cup K /\ ThenIds(QueuedDel') = ThenIds(QueuedDel)
           /\ flight'.pc = "delete" => flight' = flight
<1> DEFINE U == {Update(k, <<>>, FALSE) : k \in K}
           ins == <<>>
<1>1. ins \in Seq(Upds) /\ Range(ins) = {}
  BY EmptyRange
<1>2. U \in SUBSET Upds
  <2>1. <<>> \in Seq(Ids) /\ FALSE \in BOOLEAN
    OBVIOUS
  <2>2. \A k \in K : Update(k, <<>>, FALSE) \in Upds
    BY <2>1, UpdateType
  <2>3. QED BY <2>2
<1>3. UIds(U) = K /\ ThenIds(U) = {}
  <2>1. \A k \in K : Update(k, <<>>, FALSE).id = k /\ Update(k, <<>>, FALSE).then = <<>>
    BY DEF Update
  <2>2. QED BY <2>1, EmptyRange DEF UIds, ThenIds
<1>4. Queue(ins, U)
  OBVIOUS
<1> HIDE DEF U, ins
<1>5. /\ BatchInv' /\ QueuedIns' = QueuedIns \cup Range(ins) /\ QueuedDel' = QueuedDel \cup U
      /\ flight'.pc = "delete" => flight' = flight
  BY <1>1, <1>2, <1>4, QueueAdds
<1>6. /\ UIds(QueuedDel \cup U) = UIds(QueuedDel) \cup UIds(U)
      /\ ThenIds(QueuedDel \cup U) = ThenIds(QueuedDel) \cup ThenIds(U)
  BY IdsOfUnion
<1>7. QED BY <1>1, <1>3, <1>5, <1>6

LEMMA InsertDuplicateKeeps ==
    ASSUME IInv, NEW m \in Ids, InsertDuplicate(m)
    PROVE  IInv' /\ Flows
<1>1. BatchInv /\ FollowInv /\ events \in Seq(Evs)
  BY DEF IInv, Shape, QueueInv
<1>2. m \in dups /\ dups' = dups \ {m} /\ Queue(<<Update(m, <<>>, m \in Messages)>>, {})
      /\ UNCHANGED <<store, events, trie, saved, gone, checks, asks, up, cleared, tainted>>
  BY DEF InsertDuplicate
<1>3. up /\ up'
  BY <1>2 DEF IInv, Shape, DownInv, Idle
<1>4. /\ BatchInv' /\ QueuedDel' = QueuedDel
      /\ UIds(QueuedIns') = UIds(QueuedIns) \cup {m} /\ ThenIds(QueuedIns') = ThenIds(QueuedIns)
      /\ flight'.pc = "delete" => flight' = flight
  <2>1. (m \in Messages) \in BOOLEAN
    OBVIOUS
  <2>2. QED BY <1>1, <1>2, <2>1, OneInsert
<1>5. Inserting' = Inserting /\ Deleting' = Deleting
  BY <1>2, <1>4 DEF Inserting, Deleting
<1>6. FollowInv'
  BY <1>1, <1>2, <1>3, <1>4, <1>5, SameUpdates
<1>7. QueueInv' /\ SetsInv' /\ DownInv'
  BY <1>1, <1>2, <1>3, <1>4 DEF IInv, Shape, QueueInv, SetsInv, DownInv
<1>8. Flows
  BY <1>2, <1>5, SameFlows
<1>9. QED BY <1>8, <1>6, <1>7 DEF IInv, Shape

LEMMA UnionWith ==
    ASSUME NEW A, NEW K, NEW B, B = A \cup {K}
    PROVE  UNION B = (UNION A) \cup K
<1>1. ASSUME NEW x PROVE x \in UNION B <=> x \in (UNION A) \cup K
  <2>1. x \in UNION A <=> \E L \in A : x \in L
    OBVIOUS
  <2>2. x \in UNION B <=> \E L \in B : x \in L
    OBVIOUS
  <2>3. (\E L \in B : x \in L) <=> (\E L \in A : x \in L) \/ x \in K
    <3>1. ASSUME NEW L \in B, x \in L PROVE (\E M \in A : x \in M) \/ x \in K
      <4>1. L \in A \/ L = K
        OBVIOUS
      <4>2. QED BY <3>1, <4>1, Zenon
    <3>2. K \in B /\ A \subseteq B
      OBVIOUS
    <3>3. QED BY <3>1, <3>2, Zenon
  <2>4. QED BY <2>1, <2>2, <2>3
<1>2. QED BY <1>1, Zenon

LEMMA UnionWithout ==
    ASSUME NEW A, NEW K \in A
    PROVE  UNION A = (UNION (A \ {K})) \cup K
<1>1. A = (A \ {K}) \cup {K}
  OBVIOUS
<1>2. QED BY <1>1, UnionWith

LEMMA revokeSyncIdsKeeps ==
    ASSUME IInv, NEW K \in asks, revokeSyncIds(K)
    PROVE  IInv' /\ Flows
<1>1. BatchInv /\ FollowInv /\ events \in Seq(Evs) /\ K \in SUBSET Ids
  BY DEF IInv, Shape, QueueInv, SetsInv
<1>2. asks' = asks \ {K} /\ Queue(<<>>, {Update(k, <<>>, FALSE) : k \in K})
      /\ UNCHANGED <<store, events, trie, saved, gone, checks, dups, up, cleared, tainted>>
  BY DEF revokeSyncIds
<1>3. up /\ up'
  BY <1>2 DEF IInv, Shape, DownInv, Idle
<1>4. /\ BatchInv' /\ QueuedIns' = QueuedIns
      /\ UIds(QueuedDel') = UIds(QueuedDel) \cup K /\ ThenIds(QueuedDel') = ThenIds(QueuedDel)
      /\ flight'.pc = "delete" => flight' = flight
  BY <1>1, <1>2, ManyDeletes
<1>5. Inserting' = Inserting /\ Deleting' = Deleting
  <2>1. UNION asks = (UNION asks') \cup K
    BY <1>2, UnionWithout
  <2>2. QED BY <1>2, <1>4, <2>1 DEF Inserting, Deleting
<1>6. FollowInv'
  BY <1>1, <1>2, <1>3, <1>4, <1>5, SameUpdates
<1>7. QueueInv' /\ SetsInv' /\ DownInv'
  BY <1>1, <1>2, <1>3, <1>4 DEF IInv, Shape, QueueInv, SetsInv, DownInv
<1>8. Flows
  BY <1>2, <1>5, SameFlows
<1>9. QED BY <1>8, <1>6, <1>7 DEF IInv, Shape

\* An event that is in the trie by now needs no insert.
LEMMA CheckExistsKeeps ==
    ASSUME IInv, NEW e \in Ids, CheckExists(e)
    PROVE  IInv' /\ Flows
<1>1. BatchInv /\ FollowInv /\ events \in Seq(Evs)
  BY DEF IInv, Shape, QueueInv
<1>2. e \in checks /\ checks' = checks \ {e} /\ dups' = (IF e \in trie THEN dups ELSE dups \cup {e})
      /\ UNCHANGED <<store, events, inserts, deletes, flight, trie, saved, gone, asks, up, cleared, tainted>>
  BY DEF CheckExists
<1>3. up /\ up'
  BY <1>2 DEF IInv, Shape, DownInv, Idle
<1>4. Deleting' = Deleting
  BY <1>2 DEF Deleting, QueuedIns, QueuedDel
<1>5. FollowInv' /\ Inserting' \subseteq Inserting
  <2>1. CASE e \in trie
    <3>1. Inserting' \subseteq Inserting /\ Inserting \subseteq Inserting' \cup {e} /\ e \in Inserting
      BY <1>2, <2>1 DEF Inserting, QueuedIns
    <3>2. ASSUME NEW k \in Ids \ tainted PROVE Follow(k)'
      <4>1. Follow(k)
        BY <1>1, <1>3 DEF FollowInv
      <4>2. k = e => k \in store /\ k \in trie
        BY <2>1, <3>1, <4>1 DEF Follow
      <4>3. (k \in Inserting => k \in store)' /\ (k \in Deleting => k \notin store)'
        BY <1>2, <1>4, <3>1, <4>1 DEF Follow
      <4>4. (k \notin Inserting \cup Deleting => (k \in trie <=> k \in store))'
        BY <1>2, <1>4, <3>1, <4>1, <4>2 DEF Follow
      <4>5. (flight.pc = "delete" /\ k \in UIds(Range(flight.ins)) => k \in trie)'
        BY <1>2, <4>1 DEF Follow
      <4>6. QED BY <4>3, <4>4, <4>5 DEF Follow
    <3>3. QED BY <1>2, <1>3, <3>1, <3>2 DEF FollowInv
  <2>2. CASE e \notin trie
    <3>1. Inserting' = Inserting
      BY <1>2, <2>2 DEF Inserting, QueuedIns
    <3>2. QED BY <1>1, <1>2, <1>3, <1>4, <3>1, SameUpdates
  <2>3. QED BY <2>1, <2>2
<1>6. QueueInv' /\ SetsInv' /\ DownInv'
  BY <1>1, <1>2, <1>3 DEF IInv, Shape, QueueInv, BatchInv, SetsInv, DownInv
<1>7. Flows
  BY <1>2, <1>5, SameFlows
<1>8. QED BY <1>5, <1>6, <1>7 DEF IInv, Shape

-----------------------------------------------------------------------------
(* Syncs and requests                                                      *)

LEMMA SyncFindsMessageKeeps ==
    ASSUME IInv, NEW m \in Messages, SyncFindsMessage(m)
    PROVE  IInv' /\ Flows
<1>1. QueueInv /\ FollowInv
  BY DEF IInv, Shape
<1>2. /\ up /\ m \in store /\ dups' = dups \cup {m} /\ tainted' = tainted \cup {k \in {m} : Pending(k)}
      /\ UNCHANGED <<store, events, inserts, deletes, flight, trie, saved, gone, checks, asks, up, cleared>>
  BY DEF SyncFindsMessage
<1>3. up'
  BY <1>2
<1>4. Inserting' = Inserting \cup {m} /\ Deleting' = Deleting
  BY <1>2 DEF Inserting, Deleting, QueuedIns, QueuedDel
<1>5. \A k \in Ids \ tainted' : /\ k = m => ~Pending(k) /\ k \in store'
                                /\ k \in store' <=> k \in store
  BY <1>2
<1>6. FollowInv'
  <2>1. PICK A, B : A = {m} /\ B = {}
    OBVIOUS
  <2>2. Inserting' = Inserting \cup A /\ Deleting' = Deleting \cup B
    BY <1>4, <2>1
  <2>3. \A k \in Ids \ tainted' : /\ k \in A \cup B => ~Pending(k)
                                  /\ k \in A => k \in store'
                                  /\ k \in B => k \notin store'
                                  /\ k \notin A \cup B => (k \in store' <=> k \in store)
    BY <1>5, <2>1
  <2>4. trie' = trie /\ flight' = flight /\ tainted \subseteq tainted'
    BY <1>2
  <2>5. QED BY <1>1, <1>2, <1>3, <2>2, <2>3, <2>4, NewUpdates
<1>7. QueueInv' /\ SetsInv' /\ DownInv'
  BY <1>2, <1>3 DEF IInv, Shape, QueueInv, BatchInv, SetsInv, DownInv
<1>8. Flows
  BY <1>2, <1>4, SameFlows
<1>9. QED BY <1>8, <1>6, <1>7 DEF IInv, Shape

LEMMA SyncFindsEventKeeps ==
    ASSUME IInv, NEW e \in Events, SyncFindsEvent(e)
    PROVE  IInv' /\ Flows
<1>1. QueueInv /\ FollowInv
  BY DEF IInv, Shape
<1>2. /\ up /\ e \in store /\ checks' = checks \cup {e} /\ tainted' = tainted \cup {k \in {e} : Pending(k)}
      /\ UNCHANGED <<store, events, inserts, deletes, flight, trie, saved, gone, dups, asks, up, cleared>>
  BY DEF SyncFindsEvent
<1>3. up'
  BY <1>2
<1>4. Inserting' = Inserting \cup {e} /\ Deleting' = Deleting
  BY <1>2 DEF Inserting, Deleting, QueuedIns, QueuedDel
<1>5. \A k \in Ids \ tainted' : /\ k = e => ~Pending(k) /\ k \in store'
                                /\ k \in store' <=> k \in store
  BY <1>2
<1>6. FollowInv'
  <2>1. PICK A, B : A = {e} /\ B = {}
    OBVIOUS
  <2>2. Inserting' = Inserting \cup A /\ Deleting' = Deleting \cup B
    BY <1>4, <2>1
  <2>3. \A k \in Ids \ tainted' : /\ k \in A \cup B => ~Pending(k)
                                  /\ k \in A => k \in store'
                                  /\ k \in B => k \notin store'
                                  /\ k \notin A \cup B => (k \in store' <=> k \in store)
    BY <1>5, <2>1
  <2>4. trie' = trie /\ flight' = flight /\ tainted \subseteq tainted'
    BY <1>2
  <2>5. QED BY <1>1, <1>2, <1>3, <2>2, <2>3, <2>4, NewUpdates
<1>7. QueueInv' /\ SetsInv' /\ DownInv'
  BY <1>2, <1>3 DEF IInv, Shape, QueueInv, BatchInv, SetsInv, DownInv
<1>8. Flows
  BY <1>2, <1>4, SameFlows
<1>9. QED BY <1>8, <1>6, <1>7 DEF IInv, Shape

LEMMA NotFoundKeeps ==
    ASSUME IInv, NEW K \in SUBSET Ids, NotFound(K)
    PROVE  IInv' /\ Flows
<1>1. QueueInv /\ FollowInv
  BY DEF IInv, Shape
<1>2. /\ up /\ asks' = asks \cup {K} /\ tainted' = tainted \cup {k \in K : k \in store \/ Pending(k)}
      /\ UNCHANGED <<store, events, inserts, deletes, flight, trie, saved, gone, checks, dups, up, cleared>>
  BY DEF NotFound
<1>3. up'
  BY <1>2
<1>4. Inserting' = Inserting /\ Deleting' = Deleting \cup K
  <2>1. UNION asks' = (UNION asks) \cup K
    BY <1>2, UnionWith
  <2>2. QED BY <1>2, <2>1 DEF Inserting, Deleting, QueuedIns, QueuedDel
<1>5. \A k \in Ids \ tainted' : /\ k \in K => ~Pending(k) /\ k \notin store'
                                /\ k \in store' <=> k \in store
  BY <1>2
<1>6. FollowInv'
  <2>1. PICK A : A = {}
    OBVIOUS
  <2>2. Inserting' = Inserting \cup A
    BY <1>4, <2>1
  <2>3. \A k \in Ids \ tainted' : /\ k \in A \cup K => ~Pending(k)
                                  /\ k \in A => k \in store'
                                  /\ k \in K => k \notin store'
                                  /\ k \notin A \cup K => (k \in store' <=> k \in store)
    BY <1>5, <2>1
  <2>4. trie' = trie /\ flight' = flight /\ tainted \subseteq tainted'
    BY <1>2
  <2>5. QED BY <1>1, <1>2, <1>3, <1>4, <2>2, <2>3, <2>4, NewUpdates
<1>7. QueueInv' /\ SetsInv' /\ DownInv'
  BY <1>2, <1>3 DEF IInv, Shape, QueueInv, BatchInv, SetsInv, DownInv
<1>8. Flows
  BY <1>2, <1>4, SameFlows
<1>9. QED BY <1>8, <1>6, <1>7 DEF IInv, Shape

\* The ids that a request takes for corrupted are among those asked for, though it may be
\* others that are missing: the place of a message among the messages is in the list.
LEMMA PeerAsksKeeps ==
    ASSUME IInv, NEW asked \in Asked, PeerAsks(asked)
    PROVE  IInv' /\ Flows
<1> DEFINE messages == {i \in DOMAIN asked : asked[i] \in Messages}
           place(i) == Cardinality({j \in messages : j <= i})
<1>1. asked \in Seq(Ids) /\ DOMAIN asked = 1..Len(asked) /\ Len(asked) \in Nat
  BY SyncTrieAssumption, LenProperties DEF Ids
<1>2. ASSUME NEW i \in messages PROVE asked[place(i)] \in Ids
  <2> DEFINE P == {j \in messages : j <= i}
  <2>1. i \in 1..Len(asked) /\ i \in Nat /\ i \in P /\ P \subseteq 1..i
    BY <1>1
  <2>2. IsFiniteSet(1..i) /\ Cardinality(1..i) = i
    <3>1. 1 \in Int /\ i \in Int
      BY <2>1
    <3>2. IsFiniteSet(1..i) /\ Cardinality(1..i) = IF 1 > i THEN 0 ELSE i - 1 + 1
      BY <3>1, FS_Interval, Zenon
    <3>3. QED BY <2>1, <3>2
  <2> HIDE DEF P
  <2>3. IsFiniteSet(P) /\ Cardinality(P) <= i
    BY <2>1, <2>2, FS_Subset
  <2>4. Cardinality(P) \in Nat /\ Cardinality(P) # 0
    BY <2>1, <2>3, FS_CardinalityType, FS_EmptySet
  <2>5. Cardinality(P) \in 1..Len(asked)
    BY <1>1, <2>1, <2>3, <2>4
  <2>6. asked[Cardinality(P)] \in Ids
    BY <1>1, <2>5, ElementOfSeq
  <2>7. QED BY <2>6 DEF P
<1>3. findCorruptedSyncIDs(asked) = {asked[place(i)] : i \in {j \in messages : asked[j] \notin store}}
  BY DEF findCorruptedSyncIDs
<1> HIDE DEF place
<1>4. findCorruptedSyncIDs(asked) \in SUBSET Ids
  BY <1>2, <1>3
<1>5. PICK K : K = findCorruptedSyncIDs(asked)
  OBVIOUS
<1>6. NotFound(K) /\ K \in SUBSET Ids
  BY <1>4, <1>5 DEF PeerAsks
<1>7. QED BY <1>6, NotFoundKeeps

LEMMA revokeCorruptedSyncIdsKeeps ==
    ASSUME IInv, NEW K, revokeCorruptedSyncIds(K)
    PROVE  IInv' /\ Flows
<1>1. PICK L : L = K \ store
  OBVIOUS
<1>2. NotFound(L) /\ L \in SUBSET Ids
  BY <1>1 DEF revokeCorruptedSyncIds, IInv, Shape, SetsInv
<1>3. QED BY <1>2, NotFoundKeeps

-----------------------------------------------------------------------------
(* Batches                                                                 *)

LEMMA BatchInsertsKeeps ==
    ASSUME IInv, BatchInserts
    PROVE  IInv' /\ Flows
<1>1. BatchInv /\ FollowInv /\ events \in Seq(Evs)
  BY DEF IInv, Shape, QueueInv
<1>2. /\ flight.pc = "insert" /\ flight' = [flight EXCEPT !.pc = "delete"]
      /\ trie' = trie \cup UIds(Range(flight.ins)) /\ gone' = gone \ trie'
      /\ UNCHANGED <<store, events, inserts, deletes, saved, checks, dups, asks, up, cleared, tainted>>
  BY DEF BatchInserts, UIds
<1>3. up /\ up'
  BY <1>2, NoBatchType DEF IInv, Shape, DownInv, Idle
<1>4. flight' \in Batches /\ flight'.pc = "delete" /\ flight'.ins = flight.ins /\ flight'.del = flight.del
  BY <1>1, <1>2 DEF BatchInv, Batches
<1>5. BatchInv'
  BY <1>1, <1>2, <1>4 DEF BatchInv
<1>6. Inserting' = Inserting /\ Deleting' = Deleting
  BY <1>2, <1>4 DEF Inserting, Deleting, QueuedIns, QueuedDel
<1>7. UIds(Range(flight.ins)) \subseteq Inserting
  <2>1. UIds(Range(inserts) \cup Range(flight.ins)) = UIds(Range(inserts)) \cup UIds(Range(flight.ins))
    BY IdsOfUnion
  <2>2. QED BY <2>1 DEF Inserting, QueuedIns
<1>8. ASSUME NEW k \in Ids \ tainted PROVE Follow(k)'
  <2>1. Follow(k)
    BY <1>1, <1>3 DEF FollowInv
  <2>2. (k \in Inserting => k \in store)' /\ (k \in Deleting => k \notin store)'
    BY <1>2, <1>6, <2>1 DEF Follow
  <2>3. (k \notin Inserting \cup Deleting => (k \in trie <=> k \in store))'
    BY <1>2, <1>6, <1>7, <2>1 DEF Follow
  <2>4. (flight.pc = "delete" /\ k \in UIds(Range(flight.ins)) => k \in trie)'
    BY <1>2, <1>4
  <2>5. QED BY <2>2, <2>3, <2>4 DEF Follow
<1>9. FollowInv'
  BY <1>2, <1>3, <1>8 DEF FollowInv
<1>10. UIds(Range(flight.ins)) \subseteq Ids
  BY <1>1, BatchType, IdsTyped
<1>11. QueueInv' /\ SetsInv' /\ DownInv'
  BY <1>1, <1>2, <1>3, <1>5, <1>10 DEF IInv, Shape, QueueInv, SetsInv, DownInv
<1>12. Flows
  BY <1>2, <1>3, <1>6, <1>7 DEF Flows
<1>13. QED BY <1>12, <1>9, <1>11 DEF IInv, Shape

\* The ids under way after a batch is resolved: those of the updates of the batch are no
\* longer, but the ids that are deleted next still are.
LEMMA ResolvedIds ==
    ASSUME BatchInv, Resolve, UNCHANGED <<events, checks, dups, asks>>
    PROVE  /\ Inserting = Inserting' \cup UIds(Range(flight.ins))
           /\ Deleting = Deleting' \cup UIds(flight.del)
           /\ ThenIds(Range(flight.ins) \cup flight.del) \subseteq Deleting'
<1> DEFINE done == Range(flight.ins) \cup flight.del
<1>1. done \in SUBSET Upds
  BY BatchType
<1>2. QueuedIns' = Range(inserts) /\ QueuedDel' = deletes \cup Nexts(done)
  BY ResolveLeaves
<1>3. UIds(Nexts(done)) \cup ThenIds(Nexts(done)) = ThenIds(done)
  BY <1>1, NextIds
<1>4. ThenIds(done) = ThenIds(Range(flight.ins)) \cup ThenIds(flight.del)
  BY IdsOfUnion
<1> HIDE DEF done
<1>5. /\ UIds(QueuedIns) = UIds(Range(inserts)) \cup UIds(Range(flight.ins))
      /\ ThenIds(QueuedIns) = ThenIds(Range(inserts)) \cup ThenIds(Range(flight.ins))
  BY IdsOfUnion DEF QueuedIns
<1>6. /\ UIds(QueuedDel) = UIds(deletes) \cup UIds(flight.del)
      /\ ThenIds(QueuedDel) = ThenIds(deletes) \cup ThenIds(flight.del)
  BY IdsOfUnion DEF QueuedDel
<1>7. /\ UIds(deletes \cup Nexts(done)) = UIds(deletes) \cup UIds(Nexts(done))
      /\ ThenIds(deletes \cup Nexts(done)) = ThenIds(deletes) \cup ThenIds(Nexts(done))
  BY IdsOfUnion
<1>8. Inserting = Inserting' \cup UIds(Range(flight.ins))
  BY <1>2, <1>5 DEF Inserting
<1>9. UIds(QueuedDel') \cup ThenIds(QueuedDel') = UIds(deletes) \cup ThenIds(deletes) \cup ThenIds(done)
  BY <1>2, <1>3, <1>7
<1>10. Deleting' = GoneIds(Range(events)) \cup ThenIds(Range(inserts)) \cup UIds(deletes) \cup ThenIds(deletes)
                     \cup ThenIds(done) \cup UNION asks
  BY <1>2, <1>9 DEF Deleting
<1>11. Deleting = Deleting' \cup UIds(flight.del)
  BY <1>4, <1>5, <1>6, <1>10 DEF Deleting
<1>12. QED BY <1>8, <1>10, <1>11 DEF done

LEMMA BatchDeletesKeeps ==
    ASSUME IInv, BatchDeletes
    PROVE  IInv' /\ Flows
<1>1. BatchInv /\ FollowInv /\ events \in Seq(Evs)
  BY DEF IInv, Shape, QueueInv
<1>2. /\ flight.pc = "delete" /\ Resolve
      /\ trie' = trie \ UIds(flight.del) /\ gone' = (gone \cup trie) \ trie'
      /\ UNCHANGED <<store, events, saved, checks, dups, asks, up, cleared, tainted>>
  BY DEF BatchDeletes, UIds
<1>3. up /\ up'
  BY <1>2, NoBatchType DEF IInv, Shape, DownInv, Idle
<1>4. BatchInv' /\ flight'.pc = "sleep"
  BY <1>1, <1>2, ResolveLeaves
<1>5. /\ Inserting = Inserting' \cup UIds(Range(flight.ins))
      /\ Deleting = Deleting' \cup UIds(flight.del)
  BY <1>1, <1>2, ResolvedIds
<1>6. ASSUME NEW k \in Ids \ tainted PROVE Follow(k)'
  <2>1. Follow(k)
    BY <1>1, <1>3 DEF FollowInv
  <2>2. (k \in Inserting => k \in store)' /\ (k \in Deleting => k \notin store)'
    BY <1>2, <1>5, <2>1 DEF Follow
  <2>3. ASSUME k \notin Inserting' \cup Deleting' PROVE (k \in trie <=> k \in store)'
    <3>1. CASE k \in UIds(Range(flight.ins))
      BY <1>2, <1>5, <2>1, <3>1 DEF Follow
    <3>2. CASE k \in UIds(flight.del)
      BY <1>2, <1>5, <2>1, <3>2 DEF Follow
    <3>3. CASE k \notin UIds(Range(flight.ins)) \cup UIds(flight.del)
      BY <1>2, <1>5, <2>1, <2>3, <3>3 DEF Follow
    <3>4. QED BY <3>1, <3>2, <3>3
  <2>4. (flight.pc = "delete" /\ k \in UIds(Range(flight.ins)) => k \in trie)'
    BY <1>4
  <2>5. QED BY <2>2, <2>3, <2>4 DEF Follow
<1>7. FollowInv'
  BY <1>2, <1>3, <1>6 DEF FollowInv
<1>8. QueueInv' /\ SetsInv' /\ DownInv'
  BY <1>1, <1>2, <1>3, <1>4 DEF IInv, Shape, QueueInv, SetsInv, DownInv
<1>9. Flows
  BY <1>2, <1>3, <1>5 DEF Flows
<1>10. QED BY <1>9, <1>7, <1>8 DEF IInv, Shape

LEMMA BatchFailsKeeps ==
    ASSUME IInv, BatchFails
    PROVE  IInv' /\ Flows
<1>1. BatchInv /\ FollowInv /\ events \in Seq(Evs)
  BY DEF IInv, Shape, QueueInv
<1>2. /\ flight.pc \in {"insert", "delete"} /\ Resolve
      /\ tainted' = tainted \cup IdsOf(Range(flight.ins) \cup flight.del)
      /\ UNCHANGED <<store, events, trie, saved, gone, checks, dups, asks, up, cleared>>
  BY DEF BatchFails
<1>3. up /\ up'
  BY <1>2, NoBatchType DEF IInv, Shape, DownInv, Idle
<1>4. BatchInv' /\ flight'.pc = "sleep"
  BY <1>1, <1>2, ResolveLeaves
<1>5. /\ Inserting = Inserting' \cup UIds(Range(flight.ins))
      /\ Deleting = Deleting' \cup UIds(flight.del)
  BY <1>1, <1>2, ResolvedIds
<1>6. UIds(Range(flight.ins)) \cup UIds(flight.del) \subseteq tainted'
  <2>1. Range(flight.ins) \cup flight.del \in SUBSET Upds
    BY <1>1, BatchType
  <2>2. UIds(Range(flight.ins) \cup flight.del) \subseteq IdsOf(Range(flight.ins) \cup flight.del)
    BY <2>1, IdsTyped
  <2>3. QED BY <1>2, <2>2, IdsOfUnion
<1>7. ASSUME NEW k \in Ids \ tainted' PROVE Follow(k)'
  <2>1. Follow(k)
    BY <1>1, <1>2, <1>3 DEF FollowInv
  <2>2. (k \in Inserting => k \in store)' /\ (k \in Deleting => k \notin store)'
    BY <1>2, <1>5, <2>1 DEF Follow
  <2>3. (k \notin Inserting \cup Deleting => (k \in trie <=> k \in store))'
    BY <1>2, <1>5, <1>6, <2>1 DEF Follow
  <2>4. (flight.pc = "delete" /\ k \in UIds(Range(flight.ins)) => k \in trie)'
    BY <1>4
  <2>5. QED BY <2>2, <2>3, <2>4 DEF Follow
<1>8. FollowInv'
  BY <1>3, <1>7 DEF FollowInv
<1>9. QueueInv' /\ SetsInv' /\ DownInv'
  BY <1>1, <1>2, <1>3, <1>4 DEF IInv, Shape, QueueInv, SetsInv, DownInv
<1>10. Flows
  BY <1>2, <1>5, SameFlows
<1>11. QED BY <1>10, <1>8, <1>9 DEF IInv, Shape

LEMMA NextBatchKeeps ==
    ASSUME IInv, NextBatch
    PROVE  IInv' /\ Flows
<1>1. BatchInv /\ FollowInv /\ events \in Seq(Evs)
  BY DEF IInv, Shape, QueueInv
<1>2. /\ flight.pc = "sleep" /\ inserts' = <<>> /\ deletes' = {}
      /\ flight' = IF inserts = <<>> /\ deletes = {} THEN NoBatch
                   ELSE [pc |-> "insert", ins |-> inserts, del |-> deletes]
      /\ UNCHANGED <<store, events, trie, saved, gone, checks, dups, asks, up, cleared, tainted>>
  BY DEF NextBatch
<1>3. up /\ up'
  BY <1>2, NoBatchType DEF IInv, Shape, DownInv, Idle
<1>4. inserts \in Seq(Upds) /\ deletes \in SUBSET Upds /\ flight.ins = <<>> /\ flight.del = {}
  BY <1>1, <1>2 DEF BatchInv
<1>5. /\ flight' \in Batches /\ flight'.pc \in {"idle", "insert"}
      /\ flight'.ins = inserts /\ flight'.del = deletes
      /\ flight'.pc = "idle" => inserts = <<>> /\ deletes = {}
  <2>1. CASE inserts = <<>> /\ deletes = {}
    BY <1>2, <2>1, NoBatchType
  <2>2. CASE ~(inserts = <<>> /\ deletes = {})
    <3>1. flight' = [pc |-> "insert", ins |-> inserts, del |-> deletes]
      BY <1>2, <2>2
    <3>2. QED BY <1>4, <3>1 DEF Batches
  <2>3. QED BY <2>1, <2>2
<1>6. BatchInv'
  <2>1. <<>> \in Seq(Upds) /\ {} \in SUBSET Upds
    OBVIOUS
  <2>2. inserts' \in Seq(Upds) /\ deletes' \in SUBSET Upds
    BY <1>2, <2>1
  <2>3. QED BY <1>5, <2>2 DEF BatchInv
<1>7. QueuedIns' = QueuedIns /\ QueuedDel' = QueuedDel
  <2>1. Range(inserts') = {} /\ Range(flight.ins) = {}
    BY <1>2, <1>4, EmptyRange
  <2>2. QED BY <1>2, <1>4, <1>5, <2>1 DEF QueuedIns, QueuedDel
<1>8. Inserting' = Inserting /\ Deleting' = Deleting
  BY <1>2, <1>7 DEF Inserting, Deleting
<1>9. FollowInv'
  BY <1>1, <1>2, <1>3, <1>5, <1>8, SameUpdates
<1>10. QueueInv' /\ SetsInv' /\ DownInv'
  BY <1>1, <1>2, <1>3, <1>6 DEF IInv, Shape, QueueInv, SetsInv, DownInv
<1>11. Flows
  BY <1>2, <1>8, SameFlows
<1>12. QED BY <1>11, <1>9, <1>10 DEF IInv, Shape

LEMMA CommitKeeps ==
    ASSUME IInv, Commit
    PROVE  IInv' /\ Flows
<1>1. /\ up /\ saved' = trie /\ gone' = {}
      /\ UNCHANGED <<store, events, inserts, deletes, flight, checks, dups, asks, trie, up, cleared, tainted>>
  BY DEF Commit, volatile
<1>2. up'
  BY <1>1
<1>3. Inserting' = Inserting /\ Deleting' = Deleting
  BY <1>1 DEF Inserting, Deleting, QueuedIns, QueuedDel
<1>4. FollowInv'
  BY <1>1, <1>2, <1>3, SameUpdates DEF IInv
<1>5. QueueInv' /\ SetsInv' /\ DownInv'
  BY <1>1, <1>2 DEF IInv, Shape, QueueInv, BatchInv, SetsInv, DownInv
<1>6. Flows
  BY <1>1, <1>3, SameFlows
<1>7. QED BY <1>6, <1>4, <1>5 DEF IInv, Shape

-----------------------------------------------------------------------------
(* Shutdown, crash and restart                                             *)

\* With empty queues nothing is under way.
LEMMA IdleTypes ==
    ASSUME Idle
    PROVE  QueueInv /\ Inserting = {} /\ Deleting = {}
<1>1. events = <<>> /\ inserts = <<>> /\ deletes = {} /\ flight = NoBatch /\ checks = {} /\ dups = {} /\ asks = {}
  BY DEF Idle
<1>2. <<>> \in Seq(Evs) /\ <<>> \in Seq(Upds) /\ {} \in SUBSET Upds
  OBVIOUS
<1>3. QueueInv
  BY <1>1, <1>2, NoBatchType DEF QueueInv, BatchInv
<1>4. Range(events) = {} /\ Range(inserts) = {} /\ Range(flight.ins) = {} /\ flight.del = {}
  BY <1>1, NoBatchType, EmptyRange
<1>5. QueuedIns = {} /\ QueuedDel = {}
  BY <1>1, <1>4 DEF QueuedIns, QueuedDel
<1>6. UNION asks = {}
  BY <1>1
<1>7. QED BY <1>1, <1>3, <1>4, <1>5, <1>6, IdsOfNone DEF Inserting, Deleting

LEMMA DownKeeps ==
    ASSUME IInv, NEW S \in SUBSET Ids, S \subseteq saved \cup trie, Down(S)
    PROVE  IInv' /\ Flows
<1>1. /\ up /\ ~up' /\ up' \in BOOLEAN /\ saved' = S /\ trie' = {} /\ gone' = {} /\ store' = store /\ cleared' = cleared
      /\ tainted' = tainted \cup {k \in Ids : Pending(k) \/ ((k \in S) # (k \in trie))}
  BY DEF Down
<1>2. Idle'
  BY DEF Down, Idle
<1>3. QueueInv'
  BY <1>2, IdleTypes, PTL
<1>4. checks' = {} /\ dups' = {} /\ asks' = {}
  BY <1>2 DEF Idle
<1>5. SetsInv' /\ DownInv'
  BY <1>1, <1>2, <1>4 DEF IInv, Shape, SetsInv, DownInv
<1>6. ASSUME NEW k \in Ids \ tainted' PROVE k \in saved' <=> k \in store'
  <2>1. k \notin tainted /\ ~Pending(k) /\ (k \in S <=> k \in trie)
    BY <1>1
  <2>2. k \notin Inserting \cup Deleting
    BY <2>1, PendingIs DEF IInv, Shape
  <2>3. k \in trie <=> k \in store
    BY <1>1, <2>1, <2>2 DEF IInv, FollowInv, Follow
  <2>4. QED BY <1>1, <2>1, <2>3
<1>7. FollowInv'
  BY <1>1, <1>6 DEF FollowInv
<1>8. Flows
  <2>1. (QueueInv /\ Inserting = {} /\ Deleting = {})'
    BY <1>2, IdleTypes, PTL
  <2>2. QED BY <1>1, <2>1 DEF Flows
<1>9. QED BY <1>8, <1>3, <1>5, <1>7 DEF IInv, Shape

LEMMA StartKeeps ==
    ASSUME IInv, NEW S, clearEvents(S), UNCHANGED <<volatile, gone>>, up' = TRUE,
           trie' \in SUBSET Ids, saved' \in SUBSET Ids, trie' \subseteq saved \cup store, saved' \subseteq saved,
           \A k \in Ids \ tainted' : (k \in trie' <=> k \in store')
    PROVE  IInv' /\ Flows
<1>1. Idle /\ gone = {} /\ SetsInv /\ ~up
  BY DEF clearEvents, IInv, Shape, DownInv
<1>2. UNCHANGED <<events, inserts, deletes, flight, checks, dups, asks, busy>> /\ gone' = gone
  BY DEF volatile
<1>3. store' = S /\ S \subseteq store /\ store \ S \subseteq Events /\ cleared' = cleared \cup (store \ S)
  BY DEF clearEvents
<1>4. Idle'
  BY <1>1, <1>2 DEF Idle
<1>5. QueueInv' /\ Inserting' = {} /\ Deleting' = {}
  <2>1. (QueueInv /\ Inserting = {} /\ Deleting = {})'
    BY <1>4, IdleTypes, PTL
  <2>2. QED BY <2>1
<1>6. SetsInv' /\ DownInv'
  BY <1>1, <1>2, <1>3 DEF SetsInv, DownInv
<1>7. flight'.pc = "idle"
  BY <1>4, NoBatchType DEF Idle
<1>8. ASSUME NEW k \in Ids \ tainted' PROVE Follow(k)'
  BY <1>5, <1>7 DEF Follow
<1>9. FollowInv'
  BY <1>8 DEF FollowInv
<1>10. Flows
  BY <1>1, <1>3, <1>5 DEF Flows
<1>11. QED BY <1>10, <1>5, <1>6, <1>9 DEF IInv, Shape

-----------------------------------------------------------------------------
(* The theorems                                                            *)

LEMMA InitIInv ==
    ASSUME Init
    PROVE  IInv
<1>1. /\ Idle /\ store \in Initial /\ trie = store /\ saved = store /\ gone = {} /\ up = TRUE /\ tainted = {}
      /\ cleared = {}
  BY DEF Init
<1>2. store \subseteq Ids
  BY <1>1, SyncTrieAssumption DEF Ids
<1>3. QueueInv /\ Inserting = {} /\ Deleting = {}
  BY <1>1, IdleTypes
<1>4. SetsInv /\ DownInv
  BY <1>1, <1>2 DEF SetsInv, DownInv, Idle
<1>5. flight.pc = "idle"
  BY <1>1, NoBatchType DEF Idle
<1>6. ASSUME NEW k \in Ids PROVE Follow(k)
  BY <1>1, <1>3, <1>5 DEF Follow
<1>7. FollowInv
  BY <1>1, <1>6 DEF FollowInv
<1>8. QED BY <1>3, <1>4, <1>7 DEF IInv, Shape

LEMMA StutterKeeps ==
    ASSUME IInv, UNCHANGED vars
    PROVE  IInv' /\ Flows
<1>1. UNCHANGED <<store, events, inserts, deletes, flight, trie, saved, gone, checks, dups, asks, busy, up, cleared, tainted>>
  BY DEF vars, volatile
<1>2. Inserting' = Inserting /\ Deleting' = Deleting
  BY <1>1 DEF Inserting, Deleting, QueuedIns, QueuedDel
<1>3. QueueInv' /\ SetsInv'
  BY <1>1 DEF IInv, Shape, QueueInv, BatchInv, SetsInv
<1>4. DownInv'
  BY <1>1 DEF IInv, Shape, DownInv, Idle
<1>5. FollowInv'
  <2>1. CASE up
    <3>1. up'
      BY <1>1, <2>1
    <3>2. QED BY <1>1, <1>2, <2>1, <3>1, SameUpdates DEF IInv
  <2>2. CASE ~up
    BY <1>1, <2>2 DEF IInv, FollowInv
  <2>3. QED BY <2>1, <2>2
<1>6. Flows
  BY <1>1, <1>2, SameFlows
<1>7. QED BY <1>6, <1>3, <1>4, <1>5 DEF IInv, Shape

LEMMA NextKeepsIInv ==
    ASSUME IInv, [Next]_vars
    PROVE  IInv' /\ Flows
<1>1. ASSUME StoreChanges PROVE IInv' /\ Flows
  BY <1>1, MergeMessageKeeps, MergeCompactStateKeeps, RemoveMessageKeeps, MergeOnChainEventKeeps DEF StoreChanges
<1>2. ASSUME Handlers PROVE IInv' /\ Flows
  BY <1>2, HandleKeeps, InsertDuplicateKeeps, CheckExistsKeeps, revokeSyncIdsKeeps DEF Handlers
<1>3. ASSUME BatchUpdate PROVE IInv' /\ Flows
  BY <1>3, BatchInsertsKeeps, BatchDeletesKeeps, NextBatchKeeps DEF BatchUpdate
<1>4. CASE Commit
  BY <1>4, CommitKeeps
<1>5. ASSUME Syncs PROVE IInv' /\ Flows
  BY <1>5, SyncFindsMessageKeeps, SyncFindsEventKeeps DEF Syncs
<1>6. ASSUME Doubts PROVE IInv' /\ Flows
  BY <1>6, revokeCorruptedSyncIdsKeeps DEF Doubts
<1>7. CASE BatchFails
  BY <1>7, BatchFailsKeeps
<1>8. CASE Stop
  <2>1. PICK S : S = trie
    OBVIOUS
  <2>2. Down(S) /\ S \in SUBSET Ids /\ S \subseteq saved \cup trie
    BY <1>8, <2>1 DEF Stop, Down, IInv, Shape, SetsInv
  <2>3. QED BY <2>2, DownKeeps
<1>9. CASE Crash
  <2>1. PICK S : S = saved
    OBVIOUS
  <2>2. Down(S) /\ S \in SUBSET Ids /\ S \subseteq saved \cup trie
    BY <1>9, <2>1 DEF Crash, Down, IInv, Shape, SetsInv
  <2>3. QED BY <2>2, DownKeeps
<1>10. ASSUME NEW S, Start(S) PROVE IInv' /\ Flows
  <2>1. clearEvents(S) /\ UNCHANGED <<volatile, gone>> /\ up' = TRUE /\ trie' = saved /\ saved' = saved
        /\ tainted' = tainted \cup (store \ S)
    BY <1>10 DEF Start
  <2>2. ~up /\ store' = S /\ S \subseteq store
    BY <2>1 DEF clearEvents
  <2>3. saved \in SUBSET Ids /\ \A k \in Ids \ tainted' : (k \in saved <=> k \in store')
    BY <2>1, <2>2 DEF IInv, Shape, SetsInv, FollowInv
  <2>4. QED BY <2>1, <2>3, StartKeeps
<1>11. ASSUME NEW S, StartRebuild(S) PROVE IInv' /\ Flows
  <2>1. clearEvents(S) /\ UNCHANGED <<volatile, gone>> /\ up' = TRUE /\ trie' = S /\ saved' = {}
    BY <1>11 DEF StartRebuild
  <2>2. store' = S /\ S \subseteq store
    BY <2>1 DEF clearEvents
  <2>3. S \in SUBSET Ids /\ \A k \in Ids \ tainted' : (k \in trie' <=> k \in store')
    BY <2>1, <2>2 DEF IInv, Shape, SetsInv
  <2>4. QED BY <2>1, <2>2, <2>3, StartKeeps
<1>12. CASE UNCHANGED vars
  BY <1>12, StutterKeeps
<1>13. ASSUME NEW asked \in Asked, PeerAsks(asked) PROVE IInv' /\ Flows
  BY <1>13, PeerAsksKeeps
<1>14. QED BY <1>1, <1>2, <1>3, <1>4, <1>5, <1>6, <1>7, <1>8, <1>9, <1>10, <1>11, <1>12, <1>13 DEF Next, Starts

LEMMA IInvAlways == Spec => []IInv
<1>1. Init => IInv
  BY InitIInv
<1>2. IInv /\ [Next]_vars => IInv'
  BY NextKeepsIInv
<1>3. QED BY <1>1, <1>2, PTL DEF Spec

\* Type correctness: the queues hold updates of known ids, an id deleted since the last
\* commit is not in the trie, and nothing is left under way by a hub that is down.
THEOREM TypeCorrect == Spec => []TypeOK
<1>1. ASSUME IInv PROVE TypeOK
  <2>1. QueueInv /\ SetsInv /\ DownInv
    BY <1>1 DEF IInv, Shape
  <2>2. Range(inserts) \cup deletes \in SUBSET Upds
    BY <2>1, BatchType DEF QueueInv, BatchInv
  <2>3. IdsOf(Range(inserts) \cup deletes) \subseteq Ids
    BY <2>2, IdsTyped
  <2>4. flight.pc \in {"idle", "insert", "delete", "sleep"}
    BY <2>1 DEF QueueInv, BatchInv, Batches
  <2>5. QED BY <2>1, <2>3, <2>4 DEF SetsInv, DownInv, TypeOK
<1>2. QED BY <1>1, IInvAlways, PTL

\* An id whose updates never overlapped or got lost, and that was not revoked in place of
\* another, is in the trie just when it is in the store, once none of its updates is under way: doBatchUpdate, the handlers that delete
\* what a merge replaced after its insert, the repairs by a sync and by a peer's request
\* and the restarts keep that for every id, however the updates of other ids fall.
THEOREM TrieFollowsStore == Spec => []FollowsStore
<1>1. ASSUME IInv PROVE FollowsStore
  <2>1. SUFFICES ASSUME up, NEW k \in Ids \ tainted, ~Pending(k) PROVE k \in trie <=> k \in store
    BY DEF FollowsStore
  <2>2. k \notin Inserting \cup Deleting
    BY <1>1, <2>1, PendingIs DEF IInv, Shape
  <2>3. Follow(k)
    BY <1>1, <2>1 DEF IInv, FollowInv
  <2>4. QED BY <2>2, <2>3 DEF Follow
<1>2. QED BY <1>1, IInvAlways, PTL

\* No batch moves the trie of a running hub away from its store: what doBatchUpdate inserts
\* is still in the store and what it deletes is not, for an id whose updates never overlapped
\* and that findCorruptedSyncIDs did not take for another.
THEOREM BatchesMoveTowardStore == Spec => MovesTowardStore
<1>1. ASSUME IInv, [Next]_vars
      PROVE  up /\ up' => \A k \in Ids \ tainted' :
                 (k \in trie) # (k \in trie') => (k \in trie' <=> k \in store')
  <2>1. SUFFICES ASSUME up, up', NEW k \in Ids \ tainted', (k \in trie) # (k \in trie')
                 PROVE  k \in trie' <=> k \in store'
    OBVIOUS
  <2>2. Flows
    BY <1>1, NextKeepsIInv
  <2>3. k \notin tainted /\ store' = store
    BY <2>1, <2>2 DEF Flows
  <2>4. (k \in Inserting => k \in store) /\ (k \in Deleting => k \notin store)
    BY <1>1, <2>1, <2>3 DEF IInv, FollowInv, Follow
  <2>5. CASE k \in trie'
    <3>1. k \in Inserting
      BY <2>1, <2>2, <2>5 DEF Flows
    <3>2. QED BY <2>3, <2>4, <2>5, <3>1
  <2>6. CASE k \notin trie'
    <3>1. k \in trie \ trie'
      BY <2>1, <2>6
    <3>2. k \in Deleting
      BY <2>1, <2>2, <3>1 DEF Flows
    <3>3. QED BY <2>3, <2>4, <2>6, <3>2
  <2>7. QED BY <2>5, <2>6
<1>2. QED BY <1>1, IInvAlways, PTL DEF Spec, MovesTowardStore

-----------------------------------------------------------------------------
(* On-chain events: nothing but --l2-clear-events takes one out of the     *)
(* store, so that no overlap and no loss puts the id of another in the     *)
(* trie.                                                                   *)

EventInv == (trie \cup saved \cup Inserting) \cap Events \subseteq store \cup cleared

LEMMA InitEventInv ==
    ASSUME Init
    PROVE  EventInv
<1>1. Idle /\ trie = store /\ saved = store
  BY DEF Init
<1>2. Inserting = {} /\ Deleting = {}
  BY <1>1, IdleTypes
<1>3. QED BY <1>1, <1>2 DEF EventInv

LEMMA NextKeepsEventInv ==
    ASSUME IInv, EventInv, [Next]_vars
    PROVE  EventInv'
<1>1. Flows
  BY NextKeepsIInv
<1>2. trie' \cap Events \subseteq store' \cup cleared' /\ saved' \cap Events \subseteq store' \cup cleared'
  BY <1>1 DEF Flows, EventInv
<1>3. Inserting' \cap Events \subseteq store' \cup cleared'
  BY <1>1 DEF Flows, EventInv
<1>4. QED BY <1>2, <1>3 DEF EventInv

LEMMA EventInvAlways == Spec => []EventInv
<1>1. Init => EventInv
  BY InitEventInv
<1>2. IInv /\ EventInv /\ [Next]_vars => EventInv'
  BY NextKeepsEventInv
<1>3. QED BY <1>1, <1>2, IInvAlways, PTL DEF Spec

\* Whatever overlaps, fails, is lost or revoked, the trie of a hub and what it saved of it
\* name no on-chain event but those in its store and those that --l2-clear-events deleted
\* and the chain still has to give back: revokeCorruptedSyncIds has no others to find.
THEOREM TrieNamesStoredEvents == Spec => []EventsAreStored
<1>1. EventInv => EventsAreStored
  BY DEF EventInv, EventsAreStored
<1>2. QED BY <1>1, EventInvAlways, PTL
===============================================================================
