----------------------- MODULE LinkReplicationProofs -----------------------
(***************************************************************************)
(* Proofs about LinkReplication for every set of hubs, link types, targets, *)
(* links and compact states, hubs that start with a legacy entry included. *)
(***************************************************************************)
EXTENDS LinkReplication, MessageOrderProofs

-----------------------------------------------------------------------------
(* One operation on one store.                                             *)

\* What the replication relies on of one store, through every operation.
StoreInv(s) == s \in LinkStoreType /\ LinksConsistent(s) /\ NothingRuledOut(s)

\* index without the entries of the messages of D that are of the type is_type.
DropFrom(index, D, is_type(_)) ==
    [k \in Keys |-> IF \E d \in D : is_type(d) /\ d.key = k THEN None ELSE index[k]]

\* A delete of stored messages, whatever they are, leaves a consistent store.
LEMMA DeleteKeepsStore ==
    ASSUME NEW s, StoreInv(s), NEW D \in SUBSET s.msgs
    PROVE  /\ StoreInv(delete_many_transaction(s, D))
           /\ delete_many_transaction(s, D).msgs = s.msgs \ D
           /\ delete_many_transaction(s, D).compact = s.compact
<1> DEFINE t == delete_many_transaction(s, D)
<1> USE MessagesAssumption, NoneAssumption
<1>1. s \in LinkStoreType /\ LinksConsistent(s) /\ NothingRuledOut(s)
  BY DEF StoreInv
<1>2. /\ t.msgs = s.msgs \ D /\ t.byTarget = s.byTarget \ D
      /\ t.adds = DropFrom(s.adds, D, is_add_type)
      /\ t.oldAdds = DropFrom(s.oldAdds, D, is_add_type)
      /\ t.removes = DropFrom(s.removes, D, is_remove_type)
      /\ t.oldRemoves = DropFrom(s.oldRemoves, D, is_remove_type)
      /\ t.compact = s.compact
  BY <1>1 DEF delete_many_transaction, LinkStoreType, DropFrom
<1>3. t \in LinkStoreType
  BY <1>1 DEF delete_many_transaction, LinkStoreType, Index
<1> HIDE DEF t
<1>4. /\ s.msgs \subseteq Messages
      /\ s.adds \in Index /\ s.oldAdds \in Index /\ s.removes \in Index /\ s.oldRemoves \in Index
  BY <1>1 DEF LinkStoreType
<1>5. \A x \in s.msgs : /\ x.key \in Keys /\ x.type \in {"add", "remove"}
                        /\ EntriesFor(s, x) = {x}
  BY <1>1, <1>4 DEF LinksConsistent
<1>6. LinksConsistent(t)
  <2>1. ASSUME NEW k \in Keys, NEW e \in Messages, e \in {t.adds[k], t.oldAdds[k]}
        PROVE  e \in t.msgs /\ e.key = k /\ is_add_type(e)
    <3>1. e \in {s.adds[k], s.oldAdds[k]} /\ ~\E d \in D : is_add_type(d) /\ d.key = k
      BY <1>2, <2>1 DEF DropFrom
    <3>2. e \in s.msgs /\ e.key = k /\ is_add_type(e)
      BY <1>1, <3>1 DEF LinksConsistent
    <3> QED
      BY <1>2, <3>1, <3>2
  <2>2. ASSUME NEW k \in Keys, NEW e \in Messages, e \in {t.removes[k], t.oldRemoves[k]}
        PROVE  e \in t.msgs /\ e.key = k /\ is_remove_type(e)
    <3>1. e \in {s.removes[k], s.oldRemoves[k]} /\ ~\E d \in D : is_remove_type(d) /\ d.key = k
      BY <1>2, <2>2 DEF DropFrom
    <3>2. e \in s.msgs /\ e.key = k /\ is_remove_type(e)
      BY <1>1, <3>1 DEF LinksConsistent
    <3> QED
      BY <1>2, <3>1, <3>2
  <2>3. ASSUME NEW x \in t.msgs
        PROVE  EntriesFor(t, x) = {x}
    <3>1. x \in s.msgs /\ x \notin D
      BY <1>2
    <3>2. \A d \in D : d.key # x.key
      <4> SUFFICES ASSUME NEW d \in D, d.key = x.key
                   PROVE  d = x
        BY <3>1
      <4>1. EntriesFor(s, d) = EntriesFor(s, x)
        BY DEF EntriesFor
      <4> QED
        BY <1>5, <3>1, <4>1
    <3>3. /\ t.adds[x.key] = s.adds[x.key] /\ t.oldAdds[x.key] = s.oldAdds[x.key]
          /\ t.removes[x.key] = s.removes[x.key] /\ t.oldRemoves[x.key] = s.oldRemoves[x.key]
      BY <1>2, <1>5, <3>1, <3>2 DEF DropFrom
    <3> QED
      BY <1>5, <3>1, <3>3 DEF EntriesFor
  <2>4. t.byTarget = {x \in t.msgs : is_add_type(x)}
    BY <1>1, <1>2 DEF LinksConsistent
  <2> QED
    BY <2>1, <2>2, <2>3, <2>4 DEF LinksConsistent
<1>7. NothingRuledOut(t)
  BY <1>1, <1>2 DEF NothingRuledOut, ruled_out
<1> QED
  BY <1>2, <1>3, <1>6, <1>7 DEF StoreInv, t

\* The conflicts of a link are all the stored messages about its key, and they rank
\* lower than a link that is not refused.
LEMMA ConflictsAreTheKey ==
    ASSUME NEW s, StoreInv(s), NEW m \in Messages, CanMerge(s, m)
    PROVE  /\ get_merge_conflicts(s, m) = {x \in s.msgs : x.key = m.key}
           /\ EntriesFor(s, m) \subseteq s.msgs
           /\ \A x \in s.msgs : x.key = m.key => Beats(m, x)
<1> USE MessagesAssumption, NoneAssumption
<1>1. s \in LinkStoreType /\ LinksConsistent(s) /\ m.key \in Keys
  BY DEF StoreInv
<1>2. /\ s.msgs \subseteq Messages
      /\ s.adds \in Index /\ s.oldAdds \in Index /\ s.removes \in Index /\ s.oldRemoves \in Index
  BY <1>1 DEF LinkStoreType
<1>3. \A e \in EntriesFor(s, m) : e \in s.msgs /\ e.key = m.key
  <2> SUFFICES ASSUME NEW e \in EntriesFor(s, m)
               PROVE  e \in s.msgs /\ e.key = m.key
    OBVIOUS
  <2>1. e \in Messages
    BY <1>1, <1>2 DEF EntriesFor, Index
  <2> QED
    BY <1>1, <2>1 DEF EntriesFor, LinksConsistent
<1>4. ASSUME NEW x \in s.msgs, x.key = m.key
      PROVE  x \in EntriesFor(s, m)
  <2>1. EntriesFor(s, x) = EntriesFor(s, m)
    BY <1>4 DEF EntriesFor
  <2> QED
    BY <1>1, <2>1 DEF LinksConsistent
<1>5. ASSUME NEW x \in s.msgs, x.key = m.key
      PROVE  Beats(m, x)
  <2>1. ~(message_compare(x, m) >= 0)
    BY <1>4, <1>5 DEF CanMerge, is_refused
  <2>2. message_compare(x, m) < 0
    BY <1>2, <2>1, CompareRange
  <2> QED
    BY <1>2, <1>5, <2>2, CompareAntisymmetric DEF Beats
<1> QED
  BY <1>3, <1>4, <1>5 DEF get_merge_conflicts

\* merge_add and merge_remove replace every message about the key of the link, in
\* whichever form it was indexed, and keep the store consistent and compacted.
LEMMA MergeKeepsStore ==
    ASSUME NEW s, StoreInv(s), NEW m \in Messages, CanMerge(s, m)
    PROVE  /\ StoreInv(merge(s, m))
           /\ merge(s, m).msgs = {x \in s.msgs : x.key # m.key} \cup {m}
           /\ merge(s, m).compact = s.compact
<1> DEFINE D == get_merge_conflicts(s, m)
           t == delete_many_transaction(s, D)
           u == merge(s, m)
<1> USE MessagesAssumption, NoneAssumption
<1>1. D = {x \in s.msgs : x.key = m.key}
  BY ConflictsAreTheKey
<1>2. m.key \in Keys /\ m.type \in {"add", "remove"}
  OBVIOUS
<1> HIDE DEF D
<1>3. /\ t \in LinkStoreType /\ LinksConsistent(t) /\ NothingRuledOut(t)
      /\ t.msgs = {x \in s.msgs : x.key # m.key}
      /\ t.compact = s.compact
  BY <1>1, DeleteKeepsStore DEF StoreInv
<1>4. u = put_transaction(t, m)
  BY DEF merge, D
<1> HIDE DEF t, u
<1>5. EntriesFor(t, m) = {}
  <2>1. \A e \in Messages : e \in EntriesFor(t, m) => e \in t.msgs /\ e.key = m.key
    BY <1>2, <1>3 DEF EntriesFor, LinksConsistent
  <2>2. EntriesFor(t, m) \subseteq Messages
    BY <1>2, <1>3 DEF EntriesFor, LinkStoreType, Index
  <2> QED
    BY <1>3, <2>1, <2>2
<1>6. /\ t.adds \in Index /\ t.oldAdds \in Index /\ t.removes \in Index /\ t.oldRemoves \in Index
      /\ t.msgs \subseteq Messages
  BY <1>3 DEF LinkStoreType
<1>7. /\ u \in LinkStoreType
      /\ u.msgs = t.msgs \cup {m}
      /\ u.byTarget = t.byTarget \cup {x \in {m} : is_add_type(x)}
      /\ u.adds = IF is_add_type(m) THEN [t.adds EXCEPT ![m.key] = m] ELSE t.adds
      /\ u.removes = IF is_add_type(m) THEN t.removes ELSE [t.removes EXCEPT ![m.key] = m]
      /\ u.oldAdds = t.oldAdds /\ u.oldRemoves = t.oldRemoves
      /\ u.compact = t.compact
  BY <1>2, <1>3, <1>4 DEF put_transaction, LinkStoreType, Index
<1>8. LinksConsistent(u)
  <2>1. ASSUME NEW k \in Keys, NEW e \in Messages, e \in {u.adds[k], u.oldAdds[k]}
        PROVE  e \in u.msgs /\ e.key = k /\ is_add_type(e)
    <3>1. e \in {t.adds[k], t.oldAdds[k]} \/ (e = m /\ k = m.key /\ is_add_type(m))
      BY <1>6, <1>7, <2>1 DEF Index
    <3> QED
      BY <1>3, <1>7, <3>1 DEF LinksConsistent
  <2>2. ASSUME NEW k \in Keys, NEW e \in Messages, e \in {u.removes[k], u.oldRemoves[k]}
        PROVE  e \in u.msgs /\ e.key = k /\ is_remove_type(e)
    <3>1. e \in {t.removes[k], t.oldRemoves[k]} \/ (e = m /\ k = m.key /\ is_remove_type(m))
      BY <1>2, <1>6, <1>7, <2>2 DEF Index, is_add_type, is_remove_type
    <3> QED
      BY <1>3, <1>7, <3>1 DEF LinksConsistent
  <2>3. EntriesFor(u, m) = {m}
    BY <1>2, <1>5, <1>6, <1>7 DEF EntriesFor, Index
  <2>4. ASSUME NEW x \in t.msgs
        PROVE  EntriesFor(u, x) = {x}
    <3>1. x.key # m.key /\ EntriesFor(t, x) = {x}
      BY <1>3 DEF LinksConsistent
    <3>2. u.adds[x.key] = t.adds[x.key] /\ u.removes[x.key] = t.removes[x.key]
      BY <1>6, <1>7, <3>1 DEF Index
    <3> QED
      BY <1>7, <3>1, <3>2 DEF EntriesFor
  <2>5. u.byTarget = {x \in u.msgs : is_add_type(x)}
    BY <1>3, <1>7 DEF LinksConsistent
  <2> QED
    BY <1>7, <2>1, <2>2, <2>3, <2>4, <2>5 DEF LinksConsistent
<1>9. NothingRuledOut(u)
  BY <1>3, <1>7 DEF NothingRuledOut, ruled_out, CanMerge
<1> QED
  BY <1>3, <1>7, <1>8, <1>9 DEF StoreInv, u

\* merge_compact_state: the scan deletes all that the new compact state rules out, so
\* that the store is consistent and compacted under the new compact state too.
LEMMA CompactKeepsStore ==
    ASSUME NEW s, StoreInv(s), NEW c \in Compacts
    PROVE  /\ StoreInv(merge_compact_state(s, c))
           /\ merge_compact_state(s, c).compact = [s.compact EXCEPT ![c.type] = c]
<1> DEFINE D == compact_conflicts(s, c)
           t == delete_many_transaction(s, D)
           u == merge_compact_state(s, c)
<1> USE MessagesAssumption, CompactsAssumption, NoneAssumption
<1>1. D \subseteq s.msgs
  BY DEF compact_conflicts
<1> HIDE DEF D
<1>2. /\ t \in LinkStoreType /\ LinksConsistent(t) /\ NothingRuledOut(t)
      /\ t.msgs = s.msgs \ D
      /\ t.compact = s.compact
  BY <1>1, DeleteKeepsStore DEF StoreInv
<1>3. u = [t EXCEPT !.compact[c.type] = c]
  BY DEF merge_compact_state, D
<1> HIDE DEF t, u
<1>4. c.type \in Types /\ c.ts \in Nat /\ c # None
  OBVIOUS
<1>5. /\ u \in LinkStoreType
      /\ u.msgs = t.msgs /\ u.byTarget = t.byTarget
      /\ u.adds = t.adds /\ u.removes = t.removes
      /\ u.oldAdds = t.oldAdds /\ u.oldRemoves = t.oldRemoves
      /\ u.compact = [t.compact EXCEPT ![c.type] = c]
  BY <1>2, <1>3, <1>4 DEF LinkStoreType
<1>6. LinksConsistent(u)
  BY <1>2, <1>5 DEF LinksConsistent, EntriesFor
<1>7. NothingRuledOut(u)
  <2> SUFFICES ASSUME NEW m \in u.msgs, ruled_out(u, m)
               PROVE  FALSE
    BY DEF NothingRuledOut
  <2>1. m \in Messages /\ m \in s.msgs /\ m \in t.msgs /\ m \notin D
    BY <1>2, <1>5 DEF LinkStoreType
  <2>2. m.ts \in Nat /\ m.type \in {"add", "remove"}
    BY <2>1
  <2>3. t.compact \in [Types -> Compacts \cup {None}]
    BY <1>2 DEF LinkStoreType
  <2>4. CASE linkType(m) = c.type
    <3>1. m.ts < c.ts /\ (is_add_type(m) => targetFid(m) \notin c.targets)
      BY <1>4, <1>5, <2>3, <2>4 DEF ruled_out
    <3> QED
      BY <1>4, <2>1, <2>2, <3>1 DEF compact_conflicts, D, is_add_type, is_remove_type
  <2>5. CASE linkType(m) # c.type
    <3>1. u.compact[linkType(m)] = t.compact[linkType(m)]
      BY <1>5, <2>3, <2>5, <2>1, LinkKeysAssumption DEF linkType
    <3> QED
      BY <1>2, <2>1, <3>1 DEF NothingRuledOut, ruled_out
  <2> QED
    BY <2>4, <2>5
<1> QED
  BY <1>2, <1>5, <1>6, <1>7 DEF StoreInv, u

\* A hub that starts with at most one link of an early version starts consistent.
LEMMA LegacyStoreInv ==
    ASSUME NEW Old \in {{}} \cup {{m} : m \in Legacy}
    PROVE  StoreInv(LegacyStore(Old))
<1> DEFINE s == LegacyStore(Old)
<1> USE MessagesAssumption, NoneAssumption
<1>1. CASE Old = {}
  <2>1. /\ s.msgs = {} /\ s.byTarget = {} /\ s.adds = NoEntries /\ s.removes = NoEntries
        /\ s.oldAdds = NoEntries /\ s.oldRemoves = NoEntries /\ s.compact = [t \in Types |-> None]
        /\ s \in LinkStoreType
    BY <1>1 DEF LegacyStore, NoEntries, LinkStoreType, Index
  <2> QED
    BY <2>1 DEF StoreInv, LinksConsistent, NothingRuledOut, NoEntries, EntriesFor
<1>2. CASE \E m \in Legacy : Old = {m}
  <2>1. PICK m \in Messages : Old = {m}
    BY <1>2, LegacyAssumption
  <2>2. m.key \in Keys /\ m.type \in {"add", "remove"}
    OBVIOUS
  <2>3. \A k \in Keys : m.key = k => (CHOOSE x \in {m} : x.key = k) = m
    OBVIOUS
  <2>4. /\ s.msgs = {m} /\ s.byTarget = {x \in {m} : is_add_type(x)}
        /\ s.adds = NoEntries /\ s.removes = NoEntries
        /\ s.oldAdds = [k \in Keys |-> IF k = m.key /\ is_add_type(m) THEN m ELSE None]
        /\ s.oldRemoves = [k \in Keys |-> IF k = m.key /\ is_remove_type(m) THEN m ELSE None]
        /\ s.compact = [t \in Types |-> None]
    BY <2>1, <2>3 DEF LegacyStore
  <2>5. s = [msgs |-> s.msgs, byTarget |-> s.byTarget, adds |-> s.adds, removes |-> s.removes,
             oldAdds |-> s.oldAdds, oldRemoves |-> s.oldRemoves, compact |-> s.compact]
    BY DEF LegacyStore
  <2> HIDE DEF s
  <2>6. s \in LinkStoreType
    BY <2>4, <2>5 DEF LinkStoreType, Index, NoEntries
  <2>7. LinksConsistent(s)
    <3>1. /\ s.adds[m.key] = None /\ s.removes[m.key] = None
          /\ {s.oldAdds[m.key], s.oldRemoves[m.key]} = {m, None}
      <4>1. s.adds[m.key] = None /\ s.removes[m.key] = None
        BY <2>2, <2>4 DEF NoEntries
      <4>2. CASE m.type = "add"
        BY <2>2, <2>4, <4>1, <4>2 DEF is_add_type, is_remove_type
      <4>3. CASE m.type = "remove"
        <5>1. s.oldAdds[m.key] = None /\ s.oldRemoves[m.key] = m
          BY <2>2, <2>4, <4>3 DEF is_add_type, is_remove_type
        <5> QED
          BY <4>1, <5>1
      <4> QED
        BY <2>2, <4>1, <4>2, <4>3
    <3>2. EntriesFor(s, m) = {m}
      BY <3>1 DEF EntriesFor
    <3>3. \A k \in Keys, e \in Messages :
             /\ e \in {s.adds[k], s.oldAdds[k]} => e = m /\ k = m.key /\ is_add_type(m)
             /\ e \in {s.removes[k], s.oldRemoves[k]} => e = m /\ k = m.key /\ is_remove_type(m)
      BY <2>4 DEF NoEntries
    <3> QED
      BY <2>4, <3>2, <3>3 DEF LinksConsistent
  <2>8. NothingRuledOut(s)
    BY <2>2, <2>4, LinkKeysAssumption DEF NothingRuledOut, ruled_out, linkType
  <2> QED
    BY <2>6, <2>7, <2>8 DEF StoreInv, s
<1> QED
  BY <1>1, <1>2

-----------------------------------------------------------------------------
(* The hubs.                                                               *)

\* What the history says of a store s: a compaction deletes up to its own second, and the
\* compact state that did it, or a newer one, is still there.
HistoryInv(s, H) ==
    /\ H \subseteq Messages \X Compacts
    /\ \A m \in Messages, c \in Compacts : <<m, c>> \in H =>
          /\ m.ts <= c.ts
          /\ is_add_type(m) => targetFid(m) \notin c.targets
          /\ s.compact[c.type] # None
          /\ s.compact[c.type] = c \/ s.compact[c.type].ts > c.ts

\* The inductive invariant: what a peer hands over is a link it holds, hence a message,
\* every store satisfies its invariant, and the history fits the compact states.
IInv ==
    /\ store \in [Hubs -> LinkStoreType]
    /\ gossip \subseteq Messages \cup Compacts
    /\ compacted = [h \in Hubs |-> compacted[h]]
    /\ \A h \in Hubs : StoreInv(store[h]) /\ HistoryInv(store[h], compacted[h])

\* What a step does to the stores: a merge of a link or of a compact state on one hub.
MergeStep ==
    \E h \in Hubs :
        \/ \E m \in Messages : MergeLinkAt(h, m)
        \/ \E c \in Compacts : MergeCompactAt(h, c)

\* Submission, gossip and sync differ only in where a message comes from: whatever
\* the step, one hub merges one link or one compact state.
LEMMA StepsAreMerges ==
    ASSUME IInv, Next
    PROVE  /\ MergeStep
           /\ gossip' \subseteq Messages \cup Compacts
BY DEF IInv, Next, MergeStep, SubmitLink, ReceiveLink, SubmitCompact, ReceiveCompact, SyncLink

\* A compact state that is merged deletes links up to its own second and takes the place of
\* an older one of its type only.
LEMMA HistoryStep ==
    ASSUME NEW s, StoreInv(s), NEW H, HistoryInv(s, H), NEW c \in Compacts,
           CanMergeCompact(s, c),
           NEW u, u.compact = [s.compact EXCEPT ![c.type] = c]
    PROVE  HistoryInv(u, H \cup (compact_conflicts(s, c) \X {c}))
<1> DEFINE D == compact_conflicts(s, c)
           G == H \cup (D \X {c})
<1> USE MessagesAssumption, CompactsAssumption, NoneAssumption
<1>1. /\ s.compact \in [Types -> Compacts \cup {None}] /\ s.msgs \subseteq Messages
      /\ c.type \in Types /\ c.ts \in Nat /\ c # None
  BY DEF StoreInv, LinkStoreType
<1>2. \A m \in D : m \in Messages /\ m.ts <= c.ts /\ (is_add_type(m) => targetFid(m) \notin c.targets)
  BY <1>1 DEF compact_conflicts, is_add_type, is_remove_type
<1>3. u.compact[c.type] = c /\ \A t \in Types \ {c.type} : u.compact[t] = s.compact[t]
  BY <1>1
<1>4. s.compact[c.type] # None => s.compact[c.type] \in Compacts /\ s.compact[c.type].ts < c.ts
  BY <1>1 DEF CanMergeCompact
<1> HIDE DEF D
<1>5. G \subseteq Messages \X Compacts
  BY <1>2 DEF HistoryInv
<1>6. ASSUME NEW m \in Messages, NEW d \in Compacts, <<m, d>> \in G
      PROVE  /\ m.ts <= d.ts
             /\ is_add_type(m) => targetFid(m) \notin d.targets
             /\ u.compact[d.type] # None
             /\ u.compact[d.type] = d \/ u.compact[d.type].ts > d.ts
  <2>1. CASE <<m, d>> \in D \X {c}
    BY <1>1, <1>2, <1>3, <2>1
  <2>2. CASE <<m, d>> \in H
    <3>1. /\ m.ts <= d.ts
          /\ is_add_type(m) => targetFid(m) \notin d.targets
          /\ s.compact[d.type] # None
          /\ s.compact[d.type] = d \/ s.compact[d.type].ts > d.ts
      BY <2>2 DEF HistoryInv
    <3>2. d.type \in Types /\ d.ts \in Nat
      OBVIOUS
    <3>3. CASE d.type = c.type
      BY <1>1, <1>3, <1>4, <3>1, <3>2, <3>3
    <3>4. CASE d.type # c.type
      BY <1>3, <3>1, <3>2, <3>4
    <3> QED
      BY <3>3, <3>4
  <2> QED
    BY <1>6, <2>1, <2>2
<1> QED
  BY <1>5, <1>6 DEF HistoryInv, D

\* IInv is an inductive invariant of the specification.
LEMMA Invariance == Spec => []IInv
<1>1. Init => IInv
  <2> SUFFICES ASSUME Init
               PROVE  IInv
    OBVIOUS
  <2>1. \A h \in Hubs : StoreInv(store[h])
    <3> SUFFICES ASSUME NEW h \in Hubs
                 PROVE  StoreInv(store[h])
      OBVIOUS
    <3>1. PICK Old \in {{}} \cup {{m} : m \in Legacy} : store[h] = LegacyStore(Old)
      BY Zenon DEF Init
    <3> QED
      BY <3>1, LegacyStoreInv
  <2>2. \A h \in Hubs : store[h] \in LinkStoreType
    BY <2>1 DEF StoreInv
  <2>3. store = [h \in Hubs |-> store[h]] /\ gossip = {}
    BY Zenon DEF Init
  <2>5. /\ compacted = [h \in Hubs |-> compacted[h]]
        /\ \A h \in Hubs : HistoryInv(store[h], compacted[h])
    BY DEF Init, HistoryInv
  <2>4. store \in [Hubs -> LinkStoreType]
    BY <2>2, <2>3
  <2> QED
    BY <2>1, <2>3, <2>4, <2>5 DEF IInv
<1>2. IInv /\ [Next]_vars => IInv'
  <2> SUFFICES ASSUME IInv, [Next]_vars
               PROVE  IInv'
    OBVIOUS
  <2>1. CASE Next
    <3>1. PICK h \in Hubs : \/ \E m \in Messages : MergeLinkAt(h, m)
                            \/ \E c \in Compacts : MergeCompactAt(h, c)
      BY <2>1, StepsAreMerges DEF MergeStep
    <3>2. StoreInv(store[h])
      BY DEF IInv
    <3>3. PICK t : store' = [store EXCEPT ![h] = t] /\ StoreInv(t)
      <4>1. CASE \E m \in Messages : MergeLinkAt(h, m)
        BY <3>2, <4>1, MergeKeepsStore DEF MergeLinkAt
      <4>2. CASE \E c \in Compacts : MergeCompactAt(h, c)
        <5>1. PICK c \in Compacts : MergeCompactAt(h, c)
          BY <4>2
        <5>2. StoreInv(merge_compact_state(store[h], c))
          BY <3>2, CompactKeepsStore
        <5> QED
          BY <5>1, <5>2 DEF MergeCompactAt
      <4> QED
        BY <3>1, <4>1, <4>2
    <3>4. t \in LinkStoreType
      BY <3>3 DEF StoreInv
    <3>5. gossip' \subseteq Messages \cup Compacts
      BY <2>1, StepsAreMerges
    <3>6. store' \in [Hubs -> LinkStoreType] /\ \A g \in Hubs : StoreInv(store'[g])
      BY <3>3, <3>4 DEF IInv
    <3>7. /\ compacted' = [g \in Hubs |-> compacted'[g]]
          /\ \A g \in Hubs : HistoryInv(store'[g], compacted'[g])
      <4>1. CASE \E m \in Messages : MergeLinkAt(h, m)
        <5>1. PICK m \in Messages : MergeLinkAt(h, m)
          BY <4>1
        <5>2. /\ store' = [store EXCEPT ![h] = merge(store[h], m)] /\ compacted' = compacted
              /\ merge(store[h], m).compact = store[h].compact
          BY <3>2, <5>1, MergeKeepsStore DEF MergeLinkAt
        <5>3. \A g \in Hubs : store'[g].compact = store[g].compact
          BY <5>2 DEF IInv
        <5> QED
          BY <5>2, <5>3 DEF IInv, HistoryInv
      <4>2. CASE \E c \in Compacts : MergeCompactAt(h, c)
        <5>1. PICK c \in Compacts : MergeCompactAt(h, c)
          BY <4>2
        <5> DEFINE u == merge_compact_state(store[h], c)
                   D == compact_conflicts(store[h], c)
        <5>2. /\ CanMergeCompact(store[h], c)
              /\ store' = [store EXCEPT ![h] = u]
              /\ compacted' = [compacted EXCEPT ![h] = compacted[h] \cup (D \X {c})]
          BY <5>1 DEF MergeCompactAt
        <5>3. u.compact = [store[h].compact EXCEPT ![c.type] = c]
          BY <3>2, CompactKeepsStore
        <5>4. HistoryInv(u, compacted[h] \cup (D \X {c}))
          BY <3>2, <5>2, <5>3, HistoryStep DEF IInv
        <5> HIDE DEF u, D
        <5>5. \A g \in Hubs \ {h} : store'[g] = store[g] /\ compacted'[g] = compacted[g]
          BY <5>2 DEF IInv
        <5>6. store'[h] = u /\ compacted'[h] = compacted[h] \cup (D \X {c})
          BY <5>2 DEF IInv
        <5>7. compacted' = [g \in Hubs |-> compacted'[g]]
          BY <5>2 DEF IInv
        <5> QED
          BY <5>4, <5>5, <5>6, <5>7 DEF IInv
      <4> QED
        BY <3>1, <4>1, <4>2
    <3> QED
      BY <3>5, <3>6, <3>7 DEF IInv
  <2>2. CASE UNCHANGED vars
    BY <2>2 DEF IInv, vars
  <2> QED
    BY <2>1, <2>2
<1> QED
  BY <1>1, <1>2, PTL DEF Spec

\* Every hub's store keeps its type, and the gossip topic carries links and compact
\* states only.
THEOREM TypeCorrect == Spec => []TypeOK
<1>1. IInv => TypeOK
  BY DEF IInv, TypeOK, HistoryInv
<1> QED
  BY <1>1, Invariance, PTL

\* Padded, unpadded, by-target and primary entries never disagree, on any hub, with any
\* number of hubs, link types, links and compact states.
THEOREM IndicesNeverDisagree == Spec => []IndicesConsistent
<1>1. IInv => IndicesConsistent
  BY DEF IInv, StoreInv, IndicesConsistent
<1> QED
  BY <1>1, Invariance, PTL

\* A link that a compaction deleted comes back only through one of the three gaps that
\* CompactionIsFinal names, whatever is submitted, replayed or synced and in what order.
THEOREM NothingComesBack == Spec => []CompactionIsFinal
<1>1. IInv => CompactionIsFinal
  <2> SUFFICES ASSUME IInv, NEW h \in Hubs, NEW m \in store[h].msgs, NEW c \in Compacts,
                      <<m, c>> \in compacted[h], m.ts # c.ts, linkType(m) = c.type
               PROVE  /\ is_add_type(m)
                      /\ store[h].compact[c.type].ts > c.ts
                      /\ targetFid(m) \in store[h].compact[c.type].targets
    BY DEF CompactionIsFinal
  <2> USE MessagesAssumption, CompactsAssumption, NoneAssumption
  <2>1. m \in Messages /\ ~ruled_out(store[h], m)
    BY DEF IInv, StoreInv, LinkStoreType, NothingRuledOut
  <2> DEFINE d == store[h].compact[c.type]
  <2>2. /\ m.ts <= c.ts /\ (is_add_type(m) => targetFid(m) \notin c.targets)
        /\ d # None /\ (d = c \/ d.ts > c.ts)
    BY <2>1 DEF IInv, HistoryInv
  <2>3. d \in Compacts
    BY <2>2 DEF IInv, LinkStoreType
  <2>4. m.ts \in Nat /\ c.ts \in Nat /\ d.ts \in Nat /\ m.type \in {"add", "remove"}
    BY <2>1, <2>3
  <2> HIDE DEF d
  <2>5. m.ts < d.ts
    BY <2>2, <2>4
  <2>6. is_add_type(m) /\ targetFid(m) \in d.targets
    BY <2>1, <2>2, <2>5 DEF ruled_out, d
  <2> QED
    BY <2>2, <2>6 DEF d
<1> QED
  BY <1>1, Invariance, PTL

\* The entries about a key point at the one stored message about it.
LEMMA EntriesAreStored ==
    ASSUME NEW s, StoreInv(s), NEW m \in Messages
    PROVE  /\ \A e \in EntriesFor(s, m) : e \in s.msgs /\ e \in Messages /\ e.key = m.key
           /\ \A x, y \in s.msgs : x.key = y.key => x = y
<1> USE MessagesAssumption, NoneAssumption
<1>1. s \in LinkStoreType /\ LinksConsistent(s) /\ m.key \in Keys
  BY DEF StoreInv
<1>2. /\ s.msgs \subseteq Messages
      /\ s.adds \in Index /\ s.oldAdds \in Index /\ s.removes \in Index /\ s.oldRemoves \in Index
  BY <1>1 DEF LinkStoreType
<1>3. ASSUME NEW e \in EntriesFor(s, m)
      PROVE  e \in s.msgs /\ e \in Messages /\ e.key = m.key
  <2>1. e \in Messages
    BY <1>1, <1>2 DEF EntriesFor, Index
  <2> QED
    BY <1>1, <2>1 DEF EntriesFor, LinksConsistent
<1>4. ASSUME NEW x \in s.msgs, NEW y \in s.msgs, x.key = y.key
      PROVE  x = y
  <2>1. EntriesFor(s, x) = EntriesFor(s, y)
    BY <1>4 DEF EntriesFor
  <2> QED
    BY <1>1, <2>1 DEF LinksConsistent
<1> QED
  BY <1>3, <1>4

\* A link of another store that can not be merged is ruled out by the compact state, or
\* there is a stored link about its key that beats it.
LEMMA NotMergedIsBeaten ==
    ASSUME NEW s, StoreInv(s), NEW m \in Messages \ s.msgs, ~CanMerge(s, m), ~ruled_out(s, m)
    PROVE  \E e \in s.msgs : Beats(e, m)
<1>1. PICK e \in EntriesFor(s, m) : message_compare(e, m) >= 0
  BY DEF CanMerge, is_refused
<1>2. e \in s.msgs /\ e \in Messages /\ e.key = m.key
  BY EntriesAreStored
<1>3. message_compare(e, m) # 0
  BY <1>2, CompareRange
<1>4. message_compare(e, m) > 0
  BY <1>1, <1>2, <1>3, CompareRange
<1> QED
  BY <1>2, <1>4 DEF Beats

\* Sync of links is never stuck (NoSyncDeadEnd): where two hubs hold the same compact
\* state and differ, one of them merges a link of the other.
THEOREM SyncNeverStuck == Spec => []NoSyncDeadEnd
<1> USE MessagesAssumption
<1>1. ASSUME IInv, NEW h \in Hubs, NEW g \in Hubs, NEW t \in Types,
             store[h].compact[t] = store[g].compact[t],
             \A m \in store[g].msgs \ store[h].msgs : linkType(m) = t => ~CanMerge(store[h], m),
             \A m \in store[h].msgs \ store[g].msgs : linkType(m) = t => ~CanMerge(store[g], m),
             NEW m \in store[g].msgs, linkType(m) = t
      PROVE  m \in store[h].msgs
  <2> SUFFICES ASSUME m \notin store[h].msgs
               PROVE  FALSE
    OBVIOUS
  <2>1. StoreInv(store[h]) /\ StoreInv(store[g])
    BY <1>1 DEF IInv
  <2>2. store[h].msgs \subseteq Messages /\ store[g].msgs \subseteq Messages
    BY <2>1 DEF StoreInv, LinkStoreType
  <2>3. ~ruled_out(store[h], m)
    BY <1>1, <2>1 DEF StoreInv, NothingRuledOut, ruled_out
  <2>4. PICK e \in store[h].msgs : Beats(e, m)
    BY <1>1, <2>1, <2>2, <2>3, NotMergedIsBeaten
  <2>5. e.key = m.key /\ linkType(e) = t /\ e # m /\ e \in Messages
    BY <1>1, <2>2, <2>4 DEF Beats, linkType
  <2>6. e \notin store[g].msgs
    BY <1>1, <2>1, <2>5, EntriesAreStored
  <2>7. ~ruled_out(store[g], e)
    BY <1>1, <2>1, <2>5 DEF StoreInv, NothingRuledOut, ruled_out
  <2>8. PICK f \in store[g].msgs : Beats(f, e)
    BY <1>1, <2>1, <2>5, <2>6, <2>7, NotMergedIsBeaten
  <2>9. f = m
    BY <1>1, <2>1, <2>5, <2>8, EntriesAreStored DEF Beats
  <2> QED
    BY <2>2, <2>4, <2>8, <2>9, CompareAntisymmetric, CompareRange DEF Beats
<1>2. ASSUME IInv PROVE NoSyncDeadEnd
  <2> DEFINE links(x, t) == {m \in store[x].msgs : linkType(m) = t}
  <2> SUFFICES ASSUME NEW h \in Hubs, NEW g \in Hubs, NEW t \in Types,
                      store[h].compact[t] = store[g].compact[t],
                      \A m \in links(g, t) \ links(h, t) : ~CanMerge(store[h], m),
                      \A m \in links(h, t) \ links(g, t) : ~CanMerge(store[g], m)
               PROVE  links(h, t) = links(g, t)
    BY DEF NoSyncDeadEnd
  <2>1. /\ \A m \in store[g].msgs \ store[h].msgs : linkType(m) = t => ~CanMerge(store[h], m)
        /\ \A m \in store[h].msgs \ store[g].msgs : linkType(m) = t => ~CanMerge(store[g], m)
    OBVIOUS
  <2>2. \A m \in store[g].msgs : linkType(m) = t => m \in store[h].msgs
    BY <1>1, <1>2, <2>1
  <2>3. \A m \in store[h].msgs : linkType(m) = t => m \in store[g].msgs
    BY <1>1, <1>2, <2>1
  <2> QED
    BY <2>2, <2>3
<1>3. IInv => NoSyncDeadEnd
  BY <1>2
<1> QED
  BY <1>3, Invariance, PTL

\* Compact states only ever give way to newer ones, and a link only to one that ranks
\* higher or to a compaction.
THEOREM OnlyForward == Spec => StepsForward
<1> DEFINE Forward(s, u) ==
             /\ \A t \in Types : s.compact[t] # None =>
                   u.compact[t] = s.compact[t] \/ u.compact[t].ts > s.compact[t].ts
             /\ \A m \in s.msgs \ u.msgs : (\E n \in u.msgs : Beats(n, m)) \/ u.compact # s.compact
<1>1. ASSUME IInv, Next
      PROVE  \A h \in Hubs : Forward(store[h], store'[h])
  <2> USE MessagesAssumption, CompactsAssumption, NoneAssumption
  <2>1. PICK h \in Hubs : \/ \E m \in Messages : MergeLinkAt(h, m)
                          \/ \E c \in Compacts : MergeCompactAt(h, c)
    BY <1>1, StepsAreMerges DEF MergeStep
  <2>2. StoreInv(store[h]) /\ store \in [Hubs -> LinkStoreType]
    BY <1>1 DEF IInv
  <2>3. CASE \E m \in Messages : MergeLinkAt(h, m)
    <3>1. PICK m \in Messages : MergeLinkAt(h, m)
      BY <2>3
    <3>2. CanMerge(store[h], m) /\ store' = [store EXCEPT ![h] = merge(store[h], m)]
      BY <3>1 DEF MergeLinkAt
    <3>3. /\ merge(store[h], m).msgs = {x \in store[h].msgs : x.key # m.key} \cup {m}
          /\ merge(store[h], m).compact = store[h].compact
      BY <2>2, <3>2, MergeKeepsStore
    <3>4. \A x \in store[h].msgs : x.key = m.key => Beats(m, x)
      BY <2>2, <3>2, ConflictsAreTheKey
    <3>5. Forward(store[h], merge(store[h], m))
      BY <3>3, <3>4
    <3>6. \A s : Forward(s, s)
      OBVIOUS
    <3> HIDE DEF Forward
    <3> QED
      BY <2>2, <3>2, <3>5, <3>6
  <2>4. CASE \E c \in Compacts : MergeCompactAt(h, c)
    <3>1. PICK c \in Compacts : MergeCompactAt(h, c)
      BY <2>4
    <3>2. CanMergeCompact(store[h], c) /\ store' = [store EXCEPT ![h] = merge_compact_state(store[h], c)]
      BY <3>1 DEF MergeCompactAt
    <3>3. merge_compact_state(store[h], c).compact = [store[h].compact EXCEPT ![c.type] = c]
      BY <2>2, CompactKeepsStore
    <3>4. store[h].compact \in [Types -> Compacts \cup {None}]
      BY <2>2 DEF LinkStoreType
    <3>5. c.type \in Types /\ c.ts \in Nat /\ c # None
      OBVIOUS
    <3>6. store[h].compact[c.type] = None \/ c.ts > store[h].compact[c.type].ts
      BY <3>2, <3>4, <3>5 DEF CanMergeCompact
    <3>7. store[h].compact[c.type] # c
      BY <3>4, <3>5, <3>6
    <3>8. merge_compact_state(store[h], c).compact # store[h].compact
      BY <3>3, <3>4, <3>5, <3>7
    <3>9. Forward(store[h], merge_compact_state(store[h], c))
      BY <3>3, <3>4, <3>5, <3>6, <3>8
    <3>10. \A s : Forward(s, s)
      OBVIOUS
    <3> HIDE DEF Forward
    <3> QED
      BY <2>2, <3>2, <3>9, <3>10
  <2> QED
    BY <2>1, <2>3, <2>4
<1>2. ASSUME IInv, Next
      PROVE  \A h \in Hubs :
               /\ \A t \in Types : store[h].compact[t] # None =>
                     \/ store'[h].compact[t] = store[h].compact[t]
                     \/ store'[h].compact[t].ts > store[h].compact[t].ts
               /\ \A m \in store[h].msgs \ store'[h].msgs :
                     \/ \E n \in store'[h].msgs : Beats(n, m)
                     \/ store'[h].compact # store[h].compact
  BY <1>1, <1>2
<1> QED
  BY <1>2, Invariance, PTL DEF Spec, StepsForward
=============================================================================
