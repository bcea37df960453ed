---------------------- MODULE MessageReplicationProofs ----------------------
(***************************************************************************)
(* Proofs about MessageReplication for every set of hubs, keys and         *)
(* messages and for both message orders.                                   *)
(***************************************************************************)
EXTENDS MessageReplication, MessageOrderProofs

-----------------------------------------------------------------------------
(* One merge on one store.                                                 *)

\* At most one message rules a key: the add set and the remove set are disjoint.
OneRuling(s) == \A k \in Keys : s.adds[k] = None \/ s.removes[k] = None

\* s holds only members of S, and whatever it does not hold of S is beaten by
\* something it holds.
Covers(s, S) ==
    /\ s.msgs \subseteq S
    /\ \A m \in S : \E n \in s.msgs : n = m \/ Beats(n, m)

StoreInv(s, S) ==
    /\ s \in Store
    /\ IndexConsistent(s)
    /\ OneRuling(s)
    /\ Covers(s, S)

\* What an accepted merge does to a consistent store, all index writes and
\* deletes taken together: m replaces every message about its key.
LEMMA MergeEffect ==
    ASSUME NEW s \in Store, IndexConsistent(s), OneRuling(s),
           NEW m \in Messages, merge_check(s, m) = "ok"
    PROVE  /\ merge(s, m).msgs = {x \in s.msgs : x.key # m.key} \cup {m}
           /\ merge(s, m).adds =
                [s.adds EXCEPT ![m.key] = IF is_add_type(m) THEN m ELSE None]
           /\ merge(s, m).removes =
                [s.removes EXCEPT ![m.key] = IF is_add_type(m) THEN None ELSE m]
           /\ merge(s, m).byTarget =
                {x \in s.byTarget : x.key # m.key} \cup {x \in {m} : is_add_type(x)}
           /\ merge(s, m) \in Store
           /\ \A x \in s.msgs : x.key = m.key => Beats(m, x)
<1> USE MessagesAssumption, NoneAssumption
<1>1. m.key \in Keys /\ m.type \in {"add", "remove"}
  OBVIOUS
<1>2. ~RefusedBy(s.removes, m) /\ ~RefusedBy(s.adds, m)
  BY DEF merge_check
<1>3. \A x \in s.msgs : x \in Messages /\ x.type \in {"add", "remove"}
  BY DEF Store
<1>4. \A x \in s.msgs : x.key = m.key => Beats(m, x)
  <2> SUFFICES ASSUME NEW x \in s.msgs, x.key = m.key
               PROVE  Beats(m, x)
    OBVIOUS
  <2>1. x = s.adds[m.key] \/ x = s.removes[m.key]
    BY <1>3 DEF IndexConsistent
  <2>2. message_compare(x, m) < 0
    BY <1>2, <1>3, <2>1, CompareRange DEF RefusedBy
  <2> QED
    BY <1>3, <2>2, CompareAntisymmetric DEF Beats
<1> DEFINE D == get_merge_conflicts(s, m)
           t == delete_many_transaction(s, D)
<1>5. D = {x \in s.msgs : x.key = m.key}
  BY <1>1, <1>3 DEF get_merge_conflicts, ConflictIn, IndexConsistent
<1>6. /\ t.msgs = {x \in s.msgs : x.key # m.key}
      /\ t.byTarget = {x \in s.byTarget : x.key # m.key}
  <2>1. s.byTarget \subseteq s.msgs
    BY DEF IndexConsistent
  <2> QED
    BY <1>5, <2>1 DEF delete_many_transaction
<1>7. t.adds = [s.adds EXCEPT ![m.key] = None]
  <2>1. s.adds[m.key] # None => s.adds[m.key] \in D /\ is_add_type(s.adds[m.key])
                                /\ s.adds[m.key].key = m.key
    BY <1>1, <1>5 DEF IndexConsistent
  <2>2. \A d \in D : d.key = m.key
    BY <1>5
  <2> HIDE DEF D
  <2>3. t.adds = [k \in Keys |-> IF \E d \in D : is_add_type(d) /\ d.key = k
                               THEN None ELSE s.adds[k]]
    BY DEF delete_many_transaction
  <2> HIDE DEF t
  <2> QED
    BY <2>1, <2>2, <2>3 DEF Store
<1>8. t.removes = [s.removes EXCEPT ![m.key] = None]
  <2>1. s.removes[m.key] # None => s.removes[m.key] \in D /\ is_remove_type(s.removes[m.key])
                                /\ s.removes[m.key].key = m.key
    BY <1>1, <1>5 DEF IndexConsistent
  <2>2. \A d \in D : d.key = m.key
    BY <1>5
  <2> HIDE DEF D
  <2>3. t.removes = [k \in Keys |-> IF \E d \in D : is_remove_type(d) /\ d.key = k
                               THEN None ELSE s.removes[k]]
    BY DEF delete_many_transaction
  <2> HIDE DEF t
  <2> QED
    BY <2>1, <2>2, <2>3 DEF Store
<1>9. merge(s, m) = put_transaction(t, m)
  BY DEF merge
<1> HIDE DEF D, t
<1> QED
  BY <1>1, <1>4, <1>6, <1>7, <1>8, <1>9
     DEF put_transaction, put_add_transaction, put_remove_transaction, Store, is_add_type

\* An accepted merge keeps the store consistent and covers one message more.
LEMMA MergeAccepted ==
    ASSUME NEW s, NEW S \in SUBSET Messages, StoreInv(s, S),
           NEW m \in Messages, merge_check(s, m) = "ok"
    PROVE  StoreInv(merge(s, m), S \cup {m})
<1> DEFINE t == merge(s, m)
<1> USE MessagesAssumption, NoneAssumption
<1>1. s \in Store /\ IndexConsistent(s) /\ OneRuling(s) /\ Covers(s, S)
  BY DEF StoreInv
<1>2. /\ t.msgs = {x \in s.msgs : x.key # m.key} \cup {m}
      /\ t.adds = [s.adds EXCEPT ![m.key] = IF is_add_type(m) THEN m ELSE None]
      /\ t.removes = [s.removes EXCEPT ![m.key] = IF is_add_type(m) THEN None ELSE m]
      /\ t.byTarget = {x \in s.byTarget : x.key # m.key} \cup {x \in {m} : is_add_type(x)}
      /\ t \in Store
      /\ \A x \in s.msgs : x.key = m.key => Beats(m, x)
  BY <1>1, MergeEffect
<1> HIDE DEF t
<1>3. s.msgs \subseteq Messages /\ s.adds \in [Keys -> Messages \cup {None}]
      /\ s.removes \in [Keys -> Messages \cup {None}]
  BY <1>1 DEF Store
<1>4. m.key \in Keys /\ m.type \in {"add", "remove"}
  OBVIOUS
<1>5. IndexConsistent(t)
  <2>1. \A k \in Keys : t.adds[k] # None =>
           t.adds[k] \in t.msgs /\ t.adds[k].key = k /\ is_add_type(t.adds[k])
    BY <1>1, <1>2, <1>3 DEF IndexConsistent
  <2>2. \A k \in Keys : t.removes[k] # None =>
           t.removes[k] \in t.msgs /\ t.removes[k].key = k /\ is_remove_type(t.removes[k])
    BY <1>1, <1>2, <1>3, <1>4 DEF IndexConsistent, is_add_type, is_remove_type
  <2>3. \A x \in t.msgs : IF is_add_type(x) THEN t.adds[x.key] = x
                                            ELSE t.removes[x.key] = x
    BY <1>1, <1>2, <1>3, <1>4 DEF IndexConsistent
  <2>4. t.byTarget = {x \in t.msgs : is_add_type(x)}
    BY <1>1, <1>2 DEF IndexConsistent
  <2> QED
    BY <2>1, <2>2, <2>3, <2>4 DEF IndexConsistent
<1>6. OneRuling(t)
  BY <1>1, <1>2, <1>3, <1>4 DEF OneRuling
<1>7. Covers(t, S \cup {m})
  <2>1. t.msgs \subseteq S \cup {m}
    BY <1>1, <1>2 DEF Covers
  <2>2. ASSUME NEW x \in S
        PROVE  \E n \in t.msgs : n = x \/ Beats(n, x)
    <3>1. PICK w \in s.msgs : w = x \/ Beats(w, x)
      BY <1>1 DEF Covers
    <3>2. CASE w.key # m.key
      BY <1>2, <3>1, <3>2
    <3>3. CASE w.key = m.key
      <4>1. Beats(m, w)
        BY <1>2, <3>3
      <4>2. Beats(m, x)
        BY <1>3, <3>1, <4>1, CompareTransitive DEF Beats
      <4> QED
        BY <1>2, <4>2
    <3> QED
      BY <3>2, <3>3
  <2> QED
    BY <1>2, <2>1, <2>2 DEF Covers
<1> QED
  BY <1>2, <1>5, <1>6, <1>7 DEF StoreInv, t

\* A refused message is held already or beaten by a message that is held, so a
\* refusal loses nothing.
LEMMA MergeRefused ==
    ASSUME NEW s, NEW S \in SUBSET Messages, StoreInv(s, S),
           NEW m \in Messages, merge_check(s, m) # "ok"
    PROVE  StoreInv(s, S \cup {m})
<1> USE MessagesAssumption, NoneAssumption
<1>1. s \in Store /\ IndexConsistent(s) /\ OneRuling(s) /\ Covers(s, S)
  BY DEF StoreInv
<1>2. m.key \in Keys
  OBVIOUS
<1>3. PICK n \in {s.removes[m.key], s.adds[m.key]} : n # None /\ message_compare(n, m) >= 0
  BY DEF merge_check, RefusedBy
<1>4. n \in s.msgs /\ n \in Messages /\ n.key = m.key
  BY <1>1, <1>2, <1>3 DEF IndexConsistent, Store
<1>5. n = m \/ Beats(n, m)
  BY <1>3, <1>4, CompareRange DEF Beats
<1>6. Covers(s, S \cup {m})
  BY <1>1, <1>4, <1>5 DEF Covers
<1> QED
  BY <1>1, <1>6 DEF StoreInv

\* A store that covers S holds exactly the winners of S.
LEMMA CoveringStoreIsWinners ==
    ASSUME NEW s, NEW S \in SUBSET Messages, StoreInv(s, S)
    PROVE  s.msgs = Winners(S)
<1> USE MessagesAssumption
<1>1. s \in Store /\ IndexConsistent(s) /\ OneRuling(s) /\ Covers(s, S)
  BY DEF StoreInv
<1>2. s.msgs \subseteq Messages
  BY <1>1 DEF Store
<1>3. \A x, y \in s.msgs : x.key = y.key => x = y
  BY <1>1, <1>2, NoneAssumption DEF IndexConsistent, OneRuling
<1>4. ASSUME NEW m \in s.msgs
      PROVE  m \in Winners(S)
  <2> SUFFICES ASSUME NEW n \in S, Beats(n, m)
               PROVE  FALSE
    BY <1>1 DEF Winners, Covers
  <2>1. PICK w \in s.msgs : w = n \/ Beats(w, n)
    BY <1>1 DEF Covers
  <2>2. w = m
    BY <1>3, <2>1 DEF Beats
  <2>3. n.key = m.key /\ message_compare(n, m) > 0 /\ (m = n \/ message_compare(m, n) > 0)
    BY <2>1, <2>2 DEF Beats
  <2> QED
    BY <1>2, <2>3, CompareAntisymmetric, CompareRange
<1>5. ASSUME NEW m \in Winners(S)
      PROVE  m \in s.msgs
  <2>1. m \in S /\ \A n \in S : ~Beats(n, m)
    BY DEF Winners
  <2> QED
    BY <1>1, <2>1 DEF Covers
<1> QED
  BY <1>4, <1>5
-----------------------------------------------------------------------------
(* The replication protocol.                                               *)

\* The inductive invariant.  StoreIsWinners alone does not say why a message is
\* absent; Covers does, and survives the merge that replaces its witness.
IInv ==
    /\ gossip \subseteq Messages
    /\ offered \in [Hubs -> SUBSET Messages]
    /\ store \in [Hubs -> Store]
    /\ \A h \in Hubs : StoreInv(store[h], offered[h])

\* Every way in which a message reaches a hub keeps the invariant's store part.
LEMMA MergeAtPreserves ==
    ASSUME IInv, NEW h \in Hubs, NEW m \in Messages, MergeAt(h, m)
    PROVE  /\ offered' \in [Hubs -> SUBSET Messages]
           /\ store' \in [Hubs -> Store]
           /\ \A g \in Hubs : StoreInv(store'[g], offered'[g])
<1>1. offered' = [offered EXCEPT ![h] = @ \cup {m}]
  BY DEF MergeAt
<1>2. offered' \in [Hubs -> SUBSET Messages] /\ offered'[h] = offered[h] \cup {m}
      /\ \A g \in Hubs \ {h} : offered'[g] = offered[g]
  BY <1>1 DEF IInv
<1>3. StoreInv(store[h], offered[h]) /\ offered[h] \in SUBSET Messages
  BY DEF IInv
<1>4. CASE merge_check(store[h], m) = "ok"
  <2>1. StoreInv(merge(store[h], m), offered[h] \cup {m})
    BY <1>3, <1>4, MergeAccepted
  <2>2. merge(store[h], m) \in Store
    BY <2>1 DEF StoreInv
  <2>3. /\ store' = [store EXCEPT ![h] = merge(store[h], m)]
        /\ store' \in [Hubs -> Store]
        /\ store'[h] = merge(store[h], m)
        /\ \A g \in Hubs \ {h} : store'[g] = store[g]
    BY <1>4, <2>2 DEF MergeAt, IInv
  <2> QED
    BY <1>2, <2>1, <2>3 DEF IInv
<1>5. CASE merge_check(store[h], m) # "ok"
  <2>1. StoreInv(store[h], offered[h] \cup {m})
    BY <1>3, <1>5, MergeRefused
  <2>2. store' = store
    BY <1>5 DEF MergeAt
  <2> QED
    BY <1>2, <2>1, <2>2 DEF IInv
<1> QED
  BY <1>4, <1>5

\* The hubs start with empty stores and no history, which satisfies the invariant.
LEMMA InitIInv == Init => IInv
<1> SUFFICES ASSUME Init PROVE IInv
  OBVIOUS
<1>1. EmptyStore \in Store
  BY DEF EmptyStore, Store
<1>2. StoreInv(EmptyStore, {})
  BY <1>1 DEF StoreInv, EmptyStore, IndexConsistent, OneRuling, Covers
<1> QED
  BY <1>1, <1>2 DEF Init, IInv

\* Submitting, gossiping and syncing all keep the invariant: each is one merge.
LEMMA NextIInv == IInv /\ [Next]_vars => IInv'
<1> SUFFICES ASSUME IInv, [Next]_vars PROVE IInv'
  OBVIOUS
<1>1. ASSUME NEW h \in Hubs, NEW m \in Messages, SubmitRpc(h, m) PROVE IInv'
  BY <1>1, MergeAtPreserves DEF SubmitRpc, IInv
<1>2. ASSUME NEW h \in Hubs, NEW m \in Messages, ReceiveGossip(h, m) PROVE IInv'
  BY <1>2, MergeAtPreserves DEF ReceiveGossip, IInv
<1>3. ASSUME NEW h \in Hubs, NEW g \in Hubs, NEW m \in Messages, Sync(h, g, m) PROVE IInv'
  BY <1>3, MergeAtPreserves DEF Sync, IInv
<1>4. CASE UNCHANGED vars
  BY <1>4 DEF vars, IInv
<1> QED
  BY <1>1, <1>2, <1>3, <1>4 DEF Next

\* The inductive invariant holds of every behaviour.
THEOREM Inductive == Spec => []IInv
BY InitIInv, NextIInv, PTL DEF Spec

\* Stores, gossip topic and history stay well typed.
THEOREM TypeCorrect == Spec => []TypeOK
<1>1. IInv => TypeOK
  BY DEF IInv, TypeOK
<1> QED
  BY <1>1, Inductive, PTL

\* Strong convergence (StoreIsWinners), for any number of hubs, keys and
\* messages: whatever is lost, repeated or reordered on the way, a hub holds
\* the winners of what it was offered.
THEOREM StrongConvergence == Spec => []StoreIsWinners
<1>1. IInv => StoreIsWinners
  BY CoveringStoreIsWinners DEF IInv, StoreIsWinners
<1> QED
  BY <1>1, Inductive, PTL

\* message_compare is the documented ranking, in the stores and in the cast store.
LEMMA CompareIsDocumented ==
    ASSUME NEW a \in Messages, NEW b \in Messages, message_compare(a, b) > 0
    PROVE  Outranks(a, b)
BY MessagesAssumption
   DEF Outranks, message_compare, cast_message_compare, default_message_compare,
       type_compare, bytes_compare, is_add_type, is_remove_type

\* No message is ever missing for another reason than the documented ones
\* (FollowsDocumentedRules): nothing a hub was offered is lost.
THEOREM RulesFollowed == Spec => []FollowsDocumentedRules
<1>1. IInv => FollowsDocumentedRules
  <2> SUFFICES ASSUME IInv, NEW h \in Hubs, NEW m \in offered[h]
               PROVE  \E n \in store[h].msgs : n.key = m.key /\ (n = m \/ Outranks(n, m))
    BY DEF FollowsDocumentedRules
  <2>1. m \in Messages /\ store[h].msgs \subseteq Messages
    BY DEF IInv, Store
  <2>2. PICK n \in store[h].msgs : n = m \/ Beats(n, m)
    BY DEF IInv, StoreInv, Covers
  <2>3. n \in Messages
    BY <2>1
  <2> QED
    BY <2>1, <2>2, <2>3, CompareIsDocumented DEF Beats
<1> QED
  BY <1>1, Inductive, PTL

\* The indices of store.rs never disagree with the primary entries.
THEOREM IndicesNeverDisagree == Spec => []IndicesConsistent
<1>1. IInv => IndicesConsistent
  BY DEF IInv, StoreInv, IndicesConsistent
<1> QED
  BY <1>1, Inductive, PTL
-----------------------------------------------------------------------------
(* Sync is never stuck.                                                    *)

\* A refused message is held, or beaten by something that is held.
LEMMA RefusalHasWitness ==
    ASSUME NEW s, NEW S \in SUBSET Messages, StoreInv(s, S),
           NEW m \in Messages, merge_check(s, m) # "ok"
    PROVE  \E n \in s.msgs : n = m \/ Beats(n, m)
BY MergeRefused DEF StoreInv, Covers

\* A consistent store holds at most one message about a key.
LEMMA OneMessagePerKey ==
    ASSUME NEW s, NEW S \in SUBSET Messages, StoreInv(s, S),
           NEW x \in s.msgs, NEW y \in s.msgs, x.key = y.key
    PROVE  x = y
BY MessagesAssumption, NoneAssumption DEF StoreInv, Store, IndexConsistent, OneRuling

\* If t's messages are all refused by s, and s's by t, s has all of t's messages.
LEMMA MutualRefusal ==
    ASSUME NEW s, NEW S \in SUBSET Messages, StoreInv(s, S),
           NEW t, NEW T \in SUBSET Messages, StoreInv(t, T),
           \A m \in t.msgs : merge_check(s, m) # "ok",
           \A m \in s.msgs : merge_check(t, m) # "ok"
    PROVE  t.msgs \subseteq s.msgs
<1> SUFFICES ASSUME NEW m \in t.msgs PROVE m \in s.msgs
  OBVIOUS
<1>1. s.msgs \subseteq Messages /\ t.msgs \subseteq Messages
  BY DEF StoreInv, Store
<1>2. PICK n \in s.msgs : n = m \/ Beats(n, m)
  BY <1>1, RefusalHasWitness
<1>3. PICK w \in t.msgs : w = n \/ Beats(w, n)
  BY <1>1, RefusalHasWitness
<1>4. w.key = m.key
  BY <1>2, <1>3 DEF Beats
<1>5. w = m
  BY <1>4, OneMessagePerKey
<1> QED
  BY <1>1, <1>2, <1>3, <1>5, CompareAntisymmetric, CompareRange DEF Beats

\* The messages determine the rest of a consistent store.
LEMMA MessagesDetermineStore ==
    ASSUME NEW s, NEW S \in SUBSET Messages, StoreInv(s, S),
           NEW t, NEW T \in SUBSET Messages, StoreInv(t, T),
           s.msgs = t.msgs
    PROVE  s = t
<1> USE MessagesAssumption, NoneAssumption
<1>1. s \in Store /\ t \in Store /\ IndexConsistent(s) /\ IndexConsistent(t)
  BY DEF StoreInv
<1>2. ASSUME NEW k \in Keys PROVE s.adds[k] = t.adds[k]
  BY <1>1 DEF IndexConsistent
<1>3. ASSUME NEW k \in Keys PROVE s.removes[k] = t.removes[k]
  BY <1>1 DEF IndexConsistent, is_add_type, is_remove_type
<1>4. s.adds = t.adds /\ s.removes = t.removes
  BY <1>1, <1>2, <1>3 DEF Store
<1>5. s.byTarget = t.byTarget
  BY <1>1 DEF IndexConsistent
<1> QED
  BY <1>1, <1>4, <1>5 DEF Store

\* Two hubs with nothing left to merge from each other have equal stores
\* (NoSyncDeadEnd): a difference always leaves sync something to do.
THEOREM SyncNeverStuck == Spec => []NoSyncDeadEnd
<1>1. ASSUME IInv PROVE NoSyncDeadEnd
  <2> SUFFICES ASSUME NEW h \in Hubs, NEW g \in Hubs,
                      \A m \in store[g].msgs : merge_check(store[h], m) # "ok",
                      \A m \in store[h].msgs : merge_check(store[g], m) # "ok"
               PROVE  store[h] = store[g]
    BY DEF NoSyncDeadEnd
  <2>1. /\ StoreInv(store[h], offered[h]) /\ offered[h] \in SUBSET Messages
        /\ StoreInv(store[g], offered[g]) /\ offered[g] \in SUBSET Messages
    BY <1>1 DEF IInv
  <2>2. store[g].msgs \subseteq store[h].msgs
    BY <2>1, MutualRefusal
  <2>3. store[h].msgs \subseteq store[g].msgs
    BY <2>1, MutualRefusal
  <2>4. store[h].msgs = store[g].msgs
    BY <2>2, <2>3
  <2> QED
    BY <2>1, <2>4, MessagesDetermineStore
<1>2. IInv => NoSyncDeadEnd
  BY <1>1
<1> QED
  BY <1>2, Inductive, PTL

\* Order and repetition of deliveries leave no trace, in the indices either
\* (SameOffersSameStore).
THEOREM OrderLeavesNoTrace == Spec => []SameOffersSameStore
<1>1. ASSUME IInv PROVE SameOffersSameStore
  <2> SUFFICES ASSUME NEW h \in Hubs, NEW g \in Hubs, offered[h] = offered[g]
               PROVE  store[h] = store[g]
    BY DEF SameOffersSameStore
  <2>1. /\ StoreInv(store[h], offered[h]) /\ offered[h] \in SUBSET Messages
        /\ StoreInv(store[g], offered[g]) /\ offered[g] \in SUBSET Messages
    BY <1>1 DEF IInv
  <2>2. store[h].msgs = store[g].msgs
    BY <2>1, CoveringStoreIsWinners
  <2> QED
    BY <2>1, <2>2, MessagesDetermineStore
<1>2. IInv => SameOffersSameStore
  BY <1>1
<1> QED
  BY <1>2, Inductive, PTL

-----------------------------------------------------------------------------
(* Agreement is stable.                                                    *)

\* What is on the gossip topic was merged by some hub.
GossipInv == \A m \in gossip : \E h \in Hubs : m \in offered[h]

\* GossipInv holds after every step: only submitMessage publishes, once it has merged.
LEMMA GossipStep == IInv /\ GossipInv /\ [Next]_vars => GossipInv'
<1> SUFFICES ASSUME IInv, GossipInv, [Next]_vars PROVE GossipInv'
  OBVIOUS
<1>1. ASSUME NEW h \in Hubs, NEW m \in Messages, MergeAt(h, m)
      PROVE  m \in offered'[h] /\ \A g \in Hubs : offered[g] \subseteq offered'[g]
  BY <1>1 DEF MergeAt, IInv
<1>2. ASSUME NEW h \in Hubs, NEW m \in Messages, SubmitRpc(h, m) PROVE GossipInv'
  <2>1. gossip' \subseteq gossip \cup {m}
    BY <1>2 DEF SubmitRpc
  <2> QED
    BY <1>1, <1>2, <2>1 DEF SubmitRpc, GossipInv
<1>3. ASSUME NEW h \in Hubs, NEW m \in Messages, MergeAt(h, m), gossip' = gossip PROVE GossipInv'
  BY <1>1, <1>3 DEF GossipInv
<1>4. CASE UNCHANGED vars
  BY <1>4 DEF vars, GossipInv
<1> QED
  BY <1>2, <1>3, <1>4 DEF Next, ReceiveGossip, Sync

\* A store refuses what it was offered before, and what another store with the same
\* messages was offered.
LEMMA OfferedIsRefused ==
    ASSUME NEW s, NEW S \in SUBSET Messages, StoreInv(s, S), NEW m \in S
    PROVE  merge_check(s, m) # "ok"
<1> USE MessagesAssumption, NoneAssumption
<1>1. s \in Store /\ IndexConsistent(s) /\ Covers(s, S) /\ m \in Messages
  BY DEF StoreInv
<1>2. PICK n \in s.msgs : n = m \/ Beats(n, m)
  BY <1>1 DEF Covers
<1>3. n \in Messages /\ n.key = m.key /\ n # None
  BY <1>1, <1>2 DEF Store, Beats
<1>4. n = s.adds[m.key] \/ n = s.removes[m.key]
  BY <1>1, <1>2, <1>3 DEF IndexConsistent
<1>5. message_compare(n, m) >= 0
  BY <1>1, <1>2, <1>3, CompareRange DEF Beats
<1> QED
  BY <1>3, <1>4, <1>5 DEF merge_check, RefusedBy

\* Once the hubs agree, gossip and sync have nothing left to change (AgreementIsStable):
\* what is still under way was merged by a hub whose store is everyone's store.
THEOREM AgreementLasts == Spec => AgreementIsStable
<1> DEFINE A == Agreement => store' = store \/ \E h \in Hubs, m \in Messages : SubmitRpc(h, m)
<1>1. ASSUME IInv, GossipInv, [Next]_vars
      PROVE  A
  <2> SUFFICES ASSUME Agreement
               PROVE  store' = store \/ \E h \in Hubs, m \in Messages : SubmitRpc(h, m)
    OBVIOUS
  <2>1. ASSUME NEW h \in Hubs, NEW g \in Hubs, NEW m \in offered[g], MergeAt(h, m)
        PROVE  store' = store
    <3>1. StoreInv(store[g], offered[g]) /\ offered[g] \in SUBSET Messages /\ store[h] = store[g]
      BY <1>1 DEF IInv, Agreement
    <3>2. merge_check(store[h], m) # "ok"
      BY <3>1, OfferedIsRefused
    <3> QED
      BY <2>1, <3>2 DEF MergeAt
  <2>2. ASSUME NEW h \in Hubs, NEW m \in Messages, ReceiveGossip(h, m)
        PROVE  store' = store
    <3>1. PICK g \in Hubs : m \in offered[g]
      BY <1>1, <2>2 DEF ReceiveGossip, GossipInv
    <3> QED
      BY <2>1, <2>2, <3>1 DEF ReceiveGossip
  <2>3. ASSUME NEW h \in Hubs, NEW g \in Hubs, NEW m \in Messages, Sync(h, g, m)
        PROVE  FALSE
    BY <2>3 DEF Sync, Agreement
  <2>4. CASE UNCHANGED vars
    BY <2>4 DEF vars
  <2> QED
    BY <1>1, <2>2, <2>3, <2>4 DEF Next
<1>2. Init => GossipInv
  BY DEF Init, GossipInv
<1>3. IInv /\ GossipInv /\ [Next]_vars => [A]_vars
  BY <1>1
<1> QED
  BY <1>2, <1>3, GossipStep, Inductive, PTL DEF Spec, AgreementIsStable

-----------------------------------------------------------------------------
(* Refinement of the last-write-wins registers.                            *)

RegisterMap == [h \in Hubs |-> Register(h)]

\* Both specifications rank messages by the same order.
LEMMA RegistersSameOrder ==
    ASSUME NEW a, NEW b
    PROVE  Registers!Beats(a, b) <=> Beats(a, b)
BY DEF Registers!Beats, Beats, Registers!message_compare, message_compare,
       Registers!cast_message_compare, cast_message_compare,
       Registers!default_message_compare, default_message_compare,
       Registers!type_compare, type_compare, Registers!bytes_compare, bytes_compare,
       Registers!is_add_type, is_add_type, Registers!is_remove_type, is_remove_type

\* One merge is one overwrite of the register of m's key, or a stutter.
LEMMA MergeAtRefines ==
    ASSUME IInv, NEW h \in Hubs, NEW m \in Messages, MergeAt(h, m)
    PROVE  Registers!Overwrite(h, m) \/ RegisterMap' = RegisterMap
<1> USE MessagesAssumption, NoneAssumption
<1>1. CASE merge_check(store[h], m) # "ok"
  <2>1. store' = store
    BY <1>1 DEF MergeAt
  <2> QED
    BY <2>1 DEF RegisterMap, Register
<1>2. CASE merge_check(store[h], m) = "ok"
  <2> DEFINE s == store[h]
             t == merge(s, m)
  <2>1. s \in Store /\ IndexConsistent(s) /\ OneRuling(s)
    BY DEF IInv, StoreInv
  <2>2. /\ t.adds = [s.adds EXCEPT ![m.key] = IF is_add_type(m) THEN m ELSE None]
        /\ t.removes = [s.removes EXCEPT ![m.key] = IF is_add_type(m) THEN None ELSE m]
        /\ \A x \in s.msgs : x.key = m.key => Beats(m, x)
    BY <1>2, <2>1, MergeEffect
  <2>3. store' = [store EXCEPT ![h] = t] /\ store \in [Hubs -> Store]
    BY <1>2 DEF MergeAt, IInv
  <2>4. m.key \in Keys /\ s.adds \in [Keys -> Messages \cup {None}]
        /\ s.removes \in [Keys -> Messages \cup {None}]
    BY <2>1 DEF Store
  <2>5. \A k \in Keys : (IF t.adds[k] # None THEN t.adds[k] ELSE t.removes[k]) =
            IF k = m.key THEN m
            ELSE IF s.adds[k] # None THEN s.adds[k] ELSE s.removes[k]
    BY <2>2, <2>4
  <2> HIDE DEF t
  <2>6. Register(h)' = [Register(h) EXCEPT ![m.key] = m]
    <3>1. store'[h] = t
      BY <2>3
    <3> QED
      BY <2>5, <3>1 DEF Register
  <2>7. \A g \in Hubs \ {h} : Register(g)' = Register(g)
    BY <2>3 DEF Register
  <2>8. RegisterMap' = [RegisterMap EXCEPT ![h] = [@ EXCEPT ![m.key] = m]]
    BY <2>6, <2>7 DEF RegisterMap
  <2>9. Register(h)[m.key] = None \/ Beats(m, Register(h)[m.key])
    BY <2>1, <2>2, <2>4 DEF Register, IndexConsistent
  <2>10. RegisterMap[h] = Register(h)
    BY DEF RegisterMap
  <2>11. \A x : Registers!Beats(m, x) <=> Beats(m, x)
    BY RegistersSameOrder
  <2> QED
    BY <2>8, <2>9, <2>10, <2>11 DEF Registers!Overwrite, RegisterMap
<1> QED
  BY <1>1, <1>2

\* The replicated stores implement one last-write-wins register per hub and key
\* (ImplementsRegisters): the ruling message of a key is only ever replaced by
\* one that beats it.
THEOREM Refinement == Spec => ImplementsRegisters
<1>1. Init => Registers!Init
  BY DEF Init, Registers!Init, Register, EmptyStore
<1>2. IInv /\ [Next]_vars => [Registers!Next]_RegisterMap
  <2> SUFFICES ASSUME IInv, [Next]_vars PROVE Registers!Next \/ RegisterMap' = RegisterMap
    OBVIOUS
  <2>1. ASSUME NEW h \in Hubs, NEW m \in Messages, MergeAt(h, m)
        PROVE  Registers!Next \/ RegisterMap' = RegisterMap
    BY <2>1, MergeAtRefines DEF Registers!Next
  <2>2. CASE Next
    BY <2>1, <2>2 DEF Next, SubmitRpc, ReceiveGossip, Sync
  <2>3. CASE UNCHANGED vars
    BY <2>3 DEF vars, RegisterMap, Register
  <2> QED
    BY <2>2, <2>3
<1> QED
  BY <1>1, <1>2, Inductive, PTL DEF Spec, ImplementsRegisters, Registers!Spec, RegisterMap
=============================================================================
