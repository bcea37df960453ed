------------------------- MODULE StoreThreadsProofs -------------------------
(***************************************************************************)
(* Proofs about StoreThreads for every set of threads, locks, keys,        *)
(* addresses and messages, with merges, revokes and prunes running at once.*)
(***************************************************************************)
EXTENDS StoreThreads, MessageOrderProofs

-----------------------------------------------------------------------------
(* The parts of the inductive invariant.                                   *)

\* The messages a job is about: those without an event yet, and those with one.
Subjects(j) == j.todo \cup {e.msg : e \in j.evs}

\* Thread t merges m: it holds the lock of the fid, and what it is going to delete is
\* beaten by m or is the verification of the same address by another fid.
MergeJob(t, m) ==
    LET j == job[t]
    IN  /\ j.op = "merge" /\ j.pc # "idle"
        /\ IF j.pc = "commit" THEN j.todo = {} /\ j.evs # {} ELSE j.todo = {m} /\ j.evs = {}
        /\ \A e \in j.evs : e.op = "merge" /\ e.msg = m /\ e.deleted = j.deleted
        /\ lock[LockOf[m.key]] = t
        /\ j.pc = "removes" => j.deleted = {}
        /\ j.pc = "address" => is_add_type(m) /\ AddressOf[m.key] # None
        /\ \A d \in j.deleted :
              \/ Beats(m, d)
              \/ /\ d.key # m.key /\ is_add_type(d) /\ is_add_type(m)
                 /\ AddressOf[d.key] = AddressOf[m.key] /\ AddressOf[m.key] # None

\* Thread t revokes or prunes: it deletes the messages its events are about.
RemoveJob(t) ==
    LET j == job[t]
    IN  /\ j.op \in {"revoke", "prune"} /\ j.pc \in {"id", "commit"}
        /\ j.pc = "commit" <=> j.todo = {}
        /\ j.deleted = Subjects(j)
        /\ \A e \in j.evs : e.op = j.op /\ e.deleted = {e.msg}

JobsInv ==
    \A t \in Threads : job[t] = Idle \/ (\E m \in Messages : MergeJob(t, m)) \/ RemoveJob(t)

\* Index entries point at stored messages of their key and type.
EntriesInv ==
    \A k \in Keys :
        /\ db.adds[k] # None =>
              db.adds[k] \in db.msgs /\ db.adds[k].key = k /\ is_add_type(db.adds[k])
        /\ db.removes[k] # None =>
              db.removes[k] \in db.msgs /\ db.removes[k].key = k /\ is_remove_type(db.removes[k])

\* The entry by address names a key of that address.
AddressInv == \A a \in Addresses : byAddress[a] # None => AddressOf[byAddress[a]] = a

Shape == TypeOK /\ JobsInv /\ EntriesInv /\ AddressInv

-----------------------------------------------------------------------------
(* What the steps do, as the proofs use it.                                *)

\* The fields of a job in the middle of its reads, and its subject.
LEMMA ReadingJob ==
    ASSUME TypeOK, JobsInv, NEW t \in Threads, job[t].pc \in {"removes", "adds", "address"}
    PROVE  MergeJob(t, Subject(t)) /\ Subject(t) \in Messages
<1>1. job[t] # Idle /\ ~RemoveJob(t)
  BY DEF Idle, RemoveJob
<1>2. PICK m \in Messages : MergeJob(t, m)
  BY <1>1 DEF JobsInv
<1>3. job[t].todo = {m}
  BY <1>2 DEF MergeJob
<1>4. Subject(t) = m
  BY <1>3 DEF Subject
<1> QED
  BY <1>2, <1>4

\* A step of t: the jobs and the locks of other threads are left alone.
StepOf(t) ==
    /\ \A u \in Threads \ {t} : job'[u] = job[u]
    /\ \A l \in Locks : {lock[l], lock'[l]} \cap (Threads \ {t}) # {} => lock'[l] = lock[l]

\* So the other threads' jobs keep their shape.
LEMMA OthersKeepJobs ==
    ASSUME NEW t \in Threads, StepOf(t), NEW u \in Threads \ {t}
    PROVE  /\ \A m \in Messages : MergeJob(u, m)' <=> MergeJob(u, m)
           /\ RemoveJob(u)' <=> RemoveJob(u)
<1> USE MessagesAssumption, ThreadsAssumption
<1>1. job'[u] = job[u]
  BY DEF StepOf
<1>2. ASSUME NEW m \in Messages
      PROVE  lock'[LockOf[m.key]] = u <=> lock[LockOf[m.key]] = u
  <2>1. LockOf[m.key] \in Locks
    OBVIOUS
  <2> QED
    BY <2>1 DEF StepOf
<1> QED
  BY <1>1, <1>2 DEF MergeJob, RemoveJob, Subjects

\* An operation that ends without a write frees its locks and changes nothing else.
LEMMA GiveUpEffect ==
    ASSUME TypeOK, NEW t \in Threads, GiveUp(t)
    PROVE  /\ StepOf(t) /\ job'[t] = Idle /\ job' \in [Threads -> Jobs]
           /\ lock' \in [Locks -> Threads \cup {None}]
           /\ UNCHANGED <<db, byAddress, events>>
<1> USE ThreadsAssumption
<1>1. Idle \in Jobs
  BY DEF Idle, Jobs
<1> QED
  BY <1>1 DEF GiveUp, TypeOK, StepOf, ReleasedLocks

\* X is what a read of t, which merges m, finds to be deleted.
Finds(t, m, X, next) ==
    \/ job[t].pc = "removes" /\ next = "adds" /\ X = {db.removes[m.key]} \ {None}
    \/ /\ job[t].pc = "adds" /\ X = {db.adds[m.key]} \ {None}
       /\ next = IF is_add_type(m) /\ AddressOf[m.key] # None THEN "address" ELSE "id"
    \/ job[t].pc = "address" /\ next = "id" /\ X = rival(m)

\* What it found joins what it deletes, and it reads on.
ReadsOn(t, m, X, next) ==
    /\ Finds(t, m, X, next)
    /\ \A d \in X :
          \/ Beats(m, d)
          \/ /\ d.key # m.key /\ is_add_type(d) /\ is_add_type(m)
             /\ AddressOf[d.key] = AddressOf[m.key] /\ AddressOf[m.key] # None
    /\ job' \in [Threads -> Jobs] /\ StepOf(t)
    /\ job'[t] = [job[t] EXCEPT !.deleted = @ \cup X, !.pc = next]
    /\ UNCHANGED <<db, byAddress, events, lock, offered, undone, clock, generator, setBack, raced>>

\* It gives up, for a message that is stored and ranks at least as high.
IsRefused(t, m) ==
    /\ GiveUp(t)
    /\ offered' = offered \cup {m}
    /\ UNCHANGED <<clock, generator, setBack, undone, raced>>
    /\ AddressOf[m.key] = None => \E n \in db.msgs : n = m \/ Beats(n, m)

Reads(t, m) ==
    \/ IsRefused(t, m)
    \/ \E X \in SUBSET db.msgs, next \in {"adds", "address", "id"} : ReadsOn(t, m, X, next)

\* The read of one of the two set indices.
LEMMA ReadIndexEffect ==
    ASSUME Shape, NEW t \in Threads,
           NEW pc \in {"removes", "adds"}, NEW STATE index, NEW next \in {"adds", "address", "id"},
           index = IF pc = "removes" THEN db.removes ELSE db.adds,
           \A X : X = {index[Subject(t).key]} \ {None} /\ job[t].pc = pc => Finds(t, Subject(t), X, next),
           ReadIndex(t, pc, index, next)
    PROVE  Subject(t) \in Messages /\ MergeJob(t, Subject(t)) /\ Reads(t, Subject(t))
<1> DEFINE m == Subject(t)
<1> USE MessagesAssumption, NoneAssumption, ThreadsAssumption
<1>1. job[t].pc = pc /\ m \in Messages /\ MergeJob(t, m)
  BY ReadingJob DEF ReadIndex, Shape
<1> HIDE DEF m
<1>2. m.key \in Keys /\ db \in Store
  BY <1>1 DEF Shape, TypeOK
<1>3. index[m.key] \in Messages \cup {None}
  BY <1>2 DEF Store
<1>4. index[m.key] # None => index[m.key] \in db.msgs /\ index[m.key].key = m.key
  BY <1>2 DEF Shape, EntriesInv
<1>5. CASE RefusedBy(index, m)
  <2>1. GiveUp(t) /\ offered' = offered \cup {m} /\ UNCHANGED <<clock, generator, setBack, undone, raced>>
    BY <1>5 DEF ReadIndex, m
  <2>2. \E n \in db.msgs : n = m \/ Beats(n, m)
    BY <1>1, <1>3, <1>4, <1>5, CompareRange DEF RefusedBy, Beats
  <2> QED
    BY <1>1, <2>1, <2>2 DEF Reads, IsRefused, m
<1>6. CASE ~RefusedBy(index, m)
  <2> DEFINE X == {index[m.key]} \ {None}
  <2>1. X \in SUBSET db.msgs /\ ConflictIn(db, index, m) = X
    BY <1>2, <1>4 DEF ConflictIn, Store
  <2>2. \A d \in X : Beats(m, d)
    <3>1. ASSUME index[m.key] # None
          PROVE  Beats(m, index[m.key])
      <4>1. message_compare(index[m.key], m) < 0
        BY <1>1, <1>3, <1>6, <3>1, CompareRange DEF RefusedBy
      <4> QED
        BY <1>1, <1>3, <1>4, <3>1, <4>1, CompareAntisymmetric DEF Beats
    <3> QED
      BY <3>1
  <2>3. Finds(t, m, X, next)
    BY <1>1 DEF m
  <2> HIDE DEF X
  <2>4. /\ job' = [job EXCEPT ![t].deleted = @ \cup X, ![t].pc = next]
        /\ UNCHANGED <<db, byAddress, events, lock, offered, undone, clock, generator, setBack, raced>>
    BY <1>6, <2>1 DEF ReadIndex, m
  <2>5. /\ job \in [Threads -> Jobs] /\ db.msgs \subseteq Messages
    BY <1>2 DEF Shape, TypeOK, Store
  <2>6. /\ job'[t] = [job[t] EXCEPT !.deleted = @ \cup X, !.pc = next]
        /\ \A u \in Threads \ {t} : job'[u] = job[u]
    BY <2>4, <2>5
  <2>7. job' \in [Threads -> Jobs]
    <3>1. X \subseteq Messages /\ job[t] \in Jobs
      BY <2>1, <2>5
    <3>2. [job[t] EXCEPT !.deleted = @ \cup X, !.pc = next] \in Jobs
      BY <3>1 DEF Jobs
    <3> QED
      BY <2>4, <2>5, <3>2
  <2>8. StepOf(t)
    BY <2>4, <2>6 DEF StepOf
  <2> QED
    <3>1. ReadsOn(t, m, X, next)
      BY <2>2, <2>3, <2>4, <2>6, <2>7, <2>8 DEF ReadsOn
    <3> QED
      BY <1>1, <2>1, <3>1 DEF Reads, m
<1> QED
  BY <1>5, <1>6

\* The read of the entry by address.
LEMMA ReadByAddressEffect ==
    ASSUME Shape, NEW t \in Threads, ReadByAddress(t)
    PROVE  Subject(t) \in Messages /\ MergeJob(t, Subject(t)) /\ Reads(t, Subject(t))
<1> DEFINE m == Subject(t)
<1> USE MessagesAssumption, NoneAssumption, ThreadsAssumption
<1>1. job[t].pc = "address" /\ m \in Messages /\ MergeJob(t, m)
  BY ReadingJob DEF ReadByAddress, Shape
<1> HIDE DEF m
<1>2. is_add_type(m) /\ AddressOf[m.key] # None
  BY <1>1 DEF MergeJob
<1>3. m.key \in Keys /\ db \in Store /\ AddressOf[m.key] \in Addresses
  BY <1>1, <1>2 DEF Shape, TypeOK, Addresses
<1>4. \A d \in rival(m) :
         /\ d \in db.msgs /\ d \in Messages
         /\ d.key # m.key /\ is_add_type(d) /\ AddressOf[d.key] = AddressOf[m.key]
  <2> SUFFICES ASSUME NEW d \in rival(m)
               PROVE  /\ d \in db.msgs /\ d \in Messages
                      /\ d.key # m.key /\ is_add_type(d) /\ AddressOf[d.key] = AddressOf[m.key]
    OBVIOUS
  <2>1. PICK k \in {byAddress[AddressOf[m.key]]} \ {None, m.key} : d = db.adds[k] /\ d # None
    BY DEF rival
  <2>2. k \in Keys /\ AddressOf[k] = AddressOf[m.key]
    BY <1>3, <2>1 DEF Shape, TypeOK, AddressInv
  <2> QED
    BY <1>3, <2>1, <2>2 DEF Shape, EntriesInv, Store
<1>5. CASE \E n \in rival(m) : message_compare(n, m) >= 0
  <2>1. GiveUp(t) /\ offered' = offered \cup {m} /\ UNCHANGED <<clock, generator, setBack, undone, raced>>
    <3>1. ~\A n \in rival(m) : message_compare(n, m) < 0
      BY <1>1, <1>4, <1>5, CompareRange
    <3> QED
      BY <3>1 DEF ReadByAddress, m
  <2> QED
    BY <1>1, <1>2, <2>1 DEF Reads, IsRefused, m
<1>6. CASE ~\E n \in rival(m) : message_compare(n, m) >= 0
  <2> DEFINE X == rival(m)
  <2>1. X \in SUBSET db.msgs /\ X \cap db.msgs = X
    BY <1>4
  <2>2. Finds(t, m, X, "id")
    BY <1>1 DEF Finds
  <2>3. /\ job' = [job EXCEPT ![t].deleted = @ \cup X, ![t].pc = "id"]
        /\ UNCHANGED <<db, byAddress, events, lock, offered, undone, clock, generator, setBack, raced>>
    BY <1>6, <2>1 DEF ReadByAddress, m
  <2> HIDE DEF X
  <2>4. /\ job \in [Threads -> Jobs] /\ db.msgs \subseteq Messages
    BY <1>3 DEF Shape, TypeOK, Store
  <2>5. /\ job'[t] = [job[t] EXCEPT !.deleted = @ \cup X, !.pc = "id"]
        /\ \A u \in Threads \ {t} : job'[u] = job[u]
    BY <2>3, <2>4
  <2>6. job' \in [Threads -> Jobs]
    <3>1. X \subseteq Messages /\ job[t] \in Jobs
      BY <2>1, <2>4
    <3>2. [job[t] EXCEPT !.deleted = @ \cup X, !.pc = "id"] \in Jobs
      BY <3>1 DEF Jobs
    <3> QED
      BY <2>3, <2>4, <3>2
  <2>7. StepOf(t)
    BY <2>3, <2>5 DEF StepOf
  <2>8. \A d \in X :
           /\ d.key # m.key /\ is_add_type(d) /\ is_add_type(m)
           /\ AddressOf[d.key] = AddressOf[m.key] /\ AddressOf[m.key] # None
    BY <1>2, <1>4 DEF X
  <2> QED
    <3>1. ReadsOn(t, m, X, "id")
      BY <2>2, <2>3, <2>5, <2>6, <2>7, <2>8 DEF ReadsOn
    <3> QED
      BY <1>1, <2>1, <3>1 DEF Reads, m
<1> QED
  BY <1>5, <1>6

\* Each read of a merge, as a step of its message.
LEMMA ReadEffect ==
    ASSUME Shape, NEW t \in Threads, ReadRemoves(t) \/ ReadAdds(t) \/ ReadByAddress(t)
    PROVE  \E m \in Messages : MergeJob(t, m) /\ Reads(t, m)
<1>1. CASE ReadRemoves(t)
  <2>1. Subject(t) \in Messages /\ MergeJob(t, Subject(t)) /\ Reads(t, Subject(t))
    BY <1>1, ReadIndexEffect DEF ReadRemoves, Finds
  <2> QED
    BY <2>1
<1>2. CASE ReadAdds(t)
  <2>1. Subject(t) \in Messages /\ MergeJob(t, Subject(t)) /\ Reads(t, Subject(t))
    BY <1>2, ReadIndexEffect DEF ReadAdds, Finds
  <2> QED
    BY <2>1
<1>3. CASE ReadByAddress(t)
  BY <1>3, ReadByAddressEffect
<1> QED
  BY <1>1, <1>2, <1>3

\* A thread that begins was idle, and only its job and lock change.
LEMMA BeginEffect ==
    ASSUME TypeOK, JobsInv, NEW t \in Threads, NEW j \in Jobs, NEW M \in SUBSET Messages, Begin(t, j, M)
    PROVE  /\ job[t] = Idle /\ job'[t] = j
           /\ \A u \in Threads \ {t} : job'[u] = job[u]
           /\ job' \in [Threads -> Jobs] /\ raced' \subseteq Addresses
<1> USE MessagesAssumption, ThreadsAssumption
<1>1. job[t] = Idle
  BY DEF Begin, JobsInv, MergeJob, RemoveJob
<1>2. AddressesOf(M) \subseteq Addresses
  BY DEF AddressesOf, Addresses
<1> QED
  BY <1>1, <1>2 DEF Begin, TypeOK

\* Thread t takes an id for its message m, in the event e.
TakesId(t, m, e) ==
    /\ job[t].pc = "id" /\ m \in job[t].todo
    /\ ~sequence_exhausted
    /\ e \in Events
    /\ e.id = make_event_id(generate_id.last_timestamp, generate_id.last_seq)
    /\ e.op = job[t].op /\ e.msg = m /\ e.deleted = event_args(t, m)
    /\ job' \in [Threads -> Jobs] /\ StepOf(t)
    /\ job'[t] = [job[t] EXCEPT !.todo = @ \ {m}, !.evs = @ \cup {e},
                                !.pc = IF job[t].todo = {m} THEN "commit" ELSE "id"]
    /\ UNCHANGED <<db, byAddress, events, lock, offered, undone, clock, setBack, raced>>

\* generate_id keeps within its bounds.
LEMMA GeneratorType ==
    ASSUME TypeOK
    PROVE  generate_id \in [last_timestamp : 0..MaxClock, last_seq : 0..SequenceLimit]
BY ThreadsAssumption DEF TypeOK, generate_id

\* An id is a number.
LEMMA EventIdType ==
    ASSUME NEW timestamp \in Nat, NEW seq \in Nat
    PROVE  make_event_id(timestamp, seq) \in Nat
<1> DEFINE L == SequenceLimit
<1>1. L \in Nat \ {0}
  BY ThreadsAssumption
<1> HIDE DEF L
<1>2. timestamp * L \in Nat /\ seq % L \in Nat
  BY <1>1
<1>3. timestamp * L + (seq % L) \in Nat
  BY <1>2
<1> QED
  BY <1>3 DEF make_event_id, L

\* commit_transaction's first half: an id is taken or the operation gives up.
LEMMA TakeEffect ==
    ASSUME Shape, NEW t \in Threads, NEW m \in Messages, TakeEventId(t, m)
    PROVE  /\ generator' = generate_id
           /\ \/ GiveUp(t) /\ UNCHANGED <<offered, undone, clock, setBack, raced>>
              \/ \E e \in Events : TakesId(t, m, e)
<1> DEFINE e == [id      |-> make_event_id(generate_id.last_timestamp, generate_id.last_seq),
                 op      |-> job[t].op,
                 msg     |-> m,
                 deleted |-> event_args(t, m)]
           j == [job[t] EXCEPT !.todo = @ \ {m}, !.evs = @ \cup {e},
                               !.pc = IF job[t].todo = {m} THEN "commit" ELSE "id"]
<1>1. generator' = generate_id
  BY DEF TakeEventId
<1>2. CASE sequence_exhausted
  BY <1>1, <1>2 DEF TakeEventId
<1>3. CASE ~sequence_exhausted
  <2>1. job \in [Threads -> Jobs] /\ job[t] \in Jobs
    BY DEF Shape, TypeOK
  <2>2. job[t].op \in {"merge", "revoke", "prune"}
    BY DEF Shape, JobsInv, MergeJob, RemoveJob, TakeEventId, Idle
  <2>3. e.id \in Nat
    <3>1. generate_id \in [last_timestamp : 0..MaxClock, last_seq : 0..SequenceLimit] /\ clock \in 1..MaxClock
      BY GeneratorType DEF Shape, TypeOK
    <3>2. generate_id.last_timestamp \in Nat /\ generate_id.last_seq \in Nat
      BY <3>1, ThreadsAssumption
    <3> QED
      BY <3>2, EventIdType
  <2>4. event_args(t, m) \in SUBSET Messages
    BY <2>1 DEF event_args, Jobs
  <2>5. e \in Events
    BY <2>2, <2>3, <2>4 DEF Events
  <2>6. /\ job' = [job EXCEPT ![t].todo = @ \ {m}, ![t].evs = @ \cup {e},
                              ![t].pc = IF job[t].todo = {m} THEN "commit" ELSE "id"]
        /\ UNCHANGED <<db, byAddress, events, lock, offered, undone, clock, setBack, raced>>
        /\ job[t].pc = "id" /\ m \in job[t].todo
    BY <1>3 DEF TakeEventId
  <2>7. /\ e.id = make_event_id(generate_id.last_timestamp, generate_id.last_seq)
        /\ e.op = job[t].op /\ e.msg = m /\ e.deleted = event_args(t, m)
    OBVIOUS
  <2> HIDE DEF e
  <2>8. j \in Jobs
    BY <2>1, <2>5 DEF Jobs
  <2>9. job' = [job EXCEPT ![t] = j]
    BY <2>1, <2>6
  <2>10. /\ job'[t] = j /\ job' \in [Threads -> Jobs]
         /\ \A u \in Threads \ {t} : job'[u] = job[u]
    BY <2>1, <2>8, <2>9
  <2>11. StepOf(t)
    BY <2>6, <2>10 DEF StepOf
  <2> QED
    BY <1>1, <1>3, <2>5, <2>6, <2>7, <2>10, <2>11 DEF TakesId
<1> QED
  BY <1>2, <1>3

\* Thread t commits: W is what it merged, a message or nothing.
Writes(t, W) ==
    /\ job[t].pc = "commit"
    /\ \/ W = {} /\ RemoveJob(t)
       \/ \E m \in Messages : W = {m} /\ MergeJob(t, m)
    /\ db' \in Store
    /\ db'.msgs = (db.msgs \ job[t].deleted) \cup W
    /\ db'.byTarget = (db.byTarget \ job[t].deleted) \cup {m \in W : is_add_type(m)}
    /\ \A m \in W : /\ is_add_type(m) => db'.adds[m.key] = m
                    /\ ~is_add_type(m) => db'.removes[m.key] = m
    /\ \A k \in Keys :
          /\ (~\E m \in W : is_add_type(m) /\ m.key = k) =>
                db'.adds[k] = IF \E d \in job[t].deleted : is_add_type(d) /\ d.key = k
                              THEN None ELSE db.adds[k]
          /\ (~\E m \in W : ~is_add_type(m) /\ m.key = k) =>
                db'.removes[k] = IF \E d \in job[t].deleted : is_remove_type(d) /\ d.key = k
                                 THEN None ELSE db.removes[k]
    /\ byAddress' \in [Addresses -> Keys \cup {None}]
    /\ \A a \in Addresses :
          /\ \A m \in W : is_add_type(m) /\ AddressOf[m.key] = a => byAddress'[a] = m.key
          /\ (~\E m \in W : is_add_type(m) /\ AddressOf[m.key] = a) =>
                byAddress'[a] = IF \E d \in job[t].deleted : is_add_type(d) /\ AddressOf[d.key] = a
                                THEN None ELSE byAddress[a]
    /\ events' = {e \in events : \A f \in job[t].evs : f.id # e.id} \cup job[t].evs
    /\ offered' = offered \cup W
    /\ StepOf(t) /\ job'[t] = Idle /\ job' \in [Threads -> Jobs]
    /\ lock' \in [Locks -> Threads \cup {None}]
    /\ undone' = undone \cup {e.msg : e \in {x \in job[t].evs : x.op # "merge"}}
    /\ UNCHANGED <<clock, generator, setBack, raced>>

\* What a commit writes, entry by entry.
LEMMA CommitEffect ==
    ASSUME Shape, NEW t \in Threads, Commit(t)
    PROVE  \E W \in SUBSET Messages : Writes(t, W)
<1> USE MessagesAssumption, NoneAssumption, ThreadsAssumption
<1> DEFINE W == {e.msg : e \in {x \in job[t].evs : x.op = "merge"}}
           rest == delete_many_transaction(db, job[t].deleted)
<1>1. job[t].pc = "commit" /\ TypeOK /\ job[t] # Idle /\ job[t] \in Jobs
  BY DEF Commit, Shape, TypeOK, Idle
<1>2. \/ W = {} /\ RemoveJob(t)
      \/ \E m \in Messages : W = {m} /\ MergeJob(t, m)
  <2>1. CASE RemoveJob(t)
    BY <2>1 DEF RemoveJob
  <2>2. ASSUME NEW m \in Messages, MergeJob(t, m)
        PROVE  W = {m}
    BY <1>1, <2>2 DEF MergeJob
  <2> QED
    BY <1>1, <2>1, <2>2 DEF Shape, JobsInv
<1>3. W \subseteq Messages
  BY <1>2
<1>4. /\ db' = IF W = {} THEN rest ELSE put_transaction(rest, CHOOSE m \in W : TRUE)
      /\ byAddress' = secondary_indices(job[t].deleted, W)
      /\ events' = {e \in events : \A f \in job[t].evs : f.id # e.id} \cup job[t].evs
      /\ offered' = offered \cup W
      /\ undone' = undone \cup {e.msg : e \in {x \in job[t].evs : x.op # "merge"}}
      /\ job' = [job EXCEPT ![t] = Idle] /\ lock' = ReleasedLocks(t)
      /\ UNCHANGED <<clock, generator, setBack, raced>>
  BY DEF Commit
<1>5. StepOf(t) /\ job'[t] = Idle /\ job' \in [Threads -> Jobs] /\ lock' \in [Locks -> Threads \cup {None}]
  <2>1. Idle \in Jobs
    BY DEF Idle, Jobs
  <2> HIDE DEF W
  <2> QED
    BY <1>1, <1>4, <2>1 DEF TypeOK, StepOf, ReleasedLocks
<1> HIDE DEF W
<1>6. /\ rest \in Store
      /\ rest.msgs = db.msgs \ job[t].deleted
      /\ rest.byTarget = db.byTarget \ job[t].deleted
      /\ rest.adds = [k \in Keys |-> IF \E d \in job[t].deleted : is_add_type(d) /\ d.key = k
                                     THEN None ELSE db.adds[k]]
      /\ rest.removes = [k \in Keys |-> IF \E d \in job[t].deleted : is_remove_type(d) /\ d.key = k
                                        THEN None ELSE db.removes[k]]
  <2>1. db \in Store
    BY <1>1 DEF TypeOK
  <2> QED
    BY <2>1 DEF delete_many_transaction, Store
<1> HIDE DEF rest
<1>7. /\ db' \in Store
      /\ db'.msgs = (db.msgs \ job[t].deleted) \cup W
      /\ db'.byTarget = (db.byTarget \ job[t].deleted) \cup {m \in W : is_add_type(m)}
      /\ \A m \in W : /\ is_add_type(m) => db'.adds[m.key] = m
                      /\ ~is_add_type(m) => db'.removes[m.key] = m
      /\ \A k \in Keys :
            /\ (~\E m \in W : is_add_type(m) /\ m.key = k) => db'.adds[k] = rest.adds[k]
            /\ (~\E m \in W : ~is_add_type(m) /\ m.key = k) => db'.removes[k] = rest.removes[k]
  <2>1. CASE W = {}
    BY <1>4, <1>6, <2>1
  <2>2. CASE W # {}
    <3>1. PICK m \in Messages : W = {m}
      BY <1>2, <2>2
    <3>2. (CHOOSE n \in W : TRUE) = m /\ m.key \in Keys
      BY <3>1
    <3>3. db' = put_transaction(rest, m)
      BY <1>4, <3>2, <2>2
    <3>4. CASE is_add_type(m)
      BY <1>6, <3>1, <3>2, <3>3, <3>4 DEF put_transaction, put_add_transaction, Store
    <3>5. CASE ~is_add_type(m)
      BY <1>6, <3>1, <3>2, <3>3, <3>5 DEF put_transaction, put_remove_transaction, Store
    <3> QED
      BY <3>4, <3>5
  <2> QED
    BY <2>1, <2>2
<1>8. /\ \A k \in Keys :
            /\ (~\E m \in W : is_add_type(m) /\ m.key = k) =>
                  db'.adds[k] = IF \E d \in job[t].deleted : is_add_type(d) /\ d.key = k
                                THEN None ELSE db.adds[k]
            /\ (~\E m \in W : ~is_add_type(m) /\ m.key = k) =>
                  db'.removes[k] = IF \E d \in job[t].deleted : is_remove_type(d) /\ d.key = k
                                   THEN None ELSE db.removes[k]
  BY <1>6, <1>7
<1>9. /\ byAddress' \in [Addresses -> Keys \cup {None}]
      /\ \A a \in Addresses :
            /\ \A m \in W : is_add_type(m) /\ AddressOf[m.key] = a => byAddress'[a] = m.key
            /\ (~\E m \in W : is_add_type(m) /\ AddressOf[m.key] = a) =>
                  byAddress'[a] = IF \E d \in job[t].deleted : is_add_type(d) /\ AddressOf[d.key] = a
                                  THEN None ELSE byAddress[a]
  <2> DEFINE new(a) == {m \in W : is_add_type(m) /\ AddressOf[m.key] = a}
             old(a) == IF \E d \in job[t].deleted : is_add_type(d) /\ AddressOf[d.key] = a
                       THEN None ELSE byAddress[a]
  <2>1. byAddress' = [a \in Addresses |-> IF new(a) # {} THEN (CHOOSE m \in new(a) : TRUE).key ELSE old(a)]
    BY <1>4, Zenon DEF secondary_indices
  <2>2. ASSUME NEW a \in Addresses, NEW m \in W, is_add_type(m), AddressOf[m.key] = a
        PROVE  new(a) = {m} /\ (CHOOSE n \in new(a) : TRUE).key = m.key
    <3>1. new(a) = {m}
      BY <1>2, <2>2
    <3>2. (CHOOSE n \in {m} : TRUE) = m
      OBVIOUS
    <3> QED
      BY <3>1, <3>2
  <2>3. \A a \in Addresses : (~\E m \in W : is_add_type(m) /\ AddressOf[m.key] = a) => new(a) = {}
    OBVIOUS
  <2>4. \A a \in Addresses : old(a) \in Keys \cup {None}
    BY <1>1 DEF TypeOK
  <2>5. \A a \in Addresses : new(a) # {} => (CHOOSE m \in new(a) : TRUE).key \in Keys
    <3> SUFFICES ASSUME NEW a \in Addresses, new(a) # {}
                 PROVE  (CHOOSE m \in new(a) : TRUE).key \in Keys
      OBVIOUS
    <3>1. PICK m \in W : m \in new(a)
      OBVIOUS
    <3>2. (CHOOSE n \in new(a) : TRUE).key = m.key
      BY <2>2, <3>1
    <3> QED
      BY <1>3, <3>2
  <2> HIDE DEF new, old
  <2>6. byAddress' \in [Addresses -> Keys \cup {None}]
    BY <2>1, <2>4, <2>5
  <2>7. ASSUME NEW a \in Addresses
        PROVE  /\ \A m \in W : is_add_type(m) /\ AddressOf[m.key] = a => byAddress'[a] = m.key
               /\ (~\E m \in W : is_add_type(m) /\ AddressOf[m.key] = a) => byAddress'[a] = old(a)
    BY <2>1, <2>2, <2>3
  <2> QED
    BY <2>6, <2>7 DEF old
<1> QED
  <2>1. Writes(t, W)
    BY <1>1, <1>2, <1>4, <1>5, <1>7, <1>8, <1>9 DEF Writes
  <2> QED
    BY <1>3, <2>1

-----------------------------------------------------------------------------
(* Shape is inductive.                                                     *)

\* Thread t begins to work on the messages M, and reports the addresses others work on.
Starts(t, M) ==
    /\ job[t] = Idle
    /\ StepOf(t) /\ job' \in [Threads -> Jobs] /\ lock' \in [Locks -> Threads \cup {None}]
    /\ job'[t].evs = {} /\ job'[t].todo = M
    /\ raced' = raced \cup (AddressesOf(M) \cap UNION {Working(u) : u \in Threads})
    /\ raced' \subseteq Addresses
    /\ UNCHANGED <<db, byAddress, events, offered, undone, clock, generator, setBack>>

StartsMerge(t, m) == Starts(t, {m}) /\ MergeJob(t, m)' /\ job'[t].pc = "removes" /\ job'[t].deleted = {}

StartsRemove(t, D) == Starts(t, D) /\ RemoveJob(t)' /\ job'[t].deleted = D /\ D \subseteq db.msgs

\* A merge begins.
LEMMA LockEffect ==
    ASSUME Shape, NEW t \in Threads, NEW m \in Messages, LockFid(t, m)
    PROVE  StartsMerge(t, m)
<1> USE MessagesAssumption, NoneAssumption, ThreadsAssumption
<1> DEFINE j == [Idle EXCEPT !.pc = "removes", !.op = "merge", !.todo = {m}]
<1>1. /\ j.pc = "removes" /\ j.op = "merge" /\ j.todo = {m} /\ j.deleted = {} /\ j.evs = {}
      /\ j \in Jobs
  BY DEF Idle, Jobs
<1>2. /\ Begin(t, j, {m}) /\ lock[LockOf[m.key]] = None /\ lock' = [lock EXCEPT ![LockOf[m.key]] = t]
      /\ UNCHANGED <<db, byAddress, events, offered, undone, clock, generator, setBack>>
  BY DEF LockFid
<1> HIDE DEF j
<1>3. /\ job[t] = Idle /\ job'[t] = j
      /\ \A u \in Threads \ {t} : job'[u] = job[u]
      /\ job' \in [Threads -> Jobs] /\ raced' \subseteq Addresses
  BY <1>1, <1>2, BeginEffect DEF Shape
<1>4. lock \in [Locks -> Threads \cup {None}] /\ LockOf[m.key] \in Locks
  BY DEF Shape, TypeOK
<1>5. lock' \in [Locks -> Threads \cup {None}] /\ lock'[LockOf[m.key]] = t /\ StepOf(t)
  BY <1>2, <1>3, <1>4 DEF StepOf
<1>6. Starts(t, {m})
  BY <1>1, <1>2, <1>3, <1>5 DEF Starts, Begin
<1>7. MergeJob(t, m)'
  BY <1>1, <1>3, <1>5 DEF MergeJob
<1> QED
  BY <1>1, <1>3, <1>6, <1>7 DEF StartsMerge

\* A revoke or a prune begins.
LEMMA RemoveEffect ==
    ASSUME Shape, NEW t \in Threads, NEW D \in SUBSET db.msgs, D # {}, NEW op \in {"revoke", "prune"},
           Begin(t, [Idle EXCEPT !.pc = "id", !.op = op, !.todo = D, !.deleted = D], D),
           UNCHANGED <<db, byAddress, events, lock, offered, undone, clock, generator, setBack>>
    PROVE  StartsRemove(t, D)
<1> USE MessagesAssumption, NoneAssumption, ThreadsAssumption
<1> DEFINE j == [Idle EXCEPT !.pc = "id", !.op = op, !.todo = D, !.deleted = D]
<1>1. D \subseteq Messages
  BY DEF Shape, TypeOK, Store
<1>2. /\ j.pc = "id" /\ j.op = op /\ j.todo = D /\ j.deleted = D /\ j.evs = {}
      /\ j \in Jobs
  BY <1>1 DEF Idle, Jobs
<1>3. Begin(t, j, D)
  OBVIOUS
<1> HIDE DEF j
<1>4. /\ job[t] = Idle /\ job'[t] = j
      /\ \A u \in Threads \ {t} : job'[u] = job[u]
      /\ job' \in [Threads -> Jobs] /\ raced' \subseteq Addresses
  BY <1>1, <1>2, <1>3, BeginEffect DEF Shape
<1>5. lock' \in [Locks -> Threads \cup {None}] /\ StepOf(t)
  BY <1>4 DEF StepOf, Shape, TypeOK
<1>6. Starts(t, D)
  BY <1>2, <1>3, <1>4, <1>5 DEF Starts, Begin
<1>7. RemoveJob(t)'
  BY <1>2, <1>4 DEF RemoveJob, Subjects
<1> QED
  BY <1>2, <1>4, <1>6, <1>7 DEF StartsRemove

\* Every step is one of six kinds.
StepKinds(t) ==
    \/ \E m \in Messages : StartsMerge(t, m)
    \/ \E D \in SUBSET db.msgs : StartsRemove(t, D)
    \/ \E m \in Messages : MergeJob(t, m) /\ Reads(t, m)
    \/ GiveUp(t) /\ generator' = generate_id /\ UNCHANGED <<offered, undone, clock, setBack, raced>>
    \/ \E m \in Messages, e \in Events : generator' = generate_id /\ TakesId(t, m, e)
    \/ \E W \in SUBSET Messages : Writes(t, W)

\* The steps of the specification in the form the proofs below use.
LEMMA NextIsStep ==
    ASSUME Shape, Next
    PROVE  (\E t \in Threads : StepKinds(t)) \/ Tick
<1>1. ASSUME NEW t \in Threads, NEW m \in Messages, LockFid(t, m)
      PROVE  StepKinds(t)
  BY <1>1, LockEffect DEF StepKinds
<1>2. ASSUME NEW t \in Threads, NEW m \in Messages, StartRevoke(t, m)
      PROVE  StepKinds(t)
  <2>1. {m} \in SUBSET db.msgs /\ {m} # {}
    BY <1>2 DEF StartRevoke
  <2>2. /\ Begin(t, [Idle EXCEPT !.pc = "id", !.op = "revoke", !.todo = {m}, !.deleted = {m}], {m})
        /\ UNCHANGED <<db, byAddress, events, lock, offered, undone, clock, generator, setBack>>
    BY <1>2 DEF StartRevoke
  <2>3. StartsRemove(t, {m})
    BY <2>1, <2>2, RemoveEffect
  <2> QED
    BY <2>1, <2>3 DEF StepKinds
<1>3. ASSUME NEW t \in Threads, NEW l \in Locks, NEW n \in 1..Cardinality(Messages), StartPrune(t, l, n)
      PROVE  StepKinds(t)
  <2> DEFINE mine   == {m \in db.msgs : LockOf[m.key] = l}
             pruned == {m \in mine : Cardinality({o \in mine : Older(o, m)}) < n}
  <2>1. pruned \in SUBSET db.msgs /\ pruned # {}
    BY <1>3 DEF StartPrune
  <2>2. /\ Begin(t, [Idle EXCEPT !.pc = "id", !.op = "prune", !.todo = pruned, !.deleted = pruned], pruned)
        /\ UNCHANGED <<db, byAddress, events, lock, offered, undone, clock, generator, setBack>>
    BY <1>3 DEF StartPrune
  <2> HIDE DEF pruned
  <2>3. StartsRemove(t, pruned)
    BY <2>1, <2>2, RemoveEffect
  <2> QED
    BY <2>1, <2>3 DEF StepKinds
<1>4. ASSUME NEW t \in Threads, NEW m \in Messages, TakeEventId(t, m)
      PROVE  StepKinds(t)
  BY <1>4, TakeEffect DEF StepKinds
<1>5. ASSUME NEW t \in Threads, ReadRemoves(t) \/ ReadAdds(t) \/ ReadByAddress(t)
      PROVE  StepKinds(t)
  BY <1>5, ReadEffect DEF StepKinds
<1>6. ASSUME NEW t \in Threads, Commit(t)
      PROVE  StepKinds(t)
  BY <1>6, CommitEffect DEF StepKinds
<1> QED
  BY <1>1, <1>2, <1>3, <1>4, <1>5, <1>6 DEF Next

\* The job of t after a step of its own keeps one of the three shapes.
LEMMA OwnJobShape ==
    ASSUME Shape, NEW t \in Threads, StepKinds(t)
    PROVE  job'[t] = Idle \/ (\E m \in Messages : MergeJob(t, m)') \/ RemoveJob(t)'
<1> USE MessagesAssumption, NoneAssumption, ThreadsAssumption
<1>0. job \in [Threads -> Jobs] /\ job[t] \in Jobs
  BY DEF Shape, TypeOK
<1>1. ASSUME NEW m \in Messages, MergeJob(t, m), NEW X \in SUBSET db.msgs,
             NEW next \in {"adds", "address", "id"}, ReadsOn(t, m, X, next)
      PROVE  MergeJob(t, m)'
  <2>1. job'[t] = [job[t] EXCEPT !.deleted = @ \cup X, !.pc = next] /\ lock' = lock
    BY <1>1 DEF ReadsOn
  <2>2. /\ job'[t].deleted = job[t].deleted \cup X /\ job'[t].pc = next
        /\ job'[t].op = job[t].op /\ job'[t].todo = job[t].todo /\ job'[t].evs = job[t].evs
    BY <1>0, <2>1 DEF Jobs
  <2>3. job[t].pc \in {"removes", "adds", "address"}
    BY <1>1 DEF ReadsOn, Finds
  <2>4. next = "address" => is_add_type(m) /\ AddressOf[m.key] # None
    BY <1>1 DEF ReadsOn, Finds
  <2>5. job[t].todo = {m} /\ job[t].evs = {}
    BY <1>1, <2>3 DEF MergeJob
  <2>6. \A d \in X :
          \/ Beats(m, d)
          \/ /\ d.key # m.key /\ is_add_type(d) /\ is_add_type(m)
             /\ AddressOf[d.key] = AddressOf[m.key] /\ AddressOf[m.key] # None
    BY <1>1 DEF ReadsOn
  <2> QED
    BY <1>1, <2>1, <2>2, <2>4, <2>5, <2>6 DEF MergeJob
<1>2. ASSUME NEW n \in Messages, NEW e \in Events, TakesId(t, n, e)
      PROVE  (\E m \in Messages : MergeJob(t, m)') \/ RemoveJob(t)'
  <2>1. /\ job'[t] = [job[t] EXCEPT !.todo = @ \ {n}, !.evs = @ \cup {e},
                                    !.pc = IF job[t].todo = {n} THEN "commit" ELSE "id"]
        /\ lock' = lock /\ job[t].pc = "id" /\ n \in job[t].todo
        /\ e.op = job[t].op /\ e.msg = n /\ e.deleted = event_args(t, n)
    BY <1>2 DEF TakesId
  <2>2. /\ job'[t].deleted = job[t].deleted /\ job'[t].op = job[t].op
        /\ job'[t].todo = job[t].todo \ {n} /\ job'[t].evs = job[t].evs \cup {e}
        /\ job'[t].pc = IF job[t].todo = {n} THEN "commit" ELSE "id"
    BY <1>0, <2>1 DEF Jobs
  <2>3. job[t] # Idle
    BY <2>1 DEF Idle
  <2>4. ASSUME NEW m \in Messages, MergeJob(t, m)
        PROVE  MergeJob(t, m)'
    <3>1. job[t].op = "merge" /\ job[t].todo = {m} /\ job[t].evs = {} /\ n = m
      BY <2>1, <2>4 DEF MergeJob
    <3>2. /\ job'[t].pc = "commit" /\ job'[t].todo = {} /\ job'[t].evs = {e}
          /\ e.op = "merge" /\ e.msg = m /\ e.deleted = job[t].deleted
      BY <2>1, <2>2, <3>1 DEF event_args
    <3> QED
      BY <2>1, <2>2, <2>4, <3>1, <3>2 DEF MergeJob
  <2>5. ASSUME RemoveJob(t)
        PROVE  RemoveJob(t)'
    <3>1. e.op = job[t].op /\ e.deleted = {e.msg} /\ e.msg = n
      BY <2>1, <2>5 DEF event_args, RemoveJob
    <3>2. Subjects(job'[t]) = Subjects(job[t])
      BY <2>1, <2>2 DEF Subjects
    <3> QED
      BY <2>1, <2>2, <2>5, <3>1, <3>2 DEF RemoveJob
  <2> QED
    BY <2>3, <2>4, <2>5 DEF Shape, JobsInv
<1>3. ASSUME GiveUp(t)
      PROVE  job'[t] = Idle
  BY <1>3, GiveUpEffect DEF Shape
<1>4. ASSUME NEW m \in Messages, MergeJob(t, m), Reads(t, m)
      PROVE  job'[t] = Idle \/ MergeJob(t, m)'
  BY <1>1, <1>3, <1>4 DEF Reads, IsRefused
<1>5. ASSUME NEW W, Writes(t, W)
      PROVE  job'[t] = Idle
  BY <1>5 DEF Writes
<1>6. ASSUME NEW m \in Messages, StartsMerge(t, m)
      PROVE  MergeJob(t, m)'
  BY <1>6 DEF StartsMerge
<1>7. ASSUME NEW D, StartsRemove(t, D)
      PROVE  RemoveJob(t)'
  BY <1>7 DEF StartsRemove
<1> QED
  BY <1>2, <1>3, <1>4, <1>5, <1>6, <1>7 DEF StepKinds

\* A step of t is a step of nobody else.
LEMMA KindsAreSteps ==
    ASSUME Shape, NEW t \in Threads, StepKinds(t)
    PROVE  StepOf(t)
BY GiveUpEffect
   DEF Shape, StepKinds, StartsMerge, StartsRemove, Starts, Reads, IsRefused, ReadsOn, TakesId, Writes

\* Shape holds after every step.
LEMMA ShapeStep ==
    ASSUME Shape, [Next]_vars
    PROVE  Shape'
<1> USE MessagesAssumption, NoneAssumption, ThreadsAssumption
<1>1. CASE UNCHANGED vars
  BY <1>1 DEF vars, Shape, TypeOK, JobsInv, EntriesInv, AddressInv, MergeJob, RemoveJob, Subjects
<1>2. CASE Tick
  <2>1. TypeOK'
    BY <1>2 DEF Tick, Shape, TypeOK
  <2> QED
    BY <1>2, <2>1 DEF Tick, Shape, JobsInv, EntriesInv, AddressInv, MergeJob, RemoveJob, Subjects
<1>3. ASSUME NEW t \in Threads, StepKinds(t)
      PROVE  Shape'
  <2>1. JobsInv'
    <3> SUFFICES ASSUME NEW u \in Threads
                 PROVE  job'[u] = Idle \/ (\E m \in Messages : MergeJob(u, m)') \/ RemoveJob(u)'
      BY DEF JobsInv
    <3>1. CASE u = t
      BY <1>3, <3>1, OwnJobShape
    <3>2. CASE u # t
      <4>1. job'[u] = job[u] /\ StepOf(t)
        BY <1>3, <3>2, KindsAreSteps DEF StepOf
      <4> QED
        BY <3>2, <4>1, OthersKeepJobs DEF Shape, JobsInv
    <3> QED
      BY <3>1, <3>2
  <2>2. CASE \E W \in SUBSET Messages : Writes(t, W)
    <3>1. PICK W \in SUBSET Messages : Writes(t, W)
      BY <2>2
    <3>2. job[t] \in Jobs /\ \A m \in W : m.type \in {"add", "remove"}
      BY DEF Shape, TypeOK
    <3>3. TypeOK'
      <4>1. undone' \subseteq Messages
        BY <3>1, <3>2 DEF Shape, TypeOK, Writes, Jobs, Events
      <4> QED
        BY <3>1, <3>2, <4>1 DEF Shape, TypeOK, Writes, Jobs
    <3>4. EntriesInv'
      <4> SUFFICES ASSUME NEW k \in Keys
                   PROVE  /\ db'.adds[k] # None =>
                                /\ db'.adds[k] \in db'.msgs /\ db'.adds[k].key = k
                                /\ is_add_type(db'.adds[k])
                          /\ db'.removes[k] # None =>
                                /\ db'.removes[k] \in db'.msgs /\ db'.removes[k].key = k
                                /\ is_remove_type(db'.removes[k])
        BY DEF EntriesInv
      <4>1. /\ db.adds[k] # None =>
                  db.adds[k] \in db.msgs /\ db.adds[k].key = k /\ is_add_type(db.adds[k])
            /\ db.removes[k] # None =>
                  db.removes[k] \in db.msgs /\ db.removes[k].key = k /\ is_remove_type(db.removes[k])
        BY DEF Shape, EntriesInv
      <4>2. CASE \E m \in W : is_add_type(m) /\ m.key = k
        BY <3>1, <3>2, <4>1, <4>2 DEF Writes, is_add_type, is_remove_type
      <4>3. CASE \E m \in W : ~is_add_type(m) /\ m.key = k
        BY <3>1, <3>2, <4>1, <4>3 DEF Writes, is_add_type, is_remove_type
      <4>4. CASE ~\E m \in W : m.key = k
        BY <3>1, <4>1, <4>4 DEF Writes
      <4> QED
        BY <4>2, <4>3, <4>4
    <3>5. AddressInv'
      <4> SUFFICES ASSUME NEW a \in Addresses, byAddress'[a] # None
                   PROVE  AddressOf[byAddress'[a]] = a
        BY DEF AddressInv
      <4>1. CASE \E m \in W : is_add_type(m) /\ AddressOf[m.key] = a
        BY <3>1, <4>1 DEF Writes
      <4>2. CASE ~\E m \in W : is_add_type(m) /\ AddressOf[m.key] = a
        BY <3>1, <4>2 DEF Writes, Shape, AddressInv
      <4> QED
        BY <4>1, <4>2
    <3> QED
      BY <2>1, <3>3, <3>4, <3>5 DEF Shape
  <2>3. CASE ~\E W \in SUBSET Messages : Writes(t, W)
    <3>1. UNCHANGED <<db, byAddress, events, clock, setBack>>
      BY <1>3, <2>3, GiveUpEffect
         DEF Shape, StepKinds, StartsMerge, StartsRemove, Starts, Reads, IsRefused, ReadsOn, TakesId
    <3>2. job' \in [Threads -> Jobs] /\ lock' \in [Locks -> Threads \cup {None}]
      BY <1>3, <2>3, GiveUpEffect
         DEF Shape, TypeOK, StepKinds, StartsMerge, StartsRemove, Starts, Reads, IsRefused, ReadsOn, TakesId
    <3>3. offered' \subseteq Messages /\ undone' \subseteq Messages /\ raced' \subseteq Addresses
      BY <1>3, <2>3
         DEF Shape, TypeOK, StepKinds, StartsMerge, StartsRemove, Starts, Reads, IsRefused, ReadsOn, TakesId
    <3>4. generator' \in [last_timestamp : 0..MaxClock, last_seq : 0..SequenceLimit]
      <4>1. generator' = generator \/ generator' = generate_id
        BY <1>3, <2>3
           DEF StepKinds, StartsMerge, StartsRemove, Starts, Reads, IsRefused, ReadsOn
      <4>2. /\ generate_id \in [last_timestamp : 0..MaxClock, last_seq : 0..SequenceLimit]
            /\ generator \in [last_timestamp : 0..MaxClock, last_seq : 0..SequenceLimit]
        BY GeneratorType DEF Shape, TypeOK
      <4> QED
        BY <3>1, <4>1, <4>2
    <3>5. TypeOK'
      BY <3>1, <3>2, <3>3, <3>4 DEF Shape, TypeOK
    <3> QED
      BY <2>1, <3>1, <3>5 DEF Shape, EntriesInv, AddressInv
  <2> QED
    BY <2>2, <2>3
<1> QED
  BY <1>1, <1>2, <1>3, NextIsStep

\* Shape holds initially.
LEMMA ShapeInit ==
    ASSUME Init
    PROVE  Shape
<1> USE MessagesAssumption, NoneAssumption, ThreadsAssumption
<1>1. TypeOK
  BY DEF Init, TypeOK, EmptyStore, Store, Idle, Jobs
<1>2. JobsInv
  BY DEF Init, JobsInv
<1>3. EntriesInv /\ AddressInv
  BY DEF Init, EntriesInv, AddressInv, EmptyStore
<1> QED
  BY <1>1, <1>2, <1>3 DEF Shape

-----------------------------------------------------------------------------
(* Event ids.                                                              *)

AllEvents == events \cup UNION {job[t].evs : t \in Threads}

\* What the next id is above.
IdBound ==
    generator.last_timestamp * SequenceLimit
        + IF generator.last_seq < SequenceLimit THEN generator.last_seq + 1 ELSE SequenceLimit

\* While the clock has not gone back, the generator is not ahead of it, and every id
\* handed out, committed or pending, is below the generator's next one.
IdsInv ==
    setBack = 0 => /\ generator.last_timestamp <= clock
                   /\ \A e \in AllEvents : e.id < IdBound
                   /\ EventIdsUnique

\* The ids of a later millisecond lie above all the ids of an earlier one.
LEMMA LaterMillisecond ==
    ASSUME NEW t \in Nat, NEW u \in Nat, t < u, NEW L \in Nat \ {0}
    PROVE  t * L + L <= u * L
<1>1. u - t - 1 \in Nat
  OBVIOUS
<1>2. (u - t - 1) * L >= 0
  BY <1>1
<1>3. (u - t - 1) * L = u * L - t * L - L
  OBVIOUS
<1> QED
  BY <1>2, <1>3

\* The generator's bound never falls, and an id it does not refuse lies between the
\* old bound and the new one.
LEMMA NewIdIsAbove ==
    ASSUME TypeOK, generator.last_timestamp <= clock, generator' = generate_id
    PROVE  /\ generator'.last_timestamp <= clock
           /\ IdBound \in Nat /\ IdBound' \in Nat
           /\ IdBound <= IdBound'
           /\ ~sequence_exhausted =>
                 LET id == make_event_id(generate_id.last_timestamp, generate_id.last_seq)
                 IN  IdBound <= id /\ id < IdBound'
<1> DEFINE L == SequenceLimit
           T == generator.last_timestamp
           S == generator.last_seq
<1>1. /\ L \in Nat \ {0} /\ T \in Nat /\ S \in Nat /\ S <= L
      /\ clock \in Nat /\ T <= clock
  BY ThreadsAssumption DEF TypeOK
<1>2. IdBound = T * L + IF S < L THEN S + 1 ELSE L
  BY DEF IdBound
<1>3. generator \in [last_timestamp : 0..MaxClock, last_seq : 0..SequenceLimit]
  BY DEF TypeOK
<1>4. generate_id = IF clock = T THEN [last_timestamp |-> T, last_seq |-> IF S < L THEN S + 1 ELSE S]
                    ELSE [last_timestamp |-> clock, last_seq |-> 0]
  BY <1>3 DEF generate_id
<1> HIDE DEF L, T, S
<1>5. T * L \in Nat /\ clock * L \in Nat
  BY <1>1
<1>6. CASE clock = T
  <2> DEFINE N == IF S < L THEN S + 1 ELSE S
  <2>1. generate_id.last_timestamp = T /\ generate_id.last_seq = N
    BY <1>4, <1>6
  <2>2. IdBound' = T * L + IF N < L THEN N + 1 ELSE L
    BY <2>1 DEF IdBound, L
  <2>3. sequence_exhausted <=> N >= L
    BY <2>1 DEF sequence_exhausted, L
  <2>4. N < L => N % L = N
    BY <1>1
  <2>5. N < L => make_event_id(T, N) = T * L + N
    BY <2>4 DEF make_event_id, L
  <2> QED
    BY <1>1, <1>2, <1>5, <2>1, <2>2, <2>3, <2>5
<1>7. CASE clock # T
  <2>1. generate_id.last_timestamp = clock /\ generate_id.last_seq = 0
    BY <1>4, <1>7
  <2>2. IdBound' = clock * L + 1
    BY <1>1, <2>1 DEF IdBound, L
  <2>3. make_event_id(clock, 0) = clock * L
    <3>1. 0 % L = 0
      BY <1>1
    <3> QED
      BY <1>5, <3>1 DEF make_event_id, L
  <2>4. T * L + L <= clock * L
    BY <1>1, <1>7, LaterMillisecond
  <2> QED
    BY <1>1, <1>2, <1>5, <2>1, <2>2, <2>3, <2>4
<1> QED
  BY <1>6, <1>7

\* A clock that was not set back after a step was not set back before it.
LEMMA ClockForward ==
    ASSUME Shape, [Next]_vars, setBack' = 0
    PROVE  setBack = 0 /\ (clock' = clock \/ clock < clock')
<1> USE ThreadsAssumption
<1>0. setBack \in Nat /\ clock \in 1..MaxClock
  BY DEF Shape, TypeOK
<1>1. CASE UNCHANGED vars
  BY <1>1 DEF vars
<1>2. CASE Tick
  BY <1>0, <1>2 DEF Tick
<1>3. ASSUME NEW t \in Threads, StepKinds(t)
      PROVE  setBack' = setBack /\ clock' = clock
  BY <1>3 DEF StepKinds, StartsMerge, StartsRemove, Starts, Reads, IsRefused, ReadsOn, TakesId, Writes
<1> QED
  BY <1>1, <1>2, <1>3, NextIsStep

\* IdsInv holds after every step: a step adds at most one event, with a fresh id.
LEMMA IdsStep ==
    ASSUME Shape, IdsInv, [Next]_vars
    PROVE  IdsInv'
<1> SUFFICES ASSUME setBack' = 0
             PROVE  /\ generator'.last_timestamp <= clock'
                    /\ \A e \in AllEvents' : e.id < IdBound'
                    /\ EventIdsUnique'
  BY DEF IdsInv
<1> DEFINE Goal == /\ generator'.last_timestamp <= clock'
                   /\ \A e \in AllEvents' : e.id < IdBound'
                   /\ EventIdsUnique'
<1>0. /\ setBack = 0 /\ (clock' = clock \/ clock < clock')
      /\ generator.last_timestamp <= clock
      /\ \A e \in AllEvents : e.id < IdBound
      /\ \A e, f \in AllEvents : e.id = f.id => e = f
  BY ClockForward DEF IdsInv, EventIdsUnique, AllEvents
<1>1. TypeOK /\ TypeOK'
  BY ShapeStep DEF Shape
<1>2. \A e \in AllEvents : e \in Events
  BY <1>1 DEF AllEvents, TypeOK, Jobs
<1>3. ASSUME AllEvents' \subseteq AllEvents, generator' = generator \/ (generator' = generate_id /\ clock' = clock)
      PROVE  Goal
  <2>1. /\ IdBound \in Nat /\ IdBound' \in Nat /\ IdBound <= IdBound'
        /\ generator'.last_timestamp <= clock'
    <3>1. CASE generator' = generate_id /\ clock' = clock
      BY <1>0, <1>1, <3>1, NewIdIsAbove
    <3>2. CASE generator' = generator
      <4>1. IdBound' = IdBound
        BY <3>2 DEF IdBound
      <4>2. /\ generator.last_timestamp \in Nat /\ generator.last_seq \in Nat /\ SequenceLimit \in Nat
            /\ clock \in Nat /\ clock' \in Nat
        BY <1>1, ThreadsAssumption DEF TypeOK
      <4>3. generator.last_timestamp * SequenceLimit \in Nat
        BY <4>2
      <4>4. IdBound \in Nat
        BY <4>2, <4>3 DEF IdBound
      <4> QED
        BY <1>0, <3>2, <4>1, <4>2, <4>4
    <3> QED
      BY <1>3, <3>1, <3>2
  <2>2. \A e \in AllEvents' : e.id < IdBound'
    <3> SUFFICES ASSUME NEW e \in AllEvents'
                 PROVE  e.id < IdBound'
      OBVIOUS
    <3>1. e \in Events /\ e.id < IdBound
      BY <1>0, <1>2, <1>3
    <3> QED
      BY <2>1, <3>1 DEF Events
  <2>3. EventIdsUnique'
    BY <1>0, <1>3 DEF EventIdsUnique, AllEvents
  <2> QED
    BY <2>1, <2>2, <2>3
<1>4. ASSUME NEW t \in Threads, StepOf(t), job'[t].evs \subseteq job[t].evs, events' = events
      PROVE  AllEvents' \subseteq AllEvents
  <2>1. \A u \in Threads : job'[u].evs \subseteq job[u].evs
    BY <1>4 DEF StepOf
  <2> QED
    BY <1>4, <2>1 DEF AllEvents
<1>5. ASSUME NEW t \in Threads, GiveUp(t)
      PROVE  AllEvents' \subseteq AllEvents
  <2>1. StepOf(t) /\ job'[t] = Idle /\ events' = events
    BY <1>1, <1>5, GiveUpEffect
  <2> QED
    BY <1>4, <2>1 DEF Idle
<1>6. ASSUME NEW t \in Threads, NEW m \in Messages, NEW e \in Events, TakesId(t, m, e), generator' = generate_id
      PROVE  Goal
  <2>1. /\ job[t] \in Jobs
        /\ job'[t].evs = job[t].evs \cup {e} /\ StepOf(t) /\ events' = events
        /\ IdBound <= e.id /\ e.id < IdBound' /\ IdBound <= IdBound'
        /\ IdBound \in Nat /\ IdBound' \in Nat /\ generator'.last_timestamp <= clock'
    BY <1>0, <1>1, <1>6, NewIdIsAbove DEF TakesId, TypeOK, Jobs
  <2>2. \A u \in Threads : job'[u].evs \subseteq job[u].evs \cup {e}
    BY <2>1 DEF StepOf
  <2>3. AllEvents' \subseteq AllEvents \cup {e}
    BY <2>1, <2>2 DEF AllEvents
  <2>4. \A f \in AllEvents : f.id \in Nat /\ f.id < IdBound
    BY <1>0, <1>2 DEF Events
  <2>5. \A f \in AllEvents' : f.id < IdBound'
    BY <2>1, <2>3, <2>4 DEF Events
  <2>6. \A f, g \in AllEvents' : f.id = g.id => f = g
    <3> SUFFICES ASSUME NEW f \in AllEvents', NEW g \in AllEvents', f.id = g.id
                 PROVE  f = g
      OBVIOUS
    <3>1. CASE f \in AllEvents /\ g \in AllEvents
      BY <1>0, <3>1
    <3>2. CASE f = e \/ g = e
      BY <2>1, <2>3, <2>4, <3>2 DEF Events
    <3> QED
      BY <2>3, <3>1, <3>2
  <2> QED
    BY <2>1, <2>5, <2>6 DEF EventIdsUnique, AllEvents
<1>7. ASSUME NEW t \in Threads, NEW W, Writes(t, W)
      PROVE  AllEvents' \subseteq AllEvents
  <2>1. StepOf(t) /\ job'[t].evs = {} /\ events' \subseteq events \cup job[t].evs
    BY <1>7 DEF Writes, Idle
  <2>2. \A u \in Threads : job'[u].evs \subseteq job[u].evs
    BY <2>1 DEF StepOf
  <2> QED
    BY <2>1, <2>2 DEF AllEvents
<1>8. ASSUME NEW t \in Threads, NEW m \in Messages, Reads(t, m)
      PROVE  AllEvents' \subseteq AllEvents /\ generator' = generator
  <2>1. CASE IsRefused(t, m)
    BY <1>5, <2>1 DEF IsRefused
  <2>2. ASSUME NEW X, NEW next, ReadsOn(t, m, X, next)
        PROVE  AllEvents' \subseteq AllEvents /\ generator' = generator
    <3>1. /\ StepOf(t) /\ events' = events /\ generator' = generator
          /\ job'[t] = [job[t] EXCEPT !.deleted = @ \cup X, !.pc = next]
      BY <2>2 DEF ReadsOn
    <3>2. job[t] \in Jobs
      BY <1>1 DEF TypeOK
    <3>3. job'[t].evs = job[t].evs
      BY <3>1, <3>2 DEF Jobs
    <3> QED
      BY <1>4, <3>1, <3>3
  <2> QED
    BY <1>8, <2>1, <2>2 DEF Reads
<1>9. ASSUME NEW t \in Threads, NEW M, Starts(t, M)
      PROVE  AllEvents' \subseteq AllEvents /\ generator' = generator
  BY <1>4, <1>9 DEF Starts
<1>10. ASSUME NEW t \in Threads, StepKinds(t)
       PROVE  Goal
  <2>1. CASE \E m \in Messages, e \in Events : generator' = generate_id /\ TakesId(t, m, e)
    BY <1>6, <2>1
  <2>2. CASE ~\E m \in Messages, e \in Events : generator' = generate_id /\ TakesId(t, m, e)
    <3>1. AllEvents' \subseteq AllEvents /\ (generator' = generator \/ (generator' = generate_id /\ clock' = clock))
      <4>1. ASSUME NEW W, Writes(t, W)
            PROVE  generator' = generator
        BY <4>1 DEF Writes
      <4> QED
        BY <1>5, <1>7, <1>8, <1>9, <1>10, <2>2, <4>1 DEF StepKinds, StartsMerge, StartsRemove
    <3> QED
      BY <1>3, <3>1
  <2> QED
    BY <2>1, <2>2
<1>11. CASE UNCHANGED vars \/ Tick
  <2>1. AllEvents' = AllEvents /\ generator' = generator
    BY <1>11 DEF vars, Tick, AllEvents
  <2> QED
    BY <1>3, <2>1
<1> QED
  BY <1>10, <1>11, NextIsStep

-----------------------------------------------------------------------------
(* Who may work on what at the same time.                                  *)

\* An address that is not marked as raced has at most one operation at work on it.
ExclusionInv ==
    \A a \in Addresses \ raced : \A t, u \in Threads : a \in Working(t) \cap Working(u) => t = u

\* Nothing interferes with the merges of this key: nothing of its fid was revoked or
\* pruned, or, where the fid lock does not suffice, no two operations met at its address.
Clean(k) == IF AddressOf[k] = None THEN OnlyMerged(LockOf[k]) ELSE AddressOf[k] \notin raced

\* A merge is about one message.
LEMMA MergeSubject ==
    ASSUME NEW t \in Threads, NEW m \in Messages, MergeJob(t, m)
    PROVE  Subjects(job[t]) = {m}
BY DEF MergeJob, Subjects

\* The same about the next state.
LEMMA MergeSubjectNext ==
    ASSUME NEW t \in Threads, NEW m \in Messages, MergeJob(t, m)'
    PROVE  Subjects(job'[t]) = {m}
BY DEF MergeJob, Subjects

\* What a thread is about changes only when it begins and when it ends.
LEMMA SubjectsKept ==
    ASSUME Shape, NEW t \in Threads, StepKinds(t)
    PROVE  \/ \E M \in SUBSET Messages : Starts(t, M) /\ Subjects(job'[t]) = M
           \/ Subjects(job'[t]) = Subjects(job[t]) /\ raced' = raced
           \/ job'[t] = Idle /\ Subjects(job'[t]) = {} /\ raced' = raced
<1>1. job[t] \in Jobs
  BY DEF Shape, TypeOK
<1>2. job'[t] = Idle => Subjects(job'[t]) = {}
  BY DEF Subjects, Idle
<1>3. ASSUME NEW M \in SUBSET Messages, Starts(t, M)
      PROVE  Subjects(job'[t]) = M
  BY <1>3 DEF Starts, Subjects
<1>4. ASSUME NEW m \in Messages, NEW X, NEW next, ReadsOn(t, m, X, next)
      PROVE  Subjects(job'[t]) = Subjects(job[t]) /\ raced' = raced
  <2>1. job'[t].todo = job[t].todo /\ job'[t].evs = job[t].evs
    BY <1>1, <1>4 DEF ReadsOn, Jobs
  <2> QED
    BY <1>4, <2>1 DEF ReadsOn, Subjects
<1>5. ASSUME NEW m \in Messages, NEW e \in Events, TakesId(t, m, e)
      PROVE  Subjects(job'[t]) = Subjects(job[t]) /\ raced' = raced
  <2>1. job'[t].todo = job[t].todo \ {m} /\ job'[t].evs = job[t].evs \cup {e} /\ e.msg = m /\ m \in job[t].todo
    BY <1>1, <1>5 DEF TakesId, Jobs
  <2> QED
    BY <1>5, <2>1 DEF TakesId, Subjects
<1>6. ASSUME NEW m \in Messages, Reads(t, m)
      PROVE  raced' = raced /\ (job'[t] = Idle \/ Subjects(job'[t]) = Subjects(job[t]))
  <2>1. CASE IsRefused(t, m)
    BY <2>1, GiveUpEffect DEF IsRefused, Shape
  <2> QED
    BY <1>4, <1>6, <2>1 DEF Reads
<1>7. ASSUME NEW W, Writes(t, W)
      PROVE  job'[t] = Idle /\ raced' = raced
  BY <1>7 DEF Writes
<1>8. ASSUME GiveUp(t)
      PROVE  job'[t] = Idle
  BY <1>8, GiveUpEffect DEF Shape
<1>9. ASSUME NEW D \in SUBSET db.msgs
      PROVE  D \in SUBSET Messages
  BY DEF Shape, TypeOK, Store
<1>10. ASSUME (\E m \in Messages : StartsMerge(t, m)) \/ (\E D \in SUBSET db.msgs : StartsRemove(t, D))
       PROVE  \E M \in SUBSET Messages : Starts(t, M)
  <2>1. \A m \in Messages : {m} \in SUBSET Messages
    OBVIOUS
  <2> QED
    BY <1>9, <1>10, <2>1 DEF StartsMerge, StartsRemove
<1> QED
  BY <1>2, <1>3, <1>5, <1>6, <1>7, <1>8, <1>10 DEF StepKinds

\* ExclusionInv holds after every step.
LEMMA ExclusionStep ==
    ASSUME Shape, ExclusionInv, [Next]_vars
    PROVE  ExclusionInv'
<1>0. \A u \in Threads : Working(u) = AddressesOf(Subjects(job[u])) /\ Working(u)' = AddressesOf(Subjects(job'[u]))
  BY DEF Working, Subjects, AddressesOf
<1>1. CASE UNCHANGED vars \/ Tick
  <2>1. job' = job /\ raced' = raced
    BY <1>1 DEF vars, Tick
  <2>2. \A u \in Threads : Working(u)' = Working(u)
    BY <1>0, <2>1
  <2> QED
    BY <2>1, <2>2 DEF ExclusionInv
<1>2. ASSUME NEW t \in Threads, StepKinds(t)
      PROVE  ExclusionInv'
  <2>1. \A u \in Threads \ {t} : Working(u)' = Working(u)
    BY <1>0, <1>2, KindsAreSteps DEF StepOf
  <2>2. CASE \E M \in SUBSET Messages : Starts(t, M) /\ Subjects(job'[t]) = M
    <3>1. PICK M \in SUBSET Messages : Starts(t, M) /\ Subjects(job'[t]) = M
      BY <2>2
    <3>2. raced' = raced \cup (AddressesOf(M) \cap UNION {Working(u) : u \in Threads})
      BY <3>1 DEF Starts
    <3>3. Working(t)' = AddressesOf(M)
      BY <1>0, <3>1
    <3>4. ASSUME NEW a \in Addresses \ raced', NEW u \in Threads, NEW v \in Threads,
                 a \in Working(u)', a \in Working(v)'
          PROVE  u = v
      BY <2>1, <3>2, <3>3, <3>4 DEF ExclusionInv
    <3> QED
      BY <3>4 DEF ExclusionInv
  <2>3. CASE raced' = raced /\ (Subjects(job'[t]) = Subjects(job[t]) \/ Subjects(job'[t]) = {})
    <3>1. Working(t)' \subseteq Working(t)
      BY <1>0, <2>3 DEF AddressesOf
    <3> QED
      BY <2>1, <2>3, <3>1 DEF ExclusionInv
  <2> QED
    BY <1>2, <2>2, <2>3, SubjectsKept
<1> QED
  BY <1>1, <1>2, NextIsStep

\* A commit adds its events to the log and overwrites none, if the clock was not set back.
LEMMA LogGrows ==
    ASSUME IdsInv, setBack = 0, NEW t \in Threads, NEW W, Writes(t, W)
    PROVE  events' = events \cup job[t].evs
<1>1. \A e \in events, f \in job[t].evs : f.id = e.id => f = e
  BY DEF IdsInv, EventIdsUnique
<1>2. events' = {e \in events : \A f \in job[t].evs : f.id # e.id} \cup job[t].evs
  BY DEF Writes
<1> QED
  BY <1>1, <1>2

\* Only a commit changes the store, the log, the entries by address.
LEMMA OnlyCommitsWrite ==
    ASSUME Shape, NEW t \in Threads, StepKinds(t), ~\E W \in SUBSET Messages : Writes(t, W)
    PROVE  UNCHANGED <<db, byAddress, events>>
BY GiveUpEffect
   DEF Shape, StepKinds, StartsMerge, StartsRemove, Starts, Reads, IsRefused, ReadsOn, TakesId

\* A key that is clean after a step was clean before it.
LEMMA CleanShrinks ==
    ASSUME Shape, IdsInv, NEW t \in Threads, StepKinds(t)
    PROVE  /\ undone \subseteq undone' /\ raced \subseteq raced'
           /\ \A l \in Locks : OnlyMerged(l)' => OnlyMerged(l)
           /\ \A k \in Keys : Clean(k)' => Clean(k)
<1>1. undone \subseteq undone'
  BY DEF StepKinds, StartsMerge, StartsRemove, Starts, Reads, IsRefused, ReadsOn, TakesId, Writes
<1>2. raced \subseteq raced'
  BY SubjectsKept DEF Starts
<1>3. \A l \in Locks : OnlyMerged(l)' => OnlyMerged(l)
  BY <1>1 DEF OnlyMerged, OfFid
<1> QED
  BY <1>1, <1>2, <1>3, ThreadsAssumption DEF Clean

\* While an operation of u is at work on an address that is not raced, no other thread
\* writes anything about that address.
LEMMA AddressApart ==
    ASSUME Shape, ExclusionInv, NEW t \in Threads, NEW u \in Threads \ {t},
           NEW W \in SUBSET Messages, Writes(t, W),
           NEW x \in Subjects(job[u]), AddressOf[x.key] # None, AddressOf[x.key] \notin raced,
           NEW d \in job[t].deleted \cup W
    PROVE  AddressOf[d.key] # AddressOf[x.key]
<1> USE MessagesAssumption, ThreadsAssumption
<1> SUFFICES ASSUME AddressOf[d.key] = AddressOf[x.key]
             PROVE  FALSE
  OBVIOUS
<1>1. job[t] \in Jobs /\ job[u] \in Jobs /\ x \in Messages /\ d \in Messages
  BY DEF Shape, TypeOK, Jobs, Subjects, Events
<1>2. AddressOf[x.key] \in Addresses
  BY <1>1 DEF Addresses
<1>3. PICK y \in Subjects(job[t]) : AddressOf[y.key] = AddressOf[d.key]
  <2>1. CASE W = {} /\ RemoveJob(t)
    BY <2>1 DEF RemoveJob
  <2>2. ASSUME NEW m \in Messages, W = {m}, MergeJob(t, m)
        PROVE  \E y \in Subjects(job[t]) : AddressOf[y.key] = AddressOf[d.key]
    <3>1. m \in Subjects(job[t])
      BY <2>2, MergeSubject
    <3>2. AddressOf[m.key] = AddressOf[d.key]
      BY <2>2 DEF MergeJob, Beats
    <3> QED
      BY <3>1, <3>2
  <2> QED
    BY <2>1, <2>2 DEF Writes
<1>4. AddressOf[x.key] \in Working(t) /\ AddressOf[x.key] \in Working(u)
  BY <1>3 DEF Working, Subjects, AddressesOf
<1> QED
  BY <1>2, <1>4 DEF ExclusionInv

\* While u merges m, no other thread writes anything about the key of m, as long as the
\* key stays clean: a merge does not get the lock, a revoke or a prune would show in
\* the history.
LEMMA KeyApart ==
    ASSUME Shape, IdsInv, ExclusionInv, NEW t \in Threads, NEW u \in Threads \ {t},
           NEW W \in SUBSET Messages, Writes(t, W),
           NEW m \in Messages, MergeJob(u, m), Clean(m.key)',
           NEW d \in job[t].deleted \cup W
    PROVE  d.key # m.key /\ (AddressOf[m.key] # None => AddressOf[d.key] # AddressOf[m.key])
<1> USE MessagesAssumption, ThreadsAssumption
<1>1. m \in Subjects(job[u])
  BY MergeSubject
<1>2. CASE AddressOf[m.key] # None
  <2>1. AddressOf[m.key] \notin raced
    BY <1>2 DEF Clean, Writes
  <2> QED
    BY <1>1, <1>2, <2>1, AddressApart
<1>3. CASE AddressOf[m.key] = None
  <2> SUFFICES ASSUME d.key = m.key
               PROVE  FALSE
    BY <1>3
  <2>1. CASE W = {} /\ RemoveJob(t)
    <3>1. d \in Subjects(job[t]) /\ job[t].todo = {}
      BY <2>1 DEF RemoveJob, Writes
    <3>2. PICK e \in job[t].evs : e.msg = d /\ e.op # "merge"
      BY <2>1, <3>1 DEF Subjects, RemoveJob
    <3>3. d \in undone'
      BY <3>2 DEF Writes
    <3>4. d \in Messages
      BY <3>1 DEF Shape, TypeOK, Jobs, Subjects, Events
    <3> QED
      BY <1>3, <3>2, <3>3, <3>4 DEF Clean, OnlyMerged, OfFid
  <2>2. ASSUME NEW n \in Messages, W = {n}, MergeJob(t, n)
        PROVE  FALSE
    <3>1. n.key = m.key
      BY <1>3, <2>2 DEF MergeJob, Beats
    <3> QED
      BY <2>2, <3>1 DEF MergeJob
  <2> QED
    BY <2>1, <2>2 DEF Writes
<1> QED
  BY <1>2, <1>3

\* A commit that deletes and merges nothing about a key leaves its entries alone.
LEMMA KeyUntouched ==
    ASSUME NEW t \in Threads, NEW W \in SUBSET Messages, Writes(t, W), NEW k \in Keys,
           \A d \in job[t].deleted \cup W : d.key # k
    PROVE  /\ db'.adds[k] = db.adds[k] /\ db'.removes[k] = db.removes[k]
           /\ \A x : x.key = k => (x \in db'.msgs <=> x \in db.msgs)
BY DEF Writes

-----------------------------------------------------------------------------
(* What a thread has read is still so.                                     *)

\* What t, which merges m, has read so far is what it would read now: everything it
\* will delete is stored, and nothing has come up since that it does not delete.
CurrentReads(t, m) ==
    LET j == job[t]
    IN  /\ j.deleted \subseteq db.msgs
        /\ j.pc \in {"adds", "address", "id", "commit"} => {db.removes[m.key]} \ {None} \subseteq j.deleted
        /\ j.pc \in {"address", "id", "commit"} => {db.adds[m.key]} \ {None} \subseteq j.deleted
        /\ j.pc \in {"id", "commit"} /\ is_add_type(m) /\ AddressOf[m.key] # None =>
              rival(m) \subseteq j.deleted

\* The part about removals is needed only at addresses: elsewhere a removal unmakes Clean.
CurrentTargets(t) ==
    \A d \in job[t].deleted : AddressOf[d.key] # None /\ Clean(d.key) => d \in db.msgs

ReadsInv ==
    \A t \in Threads :
        /\ \A m \in Messages : MergeJob(t, m) /\ Clean(m.key) => CurrentReads(t, m)
        /\ RemoveJob(t) => CurrentTargets(t)

\* A commit of t leaves what u read as it was.
LEMMA OthersReadsKept ==
    ASSUME Shape, IdsInv, ExclusionInv, ReadsInv,
           NEW t \in Threads, NEW u \in Threads \ {t}, StepKinds(t),
           NEW W \in SUBSET Messages, Writes(t, W),
           NEW m \in Messages, MergeJob(u, m), Clean(m.key)'
    PROVE  CurrentReads(u, m)'
<1> USE MessagesAssumption, ThreadsAssumption
<1>1. \A d \in job[t].deleted \cup W :
         d.key # m.key /\ (AddressOf[m.key] # None => AddressOf[d.key] # AddressOf[m.key])
  BY KeyApart
<1>2. CurrentReads(u, m) /\ m.key \in Keys
  BY CleanShrinks DEF ReadsInv
<1>3. job'[u] = job[u]
  BY DEF Writes, StepOf
<1>4. db'.adds[m.key] = db.adds[m.key] /\ db'.removes[m.key] = db.removes[m.key]
  BY <1>1, <1>2, KeyUntouched
<1>5. job[u].deleted \subseteq db'.msgs
  <2> SUFFICES ASSUME NEW d \in job[u].deleted
               PROVE  d \in db'.msgs
    OBVIOUS
  <2>1. d.key = m.key \/ (AddressOf[m.key] # None /\ AddressOf[d.key] = AddressOf[m.key])
    BY DEF MergeJob, Beats
  <2>2. d \notin job[t].deleted
    BY <1>1, <2>1
  <2> QED
    BY <1>2, <2>2 DEF CurrentReads, Writes
<1>6. ASSUME is_add_type(m), AddressOf[m.key] # None
      PROVE  rival(m)' = rival(m)
  <2> DEFINE a == AddressOf[m.key]
  <2>1. a \in Addresses
    BY <1>2, <1>6 DEF Addresses
  <2>2. byAddress'[a] = byAddress[a]
    BY <1>1, <1>6, <2>1 DEF Writes
  <2>3. byAddress[a] # None => byAddress[a] \in Keys /\ AddressOf[byAddress[a]] = a
    BY <2>1 DEF Shape, TypeOK, AddressInv
  <2>4. byAddress[a] # None => db'.adds[byAddress[a]] = db.adds[byAddress[a]]
    <3>1. \A d \in job[t].deleted \cup W : byAddress[a] # None => d.key # byAddress[a]
      BY <1>1, <1>6, <2>3
    <3> QED
      BY <2>3, <3>1, KeyUntouched
  <2> QED
    BY <2>2, <2>4 DEF rival
<1> QED
  BY <1>2, <1>3, <1>4, <1>5, <1>6 DEF CurrentReads

\* A read or an id taken leaves t with reads that are current.
LEMMA OwnReadsCurrent ==
    ASSUME Shape, ReadsInv, NEW t \in Threads, StepKinds(t),
           ~\E W \in SUBSET Messages : Writes(t, W),
           NEW m \in Messages, MergeJob(t, m)', Clean(m.key)
    PROVE  CurrentReads(t, m)'
<1>1. UNCHANGED <<db, byAddress, events>>
  BY OnlyCommitsWrite
<1>2. job[t] \in Jobs /\ job'[t].pc # "idle" /\ job'[t] # Idle
  BY DEF Shape, TypeOK, MergeJob, Idle
<1>3. rival(m)' = rival(m)
  BY <1>1 DEF rival
<1>4. Subjects(job'[t]) = {m}
  BY MergeSubjectNext
<1>5. ASSUME NEW n \in Messages, StartsMerge(t, n)
      PROVE  CurrentReads(t, m)'
  BY <1>5 DEF StartsMerge, CurrentReads
<1>6. ASSUME NEW n \in Messages, MergeJob(t, n), NEW X \in SUBSET db.msgs, NEW next, ReadsOn(t, n, X, next)
      PROVE  CurrentReads(t, m)'
  <2>1. /\ job'[t].deleted = job[t].deleted \cup X /\ job'[t].pc = next
        /\ job'[t].todo = job[t].todo /\ job'[t].evs = job[t].evs
    BY <1>2, <1>6 DEF ReadsOn, Jobs
  <2>2. n = m
    BY <1>4, <1>6, <2>1, MergeSubject DEF Subjects
  <2>3. CurrentReads(t, m)
    BY <1>6, <2>2 DEF ReadsInv
  <2>4. Finds(t, m, X, next)
    BY <1>6, <2>2 DEF ReadsOn
  <2> QED
    BY <1>1, <1>3, <2>1, <2>3, <2>4 DEF CurrentReads, Finds
<1>7. ASSUME NEW n \in Messages, NEW e \in Events, TakesId(t, n, e)
      PROVE  CurrentReads(t, m)'
  <2>1. /\ job[t].pc = "id" /\ job'[t].deleted = job[t].deleted
        /\ job'[t].op = job[t].op
    BY <1>2, <1>7 DEF TakesId, Jobs
  <2>2. Subjects(job'[t]) = Subjects(job[t])
    <3>1. job'[t].todo = job[t].todo \ {n} /\ job'[t].evs = job[t].evs \cup {e} /\ e.msg = n /\ n \in job[t].todo
      BY <1>2, <1>7 DEF TakesId, Jobs
    <3> QED
      BY <3>1 DEF Subjects
  <2>3. MergeJob(t, m)
    <3>1. ~RemoveJob(t) /\ job[t] # Idle
      BY <2>1 DEF RemoveJob, MergeJob, Idle
    <3>2. PICK x \in Messages : MergeJob(t, x)
      BY <3>1 DEF Shape, JobsInv
    <3>3. x = m
      BY <1>4, <2>2, <3>2, MergeSubject
    <3> QED
      BY <3>2, <3>3
  <2>4. CurrentReads(t, m)
    BY <2>3 DEF ReadsInv
  <2> QED
    BY <1>1, <1>3, <2>1, <2>4 DEF CurrentReads
<1>8. ~GiveUp(t)
  BY <1>2, GiveUpEffect DEF Shape
<1>9. ASSUME NEW D, StartsRemove(t, D)
      PROVE  FALSE
  BY <1>9 DEF StartsRemove, RemoveJob, MergeJob
<1> QED
  BY <1>5, <1>6, <1>7, <1>8, <1>9 DEF StepKinds, Reads, IsRefused

\* What a removal has set out to delete is still stored, at an address nobody else met.
LEMMA TargetsCurrent ==
    ASSUME Shape, IdsInv, ExclusionInv, ReadsInv, NEW t \in Threads, StepKinds(t), NEW u \in Threads, RemoveJob(u)'
    PROVE  CurrentTargets(u)'
<1> USE MessagesAssumption, ThreadsAssumption
<1>0. job[u] \in Jobs /\ job[t] \in Jobs
  BY DEF Shape, TypeOK
<1>1. CASE u # t
  <2>1. job'[u] = job[u] /\ RemoveJob(u)
    BY <1>1, KindsAreSteps, OthersKeepJobs DEF StepOf
  <2>2. CASE \E W \in SUBSET Messages : Writes(t, W)
    <3>1. PICK W \in SUBSET Messages : Writes(t, W)
      BY <2>2
    <3>2. ASSUME NEW d \in job[u].deleted, AddressOf[d.key] # None, Clean(d.key)'
          PROVE  d \in db'.msgs
      <4>1. d \in Messages /\ d \in Subjects(job[u])
        BY <1>0, <2>1 DEF Jobs, RemoveJob
      <4>2. Clean(d.key) /\ AddressOf[d.key] \notin raced
        BY <3>2, <4>1, CleanShrinks DEF Clean
      <4>3. d \in db.msgs
        BY <2>1, <3>2, <4>2 DEF ReadsInv, CurrentTargets
      <4>4. d \notin job[t].deleted
        BY <1>1, <3>1, <3>2, <4>1, <4>2, AddressApart
      <4> QED
        BY <3>1, <4>3, <4>4 DEF Writes
    <3> QED
      BY <2>1, <3>2 DEF CurrentTargets
  <2>3. CASE ~\E W \in SUBSET Messages : Writes(t, W)
    <3>1. db' = db
      BY <2>3, OnlyCommitsWrite
    <3>2. \A d \in job[u].deleted : Clean(d.key)' => Clean(d.key)
      BY <1>0, CleanShrinks DEF Jobs
    <3> QED
      BY <2>1, <3>1, <3>2 DEF ReadsInv, CurrentTargets
  <2> QED
    BY <2>2, <2>3
<1>2. CASE u = t
  <2>1. ASSUME NEW D \in SUBSET db.msgs, StartsRemove(t, D)
        PROVE  CurrentTargets(t)'
    BY <2>1 DEF StartsRemove, Starts, CurrentTargets
  <2>2. ASSUME NEW n \in Messages, NEW e \in Events, TakesId(t, n, e)
        PROVE  CurrentTargets(t)'
    <3>1. /\ job[t].pc = "id" /\ job'[t].deleted = job[t].deleted /\ job'[t].op = job[t].op
          /\ db' = db
      BY <1>0, <2>2 DEF TakesId, Jobs
    <3>2. RemoveJob(t)
      BY <1>2, <3>1 DEF Shape, JobsInv, RemoveJob, MergeJob, Idle
    <3>3. \A d \in job[t].deleted : Clean(d.key)' => Clean(d.key)
      BY <1>0, CleanShrinks DEF Jobs
    <3> QED
      BY <3>1, <3>2, <3>3 DEF ReadsInv, CurrentTargets
  <2>3. job'[t] # Idle /\ job'[t].op \in {"revoke", "prune"}
    BY <1>2 DEF RemoveJob, Idle
  <2>4. ASSUME NEW n \in Messages, MergeJob(t, n), Reads(t, n)
        PROVE  FALSE
    <3>1. ~GiveUp(t)
      BY <2>3, GiveUpEffect DEF Shape
    <3>2. ASSUME NEW X, NEW next, ReadsOn(t, n, X, next)
          PROVE  FALSE
      <4>1. job'[t].op = job[t].op
        BY <1>0, <3>2 DEF ReadsOn, Jobs
      <4> QED
        BY <2>3, <2>4, <4>1 DEF MergeJob
    <3> QED
      BY <2>4, <3>1, <3>2 DEF Reads, IsRefused
  <2>5. ~GiveUp(t) /\ ~\E W \in SUBSET Messages : Writes(t, W)
    BY <2>3, GiveUpEffect DEF Shape, Writes
  <2>6. ~\E m \in Messages : StartsMerge(t, m)
    BY <2>3 DEF StartsMerge, MergeJob
  <2> QED
    BY <1>2, <2>1, <2>2, <2>4, <2>5, <2>6 DEF StepKinds
<1> QED
  BY <1>1, <1>2

\* ReadsInv holds after every step.
LEMMA ReadsStep ==
    ASSUME Shape, IdsInv, ExclusionInv, ReadsInv, [Next]_vars
    PROVE  ReadsInv'
<1> USE MessagesAssumption, ThreadsAssumption
<1>1. CASE UNCHANGED vars \/ Tick
  <2>1. UNCHANGED <<db, byAddress, undone, lock, job, raced>>
    BY <1>1 DEF vars, Tick
  <2> QED
    BY <2>1 DEF ReadsInv, MergeJob, RemoveJob, Subjects, Clean, OnlyMerged, OfFid, CurrentReads,
                CurrentTargets, rival
<1>2. ASSUME NEW t \in Threads, StepKinds(t)
      PROVE  ReadsInv'
  <2>1. ASSUME NEW u \in Threads, NEW m \in Messages, MergeJob(u, m)', Clean(m.key)'
        PROVE  CurrentReads(u, m)'
    <3>1. Clean(m.key)
      BY <1>2, <2>1, CleanShrinks
    <3>2. CASE u = t
      <4>1. ~\E W \in SUBSET Messages : Writes(t, W)
        BY <2>1, <3>2 DEF Writes, MergeJob, Idle
      <4> QED
        BY <1>2, <2>1, <3>1, <3>2, <4>1, OwnReadsCurrent
    <3>3. CASE u # t
      <4>1. job'[u] = job[u] /\ MergeJob(u, m)
        BY <1>2, <2>1, <3>3, KindsAreSteps, OthersKeepJobs DEF StepOf
      <4>2. CASE \E W \in SUBSET Messages : Writes(t, W)
        BY <1>2, <2>1, <3>3, <4>1, <4>2, OthersReadsKept
      <4>3. CASE ~\E W \in SUBSET Messages : Writes(t, W)
        <5>1. UNCHANGED <<db, byAddress>>
          BY <1>2, <4>3, OnlyCommitsWrite
        <5>2. CurrentReads(u, m)
          BY <3>1, <4>1 DEF ReadsInv
        <5> QED
          BY <4>1, <5>1, <5>2 DEF CurrentReads, rival
      <4> QED
        BY <4>2, <4>3
    <3> QED
      BY <3>2, <3>3
  <2>2. ASSUME NEW u \in Threads, RemoveJob(u)'
        PROVE  CurrentTargets(u)'
    BY <1>2, <2>2, TargetsCurrent
  <2> QED
    BY <2>1, <2>2 DEF ReadsInv
<1> QED
  BY <1>1, <1>2, NextIsStep

-----------------------------------------------------------------------------
(* What is stored.                                                         *)

\* Under a clean key at most one message is stored, and its index names it.
KeysInv ==
    \A m \in db.msgs : Clean(m.key) =>
        /\ m = IF is_add_type(m) THEN db.adds[m.key] ELSE db.removes[m.key]
        /\ \A n \in db.msgs : n.key = m.key => n = m

\* What a commit deletes at a clean key is stored, unless it is a removal of a key
\* without address, after which the key is not clean.
LEMMA DeletesStored ==
    ASSUME Shape, IdsInv, ReadsInv, NEW t \in Threads, StepKinds(t),
           NEW W \in SUBSET Messages, Writes(t, W),
           NEW d \in job[t].deleted, Clean(d.key)'
    PROVE  /\ d \in db.msgs
           /\ \/ RemoveJob(t) /\ AddressOf[d.key] # None
              \/ \E m \in Messages : W = {m} /\ MergeJob(t, m) /\ Clean(m.key)
<1> USE MessagesAssumption, ThreadsAssumption
<1>1. d \in Messages
  BY DEF Shape, TypeOK, Jobs
<1>2. Clean(d.key)
  BY <1>1, CleanShrinks
<1>3. CASE W = {} /\ RemoveJob(t)
  <2>1. AddressOf[d.key] # None
    <3> SUFFICES ASSUME AddressOf[d.key] = None
                 PROVE  FALSE
      OBVIOUS
    <3>1. d \in Subjects(job[t]) /\ job[t].todo = {}
      BY <1>3 DEF RemoveJob, Writes
    <3>2. PICK e \in job[t].evs : e.msg = d /\ e.op # "merge"
      BY <1>3, <3>1 DEF Subjects, RemoveJob
    <3>3. d \in undone'
      BY <3>2 DEF Writes
    <3> QED
      BY <1>1, <3>2, <3>3 DEF Clean, OnlyMerged, OfFid
  <2>2. d \in db.msgs
    BY <1>2, <1>3, <2>1 DEF ReadsInv, CurrentTargets
  <2> QED
    BY <1>3, <2>1, <2>2
<1>4. ASSUME NEW m \in Messages, W = {m}, MergeJob(t, m)
      PROVE  d \in db.msgs /\ Clean(m.key)
  <2>1. d.key = m.key \/ (AddressOf[d.key] = AddressOf[m.key] /\ AddressOf[m.key] # None)
    BY <1>4 DEF MergeJob, Beats
  <2>2. Clean(m.key)
    BY <1>2, <2>1 DEF Clean
  <2>3. CurrentReads(t, m)
    BY <1>4, <2>2 DEF ReadsInv
  <2> QED
    BY <2>2, <2>3 DEF CurrentReads
<1> QED
  BY <1>3, <1>4 DEF Writes

\* A merge at a clean key leaves nothing but its message there.
LEMMA MergeReplaces ==
    ASSUME Shape, IdsInv, ReadsInv, KeysInv, NEW t \in Threads,
           NEW m \in Messages, Writes(t, {m}), MergeJob(t, m), Clean(m.key)
    PROVE  \A x \in db'.msgs : x.key = m.key => x = m
<1> USE MessagesAssumption, NoneAssumption, ThreadsAssumption
<1> SUFFICES ASSUME NEW x \in db'.msgs, x.key = m.key, x # m
             PROVE  FALSE
  OBVIOUS
<1>1. x \in db.msgs /\ x \notin job[t].deleted
  BY DEF Writes
<1>2. CurrentReads(t, m) /\ job[t].pc = "commit"
  BY DEF ReadsInv, Writes
<1>3. x = db.adds[m.key] \/ x = db.removes[m.key]
  BY <1>1 DEF KeysInv
<1>4. x # None
  BY <1>1 DEF Shape, TypeOK, Store
<1> QED
  BY <1>1, <1>2, <1>3, <1>4 DEF CurrentReads

\* KeysInv holds after every step.
LEMMA KeysStep ==
    ASSUME Shape, IdsInv, ExclusionInv, ReadsInv, KeysInv, [Next]_vars
    PROVE  KeysInv'
<1> USE MessagesAssumption, NoneAssumption, ThreadsAssumption
<1>1. CASE UNCHANGED vars \/ Tick
  <2>1. UNCHANGED <<db, undone, raced>>
    BY <1>1 DEF vars, Tick
  <2> QED
    BY <2>1 DEF KeysInv, Clean, OnlyMerged, OfFid
<1>2. ASSUME NEW t \in Threads, StepKinds(t), ~\E W \in SUBSET Messages : Writes(t, W)
      PROVE  KeysInv'
  <2>1. db' = db /\ db.msgs \subseteq Messages
    BY <1>2, OnlyCommitsWrite DEF Shape, TypeOK, Store
  <2>2. \A m \in db.msgs : Clean(m.key)' => Clean(m.key)
    BY <1>2, <2>1, CleanShrinks
  <2> QED
    BY <2>1, <2>2 DEF KeysInv
<1>3. ASSUME NEW t \in Threads, StepKinds(t), NEW W \in SUBSET Messages, Writes(t, W)
      PROVE  KeysInv'
  <2> SUFFICES ASSUME NEW m \in db'.msgs, Clean(m.key)'
               PROVE  /\ m = IF is_add_type(m) THEN db'.adds[m.key] ELSE db'.removes[m.key]
                      /\ \A n \in db'.msgs : n.key = m.key => n = m
    BY DEF KeysInv
  <2>1. m \in Messages /\ m.key \in Keys
    BY <1>3 DEF Shape, TypeOK, Store, Writes
  <2>2. Clean(m.key)
    BY <1>3, <2>1, CleanShrinks
  <2>3. CASE \A d \in job[t].deleted \cup W : d.key # m.key
    <3>1. /\ db'.adds[m.key] = db.adds[m.key] /\ db'.removes[m.key] = db.removes[m.key]
          /\ \A x : x.key = m.key => (x \in db'.msgs <=> x \in db.msgs)
      BY <1>3, <2>1, <2>3, KeyUntouched
    <3> QED
      BY <2>2, <3>1 DEF KeysInv
  <2>4. ASSUME NEW n \in W, n.key = m.key
        PROVE  /\ m = IF is_add_type(m) THEN db'.adds[m.key] ELSE db'.removes[m.key]
               /\ \A x \in db'.msgs : x.key = m.key => x = m
    <3>1. W = {n} /\ n \in Messages /\ MergeJob(t, n)
      BY <1>3, <2>4 DEF Writes
    <3>2. \A x \in db'.msgs : x.key = m.key => x = n
      BY <1>3, <2>2, <2>4, <3>1, MergeReplaces
    <3>3. m = n
      BY <3>2
    <3> QED
      BY <1>3, <3>1, <3>2, <3>3 DEF Writes
  <2>5. ASSUME NEW d \in job[t].deleted, d.key = m.key, \A n \in W : n.key # m.key
        PROVE  FALSE
    <3>1. d \in db.msgs
      BY <1>3, <2>5, DeletesStored
    <3>2. m \in db.msgs /\ m \notin job[t].deleted
      BY <1>3, <2>5 DEF Writes
    <3>3. d = m
      BY <2>2, <2>5, <3>1, <3>2 DEF KeysInv
    <3> QED
      BY <2>5, <3>2, <3>3
  <2> QED
    BY <2>3, <2>4, <2>5
<1> QED
  BY <1>1, <1>2, <1>3, NextIsStep

\* Every stored message was offered, and whatever was offered about a clean key is
\* stored or beaten by what is.
OfferedInv ==
    /\ db.msgs \subseteq offered
    /\ \A m \in offered : AddressOf[m.key] = None /\ Clean(m.key) =>
          \E n \in db.msgs : n = m \/ Beats(n, m)

\* OfferedInv holds after every step.
LEMMA OfferedStep ==
    ASSUME Shape, IdsInv, ReadsInv, OfferedInv, [Next]_vars
    PROVE  OfferedInv'
<1> USE MessagesAssumption, NoneAssumption, ThreadsAssumption
<1>0. offered \subseteq Messages
  BY DEF Shape, TypeOK
<1>1. ASSUME UNCHANGED <<db, undone, raced, offered>>
      PROVE  OfferedInv'
  BY <1>1 DEF OfferedInv, Clean, OnlyMerged, OfFid
<1>2. ASSUME NEW t \in Threads, StepKinds(t), ~\E W \in SUBSET Messages : Writes(t, W),
             offered' = offered
      PROVE  OfferedInv'
  <2>1. db' = db
    BY <1>2, OnlyCommitsWrite
  <2>2. \A m \in offered : Clean(m.key)' => Clean(m.key)
    BY <1>0, <1>2, CleanShrinks
  <2> QED
    BY <1>2, <2>1, <2>2 DEF OfferedInv
<1>3. ASSUME NEW t \in Threads, StepKinds(t), NEW m \in Messages, IsRefused(t, m)
      PROVE  OfferedInv'
  <2>1. /\ db' = db /\ offered' = offered \cup {m}
        /\ AddressOf[m.key] = None => \E n \in db.msgs : n = m \/ Beats(n, m)
    BY <1>3, GiveUpEffect DEF IsRefused, Shape
  <2>2. \A x \in offered : Clean(x.key)' => Clean(x.key)
    BY <1>0, <1>3, CleanShrinks
  <2> QED
    BY <2>1, <2>2 DEF OfferedInv
<1>4. ASSUME NEW t \in Threads, StepKinds(t), NEW W \in SUBSET Messages, Writes(t, W)
      PROVE  OfferedInv'
  <2>1. db'.msgs = (db.msgs \ job[t].deleted) \cup W /\ offered' = offered \cup W
    BY <1>4 DEF Writes
  <2>2. ASSUME NEW x \in offered, AddressOf[x.key] = None, Clean(x.key)'
        PROVE  \E n \in db'.msgs : n = x \/ Beats(n, x)
    <3>1. x \in Messages /\ Clean(x.key)
      BY <1>0, <1>4, <2>2, CleanShrinks
    <3>2. PICK w \in db.msgs : w = x \/ Beats(w, x)
      BY <2>2, <3>1 DEF OfferedInv
    <3>3. w.key = x.key /\ w \in Messages
      BY <3>1, <3>2 DEF Beats, Shape, TypeOK, Store
    <3>4. CASE w \notin job[t].deleted
      BY <2>1, <3>2, <3>4
    <3>5. CASE w \in job[t].deleted
      <4>1. PICK m \in Messages : W = {m} /\ MergeJob(t, m)
        BY <1>4, <2>2, <3>3, <3>5, DeletesStored
      <4>2. Beats(m, w)
        BY <2>2, <3>3, <3>5, <4>1 DEF MergeJob
      <4>3. Beats(m, x)
        BY <3>1, <3>2, <3>3, <4>2, CompareTransitive DEF Beats
      <4> QED
        BY <2>1, <4>1, <4>3
    <3> QED
      BY <3>4, <3>5
  <2> QED
    BY <2>1, <2>2 DEF OfferedInv
<1>5. ASSUME NEW t \in Threads, StepKinds(t)
      PROVE  OfferedInv'
  <2>1. \/ \E W \in SUBSET Messages : Writes(t, W)
        \/ \E m \in Messages : IsRefused(t, m)
        \/ offered' = offered
    BY <1>5 DEF StepKinds, StartsMerge, StartsRemove, Starts, Reads, ReadsOn, TakesId
  <2> QED
    BY <1>2, <1>3, <1>4, <1>5, <2>1
<1>6. CASE UNCHANGED vars \/ Tick
  BY <1>1, <1>6 DEF vars, Tick
<1> QED
  BY <1>5, <1>6, NextIsStep

\* OneFidPerAddress holds after every step.
LEMMA AddressStep ==
    ASSUME Shape, IdsInv, ExclusionInv, ReadsInv, KeysInv, OneFidPerAddress, [Next]_vars
    PROVE  OneFidPerAddress'
<1> USE MessagesAssumption, NoneAssumption, ThreadsAssumption
<1>1. ASSUME UNCHANGED <<db, byAddress>>, raced \subseteq raced'
      PROVE  OneFidPerAddress'
  BY <1>1 DEF OneFidPerAddress
<1>2. ASSUME NEW t \in Threads, StepKinds(t), NEW W \in SUBSET Messages, Writes(t, W)
      PROVE  OneFidPerAddress'
  <2> SUFFICES ASSUME NEW a \in Addresses \ raced
               PROVE  {k \in Keys : AddressOf[k] = a /\ db'.adds[k] # None} = {byAddress'[a]} \ {None}
    BY <1>2 DEF OneFidPerAddress, Writes
  <2>1. {k \in Keys : AddressOf[k] = a /\ db.adds[k] # None} = {byAddress[a]} \ {None}
    BY DEF OneFidPerAddress
  <2>2. a # None /\ raced' = raced
    BY <1>2 DEF Addresses, Writes
  <2>3. ASSUME NEW m \in W, is_add_type(m), AddressOf[m.key] = a
        PROVE  {k \in Keys : AddressOf[k] = a /\ db'.adds[k] # None} = {byAddress'[a]} \ {None}
    <3>1. W = {m} /\ m \in Messages /\ MergeJob(t, m) /\ m.key \in Keys
      BY <1>2, <2>3 DEF Writes
    <3>2. CurrentReads(t, m) /\ job[t].pc = "commit"
      BY <1>2, <2>2, <2>3, <3>1 DEF ReadsInv, Clean, Writes
    <3>3. rival(m) \subseteq job[t].deleted
      BY <2>2, <2>3, <3>2 DEF CurrentReads
    <3>4. byAddress'[a] = m.key /\ db'.adds[m.key] = m /\ m # None /\ m.key # None
      BY <1>2, <2>3, <3>1 DEF Writes
    <3>5. ASSUME NEW k \in Keys, AddressOf[k] = a, k # m.key
          PROVE  db'.adds[k] = None
      <4>1. db'.adds[k] = IF \E d \in job[t].deleted : is_add_type(d) /\ d.key = k THEN None ELSE db.adds[k]
        BY <1>2, <3>1, <3>5 DEF Writes
      <4>2. db.adds[k] # None => \E d \in job[t].deleted : is_add_type(d) /\ d.key = k
        <5> SUFFICES ASSUME db.adds[k] # None
                     PROVE  \E d \in job[t].deleted : is_add_type(d) /\ d.key = k
          OBVIOUS
        <5>1. k = byAddress[a] /\ k # None
          BY <2>1, <3>5
        <5>2. db.adds[k] \in rival(m)
          BY <2>3, <3>5, <5>1 DEF rival
        <5>3. db.adds[k].key = k /\ is_add_type(db.adds[k])
          BY DEF Shape, EntriesInv
        <5> QED
          BY <3>3, <5>2, <5>3
      <4> QED
        BY <4>1, <4>2
    <3> QED
      BY <2>3, <3>1, <3>4, <3>5
  <2>4. CASE ~\E m \in W : is_add_type(m) /\ AddressOf[m.key] = a
    <3>1. byAddress'[a] = IF \E d \in job[t].deleted : is_add_type(d) /\ AddressOf[d.key] = a
                          THEN None ELSE byAddress[a]
      BY <1>2, <2>4 DEF Writes
    <3>2. \A k \in Keys : AddressOf[k] = a =>
             db'.adds[k] = IF \E d \in job[t].deleted : is_add_type(d) /\ d.key = k THEN None ELSE db.adds[k]
      BY <1>2, <2>4 DEF Writes
    <3>3. CASE ~\E d \in job[t].deleted : is_add_type(d) /\ AddressOf[d.key] = a
      BY <2>1, <3>1, <3>2, <3>3
    <3>4. ASSUME NEW d \in job[t].deleted, is_add_type(d), AddressOf[d.key] = a
          PROVE  {k \in Keys : AddressOf[k] = a /\ db'.adds[k] # None} = {byAddress'[a]} \ {None}
      <4>1. Clean(d.key)' /\ Clean(d.key)
        BY <2>2, <3>4 DEF Clean
      <4>2. d \in db.msgs
        BY <1>2, <4>1, DeletesStored
      <4>3. db.adds[d.key] = d /\ d # None /\ d.key \in Keys
        BY <3>4, <4>1, <4>2 DEF KeysInv, Shape, TypeOK, Store
      <4>4. {byAddress[a]} \ {None} = {d.key}
        BY <2>1, <3>4, <4>3
      <4>5. \A k \in Keys : AddressOf[k] = a => db'.adds[k] = None
        BY <2>1, <3>2, <3>4, <4>4
      <4> QED
        BY <3>1, <3>4, <4>5
    <3> QED
      BY <3>3, <3>4
  <2> QED
    BY <2>3, <2>4
<1>3. ASSUME NEW t \in Threads, StepKinds(t)
      PROVE  OneFidPerAddress'
  BY <1>1, <1>2, <1>3, OnlyCommitsWrite, CleanShrinks
<1>4. CASE UNCHANGED vars \/ Tick
  BY <1>1, <1>4 DEF vars, Tick
<1> QED
  BY <1>3, <1>4, NextIsStep

-----------------------------------------------------------------------------
(* The event log.                                                          *)

Mentions(e, m) == m = e.msg \/ m \in e.deleted

\* The fid of m was only merged into, and no two operations met at the address of m.
CleanLog(m) == OnlyMerged(LockOf[m.key]) /\ AddressOf[m.key] \notin raced

\* The event of a merge that is not committed yet is later than all committed ones that
\* speak of the same message.
LogInv ==
    /\ LogDescribesStore
    /\ setBack = 0 => \A m \in Messages : CleanLog(m) =>
          \A t \in Threads : \A e \in job[t].evs : e.op = "merge" /\ Mentions(e, m) =>
              \A f \in events : Mentions(f, m) => f.id < e.id

\* An event of a merge belongs to a merge, and speaks of its message and its victims.
LEMMA MergeEvent ==
    ASSUME Shape, NEW t \in Threads, NEW e \in job[t].evs, e.op = "merge"
    PROVE  \E m \in Messages : MergeJob(t, m) /\ e.msg = m /\ e.deleted = job[t].deleted
BY DEF Shape, JobsInv, MergeJob, RemoveJob, Idle

\* A removal's events speak of what it deletes; once it is committed the fids of those
\* messages were not only merged into.
LEMMA RemovalShows ==
    ASSUME Shape, IdsInv, NEW t \in Threads, NEW W \in SUBSET Messages, Writes(t, W), RemoveJob(t),
           NEW m \in Messages, OnlyMerged(LockOf[m.key])'
    PROVE  m \notin job[t].deleted /\ \A f \in job[t].evs : ~Mentions(f, m) /\ f.op # "merge"
<1> USE MessagesAssumption, ThreadsAssumption
<1>1. job[t].todo = {} /\ \A f \in job[t].evs : f.op # "merge" /\ f.deleted = {f.msg}
  BY DEF RemoveJob, Writes
<1>2. \A f \in job[t].evs : f.msg \in undone'
  BY <1>1 DEF Writes
<1>3. \A f \in job[t].evs : f.msg # m
  BY <1>1, <1>2 DEF OnlyMerged, OfFid
<1>4. \A d \in job[t].deleted : \E f \in job[t].evs : f.msg = d
  BY <1>1 DEF RemoveJob, Subjects
<1> QED
  BY <1>1, <1>3, <1>4 DEF Mentions

\* Two merges that speak of the same message are not under way at the same time.
LEMMA MergesApart ==
    ASSUME Shape, ExclusionInv, NEW t \in Threads, NEW u \in Threads, NEW m \in Messages, CleanLog(m),
           NEW x \in Messages, MergeJob(t, x), m \in {x} \cup job[t].deleted,
           NEW y \in Messages, MergeJob(u, y), m \in {y} \cup job[u].deleted
    PROVE  t = u
<1> USE MessagesAssumption, ThreadsAssumption
<1>1. /\ m.key = x.key \/ (AddressOf[m.key] = AddressOf[x.key] /\ AddressOf[m.key] # None)
      /\ m.key = y.key \/ (AddressOf[m.key] = AddressOf[y.key] /\ AddressOf[m.key] # None)
  BY DEF MergeJob, Beats
<1>2. CASE AddressOf[m.key] = None
  BY <1>1, <1>2 DEF MergeJob
<1>3. CASE AddressOf[m.key] # None
  <2>1. AddressOf[m.key] \in Addresses \ raced
    BY <1>3 DEF CleanLog, Addresses
  <2>2. x \in Subjects(job[t]) /\ y \in Subjects(job[u])
    BY MergeSubject
  <2>3. AddressOf[m.key] \in Working(t) /\ AddressOf[m.key] \in Working(u)
    BY <1>1, <1>3, <2>2 DEF Working, Subjects, AddressesOf
  <2> QED
    BY <2>1, <2>3 DEF ExclusionInv
<1> QED
  BY <1>2, <1>3

\* The log still describes the store after a commit.
LEMMA LogAfterCommit ==
    ASSUME Shape, IdsInv, LogInv, setBack = 0, NEW t \in Threads, StepKinds(t), NEW W \in SUBSET Messages, Writes(t, W)
    PROVE  LogDescribesStore'
<1> USE MessagesAssumption, ThreadsAssumption
<1> DEFINE InLog(m) == \E e \in events : /\ e.op = "merge" /\ e.msg = m
                                         /\ \A f \in events : f.id > e.id => m \notin f.deleted
           InLogNext(m) == \E e \in events' : /\ e.op = "merge" /\ e.msg = m
                                              /\ \A f \in events' : f.id > e.id => m \notin f.deleted
<1>1. SUFFICES ASSUME NEW m \in Messages, CleanLog(m)'
               PROVE  m \in db'.msgs <=> InLogNext(m)
  <2>1. \A l \in Locks : OnlyMerged(l)' => \A m \in OfFid(l) : AddressOf[m.key] \notin raced' => CleanLog(m)'
    BY DEF OfFid, CleanLog
  <2>2. \A l \in Locks : OfFid(l) \subseteq Messages
    BY DEF OfFid
  <2> HIDE DEF InLogNext
  <2>3. \A l \in Locks : OnlyMerged(l)' =>
            \A m \in OfFid(l) : AddressOf[m.key] \notin raced' => (m \in db'.msgs <=> InLogNext(m))
    BY <1>1, <2>1, <2>2
  <2> QED
    BY <2>3 DEF LogDescribesStore, InLogNext, OfFid
<1>2. CleanLog(m) /\ LockOf[m.key] \in Locks /\ OnlyMerged(LockOf[m.key])' /\ OnlyMerged(LockOf[m.key])
  BY <1>1, CleanShrinks DEF CleanLog
<1>3. m \in db.msgs <=> InLog(m)
  BY <1>2 DEF LogInv, LogDescribesStore, CleanLog, OfFid
<1>4. events' = events \cup job[t].evs /\ db'.msgs = (db.msgs \ job[t].deleted) \cup W
  BY LogGrows DEF Writes
<1>5. events \subseteq Events /\ job[t].evs \subseteq Events
  BY DEF Shape, TypeOK, Jobs
<1>6. CASE W = {} /\ RemoveJob(t)
  <2>1. m \notin job[t].deleted /\ \A f \in job[t].evs : ~Mentions(f, m) /\ f.op # "merge"
    BY <1>2, <1>6, RemovalShows
  <2> QED
    BY <1>3, <1>4, <1>6, <2>1 DEF Mentions
<1>7. ASSUME NEW x \in Messages, W = {x}, MergeJob(t, x)
      PROVE  m \in db'.msgs <=> InLogNext(m)
  <2>1. /\ \A e \in job[t].evs : e.op = "merge" /\ e.msg = x /\ e.deleted = job[t].deleted
        /\ job[t].evs # {}
    BY <1>7 DEF MergeJob, Writes
  <2>2. m \in {x} \cup job[t].deleted =>
           \A e \in job[t].evs : \A f \in events : Mentions(f, m) => f.id < e.id
    BY <1>2, <2>1 DEF LogInv, Mentions
  <2>3. x \notin job[t].deleted
    <3>1. ~Beats(x, x)
      BY CompareRange DEF Beats
    <3> QED
      BY <1>7, <3>1 DEF MergeJob
  <2>4. CASE m = x
    <3>1. PICK e \in job[t].evs : TRUE
      BY <2>1
    <3>2. \A f \in events' : f.id > e.id => m \notin f.deleted
      <4> SUFFICES ASSUME NEW f \in events, f.id > e.id, m \in f.deleted
                   PROVE  FALSE
        BY <1>4, <2>1, <2>3, <2>4
      <4>1. f.id < e.id /\ f.id \in Nat /\ e.id \in Nat
        BY <1>5, <2>2, <2>4, <3>1 DEF Mentions, Events
      <4> QED
        BY <4>1
    <3> QED
      BY <1>4, <1>7, <2>1, <2>4, <3>1, <3>2
  <2>5. CASE m # x /\ m \in job[t].deleted
    <3>1. PICK e \in job[t].evs : TRUE
      BY <2>1
    <3>2. ASSUME NEW g \in events', g.op = "merge", g.msg = m
          PROVE  \E f \in events' : f.id > g.id /\ m \in f.deleted
      <4>1. g \in events
        BY <1>4, <2>1, <2>5, <3>2
      <4>2. g.id < e.id /\ g.id \in Nat /\ e.id \in Nat
        BY <1>5, <2>2, <2>5, <3>1, <3>2, <4>1 DEF Mentions, Events
      <4>3. e \in events' /\ m \in e.deleted /\ e.id > g.id
        BY <1>4, <2>1, <2>5, <3>1, <4>2
      <4> QED
        BY <4>3
    <3> QED
      BY <1>4, <1>7, <2>5, <3>2
  <2>6. CASE m # x /\ m \notin job[t].deleted
    <3>1. \A e \in job[t].evs : e.msg # m /\ m \notin e.deleted
      BY <2>1, <2>6
    <3> QED
      BY <1>3, <1>4, <1>7, <2>6, <3>1
  <2> QED
    BY <2>4, <2>5, <2>6
<1> QED
  BY <1>6, <1>7 DEF Writes

\* LogInv holds after every step.
LEMMA LogStep ==
    ASSUME Shape, IdsInv, ExclusionInv, LogInv, [Next]_vars
    PROVE  LogInv'
<1> USE MessagesAssumption, ThreadsAssumption
<1> SUFFICES ASSUME setBack' = 0
             PROVE  LogInv'
  BY DEF LogInv, LogDescribesStore
<1>0. setBack = 0
  BY ClockForward
<1>1. ASSUME UNCHANGED <<db, events>>, undone \subseteq undone', raced \subseteq raced'
      PROVE  LogDescribesStore'
  BY <1>0, <1>1 DEF LogInv, LogDescribesStore, OnlyMerged, OfFid
<1>2. ASSUME UNCHANGED events, undone \subseteq undone', raced \subseteq raced', \A u \in Threads : job'[u].evs \subseteq job[u].evs
      PROVE  \A m \in Messages : CleanLog(m)' =>
                \A u \in Threads : \A e \in job'[u].evs : e.op = "merge" /\ Mentions(e, m) =>
                    \A f \in events' : Mentions(f, m) => f.id < e.id
  <2>1. \A m \in Messages : CleanLog(m)' => CleanLog(m)
    BY <1>2 DEF CleanLog, OnlyMerged, OfFid
  <2> QED
    BY <1>0, <1>2, <2>1 DEF LogInv
<1>3. CASE UNCHANGED vars \/ Tick
  BY <1>1, <1>2, <1>3 DEF LogInv, vars, Tick
<1>4. ASSUME NEW t \in Threads, StepKinds(t)
      PROVE  LogInv'
  <2>0. job[t] \in Jobs /\ StepOf(t) /\ raced \subseteq raced' /\ undone \subseteq undone'
    BY <1>4, KindsAreSteps, CleanShrinks DEF Shape, TypeOK
  <2>1. ASSUME NEW W \in SUBSET Messages, Writes(t, W)
        PROVE  LogInv'
    <3>1. LogDescribesStore'
      BY <1>0, <1>4, <2>1, LogAfterCommit
    <3>2. events' = events \cup job[t].evs /\ job'[t].evs = {}
      <4>1. job'[t] = Idle
        BY <2>1 DEF Writes
      <4> QED
        BY <1>0, <2>1, <4>1, LogGrows DEF Idle
    <3>3. ASSUME NEW m \in Messages, CleanLog(m)', NEW u \in Threads, NEW e \in job'[u].evs,
                 e.op = "merge", Mentions(e, m), NEW f \in events', Mentions(f, m)
          PROVE  f.id < e.id
      <4>1. u # t /\ e \in job[u].evs
        BY <2>0, <3>2, <3>3 DEF StepOf
      <4>2. CleanLog(m) /\ OnlyMerged(LockOf[m.key])'
        BY <1>4, <3>3, CleanShrinks DEF CleanLog
      <4>3. f \in events
        <5> SUFFICES ASSUME f \in job[t].evs
                     PROVE  FALSE
          BY <3>2
        <5>1. ~RemoveJob(t)
          BY <2>1, <3>3, <4>2, RemovalShows
        <5>2. PICK x \in Messages : MergeJob(t, x)
          BY <2>1, <5>1 DEF Writes
        <5>3. m \in {x} \cup job[t].deleted
          BY <3>3, <5>2 DEF MergeJob, Mentions
        <5>4. PICK y \in Messages : MergeJob(u, y) /\ e.msg = y /\ e.deleted = job[u].deleted
          BY <3>3, <4>1, MergeEvent
        <5>5. m \in {y} \cup job[u].deleted
          BY <3>3, <5>4 DEF Mentions
        <5> QED
          BY <4>1, <4>2, <5>2, <5>3, <5>4, <5>5, MergesApart
      <4> QED
        BY <1>0, <3>3, <4>1, <4>2, <4>3 DEF LogInv
    <3> QED
      BY <3>1, <3>3 DEF LogInv
  <2>2. ASSUME ~\E W \in SUBSET Messages : Writes(t, W), job'[t].evs \subseteq job[t].evs
        PROVE  LogInv'
    <3>1. UNCHANGED <<db, events>>
      BY <1>4, <2>2, OnlyCommitsWrite
    <3>2. \A u \in Threads : job'[u].evs \subseteq job[u].evs
      BY <2>0, <2>2 DEF StepOf
    <3> QED
      BY <1>1, <1>2, <2>0, <3>1, <3>2 DEF LogInv
  <2>3. ASSUME NEW n \in Messages, NEW e \in Events, TakesId(t, n, e), generator' = generate_id
        PROVE  LogInv'
    <3>1. /\ UNCHANGED <<db, events, undone, raced>> /\ job'[t].evs = job[t].evs \cup {e}
          /\ IdBound <= e.id /\ IdBound \in Nat
      BY <1>0, <2>0, <2>3, NewIdIsAbove DEF TakesId, Jobs, Shape, IdsInv
    <3>2. \A f \in events : f.id < e.id
      <4>1. \A f \in events : f.id < IdBound /\ f \in Events
        BY <1>0 DEF IdsInv, AllEvents, Shape, TypeOK
      <4> QED
        BY <3>1, <4>1 DEF Events
    <3>3. ASSUME NEW m \in Messages, CleanLog(m)', NEW u \in Threads, NEW g \in job'[u].evs,
                 g.op = "merge", Mentions(g, m), NEW f \in events', Mentions(f, m)
          PROVE  f.id < g.id
      <4>1. CleanLog(m) /\ (g \in job[u].evs \/ g = e)
        BY <2>0, <3>1, <3>3 DEF CleanLog, OnlyMerged, OfFid, StepOf
      <4> QED
        BY <1>0, <3>1, <3>2, <3>3, <4>1 DEF LogInv
    <3> QED
      BY <1>1, <3>1, <3>3 DEF LogInv
  <2>4. \/ \E W \in SUBSET Messages : Writes(t, W)
        \/ job'[t].evs \subseteq job[t].evs
        \/ \E n \in Messages, e \in Events : TakesId(t, n, e) /\ generator' = generate_id
    <3>1. ASSUME GiveUp(t)
          PROVE  job'[t].evs \subseteq job[t].evs
      BY <3>1, GiveUpEffect DEF Shape, Idle
    <3>2. ASSUME NEW n, NEW X, NEW next, ReadsOn(t, n, X, next)
          PROVE  job'[t].evs \subseteq job[t].evs
      BY <2>0, <3>2 DEF ReadsOn, Jobs
    <3> QED
      BY <1>4, <3>1, <3>2 DEF StepKinds, StartsMerge, StartsRemove, Starts, Reads, IsRefused
  <2> QED
    BY <2>1, <2>2, <2>3, <2>4
<1> QED
  BY <1>3, <1>4, NextIsStep

-----------------------------------------------------------------------------
(* The theorems.                                                           *)

\* The inductive invariant.
IInv ==
    /\ Shape /\ IdsInv /\ ExclusionInv /\ ReadsInv
    /\ KeysInv /\ OneFidPerAddress /\ OfferedInv /\ LogInv

\* IInv holds in every state of every behaviour.
LEMMA Invariance == Spec => []IInv
<1>1. Init => IInv
  <2> SUFFICES ASSUME Init
               PROVE  IInv
    OBVIOUS
  <2> USE MessagesAssumption, NoneAssumption, ThreadsAssumption
  <2>1. Shape
    BY ShapeInit
  <2>2. /\ db.msgs = {} /\ db.adds = [k \in Keys |-> None] /\ events = {} /\ offered = {}
        /\ generator.last_timestamp = 0 /\ clock = 1
        /\ job = [t \in Threads |-> Idle] /\ byAddress = [a \in Addresses |-> None]
    BY DEF Init, EmptyStore
  <2>3. \A t \in Threads : job[t].pc = "idle" /\ job[t].todo = {} /\ job[t].evs = {}
    BY <2>2 DEF Idle
  <2>4. IdsInv
    BY <2>2, <2>3 DEF IdsInv, EventIdsUnique, AllEvents
  <2>5. ExclusionInv
    BY <2>3 DEF ExclusionInv, Working, AddressesOf
  <2>6. ReadsInv
    BY <2>3 DEF ReadsInv, MergeJob, RemoveJob
  <2>7. KeysInv /\ OfferedInv
    BY <2>2 DEF KeysInv, OfferedInv
  <2>8. OneFidPerAddress
    BY <2>2 DEF OneFidPerAddress
  <2>9. LogInv
    BY <2>2, <2>3 DEF LogInv, LogDescribesStore
  <2> QED
    BY <2>1, <2>4, <2>5, <2>6, <2>7, <2>8, <2>9 DEF IInv
<1>2. IInv /\ [Next]_vars => IInv'
  BY ShapeStep, IdsStep, ExclusionStep, ReadsStep, KeysStep, AddressStep, OfferedStep, LogStep DEF IInv
<1> QED
  BY <1>1, <1>2, PTL DEF Spec

\* The store, the log, the locks, the jobs and the generator keep their types.
THEOREM TypeCorrect == Spec => []TypeOK
<1>1. IInv => TypeOK
  BY DEF IInv, Shape
<1> QED
  BY <1>1, Invariance, PTL

\* Whatever revokes and prunes do without a lock, no index entry ever points at a
\* message that is gone.
THEOREM LookupsNeverFail == Spec => []NoDanglingEntries
<1>1. IInv => NoDanglingEntries
  BY DEF IInv, Shape, EntriesInv, NoDanglingEntries
<1> QED
  BY <1>1, Invariance, PTL

\* As long as the system's clock is not set back, the generator never hands out an id twice,
\* and a commit never overwrites an event.
THEOREM IdsNeverReused == Spec => []EventIdsUnique
<1>1. IInv => EventIdsUnique
  BY DEF IInv, IdsInv, EventIdsUnique
<1> QED
  BY <1>1, Invariance, PTL

\* Any number of threads that merge into a fid build the store that one thread would have
\* built from the same messages: get_default_merge_conflicts under the fid lock sees
\* everything that was committed before.
THEOREM ThreadsConverge == Spec => []MergesConverge
<1>1. ASSUME IInv
      PROVE  MergesConverge
  <2> USE MessagesAssumption, ThreadsAssumption
  <2> SUFFICES ASSUME NEW l \in Locks, OnlyMerged(l)
               PROVE  /\ db.msgs \cap OwnOnly(l) = Winners(offered \cap OwnOnly(l))
                      /\ \A m \in db.msgs \cap OwnOnly(l) :
                            m = IF is_add_type(m) THEN db.adds[m.key] ELSE db.removes[m.key]
    BY DEF MergesConverge
  <2>1. \A m \in OwnOnly(l) : m \in Messages /\ LockOf[m.key] = l /\ AddressOf[m.key] = None /\ Clean(m.key)
    BY DEF OwnOnly, OfFid, Clean
  <2>2. \A m \in OwnOnly(l), n \in Messages : n.key = m.key => n \in OwnOnly(l)
    BY DEF OwnOnly, OfFid
  <2>3. db.msgs \subseteq Messages /\ offered \subseteq Messages /\ db.msgs \subseteq offered
    BY <1>1 DEF IInv, Shape, TypeOK, Store, OfferedInv
  <2>4. ASSUME NEW m \in db.msgs \cap OwnOnly(l)
        PROVE  m \in Winners(offered \cap OwnOnly(l))
    <3> SUFFICES ASSUME NEW n \in offered \cap OwnOnly(l), Beats(n, m)
                 PROVE  FALSE
      BY <2>3 DEF Winners
    <3>1. PICK w \in db.msgs : w = n \/ Beats(w, n)
      BY <1>1, <2>1 DEF IInv, OfferedInv
    <3>2. w.key = m.key
      BY <3>1 DEF Beats
    <3>3. w = m
      BY <1>1, <2>1, <3>2 DEF IInv, KeysInv
    <3>4. ~(message_compare(n, m) < 0) /\ message_compare(m, m) = 0
      BY <2>1, CompareRange DEF Beats
    <3> QED
      BY <2>1, <3>1, <3>3, <3>4, CompareAntisymmetric DEF Beats
  <2>5. ASSUME NEW m \in Winners(offered \cap OwnOnly(l))
        PROVE  m \in db.msgs \cap OwnOnly(l)
    <3>1. m \in offered /\ m \in OwnOnly(l)
      BY DEF Winners
    <3>2. PICK n \in db.msgs : n = m \/ Beats(n, m)
      BY <1>1, <2>1, <3>1 DEF IInv, OfferedInv
    <3>3. n.key = m.key /\ n \in offered \cap OwnOnly(l)
      BY <2>2, <2>3, <3>1, <3>2 DEF Beats
    <3> QED
      BY <3>1, <3>2, <3>3 DEF Winners
  <2>6. \A m \in db.msgs \cap OwnOnly(l) :
            m = IF is_add_type(m) THEN db.adds[m.key] ELSE db.removes[m.key]
    BY <1>1, <2>1 DEF IInv, KeysInv
  <2> QED
    BY <2>4, <2>5, <2>6
<1> QED
  BY <1>1, Invariance, PTL

-----------------------------------------------------------------------------
(* Step by step: each merge takes effect at one instant.                   *)

\* A commit that writes nothing under the keys of lock l that have no address leaves the
\* part of l alone.
LEMMA PartUntouched ==
    ASSUME IInv, NEW t \in Threads, NEW W \in SUBSET Messages, Writes(t, W), NEW l \in Locks,
           \A d \in job[t].deleted \cup W : d.key \notin OwnKeys(l)
    PROVE  Part(l)' = Part(l) /\ offered' \cap OwnOnly(l) = offered \cap OwnOnly(l)
<1> USE MessagesAssumption, ThreadsAssumption
<1>1. \A d \in job[t].deleted \cup W : d \notin OwnOnly(l)
  BY DEF OwnOnly, OfFid, OwnKeys
<1>2. \A k \in OwnKeys(l) : db'.adds[k] = db.adds[k] /\ db'.removes[k] = db.removes[k]
  <2> SUFFICES ASSUME NEW k \in OwnKeys(l)
               PROVE  db'.adds[k] = db.adds[k] /\ db'.removes[k] = db.removes[k]
    OBVIOUS
  <2>1. k \in Keys /\ \A d \in job[t].deleted \cup W : d.key # k
    BY DEF OwnKeys
  <2> QED
    BY <2>1, KeyUntouched
<1>3. /\ db'.msgs \cap OwnOnly(l) = db.msgs \cap OwnOnly(l)
      /\ db'.byTarget \cap OwnOnly(l) = db.byTarget \cap OwnOnly(l)
      /\ offered' \cap OwnOnly(l) = offered \cap OwnOnly(l)
  BY <1>1 DEF Writes
<1>4. /\ [k \in Keys |-> IF k \in OwnKeys(l) THEN db'.adds[k] ELSE None]
             = [k \in Keys |-> IF k \in OwnKeys(l) THEN db.adds[k] ELSE None]
      /\ [k \in Keys |-> IF k \in OwnKeys(l) THEN db'.removes[k] ELSE None]
             = [k \in Keys |-> IF k \in OwnKeys(l) THEN db.removes[k] ELSE None]
  BY <1>2
<1> QED
  BY <1>3, <1>4 DEF Part

\* What a merge deletes about a message without address is what get_merge_conflicts finds
\* in the store as it is when the merge commits, and nothing there refuses the message.
LEMMA ConflictsAreCurrent ==
    ASSUME IInv, NEW t \in Threads, NEW m \in Messages, MergeJob(t, m), job[t].pc = "commit",
           AddressOf[m.key] = None, OnlyMerged(LockOf[m.key])
    PROVE  /\ job[t].deleted = get_merge_conflicts(Part(LockOf[m.key]), m)
           /\ merge_check(Part(LockOf[m.key]), m) = "ok"
           /\ \A d \in job[t].deleted : d.key = m.key
<1> USE MessagesAssumption, NoneAssumption, ThreadsAssumption
<1> DEFINE l == LockOf[m.key]
           D == job[t].deleted
<1>1. m.key \in Keys /\ m.key \in OwnKeys(l) /\ l \in Locks /\ Clean(m.key) /\ m \in OwnOnly(l)
  BY DEF OwnKeys, Clean, OwnOnly, OfFid
<1>2. /\ Part(l).adds[m.key] = db.adds[m.key] /\ Part(l).removes[m.key] = db.removes[m.key]
      /\ Part(l).msgs = db.msgs \cap OwnOnly(l)
  BY <1>1 DEF Part
<1>3. \A d \in D : Beats(m, d) /\ d.key = m.key /\ d \in Messages
  BY DEF MergeJob, Beats, IInv, Shape, TypeOK, Jobs
<1>4. /\ D \subseteq db.msgs
      /\ {db.removes[m.key]} \ {None} \subseteq D
      /\ {db.adds[m.key]} \ {None} \subseteq D
  BY <1>1 DEF IInv, ReadsInv, CurrentReads
<1>5. \A d \in D : d \in OwnOnly(l) /\ d \in {db.adds[m.key], db.removes[m.key]}
  <2> SUFFICES ASSUME NEW d \in D
               PROVE  d \in OwnOnly(l) /\ d \in {db.adds[m.key], db.removes[m.key]}
    OBVIOUS
  <2>1. d \in db.msgs /\ d.key = m.key /\ d \in Messages
    BY <1>3, <1>4
  <2>2. d = IF is_add_type(d) THEN db.adds[d.key] ELSE db.removes[d.key]
    BY <1>1, <2>1 DEF IInv, KeysInv
  <2> QED
    BY <2>1, <2>2 DEF OwnOnly, OfFid
<1>6. None \notin db.msgs
  BY DEF IInv, Shape, TypeOK, Store
<1>7. D = get_merge_conflicts(Part(l), m)
  BY <1>2, <1>4, <1>5, <1>6 DEF get_merge_conflicts, ConflictIn
<1>8. \A d \in D : message_compare(d, m) < 0
  BY <1>3, CompareAntisymmetric DEF Beats
<1>9. ~RefusedBy(Part(l).removes, m) /\ ~RefusedBy(Part(l).adds, m)
  <2>1. \A d \in D : ~(message_compare(d, m) >= 0)
    BY <1>3, <1>8, CompareRange
  <2> QED
    BY <1>2, <1>4, <2>1 DEF RefusedBy
<1>10. merge_check(Part(l), m) = "ok"
  BY <1>9 DEF merge_check
<1> QED
  BY <1>3, <1>7, <1>10

\* The commit of such a merge is merge, applied to the store as it is at that instant.
LEMMA CommitIsMerge ==
    ASSUME IInv, NEW t \in Threads, NEW m \in Messages, Writes(t, {m}), MergeJob(t, m),
           AddressOf[m.key] = None, OnlyMerged(LockOf[m.key])
    PROVE  MergedAtOnce(LockOf[m.key], m) /\ merge_check(Part(LockOf[m.key]), m) = "ok"
<1> USE MessagesAssumption, NoneAssumption, ThreadsAssumption
<1> DEFINE l == LockOf[m.key]
           D == job[t].deleted
           P == Part(l)
           R == delete_many_transaction(P, D)
<1>1. /\ m.key \in Keys /\ m.key \in OwnKeys(l) /\ m \in OwnOnly(l) /\ l \in Locks
      /\ job[t].pc = "commit"
  BY DEF OwnKeys, OwnOnly, OfFid, Writes
<1>2. D = get_merge_conflicts(P, m) /\ merge_check(P, m) = "ok" /\ \A d \in D : d.key = m.key
  BY <1>1, ConflictsAreCurrent
<1>3. offered' \cap OwnOnly(l) = (offered \cap OwnOnly(l)) \cup {m}
  BY <1>1 DEF Writes
<1>4. /\ P.msgs = db.msgs \cap OwnOnly(l) /\ P.byTarget = db.byTarget \cap OwnOnly(l)
      /\ P.adds = [k \in Keys |-> IF k \in OwnKeys(l) THEN db.adds[k] ELSE None]
      /\ P.removes = [k \in Keys |-> IF k \in OwnKeys(l) THEN db.removes[k] ELSE None]
  BY DEF Part
<1>5. /\ R.msgs = P.msgs \ D /\ R.byTarget = P.byTarget \ D
      /\ R.adds = [k \in Keys |-> IF \E d \in D : is_add_type(d) /\ d.key = k THEN None ELSE P.adds[k]]
      /\ R.removes = [k \in Keys |-> IF \E d \in D : is_remove_type(d) /\ d.key = k THEN None ELSE P.removes[k]]
  BY DEF delete_many_transaction
<1>6. merge(P, m) = put_transaction(R, m)
  BY <1>2 DEF merge
<1>7. merge(P, m) = [msgs     |-> R.msgs \cup {m},
                     adds     |-> IF is_add_type(m) THEN [R.adds EXCEPT ![m.key] = m] ELSE R.adds,
                     removes  |-> IF is_add_type(m) THEN R.removes ELSE [R.removes EXCEPT ![m.key] = m],
                     byTarget |-> IF is_add_type(m) THEN R.byTarget \cup {m} ELSE R.byTarget]
  BY <1>6 DEF put_transaction, put_add_transaction, put_remove_transaction
<1> HIDE DEF P, R, D
<1>8. /\ db'.msgs \cap OwnOnly(l) = R.msgs \cup {m}
      /\ db'.byTarget \cap OwnOnly(l) = IF is_add_type(m) THEN R.byTarget \cup {m} ELSE R.byTarget
  <2>1. /\ db'.msgs = (db.msgs \ D) \cup {m}
        /\ db'.byTarget = (db.byTarget \ D) \cup {x \in {m} : is_add_type(x)}
    BY DEF Writes, D
  <2> QED
    BY <1>1, <1>4, <1>5, <2>1
<1>9. [k \in Keys |-> IF k \in OwnKeys(l) THEN db'.adds[k] ELSE None]
          = IF is_add_type(m) THEN [R.adds EXCEPT ![m.key] = m] ELSE R.adds
  <2>1. \A k \in Keys : IF is_add_type(m) /\ k = m.key THEN db'.adds[k] = m
                        ELSE db'.adds[k] = IF \E d \in D : is_add_type(d) /\ d.key = k
                                           THEN None ELSE db.adds[k]
    BY DEF Writes, D
  <2>2. \A k \in Keys : R.adds[k] = IF \E d \in D : is_add_type(d) /\ d.key = k THEN None
                                    ELSE IF k \in OwnKeys(l) THEN db.adds[k] ELSE None
    <3>1. \A k \in Keys : P.adds[k] = IF k \in OwnKeys(l) THEN db.adds[k] ELSE None
      BY <1>4
    <3>2. \A k \in Keys : R.adds[k] = IF \E d \in D : is_add_type(d) /\ d.key = k THEN None ELSE P.adds[k]
      BY <1>5
    <3> QED
      BY <3>1, <3>2
  <2>3. \A k \in Keys : (IF k \in OwnKeys(l) THEN db'.adds[k] ELSE None)
                            = IF is_add_type(m) /\ k = m.key THEN m ELSE R.adds[k]
    BY <1>1, <2>1, <2>2
  <2>4. R.adds = [k \in Keys |-> R.adds[k]]
    BY <1>5
  <2> QED
    BY <1>1, <2>3, <2>4
<1>10. [k \in Keys |-> IF k \in OwnKeys(l) THEN db'.removes[k] ELSE None]
          = IF is_add_type(m) THEN R.removes ELSE [R.removes EXCEPT ![m.key] = m]
  <2>1. \A k \in Keys : IF ~is_add_type(m) /\ k = m.key THEN db'.removes[k] = m
                        ELSE db'.removes[k] = IF \E d \in D : is_remove_type(d) /\ d.key = k
                                              THEN None ELSE db.removes[k]
    BY DEF Writes, D
  <2>2. \A k \in Keys : R.removes[k] = IF \E d \in D : is_remove_type(d) /\ d.key = k THEN None
                                       ELSE IF k \in OwnKeys(l) THEN db.removes[k] ELSE None
    <3>1. \A k \in Keys : P.removes[k] = IF k \in OwnKeys(l) THEN db.removes[k] ELSE None
      BY <1>4
    <3>2. \A k \in Keys : R.removes[k] = IF \E d \in D : is_remove_type(d) /\ d.key = k THEN None ELSE P.removes[k]
      BY <1>5
    <3> QED
      BY <3>1, <3>2
  <2>3. \A k \in Keys : (IF k \in OwnKeys(l) THEN db'.removes[k] ELSE None)
                            = IF ~is_add_type(m) /\ k = m.key THEN m ELSE R.removes[k]
    BY <1>1, <2>1, <2>2
  <2>4. R.removes = [k \in Keys |-> R.removes[k]]
    BY <1>5
  <2> QED
    BY <1>1, <2>3, <2>4
<1>11. Part(l)' = merge(P, m)
  BY <1>7, <1>8, <1>9, <1>10 DEF Part
<1> QED
  BY <1>2, <1>3, <1>11 DEF MergedAtOnce, P

\* A merge that gives up on a message without address is one merge_check refuses, on the
\* store as it is at that instant, whichever index it was reading.
LEMMA RefusalIsMerge ==
    ASSUME IInv, NEW t \in Threads, NEW m \in Messages, IsRefused(t, m),
           AddressOf[m.key] = None, OnlyMerged(LockOf[m.key])
    PROVE  /\ MergedAtOnce(LockOf[m.key], m) /\ merge_check(Part(LockOf[m.key]), m) # "ok"
           /\ Part(LockOf[m.key])' = Part(LockOf[m.key])
<1> USE MessagesAssumption, NoneAssumption, ThreadsAssumption
<1> DEFINE l == LockOf[m.key]
<1>1. m.key \in Keys /\ m.key \in OwnKeys(l) /\ m \in OwnOnly(l) /\ Clean(m.key)
  BY DEF OwnKeys, OwnOnly, OfFid, Clean
<1>2. PICK n \in db.msgs : n = m \/ Beats(n, m)
  BY DEF IsRefused
<1>3. n \in Messages /\ n.key = m.key /\ n # None
  BY <1>2 DEF Beats, IInv, Shape, TypeOK, Store
<1>4. n = IF is_add_type(n) THEN db.adds[m.key] ELSE db.removes[m.key]
  BY <1>1, <1>2, <1>3 DEF IInv, KeysInv
<1>5. message_compare(n, m) >= 0
  BY <1>2, <1>3, CompareRange DEF Beats
<1>6. Part(l).adds[m.key] = db.adds[m.key] /\ Part(l).removes[m.key] = db.removes[m.key]
  BY <1>1 DEF Part
<1>7. RefusedBy(Part(l).removes, m) \/ RefusedBy(Part(l).adds, m)
  BY <1>3, <1>4, <1>5, <1>6 DEF RefusedBy
<1>8. merge_check(Part(l), m) # "ok"
  BY <1>7 DEF merge_check
<1>9. Part(l)' = Part(l) /\ offered' = offered \cup {m}
  <2>1. db' = db /\ offered' = offered \cup {m}
    BY DEF IsRefused, GiveUp
  <2> QED
    BY <2>1 DEF Part
<1> QED
  BY <1>1, <1>8, <1>9 DEF MergedAtOnce

\* A merge about a key outside a part writes nothing in it.
LEMMA CommitOfMerge ==
    ASSUME IInv, NEW t \in Threads, NEW m \in Messages, Writes(t, {m}), MergeJob(t, m), NEW l \in Locks,
           m.key \notin OwnKeys(l)
    PROVE  \A d \in job[t].deleted \cup {m} : d.key \notin OwnKeys(l)
BY DEF MergeJob, Beats, OwnKeys

\* A step that leaves a lock without revokes and prunes leaves its part alone or is one
\* whole merge into it.
LEMMA PartStep ==
    ASSUME IInv, [Next]_vars, NEW l \in Locks, OnlyMerged(l)'
    PROVE  \/ Part(l)' = Part(l) /\ offered' \cap OwnOnly(l) = offered \cap OwnOnly(l)
           \/ \E m \in OwnOnly(l) : MergedAtOnce(l, m)
<1> USE MessagesAssumption, ThreadsAssumption
<1> DEFINE Same == Part(l)' = Part(l) /\ offered' \cap OwnOnly(l) = offered \cap OwnOnly(l)
           One  == \E m \in OwnOnly(l) : MergedAtOnce(l, m)
<1>1. ASSUME db' = db, offered' = offered
      PROVE  Same
  BY <1>1 DEF Part
<1>2. CASE UNCHANGED vars \/ Tick
  BY <1>1, <1>2 DEF vars, Tick
<1>3. ASSUME NEW t \in Threads, StepKinds(t)
      PROVE  Same \/ One
  <2>0. Shape /\ IdsInv /\ OnlyMerged(l)
    BY <1>3, CleanShrinks DEF IInv
  <2>1. ASSUME NEW m \in Messages, IsRefused(t, m)
        PROVE  Same \/ One
    <3>1. CASE m \in OwnOnly(l)
      <4>1. LockOf[m.key] = l /\ AddressOf[m.key] = None
        BY <3>1 DEF OwnOnly, OfFid
      <4>2. MergedAtOnce(l, m)
        BY <2>0, <2>1, <4>1, RefusalIsMerge
      <4> QED
        BY <3>1, <4>2
    <3>2. CASE m \notin OwnOnly(l)
      <4>1. db' = db /\ offered' = offered \cup {m}
        BY <2>1 DEF IsRefused, GiveUp
      <4> QED
        BY <3>2, <4>1 DEF Part
    <3> QED
      BY <3>1, <3>2
  <2>2. ASSUME NEW W \in SUBSET Messages, Writes(t, W)
        PROVE  Same \/ One
    <3>1. CASE W = {} /\ RemoveJob(t)
      <4> SUFFICES ASSUME NEW d \in job[t].deleted \cup W, d.key \in OwnKeys(l)
                   PROVE  FALSE
        BY <2>2, PartUntouched
      <4>1. d \in job[t].deleted /\ d \in Subjects(job[t]) /\ job[t].todo = {}
        BY <2>2, <3>1 DEF RemoveJob, Writes
      <4>2. PICK e \in job[t].evs : e.msg = d /\ e.op # "merge"
        BY <3>1, <4>1 DEF Subjects, RemoveJob
      <4>3. d \in undone'
        BY <2>2, <4>2 DEF Writes
      <4>4. d \in OfFid(l)
        BY <2>0, <4>1 DEF Shape, TypeOK, Jobs, OwnKeys, OfFid
      <4> QED
        BY <4>2, <4>3, <4>4 DEF OnlyMerged, OfFid
    <3>2. ASSUME NEW m \in Messages, W = {m}, MergeJob(t, m)
          PROVE  Same \/ One
      <4>1. CASE m.key \in OwnKeys(l)
        <5>1. m \in OwnOnly(l) /\ LockOf[m.key] = l /\ AddressOf[m.key] = None
          BY <4>1 DEF OwnKeys, OwnOnly, OfFid
        <5>2. MergedAtOnce(l, m)
          BY <2>0, <2>2, <3>2, <5>1, CommitIsMerge
        <5> QED
          BY <5>1, <5>2
      <4>2. CASE m.key \notin OwnKeys(l)
        BY <2>2, <3>2, <4>2, CommitOfMerge, PartUntouched
      <4> QED
        BY <4>1, <4>2
    <3> QED
      BY <2>2, <3>1, <3>2 DEF Writes
  <2>3. CASE /\ ~\E m \in Messages : IsRefused(t, m)
             /\ ~\E W \in SUBSET Messages : Writes(t, W)
    <3>1. db' = db
      BY <1>3, <2>0, <2>3, OnlyCommitsWrite
    <3>2. offered' = offered
      BY <1>3, <2>3 DEF StepKinds, StartsMerge, StartsRemove, Starts, Reads, ReadsOn, TakesId
    <3> QED
      BY <1>1, <3>1, <3>2
  <2> QED
    BY <2>1, <2>2, <2>3
<1> QED
  BY <1>2, <1>3, NextIsStep DEF IInv

\* The fid locks make merges atomic, step by step: between the read of the conflicts and
\* the commit nothing of the fid changes that the merge would have seen, so every commit
\* and every refusal is a whole merge on the store of that instant.
THEOREM LocksMakeMergesAtomic == Spec => MergesAreAtomic
<1> DEFINE A == \A l \in Locks : OnlyMerged(l)' =>
                   \/ UNCHANGED <<Part(l), offered \cap OwnOnly(l)>>
                   \/ \E m \in OwnOnly(l) : MergedAtOnce(l, m)
<1>1. ASSUME IInv, [Next]_vars
      PROVE  A
  <2> SUFFICES ASSUME NEW l \in Locks, OnlyMerged(l)'
               PROVE  \/ Part(l)' = Part(l) /\ offered' \cap OwnOnly(l) = offered \cap OwnOnly(l)
                      \/ \E m \in OwnOnly(l) : MergedAtOnce(l, m)
    BY DEF OwnOnly, OfFid
  <2> QED
    BY <1>1, PartStep
<1>2. IInv /\ [Next]_vars => [UNCHANGED <<db, offered>> \/ A]_vars
  BY <1>1
<1> QED
  BY <1>2, Invariance, PTL DEF Spec, MergesAreAtomic

\* Without revokes and prunes every job is a merge, and so is every event.
MergesOnly ==
    /\ \A t \in Threads : job[t] = Idle \/ job[t].op = "merge"
    /\ \A e \in AllEvents : e.op = "merge"
    /\ undone = {}

\* The jobs of a hub that only merges.
LEMMA MergesOnlyStep ==
    ASSUME Ops \subseteq {"merge"}, Shape, MergesOnly, [Next]_vars
    PROVE  MergesOnly'
<1> USE ThreadsAssumption
<1>1. CASE UNCHANGED vars \/ Tick
  BY <1>1 DEF vars, Tick, MergesOnly, AllEvents, Idle
<1>2. ASSUME NEW t \in Threads,
             \A u \in Threads \ {t} : job'[u] = job[u],
             job'[t] = Idle \/ job'[t].op = "merge",
             \A e \in job'[t].evs : e.op = "merge",
             \A e \in events' : e.op = "merge",
             undone' = {}
      PROVE  MergesOnly'
  <2>1. \A u \in Threads : job'[u] = Idle \/ job'[u].op = "merge"
    BY <1>2 DEF MergesOnly, Idle
  <2>2. \A u \in Threads : \A e \in job'[u].evs : e.op = "merge"
    BY <1>2 DEF MergesOnly, AllEvents
  <2> QED
    BY <1>2, <2>1, <2>2 DEF MergesOnly, AllEvents, Idle
<1>3. ASSUME NEW t \in Threads
      PROVE  /\ job[t] \in Jobs
             /\ \A e \in events : e.op = "merge"
             /\ \A e \in job[t].evs : e.op = "merge"
             /\ Idle.evs = {} /\ Idle.pc = "idle" /\ undone = {}
  BY DEF MergesOnly, AllEvents, Shape, TypeOK, Idle
<1>4. ASSUME NEW t \in Threads, NEW m \in Messages, LockFid(t, m)
      PROVE  MergesOnly'
  <2>1. StartsMerge(t, m)
    BY <1>4, LockEffect
  <2>2. /\ \A u \in Threads \ {t} : job'[u] = job[u]
        /\ job'[t].op = "merge" /\ job'[t].evs = {} /\ events' = events /\ undone' = undone
    BY <2>1 DEF StartsMerge, Starts, StepOf, MergeJob
  <2> QED
    BY <1>2, <1>3, <2>2
<1>5. ASSUME NEW t \in Threads, NEW m \in Messages, TakeEventId(t, m)
      PROVE  MergesOnly'
  <2>1. CASE GiveUp(t) /\ undone' = undone
    <3>1. /\ \A u \in Threads \ {t} : job'[u] = job[u]
          /\ job'[t] = Idle /\ events' = events /\ undone' = undone
      BY <2>1, GiveUpEffect DEF Shape, StepOf
    <3> QED
      BY <1>2, <1>3, <3>1
  <2>2. ASSUME NEW e \in Events, TakesId(t, m, e)
        PROVE  MergesOnly'
    <3>1. job[t].op = "merge"
      BY <1>3, <2>2 DEF MergesOnly, TakesId
    <3>2. /\ \A u \in Threads \ {t} : job'[u] = job[u]
          /\ job'[t].op = "merge" /\ job'[t].evs = job[t].evs \cup {e} /\ events' = events /\ undone' = undone
          /\ e.op = "merge"
      BY <1>3, <2>2, <3>1 DEF TakesId, StepOf, Jobs
    <3> QED
      BY <1>2, <1>3, <3>2
  <2> QED
    BY <1>5, <2>1, <2>2, TakeEffect
<1>6. ASSUME NEW t \in Threads, ReadRemoves(t) \/ ReadAdds(t) \/ ReadByAddress(t)
      PROVE  MergesOnly'
  <2>1. PICK m \in Messages : MergeJob(t, m) /\ Reads(t, m)
    BY <1>6, ReadEffect
  <2>2. CASE IsRefused(t, m)
    <3>1. /\ \A u \in Threads \ {t} : job'[u] = job[u]
          /\ job'[t] = Idle /\ events' = events /\ undone' = undone
      BY <2>2, GiveUpEffect DEF Shape, StepOf, IsRefused
    <3> QED
      BY <1>2, <1>3, <3>1
  <2>3. ASSUME NEW X \in SUBSET db.msgs, NEW next \in {"adds", "address", "id"}, ReadsOn(t, m, X, next)
        PROVE  MergesOnly'
    <3>1. /\ \A u \in Threads \ {t} : job'[u] = job[u]
          /\ job'[t].op = "merge" /\ job'[t].evs = job[t].evs /\ events' = events /\ undone' = undone
      BY <1>3, <2>1, <2>3 DEF ReadsOn, StepOf, MergeJob, Jobs
    <3> QED
      BY <1>2, <1>3, <3>1
  <2> QED
    BY <2>1, <2>2, <2>3 DEF Reads
<1>7. ASSUME NEW t \in Threads, Commit(t)
      PROVE  MergesOnly'
  <2>1. PICK W \in SUBSET Messages : Writes(t, W)
    BY <1>7, CommitEffect
  <2>2. /\ \A u \in Threads \ {t} : job'[u] = job[u]
        /\ job'[t] = Idle /\ events' \subseteq events \cup job[t].evs /\ undone' = {}
    BY <1>3, <2>1 DEF Writes, StepOf
  <2> QED
    BY <1>2, <1>3, <2>2
<1>8. ASSUME NEW t \in Threads
      PROVE  /\ \A m \in Messages : ~StartRevoke(t, m)
             /\ \A l \in Locks, n \in 1..Cardinality(Messages) : ~StartPrune(t, l, n)
  BY DEF StartRevoke, StartPrune
<1> QED
  BY <1>1, <1>4, <1>5, <1>6, <1>7, <1>8 DEF Next

\* The order of messages and Store::merge are the same in the abstract specification.
LEMMA SerialMerge ==
    /\ Serial!EmptyStore = EmptyStore
    /\ \A s, m : Serial!merge_check(s, m) = merge_check(s, m) /\ Serial!merge(s, m) = merge(s, m)
<1>1. /\ Serial!EmptyStore = EmptyStore
      /\ \A a : Serial!is_add_type(a) = is_add_type(a) /\ Serial!is_remove_type(a) = is_remove_type(a)
  BY DEF Serial!EmptyStore, EmptyStore, Serial!is_add_type, is_add_type, Serial!is_remove_type, is_remove_type
<1>2. \A a, b : Serial!message_compare(a, b) = message_compare(a, b)
  <2>1. \A a, b : Serial!bytes_compare(a, b) = bytes_compare(a, b)
    BY Zenon DEF Serial!bytes_compare, bytes_compare
  <2>2. \A a, b : Serial!type_compare(a, b) = type_compare(a, b)
    BY <1>1 DEF Serial!type_compare, type_compare
  <2>3. \A a, b : /\ Serial!cast_message_compare(a, b) = cast_message_compare(a, b)
                  /\ Serial!default_message_compare(a, b) = default_message_compare(a, b)
    BY <2>1, <2>2
       DEF Serial!cast_message_compare, cast_message_compare, Serial!default_message_compare, default_message_compare
  <2> QED
    BY <2>3 DEF Serial!message_compare, message_compare
<1>3. \A index, m : Serial!RefusedBy(index, m) = RefusedBy(index, m)
  BY <1>2 DEF Serial!RefusedBy, RefusedBy
<1>4. \A s, m : Serial!merge_check(s, m) = merge_check(s, m)
  BY <1>2, <1>3 DEF Serial!merge_check, merge_check
<1>5. \A s, m : Serial!get_merge_conflicts(s, m) = get_merge_conflicts(s, m)
  BY DEF Serial!get_merge_conflicts, get_merge_conflicts, Serial!ConflictIn, ConflictIn
<1>6. \A s, D : Serial!delete_many_transaction(s, D) = delete_many_transaction(s, D)
  BY Zenon DEF Serial!delete_many_transaction, delete_many_transaction,
     Serial!is_add_type, is_add_type, Serial!is_remove_type, is_remove_type
<1>7. \A s, m : Serial!put_transaction(s, m) = put_transaction(s, m)
  BY <1>1 DEF Serial!put_transaction, put_transaction, Serial!put_add_transaction, put_add_transaction,
     Serial!put_remove_transaction, put_remove_transaction
<1>8. \A s, m : Serial!merge(s, m) = merge(s, m)
  BY <1>5, <1>6, <1>7 DEF Serial!merge, merge
<1> QED
  BY <1>1, <1>4, <1>8

\* A step that merges m into the part of l and leaves the other parts alone is a step of
\* the abstract hub l.
LEMMA SerialStep ==
    ASSUME NEW l \in Locks, NEW m \in Messages, MergedAtOnce(l, m),
           \A o \in Locks \ {l} : Part(o)' = Part(o) /\ offered' \cap OwnOnly(o) = offered \cap OwnOnly(o),
           Published' = IF merge_check(Part(l), m) = "ok" THEN Published \cup {m} ELSE Published
    PROVE  Serial!SubmitRpc(l, m)
<1> DEFINE S == [o \in Locks |-> Part(o)]
           O == [o \in Locks |-> offered \cap OwnOnly(o)]
<1>1. S[l] = Part(l) /\ S' = [o \in Locks |-> Part(o)'] /\ O' = [o \in Locks |-> offered' \cap OwnOnly(o)]
  BY DEF OwnOnly, OfFid
<1>2. O' = [O EXCEPT ![l] = @ \cup {m}]
  BY <1>1 DEF MergedAtOnce
<1>3. S' = IF merge_check(S[l], m) = "ok" THEN [S EXCEPT ![l] = merge(S[l], m)] ELSE S
  BY <1>1 DEF MergedAtOnce
<1>4. S' = IF Serial!merge_check(S[l], m) = "ok" THEN [S EXCEPT ![l] = Serial!merge(S[l], m)] ELSE S
  BY <1>3, SerialMerge
<1>5. Published' = IF Serial!merge_check(S[l], m) = "ok" THEN Published \cup {m} ELSE Published
  BY <1>1, SerialMerge
<1> QED
  BY <1>2, <1>4, <1>5 DEF Serial!SubmitRpc, Serial!MergeAt

\* Steps that write no event and no message of a part are stutters of the abstract hubs.
LEMMA SerialStutter ==
    ASSUME \A l \in Locks : Part(l)' = Part(l) /\ offered' \cap OwnOnly(l) = offered \cap OwnOnly(l),
           Published' = Published
    PROVE  UNCHANGED Serial!vars
<1>1. /\ [l \in Locks |-> Part(l)]' = [l \in Locks |-> Part(l)]
      /\ [l \in Locks |-> offered \cap OwnOnly(l)]' = [l \in Locks |-> offered \cap OwnOnly(l)]
  BY DEF OwnOnly, OfFid
<1> QED
  BY <1>1 DEF Serial!vars

\* Every step of a hub that only merges is one of the abstract hubs' steps, or none.
LEMMA SerialNext ==
    ASSUME IInv, MergesOnly, MergesOnly', setBack = 0, [Next]_vars
    PROVE  [Serial!Next]_(Serial!vars)
<1> USE MessagesAssumption, ThreadsAssumption
<1>1. \A l \in Locks : OnlyMerged(l) /\ OnlyMerged(l)'
  BY DEF MergesOnly, OnlyMerged
<1>2. ASSUME NEW m \in Messages, AddressOf[m.key] = None
      PROVE  /\ LockOf[m.key] \in Locks
             /\ \A l \in Locks \ {LockOf[m.key]} : m \notin OwnOnly(l) /\ m.key \notin OwnKeys(l)
  BY DEF OwnOnly, OfFid, OwnKeys
<1>3. ASSUME db' = db, offered' = offered, events' = events
      PROVE  UNCHANGED Serial!vars
  <2>1. \A l \in Locks : Part(l)' = Part(l)
    BY <1>3 DEF Part
  <2> QED
    BY <1>3, <2>1, SerialStutter DEF Published
<1>4. CASE UNCHANGED vars \/ Tick
  BY <1>3, <1>4 DEF vars, Tick
<1>5. ASSUME NEW t \in Threads, StepKinds(t)
      PROVE  [Serial!Next]_(Serial!vars)
  <2>1. ASSUME NEW m \in Messages, IsRefused(t, m)
        PROVE  [Serial!Next]_(Serial!vars)
    <3>1. db' = db /\ events' = events /\ offered' = offered \cup {m}
      BY <2>1 DEF IsRefused, GiveUp
    <3>2. Published' = Published /\ \A l \in Locks : Part(l)' = Part(l)
      BY <3>1 DEF Published, Part
    <3>3. CASE AddressOf[m.key] # None
      <4>1. \A l \in Locks : m \notin OwnOnly(l)
        BY <3>3 DEF OwnOnly
      <4>2. \A l \in Locks : offered' \cap OwnOnly(l) = offered \cap OwnOnly(l)
        BY <3>1, <4>1
      <4> QED
        BY <3>2, <4>2, SerialStutter
    <3>4. CASE AddressOf[m.key] = None
      <4>1. MergedAtOnce(LockOf[m.key], m) /\ merge_check(Part(LockOf[m.key]), m) # "ok"
        BY <1>1, <1>2, <2>1, <3>4, RefusalIsMerge
      <4>2. \A l \in Locks \ {LockOf[m.key]} : offered' \cap OwnOnly(l) = offered \cap OwnOnly(l)
        BY <1>2, <3>1, <3>4
      <4>3. Serial!SubmitRpc(LockOf[m.key], m)
        BY <1>2, <3>2, <3>4, <4>1, <4>2, SerialStep
      <4> QED
        BY <1>2, <3>4, <4>3 DEF Serial!Next
    <3> QED
      BY <3>3, <3>4
  <2>2. ASSUME NEW W \in SUBSET Messages, Writes(t, W)
        PROVE  [Serial!Next]_(Serial!vars)
    <3>1. PICK m \in Messages : W = {m} /\ MergeJob(t, m)
      <4>1. job[t].pc = "commit" /\ job[t] # Idle
        BY <2>2 DEF Writes, Idle
      <4>2. ~RemoveJob(t)
        BY <4>1 DEF MergesOnly, RemoveJob
      <4> QED
        BY <2>2, <4>2 DEF Writes
    <3>2. events' = events \cup job[t].evs /\ job[t].evs # {}
      <4>1. events' = events \cup job[t].evs
        BY <2>2, LogGrows DEF IInv
      <4>2. job[t].pc = "commit"
        BY <2>2 DEF Writes
      <4>3. job[t].evs # {}
        BY <3>1, <4>2 DEF MergeJob
      <4> QED
        BY <4>1, <4>3
    <3>3. \A e \in job[t].evs : e.msg = m /\ e.op = "merge"
      BY <3>1 DEF MergeJob
    <3>4. CASE AddressOf[m.key] # None
      <4>1. \A l \in Locks : m.key \notin OwnKeys(l)
        BY <3>4 DEF OwnKeys
      <4>2. \A l \in Locks : Part(l)' = Part(l) /\ offered' \cap OwnOnly(l) = offered \cap OwnOnly(l)
        BY <2>2, <3>1, <4>1, CommitOfMerge, PartUntouched
      <4>3. Published' = Published
        BY <3>2, <3>3, <3>4 DEF Published
      <4> QED
        BY <4>2, <4>3, SerialStutter
    <3>5. CASE AddressOf[m.key] = None
      <4>1. MergedAtOnce(LockOf[m.key], m) /\ merge_check(Part(LockOf[m.key]), m) = "ok"
        BY <1>1, <1>2, <2>2, <3>1, <3>5, CommitIsMerge
      <4>2. \A l \in Locks \ {LockOf[m.key]} :
               Part(l)' = Part(l) /\ offered' \cap OwnOnly(l) = offered \cap OwnOnly(l)
        BY <1>2, <2>2, <3>1, <3>5, CommitOfMerge, PartUntouched
      <4>3. Published' = Published \cup {m}
        BY <3>2, <3>3, <3>5 DEF Published
      <4>4. Serial!SubmitRpc(LockOf[m.key], m)
        BY <1>2, <3>5, <4>1, <4>2, <4>3, SerialStep
      <4> QED
        BY <1>2, <3>5, <4>4 DEF Serial!Next
    <3> QED
      BY <3>4, <3>5
  <2>3. CASE /\ ~\E m \in Messages : IsRefused(t, m)
             /\ ~\E W \in SUBSET Messages : Writes(t, W)
    <3>1. db' = db /\ events' = events
      BY <1>5, <2>3, OnlyCommitsWrite DEF IInv
    <3>2. offered' = offered
      BY <1>5, <2>3 DEF StepKinds, StartsMerge, StartsRemove, Starts, Reads, ReadsOn, TakesId
    <3> QED
      BY <1>3, <3>1, <3>2
  <2> QED
    BY <2>1, <2>2, <2>3
<1> QED
  BY <1>4, <1>5, NextIsStep DEF IInv

\* A hub whose threads only merge implements the serial stores of MessageReplication: to
\* everyone who sees the database and the log, js_merge and js_merge_many of any number of
\* threads are a sequence of whole merges, one after the other at each lock.  The clock is
\* not set back here: what was published is read off the log, where a reused id would
\* replace an event.
THEOREM MergesImplementSerial ==
    ASSUME Ops \subseteq {"merge"}, MaxSetBack = 0
    PROVE  Spec => Serial!Spec
<1>1. Init => MergesOnly
  <2> SUFFICES ASSUME Init
               PROVE  MergesOnly
    OBVIOUS
  <2>1. events = {} /\ undone = {} /\ \A t \in Threads : job[t] = Idle /\ job[t].evs = {}
    BY DEF Init, Idle
  <2> QED
    BY <2>1 DEF MergesOnly, AllEvents
<1>2. IInv /\ MergesOnly /\ [Next]_vars => MergesOnly'
  BY MergesOnlyStep DEF IInv
<1>3. Init => Serial!Init
  <2> SUFFICES ASSUME Init
               PROVE  Serial!Init
    OBVIOUS
  <2>1. db = EmptyStore /\ events = {} /\ offered = {}
    BY DEF Init
  <2>2. \A l \in Locks : Part(l) = EmptyStore
    <3>1. /\ db.msgs = {} /\ db.byTarget = {} /\ db.adds = [k \in Keys |-> None]
          /\ db.removes = [k \in Keys |-> None]
      BY <2>1 DEF EmptyStore
    <3> QED
      BY <3>1 DEF Part, EmptyStore
  <2>3. Published = {}
    BY <2>1 DEF Published
  <2> QED
    BY <2>1, <2>2, <2>3, SerialMerge DEF Serial!Init
<1>4. IInv /\ MergesOnly /\ MergesOnly' /\ [Next]_vars => [Serial!Next]_(Serial!vars)
  <2>1. IInv => setBack = 0
    BY DEF IInv, Shape, TypeOK
  <2> QED
    BY <2>1, SerialNext
<1> QED
  BY <1>1, <1>2, <1>3, <1>4, Invariance, PTL DEF Spec, Serial!Spec

\* Replaying the log in id order rebuilds the store, whatever the order of the commits, as
\* long as the clock was not set back.
THEOREM LogRebuildsStore == Spec => []LogDescribesStore
<1>1. IInv => LogDescribesStore
  BY DEF IInv, LogInv
<1> QED
  BY <1>1, Invariance, PTL

\* An address is verified by one fid at most, and the entry by address names it, unless
\* two operations on the address overlapped.
THEOREM AddressesAreExclusive == Spec => []OneFidPerAddress
<1>1. IInv => OneFidPerAddress
  BY DEF IInv
<1> QED
  BY <1>1, Invariance, PTL
=============================================================================
