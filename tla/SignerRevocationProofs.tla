------------------------ MODULE SignerRevocationProofs ------------------------
(***************************************************************************)
(* Proofs about signer events and the revocation of a removed signer's     *)
(* messages, for any number of concurrent merges, lookups, calls of        *)
(* processJobs, crashes, signers, events and messages.  What is said of a  *)
(* signer's index is proved for the signers of whom no two events were     *)
(* merged at once; merges of different signers overlap as they like.       *)
(***************************************************************************)
EXTENDS SignerRevocation, WellFoundedInduction, TLAPS

-----------------------------------------------------------------------------
(* Types                                                                   *)

Merges == [pc : {"idle", "index", "commit"}, event : Events \cup {None}, put : Events \cup {None}]

LookupStates == [pc : {"idle", "read", "found", "active"}, signer : Signers \cup {None}]

RunStates == [pc : {"idle", "pop", "delete", "revoke", "end"}, job : Jobs \cup {None},
              todo : SUBSET Messages]

Shape ==
    /\ TypeOK
    /\ merger \in [Mergers -> Merges]
    /\ \A p \in Mergers : merger[p].pc # "idle" => merger[p].event \in Events
    /\ \A p \in Mergers : merger[p].pc = "index" => merger[p].put = None
    /\ lookup \in [Lookups -> LookupStates]
    /\ \A v \in Lookups : lookup[v].pc # "idle" => lookup[v].signer \in Signers
    /\ run \in [Runs -> RunStates]
    /\ \A r \in Runs : run[r].pc \in {"delete", "revoke"} => run[r].job \in Jobs

-----------------------------------------------------------------------------
(* Inductive invariants                                                    *)

\* A signer that has not overlapped has one merge in progress at most.
AloneInv ==
    \A p, q \in Mergers : \A s \in Signers :
        Merging(p, s) /\ Merging(q, s) /\ s \notin overlapped => p = q

WasRemoved(s) == \E e \in stored : e.signer = s /\ e.type = "REMOVE"

\* What the index points at, and what a merge is to make it point at, is stored or
\* about to be.
IndexedInv ==
    /\ \A s \in Signers : index[s] # None => index[s] \in stored /\ index[s].signer = s
    /\ \A p \in Mergers : merger[p].pc = "commit" /\ merger[p].put # None =>
           /\ merger[p].put.signer = merger[p].event.signer
           /\ merger[p].put \in stored \cup {merger[p].event}

\* Where the signer of an accepted message stands.
ActiveOrRemoved(s) == IsActive(index[s]) \/ WasRemoved(s) \/ s \in overlapped

\* A merge leaves the index of an active signer at an ADD, unless it removes the signer.
PutsInv ==
    \A p \in Mergers :
        LET e == merger[p].event
            put == merger[p].put
        IN  merger[p].pc = "commit" /\ put # None /\ e.signer \notin overlapped =>
                IsActive(put) \/ e.type = "REMOVE" \/ ~IsActive(index[e.signer])

\* The event of a merge in progress is not stored yet.
FreshInv ==
    \A p \in Mergers : merger[p].pc # "idle" /\ merger[p].event.signer \notin overlapped =>
        merger[p].event \notin stored

\* Messages, cache entries and lookups that found a signer: it was active, and has not
\* become anything but removed.
SignersInv ==
    /\ \A m \in msgs : ActiveOrRemoved(m.signer)
    /\ \A s \in cache : ActiveOrRemoved(s)
    /\ \A v \in Lookups : lookup[v].pc \in {"found", "active"} => ActiveOrRemoved(lookup[v].signer)

\* There is one worker, and it holds jobs of removed signers.
WorkerInv ==
    /\ status = "waiting" => \A r \in Runs : run[r].pc = "idle"
    /\ \A q, r \in Runs : run[q].pc # "idle" /\ run[r].pc # "idle" => q = r
    /\ \A r \in Runs : run[r].pc = "delete" => run[r].job \in jobs
    /\ \A r \in Runs : run[r].pc = "revoke" =>
           WasRemoved(run[r].job[1]) /\ \A m \in run[r].todo : m.signer = run[r].job[1]
    /\ \A j \in puts \cup jobs : WasRemoved(j[1])

\* The job of a merged removal is being written, stored, taken, or lost.
JobsInv ==
    /\ puts \cap jobs = {} /\ puts \cap done = {} /\ jobs \cap done = {} /\ redone = {}
    /\ \A j \in puts \cup jobs \cup done : j[2] <= removals[j[1]]

\* What the key registry of the chain allows without a reset: a key is added once, and
\* removed at most once, later.
RegistryOrder ==
    \A e, f \in Events : e.signer = f.signer =>
        /\ e.type # "ADMIN_RESET"
        /\ e.type = f.type => e = f
        /\ e.type = "ADD" /\ f.type = "REMOVE" => Before(e, f)

\* The index points at the REMOVE once it is offered, and before that at the ADD.
IndexInv ==
    /\ \A e \in offered : e.signer \notin overlapped =>
           \/ index[e.signer] = e
           \/ e.type = "ADD" /\ index[e.signer] # None /\ index[e.signer].type = "REMOVE"
    /\ \A s \in Signers \ overlapped : index[s] # None => index[s] \in offered

\* A merge that leaves the index alone has seen the REMOVE.
SkipsInv ==
    \A p \in Mergers :
        LET e == merger[p].event
            put == merger[p].put
        IN  merger[p].pc = "commit" /\ e.signer \notin overlapped =>
                \/ put = e /\ (e.type = "REMOVE" \/ index[e.signer] \in {None, e})
                \/ put = None /\ e.type = "ADD" /\ index[e.signer] # None /\ index[e.signer].type = "REMOVE"

-----------------------------------------------------------------------------
(* Lemmas about the operators                                              *)

\* A set of natural numbers that is not empty has a least element.
LEMMA NatHasLeast ==
    ASSUME NEW T \in SUBSET Nat, T # {}
    PROVE  \E x \in T : \A y \in T : x <= y
<1> DEFINE R == {ss \in Nat \X Nat : ss[1] < ss[2]}
<1>1. IsWellFoundedOn(R, Nat)
  BY NatLessThanWellFounded, Zenon DEF OpToRel
<1> HIDE DEF R
<1>2. PICK x \in T : \A y \in T : ~ (<<y, x>> \in R)
  BY <1>1, WFMin
<1>3. ASSUME NEW y \in T PROVE x <= y
  <2>1. ~(<<y, x>> \in R) /\ x \in Nat /\ y \in Nat
    BY <1>2
  <2>2. ~(y < x)
    BY <2>1 DEF R
  <2>3. QED BY <2>1, <2>2
<1>4. QED BY <1>3

\* signerEvents.find: where there is an ADD, there is a first one, by block and log index.
LEMMA FirstAddExists ==
    ASSUME NEW E \in SUBSET Events, HasAdd(E)
    PROVE  FirstAdd(E) \in E /\ FirstAdd(E).type = "ADD"
<1> USE EventsAssumption
<1> DEFINE Adds == {a \in E : a.type = "ADD"}
           Blocks == {a.block : a \in Adds}
<1>1. Blocks \in SUBSET Nat /\ Blocks # {}
  BY DEF HasAdd
<1>2. PICK b \in Blocks : \A c \in Blocks : b <= c
  BY <1>1, NatHasLeast
<1> DEFINE Logs == {a.log : a \in {x \in Adds : x.block = b}}
<1>3. Logs \in SUBSET Nat /\ Logs # {}
  BY <1>2
<1>4. PICK l \in Logs : \A k \in Logs : l <= k
  BY <1>3, NatHasLeast
<1>5. PICK a \in Adds : a.block = b /\ a.log = l
  BY <1>4
<1>6. \A x \in Adds : ~Before(x, a)
  <2> TAKE x \in Adds
  <2>1. x.block \in Nat /\ x.log \in Nat /\ a.block \in Nat /\ a.log \in Nat
    OBVIOUS
  <2>2. b <= x.block
    BY <1>2
  <2>3. x.block = b => l <= x.log
    BY <1>4
  <2>4. QED BY <1>5, <2>1, <2>2, <2>3 DEF Before
<1>7. a \in E /\ a.type = "ADD" /\ \A x \in E : x.type = "ADD" => ~Before(x, a)
  BY <1>5, <1>6
<1>8. QED BY <1>7 DEF FirstAdd

\* What the index is to point at is the event itself or a stored ADD of the same signer.
LEMMA IndexEntryType ==
    ASSUME stored \subseteq Events, NEW e \in Events
    PROVE  LET put == IndexEntry(e)
           IN  /\ put \in Events /\ put.signer = e.signer
               /\ \/ put = e
                  \/ e.type = "ADMIN_RESET" /\ put \in stored /\ put.type = "ADD"
               /\ e.type = "ADMIN_RESET" => put # e \/ ~HasAdd({x \in stored : x.signer = e.signer})
<1> USE EventsAssumption
<1> DEFINE mine == {x \in stored : x.signer = e.signer}
<1>1. mine \in SUBSET Events
  OBVIOUS
<1>2. CASE e.type = "ADMIN_RESET" /\ HasAdd(mine)
  <2>1. FirstAdd(mine) \in mine /\ FirstAdd(mine).type = "ADD"
    BY <1>1, <1>2, FirstAddExists
  <2>2. IndexEntry(e) = FirstAdd(mine)
    BY <1>2 DEF IndexEntry
  <2>3. FirstAdd(mine) # e
    BY <1>2, <2>1
  <2> HIDE DEF mine
  <2>4. FirstAdd(mine) \in stored /\ FirstAdd(mine).signer = e.signer
    BY <2>1 DEF mine
  <2>5. QED BY <1>2, <2>1, <2>2, <2>3, <2>4
<1>3. CASE ~(e.type = "ADMIN_RESET" /\ HasAdd(mine))
  <2>1. IndexEntry(e) = e
    BY <1>3 DEF IndexEntry
  <2>2. QED BY <1>3, <2>1
<1>4. QED BY <1>2, <1>3

-----------------------------------------------------------------------------
(* Types                                                                   *)

LEMMA InitShape == Init => Shape
<1> USE EventsAssumption, RevocationAssumption
<1> SUFFICES ASSUME Init PROVE Shape
  OBVIOUS
<1>1. stored \subseteq Events /\ offered \subseteq Events
  BY DEF Init, Added
<1>2. index \in [Signers -> Events \cup {None}]
  BY <1>1 DEF Init
<1>3. cache \subseteq Signers /\ overlapped \subseteq Signers
  BY DEF Init
<1>4. /\ merger \in [Mergers -> Merges]
      /\ \A p \in Mergers : merger[p] = NoMerge
  BY DEF Init, NoMerge, Merges
<1>5. /\ lookup \in [Lookups -> LookupStates]
      /\ \A v \in Lookups : lookup[v] = NoLookup
  BY DEF Init, NoLookup, LookupStates
<1>6. /\ run \in [Runs -> RunStates]
      /\ \A r \in Runs : run[r] = NoRun
  BY DEF Init, NoRun, RunStates
<1>7. msgs \subseteq Messages
  BY DEF Init
<1>8. puts = {} /\ jobs = {} /\ emits = {} /\ late = {} /\ status = "waiting"
      /\ done = {} /\ unfit = {} /\ removals \in [Signers -> Nat]
  BY DEF Init
<1>9. QED
  BY <1>1, <1>2, <1>3, <1>4, <1>5, <1>6, <1>7, <1>8
  DEF Shape, TypeOK, EventsTypeOK, NoMerge, NoLookup, NoRun

\* Every step, by the action it is of.
StepOf(A, L, R, M, S) ==
    \/ \E p \in A : \/ HandleSignerEvent(p) /\ UNCHANGED <<jobVars, crashes>>
                    \/ \E e \in Events : StartEvent(p, e) /\ UNCHANGED <<jobVars, crashes>>
                    \/ CommitAndEnqueue(p)
    \/ \E v \in L : \/ (ReadSigner(v) \/ CacheSigner(v)) /\ UNCHANGED <<jobVars, crashes>>
                    \/ \E s \in S : StartLookup(v, s) /\ UNCHANGED <<jobVars, crashes>>
                    \/ \E m \in M : MergeMessage(v, m)
    \/ \E s \in S : Evict(s) /\ UNCHANGED <<jobVars, crashes>>
    \/ \E j \in puts : PutJob(j)
    \/ \E j \in emits : \E r \in R : EmitEnqueueJob(j, r)
    \/ CloseWindow \/ Crash
    \/ \E r \in R : PopRead(r) \/ PopDelete(r) \/ RevokeNext(r) \/ EndRun(r)
    \/ \E m \in M : ValidateOrRevoke(m) \/ Invalidate(m) \/ RevokeName(m)

LEMMA NextIsStep == Next => StepOf(Mergers, Lookups, Runs, Messages, Signers)
  BY DEF Next, EventStep, EnqueueStep, RunStep, StepOf

LEMMA ShapeNext == Shape /\ [Next]_vars => Shape'
<1> USE EventsAssumption, RevocationAssumption
<1> SUFFICES ASSUME Shape, [Next]_vars PROVE Shape'
  OBVIOUS
<1> USE DEF Shape, TypeOK, EventsTypeOK
<1>1. CASE UNCHANGED vars
  BY <1>1 DEF vars, eventVars, jobVars, queueVars
<1>2. ASSUME NEW p \in Mergers, NEW e \in Events, StartEvent(p, e), UNCHANGED <<jobVars, crashes>>
      PROVE  Shape'
  BY <1>2 DEF StartEvent, FreeMerger, jobVars, queueVars, NoMerge, Merges
<1>3. ASSUME NEW p \in Mergers, HandleSignerEvent(p), UNCHANGED <<jobVars, crashes>>
      PROVE  Shape'
  <2> DEFINE e == merger[p].event
  <2>1. e \in Events /\ e.signer \in Signers /\ IndexEntry(e) \in Events
    BY <1>3, IndexEntryType DEF HandleSignerEvent
  <2>2. /\ merger' \in [Mergers -> Merges]
        /\ \A q \in Mergers : merger'[q].pc # "idle" => merger'[q].event \in Events
        /\ \A q \in Mergers : merger'[q].pc = "index" => merger'[q].put = None
    <3>1. merger[p] \in Merges /\ NoMerge \in Merges
      BY DEF Merges, NoMerge
    <3>2. CASE merger' = [merger EXCEPT ![p].pc = "commit"]
      BY <2>1, <3>1, <3>2 DEF Merges
    <3>3. CASE merger' = [merger EXCEPT ![p] = NoMerge]
      BY <3>1, <3>3 DEF NoMerge
    <3>4. CASE merger' = [merger EXCEPT ![p].pc = "commit", ![p].put = IndexEntry(e)]
      <4> DEFINE j == [merger[p] EXCEPT !.pc = "commit", !.put = IndexEntry(e)]
      <4>1. j \in Merges /\ j.event = e /\ j.pc = "commit"
        BY <2>1, <3>1 DEF Merges
      <4>2. merger' = [merger EXCEPT ![p] = j]
        BY <3>4
      <4> HIDE DEF j
      <4>3. QED BY <2>1, <4>1, <4>2
    <3>5. QED BY <1>3, <3>2, <3>3, <3>4 DEF HandleSignerEvent
  <2>3. offered' \subseteq Events /\ cache' \subseteq Signers
    BY <1>3, <2>1 DEF HandleSignerEvent
  <2>4. UNCHANGED <<stored, index, lookup, overlapped, msgs, unfit, puts, jobs, emits, late, status, window,
                    run, done, removals>>
    BY <1>3 DEF HandleSignerEvent, jobVars, queueVars
  <2>5. \A q \in Mergers : {merger'[q].event, merger'[q].put} \subseteq Events \cup {None}
    BY <2>2 DEF Merges
  <2>6. QED BY <2>2, <2>3, <2>4, <2>5
<1>4. ASSUME NEW p \in Mergers, CommitAndEnqueue(p)
      PROVE  Shape'
  <2> DEFINE job == <<merger[p].event.signer, removals[merger[p].event.signer] + 1>>
  <2>1. merger[p].event \in Events /\ merger[p].event.signer \in Signers
    BY <1>4 DEF CommitAndEnqueue, CommitEvent
  <2>2. job \in Jobs
    BY <2>1 DEF Jobs
  <2>3. removals' \in [Signers -> Nat]
    BY <1>4, <2>1 DEF CommitAndEnqueue
  <2>4. puts' \subseteq puts \cup {job} /\ late' \subseteq late \cup {job}
    BY <1>4 DEF CommitAndEnqueue
  <2> HIDE DEF job
  <2>5. UNCHANGED <<cache, lookup, overlapped, msgs, unfit, jobs, emits, status, run, done>>
    BY <1>4 DEF CommitAndEnqueue, CommitEvent
  <2>6. /\ stored' \subseteq Events /\ offered' \subseteq Events
        /\ index' \in [Signers -> Events \cup {None}]
    BY <1>4, <2>1 DEF CommitAndEnqueue, CommitEvent, Merges
  <2>7. /\ merger' \in [Mergers -> Merges]
        /\ \A q \in Mergers : merger'[q].pc # "idle" => merger'[q].event \in Events
        /\ \A q \in Mergers : merger'[q].pc = "index" => merger'[q].put = None
        /\ \A q \in Mergers : {merger'[q].event, merger'[q].put} \subseteq Events \cup {None}
    BY <1>4 DEF CommitAndEnqueue, CommitEvent, NoMerge, Merges
  <2>8. QED BY <2>2, <2>3, <2>4, <2>5, <2>6, <2>7
<1>5. ASSUME NEW v \in Lookups, ReadSigner(v) \/ CacheSigner(v), UNCHANGED <<jobVars, crashes>>
      PROVE  Shape'
  <2>0. lookup[v] \in LookupStates /\ NoLookup \in LookupStates
    BY DEF LookupStates, NoLookup
  <2>1. CASE ReadSigner(v)
    BY <1>5, <2>0, <2>1 DEF ReadSigner, jobVars, queueVars, LookupStates, NoLookup
  <2>2. CASE CacheSigner(v)
    BY <1>5, <2>0, <2>2 DEF CacheSigner, jobVars, queueVars, LookupStates
  <2>3. QED BY <1>5, <2>1, <2>2
<1>6. ASSUME NEW v \in Lookups, NEW s \in Signers, StartLookup(v, s), UNCHANGED <<jobVars, crashes>>
      PROVE  Shape'
  BY <1>6 DEF StartLookup, jobVars, queueVars, LookupStates
<1>7. ASSUME NEW v \in Lookups, NEW m \in Messages, MergeMessage(v, m)
      PROVE  Shape'
  BY <1>7 DEF MergeMessage, EndLookup, queueVars, NoLookup, LookupStates
<1>8. ASSUME NEW s \in Signers, Evict(s), UNCHANGED <<jobVars, crashes>>
      PROVE  Shape'
  BY <1>8 DEF Evict, jobVars, queueVars
<1>9. ASSUME NEW s \in puts, PutJob(s)
      PROVE  Shape'
  BY <1>9 DEF PutJob, eventVars
<1>10. ASSUME NEW s \in emits, NEW r \in Runs, EmitEnqueueJob(s, r)
       PROVE  Shape'
  <2>0. run[r] \in RunStates
    OBVIOUS
  <2> DEFINE j == [run[r] EXCEPT !.pc = "pop"]
  <2>1. j \in RunStates /\ j.pc = "pop"
    BY <2>0 DEF RunStates
  <2>2. run' = run \/ run' = [run EXCEPT ![r] = j]
    BY <1>10 DEF EmitEnqueueJob
  <2> HIDE DEF j
  <2>3. run' \in [Runs -> RunStates]
    BY <2>1, <2>2
  <2>4. ASSUME NEW q \in Runs PROVE run'[q] = run[q] \/ run'[q] = j
    BY <2>2
  <2>5. j.pc \notin {"delete", "revoke"}
    BY <2>1
  <2>6. \A q \in Runs : run'[q].pc \in {"delete", "revoke"} => run'[q].job \in Jobs
    BY <2>4, <2>5, Zenon
  <2>7. \A q \in Runs : run'[q].todo \subseteq Messages
    BY <2>3 DEF RunStates
  <2>9. QED BY <1>10, <2>3, <2>6, <2>7 DEF EmitEnqueueJob, eventVars
<1>11. CASE CloseWindow
  BY <1>11 DEF CloseWindow, eventVars
<1>12. CASE Crash
  BY <1>12 DEF Crash, NoMerge, NoLookup, NoRun, Merges, LookupStates, RunStates
<1>13. ASSUME NEW r \in Runs, PopRead(r)
       PROVE  Shape'
  <2>0. run[r] \in RunStates
    OBVIOUS
  <2>1. PICK j \in RunStates : /\ run' = [run EXCEPT ![r] = j]
                               /\ j.pc \in {"delete", "revoke"} => j.job \in Jobs
    <3>1. CASE run' = [run EXCEPT ![r].pc = "end"]
      <4>1. [run[r] EXCEPT !.pc = "end"] \in RunStates
        BY <2>0 DEF RunStates
      <4>2. [run[r] EXCEPT !.pc = "end"].pc = "end"
        BY <2>0 DEF RunStates
      <4>3. QED BY <3>1, <4>1, <4>2
    <3>2. ASSUME NEW s \in jobs \ late, run' = [run EXCEPT ![r].pc = "delete", ![r].job = s]
          PROVE  \E j \in RunStates : /\ run' = [run EXCEPT ![r] = j]
                                      /\ j.pc \in {"delete", "revoke"} => j.job \in Jobs
      <4> DEFINE k == [run[r] EXCEPT !.pc = "delete", !.job = s]
      <4>1. k \in RunStates /\ k.job \in Jobs
        BY <2>0 DEF RunStates
      <4>2. run' = [run EXCEPT ![r] = k]
        BY <3>2
      <4> HIDE DEF k
      <4>3. QED BY <4>1, <4>2
    <3>3. QED BY <1>13, <3>1, <3>2 DEF PopRead
  <2>8. /\ run' \in [Runs -> RunStates]
        /\ \A q \in Runs : run'[q].pc \in {"delete", "revoke"} => run'[q].job \in Jobs
        /\ \A q \in Runs : run'[q].todo \subseteq Messages
    BY <2>1 DEF RunStates
  <2>9. QED BY <1>13, <2>8 DEF PopRead, eventVars
<1>14. ASSUME NEW r \in Runs, PopDelete(r)
       PROVE  Shape'
  <2>0. run[r] \in RunStates
    OBVIOUS
  <2> DEFINE j == [run[r] EXCEPT !.pc = "revoke", !.todo = By(run[r].job[1])]
  <2>1. j \in RunStates /\ j.job \in Jobs
    BY <1>14, <2>0 DEF PopDelete, RunStates, By
  <2>2. run' = [run EXCEPT ![r] = j]
    BY <1>14 DEF PopDelete
  <2> HIDE DEF j
  <2>8. /\ run' \in [Runs -> RunStates]
        /\ \A q \in Runs : run'[q].pc \in {"delete", "revoke"} => run'[q].job \in Jobs
        /\ \A q \in Runs : run'[q].todo \subseteq Messages
    BY <2>1, <2>2 DEF RunStates
  <2>9. QED BY <1>14, <2>8 DEF PopDelete, eventVars
<1>15. ASSUME NEW r \in Runs, RevokeNext(r)
       PROVE  Shape'
  <2>0. run[r] \in RunStates
    OBVIOUS
  <2>1. PICK j \in RunStates : /\ run' = [run EXCEPT ![r] = j]
                               /\ j.pc \in {"delete", "revoke"} => j.job \in Jobs
    <3>1. CASE run' = [run EXCEPT ![r] = [NoRun EXCEPT !.pc = "pop"]]
      <4>1. [NoRun EXCEPT !.pc = "pop"] \in RunStates
        BY DEF RunStates, NoRun
      <4>2. [NoRun EXCEPT !.pc = "pop"].pc = "pop"
        BY DEF NoRun
      <4>3. QED BY <3>1, <4>1, <4>2
    <3>2. ASSUME NEW m \in run[r].todo, run' = [run EXCEPT ![r].todo = @ \ {m}]
          PROVE  \E j \in RunStates : /\ run' = [run EXCEPT ![r] = j]
                                      /\ j.pc \in {"delete", "revoke"} => j.job \in Jobs
      <4> DEFINE k == [run[r] EXCEPT !.todo = @ \ {m}]
      <4>1. k \in RunStates /\ k.job \in Jobs
        BY <1>15, <2>0 DEF RunStates, RevokeNext
      <4>2. run' = [run EXCEPT ![r] = k]
        BY <3>2
      <4> HIDE DEF k
      <4>3. QED BY <4>1, <4>2
    <3>3. QED BY <1>15, <3>1, <3>2 DEF RevokeNext
  <2>8. /\ run' \in [Runs -> RunStates]
        /\ \A q \in Runs : run'[q].pc \in {"delete", "revoke"} => run'[q].job \in Jobs
        /\ \A q \in Runs : run'[q].todo \subseteq Messages
    BY <2>1 DEF RunStates
  <2>9. QED BY <1>15, <2>8 DEF RevokeNext, eventVars
<1>16. ASSUME NEW r \in Runs, EndRun(r)
       PROVE  Shape'
  BY <1>16 DEF EndRun, eventVars, RunStates, NoRun
<1>17. ASSUME NEW m \in Messages, ValidateOrRevoke(m)
       PROVE  Shape'
  BY <1>17 DEF ValidateOrRevoke, queueVars
<1>19. ASSUME NEW m \in Messages, Invalidate(m) \/ RevokeName(m)
       PROVE  Shape'
  BY <1>19 DEF Invalidate, RevokeName, eventVars, queueVars
<1> HIDE DEF Shape, TypeOK, EventsTypeOK
<1>18. QED
  BY <1>1, <1>2, <1>3, <1>4, <1>5, <1>6, <1>7, <1>8, <1>9, <1>10, <1>11, <1>12, <1>13, <1>14,
     <1>15, <1>16, <1>17, <1>19, NextIsStep DEF StepOf

\* Signer events, lookups, jobs and workers keep their types, with any number of calls
\* at once.
THEOREM TypeCorrect == Spec => []TypeOK
<1>1. Shape => TypeOK
  BY DEF Shape
<1>2. QED BY <1>1, InitShape, ShapeNext, PTL DEF Spec


-----------------------------------------------------------------------------
(* The index, for signers whose merges have not overlapped                 *)

\* Where merges, stored events and the index change.
MergeSteps ==
    \/ \E p \in Mergers : \/ HandleSignerEvent(p) /\ UNCHANGED <<jobVars, crashes>>
                          \/ CommitAndEnqueue(p)
                          \/ \E e \in Events : StartEvent(p, e) /\ UNCHANGED <<jobVars, crashes>>
    \/ Crash
    \/ UNCHANGED <<merger, stored, index, offered, overlapped>>

LEMMA StepsOfMerges == [Next]_vars => MergeSteps
<1>1. CASE UNCHANGED vars
  BY <1>1 DEF vars, eventVars, MergeSteps
<1>2. CASE Next
  BY <1>2, NextIsStep
  DEF StepOf, MergeSteps, ReadSigner, CacheSigner, StartLookup, MergeMessage,
      EndLookup, Evict, PutJob, EmitEnqueueJob, CloseWindow, PopRead, PopDelete, RevokeNext,
      EndRun, ValidateOrRevoke, Invalidate, RevokeName, eventVars
<1>3. QED BY <1>1, <1>2

\* Only a commit changes the stored events and the index.
LEMMA OnlyCommitsStore ==
    ASSUME [Next]_vars
    PROVE  (\E p \in Mergers : CommitAndEnqueue(p)) \/ UNCHANGED <<stored, index>>
  BY StepsOfMerges DEF MergeSteps, HandleSignerEvent, StartEvent, Crash

\* What has been stored and which signers have overlapped is not forgotten.
LEMMA HistoryGrows ==
    ASSUME [Next]_vars
    PROVE  stored \subseteq stored' /\ overlapped \subseteq overlapped'
  BY StepsOfMerges
  DEF MergeSteps, HandleSignerEvent, StartEvent, CommitAndEnqueue, CommitEvent, Crash

\* What each step leaves of each merge.
LEMMA MergesAfter ==
    ASSUME Shape
    PROVE  /\ \A p \in Mergers : HandleSignerEvent(p) =>
                 /\ merger[p].pc = "index" /\ merger[p].event \in Events /\ merger[p].put = None
                 /\ \A q \in Mergers \ {p} : merger'[q] = merger[q]
                 /\ \/ merger'[p].pc = "idle"
                    \/ /\ merger'[p].pc = "commit" /\ merger'[p].event = merger[p].event
                       /\ merger'[p].put \in {None, IndexEntry(merger[p].event)}
           /\ \A p \in Mergers : CommitAndEnqueue(p) =>
                 /\ merger[p].pc = "commit" /\ merger[p].event \in Events
                 /\ \A q \in Mergers \ {p} : merger'[q] = merger[q]
                 /\ merger'[p].pc = "idle"
           /\ \A p \in Mergers, e \in Events : StartEvent(p, e) =>
                 /\ merger[p].pc = "idle"
                 /\ \A q \in Mergers \ {p} : merger'[q] = merger[q]
                 /\ merger'[p].pc = "index" /\ merger'[p].event = e
           /\ Crash => \A p \in Mergers : merger'[p].pc = "idle"
<1> USE DEF Shape
<1>1. ASSUME NEW p \in Mergers, HandleSignerEvent(p)
      PROVE  /\ merger[p].pc = "index" /\ merger[p].event \in Events /\ merger[p].put = None
             /\ \A q \in Mergers \ {p} : merger'[q] = merger[q]
             /\ \/ merger'[p].pc = "idle"
                \/ /\ merger'[p].pc = "commit" /\ merger'[p].event = merger[p].event
                   /\ merger'[p].put \in {None, IndexEntry(merger[p].event)}
  <2>1. merger[p] \in Merges /\ merger[p].pc = "index"
    BY <1>1 DEF HandleSignerEvent
  <2>2. merger[p].event \in Events /\ merger[p].put = None
    BY <2>1
  <2>3. CASE merger' = [merger EXCEPT ![p].pc = "commit"]
    BY <2>1, <2>2, <2>3 DEF Merges
  <2>4. CASE merger' = [merger EXCEPT ![p] = NoMerge]
    BY <2>1, <2>2, <2>4 DEF NoMerge
  <2>5. CASE merger' = [merger EXCEPT ![p].pc = "commit", ![p].put = IndexEntry(merger[p].event)]
    <3> DEFINE ent == IndexEntry(merger[p].event)
               k == [merger[p] EXCEPT !.pc = "commit", !.put = ent]
    <3>1. merger' = [merger EXCEPT ![p] = k]
      BY <2>5
    <3> HIDE DEF ent
    <3>2. k.pc = "commit" /\ k.event = merger[p].event /\ k.put = ent
      BY <2>1 DEF Merges
    <3> HIDE DEF k
    <3>3. merger'[p] = k /\ \A q \in Mergers \ {p} : merger'[q] = merger[q]
      BY <3>1
    <3>4. QED BY <2>1, <2>2, <3>2, <3>3 DEF ent
  <2>6. QED BY <1>1, <2>3, <2>4, <2>5 DEF HandleSignerEvent
<1>2. \A p \in Mergers : CommitAndEnqueue(p) =>
         /\ merger[p].pc = "commit" /\ merger[p].event \in Events
         /\ \A q \in Mergers \ {p} : merger'[q] = merger[q]
         /\ merger'[p].pc = "idle"
  BY DEF CommitAndEnqueue, CommitEvent, NoMerge
<1>3. \A p \in Mergers, e \in Events : StartEvent(p, e) =>
         /\ merger[p].pc = "idle"
         /\ \A q \in Mergers \ {p} : merger'[q] = merger[q]
         /\ merger'[p].pc = "index" /\ merger'[p].event = e
  BY DEF StartEvent, FreeMerger, NoMerge
<1>4. Crash => \A p \in Mergers : merger'[p].pc = "idle"
  BY DEF Crash, NoMerge
<1> HIDE DEF Shape
<1>5. QED BY <1>1, <1>2, <1>3, <1>4

LEMMA AloneNext ==
    ASSUME Shape, AloneInv, [Next]_vars
    PROVE  AloneInv'
<1>1. SUFFICES ASSUME NEW p \in Mergers, NEW q \in Mergers, NEW s \in Signers,
                      Merging(p, s)', Merging(q, s)', s \notin overlapped', p # q
               PROVE  FALSE
  BY DEF AloneInv, Merging
<1>2. s \notin overlapped
  BY <1>1, HistoryGrows
<1>3. ASSUME NEW r \in Mergers, NEW e \in Events, StartEvent(r, e)
      PROVE  FALSE
  <2>1. /\ \A x \in Mergers \ {r} : merger'[x] = merger[x]
        /\ merger'[r].event = e
    BY <1>3, MergesAfter
  <2>2. (\E x \in Mergers : Merging(x, e.signer)) => e.signer \in overlapped'
    BY <1>3 DEF StartEvent, Merging
  <2>3. CASE r \notin {p, q}
    BY <1>1, <1>2, <2>1, <2>3 DEF AloneInv, Merging
  <2>4. ASSUME NEW x \in {p, q}, NEW y \in {p, q}, r = x, y # x
        PROVE  FALSE
    <3>1. Merging(y, s) /\ e.signer = s
      BY <1>1, <2>1, <2>4 DEF Merging
    <3>2. QED BY <1>1, <2>2, <3>1
  <2>5. QED BY <1>1, <2>3, <2>4
<1>4. ASSUME NEW r \in Mergers, HandleSignerEvent(r) \/ CommitAndEnqueue(r)
      PROVE  FALSE
  <2>1. /\ \A x \in Mergers \ {r} : merger'[x] = merger[x]
        /\ merger'[r].pc = "idle" \/ merger'[r].event = merger[r].event
        /\ merger[r].pc # "idle"
    BY <1>4, MergesAfter
  <2>2. Merging(p, s) /\ Merging(q, s)
    BY <1>1, <2>1 DEF Merging
  <2>3. QED BY <1>1, <1>2, <2>2 DEF AloneInv
<1>5. CASE Crash
  BY <1>1, <1>5, MergesAfter DEF Merging
<1>6. CASE UNCHANGED merger
  BY <1>1, <1>2, <1>6 DEF AloneInv, Merging
<1>7. QED BY <1>3, <1>4, <1>5, <1>6, StepsOfMerges DEF MergeSteps

\* A merge under way when another commits is of another signer, or the signer has
\* overlapped.
LEMMA OthersAreOfOthers ==
    ASSUME Shape, AloneInv, NEW p \in Mergers, NEW q \in Mergers, p # q,
           merger[p].pc # "idle", merger[q].pc # "idle", merger[q].event.signer \notin overlapped
    PROVE  merger[p].event.signer # merger[q].event.signer
  BY EventsAssumption DEF AloneInv, Merging, Shape

\* The effect of a commit.
LEMMA CommitEffect ==
    ASSUME Shape, NEW p \in Mergers, CommitAndEnqueue(p)
    PROVE  LET e == merger[p].event
               put == merger[p].put
           IN  /\ e \in Events /\ e.signer \in Signers
               /\ stored' = stored \cup {e} /\ offered' = offered \cup {e}
               /\ overlapped' = overlapped
               /\ \A s \in Signers : index'[s] = IF put # None /\ s = e.signer THEN put ELSE index[s]
<1>1. merger[p].event \in Events /\ merger[p].event.signer \in Signers
  BY EventsAssumption DEF CommitAndEnqueue, CommitEvent, Shape
<1>2. QED BY <1>1 DEF CommitAndEnqueue, CommitEvent, Shape, TypeOK, EventsTypeOK

LEMMA IndexedNext ==
    ASSUME Shape, IndexedInv, [Next]_vars
    PROVE  IndexedInv'
<1> DEFINE PutOf(q) == merger'[q].pc = "commit" /\ merger'[q].put # None =>
                           /\ merger'[q].put.signer = merger'[q].event.signer
                           /\ merger'[q].put \in stored' \cup {merger'[q].event}
<1>1. ASSUME NEW p \in Mergers, CommitAndEnqueue(p)
      PROVE  IndexedInv'
  <2> DEFINE e == merger[p].event
             put == merger[p].put
  <2>1. /\ e.signer \in Signers
        /\ stored' = stored \cup {e}
        /\ \A s \in Signers : index'[s] = IF put # None /\ s = e.signer THEN put ELSE index[s]
    BY <1>1, CommitEffect
  <2>2. put # None => put.signer = e.signer /\ put \in stored \cup {e}
    BY <1>1, MergesAfter DEF IndexedInv
  <2>3. \A q \in Mergers : PutOf(q)
    <3>1. /\ \A q \in Mergers \ {p} : merger'[q] = merger[q]
          /\ merger'[p].pc = "idle"
      BY <1>1, MergesAfter
    <3>2. QED BY <2>1, <3>1 DEF IndexedInv
  <2> HIDE DEF e, put
  <2>4. \A s \in Signers : index'[s] # None => index'[s] \in stored' /\ index'[s].signer = s
    BY <2>1, <2>2 DEF IndexedInv
  <2>5. QED BY <2>3, <2>4 DEF IndexedInv
<1>2. CASE UNCHANGED <<stored, index>>
  <2>1. SUFFICES ASSUME NEW q \in Mergers PROVE PutOf(q)
    BY <1>2 DEF IndexedInv
  <2>2. ASSUME NEW p \in Mergers, HandleSignerEvent(p)
        PROVE  PutOf(q)
    <3>1. CASE q # p
      BY <1>2, <2>2, <3>1, MergesAfter DEF IndexedInv
    <3>2. CASE q = p
      <4> DEFINE e == merger[p].event
      <4>1. /\ e \in Events
            /\ \/ merger'[p].pc = "idle"
               \/ merger'[p].event = e /\ merger'[p].put \in {None, IndexEntry(e)}
        BY <2>2, MergesAfter
      <4>2. IndexEntry(e).signer = e.signer /\ IndexEntry(e) \in stored \cup {e}
        BY <4>1, IndexEntryType DEF Shape, TypeOK, EventsTypeOK
      <4>3. QED BY <1>2, <3>2, <4>1, <4>2
    <3>3. QED BY <3>1, <3>2
  <2>3. ASSUME NEW p \in Mergers, CommitAndEnqueue(p)
        PROVE  PutOf(q)
    BY <1>2, <2>3, MergesAfter DEF IndexedInv
  <2>4. ASSUME NEW p \in Mergers, NEW e \in Events, StartEvent(p, e)
        PROVE  PutOf(q)
    BY <1>2, <2>4, MergesAfter DEF IndexedInv
  <2>5. CASE Crash
    BY <2>5, MergesAfter
  <2>6. CASE UNCHANGED merger
    BY <1>2, <2>6 DEF IndexedInv
  <2>7. QED BY <2>2, <2>3, <2>4, <2>5, <2>6, StepsOfMerges DEF MergeSteps
<1>3. QED BY <1>1, <1>2, OnlyCommitsStore

LEMMA FreshNext ==
    ASSUME Shape, AloneInv, FreshInv, [Next]_vars
    PROVE  FreshInv'
<1>1. SUFFICES ASSUME NEW q \in Mergers, merger'[q].pc # "idle", merger'[q].event.signer \notin overlapped'
               PROVE  merger'[q].event \notin stored'
  BY DEF FreshInv
<1>2. merger'[q].event.signer \notin overlapped
  BY <1>1, HistoryGrows
<1>3. ASSUME NEW p \in Mergers, CommitAndEnqueue(p)
      PROVE  merger'[q].event \notin stored'
  <2>1. q # p /\ merger'[q] = merger[q] /\ merger[p].pc # "idle"
    BY <1>1, <1>3, MergesAfter
  <2>2. merger[p].event.signer # merger[q].event.signer
    BY <1>1, <1>2, <2>1, OthersAreOfOthers
  <2>3. QED BY <1>1, <1>2, <1>3, <2>1, <2>2, CommitEffect DEF FreshInv
<1>4. ASSUME NEW p \in Mergers, HandleSignerEvent(p)
      PROVE  merger'[q].event \notin stored'
  <2>1. /\ \A x \in Mergers \ {p} : merger'[x] = merger[x]
        /\ merger'[p].pc = "idle" \/ merger'[p].event = merger[p].event
        /\ merger[p].pc # "idle"
    BY <1>4, MergesAfter
  <2>2. stored' = stored /\ merger[q].pc # "idle" /\ merger'[q].event = merger[q].event
    BY <1>1, <1>4, <2>1 DEF HandleSignerEvent
  <2>3. QED BY <1>2, <2>2 DEF FreshInv
<1>5. ASSUME NEW p \in Mergers, NEW e \in Events, StartEvent(p, e)
      PROVE  merger'[q].event \notin stored'
  <2>1. /\ \A x \in Mergers \ {p} : merger'[x] = merger[x]
        /\ merger'[p].event = e /\ e \notin stored /\ stored' = stored
    BY <1>5, MergesAfter DEF StartEvent
  <2>2. QED BY <1>1, <1>2, <2>1 DEF FreshInv
<1>6. CASE Crash
  BY <1>1, <1>6, MergesAfter
<1>7. CASE UNCHANGED <<merger, stored>>
  BY <1>1, <1>2, <1>7 DEF FreshInv
<1>8. QED BY <1>3, <1>4, <1>5, <1>6, <1>7, StepsOfMerges DEF MergeSteps

\* _handleSignerEvent decides for an index that no other merge changes before the commit.
LEMMA PutsNext ==
    ASSUME Shape, AloneInv, IndexedInv, PutsInv, [Next]_vars
    PROVE  PutsInv'
<1> USE EventsAssumption
<1>1. SUFFICES ASSUME NEW q \in Mergers, merger'[q].pc = "commit", merger'[q].put # None,
                      merger'[q].event.signer \notin overlapped'
               PROVE  \/ IsActive(merger'[q].put) \/ merger'[q].event.type = "REMOVE"
                      \/ ~IsActive(index'[merger'[q].event.signer])
  BY DEF PutsInv, IsActive
<1>2. merger'[q].event.signer \notin overlapped
  BY <1>1, HistoryGrows
<1>3. CASE merger'[q] = merger[q] /\ index'[merger[q].event.signer] = index[merger[q].event.signer]
  BY <1>1, <1>2, <1>3 DEF PutsInv
<1>4. ASSUME NEW p \in Mergers, CommitAndEnqueue(p)
      PROVE  merger'[q] = merger[q] /\ index'[merger[q].event.signer] = index[merger[q].event.signer]
  <2>1. q # p /\ merger'[q] = merger[q] /\ merger[p].pc # "idle" /\ merger[q].pc # "idle"
    BY <1>1, <1>4, MergesAfter
  <2>2. merger[p].event.signer # merger[q].event.signer
    BY <1>2, <2>1, OthersAreOfOthers
  <2>3. merger[q].event.signer \in Signers
    BY <2>1 DEF Shape
  <2>4. QED BY <1>4, <2>1, <2>2, <2>3, CommitEffect
<1>5. ASSUME NEW p \in Mergers, HandleSignerEvent(p)
      PROVE  \/ IsActive(merger'[q].put) \/ merger'[q].event.type = "REMOVE"
             \/ ~IsActive(index'[merger'[q].event.signer])
  <2>0. index' = index
    BY <1>5 DEF HandleSignerEvent
  <2>1. CASE q # p
    BY <1>3, <1>5, <2>0, <2>1, MergesAfter
  <2>2. CASE q = p
    <3> DEFINE e == merger[p].event
               put == IndexEntry(e)
    <3>1. e \in Events /\ e.signer \in Signers /\ merger'[q].event = e /\ merger'[q].put = put
      BY <1>1, <1>5, <2>2, MergesAfter
    <3>2. /\ put \in Events /\ put.signer = e.signer
          /\ \/ put = e
             \/ e.type = "ADMIN_RESET" /\ put \in stored /\ put.type = "ADD"
          /\ e.type = "ADMIN_RESET" => put # e \/ ~HasAdd({x \in stored : x.signer = e.signer})
      BY <3>1, IndexEntryType DEF Shape, TypeOK, EventsTypeOK
    <3> HIDE DEF put
    <3>3. IsActive(index[e.signer]) => HasAdd({x \in stored : x.signer = e.signer})
      BY <3>1 DEF IndexedInv, IsActive, HasAdd
    <3>4. e.type \in {"ADD", "REMOVE", "ADMIN_RESET"}
      BY <3>1
    <3>5. QED BY <2>0, <3>1, <3>2, <3>3, <3>4 DEF IsActive
  <2>3. QED BY <2>1, <2>2
<1>6. ASSUME NEW p \in Mergers, NEW e \in Events, StartEvent(p, e)
      PROVE  merger'[q] = merger[q] /\ index'[merger[q].event.signer] = index[merger[q].event.signer]
  BY <1>1, <1>6, MergesAfter DEF StartEvent
<1>7. CASE Crash
  BY <1>1, <1>7, MergesAfter
<1>8. CASE UNCHANGED <<merger, index>>
  BY <1>3, <1>8
<1>9. QED BY <1>3, <1>4, <1>5, <1>6, <1>7, <1>8, StepsOfMerges DEF MergeSteps

-----------------------------------------------------------------------------
(* Signers that were active                                                *)

\* Once active, a signer is active until it is removed, or its merges overlap.
LEMMA ActiveOrRemovedStays ==
    ASSUME Shape, PutsInv, [Next]_vars, NEW s \in Signers, ActiveOrRemoved(s)
    PROVE  ActiveOrRemoved(s)'
<1>0. CASE WasRemoved(s) \/ s \in overlapped
  BY <1>0, HistoryGrows DEF ActiveOrRemoved, WasRemoved
<1>1. CASE IsActive(index[s]) /\ UNCHANGED <<stored, index>>
  BY <1>1 DEF ActiveOrRemoved, WasRemoved, IsActive
<1>2. ASSUME NEW p \in Mergers, CommitAndEnqueue(p), IsActive(index[s]), s \notin overlapped
      PROVE  ActiveOrRemoved(s)'
  <2> DEFINE e == merger[p].event
             put == merger[p].put
  <2>1. /\ stored' = stored \cup {e}
        /\ index'[s] = IF put # None /\ s = e.signer THEN put ELSE index[s]
    BY <1>2, CommitEffect
  <2>2. put # None /\ s = e.signer => IsActive(put) \/ e.type = "REMOVE"
    BY <1>2, MergesAfter DEF PutsInv
  <2> HIDE DEF e, put
  <2>3. CASE e.type = "REMOVE" /\ s = e.signer
    BY <2>1, <2>3 DEF ActiveOrRemoved, WasRemoved
  <2>4. CASE ~(e.type = "REMOVE" /\ s = e.signer)
    BY <1>2, <2>1, <2>2, <2>4 DEF ActiveOrRemoved, IsActive
  <2>5. QED BY <2>3, <2>4
<1>3. QED BY <1>0, <1>1, <1>2, OnlyCommitsStore DEF ActiveOrRemoved

\* Where messages, cache entries and found lookups come from.
SignersFrom ==
    /\ \A m \in msgs' : m \in msgs \/ ActiveOrRemoved(m.signer)
    /\ \A s \in cache' : ActiveOrRemoved(s)
    /\ \A v \in Lookups : lookup'[v].pc \in {"found", "active"} =>
           ActiveOrRemoved(lookup'[v].signer)

LEMMA SignersStep ==
    ASSUME Shape, SignersInv, [Next]_vars
    PROVE  SignersFrom
<1> USE RevocationAssumption, EventsAssumption
<1> USE DEF Shape, TypeOK, EventsTypeOK
<1>1. CASE UNCHANGED <<msgs, cache, lookup>>
  BY <1>1 DEF SignersFrom, SignersInv
<1>2. ASSUME NEW p \in Mergers, HandleSignerEvent(p), UNCHANGED <<jobVars, crashes>>
      PROVE  SignersFrom
  <2>1. merger[p].event.signer \in Signers
    BY <1>2 DEF HandleSignerEvent
  <2>2. cache' \subseteq cache
    BY <1>2, <2>1 DEF HandleSignerEvent
  <2>3. UNCHANGED <<msgs, lookup>>
    BY <1>2 DEF HandleSignerEvent, jobVars
  <2>4. QED BY <2>2, <2>3 DEF SignersFrom, SignersInv
<1>3. ASSUME NEW v \in Lookups, ReadSigner(v), UNCHANGED <<jobVars, crashes>>
      PROVE  SignersFrom
  <2>1. UNCHANGED <<msgs, cache>> /\ \A u \in Lookups : u # v => lookup'[u] = lookup[u]
    BY <1>3 DEF ReadSigner, jobVars
  <2>2. lookup'[v].pc = "found" => /\ lookup'[v].signer = lookup[v].signer
                                   /\ IsActive(index[lookup[v].signer])
    BY <1>3 DEF ReadSigner, NoLookup, LookupStates
  <2>3. lookup'[v].pc \in {"found", "idle"}
    BY <1>3 DEF ReadSigner, NoLookup, LookupStates
  <2>4. ASSUME NEW u \in Lookups, lookup'[u].pc \in {"found", "active"}
        PROVE  ActiveOrRemoved(lookup'[u].signer)
    BY <2>1, <2>2, <2>3, <2>4 DEF SignersInv, ActiveOrRemoved
  <2>5. QED BY <2>1, <2>4 DEF SignersFrom, SignersInv
<1>4. ASSUME NEW v \in Lookups, CacheSigner(v), UNCHANGED <<jobVars, crashes>>
      PROVE  SignersFrom
  <2>1. UNCHANGED msgs /\ \A u \in Lookups : u # v => lookup'[u] = lookup[u]
    BY <1>4 DEF CacheSigner, jobVars
  <2>2. lookup'[v].signer = lookup[v].signer /\ ActiveOrRemoved(lookup[v].signer)
    BY <1>4 DEF CacheSigner, LookupStates, SignersInv
  <2>3. cache' = cache \cup {lookup[v].signer}
    BY <1>4 DEF CacheSigner
  <2>4. ASSUME NEW u \in Lookups, lookup'[u].pc \in {"found", "active"}
        PROVE  ActiveOrRemoved(lookup'[u].signer)
    BY <2>1, <2>2, <2>4 DEF SignersInv
  <2>5. QED BY <2>1, <2>2, <2>3, <2>4 DEF SignersFrom, SignersInv
<1>5. ASSUME NEW v \in Lookups, NEW s \in Signers, StartLookup(v, s), UNCHANGED <<jobVars, crashes>>
      PROVE  SignersFrom
  <2>1. UNCHANGED <<msgs, cache>> /\ \A u \in Lookups : u # v => lookup'[u] = lookup[u]
    BY <1>5 DEF StartLookup, jobVars
  <2>2. lookup'[v].signer = s /\ (lookup'[v].pc # "read" => s \in cache)
    BY <1>5 DEF StartLookup
  <2>3. ASSUME NEW u \in Lookups, lookup'[u].pc \in {"found", "active"}
        PROVE  ActiveOrRemoved(lookup'[u].signer)
    BY <2>1, <2>2, <2>3 DEF SignersInv
  <2>4. QED BY <2>1, <2>3 DEF SignersFrom, SignersInv
<1>6. ASSUME NEW v \in Lookups, NEW m \in Messages, MergeMessage(v, m)
      PROVE  SignersFrom
  <2>1. /\ UNCHANGED cache /\ \A u \in Lookups : u # v => lookup'[u] = lookup[u]
        /\ lookup'[v].pc = "idle" /\ msgs' = msgs \cup {m}
    BY <1>6 DEF MergeMessage, EndLookup, NoLookup
  <2>2. ActiveOrRemoved(m.signer)
    BY <1>6 DEF MergeMessage, EndLookup, SignersInv
  <2>3. \A u \in Lookups : lookup'[u].pc \in {"found", "active"} => ActiveOrRemoved(lookup'[u].signer)
    BY <2>1 DEF SignersInv
  <2>4. QED BY <2>1, <2>2, <2>3 DEF SignersFrom, SignersInv
<1>7. ASSUME NEW s \in Signers, Evict(s), UNCHANGED <<jobVars, crashes>>
      PROVE  SignersFrom
  BY <1>7 DEF Evict, jobVars, SignersFrom, SignersInv
<1>8. CASE Crash
  BY <1>8 DEF Crash, NoLookup, SignersFrom, SignersInv
<1>9. ASSUME NEW r \in Runs, RevokeNext(r)
      PROVE  SignersFrom
  <2>1. UNCHANGED <<cache, lookup>> /\ msgs' \subseteq msgs
    BY <1>9 DEF RevokeNext, eventVars
  <2>2. QED BY <2>1 DEF SignersFrom, SignersInv
<1>10. ASSUME NEW m \in Messages, ValidateOrRevoke(m)
       PROVE  SignersFrom
  <2>1. UNCHANGED lookup /\ msgs' \subseteq msgs
    BY <1>10 DEF ValidateOrRevoke
  <2>2. \A s \in cache' : s \in cache \/ IsActive(index[s])
    BY <1>10 DEF ValidateOrRevoke
  <2>3. QED BY <2>1, <2>2 DEF SignersFrom, SignersInv, ActiveOrRemoved
<1>13. ASSUME NEW m \in Messages, RevokeName(m)
       PROVE  SignersFrom
  <2>1. UNCHANGED <<cache, lookup>> /\ msgs' \subseteq msgs
    BY <1>13 DEF RevokeName, eventVars
  <2>2. QED BY <2>1 DEF SignersFrom, SignersInv
<1>11. ASSUME [Next]_vars
       PROVE  \/ UNCHANGED <<msgs, cache, lookup>>
              \/ \E p \in Mergers : HandleSignerEvent(p) /\ UNCHANGED <<jobVars, crashes>>
              \/ \E v \in Lookups : \/ ReadSigner(v) /\ UNCHANGED <<jobVars, crashes>>
                                    \/ CacheSigner(v) /\ UNCHANGED <<jobVars, crashes>>
                                    \/ \E s \in Signers : StartLookup(v, s) /\ UNCHANGED <<jobVars, crashes>>
                                    \/ \E m \in Messages : MergeMessage(v, m)
              \/ \E s \in Signers : Evict(s) /\ UNCHANGED <<jobVars, crashes>>
              \/ Crash
              \/ \E r \in Runs : RevokeNext(r)
              \/ \E m \in Messages : ValidateOrRevoke(m) \/ RevokeName(m)
  <2>1. CASE UNCHANGED vars
    BY <2>1 DEF vars, eventVars, jobVars
  <2>2. CASE Next
    BY <2>2, NextIsStep
    DEF StepOf, StartEvent, CommitAndEnqueue, CommitEvent, PutJob, EmitEnqueueJob, CloseWindow,
        PopRead, PopDelete, EndRun, Invalidate, eventVars, jobVars
  <2>3. QED BY <1>11, <2>1, <2>2
<1> HIDE DEF Shape, TypeOK, EventsTypeOK
<1>12. QED BY <1>1, <1>2, <1>3, <1>4, <1>5, <1>6, <1>7, <1>8, <1>9, <1>10, <1>11, <1>13

LEMMA SignersNext ==
    ASSUME Shape, PutsInv, SignersInv, Shape', [Next]_vars
    PROVE  SignersInv'
<1> USE RevocationAssumption
<1>1. SignersFrom
  BY SignersStep
<1>2. \A s \in Signers : ActiveOrRemoved(s) => ActiveOrRemoved(s)'
  BY ActiveOrRemovedStays
<1>3. \A m \in msgs' : m.signer \in Signers
  BY DEF Shape, TypeOK
<1>4. \A v \in Lookups : lookup'[v].pc \in {"found", "active"} => lookup'[v].signer \in Signers
  BY DEF Shape
<1>5. \A m \in msgs' : ActiveOrRemoved(m.signer)'
  BY <1>1, <1>2, <1>3 DEF SignersFrom, SignersInv
<1>6. \A s \in cache' : ActiveOrRemoved(s)'
  BY <1>1, <1>2 DEF SignersFrom, Shape, TypeOK, EventsTypeOK
<1>7. \A v \in Lookups : lookup'[v].pc \in {"found", "active"} => ActiveOrRemoved(lookup[v].signer)'
  <2> TAKE v \in Lookups
  <2>1. ASSUME lookup'[v].pc \in {"found", "active"}
        PROVE  ActiveOrRemoved(lookup[v].signer)'
    <3>1. PICK s \in Signers : s = lookup'[v].signer /\ ActiveOrRemoved(s)
      BY <1>1, <1>4, <2>1 DEF SignersFrom
    <3>2. ActiveOrRemoved(s)'
      BY <1>2, <3>1
    <3>3. QED BY <3>1, <3>2 DEF ActiveOrRemoved, WasRemoved, IsActive
  <2>2. QED BY <2>1
<1>8. QED BY <1>5, <1>6, <1>7 DEF SignersInv


-----------------------------------------------------------------------------
(* The worker and its jobs                                                 *)

\* A removal that is stored stays stored.
LEMMA RemovedStays ==
    ASSUME [Next]_vars, NEW s, WasRemoved(s)
    PROVE  WasRemoved(s)'
  BY OnlyCommitsStore DEF WasRemoved, CommitAndEnqueue, CommitEvent

\* What a step may do to the worker and the jobs.
WorkerSteps ==
    \/ UNCHANGED <<puts, jobs, status, run, done, redone, removals>>
    \/ \E p \in Mergers : CommitAndEnqueue(p)
    \/ \E j \in puts : PutJob(j)
    \/ \E j \in emits, r \in Runs : EmitEnqueueJob(j, r)
    \/ Crash
    \/ \E r \in Runs : PopRead(r) \/ PopDelete(r) \/ RevokeNext(r) \/ EndRun(r)

LEMMA StepsOfTheWorker == [Next]_vars => WorkerSteps
<1>1. CASE UNCHANGED vars
  BY <1>1 DEF vars, jobVars, queueVars, WorkerSteps
<1>2. CASE Next
  BY <1>2, NextIsStep
  DEF StepOf, WorkerSteps, HandleSignerEvent, StartEvent, ReadSigner, CacheSigner, StartLookup,
      MergeMessage, Evict, CloseWindow, ValidateOrRevoke, Invalidate, RevokeName, jobVars, queueVars
<1>3. QED BY <1>1, <1>2

LEMMA WorkerNext ==
    ASSUME Shape, WorkerInv, [Next]_vars
    PROVE  WorkerInv'
<1> USE DEF Shape, TypeOK
<1>0. \A s : WasRemoved(s) => WasRemoved(s)'
  BY RemovedStays
<1> DEFINE Held(q) == /\ run'[q].pc = "delete" => run'[q].job \in jobs'
                      /\ run'[q].pc = "revoke" => /\ WasRemoved(run'[q].job[1])
                                                  /\ \A m \in run'[q].todo : m.signer = run'[q].job[1]
           OneRun == /\ status' = "waiting" => \A r \in Runs : run'[r].pc = "idle"
                     /\ \A q, r \in Runs : run'[q].pc # "idle" /\ run'[r].pc # "idle" => q = r
<1>1. ASSUME OneRun, \A q \in Runs : Held(q), \A j \in puts' \cup jobs' : WasRemoved(j[1])'
      PROVE  WorkerInv'
  <2>1. ASSUME NEW r \in Runs, Held(r), run'[r].pc = "revoke"
        PROVE  WasRemoved(run[r].job[1])' /\ \A m \in run'[r].todo : m.signer = run'[r].job[1]
    <3>1. WasRemoved(run'[r].job[1])
      BY <2>1
    <3>2. PICK e \in stored : e.signer = run'[r].job[1] /\ e.type = "REMOVE"
      BY <3>1 DEF WasRemoved
    <3>3. WasRemoved(e.signer)'
      BY <1>0, <3>2 DEF WasRemoved
    <3>4. QED BY <2>1, <3>2, <3>3 DEF WasRemoved
  <2>2. QED BY <1>1, <2>1 DEF WorkerInv
<1>2. CASE UNCHANGED <<puts, jobs, status, run, done, redone, removals>>
  BY <1>0, <1>1, <1>2 DEF WorkerInv
<1>3. ASSUME NEW p \in Mergers, CommitAndEnqueue(p)
      PROVE  WorkerInv'
  <2> DEFINE e == merger[p].event
  <2>1. /\ UNCHANGED <<jobs, status, run>> /\ stored' = stored \cup {e}
        /\ puts' = puts \/ (e.type = "REMOVE" /\ puts' = puts \cup {<<e.signer, removals[e.signer] + 1>>})
    BY <1>3 DEF CommitAndEnqueue, CommitEvent
  <2>2. PICK job : job = <<e.signer, removals[e.signer] + 1>>
    OBVIOUS
  <2>3. OneRun /\ \A q \in Runs : Held(q)
    BY <2>1 DEF WorkerInv
  <2>4. e.type = "REMOVE" => WasRemoved(job[1])'
    BY <2>1, <2>2 DEF WasRemoved
  <2>5. puts' = puts \/ (e.type = "REMOVE" /\ puts' = puts \cup {job})
    BY <2>1, <2>2
  <2> HIDE DEF e
  <2>6. \A j \in puts' \cup jobs' : WasRemoved(j[1])'
    <3> SUFFICES ASSUME NEW j \in puts' \cup jobs' PROVE WasRemoved(j[1])'
      OBVIOUS
    <3>1. CASE j \in puts \cup jobs
      <4>1. WasRemoved(j[1])
        BY <3>1 DEF WorkerInv
      <4>2. QED BY <1>0, <4>1
    <3>2. CASE j \notin puts \cup jobs
      BY <2>1, <2>4, <2>5, <3>2
    <3>3. QED BY <3>1, <3>2
  <2>7. QED BY <1>1, <2>3, <2>6
<1>4. ASSUME NEW s \in puts, PutJob(s)
      PROVE  WorkerInv'
  <2>1. /\ s \in puts /\ puts' = puts \ {s} /\ jobs' = jobs \cup {s} /\ UNCHANGED <<status, run>>
    BY <1>4 DEF PutJob
  <2>2. QED BY <1>0, <1>1, <2>1 DEF WorkerInv
<1>5. ASSUME NEW s \in emits, NEW r \in Runs, EmitEnqueueJob(s, r)
      PROVE  WorkerInv'
  <2>1. UNCHANGED <<puts, jobs>>
    BY <1>5 DEF EmitEnqueueJob
  <2>2. CASE UNCHANGED <<status, run>>
    BY <1>0, <1>1, <2>1, <2>2 DEF WorkerInv
  <2>3. CASE status = "waiting" /\ status' = "working" /\ run' = [run EXCEPT ![r].pc = "pop"]
    <3>1. \A q \in Runs : q # r => run'[q] = run[q] /\ run'[q].pc = "idle"
      BY <2>3 DEF WorkerInv
    <3>2. run'[r].pc = "pop"
      BY <2>3 DEF RunStates
    <3>3. OneRun /\ \A q \in Runs : Held(q)
      BY <2>3, <3>1, <3>2
    <3>4. QED BY <1>0, <1>1, <2>1, <3>3 DEF WorkerInv
  <2>4. QED BY <1>5, <2>2, <2>3 DEF EmitEnqueueJob
<1>6. CASE Crash
  <2>1. /\ puts' = {} /\ UNCHANGED jobs /\ \A r \in Runs : run'[r].pc = "idle"
    BY <1>6 DEF Crash, NoRun
  <2>2. QED BY <1>0, <1>1, <2>1 DEF WorkerInv
<1>7. ASSUME NEW r \in Runs, PopRead(r) \/ PopDelete(r) \/ RevokeNext(r) \/ EndRun(r)
      PROVE  WorkerInv'
  <2>1. /\ run[r].pc # "idle" /\ status = "working"
        /\ \A q \in Runs : q # r => run[q].pc = "idle"
    BY <1>7 DEF PopRead, PopDelete, RevokeNext, EndRun, WorkerInv
  <2>2. \A q \in Runs : q # r => run'[q] = run[q]
    BY <1>7 DEF PopRead, PopDelete, RevokeNext, EndRun
  <2>3. puts' = puts /\ jobs' \subseteq jobs
    BY <1>7 DEF PopRead, PopDelete, RevokeNext, EndRun
  <2>4. SUFFICES Held(r) /\ (status' = "waiting" => run'[r].pc = "idle")
    <3>1. ASSUME Held(r), status' = "waiting" => run'[r].pc = "idle"
          PROVE  OneRun /\ \A q \in Runs : Held(q)
      BY <2>1, <2>2, <3>1
    <3>2. \A j \in puts' \cup jobs' : WasRemoved(j[1])'
      BY <1>0, <2>3 DEF WorkerInv
    <3>3. QED BY <1>1, <3>1, <3>2
  <2>5. run[r] \in RunStates
    OBVIOUS
  <2>6. CASE PopRead(r)
    <3>1. CASE run' = [run EXCEPT ![r].pc = "end"]
      BY <2>1, <2>5, <2>6, <3>1 DEF PopRead, RunStates
    <3>2. ASSUME NEW s \in jobs, run' = [run EXCEPT ![r].pc = "delete", ![r].job = s]
          PROVE  Held(r) /\ (status' = "waiting" => run'[r].pc = "idle")
      <4>1. run'[r] = [run[r] EXCEPT !.pc = "delete", !.job = s]
        BY <3>2
      <4>2. run'[r].pc = "delete" /\ run'[r].job = s
        BY <2>5, <4>1 DEF RunStates
      <4>3. QED BY <2>1, <2>6, <4>2 DEF PopRead
    <3>3. QED BY <2>6, <3>1, <3>2 DEF PopRead
  <2>7. CASE PopDelete(r)
    <3>1. run'[r] = [run[r] EXCEPT !.pc = "revoke", !.todo = By(run[r].job[1])]
      BY <2>7 DEF PopDelete
    <3>2. /\ run'[r].pc = "revoke" /\ run'[r].job = run[r].job /\ run'[r].todo = By(run[r].job[1])
      BY <2>5, <3>1 DEF RunStates
    <3>3. WasRemoved(run[r].job[1])
      BY <2>7 DEF PopDelete, WorkerInv
    <3>4. QED BY <2>1, <2>7, <3>2, <3>3 DEF PopDelete, By
  <2>8. CASE RevokeNext(r)
    <3>1. CASE run' = [run EXCEPT ![r] = [NoRun EXCEPT !.pc = "pop"]]
      <4>1. run'[r].pc = "pop"
        BY <3>1 DEF NoRun
      <4>2. QED BY <2>1, <2>8, <4>1 DEF RevokeNext
    <3>2. ASSUME NEW m \in run[r].todo, run' = [run EXCEPT ![r].todo = @ \ {m}]
          PROVE  Held(r) /\ (status' = "waiting" => run'[r].pc = "idle")
      <4>1. run'[r].pc = run[r].pc /\ run'[r].job = run[r].job /\ run'[r].todo \subseteq run[r].todo
        BY <2>5, <3>2 DEF RunStates
      <4>2. run[r].pc = "revoke"
        BY <2>8 DEF RevokeNext
      <4>3. QED BY <2>1, <2>8, <4>1, <4>2 DEF RevokeNext, WorkerInv
    <3>3. QED BY <2>8, <3>1, <3>2 DEF RevokeNext
  <2>9. CASE EndRun(r)
    BY <2>9 DEF EndRun, NoRun
  <2>10. QED BY <1>7, <2>6, <2>7, <2>8, <2>9
<1>8. QED BY <1>2, <1>3, <1>4, <1>5, <1>6, <1>7, StepsOfTheWorker DEF WorkerSteps

LEMMA JobsNext ==
    ASSUME Shape, WorkerInv, JobsInv, [Next]_vars
    PROVE  JobsInv'
<1> USE DEF JobsInv
<1>1. \A j \in puts \cup jobs \cup done : j \in Jobs /\ j[2] \in Nat /\ j[1] \in Signers
  BY DEF Shape, TypeOK, Jobs
<1>2. ASSUME NEW p \in Mergers, CommitAndEnqueue(p)
      PROVE  JobsInv'
  <2> DEFINE s == merger[p].event.signer
             n == removals[s] + 1
             job == <<s, n>>
  <2>1. s \in Signers /\ removals \in [Signers -> Nat]
    BY <1>2, CommitEffect DEF Shape, TypeOK
  <2>2. UNCHANGED <<jobs, done, redone>>
    BY <1>2 DEF CommitAndEnqueue
  <2>3. \/ UNCHANGED <<puts, removals>>
        \/ puts' = puts \cup {job} /\ removals' = [removals EXCEPT ![s] = n]
    BY <1>2 DEF CommitAndEnqueue
  <2>4. CASE UNCHANGED <<puts, removals>>
    BY <2>2, <2>4
  <2>5. CASE puts' = puts \cup {job} /\ removals' = [removals EXCEPT ![s] = n]
    <3>1. job \notin puts \cup jobs \cup done
      <4>1. ~(job[2] <= removals[job[1]])
        BY <2>1
      <4>2. QED BY <4>1
    <3>2. \A t \in Signers : removals[t] <= removals'[t]
      BY <2>1, <2>5
    <3>3. job[2] <= removals'[job[1]]
      BY <2>1, <2>5
    <3>4. \A j \in puts' \cup jobs' \cup done' : j[2] <= removals'[j[1]]
      <4>1. ASSUME NEW j \in puts \cup jobs \cup done
            PROVE  j[2] <= removals'[j[1]]
        <5>1. j[2] <= removals[j[1]] /\ removals[j[1]] <= removals'[j[1]]
          BY <1>1, <3>2
        <5>2. j[2] \in Nat /\ removals[j[1]] \in Nat /\ removals'[j[1]] \in Nat
          BY <1>1, <2>1, <2>5
        <5>3. QED BY <5>1, <5>2
      <4> HIDE DEF job
      <4>2. QED BY <2>2, <2>5, <3>3, <4>1
    <3> HIDE DEF job
    <3>5. QED BY <2>2, <2>5, <3>1, <3>4
  <2>6. QED BY <2>3, <2>4, <2>5
<1>3. CASE UNCHANGED <<puts, jobs, status, run, done, redone, removals>>
  BY <1>3
<1>4. ASSUME NEW j \in puts, PutJob(j)
      PROVE  JobsInv'
  BY <1>4 DEF PutJob
<1>5. ASSUME NEW j \in emits, NEW r \in Runs, EmitEnqueueJob(j, r)
      PROVE  JobsInv'
  BY <1>5 DEF EmitEnqueueJob
<1>6. CASE Crash
  BY <1>6 DEF Crash
<1>7. ASSUME NEW r \in Runs, PopRead(r) \/ RevokeNext(r) \/ EndRun(r)
      PROVE  JobsInv'
  BY <1>7 DEF PopRead, RevokeNext, EndRun
<1>8. ASSUME NEW r \in Runs, PopDelete(r)
      PROVE  JobsInv'
  <2>1. run[r].job \in jobs
    BY <1>8 DEF PopDelete, WorkerInv
  <2>2. /\ jobs' = jobs \ {run[r].job} /\ done' = done \cup {run[r].job}
        /\ redone' = redone \cup (done \cap {run[r].job}) /\ UNCHANGED <<puts, removals>>
    BY <1>8 DEF PopDelete
  <2>3. QED BY <2>1, <2>2
<1>9. QED BY <1>2, <1>3, <1>4, <1>5, <1>6, <1>7, <1>8, StepsOfTheWorker DEF WorkerSteps

-----------------------------------------------------------------------------
(* Jobs and revocations                                                    *)

IInv ==
    /\ Shape /\ AloneInv /\ IndexedInv /\ PutsInv /\ FreshInv
    /\ SignersInv /\ WorkerInv /\ JobsInv

LEMMA InitInv == Init => IInv
<1> USE EventsAssumption, RevocationAssumption
<1> SUFFICES ASSUME Init PROVE IInv
  OBVIOUS
<1>1. Shape
  BY InitShape
<1>2. /\ \A p \in Mergers : merger[p].pc = "idle"
      /\ \A v \in Lookups : lookup[v].pc = "idle"
      /\ \A r \in Runs : run[r].pc = "idle"
      /\ puts = {} /\ jobs = {} /\ done = {} /\ redone = {}
  BY DEF Init, NoMerge, NoLookup, NoRun
<1>3. ASSUME NEW s \in Signers, index[s] # None
      PROVE  index[s] \in stored /\ index[s].signer = s /\ IsActive(index[s])
  <2>1. LatestAdd(index[s], s)
    BY DEF Init
  <2>2. index[s] \in stored /\ index[s].signer = s
    BY <1>3, <2>1 DEF LatestAdd
  <2>3. stored \in {{}, Added}
    BY DEF Init
  <2>4. QED BY <1>3, <2>2, <2>3 DEF IsActive, Added
<1>4. AloneInv /\ IndexedInv /\ PutsInv /\ FreshInv
  BY <1>2, <1>3 DEF AloneInv, Merging, IndexedInv, PutsInv, FreshInv
<1>5. SignersInv
  <2>1. \A m \in msgs : index[m.signer] # None /\ m.signer \in Signers
    BY DEF Init
  <2>2. \A s \in cache : s \in Signers /\ index[s] # None
    BY DEF Init
  <2>3. QED BY <1>2, <1>3, <2>1, <2>2 DEF SignersInv, ActiveOrRemoved
<1>6. WorkerInv
  BY <1>2 DEF WorkerInv
<1>7. JobsInv
  BY <1>2 DEF JobsInv
<1>8. QED BY <1>1, <1>4, <1>5, <1>6, <1>7 DEF IInv

LEMMA NextInv ==
    ASSUME IInv, [Next]_vars
    PROVE  IInv'
<1>1. Shape'
  BY ShapeNext DEF IInv
<1>2. AloneInv' /\ IndexedInv' /\ PutsInv' /\ FreshInv'
  BY AloneNext, IndexedNext, PutsNext, FreshNext DEF IInv
<1>3. SignersInv'
  BY <1>1, SignersNext DEF IInv
<1>4. WorkerInv'
  BY WorkerNext DEF IInv
<1>5. JobsInv'
  BY JobsNext DEF IInv
<1>6. QED BY <1>1, <1>2, <1>3, <1>4, <1>5 DEF IInv

LEMMA Invariance == Spec => []IInv
<1>1. IInv /\ [Next]_vars => IInv'
  BY NextInv
<1>2. QED BY <1>1, InitInv, PTL DEF Spec

\* popNextJob takes the job of each merge of a removal at most once, however the merges
\* overlap, however often the listener is called while the worker is busy, whichever
\* crash comes between the write of the job, its deletion and its end.
THEOREM JobsTakenOnce == Spec => []JobsDoneOnce
<1>1. IInv => JobsDoneOnce
  BY DEF IInv, JobsInv, JobsDoneOnce
<1>2. QED BY <1>1, Invariance, PTL

\* The worker and the scans delete a message only when its signer was removed, or
\* when validation had another reason to refuse it, also when the index, the cache and the
\* lookups in progress are not in step; a signer whose merges overlapped is exempt.
THEOREM RevokedForAReason == Spec => RevokesForAReason
<1>1. ASSUME IInv, [Next]_vars
      PROVE  [\A m \in msgs \ msgs' :
                 \/ \E e \in stored : e.signer = m.signer /\ e.type = "REMOVE"
                 \/ m \in unfit
                 \/ m.signer \in overlapped]_vars
  <2> SUFFICES ASSUME NEW m \in msgs \ msgs'
               PROVE  WasRemoved(m.signer) \/ m \in unfit \/ m.signer \in overlapped
    BY DEF WasRemoved
  <2>1. \/ UNCHANGED msgs
        \/ \E v \in Lookups, n \in Messages : MergeMessage(v, n)
        \/ \E r \in Runs : RevokeNext(r)
        \/ \E n \in Messages : ValidateOrRevoke(n) \/ RevokeName(n)
    <3>1. CASE UNCHANGED vars
      BY <3>1 DEF vars, jobVars
    <3>2. CASE Next
      BY <3>2, NextIsStep
      DEF StepOf, HandleSignerEvent, StartEvent, CommitAndEnqueue, ReadSigner, CacheSigner,
          StartLookup, Evict, PutJob, EmitEnqueueJob, CloseWindow, Crash, PopRead, PopDelete, EndRun,
          Invalidate, jobVars
    <3>3. QED BY <1>1, <3>1, <3>2
  <2>2. ASSUME NEW r \in Runs, RevokeNext(r)
        PROVE  WasRemoved(m.signer)
    <3>1. m \in run[r].todo /\ run[r].pc = "revoke"
      BY <2>2 DEF RevokeNext
    <3>2. QED BY <1>1, <3>1 DEF IInv, WorkerInv
  <2>3. ASSUME NEW n \in Messages, ValidateOrRevoke(n)
        PROVE  WasRemoved(m.signer) \/ m \in unfit \/ m.signer \in overlapped
    <3>1. n = m /\ (m \in unfit \/ ~(m.signer \in cache \/ IsActive(index[m.signer])))
      BY <2>3 DEF ValidateOrRevoke
    <3>2. ActiveOrRemoved(m.signer)
      BY <1>1 DEF IInv, SignersInv
    <3>3. QED BY <3>1, <3>2 DEF ActiveOrRemoved
  <2>4. ASSUME NEW n \in Messages, RevokeName(n)
        PROVE  m \in unfit
    BY <2>4 DEF RevokeName
  <2>5. ASSUME NEW v \in Lookups, NEW n \in Messages, MergeMessage(v, n)
        PROVE  FALSE
    BY <2>5 DEF MergeMessage
  <2>6. QED BY <2>1, <2>2, <2>3, <2>4, <2>5
<1>2. QED BY <1>1, Invariance, PTL DEF Spec, RevokesForAReason

-----------------------------------------------------------------------------
(* The index and the chain                                                 *)

ChainInv == IndexInv /\ SkipsInv

\* Two events of a signer are its ADD and its REMOVE.
LEMMA RegistryPairs ==
    ASSUME RegistryOrder, NEW e \in Events, NEW f \in Events, e.signer = f.signer
    PROVE  /\ e.type \in {"ADD", "REMOVE"} /\ f.type \in {"ADD", "REMOVE"}
           /\ e = f \/ e.type # f.type
           /\ e.type = "ADD" /\ f.type = "REMOVE" => Before(e, f) /\ ~Before(f, e)
<1>1. /\ e.type \in {"ADD", "REMOVE"} /\ f.type \in {"ADD", "REMOVE"}
      /\ e = f \/ e.type # f.type
      /\ e.type = "ADD" /\ f.type = "REMOVE" => Before(e, f)
  BY EventsAssumption DEF RegistryOrder
<1>2. e.block \in Nat /\ f.block \in Nat /\ e.log \in Nat /\ f.log \in Nat
  BY EventsAssumption
<1>3. QED BY <1>1, <1>2 DEF Before

\* What _handleSignerEvent makes of a pair of events.
LEMMA HandlePair ==
    ASSUME RegistryOrder, Shape, IndexedInv, NEW p \in Mergers, HandleSignerEvent(p)
    PROVE  LET e == merger[p].event
               existing == index[e.signer]
           IN  \/ /\ merger'[p].pc = "commit" /\ merger'[p].event = e /\ merger'[p].put = e
                  /\ offered' = offered
                  /\ e.type = "REMOVE" \/ existing \in {None, e}
               \/ /\ merger'[p].pc = "commit" /\ merger'[p].event = e /\ merger'[p].put = None
                  /\ offered' = offered
                  /\ e.type = "ADD" /\ existing # None /\ existing.type = "REMOVE"
               \/ /\ merger'[p].pc = "idle" /\ offered' = offered \cup {e}
                  /\ e.type = "ADD" /\ existing # None /\ existing.type = "REMOVE"
<1> USE EventsAssumption
<1> DEFINE e == merger[p].event
           existing == index[e.signer]
<1>1. e \in Events /\ e.signer \in Signers /\ merger[p].put = None /\ merger[p] \in Merges
  BY DEF HandleSignerEvent, Shape
<1>2. existing # None =>
         /\ existing \in Events /\ existing.signer = e.signer
         /\ e.type \in {"ADD", "REMOVE"} /\ existing.type \in {"ADD", "REMOVE"}
         /\ e = existing \/ e.type # existing.type
         /\ existing.type = "ADD" /\ e.type = "REMOVE" => Before(existing, e)
  <2>1. existing # None => existing \in Events /\ existing.signer = e.signer
    BY <1>1 DEF IndexedInv, Shape, TypeOK, EventsTypeOK
  <2>2. QED BY <1>1, <2>1, RegistryPairs
<1>3. e.block \in Nat /\ (existing # None => existing.block \in Nat)
  BY <1>1, <1>2
<1>4. IndexEntry(e) = e
  BY <1>1 DEF IndexEntry, RegistryOrder
<1>5. CASE Newer(existing, e)
  <2>1. merger' = [merger EXCEPT ![p].pc = "commit"] /\ UNCHANGED offered
    BY <1>5 DEF HandleSignerEvent
  <2>2. merger'[p].pc = "commit" /\ merger'[p].event = e /\ merger'[p].put = None
    BY <1>1, <2>1 DEF Shape, Merges
  <2>3. existing # None /\ e.type = "ADD" /\ existing.type = "REMOVE"
    BY <1>2, <1>3, <1>5 DEF Newer, Before
  <2>4. QED BY <2>1, <2>2, <2>3
<1>6. CASE ~Newer(existing, e) /\ AlreadyRemoved(existing, e)
  <2>1. merger' = [merger EXCEPT ![p] = NoMerge] /\ offered' = offered \cup {e}
    BY <1>6 DEF HandleSignerEvent
  <2>2. merger'[p].pc = "idle"
    BY <2>1 DEF Shape, NoMerge
  <2>3. QED BY <1>6, <2>1, <2>2 DEF AlreadyRemoved
<1>7. CASE ~Newer(existing, e) /\ ~AlreadyRemoved(existing, e)
  <2>1. merger' = [merger EXCEPT ![p].pc = "commit", ![p].put = e] /\ UNCHANGED offered
    BY <1>4, <1>7 DEF HandleSignerEvent
  <2>2. merger'[p] = [merger[p] EXCEPT !.pc = "commit", !.put = e]
    BY <2>1 DEF Shape
  <2>3. merger'[p].pc = "commit" /\ merger'[p].event = e /\ merger'[p].put = e
    BY <1>1, <2>2 DEF Merges
  <2>4. e.type = "REMOVE" \/ existing \in {None, e}
    BY <1>2, <1>7 DEF AlreadyRemoved
  <2>5. QED BY <2>1, <2>3, <2>4
<1>8. QED BY <1>5, <1>6, <1>7

LEMMA SkipsNext ==
    ASSUME RegistryOrder, Shape, AloneInv, IndexedInv, SkipsInv, [Next]_vars
    PROVE  SkipsInv'
<1> DEFINE Skips(j, i) == \/ j.put = j.event /\ (j.event.type = "REMOVE" \/ i \in {None, j.event})
                          \/ j.put = None /\ j.event.type = "ADD" /\ i # None /\ i.type = "REMOVE"
<1>1. SUFFICES ASSUME NEW q \in Mergers, merger'[q].pc = "commit",
                      merger'[q].event.signer \notin overlapped'
               PROVE  Skips(merger'[q], index'[merger'[q].event.signer])
  BY DEF SkipsInv
<1>2. merger'[q].event.signer \notin overlapped
  BY <1>1, HistoryGrows
<1>3. CASE merger'[q] = merger[q] /\ index'[merger[q].event.signer] = index[merger[q].event.signer]
  BY <1>1, <1>2, <1>3 DEF SkipsInv
<1>4. ASSUME NEW p \in Mergers, CommitAndEnqueue(p)
      PROVE  merger'[q] = merger[q] /\ index'[merger[q].event.signer] = index[merger[q].event.signer]
  <2>1. q # p /\ merger'[q] = merger[q] /\ merger[p].pc # "idle" /\ merger[q].pc # "idle"
    BY <1>1, <1>4, MergesAfter
  <2>2. merger[p].event.signer # merger[q].event.signer
    BY <1>2, <2>1, OthersAreOfOthers
  <2>3. merger[q].event.signer \in Signers
    BY <2>1, EventsAssumption DEF Shape
  <2>4. QED BY <1>4, <2>1, <2>2, <2>3, CommitEffect
<1>5. ASSUME NEW p \in Mergers, HandleSignerEvent(p)
      PROVE  Skips(merger'[q], index'[merger'[q].event.signer])
  <2>0. index' = index
    BY <1>5 DEF HandleSignerEvent
  <2>1. CASE q # p
    BY <1>3, <1>5, <2>0, <2>1, MergesAfter
  <2>2. CASE q = p
    BY <1>1, <1>5, <2>0, <2>2, HandlePair
  <2>3. QED BY <2>1, <2>2
<1>6. ASSUME NEW p \in Mergers, NEW e \in Events, StartEvent(p, e)
      PROVE  merger'[q] = merger[q] /\ index'[merger[q].event.signer] = index[merger[q].event.signer]
  BY <1>1, <1>6, MergesAfter DEF StartEvent
<1>7. CASE Crash
  BY <1>1, <1>7, MergesAfter
<1>8. CASE UNCHANGED <<merger, index>>
  BY <1>3, <1>8
<1>9. QED BY <1>3, <1>4, <1>5, <1>6, <1>7, <1>8, StepsOfMerges DEF MergeSteps

LEMMA IndexNext ==
    ASSUME RegistryOrder, Shape, IndexedInv, ChainInv, [Next]_vars
    PROVE  IndexInv'
<1> USE EventsAssumption
<1> USE DEF ChainInv
<1>0. overlapped \subseteq overlapped'
  BY HistoryGrows
<1>1. ASSUME NEW p \in Mergers, CommitAndEnqueue(p)
      PROVE  IndexInv'
  <2> DEFINE e == merger[p].event
             put == merger[p].put
  <2>1. /\ merger[p].pc = "commit" /\ e \in Events /\ e.signer \in Signers
        /\ offered' = offered \cup {e} /\ overlapped' = overlapped
        /\ \A s \in Signers : index'[s] = IF put # None /\ s = e.signer THEN put ELSE index[s]
    BY <1>1, CommitEffect, MergesAfter
  <2>2. e.signer \notin overlapped =>
           \/ put = e /\ (e.type = "REMOVE" \/ index[e.signer] \in {None, e})
           \/ put = None /\ e.type = "ADD" /\ index[e.signer] # None /\ index[e.signer].type = "REMOVE"
    BY <2>1 DEF SkipsInv
  <2>3. offered \subseteq Events
    BY DEF Shape, TypeOK, EventsTypeOK
  <2> HIDE DEF e, put
  <2>4. ASSUME NEW f \in offered', f.signer \notin overlapped'
        PROVE  \/ index'[f.signer] = f
               \/ f.type = "ADD" /\ index'[f.signer] # None /\ index'[f.signer].type = "REMOVE"
    <3>1. f \in Events /\ f.signer \in Signers /\ (f \in offered \/ f = e)
      BY <2>1, <2>3
    <3>2. CASE f.signer # e.signer \/ put = None
      <4>1. index'[f.signer] = index[f.signer]
        BY <2>1, <3>1, <3>2
      <4>2. CASE f = e
        BY <2>1, <2>2, <2>4, <3>2, <4>1, <4>2
      <4>3. CASE f \in offered
        BY <2>1, <2>4, <4>1, <4>3 DEF IndexInv
      <4>4. QED BY <3>1, <4>2, <4>3
    <3>3. CASE f.signer = e.signer /\ put # None
      <4>1. put = e /\ (e.type = "REMOVE" \/ index[e.signer] \in {None, e}) /\ index'[f.signer] = e
        BY <2>1, <2>2, <2>4, <3>1, <3>3
      <4>2. CASE f = e
        BY <4>1, <4>2
      <4>3. CASE f # e
        <5>1. /\ e.type \in {"ADD", "REMOVE"} /\ f.type \in {"ADD", "REMOVE"} /\ e.type # f.type
          BY <2>1, <3>1, <3>3, <4>3, RegistryPairs
        <5>2. \/ index[f.signer] = f
              \/ f.type = "ADD" /\ index[f.signer] # None /\ index[f.signer].type = "REMOVE"
          BY <2>1, <2>4, <3>1, <4>3 DEF IndexInv
        <5>3. e.type = "REMOVE"
          BY <3>1, <3>3, <4>1, <4>3, <5>1, <5>2
        <5>4. QED BY <2>1, <4>1, <5>1, <5>3
      <4>4. QED BY <4>2, <4>3
    <3>4. QED BY <3>2, <3>3
  <2>5. ASSUME NEW s \in Signers \ overlapped', index'[s] # None
        PROVE  index'[s] \in offered'
    BY <2>1, <2>2, <2>5 DEF IndexInv
  <2>6. QED BY <2>4, <2>5 DEF IndexInv
<1>2. ASSUME NEW p \in Mergers, HandleSignerEvent(p)
      PROVE  IndexInv'
  <2> DEFINE e == merger[p].event
  <2>1. UNCHANGED <<index, overlapped>> /\ e \in Events
    BY <1>2, MergesAfter DEF HandleSignerEvent
  <2>2. \/ offered' = offered
        \/ /\ offered' = offered \cup {e}
           /\ e.type = "ADD" /\ index[e.signer] # None /\ index[e.signer].type = "REMOVE"
    BY <1>2, HandlePair
  <2> HIDE DEF e
  <2>3. QED BY <2>1, <2>2 DEF IndexInv
<1>3. CASE UNCHANGED <<index, offered>>
  BY <1>0, <1>3 DEF IndexInv
<1>4. QED BY <1>1, <1>2, <1>3, StepsOfMerges DEF MergeSteps, StartEvent, Crash

\* What the invariant says of a signer is what the chain says.
LEMMA IndexIsChainState ==
    ASSUME RegistryOrder, Shape, IndexedInv, IndexInv, NEW s \in Signers \ overlapped
    PROVE  index[s] = ChainState(offered, s)
<1> USE EventsAssumption
<1> DEFINE mine == {e \in offered : e.signer = s}
           Last(e) == \A f \in mine : ~Before(e, f)
<1>1. mine \subseteq Events /\ (index[s] # None => index[s] \in mine)
  BY DEF Shape, TypeOK, EventsTypeOK, IndexedInv, IndexInv
<1>2. CASE mine = {}
  BY <1>1, <1>2 DEF ChainState
<1>3. CASE mine # {}
  <2>1. index[s] # None /\ index[s] \in mine
    BY <1>1, <1>3 DEF IndexInv, Shape, TypeOK, EventsTypeOK
  <2>2. \A f \in mine : f = index[s] \/ (f.type = "ADD" /\ index[s].type = "REMOVE")
    BY DEF IndexInv
  <2>3. Last(index[s])
    <3> TAKE f \in mine
    <3>1. CASE f = index[s]
      BY <1>1, <2>1, <3>1 DEF Before
    <3>2. CASE f.type = "ADD" /\ index[s].type = "REMOVE"
      BY <1>1, <2>1, <3>2, RegistryPairs
    <3>3. QED BY <2>2, <3>1, <3>2
  <2>4. \A e \in mine : Last(e) => e = index[s]
    <3> TAKE e \in mine
    <3>1. e.type = "ADD" /\ index[s].type = "REMOVE" => Before(e, index[s])
      BY <1>1, <2>1, RegistryPairs
    <3>2. QED BY <2>1, <2>2, <3>1
  <2>5. (CHOOSE e \in mine : Last(e)) = index[s]
    <3> HIDE DEF mine, Last
    <3> QED BY <2>1, <2>3, <2>4
  <2>6. index[s].type # "ADMIN_RESET"
    BY <1>1, <2>1 DEF RegistryOrder
  <2>7. QED BY <1>3, <2>5, <2>6 DEF ChainState
<1>4. QED BY <1>2, <1>3

LEMMA InitChain ==
    ASSUME RegistryOrder, Init
    PROVE  ChainInv
<1> USE EventsAssumption
<1>1. \A p \in Mergers : merger[p].pc = "idle"
  BY DEF Init, NoMerge
<1>2. stored \in {{}, Added} /\ offered = stored
  BY DEF Init
<1>3. ASSUME NEW e \in offered
      PROVE  index[e.signer] = e
  <2>1. e \in Events /\ e \in stored /\ e.type = "ADD" /\ e.signer \in Signers
    BY <1>2 DEF Added
  <2>2. LatestAdd(index[e.signer], e.signer)
    BY <2>1 DEF Init
  <2>3. index[e.signer] \in stored /\ index[e.signer].signer = e.signer
    BY <2>1, <2>2 DEF LatestAdd
  <2>4. index[e.signer] \in Events /\ index[e.signer].type = "ADD"
    BY <1>2, <2>3 DEF Added
  <2>5. QED BY <2>1, <2>3, <2>4, RegistryPairs
<1>4. \A s \in Signers : index[s] # None => index[s] \in offered
  BY <1>2, InitInv DEF IInv, IndexedInv
<1>5. QED BY <1>1, <1>3, <1>4 DEF ChainInv, IndexInv, SkipsInv

\* In whatever order the signer events of a chain without resets are merged, at most one
\* at a time of each signer, and whatever crashes come between, the by-signer index ends
\* at what the chain says: the block comparison and the refusal to add a removed key
\* again are enough, also for events of one block.
THEOREM IndexFollowsChain ==
    ASSUME RegistryOrder
    PROVE  Spec => []MatchesChain
<1>1. Init => ChainInv
  BY InitChain
<1>2. IInv /\ ChainInv /\ [Next]_vars => ChainInv'
  BY IndexNext, SkipsNext DEF IInv, ChainInv
<1>3. IInv /\ ChainInv => MatchesChain
  BY IndexIsChainState DEF IInv, ChainInv, MatchesChain
<1>4. QED BY <1>1, <1>2, <1>3, Invariance, PTL DEF Spec

-----------------------------------------------------------------------------
(* Removals are final, and none is forgotten                               *)

\* A merge that is to change the index of a removed signer removes it or resets it.
FinalInv ==
    \A p \in Mergers :
        LET e == merger[p].event
            put == merger[p].put
        IN  merger[p].pc = "commit" /\ put # None /\ e.signer \notin overlapped /\ Removed(e.signer) =>
                e.type = "ADMIN_RESET" \/ put.type = "REMOVE"

LEMMA FinalNext ==
    ASSUME Shape, AloneInv, FinalInv, [Next]_vars
    PROVE  FinalInv'
<1> USE EventsAssumption
<1> DEFINE Final(j, i) == i # None /\ i.type = "REMOVE" =>
                              j.event.type = "ADMIN_RESET" \/ j.put.type = "REMOVE"
<1>1. SUFFICES ASSUME NEW q \in Mergers, merger'[q].pc = "commit", merger'[q].put # None,
                      merger'[q].event.signer \notin overlapped'
               PROVE  Final(merger'[q], index'[merger'[q].event.signer])
  BY DEF FinalInv, Removed
<1>2. merger'[q].event.signer \notin overlapped
  BY <1>1, HistoryGrows
<1>3. CASE merger'[q] = merger[q] /\ index'[merger[q].event.signer] = index[merger[q].event.signer]
  BY <1>1, <1>2, <1>3 DEF FinalInv, Removed
<1>4. ASSUME NEW p \in Mergers, CommitAndEnqueue(p)
      PROVE  merger'[q] = merger[q] /\ index'[merger[q].event.signer] = index[merger[q].event.signer]
  <2>1. q # p /\ merger'[q] = merger[q] /\ merger[p].pc # "idle" /\ merger[q].pc # "idle"
    BY <1>1, <1>4, MergesAfter
  <2>2. merger[p].event.signer # merger[q].event.signer
    BY <1>2, <2>1, OthersAreOfOthers
  <2>3. merger[q].event.signer \in Signers
    BY <2>1 DEF Shape
  <2>4. QED BY <1>4, <2>1, <2>2, <2>3, CommitEffect
<1>5. ASSUME NEW p \in Mergers, HandleSignerEvent(p)
      PROVE  Final(merger'[q], index'[merger'[q].event.signer])
  <2>0. index' = index
    BY <1>5 DEF HandleSignerEvent
  <2>1. CASE q # p
    BY <1>3, <1>5, <2>0, <2>1, MergesAfter
  <2>2. CASE q = p
    <3> DEFINE e == merger[p].event
    <3>1. /\ e \in Events /\ merger[p].put = None
          /\ merger'[q].event = e /\ merger'[q].put = IndexEntry(e)
      BY <1>1, <1>5, <2>2, MergesAfter
    <3>2. ~AlreadyRemoved(index[e.signer], e)
      BY <1>1, <1>5, <2>2, <3>1 DEF HandleSignerEvent, Shape, Merges, NoMerge
    <3>3. e.type = "ADMIN_RESET" \/ IndexEntry(e) = e
      BY <3>1 DEF IndexEntry
    <3>4. e.type \in {"ADD", "REMOVE", "ADMIN_RESET"}
      BY <3>1
    <3>5. QED BY <2>0, <3>1, <3>2, <3>3, <3>4 DEF AlreadyRemoved
  <2>3. QED BY <2>1, <2>2
<1>6. ASSUME NEW p \in Mergers, NEW e \in Events, StartEvent(p, e)
      PROVE  merger'[q] = merger[q] /\ index'[merger[q].event.signer] = index[merger[q].event.signer]
  BY <1>1, <1>6, MergesAfter DEF StartEvent
<1>7. CASE Crash
  BY <1>1, <1>7, MergesAfter
<1>8. CASE UNCHANGED <<merger, index>>
  BY <1>3, <1>8
<1>9. QED BY <1>3, <1>4, <1>5, <1>6, <1>7, <1>8, StepsOfMerges DEF MergeSteps

\* mergeOnChainEvent, with events in any order, takes back a removal for a reset and for
\* nothing else: an ADD that arrives after it is refused, whatever block it is of.
THEOREM RemovalsAreFinal == Spec => RemovalIsFinal
<1>1. Init => FinalInv
  BY DEF Init, FinalInv, NoMerge
<1>2. IInv /\ FinalInv /\ [Next]_vars => FinalInv'
  BY FinalNext DEF IInv
<1>3. ASSUME IInv, FinalInv, [Next]_vars
      PROVE  [\A s \in Signers \ overlapped :
                 Removed(s) => \/ Removed(s)'
                               \/ \E e \in stored' \ stored : e.signer = s /\ e.type = "ADMIN_RESET"]_vars
  <2>1. SUFFICES ASSUME NEW s \in Signers \ overlapped, Removed(s)
                 PROVE  Removed(s)' \/ \E e \in stored' \ stored : e.signer = s /\ e.type = "ADMIN_RESET"
    OBVIOUS
  <2>2. CASE UNCHANGED <<stored, index>>
    BY <2>1, <2>2 DEF Removed
  <2>3. ASSUME NEW p \in Mergers, CommitAndEnqueue(p)
        PROVE  Removed(s)' \/ \E e \in stored' \ stored : e.signer = s /\ e.type = "ADMIN_RESET"
    <3> DEFINE e == merger[p].event
               put == merger[p].put
    <3>1. /\ stored' = stored \cup {e} /\ merger[p].pc = "commit"
          /\ index'[s] = IF put # None /\ s = e.signer THEN put ELSE index[s]
      BY <1>3, <2>3, CommitEffect, MergesAfter DEF IInv
    <3>2. s = e.signer => e \notin stored
      BY <1>3, <3>1 DEF IInv, FreshInv
    <3>3. s = e.signer /\ put # None => e.type = "ADMIN_RESET" \/ put.type = "REMOVE"
      BY <1>3, <2>1, <3>1 DEF FinalInv
    <3> HIDE DEF e, put
    <3>4. QED BY <2>1, <3>1, <3>2, <3>3 DEF Removed
  <2>4. QED BY <1>3, <2>2, <2>3, OnlyCommitsStore
<1>4. QED BY <1>1, <1>2, <1>3, Invariance, PTL DEF Spec, RemovalIsFinal

\* Whether crashes goes up or not.
LEMMA OnlyCrashesCount ==
    ASSUME [Next]_vars
    PROVE  Crash \/ UNCHANGED crashes
<1>1. CASE UNCHANGED vars
  BY <1>1 DEF vars
<1>2. CASE Next
  BY <1>2, NextIsStep
  DEF StepOf, CommitAndEnqueue, MergeMessage, PutJob, EmitEnqueueJob, CloseWindow, PopRead, PopDelete,
      RevokeNext, EndRun, ValidateOrRevoke, Invalidate, RevokeName
<1>3. QED BY <1>1, <1>2

QueuedInv == crashes \in Nat /\ EveryRemovalHasJob

LEMMA QueuedNext ==
    ASSUME Shape, QueuedInv, [Next]_vars
    PROVE  QueuedInv'
<1> USE EventsAssumption
<1>0. removals \in [Signers -> Nat]
  BY DEF Shape, TypeOK
<1>1. CASE Crash
  BY <1>1 DEF Crash, QueuedInv, EveryRemovalHasJob
<1>2. CASE UNCHANGED crashes /\ crashes # 0
  BY <1>2 DEF QueuedInv, EveryRemovalHasJob
<1>3. CASE UNCHANGED crashes /\ crashes = 0 /\ ~Crash
  <2>1. /\ \A e \in stored : e.type = "REMOVE" => removals[e.signer] > 0
        /\ \A s \in Signers : \A n \in 1..removals[s] : <<s, n>> \in puts \cup jobs \cup done
    BY <1>3 DEF QueuedInv, EveryRemovalHasJob
  <2>2. \A e \in stored : e \in Events /\ e.signer \in Signers
    BY DEF Shape, TypeOK, EventsTypeOK
  <2>3. SUFFICES /\ \A e \in stored' : e.type = "REMOVE" => removals'[e.signer] > 0
                 /\ \A s \in Signers : \A n \in 1..removals'[s] : <<s, n>> \in puts' \cup jobs' \cup done'
    BY <1>3 DEF QueuedInv, EveryRemovalHasJob
  <2>4. ASSUME UNCHANGED <<stored, removals>>, puts \cup jobs \cup done \subseteq puts' \cup jobs' \cup done'
        PROVE  /\ \A e \in stored' : e.type = "REMOVE" => removals'[e.signer] > 0
               /\ \A s \in Signers : \A n \in 1..removals'[s] : <<s, n>> \in puts' \cup jobs' \cup done'
    BY <2>1, <2>4
  <2>5. ASSUME NEW p \in Mergers, CommitAndEnqueue(p)
        PROVE  /\ \A e \in stored' : e.type = "REMOVE" => removals'[e.signer] > 0
               /\ \A s \in Signers : \A n \in 1..removals'[s] : <<s, n>> \in puts' \cup jobs' \cup done'
    <3> DEFINE f == merger[p].event
               t == f.signer
    <3>1. stored' = stored \cup {f} /\ UNCHANGED <<jobs, done>> /\ t \in Signers
      BY <2>5, CommitEffect DEF CommitAndEnqueue
    <3>2. \/ f.type # "REMOVE" /\ UNCHANGED <<puts, removals>>
          \/ /\ f.type = "REMOVE" /\ puts' = puts \cup {<<t, removals[t] + 1>>}
             /\ removals' = [removals EXCEPT ![t] = @ + 1]
      BY <2>5 DEF CommitAndEnqueue
    <3> HIDE DEF f, t
    <3>3. CASE f.type # "REMOVE" /\ UNCHANGED <<puts, removals>>
      BY <2>1, <3>1, <3>3
    <3>4. CASE /\ f.type = "REMOVE" /\ puts' = puts \cup {<<t, removals[t] + 1>>}
               /\ removals' = [removals EXCEPT ![t] = @ + 1]
      <4>1. removals'[t] = removals[t] + 1 /\ \A s \in Signers \ {t} : removals'[s] = removals[s]
        BY <1>0, <3>1, <3>4
      <4>2. removals[t] \in Nat /\ \A s \in Signers : removals[s] \in Nat
        BY <1>0, <3>1
      <4>3. t = f.signer
        BY DEF t
      <4>4. ASSUME NEW e \in stored', e.type = "REMOVE"
            PROVE  removals'[e.signer] > 0
        <5>1. CASE e = f
          BY <4>1, <4>2, <4>3, <5>1
        <5>2. CASE e \in stored
          BY <2>1, <2>2, <4>1, <4>2, <4>4, <5>2
        <5>3. QED BY <3>1, <5>1, <5>2
      <4>5. ASSUME NEW s \in Signers, NEW n \in 1..removals'[s]
            PROVE  <<s, n>> \in puts' \cup jobs' \cup done'
        <5>1. CASE n \in 1..removals[s]
          BY <2>1, <3>1, <3>4, <5>1
        <5>2. CASE n \notin 1..removals[s]
          <6>1. s = t /\ n = removals[t] + 1
            BY <4>1, <4>2, <5>2
          <6>2. QED BY <3>4, <6>1
        <5>3. QED BY <5>1, <5>2
      <4>6. QED BY <4>4, <4>5
    <3>5. QED BY <3>2, <3>3, <3>4
  <2>6. CASE UNCHANGED stored
    <3>1. CASE UNCHANGED <<puts, jobs, status, run, done, redone, removals>>
      BY <2>4, <2>6, <3>1
    <3>2. ASSUME NEW j \in puts, PutJob(j)
          PROVE  UNCHANGED removals /\ puts \cup jobs \cup done \subseteq puts' \cup jobs' \cup done'
      BY <3>2 DEF PutJob
    <3>3. ASSUME NEW j \in emits, NEW r \in Runs, EmitEnqueueJob(j, r)
          PROVE  UNCHANGED removals /\ puts \cup jobs \cup done \subseteq puts' \cup jobs' \cup done'
      BY <3>3 DEF EmitEnqueueJob
    <3>4. ASSUME NEW r \in Runs, PopRead(r) \/ RevokeNext(r) \/ EndRun(r) \/ PopDelete(r)
          PROVE  UNCHANGED removals /\ puts \cup jobs \cup done \subseteq puts' \cup jobs' \cup done'
      BY <3>4 DEF PopRead, RevokeNext, EndRun, PopDelete
    <3>5. QED BY <1>3, <2>4, <2>5, <2>6, <3>1, <3>2, <3>3, <3>4, StepsOfTheWorker DEF WorkerSteps
  <2>7. QED BY <2>5, <2>6, OnlyCommitsStore
<1>4. QED BY <1>1, <1>2, <1>3, OnlyCrashesCount

\* handleMergeOnChainEvent, enqueueJob and popNextJob, for any number of merges at once:
\* while the process lives, the job of each merged removal is written, waiting or taken.
THEOREM NoRemovalForgotten == Spec => []EveryRemovalHasJob
<1>1. Init => Shape /\ QueuedInv
  <2>1. SUFFICES ASSUME Init
                 PROVE  crashes = 0 /\ (\A e \in stored : e.type # "REMOVE") /\ \A s \in Signers : removals[s] = 0
    BY InitShape DEF QueuedInv, EveryRemovalHasJob
  <2>2. QED BY <2>1 DEF Init, Added
<1>2. Shape /\ QueuedInv /\ [Next]_vars => Shape' /\ QueuedInv'
  BY ShapeNext, QueuedNext
<1>3. QueuedInv => EveryRemovalHasJob
  BY DEF QueuedInv
<1>4. QED BY <1>1, <1>2, <1>3, PTL DEF Spec
===============================================================================
