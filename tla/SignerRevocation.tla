--------------------------- MODULE SignerRevocation ---------------------------
(***************************************************************************)
(* What happens to a removed signer's messages: the engine enqueues a      *)
(* revoke job once the removal is committed, a worker pops jobs and        *)
(* revokes the signer's messages (revokeMessagesBySignerJob.ts), and the   *)
(* monthly full scan of validateOrRevokeMessagesJob.ts validates every     *)
(* message again.  Meanwhile messages are validated and merged, and the    *)
(* hub may crash: the database survives, everything else is lost.          *)
(***************************************************************************)
EXTENDS SignerEvents

CONSTANTS
    Messages,       \* records [signer, id]
    Named,          \* messages that depend on a name or an address of their fid
    Runs,           \* concurrent processJobs calls
    MaxCrashes      \* bound: crashes of a behaviour

ASSUME RevocationAssumption ==
    /\ \A m \in Messages : m.signer \in Signers
    /\ Named \subseteq Messages
    /\ MaxCrashes \in Nat

VARIABLES
    msgs,       \* stored messages
    puts,       \* jobs <<signer, number>> that are being written
    jobs,       \* jobs in the database
    emits,      \* jobs whose enqueueJob event is to be emitted
    late,       \* jobs dated after the worker's doBefore
    status,     \* _status of the worker
    window,     \* doBefore has not passed yet
    run,        \* run[r]: where each processJobs call is
    removals,   \* history: removals[s] is how many merges of a REMOVE of s have ended
    done,       \* history: jobs that have been taken
    redone,     \* history: jobs that have been taken again
    unfit,      \* history: messages that validation had reason to refuse, signer or not
    crashes

queueVars == <<puts, jobs, emits, late, status, window, run, done, redone, removals>>
jobVars == <<msgs, unfit, queueVars>>
vars == <<eventVars, jobVars, crashes>>

NoRun == [pc |-> "idle", job |-> None, todo |-> {}]

By(s) == {m \in msgs : m.signer = s}

Added == {e \in Events : e.type = "ADD"}

\* The last ADD of a signer, where all that is stored are ADDs.
LatestAdd(a, s) ==
    LET mine == {e \in stored : e.signer = s}
    IN  IF mine = {} THEN a = None ELSE a \in mine /\ \A e \in mine : ~Before(a, e)

\* A new hub, or one that knows every signer and holds their messages or not.
Init ==
    /\ stored \in {{}, Added} /\ offered = stored /\ overlapped = {}
    /\ index \in [Signers -> stored \cup {None}]
    /\ \A s \in Signers : LatestAdd(index[s], s)
    /\ cache \in {{}, {s \in Signers : index[s] # None}}
    /\ merger = [p \in Mergers |-> NoMerge]
    /\ lookup = [v \in Lookups |-> NoLookup]
    /\ msgs \in {{}, {m \in Messages : index[m.signer] # None}}
    /\ puts = {} /\ jobs = {} /\ emits = {} /\ late = {}
    /\ status = "waiting" /\ window = FALSE
    /\ run = [r \in Runs |-> NoRun]
    /\ removals = [s \in Signers |-> 0]
    /\ done = {} /\ redone = {} /\ unfit = {}
    /\ crashes = 0

-----------------------------------------------------------------------------
\* Mutant: every signer event enqueues a job.
enqueue_always(p) ==
    LET s == merger[p].event.signer
    IN  /\ CommitEvent(p)
        /\ removals' = [removals EXCEPT ![s] = @ + 1]
        /\ puts' = puts \cup {<<s, removals[s] + 1>>}
        /\ UNCHANGED <<msgs, unfit, jobs, emits, late, status, window, run, done, redone, crashes>>

\* handleMergeOnChainEvent on the event of the commit: a removal's job is dated
\* now and its write begins.
CommitAndEnqueue(p) ==
    LET s == merger[p].event.signer
        job == <<s, removals[s] + 1>>
    IN  /\ CommitEvent(p)
        /\ \/ /\ merger[p].event.type # "REMOVE"
              /\ UNCHANGED <<puts, late, removals>>
           \/ /\ merger[p].event.type = "REMOVE"
              /\ removals' = [removals EXCEPT ![s] = @ + 1]
              /\ puts' = puts \cup {job}
              /\ late' = IF status = "working" /\ ~window THEN late \cup {job} ELSE late
        /\ UNCHANGED <<msgs, unfit, jobs, emits, status, window, run, done, redone, crashes>>

\* enqueueJob: the write, and then the event.
PutJob(j) ==
    /\ j \in puts
    /\ puts' = puts \ {j}
    /\ jobs' = jobs \cup {j}
    /\ emits' = emits \cup {j}
    /\ UNCHANGED <<eventVars, msgs, unfit, late, status, window, run, done, redone, removals, crashes>>

\* Calls of processJobs are alike: a new one takes the first free slot.
FreeRun(r) == run[r].pc = "idle" /\ r = CHOOSE q \in Runs : run[q].pc = "idle"

\* Mutant: processJobs does not look at _status.
process_jobs_anyway(j, r) ==
    /\ j \in emits
    /\ emits' = emits \ {j}
    /\ FreeRun(r)
    /\ status' = "working" /\ window' = TRUE /\ late' = {}
    /\ run' = [run EXCEPT ![r].pc = "pop"]
    /\ UNCHANGED <<eventVars, msgs, unfit, puts, jobs, done, redone, removals, crashes>>

\* The listener calls processJobs, which gives up if the worker is busy.
EmitEnqueueJob(j, r) ==
    /\ j \in emits
    /\ emits' = emits \ {j}
    /\ \/ /\ status = "working"
          /\ UNCHANGED <<late, status, window, run>>
       \/ /\ status = "waiting"
          /\ FreeRun(r)
          /\ status' = "working" /\ window' = TRUE /\ late' = {}
          /\ run' = [run EXCEPT ![r].pc = "pop"]
    /\ UNCHANGED <<eventVars, msgs, unfit, puts, jobs, done, redone, removals, crashes>>

\* 500 ms after its start the worker no longer sees new jobs.
CloseWindow ==
    /\ window
    /\ window' = FALSE
    /\ UNCHANGED <<eventVars, msgs, unfit, puts, jobs, emits, late, status, run, done, redone, removals, crashes>>

\* popNextJob reads the first job ...
PopRead(r) ==
    LET due == jobs \ late
    IN  /\ run[r].pc = "pop"
        /\ \/ due = {} /\ run' = [run EXCEPT ![r].pc = "end"]
           \/ \E j \in due : run' = [run EXCEPT ![r].pc = "delete", ![r].job = j]
        /\ UNCHANGED <<eventVars, msgs, unfit, puts, jobs, emits, late, status, window, done, redone, removals,
                       crashes>>

\* ... deletes it, and only then is it done.
PopDelete(r) ==
    LET j == run[r].job
    IN  /\ run[r].pc = "delete"
        /\ jobs' = jobs \ {j}
        /\ done' = done \cup {j}
        /\ redone' = redone \cup (done \cap {j})
        /\ run' = [run EXCEPT ![r].pc = "revoke", ![r].todo = By(j[1])]
        /\ UNCHANGED <<eventVars, msgs, unfit, puts, emits, late, status, window, removals, crashes>>

\* revokeMessagesBySigner, one message at a time; then the next job.
RevokeNext(r) ==
    /\ run[r].pc = "revoke"
    /\ \/ /\ run[r].todo = {}
          /\ run' = [run EXCEPT ![r] = [NoRun EXCEPT !.pc = "pop"]]
          /\ UNCHANGED msgs
       \/ \E m \in run[r].todo :
             /\ msgs' = msgs \ {m}
             /\ run' = [run EXCEPT ![r].todo = @ \ {m}]
    /\ UNCHANGED <<eventVars, unfit, puts, jobs, emits, late, status, window, done, redone, removals, crashes>>

\* Mutant: the worker is left in a status nobody tests for.
end_run_done(r) ==
    /\ run[r].pc = "end"
    /\ run' = [run EXCEPT ![r] = NoRun]
    /\ status' = "done" /\ window' = FALSE
    /\ UNCHANGED <<eventVars, msgs, unfit, puts, jobs, emits, late, done, redone, removals, crashes>>

EndRun(r) ==
    /\ run[r].pc = "end"
    /\ run' = [run EXCEPT ![r] = NoRun]
    /\ status' = "waiting" /\ window' = FALSE
    /\ UNCHANGED <<eventVars, msgs, unfit, puts, jobs, emits, late, done, redone, removals, crashes>>

-----------------------------------------------------------------------------
\* The lookup was that of validateMessage, and the message is merged.
MergeMessage(v, m) ==
    /\ m.signer = lookup[v].signer
    /\ EndLookup(v)
    /\ msgs' = msgs \cup {m}
    /\ UNCHANGED <<unfit, queueVars, crashes>>

\* A name or an address moves on, and validation refuses the message for it.
Invalidate(m) ==
    /\ m \in Named \ unfit
    /\ unfit' = unfit \cup {m}
    /\ UNCHANGED <<eventVars, msgs, queueVars, crashes>>

\* handleMergeUsernameProofEvent: the user data of a name's last owner is revoked.
RevokeName(m) ==
    /\ m \in msgs \cap unfit
    /\ msgs' = msgs \ {m}
    /\ UNCHANGED <<eventVars, unfit, queueVars, crashes>>

\* Mutant: the full scan passes over the messages of inactive signers.
validate_active_only(m) ==
    /\ m \in msgs
    /\ IsActive(index[m.signer])
    /\ UNCHANGED vars

\* validateOrRevokeMessage in the full scan or a username scan, its lookup in one step:
\* it fails for the signer or, before or after the signer is looked up, for another
\* reason that the message has had; but that may have passed, or the network fails.
ValidateOrRevoke(m) ==
    LET s == m.signer
        active == s \in cache \/ IsActive(index[s])
    IN  /\ m \in msgs
        /\ \/ /\ ~active \/ m \in unfit
              /\ msgs' = msgs \ {m}
              /\ UNCHANGED cache
           \/ /\ active
              /\ cache' = cache \cup {s}
              /\ msgs' \in {msgs, msgs \ (unfit \cap {m})}
        /\ UNCHANGED <<stored, index, merger, lookup, offered, overlapped>>
        /\ UNCHANGED <<unfit, queueVars, crashes>>

\* The worker only listens for new jobs after a restart.
Crash ==
    /\ crashes < MaxCrashes
    /\ crashes' = crashes + 1
    /\ cache' = {}
    /\ merger' = [p \in Mergers |-> NoMerge]
    /\ lookup' = [v \in Lookups |-> NoLookup]
    /\ puts' = {} /\ emits' = {} /\ late' = {}
    /\ status' = "waiting" /\ window' = FALSE
    /\ run' = [r \in Runs |-> NoRun]
    /\ UNCHANGED <<stored, index, offered, overlapped, msgs, unfit, jobs, done, redone, removals>>

-----------------------------------------------------------------------------
EventStep ==
    /\ \/ \E p \in Mergers : HandleSignerEvent(p) \/ \E e \in Events : StartEvent(p, e)
       \/ \E v \in Lookups : \/ ReadSigner(v) \/ CacheSigner(v)
                             \/ \E s \in Signers : StartLookup(v, s)
       \/ \E s \in Signers : Evict(s)
    /\ UNCHANGED <<jobVars, crashes>>

EnqueueStep ==
    \/ \E p \in Mergers : CommitAndEnqueue(p)
    \/ \E j \in puts : PutJob(j)
    \/ \E j \in emits, r \in Runs : EmitEnqueueJob(j, r)

RunStep(r) == PopRead(r) \/ PopDelete(r) \/ RevokeNext(r) \/ EndRun(r)

Next ==
    \/ EventStep \/ EnqueueStep \/ CloseWindow \/ Crash
    \/ \E r \in Runs : RunStep(r)
    \/ \E v \in Lookups, m \in Messages : MergeMessage(v, m)
    \/ \E m \in Messages : Invalidate(m) \/ RevokeName(m) \/ ValidateOrRevoke(m)

Spec == Init /\ [][Next]_vars

\* The full scan comes round, whatever becomes of the revoke jobs.
ScanSpec == Spec /\ \A m \in Messages : WF_vars(ValidateOrRevoke(m))

\* The node event loop also finishes what it has begun.
FairSpec ==
    /\ ScanSpec
    /\ WF_vars(EnqueueStep)
    /\ \A r \in Runs : WF_vars(RunStep(r))

-----------------------------------------------------------------------------
Jobs == Signers \X (Nat \ {0})

TypeOK ==
    /\ EventsTypeOK
    /\ msgs \subseteq Messages /\ unfit \subseteq Named
    /\ puts \cup jobs \cup emits \cup late \cup done \subseteq Jobs
    /\ status \in {"waiting", "working"}
    /\ \A r \in Runs : run[r].todo \subseteq Messages
    /\ removals \in [Signers -> Nat]

\* "Delete job from rocksdb to prevent it from being done multiple times": whatever
\* calls of processJobs overlap, the job of one merge of a removal is taken once.
JobsDoneOnce == redone = {}

\* A message is revoked for a reason: its signer was removed on chain, or validation
\* had another reason to refuse it.  Two merges of the signer at once are exempt: a
\* reset may then leave the index without the ADD that made it active.
RevokesForAReason ==
    [][\A m \in msgs \ msgs' :
          \/ \E e \in stored : e.signer = m.signer /\ e.type = "REMOVE"
          \/ m \in unfit
          \/ m.signer \in overlapped]_vars

Removed(s) == index[s] # None /\ index[s].type = "REMOVE"

\* Nothing but the merge of a reset undoes a removal: an ADD that arrives late, from a
\* retry or another source, never makes a removed signer active again, unless it is
\* merged at the same time as another event of the signer.
RemovalIsFinal ==
    [][\A s \in Signers \ overlapped :
          Removed(s) => \/ Removed(s)'
                        \/ \E e \in stored' \ stored : e.signer = s /\ e.type = "ADMIN_RESET"]_vars

\* No removal is forgotten but by a crash: the job of every merged removal is being
\* written, stored, or was taken, however the pops and the writes of jobs overlap.
EveryRemovalHasJob ==
    crashes = 0 =>
        /\ \A e \in stored : e.type = "REMOVE" => removals[e.signer] > 0
        /\ \A s \in Signers : \A n \in 1..removals[s] : <<s, n>> \in puts \cup jobs \cup done

\* The messages of a removed signer are revoked in the end: the monthly scan is
\* there "to make sure we don't miss anything".
EventuallyRevoked ==
    \A m \in Messages : (m \in msgs /\ Removed(m.signer)) ~> m \notin msgs

\* Nothing but a cached signer keeps a removed signer's message: not a job lost in
\* a crash, not a job the busy worker was not told of, not a merge that was
\* validated before the removal.
RevokedUnlessCached ==
    \A m \in Messages :
        (m \in msgs /\ Removed(m.signer)) ~> (m \notin msgs \/ m.signer \in cache)
===============================================================================
