-------------------------- MODULE ChainWatcherProofs --------------------------
(***************************************************************************)
(* Proofs about the L2 events provider: types, and that no event of the    *)
(* chain is skipped, for any chain of blocks, any contracts and fids, any  *)
(* chunk size and any number of retries under way and of faults.           *)
(***************************************************************************)
EXTENDS ChainWatcher, WellFoundedInduction, TLAPS

-----------------------------------------------------------------------------
(* The inductive invariant                                                 *)

Blocks == {BlockOf[e] : e \in Events}

SeenBlocks == {BlockOf[e] : e \in Visible}

Tasks == [kind : {"none", "history", "newBlock", "block", "fid"},
          pc : {"idle", "fetch", "cache", "submit", "read", "put"},
          from : Int, to : Nat, size : Int, run : Nat, left : Seq(Contracts),
          wanted : SUBSET Events, todo : SUBSET Nat, now : SUBSET Events, high : Nat]

\* Where a writer is: it has events in hand while it caches what a query returned or
\* submits a block, and the block it will record as the last one written is one it took
\* from the cache.
TaskInv(t) ==
    /\ t \in Tasks
    /\ t.todo \subseteq SeenBlocks /\ t.now \subseteq Visible
    /\ t.pc = "fetch" => t.left # <<>>
    /\ t.pc \in {"cache", "submit"} <=> t.now # {}
    /\ t.pc = "cache" => t.high = 0
    /\ t.pc \in {"submit", "read", "put"} => t.high \in SeenBlocks
    /\ t.kind = "block" => t.from \in Blocks

\* The history sync comes before all other writers.
PhaseInv ==
    /\ phase \in {"down", "connect", "history", "live"}
    /\ lastBlock \in Nat /\ (phase # "live" => lastBlock = 0)
    /\ phase = "down" => unseen = {} /\ watching = {}
    /\ phase \in {"down", "connect"} => task["main"] = NoTask
    /\ phase # "live" => \A r \in Retriers : task[r] = NoTask
    /\ phase = "history" <=> task["main"].kind = "history"
    /\ task["main"].kind = "history" => task["main"].to <= head /\ task["main"].wanted = Events
    /\ \A r \in Retriers : task[r].kind # "history"

Shape ==
    /\ TypeOK
    /\ lastL2Block \in {0} \cup SeenBlocks
    /\ task \in [Writers -> Tasks]
    /\ \A w \in Writers : TaskInv(task[w])
    /\ PhaseInv

\* An event the history sync t has still to read.
Unread(t, e) ==
    /\ BlockOf[e] <= t.to
    /\ IF t.pc \in {"fetch", "cache"}
       THEN /\ nextFromBlock(t) <= BlockOf[e]
            /\ nextToBlock(t) < BlockOf[e] \/ ContractOf[e] \in Range(t.left)
       ELSE nextToBlock(t) < BlockOf[e]

\* An event the next history sync, or the current one, will read.
Ahead(e) ==
    \/ phase \in {"down", "connect"} /\ lastSyncedBlock <= BlockOf[e]
    \/ phase = "history" /\ Unread(task["main"], e)

Accounted(e) == e \in store \cup lost \cup unseen \cup cache \cup InHand

NoGap == \A e \in Visible : Accounted(e) \/ Ahead(e)

-----------------------------------------------------------------------------
(* Lemmas about the operators                                              *)

\* A set of natural numbers that is not empty has a least element.
LEMMA NatHasLeast ==
    ASSUME NEW T \in SUBSET Nat, T # {}
    PROVE  \E x \in T : \A y \in T : x <= y
<1> DEFINE R == {ss \in Nat \X Nat : ss[1] < ss[2]}
<1>1. IsWellFoundedOn(R, Nat)
  BY NatLessThanWellFounded, Zenon DEF OpToRel
<1> HIDE DEF R
<1>2. PICK x \in T : \A y \in T : ~ (<<y, x>> \in R)
  BY <1>1, WFMin
<1>3. ASSUME NEW y \in T PROVE x <= y
  <2>1. ~(<<y, x>> \in R) /\ x \in Nat /\ y \in Nat
    BY <1>2
  <2>2. ~(y < x)
    BY <2>1 DEF R
  <2>3. QED BY <2>1, <2>2
<1>4. QED BY <1>3

LEMMA BlockType ==
    ASSUME NEW b \in Blocks
    PROVE  b \in FirstBlock + 1..LastBlock /\ b \in FirstBlock..LastBlock /\ b \in Nat /\ b > 0
<1>1. b \in FirstBlock + 1..LastBlock
  BY WatcherAssumption DEF Blocks
<1>2. FirstBlock \in Nat /\ FirstBlock > 0 /\ LastBlock \in Nat
  BY WatcherAssumption
<1>3. QED BY <1>1, <1>2

\* The places of blocks in the order of their strings.
LEMMA RankType ==
    ASSUME NEW b \in Blocks
    PROVE  StringRank[b] \in Nat /\ StringRank[b] <= LastBlock
<1>1. StringRank[b] \in 0..LastBlock /\ LastBlock \in Nat
  BY BlockType, WatcherAssumption
<1>2. QED BY <1>1

\* The loop over the blocks has a first block, and one that it leaves last.
LEMMA FirstInStringOrder ==
    ASSUME NEW S \in SUBSET Blocks, S # {}
    PROVE  \E b \in S : \A c \in S : InStringOrder(b, c)
<1> DEFINE Ranks == {StringRank[b] : b \in S}
<1>1. Ranks \in SUBSET Nat /\ Ranks # {}
  BY RankType
<1>2. PICK r \in Ranks : \A q \in Ranks : r <= q
  BY <1>1, NatHasLeast
<1>3. QED BY <1>2 DEF InStringOrder

LEMMA LastInStringOrder ==
    ASSUME NEW S \in SUBSET Blocks, S # {}
    PROVE  \E b \in S : \A c \in S : InStringOrder(c, b)
<1> DEFINE Ranks == {LastBlock - StringRank[b] : b \in S}
<1>1. \A b \in S : StringRank[b] \in Nat /\ StringRank[b] <= LastBlock /\ LastBlock \in Nat
  BY RankType, WatcherAssumption
<1>2. Ranks \in SUBSET Nat /\ Ranks # {}
  BY <1>1
<1>3. PICK r \in Ranks : \A q \in Ranks : r <= q
  BY <1>2, NatHasLeast
<1>4. PICK b \in S : r = LastBlock - StringRank[b]
  BY <1>3
<1>5. ASSUME NEW c \in S PROVE InStringOrder(c, b)
  <2>1. LastBlock - StringRank[b] <= LastBlock - StringRank[c]
    BY <1>3, <1>4
  <2>2. StringRank[c] <= StringRank[b]
    BY <1>1, <2>1
  <2>3. QED BY <2>2 DEF InStringOrder
<1>6. QED BY <1>5

\* The end of one run is where the next one begins.
LEMMA RunsMeet ==
    ASSUME NEW r \in Nat, NEW s \in Int
    PROVE  r * s \in Int /\ (r + 1) * s = r * s + s
  OBVIOUS

\* A query takes the contracts in turn.
LEMMA RangeOfTail ==
    ASSUME NEW C, NEW s \in Seq(C), s # <<>>
    PROVE  /\ Tail(s) \in Seq(C)
           /\ \A c \in Range(s) : c = Head(s) \/ c \in Range(Tail(s))
<1>1. Tail(s) \in Seq(C) /\ Len(s) \in Nat /\ Len(s) > 0
  OBVIOUS
<1>2. ASSUME NEW i \in 1..Len(s) PROVE s[i] = Head(s) \/ s[i] \in Range(Tail(s))
  <2>1. CASE i = 1
    BY <2>1
  <2>2. CASE i > 1
    <3>1. i - 1 \in 1..Len(Tail(s)) /\ Tail(s)[i - 1] = s[i]
      BY <1>1, <2>2
    <3>2. i - 1 \in DOMAIN Tail(s)
      BY <1>1, <3>1
    <3>3. QED BY <3>1, <3>2 DEF Range
  <2>3. QED BY <2>1, <2>2
<1>3. DOMAIN s = 1..Len(s)
  OBVIOUS
<1>4. QED BY <1>1, <1>2, <1>3 DEF Range

-----------------------------------------------------------------------------
(* What the steps of a writer do                                           *)

\* n is still in the run of queries, or the new block, that t is in.
SameRun(t, n) ==
    /\ n.kind = t.kind /\ n.from = t.from /\ n.to = t.to /\ n.size = t.size
    /\ n.run = t.run /\ n.wanted = t.wanted

\* The state of the loop over the blocks, from one await to the next.
LEMMA NextBlockEffect ==
    ASSUME NEW t \in Tasks, NEW cached \in SUBSET Visible, NEW todo \in SUBSET SeenBlocks,
           t.high \in {0} \cup SeenBlocks,
           t.kind = "block" => t.from \in Blocks
    PROVE  LET n == NextBlock(t, cached, todo)
           IN  /\ n.high # 0 => TaskInv(n)
               /\ n \in Tasks /\ SameRun(t, n)
               /\ n.now \subseteq cached
               /\ n.pc \in {"submit", "read"}
               /\ n.high = 0 => n.now = {} /\ n.pc = "read"
               /\ n.todo \subseteq todo
<1> DEFINE here == {b \in todo : \E e \in cached : BlockOf[e] = b}
           n == NextBlock(t, cached, todo)
<1>1. SeenBlocks \subseteq Blocks /\ \A b \in SeenBlocks : b \in Nat /\ b # 0
  BY BlockType DEF SeenBlocks, Blocks, Visible
<1>2. CASE here = {}
  <2> DEFINE h == IF todo = {} THEN t.high ELSE CHOOSE b \in todo : \A c \in todo : InStringOrder(c, b)
  <2>1. h \in {0} \cup SeenBlocks
    <3>1. CASE todo = {}
      BY <3>1
    <3>2. CASE todo # {}
      <4>1. \E b \in todo : \A c \in todo : InStringOrder(c, b)
        BY <1>1, <3>2, LastInStringOrder
      <4>2. h \in todo
        BY <3>2, <4>1
      <4>3. QED BY <4>2
    <3>3. QED BY <3>1, <3>2
  <2>2. n = [t EXCEPT !.pc = "read", !.now = {}, !.todo = {}, !.high = h]
    BY <1>2 DEF NextBlock
  <2> HIDE DEF h, n
  <2>3. /\ n \in Tasks /\ n.pc = "read" /\ n.now = {} /\ n.todo = {} /\ n.high = h
        /\ SameRun(t, n)
    <3>1. h \in Nat
      BY <1>1, <2>1
    <3>2. QED BY <2>2, <3>1 DEF Tasks, SameRun
  <2>4. n.high # 0 => TaskInv(n)
    BY <2>1, <2>3 DEF TaskInv, SameRun
  <2>5. QED BY <2>3, <2>4 DEF n
<1>3. CASE here # {}
  <2> DEFINE b == CHOOSE c \in here : \A d \in here : InStringOrder(c, d)
             rest == {c \in todo : ~InStringOrder(c, b)}
             taken == {e \in cached : BlockOf[e] = b}
  <2>1. b \in here
    <3>1. here \in SUBSET Blocks
      BY <1>1
    <3>2. \E c \in here : \A d \in here : InStringOrder(c, d)
      BY <1>3, <3>1, FirstInStringOrder
    <3>3. QED BY <3>2
  <2>2. n = [t EXCEPT !.pc = "submit", !.now = taken, !.todo = rest, !.high = b]
    BY <1>3 DEF NextBlock
  <2>3. /\ b \in SeenBlocks /\ taken # {} /\ taken \subseteq cached /\ rest \subseteq todo
        /\ taken \subseteq Events /\ rest \subseteq Nat /\ b \in Nat /\ b # 0
    BY <1>1, <2>1 DEF Visible
  <2> HIDE DEF b, taken, rest, n
  <2>4. /\ n \in Tasks /\ n.pc = "submit" /\ n.now = taken /\ n.todo = rest /\ n.high = b
        /\ SameRun(t, n)
    BY <2>2, <2>3 DEF Tasks, SameRun
  <2>5. TaskInv(n)
    BY <2>3, <2>4 DEF TaskInv, SameRun
  <2>6. QED BY <2>3, <2>4, <2>5 DEF n
<1>4. QED BY <1>2, <1>3

\* How writer w goes on from the run of t: in the same run, with the next one, or not at all.
Continues(w, t, n) ==
    /\ task' = [task EXCEPT ![w] = n]
    /\ n \in Tasks /\ TaskInv(n)
    /\ \/ /\ SameRun(t, n) /\ n.pc \in {"submit", "read", "put"}
          /\ UNCHANGED <<phase, lastBlock>>
       \/ /\ t.kind # "newBlock" /\ t.from + (t.run + 1) * t.size < t.to
          /\ n.pc = "fetch" /\ n.run = t.run + 1 /\ n.left = ContractOrder
          /\ n.kind = t.kind /\ n.from = t.from /\ n.to = t.to /\ n.size = t.size /\ n.wanted = t.wanted
          /\ UNCHANGED <<phase, lastBlock>>
       \/ /\ t.kind = "newBlock" \/ t.to <= t.from + (t.run + 1) * t.size
          /\ n = NoTask
          /\ phase' = IF t.kind = "history" THEN "live" ELSE phase
          /\ lastBlock' = IF t.kind = "newBlock" THEN t.to ELSE lastBlock

LEMMA NoTaskInv == NoTask \in Tasks /\ TaskInv(NoTask)
  BY DEF NoTask, Tasks, TaskInv

LEMMA FinishEffect ==
    ASSUME NEW w \in Writers, NEW STATE t, t \in Tasks, t.now = {}, t.todo \subseteq SeenBlocks,
           t.kind = "block" => t.from \in Blocks,
           Finish(w, t)
    PROVE  \E n \in Tasks : Continues(w, t, n) /\ n.now = {}
<1> DEFINE more == t.kind # "newBlock" /\ t.from + (t.run + 1) * t.size < t.to
           n == [t EXCEPT !.pc = "fetch", !.run = @ + 1, !.left = ContractOrder]
<1>0. t.from + (t.run + 1) * t.size \in Int /\ t.to \in Int /\ t.run \in Nat
  <2>1. t.from \in Int /\ t.to \in Int /\ t.run \in Nat /\ t.size \in Int
    BY DEF Tasks
  <2>2. t.run + 1 \in Nat
    BY <2>1
  <2>3. (t.run + 1) * t.size \in Int
    BY <2>1, <2>2, RunsMeet
  <2>4. QED BY <2>1, <2>3
<1>1. CASE more
  <2>1. task' = [task EXCEPT ![w] = n] /\ UNCHANGED <<phase, lastBlock>>
    BY <1>1 DEF Finish
  <2>2. /\ n \in Tasks /\ n.pc = "fetch" /\ n.run = t.run + 1 /\ n.left = ContractOrder
        /\ n.kind = t.kind /\ n.from = t.from /\ n.to = t.to /\ n.size = t.size /\ n.wanted = t.wanted
        /\ n.now = {} /\ n.todo = t.todo
    <3>1. t.run + 1 \in Nat /\ ContractOrder \in Seq(Contracts)
      BY <1>0, WatcherAssumption
    <3>2. QED BY <3>1 DEF Tasks
  <2> HIDE DEF n
  <2>3. TaskInv(n)
    BY <2>2, WatcherAssumption DEF TaskInv
  <2>4. Continues(w, t, n)
    BY <1>1, <2>1, <2>2, <2>3 DEF Continues
  <2>5. QED BY <2>2, <2>4
<1>2. CASE ~more
  <2>1. /\ task' = [task EXCEPT ![w] = NoTask]
        /\ phase' = IF t.kind = "history" THEN "live" ELSE phase
        /\ lastBlock' = IF t.kind = "newBlock" THEN t.to ELSE lastBlock
    BY <1>2 DEF Finish
  <2>2. t.kind = "newBlock" \/ t.to <= t.from + (t.run + 1) * t.size
    BY <1>0, <1>2
  <2>3. Continues(w, t, NoTask)
    BY <2>1, <2>2, NoTaskInv DEF Continues
  <2>4. QED BY <2>3, NoTaskInv DEF NoTask
<1>3. QED BY <1>1, <1>2

LEMMA ContinuesSame ==
    ASSUME NEW w, NEW STATE t, NEW STATE u, NEW STATE n, SameRun(t, u), Continues(w, u, n)
    PROVE  Continues(w, t, n)
  BY DEF Continues, SameRun

LEMMA GoesEffect ==
    ASSUME NEW w \in Writers, NEW STATE t, t \in Tasks, NEW STATE cached, cached \in SUBSET Visible,
           NEW STATE todo, todo \in SUBSET SeenBlocks, NEW STATE done,
           t.high \in {0} \cup SeenBlocks,
           t.kind = "block" => t.from \in Blocks,
           Goes(w, t, cached, todo, done)
    PROVE  \E n \in Tasks : /\ Continues(w, t, n)
                            /\ n.now \subseteq cached /\ cache' = cached \ n.now
                            /\ dedup' \subseteq dedup
<1> DEFINE next == NextBlock(t, cached, todo)
<1>1. /\ next.high # 0 => TaskInv(next)
      /\ next \in Tasks /\ SameRun(t, next)
      /\ next.now \subseteq cached
      /\ next.pc \in {"submit", "read"}
      /\ next.high = 0 => next.now = {} /\ next.pc = "read"
      /\ next.todo \subseteq todo
  BY NextBlockEffect
<1>2. /\ IF next.pc = "read" /\ next.high = 0 THEN Finish(w, next)
         ELSE task' = [task EXCEPT ![w] = next] /\ UNCHANGED <<phase, lastBlock>>
      /\ cache' = cached \ next.now
      /\ dedup' \subseteq dedup
  BY DEF Goes
<1> HIDE DEF next
<1>3. CASE next.high = 0
  <2>1. Finish(w, next) /\ next.now = {}
    BY <1>1, <1>2, <1>3
  <2>2. PICK n \in Tasks : Continues(w, next, n) /\ n.now = {}
    BY <1>1, <2>1, FinishEffect DEF SameRun
  <2>3. Continues(w, t, n)
    BY <1>1, <2>2, ContinuesSame
  <2>4. QED BY <1>2, <2>1, <2>2, <2>3
<1>4. CASE next.high # 0
  <2>1. Continues(w, t, next)
    BY <1>1, <1>2, <1>4 DEF Continues
  <2>2. QED BY <1>1, <1>2, <2>1
<1>5. QED BY <1>3, <1>4

\* Writer w is in the run of t, or begins with a new block.
Writes(w, t) ==
    \/ task[w].pc # "idle" /\ SameRun(task[w], t)
    \/ w = "main" /\ phase = "live" /\ t.kind = "newBlock"

\* What a step of writer w may do to the tasks and the phases.
Moves(w, t, n) ==
    /\ task' = [task EXCEPT ![w] = n]
    /\ n \in Tasks /\ TaskInv(n)
    /\ \/ /\ n.kind = t.kind /\ n.to = t.to /\ n.wanted = t.wanted
          /\ UNCHANGED <<phase, lastBlock>>
       \/ /\ n = NoTask
          /\ phase' = IF t.kind = "history" THEN "live" ELSE phase
          /\ lastBlock' = IF t.kind = "newBlock" THEN t.to ELSE lastBlock

\* What is said of a task stays true while the chain grows.
LEMMA TaskInvStays ==
    ASSUME NEW x, TaskInv(x), head \in Int, head' \in Int, head <= head'
    PROVE  TaskInv(x)'
<1>0. \A e \in Events : BlockOf[e] \in Int
  BY BlockType DEF Blocks
<1>1. Visible \subseteq Visible'
  BY <1>0 DEF Visible
<1>2. SeenBlocks \subseteq SeenBlocks'
  BY <1>1 DEF SeenBlocks
<1>3. QED BY <1>1, <1>2 DEF TaskInv

\* A writer that goes on leaves the tasks and the phases in order.
LEMMA WriterShape ==
    ASSUME Shape, NEW w \in Writers, NEW STATE t, NEW STATE n, n \in Tasks,
           Writes(w, t), Moves(w, t, n), t \in Tasks, UNCHANGED head
    PROVE  /\ task' \in [Writers -> Tasks]
           /\ \A v \in Writers : TaskInv(task[v])'
           /\ PhaseInv' /\ phase' # "down"
<1>1. task \in [Writers -> Tasks] /\ \A v \in Writers : TaskInv(task[v])
  BY DEF Shape
<1>2. /\ task' = [task EXCEPT ![w] = n] /\ n \in Tasks /\ TaskInv(n)
  BY DEF Moves
<1>3. task' \in [Writers -> Tasks]
  BY <1>1, <1>2
<1>4. ASSUME NEW v \in Writers PROVE TaskInv(task[v])'
  <2>1. PICK x : x = task'[v] /\ TaskInv(x)
    BY <1>1, <1>2
  <2>2. head \in Int /\ head <= head
    BY WatcherAssumption DEF Shape, TypeOK
  <2>3. TaskInv(x)'
    BY <2>1, <2>2, TaskInvStays
  <2>4. QED BY <2>1, <2>3
<1>5. /\ phase \in {"history", "live"}
      /\ phase = "history" => w = "main"
      /\ "main" \in Writers /\ (w = "main" \/ w \in Retriers)
      /\ "main" \notin Retriers /\ Retriers \subseteq Writers
  BY WatcherAssumption DEF Shape, PhaseInv, NoTask, Writers, Writes
<1>6. n.kind = t.kind \/ n = NoTask
  BY DEF Moves
<1>7. /\ t.kind = "history" <=> task[w].kind = "history"
      /\ t.kind = "history" => t.to = task[w].to /\ t.wanted = task[w].wanted
  BY DEF SameRun, Writes, Shape, PhaseInv
<1>8. lastBlock' \in Nat /\ (phase' # "live" => lastBlock' = 0)
  <2>1. t.to \in Nat
    BY DEF Tasks
  <2>2. t.kind = "newBlock" => phase' = "live"
    BY <1>5, <1>7 DEF Moves, Shape, PhaseInv
  <2>3. QED BY <2>1, <2>2 DEF Moves, Shape, PhaseInv
<1>9. CASE w = "main"
  <2>1. task'["main"] = n /\ \A r \in Retriers : task'[r] = task[r]
    BY <1>1, <1>2, <1>5, <1>9
  <2>2. phase = "history" <=> t.kind = "history"
    BY <1>7, <1>9 DEF Shape, PhaseInv
  <2>3. CASE n = NoTask
    <3>1. phase' = "live"
      BY <1>5, <2>2, <2>3 DEF Moves, NoTask
    <3>2. NoTask.kind = "none"
      BY DEF NoTask
    <3>3. QED BY <1>3, <1>4, <1>8, <2>1, <2>3, <3>1, <3>2 DEF Shape, PhaseInv
  <2>4. CASE n # NoTask
    <3>1. phase' = phase /\ n.kind = t.kind /\ n.to = t.to /\ n.wanted = t.wanted
      BY <2>4 DEF Moves
    <3>2. QED BY <1>3, <1>4, <1>5, <1>7, <1>8, <1>9, <2>1, <3>1 DEF Shape, PhaseInv
  <2>5. QED BY <2>3, <2>4
<1>10. CASE w \in Retriers
  <2>1. /\ task'["main"] = task["main"]
        /\ \A r \in Retriers : task'[r] \in {task[r], n}
    BY <1>1, <1>2, <1>5, <1>10
  <2>2. phase = "live" /\ t.kind # "history" /\ phase' = "live"
    BY <1>5, <1>7, <1>10 DEF Shape, PhaseInv, Moves
  <2>3. n.kind # "history"
    BY <1>6, <2>2 DEF NoTask
  <2>4. QED BY <1>3, <1>4, <1>8, <2>1, <2>2, <2>3 DEF Shape, PhaseInv
<1>11. QED BY <1>5, <1>9, <1>10

\* An event after the run of the history sync is read in a later run: the runs leave no gap.
LEMMA LaterRuns ==
    ASSUME Shape, NEW e \in Events, NEW STATE t, t \in Tasks, NEW STATE n, n \in Tasks,
           phase = "history", t.kind = "history",
           nextToBlock(t) < BlockOf[e], BlockOf[e] <= t.to,
           Continues("main", t, n)
    PROVE  Ahead(e)'
<1>0. /\ t.from \in Int /\ t.to \in Int /\ t.run \in Nat /\ t.size \in Int /\ BlockOf[e] \in Int
  BY BlockType DEF Tasks, Blocks
<1>1. t.run * t.size \in Int /\ (t.run + 1) * t.size = t.run * t.size + t.size
  BY <1>0, RunsMeet
<1>2. task'["main"] = n
  BY DEF Continues, Shape, Writers
<1>3. CASE SameRun(t, n) /\ n.pc \in {"submit", "read", "put"} /\ UNCHANGED <<phase, lastBlock>>
  <2>1. nextToBlock(n) = nextToBlock(t) /\ n.to = t.to
    BY <1>3 DEF nextToBlock, SameRun
  <2>2. Unread(n, e)
    BY <1>3, <2>1 DEF Unread
  <2>3. QED BY <1>2, <1>3, <2>2 DEF Ahead, Unread, nextFromBlock, nextToBlock
<1>4. CASE /\ t.from + (t.run + 1) * t.size < t.to
           /\ n.pc = "fetch" /\ n.run = t.run + 1 /\ n.left = ContractOrder
           /\ n.from = t.from /\ n.to = t.to /\ n.size = t.size
           /\ UNCHANGED <<phase, lastBlock>>
  <2>1. nextToBlock(t) = t.from + t.run * t.size + t.size
    BY <1>0, <1>1, <1>4 DEF nextToBlock
  <2>2. n.run > 0 /\ n.run * n.size = t.run * t.size + t.size
    BY <1>0, <1>1, <1>4
  <2>3. nextFromBlock(n) = t.from + (t.run * t.size + t.size) + 1
    BY <1>4, <2>2 DEF nextFromBlock
  <2>4. nextFromBlock(n) <= BlockOf[e]
    BY <1>0, <1>1, <2>1, <2>3
  <2>5. ContractOf[e] \in Range(n.left)
    BY <1>4, WatcherAssumption DEF Contracts
  <2>6. Unread(n, e)
    BY <1>4, <2>4, <2>5 DEF Unread
  <2>7. QED BY <1>2, <1>4, <2>6 DEF Ahead, Unread, nextFromBlock, nextToBlock
<1>5. CASE t.to <= t.from + (t.run + 1) * t.size
  <2>1. nextToBlock(t) = t.to
    BY <1>0, <1>1, <1>5 DEF nextToBlock
  <2>2. QED BY <1>0, <2>1
<1>6. QED BY <1>3, <1>4, <1>5 DEF Continues

\* What a writer takes from the cache it submits.
LEMMA WriterAccounts ==
    ASSUME Shape, NEW w \in Writers, NEW STATE n, NEW STATE cached, NEW e,
           task' = [task EXCEPT ![w] = n], cache \subseteq cached, cached \subseteq cache' \cup n.now,
           store \subseteq store', lost \subseteq lost' \cup store', UNCHANGED unseen,
           task[w].now \subseteq store' \cup lost' \cup cached \cup n.now,
           Accounted(e) \/ e \in cached \/ e \in lost' \cup store'
    PROVE  Accounted(e)'
<1>1. /\ task'[w] = n
      /\ \A v \in Writers : v # w => task'[v] = task[v]
  BY DEF Shape
<1>2. InHand \subseteq store' \cup lost' \cup cached \cup InHand' /\ n.now \subseteq InHand'
  BY <1>1 DEF InHand
<1>3. cached \subseteq cache' \cup InHand'
  BY <1>2
<1>4. QED BY <1>2, <1>3 DEF Accounted

-----------------------------------------------------------------------------
(* Every step keeps the invariant                                          *)

IInv == Shape /\ NoGap

\* What a step does to events that are stored or on their way.
Carries ==
    /\ store \subseteq store'
    /\ phase' # "down" => \A e \in Events : Accounted(e) => Accounted(e)'

LEMMA WriterInv ==
    ASSUME IInv, NEW w \in Writers, NEW STATE t, t \in Tasks, NEW STATE n, n \in Tasks, NEW STATE cached,
           Writes(w, t), Moves(w, t, n),
           cache \subseteq cached, cached \subseteq cache' \cup n.now, cache' \subseteq Visible,
           store \subseteq store', store' \subseteq Events, lost \subseteq lost' \cup store',
           UNCHANGED <<head, watching, unseen>>,
           task[w].now \subseteq store' \cup lost' \cup cached \cup n.now,
           lastL2Block' \in {0} \cup SeenBlocks,
           dedup' \cup stuck' \subseteq FirstBlock..LastBlock,
           \A e \in Visible :
               phase = "history" /\ w = "main" /\ Unread(task["main"], e) =>
                   e \in cached \cup lost' \cup store' \/ Ahead(e)'
    PROVE  IInv' /\ Carries
<1>1. Shape /\ NoGap
  BY DEF IInv
<1>2. Visible' = Visible /\ SeenBlocks' = SeenBlocks /\ SeenBlocks \subseteq Blocks
  BY DEF Visible, SeenBlocks, Blocks
<1>3. /\ task' \in [Writers -> Tasks]
      /\ \A v \in Writers : TaskInv(task[v])'
      /\ PhaseInv' /\ phase' # "down"
  BY <1>1, WriterShape
<1>4. TypeOK'
  BY <1>1, <1>2, <1>3 DEF Shape, TypeOK, Blocks
<1>5. Shape'
  BY <1>2, <1>3, <1>4 DEF Shape
<1>6. ASSUME NEW e \in Visible PROVE Accounted(e)' \/ Ahead(e)'
  <2>1. task' = [task EXCEPT ![w] = n]
    BY DEF Moves
  <2>2. CASE Accounted(e) \/ e \in cached \/ e \in lost' \cup store'
    BY <1>1, <2>1, <2>2, WriterAccounts
  <2>3. CASE Ahead(e)
    <3>1. phase = "history" /\ w = "main" /\ Unread(task["main"], e)
      BY <1>1, <2>3 DEF Ahead, Writes, Shape, PhaseInv, NoTask, Writers
    <3>2. QED BY <2>2, <3>1
  <2>4. QED BY <1>1, <2>2, <2>3 DEF NoGap
<1>7. ASSUME NEW e \in Events, Accounted(e) PROVE Accounted(e)'
  <2>1. task' = [task EXCEPT ![w] = n]
    BY DEF Moves
  <2>2. QED BY <1>1, <1>7, <2>1, WriterAccounts
<1>8. QED BY <1>2, <1>5, <1>6, <1>7 DEF IInv, NoGap, Carries

LEMMA ContinuesMoves ==
    ASSUME NEW w, NEW STATE t, NEW STATE n, Continues(w, t, n)
    PROVE  Moves(w, t, n)
  BY DEF Continues, Moves, SameRun

LEMMA SubmitInv ==
    ASSUME IInv, NEW w \in Writers, submitOnChainEvent(w) \/ SubmitFails(w)
    PROVE  IInv' /\ Carries
<1> DEFINE t == task[w]
<1>0. PICK e \in t.now :
        /\ Submitted(w, e) /\ UNCHANGED stuck
        /\ \/ store' = store \cup {e} /\ lost' = lost \ {e}
           \/ UNCHANGED store /\ lost' = lost \cup ({e} \ store)
  <2>1. CASE submitOnChainEvent(w)
    BY <2>1 DEF submitOnChainEvent
  <2>2. CASE SubmitFails(w)
    BY <2>2 DEF SubmitFails, Fault
  <2>3. QED BY <2>1, <2>2
<1>1. Shape /\ t \in Tasks /\ TaskInv(t) /\ t.pc = "submit"
  BY <1>0 DEF IInv, Shape, Submitted
<1>2. e \in t.now /\ t.now \subseteq Visible /\ t.now \subseteq Events
  BY <1>1 DEF TaskInv, Visible
<1>3. /\ UNCHANGED <<head, lastL2Block, watching, unseen, stuck>>
      /\ store \subseteq store' /\ store' \subseteq store \cup {e}
      /\ lost \subseteq lost' \cup store' /\ e \in store' \cup lost'
      /\ IF t.now = {e} THEN Goes(w, t, cache, t.todo, {t.high})
         ELSE task' = [task EXCEPT ![w].now = @ \ {e}] /\ UNCHANGED <<cache, dedup, phase, lastBlock>>
  BY <1>0 DEF Submitted
<1>4. /\ cache \subseteq Visible /\ store' \subseteq Events
      /\ lastL2Block \in {0} \cup SeenBlocks
      /\ dedup \cup stuck \subseteq FirstBlock..LastBlock
  BY <1>1, <1>2, <1>3 DEF Shape, TypeOK
<1>5. Writes(w, t) /\ SameRun(t, t)
  BY <1>1 DEF Writes, SameRun
<1>6. ASSUME NEW x \in Visible, Unread(t, x)
      PROVE  nextToBlock(t) < BlockOf[x] /\ BlockOf[x] <= t.to
  BY <1>1, <1>6 DEF Unread
<1>7. CASE t.now = {e}
  <2>1. t.high \in {0} \cup SeenBlocks /\ t.todo \in SUBSET SeenBlocks /\ (t.kind = "block" => t.from \in Blocks)
    BY <1>1 DEF TaskInv
  <2>2. PICK n \in Tasks : /\ Continues(w, t, n)
                           /\ n.now \subseteq cache /\ cache' = cache \ n.now
                           /\ dedup' \subseteq dedup
    BY <1>1, <1>3, <1>4, <1>7, <2>1, GoesEffect
  <2>3. ASSUME NEW x \in Visible, phase = "history", w = "main", Unread(task["main"], x)
        PROVE  Ahead(x)'
    <3>1. nextToBlock(t) < BlockOf[x] /\ BlockOf[x] <= t.to /\ t.kind = "history"
      BY <1>1, <1>6, <2>3 DEF Shape, PhaseInv
    <3>2. x \in Events
      BY DEF Visible
    <3>3. QED BY <1>1, <2>2, <2>3, <3>1, <3>2, LaterRuns
  <2>4. Moves(w, t, n)
    BY <2>2, ContinuesMoves
  <2>5. t.now \subseteq store' \cup lost' /\ dedup' \cup stuck' \subseteq FirstBlock..LastBlock
    BY <1>3, <1>4, <1>7, <2>2
  <2>6. QED
    BY <1>1, <1>3, <1>4, <1>5, <2>2, <2>3, <2>4, <2>5, WriterInv
<1>8. CASE t.now # {e}
  <2> DEFINE n == [t EXCEPT !.now = @ \ {e}]
  <2>1. task' = [task EXCEPT ![w] = n] /\ UNCHANGED <<cache, dedup, phase, lastBlock>>
    BY <1>3, <1>8
  <2>2. /\ n \in Tasks /\ SameRun(t, n) /\ n.now = t.now \ {e} /\ n.pc = t.pc
        /\ n.left = t.left /\ n.todo = t.todo /\ n.high = t.high
    BY <1>1 DEF Tasks, SameRun
  <2> HIDE DEF n
  <2>3. n.now # {}
    BY <1>2, <1>8, <2>2
  <2>4. TaskInv(n)
    BY <1>1, <1>2, <2>2, <2>3 DEF TaskInv, SameRun
  <2>5. Continues(w, t, n)
    BY <1>1, <2>1, <2>2, <2>4 DEF Continues
  <2>6. ASSUME NEW x \in Visible, phase = "history", w = "main", Unread(task["main"], x)
        PROVE  Ahead(x)'
    <3>1. nextToBlock(t) < BlockOf[x] /\ BlockOf[x] <= t.to /\ t.kind = "history"
      BY <1>1, <1>6, <2>6 DEF Shape, PhaseInv
    <3>2. x \in Events
      BY DEF Visible
    <3>3. QED BY <1>1, <2>2, <2>5, <2>6, <3>1, <3>2, LaterRuns
  <2>7. Moves(w, t, n)
    BY <2>5, ContinuesMoves
  <2>8. t.now \subseteq store' \cup lost' \cup n.now
    BY <1>3, <2>2
  <2>9. QED
    BY <1>1, <1>3, <1>4, <1>5, <2>1, <2>2, <2>6, <2>7, <2>8, WriterInv
<1>9. QED BY <1>7, <1>8

\* The events of a query are cached, or kept away: what the history sync was to read in this
\* run, and not after it, is of a contract that is still to be queried, or is accounted for.
StillToRead(t, x, K) ==
    /\ nextFromBlock(t) <= BlockOf[x] /\ BlockOf[x] <= t.to /\ t.kind = "history"
    /\ \/ nextToBlock(t) < BlockOf[x] \/ ContractOf[x] \in Range(t.left)
       \/ x \in K

LEMMA QueryDoneInv ==
    ASSUME IInv, NEW w \in Writers, NEW STATE t, t \in Tasks, NEW STATE cached, cached \in SUBSET Visible,
           QueryDone(w, t, cached), UNCHANGED <<head, store, lastL2Block, watching, unseen>>,
           task[w].pc \in {"fetch", "cache"}, SameRun(task[w], t),
           t.pc = "fetch", t.now = {}, t.todo = task[w].todo, t.high = 0,
           cache \subseteq cached, lost \subseteq lost', task[w].now \subseteq store' \cup lost' \cup cached,
           stuck' \subseteq FirstBlock..LastBlock,
           \A x \in Visible :
               phase = "history" /\ w = "main" /\ Unread(task["main"], x) =>
                   StillToRead(t, x, cached \cup lost' \cup store')
    PROVE  IInv' /\ Carries
<1>1. Shape /\ task[w] \in Tasks /\ TaskInv(task[w])
  BY DEF IInv, Shape
<1>2. /\ IF t.left = <<>> THEN Goes(w, t, cached, ConfirmedBlocks(cached, t.to), {})
         ELSE task' = [task EXCEPT ![w] = t] /\ cache' = cached /\ UNCHANGED <<dedup, phase, lastBlock>>
      /\ UNCHANGED <<head, store, lastL2Block, watching, unseen>>
  BY DEF QueryDone
<1>3. /\ store \subseteq Events /\ lastL2Block \in {0} \cup SeenBlocks
      /\ dedup \subseteq FirstBlock..LastBlock
  BY <1>1 DEF Shape, TypeOK
<1>4. Writes(w, t)
  BY <1>1 DEF Writes
<1>5. CASE t.left = <<>>
  <2> DEFINE todo == ConfirmedBlocks(cached, t.to)
  <2>1. todo \in SUBSET SeenBlocks
    BY DEF ConfirmedBlocks, SeenBlocks
  <2>2. t.kind = "block" => t.from \in Blocks
    BY <1>1 DEF TaskInv, SameRun
  <2>3. Goes(w, t, cached, todo, {})
    BY <1>2, <1>5
  <2> HIDE DEF todo
  <2>4. PICK n \in Tasks : /\ Continues(w, t, n)
                           /\ n.now \subseteq cached /\ cache' = cached \ n.now
                           /\ dedup' \subseteq dedup
    BY <2>1, <2>2, <2>3, GoesEffect
  <2>5. Moves(w, t, n)
    BY <2>4, ContinuesMoves
  <2>6. ASSUME NEW x \in Visible, phase = "history", w = "main", Unread(task["main"], x)
        PROVE  x \in cached \cup lost' \cup store' \/ Ahead(x)'
    <3>1. Range(t.left) = {}
      BY <1>5 DEF Range
    <3>2. /\ BlockOf[x] <= t.to /\ t.kind = "history"
          /\ nextToBlock(t) < BlockOf[x] \/ x \in cached \cup lost' \cup store'
      BY <2>6, <3>1 DEF StillToRead
    <3>3. CASE nextToBlock(t) < BlockOf[x]
      <4>1. x \in Events
        BY DEF Visible
      <4>2. Continues("main", t, n)
        BY <2>4, <2>6
      <4>3. QED BY <1>1, <2>6, <3>2, <3>3, <4>1, <4>2, LaterRuns
    <3>4. QED BY <3>2, <3>3
  <2>7. dedup' \cup stuck' \subseteq FirstBlock..LastBlock
    BY <1>3, <2>4
  <2>8. cached \subseteq cache' \cup n.now /\ cache' \subseteq Visible
    BY <2>4
  <2>9. QED
    BY <1>2, <1>3, <1>4, <2>4, <2>5, <2>6, <2>7, <2>8, WriterInv
<1>6. CASE t.left # <<>>
  <2>1. task' = [task EXCEPT ![w] = t] /\ cache' = cached /\ UNCHANGED <<dedup, phase, lastBlock>>
    BY <1>2, <1>6
  <2>2. TaskInv(t)
    BY <1>1, <1>6 DEF TaskInv, SameRun
  <2>3. Moves(w, t, t)
    BY <2>1, <2>2 DEF Moves
  <2>4. ASSUME NEW x \in Visible, phase = "history", w = "main", Unread(task["main"], x)
        PROVE  x \in cached \cup lost' \cup store' \/ Ahead(x)'
    <3>1. CASE x \notin cached \cup lost' \cup store'
      <4>1. Unread(t, x)
        BY <2>4, <3>1 DEF Unread, StillToRead
      <4>2. task'["main"] = t
        BY <1>1, <2>1, <2>4 DEF Shape
      <4>3. phase' = "history"
        BY <2>1, <2>4
      <4>4. QED BY <4>1, <4>2, <4>3 DEF Ahead, Unread, nextFromBlock, nextToBlock
    <3>2. QED BY <3>1
  <2>5. /\ dedup' \cup stuck' \subseteq FirstBlock..LastBlock
        /\ cached \subseteq cache' \cup t.now /\ cache' \subseteq Visible
    BY <1>3, <2>1
  <2>6. QED
    BY <1>2, <1>3, <1>4, <2>1, <2>3, <2>4, <2>5, WriterInv
<1>7. QED BY <1>5, <1>6

\* A query, whether it returns what it should or fails: what it should find is in hand or
\* accounted for.
LEMMA QueryInv ==
    ASSUME IInv, NEW w \in Writers, NEW STATE E, E \in SUBSET Visible, Queried(w, E),
           lost \subseteq lost', Found(task[w]) \subseteq E \cup lost' \cup store',
           stuck' \subseteq FirstBlock..LastBlock
    PROVE  IInv' /\ Carries
<1> DEFINE t == [task[w] EXCEPT !.left = Tail(@), !.high = 0]
           n == [t EXCEPT !.pc = "cache", !.now = E]
<1>1. Shape /\ task[w] \in Tasks /\ TaskInv(task[w]) /\ task[w].pc = "fetch"
  BY DEF IInv, Shape, Queried
<1>2. /\ IF E = {} THEN QueryDone(w, t, cache)
         ELSE task' = [task EXCEPT ![w] = n] /\ UNCHANGED <<cache, dedup, phase, lastBlock>>
      /\ UNCHANGED <<head, store, lastL2Block, watching, unseen>>
  BY DEF Queried
<1>3. /\ task[w].left \in Seq(Contracts) /\ task[w].left # <<>>
      /\ Tail(task[w].left) \in Seq(Contracts)
      /\ \A c \in Range(task[w].left) : c = Head(task[w].left) \/ c \in Range(Tail(task[w].left))
  <2>1. task[w].left \in Seq(Contracts) /\ task[w].left # <<>>
    BY <1>1 DEF Tasks, TaskInv
  <2>2. QED BY <2>1, RangeOfTail
<1>4. /\ t \in Tasks /\ SameRun(task[w], t) /\ t.left = Tail(task[w].left) /\ t.high = 0
      /\ t.pc = "fetch" /\ t.now = task[w].now /\ t.todo = task[w].todo
  BY <1>1, <1>3 DEF Tasks, SameRun
<1>5. E \in SUBSET Events
  BY DEF Visible
<1>6. /\ n \in Tasks /\ SameRun(task[w], n) /\ SameRun(t, n) /\ n.left = t.left /\ n.high = 0
      /\ n.pc = "cache" /\ n.now = E /\ n.todo = t.todo
  BY <1>4, <1>5 DEF Tasks, SameRun
<1> HIDE DEF t, n
<1>7. task[w].now = {} /\ cache \in SUBSET Visible
  BY <1>1 DEF TaskInv, Shape, TypeOK
<1>8. ASSUME NEW x \in Visible, phase = "history", w = "main", Unread(task["main"], x)
      PROVE  StillToRead(t, x, E \cup lost' \cup store')
  <2>0. /\ nextFromBlock(t) = nextFromBlock(task[w]) /\ nextToBlock(t) = nextToBlock(task[w])
        /\ t.to = task[w].to
    BY <1>4 DEF nextFromBlock, nextToBlock, SameRun
  <2>1. /\ nextFromBlock(t) <= BlockOf[x] /\ BlockOf[x] <= t.to
        /\ nextToBlock(t) < BlockOf[x] \/ ContractOf[x] \in Range(task[w].left)
    BY <1>1, <1>8, <2>0 DEF Unread
  <2>2. t.kind = "history" /\ task[w].wanted = Events
    BY <1>1, <1>4, <1>8 DEF Shape, PhaseInv, SameRun
  <2>3. CASE ContractOf[x] = Head(task[w].left) /\ ~(nextToBlock(t) < BlockOf[x])
    <3>1. nextToBlock(task[w]) \in Int /\ nextFromBlock(task[w]) \in Int /\ BlockOf[x] \in Int
      <4>1. /\ task[w].from \in Int /\ task[w].to \in Int /\ task[w].run \in Nat /\ task[w].size \in Int
            /\ task[w].run * task[w].size \in Int
        BY <1>1, RunsMeet DEF Tasks
      <4>2. BlockOf[x] \in Int
        BY BlockType DEF Blocks, Visible
      <4>3. QED BY <4>1, <4>2 DEF nextToBlock, nextFromBlock
    <3>2. BlockOf[x] \in nextFromBlock(task[w])..nextToBlock(task[w])
      BY <2>0, <2>1, <2>3, <3>1
    <3>3. x \in Found(task[w])
      BY <2>2, <2>3, <3>2 DEF Found, Visible
    <3>4. QED BY <2>1, <2>2, <3>3 DEF StillToRead
  <2>4. QED BY <1>3, <1>4, <2>1, <2>2, <2>3 DEF StillToRead
<1>9. CASE E = {}
  <2>1. QueryDone(w, t, cache)
    BY <1>2, <1>9
  <2>2. ASSUME NEW x \in Visible, phase = "history", w = "main", Unread(task["main"], x)
        PROVE  StillToRead(t, x, cache \cup lost' \cup store')
    BY <1>8, <1>9, <2>2 DEF StillToRead
  <2>3. task[w].now \subseteq store' \cup lost' \cup cache /\ cache \subseteq cache
    BY <1>7
  <2>4. t.now = {}
    BY <1>4, <1>7
  <2>5. QED BY <1>1, <1>2, <1>4, <1>7, <2>1, <2>2, <2>3, <2>4, QueryDoneInv
<1>10. CASE E # {}
  <2>1. task' = [task EXCEPT ![w] = n] /\ UNCHANGED <<cache, dedup, phase, lastBlock>>
    BY <1>2, <1>10
  <2>2. TaskInv(n)
    BY <1>1, <1>4, <1>6, <1>10 DEF TaskInv, SameRun
  <2>3. Moves(w, n, n) /\ Writes(w, n)
    BY <1>1, <1>6, <2>1, <2>2 DEF Moves, Writes
  <2>4. ASSUME NEW x \in Visible, phase = "history", w = "main", Unread(task["main"], x)
        PROVE  x \in (cache \cup E) \cup lost' \cup store' \/ Ahead(x)'
    <3>1. CASE x \notin E \cup lost' \cup store'
      <4>1. nextFromBlock(n) = nextFromBlock(t) /\ nextToBlock(n) = nextToBlock(t) /\ n.to = t.to
        BY <1>6 DEF nextFromBlock, nextToBlock, SameRun
      <4>2. Unread(n, x)
        BY <1>6, <1>8, <2>4, <3>1, <4>1 DEF Unread, StillToRead
      <4>3. task'["main"] = n /\ phase' = "history"
        BY <1>1, <2>1, <2>4 DEF Shape
      <4>4. QED BY <4>2, <4>3 DEF Ahead, Unread, nextFromBlock, nextToBlock
    <3>2. QED BY <3>1
  <2>5. /\ dedup' \cup stuck' \subseteq FirstBlock..LastBlock
        /\ cache \subseteq cache \cup E /\ cache \cup E \subseteq cache' \cup n.now
        /\ cache' \subseteq Visible /\ store \subseteq Events /\ lastL2Block \in {0} \cup SeenBlocks
    BY <1>1, <1>6, <1>7, <2>1 DEF Shape, TypeOK
  <2>6. QED
    BY <1>2, <1>6, <1>7, <2>1, <2>3, <2>4, <2>5, WriterInv
<1>11. QED BY <1>9, <1>10

\* The timestamp of one event in hand is read, or cannot be.
LEMMA QueriedOneInv ==
    ASSUME IInv, NEW w \in Writers, NEW e \in task[w].now, NEW K \in {{}, {e}}, QueriedOne(w, e, K),
           lost \subseteq lost', e \in K \cup lost' \cup store', stuck' \subseteq FirstBlock..LastBlock
    PROVE  IInv' /\ Carries
<1> DEFINE t == [task[w] EXCEPT !.pc = "fetch", !.now = {}]
           n == [task[w] EXCEPT !.now = @ \ {e}]
           cached == cache \cup K
<1>1. Shape /\ task[w] \in Tasks /\ TaskInv(task[w]) /\ task[w].pc = "cache" /\ task[w].high = 0
  BY DEF IInv, Shape, QueriedOne, TaskInv
<1>2. /\ IF task[w].now = {e} THEN QueryDone(w, t, cached)
         ELSE /\ task' = [task EXCEPT ![w].now = @ \ {e}] /\ cache' = cached
              /\ UNCHANGED <<dedup, phase, lastBlock>>
      /\ UNCHANGED <<head, store, lastL2Block, watching, unseen>>
  BY DEF QueriedOne
<1>3. /\ t \in Tasks /\ SameRun(task[w], t) /\ t.left = task[w].left /\ t.high = 0
      /\ t.pc = "fetch" /\ t.now = {} /\ t.todo = task[w].todo
  BY <1>1 DEF Tasks, SameRun
<1>4. /\ n \in Tasks /\ SameRun(task[w], n) /\ n.left = task[w].left /\ n.high = 0
      /\ n.pc = "cache" /\ n.now = task[w].now \ {e} /\ n.todo = task[w].todo
  BY <1>1 DEF Tasks, SameRun
<1>5. cached \in SUBSET Visible /\ cache \subseteq cached /\ e \in cached \cup lost' \cup store'
  BY <1>1 DEF TaskInv, Shape, TypeOK
<1>6. CASE task[w].now = {e}
  <2>1. QueryDone(w, t, cached)
    BY <1>2, <1>6
  <2>2. ASSUME NEW x \in Visible, phase = "history", w = "main", Unread(task["main"], x)
        PROVE  StillToRead(t, x, cached \cup lost' \cup store')
    <3>1. /\ nextFromBlock(t) = nextFromBlock(task[w]) /\ nextToBlock(t) = nextToBlock(task[w])
          /\ t.to = task[w].to
      BY <1>3 DEF nextFromBlock, nextToBlock, SameRun
    <3>2. t.kind = "history"
      BY <1>1, <1>3, <2>2 DEF Shape, PhaseInv, SameRun
    <3> HIDE DEF t, cached
    <3>3. QED BY <1>1, <1>3, <2>2, <3>1, <3>2 DEF Unread, StillToRead
  <2>3. task[w].now \subseteq store' \cup lost' \cup cached
    BY <1>5, <1>6
  <2> HIDE DEF t, cached
  <2>4. QED BY <1>1, <1>2, <1>3, <1>5, <2>1, <2>2, <2>3, QueryDoneInv
<1>7. CASE task[w].now # {e}
  <2>1. task' = [task EXCEPT ![w] = n] /\ cache' = cached /\ UNCHANGED <<dedup, phase, lastBlock>>
    BY <1>2, <1>7
  <2>2. n.now # {}
    BY <1>4, <1>7
  <2> HIDE DEF n, t, cached
  <2>3. TaskInv(n)
    BY <1>1, <1>4, <2>2 DEF TaskInv, SameRun
  <2>4. Moves(w, n, n) /\ Writes(w, n)
    BY <1>1, <1>4, <2>1, <2>3 DEF Moves, Writes
  <2>5. ASSUME NEW x \in Visible, phase = "history", w = "main", Unread(task["main"], x)
        PROVE  x \in cached \cup lost' \cup store' \/ Ahead(x)'
    <3>1. nextFromBlock(n) = nextFromBlock(task[w]) /\ nextToBlock(n) = nextToBlock(task[w])
      BY <1>4 DEF nextFromBlock, nextToBlock, SameRun
    <3>2. Unread(n, x)
      BY <1>1, <1>4, <2>5, <3>1 DEF Unread, SameRun
    <3>3. task'["main"] = n /\ phase' = "history"
      BY <1>1, <2>1, <2>5 DEF Shape
    <3>4. QED BY <3>2, <3>3 DEF Ahead, Unread, nextFromBlock, nextToBlock
  <2>6. /\ dedup' \cup stuck' \subseteq FirstBlock..LastBlock
        /\ cached \subseteq cache' \cup n.now /\ cache' \subseteq Visible
        /\ store \subseteq Events /\ lastL2Block \in {0} \cup SeenBlocks
        /\ task[w].now \subseteq store' \cup lost' \cup cached \cup n.now
    BY <1>1, <1>4, <1>5, <2>1 DEF Shape, TypeOK
  <2>7. QED
    BY <1>2, <1>4, <1>5, <2>1, <2>4, <2>5, <2>6, WriterInv
<1>8. QED BY <1>6, <1>7

\* The end of writeCachedBlocks: the hub state is read and, perhaps, written.
LEMMA EndInv ==
    ASSUME IInv, NEW w \in Writers, WriteEnds(w) \/ putHubState(w)
    PROVE  IInv' /\ Carries
<1> DEFINE t == task[w]
<1>1. Shape /\ t \in Tasks /\ TaskInv(t) /\ t.pc \in {"read", "put"} /\ t.now = {}
  BY DEF IInv, Shape, WriteEnds, putHubState, TaskInv
<1>2. /\ UNCHANGED <<head, store, watching, unseen, cache, dedup, lost, stuck>>
      /\ lastL2Block' \in {lastL2Block, t.high}
  BY DEF WriteEnds, putHubState, env
<1>3. PICK n \in Tasks : Continues(w, t, n) /\ n.now = {}
  <2>1. CASE Finish(w, t)
    BY <1>1, <2>1, FinishEffect DEF TaskInv
  <2>2. CASE task' = [task EXCEPT ![w].pc = "put"] /\ UNCHANGED <<phase, lastBlock>>
    <3> DEFINE n == [t EXCEPT !.pc = "put"]
    <3>1. /\ n \in Tasks /\ SameRun(t, n) /\ n.pc = "put" /\ n.now = {} /\ n.high = t.high
          /\ n.todo = t.todo
      BY <1>1 DEF Tasks, SameRun
    <3>2. task' = [task EXCEPT ![w] = n]
      BY <2>2
    <3> HIDE DEF n
    <3>3. TaskInv(n)
      BY <1>1, <3>1 DEF TaskInv, SameRun
    <3>4. Continues(w, t, n)
      BY <2>2, <3>1, <3>2, <3>3 DEF Continues
    <3>5. QED BY <3>1, <3>4
  <2>3. QED BY <2>1, <2>2 DEF WriteEnds, putHubState
<1>4. Moves(w, t, n) /\ Writes(w, t)
  BY <1>1, <1>3, ContinuesMoves DEF Writes, SameRun
<1>5. ASSUME NEW x \in Visible, phase = "history", w = "main", Unread(task["main"], x)
      PROVE  Ahead(x)'
  <2>1. nextToBlock(t) < BlockOf[x] /\ BlockOf[x] <= t.to /\ t.kind = "history"
    BY <1>1, <1>5 DEF Unread, Shape, PhaseInv
  <2>2. x \in Events
    BY DEF Visible
  <2>3. QED BY <1>1, <1>3, <1>5, <2>1, <2>2, LaterRuns
<1>6. /\ cache \subseteq Visible /\ store \subseteq Events
      /\ lastL2Block' \in {0} \cup SeenBlocks
      /\ dedup' \cup stuck' \subseteq FirstBlock..LastBlock
  BY <1>1, <1>2 DEF Shape, TypeOK, TaskInv
<1>7. QED BY <1>1, <1>2, <1>3, <1>4, <1>5, <1>6, WriterInv

LEMMA NewBlockInv ==
    ASSUME IInv, handleNewBlock
    PROVE  IInv' /\ Carries
<1> DEFINE t == [NoTask EXCEPT !.kind = "newBlock", !.to = head]
           todo == ConfirmedBlocks(cache, head)
<1>1. Shape /\ phase = "live" /\ task["main"] = NoTask /\ "main" \in Writers
  BY DEF IInv, handleNewBlock, Writers
<1>2. Goes("main", t, cache, todo, {}) /\ UNCHANGED <<head, store, lastL2Block, watching, unseen, lost, stuck>>
  BY DEF handleNewBlock, env
<1>3. /\ t \in Tasks /\ t.kind = "newBlock" /\ t.high = 0
  <2>1. head \in Nat
    BY <1>1, WatcherAssumption DEF Shape, TypeOK
  <2>2. t \in Tasks /\ t.kind = "newBlock"
    BY <2>1, NoTaskInv DEF Tasks
  <2>3. t.high = 0
    BY DEF NoTask
  <2>4. QED BY <2>2, <2>3
<1>4. todo \in SUBSET SeenBlocks /\ cache \in SUBSET Visible
  BY <1>1 DEF ConfirmedBlocks, SeenBlocks, Shape, TypeOK
<1> HIDE DEF t, todo
<1>5. PICK n \in Tasks : /\ Continues("main", t, n)
                         /\ n.now \subseteq cache /\ cache' = cache \ n.now
                         /\ dedup' \subseteq dedup
  BY <1>1, <1>2, <1>3, <1>4, GoesEffect
<1>6. Moves("main", t, n) /\ Writes("main", t)
  BY <1>1, <1>3, <1>5, ContinuesMoves DEF Writes
<1>7. /\ store \subseteq Events /\ lastL2Block' \in {0} \cup SeenBlocks
      /\ dedup' \cup stuck' \subseteq FirstBlock..LastBlock
      /\ task["main"].now = {}
  BY <1>1, <1>2, <1>5 DEF Shape, TypeOK, NoTask
<1>8. QED BY <1>1, <1>2, <1>3, <1>4, <1>5, <1>6, <1>7, WriterInv

LEMMA InitInv == Init => IInv
<1> SUFFICES ASSUME Init PROVE IInv
  OBVIOUS
<1>1. FirstBlock \in Nat /\ LastBlock \in Int /\ FirstBlock <= LastBlock
  BY WatcherAssumption
<1>2. Visible = {}
  <2>1. \A e \in Events : BlockOf[e] > FirstBlock /\ BlockOf[e] \in Int
    BY BlockType, <1>1 DEF Blocks
  <2>2. QED BY <1>1, <2>1 DEF Visible, Init
<1>3. \A w \in Writers : task[w] = NoTask
  BY DEF Init
<1>4. task \in [Writers -> Tasks] /\ \A w \in Writers : TaskInv(task[w])
  BY <1>3, NoTaskInv DEF Init
<1>5. PhaseInv
  BY <1>3 DEF Init, PhaseInv, NoTask, Writers
<1>6. TypeOK
  BY <1>1, <1>2 DEF Init, TypeOK
<1>7. lastL2Block = 0
  BY DEF Init
<1>8. QED BY <1>2, <1>4, <1>5, <1>6, <1>7 DEF IInv, Shape, NoGap

\* Steps of the chain, the watchers, the start, the retries and the crash leave each task
\* as it is or put a new one in the place of none.
LEMMA SyncTask ==
    ASSUME NEW kind \in {"history", "block", "fid"}, NEW from \in Int, NEW to \in Nat, NEW size \in Int,
           NEW wanted \in SUBSET Events, kind = "block" => from \in Blocks
    PROVE  LET t == Sync(kind, from, to, size, wanted)
           IN  /\ t \in Tasks /\ TaskInv(t)
               /\ t.kind = kind /\ t.from = from /\ t.to = to /\ t.size = size /\ t.wanted = wanted
               /\ t.pc = "fetch" /\ t.run = 0 /\ t.left = ContractOrder /\ t.now = {}
<1> DEFINE t == Sync(kind, from, to, size, wanted)
<1>1. ContractOrder \in Seq(Contracts) /\ ContractOrder # <<>>
  BY WatcherAssumption
<1>2. /\ t.kind = kind /\ t.from = from /\ t.to = to /\ t.size = size /\ t.wanted = wanted
      /\ t.pc = "fetch" /\ t.run = 0 /\ t.left = ContractOrder /\ t.now = {} /\ t.todo = {}
  BY DEF Sync, NoTask
<1>3. t \in Tasks
  BY <1>1, NoTaskInv DEF Sync, Tasks
<1> HIDE DEF t
<1>4. TaskInv(t)
  BY <1>1, <1>2, <1>3 DEF TaskInv
<1>5. QED BY <1>2, <1>3, <1>4 DEF t

LEMMA ChainInv ==
    ASSUME IInv, NewBlock
    PROVE  IInv' /\ Carries
<1>1. Shape /\ NoGap
  BY DEF IInv
<1>2. /\ head \in FirstBlock..LastBlock /\ head < LastBlock /\ head' = head + 1
      /\ UNCHANGED <<store, lastL2Block, phase, watching, cache, task, dedup, lastBlock, stuck>>
      /\ unseen' = unseen \cup {e \in Events : BlockOf[e] = head + 1 /\ ContractOf[e] \in watching}
      /\ lost' = IF phase \in {"history", "live"}
                 THEN lost \cup {e \in Events : BlockOf[e] = head + 1 /\ ContractOf[e] \notin watching}
                 ELSE lost
      /\ phase = "down" => watching = {} /\ unseen = {}
  BY <1>1, Zenon DEF NewBlock, Shape, TypeOK, PhaseInv
<1>3. /\ FirstBlock \in Nat /\ LastBlock \in Int /\ head \in Int /\ head' \in Int /\ head <= head'
      /\ head' \in FirstBlock..LastBlock
  BY <1>2, WatcherAssumption
<1>4. \A e \in Events : BlockOf[e] \in Int
  BY BlockType DEF Blocks
<1>5. /\ Visible \subseteq Visible' /\ SeenBlocks \subseteq SeenBlocks'
      /\ \A e \in Visible' : e \in Events /\ (e \in Visible \/ BlockOf[e] = head + 1)
  BY <1>2, <1>3, <1>4 DEF Visible, SeenBlocks
<1>6. {e \in Events : BlockOf[e] = head + 1} \subseteq Visible'
  BY <1>2, <1>3, <1>4 DEF Visible
<1>7. Shape'
  <2>1. \A w \in Writers : TaskInv(task[w])'
    <3> TAKE w \in Writers
    <3>1. PICK x : x = task[w] /\ TaskInv(x)
      BY <1>1 DEF Shape
    <3>2. TaskInv(x)'
      BY <1>3, <3>1, TaskInvStays
    <3>3. QED BY <1>2, <3>1, <3>2
  <2>2. PhaseInv'
    <3>1. task["main"].kind = "history" => task["main"].to <= head'
      <4>1. "main" \in Writers /\ task["main"].to \in Int
        BY <1>1 DEF Shape, Writers, Tasks
      <4>2. QED BY <1>1, <1>3, <4>1 DEF Shape, PhaseInv
    <3>2. QED BY <1>1, <1>2, <3>1 DEF Shape, PhaseInv
  <2>3. TypeOK'
    BY <1>1, <1>2, <1>3, <1>5, <1>6 DEF Shape, TypeOK
  <2>4. QED BY <1>1, <1>2, <1>5, <2>1, <2>2, <2>3 DEF Shape
<1>8. ASSUME NEW e \in Visible' PROVE Accounted(e)' \/ Ahead(e)'
  <2>1. CASE BlockOf[e] = head + 1
    <3>1. CASE phase \in {"down", "connect"}
      <4>1. lastL2Block \in Int /\ lastL2Block <= head /\ numConfirmations \in Nat
        <5>1. numConfirmations \in Nat /\ 0 <= head
          BY <1>2, <1>3, WatcherAssumption
        <5>2. \A b \in SeenBlocks : b \in Int /\ b <= head
          BY <1>4 DEF SeenBlocks, Visible
        <5>3. QED BY <1>1, <1>3, <5>1, <5>2 DEF Shape
      <4>2. lastSyncedBlock <= head + 1
        BY <1>2, <1>3, <4>1 DEF lastSyncedBlock
      <4>3. lastSyncedBlock' = lastSyncedBlock
        BY <1>2 DEF lastSyncedBlock
      <4>4. QED BY <1>2, <2>1, <3>1, <4>2, <4>3 DEF Ahead
    <3>2. CASE phase \in {"history", "live"}
      BY <1>2, <1>5, <2>1, <3>2 DEF Accounted
    <3>3. QED BY <1>1, <3>1, <3>2 DEF Shape, PhaseInv
  <2>2. CASE e \in Visible /\ Accounted(e)
    BY <1>2, <2>2 DEF Accounted, InHand
  <2>3. CASE e \in Visible /\ Ahead(e)
    BY <1>2, <2>3 DEF Ahead, lastSyncedBlock, Unread, nextFromBlock, nextToBlock
  <2>4. QED BY <1>1, <1>5, <2>1, <2>2, <2>3 DEF NoGap
<1>9. Carries
  BY <1>1, <1>2 DEF Carries, Accounted, InHand, Shape, PhaseInv
<1>10. QED BY <1>7, <1>8, <1>9 DEF IInv, NoGap

\* The watchers: an event arrives, or a fault keeps it away.
LEMMA WatcherInv ==
    ASSUME IInv, UNCHANGED <<head, store, lastL2Block, phase, task, dedup, lastBlock, stuck>>,
           cache \subseteq cache', lost \subseteq lost', unseen' \subseteq unseen, cache' \subseteq Visible,
           unseen \subseteq unseen' \cup cache' \cup lost' \cup store,
           watching' \subseteq Contracts, phase = "down" => watching' \subseteq watching
    PROVE  IInv' /\ Carries
<1>1. Shape /\ NoGap
  BY DEF IInv
<1>2. Visible' = Visible /\ SeenBlocks' = SeenBlocks
  BY DEF Visible, SeenBlocks
<1>3. \A w \in Writers : TaskInv(task[w])'
  BY <1>1, <1>2 DEF Shape, TaskInv
<1>4. PhaseInv'
  BY <1>1 DEF Shape, PhaseInv
<1>5. TypeOK'
  BY <1>1, <1>2 DEF Shape, TypeOK
<1>6. Shape'
  BY <1>1, <1>2, <1>3, <1>4, <1>5 DEF Shape
<1>7. ASSUME NEW e \in Visible PROVE Accounted(e)' \/ Ahead(e)'
  <2>1. Accounted(e) => Accounted(e)'
    BY DEF Accounted, InHand
  <2>2. Ahead(e) => Ahead(e)'
    BY DEF Ahead, lastSyncedBlock, Unread, nextFromBlock, nextToBlock
  <2>3. QED BY <1>1, <2>1, <2>2 DEF NoGap
<1>8. Carries
  BY DEF Carries, Accounted, InHand
<1>9. QED BY <1>2, <1>6, <1>7, <1>8 DEF IInv, NoGap

\* A task begins where there was none.
LEMMA BeginInv ==
    ASSUME IInv, NEW w \in Writers, NEW STATE t, t \in Tasks, TaskInv(t), task[w] = NoTask, t.now = {},
           task' = [task EXCEPT ![w] = t],
           UNCHANGED <<head, store, lastL2Block, watching, unseen, cache, lastBlock, lost, stuck>>,
           dedup' \subseteq FirstBlock..LastBlock, PhaseInv', phase' # "down",
           \A e \in Visible : Ahead(e) => Ahead(e)'
    PROVE  IInv' /\ Carries
<1>1. Shape /\ NoGap
  BY DEF IInv
<1>2. Visible' = Visible /\ SeenBlocks' = SeenBlocks
  BY DEF Visible, SeenBlocks
<1>3. task' \in [Writers -> Tasks]
  BY <1>1 DEF Shape
<1>4. ASSUME NEW v \in Writers PROVE TaskInv(task[v])'
  <2>1. task'[v] = t \/ task'[v] = task[v]
    BY <1>1 DEF Shape
  <2>2. QED BY <1>1, <1>2, <2>1 DEF Shape, TaskInv
<1>5. TypeOK'
  BY <1>1, <1>2 DEF Shape, TypeOK
<1>6. Shape'
  BY <1>1, <1>2, <1>3, <1>4, <1>5 DEF Shape
<1>7. ASSUME NEW e \in Events, Accounted(e) PROVE Accounted(e)'
  <2>1. NoTask.now = {}
    BY DEF NoTask
  <2>2. \A v \in Writers : v # w => task'[v] = task[v]
    BY <1>1 DEF Shape
  <2>3. InHand \subseteq InHand'
    BY <2>1, <2>2 DEF InHand
  <2>4. QED BY <1>7, <2>3 DEF Accounted
<1>8. NoGap'
  BY <1>1, <1>2, <1>7 DEF NoGap, Visible
<1>9. QED BY <1>6, <1>7, <1>8 DEF IInv, Carries

\* The history sync begins at or before every event that is not accounted for.
LEMMA ConnectInv ==
    ASSUME IInv, connectAndSyncHistoricalEvents
    PROVE  IInv' /\ Carries
<1>1. /\ Shape /\ phase = "connect" /\ "main" \in Writers
      /\ Retriers \subseteq Writers /\ "main" \notin Retriers
  BY WatcherAssumption DEF IInv, connectAndSyncHistoricalEvents, Writers
<1>2. /\ UNCHANGED <<head, store, lastL2Block, watching, unseen, cache, dedup, lastBlock, lost, stuck>>
      /\ IF lastSyncedBlock < head
         THEN phase' = "history" /\ task' = [task EXCEPT !["main"] = Sync("history", lastSyncedBlock, head, ChunkSize, Events)]
         ELSE phase' = "live" /\ UNCHANGED task
  BY DEF connectAndSyncHistoricalEvents, env
<1>3. task["main"] = NoTask /\ (\A r \in Retriers : task[r] = NoTask) /\ lastBlock = 0
  BY <1>1 DEF Shape, PhaseInv
<1>4. \A e \in Events : BlockOf[e] \in Int /\ BlockOf[e] > FirstBlock
  BY BlockType, WatcherAssumption DEF Blocks
<1>5. /\ FirstBlock \in Nat /\ numConfirmations \in Nat /\ numConfirmations > 0 /\ ChunkSize \in Int
      /\ head \in Nat /\ FirstBlock <= head
  BY <1>1, WatcherAssumption DEF Shape, TypeOK
<1>6. lastL2Block \in Nat /\ lastL2Block <= head
  <2>1. \A b \in SeenBlocks : b \in Nat /\ b <= head
    BY BlockType DEF SeenBlocks, Visible, Blocks
  <2>2. QED BY <1>1, <1>5, <2>1 DEF Shape
<1>7. lastSyncedBlock \in Int /\ (lastSyncedBlock = FirstBlock \/ lastSyncedBlock < head)
  BY <1>5, <1>6 DEF lastSyncedBlock
<1>8. \A e \in Visible : e \in Events /\ BlockOf[e] <= head
  BY DEF Visible
<1>9. CASE lastSyncedBlock < head
  <2> DEFINE t == Sync("history", lastSyncedBlock, head, ChunkSize, Events)
  <2>1. /\ t \in Tasks /\ TaskInv(t)
        /\ t.kind = "history" /\ t.from = lastSyncedBlock /\ t.to = head /\ t.size = ChunkSize /\ t.wanted = Events
        /\ t.pc = "fetch" /\ t.run = 0 /\ t.left = ContractOrder /\ t.now = {}
    <3>1. "history" \in {"history", "block", "fid"} /\ Events \in SUBSET Events /\ "history" # "block"
      OBVIOUS
    <3>2. lastSyncedBlock \in Int /\ head \in Nat /\ ChunkSize \in Int
      BY <1>5, <1>7
    <3>3. QED BY <3>1, <3>2, SyncTask, Zenon
  <2> HIDE DEF t
  <2>2. phase' = "history" /\ task' = [task EXCEPT !["main"] = t]
    BY <1>2, <1>9 DEF t
  <2>3. task'["main"] = t /\ \A r \in Retriers : task'[r] = NoTask
    BY <1>1, <1>3, <2>2 DEF Shape
  <2>4. PhaseInv'
    BY <1>2, <1>3, <1>5, <2>1, <2>2, <2>3 DEF PhaseInv, NoTask
  <2>5. ASSUME NEW e \in Visible, Ahead(e) PROVE Ahead(e)'
    <3>1. lastSyncedBlock <= BlockOf[e]
      BY <1>1, <2>5 DEF Ahead
    <3>2. nextFromBlock(t) = lastSyncedBlock
      <4>1. 0 * ChunkSize = 0
        BY <1>5
      <4>2. QED BY <1>7, <2>1, <4>1 DEF nextFromBlock
    <3>3. ContractOf[e] \in Range(t.left)
      BY <1>8, <2>1, WatcherAssumption DEF Contracts
    <3>4. Unread(t, e)
      BY <1>8, <2>1, <3>1, <3>2, <3>3 DEF Unread
    <3>5. QED BY <2>2, <2>3, <3>4 DEF Ahead, Unread, nextFromBlock, nextToBlock
  <2>6. dedup' \subseteq FirstBlock..LastBlock
    BY <1>1, <1>2 DEF Shape, TypeOK
  <2>7. QED BY <1>1, <1>2, <1>3, <2>1, <2>2, <2>4, <2>5, <2>6, BeginInv
<1>10. CASE ~(lastSyncedBlock < head)
  <2>1. phase' = "live" /\ UNCHANGED task
    BY <1>2, <1>10
  <2>2. \A e \in Visible : ~Ahead(e)
    BY <1>1, <1>4, <1>5, <1>7, <1>8, <1>10 DEF Ahead
  <2>3. PhaseInv'
    BY <1>1, <1>2, <1>3, <2>1 DEF Shape, PhaseInv, NoTask
  <2>4. dedup' \subseteq FirstBlock..LastBlock
    BY <1>1, <1>2 DEF Shape, TypeOK
  <2>5. task' = [task EXCEPT !["main"] = NoTask] /\ NoTask.now = {}
    BY <1>1, <1>3, <2>1 DEF Shape, NoTask
  <2>6. QED BY <1>1, <1>2, <1>3, <2>1, <2>2, <2>3, <2>4, <2>5, BeginInv, NoTaskInv
<1>11. QED BY <1>9, <1>10

LEMMA RetryInv ==
    ASSUME IInv, NEW w \in Retriers,
           (\E e \in Events : retryEventsFromBlock(w, BlockOf[e])) \/ \E fid \in Fids : retryEventsForFid(w, fid)
    PROVE  IInv' /\ Carries
<1>1. /\ Shape /\ "main" \in Writers /\ Retriers \subseteq Writers /\ w # "main"
      /\ task[w] = NoTask
  BY WatcherAssumption DEF IInv, retryEventsFromBlock, retryEventsForFid, Writers
<1>2. /\ UNCHANGED <<head, store, lastL2Block, phase, watching, unseen, cache, lastBlock, lost, stuck>>
  BY DEF retryEventsFromBlock, retryEventsForFid, env
<1>3. phase = "live"
  <2>1. lastBlock > FirstBlock => phase = "live"
    BY <1>1, WatcherAssumption DEF Shape, PhaseInv
  <2>2. QED BY <2>1 DEF retryEventsFromBlock, retryEventsForFid
<1>4. PICK t \in Tasks : /\ task' = [task EXCEPT ![w] = t] /\ TaskInv(t) /\ t.now = {}
                         /\ t.kind # "history" /\ dedup' \subseteq FirstBlock..LastBlock
  <2>1. ASSUME NEW e \in Events, retryEventsFromBlock(w, BlockOf[e])
        PROVE  \E t \in Tasks : /\ task' = [task EXCEPT ![w] = t] /\ TaskInv(t) /\ t.now = {}
                                /\ t.kind # "history" /\ dedup' \subseteq FirstBlock..LastBlock
    <3> DEFINE b == BlockOf[e]
               t == Sync("block", b, b + 1, 1, Events)
    <3>1. b \in Blocks /\ b \in Int /\ b + 1 \in Nat /\ b \in FirstBlock..LastBlock
      <4>1. b \in Blocks
        BY DEF Blocks
      <4>2. b \in FirstBlock + 1..LastBlock /\ b \in Nat
        BY <4>1, BlockType
      <4>3. QED BY <4>1, <4>2, WatcherAssumption
    <3>2. t \in Tasks /\ TaskInv(t) /\ t.now = {} /\ t.kind = "block"
      BY <3>1, SyncTask
    <3>3. task' = [task EXCEPT ![w] = t] /\ dedup' = dedup \cup {b}
      BY <2>1 DEF retryEventsFromBlock
    <3> HIDE DEF t
    <3>4. dedup' \subseteq FirstBlock..LastBlock
      BY <1>1, <3>1, <3>3 DEF Shape, TypeOK
    <3>5. QED BY <3>2, <3>3, <3>4
  <2>2. ASSUME NEW fid, retryEventsForFid(w, fid)
        PROVE  \E t \in Tasks : /\ task' = [task EXCEPT ![w] = t] /\ TaskInv(t) /\ t.now = {}
                                /\ t.kind # "history" /\ dedup' \subseteq FirstBlock..LastBlock
    <3> DEFINE mine == {e \in ByFid : FidOf[e] = fid}
               t == Sync("fid", FirstBlock, lastBlock, lastBlock, mine)
    <3>1. FirstBlock \in Int /\ lastBlock \in Nat /\ lastBlock \in Int /\ mine \in SUBSET Events
      <4>1. FirstBlock \in Nat /\ ByFid \subseteq Events
        BY WatcherAssumption
      <4>2. lastBlock \in Nat
        BY <1>1 DEF Shape, PhaseInv
      <4>3. QED BY <4>1, <4>2
    <3>2. task' = [task EXCEPT ![w] = t] /\ dedup' = dedup
      BY <2>2 DEF retryEventsForFid
    <3> HIDE DEF mine
    <3>3. t \in Tasks /\ TaskInv(t) /\ t.now = {} /\ t.kind = "fid"
      BY <3>1, SyncTask
    <3> HIDE DEF t
    <3>4. dedup' \subseteq FirstBlock..LastBlock
      BY <1>1, <3>2 DEF Shape, TypeOK
    <3>5. QED BY <3>2, <3>3, <3>4
  <2>3. QED BY <2>1, <2>2
<1>5. /\ task'["main"] = task["main"]
      /\ \A r \in Retriers : task'[r] \in {task[r], t}
  BY <1>1, <1>4 DEF Shape
<1>6. PhaseInv'
  BY <1>1, <1>2, <1>3, <1>4, <1>5 DEF Shape, PhaseInv
<1>7. \A e \in Visible : ~Ahead(e)
  BY <1>3 DEF Ahead
<1>8. QED BY <1>1, <1>2, <1>3, <1>4, <1>6, <1>7, BeginInv

\* Where a restart begins, nothing that is not lost is older.
LEMMA CrashInv ==
    ASSUME IInv, Crash
    PROVE  IInv' /\ Carries
<1>1. Shape
  BY DEF IInv
<1>2. /\ phase' = "down" /\ watching' = {} /\ unseen' = {} /\ cache' = {} /\ task' = [w \in Writers |-> NoTask]
      /\ dedup' = {} /\ lastBlock' = 0 /\ stuck' = {} /\ UNCHANGED <<head, store, lastL2Block>>
      /\ lost' = lost \cup {e \in Visible \ store : lastL2Block > 0 /\ BlockOf[e] < lastL2Block - numConfirmations}
  BY Zenon DEF Crash, Fault
<1>3. Visible' = Visible /\ SeenBlocks' = SeenBlocks
  BY <1>2 DEF Visible, SeenBlocks
<1>4. task' \in [Writers -> Tasks] /\ \A w \in Writers : TaskInv(task[w])'
  <2>1. \A w \in Writers : task'[w] = NoTask
    BY <1>2
  <2>2. \A w \in Writers : TaskInv(task[w])'
    BY <1>3, <2>1, NoTaskInv DEF TaskInv
  <2>3. QED BY <1>2, <2>2, NoTaskInv
<1>5. PhaseInv'
  BY <1>2 DEF PhaseInv, NoTask, Writers
<1>6. TypeOK'
  BY <1>1, <1>2, <1>3 DEF Shape, TypeOK
<1>7. Shape'
  BY <1>1, <1>2, <1>3, <1>4, <1>5, <1>6 DEF Shape
<1>8. ASSUME NEW e \in Visible PROVE Accounted(e)' \/ Ahead(e)'
  <2>1. /\ BlockOf[e] \in Int /\ FirstBlock \in Int /\ FirstBlock <= BlockOf[e] /\ numConfirmations \in Int
    BY BlockType, WatcherAssumption DEF Visible, Blocks
  <2>2. lastL2Block \in Nat
    <3>1. \A b \in SeenBlocks : b \in Nat
      BY BlockType DEF SeenBlocks, Visible, Blocks
    <3>2. QED BY <1>1, <3>1 DEF Shape
  <2>3. e \in store \/ e \in lost' \/ lastSyncedBlock <= BlockOf[e]
    BY <1>2, <2>1, <2>2 DEF lastSyncedBlock
  <2>4. lastSyncedBlock' = lastSyncedBlock
    BY <1>2 DEF lastSyncedBlock
  <2>5. QED BY <1>2, <2>3, <2>4 DEF Accounted, Ahead
<1>9. QED BY <1>2, <1>3, <1>7, <1>8 DEF IInv, NoGap, Carries

LEMMA StartInv ==
    ASSUME IInv, start
    PROVE  IInv' /\ Carries
<1>1. Shape /\ "main" \in Writers /\ phase = "down" /\ phase' = "connect"
  BY DEF IInv, start, Writers
<1>2. UNCHANGED <<head, store, lastL2Block, watching, unseen, cache, task, dedup, lastBlock, lost, stuck>>
  BY DEF start, env
<1>3. PhaseInv'
  BY <1>1, <1>2 DEF Shape, PhaseInv
<1>4. task["main"] = NoTask /\ task' = [task EXCEPT !["main"] = NoTask] /\ NoTask.now = {}
  BY <1>1, <1>2 DEF Shape, PhaseInv, NoTask
<1>5. \A e \in Visible : Ahead(e) => Ahead(e)'
  BY <1>1, <1>2 DEF Ahead, lastSyncedBlock
<1>6. dedup' \subseteq FirstBlock..LastBlock
  BY <1>1, <1>2 DEF Shape, TypeOK
<1>7. QED BY <1>1, <1>2, <1>3, <1>4, <1>5, <1>6, BeginInv, NoTaskInv

LEMMA NextInv == IInv /\ [Next]_vars => IInv' /\ Carries
<1> SUFFICES ASSUME IInv, [Next]_vars PROVE IInv' /\ Carries
  OBVIOUS
<1>0. Shape
  BY DEF IInv
<1>1. CASE UNCHANGED vars
  <2>1. UNCHANGED <<head, store, lastL2Block, phase, watching, unseen, cache, task, dedup, lastBlock, lost, stuck>>
    BY <1>1 DEF vars, env
  <2>2. cache \subseteq Visible /\ watching \subseteq Contracts
    BY <1>0 DEF Shape, TypeOK
  <2>3. QED BY <2>1, <2>2, WatcherInv
<1>2. ASSUME NEW c \in Contracts, FirstPoll(c) \/ restart(c)
      PROVE  IInv' /\ Carries
  <2>1. /\ UNCHANGED <<head, store, lastL2Block, phase, cache, task, dedup, lastBlock, stuck>>
        /\ lost \subseteq lost' /\ unseen' \subseteq unseen
        /\ unseen \subseteq unseen' \cup lost' \cup store
        /\ watching' \subseteq watching \cup {c} /\ (phase = "down" => watching' \subseteq watching)
    BY <1>2 DEF FirstPoll, restart, Fault, env
  <2>2. cache \subseteq Visible /\ watching \subseteq Contracts
    BY <1>0 DEF Shape, TypeOK
  <2>3. QED BY <2>1, <2>2, WatcherInv
<1>3. ASSUME NEW e \in Events, cacheOnChainEvent(e) \/ TimestampFails(e)
      PROVE  IInv' /\ Carries
  <2>1. /\ UNCHANGED <<head, store, lastL2Block, phase, watching, task, dedup, lastBlock, stuck>>
        /\ cache \subseteq cache' /\ lost \subseteq lost' /\ unseen' \subseteq unseen
        /\ unseen \subseteq unseen' \cup cache' \cup lost' \cup store
    BY <1>3 DEF cacheOnChainEvent, TimestampFails, Fault, env
  <2>2. cache' \subseteq Visible /\ watching \subseteq Contracts
    BY <1>0, <1>3 DEF Shape, TypeOK, cacheOnChainEvent, Arrives, TimestampFails
  <2>3. QED BY <2>1, <2>2, WatcherInv
<1>4. ASSUME NEW w \in Writers PROVE stuck \cup (IF task[w].kind = "block" THEN {task[w].from} ELSE {})
                                          \subseteq FirstBlock..LastBlock
  <2>1. TaskInv(task[w]) /\ stuck \subseteq FirstBlock..LastBlock
    BY <1>0 DEF Shape, TypeOK
  <2>2. \A b \in Blocks : b \in FirstBlock..LastBlock
    BY BlockType
  <2>3. QED BY <2>1, <2>2 DEF TaskInv
<1>5. ASSUME NEW w \in Writers, getContractEvents(w) \/ QueryFails(w)
      PROVE  IInv' /\ Carries
  <2>1. CASE getContractEvents(w)
    <3>1. Queried(w, Found(task[w])) /\ UNCHANGED <<lost, stuck>> /\ Found(task[w]) \in SUBSET Visible
      BY <2>1 DEF getContractEvents, env, Found
    <3>2. QED BY <1>4, <3>1, QueryInv
  <2>2. CASE QueryFails(w)
    <3>1. /\ Queried(w, {}) /\ lost' = lost \cup (Found(task[w]) \ store) /\ UNCHANGED store
          /\ stuck' = stuck \cup (IF task[w].kind = "block" THEN {task[w].from} ELSE {})
      BY <2>2 DEF QueryFails, Fault, Queried
    <3>2. QED BY <1>4, <3>1, QueryInv
  <2>3. QED BY <1>5, <2>1, <2>2
<1>6. ASSUME NEW w \in Writers, cacheQueriedEvent(w) \/ QueriedTimestampFails(w)
      PROVE  IInv' /\ Carries
  <2>1. ASSUME NEW e \in task[w].now, QueriedOne(w, e, {e}), UNCHANGED env
        PROVE  IInv' /\ Carries
    <3>1. UNCHANGED <<lost, stuck>> /\ {e} \in {{}, {e}}
      BY <2>1 DEF env
    <3>2. QED BY <1>4, <2>1, <3>1, QueriedOneInv
  <2>2. ASSUME NEW e \in task[w].now, QueriedOne(w, e, {}), Fault({e}),
               stuck' = IF task[w].kind = "block" THEN stuck \cup {task[w].from} ELSE stuck
        PROVE  IInv' /\ Carries
    <3>1. lost' = lost \cup ({e} \ store) /\ UNCHANGED store /\ {} \in {{}, {e}}
      BY <2>2 DEF Fault, QueriedOne
    <3>2. stuck' \subseteq FirstBlock..LastBlock
      BY <1>4, <2>2
    <3>3. QED BY <2>2, <3>1, <3>2, QueriedOneInv
  <2>3. QED BY <1>6, <2>1, <2>2 DEF cacheQueriedEvent, QueriedTimestampFails
<1>7. ASSUME NEW w \in Writers, Step(w) \/ StepFails(w)
      PROVE  IInv' /\ Carries
  BY <1>5, <1>6, <1>7, SubmitInv, EndInv DEF Step, StepFails
<1>8. "main" \in Writers /\ Retriers \subseteq Writers
  BY DEF Writers
<1>9. ASSUME Repair PROVE IInv' /\ Carries
  <2>1. PICK w \in Retriers, e \in Events : retryEventsFromBlock(w, BlockOf[e])
    BY <1>9 DEF Repair, Confirmed
  <2>2. QED BY <2>1, RetryInv
<1>10. ASSUME NEW w \in Retriers, \E fid \in Fids : retryEventsForFid(w, fid)
       PROVE  IInv' /\ Carries
  BY <1>10, RetryInv
<1>11. QED
  BY <1>1, <1>2, <1>3, <1>7, <1>8, <1>9, <1>10, ChainInv, StartInv, ConnectInv, NewBlockInv, CrashInv
  DEF Next, Main

LEMMA Invariance == Spec => []IInv
  BY InitInv, NextInv, PTL DEF Spec

-----------------------------------------------------------------------------
(* Theorems                                                                *)

\* Blocks, events, the cache and the tasks keep their types; in particular the block the
\* hub state records is 0 or the block of an event, though blocks are sorted as strings.
THEOREM TypeCorrect == Spec => []TypeOK
<1>1. IInv => TypeOK
  BY DEF IInv, Shape
<1>2. QED BY <1>1, Invariance, PTL

\* For every chain and every chunk size: no event falls between two runs of the history
\* sync, between the sync and the watchers, between two writers, or behind the block at
\* which a restart begins.
THEOREM NoEventSkipped == Spec => []NothingSkipped
<1>1. IInv => NothingSkipped
  BY DEF IInv, NoGap, NothingSkipped, Ahead, Accounted
<1>2. QED BY <1>1, Invariance, PTL

\* However the watchers, the history sync, new blocks and retries interleave, what one of
\* them has polled or queried is stored or still on its way after any step of the others,
\* short of a crash; and a stored event stays stored also then.
THEOREM NoEventDropped == Spec => NothingDropped
<1>1. IInv /\ [Next]_vars =>
        /\ store \subseteq store'
        /\ phase' # "down" =>
               unseen \cup cache \cup InHand \subseteq
                   store' \cup lost' \cup unseen' \cup cache' \cup InHand'
  <2>1. SUFFICES ASSUME IInv, [Next]_vars
                 PROVE  /\ store \subseteq store'
                        /\ phase' # "down" =>
                               \A e \in unseen \cup cache \cup InHand : Accounted(e)'
    BY DEF Accounted
  <2>2. Carries
    BY <2>1, NextInv
  <2>3. unseen \cup cache \cup InHand \subseteq Events
    BY <2>1 DEF IInv, Shape, TypeOK, TaskInv, Visible, InHand
  <2>4. QED BY <2>2, <2>3 DEF Carries, Accounted
<1>2. QED BY <1>1, Invariance, PTL DEF Spec, NothingDropped
===============================================================================
