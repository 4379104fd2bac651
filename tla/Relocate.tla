------------------------------- MODULE Relocate -------------------------------
(***************************************************************************)
(* One launch of a relocation kernel on one PE: the tasklets, their caches  *)
(* in WRAM, the barriers between them and the MRAM they all work on.        *)
(*                                                                          *)
(* Many launches are in place (start_offset = target_offset): the slot a    *)
(* tasklet writes is the block another one reads, and only the two barriers *)
(* in the loop body keep the blocks apart.                                  *)
(*                                                                          *)
(* 16 tasklets are started; those from 8 on return at once and are left     *)
(* out.  mram_read and mram_write of a chunk are single steps: the DMA      *)
(* engine serves one request at a time.                                     *)
(***************************************************************************)
EXTENDS RelocateKernels, FiniteSets

CONSTANT Launches       \* the launches considered

Tasklets     == 0..7
BarrierSizes == {2, 4, 8}          \* tasklet_2_, tasklet_4_, tasklet_8_barrier
Mram         == 0..(MramSize - 1)
NoData       == MramSize           \* a word_cache not yet read into

ASSUME RelocateAssumption ==
  /\ MramSize \in Nat
  /\ Launches \subseteq LaunchType
  /\ \A l \in Launches : \A i \in DOMAIN Passes(l) : PassFits(Passes(l)[i])

VARIABLES
  launch,    \* the loaded binary and DPU_INPUT_ARGUMENTS_RS1
  at,        \* at[t]: where tasklet t is: pc, pass, and steps done in it
  waiting,   \* waiting[b]: tasklets stopped in the barrier of size b
  heap,      \* tasklets whose mem_alloc is still allocated
  cache,     \* cache[t]: the chunk in t's word_cache
  mram       \* mram[a]: the original address of the chunk now at a

vars == << launch, at, waiting, heap, cache, mram >>

P == Passes(launch)

Here(pc, p, s) == [pc |-> pc, pass |-> p, step |-> s]

(* The next position of tasklet t after s entry barriers: the `goto PASS'   *)
(* tests, then mem_alloc.                                                   *)
EntryAt(t, s) ==
  IF s < Len(Entry(launch))
  THEN IF t < Entry(launch)[s + 1] THEN Here("entry", 1, s) ELSE Here("done", 1, 0)
  ELSE IF P # << >> /\ t < P[1].workers THEN Here("alloc", 1, 0) ELSE Here("done", 1, 0)

(* The next position after s copies in pass p: the conditions of the `for'  *)
(* loops and the PASS test in front of the second loop.                     *)
LoopAtWriteFirst(t, p, s) ==
  IF s < Steps(P[p], t) THEN Here("write", p, s) ELSE Here("done", p, s)
LoopAtRestart(t, p, s) ==
  IF s < Steps(P[p], t) THEN Here("read", p, s) ELSE Here("read", p, 0)
LoopAt(t, p, s) ==
  IF s < Steps(P[p], t) THEN Here("read", p, s)
  ELSE IF p < Len(P) /\ t < P[p + 1].workers /\ Steps(P[p + 1], t) > 0
       THEN Here("read", p + 1, 0)
  ELSE Here("done", p, s)

Init ==
  /\ launch \in Launches
  /\ at = [t \in Tasklets |->
             IF t = 0 THEN Here("reset", 1, 0) ELSE Here("entry", 1, 0)]
  /\ waiting = [b \in BarrierSizes |-> {}]
  /\ heap = {}
  /\ cache = [t \in Tasklets |-> NoData]
  /\ mram = [a \in Mram |-> a]

-----------------------------------------------------------------------------
(* barrier_wait: all but the last to arrive are stopped; the last one       *)
(* resumes them all while it holds the lock of the barrier.                 *)
Resumed(u) ==
  CASE at[u].pc = "entry" -> EntryAt(u, at[u].step + 1)
    [] at[u].pc = "sync1" -> Here("write", at[u].pass, at[u].step)
    [] OTHER              -> LoopAt(u, at[u].pass, at[u].step)

IsLastEarly(b) == Cardinality(waiting[b]) + 1 >= b - 1
IsLast(b) == Cardinality(waiting[b]) + 1 = b

BarrierWait(t, b) ==
  /\ t \notin waiting[b]
  /\ IF IsLast(b)
     THEN /\ at' = [u \in Tasklets |->
                      IF u \in waiting[b] \cup {t} THEN Resumed(u) ELSE at[u]]
          /\ waiting' = [waiting EXCEPT ![b] = {}]
     ELSE /\ waiting' = [waiting EXCEPT ![b] = @ \cup {t}]
          /\ at' = at
  /\ UNCHANGED << launch, heap, cache, mram >>

(* mem_reset, by tasklet 0 before its first barrier. *)
Reset ==
  /\ at[0].pc = "reset"
  /\ at' = [at EXCEPT ![0] = EntryAt(0, 0)]
  /\ heap' = {}
  /\ UNCHANGED << launch, waiting, cache, mram >>

EntryBarrier(t) ==
  at[t].pc = "entry" /\ BarrierWait(t, Entry(launch)[at[t].step + 1])

Alloc(t) ==
  /\ at[t].pc = "alloc"
  /\ heap' = heap \cup {t}
  /\ at' = [at EXCEPT ![t] = LoopAt(t, 1, 0)]
  /\ UNCHANGED << launch, waiting, cache, mram >>

(* The barrier between mram_read and mram_write. *)
AfterReadAtOnce(p) == "write"
AfterRead(p) == IF p.barrier = 0 THEN "write" ELSE "sync1"

Read(t) ==
  LET p == P[at[t].pass]
  IN  /\ at[t].pc = "read"
      /\ cache' = [cache EXCEPT ![t] = mram[From(p, t, at[t].step)]]
      /\ at' = [at EXCEPT ![t].pc = AfterRead(p)]
      /\ UNCHANGED << launch, waiting, heap, mram >>

Write(t) ==
  LET p == P[at[t].pass]
      s == at[t].step
  IN  /\ at[t].pc = "write"
      /\ mram' = [mram EXCEPT ![To(p, t, s)] = cache[t]]
      /\ at' = [at EXCEPT ![t] = IF p.barrier = 0 THEN LoopAt(t, @.pass, s + 1)
                                 ELSE Here("sync2", @.pass, s + 1)]
      /\ UNCHANGED << launch, waiting, heap, cache >>

LoopBarrier(t) ==
  /\ at[t].pc \in {"sync1", "sync2"}
  /\ BarrierWait(t, P[at[t].pass].barrier)

AllDone == \A t \in Tasklets : at[t].pc = "done"

(* The kernel has returned; any other state without a step is a hang. *)
Terminated == AllDone /\ UNCHANGED vars

Step(t) == EntryBarrier(t) \/ Alloc(t) \/ Read(t) \/ Write(t) \/ LoopBarrier(t)

Next == Reset \/ (\E t \in Tasklets : Step(t)) \/ Terminated

(* Nothing is assumed of the order in which tasklets are dispatched: only   *)
(* that the PE goes on as long as some tasklet is not stopped.              *)
Spec == Init /\ [][Next]_vars /\ WF_vars(Next)

-----------------------------------------------------------------------------
PCs == {"reset", "entry", "alloc", "read", "sync1", "write", "sync2", "done"}

TypeOK ==
  /\ launch \in Launches
  /\ at \in [Tasklets -> [pc : PCs, pass : {1, 2}, step : Nat]]
  /\ waiting \in [BarrierSizes -> SUBSET Tasklets]
  /\ heap \subseteq Tasklets
  /\ cache \in [Tasklets -> Mram \cup {NoData}]
  /\ mram \in [Mram -> Mram]

(* The memory a pass starts from. *)
Before(i) == IF i = 1 THEN [a \in Mram |-> a] ELSE Moved(P[1], [a \in Mram |-> a])

InLoop(t) == at[t].pc \in {"read", "sync1", "write", "sync2"}

(* No chunk is overwritten before the tasklet that has to move it has read  *)
(* it, and what a tasklet is about to write is the chunk as the pass found  *)
(* it: the barriers in the loop make moving blocks in place safe.           *)
SourceIntact ==
  \A t \in Tasklets :
    LET p == P[at[t].pass]  s == at[t].step  old == Before(at[t].pass)
    IN  /\ at[t].pc = "read" =>
             \A r \in s..(Steps(p, t) - 1) :
               mram[From(p, t, r)] = old[From(p, t, r)]
        /\ at[t].pc \in {"sync1", "write"} => cache[t] = old[From(p, t, s)]

(* When the kernel returns, every block is in its slot and nothing else of  *)
(* the MRAM has changed.                                                    *)
RelocationDone == AllDone => mram = Relocated(launch, [a \in Mram |-> a])

(* mem_reset (tasklet 0) never frees the word_cache a tasklet works with:   *)
(* the first barrier separates it from every mem_alloc.                     *)
CacheAllocated == \A t \in Tasklets : InLoop(t) => t \in heap

(* The two halves of the loop body never overlap between the workers of a   *)
(* pass that has barriers.                                                  *)
PhasesApart ==
  \A t, u \in Tasklets :
    /\ at[t].pc \in {"read", "sync1"} /\ at[u].pc \in {"write", "sync2"}
    /\ at[t].pass = at[u].pass
    => P[at[t].pass].barrier = 0

(* The kernel returns: no tasklet is left in a barrier. *)
Termination == <>AllDone
=============================================================================
