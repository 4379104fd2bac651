------------------------- MODULE ThreadJobSyncProofs -------------------------
(***************************************************************************)
(* The SYNC jobs of ThreadJob: each points to a dpu_thread_job_sync on the  *)
(* stack of its caller, counts the ranks down and wakes the caller with the *)
(* last.  For every instance that JobCallsAssumption admits, none is left   *)
(* when the caller has returned, and what the caller returns is true.       *)
(*                                                                         *)
(* 1. The inductive invariant SyncInv, beside JobInv of ThreadJobProofs:    *)
(*    the count of a call is the number of ranks on which its SYNC job has  *)
(*    not run (Counting), and whoever returns has seen it at 0 (Told), or   *)
(*    has submitted nothing (Unsent).                                       *)
(* 2. What a step does to a FIFO and to the outcome of its jobs: FifoStep,  *)
(*    of five forms; from these alone Proper, Waiting and Behind.           *)
(* 3. Which SYNC jobs a step counts, and what it tells the callers:         *)
(*    WorkNews and ApiNews.                                                 *)
(* 4. The other parts of the invariant, and the theorems.                   *)
(***************************************************************************)
EXTENDS ThreadJobProofs

(* The jobs of call id. *)
SyncJob(id) == [type |-> "sync", id |-> id]
MainJob(id) == [type |-> Call(id).op, id |-> id]

(* The worker of r is done with the first job, which is still in the FIFO. *)
Finishing(r) == \E w \in Workers : work[w].rank = r /\ work[w].pc = "advance"

(* The SYNC job of call id on rank r has been counted. *)
Ran(id, r) ==
  /\ SyncJob(id) \in DOMAIN outcome[r]
  /\ \A n \in DOMAIN jobs[r] : jobs[r][n] = SyncJob(id) => n = 1 /\ Finishing(r)

(* The ranks of call id on which its SYNC job has not. *)
Left(id) == {r \in RankSet(id) : ~Ran(id, r)}

(* The counter of a call is what is left of its ranks. *)
Counting ==
  \A id \in Ids(program) :
    IsFiniteSet(RankSet(id)) /\ call[id].left = Cardinality(Left(id))

(* A caller is woken by the last count. *)
Told == \A t \in Threads : api[t].pc = "woken" => call[api[t].id].left = 0

(* Calls that give up, or run the job themselves, submit nothing. *)
Inline == {"inline", "inlinerun", "inlinepoll", "inlineend"}

Unsent ==
  \A t \in Threads :
    /\ api[t].pc \in Inline \cup {"unget"} => Fresh(api[t].id)
    /\ api[t].pc = "join" => Call(api[t].id).op = "free"

(* What a thread has still to make has not returned. *)
Unanswered(id) == call[id].answer = "none"
BodyUnanswered(id, r) ==
  \A m \in DOMAIN Call(id).body : Unanswered(BodyOf(program, id, r)[m])

Unreturned == \A t \in Threads : \A id \in Mine(t) : Unanswered(id)

BodiesUnreturned ==
  /\ \A id \in Ids(program) : Call(id).op = "callback" =>
       \A r \in RankSet(id) :
         (IF UsesMaster(Call(id)) THEN ~(RankSet(id) \subseteq Arrived(id)) ELSE r \notin Arrived(id))
           => BodyUnanswered(id, r)
  /\ \A w \in Workers : work[w].pc \in Before => BodyUnanswered(Cb(w), work[w].rank)

(* When a call has returned, its SYNC jobs have run. *)
Answered ==
  \A id \in Ids(program) : call[id].answer # "none" =>
    \A r \in Ranks : SyncJob(id) \in DOMAIN outcome[r] => Ran(id, r)

(* Only a LAUNCH waits for its rank. *)
Launched == \A w \in Workers : work[w].pc \in {"poll", "polled"} => work[w].job.type = "launch"

(* The jobs that were submitted are those of calls, on their ranks. *)
Proper ==
  \A r \in Ranks : \A j \in DOMAIN outcome[r] :
    /\ j.id \in Ids(program) /\ r \in RankSet(j.id) /\ Call(j.id).op # "free"
    /\ j = SyncJob(j.id) => Waits(Call(j.id))

(* The jobs of a FIFO are waiting for their turn ... *)
Waiting ==
  \A r \in Ranks : \A n \in DOMAIN jobs[r] :
    outcome[r][jobs[r][n]] = "queued" <=> ~Dropping(r)

(* ... and a SYNC job is behind the job it is for. *)
Behind ==
  \A r \in Ranks : \A n \in DOMAIN jobs[r] : \A id \in Ids(program) :
    jobs[r][n] = SyncJob(id) /\ outcome[r][SyncJob(id)] = "queued" /\ Call(id).op # "sync" =>
      \/ n > 1 /\ jobs[r][n - 1] = MainJob(id)
      \/ MainJob(id) \in DOMAIN outcome[r] /\ outcome[r][MainJob(id)] = "done"

(* A SYNC job that has run tells of a failure, or its job is done. *)
RanRight ==
  \A id \in Ids(program) : \A r \in RankSet(id) :
    Ran(id, r) /\ Call(id).op # "sync" =>
      call[id].failed \/ (MainJob(id) \in DOMAIN outcome[r] /\ outcome[r][MainJob(id)] = "done")

(* What a synchronous call that returned DPU_OK is for is done. *)
AnsweredRight ==
  \A id \in Ids(program) :
    Call(id).sync /\ Call(id).op # "sync" /\ call[id].answer = "ok" =>
      \A r \in Ranks : MainJob(id) \in DOMAIN outcome[r] => outcome[r][MainJob(id)] = "done"

(* The inductive invariant. *)
SyncInv ==
  /\ Counting /\ Told /\ Unsent /\ Unreturned /\ BodiesUnreturned /\ Answered
  /\ Launched /\ Proper /\ Waiting /\ Behind /\ RanRight /\ AnsweredRight

-----------------------------------------------------------------------------
(* Sequences by their elements.                                             *)
LEMMA TailAt ==
  ASSUME NEW S, NEW s \in Seq(S), s # <<>>, NEW u, u = Tail(s)
  PROVE  /\ \A n \in DOMAIN u : n \in Nat /\ n # 0 /\ n + 1 \in DOMAIN s /\ n + 1 # 1 /\ u[n] = s[n + 1]
         /\ \A n \in DOMAIN s : n # 1 =>
              \E m \in DOMAIN u : m \in Nat /\ n = m + 1 /\ u[m] = s[n]
         /\ 1 \in DOMAIN s /\ Head(s) = s[1]
<1>1. /\ Len(s) \in Nat /\ Len(s) > 0 /\ DOMAIN s = 1..Len(s) /\ Head(s) = s[1]
      /\ DOMAIN u = 1..(Len(s) - 1)
      /\ \A n \in 1..(Len(s) - 1) : u[n] = s[n + 1]
  BY TailFacts
<1>2. \A n \in 1..(Len(s) - 1) : n \in Nat /\ n # 0 /\ n + 1 \in 1..Len(s) /\ n + 1 # 1
  BY <1>1
<1>3. ASSUME NEW n \in 1..Len(s), n # 1
      PROVE  \E m \in DOMAIN u : m \in Nat /\ n = m + 1 /\ u[m] = s[n]
  <2>1. n - 1 \in 1..(Len(s) - 1) /\ n - 1 \in Nat /\ n = (n - 1) + 1
    BY <1>1, <1>3
  <2>2. u[n - 1] = s[n]
    BY <1>1, <2>1
  <2>3. QED
    BY <1>1, <2>1, <2>2
<1>4. 1 \in 1..Len(s)
  BY <1>1
<1>5. \A n \in DOMAIN u : n \in Nat /\ n # 0 /\ n + 1 \in DOMAIN s /\ n + 1 # 1 /\ u[n] = s[n + 1]
  BY <1>1, <1>2
<1>6. QED
  BY <1>1, <1>3, <1>4, <1>5

LEMMA ConcatAt ==
  ASSUME NEW S, NEW s \in Seq(S), NEW b \in Seq(S), Len(b) \in {1, 2}, NEW u, u = s \o b
  PROVE  /\ \A n \in DOMAIN s : n \in DOMAIN u /\ u[n] = s[n] /\ n \in Nat
         /\ \A n \in DOMAIN u :
              \/ n \in DOMAIN s /\ u[n] = s[n]
              \/ n = Len(s) + 1 /\ u[n] = b[1]
              \/ n = Len(s) + 2 /\ u[n] = b[2] /\ u[n - 1] = b[1] /\ n > 1 /\ Len(b) = 2
         /\ Len(s) \in Nat /\ (s = <<>> <=> Len(s) = 0)
<1>1. b # <<>>
  <2>1. b = <<>> => Len(b) = 0
    BY EmptyFacts
  <2>2. ASSUME NEW n \in {1, 2} PROVE n # 0
    OBVIOUS
  <2>3. QED
    BY <2>1, <2>2, Zenon
<1>2. /\ Len(s) \in Nat /\ Len(b) \in Nat /\ DOMAIN s = 1..Len(s)
      /\ DOMAIN u = 1..(Len(s) + Len(b))
      /\ \A n \in 1..Len(s) : u[n] = s[n]
      /\ \A n \in 1..(Len(s) + Len(b)) : n > Len(s) => u[n] = b[n - Len(s)]
  BY <1>1, ConcatFacts
<1>3. \A n \in 1..Len(s) : n \in 1..(Len(s) + Len(b)) /\ n \in Nat
  BY <1>2
<1>4. ASSUME NEW n \in 1..(Len(s) + Len(b))
      PROVE  \/ n \in 1..Len(s)
             \/ n = Len(s) + 1 /\ n > Len(s) /\ n - Len(s) = 1
             \/ n = Len(s) + 2 /\ n > Len(s) /\ n - Len(s) = 2 /\ Len(b) = 2
                /\ n - 1 \in 1..(Len(s) + Len(b)) /\ n - 1 > Len(s) /\ (n - 1) - Len(s) = 1 /\ n > 1
  <2>1. ASSUME NEW k \in Nat, NEW l \in {1, 2}, n \in 1..(k + l)
        PROVE  \/ n \in 1..k
               \/ n = k + 1 /\ n > k /\ n - k = 1
               \/ n = k + 2 /\ n > k /\ n - k = 2 /\ l = 2
                  /\ n - 1 \in 1..(k + l) /\ n - 1 > k /\ (n - 1) - k = 1 /\ n > 1
    BY <2>1
  <2>2. QED
    BY <1>2, <2>1
<1>5. \A n \in 1..(Len(s) + Len(b)) :
        \/ n \in 1..Len(s) /\ u[n] = s[n]
        \/ n = Len(s) + 1 /\ u[n] = b[1]
        \/ n = Len(s) + 2 /\ u[n] = b[2] /\ u[n - 1] = b[1] /\ n > 1 /\ Len(b) = 2
  BY <1>2, <1>4
<1>6. s = <<>> <=> Len(s) = 0
  BY EmptyFacts
<1>7. QED
  BY <1>2, <1>3, <1>5, <1>6

(* What a step does to the FIFO of r, and to what became of its jobs.       *)
FifoSame(r) ==
  /\ jobs'[r] = jobs[r] /\ outcome'[r] = outcome[r]
  /\ (Dropping(r)' <=> Dropping(r)) /\ (Finishing(r) => Finishing(r)')

(* The head ends. *)
FifoEnds(r) ==
  /\ jobs[r] # <<>> /\ jobs'[r] = Tail(jobs[r])
  /\ outcome'[r] = [outcome[r] EXCEPT ![Head(jobs[r])] = "done"]
  /\ ~Dropping(r) /\ ~Dropping(r)' /\ ~Finishing(r)'

(* It fails, *)
FifoFails(r) ==
  /\ jobs[r] # <<>> /\ jobs'[r] = jobs[r]
  /\ outcome'[r] = [j \in DOMAIN outcome[r] |->
                      IF j = Head(jobs[r]) THEN "failed"
                      ELSE IF outcome[r][j] = "queued" THEN "dropped" ELSE outcome[r][j]]
  /\ ~Dropping(r) /\ Dropping(r)' /\ (Finishing(r) => Finishing(r)')

(* and the jobs behind it go one by one. *)
FifoDrops(r) ==
  /\ jobs[r] # <<>> /\ jobs'[r] = Tail(jobs[r]) /\ outcome'[r] = outcome[r]
  /\ Dropping(r) /\ (Dropping(r)' \/ jobs'[r] = <<>>) /\ ~Finishing(r)'

(* Those of call id are submitted. *)
FifoAdds(r, id) ==
  /\ jobs'[r] = jobs[r] \o JobsOf(program, id)
  /\ outcome'[r] = WithQueued(outcome[r], {JobsOf(program, id)[n] : n \in 1..Need(id)})
  /\ r \in RankSet(id) /\ Call(id).op # "free" /\ NewTo(id, r)
  /\ ~Dropping(r) /\ ~Dropping(r)' /\ (Finishing(r)' <=> Finishing(r))
  /\ jobs[r] = <<>> => ~Finishing(r)

FifoServes(r) == FifoSame(r) \/ FifoEnds(r) \/ FifoFails(r) \/ FifoDrops(r)
FifoStep(r) == FifoServes(r) \/ \E id \in Ids(program) : FifoAdds(r, id)

(* A worker that has finished a job or drops some has the FIFO. *)
LEMMA FinishingServes ==
  ASSUME NEW r, Finishing(r) \/ Dropping(r)
  PROVE  \E v \in Workers : work[v].pc \in {"advance", "drop"} /\ work[v].rank = r /\ HasFifo(v)
BY DEF Finishing, Dropping, HasFifo


(* Every step of a worker. *)
LEMMA WorkFifos ==
  ASSUME Good, Gathered, NEW w \in Workers, Does(w)
  PROVE  \A r \in Ranks : FifoServes(r)
<1>1. Worked(w) /\ Kinds(w) /\ Shapes /\ Places /\ Calling /\ program' = program
  BY DEF Good, Does, Worked
<1>2. \A r : r # work[w].rank /\ r # work'[w].rank =>
        (Dropping(r)' <=> Dropping(r)) /\ (Finishing(r)' <=> Finishing(r))
  BY <1>1 DEF Dropping, Finishing, Worked
<1>3. ASSUME NEW s, s = work[w].rank, HasFifo(w)
      PROVE  /\ s \in Ranks /\ jobs[s] # <<>>
             /\ \A v \in Workers \ {w} : ~(work[v].rank = s /\ HasFifo(v))
             /\ (Dropping(s) <=> work[w].pc = "drop") /\ (Finishing(s) <=> work[w].pc = "advance")
             /\ work'[w].rank = s =>
                  (Dropping(s)' <=> work'[w].pc = "drop") /\ (Finishing(s)' <=> work'[w].pc = "advance")
  <2>1. s \in Ranks /\ jobs[s] # <<>> /\ ~OtherServes(w, s)
    BY <1>3, Serving1 DEF Good
  <2>2. \A v \in Workers \ {w} : ~(work[v].rank = s /\ HasFifo(v)) /\ work'[v] = work[v]
    BY <1>1, <2>1 DEF OtherServes, Worked
  <2>3. \A v \in Workers \ {w} : ~(work[v].rank = s /\ work[v].pc \in {"drop", "advance"})
    BY <2>2 DEF HasFifo
  <2>4. QED
    BY <1>3, <2>1, <2>2, <2>3 DEF Dropping, Finishing
<1>4. CASE Fails(w)
  <2>1. ASSUME NEW s, s = work[w].rank, NEW r \in Ranks
        PROVE  FifoServes(r)
    <3>1. /\ jobs' = jobs /\ work[w].pc = "fail" /\ work'[w].pc = "drop" /\ work'[w].rank = s
          /\ outcome' = [outcome EXCEPT ![s] =
                           [j \in DOMAIN @ |-> IF j = Head(jobs[s]) THEN "failed"
                                               ELSE IF @[j] = "queued" THEN "dropped" ELSE @[j]]]
      BY <1>4, <2>1 DEF Fails, SameJob
    <3>2. HasFifo(w)
      BY <3>1 DEF HasFifo
    <3>3. s \in Ranks /\ jobs[s] # <<>> /\ ~Dropping(s) /\ Dropping(s)' /\ ~Finishing(s)
      BY <1>3, <2>1, <3>1, <3>2
    <3>4. CASE r = s
      BY <1>1, <3>1, <3>3, <3>4 DEF FifoServes, FifoFails, Shapes
    <3>5. CASE r # s
      BY <1>1, <1>2, <2>1, <3>1, <3>5 DEF FifoServes, FifoSame, Shapes
    <3>6. QED
      BY <3>4, <3>5
  <2>2. QED
    BY <2>1
<1>5. CASE Drops(w)
  <2>1. ASSUME NEW s, s = work[w].rank, NEW r \in Ranks
        PROVE  FifoServes(r)
    <3>1. /\ outcome' = outcome /\ work[w].pc = "drop" /\ work'[w].rank = s
          /\ jobs' = [jobs EXCEPT ![s] = Tail(@)]
          /\ work'[w].pc = "drop" \/ (Len(jobs[s]) = 1 /\ work'[w].pc = "unlock")
      BY <1>5, <2>1 DEF Drops, SameJob
    <3>2. HasFifo(w)
      BY <3>1 DEF HasFifo
    <3>3. s \in Ranks /\ jobs[s] # <<>> /\ Dropping(s) /\ (Dropping(s)' <=> work'[w].pc = "drop")
          /\ ~Finishing(s)'
      BY <1>3, <2>1, <3>1, <3>2
    <3>4. jobs'[s] = Tail(jobs[s]) /\ \A x \in Ranks \ {s} : jobs'[x] = jobs[x]
      BY <1>1, <3>1, <3>3 DEF Shapes
    <3>5. Dropping(s)' \/ jobs'[s] = <<>>
      <4>1. SUFFICES ASSUME Len(jobs[s]) = 1 PROVE jobs'[s] = <<>>
        BY <3>1, <3>3
      <4>2. jobs[s] \in Seq(JobSet)
        BY <1>1, <3>3 DEF Shapes
      <4>3. Tail(jobs[s]) \in Seq(JobSet) /\ Len(Tail(jobs[s])) = 0
        BY <3>3, <4>1, <4>2, TailFacts
      <4>4. QED
        BY <3>4, <4>3, EmptyFacts
    <3>6. CASE r = s
      BY <3>1, <3>3, <3>4, <3>5, <3>6 DEF FifoServes, FifoDrops
    <3>7. CASE r # s
      BY <1>2, <2>1, <3>1, <3>4, <3>7 DEF FifoServes, FifoSame
    <3>8. QED
      BY <3>6, <3>7
  <2>2. QED
    BY <2>1
<1>6. CASE Pops(w)
  <2>1. ASSUME NEW s, s = work[w].rank, NEW r \in Ranks
        PROVE  FifoServes(r)
    <3>1. Pop(s) /\ work[w].pc \in {"advance", "cbpop"} /\ work'[w].rank = s
          /\ work'[w].pc \in {"unlock", "run", "cbstart", "cbinsert"}
      BY <1>6, <2>1 DEF Pops
    <3>2. HasFifo(w)
      BY <3>1 DEF HasFifo
    <3>3. s \in Ranks /\ jobs[s] # <<>> /\ ~Dropping(s) /\ ~Dropping(s)' /\ ~Finishing(s)'
      BY <1>3, <2>1, <3>1, <3>2
    <3>4. CASE r = s
      BY <1>1, <3>1, <3>3, <3>4 DEF FifoServes, FifoEnds, Pop, Shapes
    <3>5. CASE r # s
      BY <1>1, <1>2, <2>1, <3>1, <3>5 DEF FifoServes, FifoSame, Pop, Shapes
    <3>6. QED
      BY <3>4, <3>5
  <2>2. QED
    BY <2>1
<1>7. CASE AdvancesOther(w)
  <2>1. ASSUME NEW s, s = GlobalRank(w), NEW r \in Ranks
        PROVE  FifoServes(r)
    <3>1. Pop(s) /\ SameJob(w) /\ work[w].pc = "global" /\ work'[w].pc = "global" /\ s # work[w].rank
      BY <1>7, <2>1 DEF AdvancesOther
    <3>2. ParkedUnder(s, Cb(w)) /\ Shrinks(s)
      BY <1>1, <1>7, <2>1, AdvancesOtherStep
    <3>3. s \in Ranks /\ jobs[s] # <<>> /\ ~Served(s)
      BY <3>2 DEF ParkedUnder, Shrinks
    <3>4. ~Dropping(s) /\ ~Finishing(s)
      BY <3>3, FinishingServes DEF Served
    <3>5. \A x : (Dropping(x)' <=> Dropping(x)) /\ (Finishing(x)' <=> Finishing(x))
      BY <1>1, <3>1 DEF Dropping, Finishing, Worked, SameJob
    <3>6. CASE r = s
      BY <1>1, <3>1, <3>3, <3>4, <3>5, <3>6 DEF FifoServes, FifoEnds, Pop, Shapes
    <3>7. CASE r # s
      BY <1>1, <3>1, <3>5, <3>7 DEF FifoServes, FifoSame, Pop, Shapes
    <3>8. QED
      BY <3>6, <3>7
  <2>2. QED
    BY <2>1
<1>8. CASE ~Fails(w) /\ ~Drops(w) /\ ~Pops(w) /\ ~AdvancesOther(w)
  <2>1. /\ UNCHANGED <<jobs, outcome>>
        /\ work[w].pc \notin {"drop", "advance"} /\ work'[w].pc # "drop"
    BY <1>1, <1>8 DEF Kinds, Moves, Rests, Takes, Parks, Passes, Lasts, Reaches, Inserts, Still
  <2>2. \A r : (Dropping(r)' <=> Dropping(r)) /\ (Finishing(r) => Finishing(r)')
    BY <1>1, <2>1 DEF Dropping, Finishing, Worked
  <2>3. QED
    BY <2>1, <2>2 DEF FifoServes, FifoSame
<1>9. QED
  BY <1>4, <1>5, <1>6, <1>7, <1>8


(* Every step of the API. *)
LEMMA AppendsFifo ==
  ASSUME Good, Frames, PendingFresh, Locked, NEW t \in Threads, Appends(t),
         NEW s, s = AddRank(t), NEW id, id = api[t].id
  PROVE  /\ s \in Ranks /\ id \in Ids(program) /\ id \in Mine(t) /\ FifoAdds(s, id)
         /\ \A r \in Ranks \ {s} : FifoSame(r)
         /\ \A r : Finishing(r)' <=> Finishing(r)
<1>1. /\ jobs' = [jobs EXCEPT ![s] = @ \o JobsOf(program, id)]
      /\ outcome' = [outcome EXCEPT ![s] = WithQueued(@, {JobsOf(program, id)[n] : n \in 1..Need(id)})]
      /\ jobsLock[s] \in {None, t} /\ work' = work /\ api[t].pc \in {"add", "addqueue"}
  BY DEF Appends, Append2
<1>2. /\ id \in Ids(program) /\ s \in Ranks /\ Call(id).op # "free" /\ Shapes /\ s \in RankSet(id)
      /\ api[t].i \in DOMAIN RanksOf(id) /\ s = RanksOf(id)[api[t].i]
  BY <1>1, AddFacts DEF Good
<1>3. \A r : (Dropping(r)' <=> Dropping(r)) /\ (Finishing(r)' <=> Finishing(r))
  BY <1>1 DEF Dropping, Finishing
<1>4. ~Dropping(s)
  <2>1. SUFFICES ASSUME Dropping(s) PROVE FALSE
    OBVIOUS
  <2>2. PICK v \in Workers : work[v].pc = "drop" /\ work[v].rank = s
    BY <2>1 DEF Dropping
  <2>3. jobsLock[s] = v /\ v # None
    BY <2>2, JobCallsAssumption DEF Locked
  <2>4. v = t
    BY <1>1, <2>3
  <2>5. api[v] = Idle(<<>>)
    BY <2>2 DEF Frames
  <2>6. QED
    BY <1>1, <2>4, <2>5 DEF Idle
<1>5. jobs[s] = <<>> => ~Finishing(s)
  BY FinishingServes DEF Good, WorkHeads
<1>6. NewTo(id, s)
  <2>1. api[t].i \in Nat
    <3>1. RanksOf(id) \in Seq(Ranks)
      BY <1>2, CallFacts
    <3>2. QED
      BY <1>2, <3>1
  <2>2. QED
    BY <1>1, <1>2, <2>1 DEF PendingFresh, NewTo
<1>7. FifoAdds(s, id)
  BY <1>1, <1>2, <1>3, <1>4, <1>5, <1>6 DEF FifoAdds, Shapes
<1>8. \A r \in Ranks \ {s} : FifoSame(r)
  BY <1>1, <1>3 DEF FifoSame
<1>9. id \in Mine(t)
  BY <1>1, <1>2 DEF Mine
<1>10. QED
  BY <1>2, <1>3, <1>7, <1>8, <1>9

LEMMA CalmFifos ==
  ASSUME NEW t, Calm(t)
  PROVE  /\ \A r \in Ranks : FifoSame(r)
         /\ \A r : Finishing(r)' <=> Finishing(r)
BY DEF Calm, FifoSame, Dropping, Finishing

-----------------------------------------------------------------------------
(* What becomes of the jobs.                                                *)

(* The jobs of a call: itself, and a SYNC job if it is synchronous. *)
LEMMA BatchJobs ==
  ASSUME Shapes, NEW id \in Ids(program), Call(id).op # "free", NEW b, b = JobsOf(program, id)
  PROVE  /\ b \in Seq(JobSet) /\ Len(b) \in {1, 2} /\ Len(b) = Need(id) /\ b[1] = MainJob(id)
         /\ Len(b) = 2 => b[2] = SyncJob(id) /\ Call(id).sync /\ Call(id).op # "sync"
         /\ Call(id).op = "sync" => Len(b) = 1
<1>1. b \in Seq(JobSet) /\ Len(b) \in {1, 2} /\ Len(b) = Need(id)
  BY BatchFacts
<1>2. CASE Call(id).sync /\ Call(id).op # "sync"
  <2>1. JobTypes(Call(id)) = <<Call(id).op, "sync">>
    BY <1>2 DEF JobTypes
  <2>2. b = [n \in DOMAIN <<Call(id).op, "sync">> |-> [type |-> <<Call(id).op, "sync">>[n], id |-> id]]
    BY <2>1 DEF JobsOf, Call
  <2>3. b[1] = MainJob(id) /\ b[2] = SyncJob(id)
    BY <2>2 DEF MainJob, SyncJob
  <2>4. QED
    BY <1>1, <1>2, <2>3
<1>3. CASE ~(Call(id).sync /\ Call(id).op # "sync")
  <2>1. JobTypes(Call(id)) = <<Call(id).op>>
    BY <1>3 DEF JobTypes
  <2>2. b = [n \in DOMAIN <<Call(id).op>> |-> [type |-> <<Call(id).op>>[n], id |-> id]]
    BY <2>1 DEF JobsOf, Call
  <2>3. b[1] = MainJob(id) /\ Need(id) = 1
    BY <2>1, <2>2 DEF MainJob, Need
  <2>4. QED
    BY <1>1, <2>3
<1>4. QED
  BY <1>2, <1>3

(* The jobs submitted to r. *)
LEMMA AddedJobs ==
  ASSUME Shapes, NEW r \in Ranks, NEW id \in Ids(program), FifoAdds(r, id)
  PROVE  /\ \A j : j \in DOMAIN outcome'[r] <=>
               \/ j \in DOMAIN outcome[r] \/ j = MainJob(id)
               \/ j = SyncJob(id) /\ Waits(Call(id))
         /\ \A j \in DOMAIN outcome[r] : outcome'[r][j] = outcome[r][j] /\ j.id # id
         /\ \A j \in DOMAIN outcome'[r] : j \notin DOMAIN outcome[r] => outcome'[r][j] = "queued"
         /\ \A n \in DOMAIN jobs[r] : n \in DOMAIN jobs'[r] /\ jobs'[r][n] = jobs[r][n] /\ n \in Nat
         /\ \A n \in DOMAIN jobs'[r] :
              \/ n \in DOMAIN jobs[r] /\ jobs'[r][n] = jobs[r][n]
              \/ jobs'[r][n] = MainJob(id) /\ (n = 1 => jobs[r] = <<>>)
              \/ jobs'[r][n] = SyncJob(id) /\ jobs'[r][n - 1] = MainJob(id) /\ n > 1
<1> DEFINE b == JobsOf(program, id)
           fifo == jobs[r]
           out == outcome[r]
<1>1. /\ b \in Seq(JobSet) /\ Len(b) \in {1, 2} /\ Len(b) = Need(id) /\ b[1] = MainJob(id)
      /\ Len(b) = 2 => b[2] = SyncJob(id) /\ Call(id).sync /\ Call(id).op # "sync"
      /\ Call(id).op = "sync" => Len(b) = 1
  BY BatchJobs DEF FifoAdds
<1>2. fifo \in Seq(JobSet) /\ jobs'[r] = fifo \o b
  BY DEF FifoAdds, Shapes
<1>3. outcome'[r] = WithQueued(out, {b[n] : n \in 1..Need(id)}) /\ \A j \in DOMAIN out : j.id # id
  BY DEF FifoAdds, NewTo
<1>7. Len(b) = 1 => ~(Call(id).sync /\ Call(id).op # "sync")
  <2>1. Call(id).sync /\ Call(id).op # "sync" => JobTypes(Call(id)) = <<Call(id).op, "sync">>
    BY DEF JobTypes
  <2>2. Call(id).sync /\ Call(id).op # "sync" => Need(id) = 2
    BY <2>1 DEF Need
  <2>3. QED
    BY <1>1, <2>2
<1> HIDE DEF b, fifo, out
<1>4. {b[n] : n \in 1..Need(id)} = {b[1]} \cup (IF Len(b) = 2 THEN {b[2]} ELSE {})
  <2>1. CASE Len(b) = 1
    <3>1. 1..Need(id) = {1}
      BY <1>1, <2>1
    <3>2. QED
      BY <2>1, <3>1
  <2>2. CASE Len(b) = 2
    <3>1. 1..Need(id) = {1, 2}
      BY <1>1, <2>2
    <3>2. QED
      BY <2>2, <3>1
  <2>3. QED
    BY <1>1, <2>1, <2>2
<1>5. /\ \A n \in DOMAIN fifo : n \in DOMAIN jobs'[r] /\ jobs'[r][n] = fifo[n] /\ n \in Nat
      /\ \A n \in DOMAIN jobs'[r] :
           \/ n \in DOMAIN fifo /\ jobs'[r][n] = fifo[n]
           \/ n = Len(fifo) + 1 /\ jobs'[r][n] = b[1]
           \/ n = Len(fifo) + 2 /\ jobs'[r][n] = b[2] /\ jobs'[r][n - 1] = b[1] /\ n > 1 /\ Len(b) = 2
      /\ Len(fifo) \in Nat /\ (fifo = <<>> <=> Len(fifo) = 0)
  BY <1>1, <1>2, ConcatAt
<1>6. Call(id).op = "sync" => MainJob(id) = SyncJob(id)
  BY DEF MainJob, SyncJob
<1>8. /\ \A n \in DOMAIN jobs'[r] :
           \/ n \in DOMAIN fifo /\ jobs'[r][n] = fifo[n]
           \/ jobs'[r][n] = MainJob(id) /\ (n = 1 => fifo = <<>>)
           \/ jobs'[r][n] = SyncJob(id) /\ jobs'[r][n - 1] = MainJob(id) /\ n > 1
  <2>1. Len(fifo) + 1 = 1 => Len(fifo) = 0
    BY <1>5
  <2>2. QED
    BY <1>1, <1>5, <2>1
<1>9. \A j : j \in {b[n] : n \in 1..Need(id)} <=> j = MainJob(id) \/ (j = SyncJob(id) /\ Waits(Call(id)))
  <2>1. CASE Len(b) = 1
    BY <1>1, <1>4, <1>6, <1>7, <2>1 DEF Waits
  <2>2. CASE Len(b) = 2
    BY <1>1, <1>4, <2>2 DEF Waits
  <2>3. QED
    BY <1>1, <2>1, <2>2
<1>10. /\ DOMAIN outcome'[r] = DOMAIN out \cup {b[n] : n \in 1..Need(id)}
       /\ \A j \in DOMAIN outcome'[r] : outcome'[r][j] = IF j \in DOMAIN out THEN out[j] ELSE "queued"
  BY <1>3 DEF WithQueued
<1>11. QED
  BY <1>3, <1>5, <1>8, <1>9, <1>10 DEF fifo, out


(* A job that has been submitted is in the FIFO. *)
LEMMA AddedAre ==
  ASSUME Shapes, NEW r \in Ranks, NEW id \in Ids(program), FifoAdds(r, id)
  PROVE  \A j \in DOMAIN outcome'[r] : j \notin DOMAIN outcome[r] =>
           \E n \in DOMAIN jobs'[r] : jobs'[r][n] = j /\ (n = 1 => jobs[r] = <<>>)
<1> DEFINE b == JobsOf(program, id)
           fifo == jobs[r]
<1>1. b \in Seq(JobSet) /\ Len(b) \in {1, 2} /\ Len(b) = Need(id)
  BY BatchJobs DEF FifoAdds
<1>2. fifo \in Seq(JobSet) /\ jobs'[r] = fifo \o b
  BY DEF FifoAdds, Shapes
<1>3. \A j \in DOMAIN outcome'[r] : j \notin DOMAIN outcome[r] => \E n \in 1..Need(id) : j = b[n]
  BY DEF FifoAdds, WithQueued
<1> HIDE DEF b, fifo
<1>4. b # <<>>
  BY <1>1, EmptyFacts
<1>5. /\ Len(fifo) \in Nat /\ Len(b) \in Nat /\ DOMAIN fifo = 1..Len(fifo)
      /\ DOMAIN jobs'[r] = 1..(Len(fifo) + Len(b))
      /\ \A n \in 1..(Len(fifo) + Len(b)) : n > Len(fifo) => jobs'[r][n] = b[n - Len(fifo)]
  BY <1>1, <1>2, <1>4, ConcatFacts
<1>6. ASSUME NEW n \in 1..Len(b)
      PROVE  /\ Len(fifo) + n \in DOMAIN jobs'[r] /\ jobs'[r][Len(fifo) + n] = b[n]
             /\ Len(fifo) + n = 1 => fifo = <<>>
  <2>1. /\ Len(fifo) + n \in 1..(Len(fifo) + Len(b)) /\ Len(fifo) + n > Len(fifo)
        /\ (Len(fifo) + n) - Len(fifo) = n
        /\ Len(fifo) + n = 1 => Len(fifo) = 0
    BY <1>5
  <2>2. jobs'[r][Len(fifo) + n] = b[(Len(fifo) + n) - Len(fifo)]
    BY <1>5, <2>1
  <2>3. QED
    BY <1>2, <1>5, <2>1, <2>2, EmptyFacts
<1>7. QED
  BY <1>1, <1>3, <1>6 DEF fifo

(* A worker submits nothing. *)
LEMMA ServesKeep ==
  ASSUME NEW r, FifoServes(r)
  PROVE  DOMAIN outcome'[r] = DOMAIN outcome[r]
BY DEF FifoServes, FifoSame, FifoEnds, FifoFails, FifoDrops

LEMMA ProperStep ==
  ASSUME Shapes, Proper, program' = program, \A r \in Ranks : FifoStep(r)
  PROVE  Proper'
<1>1. ASSUME NEW r \in Ranks, NEW j \in DOMAIN outcome'[r]
      PROVE  /\ j.id \in Ids(program) /\ r \in RankSet(j.id) /\ Call(j.id).op # "free"
             /\ j = SyncJob(j.id) => Waits(Call(j.id))
  <2>1. CASE j \in DOMAIN outcome[r]
    BY <2>1 DEF Proper
  <2>2. CASE j \notin DOMAIN outcome[r]
    <3>1. PICK id \in Ids(program) : FifoAdds(r, id)
      BY <2>2, ServesKeep DEF FifoStep
    <3>2. j = MainJob(id) \/ (j = SyncJob(id) /\ Waits(Call(id)))
      BY <2>2, <3>1, AddedJobs
    <3>3. r \in RankSet(id) /\ Call(id).op # "free" /\ j.id = id
      BY <3>1, <3>2 DEF FifoAdds, MainJob, SyncJob
    <3>4. j = SyncJob(id) => Waits(Call(id))
      <4>1. j = MainJob(id) /\ j = SyncJob(id) => Call(id).op = "sync"
        BY DEF MainJob, SyncJob
      <4>2. QED
        BY <3>2, <4>1 DEF Waits
    <3>5. QED
      BY <3>3, <3>4
  <2>3. QED
    BY <2>1, <2>2
<1>2. \A id : Call(id)' = Call(id) /\ RankSet(id)' = RankSet(id)
  BY SameCalls
<1>3. QED
  BY <1>1, <1>2 DEF Proper, SyncJob

(* The head of a FIFO that is not dropped has still to end. *)
LEMMA HeadQueued ==
  ASSUME Shapes, Waiting, NEW r \in Ranks, jobs[r] # <<>>, ~Dropping(r)
  PROVE  outcome[r][Head(jobs[r])] = "queued"
<1>1. jobs[r] \in Seq(JobSet)
  BY DEF Shapes
<1>2. 1 \in DOMAIN jobs[r] /\ Head(jobs[r]) = jobs[r][1]
  BY <1>1, TailAt
<1>3. QED
  BY <1>2 DEF Waiting

(* What is done stays done. *)
LEMMA DoneStays ==
  ASSUME Shapes, Waiting, NEW r \in Ranks, FifoStep(r),
         NEW j \in DOMAIN outcome[r], outcome[r][j] = "done"
  PROVE  j \in DOMAIN outcome'[r] /\ outcome'[r][j] = "done"
<1>1. CASE FifoSame(r) \/ FifoEnds(r) \/ FifoDrops(r)
  BY <1>1 DEF FifoSame, FifoEnds, FifoDrops
<1>2. CASE FifoFails(r)
  BY <1>2, HeadQueued DEF FifoFails
<1>3. ASSUME NEW id \in Ids(program), FifoAdds(r, id)
      PROVE  j \in DOMAIN outcome'[r] /\ outcome'[r][j] = "done"
  BY <1>3, AddedJobs
<1>4. QED
  BY <1>1, <1>2, <1>3 DEF FifoStep, FifoServes

LEMMA WaitingStep ==
  ASSUME Shapes, Distinct, Distinct', Waiting, \A r \in Ranks : FifoStep(r)
  PROVE  Waiting'
<1>1. ASSUME NEW r \in Ranks, NEW n \in DOMAIN jobs'[r]
      PROVE  outcome'[r][jobs'[r][n]] = "queued" <=> ~Dropping(r)'
  <2>1. jobs[r] \in Seq(JobSet)
    BY DEF Shapes
  <2>2. \A m \in DOMAIN jobs[r] : outcome[r][jobs[r][m]] = "queued" <=> ~Dropping(r)
    BY DEF Waiting
  <2>3. /\ \A m, k \in DOMAIN jobs[r] : jobs[r][m] = jobs[r][k] => m = k
        /\ \A m \in DOMAIN jobs[r] : jobs[r][m] \in DOMAIN outcome[r]
    BY DEF Distinct
  <2>4. CASE FifoSame(r)
    BY <1>1, <2>2, <2>4 DEF FifoSame
  <2>5. CASE FifoEnds(r)
    <3>1. n + 1 \in DOMAIN jobs[r] /\ n + 1 # 1 /\ jobs'[r][n] = jobs[r][n + 1]
          /\ 1 \in DOMAIN jobs[r] /\ Head(jobs[r]) = jobs[r][1]
      BY <1>1, <2>1, <2>5, TailAt DEF FifoEnds
    <3>2. jobs'[r][n] # Head(jobs[r])
      BY <2>3, <3>1
    <3>3. QED
      BY <2>2, <2>3, <2>5, <3>1, <3>2 DEF FifoEnds
  <2>6. CASE FifoFails(r)
    <3>1. n \in DOMAIN jobs[r] /\ jobs'[r][n] = jobs[r][n]
      BY <1>1, <2>6 DEF FifoFails
    <3>2. outcome[r][jobs[r][n]] = "queued" /\ jobs[r][n] \in DOMAIN outcome[r]
      BY <2>2, <2>3, <2>6, <3>1 DEF FifoFails
    <3>3. QED
      BY <2>6, <3>1, <3>2 DEF FifoFails
  <2>7. CASE FifoDrops(r)
    <3>1. n + 1 \in DOMAIN jobs[r] /\ jobs'[r][n] = jobs[r][n + 1] /\ jobs'[r] # <<>>
      <4>1. n + 1 \in DOMAIN jobs[r] /\ jobs'[r][n] = jobs[r][n + 1]
        BY <1>1, <2>1, <2>7, TailAt DEF FifoDrops
      <4>2. jobs'[r] # <<>>
        BY <1>1
      <4>3. QED
        BY <4>1, <4>2
    <3>2. QED
      BY <2>2, <2>7, <3>1 DEF FifoDrops
  <2>8. ASSUME NEW id \in Ids(program), FifoAdds(r, id)
        PROVE  outcome'[r][jobs'[r][n]] = "queued" <=> ~Dropping(r)'
    <3>1. ~Dropping(r) /\ ~Dropping(r)'
      BY <2>8 DEF FifoAdds
    <3>2. CASE n \in DOMAIN jobs[r] /\ jobs'[r][n] = jobs[r][n]
      BY <2>2, <2>3, <2>8, <3>1, <3>2, AddedJobs
    <3>3. CASE jobs'[r][n] \in {MainJob(id), SyncJob(id)}
      <4>1. jobs'[r][n].id = id
        BY <3>3 DEF MainJob, SyncJob
      <4>2. jobs'[r][n] \notin DOMAIN outcome[r]
        BY <2>8, <4>1, AddedJobs
      <4>3. jobs'[r][n] \in DOMAIN outcome'[r]
        BY <1>1 DEF Distinct
      <4>4. QED
        BY <2>8, <3>1, <4>2, <4>3, AddedJobs
    <3>4. QED
      BY <1>1, <2>8, <3>2, <3>3, AddedJobs
  <2>9. QED
    BY <2>4, <2>5, <2>6, <2>7, <2>8 DEF FifoStep, FifoServes
<1>2. QED
  BY <1>1 DEF Waiting

LEMMA BehindStep ==
  ASSUME Shapes, Distinct, Waiting, Behind, program' = program, \A r \in Ranks : FifoStep(r)
  PROVE  Behind'
<1>1. ASSUME NEW r \in Ranks, NEW n \in DOMAIN jobs'[r], NEW id \in Ids(program), Call(id).op # "sync",
             jobs'[r][n] = SyncJob(id), outcome'[r][SyncJob(id)] = "queued"
      PROVE  \/ n > 1 /\ jobs'[r][n - 1] = MainJob(id)
             \/ MainJob(id) \in DOMAIN outcome'[r] /\ outcome'[r][MainJob(id)] = "done"
  <2>1. jobs[r] \in Seq(JobSet)
    BY DEF Shapes
  <2>2. \A m \in DOMAIN jobs[r] : outcome[r][jobs[r][m]] = "queued" <=> ~Dropping(r)
    BY DEF Waiting
  <2>3. /\ \A m, k \in DOMAIN jobs[r] : jobs[r][m] = jobs[r][k] => m = k
        /\ \A m \in DOMAIN jobs[r] : jobs[r][m] \in DOMAIN outcome[r]
    BY DEF Distinct
  <2>4. \A m \in DOMAIN jobs[r] : jobs[r][m] = SyncJob(id) /\ outcome[r][SyncJob(id)] = "queued" =>
          \/ m > 1 /\ jobs[r][m - 1] = MainJob(id)
          \/ MainJob(id) \in DOMAIN outcome[r] /\ outcome[r][MainJob(id)] = "done"
    BY <1>1 DEF Behind
  <2>5. MainJob(id) \in DOMAIN outcome[r] /\ outcome[r][MainJob(id)] = "done" =>
          MainJob(id) \in DOMAIN outcome'[r] /\ outcome'[r][MainJob(id)] = "done"
    BY DoneStays
  <2>6. CASE FifoSame(r)
    BY <1>1, <2>4, <2>6 DEF FifoSame
  <2>7. CASE FifoEnds(r)
    <3> DEFINE fifo == jobs[r]
               rest == jobs'[r]
    <3>1. fifo # <<>> /\ rest = Tail(fifo) /\ fifo \in Seq(JobSet)
      BY <2>1, <2>7 DEF FifoEnds
    <3>2. outcome'[r] = [outcome[r] EXCEPT ![Head(fifo)] = "done"]
      BY <2>7 DEF FifoEnds
    <3>3. n \in DOMAIN rest /\ rest[n] = SyncJob(id)
      BY <1>1
    <3>4. /\ \A m, k \in DOMAIN fifo : fifo[m] = fifo[k] => m = k
          /\ \A m \in DOMAIN fifo : fifo[m] \in DOMAIN outcome[r]
      BY <2>3
    <3>5. \A m \in DOMAIN fifo : fifo[m] = SyncJob(id) /\ outcome[r][SyncJob(id)] = "queued" =>
            \/ m > 1 /\ fifo[m - 1] = MainJob(id)
            \/ MainJob(id) \in DOMAIN outcome[r] /\ outcome[r][MainJob(id)] = "done"
      BY <2>4
    <3>6. SUFFICES \/ n > 1 /\ rest[n - 1] = MainJob(id)
                   \/ MainJob(id) \in DOMAIN outcome'[r] /\ outcome'[r][MainJob(id)] = "done"
      OBVIOUS
    <3> HIDE DEF fifo, rest
    <3>7. /\ \A m \in DOMAIN rest : m \in Nat /\ m # 0 /\ m + 1 \in DOMAIN fifo /\ m + 1 # 1 /\ rest[m] = fifo[m + 1]
          /\ \A m \in DOMAIN fifo : m # 1 => \E k \in DOMAIN rest : k \in Nat /\ m = k + 1 /\ rest[k] = fifo[m]
          /\ 1 \in DOMAIN fifo /\ Head(fifo) = fifo[1]
      BY <3>1, TailAt
    <3>8. n \in Nat /\ n # 0 /\ n + 1 \in DOMAIN fifo /\ n + 1 # 1 /\ fifo[n + 1] = SyncJob(id)
      BY <3>3, <3>7
    <3>9. fifo[n + 1] # Head(fifo) /\ fifo[n + 1] \in DOMAIN outcome[r]
      BY <3>4, <3>7, <3>8
    <3>10. outcome[r][SyncJob(id)] = "queued"
      BY <1>1, <3>2, <3>8, <3>9
    <3>11. \/ fifo[(n + 1) - 1] = MainJob(id)
           \/ MainJob(id) \in DOMAIN outcome[r] /\ outcome[r][MainJob(id)] = "done"
      BY <3>5, <3>8, <3>10
    <3>12. (n + 1) - 1 = n
      BY <3>8
    <3>13. CASE fifo[n] = MainJob(id) /\ n = 1
      <4>1. MainJob(id) = Head(fifo) /\ MainJob(id) \in DOMAIN outcome[r]
        BY <3>4, <3>7, <3>13
      <4>2. QED
        BY <3>2, <4>1
    <3>14. CASE fifo[n] = MainJob(id) /\ n # 1
      <4>1. 1 \in DOMAIN fifo /\ n \in DOMAIN fifo
        <5>1. Len(fifo) \in Nat /\ DOMAIN fifo = 1..Len(fifo)
          BY <3>1
        <5>2. QED
          BY <3>7, <3>8, <5>1
      <4>2. PICK k \in DOMAIN rest : k \in Nat /\ n = k + 1 /\ rest[k] = fifo[n]
        BY <3>7, <3>14, <4>1
      <4>3. k = n - 1 /\ n > 1
        BY <3>8, <3>14, <4>2
      <4>4. QED
        BY <3>14, <4>2, <4>3
    <3>15. QED
      BY <2>5, <3>11, <3>12, <3>13, <3>14
  <2>8. CASE FifoFails(r)
    <3>1. n \in DOMAIN jobs[r] /\ jobs'[r][n] = jobs[r][n]
      BY <1>1, <2>8 DEF FifoFails
    <3>2. outcome[r][jobs[r][n]] = "queued" /\ jobs[r][n] \in DOMAIN outcome[r]
      BY <2>2, <2>3, <2>8, <3>1 DEF FifoFails
    <3>3. outcome'[r][jobs[r][n]] # "queued"
      BY <2>8, <3>2 DEF FifoFails
    <3>4. QED
      BY <1>1, <3>1, <3>3
  <2>9. CASE FifoDrops(r)
    <3>1. n + 1 \in DOMAIN jobs[r] /\ jobs'[r][n] = jobs[r][n + 1]
      BY <1>1, <2>1, <2>9, TailAt DEF FifoDrops
    <3>2. outcome'[r][jobs'[r][n]] # "queued"
      BY <2>2, <2>9, <3>1 DEF FifoDrops
    <3>3. QED
      BY <1>1, <3>2
  <2>10. ASSUME NEW c \in Ids(program), FifoAdds(r, c)
         PROVE  \/ n > 1 /\ jobs'[r][n - 1] = MainJob(id)
                \/ MainJob(id) \in DOMAIN outcome'[r] /\ outcome'[r][MainJob(id)] = "done"
    <3>1. CASE n \in DOMAIN jobs[r] /\ jobs'[r][n] = jobs[r][n]
      <4>1. outcome[r][SyncJob(id)] = "queued"
        BY <1>1, <2>3, <2>10, <3>1, AddedJobs
      <4>2. CASE n > 1 /\ jobs[r][n - 1] = MainJob(id)
        <5>1. n - 1 \in DOMAIN jobs[r]
          <6>1. Len(jobs[r]) \in Nat /\ DOMAIN jobs[r] = 1..Len(jobs[r])
            BY <2>1
          <6>2. QED
            BY <3>1, <4>2, <6>1
        <5>2. QED
          BY <2>10, <4>2, <5>1, AddedJobs
      <4>3. QED
        BY <1>1, <2>4, <2>5, <3>1, <4>1, <4>2
    <3>2. CASE jobs'[r][n] = MainJob(c)
      BY <1>1, <3>2 DEF MainJob, SyncJob
    <3>3. CASE jobs'[r][n] = SyncJob(c) /\ jobs'[r][n - 1] = MainJob(c) /\ n > 1
      <4>1. c = id
        BY <1>1, <3>3 DEF SyncJob
      <4>2. QED
        BY <3>3, <4>1
    <3>4. QED
      BY <1>1, <2>10, <3>1, <3>2, <3>3, AddedJobs
  <2>11. QED
    BY <2>6, <2>7, <2>8, <2>9, <2>10 DEF FifoStep, FifoServes
<1>2. \A id : Call(id)' = Call(id)
  BY SameCalls
<1>3. \A id : SyncJob(id)' = SyncJob(id) /\ MainJob(id)' = MainJob(id)
  BY <1>2 DEF SyncJob, MainJob
<1>4. QED
  BY <1>1, <1>2, <1>3 DEF Behind

(* Where a SYNC job has been counted, it stays so. *)
LEMMA RanStays ==
  ASSUME Shapes, NEW r \in Ranks, FifoStep(r), NEW id, Ran(id, r)
  PROVE  Ran(id, r)'
<1>1. jobs[r] \in Seq(JobSet)
  BY DEF Shapes
<1>2. /\ SyncJob(id) \in DOMAIN outcome[r]
      /\ \A n \in DOMAIN jobs[r] : jobs[r][n] = SyncJob(id) => n = 1 /\ Finishing(r)
  BY DEF Ran
<1>3. CASE FifoSame(r)
  BY <1>2, <1>3 DEF FifoSame, Ran, SyncJob
<1>4. CASE FifoFails(r)
  BY <1>2, <1>4 DEF FifoFails, Ran, SyncJob
<1>5. CASE FifoEnds(r) \/ FifoDrops(r)
  <2>1. jobs[r] # <<>> /\ jobs'[r] = Tail(jobs[r]) /\ DOMAIN outcome'[r] = DOMAIN outcome[r]
    BY <1>5 DEF FifoEnds, FifoDrops
  <2>2. \A n \in DOMAIN jobs'[r] : n + 1 \in DOMAIN jobs[r] /\ n + 1 # 1 /\ jobs'[r][n] = jobs[r][n + 1]
    BY <1>1, <2>1, TailAt
  <2>3. \A n \in DOMAIN jobs'[r] : jobs'[r][n] # SyncJob(id)
    BY <1>2, <2>2
  <2>4. QED
    BY <1>2, <2>1, <2>3 DEF Ran, SyncJob
<1>6. ASSUME NEW c \in Ids(program), FifoAdds(r, c)
      PROVE  Ran(id, r)'
  <2>0. \A x : SyncJob(x).id = x /\ MainJob(x).id = x
    BY DEF SyncJob, MainJob
  <2>1. SyncJob(id) \in DOMAIN outcome'[r] /\ id # c
    BY <1>2, <1>6, <2>0, AddedJobs
  <2>2. ASSUME NEW n \in DOMAIN jobs'[r], jobs'[r][n] = SyncJob(id)
        PROVE  n \in DOMAIN jobs[r] /\ jobs'[r][n] = jobs[r][n]
    <3>1. jobs'[r][n] # MainJob(c) /\ jobs'[r][n] # SyncJob(c)
      BY <2>0, <2>1, <2>2
    <3>2. QED
      BY <1>6, <3>1, AddedJobs
  <2>3. \A n \in DOMAIN jobs'[r] : jobs'[r][n] = SyncJob(id) => n = 1 /\ Finishing(r)'
    BY <1>2, <1>6, <2>2 DEF FifoAdds
  <2>4. QED
    BY <2>1, <2>3 DEF Ran, SyncJob
<1>7. QED
  BY <1>3, <1>4, <1>5, <1>6 DEF FifoStep, FifoServes

(* A SYNC job that is submitted has still to be counted. *)
LEMMA AddsNoRan ==
  ASSUME Shapes, NEW r \in Ranks, NEW id, ~Ran(id, r), NEW c \in Ids(program), FifoAdds(r, c)
  PROVE  ~Ran(id, r)'
<1>1. SUFFICES ASSUME Ran(id, r)' PROVE FALSE
  OBVIOUS
<1>2. SyncJob(id) \in DOMAIN outcome[r] =>
        \E n \in DOMAIN jobs[r] : jobs[r][n] = SyncJob(id) /\ ~(n = 1 /\ Finishing(r))
  BY DEF Ran
<1>3. /\ SyncJob(id) \in DOMAIN outcome'[r]
      /\ \A n \in DOMAIN jobs'[r] : jobs'[r][n] = SyncJob(id) => n = 1 /\ Finishing(r)'
  BY <1>1 DEF Ran, SyncJob
<1>4. Finishing(r)' <=> Finishing(r)
  BY DEF FifoAdds
<1>5. CASE SyncJob(id) \in DOMAIN outcome[r]
  <2>1. PICK n \in DOMAIN jobs[r] : jobs[r][n] = SyncJob(id) /\ ~(n = 1 /\ Finishing(r))
    BY <1>2, <1>5
  <2>2. n \in DOMAIN jobs'[r] /\ jobs'[r][n] = SyncJob(id)
    BY <2>1, AddedJobs
  <2>3. QED
    BY <1>3, <1>4, <2>1, <2>2
<1>6. CASE SyncJob(id) \notin DOMAIN outcome[r]
  <2>1. PICK n \in DOMAIN jobs'[r] : jobs'[r][n] = SyncJob(id) /\ (n = 1 => jobs[r] = <<>>)
    BY <1>3, <1>6, AddedAre
  <2>2. n = 1 /\ Finishing(r)' /\ jobs[r] = <<>>
    BY <1>3, <2>1
  <2>3. QED
    BY <2>2 DEF FifoAdds
<1>7. QED
  BY <1>5, <1>6

(* It is counted when it is at the head and its worker is done with it or   *)
(* takes it off.                                                            *)
SyncStays(r) ==
  jobs[r] # <<>> /\ Head(jobs[r]).type = "sync" /\ ~Finishing(r) =>
    jobs'[r] = jobs[r] /\ ~Finishing(r)'

LEMMA RanBegins ==
  ASSUME Shapes, NEW r \in Ranks, FifoStep(r), NEW id, ~Ran(id, r), Ran(id, r)'
  PROVE  /\ jobs[r] # <<>> /\ Head(jobs[r]) = SyncJob(id) /\ ~Finishing(r)
         /\ FifoServes(r) /\ ~SyncStays(r)
<1>1. jobs[r] \in Seq(JobSet)
  BY DEF Shapes
<1>2. SyncJob(id) \in DOMAIN outcome[r] =>
        \E n \in DOMAIN jobs[r] : jobs[r][n] = SyncJob(id) /\ ~(n = 1 /\ Finishing(r))
  BY DEF Ran
<1>3. /\ SyncJob(id) \in DOMAIN outcome'[r]
      /\ \A n \in DOMAIN jobs'[r] : jobs'[r][n] = SyncJob(id) => n = 1 /\ Finishing(r)'
  BY DEF Ran, SyncJob
<1>4. SyncJob(id).type = "sync"
  BY DEF SyncJob
<1>5. CASE FifoSame(r) \/ FifoFails(r)
  <2>1. jobs'[r] = jobs[r] /\ SyncJob(id) \in DOMAIN outcome[r] /\ FifoServes(r)
    BY <1>3, <1>5 DEF FifoSame, FifoFails, FifoServes
  <2>2. PICK n \in DOMAIN jobs[r] : jobs[r][n] = SyncJob(id) /\ ~(n = 1 /\ Finishing(r))
    BY <1>2, <2>1
  <2>3. n = 1 /\ Finishing(r)' /\ ~Finishing(r)
    BY <1>3, <2>1, <2>2
  <2>4. jobs[r] # <<>> /\ Head(jobs[r]) = SyncJob(id)
    <3>1. jobs[r] # <<>>
      BY <2>2
    <3>2. QED
      BY <1>1, <2>2, <2>3, <3>1, TailAt
  <2>5. QED
    BY <1>4, <2>1, <2>3, <2>4 DEF SyncStays
<1>6. CASE FifoEnds(r) \/ FifoDrops(r)
  <2>1. jobs[r] # <<>> /\ jobs'[r] = Tail(jobs[r]) /\ DOMAIN outcome'[r] = DOMAIN outcome[r]
        /\ FifoServes(r) /\ ~Finishing(r)'
    BY <1>6 DEF FifoEnds, FifoDrops, FifoServes
  <2>2. PICK n \in DOMAIN jobs[r] : jobs[r][n] = SyncJob(id) /\ ~(n = 1 /\ Finishing(r))
    BY <1>2, <1>3, <2>1
  <2>3. n = 1
    <3>1. SUFFICES ASSUME n # 1 PROVE FALSE
      OBVIOUS
    <3>2. \A k \in DOMAIN jobs[r] : k # 1 => \E m \in DOMAIN jobs'[r] : jobs'[r][m] = jobs[r][k]
      <4>1. ASSUME NEW s, s = jobs[r], NEW u, u = jobs'[r], NEW k \in DOMAIN s, k # 1
            PROVE  \E m \in DOMAIN u : u[m] = s[k]
        <5>1. s \in Seq(JobSet) /\ s # <<>> /\ u = Tail(s)
          BY <1>1, <2>1, <4>1
        <5>2. /\ \A m \in DOMAIN u : m \in Nat /\ m # 0 /\ m + 1 \in DOMAIN s /\ m + 1 # 1 /\ u[m] = s[m + 1]
              /\ \A m \in DOMAIN s : m # 1 => \E q \in DOMAIN u : q \in Nat /\ m = q + 1 /\ u[q] = s[m]
              /\ 1 \in DOMAIN s /\ Head(s) = s[1]
          BY <5>1, TailAt
        <5>3. QED
          BY <4>1, <5>2
      <4>2. QED
        BY <4>1
    <3>3. QED
      <4>1. PICK m \in DOMAIN jobs'[r] : jobs'[r][m] = SyncJob(id)
        BY <2>2, <3>1, <3>2
      <4>2. QED
        BY <1>3, <2>1, <4>1
  <2>4. Head(jobs[r]) = SyncJob(id) /\ ~Finishing(r)
    BY <1>1, <2>1, <2>2, <2>3, TailAt
  <2>5. jobs'[r] # jobs[r]
    <3>1. 1 \in DOMAIN jobs[r] /\ jobs[r][1] = SyncJob(id)
      BY <1>1, <2>1, <2>2, <2>3, TailAt
    <3>2. SUFFICES ASSUME jobs'[r] = jobs[r] PROVE FALSE
      OBVIOUS
    <3>3. QED
      BY <1>3, <2>1, <3>1, <3>2
  <2>6. QED
    BY <1>4, <2>1, <2>4, <2>5 DEF SyncStays
<1>7. ASSUME NEW c \in Ids(program), FifoAdds(r, c)
      PROVE  FALSE
  BY <1>7, AddsNoRan
<1>8. QED
  BY <1>5, <1>6, <1>7 DEF FifoStep, FifoServes

-----------------------------------------------------------------------------
(* What a worker tells the callers.                                         *)
NotesKept ==
  \A id \in Ids(program) :
    /\ call'[id].left = call[id].left /\ call'[id].failed = call[id].failed
    /\ call'[id].answer = call[id].answer

(* Thread t is not woken by its last SYNC job. *)
NotWoken(t) == api'[t].pc = "woken" => api[t].pc = "woken" /\ api'[t].id = api[t].id

(* Those who sleep for a slot are told to look again. *)
LEMMA SlotWakes ==
  ASSUME NEW r, NEW frames, ReleaseSlot(r, frames), DOMAIN frames = Threads,
         \A t \in Threads : DOMAIN frames[t] = ApiFields
  PROVE  \A t \in Threads : api'[t] = frames[t] \/ api'[t].pc = "get"
<1>1. CASE api' = frames
  BY <1>1
<1>2. CASE \E t \in Sleepers(r) : api' = [frames EXCEPT ![t].pc = "get"]
  <2>1. PICK t \in Threads : api' = [frames EXCEPT ![t].pc = "get"]
    BY <1>2 DEF Sleepers
  <2>2. QED
    BY <2>1 DEF ApiFields
<1>3. QED
  BY <1>1, <1>2 DEF ReleaseSlot

LEMMA QuietCalls ==
  ASSUME Shapes, NEW w \in Workers, WorkStep(w), ~RunSync(w), ~Drop(w), program' = program
  PROVE  NotesKept /\ \A t \in Threads : NotWoken(t)
<1>1. /\ DOMAIN api = Threads /\ \A t \in Threads : DOMAIN api[t] = ApiFields
      /\ \A id \in Ids(program) : DOMAIN call[id] = CallFields
      /\ DOMAIN call = Ids(program)
  BY DEF Shapes
<1>2. NotesKept
  <2>1. CASE call' = call
    BY <2>1 DEF NotesKept
  <2>2. CASE Arrives(w)
    BY <1>1, <2>2 DEF NotesKept, Arrives, CallFields
  <2>3. CASE call' = [call EXCEPT ![Cb(w)].master = None]
    BY <1>1, <2>3 DEF NotesKept, CallFields
  <2>4. QED
    BY <2>1, <2>2, <2>3 DEF WorkStep, CallbackStep, Take, Exit, Lock, RunCopy, RunLaunch, Polled,
         Advance, Fail, Unlock, CbArrive, CbLast, CbPop, CbInsert, CbLock, CbStart, CbEnd,
         GlobalQueue, GlobalAdvance, GlobalSkip, GlobalEnd, FreeMaster
<1>3. \A t \in Threads : NotWoken(t)
  <2>1. CASE api' = api
    BY <2>1 DEF NotWoken
  <2>2. CASE \E r : ReleaseSlot(r, api)
    BY <1>1, <2>2, SlotWakes DEF NotWoken
  <2>3. CASE \E todo : api' = [api EXCEPT ![w] = Idle(todo)]
    BY <1>1, <2>3 DEF NotWoken, Idle
  <2>4. QED
    BY <2>1, <2>2, <2>3 DEF WorkStep, CallbackStep, Take, Exit, Lock, RunCopy, RunLaunch, Polled,
         Advance, Fail, Unlock, CbArrive, CbLast, CbPop, CbInsert, CbLock, CbStart, CbEnd,
         GlobalQueue, GlobalAdvance, GlobalSkip, GlobalEnd, FreeMaster
<1>4. QED
  BY <1>2, <1>3

(* A worker that is done with a SYNC job has counted it. *)
LEMMA RunEnds ==
  ASSUME Shapes, Launched, NEW w \in Workers, WorkStep(w), ~RunSync(w), program' = program,
         work[w].pc \in {"lock", "run", "poll", "polled"}, work'[w].pc = "advance"
  PROVE  work[w].job.type # "sync"
<1>1. DOMAIN work = Workers /\ DOMAIN work[w] = WorkFields
  BY DEF Shapes
<1>2. Lock(w) \/ RunCopy(w) \/ RunLaunch(w) \/ Polled(w) \/ CbArrive(w) \/ CbLast(w)
  BY DEF WorkStep, CallbackStep, Take, Exit, Doing,
         Advance, Fail, Drop, Unlock, CbPop, CbInsert, CbLock, CbStart, CbEnd,
         GlobalQueue, GlobalAdvance, GlobalSkip, GlobalEnd, FreeMaster
<1>3. CASE RunCopy(w)
  BY <1>3 DEF RunCopy, Running, Doing, Launched
<1>4. CASE RunLaunch(w) \/ CbArrive(w) \/ CbLast(w)
  BY <1>4 DEF RunLaunch, CbArrive, CbLast, Running
<1>5. CASE Polled(w)
  BY <1>5 DEF Polled, Doing, Launched
<1>6. ~Lock(w)
  BY GoesWorks DEF Lock
<1>7. QED
  BY <1>2, <1>3, <1>4, <1>5, <1>6

LEMMA LaunchedStep ==
  ASSUME Shapes, Launched, NEW w \in Workers, WorkStep(w), program' = program, Worked(w)
  PROVE  Launched'
<1>1. DOMAIN work = Workers /\ DOMAIN work[w] = WorkFields
  BY DEF Shapes
<1>2. ASSUME work'[w].pc \in {"poll", "polled"}
      PROVE  work'[w].job.type = "launch"
  <2>1. CASE RunLaunch(w) \/ Polled(w)
    <3>1. work'[w].job = work[w].job
      BY <2>1, GoesWorks DEF RunLaunch, Polled, SameJob
    <3>2. QED
      BY <2>1, <3>1 DEF RunLaunch, Polled, Running, Doing, Launched
  <2>2. CASE Take(w) \/ Unlock(w)
    <3>1. CASE Take(w)
      <4>1. \E r, j : work' = [work EXCEPT ![w] = [Resting EXCEPT !.pc = "lock", !.rank = r, !.job = j]]
        BY <3>1 DEF Take
      <4>2. work'[w].pc = "lock"
        BY <1>1, <4>1 DEF Resting
      <4>3. QED
        BY <1>2, <4>2
    <3>2. CASE Unlock(w)
      BY <1>1, <1>2, <3>2 DEF Unlock, Resting
    <3>3. QED
      BY <2>2, <3>1, <3>2
  <2>3. CASE Exit(w) \/ Lock(w) \/ RunSync(w) \/ Fail(w) \/ RunCopy(w) \/ CbArrive(w)
             \/ CbInsert(w) \/ CbStart(w)
    <3>1. \/ \E pc \in {"exit", "run", "advance", "drop", "fail", "cbstart", "cbrun"} :
               Goes(w, pc)
          \/ work' = [work EXCEPT ![w] = Resting]
      BY <2>3 DEF Exit, Lock, RunSync, Fail, RunCopy, CbArrive, CbInsert, CbStart
    <3>2. CASE work' = [work EXCEPT ![w] = Resting]
      BY <1>1, <1>2, <3>2 DEF Resting
    <3>3. QED
      BY <1>2, <3>1, <3>2, GoesWorks
  <2>7. CASE CbLast(w)
    BY <1>1, <1>2, <2>7 DEF CbLast, Goes, WorkFields
  <2>4. CASE Advance(w) \/ CbPop(w) \/ CbLock(w) \/ CbEnd(w) \/ GlobalEnd(w) \/ FreeMaster(w)
    BY <1>1, <1>2, <2>4 DEF Advance, CbPop, CbLock, CbEnd, GlobalEnd, FreeMaster, CbOver, Resting, WorkFields
  <2>5. CASE Drop(w) \/ GlobalQueue(w) \/ GlobalAdvance(w) \/ GlobalSkip(w)
    BY <1>1, <1>2, <2>5 DEF Drop, GlobalQueue, GlobalAdvance, GlobalSkip, Goes, Doing, WorkFields
  <2>6. QED
    BY <2>1, <2>2, <2>3, <2>4, <2>5, <2>7 DEF WorkStep, CallbackStep
<1>3. \A v \in Workers \ {w} : work'[v] = work[v]
  BY DEF Worked
<1>4. QED
  BY <1>2, <1>3 DEF Launched

(* The workers count no SYNC job but in RunSync and Drop. *)
LEMMA WorkSyncs ==
  ASSUME Good, Gathered, Launched, NEW w \in Workers, WorkStep(w), Does(w), NEW r \in Ranks,
         r = work[w].rank => ~RunSync(w) /\ ~Drop(w)
  PROVE  SyncStays(r)
<1>1. Shapes /\ Worked(w) /\ Kinds(w) /\ WorkHeads /\ Calling /\ program' = program
  BY DEF Good, Does, Worked
<1>2. SUFFICES ASSUME jobs[r] # <<>>, Head(jobs[r]).type = "sync", ~Finishing(r)
               PROVE  jobs'[r] = jobs[r] /\ ~Finishing(r)'
  BY DEF SyncStays
<1>3. \A v \in Workers \ {w} : ~(work'[v].rank = r /\ work'[v].pc = "advance")
  BY <1>1, <1>2 DEF Finishing, Worked
<1>4. SUFFICES jobs'[r] = jobs[r] /\ ~(work'[w].rank = r /\ work'[w].pc = "advance")
  BY <1>3 DEF Finishing
<1>5. \A id : Head(jobs[r]) # CbJob(id)
  BY <1>2 DEF CbJob
<1>6. CASE AdvancesOther(w)
  <2>1. ASSUME NEW s, s = GlobalRank(w)
        PROVE  s \in Ranks /\ ParkedUnder(s, Cb(w)) /\ Pop(s)
    <3>1. ParkedUnder(s, Cb(w)) /\ Shrinks(s)
      BY <1>1, <1>6, <2>1, AdvancesOtherStep
    <3>2. QED
      BY <1>6, <2>1, <3>1 DEF AdvancesOther, Shrinks
  <2>2. GlobalRank(w) # r
    BY <1>5, <2>1 DEF ParkedUnder
  <2>3. jobs'[r] = jobs[r]
    BY <1>1, <2>1, <2>2 DEF Pop, Shapes
  <2>4. QED
    BY <1>6, <2>3 DEF AdvancesOther
<1>7. CASE ~AdvancesOther(w) /\ r # work[w].rank
  <2>1. jobs'[r] = jobs[r]
    BY <1>1, <1>7 DEF Kinds, Moves, Rests, Takes, Parks, Passes, Lasts, Reaches, Still, Pops, Pop, Inserts,
                      Fails, Drops, Shapes
  <2>2. work'[w].rank = r => work'[w].pc # "advance"
    BY <1>1, <1>7 DEF Kinds, Moves, Rests, Takes, Parks, Passes, Lasts, Reaches, Pops, Inserts,
                      Fails, Drops, SameJob
  <2>3. QED
    BY <2>1, <2>2
<1>8. CASE ~AdvancesOther(w) /\ r = work[w].rank
  <2>1. work[w].pc # "advance"
    BY <1>2, <1>8 DEF Finishing
  <2>2. ~Drops(w)
    <3>1. SUFFICES ASSUME work[w].pc = "drop" PROVE Drop(w)
      BY <1>8 DEF Drops
    <3>2. QED
      BY <3>1 DEF WorkStep, CallbackStep, Take, Exit, Lock, RunCopy, RunLaunch, Polled, RunSync, Running,
           Advance, Fail, Unlock, CbArrive, CbLast, CbPop, CbInsert, CbLock, CbStart, CbEnd,
           GlobalQueue, GlobalAdvance, GlobalSkip, GlobalEnd, FreeMaster, Doing
  <2>3. HasFifo(w) /\ work[w].pc \notin {"drop", "cbinsert"} => work[w].job = Head(jobs[r])
    BY <1>1, <1>8 DEF WorkHeads
  <2>4. HasFifo(w) /\ work[w].pc \in CbPhase /\ work[w].pc # "cbinsert" => FALSE
    BY <1>1, <1>5, <2>3 DEF Calling, CbPhase
  <2>5. ~Pops(w)
    BY <2>1, <2>4 DEF Pops, HasFifo, CbPhase
  <2>6. jobs' = jobs
    BY <1>1, <1>8, <2>2, <2>5 DEF Kinds, Moves, Rests, Takes, Parks, Passes, Lasts, Reaches, Still, Inserts, Fails
  <2>7. ~Passes(w)
    <3>1. SUFFICES ASSUME work[w].pc = "run", work[w].job.type = "callback" PROVE FALSE
      BY DEF Passes, Reaches
    <3>2. QED
      BY <1>2, <2>3, <3>1 DEF HasFifo
  <2>8. ASSUME Moves(w), work'[w].pc = "advance" PROVE FALSE
    <3>1. CASE work[w].pc \in {"lock", "run", "poll", "polled"}
      <4>1. work[w].job.type # "sync"
        BY <1>1, <1>8, <2>8, <3>1, RunEnds
      <4>2. QED
        BY <1>2, <2>3, <3>1, <4>1 DEF HasFifo
    <3>2. CASE work[w].pc \in {"cbrun", "master"} /\ Blocking(w)
      BY <2>4, <3>2 DEF HasFifo, CbPhase
    <3>3. QED
      BY <2>8, <3>1, <3>2 DEF Moves
  <2>9. work'[w].pc # "advance"
    BY <1>1, <1>8, <2>2, <2>5, <2>7, <2>8 DEF Kinds, Rests, Takes, Parks, Lasts, Inserts, Fails
  <2>10. QED
    BY <2>6, <2>9
<1>9. QED
  BY <1>6, <1>7, <1>8

(* In those it is the one at the head. *)
Tells(w) == RunSync(w) \/ (Drop(w) /\ Head(jobs[work[w].rank]).type = "sync")

LEMMA Tellings ==
  ASSUME Good, Gathered, Distinct, NEW w \in Workers, Does(w), Tells(w),
         NEW s, s = work[w].rank, NEW id, id = Head(jobs[s]).id
  PROVE  /\ s \in Ranks /\ jobs[s] # <<>> /\ Head(jobs[s]) = SyncJob(id)
         /\ id \in Ids(program) /\ s \in RankSet(id)
         /\ ~Ran(id, s) /\ Ran(id, s)'
         /\ \E failed \in BOOLEAN : Notified(id, failed) /\ (failed \/ ~Dropping(s))
         /\ \A t \in Threads :
              \/ NotWoken(t)
              \/ /\ api'[t].pc = "woken" /\ api[t].pc = "wait" /\ api[t].id = id /\ api'[t].id = id
                 /\ call[id].left = 1
<1>1. Shapes /\ Worked(w) /\ WorkHeads /\ program' = program
  BY DEF Good, Does, Worked
<1>2. HasFifo(w) /\ (RunSync(w) => work[w].pc = "run" /\ work[w].job.type = "sync")
                 /\ (Drop(w) => work[w].pc = "drop")
  BY DEF Tells, RunSync, Running, Drop, Doing, HasFifo
<1>3. s \in Ranks /\ jobs[s] # <<>> /\ ~OtherServes(w, s) /\ jobs[s] \in Seq(JobSet)
  BY <1>1, <1>2, Serving1 DEF Good, Shapes
<1>4. 1 \in DOMAIN jobs[s] /\ Head(jobs[s]) = jobs[s][1]
  BY <1>3, TailAt
<1>5. Head(jobs[s]).type = "sync" /\ (RunSync(w) => work[w].job = Head(jobs[s]))
  BY <1>1, <1>2 DEF WorkHeads, Tells
<1>6. Head(jobs[s]) = SyncJob(id)
  <2>1. \A j \in JobSet : j.type = "sync" => j = SyncJob(j.id)
    BY DEF JobSet, SyncJob
  <2>2. Head(jobs[s]) \in JobSet
    BY <1>3, <1>4
  <2>3. QED
    BY <1>5, <2>1, <2>2
<1>7. /\ id \in Ids(program) /\ s \in RankSet(id) /\ SyncJob(id) \in DOMAIN outcome[s]
      /\ \A n \in DOMAIN jobs[s] : jobs[s][n] = SyncJob(id) => n = 1
  BY <1>3, <1>4, <1>6 DEF Distinct
<1>8. ~Finishing(s)
  <2>1. \A v \in Workers \ {w} : ~(work[v].rank = s /\ work[v].pc = "advance")
    BY <1>3 DEF OtherServes, HasFifo
  <2>2. QED
    BY <1>2, <2>1 DEF Finishing, Tells
<1>9. ~Ran(id, s)
  BY <1>4, <1>6, <1>8 DEF Ran
<1>10. CASE RunSync(w)
  <2>1. work'[w].pc = "advance" /\ work'[w].rank = s /\ jobs' = jobs /\ outcome' = outcome
    BY <1>1, <1>10, GoesWorks DEF RunSync, fifos, SameJob
  <2>2. Finishing(s)'
    BY <2>1 DEF Finishing
  <2>3. Ran(id, s)'
    BY <1>7, <2>1, <2>2 DEF Ran, SyncJob
  <2>4. Notified(id, FALSE) /\ api' = Awake(id)
    BY <1>5, <1>10 DEF RunSync
  <2>5. ~Dropping(s)
    <3>1. \A v \in Workers \ {w} : ~(work[v].rank = s /\ work[v].pc = "drop")
      BY <1>3 DEF OtherServes, HasFifo
    <3>2. QED
      BY <1>2, <1>10, <3>1 DEF Dropping
  <2>6. \A t \in Threads :
           \/ NotWoken(t)
           \/ /\ api'[t].pc = "woken" /\ api[t].pc = "wait" /\ api[t].id = id /\ api'[t].id = id
              /\ call[id].left = 1
    BY <1>1, <2>4 DEF Awake, Waiter, At, NotWoken, Shapes, ApiFields
  <2>7. QED
    BY <1>3, <1>6, <1>7, <1>9, <2>3, <2>4, <2>5, <2>6
<1>11. CASE Drop(w)
  <2>1. jobs' = [jobs EXCEPT ![s] = Tail(@)] /\ outcome' = outcome
    BY <1>11 DEF Drop
  <2>2. jobs'[s] = Tail(jobs[s])
    BY <1>1, <1>3, <2>1 DEF Shapes
  <2>3. \A n \in DOMAIN jobs'[s] : jobs'[s][n] # SyncJob(id)
    <3>1. \A n \in DOMAIN jobs'[s] : n + 1 \in DOMAIN jobs[s] /\ n + 1 # 1 /\ jobs'[s][n] = jobs[s][n + 1]
      BY <1>3, <2>2, TailAt
    <3>2. QED
      BY <1>7, <3>1
  <2>4. Ran(id, s)'
    BY <1>7, <2>1, <2>3 DEF Ran, SyncJob
  <2>5. Notified(id, TRUE) /\ ReleaseSlot(s, Awake(id))
    BY <1>5, <1>11 DEF Drop
  <2>6. /\ DOMAIN Awake(id) = Threads
        /\ \A t \in Threads : DOMAIN Awake(id)[t] = ApiFields
        /\ \A t \in Threads : \/ Awake(id)[t] = api[t]
                              \/ /\ Awake(id)[t].pc = "woken" /\ api[t].pc = "wait" /\ api[t].id = id
                                 /\ Awake(id)[t].id = id /\ call[id].left = 1
    BY <1>1 DEF Awake, Waiter, At, Shapes, ApiFields
  <2>7. \A t \in Threads : api'[t] = Awake(id)[t] \/ api'[t].pc = "get"
    <3>1. ASSUME NEW frames, frames = Awake(id)
          PROVE  \A t \in Threads : api'[t] = frames[t] \/ api'[t].pc = "get"
      <4>1. /\ ReleaseSlot(s, frames) /\ DOMAIN frames = Threads
            /\ \A t \in Threads : DOMAIN frames[t] = ApiFields
        BY <2>5, <2>6, <3>1
      <4>2. QED
        BY <4>1, SlotWakes
    <3>2. QED
      BY <3>1
  <2>8. \A t \in Threads :
           \/ NotWoken(t)
           \/ /\ api'[t].pc = "woken" /\ api[t].pc = "wait" /\ api[t].id = id /\ api'[t].id = id
              /\ call[id].left = 1
    BY <2>6, <2>7 DEF NotWoken
  <2>9. QED
    BY <1>3, <1>6, <1>7, <1>9, <2>4, <2>5, <2>8
<1>12. QED
  BY <1>10, <1>11 DEF Tells

(* A job that is dropped and is no SYNC job is nobody's news. *)
LEMMA DropsQuietly ==
  ASSUME Shapes, NEW w \in Workers, Drop(w), Head(jobs[work[w].rank]).type # "sync", program' = program
  PROVE  /\ NotesKept /\ (\A t \in Threads : NotWoken(t))
         /\ \A r : r = work[w].rank => SyncStays(r)
<1>1. call' = call /\ ReleaseSlot(work[w].rank, api)
  BY DEF Drop
<1>2. DOMAIN api = Threads /\ \A t \in Threads : DOMAIN api[t] = ApiFields
  BY DEF Shapes
<1>3. \A t \in Threads : NotWoken(t)
  BY <1>1, <1>2, SlotWakes DEF NotWoken
<1>4. QED
  BY <1>1, <1>3 DEF NotesKept, SyncStays

RansKept == \A id \in Ids(program) : \A r \in Ranks : Ran(id, r)' <=> Ran(id, r)

(* The SYNC job of call id on rank s is counted. *)
Counts(s, id) ==
  /\ jobs[s] # <<>> /\ Head(jobs[s]) = SyncJob(id) /\ s \in RankSet(id)
  /\ ~Ran(id, s) /\ Ran(id, s)'
  /\ \A c \in Ids(program) : \A r \in Ranks : c # id \/ r # s => (Ran(c, r)' <=> Ran(c, r))
  /\ \E failed \in BOOLEAN : Notified(id, failed) /\ (failed \/ ~Dropping(s))
  /\ \A t \in Threads :
       \/ NotWoken(t)
       \/ /\ api'[t].pc = "woken" /\ api[t].pc = "wait" /\ api[t].id = id /\ api'[t].id = id
          /\ call[id].left = 1

(* A step of a worker counts one SYNC job, or tells nobody anything. *)
LEMMA WorkNews ==
  ASSUME Good, Gathered, Distinct, Launched, NEW w \in Workers, WorkStep(w), Does(w)
  PROVE  \/ NotesKept /\ RansKept /\ \A t \in Threads : NotWoken(t)
         \/ \E s \in Ranks : \E id \in Ids(program) : Counts(s, id)
<1>1. Shapes /\ program' = program /\ \A r \in Ranks : FifoServes(r)
  BY WorkFifos DEF Good, Does, Worked
<1>2. \A r \in Ranks : FifoStep(r)
  BY <1>1 DEF FifoStep
<1>3. \A c \in Ids(program) : \A r \in Ranks : Ran(c, r) => Ran(c, r)'
  BY <1>1, <1>2, RanStays
<1>4. \A c \in Ids(program) : \A r \in Ranks :
        ~Ran(c, r) /\ Ran(c, r)' => ~SyncStays(r) /\ jobs[r] # <<>> /\ Head(jobs[r]) = SyncJob(c)
  BY <1>1, <1>2, RanBegins
<1>5. CASE ~Tells(w)
  <2>1. \A r \in Ranks : SyncStays(r)
    <3>1. CASE Drop(w)
      <4>1. Head(jobs[work[w].rank]).type # "sync" /\ ~RunSync(w)
        BY <1>5, <3>1 DEF Tells
      <4>2. \A r \in Ranks : r = work[w].rank => SyncStays(r)
        BY <1>1, <3>1, <4>1, DropsQuietly
      <4>3. \A r \in Ranks : r # work[w].rank => SyncStays(r)
        BY WorkSyncs
      <4>4. QED
        BY <4>2, <4>3
    <3>2. CASE ~Drop(w)
      BY <1>5, <3>2, WorkSyncs DEF Tells
    <3>3. QED
      BY <3>1, <3>2
  <2>2. RansKept
    BY <1>3, <1>4, <2>1 DEF RansKept
  <2>3. NotesKept /\ \A t \in Threads : NotWoken(t)
    <3>1. CASE Drop(w)
      BY <1>1, <1>5, <3>1, DropsQuietly DEF Tells
    <3>2. CASE ~Drop(w)
      BY <1>1, <1>5, <3>2, QuietCalls DEF Tells
    <3>3. QED
      BY <3>1, <3>2
  <2>4. QED
    BY <2>2, <2>3
<1>6. CASE Tells(w)
  <2>1. ASSUME NEW s, s = work[w].rank, NEW id, id = Head(jobs[s]).id
        PROVE  s \in Ranks /\ id \in Ids(program) /\ Counts(s, id)
    <3>1. /\ s \in Ranks /\ jobs[s] # <<>> /\ Head(jobs[s]) = SyncJob(id)
          /\ id \in Ids(program) /\ s \in RankSet(id)
          /\ ~Ran(id, s) /\ Ran(id, s)'
          /\ \E failed \in BOOLEAN : Notified(id, failed) /\ (failed \/ ~Dropping(s))
          /\ \A t \in Threads :
               \/ NotWoken(t)
               \/ /\ api'[t].pc = "woken" /\ api[t].pc = "wait" /\ api[t].id = id /\ api'[t].id = id
                  /\ call[id].left = 1
      BY <1>6, <2>1, Tellings
    <3>2. \A r \in Ranks : r # s => SyncStays(r)
      BY <2>1, WorkSyncs
    <3>3. \A c : SyncJob(c) = SyncJob(id) => c = id
      <4>1. \A c : SyncJob(c).id = c
        BY DEF SyncJob
      <4>2. QED
        BY <4>1
    <3>4. \A c \in Ids(program) : \A r \in Ranks : c # id \/ r # s => (Ran(c, r)' <=> Ran(c, r))
      <4>1. \A c \in Ids(program) : \A r \in Ranks : r # s => (Ran(c, r)' <=> Ran(c, r))
        BY <1>3, <1>4, <3>2
      <4>2. \A c \in Ids(program) : c # id => (Ran(c, s)' <=> Ran(c, s))
        BY <1>3, <1>4, <3>1, <3>3
      <4>3. QED
        BY <4>1, <4>2
    <3>5. QED
      BY <3>1, <3>4 DEF Counts
  <2>2. QED
    BY <2>1
<1>7. QED
  BY <1>5, <1>6

(* No step of the API counts one. *)
LEMMA ApiRans ==
  ASSUME Good, Frames, PendingFresh, Locked, NEW t \in Threads, Calm(t) \/ Appends(t)
  PROVE  RansKept /\ \A r \in Ranks : FifoStep(r)
<1>1. Shapes
  BY DEF Good
<1>2. /\ \A r \in Ranks : FifoStep(r) /\ (FifoSame(r) \/ \E c \in Ids(program) : FifoAdds(r, c))
      /\ \A r : Finishing(r)' <=> Finishing(r)
  <2>1. CASE Calm(t)
    BY <2>1, CalmFifos DEF FifoStep, FifoServes
  <2>2. CASE Appends(t)
    <3>1. ASSUME NEW s, s = AddRank(t), NEW id, id = api[t].id
          PROVE  /\ \A r \in Ranks : FifoStep(r) /\ (FifoSame(r) \/ \E c \in Ids(program) : FifoAdds(r, c))
                 /\ \A r : Finishing(r)' <=> Finishing(r)
      <4>1. /\ id \in Ids(program) /\ FifoAdds(s, id)
            /\ \A r \in Ranks \ {s} : FifoSame(r)
            /\ \A r : Finishing(r)' <=> Finishing(r)
        BY <2>2, <3>1, AppendsFifo
      <4>2. QED
        BY <4>1 DEF FifoStep, FifoServes
    <3>2. QED
      BY <3>1
  <2>3. QED
    BY <2>1, <2>2
<1>3. ASSUME NEW id \in Ids(program), NEW r \in Ranks
      PROVE  Ran(id, r)' <=> Ran(id, r)
  <2>1. Ran(id, r) => Ran(id, r)'
    BY <1>1, <1>2, RanStays
  <2>2. ASSUME ~Ran(id, r), Ran(id, r)'
        PROVE  FALSE
    <3>1. FifoServes(r) /\ ~SyncStays(r) /\ ~Finishing(r)
      BY <1>1, <1>2, <2>2, RanBegins
    <3>2. CASE FifoSame(r)
      BY <1>2, <3>1, <3>2 DEF SyncStays, FifoSame
    <3>3. ASSUME NEW c \in Ids(program), FifoAdds(r, c)
          PROVE  FALSE
      BY <1>1, <2>2, <3>3, AddsNoRan
    <3>4. QED
      BY <1>2, <3>1, <3>2, <3>3
  <2>3. QED
    BY <2>1, <2>2
<1>4. QED
  BY <1>2, <1>3 DEF RansKept

-----------------------------------------------------------------------------
(* The count of a call.                                                     *)
LEMMA LeftFacts ==
  ASSUME Counting, NEW id \in Ids(program), NEW s \in Left(id)
  PROVE  /\ call[id].left # 0
         /\ Cardinality(Left(id) \ {s}) = call[id].left - 1
         /\ call[id].left = 1 => Left(id) = {s}
<1>1. IsFiniteSet(RankSet(id)) /\ call[id].left = Cardinality(Left(id))
  BY DEF Counting
<1>2. IsFiniteSet(Left(id))
  BY <1>1, FS_Subset DEF Left
<1>3. /\ IsFiniteSet(Left(id) \ {s}) /\ Cardinality(Left(id) \ {s}) = Cardinality(Left(id)) - 1
  BY <1>2, FS_RemoveElement
<1>4. Cardinality(Left(id)) \in Nat /\ Cardinality(Left(id) \ {s}) \in Nat
  BY <1>2, <1>3, FS_CardinalityType
<1>5. Cardinality(Left(id)) # 0
  BY <1>2, FS_EmptySet
<1>6. Cardinality(Left(id)) = 1 => Cardinality(Left(id) \ {s}) = 0
  BY <1>3, <1>4
<1>7. Cardinality(Left(id)) = 1 => Left(id) \ {s} = {}
  BY <1>3, <1>6, FS_EmptySet
<1>8. QED
  BY <1>1, <1>3, <1>5, <1>7

(* At 0 the SYNC job has run everywhere. *)
LEMMA NoneLeft ==
  ASSUME Counting, NEW id \in Ids(program), call[id].left = 0, NEW r \in RankSet(id)
  PROVE  Ran(id, r)
<1>1. Left(id) = {}
  BY LeftFacts
<1>2. QED
  BY <1>1 DEF Left

LEMMA NotifiedFacts ==
  ASSUME Shapes, NEW id \in Ids(program), NEW failed \in BOOLEAN, Notified(id, failed)
  PROVE  /\ \A c \in Ids(program) : call'[c].answer = call[c].answer
         /\ \A c \in Ids(program) : c # id =>
              call'[c].left = call[c].left /\ call'[c].failed = call[c].failed
         /\ call'[id].left = call[id].left - 1 /\ (call'[id].failed <=> call[id].failed \/ failed)
<1>1. DOMAIN call = Ids(program) /\ \A c \in Ids(program) : DOMAIN call[c] = CallFields
  BY DEF Shapes
<1>2. \A c \in Ids(program) : c # id => call'[c] = call[c]
  BY <1>1 DEF Notified
<1>3. call'[id] = [call[id] EXCEPT !.left = call[id].left - 1, !.failed = call[id].failed \/ failed]
  BY <1>1 DEF Notified
<1>4. /\ call'[id].answer = call[id].answer /\ call'[id].left = call[id].left - 1
      /\ call'[id].failed = (call[id].failed \/ failed)
  BY <1>1, <1>3 DEF CallFields
<1>5. QED
  BY <1>2, <1>4

(* A step that counts nothing. *)
LEMMA CountingKept ==
  ASSUME Shapes, Counting, program' = program, RansKept,
         \A id \in Ids(program) : call'[id].left = call[id].left
  PROVE  Counting'
<1>1. \A id : RankSet(id)' = RankSet(id)
  BY SameCalls
<1>2. ASSUME NEW id \in Ids(program)
      PROVE  Left(id)' = Left(id)
  <2>1. RankSet(id) \subseteq Ranks
    BY CallFacts
  <2>2. QED
    BY <1>1, <2>1 DEF RansKept, Left
<1>3. QED
  BY <1>1, <1>2 DEF Counting

LEMMA CountingCounts ==
  ASSUME Shapes, Counting, program' = program, NEW s \in Ranks, NEW id \in Ids(program), Counts(s, id)
  PROVE  Counting'
<1>1. \A c : RankSet(c)' = RankSet(c)
  BY SameCalls
<1>2. \A c \in Ids(program) : RankSet(c) \subseteq Ranks
  BY CallFacts
<1>3. PICK failed \in BOOLEAN : Notified(id, failed)
  BY DEF Counts
<1>4. /\ \A c \in Ids(program) : c # id => call'[c].left = call[c].left
      /\ call'[id].left = call[id].left - 1
  BY <1>3, NotifiedFacts
<1>5. ASSUME NEW c \in Ids(program), c # id
      PROVE  IsFiniteSet(RankSet(c)) /\ call'[c].left = Cardinality(Left(c)')
  <2>1. Left(c)' = Left(c)
    BY <1>1, <1>2, <1>5 DEF Counts, Left
  <2>2. QED
    BY <1>4, <1>5, <2>1 DEF Counting
<1>6. IsFiniteSet(RankSet(id)) /\ call'[id].left = Cardinality(Left(id)')
  <2>1. s \in Left(id)
    BY DEF Counts, Left
  <2>2. Left(id)' = Left(id) \ {s}
    BY <1>1, <1>2 DEF Counts, Left
  <2>3. Cardinality(Left(id) \ {s}) = call[id].left - 1
    BY <2>1, LeftFacts
  <2>4. QED
    BY <1>4, <2>2, <2>3 DEF Counting
<1>7. \A c \in Ids(program) : IsFiniteSet(RankSet(c)) /\ call'[c].left = Cardinality(Left(c)')
  BY <1>5, <1>6
<1>8. QED
  BY <1>1, <1>7 DEF Counting

(* The caller is told by the last count. *)
LEMMA ToldQuietly ==
  ASSUME Frames, Told, \A t \in Threads : NotWoken(t),
         \A id \in Ids(program) : call'[id].left = call[id].left
  PROVE  Told'
<1>1. \A t \in Threads : api[t].pc = "woken" => api[t].id \in Ids(program)
  BY DEF Frames
<1>2. QED
  BY <1>1 DEF Told, NotWoken

LEMMA ToldCounts ==
  ASSUME Shapes, Frames, Counting, Told, NEW s \in Ranks, NEW id \in Ids(program), Counts(s, id)
  PROVE  Told'
<1>1. PICK failed \in BOOLEAN : Notified(id, failed)
  BY DEF Counts
<1>2. /\ \A c \in Ids(program) : c # id => call'[c].left = call[c].left
      /\ call'[id].left = call[id].left - 1
  BY <1>1, NotifiedFacts
<1>3. call[id].left # 0
  <2>1. s \in Left(id)
    BY DEF Counts, Left
  <2>2. QED
    BY <2>1, LeftFacts
<1>4. ASSUME NEW t \in Threads, api'[t].pc = "woken"
      PROVE  call'[api'[t].id].left = 0
  <2>1. CASE NotWoken(t)
    <3>1. api[t].pc = "woken" /\ api'[t].id = api[t].id /\ api[t].id \in Ids(program)
      BY <1>4, <2>1 DEF NotWoken, Frames
    <3>2. call[api[t].id].left = 0
      BY <3>1 DEF Told
    <3>3. api[t].id # id
      BY <1>3, <3>2
    <3>4. QED
      BY <1>2, <3>1, <3>2, <3>3
  <2>2. CASE api'[t].id = id /\ call[id].left = 1
    BY <1>2, <2>2
  <2>3. QED
    BY <2>1, <2>2 DEF Counts
<1>5. QED
  BY <1>4 DEF Told

-----------------------------------------------------------------------------
(* What a step of the API says of a call.                                   *)
CountsKept == \A id \in Ids(program) : call'[id].left = call[id].left /\ call'[id].failed = call[id].failed

(* The ways a call returns. *)
Answers(t) ==
  LET id == api[t].id
  IN  /\ api[t].pc # "idle" /\ api'[t] = Idle(api[t].todo)
      /\ \A c \in Ids(program) : c # id => call'[c].answer = call[c].answer
      /\ \/ api[t].pc \in {"get", "unget"} \cup Inline
         \/ api[t].pc = "join"
         \/ api[t].pc = "added" /\ ~Waits(Call(id))
         \/ api[t].pc = "woken" /\ call'[id].answer = (IF call[id].failed THEN "error" ELSE "ok")

AnswersKept == \A id \in Ids(program) : call'[id].answer = call[id].answer

LEMMA ReturnAnswers ==
  ASSUME Shapes, NEW t \in Threads, api[t].pc # "idle", api[t].id \in Ids(program), NEW answer,
         Return(t, answer)
  PROVE  /\ CountsKept /\ api'[t] = Idle(api[t].todo) /\ call'[api[t].id].answer = answer
         /\ \A c \in Ids(program) : c # api[t].id => call'[c].answer = call[c].answer
<1>1. /\ DOMAIN call = Ids(program) /\ \A c \in Ids(program) : DOMAIN call[c] = CallFields
      /\ DOMAIN api = Threads
  BY DEF Shapes
<1>2. call' = [call EXCEPT ![api[t].id].answer = answer] /\ api'[t] = Idle(api[t].todo)
  BY <1>1 DEF Return
<1>3. QED
  BY <1>1, <1>2 DEF CountsKept, CallFields

(* A step of the API leaves counts alone and returns from its own call. *)
LEMMA ApiNews ==
  ASSUME Shapes, Frames, NEW t \in Threads, ApiStep(t), program' = program
  PROVE  /\ CountsKept /\ (AnswersKept \/ Answers(t)) /\ api'[t].pc # "woken"
         /\ api'[t].pc \in Inline \cup {"unget"} => api[t].pc \in Early \cup Inline \cup {"unget"}
         /\ api'[t].pc = "join" => Call(api'[t].id).op = "free"
<1> DEFINE Goal == /\ CountsKept /\ (AnswersKept \/ Answers(t)) /\ api'[t].pc # "woken"
                   /\ api'[t].pc \in Inline \cup {"unget"} => api[t].pc \in Early \cup Inline \cup {"unget"}
                   /\ api'[t].pc = "join" => Call(api'[t].id).op = "free"
<1>1. /\ DOMAIN call = Ids(program) /\ \A c \in Ids(program) : DOMAIN call[c] = CallFields
      /\ DOMAIN api = Threads /\ DOMAIN api[t] = ApiFields
      /\ api[t].pc # "idle" => api[t].id \in Ids(program)
  BY DEF Shapes, Frames
<1>2. call' = call => CountsKept /\ AnswersKept
  BY DEF CountsKept, AnswersKept
<1>3. \A todo : Idle(todo).pc = "idle"
  BY DEF Idle
<1>4. ASSUME NEW answer, Return(t, answer), api[t].pc # "idle",
             \/ api[t].pc \in {"get", "unget"}
             \/ api[t].pc = "join"
             \/ api[t].pc = "added" /\ ~Waits(Call(api[t].id))
             \/ api[t].pc = "woken" /\ answer = (IF call[api[t].id].failed THEN "error" ELSE "ok")
      PROVE  Goal
  <2>1. /\ CountsKept /\ api'[t] = Idle(api[t].todo) /\ call'[api[t].id].answer = answer
        /\ \A c \in Ids(program) : c # api[t].id => call'[c].answer = call[c].answer
    BY <1>1, <1>4, ReturnAnswers
  <2>2. api'[t].pc = "idle"
    BY <1>3, <2>1
  <2>3. Answers(t)
    BY <1>4, <2>1 DEF Answers
  <2>4. QED
    BY <2>1, <2>2, <2>3 DEF Inline
<1>5. ASSUME call' = call, api'[t].pc \notin {"woken", "join"} \cup Inline \cup {"unget"}
      PROVE  Goal
  BY <1>2, <1>5
<1>6. CASE Begin(t)
  <2>1. call' = call /\ api'[t].pc \in {"set", "get"}
    BY <1>1, <1>6 DEF Begin, Idle
  <2>2. QED
    BY <1>5, <2>1 DEF Inline
<1>7. CASE GetSlots(t)
  <2>1. PICK n, m :
          \/ api' = [api EXCEPT ![t].pc = "asleep", ![t].got = n]
          \/ api' = [api EXCEPT ![t].i = n, ![t].got = 0]
          \/ api' = [api EXCEPT ![t].i = n, ![t].got = 0, ![t].master = m]
          \/ api' = [api EXCEPT ![t].pc = "set", ![t].i = 1, ![t].got = 0]
    BY <1>7 DEF GetSlots
  <2>2. call' = call /\ api[t].pc = "get"
    BY <1>7 DEF GetSlots, At
  <2>3. api'[t].pc \in {"asleep", "get", "set"}
    BY <1>1, <2>1, <2>2 DEF ApiFields
  <2>4. QED
    BY <1>5, <2>2, <2>3 DEF Inline
<1>8. CASE GetFails(t)
  <2>1. PICK lost :
          \/ /\ api' = [api EXCEPT ![t] = Idle(@.todo)]
             /\ call' = [call EXCEPT ![api[t].id].answer = "error", ![api[t].id].lost = lost]
          \/ /\ api' = [api EXCEPT ![t].pc = "unget", ![t].got = 1]
             /\ call' = [call EXCEPT ![api[t].id].lost = lost]
    BY <1>8 DEF GetFails
  <2>2. api[t].pc = "get"
    BY <1>8 DEF GetFails, At
  <2>3. CASE /\ api' = [api EXCEPT ![t] = Idle(@.todo)]
             /\ call' = [call EXCEPT ![api[t].id].answer = "error", ![api[t].id].lost = lost]
    <3>1. api'[t] = Idle(api[t].todo) /\ api'[t].pc = "idle"
      BY <1>1, <1>3, <2>3
    <3>2. CountsKept /\ \A c \in Ids(program) : c # api[t].id => call'[c].answer = call[c].answer
      BY <1>1, <2>2, <2>3 DEF CountsKept, CallFields
    <3>3. Answers(t)
      BY <2>2, <3>1, <3>2 DEF Answers
    <3>4. QED
      BY <3>1, <3>2, <3>3 DEF Inline
  <2>4. CASE /\ api' = [api EXCEPT ![t].pc = "unget", ![t].got = 1]
             /\ call' = [call EXCEPT ![api[t].id].lost = lost]
    <3>1. api'[t].pc = "unget"
      BY <1>1, <2>4 DEF ApiFields
    <3>2. CountsKept /\ AnswersKept
      BY <1>1, <2>2, <2>4 DEF CountsKept, AnswersKept, CallFields
    <3>3. QED
      BY <2>2, <3>1, <3>2 DEF Early
  <2>5. QED
    BY <2>1, <2>3, <2>4
<1>9. CASE Unget(t)
  <2>1. /\ api[t].pc = "unget"
        /\ Return(t, "error") \/ (call' = call /\ api' = [api EXCEPT ![t].got = api[t].got + 1])
    BY <1>9 DEF Unget, At
  <2>2. CASE Return(t, "error")
    BY <1>4, <2>1, <2>2
  <2>3. CASE call' = call /\ api' = [api EXCEPT ![t].got = api[t].got + 1]
    <3>1. api'[t].pc = "unget"
      BY <1>1, <2>1, <2>3 DEF ApiFields
    <3>2. QED
      BY <1>2, <2>1, <2>3, <3>1
  <2>4. QED
    BY <2>1, <2>2, <2>3
<1>10. CASE SetJobs(t)
  <2>1. /\ api[t].pc = "set"
        /\ \/ api' = api /\ call' = call
           \/ \E pc \in {"do", "dostale"} : \E m :
                /\ api' = [api EXCEPT ![t].pc = pc]
                /\ call' = [call EXCEPT ![api[t].id].master = m]
    BY <1>10 DEF SetJobs, At
  <2>2. CountsKept /\ AnswersKept
    <3>1. ASSUME NEW id, NEW m, call' = [call EXCEPT ![id].master = m]
          PROVE  CountsKept /\ AnswersKept
      BY <1>1, <3>1 DEF CountsKept, AnswersKept, CallFields
    <3>2. QED
      BY <1>2, <2>1, <3>1
  <2>3. api'[t].pc \in {"set", "do", "dostale"}
    BY <1>1, <2>1 DEF ApiFields
  <2>4. QED
    BY <2>2, <2>3 DEF Inline
<1>11. CASE DoJobs(t)
  <2>1. /\ call' = call /\ api[t].pc \in {"do", "dostale"}
        /\ \/ api' = api
           \/ \E pc \in {"inline", "add"} : api' = [api EXCEPT ![t].pc = pc]
    BY <1>11 DEF DoJobs, At
  <2>2. api'[t].pc \in {"do", "dostale", "inline", "add"}
    BY <1>1, <2>1 DEF ApiFields
  <2>3. QED
    BY <1>2, <2>1, <2>2 DEF Inline, Early
<1>12. CASE AddJobs(t) \/ AddQueue(t)
  <2>1. call' = call
    BY <1>12 DEF AddJobs, AddQueue
  <2>2. api'[t].pc \in {"add", "addqueue", "added"}
    <3>1. AddedTo(t).pc \in {"add", "added"} /\ DOMAIN AddedTo(t) = ApiFields
      BY <1>1 DEF AddedTo, ApiFields
    <3>2. \/ api' = [api EXCEPT ![t] = AddedTo(t)]
          \/ api' = [api EXCEPT ![t].pc = "addqueue"]
          \/ \E h : api' = [api EXCEPT ![t] = [AddedTo(t) EXCEPT !.held = h]]
      BY <1>12 DEF AddJobs, AddQueue
    <3>3. QED
      BY <1>1, <3>1, <3>2 DEF ApiFields
  <2>3. QED
    BY <1>5, <2>1, <2>2 DEF Inline
<1>13. CASE Added(t)
  <2>1. /\ api[t].pc = "added"
        /\ \/ call' = call /\ api' = [api EXCEPT ![t].pc = "wait", ![t].held = {}]
           \/ ~Waits(Call(api[t].id)) /\ Return(t, "ok")
    BY <1>13 DEF Added, At
  <2>2. CASE call' = call /\ api' = [api EXCEPT ![t].pc = "wait", ![t].held = {}]
    <3>1. api'[t].pc = "wait"
      BY <1>1, <2>2 DEF ApiFields
    <3>2. QED
      BY <1>5, <2>2, <3>1 DEF Inline
  <2>3. QED
    BY <1>4, <2>1, <2>2
<1>14. CASE Woken(t)
  <2>1. api[t].pc = "woken" /\ Return(t, IF call[api[t].id].failed THEN "error" ELSE "ok")
    BY <1>14 DEF Woken, At
  <2>2. QED
    BY <1>4, <2>1
<1>15. CASE InlineLock(t) \/ InlineLaunch(t) \/ InlinePolled(t)
  <2>1. call' = call /\ api[t].pc \in Inline
    BY <1>15 DEF InlineLock, InlineLaunch, InlinePolled, At, Inline
  <2>2. api'[t].pc \in Inline
    BY <1>1, <1>15 DEF InlineLock, InlineLaunch, InlinePolled, Inline, ApiFields
  <2>3. QED
    BY <1>2, <2>1, <2>2 DEF Inline
<1>16. CASE InlineEnd(t)
  <2>1. /\ api[t].pc \in Inline /\ api'[t] = Idle(api[t].todo)
        /\ \E a, l : call' = [call EXCEPT ![api[t].id].answer = a, ![api[t].id].lost = l]
    BY <1>1, <1>16 DEF InlineEnd, At, Inline
  <2>2. api[t].pc # "idle" /\ api'[t].pc = "idle"
    BY <1>3, <2>1 DEF Inline
  <2>3. CountsKept /\ \A c \in Ids(program) : c # api[t].id => call'[c].answer = call[c].answer
    BY <1>1, <2>1, <2>2 DEF CountsKept, CallFields
  <2>4. Answers(t)
    BY <2>1, <2>2, <2>3 DEF Answers
  <2>5. QED
    BY <2>2, <2>3, <2>4 DEF Inline
<1>17. CASE FreeSet(t)
  <2>1. call' = call /\ api'[t].pc = "join" /\ Call(api'[t].id).op = "free"
    BY <1>1, <1>17 DEF FreeSet, Idle
  <2>2. QED
    BY <1>2, <2>1 DEF Inline
<1>18. CASE Joined(t)
  <2>1. api[t].pc = "join" /\ Return(t, "ok")
    BY <1>18 DEF Joined, At
  <2>2. QED
    BY <1>4, <2>1
<1>19. QED
  BY <1>6, <1>7, <1>8, <1>9, <1>10, <1>11, <1>12, <1>13, <1>14, <1>15, <1>16, <1>17, <1>18
     DEF ApiStep

-----------------------------------------------------------------------------
(* Calls that submit nothing.                                               *)
LEMMA FreshStays ==
  ASSUME SameSubmitted, NEW id, Fresh(id)
  PROVE  Fresh(id)'
BY DEF SameSubmitted, Fresh

LEMMA UnsentWork ==
  ASSUME Shapes, Unsent, program' = program, NEW w \in Workers, Does(w), SameSubmitted
  PROVE  Unsent'
<1>1. ASSUME NEW t \in Threads
      PROVE  /\ api'[t].pc \in Inline \cup {"unget"} => Fresh(api[t].id)' /\ api'[t].id = api[t].id
             /\ api'[t].pc = "join" => Call(api'[t].id).op = "free"
  <2>1. CASE api'[t] = api[t]
    <3>1. api[t].pc \in Inline \cup {"unget"} => Fresh(api[t].id)
      BY DEF Unsent
    <3>2. ASSUME Fresh(api[t].id) PROVE \A r \in Ranks : \A j \in DOMAIN outcome'[r] : j.id # api[t].id
      BY <3>2 DEF Fresh, SameSubmitted
    <3>3. QED
      BY <2>1, <3>1, <3>2 DEF Unsent, Fresh
  <2>2. CASE Wakes(t)
    BY <2>2 DEF Wakes, Inline
  <2>3. CASE Opens(w, t)
    <3>1. api'[t].pc = "idle"
      BY <2>3 DEF Opens, Idle
    <3>2. QED
      BY <3>1 DEF Inline
  <2>4. QED
    BY <2>1, <2>2, <2>3, WorkFrames
<1>2. \A id : Call(id)' = Call(id)
  BY SameCalls
<1>3. \A t \in Threads : api'[t].pc = "join" => CallOf(program', api'[t].id).op = "free"
  BY <1>1 DEF Call
<1>4. QED
  BY <1>1, <1>3 DEF Unsent, Fresh, Call

LEMMA UnsentApi ==
  ASSUME Good, Mindful, PendingFresh, Unsent, program' = program, NEW t \in Threads, Calm(t) \/ Appends(t),
         api'[t].pc \in Inline \cup {"unget"} => api[t].pc \in Early \cup Inline \cup {"unget"},
         api'[t].pc = "join" => Call(api'[t].id).op = "free"
  PROVE  Unsent'
<1>1. Shapes /\ Frames /\ FramesKept(t)
  BY DEF Mindful, Calm, Appends
<1>2. ASSUME NEW u \in Threads \ {t}
      PROVE  /\ api'[u].pc \in Inline \cup {"unget"} => StillFresh(api'[u].id)
             /\ api'[u].pc = "join" => Call(api'[u].id).op = "free"
  <2>1. api'[u] = api[u]
    BY <1>1 DEF FramesKept
  <2>2. ASSUME api[u].pc \in Inline \cup {"unget"}
        PROVE  StillFresh(api[u].id)
    <3>1. Fresh(api[u].id)
      BY <2>2 DEF Unsent
    <3>2. CASE Calm(t)
      BY <3>1, <3>2 DEF Calm, Fresh, StillFresh
    <3>3. CASE Appends(t)
      <4>1. ASSUME NEW a, a = api[t].id
            PROVE  a \in Mine(t) /\ OnlySubmits(a, AddRank(t))
        BY <1>1, <3>3, <4>1, AppendsSubmit DEF Appends, Frames, Mine
      <4>2. api[u].pc # "idle" /\ api[u].id \in Ids(program)
        BY <1>1, <2>2 DEF Frames, Inline
      <4>3. api[u].id \in Mine(u)
        BY <4>2 DEF Mine
      <4>4. api[u].id # api[t].id
        BY <4>1, <4>3, MineApart
      <4>5. QED
        BY <3>1, <4>1, <4>4 DEF OnlySubmits, Fresh, StillFresh
    <3>4. QED
      BY <3>2, <3>3
  <2>3. QED
    BY <2>1, <2>2 DEF Unsent
<1>3. api'[t].pc \in Inline \cup {"unget"} => StillFresh(api'[t].id)
  <2>1. SUFFICES ASSUME api'[t].pc \in Inline \cup {"unget"} PROVE StillFresh(api'[t].id)
    OBVIOUS
  <2>2. api[t].pc \in Early \cup Inline \cup {"unget"}
    BY <2>1
  <2>3. Fresh(api[t].id)
    BY <2>2 DEF PendingFresh, Unsent, Early
  <2>4. api'[t].id = api[t].id /\ outcome' = outcome
    <3>1. Calm(t)
      BY <2>2 DEF Appends, Early, Inline
    <3>2. GoesOnWith(t) \/ Halts(t)
      <4>1. ~Begins(t)
        BY <2>2 DEF Begins, Early, Inline
      <4>2. ~ReturnsTo(t)
        BY <2>1 DEF ReturnsTo, Idle, Inline
      <4>3. QED
        BY <3>1, <4>1, <4>2 DEF Calm
    <3>3. QED
      BY <3>1, <3>2 DEF Calm, GoesOnWith, Halts
  <2>5. QED
    BY <2>3, <2>4 DEF Fresh, StillFresh
<1>4. \A u \in Threads : /\ api'[u].pc \in Inline \cup {"unget"} => StillFresh(api'[u].id)
                         /\ api'[u].pc = "join" => CallOf(program', api'[u].id).op = "free"
  BY <1>2, <1>3 DEF Call
<1>5. QED
  BY <1>4 DEF Unsent, Fresh, StillFresh, Call

-----------------------------------------------------------------------------
(* Calls that have still to be made have not returned.                      *)
LEMMA MineShrinks ==
  ASSUME Good, NEW t \in Threads, Calm(t) \/ Appends(t)
  PROVE  /\ Mine(t)' \subseteq Mine(t)
         /\ \A u \in Threads \ {t} : Mine(u)' = Mine(u)
<1>1. Shapes /\ FramesKept(t) /\ program' = program
  BY DEF Good, Calm, Appends
<1>2. \A u \in Threads \ {t} : Mine(u)' = Mine(u)
  BY <1>1 DEF FramesKept, Mine
<1>3. CASE Begins(t)
  <2> DEFINE todo == api[t].todo
  <2>1. /\ todo \in Seq(Ids(program)) /\ todo # <<>>
        /\ api'[t].id = Head(todo) /\ api'[t].todo = Tail(todo)
    BY <1>1, <1>3 DEF Shapes, Begins
  <2>2. \A m \in DOMAIN todo : todo[m] \in Mine(t)
    BY DEF Mine
  <2>3. \A id \in Mine(t)' : id = api'[t].id \/ \E n \in DOMAIN api'[t].todo : id = api'[t].todo[n]
    BY DEF Mine
  <2> HIDE DEF todo
  <2>4. /\ Head(todo) = todo[1] /\ 1 \in DOMAIN todo
        /\ \A n \in DOMAIN Tail(todo) : \E m \in DOMAIN todo : Tail(todo)[n] = todo[m]
    <3>1. ASSUME NEW rest, rest = Tail(todo)
          PROVE  /\ Head(todo) = todo[1] /\ 1 \in DOMAIN todo
                 /\ \A n \in DOMAIN rest : n + 1 \in DOMAIN todo /\ rest[n] = todo[n + 1]
      BY <2>1, <3>1, TailAt
    <3>2. QED
      BY <3>1
  <2>5. QED
    BY <1>2, <2>1, <2>2, <2>3, <2>4
<1>4. CASE ~Begins(t)
  <2>1. api'[t].todo = api[t].todo /\ (api'[t].pc # "idle" => api[t].pc # "idle" /\ api'[t].id = api[t].id)
    BY <1>4 DEF Calm, Appends, GoesOnWith, ReturnsTo, Halts, Idle
  <2>2. QED
    BY <1>1, <1>2, <2>1 DEF Mine
<1>5. QED
  BY <1>3, <1>4

LEMMA UnreturnedApi ==
  ASSUME Good, Mindful, Unreturned, NEW t \in Threads, Calm(t) \/ Appends(t), AnswersKept \/ Answers(t)
  PROVE  Unreturned'
<1>1. Shapes /\ Frames /\ Names
  BY DEF Mindful
<1>2. /\ Mine(t)' \subseteq Mine(t)
      /\ \A u \in Threads \ {t} : Mine(u)' = Mine(u)
  BY MineShrinks
<1>3. \A u \in Threads : \A id \in Mine(u) : id \in Ids(program)
  BY <1>1 DEF Mine, Names
<1>4. CASE AnswersKept
  BY <1>2, <1>3, <1>4 DEF AnswersKept, Unreturned, Unanswered
<1>5. CASE Answers(t)
  <2> DEFINE a == api[t].id
  <2>1. /\ api[t].pc # "idle" /\ api'[t] = Idle(api[t].todo)
        /\ \A c \in Ids(program) : c # a => call'[c].answer = call[c].answer
    BY <1>5 DEF Answers
  <2>2. a \in Mine(t)
    BY <1>1, <2>1 DEF Frames, Mine
  <2>3. \A n \in DOMAIN api[t].todo : api[t].todo[n] # a
    BY <1>1, <2>1 DEF Names
  <2>4. api'[t].pc = "idle" /\ api'[t].todo = api[t].todo
    BY <2>1 DEF Idle
  <2> HIDE DEF a
  <2>5. \A id \in Mine(t)' : id # a
    BY <2>3, <2>4 DEF Mine
  <2>6. \A u \in Threads \ {t} : \A id \in Mine(u) : id # a
    BY <2>2, MineApart
  <2>7. QED
    BY <1>2, <1>3, <2>1, <2>5, <2>6 DEF Unreturned, Unanswered
<1>6. QED
  BY <1>4, <1>5

LEMMA UnreturnedWork ==
  ASSUME Good, Frames, Names, Unreturned, BodiesUnreturned, AnswersKept, NEW w \in Workers, Does(w)
  PROVE  Unreturned'
<1>1. Shapes /\ program' = program
  BY DEF Good, Does, Worked
<1>2. \A t \in Threads : \A id \in Mine(t) : id \in Ids(program) /\ Unanswered(id)
  BY DEF Mine, Names, Unreturned
<1>3. \A id \in Ids(program) : Unanswered(id) => Unanswered(id)'
  BY DEF AnswersKept, Unanswered
<1>4. ASSUME NEW t \in Threads
      PROVE  \A id \in Mine(t)' : Unanswered(id)'
  <2>1. CASE api'[t] = api[t] \/ Wakes(t)
    <3>1. Mine(t)' \subseteq Mine(t)
      BY <1>1, <2>1 DEF Wakes, Mine
    <3>2. QED
      BY <1>2, <1>3, <3>1
  <2>2. CASE Opens(w, t)
    <3>1. t = w /\ work[w].pc \in Before /\ Opens(w, w)
      BY <2>2 DEF Opens, Before
    <3>2. ASSUME NEW c, c = Cb(w), NEW r, r = work[w].rank
          PROVE  \A id \in Mine(t)' : Unanswered(id)'
      <4>1. BodyUnanswered(c, r)
        BY <3>1, <3>2 DEF BodiesUnreturned
      <4>2. /\ c \in Ids(program) /\ Call(c).op = "callback" /\ r \in RankSet(c)
            /\ api'[w].pc = "idle" /\ api'[w].todo = BodyOf(program, c, r)
        BY <3>1, <3>2, OpensFacts
      <4>3. /\ DOMAIN BodyOf(program, c, r) = DOMAIN Call(c).body
            /\ \A m \in DOMAIN Call(c).body : BodyOf(program, c, r)[m] \in Ids(program)
        BY <1>1, <4>2, BodySequence, BodyInIds
      <4>4. \A id \in Mine(t)' : \E m \in DOMAIN Call(c).body : id = BodyOf(program, c, r)[m]
        BY <3>1, <4>2, <4>3 DEF Mine
      <4>5. QED
        BY <1>3, <4>1, <4>3, <4>4 DEF BodyUnanswered
    <3>3. QED
      BY <3>2
  <2>3. QED
    BY <1>1, <2>1, <2>2, WorkFrames
<1>5. QED
  BY <1>4 DEF Unreturned

-----------------------------------------------------------------------------
(* Nor have those of callbacks that have not begun.                         *)
LEMMA BodiesUnreturnedWork ==
  ASSUME Good, Aside, BodiesUnreturned, AnswersKept, NEW w \in Workers, Does(w)
  PROVE  BodiesUnreturned'
<1>1. Shapes /\ Worked(w) /\ Kinds(w) /\ program' = program /\ Grown /\ Distinct /\ OnceOnly
  BY DoesGrow DEF Good, Aside, Does, Worked
<1>2. ASSUME NEW id \in Ids(program), Call(id).op = "callback", NEW r \in RankSet(id), BodyUnanswered(id, r)
      PROVE  BodyUnanswered(id, r)'
  <2>1. \A m \in DOMAIN Call(id).body : BodyOf(program, id, r)[m] \in Ids(program)
    BY <1>1, <1>2, BodyInIds
  <2>2. QED
    BY <1>1, <1>2, <2>1 DEF BodyUnanswered, Unanswered, AnswersKept, Call, BodyOf
<1>3. \A id \in Ids(program) : Call(id).op = "callback" =>
        \A r \in RankSet(id) : Unarrived(id, r) => BodyUnanswered(id, r)
  BY DEF BodiesUnreturned, Unarrived
<1>4. \A id \in Ids(program) : \A r : Unarrived(id, r)' => Unarrived(id, r)
  BY <1>1 DEF Unarrived, Grown, Arrived, Call, RankSet, RanksOf
<1>5. \A id \in Ids(program') : Call(id)'.op = "callback" =>
        \A r \in RankSet(id)' : Unarrived(id, r)' => BodyUnanswered(id, r)'
  <2>1. \A id : Call(id)' = Call(id) /\ RankSet(id)' = RankSet(id)
    BY <1>1, SameCalls
  <2>2. QED
    BY <1>1, <1>2, <1>3, <1>4, <2>1
<1>6. ASSUME NEW v \in Workers, work'[v].pc \in Before
      PROVE  BodyUnanswered(Cb(v), work[v].rank)'
  <2>1. ASSUME NEW id, id = Cb(v), NEW r, r = work[v].rank,
               work'[v].job = work[v].job, work'[v].rank = work[v].rank, BodyUnanswered(id, r),
               id \in Ids(program), Call(id).op = "callback", r \in RankSet(id)
        PROVE  BodyUnanswered(Cb(v), work[v].rank)'
    <3>1. Cb(v)' = id /\ work'[v].rank = r
      BY <2>1 DEF Cb
    <3>2. BodyUnanswered(id, r)'
      BY <1>2, <2>1
    <3>3. QED
      BY <3>1, <3>2 DEF BodyUnanswered, Call, Unanswered
  <2>2. CASE v # w
    <3>1. work'[v] = work[v]
      BY <1>1, <2>2 DEF Worked
    <3>2. BodyUnanswered(Cb(v), work[v].rank) /\ work[v].pc \in CbPhase
      BY <1>6, <3>1 DEF BodiesUnreturned, Before, CbPhase
    <3>3. \A id, r : id = Cb(v) /\ r = work[v].rank =>
            id \in Ids(program) /\ Call(id).op = "callback" /\ r \in RankSet(id)
      BY <3>2 DEF Good, Calling
    <3>4. QED
      BY <2>1, <3>1, <3>2, <3>3
  <2>3. CASE v = w /\ Lasts(w)
    <3>1. Reaches(w) /\ SameJob(w)
      BY <2>3 DEF Lasts
    <3>2. \A s, id : s = work[w].rank /\ id = Cb(w) =>
            /\ id \in Ids(program) /\ Call(id).op = "callback" /\ s \in RankSet(id)
            /\ s \notin Arrived(id)
      BY <1>1, <3>1, AtCallback
    <3>3. \A s, id : s = work[w].rank /\ id = Cb(w) => BodyUnanswered(id, s)
      BY <1>3, <3>2 DEF Unarrived
    <3>4. QED
      BY <2>1, <2>3, <3>1, <3>2, <3>3 DEF SameJob
  <2>4. CASE v = w /\ ~Lasts(w)
    <3>1. work[w].pc \in Before /\ SameJob(w)
      BY <1>1, <1>6, <2>4 DEF Kinds, Before, Moves, Rests, Takes, Parks, Passes, Pops, Inserts,
                              AdvancesOther, Fails, Drops
    <3>2. BodyUnanswered(Cb(w), work[w].rank) /\ work[w].pc \in CbPhase
      BY <3>1 DEF BodiesUnreturned, Before, CbPhase
    <3>3. \A id, r : id = Cb(w) /\ r = work[w].rank =>
            id \in Ids(program) /\ Call(id).op = "callback" /\ r \in RankSet(id)
      BY <3>2 DEF Good, Calling
    <3>4. QED
      BY <2>1, <2>4, <3>1, <3>2, <3>3 DEF SameJob
  <2>5. QED
    BY <2>2, <2>3, <2>4
<1>7. QED
  BY <1>5, <1>6 DEF BodiesUnreturned, Unarrived

LEMMA BodiesUnreturnedApi ==
  ASSUME Good, Mindful, BodiesUnreturned, NEW t \in Threads, Calm(t) \/ Appends(t), AnswersKept \/ Answers(t)
  PROVE  BodiesUnreturned'
<1>1. /\ Shapes /\ Frames /\ Calling /\ Apart /\ UNCHANGED <<program, work>> /\ SameArrived
  BY CallKept DEF Mindful, Calm, Appends
<1> DEFINE a == api[t].id
<1> DEFINE Runs(c, r) == t \in Workers /\ work[t].pc = "cbrun" /\ Cb(t) = c
                         /\ (~UsesMaster(Call(c)) => r = work[t].rank)
                         /\ work[t].rank \in Arrived(c) /\ (Single(t) => RankSet(c) \subseteq Arrived(c))
<1>2. ASSUME NEW c \in Ids(program), Call(c).op = "callback", NEW r \in RankSet(c), BodyUnanswered(c, r),
             ~Runs(c, r)
      PROVE  BodyUnanswered(c, r)'
  <2>1. \A m \in DOMAIN Call(c).body : BodyOf(program, c, r)[m] \in Ids(program)
    BY <1>1, <1>2, BodyInIds
  <2>2. ASSUME NEW m \in DOMAIN Call(c).body
        PROVE  call'[BodyOf(program, c, r)[m]].answer = call[BodyOf(program, c, r)[m]].answer
    <3>1. CASE AnswersKept
      BY <2>1, <3>1 DEF AnswersKept
    <3>2. CASE Answers(t)
      <4>1. a \in Mine(t)
        BY <1>1, <3>2 DEF Answers, Frames, Mine
      <4>2. BodyOf(program, c, r)[m] # a
        <5>1. ASSUME NEW id \in Mine(t), BodyOf(program, c, r)[m] = id
              PROVE  FALSE
          BY <1>2, <5>1, CallsBody
        <5>2. QED
          BY <4>1, <5>1
      <4>3. QED
        BY <2>1, <3>2, <4>2 DEF Answers
    <3>3. QED
      BY <3>1, <3>2
  <2>3. QED
    BY <1>1, <1>2, <2>2 DEF BodyUnanswered, Unanswered, Call, BodyOf
<1> HIDE DEF a
<1>3. \A id \in Ids(program) : Call(id).op = "callback" =>
        \A r \in RankSet(id) : Unarrived(id, r) => BodyUnanswered(id, r)
  BY DEF BodiesUnreturned, Unarrived
<1>4. \A id \in Ids(program) : \A r : Unarrived(id, r)' => Unarrived(id, r)
  BY <1>1 DEF Unarrived, SameArrived, Arrived, Call, RankSet, RanksOf
<1>5. ASSUME NEW c \in Ids(program), Call(c).op = "callback", NEW r \in RankSet(c), Unarrived(c, r)'
      PROVE  BodyUnanswered(c, r)'
  <2>1. Unarrived(c, r) /\ BodyUnanswered(c, r)
    BY <1>3, <1>4, <1>5
  <2>2. Cb(t) = c => (Single(t) <=> UsesMaster(Call(c)))
    BY DEF Single
  <2>3. ~Runs(c, r)
    BY <2>1, <2>2 DEF Unarrived
  <2>4. QED
    BY <1>2, <1>5, <2>1, <2>3
<1>6. \A id \in Ids(program') : Call(id)'.op = "callback" =>
        \A r \in RankSet(id)' : Unarrived(id, r)' => BodyUnanswered(id, r)'
  <2>1. \A id : Call(id)' = Call(id) /\ RankSet(id)' = RankSet(id)
    BY <1>1, SameCalls
  <2>2. QED
    BY <1>1, <1>5, <2>1
<1>7. ASSUME NEW v \in Workers, work'[v].pc \in Before, NEW c, c = Cb(v), NEW r, r = work[v].rank
      PROVE  BodyUnanswered(Cb(v), work[v].rank)'
  <2>1. BodyUnanswered(c, r) /\ c \in Ids(program) /\ Call(c).op = "callback" /\ r \in RankSet(c)
    BY <1>1, <1>7 DEF BodiesUnreturned, Calling, Before, CbPhase
  <2>2. ASSUME Runs(c, r) PROVE FALSE
    <3>1. t # v
      BY <1>1, <1>7, <2>2 DEF Before
    <3>2. ~Single(t) /\ work[t].rank # r
      BY <1>1, <1>7, <2>2, <3>1 DEF Apart, Before, CbPhase
    <3>3. QED
      BY <2>2, <3>2 DEF Single
  <2>3. BodyUnanswered(c, r)'
    BY <1>2, <2>1, <2>2
  <2>4. Cb(v)' = c /\ work'[v].rank = r
    BY <1>1, <1>7 DEF Cb
  <2>5. QED
    BY <2>3, <2>4 DEF BodyUnanswered, Call, Unanswered
<1>8. QED
  BY <1>6, <1>7 DEF BodiesUnreturned, Unarrived


LEMMA ToldApi ==
  ASSUME Frames, Told, NEW t \in Threads, FramesKept(t), CountsKept, api'[t].pc # "woken"
  PROVE  Told'
<1>1. ASSUME NEW u \in Threads, api'[u].pc = "woken"
      PROVE  call'[api'[u].id].left = 0
  <2>1. api'[u] = api[u]
    BY <1>1 DEF FramesKept
  <2>2. api[u].id \in Ids(program) /\ call[api[u].id].left = 0
    BY <1>1, <2>1 DEF Frames, Told
  <2>3. QED
    BY <2>1, <2>2 DEF CountsKept
<1>2. QED
  BY <1>1 DEF Told

-----------------------------------------------------------------------------
(* What is true of a call that has returned stays true.                     *)
LEMMA AnsweredWork ==
  ASSUME Shapes, Answered, AnswersKept, program' = program, \A r \in Ranks : FifoServes(r)
  PROVE  Answered'
<1>1. ASSUME NEW id \in Ids(program), call'[id].answer # "none", NEW r \in Ranks,
             SyncJob(id) \in DOMAIN outcome'[r]
      PROVE  Ran(id, r)'
  <2>1. SyncJob(id) \in DOMAIN outcome[r]
    BY <1>1, ServesKeep
  <2>2. Ran(id, r)
    BY <1>1, <2>1 DEF Answered, AnswersKept
  <2>3. FifoStep(r)
    BY DEF FifoStep
  <2>4. QED
    BY <2>2, <2>3, RanStays
<1>2. \A id : SyncJob(id)' = SyncJob(id)
  BY DEF SyncJob
<1>3. QED
  BY <1>1, <1>2 DEF Answered

LEMMA AnsweredRightWork ==
  ASSUME Shapes, Waiting, AnsweredRight, AnswersKept, program' = program, \A r \in Ranks : FifoServes(r)
  PROVE  AnsweredRight'
<1>1. \A id : Call(id)' = Call(id)
  BY SameCalls
<1>2. \A id : MainJob(id)' = MainJob(id)
  BY <1>1 DEF MainJob
<1>3. ASSUME NEW id \in Ids(program), Call(id).sync, Call(id).op # "sync", call'[id].answer = "ok",
             NEW r \in Ranks, MainJob(id) \in DOMAIN outcome'[r]
      PROVE  outcome'[r][MainJob(id)] = "done"
  <2>1. MainJob(id) \in DOMAIN outcome[r]
    BY <1>3, ServesKeep
  <2>2. outcome[r][MainJob(id)] = "done"
    BY <1>3, <2>1 DEF AnsweredRight, AnswersKept
  <2>3. FifoStep(r)
    BY DEF FifoStep
  <2>4. QED
    BY <2>1, <2>2, <2>3, DoneStays
<1>4. QED
  BY <1>1, <1>2, <1>3 DEF AnsweredRight

LEMMA RanRightKept ==
  ASSUME Shapes, Waiting, RanRight, program' = program, RansKept, \A r \in Ranks : FifoStep(r),
         \A id \in Ids(program) : call'[id].failed = call[id].failed
  PROVE  RanRight'
<1>1. \A id : Call(id)' = Call(id) /\ RankSet(id)' = RankSet(id)
  BY SameCalls
<1>2. \A id : MainJob(id)' = MainJob(id)
  BY <1>1 DEF MainJob
<1>3. ASSUME NEW id \in Ids(program), NEW r \in RankSet(id), Ran(id, r)', Call(id).op # "sync", ~call'[id].failed
      PROVE  MainJob(id) \in DOMAIN outcome'[r] /\ outcome'[r][MainJob(id)] = "done"
  <2>1. r \in Ranks
    BY CallFacts
  <2>2. Ran(id, r) /\ ~call[id].failed
    BY <1>3, <2>1 DEF RansKept
  <2>3. MainJob(id) \in DOMAIN outcome[r] /\ outcome[r][MainJob(id)] = "done"
    BY <1>3, <2>2 DEF RanRight
  <2>4. QED
    BY <2>1, <2>3, DoneStays
<1>4. QED
  BY <1>1, <1>2, <1>3 DEF RanRight

(* A SYNC job that reports no failure is counted behind a job that is done. *)
LEMMA RanRightCounts ==
  ASSUME Shapes, Waiting, Behind, RanRight, program' = program, \A r \in Ranks : FifoStep(r),
         NEW s \in Ranks, NEW id \in Ids(program), Counts(s, id)
  PROVE  RanRight'
<1>1. \A c : Call(c)' = Call(c) /\ RankSet(c)' = RankSet(c)
  BY SameCalls
<1>2. \A c : MainJob(c)' = MainJob(c)
  BY <1>1 DEF MainJob
<1>3. PICK failed \in BOOLEAN : Notified(id, failed) /\ (failed \/ ~Dropping(s))
  BY DEF Counts
<1>4. /\ \A c \in Ids(program) : c # id => call'[c].failed = call[c].failed
      /\ call'[id].failed <=> call[id].failed \/ failed
  BY <1>3, NotifiedFacts
<1>5. ASSUME NEW c \in Ids(program), NEW r \in RankSet(c), Ran(c, r)', Call(c).op # "sync", ~call'[c].failed
      PROVE  MainJob(c) \in DOMAIN outcome'[r] /\ outcome'[r][MainJob(c)] = "done"
  <2>1. r \in Ranks
    BY CallFacts
  <2>2. ~call[c].failed
    BY <1>4, <1>5
  <2>3. MainJob(c) \in DOMAIN outcome[r] /\ outcome[r][MainJob(c)] = "done"
    <3>1. CASE Ran(c, r)
      BY <1>5, <2>2, <3>1 DEF RanRight
    <3>2. CASE ~Ran(c, r)
      <4>1. c = id /\ r = s /\ jobs[s] # <<>> /\ Head(jobs[s]) = SyncJob(id)
        BY <1>5, <2>1, <3>2 DEF Counts
      <4>2. ~Dropping(s)
        BY <1>3, <1>4, <1>5, <4>1
      <4>3. outcome[s][SyncJob(id)] = "queued"
        BY <4>1, <4>2, HeadQueued
      <4>4. 1 \in DOMAIN jobs[s] /\ jobs[s][1] = SyncJob(id)
        <5>1. jobs[s] \in Seq(JobSet)
          BY DEF Shapes
        <5>2. QED
          BY <4>1, <5>1, TailAt
      <4>5. QED
        BY <1>5, <4>1, <4>3, <4>4 DEF Behind
    <3>3. QED
      BY <3>1, <3>2
  <2>4. QED
    BY <2>1, <2>3, DoneStays
<1>6. QED
  BY <1>1, <1>2, <1>5 DEF RanRight

(* The jobs of a call that returns now. *)
LEMMA AnswersFacts ==
  ASSUME Frames, PendingFresh, Unsent, Told, Counting, Proper, NEW t \in Threads, Answers(t),
         Calm(t) \/ Appends(t), NEW a, a = api[t].id
  PROVE  /\ a \in Ids(program) /\ outcome' = outcome
         /\ \A r \in Ranks : \A j \in DOMAIN outcome[r] : j.id = a =>
              /\ r \in RankSet(a) /\ (j = SyncJob(a) => Waits(Call(a)))
              /\ \/ ~Waits(Call(a))
                 \/ Ran(a, r) /\ call'[a].answer = (IF call[a].failed THEN "error" ELSE "ok")
<1>1. /\ api[t].pc # "idle" /\ a \in Ids(program) /\ api'[t].pc = "idle"
      /\ \/ api[t].pc \in {"get", "unget"} \cup Inline
         \/ api[t].pc = "join"
         \/ api[t].pc = "added" /\ ~Waits(Call(a))
         \/ api[t].pc = "woken" /\ call'[a].answer = (IF call[a].failed THEN "error" ELSE "ok")
  BY DEF Answers, Frames, Idle
<1>2. outcome' = outcome
  <2>1. CASE Calm(t)
    BY <2>1 DEF Calm
  <2>2. CASE Appends(t)
    <3>1. api'[t].pc \in {"added", "add"}
      BY <2>2 DEF Appends
    <3>2. QED
      BY <1>1, <3>1
  <2>3. QED
    BY <2>1, <2>2
<1>3. ASSUME NEW r \in Ranks, NEW j \in DOMAIN outcome[r], j.id = a
      PROVE  /\ r \in RankSet(a) /\ (j = SyncJob(a) => Waits(Call(a)))
             /\ \/ ~Waits(Call(a))
                \/ Ran(a, r) /\ call'[a].answer = (IF call[a].failed THEN "error" ELSE "ok")
  <2>1. r \in RankSet(a) /\ (j = SyncJob(a) => Waits(Call(a))) /\ Call(a).op # "free"
    BY <1>3 DEF Proper
  <2>2. ~Fresh(a)
    BY <1>3 DEF Fresh
  <2>3. api[t].pc \notin {"get", "unget"} \cup Inline
    BY <2>2 DEF PendingFresh, Unsent
  <2>4. api[t].pc # "join"
    BY <2>1 DEF Unsent
  <2>5. CASE api[t].pc = "woken" /\ call'[a].answer = (IF call[a].failed THEN "error" ELSE "ok")
    <3>1. call[a].left = 0
      BY <2>5 DEF Told
    <3>2. Ran(a, r)
      BY <1>1, <2>1, <3>1, NoneLeft
    <3>3. QED
      BY <2>1, <2>5, <3>2
  <2>6. QED
    BY <1>1, <2>1, <2>3, <2>4, <2>5
<1>4. QED
  BY <1>1, <1>2, <1>3

(* The jobs of a call that has returned before. *)
LEMMA ReturnedStays ==
  ASSUME Good, Frames, Unreturned, NEW t \in Threads, Calm(t) \/ Appends(t),
         NEW id \in Ids(program), ~Unanswered(id), NEW r \in Ranks, NEW j \in DOMAIN outcome'[r], j.id = id
  PROVE  j \in DOMAIN outcome[r]
<1>1. CASE Calm(t)
  BY <1>1 DEF Calm
<1>2. CASE Appends(t)
  <2>1. ASSUME NEW a, a = api[t].id, NEW s, s = AddRank(t)
        PROVE  OnlySubmits(a, s) /\ a # id
    <3>1. OnlySubmits(a, s)
      BY <1>2, <2>1, AppendsSubmit
    <3>2. a \in Mine(t)
      BY <1>2, <2>1 DEF Appends, Frames, Mine
    <3>3. QED
      BY <3>1, <3>2 DEF Unreturned
  <2>2. QED
    BY <2>1 DEF OnlySubmits
<1>3. QED
  BY <1>1, <1>2

LEMMA AnsweredApi ==
  ASSUME Good, Frames, PendingFresh, Unsent, Unreturned, Told, Counting, Proper, Answered, RansKept,
         NEW t \in Threads, Calm(t) \/ Appends(t), AnswersKept \/ Answers(t)
  PROVE  Answered'
<1>1. \A id : SyncJob(id)' = SyncJob(id) /\ SyncJob(id).id = id
  BY DEF SyncJob
<1>2. program' = program
  BY DEF Calm, Appends
<1>3. ASSUME NEW id \in Ids(program), call'[id].answer # "none", NEW r \in Ranks,
             SyncJob(id) \in DOMAIN outcome'[r]
      PROVE  Ran(id, r)'
  <2>1. CASE call'[id].answer = call[id].answer
    <3>1. ~Unanswered(id)
      BY <1>3, <2>1 DEF Unanswered
    <3>2. SyncJob(id) \in DOMAIN outcome[r]
      BY <1>1, <1>3, <3>1, ReturnedStays
    <3>3. QED
      BY <3>1, <3>2 DEF Answered, RansKept, Unanswered
  <2>2. CASE call'[id].answer # call[id].answer
    <3>1. Answers(t) /\ id = api[t].id
      BY <2>2 DEF AnswersKept, Answers
    <3>2. outcome' = outcome
      BY <3>1, AnswersFacts
    <3>3. Waits(Call(id)) /\ (~Waits(Call(id)) \/ Ran(id, r))
      BY <1>1, <1>3, <3>1, <3>2, AnswersFacts
    <3>4. QED
      BY <3>3 DEF RansKept
  <2>3. QED
    BY <2>1, <2>2
<1>4. QED
  BY <1>1, <1>2, <1>3 DEF Answered

LEMMA AnsweredRightApi ==
  ASSUME Good, Frames, PendingFresh, Unsent, Unreturned, Told, Counting, Proper, Waiting, RanRight,
         AnsweredRight, \A r \in Ranks : FifoStep(r),
         NEW t \in Threads, Calm(t) \/ Appends(t), AnswersKept \/ Answers(t)
  PROVE  AnsweredRight'
<1>1. Shapes /\ program' = program
  BY DEF Good, Calm, Appends
<1>2. \A id : Call(id)' = Call(id)
  BY <1>1, SameCalls
<1>3. \A id : MainJob(id)' = MainJob(id) /\ MainJob(id).id = id
  BY <1>2 DEF MainJob
<1>4. ASSUME NEW id \in Ids(program), Call(id).sync, Call(id).op # "sync", call'[id].answer = "ok",
             NEW r \in Ranks, MainJob(id) \in DOMAIN outcome'[r]
      PROVE  outcome'[r][MainJob(id)] = "done"
  <2>1. CASE call'[id].answer = call[id].answer
    <3>1. ~Unanswered(id)
      BY <1>4, <2>1 DEF Unanswered
    <3>2. MainJob(id) \in DOMAIN outcome[r]
      BY <1>3, <1>4, <3>1, ReturnedStays
    <3>3. outcome[r][MainJob(id)] = "done"
      BY <1>4, <2>1, <3>2 DEF AnsweredRight
    <3>4. QED
      BY <1>1, <3>2, <3>3, DoneStays
  <2>2. CASE call'[id].answer # call[id].answer
    <3>1. Answers(t) /\ id = api[t].id
      BY <2>2 DEF AnswersKept, Answers
    <3>2. outcome' = outcome
      BY <3>1, AnswersFacts
    <3>3. /\ r \in RankSet(id)
          /\ ~Waits(Call(id)) \/ (Ran(id, r) /\ call'[id].answer = (IF call[id].failed THEN "error" ELSE "ok"))
      BY <1>3, <1>4, <3>1, <3>2, AnswersFacts
    <3>4. Ran(id, r) /\ ~call[id].failed
      BY <1>4, <3>3 DEF Waits
    <3>5. QED
      BY <1>4, <3>2, <3>3, <3>4 DEF RanRight
  <2>3. QED
    BY <2>1, <2>2
<1>5. QED
  BY <1>1, <1>2, <1>3, <1>4 DEF AnsweredRight


-----------------------------------------------------------------------------
(* The initial states. *)
LEMMA InitCounts ==
  ASSUME Init, Shapes, NEW id \in Ids(program)
  PROVE  IsFiniteSet(RankSet(id)) /\ call[id].left = Cardinality(RankSet(id))
<1> DEFINE f == RanksOf(id)
<1>1. /\ f \in Seq(Ranks) /\ \A i, k \in DOMAIN f : f[i] = f[k] => i = k
  BY CallFacts DEF CallOK, RanksOf
<1>2. RankSet(id) = {f[i] : i \in DOMAIN f}
  BY DEF RankSet
<1>3. call[id].left = Len(f)
  BY DEF Init
<1> HIDE DEF f
<1>4. Len(f) \in Nat /\ DOMAIN f = 1..Len(f) /\ f = [i \in 1..Len(f) |-> f[i]]
  BY <1>1
<1>5. f \in Surjection(1..Len(f), RankSet(id)) /\ f \in Injection(1..Len(f), RankSet(id))
  <2>1. \A i \in 1..Len(f) : f[i] \in RankSet(id)
    BY <1>2, <1>4
  <2>2. f \in [1..Len(f) -> RankSet(id)]
    BY <1>4, <2>1
  <2>3. IsInjective(f)
    BY <1>1 DEF IsInjective
  <2>4. \A r \in RankSet(id) : \E i \in 1..Len(f) : f[i] = r
    BY <1>2, <1>4
  <2>5. QED
    BY <2>2, <2>3, <2>4 DEF Surjection, Injection
<1>6. IsFiniteSet(1..Len(f)) /\ Cardinality(1..Len(f)) = Len(f)
  <2>1. ASSUME NEW n \in Nat PROVE IsFiniteSet(1..n) /\ Cardinality(1..n) = n
    <3>1. IsFiniteSet(1..n) /\ Cardinality(1..n) = IF 1 > n THEN 0 ELSE n - 1 + 1
      BY FS_Interval
    <3>2. QED
      BY <3>1
  <2>2. QED
    BY <1>4, <2>1
<1>7. IsFiniteSet(RankSet(id)) /\ Cardinality(RankSet(id)) = Len(f)
  BY <1>5, <1>6, FS_Surjection
<1>8. QED
  BY <1>3, <1>7

LEMMA InitSync ==
  ASSUME Init
  PROVE  SyncInv
<1>1. /\ \A r \in Ranks : DOMAIN jobs[r] = {} /\ DOMAIN outcome[r] = {}
      /\ \A w \in Workers : work[w].pc = "take"
      /\ \A t \in Threads : api[t].pc = "idle"
      /\ Shapes /\ Names
  BY InitFacts, InitShapes, InitJobs DEF JobInv
<1>2. \A id \in Ids(program) : call[id].answer = "none"
  BY DEF Init
<1>3. \A id \in Ids(program) : RankSet(id) \subseteq Ranks
  BY <1>1, CallFacts
<1>4. \A id : \A r \in Ranks : ~Ran(id, r)
  BY <1>1 DEF Ran
<1>5. Counting
  <2>1. \A id \in Ids(program) : Left(id) = RankSet(id)
    BY <1>3, <1>4 DEF Left
  <2>2. QED
    BY <1>1, <2>1, InitCounts DEF Counting
<1>6. Told /\ Unsent /\ Launched
  BY <1>1 DEF Told, Unsent, Launched, Inline
<1>7. Unreturned
  BY <1>1, <1>2 DEF Unreturned, Unanswered, Mine, Names
<1>8. BodiesUnreturned
  <2>1. \A id \in Ids(program) : Call(id).op = "callback" =>
          \A r \in RankSet(id) : \A m \in DOMAIN Call(id).body : BodyOf(program, id, r)[m] \in Ids(program)
    BY <1>1, BodyInIds
  <2>2. QED
    BY <1>1, <1>2, <2>1 DEF BodiesUnreturned, BodyUnanswered, Unanswered, Before
<1>9. Answered /\ Proper /\ Waiting /\ Behind /\ AnsweredRight
  BY <1>1 DEF Answered, Proper, Waiting, Behind, AnsweredRight
<1>10. RanRight
  BY <1>3, <1>4 DEF RanRight
<1>11. QED
  BY <1>5, <1>6, <1>7, <1>8, <1>9, <1>10 DEF SyncInv

(* Every step keeps what callers and workers know of SYNC jobs. *)
LEMMA ApiSync ==
  ASSUME JobInv, JobInv', SyncInv, NEW t \in Threads, ApiStep(t)
  PROVE  SyncInv'
<1>1. /\ Good /\ Shapes /\ Mindful /\ Frames /\ Names /\ PendingFresh /\ Locked /\ Distinct /\ Distinct'
      /\ program' = program
  BY ApiSameProgram DEF JobInv, Good, Aside, Mindful
<1>2. /\ Counting /\ Told /\ Unsent /\ Unreturned /\ BodiesUnreturned /\ Answered
      /\ Launched /\ Proper /\ Waiting /\ Behind /\ RanRight /\ AnsweredRight
  BY DEF SyncInv
<1>3. Calm(t) \/ Appends(t)
  BY <1>1, ApiKinds
<1>4. /\ CountsKept /\ (AnswersKept \/ Answers(t)) /\ api'[t].pc # "woken"
      /\ api'[t].pc \in Inline \cup {"unget"} => api[t].pc \in Early \cup Inline \cup {"unget"}
      /\ api'[t].pc = "join" => Call(api'[t].id).op = "free"
  BY <1>1, ApiNews
<1>5. RansKept /\ \A r \in Ranks : FifoStep(r)
  BY <1>1, <1>3, ApiRans
<1>6. Counting'
  BY <1>1, <1>2, <1>4, <1>5, CountingKept DEF CountsKept
<1>7. Told'
  <2>1. FramesKept(t)
    BY <1>3 DEF Calm, Appends
  <2>2. QED
    BY <1>1, <1>2, <1>4, <2>1, ToldApi
<1>8. Unsent' /\ Unreturned' /\ BodiesUnreturned'
  BY <1>1, <1>2, <1>3, <1>4, UnsentApi, UnreturnedApi, BodiesUnreturnedApi
<1>9. Answered' /\ AnsweredRight'
  BY <1>1, <1>2, <1>3, <1>4, <1>5, AnsweredApi, AnsweredRightApi
<1>10. Launched'
  <2>1. work' = work
    BY <1>3 DEF Calm, Appends
  <2>2. QED
    BY <1>2, <2>1 DEF Launched
<1>11. Proper' /\ Waiting' /\ Behind'
  BY <1>1, <1>2, <1>5, ProperStep, WaitingStep, BehindStep
<1>12. RanRight'
  BY <1>1, <1>2, <1>4, <1>5, RanRightKept DEF CountsKept
<1>13. QED
  BY <1>6, <1>7, <1>8, <1>9, <1>10, <1>11, <1>12 DEF SyncInv

LEMMA WorkSync ==
  ASSUME JobInv, JobInv', SyncInv, NEW w \in Workers, WorkStep(w)
  PROVE  SyncInv'
<1>1. /\ Good /\ Aside /\ Gathered /\ Shapes /\ WorkHeads /\ Frames /\ Names /\ Locked
      /\ Distinct /\ Distinct' /\ program' = program
  BY WorkSameProgram DEF JobInv, Good, Aside
<1>2. /\ Counting /\ Told /\ Unsent /\ Unreturned /\ BodiesUnreturned /\ Answered
      /\ Launched /\ Proper /\ Waiting /\ Behind /\ RanRight /\ AnsweredRight
  BY DEF SyncInv
<1>3. Does(w)
  BY <1>1, WorkKinds
<1>4. /\ \A r \in Ranks : FifoServes(r) /\ FifoStep(r)
      /\ SameSubmitted /\ Worked(w)
  BY <1>1, <1>3, WorkFifos, WorkRanks, ServesSubmit DEF FifoStep, Does
<1>5. \/ NotesKept /\ RansKept /\ \A t \in Threads : NotWoken(t)
      \/ \E s \in Ranks : \E id \in Ids(program) : Counts(s, id)
  BY <1>1, <1>2, <1>3, WorkNews
<1>6. AnswersKept /\ Counting' /\ Told' /\ RanRight'
  <2>1. CASE NotesKept /\ RansKept /\ \A t \in Threads : NotWoken(t)
    <3>1. /\ AnswersKept
          /\ \A id \in Ids(program) : call'[id].left = call[id].left /\ call'[id].failed = call[id].failed
      BY <2>1 DEF NotesKept, AnswersKept
    <3>2. QED
      BY <1>1, <1>2, <1>4, <2>1, <3>1, CountingKept, ToldQuietly, RanRightKept
  <2>2. ASSUME NEW s \in Ranks, NEW id \in Ids(program), Counts(s, id)
        PROVE  AnswersKept /\ Counting' /\ Told' /\ RanRight'
    <3>1. AnswersKept
      BY <1>1, <2>2, NotifiedFacts DEF Counts, AnswersKept
    <3>2. QED
      BY <1>1, <1>2, <1>4, <2>2, <3>1, CountingCounts, ToldCounts, RanRightCounts
  <2>3. QED
    BY <1>5, <2>1, <2>2
<1>7. Unsent' /\ Unreturned' /\ BodiesUnreturned'
  BY <1>1, <1>2, <1>3, <1>4, <1>6, UnsentWork, UnreturnedWork, BodiesUnreturnedWork
<1>8. Answered' /\ AnsweredRight'
  BY <1>1, <1>2, <1>4, <1>6, AnsweredWork, AnsweredRightWork
<1>9. Launched'
  BY <1>1, <1>2, <1>4, LaunchedStep
<1>10. Proper' /\ Waiting' /\ Behind'
  BY <1>1, <1>2, <1>4, ProperStep, WaitingStep, BehindStep
<1>11. QED
  BY <1>6, <1>7, <1>8, <1>9, <1>10 DEF SyncInv

LEMMA NextSync ==
  ASSUME JobInv, JobInv', SyncInv, [Next]_vars
  PROVE  SyncInv'
<1>1. CASE (\E t \in Threads : ApiStep(t)) \/ \E w \in Workers : WorkStep(w)
  BY <1>1, ApiSync, WorkSync
<1>2. CASE UNCHANGED vars
  <2>1. UNCHANGED <<program, call, jobs, jobsLock, api, work, outcome>>
    BY <1>2 DEF vars
  <2>2. \A id : /\ Call(id)' = Call(id) /\ RankSet(id)' = RankSet(id)
                /\ SyncJob(id)' = SyncJob(id) /\ MainJob(id)' = MainJob(id)
                /\ (Fresh(id)' <=> Fresh(id)) /\ (Unanswered(id)' <=> Unanswered(id))
    BY <2>1 DEF Call, RankSet, RanksOf, SyncJob, MainJob, Fresh, Unanswered
  <2>3. \A id, r : (Ran(id, r)' <=> Ran(id, r)) /\ (BodyUnanswered(id, r)' <=> BodyUnanswered(id, r))
    BY <2>1, <2>2 DEF Ran, Finishing, BodyUnanswered
  <2>4. Counting' /\ Told' /\ Unsent' /\ Unreturned'
    <3>1. \A id : Left(id)' = Left(id)
      BY <2>2, <2>3 DEF Left
    <3>2. \A t : Mine(t)' = Mine(t)
      BY <2>1 DEF Mine
    <3>3. QED
      BY <2>1, <2>2, <3>1, <3>2 DEF SyncInv, Counting, Told, Unsent, Unreturned
  <2>5. BodiesUnreturned'
    <3>1. /\ \A id : Arrived(id)' = Arrived(id)
          /\ \A w : Cb(w)' = Cb(w)
      BY <2>1 DEF Arrived, Cb
    <3>2. \A id, r : BodyUnanswered(id, r) <=> BodyUnanswered(id, r)'
      BY <2>3
    <3>3. \A w \in Workers : work'[w].pc \in Before => BodyUnanswered(Cb(w), work[w].rank)'
      <4>1. ASSUME NEW w \in Workers, work'[w].pc \in Before, NEW c, c = Cb(w), NEW r, r = work[w].rank
            PROVE  BodyUnanswered(Cb(w), work[w].rank)'
        <5>1. BodyUnanswered(c, r)'
          BY <2>1, <2>3, <4>1 DEF SyncInv, BodiesUnreturned
        <5>2. Cb(w)' = c /\ work'[w].rank = r
          BY <2>1, <3>1, <4>1
        <5>3. QED
          BY <5>1, <5>2 DEF BodyUnanswered, Call, Unanswered
      <4>2. QED
        BY <4>1
    <3>4. QED
      BY <2>1, <2>2, <2>3, <3>1, <3>3 DEF SyncInv, BodiesUnreturned
  <2>6. Answered' /\ Launched' /\ Proper' /\ RanRight' /\ AnsweredRight'
    BY <2>1, <2>2, <2>3 DEF SyncInv, Answered, Launched, Proper, RanRight, AnsweredRight
  <2>7. Waiting' /\ Behind'
    BY <2>1, <2>2 DEF SyncInv, Waiting, Behind, Dropping
  <2>8. QED
    BY <2>4, <2>5, <2>6, <2>7 DEF SyncInv
<1>3. QED
  BY <1>1, <1>2 DEF Next

-----------------------------------------------------------------------------
(***************************************************************************)
(* The theorems.                                                            *)
(***************************************************************************)
(* What callers and workers know of SYNC jobs: dpu_thread_job_sync returns  *)
(* after the last rank has counted (dpu_thread_job_fct), whatever failed,   *)
(* was dropped or was called from a callback meanwhile.                     *)
THEOREM SyncInvariant == Spec => []SyncInv
<1>1. Init => SyncInv
  BY InitSync
<1>2. JobInv /\ JobInv' /\ SyncInv /\ [Next]_vars => SyncInv'
  BY NextSync
<1>3. QED
  BY <1>1, <1>2, JobInvariant, PTL DEF Spec

(* A SYNC job points to the stack of its caller: when the call has returned *)
(* no worker will run it, one can at most be about to take it off its FIFO  *)
(* (dpu_thread_job_sync, DPU_THREAD_JOB_SYNC in dpu_thread_job_fct).        *)
THEOREM SyncsStayInFrame == Spec => []NoDanglingSync
<1>1. ASSUME JobInv, SyncInv
      PROVE  NoDanglingSync
  <2>1. Shapes /\ Distinct /\ Answered /\ Proper
    BY <1>1 DEF JobInv, Good, Aside, SyncInv
  <2>2. ASSUME NEW r \in Ranks, NEW n \in DOMAIN jobs[r], NEW job, job = jobs[r][n],
               job.type = "sync", call[job.id].answer # "none"
        PROVE  n = 1 /\ \E x \in Serving(r) : work[x].pc = "advance"
    <3>1. job \in DOMAIN outcome[r] /\ job \in JobSet
      BY <2>1, <2>2 DEF Distinct, Shapes
    <3>2. job = SyncJob(job.id) /\ job.id \in Ids(program)
      BY <2>2, <3>1 DEF JobSet, SyncJob
    <3>3. Ran(job.id, r)
      BY <2>1, <2>2, <3>1, <3>2 DEF Answered
    <3>4. n = 1 /\ Finishing(r)
      BY <2>2, <3>2, <3>3 DEF Ran
    <3>5. QED
      BY <3>4 DEF Finishing, Serving, HasFifo
  <2>3. QED
    BY <2>2 DEF NoDanglingSync
<1>2. JobInv /\ SyncInv => NoDanglingSync
  BY <1>1
<1>3. QED
  BY <1>2, JobInvariant, SyncInvariant, PTL

(* A synchronous call that returns DPU_OK has been done on all its ranks    *)
(* (the status that dpu_thread_job_do_jobs returns), first-in first-out     *)
(* FIFOs and failures counted by SYNC jobs being what it relies on.         *)
THEOREM SyncsTellTheTruth == Spec => []SyncDone
<1>1. ASSUME JobInv, SyncInv
      PROVE  SyncDone
  <2>1. Shapes /\ AnsweredRight
    BY <1>1 DEF JobInv, Good, SyncInv
  <2>2. \A id \in TopIds(program) : id \in Ids(program) /\ RankSet(id) \subseteq Ranks
    BY <2>1, CallFacts DEF Ids
  <2>3. QED
    BY <2>1, <2>2 DEF SyncDone, AnsweredRight, MainJob
<1>2. JobInv /\ SyncInv => SyncDone
  BY <1>1
<1>3. QED
  BY <1>2, JobInvariant, SyncInvariant, PTL


=============================================================================
