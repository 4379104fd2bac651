------------------------------- MODULE RankFifo -------------------------------
(***************************************************************************)
(* What the job threads promise of each rank: the jobs submitted to it end  *)
(* one at a time, in the order they were submitted; when one fails, those   *)
(* behind it are dropped; and none ends twice.                              *)
(***************************************************************************)
EXTENDS Sequences

CONSTANTS Ranks,
          Batches    \* the sequences of jobs a call may submit to a rank

VARIABLES fifo,      \* fifo[r]: the jobs of r that have not ended
          outcome    \* outcome[r][j]: what became of job j of r, once submitted

fifoVars == <<fifo, outcome>>

Init == /\ fifo = [r \in Ranks |-> <<>>]
        /\ outcome = [r \in Ranks |-> <<>>]

(* A batch, none of whose jobs was submitted before, joins the end. *)
Submit(r) ==
  \E batch \in Batches :
    LET new == {batch[n] : n \in DOMAIN batch}
    IN  /\ new \cap DOMAIN outcome[r] = {}
        /\ fifo' = [fifo EXCEPT ![r] = @ \o batch]
        /\ outcome' = [outcome EXCEPT ![r] =
                         [j \in DOMAIN @ \cup new |->
                            IF j \in DOMAIN @ THEN @[j] ELSE "queued"]]

Complete(r) ==
  /\ fifo[r] # <<>>
  /\ outcome' = [outcome EXCEPT ![r][Head(fifo[r])] = "done"]
  /\ fifo' = [fifo EXCEPT ![r] = Tail(@)]

Fail(r) ==
  /\ fifo[r] # <<>>
  /\ outcome' = [outcome EXCEPT ![r] =
                   [j \in DOMAIN @ |-> IF j = Head(fifo[r]) THEN "failed"
                                       ELSE IF @[j] = "queued" THEN "dropped"
                                       ELSE @[j]]]
  /\ fifo' = [fifo EXCEPT ![r] = <<>>]

Next == \E r \in Ranks : Submit(r) \/ Complete(r) \/ Fail(r)

FifoSpec == Init /\ [][Next]_fifoVars

===============================================================================
