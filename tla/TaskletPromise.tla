---------------------------- MODULE TaskletPromise ----------------------------
(***************************************************************************)
(* What the synchronisation library of the DPU runtime promises to the      *)
(* tasklets: which calls may return, given which calls have been made, with *)
(* no word of locks, queues or suspended tasklets.  A tasklet runs through  *)
(* its program, a sequence of calls [op, on].                               *)
(***************************************************************************)
EXTENDS Integers, Sequences, FiniteSets

CONSTANTS Tasklets,
          Programs,    \* set of functions from Tasklets to sequences of calls
          Size,        \* Size[b]: the counter a barrier is initialised with
          Initial      \* Initial[s]: the same of a semaphore

VARIABLES
  prog,        \* prog[t]: the program of tasklet t
  begun,       \* begun[t]: calls t has made
  ended,       \* ended[t]: calls that have returned
  refused      \* refused[n]: waits for n that returned EALREADY

vars == << prog, begun, ended, refused >>

Calling(t) == begun[t] = ended[t] + 1
Op(t)      == prog[t][begun[t]]

(* Calls of one kind on one object among the first upto[t] of each tasklet. *)
Of(t, op, on, upto) == {k \in 1..upto[t] : prog[t][k] = [op |-> op, on |-> on]}
Number(op, on, upto) ==
  Cardinality(UNION {{t} \X Of(t, op, on, upto) : t \in Tasklets})

(* How often the mutex has been got.  (Whoever tries in vain skips the call *)
(* that would give it back, and counts in both numbers.)                    *)
Got(on, upto) == Number("mutex_lock", on, upto) + Number("mutex_trylock", on, upto)

(* A barrier lets nobody through until its whole round has arrived; a       *)
(* semaphore never lets more through than it has had units; a notification  *)
(* and a wait for it return only in pairs; one tasklet holds a mutex.       *)
MayReturn(t) ==
  LET on == Op(t).on
  IN  CASE Op(t).op = "barrier_wait" ->
             Number("barrier_wait", on, begun)
               >= Size[on] * (Cardinality(Of(t, "barrier_wait", on, ended)) + 1)
        [] Op(t).op = "sem_take" ->
             Number("sem_take", on, ended) < Initial[on] + Number("sem_give", on, begun)
        [] Op(t).op = "handshake_notify" ->
             Number("handshake_notify", on, ended)
               < Number("handshake_wait_for", on, begun) - refused[on]
        [] Op(t).op = "handshake_wait_for" ->
             Number("handshake_wait_for", on, ended) - refused[on]
               < Number("handshake_notify", on, begun)
        [] Op(t).op \in {"mutex_lock", "mutex_trylock"} ->
             Got(on, ended) = Number("mutex_unlock", on, begun)
        [] OTHER -> TRUE

Init ==
  /\ prog \in Programs
  /\ begun = [t \in Tasklets |-> 0]
  /\ ended = [t \in Tasklets |-> 0]
  /\ refused = [t \in Tasklets |-> 0]

Begin(t) ==
  /\ begun[t] = ended[t]
  /\ begun[t] < Len(prog[t])
  /\ begun' = [begun EXCEPT ![t] = @ + 1]
  /\ UNCHANGED << prog, ended, refused >>

Return(t) ==
  /\ Calling(t)
  /\ MayReturn(t)
  /\ ended' = [ended EXCEPT ![t] = @ + 1]
  /\ UNCHANGED << prog, begun, refused >>

(* Another tasklet is already waiting for the same one.                     *)
Refuse(t) ==
  /\ Calling(t)
  /\ Op(t).op = "handshake_wait_for"
  /\ \E u \in Tasklets \ {t} : Calling(u) /\ Op(u) = Op(t)
  /\ ended' = [ended EXCEPT ![t] = @ + 1]
  /\ refused' = [refused EXCEPT ![Op(t).on] = @ + 1]
  /\ UNCHANGED << prog, begun >>

(* Another tasklet has the mutex, or is about to give it back.              *)
Decline(t) ==
  /\ Calling(t)
  /\ Op(t).op = "mutex_trylock"
  /\ Got(Op(t).on, ended) > Number("mutex_unlock", Op(t).on, ended)
  /\ begun' = [begun EXCEPT ![t] = @ + 1]
  /\ ended' = [ended EXCEPT ![t] = @ + 2]
  /\ UNCHANGED << prog, refused >>

Next == \E t \in Tasklets : Begin(t) \/ Return(t) \/ Refuse(t) \/ Decline(t)

(* No wake-up is lost: a call that may return does, and to try a mutex      *)
(* takes no waiting.                                                        *)
Fairness == \A t \in Tasklets : WF_vars(Begin(t)) /\ WF_vars(Return(t) \/ Decline(t))

Spec == Init /\ [][Next]_vars /\ Fairness
=============================================================================
