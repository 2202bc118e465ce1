--------------------------- MODULE DeliveryProofs ---------------------------
(***************************************************************************)
(* For any jobs, keys, workers and sizes: one job per key gets past        *)
(* deduplication, a dead job has used up its attempts unless the process   *)
(* is shutting down, and Stop leaves no job behind.  The proof follows a   *)
(* job through the pool: a queued job has one place in the channel, a job  *)
(* being sent has one worker, and the attempts that this worker counts are *)
(* the job's failures so far.                                              *)
(*                                                                         *)
(* Then Send in several steps: it implements the attempts of Notify,       *)
(* so that all of this holds of it, and what counts as sent was received.  *)
(***************************************************************************)
EXTENDS Delivery, TLAPS

---------------------------------------------------------------------------
(***************************************************************************)
(* Dispatcher and pool.                                                    *)
(***************************************************************************)
Busy(w) == worker[w].pc \in {"send", "backoff"}

\* The attempts the worker has made for its job.
Tried(w) == worker[w].attempt + (IF worker[w].pc = "backoff" THEN 1 ELSE 0)

\* Who has passed deduplication left the key behind.
KeysKept == \A j \in accepted : Key[j] \in seen

\* The channel holds the queued jobs, each once.
ChannelSound ==
  /\ \A i \in 1 .. Len(queue) : stage[queue[i]] = "queued"
  /\ \A i, j \in 1 .. Len(queue) : queue[i] = queue[j] => i = j
  /\ \A j \in Jobs : stage[j] = "queued" => \E i \in 1 .. Len(queue) : queue[i] = j

\* The workers hold the jobs being sent, each once.
WorkersSound ==
  /\ \A w \in Workers : Busy(w) =>
       /\ worker[w].job \in Jobs /\ stage[worker[w].job] = "sending"
       /\ failures[worker[w].job] = Tried(w)
       /\ worker[w].pc = "backoff" => worker[w].attempt < MaxAttempts - 1
  /\ \A v, w \in Workers :
       v # w /\ Busy(v) /\ Busy(w) => worker[v].job # worker[w].job
  /\ \A j \in Jobs : stage[j] = "sending" =>
       \E w \in Workers : Busy(w) /\ worker[w].job = j

\* Nothing has been tried for a job that has not reached a worker.
Untried == \A j \in Jobs : stage[j] \notin {"sending", "sent", "dead"} => failures[j] = 0

\* A worker leaves an empty channel that nobody can fill again.
ExitsLast ==
  /\ \A w \in Workers : worker[w].pc = "exited" => closed /\ queue = <<>>
  /\ returned => \A w \in Workers : worker[w].pc = "exited"

NInv ==
  /\ TypeOK /\ KeysKept /\ OnePerKey
  /\ ChannelSound /\ WorkersSound /\ Untried
  /\ DeadMeansExhausted /\ ExitsLast

---------------------------------------------------------------------------
LEMMA NInit ==
  ASSUME Init
  PROVE  NInv
<1> USE NotifyAssumption DEF Init
<1>1. TypeOK
  <2>1. Receiving \in WorkerState /\ Receiving.attempt = 0
    BY DEF Receiving, WorkerState
  <2>2. queue \in Seq(Jobs) /\ Len(queue) = 0
    OBVIOUS
  <2>3. "unsent" \in Stages
    BY DEF Stages
  <2>4. queue \in Seq(Jobs) /\ Len(queue) <= QueueSize
    BY <2>2
  <2>5. /\ worker \in [Workers -> WorkerState]
        /\ \A w \in Workers : worker[w].attempt < MaxAttempts
    BY <2>1
  <2>6. stage \in [Jobs -> Stages] /\ failures \in [Jobs -> Nat]
    BY <2>3
  <2> QED BY <2>4, <2>5, <2>6 DEF TypeOK
<1>2. KeysKept /\ OnePerKey
  BY DEF KeysKept, OnePerKey
<1>3. ChannelSound
  BY DEF ChannelSound
<1>4. WorkersSound /\ Untried
  BY DEF WorkersSound, Busy, Receiving, Untried
<1>5. DeadMeansExhausted /\ ExitsLast
  BY DEF DeadMeansExhausted, ExitsLast, Receiving
<1> QED BY <1>1, <1>2, <1>3, <1>4, <1>5 DEF NInv

\* A job moves between stages that neither the channel nor the workers know.
Outside == Stages \ {"queued", "sending", "sent", "dead"}

LEMMA Submitting ==
  ASSUME NInv, NEW j \in Jobs, NEW s \in Outside, stage[j] \in Outside, Enter(j, s),
         UNCHANGED <<queue, closed, worker, stopped, cancelled, returned, failures, expiries>>
  PROVE  /\ stage' \in [Jobs -> Stages]
         /\ ChannelSound' /\ WorkersSound' /\ Untried' /\ DeadMeansExhausted' /\ ExitsLast'
<1> USE DEF NInv
<1>0. /\ stage' \in [Jobs -> Stages] /\ stage'[j] = s
      /\ \A i \in Jobs \ {j} : stage'[i] = stage[i]
      /\ s \notin {"queued", "sending", "sent", "dead"}
      /\ stage[j] \notin {"queued", "sending", "sent", "dead"}
  BY DEF Enter, TypeOK, Outside
<1>1. ChannelSound'
  <2>1. ASSUME NEW i \in 1 .. Len(queue) PROVE stage'[queue[i]] = "queued"
    <3>1. queue[i] \in Jobs /\ stage[queue[i]] = "queued"
      BY DEF TypeOK, ChannelSound
    <3> QED BY <3>1, <1>0
  <2> QED BY <2>1, <1>0 DEF ChannelSound
<1>2. WorkersSound'
  <2>1. ASSUME NEW w \in Workers, Busy(w)
        PROVE  worker[w].job \in Jobs /\ stage'[worker[w].job] = "sending"
    BY <2>1, <1>0 DEF WorkersSound
  <2> QED BY <2>1, <1>0 DEF WorkersSound, Busy, Tried
<1>3. Untried'
  BY <1>0 DEF Untried
<1>4. DeadMeansExhausted'
  BY <1>0 DEF DeadMeansExhausted
<1>5. ExitsLast'
  BY DEF ExitsLast
<1> QED BY <1>0, <1>1, <1>2, <1>3, <1>4, <1>5

LEMMA Deduplicating ==
  ASSUME NInv, NEW j \in Jobs, Dispatch(j)
  PROVE  NInv'
<1> USE NotifyAssumption
<1> DEFINE s == IF Key[j] \in seen THEN "duplicate"
                ELSE IF j \in Routable THEN "submitting" ELSE "unroutable"
<1>1. /\ s \in Outside /\ stage[j] \in Outside /\ Enter(j, s)
  BY DEF Dispatch, Outside, Stages, Ends
<1>2. UNCHANGED <<queue, closed, worker, stopped, cancelled, returned, failures, expiries>>
  BY DEF Dispatch
<1> HIDE DEF s
<1>3. /\ stage' \in [Jobs -> Stages]
      /\ ChannelSound' /\ WorkersSound' /\ Untried' /\ DeadMeansExhausted' /\ ExitsLast'
  BY <1>1, <1>2, Submitting
<1>4. \/ UNCHANGED <<seen, accepted>>
      \/ Key[j] \notin seen /\ seen' = seen \cup {Key[j]} /\ accepted' = accepted \cup {j}
  BY DEF Dispatch, Marked
<1>5. TypeOK' /\ KeysKept'
  BY <1>2, <1>3, <1>4 DEF NInv, TypeOK, KeysKept
<1>6. OnePerKey'
  BY <1>4 DEF NInv, OnePerKey, KeysKept
<1> QED BY <1>3, <1>5, <1>6 DEF NInv

LEMMA Moving ==
  ASSUME NInv, NEW j \in Jobs,
         \/ Publish(j)
         \/ TestStopped(j)
         \/ stage[j] = "checked" /\ Enter(j, "discarded") /\ UNCHANGED <<seen, queue,
              closed, worker, stopped, cancelled, returned, accepted, failures, expiries>>
  PROVE  NInv'
<1>1. PICK s \in Outside : stage[j] \in Outside /\ Enter(j, s)
  <2>1. CASE Publish(j)
    BY <2>1 DEF Publish, Outside, Stages, Ends
  <2>2. CASE TestStopped(j)
    BY <2>2 DEF TestStopped, Outside, Stages, Ends
  <2>3. CASE stage[j] = "checked" /\ Enter(j, "discarded")
    BY <2>3 DEF Outside, Stages, Ends
  <2> QED BY <2>1, <2>2, <2>3
<1>2. UNCHANGED <<seen, queue, closed, worker, stopped, cancelled, returned, accepted,
                  failures, expiries>>
  BY DEF Publish, TestStopped
<1>3. /\ stage' \in [Jobs -> Stages]
      /\ ChannelSound' /\ WorkersSound' /\ Untried' /\ DeadMeansExhausted' /\ ExitsLast'
  BY <1>1, <1>2, Submitting
<1>4. TypeOK' /\ KeysKept' /\ OnePerKey'
  BY <1>2, <1>3 DEF NInv, TypeOK, KeysKept, OnePerKey
<1> QED BY <1>3, <1>4 DEF NInv

LEMMA Queueing ==
  ASSUME NInv, NEW j \in Jobs, Enqueue(j)
  PROVE  NInv'
<1> USE NotifyAssumption DEF NInv
<1>1. CASE MayEnqueue /\ queue' = Append(queue, j) /\ Enter(j, "queued")
  <2>0. /\ stage[j] = "checked" /\ ~ closed /\ Len(queue) < QueueSize
        /\ UNCHANGED <<seen, closed, worker, stopped, cancelled, returned, accepted,
                       failures, expiries>>
    BY <1>1 DEF Enqueue, MayEnqueue
  <2>1. /\ stage' \in [Jobs -> Stages] /\ stage'[j] = "queued"
        /\ \A i \in Jobs \ {j} : stage'[i] = stage[i]
    BY <1>1 DEF Enter, TypeOK, Stages
  <2>2. /\ queue \in Seq(Jobs) /\ queue' \in Seq(Jobs) /\ Len(queue') = Len(queue) + 1
        /\ Len(queue) \in Nat /\ queue'[Len(queue) + 1] = j
        /\ \A i \in 1 .. Len(queue) : queue'[i] = queue[i] /\ queue[i] \in Jobs
    BY <1>1 DEF TypeOK
  <2>3. TypeOK'
    BY <2>0, <2>1, <2>2 DEF TypeOK
  <2>4. KeysKept' /\ OnePerKey'
    BY <2>0 DEF KeysKept, OnePerKey
  <2>5. \A i \in 1 .. Len(queue) : queue[i] # j
    BY <2>0 DEF ChannelSound
  <2>6. ChannelSound'
    <3>1. \A i \in 1 .. Len(queue') : i = Len(queue) + 1 \/ i \in 1 .. Len(queue)
      BY <2>2
    <3>2. \A i \in 1 .. Len(queue') : stage'[queue'[i]] = "queued"
      BY <2>1, <2>2, <2>5, <3>1 DEF ChannelSound
    <3>3. \A i, k \in 1 .. Len(queue') : queue'[i] = queue'[k] => i = k
      BY <2>2, <2>5, <3>1 DEF ChannelSound
    <3>4. ASSUME NEW k \in Jobs, stage'[k] = "queued"
          PROVE  \E i \in 1 .. Len(queue') : queue'[i] = k
      <4>1. CASE k = j
        BY <4>1, <2>2
      <4>2. CASE k # j
        <5>1. PICK i \in 1 .. Len(queue) : queue[i] = k
          BY <4>2, <3>4, <2>1 DEF ChannelSound
        <5> QED BY <5>1, <2>2
      <4> QED BY <4>1, <4>2
    <3> QED BY <3>2, <3>3, <3>4 DEF ChannelSound
  <2>7. WorkersSound'
    <3>1. ASSUME NEW w \in Workers, Busy(w)
          PROVE  worker[w].job \in Jobs /\ stage'[worker[w].job] = "sending"
      BY <3>1, <2>0, <2>1 DEF WorkersSound
    <3>2. ASSUME NEW k \in Jobs, stage'[k] = "sending" PROVE stage[k] = "sending"
      BY <3>2, <2>1
    <3> QED BY <3>1, <3>2, <2>0 DEF WorkersSound, Busy, Tried
  <2>8. Untried' /\ DeadMeansExhausted'
    BY <2>0, <2>1 DEF Untried, DeadMeansExhausted
  <2>9. ExitsLast'
    BY <2>0 DEF ExitsLast
  <2> QED BY <2>3, <2>4, <2>6, <2>7, <2>8, <2>9
<1>2. CASE closed /\ Enter(j, "discarded") /\ UNCHANGED queue
  BY <1>2, Moving DEF Enqueue
<1> QED BY <1>1, <1>2 DEF Enqueue

LEMMA Expiring ==
  ASSUME NInv, NEW k \in Keys, Expire(k)
  PROVE  NInv'
<1> USE DEF NInv
<1>1. UNCHANGED <<stage, queue, closed, worker, stopped, cancelled, returned, failures>>
  BY DEF Expire
<1>2. TypeOK' /\ KeysKept' /\ OnePerKey'
  BY <1>1 DEF Expire, TypeOK, KeysKept, OnePerKey
<1>3. ChannelSound' /\ Untried' /\ DeadMeansExhausted' /\ ExitsLast'
  BY <1>1 DEF ChannelSound, Untried, DeadMeansExhausted, ExitsLast
<1>4. WorkersSound'
  BY <1>1 DEF WorkersSound, Busy, Tried
<1> QED BY <1>2, <1>3, <1>4

---------------------------------------------------------------------------
(***************************************************************************)
(* The workers.                                                            *)
(***************************************************************************)
LEMMA Taking ==
  ASSUME NInv, NEW w \in Workers, Take(w)
  PROVE  NInv'
<1> USE NotifyAssumption DEF NInv
<1> DEFINE j == Head(queue)
           x == Sending(j, 0)
<1>1. /\ queue \in Seq(Jobs) /\ queue # <<>> /\ Len(queue) \in Nat \ {0}
      /\ j \in Jobs /\ j = queue[1] /\ stage[j] = "queued"
  <2>1. queue \in Seq(Jobs) /\ queue # <<>> /\ Len(queue) \in Nat \ {0}
    BY DEF Take, TypeOK
  <2>2. j \in Jobs /\ j = queue[1] /\ 1 \in 1 .. Len(queue)
    BY <2>1
  <2> QED BY <2>1, <2>2 DEF ChannelSound
<1>2. /\ queue' \in Seq(Jobs) /\ Len(queue') = Len(queue) - 1
      /\ \A i \in 1 .. Len(queue') :
           i + 1 \in 1 .. Len(queue) /\ queue'[i] = queue[i + 1]
  <2>1. queue' = Tail(queue) /\ Len(Tail(queue)) = Len(queue) - 1 /\ Tail(queue) \in Seq(Jobs)
    BY <1>1 DEF Take
  <2>2. \A i \in 1 .. Len(queue) - 1 : Tail(queue)[i] = queue[i + 1]
    BY <1>1
  <2>3. \A i \in 1 .. Len(queue) - 1 : i + 1 \in 1 .. Len(queue)
    BY <1>1
  <2> QED BY <2>1, <2>2, <2>3
<1>3. /\ x \in WorkerState /\ x.pc = "send" /\ x.job = j /\ x.attempt = 0
  BY <1>1 DEF WorkerState, Sending
<1>4. /\ worker' \in [Workers -> WorkerState] /\ worker'[w] = x
      /\ \A v \in Workers \ {w} : worker'[v] = worker[v]
  BY <1>3 DEF Take, TypeOK
<1>5. /\ stage' \in [Jobs -> Stages] /\ stage'[j] = "sending"
      /\ \A i \in Jobs \ {j} : stage'[i] = stage[i]
  BY <1>1 DEF Take, Enter, TypeOK, Stages
<1>6. /\ UNCHANGED <<seen, closed, stopped, cancelled, returned, accepted, failures, expiries>>
      /\ worker[w].pc = "receive"
  BY DEF Take
<1> HIDE DEF x, j
<1>7. TypeOK'
  <2>1. Len(queue') <= QueueSize
    BY <1>1, <1>2 DEF TypeOK
  <2>2. \A v \in Workers : worker'[v].attempt < MaxAttempts
    BY <1>3, <1>4 DEF TypeOK
  <2> QED BY <2>1, <2>2, <1>2, <1>4, <1>5, <1>6 DEF TypeOK
<1>8. KeysKept' /\ OnePerKey'
  BY <1>6 DEF KeysKept, OnePerKey
<1>9. ChannelSound'
  <2>1. ASSUME NEW i \in 1 .. Len(queue') PROVE queue'[i] \in Jobs \ {j}
    <3>1. /\ i + 1 \in 1 .. Len(queue) /\ queue'[i] = queue[i + 1] /\ i + 1 # 1
          /\ 1 \in 1 .. Len(queue)
      BY <1>1, <1>2
    <3>2. queue[i + 1] # queue[1]
      BY <3>1 DEF ChannelSound
    <3>3. queue[i + 1] \in Jobs
      BY <3>1, <1>1
    <3> QED BY <3>1, <3>2, <3>3, <1>1
  <2>2. \A i \in 1 .. Len(queue') : stage'[queue'[i]] = "queued"
    BY <2>1, <1>2, <1>5 DEF ChannelSound
  <2>3. ASSUME NEW i \in 1 .. Len(queue'), NEW k \in 1 .. Len(queue'), queue'[i] = queue'[k]
        PROVE  i = k
    <3>1. i + 1 = k + 1
      BY <2>3, <1>2 DEF ChannelSound
    <3> QED BY <3>1
  <2>4. ASSUME NEW k \in Jobs, stage'[k] = "queued" PROVE \E i \in 1 .. Len(queue') : queue'[i] = k
    <3>1. k # j /\ stage[k] = "queued"
      BY <2>4, <1>5
    <3>2. PICK i \in 1 .. Len(queue) : queue[i] = k
      BY <3>1 DEF ChannelSound
    <3>3. i # 1
      BY <3>1, <3>2, <1>1
    <3>4. i - 1 \in 1 .. Len(queue') /\ (i - 1) + 1 = i
      BY <3>3, <1>1, <1>2
    <3>5. queue'[i - 1] = k
      BY <3>2, <3>4, <1>2
    <3> QED BY <3>4, <3>5
  <2> QED BY <2>2, <2>3, <2>4 DEF ChannelSound
<1>10. ASSUME NEW v \in Workers \ {w}
       PROVE  /\ Busy(v)' = Busy(v) /\ Tried(v)' = Tried(v)
              /\ Busy(v) => worker[v].job \in Jobs \ {j}
  BY <1>1, <1>4 DEF Busy, Tried, WorkersSound
<1>11. Busy(w)' /\ Tried(w)' = 0 /\ failures[j] = 0
  BY <1>1, <1>3, <1>4 DEF Busy, Tried, Untried
<1>12. WorkersSound'
  <2>1. ASSUME NEW v \in Workers, Busy(v)'
        PROVE  /\ worker'[v].job \in Jobs /\ stage'[worker'[v].job] = "sending"
               /\ failures'[worker'[v].job] = Tried(v)'
               /\ worker'[v].pc = "backoff" => worker'[v].attempt < MaxAttempts - 1
    <3>1. CASE v = w
      BY <3>1, <1>1, <1>3, <1>4, <1>5, <1>6, <1>11
    <3>2. CASE v # w
      BY <3>2, <2>1, <1>4, <1>5, <1>6, <1>10 DEF WorkersSound
    <3> QED BY <3>1, <3>2
  <2>2. ASSUME NEW u \in Workers, NEW v \in Workers, u # v, Busy(u)', Busy(v)'
        PROVE  worker'[u].job # worker'[v].job
    <3>1. CASE u = w
      BY <3>1, <2>2, <1>3, <1>4, <1>10
    <3>2. CASE v = w
      BY <3>2, <2>2, <1>3, <1>4, <1>10
    <3>3. CASE u # w /\ v # w
      BY <3>3, <2>2, <1>4, <1>10 DEF WorkersSound
    <3> QED BY <3>1, <3>2, <3>3
  <2>3. ASSUME NEW k \in Jobs, stage'[k] = "sending"
        PROVE  \E v \in Workers : Busy(v)' /\ worker'[v].job = k
    <3>1. CASE k = j
      BY <3>1, <1>3, <1>4, <1>11
    <3>2. CASE k # j
      <4>1. PICK v \in Workers : Busy(v) /\ worker[v].job = k
        BY <3>2, <2>3, <1>5 DEF WorkersSound
      <4>2. v # w
        BY <4>1, <1>6 DEF Busy
      <4> QED BY <4>1, <4>2, <1>4, <1>10
    <3> QED BY <3>1, <3>2
  <2> QED BY <2>1, <2>2, <2>3 DEF WorkersSound
<1>13. Untried' /\ DeadMeansExhausted'
  BY <1>1, <1>5, <1>6 DEF Untried, DeadMeansExhausted
<1>14. ExitsLast'
  BY <1>1, <1>3, <1>4, <1>6 DEF ExitsLast
<1> QED BY <1>7, <1>8, <1>9, <1>12, <1>13, <1>14

\* A worker goes on with its job, or is done with it.
LEMMA Working ==
  ASSUME NInv, NEW w \in Workers, Busy(w), NEW x \in WorkerState, x.attempt < MaxAttempts,
         NEW f \in Nat, NEW end \in {"sending", "sent", "dead"},
         worker' = [worker EXCEPT ![w] = x],
         failures' = [failures EXCEPT ![worker[w].job] = f],
         stage' = [stage EXCEPT ![worker[w].job] = end],
         UNCHANGED <<seen, queue, closed, stopped, cancelled, returned, accepted, expiries>>,
         end = "sending" =>
           /\ x.pc \in {"send", "backoff"} /\ x.job = worker[w].job
           /\ f = x.attempt + (IF x.pc = "backoff" THEN 1 ELSE 0)
           /\ x.pc = "backoff" => x.attempt < MaxAttempts - 1,
         end # "sending" => x.pc = "receive",
         end = "dead" => f = MaxAttempts \/ cancelled
  PROVE  NInv'
<1> USE NotifyAssumption DEF NInv
<1> DEFINE j == worker[w].job
<1>1. j \in Jobs /\ stage[j] = "sending"
  BY DEF WorkersSound
<1>2. /\ worker' \in [Workers -> WorkerState] /\ worker'[w] = x
      /\ \A v \in Workers \ {w} : worker'[v] = worker[v]
  BY DEF TypeOK
<1>3. /\ stage' \in [Jobs -> Stages] /\ stage'[j] = end
      /\ \A i \in Jobs \ {j} : stage'[i] = stage[i]
  BY <1>1 DEF TypeOK, Stages, Ends
<1>4. /\ failures' \in [Jobs -> Nat] /\ failures'[j] = f
      /\ \A i \in Jobs \ {j} : failures'[i] = failures[i]
  BY <1>1 DEF TypeOK
<1>5. ASSUME NEW v \in Workers \ {w}
      PROVE  /\ Busy(v)' = Busy(v) /\ Tried(v)' = Tried(v)
             /\ Busy(v) => worker[v].job \in Jobs \ {j}
  BY <1>2 DEF Busy, Tried, WorkersSound
<1>6. /\ Busy(w)' <=> x.pc \in {"send", "backoff"}
      /\ Tried(w)' = x.attempt + (IF x.pc = "backoff" THEN 1 ELSE 0)
  BY <1>2 DEF Busy, Tried
<1> HIDE DEF j
<1>7. TypeOK'
  BY <1>2, <1>3, <1>4 DEF TypeOK
<1>8. KeysKept' /\ OnePerKey'
  BY DEF KeysKept, OnePerKey
<1>9. ChannelSound'
  <2>1. \A i \in 1 .. Len(queue) : queue[i] \in Jobs \ {j}
    BY <1>1 DEF ChannelSound, TypeOK
  <2>2. \A i \in 1 .. Len(queue) : stage'[queue[i]] = "queued"
    BY <2>1, <1>3 DEF ChannelSound
  <2>3. \A k \in Jobs : stage'[k] = "queued" => stage[k] = "queued"
    BY <1>3
  <2> QED BY <2>2, <2>3 DEF ChannelSound
<1>10. WorkersSound'
  <2>1. ASSUME NEW v \in Workers, Busy(v)'
        PROVE  /\ worker'[v].job \in Jobs /\ stage'[worker'[v].job] = "sending"
               /\ failures'[worker'[v].job] = Tried(v)'
               /\ worker'[v].pc = "backoff" => worker'[v].attempt < MaxAttempts - 1
    <3>1. CASE v = w
      BY <3>1, <2>1, <1>1, <1>2, <1>3, <1>4, <1>6 DEF j
    <3>2. CASE v # w
      BY <3>2, <2>1, <1>2, <1>3, <1>4, <1>5 DEF WorkersSound
    <3> QED BY <3>1, <3>2
  <2>2. ASSUME NEW u \in Workers, NEW v \in Workers, u # v, Busy(u)', Busy(v)'
        PROVE  worker'[u].job # worker'[v].job
    <3>1. CASE u = w
      BY <3>1, <2>2, <1>2, <1>5, <1>6 DEF j
    <3>2. CASE v = w
      BY <3>2, <2>2, <1>2, <1>5, <1>6 DEF j
    <3>3. CASE u # w /\ v # w
      BY <3>3, <2>2, <1>2, <1>5 DEF WorkersSound
    <3> QED BY <3>1, <3>2, <3>3
  <2>3. ASSUME NEW k \in Jobs, stage'[k] = "sending"
        PROVE  \E v \in Workers : Busy(v)' /\ worker'[v].job = k
    <3>1. CASE k = j
      BY <3>1, <2>3, <1>2, <1>3, <1>6 DEF j
    <3>2. CASE k # j
      <4>1. PICK v \in Workers : Busy(v) /\ worker[v].job = k
        BY <3>2, <2>3, <1>3 DEF WorkersSound
      <4>2. v # w
        BY <4>1, <3>2 DEF j
      <4> QED BY <4>1, <4>2, <1>2, <1>5
    <3> QED BY <3>1, <3>2
  <2> QED BY <2>1, <2>2, <2>3 DEF WorkersSound
<1>11. Untried'
  BY <1>3, <1>4 DEF Untried
<1>12. DeadMeansExhausted'
  BY <1>3, <1>4 DEF DeadMeansExhausted
<1>13. ExitsLast'
  <2>1. worker[w].pc # "exited" /\ x.pc # "exited"
    BY DEF Busy
  <2> QED BY <2>1, <1>2 DEF ExitsLast
<1> QED BY <1>7, <1>8, <1>9, <1>10, <1>11, <1>12, <1>13

LEMMA Attempting ==
  ASSUME NInv, NEW w \in Workers, Attempt(w) \/ Backoff(w)
  PROVE  NInv'
<1> USE NotifyAssumption
<1> DEFINE j == worker[w].job
<1>1. /\ Busy(w) /\ j \in Jobs /\ stage[j] = "sending" /\ failures[j] = Tried(w)
      /\ failures[j] \in Nat /\ worker[w] \in WorkerState
      /\ worker[w].attempt \in Nat /\ worker[w].attempt < MaxAttempts
      /\ worker[w].pc = "backoff" => worker[w].attempt < MaxAttempts - 1
      /\ worker \in [Workers -> WorkerState]
      /\ stage \in [Jobs -> Stages] /\ failures \in [Jobs -> Nat]
  BY DEF Busy, Attempt, Backoff, NInv, WorkersSound, TypeOK, WorkerState
<1>2. /\ Receiving \in WorkerState /\ Receiving.pc = "receive" /\ Receiving.attempt < MaxAttempts
  BY DEF Receiving, WorkerState
<1>3. UNCHANGED <<seen, queue, closed, stopped, cancelled, returned, accepted, expiries>>
  BY DEF Attempt, Backoff
<1>s. stage = [stage EXCEPT ![j] = "sending"]
  BY <1>1
<1>f. failures = [failures EXCEPT ![j] = failures[j]]
  BY <1>1
<1>4. CASE Attempt(w)
  <2>1. worker[w].pc = "send" /\ failures[j] = worker[w].attempt
    BY <1>1, <1>4 DEF Attempt, Tried
  <2>2. CASE Settle(w, "sent") /\ UNCHANGED failures
    <3>1. /\ worker' = [worker EXCEPT ![w] = Receiving]
          /\ stage' = [stage EXCEPT ![j] = "sent"]
          /\ failures' = [failures EXCEPT ![j] = failures[j]]
      BY <2>2, <1>f DEF Settle, Enter
    <3> HIDE DEF j
    <3> QED BY <3>1, <1>1, <1>2, <1>3, Working DEF j
  <2>3. CASE /\ failures' = [failures EXCEPT ![j] = @ + 1]
             /\ LastAttempt(w) /\ Settle(w, "dead")
    <3>1. /\ worker' = [worker EXCEPT ![w] = Receiving]
          /\ stage' = [stage EXCEPT ![j] = "dead"]
          /\ failures' = [failures EXCEPT ![j] = failures[j] + 1]
      BY <2>3 DEF Settle, Enter
    <3>2. failures[j] + 1 \in Nat /\ failures[j] + 1 = MaxAttempts
      BY <2>1, <2>3, <1>1 DEF LastAttempt
    <3> HIDE DEF j
    <3> QED BY <3>1, <3>2, <1>1, <1>2, <1>3, Working DEF j
  <2>4. CASE /\ failures' = [failures EXCEPT ![j] = @ + 1]
             /\ ~LastAttempt(w)
             /\ worker' = [worker EXCEPT ![w].pc = "backoff"] /\ UNCHANGED stage
    <3> DEFINE x == [worker[w] EXCEPT !.pc = "backoff"]
    <3>1. /\ x \in WorkerState /\ x.pc = "backoff" /\ x.job = j
          /\ x.attempt = worker[w].attempt
      BY <1>1 DEF WorkerState
    <3>2. worker' = [worker EXCEPT ![w] = x]
      BY <2>4
    <3>3. /\ stage' = [stage EXCEPT ![j] = "sending"]
          /\ failures' = [failures EXCEPT ![j] = failures[j] + 1]
      BY <2>4, <1>s
    <3>4. failures[j] + 1 \in Nat /\ worker[w].attempt < MaxAttempts - 1
      BY <2>4, <1>1 DEF LastAttempt
    <3> HIDE DEF j, x
    <3> QED BY <3>1, <3>2, <3>3, <3>4, <2>1, <1>1, <1>3, Working DEF j
  <2> QED BY <1>4, <2>2, <2>3, <2>4 DEF Attempt
<1>5. CASE Backoff(w)
  <2>1. worker[w].pc = "backoff" /\ failures[j] = worker[w].attempt + 1
    BY <1>1, <1>5 DEF Backoff, Tried
  <2>f. failures' = [failures EXCEPT ![j] = failures[j]]
    BY <1>5, <1>f DEF Backoff
  <2>2. CASE MayGiveUp /\ Settle(w, "dead")
    <3>1. /\ worker' = [worker EXCEPT ![w] = Receiving] /\ cancelled
          /\ stage' = [stage EXCEPT ![j] = "dead"]
      BY <2>2 DEF Settle, Enter, MayGiveUp
    <3> HIDE DEF j
    <3> QED BY <3>1, <2>f, <1>1, <1>2, <1>3, Working DEF j
  <2>3. CASE /\ worker' = [worker EXCEPT ![w] = Sending(@.job, @.attempt + 1)]
             /\ UNCHANGED stage
    <3> DEFINE x == Sending(j, worker[w].attempt + 1)
    <3>1. /\ x \in WorkerState /\ x.pc = "send" /\ x.job = j
          /\ x.attempt = worker[w].attempt + 1 /\ x.attempt < MaxAttempts
      BY <1>1, <2>1 DEF WorkerState, Sending
    <3>2. worker' = [worker EXCEPT ![w] = x]
      BY <2>3
    <3>3. stage' = [stage EXCEPT ![j] = "sending"]
      BY <2>3, <1>s
    <3>4. failures[j] = x.attempt + (IF x.pc = "backoff" THEN 1 ELSE 0)
      <4> HIDE DEF x
      <4>1. failures[j] = x.attempt /\ x.attempt \in Nat /\ x.pc = "send"
        BY <3>1, <2>1, <1>1
      <4> QED BY <4>1
    <3> HIDE DEF j, x
    <3> QED BY <3>1, <3>2, <3>3, <3>4, <2>f, <1>1, <1>3, Working DEF j
  <2> QED BY <1>5, <2>2, <2>3 DEF Backoff
<1> QED BY <1>4, <1>5

LEMMA Exiting ==
  ASSUME NInv, NEW w \in Workers, Exit(w)
  PROVE  NInv'
<1> USE NotifyAssumption DEF NInv
<1> DEFINE x == [worker[w] EXCEPT !.pc = "exited"]
<1>1. /\ x \in WorkerState /\ x.pc = "exited" /\ x.attempt = worker[w].attempt
      /\ worker[w].pc = "receive"
  BY DEF Exit, TypeOK, WorkerState
<1>2. /\ worker' = [worker EXCEPT ![w] = x] /\ closed /\ queue = <<>>
      /\ UNCHANGED <<stage, seen, queue, closed, stopped, cancelled, returned, accepted,
                      failures, expiries>>
  BY DEF Exit, LoopEnds
<1> HIDE DEF x
<1>3. /\ worker' \in [Workers -> WorkerState] /\ worker'[w] = x
      /\ \A v \in Workers \ {w} : worker'[v] = worker[v]
  BY <1>1, <1>2 DEF TypeOK
<1>4. TypeOK'
  BY <1>1, <1>2, <1>3 DEF TypeOK
<1>5. KeysKept' /\ OnePerKey' /\ Untried' /\ DeadMeansExhausted' /\ ChannelSound'
  BY <1>2 DEF KeysKept, OnePerKey, Untried, DeadMeansExhausted, ChannelSound
<1>6. \A v \in Workers :
        /\ Busy(v)' = Busy(v)
        /\ Busy(v) => worker'[v] = worker[v] /\ Tried(v)' = Tried(v)
  BY <1>1, <1>3 DEF Busy, Tried
<1>7. WorkersSound'
  BY <1>2, <1>6 DEF WorkersSound
<1>8. ExitsLast'
  BY <1>1, <1>2, <1>3 DEF ExitsLast
<1> QED BY <1>4, <1>5, <1>7, <1>8

LEMMA Stopping ==
  ASSUME NInv, Cancel \/ StopStep
  PROVE  NInv'
<1> USE DEF NInv
<1>1. /\ UNCHANGED <<stage, seen, queue, worker, accepted, failures, expiries>>
      /\ closed' \in BOOLEAN /\ stopped' \in BOOLEAN /\ cancelled' \in BOOLEAN
      /\ returned' \in BOOLEAN
      /\ (closed => closed') /\ (cancelled => cancelled')
      /\ returned' => returned \/ \A w \in Workers : worker[w].pc = "exited"
  <2>0. /\ closed \in BOOLEAN /\ stopped \in BOOLEAN /\ cancelled \in BOOLEAN
        /\ returned \in BOOLEAN
    BY DEF TypeOK
  <2>1. CASE Cancel
    BY <2>0, <2>1, Zenon DEF Cancel
  <2>2. CASE SetStopped
    BY <2>0, <2>2, Zenon DEF SetStopped
  <2>3. CASE Close
    BY <2>0, <2>3, Zenon DEF Close
  <2>4. CASE StopReturns
    BY <2>0, <2>4, Zenon DEF StopReturns
  <2> QED BY <2>1, <2>2, <2>3, <2>4 DEF StopStep
<1>2. TypeOK'
  BY <1>1 DEF TypeOK
<1>3. KeysKept' /\ OnePerKey' /\ Untried' /\ DeadMeansExhausted' /\ ChannelSound'
  BY <1>1 DEF KeysKept, OnePerKey, Untried, DeadMeansExhausted, ChannelSound
<1>4. WorkersSound'
  BY <1>1 DEF WorkersSound, Busy, Tried
<1>5. ExitsLast'
  BY <1>1 DEF ExitsLast
<1> QED BY <1>2, <1>3, <1>4, <1>5

---------------------------------------------------------------------------
(***************************************************************************)
(* The theorems.                                                           *)
(***************************************************************************)
LEMMA NStep ==
  ASSUME NInv, [Next]_vars
  PROVE  NInv'
<1>1. ASSUME NEW j \in Jobs, Publish(j) \/ SubmitStep(j) PROVE NInv'
  BY <1>1, Moving, Deduplicating, Queueing DEF SubmitStep
<1>2. ASSUME NEW w \in Workers, WorkerStep(w) PROVE NInv'
  BY <1>2, Taking, Attempting, Exiting DEF WorkerStep
<1>3. CASE UNCHANGED vars
  BY <1>3 DEF vars, NInv, TypeOK, KeysKept, OnePerKey, Untried, DeadMeansExhausted,
    ChannelSound, WorkersSound, Busy, Tried, ExitsLast
<1> QED BY <1>1, <1>2, <1>3, Expiring, Stopping DEF Next

\* A job has one place from the bus to its end, whatever Submit, the workers
\* and Stop do to it at the same time.
THEOREM PoolInvariant == Spec => []NInv
  BY NInit, NStep, PTL DEF Spec

\* markSeen lets one job per key through until the key expires, however many
\* deliveries of Dispatch race.
THEOREM OneJobPerKey == Spec => []OnePerKey
<1>1. NInv => OnePerKey
  BY DEF NInv
<1> QED BY <1>1, PoolInvariant, PTL

\* sendWithRetry gives a job up only after maxRetries attempts or when the
\* context of the workers is cancelled.
THEOREM DeadIsExhausted == Spec => []DeadMeansExhausted
<1>1. NInv => DeadMeansExhausted
  BY DEF NInv
<1> QED BY <1>1, PoolInvariant, PTL

\* When Stop returns, no job is in the channel or in a worker: those that were
\* blocked in Submit have been discarded.
THEOREM NothingLeftBehind == Spec => []StopDrains
<1>1. NInv => StopDrains
  <2> SUFFICES ASSUME NInv, returned, NEW j \in Jobs
      PROVE  stage[j] \notin {"queued", "sending"}
    BY DEF StopDrains
  <2>1. \A w \in Workers : worker[w].pc = "exited"
    BY DEF NInv, ExitsLast
  <2>2. queue = <<>>
    BY <2>1, NotifyAssumption DEF NInv, ExitsLast
  <2>3. stage[j] # "queued"
    BY <2>2 DEF NInv, ChannelSound
  <2>4. stage[j] # "sending"
    BY <2>1 DEF NInv, WorkersSound, Busy
  <2> QED BY <2>3, <2>4
<1> QED BY <1>1, PoolInvariant, PTL

---------------------------------------------------------------------------
(***************************************************************************)
(* Send, step by step.  A worker is inside Send only while its job waits   *)
(* for the result of an attempt.                                           *)
(***************************************************************************)
SendSound ==
  /\ cached \in Lives
  /\ send \in [Workers -> SendState]
  /\ received \subseteq Jobs
  /\ \A w \in Workers : send[w].at # "none" => worker[w].pc = "send"

DInv == NInv /\ SendSound /\ SentIsReceived

LEMMA SendStates ==
  /\ NoSend \in SendState /\ NoSend.at = "none"
  /\ \A at \in {"none", "drop", "miss", "fetch", "post"} :
       /\ [at |-> at, token |-> "none"] \in SendState
       /\ [at |-> at, token |-> "none"].at = at
  /\ [at |-> "post", token |-> "long"] \in SendState
  /\ [at |-> "post", token |-> "long"].at = "post"
BY DEF NoSend, SendState

LEMMA DInit == ASSUME DeliveryInit PROVE DInv
<1>1. NInv
  BY NInit DEF DeliveryInit
<1>2. SendSound
  BY SendStates DEF DeliveryInit, SendSound, Lives
<1>3. SentIsReceived
  BY DEF DeliveryInit, Init, SentIsReceived
<1> QED BY <1>1, <1>2, <1>3 DEF DInv

\* The end of a Send is an attempt.
LEMMA DoneAttempts ==
  ASSUME NEW w \in Workers, worker[w].pc = "send", Done(w)
  PROVE  Attempt(w)
BY DEF Done, Attempt, rest

LEMMA FailedAttempts ==
  ASSUME NEW w \in Workers, worker[w].pc = "send", Failed(w)
  PROVE  Attempt(w)
BY DEF Failed, Attempt, rest, Job

\* What is inside Send is worth one attempt, or nothing.
LEMMA SendMaps ==
  ASSUME SendSound, NEW w \in Workers, SendStep(w)
  PROVE  Attempt(w) \/ UNCHANGED vars
<1>1. worker[w].pc = "send"
  BY DEF SendStep, Start, Drop, Recheck, Fetch, Post, SendSound
<1> QED BY <1>1, DoneAttempts, FailedAttempts
        DEF SendStep, Start, Drop, Recheck, Fetch, Post, Look, GoTo

LEMMA StepMaps ==
  ASSUME SendSound, [DeliveryNext]_allVars
  PROVE  [Next]_vars
<1>1. ASSUME NEW w \in Workers, SendStep(w) PROVE [Next]_vars
  BY <1>1, SendMaps DEF Next, WorkerStep
<1>2. CASE Age \/ Evict
  BY <1>2 DEF Age, Evict
<1>3. ASSUME NEW j \in Jobs, Handle(j) \/ SubmitStep(j) PROVE Next
  BY <1>3 DEF Next, Handle
<1>4. ASSUME NEW w \in Workers, PoolStep(w) PROVE Next
  BY <1>4 DEF Next, PoolStep, WorkerStep
<1>5. CASE UNCHANGED allVars
  BY <1>5 DEF allVars
<1> QED BY <1>1, <1>2, <1>3, <1>4, <1>5 DEF DeliveryNext, Next

---------------------------------------------------------------------------
\* How a step of Send leaves the worker and its Send.
LEMMA SendEnds ==
  ASSUME DInv, NEW w \in Workers, worker[w].pc = "send", Done(w) \/ Failed(w)
  PROVE  /\ send' \in [Workers -> SendState] /\ send'[w].at = "none"
         /\ \A v \in Workers \ {w} : send'[v] = send[v] /\ worker'[v] = worker[v]
BY SendStates DEF DInv, NInv, SendSound, TypeOK, Done, Failed, Settle

LEMMA SendGoes ==
  ASSUME DInv, NEW w \in Workers, NEW at, NEW token, GoTo(w, at, token),
         [at |-> at, token |-> token] \in SendState
  PROVE  /\ send' \in [Workers -> SendState]
         /\ \A v \in Workers \ {w} : send'[v] = send[v]
         /\ UNCHANGED <<worker, stage>>
BY DEF DInv, SendSound, GoTo, vars

\* The job of a worker inside Send, and where Done leaves it.
LEMMA DoneSends ==
  ASSUME DInv, NEW w \in Workers, worker[w].pc = "send"
  PROVE  /\ Job(w) \in Jobs
         /\ Done(w) => \A j \in Jobs \ {Job(w)} : stage'[j] = stage[j]
         /\ Failed(w) => \A j \in Jobs : stage'[j] = "sent" => stage[j] = "sent"
<1>1. Job(w) \in Jobs /\ stage \in [Jobs -> Stages]
  BY DEF DInv, NInv, WorkersSound, Busy, Job, TypeOK
<1> QED BY <1>1 DEF Done, Failed, Settle, Enter, Job

LEMMA SendSafe ==
  ASSUME DInv, NEW w \in Workers, SendStep(w)
  PROVE  SendSound' /\ SentIsReceived'
<1> USE DEF DInv
<1>1. worker[w].pc = "send" /\ Job(w) \in Jobs
  BY DoneSends DEF SendStep, Start, Drop, Recheck, Fetch, Post, SendSound
<1>2. ASSUME cached' \in Lives, Done(w) \/ Failed(w), received' \subseteq Jobs
      PROVE  SendSound'
  <2>1. ASSUME NEW v \in Workers, send'[v].at # "none" PROVE worker'[v].pc = "send"
    BY <1>1, <1>2, <2>1, SendEnds DEF SendSound
  <2> QED BY <1>1, <1>2, <2>1, SendEnds DEF SendSound
<1>3. ASSUME cached' \in Lives, NEW at, NEW token, GoTo(w, at, token),
             [at |-> at, token |-> token] \in SendState, UNCHANGED received
      PROVE  SendSound' /\ SentIsReceived'
  <2>1. ASSUME NEW v \in Workers, send'[v].at # "none" PROVE worker'[v].pc = "send"
    BY <1>1, <1>3, <2>1, SendGoes DEF SendSound
  <2> QED BY <1>3, <2>1, SendGoes DEF SendSound, SentIsReceived
<1>4. ASSUME Failed(w), received \subseteq received' PROVE SentIsReceived'
  BY <1>1, <1>4, DoneSends DEF SentIsReceived
<1>5. ASSUME Done(w), received \subseteq received', Job(w) \in Filtered \cup received'
      PROVE  SentIsReceived'
  BY <1>1, <1>5, DoneSends DEF SentIsReceived
<1>6. CASE Start(w)
  <2>1. CASE Failed(w) /\ UNCHANGED <<cached, received>>
    BY <1>2, <1>4, <2>1 DEF SendSound
  <2>2. CASE Job(w) \in Filtered /\ Done(w) /\ UNCHANGED <<cached, received>>
    BY <1>2, <1>5, <2>2 DEF SendSound
  <2>3. CASE GoTo(w, "post", "none") /\ UNCHANGED <<cached, received>>
    BY <1>3, <2>3, SendStates DEF SendSound
  <2>4. CASE /\ Look(w, IF cached = "none" THEN "miss" ELSE "drop")
             /\ UNCHANGED <<cached, received>>
    BY <1>3, <2>4, SendStates DEF SendSound, Look, Usable
  <2> QED BY <1>6, <2>1, <2>2, <2>3, <2>4 DEF Start
<1>7. CASE Drop(w)
  BY <1>3, <1>7, SendStates DEF Drop, Lives
<1>8. CASE Recheck(w)
  BY <1>3, <1>8, SendStates DEF Recheck, SendSound, Look, Usable
<1>9. CASE Fetch(w)
  <2>1. CASE cached' = "long" /\ GoTo(w, "post", "long") /\ UNCHANGED received
    BY <1>3, <2>1, SendStates DEF Lives
  <2>2. CASE Failed(w) /\ UNCHANGED <<cached, received>>
    BY <1>2, <1>4, <2>2 DEF SendSound
  <2> QED BY <1>9, <2>1, <2>2 DEF Fetch
<1>10. CASE Post(w)
  <2>1. PICK arrives \in BOOLEAN, ok \in BOOLEAN :
           /\ received' = received \cup (IF arrives THEN {Job(w)} ELSE {})
           /\ IF Answered(ok, arrives) THEN Done(w) ELSE Failed(w)
    BY <1>10 DEF Post
  <2>2. received \subseteq received' /\ received' \subseteq Jobs /\ cached' \in Lives
    BY <1>1, <1>10, <2>1 DEF Post, SendSound
  <2>3. CASE arrives /\ Done(w)
    BY <1>2, <1>5, <2>1, <2>2, <2>3
  <2>4. CASE Failed(w)
    BY <1>2, <1>4, <2>2, <2>4
  <2> QED BY <2>1, <2>3, <2>4 DEF Answered
<1> QED BY <1>6, <1>7, <1>8, <1>9, <1>10 DEF SendStep

\* Nothing else ends a job as sent, or touches a worker inside Send.
LEMMA OthersSafe ==
  ASSUME DInv, DeliveryNext, \A w \in Workers : ~SendStep(w)
  PROVE  SendSound' /\ SentIsReceived'
<1> USE DEF DInv
<1>1. CASE Age \/ Evict
  BY <1>1 DEF Age, Evict, Lives, SendSound, SentIsReceived, vars
<1>2. ASSUME UNCHANGED own,
             \A w \in Workers : worker[w].pc = "send" => worker'[w].pc = "send",
             \A j \in Jobs : stage'[j] = "sent" => stage[j] = "sent"
      PROVE  SendSound' /\ SentIsReceived'
  BY <1>2 DEF own, SendSound, SentIsReceived
<1>3. stage \in [Jobs -> Stages] /\ worker \in [Workers -> WorkerState]
  BY DEF NInv, TypeOK
<1>4. ASSUME NEW j \in Jobs, Handle(j) \/ SubmitStep(j)
      PROVE  UNCHANGED worker /\ \A i \in Jobs : stage'[i] = "sent" => stage[i] = "sent"
  BY <1>3, <1>4 DEF Handle, Publish, SubmitStep, Dispatch, TestStopped, Enqueue, Enter
<1>5. ASSUME (\E k \in Keys : Expire(k)) \/ Cancel \/ StopStep
      PROVE  UNCHANGED <<worker, stage>>
  BY <1>5 DEF Expire, Cancel, StopStep, SetStopped, Close, StopReturns
<1>6. ASSUME NEW w \in Workers, PoolStep(w)
      PROVE  /\ \A v \in Workers : worker[v].pc = "send" => worker'[v].pc = "send"
             /\ \A i \in Jobs : stage'[i] = "sent" => stage[i] = "sent"
  <2>1. worker[w].pc # "send" /\ \A v \in Workers \ {w} : worker'[v] = worker[v]
    BY <1>3, <1>6 DEF PoolStep, Take, Backoff, Exit, Settle
  <2>2. \A i \in Jobs : stage'[i] = "sent" => stage[i] = "sent"
    BY <1>3, <1>6 DEF PoolStep, Take, Backoff, Exit, Settle, Enter
  <2> QED BY <2>1, <2>2
<1> QED BY <1>1, <1>2, <1>4, <1>5, <1>6 DEF DeliveryNext

LEMMA DStep == ASSUME DInv, [DeliveryNext]_allVars PROVE DInv'
<1>1. NInv'
  BY StepMaps, NStep DEF DInv
<1>2. ASSUME UNCHANGED allVars PROVE SendSound' /\ SentIsReceived'
  BY <1>2 DEF allVars, DInv, SendSound, SentIsReceived, vars
<1>3. ASSUME DeliveryNext PROVE SendSound' /\ SentIsReceived'
  BY <1>3, SendSafe, OthersSafe
<1>4. SendSound' /\ SentIsReceived'
  BY <1>2, <1>3
<1> QED BY <1>1, <1>4 DEF DInv

\* The inductive invariant holds of every reachable state.
THEOREM DeliveryInvariant == DeliverySpec => []DInv
<1>1. DInv /\ [DeliveryNext]_allVars => DInv'
  BY DStep
<1> QED BY <1>1, DInit, PTL DEF DeliverySpec

\* Whatever the workers do to the token cache between them, the steps of a
\* Send, and the router's jobs, are steps of the dispatcher and the pool.
THEOREM DeliveryImplementsNotify == DeliverySpec => ImplementsNotify
<1>1. DeliveryInit => Init
  BY DEF DeliveryInit
<1>2. DInv /\ [DeliveryNext]_allVars => [Next]_vars
  BY StepMaps DEF DInv
<1> QED BY <1>1, <1>2, DeliveryInvariant, PTL DEF DeliverySpec, ImplementsNotify, Spec

\* A job that counts as sent was received by its sink, and a dead one has used
\* up its attempts or met the shutdown.
THEOREM DeliveriesEndAsTheySay == DeliverySpec => []EndsAreTrue
<1>1. DInv => EndsAreTrue
  BY DEF DInv, NInv, SendSound, EndsAreTrue, DeliveryTypeOK
<1> QED BY <1>1, DeliveryInvariant, PTL
=============================================================================
