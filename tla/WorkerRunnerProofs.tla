------------------------ MODULE WorkerRunnerProofs ------------------------
(***************************************************************************)
(* Proofs about WorkerRunner, for every number of pipelines, attempts and  *)
(* requests, every limit of concurrent posts and every transient budget,   *)
(* and about the worker that serves its requests (InferenceWorker).        *)
(***************************************************************************)
EXTENDS WorkerRunner, InferenceWorker, TLAPS, FiniteSetTheorems, FunctionTheorems, SequenceTheorems

-----------------------------------------------------------------------------
(***************************************************************************)
(* The inductive invariant.                                                *)
(***************************************************************************)
\* A build or a verdict awaits a promise of the right kind; a pipeline gets
\* its runner when its build ends and calls it only then; a runner call under
\* way belongs to a pipeline that has one.
CallSound(p) ==
  /\ runner[p] # NoRunner \/ call[p] # "idle" => build[p] = "done"
  /\ call[p] = "waiting" => runner[p] \in Runner
  /\ call[p] \in {"native", "worker"} => victim[p] \in Runner
  /\ build[p] = "native" => wait[p] \in 0..MaxNative
  /\ call[p] = "native" => wait[p] \in Native
  /\ build[p] = "worker" \/ call[p] = "worker" => wait[p] \in Worker

\* Ids are given out in order, a request is made to a worker, and only a
\* request that was made is posted.
RequestsNumbered ==
  \A i \in Request :
    /\ i > asked => req[i] = "none"
    /\ req[i] # "none" => host[i] \in Worker
    /\ mail[i] # "none" => req[i] # "none"

Made(r)   == IF r.kind = "native" THEN nativeOut[r.id] # "none" ELSE workerOut[r.id] # "none"
Cached(r) == IF r.kind = "native" THEN nativeP = r.id ELSE workerP = r.id
NativeOf(n) == [kind |-> "native", id |-> n]
WorkerOf(w) == [kind |-> "worker", id |-> w]

\* Whoever holds or awaits a runner began before that runner was buried, and
\* a verdict under way ends with its victim out of the cache.
BurialSound(p) ==
  /\ seen[p] \subseteq buried
  /\ runner[p] # NoRunner => Made(runner[p]) /\ runner[p] \notin seen[p]
  /\ build[p] = "native" /\ wait[p] # 0 =>
       Made(NativeOf(wait[p])) /\ NativeOf(wait[p]) \notin seen[p]
  /\ build[p] = "worker" =>
       Made(WorkerOf(wait[p])) /\ WorkerOf(wait[p]) \notin seen[p]
  /\ call[p] \in {"native", "worker"} => Made(victim[p])
  /\ call[p] = "native" =>
       (victim[p].kind = "native" /\ Cached(victim[p]) => wait[p] = victim[p].id)
  /\ call[p] = "worker" =>
       /\ victim[p].kind = "native" => ~Cached(victim[p])
       /\ victim[p].kind = "worker" /\ Cached(victim[p]) => wait[p] = victim[p].id

\* Cached promises are attempts that were made, and a buried runner never is a
\* cached promise again.
CacheSound ==
  /\ nativeP # 0 => nativeOut[nativeP] # "none"
  /\ workerP # 0 => workerOut[workerP] # "none"
  /\ \A r \in buried : Made(r) /\ ~Cached(r)

\* The two halves: the clients never look at promises, the broker and the
\* guards look at a request only to learn its outcome.
ClientInv == ClientTypes /\ RequestsNumbered /\ RequestsHeld /\ NoIdleSlot
BrokerInv == /\ BrokerTypes /\ PipelineTypes /\ CacheSound
             /\ \A p \in Pipeline : CallSound(p) /\ BurialSound(p)

IInv == BrokerInv /\ ClientInv
-----------------------------------------------------------------------------
(***************************************************************************)
(* The pump.                                                               *)
(***************************************************************************)
RequestState == {"none", "queued", "pending"} \cup Settled
MailState    == {"none", "posted", "read"} \cup Reply

\* RequestsHeld for worker w, over the values of the variables it reads.
Held(w, count, open, q, hosts, state) ==
  /\ count = Cardinality(open)
  /\ open = {i \in Request : hosts[i] = w /\ state[i] = "pending"}
  /\ {q[k] : k \in DOMAIN q} = {i \in Request : hosts[i] = w /\ state[i] = "queued"}
  /\ \A j, k \in DOMAIN q : j < k => q[j] < q[k]

LEMMA RequestFinite == /\ Request \subseteq Nat
                       /\ \A S \in SUBSET Request : IsFiniteSet(S) /\ Cardinality(S) \in Nat
<1>1. Request \subseteq Nat /\ IsFiniteSet(Request)
  BY RunnerAssumption, FS_Interval DEF Request
<1>2. ASSUME NEW S \in SUBSET Request PROVE IsFiniteSet(S) /\ Cardinality(S) \in Nat
  <2>1. IsFiniteSet(S)
    BY <1>1, FS_Subset
  <2> QED BY <2>1, FS_CardinalityType
<1> QED BY <1>1, <1>2

\* An increasing queue holds as many requests as it has places.
LEMMA PlacesAreRequests ==
  ASSUME NEW q \in Seq(Request), NEW K \in SUBSET (DOMAIN q),
         \A j, k \in DOMAIN q : j < k => q[j] < q[k]
  PROVE  /\ IsFiniteSet(K) /\ Cardinality(K) \in Nat
         /\ Cardinality({q[k] : k \in K}) = Cardinality(K)
<1>1. DOMAIN q = 1..Len(q) /\ Len(q) \in Nat /\ \A k \in DOMAIN q : q[k] \in Nat
  BY LenProperties, ElementOfSeq, RequestFinite
<1>2. IsFiniteSet(K)
  <2>1. IsFiniteSet(1..Len(q))
    BY <1>1, FS_Interval
  <2> QED BY <1>1, <2>1, FS_Subset
<1>3. Cardinality(K) \in Nat
  BY <1>2, FS_CardinalityType
<1> DEFINE T == {q[k] : k \in K}
           F == [k \in K |-> q[k]]
<1>4. \A j, k \in K : q[j] = q[k] => j = k
  BY <1>1
<1>5. F \in [K -> T] /\ \A t \in T : \E k \in K : F[k] = t
  OBVIOUS
<1>6. F \in Surjection(K, T)
  BY <1>5 DEF Surjection
<1>7. F \in Injection(K, T)
  BY <1>4, <1>5 DEF Injection, IsInjective
<1>8. ExistsBijection(K, T)
  BY <1>6, <1>7 DEF Bijection, ExistsBijection
<1>9. Cardinality(T) = Cardinality(K)
  BY <1>2, <1>8, FS_Bijection
<1> QED BY <1>2, <1>3, <1>9

\* The pump never posts beyond the limit.
LEMMA PumpLimit ==
  ASSUME NEW n0 \in Nat, NEW n \in Nat, NEW posted \in SUBSET (1..n),
         n0 <= MaxConcurrent,
         \A k \in 1..n : HasRoom(n0 + Cardinality(posted \cap (1..(k - 1))))
  PROVE  n0 + Cardinality(posted) <= MaxConcurrent
<1>1. IsFiniteSet(posted) /\ Cardinality(posted) \in Nat
  <2>1. IsFiniteSet(1..n)
    BY FS_Interval
  <2>2. IsFiniteSet(posted)
    BY <2>1, FS_Subset
  <2> QED BY <2>2, FS_CardinalityType
<1>2. CASE n = 0
  <2>1. posted = {}
    BY <1>2
  <2> QED BY <2>1, FS_EmptySet, RunnerAssumption
<1>3. CASE n # 0
  <2>1. posted \cap (1..(n - 1)) = posted \ {n}
    <3>1. \A k \in 1..n : k \in 1..(n - 1) <=> k # n
      OBVIOUS
    <3> QED BY <3>1
  <2>2. HasRoom(n0 + Cardinality(posted \ {n}))
    BY <1>3, <2>1
  <2>3. Cardinality(posted \ {n}) >= Cardinality(posted) - 1
    BY <1>1, FS_RemoveElement
  <2>4. Cardinality(posted \ {n}) \in Nat
    BY <1>1, FS_RemoveElement, FS_CardinalityType
  <2> QED BY <1>1, <2>2, <2>3, <2>4, RunnerAssumption DEF HasRoom
<1> QED BY <1>2, <1>3

\* What remains of an increasing queue once its first n places are shifted.
LEMMA RestOfQueue ==
  ASSUME NEW q \in Seq(Request), NEW n \in 0..Len(q),
         \A j, k \in DOMAIN q : j < k => q[j] < q[k]
  PROVE  LET rest == SubSeq(q, n + 1, Len(q))
         IN  /\ rest \in Seq(Request)
             /\ \A j, k \in DOMAIN rest : j < k => rest[j] < rest[k]
             /\ {rest[k] : k \in DOMAIN rest} = {q[k] : k \in DOMAIN q} \ {q[k] : k \in 1..n}
             /\ rest # <<>> => n < Len(q)
<1> DEFINE rest == SubSeq(q, n + 1, Len(q))
<1>1. DOMAIN q = 1..Len(q) /\ Len(q) \in Nat /\ \A k \in DOMAIN q : q[k] \in Request
  BY LenProperties, ElementOfSeq
<1>2. \A k \in DOMAIN q : q[k] \in Nat
  BY <1>1, RequestFinite
<1>3. n \in Nat /\ Len(q) \in Nat /\ n <= Len(q)
  BY <1>1
<1>4. rest \in Seq(Request) /\ Len(rest) = Len(q) - n
      /\ \A k \in 1..(Len(q) - n) : rest[k] = q[n + k]
  <2>1. n + 1 \in Int /\ Len(q) \in Int
    BY <1>1, <1>3
  <2>2. \A i \in (n + 1)..Len(q) : q[i] \in Request
    BY <1>1, <1>3
  <2>3. /\ SubSeq(q, n + 1, Len(q)) \in Seq(Request)
        /\ Len(SubSeq(q, n + 1, Len(q))) = IF n + 1 <= Len(q) THEN Len(q) - (n + 1) + 1 ELSE 0
        /\ \A i \in 1..(Len(q) - (n + 1) + 1) : SubSeq(q, n + 1, Len(q))[i] = q[(n + 1) + i - 1]
    BY <2>1, <2>2, SubSeqProperties
  <2>4. Len(q) - (n + 1) + 1 = Len(q) - n
    BY <1>1, <1>3
  <2>5. \A k \in 1..(Len(q) - n) : (n + 1) + k - 1 = n + k
    BY <1>1, <1>3
  <2>6. Len(rest) = Len(q) - n
    <3>1. n + 1 <= Len(q) \/ n = Len(q)
      BY <1>3
    <3>2. n = Len(q) => ~(n + 1 <= Len(q)) /\ Len(q) - n = 0
      BY <1>3
    <3> QED BY <2>3, <2>4, <3>1, <3>2
  <2>7. \A k \in 1..(Len(q) - n) : rest[k] = q[n + k]
    BY <2>3, <2>4, <2>5
  <2> QED BY <2>3, <2>6, <2>7
<1>5. DOMAIN rest = 1..(Len(q) - n)
  BY <1>4, LenProperties
<1> HIDE DEF rest
<1>6. \A k \in 1..(Len(q) - n) : n + k \in DOMAIN q /\ n + k \notin 1..n
  BY <1>1, <1>3
<1>7. \A j, k \in DOMAIN rest : j < k => rest[j] < rest[k]
  <2> SUFFICES ASSUME NEW j \in DOMAIN rest, NEW k \in DOMAIN rest, j < k
               PROVE  rest[j] < rest[k]
    OBVIOUS
  <2>1. n + j \in DOMAIN q /\ n + k \in DOMAIN q
    BY <1>5, <1>6
  <2>2. n + j < n + k
    BY <1>1, <1>3, <1>5
  <2>3. rest[j] = q[n + j] /\ rest[k] = q[n + k]
    BY <1>4, <1>5
  <2> QED BY <2>1, <2>2, <2>3
<1>8. \A k \in DOMAIN q : k \notin 1..n => k - n \in 1..(Len(q) - n) /\ n + (k - n) = k
  BY <1>1, <1>3
<1>9. \A j, k \in DOMAIN q : q[j] = q[k] => j = k
  BY <1>1, <1>2
<1>10. 1..n \subseteq DOMAIN q
  BY <1>1, <1>3
<1>11. {rest[k] : k \in DOMAIN rest} \subseteq {q[k] : k \in DOMAIN q} \ {q[k] : k \in 1..n}
  <2> SUFFICES ASSUME NEW k \in DOMAIN rest
               PROVE  rest[k] \in {q[i] : i \in DOMAIN q} \ {q[i] : i \in 1..n}
    OBVIOUS
  <2>1. rest[k] = q[n + k] /\ n + k \in DOMAIN q /\ n + k \notin 1..n
    BY <1>4, <1>5, <1>6
  <2> QED BY <2>1, <1>9, <1>10
<1>12. {q[k] : k \in DOMAIN q} \ {q[k] : k \in 1..n} \subseteq {rest[k] : k \in DOMAIN rest}
  <2> SUFFICES ASSUME NEW k \in DOMAIN q, k \notin 1..n
               PROVE  q[k] \in {rest[i] : i \in DOMAIN rest}
    OBVIOUS
  <2>1. k - n \in DOMAIN rest /\ rest[k - n] = q[k]
    BY <1>4, <1>5, <1>8
  <2> QED BY <2>1
<1>13. rest # <<>> => n < Len(q)
  <2>1. rest # <<>> => Len(rest) \in Nat \ {0}
    BY <1>4, EmptySeq, Zenon
  <2>2. Len(rest) # 0 => n < Len(q)
    BY <1>3, <1>4
  <2> QED BY <2>1, <2>2
<1> QED BY <1>4, <1>7, <1>11, <1>12, <1>13 DEF rest

LEMMA HeldAll ==
  RequestsHeld <=> \A w \in Worker : Held(w, active[w], pend[w], queue[w], host, req)
BY DEF RequestsHeld, Held

\* Beside a fresh request, only requests of worker w are affected.
OnlyFor(w, state) ==
  \A i \in Request : /\ host'[i] # host[i] => req[i] = "none"
                     /\ host'[i] # w => state[i] = req[i]

\* What a pump leaves behind, given the requests and the mail before it.
Pumped(state, box) ==
  /\ queue' \in [Worker -> Seq(Request)]
  /\ pend' \in [Worker -> SUBSET Request]
  /\ active' \in [Worker -> 0..MaxConcurrent]
  /\ req' \in [Request -> RequestState]
  /\ mail' \in [Request -> MailState]
  /\ RequestsHeld' /\ NoIdleSlot'
  /\ \A i \in Request : req'[i] = "none" <=> state[i] = "none"
  /\ \A i \in Request : mail'[i] # "none" => box[i] # "none" \/ state[i] # "none"

\* Whatever a worker client holds before its pump it holds after it, with the
\* slots full or the queue empty; the other clients are not disturbed.
LEMMA PumpKeeps ==
  ASSUME ClientTypes, RequestsHeld, NoIdleSlot,
         NEW w \in Worker, NEW q \in Seq(Request), NEW open \in SUBSET Request,
         NEW n0 \in Nat, n0 <= MaxConcurrent,
         NEW state \in [Request -> RequestState], NEW box \in [Request -> MailState],
         host' \in [Request -> 0..MaxWorker],
         OnlyFor(w, state),
         Held(w, n0, open, q, host', state),
         Pump(w, q, open, n0, state, box)
  PROVE  Pumped(state, box)
<1>0. PICK n \in 0..Len(q) : \E bad \in SUBSET (1..n) :
        /\ \A k \in 1..n : HasRoom(n0 + Cardinality(((1..n) \ bad) \cap (1..(k - 1))))
        /\ n < Len(q) => ~HasRoom(n0 + Cardinality((1..n) \ bad))
        /\ queue' = [queue EXCEPT ![w] = SubSeq(q, n + 1, Len(q))]
        /\ pend' = [pend EXCEPT ![w] = open \cup {q[k] : k \in (1..n) \ bad}]
        /\ active' = [active EXCEPT ![w] = n0 + Cardinality((1..n) \ bad)]
        /\ req' = [i \in Request |-> IF i \in {q[k] : k \in bad} THEN "permanent"
                                     ELSE IF i \in {q[k] : k \in (1..n) \ bad} THEN "pending"
                                     ELSE state[i]]
        /\ mail' = [i \in Request |-> IF i \in {q[k] : k \in (1..n) \ bad} THEN "posted"
                                      ELSE box[i]]
  BY DEF Pump
<1>1. PICK bad \in SUBSET (1..n) :
        /\ \A k \in 1..n : HasRoom(n0 + Cardinality(((1..n) \ bad) \cap (1..(k - 1))))
        /\ n < Len(q) => ~HasRoom(n0 + Cardinality((1..n) \ bad))
        /\ queue' = [queue EXCEPT ![w] = SubSeq(q, n + 1, Len(q))]
        /\ pend' = [pend EXCEPT ![w] = open \cup {q[k] : k \in (1..n) \ bad}]
        /\ active' = [active EXCEPT ![w] = n0 + Cardinality((1..n) \ bad)]
        /\ req' = [i \in Request |-> IF i \in {q[k] : k \in bad} THEN "permanent"
                                     ELSE IF i \in {q[k] : k \in (1..n) \ bad} THEN "pending"
                                     ELSE state[i]]
        /\ mail' = [i \in Request |-> IF i \in {q[k] : k \in (1..n) \ bad} THEN "posted"
                                      ELSE box[i]]
  BY <1>0
<1> DEFINE posted == (1..n) \ bad
           P == {q[k] : k \in posted}
           B == {q[k] : k \in bad}
           All == {q[k] : k \in DOMAIN q}
           rest == SubSeq(q, n + 1, Len(q))
           total == n0 + Cardinality(posted)
<1>2. /\ DOMAIN q = 1..Len(q) /\ Len(q) \in Nat /\ n \in Nat /\ n <= Len(q)
      /\ \A k \in DOMAIN q : q[k] \in Request
  BY LenProperties, ElementOfSeq
<1>3. posted \in SUBSET (DOMAIN q) /\ bad \in SUBSET (DOMAIN q) /\ posted \in SUBSET (1..n)
  BY <1>2
<1>4. /\ n0 = Cardinality(open)
      /\ open = {i \in Request : host'[i] = w /\ state[i] = "pending"}
      /\ All = {i \in Request : host'[i] = w /\ state[i] = "queued"}
      /\ \A j, k \in DOMAIN q : j < k => q[j] < q[k]
  BY DEF Held
<1>5. /\ IsFiniteSet(posted) /\ Cardinality(posted) \in Nat
      /\ Cardinality(P) = Cardinality(posted)
  BY <1>3, <1>4, PlacesAreRequests
<1>6. total \in 0..MaxConcurrent
  <2>1. total <= MaxConcurrent
    BY <1>1, <1>2, <1>3, PumpLimit
  <2> QED BY <1>5, <2>1
<1>7. /\ rest \in Seq(Request)
      /\ \A j, k \in DOMAIN rest : j < k => rest[j] < rest[k]
      /\ {rest[k] : k \in DOMAIN rest} = All \ {q[k] : k \in 1..n}
      /\ rest # <<>> => n < Len(q)
  BY <1>4, RestOfQueue
<1>8. P \subseteq All /\ B \subseteq All /\ P \cup B = {q[k] : k \in 1..n}
  BY <1>3
<1>9. P \cap B = {}
  <2>1. \A j, k \in DOMAIN q : q[j] = q[k] => j = k
    <3>1. Request \subseteq Nat
      BY RequestFinite
    <3>2. \A k \in DOMAIN q : k \in Nat /\ q[k] \in Nat
      BY <1>2, <3>1
    <3>3. \A j, k \in DOMAIN q : j < k => q[j] < q[k]
      BY <1>4
    <3> SUFFICES ASSUME NEW j \in DOMAIN q, NEW k \in DOMAIN q, j # k PROVE q[j] # q[k]
      OBVIOUS
    <3>4. j < k \/ k < j
      BY <3>2
    <3>5. q[j] < q[k] \/ q[k] < q[j]
      BY <3>3, <3>4
    <3> QED BY <3>2, <3>5
  <2> SUFFICES ASSUME NEW j \in posted, NEW k \in bad, q[j] = q[k] PROVE FALSE
    OBVIOUS
  <2> QED BY <1>3, <2>1
<1>10. P \subseteq Request /\ B \subseteq Request /\ P \cap open = {} /\ B \cap open = {}
  BY <1>4, <1>8
<1> HIDE DEF posted, P, B, All, rest, total
<1>11. /\ queue' = [queue EXCEPT ![w] = rest]
       /\ pend' = [pend EXCEPT ![w] = open \cup P]
       /\ active' = [active EXCEPT ![w] = total]
       /\ req' = [i \in Request |-> IF i \in B THEN "permanent"
                                    ELSE IF i \in P THEN "pending" ELSE state[i]]
       /\ mail' = [i \in Request |-> IF i \in P THEN "posted" ELSE box[i]]
       /\ n < Len(q) => ~HasRoom(total)
  BY <1>1 DEF posted, P, B, rest, total
<1>12. /\ queue' \in [Worker -> Seq(Request)] /\ pend' \in [Worker -> SUBSET Request]
       /\ active' \in [Worker -> 0..MaxConcurrent]
       /\ req' \in [Request -> RequestState] /\ mail' \in [Request -> MailState]
  BY <1>6, <1>7, <1>10, <1>11 DEF ClientTypes, RequestState, MailState, Settled, Failed
<1>13. /\ queue'[w] = rest /\ pend'[w] = open \cup P /\ active'[w] = total
       /\ \A v \in Worker : v # w =>
            queue'[v] = queue[v] /\ pend'[v] = pend[v] /\ active'[v] = active[v]
  BY <1>11 DEF ClientTypes
<1>14. \A i \in Request : /\ i \in B => req'[i] = "permanent"
                          /\ i \in P => req'[i] = "pending"
                          /\ i \notin P \cup B => req'[i] = state[i]
  BY <1>9, <1>11
<1>15. Held(w, total, open \cup P, rest, host', req')
  <2>1. total = Cardinality(open \cup P)
    <3>1. IsFiniteSet(open) /\ IsFiniteSet(P)
      BY <1>10, RequestFinite
    <3>2. Cardinality(open \cup P) = Cardinality(open) + Cardinality(P) - Cardinality(open \cap P)
      BY <3>1, FS_Union
    <3>3. Cardinality(open \cap P) = 0
      <4>1. open \cap P = {}
        BY <1>10 DEF Pumped
      <4> QED BY <4>1, FS_EmptySet
    <3> QED BY <1>4, <1>5, <3>2, <3>3 DEF total
  <2>2. open \cup P = {i \in Request : host'[i] = w /\ req'[i] = "pending"}
    BY <1>4, <1>8, <1>10, <1>14
  <2>3. {rest[k] : k \in DOMAIN rest} = {i \in Request : host'[i] = w /\ req'[i] = "queued"}
    <3>1. {rest[k] : k \in DOMAIN rest} = All \ (P \cup B)
      BY <1>7, <1>8
    <3> QED BY <1>4, <1>8, <1>14, <3>1
  <2> QED BY <1>7, <2>1, <2>2, <2>3 DEF Held
<1>16. ASSUME NEW v \in Worker, v # w
       PROVE  Held(v, active[v], pend[v], queue[v], host', req')
  <2>1. Held(v, active[v], pend[v], queue[v], host, req)
    BY HeldAll
  <2>2. \A i \in Request : host'[i] = v => req'[i] = req[i] /\ (req[i] # "none" => host[i] = v)
    BY <1>4, <1>8, <1>14, <1>16 DEF OnlyFor
  <2>3. \A i \in Request : host[i] = v /\ req[i] # "none" => host'[i] = v
    BY DEF OnlyFor
  <2>4. {i \in Request : host[i] = v /\ req[i] = "pending"}
         = {i \in Request : host'[i] = v /\ req'[i] = "pending"}
    BY <2>2, <2>3
  <2>5. {i \in Request : host[i] = v /\ req[i] = "queued"}
         = {i \in Request : host'[i] = v /\ req'[i] = "queued"}
    BY <2>2, <2>3
  <2> QED BY <2>1, <2>4, <2>5 DEF Held
<1>17. RequestsHeld'
  <2>1. \A v \in Worker : Held(v, active'[v], pend'[v], queue'[v], host', req')
    BY <1>13, <1>15, <1>16
  <2> QED BY <2>1 DEF RequestsHeld, Held
<1>18. NoIdleSlot'
  <2>1. rest # <<>> => total = MaxConcurrent
    BY <1>6, <1>7, <1>11, RunnerAssumption DEF HasRoom
  <2> QED BY <1>13, <2>1 DEF NoIdleSlot
<1>19. \A i \in Request : req'[i] = "none" <=> state[i] = "none"
  BY <1>4, <1>8, <1>14
<1>20. \A i \in Request : mail'[i] # "none" => box[i] # "none" \/ state[i] # "none"
  BY <1>4, <1>8, <1>11
<1> QED BY <1>12, <1>17, <1>18, <1>19, <1>20 DEF Pumped
-----------------------------------------------------------------------------
(***************************************************************************)
(* The worker clients.                                                     *)
(***************************************************************************)
\* runFrame() queues the new request behind all others and pumps.
LEMMA AskKeeps ==
  ASSUME ClientInv, PipelineTypes, NEW p \in Pipeline, Ask(p)
  PROVE  ClientInv'
<1> DEFINE i == asked + 1
           w == runner[p].id
           q == Append(queue[w], i)
           state == [req EXCEPT ![i] = "queued"]
<1>1. w \in Worker
  BY DEF Ask, PipelineTypes, Runner, NoRunner
<1>2. asked \in Nat /\ i \in Request /\ asked' = i /\ asked' \in 0..MaxRequest
  BY RunnerAssumption DEF Ask, ClientInv, ClientTypes, Request
<1>3. req[i] = "none" /\ state \in [Request -> RequestState]
      /\ state[i] = "queued" /\ \A j \in Request : j # i => state[j] = req[j]
  BY <1>2, RequestFinite DEF ClientInv, ClientTypes, RequestsNumbered, RequestState
<1>4. /\ host' = [host EXCEPT ![i] = w] /\ host' \in [Request -> 0..MaxWorker]
      /\ host'[i] = w /\ \A j \in Request : j # i => host'[j] = host[j]
  BY <1>1, <1>2 DEF Ask, ClientInv, ClientTypes, Worker
<1>5. queue[w] \in Seq(Request) /\ pend[w] \in SUBSET Request
      /\ active[w] \in Nat /\ active[w] <= MaxConcurrent
  BY <1>1, RunnerAssumption DEF ClientInv, ClientTypes
<1>6. Held(w, active[w], pend[w], queue[w], host, req)
  BY <1>1, HeldAll DEF ClientInv
<1>7. /\ q \in Seq(Request) /\ DOMAIN q = DOMAIN queue[w] \cup {Len(queue[w]) + 1}
      /\ q[Len(queue[w]) + 1] = i /\ \A k \in DOMAIN queue[w] : q[k] = queue[w][k]
      /\ DOMAIN queue[w] = 1..Len(queue[w]) /\ Len(queue[w]) \in Nat
  <2>1. DOMAIN queue[w] = 1..Len(queue[w]) /\ Len(queue[w]) \in Nat
    BY <1>5, LenProperties
  <2>2. /\ q \in Seq(Request) /\ Len(q) = Len(queue[w]) + 1
        /\ \A k \in 1..Len(queue[w]) : q[k] = queue[w][k]
        /\ q[Len(queue[w]) + 1] = i
    BY <1>2, <1>5, AppendProperties
  <2>3. DOMAIN q = 1..(Len(queue[w]) + 1)
    BY <2>2, LenProperties
  <2>4. 1..(Len(queue[w]) + 1) = (1..Len(queue[w])) \cup {Len(queue[w]) + 1}
    BY <2>1
  <2> QED BY <2>1, <2>2, <2>3, <2>4
<1> HIDE DEF i, w, q, state
<1>8. Held(w, active[w], pend[w], q, host', state)
  <2>1. pend[w] = {j \in Request : host'[j] = w /\ state[j] = "pending"}
    BY <1>2, <1>3, <1>4, <1>6 DEF Held
  <2>2. {q[k] : k \in DOMAIN q} = {j \in Request : host'[j] = w /\ state[j] = "queued"}
    <3>1. {q[k] : k \in DOMAIN q} = {queue[w][k] : k \in DOMAIN queue[w]} \cup {i}
      BY <1>7
    <3> QED BY <1>2, <1>3, <1>4, <1>6, <3>1 DEF Held
  <2>3. \A j, k \in DOMAIN q : j < k => q[j] < q[k]
    <3> SUFFICES ASSUME NEW j \in DOMAIN q, NEW k \in DOMAIN q, j < k PROVE q[j] < q[k]
      OBVIOUS
    <3>1. j \in DOMAIN queue[w]
      BY <1>7
    <3>2. q[j] \in Request /\ req[q[j]] = "queued" /\ q[j] = queue[w][j]
      BY <1>6, <1>7, <3>1 DEF Held
    <3>3. q[j] < i
      <4>1. ~(q[j] > asked)
        BY <3>2 DEF ClientInv, RequestsNumbered
      <4>2. q[j] \in Nat
        BY <3>2, RequestFinite
      <4> QED BY <1>2, <4>1, <4>2 DEF i
    <3>4. k \in DOMAIN queue[w] => q[j] < q[k]
      BY <1>6, <1>7, <3>1 DEF Held
    <3> QED BY <1>7, <3>3, <3>4
  <2> QED BY <1>6, <2>1, <2>2, <2>3 DEF Held
<1>9. Pump(w, q, pend[w], active[w], state, mail)
  BY DEF Ask, i, w, q, state
<1>10. mail \in [Request -> MailState]
  BY DEF ClientInv, ClientTypes, MailState
<1>11. OnlyFor(w, state)
  BY <1>3, <1>4 DEF OnlyFor
<1>12. Pumped(state, mail)
  <2>1. ClientTypes /\ RequestsHeld /\ NoIdleSlot
    BY DEF ClientInv
  <2>2. q \in Seq(Request) /\ state \in [Request -> RequestState]
        /\ host' \in [Request -> 0..MaxWorker]
    BY <1>3, <1>4, <1>7
  <2> QED BY <1>1, <1>5, <1>8, <1>9, <1>10, <1>11, <2>1, <2>2, PumpKeeps
<1>13. ClientTypes'
  BY <1>2, <1>4, <1>12 DEF ClientTypes, RequestState, MailState, Pumped
<1>14. RequestsNumbered'
  <2> SUFFICES ASSUME NEW j \in Request
               PROVE  /\ j > asked' => req'[j] = "none"
                      /\ req'[j] # "none" => host'[j] \in Worker
                      /\ mail'[j] # "none" => req'[j] # "none"
    BY DEF RequestsNumbered
  <2>1. /\ req'[j] = "none" <=> state[j] = "none"
        /\ mail'[j] # "none" => mail[j] # "none" \/ state[j] # "none"
    BY <1>12 DEF Pumped
  <2>2. /\ j > asked => req[j] = "none"
        /\ req[j] # "none" => host[j] \in Worker
        /\ mail[j] # "none" => req[j] # "none"
    BY DEF ClientInv, RequestsNumbered
  <2>3. CASE j = i
    BY <1>1, <1>2, <1>3, <1>4, <2>1, <2>3, RequestFinite
  <2>4. CASE j # i
    <3>1. j > asked' => j > asked
      BY <1>2, RequestFinite DEF i
    <3> QED BY <1>3, <1>4, <2>1, <2>2, <2>4, <3>1
  <2> QED BY <2>3, <2>4
<1> QED BY <1>12, <1>13, <1>14 DEF ClientInv, Pumped

\* A pending request is settled, its slot freed and the queue pumped.
LEMMA SettleKeeps ==
  ASSUME ClientInv, NEW i \in Request, host[i] \in Worker, i \in pend[host[i]],
         NEW outcome \in Settled, NEW box \in [Request -> MailState],
         \A j \in Request : box[j] # "none" => mail[j] # "none",
         SettleAndPump(i, outcome, box), UNCHANGED <<asked, host>>
  PROVE  ClientInv'
<1> DEFINE w == host[i]
           q == queue[w]
           open == pend[w] \ {i}
           n0 == Freed(active[w])
           state == [req EXCEPT ![i] = outcome]
<1>1. q \in Seq(Request) /\ open \in SUBSET Request /\ IsFiniteSet(pend[w])
      /\ active[w] \in Nat /\ active[w] <= MaxConcurrent
  BY RunnerAssumption, RequestFinite DEF ClientInv, ClientTypes
<1>2. Held(w, active[w], pend[w], q, host, req)
  BY HeldAll DEF ClientInv
<1>3. req[i] = "pending" /\ state \in [Request -> RequestState]
      /\ state[i] = outcome /\ \A j \in Request : j # i => state[j] = req[j]
  BY <1>2 DEF Held, ClientInv, ClientTypes, RequestState
<1>4. outcome \notin {"none", "queued", "pending"}
  BY DEF Settled, Failed
<1>5. n0 \in Nat /\ n0 <= MaxConcurrent /\ n0 = Cardinality(open)
  <2>1. Cardinality(open) = Cardinality(pend[w]) - 1 /\ IsFiniteSet(open)
    BY <1>1, FS_RemoveElement
  <2>2. Cardinality(open) \in Nat
    BY <2>1, FS_CardinalityType
  <2>3. active[w] = Cardinality(pend[w])
    BY <1>2 DEF Held
  <2> QED BY <1>1, <2>1, <2>2, <2>3, RunnerAssumption DEF Freed
<1>6. Pump(w, q, open, n0, state, box)
  BY DEF SettleAndPump
<1>7. host' = host /\ host' \in [Request -> 0..MaxWorker] /\ asked' = asked
  BY DEF ClientInv, ClientTypes
<1> HIDE DEF w, q, open, n0, state
<1>8. Held(w, n0, open, q, host', state)
  <2>1. open = {j \in Request : host'[j] = w /\ state[j] = "pending"}
    BY <1>2, <1>3, <1>4, <1>7 DEF Held, open
  <2>2. {q[k] : k \in DOMAIN q} = {j \in Request : host'[j] = w /\ state[j] = "queued"}
    BY <1>2, <1>3, <1>4, <1>7 DEF Held
  <2> QED BY <1>2, <1>5, <2>1, <2>2 DEF Held
<1>9. OnlyFor(w, state)
  BY <1>3, <1>7 DEF OnlyFor, w
<1>10. Pumped(state, box)
  <2>1. w \in Worker
    BY DEF w
  <2>2. ClientTypes /\ RequestsHeld /\ NoIdleSlot
    BY DEF ClientInv
  <2>3. /\ q \in Seq(Request) /\ open \in SUBSET Request
        /\ state \in [Request -> RequestState] /\ host' \in [Request -> 0..MaxWorker]
    BY <1>1, <1>3, <1>7
  <2> QED BY <1>5, <1>6, <1>8, <1>9, <2>1, <2>2, <2>3, PumpKeeps
<1>11. ClientTypes'
  BY <1>7, <1>10 DEF ClientInv, ClientTypes, RequestState, MailState, Pumped
<1>12. RequestsNumbered'
  <2> SUFFICES ASSUME NEW j \in Request
               PROVE  /\ j > asked' => req'[j] = "none"
                      /\ req'[j] # "none" => host'[j] \in Worker
                      /\ mail'[j] # "none" => req'[j] # "none"
    BY DEF RequestsNumbered
  <2>1. /\ req'[j] = "none" <=> state[j] = "none"
        /\ mail'[j] # "none" => box[j] # "none" \/ state[j] # "none"
    BY <1>10 DEF Pumped
  <2>2. /\ j > asked => req[j] = "none"
        /\ req[j] # "none" => host[j] \in Worker
        /\ mail[j] # "none" => req[j] # "none"
    BY DEF ClientInv, RequestsNumbered
  <2>3. state[j] = "none" <=> req[j] = "none"
    BY <1>3, <1>4
  <2> QED BY <1>7, <2>1, <2>2, <2>3
<1> QED BY <1>10, <1>11, <1>12 DEF ClientInv, Pumped

\* onerror rejects everything the client queues or has pending.
LEMMA WorkerErrorKeeps ==
  ASSUME ClientInv, NEW w \in Worker, WorkerError(w)
  PROVE  ClientInv'
<1>1. \A v \in Worker : Held(v, active[v], pend[v], queue[v], host, req)
  BY HeldAll DEF ClientInv
<1> DEFINE gone == {i \in Request : host[i] = w /\ req[i] \in {"pending", "queued"}}
<1>2. \A i \in Request : i \in gone <=> i \in pend[w] \/ \E k \in DOMAIN queue[w] : queue[w][k] = i
  <2>1. pend[w] = {i \in Request : host[i] = w /\ req[i] = "pending"}
    BY <1>1 DEF Held
  <2>2. {queue[w][k] : k \in DOMAIN queue[w]} = {i \in Request : host[i] = w /\ req[i] = "queued"}
    BY <1>1 DEF Held
  <2>3. \A i \in Request : (\E k \in DOMAIN queue[w] : queue[w][k] = i)
                            <=> i \in {queue[w][k] : k \in DOMAIN queue[w]}
    OBVIOUS
  <2> QED BY <2>1, <2>2, <2>3
<1> HIDE DEF gone
<1>3. \A i \in Request : /\ i \in gone => req'[i] = "permanent"
                         /\ i \notin gone => req'[i] = req[i]
  BY <1>2 DEF WorkerError
<1>4. UNCHANGED <<asked, host, mail>>
  BY DEF WorkerError
<1>5. /\ queue'[w] = <<>> /\ pend'[w] = {} /\ active'[w] = 0
      /\ \A v \in Worker : v # w =>
           queue'[v] = queue[v] /\ pend'[v] = pend[v] /\ active'[v] = active[v]
  BY DEF WorkerError, ClientInv, ClientTypes
<1>6. ClientTypes'
  <2>1. queue' \in [Worker -> Seq(Request)] /\ pend' \in [Worker -> SUBSET Request]
    BY EmptySeq DEF WorkerError, ClientInv, ClientTypes
  <2>2. active' \in [Worker -> 0..MaxConcurrent]
    BY RunnerAssumption DEF WorkerError, ClientInv, ClientTypes
  <2>3. req' \in [Request -> RequestState]
    BY DEF WorkerError, ClientInv, ClientTypes, RequestState, Settled, Failed
  <2> QED BY <1>4, <2>1, <2>2, <2>3 DEF ClientInv, ClientTypes, RequestState
<1>7. RequestsNumbered'
  BY <1>3, <1>4 DEF ClientInv, RequestsNumbered, gone
<1>8. Held(w, 0, {}, <<>>, host, req')
  BY <1>3, FS_EmptySet, EmptySeq DEF Held, gone
<1>9. ASSUME NEW v \in Worker, v # w PROVE Held(v, active[v], pend[v], queue[v], host, req')
  <2>1. \A i \in Request : host[i] = v => req'[i] = req[i]
    BY <1>3, <1>9 DEF gone
  <2>2. {i \in Request : host[i] = v /\ req[i] = "pending"}
         = {i \in Request : host[i] = v /\ req'[i] = "pending"}
    BY <2>1
  <2>3. {i \in Request : host[i] = v /\ req[i] = "queued"}
         = {i \in Request : host[i] = v /\ req'[i] = "queued"}
    BY <2>1
  <2> QED BY <1>1, <2>2, <2>3 DEF Held
<1>10. RequestsHeld'
  <2>1. \A v \in Worker : Held(v, active'[v], pend'[v], queue'[v], host', req')
    BY <1>4, <1>5, <1>8, <1>9
  <2> QED BY <2>1 DEF RequestsHeld, Held
<1>11. NoIdleSlot'
  BY <1>5 DEF ClientInv, NoIdleSlot
<1> QED BY <1>6, <1>7, <1>10, <1>11 DEF ClientInv
-----------------------------------------------------------------------------
(***************************************************************************)
(* The broker and the guards.                                              *)
(***************************************************************************)
\* How a step treats the cache: attempts stay made, and a promise is replaced
\* by null or by a fresh attempt.
CacheMoves ==
  /\ \A n \in Native : nativeOut[n] # "none" => nativeOut'[n] # "none"
  /\ \A w \in Worker : workerOut[w] # "none" => workerOut'[w] # "none"
  /\ nativeP' \in {0, nativeP} \/ nativeOut[nativeP'] = "none"
  /\ workerP' \in {0, workerP} \/ workerOut[workerP'] = "none"
  /\ nativeP' # 0 => nativeOut'[nativeP'] # "none"
  /\ workerP' # 0 => workerOut'[workerP'] # "none"

\* Made and Cached of a runner named before the step, after it.
MadeNext(r)   == IF r.kind = "native" THEN nativeOut'[r.id] # "none" ELSE workerOut'[r.id] # "none"
CachedNext(r) == IF r.kind = "native" THEN nativeP' = r.id ELSE workerP' = r.id

\* A runner that was made stays made, and is not cached again once it is not.
LEMMA MadeStays ==
  ASSUME CacheMoves, NEW r \in Runner, Made(r)
  PROVE  MadeNext(r) /\ (CachedNext(r) => Cached(r))
<1>1. CASE r.kind = "native"
  <2>1. r.id \in Native /\ r.id # 0
    BY <1>1, RunnerAssumption DEF Runner, Native, Worker
  <2> QED BY <1>1, <2>1 DEF CacheMoves, Made, Cached, MadeNext, CachedNext
<1>2. CASE r.kind = "worker"
  <2>1. r.id \in Worker /\ r.id # 0
    BY <1>2, RunnerAssumption DEF Runner, Native, Worker
  <2> QED BY <1>2, <2>1 DEF CacheMoves, Made, Cached, MadeNext, CachedNext
<1> QED BY <1>1, <1>2 DEF Runner

\* What a step that leaves pipeline q alone keeps of it.
Untouched(q) ==
  /\ build'[q] = build[q] /\ wait'[q] = wait[q] /\ runner'[q] = runner[q]
  /\ call'[q] = call[q] /\ victim'[q] = victim[q] /\ seen'[q] = seen[q]

LEMMA OthersKeep ==
  ASSUME BrokerInv, CacheMoves, buried \subseteq buried', NEW q \in Pipeline, Untouched(q)
  PROVE  CallSound(q)' /\ BurialSound(q)'
<1>1. CallSound(q) /\ BurialSound(q)
  BY DEF BrokerInv
<1>2. CallSound(q)'
  BY <1>1 DEF CallSound, Untouched
<1>3. /\ runner[q] \in Runner \cup {NoRunner}
      /\ call[q] \in {"native", "worker"} => victim[q] \in Runner
      /\ build[q] = "native" /\ wait[q] # 0 => NativeOf(wait[q]) \in Runner
      /\ build[q] = "worker" => WorkerOf(wait[q]) \in Runner
  <2>1. runner[q] \in Runner \cup {NoRunner}
    BY DEF BrokerInv, PipelineTypes
  <2>2. build[q] = "native" /\ wait[q] # 0 => wait[q] \in Native
    BY <1>1, RunnerAssumption DEF CallSound, Native
  <2> QED BY <1>1, <2>1, <2>2 DEF CallSound, NativeOf, WorkerOf, Runner
<1>4. seen'[q] \subseteq buried'
  BY <1>1 DEF BurialSound, Untouched
<1>5. runner[q] # NoRunner => MadeNext(runner[q]) /\ runner[q] \notin seen[q]
  BY <1>1, <1>3, MadeStays DEF BurialSound
<1>6. build[q] = "native" /\ wait[q] # 0 =>
        MadeNext(NativeOf(wait[q])) /\ NativeOf(wait[q]) \notin seen[q]
  BY <1>1, <1>3, MadeStays DEF BurialSound
<1>7. build[q] = "worker" =>
        MadeNext(WorkerOf(wait[q])) /\ WorkerOf(wait[q]) \notin seen[q]
  BY <1>1, <1>3, MadeStays DEF BurialSound
<1>8. call[q] \in {"native", "worker"} =>
        MadeNext(victim[q]) /\ (CachedNext(victim[q]) => Cached(victim[q]))
  BY <1>1, <1>3, MadeStays DEF BurialSound
<1>9. Untouched(q) /\ (Made(runner[q])' <=> MadeNext(runner[q]))
                   /\ (Made(victim[q])' <=> MadeNext(victim[q]))
                   /\ (Cached(victim[q])' <=> CachedNext(victim[q]))
                   /\ (Made(NativeOf(wait[q]))' <=> MadeNext(NativeOf(wait[q])))
                   /\ (Made(WorkerOf(wait[q]))' <=> MadeNext(WorkerOf(wait[q])))
  BY DEF Untouched, Made, MadeNext, Cached, CachedNext, NativeOf, WorkerOf
<1>10. BurialSound(q)'
  BY <1>1, <1>4, <1>5, <1>6, <1>7, <1>8, <1>9 DEF BurialSound, Untouched, NativeOf, WorkerOf
<1> QED BY <1>2, <1>10

\* The cache stays sound if the runners a step buries are not cached after it.
LEMMA CacheKeeps ==
  ASSUME BrokerInv, CacheMoves,
         \A r \in buried' \ buried : MadeNext(r) /\ ~CachedNext(r)
  PROVE  CacheSound'
<1>1. \A r \in buried : MadeNext(r) /\ ~CachedNext(r)
  <2> SUFFICES ASSUME NEW r \in buried PROVE MadeNext(r) /\ ~CachedNext(r)
    OBVIOUS
  <2>1. r \in Runner /\ Made(r) /\ ~Cached(r)
    BY DEF BrokerInv, PipelineTypes, CacheSound
  <2> QED BY <2>1, MadeStays
<1>2. \A r \in buried' : MadeNext(r) /\ ~CachedNext(r)
  BY <1>1
<1>3. \A r \in buried' : Made(r)' /\ ~Cached(r)'
  BY <1>2 DEF Made, MadeNext, Cached, CachedNext
<1> QED BY <1>3 DEF CacheSound, CacheMoves

\* A step of pipeline p.
LEMMA StepOf ==
  ASSUME BrokerInv, BrokerTypes', PipelineTypes', CacheMoves, buried \subseteq buried',
         \A r \in buried' \ buried : MadeNext(r) /\ ~CachedNext(r),
         NEW p \in Pipeline, \A q \in Pipeline : q # p => Untouched(q),
         CallSound(p)', BurialSound(p)'
  PROVE  BrokerInv'
<1>1. \A q \in Pipeline : CallSound(q)' /\ BurialSound(q)'
  BY OthersKeep
<1> QED BY <1>1, CacheKeeps DEF BrokerInv

\* A step of no pipeline.
LEMMA StepOfNone ==
  ASSUME BrokerInv, BrokerTypes', CacheMoves, UNCHANGED <<buildVars, guardVars>>
  PROVE  BrokerInv'
<1>1. PipelineTypes'
  BY DEF BrokerInv, PipelineTypes, buildVars, guardVars
<1>2. \A q \in Pipeline : Untouched(q)
  BY DEF Untouched, buildVars, guardVars
<1>3. buried' = buried
  BY DEF guardVars
<1>4. \A q \in Pipeline : CallSound(q)' /\ BurialSound(q)'
  BY <1>2, <1>3, OthersKeep
<1> QED BY <1>1, <1>3, <1>4, CacheKeeps DEF BrokerInv

LEMMA NativeAnswerKeeps ==
  ASSUME BrokerInv, NEW n \in Native, NativeAnswer(n)
  PROVE  BrokerInv'
<1>1. BrokerTypes'
  BY DEF NativeAnswer, BrokerInv, BrokerTypes, Promise
<1>2. CacheMoves
  BY RunnerAssumption DEF NativeAnswer, CacheMoves, BrokerInv, BrokerTypes, CacheSound, Native, Worker
<1> QED BY <1>1, <1>2, StepOfNone DEF NativeAnswer

LEMMA WorkerAnswerKeeps ==
  ASSUME BrokerInv, NEW w \in Worker, WorkerAnswer(w)
  PROVE  BrokerInv'
<1>1. BrokerTypes'
  BY RunnerAssumption DEF WorkerAnswer, BrokerInv, BrokerTypes, Promise
<1>2. CacheMoves
  BY RunnerAssumption DEF WorkerAnswer, CacheMoves, BrokerInv, BrokerTypes, CacheSound, Native, Worker
<1> QED BY <1>1, <1>2, StepOfNone DEF WorkerAnswer

LEMMA CooldownKeeps ==
  ASSUME BrokerInv, CooldownPasses
  PROVE  BrokerInv'
<1>1. BrokerTypes' /\ CacheMoves
  BY DEF CooldownPasses, BrokerInv, BrokerTypes, CacheSound, CacheMoves
<1> QED BY <1>1, StepOfNone DEF CooldownPasses

\* A promise the broker hands out belongs to no buried runner: it is the cached
\* one or a fresh attempt.
LEMMA StartBuildKeeps ==
  ASSUME BrokerInv, NEW p \in Pipeline, StartBuild(p)
  PROVE  BrokerInv'
<1>1. /\ workerP' = workerP /\ workerOut' = workerOut
      /\ \/ nativeP' = nativeP /\ nativeOut' = nativeOut /\ wait' = [wait EXCEPT ![p] = 0]
         \/ /\ nativeP' \in Native /\ nativeOut[nativeP'] = "none"
            /\ nativeOut' = [nativeOut EXCEPT ![nativeP'] = "pending"]
            /\ wait' = [wait EXCEPT ![p] = nativeP']
         \/ /\ nativeP' = nativeP /\ nativeOut' = nativeOut /\ nativeP # 0
            /\ wait' = [wait EXCEPT ![p] = nativeP]
  BY Zenon DEF StartBuild, GetNativeRunner, Fresh
<1>2. BrokerTypes' /\ nativeP' \in Nat
  BY <1>1, RunnerAssumption DEF StartBuild, GetNativeRunner, BrokerInv, BrokerTypes, Promise, Native
<1>3. CacheMoves
  BY <1>1 DEF CacheMoves, BrokerInv, BrokerTypes, CacheSound
<1>4. /\ build[p] = "none" /\ build' = [build EXCEPT ![p] = "native"]
      /\ seen' = [seen EXCEPT ![p] = buried]
      /\ UNCHANGED <<runner, destroyed, timeouts, call, mine, victim, buried>>
  BY DEF StartBuild, guardVars
<1>5. PipelineTypes'
  BY <1>1, <1>2, <1>4 DEF BrokerInv, PipelineTypes
<1>6. \A q \in Pipeline : q # p => Untouched(q)
  BY <1>1, <1>4 DEF Untouched, BrokerInv, PipelineTypes
<1>7. /\ build'[p] = "native" /\ seen'[p] = buried /\ wait'[p] \in {0, nativeP'}
      /\ runner'[p] = NoRunner /\ call'[p] = "idle"
  BY <1>1, <1>4 DEF BrokerInv, PipelineTypes, CallSound
<1>8. CallSound(p)'
  BY <1>2, <1>7, RunnerAssumption DEF CallSound, BrokerTypes
<1>9. wait'[p] # 0 => nativeOut'[wait'[p]] # "none" /\ NativeOf(wait'[p]) \notin seen'[p]
  <2> SUFFICES ASSUME wait'[p] # 0
               PROVE  nativeOut'[nativeP'] # "none" /\ NativeOf(nativeP') \notin buried
    BY <1>7
  <2>1. nativeP' # 0
    BY <1>7
  <2>2. CASE nativeOut[nativeP'] = "none"
    BY <1>3, <2>1, <2>2 DEF CacheMoves, BrokerInv, CacheSound, Made, NativeOf
  <2>3. CASE nativeP' = nativeP
    BY <1>3, <2>1, <2>3 DEF CacheMoves, BrokerInv, CacheSound, Cached, NativeOf
  <2> QED BY <1>3, <2>1, <2>2, <2>3 DEF CacheMoves
<1>10. BurialSound(p)'
  BY <1>4, <1>7, <1>9 DEF BurialSound, Made, NativeOf
<1> QED BY <1>2, <1>3, <1>4, <1>5, <1>6, <1>8, <1>10, StepOf

LEMMA BuildNativeKeeps ==
  ASSUME BrokerInv, NEW p \in Pipeline, BuildNative(p)
  PROVE  BrokerInv'
<1>1. /\ build[p] = "native" /\ call[p] = "idle" /\ runner[p] = NoRunner
      /\ CallSound(p) /\ BurialSound(p)
  BY DEF BuildNative, BrokerInv, CallSound
<1>2. UNCHANGED <<nativeP, nativeOut, missAt, destroyed, seen, timeouts, call, mine, victim, buried>>
  BY DEF BuildNative, guardVars
<1>3. CASE /\ wait[p] # 0 /\ runner' \in {runner, [runner EXCEPT ![p] = NativeOf(wait[p])]}
           /\ build' = [build EXCEPT ![p] = "done"]
           /\ wait' = [wait EXCEPT ![p] = 0]
           /\ UNCHANGED <<workerP, workerOut>>
  <2>1. NativeOf(wait[p]) \in Runner /\ NativeOf(wait[p]) # NoRunner
    BY <1>1, <1>3, RunnerAssumption DEF CallSound, Native, NativeOf, Runner, NoRunner
  <2>2. BrokerTypes' /\ PipelineTypes' /\ CacheMoves
    BY <1>2, <1>3, <2>1 DEF BrokerInv, BrokerTypes, PipelineTypes, CacheMoves, CacheSound
  <2>3. \A q \in Pipeline : q # p => Untouched(q)
    BY <1>2, <1>3 DEF Untouched, BrokerInv, PipelineTypes
  <2>4. /\ build'[p] = "done" /\ call'[p] = "idle" /\ seen'[p] = seen[p]
        /\ runner'[p] \in {NoRunner, NativeOf(wait[p])}
    BY <1>1, <1>2, <1>3 DEF BrokerInv, PipelineTypes
  <2>5. CallSound(p)'
    BY <2>4 DEF CallSound
  <2>6. Made(NativeOf(wait[p])) /\ NativeOf(wait[p]) \notin seen[p]
    BY <1>1, <1>3 DEF BurialSound
  <2>7. BurialSound(p)'
    BY <1>1, <1>2, <1>3, <2>4, <2>6 DEF BurialSound, Made, NativeOf
  <2> QED BY <1>2, <2>2, <2>3, <2>5, <2>7, StepOf
<1>4. CASE /\ GetWorkerRunner(p) /\ runner' = runner
           /\ build' = [build EXCEPT ![p] = "worker"]
  <2>1. \/ /\ workerP # 0 /\ workerP' = workerP /\ workerOut' = workerOut
           /\ wait' = [wait EXCEPT ![p] = workerP']
        \/ /\ workerP' \in Worker /\ workerOut[workerP'] = "none"
           /\ workerOut' = [workerOut EXCEPT ![workerP'] = "pending"]
           /\ wait' = [wait EXCEPT ![p] = workerP']
    BY <1>4, Zenon DEF GetWorkerRunner, Fresh
  <2>2. BrokerTypes' /\ workerP' \in Worker /\ workerP' \in Nat /\ workerP' # 0
        /\ wait' = [wait EXCEPT ![p] = workerP']
    BY <1>2, <2>1, RunnerAssumption DEF BrokerInv, BrokerTypes, Promise, Worker
  <2>3. CacheMoves
    BY <1>2, <2>1 DEF CacheMoves, BrokerInv, BrokerTypes, CacheSound
  <2>4. PipelineTypes'
    BY <1>2, <1>4, <2>2 DEF BrokerInv, PipelineTypes
  <2>5. \A q \in Pipeline : q # p => Untouched(q)
    BY <1>2, <1>4, <2>2 DEF Untouched, BrokerInv, PipelineTypes
  <2>6. /\ build'[p] = "worker" /\ call'[p] = "idle" /\ seen'[p] = seen[p]
        /\ runner'[p] = NoRunner /\ wait'[p] = workerP'
    BY <1>1, <1>2, <1>4, <2>2 DEF BrokerInv, PipelineTypes
  <2>7. CallSound(p)'
    BY <2>2, <2>6 DEF CallSound
  <2>8. workerOut'[workerP'] # "none" /\ WorkerOf(workerP') \notin buried
    <3>1. CASE workerOut[workerP'] = "none"
      BY <2>2, <2>3, <3>1 DEF CacheMoves, BrokerInv, CacheSound, Made, WorkerOf
    <3>2. CASE workerP' = workerP
      BY <2>2, <2>3, <3>2 DEF CacheMoves, BrokerInv, CacheSound, Cached, WorkerOf
    <3> QED BY <2>2, <2>3, <3>1, <3>2 DEF CacheMoves
  <2>9. BurialSound(p)'
    BY <1>1, <1>2, <2>6, <2>8 DEF BurialSound, Made, WorkerOf
  <2> QED BY <1>2, <2>2, <2>3, <2>4, <2>5, <2>7, <2>9, StepOf
<1> QED BY <1>3, <1>4 DEF BuildNative, NativeOf

LEMMA BuildWorkerKeeps ==
  ASSUME BrokerInv, NEW p \in Pipeline, BuildWorker(p)
  PROVE  BrokerInv'
<1>1. /\ build[p] = "worker" /\ call[p] = "idle" /\ runner[p] = NoRunner
      /\ CallSound(p) /\ BurialSound(p) /\ wait[p] \in Worker
  BY DEF BuildWorker, BrokerInv, CallSound
<1>2. /\ UNCHANGED <<brokerVars, destroyed, seen, timeouts, call, mine, victim, buried>>
      /\ runner' \in {runner, [runner EXCEPT ![p] = WorkerOf(wait[p])]}
      /\ build' = [build EXCEPT ![p] = "done"] /\ wait' = [wait EXCEPT ![p] = 0]
  BY DEF BuildWorker, guardVars, WorkerOf
<1>3. WorkerOf(wait[p]) \in Runner /\ WorkerOf(wait[p]) # NoRunner
  BY <1>1, RunnerAssumption DEF Worker, WorkerOf, Runner, NoRunner
<1>4. BrokerTypes' /\ PipelineTypes' /\ CacheMoves
  BY <1>2, <1>3 DEF BrokerInv, BrokerTypes, PipelineTypes, CacheMoves, CacheSound, brokerVars
<1>5. \A q \in Pipeline : q # p => Untouched(q)
  BY <1>2 DEF Untouched, BrokerInv, PipelineTypes
<1>6. /\ build'[p] = "done" /\ call'[p] = "idle" /\ seen'[p] = seen[p]
      /\ runner'[p] \in {NoRunner, WorkerOf(wait[p])}
  BY <1>1, <1>2 DEF BrokerInv, PipelineTypes
<1>7. CallSound(p)'
  BY <1>6 DEF CallSound
<1>8. BurialSound(p)'
  BY <1>1, <1>2, <1>6 DEF BurialSound, Made, WorkerOf, brokerVars
<1> QED BY <1>2, <1>4, <1>5, <1>7, <1>8, StepOf

\* The outcome of a runner call: forgiven, or the end of the runner. The first
\* await of the verdict is on whatever promise is cached.
LEMMA JudgeKeeps ==
  ASSUME BrokerInv, NEW p \in Pipeline, runner[p] \in Runner, call[p] \in {"idle", "waiting"},
         NEW outcome, Judge(p, outcome), UNCHANGED brokerVars,
         mine' \in [Pipeline -> 0..MaxRequest]
  PROVE  BrokerInv'
<1>1. runner[p] # NoRunner /\ build[p] = "done" /\ CallSound(p) /\ BurialSound(p)
  BY DEF BrokerInv, CallSound, Runner, NoRunner
<1>2. /\ UNCHANGED <<nativeP, nativeOut, missAt, workerP, workerOut>>
      /\ BrokerTypes' /\ CacheMoves
  BY DEF brokerVars, BrokerInv, BrokerTypes, CacheMoves, CacheSound
<1>3. CASE /\ timeouts' = [timeouts EXCEPT ![p] = IF outcome = "ok" THEN 0 ELSE @ + 1]
           /\ outcome = "ok" \/ timeouts[p] + 1 < MaxTimeouts
           /\ call' = [call EXCEPT ![p] = "idle"]
           /\ UNCHANGED <<victim, buried, buildVars>>
  <2>1. UNCHANGED <<build, wait, runner, destroyed, seen>>
    BY <1>3 DEF buildVars
  <2>2. timeouts' \in [Pipeline -> 0..MaxTimeouts]
    BY <1>3, RunnerAssumption DEF BrokerInv, PipelineTypes
  <2>3. PipelineTypes'
    BY <1>3, <2>1, <2>2 DEF BrokerInv, PipelineTypes
  <2>4. \A q \in Pipeline : q # p => Untouched(q)
    BY <1>3, <2>1 DEF Untouched, BrokerInv, PipelineTypes
  <2>5. call'[p] = "idle"
    BY <1>3 DEF BrokerInv, PipelineTypes
  <2>6. CallSound(p)'
    BY <1>1, <2>1, <2>5 DEF CallSound
  <2>7. BurialSound(p)'
    BY <1>1, <1>2, <1>3, <2>1, <2>5 DEF BurialSound, Made
  <2> QED BY <1>2, <1>3, <2>3, <2>4, <2>6, <2>7, StepOf
<1>4. CASE RunnerDead(p)
  <2>1. /\ runner' = [runner EXCEPT ![p] = NoRunner]
        /\ timeouts' = [timeouts EXCEPT ![p] = MaxTimeouts]
        /\ UNCHANGED <<build, destroyed, seen>>
    BY <1>4 DEF RunnerDead
  <2>2. \/ /\ call' = [call EXCEPT ![p] = "idle"]
           /\ UNCHANGED <<victim, wait, buried>>
        \/ /\ nativeP # 0 /\ call' = [call EXCEPT ![p] = "native"]
           /\ wait' = [wait EXCEPT ![p] = nativeP]
           /\ victim' = [victim EXCEPT ![p] = runner[p]]
           /\ buried' = buried
        \/ /\ nativeP = 0 /\ workerP # 0 /\ call' = [call EXCEPT ![p] = "worker"]
           /\ wait' = [wait EXCEPT ![p] = workerP]
           /\ victim' = [victim EXCEPT ![p] = runner[p]]
           /\ buried' = buried
        \/ /\ nativeP = 0 /\ workerP = 0 /\ call' = [call EXCEPT ![p] = "warming"]
           /\ wait' = [wait EXCEPT ![p] = 0]
           /\ victim' = [victim EXCEPT ![p] = NoRunner]
           /\ buried' = buried \cup {runner[p]}
    BY <1>4, Zenon DEF RunnerDead, Await, VerdictDone
  <2>3. nativeP \in Nat /\ workerP \in Nat
    BY RunnerAssumption DEF BrokerInv, BrokerTypes
  <2>4. PipelineTypes'
    <3>1. /\ runner' \in [Pipeline -> Runner \cup {NoRunner}]
          /\ timeouts' \in [Pipeline -> 0..MaxTimeouts]
          /\ build' \in [Pipeline -> {"none", "native", "worker", "done"}]
          /\ destroyed' \in [Pipeline -> BOOLEAN]
          /\ seen' \in [Pipeline -> SUBSET Runner]
      BY <2>1, RunnerAssumption DEF BrokerInv, PipelineTypes
    <3>2. /\ call' \in [Pipeline -> {"idle", "waiting", "native", "worker", "warming"}]
          /\ wait' \in [Pipeline -> Nat]
          /\ victim' \in [Pipeline -> Runner \cup {NoRunner}]
          /\ buried' \subseteq Runner
      BY <2>2, <2>3 DEF BrokerInv, PipelineTypes
    <3> QED BY <3>1, <3>2 DEF PipelineTypes
  <2>5. \A q \in Pipeline : q # p => Untouched(q)
    BY <2>1, <2>2 DEF Untouched, BrokerInv, PipelineTypes
  <2>6. buried \subseteq buried' /\ \A r \in buried' \ buried : MadeNext(r) /\ ~CachedNext(r)
    <3>1. CASE buried' = buried
      BY <3>1
    <3>2. CASE nativeP = 0 /\ workerP = 0 /\ buried' = buried \cup {runner[p]}
      <4>1. runner[p].id # 0
        BY RunnerAssumption DEF Runner, Native, Worker
      <4>2. Made(runner[p])
        BY <1>1 DEF BurialSound
      <4>3. MadeNext(runner[p]) /\ ~CachedNext(runner[p])
        BY <1>2, <3>2, <4>1, <4>2 DEF Made, MadeNext, CachedNext
      <4> QED BY <3>2, <4>3
    <3> QED BY <2>2, <3>1, <3>2
  <2>7. runner'[p] = NoRunner /\ build'[p] = "done" /\ seen'[p] = seen[p]
    BY <1>1, <2>1 DEF BrokerInv, PipelineTypes
  <2>8. \/ call'[p] \in {"idle", "warming"}
        \/ /\ nativeP # 0 /\ call'[p] = "native" /\ wait'[p] = nativeP /\ victim'[p] = runner[p]
        \/ /\ nativeP = 0 /\ workerP # 0 /\ call'[p] = "worker"
           /\ wait'[p] = workerP /\ victim'[p] = runner[p]
    BY <2>2 DEF BrokerInv, PipelineTypes
  <2>9. CallSound(p)'
    BY <2>7, <2>8, RunnerAssumption DEF CallSound, BrokerInv, BrokerTypes, Native, Worker
  <2>10. BurialSound(p)'
    <3>1. runner[p].id # 0 /\ Made(runner[p]) /\ seen[p] \subseteq buried'
      BY <1>1, <2>6, RunnerAssumption DEF Runner, Native, Worker, BurialSound
    <3> QED BY <1>2, <2>7, <2>8, <3>1 DEF BurialSound, Made, Cached
  <2> QED BY <1>2, <2>4, <2>5, <2>6, <2>9, <2>10, StepOf
<1> QED BY <1>3, <1>4 DEF Judge, Forgiven

LEMMA ReturnKeeps ==
  ASSUME BrokerInv, NEW p \in Pipeline, Return(p)
  PROVE  BrokerInv'
<1>1. runner[p] \in Runner /\ call[p] \in {"idle", "waiting"}
  BY DEF Return, BrokerInv, CallSound
<1>2. mine' \in [Pipeline -> 0..MaxRequest]
  BY RunnerAssumption DEF Return, BrokerInv, PipelineTypes
<1> QED BY <1>1, <1>2, JudgeKeeps DEF Return

LEMMA NativeCallKeeps ==
  ASSUME BrokerInv, NEW p \in Pipeline, NativeCall(p)
  PROVE  BrokerInv'
<1>1. runner[p] \in Runner /\ call[p] \in {"idle", "waiting"}
  BY DEF NativeCall, BrokerInv, PipelineTypes, Runner, NoRunner
<1>2. mine' \in [Pipeline -> 0..MaxRequest]
  BY DEF NativeCall, BrokerInv, PipelineTypes
<1> QED BY <1>1, <1>2, JudgeKeeps DEF NativeCall

\* The verdict's second half: with the native promise settled, a native victim
\* is out of the cache; the worker promise is awaited only if one is cached.
LEMMA BuryNativeKeeps ==
  ASSUME BrokerInv, NEW p \in Pipeline, BuryNative(p)
  PROVE  BrokerInv'
<1>1. /\ call[p] = "native" /\ build[p] = "done" /\ victim[p] \in Runner /\ wait[p] \in Native
      /\ CallSound(p) /\ BurialSound(p) /\ Made(victim[p]) /\ victim[p].id # 0
      /\ victim[p].kind = "native" /\ nativeP = victim[p].id => wait[p] = victim[p].id
  BY RunnerAssumption DEF BuryNative, BrokerInv, CallSound, BurialSound, Cached, Runner, Native, Worker
<1>2. /\ nativeP' \in {0, nativeP}
      /\ victim[p] = NativeOf(wait[p]) => nativeP' = 0
      /\ missAt' \in {"cooling", missAt}
      /\ UNCHANGED <<nativeOut, workerP, workerOut, build, runner, destroyed, seen, timeouts, mine>>
  BY DEF BuryNative, NativeOf
<1>3. \/ /\ workerP # 0 /\ call' = [call EXCEPT ![p] = "worker"]
         /\ wait' = [wait EXCEPT ![p] = workerP]
         /\ victim' = [victim EXCEPT ![p] = victim[p]] /\ buried' = buried
      \/ /\ workerP = 0 /\ call' = [call EXCEPT ![p] = "warming"]
         /\ wait' = [wait EXCEPT ![p] = 0]
         /\ victim' = [victim EXCEPT ![p] = NoRunner]
         /\ buried' = buried \cup {victim[p]}
  BY Zenon DEF BuryNative, Await, VerdictDone
<1>4. victim[p].kind = "native" => nativeP' # victim[p].id
  <2>1. victim[p].kind = "native" => victim[p] = NativeOf(victim[p].id)
    BY <1>1 DEF Runner, NativeOf
  <2> QED BY <1>1, <1>2, <2>1
<1>5. BrokerTypes' /\ workerP \in Nat /\ CacheMoves
  BY <1>2, RunnerAssumption DEF BrokerInv, BrokerTypes, CacheMoves, CacheSound
<1>6. PipelineTypes'
  BY <1>1, <1>2, <1>3, <1>5 DEF BrokerInv, PipelineTypes
<1>7. \A q \in Pipeline : q # p => Untouched(q)
  BY <1>2, <1>3 DEF Untouched, BrokerInv, PipelineTypes
<1>8. buried \subseteq buried' /\ \A r \in buried' \ buried : MadeNext(r) /\ ~CachedNext(r)
  <2>1. CASE buried' = buried
    BY <2>1
  <2>2. CASE workerP = 0 /\ buried' = buried \cup {victim[p]}
    <3>1. MadeNext(victim[p]) /\ ~CachedNext(victim[p])
      BY <1>1, <1>2, <1>4, <2>2 DEF Made, MadeNext, CachedNext
    <3> QED BY <2>2, <3>1
  <2> QED BY <1>3, <2>1, <2>2
<1>9. \/ call'[p] = "warming"
      \/ workerP # 0 /\ call'[p] = "worker" /\ wait'[p] = workerP /\ victim'[p] = victim[p]
  BY <1>3 DEF BrokerInv, PipelineTypes
<1>10. CallSound(p)'
  BY <1>1, <1>2, <1>9, RunnerAssumption DEF CallSound, BrokerInv, BrokerTypes, Worker
<1>11. BurialSound(p)'
  BY <1>1, <1>2, <1>4, <1>8, <1>9 DEF BurialSound, Made, Cached
<1> QED BY <1>5, <1>6, <1>7, <1>8, <1>10, <1>11, StepOf

LEMMA BuryWorkerKeeps ==
  ASSUME BrokerInv, NEW p \in Pipeline, BuryWorker(p)
  PROVE  BrokerInv'
<1>1. /\ call[p] = "worker" /\ build[p] = "done" /\ victim[p] \in Runner
      /\ CallSound(p) /\ BurialSound(p) /\ Made(victim[p]) /\ victim[p].id # 0
      /\ victim[p].kind = "native" => nativeP # victim[p].id
      /\ victim[p].kind = "worker" /\ workerP = victim[p].id => wait[p] = victim[p].id
  BY RunnerAssumption DEF BuryWorker, BrokerInv, CallSound, BurialSound, Cached, Runner, Native, Worker
<1>2. /\ workerP' \in {0, workerP}
      /\ victim[p] = WorkerOf(wait[p]) => workerP' = 0
      /\ call' = [call EXCEPT ![p] = "warming"] /\ wait' = [wait EXCEPT ![p] = 0]
      /\ victim' = [victim EXCEPT ![p] = NoRunner] /\ buried' = buried \cup {victim[p]}
      /\ UNCHANGED <<nativeP, nativeOut, missAt, workerOut, build, runner, destroyed, seen,
                     timeouts, mine>>
  BY DEF BuryWorker, ForgetsWorker, VerdictDone, WorkerOf
<1>3. victim[p].kind = "worker" => workerP' # victim[p].id
  <2>1. victim[p].kind = "worker" => victim[p] = WorkerOf(victim[p].id)
    BY <1>1 DEF Runner, WorkerOf
  <2> QED BY <1>1, <1>2, <2>1
<1>4. BrokerTypes' /\ CacheMoves
  BY <1>2, RunnerAssumption DEF BrokerInv, BrokerTypes, CacheMoves, CacheSound
<1>5. PipelineTypes'
  BY <1>1, <1>2 DEF BrokerInv, PipelineTypes
<1>6. \A q \in Pipeline : q # p => Untouched(q)
  BY <1>2 DEF Untouched, BrokerInv, PipelineTypes
<1>7. MadeNext(victim[p]) /\ ~CachedNext(victim[p])
  BY <1>1, <1>2, <1>3 DEF Made, MadeNext, CachedNext, Runner
<1>8. call'[p] = "warming"
  BY <1>2 DEF BrokerInv, PipelineTypes
<1>9. CallSound(p)'
  BY <1>1, <1>2, <1>8 DEF CallSound
<1>10. BurialSound(p)'
  BY <1>1, <1>2, <1>8 DEF BurialSound, Made
<1> QED BY <1>2, <1>4, <1>5, <1>6, <1>7, <1>9, <1>10, StepOf

\* Steps that touch neither the cache nor what a pipeline awaits.
LEMMA AskKeepsBroker ==
  ASSUME BrokerInv, ClientTypes, NEW p \in Pipeline, Ask(p)
  PROVE  BrokerInv'
<1>1. /\ runner[p] \in Runner /\ runner[p] # NoRunner /\ build[p] = "done"
      /\ CallSound(p) /\ BurialSound(p)
  BY DEF Ask, BrokerInv, PipelineTypes, CallSound, Runner, NoRunner
<1>2. /\ call' = [call EXCEPT ![p] = "waiting"]
      /\ UNCHANGED <<nativeP, nativeOut, missAt, workerP, workerOut>>
      /\ UNCHANGED <<build, wait, runner, destroyed, seen, timeouts, victim, buried>>
  BY DEF Ask, brokerVars, buildVars
<1>3. mine' \in [Pipeline -> 0..MaxRequest]
  <2>1. asked + 1 \in 0..MaxRequest
    BY RunnerAssumption DEF Ask, ClientTypes
  <2> QED BY <2>1 DEF Ask, BrokerInv, PipelineTypes
<1>4. BrokerTypes' /\ CacheMoves
  BY <1>2 DEF BrokerInv, BrokerTypes, CacheMoves, CacheSound
<1>5. PipelineTypes'
  BY <1>2, <1>3 DEF BrokerInv, PipelineTypes
<1>6. \A q \in Pipeline : q # p => Untouched(q)
  BY <1>2 DEF Untouched, BrokerInv, PipelineTypes
<1>7. call'[p] = "waiting"
  BY <1>2 DEF BrokerInv, PipelineTypes
<1>8. CallSound(p)'
  BY <1>1, <1>2, <1>7 DEF CallSound
<1>9. BurialSound(p)'
  BY <1>1, <1>2, <1>7 DEF BurialSound, Made
<1> QED BY <1>2, <1>4, <1>5, <1>6, <1>8, <1>9, StepOf

LEMMA WarmedKeeps ==
  ASSUME BrokerInv, NEW p \in Pipeline, Warmed(p)
  PROVE  BrokerInv'
<1>1. CallSound(p) /\ BurialSound(p) /\ build[p] = "done"
  BY DEF Warmed, BrokerInv, CallSound
<1>2. /\ call' = [call EXCEPT ![p] = "idle"]
      /\ UNCHANGED <<nativeP, nativeOut, missAt, workerP, workerOut>>
      /\ UNCHANGED <<build, wait, runner, destroyed, seen, timeouts, mine, victim, buried>>
  BY DEF Warmed, brokerVars, buildVars
<1>3. BrokerTypes' /\ CacheMoves
  BY <1>2 DEF BrokerInv, BrokerTypes, CacheMoves, CacheSound
<1>4. PipelineTypes'
  BY <1>2 DEF BrokerInv, PipelineTypes
<1>5. \A q \in Pipeline : q # p => Untouched(q)
  BY <1>2 DEF Untouched, BrokerInv, PipelineTypes
<1>6. call'[p] = "idle"
  BY <1>2 DEF BrokerInv, PipelineTypes
<1>7. CallSound(p)'
  BY <1>1, <1>2, <1>6 DEF CallSound
<1>8. BurialSound(p)'
  BY <1>1, <1>2, <1>6 DEF BurialSound, Made
<1> QED BY <1>2, <1>3, <1>4, <1>5, <1>7, <1>8, StepOf

LEMMA DestroyKeeps ==
  ASSUME BrokerInv, NEW p \in Pipeline, Destroy(p)
  PROVE  BrokerInv'
<1>1. /\ UNCHANGED <<nativeP, nativeOut, missAt, workerP, workerOut>>
      /\ UNCHANGED <<build, wait, runner, seen, timeouts, call, mine, victim, buried>>
      /\ destroyed' = [destroyed EXCEPT ![p] = TRUE]
  BY DEF Destroy, brokerVars, guardVars
<1>2. BrokerTypes' /\ CacheMoves
  BY <1>1 DEF BrokerInv, BrokerTypes, CacheMoves, CacheSound
<1>3. PipelineTypes'
  BY <1>1 DEF BrokerInv, PipelineTypes
<1>4. \A q \in Pipeline : Untouched(q)
  BY <1>1 DEF Untouched
<1>5. CallSound(p)' /\ BurialSound(p)'
  BY <1>1, <1>2, <1>4, OthersKeep
<1> QED BY <1>1, <1>2, <1>3, <1>4, <1>5, StepOf
-----------------------------------------------------------------------------
(***************************************************************************)
(* The theorems.                                                           *)
(***************************************************************************)
LEMMA ClientIdle ==
  ASSUME ClientInv, UNCHANGED clientVars
  PROVE  ClientInv'
BY DEF ClientInv, ClientTypes, RequestsNumbered, RequestsHeld, NoIdleSlot, clientVars

LEMMA BrokerIdle ==
  ASSUME BrokerInv, UNCHANGED <<brokerVars, buildVars, guardVars>>
  PROVE  BrokerInv'
<1>1. BrokerTypes' /\ CacheMoves
  BY DEF BrokerInv, BrokerTypes, CacheMoves, CacheSound, brokerVars
<1> QED BY <1>1, StepOfNone

LEMMA AnswerKeeps ==
  ASSUME ClientInv, NEW i \in Request, Answer(i)
  PROVE  ClientInv'
<1>1. /\ \E r \in Reply : mail' = [mail EXCEPT ![i] = r]
      /\ mail[i] = "posted" /\ UNCHANGED <<asked, host, req, queue, pend, active>>
  BY DEF Answer
<1>2. ClientTypes'
  BY <1>1 DEF ClientInv, ClientTypes
<1>3. RequestsNumbered'
  BY <1>1 DEF ClientInv, ClientTypes, RequestsNumbered
<1>4. RequestsHeld' /\ NoIdleSlot'
  BY <1>1 DEF ClientInv, RequestsHeld, NoIdleSlot
<1> QED BY <1>2, <1>3, <1>4 DEF ClientInv

\* A reply is read; only that of a pending request settles anything.
LEMMA HandleMessageKeeps ==
  ASSUME ClientInv, NEW i \in Request, HandleMessage(i)
  PROVE  ClientInv'
<1>1. mail[i] # "none" /\ host[i] \in Worker /\ UNCHANGED <<asked, host>>
  BY DEF HandleMessage, Reply, ClientInv, RequestsNumbered
<1> DEFINE box == [mail EXCEPT ![i] = "read"]
<1>2. box \in [Request -> MailState] /\ \A j \in Request : box[j] # "none" => mail[j] # "none"
  BY <1>1 DEF ClientInv, ClientTypes, MailState
<1>3. CASE mail' = box /\ UNCHANGED <<req, queue, pend, active>>
  <2>1. ClientTypes'
    BY <1>1, <1>2, <1>3 DEF ClientInv, ClientTypes, MailState
  <2>2. RequestsNumbered'
    BY <1>1, <1>2, <1>3 DEF ClientInv, RequestsNumbered
  <2>3. RequestsHeld' /\ NoIdleSlot'
    BY <1>1, <1>3 DEF ClientInv, RequestsHeld, NoIdleSlot
  <2> QED BY <2>1, <2>2, <2>3 DEF ClientInv
<1>4. CASE i \in pend[host[i]] /\ \E outcome \in Settled : SettleAndPump(i, outcome, box)
  <2>1. PICK outcome \in Settled : SettleAndPump(i, outcome, box)
    BY <1>4
  <2> HIDE DEF box
  <2> QED BY <1>1, <1>2, <1>4, <2>1, SettleKeeps
<1>5. \/ mail' = box /\ UNCHANGED <<req, queue, pend, active>>
      \/ i \in pend[host[i]] /\ \E outcome \in Settled : SettleAndPump(i, outcome, box)
  BY DEF HandleMessage, Reply, Settled, Failed
<1> QED BY <1>3, <1>4, <1>5

LEMMA InferTimeoutKeeps ==
  ASSUME ClientInv, NEW i \in Request, InferTimeout(i)
  PROVE  ClientInv'
<1>1. /\ host[i] \in Worker /\ i \in pend[host[i]] /\ UNCHANGED <<asked, host>>
      /\ SettleAndPump(i, "transient", mail)
  BY DEF InferTimeout, ClientInv, RequestsNumbered
<1>2. "transient" \in Settled /\ mail \in [Request -> MailState]
  BY DEF Settled, Failed, ClientInv, ClientTypes, MailState
<1> QED BY <1>1, <1>2, SettleKeeps

LEMMA InvariantInit == Init => IInv
<1> SUFFICES ASSUME Init PROVE IInv
  OBVIOUS
<1>1. BrokerTypes /\ PipelineTypes
  BY RunnerAssumption DEF Init, BrokerTypes, PipelineTypes, Promise
<1>2. CacheSound /\ \A p \in Pipeline : CallSound(p) /\ BurialSound(p)
  BY DEF Init, CacheSound, CallSound, BurialSound
<1>3. ClientTypes
  BY RunnerAssumption, EmptySeq DEF Init, ClientTypes
<1>4. RequestsNumbered
  BY DEF Init, RequestsNumbered
<1>5. RequestsHeld
  BY FS_EmptySet, EmptySeq DEF Init, RequestsHeld
<1>6. NoIdleSlot
  BY DEF Init, NoIdleSlot
<1> QED BY <1>1, <1>2, <1>3, <1>4, <1>5, <1>6 DEF IInv, BrokerInv, ClientInv

LEMMA InvariantNext == IInv /\ [Next]_vars => IInv'
<1> SUFFICES ASSUME IInv, [Next]_vars PROVE BrokerInv' /\ ClientInv'
  BY DEF IInv
<1>0. BrokerInv /\ ClientInv /\ ClientTypes /\ PipelineTypes
  BY DEF IInv, BrokerInv, ClientInv
<1>1. ASSUME NEW n \in Native, NativeAnswer(n) PROVE BrokerInv' /\ ClientInv'
  BY <1>0, <1>1, NativeAnswerKeeps, ClientIdle DEF NativeAnswer
<1>2. ASSUME NEW w \in Worker, WorkerAnswer(w) PROVE BrokerInv' /\ ClientInv'
  BY <1>0, <1>2, WorkerAnswerKeeps, ClientIdle DEF WorkerAnswer
<1>3. ASSUME NEW w \in Worker, WorkerError(w) PROVE BrokerInv' /\ ClientInv'
  BY <1>0, <1>3, WorkerErrorKeeps, BrokerIdle DEF WorkerError
<1>4. CASE CooldownPasses
  BY <1>0, <1>4, CooldownKeeps, ClientIdle DEF CooldownPasses
<1>5. ASSUME NEW i \in Request, Answer(i) PROVE BrokerInv' /\ ClientInv'
  BY <1>0, <1>5, AnswerKeeps, BrokerIdle DEF Answer
<1>6. ASSUME NEW i \in Request, HandleMessage(i) PROVE BrokerInv' /\ ClientInv'
  BY <1>0, <1>6, HandleMessageKeeps, BrokerIdle DEF HandleMessage
<1>7. ASSUME NEW i \in Request, InferTimeout(i) PROVE BrokerInv' /\ ClientInv'
  BY <1>0, <1>7, InferTimeoutKeeps, BrokerIdle DEF InferTimeout
<1>8. ASSUME NEW p \in Pipeline, StartBuild(p) PROVE BrokerInv' /\ ClientInv'
  BY <1>0, <1>8, StartBuildKeeps, ClientIdle DEF StartBuild
<1>9. ASSUME NEW p \in Pipeline, BuildNative(p) PROVE BrokerInv' /\ ClientInv'
  BY <1>0, <1>9, BuildNativeKeeps, ClientIdle DEF BuildNative
<1>10. ASSUME NEW p \in Pipeline, BuildWorker(p) PROVE BrokerInv' /\ ClientInv'
  BY <1>0, <1>10, BuildWorkerKeeps, ClientIdle DEF BuildWorker
<1>11. ASSUME NEW p \in Pipeline, Destroy(p) PROVE BrokerInv' /\ ClientInv'
  BY <1>0, <1>11, DestroyKeeps, ClientIdle DEF Destroy
<1>12. ASSUME NEW p \in Pipeline, Ask(p) PROVE BrokerInv' /\ ClientInv'
  BY <1>0, <1>12, AskKeeps, AskKeepsBroker
<1>13. ASSUME NEW p \in Pipeline, NativeCall(p) PROVE BrokerInv' /\ ClientInv'
  BY <1>0, <1>13, NativeCallKeeps, ClientIdle DEF NativeCall
<1>14. ASSUME NEW p \in Pipeline, Return(p) PROVE BrokerInv' /\ ClientInv'
  BY <1>0, <1>14, ReturnKeeps, ClientIdle DEF Return
<1>15. ASSUME NEW p \in Pipeline, BuryNative(p) PROVE BrokerInv' /\ ClientInv'
  BY <1>0, <1>15, BuryNativeKeeps, ClientIdle DEF BuryNative
<1>16. ASSUME NEW p \in Pipeline, BuryWorker(p) PROVE BrokerInv' /\ ClientInv'
  BY <1>0, <1>16, BuryWorkerKeeps, ClientIdle DEF BuryWorker
<1>17. ASSUME NEW p \in Pipeline, Warmed(p) PROVE BrokerInv' /\ ClientInv'
  BY <1>0, <1>17, WarmedKeeps, ClientIdle DEF Warmed
<1>18. CASE UNCHANGED vars
  BY <1>0, <1>18, BrokerIdle, ClientIdle DEF vars
<1> QED BY <1>1, <1>2, <1>3, <1>4, <1>5, <1>6, <1>7, <1>8, <1>9, <1>10, <1>11, <1>12, <1>13,
           <1>14, <1>15, <1>16, <1>17, <1>18 DEF Next

LEMMA Invariant == Spec => []IInv
<1> QED BY InvariantInit, InvariantNext, PTL DEF Spec

\* Counters stay in range, a worker client never posts beyond its limit, and
\* what a pipeline is bound to is a runner some attempt made.
THEOREM TypeCorrect == Spec => []TypeOK
<1>1. IInv => TypeOK
  BY DEF IInv, BrokerInv, ClientInv, TypeOK
<1> QED BY <1>1, Invariant, PTL

\* The request queue of realesrgan-worker-client.ts loses nothing and answers
\* nothing twice: unsettled requests are exactly those queued, in order, or
\* pending, and activeRequests counts the pending ones.
THEOREM RequestsAreHeld == Spec => []RequestsHeld
<1>1. IInv => RequestsHeld
  BY DEF IInv, ClientInv
<1> QED BY <1>1, Invariant, PTL

\* Every path that frees a slot pumps the queue.
THEOREM SlotsNeverIdle == Spec => []NoIdleSlot
<1>1. IInv => NoIdleSlot
  BY DEF IInv, ClientInv
<1> QED BY <1>1, Invariant, PTL

\* The broker serves a buried runner to no pipeline whose build began after the
\* verdict, for any number of pipelines, spawns and overlapping verdicts.
THEOREM BuriedStaysBuried == Spec => []BuriedNotServed
<1>1. IInv => BuriedNotServed
  BY DEF IInv, BrokerInv, BurialSound, BuriedNotServed
<1> QED BY <1>1, Invariant, PTL
-----------------------------------------------------------------------------
(***************************************************************************)
(* The worker behind the client. It shares no state with the client: what  *)
(* WorkerRunner keeps of it is only how a posted request ends. Messages    *)
(* run beside each other and share the sessions, so nothing can be said    *)
(* of the session a message will get; its label is sound because a message *)
(* takes the url of whatever session it runs on, at every place where it   *)
(* gets one.                                                               *)
(***************************************************************************)
\* A message is a record of these fields.
Field == {"pc", "round", "lane", "tile", "rebuilt", "held", "on", "probe", "ran", "mod", "reply"}
Message(s) == s = [f \in Field |-> s[f]]

\* The frames of one run.
OneRun(i, s) == s.lane = "batch" \/ i \in Single

\* A frame of one run has no output before that run, runs on the session its label
\* names, and is made of that session's output from then on.
LabelSound(i, s) ==
  /\ s.pc # "done" => s.reply = "none"
  /\ OneRun(i, s) =>
       /\ s.pc \in {"create", "run"} => s.ran = {}
       /\ s.pc = "run" => s.probe = s.on
       /\ s.pc \in {"compose", "load", "blend"} => s.ran = {s.probe}
       /\ s.reply \in Url => s.ran = {s.reply}

LabelInv ==
  /\ st = [i \in Infer |-> st[i]]
  /\ \A i \in Infer : Message(st[i]) /\ LabelSound(i, st[i])

\* A message that has no output yet, and may look for a session.
Empty(i, s) == Message(s) /\ s.reply = "none" /\ (OneRun(i, s) => s.ran = {})

LEMMA NoReplyIsUrl ==
  \A r \in {"none", "failed", "timeout"} : r \notin Url
  BY DEF Url, Fp16, Fp32

LEMMA FreshMessage ==
  ASSUME NEW pc, NEW round
  PROVE  /\ Message(FreshInfer(pc, round))
         /\ FreshInfer(pc, round).pc = pc
         /\ FreshInfer(pc, round).reply = "none"
         /\ FreshInfer(pc, round).ran = {}
  BY DEF Message, Field, FreshInfer

\* Whichever way getSession goes, the message runs on the session its label names.
LEMMA AttachSound ==
  ASSUME NEW i, NEW s, Empty(i, s), NEW url
  PROVE  LET e == Attach(s, url) IN Message(e) /\ LabelSound(i, e)
  BY NoReplyIsUrl DEF Empty, Message, Field, LabelSound, OneRun, Attach

LEMMA CreateSound ==
  ASSUME NEW i, NEW s, Empty(i, s), NEW url
  PROVE  LET e == [s EXCEPT !.pc = "create", !.on = url] IN Message(e) /\ LabelSound(i, e)
  BY NoReplyIsUrl DEF Empty, Message, Field, LabelSound, OneRun

LEMMA BlendSound ==
  ASSUME NEW i, NEW s, Message(s), LabelSound(i, s), s.pc \in {"compose", "load"},
         NEW pc \in {"blend", "load"}, NEW mod
  PROVE  LET e == [s EXCEPT !.pc = pc, !.mod = mod] IN Message(e) /\ LabelSound(i, e)
<1> DEFINE e == [s EXCEPT !.pc = pc, !.mod = mod]
<1>1. /\ Message(e) /\ e.pc = pc /\ e.reply = s.reply
      /\ e.lane = s.lane /\ e.probe = s.probe /\ e.ran = s.ran
  BY DEF Message, Field
<1> QED BY <1>1, NoReplyIsUrl DEF LabelSound, OneRun

\* One message takes a step.
Steps(i) ==
  \E e : st' = [st EXCEPT ![i] = e] /\ Message(e) /\ LabelSound(i, e)

LEMMA StepSound ==
  ASSUME LabelInv, NEW i \in Infer, Steps(i)
  PROVE  LabelInv'
  BY DEF LabelInv, Steps

LEMMA GetSessionSound ==
  ASSUME LabelInv, NEW i \in Infer, NEW STATE s, Empty(i, s), NEW STATE cache, NEW STATE off,
         GetSession(i, s, cache, off)
  PROVE  Steps(i)
<1> DEFINE url == Entry(cache, KeyOf(i, s)).url
           hit == Served(cache, KeyOf(i, s)) /\ ~Entry(cache, KeyOf(i, s)).idle
           made == [s EXCEPT !.pc = "create", !.on = IF off THEN Fp32 ELSE Fp16]
<1>1. st' = [st EXCEPT ![i] = IF hit THEN Attach(s, url) ELSE made]
  BY DEF GetSession
<1>2. Message(Attach(s, url)) /\ LabelSound(i, Attach(s, url))
  BY AttachSound
<1>3. Message(made) /\ LabelSound(i, made)
  BY CreateSound
<1> QED BY <1>1, <1>2, <1>3 DEF Steps

LEMMA ReplySound ==
  ASSUME LabelInv, NEW i \in Infer, NEW STATE s, NEW STATE reply, NEW STATE cache, NEW STATE off,
         ReplyTo(i, s, reply, cache, off),
         OneRun(i, s) /\ reply \in Url => s.ran = {reply}
  PROVE  Steps(i)
<1> DEFINE e == [FreshInfer("done", 0) EXCEPT !.reply = reply, !.lane = s.lane, !.ran = s.ran]
<1>1. st' = [st EXCEPT ![i] = e]
  BY DEF ReplyTo
<1>2. Message(e) /\ e.pc = "done" /\ e.reply = reply /\ e.lane = s.lane /\ e.ran = s.ran
  BY DEF Message, Field, FreshInfer
<1>3. LabelSound(i, e)
  BY <1>2 DEF LabelSound, OneRun
<1> QED BY <1>1, <1>2, <1>3 DEF Steps

\* What handleInfer does with an error: the frame starts over, or its label is a failure.
LEMMA ThrowSound ==
  ASSUME LabelInv, NEW i \in Infer, NEW STATE s, Empty(i, s), NEW error,
         NEW STATE cache, NEW STATE off, Throw(i, s, error, cache, off)
  PROVE  Steps(i)
<1>1. CASE Downgrade(i, s, error, cache, off) /\ s.lane = "batch"
  <2> DEFINE e == [s EXCEPT !.lane = "seq", !.rebuilt = FALSE]
  <2>1. Empty(i, e)
    BY <1>1 DEF Empty, Message, Field, OneRun
  <2>2. GetSession(i, e, cache, off)
    BY <1>1 DEF Downgrade
  <2> QED BY <2>1, <2>2, GetSessionSound
<1>2. CASE StartRound(i, 1, PurgeFp16(cache), TRUE)
  <2> DEFINE e == [FreshInfer("run", 1) EXCEPT !.lane = IF batchOff THEN "seq" ELSE "batch"]
  <2>1. Empty(i, e)
    BY DEF Empty, Message, Field, OneRun, FreshInfer
  <2>2. GetSession(i, e, PurgeFp16(cache), TRUE)
    BY <1>2 DEF StartRound
  <2> QED BY <2>1, <2>2, GetSessionSound
<1>3. CASE ReplyTo(i, s, IF error = "timeout" THEN "timeout" ELSE "failed", cache, off)
  <2> DEFINE r == IF error = "timeout" THEN "timeout" ELSE "failed"
  <2>1. r \notin Url
    BY NoReplyIsUrl
  <2>2. ReplyTo(i, s, r, cache, off)
    BY <1>3
  <2> HIDE DEF r
  <2> QED BY <2>1, <2>2, ReplySound
<1> QED BY <1>1, <1>2, <1>3 DEF Throw, Cascade

\* Only the message that takes the step changes, but for those that share a load
\* of the pixel module: they keep what they are made of.
LEMMA LabelStep == ASSUME LabelInv, [InferNext]_inferVars PROVE LabelInv'
<1>1. ASSUME NEW i \in Infer, Start(i) PROVE LabelInv'
  <2> DEFINE e == [FreshInfer("run", 0) EXCEPT !.lane = IF batchOff THEN "seq" ELSE "batch"]
  <2>1. Empty(i, e)
    BY DEF Empty, Message, Field, OneRun, FreshInfer
  <2>2. GetSession(i, e, sessions, fp16Off)
    BY <1>1 DEF Start, StartRound
  <2> QED BY <2>1, <2>2, GetSessionSound, StepSound
<1>2. ASSUME NEW i \in Infer, Refuse(i) PROVE LabelInv'
  <2>1. ReplyTo(i, st[i], "failed", sessions, fp16Off)
    BY <1>2 DEF Refuse
  <2> QED BY <2>1, ReplySound, StepSound, NoReplyIsUrl
<1>3. ASSUME NEW i \in Infer, st[i].pc \in {"create", "run"} PROVE Empty(i, st[i])
  BY <1>3 DEF LabelInv, LabelSound, Empty
<1>4. ASSUME NEW i \in Infer, Created(i) PROVE LabelInv'
  <2>1. Empty(i, st[i])
    BY <1>3, <1>4 DEF Created
  <2>2. st' = [st EXCEPT ![i] = Attach(st[i], st[i].on)]
    BY <1>4 DEF Created
  <2> QED BY <2>1, <2>2, AttachSound, StepSound DEF Steps
<1>5. ASSUME NEW i \in Infer, NEW error, CreateEnds(i, error) PROVE LabelInv'
  <2>1. Empty(i, st[i])
    BY <1>3, <1>5 DEF CreateEnds
  <2>2. CASE st' = [st EXCEPT ![i].on = Fp32]
    <3>1. /\ st[i].pc = "create"
          /\ [st[i] EXCEPT !.on = Fp32] =
               [st[i] EXCEPT !.pc = "create", !.on = Fp32]
      BY <1>5, <2>1 DEF CreateEnds, Empty, Message, Field
    <3>2. st' = [st EXCEPT ![i] = [st[i] EXCEPT !.pc = "create", !.on = Fp32]]
      BY <2>2, <3>1 DEF LabelInv
    <3> QED BY <2>1, <3>2, CreateSound, StepSound DEF Steps
  <2>3. ASSUME NEW STATE cache, NEW STATE off, Throw(i, st[i], error, cache, off)
        PROVE  LabelInv'
    BY <2>1, <2>3, ThrowSound, StepSound
  <2> QED BY <1>5, <2>2, <2>3 DEF CreateEnds
<1>6. ASSUME NEW i \in Infer, Run(i) PROVE LabelInv'
  <2> DEFINE s == st[i]
             done == s.lane = "batch" \/ i \in Single \/ s.tile + 1 = Tiles
  <2>1. s.pc = "run" /\ st' = [st EXCEPT ![i] = Ran(s, done)]
    BY <1>6 DEF Run
  <2>2. Empty(i, s) /\ LabelSound(i, s)
    BY <1>3, <2>1 DEF LabelInv
  <2>3. Message(Ran(s, done)) /\ LabelSound(i, Ran(s, done))
    <3>1. CASE done
      <4>1. Ran(s, done) =
              [FreshInfer("compose", 0) EXCEPT !.lane = s.lane, !.probe = s.probe, !.ran = s.ran \cup {s.on}]
        BY <3>1 DEF Ran
      <4> HIDE DEF s, done
      <4>2. LET e == Ran(s, done)
            IN /\ Message(e) /\ e.pc = "compose" /\ e.reply = "none"
               /\ e.lane = s.lane /\ e.probe = s.probe /\ e.ran = s.ran \cup {s.on}
        BY <4>1 DEF Message, Field, FreshInfer
      <4>3. OneRun(i, s) => s.ran = {} /\ s.probe = s.on
        BY <2>1, <2>2 DEF LabelSound
      <4> QED BY <4>2, <4>3, NoReplyIsUrl DEF LabelSound, OneRun
    <3>2. CASE ~done
      <4>1. Ran(s, done) =
              [s EXCEPT !.tile = @ + 1, !.ran = s.ran \cup {s.on}, !.rebuilt = FALSE, !.on = s.held]
        BY <3>2 DEF Ran
      <4>2. /\ Message(Ran(s, done))
            /\ Ran(s, done).lane = s.lane /\ Ran(s, done).reply = s.reply
            /\ Ran(s, done).pc = s.pc
        BY <2>2, <4>1 DEF Message, Field, Empty
      <4>3. ~OneRun(i, Ran(s, done))
        BY <3>2, <4>2 DEF OneRun
      <4> QED BY <2>2, <4>2, <4>3 DEF LabelSound
    <3> QED BY <3>1, <3>2
  <2> QED BY <2>1, <2>3, StepSound DEF Steps
<1>7. ASSUME NEW i \in Infer, NEW error, RunFails(i, error) PROVE LabelInv'
  <2>1. Empty(i, st[i])
    BY <1>3, <1>7 DEF RunFails
  <2>2. CASE Throw(i, st[i], error, sessions, fp16Off)
    BY <2>1, <2>2, ThrowSound, StepSound
  <2>3. CASE GetSession(i, [st[i] EXCEPT !.rebuilt = TRUE], <<>>, fp16Off)
    <3>1. Empty(i, [st[i] EXCEPT !.rebuilt = TRUE])
      BY <2>1 DEF Empty, Message, Field, OneRun
    <3> QED BY <2>3, <3>1, GetSessionSound, StepSound
  <2> QED BY <1>7, <2>2, <2>3 DEF RunFails
<1>9. ASSUME NEW i \in Infer, Compose(i) PROVE LabelInv'
  <2> DEFINE pc == IF pixels \/ (cooling /\ ~loading) THEN "blend" ELSE "load"
  <2>1. st[i].pc = "compose" /\ st' = [st EXCEPT ![i] = [st[i] EXCEPT !.pc = pc, !.mod = pixels]]
    BY <1>9 DEF Compose, LabelInv
  <2>2. pc \in {"blend", "load"}
    OBVIOUS
  <2> HIDE DEF pc
  <2>3. LET e == [st[i] EXCEPT !.pc = pc, !.mod = pixels] IN Message(e) /\ LabelSound(i, e)
    BY <2>1, <2>2, BlendSound DEF LabelInv
  <2> QED BY <2>1, <2>3, StepSound DEF Steps
<1>10. ASSUME PixelsLoaded PROVE LabelInv'
  <2>1. PICK ok \in BOOLEAN :
          st' = [i \in Infer |-> IF st[i].pc = "load"
                   THEN [st[i] EXCEPT !.pc = "blend", !.mod = ok] ELSE st[i]]
    BY <1>10 DEF PixelsLoaded
  <2>2. ASSUME NEW i \in Infer PROVE Message(st'[i]) /\ LabelSound(i, st'[i])
    <3>1. CASE st[i].pc = "load"
      <4>1. st'[i] = [st[i] EXCEPT !.pc = "blend", !.mod = ok]
        BY <2>1, <3>1
      <4>2. LET e == [st[i] EXCEPT !.pc = "blend", !.mod = ok]
            IN  Message(e) /\ LabelSound(i, e)
        BY <3>1, BlendSound DEF LabelInv
      <4> QED BY <4>1, <4>2
    <3>2. CASE st[i].pc # "load"
      BY <2>1, <3>2 DEF LabelInv
    <3> QED BY <3>1, <3>2
  <2>3. st' = [i \in Infer |-> st'[i]]
    BY <2>1
  <2> QED BY <2>2, <2>3 DEF LabelInv
<1>11. ASSUME NEW i \in Infer, Blend(i) PROVE LabelInv'
  <2>1. st[i].pc = "blend" /\ ReplyTo(i, st[i], st[i].probe, sessions, fp16Off)
    BY <1>11 DEF Blend
  <2>2. OneRun(i, st[i]) => st[i].ran = {st[i].probe}
    BY <2>1 DEF LabelInv, LabelSound
  <2> QED BY <2>1, <2>2, ReplySound, StepSound
<1>12. ASSUME UNCHANGED st PROVE LabelInv'
  BY <1>12 DEF LabelInv
<1>13. ASSUME NEW i \in Infer, Step(i) PROVE LabelInv'
  BY <1>4, <1>5, <1>6, <1>7, <1>9, <1>11, <1>13
     DEF Step, CreateFails, CreateTimeout
<1>14. CASE InferNext
  BY <1>1, <1>2, <1>10, <1>12, <1>13, <1>14
     DEF InferNext, Initialised, Idle, Cooled, LateCreate
<1>15. CASE UNCHANGED inferVars
  BY <1>12, <1>15 DEF inferVars
<1> QED BY <1>14, <1>15

\* The precision a reply reports is that of the session whose output the frame is,
\* for any messages, tiles and sizes of the cache, whatever overlapping messages
\* created, evicted, purged or rebuilt meanwhile.
THEOREM LabelsCorrect == InferSpec => []LabelTellsServer
<1>1. InferInit => LabelInv
  <2> SUFFICES ASSUME InferInit PROVE LabelInv
    OBVIOUS
  <2>1. st = [i \in Infer |-> FreshInfer("new", 0)]
    BY DEF InferInit
  <2>2. \A i \in Infer : Message(st[i]) /\ LabelSound(i, st[i])
    BY <2>1, FreshMessage, NoReplyIsUrl DEF LabelSound
  <2> QED BY <2>1, <2>2 DEF LabelInv
<1>2. LabelInv => LabelTellsServer
  BY DEF LabelInv, LabelSound, OneRun, LabelTellsServer
<1> QED BY <1>1, <1>2, LabelStep, PTL DEF InferSpec
=============================================================================
