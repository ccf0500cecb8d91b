------------------------ MODULE CacheInvalidationProofs ------------------------
(***************************************************************************)
(* Theorems about CacheInvalidation, for every set of operations, every    *)
(* number of callers and every limit of the retry queue.                   *)
(***************************************************************************)
EXTENDS CacheInvalidation, SequenceTheorems, TLAPS

Entry  == [attempts : 0 .. AttemptsCap, wait : 0 .. RETRY_MAX_DELAY_MS]
Timer  == {Off} \cup 0 .. RETRY_MAX_DELAY_MS
Drain  == [pc : {"idle", "unlink", "publish"}, op : Operations,
           attempts : 0 .. AttemptsCap, due : SUBSET Operations]
Caller == [pc : {"idle", "unlink", "publish", "done"}, op : Operations]

\* The variables a retry or a drain may change have their types.
RetryTypeOK ==
  /\ queue \in Seq(Operations)
  /\ entry \in [Operations -> Entry]
  /\ timer \in Timer
  /\ drain \in Drain

\* The limits are natural numbers, and the queue has room for an entry.
LEMMA LimitsFacts ==
  /\ RETRY_INTERVAL_MS \in 0 .. RETRY_MAX_DELAY_MS
  /\ {RETRY_MAX_DELAY_MS, AttemptsCap, MaxFaults} \subseteq Nat
  /\ RETRY_MAX_QUEUE \in Nat \ {0}
BY CacheAssumption

\* The operation that stands for none is an operation.
LEMMA Op0Type == Op0 \in Operations
BY CacheAssumption DEF Op0

(* No delay is longer than RETRY_MAX_DELAY_MS, however often an operation   *)
(* failed, and none is negative.                                            *)
LEMMA WaitingType ==
  ASSUME NEW a \in 0 .. AttemptsCap
  PROVE  Waiting(a) \in Entry /\ Failed(a) \in Entry
<1>1. \A b \in 0 .. AttemptsCap : Waiting(b) \in Entry
  <2>1. SUFFICES ASSUME NEW b \in 0 .. AttemptsCap
                 PROVE  Waiting(b) \in Entry
    OBVIOUS
  <2>2. 2 ^ b \in Nat
    BY CacheAssumption
  <2>3. \A x \in Nat : RETRY_INTERVAL_MS * x \in Nat
    BY LimitsFacts
  <2>4. RETRY_INTERVAL_MS * 2 ^ b \in Nat
    BY <2>2, <2>3
  <2>5. Backoff(b) \in 0 .. RETRY_MAX_DELAY_MS
    BY <2>4, LimitsFacts DEF Backoff, Smaller
  <2>6. QED
    BY <2>5 DEF Waiting, Entry
<1>2. Smaller(a + 1, AttemptsCap) \in 0 .. AttemptsCap
  BY LimitsFacts DEF Smaller
<1>3. QED
  BY <1>1, <1>2 DEF Failed

\* A queue stays one when a key is put into it.
LEMMA PutType ==
  ASSUME NEW q \in Seq(Operations), NEW o \in Operations
  PROVE  Put(q, o) \in Seq(Operations) /\ Has(Put(q, o), o)
<1>1. CASE Has(q, o)
  BY <1>1 DEF Put
<1>2. CASE ~Has(q, o)
  <2>1. Append(q, o) \in Seq(Operations)
    OBVIOUS
  <2>2. Len(q) + 1 \in DOMAIN Append(q, o) /\ Append(q, o)[Len(q) + 1] = o
    OBVIOUS
  <2>3. QED
    BY <1>2, <2>1, <2>2 DEF Put, Has
<1>3. QED
  BY <1>1, <1>2

\* What was in the queue is in it when another key was put at its end.
LEMMA PutKeeps ==
  ASSUME NEW q \in Seq(Operations), NEW o \in Operations, NEW p \in Operations, Has(q, p)
  PROVE  Has(Append(q, o), p) /\ Has(Put(q, o), p)
<1>1. PICK i \in DOMAIN q : q[i] = p
  BY DEF Has
<1>2. i \in DOMAIN Append(q, o) /\ Append(q, o)[i] = p
  BY <1>1
<1>3. QED
  BY <1>2 DEF Has, Put

(* Deleting a key removes one occurrence of it and keeps every other key.   *)
LEMMA DeletedKeeps ==
  ASSUME NEW q \in Seq(Operations), NEW o \in Operations
  PROVE  /\ Deleted(q, o) \in Seq(Operations)
         /\ \A p \in Operations \ {o} : Has(q, p) => Has(Deleted(q, o), p)
<1>1. CASE ~Has(q, o)
  BY <1>1 DEF Deleted
<1>2. CASE Has(q, o)
  <2> DEFINE i == CHOOSE k \in DOMAIN q : q[k] = o
             before == SubSeq(q, 1, i - 1)
             after  == SubSeq(q, i + 1, Len(q))
  <2>1. i \in 1 .. Len(q) /\ q[i] = o
    BY <1>2 DEF Has
  <2>2. Deleted(q, o) = before \o after
    BY <1>2 DEF Deleted
  <2> HIDE DEF i
  <2>3. \A k \in 1 .. Len(q) : q[k] \in Operations
    BY ElementOfSeq
  <2>4. /\ before \in Seq(Operations) /\ Len(before) = i - 1
        /\ \A k \in 1 .. i - 1 : before[k] = q[k]
    <3>1. \A k \in 1 .. i - 1 : q[k] \in Operations
      BY <2>1, <2>3
    <3>2. /\ before \in Seq(Operations)
          /\ Len(before) = IF 1 <= i - 1 THEN (i - 1) - 1 + 1 ELSE 0
          /\ \A k \in 1 .. (i - 1) - 1 + 1 : before[k] = q[1 + k - 1]
      <4>1. 1 \in Int /\ i - 1 \in Int
        BY <2>1
      <4>2. QED
        BY <3>1, <4>1, SubSeqProperties
    <3>3. QED
      BY <2>1, <3>2
  <2>5. /\ after \in Seq(Operations) /\ Len(after) = Len(q) - i
        /\ \A k \in 1 .. Len(q) - i : after[k] = q[i + k]
    <3>1. \A k \in i + 1 .. Len(q) : q[k] \in Operations
      BY <2>1, <2>3
    <3>2. /\ after \in Seq(Operations)
          /\ Len(after) = IF i + 1 <= Len(q) THEN Len(q) - (i + 1) + 1 ELSE 0
          /\ \A k \in 1 .. Len(q) - (i + 1) + 1 : after[k] = q[(i + 1) + k - 1]
      <4>1. i + 1 \in Int /\ Len(q) \in Int
        BY <2>1
      <4>2. QED
        BY <3>1, <4>1, SubSeqProperties
    <3>3. QED
      BY <2>1, <3>2
  <2> HIDE DEF before, after
  <2>6. /\ before \o after \in Seq(Operations)
        /\ Len(before \o after) = Len(before) + Len(after)
        /\ \A k \in 1 .. Len(before) + Len(after) :
             (before \o after)[k] = IF k <= Len(before) THEN before[k] ELSE after[k - Len(before)]
    BY <2>4, <2>5, ConcatProperties
  <2>7. ASSUME NEW p \in Operations \ {o}, Has(q, p)
        PROVE  \E k \in DOMAIN (before \o after) : (before \o after)[k] = p
    <3>1. PICK k \in 1 .. Len(q) : q[k] = p
      BY <2>7 DEF Has
    <3>2. DOMAIN (before \o after) = 1 .. Len(q) - 1
      BY <2>1, <2>4, <2>5, <2>6
    <3>3. CASE k < i
      <4>1. k \in 1 .. Len(q) - 1 /\ (before \o after)[k] = q[k]
        BY <2>1, <2>4, <2>5, <2>6, <3>3
      <4>2. QED
        BY <3>1, <3>2, <4>1
    <3>4. CASE k > i
      <4>1. k - 1 \in 1 .. Len(q) - 1 /\ (before \o after)[k - 1] = after[k - i]
        BY <2>1, <2>4, <2>5, <2>6, <3>4
      <4>2. k - i \in 1 .. Len(q) - i /\ i + (k - i) = k
        BY <2>1, <3>4
      <4>3. after[k - i] = q[k]
        BY <2>5, <4>2
      <4>4. QED
        BY <3>1, <3>2, <4>1, <4>3
    <3>5. k # i
      BY <2>1, <2>7, <3>1
    <3>6. QED
      BY <2>1, <3>3, <3>4, <3>5
  <2>8. QED
    BY <2>2, <2>6, <2>7 DEF Has
<1>3. QED
  BY <1>1, <1>2

\* CacheTypeOK in the terms of these proofs.
LEMMA TypeParts ==
  CacheTypeOK <=> /\ RetryTypeOK
                  /\ client \in {"none", "connecting", "ready"}
                  /\ caller \in [Callers -> Caller]
                  /\ stale \in [Operations -> SUBSET Caches]
                  /\ faults \in 0 .. MaxFaults
BY DEF CacheTypeOK, RetryTypeOK, Entry, Timer, Drain, Caller

(* Queueing an operation: it is in the queue, a timer runs, and only the    *)
(* oldest entry of a full queue is lost.                                    *)
LEMMA EnqueueRetryFacts ==
  ASSUME RetryTypeOK, NEW o \in Operations, EnqueueRetry(o)
  PROVE  /\ RetryTypeOK'
         /\ timer' # Off
         /\ drain' = [drain EXCEPT !.due = @ \ {o}]
         /\ InQueue(o)'
         /\ \A p \in Operations :
              InQueue(p) => \/ InQueue(p)'
                            \/ Len(queue) >= RETRY_MAX_QUEUE /\ Head(queue) = p
<1> DEFINE kept == IF Evicts(o) THEN Tail(queue) ELSE queue
<1>1. kept \in Seq(Operations)
  <2>1. Evicts(o) => queue # <<>>
    BY LimitsFacts DEF Evicts, RetryTypeOK
  <2>2. queue # <<>> => Tail(queue) \in Seq(Operations)
    BY HeadTailProperties DEF RetryTypeOK
  <2>3. QED
    BY <2>1, <2>2 DEF RetryTypeOK
<1>2. queue' = IF InQueue(o) THEN queue ELSE Append(kept, o)
  BY DEF EnqueueRetry
<1>3. queue' \in Seq(Operations) /\ Has(queue', o)
  <2>1. CASE InQueue(o)
    BY <1>2, <2>1 DEF InQueue, RetryTypeOK
  <2>2. CASE ~InQueue(o)
    <3>1. Append(kept, o) \in Seq(Operations)
      BY <1>1
    <3>2. Has(Append(kept, o), o)
      <4> HIDE DEF kept
      <4>1. Len(kept) + 1 \in DOMAIN Append(kept, o) /\ Append(kept, o)[Len(kept) + 1] = o
        BY <1>1
      <4>2. QED
        BY <4>1 DEF Has
    <3>3. QED
      BY <1>2, <2>2, <3>1, <3>2
  <2>3. QED
    BY <2>1, <2>2
<1>4. ASSUME NEW p \in Operations, InQueue(p), ~(Len(queue) >= RETRY_MAX_QUEUE /\ Head(queue) = p)
      PROVE  Has(queue', p)
  <2>1. CASE InQueue(o)
    BY <1>2, <1>4, <2>1 DEF InQueue
  <2>2. CASE ~InQueue(o) /\ ~Evicts(o)
    <3>1. queue' = Append(queue, o)
      BY <1>2, <2>2
    <3>2. QED
      BY <1>4, <3>1, PutKeeps DEF InQueue, RetryTypeOK
  <2>3. CASE ~InQueue(o) /\ Evicts(o)
    <3>1. PICK i \in 1 .. Len(queue) : queue[i] = p
      BY <1>4 DEF InQueue, Has, RetryTypeOK
    <3>2. queue # <<>> /\ Head(queue) # p
      BY <1>4, <2>3, <3>1 DEF Evicts, RetryTypeOK
    <3>3. i # 1
      BY <3>1, <3>2 DEF RetryTypeOK
    <3>4. /\ Tail(queue) \in Seq(Operations) /\ Len(Tail(queue)) = Len(queue) - 1
          /\ \A k \in 1 .. Len(Tail(queue)) : Tail(queue)[k] = queue[k + 1]
      BY <3>2, HeadTailProperties DEF RetryTypeOK
    <3>5. Has(Tail(queue), p)
      <4>1. i - 1 \in 1 .. Len(Tail(queue)) /\ (i - 1) + 1 = i
        BY <3>1, <3>3, <3>4 DEF RetryTypeOK
      <4>2. i - 1 \in DOMAIN Tail(queue) /\ Tail(queue)[i - 1] = p
        BY <3>1, <3>4, <4>1
      <4>3. QED
        BY <4>2 DEF Has
    <3>6. queue' = Append(Tail(queue), o)
      BY <1>2, <2>3
    <3>7. QED
      BY <3>4, <3>5, <3>6, PutKeeps
  <2>4. QED
    BY <2>1, <2>2, <2>3
<1>5. entry' \in [Operations -> Entry] /\ entry'[o].wait \in 0 .. RETRY_MAX_DELAY_MS
  <2>1. NoEntry \in Entry /\ 0 \in 0 .. AttemptsCap
    BY LimitsFacts DEF NoEntry, Entry
  <2>2. entry[o].attempts \in 0 .. AttemptsCap
    BY DEF RetryTypeOK, Entry
  <2>3. Waiting(IF InQueue(o) THEN entry[o].attempts ELSE 0) \in Entry
    BY <2>1, <2>2, WaitingType
  <2>4. \A p \in Operations : entry[p] \in Entry
    BY DEF RetryTypeOK
  <2>5. entry' \in [Operations -> Entry]
    BY <2>1, <2>3, <2>4 DEF EnqueueRetry
  <2>6. QED
    BY <2>5 DEF Entry
<1>6. timer' \in Timer /\ timer' # Off
  BY <1>5, LimitsFacts DEF EnqueueRetry, Armed, RetryTypeOK, Timer, Off
<1>7. drain' = [drain EXCEPT !.due = @ \ {o}] /\ drain' \in Drain
  BY DEF EnqueueRetry, RetryTypeOK, Drain
<1>8. QED
  BY <1>3, <1>4, <1>5, <1>6, <1>7 DEF RetryTypeOK, InQueue

(* A drain that goes on or ends leaves a timer behind, when it ends and the *)
(* queue is not empty.                                                      *)
LEMMA VisitFacts ==
  ASSUME NEW q \in Seq(Operations), NEW e \in [Operations -> Entry],
         NEW due \in SUBSET Operations, NEW t \in Timer, Visit(q, e, due, t)
  PROVE  /\ RetryTypeOK'
         /\ queue' = q
         /\ drain'.pc \in {"idle", "unlink"}
         /\ RetriesAreScheduled'
<1>1. queue' = q /\ entry' = e
  BY DEF Visit
<1>2. Rearmed(t, q) \in Timer /\ (q # <<>> => Rearmed(t, q) # Off)
  BY LimitsFacts DEF Rearmed, Timer, Off
<1>3. CASE drain' = IdleDrain /\ timer' = Rearmed(t, q)
  <2>1. IdleDrain \in Drain /\ IdleDrain.pc = "idle"
    BY LimitsFacts, Op0Type DEF IdleDrain, Drain
  <2>2. QED
    BY <1>1, <1>2, <1>3, <2>1 DEF RetryTypeOK, RetriesAreScheduled
<1>4. CASE \E i \in DOMAIN q :
             /\ drain' = [pc |-> "unlink", op |-> q[i], attempts |-> e[q[i]].attempts, due |-> due]
             /\ timer' = t
  <2>1. PICK i \in DOMAIN q :
          /\ drain' = [pc |-> "unlink", op |-> q[i], attempts |-> e[q[i]].attempts, due |-> due]
          /\ timer' = t
    BY <1>4
  <2>2. q[i] \in Operations
    OBVIOUS
  <2>3. e[q[i]].attempts \in 0 .. AttemptsCap
    BY <2>2 DEF Entry
  <2>4. drain' \in Drain /\ drain'.pc = "unlink"
    BY <2>1, <2>2, <2>3 DEF Drain
  <2>5. QED
    BY <1>1, <2>1, <2>4 DEF RetryTypeOK, RetriesAreScheduled
<1>5. QED
  BY <1>3, <1>4 DEF Visit

\* A drain that is asked for begins, finds another one, or finds no client.
LEMMA DrainRetryQueueFacts ==
  ASSUME RetryTypeOK, NEW t \in Timer, DrainRetryQueue(t)
  PROVE  /\ RetryTypeOK'
         /\ queue' = queue
         /\ drain' = drain \/ (drain.pc = "idle" /\ drain'.pc \in {"idle", "unlink"})
         /\ RetriesAreScheduled'
<1>1. CASE drain.pc # "idle" /\ timer' = t /\ UNCHANGED <<queue, entry, drain>>
  BY <1>1 DEF RetryTypeOK, RetriesAreScheduled
<1>2. CASE timer' = Rearmed(t, queue) /\ UNCHANGED <<queue, entry, drain>>
  <2>1. Rearmed(t, queue) \in Timer /\ (queue # <<>> => Rearmed(t, queue) # Off)
    BY LimitsFacts DEF Rearmed, Timer, Off
  <2>2. QED
    BY <1>2, <2>1 DEF RetryTypeOK, RetriesAreScheduled
<1>3. CASE /\ drain.pc = "idle"
           /\ Visit(queue, entry, {o \in Operations : InQueue(o) /\ entry[o].wait = 0}, t)
  <2>1. {o \in Operations : InQueue(o) /\ entry[o].wait = 0} \in SUBSET Operations
    OBVIOUS
  <2>2. QED
    BY <1>3, <2>1, VisitFacts DEF RetryTypeOK
<1>4. QED
  BY <1>1, <1>2, <1>3 DEF DrainRetryQueue

-----------------------------------------------------------------------------
\* A success of the drain deletes the operation and goes on, or ends.
LEMMA DrainPublishedFacts ==
  ASSUME RetryTypeOK, DrainPublished
  PROVE  /\ RetryTypeOK'
         /\ queue' = Deleted(queue, drain.op)
         /\ drain'.pc \in {"idle", "unlink"}
         /\ RetriesAreScheduled'
<1> DEFINE q == Deleted(queue, drain.op)
           e == [entry EXCEPT ![drain.op] = NoEntry]
<1>1. drain.op \in Operations /\ drain.due \ {drain.op} \in SUBSET Operations
  BY DEF RetryTypeOK, Drain
<1>2. q \in Seq(Operations)
  BY <1>1, DeletedKeeps DEF RetryTypeOK
<1>3. e \in [Operations -> Entry]
  <2>1. NoEntry \in Entry
    BY LimitsFacts DEF NoEntry, Entry
  <2>2. QED
    BY <1>1, <2>1 DEF RetryTypeOK
<1>4. Visit(q, e, drain.due \ {drain.op}, timer) /\ timer \in Timer
  BY DEF DrainPublished, RetryTypeOK
<1>5. QED
  <2> HIDE DEF q, e
  <2>1. /\ RetryTypeOK' /\ queue' = q
        /\ drain'.pc \in {"idle", "unlink"} /\ RetriesAreScheduled'
    BY <1>1, <1>2, <1>3, <1>4, VisitFacts
  <2>2. QED
    BY <2>1 DEF q

\* A failure of the drain leaves the operation in the queue.
LEMMA DrainFailsFacts ==
  ASSUME RetryTypeOK, DrainFails
  PROVE  /\ RetryTypeOK'
         /\ queue' = Put(queue, drain.op)
         /\ drain'.pc \in {"idle", "unlink"}
         /\ RetriesAreScheduled'
<1> DEFINE q == Put(queue, drain.op)
           e == [entry EXCEPT ![drain.op] = Failed(drain.attempts)]
<1>1. /\ drain.op \in Operations /\ drain.due \ {drain.op} \in SUBSET Operations
      /\ drain.attempts \in 0 .. AttemptsCap
  BY DEF RetryTypeOK, Drain
<1>2. q \in Seq(Operations)
  BY <1>1, PutType DEF RetryTypeOK
<1>3. e \in [Operations -> Entry]
  <2>1. Failed(drain.attempts) \in Entry
    BY <1>1, WaitingType
  <2>2. QED
    BY <1>1, <2>1 DEF RetryTypeOK
<1>4. Visit(q, e, drain.due \ {drain.op}, timer) /\ timer \in Timer
  BY DEF DrainFails, RetryTypeOK
<1>5. QED
  <2> HIDE DEF q, e
  <2>1. /\ RetryTypeOK' /\ queue' = q
        /\ drain'.pc \in {"idle", "unlink"} /\ RetriesAreScheduled'
    BY <1>1, <1>2, <1>3, <1>4, VisitFacts
  <2>2. QED
    BY <2>1 DEF q

\* An invocation that changes its pc or its operation stays one.
LEMMA CallerType ==
  ASSUME caller \in [Callers -> Caller], NEW c \in Callers,
         NEW pc \in {"idle", "unlink", "publish", "done"}, NEW o \in Operations
  PROVE  /\ [caller EXCEPT ![c] = [pc |-> pc, op |-> o]] \in [Callers -> Caller]
         /\ [caller EXCEPT ![c].pc = pc] \in [Callers -> Caller]
         /\ caller[c].op \in Operations
BY DEF Caller

\* Every step keeps the types.
LEMMA StepKeepsTypes ==
  ASSUME CacheTypeOK, [Next]_vars
  PROVE  CacheTypeOK'
<1>0. /\ RetryTypeOK /\ client \in {"none", "connecting", "ready"} /\ caller \in [Callers -> Caller]
      /\ stale \in [Operations -> SUBSET Caches] /\ faults \in 0 .. MaxFaults
  BY TypeParts
<1>1. SUFFICES /\ RetryTypeOK' /\ client' \in {"none", "connecting", "ready"}
               /\ caller' \in [Callers -> Caller]
               /\ stale' \in [Operations -> SUBSET Caches] /\ faults' \in 0 .. MaxFaults
  BY DEF CacheTypeOK, RetryTypeOK, Entry, Timer, Drain, Caller
<1> USE <1>0
<1>f. Fault => faults' \in 0 .. MaxFaults
  BY LimitsFacts DEF Fault
<1>u. UNCHANGED <<queue, entry, timer, drain>> => RetryTypeOK'
  BY DEF RetryTypeOK
<1>2. ASSUME NEW c \in Callers, Request(c)
      PROVE  /\ RetryTypeOK' /\ client' \in {"none", "connecting", "ready"}
             /\ caller' \in [Callers -> Caller]
             /\ stale' \in [Operations -> SUBSET Caches] /\ faults' \in 0 .. MaxFaults
  <2>1. PICK o \in Operations, kind \in KINDS :
          /\ stale' = [stale EXCEPT ![o] = IF kind = "publish" THEN @ \cup {"local"} ELSE Caches]
          /\ \/ /\ client = "ready"
                /\ caller' = [caller EXCEPT ![c] =
                                [pc |-> IF kind = "publish" THEN "publish" ELSE "unlink", op |-> o]]
                /\ UNCHANGED <<client, queue, entry, timer, drain>>
             \/ /\ client # "ready"
                /\ client' = "connecting"
                /\ caller' = [caller EXCEPT ![c].pc = "done"]
                /\ EnqueueRetry(o)
    BY <1>2 DEF Request
  <2>2. stale' \in [Operations -> SUBSET Caches]
    BY <2>1 DEF Caches
  <2>3. faults' \in 0 .. MaxFaults
    BY <1>2 DEF Request
  <2>4. caller' \in [Callers -> Caller]
    <3> DEFINE pc == IF kind = "publish" THEN "publish" ELSE "unlink"
    <3>1. \/ caller' = [caller EXCEPT ![c] = [pc |-> pc, op |-> o]]
          \/ caller' = [caller EXCEPT ![c].pc = "done"]
      BY <2>1
    <3>2. pc \in {"idle", "unlink", "publish", "done"}
      OBVIOUS
    <3> HIDE DEF pc
    <3>3. [caller EXCEPT ![c] = [pc |-> pc, op |-> o]] \in [Callers -> Caller]
      BY <3>2, CallerType
    <3>4. [caller EXCEPT ![c].pc = "done"] \in [Callers -> Caller]
      BY CallerType
    <3>5. QED
      BY <3>1, <3>3, <3>4
  <2>5. RetryTypeOK' /\ client' \in {"none", "connecting", "ready"}
    BY <1>u, <2>1, EnqueueRetryFacts
  <2>6. QED
    BY <2>2, <2>3, <2>4, <2>5
<1>3. ASSUME NEW c \in Callers, CallerStep(c)
      PROVE  /\ RetryTypeOK' /\ client' \in {"none", "connecting", "ready"}
             /\ caller' \in [Callers -> Caller]
             /\ stale' \in [Operations -> SUBSET Caches] /\ faults' \in 0 .. MaxFaults
  <2>1. UNCHANGED <<client, queue, entry, timer, drain, faults>>
    BY <1>3 DEF CallerStep, CallerUnlinked, CallerPublished
  <2>2. caller[c].op \in Operations
    BY DEF Caller
  <2>3. stale' \in [Operations -> SUBSET Caches]
    BY <1>3, <2>2 DEF CallerStep, CallerUnlinked, CallerPublished
  <2>4. caller' \in [Callers -> Caller]
    <3>1. caller' = [caller EXCEPT ![c].pc = "publish"] \/ caller' = [caller EXCEPT ![c].pc = "done"]
      BY <1>3 DEF CallerStep, CallerUnlinked, CallerPublished
    <3>2. QED
      BY <2>2, <3>1, CallerType
  <2>5. QED
    BY <1>u, <2>1, <2>3, <2>4
<1>4. ASSUME NEW c \in Callers, CallerFails(c)
      PROVE  /\ RetryTypeOK' /\ client' \in {"none", "connecting", "ready"}
             /\ caller' \in [Callers -> Caller]
             /\ stale' \in [Operations -> SUBSET Caches] /\ faults' \in 0 .. MaxFaults
  <2>1. caller[c].op \in Operations
    BY DEF Caller
  <2>2. RetryTypeOK'
    BY <1>4, <2>1, EnqueueRetryFacts DEF CallerFails
  <2>3. caller' \in [Callers -> Caller]
    BY <1>4, <2>1, CallerType DEF CallerFails
  <2>4. QED
    BY <1>4, <1>f, <2>2, <2>3 DEF CallerFails
<1>5. CASE TimerFires
  <2>1. Off \in Timer
    BY DEF Timer
  <2>2. RetryTypeOK'
    BY <1>5, <2>1, DrainRetryQueueFacts DEF TimerFires
  <2>3. QED
    BY <1>5, <2>2 DEF TimerFires
<1>6. CASE Ready
  <2>1. RetryTypeOK'
    BY <1>6, DrainRetryQueueFacts DEF Ready, RetryTypeOK
  <2>2. QED
    BY <1>6, <2>1 DEF Ready
<1>7. CASE DrainStep
  <2>1. drain.op \in Operations
    BY DEF RetryTypeOK, Drain
  <2>2. CASE DrainUnlinked
    <3>1. drain' \in Drain
      BY <2>2 DEF DrainUnlinked, RetryTypeOK, Drain
    <3>2. QED
      BY <2>1, <2>2, <3>1 DEF DrainUnlinked, RetryTypeOK
  <2>3. CASE DrainPublished
    <3>1. RetryTypeOK'
      BY <2>3, DrainPublishedFacts
    <3>2. stale' \in [Operations -> SUBSET Caches] /\ UNCHANGED <<client, caller, faults>>
      BY <2>1, <2>3 DEF DrainPublished
    <3>3. QED
      BY <3>1, <3>2
  <2>4. QED
    BY <1>7, <2>2, <2>3 DEF DrainStep
<1>8. CASE DrainFails
  BY <1>8, <1>f, DrainFailsFacts DEF DrainFails
<1>9. CASE Disconnect
  BY <1>9, <1>f, <1>u DEF Disconnect
<1>10. CASE Exit
  <2>1. IdleDrain \in Drain /\ NoEntry \in Entry
    BY LimitsFacts, Op0Type DEF IdleDrain, Drain, NoEntry, Entry
  <2>2. RetryTypeOK'
    BY <1>10, <2>1 DEF Exit, RetryTypeOK, Timer
  <2>3. caller' \in [Callers -> Caller]
    BY <1>10 DEF Exit, Caller
  <2>4. QED
    BY <1>10, <1>f, <2>2, <2>3 DEF Exit
<1>11. CASE Tick
  <2>1. \A o \in Operations : entry[o].wait > 0 => [entry[o] EXCEPT !.wait = entry[o].wait - 1] \in Entry
    <3>1. SUFFICES ASSUME NEW o \in Operations, entry[o].wait > 0
                   PROVE  [entry[o] EXCEPT !.wait = entry[o].wait - 1] \in Entry
      OBVIOUS
    <3>2. entry[o] \in Entry
      BY DEF RetryTypeOK
    <3>3. entry[o].wait - 1 \in 0 .. RETRY_MAX_DELAY_MS
      BY <3>1, <3>2, LimitsFacts DEF Entry
    <3>4. QED
      BY <3>2, <3>3 DEF Entry
  <2>2. entry' \in [Operations -> Entry]
    BY <1>11, <2>1 DEF Tick, RetryTypeOK
  <2>3. timer' \in Timer
    BY <1>11, LimitsFacts DEF Tick, RetryTypeOK, Timer, Off
  <2>4. QED
    BY <1>11, <2>2, <2>3 DEF Tick, RetryTypeOK
<1>12. CASE UNCHANGED vars
  BY <1>12, <1>u DEF vars
<1>13. QED
  BY <1>2, <1>3, <1>4, <1>5, <1>6, <1>7, <1>8, <1>9, <1>10, <1>11, <1>12 DEF Next, Idle

(* Every variable keeps its type: the retry delays stay within their limit, *)
(* and the keys of the retry queue are operations that were asked for.      *)
THEOREM CacheTypeCorrect == Spec => []CacheTypeOK
<1>1. Init => CacheTypeOK
  BY LimitsFacts, Op0Type DEF Init, CacheTypeOK, NoEntry, IdleDrain
<1>2. CacheTypeOK /\ [Next]_vars => CacheTypeOK'
  BY StepKeepsTypes
<1>3. QED
  BY <1>1, <1>2, PTL DEF Spec

-----------------------------------------------------------------------------
\* Every step leaves a timer or a drain behind for what is in the queue.
LEMMA StepKeepsScheduled ==
  ASSUME CacheTypeOK, RetriesAreScheduled, [Next]_vars
  PROVE  RetriesAreScheduled'
<1> USE DEF RetriesAreScheduled
<1>0. RetryTypeOK /\ caller \in [Callers -> Caller]
  BY TypeParts
<1>1. UNCHANGED <<queue, entry, timer, drain>> => RetriesAreScheduled'
  OBVIOUS
<1>2. \A o \in Operations : EnqueueRetry(o) => RetriesAreScheduled'
  BY <1>0, EnqueueRetryFacts
<1>3. ASSUME NEW c \in Callers, Request(c) \/ CallerStep(c) \/ CallerFails(c)
      PROVE  RetriesAreScheduled'
  <2>1. caller[c].op \in Operations
    BY <1>0 DEF Caller
  <2>2. \/ UNCHANGED <<queue, entry, timer, drain>>
        \/ \E o \in Operations : EnqueueRetry(o)
    BY <1>3, <2>1 DEF Request, CallerStep, CallerUnlinked, CallerPublished, CallerFails
  <2>3. QED
    BY <1>1, <1>2, <2>2
<1>4. CASE TimerFires \/ Ready
  <2>1. Off \in Timer /\ timer \in Timer
    BY <1>0 DEF Timer, RetryTypeOK
  <2>2. DrainRetryQueue(Off) \/ DrainRetryQueue(timer)
    BY <1>4 DEF TimerFires, Ready
  <2>3. QED
    BY <1>0, <2>1, <2>2, DrainRetryQueueFacts
<1>5. CASE DrainStep \/ DrainFails
  <2>1. CASE DrainUnlinked
    BY <2>1 DEF DrainUnlinked
  <2>2. CASE DrainPublished
    BY <1>0, <2>2, DrainPublishedFacts
  <2>3. CASE DrainFails
    BY <1>0, <2>3, DrainFailsFacts
  <2>4. QED
    BY <1>5, <2>1, <2>2, <2>3 DEF DrainStep
<1>6. CASE Disconnect
  BY <1>6 DEF Disconnect
<1>7. CASE Exit
  BY <1>7 DEF Exit
<1>8. CASE Tick
  <2>1. timer # Off => timer' # Off
    BY <1>0, <1>8 DEF Tick, RetryTypeOK, Timer, Off
  <2>2. UNCHANGED <<queue, drain>>
    BY <1>8 DEF Tick
  <2>3. QED
    BY <2>1, <2>2
<1>9. CASE UNCHANGED vars
  BY <1>9 DEF vars
<1>10. QED
  BY <1>3, <1>4, <1>5, <1>6, <1>7, <1>8, <1>9 DEF Next, Idle

(* No entry of the retry queue is ever left without a timer or a drain.     *)
THEOREM RetriesStayScheduled == Spec => []RetriesAreScheduled
<1>1. Init => RetriesAreScheduled
  BY DEF Init, RetriesAreScheduled
<1>2. CacheTypeOK /\ RetriesAreScheduled /\ [Next]_vars => RetriesAreScheduled'
  BY StepKeepsScheduled
<1>3. QED
  BY <1>1, <1>2, CacheTypeCorrect, PTL DEF Spec

-----------------------------------------------------------------------------
(* Between the UNLINK and the end of a drain's retry only a caller that has *)
(* yet to remove it makes the shared copy stale again: whoever had to queue *)
(* the operation took it out of what the drain has in hand.                 *)
UnlinkedStaysFresh ==
  /\ drain.pc = "publish" /\ drain.op \in drain.due
  /\ "shared" \in stale[drain.op]
  => \E c \in Callers : caller[c].pc = "unlink" /\ caller[c].op = drain.op

\* Every step keeps that.
LEMMA StepKeepsFresh ==
  ASSUME CacheTypeOK, UnlinkedStaysFresh, [Next]_vars
  PROVE  UnlinkedStaysFresh'
<1> USE DEF UnlinkedStaysFresh
<1>0. /\ RetryTypeOK /\ caller \in [Callers -> Caller]
      /\ stale \in [Operations -> SUBSET Caches] /\ drain.op \in Operations
  BY TypeParts DEF RetryTypeOK, Drain
<1>1. ASSUME NEW o \in Operations, EnqueueRetry(o)
      PROVE  drain'.pc = drain.pc /\ drain'.op = drain.op /\ drain'.due = drain.due \ {o}
  BY <1>0, <1>1 DEF EnqueueRetry, RetryTypeOK, Drain
<1>2. ASSUME NEW c \in Callers, Request(c)
      PROVE  UnlinkedStaysFresh'
  <2>1. PICK o \in Operations, kind \in KINDS :
          /\ stale' = [stale EXCEPT ![o] = IF kind = "publish" THEN @ \cup {"local"} ELSE Caches]
          /\ \/ /\ client = "ready"
                /\ caller' = [caller EXCEPT ![c] =
                                [pc |-> IF kind = "publish" THEN "publish" ELSE "unlink", op |-> o]]
                /\ UNCHANGED <<client, queue, entry, timer, drain>>
             \/ /\ client # "ready"
                /\ client' = "connecting"
                /\ caller' = [caller EXCEPT ![c].pc = "done"]
                /\ EnqueueRetry(o)
    BY <1>2 DEF Request
  <2>2. \A d \in Callers : d # c => caller'[d] = caller[d]
    BY <1>0, <2>1
  <2>3. caller[c].pc = "idle"
    BY <1>2 DEF Request
  <2>4. CASE UNCHANGED drain /\ o = drain.op /\ kind # "publish"
    <3>1. CASE client = "ready"
      BY <1>0, <2>1, <2>4, <3>1
    <3>2. CASE client # "ready"
      BY <1>0, <1>1, <2>1, <2>4, <3>2
    <3>3. QED
      BY <3>1, <3>2
  <2>5. CASE UNCHANGED drain /\ (o # drain.op \/ kind = "publish")
    <3>1. "shared" \in stale'[drain.op] => "shared" \in stale[drain.op]
      BY <1>0, <2>1, <2>5
    <3>2. QED
      BY <2>2, <2>3, <2>5, <3>1
  <2>6. CASE EnqueueRetry(o)
    <3>1. CASE o = drain.op
      BY <1>1, <2>6, <3>1
    <3>2. CASE o # drain.op
      BY <1>0, <1>1, <2>1, <2>2, <2>3, <2>6, <3>2
    <3>3. QED
      BY <3>1, <3>2
  <2>7. QED
    BY <2>1, <2>4, <2>5, <2>6
<1>3. ASSUME NEW c \in Callers, CallerUnlinked(c)
      PROVE  UnlinkedStaysFresh'
  BY <1>0, <1>3 DEF CallerUnlinked, Caller
<1>4. ASSUME NEW c \in Callers, CallerPublished(c)
      PROVE  UnlinkedStaysFresh'
  BY <1>0, <1>4 DEF CallerPublished, Caller
<1>5. ASSUME NEW c \in Callers, CallerFails(c)
      PROVE  UnlinkedStaysFresh'
  <2>1. caller[c].op \in Operations /\ EnqueueRetry(caller[c].op) /\ stale' = stale
    BY <1>0, <1>5 DEF CallerFails, Caller
  <2>2. \A d \in Callers : d # c => caller'[d] = caller[d]
    BY <1>0, <1>5 DEF CallerFails
  <2>3. QED
    BY <1>1, <2>1, <2>2
<1>6. CASE TimerFires \/ Ready
  <2>1. Off \in Timer /\ timer \in Timer
    BY <1>0 DEF Timer, RetryTypeOK
  <2>2. drain' = drain \/ drain'.pc \in {"idle", "unlink"}
    BY <1>0, <1>6, <2>1, DrainRetryQueueFacts DEF TimerFires, Ready
  <2>3. UNCHANGED <<caller, stale>>
    BY <1>6 DEF TimerFires, Ready
  <2>4. QED
    BY <2>2, <2>3
<1>7. CASE DrainUnlinked
  <2>1. "shared" \notin stale'[drain.op] /\ drain'.op = drain.op
    BY <1>0, <1>7 DEF DrainUnlinked, RetryTypeOK, Drain
  <2>2. QED
    BY <2>1
<1>8. CASE DrainPublished \/ DrainFails
  <2>1. drain'.pc \in {"idle", "unlink"}
    BY <1>0, <1>8, DrainPublishedFacts, DrainFailsFacts
  <2>2. QED
    BY <2>1
<1>9. CASE Exit
  BY <1>9 DEF Exit, IdleDrain
<1>10. CASE Disconnect \/ Tick \/ UNCHANGED vars
  BY <1>10 DEF Disconnect, Tick, vars
<1>11. QED
  BY <1>2, <1>3, <1>4, <1>5, <1>6, <1>7, <1>8, <1>9, <1>10 DEF Next, CallerStep, DrainStep, Idle

-----------------------------------------------------------------------------
\* How an operation may be forgotten.
Excused(o) ==
  \/ Exit
  \/ Len(queue) >= RETRY_MAX_QUEUE /\ Head(queue) = o
  \/ DrainPublished /\ drain.op = o /\ o \notin drain.due

\* A step that leaves the caller's and the drain's other work alone forgets
\* nothing but what it does not leave in the queue.
LEMMA StepRemembers ==
  ASSUME CacheTypeOK, UnlinkedStaysFresh, [Next]_vars, NEW o \in Operations,
         ~Excused(o), NEW cache \in stale'[o],
         cache \in stale[o] => Remembered(o, cache)
  PROVE  Remembered(o, cache)'
<1> USE DEF Remembered, Busy
<1>0. /\ RetryTypeOK /\ caller \in [Callers -> Caller]
      /\ stale \in [Operations -> SUBSET Caches] /\ drain.op \in Operations
  BY TypeParts DEF RetryTypeOK, Drain
<1>1. ASSUME NEW p \in Operations, EnqueueRetry(p)
      PROVE  /\ InQueue(p)' /\ (InQueue(o) => InQueue(o)')
             /\ drain'.pc = drain.pc /\ drain'.op = drain.op
  <2>1. InQueue(p)' /\ (InQueue(o) => InQueue(o)')
    BY <1>0, <1>1, EnqueueRetryFacts DEF Excused
  <2>2. drain'.pc = drain.pc /\ drain'.op = drain.op
    BY <1>0, <1>1 DEF EnqueueRetry, RetryTypeOK, Drain
  <2>3. QED
    BY <2>1, <2>2
<1>2. ASSUME NEW c \in Callers, Request(c)
      PROVE  Remembered(o, cache)'
  <2>1. PICK p \in Operations, kind \in KINDS :
          /\ stale' = [stale EXCEPT ![p] = IF kind = "publish" THEN @ \cup {"local"} ELSE Caches]
          /\ \/ /\ client = "ready"
                /\ caller' = [caller EXCEPT ![c] =
                                [pc |-> IF kind = "publish" THEN "publish" ELSE "unlink", op |-> p]]
                /\ UNCHANGED <<client, queue, entry, timer, drain>>
             \/ /\ client # "ready"
                /\ client' = "connecting"
                /\ caller' = [caller EXCEPT ![c].pc = "done"]
                /\ EnqueueRetry(p)
    BY <1>2 DEF Request
  <2>2. \A d \in Callers : d # c => caller'[d] = caller[d]
    BY <1>0, <2>1
  <2>3. caller[c].pc = "idle"
    BY <1>2 DEF Request
  <2>4. CASE /\ caller' = [caller EXCEPT ![c] =
                             [pc |-> IF kind = "publish" THEN "publish" ELSE "unlink", op |-> p]]
             /\ UNCHANGED <<client, queue, entry, timer, drain>>
    <3>1. CASE o = p /\ (kind # "publish" \/ cache = "local")
      <4>1. caller'[c].op = o /\ caller'[c].pc = IF kind = "publish" THEN "publish" ELSE "unlink"
        BY <1>0, <2>4, <3>1
      <4>2. QED
        BY <3>1, <4>1
    <3>2. CASE ~(o = p /\ (kind # "publish" \/ cache = "local"))
      <4>1. cache \in stale[o]
        BY <1>0, <2>1, <3>2
      <4>2. InQueue(o)' = InQueue(o) /\ drain' = drain
        BY <2>4 DEF InQueue
      <4>3. QED
        BY <2>2, <2>3, <4>1, <4>2
    <3>3. QED
      BY <3>1, <3>2
  <2>5. CASE EnqueueRetry(p)
    <3>1. CASE o = p
      BY <1>1, <2>5, <3>1
    <3>2. CASE o # p
      <4>1. cache \in stale[o]
        BY <1>0, <2>1, <3>2
      <4>2. QED
        BY <1>1, <2>2, <2>3, <2>5, <4>1
    <3>3. QED
      BY <3>1, <3>2
  <2>6. QED
    BY <2>1, <2>4, <2>5
<1>3. ASSUME NEW c \in Callers, CallerStep(c)
      PROVE  Remembered(o, cache)'
  <2>1. /\ InQueue(o)' = InQueue(o) /\ drain' = drain
        /\ \A d \in Callers : d # c => caller'[d] = caller[d]
    BY <1>0, <1>3 DEF CallerStep, CallerUnlinked, CallerPublished, InQueue
  <2>2. cache \in stale[o]
    BY <1>0, <1>3 DEF CallerStep, CallerUnlinked, CallerPublished, Caller
  <2>3. CASE CallerUnlinked(c)
    <3>1. caller[c].op = o => cache # "shared"
      BY <1>0, <2>3 DEF CallerUnlinked
    <3>2. cache \in Caches
      BY <1>0, <2>2
    <3>3. caller'[c].op = caller[c].op /\ caller'[c].pc = "publish"
      BY <1>0, <2>3 DEF CallerUnlinked, Caller
    <3>4. QED
      BY <2>1, <2>2, <3>1, <3>2, <3>3 DEF Caches
  <2>4. CASE CallerPublished(c)
    <3>1. caller[c].op = o => cache # "local"
      BY <1>0, <2>4 DEF CallerPublished
    <3>2. caller[c].pc = "publish"
      BY <2>4 DEF CallerPublished
    <3>3. QED
      BY <2>1, <2>2, <3>1, <3>2
  <2>5. QED
    BY <1>3, <2>3, <2>4 DEF CallerStep
<1>4. ASSUME NEW c \in Callers, CallerFails(c)
      PROVE  Remembered(o, cache)'
  <2>1. caller[c].op \in Operations /\ EnqueueRetry(caller[c].op) /\ stale' = stale
    BY <1>0, <1>4 DEF CallerFails, Caller
  <2>2. \A d \in Callers : d # c => caller'[d] = caller[d]
    BY <1>0, <1>4 DEF CallerFails
  <2>3. QED
    BY <1>1, <2>1, <2>2
<1>5. CASE TimerFires \/ Ready
  <2>1. Off \in Timer /\ timer \in Timer
    BY <1>0 DEF Timer, RetryTypeOK
  <2>2. queue' = queue /\ (drain' = drain \/ drain.pc = "idle")
    BY <1>0, <1>5, <2>1, DrainRetryQueueFacts DEF TimerFires, Ready
  <2>3. UNCHANGED <<caller, stale>>
    BY <1>5 DEF TimerFires, Ready
  <2>4. QED
    BY <2>2, <2>3 DEF InQueue
<1>6. CASE DrainUnlinked
  <2>1. /\ drain'.op = drain.op /\ drain'.pc = "publish" /\ InQueue(o)' = InQueue(o)
        /\ caller' = caller
    BY <1>0, <1>6 DEF DrainUnlinked, RetryTypeOK, Drain, InQueue
  <2>2. cache \in stale[o] /\ cache \in Caches /\ (drain.op = o => cache # "shared")
    BY <1>0, <1>6 DEF DrainUnlinked
  <2>3. QED
    BY <2>1, <2>2 DEF Caches
<1>7. CASE DrainPublished
  <2>1. queue' = Deleted(queue, drain.op) /\ caller' = caller /\ drain.pc = "publish"
    BY <1>0, <1>7, DrainPublishedFacts DEF DrainPublished
  <2>2. cache \in stale[o] /\ cache \in Caches /\ (drain.op = o => cache # "local")
    BY <1>0, <1>7 DEF DrainPublished
  <2>3. CASE drain.op = o
    <3>1. cache = "shared" /\ o \in drain.due
      BY <1>7, <2>2, <2>3 DEF Caches, Excused
    <3>2. \E c \in Callers : caller[c].pc = "unlink" /\ caller[c].op = o
      BY <2>1, <2>2, <2>3, <3>1 DEF UnlinkedStaysFresh
    <3>3. QED
      BY <2>1, <3>2
  <2>4. CASE drain.op # o
    <3>1. InQueue(o) => InQueue(o)'
      BY <1>0, <2>1, <2>4, DeletedKeeps DEF InQueue, RetryTypeOK
    <3>2. QED
      BY <2>1, <2>2, <2>4, <3>1
  <2>5. QED
    BY <2>3, <2>4
<1>8. CASE DrainFails
  <2>1. queue' = Put(queue, drain.op) /\ UNCHANGED <<caller, stale>>
    BY <1>0, <1>8, DrainFailsFacts DEF DrainFails
  <2>2. CASE drain.op = o
    BY <1>0, <2>1, <2>2, PutType DEF InQueue, RetryTypeOK
  <2>3. CASE drain.op # o
    <3>1. InQueue(o) => InQueue(o)'
      BY <1>0, <2>1, PutKeeps DEF InQueue, RetryTypeOK
    <3>2. QED
      BY <2>1, <2>3, <3>1
  <2>4. QED
    BY <2>2, <2>3
<1>9. CASE Disconnect \/ Tick \/ UNCHANGED vars
  BY <1>9 DEF Disconnect, Tick, vars, InQueue
<1>10. ~Exit
  BY DEF Excused
<1>11. QED
  BY <1>2, <1>3, <1>4, <1>5, <1>6, <1>7, <1>8, <1>9, <1>10 DEF Next, DrainStep, Idle

(* An invalidation that was asked for is forgotten, while a cache may still *)
(* hold what it was to remove, only with the process, by the limit of the   *)
(* queue, or with the older entry of its key that the drain was retrying.   *)
THEOREM ForgottenOnlyByLimitsHolds == Spec => ForgottenOnlyByLimits
<1>1. Init => UnlinkedStaysFresh
  BY DEF Init, UnlinkedStaysFresh, IdleDrain
<1>2. CacheTypeOK /\ UnlinkedStaysFresh /\ [Next]_vars => UnlinkedStaysFresh'
  BY StepKeepsFresh
<1>3. ASSUME CacheTypeOK, UnlinkedStaysFresh, [Next]_vars
      PROVE  [\A o \in Operations : ~Forgotten(o) /\ Forgotten(o)' =>
                \/ Exit
                \/ Len(queue) >= RETRY_MAX_QUEUE /\ Head(queue) = o
                \/ DrainPublished /\ drain.op = o /\ o \notin drain.due]_vars
  <2>1. SUFFICES ASSUME NEW o \in Operations, ~Forgotten(o), Forgotten(o)', ~Excused(o)
                 PROVE  FALSE
    BY DEF Excused
  <2>2. PICK cache \in stale'[o] : ~Remembered(o, cache)'
    BY <2>1 DEF Forgotten
  <2>3. cache \in stale[o] => Remembered(o, cache)
    BY <2>1 DEF Forgotten
  <2>4. QED
    BY <1>3, <2>1, <2>2, <2>3, StepRemembers
<1>4. QED
  BY <1>1, <1>2, <1>3, CacheTypeCorrect, PTL DEF Spec, ForgottenOnlyByLimits

-----------------------------------------------------------------------------
\* Nobody who queues an operation makes a full queue longer.
LEMMA EnqueueKeepsLength ==
  ASSUME RetryTypeOK, NEW o \in Operations, EnqueueRetry(o), Len(queue) >= RETRY_MAX_QUEUE
  PROVE  Len(queue') <= Len(queue)
<1>1. queue \in Seq(Operations) /\ Len(queue) \in Nat /\ queue # <<>>
  BY LimitsFacts DEF RetryTypeOK
<1>2. CASE InQueue(o)
  BY <1>1, <1>2 DEF EnqueueRetry
<1>3. CASE ~InQueue(o)
  <2>1. queue' = Append(Tail(queue), o)
    BY <1>3 DEF EnqueueRetry, Evicts
  <2>2. Tail(queue) \in Seq(Operations) /\ Len(Tail(queue)) = Len(queue) - 1
    BY <1>1
  <2>3. Len(Append(Tail(queue), o)) = Len(Tail(queue)) + 1
    BY <2>2
  <2>4. QED
    BY <1>1, <2>1, <2>2, <2>3
<1>4. QED
  BY <1>2, <1>3

\* A success of the drain makes the queue no longer.
LEMMA DeletedKeepsLength ==
  ASSUME NEW q \in Seq(Operations), NEW o \in Operations
  PROVE  Len(Deleted(q, o)) <= Len(q)
<1>1. CASE ~Has(q, o)
  BY <1>1 DEF Deleted
<1>2. CASE Has(q, o)
  <2> DEFINE i == CHOOSE k \in DOMAIN q : q[k] = o
             before == SubSeq(q, 1, i - 1)
             after  == SubSeq(q, i + 1, Len(q))
  <2>1. i \in 1 .. Len(q)
    BY <1>2 DEF Has
  <2>2. Deleted(q, o) = before \o after
    BY <1>2 DEF Deleted
  <2> HIDE DEF i
  <2>3. \A k \in 1 .. Len(q) : q[k] \in Operations
    BY ElementOfSeq
  <2>4. before \in Seq(Operations) /\ Len(before) = i - 1
    BY <2>1, <2>3
  <2>5. after \in Seq(Operations) /\ Len(after) = Len(q) - i
    BY <2>1, <2>3
  <2> HIDE DEF before, after
  <2>6. Len(before \o after) = Len(before) + Len(after)
    BY <2>4, <2>5
  <2>7. QED
    BY <2>1, <2>2, <2>4, <2>5, <2>6
<1>3. QED
  BY <1>1, <1>2

(* A full retry queue becomes longer only when a retry fails whose entry    *)
(* was pushed out of it, for any limit and any number of callers.           *)
THEOREM OverfullOnlyByRetryHolds == Spec => OverfullOnlyByRetry
<1>1. ASSUME CacheTypeOK, [Next]_vars
      PROVE  [Len(queue) >= RETRY_MAX_QUEUE /\ Len(queue') > Len(queue) =>
                DrainFails /\ ~InQueue(drain.op)]_vars
  <2>0. /\ RetryTypeOK /\ caller \in [Callers -> Caller]
        /\ queue \in Seq(Operations) /\ Len(queue) \in Nat /\ drain.op \in Operations
    BY <1>1, TypeParts DEF RetryTypeOK, Drain
  <2>1. SUFFICES ASSUME Next, Len(queue) >= RETRY_MAX_QUEUE, Len(queue') > Len(queue)
                 PROVE  DrainFails /\ ~InQueue(drain.op)
    BY <1>1
  <2>2. ASSUME queue' = queue PROVE FALSE
    BY <2>0, <2>1, <2>2
  <2>3. ASSUME NEW o \in Operations, EnqueueRetry(o) PROVE FALSE
    <3>1. Len(queue') <= Len(queue) /\ queue' \in Seq(Operations)
      BY <2>0, <2>1, <2>3, EnqueueKeepsLength, EnqueueRetryFacts DEF RetryTypeOK
    <3>2. QED
      BY <2>0, <2>1, <3>1
  <2>4. ASSUME NEW c \in Callers, Request(c) \/ CallerStep(c) \/ CallerFails(c)
        PROVE  FALSE
    <3>1. caller[c].op \in Operations
      BY <2>0 DEF Caller
    <3>2. UNCHANGED queue \/ \E o \in Operations : EnqueueRetry(o)
      BY <2>4, <3>1 DEF Request, CallerStep, CallerUnlinked, CallerPublished, CallerFails
    <3>3. QED
      BY <2>2, <2>3, <3>2
  <2>5. CASE TimerFires \/ Ready
    <3>1. Off \in Timer /\ timer \in Timer
      BY <2>0 DEF Timer, RetryTypeOK
    <3>2. DrainRetryQueue(Off) \/ DrainRetryQueue(timer)
      BY <2>5 DEF TimerFires, Ready
    <3>3. QED
      BY <2>0, <2>2, <3>1, <3>2, DrainRetryQueueFacts
  <2>6. CASE DrainUnlinked
    BY <2>2, <2>6 DEF DrainUnlinked
  <2>7. CASE DrainPublished
    <3>1. queue' = Deleted(queue, drain.op) /\ Deleted(queue, drain.op) \in Seq(Operations)
      BY <2>0, <2>7, DrainPublishedFacts, DeletedKeeps
    <3>2. QED
      BY <2>0, <2>1, <3>1, DeletedKeepsLength
  <2>8. CASE DrainFails
    <3>1. Has(queue, drain.op) => queue' = queue
      BY <2>0, <2>8, DrainFailsFacts DEF Put
    <3>2. QED
      BY <2>2, <2>8, <3>1 DEF InQueue
  <2>9. CASE Disconnect \/ Tick
    BY <2>2, <2>9 DEF Disconnect, Tick
  <2>10. CASE Exit
    BY <2>0, <2>1, <2>10 DEF Exit
  <2>11. CASE Idle
    BY <2>2, <2>11 DEF Idle, vars
  <2>12. QED
    BY <2>1, <2>4, <2>5, <2>6, <2>7, <2>8, <2>9, <2>10, <2>11 DEF Next, DrainStep
<1>2. QED
  BY <1>1, CacheTypeCorrect, PTL DEF Spec, OverfullOnlyByRetry
=============================================================================
