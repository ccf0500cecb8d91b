--------------------------- MODULE CacheInvalidation ---------------------------
(***************************************************************************)
(* Cache invalidation of one server process: delAndPublish,                *)
(* deleteByPatternAndPublish and the publish-only variants, and the retry  *)
(* queue that takes the operations Redis did not.  One action is what      *)
(* happens between two awaits.                                             *)
(*                                                                         *)
(* An operation stands for its operationKey: a list of keys or a pattern   *)
(* (whose SCAN and UNLINK rounds are one step).  Invalidating removes the  *)
(* keys from the shared cache in Redis and publishes to the other          *)
(* processes, which drop their local copies.  Times are what is left until *)
(* nextRunAt or until the timer fires, in ticks.                           *)
(***************************************************************************)
EXTENDS Integers, Sequences

CONSTANTS
  Operations,             \* the operation keys that are asked for
  Callers,                \* invocations of the module's functions
  RETRY_INTERVAL_MS, RETRY_MAX_DELAY_MS, RETRY_MAX_QUEUE,
  AttemptsCap,            \* more attempts do not lengthen the delay
  MaxFaults               \* bounds error replies, lost connections and exits

ASSUME CacheAssumption ==
  /\ {RETRY_INTERVAL_MS, RETRY_MAX_DELAY_MS, RETRY_MAX_QUEUE} \subseteq Nat \ {0}
  /\ {AttemptsCap, MaxFaults} \subseteq Nat
  /\ RETRY_INTERVAL_MS <= RETRY_MAX_DELAY_MS
  /\ RETRY_INTERVAL_MS * 2 ^ AttemptsCap >= RETRY_MAX_DELAY_MS
  /\ \A a \in 0 .. AttemptsCap : 2 ^ a \in Nat \ {0}
  /\ Operations # {}

VARIABLES
  client,   \* the ioredis client: "none", "connecting" or "ready"
  queue,    \* the keys of _retryQueue, oldest first
  entry,    \* entry[o]: the value _retryQueue holds for o
  timer,    \* what is left until _retryTimer fires, or Off
  drain,    \* the drainRetryQueue in progress
  caller,   \* caller[c]: progress of invocation c
  stale,    \* stale[o]: the caches that may hold what o was meant to remove
  faults

vars == <<client, queue, entry, timer, drain, caller, stale, faults>>

Caches    == {"shared", "local"}
Off       == -1
Op0       == CHOOSE o \in Operations : TRUE
NoEntry   == [attempts |-> 0, wait |-> 0]
IdleDrain == [pc |-> "idle", op |-> Op0, attempts |-> 0, due |-> {}]

Has(q, o)  == \E i \in DOMAIN q : q[i] = o
InQueue(o) == Has(queue, o)

Init ==
  /\ client = "none"
  /\ queue = <<>>
  /\ entry = [o \in Operations |-> NoEntry]
  /\ timer = Off
  /\ drain = IdleDrain
  /\ caller = [c \in Callers |-> [pc |-> "idle", op |-> Op0]]
  /\ stale = [o \in Operations |-> {}]
  /\ faults = 0

Fault == faults < MaxFaults /\ faults' = faults + 1

-----------------------------------------------------------------------------
Smaller(a, b) == IF a < b THEN a ELSE b

\* Slip: the delay not bounded by RETRY_MAX_DELAY_MS.
Backoff_Unbounded(attempts) == RETRY_INTERVAL_MS * 2 ^ attempts

Backoff(attempts) == Smaller(RETRY_INTERVAL_MS * 2 ^ attempts, RETRY_MAX_DELAY_MS)
Waiting(attempts) == [attempts |-> attempts, wait |-> Backoff(attempts)]
Failed(attempts)  == Waiting(Smaller(attempts + 1, AttemptsCap))

\* scheduleDrain: a timer that runs is kept, however late it fires.
Armed(delay) == IF timer = Off THEN delay ELSE timer

\* _retryQueue.set: a key that is there keeps its place.
Put(q, o) == IF Has(q, o) THEN q ELSE Append(q, o)
\* _retryQueue.delete.
Deleted(q, o) ==
  LET i == CHOOSE i \in DOMAIN q : q[i] = o IN
  IF Has(q, o) THEN SubSeq(q, 1, i - 1) \o SubSeq(q, i + 1, Len(q)) ELSE q

\* Slip: room for one more.
Evicts_Late(o) == ~InQueue(o) /\ Len(queue) > RETRY_MAX_QUEUE

\* The key a new one pushes out of a full queue.
Evicts(o) == ~InQueue(o) /\ Len(queue) >= RETRY_MAX_QUEUE

\* A set that overtakes the drain: the drain has another due time in hand.
EnqueueRetry(o) ==
  /\ queue' = IF InQueue(o) THEN queue
              ELSE Append(IF Evicts(o) THEN Tail(queue) ELSE queue, o)
  /\ entry' = [p \in Operations |->
                 IF p = o THEN Waiting(IF InQueue(o) THEN entry[o].attempts ELSE 0)
                 ELSE IF Evicts(o) /\ p = Head(queue) THEN NoEntry
                 ELSE entry[p]]
  /\ timer' = Armed(entry'[o].wait)
  /\ drain' = [drain EXCEPT !.due = @ \ {o}]

-----------------------------------------------------------------------------
(* The callers                                                             *)

KINDS == {"deleteAndPublish", "publish"}

\* redisReady() creates the client of a process that has none yet; without a
\* ready one the operation goes to the retry queue at once.
Request(c) ==
  /\ caller[c].pc = "idle"
  /\ \E o \in Operations, kind \in KINDS :
       /\ stale' = [stale EXCEPT ![o] = IF kind = "publish" THEN @ \cup {"local"} ELSE Caches]
       /\ \/ /\ client = "ready"
             /\ caller' = [caller EXCEPT ![c] =
                             [pc |-> IF kind = "publish" THEN "publish" ELSE "unlink", op |-> o]]
             /\ UNCHANGED <<client, queue, entry, timer, drain>>
          \/ /\ client # "ready"
             /\ client' = "connecting"
             /\ caller' = [caller EXCEPT ![c].pc = "done"]
             /\ EnqueueRetry(o)
  /\ UNCHANGED faults

\* Replies come over a ready connection; what a lost one leaves unanswered is
\* sent again, as maxRetriesPerRequest is null.
CallerUnlinked(c) ==
  /\ client = "ready" /\ caller[c].pc = "unlink"
  /\ stale' = [stale EXCEPT ![caller[c].op] = @ \ {"shared"}]
  /\ caller' = [caller EXCEPT ![c].pc = "publish"]
  /\ UNCHANGED <<client, queue, entry, timer, drain, faults>>

CallerPublished(c) ==
  /\ client = "ready" /\ caller[c].pc = "publish"
  /\ stale' = [stale EXCEPT ![caller[c].op] = @ \ {"local"}]
  /\ caller' = [caller EXCEPT ![c].pc = "done"]
  /\ UNCHANGED <<client, queue, entry, timer, drain, faults>>

\* Slip: an operation whose publish failed is not queued.
CallerFails_Unqueued(c) ==
  /\ client = "ready" /\ caller[c].pc \in {"unlink", "publish"}
  /\ Fault
  /\ caller' = [caller EXCEPT ![c].pc = "done"]
  /\ IF caller[c].pc = "unlink" THEN EnqueueRetry(caller[c].op)
                                ELSE UNCHANGED <<queue, entry, timer, drain>>
  /\ UNCHANGED <<client, stale>>

\* An error reply.
CallerFails(c) ==
  /\ client = "ready" /\ caller[c].pc \in {"unlink", "publish"}
  /\ Fault
  /\ caller' = [caller EXCEPT ![c].pc = "done"]
  /\ EnqueueRetry(caller[c].op)
  /\ UNCHANGED <<client, stale>>

-----------------------------------------------------------------------------
(* drainRetryQueue                                                         *)

\* Slip: only a failure arms the next timer.
Rearmed_Never(t, q) == t

\* The timer a drain that ends with q leaves behind, when t runs already.
Rearmed(t, q) == IF q # <<>> /\ t = Off THEN RETRY_INTERVAL_MS ELSE t

\* The loop goes on to the next entry of q that was due at its start.  The client
\* is ready: a reply came over it, or the drain has just begun.
Visit(q, e, due, t) ==
  LET rest == {o \in due : Has(q, o)} IN
  /\ queue' = q
  /\ entry' = e
  /\ \/ /\ rest = {}
        /\ drain' = IdleDrain
        /\ timer' = Rearmed(t, q)
     \/ \E i \in DOMAIN q :
          /\ q[i] \in rest /\ \A k \in 1 .. i - 1 : q[k] \notin rest
          /\ drain' = [pc |-> "unlink", op |-> q[i], attempts |-> e[q[i]].attempts, due |-> due]
          /\ timer' = t

\* A drain that finds another one in progress leaves it to that one.
DrainRetryQueue(t) ==
  \/ /\ drain.pc # "idle"
     /\ timer' = t
     /\ UNCHANGED <<queue, entry, drain>>
  \/ /\ drain.pc = "idle" /\ client' # "ready"
     /\ timer' = Rearmed(t, queue)
     /\ UNCHANGED <<queue, entry, drain>>
  \/ /\ drain.pc = "idle" /\ client' = "ready"
     /\ Visit(queue, entry, {o \in Operations : InQueue(o) /\ entry[o].wait = 0}, t)

TimerFires ==
  /\ timer = 0
  /\ UNCHANGED client
  /\ DrainRetryQueue(Off)
  /\ UNCHANGED <<caller, stale, faults>>

\* The connection is there, for the first time or again.
Ready ==
  /\ client = "connecting"
  /\ client' = "ready"
  /\ DrainRetryQueue(timer)
  /\ UNCHANGED <<caller, stale, faults>>

DrainUnlinked ==
  /\ client = "ready" /\ drain.pc = "unlink"
  /\ stale' = [stale EXCEPT ![drain.op] = @ \ {"shared"}]
  /\ drain' = [drain EXCEPT !.pc = "publish"]
  /\ UNCHANGED <<client, queue, entry, timer, caller, faults>>

\* The entry is deleted, be it the one that was retried or a newer one.
DrainPublished ==
  /\ client = "ready" /\ drain.pc = "publish"
  /\ stale' = [stale EXCEPT ![drain.op] = @ \ {"local"}]
  /\ Visit(Deleted(queue, drain.op), [entry EXCEPT ![drain.op] = NoEntry],
           drain.due \ {drain.op}, timer)
  /\ UNCHANGED <<client, caller, faults>>

\* Set again with a longer delay, whatever happened to the entry meanwhile and
\* however full the queue is.
DrainFails ==
  /\ client = "ready" /\ drain.pc \in {"unlink", "publish"}
  /\ Fault
  /\ Visit(Put(queue, drain.op), [entry EXCEPT ![drain.op] = Failed(drain.attempts)],
           drain.due \ {drain.op}, timer)
  /\ UNCHANGED <<client, caller, stale>>

-----------------------------------------------------------------------------
\* The connection is lost.
Disconnect ==
  /\ client = "ready"
  /\ Fault
  /\ client' = "connecting"
  /\ UNCHANGED <<queue, entry, timer, drain, caller, stale>>

\* The process ends, by shutdownCacheInvalidation and exit or by a crash, and
\* starts again: what was in its memory is gone.
Exit ==
  /\ Fault
  /\ client' = "none"
  /\ queue' = <<>>
  /\ entry' = [o \in Operations |-> NoEntry]
  /\ timer' = Off
  /\ drain' = IdleDrain
  /\ caller' = [c \in Callers |-> IF caller[c].pc = "idle" THEN caller[c]
                                  ELSE [caller[c] EXCEPT !.pc = "done"]]
  /\ UNCHANGED stale

Tick ==
  /\ timer > 0 \/ \E o \in Operations : entry[o].wait > 0
  /\ timer' = IF timer > 0 THEN timer - 1 ELSE timer
  /\ entry' = [o \in Operations |->
                 IF entry[o].wait > 0 THEN [entry[o] EXCEPT !.wait = @ - 1] ELSE entry[o]]
  /\ UNCHANGED <<client, queue, drain, caller, stale, faults>>

CallerStep(c) == CallerUnlinked(c) \/ CallerPublished(c)
DrainStep     == DrainUnlinked \/ DrainPublished

\* Every invocation was made and nothing is left to retry.
Idle ==
  /\ \A c \in Callers : caller[c].pc = "done"
  /\ drain.pc = "idle" /\ timer = Off /\ client # "connecting"
  /\ UNCHANGED vars

Next ==
  \/ \E c \in Callers : Request(c) \/ CallerStep(c) \/ CallerFails(c)
  \/ TimerFires \/ Ready \/ DrainStep \/ DrainFails
  \/ Disconnect \/ Exit \/ Tick \/ Idle

\* Timers fire, connections are made again, replies arrive, time passes.
Fairness ==
  /\ \A c \in Callers : WF_vars(CallerStep(c))
  /\ WF_vars(TimerFires) /\ WF_vars(Ready) /\ WF_vars(DrainStep) /\ WF_vars(Tick)

Spec     == Init /\ [][Next]_vars
FairSpec == Spec /\ Fairness

-----------------------------------------------------------------------------
CacheTypeOK ==
  /\ client \in {"none", "connecting", "ready"}
  /\ queue \in Seq(Operations)
  /\ entry \in [Operations -> [attempts : 0 .. AttemptsCap, wait : 0 .. RETRY_MAX_DELAY_MS]]
  /\ timer \in {Off} \cup 0 .. RETRY_MAX_DELAY_MS
  /\ drain \in [pc : {"idle", "unlink", "publish"}, op : Operations,
                attempts : 0 .. AttemptsCap, due : SUBSET Operations]
  /\ caller \in [Callers -> [pc : {"idle", "unlink", "publish", "done"}, op : Operations]]
  /\ stale \in [Operations -> SUBSET Caches]
  /\ faults \in 0 .. MaxFaults

(* Whatever is in the retry queue will be looked at again: a timer is armed *)
(* or a drain, which arms one when it ends, is in progress.  The timer is   *)
(* armed and cleared in five places, by drains that find another one, an    *)
(* unready client or nothing due among them.                                *)
RetriesAreScheduled == queue # <<>> => timer # Off \/ drain.pc # "idle"

\* Somebody is about to invalidate o in that cache, or to try it again.
Busy(actor, o, cache) ==
  /\ actor.op = o
  /\ actor.pc = "unlink" \/ (actor.pc = "publish" /\ cache = "local")
Remembered(o, cache) ==
  InQueue(o) \/ Busy(drain, o, cache) \/ \E c \in Callers : Busy(caller[c], o, cache)
Forgotten(o) == \E cache \in stale[o] : ~Remembered(o, cache)

(* An invalidation that was asked for is forgotten while a cache may still  *)
(* hold the old data in three cases only: the process ends; the full queue  *)
(* drops its oldest entry; or it failed and was queued again while a drain  *)
(* was retrying an earlier one of the same key, whose success deletes both. *)
ForgottenOnlyByLimits ==
  [][\A o \in Operations : ~Forgotten(o) /\ Forgotten(o)' =>
       \/ Exit
       \/ Len(queue) >= RETRY_MAX_QUEUE /\ Head(queue) = o
       \/ DrainPublished /\ drain.op = o /\ o \notin drain.due]_vars

(* A full queue grows in one case only: a retry fails after another caller  *)
(* has pushed its entry out, and sets it again.  Callers, which may make    *)
(* room and take it up in between any two awaits of a drain, never do it.   *)
OverfullOnlyByRetry ==
  [][Len(queue) >= RETRY_MAX_QUEUE /\ Len(queue') > Len(queue) =>
       DrainFails /\ ~InQueue(drain.op)]_vars

(* Every entry leaves the retry queue, once Redis stops failing: no backoff, *)
(* timer or drain starves it.                                               *)
QueueDrains == \A o \in Operations : InQueue(o) ~> ~InQueue(o)
=============================================================================
