----------------------------- MODULE TokenBucket -----------------------------
(***************************************************************************)
(* The shared token bucket of ml/embeddings/service.py (_consume_tokens):  *)
(* Celery workers and Airflow tasks that embed text take tokens from one   *)
(* Redis counter per minute before they call OpenAI.                       *)
(*                                                                         *)
(* Every Redis command is one atomic step; workers interleave between      *)
(* commands, may be killed between any two of them and may meet a Redis    *)
(* failure at any of them.  Time is a clock of Ticks ticks per window.     *)
(* Only two windows are live, the current one and the one before, held in  *)
(* the slots 0 and 1: an iteration of the loop that started in one window  *)
(* ends before the end of the next (the guard of Tick).                    *)
(***************************************************************************)
EXTENDS Integers, PrefixSums

CONSTANTS NWorkers,      \* number of concurrent callers
          Limit,         \* _TOKEN_BUCKET_LIMIT
          Requests,      \* sizes of the batches, in estimated tokens
          Ticks,         \* clock ticks per window (_TOKEN_BUCKET_WINDOW_SECONDS)
          MaxBatches,    \* batches the callers embed between them
          MaxFaults      \* bound on kills and Redis failures

ASSUME BucketAssumption ==
  /\ NWorkers \in Nat
  /\ Limit \in Nat
  /\ Requests \subseteq Nat
  /\ Ticks \in Nat \ {0}
  /\ MaxBatches \in Nat
  /\ MaxFaults \in Nat

VARIABLES
  window,    \* slot of the window the clock is in
  phase,     \* ticks elapsed in that window
  bucket,    \* Redis: the counter of each live window (0 = absent)
  ttl,       \* Redis: ticks until the key expires, 0 = no expiry set
  pc,        \* where each caller is
  key,       \* bucket_key: the window the caller computed from the clock
  n,         \* n_tokens
  got,       \* current: what INCRBY returned
  left,      \* batches no caller has started
  admitted,  \* history: tokens granted against each live window
  recent,    \* history: tokens granted on time in each of the last Ticks ticks
  faults     \* how many callers were killed or met a Redis failure

vars ==
  <<window, phase, bucket, ttl, pc, key, n, got, left, admitted, recent, faults>>

Workers == 1..NWorkers
Slots == {0, 1}
Labels == {"idle", "clock", "incrby", "expire", "decrby", "sleep", "call"}

\* The slot of the other live window: the previous one, when k is the current.
Other(k) == 1 - k

\* A caller between the reading of the clock and its last command on that key.
Holds(w) == pc[w] \in {"incrby", "expire", "decrby"}

-------------------------------------------------------------------------------
(* The clock *)

Init ==
  /\ window = 0
  /\ phase = 0
  /\ bucket = [k \in Slots |-> 0]
  /\ ttl = [k \in Slots |-> 0]
  /\ pc = [w \in Workers |-> "idle"]
  /\ key = [w \in Workers |-> 0]
  /\ n = [w \in Workers |-> 0]
  /\ got = [w \in Workers |-> 0]
  /\ left = MaxBatches
  /\ admitted = [k \in Slots |-> 0]
  /\ recent = [p \in 0..(Ticks-1) |-> 0]
  /\ faults = 0

\* A tick inside a window: keys whose time is up disappear.
TickWithin ==
  /\ phase < Ticks - 1
  /\ phase' = phase + 1
  /\ recent' = [recent EXCEPT ![phase + 1] = 0]
  /\ bucket' = [k \in Slots |-> IF ttl[k] = 1 THEN 0 ELSE bucket[k]]
  /\ ttl' = [k \in Slots |-> IF ttl[k] = 0 THEN 0 ELSE ttl[k] - 1]
  /\ UNCHANGED <<window, pc, key, n, got, left, admitted, faults>>

\* The tick that starts a window: the older slot now stands for a key nobody
\* has written yet.
TickOver ==
  /\ phase = Ticks - 1
  /\ \A w \in Workers : Holds(w) => key[w] = window
  /\ window' = Other(window)
  /\ phase' = 0
  /\ recent' = [recent EXCEPT ![0] = 0]
  /\ bucket' = [k \in Slots |->
                  IF k # window \/ ttl[k] = 1 THEN 0 ELSE bucket[k]]
  /\ ttl' = [k \in Slots |->
               IF k # window \/ ttl[k] = 0 THEN 0 ELSE ttl[k] - 1]
  /\ admitted' = [admitted EXCEPT ![Other(window)] = 0]
  /\ UNCHANGED <<pc, key, n, got, left, faults>>

Tick == TickWithin \/ TickOver

-------------------------------------------------------------------------------
(* One caller of _consume_tokens *)

\* embed_batch reaches its next batch and asks for its estimated tokens.
Begin(w) ==
  /\ pc[w] = "idle"
  /\ left > 0
  /\ \E r \in Requests : n' = [n EXCEPT ![w] = r]
  /\ left' = left - 1
  /\ pc' = [pc EXCEPT ![w] = "clock"]
  /\ UNCHANGED <<window, phase, bucket, ttl, key, got, admitted, recent, faults>>

\* bucket_key = f"{_TOKEN_BUCKET_KEY}:{int(time.time()) // WINDOW}"
ReadClock(w) ==
  /\ pc[w] = "clock"
  /\ key' = [key EXCEPT ![w] = window]
  /\ pc' = [pc EXCEPT ![w] = "incrby"]
  /\ UNCHANGED <<window, phase, bucket, ttl, n, got, left, admitted, recent, faults>>

\* Faulty: a limit that lets one token too many through.
AdmitsOneMore(c) == c <= Limit + 1

\* current <= _TOKEN_BUCKET_LIMIT
Admits(c) == c <= Limit

\* After the INCRBY, and the EXPIRE if there is one: go on, or roll back.
Decide(c) == IF Admits(c) THEN "call" ELSE "decrby"

\* INCRBY returned c to the caller, which goes on at label next.
Added(w, c, next) ==
  /\ pc[w] = "incrby"
  /\ bucket' = [bucket EXCEPT ![key[w]] = @ + n[w]]
  /\ got' = [got EXCEPT ![w] = c]
  /\ pc' = [pc EXCEPT ![w] = next]
  /\ IF Admits(c)
     THEN /\ admitted' = [admitted EXCEPT ![key[w]] = @ + n[w]]
          /\ recent' = IF key[w] = window
                       THEN [recent EXCEPT ![phase] = @ + n[w]] ELSE recent
     ELSE UNCHANGED <<admitted, recent>>
  /\ UNCHANGED <<window, phase, ttl, key, n, left, faults>>

\* Faulty: the counter is compared as it was before the INCRBY.
CheckThenAct(w) ==
  LET c == bucket[key[w]]
  IN  Added(w, c, IF c = 0 THEN "expire" ELSE Decide(c))

\* Faulty: the limit is checked, and the function left, before the expiry is set.
ReturnsBeforeExpire(w) ==
  LET c == bucket[key[w]] + n[w]
  IN  Added(w, c, Decide(c))

\* current = incrby(bucket_key, n_tokens), and the first writer sets the expiry.
IncrBy(w) ==
  LET c == bucket[key[w]] + n[w]
  IN  Added(w, c, IF c = n[w] THEN "expire" ELSE Decide(c))

\* Faulty: a key that lives for one window only.
OneWindow == Ticks

\* _TOKEN_BUCKET_WINDOW_SECONDS * 2
KeyLife == 2 * Ticks

\* First write in this window: expire(bucket_key, 2 windows).
Expire(w) ==
  /\ pc[w] = "expire"
  /\ ttl' = [ttl EXCEPT ![key[w]] = KeyLife]
  /\ pc' = [pc EXCEPT ![w] = Decide(got[w])]
  /\ UNCHANGED <<window, phase, bucket, key, n, got, left, admitted, recent, faults>>

\* Faulty: the whole counter is given back, not the caller's own tokens.
DecrByCurrent(w) ==
  /\ pc[w] = "decrby"
  /\ bucket' = [bucket EXCEPT ![key[w]] = @ - got[w]]
  /\ pc' = [pc EXCEPT ![w] = "sleep"]
  /\ got' = [got EXCEPT ![w] = 0]
  /\ UNCHANGED <<window, phase, ttl, key, n, left, admitted, recent, faults>>

\* Over the limit: decrby(bucket_key, n_tokens), then time.sleep.
DecrBy(w) ==
  /\ pc[w] = "decrby"
  /\ bucket' = [bucket EXCEPT ![key[w]] = @ - n[w]]
  /\ pc' = [pc EXCEPT ![w] = "sleep"]
  /\ got' = [got EXCEPT ![w] = 0]
  /\ UNCHANGED <<window, phase, ttl, key, n, left, admitted, recent, faults>>

\* Faulty: the key is computed once, outside the loop.
RetrySameKey(w) ==
  /\ pc[w] = "sleep"
  /\ pc' = [pc EXCEPT ![w] = "incrby"]
  /\ UNCHANGED <<window, phase, bucket, ttl, key, n, got, left, admitted, recent, faults>>

\* The poll interval is over: around the loop again, with a fresh key.
WakeUp(w) ==
  /\ pc[w] = "sleep"
  /\ pc' = [pc EXCEPT ![w] = "clock"]
  /\ UNCHANGED <<window, phase, bucket, ttl, key, n, got, left, admitted, recent, faults>>

\* The caller's local variables are gone.
Return(w) ==
  /\ pc' = [pc EXCEPT ![w] = "idle"]
  /\ key' = [key EXCEPT ![w] = 0]
  /\ n' = [n EXCEPT ![w] = 0]
  /\ got' = [got EXCEPT ![w] = 0]

\* _call_openai and the caching of its vectors are over.
CallDone(w) ==
  /\ pc[w] = "call"
  /\ Return(w)
  /\ UNCHANGED <<window, phase, bucket, ttl, left, admitted, recent, faults>>

\* A Redis command raises: the caller proceeds without the limiter.  The server
\* may have executed the command before the connection broke.
RedisFails(w) ==
  /\ Holds(w)
  /\ \/ UNCHANGED <<bucket, ttl>>
     \/ /\ pc[w] = "incrby"
        /\ bucket' = [bucket EXCEPT ![key[w]] = @ + n[w]]
        /\ UNCHANGED ttl
     \/ /\ pc[w] = "expire"
        /\ ttl' = [ttl EXCEPT ![key[w]] = KeyLife]
        /\ UNCHANGED bucket
     \/ /\ pc[w] = "decrby"
        /\ bucket' = [bucket EXCEPT ![key[w]] = @ - n[w]]
        /\ UNCHANGED ttl
  /\ faults < MaxFaults
  /\ faults' = faults + 1
  /\ pc' = [pc EXCEPT ![w] = "call"]
  /\ UNCHANGED <<window, phase, key, n, got, left, admitted, recent>>

\* The process is killed (task time limit, worker lost): nothing is rolled back.
Crash(w) ==
  /\ pc[w] # "idle"
  /\ Return(w)
  /\ faults < MaxFaults
  /\ faults' = faults + 1
  /\ UNCHANGED <<window, phase, bucket, ttl, left, admitted, recent>>

Step(w) ==
  \/ Begin(w) \/ ReadClock(w) \/ IncrBy(w) \/ Expire(w)
  \/ DecrBy(w) \/ WakeUp(w) \/ CallDone(w)

Next ==
  \/ Tick
  \/ \E w \in Workers : Step(w) \/ RedisFails(w) \/ Crash(w)

Spec == Init /\ [][Next]_vars

\* Time passes, and a running process takes its steps.
Fairness == WF_vars(Tick) /\ \A w \in Workers : WF_vars(Step(w))

FairSpec == Spec /\ Fairness

-------------------------------------------------------------------------------
(* Properties *)

\* The types of the variables.  The counter never goes below zero.
TypeOK ==
  /\ window \in Slots
  /\ phase \in 0..(Ticks-1)
  /\ bucket \in [Slots -> Nat]
  /\ ttl \in [Slots -> 0..KeyLife]
  /\ pc \in [Workers -> Labels]
  /\ key \in [Workers -> Slots]
  /\ n \in [Workers -> Nat]
  /\ got \in [Workers -> Nat]
  /\ left \in Nat
  /\ admitted \in [Slots -> Nat]
  /\ recent \in [0..(Ticks-1) -> Nat]
  /\ faults \in Nat

\* The limiter's purpose (service.py, "don't jointly exceed the 1M token/min"):
\* whatever the interleaving of INCRBY, EXPIRE and DECRBY of any number of
\* callers, the crashes and the Redis failures, the tokens granted against one
\* window's key never exceed the limit.
WindowLimit == \A k \in Slots : admitted[k] <= Limit

\* Tokens the caller has added to window k's counter and will take back.
Pending(w, k) ==
  IF /\ key[w] = k
     /\ pc[w] = "decrby" \/ (pc[w] = "expire" /\ ~Admits(got[w]))
  THEN n[w] ELSE 0

PendingOn(k) == Total([w \in Workers |-> Pending(w, k)], NWorkers)

\* Why the limit holds: the counter never reads lower than what was granted plus
\* what is about to be rolled back, so nobody's DECRBY gives back tokens that
\* somebody was granted.  A crash can only make the counter read too high.
Accounted == \A k \in Slots : admitted[k] + PendingOn(k) <= bucket[k]

\* A key with an expiry outlives every caller that may still use it: the expiry of
\* two windows reaches past the end of the window after the key's own.
ExpiryOutlivesUse ==
  \A k \in Slots : ttl[k] # 0 =>
    ttl[k] >= (IF k = window THEN 2 * Ticks ELSE Ticks) - phase

\* A caller inside the function asks for the size of a batch.
RequestKnown == \A w \in Workers : pc[w] # "idle" => n[w] \in Requests

\* The inductive invariant behind WindowLimit.
IInv == TypeOK /\ RequestKnown /\ ExpiryOutlivesUse /\ Accounted /\ WindowLimit

\* No counter is left in Redis for ever: unless the first writer has yet to set the
\* expiry, a counter that holds tokens has one, as long as nobody was killed and
\* Redis answered.
NoImmortalKey ==
  \A k \in Slots :
    bucket[k] > 0 /\ faults = 0 => \/ ttl[k] > 0
                     \/ \E w \in Workers : pc[w] = "expire" /\ key[w] = k

\* The windows are fixed, they do not slide: of the tokens granted while the clock
\* is still in the key's own window, any Ticks consecutive ticks, wherever they
\* start, see two windows' worth and never more.
BurstBound == Total([p \in 1..Ticks |-> recent[p-1]], Ticks) <= 2 * Limit

\* The bucket is a window limiter: every step grants at most what the window still
\* has, starts a new window, or changes nothing the limiter knows of.
Limiter == INSTANCE WindowLimiter
             WITH current <- window,
                  avail <- [k \in Slots |-> Limit - admitted[k]]

ImplementsLimiter == Limiter!LimiterSpec

\* Nobody polls for ever: when no batch is larger than the limit and callers have
\* finitely many batches, every caller that is not killed gets through the limiter,
\* however often its INCRBY and those of others push the counter over the limit.
EventuallyServed ==
  \A w \in Workers : pc[w] = "clock" ~> pc[w] \in {"call", "idle"}

===============================================================================
