---------------------------- MODULE EmbeddingBatch ----------------------------
(***************************************************************************)
(* The embedding of brand mentions: the hourly DAG embedding_batch with    *)
(* its tasks, retries and temporary vectors in Redis, and the Celery task  *)
(* generate_embedding, both on EmbeddingService.embed_batch, which looks   *)
(* into a cache, pays OpenAI per batch and writes one cost row at the end. *)
(*                                                                         *)
(* A text stands for its mention, its content_hash and its vector.         *)
(***************************************************************************)
EXTENDS Integers, Sequences, SequencesExt

CONSTANTS Texts,
          Direct,      \* those that generate_embedding is called for
          Refusable,   \* those OpenAI may refuse, or the token bucket never admit
          BatchLimit,  \* EMBEDDING_BATCH_LIMIT: mentions of one run
          BatchSize,   \* texts of one request to OpenAI
          Tries,       \* executions of an Airflow task: retries + 1
          MaxRetries,  \* max_retries of the Celery task
          MaxFailures  \* bound on failures

ASSUME EmbeddingAssumption ==
  /\ Direct \subseteq Texts /\ Refusable \subseteq Texts
  /\ {BatchLimit, BatchSize, Tries} \subseteq Nat \ {0}
  /\ {MaxRetries, MaxFailures} \subseteq Nat

VARIABLES
  deployed,  \* what the deployment gives: see EmbeddingInit
  backlog,   \* mentions with embedding_queued = false, oldest first
  done,      \* mentions the DAG has set to true
  cache,     \* emb:v1: keys
  transit,   \* dag:emb:vec: keys of the current run
  vectors,   \* points of brand_embeddings
  scores,    \* mentions with rows in sps_scores
  owed,      \* history: texts OpenAI charged for, with no cost row since
  call,      \* the embed_batch of each client: where it is and its local variables
  state,     \* task instances of the current run
  tries,     \* their failed executions
  xcom,      \* what the tasks of the run have returned
  celery,    \* the Celery task: its text and its retries
  failures   \* history: the failures so far

embeddingVars == <<deployed, backlog, done, cache, transit, vectors, scores, owed, call,
                   state, tries, xcom, celery, failures>>
store == <<backlog, done, vectors, scores>>
run == <<state, tries, xcom>>

Clients == {"dag", "celery"}
Tasks == {"fetch", "generate", "calculate", "store", "update_sps", "graph", "mark"}

Upstream == [t \in Tasks |->
  CASE t = "fetch"      -> {}
    [] t = "generate"   -> {"fetch"}
    [] t \in {"calculate", "store"} -> {"generate"}
    [] t \in {"update_sps", "graph"} -> {"calculate"}
    [] t = "mark"       -> {"store", "update_sps", "graph"}]

Idle == [at |-> "idle", todo |-> <<>>, paid |-> {}]
NoTask == [text |-> {}, retries |-> 0]
NoResult == [events |-> <<>>, hashes |-> {}, scored |-> {}, stored |-> {}]

\* Something fails once: in a call of OpenAI or the cost row behind it, or elsewhere.
Fault(k) ==
  /\ failures["paying"] + failures["other"] < MaxFailures
  /\ failures' = [failures EXCEPT ![k] = @ + 1]

Outcome(ok) == IF ok THEN UNCHANGED failures ELSE Fault("other")

First(n, s) == SubSeq(s, 1, IF n < Len(s) THEN n ELSE Len(s))
Rest(n, s) == SubSeq(s, n + 1, Len(s))

\* The deployment: a brand_mentions table that has the column brand_name_hint, which the
\* migrations do not create; root loggers enabled for INFO; centroids in Qdrant; the texts
\* that are refused for ever.
EmbeddingInit ==
  /\ deployed \in [hint : BOOLEAN, info : BOOLEAN, concepts : BOOLEAN,
                   bad : {{}, Refusable}]
  /\ backlog = <<>> /\ done = {} /\ cache = {} /\ transit = {} /\ vectors = {}
  /\ scores = {} /\ owed = {}
  /\ call = [c \in Clients |-> Idle]
  /\ state = [t \in Tasks |-> "waiting"] /\ tries = [t \in Tasks |-> 0]
  /\ xcom = NoResult /\ celery = NoTask
  /\ failures = [k \in {"paying", "other"} |-> 0]

-------------------------------------------------------------------------------
(* Task instances *)

Ready(t) == state[t] = "waiting" /\ \A u \in Upstream[t] : state[u] = "success"

Succeed(t) == state' = [state EXCEPT ![t] = "success"] /\ UNCHANGED tries

\* An execution fails, by an exception or a timeout: the task is tried again, or given up.
FailTry(t) ==
  /\ tries' = [tries EXCEPT ![t] = @ + 1]
  /\ state' = [state EXCEPT ![t] = IF tries[t] + 1 < Tries THEN "waiting" ELSE "failed"]

\* Faulty: a run waits for the success of the one before it.
AllSucceeded == \A t \in Tasks : state[t] = "success"

RunOver == \A t \in Tasks : ~Ready(t)

\* The next hourly run starts when the last one is over: max_active_runs = 1.
NextRun ==
  /\ RunOver
  /\ state' = [t \in Tasks |-> "waiting"] /\ tries' = [t \in Tasks |-> 0]
  /\ xcom' = NoResult /\ transit' = {}
  /\ UNCHANGED <<deployed, store, cache, owed, call, celery, failures>>

\* A mention is inserted with embedding_queued left to its default: no code here does.
Mention(t) ==
  /\ t \notin ToSet(backlog) \cup done
  /\ backlog' = Append(backlog, t)
  /\ UNCHANGED <<deployed, done, cache, transit, vectors, scores, owed, call, run,
                 celery, failures>>

\* The rows are locked only until the commit that follows.
Fetch(ok) ==
  /\ Ready("fetch")
  /\ Outcome(ok)
  /\ IF ok /\ deployed.hint
     THEN /\ Succeed("fetch")
          /\ xcom' = [xcom EXCEPT !.events = First(BatchLimit, backlog)]
     ELSE FailTry("fetch") /\ UNCHANGED xcom
  /\ UNCHANGED <<deployed, store, cache, transit, owed, call, celery>>

-------------------------------------------------------------------------------
(* EmbeddingService.embed_batch *)

Asked(c) == IF c = "dag" THEN xcom.events ELSE SetToSeq(celery.text)

\* A client at the start of its embed_batch; items that are empty are not sent.
Starts(c) ==
  /\ call[c].at = "idle"
  /\ IF c = "dag" THEN Ready("generate") ELSE celery.text # {}

\* The call of c raises: the DAG's task fails, the Celery task asks for a retry.
Raise(c) ==
  /\ call' = [call EXCEPT ![c] = Idle]
  /\ IF c = "dag" THEN FailTry("generate") /\ UNCHANGED celery
     ELSE /\ celery' = IF celery.retries < MaxRetries
                       THEN [celery EXCEPT !.retries = @ + 1] ELSE NoTask
          /\ UNCHANGED <<state, tries>>

\* What _check_cache does not find.
Uncached(c) == SelectSeq(Asked(c), LAMBDA t : t \notin cache)

\* When every text is cached, the cost row is one of zero tokens.
CheckCache(c, ok) ==
  /\ Starts(c)
  /\ Outcome(ok)
  /\ LET miss == Uncached(c) IN
     IF ok /\ (miss # <<>> \/ Asked(c) = <<>> \/ ~deployed.info)
     THEN /\ call' = [call EXCEPT ![c] = [at |-> IF miss = <<>> THEN "return" ELSE "batch",
                                          todo |-> miss, paid |-> {}]]
          /\ UNCHANGED <<state, tries, celery>>
     ELSE Raise(c)
  /\ UNCHANGED <<deployed, store, cache, transit, owed, xcom>>

Batch(c) == First(BatchSize, call[c].todo)

\* Faulty: the total is that of the last batch.
PaidByBatch(c) == ToSet(Batch(c))

\* What a call has paid for so far.
PaidSoFar(c) == call[c].paid \cup ToSet(Batch(c))

\* _set_cache for the first n vectors of a batch.
SetCache(c, n) == cache' = cache \cup ToSet(First(n, Batch(c)))

\* A batch gets its tokens, goes through the breaker to OpenAI and into the cache.
CallOpenAI(c) ==
  /\ call[c].at = "batch" /\ ToSet(Batch(c)) \cap deployed.bad = {}
  /\ LET rest == Rest(BatchSize, call[c].todo) IN
     call' = [call EXCEPT ![c] = [at |-> IF rest = <<>> THEN "log" ELSE "batch",
                                  todo |-> rest, paid |-> PaidSoFar(c)]]
  /\ owed' = owed \cup ToSet(Batch(c))
  /\ SetCache(c, Len(Batch(c)))
  /\ UNCHANGED <<deployed, store, transit, run, celery, failures>>

\* It fails: refused or never admitted; at the breaker or the API; or after the API has
\* answered, with some of the vectors cached.
CallFails(c) ==
  /\ call[c].at = "batch"
  /\ \/ /\ ToSet(Batch(c)) \cap deployed.bad # {} /\ UNCHANGED <<failures, owed, cache>>
     \/ /\ ToSet(Batch(c)) \cap deployed.bad = {} /\ Fault("paying")
        /\ UNCHANGED <<owed, cache>>
     \/ /\ ToSet(Batch(c)) \cap deployed.bad = {} /\ Fault("paying")
        /\ \E n \in 0..(Len(Batch(c)) - 1) : SetCache(c, n)
        /\ owed' = owed \cup ToSet(Batch(c))
  /\ Raise(c)
  /\ UNCHANGED <<deployed, store, transit, xcom>>

\* _log_cost: its handler logs in a way that raises.
InsertCost(c, ok) ==
  /\ IF ok THEN UNCHANGED failures ELSE Fault("paying")
  /\ owed' = IF ok THEN owed \ call[c].paid ELSE owed

\* If INFO is enabled the log call behind it raises too, the row being written.
LogCost(c, ok) ==
  /\ call[c].at = "log"
  /\ InsertCost(c, ok)
  /\ IF ok /\ ~deployed.info
     THEN call' = [call EXCEPT ![c].at = "return"] /\ UNCHANGED <<state, tries, celery>>
     ELSE Raise(c)
  /\ UNCHANGED <<deployed, store, cache, transit, xcom>>

-------------------------------------------------------------------------------
(* What its two callers do with the vectors *)

Generated(ok) ==
  /\ call["dag"].at = "return"
  /\ Outcome(ok)
  /\ IF ok THEN /\ Succeed("generate")
                /\ call' = [call EXCEPT !["dag"] = Idle]
                /\ transit' = ToSet(xcom.events)
                /\ xcom' = [xcom EXCEPT !.hashes = ToSet(xcom.events)]
                /\ UNCHANGED celery
     ELSE Raise("dag") /\ UNCHANGED <<transit, xcom>>
  /\ UNCHANGED <<deployed, store, cache, owed>>

\* Somebody calls generate_embedding.delay: no code here does.
Ask(t) ==
  /\ celery = NoTask
  /\ celery' = [text |-> {t}, retries |-> 0]
  /\ UNCHANGED <<deployed, store, cache, transit, owed, call, run, failures>>

\* A point's id is made from the content_hash: a text has one point.
Upsert(texts) == vectors' = vectors \cup texts

UpsertOne(ok) ==
  /\ call["celery"].at = "return"
  /\ Outcome(ok)
  /\ IF ok THEN /\ Upsert(celery.text)
                /\ call' = [call EXCEPT !["celery"] = Idle] /\ celery' = NoTask
                /\ UNCHANGED <<state, tries>>
     ELSE Raise("celery") /\ UNCHANGED vectors
  /\ UNCHANGED <<deployed, backlog, done, scores, cache, transit, owed, xcom>>

-------------------------------------------------------------------------------
(* The tasks after generate_embeddings *)

\* Every text is scored against all centroids; without them, nothing is.
Scorable(hashes) == IF deployed.concepts THEN hashes ELSE {}

\* A vector that is gone should be skipped, but the warning about it raises.
Calculate(ok) ==
  /\ Ready("calculate")
  /\ Outcome(ok)
  /\ IF ok /\ Scorable(xcom.hashes) \subseteq transit
     THEN /\ Succeed("calculate")
          /\ xcom' = [xcom EXCEPT !.scored = Scorable(xcom.hashes)]
     ELSE FailTry("calculate") /\ UNCHANGED xcom
  /\ UNCHANGED <<deployed, store, cache, transit, owed, call, celery>>

\* Faulty: all hashes are returned, those without a vector too.
AllHashes == xcom.hashes

Stored == xcom.hashes \cap transit

\* Here a vector that is gone is skipped.
StoreVectors(ok) ==
  /\ Ready("store")
  /\ Outcome(ok)
  /\ IF ok THEN /\ Succeed("store")
                /\ Upsert(xcom.hashes \cap transit)
                /\ xcom' = [xcom EXCEPT !.stored = Stored]
     ELSE FailTry("store") /\ UNCHANGED <<vectors, xcom>>
  /\ UNCHANGED <<deployed, backlog, done, scores, cache, transit, owed, call, celery>>

\* One transaction; the reply to the commit may be lost, and the rows are written twice.
UpdateScores(ok, committed) ==
  /\ Ready("update_sps")
  /\ ok => committed
  /\ Outcome(ok)
  /\ scores' = IF committed THEN scores \cup xcom.scored ELSE scores
  /\ IF ok THEN Succeed("update_sps") ELSE FailTry("update_sps")
  /\ UNCHANGED <<deployed, backlog, done, vectors, cache, transit, owed, call, xcom,
                 celery>>

\* Edges are written or not; only a timeout makes the task fail.
WriteGraph(ok) ==
  /\ Ready("graph")
  /\ Outcome(ok)
  /\ IF ok THEN Succeed("graph") ELSE FailTry("graph")
  /\ UNCHANGED <<deployed, store, cache, transit, owed, call, xcom, celery>>

\* UPDATE ... WHERE content_hash IN the stored ones; then their keys are deleted, which
\* may fail after the commit.
MarkProcessed(ok, committed) ==
  /\ Ready("mark")
  /\ ok => committed
  /\ Outcome(ok)
  /\ IF committed THEN /\ backlog' = SelectSeq(backlog, LAMBDA t : t \notin xcom.stored)
                       /\ done' = done \cup (xcom.stored \cap ToSet(backlog))
                  ELSE UNCHANGED <<backlog, done>>
  /\ IF ok THEN Succeed("mark") /\ transit' = transit \ xcom.stored
           ELSE FailTry("mark") /\ UNCHANGED transit
  /\ UNCHANGED <<deployed, vectors, scores, cache, owed, call, xcom, celery>>

\* Keys outlive neither their hour nor their day; Redis may also lose them.
KeyGone ==
  /\ Fault("other")
  /\ \E t \in Texts :
       \/ t \in transit /\ transit' = transit \ {t} /\ UNCHANGED cache
       \/ t \in cache /\ cache' = cache \ {t} /\ UNCHANGED transit
  /\ UNCHANGED <<deployed, store, owed, call, run, celery>>

-------------------------------------------------------------------------------

Embed(c) ==
  \/ \E ok \in BOOLEAN : CheckCache(c, ok) \/ LogCost(c, ok)
  \/ CallOpenAI(c) \/ CallFails(c)

Airflow ==
  \/ NextRun \/ Embed("dag")
  \/ \E ok \in BOOLEAN : Fetch(ok) \/ Generated(ok) \/ Calculate(ok) \/ StoreVectors(ok)
                         \/ WriteGraph(ok)
  \/ \E ok, committed \in BOOLEAN : UpdateScores(ok, committed)
                                    \/ MarkProcessed(ok, committed)

EmbeddingNext ==
  \/ \E t \in Texts : Mention(t)
  \/ \E t \in Direct : Ask(t)
  \/ Airflow
  \/ Embed("celery") \/ \E ok \in BOOLEAN : UpsertOne(ok)
  \/ KeyGone

EmbeddingSpec == EmbeddingInit /\ [][EmbeddingNext]_embeddingVars

\* The scheduler keeps starting what is ready, each branch of a run by itself.
FairEmbeddingSpec ==
  /\ EmbeddingSpec
  /\ WF_embeddingVars(NextRun) /\ WF_embeddingVars(\E ok \in BOOLEAN : Fetch(ok))
  /\ WF_embeddingVars(Embed("dag")) /\ WF_embeddingVars(\E ok \in BOOLEAN : Generated(ok))
  /\ WF_embeddingVars(\E ok \in BOOLEAN : Calculate(ok))
  /\ WF_embeddingVars(\E ok \in BOOLEAN : StoreVectors(ok))
  /\ WF_embeddingVars(\E ok \in BOOLEAN : WriteGraph(ok))
  /\ WF_embeddingVars(\E ok, committed \in BOOLEAN : UpdateScores(ok, committed))
  /\ WF_embeddingVars(\E ok, committed \in BOOLEAN : MarkProcessed(ok, committed))

-------------------------------------------------------------------------------
(* Properties *)

\* mark_processed: a mention the DAG has finished with, which no run looks at again, has
\* its vector in Qdrant and, where there are centroids, its scores: through any mixture of
\* failed executions, lost replies and keys that expire between two tasks.
MarkedIsComplete ==
  \A t \in done : t \in vectors /\ (deployed.concepts => t \in scores)

\* embed_batch: what OpenAI was paid for is in a cost row once the call is over, over any
\* number of batches, unless a batch failed or the row could not be written.
CostsLogged ==
  deployed.bad = {} /\ failures["paying"] = 0
    => owed \subseteq UNION {call[c].paid : c \in Clients}

\* The hourly runs get to every mention, those behind a full run as well, whatever fails
\* for a while; given the column, a logger that lets the service return, and no text that
\* is refused for ever: one such text stops every run it is fetched in.
EventuallyDone ==
  \A t \in Texts :
    deployed.hint /\ ~deployed.info /\ deployed.bad = {} /\ t \in ToSet(backlog)
      ~> t \in done
===============================================================================
