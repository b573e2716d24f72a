--------------------------- MODULE IngestionPipeline ---------------------------
(***************************************************************************)
(* The Kafka ingestion pipeline of apps/workers: producers poll feeds and  *)
(* write what they find to brand.mentions.raw; the deduplication,          *)
(* enrichment and routing consumers run as Celery tasks, one task at a     *)
(* time per consumer group and one partition per topic.                    *)
(*                                                                         *)
(* A task hands records to the producer client, which sends them in the    *)
(* background: they wait in its outbox and are gone with it when the task  *)
(* ends.  Producers flush it before, consumers do not.  Enrichment reads   *)
(* and writes the same topic, so it meets its own output again; the code   *)
(* goes on for ever and the model stops a record at generation MaxGen.     *)
(***************************************************************************)
EXTENDS Integers, Sequences, FiniteSets

CONSTANTS Texts,        \* the contents of mentions, one content_hash each
          Brands,       \* the brand names that mentions are collected for
          KnownBrands,  \* those with a row in the brands table
          Named,        \* those of the brands that each text names
          Suspicious,   \* the texts that match a hallucination keyword
          MaxEmits,     \* bound on mentions emitted by the producers
          MaxGen,       \* bound on how often enrichment republishes a mention
          MaxInFlight,  \* bound on records a task has in flight when it polls
          MaxFaults     \* bound on faults

ASSUME PipelineAssumption ==
  /\ KnownBrands \subseteq Brands /\ Suspicious \subseteq Texts
  /\ MaxEmits \in Nat /\ MaxGen \in Nat \ {0} /\ MaxFaults \in Nat
  /\ MaxInFlight \in Nat \ {0} /\ Named \in [Texts -> SUBSET Brands]

VARIABLES
  polling,   \* the brand that a producer task polls sources for, if one runs
  emitted,   \* history: what producers have emitted
  raw,       \* topic brand.mentions.raw
  enriched,  \* topic brand.mentions.enriched
  jobs,      \* topic embeddings.pending
  alerts,    \* topic hallucination.alerts, as a set
  dlq,       \* topic mentions.dlq, as a set
  committed, \* committed offset of each group
  position,  \* offset of each group's consumer
  pc,        \* what each group's task is doing
  outbox,    \* records produced by each task and not yet acknowledged
  seen,      \* Redis dedup:mention:<hash>
  routed,    \* Redis routed:<hash>
  mentions,  \* rows of brand_mentions
  lost,      \* history: a record has left an outbox undelivered
  faults     \* history: the faults, and the expiry of a guard key, so far

vars == <<polling, emitted, raw, enriched, jobs, alerts, dlq, committed, position, pc, outbox, seen,
          routed, mentions, lost, faults>>
sources == <<polling, emitted>>
topics == <<raw, enriched, jobs, alerts, dlq>>
stores == <<seen, routed, mentions>>
history == <<lost, faults>>

Groups == {"dedup", "enrich", "route"}
Tasks == Groups \cup {"produce"}
Kinds == {"redis", "db", "kafka", "crash", "timeout", "expiry"}

Event == [text : Texts, brand : Brands, gen : 0..MaxGen]
OutRecord == [topic : {"raw", "enriched", "jobs", "alerts", "dlq"}, event : Event]
Out(t, e) == [topic |-> t, event |-> e]

Input(g) == IF g = "dedup" THEN raw ELSE enriched

\* The record a task is working on, and the one it polls next.
Current(g) == Input(g)[position[g]]
Polled(g) == Input(g)[position[g] + 1]
CanPoll(g) ==
  /\ pc[g] = "poll" /\ position[g] < Len(Input(g))
  /\ Len(outbox[g]) < MaxInFlight

\* A fault of kind k occurs, each kind at most once.
Fault(k) ==
  /\ Cardinality(faults) < MaxFaults /\ k \notin faults
  /\ faults' = faults \cup {k}

\* An external command works or, within the budget, fails.
Outcome(ok, k) == IF ok THEN UNCHANGED faults ELSE Fault(k)

-------------------------------------------------------------------------------
(* Producers and tasks *)

Init ==
  /\ raw = <<>> /\ enriched = <<>> /\ jobs = <<>> /\ alerts = {} /\ dlq = {}
  /\ committed = [g \in Groups |-> 0]
  /\ position = [g \in Groups |-> 0]
  /\ pc = [g \in Groups |-> "off"]
  /\ outbox = [g \in Tasks |-> <<>>] /\ polling = {} /\ emitted = {}
  /\ seen = {} /\ routed = {} /\ mentions = {}
  /\ lost = FALSE /\ faults = {}

Produce(g, records) == outbox' = [outbox EXCEPT ![g] = @ \o records]

\* A producer task for a brand; runs follow each other.
StartPoll(b) ==
  /\ polling = {}
  /\ polling' = {b}
  /\ UNCHANGED <<emitted, topics, committed, position, pc, outbox, stores, history>>

\* emit: the mention goes to the outbox; brand_id stays empty.
Emit(t, b) ==
  /\ Len(raw) + Len(outbox["produce"]) < MaxEmits
  /\ Produce("produce", <<Out("raw", [text |-> t, brand |-> b, gen |-> 0])>>)
  /\ emitted' = emitted \cup {[text |-> t, brand |-> b, gen |-> 0]}
  /\ UNCHANGED <<polling, topics, committed, position, pc, stores, history>>

\* Sources offer the same text again on later runs, and for several brands; one that
\* cannot be read is left out.  An entry of a feed must name the brand.
FromFeed(t) == \E b \in polling \cap Named[t] : Emit(t, b)

\* The search for the brand decides.
FromReddit(t) == \E b \in polling : Emit(t, b)

\* All reviews are about the brand.
FromReviews(t) == \E b \in polling : Emit(t, b)

\* Faulty: as in the consumers, nothing is flushed.
NotFlushed == UNCHANGED faults

\* flush waits for the outbox, but not for ever.
Flushed == Outcome(outbox["produce"] = <<>>, "kafka")

\* The run ends, with an exception too.
EndPoll ==
  /\ polling # {}
  /\ Flushed
  /\ polling' = {} /\ outbox' = [outbox EXCEPT !["produce"] = <<>>]
  /\ UNCHANGED <<emitted, topics, committed, position, pc, stores, lost>>

\* The worker is lost; the task comes back as another run.
CrashPoll ==
  /\ polling # {}
  /\ Fault("crash")
  /\ polling' = {} /\ outbox' = [outbox EXCEPT !["produce"] = <<>>]
  /\ UNCHANGED <<emitted, topics, committed, position, pc, stores, lost>>

\* A consumer task starts; its position is the committed offset.
Start(g) ==
  /\ pc[g] = "off"
  /\ pc' = [pc EXCEPT ![g] = "poll"]
  /\ UNCHANGED <<sources, topics, committed, position, outbox, stores, history>>

\* Faulty: the position moves past two messages for every one handled.
AdvanceTwo(g) == position' = [position EXCEPT ![g] = @ + 2]

Advance(g) == position' = [position EXCEPT ![g] = @ + 1]

\* The producer of a finished task is destroyed with what it has not sent.
DropOutbox(g) ==
  /\ lost' = (lost \/ outbox[g] # <<>>)
  /\ outbox' = [outbox EXCEPT ![g] = <<>>]

\* run_once ends (poll timeout, max_messages or deadline): commit, close, return.
Finish(g) ==
  /\ pc[g] = "poll"
  /\ committed' = [committed EXCEPT ![g] = position[g]]
  /\ pc' = [pc EXCEPT ![g] = "off"]
  /\ DropOutbox(g)
  /\ UNCHANGED <<sources, topics, position, stores, faults>>

\* The worker is lost, the hard time limit strikes or the commit fails.
Crash(g) ==
  /\ pc[g] # "off"
  /\ Fault("crash")
  /\ pc' = [pc EXCEPT ![g] = "off"]
  /\ position' = [position EXCEPT ![g] = committed[g]]
  /\ DropOutbox(g)
  /\ UNCHANGED <<sources, topics, committed, stores>>

-------------------------------------------------------------------------------
(* Deduplication *)

\* Faulty: SET without NX always reports a new key.
ForwardAlways(ok) ==
  LET e == Polled("dedup")
  IN  /\ seen' = IF ok THEN seen \cup {e.text} ELSE seen
      /\ Produce("dedup", <<Out("enriched", e)>>)

\* SET NX on the content hash: a new text is forwarded, a known one dropped; if
\* Redis fails the mention passes.
ForwardNew(ok) ==
  LET e == Polled("dedup")
  IN  /\ seen' = IF ok THEN seen \cup {e.text} ELSE seen
      /\ IF ok /\ e.text \in seen
         THEN UNCHANGED outbox
         ELSE Produce("dedup", <<Out("enriched", e)>>)

Dedup == \E ok \in BOOLEAN :
  /\ CanPoll("dedup")
  /\ Outcome(ok, "redis")
  /\ ForwardNew(ok)
  /\ Advance("dedup")
  /\ UNCHANGED <<sources, topics, committed, pc, routed, mentions, lost>>

-------------------------------------------------------------------------------
(* Enrichment *)

\* What enrichment publishes for a mention whose brand was found: a copy with its
\* brand_id, whether or not it had one.
Republished(e) ==
  IF e.gen = MaxGen THEN <<>> ELSE <<Out("enriched", [e EXCEPT !.gen = @ + 1])>>

\* An unknown brand, or a failing lookup, sends the mention to the DLQ.
Enrich == \E ok \in BOOLEAN :
  /\ CanPoll("enrich")
  /\ Outcome(ok, "db")
  /\ LET e == Polled("enrich")
     IN  Produce("enrich", IF ok /\ e.brand \in KnownBrands
                           THEN Republished(e) ELSE <<Out("dlq", e)>>)
  /\ Advance("enrich")
  /\ UNCHANGED <<sources, topics, committed, pc, stores, lost>>

-------------------------------------------------------------------------------
(* Routing *)

\* Not yet enriched, or already routed as far as Redis can tell.
Skips(e, ok) == e.gen = 0 \/ (ok /\ e.text \in routed)

\* Faulty: the offset is committed when the record is polled.
CommitOnPoll ==
  /\ CanPoll("route")
  /\ LET e == Polled("route")
     IN  IF Skips(e, TRUE)
         THEN UNCHANGED <<pc, outbox>>
         ELSE /\ Produce("route", <<Out("jobs", e)>>)
              /\ pc' = [pc EXCEPT !["route"] = "persist"]
  /\ Advance("route")
  /\ committed' = [committed EXCEPT !["route"] = @ + 1]
  /\ UNCHANGED <<sources, topics, stores, lost, faults>>

\* Poll, and produce the embedding job and perhaps an alert.
Route == \E ok \in BOOLEAN :
  /\ CanPoll("route")
  /\ Outcome(ok, "redis")
  /\ LET e == Polled("route")
     IN  IF Skips(e, ok)
         THEN UNCHANGED <<pc, outbox>>
         ELSE /\ Produce("route", <<Out("jobs", e)>> \o
                   IF e.text \in Suspicious THEN <<Out("alerts", e)>> ELSE <<>>)
              /\ pc' = [pc EXCEPT !["route"] = "persist"]
  /\ Advance("route")
  /\ UNCHANGED <<sources, topics, committed, stores, lost>>

\* Faulty: the mention is marked before the insert is known to have happened.
PersistAfterMark ==
  /\ pc["route"] = "persist"
  /\ routed' = routed \cup {Current("route").text}
  /\ pc' = [pc EXCEPT !["route"] = "mark"]
  /\ UNCHANGED <<sources, topics, committed, position, outbox, seen, mentions, history>>

\* _persist_mention: INSERT ... ON CONFLICT (content_hash) DO NOTHING; a database
\* error is logged and swallowed.
Persist == \E ok \in BOOLEAN :
  /\ pc["route"] = "persist"
  /\ Outcome(ok, "db")
  /\ LET e == Current("route")
     IN  mentions' = IF ok /\ \A m \in mentions : m.text # e.text
                     THEN mentions \cup {[text |-> e.text, brand |-> e.brand]}
                     ELSE mentions
  /\ pc' = [pc EXCEPT !["route"] = "mark"]
  /\ UNCHANGED <<sources, topics, committed, position, outbox, seen, routed, lost>>

\* Faulty: the guard is never set.
NoMark ==
  /\ pc["route"] = "mark"
  /\ pc' = [pc EXCEPT !["route"] = "poll"]
  /\ UNCHANGED <<sources, topics, committed, position, outbox, stores, history>>

\* _mark_processed
Mark == \E ok \in BOOLEAN :
  /\ pc["route"] = "mark"
  /\ Outcome(ok, "redis")
  /\ routed' = IF ok THEN routed \cup {Current("route").text} ELSE routed
  /\ pc' = [pc EXCEPT !["route"] = "poll"]
  /\ UNCHANGED <<sources, topics, committed, position, outbox, seen, mentions, lost>>

\* A guard key reaches its 48 hours.
GuardExpires ==
  /\ Fault("expiry")
  /\ \E t \in routed : routed' = routed \ {t}
  /\ UNCHANGED <<sources, topics, committed, position, pc, outbox, seen, mentions, lost>>

-------------------------------------------------------------------------------
(* Exceptions and delivery *)

\* The soft time limit strikes inside process_message: _handle_message takes it for a
\* failed message, dead-letters it and goes on.
SoftLimit(g) ==
  /\ Fault("timeout")
  /\ \/ /\ CanPoll(g)
        /\ Advance(g)
        /\ Produce(g, <<Out("dlq", Polled(g))>>)
        /\ seen' \in {seen} \cup IF g = "dedup" THEN {seen \cup {Polled(g).text}} ELSE {}
        /\ UNCHANGED pc
     \/ /\ pc[g] \in {"persist", "mark"}
        /\ Produce(g, <<Out("dlq", Current(g))>>)
        /\ pc' = [pc EXCEPT ![g] = "poll"]
        /\ UNCHANGED <<position, seen>>
  /\ UNCHANGED <<sources, topics, committed, routed, mentions, lost>>

Without(s, i) == SubSeq(s, 1, i - 1) \o SubSeq(s, i + 1, Len(s))

\* The broker acknowledges a record; each topic keeps the order of production.
Deliver(g, i) ==
  /\ i \in DOMAIN outbox[g]
  /\ LET r == outbox[g][i]
     IN  /\ \A j \in 1..(i-1) : outbox[g][j].topic # r.topic
         /\ raw' = IF r.topic = "raw" THEN Append(raw, r.event) ELSE raw
         /\ enriched' = IF r.topic = "enriched" THEN Append(enriched, r.event) ELSE enriched
         /\ jobs' = IF r.topic = "jobs" THEN Append(jobs, r.event.text) ELSE jobs
         /\ alerts' = IF r.topic = "alerts" THEN alerts \cup {r.event} ELSE alerts
         /\ dlq' = IF r.topic = "dlq" THEN dlq \cup {r.event} ELSE dlq
  /\ outbox' = [outbox EXCEPT ![g] = Without(@, i)]
  /\ UNCHANGED <<sources, committed, position, pc, stores, history>>

\* The broker refuses a record for good: the delivery report only logs it.
DeliveryFails(g, i) ==
  /\ i \in DOMAIN outbox[g]
  /\ Fault("kafka")
  /\ lost' = (lost \/ g \in Groups)
  /\ outbox' = [outbox EXCEPT ![g] = Without(@, i)]
  /\ UNCHANGED <<sources, topics, committed, position, pc, stores>>

-------------------------------------------------------------------------------

Work == Dedup \/ Enrich \/ Route \/ Persist \/ Mark

Next ==
  \/ \E b \in Brands : StartPoll(b)
  \/ \E t \in Texts : FromFeed(t) \/ FromReddit(t) \/ FromReviews(t)
  \/ EndPoll \/ CrashPoll
  \/ \E g \in Groups : Start(g) \/ Finish(g) \/ Crash(g) \/ SoftLimit(g)
  \/ Work
  \/ \E g \in Tasks : \E i \in DOMAIN outbox[g] : Deliver(g, i) \/ DeliveryFails(g, i)
  \/ GuardExpires

Spec == Init /\ [][Next]_vars

-------------------------------------------------------------------------------
(* Properties *)

\* The types of the variables.
TypeOK ==
  /\ raw \in Seq(Event) /\ enriched \in Seq(Event) /\ jobs \in Seq(Texts)
  /\ alerts \subseteq Event /\ dlq \subseteq Event
  /\ \A g \in Groups : /\ committed[g] \in 0..Len(Input(g))
                       /\ position[g] \in 0..Len(Input(g))
  /\ \A g \in Tasks : outbox[g] \in Seq(OutRecord)
  /\ polling \subseteq Brands /\ emitted \subseteq Event
  /\ pc \in [Groups -> {"off", "poll", "persist", "mark"}]
  /\ seen \subseteq Texts /\ routed \subseteq Texts
  /\ mentions \subseteq [text : Texts, brand : Brands]
  /\ lost \in BOOLEAN /\ faults \subseteq Kinds

InOutbox(g) == {outbox[g][i] : i \in DOMAIN outbox[g]}
Rows == {m.text : m \in mentions}

\* BaseProducer.run: when a run is over, everything that was emitted is in the topic,
\* whichever sources it came from, unless the worker or the broker failed.
PolledIsRaw ==
  polling = {} /\ faults \cap {"crash", "kafka"} = {} =>
    \A e \in emitted : \E i \in DOMAIN raw : raw[i] = e

\* How many times a text has been handed to enrichment.
Forwards(t) ==
  Cardinality({i \in DOMAIN enriched : enriched[i].text = t /\ enriched[i].gen = 0})
  + Cardinality({i \in DOMAIN outbox["dedup"] :
                   /\ outbox["dedup"][i].topic = "enriched"
                   /\ outbox["dedup"][i].event.text = t})

\* As long as Redis answers, a text enters the pipeline at most once, however often
\* sources offer it and whatever tasks are killed and messages redelivered.
ForwardedOnce == "redis" \notin faults => \A t \in Texts : Forwards(t) <= 1

\* A guard key vouches for a row: as long as the database answers and no time limit
\* interferes, a text is marked as routed only once its mention is stored, whatever
\* tasks are killed in between.
RoutedIsStored == faults \cap {"db", "timeout"} = {} => routed \subseteq Rows

Jobs(t) ==
  Cardinality({i \in DOMAIN jobs : jobs[i] = t})
  + Cardinality({i \in DOMAIN outbox["route"] :
                   outbox["route"][i].topic = "jobs" /\ outbox["route"][i].event.text = t})

\* Routing turns the many copies that enrichment makes of a mention into one
\* embedding job, as long as nothing fails and the guard key lives.
OneJob == faults = {} => \A t \in Texts : Jobs(t) <= 1

\* What lies below a group's committed offset has had its effect: a text is known to
\* Redis and went on to enrichment; enrichment sent on a copy, or dead-lettered it;
\* routing stored it.  Kills are allowed, losses from an outbox are not.
CommittedIsDone ==
  ~lost /\ faults \subseteq {"crash"} =>
    /\ \A i \in 1..committed["dedup"] : Forwards(raw[i].text) >= 1
    /\ \A i \in 1..committed["enrich"] :
         enriched[i].gen < MaxGen =>
           \/ enriched[i] \in dlq \/ Out("dlq", enriched[i]) \in InOutbox("enrich")
           \/ LET copy == [enriched[i] EXCEPT !.gen = @ + 1]
              IN  \/ \E j \in DOMAIN enriched : enriched[j] = copy
                  \/ Out("enriched", copy) \in InOutbox("enrich")
    /\ \A i \in 1..committed["route"] : enriched[i].gen > 0 => enriched[i].text \in Rows

\* Where a text can still be found.
Reachable(t) ==
  \/ t \in Rows \/ \E e \in dlq : e.text = t
  \/ \E i \in (committed["dedup"] + 1)..Len(raw) : raw[i].text = t /\ t \notin seen
  \/ \E i \in (committed["enrich"] + 1)..Len(enriched) : enriched[i].text = t
  \/ \E i \in (committed["route"] + 1)..Len(enriched) :
       enriched[i].text = t /\ enriched[i].gen > 0
  \/ \E g \in Groups : \E r \in InOutbox(g) : r.event.text = t

\* consumers/base.py L6: "Commits offsets only after all downstream writes succeed
\* (at-least-once)".  It does not hold: a task that commits and returns while its
\* producer still holds the record loses it, and the text is in Redis as seen.
AtLeastOnce ==
  faults = {} => \A i \in 1..committed["dedup"] : Reachable(raw[i].text)

===============================================================================
