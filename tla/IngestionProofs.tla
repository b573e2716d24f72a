---------------------------- MODULE IngestionProofs ----------------------------
(***************************************************************************)
(* The ingestion pipeline for any number of texts, brands, records and     *)
(* faults: what is polled reaches the topic, a text enters the pipeline    *)
(* once, has one embedding job, and is marked only when it is stored.      *)
(***************************************************************************)
EXTENDS IngestionPipeline, FiniteSetTheorems, SequenceTheorems, TLAPS

-------------------------------------------------------------------------------
(* Types *)

\* Only routing works on a record over several steps, and it is one it has polled.
Working ==
  \A g \in Groups : pc[g] \in {"persist", "mark"} => g = "route" /\ position[g] >= 1

TypeInv ==
  /\ TypeOK /\ Working
  /\ committed \in [Groups -> Nat] /\ position \in [Groups -> Nat]
  /\ outbox \in [Tasks -> Seq(OutRecord)]

USE PipelineAssumption DEF PipelineAssumption

-------------------------------------------------------------------------------
(* Outboxes *)

\* A part of a sequence.
LEMMA Segment ==
  ASSUME NEW S, NEW s \in Seq(S), NEW m \in 1..(Len(s) + 1), NEW n \in 0..Len(s), m <= n + 1
  PROVE  /\ SubSeq(s, m, n) \in Seq(S) /\ Len(SubSeq(s, m, n)) = n - m + 1
         /\ \A j \in 1..(n - m + 1) : SubSeq(s, m, n)[j] = s[m + j - 1]
<1>1. Len(s) \in Nat /\ m \in Int /\ n \in Int /\ \A j \in m..n : j \in 1..Len(s)
  BY LenProperties
<1>2. \A j \in m..n : s[j] \in S
  BY <1>1, ElementOfSeq
<1>3. /\ SubSeq(s, m, n) \in Seq(S)
      /\ Len(SubSeq(s, m, n)) = (IF m <= n THEN n - m + 1 ELSE 0)
      /\ \A j \in 1..(n - m + 1) : SubSeq(s, m, n)[j] = s[m + j - 1]
  BY <1>1, <1>2, SubSeqProperties
<1> QED BY <1>1, <1>3

\* Removing a record from a sequence keeps the others, in their order.
LEMMA WithoutShape ==
  ASSUME NEW S, NEW s \in Seq(S), NEW i \in DOMAIN s
  PROVE  /\ Without(s, i) \in Seq(S)
         /\ DOMAIN Without(s, i) = 1..(Len(s) - 1)
         /\ \A j \in 1..(Len(s) - 1) :
              Without(s, i)[j] = IF j < i THEN s[j] ELSE s[j+1]
<1>1. Len(s) \in Nat /\ i \in 1..Len(s)
  BY LenProperties
<1>2. PICK u, v, w : u = 1 /\ v = i - 1 /\ w = i + 1
  OBVIOUS
<1> DEFINE a == SubSeq(s, u, v)
           b == SubSeq(s, w, Len(s))
<1>3. a \in Seq(S) /\ Len(a) = v - u + 1 /\ \A j \in 1..(v - u + 1) : a[j] = s[u + j - 1]
  <2>1. u \in 1..(Len(s) + 1) /\ v \in 0..Len(s) /\ u <= v + 1
    BY <1>1, <1>2
  <2> QED BY <2>1, Segment
<1>4. /\ b \in Seq(S) /\ Len(b) = Len(s) - w + 1
      /\ \A j \in 1..(Len(s) - w + 1) : b[j] = s[w + j - 1]
  <2>1. w \in 1..(Len(s) + 1) /\ Len(s) \in 0..Len(s) /\ w <= Len(s) + 1
    BY <1>1, <1>2
  <2> QED BY <2>1, Segment
<1>5. Without(s, i) = a \o b
  BY <1>2 DEF Without
<1> HIDE DEF a, b
<1> DEFINE c == a \o b
<1>6. /\ c \in Seq(S) /\ Len(c) = Len(a) + Len(b)
      /\ \A j \in 1..(Len(a) + Len(b)) : c[j] = IF j <= Len(a) THEN a[j] ELSE b[j - Len(a)]
  BY <1>3, <1>4, ConcatProperties
<1>7. DOMAIN c = 1..Len(c)
  BY <1>6, LenProperties
<1>8. Len(a) = i - 1 /\ Len(b) = Len(s) - i /\ Len(c) = Len(s) - 1
  <2>1. v - u + 1 = i - 1 /\ Len(s) - w + 1 = Len(s) - i /\ (i - 1) + (Len(s) - i) = Len(s) - 1
    BY <1>1, <1>2
  <2>2. Len(a) = i - 1
    BY <1>3, <2>1
  <2>3. Len(b) = Len(s) - i
    BY <1>4, <2>1
  <2> QED BY <1>6, <2>1, <2>2, <2>3
<1> HIDE DEF c
<1>9. ASSUME NEW j \in 1..(Len(s) - 1)
      PROVE  c[j] = IF j < i THEN s[j] ELSE s[j+1]
  <2>1. CASE j < i
    <3>1. c[j] = a[j]
      BY <1>1, <1>6, <1>8, <2>1
    <3>2. a[j] = s[j]
      BY <1>1, <1>2, <1>3, <2>1
    <3> QED BY <2>1, <3>1, <3>2
  <2>2. CASE ~(j < i)
    <3>1. PICK k : k = j - Len(a)
      OBVIOUS
    <3>2. k \in 1..(Len(s) - w + 1) /\ w + k - 1 = j + 1
      <4>1. k = j - (i - 1)
        BY <1>8, <3>1
      <4> QED BY <1>1, <1>2, <2>2, <4>1
    <3>3. c[j] = b[k]
      BY <1>1, <1>6, <1>8, <2>2, <3>1
    <3>4. b[k] = s[j + 1]
      BY <1>4, <3>2
    <3> QED BY <2>2, <3>3, <3>4
  <2> QED BY <2>1, <2>2
<1> QED BY <1>5, <1>6, <1>7, <1>8, <1>9 DEF c

\* Appending: what was there stays, what is new comes after it.
LEMMA Appended ==
  ASSUME NEW S, NEW s \in Seq(S), NEW e \in S
  PROVE  /\ Append(s, e) \in Seq(S) /\ Len(Append(s, e)) = Len(s) + 1 /\ Len(s) \in Nat
         /\ Append(s, e)[Len(s) + 1] = e
         /\ \A i \in 1..Len(s) : Append(s, e)[i] = s[i]
BY AppendProperties, LenProperties

\* Two records at most are produced at once.
LEMMA Concatenated ==
  ASSUME NEW S, NEW s \in Seq(S), NEW t \in Seq(S)
  PROVE  /\ s \o t \in Seq(S) /\ Len(s \o t) = Len(s) + Len(t)
         /\ Len(s) \in Nat /\ Len(t) \in Nat
         /\ \A i \in 1..Len(s) : (s \o t)[i] = s[i]
         /\ \A i \in 1..Len(t) : (s \o t)[Len(s) + i] = t[i]
<1>1. Len(s) \in Nat /\ Len(t) \in Nat
  BY LenProperties
<1>2. /\ s \o t \in Seq(S) /\ Len(s \o t) = Len(s) + Len(t)
      /\ \A i \in 1..(Len(s) + Len(t)) : (s \o t)[i] = IF i <= Len(s) THEN s[i] ELSE t[i - Len(s)]
  BY ConcatProperties
<1>3. ASSUME NEW i \in 1..Len(t) PROVE (s \o t)[Len(s) + i] = t[i]
  <2>1. Len(s) + i \in 1..(Len(s) + Len(t)) /\ ~(Len(s) + i <= Len(s)) /\ (Len(s) + i) - Len(s) = i
    BY <1>1
  <2> QED BY <1>2, <2>1
<1> QED BY <1>1, <1>2, <1>3

-------------------------------------------------------------------------------
(* Parts of steps *)

\* Faults are not forgotten.
LEMMA OutcomeType ==
  ASSUME TypeOK, NEW ok \in BOOLEAN, NEW k \in Kinds, Outcome(ok, k)
  PROVE  faults \subseteq faults' /\ faults' \subseteq Kinds /\ (~ok => k \in faults')
BY DEF Outcome, Fault, TypeOK

LEMMA FaultType ==
  ASSUME TypeOK, NEW k \in Kinds, Fault(k)
  PROVE  faults \subseteq faults' /\ faults' \subseteq Kinds /\ k \in faults'
BY DEF Fault, TypeOK

\* Producing puts records behind those of the same task.
LEMMA ProduceType ==
  ASSUME TypeInv, NEW g \in Tasks, NEW rs \in Seq(OutRecord), Produce(g, rs)
  PROVE  /\ outbox' \in [Tasks -> Seq(OutRecord)] /\ outbox'[g] = outbox[g] \o rs
         /\ \A h \in Tasks \ {g} : outbox'[h] = outbox[h]
<1>1. outbox[g] \o rs \in Seq(OutRecord)
  BY ConcatProperties DEF TypeInv
<1> QED BY <1>1 DEF Produce, TypeInv

LEMMA RecordType ==
  ASSUME NEW e \in Event, NEW t \in {"raw", "enriched", "jobs", "alerts", "dlq"}
  PROVE  Out(t, e) \in OutRecord /\ <<Out(t, e)>> \in Seq(OutRecord)
BY DEF Out, OutRecord

\* What is polled is an event of the topic.
LEMMA PolledType ==
  ASSUME TypeInv, NEW g \in Groups, CanPoll(g)
  PROVE  /\ Polled(g) \in Event /\ position[g] \in Nat
         /\ position[g] + 1 \in 1..Len(Input(g)) /\ pc[g] = "poll"
<1>1. Input(g) \in Seq(Event) /\ position[g] \in Nat
  BY DEF TypeInv, TypeOK, Input
<1>2. Len(Input(g)) \in Nat
  BY <1>1, LenProperties
<1>3. position[g] + 1 \in 1..Len(Input(g)) /\ pc[g] = "poll"
  BY <1>1, <1>2 DEF CanPoll
<1> QED BY <1>1, <1>3, ElementOfSeq DEF Polled

LEMMA CurrentType ==
  ASSUME TypeInv, pc["route"] \in {"persist", "mark"}
  PROVE  Current("route") \in Event /\ position["route"] \in 1..Len(enriched)
<1>1. enriched \in Seq(Event) /\ position["route"] \in 1..Len(enriched)
  <2>1. position["route"] \in 0..Len(enriched) /\ position["route"] >= 1
    BY DEF TypeInv, TypeOK, Working, Groups, Input
  <2> QED BY <2>1 DEF TypeInv, TypeOK
<1> QED BY <1>1, ElementOfSeq DEF Current, Input

\* A record leaves an outbox.
LEMMA LeavesType ==
  ASSUME TypeInv, NEW g \in Tasks, NEW i \in DOMAIN outbox[g],
         outbox' = [outbox EXCEPT ![g] = Without(@, i)]
  PROVE  /\ outbox' \in [Tasks -> Seq(OutRecord)] /\ outbox'[g] = Without(outbox[g], i)
         /\ \A h \in Tasks \ {g} : outbox'[h] = outbox[h]
         /\ outbox[g][i] \in OutRecord
<1>1. outbox[g] \in Seq(OutRecord)
  BY DEF TypeInv
<1>2. Without(outbox[g], i) \in Seq(OutRecord)
  BY <1>1, WithoutShape
<1>3. outbox[g][i] \in OutRecord
  BY <1>1, LenProperties, ElementOfSeq
<1> QED BY <1>1, <1>2, <1>3 DEF TypeInv

\* What an outbox holds after it grew, and after a record left it.
LEMMA ProducedSet ==
  ASSUME NEW g \in Tasks, outbox[g] \in Seq(OutRecord), NEW r, <<r>> \in Seq(OutRecord),
         outbox'[g] = outbox[g] \o <<r>>
  PROVE  InOutbox(g)' = InOutbox(g) \cup {r}
<1> DEFINE s == outbox[g]
           t == outbox'[g]
<1>1. Len(<<r>>) = 1 /\ <<r>>[1] = r
  OBVIOUS
<1>2. /\ t \in Seq(OutRecord) /\ Len(t) = Len(s) + 1 /\ Len(s) \in Nat
      /\ \A i \in 1..Len(s) : t[i] = s[i]
      /\ t[Len(s) + 1] = r
  BY <1>1, Concatenated
<1>3. DOMAIN s = 1..Len(s) /\ DOMAIN t = 1..(Len(s) + 1)
  BY <1>2, LenProperties
<1>4. InOutbox(g) = {s[i] : i \in DOMAIN s} /\ InOutbox(g)' = {t[i] : i \in DOMAIN t}
  BY DEF InOutbox
<1> HIDE DEF s, t
<1>5. ASSUME NEW i \in 1..(Len(s) + 1) PROVE (i \in 1..Len(s) /\ t[i] = s[i]) \/ t[i] = r
  BY <1>2
<1>6. \A i \in 1..Len(s) : i \in 1..(Len(s) + 1)
  BY <1>2
<1>7. Len(s) + 1 \in 1..(Len(s) + 1)
  BY <1>2
<1> QED BY <1>2, <1>3, <1>4, <1>5, <1>6, <1>7

LEMMA LeavesSet ==
  ASSUME NEW g \in Tasks, outbox \in [Tasks -> Seq(OutRecord)], NEW i \in DOMAIN outbox[g],
         outbox' = [outbox EXCEPT ![g] = Without(@, i)]
  PROVE  /\ InOutbox(g) \subseteq InOutbox(g)' \cup {outbox[g][i]}
         /\ InOutbox(g)' \subseteq InOutbox(g)
<1> DEFINE s == outbox[g]
           t == outbox'[g]
<1>1. s \in Seq(OutRecord) /\ t = Without(s, i)
  OBVIOUS
<1>2. /\ DOMAIN t = 1..(Len(s) - 1) /\ DOMAIN s = 1..Len(s) /\ Len(s) \in Nat
      /\ \A j \in 1..(Len(s) - 1) : t[j] = IF j < i THEN s[j] ELSE s[j+1]
  BY <1>1, WithoutShape, LenProperties
<1>3. InOutbox(g) = {s[j] : j \in DOMAIN s} /\ InOutbox(g)' = {t[j] : j \in DOMAIN t}
  BY DEF InOutbox
<1>4. i \in DOMAIN s
  OBVIOUS
<1> HIDE DEF s, t
<1>5. ASSUME NEW j \in DOMAIN s, j # i PROVE \E k \in DOMAIN t : t[k] = s[j]
  <2>1. CASE j < i
    <3>1. j \in 1..(Len(s) - 1)
      BY <1>2, <1>4, <2>1
    <3> QED BY <1>2, <2>1, <3>1
  <2>2. CASE j > i
    <3>1. j - 1 \in 1..(Len(s) - 1) /\ ~(j - 1 < i) /\ (j - 1) + 1 = j
      BY <1>2, <1>4, <2>2
    <3> QED BY <1>2, <3>1
  <2> QED BY <1>2, <1>4, <1>5, <2>1, <2>2
<1>6. ASSUME NEW k \in DOMAIN t PROVE \E j \in DOMAIN s : s[j] = t[k]
  <2>1. k \in DOMAIN s /\ k + 1 \in DOMAIN s /\ k \in 1..(Len(s) - 1)
    BY <1>2
  <2> QED BY <1>2, <2>1
<1> QED BY <1>3, <1>5, <1>6 DEF s

LEMMA DeliverType ==
  ASSUME TypeInv, NEW g \in Tasks, NEW i \in DOMAIN outbox[g], Deliver(g, i)
  PROVE  /\ raw' \in Seq(Event) /\ enriched' \in Seq(Event) /\ jobs' \in Seq(Texts)
         /\ alerts' \subseteq Event /\ dlq' \subseteq Event
         /\ Len(raw) <= Len(raw') /\ Len(enriched) <= Len(enriched')
         /\ Len(raw) \in Nat /\ Len(enriched) \in Nat /\ Len(raw') \in Nat /\ Len(enriched') \in Nat
         /\ \A j \in 1..Len(raw) : raw'[j] = raw[j]
         /\ \A j \in 1..Len(enriched) : enriched'[j] = enriched[j]
<1> DEFINE r == outbox[g][i]
<1>1. r.event \in Event /\ r.event.text \in Texts
  BY LeavesType DEF Deliver, OutRecord, Event
<1> HIDE DEF r
<1>2. /\ raw' = (IF r.topic = "raw" THEN Append(raw, r.event) ELSE raw)
      /\ enriched' = (IF r.topic = "enriched" THEN Append(enriched, r.event) ELSE enriched)
      /\ jobs' = (IF r.topic = "jobs" THEN Append(jobs, r.event.text) ELSE jobs)
      /\ alerts' = (IF r.topic = "alerts" THEN alerts \cup {r.event} ELSE alerts)
      /\ dlq' = (IF r.topic = "dlq" THEN dlq \cup {r.event} ELSE dlq)
  BY DEF Deliver, r
<1>3. raw \in Seq(Event) /\ enriched \in Seq(Event) /\ jobs \in Seq(Texts)
      /\ alerts \subseteq Event /\ dlq \subseteq Event
  BY DEF TypeInv, TypeOK
<1>4. /\ raw' \in Seq(Event) /\ Len(raw) <= Len(raw') /\ Len(raw) \in Nat /\ Len(raw') \in Nat
      /\ \A j \in 1..Len(raw) : raw'[j] = raw[j]
  BY <1>1, <1>2, <1>3, Appended, LenProperties
<1>5. /\ enriched' \in Seq(Event) /\ Len(enriched) <= Len(enriched')
      /\ Len(enriched) \in Nat /\ Len(enriched') \in Nat
      /\ \A j \in 1..Len(enriched) : enriched'[j] = enriched[j]
  BY <1>1, <1>2, <1>3, Appended, LenProperties
<1>6. jobs' \in Seq(Texts)
  BY <1>1, <1>2, <1>3, Appended
<1> QED BY <1>1, <1>2, <1>3, <1>4, <1>5, <1>6

-------------------------------------------------------------------------------
(* Type correctness *)

LEMMA InitTypes == Init => TypeInv
<1> SUFFICES ASSUME Init PROVE TypeInv
  OBVIOUS
<1>1. \A S : <<>> \in Seq(S) /\ Len(<<>>) = 0
  BY EmptySeq
<1>2. \A g \in Groups : Input(g) = <<>>
  BY DEF Init, Input
<1>3. outbox \in [Tasks -> Seq(OutRecord)]
  BY <1>1 DEF Init
<1>4. TypeOK
  <2>1. \A g \in Groups : committed[g] \in 0..Len(Input(g)) /\ position[g] \in 0..Len(Input(g))
    BY <1>1, <1>2 DEF Init
  <2>2. \A g \in Tasks : outbox[g] \in Seq(OutRecord)
    BY <1>3
  <2>3. pc \in [Groups -> {"off", "poll", "persist", "mark"}]
    BY DEF Init
  <2> QED BY <1>1, <2>1, <2>2, <2>3 DEF Init, TypeOK
<1>5. Working
  BY DEF Init, Working
<1>6. committed \in [Groups -> Nat] /\ position \in [Groups -> Nat]
  BY DEF Init
<1> QED BY <1>3, <1>4, <1>5, <1>6 DEF TypeInv

\* Steps that leave topics and positions alone.
LEMMA QuietType ==
  ASSUME TypeInv, UNCHANGED <<topics, committed, position>>,
         outbox' \in [Tasks -> Seq(OutRecord)], polling' \subseteq Brands, emitted' \subseteq Event,
         pc' \in [Groups -> {"off", "poll", "persist", "mark"}],
         \A g \in Groups : pc'[g] \in {"persist", "mark"} => pc[g] \in {"persist", "mark"},
         seen' \subseteq Texts, routed' \subseteq Texts,
         mentions' \subseteq [text : Texts, brand : Brands],
         lost' \in BOOLEAN, faults' \subseteq Kinds
  PROVE  TypeInv'
<1>1. \A g \in Groups : Input(g)' = Input(g)
  BY DEF Input, topics
<1> QED BY <1>1 DEF TypeInv, TypeOK, Working, topics

\* Steps of a group that move its position.
LEMMA PollType ==
  ASSUME TypeInv, NEW g \in Groups, CanPoll(g), Advance(g),
         UNCHANGED <<sources, topics, committed, routed, mentions, lost>>,
         outbox' \in [Tasks -> Seq(OutRecord)],
         pc' = pc \/ (g = "route" /\ pc' = [pc EXCEPT !["route"] = "persist"]),
         seen' \subseteq Texts, faults' \subseteq Kinds
  PROVE  TypeInv'
<1>1. \A h \in Groups : Input(h)' = Input(h)
  BY DEF Input, topics
<1>2. position[g] \in Nat /\ position[g] + 1 \in 1..Len(Input(g))
  BY PolledType
<1>3. Len(Input(g)) \in Nat
  BY LenProperties DEF TypeInv, TypeOK, Input
<1>4. /\ position' \in [Groups -> Nat] /\ position'[g] = position[g] + 1
      /\ \A h \in Groups \ {g} : position'[h] = position[h]
  BY <1>2 DEF Advance, TypeInv
<1>5. \A h \in Groups : /\ committed'[h] \in 0..Len(Input(h))'
                        /\ position'[h] \in 0..Len(Input(h))'
  <2>1. ASSUME NEW h \in Groups
        PROVE  committed'[h] \in 0..Len(Input(h)) /\ position'[h] \in 0..Len(Input(h))
    <3>1. committed[h] \in 0..Len(Input(h)) /\ position[h] \in 0..Len(Input(h))
      BY DEF TypeInv, TypeOK
    <3>2. position[g] + 1 \in 0..Len(Input(g))
      BY <1>2, <1>3
    <3> QED BY <1>4, <3>1, <3>2
  <2> QED BY <1>1, <2>1
<1>6. Working' /\ pc' \in [Groups -> {"off", "poll", "persist", "mark"}]
  <2>1. pc \in [Groups -> {"off", "poll", "persist", "mark"}] /\ Working
    BY DEF TypeInv, TypeOK
  <2>2. pc' \in [Groups -> {"off", "poll", "persist", "mark"}]
    BY <2>1
  <2>3. ASSUME NEW h \in Groups, pc'[h] \in {"persist", "mark"}
        PROVE  h = "route" /\ position'[h] >= 1
    <3>1. CASE h = g
      <4>1. pc[g] = "poll"
        BY PolledType
      <4>2. h = "route"
        BY <2>1, <2>3, <3>1, <4>1
      <4> QED BY <1>2, <1>4, <3>1, <4>2
    <3>2. CASE h # g
      <4>1. pc'[h] = pc[h]
        BY <2>1, <3>2
      <4> QED BY <1>4, <2>1, <2>3, <3>2, <4>1 DEF Working
    <3> QED BY <3>1, <3>2
  <2> QED BY <2>2, <2>3 DEF Working
<1> QED BY <1>4, <1>5, <1>6 DEF TypeInv, TypeOK, topics, sources

LEMMA ProducerTypes ==
  ASSUME TypeInv,
         \/ \E b \in Brands : StartPoll(b)
         \/ \E t \in Texts : FromFeed(t) \/ FromReddit(t) \/ FromReviews(t)
         \/ EndPoll \/ CrashPoll
  PROVE  TypeInv'
<1>0. TypeOK /\ polling \subseteq Brands /\ emitted \subseteq Event
  BY DEF TypeInv, TypeOK
<1>1. ASSUME NEW b \in Brands, StartPoll(b) PROVE TypeInv'
  <2>1. UNCHANGED <<emitted, topics, committed, position, pc, outbox, stores, history>>
        /\ polling' \subseteq Brands
    BY <1>1 DEF StartPoll
  <2> QED BY <2>1, QuietType DEF TypeInv, TypeOK, stores, history
<1>2. ASSUME NEW t \in Texts, NEW b \in Brands, Emit(t, b) PROVE TypeInv'
  <2> DEFINE e == [text |-> t, brand |-> b, gen |-> 0]
  <2>1. e \in Event
    BY DEF Event
  <2>2. /\ Produce("produce", <<Out("raw", e)>>) /\ emitted' = emitted \cup {e}
        /\ UNCHANGED <<polling, topics, committed, position, pc, stores, history>>
    BY <1>2 DEF Emit
  <2> HIDE DEF e
  <2>3. outbox' \in [Tasks -> Seq(OutRecord)]
    BY <2>1, <2>2, RecordType, ProduceType DEF Tasks
  <2>4. emitted' \subseteq Event
    BY <1>0, <2>1, <2>2
  <2> QED BY <2>2, <2>3, <2>4, QuietType DEF TypeInv, TypeOK, stores, history
<1>3. ASSUME EndPoll \/ CrashPoll PROVE TypeInv'
  <2>1. /\ polling' = {} /\ outbox' = [outbox EXCEPT !["produce"] = <<>>]
        /\ UNCHANGED <<emitted, topics, committed, position, pc, stores, lost>>
    BY <1>3 DEF EndPoll, CrashPoll
  <2>2. faults' \subseteq Kinds
    <3>1. CASE EndPoll
      BY <1>0, <3>1, OutcomeType DEF EndPoll, Flushed, Kinds
    <3>2. CASE CrashPoll
      BY <1>0, <3>2, FaultType DEF CrashPoll, Kinds
    <3> QED BY <1>3, <3>1, <3>2
  <2>3. outbox' \in [Tasks -> Seq(OutRecord)]
    BY <2>1, EmptySeq DEF TypeInv
  <2> QED BY <2>1, <2>2, <2>3, QuietType DEF TypeInv, TypeOK, stores
<1> QED BY <1>0, <1>1, <1>2, <1>3 DEF FromFeed, FromReddit, FromReviews

LEMMA TaskTypes ==
  ASSUME TypeInv, NEW g \in Groups, Start(g) \/ Finish(g) \/ Crash(g)
  PROVE  TypeInv'
<1>0. TypeOK /\ g \in Tasks /\ pc \in [Groups -> {"off", "poll", "persist", "mark"}]
  BY DEF TypeInv, TypeOK, Tasks
<1>1. CASE Start(g)
  <2>1. /\ pc' = [pc EXCEPT ![g] = "poll"]
        /\ UNCHANGED <<sources, topics, committed, position, outbox, stores, history>>
    BY <1>1 DEF Start
  <2>2. pc' \in [Groups -> {"off", "poll", "persist", "mark"}]
        /\ \A h \in Groups : pc'[h] \in {"persist", "mark"} => pc[h] \in {"persist", "mark"}
    BY <1>0, <2>1
  <2> QED BY <2>1, <2>2, QuietType DEF TypeInv, TypeOK, stores, history, sources
<1>2. ASSUME DropOutbox(g) PROVE outbox' \in [Tasks -> Seq(OutRecord)] /\ lost' \in BOOLEAN
  <2>1. <<>> \in Seq(OutRecord)
    BY EmptySeq
  <2>2. lost \in BOOLEAN
    BY DEF TypeInv, TypeOK
  <2> QED BY <1>0, <1>2, <2>1, <2>2 DEF DropOutbox, TypeInv
<1>3. \A h \in Groups : /\ committed[h] \in 0..Len(Input(h)) /\ position[h] \in 0..Len(Input(h))
                        /\ committed[h] \in Nat /\ position[h] \in Nat
  BY DEF TypeInv, TypeOK
<1>4. CASE Finish(g) \/ Crash(g)
  <2>1. /\ pc' = [pc EXCEPT ![g] = "off"] /\ DropOutbox(g)
        /\ UNCHANGED <<sources, topics, stores>>
        /\ \/ committed' = [committed EXCEPT ![g] = position[g]] /\ UNCHANGED <<position, faults>>
           \/ position' = [position EXCEPT ![g] = committed[g]] /\ UNCHANGED committed /\ Fault("crash")
    BY <1>4 DEF Finish, Crash
  <2>2. \A h \in Groups : Input(h)' = Input(h)
    BY <2>1 DEF Input, topics
  <2>3. /\ committed' \in [Groups -> Nat] /\ position' \in [Groups -> Nat]
        /\ \A h \in Groups : /\ committed'[h] \in {committed[h], position[h]}
                             /\ position'[h] \in {committed[h], position[h]}
                             /\ h # g => position'[h] = position[h]
    BY <2>1, <1>3 DEF TypeInv
  <2>4. \A h \in Groups : /\ committed'[h] \in 0..Len(Input(h))'
                          /\ position'[h] \in 0..Len(Input(h))'
    BY <2>2, <2>3, <1>3
  <2>5. faults' \subseteq Kinds
    BY <1>0, <2>1, FaultType DEF Kinds, TypeOK
  <2>6. pc' \in [Groups -> {"off", "poll", "persist", "mark"}] /\ Working'
    BY <1>0, <2>1, <2>3 DEF TypeInv, Working
  <2> QED BY <1>2, <2>1, <2>3, <2>4, <2>5, <2>6 DEF TypeInv, TypeOK, topics, sources, stores
<1> QED BY <1>1, <1>4

LEMMA WorkTypes ==
  ASSUME TypeInv, Work \/ \E g \in Groups : SoftLimit(g)
  PROVE  TypeInv'
<1>0. /\ TypeOK /\ "dedup" \in Groups /\ "enrich" \in Groups /\ "route" \in Groups
      /\ Groups \subseteq Tasks /\ outbox \in [Tasks -> Seq(OutRecord)]
      /\ pc \in [Groups -> {"off", "poll", "persist", "mark"}]
      /\ seen \subseteq Texts /\ routed \subseteq Texts
      /\ mentions \subseteq [text : Texts, brand : Brands]
  BY DEF TypeInv, TypeOK, Groups, Tasks
<1>1. ASSUME NEW ok \in BOOLEAN, CanPoll("dedup"), Outcome(ok, "redis"), ForwardNew(ok),
             Advance("dedup"),
             UNCHANGED <<sources, topics, committed, pc, routed, mentions, lost>>
      PROVE  TypeInv'
  <2> DEFINE e == Polled("dedup")
  <2>1. e \in Event /\ e.text \in Texts
    BY <1>0, <1>1, PolledType DEF Event
  <2>2. /\ seen' = (IF ok THEN seen \cup {e.text} ELSE seen)
        /\ UNCHANGED outbox \/ Produce("dedup", <<Out("enriched", e)>>)
    BY <1>1 DEF ForwardNew
  <2> HIDE DEF e
  <2>3. outbox' \in [Tasks -> Seq(OutRecord)]
    BY <1>0, <2>1, <2>2, RecordType, ProduceType
  <2>4. seen' \subseteq Texts
    BY <1>0, <2>1, <2>2
  <2>5. faults' \subseteq Kinds
    BY <1>0, <1>1, OutcomeType DEF Kinds
  <2> QED BY <1>0, <1>1, <2>3, <2>4, <2>5, PollType
<1>2. ASSUME NEW ok \in BOOLEAN, CanPoll("enrich"), Outcome(ok, "db"),
             NEW e, e = Polled("enrich"),
             Produce("enrich", IF ok /\ e.brand \in KnownBrands
                               THEN Republished(e) ELSE <<Out("dlq", e)>>),
             Advance("enrich"), UNCHANGED <<sources, topics, committed, pc, stores, lost>>
      PROVE  TypeInv'
  <2>1. e \in Event
    BY <1>0, <1>2, PolledType
  <2>2. Republished(e) \in Seq(OutRecord) /\ <<Out("dlq", e)>> \in Seq(OutRecord)
    <3>1. CASE e.gen = MaxGen
      BY <2>1, <3>1, EmptySeq, RecordType DEF Republished
    <3>2. CASE e.gen # MaxGen
      <4>1. [e EXCEPT !.gen = @ + 1] \in Event
        BY <2>1, <3>2 DEF Event
      <4> QED BY <2>1, <3>2, <4>1, RecordType DEF Republished
    <3> QED BY <3>1, <3>2
  <2>3. outbox' \in [Tasks -> Seq(OutRecord)]
    BY <1>0, <1>2, <2>2, ProduceType
  <2>4. faults' \subseteq Kinds
    BY <1>0, <1>2, OutcomeType DEF Kinds
  <2> QED BY <1>0, <1>2, <2>3, <2>4, PollType DEF stores
<1>3. ASSUME NEW ok \in BOOLEAN, CanPoll("route"), Outcome(ok, "redis"),
             NEW e, e = Polled("route"),
             \/ UNCHANGED <<pc, outbox>>
             \/ /\ Produce("route", <<Out("jobs", e)>> \o
                     IF e.text \in Suspicious THEN <<Out("alerts", e)>> ELSE <<>>)
                /\ pc' = [pc EXCEPT !["route"] = "persist"],
             Advance("route"), UNCHANGED <<sources, topics, committed, stores, lost>>
      PROVE  TypeInv'
  <2>1. e \in Event
    BY <1>0, <1>3, PolledType
  <2>2. (IF e.text \in Suspicious THEN <<Out("alerts", e)>> ELSE <<>>) \in Seq(OutRecord)
    BY <2>1, RecordType, EmptySeq
  <2>3. <<Out("jobs", e)>> \o (IF e.text \in Suspicious THEN <<Out("alerts", e)>> ELSE <<>>)
          \in Seq(OutRecord)
    BY <2>1, <2>2, RecordType, ConcatProperties
  <2>4. outbox' \in [Tasks -> Seq(OutRecord)]
    BY <1>0, <1>3, <2>3, ProduceType
  <2>5. faults' \subseteq Kinds
    BY <1>0, <1>3, OutcomeType DEF Kinds
  <2> QED BY <1>0, <1>3, <2>4, <2>5, PollType DEF stores
<1>4. ASSUME Persist \/ Mark PROVE TypeInv'
  <2>1. /\ UNCHANGED <<sources, topics, committed, position, outbox, seen, lost>>
        /\ pc["route"] \in {"persist", "mark"} /\ faults' \subseteq Kinds
        /\ \/ pc' = [pc EXCEPT !["route"] = "mark"]
           \/ pc' = [pc EXCEPT !["route"] = "poll"]
    BY <1>0, <1>4, OutcomeType DEF Persist, Mark, Kinds
  <2>2. Current("route") \in Event
    BY <2>1, CurrentType
  <2>3. /\ mentions' \subseteq [text : Texts, brand : Brands] /\ routed' \subseteq Texts
    BY <1>0, <1>4, <2>2 DEF Persist, Mark, Event
  <2>4. /\ pc' \in [Groups -> {"off", "poll", "persist", "mark"}]
        /\ \A h \in Groups : pc'[h] \in {"persist", "mark"} => pc[h] \in {"persist", "mark"}
    BY <1>0, <2>1
  <2> QED BY <1>0, <2>1, <2>3, <2>4, QuietType DEF TypeInv, TypeOK, sources
<1>5. ASSUME NEW g \in Groups, SoftLimit(g) PROVE TypeInv'
  <2>1. faults' \subseteq Kinds
    BY <1>0, <1>5, FaultType DEF SoftLimit, Kinds
  <2>2. CASE /\ CanPoll(g) /\ Advance(g) /\ Produce(g, <<Out("dlq", Polled(g))>>)
             /\ seen' \in {seen} \cup IF g = "dedup" THEN {seen \cup {Polled(g).text}} ELSE {}
             /\ UNCHANGED pc
    <3>1. Polled(g) \in Event
      BY <2>2, PolledType
    <3>2. seen' \subseteq Texts
      BY <1>0, <2>2, <3>1 DEF Event
    <3>3. outbox' \in [Tasks -> Seq(OutRecord)]
      BY <1>0, <2>2, <3>1, RecordType, ProduceType
    <3> QED BY <1>0, <1>5, <2>1, <2>2, <3>2, <3>3, PollType DEF SoftLimit
  <2>3. CASE /\ pc[g] \in {"persist", "mark"} /\ Produce(g, <<Out("dlq", Current(g))>>)
             /\ pc' = [pc EXCEPT ![g] = "poll"] /\ UNCHANGED <<position, seen>>
    <3>1. Current(g) \in Event
      <4>1. g = "route"
        BY <2>3 DEF TypeInv, Working
      <4> QED BY <2>3, <4>1, CurrentType
    <3>2. outbox' \in [Tasks -> Seq(OutRecord)]
      BY <1>0, <2>3, <3>1, RecordType, ProduceType
    <3>3. /\ pc' \in [Groups -> {"off", "poll", "persist", "mark"}]
          /\ \A h \in Groups : pc'[h] \in {"persist", "mark"} => pc[h] \in {"persist", "mark"}
      BY <1>0, <2>3
    <3>4. UNCHANGED <<sources, topics, committed, routed, mentions, lost>>
      BY <1>5 DEF SoftLimit
    <3> QED BY <1>0, <2>1, <2>3, <3>2, <3>3, <3>4, QuietType DEF TypeInv, TypeOK, sources
  <2> QED BY <1>5, <2>2, <2>3 DEF SoftLimit
<1> QED BY <1>1, <1>2, <1>3, <1>4, <1>5 DEF Work, Dedup, Enrich, Route

LEMMA DeliveryTypes ==
  ASSUME TypeInv, NEW g \in Tasks, NEW i \in DOMAIN outbox[g], Deliver(g, i) \/ DeliveryFails(g, i)
  PROVE  TypeInv'
<1>0. outbox' \in [Tasks -> Seq(OutRecord)]
  BY LeavesType DEF Deliver, DeliveryFails
<1>1. CASE Deliver(g, i)
  <2>1. \A h \in Groups : Len(Input(h)) <= Len(Input(h))' /\ Len(Input(h)) \in Nat /\ Len(Input(h))' \in Nat
    BY <1>1, DeliverType DEF Input
  <2>2. UNCHANGED <<sources, committed, position, pc, stores, history>>
    BY <1>1 DEF Deliver
  <2>3. \A h \in Groups : committed'[h] \in 0..Len(Input(h))' /\ position'[h] \in 0..Len(Input(h))'
    <3>1. \A h \in Groups : committed[h] \in 0..Len(Input(h)) /\ position[h] \in 0..Len(Input(h))
      BY DEF TypeInv, TypeOK
    <3> QED BY <2>1, <2>2, <3>1
  <2> QED BY <1>0, <1>1, <2>2, <2>3, DeliverType
          DEF TypeInv, TypeOK, Working, sources, stores, history
<1>2. CASE DeliveryFails(g, i)
  <2>1. faults' \subseteq Kinds /\ lost' \in BOOLEAN
    BY <1>2, FaultType DEF DeliveryFails, Kinds, TypeInv, TypeOK
  <2> QED BY <1>0, <1>2, <2>1, QuietType DEF DeliveryFails, TypeInv, TypeOK, sources, stores
<1> QED BY <1>1, <1>2

LEMMA TypesKept ==
  ASSUME TypeInv, [Next]_vars
  PROVE  TypeInv'
<1>1. CASE GuardExpires
  <2>1. faults' \subseteq Kinds /\ routed' \subseteq Texts
    BY <1>1, FaultType DEF GuardExpires, Kinds, TypeInv, TypeOK
  <2> QED BY <1>1, <2>1, QuietType DEF GuardExpires, TypeInv, TypeOK, sources
<1>2. CASE UNCHANGED vars
  BY <1>2, QuietType DEF vars, TypeInv, TypeOK, sources, topics, stores, history
<1> QED BY <1>1, <1>2, ProducerTypes, TaskTypes, WorkTypes, DeliveryTypes DEF Next

LEMMA TypesHold == Spec => []TypeInv
BY InitTypes, TypesKept, PTL DEF Spec

\* Every record in a topic or an outbox is one, and positions stay in their topics.
THEOREM TypeCorrect == Spec => []TypeOK
<1>1. TypeInv => TypeOK
  BY DEF TypeInv
<1> QED BY <1>1, TypesHold, PTL

-------------------------------------------------------------------------------
(* What no step undoes *)

LEMMA FaultsGrow ==
  ASSUME TypeInv, [Next]_vars
  PROVE  faults \subseteq faults'
<1>0. TypeOK
  BY DEF TypeInv
<1>1. ASSUME NEW b \in Brands, StartPoll(b) PROVE faults' = faults
  BY <1>1 DEF StartPoll, history
<1>2. ASSUME NEW t \in Texts, FromFeed(t) \/ FromReddit(t) \/ FromReviews(t) PROVE faults' = faults
  BY <1>2 DEF FromFeed, FromReddit, FromReviews, Emit, history
<1>3. ASSUME EndPoll \/ CrashPoll PROVE faults \subseteq faults'
  BY <1>3 DEF EndPoll, CrashPoll, Flushed, Outcome, Fault
<1>4. ASSUME NEW g \in Groups, Start(g) \/ Finish(g) \/ Crash(g) \/ SoftLimit(g)
      PROVE  faults \subseteq faults'
  BY <1>4 DEF Start, Finish, Crash, SoftLimit, Fault, history
<1>5. ASSUME Work PROVE faults \subseteq faults'
  BY <1>5 DEF Work, Dedup, Enrich, Route, Persist, Mark, Outcome, Fault
<1>6. ASSUME NEW g \in Tasks, NEW i \in DOMAIN outbox[g], Deliver(g, i) \/ DeliveryFails(g, i)
      PROVE  faults \subseteq faults'
  BY <1>6 DEF Deliver, DeliveryFails, Fault, history
<1>7. ASSUME GuardExpires PROVE faults \subseteq faults'
  BY <1>7 DEF GuardExpires, Fault
<1>8. CASE UNCHANGED vars
  BY <1>8 DEF vars
<1> QED BY <1>1, <1>2, <1>3, <1>4, <1>5, <1>6, <1>7, <1>8 DEF Next

\* Only delivery touches topics.
LEMMA TopicsQuiet ==
  ASSUME [Next]_vars, ~(\E g \in Tasks : \E i \in DOMAIN outbox[g] : Deliver(g, i))
  PROVE  UNCHANGED topics
<1>1. ASSUME NEW b \in Brands, StartPoll(b) PROVE UNCHANGED topics
  BY <1>1 DEF StartPoll
<1>2. ASSUME NEW t \in Texts, FromFeed(t) \/ FromReddit(t) \/ FromReviews(t) PROVE UNCHANGED topics
  BY <1>2 DEF FromFeed, FromReddit, FromReviews, Emit
<1>3. ASSUME EndPoll \/ CrashPoll \/ GuardExpires PROVE UNCHANGED topics
  BY <1>3 DEF EndPoll, CrashPoll, GuardExpires
<1>4. ASSUME NEW g \in Groups, Start(g) \/ Finish(g) \/ Crash(g) \/ SoftLimit(g)
      PROVE  UNCHANGED topics
  BY <1>4 DEF Start, Finish, Crash, SoftLimit
<1>5. ASSUME Work PROVE UNCHANGED topics
  BY <1>5 DEF Work, Dedup, Enrich, Route, Persist, Mark
<1>6. ASSUME NEW g \in Tasks, NEW i \in DOMAIN outbox[g], DeliveryFails(g, i)
      PROVE  UNCHANGED topics
  BY <1>6 DEF DeliveryFails
<1>7. CASE UNCHANGED vars
  BY <1>7 DEF vars, topics
<1> QED BY <1>1, <1>2, <1>3, <1>4, <1>5, <1>6, <1>7 DEF Next

\* Topics grow at their ends.
LEMMA TopicsGrow ==
  ASSUME TypeInv, [Next]_vars
  PROVE  /\ Len(raw) <= Len(raw') /\ Len(enriched) <= Len(enriched')
         /\ Len(raw) \in Nat /\ Len(enriched) \in Nat /\ Len(raw') \in Nat /\ Len(enriched') \in Nat
         /\ \A j \in 1..Len(raw) : raw'[j] = raw[j]
         /\ \A j \in 1..Len(enriched) : enriched'[j] = enriched[j]
<1>1. CASE \E g \in Tasks : \E i \in DOMAIN outbox[g] : Deliver(g, i)
  BY <1>1, DeliverType
<1>2. CASE UNCHANGED topics
  BY <1>2, LenProperties DEF TypeInv, TypeOK, topics
<1> QED BY <1>1, <1>2, TopicsQuiet

-------------------------------------------------------------------------------
(* A guard key vouches for a row *)

StoredInv ==
  faults \cap {"db", "timeout"} = {} =>
    /\ routed \subseteq Rows
    /\ pc["route"] = "mark" => Current("route").text \in Rows

LEMMA StoredKept ==
  ASSUME TypeInv, StoredInv, [Next]_vars
  PROVE  StoredInv'
<1> SUFFICES ASSUME faults' \cap {"db", "timeout"} = {}
             PROVE  /\ routed' \subseteq Rows'
                    /\ pc'["route"] = "mark" => Current("route")'.text \in Rows'
  BY DEF StoredInv
<1>0. /\ "route" \in Groups /\ pc \in [Groups -> {"off", "poll", "persist", "mark"}]
      /\ position \in [Groups -> Nat]
      /\ routed \subseteq Rows
      /\ pc["route"] = "mark" => Current("route").text \in Rows
  BY FaultsGrow DEF Groups, StoredInv, TypeInv, TypeOK
<1>1. ASSUME pc["route"] = "mark", position'["route"] = position["route"]
      PROVE  Current("route")' = Current("route")
  BY <1>1, CurrentType, TopicsGrow DEF Current, Input
<1>2. ASSUME routed' \subseteq routed, UNCHANGED mentions,
             pc'["route"] = "mark" => pc["route"] = "mark" /\ position'["route"] = position["route"]
      PROVE  /\ routed' \subseteq Rows'
             /\ pc'["route"] = "mark" => Current("route")'.text \in Rows'
  BY <1>0, <1>1, <1>2 DEF Rows
<1>3. CASE \E b \in Brands : StartPoll(b)
  BY <1>2, <1>3 DEF StartPoll, stores
<1>4. CASE \E t \in Texts : FromFeed(t) \/ FromReddit(t) \/ FromReviews(t)
  BY <1>2, <1>4 DEF FromFeed, FromReddit, FromReviews, Emit, stores
<1>5. CASE EndPoll \/ CrashPoll \/ GuardExpires
  BY <1>2, <1>5 DEF EndPoll, CrashPoll, GuardExpires, stores
<1>6. ASSUME NEW g \in Groups, Start(g) \/ Finish(g) \/ Crash(g)
      PROVE  /\ routed' \subseteq Rows'
             /\ pc'["route"] = "mark" => Current("route")'.text \in Rows'
  <2>1. UNCHANGED <<routed, mentions>> /\ \E v \in {"off", "poll"} : pc' = [pc EXCEPT ![g] = v]
    BY <1>6 DEF Start, Finish, Crash, stores
  <2>2. CASE g = "route"
    BY <1>0, <1>2, <2>1, <2>2
  <2>3. CASE g # "route"
    <3>1. position'["route"] = position["route"]
      BY <1>0, <1>6, <2>3 DEF Start, Finish, Crash
    <3> QED BY <1>0, <1>2, <2>1, <2>3, <3>1
  <2> QED BY <2>2, <2>3
<1>7. ASSUME NEW g \in Groups, SoftLimit(g) PROVE FALSE
  BY <1>7, FaultType DEF SoftLimit, Kinds, TypeInv
<1>8. CASE Dedup \/ Enrich
  BY <1>0, <1>2, <1>8 DEF Dedup, Enrich, Advance, stores
<1>9. CASE Route
  BY <1>0, <1>2, <1>9 DEF Route, Advance, CanPoll, stores
<1>10. CASE Persist
  <2>1. PICK ok \in BOOLEAN :
          /\ pc["route"] = "persist" /\ Outcome(ok, "db")
          /\ LET e == Current("route")
             IN  mentions' = IF ok /\ \A m \in mentions : m.text # e.text
                             THEN mentions \cup {[text |-> e.text, brand |-> e.brand]}
                             ELSE mentions
          /\ UNCHANGED <<topics, position, routed>>
    BY <1>10 DEF Persist
  <2>2. ok
    BY <2>1, OutcomeType DEF Kinds, TypeInv
  <2>3. Current("route")' = Current("route")
    BY <2>1 DEF Current, Input, topics
  <2>4. Current("route").text \in Rows' /\ Rows \subseteq Rows'
    BY <2>1, <2>2 DEF Rows
  <2>5. routed' \subseteq Rows'
    BY <1>0, <2>1, <2>4
  <2>6. Current("route")'.text \in Rows'
    BY <2>3, <2>4
  <2> QED BY <2>5, <2>6
<1>11. CASE Mark
  <2>1. /\ pc["route"] = "mark" /\ UNCHANGED mentions /\ pc'["route"] = "poll"
        /\ routed' \subseteq routed \cup {Current("route").text}
    BY <1>0, <1>11 DEF Mark
  <2>2. Rows' = Rows
    BY <2>1 DEF Rows
  <2>3. routed' \subseteq Rows'
    BY <1>0, <2>1, <2>2
  <2> QED BY <2>1, <2>3
<1>12. ASSUME NEW g \in Tasks, NEW i \in DOMAIN outbox[g], Deliver(g, i) \/ DeliveryFails(g, i)
       PROVE  /\ routed' \subseteq Rows'
              /\ pc'["route"] = "mark" => Current("route")'.text \in Rows'
  BY <1>2, <1>12 DEF Deliver, DeliveryFails, stores
<1>13. CASE UNCHANGED vars
  BY <1>2, <1>13 DEF vars, stores
<1> QED BY <1>3, <1>4, <1>5, <1>6, <1>7, <1>8, <1>9, <1>10, <1>11, <1>12, <1>13 DEF Next, Work

\* A text is marked as routed only once its mention is stored, unless the database fails
\* or a time limit strikes.
THEOREM RoutedAlwaysStored == Spec => []RoutedIsStored
<1>1. Init => StoredInv
  BY DEF Init, StoredInv, Groups
<1>2. StoredInv => RoutedIsStored
  BY DEF StoredInv, RoutedIsStored
<1> QED BY <1>1, <1>2, StoredKept, TypesHold, PTL DEF Spec

-------------------------------------------------------------------------------
(* What is polled reaches the topic *)

PolledInv ==
  /\ polling = {} => outbox["produce"] = <<>>
  /\ faults \cap {"crash", "kafka"} = {} =>
       \A e \in emitted : \/ \E i \in DOMAIN raw : raw[i] = e
                          \/ Out("raw", e) \in InOutbox("produce")

LEMMA PolledKept ==
  ASSUME TypeInv, PolledInv, [Next]_vars
  PROVE  PolledInv'
<1>0. /\ "produce" \in Tasks /\ outbox \in [Tasks -> Seq(OutRecord)] /\ "produce" \notin Groups
      /\ Groups \subseteq Tasks
  BY DEF TypeInv, Tasks, Groups
<1>1. ASSUME NEW e, \E i \in DOMAIN raw : raw[i] = e PROVE \E i \in DOMAIN raw' : raw'[i] = e
  <2>1. raw \in Seq(Event) /\ raw' \in Seq(Event)
    BY TypesKept DEF TypeInv, TypeOK
  <2>2. DOMAIN raw = 1..Len(raw) /\ DOMAIN raw' = 1..Len(raw')
    BY <2>1, LenProperties
  <2>3. /\ Len(raw) <= Len(raw') /\ Len(raw) \in Nat /\ Len(raw') \in Nat
        /\ \A j \in 1..Len(raw) : raw'[j] = raw[j]
    BY TopicsGrow
  <2>4. PICK i \in DOMAIN raw : raw[i] = e
    BY <1>1
  <2>5. i \in DOMAIN raw' /\ raw'[i] = e
    BY <2>2, <2>3, <2>4
  <2> QED BY <2>5
<1>2. ASSUME outbox'["produce"] = outbox["produce"], UNCHANGED sources PROVE PolledInv'
  BY <1>1, <1>2, FaultsGrow DEF PolledInv, InOutbox, sources
<1>3. ASSUME NEW b \in Brands, StartPoll(b) PROVE PolledInv'
  BY <1>1, <1>3, FaultsGrow DEF StartPoll, PolledInv, InOutbox
<1>4. ASSUME NEW t \in Texts, NEW b \in polling, b \in Brands, Emit(t, b) PROVE PolledInv'
  <2>1. PICK e : e = [text |-> t, brand |-> b, gen |-> 0]
    OBVIOUS
  <2>2. /\ Produce("produce", <<Out("raw", e)>>) /\ emitted' = emitted \cup {e}
        /\ UNCHANGED <<polling, topics, faults>>
    BY <1>4, <2>1 DEF Emit, history
  <2>3. e \in Event
    BY <1>4, <2>1 DEF Event
  <2>4. /\ outbox'["produce"] = outbox["produce"] \o <<Out("raw", e)>>
        /\ <<Out("raw", e)>> \in Seq(OutRecord)
    BY <1>0, <2>2, <2>3, RecordType, ProduceType
  <2>5. InOutbox("produce")' = InOutbox("produce") \cup {Out("raw", e)}
    BY <1>0, <2>4, ProducedSet
  <2> QED BY <1>4, <2>2, <2>5 DEF PolledInv, topics
<1>5. ASSUME EndPoll PROVE PolledInv'
  <2>1. polling' = {} /\ outbox'["produce"] = <<>> /\ UNCHANGED <<emitted, topics>> /\ Flushed
    BY <1>0, <1>5 DEF EndPoll
  <2>2. ASSUME faults' \cap {"crash", "kafka"} = {} PROVE InOutbox("produce") = {}
    <3>1. outbox["produce"] = <<>>
      BY <2>1, <2>2 DEF Flushed, Outcome, Fault
    <3> QED BY <3>1 DEF InOutbox
  <2> QED BY <2>1, <2>2, FaultsGrow DEF PolledInv, topics
<1>6. ASSUME CrashPoll PROVE PolledInv'
  BY <1>0, <1>6 DEF CrashPoll, Fault, PolledInv
<1>7. ASSUME NEW g \in Groups, Start(g) \/ Finish(g) \/ Crash(g) PROVE PolledInv'
  BY <1>0, <1>2, <1>7 DEF Start, Finish, Crash, DropOutbox
<1>8. ASSUME NEW g \in Groups, SoftLimit(g) PROVE PolledInv'
  BY <1>0, <1>2, <1>8 DEF SoftLimit, Produce
<1>9. ASSUME Work PROVE PolledInv'
  <2>1. UNCHANGED sources /\ (UNCHANGED outbox \/ \E g \in Groups : \E rs : Produce(g, rs))
    BY <1>9, Zenon DEF Work, Dedup, ForwardNew, Enrich, Route, Persist, Mark, Groups
  <2> QED BY <1>0, <1>2, <2>1 DEF Produce
<1>10. ASSUME NEW g \in Groups, NEW i \in DOMAIN outbox[g], Deliver(g, i) \/ DeliveryFails(g, i)
       PROVE  PolledInv'
  BY <1>0, <1>2, <1>10 DEF Deliver, DeliveryFails
<1>11. ASSUME NEW i \in DOMAIN outbox["produce"], Deliver("produce", i) \/ DeliveryFails("produce", i)
       PROVE  PolledInv'
  <2>1. /\ outbox' = [outbox EXCEPT !["produce"] = Without(@, i)] /\ UNCHANGED sources
    BY <1>11 DEF Deliver, DeliveryFails
  <2>2. polling # {}
    <3>1. DOMAIN <<>> = {}
      OBVIOUS
    <3> QED BY <1>11, <3>1 DEF PolledInv
  <2>3. InOutbox("produce") \subseteq InOutbox("produce")' \cup {outbox["produce"][i]}
    BY <1>0, <2>1, LeavesSet
  <2>4. CASE DeliveryFails("produce", i)
    BY <2>1, <2>2, <2>4 DEF DeliveryFails, Fault, PolledInv, sources
  <2>5. CASE Deliver("produce", i)
    <3>1. ASSUME NEW e \in emitted, Out("raw", e) = outbox["produce"][i]
          PROVE  \E j \in DOMAIN raw' : raw'[j] = e
      <4>1. raw' = Append(raw, e)
        BY <2>5, <3>1 DEF Deliver, Out
      <4>2. e \in Event /\ raw \in Seq(Event)
        BY DEF TypeInv, TypeOK
      <4>3. raw' \in Seq(Event) /\ Len(raw') = Len(raw) + 1 /\ Len(raw) \in Nat /\ raw'[Len(raw) + 1] = e
        BY <4>1, <4>2, Appended
      <4>4. Len(raw) + 1 \in DOMAIN raw'
        BY <4>3, LenProperties
      <4> QED BY <4>3, <4>4
    <3> QED BY <1>1, <2>1, <2>2, <2>3, <3>1, FaultsGrow DEF PolledInv, sources
  <2> QED BY <1>11, <2>4, <2>5
<1>12. CASE GuardExpires \/ UNCHANGED vars
  BY <1>2, <1>12 DEF GuardExpires, vars, sources
<1> QED BY <1>3, <1>4, <1>5, <1>6, <1>7, <1>8, <1>9, <1>10, <1>11, <1>12
        DEF Next, FromFeed, FromReddit, FromReviews, Tasks, TypeInv, TypeOK

\* When a run of a producer is over, what it emitted is in the topic, unless the worker or
\* the broker failed.
THEOREM PolledAlwaysRaw == Spec => []PolledIsRaw
<1>1. Init => PolledInv
  BY DEF Init, PolledInv, Tasks
<1>2. PolledInv => PolledIsRaw
  <2> SUFFICES ASSUME PolledInv, polling = {}, faults \cap {"crash", "kafka"} = {},
                      NEW e \in emitted
               PROVE  \E i \in DOMAIN raw : raw[i] = e
    BY DEF PolledIsRaw
  <2>1. InOutbox("produce") = {}
    BY DEF PolledInv, InOutbox
  <2> QED BY <2>1 DEF PolledInv
<1> QED BY <1>1, <1>2, PolledKept, TypesHold, PTL DEF Spec

-------------------------------------------------------------------------------
(* How often a sequence holds a member of a set *)

None(s, V) == \A i \in DOMAIN s : s[i] \notin V
Single(s, V) == \A i, j \in DOMAIN s : s[i] \in V /\ s[j] \in V => i = j

\* Never twice in two sequences together.
Once(s, V, t, W) == Single(s, V) /\ Single(t, W) /\ (None(s, V) \/ None(t, W))

LEMMA NoneIsSingle ==
  ASSUME NEW s, NEW V, None(s, V)
  PROVE  Single(s, V)
BY DEF None, Single

LEMMA ConcatOnce ==
  ASSUME NEW S, NEW s \in Seq(S), NEW t \in Seq(S), NEW V
  PROVE  /\ None(s, V) /\ None(t, V) => None(s \o t, V)
         /\ Single(s, V) /\ None(t, V) => Single(s \o t, V)
         /\ None(s, V) /\ Single(t, V) => Single(s \o t, V)
         /\ None(s \o t, V) => None(s, V) /\ None(t, V)
<1> DEFINE u == s \o t
<1>1. /\ u \in Seq(S) /\ Len(u) = Len(s) + Len(t) /\ Len(s) \in Nat /\ Len(t) \in Nat
      /\ \A i \in 1..Len(s) : u[i] = s[i]
      /\ \A i \in 1..Len(t) : u[Len(s) + i] = t[i]
  BY Concatenated
<1>2. DOMAIN u = 1..(Len(s) + Len(t)) /\ DOMAIN s = 1..Len(s) /\ DOMAIN t = 1..Len(t)
  BY <1>1, LenProperties
<1> HIDE DEF u
<1>3. ASSUME NEW i \in DOMAIN u
      PROVE  (i \in DOMAIN s /\ u[i] = s[i]) \/ (i - Len(s) \in DOMAIN t /\ u[i] = t[i - Len(s)])
  <2>1. CASE i <= Len(s)
    BY <1>1, <1>2, <2>1
  <2>2. CASE ~(i <= Len(s))
    <3>1. i - Len(s) \in 1..Len(t) /\ Len(s) + (i - Len(s)) = i
      BY <1>1, <1>2, <2>2
    <3> QED BY <1>1, <1>2, <3>1
  <2> QED BY <2>1, <2>2
<1>4. \A i \in DOMAIN s : i \in DOMAIN u
  BY <1>1, <1>2
<1>5. \A i \in DOMAIN t : Len(s) + i \in DOMAIN u
  BY <1>1, <1>2
<1>6. None(s, V) /\ None(t, V) => None(u, V)
  BY <1>3 DEF None
<1>7. None(u, V) => None(s, V) /\ None(t, V)
  BY <1>1, <1>2, <1>4, <1>5 DEF None
<1>8. Single(s, V) /\ None(t, V) => Single(u, V)
  BY <1>3 DEF None, Single
<1>9. ASSUME None(s, V), Single(t, V), NEW i \in DOMAIN u, NEW j \in DOMAIN u, u[i] \in V, u[j] \in V
      PROVE  i = j
  <2>1. /\ i - Len(s) \in DOMAIN t /\ u[i] = t[i - Len(s)]
        /\ j - Len(s) \in DOMAIN t /\ u[j] = t[j - Len(s)]
    BY <1>3, <1>9 DEF None
  <2>2. i - Len(s) = j - Len(s)
    BY <1>9, <2>1 DEF Single
  <2> QED BY <1>1, <1>2, <2>2
<1>10. None(s, V) /\ Single(t, V) => Single(u, V)
  BY <1>9 DEF Single
<1> QED BY <1>6, <1>7, <1>8, <1>10 DEF u

LEMMA WithoutOnce ==
  ASSUME NEW S, NEW s \in Seq(S), NEW i \in DOMAIN s, NEW V
  PROVE  /\ None(s, V) => None(Without(s, i), V)
         /\ Single(s, V) => Single(Without(s, i), V)
         /\ Single(s, V) /\ s[i] \in V => None(Without(s, i), V)
<1> DEFINE t == Without(s, i)
<1>1. /\ DOMAIN t = 1..(Len(s) - 1) /\ DOMAIN s = 1..Len(s) /\ Len(s) \in Nat /\ i \in 1..Len(s)
      /\ \A j \in 1..(Len(s) - 1) : t[j] = IF j < i THEN s[j] ELSE s[j+1]
  BY WithoutShape, LenProperties
<1> HIDE DEF t
<1>2. ASSUME NEW j \in DOMAIN t
      PROVE  (j < i /\ j \in DOMAIN s /\ t[j] = s[j])
             \/ (j >= i /\ j + 1 \in DOMAIN s /\ t[j] = s[j+1])
  BY <1>1
<1>3. None(s, V) => None(t, V)
  BY <1>2 DEF None
<1>4. ASSUME Single(s, V), NEW j \in DOMAIN t, NEW k \in DOMAIN t, t[j] \in V, t[k] \in V
      PROVE  j = k
  <2>1. j \in Int /\ k \in Int /\ i \in Int
    BY <1>1
  <2>2. j = k \/ j = k + 1 \/ j + 1 = k
    BY <1>2, <1>4, <2>1 DEF Single
  <2>3. CASE j < i /\ k < i
    BY <1>2, <1>4, <2>1, <2>3 DEF Single
  <2>4. CASE j >= i /\ k >= i
    <3>1. j + 1 = k + 1
      BY <1>2, <1>4, <2>1, <2>4 DEF Single
    <3> QED BY <2>1, <3>1
  <2>5. CASE j < i /\ k >= i
    <3>1. j = k + 1
      BY <1>2, <1>4, <2>1, <2>5 DEF Single
    <3> QED BY <2>1, <2>5, <3>1
  <2>6. CASE j >= i /\ k < i
    <3>1. j + 1 = k
      BY <1>2, <1>4, <2>1, <2>6 DEF Single
    <3> QED BY <2>1, <2>6, <3>1
  <2> QED BY <2>1, <2>3, <2>4, <2>5, <2>6
<1>5. Single(s, V) => Single(t, V)
  BY <1>4 DEF Single
<1>6. ASSUME Single(s, V), s[i] \in V, NEW j \in DOMAIN t, t[j] \in V PROVE FALSE
  <2>1. \E k \in DOMAIN s : k # i /\ s[k] = t[j]
    BY <1>1, <1>2
  <2> QED BY <1>6, <2>1 DEF Single
<1> QED BY <1>3, <1>5, <1>6 DEF t, None

\* A sequence of one, and of none.
LEMMA OneRecord ==
  ASSUME NEW r, NEW V
  PROVE  /\ Single(<<r>>, V) /\ (None(<<r>>, V) <=> r \notin V)
         /\ None(<<>>, V)
<1>1. DOMAIN <<r>> = {1} /\ <<r>>[1] = r
  OBVIOUS
<1>2. DOMAIN <<>> = {}
  OBVIOUS
<1>3. Single(<<r>>, V)
  BY <1>1 DEF Single
<1>4. None(<<r>>, V) <=> r \notin V
  BY <1>1 DEF None
<1> QED BY <1>2, <1>3, <1>4 DEF None

LEMMA AppendOnce ==
  ASSUME NEW S, NEW s \in Seq(S), NEW e \in S, NEW V
  PROVE  /\ e \notin V => /\ None(s, V) => None(Append(s, e), V)
                          /\ Single(s, V) => Single(Append(s, e), V)
         /\ None(s, V) => Single(Append(s, e), V)
         /\ None(Append(s, e), V) => None(s, V) /\ e \notin V
<1>1. PICK t : t = <<e>>
  OBVIOUS
<1>2. Append(s, e) = s \o t /\ t \in Seq(S)
  BY <1>1, AppendIsConcat
<1>3. Single(t, V) /\ (None(t, V) <=> e \notin V)
  BY <1>1, OneRecord
<1>4. /\ None(s, V) /\ None(t, V) => None(s \o t, V)
      /\ Single(s, V) /\ None(t, V) => Single(s \o t, V)
      /\ None(s, V) /\ Single(t, V) => Single(s \o t, V)
      /\ None(s \o t, V) => None(s, V) /\ None(t, V)
  BY <1>2, ConcatOnce
<1> QED BY <1>2, <1>3, <1>4, Zenon

\* The numbers of places in two sequences.
Places(s, V) == {i \in DOMAIN s : s[i] \in V}

LEMMA OnceCounts ==
  ASSUME NEW S, NEW s \in Seq(S), NEW T, NEW t \in Seq(T), NEW V, NEW W
  PROVE  /\ Once(s, V, t, W) => Cardinality(Places(s, V)) + Cardinality(Places(t, W)) <= 1
         /\ ~None(s, V) \/ ~None(t, W) => Cardinality(Places(s, V)) + Cardinality(Places(t, W)) >= 1
<1>1. ASSUME NEW U, NEW u \in Seq(U), NEW X
      PROVE  /\ Cardinality(Places(u, X)) \in Nat
             /\ Cardinality(Places(u, X)) = 0 <=> None(u, X)
             /\ Single(u, X) => Cardinality(Places(u, X)) <= 1
  <2> DEFINE P == Places(u, X)
  <2>1. IsFiniteSet(P)
    <3>1. P \subseteq 1..Len(u) /\ Len(u) \in Nat
      BY LenProperties DEF Places
    <3>2. PICK n \in Int : n = Len(u)
      BY <3>1
    <3>3. PICK m \in Int : m = 1
      OBVIOUS
    <3>4. IsFiniteSet(m..n)
      BY <3>2, <3>3, FS_Interval
    <3> QED BY <3>1, <3>2, <3>3, <3>4, FS_Subset
  <2>2. Cardinality(P) \in Nat /\ (Cardinality(P) = 0 <=> P = {})
    BY <2>1, FS_CardinalityType, FS_EmptySet
  <2>3. P = {} <=> None(u, X)
    BY DEF Places, None
  <2>4. ASSUME Single(u, X), P # {} PROVE Cardinality(P) = 1
    <3>1. PICK x : x \in P
      BY <2>4
    <3>2. \A y \in P : y = x
      BY <2>4, <3>1 DEF Places, Single
    <3>3. P = {x}
      BY <3>1, <3>2
    <3> HIDE DEF P
    <3> QED BY <3>3, FS_Singleton
  <2> HIDE DEF P
  <2>5. Single(u, X) => Cardinality(P) <= 1
    BY <2>2, <2>4
  <2> QED BY <2>2, <2>3, <2>5 DEF P
<1>2. /\ Cardinality(Places(s, V)) \in Nat
      /\ Cardinality(Places(s, V)) = 0 <=> None(s, V)
      /\ Single(s, V) => Cardinality(Places(s, V)) <= 1
  BY <1>1
<1>3. /\ Cardinality(Places(t, W)) \in Nat
      /\ Cardinality(Places(t, W)) = 0 <=> None(t, W)
      /\ Single(t, W) => Cardinality(Places(t, W)) <= 1
  BY <1>1
<1> QED BY <1>2, <1>3 DEF Once

-------------------------------------------------------------------------------
(* Who sends what *)

Fits(g, x) ==
  /\ g = "produce" => x.topic = "raw" /\ x.event.gen = 0
  /\ g = "dedup" => x.topic \in {"enriched", "dlq"} /\ x.event.gen = 0
  /\ g = "enrich" => x.topic \in {"dlq"} \/ (x.topic = "enriched" /\ x.event.gen > 0)
  /\ g = "route" => x.topic \in {"jobs", "alerts", "dlq"}

Misfits(g) == {x \in OutRecord : ~Fits(g, x)}
Copies == {e \in Event : e.gen # 0}

ShapeInv == None(raw, Copies) /\ \A g \in Tasks : None(outbox[g], Misfits(g))

LEMMA ProduceShape ==
  ASSUME TypeInv, ShapeInv, NEW g \in Tasks, NEW rs \in Seq(OutRecord), Produce(g, rs),
         None(rs, Misfits(g))
  PROVE  \A h \in Tasks : None(outbox'[h], Misfits(h))
<1>1. outbox'[g] = outbox[g] \o rs /\ \A h \in Tasks \ {g} : outbox'[h] = outbox[h]
  BY ProduceType
<1>2. outbox[g] \in Seq(OutRecord) /\ None(outbox[g], Misfits(g))
  BY DEF TypeInv, ShapeInv
<1>3. None(outbox'[g], Misfits(g))
  BY <1>1, <1>2, ConcatOnce
<1> QED BY <1>1, <1>3 DEF ShapeInv

\* The records of routing for a mention.
Routes(e) == <<Out("jobs", e)>> \o IF e.text \in Suspicious THEN <<Out("alerts", e)>> ELSE <<>>

LEMMA RoutesType ==
  ASSUME NEW e \in Event
  PROVE  /\ Routes(e) \in Seq(OutRecord)
         /\ <<Out("jobs", e)>> \in Seq(OutRecord)
         /\ (IF e.text \in Suspicious THEN <<Out("alerts", e)>> ELSE <<>>) \in Seq(OutRecord)
         /\ \A V : Out("jobs", e) \notin V /\ Out("alerts", e) \notin V => None(Routes(e), V)
         /\ \A V : Out("alerts", e) \notin V => Single(Routes(e), V)
<1> DEFINE a == <<Out("jobs", e)>>
           b == IF e.text \in Suspicious THEN <<Out("alerts", e)>> ELSE <<>>
<1>1. a \in Seq(OutRecord) /\ b \in Seq(OutRecord)
  BY RecordType, EmptySeq
<1>2. \A V : /\ Single(a, V)
             /\ Out("jobs", e) \notin V => None(a, V)
             /\ Out("alerts", e) \notin V => None(b, V)
  BY OneRecord
<1> HIDE DEF a, b
<1>3. \A V : /\ None(a, V) /\ None(b, V) => None(a \o b, V)
             /\ Single(a, V) /\ None(b, V) => Single(a \o b, V)
  BY <1>1, ConcatOnce
<1>4. Routes(e) = a \o b
  BY DEF Routes, a, b
<1>5. Routes(e) \in Seq(OutRecord)
  BY <1>1, <1>4, ConcatProperties
<1>6. \A V : Out("jobs", e) \notin V /\ Out("alerts", e) \notin V => None(Routes(e), V)
  BY <1>2, <1>3, <1>4
<1>7. \A V : Out("alerts", e) \notin V => Single(Routes(e), V)
  BY <1>2, <1>3, <1>4
<1> QED BY <1>1, <1>5, <1>6, <1>7 DEF a, b

\* The record that enrichment sends for a mention: a copy, or none after the last.
LEMMA RepublishedType ==
  ASSUME NEW e \in Event
  PROVE  /\ Republished(e) \in Seq(OutRecord)
         /\ e.gen = MaxGen => Republished(e) = <<>>
         /\ e.gen # MaxGen =>
              /\ [e EXCEPT !.gen = @ + 1] \in Event
              /\ Republished(e) = <<Out("enriched", [e EXCEPT !.gen = @ + 1])>>
<1>1. ASSUME e.gen # MaxGen PROVE [e EXCEPT !.gen = @ + 1] \in Event
  BY <1>1 DEF Event
<1> QED BY <1>1, EmptySeq, RecordType DEF Republished

\* Deduplication reads what producers wrote.
LEMMA RawIsOriginal ==
  ASSUME TypeInv, ShapeInv, CanPoll("dedup")
  PROVE  Polled("dedup").gen = 0
<1>1. /\ "dedup" \in Groups /\ Polled("dedup") = raw[position["dedup"] + 1]
      /\ raw \in Seq(Event) /\ Input("dedup") = raw
  BY DEF Groups, Polled, Input, TypeInv, TypeOK
<1>2. position["dedup"] + 1 \in DOMAIN raw /\ Polled("dedup") \in Event
  BY <1>1, PolledType, LenProperties
<1> QED BY <1>1, <1>2 DEF ShapeInv, None, Copies

LEMMA ShapeKept ==
  ASSUME TypeInv, ShapeInv, [Next]_vars
  PROVE  ShapeInv'
<1>0. /\ "produce" \in Tasks /\ outbox \in [Tasks -> Seq(OutRecord)] /\ "produce" \notin Groups
      /\ Groups \subseteq Tasks /\ "dedup" \in Groups /\ "enrich" \in Groups /\ "route" \in Groups
  BY DEF TypeInv, Tasks, Groups
<1>1. ASSUME UNCHANGED <<raw, outbox>> PROVE ShapeInv'
  BY <1>1 DEF ShapeInv
<1>2. ASSUME NEW g \in Tasks, outbox' = [outbox EXCEPT ![g] = <<>>], UNCHANGED raw PROVE ShapeInv'
  BY <1>0, <1>2, OneRecord DEF ShapeInv
<1>3. ASSUME NEW g \in Tasks, NEW x, <<x>> \in Seq(OutRecord), Fits(g, x), Produce(g, <<x>>),
             UNCHANGED raw
      PROVE  ShapeInv'
  <2>1. PICK rs : rs = <<x>>
    OBVIOUS
  <2>2. rs \in Seq(OutRecord) /\ Produce(g, rs) /\ None(rs, Misfits(g))
    BY <1>3, <2>1, OneRecord DEF Misfits
  <2>3. \A h \in Tasks : None(outbox'[h], Misfits(h))
    BY <2>2, ProduceShape
  <2> QED BY <1>3, <2>3 DEF ShapeInv
<1>4. CASE \E b \in Brands : StartPoll(b)
  BY <1>1, <1>4 DEF StartPoll, topics
<1>5. ASSUME NEW t \in Texts, NEW b \in Brands, Emit(t, b) PROVE ShapeInv'
  <2>1. PICK e : e = [text |-> t, brand |-> b, gen |-> 0]
    OBVIOUS
  <2>2. e \in Event /\ Produce("produce", <<Out("raw", e)>>) /\ UNCHANGED raw
    BY <1>5, <2>1 DEF Emit, Event, topics
  <2>3. Fits("produce", Out("raw", e))
    BY <2>1 DEF Fits, Out
  <2> QED BY <1>0, <1>3, <2>2, <2>3, RecordType
<1>6. CASE EndPoll \/ CrashPoll
  BY <1>0, <1>2, <1>6 DEF EndPoll, CrashPoll, topics
<1>7. ASSUME NEW g \in Groups, Start(g) \/ Finish(g) \/ Crash(g) PROVE ShapeInv'
  BY <1>0, <1>1, <1>2, <1>7 DEF Start, Finish, Crash, DropOutbox, topics
<1>8. ASSUME NEW g \in Groups, SoftLimit(g) PROVE ShapeInv'
  <2>1. UNCHANGED raw
    BY <1>8 DEF SoftLimit, topics
  <2>2. \E e \in Event : /\ Produce(g, <<Out("dlq", e)>>)
                         /\ g = "dedup" => e.gen = 0
    <3>1. CASE CanPoll(g) /\ Produce(g, <<Out("dlq", Polled(g))>>)
      BY <3>1, PolledType, RawIsOriginal
    <3>2. CASE pc[g] \in {"persist", "mark"} /\ Produce(g, <<Out("dlq", Current(g))>>)
      <4>1. g = "route" /\ Current(g) \in Event
        BY <3>2, CurrentType DEF TypeInv, Working
      <4> QED BY <3>2, <4>1
    <3> QED BY <1>8, <3>1, <3>2 DEF SoftLimit
  <2>3. PICK e \in Event : Produce(g, <<Out("dlq", e)>>) /\ (g = "dedup" => e.gen = 0)
    BY <2>2
  <2>4. Fits(g, Out("dlq", e))
    BY <2>3 DEF Fits, Out, Groups
  <2> QED BY <1>0, <1>3, <2>1, <2>3, <2>4, RecordType
<1>9. CASE Dedup
  <2>1. PICK e : e = Polled("dedup")
    OBVIOUS
  <2>2. /\ UNCHANGED raw /\ CanPoll("dedup")
        /\ UNCHANGED outbox \/ Produce("dedup", <<Out("enriched", e)>>)
    BY <1>9, <2>1 DEF Dedup, ForwardNew, topics
  <2>3. e \in Event /\ e.gen = 0
    BY <1>0, <2>1, <2>2, PolledType, RawIsOriginal
  <2>4. Fits("dedup", Out("enriched", e))
    BY <2>3 DEF Fits, Out
  <2> QED BY <1>0, <1>1, <1>3, <2>2, <2>3, <2>4, RecordType
<1>10. CASE Enrich
  <2>1. PICK e : e = Polled("enrich")
    OBVIOUS
  <2>2. /\ UNCHANGED raw /\ CanPoll("enrich")
        /\ Produce("enrich", Republished(e)) \/ Produce("enrich", <<Out("dlq", e)>>)
    BY <1>10, <2>1 DEF Enrich, topics
  <2>3. e \in Event
    BY <1>0, <2>1, <2>2, PolledType
  <2>4. CASE Produce("enrich", <<Out("dlq", e)>>)
    <3>1. Fits("enrich", Out("dlq", e))
      BY DEF Fits, Out
    <3> QED BY <1>0, <1>3, <2>2, <2>3, <2>4, <3>1, RecordType
  <2>5. CASE Produce("enrich", Republished(e)) /\ e.gen # MaxGen
    <3>1. PICK c : c = [e EXCEPT !.gen = @ + 1]
      OBVIOUS
    <3>2. c \in Event /\ Republished(e) = <<Out("enriched", c)>>
      BY <2>3, <2>5, <3>1, RepublishedType
    <3>3. c.gen > 0
      BY <2>3, <3>1 DEF Event
    <3>4. Fits("enrich", Out("enriched", c))
      BY <3>3 DEF Fits, Out
    <3> QED BY <1>0, <1>3, <2>2, <2>5, <3>2, <3>4, RecordType
  <2>6. CASE Produce("enrich", Republished(e)) /\ e.gen = MaxGen
    <3>1. PICK rs : rs = <<>>
      OBVIOUS
    <3>2. rs \in Seq(OutRecord) /\ Produce("enrich", rs) /\ None(rs, Misfits("enrich"))
      BY <2>3, <2>6, <3>1, RepublishedType, OneRecord
    <3> QED BY <1>0, <2>2, <3>2, ProduceShape DEF ShapeInv
  <2> QED BY <2>2, <2>4, <2>5, <2>6
<1>11. CASE Route
  <2>1. PICK e : e = Polled("route")
    OBVIOUS
  <2>2. /\ UNCHANGED raw /\ CanPoll("route")
        /\ UNCHANGED outbox \/ Produce("route", Routes(e))
    BY <1>11, <2>1 DEF Route, Routes, topics
  <2>3. e \in Event
    BY <1>0, <2>1, <2>2, PolledType
  <2>4. Fits("route", Out("jobs", e)) /\ Fits("route", Out("alerts", e))
    BY DEF Fits, Out
  <2>5. Routes(e) \in Seq(OutRecord) /\ None(Routes(e), Misfits("route"))
    BY <2>3, <2>4, RoutesType DEF Misfits
  <2>6. CASE Produce("route", Routes(e))
    BY <1>0, <2>2, <2>5, <2>6, ProduceShape DEF ShapeInv
  <2> QED BY <1>1, <2>2, <2>6
<1>12. CASE Persist \/ Mark \/ GuardExpires
  BY <1>1, <1>12 DEF Persist, Mark, GuardExpires, topics
<1>13. ASSUME NEW g \in Tasks, NEW i \in DOMAIN outbox[g], Deliver(g, i) \/ DeliveryFails(g, i)
       PROVE  ShapeInv'
  <2>1. /\ outbox'[g] = Without(outbox[g], i) /\ \A h \in Tasks \ {g} : outbox'[h] = outbox[h]
        /\ outbox[g] \in Seq(OutRecord)
    BY <1>0, <1>13 DEF Deliver, DeliveryFails
  <2>2. \A h \in Tasks : None(outbox'[h], Misfits(h))
    BY <2>1, WithoutOnce DEF ShapeInv
  <2>3. None(raw', Copies)
    <3>1. CASE raw' = raw
      BY <3>1 DEF ShapeInv
    <3>2. CASE Deliver(g, i) /\ outbox[g][i].topic = "raw"
      <4>1. PICK r : r = outbox[g][i]
        OBVIOUS
      <4>2. r \in OutRecord /\ r \notin Misfits(g) /\ r.topic = "raw"
        BY <3>2, <4>1, <2>1, LenProperties, ElementOfSeq DEF ShapeInv, None
      <4>3. r.event \in Event /\ r.event.gen = 0
        BY <4>2 DEF Misfits, Fits, Tasks, Groups, OutRecord
      <4>4. raw' = Append(raw, r.event) /\ raw \in Seq(Event)
        BY <3>2, <4>1 DEF Deliver, TypeInv, TypeOK
      <4>5. PICK e \in Event : e = r.event /\ e \notin Copies
        BY <4>3 DEF Copies
      <4> QED BY <4>4, <4>5, AppendOnce DEF ShapeInv
    <3> QED BY <1>13, <3>1, <3>2 DEF Deliver, DeliveryFails, topics
  <2> QED BY <2>2, <2>3 DEF ShapeInv
<1>14. CASE UNCHANGED vars
  BY <1>1, <1>14 DEF vars, topics
<1> QED BY <1>4, <1>5, <1>6, <1>7, <1>8, <1>9, <1>10, <1>11, <1>12, <1>13, <1>14
        DEF Next, Work, FromFeed, FromReddit, FromReviews, TypeInv, TypeOK

LEMMA ShapeHolds == Spec => []ShapeInv
<1>1. Init => ShapeInv
  <2> SUFFICES ASSUME Init PROVE ShapeInv
    OBVIOUS
  <2>1. raw = <<>> /\ \A g \in Tasks : outbox[g] = <<>>
    BY DEF Init
  <2>2. \A V : None(<<>>, V)
    BY OneRecord
  <2> QED BY <2>1, <2>2 DEF ShapeInv
<1> QED BY <1>1, ShapeKept, TypesHold, PTL DEF Spec

-------------------------------------------------------------------------------
(* A text enters the pipeline once *)

Entered(t) == {e \in Event : e.text = t /\ e.gen = 0}
Sent(t) == {x \in OutRecord : x.topic = "enriched" /\ x.event.text = t}

ForwardInv ==
  "redis" \notin faults =>
    \A t \in Texts :
      /\ Once(enriched, Entered(t), outbox["dedup"], Sent(t))
      /\ t \notin seen => None(enriched, Entered(t)) /\ None(outbox["dedup"], Sent(t))

\* Two sequences that never hold a member twice still do not when one loses all its
\* records, or one, or hands one over to the other.
LEMMA OnceLess ==
  ASSUME NEW S, NEW s \in Seq(S), NEW T, NEW t \in Seq(T), NEW V, NEW W, Once(s, V, t, W)
  PROVE  /\ Once(s, V, <<>>, W)
         /\ \A i \in DOMAIN t : Once(s, V, Without(t, i), W)
         /\ \A i \in DOMAIN t : \A e \in S :
              (e \in V => t[i] \in W) => Once(Append(s, e), V, Without(t, i), W)
<1>1. None(<<>>, W) /\ Single(<<>>, W)
  BY OneRecord, NoneIsSingle
<1>2. ASSUME NEW i \in DOMAIN t
      PROVE  /\ None(t, W) => None(Without(t, i), W)
             /\ Single(t, W) => Single(Without(t, i), W)
             /\ Single(t, W) /\ t[i] \in W => None(Without(t, i), W)
  BY WithoutOnce
<1>3. ASSUME NEW e \in S
      PROVE  /\ e \notin V => /\ None(s, V) => None(Append(s, e), V)
                              /\ Single(s, V) => Single(Append(s, e), V)
             /\ None(s, V) => Single(Append(s, e), V)
  BY AppendOnce
<1>4. ASSUME NEW i \in DOMAIN t, NEW e \in S, e \in V => t[i] \in W
      PROVE  Once(Append(s, e), V, Without(t, i), W)
  <2>1. CASE e \notin V
    BY <1>2, <1>3, <2>1 DEF Once
  <2>2. CASE e \in V
    <3>1. t[i] \in W /\ ~None(t, W)
      BY <1>4, <2>2 DEF None
    <3> QED BY <1>2, <1>3, <3>1 DEF Once
  <2> QED BY <2>1, <2>2
<1> QED BY <1>1, <1>2, <1>4 DEF Once

LEMMA ForwardKept ==
  ASSUME TypeInv, ShapeInv, ForwardInv, [Next]_vars
  PROVE  ForwardInv'
<1> SUFFICES ASSUME "redis" \notin faults', NEW t \in Texts
             PROVE  /\ Once(enriched', Entered(t), outbox'["dedup"], Sent(t))
                    /\ t \notin seen' => /\ None(enriched', Entered(t))
                                         /\ None(outbox'["dedup"], Sent(t))
  BY DEF ForwardInv
<1> DEFINE Goal == /\ Once(enriched', Entered(t), outbox'["dedup"], Sent(t))
                   /\ t \notin seen' => /\ None(enriched', Entered(t))
                                        /\ None(outbox'["dedup"], Sent(t))
<1>0. /\ Groups \subseteq Tasks /\ "produce" \notin Groups
      /\ "dedup" \in Groups /\ "enrich" \in Groups /\ "route" \in Groups
      /\ outbox \in [Tasks -> Seq(OutRecord)] /\ outbox["dedup"] \in Seq(OutRecord)
      /\ enriched \in Seq(Event)
      /\ Once(enriched, Entered(t), outbox["dedup"], Sent(t))
      /\ t \notin seen => None(enriched, Entered(t)) /\ None(outbox["dedup"], Sent(t))
  BY FaultsGrow DEF Tasks, Groups, TypeInv, TypeOK, ForwardInv
<1> SUFFICES Goal
  BY DEF Goal
<1> HIDE DEF Goal
<1>1. ASSUME UNCHANGED enriched, outbox'["dedup"] = outbox["dedup"], seen \subseteq seen' PROVE Goal
  BY <1>0, <1>1 DEF Goal
<1>2. ASSUME UNCHANGED <<enriched, seen>>, outbox'["dedup"] = <<>> PROVE Goal
  <2>1. None(<<>>, Sent(t)) /\ Single(<<>>, Sent(t))
    BY OneRecord, NoneIsSingle
  <2> QED BY <1>0, <1>2, <2>1 DEF Goal, Once
<1>3. ASSUME NEW g \in Tasks, NEW rs, Produce(g, rs), g # "dedup", UNCHANGED enriched, seen \subseteq seen'
      PROVE  Goal
  <2>1. outbox'["dedup"] = outbox["dedup"]
    BY <1>0, <1>3 DEF Produce
  <2> QED BY <1>1, <1>3, <2>1
<1>4. CASE \E b \in Brands : StartPoll(b)
  BY <1>1, <1>4 DEF StartPoll, topics, stores
<1>5. ASSUME NEW x \in Texts, NEW b \in Brands, Emit(x, b) PROVE Goal
  BY <1>0, <1>3, <1>5 DEF Emit, topics, stores, Tasks
<1>6. CASE EndPoll \/ CrashPoll
  <2>1. outbox'["dedup"] = outbox["dedup"] /\ UNCHANGED <<enriched, seen>>
    BY <1>0, <1>6 DEF EndPoll, CrashPoll, topics, stores
  <2> QED BY <1>1, <2>1
<1>7. ASSUME NEW g \in Groups, Start(g) \/ Finish(g) \/ Crash(g) PROVE Goal
  <2>1. UNCHANGED <<enriched, seen>> /\ (outbox' = outbox \/ outbox' = [outbox EXCEPT ![g] = <<>>])
    BY <1>7 DEF Start, Finish, Crash, DropOutbox, topics, stores
  <2>2. outbox'["dedup"] = outbox["dedup"] \/ outbox'["dedup"] = <<>>
    BY <1>0, <2>1
  <2> QED BY <1>1, <1>2, <2>1, <2>2
<1>8. ASSUME NEW g \in Groups, SoftLimit(g) PROVE Goal
  <2>1. UNCHANGED enriched /\ seen \subseteq seen'
    BY <1>8 DEF SoftLimit, topics
  <2>2. \E e \in Event : Produce(g, <<Out("dlq", e)>>)
    <3>1. CASE CanPoll(g) /\ Produce(g, <<Out("dlq", Polled(g))>>)
      BY <3>1, PolledType
    <3>2. CASE pc[g] \in {"persist", "mark"} /\ Produce(g, <<Out("dlq", Current(g))>>)
      <4>1. g = "route" /\ Current(g) \in Event
        BY <3>2, CurrentType DEF TypeInv, Working
      <4> QED BY <3>2, <4>1
    <3> QED BY <1>8, <3>1, <3>2 DEF SoftLimit
  <2>3. PICK e \in Event : Produce(g, <<Out("dlq", e)>>)
    BY <2>2
  <2>4. CASE g = "dedup"
    <3>1. PICK rs : rs = <<Out("dlq", e)>>
      OBVIOUS
    <3>2. rs \in Seq(OutRecord) /\ None(rs, Sent(t))
      BY <3>1, RecordType, OneRecord DEF Sent, Out
    <3>3. outbox'["dedup"] = outbox["dedup"] \o rs
      BY <1>0, <2>3, <2>4, <3>1, <3>2, ProduceType
    <3> QED BY <1>0, <2>1, <3>2, <3>3, ConcatOnce DEF Goal, Once
  <2> QED BY <1>0, <1>3, <2>1, <2>3, <2>4
<1>9. CASE Dedup
  <2>1. PICK e : e = Polled("dedup")
    OBVIOUS
  <2>2. PICK ok \in BOOLEAN :
          /\ UNCHANGED enriched /\ CanPoll("dedup") /\ Outcome(ok, "redis")
          /\ seen' = IF ok THEN seen \cup {e.text} ELSE seen
          /\ IF ok /\ e.text \in seen
             THEN UNCHANGED outbox ELSE Produce("dedup", <<Out("enriched", e)>>)
    BY <1>9, <2>1 DEF Dedup, ForwardNew, topics
  <2>3. ok
    BY <2>2, OutcomeType DEF Kinds, TypeInv
  <2>4. e \in Event
    BY <1>0, <2>1, <2>2, PolledType
  <2>5. CASE e.text \in seen
    BY <1>1, <2>2, <2>3, <2>5
  <2>6. CASE e.text \notin seen
    <3>1. PICK rs : rs = <<Out("enriched", e)>>
      OBVIOUS
    <3>2. rs \in Seq(OutRecord) /\ Single(rs, Sent(t)) /\ (e.text # t => None(rs, Sent(t)))
      BY <2>4, <3>1, RecordType, OneRecord DEF Sent, Out
    <3>3. outbox'["dedup"] = outbox["dedup"] \o rs
      BY <1>0, <2>2, <2>6, <3>1, <3>2, ProduceType
    <3>4. CASE e.text # t
      BY <1>0, <2>2, <2>3, <3>2, <3>3, <3>4, ConcatOnce DEF Goal, Once
    <3>5. CASE e.text = t
      BY <1>0, <2>2, <2>3, <2>6, <3>2, <3>3, <3>5, ConcatOnce DEF Goal, Once
    <3> QED BY <3>4, <3>5
  <2> QED BY <2>5, <2>6
<1>10. CASE Enrich
  <2>1. UNCHANGED <<enriched, seen>> /\ \E rs : Produce("enrich", rs)
    BY <1>10 DEF Enrich, topics, stores
  <2> QED BY <1>0, <1>3, <2>1
<1>11. CASE Route
  <2>1. UNCHANGED <<enriched, seen>> /\ (UNCHANGED outbox \/ \E rs : Produce("route", rs))
    BY <1>11, Zenon DEF Route, topics, stores
  <2> QED BY <1>0, <1>1, <1>3, <2>1
<1>12. CASE Persist \/ Mark \/ GuardExpires
  BY <1>1, <1>12 DEF Persist, Mark, GuardExpires, topics
<1>13. ASSUME NEW g \in Tasks, NEW i \in DOMAIN outbox[g], Deliver(g, i) PROVE Goal
  <2>1. PICK r : r = outbox[g][i]
    OBVIOUS
  <2>2. /\ outbox'[g] = Without(outbox[g], i) /\ \A h \in Tasks \ {g} : outbox'[h] = outbox[h]
        /\ UNCHANGED seen
        /\ enriched' = IF r.topic = "enriched" THEN Append(enriched, r.event) ELSE enriched
    BY <1>0, <1>13, <2>1 DEF Deliver, stores
  <2>3. r \in OutRecord /\ r \notin Misfits(g)
    BY <1>0, <2>1, LenProperties, ElementOfSeq DEF ShapeInv, None
  <2>4. r.event \in Event /\ Fits(g, r)
    BY <2>3 DEF OutRecord, Misfits
  <2>5. CASE g = "dedup"
    <3>1. r.event \in Entered(t) /\ r.topic = "enriched" => r \in Sent(t)
      BY <2>3 DEF Entered, Sent
    <3>2. None(outbox["dedup"], Sent(t)) => None(outbox'["dedup"], Sent(t)) /\ r \notin Sent(t)
      BY <1>0, <1>13, <2>1, <2>2, <2>5, WithoutOnce DEF None
    <3>3. CASE r.topic # "enriched"
      BY <1>0, <1>13, <2>2, <2>5, <3>2, <3>3, OnceLess DEF Goal
    <3>4. CASE r.topic = "enriched"
      <4>1. PICK e \in Event : e = r.event
        BY <2>4
      <4>2. enriched' = Append(enriched, e) /\ (e \in Entered(t) => outbox["dedup"][i] \in Sent(t))
        BY <2>1, <2>2, <2>5, <3>1, <3>4, <4>1
      <4>3. Once(enriched', Entered(t), outbox'["dedup"], Sent(t))
        BY <1>0, <1>13, <2>2, <2>5, <4>2, OnceLess
      <4>4. t \notin seen => None(enriched', Entered(t))
        BY <1>0, <3>1, <3>2, <3>4, <4>1, <4>2, AppendOnce
      <4> QED BY <1>0, <2>2, <3>2, <4>3, <4>4 DEF Goal
    <3> QED BY <3>3, <3>4
  <2>6. CASE g # "dedup"
    <3>1. outbox'["dedup"] = outbox["dedup"]
      BY <1>0, <2>2, <2>6
    <3>2. CASE r.topic # "enriched"
      BY <1>1, <2>2, <3>1, <3>2
    <3>3. CASE r.topic = "enriched"
      <4>1. PICK e \in Event : e = r.event
        BY <2>4
      <4>2. g = "enrich" /\ e.gen > 0 /\ e \notin Entered(t)
        BY <2>4, <2>6, <3>3, <4>1 DEF Fits, Tasks, Groups, Entered
      <4> QED BY <1>0, <2>2, <3>1, <3>3, <4>1, <4>2, AppendOnce DEF Goal, Once
    <3> QED BY <3>2, <3>3
  <2> QED BY <2>5, <2>6
<1>14. ASSUME NEW g \in Tasks, NEW i \in DOMAIN outbox[g], DeliveryFails(g, i) PROVE Goal
  <2>1. /\ outbox'[g] = Without(outbox[g], i) /\ \A h \in Tasks \ {g} : outbox'[h] = outbox[h]
        /\ UNCHANGED <<enriched, seen>>
    BY <1>0, <1>14 DEF DeliveryFails, topics, stores
  <2>2. CASE g = "dedup"
    BY <1>0, <1>14, <2>1, <2>2, OnceLess, WithoutOnce DEF Goal
  <2>3. CASE g # "dedup"
    BY <1>0, <1>1, <2>1, <2>3
  <2> QED BY <2>2, <2>3
<1>15. CASE UNCHANGED vars
  BY <1>1, <1>15 DEF vars, topics, stores
<1> QED
  BY <1>4, <1>5, <1>6, <1>7, <1>8, <1>9, <1>10, <1>11, <1>12, <1>13, <1>14, <1>15
     DEF Next, Work, FromFeed, FromReddit, FromReviews, TypeInv, TypeOK

LEMMA ForwardPlaces ==
  ASSUME enriched \in Seq(Event), outbox["dedup"] \in Seq(OutRecord), NEW t \in Texts
  PROVE  Forwards(t) = Cardinality(Places(enriched, Entered(t)))
                       + Cardinality(Places(outbox["dedup"], Sent(t)))
<1>1. Places(enriched, Entered(t)) =
        {i \in DOMAIN enriched : enriched[i].text = t /\ enriched[i].gen = 0}
  BY LenProperties, ElementOfSeq DEF Places, Entered
<1>2. Places(outbox["dedup"], Sent(t)) =
        {i \in DOMAIN outbox["dedup"] : /\ outbox["dedup"][i].topic = "enriched"
                                        /\ outbox["dedup"][i].event.text = t}
  BY LenProperties, ElementOfSeq DEF Places, Sent
<1> QED BY <1>1, <1>2 DEF Forwards

\* As long as Redis answers a text is handed to enrichment at most once.
THEOREM ForwardedAtMostOnce == Spec => []ForwardedOnce
<1>1. Init => ForwardInv
  <2> SUFFICES ASSUME Init PROVE ForwardInv
    OBVIOUS
  <2>1. enriched = <<>> /\ outbox["dedup"] = <<>>
    BY DEF Init, Tasks, Groups
  <2>2. \A V : None(<<>>, V) /\ Single(<<>>, V)
    BY OneRecord, NoneIsSingle
  <2> QED BY <2>1, <2>2 DEF ForwardInv, Once
<1>2. TypeInv /\ ForwardInv => ForwardedOnce
  <2> SUFFICES ASSUME TypeInv, ForwardInv, "redis" \notin faults, NEW t \in Texts
               PROVE  Forwards(t) <= 1
    BY DEF ForwardedOnce
  <2>1. enriched \in Seq(Event) /\ outbox["dedup"] \in Seq(OutRecord)
    BY DEF TypeInv, TypeOK, Tasks, Groups
  <2>2. Cardinality(Places(enriched, Entered(t))) + Cardinality(Places(outbox["dedup"], Sent(t))) <= 1
    BY <2>1, OnceCounts DEF ForwardInv
  <2> QED BY <2>1, <2>2, ForwardPlaces
<1> QED BY <1>1, <1>2, ForwardKept, TypesHold, ShapeHolds, PTL DEF Spec

-------------------------------------------------------------------------------
(* A mention has one embedding job *)

Asked(t) == {x \in OutRecord : x.topic = "jobs" /\ x.event.text = t}

\* Routing is between the job for a text and the guard key.
Handling(t) == pc["route"] \in {"persist", "mark"} /\ Current("route").text = t

JobInv ==
  faults = {} =>
    \A t \in Texts :
      /\ Once(jobs, {t}, outbox["route"], Asked(t))
      /\ \/ t \in routed \/ Handling(t)
         \/ None(jobs, {t}) /\ None(outbox["route"], Asked(t))

LEMMA JobKept ==
  ASSUME TypeInv, ShapeInv, JobInv, [Next]_vars
  PROVE  JobInv'
<1> SUFFICES ASSUME faults' = {}, NEW t \in Texts
             PROVE  /\ Once(jobs', {t}, outbox'["route"], Asked(t))
                    /\ \/ t \in routed' \/ Handling(t)'
                       \/ None(jobs', {t}) /\ None(outbox'["route"], Asked(t))
  BY DEF JobInv
<1> DEFINE Goal == /\ Once(jobs', {t}, outbox'["route"], Asked(t))
                   /\ \/ t \in routed' \/ Handling(t)'
                      \/ None(jobs', {t}) /\ None(outbox'["route"], Asked(t))
<1> SUFFICES Goal
  BY DEF Goal
<1> HIDE DEF Goal
<1>0. /\ Groups \subseteq Tasks /\ "produce" \notin Groups
      /\ "dedup" \in Groups /\ "enrich" \in Groups /\ "route" \in Groups
      /\ outbox \in [Tasks -> Seq(OutRecord)] /\ outbox["route"] \in Seq(OutRecord)
      /\ jobs \in Seq(Texts) /\ pc \in [Groups -> {"off", "poll", "persist", "mark"}]
      /\ position \in [Groups -> Nat]
      /\ Once(jobs, {t}, outbox["route"], Asked(t))
      /\ \/ t \in routed \/ Handling(t)
         \/ None(jobs, {t}) /\ None(outbox["route"], Asked(t))
  BY FaultsGrow DEF Tasks, Groups, TypeInv, TypeOK, JobInv
<1>1. \A k \in Kinds : ~Fault(k)
  BY DEF Fault
<1>2. ASSUME pc'["route"] \in {"persist", "mark"}, Handling(t), UNCHANGED position
      PROVE  Handling(t)'
  <2>1. Current("route")' = Current("route")
    BY <1>2, CurrentType, TopicsGrow DEF Handling, Current, Input
  <2> QED BY <1>2, <2>1 DEF Handling
<1>3. ASSUME pc'["route"] = pc["route"], position'["route"] = position["route"]
      PROVE  Handling(t) => Handling(t)'
  <2> SUFFICES ASSUME Handling(t) PROVE Handling(t)'
    OBVIOUS
  <2>1. Current("route")' = Current("route")
    BY <1>3, CurrentType, TopicsGrow DEF Handling, Current, Input
  <2> QED BY <1>3, <2>1 DEF Handling
<1>4. ASSUME UNCHANGED <<jobs, routed>>, outbox'["route"] = outbox["route"],
             pc'["route"] = pc["route"], position'["route"] = position["route"]
      PROVE  Goal
  BY <1>0, <1>3, <1>4 DEF Goal
<1>5. CASE \E b \in Brands : StartPoll(b)
  BY <1>4, <1>5 DEF StartPoll, topics, stores
<1>6. ASSUME NEW x \in Texts, NEW b \in Brands, Emit(x, b) PROVE Goal
  BY <1>0, <1>4, <1>6 DEF Emit, Produce, topics, stores, Tasks
<1>7. CASE EndPoll
  BY <1>0, <1>4, <1>7 DEF EndPoll, topics, stores
<1>8. CASE CrashPoll \/ GuardExpires \/ \E g \in Groups : Crash(g) \/ SoftLimit(g)
  BY <1>1, <1>8 DEF CrashPoll, GuardExpires, Crash, SoftLimit, Kinds
<1>9. ASSUME NEW g \in Groups, Start(g) \/ Finish(g) PROVE Goal
  <2>1. /\ UNCHANGED <<jobs, routed, position>>
        /\ \A h \in Groups \ {g} : pc'[h] = pc[h]
        /\ outbox' = outbox \/ (Finish(g) /\ outbox' = [outbox EXCEPT ![g] = <<>>])
    BY <1>0, <1>9 DEF Start, Finish, DropOutbox, topics, stores
  <2>2. CASE g # "route"
    <3>1. outbox'["route"] = outbox["route"]
      BY <1>0, <2>1, <2>2
    <3> QED BY <1>0, <1>4, <2>1, <2>2, <3>1
  <2>3. CASE g = "route"
    <3>1. ~Handling(t)
      BY <1>0, <1>9, <2>3 DEF Start, Finish, Handling
    <3>2. outbox'["route"] = outbox["route"] \/ outbox'["route"] = <<>>
      BY <1>0, <2>1, <2>3
    <3>3. None(<<>>, Asked(t)) /\ Single(<<>>, Asked(t))
      BY <1>0, OneRecord, NoneIsSingle
    <3>4. Once(jobs', {t}, outbox'["route"], Asked(t))
      BY <1>0, <2>1, <3>2, <3>3 DEF Once
    <3> QED BY <1>0, <2>1, <3>1, <3>2, <3>3, <3>4 DEF Goal
  <2> QED BY <2>2, <2>3
<1>10. CASE Dedup \/ Enrich
  <2>1. /\ UNCHANGED <<jobs, routed, pc>> /\ position'["route"] = position["route"]
        /\ outbox'["route"] = outbox["route"]
    BY <1>0, <1>10 DEF Dedup, ForwardNew, Enrich, Produce, Advance, topics, stores
  <2> QED BY <1>4, <2>1
<1>11. CASE Route
  <2>1. PICK e : e = Polled("route")
    OBVIOUS
  <2>2. PICK ok \in BOOLEAN :
          /\ UNCHANGED <<topics, routed>> /\ CanPoll("route") /\ Outcome(ok, "redis")
          /\ Advance("route")
          /\ IF Skips(e, ok) THEN UNCHANGED <<pc, outbox>>
             ELSE Produce("route", Routes(e)) /\ pc' = [pc EXCEPT !["route"] = "persist"]
    BY <1>11, <2>1 DEF Route, Routes, stores
  <2>3. ok
    BY <1>1, <2>2 DEF Outcome, Kinds
  <2>4. /\ e \in Event /\ ~Handling(t) /\ pc["route"] = "poll"
        /\ position["route"] + 1 \in 1..Len(Input("route"))
    BY <1>0, <2>1, <2>2, PolledType DEF Handling
  <2>5. CASE Skips(e, ok)
    BY <1>0, <2>2, <2>4, <2>5 DEF Goal, topics
  <2>6. CASE ~Skips(e, ok)
    <3>1. e.text \notin routed
      BY <2>3, <2>6 DEF Skips
    <3>2. /\ Routes(e) \in Seq(OutRecord) /\ Single(Routes(e), Asked(t))
          /\ e.text # t => None(Routes(e), Asked(t))
      BY <2>4, RoutesType DEF Asked, Out
    <3>3. outbox'["route"] = outbox["route"] \o Routes(e)
      BY <1>0, <2>2, <2>6, <3>2, ProduceType
    <3>4. /\ pc'["route"] = "persist" /\ position'["route"] = position["route"] + 1
          /\ UNCHANGED enriched
      BY <1>0, <2>2, <2>6 DEF Advance, topics
    <3>5. Current("route")' = e
      BY <2>1, <3>4 DEF Current, Polled, Input
    <3>6. CASE e.text = t
      <4>1. Handling(t)'
        BY <3>4, <3>5, <3>6 DEF Handling
      <4>2. None(jobs, {t}) /\ None(outbox["route"], Asked(t))
        BY <1>0, <2>4, <3>1, <3>6
      <4>3. Single(outbox'["route"], Asked(t)) /\ jobs' = jobs
        BY <1>0, <2>2, <3>2, <3>3, <4>2, ConcatOnce DEF topics
      <4> QED BY <4>1, <4>2, <4>3, NoneIsSingle DEF Goal, Once
    <3>7. CASE e.text # t
      <4>1. /\ None(outbox["route"], Asked(t)) => None(outbox'["route"], Asked(t))
            /\ Single(outbox["route"], Asked(t)) => Single(outbox'["route"], Asked(t))
        BY <1>0, <3>2, <3>3, <3>7, ConcatOnce
      <4> QED BY <1>0, <2>2, <2>4, <4>1 DEF Goal, Once, topics
    <3> QED BY <3>6, <3>7
  <2> QED BY <2>5, <2>6
<1>12. CASE Persist
  <2>1. UNCHANGED <<jobs, outbox, position, routed>> /\ pc'["route"] = "mark"
    BY <1>0, <1>12 DEF Persist, topics
  <2> QED BY <1>0, <1>2, <2>1 DEF Goal
<1>13. CASE Mark
  <2>1. /\ UNCHANGED <<jobs, outbox, position>>
        /\ routed' = routed \cup {Current("route").text}
    BY <1>1, <1>13 DEF Mark, Outcome, Kinds, topics
  <2>2. Handling(t) => t \in routed'
    BY <2>1 DEF Handling
  <2> QED BY <1>0, <2>1, <2>2 DEF Goal
<1>14. ASSUME NEW g \in Tasks, NEW i \in DOMAIN outbox[g], Deliver(g, i) PROVE Goal
  <2>1. PICK r : r = outbox[g][i]
    OBVIOUS
  <2>2. /\ outbox'[g] = Without(outbox[g], i) /\ \A h \in Tasks \ {g} : outbox'[h] = outbox[h]
        /\ UNCHANGED <<routed, pc, position>>
        /\ jobs' = IF r.topic = "jobs" THEN Append(jobs, r.event.text) ELSE jobs
    BY <1>0, <1>14, <2>1 DEF Deliver, stores
  <2>3. r \in OutRecord /\ r \notin Misfits(g)
    BY <1>0, <2>1, LenProperties, ElementOfSeq DEF ShapeInv, None
  <2>4. r.event.text \in Texts /\ Fits(g, r)
    BY <2>3 DEF OutRecord, Event, Misfits
  <2>5. CASE g = "route"
    <3>1. None(outbox["route"], Asked(t)) => None(outbox'["route"], Asked(t)) /\ r \notin Asked(t)
      BY <1>0, <1>14, <2>1, <2>2, <2>5, WithoutOnce DEF None
    <3>2. CASE r.topic # "jobs"
      BY <1>0, <1>3, <1>14, <2>2, <2>5, <3>1, <3>2, OnceLess DEF Goal
    <3>3. CASE r.topic = "jobs"
      <4>1. PICK x \in Texts : x = r.event.text
        BY <2>4
      <4>2. jobs' = Append(jobs, x) /\ (x \in {t} => outbox["route"][i] \in Asked(t))
        BY <2>1, <2>2, <2>3, <2>5, <3>3, <4>1 DEF Asked
      <4>3. Once(jobs', {t}, outbox'["route"], Asked(t))
        BY <1>0, <1>14, <2>2, <2>5, <4>2, OnceLess
      <4>4. None(jobs, {t}) /\ None(outbox["route"], Asked(t)) => None(jobs', {t})
        <5>1. r \notin Asked(t) => x \notin {t}
          BY <2>3, <3>3, <4>1 DEF Asked
        <5> QED BY <1>0, <3>1, <4>2, <5>1, AppendOnce
      <4> QED BY <1>0, <1>3, <2>2, <3>1, <4>3, <4>4 DEF Goal
    <3> QED BY <3>2, <3>3
  <2>6. CASE g # "route"
    <3>1. outbox'["route"] = outbox["route"] /\ r.topic # "jobs"
      BY <1>0, <2>2, <2>4, <2>6 DEF Fits, Tasks, Groups
    <3> QED BY <1>4, <2>2, <3>1
  <2> QED BY <2>5, <2>6
<1>15. ASSUME NEW g \in Tasks, NEW i \in DOMAIN outbox[g] PROVE ~DeliveryFails(g, i)
  BY <1>1 DEF DeliveryFails, Kinds
<1>16. CASE UNCHANGED vars
  BY <1>4, <1>16 DEF vars, topics, stores
<1> QED
  BY <1>5, <1>6, <1>7, <1>8, <1>9, <1>10, <1>11, <1>12, <1>13, <1>14, <1>15, <1>16
     DEF Next, Work, FromFeed, FromReddit, FromReviews, TypeInv, TypeOK

\* As long as nothing fails and guard keys live, a text has one embedding job, however many
\* copies of its mention enrichment makes.
THEOREM OneJobEach == Spec => []OneJob
<1>1. Init => JobInv
  <2> SUFFICES ASSUME Init PROVE JobInv
    OBVIOUS
  <2>1. jobs = <<>> /\ outbox["route"] = <<>>
    BY DEF Init, Tasks, Groups
  <2>2. \A V : None(<<>>, V) /\ Single(<<>>, V)
    BY OneRecord, NoneIsSingle
  <2> QED BY <2>1, <2>2 DEF JobInv, Once
<1>2. TypeInv /\ JobInv => OneJob
  <2> SUFFICES ASSUME TypeInv, JobInv, faults = {}, NEW t \in Texts
               PROVE  Jobs(t) <= 1
    BY DEF OneJob
  <2>1. jobs \in Seq(Texts) /\ outbox["route"] \in Seq(OutRecord)
    BY DEF TypeInv, TypeOK, Tasks, Groups
  <2>2. Cardinality(Places(jobs, {t})) + Cardinality(Places(outbox["route"], Asked(t))) <= 1
    BY <2>1, OnceCounts DEF JobInv
  <2>3. Places(jobs, {t}) = {i \in DOMAIN jobs : jobs[i] = t}
    BY DEF Places
  <2>4. Places(outbox["route"], Asked(t)) =
          {i \in DOMAIN outbox["route"] :
             outbox["route"][i].topic = "jobs" /\ outbox["route"][i].event.text = t}
    BY <2>1, LenProperties, ElementOfSeq DEF Places, Asked
  <2> QED BY <2>2, <2>3, <2>4 DEF Jobs
<1> QED BY <1>1, <1>2, JobKept, TypesHold, ShapeHolds, PTL DEF Spec

-------------------------------------------------------------------------------
(* What lies below a committed offset has had its effect *)

\* Nothing was lost and nothing failed, but tasks may have been killed.
Calm == ~lost /\ faults \subseteq {"crash"}

Forwarded(t) == ~None(enriched, Entered(t)) \/ InOutbox("dedup") \cap Sent(t) # {}

Copied(e) ==
  e.gen < MaxGen =>
    \/ e \in dlq \/ Out("dlq", e) \in InOutbox("enrich")
    \/ LET copy == [e EXCEPT !.gen = @ + 1]
       IN  \/ \E j \in DOMAIN enriched : enriched[j] = copy
           \/ Out("enriched", copy) \in InOutbox("enrich")

CommittedFirst == \A g \in Groups : committed[g] <= position[g]

DoneInv ==
  Calm =>
    /\ \A t \in seen : Forwarded(t)
    /\ \A i \in 1..position["dedup"] : raw[i].text \in seen
    /\ \A i \in 1..position["enrich"] : Copied(enriched[i])
    /\ \A i \in 1..position["route"] :
         enriched[i].gen > 0 =>
           enriched[i].text \in Rows \/ (pc["route"] = "persist" /\ i = position["route"])
    /\ \A i \in 1..committed["route"] : enriched[i].gen > 0 => enriched[i].text \in Rows

\* Calm steps follow calm states; they fail at nothing and destroy no record.
LEMMA CalmStep ==
  ASSUME TypeInv, [Next]_vars, Calm'
  PROVE  /\ Calm /\ ~GuardExpires
         /\ \A k \in Kinds \ {"crash"} : ~Fault(k)
         /\ \A g \in Groups : /\ ~SoftLimit(g)
                              /\ Finish(g) \/ Crash(g) => outbox' = outbox
         /\ \A g \in Tasks : \A i \in DOMAIN outbox[g] : ~DeliveryFails(g, i)
<1>0. outbox \in [Tasks -> Seq(OutRecord)] /\ Groups \subseteq Tasks /\ TypeOK
  BY DEF TypeInv, Tasks
<1>1. \A k \in Kinds \ {"crash"} : ~Fault(k)
  BY DEF Fault, Calm
<1>2. ~GuardExpires /\ \A g \in Groups : ~SoftLimit(g)
  BY <1>1 DEF GuardExpires, SoftLimit, Kinds
<1>3. \A g \in Tasks : \A i \in DOMAIN outbox[g] : ~DeliveryFails(g, i)
  BY <1>1 DEF DeliveryFails, Kinds
<1>4. \A g \in Groups : Finish(g) \/ Crash(g) => outbox' = outbox /\ ~lost
  <2> SUFFICES ASSUME NEW g \in Groups, DropOutbox(g) PROVE outbox' = outbox /\ ~lost
    BY DEF Finish, Crash
  <2>1. ~lost /\ outbox[g] = <<>> /\ outbox' = [outbox EXCEPT ![g] = <<>>]
    BY DEF DropOutbox, Calm
  <2> QED BY <1>0, <2>1
<1>5. ~lost
  <2>1. CASE \E g \in Groups : Finish(g) \/ Crash(g)
    BY <1>4, <2>1
  <2>2. CASE UNCHANGED lost
    BY <2>2 DEF Calm
  <2>3. ASSUME NEW t \in Texts, FromFeed(t) \/ FromReddit(t) \/ FromReviews(t)
        PROVE  UNCHANGED lost
    BY <2>3 DEF FromFeed, FromReddit, FromReviews, Emit, history
  <2>4. CASE UNCHANGED vars
    BY <2>2, <2>4 DEF vars, history
  <2>5. ASSUME NEW b \in Brands, StartPoll(b) PROVE UNCHANGED lost
    BY <2>5 DEF StartPoll, history
  <2>6. ASSUME EndPoll \/ CrashPoll \/ Work PROVE UNCHANGED lost
    BY <2>6 DEF EndPoll, CrashPoll, Work, Dedup, Enrich, Route, Persist, Mark
  <2>7. ASSUME NEW g \in Groups, Start(g) PROVE UNCHANGED lost
    BY <2>7 DEF Start, history
  <2>8. ASSUME NEW g \in Tasks, NEW i \in DOMAIN outbox[g], Deliver(g, i) PROVE UNCHANGED lost
    BY <2>8 DEF Deliver, history
  <2> QED BY <1>2, <1>3, <2>1, <2>2, <2>3, <2>4, <2>5, <2>6, <2>7, <2>8 DEF Next
<1> QED BY <1>1, <1>2, <1>3, <1>4, <1>5, FaultsGrow DEF Calm

\* The steps that a calm run has, in the parts the proof tells apart.
LEMMA CalmCases ==
  ASSUME TypeInv, [Next]_vars, Calm'
  PROVE  \/ Dedup \/ Enrich \/ Route \/ Persist \/ Mark
         \/ \E g \in Groups : Start(g) \/ Finish(g) \/ Crash(g)
         \/ \E g \in Tasks : \E i \in DOMAIN outbox[g] : Deliver(g, i)
         \/ /\ UNCHANGED <<committed, position, pc, stores>>
            /\ \A g \in Groups : outbox'[g] = outbox[g]
<1>0. /\ outbox \in [Tasks -> Seq(OutRecord)] /\ "produce" \in Tasks /\ "produce" \notin Groups
      /\ Groups \subseteq Tasks
  BY DEF TypeInv, Tasks, Groups
<1> DEFINE Quiet == /\ UNCHANGED <<committed, position, pc, stores>>
                    /\ \A g \in Groups : outbox'[g] = outbox[g]
<1>1. ASSUME NEW b \in Brands, StartPoll(b) PROVE Quiet
  BY <1>1 DEF StartPoll
<1>2. ASSUME NEW t \in Texts, FromFeed(t) \/ FromReddit(t) \/ FromReviews(t) PROVE Quiet
  BY <1>0, <1>2 DEF FromFeed, FromReddit, FromReviews, Emit, Produce
<1>3. ASSUME EndPoll \/ CrashPoll PROVE Quiet
  BY <1>0, <1>3 DEF EndPoll, CrashPoll
<1>4. ASSUME UNCHANGED vars PROVE Quiet
  BY <1>4 DEF vars, stores
<1> HIDE DEF Quiet
<1>5. \/ Dedup \/ Enrich \/ Route \/ Persist \/ Mark
      \/ \E g \in Groups : Start(g) \/ Finish(g) \/ Crash(g)
      \/ \E g \in Tasks : \E i \in DOMAIN outbox[g] : Deliver(g, i)
      \/ Quiet
  BY <1>1, <1>2, <1>3, <1>4, CalmStep DEF Next, Work
<1> QED BY <1>5 DEF Quiet

LEMMA CommittedFirstKept ==
  ASSUME TypeInv, CommittedFirst, [Next]_vars
  PROVE  CommittedFirst'
<1>0. /\ committed \in [Groups -> Nat] /\ position \in [Groups -> Nat]
      /\ \A g \in Groups : committed[g] <= position[g]
      /\ "dedup" \in Groups /\ "enrich" \in Groups /\ "route" \in Groups
  BY DEF TypeInv, CommittedFirst, Groups
<1>1. ASSUME NEW g \in Groups, Start(g) \/ Finish(g) \/ Crash(g) PROVE CommittedFirst'
  BY <1>0, <1>1 DEF Start, Finish, Crash, CommittedFirst
<1>2. ASSUME NEW g \in Groups, Advance(g), UNCHANGED committed PROVE CommittedFirst'
  BY <1>0, <1>2 DEF Advance, CommittedFirst
<1>3. ASSUME UNCHANGED <<committed, position>> PROVE CommittedFirst'
  BY <1>3 DEF CommittedFirst
<1>4. CASE Dedup \/ Enrich \/ Route
  BY <1>0, <1>2, <1>4 DEF Dedup, Enrich, Route
<1>5. CASE Persist \/ Mark \/ GuardExpires \/ EndPoll \/ CrashPoll \/ UNCHANGED vars
  BY <1>3, <1>5 DEF Persist, Mark, GuardExpires, EndPoll, CrashPoll, vars
<1>6. ASSUME NEW b \in Brands, StartPoll(b) PROVE CommittedFirst'
  BY <1>3, <1>6 DEF StartPoll
<1>7. ASSUME NEW t \in Texts, FromFeed(t) \/ FromReddit(t) \/ FromReviews(t) PROVE CommittedFirst'
  BY <1>3, <1>7 DEF FromFeed, FromReddit, FromReviews, Emit
<1>8. ASSUME NEW g \in Groups, SoftLimit(g) PROVE CommittedFirst'
  BY <1>2, <1>3, <1>8 DEF SoftLimit
<1>9. ASSUME NEW g \in Tasks, NEW i \in DOMAIN outbox[g], Deliver(g, i) \/ DeliveryFails(g, i)
      PROVE  CommittedFirst'
  BY <1>3, <1>9 DEF Deliver, DeliveryFails
<1> QED BY <1>1, <1>4, <1>5, <1>6, <1>7, <1>8, <1>9 DEF Next, Work

\* In a calm step a record stays in its outbox or arrives.
LEMMA StillThere ==
  ASSUME TypeInv, [Next]_vars, Calm'
  PROVE  /\ dlq \subseteq dlq'
         /\ \A e : (\E j \in DOMAIN enriched : enriched[j] = e)
                      => \E j \in DOMAIN enriched' : enriched'[j] = e
         /\ \A g \in Groups : \A x \in InOutbox(g) :
              \/ x \in InOutbox(g)'
              \/ /\ x.topic = "enriched" => \E j \in DOMAIN enriched' : enriched'[j] = x.event
                 /\ x.topic = "dlq" => x.event \in dlq'
<1>0. /\ Groups \subseteq Tasks /\ "dedup" \in Groups /\ "enrich" \in Groups /\ "route" \in Groups
      /\ outbox \in [Tasks -> Seq(OutRecord)] /\ enriched \in Seq(Event) /\ enriched' \in Seq(Event)
  BY TypesKept DEF Tasks, Groups, TypeInv, TypeOK
<1>1. \A e : (\E j \in DOMAIN enriched : enriched[j] = e)
               => \E j \in DOMAIN enriched' : enriched'[j] = e
  <2>1. DOMAIN enriched = 1..Len(enriched) /\ DOMAIN enriched' = 1..Len(enriched')
    BY <1>0, LenProperties
  <2>2. /\ Len(enriched) <= Len(enriched') /\ Len(enriched) \in Nat /\ Len(enriched') \in Nat
        /\ \A j \in 1..Len(enriched) : enriched'[j] = enriched[j]
    BY TopicsGrow
  <2>3. \A j \in DOMAIN enriched : j \in DOMAIN enriched' /\ enriched'[j] = enriched[j]
    BY <2>1, <2>2
  <2> QED BY <2>3
<1>2. dlq \subseteq dlq'
  <2>1. CASE \E g \in Tasks : \E i \in DOMAIN outbox[g] : Deliver(g, i)
    BY <2>1 DEF Deliver
  <2>2. CASE UNCHANGED topics
    BY <2>2 DEF topics
  <2> QED BY <2>1, <2>2, TopicsQuiet
<1> SUFFICES ASSUME NEW g \in Groups, NEW x \in InOutbox(g), x \notin InOutbox(g)'
             PROVE  /\ x.topic = "enriched" => \E j \in DOMAIN enriched' : enriched'[j] = x.event
                    /\ x.topic = "dlq" => x.event \in dlq'
  BY <1>1, <1>2
<1>3. outbox'[g] # outbox[g]
  BY DEF InOutbox
<1>4. ASSUME NEW h \in Groups, NEW rs \in Seq(OutRecord), Produce(h, rs) PROVE FALSE
  <2>1. g = h /\ outbox'[g] = outbox[g] \o rs
    BY <1>0, <1>3, <1>4, ProduceType
  <2>2. PICK i \in DOMAIN outbox[g] : outbox[g][i] = x
    BY DEF InOutbox
  <2>3. i \in DOMAIN outbox'[g] /\ outbox'[g][i] = x
    <3>1. /\ outbox'[g] \in Seq(OutRecord) /\ Len(outbox'[g]) = Len(outbox[g]) + Len(rs)
          /\ Len(outbox[g]) \in Nat /\ Len(rs) \in Nat
          /\ \A j \in 1..Len(outbox[g]) : outbox'[g][j] = outbox[g][j]
      BY <1>0, <2>1, Concatenated
    <3>2. DOMAIN outbox[g] = 1..Len(outbox[g]) /\ DOMAIN outbox'[g] = 1..Len(outbox'[g])
      BY <1>0, <3>1, LenProperties
    <3> QED BY <2>2, <3>1, <3>2
  <2> QED BY <2>3 DEF InOutbox
<1>5. ASSUME Dedup PROVE FALSE
  <2>1. CanPoll("dedup") /\ (UNCHANGED outbox \/ Produce("dedup", <<Out("enriched", Polled("dedup"))>>))
    BY <1>5 DEF Dedup, ForwardNew
  <2> QED BY <1>0, <1>3, <1>4, <2>1, PolledType, RecordType
<1>6. ASSUME Enrich PROVE FALSE
  <2>1. PICK e : e = Polled("enrich")
    OBVIOUS
  <2>2. CanPoll("enrich") /\ (Produce("enrich", Republished(e)) \/ Produce("enrich", <<Out("dlq", e)>>))
    BY <1>6, <2>1 DEF Enrich
  <2> QED BY <1>0, <1>4, <2>1, <2>2, PolledType, RecordType, RepublishedType
<1>7. ASSUME Route PROVE FALSE
  <2>1. PICK e : e = Polled("route")
    OBVIOUS
  <2>2. CanPoll("route") /\ (UNCHANGED outbox \/ Produce("route", Routes(e)))
    BY <1>7, <2>1 DEF Route, Routes
  <2> QED BY <1>0, <1>3, <1>4, <2>1, <2>2, PolledType, RoutesType
<1>8. ASSUME Persist \/ Mark PROVE FALSE
  BY <1>3, <1>8 DEF Persist, Mark
<1>9. ASSUME NEW h \in Groups, Start(h) \/ Finish(h) \/ Crash(h) PROVE FALSE
  BY <1>3, <1>9, CalmStep DEF Start
<1>10. ASSUME NEW h \in Tasks, NEW i \in DOMAIN outbox[h], Deliver(h, i)
       PROVE  /\ x.topic = "enriched" => \E j \in DOMAIN enriched' : enriched'[j] = x.event
              /\ x.topic = "dlq" => x.event \in dlq'
  <2>1. outbox' = [outbox EXCEPT ![h] = Without(@, i)]
    BY <1>10 DEF Deliver
  <2>2. g = h
    BY <1>0, <1>3, <2>1
  <2>3. x = outbox[g][i]
    BY <1>0, <1>10, <2>1, <2>2, LeavesSet
  <2>4. x.topic = "dlq" => x.event \in dlq'
    BY <1>10, <2>2, <2>3 DEF Deliver
  <2>5. ASSUME x.topic = "enriched" PROVE \E j \in DOMAIN enriched' : enriched'[j] = x.event
    <3>1. PICK e : e = x.event
      OBVIOUS
    <3>2. e \in Event
      BY <1>0, <1>10, <2>2, <2>3, <3>1, LeavesType DEF Deliver, OutRecord
    <3>3. enriched' = Append(enriched, e)
      BY <1>10, <2>2, <2>3, <2>5, <3>1 DEF Deliver
    <3>4. /\ Len(enriched') = Len(enriched) + 1 /\ Len(enriched) \in Nat
          /\ enriched'[Len(enriched) + 1] = e
      BY <1>0, <3>2, <3>3, Appended
    <3>5. Len(enriched) + 1 \in DOMAIN enriched'
      BY <1>0, <3>4, LenProperties
    <3> QED BY <3>1, <3>4, <3>5
  <2> QED BY <2>4, <2>5
<1> QED BY <1>3, <1>5, <1>6, <1>7, <1>8, <1>9, <1>10, CalmCases

\* What is there to be found stays so.
LEMMA EffectsStay ==
  ASSUME TypeInv, ShapeInv, [Next]_vars, Calm'
  PROVE  /\ \A t \in Texts : Forwarded(t) => Forwarded(t)'
         /\ \A e \in Event : Copied(e) => Copied(e)'
<1>0. /\ Groups \subseteq Tasks /\ "dedup" \in Groups /\ "enrich" \in Groups
      /\ outbox \in [Tasks -> Seq(OutRecord)] /\ enriched \in Seq(Event) /\ enriched' \in Seq(Event)
  BY TypesKept DEF Tasks, Groups, TypeInv, TypeOK
<1>1. ASSUME NEW t \in Texts, Forwarded(t) PROVE Forwarded(t)'
  <2>1. CASE ~None(enriched, Entered(t))
    <3>1. PICK e \in Entered(t) : \E j \in DOMAIN enriched : enriched[j] = e
      BY <2>1 DEF None
    <3> QED BY <3>1, StillThere DEF None, Forwarded
  <2>2. ASSUME NEW x \in InOutbox("dedup"), x \in Sent(t) PROVE Forwarded(t)'
    <3>1. CASE x \in InOutbox("dedup")'
      BY <2>2, <3>1 DEF Forwarded
    <3>2. CASE \E j \in DOMAIN enriched' : enriched'[j] = x.event
      <4>1. x \in OutRecord /\ x \notin Misfits("dedup") /\ x.topic = "enriched" /\ x.event.text = t
        BY <1>0, <2>2 DEF ShapeInv, None, InOutbox, Sent
      <4>2. x.event \in Entered(t)
        BY <4>1 DEF Misfits, Fits, Entered, OutRecord
      <4> QED BY <3>2, <4>2 DEF None, Forwarded
    <3> QED BY <1>0, <2>2, <3>1, <3>2, StillThere DEF Sent
  <2> QED BY <1>1, <2>1, <2>2 DEF Forwarded
<1>2. ASSUME NEW e \in Event, Copied(e) PROVE Copied(e)'
  <2> SUFFICES ASSUME e.gen < MaxGen PROVE Copied(e)'
    BY DEF Copied
  <2>1. PICK c : c = [e EXCEPT !.gen = @ + 1]
    OBVIOUS
  <2>2. Out("dlq", e).topic = "dlq" /\ Out("dlq", e).event = e
        /\ Out("enriched", c).topic = "enriched" /\ Out("enriched", c).event = c
    BY DEF Out
  <2>3. CASE e \in dlq
    BY <2>3, StillThere DEF Copied
  <2>4. CASE Out("dlq", e) \in InOutbox("enrich")
    BY <1>0, <2>2, <2>4, StillThere DEF Copied
  <2>5. CASE \E j \in DOMAIN enriched : enriched[j] = c
    BY <2>1, <2>5, StillThere DEF Copied
  <2>6. CASE Out("enriched", c) \in InOutbox("enrich")
    BY <1>0, <2>1, <2>2, <2>6, StillThere DEF Copied
  <2> QED BY <1>2, <2>1, <2>3, <2>4, <2>5, <2>6 DEF Copied
<1> QED BY <1>1, <1>2

\* Who moves which position.
LEMMA Moves ==
  ASSUME TypeInv, CommittedFirst, [Next]_vars, Calm'
  PROVE  /\ ~Dedup => seen' = seen /\ position'["dedup"] <= position["dedup"]
         /\ ~Enrich => position'["enrich"] <= position["enrich"]
<1>0. /\ position \in [Groups -> Nat] /\ committed \in [Groups -> Nat]
      /\ \A g \in Groups : committed[g] <= position[g]
      /\ "dedup" \in Groups /\ "enrich" \in Groups /\ "route" \in Groups
  BY DEF TypeInv, CommittedFirst, Groups
<1>1. CASE Dedup
  BY <1>0, <1>1 DEF Dedup, Advance
<1>2. CASE Enrich
  BY <1>0, <1>2 DEF Enrich, Advance, stores
<1>3. CASE Route
  BY <1>0, <1>3 DEF Route, Advance, stores
<1>4. CASE Persist \/ Mark
  BY <1>0, <1>4 DEF Persist, Mark
<1>5. ASSUME NEW g \in Groups, Start(g) \/ Finish(g) \/ Crash(g)
      PROVE  /\ seen' = seen /\ position'["dedup"] <= position["dedup"]
             /\ position'["enrich"] <= position["enrich"]
  BY <1>0, <1>5 DEF Start, Finish, Crash, stores
<1>6. CASE \E g \in Tasks : \E i \in DOMAIN outbox[g] : Deliver(g, i)
  BY <1>0, <1>6 DEF Deliver, stores
<1>7. CASE UNCHANGED <<committed, position, pc, stores>>
  BY <1>0, <1>7 DEF stores
<1> QED BY <1>1, <1>2, <1>3, <1>4, <1>5, <1>6, <1>7, CalmCases

LEMMA RouteDone ==
  ASSUME TypeInv, StoredInv, CommittedFirst, DoneInv, [Next]_vars, Calm'
  PROVE  /\ \A i \in 1..position'["route"] :
              enriched'[i].gen > 0 =>
                enriched'[i].text \in Rows' \/ (pc'["route"] = "persist" /\ i = position'["route"])
         /\ \A i \in 1..committed'["route"] : enriched'[i].gen > 0 => enriched'[i].text \in Rows'
<1> DEFINE Goal ==
      /\ \A i \in 1..position'["route"] :
           enriched'[i].gen > 0 =>
             enriched'[i].text \in Rows' \/ (pc'["route"] = "persist" /\ i = position'["route"])
      /\ \A i \in 1..committed'["route"] : enriched'[i].gen > 0 => enriched'[i].text \in Rows'
<1> SUFFICES Goal
  OBVIOUS
<1> HIDE DEF Goal
<1> DEFINE p == position["route"]
           c == committed["route"]
<1>0. /\ "dedup" \in Groups /\ "enrich" \in Groups /\ "route" \in Groups
      /\ p \in Nat /\ c \in Nat /\ c <= p /\ p \in 0..Len(enriched) /\ Len(enriched) \in Nat
      /\ pc \in [Groups -> {"off", "poll", "persist", "mark"}]
      /\ position \in [Groups -> Nat] /\ committed \in [Groups -> Nat]
  BY LenProperties DEF Groups, TypeInv, TypeOK, CommittedFirst, Input
<1>1. Calm /\ \A k \in Kinds \ {"crash"} : ~Fault(k)
  BY CalmStep
<1>2. /\ \A i \in 1..p : enriched[i].gen > 0 =>
                           enriched[i].text \in Rows \/ (pc["route"] = "persist" /\ i = p)
      /\ \A i \in 1..c : enriched[i].gen > 0 => enriched[i].text \in Rows
      /\ routed \subseteq Rows
  BY <1>1 DEF DoneInv, StoredInv, Calm
<1>3. \A i \in 1..p : enriched'[i] = enriched[i] /\ (i \in 1..c \/ i \in Nat)
  BY <1>0, TopicsGrow
<1>4. \A i \in 1..c : i \in 1..p
  BY <1>0
<1> HIDE DEF p, c
<1>5. ASSUME Rows \subseteq Rows', position'["route"] = p, committed'["route"] = c,
             pc["route"] = "persist" => pc'["route"] = "persist" \/ enriched[p].text \in Rows'
      PROVE  Goal
  BY <1>2, <1>3, <1>4, <1>5 DEF Goal
<1>6. CASE Route
  <2>1. PICK e : e = Polled("route")
    OBVIOUS
  <2>2. PICK ok \in BOOLEAN :
          /\ UNCHANGED <<topics, committed, mentions>> /\ CanPoll("route") /\ Outcome(ok, "redis")
          /\ Advance("route")
          /\ Skips(e, ok) \/ pc' = [pc EXCEPT !["route"] = "persist"]
    BY <1>6, <2>1 DEF Route, stores
  <2>3. /\ pc["route"] = "poll" /\ position'["route"] = p + 1 /\ committed'["route"] = c
        /\ e \in Event /\ e = enriched[p + 1] /\ enriched' = enriched /\ Rows' = Rows
    BY <1>0, <2>1, <2>2, PolledType DEF Advance, Polled, Input, topics, Rows, p, c
  <2>4. Skips(e, ok) => e.gen = 0 \/ e.text \in Rows
    BY <1>2 DEF Skips
  <2>5. pc' = [pc EXCEPT !["route"] = "persist"] => pc'["route"] = "persist"
    BY <1>0
  <2>6. \A i \in 1..(p+1) : i \in 1..p \/ i = p + 1
    BY <1>0
  <2>7. e.gen > 0 => e.text \in Rows \/ pc'["route"] = "persist"
    BY <2>2, <2>3, <2>4, <2>5 DEF Event
  <2> QED BY <1>2, <2>3, <2>6, <2>7 DEF Goal
<1>7. CASE Persist
  <2>1. PICK ok \in BOOLEAN :
          /\ pc["route"] = "persist" /\ Outcome(ok, "db")
          /\ LET e == Current("route")
             IN  mentions' = IF ok /\ \A m \in mentions : m.text # e.text
                             THEN mentions \cup {[text |-> e.text, brand |-> e.brand]}
                             ELSE mentions
          /\ UNCHANGED <<committed, position>>
    BY <1>7 DEF Persist
  <2>2. ok
    BY <1>1, <2>1 DEF Outcome, Kinds
  <2>3. Current("route").text \in Rows' /\ Rows \subseteq Rows'
    BY <2>1, <2>2 DEF Rows
  <2>4. Current("route") = enriched[p]
    BY DEF Current, Input, p
  <2> QED BY <1>5, <2>1, <2>3, <2>4 DEF p, c
<1>8. CASE Mark
  <2>1. pc["route"] = "mark" /\ UNCHANGED <<committed, position, mentions>>
    BY <1>8 DEF Mark
  <2> QED BY <1>5, <2>1 DEF p, c, Rows
<1>9. ASSUME NEW g \in Groups, Start(g) \/ Finish(g) \/ Crash(g) PROVE Goal
  <2>1. Rows' = Rows
    BY <1>9 DEF Start, Finish, Crash, stores, Rows
  <2>2. CASE g # "route" \/ Start(g)
    <3>1. /\ position'["route"] = p /\ committed'["route"] = c
          /\ pc["route"] = "persist" => pc'["route"] = "persist"
      BY <1>0, <1>9, <2>2 DEF Start, Finish, Crash, p, c
    <3> QED BY <1>5, <2>1, <3>1
  <2>3. CASE g = "route" /\ Finish(g)
    <3>1. pc["route"] = "poll" /\ position'["route"] = p /\ committed'["route"] = p
      BY <1>0, <2>3 DEF Finish, p
    <3> QED BY <1>2, <1>3, <2>1, <3>1 DEF Goal
  <2>4. CASE g = "route" /\ Crash(g)
    <3>1. position'["route"] = c /\ committed'["route"] = c
      BY <1>0, <2>4 DEF Crash, c
    <3> QED BY <1>2, <1>3, <1>4, <2>1, <3>1 DEF Goal
  <2> QED BY <1>9, <2>2, <2>3, <2>4
<1>10. CASE Dedup \/ Enrich
  <2>1. /\ UNCHANGED <<mentions, committed, pc>> /\ position'["route"] = p
    BY <1>0, <1>10 DEF Dedup, Enrich, Advance, stores, p
  <2> QED BY <1>5, <2>1 DEF Rows, c
<1>11. CASE \E g \in Tasks : \E i \in DOMAIN outbox[g] : Deliver(g, i)
  BY <1>5, <1>11 DEF Deliver, stores, Rows, p, c
<1>12. CASE UNCHANGED <<committed, position, pc, stores>>
  BY <1>5, <1>12 DEF stores, Rows, p, c
<1> QED BY <1>6, <1>7, <1>8, <1>9, <1>10, <1>11, <1>12, CalmCases

LEMMA DoneKept ==
  ASSUME TypeInv, ShapeInv, StoredInv, CommittedFirst, DoneInv, [Next]_vars
  PROVE  DoneInv'
<1> SUFFICES ASSUME Calm'
             PROVE  /\ \A t \in seen' : Forwarded(t)'
                    /\ \A i \in 1..position'["dedup"] : raw'[i].text \in seen'
                    /\ \A i \in 1..position'["enrich"] : Copied(enriched[i])'
  BY RouteDone DEF DoneInv
<1>0. /\ "dedup" \in Groups /\ "enrich" \in Groups /\ Groups \subseteq Tasks
      /\ position \in [Groups -> Nat] /\ seen \subseteq Texts
      /\ raw \in Seq(Event) /\ enriched \in Seq(Event)
      /\ position["dedup"] \in 0..Len(raw) /\ position["enrich"] \in 0..Len(enriched)
      /\ outbox \in [Tasks -> Seq(OutRecord)]
  BY DEF Groups, Tasks, TypeInv, TypeOK, Input
<1>1. Calm /\ \A k \in Kinds \ {"crash"} : ~Fault(k)
  BY CalmStep
<1>2. /\ \A t \in seen : Forwarded(t)
      /\ \A i \in 1..position["dedup"] : raw[i].text \in seen
      /\ \A i \in 1..position["enrich"] : Copied(enriched[i])
  BY <1>1 DEF DoneInv
<1>3. \A t \in seen : Forwarded(t)'
  BY <1>0, <1>2, EffectsStay
<1>4. \A i \in 1..position["dedup"] : raw'[i] = raw[i]
  BY <1>0, TopicsGrow
<1>5. \A i \in 1..position["enrich"] : enriched'[i] = enriched[i] /\ Copied(enriched[i])'
  <2>1. ASSUME NEW i \in 1..position["enrich"] PROVE i \in 1..Len(enriched) /\ enriched[i] \in Event
    <3>1. i \in 1..Len(enriched)
      BY <1>0, LenProperties
    <3> QED BY <1>0, <3>1, ElementOfSeq
  <2>2. ASSUME NEW i \in 1..position["enrich"]
        PROVE  enriched'[i] = enriched[i]
    BY <2>1, TopicsGrow
  <2>3. ASSUME NEW i \in 1..position["enrich"]
        PROVE  Copied(enriched[i])'
    <3>1. PICK e \in Event : e = enriched[i]
      BY <2>1
    <3>2. Copied(e)'
      BY <1>2, <3>1, EffectsStay
    <3>3. enriched'[i] = e
      BY <2>2, <3>1
    <3> QED BY <3>2, <3>3
  <2> QED BY <2>2, <2>3
<1>6. /\ \A t \in seen' : Forwarded(t)'
      /\ \A i \in 1..position'["dedup"] : raw'[i].text \in seen'
  <2>1. CASE Dedup
    <3>1. PICK e : e = Polled("dedup")
      OBVIOUS
    <3>2. PICK ok \in BOOLEAN :
            /\ UNCHANGED topics /\ CanPoll("dedup") /\ Outcome(ok, "redis") /\ Advance("dedup")
            /\ seen' = IF ok THEN seen \cup {e.text} ELSE seen
            /\ IF ok /\ e.text \in seen
               THEN UNCHANGED outbox ELSE Produce("dedup", <<Out("enriched", e)>>)
      BY <2>1, <3>1 DEF Dedup, ForwardNew
    <3>3. ok
      BY <1>1, <3>2 DEF Outcome, Kinds
    <3>4. /\ e \in Event /\ e = raw[position["dedup"] + 1]
          /\ position'["dedup"] = position["dedup"] + 1 /\ raw' = raw
      BY <1>0, <3>1, <3>2, PolledType DEF Polled, Input, Advance, topics
    <3>5. seen' = seen \cup {e.text}
      BY <3>2, <3>3
    <3>6. \A i \in 1..(position["dedup"] + 1) : i \in 1..position["dedup"] \/ i = position["dedup"] + 1
      BY <1>0
    <3>7. \A i \in 1..position'["dedup"] : raw'[i].text \in seen'
      BY <1>2, <3>4, <3>5, <3>6
    <3>8. ASSUME e.text \notin seen PROVE Forwarded(e.text)'
      <4>1. PICK r : r = Out("enriched", e)
        OBVIOUS
      <4>2. r \in OutRecord /\ r \in Sent(e.text) /\ <<r>> \in Seq(OutRecord)
        BY <3>4, <4>1, RecordType DEF Sent, Out
      <4>3. outbox'["dedup"] = outbox["dedup"] \o <<r>>
        BY <1>0, <3>2, <3>8, <4>1, <4>2, ProduceType
      <4>4. r \in InOutbox("dedup")'
        BY <1>0, <4>2, <4>3, ProducedSet
      <4> QED BY <4>2, <4>4 DEF Forwarded
    <3> QED BY <1>3, <3>5, <3>7, <3>8
  <2>2. CASE ~Dedup
    <3>1. seen' = seen /\ position'["dedup"] <= position["dedup"]
      BY <2>2, Moves
    <3>2. position'["dedup"] \in Nat
      BY <1>0, TypesKept DEF TypeInv
    <3>3. \A i \in 1..position'["dedup"] : i \in 1..position["dedup"]
      BY <1>0, <3>1, <3>2
    <3> QED BY <1>2, <1>3, <1>4, <3>1, <3>3
  <2> QED BY <2>1, <2>2
<1>7. \A i \in 1..position'["enrich"] : Copied(enriched[i])'
  <2>1. CASE Enrich
    <3>1. PICK e : e = Polled("enrich")
      OBVIOUS
    <3>2. PICK rs :
            /\ UNCHANGED topics /\ CanPoll("enrich") /\ Advance("enrich") /\ Produce("enrich", rs)
            /\ rs = Republished(e) \/ rs = <<Out("dlq", e)>>
      BY <2>1, <3>1 DEF Enrich
    <3>3. /\ e \in Event /\ e = enriched[position["enrich"] + 1]
          /\ position'["enrich"] = position["enrich"] + 1 /\ enriched' = enriched
      BY <1>0, <3>1, <3>2, PolledType DEF Polled, Input, Advance, topics
    <3>4. ASSUME NEW r, <<r>> \in Seq(OutRecord), rs = <<r>> PROVE r \in InOutbox("enrich")'
      <4>1. outbox'["enrich"] = outbox["enrich"] \o <<r>>
        BY <1>0, <3>2, <3>4, ProduceType
      <4>2. "enrich" \in Tasks /\ outbox["enrich"] \in Seq(OutRecord)
        BY <1>0
      <4>3. InOutbox("enrich")' = InOutbox("enrich") \cup {r}
        BY <3>4, <4>1, <4>2, ProducedSet
      <4> QED BY <4>3
    <3>5. Copied(e)'
      <4> SUFFICES ASSUME e.gen < MaxGen PROVE Copied(e)'
        BY DEF Copied
      <4>1. CASE rs = <<Out("dlq", e)>>
        BY <3>3, <3>4, <4>1, RecordType DEF Copied
      <4>2. CASE rs = Republished(e)
        <5>1. PICK c : c = [e EXCEPT !.gen = @ + 1]
          OBVIOUS
        <5>2. e.gen # MaxGen
          BY <3>3 DEF Event
        <5>3. c \in Event /\ rs = <<Out("enriched", c)>>
          BY <3>3, <4>2, <5>1, <5>2, RepublishedType
        <5>4. Out("enriched", c) \in InOutbox("enrich")'
          BY <3>4, <5>3, RecordType
        <5> QED BY <5>1, <5>4 DEF Copied
      <4> QED BY <3>2, <4>1, <4>2
    <3>6. \A i \in 1..(position["enrich"] + 1) :
            i \in 1..position["enrich"] \/ i = position["enrich"] + 1
      BY <1>0
    <3>7. PICK k : k = position["enrich"] + 1
      OBVIOUS
    <3>8. enriched'[k] = e
      BY <3>3, <3>7
    <3>9. Copied(enriched[k])'
      BY <3>5, <3>8
    <3> QED BY <1>5, <3>3, <3>6, <3>7, <3>9
  <2>2. CASE ~Enrich
    <3>1. position'["enrich"] <= position["enrich"]
      BY <2>2, Moves
    <3>2. position'["enrich"] \in Nat
      BY <1>0, TypesKept DEF TypeInv
    <3>3. \A i \in 1..position'["enrich"] : i \in 1..position["enrich"]
      BY <1>0, <3>1, <3>2
    <3> QED BY <1>5, <3>3
  <2> QED BY <2>1, <2>2
<1> QED BY <1>6, <1>7

\* Tasks commit what they have done: as long as nothing is lost from an outbox and nothing
\* fails, every record below a committed offset has had its effect, whatever tasks are killed.
THEOREM CommittedAlwaysDone == Spec => []CommittedIsDone
<1>1. Init => CommittedFirst
  BY DEF Init, CommittedFirst
<1>2. Init => DoneInv
  <2> SUFFICES ASSUME Init PROVE DoneInv
    OBVIOUS
  <2>1. /\ seen = {} /\ position["dedup"] = 0 /\ position["enrich"] = 0 /\ position["route"] = 0
        /\ committed["route"] = 0
    BY DEF Init, Groups
  <2> QED BY <2>1 DEF DoneInv
<1>3. Init => StoredInv
  BY DEF Init, StoredInv, Groups
<1>4. TypeInv /\ CommittedFirst /\ DoneInv => CommittedIsDone
  <2> SUFFICES ASSUME TypeInv, CommittedFirst, DoneInv, Calm
               PROVE  /\ \A i \in 1..committed["dedup"] : Forwards(raw[i].text) >= 1
                      /\ \A i \in 1..committed["enrich"] : Copied(enriched[i])
                      /\ \A i \in 1..committed["route"] :
                           enriched[i].gen > 0 => enriched[i].text \in Rows
    BY DEF CommittedIsDone, Calm, Copied
  <2>0. /\ "dedup" \in Groups /\ "enrich" \in Groups /\ "route" \in Groups
        /\ enriched \in Seq(Event) /\ outbox["dedup"] \in Seq(OutRecord) /\ seen \subseteq Texts
        /\ \A g \in Groups : committed[g] \in Nat /\ position[g] \in Nat /\ committed[g] <= position[g]
    BY DEF TypeInv, TypeOK, CommittedFirst, Tasks, Groups
  <2>1. \A g \in Groups : \A i \in 1..committed[g] : i \in 1..position[g]
    BY <2>0
  <2>2. ASSUME NEW t \in Texts, Forwarded(t) PROVE Forwards(t) >= 1
    <3>1. ~None(enriched, Entered(t)) \/ ~None(outbox["dedup"], Sent(t))
      BY <2>2 DEF Forwarded, None, InOutbox
    <3>2. Cardinality(Places(enriched, Entered(t))) + Cardinality(Places(outbox["dedup"], Sent(t))) >= 1
      BY <2>0, <3>1, OnceCounts
    <3>3. Forwards(t) = Cardinality(Places(enriched, Entered(t)))
                        + Cardinality(Places(outbox["dedup"], Sent(t)))
      BY <2>0, ForwardPlaces
    <3> QED BY <3>2, <3>3
  <2>3. \A i \in 1..committed["dedup"] : Forwards(raw[i].text) >= 1
    <3>1. \A i \in 1..committed["dedup"] : raw[i].text \in seen
      BY <2>0, <2>1 DEF DoneInv
    <3> QED BY <2>0, <2>2, <3>1 DEF DoneInv
  <2>4. \A i \in 1..committed["enrich"] : Copied(enriched[i])
    BY <2>0, <2>1 DEF DoneInv
  <2>5. \A i \in 1..committed["route"] : enriched[i].gen > 0 => enriched[i].text \in Rows
    BY DEF DoneInv
  <2> QED BY <2>3, <2>4, <2>5
<1> QED BY <1>1, <1>2, <1>3, <1>4, StoredKept, CommittedFirstKept, DoneKept, TypesHold, ShapeHolds,
           PTL DEF Spec

================================================================================
