---------------------------- MODULE ProbeRunProofs ----------------------------
(***************************************************************************)
(* What is published was found, what was found to be critical is published *)
(* and the cap is passed by a bounded sum: for any number of runs, brands, *)
(* models, prompts and answers.                                            *)
(***************************************************************************)
EXTENDS ProbeRun, FiniteSetTheorems, TLAPS

Slugs == {Slug[c] : c \in Claims \cup Competitors} \cup {"sentiment_drift_negative"}
Findings == [slug : Slugs, severity : Severities]
Rows == [run : Runs, brand : Brands, model : Models, prompt : Int, answer : Answers,
         detected : Nat]
Hits == [row : Rows, finding : Findings]

RunType ==
  [pc : {"idle", "store", "call", "log", "classify", "publish", "over"}, todo : SUBSET Brands,
   models : SUBSET (Brands \X Models), model : SUBSET (Brands \X Models), prompt : Int,
   results : SUBSET Rows, cost : Int, ids : SUBSET Rows, found : SUBSET Hits,
   edges : SUBSET Hits, alerts : SUBSET Hits]

TypeInv ==
  /\ run \in [Runs -> RunType]
  /\ rows \in SUBSET Rows /\ faults \in Nat

\* A run handles its own answers.
Owned == \A r \in Runs : \A x \in run[r].results \cup run[r].ids : x.run = r

\* There is a row with a count for the brand and model.
Backed(b, m) == \E x \in rows : x.brand = b /\ x.model = m /\ x.detected > 0

\* What a run has found and not yet published is backed too.
DetectedInv ==
  /\ \A a \in edges \cup alerts : Backed(a.brand, a.model)
  /\ \A r \in Runs : \A h \in run[r].found \cup run[r].edges \cup run[r].alerts :
       Backed(h.row.brand, h.row.model)

\* A hit that will be, or has been, published as finding f of row x.
For(h, x, f) == h.finding.severity = "CRITICAL" /\ Alert(h.row, h.finding) = Alert(x, f)

\* Where the critical findings of a stored answer are, by the place of its run.
Tracked(r, x) ==
  CASE run[r].pc = "idle" -> FALSE
    [] run[r].pc \in {"store", "call", "log"} -> x \in run[r].ids
    [] run[r].pc = "classify" ->
         x \in run[r].ids \/ \A f \in Critical(x) : \E h \in run[r].found : For(h, x, f)
    [] run[r].pc = "publish" ->
         \A f \in Critical(x) : Alert(x, f) \in alerts \/ \E h \in run[r].alerts : For(h, x, f)
    [] run[r].pc = "over" -> \A f \in Critical(x) : Alert(x, f) \in alerts

AlertInv == faults = 0 => \A r \in Runs : \A x \in rows : x.run = r => Tracked(r, x)

USE ClassifierAssumption, ProbeAssumption DEF ClassifierAssumption, ProbeAssumption

-------------------------------------------------------------------------------
(* What the classifier finds *)

\* The image of a finite set is finite.
LEMMA ImageFinite ==
  ASSUME NEW S, IsFiniteSet(S), NEW g
  PROVE  IsFiniteSet({g[c] : c \in S})
<1> DEFINE T == {g[c] : c \in S}
           f == [c \in S |-> g[c]]
<1>1. f \in Surjection(S, T)  BY DEF Surjection
<1>2. QED  BY <1>1, FS_Surjection

LEMMA FindingsTyped ==
  ASSUME NEW x \in Responses, NEW m \in Manifests, NEW v \in BOOLEAN
  PROVE  Classify(x, m, v, FALSE) \subseteq Findings
<1>1. Regulatory(x, m) \subseteq Findings
  BY DEF Regulatory, Finding, Findings, Severities, Slugs, Responses
<1>2. Confusion(x, m) \subseteq Findings
  BY DEF Confusion, Finding, Findings, Severities, Slugs, Manifests
<1>3. Drift(x, m) \subseteq Findings
  BY DEF Drift, Finding, Findings, Severities, Slugs
<1>4. QED  BY <1>1, <1>2, <1>3 DEF Classify, Deduplicated

LEMMA FindingsFinite ==
  ASSUME NEW x \in Responses, NEW m \in Manifests, NEW v \in BOOLEAN
  PROVE  IsFiniteSet(Classify(x, m, v, FALSE))
<1>1. IsFiniteSet(Regulatory(x, m))
  <2> DEFINE S == x.claims \cap m.claims
             g == [c \in Claims |-> Finding(Slug[c], "CRITICAL")]
  <2>1. S \subseteq Claims  BY DEF Responses
  <2>2. IsFiniteSet(S)  BY <2>1, FS_Subset
  <2>3. IsFiniteSet({g[c] : c \in S})
    <3> HIDE DEF S, g
    <3> QED  BY <2>2, ImageFinite
  <2>4. Regulatory(x, m) = {g[c] : c \in S}  BY <2>1 DEF Regulatory
  <2>5. QED  BY <2>3, <2>4
<1>2. IsFiniteSet(Confusion(x, m))
  <2> DEFINE S == {k \in m.competitors : x.tones[k] \cap {"neutral", "positive"} # {}}
             g == [c \in Competitors |->
                     Finding(Slug[c], IF "positive" \in x.tones[c] THEN "HIGH" ELSE "MEDIUM")]
  <2>1. S \subseteq Competitors  BY DEF Manifests
  <2>2. IsFiniteSet(S)  BY <2>1, FS_Subset
  <2>3. IsFiniteSet({g[c] : c \in S})
    <3> HIDE DEF S, g
    <3> QED  BY <2>2, ImageFinite
  <2>4. Confusion(x, m) = {g[c] : c \in S}  BY <2>1 DEF Confusion
  <2>5. QED  BY <2>3, <2>4
<1>3. IsFiniteSet(Drift(x, m))  BY FS_EmptySet, FS_Singleton DEF Drift
<1> DEFINE U == Regulatory(x, m) \cup IF v THEN Confusion(x, m) \cup Drift(x, m) ELSE {}
<1>4. IsFiniteSet(U)
  <2>1. IsFiniteSet(Confusion(x, m) \cup Drift(x, m))  BY <1>2, <1>3, FS_Union
  <2>2. IsFiniteSet(IF v THEN Confusion(x, m) \cup Drift(x, m) ELSE {})
    BY <2>1, FS_EmptySet
  <2>3. QED  BY <1>1, <2>2, FS_Union
<1>5. Classify(x, m, v, FALSE) \in SUBSET U  BY DEF Classify, Deduplicated
<1>6. QED
  <2> HIDE DEF U
  <2> QED  BY <1>4, <1>5, FS_Subset

\* Nothing that the other detectors find hides a critical finding.
LEMMA CriticalSurvives ==
  ASSUME NEW x \in Responses, NEW m \in Manifests, NEW v \in BOOLEAN,
         NEW f \in Classify(x, m, FALSE, FALSE), f.severity = "CRITICAL"
  PROVE  f \in Classify(x, m, v, FALSE)
<1> DEFINE U == Regulatory(x, m) \cup IF v THEN Confusion(x, m) \cup Drift(x, m) ELSE {}
<1>1. f \in U  BY DEF Classify, Deduplicated
<1>2. ASSUME NEW g \in U PROVE g.severity \in Severities
  BY DEF Regulatory, Confusion, Drift, Finding, Severities
<1>3. \A g \in U : Rank(g.severity) <= Rank(f.severity)
  BY <1>2 DEF Rank, Severities
<1>4. f \in Deduplicated(U)
  <2> HIDE DEF U
  <2> QED  BY <1>1, <1>3 DEF Deduplicated
<1>5. Classify(x, m, v, FALSE) = Deduplicated(U)  BY DEF Classify
<1>6. QED  BY <1>4, <1>5

-------------------------------------------------------------------------------
(* Types *)

LEMMA NoRunTyped == NoRun \in RunType
BY DEF NoRun, RunType

LEMMA NumbersTyped ==
  ASSUME NEW rec \in RunType, NEW n \in Int
  PROVE  [rec EXCEPT !.cost = n] \in RunType /\ [rec EXCEPT !.prompt = n] \in RunType
BY DEF RunType

\* A step of a run leaves the other runs alone.
LEMMA SetsOne ==
  ASSUME TypeInv, NEW r \in Runs, NEW rec, Set(r, rec)
  PROVE  /\ run'[r] = rec /\ \A q \in Runs : q # r => run'[q] = run[q]
         /\ rec \in RunType => run' \in [Runs -> RunType]
BY DEF Set, TypeInv

LEMMA OutcomeTyped ==
  ASSUME faults \in Nat, NEW ok, Outcome(ok)
  PROVE  faults' \in Nat /\ (faults' = 0 => ok /\ faults = 0)
BY DEF Outcome

LEMMA TypeInit == Init => TypeInv
BY NoRunTyped DEF Init, TypeInv

LEMMA AskedTyped ==
  ASSUME NEW rec \in RunType
  PROVE  /\ Asked(rec) \in RunType
         /\ Asked(rec).pc = rec.pc /\ Asked(rec).results = rec.results
         /\ Asked(rec).ids = rec.ids /\ Asked(rec).found = rec.found
         /\ Asked(rec).edges = rec.edges /\ Asked(rec).alerts = rec.alerts
BY DEF Asked, RunType

\* What a row is classified to.
LEMMA ClassifyTyped ==
  ASSUME NEW x \in Rows, NEW v \in BOOLEAN
  PROVE  LET F == Classify(x.answer, Manifest[x.brand], v, FALSE) IN
         /\ F \subseteq Findings /\ IsFiniteSet(F) /\ Cardinality(F) \in Nat
         /\ F # {} => Cardinality(F) > 0
         /\ Critical(x) \subseteq F
<1> DEFINE F == Classify(x.answer, Manifest[x.brand], v, FALSE)
<1>1. x.answer \in Responses /\ Manifest[x.brand] \in Manifests  BY DEF Rows
<1>2. F \subseteq Findings /\ IsFiniteSet(F)  BY <1>1, FindingsTyped, FindingsFinite
<1>3. Critical(x) \subseteq F  BY <1>1, CriticalSurvives DEF Critical
<1> HIDE DEF F
<1>4. Cardinality(F) \in Nat /\ (F # {} => Cardinality(F) > 0)
  BY <1>2, FS_CardinalityType, FS_EmptySet
<1>5. QED  BY <1>2, <1>3, <1>4 DEF F

LEMMA TypeKept ==
  ASSUME TypeInv, [Next]_vars
  PROVE  TypeInv'
<1> USE NoRunTyped
<1>1. CASE Age  BY <1>1 DEF Age, TypeInv
<1>2. ASSUME NEW r \in Runs, Start(r) \/ NextBrand(r) \/ Probed(r) \/ AllProbed(r) \/ Finish(r)
      PROVE  TypeInv'
  <2>1. run[r] \in RunType  BY DEF TypeInv
  <2>2. CASE Start(r)
    <3>1. [NoRun EXCEPT !.pc = "store", !.todo = Brands] \in RunType  BY DEF RunType
    <3>2. QED  BY <2>2, <3>1, SetsOne DEF Start, TypeInv
  <2>3. CASE NextBrand(r)
    <3>1. PICK b \in run[r].todo :
            Set(r, [run[r] EXCEPT !.pc = "call", !.todo = @ \ {b}, !.models = {b} \X Models])
      BY <2>3 DEF NextBrand
    <3>2. b \in Brands  BY <2>1 DEF RunType
    <3>3. [run[r] EXCEPT !.pc = "call", !.todo = @ \ {b}, !.models = {b} \X Models] \in RunType
      BY <2>1, <3>2 DEF RunType
    <3>4. QED  BY <2>3, <3>1, <3>3, SetsOne DEF NextBrand, TypeInv
  <2>4. CASE Probed(r)
    <3>1. [run[r] EXCEPT !.pc = "store"] \in RunType  BY <2>1 DEF RunType
    <3>2. QED  BY <2>4, <3>1, SetsOne DEF Probed, TypeInv
  <2>5. CASE AllProbed(r)
    <3>1. [run[r] EXCEPT !.pc = "classify"] \in RunType  BY <2>1 DEF RunType
    <3>2. QED  BY <2>5, <3>1, SetsOne DEF AllProbed, TypeInv
  <2>6. CASE Finish(r)
    <3>1. [NoRun EXCEPT !.pc = "over"] \in RunType  BY DEF RunType
    <3>2. QED  BY <2>6, <3>1, SetsOne DEF Finish, TypeInv
  <2>7. QED  BY <1>2, <2>2, <2>3, <2>4, <2>5, <2>6
<1>3. ASSUME NEW r \in Runs, Check(r) PROVE TypeInv'
  <2>1. run[r] \in RunType  BY DEF TypeInv
  <2> DEFINE skip(m) == [run[r] EXCEPT !.models = @ \ {m}]
             Next1(m, ok) == IF ok /\ Exceeded THEN skip(m)
                                              ELSE [skip(m) EXCEPT !.model = {m}, !.prompt = 1]
  <2>2. PICK ok \in BOOLEAN, m \in run[r].models : Outcome(ok) /\ Set(r, Next1(m, ok))
    BY <1>3 DEF Check
  <2>3. skip(m) \in RunType /\ m \in Brands \X Models  BY <2>1 DEF RunType
  <2>4. Next1(m, ok) \in RunType
    <3>1. PICK k \in RunType : k = skip(m)  BY <2>3
    <3>2. [k EXCEPT !.model = {m}] \in RunType  BY <2>3 DEF RunType
    <3>3. [[k EXCEPT !.model = {m}] EXCEPT !.prompt = 1] \in RunType
      <4>1. 1 \in Int  OBVIOUS
      <4>2. QED  BY <3>2, <4>1, NumbersTyped, Zenon
    <3>4. [k EXCEPT !.model = {m}, !.prompt = 1] = [[k EXCEPT !.model = {m}] EXCEPT !.prompt = 1]
      OBVIOUS
    <3> HIDE DEF skip
    <3>5. QED  BY <2>3, <3>1, <3>3, <3>4
  <2>5. run' \in [Runs -> RunType]
    <3> HIDE DEF Next1
    <3> QED  BY <2>2, <2>4, SetsOne
  <2>6. QED  BY <1>3, <2>2, <2>5, OutcomeTyped DEF Check, TypeInv
<1>4. ASSUME NEW r \in Runs, Call(r) PROVE TypeInv'
  <2>1. run[r] \in RunType  BY DEF TypeInv
  <2> DEFINE Row(m, x) == [run |-> r, brand |-> m[1], model |-> m[2],
                           prompt |-> run[r].prompt, answer |-> x, detected |-> 0]
             Answered(m, x, c) == [run[r] EXCEPT !.pc = "log", !.cost = c,
                                                 !.results = @ \cup {Row(m, x)}]
  <2>2. PICK m \in run[r].model, ok \in BOOLEAN :
          /\ Outcome(ok)
          /\ IF ok THEN \E x \in Answers, c \in 0..MaxCost : Set(r, Answered(m, x, c))
                   ELSE Set(r, Asked(run[r]))
    BY <1>4 DEF Call
  <2>3. m \in Brands \X Models /\ run[r].prompt \in Int  BY <2>1 DEF RunType
  <2>4. ASSUME NEW x \in Answers, NEW c \in 0..MaxCost PROVE Answered(m, x, c) \in RunType
    <3>1. Row(m, x) \in Rows  BY <2>3 DEF Rows
    <3>2. c \in Int  OBVIOUS
    <3> HIDE DEF Row
    <3>3. [run[r] EXCEPT !.pc = "log", !.results = @ \cup {Row(m, x)}] \in RunType
      BY <2>1, <3>1 DEF RunType
    <3>4. [[run[r] EXCEPT !.pc = "log", !.results = @ \cup {Row(m, x)}] EXCEPT !.cost = c]
            \in RunType
      BY <3>2, <3>3 DEF RunType
    <3>5. QED  BY <3>4
  <2>5. run' \in [Runs -> RunType]
    <3> HIDE DEF Answered
    <3> QED  BY <2>1, <2>2, <2>4, SetsOne, AskedTyped
  <2>6. QED  BY <1>4, <2>2, <2>5, OutcomeTyped DEF Call, TypeInv
<1>5. ASSUME NEW r \in Runs, LogCost(r) PROVE TypeInv'
  <2>1. run[r] \in RunType  BY DEF TypeInv
  <2>2. [run[r] EXCEPT !.pc = "call", !.cost = 0] \in RunType
    <3>1. [run[r] EXCEPT !.pc = "call"] \in RunType  BY <2>1 DEF RunType
    <3>2. [[run[r] EXCEPT !.pc = "call"] EXCEPT !.cost = 0] \in RunType
      <4>1. 0 \in Int  OBVIOUS
      <4>2. QED  BY <3>1, <4>1, NumbersTyped, Zenon
    <3>3. QED  BY <3>2
  <2>3. run' \in [Runs -> RunType]  BY <1>5, <2>2, SetsOne, AskedTyped DEF LogCost
  <2>4. faults' \in Nat  BY <1>5, OutcomeTyped DEF LogCost, TypeInv
  <2>5. QED  BY <1>5, <2>3, <2>4 DEF LogCost, TypeInv
<1>6. ASSUME NEW r \in Runs, Store(r) PROVE TypeInv'
  <2>1. run[r] \in RunType  BY DEF TypeInv
  <2>2. PICK x \in run[r].results :
          /\ rows' = rows \cup {x}
          /\ Set(r, [run[r] EXCEPT !.results = @ \ {x}, !.ids = @ \cup {x}])
    BY <1>6 DEF Store
  <2>3. x \in Rows  BY <2>1 DEF RunType
  <2>4. [run[r] EXCEPT !.results = @ \ {x}, !.ids = @ \cup {x}] \in RunType
    BY <2>1, <2>3 DEF RunType
  <2>5. run' \in [Runs -> RunType]  BY <2>2, <2>4, SetsOne
  <2>6. QED  BY <1>6, <2>2, <2>3, <2>5 DEF Store, TypeInv
<1>7. ASSUME NEW r \in Runs, ClassifyRow(r) PROVE TypeInv'
  <2>1. run[r] \in RunType  BY DEF TypeInv
  <2> DEFINE F(x, v) == Classify(x.answer, Manifest[x.brand], v, FALSE)
  <2>2. PICK x \in run[r].ids, v \in BOOLEAN :
          /\ rows' = Written(x, Cardinality(F(x, v)))
          /\ Set(r, [run[r] EXCEPT !.ids = @ \ {x}, !.found = Collected(@, x, F(x, v))])
    BY <1>7 DEF ClassifyRow
  <2>3. x \in Rows  BY <2>1 DEF RunType
  <2>4. F(x, v) \subseteq Findings /\ Cardinality(F(x, v)) \in Nat  BY <2>3, ClassifyTyped
  <2> HIDE DEF F
  <2>5. Collected(run[r].found, x, F(x, v)) \subseteq Hits
    BY <2>1, <2>3, <2>4 DEF Collected, Hits, RunType
  <2>6. [run[r] EXCEPT !.ids = @ \ {x}, !.found = Collected(@, x, F(x, v))] \in RunType
    <3> DEFINE C == Collected(run[r].found, x, F(x, v))
    <3>1. C \subseteq Hits  BY <2>5
    <3> HIDE DEF C
    <3>2. [run[r] EXCEPT !.ids = @ \ {x}, !.found = C] \in RunType  BY <2>1, <3>1 DEF RunType
    <3>3. QED  BY <3>2 DEF C
  <2>7. run' \in [Runs -> RunType]  BY <2>2, <2>6, SetsOne
  <2>8. rows' \subseteq Rows  BY <2>2, <2>3, <2>4 DEF Written, TypeInv, Rows
  <2>9. QED  BY <1>7, <2>7, <2>8 DEF ClassifyRow, TypeInv
<1>8. ASSUME NEW r \in Runs, Classified(r) PROVE TypeInv'
  <2>1. run[r] \in RunType  BY DEF TypeInv
  <2> DEFINE critical == {h \in run[r].found : h.finding.severity = "CRITICAL"}
  <2>2. critical \subseteq Hits /\ run[r].found \subseteq Hits  BY <2>1 DEF RunType
  <2>3. [NoRun EXCEPT !.pc = "publish", !.edges = run[r].found, !.alerts = critical] \in RunType
    <3> HIDE DEF critical
    <3> QED  BY <2>2 DEF RunType
  <2>4. QED  BY <1>8, <2>3, SetsOne DEF Classified, TypeInv
<1>9. ASSUME NEW r \in Runs, Fail(r) PROVE TypeInv'
  <2>1. [NoRun EXCEPT !.pc = "over"] \in RunType  BY DEF RunType
  <2>2. faults' \in Nat  BY <1>9, OutcomeTyped DEF Fail, TypeInv
  <2>3. QED  BY <1>9, <2>1, <2>2, SetsOne DEF Fail, TypeInv
<1>10. ASSUME NEW r \in Runs, WriteEdge(r) PROVE TypeInv'
  <2>1. run[r] \in RunType  BY DEF TypeInv
  <2>2. PICK h \in run[r].edges, ok \in BOOLEAN :
          Outcome(ok) /\ Set(r, [run[r] EXCEPT !.edges = IF ok THEN @ \ {h} ELSE {}])
    BY <1>10 DEF WriteEdge
  <2>3. [run[r] EXCEPT !.edges = IF ok THEN @ \ {h} ELSE {}] \in RunType  BY <2>1 DEF RunType
  <2>4. run' \in [Runs -> RunType]  BY <2>2, <2>3, SetsOne
  <2>5. faults' \in Nat  BY <2>2, OutcomeTyped DEF TypeInv
  <2>6. QED  BY <1>10, <2>4, <2>5 DEF WriteEdge, TypeInv
<1>11. ASSUME NEW r \in Runs, Publish(r) PROVE TypeInv'
  <2>1. run[r] \in RunType  BY DEF TypeInv
  <2>2. PICK h \in run[r].alerts, ok \in BOOLEAN, goesOn \in BOOLEAN :
          Outcome(ok) /\ Set(r, [run[r] EXCEPT !.alerts = IF goesOn THEN @ \ {h} ELSE {}])
    BY <1>11 DEF Publish
  <2>3. [run[r] EXCEPT !.alerts = IF goesOn THEN @ \ {h} ELSE {}] \in RunType
    BY <2>1 DEF RunType
  <2>4. run' \in [Runs -> RunType]  BY <2>2, <2>3, SetsOne
  <2>5. faults' \in Nat  BY <2>2, OutcomeTyped DEF TypeInv
  <2>6. QED  BY <1>11, <2>4, <2>5 DEF Publish, TypeInv
<1>12. CASE UNCHANGED vars  BY <1>12 DEF vars, TypeInv
<1>13. QED
  BY <1>1, <1>2, <1>3, <1>4, <1>5, <1>6, <1>7, <1>8, <1>9, <1>10, <1>11, <1>12 DEF Next, Step

-------------------------------------------------------------------------------
(* Shapes of steps *)

Asking == {"store", "call", "log"}

AsksOn(r) ==
  NextBrand(r) \/ Check(r) \/ Call(r) \/ LogCost(r) \/ Probed(r) \/ AllProbed(r)

\* Until the answers are in, what a run has stored and found stays as it is.
LEMMA AsksOnShape ==
  ASSUME TypeInv, NEW r \in Runs, AsksOn(r)
  PROVE  /\ UNCHANGED <<rows, edges, alerts>>
         /\ \A q \in Runs : q # r => run'[q] = run[q]
         /\ run[r].pc \in Asking /\ run'[r].pc \in Asking \cup {"classify"}
         /\ run'[r].ids = run[r].ids /\ run'[r].found = run[r].found
         /\ run'[r].edges = run[r].edges /\ run'[r].alerts = run[r].alerts
         /\ \A x \in run'[r].results : x \in run[r].results \/ x.run = r
         /\ faults' = 0 => faults = 0
<1>1. run[r] \in RunType  BY DEF TypeInv
<1>2. CASE NextBrand(r)
  <2>1. PICK b \in run[r].todo :
          Set(r, [run[r] EXCEPT !.pc = "call", !.todo = @ \ {b}, !.models = {b} \X Models])
    BY <1>2 DEF NextBrand
  <2>2. run'[r] = [run[r] EXCEPT !.pc = "call", !.todo = @ \ {b}, !.models = {b} \X Models]
        /\ \A q \in Runs : q # r => run'[q] = run[q]
    BY <2>1, SetsOne
  <2>3. /\ run'[r].pc = "call" /\ run'[r].ids = run[r].ids
        /\ run'[r].found = run[r].found /\ run'[r].edges = run[r].edges
        /\ run'[r].alerts = run[r].alerts /\ run'[r].results = run[r].results
    BY <1>1, <2>2 DEF RunType
  <2>4. run[r].pc = "store" /\ UNCHANGED <<rows, edges, alerts, faults>>
    BY <1>2 DEF NextBrand, At
  <2>5. QED  BY <2>2, <2>3, <2>4 DEF Asking
<1>3. CASE Check(r)
  <2> DEFINE skip(m) == [run[r] EXCEPT !.models = @ \ {m}]
             Next1(m, ok) == IF ok /\ Exceeded THEN skip(m)
                                              ELSE [skip(m) EXCEPT !.model = {m}, !.prompt = 1]
  <2>1. PICK ok \in BOOLEAN, m \in run[r].models : Outcome(ok) /\ Set(r, Next1(m, ok))
    BY <1>3 DEF Check
  <2>2. run'[r] = Next1(m, ok) /\ \A q \in Runs : q # r => run'[q] = run[q]
    <3> HIDE DEF Next1
    <3> QED  BY <2>1, SetsOne
  <2>3. faults' = 0 => faults = 0  BY <2>1, OutcomeTyped DEF TypeInv
  <2>4. /\ run'[r].pc = run[r].pc /\ run'[r].ids = run[r].ids
        /\ run'[r].found = run[r].found /\ run'[r].edges = run[r].edges
        /\ run'[r].alerts = run[r].alerts /\ run'[r].results = run[r].results
    <3>1. PICK k : k = skip(m)  OBVIOUS
    <3>2. /\ k.pc = run[r].pc /\ k.ids = run[r].ids /\ k.found = run[r].found
          /\ k.edges = run[r].edges /\ k.alerts = run[r].alerts /\ k.results = run[r].results
          /\ k \in RunType
      BY <1>1, <3>1 DEF RunType
    <3> HIDE DEF skip
    <3>3. run'[r] = k \/ run'[r] = [k EXCEPT !.model = {m}, !.prompt = 1]  BY <2>2, <3>1
    <3>4. QED  BY <3>2, <3>3 DEF RunType
  <2>5. run[r].pc = "call" /\ UNCHANGED <<rows, edges, alerts>>  BY <1>3 DEF Check, At
  <2>6. QED  BY <2>2, <2>3, <2>4, <2>5 DEF Asking
<1>4. CASE Call(r)
  <2> DEFINE Row(m, x) == [run |-> r, brand |-> m[1], model |-> m[2],
                           prompt |-> run[r].prompt, answer |-> x, detected |-> 0]
             Answered(m, x, c) == [run[r] EXCEPT !.pc = "log", !.cost = c,
                                                 !.results = @ \cup {Row(m, x)}]
  <2>1. PICK m \in run[r].model, ok \in BOOLEAN :
          /\ Outcome(ok)
          /\ IF ok THEN \E x \in Answers, c \in 0..MaxCost : Set(r, Answered(m, x, c))
                   ELSE Set(r, Asked(run[r]))
    BY <1>4 DEF Call
  <2>2. faults' = 0 => faults = 0  BY <2>1, OutcomeTyped DEF TypeInv
  <2>3. CASE ok
    <3>1. PICK x \in Answers, c \in 0..MaxCost : Set(r, Answered(m, x, c))  BY <2>1, <2>3
    <3>2. run'[r] = Answered(m, x, c) /\ \A q \in Runs : q # r => run'[q] = run[q]
      <4> HIDE DEF Answered
      <4> QED  BY <3>1, SetsOne
    <3>3. Row(m, x).run = r  OBVIOUS
    <3> HIDE DEF Row
    <3>4. /\ run'[r].pc = "log" /\ run'[r].ids = run[r].ids
          /\ run'[r].found = run[r].found /\ run'[r].edges = run[r].edges
          /\ run'[r].alerts = run[r].alerts /\ run'[r].results = run[r].results \cup {Row(m, x)}
      BY <1>1, <3>2 DEF RunType
    <3>5. run[r].pc = "call" /\ UNCHANGED <<rows, edges, alerts>>  BY <1>4 DEF Call, At
    <3>6. QED  BY <2>2, <3>2, <3>3, <3>4, <3>5 DEF Asking
  <2>4. CASE ~ok
    <3>1. run'[r] = Asked(run[r]) /\ \A q \in Runs : q # r => run'[q] = run[q]
      BY <2>1, <2>4, SetsOne
    <3>2. QED  BY <1>1, <1>4, <2>2, <3>1, AskedTyped DEF Call, At, Asking
  <2>5. QED  BY <2>3, <2>4
<1>5. CASE LogCost(r)
  <2> DEFINE k == [run[r] EXCEPT !.pc = "call", !.cost = 0]
  <2>1. k \in RunType
    <3>1. [run[r] EXCEPT !.pc = "call"] \in RunType  BY <1>1 DEF RunType
    <3>2. [[run[r] EXCEPT !.pc = "call"] EXCEPT !.cost = 0] \in RunType
      <4>1. 0 \in Int  OBVIOUS
      <4>2. QED  BY <3>1, <4>1, NumbersTyped, Zenon
    <3>3. QED  BY <3>2
  <2>2. k.pc = "call" /\ k.ids = run[r].ids /\ k.found = run[r].found
        /\ k.edges = run[r].edges /\ k.alerts = run[r].alerts /\ k.results = run[r].results
    BY <1>1 DEF RunType
  <2>3. Set(r, Asked(k))  BY <1>5 DEF LogCost
  <2> HIDE DEF k
  <2>4. run'[r] = Asked(k) /\ \A q \in Runs : q # r => run'[q] = run[q]  BY <2>3, SetsOne
  <2>5. faults' = 0 => faults = 0  BY <1>5, OutcomeTyped DEF LogCost, TypeInv
  <2>6. QED  BY <1>5, <2>1, <2>2, <2>4, <2>5, AskedTyped DEF LogCost, At, Asking
<1>6. CASE Probed(r)
  <2>1. run'[r] = [run[r] EXCEPT !.pc = "store"] /\ \A q \in Runs : q # r => run'[q] = run[q]
    BY <1>6, SetsOne DEF Probed
  <2>2. QED  BY <1>1, <1>6, <2>1 DEF Probed, At, Asking, RunType
<1>7. CASE AllProbed(r)
  <2>1. run'[r] = [run[r] EXCEPT !.pc = "classify"] /\ \A q \in Runs : q # r => run'[q] = run[q]
    BY <1>7, SetsOne DEF AllProbed
  <2>2. QED  BY <1>1, <1>7, <2>1 DEF AllProbed, At, Asking, RunType
<1>8. QED  BY <1>2, <1>3, <1>4, <1>5, <1>6, <1>7 DEF AsksOn

\* A run that begins or ends holds nothing; one fails only with a fault.
LEMMA EndsShape ==
  ASSUME TypeInv, NEW r \in Runs, Start(r) \/ Fail(r) \/ Finish(r)
  PROVE  /\ UNCHANGED <<rows, edges, alerts>>
         /\ \A q \in Runs : q # r => run'[q] = run[q]
         /\ run'[r].results = {} /\ run'[r].ids = {} /\ run'[r].found = {}
         /\ run'[r].edges = {} /\ run'[r].alerts = {}
         /\ faults' = 0 => faults = 0
         /\ \/ run[r].pc = "idle" /\ run'[r].pc = "store"
            \/ run[r].pc = "publish" /\ run[r].alerts = {} /\ run'[r].pc = "over"
            \/ faults' # 0
<1>1. CASE Start(r)
  <2>1. run'[r] = [NoRun EXCEPT !.pc = "store", !.todo = Brands]
        /\ \A q \in Runs : q # r => run'[q] = run[q]
    BY <1>1, SetsOne DEF Start
  <2>2. QED  BY <1>1, <2>1 DEF Start, At, NoRun
<1>2. CASE Fail(r)
  <2>1. faults' # 0  BY <1>2 DEF Fail, Outcome, TypeInv
  <2>2. run'[r] = [NoRun EXCEPT !.pc = "over"] /\ \A q \in Runs : q # r => run'[q] = run[q]
    BY <1>2, SetsOne DEF Fail
  <2>3. QED  BY <1>2, <2>1, <2>2 DEF Fail, NoRun
<1>3. CASE Finish(r)
  <2>1. run'[r] = [NoRun EXCEPT !.pc = "over"] /\ \A q \in Runs : q # r => run'[q] = run[q]
    BY <1>3, SetsOne DEF Finish
  <2>2. QED  BY <1>3, <2>1 DEF Finish, At, NoRun
<1>4. QED  BY <1>1, <1>2, <1>3

LEMMA StoreShape ==
  ASSUME TypeInv, NEW r \in Runs, Store(r)
  PROVE  \E x \in run[r].results :
           /\ rows' = rows \cup {x} /\ UNCHANGED <<edges, alerts, faults>>
           /\ \A q \in Runs : q # r => run'[q] = run[q]
           /\ run[r].pc = "store" /\ run'[r].pc = "store"
           /\ run'[r].results = run[r].results \ {x} /\ run'[r].ids = run[r].ids \cup {x}
           /\ run'[r].found = run[r].found
           /\ run'[r].edges = run[r].edges /\ run'[r].alerts = run[r].alerts
<1>1. run[r] \in RunType  BY DEF TypeInv
<1>2. PICK x \in run[r].results :
        /\ rows' = rows \cup {x}
        /\ Set(r, [run[r] EXCEPT !.results = @ \ {x}, !.ids = @ \cup {x}])
  BY DEF Store
<1>3. run'[r] = [run[r] EXCEPT !.results = @ \ {x}, !.ids = @ \cup {x}]
      /\ \A q \in Runs : q # r => run'[q] = run[q]
  BY <1>2, SetsOne
<1>4. QED  BY <1>1, <1>2, <1>3 DEF Store, At, RunType

LEMMA ClassifyShape ==
  ASSUME TypeInv, NEW r \in Runs, ClassifyRow(r)
  PROVE  \E x \in run[r].ids, v \in BOOLEAN :
           LET F == Classify(x.answer, Manifest[x.brand], v, FALSE) IN
           /\ x \in Rows /\ rows' = Written(x, Cardinality(F))
           /\ UNCHANGED <<edges, alerts, faults>>
           /\ \A q \in Runs : q # r => run'[q] = run[q]
           /\ run[r].pc = "classify" /\ run'[r].pc = "classify"
           /\ run'[r].results = run[r].results /\ run'[r].ids = run[r].ids \ {x}
           /\ run'[r].found = Collected(run[r].found, x, F)
           /\ run'[r].edges = run[r].edges /\ run'[r].alerts = run[r].alerts
<1>1. run[r] \in RunType  BY DEF TypeInv
<1> DEFINE F(x, v) == Classify(x.answer, Manifest[x.brand], v, FALSE)
<1>2. PICK x \in run[r].ids, v \in BOOLEAN :
        /\ rows' = Written(x, Cardinality(F(x, v)))
        /\ Set(r, [run[r] EXCEPT !.ids = @ \ {x}, !.found = Collected(@, x, F(x, v))])
  BY DEF ClassifyRow
<1> HIDE DEF F
<1>3. x \in Rows  BY <1>1 DEF RunType
<1>4. run'[r] = [run[r] EXCEPT !.ids = @ \ {x}, !.found = Collected(run[r].found, x, F(x, v))]
      /\ \A q \in Runs : q # r => run'[q] = run[q]
  BY <1>2, SetsOne
<1>5. /\ run'[r].pc = run[r].pc /\ run'[r].results = run[r].results
      /\ run'[r].ids = run[r].ids \ {x}
      /\ run'[r].found = Collected(run[r].found, x, F(x, v))
      /\ run'[r].edges = run[r].edges /\ run'[r].alerts = run[r].alerts
  BY <1>1, <1>4 DEF RunType
<1>6. run[r].pc = "classify" /\ UNCHANGED <<edges, alerts, faults>>  BY DEF ClassifyRow, At
<1>7. QED  BY <1>2, <1>3, <1>4, <1>5, <1>6 DEF F

LEMMA ClassifiedShape ==
  ASSUME TypeInv, NEW r \in Runs, Classified(r)
  PROVE  /\ UNCHANGED <<rows, edges, alerts, faults>>
         /\ \A q \in Runs : q # r => run'[q] = run[q]
         /\ run[r].pc = "classify" /\ run[r].ids = {} /\ run'[r].pc = "publish"
         /\ run'[r].results = {} /\ run'[r].ids = {} /\ run'[r].found = {}
         /\ run'[r].edges = run[r].found
         /\ run'[r].alerts = {h \in run[r].found : h.finding.severity = "CRITICAL"}
<1> DEFINE critical == {h \in run[r].found : h.finding.severity = "CRITICAL"}
<1>1. Set(r, [NoRun EXCEPT !.pc = "publish", !.edges = run[r].found, !.alerts = critical])
  BY DEF Classified
<1> HIDE DEF critical
<1>2. run'[r] = [NoRun EXCEPT !.pc = "publish", !.edges = run[r].found, !.alerts = critical]
      /\ \A q \in Runs : q # r => run'[q] = run[q]
  BY <1>1, SetsOne
<1>3. /\ run'[r].pc = "publish" /\ run'[r].edges = run[r].found /\ run'[r].alerts = critical
      /\ run'[r].results = {} /\ run'[r].ids = {} /\ run'[r].found = {}
  BY <1>2 DEF NoRun
<1>4. run[r].pc = "classify" /\ run[r].ids = {} /\ UNCHANGED <<rows, edges, alerts, faults>>
  BY DEF Classified, At
<1>5. QED  BY <1>2, <1>3, <1>4 DEF critical

LEMMA WriteEdgeShape ==
  ASSUME TypeInv, NEW r \in Runs, WriteEdge(r)
  PROVE  \E h \in run[r].edges :
           /\ UNCHANGED <<rows, alerts>> /\ edges' \subseteq edges \cup {Alert(h.row, h.finding)}
           /\ \A q \in Runs : q # r => run'[q] = run[q]
           /\ run[r].pc = "publish" /\ run'[r].pc = "publish"
           /\ run'[r].results = run[r].results /\ run'[r].ids = run[r].ids
           /\ run'[r].found = run[r].found /\ run'[r].alerts = run[r].alerts
           /\ run'[r].edges \subseteq run[r].edges
           /\ faults' = 0 => faults = 0
<1>1. run[r] \in RunType  BY DEF TypeInv
<1>2. PICK h \in run[r].edges, ok \in BOOLEAN :
        /\ Outcome(ok)
        /\ edges' = IF ok THEN edges \cup {Alert(h.row, h.finding)} ELSE edges
        /\ Set(r, [run[r] EXCEPT !.edges = IF ok THEN @ \ {h} ELSE {}])
  BY DEF WriteEdge
<1>3. run'[r] = [run[r] EXCEPT !.edges = IF ok THEN @ \ {h} ELSE {}]
      /\ \A q \in Runs : q # r => run'[q] = run[q]
  BY <1>2, SetsOne
<1>4. /\ run'[r].pc = run[r].pc /\ run'[r].results = run[r].results
      /\ run'[r].ids = run[r].ids /\ run'[r].found = run[r].found
      /\ run'[r].alerts = run[r].alerts /\ run'[r].edges \subseteq run[r].edges
  BY <1>1, <1>3 DEF RunType
<1>5. faults' = 0 => faults = 0  BY <1>2, OutcomeTyped DEF TypeInv
<1>6. run[r].pc = "publish" /\ UNCHANGED <<rows, alerts>>  BY DEF WriteEdge, At
<1>7. QED  BY <1>2, <1>3, <1>4, <1>5, <1>6

LEMMA PublishShape ==
  ASSUME TypeInv, NEW r \in Runs, Publish(r)
  PROVE  \E h \in run[r].alerts :
           /\ UNCHANGED <<rows, edges>>
           /\ alerts \subseteq alerts' /\ alerts' \subseteq alerts \cup {Alert(h.row, h.finding)}
           /\ \A q \in Runs : q # r => run'[q] = run[q]
           /\ run[r].pc = "publish" /\ run'[r].pc = "publish"
           /\ run'[r].results = run[r].results /\ run'[r].ids = run[r].ids
           /\ run'[r].found = run[r].found /\ run'[r].edges = run[r].edges
           /\ run'[r].alerts \subseteq run[r].alerts
           /\ faults' = 0 => /\ faults = 0 /\ Alert(h.row, h.finding) \in alerts'
                             /\ run'[r].alerts = run[r].alerts \ {h}
<1>1. run[r] \in RunType  BY DEF TypeInv
<1>2. PICK h \in run[r].alerts, ok \in BOOLEAN, goesOn \in BOOLEAN :
        /\ ok => goesOn
        /\ Outcome(ok)
        /\ alerts' = IF ok THEN alerts \cup {Alert(h.row, h.finding)} ELSE alerts
        /\ Set(r, [run[r] EXCEPT !.alerts = IF goesOn THEN @ \ {h} ELSE {}])
  BY DEF Publish
<1>3. run'[r] = [run[r] EXCEPT !.alerts = IF goesOn THEN @ \ {h} ELSE {}]
      /\ \A q \in Runs : q # r => run'[q] = run[q]
  BY <1>2, SetsOne
<1>4. /\ run'[r].pc = run[r].pc /\ run'[r].results = run[r].results
      /\ run'[r].ids = run[r].ids /\ run'[r].found = run[r].found
      /\ run'[r].edges = run[r].edges
      /\ run'[r].alerts = IF goesOn THEN run[r].alerts \ {h} ELSE {}
  BY <1>1, <1>3 DEF RunType
<1>5. faults' = 0 => ok /\ faults = 0  BY <1>2, OutcomeTyped DEF TypeInv
<1>6. run[r].pc = "publish" /\ UNCHANGED <<rows, edges>>  BY DEF Publish, At
<1>7. QED  BY <1>2, <1>3, <1>4, <1>5, <1>6

\* Every step is one of these.
LEMMA StepCases ==
  ASSUME [Next]_vars
  PROVE  \/ UNCHANGED <<run, rows, edges, alerts, faults>>
         \/ \E r \in Runs : \/ AsksOn(r) \/ Start(r) \/ Fail(r) \/ Finish(r) \/ Store(r)
                            \/ ClassifyRow(r) \/ Classified(r) \/ WriteEdge(r) \/ Publish(r)
BY DEF Next, Step, AsksOn, Age, vars

-------------------------------------------------------------------------------
(* What is published was found *)

LEMMA OwnedKept ==
  ASSUME TypeInv, Owned, [Next]_vars
  PROVE  Owned'
<1>1. CASE UNCHANGED <<run, rows, edges, alerts, faults>>  BY <1>1 DEF Owned
<1>2. ASSUME NEW r \in Runs, AsksOn(r) PROVE Owned'
  BY <1>2, AsksOnShape DEF Owned
<1>3. ASSUME NEW r \in Runs, Start(r) \/ Fail(r) \/ Finish(r) PROVE Owned'
  BY <1>3, EndsShape DEF Owned
<1>4. ASSUME NEW r \in Runs, Store(r) PROVE Owned'
  BY <1>4, StoreShape DEF Owned
<1>5. ASSUME NEW r \in Runs, ClassifyRow(r) PROVE Owned'
  <2>1. /\ \A q \in Runs : q # r => run'[q] = run[q]
        /\ run'[r].results = run[r].results /\ run'[r].ids \subseteq run[r].ids
    BY <1>5, ClassifyShape
  <2>2. QED  BY <2>1 DEF Owned
<1>6. ASSUME NEW r \in Runs, Classified(r) PROVE Owned'
  BY <1>6, ClassifiedShape DEF Owned
<1>7. ASSUME NEW r \in Runs, WriteEdge(r) PROVE Owned'
  BY <1>7, WriteEdgeShape DEF Owned
<1>8. ASSUME NEW r \in Runs, Publish(r) PROVE Owned'
  BY <1>8, PublishShape DEF Owned
<1>9. QED  BY <1>1, <1>2, <1>3, <1>4, <1>5, <1>6, <1>7, <1>8, StepCases

LEMMA DetectedInit == Init => Owned /\ DetectedInv
BY DEF Init, NoRun, Owned, DetectedInv

\* Rows keep backing what they have backed.
LEMMA WrittenBacks ==
  ASSUME TypeInv, NEW x \in Rows, NEW n \in Nat, rows' = Written(x, n), NEW b, NEW m, Backed(b, m)
  PROVE  Backed(b, m)'
<1>1. PICK y \in rows : y.brand = b /\ y.model = m /\ y.detected > 0  BY DEF Backed
<1>2. CASE y \in rows'  BY <1>1, <1>2 DEF Backed
<1>3. CASE y \notin rows'
  <2>1. y = x /\ n > 0 /\ [x EXCEPT !.detected = n] \in rows'  BY <1>1, <1>3 DEF Written
  <2>2. [x EXCEPT !.detected = n].detected > 0 /\ [x EXCEPT !.detected = n].brand = x.brand
        /\ [x EXCEPT !.detected = n].model = x.model
    BY <2>1 DEF Rows
  <2>3. QED  BY <1>1, <2>1, <2>2 DEF Backed
<1>4. QED  BY <1>2, <1>3

LEMMA DetectedKept ==
  ASSUME TypeInv, DetectedInv, [Next]_vars
  PROVE  DetectedInv'
<1>1. CASE UNCHANGED <<run, rows, edges, alerts, faults>>  BY <1>1 DEF DetectedInv, Backed
<1>2. ASSUME NEW r \in Runs, AsksOn(r) PROVE DetectedInv'
  BY <1>2, AsksOnShape DEF DetectedInv, Backed
<1>3. ASSUME NEW r \in Runs, Start(r) \/ Fail(r) \/ Finish(r) PROVE DetectedInv'
  BY <1>3, EndsShape DEF DetectedInv, Backed
<1>4. ASSUME NEW r \in Runs, Store(r) PROVE DetectedInv'
  <2>1. rows \subseteq rows'  BY <1>4, StoreShape
  <2>2. \A b, m : Backed(b, m) => Backed(b, m)'  BY <2>1 DEF Backed
  <2>3. QED  BY <1>4, <2>2, StoreShape DEF DetectedInv
<1>5. ASSUME NEW r \in Runs, ClassifyRow(r) PROVE DetectedInv'
  <2> DEFINE F(x, v) == Classify(x.answer, Manifest[x.brand], v, FALSE)
  <2>1. PICK x \in run[r].ids, v \in BOOLEAN :
          /\ x \in Rows /\ rows' = Written(x, Cardinality(F(x, v)))
          /\ UNCHANGED <<edges, alerts, faults>>
          /\ \A q \in Runs : q # r => run'[q] = run[q]
          /\ run'[r].found = Collected(run[r].found, x, F(x, v))
          /\ run'[r].edges = run[r].edges /\ run'[r].alerts = run[r].alerts
    BY <1>5, ClassifyShape
  <2>2. Cardinality(F(x, v)) \in Nat /\ (F(x, v) # {} => Cardinality(F(x, v)) > 0)
    BY <2>1, ClassifyTyped
  <2> HIDE DEF F
  <2>3. \A b, m : Backed(b, m) => Backed(b, m)'  BY <2>1, <2>2, WrittenBacks
  <2>4. ASSUME F(x, v) # {} PROVE Backed(x.brand, x.model)'
    <3> DEFINE y == [x EXCEPT !.detected = Cardinality(F(x, v))]
    <3>1. y \in rows'  BY <2>1, <2>2, <2>4 DEF Written
    <3>2. y.brand = x.brand /\ y.model = x.model /\ y.detected > 0
      BY <2>1, <2>2, <2>4 DEF Rows
    <3> HIDE DEF y
    <3>3. QED  BY <3>1, <3>2 DEF Backed
  <2>5. ASSUME NEW h \in run'[r].found
        PROVE  h \in run[r].found \/ (h.row = x /\ F(x, v) # {})
    BY <2>1, <2>5 DEF Collected
  <2>6. ASSUME NEW q \in Runs, NEW h \in run'[q].found \cup run'[q].edges \cup run'[q].alerts
        PROVE  Backed(h.row.brand, h.row.model)'
    BY <2>1, <2>3, <2>4, <2>5, <2>6 DEF DetectedInv
  <2>7. QED  BY <2>1, <2>3, <2>6 DEF DetectedInv
<1>6. ASSUME NEW r \in Runs, Classified(r) PROVE DetectedInv'
  <2>1. run'[r].found = {} /\ run'[r].edges = run[r].found /\ run'[r].alerts \subseteq run[r].found
        /\ UNCHANGED <<rows, edges, alerts>> /\ \A q \in Runs : q # r => run'[q] = run[q]
    BY <1>6, ClassifiedShape
  <2>2. QED  BY <2>1 DEF DetectedInv, Backed
<1>7. ASSUME NEW r \in Runs, WriteEdge(r) PROVE DetectedInv'
  <2>1. PICK h \in run[r].edges :
          /\ UNCHANGED <<rows, alerts>> /\ edges' \subseteq edges \cup {Alert(h.row, h.finding)}
          /\ \A q \in Runs : q # r => run'[q] = run[q]
          /\ run'[r].found = run[r].found /\ run'[r].alerts = run[r].alerts
          /\ run'[r].edges \subseteq run[r].edges
    BY <1>7, WriteEdgeShape
  <2>2. \A b, m : Backed(b, m) => Backed(b, m)'  BY <2>1 DEF Backed
  <2>3. Backed(h.row.brand, h.row.model)  BY DEF DetectedInv
  <2>4. \A a \in edges' \cup alerts' : Backed(a.brand, a.model)
    BY <2>1, <2>3 DEF DetectedInv, Alert
  <2>5. \A q \in Runs : \A k \in run'[q].found \cup run'[q].edges \cup run'[q].alerts :
          Backed(k.row.brand, k.row.model)
    BY <2>1 DEF DetectedInv
  <2>6. QED  BY <2>2, <2>4, <2>5 DEF DetectedInv
<1>8. ASSUME NEW r \in Runs, Publish(r) PROVE DetectedInv'
  <2>1. PICK h \in run[r].alerts :
          /\ UNCHANGED <<rows, edges>> /\ alerts' \subseteq alerts \cup {Alert(h.row, h.finding)}
          /\ \A q \in Runs : q # r => run'[q] = run[q]
          /\ run'[r].found = run[r].found /\ run'[r].edges = run[r].edges
          /\ run'[r].alerts \subseteq run[r].alerts
    BY <1>8, PublishShape
  <2>2. \A b, m : Backed(b, m) => Backed(b, m)'  BY <2>1 DEF Backed
  <2>3. Backed(h.row.brand, h.row.model)  BY DEF DetectedInv
  <2>4. \A a \in edges' \cup alerts' : Backed(a.brand, a.model)
    BY <2>1, <2>3 DEF DetectedInv, Alert
  <2>5. \A q \in Runs : \A k \in run'[q].found \cup run'[q].edges \cup run'[q].alerts :
          Backed(k.row.brand, k.row.model)
    BY <2>1 DEF DetectedInv
  <2>6. QED  BY <2>2, <2>4, <2>5 DEF DetectedInv
<1>9. QED  BY <1>1, <1>2, <1>3, <1>4, <1>5, <1>6, <1>7, <1>8, StepCases

-------------------------------------------------------------------------------
(* What was found to be critical is published *)

LEMMA AlertInit == Init => AlertInv
BY DEF Init, AlertInv

\* A row of another run, or of this one where nothing about it changes.
LEMMA StillTracked ==
  ASSUME TypeInv, NEW r \in Runs, NEW x, Tracked(r, x), run'[r] = run[r], alerts \subseteq alerts'
  PROVE  Tracked(r, x)'
<1>1. run[r].pc \in Asking \cup {"idle", "classify", "publish", "over"}
  BY DEF TypeInv, RunType, Asking
<1>2. CASE run[r].pc = "idle"  BY <1>2 DEF Tracked
<1>3. CASE run[r].pc \in Asking  BY <1>3 DEF Tracked, Asking
<1>4. CASE run[r].pc = "classify"  BY <1>4 DEF Tracked, Critical, For
<1>5. CASE run[r].pc = "publish"
  <2>1. \A f \in Critical(x) : Alert(x, f) \in alerts \/ \E h \in run[r].alerts : For(h, x, f)
    BY <1>5 DEF Tracked
  <2>2. \A f \in Critical(x) : Alert(x, f) \in alerts' \/ \E h \in run'[r].alerts : For(h, x, f)
    BY <2>1
  <2>3. QED  BY <1>5, <2>2 DEF Tracked, Critical, For
<1>6. CASE run[r].pc = "over"
  <2>1. \A f \in Critical(x) : Alert(x, f) \in alerts'  BY <1>6 DEF Tracked
  <2>2. QED  BY <1>6, <2>1 DEF Tracked, Critical
<1>7. QED  BY <1>1, <1>2, <1>3, <1>4, <1>5, <1>6

LEMMA AlertKept ==
  ASSUME TypeInv, Owned, AlertInv, [Next]_vars, faults' = 0
  PROVE  AlertInv'
<1>1. CASE UNCHANGED <<run, rows, edges, alerts, faults>>
  BY <1>1 DEF AlertInv, Tracked, Critical
<1>2. ASSUME NEW r \in Runs, AsksOn(r), NEW q \in Runs, NEW x \in rows', x.run = q
      PROVE  Tracked(q, x)'
  <2>1. x \in rows /\ Tracked(q, x)  BY <1>2, AsksOnShape DEF AlertInv
  <2>2. CASE q # r  BY <1>2, <2>1, <2>2, AsksOnShape, StillTracked
  <2>3. CASE q = r
    <3>1. x \in run[r].ids  BY <1>2, <2>1, <2>3, AsksOnShape DEF Tracked, Asking
    <3>2. QED  BY <1>2, <2>3, <3>1, AsksOnShape DEF Tracked, Asking
  <2>4. QED  BY <2>2, <2>3
<1>3. ASSUME NEW r \in Runs, Start(r) \/ Fail(r) \/ Finish(r), NEW q \in Runs, NEW x \in rows',
             x.run = q
      PROVE  Tracked(q, x)'
  <2>1. x \in rows /\ Tracked(q, x)  BY <1>3, EndsShape DEF AlertInv
  <2>2. CASE q # r  BY <1>3, <2>1, <2>2, EndsShape, StillTracked
  <2>3. CASE q = r
    <3>1. run[r].pc = "publish" /\ run[r].alerts = {} /\ run'[r].pc = "over" /\ alerts' = alerts
      BY <1>3, <2>1, <2>3, EndsShape DEF Tracked
    <3>2. QED  BY <2>1, <2>3, <3>1 DEF Tracked, Critical
  <2>4. QED  BY <2>2, <2>3
<1>4. ASSUME NEW r \in Runs, Store(r), NEW q \in Runs, NEW x \in rows', x.run = q
      PROVE  Tracked(q, x)'
  <2>1. PICK y \in run[r].results :
          /\ rows' = rows \cup {y} /\ UNCHANGED <<edges, alerts, faults>>
          /\ \A k \in Runs : k # r => run'[k] = run[k]
          /\ run[r].pc = "store" /\ run'[r].pc = "store"
          /\ run'[r].ids = run[r].ids \cup {y}
    BY <1>4, StoreShape
  <2>2. y.run = r  BY DEF Owned
  <2>3. x = y \/ (x \in rows /\ Tracked(q, x))  BY <1>4, <2>1 DEF AlertInv
  <2>4. CASE q # r  BY <1>4, <2>1, <2>2, <2>3, <2>4, StillTracked
  <2>5. CASE q = r  BY <1>4, <2>1, <2>3, <2>5 DEF Tracked
  <2>6. QED  BY <2>4, <2>5
<1>5. ASSUME NEW r \in Runs, ClassifyRow(r), NEW q \in Runs, NEW x \in rows', x.run = q
      PROVE  Tracked(q, x)'
  <2> DEFINE F(y, v) == Classify(y.answer, Manifest[y.brand], v, FALSE)
  <2>1. PICK y \in run[r].ids, v \in BOOLEAN :
          /\ y \in Rows /\ rows' = Written(y, Cardinality(F(y, v)))
          /\ UNCHANGED <<edges, alerts, faults>>
          /\ \A k \in Runs : k # r => run'[k] = run[k]
          /\ run[r].pc = "classify" /\ run'[r].pc = "classify"
          /\ run'[r].ids = run[r].ids \ {y}
          /\ run'[r].found = Collected(run[r].found, y, F(y, v))
    BY <1>5, ClassifyShape
  <2>2. y.run = r /\ Critical(y) \subseteq F(y, v)  BY <2>1, ClassifyTyped DEF Owned
  <2> DEFINE z == [y EXCEPT !.detected = Cardinality(F(y, v))]
  <2> HIDE DEF F
  <2>3. z.run = r /\ z.answer = y.answer /\ z.brand = y.brand /\ z.model = y.model
    BY <2>1, <2>2 DEF Rows
  <2>4. x \in rows \/ x = z  BY <1>5, <2>1 DEF Written
  <2> HIDE DEF z
  <2>5. x # z => Tracked(q, x)  BY <1>5, <2>1, <2>4 DEF AlertInv
  <2>6. CASE q # r  BY <1>5, <2>1, <2>3, <2>4, <2>5, <2>6, StillTracked
  <2>7. CASE q = r /\ x # z /\ x # y
    <3>1. x \in run[r].ids \/ \A f \in Critical(x) : \E h \in run[r].found : For(h, x, f)
      BY <2>1, <2>5, <2>7 DEF Tracked
    <3>2. CASE x \in run[r].ids  BY <2>1, <2>7, <3>2 DEF Tracked
    <3>3. CASE \A f \in Critical(x) : \E h \in run[r].found : For(h, x, f)
      <4>1. run[r].found \subseteq run'[r].found  BY <2>1 DEF Collected
      <4>2. \A f \in Critical(x) : \E h \in run'[r].found : For(h, x, f)  BY <3>3, <4>1
      <4>3. QED  BY <2>1, <2>7, <4>2 DEF Tracked, Critical, For
    <3>4. QED  BY <3>1, <3>2, <3>3
  <2>8. CASE q = r /\ (x = z \/ x = y)
    <3>1. Critical(x) = Critical(y) /\ \A f : Alert(x, f) = Alert(y, f)
      BY <2>3, <2>8 DEF Critical, Alert
    <3>2. ASSUME NEW f \in Critical(x) PROVE \E h \in run'[r].found : For(h, x, f)
      <4>1. f \in F(y, v) /\ f.severity = "CRITICAL"  BY <2>2, <3>1, <3>2 DEF Critical
      <4>2. [row |-> y, finding |-> f] \in run'[r].found  BY <2>1, <4>1 DEF Collected
      <4>3. For([row |-> y, finding |-> f], x, f)  BY <3>1, <4>1 DEF For
      <4>4. QED  BY <4>2, <4>3
    <3>3. QED  BY <2>1, <2>8, <3>2 DEF Tracked, Critical, For
  <2>9. QED  BY <2>6, <2>7, <2>8
<1>6. ASSUME NEW r \in Runs, Classified(r), NEW q \in Runs, NEW x \in rows', x.run = q
      PROVE  Tracked(q, x)'
  <2>1. x \in rows /\ Tracked(q, x)  BY <1>6, ClassifiedShape DEF AlertInv
  <2>2. CASE q # r  BY <1>6, <2>1, <2>2, ClassifiedShape, StillTracked
  <2>3. CASE q = r
    <3>1. \A f \in Critical(x) : \E h \in run[r].found : For(h, x, f)
      BY <1>6, <2>1, <2>3, ClassifiedShape DEF Tracked
    <3>2. run'[r].pc = "publish"
          /\ run'[r].alerts = {h \in run[r].found : h.finding.severity = "CRITICAL"}
      BY <1>6, ClassifiedShape
    <3>3. \A f \in Critical(x) : \E h \in run'[r].alerts : For(h, x, f)
      BY <3>1, <3>2 DEF For
    <3>4. QED  BY <2>3, <3>2, <3>3 DEF Tracked, Critical, For
  <2>4. QED  BY <2>2, <2>3
<1>7. ASSUME NEW r \in Runs, WriteEdge(r), NEW q \in Runs, NEW x \in rows', x.run = q
      PROVE  Tracked(q, x)'
  <2>1. rows' = rows /\ alerts' = alerts /\ faults = 0
        /\ \A k \in Runs : k # r => run'[k] = run[k]
    BY <1>7, WriteEdgeShape
  <2>2. x \in rows /\ Tracked(q, x)  BY <1>7, <2>1 DEF AlertInv
  <2>3. CASE q # r  BY <2>1, <2>2, <2>3, StillTracked
  <2>4. CASE q = r
    <3>1. /\ run[r].pc = "publish" /\ run'[r].pc = "publish"
          /\ run'[r].alerts = run[r].alerts /\ alerts' = alerts
      BY <1>7, WriteEdgeShape
    <3>2. \A f \in Critical(x) : Alert(x, f) \in alerts \/ \E h \in run[r].alerts : For(h, x, f)
      BY <2>2, <2>4, <3>1 DEF Tracked
    <3>3. QED  BY <2>4, <3>1, <3>2 DEF Tracked, Critical, For
  <2>5. QED  BY <2>3, <2>4
<1>8. ASSUME NEW r \in Runs, Publish(r), NEW q \in Runs, NEW x \in rows', x.run = q
      PROVE  Tracked(q, x)'
  <2>1. PICK h \in run[r].alerts :
          /\ rows' = rows /\ alerts \subseteq alerts'
          /\ \A k \in Runs : k # r => run'[k] = run[k]
          /\ run[r].pc = "publish" /\ run'[r].pc = "publish"
          /\ faults = 0 /\ Alert(h.row, h.finding) \in alerts'
          /\ run'[r].alerts = run[r].alerts \ {h}
    BY <1>8, PublishShape
  <2>2. x \in rows /\ Tracked(q, x)  BY <1>8, <2>1 DEF AlertInv
  <2>3. CASE q # r  BY <2>1, <2>2, <2>3, StillTracked
  <2>4. CASE q = r
    <3>1. ASSUME NEW f \in Critical(x)
          PROVE  Alert(x, f) \in alerts' \/ \E k \in run'[r].alerts : For(k, x, f)
      BY <2>1, <2>2, <2>4, <3>1 DEF Tracked, For
    <3>2. QED  BY <2>1, <2>4, <3>1 DEF Tracked, Critical, For
  <2>5. QED  BY <2>3, <2>4
<1>9. QED
  BY <1>1, <1>2, <1>3, <1>4, <1>5, <1>6, <1>7, <1>8, StepCases DEF AlertInv

-------------------------------------------------------------------------------
(* The cap: what a run may still spend is counted in units, each a prompt of *)
(* its current model and a part of what one call can cost.                   *)

\* The units of a run in state rec: those of the prompts it has not sent, and of the call it
\* has not yet recorded.
MaySpend(rec) ==
  {u \in (1..NPrompts) \X (1..MaxCost) :
     /\ rec.model # {}
     /\ \/ rec.pc = "call" /\ u[1] >= rec.prompt
        \/ rec.pc = "log" /\ (u[1] > rec.prompt \/ (u[1] = rec.prompt /\ u[2] <= rec.cost))}

Units == Runs \X ((1..NPrompts) \X (1..MaxCost))

Committed == {u \in Units : u[2] \in MaySpend(run[u[1]])}

\* A run has a model in hand only while it asks it.
Counts(rec) ==
  /\ rec.prompt \in 1..NPrompts /\ rec.cost \in 0..MaxCost
  /\ rec.model # {} => rec.pc \in {"call", "log"}
  /\ rec.pc = "log" => rec.model # {}

Limit == Cap + Cardinality(Runs) * NPrompts * MaxCost

BudgetInv ==
  /\ spent \in Nat
  /\ \A r \in Runs : Counts(run[r])
  /\ faults = 0 => spent + Cardinality(Committed) < Limit

LEMMA CountTo ==
  ASSUME NEW n \in Nat
  PROVE  IsFiniteSet(1..n) /\ Cardinality(1..n) = n
<1>1. 1 \in Int /\ n \in Int  OBVIOUS
<1>2. IsFiniteSet(1..n) /\ Cardinality(1..n) = IF 1 > n THEN 0 ELSE n - 1 + 1
  BY <1>1, FS_Interval, Zenon
<1>3. QED  BY <1>2

\* There are as many units as the bound allows beyond the cap.
LEMMA UnitsCounted ==
  /\ IsFiniteSet(Units) /\ Cardinality(Units) \in Nat \ {0}
  /\ Limit = Cap + Cardinality(Units)
<1> DEFINE P == 1..NPrompts  M == 1..MaxCost
<1>1. IsFiniteSet(P) /\ Cardinality(P) = NPrompts  BY CountTo
<1>2. IsFiniteSet(M) /\ Cardinality(M) = MaxCost  BY CountTo
<1>3. Units # {}
  <2>1. 1 \in P /\ 1 \in M  OBVIOUS
  <2>2. PICK r : r \in Runs  OBVIOUS
  <2>3. <<r, <<1, 1>>>> \in Units  BY <2>1, <2>2 DEF Units
  <2>4. QED  BY <2>3
<1> HIDE DEF P, M
<1>4. IsFiniteSet(P \X M) /\ Cardinality(P \X M) = NPrompts * MaxCost
  BY <1>1, <1>2, FS_Product
<1>5. IsFiniteSet(Runs \X (P \X M))
      /\ Cardinality(Runs \X (P \X M)) = Cardinality(Runs) * Cardinality(P \X M)
  BY <1>4, FS_Product
<1>6. Units = Runs \X (P \X M)  BY DEF Units, P, M
<1>7. Cardinality(Units) = Cardinality(Runs) * (NPrompts * MaxCost)  BY <1>4, <1>5, <1>6
<1>8. Cardinality(Runs) \in Nat  BY FS_CardinalityType
<1>9. Cardinality(Units) \in Nat \ {0}
  BY <1>3, <1>5, <1>6, FS_CardinalityType, FS_EmptySet
<1>10. Limit = Cap + Cardinality(Units)
  <2>1. PICK n \in Nat : n = Cardinality(Runs)  BY <1>8
  <2>2. n * NPrompts * MaxCost = n * (NPrompts * MaxCost)  BY SMTT(30)
  <2>3. QED  BY <1>7, <2>1, <2>2 DEF Limit
<1>11. QED  BY <1>5, <1>6, <1>9, <1>10

\* A set of units is counted, and a part of it counts no more.
LEMMA PartCounted ==
  ASSUME NEW S, NEW T, S \subseteq T, T \subseteq Units
  PROVE  /\ IsFiniteSet(S) /\ Cardinality(S) \in Nat /\ Cardinality(T) \in Nat
         /\ Cardinality(S) <= Cardinality(T)
<1>1. IsFiniteSet(T)  BY UnitsCounted, FS_Subset
<1>2. IsFiniteSet(S) /\ Cardinality(S) <= Cardinality(T)  BY <1>1, FS_Subset
<1>3. QED  BY <1>1, <1>2, FS_CardinalityType

\* A run that may spend no more than before, with nothing recorded, keeps the bound.
LEMMA LessCommitted ==
  ASSUME BudgetInv, spent' \in Nat, spent' <= spent, faults' = 0 => faults = 0,
         faults' = 0 => Committed' \subseteq Committed
  PROVE  faults' = 0 => spent' + Cardinality(Committed') < Limit
<1> SUFFICES ASSUME faults' = 0 PROVE spent' + Cardinality(Committed') < Limit  OBVIOUS
<1>1. Committed \subseteq Units  BY DEF Committed
<1>2. /\ Cardinality(Committed') \in Nat /\ Cardinality(Committed) \in Nat
      /\ Cardinality(Committed') <= Cardinality(Committed)
  BY <1>1, PartCounted
<1>3. spent \in Nat /\ spent + Cardinality(Committed) < Limit  BY DEF BudgetInv
<1>4. Limit \in Nat  BY UnitsCounted
<1>5. QED  BY <1>2, <1>3, <1>4

\* It is enough to look at the run that steps.
LEMMA CommittedShrinks ==
  ASSUME NEW r \in Runs, \A q \in Runs : q # r => run'[q] = run[q],
         MaySpend(run'[r]) \subseteq MaySpend(run[r])
  PROVE  Committed' \subseteq Committed
<1> SUFFICES ASSUME NEW u \in Units, u[2] \in MaySpend(run'[u[1]])
             PROVE  u[2] \in MaySpend(run[u[1]])
  BY DEF Committed, MaySpend, Units
<1>1. u[1] \in Runs  BY DEF Units
<1>2. QED  BY <1>1

LEMMA CountsStay ==
  ASSUME BudgetInv, NEW r \in Runs, \A q \in Runs : q # r => run'[q] = run[q],
         Counts(run'[r])
  PROVE  \A q \in Runs : Counts(run'[q])
BY DEF BudgetInv

\* With the answer recorded or given up, what is left are the prompts behind it.
LEMMA AskedSpends ==
  ASSUME NEW rec \in RunType, Counts(rec), rec.pc = "call", rec.model # {}
  PROVE  /\ Counts(Asked(rec))
         /\ MaySpend(Asked(rec)) = {u \in (1..NPrompts) \X (1..MaxCost) : u[1] > rec.prompt}
<1>1. rec.prompt \in 1..NPrompts /\ rec.cost \in 0..MaxCost  BY DEF Counts
<1>2. CASE rec.prompt = NPrompts
  <2>1. Asked(rec) = [rec EXCEPT !.model = {}]  BY <1>2 DEF Asked
  <2>2. Asked(rec).model = {} /\ Asked(rec).prompt = rec.prompt /\ Asked(rec).cost = rec.cost
        /\ Asked(rec).pc = rec.pc
    BY <2>1 DEF RunType
  <2>3. \A u \in (1..NPrompts) \X (1..MaxCost) : ~(u[1] > rec.prompt)  BY <1>2
  <2>4. QED  BY <1>1, <2>2, <2>3 DEF Counts, MaySpend
<1>3. CASE rec.prompt # NPrompts
  <2>1. Asked(rec) = [rec EXCEPT !.prompt = @ + 1]  BY <1>3 DEF Asked
  <2>2. Asked(rec).model = rec.model /\ Asked(rec).prompt = rec.prompt + 1
        /\ Asked(rec).cost = rec.cost /\ Asked(rec).pc = rec.pc
    BY <2>1 DEF RunType
  <2>3. rec.prompt + 1 \in 1..NPrompts  BY <1>1, <1>3
  <2>4. \A u \in (1..NPrompts) \X (1..MaxCost) : u[1] > rec.prompt <=> u[1] >= rec.prompt + 1
    BY <1>1
  <2>5. QED  BY <1>1, <2>2, <2>3, <2>4 DEF Counts, MaySpend
<1>4. QED  BY <1>2, <1>3

LEMMA BudgetInit == Init => BudgetInv
<1> SUFFICES ASSUME Init PROVE BudgetInv  OBVIOUS
<1>1. \A r \in Runs : run[r] = NoRun  BY DEF Init
<1>2. Counts(NoRun) /\ MaySpend(NoRun) = {}
  <2>1. NoRun.model = {} /\ NoRun.pc = "idle" /\ NoRun.prompt = 1 /\ NoRun.cost = 0  BY DEF NoRun
  <2>2. 1 \in 1..NPrompts /\ 0 \in 0..MaxCost  OBVIOUS
  <2>3. QED  BY <2>1, <2>2 DEF Counts, MaySpend
<1>3. Committed = {}  BY <1>1, <1>2 DEF Committed, Units
<1>4. Cardinality(Committed) = 0  BY <1>3, FS_EmptySet
<1>5. spent \in Nat /\ spent <= Cap  BY DEF Init
<1>6. spent + Cardinality(Committed) < Limit  BY <1>4, <1>5, UnitsCounted
<1>7. QED  BY <1>1, <1>2, <1>5, <1>6 DEF BudgetInv

\* A model gets its prompts only below the cap, so what the runs then may spend together is
\* what the bound allows.
LEMMA BudgetCheck ==
  ASSUME TypeInv, BudgetInv, NEW r \in Runs, Check(r)
  PROVE  BudgetInv'
<1> DEFINE skip(m) == [run[r] EXCEPT !.models = @ \ {m}]
           Next1(m, ok) == IF ok /\ Exceeded THEN skip(m)
                                            ELSE [skip(m) EXCEPT !.model = {m}, !.prompt = 1]
<1>1. PICK ok \in BOOLEAN, m \in run[r].models : Outcome(ok) /\ Set(r, Next1(m, ok))
  BY DEF Check
<1>2. run'[r] = Next1(m, ok) /\ \A q \in Runs : q # r => run'[q] = run[q]
  <2> HIDE DEF Next1
  <2> QED  BY <1>1, SetsOne
<1>3. (faults' = 0 => ok /\ faults = 0) /\ spent' = spent /\ spent \in Nat
      /\ run[r].pc = "call" /\ run[r].model = {} /\ Counts(run[r]) /\ run[r] \in RunType
  BY <1>1, OutcomeTyped DEF Check, At, TypeInv, BudgetInv
<1>4. CASE run'[r] = skip(m) /\ (faults' = 0 => Exceeded)
  <2>1. run'[r].pc = "call" /\ run'[r].model = {} /\ run'[r].prompt = run[r].prompt
        /\ run'[r].cost = run[r].cost
    BY <1>3, <1>4 DEF RunType
  <2>2. Counts(run'[r]) /\ MaySpend(run'[r]) = {}  BY <1>3, <2>1 DEF Counts, MaySpend
  <2>3. Committed' \subseteq Committed  BY <1>2, <2>2, CommittedShrinks
  <2>4. faults' = 0 => spent' + Cardinality(Committed') < Limit  BY <1>3, <2>3, LessCommitted
  <2>5. QED  BY <1>2, <1>3, <2>2, <2>4, CountsStay DEF BudgetInv, Committed
<1>5. CASE run'[r] = [skip(m) EXCEPT !.model = {m}, !.prompt = 1] /\ (faults' = 0 => ~Exceeded)
  <2>1. run'[r].pc = "call" /\ run'[r].prompt = 1 /\ run'[r].cost = run[r].cost
    <3>1. PICK k : k = skip(m)  OBVIOUS
    <3>2. k \in RunType /\ k.pc = "call" /\ k.cost = run[r].cost  BY <1>3, <3>1 DEF RunType
    <3> HIDE DEF skip
    <3>3. run'[r] = [k EXCEPT !.model = {m}, !.prompt = 1]  BY <1>5, <3>1
    <3>4. QED  BY <3>2, <3>3 DEF RunType
  <2>2. Counts(run'[r])  BY <1>3, <2>1 DEF Counts
  <2>3. Committed' \subseteq Units  BY DEF Committed
  <2>4. Cardinality(Committed') \in Nat /\ Cardinality(Committed') <= Cardinality(Units)
    BY <2>3, PartCounted
  <2>5. faults' = 0 => spent' + Cardinality(Committed') < Limit
    BY <1>3, <1>5, <2>4, UnitsCounted DEF Exceeded
  <2>6. QED  BY <1>2, <1>3, <2>2, <2>5, CountsStay DEF BudgetInv, Committed
<1>6. QED
  <2> HIDE DEF skip
  <2>1. CASE ok /\ Exceeded  BY <1>2, <1>4, <2>1
  <2>2. CASE ~(ok /\ Exceeded)  BY <1>2, <1>3, <1>5, <2>2
  <2>3. QED  BY <2>1, <2>2

\* An answer costs no more than what its prompt was given.
LEMMA BudgetCall ==
  ASSUME TypeInv, BudgetInv, NEW r \in Runs, Call(r)
  PROVE  BudgetInv'
<1> DEFINE Row(m, x) == [run |-> r, brand |-> m[1], model |-> m[2],
                         prompt |-> run[r].prompt, answer |-> x, detected |-> 0]
           Answered(m, x, c) == [run[r] EXCEPT !.pc = "log", !.cost = c,
                                               !.results = @ \cup {Row(m, x)}]
<1>1. PICK m \in run[r].model, ok \in BOOLEAN :
        /\ Outcome(ok)
        /\ IF ok THEN \E x \in Answers, c \in 0..MaxCost : Set(r, Answered(m, x, c))
                 ELSE Set(r, Asked(run[r]))
  BY DEF Call
<1>2. /\ faults' = 0 => faults = 0
      /\ spent' = spent /\ spent \in Nat /\ run[r].pc = "call" /\ run[r].model # {}
      /\ Counts(run[r]) /\ run[r] \in RunType
  BY <1>1, OutcomeTyped DEF Call, At, TypeInv, BudgetInv
<1>3. (\A q \in Runs : q # r => run'[q] = run[q])
      /\ Counts(run'[r]) /\ MaySpend(run'[r]) \subseteq MaySpend(run[r])
  <2>1. CASE ok
    <3>1. PICK x \in Answers, c \in 0..MaxCost : Set(r, Answered(m, x, c))  BY <1>1, <2>1
    <3>2. run'[r] = Answered(m, x, c) /\ \A q \in Runs : q # r => run'[q] = run[q]
      <4> HIDE DEF Answered
      <4> QED  BY <3>1, SetsOne
    <3> HIDE DEF Row
    <3>3. run'[r].pc = "log" /\ run'[r].cost = c /\ run'[r].model = run[r].model
          /\ run'[r].prompt = run[r].prompt
      BY <1>2, <3>2 DEF RunType
    <3>4. Counts(run'[r])  BY <1>2, <3>3 DEF Counts
    <3>5. run[r].prompt \in Int  BY <1>2 DEF RunType
    <3>6. MaySpend(run'[r]) \subseteq MaySpend(run[r])  BY <1>2, <3>3, <3>5 DEF MaySpend
    <3>7. QED  BY <3>2, <3>4, <3>6
  <2>2. CASE ~ok
    <3>1. run'[r] = Asked(run[r]) /\ \A q \in Runs : q # r => run'[q] = run[q]
      BY <1>1, <2>2, SetsOne
    <3>2. Counts(run'[r]) /\ MaySpend(run'[r])
                               = {u \in (1..NPrompts) \X (1..MaxCost) : u[1] > run[r].prompt}
      BY <1>2, <3>1, AskedSpends
    <3>3. run[r].prompt \in Int  BY <1>2 DEF RunType
    <3>4. MaySpend(run'[r]) \subseteq MaySpend(run[r])  BY <1>2, <3>2, <3>3 DEF MaySpend
    <3>5. QED  BY <3>1, <3>2, <3>4
  <2>3. QED  BY <2>1, <2>2
<1>4. Committed' \subseteq Committed  BY <1>3, CommittedShrinks
<1>5. faults' = 0 => spent' + Cardinality(Committed') < Limit  BY <1>2, <1>4, LessCommitted
<1>6. QED  BY <1>2, <1>3, <1>5, CountsStay DEF BudgetInv, Committed

\* What is recorded was committed, and no longer is.
LEMMA BudgetLog ==
  ASSUME TypeInv, BudgetInv, NEW r \in Runs, LogCost(r)
  PROVE  BudgetInv'
<1> DEFINE k == [run[r] EXCEPT !.pc = "call", !.cost = 0]
           p == run[r].prompt
           c == run[r].cost
<1>1. PICK ok \in BOOLEAN : Outcome(ok) /\ spent' = IF ok THEN spent + c ELSE spent
  BY DEF LogCost
<1>2. run[r] \in RunType /\ run[r].pc = "log" /\ Counts(run[r]) /\ run[r].model # {}
      /\ (faults' = 0 => ok /\ faults = 0) /\ spent \in Nat
  BY <1>1, OutcomeTyped DEF TypeInv, LogCost, At, BudgetInv, Counts
<1>3. p \in 1..NPrompts /\ c \in 0..MaxCost  BY <1>2 DEF Counts
<1>4. k \in RunType /\ k.pc = "call" /\ k.model = run[r].model /\ k.prompt = p /\ k.cost = 0
  <2>1. [run[r] EXCEPT !.pc = "call"] \in RunType  BY <1>2 DEF RunType
  <2>2. [[run[r] EXCEPT !.pc = "call"] EXCEPT !.cost = 0] \in RunType
    <3>1. 0 \in Int  OBVIOUS
    <3>2. QED  BY <2>1, <3>1, NumbersTyped, Zenon
  <2>3. k \in RunType  BY <2>2
  <2>4. QED  BY <1>2, <2>3 DEF RunType
<1>5. Set(r, Asked(k))  BY DEF LogCost
<1>6. Counts(k)  BY <1>2, <1>3, <1>4 DEF Counts
<1> HIDE DEF k
<1>7. run'[r] = Asked(k) /\ \A q \in Runs : q # r => run'[q] = run[q]  BY <1>5, SetsOne
<1> DEFINE Behind == {u \in (1..NPrompts) \X (1..MaxCost) : u[1] > p}
           Paid == {r} \X ({p} \X (1..c))
<1>8. Counts(run'[r]) /\ MaySpend(run'[r]) = Behind
  BY <1>2, <1>4, <1>6, <1>7, AskedSpends
<1>9. MaySpend(run[r]) = Behind \cup ({p} \X (1..c))
  BY <1>2, <1>3 DEF MaySpend
<1> HIDE DEF p, c
<1>10. Committed' \subseteq Committed \ Paid /\ Paid \subseteq Committed
  <2>1. \A u \in Behind : u \notin {p} \X (1..c)  BY <1>3
  <2> HIDE DEF Behind
  <2>2. {p} \X (1..c) \subseteq (1..NPrompts) \X (1..MaxCost)  BY <1>3
  <2>3. Paid \subseteq Committed  BY <1>9, <2>2 DEF Committed, Units
  <2>4. ASSUME NEW u \in Units, u[2] \in MaySpend(run'[u[1]])
        PROVE  u[2] \in MaySpend(run[u[1]]) /\ u \notin Paid
    <3>1. u[1] \in Runs  BY DEF Units
    <3>2. CASE u[1] = r  BY <1>8, <1>9, <2>1, <2>4, <3>2
    <3>3. CASE u[1] # r  BY <1>7, <2>4, <3>1, <3>3
    <3>4. QED  BY <3>2, <3>3
  <2>5. QED  BY <2>3, <2>4 DEF Committed, Units, MaySpend
<1>11. spent' \in Nat  BY <1>1, <1>2, <1>3
<1>12. ASSUME faults' = 0 PROVE spent' + Cardinality(Committed') < Limit
  <2>1. Cardinality(Paid) = c /\ IsFiniteSet(Paid)
    <3> DEFINE C == 1..c
               PC == {p} \X C
    <3>1. c \in Nat  BY <1>3
    <3>2. IsFiniteSet(C) /\ Cardinality(C) = c  BY <3>1, CountTo
    <3>3. /\ IsFiniteSet({p}) /\ Cardinality({p}) = 1
          /\ IsFiniteSet({r}) /\ Cardinality({r}) = 1
      BY FS_Singleton
    <3> HIDE DEF C
    <3>4. IsFiniteSet(PC) /\ Cardinality(PC) = 1 * c
      BY <3>2, <3>3, FS_Product, Zenon
    <3> HIDE DEF PC
    <3>5. IsFiniteSet({r} \X PC) /\ Cardinality({r} \X PC) = Cardinality({r}) * Cardinality(PC)
      BY <3>3, <3>4, FS_Product
    <3>6. Paid = {r} \X PC  BY DEF PC, C
    <3> HIDE DEF Paid
    <3>7. QED  BY <3>1, <3>3, <3>4, <3>5, <3>6
  <2>2. Committed \subseteq Units /\ IsFiniteSet(Committed)  BY UnitsCounted, FS_Subset DEF Committed
  <2> HIDE DEF Paid
  <2>3. Committed \cap Paid = Paid  BY <1>10
  <2>4. Cardinality(Committed \ Paid) = Cardinality(Committed) - c
    BY <2>1, <2>2, <2>3, FS_Difference
  <2>5. Cardinality(Committed') <= Cardinality(Committed \ Paid)
        /\ Cardinality(Committed') \in Nat /\ Cardinality(Committed) \in Nat
    <3>1. Committed \ Paid \subseteq Units  BY <2>2
    <3>2. QED  BY <1>10, <2>2, <3>1, PartCounted
  <2>6. spent + Cardinality(Committed) < Limit /\ spent' = spent + c
    BY <1>1, <1>2, <1>12 DEF BudgetInv
  <2>7. Limit \in Nat  BY UnitsCounted
  <2>8. QED  BY <1>2, <1>3, <2>4, <2>5, <2>6, <2>7
<1>13. QED  BY <1>7, <1>8, <1>11, <1>12, CountsStay DEF BudgetInv, Committed

Elsewhere(r) ==
  \/ Start(r) \/ NextBrand(r) \/ Probed(r) \/ Store(r) \/ AllProbed(r) \/ ClassifyRow(r)
  \/ Classified(r) \/ Fail(r) \/ WriteEdge(r) \/ Publish(r) \/ Finish(r)

\* No other step takes a model in hand or touches a count.
LEMMA ElsewhereShape ==
  ASSUME TypeInv, NEW r \in Runs, Counts(run[r]), Elsewhere(r)
  PROVE  /\ spent' = spent /\ (faults' = 0 => faults = 0)
         /\ \A q \in Runs : q # r => run'[q] = run[q]
         /\ run'[r].model = {}
         /\ \/ run'[r].prompt = run[r].prompt /\ run'[r].cost = run[r].cost
            \/ run'[r].prompt = 1 /\ run'[r].cost = 0
         /\ run'[r].pc # "log"
<1>1. run[r] \in RunType  BY DEF TypeInv
<1>2. ASSUME Start(r) \/ Fail(r) \/ Finish(r) \/ Classified(r)
      PROVE  /\ spent' = spent /\ (faults' = 0 => faults = 0)
             /\ \A q \in Runs : q # r => run'[q] = run[q]
             /\ run'[r].model = {} /\ run'[r].prompt = 1 /\ run'[r].cost = 0
             /\ run'[r].pc # "log"
  <2>1. CASE Start(r)
    <3>1. Set(r, [NoRun EXCEPT !.pc = "store", !.todo = Brands])  BY <2>1 DEF Start
    <3>2. run'[r] = [NoRun EXCEPT !.pc = "store", !.todo = Brands]
          /\ \A q \in Runs : q # r => run'[q] = run[q]
      BY <3>1, SetsOne
    <3>3. QED  BY <2>1, <3>2 DEF Start, NoRun
  <2>2. CASE Fail(r)
    <3>1. Set(r, [NoRun EXCEPT !.pc = "over"]) /\ Outcome(FALSE)  BY <2>2 DEF Fail
    <3>2. faults' = 0 => faults = 0  BY <3>1, OutcomeTyped DEF TypeInv
    <3>3. QED  BY <2>2, <3>1, <3>2, SetsOne DEF Fail, NoRun
  <2>3. CASE Finish(r)
    <3>1. Set(r, [NoRun EXCEPT !.pc = "over"])  BY <2>3 DEF Finish
    <3>2. QED  BY <2>3, <3>1, SetsOne DEF Finish, NoRun
  <2>4. CASE Classified(r)
    <3> DEFINE critical == {h \in run[r].found : h.finding.severity = "CRITICAL"}
    <3>1. Set(r, [NoRun EXCEPT !.pc = "publish", !.edges = run[r].found, !.alerts = critical])
      BY <2>4 DEF Classified
    <3> HIDE DEF critical
    <3>2. run'[r] = [NoRun EXCEPT !.pc = "publish", !.edges = run[r].found, !.alerts = critical]
          /\ \A q \in Runs : q # r => run'[q] = run[q]
      BY <3>1, SetsOne
    <3>3. QED  BY <2>4, <3>2 DEF Classified, NoRun
  <2>5. QED  BY <1>2, <2>1, <2>2, <2>3, <2>4
<1>3. ASSUME \/ NextBrand(r) \/ Probed(r) \/ AllProbed(r) \/ Store(r) \/ ClassifyRow(r)
             \/ WriteEdge(r) \/ Publish(r)
      PROVE  /\ spent' = spent /\ (faults' = 0 => faults = 0)
             /\ \A q \in Runs : q # r => run'[q] = run[q]
             /\ run[r].model = {} /\ run'[r].model = run[r].model
             /\ run'[r].prompt = run[r].prompt /\ run'[r].cost = run[r].cost
             /\ run'[r].pc # "log"
  <2>1. CASE NextBrand(r)
    <3>1. PICK b \in run[r].todo :
            Set(r, [run[r] EXCEPT !.pc = "call", !.todo = @ \ {b}, !.models = {b} \X Models])
      BY <2>1 DEF NextBrand
    <3>2. run[r].pc = "store" /\ spent' = spent /\ faults' = faults  BY <2>1 DEF NextBrand, At
    <3>3. run'[r] = [run[r] EXCEPT !.pc = "call", !.todo = @ \ {b}, !.models = {b} \X Models]
          /\ \A q \in Runs : q # r => run'[q] = run[q]
      BY <3>1, SetsOne
    <3>4. /\ run'[r].pc = "call" /\ run'[r].model = run[r].model
          /\ run'[r].prompt = run[r].prompt /\ run'[r].cost = run[r].cost
      BY <1>1, <3>3 DEF RunType
    <3>5. QED  BY <3>2, <3>3, <3>4 DEF Counts
  <2>2. CASE Probed(r)
    <3>1. Set(r, [run[r] EXCEPT !.pc = "store"])  BY <2>2 DEF Probed
    <3>2. QED  BY <1>1, <2>2, <3>1, SetsOne DEF Probed, RunType
  <2>3. CASE AllProbed(r)
    <3>1. Set(r, [run[r] EXCEPT !.pc = "classify"])  BY <2>3 DEF AllProbed
    <3>2. QED  BY <1>1, <2>3, <3>1, SetsOne DEF AllProbed, At, Counts, RunType
  <2>4. CASE Store(r)
    <3>1. PICK x \in run[r].results :
            Set(r, [run[r] EXCEPT !.results = @ \ {x}, !.ids = @ \cup {x}])
      BY <2>4 DEF Store
    <3>2. run'[r] = [run[r] EXCEPT !.results = @ \ {x}, !.ids = @ \cup {x}]
          /\ \A q \in Runs : q # r => run'[q] = run[q]
      BY <3>1, SetsOne
    <3>3. /\ run'[r].pc = run[r].pc /\ run'[r].model = run[r].model
          /\ run'[r].prompt = run[r].prompt /\ run'[r].cost = run[r].cost
      BY <1>1, <3>2 DEF RunType
    <3>4. run[r].pc = "store" /\ spent' = spent /\ faults' = faults  BY <2>4 DEF Store, At
    <3>5. QED  BY <3>2, <3>3, <3>4 DEF Counts
  <2>5. CASE ClassifyRow(r)
    <3> DEFINE F(x, v) == Classify(x.answer, Manifest[x.brand], v, FALSE)
    <3>1. PICK x \in run[r].ids, v \in BOOLEAN :
            Set(r, [run[r] EXCEPT !.ids = @ \ {x}, !.found = Collected(@, x, F(x, v))])
      BY <2>5 DEF ClassifyRow
    <3> HIDE DEF F
    <3>2. run'[r] = [run[r] EXCEPT !.ids = @ \ {x}, !.found = Collected(@, x, F(x, v))]
          /\ \A q \in Runs : q # r => run'[q] = run[q]
      BY <3>1, SetsOne
    <3>3. /\ run'[r].pc = run[r].pc /\ run'[r].model = run[r].model
          /\ run'[r].prompt = run[r].prompt /\ run'[r].cost = run[r].cost
      BY <1>1, <3>2 DEF RunType
    <3>4. run[r].pc = "classify" /\ spent' = spent /\ faults' = faults
      BY <2>5 DEF ClassifyRow, At
    <3>5. QED  BY <3>2, <3>3, <3>4 DEF Counts
  <2>6. CASE WriteEdge(r)
    <3>1. PICK h \in run[r].edges, ok \in BOOLEAN :
            Outcome(ok) /\ Set(r, [run[r] EXCEPT !.edges = IF ok THEN @ \ {h} ELSE {}])
      BY <2>6 DEF WriteEdge
    <3>2. faults' = 0 => faults = 0  BY <3>1, OutcomeTyped DEF TypeInv
    <3>3. QED  BY <1>1, <2>6, <3>1, <3>2, SetsOne DEF WriteEdge, At, Counts, RunType
  <2>7. CASE Publish(r)
    <3>1. PICK h \in run[r].alerts, ok \in BOOLEAN, goesOn \in BOOLEAN :
            Outcome(ok) /\ Set(r, [run[r] EXCEPT !.alerts = IF goesOn THEN @ \ {h} ELSE {}])
      BY <2>7 DEF Publish
    <3>2. faults' = 0 => faults = 0  BY <3>1, OutcomeTyped DEF TypeInv
    <3>3. QED  BY <1>1, <2>7, <3>1, <3>2, SetsOne DEF Publish, At, Counts, RunType
  <2>8. QED  BY <1>3, <2>1, <2>2, <2>3, <2>4, <2>5, <2>6, <2>7
<1>4. QED  BY <1>2, <1>3 DEF Elsewhere

LEMMA BudgetElsewhere ==
  ASSUME TypeInv, BudgetInv, NEW r \in Runs, Elsewhere(r)
  PROVE  BudgetInv'
<1>1. Counts(run[r]) /\ spent \in Nat  BY DEF BudgetInv
<1>2. /\ spent' = spent /\ (faults' = 0 => faults = 0)
      /\ \A q \in Runs : q # r => run'[q] = run[q]
      /\ Counts(run'[r]) /\ MaySpend(run'[r]) = {}
  <2>1. 1 \in 1..NPrompts /\ 0 \in 0..MaxCost  OBVIOUS
  <2>2. QED  BY <1>1, <2>1, ElsewhereShape DEF Counts, MaySpend
<1>3. Committed' \subseteq Committed  BY <1>2, CommittedShrinks
<1>4. spent' \in Nat /\ spent' <= spent  BY <1>1, <1>2
<1>5. faults' = 0 => spent' + Cardinality(Committed') < Limit
  BY <1>2, <1>3, <1>4, LessCommitted
<1>6. QED  BY <1>2, <1>4, <1>5, CountsStay DEF BudgetInv, Committed

LEMMA BudgetKept ==
  ASSUME TypeInv, BudgetInv, [Next]_vars
  PROVE  BudgetInv'
<1>1. CASE Age
  <2>1. spent' \in Nat /\ spent' <= spent /\ run' = run /\ faults' = faults
    BY <1>1 DEF Age, BudgetInv
  <2>2. Committed' = Committed  BY <2>1 DEF Committed
  <2>3. faults' = 0 => spent' + Cardinality(Committed') < Limit  BY <2>1, <2>2, LessCommitted
  <2>4. QED  BY <2>1, <2>3 DEF BudgetInv, Committed
<1>2. CASE UNCHANGED vars  BY <1>2 DEF vars, BudgetInv, Committed
<1>3. QED
  BY <1>1, <1>2, BudgetCheck, BudgetCall, BudgetLog, BudgetElsewhere DEF Next, Step, Elsewhere

-------------------------------------------------------------------------------
(* Theorems *)

\* Whatever fails, what is published is backed by a stored answer with a count: a row is
\* written before its findings are passed on, and never loses its count.
THEOREM PublishedAlwaysDetected == Spec => []PublishedIsDetected
<1>1. TypeInv /\ Owned /\ DetectedInv /\ [Next]_vars => (TypeInv /\ Owned /\ DetectedInv)'
  BY TypeKept, OwnedKept, DetectedKept
<1>2. DetectedInv => PublishedIsDetected  BY DEF DetectedInv, Backed, PublishedIsDetected
<1>3. QED  BY <1>1, <1>2, TypeInit, DetectedInit, PTL DEF Spec

\* Without a fault, every critical finding of a run that is over has gone to Kafka,
\* whatever the other detectors find and however many runs overlap.
THEOREM CriticalAlwaysAlerted == Spec => []CriticalAlerted
<1>1. TypeInv /\ Owned /\ AlertInv /\ [Next]_vars => (TypeInv /\ Owned /\ AlertInv)'
  <2>1. ASSUME TypeInv, Owned, AlertInv, [Next]_vars PROVE (TypeInv /\ Owned /\ AlertInv)'
    <3>1. CASE faults' = 0  BY <2>1, <3>1, TypeKept, OwnedKept, AlertKept
    <3>2. CASE faults' # 0  BY <2>1, <3>2, TypeKept, OwnedKept DEF AlertInv
    <3>3. QED  BY <3>1, <3>2
  <2>2. QED  BY <2>1
<1>2. AlertInv => CriticalAlerted  BY DEF AlertInv, Tracked, CriticalAlerted, At
<1>3. QED  BY <1>1, <1>2, TypeInit, DetectedInit, AlertInit, PTL DEF Spec

\* Without a fault, what is on record stays below the cap plus the prompts of one model for
\* each run: every run that has seen the cap not reached has spent or may spend no more than
\* those, and whoever looks next counts what is recorded only.
THEOREM OvershootIsBounded == Spec => []OvershootBounded
<1>1. BudgetInv => OvershootBounded
  <2>1. Committed \subseteq Units  BY DEF Committed
  <2>2. Cardinality(Committed) \in Nat  BY <2>1, PartCounted
  <2>3. Limit \in Nat  BY UnitsCounted
  <2>4. ASSUME BudgetInv, faults = 0 PROVE spent < Limit  BY <2>2, <2>3, <2>4 DEF BudgetInv
  <2>5. QED  BY <2>4 DEF OvershootBounded, Limit
<1>2. TypeInv /\ BudgetInv /\ [Next]_vars => (TypeInv /\ BudgetInv)'
  BY TypeKept, BudgetKept
<1>3. QED  BY <1>1, <1>2, TypeInit, BudgetInit, PTL DEF Spec

===============================================================================
