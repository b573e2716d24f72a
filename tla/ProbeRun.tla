------------------------------- MODULE ProbeRun -------------------------------
(***************************************************************************)
(* Runs of the probing DAG (dag_llm_probing.py): every brand is probed     *)
(* with every model and prompt by the BrandProber (prober.py), under a cap *)
(* on the cost of the last 24 hours; the answers are stored, classified,   *)
(* and what is found goes to the graph and, if critical, to Kafka.  Runs   *)
(* may overlap: the scheduled one and those triggered by hand.             *)
(***************************************************************************)
EXTENDS HallucinationClassifier

CONSTANTS Runs,
          Brands,     \* brands with a manifest
          Models,     \* models with an API key
          NPrompts,   \* number of prompts for a brand
          Manifest,   \* what the manifest of each brand names
          Answers,    \* the responses that the models give
          MaxCost,    \* what one call can cost
          Cap,        \* MAX_DAILY_PROBE_COST_USD
          MaxFaults   \* bound on faults

ASSUME ProbeAssumption ==
  /\ {MaxCost, Cap, NPrompts} \subseteq Nat \ {0} /\ MaxFaults \in Nat
  /\ IsFiniteSet(Runs) /\ Runs # {}
  /\ Answers \subseteq Responses
  /\ Manifest \in [Brands -> Manifests]

VARIABLES
  run,     \* each run: where it is and what its tasks have passed on
  spent,   \* sum of the costs of probes in embedding_costs in the last 24 hours
  rows,    \* probe_results
  edges,   \* HALLUCINATED_AS edges
  alerts,  \* messages in hallucination.alerts
  faults   \* history: number of faults

vars == <<run, spent, rows, edges, alerts, faults>>

NoRun == [pc |-> "idle", todo |-> {}, models |-> {}, model |-> {}, prompt |-> 1,
          results |-> {}, cost |-> 0, ids |-> {}, found |-> {}, edges |-> {}, alerts |-> {}]

Init ==
  /\ run = [r \in Runs |-> NoRun]
  /\ spent \in 0..Cap   \* what earlier runs have spent
  /\ rows = {} /\ edges = {} /\ alerts = {} /\ faults = 0

\* Something works, or a fault keeps it from working.
Outcome(ok) == IF ok THEN UNCHANGED faults ELSE faults < MaxFaults /\ faults' = faults + 1

At(r, pc) == run[r].pc = pc
Set(r, rec) == run' = [run EXCEPT ![r] = rec]

\* fetch_active_brands
Start(r) ==
  /\ At(r, "idle")
  /\ Set(r, [NoRun EXCEPT !.pc = "store", !.todo = Brands])
  /\ UNCHANGED <<spent, rows, edges, alerts, faults>>

-------------------------------------------------------------------------------
(* probe_brands *)

\* probe_brand for the next brand.
NextBrand(r) ==
  /\ At(r, "store") /\ run[r].results = {}
  /\ \E b \in run[r].todo :
       Set(r, [run[r] EXCEPT !.pc = "call", !.todo = @ \ {b}, !.models = {b} \X Models])
  /\ UNCHANGED <<spent, rows, edges, alerts, faults>>

\* Faulty: the cap may be reached exactly.
OverCap == spent > Cap

\* _daily_cost_exceeded
Exceeded == spent >= Cap

\* The cap is looked at before a model gets its prompts; if it cannot be read, they go out.
Check(r) ==
  /\ At(r, "call") /\ run[r].model = {}
  /\ \E ok \in BOOLEAN, m \in run[r].models :
       /\ Outcome(ok)
       /\ LET skip == [run[r] EXCEPT !.models = @ \ {m}] IN
          Set(r, IF ok /\ Exceeded THEN skip ELSE [skip EXCEPT !.model = {m}, !.prompt = 1])
  /\ UNCHANGED <<spent, rows, edges, alerts>>

\* With the last prompt, the model is done with.
Asked(rec) == IF rec.prompt = NPrompts THEN [rec EXCEPT !.model = {}]
                                       ELSE [rec EXCEPT !.prompt = @ + 1]

\* _probe_openai, _probe_gemini: an exception, also one after the model has answered, is
\* logged, and the next prompt follows.
Call(r) ==
  /\ At(r, "call")
  /\ \E m \in run[r].model, ok \in BOOLEAN :
       /\ Outcome(ok)
       /\ IF ok
            THEN \E x \in Answers, c \in 0..MaxCost :
                   Set(r, [run[r] EXCEPT !.pc = "log", !.cost = c,
                             !.results = @ \cup {[run |-> r, brand |-> m[1], model |-> m[2],
                                                  prompt |-> run[r].prompt, answer |-> x,
                                                  detected |-> 0]}])
            ELSE Set(r, Asked(run[r]))
  /\ UNCHANGED <<spent, rows, edges, alerts>>

\* _log_cost; a failure is logged and forgotten.
LogCost(r) ==
  /\ At(r, "log")
  /\ \E ok \in BOOLEAN :
       /\ Outcome(ok)
       /\ spent' = IF ok THEN spent + run[r].cost ELSE spent
  /\ Set(r, Asked([run[r] EXCEPT !.pc = "call", !.cost = 0]))
  /\ UNCHANGED <<rows, edges, alerts>>

\* probe_brand returns its answers.
Probed(r) ==
  /\ At(r, "call") /\ run[r].model = {} /\ run[r].models = {}
  /\ Set(r, [run[r] EXCEPT !.pc = "store"])
  /\ UNCHANGED <<spent, rows, edges, alerts, faults>>

\* Each answer is inserted and committed by itself, in the order of the prompts.
Store(r) ==
  /\ At(r, "store")
  /\ \E x \in run[r].results :
       /\ \A y \in run[r].results : y.model = x.model => x.prompt <= y.prompt
       /\ rows' = rows \cup {x}
       /\ Set(r, [run[r] EXCEPT !.results = @ \ {x}, !.ids = @ \cup {x}])
  /\ UNCHANGED <<spent, edges, alerts, faults>>

AllProbed(r) ==
  /\ At(r, "store") /\ run[r].results = {} /\ run[r].todo = {}
  /\ Set(r, [run[r] EXCEPT !.pc = "classify"])
  /\ UNCHANGED <<spent, rows, edges, alerts, faults>>

-------------------------------------------------------------------------------
(* classify_responses *)

Alert(x, f) == [brand |-> x.brand, model |-> x.model, slug |-> f.slug]

\* Faulty: the list starts again with every response.
OnlyLast(found, x, F) == {[row |-> x, finding |-> f] : f \in F}

Collected(found, x, F) == found \cup {[row |-> x, finding |-> f] : f \in F}

\* Faulty: a row is written when all are classified, and that may fail.
WrittenLater(x, n) == rows

Written(x, n) == IF n > 0 THEN (rows \ {x}) \cup {[x EXCEPT !.detected = n]} ELSE rows

\* The classifier is called without an embedding function.  The count is committed before
\* the next response is looked at.
ClassifyRow(r) ==
  /\ At(r, "classify") /\ run[r].ids # {}
  /\ \E x \in run[r].ids, vader \in BOOLEAN :
       LET F == Classify(x.answer, Manifest[x.brand], vader, FALSE) IN
       /\ rows' = Written(x, Cardinality(F))
       /\ Set(r, [run[r] EXCEPT !.ids = @ \ {x}, !.found = Collected(@, x, F)])
  /\ UNCHANGED <<spent, edges, alerts, faults>>

\* The result goes to the two tasks behind.
Classified(r) ==
  /\ At(r, "classify") /\ run[r].ids = {}
  /\ LET critical == {h \in run[r].found : h.finding.severity = "CRITICAL"} IN
     Set(r, [NoRun EXCEPT !.pc = "publish", !.edges = run[r].found, !.alerts = critical])
  /\ UNCHANGED <<spent, rows, edges, alerts, faults>>

\* A task before these two, or the process it runs in, fails: there is no retry, and
\* nothing behind it runs.
Fail(r) ==
  /\ run[r].pc \notin {"idle", "publish", "over"}
  /\ Outcome(FALSE)
  /\ Set(r, [NoRun EXCEPT !.pc = "over"])
  /\ UNCHANGED <<spent, rows, edges, alerts>>

\* write_hallucinations_to_graph: an exception ends it.
WriteEdge(r) ==
  /\ At(r, "publish") /\ run[r].edges # {}
  /\ \E h \in run[r].edges, ok \in BOOLEAN :
       /\ Outcome(ok)
       /\ edges' = IF ok THEN edges \cup {Alert(h.row, h.finding)} ELSE edges
       /\ Set(r, [run[r] EXCEPT !.edges = IF ok THEN @ \ {h} ELSE {}])
  /\ UNCHANGED <<spent, rows, alerts>>

\* publish_critical_alerts: what the last flush does not deliver in time is lost, and an
\* exception ends the task with what was produced.
Publish(r) ==
  /\ At(r, "publish") /\ run[r].alerts # {}
  /\ \E h \in run[r].alerts, ok, goesOn \in BOOLEAN :
       /\ ok => goesOn
       /\ Outcome(ok)
       /\ alerts' = IF ok THEN alerts \cup {Alert(h.row, h.finding)} ELSE alerts
       /\ Set(r, [run[r] EXCEPT !.alerts = IF goesOn THEN @ \ {h} ELSE {}])
  /\ UNCHANGED <<spent, rows, edges>>

Finish(r) ==
  /\ At(r, "publish") /\ run[r].edges = {} /\ run[r].alerts = {}
  /\ Set(r, [NoRun EXCEPT !.pc = "over"])
  /\ UNCHANGED <<spent, rows, edges, alerts, faults>>

\* Costs leave the 24 hours.
Age ==
  /\ spent > 0
  /\ spent' \in 0..(spent - 1)
  /\ UNCHANGED <<run, rows, edges, alerts, faults>>

-------------------------------------------------------------------------------

Step(r) ==
  \/ NextBrand(r) \/ Check(r) \/ Call(r) \/ LogCost(r) \/ Probed(r)
  \/ Store(r) \/ AllProbed(r) \/ ClassifyRow(r) \/ Classified(r)
  \/ WriteEdge(r) \/ Publish(r) \/ Finish(r)

Next == Age \/ \E r \in Runs : Start(r) \/ Step(r) \/ Fail(r)

Spec == Init /\ [][Next]_vars

-------------------------------------------------------------------------------
(* Properties *)

\* dag_llm_probing.py:12: "BrandProber checks daily spend before each model call"; in fact
\* before each model's prompts.  So the recorded cost passes the cap by at most the prompts
\* of one model for every run that overlaps, while costs can be read and recorded.
OvershootBounded ==
  faults = 0 => spent < Cap + Cardinality(Runs) * NPrompts * MaxCost

\* classify_responses: whatever fails, what the graph and Kafka say of a brand and a model
\* is backed by a stored answer of that model, with its count of hallucinations.
PublishedIsDetected ==
  \A a \in edges \cup alerts :
    \E x \in rows : x.brand = a.brand /\ x.model = a.model /\ x.detected > 0

Critical(x) ==
  {f \in Classify(x.answer, Manifest[x.brand], FALSE, FALSE) : f.severity = "CRITICAL"}

\* The DAG, end to end: when a run is over, every critical finding in what it stored has
\* gone to Kafka, unless something failed.
CriticalAlerted ==
  faults = 0 =>
    \A r \in Runs : At(r, "over") =>
      \A x \in rows : x.run = r => {Alert(x, f) : f \in Critical(x)} \subseteq alerts

===============================================================================
