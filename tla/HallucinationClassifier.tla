------------------------ MODULE HallucinationClassifier ------------------------
(***************************************************************************)
(* What the classifier finds in one response of a model                    *)
(* (ml/hallucination/classifier.py).                                       *)
(*                                                                         *)
(* A response is abstracted to what the detectors see in it: the claims it *)
(* contains, the tones of the sentences that name each competitor, whether *)
(* it is negative as a whole, and how near it comes to each attribute that *)
(* the manifest calls false.                                               *)
(***************************************************************************)
EXTENDS Integers, FiniteSets

CONSTANTS Claims,       \* regulatory claims that manifests name
          Competitors,  \* competitors that manifests name
          Attributes,   \* attributes that manifests call false
          Slug          \* the slug of each, with the prefix of its detector

ASSUME ClassifierAssumption ==
  IsFiniteSet(Claims) /\ IsFiniteSet(Competitors) /\ IsFiniteSet(Attributes)

\* compound <= -0.05, in between, and compound > 0.10
Tones == {"negative", "neutral", "positive"}

\* cosine below 0.75, below 0.82, below 0.92, and above
Nearness == {"far", "low", "high", "critical"}

Responses == [claims : SUBSET Claims, tones : [Competitors -> SUBSET Tones],
              negative : BOOLEAN, near : [Attributes -> Nearness]]

Manifests == [claims : SUBSET Claims, competitors : SUBSET Competitors,
              described : BOOLEAN, false : SUBSET Attributes]

Severities == {"LOW", "MEDIUM", "HIGH", "CRITICAL"}
Rank(s) == CASE s = "LOW" -> 1 [] s = "MEDIUM" -> 2 [] s = "HIGH" -> 3 [] s = "CRITICAL" -> 4

Finding(slug, severity) == [slug |-> slug, severity |-> severity]

Regulatory(x, m) == {Finding(Slug[c], "CRITICAL") : c \in x.claims \cap m.claims}

\* The best sentence about a competitor counts; negative ones are passed over.
Confusion(x, m) ==
  {Finding(Slug[c], IF "positive" \in x.tones[c] THEN "HIGH" ELSE "MEDIUM") :
     c \in {k \in m.competitors : x.tones[k] \cap {"neutral", "positive"} # {}}}

Drift(x, m) ==
  IF x.negative /\ m.described THEN {Finding("sentiment_drift_negative", "MEDIUM")} ELSE {}

FalseAttribute(x, m) ==
  LET severity == [low |-> "LOW", high |-> "HIGH", critical |-> "CRITICAL"] IN
  {Finding(Slug[a], severity[x.near[a]]) : a \in {b \in m.false : x.near[b] # "far"}}

\* One finding for a slug, of the highest severity.
Deduplicated(F) == {f \in F : \A g \in F : g.slug = f.slug => Rank(g.severity) <= Rank(f.severity)}

\* Without vaderSentiment there is no look at tones, and without an embedding function,
\* or when it fails, none at attributes.
Classify(x, m, vader, embeds) ==
  Deduplicated(Regulatory(x, m)
                 \cup (IF vader THEN Confusion(x, m) \cup Drift(x, m) ELSE {})
                 \cup (IF embeds THEN FalseAttribute(x, m) ELSE {}))

===============================================================================
