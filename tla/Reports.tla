------------------------------- MODULE Reports --------------------------------
(***************************************************************************)
(* Brand reports: the reports a customer asks for (routers/reports.py),    *)
(* with the background task that generates them, and a run of the weekly   *)
(* DAG, which generates one for every brand in one session and mails them. *)
(* Its third task, the alert rules, is in AlertRules.                      *)
(***************************************************************************)
EXTENDS ReportContent, FiniteSets

CONSTANTS Brands,      \* brands with a manifest, each of an organisation of its own
          Requests,    \* requests for a report
          Recipients,  \* mailto: endpoints of an organisation
          LastDay,     \* bound on the clock, in days
          MaxScores,   \* bound on the rows of sps_scores
          MaxFaults    \* bound on faults

ASSUME ReportAssumption ==
  LastDay \in Nat /\ MaxScores \in Nat /\ MaxFaults \in Nat

VARIABLES
  infoOn,   \* the Airflow worker's root logger is enabled for INFO
  now,      \* the clock
  scores,   \* sps_scores of each brand
  reports,  \* rows of the table reports
  task,     \* the background task of each request
  run,      \* the run of the DAG: tasks generate_reports and email_reports
  failed,   \* history: brands whose own generation failed in the run
  seeded,   \* history: brands that were given sample data
  faults    \* history: number of faults

vars == <<infoOn, now, scores, reports, task, run, failed, seeded, faults>>

Days == 0..LastDay
Today == now \div 2

\* Rows are named after their writer; a request writes two, the DAG one per brand.
Ids == ({"placeholder", "weekly"} \X Requests) \cup ({"dag"} \X Brands)
None == [current |-> <<>>, previous |-> <<>>]
NoRow == [kind |-> "none", brand |-> {}, start |-> 0, over |-> {}, content |-> None,
          emailed |-> {}]
Row(k, b, d, content) ==
  [kind |-> k, brand |-> {b}, start |-> d, over |-> {}, content |-> content,
   emailed |-> {}]

\* History: of the two weeks of a report, those that are over when it is made.
Over(d) == {w \in {"current", "previous"} :
              \A t \in IF w = "current" THEN CurrentWindow(d) ELSE PreviousWindow(d) : t < now}

NoRun == [at |-> "none", start |-> 0, todo |-> {}, poisoned |-> FALSE, mails |-> {}]

Fault == faults < MaxFaults /\ faults' = faults + 1

Init ==
  /\ infoOn \in BOOLEAN /\ now = 0
  /\ scores = [b \in Brands |-> {}]
  /\ reports = [i \in Ids |-> NoRow]
  /\ task = [r \in Requests |-> "none"]
  /\ run = NoRun /\ failed = {} /\ seeded = {} /\ faults = 0

Tick ==
  /\ now < 2 * LastDay + 1
  /\ now' = now + 1
  /\ UNCHANGED <<infoOn, scores, reports, task, run, failed, seeded, faults>>

\* A score is calculated and committed at once.
NewScore(b, c) ==
  /\ Cardinality(UNION {scores[x] : x \in Brands}) < MaxScores
  /\ scores' = [scores EXCEPT ![b] = @ \cup {<<c, now>>}]
  /\ UNCHANGED <<infoOn, now, reports, task, run, failed, seeded, faults>>

\* POST /brands/{id}/seed: sample scores for now and for a week ago, in one commit.
SeedBrand(b) ==
  /\ Cardinality(UNION {scores[x] : x \in Brands}) < MaxScores
  /\ scores' = [scores EXCEPT ![b] = @ \cup (Clusters \X {now, now - 2 * Week})]
  /\ seeded' = seeded \cup {b}
  /\ UNCHANGED <<infoOn, now, reports, task, run, failed, faults>>

-------------------------------------------------------------------------------

\* ReportGenerator.generate_weekly: the row `id' for brand b and the week from day d.
Generate(id, b, d) ==
  reports' = [reports EXCEPT ![id] = [Row("weekly", b, d, Content(scores[b], d))
                                        EXCEPT !.over = Over(d)]]

(* On demand *)

\* POST /generate for a brand of the caller: the placeholder is committed, the rest is
\* left to a background task.
Request(r, b, d) ==
  /\ reports[<<"placeholder", r>>] = NoRow
  /\ reports' = [reports EXCEPT ![<<"placeholder", r>>] = Row("on_demand", b, d, None)]
  /\ task' = [task EXCEPT ![r] = "queued"]
  /\ UNCHANGED <<infoOn, now, scores, run, failed, seeded, faults>>

\* The task generates a weekly report, a row of its own.
GenerateForRequest(r) ==
  /\ task[r] = "queued"
  /\ LET p == reports[<<"placeholder", r>>] IN
     \E b \in p.brand : Generate(<<"weekly", r>>, b, p.start)
  /\ task' = [task EXCEPT ![r] = "generated"]
  /\ UNCHANGED <<infoOn, now, scores, run, failed, seeded, faults>>

\* Content, PDF and title of that row are copied to the placeholder.
Fill(r) ==
  /\ task[r] = "generated"
  /\ reports' = [reports EXCEPT ![<<"placeholder", r>>].content =
                                   reports[<<"weekly", r>>].content]
  /\ task' = [task EXCEPT ![r] = "over"]
  /\ UNCHANGED <<infoOn, now, scores, run, failed, seeded, faults>>

\* The task raises, or its process dies: nobody is told, the placeholder stays as it is.
RequestFails(r) ==
  /\ task[r] \in {"queued", "generated"}
  /\ Fault
  /\ task' = [task EXCEPT ![r] = "over"]
  /\ UNCHANGED <<infoOn, now, scores, reports, run, failed, seeded>>

-------------------------------------------------------------------------------
(* The weekly run *)

\* fetch_brands_for_reports; generate_reports starts from its result.
StartRun ==
  /\ run.at = "none"
  /\ run' = [NoRun EXCEPT !.at = "generate", !.todo = Brands, !.start = Today - Week]
  /\ UNCHANGED <<infoOn, now, scores, reports, task, failed, seeded, faults>>

\* Faulty: the handler is around the loop.
GiveUp(b) == [run EXCEPT !.todo = {}]

\* The exception of a brand is logged, and the loop goes on with the session as it is.
Skip(b) == [run EXCEPT !.todo = @ \ {b}]

GenerateForRun(b) ==
  /\ run.at = "generate" /\ b \in run.todo /\ ~run.poisoned
  /\ Generate(<<"dag", b>>, b, run.start)
  /\ run' = [run EXCEPT !.todo = @ \ {b}, !.mails = @ \cup ({b} \X Recipients)]
  /\ UNCHANGED <<infoOn, now, scores, task, failed, seeded, faults>>

\* The PDF cannot be rendered.
RenderFails(b) ==
  /\ run.at = "generate" /\ b \in run.todo /\ ~run.poisoned
  /\ Fault
  /\ run' = Skip(b)
  /\ failed' = failed \cup {b}
  /\ UNCHANGED <<infoOn, now, scores, reports, task, seeded>>

\* A statement fails, before the commit or when the row is read back after it.  The
\* session is not rolled back, so every later statement on it fails.
StatementFails(b) ==
  /\ run.at = "generate" /\ b \in run.todo /\ ~run.poisoned
  /\ Fault
  /\ UNCHANGED reports \/ Generate(<<"dag", b>>, b, run.start)
  /\ run' = [Skip(b) EXCEPT !.poisoned = TRUE]
  /\ failed' = failed \cup {b}
  /\ UNCHANGED <<infoOn, now, scores, task, seeded>>

Poisoned(b) ==
  /\ run.at = "generate" /\ b \in run.todo /\ run.poisoned
  /\ run' = Skip(b)
  /\ UNCHANGED <<infoOn, now, scores, reports, task, failed, seeded, faults>>

\* generate_reports returns; without an API key for mail, or reportlab for the PDFs,
\* nothing is sent.
Generated ==
  /\ run.at = "generate" /\ run.todo = {}
  /\ \E sends \in BOOLEAN : run' = [run EXCEPT !.at = IF sends THEN "email" ELSE "over"]
  /\ UNCHANGED <<infoOn, now, scores, reports, task, failed, seeded, faults>>

\* The task or its process dies; there is no retry, and no mail after generate_reports.
RunDies ==
  /\ run.at \in {"generate", "email"}
  /\ Fault
  /\ run' = [run EXCEPT !.at = "over"]
  /\ UNCHANGED <<infoOn, now, scores, reports, task, failed, seeded>>

\* UPDATE reports SET emailed_to: the one recipient.
Record(b, m) == reports' = [reports EXCEPT ![<<"dag", b>>].emailed = {m}]

\* The log call behind the post has a keyword argument: with INFO enabled it raises, and
\* the handler takes the mail for one that failed.
Records(sent, answered) == sent /\ answered /\ ~infoOn

\* One recipient: the post may fail, its answer may be lost, the update may fail.
Mail(b, m) ==
  /\ run.at = "email" /\ <<b, m>> \in run.mails
  /\ run' = [run EXCEPT !.mails = @ \ {<<b, m>>}]
  /\ \E sent, answered, updated \in BOOLEAN :
       /\ IF sent /\ answered /\ updated THEN UNCHANGED faults ELSE Fault
       /\ IF Records(sent, answered) /\ updated THEN Record(b, m) ELSE UNCHANGED reports
  /\ UNCHANGED <<infoOn, now, scores, task, failed, seeded>>

Mailed ==
  /\ run.at = "email" /\ run.mails = {}
  /\ run' = [run EXCEPT !.at = "over"]
  /\ UNCHANGED <<infoOn, now, scores, reports, task, failed, seeded, faults>>

-------------------------------------------------------------------------------

Next ==
  \/ Tick
  \/ \E b \in Brands : SeedBrand(b) \/ \E c \in Clusters : NewScore(b, c)
  \/ \E r \in Requests : \/ \E b \in Brands, d \in Days : Request(r, b, d)
                         \/ GenerateForRequest(r) \/ Fill(r) \/ RequestFails(r)
  \/ StartRun \/ Generated \/ RunDies \/ Mailed
  \/ \E b \in Brands : \/ GenerateForRun(b) \/ RenderFails(b) \/ StatementFails(b)
                       \/ Poisoned(b) \/ \E m \in Recipients : Mail(b, m)

Spec == Init /\ [][Next]_vars

-------------------------------------------------------------------------------
(* Properties *)

Written == {i \in Ids : reports[i].kind = "weekly"}

\* generate_reports: a brand that fails costs no other brand its report, as long as it is
\* not a statement that failed: then the session is of no use to the brands that follow.
BrandsIsolated ==
  run.at = "email" /\ ~run.poisoned
    => \A b \in Brands \ failed : <<"dag", b>> \in Written

\* _assemble: what a report says of last week is what last week's own report says of that
\* week, for every cluster in both, if last week was over when each of them was made and
\* the brand was never given sample data, half of which is put into the past.
WeeksAgree ==
  \A i, j \in Written :
    LET x == reports[i]
        y == reports[j]
        inARow == x.brand = y.brand /\ x.brand \cap seeded = {} /\ y.start = x.start + Week
    IN  inARow /\ "current" \in x.over /\ "previous" \in y.over
          => \A c \in DOMAIN x.content.current \cap DOMAIN y.content.previous :
               y.content.previous[c] = x.content.current[c]

===============================================================================
