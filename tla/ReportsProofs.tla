----------------------------- MODULE ReportsProofs -----------------------------
(***************************************************************************)
(* Reports of consecutive weeks agree on the week between them, for any    *)
(* number of brands, requests, scores and faults and any length of a week. *)
(***************************************************************************)
EXTENDS Reports, TLAPS

\* The inductive invariant behind WeeksAgree: a week that is over gets no more scores, so
\* what a report says of it stays what the table says.
IsRow(x) ==
  /\ x = [kind |-> x.kind, brand |-> x.brand, start |-> x.start, over |-> x.over,
          content |-> x.content, emailed |-> x.emailed]
  /\ x.start \in Int

RowsInPlace ==
  /\ reports = [i \in Ids |-> reports[i]]
  /\ \A i \in Ids : IsRow(reports[i])
  /\ \A r \in Requests : /\ reports[<<"placeholder", r>>].kind # "weekly"
                         /\ reports[<<"placeholder", r>>].brand \subseteq Brands

RunInPlace ==
  /\ run = [at |-> run.at, start |-> run.start, todo |-> run.todo,
            poisoned |-> run.poisoned, mails |-> run.mails]
  /\ run.start \in Int /\ run.mails \subseteq Brands \X Recipients

OverIsOver(x) ==
  /\ "current" \in x.over => \A t \in CurrentWindow(x.start) : t < now
  /\ "previous" \in x.over => \A t \in PreviousWindow(x.start) : t < now

SaysWhatIs(x, S) ==
  /\ "current" \in x.over => x.content.current = Current(S, x.start)
  /\ "previous" \in x.over =>
       \A c \in DOMAIN x.content.previous :
         c \in Seen(S, PreviousWindow(x.start))
           => x.content.previous[c] = Latest(S, c, PreviousWindow(x.start))

Faithful(x) ==
  \E b \in Brands : /\ x.brand = {b} /\ OverIsOver(x)
                    /\ b \notin seeded => SaysWhatIs(x, scores[b])

ReportInv ==
  /\ now \in Int /\ scores = [b \in Brands |-> scores[b]]
  /\ RowsInPlace /\ RunInPlace
  /\ \A i \in Written : Faithful(reports[i])

\* Of every brand the run has a report, unless it is still to do or has failed itself.
Covered(b) == b \in run.todo \/ b \in failed \/ <<"dag", b>> \in Written

IsolatedInv ==
  /\ run.at \in {"generate", "email"} /\ ~run.poisoned => \A b \in Brands : Covered(b)
  /\ run.at = "email" => run.todo = {}

USE WeekAssumption, ReportAssumption DEF WeekAssumption, ReportAssumption

-------------------------------------------------------------------------------
(* Windows *)

\* Last week's window is this week's window, a week earlier.
LEMMA SameWeek ==
  ASSUME NEW d \in Int
  PROVE  PreviousWindow(d + Week) = CurrentWindow(d)
<1>1. 2 * (d + Week) - 2 * Week = 2 * d  OBVIOUS
<1>2. 2 * (d + Week) - 2 = 2 * (d + Week - 1)  OBVIOUS
<1>3. QED  BY <1>1, <1>2 DEF PreviousWindow, CurrentWindow

\* What a report says of a window depends on the points of the window only.
LEMMA SameSeen ==
  ASSUME NEW S, NEW T, NEW W, \A c \in Clusters : InWindow(T, c, W) = InWindow(S, c, W)
  PROVE  Seen(T, W) = Seen(S, W)
BY DEF Seen

LEMMA SameLatest ==
  ASSUME NEW S, NEW T, NEW W, NEW c, InWindow(T, c, W) = InWindow(S, c, W)
  PROVE  Latest(T, c, W) = Latest(S, c, W)
BY DEF Latest

LEMMA SameCurrent ==
  ASSUME NEW S, NEW T, NEW d,
         \A c \in Clusters : InWindow(T, c, CurrentWindow(d)) = InWindow(S, c, CurrentWindow(d))
  PROVE  Current(T, d) = Current(S, d)
<1>1. Seen(T, CurrentWindow(d)) = Seen(S, CurrentWindow(d))  BY SameSeen
<1>2. ASSUME NEW c \in Seen(S, CurrentWindow(d))
      PROVE  Latest(T, c, CurrentWindow(d)) = Latest(S, c, CurrentWindow(d))
  <2>1. c \in Clusters  BY <1>2 DEF Seen
  <2>2. QED  BY <2>1, SameLatest
<1>3. QED  BY <1>1, <1>2 DEF Current

\* A score of now is in no window that is over.
LEMMA SaysItStill ==
  ASSUME NEW x, NEW S, NEW T, NEW k, x.start \in Int, now \in Int, OverIsOver(x),
         SaysWhatIs(x, S), T = S \cup {<<k, now>>}
  PROVE  SaysWhatIs(x, T)
<1>1. ASSUME "current" \in x.over PROVE x.content.current = Current(T, x.start)
  <2>1. now \notin CurrentWindow(x.start)  BY <1>1 DEF OverIsOver
  <2>2. \A c \in Clusters :
          InWindow(T, c, CurrentWindow(x.start)) = InWindow(S, c, CurrentWindow(x.start))
    BY <2>1 DEF InWindow
  <2>3. Current(T, x.start) = Current(S, x.start)  BY <2>2, SameCurrent
  <2>4. QED  BY <1>1, <2>3 DEF SaysWhatIs
<1>2. ASSUME "previous" \in x.over, NEW c \in DOMAIN x.content.previous,
             c \in Seen(T, PreviousWindow(x.start))
      PROVE  x.content.previous[c] = Latest(T, c, PreviousWindow(x.start))
  <2>1. now \notin PreviousWindow(x.start)  BY <1>2 DEF OverIsOver
  <2>2. InWindow(T, c, PreviousWindow(x.start)) = InWindow(S, c, PreviousWindow(x.start))
    BY <2>1 DEF InWindow
  <2>3. c \in Seen(S, PreviousWindow(x.start))  BY <1>2, <2>2 DEF Seen
  <2>4. Latest(T, c, PreviousWindow(x.start)) = Latest(S, c, PreviousWindow(x.start))
    BY <2>2, SameLatest
  <2>5. QED  BY <1>2, <2>3, <2>4 DEF SaysWhatIs
<1>3. QED  BY <1>1, <1>2 DEF SaysWhatIs

\* A report says what is, when it is made.
LEMMA ContentSays ==
  ASSUME NEW x, NEW S, x.content = Content(S, x.start)
  PROVE  SaysWhatIs(x, S)
<1>1. x.content.current = Current(S, x.start) /\ x.content.previous = Before(S, x.start)
  BY DEF Content
<1>2. ASSUME NEW c \in DOMAIN Before(S, x.start), c \in Seen(S, PreviousWindow(x.start))
      PROVE  Before(S, x.start)[c] = Latest(S, c, PreviousWindow(x.start))
  BY <1>2 DEF Before
<1>3. QED  BY <1>1, <1>2 DEF SaysWhatIs

-------------------------------------------------------------------------------
(* Steps *)

\* A step that leaves rows, scores and clock alone.
LEMMA NothingWritten ==
  ASSUME ReportInv, UNCHANGED <<now, scores, reports, seeded>>, RunInPlace'
  PROVE  ReportInv'
BY DEF ReportInv, RowsInPlace, Written, Faithful, OverIsOver

\* A step that writes one row, and that one as it should be.
LEMMA RowWritten ==
  ASSUME ReportInv, UNCHANGED <<now, scores, seeded>>, RunInPlace',
         NEW i \in Ids, NEW x, IsRow(x), reports' = [reports EXCEPT ![i] = x],
         x.kind = "weekly" => Faithful(x),
         i[1] = "placeholder" => x.kind # "weekly" /\ x.brand \subseteq Brands
  PROVE  ReportInv'
<1>1. reports' = [j \in Ids |-> IF j = i THEN x ELSE reports[j]]
  BY DEF ReportInv, RowsInPlace
<1>2. RowsInPlace'
  <2>1. ASSUME NEW r \in Requests
        PROVE  /\ reports'[<<"placeholder", r>>].kind # "weekly"
               /\ reports'[<<"placeholder", r>>].brand \subseteq Brands
    <3>1. <<"placeholder", r>> \in Ids /\ <<"placeholder", r>>[1] = "placeholder"  BY DEF Ids
    <3>2. QED  BY <1>1, <3>1 DEF ReportInv, RowsInPlace
  <2>2. QED  BY <1>1, <2>1 DEF ReportInv, RowsInPlace, IsRow
<1>3. \A j \in Written' : Faithful(reports[j])'
  BY <1>1 DEF ReportInv, Written, Faithful, OverIsOver
<1>4. QED  BY <1>2, <1>3 DEF ReportInv

LEMMA ReportGenerated ==
  ASSUME ReportInv, UNCHANGED <<now, scores, seeded>>, RunInPlace',
         NEW i \in Ids, i[1] # "placeholder", NEW b \in Brands, NEW d \in Int, Generate(i, b, d)
  PROVE  ReportInv'
<1> DEFINE x == [Row("weekly", b, d, Content(scores[b], d)) EXCEPT !.over = Over(d)]
<1>1. x = [kind |-> "weekly", brand |-> {b}, start |-> d, over |-> Over(d),
           content |-> Content(scores[b], d), emailed |-> {}]
  BY DEF Row
<1>2. IsRow(x)  BY <1>1 DEF IsRow
<1>3. OverIsOver(x)  BY <1>1 DEF OverIsOver, Over
<1>4. SaysWhatIs(x, scores[b])  BY <1>1, ContentSays
<1>5. Faithful(x)  BY <1>1, <1>3, <1>4 DEF Faithful
<1>6. reports' = [reports EXCEPT ![i] = x]  BY DEF Generate
<1> HIDE DEF x
<1>7. QED  BY <1>2, <1>5, <1>6, RowWritten

\* A step of the background task that writes no row.
LEMMA RunKept ==
  ASSUME ReportInv, UNCHANGED run
  PROVE  RunInPlace'
BY DEF ReportInv, RunInPlace

LEMMA InitOK == Init => ReportInv
<1> SUFFICES ASSUME Init PROVE ReportInv
  OBVIOUS
<1>1. now \in Int /\ scores = [b \in Brands |-> scores[b]]  BY DEF Init
<1>2. RowsInPlace
  <2>1. reports = [i \in Ids |-> NoRow]  BY DEF Init
  <2>2. \A r \in Requests : <<"placeholder", r>> \in Ids  BY DEF Ids
  <2>3. IsRow(NoRow) /\ NoRow.kind # "weekly" /\ NoRow.brand = {}  BY DEF IsRow, NoRow
  <2> HIDE DEF NoRow
  <2>4. QED  BY <2>1, <2>2, <2>3 DEF RowsInPlace
<1>3. RunInPlace  BY DEF Init, RunInPlace, NoRun
<1>4. Written = {}  BY DEF Init, Written, NoRow
<1>5. QED  BY <1>1, <1>2, <1>3, <1>4 DEF ReportInv

LEMMA TickOK ==
  ASSUME ReportInv, Tick
  PROVE  ReportInv'
<1>1. now' \in Int /\ \A t \in Int : t < now => t < now'
  BY DEF ReportInv, Tick
<1>2. RunInPlace' /\ RowsInPlace' /\ Written' = Written
  BY RunKept DEF Tick, ReportInv, RowsInPlace, Written
<1>3. ASSUME NEW i \in Written PROVE Faithful(reports[i])'
  <2>1. reports[i].start \in Int  BY DEF ReportInv, RowsInPlace, IsRow, Written
  <2>2. /\ CurrentWindow(reports[i].start) \subseteq Int
        /\ PreviousWindow(reports[i].start) \subseteq Int
    BY DEF CurrentWindow, PreviousWindow
  <2>3. OverIsOver(reports[i]) => OverIsOver(reports[i])'
    BY <1>1, <2>2 DEF OverIsOver, Tick
  <2>4. QED  BY <2>3 DEF ReportInv, Faithful, Tick
<1>4. QED  BY <1>1, <1>2, <1>3 DEF ReportInv, Tick

LEMMA NewScoreOK ==
  ASSUME ReportInv, NEW b \in Brands, NEW c \in Clusters, NewScore(b, c)
  PROVE  ReportInv'
<1>1. /\ scores' = [x \in Brands |-> IF x = b THEN scores[b] \cup {<<c, now>>} ELSE scores[x]]
      /\ UNCHANGED <<now, reports, run, seeded>>
  BY DEF NewScore, ReportInv
<1>2. RunInPlace' /\ RowsInPlace' /\ Written' = Written
  BY <1>1, RunKept DEF ReportInv, RowsInPlace, Written
<1>3. ASSUME NEW i \in Written PROVE Faithful(reports[i])'
  <2>1. PICK x \in Brands : /\ reports[i].brand = {x} /\ OverIsOver(reports[i])
                            /\ x \notin seeded => SaysWhatIs(reports[i], scores[x])
    BY DEF ReportInv, Faithful
  <2>2. reports[i].start \in Int /\ now \in Int  BY DEF ReportInv, RowsInPlace, IsRow, Written
  <2>3. ASSUME x \notin seeded' PROVE SaysWhatIs(reports[i], scores'[x])
    <3>1. SaysWhatIs(reports[i], scores[x])  BY <1>1, <2>1, <2>3
    <3>2. CASE x = b
      <4>1. scores'[x] = scores[x] \cup {<<c, now>>}  BY <1>1, <3>2
      <4>2. QED  BY <2>1, <2>2, <3>1, <4>1, SaysItStill
    <3>3. CASE x # b  BY <1>1, <3>1, <3>3
    <3>4. QED  BY <3>2, <3>3
  <2>4. OverIsOver(reports[i])'  BY <1>1, <2>1 DEF OverIsOver
  <2>5. QED  BY <1>1, <2>1, <2>3, <2>4 DEF Faithful
<1>4. QED  BY <1>1, <1>2, <1>3 DEF ReportInv

LEMMA SeedBrandOK ==
  ASSUME ReportInv, NEW b \in Brands, SeedBrand(b)
  PROVE  ReportInv'
<1>1. /\ scores' = [x \in Brands |-> IF x = b THEN scores[b] \cup (Clusters \X {now, now - 2 * Week})
                                               ELSE scores[x]]
      /\ seeded' = seeded \cup {b} /\ UNCHANGED <<now, reports, run>>
  BY DEF SeedBrand, ReportInv
<1>2. RunInPlace' /\ RowsInPlace' /\ Written' = Written
  BY <1>1, RunKept DEF ReportInv, RowsInPlace, Written
<1>3. ASSUME NEW i \in Written PROVE Faithful(reports[i])'
  <2>1. PICK x \in Brands : /\ reports[i].brand = {x} /\ OverIsOver(reports[i])
                            /\ x \notin seeded => SaysWhatIs(reports[i], scores[x])
    BY DEF ReportInv, Faithful
  <2>2. OverIsOver(reports[i])'  BY <1>1, <2>1 DEF OverIsOver
  <2>3. x \notin seeded' => SaysWhatIs(reports[i], scores'[x])  BY <1>1, <2>1
  <2>4. QED  BY <1>1, <2>1, <2>2, <2>3 DEF Faithful
<1>4. QED  BY <1>1, <1>2, <1>3 DEF ReportInv

LEMMA RequestOK ==
  ASSUME ReportInv, NEW r \in Requests, NEW b \in Brands, NEW d \in Days, Request(r, b, d)
  PROVE  ReportInv'
<1> DEFINE x == Row("on_demand", b, d, None)
<1>1. <<"placeholder", r>> \in Ids /\ d \in Int  BY DEF Ids, Days
<1>2. IsRow(x) /\ x.kind # "weekly" /\ x.brand \subseteq Brands  BY <1>1 DEF IsRow, Row
<1>3. reports' = [reports EXCEPT ![<<"placeholder", r>>] = x]  BY DEF Request
<1>4. RunInPlace' /\ UNCHANGED <<now, scores, seeded>>  BY RunKept DEF Request
<1> HIDE DEF x
<1>5. QED  BY <1>1, <1>2, <1>3, <1>4, RowWritten

LEMMA GenerateForRequestOK ==
  ASSUME ReportInv, NEW r \in Requests, GenerateForRequest(r)
  PROVE  ReportInv'
<1>1. <<"placeholder", r>> \in Ids /\ <<"weekly", r>> \in Ids /\ <<"weekly", r>>[1] # "placeholder"
  BY DEF Ids
<1>2. PICK b \in reports[<<"placeholder", r>>].brand :
        Generate(<<"weekly", r>>, b, reports[<<"placeholder", r>>].start)
  BY DEF GenerateForRequest
<1>3. b \in Brands /\ reports[<<"placeholder", r>>].start \in Int
  BY <1>1, <1>2 DEF ReportInv, RowsInPlace, IsRow
<1>4. RunInPlace' /\ UNCHANGED <<now, scores, seeded>>  BY RunKept DEF GenerateForRequest
<1>5. QED  BY <1>1, <1>2, <1>3, <1>4, ReportGenerated

LEMMA FillOK ==
  ASSUME ReportInv, NEW r \in Requests, Fill(r)
  PROVE  ReportInv'
<1> DEFINE i == <<"placeholder", r>>
           x == [reports[i] EXCEPT !.content = reports[<<"weekly", r>>].content]
<1>1. i \in Ids  BY DEF Ids
<1>2. IsRow(reports[i]) /\ reports[i].kind # "weekly" /\ reports[i].brand \subseteq Brands
  BY <1>1 DEF ReportInv, RowsInPlace
<1>3. IsRow(x) /\ x.kind # "weekly" /\ x.brand \subseteq Brands  BY <1>2 DEF IsRow
<1>4. reports' = [reports EXCEPT ![i] = x]  BY <1>1 DEF Fill, ReportInv, RowsInPlace
<1>5. RunInPlace' /\ UNCHANGED <<now, scores, seeded>>  BY RunKept DEF Fill
<1> HIDE DEF x
<1>6. QED  BY <1>1, <1>3, <1>4, <1>5, RowWritten

LEMMA GenerateForRunOK ==
  ASSUME ReportInv, NEW b \in Brands, NEW d \in Int, Generate(<<"dag", b>>, b, d),
         UNCHANGED <<now, scores, seeded>>, RunInPlace'
  PROVE  ReportInv'
<1>1. <<"dag", b>> \in Ids /\ <<"dag", b>>[1] # "placeholder"  BY DEF Ids
<1>2. QED  BY <1>1, ReportGenerated

LEMMA MailOK ==
  ASSUME ReportInv, NEW b \in Brands, NEW m \in Recipients, Mail(b, m)
  PROVE  ReportInv'
<1>1. UNCHANGED <<now, scores, seeded>>  BY DEF Mail
<1>2. RunInPlace'  BY DEF Mail, ReportInv, RunInPlace
<1>3. CASE UNCHANGED reports  BY <1>1, <1>2, <1>3, NothingWritten
<1>4. CASE Record(b, m)
  <2> DEFINE i == <<"dag", b>>
             x == [reports[i] EXCEPT !.emailed = {m}]
  <2>1. i \in Ids /\ i[1] # "placeholder"  BY DEF Ids
  <2>2. IsRow(reports[i])  BY <2>1 DEF ReportInv, RowsInPlace
  <2>3. IsRow(x) /\ \A f \in {"kind", "brand", "start", "over", "content"} : x[f] = reports[i][f]
    BY <2>2 DEF IsRow
  <2>4. x.kind = "weekly" => Faithful(x)
    <3>1. SUFFICES ASSUME x.kind = "weekly" PROVE Faithful(x)
      OBVIOUS
    <3>2. Faithful(reports[i])  BY <2>1, <2>3, <3>1 DEF ReportInv, Written
    <3>3. QED  BY <2>3, <3>2 DEF Faithful, OverIsOver, SaysWhatIs
  <2>5. reports' = [reports EXCEPT ![i] = x]
    BY <1>4, <2>1 DEF Record, ReportInv, RowsInPlace
  <2> HIDE DEF x
  <2>6. QED  BY <1>1, <1>2, <2>1, <2>3, <2>4, <2>5, RowWritten
<1>5. QED  BY <1>3, <1>4 DEF Mail

LEMMA StepOK == ReportInv /\ [Next]_vars => ReportInv'
<1> SUFFICES ASSUME ReportInv, [Next]_vars PROVE ReportInv'
  OBVIOUS
<1>1. CASE Tick  BY <1>1, TickOK
<1>2. ASSUME NEW b \in Brands, NEW c \in Clusters, NewScore(b, c) PROVE ReportInv'
  BY <1>2, NewScoreOK
<1>3. ASSUME NEW b \in Brands, SeedBrand(b) PROVE ReportInv'  BY <1>3, SeedBrandOK
<1>4. ASSUME NEW r \in Requests, NEW b \in Brands, NEW d \in Days, Request(r, b, d)
      PROVE  ReportInv'
  BY <1>4, RequestOK
<1>5. ASSUME NEW r \in Requests, GenerateForRequest(r) PROVE ReportInv'
  BY <1>5, GenerateForRequestOK
<1>6. ASSUME NEW r \in Requests, Fill(r) PROVE ReportInv'  BY <1>6, FillOK
<1>7. ASSUME NEW r \in Requests, RequestFails(r) PROVE ReportInv'
  BY <1>7, RunKept, NothingWritten DEF RequestFails
<1>8. CASE StartRun
  <2>1. Today - Week \in Int  BY DEF ReportInv, Today
  <2>2. RunInPlace'  BY <1>8, <2>1 DEF StartRun, NoRun, RunInPlace
  <2>3. QED  BY <1>8, <2>2, NothingWritten DEF StartRun
<1>9. CASE Generated \/ RunDies \/ Mailed
  <2>1. RunInPlace'  BY <1>9 DEF Generated, RunDies, Mailed, ReportInv, RunInPlace
  <2>2. QED  BY <1>9, <2>1, NothingWritten DEF Generated, RunDies, Mailed
<1>10. ASSUME NEW b \in Brands, GenerateForRun(b) PROVE ReportInv'
  <2>1. RunInPlace' /\ run.start \in Int
    BY <1>10 DEF GenerateForRun, ReportInv, RunInPlace
  <2>2. QED  BY <1>10, <2>1, GenerateForRunOK DEF GenerateForRun
<1>11. ASSUME NEW b \in Brands, RenderFails(b) \/ Poisoned(b) PROVE ReportInv'
  <2>1. RunInPlace'  BY <1>11 DEF RenderFails, Poisoned, Skip, ReportInv, RunInPlace
  <2>2. QED  BY <1>11, <2>1, NothingWritten DEF RenderFails, Poisoned
<1>12. ASSUME NEW b \in Brands, StatementFails(b) PROVE ReportInv'
  <2>1. RunInPlace' /\ run.start \in Int
    BY <1>12 DEF StatementFails, Skip, ReportInv, RunInPlace
  <2>2. CASE UNCHANGED reports  BY <1>12, <2>1, <2>2, NothingWritten DEF StatementFails
  <2>3. CASE Generate(<<"dag", b>>, b, run.start)
    BY <1>12, <2>1, <2>3, GenerateForRunOK DEF StatementFails
  <2>4. QED  BY <1>12, <2>2, <2>3 DEF StatementFails
<1>13. ASSUME NEW b \in Brands, NEW m \in Recipients, Mail(b, m) PROVE ReportInv'
  BY <1>13, MailOK
<1>14. CASE UNCHANGED vars  BY <1>14, RunKept, NothingWritten DEF vars
<1>15. QED
  BY <1>1, <1>2, <1>3, <1>4, <1>5, <1>6, <1>7, <1>8, <1>9, <1>10, <1>11, <1>12, <1>13, <1>14
  DEF Next

\* No step takes back a report of the run.
LEMMA ReportsStay ==
  ASSUME ReportInv, [Next]_vars, NEW b \in Brands, <<"dag", b>> \in Written
  PROVE  <<"dag", b>> \in Written'
<1> DEFINE i == <<"dag", b>>
<1>1. i \in Ids /\ i[1] = "dag" /\ reports[i].kind = "weekly" /\ IsRow(reports[i])
  BY DEF ReportInv, RowsInPlace, Written
<1>2. \A r \in Requests : i # <<"placeholder", r>> /\ i # <<"weekly", r>>
  BY <1>1
<1>3. reports = [j \in Ids |-> reports[j]]  BY DEF ReportInv, RowsInPlace
<1> HIDE DEF i
<1>4. SUFFICES reports'[i].kind = "weekly"  BY <1>1 DEF Written, i
<1>5. CASE UNCHANGED reports  BY <1>1, <1>5
<1>6. ASSUME NEW k \in Ids, NEW c, NEW d, Generate(k, c, d) PROVE reports'[i].kind = "weekly"
  BY <1>1, <1>3, <1>6 DEF Generate, Row
<1>7. ASSUME NEW r \in Requests, NEW c \in Brands, NEW d \in Days, Request(r, c, d)
      PROVE  reports'[i].kind = "weekly"
  BY <1>1, <1>2, <1>3, <1>7 DEF Request
<1>8. ASSUME NEW r \in Requests, GenerateForRequest(r) PROVE reports'[i].kind = "weekly"
  <2>1. <<"weekly", r>> \in Ids  BY DEF Ids
  <2>2. QED  BY <1>6, <1>8, <2>1 DEF GenerateForRequest
<1>9. ASSUME NEW r \in Requests, Fill(r) PROVE reports'[i].kind = "weekly"
  BY <1>1, <1>2, <1>3, <1>9 DEF Fill
<1>10. ASSUME NEW c \in Brands, Generate(<<"dag", c>>, c, run.start)
       PROVE  reports'[i].kind = "weekly"
  <2>1. <<"dag", c>> \in Ids  BY DEF Ids
  <2>2. QED  BY <1>6, <1>10, <2>1
<1>11. ASSUME NEW c \in Brands, NEW m \in Recipients, Record(c, m)
       PROVE  reports'[i].kind = "weekly"
  <2>1. <<"dag", c>> \in Ids  BY DEF Ids
  <2>2. IsRow(reports[<<"dag", c>>])  BY <2>1 DEF ReportInv, RowsInPlace
  <2>3. QED  BY <1>1, <1>3, <1>11, <2>1, <2>2 DEF Record, IsRow
<1>12. QED
  BY <1>5, <1>7, <1>8, <1>9, <1>10, <1>11
  DEF Next, vars, Tick, NewScore, SeedBrand, RequestFails, StartRun, GenerateForRun, RenderFails,
      StatementFails, Poisoned, Generated, RunDies, Mail, Mailed

LEMMA IsolatedOK == ReportInv /\ IsolatedInv /\ [Next]_vars => IsolatedInv'
<1> SUFFICES ASSUME ReportInv, IsolatedInv, [Next]_vars PROVE IsolatedInv'
  OBVIOUS
<1>1. \A b \in Brands : <<"dag", b>> \in Written => <<"dag", b>> \in Written'
  BY ReportsStay
<1>2. RunInPlace  BY DEF ReportInv
<1>3. CASE UNCHANGED <<run, failed>>  BY <1>1, <1>3 DEF IsolatedInv, Covered
<1>4. CASE StartRun  BY <1>4 DEF StartRun, NoRun, IsolatedInv, Covered
<1>5. CASE Generated
  BY <1>1, <1>2, <1>5 DEF Generated, RunInPlace, IsolatedInv, Covered
<1>6. CASE RunDies \/ Mailed
  BY <1>2, <1>6 DEF RunDies, Mailed, RunInPlace, IsolatedInv
<1>7. ASSUME NEW b \in Brands, GenerateForRun(b) PROVE IsolatedInv'
  <2>1. <<"dag", b>> \in Written'
    <3>1. <<"dag", b>> \in Ids  BY DEF Ids
    <3>2. reports'[<<"dag", b>>].kind = "weekly"
      BY <1>7, <3>1 DEF GenerateForRun, Generate, Row, ReportInv, RowsInPlace
    <3>3. QED  BY <3>1, <3>2 DEF Written
  <2>2. /\ run'.at = "generate" /\ run'.todo = run.todo \ {b} /\ failed' = failed
        /\ run.at = "generate" /\ ~run.poisoned
    BY <1>2, <1>7 DEF GenerateForRun, RunInPlace
  <2>3. QED  BY <1>1, <2>1, <2>2 DEF IsolatedInv, Covered
<1>8. ASSUME NEW b \in Brands, RenderFails(b) \/ StatementFails(b) \/ Poisoned(b)
      PROVE  IsolatedInv'
  <2>1. /\ run.at = "generate" /\ run'.at = "generate" /\ run'.todo = run.todo \ {b}
        /\ failed \subseteq failed' /\ (~run'.poisoned => ~run.poisoned /\ b \in failed')
    BY <1>2, <1>8 DEF RenderFails, StatementFails, Poisoned, Skip, RunInPlace
  <2>2. QED  BY <1>1, <2>1 DEF IsolatedInv, Covered
<1>9. ASSUME NEW b \in Brands, NEW m \in Recipients, Mail(b, m) PROVE IsolatedInv'
  <2>1. /\ run'.at = run.at /\ run'.todo = run.todo /\ run'.poisoned = run.poisoned
        /\ failed' = failed
    BY <1>2, <1>9 DEF Mail, RunInPlace
  <2>2. QED  BY <1>1, <2>1 DEF IsolatedInv, Covered
<1>10. QED
  BY <1>3, <1>4, <1>5, <1>6, <1>7, <1>8, <1>9
  DEF Next, vars, Tick, NewScore, SeedBrand, Request, GenerateForRequest, Fill, RequestFails

-------------------------------------------------------------------------------
(* Theorems *)

\* What the invariant is for: the two reports read the same window of the same scores.
LEMMA InvAgrees == ReportInv => WeeksAgree
<1> SUFFICES ASSUME ReportInv, NEW i \in Written, NEW j \in Written,
                    reports[i].brand = reports[j].brand,
                    reports[i].brand \cap seeded = {},
                    reports[j].start = reports[i].start + Week,
                    "current" \in reports[i].over, "previous" \in reports[j].over,
                    NEW c \in DOMAIN reports[i].content.current,
                    c \in DOMAIN reports[j].content.previous
             PROVE  reports[j].content.previous[c] = reports[i].content.current[c]
  BY DEF WeeksAgree
<1> DEFINE d == reports[i].start
<1>1. d \in Int  BY DEF ReportInv, RowsInPlace, IsRow, Written
<1>2. PICK b \in Brands : reports[i].brand = {b} /\ SaysWhatIs(reports[i], scores[b])
                                                /\ SaysWhatIs(reports[j], scores[b])
  BY DEF ReportInv, Faithful
<1>3. reports[i].content.current = Current(scores[b], d)  BY <1>2 DEF SaysWhatIs
<1>4. /\ c \in Seen(scores[b], CurrentWindow(d))
      /\ reports[i].content.current[c] = Latest(scores[b], c, CurrentWindow(d))
  BY <1>3 DEF Current
<1>5. PreviousWindow(reports[j].start) = CurrentWindow(d)  BY <1>1, SameWeek
<1>6. reports[j].content.previous[c] = Latest(scores[b], c, CurrentWindow(d))
  BY <1>2, <1>4, <1>5 DEF SaysWhatIs
<1>7. QED  BY <1>4, <1>6

\* _assemble: what two consecutive reports of a brand say of the week between them is the
\* same, for any number of brands, reports, scores and faults, however the requests for
\* reports, the weekly run and new scores follow one another.
THEOREM WeeksAlwaysAgree == Spec => []WeeksAgree
<1>1. Init => ReportInv  BY InitOK
<1>2. ReportInv /\ [Next]_vars => ReportInv'  BY StepOK
<1>3. ReportInv => WeeksAgree  BY InvAgrees
<1>4. QED  BY <1>1, <1>2, <1>3, PTL DEF Spec

\* generate_reports: for any number of brands, a brand that fails costs no other brand its
\* report, as long as no statement has failed in the session they share.
THEOREM BrandsAlwaysIsolated == Spec => []BrandsIsolated
<1>1. Init => ReportInv  BY InitOK
<1>2. Init => IsolatedInv  BY DEF Init, NoRun, IsolatedInv
<1>3. ReportInv /\ [Next]_vars => ReportInv'  BY StepOK
<1>4. ReportInv /\ IsolatedInv /\ [Next]_vars => IsolatedInv'  BY IsolatedOK
<1>5. IsolatedInv => BrandsIsolated  BY DEF IsolatedInv, Covered, BrandsIsolated
<1>6. QED  BY <1>1, <1>2, <1>3, <1>4, <1>5, PTL DEF Spec

===============================================================================
