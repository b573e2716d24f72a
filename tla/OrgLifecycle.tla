----------------------------- MODULE OrgLifecycle -----------------------------
(***************************************************************************)
(* Organisations: sign-up, API keys, the brand wizard, the product tour,   *)
(* the demo organisation, and deletion on request (routers/onboarding.py,  *)
(* routers/auth.py, routers/organizations.py).                             *)
(*                                                                         *)
(* A request works in one transaction of the session that get_db yields:   *)
(* what it reads is committed, what it flushed holds its unique values,    *)
(* what it wrote is committed at the end or rolled back.  The variables    *)
(* below Requests are the committed tables.                                *)
(***************************************************************************)
EXTENDS Integers, FiniteSets

CONSTANTS Names,       \* slugs that organisation names become
          Emails,
          BrandSlugs,
          Tokens,      \* organisations for which a JWT is in use; a JWT has no row
          Signups, Wizards, Tours, Seeds, NewKeys,  \* requests, and the rows they make
          MaxSuffix,   \* bound on the suffix of a slug
          MaxFaults    \* bound on faults

ASSUME OrgAssumption ==
  /\ MaxSuffix \in Nat /\ MaxFaults \in Nat
  /\ Tokens \subseteq Names \X (0..MaxSuffix)
  /\ Signups \cap NewKeys = {}

\* organisation ids: the base and the number behind it
Slugs == Names \X (0..MaxSuffix)

VARIABLES
  signup, wizard, tour, seed,  \* the requests
  orgs,     \* organizations: slug and email
  states,   \* onboarding_states, by organisation
  keys,     \* api_keys
  brands,   \* brands that the wizard made, each with its scan job
  demo,     \* rows of the demo organisation, named after the request that wrote them
  asked,    \* history: organisations whose deletion was asked for
  faults    \* history: number of faults

tables == <<orgs, states, keys, brands, demo>>
vars == <<signup, wizard, tour, seed, orgs, states, keys, brands, demo, asked, faults>>

NoState == [step |-> "none", brand |-> {}, job |-> {}, toured |-> FALSE]
Created == [NoState EXCEPT !.step = "account_created"]

Idle(R) == [r \in R |-> [pc |-> "idle"]]
Over == [pc |-> "over"]

Init ==
  /\ signup = Idle(Signups) /\ wizard = Idle(Wizards) /\ tour = Idle(Tours)
  /\ seed = Idle(Seeds)
  /\ orgs = {} /\ keys = {} /\ brands = {}
  /\ states = [o \in Slugs |-> NoState]
  /\ demo = [orgs |-> {}, brands |-> {}, scores |-> {}, others |-> {}]
  /\ asked = {} /\ faults = 0

\* get_org_context and require_role: an active key with one of the roles, or a token.
ByKey(o, roles) == \E k \in keys : k.org = o /\ k.active /\ k.role \in roles
ByToken(o) == o \in Tokens
Authorised(o, roles) == ByKey(o, roles) \/ ByToken(o)

AnyRole == {"admin", "analyst", "viewer"}

-------------------------------------------------------------------------------
(* POST /signup *)

StartSignup(s, name, email) ==
  /\ signup[s].pc = "idle"
  /\ signup' = [signup EXCEPT ![s] =
                  IF \E o \in orgs : o.email = email
                    THEN Over
                    ELSE [pc |-> "slug", name |-> name, email |-> email, n |-> 0]]
  /\ UNCHANGED <<wizard, tour, seed, tables, asked, faults>>

\* One turn of the loop for a free slug.
FindSlug(s) ==
  /\ signup[s].pc = "slug" /\ signup[s].n <= MaxSuffix
  /\ signup' = IF \E o \in orgs : o.slug = <<signup[s].name, signup[s].n>>
                 THEN [signup EXCEPT ![s].n = @ + 1]
                 ELSE [signup EXCEPT ![s].pc = "flush"]
  /\ UNCHANGED <<wizard, tour, seed, tables, asked, faults>>

OrgOf(s) == [slug |-> <<signup[s].name, signup[s].n>>, email |-> signup[s].email]
Collide(o, p) == o.slug = p.slug \/ o.email = p.email

\* The flush in create_api_key inserts all three rows; it waits for a transaction that
\* holds the slug or the e-mail, and fails if one of them is taken.
FlushSignup(s) ==
  /\ signup[s].pc = "flush"
  /\ \A t \in Signups : signup[t].pc = "commit" => ~Collide(OrgOf(t), OrgOf(s))
  /\ signup' = IF (\E o \in orgs : Collide(o, OrgOf(s))) \/ states[OrgOf(s).slug] # NoState
                 THEN [signup EXCEPT ![s] = Over]
                 ELSE [signup EXCEPT ![s].pc = "commit"]
  /\ UNCHANGED <<wizard, tour, seed, tables, asked, faults>>

\* Faulty: a role that require_role does not know.
OwnerKey(id, o, role) == [id |-> id, org |-> o, role |-> "owner", active |-> TRUE]

NewKey(id, o, role) == [id |-> id, org |-> o, role |-> role, active |-> TRUE]

\* Faulty: the organisation is committed by itself.
CommitsOrgFirst(s) ==
  /\ orgs' = orgs \cup {OrgOf(s)}
  /\ UNCHANGED <<states, keys>>

\* The one commit of sign-up.
Committed(s) ==
  /\ orgs' = orgs \cup {OrgOf(s)}
  /\ states' = [states EXCEPT ![OrgOf(s).slug] = Created]
  /\ keys' = keys \cup {NewKey(s, OrgOf(s).slug, "admin")}

CommitSignup(s) ==
  /\ signup[s].pc = "commit"
  /\ Committed(s)
  /\ signup' = [signup EXCEPT ![s] = Over]
  /\ UNCHANGED <<wizard, tour, seed, brands, demo, asked, faults>>

-------------------------------------------------------------------------------
(* routers/auth.py *)

CreateKey(k, o, role) ==
  /\ Authorised(o, {"admin"}) /\ \A x \in keys : x.id # k
  /\ keys' = keys \cup {NewKey(k, o, role)}
  /\ UNCHANGED <<signup, wizard, tour, seed, orgs, states, brands, demo, asked, faults>>

\* A key of the caller's organisation; it may be the last one.
RevokeKey(k, o) ==
  /\ Authorised(o, {"admin"}) /\ k \in keys /\ k.org = o /\ k.active
  /\ keys' = (keys \ {k}) \cup {[k EXCEPT !.active = FALSE]}
  /\ UNCHANGED <<signup, wizard, tour, seed, orgs, states, brands, demo, asked, faults>>

-------------------------------------------------------------------------------
(* POST /brand-wizard *)

StartWizard(w, o, b) ==
  /\ wizard[w].pc = "idle" /\ Authorised(o, AnyRole)
  /\ wizard' = [wizard EXCEPT ![w] =
                  IF \E x \in brands : x.slug = b
                    THEN Over
                    ELSE [pc |-> "flush", org |-> o, slug |-> b]]
  /\ UNCHANGED <<signup, tour, seed, tables, asked, faults>>

\* Brand and job are flushed; the slug is unique.
FlushWizard(w) ==
  /\ wizard[w].pc = "flush"
  /\ \A v \in Wizards : wizard[v].pc \in {"state", "commit"} => wizard[v].slug # wizard[w].slug
  /\ wizard' = IF \E x \in brands : x.slug = wizard[w].slug
                 THEN [wizard EXCEPT ![w] = Over]
                 ELSE [wizard EXCEPT ![w].pc = "state"]
  /\ UNCHANGED <<signup, tour, seed, tables, asked, faults>>

ReadState(w) ==
  /\ wizard[w].pc = "state"
  /\ wizard' = [wizard EXCEPT ![w] = [pc |-> "commit", org |-> @.org, slug |-> @.slug,
                                      read |-> states[@.org]]]
  /\ UNCHANGED <<signup, tour, seed, tables, asked, faults>>

\* Faulty: the first job stays, as the name of the column has it.
FirstJobStays(w, now) ==
  [now EXCEPT !.brand = {w}, !.job = IF now.job = {} THEN {w} ELSE now.job,
              !.step = IF wizard[w].read.step = "scan_triggered" THEN @ ELSE "scan_triggered"]

\* The columns that differ from what was read are written over what the row is now.
Advanced(w, now) ==
  [now EXCEPT !.brand = {w}, !.job = {w},
              !.step = IF wizard[w].read.step = "scan_triggered" THEN @ ELSE "scan_triggered"]

CommitWizard(w) ==
  /\ wizard[w].pc = "commit"
  /\ LET o == wizard[w].org IN
     /\ brands' = brands \cup {[id |-> w, org |-> o, slug |-> wizard[w].slug]}
     /\ states' = IF wizard[w].read = NoState
                    THEN states ELSE [states EXCEPT ![o] = Advanced(w, @)]
  /\ wizard' = [wizard EXCEPT ![w] = Over]
  /\ UNCHANGED <<signup, tour, seed, orgs, keys, demo, asked, faults>>

-------------------------------------------------------------------------------
(* POST /tour-complete *)

StartTour(t, o) ==
  /\ tour[t].pc = "idle" /\ Authorised(o, AnyRole)
  /\ tour' = [tour EXCEPT ![t] = IF states[o] = NoState
                                   THEN Over
                                   ELSE [pc |-> "commit", org |-> o, read |-> states[o]]]
  /\ UNCHANGED <<signup, wizard, seed, tables, asked, faults>>

Toured(t, now) ==
  [now EXCEPT !.toured = TRUE,
              !.step = IF tour[t].read.step = "scan_triggered" THEN "tour_completed" ELSE @]

CommitTour(t) ==
  /\ tour[t].pc = "commit"
  /\ states' = [states EXCEPT ![tour[t].org] = Toured(t, @)]
  /\ tour' = [tour EXCEPT ![t] = Over]
  /\ UNCHANGED <<signup, wizard, seed, orgs, keys, brands, demo, asked, faults>>

-------------------------------------------------------------------------------
(* POST /demo/seed, also as the admin's /db/seed, and GET /demo/access *)

\* Whether there is a demo organisation, and, for the wipe, what the first of its
\* deletes sees: scores are found through the brands.
StartSeed(d, force) ==
  /\ seed[d].pc = "idle"
  /\ seed' = [seed EXCEPT ![d] =
                CASE demo.orgs = {} -> [pc |-> "flush", wiped |-> {}, seen |-> {}]
                  [] demo.orgs # {} /\ force -> [pc |-> "wipe", seen |-> demo.brands]
                  [] OTHER -> Over]
  /\ UNCHANGED <<signup, wizard, tour, tables, asked, faults>>

Holds(d) == seed[d].pc = "commit" \/ (seed[d].pc = "flush" /\ seed[d].wiped # {})

\* The deletes wait for another wipe of the same rows.
Wipe(d) ==
  /\ seed[d].pc = "wipe" /\ \A e \in Seeds \ {d} : ~Holds(e)
  /\ seed' = [seed EXCEPT ![d] = [pc |-> "flush", wiped |-> demo.brands, seen |-> @.seen]]
  /\ UNCHANGED <<signup, wizard, tour, tables, asked, faults>>

\* Faulty: organisation and brand are committed where they are flushed.
CommitsEarly(d) ==
  demo' = [demo EXCEPT !.orgs = (@ \ seed[d].wiped) \cup {d},
                       !.brands = (@ \ seed[d].wiped) \cup {d}]

\* Nothing of a flush is seen by others.
Flushed(d) == UNCHANGED demo

\* Slugs of organisation and brand are unique: the flush waits for another transaction
\* that has flushed or deleted them, and fails if they are there.
FlushSeed(d) ==
  /\ seed[d].pc = "flush" /\ \A e \in Seeds \ {d} : ~Holds(e)
  /\ IF demo.orgs \subseteq seed[d].wiped
       THEN Flushed(d) /\ seed' = [seed EXCEPT ![d].pc = "commit"]
       ELSE UNCHANGED demo /\ seed' = [seed EXCEPT ![d] = Over]
  /\ UNCHANGED <<signup, wizard, tour, orgs, states, keys, brands, asked, faults>>

\* Scores, probe results and alerts are inserted by the commit.
CommitSeed(d) ==
  /\ seed[d].pc = "commit"
  /\ LET gone == seed[d].wiped IN
     demo' = [orgs |-> (demo.orgs \ gone) \cup {d}, brands |-> (demo.brands \ gone) \cup {d},
              scores |-> (demo.scores \ seed[d].seen) \cup {d},
              others |-> (demo.others \ gone) \cup {d}]
  /\ seed' = [seed EXCEPT ![d] = Over]
  /\ UNCHANGED <<signup, wizard, tour, orgs, states, keys, brands, asked, faults>>

-------------------------------------------------------------------------------
(* DELETE /organizations/{id} *)

\* The model of embedding_costs has an attribute org_id.
CostHasOrg == FALSE

\* Everything up to the costs is deleted; there the statement cannot be built, the
\* handler raises, and get_db rolls back.
DeleteOrganization(o) ==
  /\ Authorised(o, {"admin"}) /\ \E x \in orgs : x.slug = o
  /\ asked' = asked \cup {o}
  /\ IF CostHasOrg
       THEN /\ orgs' = {x \in orgs : x.slug # o}
            /\ states' = [states EXCEPT ![o] = NoState]
            /\ keys' = {k \in keys : k.org # o}
            /\ brands' = {b \in brands : b.org # o}
       ELSE UNCHANGED <<orgs, states, keys, brands>>
  /\ UNCHANGED <<signup, wizard, tour, seed, demo, faults>>

\* The process or its connection dies, or the client goes away: the session rolls back.
Abort ==
  /\ faults < MaxFaults /\ faults' = faults + 1
  /\ \/ \E s \in Signups : /\ signup[s].pc \notin {"idle", "over"}
                           /\ signup' = [signup EXCEPT ![s] = Over]
                           /\ UNCHANGED <<wizard, tour, seed>>
     \/ \E w \in Wizards : /\ wizard[w].pc \notin {"idle", "over"}
                           /\ wizard' = [wizard EXCEPT ![w] = Over]
                           /\ UNCHANGED <<signup, tour, seed>>
     \/ \E t \in Tours : /\ tour[t].pc = "commit"
                         /\ tour' = [tour EXCEPT ![t] = Over]
                         /\ UNCHANGED <<signup, wizard, seed>>
     \/ \E d \in Seeds : /\ seed[d].pc \notin {"idle", "over"}
                         /\ seed' = [seed EXCEPT ![d] = Over]
                         /\ UNCHANGED <<signup, wizard, tour>>
  /\ UNCHANGED <<tables, asked>>

-------------------------------------------------------------------------------

Next ==
  \/ \E s \in Signups : \/ \E n \in Names, e \in Emails : StartSignup(s, n, e)
                        \/ FindSlug(s) \/ FlushSignup(s) \/ CommitSignup(s)
  \/ \E o \in Slugs :
       \/ \E k \in NewKeys, role \in AnyRole : CreateKey(k, o, role)
       \/ \E k \in keys : RevokeKey(k, o)
       \/ \E w \in Wizards, b \in BrandSlugs : StartWizard(w, o, b)
       \/ \E t \in Tours : StartTour(t, o)
       \/ DeleteOrganization(o)
  \/ \E w \in Wizards : FlushWizard(w) \/ ReadState(w) \/ CommitWizard(w)
  \/ \E t \in Tours : CommitTour(t)
  \/ \E d \in Seeds : \/ \E force \in BOOLEAN : StartSeed(d, force)
                      \/ Wipe(d) \/ FlushSeed(d) \/ CommitSeed(d)
  \/ Abort

Spec == Init /\ [][Next]_vars

-------------------------------------------------------------------------------
(* Properties *)

\* Every variable has its type.
TypeOK ==
  /\ \A s \in Signups : signup[s].pc \in {"idle", "slug", "flush", "commit", "over"}
  /\ \A w \in Wizards : wizard[w].pc \in {"idle", "flush", "state", "commit", "over"}
  /\ \A t \in Tours : tour[t].pc \in {"idle", "commit", "over"}
  /\ \A d \in Seeds : seed[d].pc \in {"idle", "wipe", "flush", "commit", "over"}
  /\ orgs \subseteq [slug : Slugs, email : Emails]
  /\ states \in [Slugs -> [step : {"none", "account_created", "scan_triggered",
                                   "tour_completed"},
                           brand : SUBSET Wizards, job : SUBSET Wizards, toured : BOOLEAN]]
  /\ keys \subseteq [id : Signups \cup NewKeys, org : Slugs, role : AnyRole, active : BOOLEAN]
  /\ brands \subseteq [id : Wizards, org : Slugs, slug : BrandSlugs]
  /\ demo \in [{"orgs", "brands", "scores", "others"} -> SUBSET Seeds]
  /\ asked \subseteq Slugs /\ faults \in 0..MaxFaults

\* signup: "Create org + admin API key in one atomic step".  Whoever else looks for the
\* same slug or e-mail meanwhile, an organisation is there exactly if its onboarding
\* state and its first admin key are, and no two share a slug or an e-mail.
SignupWhole ==
  /\ \A o \in orgs : /\ states[o.slug] # NoState
                     /\ \E k \in keys : k.id \in Signups /\ k.org = o.slug /\ k.role = "admin"
                     /\ \A p \in orgs : Collide(o, p) => o = p
  /\ \A o \in Slugs : states[o] # NoState => \E p \in orgs : p.slug = o
  /\ \A k \in keys : k.id \in Signups => \E p \in orgs : p.slug = k.org

\* brand_wizard and tour_complete: whichever wizards and tours overlap, and whatever they
\* read, brand and scan job of the state are those of one run of the wizard for this
\* organisation, there is a brand unless the account is only created, and only a tour
\* that was taken is completed.
StateOfOneRun ==
  \A o \in Slugs :
    LET s == states[o] IN
    /\ s.brand = s.job
    /\ \A w \in s.brand : \E b \in brands : b.id = w /\ b.org = o
    /\ s.brand = {} <=> s.step \in {"none", "account_created"}
    /\ s.step = "tour_completed" => s.toured

\* seed_demo_data: whichever seeds overlap, with force or without, the demo organisation
\* has one brand with all of its scores, probe results and alerts, or there is none.
\* Scores of an earlier brand may be left.
WholeDemo ==
  /\ Cardinality(demo.orgs) <= 1
  /\ demo.brands = demo.orgs /\ demo.others = demo.orgs /\ demo.orgs \subseteq demo.scores

\* delete_organization, routers/organizations.py:45: "Permanently delete all data for an
\* organization".  Violated.
DeletionHonoured == \A x \in orgs : x.slug \notin asked

===============================================================================
