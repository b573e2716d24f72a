-------------------------- MODULE OrgLifecycleProofs --------------------------
(***************************************************************************)
(* Organisations for any number of requests, keys and faults: sign-up is   *)
(* whole, the onboarding state is that of one run of the wizard, the demo  *)
(* organisation is complete or not there.                                  *)
(***************************************************************************)
EXTENDS OrgLifecycle, FiniteSetTheorems, TLAPS

USE OrgAssumption DEF OrgAssumption

-------------------------------------------------------------------------------
(* Types *)

Steps == {"none", "account_created", "scan_triggered", "tour_completed"}
State == [step : Steps, brand : SUBSET Wizards, job : SUBSET Wizards, toured : BOOLEAN]

\* A request has not begun, is over, or carries what it needs.
Outside(x) == x.pc \in {"idle", "over"}

SignupTyped(x) ==
  Outside(x) \/ /\ x \in [pc : {"slug", "flush", "commit"}, name : Names, email : Emails, n : Nat]
                /\ x.pc # "slug" => x.n <= MaxSuffix

WizardTyped(x) ==
  \/ Outside(x)
  \/ x \in [pc : {"flush", "state"}, org : Slugs, slug : BrandSlugs]
  \/ x \in [pc : {"commit"}, org : Slugs, slug : BrandSlugs, read : State]

TourTyped(x) == Outside(x) \/ x \in [pc : {"commit"}, org : Slugs, read : State]

SeedTyped(x) ==
  \/ Outside(x)
  \/ x \in [pc : {"wipe"}, seen : SUBSET Seeds]
  \/ x \in [pc : {"flush", "commit"}, wiped : SUBSET Seeds, seen : SUBSET Seeds]

SignupsTyped == signup = [s \in Signups |-> signup[s]] /\ \A s \in Signups : SignupTyped(signup[s])
WizardsTyped == wizard = [w \in Wizards |-> wizard[w]] /\ \A w \in Wizards : WizardTyped(wizard[w])
ToursTyped == tour = [t \in Tours |-> tour[t]] /\ \A t \in Tours : TourTyped(tour[t])
SeedsTyped == seed = [d \in Seeds |-> seed[d]] /\ \A d \in Seeds : SeedTyped(seed[d])

OrgsTyped == orgs \subseteq [slug : Slugs, email : Emails]
StatesTyped == states \in [Slugs -> State]
KeysTyped ==
  keys \subseteq [id : Signups \cup NewKeys, org : Slugs, role : AnyRole, active : BOOLEAN]
BrandsTyped == brands \subseteq [id : Wizards, org : Slugs, slug : BrandSlugs]
DemoTyped == demo \in [{"orgs", "brands", "scores", "others"} -> SUBSET Seeds]

TypeInv ==
  /\ SignupsTyped /\ WizardsTyped /\ ToursTyped /\ SeedsTyped
  /\ OrgsTyped /\ StatesTyped /\ KeysTyped /\ BrandsTyped /\ DemoTyped
  /\ asked \subseteq Slugs /\ faults \in 0..MaxFaults

LEMMA TypeInit == Init => TypeInv
<1> SUFFICES ASSUME Init PROVE TypeInv
  OBVIOUS
<1>1. SignupsTyped /\ WizardsTyped
  BY DEF Init, Idle, SignupsTyped, WizardsTyped, SignupTyped, WizardTyped, Outside
<1>2. ToursTyped /\ SeedsTyped
  BY DEF Init, Idle, ToursTyped, SeedsTyped, TourTyped, SeedTyped, Outside
<1>3. StatesTyped  BY DEF Init, NoState, StatesTyped, State, Steps
<1>4. DemoTyped  BY DEF Init, DemoTyped
<1>5. QED
  BY <1>1, <1>2, <1>3, <1>4 DEF TypeInv, Init, OrgsTyped, KeysTyped, BrandsTyped

\* A request that moves on leaves the others where they are.
LEMMA SignupMoves ==
  ASSUME SignupsTyped, NEW s \in Signups, NEW x, SignupTyped(x),
         signup' = [signup EXCEPT ![s] = x]
  PROVE  SignupsTyped'
BY DEF SignupsTyped

LEMMA WizardMoves ==
  ASSUME WizardsTyped, NEW w \in Wizards, NEW x, WizardTyped(x),
         wizard' = [wizard EXCEPT ![w] = x]
  PROVE  WizardsTyped'
BY DEF WizardsTyped

LEMMA TourMoves ==
  ASSUME ToursTyped, NEW t \in Tours, NEW x, TourTyped(x), tour' = [tour EXCEPT ![t] = x]
  PROVE  ToursTyped'
BY DEF ToursTyped

LEMMA SeedMoves ==
  ASSUME SeedsTyped, NEW d \in Seeds, NEW x, SeedTyped(x), seed' = [seed EXCEPT ![d] = x]
  PROVE  SeedsTyped'
BY DEF SeedsTyped

LEMMA OverTyped ==
  SignupTyped(Over) /\ WizardTyped(Over) /\ TourTyped(Over) /\ SeedTyped(Over)
BY DEF SignupTyped, WizardTyped, TourTyped, SeedTyped, Outside, Over

LEMMA RequestsKept ==
  /\ SignupsTyped /\ UNCHANGED signup => SignupsTyped'
  /\ WizardsTyped /\ UNCHANGED wizard => WizardsTyped'
  /\ ToursTyped /\ UNCHANGED tour => ToursTyped'
  /\ SeedsTyped /\ UNCHANGED seed => SeedsTyped'
BY DEF SignupsTyped, WizardsTyped, ToursTyped, SeedsTyped

LEMMA TablesKept ==
  /\ OrgsTyped /\ UNCHANGED orgs => OrgsTyped'
  /\ StatesTyped /\ UNCHANGED states => StatesTyped'
  /\ KeysTyped /\ UNCHANGED keys => KeysTyped'
  /\ BrandsTyped /\ UNCHANGED brands => BrandsTyped'
  /\ DemoTyped /\ UNCHANGED demo => DemoTyped'
BY DEF OrgsTyped, StatesTyped, KeysTyped, BrandsTyped, DemoTyped

\* What an organisation that a sign-up has found a slug for looks like.
LEMMA OrgOfTyped ==
  ASSUME SignupsTyped, NEW s \in Signups, signup[s].pc \in {"flush", "commit"}
  PROVE  OrgOf(s) \in [slug : Slugs, email : Emails]
BY DEF SignupsTyped, SignupTyped, Outside, OrgOf, Slugs

LEMMA NewKeyTyped ==
  ASSUME NEW k \in Signups \cup NewKeys, NEW o \in Slugs, NEW r \in AnyRole
  PROVE  NewKey(k, o, r)
           \in [id : Signups \cup NewKeys, org : Slugs, role : AnyRole, active : BOOLEAN]
BY DEF NewKey

LEMMA SignupTypes ==
  ASSUME TypeInv, NEW s \in Signups,
         \/ \E n \in Names, e \in Emails : StartSignup(s, n, e)
         \/ FindSlug(s) \/ FlushSignup(s) \/ CommitSignup(s)
  PROVE  TypeInv'
<1>1. SignupsTyped  BY DEF TypeInv
<1>2. ASSUME NEW n \in Names, NEW e \in Emails, StartSignup(s, n, e) PROVE TypeInv'
  <2>1. SignupTyped([pc |-> "slug", name |-> n, email |-> e, n |-> 0])
    BY DEF SignupTyped, Outside
  <2>2. SignupsTyped'  BY <1>1, <1>2, <2>1, OverTyped, SignupMoves DEF StartSignup
  <2>3. QED  BY <1>2, <2>2, RequestsKept, TablesKept DEF StartSignup, TypeInv, tables
<1>3. CASE FindSlug(s)
  <2>1. /\ signup[s] \in [pc : {"slug", "flush", "commit"}, name : Names, email : Emails, n : Nat]
        /\ signup[s].pc = "slug" /\ signup[s].n <= MaxSuffix
    BY <1>1, <1>3 DEF SignupsTyped, SignupTyped, Outside, FindSlug
  <2>2. /\ SignupTyped([signup[s] EXCEPT !.n = @ + 1])
        /\ SignupTyped([signup[s] EXCEPT !.pc = "flush"])
    BY <2>1 DEF SignupTyped
  <2>3. \/ signup' = [signup EXCEPT ![s] = [signup[s] EXCEPT !.n = @ + 1]]
        \/ signup' = [signup EXCEPT ![s] = [signup[s] EXCEPT !.pc = "flush"]]
    BY <1>1, <1>3 DEF FindSlug, SignupsTyped
  <2>4. SignupsTyped'  BY <1>1, <2>2, <2>3, SignupMoves
  <2>5. QED  BY <1>3, <2>4, RequestsKept, TablesKept DEF FindSlug, TypeInv, tables
<1>4. CASE FlushSignup(s)
  <2>1. SignupTyped(signup[s]) /\ signup[s].pc = "flush"
    BY <1>1, <1>4 DEF SignupsTyped, FlushSignup
  <2>2. SignupTyped([signup[s] EXCEPT !.pc = "commit"])  BY <2>1 DEF SignupTyped, Outside
  <2>3. \/ signup' = [signup EXCEPT ![s] = Over]
        \/ signup' = [signup EXCEPT ![s] = [signup[s] EXCEPT !.pc = "commit"]]
    BY <1>1, <1>4 DEF FlushSignup, SignupsTyped
  <2>4. SignupsTyped'  BY <1>1, <2>2, <2>3, OverTyped, SignupMoves
  <2>5. QED  BY <1>4, <2>4, RequestsKept, TablesKept DEF FlushSignup, TypeInv, tables
<1>5. CASE CommitSignup(s)
  <2>1. OrgOf(s) \in [slug : Slugs, email : Emails]
    BY <1>1, <1>5, OrgOfTyped DEF CommitSignup
  <2>2. OrgsTyped'  BY <1>5, <2>1 DEF CommitSignup, Committed, TypeInv, OrgsTyped
  <2>3. StatesTyped'
    <3>1. Created \in State  BY DEF Created, NoState, State, Steps
    <3>2. QED  BY <1>5, <2>1, <3>1 DEF CommitSignup, Committed, TypeInv, StatesTyped
  <2>4. KeysTyped'
    BY <1>5, <2>1, NewKeyTyped DEF CommitSignup, Committed, TypeInv, KeysTyped, AnyRole
  <2>5. SignupsTyped'  BY <1>1, <1>5, OverTyped, SignupMoves DEF CommitSignup
  <2>6. QED
    BY <1>5, <2>2, <2>3, <2>4, <2>5, RequestsKept, TablesKept DEF CommitSignup, TypeInv
<1>6. QED  BY <1>2, <1>3, <1>4, <1>5

LEMMA KeyTypes ==
  ASSUME TypeInv, NEW o \in Slugs,
         \/ \E k \in NewKeys, role \in AnyRole : CreateKey(k, o, role)
         \/ \E k \in keys : RevokeKey(k, o)
  PROVE  TypeInv'
<1>1. KeysTyped  BY DEF TypeInv
<1>2. KeysTyped'
  <2>1. ASSUME NEW k \in NewKeys, NEW role \in AnyRole, CreateKey(k, o, role) PROVE KeysTyped'
    <3>1. k \in Signups \cup NewKeys  OBVIOUS
    <3>2. QED  BY <1>1, <2>1, <3>1, NewKeyTyped DEF CreateKey, KeysTyped
  <2>2. ASSUME NEW k \in keys, RevokeKey(k, o) PROVE KeysTyped'
    BY <1>1, <2>2 DEF RevokeKey, KeysTyped
  <2>3. QED  BY <2>1, <2>2
<1>3. QED  BY <1>2, RequestsKept, TablesKept DEF CreateKey, RevokeKey, TypeInv

LEMMA WizardTypes ==
  ASSUME TypeInv, NEW w \in Wizards,
         \/ \E o \in Slugs, b \in BrandSlugs : StartWizard(w, o, b)
         \/ FlushWizard(w) \/ ReadState(w) \/ CommitWizard(w)
  PROVE  TypeInv'
<1>1. WizardsTyped /\ StatesTyped /\ BrandsTyped  BY DEF TypeInv
<1>2. ASSUME NEW o \in Slugs, NEW b \in BrandSlugs, StartWizard(w, o, b) PROVE TypeInv'
  <2>1. WizardTyped([pc |-> "flush", org |-> o, slug |-> b])  BY DEF WizardTyped, Outside
  <2>2. WizardsTyped'  BY <1>1, <1>2, <2>1, OverTyped, WizardMoves DEF StartWizard
  <2>3. QED  BY <1>2, <2>2, RequestsKept, TablesKept DEF StartWizard, TypeInv, tables
<1>3. CASE FlushWizard(w)
  <2>1. wizard[w] \in [pc : {"flush", "state"}, org : Slugs, slug : BrandSlugs]
    BY <1>1, <1>3 DEF WizardsTyped, WizardTyped, Outside, FlushWizard
  <2>2. WizardTyped([wizard[w] EXCEPT !.pc = "state"])  BY <2>1 DEF WizardTyped
  <2>3. \/ wizard' = [wizard EXCEPT ![w] = Over]
        \/ wizard' = [wizard EXCEPT ![w] = [wizard[w] EXCEPT !.pc = "state"]]
    BY <1>1, <1>3 DEF FlushWizard, WizardsTyped
  <2>4. WizardsTyped'  BY <1>1, <2>2, <2>3, OverTyped, WizardMoves
  <2>5. QED  BY <1>3, <2>4, RequestsKept, TablesKept DEF FlushWizard, TypeInv, tables
<1>4. CASE ReadState(w)
  <2> DEFINE x == [pc |-> "commit", org |-> wizard[w].org, slug |-> wizard[w].slug,
                   read |-> states[wizard[w].org]]
  <2>1. wizard[w] \in [pc : {"flush", "state"}, org : Slugs, slug : BrandSlugs]
    BY <1>1, <1>4 DEF WizardsTyped, WizardTyped, Outside, ReadState
  <2>2. WizardTyped(x)  BY <1>1, <2>1 DEF WizardTyped, StatesTyped
  <2>3. wizard' = [wizard EXCEPT ![w] = x]  BY <1>1, <1>4 DEF ReadState, WizardsTyped
  <2>4. WizardsTyped'  BY <1>1, <2>2, <2>3, WizardMoves
  <2>5. QED  BY <1>4, <2>4, RequestsKept, TablesKept DEF ReadState, TypeInv, tables
<1>5. CASE CommitWizard(w)
  <2>1. /\ wizard[w].org \in Slugs /\ wizard[w].slug \in BrandSlugs
        /\ wizard[w].read \in State
    BY <1>1, <1>5 DEF WizardsTyped, WizardTyped, Outside, CommitWizard
  <2>2. BrandsTyped'  BY <1>1, <1>5, <2>1 DEF CommitWizard, BrandsTyped
  <2>3. StatesTyped'
    <3>1. Advanced(w, states[wizard[w].org]) \in State
      BY <1>1, <2>1 DEF Advanced, StatesTyped, State, Steps
    <3>2. QED  BY <1>1, <1>5, <2>1, <3>1 DEF CommitWizard, StatesTyped
  <2>4. WizardsTyped'  BY <1>1, <1>5, OverTyped, WizardMoves DEF CommitWizard
  <2>5. QED
    BY <1>5, <2>2, <2>3, <2>4, RequestsKept, TablesKept DEF CommitWizard, TypeInv
<1>6. QED  BY <1>2, <1>3, <1>4, <1>5

LEMMA TourTypes ==
  ASSUME TypeInv, NEW t \in Tours,
         (\E o \in Slugs : StartTour(t, o)) \/ CommitTour(t)
  PROVE  TypeInv'
<1>1. ToursTyped /\ StatesTyped  BY DEF TypeInv
<1>2. ASSUME NEW o \in Slugs, StartTour(t, o) PROVE TypeInv'
  <2>1. TourTyped([pc |-> "commit", org |-> o, read |-> states[o]])
    BY <1>1 DEF TourTyped, StatesTyped
  <2>2. ToursTyped'  BY <1>1, <1>2, <2>1, OverTyped, TourMoves DEF StartTour
  <2>3. QED  BY <1>2, <2>2, RequestsKept, TablesKept DEF StartTour, TypeInv, tables
<1>3. CASE CommitTour(t)
  <2>1. tour[t].org \in Slugs /\ tour[t].read \in State
    BY <1>1, <1>3 DEF ToursTyped, TourTyped, Outside, CommitTour
  <2>2. Toured(t, states[tour[t].org]) \in State
    BY <1>1, <2>1 DEF Toured, StatesTyped, State, Steps
  <2>3. StatesTyped'  BY <1>1, <1>3, <2>1, <2>2 DEF CommitTour, StatesTyped
  <2>4. ToursTyped'  BY <1>1, <1>3, OverTyped, TourMoves DEF CommitTour
  <2>5. QED  BY <1>3, <2>3, <2>4, RequestsKept, TablesKept DEF CommitTour, TypeInv
<1>4. QED  BY <1>2, <1>3

LEMMA SeedTypes ==
  ASSUME TypeInv, NEW d \in Seeds,
         \/ \E force \in BOOLEAN : StartSeed(d, force)
         \/ Wipe(d) \/ FlushSeed(d) \/ CommitSeed(d)
  PROVE  TypeInv'
<1>1. SeedsTyped /\ DemoTyped  BY DEF TypeInv
<1>2. ASSUME NEW force \in BOOLEAN, StartSeed(d, force) PROVE TypeInv'
  <2>1. /\ SeedTyped([pc |-> "flush", wiped |-> {}, seen |-> {}])
        /\ SeedTyped([pc |-> "wipe", seen |-> demo.brands])
    BY <1>1 DEF SeedTyped, DemoTyped
  <2>2. \/ seed' = [seed EXCEPT ![d] = [pc |-> "flush", wiped |-> {}, seen |-> {}]]
        \/ seed' = [seed EXCEPT ![d] = [pc |-> "wipe", seen |-> demo.brands]]
        \/ seed' = [seed EXCEPT ![d] = Over]
    BY <1>2 DEF StartSeed
  <2>3. SeedsTyped'  BY <1>1, <2>1, <2>2, OverTyped, SeedMoves
  <2>4. QED  BY <1>2, <2>3, RequestsKept, TablesKept DEF StartSeed, TypeInv, tables
<1>3. CASE Wipe(d)
  <2> DEFINE x == [pc |-> "flush", wiped |-> demo.brands, seen |-> seed[d].seen]
  <2>1. seed[d] \in [pc : {"wipe"}, seen : SUBSET Seeds]
    BY <1>1, <1>3 DEF SeedsTyped, SeedTyped, Outside, Wipe
  <2>2. SeedTyped(x)  BY <1>1, <2>1 DEF SeedTyped, DemoTyped
  <2>3. seed' = [seed EXCEPT ![d] = x]  BY <1>1, <1>3 DEF Wipe, SeedsTyped
  <2>4. SeedsTyped'  BY <1>1, <2>2, <2>3, SeedMoves
  <2>5. QED  BY <1>3, <2>4, RequestsKept, TablesKept DEF Wipe, TypeInv, tables
<1>4. CASE FlushSeed(d)
  <2>1. seed[d] \in [pc : {"flush", "commit"}, wiped : SUBSET Seeds, seen : SUBSET Seeds]
    BY <1>1, <1>4 DEF SeedsTyped, SeedTyped, Outside, FlushSeed
  <2>2. SeedTyped([seed[d] EXCEPT !.pc = "commit"])  BY <2>1 DEF SeedTyped
  <2>3. \/ seed' = [seed EXCEPT ![d] = Over]
        \/ seed' = [seed EXCEPT ![d] = [seed[d] EXCEPT !.pc = "commit"]]
    BY <1>1, <1>4 DEF FlushSeed, SeedsTyped
  <2>4. SeedsTyped'  BY <1>1, <2>2, <2>3, OverTyped, SeedMoves
  <2>5. UNCHANGED demo  BY <1>4 DEF FlushSeed, Flushed
  <2>6. QED  BY <1>4, <2>4, <2>5, RequestsKept, TablesKept DEF FlushSeed, TypeInv
<1>5. CASE CommitSeed(d)
  <2>1. DemoTyped'
    <3>1. /\ demo.orgs \subseteq Seeds /\ demo.brands \subseteq Seeds
          /\ demo.scores \subseteq Seeds /\ demo.others \subseteq Seeds
      BY <1>1 DEF DemoTyped
    <3>2. QED  BY <1>5, <3>1 DEF CommitSeed, DemoTyped
  <2>2. SeedsTyped'  BY <1>1, <1>5, OverTyped, SeedMoves DEF CommitSeed
  <2>3. QED  BY <1>5, <2>1, <2>2, RequestsKept, TablesKept DEF CommitSeed, TypeInv
<1>6. QED  BY <1>2, <1>3, <1>4, <1>5

LEMMA DeleteChanges ==
  ASSUME NEW o \in Slugs, DeleteOrganization(o)
  PROVE  asked' = asked \cup {o} /\ UNCHANGED <<signup, wizard, tour, seed, tables, faults>>
BY DEF DeleteOrganization, CostHasOrg, tables

LEMMA AbortTypes ==
  ASSUME TypeInv, Abort
  PROVE  TypeInv'
<1>1. SignupsTyped /\ WizardsTyped /\ ToursTyped /\ SeedsTyped  BY DEF TypeInv
<1>2. UNCHANGED <<tables, asked>> /\ faults' \in 0..MaxFaults  BY DEF Abort, TypeInv
<1>3. SignupsTyped' /\ WizardsTyped' /\ ToursTyped' /\ SeedsTyped'
  BY <1>1, OverTyped, SignupMoves, WizardMoves, TourMoves, SeedMoves, RequestsKept DEF Abort
<1>4. QED  BY <1>2, <1>3, TablesKept DEF TypeInv, tables

LEMMA TypeStep == TypeInv /\ [Next]_vars => TypeInv'
<1> SUFFICES ASSUME TypeInv, [Next]_vars PROVE TypeInv'
  OBVIOUS
<1>1. ASSUME NEW o \in Slugs, DeleteOrganization(o) PROVE TypeInv'
  BY <1>1, DeleteChanges, RequestsKept, TablesKept DEF TypeInv, tables
<1>2. CASE UNCHANGED vars
  BY <1>2, RequestsKept, TablesKept DEF TypeInv, vars
<1>3. QED
  BY <1>1, <1>2, SignupTypes, KeyTypes, WizardTypes, TourTypes, SeedTypes, AbortTypes DEF Next

LEMMA TypesTyped == TypeInv => TypeOK
<1> SUFFICES ASSUME TypeInv PROVE TypeOK
  OBVIOUS
<1>1. /\ \A s \in Signups : signup[s].pc \in {"idle", "slug", "flush", "commit", "over"}
      /\ \A w \in Wizards : wizard[w].pc \in {"idle", "flush", "state", "commit", "over"}
  BY DEF TypeInv, SignupsTyped, SignupTyped, WizardsTyped, WizardTyped, Outside
<1>2. /\ \A t \in Tours : tour[t].pc \in {"idle", "commit", "over"}
      /\ \A d \in Seeds : seed[d].pc \in {"idle", "wipe", "flush", "commit", "over"}
  BY DEF TypeInv, ToursTyped, TourTyped, SeedsTyped, SeedTyped, Outside
<1>3. QED
  BY <1>1, <1>2
  DEF TypeInv, TypeOK, OrgsTyped, StatesTyped, State, Steps, KeysTyped, BrandsTyped, DemoTyped

-------------------------------------------------------------------------------
(* Sign-up *)

\* What a sign-up has flushed is its own: no row is in its way.
FlushedIsFree ==
  \A s \in Signups : signup[s].pc = "commit" =>
    /\ states[OrgOf(s).slug] = NoState
    /\ \A o \in orgs : ~Collide(o, OrgOf(s))
    /\ \A t \in Signups : signup[t].pc = "commit" /\ Collide(OrgOf(t), OrgOf(s)) => s = t

\* Whoever writes a state has found one, and states stay.
WritersFoundState ==
  /\ \A w \in Wizards : wizard[w].pc = "commit" /\ wizard[w].read # NoState
                          => states[wizard[w].org] # NoState
  /\ \A t \in Tours : tour[t].pc = "commit" => states[tour[t].org] # NoState

OrgsWhole == \A o \in orgs :
  /\ states[o.slug] # NoState
  /\ \E k \in keys : k.id \in Signups /\ k.org = o.slug /\ k.role = "admin"
  /\ \A p \in orgs : Collide(o, p) => o = p

StatesOwned == \A o \in Slugs : states[o] # NoState => \E p \in orgs : p.slug = o

KeysOwned == \A k \in keys : k.id \in Signups => \E p \in orgs : p.slug = k.org

SignupInv == FlushedIsFree /\ WritersFoundState /\ OrgsWhole /\ StatesOwned /\ KeysOwned

LEMMA SignupInit == Init => SignupInv
<1> SUFFICES ASSUME Init PROVE SignupInv
  OBVIOUS
<1>1. /\ \A s \in Signups : signup[s].pc = "idle"
      /\ \A w \in Wizards : wizard[w].pc = "idle"
      /\ \A t \in Tours : tour[t].pc = "idle"
      /\ orgs = {} /\ keys = {} /\ \A o \in Slugs : states[o] = NoState
  BY DEF Init, Idle
<1>2. QED
  BY <1>1 DEF SignupInv, FlushedIsFree, WritersFoundState, OrgsWhole, StatesOwned, KeysOwned

\* Steps that leave organisations, states and keys of sign-ups alone.
LEMMA SignupKept ==
  ASSUME SignupInv, UNCHANGED <<orgs, states, keys, signup, wizard, tour>>
  PROVE  SignupInv'
BY DEF SignupInv, FlushedIsFree, WritersFoundState, OrgsWhole, StatesOwned, KeysOwned, OrgOf

\* A sign-up that begins, looks on or gives up.
LEMMA SignupStepsBack ==
  ASSUME SignupInv, SignupsTyped, UNCHANGED <<orgs, states, keys, wizard, tour>>,
         NEW s \in Signups, NEW x, x.pc # "commit", signup' = [signup EXCEPT ![s] = x]
  PROVE  SignupInv'
<1>1. \A t \in Signups : signup'[t].pc = "commit" => signup[t].pc = "commit" /\ OrgOf(t)' = OrgOf(t)
  BY DEF SignupsTyped, OrgOf
<1>2. FlushedIsFree'  BY <1>1 DEF SignupInv, FlushedIsFree
<1>3. QED
  BY <1>2 DEF SignupInv, WritersFoundState, OrgsWhole, StatesOwned, KeysOwned

\* The insert finds no row and no other insert in its way, or fails.
LEMMA FlushSignupOK ==
  ASSUME TypeInv, SignupInv, NEW s \in Signups, FlushSignup(s)
  PROVE  SignupInv'
<1>1. UNCHANGED <<orgs, states, keys, wizard, tour>> /\ SignupsTyped /\ signup[s].pc = "flush"
  BY DEF FlushSignup, tables, TypeInv
<1>2. CASE signup' = [signup EXCEPT ![s] = Over]
  BY <1>1, <1>2, SignupStepsBack DEF Over
<1>3. CASE /\ signup' = [signup EXCEPT ![s].pc = "commit"]
           /\ \A o \in orgs : ~Collide(o, OrgOf(s))
           /\ states[OrgOf(s).slug] = NoState
  <2>1. signup[s] \in [pc : {"slug", "flush", "commit"}, name : Names, email : Emails, n : Nat]
    BY <1>1 DEF SignupsTyped, SignupTyped, Outside
  <2>2. /\ \A t \in Signups : OrgOf(t)' = OrgOf(t)
        /\ \A t \in Signups : signup'[t].pc = "commit" => t = s \/ signup[t].pc = "commit"
    BY <1>1, <1>3, <2>1 DEF SignupsTyped, OrgOf
  <2>3. \A t \in Signups : signup[t].pc = "commit" =>
          ~Collide(OrgOf(t), OrgOf(s)) /\ ~Collide(OrgOf(s), OrgOf(t))
    BY DEF FlushSignup, Collide
  <2>4. FlushedIsFree'  BY <1>1, <1>3, <2>2, <2>3 DEF SignupInv, FlushedIsFree
  <2>5. QED
    BY <1>1, <2>4 DEF SignupInv, WritersFoundState, OrgsWhole, StatesOwned, KeysOwned
<1>4. QED  BY <1>2, <1>3 DEF FlushSignup

LEMMA CommitSignupOK ==
  ASSUME TypeInv, SignupInv, NEW s \in Signups, CommitSignup(s)
  PROVE  SignupInv'
<1> DEFINE o == OrgOf(s)
<1>1. /\ o \in [slug : Slugs, email : Emails] /\ signup[s].pc = "commit"
      /\ o.slug \in Slugs /\ StatesTyped /\ SignupsTyped
  BY OrgOfTyped DEF CommitSignup, TypeInv
<1>2. /\ orgs' = orgs \cup {o} /\ states' = [states EXCEPT ![o.slug] = Created]
      /\ keys' = keys \cup {NewKey(s, o.slug, "admin")}
      /\ signup' = [signup EXCEPT ![s] = Over] /\ UNCHANGED <<wizard, tour>>
  BY DEF CommitSignup, Committed
<1>3. Created # NoState  BY DEF Created, NoState
<1>4. /\ states[o.slug] = NoState /\ \A p \in orgs : ~Collide(p, o) /\ ~Collide(o, p)
  BY <1>1 DEF SignupInv, FlushedIsFree, Collide
<1>5. \A t \in Signups : signup'[t].pc = "commit" =>
        t # s /\ signup[t].pc = "commit" /\ OrgOf(t)' = OrgOf(t) /\ ~Collide(OrgOf(t), o)
                                     /\ ~Collide(o, OrgOf(t))
  BY <1>1, <1>2 DEF SignupsTyped, OrgOf, Over, SignupInv, FlushedIsFree, Collide
<1> HIDE DEF o
<1>6. \A q \in Slugs : states'[q] = IF q = o.slug THEN Created ELSE states[q]
  BY <1>1, <1>2 DEF StatesTyped
<1>7. FlushedIsFree'
  <2>1. ASSUME NEW t \in Signups, signup'[t].pc = "commit"
        PROVE  /\ states'[OrgOf(t).slug] = NoState
               /\ \A p \in orgs' : ~Collide(p, OrgOf(t))
    <3>1. OrgOf(t).slug \in Slugs
      BY <1>1, <1>5, <2>1, OrgOfTyped
    <3>2. OrgOf(t).slug # o.slug  BY <1>5, <2>1 DEF Collide
    <3>3. QED  BY <1>2, <1>5, <1>6, <2>1, <3>1, <3>2 DEF SignupInv, FlushedIsFree
  <2>2. QED  BY <1>5, <2>1 DEF SignupInv, FlushedIsFree
<1>8. WritersFoundState'
  <2>1. \A q \in Slugs : states[q] # NoState => states'[q] # NoState  BY <1>3, <1>6
  <2>2. /\ \A w \in Wizards : wizard[w].pc = "commit" => wizard[w].org \in Slugs
        /\ \A t \in Tours : tour[t].pc = "commit" => tour[t].org \in Slugs
    BY DEF TypeInv, WizardsTyped, WizardTyped, ToursTyped, TourTyped, Outside
  <2>3. QED  BY <1>2, <2>1, <2>2 DEF SignupInv, WritersFoundState
<1>9. OrgsWhole'
  <2>1. NewKey(s, o.slug, "admin").id = s /\ NewKey(s, o.slug, "admin").org = o.slug
          /\ NewKey(s, o.slug, "admin").role = "admin"
    BY DEF NewKey
  <2>2. \A p \in orgs : p.slug \in Slugs  BY DEF TypeInv, OrgsTyped
  <2>3. QED
    BY <1>1, <1>2, <1>3, <1>4, <1>6, <2>1, <2>2 DEF SignupInv, OrgsWhole
<1>10. StatesOwned'  BY <1>2, <1>6 DEF SignupInv, StatesOwned
<1>11. KeysOwned'  BY <1>2 DEF SignupInv, KeysOwned, NewKey
<1>12. QED  BY <1>7, <1>8, <1>9, <1>10, <1>11 DEF SignupInv

LEMMA KeysOK ==
  ASSUME TypeInv, SignupInv, NEW o \in Slugs,
         \/ \E k \in NewKeys, role \in AnyRole : CreateKey(k, o, role)
         \/ \E k \in keys : RevokeKey(k, o)
  PROVE  SignupInv'
<1>1. UNCHANGED <<signup, wizard, tour, orgs, states>>  BY DEF CreateKey, RevokeKey
<1>2. FlushedIsFree' /\ WritersFoundState' /\ StatesOwned'
  BY <1>1 DEF SignupInv, FlushedIsFree, WritersFoundState, StatesOwned, OrgOf
<1>3. ASSUME NEW k \in NewKeys, NEW role \in AnyRole, CreateKey(k, o, role)
      PROVE  OrgsWhole' /\ KeysOwned'
  <2>1. keys' = keys \cup {NewKey(k, o, role)} /\ NewKey(k, o, role).id \notin Signups
    BY <1>3 DEF CreateKey, NewKey
  <2>2. QED  BY <1>1, <2>1 DEF SignupInv, OrgsWhole, KeysOwned
<1>4. ASSUME NEW k \in keys, RevokeKey(k, o) PROVE OrgsWhole' /\ KeysOwned'
  <2> DEFINE x == [k EXCEPT !.active = FALSE]
  <2>1. keys' = (keys \ {k}) \cup {x}  BY <1>4 DEF RevokeKey
  <2>2. x.id = k.id /\ x.org = k.org /\ x.role = k.role  BY DEF TypeInv, KeysTyped
  <2> HIDE DEF x
  <2>3. KeysOwned'  BY <1>1, <2>1, <2>2 DEF SignupInv, KeysOwned
  <2>4. ASSUME NEW p \in orgs
        PROVE  \E y \in keys' : y.id \in Signups /\ y.org = p.slug /\ y.role = "admin"
    <3>1. PICK y \in keys : y.id \in Signups /\ y.org = p.slug /\ y.role = "admin"
      BY DEF SignupInv, OrgsWhole
    <3>2. CASE y = k  BY <2>1, <2>2, <3>1, <3>2
    <3>3. CASE y # k  BY <2>1, <3>1, <3>3
    <3>4. QED  BY <3>2, <3>3
  <2>5. QED  BY <1>1, <2>3, <2>4 DEF SignupInv, OrgsWhole
<1>5. QED  BY <1>2, <1>3, <1>4 DEF SignupInv

\* A state that is there is written over by another.
LEMMA StateWritten ==
  ASSUME TypeInv, SignupInv, NEW o \in Slugs, states[o] # NoState, NEW x, x # NoState,
         states' = [states EXCEPT ![o] = x], UNCHANGED <<orgs, keys, signup>>,
         \A w \in Wizards : wizard'[w].pc = "commit" => wizard[w].pc = "commit" /\ wizard'[w] = wizard[w],
         \A t \in Tours : tour'[t].pc = "commit" => tour[t].pc = "commit" /\ tour'[t] = tour[t]
  PROVE  SignupInv'
<1>1. \A q \in Slugs : /\ states'[q] = IF q = o THEN x ELSE states[q]
                       /\ (states'[q] = NoState <=> states[q] = NoState)
  BY DEF TypeInv, StatesTyped
<1>2. \A s \in Signups : signup[s].pc = "commit" => OrgOf(s).slug \in Slugs
  BY OrgOfTyped DEF TypeInv
<1>3. FlushedIsFree'  BY <1>1, <1>2 DEF SignupInv, FlushedIsFree, OrgOf
<1>4. WritersFoundState'
  <2>1. /\ \A w \in Wizards : wizard[w].pc = "commit" => wizard[w].org \in Slugs
        /\ \A t \in Tours : tour[t].pc = "commit" => tour[t].org \in Slugs
    BY DEF TypeInv, WizardsTyped, WizardTyped, ToursTyped, TourTyped, Outside
  <2>2. QED  BY <1>1, <2>1 DEF SignupInv, WritersFoundState
<1>5. OrgsWhole'
  <2>1. \A p \in orgs : p.slug \in Slugs  BY DEF TypeInv, OrgsTyped
  <2>2. QED  BY <1>1, <2>1 DEF SignupInv, OrgsWhole
<1>6. StatesOwned' /\ KeysOwned'  BY <1>1 DEF SignupInv, StatesOwned, KeysOwned
<1>7. QED  BY <1>3, <1>4, <1>5, <1>6 DEF SignupInv

\* A request that has not written: what it may have read of a state is there.
LEMMA ReadersKept ==
  ASSUME SignupInv, UNCHANGED <<orgs, states, keys, signup>>, WritersFoundState'
  PROVE  SignupInv'
BY DEF SignupInv, FlushedIsFree, OrgsWhole, StatesOwned, KeysOwned, OrgOf

LEMMA WizardSignup ==
  ASSUME TypeInv, SignupInv, NEW w \in Wizards,
         \/ \E o \in Slugs, b \in BrandSlugs : StartWizard(w, o, b)
         \/ FlushWizard(w) \/ ReadState(w) \/ CommitWizard(w)
  PROVE  SignupInv'
<1>1. WizardsTyped /\ StatesTyped  BY DEF TypeInv
<1>2. CASE \/ \E o \in Slugs, b \in BrandSlugs : StartWizard(w, o, b)
           \/ FlushWizard(w)
  <2>1. UNCHANGED <<orgs, states, keys, signup, tour>>
    BY <1>2 DEF StartWizard, FlushWizard, tables
  <2>2. \A v \in Wizards : wizard'[v].pc = "commit" => wizard'[v] = wizard[v]
    <3>1. ASSUME NEW o \in Slugs, NEW b \in BrandSlugs, StartWizard(w, o, b)
          PROVE  \A v \in Wizards : wizard'[v].pc = "commit" => wizard'[v] = wizard[v]
      BY <1>1, <3>1 DEF StartWizard, WizardsTyped, Over
    <3>2. CASE FlushWizard(w)
      <4>1. wizard[w] \in [pc : {"flush", "state"}, org : Slugs, slug : BrandSlugs]
        BY <1>1, <3>2 DEF WizardsTyped, WizardTyped, Outside, FlushWizard
      <4>2. QED  BY <1>1, <3>2, <4>1 DEF FlushWizard, WizardsTyped, Over
    <3>3. QED  BY <1>2, <3>1, <3>2
  <2>3. WritersFoundState'  BY <2>1, <2>2 DEF SignupInv, WritersFoundState
  <2>4. QED  BY <2>1, <2>3, ReadersKept
<1>3. CASE ReadState(w)
  <2>1. UNCHANGED <<orgs, states, keys, signup, tour>>  BY <1>3 DEF ReadState, tables
  <2>2. /\ wizard'[w].read = states[wizard'[w].org]
        /\ \A v \in Wizards \ {w} : wizard'[v] = wizard[v]
    BY <1>1, <1>3 DEF ReadState, WizardsTyped
  <2>3. WritersFoundState'  BY <2>1, <2>2 DEF SignupInv, WritersFoundState
  <2>4. QED  BY <2>1, <2>3, ReadersKept
<1>4. CASE CommitWizard(w)
  <2>1. /\ wizard[w].pc = "commit" /\ wizard[w].org \in Slugs
        /\ UNCHANGED <<orgs, keys, signup, tour>>
    BY <1>1, <1>4 DEF CommitWizard, WizardsTyped, WizardTyped, Outside
  <2>2. \A v \in Wizards : wizard'[v].pc = "commit" => wizard[v].pc = "commit" /\ wizard'[v] = wizard[v]
    BY <1>1, <1>4 DEF CommitWizard, WizardsTyped, Over
  <2>3. CASE wizard[w].read = NoState
    <3>1. UNCHANGED states  BY <1>4, <2>3 DEF CommitWizard
    <3>2. WritersFoundState'  BY <2>1, <2>2, <3>1 DEF SignupInv, WritersFoundState
    <3>3. QED  BY <2>1, <3>1, <3>2, ReadersKept
  <2>4. CASE wizard[w].read # NoState
    <3> DEFINE x == Advanced(w, states[wizard[w].org])
    <3>1. states[wizard[w].org] # NoState  BY <2>1, <2>4 DEF SignupInv, WritersFoundState
    <3>2. x # NoState
      <4>1. x.brand = {w}  BY <1>1, <2>1 DEF Advanced, StatesTyped, State
      <4>2. QED  BY <4>1 DEF NoState
    <3>3. states' = [states EXCEPT ![wizard[w].org] = x]
      BY <1>1, <1>4, <2>1, <2>4 DEF CommitWizard, StatesTyped
    <3> HIDE DEF x
    <3>4. QED  BY <2>1, <2>2, <3>1, <3>2, <3>3, StateWritten
  <2>5. QED  BY <2>3, <2>4
<1>5. QED  BY <1>2, <1>3, <1>4

LEMMA TourSignup ==
  ASSUME TypeInv, SignupInv, NEW t \in Tours,
         (\E o \in Slugs : StartTour(t, o)) \/ CommitTour(t)
  PROVE  SignupInv'
<1>1. ToursTyped /\ StatesTyped  BY DEF TypeInv
<1>2. ASSUME NEW o \in Slugs, StartTour(t, o) PROVE SignupInv'
  <2>1. UNCHANGED <<orgs, states, keys, signup, wizard>>  BY <1>2 DEF StartTour, tables
  <2>2. /\ tour'[t].pc = "commit" => states[tour'[t].org] # NoState
        /\ \A v \in Tours \ {t} : tour'[v] = tour[v]
    BY <1>1, <1>2 DEF StartTour, ToursTyped, Over
  <2>3. WritersFoundState'  BY <2>1, <2>2 DEF SignupInv, WritersFoundState
  <2>4. QED  BY <2>1, <2>3, ReadersKept
<1>3. CASE CommitTour(t)
  <2> DEFINE x == Toured(t, states[tour[t].org])
  <2>1. /\ tour[t].pc = "commit" /\ tour[t].org \in Slugs
        /\ UNCHANGED <<orgs, keys, signup, wizard>>
    BY <1>1, <1>3 DEF CommitTour, ToursTyped, TourTyped, Outside
  <2>2. states[tour[t].org] # NoState  BY <2>1 DEF SignupInv, WritersFoundState
  <2>3. x # NoState
    <3>1. x.toured = TRUE  BY <1>1, <2>1 DEF Toured, StatesTyped, State
    <3>2. QED  BY <3>1 DEF NoState
  <2>4. states' = [states EXCEPT ![tour[t].org] = x]
    BY <1>1, <1>3, <2>1 DEF CommitTour, StatesTyped
  <2>5. \A v \in Tours : tour'[v].pc = "commit" => tour[v].pc = "commit" /\ tour'[v] = tour[v]
    BY <1>1, <1>3 DEF CommitTour, ToursTyped, Over
  <2> HIDE DEF x
  <2>6. QED  BY <2>1, <2>2, <2>3, <2>4, <2>5, StateWritten
<1>4. QED  BY <1>2, <1>3

LEMMA AbortSignup ==
  ASSUME TypeInv, SignupInv, Abort
  PROVE  SignupInv'
<1>1. SignupsTyped /\ WizardsTyped /\ ToursTyped /\ UNCHANGED <<orgs, states, keys>>
  BY DEF TypeInv, Abort, tables
<1>2. CASE UNCHANGED signup
  <2>1. /\ \A w \in Wizards : wizard'[w].pc = "commit" => wizard'[w] = wizard[w]
        /\ \A t \in Tours : tour'[t].pc = "commit" => tour'[t] = tour[t]
    BY <1>1 DEF Abort, Over, WizardsTyped, ToursTyped
  <2>2. WritersFoundState'  BY <1>1, <2>1 DEF SignupInv, WritersFoundState
  <2>3. QED  BY <1>1, <1>2, <2>2, ReadersKept
<1>3. ASSUME NEW s \in Signups, signup' = [signup EXCEPT ![s] = Over], UNCHANGED <<wizard, tour>>
      PROVE  SignupInv'
  BY <1>1, <1>3, SignupStepsBack DEF Over
<1>4. QED  BY <1>2, <1>3 DEF Abort

LEMMA SignupStep == TypeInv /\ SignupInv /\ [Next]_vars => SignupInv'
<1> SUFFICES ASSUME TypeInv, SignupInv, [Next]_vars PROVE SignupInv'
  OBVIOUS
<1>1. ASSUME NEW s \in Signups, NEW n \in Names, NEW e \in Emails, StartSignup(s, n, e)
      PROVE  SignupInv'
  <2>1. UNCHANGED <<orgs, states, keys, wizard, tour>> /\ SignupsTyped
    BY <1>1 DEF StartSignup, tables, TypeInv
  <2>2. PICK x : x.pc # "commit" /\ signup' = [signup EXCEPT ![s] = x]
    BY <1>1 DEF StartSignup, Over
  <2>3. QED  BY <2>1, <2>2, SignupStepsBack
<1>2. ASSUME NEW s \in Signups, FindSlug(s) PROVE SignupInv'
  <2>1. UNCHANGED <<orgs, states, keys, wizard, tour>> /\ SignupsTyped
    BY <1>2 DEF FindSlug, tables, TypeInv
  <2>2. signup[s] \in [pc : {"slug", "flush", "commit"}, name : Names, email : Emails, n : Nat]
    BY <1>2, <2>1 DEF SignupsTyped, SignupTyped, Outside, FindSlug
  <2>3. PICK x : x.pc # "commit" /\ signup' = [signup EXCEPT ![s] = x]
    BY <1>2, <2>1, <2>2 DEF FindSlug, SignupsTyped
  <2>4. QED  BY <2>1, <2>3, SignupStepsBack
<1>3. ASSUME NEW o \in Slugs, DeleteOrganization(o) PROVE SignupInv'
  BY <1>3, DeleteChanges, SignupKept DEF tables
<1>4. ASSUME NEW d \in Seeds,
             \/ \E force \in BOOLEAN : StartSeed(d, force)
             \/ Wipe(d) \/ FlushSeed(d) \/ CommitSeed(d)
      PROVE  SignupInv'
  BY <1>4, SignupKept DEF StartSeed, Wipe, FlushSeed, CommitSeed, tables
<1>5. CASE UNCHANGED vars  BY <1>5, SignupKept DEF vars
<1>6. QED
  BY <1>1, <1>2, <1>3, <1>4, <1>5, FlushSignupOK, CommitSignupOK, KeysOK, WizardSignup, TourSignup,
     AbortSignup
  DEF Next

-------------------------------------------------------------------------------
(* Wizard and tour *)

Scanned(o) == states[o].step \in {"scan_triggered", "tour_completed"}

\* A step that was read as scan_triggered is never taken back to before the wizard.
StepsForward ==
  /\ \A w \in Wizards : wizard[w].pc = "commit" /\ wizard[w].read.step = "scan_triggered"
                          => Scanned(wizard[w].org)
  /\ \A t \in Tours : tour[t].pc = "commit" /\ tour[t].read.step = "scan_triggered"
                        => Scanned(tour[t].org)

OneRun(o, s) ==
  /\ s.brand = s.job
  /\ \A w \in s.brand : \E b \in brands : b.id = w /\ b.org = o
  /\ s.brand = {} <=> s.step \in {"none", "account_created"}
  /\ s.step = "tour_completed" => s.toured

RunInv == StepsForward /\ \A o \in Slugs : OneRun(o, states[o])

LEMMA RunKept ==
  ASSUME RunInv, UNCHANGED <<states, brands, wizard, tour>>
  PROVE  RunInv'
BY DEF RunInv, StepsForward, Scanned, OneRun

LEMMA RunInit == Init => RunInv
<1> SUFFICES ASSUME Init PROVE RunInv
  OBVIOUS
<1>1. \A o \in Slugs : states[o] = NoState  BY DEF Init
<1>2. \A o \in Slugs : OneRun(o, NoState)  BY DEF OneRun, NoState
<1>3. (\A w \in Wizards : wizard[w].pc = "idle") /\ \A t \in Tours : tour[t].pc = "idle"
  BY DEF Init, Idle
<1>4. QED  BY <1>1, <1>2, <1>3 DEF RunInv, StepsForward

\* A state is written that keeps to one run and does not step back.
LEMMA RunWritten ==
  ASSUME TypeInv, RunInv, NEW o \in Slugs, NEW x,
         states' = [states EXCEPT ![o] = x], brands \subseteq brands',
         OneRun(o, x)', Scanned(o) => x.step \in {"scan_triggered", "tour_completed"},
         \A w \in Wizards : wizard'[w].pc = "commit" => wizard[w].pc = "commit" /\ wizard'[w] = wizard[w],
         \A t \in Tours : tour'[t].pc = "commit" => tour[t].pc = "commit" /\ tour'[t] = tour[t]
  PROVE  RunInv'
<1>1. \A q \in Slugs : states'[q] = IF q = o THEN x ELSE states[q]
  BY DEF TypeInv, StatesTyped
<1>2. \A q \in Slugs : Scanned(q) => Scanned(q)'  BY <1>1 DEF Scanned
<1>3. /\ \A w \in Wizards : wizard[w].pc = "commit" => wizard[w].org \in Slugs
      /\ \A t \in Tours : tour[t].pc = "commit" => tour[t].org \in Slugs
  BY DEF TypeInv, WizardsTyped, WizardTyped, ToursTyped, TourTyped, Outside
<1>4. StepsForward'  BY <1>2, <1>3 DEF RunInv, StepsForward
<1>5. ASSUME NEW q \in Slugs PROVE OneRun(q, states[q])'
  <2>1. CASE q = o  BY <1>1, <2>1
  <2>2. CASE q # o
    <3>1. states'[q] = states[q] /\ OneRun(q, states[q])  BY <1>1, <2>2 DEF RunInv
    <3>2. QED  BY <3>1 DEF OneRun
  <2>3. QED  BY <2>1, <2>2
<1>6. QED  BY <1>4, <1>5 DEF RunInv

LEMMA CommitSignupRun ==
  ASSUME TypeInv, SignupInv, RunInv, NEW s \in Signups, CommitSignup(s)
  PROVE  RunInv'
<1>0. PICK o : o = OrgOf(s).slug  OBVIOUS
<1>1. o \in Slugs /\ states[o] = NoState
  BY <1>0, OrgOfTyped DEF CommitSignup, TypeInv, SignupInv, FlushedIsFree
<1>2. /\ states' = [states EXCEPT ![o] = Created] /\ UNCHANGED <<brands, wizard, tour>>
  BY <1>0 DEF CommitSignup, Committed
<1>3. ~Scanned(o)  BY <1>1 DEF Scanned, NoState
<1>4. OneRun(o, Created)'  BY DEF OneRun, Created, NoState
<1>5. QED  BY <1>1, <1>2, <1>3, <1>4, RunWritten

LEMMA CommitWizardRun ==
  ASSUME TypeInv, RunInv, NEW w \in Wizards, CommitWizard(w)
  PROVE  RunInv'
<1>0. PICK o, x, b : /\ o = wizard[w].org /\ x = Advanced(w, states[o])
                     /\ b = [id |-> w, org |-> o, slug |-> wizard[w].slug]
  OBVIOUS
<1>1. /\ wizard[w].pc = "commit" /\ o \in Slugs /\ wizard[w].read \in State /\ states[o] \in State
      /\ brands' = brands \cup {b} /\ UNCHANGED tour /\ WizardsTyped /\ StatesTyped
  BY <1>0 DEF CommitWizard, TypeInv, WizardsTyped, WizardTyped, StatesTyped, Outside
<1>2. \A v \in Wizards : wizard'[v].pc = "commit" => wizard[v].pc = "commit" /\ wizard'[v] = wizard[v]
  BY <1>1 DEF CommitWizard, WizardsTyped, Over
<1>3. CASE wizard[w].read = NoState
  <2>1. UNCHANGED states  BY <1>3 DEF CommitWizard
  <2>2. StepsForward'  BY <1>1, <1>2, <2>1 DEF RunInv, StepsForward, Scanned
  <2>3. \A q \in Slugs : OneRun(q, states[q])'  BY <1>1, <2>1 DEF RunInv, OneRun
  <2>4. QED  BY <2>2, <2>3 DEF RunInv
<1>4. CASE wizard[w].read # NoState
  <2>1. states' = [states EXCEPT ![o] = x]  BY <1>0, <1>1, <1>4 DEF CommitWizard, StatesTyped
  <2>2. /\ x.brand = {w} /\ x.job = {w} /\ x.toured = states[o].toured
        /\ x.step = IF wizard[w].read.step = "scan_triggered" THEN states[o].step ELSE "scan_triggered"
    BY <1>0, <1>1 DEF Advanced, State
  <2>3. OneRun(o, states[o]) /\ (wizard[w].read.step = "scan_triggered" => Scanned(o))
    BY <1>0, <1>1 DEF RunInv, StepsForward
  <2>4. x.step \in {"scan_triggered", "tour_completed"} /\ (x.step = "tour_completed" => x.toured)
    BY <2>2, <2>3 DEF OneRun, Scanned
  <2>5. b \in brands' /\ b.id = w /\ b.org = o  BY <1>0, <1>1
  <2>6. OneRun(o, x)'
    <3>1. ASSUME NEW v \in x.brand PROVE \E c \in brands' : c.id = v /\ c.org = o
      BY <2>2, <2>5
    <3>2. QED  BY <2>2, <2>4, <3>1 DEF OneRun
  <2>7. brands \subseteq brands'  BY <1>1
  <2>8. \A t \in Tours : tour'[t].pc = "commit" => tour[t].pc = "commit" /\ tour'[t] = tour[t]
    BY <1>1
  <2>9. QED  BY <1>1, <1>2, <2>1, <2>4, <2>6, <2>7, <2>8, RunWritten
<1>5. QED  BY <1>3, <1>4

LEMMA CommitTourRun ==
  ASSUME TypeInv, RunInv, NEW t \in Tours, CommitTour(t)
  PROVE  RunInv'
<1>0. PICK o, x : o = tour[t].org /\ x = Toured(t, states[o])  OBVIOUS
<1>1. /\ tour[t].pc = "commit" /\ o \in Slugs /\ states[o] \in State
      /\ UNCHANGED <<brands, wizard>> /\ ToursTyped /\ StatesTyped
  BY <1>0 DEF CommitTour, TypeInv, ToursTyped, TourTyped, StatesTyped, Outside
<1>2. \A v \in Tours : tour'[v].pc = "commit" => tour[v].pc = "commit" /\ tour'[v] = tour[v]
  BY <1>1 DEF CommitTour, ToursTyped, Over
<1>3. states' = [states EXCEPT ![o] = x]  BY <1>0, <1>1 DEF CommitTour, StatesTyped
<1>4. /\ x.brand = states[o].brand /\ x.job = states[o].job /\ x.toured = TRUE
      /\ x.step = IF tour[t].read.step = "scan_triggered" THEN "tour_completed" ELSE states[o].step
  BY <1>0, <1>1 DEF Toured, State
<1>5. OneRun(o, states[o]) /\ (tour[t].read.step = "scan_triggered" => Scanned(o))
  BY <1>0, <1>1 DEF RunInv, StepsForward
<1>6. Scanned(o) => x.step \in {"scan_triggered", "tour_completed"}  BY <1>4 DEF Scanned
<1>7. OneRun(o, x)'
  <2>1. x.brand = {} <=> x.step \in {"none", "account_created"}
    BY <1>4, <1>5 DEF OneRun, Scanned
  <2>2. QED  BY <1>1, <1>4, <1>5, <2>1 DEF OneRun
<1>8. QED  BY <1>1, <1>2, <1>3, <1>6, <1>7, RunWritten

LEMMA RunStep == TypeInv /\ SignupInv /\ RunInv /\ [Next]_vars => RunInv'
<1> SUFFICES ASSUME TypeInv, SignupInv, RunInv, [Next]_vars PROVE RunInv'
  OBVIOUS
<1>1. ASSUME UNCHANGED <<states, brands>>,
             \A w \in Wizards : wizard'[w].pc = "commit" =>
                \/ wizard[w].pc = "commit" /\ wizard'[w] = wizard[w]
                \/ wizard'[w].read = states[wizard'[w].org],
             \A t \in Tours : tour'[t].pc = "commit" =>
                \/ tour[t].pc = "commit" /\ tour'[t] = tour[t]
                \/ tour'[t].read = states[tour'[t].org]
      PROVE  RunInv'
  BY <1>1 DEF RunInv, StepsForward, Scanned, OneRun
<1>2. WizardsTyped /\ ToursTyped  BY DEF TypeInv
<1>3. ASSUME NEW w \in Wizards, NEW o \in Slugs, NEW b \in BrandSlugs, StartWizard(w, o, b)
      PROVE  RunInv'
  BY <1>1, <1>2, <1>3 DEF StartWizard, WizardsTyped, Over, tables
<1>4. ASSUME NEW w \in Wizards, FlushWizard(w) PROVE RunInv'
  <2>1. wizard[w] \in [pc : {"flush", "state"}, org : Slugs, slug : BrandSlugs]
    BY <1>2, <1>4 DEF WizardsTyped, WizardTyped, Outside, FlushWizard
  <2>2. QED  BY <1>1, <1>2, <1>4, <2>1 DEF FlushWizard, WizardsTyped, Over, tables
<1>5. ASSUME NEW w \in Wizards, ReadState(w) PROVE RunInv'
  <2>1. /\ wizard'[w].read = states[wizard'[w].org]
        /\ \A v \in Wizards \ {w} : wizard'[v] = wizard[v]
        /\ UNCHANGED <<states, brands, tour>>
    BY <1>2, <1>5 DEF ReadState, WizardsTyped, tables
  <2>2. QED  BY <1>1, <2>1
<1>6. ASSUME NEW t \in Tours, NEW o \in Slugs, StartTour(t, o) PROVE RunInv'
  <2>1. /\ tour'[t].pc = "commit" => tour'[t].read = states[tour'[t].org]
        /\ \A v \in Tours \ {t} : tour'[v] = tour[v]
        /\ UNCHANGED <<states, brands, wizard>>
    BY <1>2, <1>6 DEF StartTour, ToursTyped, Over, tables
  <2>2. QED  BY <1>1, <2>1
<1>7. CASE Abort
  <2>1. /\ \A w \in Wizards : wizard'[w].pc = "commit" => wizard'[w] = wizard[w]
        /\ \A t \in Tours : tour'[t].pc = "commit" => tour'[t] = tour[t]
        /\ UNCHANGED <<states, brands>>
    BY <1>2, <1>7 DEF Abort, Over, WizardsTyped, ToursTyped, tables
  <2>2. QED  BY <1>1, <2>1
<1>8. ASSUME NEW s \in Signups,
             \/ \E n \in Names, e \in Emails : StartSignup(s, n, e)
             \/ FindSlug(s) \/ FlushSignup(s)
      PROVE  RunInv'
  BY <1>8, RunKept DEF StartSignup, FindSlug, FlushSignup, tables
<1>9. ASSUME NEW o \in Slugs,
             \/ \E k \in NewKeys, role \in AnyRole : CreateKey(k, o, role)
             \/ \E k \in keys : RevokeKey(k, o)
             \/ DeleteOrganization(o)
      PROVE  RunInv'
  BY <1>9, DeleteChanges, RunKept DEF CreateKey, RevokeKey, tables
<1>10. ASSUME NEW d \in Seeds,
              \/ \E force \in BOOLEAN : StartSeed(d, force)
              \/ Wipe(d) \/ FlushSeed(d) \/ CommitSeed(d)
       PROVE  RunInv'
  BY <1>10, RunKept DEF StartSeed, Wipe, FlushSeed, CommitSeed, tables
<1>11. CASE UNCHANGED vars  BY <1>11, RunKept DEF vars
<1>12. QED
  BY <1>3, <1>4, <1>5, <1>6, <1>7, <1>8, <1>9, <1>10, <1>11, CommitSignupRun, CommitWizardRun,
     CommitTourRun
  DEF Next

-------------------------------------------------------------------------------
(* The demo organisation *)

\* One seed at a time holds the rows; while one is about to commit, the table has nothing
\* but what it has wiped.
OneHolds ==
  /\ \A d, e \in Seeds : Holds(d) /\ Holds(e) => d = e
  /\ \A d \in Seeds : seed[d].pc = "commit" => demo.orgs \subseteq seed[d].wiped

DemoWhole ==
  /\ demo.orgs = {} \/ \E d \in Seeds : demo.orgs = {d}
  /\ demo.brands = demo.orgs /\ demo.others = demo.orgs /\ demo.orgs \subseteq demo.scores

DemoInv == OneHolds /\ DemoWhole

\* Seeds that come to hold nothing they did not hold.
LEMMA DemoKept ==
  ASSUME DemoInv, UNCHANGED demo,
         \A d \in Seeds : Holds(d)' => Holds(d),
         \A d \in Seeds : seed'[d].pc = "commit" => seed'[d] = seed[d]
  PROVE  DemoInv'
BY DEF DemoInv, OneHolds, DemoWhole

LEMMA DemoUntouched ==
  ASSUME DemoInv, UNCHANGED <<demo, seed>>
  PROVE  DemoInv'
BY DEF DemoInv, OneHolds, DemoWhole, Holds

LEMMA StartSeedDemo ==
  ASSUME TypeInv, DemoInv, NEW d \in Seeds, NEW force \in BOOLEAN, StartSeed(d, force)
  PROVE  DemoInv'
<1>1. SeedsTyped /\ UNCHANGED demo  BY DEF TypeInv, StartSeed, tables
<1>2. \/ seed' = [seed EXCEPT ![d] = [pc |-> "flush", wiped |-> {}, seen |-> {}]]
      \/ seed' = [seed EXCEPT ![d] = [pc |-> "wipe", seen |-> demo.brands]]
      \/ seed' = [seed EXCEPT ![d] = Over]
  BY DEF StartSeed
<1>3. /\ ~Holds(d)' /\ seed'[d].pc # "commit"
      /\ \A e \in Seeds \ {d} : seed'[e] = seed[e]
  BY <1>1, <1>2 DEF SeedsTyped, Holds, Over
<1>4. \A e \in Seeds : Holds(e)' => Holds(e)  BY <1>3 DEF Holds
<1>5. QED  BY <1>1, <1>3, <1>4, DemoKept

LEMMA WipeDemo ==
  ASSUME TypeInv, DemoInv, NEW d \in Seeds, Wipe(d)
  PROVE  DemoInv'
<1>1. /\ SeedsTyped /\ UNCHANGED demo
      /\ seed'[d] = [pc |-> "flush", wiped |-> demo.brands, seen |-> seed[d].seen]
      /\ \A e \in Seeds \ {d} : seed'[e] = seed[e] /\ ~Holds(e)
  BY DEF TypeInv, SeedsTyped, Wipe, tables
<1>2. \A e \in Seeds \ {d} : ~Holds(e)'  BY <1>1 DEF Holds
<1>3. QED  BY <1>1, <1>2 DEF DemoInv, OneHolds, DemoWhole

LEMMA FlushSeedDemo ==
  ASSUME TypeInv, DemoInv, NEW d \in Seeds, FlushSeed(d)
  PROVE  DemoInv'
<1>1. /\ SeedsTyped /\ UNCHANGED demo
      /\ \A e \in Seeds \ {d} : seed'[e] = seed[e] /\ ~Holds(e)
  BY DEF TypeInv, SeedsTyped, FlushSeed, Flushed
<1>2. \A e \in Seeds \ {d} : ~Holds(e)'  BY <1>1 DEF Holds
<1>3. seed[d] \in [pc : {"flush", "commit"}, wiped : SUBSET Seeds, seen : SUBSET Seeds]
  BY <1>1 DEF SeedsTyped, SeedTyped, Outside, FlushSeed
<1>4. seed'[d].pc = "commit" => demo.orgs \subseteq seed'[d].wiped
  BY <1>1, <1>3 DEF FlushSeed, SeedsTyped, Over
<1>5. \A e \in Seeds : seed'[e].pc = "commit" => e = d  BY <1>2 DEF Holds
<1>6. QED  BY <1>1, <1>2, <1>4, <1>5 DEF DemoInv, OneHolds, DemoWhole

LEMMA CommitSeedDemo ==
  ASSUME TypeInv, DemoInv, NEW d \in Seeds, CommitSeed(d)
  PROVE  DemoInv'
<1>1. SeedsTyped /\ DemoTyped /\ Holds(d) /\ demo.orgs \subseteq seed[d].wiped
  BY DEF TypeInv, CommitSeed, Holds, DemoInv, OneHolds
<1>2. demo'.orgs = {d} /\ demo'.brands = {d} /\ demo'.others = {d} /\ d \in demo'.scores
  <2>1. /\ demo'.orgs = (demo.orgs \ seed[d].wiped) \cup {d}
        /\ demo'.brands = (demo.brands \ seed[d].wiped) \cup {d}
        /\ demo'.others = (demo.others \ seed[d].wiped) \cup {d}
        /\ d \in demo'.scores
    BY DEF CommitSeed
  <2>2. demo.orgs \ seed[d].wiped = {}  BY <1>1
  <2>3. QED  BY <2>1, <2>2 DEF DemoInv, DemoWhole
<1>3. DemoWhole'  BY <1>2 DEF DemoWhole
<1>4. /\ seed'[d] = Over /\ \A e \in Seeds \ {d} : seed'[e] = seed[e]
  BY <1>1 DEF CommitSeed, SeedsTyped
<1>5. \A e \in Seeds \ {d} : ~Holds(e)  BY <1>1 DEF DemoInv, OneHolds
<1>6. \A e \in Seeds : ~Holds(e)'  BY <1>4, <1>5 DEF Holds, Over
<1>7. OneHolds'  BY <1>6 DEF OneHolds, Holds
<1>8. QED  BY <1>3, <1>7 DEF DemoInv

LEMMA DemoStep == TypeInv /\ DemoInv /\ [Next]_vars => DemoInv'
<1> SUFFICES ASSUME TypeInv, DemoInv, [Next]_vars PROVE DemoInv'
  OBVIOUS
<1>1. CASE Abort
  <2>1. SeedsTyped /\ UNCHANGED demo  BY <1>1 DEF TypeInv, Abort, tables
  <2>2. \A d \in Seeds : seed'[d] = seed[d] \/ seed'[d] = Over
    BY <1>1, <2>1 DEF Abort, SeedsTyped
  <2>3. QED  BY <2>1, <2>2, DemoKept DEF Holds, Over
<1>2. CASE UNCHANGED <<demo, seed>>  BY <1>2, DemoUntouched
<1>3. QED
  BY <1>1, <1>2, StartSeedDemo, WipeDemo, FlushSeedDemo, CommitSeedDemo, DeleteChanges
  DEF Next, vars, tables, StartSignup, FindSlug, FlushSignup, CommitSignup, CreateKey, RevokeKey,
      StartWizard, FlushWizard, ReadState, CommitWizard, StartTour, CommitTour

-------------------------------------------------------------------------------
(* Theorems *)

\* Every variable has its type, for any number of requests, slugs and faults.
THEOREM TypeCorrect == Spec => []TypeOK
<1>1. Init => TypeInv  BY TypeInit
<1>2. TypeInv /\ [Next]_vars => TypeInv'  BY TypeStep
<1>3. TypeInv => TypeOK  BY TypesTyped
<1>4. QED  BY <1>1, <1>2, <1>3, PTL DEF Spec

\* signup: an organisation, its onboarding state and its first key are there together or
\* not at all, and slugs and e-mails are unique, for any number of sign-ups that overlap.
THEOREM SignupIsWhole == Spec => []SignupWhole
<1>1. Init => TypeInv /\ SignupInv  BY TypeInit, SignupInit
<1>2. TypeInv /\ SignupInv /\ [Next]_vars => TypeInv' /\ SignupInv'  BY TypeStep, SignupStep
<1>3. SignupInv => SignupWhole
  BY DEF SignupInv, OrgsWhole, StatesOwned, KeysOwned, SignupWhole
<1>4. QED  BY <1>1, <1>2, <1>3, PTL DEF Spec

\* brand_wizard, tour_complete: brand and job of an onboarding state are those of one run
\* of the wizard and fit its step, for any number of wizards and tours that overlap.
THEOREM StateIsOfOneRun == Spec => []StateOfOneRun
<1>1. Init => TypeInv /\ SignupInv /\ RunInv  BY TypeInit, SignupInit, RunInit
<1>2. TypeInv /\ SignupInv /\ RunInv /\ [Next]_vars => TypeInv' /\ SignupInv' /\ RunInv'
  BY TypeStep, SignupStep, RunStep
<1>3. RunInv => StateOfOneRun  BY DEF RunInv, OneRun, StateOfOneRun
<1>4. QED  BY <1>1, <1>2, <1>3, PTL DEF Spec

\* seed_demo_data: there is one demo organisation with all that belongs to it, or none,
\* for any number of seeds that overlap.
THEOREM DemoIsWhole == Spec => []WholeDemo
<1>1. Init => TypeInv /\ DemoInv
  <2>1. Init => DemoInv
    <3> SUFFICES ASSUME Init PROVE DemoInv
      OBVIOUS
    <3>1. (\A d \in Seeds : seed[d].pc = "idle") /\ demo.orgs = {} /\ demo.brands = {}
            /\ demo.others = {} /\ demo.scores = {}
      BY DEF Init, Idle
    <3>2. QED  BY <3>1 DEF DemoInv, OneHolds, DemoWhole, Holds
  <2>2. QED  BY <2>1, TypeInit
<1>2. TypeInv /\ DemoInv /\ [Next]_vars => TypeInv' /\ DemoInv'  BY TypeStep, DemoStep
<1>3. DemoInv => WholeDemo
  <2> SUFFICES ASSUME DemoInv PROVE WholeDemo
    OBVIOUS
  <2>1. Cardinality(demo.orgs) <= 1
    <3>1. CASE demo.orgs = {}  BY <3>1, FS_EmptySet
    <3>2. ASSUME NEW d \in Seeds, demo.orgs = {d} PROVE Cardinality(demo.orgs) <= 1
      <4>1. Cardinality({d}) = 1  BY FS_Singleton
      <4>2. QED  BY <3>2, <4>1
    <3>3. QED  BY <3>1, <3>2 DEF DemoInv, DemoWhole
  <2>2. QED  BY <2>1 DEF DemoInv, DemoWhole, WholeDemo
<1>4. QED  BY <1>1, <1>2, <1>3, PTL DEF Spec

===============================================================================
