----------------------------- MODULE SessionsProofs ----------------------------
(***************************************************************************)
(* Pages, clients and the server, for every set of pages, every number of   *)
(* interactions, deaths and edits, and every configuration.                 *)
(*                                                                         *)
(* RunsAsAsked: the rows of resumes were rows of runs, those were made      *)
(* under a server that is up, and such a server has the cap that its boot   *)
(* configuration gives; what the configuration is now appears nowhere.      *)
(*                                                                         *)
(* ShownBelongsToUser, AnswerMeansWhatItSays: PageInv relates a page, its   *)
(* script, its client and the generations of its clicks; a step of a page   *)
(* that Fits keeps it, and so does what the server does (ServerKeeps).      *)
(*                                                                         *)
(* ScriptsAdvance: each step of a script comes later in the tabs' order, or *)
(* serves no click any more (StepNearer).                                   *)
(***************************************************************************)
EXTENDS Sessions, TLAPS

Source == {"env", "local", "file"}

\* What RunsAsAsked says of one generation.
AsAsked(r) ==
    \/ r.asked # None /\ r.cap = r.asked
    \/ /\ r.asked = None
       /\ LET set == {r.conf[s].cap : s \in {"env", "local", "file"}} \ {None}
          IN  r.cap \in (set \cup {DefaultCap}) \cap Nat
              /\ (r.conf["env"].cap \in Nat => r.cap = r.conf["env"].cap)
              /\ (set \cap Nat = {} => r.cap = DefaultCap)

\* A record of this shape: its fields stay what they are when its job goes.
IsRow(r) ==
    r = [click |-> r.click, page |-> r.page, user |-> r.user, job |-> r.job,
         asked |-> r.asked, cap |-> r.cap, conf |-> r.conf, evaluated |-> r.evaluated]

Rows(set) == \A r \in set : IsRow(r) /\ AsAsked(r)

CapOfBoot ==
    /\ server = [up |-> server.up, cap |-> server.cap, conf |-> server.conf]
    /\ server.up => server.cap = LoadQualityGate(server.conf)

CapInv == CapOfBoot /\ Rows(runs) /\ Rows(resumes)

-----------------------------------------------------------------------------
\* A setting is what one of the sources says, the environment when it says anything,
\* and the default when none does.
LEMMA SettingFacts ==
    ASSUME NEW c, NEW key, NEW default
    PROVE  /\ Setting(c, key, default) \in ({c[s][key] : s \in Source} \ {None}) \cup {default}
           /\ c["env"][key] # None => Setting(c, key, default) = c["env"][key]
<1> DEFINE named == {i \in 1..3 : c[Sources[i]][key] # None}
           nearest == CHOOSE i \in named : \A j \in named : i <= j
<1>1. DOMAIN Sources = 1..3 /\ Sources[1] = "env" /\ \A i \in 1..3 : Sources[i] \in Source
  BY DEF Sources, Source
<1>2. Setting(c, key, default) = IF named = {} THEN default ELSE c[Sources[nearest]][key]
  BY <1>1 DEF Setting
<1>3. CASE named = {}
  <2>1. Setting(c, key, default) = default
    BY <1>2, <1>3
  <2>2. 1 \notin named
    BY <1>3
  <2>3. c["env"][key] = None
    BY <1>1, <2>2
  <2> QED BY <2>1, <2>3
<1>4. CASE named # {}
  <2>1. \E i \in named : \A j \in named : i <= j
    <3>1. CASE 1 \in named
      BY <3>1
    <3>2. CASE 1 \notin named /\ 2 \in named
      BY <3>2
    <3>3. CASE 1 \notin named /\ 2 \notin named
      <4>1. named = {3}
        BY <1>4, <3>3
      <4> QED BY <4>1
    <3> QED BY <3>1, <3>2, <3>3
  <2>2. nearest \in named /\ \A j \in named : nearest <= j
    BY <2>1
  <2>3. nearest \in 1..3 /\ c[Sources[nearest]][key] # None
    BY <2>2
  <2>4. c["env"][key] # None => nearest = 1
    <3>1. c["env"][key] # None => 1 \in named
      BY SMTT(30), <1>1
    <3>2. 1 \in named => nearest <= 1
      BY SMTT(30), <2>2
    <3>3. nearest \in 1..3
      BY Zenon, <2>3
    <3> HIDE DEF nearest, named
    <3> QED BY <3>1, <3>2, <3>3
  <2> HIDE DEF nearest, named
  <2>5. Setting(c, key, default) = c[Sources[nearest]][key]
    BY <1>2, <1>4
  <2> QED BY <1>1, <2>3, <2>4, <2>5
<1> QED BY <1>3, <1>4

\* load_quality_gate: always a number from 0, the environment's when that is one, and
\* otherwise one that some source names or the built-in one.
LEMMA DefaultGate ==
    ASSUME NEW c
    PROVE  LET set == {c[s].cap : s \in Source} \ {None}
               cap == LoadQualityGate(c)
           IN  /\ cap \in (set \cup {DefaultCap}) \cap Nat
               /\ c["env"].cap \in Nat => cap = c["env"].cap
               /\ set \cap Nat = {} => cap = DefaultCap
<1> DEFINE set == {c[s].cap : s \in Source} \ {None}
           setting == Setting(c, "cap", DefaultCap)
<1>1. setting \in set \cup {DefaultCap} /\ (c["env"].cap # None => setting = c["env"].cap)
  BY SettingFacts
<1>2. LoadQualityGate(c) = IF setting \in Nat THEN setting ELSE DefaultCap
  BY DEF LoadQualityGate
<1>3. DefaultCap \in Nat /\ None \notin Nat
  BY SessionsAssumption
<1> HIDE DEF set, setting
<1>4. /\ LoadQualityGate(c) \in (set \cup {DefaultCap}) \cap Nat
      /\ c["env"].cap \in Nat => LoadQualityGate(c) = c["env"].cap
      /\ set \cap Nat = {} => LoadQualityGate(c) = DefaultCap
  BY <1>1, <1>2, <1>3
<1> QED BY <1>4 DEF set

-----------------------------------------------------------------------------
\* generate, from a page or from another client: the new row is as asked.
LEMMA StartKeepsRows ==
    ASSUME CapInv, server.up, NEW p, NEW click, NEW user, NEW job, NEW asked,
           StartRun(p, click, user, job, asked)
    PROVE  Rows(runs')
<1> DEFINE new == [click |-> click, page |-> p, user |-> user, job |-> job,
                   asked |-> asked, cap |-> CapOf(asked), conf |-> server.conf,
                   evaluated |-> FALSE]
<1>1. runs' = runs \cup {new}
  BY DEF StartRun
<1>2. /\ new.asked = asked /\ new.cap = CapOf(asked) /\ new.conf = server.conf
      /\ IsRow(new)
  BY DEF IsRow
<1> HIDE DEF new
<1>3. CASE asked # None
  <2>1. new.cap = asked
    BY <1>2, <1>3 DEF CapOf, ToGate
  <2>2. AsAsked(new)
    BY <1>2, <1>3, <2>1 DEF AsAsked
  <2> QED BY <1>1, <1>2, <2>2 DEF CapInv, Rows
<1>4. CASE asked = None
  <2>1. new.cap = LoadQualityGate(new.conf)
    BY <1>2, <1>4 DEF CapOf, ToGate, CapInv, CapOfBoot
  <2>2. AsAsked(new)
    BY <1>2, <1>4, <2>1, DefaultGate DEF AsAsked, Source
  <2> QED BY <1>1, <1>2, <2>2 DEF CapInv, Rows
<1> QED BY <1>3, <1>4

\* A deleted job changes no row but in its job.
LEMMA DetachKeepsRows ==
    ASSUME NEW rows, NEW u, Rows(rows)
    PROVE  Rows(WithoutJob(rows, u))
<1>1. SUFFICES ASSUME NEW r \in rows
               PROVE  LET gone == [r EXCEPT !.job = "gone"] IN IsRow(gone) /\ AsAsked(gone)
  BY <1>1 DEF Rows, WithoutJob
<1> DEFINE gone == [r EXCEPT !.job = "gone"]
<1>2. IsRow(r) /\ AsAsked(r)
  BY DEF Rows
<1>3. gone = [click |-> r.click, page |-> r.page, user |-> r.user, job |-> "gone",
              asked |-> r.asked, cap |-> r.cap, conf |-> r.conf, evaluated |-> r.evaluated]
  BY <1>2 DEF IsRow
<1> HIDE DEF gone
<1>4. IsRow(gone) /\ gone.asked = r.asked /\ gone.cap = r.cap /\ gone.conf = r.conf
  BY <1>3 DEF IsRow
<1>5. AsAsked(gone)
  BY <1>2, <1>4 DEF AsAsked
<1> QED BY <1>4, <1>5 DEF gone

\* An evaluation changes nothing else of a row.
LEMMA EvaluatedRow ==
    ASSUME NEW r, IsRow(r), AsAsked(r)
    PROVE  IsRow(Evaluated(r)) /\ AsAsked(Evaluated(r))
<1> DEFINE e == Evaluated(r)
<1>1. e = [click |-> r.click, page |-> r.page, user |-> r.user, job |-> r.job,
           asked |-> r.asked, cap |-> r.cap, conf |-> r.conf, evaluated |-> TRUE]
  <2>1. e = [r EXCEPT !.evaluated = TRUE]
    BY DEF Evaluated
  <2>2. PICK click, by, user, job, asked, cap, booted, evaluated :
           r = [click |-> click, page |-> by, user |-> user, job |-> job, asked |-> asked,
                cap |-> cap, conf |-> booted, evaluated |-> evaluated]
    BY DEF IsRow
  <2> HIDE DEF e
  <2> QED BY <2>1, <2>2
<1> HIDE DEF e
<1>2. IsRow(e) /\ e.asked = r.asked /\ e.cap = r.cap /\ e.conf = r.conf
  BY <1>1 DEF IsRow
<1>3. AsAsked(e)
  BY <1>2 DEF AsAsked
<1> QED BY <1>2, <1>3 DEF e

\* What leaves the server and both kinds of rows alone keeps the invariant.
LEMMA OthersKeep ==
    ASSUME CapInv, UNCHANGED <<server, runs, resumes>>
    PROVE  CapInv'
BY DEF CapInv, CapOfBoot, Rows

\* No step of a page but a generation touches what the invariant is about.
LEMMA ScriptKeeps ==
    ASSUME CapInv, NEW p \in Page, ScriptStep(p)
    PROVE  CapInv'
<1>1. CASE PostGeneration(p)
  <2>1. UNCHANGED <<server, resumes>>
    BY <1>1 DEF PostGeneration, stores
  <2>2. CASE UNCHANGED runs
    BY <2>1, <2>2, OthersKeep
  <2>3. CASE \E job : Served(p) /\ StartRun(p, script[p].click, User(p), job, script[p].asked)
    <3>1. Rows(runs')
      BY <2>3, StartKeepsRows DEF Served
    <3> QED BY <2>1, <3>1 DEF CapInv, CapOfBoot, Rows
  <2> QED BY <1>1, <2>2, <2>3 DEF PostGeneration
<1>2. CASE ~PostGeneration(p)
  <2>1. UNCHANGED <<server, runs, resumes>>
    BY <1>2 DEF ScriptStep, BeginScript, Upload, ListDocuments, DeleteDocument, Generate,
                LookFirst, CreateJob, ListJobs, JobUpload, GenerateForJob, Receive,
                ListResumes, Download, Search, Timeout, stores
  <2> QED BY <2>1, OthersKeep
<1> QED BY <1>1, <1>2

\* The invariant is preserved by every step.
LEMMA NextKeeps ==
    ASSUME CapInv, [Next]_vars
    PROVE  CapInv'
<1>1. CASE UNCHANGED vars
  BY <1>1, OthersKeep DEF vars, stores
<1>2. ASSUME NEW p \in Page, ScriptStep(p) PROVE CapInv'
  BY <1>2, ScriptKeeps
<1>3. ASSUME NEW p \in Page, NEW do \in Doing, NEW n \in Asked \cup {None}, Click(p, do, n)
      PROVE  CapInv'
  BY <1>3, OthersKeep DEF Click, stores
<1>4. ASSUME NEW p \in Page, NEW text \in Typed, Type(p, text) PROVE CapInv'
  BY <1>4, OthersKeep DEF Type, stores
<1>5. ASSUME NEW r \in runs, FinishRun(r) PROVE CapInv'
  <2>1. /\ runs' = runs \ {r} /\ resumes' = resumes \cup {Evaluated(r)}
        /\ UNCHANGED server
    BY <1>5 DEF FinishRun
  <2>2. IsRow(Evaluated(r)) /\ AsAsked(Evaluated(r))
    BY EvaluatedRow DEF CapInv, Rows
  <2> QED BY <2>1, <2>2 DEF CapInv, CapOfBoot, Rows
<1>6. ASSUME NEW r \in runs, FailRun(r) PROVE CapInv'
  BY <1>6 DEF FailRun, CapInv, CapOfBoot, Rows, stores
<1>7. ASSUME NEW u \in UserId, ApiGenerate(u) PROVE CapInv'
  <2>1. server.up /\ StartRun(None, clicks', u, "none", None) /\ UNCHANGED <<server, resumes>>
    BY <1>7 DEF ApiGenerate, stores
  <2>2. Rows(runs')
    BY <2>1, StartKeepsRows
  <2> QED BY <2>1, <2>2 DEF CapInv, CapOfBoot, Rows
<1>8. ASSUME NEW u \in UserId, ApiDeleteJob(u) PROVE CapInv'
  <2>1. /\ resumes' = WithoutJob(resumes, u) /\ runs' = WithoutJob(runs, u)
        /\ UNCHANGED server
    BY <1>8 DEF ApiDeleteJob, DetachResumes
  <2>2. Rows(WithoutJob(resumes, u)) /\ Rows(WithoutJob(runs, u))
    BY DetachKeepsRows DEF CapInv
  <2> QED BY <2>1, <2>2 DEF CapInv, CapOfBoot, Rows
<1>9. CASE Boot
  <2>1. /\ server' = [up |-> server'.up, cap |-> server'.cap, conf |-> server'.conf]
        /\ server'.cap = LoadQualityGate(server'.conf)
    BY <1>9 DEF Boot, Serving
  <2>2. CapOfBoot'
    <3>1. LoadQualityGate(server'.conf) = LoadQualityGate(server.conf)'
      BY DEF LoadQualityGate, Setting, Sources
    <3> QED BY <2>1, <3>1 DEF CapOfBoot
  <2> QED BY <1>9, <2>2 DEF Boot, stores, CapInv, Rows
<1>10. CASE Kill
  <2>1. server' = [up |-> FALSE, cap |-> server.cap, conf |-> server.conf]
    BY <1>10 DEF Kill, CapInv, CapOfBoot
  <2>2. PICK stored \in SUBSET runs : \E whole \in SUBSET stored :
           resumes' = resumes \cup (stored \ whole) \cup {Evaluated(r) : r \in whole}
    BY <1>10 DEF Kill
  <2>3. \A r \in runs : IsRow(Evaluated(r)) /\ AsAsked(Evaluated(r))
    BY EvaluatedRow DEF CapInv, Rows
  <2>4. Rows(resumes')
    BY <2>2, <2>3 DEF CapInv, Rows
  <2>5. runs' = {}
    BY <1>10 DEF Kill
  <2> QED BY <2>1, <2>4, <2>5 DEF CapInv, CapOfBoot, Rows
<1>11. ASSUME NEW c \in Conf, EditConf(c) PROVE CapInv'
  BY <1>11, OthersKeep DEF EditConf, stores
<1> QED BY <1>1, <1>2, <1>3, <1>4, <1>5, <1>6, <1>7, <1>8, <1>9, <1>10, <1>11 DEF Next

-----------------------------------------------------------------------------
\* A stored generation had the rewrites its caller asked for, 0 included, or those of
\* the configuration its server booted from (api/schemas.py to_gate, load_quality_gate).
THEOREM CapAsAsked == Spec => []RunsAsAsked
<1>1. Init => CapInv
  <2>1. Init => server = [up |-> FALSE, cap |-> DefaultCap, conf |-> conf]
    BY DEF Init
  <2>2. Init => CapOfBoot
    BY <2>1 DEF CapOfBoot
  <2>3. Init => runs = {} /\ resumes = {}
    BY DEF Init
  <2> QED BY <2>2, <2>3 DEF CapInv, Rows
<1>2. CapInv /\ [Next]_vars => CapInv'
  BY NextKeeps
<1>3. CapInv => RunsAsAsked
  BY DEF CapInv, Rows, AsAsked, RunsAsAsked
<1> QED BY <1>1, <1>2, <1>3, PTL DEF Spec

-----------------------------------------------------------------------------
(* Pages: what is shown and said, for any number of pages.                  *)

Want == [do: Doing, click: 0 .. MaxClicks, asked: Asked \cup {None}]

Generates == {"generate", "generate_for_job"}

\* The user a page's requests are made for when its field reads text.
UserOf(text) == ResolveUser(IF text = "" THEN None ELSE text)

TypeInv ==
    /\ TypeOK
    /\ wanted \in [Page -> Want \cup {None}]
    /\ clicks \in 0 .. MaxClicks

\* A client's header is that of its key; a script has its client; a page that is not
\* about to run again serves the text in its field.
ClientInv ==
    /\ \A c \in clients : c.header = IF c.key = "" THEN None ELSE c.key
    /\ \A p \in Page : script[p].pc # "idle" => \E c \in clients : c.key = script[p].key
    /\ \A p \in Page : wanted[p] = None => typed[p] = script[p].key

\* The steps of a script that is still to post the generation it was clicked for.
ToPost(do) ==
    CASE do = "generate" -> {"documents", "generate", "post"}
      [] do = "generate_for_job" -> {"documents", "list_jobs", "generate_for_job", "post"}
      [] OTHER -> {}

\* Only the button of a step leads to it.
StepInv ==
    \A p \in Page :
        /\ script[p].pc \in Doing => script[p].do = script[p].pc
        /\ script[p].pc = "post" => script[p].do \in Generates
        /\ script[p].do \in Generates => script[p].click > 0
        /\ wanted[p] # None /\ wanted[p].do \in Generates => wanted[p].click > 0
        /\ script[p].pc = "download" => UserOf(script[p].key) # None

\* A click is served by one script of one page and makes one generation at most.
ClickInv ==
    /\ \A r \in runs \cup resumes : r.click \in 1 .. clicks
    /\ \A r, s \in runs \cup resumes : r.click = s.click => r = s
    /\ runs \cap resumes = {}
    /\ \A r \in runs : ~r.evaluated
    /\ \A p \in Page : script[p].click <= clicks
    /\ \A p, q \in Page : p # q /\ script[p].click > 0 => script[q].click # script[p].click
    /\ \A p \in Page : wanted[p] # None =>
          /\ wanted[p].click <= clicks
          /\ \A r \in runs \cup resumes : r.click # wanted[p].click
          /\ wanted[p].click > 0 =>
                \A q \in Page : /\ script[q].click # wanted[p].click
                                /\ q # p /\ wanted[q] # None => wanted[q].click # wanted[p].click

\* A generation of a script's click is of its user, and the script has posted it.
PostInv ==
    \A p \in Page, r \in runs \cup resumes : r.click = script[p].click =>
        /\ r.user = UserOf(script[p].key)
        /\ script[p].pc \notin ToPost(script[p].do)

\* Stored for the user of the script of p.
Mine(p, click) == \E r \in resumes : r.click = click /\ r.user = UserOf(script[p].key)

\* The same, with its evaluation.
MineWhole(p, click) ==
    \E r \in resumes : r.click = click /\ r.user = UserOf(script[p].key) /\ r.evaluated

\* Nothing of the click is under way, and what is stored of it has no evaluation.
NoneWhole(click) ==
    /\ \A r \in runs : r.click # click
    /\ \A r \in resumes : r.click = click => ~r.evaluated

Failed(p) == view[p].notice = "failed" \/ script[p].error = "failed"

\* What a script has put on its page, and what it is about to.
ShowInv ==
    \A p \in Page :
        /\ view[p].documents \subseteq {UserOf(script[p].key)}
        /\ \A click \in view[p].resumes \cup script[p].rows : Mine(p, click)
        /\ \A click \in {view[p].result, script[p].answer} \ {0} : MineWhole(p, click)
        /\ Failed(p) => script[p].pc \notin ToPost(script[p].do) /\ NoneWhole(script[p].click)
        /\ view[p].notice = "broken" => ~view[p].reached \/ script[p].key \in Unsendable
        /\ script[p].error # "broken"

PageInv == TypeInv /\ ClientInv /\ StepInv /\ ClickInv /\ PostInv /\ ShowInv

-----------------------------------------------------------------------------
\* The first step from number i on that is not passed over.
LEMMA StepIs ==
    ASSUME NEW do, NEW i \in 1..10, NEW j \in i..10, Order[j] \in Unasked \cup {do},
           \A k \in i..10 : k < j => Order[k] \notin Unasked \cup {do}
    PROVE  StepFrom(Order[i], do) = Order[j]
<1> DEFINE at == CHOOSE n \in DOMAIN Order : Order[n] = Order[i]
           taken == {n \in at .. Len(Order) : Order[n] \in Unasked \cup {do}}
           first == CHOOSE n \in taken : \A m \in taken : n <= m
<1>1. DOMAIN Order = 1..10 /\ Len(Order) = 10
  BY DEF Order
<1>2. \A m, n \in 1..10 : Order[m] = Order[n] => m = n
  <2> DEFINE place(step) == IF step = "upload" THEN 1 ELSE IF step = "documents" THEN 2
                            ELSE IF step = "generate" THEN 3 ELSE IF step = "create_job" THEN 4
                            ELSE IF step = "list_jobs" THEN 5 ELSE IF step = "job_upload" THEN 6
                            ELSE IF step = "generate_for_job" THEN 7
                            ELSE IF step = "resumes" THEN 8 ELSE IF step = "search" THEN 9 ELSE 10
  <2>1. \A n \in 1..10 : place(Order[n]) = n
    BY DEF Order
  <2> HIDE DEF place
  <2> QED BY <2>1
<1>3. at = i
  <2>1. \E n \in DOMAIN Order : Order[n] = Order[i]
    BY <1>1
  <2>2. at \in 1..10 /\ Order[at] = Order[i]
    BY <1>1, <2>1
  <2> QED BY <1>2, <2>2
<1>4. taken = {n \in i..10 : Order[n] \in Unasked \cup {do}}
  BY <1>1, <1>3
<1>5. StepFrom(Order[i], do) = Order[first]
  BY DEF StepFrom
<1> HIDE DEF at, taken
<1>6. j \in taken /\ \A m \in taken : j <= m
  BY <1>4
<1>7. first \in taken /\ \A m \in taken : first <= m
  BY <1>6
<1>8. taken \subseteq Int
  BY <1>4
<1>9. first = j
  <2> HIDE DEF first
  <2> QED BY <1>6, <1>7, <1>8
<1> QED BY <1>5, <1>9

\* The tabs in their order: the step after each, for every click.
LEMMA StepsOn ==
    ASSUME NEW do
    PROVE  /\ StepFrom("upload", do) = IF do = "upload" THEN "upload" ELSE "documents"
           /\ StepFrom("documents", do) = "documents"
           /\ StepFrom("generate", do) = IF do \in {"generate", "create_job"} THEN do ELSE "list_jobs"
           /\ StepFrom("create_job", do) = IF do = "create_job" THEN do ELSE "list_jobs"
           /\ StepFrom("list_jobs", do) = "list_jobs"
           /\ StepFrom("job_upload", do) = IF do \in {"job_upload", "generate_for_job"} THEN do
                                                                                  ELSE "resumes"
           /\ StepFrom("generate_for_job", do) = IF do = "generate_for_job" THEN do ELSE "resumes"
           /\ StepFrom("resumes", do) = "resumes"
           /\ StepFrom("search", do) = IF do = "search" THEN "search" ELSE "idle"
<1> DEFINE First(i, j) == /\ Order[j] \in Unasked \cup {do}
                          /\ \A k \in i..10 : k < j => Order[k] \notin Unasked \cup {do}
<1>1. ASSUME NEW i \in 1..10, NEW j \in i..10, First(i, j)
      PROVE  StepFrom(Order[i], do) = Order[j]
  BY <1>1, StepIs
<1>2. /\ Order[1] = "upload" /\ Order[2] = "documents" /\ Order[3] = "generate"
      /\ Order[4] = "create_job" /\ Order[5] = "list_jobs" /\ Order[6] = "job_upload"
      /\ Order[7] = "generate_for_job" /\ Order[8] = "resumes" /\ Order[9] = "search"
      /\ Order[10] = "idle"
  BY DEF Order
<1>3. First(1, IF do = "upload" THEN 1 ELSE 2)
  BY <1>2 DEF Unasked
<1>4. First(2, 2) /\ First(5, 5) /\ First(8, 8)
  BY <1>2 DEF Unasked
<1>5. First(3, IF do = "generate" THEN 3 ELSE IF do = "create_job" THEN 4 ELSE 5)
  BY <1>2 DEF Unasked
<1>6. First(4, IF do = "create_job" THEN 4 ELSE 5)
  BY <1>2 DEF Unasked
<1>7. First(6, IF do = "job_upload" THEN 6 ELSE IF do = "generate_for_job" THEN 7 ELSE 8)
  BY <1>2 DEF Unasked
<1>8. First(7, IF do = "generate_for_job" THEN 7 ELSE 8)
  BY <1>2 DEF Unasked
<1>9. First(9, IF do = "search" THEN 9 ELSE 10)
  BY <1>2 DEF Unasked
<1> HIDE DEF First
<1>10. StepFrom(Order[1], do) = IF do = "upload" THEN Order[1] ELSE Order[2]
  BY <1>1, <1>3
<1>11. /\ StepFrom(Order[2], do) = Order[2] /\ StepFrom(Order[5], do) = Order[5]
       /\ StepFrom(Order[8], do) = Order[8]
  BY <1>1, <1>4
<1>12. StepFrom(Order[3], do) =
          IF do = "generate" THEN Order[3] ELSE IF do = "create_job" THEN Order[4] ELSE Order[5]
  BY <1>1, <1>5
<1>13. StepFrom(Order[4], do) = IF do = "create_job" THEN Order[4] ELSE Order[5]
  BY <1>1, <1>6
<1>14. StepFrom(Order[6], do) =
          IF do = "job_upload" THEN Order[6] ELSE IF do = "generate_for_job" THEN Order[7] ELSE Order[8]
  BY <1>1, <1>7
<1>15. StepFrom(Order[7], do) = IF do = "generate_for_job" THEN Order[7] ELSE Order[8]
  BY <1>1, <1>8
<1>16. StepFrom(Order[9], do) = IF do = "search" THEN Order[9] ELSE Order[10]
  BY <1>1, <1>9
<1> QED BY <1>2, <1>10, <1>11, <1>12, <1>13, <1>14, <1>15, <1>16

-----------------------------------------------------------------------------
\* resolve_user on what a field can hold: a user, or a refusal.
LEMMA UserOfType == ASSUME NEW text \in Typed PROVE UserOf(text) \in UserId \cup {None}
BY SessionsAssumption DEF UserOf, ResolveUser, UserId

LEMMA NoneIsNoUser == None \notin UserId
BY SessionsAssumption DEF UserId

\* A script's requests are made for the user its field named, whichever page made
\* the client that it found in the cache.
LEMMA UserIs ==
    ASSUME ClientInv, NEW p \in Page, script[p].pc # "idle"
    PROVE  User(p) = UserOf(script[p].key)
<1> DEFINE found == CHOOSE c \in clients : c.key = ClientKey(script[p].key)
<1>1. \E c \in clients : c.key = ClientKey(script[p].key)
  BY DEF ClientInv, ClientKey
<1>2. found \in clients /\ found.key = script[p].key
  BY <1>1 DEF ClientKey
<1>3. Header(p) = found.header
  BY DEF Header
<1> HIDE DEF found
<1>4. Header(p) = IF script[p].key = "" THEN None ELSE script[p].key
  BY <1>2, <1>3 DEF ClientInv
<1> QED BY <1>4 DEF User, UserOf

\* None is not the interaction a page waits to serve.
LEMMA WantIsWant ==
    ASSUME TypeInv, NEW p \in Page, wanted[p] # None
    PROVE  wanted[p] \in Want
BY DEF TypeInv

LEMMA NoneIsNoWant == None \notin Want
BY NoneAssumption DEF Want

\* What a request that leaves the rewrites out gets is a number.
LEMMA CapIsNat ==
    ASSUME TypeInv, NEW asked \in Asked \cup {None}
    PROVE  CapOf(asked) \in Nat
BY SessionsAssumption DEF TypeInv, TypeOK, CapOf, ToGate

LEMMA ServingType == ASSUME NEW c \in Conf PROVE Serving(c) \in [up: BOOLEAN, cap: Nat, conf: Conf]
<1>1. LoadQualityGate(c) \in Nat
  BY DefaultGate
<1> QED BY <1>1 DEF Serving

-----------------------------------------------------------------------------
\* What s and v, put in the place of the script and the view of p, leave as it was, and
\* what of the page's own part of the invariant they have.
Fits(p, s, v) ==
    /\ s \in Script /\ v \in View
    /\ s.key = script[p].key /\ s.click = script[p].click
    /\ s.pc # "idle" => script[p].pc # "idle"
    /\ s.pc \in Doing => s.do = s.pc
    /\ s.pc = "post" => s.do \in Generates
    /\ s.do \in Generates => s.do = script[p].do
    /\ s.pc = "download" => UserOf(s.key) # None
    /\ s.pc \in ToPost(s.do) => script[p].pc \in ToPost(script[p].do)
    /\ v.documents \subseteq {UserOf(s.key)}
    /\ \A click \in v.resumes \cup s.rows : Mine(p, click)
    /\ \A click \in {v.result, s.answer} \ {0} : MineWhole(p, click)
    /\ v.notice = "broken" => ~v.reached \/ s.key \in Unsendable
    /\ s.error # "broken"

\* After the step, the script has s and the page shows v.
Puts(p, s, v) ==
    /\ script' = [script EXCEPT ![p] = s]
    /\ view' = [view EXCEPT ![p] = v]
    /\ UNCHANGED <<typed, wanted, clients, server, resumes, clicks>>
    /\ documents' \subseteq UserId /\ jobs' \subseteq UserId

\* The step posts no generation; one that it shows as failed was shown so before, or
\* is one that the script had yet to post and now will not.
Posts0(p, s, v) ==
    /\ runs' = runs
    /\ v.notice = "failed" \/ s.error = "failed" =>
          \/ Failed(p)
          \/ script[p].pc \in ToPost(script[p].do) /\ s.pc \notin ToPost(s.do)

\* The step posts the generation that the script was clicked for.
Posts1(p, s, v) ==
    /\ script[p].pc = "post"
    /\ s.pc = "waiting"
    /\ s.error = script[p].error /\ v.notice = view[p].notice
    /\ server.up
    /\ UserOf(script[p].key) # None
    /\ \E job \in {"none", "here"} :
          StartRun(p, script[p].click, UserOf(script[p].key), job, script[p].asked)

\* What the script and the view of p have of the types.
LEMMA PageType ==
    ASSUME TypeInv, NEW p \in Page
    PROVE  script[p] \in Script /\ view[p] \in View /\ UserOf(script[p].key) \in UserId \cup {None}
<1>1. script[p] \in Script /\ view[p] \in View
  BY DEF TypeInv, TypeOK
<1> QED BY <1>1, UserOfType DEF Script

\* The generation that a page's request starts.
LEMMA NewRun ==
    ASSUME PageInv, NEW p \in Page, NEW s, NEW v, Posts1(p, s, v)
    PROVE  \E r \in Generation :
              /\ runs' = runs \cup {r}
              /\ r.click = script[p].click /\ r.user = UserOf(script[p].key)
              /\ r.click \in 1 .. clicks
              /\ \A x \in runs \cup resumes : x.click # r.click
              /\ ~r.evaluated /\ ~Failed(p)
<1>1. PICK job \in {"none", "here"} :
         StartRun(p, script[p].click, UserOf(script[p].key), job, script[p].asked)
  BY DEF Posts1
<1> DEFINE r == [click |-> script[p].click, page |-> p, user |-> UserOf(script[p].key),
                 job |-> job, asked |-> script[p].asked, cap |-> CapOf(script[p].asked),
                 conf |-> server.conf, evaluated |-> FALSE]
<1>2. runs' = runs \cup {r}
  BY <1>1 DEF StartRun
<1>3. script[p] \in Script /\ UserOf(script[p].key) \in UserId
  BY PageType DEF PageInv, Posts1
<1>4. script[p].asked \in Asked \cup {None} /\ script[p].click \in Nat
  BY <1>3 DEF Script
<1>5. CapOf(script[p].asked) \in Nat /\ server.conf \in Conf
  BY <1>4, CapIsNat DEF PageInv, TypeInv, TypeOK
<1>6. r \in Generation
  BY <1>3, <1>4, <1>5 DEF Generation
<1>7. script[p].do \in Generates
  BY DEF Posts1, PageInv, StepInv
<1>8. script[p].pc \in ToPost(script[p].do)
  BY <1>7 DEF Posts1, ToPost, Generates
<1>9. script[p].click \in 1 .. clicks
  BY <1>4, <1>7 DEF PageInv, StepInv, ClickInv, TypeInv
<1>10. \A x \in runs \cup resumes : x.click # script[p].click
  BY <1>8 DEF PageInv, PostInv
<1>11. ~Failed(p)
  BY <1>8 DEF PageInv, ShowInv
<1>12. r.click = script[p].click /\ r.user = UserOf(script[p].key) /\ ~r.evaluated
  OBVIOUS
<1> HIDE DEF r
<1> QED BY <1>2, <1>6, <1>9, <1>10, <1>11, <1>12

\* A step of a page that fits keeps the page's invariant.
LEMMA FitKeeps ==
    ASSUME PageInv, NEW p \in Page, NEW s, NEW v, Fits(p, s, v), Puts(p, s, v),
           Posts0(p, s, v) \/ Posts1(p, s, v)
    PROVE  PageInv'
<1>1. PICK new \in SUBSET Generation :
         /\ runs' = runs \cup new
         /\ \A r \in new : /\ r.click = script[p].click /\ r.user = UserOf(script[p].key)
                           /\ r.click \in 1 .. clicks
                           /\ \A x \in runs \cup resumes : x.click # r.click
                           /\ ~r.evaluated
         /\ \A r, x \in new : r = x
         /\ new # {} => ~Failed(p) /\ Posts1(p, s, v)
         /\ new = {} => Posts0(p, s, v)
  <2>1. CASE Posts0(p, s, v)
    <3>1. {} \in SUBSET Generation /\ runs' = runs \cup {}
      BY <2>1 DEF Posts0
    <3> QED BY <2>1, <3>1
  <2>2. CASE Posts1(p, s, v)
    <3>1. PICK r \in Generation :
              /\ runs' = runs \cup {r}
              /\ r.click = script[p].click /\ r.user = UserOf(script[p].key)
              /\ r.click \in 1 .. clicks
              /\ \A x \in runs \cup resumes : x.click # r.click
              /\ ~r.evaluated /\ ~Failed(p)
      BY <2>2, NewRun
    <3> QED BY ZenonT(60), <2>2, <3>1
  <2> QED BY <2>1, <2>2
<1>2. /\ script \in [Page -> Script] /\ view \in [Page -> View]
      /\ s \in Script /\ v \in View /\ s.key = script[p].key /\ s.click = script[p].click
  BY DEF PageInv, TypeInv, TypeOK, Fits
<1>3. /\ \A q \in Page : script'[q] = IF q = p THEN s ELSE script[q]
      /\ \A q \in Page : view'[q] = IF q = p THEN v ELSE view[q]
      /\ script' \in [Page -> Script] /\ view' \in [Page -> View]
      /\ UNCHANGED <<typed, wanted, clients, server, resumes, clicks>>
  BY <1>2 DEF Puts
<1>4. \A q \in Page : script'[q].key = script[q].key /\ script'[q].click = script[q].click
  BY <1>2, <1>3
<1>5. TypeInv'
  <2>1. runs' \cup resumes' \subseteq Generation /\ (~server.up => runs' = {})
    BY <1>1, <1>3 DEF Posts1, PageInv, TypeInv, TypeOK
  <2> QED BY <1>3, <2>1 DEF TypeInv, TypeOK, Puts, PageInv
<1>6. ClientInv'
  <2>1. \A q \in Page : script'[q].pc # "idle" => script[q].pc # "idle"
    BY <1>3 DEF Fits
  <2>2. ASSUME NEW q \in Page, script'[q].pc # "idle"
        PROVE  \E c \in clients' : c.key = script'[q].key
    <3>1. PICK c \in clients : c.key = script[q].key
      BY <2>1, <2>2 DEF ClientInv, PageInv
    <3> QED BY <1>3, <1>4, <3>1
  <2>3. \A q \in Page : wanted'[q] = None => typed'[q] = script'[q].key
    BY <1>3, <1>4 DEF ClientInv, PageInv
  <2>4. \A c \in clients' : c.header = IF c.key = "" THEN None ELSE c.key
    BY <1>3 DEF ClientInv, PageInv
  <2> QED BY <2>2, <2>3, <2>4 DEF ClientInv
<1>7. StepInv'
  BY <1>3, <1>4 DEF StepInv, PageInv, Fits
<1>8. ClickInv'
  BY <1>1, <1>3, <1>4 DEF ClickInv, PageInv
<1>9. PostInv'
  <2>1. ASSUME NEW q \in Page, NEW r \in runs' \cup resumes', r.click = script'[q].click
        PROVE  r.user = UserOf(script'[q].key) /\ script'[q].pc \notin ToPost(script'[q].do)
    <3>1. CASE r \in runs \cup resumes
      BY <1>3, <1>4, <2>1, <3>1 DEF PageInv, PostInv, Fits
    <3>2. CASE r \in new
      <4>1. q = p
        BY <1>1, <1>4, <2>1, <3>2 DEF PageInv, ClickInv
      <4>2. s.pc = "waiting" /\ "waiting" \notin ToPost(s.do)
        BY <1>1, <3>2 DEF Posts1, ToPost
      <4> QED BY <1>1, <1>3, <1>4, <3>2, <4>1, <4>2
    <3> QED BY <1>1, <1>3, <3>1, <3>2
  <2> QED BY <2>1 DEF PostInv
<1>10. ShowInv'
  <2>1. \A q \in Page : \A click : /\ Mine(q, click) => Mine(q, click)'
                                   /\ MineWhole(q, click) => MineWhole(q, click)'
    BY <1>3, <1>4 DEF Mine, MineWhole
  <2>2. \A q \in Page : q # p => (Failed(q)' <=> Failed(q))
    BY <1>3 DEF Failed
  <2>3. Failed(p)' => (v.notice = "failed" \/ s.error = "failed")
    BY <1>3 DEF Failed
  <2>4. ASSUME NEW q \in Page, Failed(q)'
        PROVE  /\ script'[q].pc \notin ToPost(script'[q].do)
               /\ \A r \in runs' : r.click # script'[q].click
               /\ \A r \in resumes' : r.click = script'[q].click => ~r.evaluated
    <3>1. CASE q # p
      <4>1. Failed(q)
        BY <2>2, <2>4, <3>1
      <4>2. ASSUME NEW r \in new PROVE r.click # script[q].click
        BY <1>1, <3>1, <4>2 DEF PageInv, ClickInv
      <4>3. NoneWhole(script[q].click)
        BY <4>1 DEF PageInv, ShowInv
      <4>4. script[q].pc \notin ToPost(script[q].do)
        BY <4>1 DEF PageInv, ShowInv
      <4> QED BY <1>1, <1>3, <1>4, <3>1, <4>2, <4>3, <4>4 DEF NoneWhole
    <3>2. CASE q = p /\ new = {}
      <4>1. v.notice = "failed" \/ s.error = "failed"
        BY <2>3, <2>4, <3>2
      <4>2. \/ Failed(p)
            \/ script[p].pc \in ToPost(script[p].do) /\ s.pc \notin ToPost(s.do)
        BY <1>1, <3>2, <4>1 DEF Posts0
      <4>3. NoneWhole(script[p].click)
        BY <4>2 DEF PageInv, ShowInv, PostInv, NoneWhole
      <4>4. s.pc \notin ToPost(s.do)
        BY <4>2 DEF PageInv, ShowInv, Fits
      <4> QED BY <1>1, <1>3, <1>4, <3>2, <4>3, <4>4 DEF NoneWhole
    <3>3. CASE q = p /\ new # {}
      BY <1>1, <2>3, <2>4, <3>3 DEF Posts1, Failed
    <3> QED BY <3>1, <3>2, <3>3
  <2>5. ASSUME NEW q \in Page
        PROVE  /\ view'[q].documents \subseteq {UserOf(script'[q].key)}
               /\ \A click \in view'[q].resumes \cup script'[q].rows : Mine(q, click)
               /\ \A click \in {view'[q].result, script'[q].answer} \ {0} : MineWhole(q, click)
               /\ view'[q].notice = "broken" =>
                     ~view'[q].reached \/ script'[q].key \in Unsendable
               /\ script'[q].error # "broken"
    <3>1. CASE q # p
      BY <1>3, <3>1 DEF PageInv, ShowInv
    <3>2. CASE q = p
      BY <1>3, <3>2 DEF Fits
    <3> QED BY <3>1, <3>2
  <2> QED BY <2>1, <2>4, <2>5 DEF ShowInv, NoneWhole
<1> QED BY <1>5, <1>6, <1>7, <1>8, <1>9, <1>10 DEF PageInv

-----------------------------------------------------------------------------
\* What the page may show in the place of what it shows.
Looks(p, v) ==
    /\ v \in View
    /\ v.documents \subseteq {UserOf(script[p].key)}
    /\ \A click \in v.resumes : Mine(p, click)
    /\ v.result # 0 => MineWhole(p, v.result)
    /\ v.notice = "broken" => ~v.reached \/ script[p].key \in Unsendable

\* A step that the script of p may be at next.
Leads(p, to) ==
    /\ to \in PC
    /\ to \in Doing => script[p].do = to
    /\ to = "post" => script[p].do \in Generates
    /\ to = "download" => UserOf(script[p].key) # None
    /\ to \in ToPost(script[p].do) => script[p].pc \in ToPost(script[p].do)

\* The variables of no page, as a request other than a generation leaves them.
Frame ==
    /\ UNCHANGED <<typed, wanted, clients, server, resumes, clicks>>
    /\ documents' \subseteq UserId /\ jobs' \subseteq UserId

LEMMA SeenLooks ==
    ASSUME PageInv, NEW p \in Page
    PROVE  /\ Looks(p, view[p]) /\ Looks(p, Seen(p)) /\ Looks(p, Blank)
           /\ Seen(p).notice = view[p].notice /\ Blank.notice = "none"
           /\ \A n \in Notice \ {"broken"} : Looks(p, [Seen(p) EXCEPT !.notice = n])
           /\ ~server.up => Looks(p, [Seen(p) EXCEPT !.notice = "broken"])
<1>1. view[p] \in View
  BY PageType DEF PageInv
<1>2. /\ view[p].documents \subseteq {UserOf(script[p].key)}
      /\ \A click \in view[p].resumes : Mine(p, click)
      /\ view[p].result # 0 => MineWhole(p, view[p].result)
      /\ view[p].notice = "broken" => ~view[p].reached \/ script[p].key \in Unsendable
  BY DEF PageInv, ShowInv
<1>3. Looks(p, view[p])
  BY <1>1, <1>2 DEF Looks
<1>4. /\ Seen(p) = [view[p] EXCEPT !.reached = view[p].reached /\ server.up]
      /\ server.up \in BOOLEAN
  BY DEF Seen, PageInv, TypeInv, TypeOK
<1>5. /\ Seen(p) \in View /\ Seen(p).documents = view[p].documents
      /\ Seen(p).resumes = view[p].resumes /\ Seen(p).result = view[p].result
      /\ Seen(p).notice = view[p].notice /\ Seen(p).reached = (view[p].reached /\ server.up)
  BY <1>1, <1>4 DEF View
<1>6. Looks(p, Seen(p))
  BY <1>2, <1>5 DEF Looks
<1>7. Blank \in View /\ Looks(p, Blank)
  BY DEF Looks, Blank, View, Notice
<1>8. ASSUME NEW n \in Notice, n = "broken" => ~server.up
      PROVE  Looks(p, [Seen(p) EXCEPT !.notice = n])
  <2> DEFINE v == [Seen(p) EXCEPT !.notice = n]
  <2>1. /\ v \in View /\ v.documents = view[p].documents
        /\ v.resumes = view[p].resumes /\ v.result = view[p].result
        /\ v.notice = n /\ v.reached = (view[p].reached /\ server.up)
    BY <1>5 DEF View
  <2> HIDE DEF v
  <2>2. Looks(p, v)
    BY <1>2, <1>8, <2>1 DEF Looks
  <2> QED BY <2>2 DEF v
<1> QED BY <1>3, <1>5, <1>6, <1>7, <1>8 DEF Notice, Blank

\* A step that moves the script on and shows v, and posts nothing.
LEMMA Going ==
    ASSUME PageInv, NEW p \in Page, script[p].pc # "idle", NEW to, Leads(p, to), Goto(p, to),
           NEW v, Looks(p, v), Show(p, v), Frame, runs' = runs,
           v.notice = "failed" =>
              \/ Failed(p)
              \/ script[p].pc \in ToPost(script[p].do) /\ to \notin ToPost(script[p].do)
    PROVE  PageInv'
<1> DEFINE s == [script[p] EXCEPT !.pc = to]
<1>1. script[p] \in Script /\ script \in [Page -> Script]
  BY PageType DEF PageInv, TypeInv, TypeOK
<1>2. /\ s \in Script /\ s.pc = to /\ s.do = script[p].do /\ s.click = script[p].click
      /\ s.key = script[p].key /\ s.rows = script[p].rows /\ s.answer = script[p].answer
      /\ s.error = script[p].error
  BY <1>1 DEF Script, Leads
<1>3. script' = [script EXCEPT ![p] = s]
  BY <1>1 DEF Goto
<1> HIDE DEF s
<1>4. Fits(p, s, v)
  <2>1. /\ \A click \in script[p].rows : Mine(p, click)
        /\ script[p].answer # 0 => MineWhole(p, script[p].answer)
        /\ script[p].error # "broken"
    BY DEF PageInv, ShowInv
  <2> QED BY <1>2, <2>1 DEF Fits, Looks, Leads
<1>5. Puts(p, s, v)
  BY <1>3 DEF Puts, Show, Frame
<1>6. Posts0(p, s, v)
  BY <1>2 DEF Posts0, Failed
<1> QED BY <1>4, <1>5, <1>6, FitKeeps

\* A step that posts the generation.
LEMMA Posting ==
    ASSUME PageInv, NEW p \in Page, script[p].pc = "post", NEW job \in {"none", "here"},
           Served(p), StartRun(p, script[p].click, User(p), job, script[p].asked),
           Goto(p, "waiting"), Show(p, Seen(p)), Frame
    PROVE  PageInv'
<1> DEFINE s == [script[p] EXCEPT !.pc = "waiting"]
<1>1. script[p] \in Script /\ script \in [Page -> Script]
  BY PageType DEF PageInv, TypeInv, TypeOK
<1>2. /\ s \in Script /\ s.pc = "waiting" /\ s.do = script[p].do /\ s.click = script[p].click
      /\ s.key = script[p].key /\ s.rows = script[p].rows /\ s.answer = script[p].answer
      /\ s.error = script[p].error
  BY <1>1 DEF Script, PC
<1>3. script' = [script EXCEPT ![p] = s]
  BY <1>1 DEF Goto
<1>4. script[p].pc # "idle" /\ script[p].pc \in ToPost(script[p].do)
  BY DEF Generates, PageInv, StepInv, ToPost
<1> HIDE DEF s
<1>5. Fits(p, s, Seen(p))
  <2>1. /\ \A click \in script[p].rows : Mine(p, click)
        /\ script[p].answer # 0 => MineWhole(p, script[p].answer)
        /\ script[p].error # "broken"
    BY DEF PageInv, ShowInv
  <2>2. "waiting" \notin Doing
    BY DEF Doing
  <2> QED BY <1>2, <1>4, <2>1, <2>2, SeenLooks DEF Fits, Looks
<1>6. Puts(p, s, Seen(p))
  BY <1>3 DEF Puts, Show, Frame
<1>7. User(p) = UserOf(script[p].key)
  BY <1>4, UserIs DEF PageInv
<1>8. Posts1(p, s, Seen(p))
  BY <1>2, <1>7, SeenLooks DEF Posts1, Served
<1> QED BY <1>5, <1>6, <1>8, FitKeeps

\* st.rerun: the page starts over, to look.
LEMMA Rerunning ==
    ASSUME PageInv, NEW p \in Page, script[p].pc # "idle", Rerun(p), Frame, runs' = runs
    PROVE  PageInv'
<1> DEFINE s == [script[p] EXCEPT !.pc = "documents", !.do = "look"]
<1>1. script[p] \in Script /\ script \in [Page -> Script]
  BY PageType DEF PageInv, TypeInv, TypeOK
<1>2. /\ s \in Script /\ s.pc = "documents" /\ s.do = "look" /\ s.click = script[p].click
      /\ s.key = script[p].key /\ s.rows = script[p].rows /\ s.answer = script[p].answer
      /\ s.error = script[p].error
  BY <1>1 DEF Script, PC, Doing
<1>3. script' = [script EXCEPT ![p] = s]
  BY <1>1 DEF Rerun
<1> HIDE DEF s
<1>4. Fits(p, s, Blank)
  <2>1. /\ \A click \in script[p].rows : Mine(p, click)
        /\ script[p].answer # 0 => MineWhole(p, script[p].answer)
        /\ script[p].error # "broken"
    BY DEF PageInv, ShowInv
  <2>2. "documents" \notin Doing /\ "look" \notin Generates /\ ToPost("look") = {}
    BY DEF Doing, Generates, ToPost
  <2> QED BY <1>2, <2>1, <2>2, SeenLooks DEF Fits, Looks
<1>5. Puts(p, s, Blank)
  BY <1>3 DEF Puts, Rerun, Show, Frame
<1>6. Posts0(p, s, Blank)
  BY <1>2, SeenLooks DEF Posts0, Failed
<1> QED BY <1>4, <1>5, <1>6, FitKeeps

-----------------------------------------------------------------------------
\* The end of a script leads nowhere.
LEMMA EndLeads == ASSUME NEW p \in Page PROVE Leads(p, "idle")
BY DEF Leads, PC, Doing, ToPost

\* The user of a served request, and what the server then has of that user.
LEMMA ServedIs ==
    ASSUME PageInv, NEW p \in Page, script[p].pc # "idle"
    PROVE  /\ User(p) = UserOf(script[p].key)
           /\ Served(p) => User(p) \in UserId
           /\ Served(p) <=> server.up /\ UserOf(script[p].key) # None
BY UserIs, PageType DEF PageInv, Served

\* A page that raises an exception nothing catches, the server being out of reach.
LEMMA Breaking ==
    ASSUME PageInv, NEW p \in Page, script[p].pc # "idle", ~server.up, Break(p), Frame,
           runs' = runs
    PROVE  PageInv'
<1> DEFINE v == [Seen(p) EXCEPT !.notice = "broken"]
<1>1. Looks(p, v)
  BY SeenLooks
<1>2. v.notice = "broken"
  <2>1. Seen(p) \in View
    BY SeenLooks DEF Looks
  <2> QED BY <2>1 DEF View
<1>3. Goto(p, "idle") /\ Show(p, v)
  BY DEF Break
<1> HIDE DEF v
<1> QED BY <1>1, <1>2, <1>3, EndLeads, Going

\* Both upload forms.
LEMMA SubmitKeeps ==
    ASSUME PageInv, NEW p \in Page, script[p].pc # "idle", NEW accepted, NEW next,
           accepted => Served(p), Leads(p, StepFrom(next, script[p].do)),
           SubmitUpload(p, accepted, next),
           UNCHANGED <<typed, wanted, clients, server, resumes, clicks, jobs, runs>>
    PROVE  PageInv'
<1>1. documents \subseteq UserId /\ jobs \subseteq UserId
  BY DEF PageInv, TypeInv, TypeOK
<1>2. Frame
  BY <1>1, ServedIs DEF Frame, SubmitUpload
<1>3. CASE ~server.up /\ Break(p)
  BY <1>2, <1>3, Breaking
<1>4. CASE Proceed(p, next) /\ Show(p, Seen(p))
  BY <1>2, <1>4, SeenLooks, Going DEF Proceed, Failed
<1> QED BY <1>3, <1>4 DEF SubmitUpload

LEMMA UploadKeeps == ASSUME PageInv, NEW p \in Page, Upload(p) PROVE PageInv'
<1>1. script[p].pc = "upload" /\ script[p].pc # "idle"
  BY DEF Upload, At
<1>2. script[p].do = "upload"
  BY <1>1 DEF PageInv, StepInv, Doing
<1>3. Leads(p, StepFrom("documents", script[p].do))
  BY <1>2, StepsOn DEF Leads, PC, Doing, ToPost
<1> QED BY <1>1, <1>3, SubmitKeeps DEF Upload, bounds

LEMMA JobUploadKeeps == ASSUME PageInv, NEW p \in Page, JobUpload(p) PROVE PageInv'
<1>1. script[p].pc = "job_upload" /\ script[p].pc # "idle"
  BY DEF JobUpload, At
<1>2. script[p].do = "job_upload"
  BY <1>1 DEF PageInv, StepInv, Doing
<1>3. Leads(p, StepFrom("generate_for_job", script[p].do))
  BY <1>2, StepsOn DEF Leads, PC, Doing, ToPost
<1> QED BY <1>1, <1>3, SubmitKeeps DEF JobUpload, bounds

\* A list of documents is that of the page's user, or empty.
LEMMA ListDocumentsKeeps == ASSUME PageInv, NEW p \in Page, ListDocuments(p) PROVE PageInv'
<1> DEFINE found == IF Served(p) THEN DocumentsOf(User(p)) ELSE {}
           v == [Seen(p) EXCEPT !.documents = found]
           to == IF Does(p, "delete") /\ found # {} THEN "delete"
                                                    ELSE StepFrom("generate", script[p].do)
<1>1. script[p].pc = "documents" /\ script[p].pc # "idle"
  BY DEF ListDocuments, At
<1>2. found \subseteq {UserOf(script[p].key)} /\ found \subseteq UserId
  BY <1>1, ServedIs DEF DocumentsOf
<1>3. Looks(p, v) /\ v.notice = view[p].notice
  <2>1. Looks(p, Seen(p)) /\ Seen(p).notice = view[p].notice
    BY SeenLooks
  <2>2. /\ v \in View /\ v.documents = found /\ v.resumes = Seen(p).resumes
        /\ v.result = Seen(p).result /\ v.notice = Seen(p).notice
        /\ v.reached = Seen(p).reached
    BY <1>2, <2>1 DEF Looks, View
  <2> HIDE DEF v
  <2> QED BY <1>2, <2>1, <2>2 DEF Looks
<1>4. Leads(p, to)
  BY <1>1, StepsOn DEF Leads, PC, Doing, ToPost, Does
<1>5. Goto(p, to) /\ Show(p, v) /\ runs' = runs
  BY DEF ListDocuments, Proceed
<1>6. Frame
  BY DEF ListDocuments, Frame, bounds, stores, PageInv, TypeInv, TypeOK
<1> HIDE DEF v, to
<1> QED BY <1>1, <1>3, <1>4, <1>5, <1>6, Going DEF Failed

LEMMA DeleteDocumentKeeps == ASSUME PageInv, NEW p \in Page, DeleteDocument(p) PROVE PageInv'
<1>1. script[p].pc = "delete" /\ script[p].pc # "idle"
  BY DEF DeleteDocument, At
<1>2. script[p].do = "delete"
  BY <1>1 DEF PageInv, StepInv, Doing
<1>3. documents \subseteq UserId /\ jobs \subseteq UserId
  BY DEF PageInv, TypeInv, TypeOK
<1>4. Frame /\ runs' = runs
  BY <1>3 DEF DeleteDocument, Frame, bounds
<1>5. CASE ~server.up /\ Break(p)
  BY <1>1, <1>4, <1>5, Breaking
<1>6. CASE Proceed(p, "generate") /\ UNCHANGED view
  <2>1. Leads(p, StepFrom("generate", script[p].do))
    BY <1>2, StepsOn DEF Leads, PC, Doing, ToPost
  <2>2. Show(p, view[p])
    BY <1>6 DEF Show, PageInv, TypeInv, TypeOK
  <2> QED BY <1>1, <1>4, <1>6, <2>1, <2>2, SeenLooks, Going DEF Proceed, Failed
<1>7. CASE Rerun(p)
  BY <1>1, <1>4, <1>7, Rerunning
<1> QED BY <1>5, <1>6, <1>7 DEF DeleteDocument

LEMMA CreateJobKeeps == ASSUME PageInv, NEW p \in Page, CreateJob(p) PROVE PageInv'
<1>1. script[p].pc = "create_job" /\ script[p].pc # "idle"
  BY DEF CreateJob, At
<1>2. script[p].do = "create_job"
  BY <1>1 DEF PageInv, StepInv, Doing
<1>3. documents \subseteq UserId /\ jobs \subseteq UserId
  BY DEF PageInv, TypeInv, TypeOK
<1>4. Frame /\ runs' = runs
  BY <1>1, <1>3, ServedIs DEF CreateJob, Frame, bounds
<1>5. CASE Proceed(p, "list_jobs") /\ Show(p, Seen(p))
  <2>1. Leads(p, StepFrom("list_jobs", script[p].do))
    BY <1>2, StepsOn DEF Leads, PC, Doing, ToPost
  <2> QED BY <1>1, <1>4, <1>5, <2>1, SeenLooks, Going DEF Proceed, Failed
<1>6. CASE Rerun(p)
  BY <1>1, <1>4, <1>6, Rerunning
<1> QED BY <1>5, <1>6 DEF CreateJob

LEMMA ListJobsKeeps == ASSUME PageInv, NEW p \in Page, ListJobs(p) PROVE PageInv'
<1> DEFINE found == Served(p) /\ User(p) \in jobs
           v == [Seen(p) EXCEPT !.job = found]
           to == StepFrom(IF found THEN "job_upload" ELSE "search", script[p].do)
<1>1. script[p].pc = "list_jobs" /\ script[p].pc # "idle"
  BY DEF ListJobs, At
<1>2. Looks(p, v) /\ v.notice = view[p].notice
  <2>1. Looks(p, Seen(p)) /\ Seen(p).notice = view[p].notice
    BY SeenLooks
  <2>2. found \in BOOLEAN
    BY DEF Served, PageInv, TypeInv, TypeOK
  <2>3. /\ v \in View /\ v.documents = Seen(p).documents /\ v.resumes = Seen(p).resumes
        /\ v.result = Seen(p).result /\ v.notice = Seen(p).notice
        /\ v.reached = Seen(p).reached
    BY <2>1, <2>2 DEF Looks, View
  <2> HIDE DEF v
  <2> QED BY <2>1, <2>3 DEF Looks
<1>3. Leads(p, to)
  BY <1>1, StepsOn DEF Leads, PC, Doing, ToPost
<1>4. Goto(p, to) /\ Show(p, v) /\ runs' = runs
  BY DEF ListJobs, Proceed
<1>5. Frame
  BY DEF ListJobs, Frame, bounds, stores, PageInv, TypeInv, TypeOK
<1> HIDE DEF v, to
<1> QED BY <1>1, <1>2, <1>3, <1>4, <1>5, Going DEF Failed

\* The look at the documents goes on to the post of the script's own click.
LEMMA LookKeeps ==
    ASSUME PageInv, NEW p \in Page, script[p].pc \in Generates, NEW without, NEW next,
           Leads(p, StepFrom(next, script[p].do)), LookFirst(p, without, next)
    PROVE  PageInv'
<1>1. /\ script[p].pc # "idle" /\ script[p].do \in Generates
      /\ script[p].pc \in ToPost(script[p].do)
  BY DEF Generates, PageInv, StepInv, Doing, ToPost
<1>2. Leads(p, "post")
  BY <1>1 DEF Leads, PC, Doing
<1>3. Frame /\ runs' = runs /\ Show(p, Seen(p))
  BY DEF LookFirst, Frame, bounds, stores, PageInv, TypeInv, TypeOK
<1>4. CASE Goto(p, "post")
  BY <1>1, <1>2, <1>3, <1>4, SeenLooks, Going DEF Failed
<1>5. CASE Goto(p, StepFrom(next, script[p].do))
  BY <1>1, <1>3, <1>5, SeenLooks, Going DEF Failed
<1> QED BY <1>4, <1>5 DEF LookFirst, Proceed

LEMMA GenerateKeeps == ASSUME PageInv, NEW p \in Page, Generate(p) PROVE PageInv'
<1>1. script[p].pc = "generate" /\ script[p].pc \in Generates
  BY DEF Generate, At, Generates
<1>2. script[p].do = "generate"
  BY <1>1 DEF PageInv, StepInv, Doing
<1>3. Leads(p, StepFrom("create_job", script[p].do))
  BY <1>2, StepsOn DEF Leads, PC, Doing, ToPost
<1> QED BY <1>1, <1>3, LookKeeps DEF Generate

LEMMA GenerateForJobKeeps == ASSUME PageInv, NEW p \in Page, GenerateForJob(p) PROVE PageInv'
<1>1. script[p].pc = "generate_for_job" /\ script[p].pc \in Generates
  BY DEF GenerateForJob, At, Generates
<1>2. script[p].do = "generate_for_job"
  BY <1>1 DEF PageInv, StepInv, Doing
<1>3. Leads(p, StepFrom("resumes", script[p].do))
  BY <1>2, StepsOn DEF Leads, PC, Doing, ToPost
<1> QED BY <1>1, <1>3, LookKeeps DEF GenerateForJob

\* The post: taken, refused, or lost.
LEMMA PostKeeps == ASSUME PageInv, NEW p \in Page, PostGeneration(p) PROVE PageInv'
<1> DEFINE do == script[p].do
           job == IF do = "generate_for_job" THEN "here" ELSE "none"
           next == IF do = "generate_for_job" THEN "search" ELSE "create_job"
           v == [Seen(p) EXCEPT !.notice = IF server.up THEN "failed" ELSE "unreachable"]
<1>1. script[p].pc = "post" /\ script[p].pc # "idle"
  BY DEF PostGeneration, At
<1>2. do \in Generates /\ script[p].pc \in ToPost(do)
  BY <1>1 DEF PageInv, StepInv, Generates, ToPost
<1>3. Frame
  BY DEF PostGeneration, Frame, bounds, stores, PageInv, TypeInv, TypeOK
<1>4. \A to \in {"search", "create_job"} :
         (do = "generate_for_job") <=> (to = "search") =>
            Leads(p, StepFrom(to, do)) /\ StepFrom(to, do) \notin ToPost(do)
  BY <1>2, StepsOn DEF Leads, PC, Doing, ToPost, Generates
<1>5. job \in {"none", "here"} /\ next \in {"search", "create_job"}
      /\ (do = "generate_for_job" <=> next = "search")
  OBVIOUS
<1>6. CASE /\ Served(p) /\ StartRun(p, script[p].click, User(p), job, script[p].asked)
           /\ Goto(p, "waiting") /\ Show(p, Seen(p))
  <2> HIDE DEF job
  <2> QED BY <1>1, <1>3, <1>5, <1>6, Posting
<1>7. CASE Proceed(p, next) /\ UNCHANGED runs /\ Show(p, v)
  <2>1. Looks(p, v)
    BY SeenLooks DEF Notice
  <2>2. Goto(p, StepFrom(next, do)) /\ runs' = runs
    BY <1>7 DEF Proceed
  <2>3. Leads(p, StepFrom(next, do)) /\ StepFrom(next, do) \notin ToPost(do)
    BY <1>4, <1>5
  <2> HIDE DEF v, next
  <2> QED BY <1>1, <1>2, <1>3, <1>7, <2>1, <2>2, <2>3, Going
<1> QED BY <1>6, <1>7 DEF PostGeneration, Does

\* The answer that the script was given is shown.
LEMMA ReceiveKeeps == ASSUME PageInv, NEW p \in Page, Receive(p) PROVE PageInv'
<1> DEFINE v == [view[p] EXCEPT !.result = script[p].answer, !.notice = script[p].error,
                      !.reached = view[p].reached /\ script[p].error # "unreachable"]
           to == StepFrom(IF Does(p, "generate") THEN "create_job"
                          ELSE IF script[p].error = "none" THEN "resumes" ELSE "search",
                          script[p].do)
<1>1. script[p].pc = "answered" /\ script[p].pc # "idle"
  BY DEF Receive, At
<1>2. Looks(p, v) /\ v.notice = script[p].error
  <2>1. script[p] \in Script /\ view[p] \in View
    BY PageType DEF PageInv
  <2>2. /\ script[p].answer \in Nat /\ script[p].error \in Notice
        /\ (view[p].reached /\ script[p].error # "unreachable") \in BOOLEAN
    BY <2>1 DEF Script, View
  <2>3. /\ v \in View /\ v.documents = view[p].documents /\ v.resumes = view[p].resumes
        /\ v.result = script[p].answer /\ v.notice = script[p].error
    BY <2>1, <2>2 DEF View
  <2>4. script[p].answer # 0 => MineWhole(p, script[p].answer)
    BY DEF PageInv, ShowInv
  <2>5. script[p].error # "broken"
    BY DEF PageInv, ShowInv
  <2> HIDE DEF v
  <2> QED BY <2>3, <2>4, <2>5, SeenLooks DEF Looks
<1>3. Leads(p, to)
  BY <1>1, StepsOn DEF Leads, PC, Doing, ToPost, Does
<1>4. Goto(p, to) /\ Show(p, v) /\ runs' = runs
  BY DEF Receive, Proceed
<1>5. Frame
  BY DEF Receive, Frame, bounds, stores, PageInv, TypeInv, TypeOK
<1> HIDE DEF v, to
<1> QED BY <1>1, <1>2, <1>3, <1>4, <1>5, Going DEF Failed

\* The rows that a list names are stored, and the page's user's.
LEMMA ListResumesKeeps == ASSUME PageInv, NEW p \in Page, ListResumes(p) PROVE PageInv'
<1> DEFINE shown == IF Served(p) /\ User(p) \in jobs THEN ResumesForJob(User(p)) ELSE {}
           to == IF shown = {} THEN StepFrom("search", script[p].do) ELSE "download"
           s == [script[p] EXCEPT !.rows = shown, !.pc = to]
<1>1. script[p].pc = "resumes" /\ script[p].pc # "idle"
  BY DEF ListResumes, At
<1>2. \A click \in shown : click \in Nat /\ Mine(p, click)
  BY <1>1, ServedIs DEF ResumesForJob, Mine, PageInv, TypeInv, TypeOK, Generation
<1>3. shown # {} => UserOf(script[p].key) # None
  BY <1>1, ServedIs
<1>4. /\ to \in PC /\ to # "post"
      /\ to \in Doing => script[p].do = to
      /\ to \notin ToPost(script[p].do)
  BY StepsOn DEF PC, Doing, ToPost
<1>5. to = "download" => shown # {}
  BY StepsOn
<1>6. script[p] \in Script /\ script \in [Page -> Script]
  BY PageType DEF PageInv, TypeInv, TypeOK
<1>7. script' = [script EXCEPT ![p] = s]
  BY <1>6 DEF ListResumes
<1>8. Frame /\ runs' = runs /\ Show(p, Seen(p))
  BY DEF ListResumes, Frame, bounds, stores, PageInv, TypeInv, TypeOK
<1> HIDE DEF shown, to
<1>9. /\ s \in Script /\ s.pc = to /\ s.do = script[p].do /\ s.click = script[p].click
      /\ s.key = script[p].key /\ s.rows = shown /\ s.answer = script[p].answer
      /\ s.error = script[p].error
  BY <1>2, <1>4, <1>6 DEF Script
<1> HIDE DEF s
<1>10. Fits(p, s, Seen(p))
  <2>1. script[p].answer # 0 => MineWhole(p, script[p].answer)
    BY DEF PageInv, ShowInv
  <2>2. script[p].error # "broken"
    BY DEF PageInv, ShowInv
  <2> QED BY <1>1, <1>2, <1>3, <1>4, <1>5, <1>9, <2>1, <2>2, SeenLooks DEF Fits, Looks
<1>11. Puts(p, s, Seen(p))
  BY <1>7, <1>8 DEF Puts, Show, Frame
<1>12. Posts0(p, s, Seen(p))
  BY <1>8, <1>9, SeenLooks DEF Posts0, Failed
<1> QED BY <1>10, <1>11, <1>12, FitKeeps

\* The files of the listed rows are there as long as the server is.
LEMMA DownloadKeeps == ASSUME PageInv, NEW p \in Page, Download(p) PROVE PageInv'
<1>1. script[p].pc = "download" /\ script[p].pc # "idle"
  BY DEF Download, At
<1>2. Frame /\ runs' = runs
  BY DEF Download, Frame, bounds, stores, PageInv, TypeInv, TypeOK
<1>3. \A click \in script[p].rows : Mine(p, click)
  BY DEF PageInv, ShowInv
<1>4. script[p].rows \subseteq ResumesOf(User(p))
  BY <1>1, <1>3, ServedIs DEF ResumesOf, Mine
<1>5. CASE Break(p) /\ ~Served(p)
  <2>1. UserOf(script[p].key) # None
    BY <1>1 DEF PageInv, StepInv
  <2>2. ~server.up
    BY <1>1, <1>5, <2>1, ServedIs
  <2> QED BY <1>1, <1>2, <1>5, <2>2, Breaking
<1>6. CASE Show(p, [Seen(p) EXCEPT !.resumes = script[p].rows]) /\ Proceed(p, "search")
  <2> DEFINE v == [Seen(p) EXCEPT !.resumes = script[p].rows]
  <2>1. Looks(p, v) /\ v.notice = view[p].notice
    <3>1. Looks(p, Seen(p)) /\ Seen(p).notice = view[p].notice
      BY SeenLooks
    <3>2. script[p].rows \in SUBSET Nat
      BY PageType DEF PageInv, Script
    <3>3. /\ v \in View /\ v.documents = Seen(p).documents /\ v.resumes = script[p].rows
          /\ v.result = Seen(p).result /\ v.notice = Seen(p).notice
          /\ v.reached = Seen(p).reached
      BY <3>1, <3>2 DEF Looks, View
    <3> HIDE DEF v
    <3> QED BY <1>3, <3>1, <3>3 DEF Looks
  <2>2. Leads(p, StepFrom("search", script[p].do))
    BY StepsOn DEF Leads, PC, Doing, ToPost
  <2>3. Show(p, v) /\ Goto(p, StepFrom("search", script[p].do))
    BY <1>6 DEF Proceed
  <2> HIDE DEF v
  <2> QED BY <1>1, <1>2, <2>1, <2>2, <2>3, Going DEF Failed
<1> QED BY <1>4, <1>5, <1>6 DEF Download

LEMMA SearchKeeps == ASSUME PageInv, NEW p \in Page, Search(p) PROVE PageInv'
<1> DEFINE found == IF Served(p) THEN SearchEvidence(User(p)) ELSE {}
           v == [Seen(p) EXCEPT !.documents = Seen(p).documents \cup found]
<1>1. script[p].pc = "search" /\ script[p].pc # "idle"
  BY DEF Search, At
<1>2. found \subseteq {UserOf(script[p].key)} /\ found \subseteq UserId
  BY <1>1, ServedIs DEF SearchEvidence
<1>3. Looks(p, v) /\ v.notice = view[p].notice
  <2>1. Looks(p, Seen(p)) /\ Seen(p).notice = view[p].notice
    BY SeenLooks
  <2>2. /\ v \in View /\ v.documents = Seen(p).documents \cup found
        /\ v.resumes = Seen(p).resumes /\ v.result = Seen(p).result
        /\ v.notice = Seen(p).notice /\ v.reached = Seen(p).reached
    BY <1>2, <2>1 DEF Looks, View
  <2> HIDE DEF v
  <2> QED BY <1>2, <2>1, <2>2 DEF Looks
<1>4. Goto(p, "idle") /\ Show(p, v) /\ runs' = runs
  BY DEF Search
<1>5. Frame
  BY DEF Search, Frame, bounds, stores, PageInv, TypeInv, TypeOK
<1> HIDE DEF v
<1> QED BY <1>1, <1>3, <1>4, <1>5, EndLeads, Going DEF Failed

-----------------------------------------------------------------------------
\* The reader has a new interaction served next, and has typed perhaps.
LEMMA WantKeeps ==
    ASSUME PageInv, NEW p \in Page, wanted[p] = None, NEW do \in Doing,
           NEW asked \in Asked \cup {None}, NEW text \in Typed,
           clicks < MaxClicks, clicks' = clicks + 1,
           wanted' = [wanted EXCEPT ![p] = [do |-> do, click |-> clicks', asked |-> asked]],
           typed' = [typed EXCEPT ![p] = text],
           UNCHANGED <<script, view, clients, server, documents, jobs, resumes, runs>>
    PROVE  PageInv'
<1> DEFINE w == [do |-> do, click |-> clicks + 1, asked |-> asked]
<1>1. clicks + 1 \in 0 .. MaxClicks /\ clicks + 1 \in 1 .. clicks' /\ clicks \in Nat
  <2>1. clicks \in 0 .. MaxClicks
    BY DEF PageInv, TypeInv
  <2>2. MaxClicks \in Nat
    BY SessionsAssumption
  <2> QED BY <2>1, <2>2
<1>2. w \in Want /\ w # None /\ w.do = do /\ w.click = clicks + 1
  BY <1>1, NoneIsNoWant DEF Want
<1>3. wanted \in [Page -> Want \cup {None}] /\ typed \in [Page -> Typed]
  BY DEF PageInv, TypeInv, TypeOK
<1>4. wanted' = [wanted EXCEPT ![p] = w]
  OBVIOUS
<1> HIDE DEF w
<1>5. /\ \A q \in Page : wanted'[q] = IF q = p THEN w ELSE wanted[q]
      /\ \A q \in Page : typed'[q] = IF q = p THEN text ELSE typed[q]
      /\ wanted' \in [Page -> Want \cup {None}] /\ typed' \in [Page -> Typed]
  BY <1>2, <1>3, <1>4
<1>6. TypeInv'
  BY <1>1, <1>5 DEF PageInv, TypeInv, TypeOK, Want
<1>7. ClientInv'
  BY <1>2, <1>5 DEF PageInv, ClientInv
<1>8. StepInv'
  <2>1. \A q \in Page : wanted'[q] # None /\ wanted'[q].do \in Generates => wanted'[q].click > 0
    BY <1>1, <1>2, <1>5 DEF PageInv, StepInv
  <2> QED BY <2>1 DEF PageInv, StepInv
<1>9. ClickInv'
  <2>1. \A r \in runs \cup resumes : r.click \in 1 .. clicks' /\ r.click # clicks + 1
    BY <1>1 DEF PageInv, ClickInv
  <2>2. \A q \in Page : script[q].click <= clicks /\ script[q].click \in Nat
    BY PageType DEF PageInv, ClickInv, Script
  <2>3. \A q \in Page : wanted[q] # None => wanted[q].click <= clicks /\ wanted[q].click \in Nat
    BY <1>3 DEF PageInv, ClickInv, Want
  <2>4. \A q \in Page : script[q].click <= clicks' /\ script[q].click # clicks + 1
    BY <1>1, <2>2
  <2>5. ASSUME NEW q \in Page, wanted'[q] # None
        PROVE  /\ wanted'[q].click <= clicks'
               /\ \A r \in runs \cup resumes : r.click # wanted'[q].click
               /\ wanted'[q].click > 0 =>
                    \A o \in Page : /\ script[o].click # wanted'[q].click
                                    /\ o # q /\ wanted'[o] # None =>
                                          wanted'[o].click # wanted'[q].click
    <3>1. CASE q = p
      BY <1>1, <1>2, <1>5, <2>1, <2>3, <2>4, <3>1
    <3>2. CASE q # p
      <4>1. wanted'[q] = wanted[q] /\ wanted[q] # None
        BY <1>5, <2>5, <3>2
      <4>2. wanted[q].click <= clicks' /\ wanted[q].click # clicks + 1
        BY <1>1, <2>3, <4>1
      <4>3. /\ \A r \in runs \cup resumes : r.click # wanted[q].click
            /\ wanted[q].click > 0 =>
                 \A o \in Page : /\ script[o].click # wanted[q].click
                                 /\ o # q /\ wanted[o] # None => wanted[o].click # wanted[q].click
        BY <4>1 DEF PageInv, ClickInv
      <4> QED BY <1>2, <1>5, <4>1, <4>2, <4>3
    <3> QED BY <3>1, <3>2
  <2> QED BY <2>1, <2>4, <2>5 DEF PageInv, ClickInv
<1>10. PostInv' /\ ShowInv'
  <2>1. PostInv'
    BY DEF PageInv, PostInv
  <2>2. \A q \in Page : Failed(q)' <=> Failed(q)
    BY DEF Failed
  <2>3. \A q \in Page : \A click : /\ Mine(q, click)' <=> Mine(q, click)
                                   /\ MineWhole(q, click)' <=> MineWhole(q, click)
    BY DEF Mine, MineWhole
  <2> QED BY <2>1, <2>2, <2>3 DEF PageInv, ShowInv, NoneWhole
<1> QED BY <1>6, <1>7, <1>8, <1>9, <1>10 DEF PageInv

\* A new run of the script serves the interaction that waited, and starts with a blank
\* page and the client of the text in the field.
LEMMA BeginKeeps == ASSUME PageInv, NEW p \in Page, BeginScript(p) PROVE PageInv'
<1> DEFINE sent == typed[p] \notin Unsendable
           first == IF sent THEN StepFrom("upload", wanted[p].do) ELSE "idle"
           s == NewScript(p, first)
           v == IF sent THEN [Blank EXCEPT !.reached = server.up]
                        ELSE [Blank EXCEPT !.notice = "broken"]
<1>1. wanted[p] # None /\ wanted[p] \in Want /\ typed[p] \in Typed
  BY WantIsWant DEF BeginScript, PageInv, TypeInv, TypeOK
<1>2. /\ s.pc \in {"idle", "documents", wanted[p].do} \ Generates
      /\ s.pc \in Doing => s.pc = wanted[p].do
      /\ s.pc \notin {"post", "download", "waiting"}
      /\ s.do = wanted[p].do /\ s.click = wanted[p].click /\ s.key = typed[p]
      /\ s.rows = {} /\ s.answer = 0 /\ s.error = "none" /\ s.click \in Nat
      /\ s \in Script
  <2>1. first \in {"idle", "documents"} \/ (first = "upload" /\ wanted[p].do = "upload")
    BY StepsOn
  <2>2. /\ first \in PC /\ (first \in Doing => first = wanted[p].do)
        /\ first \in {"idle", "documents", wanted[p].do} \ Generates
        /\ first \notin {"post", "download", "waiting"}
    BY <2>1 DEF PC, Doing, Generates
  <2> HIDE DEF first
  <2> QED BY <1>1, <2>2 DEF NewScript, Script, Want, Notice
<1>3. /\ v \in View /\ v.documents = {} /\ v.resumes = {} /\ v.result = 0
      /\ v.notice \in {"none", "broken"}
      /\ v.notice = "broken" => typed[p] \in Unsendable
  BY DEF Blank, View, Notice, PageInv, TypeInv, TypeOK
<1>4. /\ script' = [script EXCEPT ![p] = s] /\ view' = [view EXCEPT ![p] = v]
      /\ wanted' = [wanted EXCEPT ![p] = None] /\ clients' = ClientsWith(typed[p])
      /\ UNCHANGED <<typed, server, documents, jobs, resumes, runs, clicks>>
  BY DEF BeginScript, stores, bounds
<1> HIDE DEF s, v, sent, first
<1>5. /\ script \in [Page -> Script] /\ view \in [Page -> View]
      /\ wanted \in [Page -> Want \cup {None}]
  BY DEF PageInv, TypeInv, TypeOK
<1>6. /\ \A q \in Page : script'[q] = IF q = p THEN s ELSE script[q]
      /\ \A q \in Page : view'[q] = IF q = p THEN v ELSE view[q]
      /\ \A q \in Page : wanted'[q] = IF q = p THEN None ELSE wanted[q]
      /\ script' \in [Page -> Script] /\ view' \in [Page -> View]
      /\ wanted' \in [Page -> Want \cup {None}]
  BY <1>2, <1>3, <1>4, <1>5
<1> DEFINE header == IF typed[p] = "" THEN None ELSE typed[p]
           client == [key |-> typed[p], header |-> header]
<1>7. /\ clients \subseteq clients' /\ \E c \in clients' : c.key = typed[p]
      /\ clients' \subseteq clients \cup {client}
  <2>1. client.key = typed[p]
    OBVIOUS
  <2>2. clients' = IF \E c \in clients : c.key = typed[p] THEN clients ELSE clients \cup {client}
    BY <1>4 DEF ClientsWith, ClientKey
  <2> HIDE DEF client
  <2> QED BY <2>1, <2>2
<1>8. TypeInv'
  <2>1. clients' \subseteq [key: Typed, header: Typed \cup {None}]
    <3>1. header \in Typed \cup {None}
      BY <1>1
    <3> HIDE DEF header
    <3>2. client \in [key: Typed, header: Typed \cup {None}]
      BY <1>1, <3>1
    <3> QED BY <1>7, <3>2 DEF PageInv, TypeInv, TypeOK
  <2>2. \A q \in Page : wanted'[q] # None =>
           wanted'[q] \in [do: Doing, click: 0 .. MaxClicks, asked: Asked \cup {None}]
    BY <1>6 DEF Want
  <2> QED BY <1>4, <1>6, <2>1, <2>2 DEF PageInv, TypeInv, TypeOK
<1>9. ClientInv'
  <2>1. \A c \in clients' : c.header = IF c.key = "" THEN None ELSE c.key
    <3>1. client.header = IF client.key = "" THEN None ELSE client.key
      OBVIOUS
    <3> HIDE DEF client
    <3> QED BY <1>7, <3>1 DEF PageInv, ClientInv
  <2>2. ASSUME NEW q \in Page, script'[q].pc # "idle"
        PROVE  \E c \in clients' : c.key = script'[q].key
    <3> HIDE DEF client
    <3>1. CASE q = p
      BY <1>2, <1>6, <1>7, <3>1
    <3>2. CASE q # p
      <4>1. PICK c \in clients : c.key = script[q].key
        BY <1>6, <2>2, <3>2 DEF PageInv, ClientInv
      <4> QED BY <1>6, <1>7, <3>2, <4>1
    <3> QED BY <3>1, <3>2
  <2>3. \A q \in Page : wanted'[q] = None => typed'[q] = script'[q].key
    BY <1>2, <1>4, <1>6 DEF PageInv, ClientInv
  <2> QED BY <2>1, <2>2, <2>3 DEF ClientInv
<1>10. StepInv'
  BY <1>1, <1>2, <1>6 DEF PageInv, StepInv, Doing
<1>11. ClickInv'
  BY <1>1, <1>2, <1>4, <1>6 DEF PageInv, ClickInv
<1>12. PostInv'
  <2>1. \A r \in runs \cup resumes : r.click # s.click
    BY <1>1, <1>2 DEF PageInv, ClickInv
  <2> QED BY <1>4, <1>6, <2>1 DEF PageInv, PostInv
<1>13. ShowInv'
  <2>1. ~Failed(p)'
    BY <1>2, <1>3, <1>6 DEF Failed
  <2>2. \A q \in Page : q # p => (Failed(q)' <=> Failed(q))
    BY <1>6 DEF Failed
  <2>3. \A q \in Page : \A click : q # p /\ Mine(q, click) => Mine(q, click)'
    BY <1>4, <1>6 DEF Mine
  <2>6. \A q \in Page : \A click : q # p /\ MineWhole(q, click) => MineWhole(q, click)'
    BY <1>4, <1>6 DEF MineWhole
  <2>4. ASSUME NEW q \in Page, q # p
        PROVE  /\ view'[q].documents \subseteq {UserOf(script'[q].key)}
               /\ \A click \in view'[q].resumes \cup script'[q].rows : Mine(q, click)'
               /\ \A click \in {view'[q].result, script'[q].answer} \ {0} : MineWhole(q, click)'
               /\ Failed(q)' =>
                     /\ script'[q].pc \notin ToPost(script'[q].do)
                     /\ \A r \in runs' : r.click # script'[q].click
                     /\ \A r \in resumes' : r.click = script'[q].click => ~r.evaluated
               /\ view'[q].notice = "broken" =>
                     ~view'[q].reached \/ script'[q].key \in Unsendable
               /\ script'[q].error # "broken"
    BY <1>4, <1>6, <2>2, <2>3, <2>4, <2>6 DEF PageInv, ShowInv, NoneWhole
  <2>5. /\ view'[p].documents \subseteq {UserOf(script'[p].key)}
        /\ view'[p].resumes \cup script'[p].rows = {}
        /\ {view'[p].result, script'[p].answer} \ {0} = {}
        /\ view'[p].notice = "broken" => script'[p].key \in Unsendable
        /\ script'[p].error # "broken"
    BY <1>2, <1>3, <1>6
  <2> QED BY <2>1, <2>4, <2>5 DEF ShowInv, NoneWhole
<1> QED BY <1>8, <1>9, <1>10, <1>11, <1>12, <1>13 DEF PageInv

-----------------------------------------------------------------------------
\* Every generation the server knows of after the step it knew of before, or its click
\* is newer than all; two are not of one click; and what was stored stays so.
RowsFollow ==
    /\ \A r \in runs' \cup resumes' :
          /\ r.click \in 1 .. clicks'
          /\ \/ r.click > clicks
             \/ \E x \in runs \cup resumes :
                   /\ x.click = r.click /\ x.user = r.user
                   /\ x \in resumes => r \in resumes' /\ r.evaluated = x.evaluated
    /\ \A r, x \in runs' \cup resumes' : r.click = x.click => r = x
    /\ runs' \cap resumes' = {}
    /\ \A r \in runs' : ~r.evaluated
    /\ \A x \in resumes : \E r \in resumes' :
          r.click = x.click /\ r.user = x.user /\ r.evaluated = x.evaluated

\* What the script of p, which waits, becomes when its request ends.
Answered(p, s) ==
    /\ script[p].pc = "waiting"
    /\ s \in Script
    /\ s.pc = "answered" /\ s.do = script[p].do /\ s.click = script[p].click
    /\ s.key = script[p].key /\ s.rows = script[p].rows
    /\ \/ s.answer \in {0, script[p].answer}
       \/ \E r \in resumes' : r.click = s.answer /\ r.user = UserOf(s.key) /\ r.evaluated
    /\ s.error \in {"none", "unreachable", "failed"}
    /\ s.error = "failed" => /\ \A r \in runs' : r.click # s.click
                             /\ \A r \in resumes' : r.click = s.click => ~r.evaluated

Answers ==
    /\ script' \in [Page -> Script]
    /\ \A p \in Page : script'[p] = script[p] \/ Answered(p, script'[p])

ServerTypes ==
    /\ server' \in [up: BOOLEAN, cap: Nat, conf: Conf]
    /\ documents' \subseteq UserId /\ jobs' \subseteq UserId
    /\ runs' \cup resumes' \subseteq Generation
    /\ ~server'.up => runs' = {}

\* A step of the server, or the end of a request that a page waits for.
LEMMA ServerKeeps ==
    ASSUME PageInv, UNCHANGED <<typed, wanted, view, clients>>, clicks' \in clicks .. MaxClicks,
           ServerTypes, RowsFollow, Answers
    PROVE  PageInv'
<1>1. \A p \in Page : script'[p].key = script[p].key /\ script'[p].click = script[p].click
  BY DEF Answers, Answered
<1>2. clicks \in Nat /\ clicks' \in 0 .. MaxClicks /\ clicks <= clicks'
  BY DEF PageInv, TypeInv
<1>3. \A p \in Page : \A click : /\ Mine(p, click) => Mine(p, click)'
                                 /\ MineWhole(p, click) => MineWhole(p, click)'
  BY <1>1 DEF Mine, MineWhole, RowsFollow
<1>4. \A p \in Page : script[p].click \in Nat /\ script[p].click <= clicks
  BY PageType DEF PageInv, ClickInv, Script
<1>5. \A p \in Page : wanted[p] # None => wanted[p].click \in Nat /\ wanted[p].click <= clicks
  BY WantIsWant DEF PageInv, ClickInv, Want
\* A generation of a script's click was known before.
<1>6. ASSUME NEW r \in runs' \cup resumes', r.click <= clicks
      PROVE  \E x \in runs \cup resumes :
                /\ x.click = r.click /\ x.user = r.user
                /\ x \in resumes => r \in resumes' /\ r.evaluated = x.evaluated
  BY <1>2, <1>6 DEF RowsFollow
<1>7. TypeInv'
  BY <1>2 DEF PageInv, TypeInv, TypeOK, ServerTypes, Answers
<1>8. ClientInv'
  <2>1. \A p \in Page : script'[p].pc # "idle" => script[p].pc # "idle"
    BY DEF Answers, Answered
  <2>2. ASSUME NEW p \in Page, script'[p].pc # "idle"
        PROVE  \E c \in clients : c.key = script'[p].key
    BY ZenonT(60), <1>1, <2>1, <2>2 DEF PageInv, ClientInv
  <2> QED BY <1>1, <2>2 DEF PageInv, ClientInv
<1>9. StepInv'
  <2>1. "answered" \notin Doing
    BY DEF Doing
  <2>2. \A p \in Page :
           /\ script'[p].do = script[p].do
           /\ script'[p].pc = script[p].pc \/ script'[p].pc = "answered"
    BY DEF Answers, Answered
  <2> QED BY <1>1, <2>1, <2>2 DEF PageInv, StepInv
<1>10. ClickInv'
  <2>1. ASSUME NEW p \in Page, wanted[p] # None
        PROVE  /\ wanted[p].click <= clicks'
               /\ \A r \in runs' \cup resumes' : r.click # wanted[p].click
    <3>1. ASSUME NEW r \in runs' \cup resumes', r.click = wanted[p].click PROVE FALSE
      <4>1. PICK x \in runs \cup resumes : x.click = r.click
        BY <1>5, <1>6, <2>1, <3>1
      <4> QED BY <2>1, <3>1, <4>1 DEF PageInv, ClickInv
    <3> QED BY <1>2, <1>5, <2>1, <3>1
  <2>2. \A p \in Page : script'[p].click <= clicks'
    BY <1>1, <1>2, <1>4
  <2>3. /\ \A r \in runs' \cup resumes' : r.click \in 1 .. clicks'
        /\ \A r, x \in runs' \cup resumes' : r.click = x.click => r = x
        /\ runs' \cap resumes' = {} /\ \A r \in runs' : ~r.evaluated
    BY DEF RowsFollow
  <2>4. /\ \A p, q \in Page : p # q /\ script[p].click > 0 => script[q].click # script[p].click
        /\ \A p \in Page : wanted[p] # None /\ wanted[p].click > 0 =>
              \A q \in Page : /\ script[q].click # wanted[p].click
                              /\ q # p /\ wanted[q] # None => wanted[q].click # wanted[p].click
    BY DEF PageInv, ClickInv
  <2> QED BY <1>1, <2>1, <2>2, <2>3, <2>4 DEF ClickInv
<1>11. PostInv'
  <2>1. ASSUME NEW p \in Page, NEW r \in runs' \cup resumes', r.click = script'[p].click
        PROVE  r.user = UserOf(script'[p].key) /\ script'[p].pc \notin ToPost(script'[p].do)
    <3>1. PICK x \in runs \cup resumes : x.click = r.click /\ x.user = r.user
      BY <1>1, <1>4, <1>6, <2>1
    <3>2. r.user = UserOf(script[p].key) /\ script[p].pc \notin ToPost(script[p].do)
      BY <1>1, <2>1, <3>1 DEF PageInv, PostInv
    <3>3. script'[p] = script[p] \/ script'[p].pc = "answered"
      BY DEF Answers, Answered
    <3> QED BY <1>1, <3>2, <3>3 DEF ToPost
  <2> QED BY <2>1 DEF PostInv
<1>12. ShowInv'
  <2>1. ASSUME NEW p \in Page, Failed(p)'
        PROVE  /\ script'[p].pc \notin ToPost(script'[p].do)
               /\ \A r \in runs' : r.click # script'[p].click
               /\ \A r \in resumes' : r.click = script'[p].click => ~r.evaluated
    <3>1. CASE Failed(p)
      <4>1. /\ script[p].pc \notin ToPost(script[p].do)
            /\ \A x \in runs : x.click # script[p].click
            /\ \A x \in resumes : x.click = script[p].click => ~x.evaluated
        BY <3>1 DEF PageInv, ShowInv, NoneWhole
      <4>3. \A r \in runs' \cup resumes' : r.click = script[p].click =>
               r \in resumes' /\ ~r.evaluated
        BY <1>4, <1>6, <4>1
      <4>4. runs' \cap resumes' = {}
        BY DEF RowsFollow
      <4>2. script'[p] = script[p] \/ script'[p].pc = "answered"
        BY DEF Answers, Answered
      <4> QED BY <1>1, <4>1, <4>2, <4>3, <4>4 DEF ToPost
    <3>2. CASE ~Failed(p)
      <4>1. Answered(p, script'[p]) /\ script'[p].error = "failed"
        BY <2>1, <3>2 DEF Failed, Answers
      <4> QED BY <4>1 DEF Answered, ToPost
    <3> QED BY <3>1, <3>2
  <2>2. ASSUME NEW p \in Page
        PROVE  /\ \A click \in view'[p].resumes \cup script'[p].rows : Mine(p, click)'
               /\ \A click \in {view'[p].result, script'[p].answer} \ {0} : MineWhole(p, click)'
               /\ script'[p].error # "broken"
    <3>1. \A click \in view[p].resumes \cup script[p].rows : Mine(p, click)'
      BY <1>3 DEF PageInv, ShowInv
    <3>2. \A click \in {view[p].result, script[p].answer} \ {0} : MineWhole(p, click)'
      BY <1>3 DEF PageInv, ShowInv
    <3>3. script'[p].rows = script[p].rows
      BY DEF Answers, Answered
    <3>4. ASSUME NEW click, click = script'[p].answer, click \notin {0, script[p].answer}
          PROVE  MineWhole(p, click)'
      <4>1. Answered(p, script'[p])
        BY <3>4 DEF Answers
      <4>2. PICK r \in resumes' :
               r.click = click /\ r.user = UserOf(script'[p].key) /\ r.evaluated
        BY <3>4, <4>1 DEF Answered
      <4> QED BY <4>2 DEF MineWhole
    <3>5. script'[p].error # "broken"
      BY DEF Answers, Answered, PageInv, ShowInv
    <3> QED BY <3>1, <3>2, <3>3, <3>4, <3>5
  <2>3. \A p \in Page : /\ view'[p].documents \subseteq {UserOf(script'[p].key)}
                        /\ view'[p].notice = "broken" =>
                              ~view'[p].reached \/ script'[p].key \in Unsendable
    BY <1>1 DEF PageInv, ShowInv
  <2> QED BY <2>1, <2>2, <2>3 DEF ShowInv, NoneWhole
<1> QED BY <1>7, <1>8, <1>9, <1>10, <1>11, <1>12 DEF PageInv

\* What a step that neither starts, ends nor changes a generation leaves.
LEMMA SameRows == ASSUME PageInv, UNCHANGED <<runs, resumes, clicks>> PROVE RowsFollow
BY DEF RowsFollow, PageInv, ClickInv

LEMMA SameScripts == ASSUME PageInv, UNCHANGED script PROVE Answers
BY DEF Answers, PageInv, TypeInv, TypeOK

LEMMA SameClicks == ASSUME PageInv, UNCHANGED clicks PROVE clicks' \in clicks .. MaxClicks
<1>1. MaxClicks \in Nat
  BY SessionsAssumption
<1>2. clicks \in 0 .. MaxClicks
  BY DEF PageInv, TypeInv
<1> QED BY <1>1, <1>2

LEMMA TimeoutKeeps == ASSUME PageInv, NEW p \in Page, Timeout(p) PROVE PageInv'
<1> DEFINE s == [script[p] EXCEPT !.pc = "answered", !.error = "unreachable"]
<1>1. script \in [Page -> Script] /\ script[p] \in Script
  BY DEF PageInv, TypeInv, TypeOK
<1>2. /\ s \in Script /\ s.pc = "answered" /\ s.do = script[p].do /\ s.click = script[p].click
      /\ s.key = script[p].key /\ s.rows = script[p].rows /\ s.answer = script[p].answer
      /\ s.error = "unreachable"
  BY <1>1 DEF Script, PC, Notice
<1>3. script' = [script EXCEPT ![p] = s] /\ script[p].pc = "waiting"
  BY <1>1 DEF Timeout
<1> HIDE DEF s
<1>4. Answered(p, s)
  BY <1>2, <1>3 DEF Answered
<1>5. Answers
  BY <1>1, <1>2, <1>3, <1>4 DEF Answers
<1>6. /\ UNCHANGED <<typed, wanted, view, clients, server, documents, jobs, resumes, runs, clicks>>
  BY DEF Timeout, stores, bounds
<1>7. ServerTypes
  BY <1>6 DEF ServerTypes, PageInv, TypeInv, TypeOK
<1> QED BY <1>5, <1>6, <1>7, SameRows, SameClicks, ServerKeeps

\* A generation that ends is answered to the page that waits for it.
LEMMA AnswerIs ==
    ASSUME PageInv, NEW r \in runs, NEW answer, NEW error, AnswerTo(r, answer, error),
           RowsFollow, answer \in {0, r.click}, error \in {"none", "failed"},
           answer = r.click =>
              \E x \in resumes' : x.click = r.click /\ x.user = r.user /\ x.evaluated,
           error = "failed" => /\ \A x \in runs' : x.click # r.click
                               /\ \A x \in resumes' : x.click = r.click => ~x.evaluated
    PROVE  Answers
<1>1. r.click \in Nat
  BY DEF PageInv, TypeInv, TypeOK, Generation
<1>2. ASSUME NEW p \in Page, r.page = p, script[p].pc = "waiting", script[p].click = r.click
      PROVE  Answered(p, [script[p] EXCEPT !.pc = "answered", !.answer = answer, !.error = error])
  <2> DEFINE s == [script[p] EXCEPT !.pc = "answered", !.answer = answer, !.error = error]
  <2>1. script[p] \in Script
    BY DEF PageInv, TypeInv, TypeOK
  <2>2. /\ s \in Script /\ s.pc = "answered" /\ s.do = script[p].do
        /\ s.click = script[p].click /\ s.key = script[p].key /\ s.rows = script[p].rows
        /\ s.answer = answer /\ s.error = error
    <3>1. answer \in Nat /\ error \in Notice
      BY <1>1 DEF Notice
    <3> QED BY <2>1, <3>1 DEF Script, PC
  <2> HIDE DEF s
  <2>3. r.user = UserOf(script[p].key)
    BY <1>2 DEF PageInv, PostInv
  <2>4. Answered(p, s)
    BY <1>2, <2>2, <2>3 DEF Answered
  <2> QED BY <2>4 DEF s
<1>3. script \in [Page -> Script]
  BY DEF PageInv, TypeInv, TypeOK
<1>4. \A p \in Page : script'[p] =
         IF r.page = p /\ script[p].pc = "waiting" /\ script[p].click = r.click
         THEN [script[p] EXCEPT !.pc = "answered", !.answer = answer, !.error = error]
         ELSE script[p]
  BY DEF AnswerTo
<1>5. \A p \in Page : script'[p] = script[p] \/ Answered(p, script'[p])
  BY <1>2, <1>4
<1>6. \A p \in Page : script'[p] \in Script
  BY <1>3, <1>5 DEF Answered
<1>7. script' \in [Page -> Script]
  BY <1>6 DEF AnswerTo
<1> QED BY <1>5, <1>7 DEF Answers

\* The row that an evaluation makes of a generation.
LEMMA EvaluatedIs ==
    ASSUME NEW r \in Generation
    PROVE  /\ Evaluated(r) \in Generation /\ Evaluated(r).evaluated
           /\ Evaluated(r).click = r.click /\ Evaluated(r).user = r.user
BY DEF Generation, Evaluated

\* No generation under way has an evaluation yet.
LEMMA FreshRuns == ASSUME PageInv, NEW r \in runs PROVE r \in Generation /\ ~r.evaluated
BY DEF PageInv, TypeInv, TypeOK, ClickInv

LEMMA FinishKeeps == ASSUME PageInv, NEW r \in runs, FinishRun(r) PROVE PageInv'
<1> DEFINE e == Evaluated(r)
<1>1. /\ runs' = runs \ {r} /\ resumes' = resumes \cup {e} /\ AnswerTo(r, r.click, "none")
      /\ UNCHANGED <<typed, wanted, view, clients, server, documents, jobs, clicks>>
  BY DEF FinishRun, bounds
<1>2. e \in Generation /\ e.evaluated /\ e.click = r.click /\ e.user = r.user
  BY FreshRuns, EvaluatedIs
<1> HIDE DEF e
<1>3. RowsFollow
  BY <1>1, <1>2 DEF RowsFollow, PageInv, ClickInv
<1>4. Answers
  BY <1>1, <1>2, <1>3, AnswerIs
<1>5. ServerTypes
  BY <1>1, <1>2 DEF ServerTypes, PageInv, TypeInv, TypeOK
<1> QED BY <1>1, <1>3, <1>4, <1>5, SameClicks, ServerKeeps

\* Its click is no other generation's: none of the click is left, or the bare resume.
LEMMA FailKeeps == ASSUME PageInv, NEW r \in runs, FailRun(r) PROVE PageInv'
<1>1. PICK left \in {{}, {r}} :
      /\ runs' = runs \ {r} /\ resumes' = resumes \cup left /\ AnswerTo(r, 0, "failed")
      /\ UNCHANGED <<typed, wanted, view, clients, server, documents, jobs, clicks>>
  BY DEF FailRun, bounds
<1>2. r \in Generation /\ ~r.evaluated
  BY FreshRuns
<1>3. RowsFollow
  BY <1>1 DEF RowsFollow, PageInv, ClickInv
<1>4. /\ \A x \in runs' : x.click # r.click
      /\ \A x \in resumes' : x.click = r.click => ~x.evaluated
  BY <1>1, <1>2 DEF PageInv, ClickInv
<1>5. r.click # 0
  BY DEF PageInv, ClickInv
<1>6. Answers
  BY <1>1, <1>3, <1>4, <1>5, AnswerIs
<1>7. ServerTypes
  BY <1>1, <1>2 DEF ServerTypes, PageInv, TypeInv, TypeOK
<1> QED BY <1>1, <1>3, <1>6, <1>7, SameClicks, ServerKeeps

\* Another client's generation has a click that is newer than all.
LEMMA ApiGenerateKeeps == ASSUME PageInv, NEW u \in UserId, ApiGenerate(u) PROVE PageInv'
<1> DEFINE r == [click |-> clicks + 1, page |-> None, user |-> u, job |-> "none",
                 asked |-> None, cap |-> CapOf(None), conf |-> server.conf,
                 evaluated |-> FALSE]
<1>1. /\ clicks' = clicks + 1 /\ clicks < MaxClicks /\ server.up
      /\ UNCHANGED <<typed, wanted, script, view, clients, server, documents, jobs, resumes>>
  BY DEF ApiGenerate, page, stores
<1>2. runs' = runs \cup {r}
  BY <1>1 DEF ApiGenerate, StartRun
<1>3. clicks \in 0 .. MaxClicks /\ MaxClicks \in Nat
  BY SessionsAssumption DEF PageInv, TypeInv
<1>4. clicks + 1 \in Nat /\ clicks' \in clicks .. MaxClicks
  BY <1>1, <1>3
<1>5. r \in Generation /\ r.click = clicks + 1 /\ ~r.evaluated
  <2>1. CapOf(None) \in Nat
    BY CapIsNat DEF PageInv
  <2>2. server.conf \in Conf
    BY DEF PageInv, TypeInv, TypeOK
  <2> QED BY <1>4, <2>1, <2>2 DEF Generation
<1> HIDE DEF r
<1>6. RowsFollow
  <2>1. \A x \in runs \cup resumes : x.click \in 1 .. clicks
    BY DEF PageInv, ClickInv
  <2>2. \A x, y \in runs \cup resumes : x.click = y.click => x = y
    BY DEF PageInv, ClickInv
  <2>3. \A x \in runs \cup resumes : x.click # r.click /\ x.click \in 1 .. clicks'
    BY <1>1, <1>3, <1>5, <2>1
  <2>4. r.click \in 1 .. clicks' /\ r.click > clicks
    BY <1>1, <1>3, <1>5
  <2>5. runs \cap resumes = {} /\ \A x \in runs : ~x.evaluated
    BY DEF PageInv, ClickInv
  <2> QED BY <1>1, <1>2, <1>5, <2>2, <2>3, <2>4, <2>5 DEF RowsFollow
<1>7. ServerTypes
  BY <1>1, <1>2, <1>5 DEF ServerTypes, PageInv, TypeInv, TypeOK
<1> QED BY <1>1, <1>4, <1>6, <1>7, SameScripts, ServerKeeps

\* A deleted job changes rows in their job alone.
LEMMA ApiDeleteJobKeeps == ASSUME PageInv, NEW u \in UserId, ApiDeleteJob(u) PROVE PageInv'
<1> DEFINE After(x) == IF x.user = u /\ x.job = "here" THEN [x EXCEPT !.job = "gone"] ELSE x
<1>1. /\ clicks' = clicks + 1 /\ clicks < MaxClicks /\ jobs' \subseteq jobs
      /\ UNCHANGED <<typed, wanted, script, view, clients, server, documents>>
      /\ server.up
  BY DEF ApiDeleteJob, page
<1>2. /\ runs' = {After(x) : x \in runs} /\ resumes' = {After(x) : x \in resumes}
  BY DEF ApiDeleteJob, DetachResumes, WithoutJob
<1>3. \A x \in Generation : /\ After(x) \in Generation
                            /\ After(x).click = x.click /\ After(x).user = x.user
                            /\ After(x).evaluated = x.evaluated
  <2>1. SUFFICES ASSUME NEW x \in Generation
                 PROVE  LET gone == [x EXCEPT !.job = "gone"]
                        IN  /\ gone \in Generation /\ gone.click = x.click
                            /\ gone.user = x.user /\ gone.evaluated = x.evaluated
    BY <2>1
  <2> QED BY DEF Generation
<1>4. runs \cup resumes \subseteq Generation
  BY DEF PageInv, TypeInv, TypeOK
<1> HIDE DEF After
<1>5. clicks \in 0 .. MaxClicks /\ MaxClicks \in Nat
  BY SessionsAssumption DEF PageInv, TypeInv
<1>6. clicks' \in clicks .. MaxClicks
  BY <1>1, <1>5
<1>7. RowsFollow
  <2>1. ASSUME NEW r \in runs' \cup resumes'
        PROVE  \E x \in runs \cup resumes :
                  /\ r = After(x) /\ x.click = r.click /\ x.user = r.user
                  /\ r \in runs' => \E y \in runs : r = After(y)
                  /\ r \in resumes' => \E y \in resumes : r = After(y)
    BY <1>2, <1>3, <1>4
  <2>2. \A x \in runs \cup resumes : x.click \in 1 .. clicks
    BY DEF PageInv, ClickInv
  <2>3. \A x, y \in runs \cup resumes : x.click = y.click => x = y
    BY DEF PageInv, ClickInv
  <2>4. runs \cap resumes = {}
    BY DEF PageInv, ClickInv
  <2>5. \A r \in runs' \cup resumes' : r.click \in 1 .. clicks'
    BY <1>1, <1>5, <2>1, <2>2
  <2>6. \A r, x \in runs' \cup resumes' : r.click = x.click => r = x
    BY <2>1, <2>3
  <2>7. runs' \cap resumes' = {}
    <3>1. SUFFICES ASSUME NEW r \in runs' \cap resumes' PROVE FALSE
      BY <3>1
    <3>2. PICK x \in runs, y \in resumes : r = After(x) /\ r = After(y)
      BY <1>2
    <3>3. x \in Generation /\ y \in Generation
      BY <1>4
    <3>4. After(x).click = x.click /\ After(y).click = y.click
      BY <1>3, <3>3
    <3>5. x.click = y.click
      BY <3>2, <3>4
    <3> QED BY <2>3, <2>4, <3>5
  <2>8. \A x \in resumes : \E r \in resumes' :
           r.click = x.click /\ r.user = x.user /\ r.evaluated = x.evaluated
    BY <1>2, <1>3, <1>4
  <2>9. \A r \in runs' : ~r.evaluated
    BY <1>2, <1>3, <1>4 DEF PageInv, ClickInv
  <2>10. ASSUME NEW r \in runs' \cup resumes'
         PROVE  \E x \in runs \cup resumes :
                   /\ x.click = r.click /\ x.user = r.user
                   /\ x \in resumes => r \in resumes' /\ r.evaluated = x.evaluated
    <3>1. PICK x \in runs \cup resumes : r = After(x) /\ x.click = r.click /\ x.user = r.user
      BY <2>1
    <3>2. x \in resumes => r \in resumes'
      BY <1>2, <3>1
    <3>3. r.evaluated = x.evaluated
      BY <1>3, <1>4, <3>1
    <3> QED BY <3>1, <3>2, <3>3
  <2> QED BY <2>5, <2>6, <2>7, <2>8, <2>9, <2>10 DEF RowsFollow
<1>8. ServerTypes
  <2>1. runs' \cup resumes' \subseteq Generation
    BY <1>2, <1>3, <1>4
  <2> QED BY <1>1, <2>1 DEF ServerTypes, PageInv, TypeInv, TypeOK
<1> QED BY <1>1, <1>6, <1>7, <1>8, SameScripts, ServerKeeps

LEMMA BootKeeps == ASSUME PageInv, conf \in Conf, Boot PROVE PageInv'
<1>1. /\ server' = Serving(conf) /\ server'.up
      /\ UNCHANGED <<typed, wanted, script, view, clients, documents, jobs, resumes, runs, clicks>>
  BY DEF Boot, Serving, page, stores, bounds
<1>2. Serving(conf) \in [up: BOOLEAN, cap: Nat, conf: Conf]
  BY ServingType
<1>3. ServerTypes
  BY <1>1, <1>2 DEF ServerTypes, PageInv, TypeInv, TypeOK
<1> QED BY <1>1, <1>3, SameRows, SameScripts, SameClicks, ServerKeeps

LEMMA KillKeeps == ASSUME PageInv, Kill PROVE PageInv'
<1>1. /\ server' = [server EXCEPT !.up = FALSE] /\ runs' = {}
      /\ UNCHANGED <<typed, wanted, view, clients, documents, jobs, clicks>>
      /\ script' = [p \in Page |-> IF script[p].pc = "waiting"
                                   THEN [script[p] EXCEPT !.pc = "answered", !.error = "unreachable"]
                                   ELSE script[p]]
  BY DEF Kill
<1>2. script \in [Page -> Script]
  BY DEF PageInv, TypeInv, TypeOK
<1>3. ASSUME NEW p \in Page, script[p].pc = "waiting"
      PROVE  Answered(p, [script[p] EXCEPT !.pc = "answered", !.error = "unreachable"])
  <2> DEFINE s == [script[p] EXCEPT !.pc = "answered", !.error = "unreachable"]
  <2>1. /\ s \in Script /\ s.pc = "answered" /\ s.do = script[p].do
        /\ s.click = script[p].click /\ s.key = script[p].key /\ s.rows = script[p].rows
        /\ s.answer = script[p].answer /\ s.error = "unreachable"
    BY ZenonT(60), <1>2 DEF Script, PC, Notice
  <2> HIDE DEF s
  <2>2. Answered(p, s)
    BY <1>3, <2>1 DEF Answered
  <2> QED BY <2>2 DEF s
<1>4. Answers
  <2>1. \A p \in Page : script'[p] = script[p] \/ Answered(p, script'[p])
    BY <1>1, <1>3
  <2>2. \A p \in Page : script'[p] \in Script
    BY <1>2, <2>1 DEF Answered
  <2>3. script' \in [Page -> Script]
    BY <1>1, <2>2
  <2> QED BY <2>1, <2>3 DEF Answers
<1>5. PICK stored \in SUBSET runs, whole \in SUBSET runs :
         /\ whole \subseteq stored
         /\ resumes' = resumes \cup (stored \ whole) \cup {Evaluated(r) : r \in whole}
  BY DEF Kill
<1>6. \A r \in runs : /\ Evaluated(r) \in Generation
                     /\ Evaluated(r).click = r.click /\ Evaluated(r).user = r.user
  BY FreshRuns, EvaluatedIs
<1>7. ASSUME NEW r \in resumes' \ resumes
      PROVE  r \in Generation /\ \E x \in stored : /\ x.click = r.click /\ x.user = r.user
                                                /\ r = IF x \in whole THEN Evaluated(x) ELSE x
  <2>1. CASE r \in stored \ whole
    BY <2>1, FreshRuns
  <2>2. CASE \E x \in whole : r = Evaluated(x)
    BY <1>5, <1>6, <2>2
  <2> QED BY <1>5, <1>7, <2>1, <2>2
<1>8. RowsFollow
  <2>1. /\ \A r, x \in runs \cup resumes : r.click = x.click => r = x
        /\ \A r \in runs \cup resumes : r.click \in 1 .. clicks
        /\ runs \cap resumes = {}
    BY DEF PageInv, ClickInv
  <2>2. ASSUME NEW r \in resumes', NEW x \in resumes', r.click = x.click
        PROVE  r = x
    <3>1. CASE r \in resumes /\ x \in resumes
      BY <2>1, <2>2, <3>1
    <3>2. ASSUME NEW a \in resumes, NEW z \in resumes' \ resumes, a.click = z.click
          PROVE  FALSE
      BY <1>7, <2>1, <3>2
    <3>3. CASE r \notin resumes /\ x \notin resumes
      <4>1. PICK y \in stored : y.click = r.click
                               /\ r = IF y \in whole THEN Evaluated(y) ELSE y
        BY <1>7, <3>3
      <4>2. PICK z \in stored : z.click = x.click
                               /\ x = IF z \in whole THEN Evaluated(z) ELSE z
        BY <1>7, <3>3
      <4>3. y = z
        BY <2>1, <2>2, <4>1, <4>2
      <4> QED BY <4>1, <4>2, <4>3
    <3> QED BY <2>2, <3>1, <3>2, <3>3
  <2>3. ASSUME NEW r \in resumes'
        PROVE  /\ r.click \in 1 .. clicks
               /\ \E x \in runs \cup resumes :
                     /\ x.click = r.click /\ x.user = r.user
                     /\ x \in resumes => r.evaluated = x.evaluated
    <3>1. CASE r \in resumes
      BY <2>1, <3>1
    <3>2. CASE r \notin resumes
      <4>1. PICK x \in stored : x.click = r.click /\ x.user = r.user
        BY <1>7, <3>2
      <4>2. x \notin resumes
        BY <2>1
      <4> QED BY <2>1, <4>1, <4>2
    <3> QED BY <3>1, <3>2
  <2>4. resumes \subseteq resumes'
    BY <1>5
  <2> QED BY <1>1, <2>2, <2>3, <2>4 DEF RowsFollow
<1>9. ServerTypes
  <2>1. server' \in [up: BOOLEAN, cap: Nat, conf: Conf]
    BY <1>1 DEF PageInv, TypeInv, TypeOK
  <2>2. resumes' \subseteq Generation
    BY <1>7 DEF PageInv, TypeInv, TypeOK
  <2> QED BY <1>1, <2>1, <2>2 DEF ServerTypes, PageInv, TypeInv, TypeOK
<1> QED BY <1>1, <1>4, <1>8, <1>9, SameClicks, ServerKeeps

-----------------------------------------------------------------------------
LEMMA ScriptStepKeeps == ASSUME PageInv, NEW p \in Page, ScriptStep(p) PROVE PageInv'
BY BeginKeeps, UploadKeeps, ListDocumentsKeeps, DeleteDocumentKeeps, GenerateKeeps,
   CreateJobKeeps, ListJobsKeeps, JobUploadKeeps, GenerateForJobKeeps, PostKeeps, ReceiveKeeps,
   ListResumesKeeps, DownloadKeeps, SearchKeeps, TimeoutKeeps
DEF ScriptStep

\* A step after which pages, rows and counted interactions are as they were.
LEMMA StillKeeps ==
    ASSUME PageInv, UNCHANGED <<page, server, documents, jobs, resumes, runs, clicks>>
    PROVE  PageInv'
<1>1. ServerTypes
  BY DEF ServerTypes, PageInv, TypeInv, TypeOK
<1> QED BY <1>1, SameRows, SameScripts, SameClicks, ServerKeeps DEF page

LEMMA PageNextKeeps ==
    ASSUME PageInv, conf \in Conf, [Next]_vars
    PROVE  PageInv' /\ conf' \in Conf
<1>1. conf' \in Conf
  BY ZenonT(60) DEF Next, vars, ScriptStep, BeginScript, Upload, ListDocuments, DeleteDocument, Generate,
         LookFirst, CreateJob, ListJobs, JobUpload, GenerateForJob, PostGeneration, Receive, ListResumes, Download, Search,
         Timeout, Click, Type, FinishRun, FailRun, ApiGenerate, ApiDeleteJob, Boot, Kill, EditConf
<1>2. CASE UNCHANGED vars
  BY <1>2, StillKeeps DEF vars, stores, bounds
<1>3. ASSUME NEW p \in Page, ScriptStep(p) PROVE PageInv'
  BY <1>3, ScriptStepKeeps
<1>4. ASSUME NEW p \in Page, NEW do \in Doing, NEW n \in Asked \cup {None}, Click(p, do, n)
      PROVE  PageInv'
  <2>1. typed[p] \in Typed /\ typed' = [typed EXCEPT ![p] = typed[p]]
    BY <1>4 DEF Click, PageInv, TypeInv, TypeOK
  <2> QED BY <1>4, <2>1, WantKeeps DEF Click, stores
<1>5. ASSUME NEW p \in Page, NEW text \in Typed, Type(p, text) PROVE PageInv'
  BY <1>5, WantKeeps DEF Type, stores, Doing
<1>6. ASSUME NEW r \in runs, FinishRun(r) PROVE PageInv'
  BY <1>6, FinishKeeps
<1>7. ASSUME NEW r \in runs, FailRun(r) PROVE PageInv'
  BY <1>7, FailKeeps
<1>8. ASSUME NEW u \in UserId, ApiGenerate(u) PROVE PageInv'
  BY <1>8, ApiGenerateKeeps
<1>9. ASSUME NEW u \in UserId, ApiDeleteJob(u) PROVE PageInv'
  BY <1>9, ApiDeleteJobKeeps
<1>10. CASE Boot
  BY <1>1, <1>10, BootKeeps
<1>11. CASE Kill
  BY <1>1, <1>11, KillKeeps
<1>12. ASSUME NEW c \in Conf, EditConf(c) PROVE PageInv'
  BY <1>12, StillKeeps DEF EditConf, stores
<1> QED BY <1>1, <1>2, <1>3, <1>4, <1>5, <1>6, <1>7, <1>8, <1>9, <1>10, <1>11, <1>12 DEF Next

LEMMA PageInit == Init => PageInv /\ conf \in Conf
<1> SUFFICES ASSUME Init PROVE PageInv /\ conf \in Conf
  OBVIOUS
<1> DEFINE w == [do |-> "look", click |-> 0, asked |-> None]
           s == [pc |-> "idle", do |-> "look", click |-> 0, asked |-> None, key |-> "",
                 rows |-> {}, answer |-> 0, error |-> "none"]
<1>1. 0 \in 0 .. MaxClicks /\ "" \in Typed
  <2>1. MaxClicks \in Nat
    BY SessionsAssumption
  <2>2. 0 \in 0 .. MaxClicks
    BY <2>1
  <2> QED BY <2>2, SessionsAssumption
<1>2. w \in Want /\ w.do = "look" /\ w.click = 0
  BY <1>1 DEF Want, Doing
<1>3. /\ s \in Script /\ s.pc = "idle" /\ s.do = "look" /\ s.click = 0 /\ s.key = ""
      /\ s.rows = {} /\ s.answer = 0 /\ s.error = "none"
  BY <1>1 DEF Script, PC, Doing, Notice
<1>4. /\ Blank \in View /\ Blank.documents = {} /\ Blank.resumes = {} /\ Blank.result = 0
      /\ Blank.notice = "none"
  BY DEF Blank, View, Notice
<1>5. wanted = [p \in Page |-> w] /\ script = [p \in Page |-> s]
  BY DEF Init
<1> HIDE DEF w, s
<1>6. /\ \A p \in Page : wanted[p] = w /\ script[p] = s /\ view[p] = Blank /\ typed[p] = ""
      /\ clients = {} /\ runs = {} /\ resumes = {} /\ clicks = 0 /\ conf \in Conf
      /\ documents \subseteq UserId /\ jobs \subseteq UserId
  BY <1>5 DEF Init
<1>7. TypeInv
  <2>1. /\ wanted \in [Page -> Want \cup {None}] /\ script \in [Page -> Script]
        /\ view \in [Page -> View] /\ typed \in [Page -> Typed]
    BY <1>1, <1>2, <1>3, <1>4, <1>5 DEF Init
  <2>2. server \in [up: BOOLEAN, cap: Nat, conf: Conf]
    BY SessionsAssumption DEF Init
  <2> QED BY <1>1, <1>6, <2>1, <2>2 DEF TypeInv, TypeOK, Want
<1>8. ClientInv
  <2>1. \A p \in Page : wanted[p] # None
    BY <1>2, <1>6, NoneIsNoWant
  <2> QED BY <1>3, <1>6, <2>1 DEF ClientInv
<1>9. StepInv
  BY <1>2, <1>3, <1>6 DEF StepInv, Doing, Generates
<1>10. ClickInv /\ PostInv
  <2>1. runs \cup resumes = {} /\ runs \cap resumes = {}
    BY <1>6
  <2>2. \A p \in Page : script[p].click = 0 /\ wanted[p].click = 0
    BY <1>2, <1>3, <1>6
  <2>3. clicks = 0
    BY <1>6
  <2>4. ClickInv
    BY <2>1, <2>2, <2>3 DEF ClickInv
  <2>5. PostInv
    BY <2>1 DEF PostInv
  <2> QED BY <2>4, <2>5
<1>11. ShowInv
  <2>1. \A p \in Page : ~Failed(p)
    BY <1>3, <1>4, <1>6 DEF Failed
  <2> QED BY <1>3, <1>4, <1>6, <2>1 DEF ShowInv
<1> QED BY <1>6, <1>7, <1>8, <1>9, <1>10, <1>11 DEF PageInv

-----------------------------------------------------------------------------
\* Every page, its client, its clicks and what it shows are related as PageInv says,
\* however many pages there are (streamlit_app.py, api_client.py, server.py).
THEOREM PagesKept == Spec => []PageInv
<1>1. Init => PageInv /\ conf \in Conf
  BY PageInit
<1>2. (PageInv /\ conf \in Conf) /\ [Next]_vars => (PageInv /\ conf \in Conf)'
  BY PageNextKeeps
<1> QED BY <1>1, <1>2, PTL DEF Spec

\* Every variable has its type.
THEOREM TypeCorrect == Spec => []TypeOK
<1>1. PageInv => TypeOK
  BY DEF PageInv, TypeInv
<1> QED BY <1>1, PagesKept, PTL

\* A generation of a page's user is of that user alone.
LEMMA OwnerIs ==
    ASSUME PageInv, NEW p \in Page, NEW click, Mine(p, click)
    PROVE  OwnerOf(click) = {UserOf(script[p].key)}
BY DEF PageInv, ClickInv, Mine, OwnerOf

\* A page at rest shows the documents, the resumes and the result of the user that its
\* sidebar names, and of nobody else (_client keeps one client per user id).
THEOREM ShownIsOwn == Spec => []ShownBelongsToUser
<1>1. PageInv => ShownBelongsToUser
  <2> SUFFICES ASSUME PageInv, NEW p \in Page, Rested(p)
               PROVE  LET u == UserOf(typed[p])
                      IN  /\ view[p].documents \subseteq {u}
                          /\ \A click \in view[p].resumes \cup ({view[p].result} \ {0}) :
                                OwnerOf(click) = {u}
    BY DEF ShownBelongsToUser, UserOf
  <2>1. typed[p] = script[p].key
    BY DEF Rested, PageInv, ClientInv
  <2>2. view[p].documents \subseteq {UserOf(script[p].key)}
    BY DEF PageInv, ShowInv
  <2>3. \A click \in view[p].resumes \cup ({view[p].result} \ {0}) : Mine(p, click)
    BY DEF PageInv, ShowInv, Mine, MineWhole
  <2> QED BY <2>1, <2>2, <2>3, OwnerIs
<1> QED BY <1>1, PagesKept, PTL

\* What a page says of a generation is so: a result is stored with its evaluation, a failed
\* one is not, and a traceback means that the server was out of reach or that the user id
\* fits in no header (_render_generate_tab, _render_jobs_tab, main, _persist).
THEOREM AnswersTrue == Spec => []AnswerMeansWhatItSays
<1>1. PageInv => AnswerMeansWhatItSays
  <2> SUFFICES ASSUME PageInv, NEW p \in Page
               PROVE  /\ view[p].result # 0 => StoredWhole(view[p].result)
                      /\ view[p].notice = "failed" => ~StoredWhole(script[p].click)
                      /\ view[p].notice = "broken" =>
                            ~view[p].reached \/ script[p].key \in Unsendable
    BY DEF AnswerMeansWhatItSays
  <2>1. view[p].result # 0 => StoredWhole(view[p].result)
    BY DEF PageInv, ShowInv, MineWhole, StoredWhole
  <2>2. view[p].notice = "failed" => ~StoredWhole(script[p].click)
    BY DEF PageInv, ShowInv, Failed, NoneWhole, StoredWhole
  <2>3. view[p].notice = "broken" => ~view[p].reached \/ script[p].key \in Unsendable
    BY DEF PageInv, ShowInv
  <2> QED BY <2>1, <2>2, <2>3
<1> QED BY <1>1, PagesKept, PTL

\* A click makes one generation at most, through timeouts, reruns, abandoned scripts and
\* deaths of the server, for any number of pages.
THEOREM OneEach == Spec => []OneGenerationPerClick
<1>1. PageInv => OneGenerationPerClick
  BY DEF PageInv, ClickInv, OneGenerationPerClick
<1> QED BY <1>1, PagesKept, PTL

-----------------------------------------------------------------------------
(* The steps of one script.                                                *)

\* The step moves the script of p alone, and nearer to its end.
Nearer(p) ==
    /\ StepsLeft(script'[p].do, script'[p].pc) < StepsLeft(script[p].do, script[p].pc)
    /\ \A q \in Page : q # p => script'[q] = script[q]

LEMMA GotoNearer ==
    ASSUME PageInv, NEW p \in Page, NEW pc, Goto(p, pc),
           StepsLeft(script[p].do, pc) < StepsLeft(script[p].do, script[p].pc)
    PROVE  Nearer(p)
<1>1. script[p] \in Script /\ script' = [script EXCEPT ![p] = [script[p] EXCEPT !.pc = pc]]
  BY DEF PageInv, TypeInv, TypeOK, Goto
<1>2. script'[p].pc = pc /\ script'[p].do = script[p].do
  BY <1>1 DEF PageInv, TypeInv, TypeOK, Script
<1>3. \A q \in Page : q # p => script'[q] = script[q]
  BY <1>1 DEF PageInv, TypeInv, TypeOK
<1> QED BY <1>2, <1>3 DEF Nearer

LEMMA RerunNearer ==
    ASSUME PageInv, NEW p \in Page, Rerun(p), script[p].pc \in {"delete", "create_job"}
    PROVE  Nearer(p)
<1>1. /\ script[p] \in Script
      /\ script' = [script EXCEPT ![p] = [script[p] EXCEPT !.pc = "documents", !.do = "look"]]
  BY DEF PageInv, TypeInv, TypeOK, Rerun
<1>2. script'[p].pc = "documents" /\ script'[p].do = "look"
  BY <1>1 DEF PageInv, TypeInv, TypeOK, Script
<1>3. \A q \in Page : q # p => script'[q] = script[q]
  BY <1>1 DEF PageInv, TypeInv, TypeOK
<1>4. script[p].do = script[p].pc
  BY DEF PageInv, StepInv, Doing
<1> QED BY <1>2, <1>3, <1>4 DEF Nearer, StepsLeft

\* The steps of the tabs, in their order.
LEMMA TabsNearer ==
    ASSUME NEW do \in Doing
    PROVE  /\ StepsLeft(do, "documents") < StepsLeft(do, "upload")
           /\ \A pc \in {"documents", "delete"} :
                 StepsLeft(do, StepFrom("generate", do)) < StepsLeft(do, pc)
           /\ StepsLeft(do, "delete") < StepsLeft(do, "documents")
           /\ do = "generate" => /\ StepsLeft(do, "post") < StepsLeft(do, "generate")
                                 /\ StepsLeft(do, StepFrom("create_job", do)) < StepsLeft(do, "post")
           /\ do # "generate" => StepsLeft(do, "post") < StepsLeft(do, "generate_for_job")
           /\ StepsLeft(do, "waiting") < StepsLeft(do, "post")
           /\ StepsLeft(do, StepFrom("create_job", do)) < StepsLeft(do, "generate")
           /\ StepsLeft(do, "list_jobs") < StepsLeft(do, "create_job")
           /\ StepsLeft(do, StepFrom("job_upload", do)) < StepsLeft(do, "list_jobs")
           /\ \A pc \in {"list_jobs", "post", "answered", "resumes", "download"} :
                 StepsLeft(do, StepFrom("search", do)) < StepsLeft(do, pc)
           /\ StepsLeft(do, "resumes") < StepsLeft(do, "generate_for_job")
           /\ StepsLeft(do, "resumes") < StepsLeft(do, "answered")
           /\ StepsLeft(do, "download") < StepsLeft(do, "resumes")
           /\ \A pc \in PC \ {"idle"} : StepsLeft(do, "idle") < StepsLeft(do, pc)
           /\ StepsLeft(do, "answered") < StepsLeft(do, "waiting")
BY StepsOn DEF StepsLeft, PC

LEMMA DoingIs == ASSUME PageInv, NEW p \in Page PROVE script[p].do \in Doing /\ script[p].pc \in PC
BY DEF PageInv, TypeInv, TypeOK, Script

\* An exception nothing catches ends the script.
LEMMA BreakNearer ==
    ASSUME PageInv, NEW p \in Page, Break(p), script[p].pc # "idle"
    PROVE  Nearer(p)
<1>1. script[p].do \in Doing /\ script[p].pc \in PC \ {"idle"}
  BY DoingIs
<1> QED BY <1>1, GotoNearer, TabsNearer DEF Break

\* The upload forms.
LEMMA SubmitNearer ==
    ASSUME PageInv, NEW p \in Page, NEW accepted, NEW next, SubmitUpload(p, accepted, next),
           script[p].pc # "idle",
           StepsLeft(script[p].do, StepFrom(next, script[p].do))
              < StepsLeft(script[p].do, script[p].pc)
    PROVE  Nearer(p)
BY BreakNearer, GotoNearer DEF SubmitUpload, Proceed

\* The two looks that come before a post.
LEMMA LookNearer ==
    ASSUME PageInv, NEW p \in Page, NEW without, NEW next, LookFirst(p, without, next),
           script[p].pc \in {"generate", "generate_for_job"},
           StepsLeft(script[p].do, StepFrom(next, script[p].do))
              < StepsLeft(script[p].do, script[p].pc)
    PROVE  Nearer(p)
<1>1. script[p].do = script[p].pc /\ script[p].do \in Doing
  BY DoingIs DEF PageInv, StepInv, Doing
<1>2. StepsLeft(script[p].do, "post") < StepsLeft(script[p].do, script[p].pc)
  BY <1>1, TabsNearer
<1> QED BY <1>2, GotoNearer DEF LookFirst, Proceed

\* Every step of a script but its beginning.
LEMMA StepNearer ==
    ASSUME PageInv, NEW p \in Page, ScriptStep(p), ~BeginScript(p)
    PROVE  Nearer(p)
<1> DEFINE do == script[p].do
<1>1. do \in Doing /\ script[p].pc \in PC
  BY DoingIs
<1>2. CASE Upload(p)
  <2>1. script[p].pc = "upload" /\ SubmitUpload(p, Served(p), "documents")
    BY <1>2 DEF Upload, At
  <2>2. StepFrom("documents", do) = "documents"
    BY StepsOn
  <2> QED BY <1>1, <2>1, <2>2, SubmitNearer, TabsNearer
<1>3. CASE ListDocuments(p)
  <2>1. /\ script[p].pc = "documents"
        /\ Goto(p, "delete") \/ Goto(p, StepFrom("generate", do))
    BY <1>3 DEF ListDocuments, At, Proceed
  <2> QED BY <1>1, <2>1, GotoNearer, TabsNearer
<1>4. CASE DeleteDocument(p)
  <2>1. /\ script[p].pc = "delete"
        /\ Break(p) \/ Goto(p, StepFrom("generate", do)) \/ Rerun(p)
    BY <1>4 DEF DeleteDocument, At, Proceed
  <2> QED BY <1>1, <2>1, GotoNearer, TabsNearer, BreakNearer, RerunNearer
<1>5. CASE Generate(p)
  <2>1. script[p].pc = "generate" /\ \E without : LookFirst(p, without, "create_job")
    BY <1>5 DEF Generate, At
  <2> QED BY <1>1, <2>1, TabsNearer, LookNearer
<1>6. CASE CreateJob(p)
  <2>1. script[p].pc = "create_job" /\ (Goto(p, StepFrom("list_jobs", do)) \/ Rerun(p))
    BY <1>6 DEF CreateJob, At, Proceed
  <2>2. StepFrom("list_jobs", do) = "list_jobs"
    BY StepsOn
  <2> QED BY <1>1, <2>1, <2>2, GotoNearer, TabsNearer, RerunNearer
<1>7. CASE ListJobs(p)
  <2>1. /\ script[p].pc = "list_jobs"
        /\ Goto(p, StepFrom("job_upload", do)) \/ Goto(p, StepFrom("search", do))
    BY <1>7 DEF ListJobs, At, Proceed
  <2> QED BY <1>1, <2>1, GotoNearer, TabsNearer
<1>8. CASE JobUpload(p)
  <2>1. /\ script[p].pc = "job_upload"
        /\ SubmitUpload(p, Served(p) /\ User(p) \in jobs, "generate_for_job")
    BY <1>8 DEF JobUpload, At
  <2>2. do = "job_upload"
    BY <2>1 DEF PageInv, StepInv, Doing
  <2>3. StepsLeft(do, StepFrom("generate_for_job", do)) < StepsLeft(do, "job_upload")
    BY <2>2, StepsOn DEF StepsLeft
  <2> QED BY <2>1, <2>3, SubmitNearer
<1>9. CASE GenerateForJob(p)
  <2>1. script[p].pc = "generate_for_job" /\ \E without : LookFirst(p, without, "resumes")
    BY <1>9 DEF GenerateForJob, At
  <2>2. StepFrom("resumes", do) = "resumes"
    BY StepsOn
  <2> QED BY <1>1, <2>1, <2>2, TabsNearer, LookNearer
<1>15. CASE PostGeneration(p)
  <2>1. /\ script[p].pc = "post"
        /\ \/ Goto(p, "waiting")
           \/ do = "generate_for_job" /\ Goto(p, StepFrom("search", do))
           \/ do # "generate_for_job" /\ Goto(p, StepFrom("create_job", do))
    BY <1>15 DEF PostGeneration, At, Proceed, Does
  <2>2. do \in Generates
    BY <2>1 DEF PageInv, StepInv
  <2> QED BY <1>1, <2>1, <2>2, GotoNearer, TabsNearer DEF Generates
<1>10. CASE Receive(p)
  <2>1. /\ script[p].pc = "answered"
        /\ \/ do = "generate" /\ Goto(p, StepFrom("create_job", do))
           \/ Goto(p, StepFrom("resumes", do)) \/ Goto(p, StepFrom("search", do))
    BY <1>10 DEF Receive, At, Proceed, Does
  <2>2. /\ StepFrom("resumes", do) = "resumes"
        /\ do = "generate" =>
              StepsLeft(do, StepFrom("create_job", do)) < StepsLeft(do, "answered")
    BY StepsOn DEF StepsLeft
  <2> QED BY <1>1, <2>1, <2>2, GotoNearer, TabsNearer
<1>11. CASE ListResumes(p)
  <2>1. PICK rows, pc :
            /\ script' = [script EXCEPT ![p] = [script[p] EXCEPT !.rows = rows, !.pc = pc]]
            /\ script[p].pc = "resumes" /\ pc \in {"download", StepFrom("search", do)}
    BY <1>11 DEF ListResumes, At, PageInv, TypeInv, TypeOK
  <2>2. script[p] \in Script
    BY DEF PageInv, TypeInv, TypeOK
  <2>3. /\ script'[p].pc = pc /\ script'[p].do = do
        /\ \A q \in Page : q # p => script'[q] = script[q]
    BY <2>1, <2>2 DEF PageInv, TypeInv, TypeOK, Script
  <2>4. StepsLeft(do, pc) < StepsLeft(do, "resumes")
    BY <1>1, <2>1, TabsNearer
  <2> QED BY <2>1, <2>3, <2>4 DEF Nearer
<1>12. CASE Download(p)
  <2>1. script[p].pc = "download" /\ (Goto(p, StepFrom("search", do)) \/ Break(p))
    BY <1>12 DEF Download, At, Proceed
  <2> QED BY <1>1, <2>1, GotoNearer, TabsNearer, BreakNearer
<1>13. CASE Search(p)
  <2>1. script[p].pc = "search" /\ Goto(p, "idle")
    BY <1>13 DEF Search, At
  <2> QED BY <1>1, <2>1, GotoNearer, TabsNearer DEF PC
<1>14. CASE Timeout(p)
  <2>1. /\ script[p].pc = "waiting"
        /\ script' = [script EXCEPT ![p] = [script[p] EXCEPT !.pc = "answered",
                                                             !.error = "unreachable"]]
    BY <1>14 DEF Timeout, PageInv, TypeInv, TypeOK
  <2>2. script[p] \in Script
    BY DEF PageInv, TypeInv, TypeOK
  <2>3. /\ script'[p].pc = "answered" /\ script'[p].do = do
        /\ \A q \in Page : q # p => script'[q] = script[q]
    BY <2>1, <2>2 DEF PageInv, TypeInv, TypeOK, Script
  <2>4. StepsLeft(do, "answered") < StepsLeft(do, "waiting")
    BY <1>1, TabsNearer
  <2> QED BY <2>1, <2>3, <2>4 DEF Nearer
<1> QED BY <1>2, <1>3, <1>4, <1>5, <1>6, <1>7, <1>8, <1>9, <1>10, <1>11, <1>12, <1>13,
           <1>14, <1>15 DEF ScriptStep

\* A new run takes the interaction, and leaves the other pages alone.
LEMMA BeginTakes ==
    ASSUME PageInv, NEW p \in Page, BeginScript(p)
    PROVE  /\ wanted[p] # None /\ wanted'[p] = None /\ script[p].pc # "waiting"
           /\ \A q \in Page : q # p => script'[q] = script[q]
BY DEF BeginScript, PageInv, TypeInv, TypeOK

\* What ends requests from the server's side, an answer or a death, ends the waiting of
\* those pages that wait, and changes nothing else of their scripts but the answer.
LEMMA AnsweredNearer ==
    ASSUME PageInv, NEW p \in Page, NEW answer, NEW error, script[p].pc = "waiting",
           script'[p] = [script[p] EXCEPT !.pc = "answered", !.answer = answer, !.error = error]
    PROVE  StepsLeft(script'[p].do, script'[p].pc) < StepsLeft(script[p].do, script[p].pc)
<1>1. script[p] \in Script /\ script[p].do \in Doing
  BY DoingIs DEF PageInv, TypeInv, TypeOK
<1>2. script'[p].pc = "answered" /\ script'[p].do = script[p].do
  BY <1>1 DEF Script
<1> QED BY <1>1, <1>2, TabsNearer

LEMMA ServerNearer ==
    ASSUME PageInv, NEW p \in Page, script'[p] # script[p],
           (\E r \in runs : FinishRun(r) \/ FailRun(r)) \/ Kill
    PROVE  StepsLeft(script'[p].do, script'[p].pc) < StepsLeft(script[p].do, script[p].pc)
<1>1. CASE \E r \in runs : FinishRun(r) \/ FailRun(r)
  <2>1. PICK r, answer, error : AnswerTo(r, answer, error)
    BY <1>1 DEF FinishRun, FailRun
  <2> QED BY <2>1, AnsweredNearer DEF AnswerTo
<1>2. CASE Kill
  <2>1. /\ script[p].pc = "waiting"
        /\ script'[p] = [script[p] EXCEPT !.pc = "answered", !.error = "unreachable"]
    BY <1>2 DEF Kill
  <2>2. script[p] \in Script
    BY DEF PageInv, TypeInv, TypeOK
  <2>3. script'[p] = [script[p] EXCEPT !.pc = "answered", !.answer = script[p].answer,
                                       !.error = "unreachable"]
    BY <2>1, <2>2 DEF Script
  <2> QED BY <2>1, <2>3, AnsweredNearer
<1> QED BY <1>1, <1>2

\* No page works for ever on one click: every change of a script brings it nearer to its
\* end, but for the run that an interaction starts (main, st.rerun, DEFAULT_TIMEOUT).
THEOREM ScriptsEnd == Spec => ScriptsAdvance
<1> DEFINE Advances ==
        \A p \in Page : script'[p] # script[p] =>
            \/ StepsLeft(script'[p].do, script'[p].pc) < StepsLeft(script[p].do, script[p].pc)
            \/ wanted[p] # None /\ wanted'[p] = None /\ script[p].pc # "waiting"
<1>1. PageInv /\ [Next]_vars => Advances
  <2> SUFFICES ASSUME PageInv, [Next]_vars, NEW p \in Page, script'[p] # script[p]
               PROVE  \/ StepsLeft(script'[p].do, script'[p].pc)
                            < StepsLeft(script[p].do, script[p].pc)
                      \/ wanted[p] # None /\ wanted'[p] = None /\ script[p].pc # "waiting"
    OBVIOUS
  <2>1. CASE \E q \in Page : ScriptStep(q)
    <3>1. PICK q \in Page : ScriptStep(q)
      BY <2>1
    <3>2. CASE BeginScript(q)
      BY <3>2, BeginTakes
    <3>3. CASE ~BeginScript(q)
      BY <3>1, <3>3, StepNearer DEF Nearer
    <3> QED BY <3>2, <3>3
  <2>2. CASE (\E r \in runs : FinishRun(r) \/ FailRun(r)) \/ Kill
    BY <2>2, ServerNearer
  <2>3. CASE (\E q \in Page, do \in Doing, n \in Asked \cup {None} : Click(q, do, n))
                \/ \E q \in Page, text \in Typed : Type(q, text)
    BY <2>3 DEF Click, Type
  <2>4. CASE (\E u \in UserId : ApiGenerate(u) \/ ApiDeleteJob(u)) \/ Boot
                \/ \E c \in Conf : EditConf(c)
    BY <2>4 DEF ApiGenerate, ApiDeleteJob, Boot, EditConf, page
  <2>5. CASE UNCHANGED vars
    BY <2>5 DEF vars, page
  <2> QED BY <2>1, <2>2, <2>3, <2>4, <2>5 DEF Next
<1>2. Spec => [][Advances]_vars
  BY <1>1, PagesKept, PTL DEF Spec
<1> QED BY <1>2, PTL DEF ScriptsAdvance
================================================================================
