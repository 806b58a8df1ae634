-------------------------------- MODULE Sessions -------------------------------
(***************************************************************************)
(* The Streamlit page (ui/streamlit_app.py), its HTTP client               *)
(* (ui/api_client.py), and the server process (api/server.py) with the     *)
(* configuration it booted from (api/model_factory.py).                    *)
(*                                                                         *)
(* A page is a script that runs from top to bottom after every interaction *)
(* and calls the server as it goes, one blocking request at a time.  An    *)
(* interaction during a run makes Streamlit abandon it for a new one at    *)
(* the next st call, hence not while a request is under way.               *)
(*                                                                         *)
(* What a request does in the stores is modelled in Ingestion and          *)
(* Generation; here a user has at most one document, one job, and any      *)
(* resumes, and every request but a generation is one step.                *)
(*                                                                         *)
(* A source may name a setting without a value (null in a file): that is   *)
(* a value as any other, and neither a provider nor a number.              *)
(***************************************************************************)
EXTENDS Integers, FiniteSets, Sequences

CONSTANTS
    Page,          \* browser sessions
    Typed,         \* texts in the user id field, "" when blank
    BadIds,        \* those of them that _USER_ID_PATTERN does not match
    Unsendable,    \* those of these that a header cannot hold: not latin-1
    Asked,         \* values of the rewrite attempts field
    Conf,          \* configurations: source -> [provider, cap]
    Providers,     \* _KNOWN_PROVIDERS
    DefaultCap,    \* QualityGate's own max_iterations
    MaxClicks,     \* interactions with pages, and calls of other clients
    MaxKills,      \* times the server process dies
    MaxEdits,      \* times the configuration is edited
    None           \* unset, absent

\* DEMO_USER_ID
Demo == "demo-user"

UserId == (Typed \ ({""} \cup BadIds)) \cup {Demo}

ASSUME SessionsAssumption ==
    /\ None \notin Typed /\ None \notin Asked /\ None \notin Nat /\ None # Demo
    /\ "" \in Typed
    /\ Unsendable \subseteq BadIds
    /\ Asked \subseteq Nat
    /\ DefaultCap \in Nat
    /\ MaxClicks \in Nat

VARIABLES
    typed,      \* page -> text in the sidebar
    wanted,     \* page -> the interaction its next script run serves, or None
    script,     \* page -> its script run
    view,       \* page -> what that run has put on the page
    clients,    \* st.cache_resource: the cached clients
    server,     \* [up, cap, conf]; conf: history, what it booted from
    conf,       \* the configuration now
    documents,  \* users who have a document
    jobs,       \* users who have a job
    resumes,    \* table generated_resumes
    runs,       \* generations under way in the server
    clicks, kills, edits    \* counters of the bounds

stores == <<documents, jobs, resumes>>
page == <<typed, wanted, script, view, clients>>
bounds == <<clicks, kills, edits>>
vars == <<page, server, conf, stores, runs, bounds>>

Doing == {"look", "upload", "delete", "generate", "create_job", "job_upload",
          "generate_for_job", "search"}

PC == {"idle", "upload", "documents", "delete", "generate", "create_job", "list_jobs",
       "job_upload", "generate_for_job", "post", "waiting", "answered", "resumes",
       "download", "search"}

\* None is not an interaction.
ASSUME NoneAssumption == None \notin [do: Doing, click: 0 .. MaxClicks, asked: Asked \cup {None}]

Notice == {"none", "failed", "unreachable", "broken"}

\* answer, result: the click of a generation that answered, or 0.
Script == [pc: PC, do: Doing, click: Nat, asked: Asked \cup {None}, key: Typed,
           rows: SUBSET Nat, answer: Nat, error: Notice]

View == [documents: SUBSET UserId, job: BOOLEAN, resumes: SUBSET Nat,
         result: Nat, notice: Notice, reached: BOOLEAN]

Blank == [documents |-> {}, job |-> FALSE, resumes |-> {}, result |-> 0,
          notice |-> "none", reached |-> TRUE]

\* A generation, and the row it becomes.  job: "none" for one made from a posting,
\* "gone" once the job it was started for is deleted.  evaluated: the row of its
\* evaluation is stored too.
Generation == [click: Nat, page: Page \cup {None}, user: UserId,
               job: {"none", "here", "gone"}, asked: Asked \cup {None},
               cap: Nat, conf: Conf, evaluated: BOOLEAN]

-----------------------------------------------------------------------------
(* The server's side of a request.                                         *)

\* resolve_user: a missing or blank header is the demo user, an id that does not
\* match the pattern is refused with 400 (None).
ResolveUser(header) ==
    IF header = None THEN Demo ELSE IF header \in BadIds THEN None ELSE header

\* (Mutant of ToGate: a cap of 0 counts as not given.)
ToGateTruthy(asked) == IF asked = 0 THEN None ELSE asked

\* to_gate, of both request bodies; None leaves the choice to the default gate.
ToGate(asked) == asked

\* The sources of a setting, nearest first.
Sources == <<"env", "local", "file">>
Setting(c, key, default) ==
    LET named == {i \in DOMAIN Sources : c[Sources[i]][key] # None}
    IN  IF named = {} THEN default
        ELSE c[Sources[CHOOSE i \in named : \A j \in named : i <= j]][key]

\* LLMConfig.load and the check of build_model.
Boots(c) == Setting(c, "provider", "bedrock") \in Providers

\* (Mutant of LoadQualityGate: the value is used as it is.)
LoadQualityGateUnchecked(c) == Setting(c, "cap", DefaultCap)

\* load_quality_gate: what is not a number from 0 is replaced by the built-in
\* default, not by what the next source says.
LoadQualityGate(c) ==
    LET cap == Setting(c, "cap", DefaultCap) IN IF cap \in Nat THEN cap ELSE DefaultCap

\* build_default_app, in a process that serves.
Serving(c) == [up |-> TRUE, cap |-> LoadQualityGate(c), conf |-> c]

\* gate or self._default_gate
CapOf(asked) == IF ToGate(asked) = None THEN server.cap ELSE ToGate(asked)

StartRun(p, click, user, job, asked) ==
    runs' = runs \cup {[click |-> click, page |-> p, user |-> user, job |-> job,
                        asked |-> asked, cap |-> CapOf(asked), conf |-> server.conf,
                        evaluated |-> FALSE]}

\* list_documents; also search_evidence, whose chunks name their document.
DocumentsOf(u) == documents \cap {u}
SearchEvidence(u) == documents \cap {u}

\* list_resumes_for_job: a resume whose job_id is NULL is in no job's list.
ResumesForJob(u) == {r.click : r \in {x \in resumes : x.user = u /\ x.job = "here"}}

\* get_resume, behind both downloads.
ResumesOf(u) == {r.click : r \in {x \in resumes : x.user = u}}

Init ==
    /\ typed = [p \in Page |-> ""]
    /\ wanted = [p \in Page |-> [do |-> "look", click |-> 0, asked |-> None]]
    /\ script = [p \in Page |-> [pc |-> "idle", do |-> "look", click |-> 0, asked |-> None,
                                 key |-> "", rows |-> {}, answer |-> 0, error |-> "none"]]
    /\ view = [p \in Page |-> Blank]
    /\ clients = {}
    /\ conf \in Conf
    /\ server = [up |-> FALSE, cap |-> DefaultCap, conf |-> conf]
    /\ documents \in {{}, UserId}
    /\ jobs = documents
    /\ resumes = {}
    /\ runs = {}
    /\ clicks = 0 /\ kills = 0 /\ edits = 0

-----------------------------------------------------------------------------
(* The reader of the page.                                                 *)

\* What is on the page can be clicked, also while the script still runs.
Offered(p, do) ==
    CASE do = "delete" -> view[p].documents # {}
      [] do \in {"job_upload", "generate_for_job"} -> view[p].job
      [] OTHER -> do # "look"

\* Asked is the field next to the two buttons that send it.
Click(p, do, asked) ==
    /\ wanted[p] = None
    /\ do \in {"generate", "generate_for_job"} <=> asked # None
    /\ clicks < MaxClicks
    /\ Offered(p, do)
    /\ clicks' = clicks + 1
    /\ wanted' = [wanted EXCEPT ![p] = [do |-> do, click |-> clicks', asked |-> asked]]
    /\ UNCHANGED <<typed, script, view, clients, server, conf, stores, runs, kills, edits>>

Type(p, text) ==
    /\ wanted[p] = None
    /\ clicks < MaxClicks
    /\ text # typed[p]
    /\ clicks' = clicks + 1
    /\ typed' = [typed EXCEPT ![p] = text]
    /\ wanted' = [wanted EXCEPT ![p] = [do |-> "look", click |-> clicks', asked |-> None]]
    /\ UNCHANGED <<script, view, clients, server, conf, stores, runs, kills, edits>>

-----------------------------------------------------------------------------
(* The script: main, and one action per call it makes.                     *)

\* (Mutant of ClientKey: the user is not part of it.)
ClientKeyUrl(text) == ""

\* The key under which a client is cached, next to the address of the server.
ClientKey(text) == text

\* _client: a cached client keeps the header it was made with.
ClientsWith(text) ==
    IF \E c \in clients : c.key = ClientKey(text) THEN clients
    ELSE clients \cup {[key |-> ClientKey(text), header |-> IF text = "" THEN None ELSE text]}

Header(p) == (CHOOSE c \in clients : c.key = ClientKey(script[p].key)).header

\* The user the server takes this page's requests for; None: it refuses them.
User(p) == ResolveUser(Header(p))

\* A client method returns; otherwise it raises, HTTPError when the server refuses.
Served(p) == server.up /\ User(p) # None

\* The steps of a script in the order of the tabs.  Those that are served only when
\* their button was clicked are passed over otherwise, with the look at the documents
\* that decides whether a button is enabled.
Order == <<"upload", "documents", "generate", "create_job", "list_jobs", "job_upload",
           "generate_for_job", "resumes", "search", "idle">>
Unasked == {"documents", "list_jobs", "resumes", "idle"}

\* The first step from step on that a script serving the click do takes.
StepFrom(step, do) ==
    LET at == CHOOSE i \in DOMAIN Order : Order[i] = step
        taken == {i \in at .. Len(Order) : Order[i] \in Unasked \cup {do}}
    IN  Order[CHOOSE i \in taken : \A j \in taken : i <= j]

\* The run that serves the waiting interaction, with the texts now in the fields.
NewScript(p, pc) ==
    [pc |-> pc, do |-> wanted[p].do, click |-> wanted[p].click, asked |-> wanted[p].asked,
     key |-> typed[p], rows |-> {}, answer |-> 0, error |-> "none"]

\* main asks for the server's health and shows it.  A text that a header cannot hold
\* raises there what is no RequestException, before anything is sent.
BeginScript(p) ==
    /\ wanted[p] # None
    /\ script[p].pc # "waiting"
    /\ clients' = ClientsWith(typed[p])
    /\ \/ /\ typed[p] \notin Unsendable
          /\ script' = [script EXCEPT ![p] = NewScript(p, StepFrom("upload", wanted[p].do))]
          /\ view' = [view EXCEPT ![p] = [Blank EXCEPT !.reached = server.up]]
       \/ /\ typed[p] \in Unsendable
          /\ script' = [script EXCEPT ![p] = NewScript(p, "idle")]
          /\ view' = [view EXCEPT ![p] = [Blank EXCEPT !.notice = "broken"]]
    /\ wanted' = [wanted EXCEPT ![p] = None]
    /\ UNCHANGED <<typed, server, conf, stores, runs, bounds>>

At(p, pc) == script[p].pc = pc /\ wanted[p] = None
Does(p, do) == script[p].do = do

Goto(p, pc) == script' = [script EXCEPT ![p].pc = pc]
Proceed(p, step) == Goto(p, StepFrom(step, script[p].do))
Seen(p) == [view[p] EXCEPT !.reached = @ /\ server.up]
Show(p, v) == view' = [view EXCEPT ![p] = v]

\* (Mutant of Rerun: the button counts as clicked again.)
RerunClicked(p) ==
    /\ script' = [script EXCEPT ![p].pc = "documents"]
    /\ Show(p, Blank)

\* st.rerun
Rerun(p) ==
    /\ script' = [script EXCEPT ![p].pc = "documents", ![p].do = "look"]
    /\ Show(p, Blank)

\* An exception nothing catches: the page ends in a traceback.
Break(p) ==
    /\ Goto(p, "idle")
    /\ Show(p, [Seen(p) EXCEPT !.notice = "broken"])

\* The upload forms catch HTTPError alone.  A file may be refused for its size or its
\* format (413, 422), and its ingestion may fail (500).
SubmitUpload(p, accepted, next) ==
    \/ ~server.up /\ Break(p) /\ UNCHANGED documents
    \/ /\ server.up
       /\ Proceed(p, next)
       /\ Show(p, Seen(p))
       /\ \/ UNCHANGED documents
          \/ accepted /\ documents' = documents \cup {User(p)}

Upload(p) ==
    /\ At(p, "upload")
    /\ SubmitUpload(p, Served(p), "documents")
    /\ UNCHANGED <<typed, wanted, clients, server, conf, jobs, resumes, runs, bounds>>

ListDocuments(p) ==
    LET found == IF Served(p) THEN DocumentsOf(User(p)) ELSE {}
    IN  /\ At(p, "documents")
        /\ IF Does(p, "delete") /\ found # {} THEN Goto(p, "delete")
                                               ELSE Proceed(p, "generate")
        /\ Show(p, [Seen(p) EXCEPT !.documents = found])
        /\ UNCHANGED <<typed, wanted, clients, server, conf, stores, runs, bounds>>

\* 404 is caught, a server out of reach is not.
DeleteDocument(p) ==
    /\ At(p, "delete")
    /\ \/ ~server.up /\ Break(p) /\ UNCHANGED documents
       \/ /\ server.up
          /\ User(p) \notin documents
          /\ Proceed(p, "generate")
          /\ UNCHANGED <<view, documents>>
       \/ /\ server.up
          /\ User(p) \in documents
          /\ documents' = documents \ {User(p)}
          /\ Rerun(p)
    /\ UNCHANGED <<typed, wanted, clients, server, conf, jobs, resumes, runs, bounds>>

\* _has_any_documents, _has_eligible_documents_for_job: an error is taken for a yes.
\* Seen to be without documents, a user finds the button disabled.
SeenWithout(p) == Served(p) /\ User(p) \notin documents

\* The look at the documents before a button that posts a generation.
LookFirst(p, without, next) ==
    /\ IF without THEN Proceed(p, next) ELSE Goto(p, "post")
    /\ Show(p, Seen(p))
    /\ UNCHANGED <<typed, wanted, clients, server, conf, stores, runs, bounds>>

Generate(p) == At(p, "generate") /\ LookFirst(p, SeenWithout(p), "create_job")

\* POST of a generation, some time after that look; what refuses it (400, 404, 422) is
\* shown as a failure, after which only the Jobs tab returns.
PostGeneration(p) ==
    LET forJob == Does(p, "generate_for_job")
        accepted == /\ Served(p)
                    /\ User(p) \in documents
                    /\ forJob => User(p) \in jobs
    IN  /\ At(p, "post")
        /\ \/ /\ accepted
              /\ StartRun(p, script[p].click, User(p), IF forJob THEN "here" ELSE "none",
                          script[p].asked)
              /\ Goto(p, "waiting")
              /\ Show(p, Seen(p))
           \/ /\ ~accepted
              /\ Proceed(p, IF forJob THEN "search" ELSE "create_job")
              /\ Show(p, [Seen(p) EXCEPT !.notice = IF server.up THEN "failed" ELSE "unreachable"])
              /\ UNCHANGED runs
        /\ UNCHANGED <<typed, wanted, clients, server, conf, stores, bounds>>

\* The extraction may fail, with 500.
CreateJob(p) ==
    /\ At(p, "create_job")
    /\ \/ Proceed(p, "list_jobs") /\ Show(p, Seen(p)) /\ UNCHANGED jobs
       \/ /\ Served(p)
          /\ jobs' = jobs \cup {User(p)}
          /\ Rerun(p)
    /\ UNCHANGED <<typed, wanted, clients, server, conf, documents, resumes, runs, bounds>>

ListJobs(p) ==
    LET found == Served(p) /\ User(p) \in jobs
    IN  /\ At(p, "list_jobs")
        /\ Proceed(p, IF found THEN "job_upload" ELSE "search")
        /\ Show(p, [Seen(p) EXCEPT !.job = found])
        /\ UNCHANGED <<typed, wanted, clients, server, conf, stores, runs, bounds>>

JobUpload(p) ==
    /\ At(p, "job_upload")
    /\ SubmitUpload(p, Served(p) /\ User(p) \in jobs, "generate_for_job")
    /\ UNCHANGED <<typed, wanted, clients, server, conf, jobs, resumes, runs, bounds>>

\* The documents of a job that is gone are not looked at (404, taken for a yes).
GenerateForJob(p) ==
    /\ At(p, "generate_for_job")
    /\ LookFirst(p, SeenWithout(p) /\ User(p) \in jobs, "resumes")

\* After a success the tab goes on; after an error it returns.
Receive(p) ==
    /\ At(p, "answered")
    /\ Proceed(p, IF Does(p, "generate") THEN "create_job"
                  ELSE IF script[p].error = "none" THEN "resumes" ELSE "search")
    /\ Show(p, [view[p] EXCEPT !.result = script[p].answer, !.notice = script[p].error,
                               !.reached = @ /\ script[p].error # "unreachable"])
    /\ UNCHANGED <<typed, wanted, clients, server, conf, stores, runs, bounds>>

ListResumes(p) ==
    LET shown == IF Served(p) /\ User(p) \in jobs THEN ResumesForJob(User(p)) ELSE {}
    IN  /\ At(p, "resumes")
        /\ script' = [script EXCEPT ![p].rows = shown, ![p].pc =
                          IF shown = {} THEN StepFrom("search", script[p].do) ELSE "download"]
        /\ Show(p, Seen(p))
        /\ UNCHANGED <<typed, wanted, clients, server, conf, stores, runs, bounds>>

\* Both files of every row are fetched to offer them; nothing is caught.
Download(p) ==
    LET served == Served(p) /\ script[p].rows \subseteq ResumesOf(User(p))
    IN  /\ At(p, "download")
        /\ \/ /\ served
              /\ Show(p, [Seen(p) EXCEPT !.resumes = script[p].rows])
              /\ Proceed(p, "search")
           \/ ~served /\ Break(p)
        /\ UNCHANGED <<typed, wanted, clients, server, conf, stores, runs, bounds>>

Search(p) ==
    /\ At(p, "search")
    /\ Goto(p, "idle")
    /\ Show(p, [Seen(p) EXCEPT !.documents =
                   @ \cup IF Served(p) THEN SearchEvidence(User(p)) ELSE {}])
    /\ UNCHANGED <<typed, wanted, clients, server, conf, stores, runs, bounds>>

\* (Mutant of Timeout: the client waits for ever.)
NoTimeout(p) == FALSE

\* (Mutant of Timeout: the client sends the request again.)
SendAgain(p) ==
    /\ script[p].pc = "waiting"
    /\ script' = [script EXCEPT ![p].pc = script[p].do]
    /\ UNCHANGED <<typed, wanted, view, clients, server, conf, stores, runs, bounds>>

\* DEFAULT_TIMEOUT: the client gives up, the server does not notice.
Timeout(p) ==
    /\ script[p].pc = "waiting"
    /\ script' = [script EXCEPT ![p].pc = "answered", ![p].error = "unreachable"]
    /\ UNCHANGED <<typed, wanted, view, clients, server, conf, stores, runs, bounds>>

-----------------------------------------------------------------------------
(* The server process and its other clients.                               *)

\* The answer reaches the page that still waits for it.
AnswerTo(r, answer, error) ==
    script' = [p \in Page |->
        IF r.page = p /\ script[p].pc = "waiting" /\ script[p].click = r.click
        THEN [script[p] EXCEPT !.pc = "answered", !.answer = answer, !.error = error]
        ELSE script[p]]

\* _persist stores the evaluation by a statement of its own, after the resume is stored.
Evaluated(r) == [r EXCEPT !.evaluated = TRUE]

FinishRun(r) ==
    /\ r.job # "gone"
    /\ runs' = runs \ {r}
    /\ resumes' = resumes \cup {Evaluated(r)}
    /\ AnswerTo(r, r.click, "none")
    /\ UNCHANGED <<typed, wanted, view, clients, server, conf, documents, jobs, bounds>>

\* A model call raises, or the job that the row refers to is gone; or the resume is
\* stored and its evaluation is not, which is answered by 500 all the same.
FailRun(r) ==
    /\ runs' = runs \ {r}
    /\ \/ UNCHANGED resumes
       \/ r.job # "gone" /\ resumes' = resumes \cup {r}
    /\ AnswerTo(r, 0, "failed")
    /\ UNCHANGED <<typed, wanted, view, clients, server, conf, documents, jobs, bounds>>

\* A client that leaves max_iterations out.
ApiGenerate(u) ==
    /\ server.up
    /\ clicks < MaxClicks
    /\ u \in documents
    /\ clicks' = clicks + 1
    /\ StartRun(None, clicks', u, "none", None)
    /\ UNCHANGED <<page, server, conf, stores, kills, edits>>

WithoutJob(rows, u) ==
    {IF r.user = u /\ r.job = "here" THEN [r EXCEPT !.job = "gone"] ELSE r : r \in rows}

\* (Mutant of DetachResumes: they go with the job.)
CascadeResumes(u) == {r \in resumes : r.user # u \/ r.job # "here"}

\* ON DELETE SET NULL
DetachResumes(u) == WithoutJob(resumes, u)

ApiDeleteJob(u) ==
    /\ server.up
    /\ clicks < MaxClicks
    /\ u \in jobs
    /\ clicks' = clicks + 1
    /\ jobs' = jobs \ {u}
    /\ resumes' = DetachResumes(u)
    /\ runs' = WithoutJob(runs, u)
    /\ UNCHANGED <<page, server, conf, documents, kills, edits>>

\* build_served_app: everything is read from the configuration once.
Boot ==
    /\ ~server.up
    /\ Boots(conf)
    /\ server' = Serving(conf)
    /\ UNCHANGED <<page, conf, stores, runs, bounds>>

\* What was under way is answered by nobody; some of it is stored, some of that with
\* its evaluation.
Kill ==
    /\ server.up
    /\ kills < MaxKills
    /\ kills' = kills + 1
    /\ server' = [server EXCEPT !.up = FALSE]
    /\ runs' = {}
    /\ \E stored \in SUBSET {r \in runs : r.job # "gone"} : \E whole \in SUBSET stored :
          resumes' = resumes \cup (stored \ whole) \cup {Evaluated(r) : r \in whole}
    /\ script' = [p \in Page |-> IF script[p].pc = "waiting"
                                 THEN [script[p] EXCEPT !.pc = "answered", !.error = "unreachable"]
                                 ELSE script[p]]
    /\ UNCHANGED <<typed, wanted, view, clients, conf, documents, jobs, clicks, edits>>

EditConf(c) ==
    /\ edits < MaxEdits
    /\ c # conf
    /\ edits' = edits + 1
    /\ conf' = c
    /\ UNCHANGED <<page, server, stores, runs, clicks, kills>>

-----------------------------------------------------------------------------
\* What the Streamlit process does of its own accord.
ScriptStep(p) ==
    \/ BeginScript(p) \/ Upload(p) \/ ListDocuments(p) \/ DeleteDocument(p) \/ Generate(p)
    \/ CreateJob(p) \/ ListJobs(p) \/ JobUpload(p) \/ GenerateForJob(p) \/ PostGeneration(p)
    \/ Receive(p) \/ ListResumes(p) \/ Download(p) \/ Search(p) \/ Timeout(p)

Next ==
    \/ \E p \in Page : ScriptStep(p)
    \/ \E p \in Page, do \in Doing, n \in Asked \cup {None} : Click(p, do, n)
    \/ \E p \in Page, text \in Typed : Type(p, text)
    \/ \E r \in runs : FinishRun(r) \/ FailRun(r)
    \/ \E u \in UserId : ApiGenerate(u) \/ ApiDeleteJob(u)
    \/ Boot \/ Kill
    \/ \E c \in Conf : EditConf(c)

Spec == Init /\ [][Next]_vars

\* Streamlit runs its scripts and a client's timeout expires; nothing is assumed of
\* the server, which may be down or slow.
FairSpec == Spec /\ \A p \in Page : WF_vars(ScriptStep(p))

-----------------------------------------------------------------------------
(* Properties.                                                             *)

\* Every variable has its type.
TypeOK ==
    /\ typed \in [Page -> Typed]
    /\ \A p \in Page : wanted[p] # None =>
           wanted[p] \in [do: Doing, click: 0 .. MaxClicks, asked: Asked \cup {None}]
    /\ script \in [Page -> Script]
    /\ view \in [Page -> View]
    /\ clients \subseteq [key: Typed, header: Typed \cup {None}]
    /\ server \in [up: BOOLEAN, cap: Nat, conf: Conf]
    /\ documents \subseteq UserId /\ jobs \subseteq UserId
    /\ runs \cup resumes \subseteq Generation
    /\ ~server.up => runs = {}

Rested(p) == script[p].pc = "idle" /\ wanted[p] = None
OwnerOf(click) == {r.user : r \in {x \in resumes : x.click = click}}

\* A page at rest shows the documents and resumes of the user its sidebar names and of
\* nobody else, and so is the résumé it has just been given: whoever used the
\* cached clients before, and whatever was typed while a request was under way
\* (streamlit_app.py:37-45, "must hand back a client carrying the new X-User-Id").
ShownBelongsToUser ==
    \A p \in Page : Rested(p) =>
        LET u == ResolveUser(IF typed[p] = "" THEN None ELSE typed[p])
        IN  /\ view[p].documents \subseteq {u}
            /\ \A click \in view[p].resumes \cup ({view[p].result} \ {0}) : OwnerOf(click) = {u}

\* Stored with its evaluation.
StoredWhole(click) == \E r \in resumes : r.click = click /\ r.evaluated

\* What a page says of a generation is so: a result it shows is stored with its
\* evaluation, whatever happens to the job and to the server; one it calls failed is
\* not, though its resume alone may be (app_service.py:556-570); one out of reach may
\* be either; and a page ends in a traceback only when the server was out of its reach
\* at some point of that run, or its user id fits in no header.
AnswerMeansWhatItSays ==
    \A p \in Page :
        /\ view[p].result # 0 => StoredWhole(view[p].result)
        /\ view[p].notice = "failed" => ~StoredWhole(script[p].click)
        /\ view[p].notice = "broken" => ~view[p].reached \/ script[p].key \in Unsendable

\* A stored generation had the rewrites its caller asked for, 0 included; one that
\* did not say had those of the configuration its server booted from, whatever the
\* configuration has become since, and the built-in number when that one is of no use.
RunsAsAsked ==
    \A r \in resumes :
        \/ r.asked # None /\ r.cap = r.asked
        \/ /\ r.asked = None
           /\ LET set == {r.conf[s].cap : s \in {"env", "local", "file"}} \ {None}
              IN  r.cap \in (set \cup {DefaultCap}) \cap Nat
                  /\ (r.conf["env"].cap \in Nat => r.cap = r.conf["env"].cap)
                  /\ (set \cap Nat = {} => r.cap = DefaultCap)

\* A click makes one generation at most, although the page cannot tell an answer that
\* is late from one that never comes: what is under way or stored for it is one row,
\* through timeouts, reruns, abandoned scripts and deaths of the server.
OneGenerationPerClick ==
    /\ \A r, other \in runs \cup resumes : r.click = other.click => r = other
    /\ runs \cap resumes = {}

\* What a script at step pc can still do, when it serves the click do: the steps of the
\* tabs in their order, those of a generation after its button, and once more the
\* steps of a script that nothing was clicked for.
StepsLeft(do, pc) ==
    (IF do = "look" THEN 0 ELSE 18) +
    CASE pc = "upload" -> 17
      [] pc = "documents" -> 16
      [] pc = "delete" -> 15
      [] pc = "generate" -> 14
      [] pc = "post" -> IF do = "generate" THEN 13 ELSE 6
      [] pc = "waiting" -> IF do = "generate" THEN 12 ELSE 5
      [] pc = "answered" -> IF do = "generate" THEN 11 ELSE 4
      [] pc = "create_job" -> 10
      [] pc = "list_jobs" -> 9
      [] pc = "job_upload" -> 8
      [] pc = "generate_for_job" -> 7
      [] pc = "resumes" -> 3
      [] pc = "download" -> 2
      [] pc = "search" -> 1
      [] pc = "idle" -> 0

\* No page works for ever on one click: whatever a script does, and whatever the server
\* answers, brings the script nearer to its end, and a rerun serves no click again; only
\* an interaction starts a script, never while one is waiting for a generation.
ScriptsAdvance ==
    [][\A p \in Page : script'[p] # script[p] =>
          \/ StepsLeft(script'[p].do, script'[p].pc) < StepsLeft(script[p].do, script[p].pc)
          \/ wanted[p] # None /\ wanted'[p] = None /\ script[p].pc # "waiting"]_vars

\* A page comes to rest after every click, also when the server dies, or never
\* answers: a request ends by its answer, by the connection, or by the timeout.
EveryClickEnds == \A p \in Page : (script[p].pc # "idle") ~> (script[p].pc = "idle")

=============================================================================
