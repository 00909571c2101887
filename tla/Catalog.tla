------------------------------ MODULE Catalog ------------------------------
(***************************************************************************)
(* Rule templates, stored objects and the admission of jobs: by the API    *)
(* (routes/templates.rs, files.rs, jobs.rs, schedules.rs and sources.rs),  *)
(* by the stages of a batch and by the fires of a schedule (the            *)
(* orchestrator's activities.go, watch.go and batch.go).                   *)
(*                                                                         *)
(* Each HTTP request, and each batch, is a process that runs one statement,*)
(* storage call or transaction per step; a client that disconnects drops   *)
(* its handler between two of them, and a batch may be stopped there. A    *)
(* statement is atomic, except that INSERT ... SELECT reads its snapshot   *)
(* before it inserts.                                                      *)
(***************************************************************************)
EXTENDS Integers, Sequences, FiniteSets

CONSTANTS Org,          \* organisations
          Key,          \* template keys
          Content,      \* contents of files, by their SHA-256
          Filename,     \* names a file may be uploaded under
          Request,      \* requests and batches being served at a time
          MaxTemplates, \* template rows ever inserted
          MaxSchedules, \* schedules at a time
          MaxJobs,      \* jobs ever admitted
          MaxUploads    \* objects ever written, by uploads, batches and others

ASSUME CatalogAssumption ==
    {MaxTemplates, MaxSchedules, MaxJobs, MaxUploads} \subseteq Nat

VARIABLES
    templates, \* rule_templates, by id; a deleted row keeps its place
    sources,   \* the sources table: <<org, content>> -> filename or None
    objects,   \* object storage: the <<org, content>> pairs stored
    schedules, \* schedules: the template id and version each one names
    jobs,      \* jobs: who admitted each one, its template, version, object
    req,       \* what each request is doing
    uploads,   \* writes of objects started so far
    bound      \* the row each published <<org, key, version>> names

vars == <<templates, sources, objects, schedules, jobs, req, uploads, bound>>

None == "none"
Idle == [op |-> "idle"]

Ids          == DOMAIN templates
Name(row)    == <<row.org, row.key, row.version>>
Owned(id, o) == templates[id].live /\ templates[id].org = o

VersionsOf(o, k) ==
    {templates[id].version : id \in {i \in Ids : Owned(i, o) /\ templates[i].key = k}}

Largest(S) == CHOOSE v \in S \cup {0} : \A w \in S : w <= v

-----------------------------------------------------------------------------
(* Rule templates. *)

\* INSERT INTO rule_templates, which UNIQUE (org_id, template_key, version)
\* refuses if the version is taken.
insert_template(r, o, k, version) ==
    /\ req' = [req EXCEPT ![r] = Idle]
    /\ templates' =
          IF version \in VersionsOf(o, k) THEN templates
          ELSE Append(templates, [org |-> o, key |-> k, version |-> version,
                                  published |-> FALSE, live |-> TRUE])
    /\ UNCHANGED <<sources, objects, schedules, jobs, uploads, bound>>

create_template(r, o, k) ==
    /\ req[r] = Idle
    /\ Len(templates) < MaxTemplates
    /\ insert_template(r, o, k, 1)

\* create_version: the key of the row the path names,
create_version(r, o, id) ==
    /\ req[r] = Idle
    /\ Len(templates) < MaxTemplates
    /\ Owned(id, o)
    /\ req' = [req EXCEPT ![r] = [op |-> "version", org |-> o, key |-> templates[id].key]]
    /\ UNCHANGED <<templates, sources, objects, schedules, jobs, uploads, bound>>

\* the snapshot that MAX(version) is computed from,
snapshot_version(r) ==
    /\ req[r].op = "version"
    /\ req' = [req EXCEPT ![r] =
                  [op |-> "insert", org |-> @.org, key |-> @.key,
                   version |-> Largest(VersionsOf(@.org, @.key)) + 1]]
    /\ UNCHANGED <<templates, sources, objects, schedules, jobs, uploads, bound>>

\* and the insertion.
insert_version(r) ==
    /\ req[r].op = "insert"
    /\ \/ Len(templates) < MaxTemplates
       \/ req[r].version \in VersionsOf(req[r].org, req[r].key)
    /\ insert_template(r, req[r].org, req[r].key, req[r].version)

publish_template(r, o, id) ==
    /\ req[r] = Idle
    /\ Owned(id, o)
    /\ templates' = [templates EXCEPT ![id].published = TRUE]
    /\ bound' = [n \in DOMAIN bound \cup {Name(templates[id])} |->
                    IF n \in DOMAIN bound THEN bound[n] ELSE id]
    /\ UNCHANGED <<sources, objects, schedules, jobs, req, uploads>>

\* DELETE ... WHERE published = false.
DeletableAny(id, o) == Owned(id, o)

Deletable(id, o) == Owned(id, o) /\ ~templates[id].published

\* The foreign keys refuse to drop a row that a job or a schedule names.
delete_template(r, o, id) ==
    /\ req[r] = Idle
    /\ Deletable(id, o)
    /\ \A x \in jobs \cup schedules : x.template # id
    /\ templates' = [templates EXCEPT ![id].live = FALSE]
    /\ UNCHANGED <<sources, objects, schedules, jobs, req, uploads, bound>>

-----------------------------------------------------------------------------
(* Objects. The key of an upload is its organisation and content hash.     *)

upload_file(r, o, c, f) ==
    /\ req[r] = Idle
    /\ uploads < MaxUploads
    /\ uploads' = uploads + 1
    /\ req' = [req EXCEPT ![r] = [op |-> "put", org |-> o, content |-> c, filename |-> f]]
    /\ UNCHANGED <<templates, sources, objects, schedules, jobs, bound>>

register_first(r) ==
    /\ req[r].op = "put"
    /\ sources' = [sources EXCEPT ![<<req[r].org, req[r].content>>] = req[r].filename]
    /\ req' = [req EXCEPT ![r] = [@ EXCEPT !.op = "register"]]
    /\ UNCHANGED <<templates, objects, schedules, jobs, uploads, bound>>

\* The bytes are stored first; storage may refuse them.
put_object(r) ==
    /\ req[r].op = "put"
    /\ \/ /\ objects' = objects \cup {<<req[r].org, req[r].content>>}
          /\ req' = [req EXCEPT ![r] = [@ EXCEPT !.op = "register"]]
       \/ /\ req' = [req EXCEPT ![r] = Idle]
          /\ UNCHANGED objects
    /\ UNCHANGED <<templates, sources, schedules, jobs, uploads, bound>>

\* register_upload: a repeat upload refreshes the filename and the format
\* that follows from it.
register_upload(r) ==
    /\ req[r].op = "register"
    /\ sources' = [sources EXCEPT ![<<req[r].org, req[r].content>>] = req[r].filename]
    /\ req' = [req EXCEPT ![r] = Idle]
    /\ UNCHANGED <<templates, objects, schedules, jobs, uploads, bound>>

\* Another system writes an object under a prefix that a schedule watches, or
\* a watch stages a remote file there.
object_written(o, c) ==
    /\ uploads < MaxUploads
    /\ uploads' = uploads + 1
    /\ objects' = objects \cup {<<o, c>>}
    /\ UNCHANGED <<templates, sources, schedules, jobs, req, bound>>

\* registerSource: an object found or staged is registered; one that is
\* registered keeps its filename.
registerSource(src, f) ==
    sources' = [sources EXCEPT ![src] = IF @ = None THEN f ELSE @]

-----------------------------------------------------------------------------
(* Admission of jobs by the API. *)

UsableDraft(id, o) == Owned(id, o)

Usable(id, o) == Owned(id, o) /\ templates[id].published

\* create_job: the version of a published template of the organisation;
create_job(r, o, id, src) ==
    /\ req[r] = Idle
    /\ Usable(id, o)
    /\ req' = [req EXCEPT ![r] = [op |-> "resolve", org |-> o, template |-> id,
                                  version |-> templates[id].version, source |-> src]]
    /\ UNCHANGED <<templates, sources, objects, schedules, jobs, uploads, bound>>

\* the source, which must be registered, and for this organisation;
resolve(o, src) == IF src[1] = o THEN sources[src] ELSE None

resolve_source(r) ==
    LET filename == resolve(req[r].org, req[r].source) IN
    /\ req[r].op = "resolve"
    /\ req' = [req EXCEPT ![r] =
                  IF filename = None THEN Idle
                  ELSE [op |-> "admit", org |-> @.org, template |-> @.template,
                        version |-> @.version, source |-> @.source]]
    /\ UNCHANGED <<templates, sources, objects, schedules, jobs, uploads, bound>>

\* INSERT INTO jobs, which the foreign key refuses if the template is gone.
\* A job that reads its source from a connector has no object.
insert(by, o, id, version, src) ==
    /\ Cardinality(jobs) < MaxJobs
    /\ jobs' = IF ~templates[id].live THEN jobs
               ELSE jobs \cup {[by |-> by, org |-> o, template |-> id,
                                version |-> version, source |-> src]}

insert_job(r) ==
    /\ req[r].op = "admit"
    /\ insert("api", req[r].org, req[r].template, req[r].version, {req[r].source})
    /\ req' = [req EXCEPT ![r] = Idle]
    /\ UNCHANGED <<templates, sources, objects, schedules, uploads, bound>>

-----------------------------------------------------------------------------
(* Admission by a stage of a batch. *)

\* UnpackAndStageArchive: the stages of a registered archive are stored
\* under the batch's own prefix;
UnpackAndStageArchive(r, o, archive, c) ==
    /\ req[r] = Idle
    /\ sources[<<o, archive>>] # None
    /\ uploads < MaxUploads
    /\ uploads' = uploads + 1
    /\ objects' = objects \cup {<<o, c>>}
    /\ req' = [req EXCEPT ![r] = [op |-> "staged", org |-> o, source |-> <<o, c>>]]
    /\ UNCHANGED <<templates, sources, schedules, jobs, bound>>

\* MaterializeBatchStages: the newest published version of the stage's key;
MaterializeBatchStages(r, k) ==
    /\ req[r].op = "staged"
    /\ \/ \E id \in Ids :
             /\ Usable(id, req[r].org) /\ templates[id].key = k
             /\ \A i \in Ids : Usable(i, req[r].org) /\ templates[i].key = k
                                 => templates[i].version <= templates[id].version
             /\ req' = [req EXCEPT ![r] =
                           [op |-> "stage", org |-> @.org, template |-> id,
                            version |-> templates[id].version, source |-> @.source]]
       \/ /\ \A id \in Ids : ~(Usable(id, req[r].org) /\ templates[id].key = k)
          /\ req' = [req EXCEPT ![r] = Idle]
    /\ UNCHANGED <<templates, sources, objects, schedules, jobs, uploads, bound>>

\* The workflow id of a job is its object's: one that is there stands.
admitted(by, src) == \E j \in jobs : j.by = by /\ j.source = {src}

\* StartBatchStageJob: the object is registered and the job inserted in one
\* transaction.
StartBatchStageJob(r, f) ==
    /\ req[r].op = "stage"
    /\ registerSource(req[r].source, f)
    /\ IF admitted("batch", req[r].source) THEN UNCHANGED jobs
       ELSE insert("batch", req[r].org, req[r].template, req[r].version, {req[r].source})
    /\ req' = [req EXCEPT ![r] = Idle]
    /\ UNCHANGED <<templates, objects, schedules, uploads, bound>>

-----------------------------------------------------------------------------
(* Admission by a schedule. *)

\* create_schedule: a template of the organisation, published or not, and
\* the version the request says,
create_schedule(r, o, id, version) ==
    /\ req[r] = Idle
    /\ Owned(id, o)
    /\ req' = [req EXCEPT ![r] = [op |-> "schedule", org |-> o, template |-> id,
                                  version |-> version]]
    /\ UNCHANGED <<templates, sources, objects, schedules, jobs, uploads, bound>>

\* are inserted, which the foreign key refuses if the template is gone.
insert_schedule(r) ==
    /\ req[r].op = "schedule"
    /\ Cardinality(schedules) < MaxSchedules
    /\ schedules' = IF ~templates[req[r].template].live THEN schedules
                    ELSE schedules \cup {[org |-> req[r].org, template |-> req[r].template,
                                          version |-> req[r].version]}
    /\ req' = [req EXCEPT ![r] = Idle]
    /\ UNCHANGED <<templates, sources, objects, jobs, uploads, bound>>

\* A fire admits nothing afterwards: its jobs name the schedule's row.
delete_schedule(s) ==
    /\ schedules' = schedules \ {s}
    /\ UNCHANGED <<templates, sources, objects, jobs, req, uploads, bound>>

\* StartWatchObjectJob: an object of the organisation that the watch listed.
StartWatchObjectJob(s, src, f) ==
    /\ src \in objects /\ src[1] = s.org
    /\ registerSource(src, f)
    /\ IF admitted("watch", src) THEN UNCHANGED jobs
       ELSE insert("watch", s.org, s.template, s.version, {src})
    /\ UNCHANGED <<templates, objects, schedules, req, uploads, bound>>

\* BootstrapScheduledJob: the rows come from the schedule's connector.
BootstrapScheduledJob(s) ==
    /\ insert("scheduled", s.org, s.template, s.version, {})
    /\ UNCHANGED <<templates, sources, objects, schedules, req, uploads, bound>>

-----------------------------------------------------------------------------

\* The client disconnects: its handler is dropped where it awaits. A batch
\* is terminated.
drop_request(r) ==
    /\ req[r] # Idle
    /\ req' = [req EXCEPT ![r] = Idle]
    /\ UNCHANGED <<templates, sources, objects, schedules, jobs, uploads, bound>>

-----------------------------------------------------------------------------

Init ==
    /\ templates = <<>>
    /\ sources = [s \in Org \X Content |-> None]
    /\ objects = {}
    /\ schedules = {}
    /\ jobs = {}
    /\ req = [r \in Request |-> Idle]
    /\ uploads = 0
    /\ bound = <<>>

Next ==
    \/ \E r \in Request :
          \/ \E o \in Org :
                \/ \E k \in Key : create_template(r, o, k)
                \/ \E id \in Ids : \/ create_version(r, o, id)
                                   \/ publish_template(r, o, id)
                                   \/ delete_template(r, o, id)
                                   \/ \E v \in 1 .. MaxTemplates : create_schedule(r, o, id, v)
                                   \/ \E src \in Org \X Content : create_job(r, o, id, src)
                \/ \E c \in Content, f \in Filename : upload_file(r, o, c, f)
                \/ \E a, c \in Content : UnpackAndStageArchive(r, o, a, c)
          \/ \E k \in Key : MaterializeBatchStages(r, k)
          \/ \E f \in Filename : StartBatchStageJob(r, f)
          \/ snapshot_version(r)
          \/ insert_version(r)
          \/ put_object(r)
          \/ register_upload(r)
          \/ resolve_source(r)
          \/ insert_job(r)
          \/ insert_schedule(r)
          \/ drop_request(r)
    \/ \E o \in Org, c \in Content : object_written(o, c)
    \/ \E s \in schedules :
          \/ delete_schedule(s)
          \/ BootstrapScheduledJob(s)
          \/ \E src \in Org \X Content, f \in Filename : StartWatchObjectJob(s, src, f)

Spec == Init /\ [][Next]_vars

-----------------------------------------------------------------------------
(* Properties. *)

(***************************************************************************)
(* Once a version of a key is published, that key and version name the     *)
(* same row for ever: the row is not deleted and its number is not given   *)
(* to another one, although numbers of deleted drafts are handed out       *)
(* again, and whatever versions are being created at the time.             *)
(***************************************************************************)
PublishedVersionFixed ==
    \A n \in DOMAIN bound :
        /\ templates[bound[n]].live /\ templates[bound[n]].published
        /\ \A id \in Ids : templates[id].live /\ Name(templates[id]) = n => id = bound[n]

(***************************************************************************)
(* A request or a batch that found its published template is never refused *)
(* when it inserts the job: between the two statements no other request    *)
(* can delete the row.                                                     *)
(***************************************************************************)
TemplateStaysUntilAdmitted ==
    \A r \in Request :
        req[r].op \in {"resolve", "admit", "stage"} => templates[req[r].template].live

(***************************************************************************)
(* Every job, whoever admitted it, names a template row of its own         *)
(* organisation that is there, and if it reads an object, one of its       *)
(* organisation whose bytes are stored, whichever handlers were dropped    *)
(* halfway. A job of the API or of a batch names moreover a published      *)
(* template, under the version recorded with the job. For the jobs of a    *)
(* schedule that last part does not hold: see ScheduledTemplatePublished.  *)
(***************************************************************************)
JobInputsExist ==
    \A j \in jobs :
        /\ \A src \in j.source : src \in objects /\ src[1] = j.org
        /\ Owned(j.template, j.org)
        /\ j.by \in {"api", "batch"} =>
              /\ bound[Name(templates[j.template])] = j.template
              /\ templates[j.template].version = j.version

(***************************************************************************)
(* docs/api.md:42, "only published templates can be used in                *)
(* jobs/schedules", and docs/scheduling.md:15, "must be published": the    *)
(* template of every job is published and the version recorded is its own. *)
(* create_schedule checks neither.                                         *)
(***************************************************************************)
ScheduledTemplatePublished ==
    \A j \in jobs : /\ templates[j.template].published
                    /\ templates[j.template].version = j.version

=============================================================================
