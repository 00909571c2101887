--------------------------- MODULE TemplateProofs ---------------------------
(***************************************************************************)
(* Proofs about templates, in the catalogue and in a designer's session.   *)
(*                                                                         *)
(* Module Catalog: for any number of organisations, keys, contents,        *)
(* schedules and requests served at once, and whichever of them are        *)
(* dropped, a published version keeps its row, a request keeps the         *)
(* template it found, and every job's inputs exist.                        *)
(*                                                                         *)
(* Module Designer: for files, caps and templates of any size and rows     *)
(* retried any number of times, an unmarked sample is all of the file that *)
(* its parser reads, and a row's step chain reads only responses it has    *)
(* and reports success only on records that belong together.               *)
(***************************************************************************)
EXTENDS Catalog, Designer, TLAPS, SequenceTheorems, FiniteSetTheorems,
        WellFoundedInduction

-----------------------------------------------------------------------------
(* The catalogue: the inductive invariant.                                 *)

Row == [org : Org, key : Key, version : Nat, published : BOOLEAN, live : BOOLEAN]

\* The local state of each handler and batch.  An upload that is to be
\* registered has stored its object.
ReqType ==
    {Idle}
    \cup [op : {"version"}, org : Org, key : Key]
    \cup [op : {"insert"}, org : Org, key : Key, version : Nat]
    \cup [op : {"put", "register"}, org : Org, content : Content, filename : Filename]
    \cup [op : {"resolve", "admit", "stage"}, org : Org, template : Nat, version : Nat,
          source : Org \X Content]
    \cup [op : {"staged"}, org : Org, source : Org \X Content]
    \cup [op : {"schedule"}, org : Org, template : Nat, version : Nat]

TypeInv ==
    /\ templates \in Seq(Row)
    /\ sources \in [Org \X Content -> Filename \cup {None}]
    /\ objects \subseteq Org \X Content
    /\ req \in [Request -> ReqType]

\* A row's number is at most its place, so the numbers of a key are bounded
\* and have a largest one.
VersionInv == \A id \in Ids : templates[id].version <= id

\* UNIQUE (org_id, template_key, version).
UniqueInv ==
    \A i, j \in Ids :
        /\ templates[i].live /\ templates[j].live
        /\ Name(templates[i]) = Name(templates[j])
        => i = j

\* bound names exactly the published rows, and these are live.
BoundInv ==
    /\ \A n \in DOMAIN bound :
          /\ bound[n] \in Ids
          /\ templates[bound[n]].live /\ templates[bound[n]].published
          /\ Name(templates[bound[n]]) = n
    /\ \A id \in Ids : templates[id].published =>
          /\ templates[id].live
          /\ Name(templates[id]) \in DOMAIN bound
          /\ bound[Name(templates[id])] = id

\* The published template a request or a job refers to, for organisation o
\* and under version v.
Refers(id, o, v) ==
    /\ id \in Ids
    /\ templates[id].published
    /\ templates[id].org = o /\ templates[id].version = v

\* The row a schedule or any job names.
Holds(id, o) == id \in Ids /\ Owned(id, o)

\* What a handler has found out still holds when it acts on it.
RequestOk(q) ==
    /\ q.op = "insert" => q.version <= Len(templates) + 1
    /\ q.op = "register" => <<q.org, q.content>> \in objects
    /\ q.op \in {"resolve", "admit", "stage"} => Refers(q.template, q.org, q.version)
    /\ q.op \in {"admit", "staged", "stage"} => q.source \in objects /\ q.source[1] = q.org
    /\ q.op = "schedule" => q.template \in Ids /\ templates[q.template].org = q.org

RequestInv == \A r \in Request : RequestOk(req[r])

SourceInv == \A s \in Org \X Content : sources[s] # None => s \in objects

ScheduleInv == \A s \in schedules : Holds(s.template, s.org)

JobInv ==
    \A j \in jobs :
        /\ \A src \in j.source : src \in objects /\ src[1] = j.org
        /\ Holds(j.template, j.org)
        /\ j.by \in {"api", "batch"} => Refers(j.template, j.org, j.version)

IInv ==
    /\ TypeInv /\ VersionInv /\ UniqueInv /\ BoundInv
    /\ RequestInv /\ SourceInv /\ ScheduleInv /\ JobInv

-----------------------------------------------------------------------------
(* The largest version. *)

\* Every non-empty set of naturals has a least element.
LEMMA LeastNat ==
    ASSUME NEW S \in SUBSET Nat, S # {}
    PROVE  \E x \in S : \A y \in S : x <= y
  <1>1. PICK x \in S : \A y \in S : ~ (<<y, x>> \in OpToRel(<, Nat))
    BY NatLessThanWellFounded, WFMin, Zenon
  <1>2. \A y \in S : ~ (y < x)
    BY <1>1, Zenon DEF OpToRel
  <1> QED
    BY <1>2

\* A set of naturals with an upper bound has the largest element that
\* COALESCE(MAX(version), 0) takes, and it is below the bound too.
LEMMA LargestNat ==
    ASSUME NEW S \in SUBSET Nat, NEW m \in Nat, \A y \in S : y <= m
    PROVE  Largest(S) \in 0 .. m /\ \A y \in S : y <= Largest(S)
  <1> DEFINE T == {n \in Nat : \A y \in S : y <= n}
  <1>1. m \in T
    OBVIOUS
  <1>2. PICK x \in T : \A y \in T : x <= y
    BY <1>1, LeastNat
  <1>3. x \in S \cup {0}
    <2> SUFFICES ASSUME x \notin S, x # 0 PROVE FALSE
      OBVIOUS
    <2>1. x - 1 \in T
      BY <1>2
    <2> QED
      BY <2>1, <1>2
  <1>4. PICK l \in S \cup {0} : l = Largest(S) /\ \A y \in S : y <= l
    BY <1>2, <1>3 DEF Largest
  <1>5. l \in 0 .. m
    BY <1>4
  <1> QED
    BY <1>4, <1>5

-----------------------------------------------------------------------------
(* Steps. *)

\* What every statement on rule_templates leaves as it is.
RowsKept ==
    /\ Len(templates) <= Len(templates')
    /\ \A id \in Ids :
          /\ id \in Ids'
          /\ Name(templates[id])' = Name(templates[id])
          /\ templates'[id].org = templates[id].org
          /\ templates'[id].version = templates[id].version
          /\ templates[id].published => templates'[id].published

\* The foreign keys: a row that a job or a schedule names is not dropped.
NamedKept ==
    \A x \in jobs \cup schedules :
        x.template \in Ids /\ templates[x.template].live => templates'[x.template].live

\* insert_template adds a draft under a version that no live row has.
LEMMA InsertTemplate ==
    ASSUME IInv, NEW r \in Request, NEW o \in Org, NEW k \in Key,
           NEW version \in Nat, version <= Len(templates) + 1,
           insert_template(r, o, k, version)
    PROVE  /\ templates' \in Seq(Row) /\ RowsKept /\ NamedKept
           /\ VersionInv' /\ UniqueInv' /\ BoundInv'
  <1> DEFINE new == [org |-> o, key |-> k, version |-> version,
                     published |-> FALSE, live |-> TRUE]
  <1>0. templates \in Seq(Row) /\ new \in Row
    BY DEF IInv, TypeInv, Row
  <1>1. CASE version \in VersionsOf(o, k)
    <2>1. templates' = templates /\ bound' = bound
      BY <1>1 DEF insert_template
    <2> QED
      BY <1>0, <2>1 DEF RowsKept, NamedKept, IInv, VersionInv, UniqueInv, BoundInv, Ids, Name
  <1>2. CASE version \notin VersionsOf(o, k)
    <2>1. templates' = Append(templates, new) /\ bound' = bound
      BY <1>2 DEF insert_template
    <2>2. /\ templates' \in Seq(Row)
          /\ Len(templates') = Len(templates) + 1
          /\ Ids = 1 .. Len(templates) /\ Ids' = 1 .. Len(templates) + 1
          /\ Len(templates) \in Nat
          /\ \A id \in Ids : templates'[id] = templates[id]
          /\ templates'[Len(templates) + 1] = new
      BY <1>0, <2>1 DEF Ids
    <2>3. RowsKept /\ NamedKept
      BY <2>2 DEF RowsKept, NamedKept, Name
    <2>4. VersionInv'
      BY <2>2 DEF IInv, VersionInv
    <2>5. \A id \in Ids : ~ (templates[id].live /\ Name(templates[id]) = Name(new))
      BY <1>2 DEF VersionsOf, Owned, Name
    <2>6. UniqueInv'
      BY <2>2, <2>5 DEF IInv, UniqueInv, Name
    <2>7. BoundInv'
      <3>1. \A id \in Ids : Name(templates'[id]) = Name(templates[id])
        BY <2>2
      <3>2. ~ templates'[Len(templates) + 1].published
        BY <2>2
      <3> QED
        BY <2>1, <2>2, <3>1, <3>2 DEF IInv, BoundInv
    <2> QED
      BY <2>2, <2>3, <2>4, <2>6, <2>7
  <1> QED
    BY <1>1, <1>2

\* publish_template binds the row's version to the row, once and for all.
LEMMA PublishTemplate ==
    ASSUME IInv, NEW r \in Request, NEW o \in Org, NEW id \in Ids,
           publish_template(r, o, id)
    PROVE  /\ templates' \in Seq(Row) /\ RowsKept /\ NamedKept
           /\ VersionInv' /\ UniqueInv' /\ BoundInv'
  <1>0. templates \in Seq(Row)
    BY DEF IInv, TypeInv
  <1>1. /\ templates' \in Seq(Row) /\ Len(templates') = Len(templates)
        /\ Ids' = Ids /\ Ids = 1 .. Len(templates)
        /\ \A i \in Ids : /\ templates'[i].live = templates[i].live
                          /\ templates'[i].org = templates[i].org
                          /\ templates'[i].key = templates[i].key
                          /\ templates'[i].version = templates[i].version
                          /\ i # id => templates'[i].published = templates[i].published
        /\ templates'[id].published
    <2>1. templates' = [templates EXCEPT ![id] = [templates[id] EXCEPT !.published = TRUE]]
      BY DEF publish_template
    <2> DEFINE new == [templates[id] EXCEPT !.published = TRUE]
    <2>2. Ids = 1 .. Len(templates)
      BY <1>0, LenProperties DEF Ids
    <2>3. templates[id] \in Row
      BY <1>0, <2>2, ElementOfSeq
    <2>4. /\ new \in Row /\ new.published
          /\ new.live = templates[id].live /\ new.org = templates[id].org
          /\ new.key = templates[id].key /\ new.version = templates[id].version
      BY <2>3 DEF Row
    <2> HIDE DEF new
    <2>5. /\ templates' \in Seq(Row) /\ Len(templates') = Len(templates)
          /\ \A i \in Ids : templates'[i] = IF i = id THEN new ELSE templates[i]
      BY <1>0, <2>1, <2>2, <2>4, ExceptSeq DEF new
    <2>6. Ids' = Ids
      BY <2>2, <2>5, LenProperties DEF Ids
    <2> QED
      BY <2>1, <2>2, <2>4, <2>5, <2>6
  <1>2. \A i \in Ids : Name(templates'[i]) = Name(templates[i])
    BY <1>1 DEF Name
  <1>3. RowsKept /\ NamedKept
    BY <1>1, <1>2 DEF RowsKept, NamedKept, Name
  <1>4. VersionInv'
    BY <1>1 DEF IInv, VersionInv
  <1>5. UniqueInv'
    BY <1>1, <1>2 DEF IInv, UniqueInv
  <1>6. /\ DOMAIN bound' = DOMAIN bound \cup {Name(templates[id])}
        /\ \A n \in DOMAIN bound : bound'[n] = bound[n]
        /\ Name(templates[id]) \notin DOMAIN bound => bound'[Name(templates[id])] = id
    BY DEF publish_template
  <1>7. templates[id].live
    BY DEF publish_template, Owned
  <1>8. bound'[Name(templates[id])] = id
    BY <1>6, <1>7 DEF IInv, BoundInv, UniqueInv
  <1>9. BoundInv'
    BY <1>1, <1>2, <1>6, <1>7, <1>8 DEF IInv, BoundInv
  <1> QED
    BY <1>1, <1>3, <1>4, <1>5, <1>9

\* delete_template takes drafts only.
LEMMA DeleteTemplate ==
    ASSUME IInv, NEW r \in Request, NEW o \in Org, NEW id \in Ids,
           delete_template(r, o, id)
    PROVE  /\ templates' \in Seq(Row) /\ RowsKept /\ NamedKept
           /\ VersionInv' /\ UniqueInv' /\ BoundInv'
  <1>0. templates \in Seq(Row)
    BY DEF IInv, TypeInv
  <1>1. /\ templates' \in Seq(Row) /\ Len(templates') = Len(templates)
        /\ Ids' = Ids /\ Ids = 1 .. Len(templates)
        /\ \A i \in Ids : /\ templates'[i].published = templates[i].published
                          /\ templates'[i].org = templates[i].org
                          /\ templates'[i].key = templates[i].key
                          /\ templates'[i].version = templates[i].version
                          /\ i # id => templates'[i].live = templates[i].live
        /\ ~ templates'[id].live /\ ~ templates[id].published
    <2>1. /\ templates' = [templates EXCEPT ![id] = [templates[id] EXCEPT !.live = FALSE]]
          /\ ~ templates[id].published
      BY DEF delete_template, Deletable
    <2> DEFINE new == [templates[id] EXCEPT !.live = FALSE]
    <2>2. Ids = 1 .. Len(templates)
      BY <1>0, LenProperties DEF Ids
    <2>3. templates[id] \in Row
      BY <1>0, <2>2, ElementOfSeq
    <2>4. /\ new \in Row /\ ~ new.live
          /\ new.published = templates[id].published /\ new.org = templates[id].org
          /\ new.key = templates[id].key /\ new.version = templates[id].version
      BY <2>3 DEF Row
    <2> HIDE DEF new
    <2>5. /\ templates' \in Seq(Row) /\ Len(templates') = Len(templates)
          /\ \A i \in Ids : templates'[i] = IF i = id THEN new ELSE templates[i]
      BY <1>0, <2>1, <2>2, <2>4, ExceptSeq DEF new
    <2>6. Ids' = Ids
      BY <2>2, <2>5, LenProperties DEF Ids
    <2> QED
      BY <2>1, <2>2, <2>4, <2>5, <2>6
  <1>2. \A i \in Ids : Name(templates'[i]) = Name(templates[i])
    BY <1>1 DEF Name
  <1>3. RowsKept
    BY <1>1, <1>2 DEF RowsKept, Name
  <1>n. NamedKept
    BY <1>1 DEF NamedKept, delete_template
  <1>4. VersionInv'
    BY <1>1 DEF IInv, VersionInv
  <1>5. UniqueInv'
    BY <1>1, <1>2 DEF IInv, UniqueInv
  <1>6. bound' = bound
    BY DEF delete_template
  <1>7. BoundInv'
    BY <1>1, <1>2, <1>6 DEF IInv, BoundInv
  <1> QED
    BY <1>1, <1>3, <1>n, <1>4, <1>5, <1>7

\* What a request or a job refers to stays: its template, and its object.
LEMMA RefersKept ==
    ASSUME RowsKept, NEW id, NEW o, NEW v, Refers(id, o, v)
    PROVE  Refers(id, o, v)'
  BY DEF RowsKept, Refers

\* So does the row it names, unless it is dropped.
LEMMA HoldsKept ==
    ASSUME RowsKept, NEW id, NEW o, Holds(id, o), templates'[id].live
    PROVE  Holds(id, o)'
  BY DEF RowsKept, Holds, Owned

\* What a handler has found out stays true while other requests insert,
\* publish and delete templates and store objects.
LEMMA RequestKept ==
    ASSUME IInv, RowsKept, templates' \in Seq(Row), objects \subseteq objects',
           NEW q \in ReqType, RequestOk(q)
    PROVE  RequestOk(q)'
  <1>1. Len(templates) \in Nat /\ Len(templates') \in Nat
    BY DEF IInv, TypeInv
  <1>2. q.op = "insert" => q.version \in Nat
    BY DEF ReqType, Idle
  <1>3. q.op \in {"resolve", "admit", "stage"} => Refers(q.template, q.org, q.version)'
    BY RefersKept DEF RequestOk
  <1> QED
    BY <1>1, <1>2, <1>3 DEF RequestOk, RowsKept

\* A step that moves at most one request on, to a state that is in order.
LEMMA RequestStep ==
    ASSUME IInv, RowsKept, templates' \in Seq(Row), objects \subseteq objects',
           NEW r \in Request, NEW q \in ReqType, RequestOk(q)',
           req' = [req EXCEPT ![r] = q]
    PROVE  req' \in [Request -> ReqType] /\ RequestInv'
  <1>1. /\ req' \in [Request -> ReqType]
        /\ \A s \in Request : req'[s] = IF s = r THEN q ELSE req[s]
        /\ \A s \in Request : req[s] \in ReqType
    BY DEF IInv, TypeInv
  <1>2. ASSUME NEW s \in Request, NEW p, p = req'[s]
        PROVE  RequestOk(p)'
    <2>1. CASE s = r
      BY <1>1, <1>2, <2>1
    <2>2. CASE s # r
      <3>1. p \in ReqType /\ RequestOk(p)
        BY <1>1, <1>2, <2>2 DEF IInv, RequestInv
      <3> QED
        BY <3>1, RequestKept
    <2> QED
      BY <2>1, <2>2
  <1> QED
    BY <1>1, <1>2 DEF RequestInv, RequestOk, Refers

\* A step that leaves the templates alone, moves one request on and keeps
\* stored what is stored.
LEMMA HandlerStep ==
    ASSUME IInv, UNCHANGED <<templates, bound>>,
           objects \subseteq objects', objects' \subseteq Org \X Content,
           NEW r \in Request, NEW q \in ReqType, RequestOk(q)',
           req' = [req EXCEPT ![r] = q]
    PROVE  /\ req' \in [Request -> ReqType] /\ templates' \in Seq(Row)
           /\ VersionInv' /\ UniqueInv' /\ BoundInv' /\ RequestInv'
  <1>1. RowsKept /\ templates' \in Seq(Row)
    BY DEF IInv, TypeInv, RowsKept, Ids, Name
  <1>2. VersionInv' /\ UniqueInv' /\ BoundInv'
    BY DEF IInv, VersionInv, UniqueInv, BoundInv, Ids, Name
  <1> QED
    BY <1>1, <1>2, RequestStep

\* A step of no request that leaves the templates alone.
LEMMA FreeStep ==
    ASSUME IInv, UNCHANGED <<templates, bound, req>>, objects \subseteq objects'
    PROVE  /\ req' \in [Request -> ReqType] /\ templates' \in Seq(Row)
           /\ VersionInv' /\ UniqueInv' /\ BoundInv' /\ RequestInv'
  <1>1. RowsKept /\ templates' \in Seq(Row)
    BY DEF IInv, TypeInv, RowsKept, Ids, Name
  <1>2. VersionInv' /\ UniqueInv' /\ BoundInv'
    BY DEF IInv, VersionInv, UniqueInv, BoundInv, Ids, Name
  <1>3. ASSUME NEW s \in Request, NEW p, p = req[s]
        PROVE  RequestOk(p)'
    BY <1>1, <1>3, RequestKept DEF IInv, TypeInv, RequestInv
  <1> QED
    BY <1>1, <1>2, <1>3 DEF IInv, TypeInv, RequestInv, RequestOk, Refers

\* What is stored and named stays so when a step only adds objects.
LEMMA NamedStep ==
    ASSUME IInv, UNCHANGED <<templates, schedules, jobs>>, objects \subseteq objects'
    PROVE  ScheduleInv' /\ JobInv'
  BY DEF IInv, ScheduleInv, JobInv, Holds, Owned, Refers, Ids

\* A handler's step that touches neither sources nor objects nor jobs.
LEMMA QuietStep ==
    ASSUME IInv, UNCHANGED <<templates, bound, sources, objects, schedules, jobs>>,
           NEW r \in Request, NEW q \in ReqType, RequestOk(q)',
           req' = [req EXCEPT ![r] = q]
    PROVE  IInv'
  <1>1. /\ req' \in [Request -> ReqType] /\ templates' \in Seq(Row)
        /\ VersionInv' /\ UniqueInv' /\ BoundInv' /\ RequestInv'
    BY HandlerStep DEF IInv, TypeInv
  <1>2. SourceInv' /\ ScheduleInv' /\ JobInv'
    BY NamedStep DEF IInv, SourceInv
  <1> QED
    BY <1>1, <1>2 DEF IInv, TypeInv

\* INSERT INTO jobs, or a conflict with a job that is there.
LEMMA InsertStep ==
    ASSUME IInv, UNCHANGED <<templates, objects, schedules>>,
           NEW by, NEW o, NEW id \in Ids, NEW version, NEW src,
           insert(by, o, id, version, src) \/ UNCHANGED jobs,
           \A x \in src : x \in objects /\ x[1] = o,
           templates[id].org = o,
           by \in {"api", "batch"} => Refers(id, o, version)
    PROVE  ScheduleInv' /\ JobInv'
  <1>1. \A j \in jobs' :
           \/ j \in jobs
           \/ /\ j = [by |-> by, org |-> o, template |-> id, version |-> version, source |-> src]
              /\ templates[id].live
    BY DEF insert
  <1>2. ScheduleInv'
    BY DEF IInv, ScheduleInv, Holds, Owned, Ids
  <1>3. JobInv'
    BY <1>1 DEF IInv, JobInv, Holds, Owned, Refers, Ids
  <1> QED
    BY <1>2, <1>3

\* An object that is stored may be registered.
LEMMA RegisterStep ==
    ASSUME IInv, UNCHANGED objects, NEW src \in objects, NEW f \in Filename,
           registerSource(src, f)
    PROVE  sources' \in [Org \X Content -> Filename \cup {None}] /\ SourceInv'
  BY DEF IInv, TypeInv, SourceInv, registerSource

\* A statement on rule_templates.
LEMMA TemplateStep ==
    ASSUME IInv, UNCHANGED <<sources, objects, schedules, jobs>>,
           templates' \in Seq(Row), RowsKept, NamedKept, VersionInv', UniqueInv', BoundInv',
           NEW r \in Request,
           req' = req \/ req' = [req EXCEPT ![r] = Idle]
    PROVE  IInv'
  <1>1. req' \in [Request -> ReqType] /\ RequestInv'
    <2>1. CASE req' = req
      <3>1. req' = [req EXCEPT ![r] = req[r]] /\ req[r] \in ReqType /\ RequestOk(req[r])
        BY <2>1 DEF IInv, TypeInv, RequestInv
      <3>2. PICK q \in ReqType : q = req[r]
        BY <3>1
      <3>3. RequestOk(q)'
        BY <3>1, <3>2, RequestKept
      <3> QED
        BY <3>1, <3>2, <3>3, RequestStep
    <2>2. CASE req' = [req EXCEPT ![r] = Idle]
      <3>1. PICK q \in ReqType : q = Idle
        BY DEF ReqType
      <3>2. RequestOk(q)'
        BY <3>1 DEF RequestOk, Idle
      <3> QED
        BY <2>2, <3>1, <3>2, RequestStep
    <2> QED
      BY <2>1, <2>2
  <1>2. SourceInv'
    BY DEF IInv, SourceInv
  <1>3. ASSUME NEW x \in jobs \cup schedules
        PROVE  Holds(x.template, x.org)'
    <2>1. Holds(x.template, x.org)
      BY <1>3 DEF IInv, JobInv, ScheduleInv
    <2>2. templates'[x.template].live
      BY <1>3, <2>1 DEF NamedKept, Holds, Owned
    <2> QED
      BY <2>1, <2>2, HoldsKept
  <1>4. ASSUME NEW j \in jobs, j.by \in {"api", "batch"}
        PROVE  Refers(j.template, j.org, j.version)'
    BY <1>4, RefersKept DEF IInv, JobInv
  <1>5. ScheduleInv' /\ JobInv'
    BY <1>3, <1>4 DEF IInv, ScheduleInv, JobInv
  <1> QED
    BY <1>1, <1>2, <1>5 DEF IInv, TypeInv

\* An empty catalog satisfies the invariant.
LEMMA IInvInit == Init => IInv
  <1> SUFFICES ASSUME Init PROVE IInv
    OBVIOUS
  <1>1. TypeInv
    BY DEF Init, TypeInv, ReqType
  <1>2. Ids = {} /\ DOMAIN bound = {}
    BY DEF Init, Ids
  <1>3. RequestInv
    BY DEF Init, RequestInv, RequestOk, Idle
  <1> QED
    BY <1>1, <1>2, <1>3
    DEF Init, IInv, VersionInv, UniqueInv, BoundInv, SourceInv, ScheduleInv, JobInv

\* create_template, create_version, snapshot_version, insert_version.
LEMMA VersionSteps ==
    ASSUME IInv, NEW r \in Request
    PROVE  /\ \A o \in Org, k \in Key : create_template(r, o, k) => IInv'
           /\ \A o \in Org, id \in Ids : create_version(r, o, id) => IInv'
           /\ snapshot_version(r) => IInv'
           /\ insert_version(r) => IInv'
  <1>0. /\ templates \in Seq(Row) /\ Len(templates) \in Nat /\ Ids = 1 .. Len(templates)
        /\ req \in [Request -> ReqType] /\ req[r] \in ReqType
    BY DEF IInv, TypeInv, Ids
  <1>r. \A id \in Ids : templates[id] \in Row
    BY <1>0, ElementOfSeq
  <1>1. ASSUME NEW o \in Org, NEW k \in Key, create_template(r, o, k) PROVE IInv'
    <2>1. insert_template(r, o, k, 1) /\ 1 <= Len(templates) + 1
      BY <1>0, <1>1 DEF create_template
    <2>2. UNCHANGED <<sources, objects, schedules, jobs>> /\ req' = [req EXCEPT ![r] = Idle]
      BY <2>1 DEF insert_template
    <2> QED
      BY <2>1, <2>2, InsertTemplate, TemplateStep
  <1>2. ASSUME NEW o \in Org, NEW id \in Ids, create_version(r, o, id) PROVE IInv'
    <2>1. templates[id].key \in Key
      BY <1>r DEF Row
    <2>2. PICK q \in ReqType : q = [op |-> "version", org |-> o, key |-> templates[id].key]
      BY <2>1 DEF ReqType
    <2>3. RequestOk(q)'
      BY <2>2 DEF RequestOk
    <2> QED
      BY <1>2, <2>2, <2>3, QuietStep DEF create_version
  <1>3. ASSUME snapshot_version(r) PROVE IInv'
    <2> DEFINE S == VersionsOf(req[r].org, req[r].key)
    <2>1. req[r].op = "version" /\ req[r].org \in Org /\ req[r].key \in Key
      BY <1>0, <1>3 DEF snapshot_version, ReqType, Idle
    <2>2. S \in SUBSET Nat /\ \A v \in S : v <= Len(templates)
      <3>1. \A id \in Ids : templates[id].version \in Nat /\ templates[id].version <= Len(templates)
        <4>1. \A id \in Ids : templates[id].version \in Nat
          BY <1>r DEF Row
        <4>2. \A id \in Ids : templates[id].version <= id
          BY DEF IInv, VersionInv
        <4> QED
          BY <1>0, <4>1, <4>2
      <3> QED
        BY <3>1 DEF VersionsOf
    <2>3. PICK l \in 0 .. Len(templates) : l = Largest(S)
      BY <1>0, <2>2, LargestNat
    <2>4. PICK q \in ReqType : q = [op |-> "insert", org |-> req[r].org, key |-> req[r].key,
                                    version |-> l + 1]
      <3>1. PICK v \in Nat : v = l + 1
        BY <1>0
      <3> QED
        BY <2>1, <3>1 DEF ReqType
    <2>5. RequestOk(q)'
      BY <1>0, <1>3, <2>3, <2>4 DEF RequestOk, snapshot_version
    <2>6. /\ req' = [req EXCEPT ![r] = q]
          /\ UNCHANGED <<templates, bound, sources, objects, schedules, jobs>>
      BY <1>0, <1>3, <2>3, <2>4 DEF snapshot_version
    <2> QED
      BY <2>5, <2>6, QuietStep
  <1>4. ASSUME insert_version(r) PROVE IInv'
    <2>1. /\ req[r].org \in Org /\ req[r].key \in Key /\ req[r].version \in Nat
          /\ req[r].version <= Len(templates) + 1
      <3>1. req[r].op = "insert" /\ RequestOk(req[r])
        BY <1>4 DEF insert_version, IInv, RequestInv
      <3>2. req[r].org \in Org /\ req[r].key \in Key /\ req[r].version \in Nat
        BY <1>0, <3>1 DEF ReqType, Idle
      <3> QED
        BY <3>1, <3>2 DEF RequestOk
    <2>2. insert_template(r, req[r].org, req[r].key, req[r].version)
      BY <1>4 DEF insert_version
    <2>3. UNCHANGED <<sources, objects, schedules, jobs>> /\ req' = [req EXCEPT ![r] = Idle]
      BY <2>2 DEF insert_template
    <2> QED
      BY <2>1, <2>2, <2>3, InsertTemplate, TemplateStep
  <1> QED
    BY <1>1, <1>2, <1>3, <1>4

\* upload_file, put_object, register_upload.
LEMMA UploadSteps ==
    ASSUME IInv, NEW r \in Request
    PROVE  /\ \A o \in Org, c \in Content, f \in Filename : upload_file(r, o, c, f) => IInv'
           /\ put_object(r) => IInv'
           /\ register_upload(r) => IInv'
  <1>0. req \in [Request -> ReqType] /\ req[r] \in ReqType
    BY DEF IInv, TypeInv
  <1>1. ASSUME NEW o \in Org, NEW c \in Content, NEW f \in Filename, upload_file(r, o, c, f)
        PROVE  IInv'
    <2>1. PICK q \in ReqType : q = [op |-> "put", org |-> o, content |-> c, filename |-> f]
      BY DEF ReqType
    <2>2. RequestOk(q)'
      BY <2>1 DEF RequestOk
    <2> QED
      BY <1>1, <2>1, <2>2, QuietStep DEF upload_file
  <1>2. ASSUME put_object(r) PROVE IInv'
    <2>1. /\ req[r].op = "put" /\ req[r].org \in Org /\ req[r].content \in Content
          /\ req[r].filename \in Filename
          /\ req[r] = [op |-> "put", org |-> req[r].org, content |-> req[r].content,
                       filename |-> req[r].filename]
      BY <1>0, <1>2 DEF put_object, ReqType, Idle
    <2>2. CASE req' = [req EXCEPT ![r] = Idle] /\ UNCHANGED objects
      <3>1. PICK q \in ReqType : q = Idle
        BY DEF ReqType
      <3>2. RequestOk(q)'
        BY <3>1 DEF RequestOk, Idle
      <3> QED
        BY <1>2, <2>2, <3>1, <3>2, QuietStep DEF put_object
    <2>3. CASE /\ objects' = objects \cup {<<req[r].org, req[r].content>>}
               /\ req' = [req EXCEPT ![r] = [@ EXCEPT !.op = "register"]]
      <3>1. PICK q \in ReqType : q = [op |-> "register", org |-> req[r].org,
                                      content |-> req[r].content, filename |-> req[r].filename]
        BY <2>1 DEF ReqType
      <3>2. req' = [req EXCEPT ![r] = q]
        <4>1. PICK p : p = req[r] /\ p = [op |-> "put", org |-> p.org, content |-> p.content,
                                           filename |-> p.filename]
          BY <2>1
        <4>2. [p EXCEPT !.op = "register"] = q
          BY <3>1, <4>1
        <4> QED
          BY <2>3, <4>1, <4>2
      <3>3. RequestOk(q)'
        BY <2>3, <3>1 DEF RequestOk
      <3>4. objects \subseteq objects' /\ objects' \subseteq Org \X Content
        BY <2>1, <2>3 DEF IInv, TypeInv
      <3>5. UNCHANGED <<templates, bound, sources, schedules, jobs>>
        BY <1>2 DEF put_object
      <3>6. /\ req' \in [Request -> ReqType] /\ templates' \in Seq(Row)
            /\ VersionInv' /\ UniqueInv' /\ BoundInv' /\ RequestInv'
        BY <3>2, <3>3, <3>4, <3>5, HandlerStep
      <3>7. SourceInv' /\ ScheduleInv' /\ JobInv'
        BY <3>4, <3>5, NamedStep DEF IInv, SourceInv
      <3> QED
        BY <3>4, <3>5, <3>6, <3>7 DEF IInv, TypeInv
    <2> QED
      BY <1>2, <2>2, <2>3 DEF put_object
  <1>3. ASSUME register_upload(r) PROVE IInv'
    <2>1. /\ req[r].op = "register" /\ req[r].org \in Org /\ req[r].content \in Content
          /\ req[r].filename \in Filename
      BY <1>0, <1>3 DEF register_upload, ReqType, Idle
    <2>2. <<req[r].org, req[r].content>> \in objects
      BY <2>1 DEF IInv, RequestInv, RequestOk
    <2>3. PICK q \in ReqType : q = Idle
      BY DEF ReqType
    <2>4. RequestOk(q)'
      BY <2>3 DEF RequestOk, Idle
    <2>5. UNCHANGED <<templates, bound, objects, schedules, jobs>>
      BY <1>3 DEF register_upload
    <2>6. /\ req' \in [Request -> ReqType] /\ templates' \in Seq(Row)
          /\ VersionInv' /\ UniqueInv' /\ BoundInv' /\ RequestInv'
      BY <1>3, <2>3, <2>4, <2>5, HandlerStep DEF register_upload, IInv, TypeInv
    <2>7. sources' \in [Org \X Content -> Filename \cup {None}] /\ SourceInv'
      BY <1>3, <2>1, <2>2, <2>5 DEF register_upload, IInv, TypeInv, SourceInv
    <2>8. ScheduleInv' /\ JobInv'
      BY <2>5, NamedStep
    <2> QED
      BY <2>5, <2>6, <2>7, <2>8 DEF IInv, TypeInv
  <1> QED
    BY <1>1, <1>2, <1>3

\* create_job, resolve_source, insert_job.
LEMMA AdmissionSteps ==
    ASSUME IInv, NEW r \in Request
    PROVE  /\ \A o \in Org, src \in Org \X Content, id \in Ids : create_job(r, o, id, src) => IInv'
           /\ resolve_source(r) => IInv'
           /\ insert_job(r) => IInv'
  <1>0. /\ req \in [Request -> ReqType] /\ req[r] \in ReqType
        /\ templates \in Seq(Row) /\ Len(templates) \in Nat /\ Ids = 1 .. Len(templates)
    BY DEF IInv, TypeInv, Ids
  <1>r. \A id \in Ids : templates[id] \in Row
    BY <1>0, ElementOfSeq
  <1>1. ASSUME NEW o \in Org, NEW src \in Org \X Content, NEW id \in Ids, create_job(r, o, id, src)
        PROVE  IInv'
    <2>1. templates[id].version \in Nat /\ id \in Nat
      BY <1>0, <1>r DEF Row
    <2>2. PICK q \in ReqType : q = [op |-> "resolve", org |-> o, template |-> id,
                                    version |-> templates[id].version, source |-> src]
      BY <2>1 DEF ReqType
    <2>3. RequestOk(q)'
      BY <1>1, <2>2 DEF RequestOk, Refers, create_job, Usable, Owned, Ids
    <2> QED
      BY <1>1, <2>2, <2>3, QuietStep DEF create_job
  <1>2. ASSUME resolve_source(r) PROVE IInv'
    <2> DEFINE filename == resolve(req[r].org, req[r].source)
    <2>1. /\ req[r].op = "resolve" /\ req[r].org \in Org /\ req[r].template \in Nat
          /\ req[r].version \in Nat /\ req[r].source \in Org \X Content
      BY <1>0, <1>2 DEF resolve_source, ReqType, Idle
    <2>2. UNCHANGED <<templates, sources, objects, schedules, jobs, bound>>
      BY <1>2 DEF resolve_source
    <2>3. CASE filename = None
      <3>1. PICK q \in ReqType : q = Idle
        BY DEF ReqType
      <3>2. RequestOk(q)'
        BY <3>1 DEF RequestOk, Idle
      <3> QED
        BY <1>2, <2>2, <2>3, <3>1, <3>2, QuietStep DEF resolve_source
    <2>4. CASE filename # None
      <3>1. req[r].source \in objects /\ req[r].source[1] = req[r].org
        BY <2>1, <2>4 DEF resolve, IInv, TypeInv, SourceInv
      <3>2. PICK q \in ReqType : q = [op |-> "admit", org |-> req[r].org,
                                      template |-> req[r].template, version |-> req[r].version,
                                      source |-> req[r].source]
        BY <2>1 DEF ReqType
      <3>3. Refers(req[r].template, req[r].org, req[r].version)
        BY <2>1 DEF IInv, RequestInv, RequestOk
      <3>4. RequestOk(q)'
        BY <2>2, <3>1, <3>2, <3>3 DEF RequestOk, Refers, Ids
      <3>5. req' = [req EXCEPT ![r] = q]
        BY <1>2, <2>4, <3>2 DEF resolve_source
      <3> QED
        BY <2>2, <3>2, <3>4, <3>5, QuietStep
    <2> QED
      BY <2>3, <2>4
  <1>3. ASSUME insert_job(r) PROVE IInv'
    <2>1. PICK q \in ReqType : q = Idle
      BY DEF ReqType
    <2>2. RequestOk(q)'
      BY <2>1 DEF RequestOk, Idle
    <2>3. UNCHANGED <<templates, sources, objects, schedules, bound>> /\ req' = [req EXCEPT ![r] = q]
      BY <1>3, <2>1 DEF insert_job
    <2>4. /\ req' \in [Request -> ReqType] /\ templates' \in Seq(Row)
          /\ VersionInv' /\ UniqueInv' /\ BoundInv' /\ RequestInv'
      BY <2>2, <2>3, HandlerStep DEF IInv, TypeInv
    <2>5. /\ Refers(req[r].template, req[r].org, req[r].version)
          /\ req[r].source \in objects /\ req[r].source[1] = req[r].org
      BY <1>3 DEF insert_job, IInv, RequestInv, RequestOk
    <2>6. insert("api", req[r].org, req[r].template, req[r].version, {req[r].source})
      BY <1>3 DEF insert_job
    <2>7. req[r].template \in Ids /\ templates[req[r].template].org = req[r].org
      BY <2>5 DEF Refers
    <2>8. \A x \in {req[r].source} : x \in objects /\ x[1] = req[r].org
      BY <2>5
    <2>9. ScheduleInv' /\ JobInv'
      BY <2>3, <2>5, <2>6, <2>7, <2>8, InsertStep
    <2> QED
      BY <2>3, <2>4, <2>9 DEF IInv, TypeInv, SourceInv
  <1> QED
    BY <1>1, <1>2, <1>3

\* UnpackAndStageArchive, MaterializeBatchStages, StartBatchStageJob.
LEMMA BatchSteps ==
    ASSUME IInv, NEW r \in Request
    PROVE  /\ \A o \in Org, a, c \in Content : UnpackAndStageArchive(r, o, a, c) => IInv'
           /\ \A k \in Key : MaterializeBatchStages(r, k) => IInv'
           /\ \A f \in Filename : StartBatchStageJob(r, f) => IInv'
  <1>0. /\ req \in [Request -> ReqType] /\ req[r] \in ReqType
        /\ templates \in Seq(Row) /\ Len(templates) \in Nat /\ Ids = 1 .. Len(templates)
    BY DEF IInv, TypeInv, Ids
  <1>r. \A id \in Ids : templates[id] \in Row
    BY <1>0, ElementOfSeq
  <1>i. PICK idle \in ReqType : idle = Idle
    BY DEF ReqType
  <1>j. RequestOk(idle)'
    BY <1>i DEF RequestOk, Idle
  <1>1. ASSUME NEW o \in Org, NEW a \in Content, NEW c \in Content,
               UnpackAndStageArchive(r, o, a, c)
        PROVE  IInv'
    <2>1. PICK q \in ReqType : q = [op |-> "staged", org |-> o, source |-> <<o, c>>]
      BY DEF ReqType
    <2>2. /\ UNCHANGED <<templates, sources, schedules, jobs, bound>>
          /\ objects' = objects \cup {<<o, c>>} /\ req' = [req EXCEPT ![r] = q]
      BY <1>1, <2>1 DEF UnpackAndStageArchive
    <2>3. RequestOk(q)'
      BY <2>1, <2>2 DEF RequestOk
    <2>4. objects \subseteq objects' /\ objects' \subseteq Org \X Content
      BY <2>2 DEF IInv, TypeInv
    <2>5. /\ req' \in [Request -> ReqType] /\ templates' \in Seq(Row)
          /\ VersionInv' /\ UniqueInv' /\ BoundInv' /\ RequestInv'
      BY <2>2, <2>3, <2>4, HandlerStep
    <2>6. SourceInv' /\ ScheduleInv' /\ JobInv'
      BY <2>2, <2>4, NamedStep DEF IInv, SourceInv
    <2> QED
      BY <2>2, <2>4, <2>5, <2>6 DEF IInv, TypeInv
  <1>2. ASSUME NEW k \in Key, MaterializeBatchStages(r, k) PROVE IInv'
    <2>1. /\ req[r].op = "staged" /\ req[r].org \in Org /\ req[r].source \in Org \X Content
      BY <1>0, <1>2 DEF MaterializeBatchStages, ReqType, Idle
    <2>2. UNCHANGED <<templates, bound, sources, objects, schedules, jobs>>
      BY <1>2 DEF MaterializeBatchStages
    <2>3. ASSUME NEW id \in Ids, Usable(id, req[r].org),
                 req' = [req EXCEPT ![r] =
                            [op |-> "stage", org |-> req[r].org, template |-> id,
                             version |-> templates[id].version, source |-> req[r].source]]
          PROVE  IInv'
      <3>1. templates[id].version \in Nat /\ id \in Nat
        BY <1>0, <1>r DEF Row
      <3>2. PICK q \in ReqType : q = [op |-> "stage", org |-> req[r].org, template |-> id,
                                      version |-> templates[id].version, source |-> req[r].source]
        BY <2>1, <3>1 DEF ReqType
      <3>3. req[r].source \in objects /\ req[r].source[1] = req[r].org
        BY <2>1 DEF IInv, RequestInv, RequestOk
      <3>4. RequestOk(q)'
        BY <2>2, <2>3, <3>2, <3>3 DEF RequestOk, Refers, Usable, Owned, Ids
      <3> QED
        BY <2>2, <2>3, <3>2, <3>4, QuietStep
    <2>4. CASE req' = [req EXCEPT ![r] = Idle]
      BY <1>i, <1>j, <2>2, <2>4, QuietStep
    <2> QED
      BY <1>2, <2>3, <2>4 DEF MaterializeBatchStages
  <1>3. ASSUME NEW f \in Filename, StartBatchStageJob(r, f) PROVE IInv'
    <2>1. /\ req[r].op = "stage" /\ registerSource(req[r].source, f)
          /\ UNCHANGED <<templates, objects, schedules, bound>>
          /\ req' = [req EXCEPT ![r] = idle]
          /\ \/ insert("batch", req[r].org, req[r].template, req[r].version, {req[r].source})
             \/ UNCHANGED jobs
      BY <1>3, <1>i DEF StartBatchStageJob
    <2>2. /\ Refers(req[r].template, req[r].org, req[r].version)
          /\ req[r].source \in objects /\ req[r].source[1] = req[r].org
      BY <2>1 DEF IInv, RequestInv, RequestOk
    <2>3. /\ req' \in [Request -> ReqType] /\ templates' \in Seq(Row)
          /\ VersionInv' /\ UniqueInv' /\ BoundInv' /\ RequestInv'
      BY <1>j, <2>1, HandlerStep DEF IInv, TypeInv
    <2>4. req[r].template \in Ids /\ templates[req[r].template].org = req[r].org
      BY <2>2 DEF Refers
    <2>5. \A x \in {req[r].source} : x \in objects /\ x[1] = req[r].org
      BY <2>2
    <2>6. ScheduleInv' /\ JobInv'
      BY <2>1, <2>2, <2>4, <2>5, InsertStep
    <2>7. sources' \in [Org \X Content -> Filename \cup {None}] /\ SourceInv'
      BY <2>1, <2>2, RegisterStep
    <2> QED
      BY <2>1, <2>3, <2>6, <2>7 DEF IInv, TypeInv
  <1> QED
    BY <1>1, <1>2, <1>3

\* create_schedule, insert_schedule.
LEMMA ScheduleRequestSteps ==
    ASSUME IInv, NEW r \in Request
    PROVE  /\ \A o \in Org, id \in Ids, v \in Nat : create_schedule(r, o, id, v) => IInv'
           /\ insert_schedule(r) => IInv'
  <1>0. /\ req \in [Request -> ReqType] /\ req[r] \in ReqType
        /\ Len(templates) \in Nat /\ Ids = 1 .. Len(templates)
    BY DEF IInv, TypeInv, Ids
  <1>1. ASSUME NEW o \in Org, NEW id \in Ids, NEW v \in Nat, create_schedule(r, o, id, v)
        PROVE  IInv'
    <2>i. id \in Nat
      BY <1>0
    <2>1. PICK q \in ReqType : q = [op |-> "schedule", org |-> o, template |-> id, version |-> v]
      BY <2>i DEF ReqType
    <2>2. RequestOk(q)'
      BY <1>1, <2>1 DEF RequestOk, create_schedule, Owned, Ids
    <2> QED
      BY <1>1, <2>1, <2>2, QuietStep DEF create_schedule
  <1>2. ASSUME insert_schedule(r) PROVE IInv'
    <2>1. PICK q \in ReqType : q = Idle
      BY DEF ReqType
    <2>2. RequestOk(q)'
      BY <2>1 DEF RequestOk, Idle
    <2>3. UNCHANGED <<templates, sources, objects, jobs, bound>> /\ req' = [req EXCEPT ![r] = q]
      BY <1>2, <2>1 DEF insert_schedule
    <2>4. /\ req' \in [Request -> ReqType] /\ templates' \in Seq(Row)
          /\ VersionInv' /\ UniqueInv' /\ BoundInv' /\ RequestInv'
      BY <2>2, <2>3, HandlerStep DEF IInv, TypeInv
    <2>5. req[r].template \in Ids /\ templates[req[r].template].org = req[r].org
      BY <1>2 DEF insert_schedule, IInv, RequestInv, RequestOk
    <2>6. \A s \in schedules' :
             \/ s \in schedules
             \/ /\ s = [org |-> req[r].org, template |-> req[r].template,
                        version |-> req[r].version]
                /\ templates[req[r].template].live
      BY <1>2 DEF insert_schedule
    <2>7. ScheduleInv'
      BY <2>3, <2>5, <2>6 DEF IInv, ScheduleInv, Holds, Owned, Ids
    <2>8. SourceInv' /\ JobInv'
      BY <2>3 DEF IInv, SourceInv, JobInv, Holds, Owned, Refers, Ids
    <2> QED
      BY <2>3, <2>4, <2>7, <2>8 DEF IInv, TypeInv
  <1> QED
    BY <1>1, <1>2

\* delete_schedule, BootstrapScheduledJob, StartWatchObjectJob.
LEMMA ScheduleSteps ==
    ASSUME IInv, NEW s \in schedules
    PROVE  /\ delete_schedule(s) => IInv'
           /\ BootstrapScheduledJob(s) => IInv'
           /\ \A src \in Org \X Content, f \in Filename : StartWatchObjectJob(s, src, f) => IInv'
  <1>0. s.template \in Ids /\ templates[s.template].org = s.org
    BY DEF IInv, ScheduleInv, Holds, Owned
  <1>1. ASSUME delete_schedule(s) PROVE IInv'
    <2>1. UNCHANGED <<templates, sources, objects, jobs, req, bound>> /\ schedules' \subseteq schedules
      BY <1>1 DEF delete_schedule
    <2>2. ScheduleInv' /\ SourceInv' /\ JobInv'
      BY <2>1 DEF IInv, ScheduleInv, SourceInv, JobInv, Holds, Owned, Refers, Ids
    <2> QED
      BY <2>1, <2>2, FreeStep DEF IInv, TypeInv
  <1>2. ASSUME BootstrapScheduledJob(s) PROVE IInv'
    <2>1. /\ UNCHANGED <<templates, sources, objects, schedules, req, bound>>
          /\ insert("scheduled", s.org, s.template, s.version, {})
      BY <1>2 DEF BootstrapScheduledJob
    <2>2. ScheduleInv' /\ JobInv'
      BY <1>0, <2>1, InsertStep
    <2> QED
      BY <2>1, <2>2, FreeStep DEF IInv, TypeInv, SourceInv
  <1>3. ASSUME NEW src \in Org \X Content, NEW f \in Filename, StartWatchObjectJob(s, src, f)
        PROVE  IInv'
    <2>1. /\ UNCHANGED <<templates, objects, schedules, req, bound>>
          /\ src \in objects /\ src[1] = s.org /\ registerSource(src, f)
          /\ \/ insert("watch", s.org, s.template, s.version, {src})
             \/ UNCHANGED jobs
      BY <1>3 DEF StartWatchObjectJob
    <2>2. \A x \in {src} : x \in objects /\ x[1] = s.org
      BY <2>1
    <2>3. ScheduleInv' /\ JobInv'
      <3>1. PICK one : one = {src}
        OBVIOUS
      <3>2. /\ insert("watch", s.org, s.template, s.version, one) \/ UNCHANGED jobs
            /\ \A x \in one : x \in objects /\ x[1] = s.org
        BY <2>1, <2>2, <3>1
      <3>3. "watch" \in {"api", "batch"} => Refers(s.template, s.org, s.version)
        OBVIOUS
      <3> QED
        BY <1>0, <2>1, <3>2, <3>3, InsertStep
    <2>4. sources' \in [Org \X Content -> Filename \cup {None}] /\ SourceInv'
      BY <2>1, RegisterStep
    <2> QED
      BY <2>1, <2>3, <2>4, FreeStep DEF IInv, TypeInv
  <1> QED
    BY <1>1, <1>2, <1>3

\* object_written.
LEMMA ObjectWritten ==
    ASSUME IInv, NEW o \in Org, NEW c \in Content, object_written(o, c)
    PROVE  IInv'
  <1>1. /\ UNCHANGED <<templates, sources, schedules, jobs, req, bound>>
        /\ objects' = objects \cup {<<o, c>>}
    BY DEF object_written
  <1>2. objects \subseteq objects' /\ objects' \subseteq Org \X Content
    BY <1>1 DEF IInv, TypeInv
  <1>3. SourceInv' /\ ScheduleInv' /\ JobInv'
    BY <1>1, <1>2, NamedStep DEF IInv, SourceInv
  <1> QED
    BY <1>1, <1>2, <1>3, FreeStep DEF IInv, TypeInv

\* Every statement of every handler, and a dropped handler, keeps the invariant.
LEMMA IInvNext == IInv /\ [Next]_vars => IInv'
  <1> SUFFICES ASSUME IInv, [Next]_vars PROVE IInv'
    OBVIOUS
  <1>1. ASSUME NEW r \in Request, NEW o \in Org, NEW id \in Ids, publish_template(r, o, id)
        PROVE  IInv'
    BY <1>1, PublishTemplate, TemplateStep DEF publish_template
  <1>2. ASSUME NEW r \in Request, NEW o \in Org, NEW id \in Ids, delete_template(r, o, id)
        PROVE  IInv'
    BY <1>2, DeleteTemplate, TemplateStep DEF delete_template
  <1>3. ASSUME NEW r \in Request, drop_request(r) PROVE IInv'
    <2>1. PICK q \in ReqType : q = Idle
      BY DEF ReqType
    <2>2. RequestOk(q)'
      BY <2>1 DEF RequestOk, Idle
    <2> QED
      BY <1>3, <2>1, <2>2, QuietStep DEF drop_request
  <1>4. CASE UNCHANGED vars
    BY <1>4 DEF vars, IInv, TypeInv, VersionInv, UniqueInv, BoundInv, RequestInv, RequestOk,
                SourceInv, ScheduleInv, JobInv, Holds, Owned, Refers, Ids, Name
  <1>5. 1 .. MaxTemplates \subseteq Nat
    BY CatalogAssumption
  <1> QED
    BY <1>1, <1>2, <1>3, <1>4, <1>5, VersionSteps, UploadSteps, AdmissionSteps, BatchSteps,
       ScheduleRequestSteps, ScheduleSteps, ObjectWritten DEF Next

-----------------------------------------------------------------------------
(* The theorems about the catalogue. *)

\* The invariant holds in every reachable state.
THEOREM Invariance == Spec => []IInv
  BY IInvInit, IInvNext, PTL DEF Spec

\* A published version keeps its row, however create_version, publish_template
\* and delete_template of any number of requests interleave: the draft a
\* version number is given to a second time is never one that was published.
THEOREM PublishedVersionFixedHolds == Spec => []PublishedVersionFixed
  <1>1. IInv => PublishedVersionFixed
    BY DEF IInv, BoundInv, UniqueInv, PublishedVersionFixed
  <1> QED
    BY <1>1, Invariance, PTL

\* insert_job is never refused for its template: delete_template spares every
\* row that create_job or MaterializeBatchStages has found.
THEOREM TemplateStaysHolds == Spec => []TemplateStaysUntilAdmitted
  <1>1. IInv => TemplateStaysUntilAdmitted
    BY DEF IInv, BoundInv, RequestInv, RequestOk, Refers, TemplateStaysUntilAdmitted
  <1> QED
    BY <1>1, Invariance, PTL

\* Whoever admitted a job, its object is stored and its template is a row of
\* its organisation; for the jobs of the API and of batches that row is the
\* published one its key and version name. Dropped handlers, deleted drafts
\* and deleted schedules do not change that.
THEOREM JobInputsExistHolds == Spec => []JobInputsExist
  <1>1. IInv => JobInputsExist
    BY DEF IInv, BoundInv, JobInv, Holds, Refers, JobInputsExist
  <1> QED
    BY <1>1, Invariance, PTL

-----------------------------------------------------------------------------
(* The session: the inductive invariant. What a retry takes over and what  *)
(* it repeats is the heart of it: ResumeInv says that a step the pass has  *)
(* still to run anew has no succeeded record, so that no record rests on   *)
(* one that is about to be replaced.                                       *)

\* A step as the JSON schema lets it through.
StepOf == [name : StepName \cup {"main"}, refs : SUBSET StepName, continues : BOOLEAN,
           destination : Destination]

\* Responses, by the name of the step they belong to: the pass they are from.
Responses == UNION {[D -> Nat] : D \in SUBSET (StepName \cup {"main"})}

\* What persistStep writes of a step.
StepRecord == [status : {Absent, "succeeded", "failed", "unresolved"}, pass : Nat,
               used : Responses]

\* The chain of a row over a template.
ChainOf(t) ==
    [pass : Nat, pos : 1 .. Len(t) + 1, responses : Responses, resume : Responses,
     failed : SUBSET (StepName \cup {"main"}),
     status : {Absent, "succeeded", "failed", "unresolved"}, restarted : BOOLEAN,
     steps : [1 .. Len(t) -> StepRecord]]

\* What a session may be doing.
Stage == {"object", "sampled", "editing", "asking", "suggested", "refused", "running"}

\* Each phase of the session keeps what the next one needs; the LLM is asked
\* while it has given fewer than two answers.
SessionTypeInv ==
    /\ stage \in Stage
    /\ attempt \in 0 .. 2
    /\ stage = "asking" => attempt < 2
    /\ stage \in {"object", "sampled"} => object \in Object
    /\ stage = "sampled" => sampled = SampleOf(object)
    /\ stage = "suggested" => template \in Template
    /\ stage = "running" =>
          /\ template \in Template /\ validate_step_references(template)
          /\ chain \in ChainOf(template)

\* A pass that goes on, or that ended with success, has a response or a
\* tolerated failure of every step it has passed.
PassedInv(t, c) ==
    /\ c.status = Absent => c.pos <= Len(t)
    /\ c.status \in {Absent, "succeeded"} =>
          \A j \in 1 .. c.pos - 1 : t[j].name \in DOMAIN c.responses \cup c.failed
    /\ c.status = "succeeded" => c.failed = {} /\ c.pos = Len(t) + 1

\* What a resumed pass starts from are the succeeded records, and those of
\* the steps it has still to pass are all among it.
ResumeInv(t, c) ==
    \A j \in 1 .. Len(t) :
        /\ t[j].name \in DOMAIN c.resume =>
              c.steps[j].status = "succeeded" /\ c.resume[t[j].name] = c.steps[j].pass
        /\ j >= c.pos /\ c.steps[j].status = "succeeded" => t[j].name \in DOMAIN c.resume

\* A response of the pass is the one its step is recorded with.
ResponseInv(t, c) ==
    \A j \in 1 .. Len(t) :
        t[j].name \in DOMAIN c.responses =>
            /\ j < c.pos
            /\ c.steps[j].status = "succeeded"
            /\ c.responses[t[j].name] = c.steps[j].pass

\* A step is recorded as succeeded only on top of the records it used.
RecordInv(t, steps) ==
    \A i, j \in 1 .. Len(t) :
        steps[i].status = "succeeded" /\ t[j].name \in t[i].refs =>
            /\ steps[j].status = "succeeded"
            /\ t[j].name \in DOMAIN steps[i].used
            /\ steps[i].used[t[j].name] = steps[j].pass

\* The records of a row with several steps that was never restarted.
CoherentInv(t, c) ==
    Len(t) > 1 /\ ~c.restarted =>
        ResumeInv(t, c) /\ ResponseInv(t, c) /\ RecordInv(t, c.steps)

\* The invariant of the row on its way through the template.
ChainInv == stage = "running" => PassedInv(template, chain) /\ CoherentInv(template, chain)

\* The invariant of the session.
SessionInv == SessionTypeInv /\ ChainInv

-----------------------------------------------------------------------------
(* The step chain. *)

\* A template is a non-empty sequence of steps.
LEMMA TemplateFacts ==
  ASSUME NEW t \in Template
  PROVE  /\ Len(t) \in Nat \ {0}
         /\ DOMAIN t = 1 .. Len(t)
         /\ \A i \in 1 .. Len(t) : t[i] \in StepOf
<1>1. PlainDestination \in Destination
  BY DEF PlainDestination, Destination
<1>2. CASE t \in BoundedSeq([name : StepName, refs : SUBSET StepName, continues : BOOLEAN,
                             destination : {PlainDestination}], MaxSteps) /\ t # <<>>
  <2> DEFINE P == [name : StepName, refs : SUBSET StepName, continues : BOOLEAN,
                   destination : {PlainDestination}]
  <2>1. PICK n \in 0 .. MaxSteps : t \in [1 .. n -> P]
    BY <1>2 DEF BoundedSeq, SeqOf
  <2>2. n \in Nat /\ n # 0
    BY <2>1, <1>2
  <2>3. P \subseteq StepOf
    BY <1>1 DEF StepOf
  <2> HIDE DEF P
  <2>4. t \in Seq(P) /\ Len(t) = n
    BY <2>1, <2>2
  <2> QED
    BY <2>1, <2>2, <2>3, <2>4
<1>3. CASE \E s \in [name : {"main"}, refs : {{}}, continues : {FALSE},
                     destination : Destination] : t = <<s>>
  <2>1. PICK s \in [name : {"main"}, refs : {{}}, continues : {FALSE},
                    destination : Destination] : t = <<s>>
    BY <1>3
  <2>2. s \in StepOf
    BY <2>1 DEF StepOf
  <2>3. Len(t) = 1 /\ DOMAIN t = 1 .. 1 /\ t[1] = s
    BY <2>1
  <2> QED
    BY <2>2, <2>3
<1> QED
  BY <1>2, <1>3 DEF Template

\* What validate_step_references ensures: names are unique, and a step refers
\* only to steps before it.
LEMMA ReferencesSeen ==
  ASSUME NEW t \in Template, validate_step_references(t)
  PROVE  /\ \A i, j \in 1 .. Len(t) : t[i].name = t[j].name => i = j
         /\ \A i \in 1 .. Len(t) : \A r \in t[i].refs : \E j \in 1 .. i - 1 : t[j].name = r
<1>1. \A i, j \in 1 .. Len(t) : j < i => t[i].name # t[j].name
  BY TemplateFacts DEF validate_step_references
<1>2. \A i, j \in 1 .. Len(t) : t[i].name = t[j].name => i = j
  <2>1. Len(t) \in Nat
    BY TemplateFacts
  <2> QED
    BY <1>1, <2>1
<1>3. \A i \in 1 .. Len(t) : \A r \in t[i].refs : \E j \in 1 .. i - 1 : t[j].name = r
  BY TemplateFacts DEF validate_step_references
<1> QED
  BY <1>2, <1>3

\* Storing a response keeps the type of the responses.
LEMMA PutType ==
  ASSUME NEW f \in Responses, NEW k \in StepName \cup {"main"}, NEW v \in Nat
  PROVE  Put(f, k, v) \in Responses
<1>1. PICK D \in SUBSET (StepName \cup {"main"}) : f \in [D -> Nat]
  BY DEF Responses
<1>2. Put(f, k, v) \in [D \cup {k} -> Nat]
  BY <1>1 DEF Put
<1>3. D \cup {k} \in SUBSET (StepName \cup {"main"})
  OBVIOUS
<1> QED
  BY <1>2, <1>3 DEF Responses

\* Every way of passing a step, but for an unresolved call, leaves a response
\* or a failure of it.
LEMMA PassedStep ==
  ASSUME NEW t \in Template, NEW c \in ChainOf(t), NEW d \in ChainOf(t),
         PassedInv(t, c), c.status = Absent,
         d.pos = c.pos + 1,
         DOMAIN c.responses \cup c.failed \cup {t[c.pos].name}
            \subseteq DOMAIN d.responses \cup d.failed,
         d.status = Absent => c.pos # Len(t),
         d.status = "succeeded" => d.failed = {} /\ c.pos = Len(t)
  PROVE  PassedInv(t, d)
<1>1. Len(t) \in Nat \ {0} /\ c.pos \in 1 .. Len(t) /\ d.pos \in 1 .. Len(t) + 1
  BY TemplateFacts DEF PassedInv, ChainOf
<1>2. ASSUME NEW j \in 1 .. d.pos - 1
      PROVE  t[j].name \in DOMAIN d.responses \cup d.failed
  <2>1. CASE j = c.pos
    BY <2>1
  <2>2. CASE j \in 1 .. c.pos - 1
    BY <2>2 DEF PassedInv
  <2> QED
    BY <1>1, <1>2, <2>1, <2>2
<1>3. d.status = Absent => d.pos <= Len(t)
  BY <1>1
<1> QED
  BY <1>1, <1>2, <1>3 DEF PassedInv

\* A step passed with its persisted response.
LEMMA CoherentSkip ==
  ASSUME NEW t \in Template, validate_step_references(t),
         NEW c \in ChainOf(t), NEW d \in ChainOf(t), NEW name,
         CoherentInv(t, c), c.pos \in 1 .. Len(t), name = t[c.pos].name,
         name \in DOMAIN c.resume,
         d.pos = c.pos + 1, d.resume = c.resume, d.restarted = c.restarted, d.steps = c.steps,
         d.responses = Put(c.responses, name, c.resume[name])
  PROVE  CoherentInv(t, d)
<1> SUFFICES ASSUME Len(t) > 1, ~d.restarted
             PROVE  ResumeInv(t, d) /\ ResponseInv(t, d) /\ RecordInv(t, d.steps)
  BY DEF CoherentInv
<1>1. ResumeInv(t, c) /\ ResponseInv(t, c) /\ RecordInv(t, c.steps)
  BY DEF CoherentInv
<1>2. Len(t) \in Nat /\ c.pos \in Nat
  BY TemplateFacts
<1>3. ResumeInv(t, d)
  BY <1>1, <1>2 DEF ResumeInv
<1>4. ASSUME NEW j \in 1 .. Len(t), t[j].name \in DOMAIN d.responses
      PROVE  /\ j < d.pos
             /\ d.steps[j].status = "succeeded"
             /\ d.responses[t[j].name] = d.steps[j].pass
  <2>1. CASE j = c.pos
    <3>1. d.responses[name] = c.resume[name]
      BY DEF Put
    <3>2. c.steps[j].status = "succeeded" /\ c.resume[name] = c.steps[j].pass
      BY <2>1, <1>1 DEF ResumeInv
    <3> QED
      BY <2>1, <3>1, <3>2, <1>2
  <2>2. CASE j # c.pos
    <3>1. t[j].name # name
      BY <2>2, ReferencesSeen
    <3>2. t[j].name \in DOMAIN c.responses /\ d.responses[t[j].name] = c.responses[t[j].name]
      BY <3>1, <1>4 DEF Put
    <3> QED
      BY <3>2, <1>1, <1>2 DEF ResponseInv
  <2> QED
    BY <2>1, <2>2
<1> QED
  BY <1>1, <1>3, <1>4 DEF ResponseInv

\* A step executed, whose record rec replaces one that had not succeeded.
LEMMA CoherentExecute ==
  ASSUME NEW t \in Template, validate_step_references(t),
         NEW c \in ChainOf(t), NEW d \in ChainOf(t), NEW name, NEW rec,
         CoherentInv(t, c), c.pos \in 1 .. Len(t), name = t[c.pos].name,
         name \notin DOMAIN c.resume,
         d.pos = c.pos + 1, d.resume = c.resume, d.restarted = c.restarted,
         Len(t) > 1 => d.steps = [c.steps EXCEPT ![c.pos] = rec],
         rec.used = [r \in t[c.pos].refs \cap DOMAIN c.responses |-> c.responses[r]],
         \/ rec.status # "succeeded" /\ d.responses = c.responses
         \/ /\ rec.status = "succeeded"
            /\ t[c.pos].refs \subseteq DOMAIN c.responses
            /\ d.responses = Put(c.responses, name, rec.pass)
  PROVE  CoherentInv(t, d)
<1> SUFFICES ASSUME Len(t) > 1, ~d.restarted
             PROVE  ResumeInv(t, d) /\ ResponseInv(t, d) /\ RecordInv(t, d.steps)
  BY DEF CoherentInv
<1> DEFINE p == c.pos
<1>1. ResumeInv(t, c) /\ ResponseInv(t, c) /\ RecordInv(t, c.steps)
  BY DEF CoherentInv
<1>2. Len(t) \in Nat /\ p \in 1 .. Len(t)
  BY TemplateFacts
<1>3. /\ d.steps[p] = rec
      /\ \A j \in 1 .. Len(t) : j # p => d.steps[j] = c.steps[j]
  <2>1. DOMAIN c.steps = 1 .. Len(t)
    BY DEF ChainOf
  <2> QED
    BY <2>1, <1>2
<1>4. \A j \in 1 .. Len(t) : t[j].name = name => j = p
  BY ReferencesSeen, <1>2
<1>5. c.steps[p].status # "succeeded"
  BY <1>1, <1>2 DEF ResumeInv
<1>6. \A j \in 1 .. Len(t) : t[j].name \in DOMAIN c.responses => j # p
  BY <1>1, <1>2 DEF ResponseInv
<1> HIDE DEF p
<1>7. ResumeInv(t, d)
  <2> SUFFICES ASSUME NEW j \in 1 .. Len(t)
               PROVE  /\ t[j].name \in DOMAIN d.resume =>
                            d.steps[j].status = "succeeded"
                            /\ d.resume[t[j].name] = d.steps[j].pass
                      /\ (j >= d.pos /\ d.steps[j].status = "succeeded")
                            => t[j].name \in DOMAIN d.resume
    BY DEF ResumeInv
  <2>1. CASE j = p
    BY <2>1, <1>2 DEF p
  <2>2. CASE j # p
    BY <2>2, <1>1, <1>2, <1>3 DEF ResumeInv, p
  <2> QED
    BY <2>1, <2>2
<1>8. ResponseInv(t, d)
  <2> SUFFICES ASSUME NEW j \in 1 .. Len(t), t[j].name \in DOMAIN d.responses
               PROVE  /\ j < d.pos
                      /\ d.steps[j].status = "succeeded"
                      /\ d.responses[t[j].name] = d.steps[j].pass
    BY DEF ResponseInv
  <2>1. CASE j = p
    <3>1. rec.status = "succeeded" /\ d.responses = Put(c.responses, name, rec.pass)
      BY <2>1, <1>6
    <3>2. d.responses[name] = rec.pass
      BY <3>1 DEF Put
    <3> QED
      BY <2>1, <3>1, <3>2, <1>2, <1>3 DEF p
  <2>2. CASE j # p
    <3>1. t[j].name # name
      BY <2>2, <1>4
    <3>2. t[j].name \in DOMAIN c.responses /\ d.responses[t[j].name] = c.responses[t[j].name]
      BY <3>1 DEF Put
    <3> QED
      BY <2>2, <3>2, <1>1, <1>2, <1>3 DEF ResponseInv, p
  <2> QED
    BY <2>1, <2>2
<1>9. RecordInv(t, d.steps)
  <2> SUFFICES ASSUME NEW i \in 1 .. Len(t), NEW j \in 1 .. Len(t),
                      d.steps[i].status = "succeeded", t[j].name \in t[i].refs
               PROVE  /\ d.steps[j].status = "succeeded"
                      /\ t[j].name \in DOMAIN d.steps[i].used
                      /\ d.steps[i].used[t[j].name] = d.steps[j].pass
    BY DEF RecordInv
  <2>1. CASE i = p
    <3>1. t[p].refs \subseteq DOMAIN c.responses
      BY <2>1, <1>3 DEF p
    <3>2. t[j].name \in DOMAIN c.responses
      BY <2>1, <3>1
    <3>3. j # p
      BY <3>2, <1>6
    <3>4. c.steps[j].status = "succeeded" /\ c.responses[t[j].name] = c.steps[j].pass
      BY <3>2, <1>1 DEF ResponseInv
    <3>5. /\ t[j].name \in DOMAIN rec.used
          /\ rec.used[t[j].name] = c.responses[t[j].name]
      BY <2>1, <3>2 DEF p
    <3> QED
      BY <2>1, <3>3, <3>4, <3>5, <1>3
  <2>2. CASE i # p
    <3>1. /\ c.steps[j].status = "succeeded"
          /\ t[j].name \in DOMAIN c.steps[i].used
          /\ c.steps[i].used[t[j].name] = c.steps[j].pass
      BY <2>2, <1>1, <1>3 DEF RecordInv
    <3>2. j # p
      BY <3>1, <1>5
    <3> QED
      BY <2>2, <3>1, <3>2, <1>3
  <2> QED
    BY <2>1, <2>2
<1> QED
  BY <1>7, <1>8, <1>9

\* The first pass and every later one start at the first step.
LEMMA PassStart ==
  ASSUME NEW t \in Template, NEW n \in Nat, NEW steps \in [1 .. Len(t) -> StepRecord],
         NEW resume \in Responses, NEW restarted \in BOOLEAN,
         Len(t) > 1 /\ ~restarted =>
            ResumeInv(t, Pass(n, steps, resume, restarted)) /\ RecordInv(t, steps)
  PROVE  /\ Pass(n, steps, resume, restarted) \in ChainOf(t)
         /\ PassedInv(t, Pass(n, steps, resume, restarted))
         /\ CoherentInv(t, Pass(n, steps, resume, restarted))
<1> DEFINE c == Pass(n, steps, resume, restarted)
<1>1. Len(t) \in Nat \ {0}
  BY TemplateFacts
<1>2. /\ c.pass = n /\ c.pos = 1 /\ c.responses = <<>> /\ c.resume = resume
      /\ c.failed = {} /\ c.status = Absent /\ c.restarted = restarted /\ c.steps = steps
  BY DEF Pass
<1>3. <<>> \in Responses
  <2>1. <<>> \in [{} -> Nat]
    OBVIOUS
  <2> QED
    BY <2>1 DEF Responses
<1>4. c \in ChainOf(t)
  <2>1. 1 \in 1 .. Len(t) + 1
    BY <1>1
  <2> QED
    BY <2>1, <1>3 DEF ChainOf, Pass
<1> HIDE DEF c
<1>5. PassedInv(t, c)
  BY <1>1, <1>2 DEF PassedInv, Absent
<1>6. ResponseInv(t, c)
  BY <1>2 DEF ResponseInv
<1>7. CoherentInv(t, c)
  BY <1>2, <1>6 DEF CoherentInv, c
<1> QED
  BY <1>4, <1>5, <1>7 DEF c

\* A row's first pass.
LEMMA FirstPass ==
  ASSUME NEW t \in Template
  PROVE  LET c == Pass(1, [i \in DOMAIN t |-> NoRecord], <<>>, FALSE)
         IN  c \in ChainOf(t) /\ PassedInv(t, c) /\ CoherentInv(t, c)
<1> DEFINE steps == [i \in 1 .. Len(t) |-> NoRecord]
<1>1. <<>> \in Responses
  <2>1. <<>> \in [{} -> Nat]
    OBVIOUS
  <2> QED
    BY <2>1 DEF Responses
<1>2. steps \in [1 .. Len(t) -> StepRecord]
  BY <1>1 DEF NoRecord, StepRecord
<1>3. \A i \in 1 .. Len(t) : steps[i].status # "succeeded"
  BY DEF NoRecord, Absent
<1>4. DOMAIN t = 1 .. Len(t)
  BY TemplateFacts
<1> HIDE DEF steps
<1>5. RecordInv(t, steps)
  BY <1>3 DEF RecordInv
<1>6. ResumeInv(t, Pass(1, steps, <<>>, FALSE))
  BY <1>3 DEF ResumeInv, Pass
<1>7. LET c == Pass(1, steps, <<>>, FALSE)
      IN  c \in ChainOf(t) /\ PassedInv(t, c) /\ CoherentInv(t, c)
  BY <1>1, <1>2, <1>5, <1>6, PassStart
<1> QED
  BY <1>4, <1>7 DEF steps

\* A retry: from the first step, or from the succeeded records.
LEMMA RetryPass ==
  ASSUME NEW t \in Template, validate_step_references(t), NEW c \in ChainOf(t),
         CoherentInv(t, c), NEW from_start \in BOOLEAN
  PROVE  LET d == Pass(c.pass + 1, c.steps,
                       IF from_start THEN <<>> ELSE ResumeFrom(t, c.steps),
                       c.restarted \/ from_start)
         IN  d \in ChainOf(t) /\ PassedInv(t, d) /\ CoherentInv(t, d)
<1> DEFINE kept == {i \in DOMAIN t : Resumable(c.steps[i])}
           resume == ResumeFrom(t, c.steps)
<1>1. DOMAIN t = 1 .. Len(t) /\ \A i \in 1 .. Len(t) : t[i] \in StepOf
  BY TemplateFacts
<1>2. c.pass \in Nat /\ c.steps \in [1 .. Len(t) -> StepRecord] /\ c.restarted \in BOOLEAN
  BY DEF ChainOf
<1>3. <<>> \in Responses
  <2>1. <<>> \in [{} -> Nat]
    OBVIOUS
  <2> QED
    BY <2>1 DEF Responses
<1>4. \A i \in kept : (CHOOSE k \in kept : t[k].name = t[i].name) = i
  <2> TAKE i \in kept
  <2>1. \A k \in kept : t[k].name = t[i].name => k = i
    BY <1>1, ReferencesSeen
  <2> QED
    BY <2>1
<1>5. DOMAIN resume = {t[i].name : i \in kept}
  BY DEF ResumeFrom
<1>6. \A i \in kept : resume[t[i].name] = c.steps[i].pass
  BY <1>4 DEF ResumeFrom
<1>7. resume \in Responses
  <2>1. DOMAIN resume \in SUBSET (StepName \cup {"main"})
    BY <1>1, <1>5 DEF StepOf
  <2>2. \A n \in DOMAIN resume : resume[n] \in Nat
    BY <1>1, <1>2, <1>5, <1>6 DEF StepRecord
  <2>3. resume = [n \in DOMAIN resume |-> resume[n]]
    BY DEF ResumeFrom
  <2> HIDE DEF resume
  <2>4. resume \in [DOMAIN resume -> Nat]
    BY <2>2, <2>3
  <2> QED
    BY <2>1, <2>4 DEF Responses
<1>8. CASE from_start
  <2> DEFINE d == Pass(c.pass + 1, c.steps, <<>>, TRUE)
  <2>3. c.pass + 1 \in Nat
    BY <1>2
  <2>1. d \in ChainOf(t) /\ PassedInv(t, d) /\ CoherentInv(t, d)
    <3>1. Len(t) > 1 /\ ~TRUE => ResumeInv(t, d) /\ RecordInv(t, c.steps)
      OBVIOUS
    <3> QED
      BY <1>2, <1>3, <2>3, <3>1, PassStart, Zenon
  <2>2. (c.restarted \/ from_start) = TRUE
    BY <1>8
  <2> QED
    BY <1>8, <2>1, <2>2
<1>9. CASE ~from_start
  <2> DEFINE d == Pass(c.pass + 1, c.steps, resume, c.restarted)
  <2>1. ASSUME Len(t) > 1, ~c.restarted
        PROVE  ResumeInv(t, d) /\ RecordInv(t, c.steps)
    <3>1. RecordInv(t, c.steps)
      BY <2>1 DEF CoherentInv
    <3>2. d.resume = resume /\ d.steps = c.steps
      BY DEF Pass
    <3> HIDE DEF d, resume
    <3> SUFFICES ASSUME NEW j \in 1 .. Len(t)
                 PROVE  /\ t[j].name \in DOMAIN resume =>
                              c.steps[j].status = "succeeded"
                              /\ resume[t[j].name] = c.steps[j].pass
                        /\ c.steps[j].status = "succeeded" => t[j].name \in DOMAIN resume
      BY <3>1, <3>2 DEF ResumeInv
    <3>3. c.steps[j].status = "succeeded" => t[j].name \in DOMAIN resume
      BY <1>1, <1>5 DEF Resumable
    <3>4. ASSUME t[j].name \in DOMAIN resume
          PROVE  j \in kept
      <4>1. PICK i \in kept : t[i].name = t[j].name
        BY <3>4, <1>5
      <4>2. i = j
        BY <4>1, <1>1, ReferencesSeen
      <4> QED
        BY <4>1, <4>2
    <3> QED
      BY <3>3, <3>4, <1>6 DEF Resumable
  <2>2. d \in ChainOf(t) /\ PassedInv(t, d) /\ CoherentInv(t, d)
    BY <1>2, <1>7, <2>1, PassStart
  <2>3. (c.restarted \/ from_start) = c.restarted
    BY <1>2, <1>9
  <2> QED
    BY <1>9, <2>2, <2>3
<1> QED
  BY <1>8, <1>9

\* The record persistStep writes.
LEMMA RecordFacts ==
  ASSUME NEW c \in ChainOf(template), template \in Template, c.pos \in 1 .. Len(template),
         chain = c, NEW status \in {"succeeded", "failed", "unresolved"}
  PROVE  LET rec == [status |-> status, pass |-> c.pass,
                     used |-> [r \in template[c.pos].refs \cap DOMAIN c.responses
                                  |-> c.responses[r]]]
         IN  /\ Record(c, status) \in [1 .. Len(template) -> StepRecord]
             /\ Len(template) > 1 =>
                   Record(c, status) = [c.steps EXCEPT ![c.pos] = rec]
<1> DEFINE used == [r \in template[c.pos].refs \cap DOMAIN c.responses |-> c.responses[r]]
           rec == [status |-> status, pass |-> c.pass, used |-> used]
<1>1. c.steps \in [1 .. Len(template) -> StepRecord] /\ c.pass \in Nat /\ c.responses \in Responses
  BY DEF ChainOf
<1>2. used \in Responses
  <2>1. PICK D \in SUBSET (StepName \cup {"main"}) : c.responses \in [D -> Nat]
    BY <1>1 DEF Responses
  <2>2. used \in [template[c.pos].refs \cap D -> Nat]
    BY <2>1
  <2>3. template[c.pos].refs \cap D \in SUBSET (StepName \cup {"main"})
    OBVIOUS
  <2> QED
    BY <2>2, <2>3 DEF Responses
<1> HIDE DEF used
<1>3. rec \in StepRecord
  BY <1>1, <1>2 DEF StepRecord
<1>4. Record(c, status) = IF Len(template) = 1 THEN c.steps
                          ELSE [c.steps EXCEPT ![c.pos] = rec]
  BY DEF Record, Here, used
<1> HIDE DEF rec
<1>5. Record(c, status) \in [1 .. Len(template) -> StepRecord]
  BY <1>1, <1>3, <1>4
<1>6. Len(template) > 1 => Record(c, status) = [c.steps EXCEPT ![c.pos] = rec]
  BY <1>4, TemplateFacts
<1> QED
  BY <1>5, <1>6 DEF rec, used

\* What is assumed of a step of a running chain, and what it preserves.
StepEnabled == SessionTypeInv /\ ChainInv /\ Running

\* What the invariant says where a step of the chain is taken.
LEMMA StepEnabledFacts ==
  ASSUME StepEnabled
  PROVE  /\ stage = "running" /\ chain.status = Absent
         /\ template \in Template /\ validate_step_references(template)
         /\ chain \in ChainOf(template)
         /\ PassedInv(template, chain) /\ CoherentInv(template, chain)
         /\ chain.pos \in 1 .. Len(template)
         /\ Here = template[chain.pos] /\ Here \in StepOf
<1>1. /\ stage = "running" /\ chain.status = Absent
      /\ template \in Template /\ validate_step_references(template)
      /\ chain \in ChainOf(template)
      /\ PassedInv(template, chain) /\ CoherentInv(template, chain)
  BY DEF StepEnabled, SessionTypeInv, ChainInv, Running
<1>2. chain.pos \in 1 .. Len(template)
  <2>1. Len(template) \in Nat /\ chain.pos \in 1 .. Len(template) + 1 /\ chain.pos <= Len(template)
    BY <1>1, TemplateFacts DEF ChainOf, PassedInv
  <2> QED
    BY <2>1
<1> QED
  BY <1>1, <1>2, TemplateFacts DEF Here

\* processOneRow passing a persisted step.
LEMMA SkipStep ==
  ASSUME StepEnabled, skip_resumed
  PROVE  /\ chain' \in ChainOf(template)
         /\ PassedInv(template, chain') /\ CoherentInv(template, chain')
         /\ chain'.steps = chain.steps
<1>0. /\ stage = "running" /\ chain.status = Absent
      /\ template \in Template /\ validate_step_references(template)
      /\ chain \in ChainOf(template)
      /\ PassedInv(template, chain) /\ CoherentInv(template, chain)
      /\ chain.pos \in 1 .. Len(template)
      /\ Here = template[chain.pos] /\ Here \in StepOf
  BY StepEnabledFacts
<1> DEFINE name == Here.name
           c == [chain EXCEPT !.responses = Put(@, name, chain.resume[name])]
<1>1. name \in DOMAIN chain.resume /\ chain' = After(c, chain.failed, FALSE)
  BY DEF skip_resumed
<1>2. Put(chain.responses, name, chain.resume[name]) \in Responses
  <2>1. name \in StepName \cup {"main"}
    BY <1>0 DEF StepOf
  <2>2. chain.responses \in Responses /\ chain.resume[name] \in Nat
    BY <1>0, <1>1 DEF ChainOf, Responses
  <2> QED
    BY <2>1, <2>2, PutType
<1>3. /\ c \in ChainOf(template)
      /\ c.responses = Put(chain.responses, name, chain.resume[name])
      /\ c.pos = chain.pos /\ c.failed = chain.failed /\ c.status = chain.status
      /\ c.steps = chain.steps /\ c.resume = chain.resume /\ c.restarted = chain.restarted
  BY <1>0, <1>2 DEF ChainOf
<1> HIDE DEF c
<1> DEFINE d == chain'
           st == IF chain.pos = Len(template) THEN Outcome(chain.failed) ELSE Absent
<1>4. d = [c EXCEPT !.pos = c.pos + 1, !.failed = chain.failed, !.status = st]
  BY <1>1, <1>3 DEF After
<1>5. /\ d \in ChainOf(template)
      /\ d.pos = chain.pos + 1 /\ d.failed = chain.failed
      /\ d.responses = Put(chain.responses, name, chain.resume[name])
      /\ d.resume = chain.resume /\ d.restarted = chain.restarted /\ d.steps = chain.steps
      /\ d.status = Absent => chain.pos # Len(template)
      /\ d.status = "succeeded" => d.failed = {} /\ chain.pos = Len(template)
  <2>1. /\ st \in {Absent, "succeeded", "failed", "unresolved"}
        /\ st = Absent => chain.pos # Len(template)
        /\ st = "succeeded" => chain.failed = {} /\ chain.pos = Len(template)
    BY DEF Outcome, Absent
  <2>2. chain.failed \in SUBSET (StepName \cup {"main"})
    BY <1>0 DEF ChainOf
  <2> HIDE DEF d, st
  <2>3. /\ d \in ChainOf(template)
        /\ d.pos = c.pos + 1 /\ d.failed = chain.failed /\ d.status = st
        /\ d.responses = c.responses /\ d.resume = c.resume
        /\ d.restarted = c.restarted /\ d.steps = c.steps
    <3>1. c.pos + 1 \in 1 .. Len(template) + 1
      BY <1>0, <1>3, TemplateFacts
    <3>2. d \in ChainOf(template)
      BY <1>3, <1>4, <2>1, <2>2, <3>1 DEF ChainOf
    <3> QED
      BY <1>3, <1>4, <3>2 DEF ChainOf
  <2> QED
    BY <1>3, <2>1, <2>3
<1> HIDE DEF d
<1>6. DOMAIN d.responses = DOMAIN chain.responses \cup {name}
  BY <1>5 DEF Put
<1>7. PassedInv(template, d)
  BY <1>0, <1>5, <1>6, PassedStep
<1>8. CoherentInv(template, d)
  BY <1>0, <1>1, <1>5, CoherentSkip
<1> QED
  BY <1>5, <1>7, <1>8 DEF d

\* executeStep, with each of its outcomes; it writes no record but its own.
LEMMA ExecuteStep ==
  ASSUME StepEnabled, NEW outcome \in {"succeeded", "failed", "unresolved"}, execute_step(outcome)
  PROVE  /\ chain' \in ChainOf(template)
         /\ PassedInv(template, chain') /\ CoherentInv(template, chain')
         /\ \A i \in 1 .. Len(template) : i # chain.pos => chain'.steps[i] = chain.steps[i]
<1>0. /\ stage = "running" /\ chain.status = Absent
      /\ template \in Template /\ validate_step_references(template)
      /\ chain \in ChainOf(template)
      /\ PassedInv(template, chain) /\ CoherentInv(template, chain)
      /\ chain.pos \in 1 .. Len(template)
      /\ Here = template[chain.pos] /\ Here \in StepOf
  BY StepEnabledFacts
<1> DEFINE d == chain'
           name == Here.name
           steps == Record(chain, outcome)
           used == [r \in template[chain.pos].refs \cap DOMAIN chain.responses
                       |-> chain.responses[r]]
           rec == [status |-> outcome, pass |-> chain.pass, used |-> used]
           responses == IF outcome = "succeeded" THEN Put(chain.responses, name, chain.pass)
                        ELSE chain.responses
           failed == IF outcome = "failed" THEN chain.failed \cup {name} ELSE chain.failed
           ends == chain.pos = Len(template) \/ (outcome = "failed" /\ ~Here.continues)
           status == IF outcome = "unresolved" THEN "unresolved"
                     ELSE IF ends THEN Outcome(failed) ELSE Absent
<1>1. /\ name \notin DOMAIN chain.resume
      /\ outcome # "failed" => Here.refs \subseteq DOMAIN chain.responses
  BY DEF execute_step
<1>2. /\ steps \in [1 .. Len(template) -> StepRecord]
      /\ Len(template) > 1 => steps = [chain.steps EXCEPT ![chain.pos] = rec]
  BY <1>0, RecordFacts
<1>3. name \in StepName \cup {"main"}
  BY <1>0 DEF StepOf
<1>4. responses \in Responses
  <2>1. chain.responses \in Responses /\ chain.pass \in Nat
    BY <1>0 DEF ChainOf
  <2> QED
    BY <2>1, <1>3, PutType
<1>5. failed \in SUBSET (StepName \cup {"main"})
  BY <1>0, <1>3 DEF ChainOf
<1>6. /\ status \in {Absent, "succeeded", "failed", "unresolved"}
      /\ status = Absent => chain.pos # Len(template) /\ outcome # "unresolved"
      /\ status = "succeeded" =>
            failed = {} /\ chain.pos = Len(template) /\ outcome = "succeeded"
  BY DEF Outcome, Absent
<1>7. d = [chain EXCEPT !.steps = steps, !.responses = responses, !.pos = chain.pos + 1,
                        !.failed = failed, !.status = status]
  <2>1. CASE outcome = "succeeded"
    BY <1>0, <2>1 DEF execute_step, After, ChainOf
  <2>2. CASE outcome = "failed"
    BY <1>0, <2>2 DEF execute_step, After, ChainOf
  <2>3. CASE outcome = "unresolved"
    BY <1>0, <2>3 DEF execute_step, After, ChainOf
  <2> QED
    BY <2>1, <2>2, <2>3
<1>8. /\ outcome = "succeeded" => responses = Put(chain.responses, name, chain.pass)
      /\ outcome # "succeeded" => responses = chain.responses
      /\ outcome = "failed" => failed = chain.failed \cup {name}
      /\ outcome # "failed" => failed = chain.failed
  OBVIOUS
<1>9. rec.status = outcome /\ rec.pass = chain.pass /\ rec.used = used
  OBVIOUS
<1> HIDE DEF d, steps, responses, failed, status, rec, ends
<1>10. /\ d \in ChainOf(template)
       /\ d.pos = chain.pos + 1 /\ d.failed = failed /\ d.status = status
       /\ d.responses = responses /\ d.resume = chain.resume
       /\ d.restarted = chain.restarted /\ d.steps = steps
  <2>1. chain.pos + 1 \in 1 .. Len(template) + 1
    BY <1>0, TemplateFacts
  <2>2. d \in ChainOf(template)
    BY <1>0, <1>2, <1>4, <1>5, <1>6, <1>7, <2>1 DEF ChainOf
  <2> QED
    BY <1>0, <1>7, <2>2 DEF ChainOf
<1>11. PassedInv(template, d)
  <2>1. CASE outcome = "unresolved"
    <3>1. status = "unresolved"
      BY <2>1 DEF status
    <3> QED
      BY <3>1, <1>10 DEF PassedInv, Absent
  <2>2. CASE outcome # "unresolved"
    <3>1. DOMAIN chain.responses \cup chain.failed \cup {name}
             \subseteq DOMAIN responses \cup failed
      <4>1. CASE outcome = "succeeded"
        BY <4>1, <1>8 DEF Put
      <4>2. CASE outcome = "failed"
        BY <4>2, <1>8
      <4> QED
        BY <2>2, <4>1, <4>2
    <3> QED
      BY <1>0, <1>6, <1>10, <3>1, PassedStep
  <2> QED
    BY <2>1, <2>2
<1>12. CoherentInv(template, d)
  <2>1. \/ rec.status # "succeeded" /\ d.responses = chain.responses
        \/ /\ rec.status = "succeeded"
           /\ template[chain.pos].refs \subseteq DOMAIN chain.responses
           /\ d.responses = Put(chain.responses, name, rec.pass)
    BY <1>0, <1>1, <1>8, <1>9, <1>10
  <2>2. Len(template) > 1 => d.steps = [chain.steps EXCEPT ![chain.pos] = rec]
    BY <1>2, <1>10
  <2> QED
    BY <1>0, <1>1, <1>9, <1>10, <2>1, <2>2, CoherentExecute
<1>13. ASSUME NEW i \in 1 .. Len(template), i # chain.pos
       PROVE  d.steps[i] = chain.steps[i]
  <2>1. Len(template) > 1
    BY <1>0, <1>13, TemplateFacts
  <2> QED
    BY <1>0, <1>2, <1>10, <1>13, <2>1 DEF ChainOf
<1> QED
  BY <1>10, <1>11, <1>12, <1>13 DEF d

\* The invariant holds of a new session.
LEMMA SessionInvInit == SessionInit => SessionInv
BY DEF SessionInit, SessionInv, SessionTypeInv, ChainInv, Stage

\* Every step of the session preserves the invariant.
LEMMA SessionInvNext == SessionInv /\ [SessionNext]_sessionVars => SessionInv'
<1> SUFFICES ASSUME SessionInv, [SessionNext]_sessionVars
             PROVE  SessionInv'
  OBVIOUS
<1>0. SessionTypeInv /\ ChainInv
  BY DEF SessionInv
<1>1. CASE sample_file
  BY <1>0, <1>1 DEF sample_file, SessionInv, SessionTypeInv, ChainInv, Stage
<1>2. ASSUME NEW usable \in BOOLEAN, suggest_mapping(usable)
      PROVE  SessionInv'
  <2>1. stage' \in {"asking", "refused"} /\ attempt' = 0
    BY <1>2 DEF suggest_mapping
  <2> QED
    BY <2>1 DEF SessionInv, SessionTypeInv, ChainInv, Stage
<1>3. CASE edit_by_hand
  BY <1>0, <1>3 DEF edit_by_hand, SessionInv, SessionTypeInv, ChainInv, Stage
<1>4. ASSUME NEW t \in Template, llm_answers(t)
      PROVE  SessionInv'
  <2>1. /\ stage = "asking" /\ attempt' = attempt + 1 /\ attempt \in 0 .. 2 /\ attempt < 2
        /\ \/ stage' = "suggested" /\ template' = t
           \/ stage' = "asking" /\ attempt' < 2
           \/ stage' = "refused"
    BY <1>0, <1>4 DEF llm_answers, SessionTypeInv
  <2>2. attempt' \in 0 .. 2
    BY <2>1
  <2> QED
    BY <2>1, <2>2 DEF SessionInv, SessionTypeInv, ChainInv, Stage
<1>5. CASE llm_unusable
  BY <1>0, <1>5 DEF llm_unusable, SessionInv, SessionTypeInv, ChainInv, Stage
<1>6. ASSUME NEW t \in Template, create_template_and_run(t)
      PROVE  SessionInv'
  <2>1. attempt' = 0
    BY <1>6 DEF create_template_and_run
  <2>2. CASE stage' = "refused"
    BY <2>1, <2>2 DEF SessionInv, SessionTypeInv, ChainInv, Stage
  <2>3. CASE /\ validate_template(t) /\ stage' = "running" /\ template' = t
             /\ chain' = Pass(1, [i \in DOMAIN t |-> NoRecord], <<>>, FALSE)
    <3>1. chain' \in ChainOf(t) /\ PassedInv(t, chain') /\ CoherentInv(t, chain')
      BY <2>3, FirstPass
    <3>2. /\ template' \in Template /\ validate_step_references(template')
          /\ chain' \in ChainOf(template')
          /\ PassedInv(template', chain') /\ CoherentInv(template', chain')
      BY <2>3, <3>1 DEF validate_template
    <3>3. stage' = "running" /\ attempt' = 0
      BY <2>1, <2>3
    <3>4. SessionTypeInv'
      BY <3>2, <3>3 DEF SessionTypeInv, Stage
    <3> QED
      BY <3>2, <3>3, <3>4 DEF SessionInv, ChainInv
  <2> QED
    BY <1>6, <2>2, <2>3 DEF create_template_and_run
<1>7. CASE stage = "suggested" /\ create_template_and_run(template)
  <2>1. template \in Template
    BY <1>0, <1>7 DEF SessionTypeInv
  <2> DEFINE t == template
  <2>2. attempt' = 0
    BY <1>7 DEF create_template_and_run
  <2>3. CASE stage' = "refused"
    BY <2>2, <2>3 DEF SessionInv, SessionTypeInv, ChainInv, Stage
  <2>4. CASE /\ validate_template(t) /\ stage' = "running" /\ template' = t
             /\ chain' = Pass(1, [i \in DOMAIN t |-> NoRecord], <<>>, FALSE)
    <3>1. chain' \in ChainOf(t) /\ PassedInv(t, chain') /\ CoherentInv(t, chain')
      BY <2>1, <2>4, FirstPass
    <3>2. /\ template' \in Template /\ validate_step_references(template')
          /\ chain' \in ChainOf(template')
          /\ PassedInv(template', chain') /\ CoherentInv(template', chain')
      BY <2>1, <2>4, <3>1 DEF validate_template
    <3>3. stage' = "running" /\ attempt' = 0
      BY <2>2, <2>4
    <3>4. SessionTypeInv'
      BY <3>2, <3>3 DEF SessionTypeInv, Stage
    <3> QED
      BY <3>2, <3>3, <3>4 DEF SessionInv, ChainInv
  <2> QED
    BY <1>7, <2>3, <2>4 DEF create_template_and_run
\* A step of the chain keeps the template it runs over.
<1>8. ASSUME stage = "running", UNCHANGED <<stage, object, sampled, attempt, template>>,
             chain' \in ChainOf(template),
             PassedInv(template, chain'), CoherentInv(template, chain')
      PROVE  SessionInv'
  BY <1>0, <1>8 DEF SessionInv, SessionTypeInv, ChainInv
<1>9. CASE skip_resumed
  <2>1. StepEnabled /\ stage = "running"
    BY <1>0, <1>9 DEF StepEnabled, skip_resumed, Running
  <2>2. UNCHANGED <<stage, object, sampled, attempt, template>>
    BY <1>9 DEF skip_resumed
  <2> QED
    BY <1>8, <1>9, <2>1, <2>2, SkipStep
<1>10. ASSUME NEW o \in {"succeeded", "failed", "unresolved"}, execute_step(o)
       PROVE  SessionInv'
  <2>1. StepEnabled /\ stage = "running"
    BY <1>0, <1>10 DEF StepEnabled, execute_step, Running
  <2>2. UNCHANGED <<stage, object, sampled, attempt, template>>
    BY <1>10 DEF execute_step
  <2> QED
    BY <1>8, <1>10, <2>1, <2>2, ExecuteStep
<1>11. ASSUME NEW b \in BOOLEAN, retry_row(b)
       PROVE  SessionInv'
  <2>1. /\ stage = "running" /\ template \in Template /\ validate_step_references(template)
        /\ chain \in ChainOf(template) /\ CoherentInv(template, chain)
    BY <1>0, <1>11 DEF retry_row, SessionTypeInv, ChainInv
  <2>2. /\ chain' \in ChainOf(template)
        /\ PassedInv(template, chain') /\ CoherentInv(template, chain')
    <3>1. chain' = Pass(chain.pass + 1, chain.steps,
                        IF b THEN <<>> ELSE ResumeFrom(template, chain.steps),
                        chain.restarted \/ b)
      BY <1>11 DEF retry_row
    <3> QED
      BY <2>1, <3>1, RetryPass
  <2>3. UNCHANGED <<stage, object, sampled, attempt, template>>
    BY <1>11 DEF retry_row
  <2> QED
    BY <1>8, <2>1, <2>2, <2>3
<1>12. CASE UNCHANGED sessionVars
  BY <1>0, <1>12 DEF sessionVars, SessionInv, SessionTypeInv, ChainInv
<1> QED
  BY <1>1, <1>2, <1>3, <1>4, <1>5, <1>6, <1>7, <1>9, <1>10, <1>11, <1>12 DEF SessionNext

-----------------------------------------------------------------------------
(* The samplers. *)

\* infer_column_type answers a type that every value that is not blank has.
LEMMA InferredTypeFits ==
  ASSUME NEW values, NEW i \in DOMAIN values, ~Blank(values[i]),
         infer_column_type(values) # "string"
  PROVE  infer_column_type(values) \in ParsesAs[values[i]]
<1> DEFINE had == {j \in DOMAIN values : ~Blank(values[j])}
           all == {k \in DOMAIN Preference :
                     \A j \in had : Preference[k] \in ParsesAs[values[j]]}
           best == CHOOSE k \in all : \A j \in all : k <= j
<1>1. i \in had
  OBVIOUS
<1>2. all # {} /\ infer_column_type(values) = Preference[best]
  BY <1>1 DEF infer_column_type
<1>3. all \subseteq 1 .. 4
  BY DEF Preference
<1>4. \A k \in all : \A j \in had : Preference[k] \in ParsesAs[values[j]]
  OBVIOUS
<1> HIDE DEF had, all
<1>5. \E k \in all : \A j \in all : k <= j
  <2>1. CASE 1 \in all
    BY <2>1, <1>3
  <2>2. CASE 1 \notin all /\ 2 \in all
    BY <2>2, <1>3
  <2>3. CASE 1 \notin all /\ 2 \notin all /\ 3 \in all
    BY <2>3, <1>3
  <2>4. CASE 1 \notin all /\ 2 \notin all /\ 3 \notin all
    <3>1. \A k \in all : k = 4
      BY <2>4, <1>3
    <3> QED
      BY <3>1, <1>2
  <2> QED
    BY <2>1, <2>2, <2>3, <2>4
<1>6. best \in all
  BY <1>5
<1> QED
  BY <1>1, <1>2, <1>4, <1>6

\* What the summary says of each of the rows it is made from.
LEMMA SummaryFits ==
  ASSUME NEW format, NEW rows, NEW truncated, NEW n \in DOMAIN rows,
         NEW res, res = SampleResult(format, rows, truncated)
  PROVE  /\ res.type # "string" /\ ~Blank(Raw(rows[n])) => res.type \in ParsesAs[Raw(rows[n])]
         /\ ~res.nullable => rows[n] \notin {Missing, Null}
<1> DEFINE values == [i \in DOMAIN rows |-> Raw(rows[i])]
<1>1. /\ res.type = infer_column_type(values)
      /\ res.nullable = \E i \in DOMAIN rows : Nullable(format, rows[i])
  BY DEF SampleResult
<1>2. n \in DOMAIN values /\ values[n] = Raw(rows[n])
  OBVIOUS
<1> HIDE DEF values
<1>3. res.type # "string" /\ ~Blank(Raw(rows[n])) => res.type \in ParsesAs[Raw(rows[n])]
  BY <1>1, <1>2, InferredTypeFits
<1>4. ~res.nullable => rows[n] \notin {Missing, Null}
  BY <1>1 DEF Nullable, Raw
<1> QED
  BY <1>3, <1>4

\* A row cap that is not reached cuts nothing off.
LEMMA TakeAll ==
  ASSUME NEW S, NEW s \in Seq(S), NEW n \in Nat, Len(s) <= n
  PROVE  Take(n, s) = s
<1>1. Take(n, s) = SubSeq(s, 1, Len(s))
  <2>1. Len(s) \in Nat
    OBVIOUS
  <2> QED
    BY <2>1 DEF Take
<1> QED
  BY <1>1

\* Kept loses nothing that is not lost.
LEMMA KeptFacts ==
  ASSUME NEW S, NEW s \in Seq(S), NEW lost
  PROVE  /\ \E R : Kept(s, lost) \in Seq(R)
         /\ \A i \in DOMAIN s : s[i] \notin lost =>
               \E n \in DOMAIN Kept(s, lost) : Kept(s, lost)[n] = s[i]
<1> DEFINE kept == {i \in DOMAIN s : s[i] \notin lost}
           UpTo(i) == {j \in kept : j <= i}
           at(n) == CHOOSE i \in kept : Cardinality(UpTo(i)) = n
<1>1. Len(s) \in Nat /\ DOMAIN s = 1 .. Len(s)
  OBVIOUS
<1>2. IsFiniteSet(kept) /\ Cardinality(kept) \in Nat
  <2>1. IsFiniteSet(1 .. Len(s))
    BY <1>1, FS_Interval
  <2> QED
    BY <1>1, <2>1, FS_Subset, FS_CardinalityType
<1>3. Kept(s, lost) = [n \in 1 .. Cardinality(kept) |-> s[at(n)]]
  BY DEF Kept
<1>4. \E R : Kept(s, lost) \in Seq(R)
  <2> DEFINE R == {s[at(n)] : n \in 1 .. Cardinality(kept)}
  <2>1. Kept(s, lost) \in [1 .. Cardinality(kept) -> R]
    BY <1>3
  <2> HIDE DEF R, kept
  <2>2. Kept(s, lost) \in Seq(R)
    BY <2>1, <1>2, SeqDef
  <2> QED
    BY <2>2
<1>5. ASSUME NEW i \in kept
      PROVE  \E n \in 1 .. Cardinality(kept) : at(n) = i
  <2>1. \A k \in kept : IsFiniteSet(UpTo(k)) /\ Cardinality(UpTo(k)) \in Nat
    BY <1>2, FS_Subset, FS_CardinalityType
  <2>2. Cardinality(UpTo(i)) \in 1 .. Cardinality(kept)
    <3>1. Cardinality(UpTo(i)) <= Cardinality(kept)
      BY <1>2, FS_Subset
    <3>2. i \in UpTo(i)
      BY <1>1
    <3>3. IsFiniteSet(UpTo(i)) /\ Cardinality(UpTo(i)) \in Nat
      BY <2>1
    <3> HIDE DEF UpTo, kept
    <3>4. Cardinality(UpTo(i)) # 0
      BY <3>2, <3>3, FS_EmptySet
    <3> QED
      BY <3>1, <3>3, <3>4, <1>2
  <2>3. ASSUME NEW k \in kept, NEW l \in kept, k < l
        PROVE  Cardinality(UpTo(k)) < Cardinality(UpTo(l))
    <3>1. UpTo(k) \subseteq UpTo(l) /\ l \in UpTo(l) /\ l \notin UpTo(k)
      BY <1>1, <2>3
    <3> HIDE DEF UpTo
    <3> QED
      BY <2>1, <3>1, FS_Subset
  <2>4. ASSUME NEW k \in kept, Cardinality(UpTo(k)) = Cardinality(UpTo(i))
        PROVE  k = i
    <3>1. k \in Int /\ i \in Int
      BY <1>1
    <3> HIDE DEF UpTo, kept
    <3>2. ~(k < i) /\ ~(i < k)
      BY <2>1, <2>3, <2>4, <1>5
    <3> QED
      BY <3>1, <3>2
  <2>5. at(Cardinality(UpTo(i))) = i
    BY <2>4
  <2> HIDE DEF at
  <2> QED
    BY <2>2, <2>5
<1>6. ASSUME NEW i \in DOMAIN s, s[i] \notin lost
      PROVE  \E n \in DOMAIN Kept(s, lost) : Kept(s, lost)[n] = s[i]
  <2>1. i \in kept
    BY <1>6
  <2> HIDE DEF at, kept
  <2>2. PICK n \in 1 .. Cardinality(kept) : at(n) = i
    BY <1>5, <2>1
  <2> QED
    BY <1>3, <2>2
<1> QED
  BY <1>4, <1>6

\* The fields of an object that is sampled.
LEMMA ObjectFacts ==
  ASSUME NEW o \in Object
  PROVE  /\ o.format \in Format
         /\ o.recs \in Seq(RecordOf(o.format))
         /\ o.size \in Nat \ {0} /\ o.row_cap \in Nat \ {0}
<1>1. PICK f \in Format :
         o \in [format  : {f}, recs : BoundedSeq(RecordOf(f), MaxRecords),
                size    : RecordSize, cut : CutReads(f),
                row_cap : RowCap, length_known : BOOLEAN]
  BY DEF Object
<1>2. PICK m \in 0 .. MaxRecords : o.recs \in [1 .. m -> RecordOf(f)]
  BY <1>1 DEF BoundedSeq, SeqOf
<1>3. o.recs \in Seq(RecordOf(f))
  BY <1>2
<1> QED
  BY <1>1, <1>3, BoundsAssumption

\* A multiple of the record size holds whole records.
LEMMA Multiple ==
  ASSUME NEW k \in Nat \ {0}, NEW n \in Nat
  PROVE  (k * n) \div k = n /\ (k * n) % k = 0
OBVIOUS

\* A file within the byte cap is fetched whole.
LEMMA BodyWhole ==
  ASSUME NEW o \in Object, ~Clipped(o)
  PROVE  Body(o) = o.recs
<1>1. /\ o.recs \in Seq(RecordOf(o.format)) /\ Len(o.recs) \in Nat
      /\ o.size \in Nat \ {0}
  BY ObjectFacts
<1>2. Size(o) \in Nat /\ ByteCap \in Nat
  BY <1>1, BoundsAssumption DEF Size
<1>3. Fetched(o) = Size(o)
  BY <1>2 DEF Fetched, Clipped, Smaller
<1>4. Fetched(o) \div o.size = Len(o.recs) /\ Fetched(o) % o.size = 0
  BY <1>1, <1>3, Multiple DEF Size
<1>5. Body(o) = SubSeq(o.recs, 1, Len(o.recs)) \o <<>>
  BY <1>4 DEF Body
<1> QED
  BY <1>1, <1>5

\* FirstDamaged is a position of the file or one past its end.
LEMMA FirstDamagedType ==
  ASSUME NEW S, NEW s \in Seq(S)
  PROVE  FirstDamaged(s) \in Nat
<1> DEFINE bad == {i \in DOMAIN s : Damaged(s[i])}
<1>1. Len(s) \in Nat /\ DOMAIN s = 1 .. Len(s)
  OBVIOUS
<1>2. CASE bad = {}
  BY <1>1, <1>2 DEF FirstDamaged
<1>3. CASE bad # {}
  <2>1. PICK x \in bad : \A y \in bad : x <= y
    <3>1. bad \in SUBSET Nat
      BY <1>1
    <3> HIDE DEF bad
    <3> QED
      BY <1>3, <3>1, LeastNat
  <2>2. x \in DOMAIN s /\ Damaged(s[x]) /\ \A j \in 1 .. x - 1 : ~Damaged(s[j])
    BY <1>1, <2>1
  <2>3. FirstDamaged(s) \in DOMAIN s
    BY <2>2 DEF FirstDamaged
  <2> QED
    BY <1>1, <2>3
<1> QED
  BY <1>2, <1>3

\* The fields of a summary, and of a refusal.
LEMMA ResultFields ==
  ASSUME NEW format, NEW rows, NEW truncated
  PROVE  /\ SampleResult(format, rows, truncated).ok
         /\ SampleResult(format, rows, truncated).rows = rows
         /\ SampleResult(format, rows, truncated).truncated = truncated
         /\ ~Invalid.ok
BY DEF SampleResult, Invalid

\* Each sampler marks what it leaves out.
LEMMA WholeSample ==
  ASSUME NEW o \in Object, ~Clipped(o), SampleOf(o).ok, ~SampleOf(o).truncated
  PROVE  \E f, t : SampleOf(o) = SampleResult(f, Readable(o), t)
<1> DEFINE body == Body(o)
           cap == o.row_cap
           t == truncated_input(o)
           res == SampleOf(o)
<1>1. body = o.recs /\ o.recs \in Seq(RecordOf(o.format)) /\ cap \in Nat /\ o.format \in Format
  BY BodyWhole, ObjectFacts
<1>2. Len(o.recs) \in Nat
  BY <1>1
<1>3. res # Invalid
  BY ResultFields
<1>4. ASSUME NEW f, NEW rows, NEW tr, res = SampleResult(f, rows, tr)
      PROVE  ~tr
  BY <1>4, ResultFields
<1>6. ASSUME NEW R, NEW s \in Seq(R), NEW f,
             res = SampleResult(f, Take(cap, s), t \/ Len(s) > cap)
      PROVE  res = SampleResult(f, s, t \/ Len(s) > cap)
  <2>1. ~(t \/ Len(s) > cap)
    BY <1>4, <1>6
  <2>2. Len(s) <= cap
    BY <2>1, <1>1
  <2> QED
    BY <1>1, <1>6, <2>2, TakeAll
<1>7. CASE o.format = "csv"
  <2>1. res = csv_sample(body, cap, t)
    BY <1>3, <1>7 DEF SampleOf
  <2>2. \/ res = SampleResult("csv", Take(FirstDamaged(body) - 1, body), TRUE)
        \/ res = SampleResult("csv", Take(cap, body), t \/ Len(body) > cap)
    BY <1>3, <2>1 DEF csv_sample
  <2>3. res = SampleResult("csv", Take(cap, body), t \/ Len(body) > cap)
    BY <1>4, <2>2
  <2>4. Readable(o) = o.recs
    BY <1>7 DEF Readable, PassedOver
  <2> QED
    BY <1>1, <1>6, <2>3, <2>4
<1>8. CASE o.format = "xml"
  <2> DEFINE lost == {SelfClosing}
             read == Kept(body, lost)
             bad == FirstDamaged(read)
             rows == Take(IF bad <= cap THEN bad - 1 ELSE cap, read)
  <2>0. \E R : read \in Seq(R)
    <3>1. PICK L : L = lost
      OBVIOUS
    <3> QED
      BY <1>1, <3>1, KeptFacts
  <2>1. res = xml_sample(body, cap, t)
    BY <1>3, <1>8 DEF SampleOf
  <2>2. /\ res = SampleResult("xml", rows, t \/ Len(read) > cap)
        /\ ~(bad <= Len(read) /\ bad <= cap + 1 /\ ~t)
    BY <1>3, <2>1 DEF xml_sample
  <2> HIDE DEF read
  <2>3. ~t /\ ~(Len(read) > cap)
    BY <1>4, <2>2
  <2>4. bad \in Nat /\ bad > Len(read) /\ Len(read) \in Nat
    <3>1. bad \in Nat /\ Len(read) \in Nat
      BY <2>0, FirstDamagedType
    <3> QED
      BY <1>1, <2>2, <2>3, <3>1
  <2>5. rows = read
    <3>1. (IF bad <= cap THEN bad - 1 ELSE cap) \in Nat
          /\ Len(read) <= (IF bad <= cap THEN bad - 1 ELSE cap)
      BY <1>1, <2>3, <2>4
    <3> QED
      BY <2>0, <3>1, TakeAll
  <2>6. Readable(o) = read
    BY <1>1, <1>8 DEF Readable, PassedOver, read
  <2> QED
    BY <2>2, <2>5, <2>6
<1>9. ASSUME NEW R, NEW s \in Seq(R), res = json_sample(s, cap, t)
      PROVE  \E f, tr : res = SampleResult(f, s, tr)
  <2>1. res = SampleResult("json", Take(cap, s), t \/ Len(s) > cap)
    BY <1>3, <1>9 DEF json_sample
  <2> QED
    BY <1>6, <2>1
<1>10. CASE o.format = "ndjson"
  <2>1. res = json_sample(parse_ndjson(body), cap, t)
    BY <1>3, <1>10 DEF SampleOf
  <2>2. \E R : parse_ndjson(body) \in Seq(R)
    BY <1>1, KeptFacts DEF parse_ndjson
  <2>3. Readable(o) = parse_ndjson(body)
    BY <1>1, <1>10 DEF Readable, PassedOver, parse_ndjson
  <2> QED
    BY <1>9, <2>1, <2>2, <2>3
<1>11. CASE o.format = "array"
  <2> DEFINE s == parse_array(body, Clipped(o), t)
  <2>1. res = json_sample(s, cap, t)
    BY <1>3, <1>11 DEF SampleOf
  <2>2. s # <<>>
    BY <1>3, <2>1 DEF json_sample
  <2>3. s = body \/ (t /\ s = Kept(body, {Malformed, NotObject}))
    BY <2>2 DEF parse_array
  <2>4. ~t
    <3>1. res = SampleResult("json", Take(cap, s), t \/ Len(s) > cap)
      BY <1>3, <2>1 DEF json_sample
    <3> QED
      BY <1>4, <3>1
  <2>5. Readable(o) = o.recs
    BY <1>11 DEF Readable, PassedOver
  <2> QED
    BY <1>1, <1>9, <2>1, <2>3, <2>4, <2>5
<1> QED
  BY <1>1, <1>7, <1>8, <1>10, <1>11 DEF Format

\* Every record that the parser reads is a row of a whole sample.
LEMMA ReadableRows ==
  ASSUME NEW o \in Object, NEW i \in DOMAIN o.recs, o.recs[i] \notin PassedOver(o.format)
  PROVE  \E n \in DOMAIN Readable(o) : Readable(o)[n] = o.recs[i]
<1>1. o.recs \in Seq(RecordOf(o.format))
  BY ObjectFacts
<1>2. CASE PassedOver(o.format) # {}
  <2> DEFINE lost == PassedOver(o.format)
             S == RecordOf(o.format)
  <2>1. Readable(o) = Kept(o.recs, lost) /\ o.recs[i] \notin lost /\ o.recs \in Seq(S)
    BY <1>1, <1>2 DEF Readable
  <2> HIDE DEF lost, S
  <2>2. \E n \in DOMAIN Kept(o.recs, lost) : Kept(o.recs, lost)[n] = o.recs[i]
    BY <2>1, KeptFacts
  <2> QED
    BY <2>1, <2>2
<1>3. CASE PassedOver(o.format) = {}
  BY <1>3 DEF Readable
<1> QED
  BY <1>2, <1>3

-----------------------------------------------------------------------------
(* The theorems about the session. *)

\* The invariant holds in every reachable state.
LEMMA SessionInvariance == SessionSpec => []SessionInv
BY SessionInvInit, SessionInvNext, PTL DEF SessionSpec

\* Each phase of the session has what it needs: suggest_mapping and the
\* sampler's answer belong to the object that was fetched, a template that is
\* run was validated, and the LLM is asked at most twice per request.
THEOREM SessionTypeCorrect == SessionSpec => []SessionTypeInv
<1>1. SessionInv => SessionTypeInv
  BY DEF SessionInv
<1> QED
  BY <1>1, SessionInvariance, PTL

\* executeStep never renders a step whose reference has no response, unless
\* that step failed in the same pass and let the chain go on: what
\* validate_step_references accepts is enough for every pass, however often
\* the row is retried and whichever of its steps are resumed.
THEOREM ReferencesExecutedHolds == SessionSpec => []ReferencesExecuted
<1>1. SessionInv => ReferencesExecuted
  <2> SUFFICES ASSUME SessionInv, Running, NEW r \in Here.refs
               PROVE  r \in DOMAIN chain.responses \cup chain.failed
    BY DEF ReferencesExecuted
  <2>1. StepEnabled
    BY DEF SessionInv, StepEnabled
  <2>2. PICK j \in 1 .. chain.pos - 1 : template[j].name = r
    BY <2>1, StepEnabledFacts, ReferencesSeen
  <2> QED
    BY <2>1, <2>2, StepEnabledFacts DEF PassedInv
<1> QED
  BY <1>1, SessionInvariance, PTL

\* A row with several steps that is reported as succeeded, and that was never
\* restarted from its first step, has a succeeded record of every step, each
\* made from the responses its references are recorded with, after any number
\* of resumed passes.
THEOREM SucceededChainCoherentHolds == SessionSpec => []SucceededChainCoherent
<1>1. SessionInv => SucceededChainCoherent
  <2> SUFFICES ASSUME SessionInv, stage = "running", chain.status = "succeeded",
                      Len(template) > 1, ~chain.restarted
               PROVE  \A i \in DOMAIN template :
                         /\ chain.steps[i].status = "succeeded"
                         /\ \A j \in DOMAIN template :
                               template[j].name \in template[i].refs =>
                                   /\ template[j].name \in DOMAIN chain.steps[i].used
                                   /\ chain.steps[i].used[template[j].name] = chain.steps[j].pass
    BY DEF SucceededChainCoherent
  <2>1. /\ template \in Template /\ PassedInv(template, chain)
        /\ ResponseInv(template, chain) /\ RecordInv(template, chain.steps)
    BY DEF SessionInv, SessionTypeInv, ChainInv, CoherentInv
  <2>2. Len(template) \in Nat /\ DOMAIN template = 1 .. Len(template)
    BY <2>1, TemplateFacts
  <2>3. \A j \in 1 .. Len(template) : template[j].name \in DOMAIN chain.responses
    BY <2>1, <2>2 DEF PassedInv
  <2>4. \A j \in 1 .. Len(template) : chain.steps[j].status = "succeeded"
    BY <2>1, <2>3 DEF ResponseInv
  <2> QED
    BY <2>1, <2>2, <2>4 DEF RecordInv
<1> QED
  BY <1>1, SessionInvariance, PTL

\* processOneRow executes a step only when retryPersistedRow found no succeeded
\* record of it, so that retries that resume repeat no call that succeeded.
THEOREM SucceededStepsKeptHolds == SessionSpec => SucceededStepsKept
<1> DEFINE Keeps == stage = "running" /\ Len(template) > 1 /\ ~chain'.restarted =>
                       \A i \in 1 .. Len(template) :
                          chain.steps[i].status = "succeeded" => chain'.steps[i] = chain.steps[i]
<1>1. SessionInv /\ [SessionNext]_sessionVars => [Keeps]_sessionVars
  <2> SUFFICES ASSUME SessionInv, SessionNext, stage = "running", Len(template) > 1,
                      ~chain'.restarted, NEW i \in 1 .. Len(template),
                      chain.steps[i].status = "succeeded"
               PROVE  chain'.steps[i] = chain.steps[i]
    BY DEF sessionVars
  <2>1. CASE skip_resumed
    <3>1. StepEnabled
      BY <2>1 DEF SessionInv, StepEnabled, skip_resumed
    <3> QED
      BY <2>1, <3>1, SkipStep
  <2>2. ASSUME NEW o \in {"succeeded", "failed", "unresolved"}, execute_step(o)
        PROVE  chain'.steps[i] = chain.steps[i]
    <3>1. StepEnabled
      BY <2>2 DEF SessionInv, StepEnabled, execute_step
    <3>2. CASE i # chain.pos
      BY <2>2, <3>1, <3>2, ExecuteStep
    <3>3. CASE i = chain.pos
      <4>1. Here.name \notin DOMAIN chain.resume /\ Here = template[i]
        BY <2>2, <3>1, <3>3, StepEnabledFacts DEF execute_step
      <4>2. chain'.restarted = chain.restarted
        <5>1. chain \in ChainOf(template)
          BY <3>1, StepEnabledFacts
        <5> QED
          BY <2>2, <5>1 DEF execute_step, After, ChainOf
      <4>3. ResumeInv(template, chain)
        BY <3>1, <4>2, StepEnabledFacts DEF CoherentInv
      <4>4. i >= chain.pos
        BY <3>3
      <4> QED
        BY <4>1, <4>3, <4>4 DEF ResumeInv
    <3> QED
      BY <3>2, <3>3
  <2>3. ASSUME NEW b \in BOOLEAN, retry_row(b)
        PROVE  chain'.steps[i] = chain.steps[i]
    BY <2>3 DEF retry_row, Pass
  <2> QED
    BY <2>1, <2>2, <2>3 DEF SessionNext, sample_file, suggest_mapping, edit_by_hand, llm_answers,
       llm_unusable, create_template_and_run
<1> QED
  BY <1>1, SessionInvariance, PTL DEF SessionSpec, SucceededStepsKept

\* Whatever the file, its format and the caps: a sample of a file within the
\* byte cap that no sampler marks as truncated holds every record its parser
\* reads, and the type and nullability it reports are true of all of them.
\* Self-closing XML records and NDJSON lines that do not parse are passed over.
THEOREM UntruncatedIsWholeHolds == SessionSpec => []UntruncatedIsWhole
<1>1. SessionInv => UntruncatedIsWhole
  <2> SUFFICES ASSUME object \in Object, sampled = SampleOf(object),
                      sampled.ok, ~sampled.truncated, ~Clipped(object)
               PROVE  /\ sampled.rows = Readable(object)
                      /\ \A i \in DOMAIN object.recs :
                            object.recs[i] \notin PassedOver(object.format) =>
                               /\ sampled.type # "string" /\ ~Blank(Raw(object.recs[i]))
                                     => sampled.type \in ParsesAs[Raw(object.recs[i])]
                               /\ ~sampled.nullable => object.recs[i] \notin {Missing, Null}
    BY DEF SessionInv, SessionTypeInv, UntruncatedIsWhole
  <2>1. PICK f, t : sampled = SampleResult(f, Readable(object), t)
    BY WholeSample
  <2>2. sampled.rows = Readable(object)
    BY <2>1, ResultFields
  <2>3. ASSUME NEW i \in DOMAIN object.recs, object.recs[i] \notin PassedOver(object.format)
        PROVE  /\ sampled.type # "string" /\ ~Blank(Raw(object.recs[i]))
                     => sampled.type \in ParsesAs[Raw(object.recs[i])]
               /\ ~sampled.nullable => object.recs[i] \notin {Missing, Null}
    <3>1. PICK n \in DOMAIN Readable(object) : Readable(object)[n] = object.recs[i]
      BY <2>3, ReadableRows
    <3> QED
      BY <2>1, <3>1, SummaryFits
  <2> QED
    BY <2>2, <2>3
<1> QED
  BY <1>1, SessionInvariance, PTL
=============================================================================
