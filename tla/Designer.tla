------------------------------ MODULE Designer ------------------------------
(***************************************************************************)
(* From an uploaded file to a row on its way through a template's steps:   *)
(* the Designer samples the object (POST /files/sample), may ask the LLM   *)
(* for a mapping (POST /mapping-suggestions), saves a template (POST       *)
(* /rule-templates), and a job runs the saved template's step chain for a  *)
(* row, possibly retried. The session keeps no more of a finished phase    *)
(* than the next one uses.                                                 *)
(*                                                                         *)
(* Validation runs in the API, the chain in the orchestrator; the          *)
(* properties relate the two.                                              *)
(***************************************************************************)
EXTENDS Sampling

CONSTANTS ByteCap,    \* DEFAULT_BYTE_CAP, in units of record size
          RecordSize, \* sizes a file's records may have
          MaxRecords, \* records per file
          RowCap,     \* row caps a request may ask for
          StepName,   \* names a step may have
          MaxSteps,   \* steps per template
          MaxPasses   \* times a row's chain is run

ASSUME BoundsAssumption ==
    /\ ByteCap \in Nat \ {0} /\ RecordSize \subseteq Nat \ {0}
    /\ RowCap \subseteq Nat \ {0}
    /\ {MaxRecords, MaxSteps, MaxPasses} \subseteq Nat

VARIABLES
    stage,     \* what the session is doing
    object,    \* the object being sampled and the request for it
    sampled,   \* the sampler's answer
    attempt,   \* answers the LLM has given to this request
    template,  \* the steps of the suggested or saved template
    chain      \* the row's way through the saved template

sessionVars == <<stage, object, sampled, attempt, template, chain>>

Absent == "absent"

-----------------------------------------------------------------------------
(* Objects and what a ranged read of one returns.                          *)

\* Records a file of the given format can hold.
RecordOf(format) ==
    CASE format = "csv" -> (Token \ {"object"}) \cup {Missing, Malformed}
      [] format = "xml" -> Cell \cup {Malformed, SelfClosing}
      [] OTHER          -> Cell \cup {Malformed, NotObject}

\* How the record the byte cap cuts through reads: a CSV row or an XML
\* record may still parse, as any shorter row; a JSON object never does.
CutReads(format) ==
    IF format \in {"csv", "xml"} THEN RecordOf(format) \ {SelfClosing} ELSE {Malformed}

Object ==
    UNION {[format  : {f}, recs : BoundedSeq(RecordOf(f), MaxRecords),
            size    : RecordSize, cut : CutReads(f),
            row_cap : RowCap, length_known : BOOLEAN] : f \in Format}

Smaller(a, b) == IF a < b THEN a ELSE b

Size(o)    == o.size * Len(o.recs)
Fetched(o) == Smaller(Size(o), ByteCap)
Clipped(o) == Size(o) > ByteCap

\* The records of the bytes fetched, the one that is cut through last.
Body(o) ==
    SubSeq(o.recs, 1, Fetched(o) \div o.size)
        \o (IF Fetched(o) % o.size = 0 THEN <<>> ELSE <<o.cut>>)

(* Object storage answers a ranged GET with the length of the range it     *)
(* returns, or with no length.                                             *)
content_length(o) == IF o.length_known THEN Fetched(o) ELSE -1

truncated_input(o) == content_length(o) < 0 \/ content_length(o) > Fetched(o)

\* sample_file's dispatch on the format. A file has at least the bytes that
\* frame its records, so a CSV without records is a header.
SampleOf(o) ==
    LET t == truncated_input(o)
    IN  CASE o.format = "csv"    -> csv_sample(Body(o), o.row_cap, t)
          [] o.format = "xml"    -> xml_sample(Body(o), o.row_cap, t)
          [] o.format = "ndjson" -> json_sample(parse_ndjson(Body(o)), o.row_cap, t)
          [] o.format = "array"  ->
                 json_sample(parse_array(Body(o), Clipped(o), t), o.row_cap, t)

sample_file ==
    /\ stage = "object"
    /\ sampled' = SampleOf(object)
    /\ stage'   = "sampled"
    /\ UNCHANGED <<object, attempt, template, chain>>

-----------------------------------------------------------------------------
(* Templates. A step is told apart by its name, the steps whose responses  *)
(* it refers to, whether it lets the chain continue after it failed, and   *)
(* the parts of its destination the API checks.                            *)

Destination ==
    [auth : {Absent, "bearer", "no_ref", "oauth2_client"},
     mode : {Absent}, header : {FALSE}, lookup : {FALSE}]
    \cup [auth : {Absent}, mode : {"idempotent", "lookup", "manual"},
          header : BOOLEAN, lookup : BOOLEAN]

PlainDestination == [auth |-> Absent, mode |-> Absent, header |-> FALSE, lookup |-> FALSE]

\* Templates that pass the JSON schema: chains of plain calls, and single
\* calls with every kind of destination.
Template ==
    {t \in BoundedSeq([name : StepName, refs : SUBSET StepName, continues : BOOLEAN,
                       destination : {PlainDestination}], MaxSteps) : t # <<>>}
    \cup {<<s>> : s \in [name : {"main"}, refs : {{}}, continues : {FALSE},
                         destination : Destination]}

\* Mutant: a step may refer to its own response.
validate_step_references_self(t) ==
    \A i \in DOMAIN t :
        LET seen == {t[j].name : j \in 1 .. i - 1}
        IN  t[i].name \notin seen /\ t[i].refs \subseteq seen \cup {t[i].name}

(* validate_step_references, walking the steps with the names seen so far. *)
validate_step_references(t) ==
    \A i \in DOMAIN t :
        LET seen == {t[j].name : j \in 1 .. i - 1}
        IN  t[i].name \notin seen /\ t[i].refs \subseteq seen

validate_destinations(t) ==
    \A i \in DOMAIN t :
        LET d == t[i].destination
        IN  /\ d.auth # "oauth2_client"
            /\ d.auth # "no_ref"
            /\ d.mode = "idempotent" => d.header
            /\ d.mode = "lookup" => d.lookup
            /\ d.mode \in {"idempotent", "manual"} => ~d.lookup

validate_template(t) == validate_step_references(t) /\ validate_destinations(t)

-----------------------------------------------------------------------------
(* Suggestions and saving. *)

\* The user goes on to write a template by hand.
edit_by_hand ==
    /\ stage = "sampled"
    /\ stage'   = "editing"
    /\ object'  = Absent
    /\ sampled' = Absent
    /\ UNCHANGED <<attempt, template, chain>>

\* suggest_mapping up to the first call: the sampled columns must not be
\* empty, and the organisation's LLM configuration must be usable.
suggest_mapping(usable) ==
    /\ stage = "sampled"
    /\ stage'   = IF sampled.ok /\ sampled.column /\ usable THEN "asking" ELSE "refused"
    /\ object'  = Absent
    /\ sampled' = Absent
    /\ attempt' = 0
    /\ UNCHANGED <<template, chain>>

\* One round of its loop: a template that validates is returned, an invalid
\* one is sent back once.
llm_answers(t) ==
    /\ stage = "asking"
    /\ attempt' = attempt + 1
    /\ IF validate_template(t)
       THEN stage' = "suggested" /\ template' = t
       ELSE stage' = (IF attempt' < 2 THEN "asking" ELSE "refused") /\ UNCHANGED template
    /\ UNCHANGED <<object, sampled, chain>>

\* The provider fails, or answers with no JSON: the request ends.
llm_unusable ==
    /\ stage = "asking"
    /\ stage' = "refused"
    /\ UNCHANGED <<object, sampled, attempt, template, chain>>

-----------------------------------------------------------------------------
(* The step chain of one row. A step's record says in which pass it was    *)
(* last written and which pass's response each reference was read from.    *)

NoRecord == [status |-> Absent, pass |-> 0, used |-> <<>>]
NoChain  == [pass |-> 0]

Pass(n, steps, resume, restarted) ==
    [pass |-> n, pos |-> 1, responses |-> <<>>, resume |-> resume,
     failed |-> {}, status |-> Absent, restarted |-> restarted, steps |-> steps]

\* create_template, of the suggested template or of one the user wrote, and
\* the first pass of a job's row over it.
create_template_and_run(t) ==
    /\ stage \in {"editing", "suggested"}
    /\ IF validate_template(t)
       THEN /\ stage'    = "running"
            /\ template' = t
            /\ chain'    = Pass(1, [i \in DOMAIN t |-> NoRecord], <<>>, FALSE)
       ELSE stage' = "refused" /\ UNCHANGED <<template, chain>>
    /\ attempt' = 0
    /\ UNCHANGED <<object, sampled>>

Running == stage = "running" /\ chain.status = Absent
Here    == template[chain.pos]

\* The row's outcome when the chain ends with the given failures.
Outcome(failed) == IF failed = {} THEN "succeeded" ELSE "failed"

\* The chain after the step at pos, which failed or not: the next step, or
\* the row's outcome.
After(c, failed, stops) ==
    [c EXCEPT !.pos = @ + 1, !.failed = failed,
              !.status = IF stops \/ c.pos = Len(template) THEN Outcome(failed) ELSE Absent]

\* persistStep: single-step templates keep no step records.
Record(c, status) ==
    IF Len(template) = 1 THEN c.steps
    ELSE [c.steps EXCEPT ![c.pos] =
            [status |-> status, pass |-> c.pass,
             used |-> [r \in Here.refs \cap DOMAIN c.responses |-> c.responses[r]]]]

\* The response of a step joins those of the steps before it.
Put(f, k, v) == [x \in DOMAIN f \cup {k} |-> IF x = k THEN v ELSE f[x]]

\* processOneRow on a step that has a persisted response.
skip_resumed ==
    /\ Running
    /\ Here.name \in DOMAIN chain.resume
    /\ chain' = After([chain EXCEPT !.responses = Put(@, Here.name, chain.resume[Here.name])],
                      chain.failed, FALSE)
    /\ UNCHANGED <<stage, object, sampled, attempt, template>>

(* executeStep: rendering fails if a referenced step has no response; the  *)
(* call may fail for good or end with its effect unknown.                  *)
execute_step(outcome) ==
    /\ Running
    /\ Here.name \notin DOMAIN chain.resume
    /\ outcome # "failed" => Here.refs \subseteq DOMAIN chain.responses
    /\ LET c == [chain EXCEPT !.steps = Record(chain, outcome)]
       IN  chain' = CASE outcome = "succeeded" ->
                           After([c EXCEPT !.responses = Put(@, Here.name, c.pass)],
                                 c.failed, FALSE)
                      [] outcome = "failed" ->
                           After(c, c.failed \cup {Here.name}, ~Here.continues)
                      [] outcome = "unresolved" ->
                           [c EXCEPT !.pos = @ + 1, !.status = "unresolved"]
    /\ UNCHANGED <<stage, object, sampled, attempt, template>>

\* Mutant: a step with any record is resumed.
ResumableAny(record) == record.status # Absent

\* Mutant: only the steps of the last pass are resumed.
ResumableRecent(record) == record.status = "succeeded" /\ record.pass = chain.pass

\* retryPersistedRow: the responses a resumed pass starts from.
Resumable(record) == record.status = "succeeded"

ResumeFrom(t, steps) ==
    LET kept == {i \in DOMAIN t : Resumable(steps[i])}
    IN  [n \in {t[i].name : i \in kept} |->
            steps[CHOOSE i \in kept : t[i].name = n].pass]

retry_row(from_start) ==
    /\ stage = "running" /\ chain.status # Absent
    /\ chain.pass < MaxPasses
    /\ chain' = Pass(chain.pass + 1, chain.steps,
                     IF from_start THEN <<>> ELSE ResumeFrom(template, chain.steps),
                     chain.restarted \/ from_start)
    /\ UNCHANGED <<stage, object, sampled, attempt, template>>

-----------------------------------------------------------------------------

SessionInit ==
    /\ stage = "object"
    /\ object \in Object
    /\ sampled = Absent
    /\ attempt = 0
    /\ template = Absent
    /\ chain = NoChain

SessionNext ==
    \/ sample_file
    \/ \E usable \in BOOLEAN : suggest_mapping(usable)
    \/ edit_by_hand
    \/ stage = "asking" /\ \E t \in Template : llm_answers(t)
    \/ llm_unusable
    \/ stage = "editing" /\ \E t \in Template : create_template_and_run(t)
    \/ stage = "suggested" /\ create_template_and_run(template)
    \/ skip_resumed
    \/ \E o \in {"succeeded", "failed", "unresolved"} : execute_step(o)
    \/ \E b \in BOOLEAN : retry_row(b)

SessionSpec == SessionInit /\ [][SessionNext]_sessionVars

-----------------------------------------------------------------------------
(* Properties. *)

\* The records that the parser of a format passes over.
PassedOver(format) ==
    CASE format = "ndjson" -> {Malformed}
      [] format = "xml"    -> {SelfClosing}
      [] OTHER             -> {}

Readable(o) ==
    IF PassedOver(o.format) = {} THEN o.recs ELSE Kept(o.recs, PassedOver(o.format))

(***************************************************************************)
(* A sample of a file within the byte cap that is not marked truncated     *)
(* covers all that the format's parser reads: every record is a row but    *)
(* for NDJSON lines that do not parse and self-closing XML records, the    *)
(* column's type fits every value of those records that is not blank, and  *)
(* a column that is not nullable has a value in each of them. A sampler    *)
(* that loses its look-ahead past the row cap, or infers from part of the  *)
(* rows, lets the Designer fix a type the rest of the file does not have.  *)
(***************************************************************************)
UntruncatedIsWhole ==
    (stage = "sampled" /\ sampled.ok /\ ~sampled.truncated /\ ~Clipped(object)) =>
        /\ sampled.rows = Readable(object)
        /\ \A i \in DOMAIN object.recs :
              LET r == object.recs[i] IN
              r \notin PassedOver(object.format) =>
                 /\ sampled.type # "string" /\ ~Blank(Raw(r)) => sampled.type \in ParsesAs[Raw(r)]
                 /\ ~sampled.nullable => r \notin {Missing, Null}

(***************************************************************************)
(* docs/sampling.md:100, "Each <recordTag> element is one row": an XML     *)
(* sample that is not marked truncated has a row for every record element, *)
(* as the connector will emit one at run time. read_next_record looks for  *)
(* start tags only and passes over a self-closing record.                  *)
(***************************************************************************)
EachElementIsARow ==
    (stage = "sampled" /\ sampled.ok /\ ~sampled.truncated /\ ~Clipped(object)
        /\ object.format = "xml") =>
    Len(sampled.rows) = Len(object.recs)

(***************************************************************************)
(* A file larger than the byte cap, all of whose records are well formed,  *)
(* is still sampled, and the sample is marked truncated (the contract of   *)
(* the sampling module).                                                   *)
(***************************************************************************)
LargeFilesSampled ==
    (stage = "sampled" /\ Clipped(object) /\ Fetched(object) >= object.size
        /\ \A i \in DOMAIN object.recs :
              ~Damaged(object.recs[i]) /\ object.recs[i] # SelfClosing) =>
    sampled.ok /\ sampled.truncated

(***************************************************************************)
(* Once the API has accepted a template, the orchestrator never renders a  *)
(* step whose reference has no response, unless the referenced step failed *)
(* earlier in the same pass and let the chain continue; in first passes    *)
(* and in resumed ones, where the responses come from persisted records.   *)
(***************************************************************************)
ReferencesExecuted ==
    (Running /\ Here.name \notin DOMAIN chain.resume) =>
        Here.refs \subseteq DOMAIN chain.responses \cup chain.failed

(***************************************************************************)
(* A row reported as succeeded has a succeeded record for every step, and  *)
(* every step used the response its referenced step is recorded with,      *)
(* through failures, unresolved calls and resumed passes; unless a pass    *)
(* was restarted from the first step (its failure leaves later records of  *)
(* the earlier pass behind).                                               *)
(***************************************************************************)
SucceededChainCoherent ==
    (stage = "running" /\ chain.status = "succeeded" /\ Len(template) > 1 /\ ~chain.restarted) =>
        \A i \in DOMAIN template :
            /\ chain.steps[i].status = "succeeded"
            /\ \A j \in DOMAIN template :
                  template[j].name \in template[i].refs =>
                      /\ template[j].name \in DOMAIN chain.steps[i].used
                      /\ chain.steps[i].used[template[j].name] = chain.steps[j].pass

(***************************************************************************)
(* A step that succeeded is not called again: unless the row is restarted  *)
(* from its first step, no pass of processOneRow or retryPersistedRow      *)
(* replaces the record of a succeeded step.                                *)
(***************************************************************************)
SucceededStepsKept ==
    [][stage = "running" /\ Len(template) > 1 /\ ~chain'.restarted =>
          \A i \in 1 .. Len(template) :
             chain.steps[i].status = "succeeded" => chain'.steps[i] = chain.steps[i]]_sessionVars

=============================================================================
