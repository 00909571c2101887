----------------------------- MODULE Schedules -----------------------------
(***************************************************************************)
(* Schedules live twice: as a row of the table schedules, which the API    *)
(* lists, and as a Temporal Schedule, which fires.  Every request changes  *)
(* the two in separate steps, other requests for the same schedule run in  *)
(* between, and a call to the Temporal bridge may fail, or be given up on  *)
(* (20 s) while its effect still arrives later.                            *)
(*                                                                         *)
(* A schedule is known by its row's id; ids are never used again.          *)
(* Catchup window and overlap policy go the way of the time zone: Temporal *)
(* learns them when the schedule is created and an update writes the row   *)
(* only.  Reads (list, get, runs) and the audit log are left out.          *)
(***************************************************************************)
EXTENDS Integers, FiniteSets

CONSTANTS
    Schedule,  \* ids of rows
    Request,   \* requests to the API, each served once
    Timing,    \* normalised specs, {cron} or {every}
    Foreign,   \* those the API's parsers accept and the bridge or Temporal refuses
    Zone,      \* time zones other than UTC
    MaxFaults  \* bound: calls or writes that fail, handlers that are dropped

ASSUME SchedulesAssumption == MaxFaults \in Nat /\ Foreign \subseteq Timing

VARIABLES
    row,     \* table schedules
    sched,   \* Temporal's schedules
    req,     \* the handlers' local state
    late,    \* calls to Temporal whose caller is gone
    hist     \* history: ids used, requests a fault struck, ids deleted

vars == <<row, sched, req, late, hist>>

Keep == "keep"   \* a field the request leaves out
Zones == Zone \cup {"UTC"}
State == {"on", "off"}  \* enabled or not, running or paused
Gone  == [spec |-> "none", tz |-> "none", state |-> "none"]
Entry == [spec : Timing, tz : Zones, state : State]

Op == {"create", "update", "delete", "pause", "resume", "trigger"}
Ask == [spec : Timing \cup {Keep}, tz : Zones \cup {Keep}, state : State \cup {Keep},
        overlap_ok : BOOLEAN]
NoAsk == [spec |-> Keep, tz |-> Keep, state |-> Keep, overlap_ok |-> TRUE]
Unsent == [op |-> "none", id |-> "none", pc |-> "unsent", ask |-> NoAsk,
           existing |-> Gone, alone |-> FALSE]

Calls == {"call", "call_enabled", "call_pause"}  \* waiting for the bridge
Active == Calls \cup {"read", "write", "rollback"}
Call == [act : {"create", "update", "delete", "pause", "unpause", "trigger"},
         id : Schedule, spec : Timing \cup {Keep}, tz : Zones \cup {Keep}]

\* Types of both stores, of the requests and of the calls under way.
TypeOK ==
    /\ row \in [Schedule -> Entry \cup {Gone}]
    /\ sched \in [Schedule -> Entry \cup {Gone}]
    /\ \A r \in Request :
          \/ \E pc \in {"unsent", "ok", "error"} : req[r] = [Unsent EXCEPT !.pc = pc]
          \/ req[r] \in [op : Op, id : Schedule, pc : Active, ask : Ask,
                         existing : Entry \cup {Gone}, alone : BOOLEAN]
    /\ late \subseteq Call
    /\ hist \in [used : SUBSET Schedule, deleted : SUBSET Schedule,
                 struck : [Schedule -> SUBSET Op], faults : 0 .. MaxFaults]

Init ==
    /\ row = [s \in Schedule |-> Gone]
    /\ sched = [s \in Schedule |-> Gone]
    /\ req = [r \in Request |-> Unsent]
    /\ late = {}
    /\ hist = [used |-> {}, deleted |-> {}, struck |-> [s \in Schedule |-> {}], faults |-> 0]

Touching(s) == {r \in Request : req[r].id = s /\ req[r].pc \in Active}
LateFor(s)  == {c \in late : c.id = s}
Quiet(s)    == Touching(s) = {} /\ LateFor(s) = {}
-----------------------------------------------------------------------------
(* The bridge and Temporal *)

\* The bridge's handlers over the Temporal client: creating an existing
\* schedule, any operation on a missing one, and a spec that Go's
\* time.ParseDuration or Temporal's cron parser refuses is an error.
Accepts(c, x) ==
    /\ (x = Gone) <=> (c.act = "create")
    /\ c.act \in {"create", "update"} => c.spec \notin Foreign

\* updateSchedule replaces the whole spec, and the request names no time zone.
Effect(c, x) ==
    CASE c.act = "create"  -> [spec |-> c.spec, tz |-> c.tz, state |-> "on"]
      [] c.act = "update"  -> [x EXCEPT !.spec = c.spec, !.tz = "UTC"]
      [] c.act = "pause"   -> [x EXCEPT !.state = "off"]
      [] c.act = "unpause" -> [x EXCEPT !.state = "on"]
      [] c.act = "delete"  -> Gone
      [] c.act = "trigger" -> x

\* The call the handler of q is waiting for.
Pending(q) ==
    LET c == [act |-> "trigger", id |-> q.id, spec |-> Keep, tz |-> Keep] IN
    CASE q.pc = "call_pause"   -> [c EXCEPT !.act = "pause"]
      [] q.pc = "call_enabled" -> [c EXCEPT !.act = IF q.ask.state = "on" THEN "unpause" ELSE "pause"]
      [] q.pc = "call" /\ q.op = "create" -> [c EXCEPT !.act = "create", !.spec = q.ask.spec, !.tz = q.ask.tz]
      [] q.pc = "call" /\ q.op = "update" -> [c EXCEPT !.act = "update", !.spec = q.ask.spec]
      [] q.pc = "call" /\ q.op = "resume" -> [c EXCEPT !.act = "unpause"]
      [] OTHER -> [c EXCEPT !.act = q.op]

-----------------------------------------------------------------------------
(* The API's handlers *)

\* Where update_schedule goes once Temporal has the new state: an unknown
\* overlap policy is refused only here.
Written(q) == IF q.ask.overlap_ok THEN "write" ELSE "error"

\* Bridge errors of updates, pauses and resumes are logged and passed over.
AfterCallLenient(q, ok) ==
    CASE q.op = "create" /\ q.pc = "call" ->
             IF ~ok THEN "rollback" ELSE IF q.ask.state = "on" THEN "ok" ELSE "call_pause"
      [] q.op = "create" /\ q.pc = "call_pause" -> "ok"
      [] q.op = "trigger" -> "ok"
      [] OTHER -> "write"

\* A deletion that takes "no such schedule" for success.
AfterCallForgiving(q, ok) ==
    CASE q.op = "create" /\ q.pc = "call" ->
             IF ~ok THEN "rollback" ELSE IF q.ask.state = "on" THEN "ok" ELSE "call_pause"
      [] q.op = "create" /\ q.pc = "call_pause" -> "ok"
      [] q.op = "delete" -> "write"
      [] OTHER -> IF ok THEN "write" ELSE "error"

\* What each handler does with the bridge's answer.
AfterCall(q, ok) ==
    CASE q.op = "create" /\ q.pc = "call" ->
             IF ~ok THEN "rollback" ELSE IF q.ask.state = "on" THEN "ok" ELSE "call_pause"
      [] q.op = "create" /\ q.pc = "call_pause" -> "ok"
      [] q.op = "update" /\ q.pc = "call" ->
             IF ~ok THEN "error" ELSE IF q.ask.state # Keep THEN "call_enabled" ELSE Written(q)
      [] q.op = "update" /\ q.pc = "call_enabled" -> IF ok THEN Written(q) ELSE "error"
      [] q.op = "trigger" -> IF ok THEN "ok" ELSE "error"
      [] OTHER -> IF ok THEN "write" ELSE "error"

\* Moves r to pc; an answered request keeps its outcome only.
Goto(r, pc) ==
    req' = [req EXCEPT ![r] = IF pc \in {"ok", "error"} THEN [Unsent EXCEPT !.pc = pc]
                              ELSE [@ EXCEPT !.pc = pc]]

\* A request arrives; everyone busy with the same schedule has company.
Begin(r, op, s, pc, ask) ==
    /\ req[r] = Unsent
    /\ req' = [q \in Request |->
                  IF q = r THEN [op |-> op, id |-> s, pc |-> pc, ask |-> ask,
                                 existing |-> Gone, alone |-> Quiet(s)]
                  ELSE IF q \in Touching(s) THEN [req[q] EXCEPT !.alone = FALSE]
                  ELSE req[q]]

\* create_schedule up to the INSERT: requests refused before it (license,
\* spec, policy, connector, template, a name in use) leave no trace.
create_schedule(r) ==
    \E s \in Schedule \ hist.used :
    \E ask \in [spec : Timing, tz : Zones, state : State, overlap_ok : {TRUE}] :
        /\ Begin(r, "create", s, "call", ask)
        /\ row' = [row EXCEPT ![s] = [spec |-> ask.spec, tz |-> ask.tz, state |-> ask.state]]
        /\ hist' = [hist EXCEPT !.used = @ \cup {s}]
        /\ UNCHANGED <<sched, late>>

\* The other requests name a schedule that has, or had, a row.
update_schedule(r) ==
    \E s \in hist.used, ask \in Ask :
        /\ Begin(r, "update", s, "read", ask)
        /\ UNCHANGED <<row, sched, late, hist>>

control_schedule(r) ==
    \E s \in hist.used, op \in {"delete", "pause", "resume", "trigger"} :
        /\ Begin(r, op, s, "read", NoAsk)
        /\ UNCHANGED <<row, sched, late, hist>>

\* The first query of a handler: update and delete read the row, the others
\* go through temporal_id.  delete of a missing row goes on to its DELETE.
read_row(r) ==
    /\ req[r].pc = "read"
    /\ LET q == req[r]
           next == IF row[q.id] = Gone THEN (IF q.op = "delete" THEN "write" ELSE "error")
                   ELSE IF q.op # "update" \/ q.ask.spec # Keep THEN "call"
                   ELSE IF q.ask.state # Keep THEN "call_enabled" ELSE Written(q)
       IN req' = [req EXCEPT ![r] = IF next = "error" THEN [Unsent EXCEPT !.pc = next]
                                    ELSE [@ EXCEPT !.pc = next, !.existing = row[q.id]]]
    /\ UNCHANGED <<row, sched, late, hist>>

\* Temporal executes the call and the handler learns the outcome.
call_temporal(r) ==
    /\ req[r].pc \in Calls
    /\ LET c == Pending(req[r])  ok == Accepts(c, sched[c.id]) IN
          /\ sched' = IF ok THEN [sched EXCEPT ![c.id] = Effect(c, @)] ELSE sched
          /\ Goto(r, AfterCall(req[r], ok))
    /\ UNCHANGED <<row, late, hist>>

Or(asked, old) == IF asked = Keep THEN old ELSE asked

\* What the handler's statement makes of the row; update writes every column
\* from its earlier read.
WrittenRow(q) ==
    CASE q.op = "update" -> [spec |-> Or(q.ask.spec, q.existing.spec),
                             tz |-> Or(q.ask.tz, q.existing.tz), state |-> Or(q.ask.state, q.existing.state)]
      [] q.op = "pause"  -> [row[q.id] EXCEPT !.state = "off"]
      [] q.op = "resume" -> [row[q.id] EXCEPT !.state = "on"]
      [] q.op = "delete" -> Gone

ThereOrUpsert(q) == row[q.id] # Gone \/ q.op = "update"

\* The statement finds a row to change.
There(q) == row[q.id] # Gone

\* The last statement.  A row that is gone by then is an error for update and
\* delete, and goes unnoticed in pause and resume.
write_row(r) ==
    /\ req[r].pc = "write"
    /\ LET q == req[r]  there == There(q) IN
          /\ row' = IF there THEN [row EXCEPT ![q.id] = WrittenRow(q)] ELSE row
          /\ Goto(r, IF there \/ q.op \in {"pause", "resume"} THEN "ok" ELSE "error")
          /\ hist' = IF there /\ q.op = "delete"
                     THEN [hist EXCEPT !.deleted = @ \cup {q.id}] ELSE hist
    /\ UNCHANGED <<sched, late>>

\* Temporal refused a creation: the row goes.
rollback_row(r) ==
    /\ req[r].pc = "rollback"
    /\ row' = [row EXCEPT ![req[r].id] = Gone]
    /\ Goto(r, "error")
    /\ UNCHANGED <<sched, late, hist>>
-----------------------------------------------------------------------------
(* Faults *)

Struck(q) == /\ hist.faults < MaxFaults
             /\ hist' = [hist EXCEPT !.faults = @ + 1, !.struck[q.id] = @ \cup {q.op}]

\* The call fails: it never arrives, or it takes effect after the handler has
\* given up on it.
call_fails(r) ==
    /\ req[r].pc \in Calls
    /\ Struck(req[r])
    /\ Goto(r, AfterCall(req[r], FALSE))
    /\ late' \in {late, late \cup {Pending(req[r])}}
    /\ UNCHANGED <<row, sched>>

\* The database fails, the process dies, or the client hangs up and the
\* handler is dropped where it waits.
dropped(r) ==
    /\ req[r].pc \in Active
    /\ Struck(req[r])
    /\ Goto(r, "error")
    /\ late' \in {late} \cup (IF req[r].pc \in Calls THEN {late \cup {Pending(req[r])}} ELSE {})
    /\ UNCHANGED <<row, sched>>

\* A late call takes effect, or is lost after all.
late_call(c) ==
    /\ late' = late \ {c}
    /\ sched' \in {sched, IF Accepts(c, sched[c.id])
                          THEN [sched EXCEPT ![c.id] = Effect(c, @)] ELSE sched}
    /\ UNCHANGED <<row, req, hist>>

Next ==
    \/ \E r \in Request :
          \/ create_schedule(r) \/ update_schedule(r) \/ control_schedule(r)
          \/ read_row(r) \/ call_temporal(r) \/ write_row(r) \/ rollback_row(r)
          \/ call_fails(r) \/ dropped(r)
    \/ \E c \in late : late_call(c)

Spec == Init /\ [][Next]_vars
-----------------------------------------------------------------------------
(* Properties *)

\* However requests for a schedule interleave, once none is under way both
\* stores have it or neither does, unless a fault struck its creation (the
\* schedule then fires without a row, or the row has nothing that fires) or
\* its deletion (the row stays).
ExistenceAgrees ==
    \A s \in Schedule : Quiet(s) =>
        /\ row[s] = Gone /\ sched[s] # Gone => "create" \in hist.struck[s]
        /\ row[s] # Gone /\ sched[s] = Gone => hist.struck[s] \cap {"create", "delete"} # {}

\* A schedule whose deletion removed the row never fires again: no request
\* that was under way and no late call brings either half back.
DeletedStaysDeleted ==
    \A s \in hist.deleted : row[s] = Gone /\ sched[s] = Gone

\* What an acknowledged request q can rely on in the row r and in Temporal's
\* schedule t: everything it asked for in the row; in Temporal the spec and
\* whether it runs, and on creation the time zone.  A time zone, an overlap
\* policy or a catchup window that an update asks for reaches the row only,
\* and a creation asked for paused is acknowledged although its pause failed
\* (struck): see UpdateTakesEffect and CreatedPaused.
Settled(q, r, t, struck) ==
    CASE q.op = "create" -> /\ r = [spec |-> q.ask.spec, tz |-> q.ask.tz, state |-> q.ask.state]
                            /\ t # Gone /\ t.spec = q.ask.spec /\ t.tz = q.ask.tz
                            /\ t.state = q.ask.state \/ (q.ask.state = "off" /\ "create" \in struck)
      [] q.op = "update" -> /\ q.ask.spec # Keep => r.spec = q.ask.spec /\ t.spec = q.ask.spec
                            /\ q.ask.state # Keep => r.state = q.ask.state /\ t.state = q.ask.state
                            /\ q.ask.tz # Keep => r.tz = q.ask.tz
      [] q.op = "delete" -> r = Gone /\ t = Gone
      [] q.op = "pause"  -> r.state = "off" /\ t.state = "off"
      [] q.op = "resume" -> r.state = "on" /\ t.state = "on"
      [] OTHER -> t # Gone

\* Whatever earlier faults and races left in the two stores, a request that
\* had the schedule to itself and was acknowledged leaves both with the spec
\* and the paused or running state it asked for (gone, for a deletion), the
\* row with every other field it named, and a created schedule with its time
\* zone: so repeating a request repairs a spec or a state on which the two
\* stores disagree.  It does not repair a time zone, an overlap policy or a
\* catchup window, and a creation asked for paused may be running when a
\* fault struck its pause.
SoloRequestSettles ==
    [][\A r \in Request :
          req[r].alone /\ req'[r].pc = "ok" =>
              Settled(req[r], row'[req[r].id], sched'[req[r].id], hist'.struck[req[r].id])]_vars

\* docs/api.md on PUT /schedules/{id}: "Updates cron/overlap/paused state",
\* and docs/operations.md on a schedule that keeps skipping: "switch
\* `overlap_policy` to `buffer_one`".  What an acknowledged update asks for
\* is what fires; shown on the time zone, which the code treats like the
\* overlap policy and the catchup window.
UpdateTakesEffect ==
    [][\A r \in Request :
          req[r].alone /\ req[r].op = "update" /\ req'[r].pc = "ok" /\ req[r].ask.tz # Keep =>
              sched'[req[r].id].tz = req[r].ask.tz]_vars

\* docs/api.md on POST /schedules: "Creates Temporal Schedule + DB row."  A
\* schedule whose creation with enabled = false was acknowledged does not run.
CreatedPaused ==
    [][\A r \in Request :
          req[r].alone /\ req[r].op = "create" /\ req'[r].pc = "ok" =>
              sched'[req[r].id].state = req[r].ask.state]_vars

\* docs/operations.md: "Temporal runs in `spec_json.timezone`, not cluster
\* UTC".  With no fault and one request at a time, Temporal's time zone is
\* the row's.
TimezoneKept ==
    \A s \in Schedule :
        Quiet(s) /\ hist.struck[s] = {} /\ row[s] # Gone /\ sched[s] # Gone => sched[s].tz = row[s].tz
=============================================================================
