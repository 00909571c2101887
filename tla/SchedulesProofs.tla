--------------------------- MODULE SchedulesProofs ---------------------------
(***************************************************************************)
(* Proofs about module Schedules: for any number of schedules, requests,   *)
(* timings and faults, the two halves of a schedule exist together unless  *)
(* a fault struck, a deleted schedule stays deleted, and a request that    *)
(* had the schedule to itself leaves the spec and the state it asked for.  *)
(***************************************************************************)
EXTENDS Schedules, TLAPS

-----------------------------------------------------------------------------
(* The inductive invariant. *)

Req == [op : Op, id : Schedule, pc : Active, ask : Ask, existing : Entry \cup {Gone}, alone : BOOLEAN]

Answered == {[Unsent EXCEPT !.pc = pc] : pc \in {"unsent", "ok", "error"}}

\* Which handler can be where, and what it was asked or has read by then.
ReqOk(q) ==
    /\ q.op = "create" =>
          /\ q.pc \in {"call", "call_pause", "rollback"}
          /\ q.ask.spec \in Timing /\ q.ask.tz \in Zones /\ q.ask.state \in State
    /\ q.op = "update" =>
          /\ q.pc \in {"read", "call", "call_enabled", "write"}
          /\ q.pc # "read" => q.existing \in Entry
          /\ q.pc = "call" => q.ask.spec # Keep
          /\ q.pc = "call_enabled" => q.ask.state # Keep
    /\ q.op \in {"delete", "pause", "resume"} => q.pc \in {"read", "call", "write"}
    /\ q.op = "trigger" => q.pc \in {"read", "call"}

CallOk(c) ==
    /\ c.act = "create" => c.spec \in Timing /\ c.tz \in Zones
    /\ c.act = "update" => c.spec \in Timing

TypeInv ==
    /\ row \in [Schedule -> Entry \cup {Gone}]
    /\ sched \in [Schedule -> Entry \cup {Gone}]
    /\ req \in [Request -> Req \cup Answered]
    /\ late \subseteq Call
    /\ hist \in [used : SUBSET Schedule, deleted : SUBSET Schedule,
                 struck : [Schedule -> SUBSET Op], faults : 0 .. MaxFaults]
    /\ \A r \in Request : req[r].pc \in Active => req[r] \in Req /\ ReqOk(req[r])
    /\ \A c \in late : CallOk(c)

\* Request r is at work on schedule s for operation op, at pc.
At(r, op, pc, s) == req[r].op = op /\ req[r].pc = pc /\ req[r].id = s

\* r is about to give s its other half, or to take it away.
Parting(r, s) ==
    At(r, "create", "call", s) \/ At(r, "create", "rollback", s) \/ At(r, "delete", "write", s)

CreatePending(s) ==
    \/ \E r \in Request : At(r, "create", "call", s)
    \/ \E c \in late : c.act = "create" /\ c.id = s

\* Temporal does not have s and never will again.
Dead(s) == s \in hist.used /\ sched[s] = Gone /\ ~CreatePending(s)

\* A schedule is created in Temporal at most once.
CreateInv ==
    /\ \A r \in Request : req[r].pc \in Active => req[r].id \in hist.used
    /\ \A c \in late : c.id \in hist.used
    /\ \A s \in Schedule : s \notin hist.used => row[s] = Gone /\ sched[s] = Gone
    /\ \A s \in Schedule : CreatePending(s) => sched[s] = Gone
    /\ \A r, t \in Request, s \in Schedule :
          At(r, "create", "call", s) /\ req[t].op = "create" /\ req[t].pc \in Active /\ req[t].id = s
          => r = t
    /\ \A r \in Request, c \in late :
          ~ (c.act = "create" /\ At(r, "create", "call", c.id))
    /\ \A c, d \in late : c.act = "create" /\ d.act = "create" /\ c.id = d.id => c = d

\* What faults leave behind is on record.
StruckInv ==
    /\ \A c \in late : c.act \in {"create", "delete"} => c.act \in hist.struck[c.id]
    /\ \A r \in Request, s \in Schedule :
          At(r, "create", "rollback", s) => "create" \in hist.struck[s] \/ Dead(s)

\* How the two halves can come apart.
HalvesInv ==
    /\ \A r \in Request, s \in Schedule :
          At(r, "delete", "write", s) => row[s] = Gone \/ Dead(s)
    /\ \A s \in hist.deleted : row[s] = Gone /\ Dead(s)
    /\ \A s \in hist.used : row[s] = Gone => "create" \in hist.struck[s] \/ Dead(s)
    /\ \A s \in Schedule : row[s] # Gone /\ sched[s] = Gone =>
          \/ hist.struck[s] \cap {"create", "delete"} # {}
          \/ \E r \in Request : Parting(r, s)

\* A request that has its schedule to itself finds it as it left it, unless
\* it is on its way to an error.
Progress(q, x, t) ==
    /\ q.op = "create" =>
          /\ x = [spec |-> q.ask.spec, tz |-> q.ask.tz, state |-> q.ask.state]
          /\ q.pc = "call_pause" => /\ q.ask.state # "on" /\ t # Gone
                                    /\ t.spec = q.ask.spec /\ t.tz = q.ask.tz
    /\ q.op # "create" /\ q.op # "delete" /\ q.pc # "read" => x # Gone
    /\ q.op = "update" /\ q.pc \in {"call_enabled", "write"} /\ q.ask.spec # Keep =>
          t.spec = q.ask.spec
    /\ q.op = "update" /\ q.pc = "write" /\ q.ask.state # Keep =>
          t.state = q.ask.state
    /\ q.op = "pause" /\ q.pc = "write" => t.state = "off"
    /\ q.op = "resume" /\ q.pc = "write" => t.state = "on"

SoloInv ==
    \A r \in Request : req[r].pc \in Active \ {"rollback"} /\ req[r].alone =>
        /\ \A q \in Request : req[q].pc \in Active /\ req[q].id = req[r].id => q = r
        /\ \A c \in late : c.id # req[r].id
        /\ Progress(req[r], row[req[r].id], sched[req[r].id])

IInv == TypeInv /\ CreateInv /\ StruckInv /\ HalvesInv /\ SoloInv
-----------------------------------------------------------------------------
(* What a step does to the requests. *)

\* r goes to pc and keeps what it is about; the other requests stay.
Moves(r, pc) ==
    /\ req' \in [Request -> Req \cup Answered]
    /\ \A q \in Request \ {r} : req'[q] = req[q]
    /\ req'[r].pc = pc
    /\ IF pc \in Active
       THEN /\ req'[r] \in Req
            /\ req'[r].op = req[r].op /\ req'[r].id = req[r].id
            /\ req'[r].ask = req[r].ask /\ req'[r].alone = req[r].alone
       ELSE req'[r].op = "none"

\* An answered request, or one not yet sent, is about nothing.
LEMMA AnsweredFields ==
    ASSUME NEW q \in Answered
    PROVE  q.op = "none" /\ q.pc \in {"unsent", "ok", "error"} /\ q.pc \notin Active /\ q.alone = FALSE
BY DEF Answered, Unsent, Active, Calls

\* Every request starts unsent.
LEMMA UnsentFields ==
    Unsent \in Answered /\ Unsent.op = "none" /\ Unsent.pc = "unsent"
<1>1. Unsent = [Unsent EXCEPT !.pc = "unsent"]
  BY SMT DEF Unsent, NoAsk, Gone, Keep
<1> QED BY <1>1 DEF Answered, Unsent

\* Goto moves one handler and touches no other.
LEMMA GotoMoves ==
    ASSUME TypeInv, NEW r \in Request, NEW pc \in Active \cup {"ok", "error"},
           req[r].pc \in Active, Goto(r, pc)
    PROVE  Moves(r, pc) /\ (pc \in Active => req'[r].existing = req[r].existing)
<1>1. req[r] \in Req /\ req \in [Request -> Req \cup Answered]
  BY DEF TypeInv
<1>2. CASE pc \in {"ok", "error"}
  <2>1. req' = [req EXCEPT ![r] = [Unsent EXCEPT !.pc = pc]]
    BY <1>2 DEF Goto
  <2>2. [Unsent EXCEPT !.pc = pc] \in Answered /\ pc \notin Active
    BY <1>2 DEF Answered, Active, Calls
  <2>3. [Unsent EXCEPT !.pc = pc].pc = pc /\ [Unsent EXCEPT !.pc = pc].op = "none"
    BY DEF Unsent
  <2> QED BY <1>1, <2>1, <2>2, <2>3 DEF Moves
<1>3. CASE pc \in Active
  <2>0. pc \notin {"ok", "error"}
    BY <1>3 DEF Active, Calls
  <2>1. req' = [req EXCEPT ![r] = [req[r] EXCEPT !.pc = pc]]
    BY <1>1, <2>0 DEF Goto
  <2>2. /\ [req[r] EXCEPT !.pc = pc] \in Req
        /\ [req[r] EXCEPT !.pc = pc].pc = pc
        /\ [req[r] EXCEPT !.pc = pc].op = req[r].op
        /\ [req[r] EXCEPT !.pc = pc].id = req[r].id
        /\ [req[r] EXCEPT !.pc = pc].ask = req[r].ask
        /\ [req[r] EXCEPT !.pc = pc].existing = req[r].existing
        /\ [req[r] EXCEPT !.pc = pc].alone = req[r].alone
    BY <1>1, <1>3 DEF Req
  <2> QED BY <1>1, <1>3, <2>1, <2>2 DEF Moves
<1> QED BY <1>2, <1>3

\* A request that arrives takes the schedule's other requests their solitude
\* and nothing else.
LEMMA BeginStep ==
    ASSUME TypeInv, NEW r \in Request, NEW op \in Op, NEW s \in Schedule, NEW pc \in Active,
           NEW ask \in Ask, Begin(r, op, s, pc, ask)
    PROVE  /\ req' \in [Request -> Req \cup Answered]
           /\ req[r].pc = "unsent" /\ req[r].op = "none"
           /\ req'[r] \in Req /\ req'[r].op = op /\ req'[r].id = s /\ req'[r].pc = pc
           /\ req'[r].ask = ask /\ req'[r].existing = Gone /\ req'[r].alone = Quiet(s)
           /\ \A q \in Request \ {r} :
                 /\ req'[q].op = req[q].op /\ req'[q].pc = req[q].pc /\ req'[q].id = req[q].id
                 /\ req'[q].ask = req[q].ask /\ req'[q].existing = req[q].existing
                 /\ req'[q].alone => req[q].alone
                 /\ req[q].pc \in Active => req'[q] \in Req
                 /\ req[q].pc \in Active /\ req[q].id = s => ~req'[q].alone
<1>1. req \in [Request -> Req \cup Answered]
  BY DEF TypeInv
<1>2. req[r].pc = "unsent" /\ req[r].op = "none"
  BY UnsentFields DEF Begin
<1> DEFINE new == [op |-> op, id |-> s, pc |-> pc, ask |-> ask, existing |-> Gone, alone |-> Quiet(s)]
<1>3. new \in Req /\ req'[r] = new
  BY DEF Begin, Req, Quiet
<1>4. ASSUME NEW q \in Request \ {r}
      PROVE  /\ req'[q] \in Req \cup Answered
             /\ req'[q].op = req[q].op /\ req'[q].pc = req[q].pc /\ req'[q].id = req[q].id
             /\ req'[q].ask = req[q].ask /\ req'[q].existing = req[q].existing
             /\ req'[q].alone => req[q].alone
             /\ req[q].pc \in Active => req'[q] \in Req
             /\ req[q].pc \in Active /\ req[q].id = s => ~req'[q].alone
  <2>0. req[q].pc \in Active => req[q] \in Req
    BY DEF TypeInv
  <2>1. CASE q \in Touching(s)
    <3>1. req[q] \in Req
      BY <2>0, <2>1 DEF Touching
    <3>2. req'[q] = [req[q] EXCEPT !.alone = FALSE]
      BY <2>1 DEF Begin
    <3> QED BY <3>1, <3>2 DEF Req
  <2>2. CASE q \notin Touching(s)
    <3>1. req'[q] = req[q] /\ ~(req[q].pc \in Active /\ req[q].id = s)
      BY <2>2 DEF Begin, Touching
    <3> QED BY <1>1, <2>0, <3>1
  <2> QED BY <2>1, <2>2
<1>5. req' \in [Request -> Req \cup Answered]
  <2>1. \A q \in Request : req'[q] \in Req \cup Answered
    BY <1>3, <1>4
  <2>2. req' = [q \in Request |-> req'[q]]
    BY DEF Begin
  <2> QED BY <2>1, <2>2
<1>6. /\ new.op = op /\ new.id = s /\ new.pc = pc /\ new.ask = ask /\ new.existing = Gone
      /\ new.alone = Quiet(s)
  OBVIOUS
<1> HIDE DEF new
<1> QED BY <1>2, <1>3, <1>4, <1>5, <1>6
-----------------------------------------------------------------------------
(* One lemma per action. *)

\* The invariant holds before any request arrives.
LEMMA IInvInit == Init => IInv
<1> SUFFICES ASSUME Init PROVE IInv
  OBVIOUS
<1>1. \A r \in Request : req[r] \in Answered /\ req[r].pc \notin Active /\ req[r].op = "none"
  BY UnsentFields, AnsweredFields DEF Init
<1>2. TypeInv
  BY <1>1, SchedulesAssumption DEF Init, TypeInv
<1>3. \A r \in Request : req[r].pc \notin {"call", "write", "rollback"}
  BY <1>1 DEF Active, Calls
<1>4. CreateInv
  BY <1>1, <1>3 DEF Init, CreateInv, CreatePending, At
<1>5. StruckInv /\ HalvesInv /\ SoloInv
  BY <1>1, <1>3 DEF Init, StruckInv, HalvesInv, SoloInv, At, Parting
<1> QED BY <1>2, <1>4, <1>5 DEF IInv

\* create_schedule's INSERT keeps the invariant: the id is new, so no request
\* and no late call is about it.
LEMMA CreateStep ==
    ASSUME IInv, NEW r \in Request, create_schedule(r)
    PROVE  IInv'
<1> USE DEF IInv
<1>1. PICK s \in Schedule \ hist.used,
           ask \in [spec : Timing, tz : Zones, state : State, overlap_ok : {TRUE}] :
        /\ Begin(r, "create", s, "call", ask)
        /\ row' = [row EXCEPT ![s] = [spec |-> ask.spec, tz |-> ask.tz, state |-> ask.state]]
        /\ hist' = [hist EXCEPT !.used = @ \cup {s}]
        /\ UNCHANGED <<sched, late>>
  BY DEF create_schedule
<1> DEFINE new == [spec |-> ask.spec, tz |-> ask.tz, state |-> ask.state]
<1>2. /\ new \in Entry /\ new # Gone /\ ask \in Ask /\ ask.spec \in Timing
      /\ ask.tz \in Zones /\ ask.state \in State
  BY DEF Entry, Gone, Ask, State
<1>3. /\ hist'.used = hist.used \cup {s} /\ hist'.deleted = hist.deleted
      /\ hist'.struck = hist.struck
      /\ hist' \in [used : SUBSET Schedule, deleted : SUBSET Schedule,
                    struck : [Schedule -> SUBSET Op], faults : 0 .. MaxFaults]
  BY <1>1 DEF TypeInv
<1>4. row' \in [Schedule -> Entry \cup {Gone}] /\ row'[s] = new /\ \A x \in Schedule \ {s} : row'[x] = row[x]
  BY <1>1, <1>2 DEF TypeInv
<1> HIDE DEF new
<1>5. /\ req' \in [Request -> Req \cup Answered]
      /\ req[r].pc = "unsent" /\ req[r].op = "none"
      /\ req'[r] \in Req /\ req'[r].op = "create" /\ req'[r].id = s /\ req'[r].pc = "call"
      /\ req'[r].ask = ask /\ req'[r].existing = Gone /\ req'[r].alone = Quiet(s)
      /\ \A q \in Request \ {r} :
            /\ req'[q].op = req[q].op /\ req'[q].pc = req[q].pc /\ req'[q].id = req[q].id
            /\ req'[q].ask = req[q].ask /\ req'[q].existing = req[q].existing
            /\ req'[q].alone => req[q].alone
            /\ req[q].pc \in Active => req'[q] \in Req
            /\ req[q].pc \in Active /\ req[q].id = s => ~req'[q].alone
  BY <1>1, <1>2, BeginStep DEF Op, Active, Calls
<1>6. sched' = sched /\ late' = late
  BY <1>1
<1>7. \A q \in Request : req[q].pc \in Active => req[q].id # s
  BY DEF CreateInv
<1>8. \A c \in late : c.id # s
  BY DEF CreateInv
<1>9. row[s] = Gone /\ sched[s] = Gone
  BY DEF CreateInv
<1>10. TypeInv'
  <2>1. \A q \in Request : req'[q].pc \in Active => req'[q] \in Req
    BY <1>5
  <2>2. ASSUME NEW q \in Request, req'[q].pc \in Active PROVE ReqOk(req'[q])
    BY <1>2, <1>5, <2>2 DEF TypeInv, ReqOk
  <2> QED BY <1>3, <1>4, <1>5, <1>6, <2>1, <2>2 DEF TypeInv
<1>11. CreateInv'
  BY <1>3, <1>4, <1>5, <1>6, <1>7, <1>8, <1>9 DEF CreateInv, CreatePending, At, TypeInv, Active, Calls
<1>d. \A x \in Schedule \ {s} : Dead(x) => Dead(x)'
  <2>1. \A x \in Schedule \ {s} : CreatePending(x)' => CreatePending(x)
    BY <1>5, <1>6 DEF CreatePending, At
  <2> QED BY <1>3, <1>6, <2>1 DEF Dead
<1>12. StruckInv'
  <2>1. \A c \in late' : c.act \in {"create", "delete"} => c.act \in hist'.struck[c.id]
    BY <1>3, <1>6 DEF StruckInv
  <2>2. \A q \in Request, x \in Schedule :
          At(q, "create", "rollback", x)' => x # s /\ At(q, "create", "rollback", x)
    BY <1>5, <1>7 DEF At, Active
  <2> QED BY <1>3, <1>d, <2>1, <2>2 DEF StruckInv
<1>13. HalvesInv'
  <2>0. hist.used \subseteq Schedule /\ hist.deleted \subseteq Schedule
    BY DEF TypeInv
  <2>2. \A x \in Schedule \ {s} : Dead(x) => Dead(x)'
    BY <1>d
  <2>3. s \notin hist.deleted
    BY DEF HalvesInv, Dead
  <2>4. \A q \in Request, x \in Schedule : At(q, "delete", "write", x)' => x # s /\ At(q, "delete", "write", x)
    BY <1>5, <1>7 DEF At, Active
  <2>5. \A q \in Request, x \in Schedule : Parting(q, x) => Parting(q, x)'
    BY <1>5 DEF At, Parting
  <2>6. Parting(r, s)'
    BY <1>5 DEF At, Parting
  <2>7. \A q \in Request, x \in Schedule : At(q, "delete", "write", x)' => row'[x] = Gone \/ Dead(x)'
    BY <1>4, <2>2, <2>4 DEF HalvesInv
  <2>8. \A x \in hist'.deleted : row'[x] = Gone /\ Dead(x)'
    BY <1>3, <1>4, <2>0, <2>2, <2>3 DEF HalvesInv
  <2>9. \A x \in hist'.used : row'[x] = Gone => "create" \in hist'.struck[x] \/ Dead(x)'
    BY <1>2, <1>3, <1>4, <2>0, <2>2 DEF HalvesInv
  <2>10. \A x \in Schedule : row'[x] # Gone /\ sched'[x] = Gone =>
           \/ hist'.struck[x] \cap {"create", "delete"} # {}
           \/ \E q \in Request : Parting(q, x)'
    BY <1>3, <1>4, <1>6, <2>5, <2>6 DEF HalvesInv, Op
  <2> QED BY <2>7, <2>8, <2>9, <2>10 DEF HalvesInv
<1>14. SoloInv'
  <2> SUFFICES ASSUME NEW p \in Request, req'[p].pc \in Active \ {"rollback"}, req'[p].alone
               PROVE  /\ \A q \in Request : req'[q].pc \in Active /\ req'[q].id = req'[p].id => q = p
                      /\ \A c \in late' : c.id # req'[p].id
                      /\ Progress(req'[p], row'[req'[p].id], sched'[req'[p].id])
    BY DEF SoloInv, Progress
  <2>1. CASE p = r
    <3>1. \A q \in Request : req'[q].pc \in Active /\ req'[q].id = s => q = r
      BY <1>5, <1>7
    <3>2. \A c \in late' : c.id # s
      BY <1>6, <1>8
    <3>3. Progress(req'[r], row'[s], sched'[s])
      BY <1>4, <1>5 DEF Progress, new
    <3> QED BY <1>5, <2>1, <3>1, <3>2, <3>3
  <2>2. CASE p # r
    <3>1. /\ req[p].pc \in Active \ {"rollback"} /\ req[p].alone /\ req[p].id # s
          /\ req[p].id \in Schedule /\ req'[p].id = req[p].id
      BY <1>5, <1>7, <2>2 DEF TypeInv, Req
    <3>2. /\ \A q \in Request : req[q].pc \in Active /\ req[q].id = req[p].id => q = p
          /\ \A c \in late : c.id # req[p].id
          /\ Progress(req[p], row[req[p].id], sched[req[p].id])
      BY <3>1 DEF SoloInv
    <3>3. Progress(req'[p], row'[req'[p].id], sched'[req'[p].id])
      BY <1>4, <1>5, <1>6, <2>2, <3>1, <3>2 DEF Progress
    <3>4. \A q \in Request : req'[q].pc \in Active /\ req'[q].id = req'[p].id => q = p
      BY <1>5, <2>2, <3>1, <3>2
    <3> QED BY <1>6, <3>1, <3>2, <3>3, <3>4
  <2> QED BY <2>1, <2>2
<1> QED BY <1>10, <1>11, <1>12, <1>13, <1>14

\* The arrival of any other request keeps the invariant.
LEMMA ReadBegins ==
    ASSUME IInv, NEW r \in Request, NEW op \in Op \ {"create"}, NEW s \in hist.used, NEW ask \in Ask,
           Begin(r, op, s, "read", ask), UNCHANGED <<row, sched, late, hist>>
    PROVE  IInv'
<1> USE DEF IInv
<1>1. row' = row /\ sched' = sched /\ late' = late /\ hist' = hist
  OBVIOUS
<1>2. s \in Schedule /\ "read" \in Active /\ op \in Op
  BY DEF TypeInv, Active
<1>3. /\ req' \in [Request -> Req \cup Answered]
      /\ req[r].pc = "unsent" /\ req[r].op = "none"
      /\ req'[r] \in Req /\ req'[r].op = op /\ req'[r].id = s /\ req'[r].pc = "read"
      /\ req'[r].ask = ask /\ req'[r].existing = Gone /\ req'[r].alone = Quiet(s)
      /\ \A q \in Request \ {r} :
            /\ req'[q].op = req[q].op /\ req'[q].pc = req[q].pc /\ req'[q].id = req[q].id
            /\ req'[q].ask = req[q].ask /\ req'[q].existing = req[q].existing
            /\ req'[q].alone => req[q].alone
            /\ req[q].pc \in Active => req'[q] \in Req
            /\ req[q].pc \in Active /\ req[q].id = s => ~req'[q].alone
  BY <1>2, BeginStep
<1>4. TypeInv'
  <2>1. \A q \in Request : req'[q].pc \in Active => req'[q] \in Req
    BY <1>3
  <2>2. ASSUME NEW q \in Request, req'[q].pc \in Active PROVE ReqOk(req'[q])
    BY <1>3, <2>2 DEF TypeInv, ReqOk
  <2> QED BY <1>1, <1>3, <2>1, <2>2 DEF TypeInv
<1>5. \A q \in Request, x \in Schedule : /\ At(q, "create", "call", x)' <=> At(q, "create", "call", x)
                                         /\ At(q, "delete", "write", x)' <=> At(q, "delete", "write", x)
                                         /\ At(q, "create", "rollback", x)' <=> At(q, "create", "rollback", x)
                                         /\ Parting(q, x)' <=> Parting(q, x)
  BY <1>3 DEF At, Parting
<1>6. \A x \in Schedule : CreatePending(x)' <=> CreatePending(x)
  BY <1>1, <1>5 DEF CreatePending
<1>7. \A x \in Schedule : Dead(x)' <=> Dead(x)
  BY <1>1, <1>6 DEF Dead
<1>8. hist.used \subseteq Schedule /\ hist.deleted \subseteq Schedule /\ \A c \in late : c.id \in Schedule
  BY DEF TypeInv, Call
<1>9. CreateInv'
  <2>1. \A q \in Request : req'[q].pc \in Active => req'[q].id \in hist.used
    BY <1>3 DEF CreateInv
  <2>2. \A p, q \in Request, x \in Schedule :
          At(p, "create", "call", x)' /\ req'[q].op = "create" /\ req'[q].pc \in Active /\ req'[q].id = x
          => p = q
    BY <1>3, <1>5 DEF CreateInv
  <2>3. \A q \in Request, c \in late : ~ (c.act = "create" /\ At(q, "create", "call", c.id)')
    BY <1>5, <1>8 DEF CreateInv
  <2> QED BY <1>1, <1>6, <2>1, <2>2, <2>3 DEF CreateInv
<1>10. StruckInv'
  BY <1>1, <1>5, <1>7 DEF StruckInv
<1>11. HalvesInv'
  BY <1>1, <1>5, <1>7, <1>8 DEF HalvesInv
<1>12. SoloInv'
  <2> SUFFICES ASSUME NEW p \in Request, req'[p].pc \in Active \ {"rollback"}, req'[p].alone
               PROVE  /\ \A q \in Request : req'[q].pc \in Active /\ req'[q].id = req'[p].id => q = p
                      /\ \A c \in late' : c.id # req'[p].id
                      /\ Progress(req'[p], row'[req'[p].id], sched'[req'[p].id])
    BY DEF SoloInv, Progress
  <2>1. CASE p = r
    <3>1. Quiet(s)
      BY <1>3, <2>1
    <3>2. \A q \in Request : req'[q].pc \in Active /\ req'[q].id = s => q = r
      BY <1>3, <3>1 DEF Quiet, Touching
    <3>3. \A c \in late' : c.id # s
      BY <1>1, <3>1 DEF Quiet, LateFor
    <3>4. Progress(req'[r], row'[s], sched'[s])
      BY <1>3 DEF Progress
    <3> QED BY <1>3, <2>1, <3>2, <3>3, <3>4
  <2>2. CASE p # r
    <3>1. /\ req[p].pc \in Active \ {"rollback"} /\ req[p].alone /\ req[p].id # s
          /\ req'[p].id = req[p].id
      BY <1>3, <2>2
    <3>2. /\ \A q \in Request : req[q].pc \in Active /\ req[q].id = req[p].id => q = p
          /\ \A c \in late : c.id # req[p].id
          /\ Progress(req[p], row[req[p].id], sched[req[p].id])
      BY <3>1 DEF SoloInv
    <3>3. Progress(req'[p], row'[req'[p].id], sched'[req'[p].id])
      BY <1>1, <1>3, <2>2, <3>2 DEF Progress
    <3>4. \A q \in Request : req'[q].pc \in Active /\ req'[q].id = req'[p].id => q = p
      BY <1>3, <2>2, <3>1, <3>2
    <3> QED BY <1>1, <3>1, <3>2, <3>3, <3>4
  <2> QED BY <2>1, <2>2
<1> QED BY <1>4, <1>9, <1>10, <1>11, <1>12

\* update_schedule, and the requests with nothing but an id.
LEMMA RequestStep ==
    ASSUME IInv, NEW r \in Request, update_schedule(r) \/ control_schedule(r)
    PROVE  IInv'
<1>1. CASE update_schedule(r)
  BY <1>1, ReadBegins DEF update_schedule, Op
<1>2. CASE control_schedule(r)
  <2>1. NoAsk \in Ask
    BY DEF NoAsk, Ask
  <2> QED BY <1>2, <2>1, ReadBegins DEF control_schedule, Op
<1> QED BY <1>1, <1>2

\* What a step of r leaves of another request that has its schedule to itself.
LEMMA SoloOther ==
    ASSUME IInv, NEW r \in Request, req[r].pc \in Active, NEW p \in Request \ {r},
           \A q \in Request \ {r} : req'[q] = req[q],
           req'[r].pc \in Active => req'[r].id = req[r].id,
           req'[p].pc \in Active \ {"rollback"}, req'[p].alone,
           \A x \in Schedule \ {req[r].id} : row'[x] = row[x] /\ sched'[x] = sched[x],
           \A c \in late' : c \in late \/ c.id = req[r].id
    PROVE  /\ \A q \in Request : req'[q].pc \in Active /\ req'[q].id = req'[p].id => q = p
           /\ \A c \in late' : c.id # req'[p].id
           /\ Progress(req'[p], row'[req'[p].id], sched'[req'[p].id])
<1>1. req'[p] = req[p] /\ req[p].pc \in Active \ {"rollback"} /\ req[p].alone /\ req[p] \in Req
  BY DEF IInv, TypeInv
<1>2. /\ \A q \in Request : req[q].pc \in Active /\ req[q].id = req[p].id => q = p
      /\ \A c \in late : c.id # req[p].id
      /\ Progress(req[p], row[req[p].id], sched[req[p].id])
  BY <1>1 DEF IInv, SoloInv
<1>3. req[p].id # req[r].id /\ req[p].id \in Schedule
  BY <1>1, <1>2 DEF Req
<1> QED BY <1>1, <1>2, <1>3

\* What a step of a handler under way has to show, about its own schedule
\* only, to keep the invariant.
LEMMA RequestProceeds ==
    ASSUME IInv, NEW r \in Request, req[r].pc \in Active, NEW s \in Schedule, s = req[r].id,
           NEW pc \in Active \cup {"ok", "error"}, Moves(r, pc),
           pc \in Active => ReqOk(req'[r]),
           req[r].op = "create" => pc # "call",
           pc = "rollback" => "create" \in hist'.struck[s] \/ Dead(s)',
           Dead(s) => Dead(s)',
           req[r].pc = "rollback" => pc = "error",
           row' \in [Schedule -> Entry \cup {Gone}],
           sched' \in [Schedule -> Entry \cup {Gone}],
           \A x \in Schedule \ {s} : row'[x] = row[x] /\ sched'[x] = sched[x],
           \A c \in late' : \/ c \in late
                            \/ /\ c \in Call /\ CallOk(c) /\ c.id = s
                               /\ c.act = "create" => At(r, "create", "call", s)
                               /\ c.act \in {"create", "delete"} => c.act \in hist'.struck[s],
           \A c, d \in late' \ late : c = d,
           hist' \in [used : SUBSET Schedule, deleted : SUBSET Schedule,
                      struck : [Schedule -> SUBSET Op], faults : 0 .. MaxFaults],
           hist'.used = hist.used, hist'.deleted \subseteq hist.deleted \cup {s},
           \A x \in Schedule : hist.struck[x] \subseteq hist'.struck[x],
           CreatePending(s)' => sched'[s] = Gone,
           \A q \in Request : At(q, "delete", "write", s)' => row'[s] = Gone \/ Dead(s)',
           s \in hist'.deleted => row'[s] = Gone /\ Dead(s)',
           row'[s] = Gone => "create" \in hist'.struck[s] \/ Dead(s)',
           row'[s] # Gone /\ sched'[s] = Gone =>
              \/ hist'.struck[s] \cap {"create", "delete"} # {}
              \/ \E q \in Request : Parting(q, s)',
           pc \in Active \ {"rollback"} /\ req[r].alone =>
              late' = late /\ Progress(req'[r], row'[s], sched'[s])
    PROVE  IInv'
<1>1. /\ \A q \in Request \ {r} : req'[q] = req[q]
      /\ req'[r].pc = pc
      /\ pc \in Active => /\ req'[r] \in Req /\ req'[r].op = req[r].op /\ req'[r].id = s
                          /\ req'[r].alone = req[r].alone
      /\ pc \notin Active => req'[r].op = "none"
      /\ req' \in [Request -> Req \cup Answered]
  BY DEF Moves
<1>2. TypeInv'
  <2>1. late' \subseteq Call /\ \A c \in late' : CallOk(c)
    BY DEF IInv, TypeInv
  <2>2. ASSUME NEW q \in Request, req'[q].pc \in Active PROVE req'[q] \in Req /\ ReqOk(req'[q])
    BY <1>1, <2>2 DEF IInv, TypeInv
  <2> QED BY <1>1, <2>1, <2>2 DEF TypeInv, IInv, CallOk, ReqOk
<1>3. \A q \in Request, x \in Schedule :
        /\ At(q, "create", "call", x)' => q # r /\ At(q, "create", "call", x)
        /\ x # s => (At(q, "create", "call", x)' <=> At(q, "create", "call", x))
        /\ x # s => (At(q, "delete", "write", x)' <=> At(q, "delete", "write", x))
        /\ x # s => (Parting(q, x)' <=> Parting(q, x))
  BY <1>1 DEF At, Parting, Active, Calls
<1>4. \A x \in Schedule \ {s} : CreatePending(x)' => CreatePending(x)
  BY <1>3 DEF CreatePending
<1>5. \A x \in Schedule \ {s} : Dead(x) => Dead(x)'
  BY <1>4 DEF Dead
<1>6. s \in hist.used /\ hist.used \subseteq Schedule /\ hist.deleted \subseteq Schedule
  BY DEF IInv, CreateInv, TypeInv
<1>7. CreateInv'
  <2>1. \A q \in Request : req'[q].pc \in Active => req'[q].id \in hist'.used
    BY <1>1, <1>6 DEF IInv, CreateInv
  <2>2. \A c \in late' : c.id \in hist'.used
    BY <1>6 DEF IInv, CreateInv
  <2>3. \A x \in Schedule : x \notin hist'.used => row'[x] = Gone /\ sched'[x] = Gone
    BY <1>6 DEF IInv, CreateInv
  <2>4. \A x \in Schedule : CreatePending(x)' => sched'[x] = Gone
    BY <1>4 DEF IInv, CreateInv
  <2>5. \A p, q \in Request, x \in Schedule :
          At(p, "create", "call", x)' /\ req'[q].op = "create" /\ req'[q].pc \in Active /\ req'[q].id = x
          => p = q
    <3> SUFFICES ASSUME NEW p \in Request, NEW q \in Request, NEW x \in Schedule,
                        At(p, "create", "call", x)', req'[q].op = "create", req'[q].pc \in Active,
                        req'[q].id = x
                 PROVE  p = q
      OBVIOUS
    <3>1. req[q].op = "create" /\ req[q].pc \in Active /\ req[q].id = x
      BY <1>1
    <3>2. At(p, "create", "call", x)
      BY <1>3
    <3> QED BY <3>1, <3>2 DEF IInv, CreateInv
  <2>6. \A q \in Request, c \in late' : ~ (c.act = "create" /\ At(q, "create", "call", c.id)')
    <3> SUFFICES ASSUME NEW q \in Request, NEW c \in late', c.act = "create", At(q, "create", "call", c.id)'
                 PROVE  FALSE
      OBVIOUS
    <3>0. c.id \in Schedule
      BY DEF IInv, TypeInv, Call
    <3>1. q # r /\ At(q, "create", "call", c.id)
      BY <1>3, <3>0
    <3>2. c \notin late
      BY <3>1 DEF IInv, CreateInv
    <3>3. c.id = s /\ At(r, "create", "call", s)
      BY <3>2
    <3>4. At(q, "create", "call", s)
      BY <3>1, <3>3
    <3> QED BY <3>1, <3>3, <3>4 DEF IInv, CreateInv, At
  <2>7. \A c, d \in late' : c.act = "create" /\ d.act = "create" /\ c.id = d.id => c = d
    BY DEF IInv, CreateInv
  <2> QED BY <2>1, <2>2, <2>3, <2>4, <2>5, <2>6, <2>7 DEF CreateInv
<1>8. StruckInv'
  <2>1. \A c \in late' : c.act \in {"create", "delete"} => c.act \in hist'.struck[c.id]
    BY DEF IInv, StruckInv, TypeInv, Call
  <2>2. ASSUME NEW q \in Request, NEW x \in Schedule, At(q, "create", "rollback", x)'
        PROVE  "create" \in hist'.struck[x] \/ Dead(x)'
    <3>1. CASE q = r
      <4>1. pc = "rollback" /\ x = s
        BY <1>1, <2>2, <3>1 DEF At, Active
      <4> QED BY <4>1
    <3>2. CASE q # r
      <4>1. At(q, "create", "rollback", x)
        BY <1>1, <2>2, <3>2 DEF At
      <4>2. "create" \in hist.struck[x] \/ Dead(x)
        BY <4>1 DEF IInv, StruckInv
      <4> QED BY <1>5, <4>2
    <3> QED BY <3>1, <3>2
  <2> QED BY <2>1, <2>2 DEF StruckInv
<1>9. HalvesInv'
  <2>1. \A q \in Request, x \in Schedule : At(q, "delete", "write", x)' => row'[x] = Gone \/ Dead(x)'
    BY <1>3, <1>5 DEF IInv, HalvesInv
  <2>2. \A x \in hist'.deleted : row'[x] = Gone /\ Dead(x)'
    BY <1>5, <1>6 DEF IInv, HalvesInv
  <2>3. \A x \in hist'.used : row'[x] = Gone => "create" \in hist'.struck[x] \/ Dead(x)'
    BY <1>5, <1>6 DEF IInv, HalvesInv
  <2>4. \A x \in Schedule : row'[x] # Gone /\ sched'[x] = Gone =>
           \/ hist'.struck[x] \cap {"create", "delete"} # {}
           \/ \E q \in Request : Parting(q, x)'
    <3> SUFFICES ASSUME NEW x \in Schedule \ {s}, row'[x] # Gone, sched'[x] = Gone
                 PROVE  \/ hist'.struck[x] \cap {"create", "delete"} # {}
                        \/ \E q \in Request : Parting(q, x)'
      OBVIOUS
    <3>1. \/ hist.struck[x] \cap {"create", "delete"} # {}
          \/ \E q \in Request : Parting(q, x)
      BY DEF IInv, HalvesInv
    <3> QED BY <1>3, <3>1
  <2> QED BY <2>1, <2>2, <2>3, <2>4 DEF HalvesInv
<1>10. SoloInv'
  <2> SUFFICES ASSUME NEW p \in Request, req'[p].pc \in Active \ {"rollback"}, req'[p].alone
               PROVE  /\ \A q \in Request : req'[q].pc \in Active /\ req'[q].id = req'[p].id => q = p
                      /\ \A c \in late' : c.id # req'[p].id
                      /\ Progress(req'[p], row'[req'[p].id], sched'[req'[p].id])
    BY DEF SoloInv, Progress
  <2>1. CASE p = r
    <3>1. pc \in Active \ {"rollback"} /\ req[r].alone /\ req'[r].id = s
      BY <1>1, <2>1
    <3>2. req[r].pc # "rollback"
      BY <3>1 DEF Active, Calls
    <3> QED BY <1>1, <2>1, <3>1, <3>2 DEF IInv, SoloInv
  <2>2. CASE p # r
    BY <1>1, <2>2, SoloOther
  <2> QED BY <2>1, <2>2
<1> QED BY <1>2, <1>7, <1>8, <1>9, <1>10 DEF IInv

\* What is known of a request under way.
LEMMA ActiveRequest ==
    ASSUME IInv, NEW r \in Request, req[r].pc \in Active
    PROVE  /\ req[r] \in Req /\ ReqOk(req[r]) /\ req[r].id \in Schedule /\ req[r].id \in hist.used
           /\ req[r].op \in Op /\ req[r].ask \in Ask
BY DEF IInv, TypeInv, CreateInv, Req

\* A record of a store: its fields, and those of its changed versions.
LEMMA EntryFields ==
    ASSUME NEW x \in Entry
    PROVE  /\ x # Gone /\ x.spec \in Timing /\ x.tz \in Zones /\ x.state \in State
           /\ \A st \in State : /\ [x EXCEPT !.state = st] \in Entry
                                /\ [x EXCEPT !.state = st].state = st
                                /\ [x EXCEPT !.state = st].spec = x.spec
                                /\ [x EXCEPT !.state = st].tz = x.tz
           /\ \A sp \in Timing : /\ [x EXCEPT !.spec = sp, !.tz = "UTC"] \in Entry
                                 /\ [x EXCEPT !.spec = sp, !.tz = "UTC"].spec = sp
                                 /\ [x EXCEPT !.spec = sp, !.tz = "UTC"].state = x.state
<1>1. x # Gone /\ x.spec \in Timing /\ x.tz \in Zones /\ x.state \in State
  BY DEF Entry, Gone, State
<1>2. ASSUME NEW st \in State
      PROVE  /\ [x EXCEPT !.state = st] \in Entry
             /\ [x EXCEPT !.state = st].state = st
             /\ [x EXCEPT !.state = st].spec = x.spec
             /\ [x EXCEPT !.state = st].tz = x.tz
  BY DEF Entry
<1>3. ASSUME NEW sp \in Timing
      PROVE  /\ [x EXCEPT !.spec = sp, !.tz = "UTC"] \in Entry
             /\ [x EXCEPT !.spec = sp, !.tz = "UTC"].spec = sp
             /\ [x EXCEPT !.spec = sp, !.tz = "UTC"].state = x.state
  <2>1. "UTC" \in Zones
    BY DEF Zones
  <2> QED BY <2>1 DEF Entry
<1> QED BY <1>1, <1>2, <1>3

\* The first query of a handler keeps the invariant.
LEMMA ReadStep ==
    ASSUME IInv, NEW r \in Request, read_row(r)
    PROVE  IInv'
<1>0. req[r].pc = "read" /\ req[r].pc \in Active /\ row' = row /\ sched' = sched /\ late' = late /\ hist' = hist
  BY DEF read_row, Active
<1> PICK q \in Req : q = req[r]
  BY <1>0, ActiveRequest
<1> PICK s \in Schedule : s = q.id
  BY <1>0, ActiveRequest
<1>1. q.pc = "read" /\ row' = row /\ sched' = sched /\ late' = late /\ hist' = hist
  BY <1>0
<1>2. q.pc \in Active /\ q \in Req /\ ReqOk(q) /\ s \in Schedule /\ q.op \in Op /\ q.ask \in Ask
  BY <1>1, ActiveRequest DEF Active
<1>3. q.op \in Op \ {"create"}
  BY <1>1, <1>2 DEF ReqOk
<1>4. PICK pc \in {"write", "error", "call", "call_enabled"} :
         pc = IF row[s] = Gone THEN (IF q.op = "delete" THEN "write" ELSE "error")
              ELSE IF q.op # "update" \/ q.ask.spec # Keep THEN "call"
              ELSE IF q.ask.state # Keep THEN "call_enabled" ELSE Written(q)
  BY DEF Written
<1>5. row[s] \in Entry \cup {Gone} /\ req \in [Request -> Req \cup Answered]
  BY <1>2 DEF IInv, TypeInv
<1>6. Moves(r, pc) /\ (pc \in Active => req'[r].existing = row[s])
  <2>1. CASE pc = "error"
    <3>1. req' = [req EXCEPT ![r] = [Unsent EXCEPT !.pc = "error"]]
      BY <1>4, <2>1 DEF read_row
    <3>2. /\ [Unsent EXCEPT !.pc = "error"] \in Answered /\ pc \notin Active
          /\ [Unsent EXCEPT !.pc = "error"].pc = "error" /\ [Unsent EXCEPT !.pc = "error"].op = "none"
      BY <2>1 DEF Answered, Unsent, Active, Calls
    <3> QED BY <1>5, <2>1, <3>1, <3>2 DEF Moves
  <2>2. CASE pc # "error"
    <3> DEFINE n == [q EXCEPT !.pc = pc, !.existing = row[s]]
    <3>1. req' = [req EXCEPT ![r] = n]
      BY <1>4, <1>5, <2>2 DEF read_row
    <3>2. pc \in Active
      BY <1>4, <2>2 DEF Active, Calls
    <3>3. n \in Req /\ n.pc = pc /\ n.op = q.op /\ n.id = s /\ n.ask = q.ask /\ n.existing = row[s] /\ n.alone = q.alone
      BY <1>2, <1>5, <3>2 DEF Req
    <3> HIDE DEF n
    <3> QED BY <1>5, <3>1, <3>2, <3>3 DEF Moves
  <2> QED BY <2>1, <2>2
<1>7. /\ row[s] = Gone => pc \in {"write", "error"}
      /\ row[s] = Gone /\ pc = "write" => q.op = "delete"
      /\ pc = "write" /\ q.op # "delete" =>
            row[s] # Gone /\ q.op = "update" /\ q.ask.spec = Keep /\ q.ask.state = Keep
      /\ pc = "call_enabled" => q.op = "update" /\ q.ask.spec = Keep /\ q.ask.state # Keep
      /\ pc = "call" /\ q.op = "update" => q.ask.spec # Keep
      /\ pc = "error" => pc \notin Active
      /\ q.op = "delete" /\ pc = "write" => row[s] = Gone
  BY <1>4 DEF Written, Active, Calls
<1>8. pc \in Active => /\ req'[r].op = q.op /\ req'[r].pc = pc /\ req'[r].ask = q.ask
                       /\ req'[r].existing = row[s] /\ ReqOk(req'[r])
  <2>1. pc \in Active => /\ req'[r].op = q.op /\ req'[r].pc = pc /\ req'[r].ask = q.ask
                         /\ req'[r].existing = row[s]
    BY <1>6 DEF Moves
  <2>2. q.op = "trigger" => pc # "write" /\ pc # "call_enabled"
    BY <1>7
  <2>3. q.op \in {"delete", "pause", "resume"} => pc # "call_enabled"
    BY <1>7
  <2>4. pc \in Active /\ q.op = "update" => row[s] \in Entry
    BY <1>5, <1>7
  <2> QED BY <1>3, <1>4, <1>7, <2>1, <2>2, <2>3, <2>4 DEF ReqOk
<1>9. \A p \in Request : /\ At(p, "create", "call", s)' <=> At(p, "create", "call", s)
                         /\ At(p, "delete", "write", s) => At(p, "delete", "write", s)'
                         /\ At(p, "delete", "write", s)' => At(p, "delete", "write", s) \/ row[s] = Gone
                         /\ Parting(p, s) => Parting(p, s)'
  BY <1>1, <1>3, <1>6, <1>7 DEF At, Parting, Moves, Active
<1>10. CreatePending(s)' <=> CreatePending(s)
  BY <1>1, <1>9 DEF CreatePending
<1>11. Dead(s)' <=> Dead(s)
  BY <1>1, <1>10 DEF Dead
<1>12. pc \in Active => Progress(req'[r], row'[s], sched'[s])
  <2> HAVE pc \in Active
  <2>1. q.op \notin {"create", "delete"} => row[s] # Gone
    BY <1>7
  <2>2. pc = "write" => q.op \notin {"pause", "resume"}
    BY <1>7
  <2> QED BY <1>1, <1>3, <1>7, <1>8, <2>1, <2>2 DEF Progress
<1>13. \A p \in Request : At(p, "delete", "write", s)' => row'[s] = Gone \/ Dead(s)'
  BY <1>1, <1>2, <1>9, <1>11 DEF IInv, HalvesInv
<1>14. CreatePending(s)' => sched'[s] = Gone
  BY <1>1, <1>2, <1>10 DEF IInv, CreateInv
<1>15. s \in hist'.deleted => row'[s] = Gone /\ Dead(s)'
  BY <1>1, <1>11 DEF IInv, HalvesInv
<1>16. row'[s] = Gone => "create" \in hist'.struck[s] \/ Dead(s)'
  BY <1>1, <1>11, ActiveRequest, <1>2 DEF IInv, HalvesInv
<1>17. row'[s] # Gone /\ sched'[s] = Gone =>
              \/ hist'.struck[s] \cap {"create", "delete"} # {}
              \/ \E p \in Request : Parting(p, s)'
  BY <1>1, <1>2, <1>9 DEF IInv, HalvesInv
<1>18. pc \in Active \cup {"ok", "error"} /\ pc # "rollback" /\ q.pc # "rollback"
  BY <1>1, <1>4 DEF Active, Calls
<1>19. /\ row' \in [Schedule -> Entry \cup {Gone}] /\ sched' \in [Schedule -> Entry \cup {Gone}]
       /\ hist' \in [used : SUBSET Schedule, deleted : SUBSET Schedule,
                     struck : [Schedule -> SUBSET Op], faults : 0 .. MaxFaults]
  BY <1>1 DEF IInv, TypeInv
<1> QED BY <1>1, <1>2, <1>3, <1>6, <1>8, <1>11, <1>12, <1>13, <1>14, <1>15, <1>16, <1>17, <1>18, <1>19,
           RequestProceeds

\* The last statement of a handler keeps the invariant: update_schedule's
\* UPDATE finds no row of a deleted schedule, and a DELETE that finds its row
\* finds the Temporal schedule dead.
LEMMA WriteStep ==
    ASSUME IInv, NEW r \in Request, write_row(r)
    PROVE  IInv'
<1>0. req[r].pc = "write" /\ req[r].pc \in Active /\ sched' = sched /\ late' = late
  BY DEF write_row, Active
<1> PICK q \in Req : q = req[r]
  BY <1>0, ActiveRequest
<1> PICK s \in Schedule : s = q.id
  BY <1>0, ActiveRequest
<1>1. q.op \in {"update", "delete", "pause", "resume"} /\ (q.op = "update" => q.existing \in Entry)
  BY <1>0, ActiveRequest DEF ReqOk, Op
<1>2. PICK pc \in {"ok", "error"} :
         pc = IF There(q) \/ q.op \in {"pause", "resume"} THEN "ok" ELSE "error"
  OBVIOUS
<1>3. Moves(r, pc) /\ pc \notin Active
  <2>1. Goto(r, pc)
    BY <1>2 DEF write_row
  <2> QED BY <1>0, <2>1, GotoMoves DEF IInv, Active, Calls
<1>4. /\ row \in [Schedule -> Entry \cup {Gone}] /\ sched \in [Schedule -> Entry \cup {Gone}]
      /\ hist \in [used : SUBSET Schedule, deleted : SUBSET Schedule,
                   struck : [Schedule -> SUBSET Op], faults : 0 .. MaxFaults]
  BY DEF IInv, TypeInv
<1>5. /\ hist' \in [used : SUBSET Schedule, deleted : SUBSET Schedule,
                    struck : [Schedule -> SUBSET Op], faults : 0 .. MaxFaults]
      /\ hist'.used = hist.used /\ hist'.struck = hist.struck
      /\ hist'.deleted = IF row[s] # Gone /\ q.op = "delete" THEN hist.deleted \cup {s} ELSE hist.deleted
  <2>1. hist' = IF row[s] # Gone /\ q.op = "delete" THEN [hist EXCEPT !.deleted = hist.deleted \cup {s}] ELSE hist
    BY <1>4 DEF write_row, There
  <2> QED BY <1>4, <2>1
<1>6. \E x \in Entry \cup {Gone} :
         /\ row' = [row EXCEPT ![s] = x]
         /\ row[s] = Gone => x = Gone
         /\ row[s] # Gone /\ q.op # "delete" => x \in Entry
         /\ row[s] # Gone /\ q.op = "delete" => x = Gone
  <2>1. CASE row[s] = Gone
    BY <1>4, <2>1 DEF write_row, There
  <2>2. CASE row[s] # Gone
    <3>1. row' = [row EXCEPT ![s] = WrittenRow(q)]
      BY <2>2 DEF write_row, There
    <3>2. row[s] \in Entry
      BY <1>4, <2>2
    <3>3. CASE q.op = "update"
      <4>1. q.ask \in Ask /\ q.existing \in Entry
        BY <1>1, <3>3 DEF Req
      <4>2. WrittenRow(q) = [spec |-> Or(q.ask.spec, q.existing.spec), tz |-> Or(q.ask.tz, q.existing.tz),
                             state |-> Or(q.ask.state, q.existing.state)]
        BY <3>3 DEF WrittenRow
      <4>3. /\ Or(q.ask.spec, q.existing.spec) \in Timing /\ Or(q.ask.tz, q.existing.tz) \in Zones
            /\ Or(q.ask.state, q.existing.state) \in State
        BY <4>1, EntryFields DEF Or, Ask
      <4>4. WrittenRow(q) \in Entry
        BY <4>2, <4>3 DEF Entry
      <4> QED BY <2>2, <3>1, <3>3, <4>4
    <3>4. CASE q.op = "pause"
      <4>1. WrittenRow(q) = [row[s] EXCEPT !.state = "off"]
        BY <3>4 DEF WrittenRow
      <4>2. WrittenRow(q) \in Entry
        BY <3>2, <4>1 DEF Entry, State
      <4> QED BY <2>2, <3>1, <3>4, <4>2
    <3>5. CASE q.op = "resume"
      <4>1. WrittenRow(q) = [row[s] EXCEPT !.state = "on"]
        BY <3>5 DEF WrittenRow
      <4>2. WrittenRow(q) \in Entry
        BY <3>2, <4>1 DEF Entry, State
      <4> QED BY <2>2, <3>1, <3>5, <4>2
    <3>6. CASE q.op = "delete"
      <4>1. WrittenRow(q) = Gone
        BY <3>6 DEF WrittenRow
      <4> QED BY <2>2, <3>1, <3>6, <4>1
    <3> QED BY <1>1, <3>3, <3>4, <3>5, <3>6
  <2> QED BY <2>1, <2>2
<1>7. /\ row' \in [Schedule -> Entry \cup {Gone}] /\ \A x \in Schedule \ {s} : row'[x] = row[x]
      /\ row[s] = Gone => row'[s] = Gone
      /\ row[s] # Gone => (row'[s] = Gone <=> q.op = "delete")
  <2>1. Gone \notin Entry
    BY EntryFields
  <2> QED BY <1>4, <1>6, <2>1
<1>8. \A p \in Request : /\ At(p, "create", "call", s)' <=> At(p, "create", "call", s)
                         /\ At(p, "delete", "write", s)' => At(p, "delete", "write", s)
                         /\ Parting(p, s) => Parting(p, s)' \/ q.op = "delete"
  BY <1>0, <1>1, <1>3 DEF At, Parting, Moves, Active
<1>9. CreatePending(s)' <=> CreatePending(s)
  BY <1>0, <1>8 DEF CreatePending
<1>10. Dead(s)' <=> Dead(s)
  BY <1>0, <1>5, <1>9 DEF Dead
<1>11. q.op = "delete" => row[s] = Gone \/ Dead(s)
  BY <1>0 DEF IInv, HalvesInv, At
<1>12. \A p \in Request : At(p, "delete", "write", s)' => row'[s] = Gone \/ Dead(s)'
  BY <1>7, <1>8, <1>10 DEF IInv, HalvesInv
<1>13. CreatePending(s)' => sched'[s] = Gone
  BY <1>0, <1>9 DEF IInv, CreateInv
<1>14. s \in hist'.deleted => row'[s] = Gone /\ Dead(s)'
  BY <1>5, <1>7, <1>10, <1>11 DEF IInv, HalvesInv
<1>15. row'[s] = Gone => "create" \in hist'.struck[s] \/ Dead(s)'
  BY <1>0, <1>5, <1>7, <1>10, <1>11, ActiveRequest DEF IInv, HalvesInv
<1>16. row'[s] # Gone /\ sched'[s] = Gone =>
              \/ hist'.struck[s] \cap {"create", "delete"} # {}
              \/ \E p \in Request : Parting(p, s)'
  BY <1>0, <1>5, <1>7, <1>8 DEF IInv, HalvesInv
<1> QED BY <1>0, <1>1, <1>3, <1>4, <1>5, <1>7, <1>10, <1>12, <1>13, <1>14, <1>15, <1>16, RequestProceeds

\* The DELETE that takes a refused creation's row back keeps the invariant.
LEMMA RollbackStep ==
    ASSUME IInv, NEW r \in Request, rollback_row(r)
    PROVE  IInv'
<1>0. /\ req[r].pc = "rollback" /\ req[r].pc \in Active
      /\ sched' = sched /\ late' = late /\ hist' = hist /\ Goto(r, "error")
  BY DEF rollback_row, Active
<1> PICK s \in Schedule : s = req[r].id
  BY <1>0, ActiveRequest
<1>1. req[r].op = "create"
  BY <1>0, ActiveRequest DEF ReqOk, Op
<1>2. Moves(r, "error") /\ "error" \notin Active
  BY <1>0, GotoMoves DEF IInv, Active, Calls
<1>3. /\ row' = [row EXCEPT ![s] = Gone]
      /\ row \in [Schedule -> Entry \cup {Gone}] /\ sched' \in [Schedule -> Entry \cup {Gone}]
      /\ hist' \in [used : SUBSET Schedule, deleted : SUBSET Schedule,
                    struck : [Schedule -> SUBSET Op], faults : 0 .. MaxFaults]
  BY <1>0 DEF IInv, TypeInv, rollback_row
<1>4. /\ row' \in [Schedule -> Entry \cup {Gone}] /\ row'[s] = Gone
      /\ \A x \in Schedule \ {s} : row'[x] = row[x]
  BY <1>3
<1>5. "create" \in hist.struck[s] \/ Dead(s)
  BY <1>0, <1>1 DEF IInv, StruckInv, At
<1>6. \A p \in Request : At(p, "create", "call", s)' <=> At(p, "create", "call", s)
  BY <1>0, <1>2 DEF At, Moves
<1>7. CreatePending(s)' <=> CreatePending(s)
  BY <1>0, <1>6 DEF CreatePending
<1>8. Dead(s)' <=> Dead(s)
  BY <1>0, <1>7 DEF Dead
<1>9. s \in hist'.deleted => row'[s] = Gone /\ Dead(s)'
  BY <1>0, <1>4, <1>8 DEF IInv, HalvesInv
<1>10. CreatePending(s)' => sched'[s] = Gone
  BY <1>0, <1>7 DEF IInv, CreateInv
<1>11. \A p \in Request : At(p, "delete", "write", s)' => row'[s] = Gone \/ Dead(s)'
  BY <1>4
<1>12. row'[s] = Gone => "create" \in hist'.struck[s] \/ Dead(s)'
  BY <1>0, <1>5, <1>8
<1> QED BY <1>0, <1>1, <1>2, <1>3, <1>4, <1>8, <1>9, <1>10, <1>11, <1>12, RequestProceeds

\* The call a handler waits for, by its operation.
LEMMA PendingCall ==
    ASSUME NEW q \in Req, ReqOk(q), q.pc \in Calls
    PROVE  /\ Pending(q) \in Call /\ CallOk(Pending(q)) /\ Pending(q).id = q.id
           /\ Pending(q).act = "create" <=> q.op = "create" /\ q.pc = "call"
           /\ Pending(q).act = "delete" <=> q.op = "delete"
           /\ Pending(q).act = "create" => Pending(q).spec = q.ask.spec /\ Pending(q).tz = q.ask.tz
           /\ Pending(q).act = "update" <=> q.op = "update" /\ q.pc = "call"
           /\ Pending(q).act = "update" => Pending(q).spec = q.ask.spec /\ q.ask.spec \in Timing
           /\ q.op = "update" /\ q.pc = "call_enabled" =>
                 Pending(q).act = (IF q.ask.state = "on" THEN "unpause" ELSE "pause")
           /\ q.op = "pause" => Pending(q).act = "pause"
           /\ q.op = "resume" => Pending(q).act = "unpause"
           /\ q.op = "create" /\ q.pc = "call_pause" => Pending(q).act = "pause"
           /\ q.op = "trigger" => Pending(q).act = "trigger"
<1>0. q.op \in Op /\ q.id \in Schedule /\ q.ask \in Ask
  BY DEF Req
<1> DEFINE c == [act |-> "trigger", id |-> q.id, spec |-> Keep, tz |-> Keep]
<1>1. CASE q.pc = "call_pause"
  <2>1. q.op = "create"
    BY <1>0, <1>1 DEF ReqOk, Op
  <2>2. Pending(q) = [c EXCEPT !.act = "pause"]
    BY <1>1 DEF Pending
  <2> QED BY <1>0, <1>1, <2>1, <2>2 DEF Call, CallOk
<1>2. CASE q.pc = "call_enabled"
  <2>1. q.op = "update"
    BY <1>0, <1>2 DEF ReqOk, Op
  <2>2. Pending(q) = [c EXCEPT !.act = IF q.ask.state = "on" THEN "unpause" ELSE "pause"]
    BY <1>2 DEF Pending
  <2> QED BY <1>0, <1>2, <2>1, <2>2 DEF Call, CallOk
<1>3. CASE q.pc = "call" /\ q.op = "create"
  <2>1. Pending(q) = [c EXCEPT !.act = "create", !.spec = q.ask.spec, !.tz = q.ask.tz]
    BY <1>3 DEF Pending
  <2>2. q.ask.spec \in Timing /\ q.ask.tz \in Zones
    BY <1>3 DEF ReqOk
  <2> QED BY <1>0, <1>3, <2>1, <2>2 DEF Call, CallOk
<1>4. CASE q.pc = "call" /\ q.op = "update"
  <2>1. Pending(q) = [c EXCEPT !.act = "update", !.spec = q.ask.spec]
    BY <1>4 DEF Pending
  <2>2. q.ask.spec \in Timing
    BY <1>0, <1>4 DEF ReqOk, Ask
  <2> QED BY <1>0, <1>4, <2>1, <2>2 DEF Call, CallOk
<1>5. CASE q.pc = "call" /\ q.op = "resume"
  <2>1. Pending(q) = [c EXCEPT !.act = "unpause"]
    BY <1>5 DEF Pending
  <2> QED BY <1>0, <1>5, <2>1 DEF Call, CallOk
<1>6. CASE q.pc = "call" /\ q.op \in {"delete", "pause", "trigger"}
  <2>1. Pending(q) = [c EXCEPT !.act = q.op]
    BY <1>6 DEF Pending
  <2> QED BY <1>0, <1>6, <2>1 DEF Call, CallOk
<1> QED BY <1>0, <1>1, <1>2, <1>3, <1>4, <1>5, <1>6 DEF Calls, Op

\* A fault ends the handler, or sends a creation to its rollback.
LEMMA FaultStep ==
    ASSUME IInv, NEW r \in Request, req[r].pc \in Active, Struck(req[r]),
           NEW pc \in {"ok", "error", "rollback"}, Goto(r, pc),
           pc = "rollback" => req[r].op = "create" /\ req[r].pc = "call",
           pc = "ok" => req[r].pc = "call_pause",
           \A c \in late' : c \in late \/ (req[r].pc \in Calls /\ c = Pending(req[r])),
           row' = row, sched' = sched
    PROVE  IInv'
<1> PICK q \in Req : q = req[r]
  BY ActiveRequest
<1> PICK s \in Schedule : s = q.id
  BY ActiveRequest
<1>1. ReqOk(q) /\ q.op \in Op /\ s \in hist.used
  BY ActiveRequest
<1>2. Moves(r, pc)
  BY GotoMoves DEF IInv, Active
<1>3. hist \in [used : SUBSET Schedule, deleted : SUBSET Schedule,
                struck : [Schedule -> SUBSET Op], faults : 0 .. MaxFaults]
  BY DEF IInv, TypeInv
<1>4. /\ hist' \in [used : SUBSET Schedule, deleted : SUBSET Schedule,
                    struck : [Schedule -> SUBSET Op], faults : 0 .. MaxFaults]
      /\ hist'.used = hist.used /\ hist'.deleted = hist.deleted
      /\ q.op \in hist'.struck[s] /\ \A x \in Schedule : hist.struck[x] \subseteq hist'.struck[x]
  <2>1. hist.faults \in 0 .. MaxFaults /\ hist.faults + 1 \in 0 .. MaxFaults
    BY <1>3, SchedulesAssumption DEF Struck
  <2>2. [hist.struck EXCEPT ![s] = @ \cup {q.op}] \in [Schedule -> SUBSET Op]
    BY <1>1, <1>3
  <2>3. hist' = [hist EXCEPT !.faults = hist.faults + 1, !.struck = [hist.struck EXCEPT ![s] = @ \cup {q.op}]]
    BY <1>3 DEF Struck
  <2> QED BY <1>1, <1>3, <2>1, <2>2, <2>3
<1>5. \A c \in late' : \/ c \in late
                       \/ /\ c \in Call /\ CallOk(c) /\ c.id = s
                          /\ c.act = "create" => At(r, "create", "call", s)
                          /\ c.act \in {"create", "delete"} => c.act \in hist'.struck[s]
  BY <1>1, <1>4, PendingCall DEF At
<1>6. pc \in Active => ReqOk(req'[r])
  BY <1>1, <1>2 DEF Moves, ReqOk, Active, Calls
<1>7. \A p \in Request :
         /\ At(p, "create", "call", s)' => At(p, "create", "call", s)
         /\ At(p, "delete", "write", s)' => At(p, "delete", "write", s)
         /\ Parting(p, s) => Parting(p, s)' \/ hist'.struck[s] \cap {"create", "delete"} # {}
  BY <1>2, <1>4 DEF At, Parting, Moves, Active, Calls
<1>8. CreatePending(s)' => CreatePending(s)
  BY <1>5, <1>7 DEF CreatePending
<1>9. Dead(s) => Dead(s)'
  BY <1>4, <1>8 DEF Dead
<1>10. CreatePending(s)' => sched'[s] = Gone
  BY <1>8 DEF IInv, CreateInv
<1>11. \A p \in Request : At(p, "delete", "write", s)' => row'[s] = Gone \/ Dead(s)'
  BY <1>7, <1>9 DEF IInv, HalvesInv
<1>12. s \in hist'.deleted => row'[s] = Gone /\ Dead(s)'
  BY <1>4, <1>9 DEF IInv, HalvesInv
<1>13. row'[s] = Gone => "create" \in hist'.struck[s] \/ Dead(s)'
  BY <1>1, <1>4, <1>9 DEF IInv, HalvesInv
<1>14. row'[s] # Gone /\ sched'[s] = Gone =>
              \/ hist'.struck[s] \cap {"create", "delete"} # {}
              \/ \E p \in Request : Parting(p, s)'
  BY <1>4, <1>7 DEF IInv, HalvesInv
<1>15. /\ row' \in [Schedule -> Entry \cup {Gone}] /\ sched' \in [Schedule -> Entry \cup {Gone}]
       /\ \A x \in Schedule \ {s} : row'[x] = row[x] /\ sched'[x] = sched[x]
  BY DEF IInv, TypeInv
<1>16. /\ pc \in Active \cup {"ok", "error"} /\ pc \notin Active \ {"rollback"} /\ pc # "call"
       /\ pc = "rollback" => "create" \in hist'.struck[s]
       /\ q.pc = "rollback" => pc = "error"
  BY <1>4 DEF Active, Calls
<1> QED BY <1>2, <1>4, <1>5, <1>6, <1>10, <1>11, <1>12, <1>13, <1>14, <1>15, <1>16,
           <1>9, RequestProceeds

\* A failed call and a dropped handler keep the invariant.
LEMMA FaultSteps ==
    ASSUME IInv, NEW r \in Request, call_fails(r) \/ dropped(r)
    PROVE  IInv'
<1>1. CASE call_fails(r)
  <2>1. /\ req[r].pc \in Calls /\ Struck(req[r]) /\ Goto(r, AfterCall(req[r], FALSE))
        /\ \A c \in late' : c \in late \/ (req[r].pc \in Calls /\ c = Pending(req[r]))
        /\ row' = row /\ sched' = sched
    BY <1>1 DEF call_fails
  <2>2. req[r].pc \in Active /\ ReqOk(req[r]) /\ req[r].op \in Op
    BY <2>1, ActiveRequest DEF Active
  <2>3. /\ AfterCall(req[r], FALSE) \in {"ok", "error", "rollback"}
        /\ AfterCall(req[r], FALSE) = "rollback" => req[r].op = "create" /\ req[r].pc = "call"
        /\ AfterCall(req[r], FALSE) = "ok" => req[r].pc = "call_pause"
    BY <2>1, <2>2 DEF AfterCall, ReqOk, Calls, Op
  <2>4. PICK pc \in {"ok", "error", "rollback"} : pc = AfterCall(req[r], FALSE)
    BY <2>3
  <2> QED BY <2>1, <2>2, <2>3, <2>4, FaultStep
<1>2. CASE dropped(r)
  <2>1. /\ req[r].pc \in Active /\ Struck(req[r]) /\ Goto(r, "error")
        /\ \A c \in late' : c \in late \/ (req[r].pc \in Calls /\ c = Pending(req[r]))
        /\ row' = row /\ sched' = sched
    BY <1>2 DEF dropped
  <2> QED BY <2>1, FaultStep
<1> QED BY <1>1, <1>2

\* What Temporal makes of an accepted call on a schedule it has.
LEMMA EffectEntry ==
    ASSUME NEW c \in Call, CallOk(c), NEW x \in Entry \cup {Gone}, Accepts(c, x)
    PROVE  /\ c.act = "create" => /\ x = Gone /\ Effect(c, x) \in Entry
                                  /\ Effect(c, x) = [spec |-> c.spec, tz |-> c.tz, state |-> "on"]
           /\ c.act # "create" => x \in Entry
           /\ c.act = "update" => /\ Effect(c, x) \in Entry
                                  /\ Effect(c, x).spec = c.spec /\ Effect(c, x).state = x.state
           /\ c.act = "pause" => /\ Effect(c, x) \in Entry
                                 /\ Effect(c, x).state = "off" /\ Effect(c, x).spec = x.spec
                                 /\ Effect(c, x).tz = x.tz
           /\ c.act = "unpause" => /\ Effect(c, x) \in Entry
                                   /\ Effect(c, x).state = "on" /\ Effect(c, x).spec = x.spec
           /\ c.act = "delete" => Effect(c, x) = Gone
           /\ c.act = "trigger" => Effect(c, x) = x
<1>1. c.act # "create" => x \in Entry
  BY DEF Accepts
<1>2. CASE c.act = "create"
  <2>1. x = Gone /\ Effect(c, x) = [spec |-> c.spec, tz |-> c.tz, state |-> "on"]
    BY <1>2 DEF Accepts, Effect
  <2>2. [spec |-> c.spec, tz |-> c.tz, state |-> "on"] \in Entry
    BY <1>2 DEF CallOk, Entry, State
  <2> QED BY <1>2, <2>1, <2>2
<1>3. CASE c.act = "update"
  <2>1. Effect(c, x) = [x EXCEPT !.spec = c.spec, !.tz = "UTC"] /\ c.spec \in Timing
    BY <1>3 DEF Effect, CallOk
  <2> QED BY <1>1, <1>3, <2>1 DEF Entry, Zones
<1>4. CASE c.act = "pause"
  <2>1. Effect(c, x) = [x EXCEPT !.state = "off"] /\ "off" \in State
    BY <1>4 DEF Effect, State
  <2> QED BY <1>1, <1>4, <2>1 DEF Entry
<1>5. CASE c.act = "unpause"
  <2>1. Effect(c, x) = [x EXCEPT !.state = "on"] /\ "on" \in State
    BY <1>5 DEF Effect, State
  <2> QED BY <1>1, <1>5, <2>1 DEF Entry
<1>6. CASE c.act = "delete"
  BY <1>1, <1>6 DEF Effect
<1>7. CASE c.act = "trigger"
  BY <1>1, <1>7 DEF Effect
<1> QED BY <1>2, <1>3, <1>4, <1>5, <1>6, <1>7 DEF Call

\* A call that takes effect, or is lost, after its caller has gone keeps the
\* invariant.
LEMMA LateStep ==
    ASSUME IInv, NEW c \in late, late_call(c)
    PROVE  IInv'
<1>1. row' = row /\ req' = req /\ hist' = hist /\ late' = late \ {c}
  BY DEF late_call
<1>2. c \in Call /\ CallOk(c) /\ sched \in [Schedule -> Entry \cup {Gone}] /\ c.id \in hist.used
  BY DEF IInv, TypeInv, CreateInv
<1> PICK s \in Schedule : s = c.id
  BY <1>2 DEF Call
<1>3. \A q \in Request, x \in Schedule :
         /\ At(q, "create", "call", x)' <=> At(q, "create", "call", x)
         /\ At(q, "delete", "write", x)' <=> At(q, "delete", "write", x)
  BY <1>1 DEF At
<1>4. \A x \in Schedule : CreatePending(x)' => CreatePending(x)
  BY <1>1, <1>3 DEF CreatePending
<1>5. /\ sched' \in [Schedule -> Entry \cup {Gone}]
      /\ \A x \in Schedule \ {s} : sched'[x] = sched[x]
      /\ \/ sched'[s] = sched[s]
         \/ Accepts(c, sched[s]) /\ sched'[s] = Effect(c, sched[s])
  <2>1. Accepts(c, sched[s]) => Effect(c, sched[s]) \in Entry \cup {Gone}
    BY <1>2, EffectEntry DEF Call
  <2>2. sched' = sched \/ (Accepts(c, sched[s]) /\ sched' = [sched EXCEPT ![s] = Effect(c, sched[s])])
    BY <1>2 DEF late_call
  <2> QED BY <1>2, <2>1, <2>2
<1>6. /\ c.act = "create" => sched[s] = Gone /\ "create" \in hist.struck[s]
      /\ c.act # "create" => (sched[s] = Gone => sched'[s] = Gone)
      /\ c.act = "delete" => "delete" \in hist.struck[s]
      /\ c.act # "delete" => (sched[s] # Gone => sched'[s] # Gone)
  <2>1. c.act = "create" => CreatePending(s)
    BY DEF CreatePending
  <2>2. c.act = "create" => sched[s] = Gone /\ "create" \in hist.struck[s]
    BY <2>1 DEF IInv, CreateInv, StruckInv
  <2>3. c.act # "create" => (sched[s] = Gone => sched'[s] = Gone)
    BY <1>5 DEF Accepts
  <2>4. c.act = "delete" => "delete" \in hist.struck[s]
    BY DEF IInv, StruckInv
  <2>5. sched[s] \in Entry \cup {Gone} /\ Gone \notin Entry
    BY <1>2, EntryFields
  <2>6. Accepts(c, sched[s]) /\ c.act # "delete" /\ sched[s] # Gone => Effect(c, sched[s]) # Gone
    BY <1>2, <2>5, EffectEntry DEF Call
  <2> QED BY <1>5, <2>2, <2>3, <2>4, <2>6
<1>7. \A x \in Schedule : CreatePending(x)' => sched'[x] = Gone
  <2>1. c.act = "create" => ~CreatePending(s)'
    BY <1>1, <1>3 DEF CreatePending, IInv, CreateInv
  <2> QED BY <1>4, <1>5, <1>6, <2>1 DEF IInv, CreateInv
<1>8. \A x \in Schedule : Dead(x) => Dead(x)'
  <2>1. Dead(s) => c.act # "create"
    BY DEF Dead, CreatePending
  <2> QED BY <1>1, <1>4, <1>5, <1>6, <2>1 DEF Dead
<1>9. hist.used \subseteq Schedule /\ hist.deleted \subseteq Schedule
  BY DEF IInv, TypeInv
<1>10. TypeInv'
  BY <1>1, <1>5 DEF IInv, TypeInv
<1>11. CreateInv'
  <2>1. \A x \in Schedule : x \notin hist.used => sched'[x] = sched[x]
    BY <1>2, <1>5
  <2>2. /\ \A r \in Request : req'[r].pc \in Active => req'[r].id \in hist'.used
        /\ \A d \in late' : d.id \in hist'.used
        /\ \A x \in Schedule : x \notin hist'.used => row'[x] = Gone /\ sched'[x] = Gone
        /\ \A r \in Request, d \in late' : ~ (d.act = "create" /\ At(r, "create", "call", d.id)')
    BY <1>1, <2>1 DEF IInv, CreateInv, At
  <2>3. \A r, t \in Request, x \in Schedule :
          At(r, "create", "call", x)' /\ req'[t].op = "create" /\ req'[t].pc \in Active /\ req'[t].id = x
          => r = t
    BY <1>1 DEF IInv, CreateInv, At
  <2>4. \A d, e \in late' : d.act = "create" /\ e.act = "create" /\ d.id = e.id => d = e
    BY <1>1 DEF IInv, CreateInv
  <2> QED BY <1>7, <2>2, <2>3, <2>4 DEF CreateInv
<1>12. StruckInv'
  BY <1>1, <1>8 DEF IInv, StruckInv, At
<1>13. HalvesInv'
  <2>1. \A q \in Request, x \in Schedule : At(q, "delete", "write", x)' => row'[x] = Gone \/ Dead(x)'
    BY <1>1, <1>3, <1>8 DEF IInv, HalvesInv
  <2>2. \A x \in hist'.deleted : row'[x] = Gone /\ Dead(x)'
    BY <1>1, <1>8, <1>9 DEF IInv, HalvesInv
  <2>3. \A x \in hist'.used : row'[x] = Gone => "create" \in hist'.struck[x] \/ Dead(x)'
    BY <1>1, <1>8, <1>9 DEF IInv, HalvesInv
  <2>4. \A x \in Schedule : row'[x] # Gone /\ sched'[x] = Gone =>
           \/ hist'.struck[x] \cap {"create", "delete"} # {}
           \/ \E q \in Request : Parting(q, x)'
    <3> SUFFICES ASSUME NEW x \in Schedule, row'[x] # Gone, sched'[x] = Gone
                 PROVE  \/ hist'.struck[x] \cap {"create", "delete"} # {}
                        \/ \E q \in Request : Parting(q, x)'
      OBVIOUS
    <3>1. CASE sched[x] = Gone
      BY <1>1, <3>1 DEF IInv, HalvesInv, Parting, At
    <3>2. CASE sched[x] # Gone
      <4>1. x = s /\ c.act = "delete"
        BY <1>5, <1>6, <3>2
      <4> QED BY <1>1, <1>6, <4>1
    <3> QED BY <3>1, <3>2
  <2> QED BY <2>1, <2>2, <2>3, <2>4 DEF HalvesInv
<1>14. SoloInv'
  <2> SUFFICES ASSUME NEW p \in Request, req[p].pc \in Active \ {"rollback"}, req[p].alone
               PROVE  /\ \A q \in Request : req[q].pc \in Active /\ req[q].id = req[p].id => q = p
                      /\ \A d \in late' : d.id # req[p].id
                      /\ Progress(req[p], row[req[p].id], sched'[req[p].id])
    BY <1>1 DEF SoloInv, Progress
  <2>1. /\ \A q \in Request : req[q].pc \in Active /\ req[q].id = req[p].id => q = p
        /\ \A d \in late : d.id # req[p].id
        /\ Progress(req[p], row[req[p].id], sched[req[p].id])
    BY DEF IInv, SoloInv
  <2>2. req[p].id # s /\ req[p].id \in Schedule
    BY <2>1, ActiveRequest
  <2> QED BY <1>1, <1>5, <2>1, <2>2
<1> QED BY <1>10, <1>11, <1>12, <1>13, <1>14 DEF IInv

\* A call to Temporal that is answered keeps the invariant.  Of a creation:
\* it is the only one there will ever be for its id, so it is accepted.  Of a
\* deletion: the schedule was there, so its creation is over, and it is dead.
LEMMA CallStep ==
    ASSUME IInv, NEW r \in Request, call_temporal(r)
    PROVE  IInv'
<1>0. req[r].pc \in Calls /\ req[r].pc \in Active /\ row' = row /\ late' = late /\ hist' = hist
  BY DEF call_temporal, Active
<1> PICK q \in Req : q = req[r]
  BY <1>0, ActiveRequest
<1> PICK s \in Schedule : s = q.id
  BY <1>0, ActiveRequest
<1>1. ReqOk(q) /\ q.op \in Op /\ s \in hist.used /\ q.ask \in Ask
  BY <1>0, ActiveRequest
<1> PICK c \in Call : c = Pending(q)
  BY <1>0, <1>1, PendingCall
<1>2. /\ CallOk(c) /\ c.id = s
      /\ c.act = "create" <=> q.op = "create" /\ q.pc = "call"
      /\ c.act = "delete" <=> q.op = "delete"
      /\ c.act = "create" => c.spec = q.ask.spec /\ c.tz = q.ask.tz
      /\ c.act = "update" <=> q.op = "update" /\ q.pc = "call"
      /\ c.act = "update" => c.spec = q.ask.spec /\ q.ask.spec \in Timing
      /\ q.op = "update" /\ q.pc = "call_enabled" =>
            c.act = (IF q.ask.state = "on" THEN "unpause" ELSE "pause")
      /\ q.op = "pause" => c.act = "pause"
      /\ q.op = "resume" => c.act = "unpause"
      /\ q.op = "create" /\ q.pc = "call_pause" => c.act = "pause"
      /\ q.op = "trigger" => c.act = "trigger"
  BY <1>0, <1>1, PendingCall
<1>3. sched \in [Schedule -> Entry \cup {Gone}] /\ Gone \notin Entry
  BY EntryFields DEF IInv, TypeInv
<1> PICK x \in Entry \cup {Gone} : x = sched[s]
  BY <1>3
<1> PICK ok \in BOOLEAN : ok = Accepts(c, x)
  BY DEF Accepts
<1>4. ok => Effect(c, x) \in Entry \cup {Gone}
  BY <1>2, EffectEntry DEF Call
<1>5. PICK y \in Entry \cup {Gone} : y = IF ok THEN Effect(c, x) ELSE x
  BY <1>4
<1>6. sched' = [sched EXCEPT ![s] = y]
  BY <1>2, <1>3, <1>5 DEF call_temporal
<1>7. /\ sched' \in [Schedule -> Entry \cup {Gone}] /\ sched'[s] = y
      /\ \A z \in Schedule \ {s} : sched'[z] = sched[z]
  BY <1>3, <1>6
<1>8. PICK pc \in {"ok", "error", "rollback", "call_pause", "call_enabled", "write"} : pc = AfterCall(q, ok)
  BY <1>0, <1>1 DEF AfterCall, Written
<1>9. Moves(r, pc) /\ (pc \in Active => req'[r].existing = q.existing)
  <2>1. Goto(r, pc)
    BY <1>2, <1>8 DEF call_temporal
  <2> QED BY <1>0, <2>1, GotoMoves DEF IInv, Active, Calls
\* A creation finds no schedule of its id.
<1>10. c.act = "create" => /\ x = Gone /\ At(r, "create", "call", s) /\ CreatePending(s)
  <2>1. c.act = "create" => At(r, "create", "call", s)
    BY <1>2 DEF At
  <2>2. c.act = "create" => CreatePending(s)
    BY <2>1 DEF CreatePending
  <2> QED BY <2>1, <2>2 DEF IInv, CreateInv
<1>11. /\ q.op = "create" /\ q.pc = "call" =>
             pc = IF ~ok THEN "rollback" ELSE IF q.ask.state = "on" THEN "ok" ELSE "call_pause"
       /\ q.op = "create" /\ q.pc = "call_pause" => pc = "ok"
       /\ q.op # "create" /\ ~ok => pc = "error"
       /\ q.op = "update" /\ q.pc = "call" /\ ok =>
             pc = IF q.ask.state # Keep THEN "call_enabled" ELSE Written(q)
       /\ q.op = "update" /\ q.pc = "call_enabled" /\ ok => pc = Written(q)
       /\ q.op = "trigger" /\ ok => pc = "ok"
       /\ q.op \in {"delete", "pause", "resume"} /\ ok => pc = "write"
  BY <1>0, <1>1, <1>2, <1>8, <1>10 DEF AfterCall, ReqOk, Calls, Op
<1>12. /\ q.op = "create" => q.pc \in {"call", "call_pause"} /\ pc \in {"ok", "call_pause", "rollback"}
       /\ q.op = "update" => /\ q.pc \in {"call", "call_enabled"}
                             /\ pc \in {"error", "call_enabled", "write"}
                             /\ pc = "call_enabled" => q.pc = "call" /\ q.ask.state # Keep
                             /\ q.existing \in Entry
       /\ q.op = "trigger" => pc \in {"ok", "error"}
       /\ q.op \in {"delete", "pause", "resume"} => pc \in {"write", "error"}
       /\ pc = "call_pause" => ok /\ q.op = "create" /\ q.pc = "call" /\ q.ask.state # "on"
       /\ pc = "rollback" => ~ok /\ q.op = "create" /\ q.pc = "call"
       /\ pc = "write" => ok /\ q.op # "create"
       /\ pc = "call_enabled" => ok /\ q.op = "update"
  BY <1>0, <1>1, <1>11 DEF ReqOk, Calls, Op, Written
<1>13. /\ pc \in Active \cup {"ok", "error"} /\ pc # "call"
       /\ q.pc # "rollback"
       /\ (pc \in Active <=> pc \in {"call_pause", "call_enabled", "write", "rollback"})
  BY <1>0, <1>1, <1>12 DEF Active, Calls, Op
<1>14. pc \in Active => ReqOk(req'[r])
  <2> HAVE pc \in Active
  <2>1. req'[r].op = q.op /\ req'[r].pc = pc /\ req'[r].ask = q.ask /\ req'[r].existing = q.existing
    BY <1>9 DEF Moves
  <2> QED BY <1>1, <1>12, <1>13, <2>1 DEF ReqOk
\* Who creates or deletes s, and what becomes of it.
<1>15. \A p \in Request :
          /\ At(p, "create", "call", s)' => p # r /\ At(p, "create", "call", s)
          /\ Parting(p, s) => Parting(p, s)' \/ (c.act = "create" /\ ok)
          /\ At(p, "delete", "write", s)' => At(p, "delete", "write", s) \/ (c.act = "delete" /\ ok)
  BY <1>0, <1>2, <1>9, <1>11, <1>12, <1>13 DEF At, Parting, Moves, Active, Calls
<1>16. CreatePending(s)' => CreatePending(s) /\ c.act # "create"
  <2>1. CreatePending(s)' => CreatePending(s)
    BY <1>0, <1>15 DEF CreatePending
  <2>2. ASSUME c.act = "create", CreatePending(s)' PROVE FALSE
    <3>1. \A d \in late : ~(d.act = "create" /\ d.id = s)
      BY <1>10, <2>2 DEF IInv, CreateInv
    <3>2. \A p \in Request : ~At(p, "create", "call", s)'
      BY <1>10, <1>15, <2>2 DEF IInv, CreateInv, At, Active, Calls
    <3> QED BY <1>0, <2>2, <3>1, <3>2 DEF CreatePending
  <2> QED BY <2>1, <2>2
<1>17. /\ c.act # "create" /\ x = Gone => y = Gone
       /\ c.act = "create" /\ ok => y \in Entry
       /\ c.act = "create" /\ ~ok => y = Gone
       /\ x # Gone /\ c.act # "delete" => y \in Entry
       /\ c.act = "delete" /\ ok => y = Gone
  <2>1. c.act # "create" /\ x = Gone => y = Gone
    BY <1>5 DEF Accepts
  <2>2. (c.act = "create" /\ ok => y \in Entry) /\ (c.act = "create" /\ ~ok => y = Gone)
    BY <1>2, <1>5, <1>10, EffectEntry
  <2>3. x # Gone /\ c.act # "delete" => y \in Entry
    BY <1>2, <1>5, EffectEntry DEF Call
  <2>4. c.act = "delete" /\ ok => y = Gone
    BY <1>2, <1>5, EffectEntry
  <2> QED BY <2>1, <2>2, <2>3, <2>4
<1>18. CreatePending(s)' => sched'[s] = Gone
  BY <1>7, <1>16, <1>17 DEF IInv, CreateInv
<1>19. Dead(s) => Dead(s)'
  BY <1>0, <1>7, <1>10, <1>16, <1>17 DEF Dead
<1>20. c.act = "delete" /\ ok => Dead(s)'
  <2>1. c.act = "delete" /\ ok => sched[s] # Gone
    BY DEF Accepts
  <2>2. c.act = "delete" /\ ok => ~CreatePending(s)'
    BY <1>16, <2>1 DEF IInv, CreateInv
  <2> QED BY <1>0, <1>1, <1>7, <1>17, <2>2 DEF Dead
<1>21. \A p \in Request : At(p, "delete", "write", s)' => row'[s] = Gone \/ Dead(s)'
  BY <1>0, <1>15, <1>19, <1>20 DEF IInv, HalvesInv
<1>22. s \in hist'.deleted => row'[s] = Gone /\ Dead(s)'
  BY <1>0, <1>19 DEF IInv, HalvesInv
<1>23. row'[s] = Gone => "create" \in hist'.struck[s] \/ Dead(s)'
  BY <1>0, <1>1, <1>19 DEF IInv, HalvesInv
<1>24. row'[s] # Gone /\ sched'[s] = Gone =>
              \/ hist'.struck[s] \cap {"create", "delete"} # {}
              \/ \E p \in Request : Parting(p, s)'
  <2> SUFFICES ASSUME row'[s] # Gone, sched'[s] = Gone
               PROVE  \/ hist'.struck[s] \cap {"create", "delete"} # {}
                      \/ \E p \in Request : Parting(p, s)'
    OBVIOUS
  <2>1. CASE x = Gone
    <3>1. ~(c.act = "create" /\ ok)
      BY <1>3, <1>7, <1>17
    <3> QED BY <1>0, <1>15, <2>1, <3>1 DEF IInv, HalvesInv
  <2>2. CASE x # Gone
    <3>1. c.act = "delete" /\ ok
      BY <1>3, <1>5, <1>7, <1>17, <2>2
    <3>2. At(r, "delete", "write", s)'
      BY <1>2, <1>9, <1>11, <1>13, <3>1 DEF At, Moves
    <3> QED BY <3>2 DEF Parting
  <2> QED BY <2>1, <2>2
\* What the request itself relies on when nobody else is about.
<1>25. pc \in Active \ {"rollback"} /\ req[r].alone => late' = late /\ Progress(req'[r], row'[s], sched'[s])
  <2> SUFFICES ASSUME pc \in Active \ {"rollback"}, q.alone
               PROVE  Progress(req'[r], row[s], y)
    BY <1>0, <1>7
  <2>1. req'[r].op = q.op /\ req'[r].pc = pc /\ req'[r].ask = q.ask
    BY <1>9 DEF Moves
  <2>2. Progress(q, row[s], x)
    BY <1>0, <1>13 DEF IInv, SoloInv
  <2>3. q.pc # "read"
    BY <1>0 DEF Calls
  <2>4. CASE q.op = "create"
    <3>1. pc = "call_pause" /\ ok /\ q.pc = "call" /\ c.act = "create" /\ q.ask.state # "on"
      BY <1>2, <1>12, <1>13, <2>4
    <3>2. y = [spec |-> q.ask.spec, tz |-> q.ask.tz, state |-> "on"] /\ y # Gone
      <4>1. Accepts(c, x) /\ y = Effect(c, x)
        BY <1>5, <3>1
      <4>2. Effect(c, x) = [spec |-> c.spec, tz |-> c.tz, state |-> "on"]
        BY <1>2, <3>1, <4>1, EffectEntry
      <4> QED BY <1>2, <1>3, <1>17, <3>1, <4>1, <4>2
    <3> QED BY <2>1, <2>2, <2>4, <3>1, <3>2 DEF Progress
  <2>5. CASE q.op = "update"
    <3>1. ok /\ row[s] # Gone /\ (q.pc = "call" \/ q.pc = "call_enabled")
      BY <1>12, <1>13, <2>2, <2>3, <2>5 DEF Progress
    <3>2. CASE q.pc = "call"
      <4>1. c.act = "update" /\ y.spec = q.ask.spec
        BY <1>2, <1>5, <2>5, <3>1, <3>2, EffectEntry
      <4>2. pc = "write" => q.ask.state = Keep
        BY <1>11, <2>5, <3>1, <3>2
      <4> QED BY <2>1, <2>5, <3>1, <4>1, <4>2 DEF Progress
    <3>3. CASE q.pc = "call_enabled"
      <4>1. pc = "write"
        BY <1>12, <1>13, <2>5, <3>3
      <4>2. x \in Entry /\ y.spec = x.spec /\ y.state = IF q.ask.state = "on" THEN "on" ELSE "off"
        <5>1. Accepts(c, x) /\ y = Effect(c, x) /\ c.act = (IF q.ask.state = "on" THEN "unpause" ELSE "pause")
          BY <1>2, <1>5, <2>5, <3>1, <3>3
        <5> QED BY <1>2, <5>1, EffectEntry
      <4>3. q.ask.state # Keep => y.state = q.ask.state
        BY <1>1, <4>2 DEF Ask, State
      <4>4. q.ask.spec # Keep => y.spec = q.ask.spec
        BY <2>2, <2>5, <3>3, <4>2 DEF Progress
      <4> QED BY <2>1, <2>5, <3>1, <4>1, <4>3, <4>4 DEF Progress
    <3> QED BY <3>1, <3>2, <3>3
  <2>6. CASE q.op = "delete"
    BY <2>1, <2>6 DEF Progress
  <2>7. CASE q.op \in {"pause", "resume"}
    <3>1. ok /\ row[s] # Gone
      BY <1>12, <1>13, <2>2, <2>3, <2>7 DEF Progress
    <3>2. (q.op = "pause" => y.state = "off") /\ (q.op = "resume" => y.state = "on")
      BY <1>2, <1>5, <3>1, EffectEntry
    <3> QED BY <2>1, <2>7, <3>1, <3>2 DEF Progress
  <2>8. CASE q.op = "trigger"
    BY <1>12, <1>13, <2>8
  <2> QED BY <1>1, <2>4, <2>5, <2>6, <2>7, <2>8 DEF Op
<1>26. /\ row' \in [Schedule -> Entry \cup {Gone}]
       /\ hist' \in [used : SUBSET Schedule, deleted : SUBSET Schedule,
                     struck : [Schedule -> SUBSET Op], faults : 0 .. MaxFaults]
  BY <1>0 DEF IInv, TypeInv
\* A refused creation has nothing that fires and never will.
<1>27. pc = "rollback" => Dead(s)'
  <2> HAVE pc = "rollback"
  <2>1. c.act = "create" /\ ~ok
    BY <1>2, <1>12
  <2>2. sched'[s] = Gone /\ ~CreatePending(s)'
    BY <1>7, <1>16, <1>17, <2>1
  <2> QED BY <1>0, <1>1, <2>2 DEF Dead
<1>28. /\ q.op = "create" => pc # "call"
       /\ q.pc = "rollback" => pc = "error"
  BY <1>13
<1> QED BY <1>0, <1>19, <1>27, <1>28, <1>7, <1>9, <1>13, <1>14, <1>18, <1>21, <1>22, <1>23, <1>24, <1>25, <1>26, RequestProceeds

\* Every step keeps the invariant.
LEMMA IInvNext == IInv /\ [Next]_vars => IInv'
<1> SUFFICES ASSUME IInv, [Next]_vars PROVE IInv'
  OBVIOUS
<1>1. CASE UNCHANGED vars
  BY <1>1 DEF vars, IInv, TypeInv, CreateInv, CreatePending, At, Parting, StruckInv, HalvesInv, Dead, SoloInv
<1>2. CASE \E c \in late : late_call(c)
  BY <1>2, LateStep
<1>3. ASSUME NEW r \in Request,
             \/ create_schedule(r) \/ update_schedule(r) \/ control_schedule(r)
             \/ read_row(r) \/ call_temporal(r) \/ write_row(r) \/ rollback_row(r)
             \/ call_fails(r) \/ dropped(r)
      PROVE  IInv'
  BY <1>3, CreateStep, RequestStep, ReadStep, CallStep, WriteStep, RollbackStep, FaultSteps
<1> QED BY <1>1, <1>2, <1>3 DEF Next

-----------------------------------------------------------------------------
(* The theorems. *)

\* The invariant holds throughout, for any number of schedules, requests,
\* timings and faults of the two stores of schedules.rs.
THEOREM Invariance == Spec => []IInv
BY IInvInit, IInvNext, PTL DEF Spec

\* delete_schedule: once the DELETE has removed the row, neither a request that
\* was under way nor a late call brings the row or the Temporal schedule back.
THEOREM DeletedStaysDeletedHolds == Spec => []DeletedStaysDeleted
<1>1. IInv => DeletedStaysDeleted
  BY DEF IInv, HalvesInv, Dead, DeletedStaysDeleted
<1> QED BY <1>1, Invariance, PTL

\* A schedule no request is at work on exists in both stores or in neither,
\* unless a fault struck create_schedule or delete_schedule.
THEOREM ExistenceAgreesHolds == Spec => []ExistenceAgrees
<1>1. ASSUME IInv PROVE ExistenceAgrees
  <2> SUFFICES ASSUME NEW s \in Schedule, Quiet(s)
               PROVE  /\ row[s] = Gone /\ sched[s] # Gone => "create" \in hist.struck[s]
                      /\ row[s] # Gone /\ sched[s] = Gone => hist.struck[s] \cap {"create", "delete"} # {}
    BY DEF ExistenceAgrees
  <2>1. row[s] = Gone /\ sched[s] # Gone => "create" \in hist.struck[s]
    BY <1>1 DEF IInv, CreateInv, HalvesInv, Dead
  <2>2. \A r \in Request : ~Parting(r, s)
    BY DEF Quiet, Touching, Parting, At, Active, Calls
  <2> QED BY <1>1, <2>1, <2>2 DEF IInv, HalvesInv
<1> QED BY <1>1, Invariance, PTL

\* Nobody but r itself answers r.
LEMMA OnlyOwnAnswer ==
    ASSUME IInv, Next, NEW r \in Request, req[r].pc \in Active, req'[r].pc = "ok"
    PROVE  call_temporal(r) \/ write_row(r) \/ call_fails(r)
<1>0. req[r].pc \notin {"ok", "error", "unsent"} /\ TypeInv
  BY DEF IInv, Active, Calls
<1>1. ASSUME NEW q \in Request, NEW op, NEW s, NEW pc, NEW ask, Begin(q, op, s, pc, ask)
      PROVE  FALSE
  <2>1. req[q].pc = "unsent"
    BY <1>1, UnsentFields DEF Begin
  <2>2. q # r
    BY <1>0, <2>1
  <2>3. req[r] \in Req
    BY DEF IInv, TypeInv
  <2>4. req'[r].pc = req[r].pc
    BY <1>1, <2>2, <2>3 DEF Begin, Req
  <2> QED BY <1>0, <2>4
<1>2. ASSUME NEW q \in Request \ {r}, NEW new, req' = [req EXCEPT ![q] = new]
      PROVE  FALSE
  BY <1>0, <1>2 DEF TypeInv
<1>3. CASE \E c \in late : late_call(c)
  BY <1>0, <1>3 DEF late_call
<1>4. CASE \E q \in Request : create_schedule(q) \/ update_schedule(q) \/ control_schedule(q)
  BY <1>1, <1>4 DEF create_schedule, update_schedule, control_schedule
<1>5. ASSUME NEW q \in Request, read_row(q)
      PROVE  FALSE
  <2>1. q = r
    BY <1>2, <1>5 DEF read_row
  <2>2. PICK pc \in {"write", "error", "call", "call_enabled"} :
           req' = [req EXCEPT ![r] = IF pc = "error" THEN [Unsent EXCEPT !.pc = pc]
                                     ELSE [@ EXCEPT !.pc = pc, !.existing = row[req[r].id]]]
    BY <1>5, <2>1 DEF read_row, Written
  <2>3. req[r] \in Req
    BY DEF IInv, TypeInv
  <2>4. req'[r].pc = pc
    BY <1>0, <2>2, <2>3 DEF TypeInv, Req, Unsent
  <2> QED BY <2>4
<1>6. ASSUME NEW q \in Request, rollback_row(q) \/ dropped(q)
      PROVE  FALSE
  <2>1. Goto(q, "error") /\ req[q].pc \in Active
    BY <1>6 DEF rollback_row, dropped, Active
  <2>2. Moves(q, "error")
    BY <1>0, <2>1, GotoMoves
  <2> QED BY <1>0, <2>2 DEF Moves
<1>7. ASSUME NEW q \in Request, q # r, call_temporal(q) \/ write_row(q) \/ call_fails(q)
      PROVE  FALSE
  BY <1>2, <1>7 DEF call_temporal, write_row, call_fails, Goto
<1> QED BY <1>3, <1>4, <1>5, <1>6, <1>7 DEF Next

\* A step that answers a request which had its schedule to itself leaves the
\* stores as Settled says.
LEMMA SoloSettles ==
    ASSUME IInv, Next, NEW r \in Request, req[r].alone, req'[r].pc = "ok"
    PROVE  Settled(req[r], row'[req[r].id], sched'[req[r].id], hist'.struck[req[r].id])
<1>1. req[r] \in Req /\ req[r].pc \in Active
  <2>1. req[r] \in Req \cup Answered
    BY DEF IInv, TypeInv
  <2>2. req[r] \notin Answered
    BY AnsweredFields
  <2> QED BY <2>1, <2>2 DEF Req
<1> PICK q \in Req : q = req[r]
  BY <1>1
<1> PICK s \in Schedule : s = q.id
  BY DEF Req
<1>2. ReqOk(q) /\ q.op \in Op /\ q.ask \in Ask
  BY <1>1, ActiveRequest
<1>3. q.pc # "rollback" => Progress(q, row[s], sched[s])
  BY <1>1 DEF IInv, SoloInv
<1>4. /\ row \in [Schedule -> Entry \cup {Gone}] /\ sched \in [Schedule -> Entry \cup {Gone}]
      /\ Gone \notin Entry
  BY EntryFields DEF IInv, TypeInv
<1>5. CASE call_temporal(r)
  <2>1. q.pc \in Calls
    BY <1>5 DEF call_temporal
  <2> PICK c \in Call : c = Pending(q)
    BY <1>2, <2>1, PendingCall
  <2>2. CallOk(c) /\ c.id = s
    BY <1>2, <2>1, PendingCall
  <2> PICK ok \in BOOLEAN : ok = Accepts(c, sched[s])
    BY DEF Accepts
  <2>3. PICK pc \in Active \cup {"ok", "error"} : pc = AfterCall(q, ok)
    BY <1>2, <2>1 DEF AfterCall, Written, Active, Calls
  <2>4. Moves(r, pc)
    <3>1. Goto(r, pc)
      BY <1>5, <2>2, <2>3 DEF call_temporal
    <3> QED BY <1>1, <3>1, GotoMoves DEF IInv
  <2>5. AfterCall(q, ok) = "ok"
    BY <2>3, <2>4 DEF Moves
  <2>6. /\ row' = row
        /\ sched'[s] = IF ok THEN Effect(c, sched[s]) ELSE sched[s]
    BY <1>4, <1>5, <2>2 DEF call_temporal
  <2>7. CASE q.op = "create" /\ q.pc = "call"
    <3>1. ok /\ q.ask.state = "on"
      BY <2>5, <2>7 DEF AfterCall
    <3>2. c.act = "create" /\ c.spec = q.ask.spec /\ c.tz = q.ask.tz
      BY <1>2, <2>1, <2>7, PendingCall
    <3>3. sched'[s] = [spec |-> q.ask.spec, tz |-> q.ask.tz, state |-> "on"] /\ sched'[s] \in Entry
      <4>1. Accepts(c, sched[s]) /\ sched[s] \in Entry \cup {Gone} /\ sched'[s] = Effect(c, sched[s])
        BY <1>4, <2>6, <3>1
      <4>2. /\ Effect(c, sched[s]) \in Entry
            /\ Effect(c, sched[s]) = [spec |-> c.spec, tz |-> c.tz, state |-> "on"]
        BY <2>2, <3>2, <4>1, EffectEntry
      <4> QED BY <3>2, <4>1, <4>2
    <3>4. row'[s] = [spec |-> q.ask.spec, tz |-> q.ask.tz, state |-> q.ask.state]
      BY <1>3, <2>6, <2>7 DEF Progress
    <3>5. row'[s] # Gone
      BY <3>1, <3>4 DEF Gone
    <3> QED BY <1>4, <2>7, <3>1, <3>3, <3>4, <3>5 DEF Settled
  <2>8. CASE q.op = "create" /\ q.pc = "call_pause"
    <3>1. c.act = "pause"
      BY <1>2, <2>1, <2>8, PendingCall
    <3>2. /\ q.ask.state # "on" /\ sched[s] # Gone
          /\ sched[s].spec = q.ask.spec /\ sched[s].tz = q.ask.tz
          /\ row'[s] = [spec |-> q.ask.spec, tz |-> q.ask.tz, state |-> q.ask.state]
      BY <1>3, <2>6, <2>8 DEF Progress
    <3>3. Accepts(c, sched[s]) /\ sched[s] \in Entry \cup {Gone} /\ sched'[s] = Effect(c, sched[s])
      BY <1>4, <2>6, <3>1, <3>2 DEF Accepts
    <3>4. /\ sched'[s] # Gone /\ sched'[s].spec = q.ask.spec /\ sched'[s].tz = q.ask.tz
          /\ sched'[s].state = "off"
      BY <1>4, <2>2, <3>1, <3>2, <3>3, EffectEntry
    <3>5. q.ask.state = "off"
      BY <1>2, <2>8, <3>2 DEF ReqOk, State
    <3> QED BY <2>8, <3>2, <3>4, <3>5 DEF Settled
  <2>9. CASE q.op = "trigger"
    <3>1. ok /\ c.act = "trigger"
      BY <1>2, <2>1, <2>5, <2>9, PendingCall DEF AfterCall
    <3>2. sched'[s] # Gone
      <4>1. Accepts(c, sched[s]) /\ sched[s] \in Entry \cup {Gone} /\ sched'[s] = Effect(c, sched[s])
        BY <1>4, <2>6, <3>1
      <4>2. sched[s] \in Entry /\ Effect(c, sched[s]) = sched[s]
        BY <2>2, <3>1, <4>1, EffectEntry
      <4> QED BY <1>4, <4>1, <4>2
    <3> QED BY <2>9, <3>2 DEF Settled
  <2>10. q.op \in {"update", "delete", "pause", "resume"} => AfterCall(q, ok) # "ok"
    BY <1>2, <2>1 DEF AfterCall, Written, ReqOk, Calls
  <2>11. q.op = "create" => q.pc \in {"call", "call_pause"}
    BY <1>2, <2>1 DEF ReqOk, Calls
  <2> QED BY <1>2, <2>5, <2>7, <2>8, <2>9, <2>10, <2>11 DEF Op
<1>6. CASE write_row(r)
  <2>1. q.pc = "write" /\ sched' = sched
    BY <1>6 DEF write_row
  <2>2. q.op \in {"update", "delete", "pause", "resume"}
    BY <1>2, <2>1 DEF ReqOk, Op
  <2>3. PICK pc \in {"ok", "error"} :
           pc = IF There(q) \/ q.op \in {"pause", "resume"} THEN "ok" ELSE "error"
    OBVIOUS
  <2>4. Moves(r, pc)
    <3>1. Goto(r, pc)
      BY <1>6, <2>3 DEF write_row
    <3> QED BY <1>1, <3>1, GotoMoves DEF IInv
  <2>5. pc = "ok"
    BY <2>4 DEF Moves
  <2>6. row[s] # Gone /\ row[s] \in Entry
    BY <1>3, <1>4, <2>1, <2>2, <2>3, <2>5 DEF Progress, There
  <2>7. row'[s] = WrittenRow(q)
    BY <1>4, <1>6, <2>6 DEF write_row, There
  <2>8. CASE q.op = "update"
    <3>1. row'[s] = [spec |-> Or(q.ask.spec, q.existing.spec), tz |-> Or(q.ask.tz, q.existing.tz),
                     state |-> Or(q.ask.state, q.existing.state)]
      BY <2>7, <2>8 DEF WrittenRow
    <3>2. /\ q.ask.spec # Keep => row'[s].spec = q.ask.spec /\ sched'[s].spec = q.ask.spec
          /\ q.ask.state # Keep => row'[s].state = q.ask.state /\ sched'[s].state = q.ask.state
          /\ q.ask.tz # Keep => row'[s].tz = q.ask.tz
      BY <1>3, <2>1, <2>8, <3>1 DEF Or, Progress
    <3> QED BY <2>8, <3>2 DEF Settled
  <2>9. CASE q.op = "delete"
    <3>1. Dead(s)
      BY <2>1, <2>6, <2>9 DEF IInv, HalvesInv, At
    <3> QED BY <2>1, <2>7, <2>9, <3>1 DEF Settled, WrittenRow, Dead
  <2>10. CASE q.op = "pause"
    <3>1. row'[s].state = "off"
      BY <2>6, <2>7, <2>10 DEF WrittenRow, Entry
    <3> QED BY <1>3, <2>1, <2>10, <3>1 DEF Settled, Progress
  <2>11. CASE q.op = "resume"
    <3>1. row'[s].state = "on"
      BY <2>6, <2>7, <2>11 DEF WrittenRow, Entry
    <3> QED BY <1>3, <2>1, <2>11, <3>1 DEF Settled, Progress
  <2> QED BY <2>2, <2>8, <2>9, <2>10, <2>11
<1>7. CASE call_fails(r)
  <2>1. q.pc \in Calls /\ Goto(r, AfterCall(q, FALSE)) /\ row' = row /\ sched' = sched
    BY <1>7 DEF call_fails
  <2>2. PICK pc \in Active \cup {"ok", "error"} : pc = AfterCall(q, FALSE)
    BY <1>2, <2>1 DEF AfterCall, Active, Calls
  <2>3. AfterCall(q, FALSE) = "ok"
    BY <1>1, <2>1, <2>2, GotoMoves DEF IInv, Moves
  <2>4. q.op = "create" /\ q.pc = "call_pause"
    BY <1>2, <2>1, <2>3 DEF AfterCall, ReqOk, Calls, Op
  <2>5. /\ q.ask.state # "on" /\ sched[s] # Gone
        /\ sched[s].spec = q.ask.spec /\ sched[s].tz = q.ask.tz
        /\ row[s] = [spec |-> q.ask.spec, tz |-> q.ask.tz, state |-> q.ask.state]
    BY <1>3, <2>4 DEF Progress
  <2>6. q.ask.state = "off"
    BY <1>2, <2>4, <2>5 DEF ReqOk, State
  <2>7. "create" \in hist'.struck[s]
    <3>1. hist \in [used : SUBSET Schedule, deleted : SUBSET Schedule,
                    struck : [Schedule -> SUBSET Op], faults : 0 .. MaxFaults]
      BY DEF IInv, TypeInv
    <3>2. hist'.struck = [hist.struck EXCEPT ![s] = @ \cup {q.op}]
      BY <1>7, <3>1 DEF call_fails, Struck
    <3> QED BY <2>4, <3>1, <3>2
  <2> QED BY <2>1, <2>4, <2>5, <2>6, <2>7 DEF Settled
<1> QED BY <1>1, <1>5, <1>6, <1>7, OnlyOwnAnswer

\* A request of schedules.rs that had its schedule to itself and was answered
\* with success leaves the row and the Temporal schedule with the spec and the
\* paused or running state it asked for, whatever earlier faults and races had
\* left there; a creation also leaves its time zone in both.  Nothing is said
\* of a time zone, overlap policy or catchup window an update asks for, nor of
\* a creation asked for paused whose pause a fault struck.
THEOREM SoloRequestSettlesHolds == Spec => SoloRequestSettles
<1> DEFINE A == \A r \in Request :
                   req[r].alone /\ req'[r].pc = "ok" =>
                      Settled(req[r], row'[req[r].id], sched'[req[r].id], hist'.struck[req[r].id])
<1>1. IInv /\ [Next]_vars => [A]_vars
  BY SoloSettles
<1> QED BY <1>1, Invariance, PTL DEF Spec, SoloRequestSettles
=============================================================================
