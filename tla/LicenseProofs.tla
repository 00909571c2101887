---------------------------- MODULE LicenseProofs ----------------------------
(***************************************************************************)
(* Proofs about module License: for any number of replicas and faults and  *)
(* every choice of the intervals, a revocation takes effect within the     *)
(* grace period (within the heartbeat interval, if calls succeed), a       *)
(* replica is blocked only if the server refuses, and there is one trial.  *)
(***************************************************************************)
EXTENDS License, TLAPS

-----------------------------------------------------------------------------
(* The inductive invariant. *)

Phase == {"down", "booting", "up"}
Rep == [phase : Phase, doc : Doc \cup {NoDoc}, revoked : BOOLEAN, attempt : Time \cup {Never},
        error : BOOLEAN, seen : BOOLEAN]
Pc == {"idle", "asked", "granted", "denied", "persisted", "unpersisted"}
Task == [pc : Pc, doc : Doc \cup {NoDoc}]
ServerRec == [revocations : SUBSET (Kind \cup {"*"}), trial : [expires : Nat, revoked : BOOLEAN]]
Used == [admin : Nat, faults : Nat]
Hist == [revokedAt : [Kind -> Time], refusedAt : Time, lost : BOOLEAN, failed : [Replica -> BOOLEAN],
         signed : SUBSET Time]

\* Every place a license is kept in.
Copies == {store, mounted} \cup {rep[r].doc : r \in Replica}
                           \cup {task[r][j].doc : r \in Replica, j \in Job}

\* A copy was attested no later than its kind was revoked, and a trial's copy
\* has the end the server has on record or the vendor gave it by hand.
DocOk(d) ==
    /\ d.issued <= now
    /\ d.requires_heartbeat /\ RevokedFor(server, d.kind) => d.issued <= hist.revokedAt[d.kind]
    /\ ~hist.lost /\ d.kind = "trial" =>
          \/ d.expires = server.trial.expires /\ d.expires # 0
          \/ d.expires \in hist.signed

CopyInv == \A d \in Copies : d.kind \in Kind => DocOk(d)

ServerInv == server.trial.revoked => server.trial.expires # 0

\* A replica in state s, with its calls t and f for "the last heartbeat
\* failed": an error is a denial or a failure, and a denial is an answer to
\* the last attempt.
RepOk(s, t, f) ==
    /\ s.phase = "down" => ~s.revoked /\ ~s.error /\ \A j \in Job : t[j].pc = "idle"
    /\ s.error => s.revoked \/ f
    /\ s.revoked /\ ~f /\ t["tick"].pc = "idle" => s.attempt <= hist.refusedAt
    /\ s.attempt <= now
    /\ t["tick"].pc = "denied" => hist.refusedAt = now
    /\ t["tick"].pc = "asked" => t["tick"].doc.kind \in Kind

RepInv == \A r \in Replica : RepOk(rep[r], task[r], hist.failed[r])

IInv == TypeOK /\ CopyInv /\ ServerInv /\ RepInv

-----------------------------------------------------------------------------
(* Facts the steps share. *)

\* The type invariant in the terms used here.
LEMMA Types ==
    TypeOK <=>
       /\ now \in Nat
       /\ store \in Doc \cup {NoDoc, Rejected}
       /\ mounted \in Doc \cup {NoDoc}
       /\ server \in [revocations : SUBSET (Kind \cup {"*"}), trial : [expires : Nat, revoked : BOOLEAN]]
       /\ rep \in [Replica -> Rep]
       /\ task \in [Replica -> [Job -> Task]]
       /\ used \in Used
       /\ hist \in Hist
BY DEF TypeOK, Rep, Phase, Task, Pc, Used, Hist, Time

\* The kind of a document tells what it is.
LEMMA DocKinds ==
    /\ \A d \in Doc : d.kind \in Kind /\ d.issued \in Nat /\ d.expires \in Nat
                      /\ d.requires_heartbeat \in BOOLEAN
    /\ NoDoc.kind \notin Kind /\ Rejected.kind \notin Kind /\ NoDoc.requires_heartbeat = FALSE
BY DEF Doc, NoDoc, Rejected, Kind, Time

\* A step of replica r, which keeps to licenses there are copies of.
LEMMA ReplicaMoves ==
    ASSUME IInv, NEW r \in Replica, NEW s \in Rep, NEW t \in [Job -> Task], NEW f \in BOOLEAN,
           rep' = [rep EXCEPT ![r] = s],
           task' = [task EXCEPT ![r] = t],
           hist' = [hist EXCEPT !.failed = [hist.failed EXCEPT ![r] = f]],
           UNCHANGED <<now, store, mounted, server>>, used' \in Used,
           s.doc \in Copies \cup {NoDoc}, \A j \in Job : t[j].doc \in Copies \cup {NoDoc},
           RepOk(s, t, f)
    PROVE  IInv'
<1>1. rep \in [Replica -> Rep] /\ task \in [Replica -> [Job -> Task]] /\ hist \in Hist
  BY Types DEF IInv
<1>2. /\ hist' \in Hist /\ hist'.revokedAt = hist.revokedAt /\ hist'.lost = hist.lost /\ hist'.signed = hist.signed
      /\ hist'.refusedAt = hist.refusedAt
      /\ hist'.failed = [hist.failed EXCEPT ![r] = f]
  BY <1>1 DEF Hist
<1>3. /\ rep' \in [Replica -> Rep] /\ task' \in [Replica -> [Job -> Task]]
      /\ rep'[r] = s /\ task'[r] = t /\ hist'.failed[r] = f
      /\ \A x \in Replica \ {r} :
            rep'[x] = rep[x] /\ task'[x] = task[x] /\ hist'.failed[x] = hist.failed[x]
  BY <1>1, <1>2 DEF Hist
<1>4. TypeOK'
  BY <1>2, <1>3, Types DEF IInv, TypeOK, Rep, Phase, Task, Pc, Used, Hist, Time
<1>5. CopyInv'
  <2> SUFFICES ASSUME NEW d \in Copies', d.kind \in Kind PROVE DocOk(d)'
    BY DEF CopyInv
  <2>1. d \in Copies
    <3>1. d # NoDoc
      BY DocKinds
    <3>2. \/ d \in {store, mounted}
          \/ \E x \in Replica : d = rep'[x].doc
          \/ \E x \in Replica, j \in Job : d = task'[x][j].doc
      BY DEF Copies
    <3> QED BY <1>3, <3>1, <3>2 DEF Copies
  <2>2. DocOk(d)
    BY <2>1 DEF IInv, CopyInv
  <2> QED BY <1>2, <2>2 DEF DocOk
<1>6. RepInv'
  <2>1. \A x \in Replica : RepOk(rep'[x], task'[x], hist'.failed[x])
    BY <1>3 DEF IInv, RepInv
  <2> QED BY <1>2, <2>1 DEF RepInv, RepOk
<1>7. ServerInv'
  BY DEF IInv, ServerInv
<1> QED BY <1>4, <1>5, <1>6, <1>7 DEF IInv

\* What is known of a replica and its calls.
LEMMA ReplicaTypes ==
    ASSUME IInv, NEW r \in Replica
    PROVE  /\ rep[r] \in Rep /\ task[r] \in [Job -> Task] /\ hist.failed[r] \in BOOLEAN
           /\ rep[r].doc \in Copies /\ \A j \in Job : task[r][j] \in Task /\ task[r][j].doc \in Copies
           /\ RepOk(rep[r], task[r], hist.failed[r])
           /\ rep[r].revoked \in BOOLEAN /\ rep[r].error \in BOOLEAN /\ rep[r].seen \in BOOLEAN
           /\ rep[r].attempt \in Nat \cup {Never}
           /\ store \in Copies /\ mounted \in Copies
           /\ hist = [hist EXCEPT !.failed = [hist.failed EXCEPT ![r] = hist.failed[r]]]
           /\ rep = [rep EXCEPT ![r] = rep[r]] /\ task = [task EXCEPT ![r] = task[r]]
<1>1. rep \in [Replica -> Rep] /\ task \in [Replica -> [Job -> Task]] /\ hist \in Hist
  BY Types DEF IInv
<1>2. hist = [hist EXCEPT !.failed = [hist.failed EXCEPT ![r] = hist.failed[r]]]
  <2>1. hist.failed = [hist.failed EXCEPT ![r] = hist.failed[r]]
    BY <1>1 DEF Hist
  <2> QED BY <1>1, <2>1 DEF Hist
<1>3. RepOk(rep[r], task[r], hist.failed[r])
  BY DEF IInv, RepInv
<1>4. rep[r].doc \in Copies /\ \A j \in Job : task[r][j].doc \in Copies
  BY DEF Copies
<1>5. store \in Copies /\ mounted \in Copies
  BY DEF Copies
<1> QED BY <1>1, <1>2, <1>3, <1>4, <1>5 DEF Rep, Hist, Time

\* activate replaces the license and forgets what was wrong with the old one.
LEMMA Activated ==
    ASSUME NEW s \in Rep, NEW d \in Doc \cup {NoDoc}, NEW seen \in BOOLEAN
    PROVE  /\ activate(s, d, seen) \in Rep /\ activate(s, d, seen).doc = d
           /\ ~activate(s, d, seen).revoked /\ ~activate(s, d, seen).error
           /\ activate(s, d, seen).attempt = s.attempt /\ activate(s, d, seen).phase = s.phase
BY DEF activate, Rep

\* A stopped replica has no license and nothing held against it.
LEMMA DownIsRep ==
    Down \in Rep /\ Down.attempt = Never /\ ~Down.error /\ ~Down.revoked /\ Down.doc = NoDoc
BY DEF Down, Rep, Phase

\* A call moves on.
LEMMA StepTask ==
    ASSUME IInv, NEW r \in Replica, NEW j \in Job, NEW pc \in Pc, NEW d \in Doc \cup {NoDoc},
           Step(r, j, pc, d)
    PROVE  \E t \in [Job -> Task] : /\ task' = [task EXCEPT ![r] = t] /\ t[j].pc = pc /\ t[j].doc = d
                                    /\ \A k \in Job \ {j} : t[k] = task[r][k]
<1>1. task[r] \in [Job -> Task] /\ task \in [Replica -> [Job -> Task]]
  BY Types DEF IInv
<1>2. [pc |-> pc, doc |-> d] \in Task
  BY DEF Task
<1> DEFINE t == [task[r] EXCEPT ![j] = [pc |-> pc, doc |-> d]]
<1>3. /\ task' = [task EXCEPT ![r] = t] /\ t \in [Job -> Task] /\ t[j].pc = pc /\ t[j].doc = d
      /\ \A k \in Job \ {j} : t[k] = task[r][k]
  BY <1>1, <1>2 DEF Step
<1> HIDE DEF t
<1> QED BY <1>3

\* A license that passes verification is a document.
LEMMA VerifiedIsDoc ==
    ASSUME IInv
    PROVE  /\ load_and_verify(store) => store \in Doc
           /\ load_and_verify(mounted) => mounted \in Doc
BY Types, DocKinds DEF IInv, load_and_verify

\* What reload_store_if_changed makes of a replica.
LEMMA Reloaded ==
    ASSUME IInv, NEW r \in Replica, NEW s, s = reload_store_if_changed(rep[r])
    PROVE  /\ s \in Rep /\ s.attempt = rep[r].attempt /\ s.phase = rep[r].phase
           /\ s.doc \in {store, rep[r].doc} /\ s.doc \in Doc \cup {NoDoc}
           /\ s.error => rep[r].error /\ s.revoked = rep[r].revoked
           /\ s.revoked => rep[r].revoked
<1>1. rep[r] \in Rep
  BY ReplicaTypes
<1>2. CASE s = rep[r]
  BY <1>1, <1>2 DEF Rep
<1>3. CASE load_and_verify(store) /\ s = activate(rep[r], store, TRUE)
  <2>1. store \in Doc
    BY <1>3, VerifiedIsDoc
  <2> QED BY <1>1, <1>3, <2>1 DEF activate, Rep
<1>4. CASE s = [rep[r] EXCEPT !.seen = TRUE]
  BY <1>1, <1>4 DEF Rep
<1> QED BY <1>2, <1>3, <1>4 DEF reload_store_if_changed

-----------------------------------------------------------------------------
(* The steps of a replica. *)

\* enforce_at_startup keeps the invariant: what it loads is a copy already.
LEMMA BootStep ==
    ASSUME IInv, NEW r \in Replica, Boot(r)
    PROVE  IInv'
<1>1. /\ rep[r].phase = "down" /\ UNCHANGED <<now, store, mounted, server, used>> /\ used \in Used
      /\ now \in Nat /\ hist \in Hist /\ Replica # {}
      /\ hist' = [hist EXCEPT !.failed = [hist.failed EXCEPT ![r] = FALSE]]
  BY Types DEF Boot, IInv, Hist
<1>2. /\ rep[r] \in Rep /\ task[r] \in [Job -> Task] /\ RepOk(rep[r], task[r], hist.failed[r])
      /\ ~rep[r].revoked /\ ~rep[r].error /\ \A j \in Job : task[r][j].pc = "idle"
      /\ rep[r].attempt <= now /\ rep[r].doc \in Copies /\ \A j \in Job : task[r][j].doc \in Copies
  BY <1>1, ReplicaTypes DEF RepOk
<1>3. \A j \in Job : task[r][j].pc \notin {"asked", "denied"}
  BY <1>2
<1>4. ASSUME NEW d \in {mounted, store}, load_and_verify(d), NEW seen \in BOOLEAN,
             rep' = [rep EXCEPT ![r] = activate([Down EXCEPT !.phase = "up"], d, seen)], UNCHANGED task
      PROVE  IInv'
  <2>1. d \in Doc /\ d \in Copies
    BY <1>4, VerifiedIsDoc, ReplicaTypes
  <2>2. [Down EXCEPT !.phase = "up"] \in Rep /\ [Down EXCEPT !.phase = "up"].attempt = Never
        /\ [Down EXCEPT !.phase = "up"].phase = "up"
    BY DownIsRep DEF Rep, Phase
  <2> PICK s : s = activate([Down EXCEPT !.phase = "up"], d, seen)
    OBVIOUS
  <2>4. /\ s \in Rep /\ s.doc = d
        /\ ~s.revoked /\ ~s.error /\ s.attempt = Never /\ s.phase = "up"
    BY <1>4, <2>1, <2>2, Activated
  <2>3. RepOk(s, task[r], FALSE)
    BY <1>1, <1>3, <2>4 DEF RepOk, Never, Job
  <2> QED BY <1>1, <1>2, <1>4, <2>1, <2>3, <2>4, ReplicaTypes, ReplicaMoves
<1>5. ASSUME NEW ph \in {"up", "booting"}, rep' = [rep EXCEPT ![r].phase = ph],
             NEW t \in [Job -> Task], task' = [task EXCEPT ![r] = t],
             t["tick"] = task[r]["tick"], \A j \in Job : t[j].doc \in Copies \cup {NoDoc}
      PROVE  IInv'
  <2>0. rep \in [Replica -> Rep]
    BY Types DEF IInv
  <2> PICK s : s = [rep[r] EXCEPT !.phase = ph]
    OBVIOUS
  <2>3. /\ s \in Rep /\ s.phase = ph /\ s.doc = rep[r].doc
        /\ ~s.revoked /\ ~s.error /\ s.attempt = rep[r].attempt
    BY <1>2 DEF Rep, Phase
  <2>1. rep' = [rep EXCEPT ![r] = s]
    BY <1>5, <2>0
  <2>2. RepOk(s, t, FALSE)
    BY <1>2, <1>3, <1>5, <2>3 DEF RepOk, Job
  <2> QED BY <1>1, <1>2, <1>5, <2>1, <2>2, <2>3, ReplicaMoves
<1>6. CASE load_and_verify(mounted)
  BY <1>4, <1>6 DEF Boot
<1>7. CASE ~load_and_verify(mounted) /\ load_and_verify(store)
  BY <1>4, <1>7 DEF Boot
<1>8. CASE rep' = [rep EXCEPT ![r].phase = "up"] /\ UNCHANGED task
  BY <1>2, <1>5, <1>8, ReplicaTypes
<1>9. CASE rep' = [rep EXCEPT ![r].phase = "booting"] /\ Step(r, "trial", "asked", NoDoc)
  <2>1. PICK t \in [Job -> Task] : /\ task' = [task EXCEPT ![r] = t] /\ t["trial"].doc = NoDoc
                                   /\ \A k \in Job \ {"trial"} : t[k] = task[r][k]
    BY <1>9, StepTask DEF Job, Pc
  <2>3. t["tick"] = task[r]["tick"]
    BY <2>1 DEF Job
  <2>2. \A j \in Job : t[j].doc \in Copies \cup {NoDoc}
    BY <1>2, <2>1, <2>3 DEF Job
  <2> QED BY <1>5, <1>9, <2>1, <2>2, <2>3
<1> QED BY <1>6, <1>7, <1>8, <1>9 DEF Boot

\* A crash keeps the invariant; the calls under way are gone.
LEMMA CrashStep ==
    ASSUME IInv, NEW r \in Replica, Crash(r)
    PROVE  IInv'
<1>0. Idle \in Task /\ Idle.pc = "idle" /\ Idle.doc = NoDoc
  BY DEF Idle, Task, Pc
<1>1. PICK t \in [Job -> Task] : /\ task' = [task EXCEPT ![r] = t]
                                /\ \A j \in Job : t[j].pc = "idle" /\ t[j].doc = NoDoc
  <2> DEFINE u == [j \in Job |-> Idle]
  <2>1. u \in [Job -> Task] /\ task' = [task EXCEPT ![r] = u]
    BY <1>0 DEF Crash
  <2>2. \A j \in Job : u[j].pc = "idle" /\ u[j].doc = NoDoc
    BY <1>0
  <2> HIDE DEF u
  <2> QED BY <2>1, <2>2
<1>2. PICK s \in Rep : /\ rep' = [rep EXCEPT ![r] = s]
                      /\ s.attempt = Never /\ ~s.error /\ ~s.revoked /\ s.doc = NoDoc
  BY DownIsRep DEF Crash
<1>3. PICK f \in BOOLEAN : hist' = [hist EXCEPT !.failed = [hist.failed EXCEPT ![r] = f]]
  BY ReplicaTypes DEF Crash
<1>4. used' \in Used /\ now \in Nat /\ UNCHANGED <<now, store, mounted, server>>
  BY Types DEF Crash, Fault, IInv, Used
<1>5. RepOk(s, t, f)
  BY <1>1, <1>2, <1>4 DEF RepOk, Never, Job
<1> QED BY <1>1, <1>2, <1>3, <1>4, <1>5, ReplicaMoves

\* heartbeat_tick keeps the invariant, whether it adopts the store's license,
\* asks for a new attestation, or both.
LEMMA TickStep ==
    ASSUME IInv, NEW r \in Replica, heartbeat_tick(r)
    PROVE  IInv'
<1> PICK s : s = reload_store_if_changed(rep[r])
  OBVIOUS
<1>1. /\ s \in Rep /\ s.attempt = rep[r].attempt /\ s.phase = rep[r].phase
      /\ s.doc \in {store, rep[r].doc} /\ s.doc \in Doc \cup {NoDoc}
      /\ s.error => rep[r].error /\ s.revoked = rep[r].revoked
      /\ s.revoked => rep[r].revoked
  BY Reloaded
<1>2. /\ rep[r].phase = "up" /\ task[r]["tick"].pc = "idle" /\ hist' = hist
      /\ UNCHANGED <<now, store, mounted, server>> /\ used' = used /\ used \in Used /\ now \in Nat
  BY Types DEF heartbeat_tick, NeedsTick, IInv
<1>3. /\ RepOk(rep[r], task[r], hist.failed[r]) /\ task[r] \in [Job -> Task] /\ hist.failed[r] \in BOOLEAN
      /\ s.doc \in Copies /\ \A j \in Job : task[r][j].doc \in Copies
  BY <1>1, ReplicaTypes
<1>6. hist' = [hist EXCEPT !.failed = [hist.failed EXCEPT ![r] = hist.failed[r]]] /\ task = [task EXCEPT ![r] = task[r]]
  BY <1>2, ReplicaTypes
<1>4. CASE heartbeat_due(s)
  <2> PICK n : n = [s EXCEPT !.attempt = now]
    OBVIOUS
  <2>1. /\ n \in Rep /\ n.attempt = now /\ n.doc = s.doc /\ n.phase = "up"
        /\ n.error = s.error /\ n.revoked = s.revoked
    BY <1>1, <1>2 DEF Rep, Time
  <2>2. /\ Step(r, "tick", "asked", s.doc) /\ rep' = [rep EXCEPT ![r] = n]
    BY <1>4 DEF heartbeat_tick
  <2>3. PICK t \in [Job -> Task] : /\ task' = [task EXCEPT ![r] = t] /\ t["tick"].pc = "asked"
                                   /\ t["tick"].doc = s.doc /\ \A k \in Job \ {"tick"} : t[k] = task[r][k]
    BY <1>1, <2>2, StepTask DEF Job, Pc
  <2>4. s.doc.kind \in Kind
    BY <1>1, <1>4, DocKinds DEF heartbeat_due
  <2>5. RepOk(n, t, hist.failed[r])
    BY <1>1, <1>2, <1>3, <2>1, <2>3, <2>4 DEF RepOk
  <2>6. \A j \in Job : t[j].doc \in Copies
    BY <1>3, <2>3 DEF Job
  <2> QED BY <1>2, <1>3, <2>1, <2>2, <2>3, <2>5, <2>6, <1>6, ReplicaMoves
<1>5. CASE ~heartbeat_due(s)
  <2>1. rep' = [rep EXCEPT ![r] = s] /\ task' = task
    BY <1>5 DEF heartbeat_tick
  <2>2. RepOk(s, task[r], hist.failed[r])
    BY <1>1, <1>2, <1>3 DEF RepOk
  <2> QED BY <1>1, <1>2, <1>3, <1>6, <2>1, <2>2, ReplicaMoves
<1> QED BY <1>4, <1>5

\* POST /license/trial keeps the invariant.
LEMMA TrialStep ==
    ASSUME IInv, NEW r \in Replica, start_trial(r)
    PROVE  IInv'
<1>1. PICK t \in [Job -> Task] : /\ task' = [task EXCEPT ![r] = t] /\ t["trial"].doc = NoDoc
                                 /\ \A k \in Job \ {"trial"} : t[k] = task[r][k]
  BY StepTask DEF start_trial, Job, Pc
<1>2. /\ rep[r] \in Rep /\ rep[r].phase = "up" /\ RepOk(rep[r], task[r], hist.failed[r])
      /\ rep' = [rep EXCEPT ![r] = rep[r]] /\ hist.failed[r] \in BOOLEAN
      /\ hist' = [hist EXCEPT !.failed = [hist.failed EXCEPT ![r] = hist.failed[r]]]
      /\ rep[r].doc \in Copies /\ task[r]["tick"].doc \in Copies
  BY ReplicaTypes DEF start_trial, Job
<1>3. used' \in Used /\ UNCHANGED <<now, store, mounted, server>>
  BY Types DEF start_trial, Admin, IInv, Used
<1>4. RepOk(rep[r], t, hist.failed[r])
  BY <1>1, <1>2 DEF RepOk, Job
<1>5. \A j \in Job : t[j].doc \in Copies \cup {NoDoc}
  BY <1>1, <1>2 DEF Job
<1> QED BY <1>1, <1>2, <1>3, <1>4, <1>5, ReplicaMoves

\* The end of a call: the replica goes to s and its call is idle.
LEMMA CallEnds ==
    ASSUME IInv, NEW r \in Replica, NEW j \in Job, task[r][j].pc # "idle",
           NEW s \in Rep, NEW f \in BOOLEAN,
           rep' = [rep EXCEPT ![r] = s], Step(r, j, "idle", NoDoc),
           hist' = [hist EXCEPT !.failed = [hist.failed EXCEPT ![r] = f]],
           UNCHANGED <<now, store, mounted, server, used>>,
           s.doc \in Copies, s.attempt = rep[r].attempt, s.phase # "down",
           s.error => s.revoked \/ f,
           s.revoked /\ ~f =>
              \/ j = "tick" /\ s.attempt <= hist.refusedAt
              \/ j = "trial" /\ rep[r].revoked /\ ~hist.failed[r]
    PROVE  IInv'
<1>1. PICK t \in [Job -> Task] : /\ task' = [task EXCEPT ![r] = t] /\ t[j].doc = NoDoc /\ t[j].pc = "idle"
                                 /\ \A k \in Job \ {j} : t[k] = task[r][k]
  BY StepTask DEF Pc
<1>2. RepOk(rep[r], task[r], hist.failed[r]) /\ \A k \in Job : task[r][k].doc \in Copies
  BY ReplicaTypes
<1>3. used' \in Used
  BY Types DEF IInv
<1>4. RepOk(s, t, f)
  <2>1. CASE j = "tick"
    BY <1>1, <1>2, <2>1 DEF RepOk, Job
  <2>2. CASE j = "trial"
    <3>1. t["tick"] = task[r]["tick"]
      BY <1>1, <2>2 DEF Job
    <3> QED BY <1>1, <1>2, <2>2, <3>1 DEF RepOk, Job
  <2> QED BY <2>1, <2>2 DEF Job
<1>5. \A k \in Job : t[k].doc \in Copies \cup {NoDoc}
  BY <1>1, <1>2
<1> QED BY <1>1, <1>3, <1>4, <1>5, ReplicaMoves

\* The three ends of a call keep the invariant: the answer is activated, the
\* replica learns of a refusal, or the call fails.
LEMMA CallSteps ==
    ASSUME IInv, NEW r \in Replica, NEW j \in Job, Activate(r, j) \/ Refused(r, j) \/ Unavailable(r, j)
    PROVE  IInv'
<1>0. /\ rep[r] \in Rep /\ task[r][j] \in Task /\ hist \in Hist /\ rep \in [Replica -> Rep]
      /\ hist.failed[r] \in BOOLEAN /\ now \in Nat
      /\ rep[r].doc \in Copies /\ task[r][j].doc \in Copies /\ RepOk(rep[r], task[r], hist.failed[r])
  BY ReplicaTypes, Types DEF IInv
<1>1. task[r][j].pc # "idle" /\ Step(r, j, "idle", NoDoc) /\ UNCHANGED <<now, store, mounted, server, used>>
  BY DEF Activate, Refused, Unavailable
<1>2. rep[r].phase # "down"
  BY <1>0, <1>1 DEF RepOk
<1>3. CASE Activate(r, j)
  <2> DEFINE n == [activate(rep[r], task[r][j].doc, rep[r].seen \/ task[r][j].pc = "persisted")
                     EXCEPT !.phase = "up"]
             g == hist.failed[r] /\ j = "trial"
  <2>1. /\ n \in Rep /\ n.phase = "up" /\ ~n.revoked /\ ~n.error /\ n.attempt = rep[r].attempt
        /\ n.doc = task[r][j].doc
    BY <1>0 DEF activate, Rep, Phase, Task
  <2>2. rep' = [rep EXCEPT ![r] = n] /\ g \in BOOLEAN
    BY <1>0, <1>3 DEF Activate
  <2>3. hist' = [hist EXCEPT !.failed = [hist.failed EXCEPT ![r] = g]]
    BY <1>0, <1>3 DEF Activate, Hist
  <2> HIDE DEF n, g
  <2> QED BY <1>0, <1>1, <2>1, <2>2, <2>3, CallEnds
<1>4. CASE Refused(r, j)
  <2>0. j = "tick" => rep[r].attempt <= hist.refusedAt
    BY <1>0, <1>4 DEF Refused, RepOk
  <2> DEFINE n == IF j = "tick" THEN [rep[r] EXCEPT !.revoked = TRUE, !.error = TRUE]
                                ELSE [rep[r] EXCEPT !.phase = "up"]
             g == hist.failed[r] /\ j = "trial"
  <2>1. /\ n \in Rep /\ n.phase # "down" /\ n.attempt = rep[r].attempt /\ n.doc = rep[r].doc
        /\ j = "tick" => n.revoked
        /\ j = "trial" => n.revoked = rep[r].revoked /\ n.error = rep[r].error
    BY <1>0, <1>2 DEF Rep, Phase
  <2>2. rep' = [rep EXCEPT ![r] = n] /\ g \in BOOLEAN
    BY <1>0, <1>4 DEF Refused
  <2>3. hist' = [hist EXCEPT !.failed = [hist.failed EXCEPT ![r] = g]]
    BY <1>0, <1>4 DEF Refused, Hist
  <2>4. j = "trial" => (g <=> hist.failed[r])
    OBVIOUS
  <2> HIDE DEF n, g
  <2>5. n.error => n.revoked \/ g
    BY <1>0, <2>1, <2>4 DEF RepOk, Job
  <2>6. n.revoked /\ ~g => \/ j = "tick" /\ n.attempt <= hist.refusedAt
                           \/ j = "trial" /\ rep[r].revoked /\ ~hist.failed[r]
    BY <2>0, <2>1, <2>4 DEF Job
  <2> QED BY <1>0, <1>1, <2>1, <2>2, <2>3, <2>5, <2>6, CallEnds
<1>5. CASE Unavailable(r, j)
  <2> DEFINE n == IF j = "tick" THEN [rep[r] EXCEPT !.error = TRUE] ELSE [rep[r] EXCEPT !.phase = "up"]
             g == hist.failed[r] \/ j = "tick"
  <2>1. /\ n \in Rep /\ n.phase # "down" /\ n.attempt = rep[r].attempt /\ n.doc = rep[r].doc
        /\ n.revoked = rep[r].revoked /\ (j = "trial" => n.error = rep[r].error)
    BY <1>0, <1>2 DEF Rep, Phase
  <2>2. rep' = [rep EXCEPT ![r] = n] /\ g \in BOOLEAN
    BY <1>0, <1>5 DEF Unavailable
  <2>3. hist' = [hist EXCEPT !.failed = [hist.failed EXCEPT ![r] = g]]
    BY <1>0, <1>5 DEF Unavailable, Hist
  <2>4. (j = "trial" => (g <=> hist.failed[r])) /\ (j = "tick" => g)
    OBVIOUS
  <2> HIDE DEF n, g
  <2>5. n.error => n.revoked \/ g
    BY <1>0, <2>1, <2>4 DEF RepOk, Job
  <2>6. n.revoked /\ ~g => \/ j = "tick" /\ n.attempt <= hist.refusedAt
                           \/ j = "trial" /\ rep[r].revoked /\ ~hist.failed[r]
    BY <2>1, <2>4 DEF Job
  <2> QED BY <1>0, <1>1, <2>1, <2>2, <2>3, <2>5, <2>6, CallEnds
<1> QED BY <1>3, <1>4, <1>5

\* The store is replaced by a replica's license or by an operator's.
LEMMA StoreReplaced ==
    ASSUME IInv, NEW file \in Doc \cup {NoDoc, Rejected}, store' = file, rep' = Unseen,
           UNCHANGED <<now, mounted, server>>, used' \in Used,
           hist' \in Hist, hist'.revokedAt = hist.revokedAt, hist'.lost = hist.lost,
           hist'.refusedAt = hist.refusedAt, hist'.failed = hist.failed,
           hist.signed \subseteq hist'.signed,
           task' \in [Replica -> [Job -> Task]],
           \A x \in Replica, j \in Job : task'[x][j].doc \in Copies \cup {NoDoc},
           \A x \in Replica : RepOk(rep[x], task'[x], hist.failed[x]),
           file.kind \in Kind => DocOk(file)'
    PROVE  IInv'
<1>1. ASSUME NEW x \in Replica
      PROVE  /\ rep'[x] \in Rep /\ rep'[x].doc = rep[x].doc /\ rep'[x].phase = rep[x].phase
             /\ rep'[x].revoked = rep[x].revoked /\ rep'[x].error = rep[x].error
             /\ rep'[x].attempt = rep[x].attempt
  <2>1. rep[x] \in Rep
    BY ReplicaTypes
  <2>2. rep'[x] = [rep[x] EXCEPT !.seen = FALSE]
    BY DEF Unseen
  <2> QED BY <2>1, <2>2 DEF Rep
<1>2. rep' \in [Replica -> Rep]
  <2>1. rep' = [x \in Replica |-> rep'[x]]
    BY DEF Unseen
  <2> QED BY <1>1, <2>1
<1>3. TypeOK'
  BY <1>2, Types DEF IInv, TypeOK, Rep, Phase, Task, Pc, Used, Hist, Time
<1>4. CopyInv'
  <2> SUFFICES ASSUME NEW d \in Copies', d.kind \in Kind PROVE DocOk(d)'
    BY DEF CopyInv
  <2>1. d = file \/ d \in Copies
    <3>1. d # NoDoc
      BY DocKinds
    <3>2. \/ d \in {file, mounted}
          \/ \E x \in Replica : d = rep'[x].doc
          \/ \E x \in Replica, j \in Job : d = task'[x][j].doc
      BY DEF Copies
    <3> QED BY <1>1, <3>1, <3>2 DEF Copies
  <2>2. CASE d = file
    BY <2>2
  <2>3. CASE d \in Copies
    <3>1. DocOk(d)
      BY <2>3 DEF IInv, CopyInv
    <3> QED BY <3>1 DEF DocOk
  <2> QED BY <2>1, <2>2, <2>3
<1>5. RepInv'
  <2>1. ASSUME NEW x \in Replica PROVE RepOk(rep'[x], task'[x], hist.failed[x])
    BY <1>1 DEF RepOk
  <2> QED BY <2>1 DEF RepInv, RepOk
<1>6. ServerInv'
  BY DEF IInv, ServerInv
<1> QED BY <1>3, <1>4, <1>5, <1>6 DEF IInv

\* persist_license keeps the invariant, written or not.
LEMMA PersistStep ==
    ASSUME IInv, NEW r \in Replica, NEW j \in Job, persist_license(r, j)
    PROVE  IInv'
<1> PICK d : d = task[r][j].doc
  OBVIOUS
<1>0. /\ task[r][j].pc = "granted" /\ UNCHANGED <<now, mounted, server, hist>>
      /\ task \in [Replica -> [Job -> Task]] /\ used \in Used
  BY Types DEF persist_license, IInv
<1>1. /\ d \in Doc \cup {NoDoc} /\ d \in Copies /\ RepOk(rep[r], task[r], hist.failed[r])
      /\ \A x \in Replica, k \in Job : task[x][k].doc \in Copies
      /\ \A x \in Replica : RepOk(rep[x], task[x], hist.failed[x])
  BY ReplicaTypes DEF Task
<1>2. d.kind \in Kind => DocOk(d)
  BY <1>1 DEF IInv, CopyInv
<1>3. ASSUME NEW pc \in {"persisted", "unpersisted", "denied"}, NEW e \in {d, NoDoc}, Step(r, j, pc, e),
             pc = "denied" => j = "trial"
      PROVE  \E t \in [Job -> Task] :
                /\ task' = [task EXCEPT ![r] = t] /\ RepOk(rep[r], t, hist.failed[r])
                /\ \A k \in Job : t[k].doc \in Copies \cup {NoDoc}
  <2>1. PICK t \in [Job -> Task] : /\ task' = [task EXCEPT ![r] = t] /\ t[j].doc = e /\ t[j].pc = pc
                                   /\ \A k \in Job \ {j} : t[k] = task[r][k]
    BY <1>1, <1>3, StepTask DEF Pc
  <2>2. RepOk(rep[r], t, hist.failed[r])
    <3>1. CASE j = "tick"
      BY <1>0, <1>1, <1>3, <2>1, <3>1 DEF RepOk, Job
    <3>2. CASE j = "trial"
      <4>1. t["tick"] = task[r]["tick"]
        BY <2>1, <3>2 DEF Job
      <4> QED BY <1>0, <1>1, <2>1, <3>2, <4>1 DEF RepOk, Job
    <3> QED BY <3>1, <3>2 DEF Job
  <2>3. \A k \in Job : t[k].doc \in Copies \cup {NoDoc}
    BY <1>1, <2>1
  <2> QED BY <2>1, <2>2, <2>3
<1>4. CASE store' = d /\ rep' = Unseen /\ Step(r, j, "persisted", d) /\ UNCHANGED used
  <2>1. PICK t \in [Job -> Task] :
                /\ task' = [task EXCEPT ![r] = t] /\ RepOk(rep[r], t, hist.failed[r])
                /\ \A k \in Job : t[k].doc \in Copies \cup {NoDoc}
    BY <1>3, <1>4
  <2>2. /\ task' \in [Replica -> [Job -> Task]]
        /\ \A x \in Replica : task'[x] = IF x = r THEN t ELSE task[x]
    BY <1>0, <2>1
  <2>3. \A x \in Replica, k \in Job : task'[x][k].doc \in Copies \cup {NoDoc}
    BY <1>1, <2>1, <2>2
  <2>4. \A x \in Replica : RepOk(rep[x], task'[x], hist.failed[x])
    BY <1>1, <2>1, <2>2
  <2>5. /\ hist' = hist /\ hist' \in Hist
        /\ d.kind \in Kind => DocOk(d)'
    BY <1>0, <1>2, Types DEF IInv, DocOk
  <2> QED BY <1>0, <1>1, <1>4, <2>2, <2>3, <2>4, <2>5, StoreReplaced
<1>5. CASE /\ Fault
           /\ IF j = "tick" THEN Step(r, j, "unpersisted", d) ELSE Step(r, j, "denied", NoDoc)
           /\ UNCHANGED <<store, rep>>
  <2>1. PICK t \in [Job -> Task] :
                /\ task' = [task EXCEPT ![r] = t] /\ RepOk(rep[r], t, hist.failed[r])
                /\ \A k \in Job : t[k].doc \in Copies \cup {NoDoc}
    BY <1>3, <1>5 DEF Job
  <2>2. used' \in Used
    BY <1>0, <1>5 DEF Fault, Used
  <2>3. /\ rep[r] \in Rep /\ hist.failed[r] \in BOOLEAN /\ rep[r].doc \in Copies
        /\ rep' = [rep EXCEPT ![r] = rep[r]]
        /\ hist' = [hist EXCEPT !.failed = [hist.failed EXCEPT ![r] = hist.failed[r]]]
    BY <1>0, <1>5, ReplicaTypes
  <2>4. UNCHANGED <<now, store, mounted, server>>
    BY <1>0, <1>5
  <2> QED BY <2>1, <2>2, <2>3, <2>4, ReplicaMoves
<1> QED BY <1>4, <1>5 DEF persist_license

\* A file put in the store keeps the invariant: the vendor signs for nobody it
\* has revoked.
LEMMA DeliverStep ==
    ASSUME IInv, NEW file, Deliver(file),
           file = Rejected \/ \E k \in Kind, hb \in BOOLEAN : file = license_sign(k, hb)
    PROVE  IInv'
<1>1. /\ now \in Nat /\ used \in Used /\ task \in [Replica -> [Job -> Task]] /\ hist \in Hist
  BY Types DEF IInv
<1>2. file = Rejected \/ (file \in Doc /\ file.issued = now)
  <2>1. ASSUME NEW k \in Kind, NEW hb \in BOOLEAN, NEW d, d = license_sign(k, hb)
        PROVE  d \in Doc /\ d.issued = now
    BY <1>1, <2>1, LicenseAssumption DEF license_sign, Doc, Time
  <2> QED BY <2>1
<1>3. file \in Doc \cup {NoDoc, Rejected}
  BY <1>2
<1>4. /\ store' = file /\ rep' = Unseen /\ UNCHANGED <<now, mounted, server>> /\ task' = task
      /\ file.kind \in Kind => ~RevokedFor(server, file.kind)
  BY DEF Deliver
<1>5. /\ hist' \in Hist /\ hist'.revokedAt = hist.revokedAt /\ hist'.lost = hist.lost
      /\ hist'.refusedAt = hist.refusedAt /\ hist'.failed = hist.failed
      /\ hist.signed \subseteq hist'.signed
      /\ file.kind = "trial" => file.expires \in hist'.signed
  <2>1. CASE file.kind = "trial"
    <3>1. hist' = [hist EXCEPT !.signed = hist.signed \cup {file.expires}]
      BY <2>1 DEF Deliver
    <3>2. file.expires \in Nat
      BY <1>2, <2>1, DocKinds DEF Kind
    <3> QED BY <1>1, <3>1, <3>2 DEF Hist, Time
  <2>2. CASE file.kind # "trial"
    BY <1>1, <2>2 DEF Deliver
  <2> QED BY <2>1, <2>2
<1>6. file.kind \in Kind => DocOk(file)'
  <2>1. file.kind \in Kind => file.issued = now
    BY <1>2, DocKinds
  <2>2. file.kind \in Kind => ~RevokedFor(server, file.kind)'
    BY <1>4 DEF RevokedFor
  <2> QED BY <1>1, <1>4, <1>5, <2>1, <2>2 DEF DocOk
<1>7. used' \in Used
  BY <1>1 DEF Deliver, Admin, Used
<1>8. /\ \A x \in Replica, j \in Job : task'[x][j].doc \in Copies \cup {NoDoc}
      /\ \A x \in Replica : RepOk(rep[x], task'[x], hist.failed[x])
  BY <1>4, ReplicaTypes
<1> QED BY <1>1, <1>3, <1>4, <1>5, <1>6, <1>7, <1>8, StoreReplaced

-----------------------------------------------------------------------------
(* The steps of the license server and of time. *)

\* The server answers replica r's call j with document d, or with none.
LEMMA Answered ==
    ASSUME IInv, NEW r \in Replica, NEW j \in Job, NEW pc \in {"granted", "denied"},
           NEW d \in Doc \cup {NoDoc}, Step(r, j, pc, d),
           UNCHANGED <<now, store, mounted, rep, used>>,
           hist' \in Hist, hist'.revokedAt = hist.revokedAt, hist'.lost = hist.lost,
           hist'.signed = hist.signed,
           hist'.failed = hist.failed, hist'.refusedAt \in {hist.refusedAt, now},
           j = "tick" /\ pc = "denied" => hist'.refusedAt = now,
           rep[r].phase # "down",
           server' \in [revocations : SUBSET (Kind \cup {"*"}), trial : [expires : Nat, revoked : BOOLEAN]],
           ServerInv',
           \A e \in Copies : e.kind \in Kind /\ DocOk(e) => DocOk(e)',
           d.kind \in Kind => DocOk(d)'
    PROVE  IInv'
<1>1. PICK t \in [Job -> Task] : /\ task' = [task EXCEPT ![r] = t] /\ t[j].doc = d /\ t[j].pc = pc
                                 /\ \A k \in Job \ {j} : t[k] = task[r][k]
  BY StepTask DEF Pc
<1>2. task \in [Replica -> [Job -> Task]] /\ hist \in Hist /\ now \in Nat
  BY Types DEF IInv
<1>3. task' \in [Replica -> [Job -> Task]] /\ \A x \in Replica : task'[x] = IF x = r THEN t ELSE task[x]
  BY <1>1, <1>2
<1>4. TypeOK'
  BY <1>3, Types DEF IInv, TypeOK, Rep, Phase, Task, Pc, Used, Hist, Time
<1>5. CopyInv'
  <2> SUFFICES ASSUME NEW e \in Copies', e.kind \in Kind PROVE DocOk(e)'
    BY DEF CopyInv
  <2>1. \/ e \in {store, mounted}
        \/ \E x \in Replica : e = rep[x].doc
        \/ \E x \in Replica, k \in Job : e = task'[x][k].doc
    BY DEF Copies
  <2>2. e = d \/ e \in Copies
    BY <1>1, <1>3, <2>1 DEF Copies
  <2> QED BY <2>2 DEF IInv, CopyInv
<1>6. RepInv'
  <2>0. hist.refusedAt \in Nat /\ hist'.refusedAt \in Nat
    BY <1>2 DEF Hist, Time
  <2>1. ASSUME NEW x \in Replica PROVE RepOk(rep[x], task[x], hist.failed[x])'
    <3>1. RepOk(rep[x], task[x], hist.failed[x]) /\ rep[x].attempt \in Nat \cup {Never}
      BY ReplicaTypes
    <3>2. hist'.refusedAt = now \/ hist'.refusedAt = hist.refusedAt
      OBVIOUS
    <3>3. CASE x # r
      <4>1. task'[x] = task[x]
        BY <1>3, <3>3
      <4> QED BY <1>2, <2>0, <3>1, <3>2, <4>1 DEF RepOk, Never
    <3>4. CASE x = r /\ j = "tick"
      <4>1. task'[x]["tick"].pc = pc
        BY <1>1, <1>3, <3>4
      <4> QED BY <1>2, <2>0, <3>1, <3>2, <3>4, <4>1 DEF RepOk
    <3>5. CASE x = r /\ j = "trial"
      <4>1. task'[x]["tick"] = task[x]["tick"]
        BY <1>1, <1>3, <3>5 DEF Job
      <4> QED BY <1>2, <2>0, <3>1, <3>2, <3>5, <4>1 DEF RepOk, Never
    <3> QED BY <3>3, <3>4, <3>5 DEF Job
  <2> QED BY <2>1 DEF RepInv
<1> QED BY <1>4, <1>5, <1>6 DEF IInv

\* What is known of the state a call of replica r is answered in.
LEMMA AskedTypes ==
    ASSUME IInv, NEW r \in Replica, NEW j \in Job, task[r][j].pc = "asked"
    PROVE  /\ now \in Nat /\ server \in ServerRec /\ hist \in Hist /\ ServerInv
           /\ server.trial.expires \in Nat /\ server.trial.revoked \in BOOLEAN
           /\ rep[r].phase # "down"
           /\ j = "tick" => task[r][j].doc \in Doc /\ DocOk(task[r][j].doc)
<1>1. now \in Nat /\ server \in ServerRec /\ hist \in Hist /\ ServerInv
  BY Types DEF IInv, ServerRec
<1>2. /\ RepOk(rep[r], task[r], hist.failed[r]) /\ task[r][j] \in Task /\ task[r][j].doc \in Copies
  BY ReplicaTypes
<1>3. rep[r].phase # "down"
  BY <1>2 DEF RepOk
<1>4. ASSUME j = "tick" PROVE task[r][j].doc \in Doc /\ DocOk(task[r][j].doc)
  <2>1. task[r][j].doc.kind \in Kind /\ task[r][j].doc \in Doc \cup {NoDoc}
    BY <1>2, <1>4 DEF RepOk, Task
  <2> QED BY <1>2, <2>1, DocKinds DEF IInv, CopyInv
<1>5. server.trial.expires \in Nat /\ server.trial.revoked \in BOOLEAN
  BY <1>1 DEF ServerRec
<1> QED BY <1>1, <1>3, <1>4, <1>5

\* The server's trial_start keeps the invariant: a trial on record keeps its
\* end, and a revoked one is refused.
LEMMA TrialStartStep ==
    ASSUME IInv, NEW r \in Replica, trial_start(r)
    PROVE  IInv'
<1>1. /\ task[r]["trial"].pc = "asked" /\ "trial" \in Job
      /\ UNCHANGED <<now, store, mounted, rep, used>> /\ hist' = hist
  BY DEF trial_start, Job
<1>2. /\ now \in Nat /\ server \in ServerRec /\ hist \in Hist /\ ServerInv /\ rep[r].phase # "down"
      /\ server.trial.expires \in Nat /\ server.trial.revoked \in BOOLEAN
  BY <1>1, AskedTypes
<1>3. /\ hist'.revokedAt = hist.revokedAt /\ hist'.lost = hist.lost /\ hist'.signed = hist.signed /\ hist' \in Hist
      /\ hist'.failed = hist.failed /\ hist'.refusedAt \in {hist.refusedAt, now}
  BY <1>1, <1>2
<1>4. CASE Step(r, "trial", "denied", NoDoc) /\ UNCHANGED server
  <2>1. \A e \in Copies : e.kind \in Kind /\ DocOk(e) => DocOk(e)'
    BY <1>1, <1>4 DEF DocOk
  <2>2. ServerInv' /\ server' \in ServerRec
    BY <1>2, <1>4 DEF ServerInv
  <2> QED BY <1>1, <1>2, <1>3, <1>4, <2>1, <2>2, DocKinds, Answered DEF ServerRec
<1>5. CASE ~(server.trial.expires # 0 /\ (server.trial.revoked \/ server.trial.expires <= now))
  <2> PICK end \in Nat : end = TrialEnd(server.trial)
    BY <1>2, LicenseAssumption DEF TrialEnd
  <2>1. end # 0 /\ (server.trial.expires # 0 => end = server.trial.expires)
    BY <1>2, LicenseAssumption DEF TrialEnd
  <2>2. ~server.trial.revoked
    BY <1>2, <1>5 DEF ServerInv
  <2>3. /\ server' = [server EXCEPT !.trial = [server.trial EXCEPT !.expires = end]]
        /\ Step(r, "trial", "granted", TrialDoc(end))
    BY <1>2, <1>5 DEF trial_start, ServerRec
  <2>4. /\ server' \in ServerRec /\ server'.revocations = server.revocations
        /\ server'.trial.expires = end /\ ~server'.trial.revoked
    BY <1>2, <2>2, <2>3 DEF ServerRec
  <2>5. \A k \in Kind : RevokedFor(server, k)' => RevokedFor(server, k) /\ k # "trial"
    BY <2>4 DEF RevokedFor
  <2>6. \A e \in Copies : e.kind \in Kind /\ DocOk(e) => DocOk(e)'
    BY <1>1, <1>2, <2>1, <2>4, <2>5 DEF DocOk
  <2> PICK d : d = TrialDoc(end)
    OBVIOUS
  <2>7. d \in Doc /\ d.kind = "trial" /\ d.issued = now /\ d.expires = end
    BY <1>2 DEF TrialDoc, Doc, Kind, Time
  <2>8. DocOk(d)'
    BY <1>1, <1>2, <2>1, <2>4, <2>5, <2>7 DEF DocOk, Kind
  <2>9. ServerInv'
    BY <2>4 DEF ServerInv
  <2> QED BY <1>1, <1>2, <1>3, <2>3, <2>4, <2>6, <2>7, <2>8, <2>9, Answered DEF ServerRec
<1> QED BY <1>4, <1>5 DEF trial_start

\* The server's heartbeat keeps the invariant: nothing revoked is attested, and
\* a trial is attested with the end on record.
LEMMA HeartbeatStep ==
    ASSUME IInv, NEW r \in Replica, heartbeat(r)
    PROVE  IInv'
<1>1. /\ task[r]["tick"].pc = "asked" /\ "tick" \in Job
      /\ UNCHANGED <<now, store, mounted, rep, used>> /\ server' = server
  BY DEF heartbeat, Job
<1> PICK doc : doc = task[r]["tick"].doc
  OBVIOUS
<1>2. /\ now \in Nat /\ server \in ServerRec /\ hist \in Hist /\ ServerInv /\ rep[r].phase # "down"
      /\ server.trial.expires \in Nat /\ server.trial.revoked \in BOOLEAN
      /\ doc \in Doc /\ DocOk(doc)
  BY <1>1, AskedTypes
<1>3. ServerInv' /\ server' \in ServerRec
  BY <1>1, <1>2 DEF ServerInv
<1>4. CASE Refuses(doc)
  <2>1. Step(r, "tick", "denied", NoDoc) /\ hist' = [hist EXCEPT !.refusedAt = now]
    BY <1>4 DEF heartbeat
  <2>2. /\ hist' \in Hist /\ hist'.revokedAt = hist.revokedAt /\ hist'.lost = hist.lost /\ hist'.signed = hist.signed
        /\ hist'.failed = hist.failed /\ hist'.refusedAt = now
    BY <1>2, <2>1 DEF Hist, Time
  <2>3. \A e \in Copies : e.kind \in Kind /\ DocOk(e) => DocOk(e)'
    BY <1>1, <2>2 DEF DocOk
  <2> QED BY <1>1, <1>2, <1>3, <2>1, <2>2, <2>3, DocKinds, Answered DEF ServerRec
<1>5. CASE ~Refuses(doc)
  <2> PICK end : end = IF doc.kind = "trial" /\ server.trial.expires # 0
                         THEN server.trial.expires ELSE doc.expires
    OBVIOUS
  <2> PICK d : d = [doc EXCEPT !.issued = now, !.expires = end, !.requires_heartbeat = TRUE]
    OBVIOUS
  <2>1. Step(r, "tick", "granted", d) /\ hist' = hist
    BY <1>5 DEF heartbeat
  <2>2. end \in Nat
    BY <1>2, DocKinds
  <2>3. d \in Doc /\ d.kind = doc.kind /\ d.issued = now /\ d.expires = end
    BY <1>2, <2>2 DEF Doc, Time
  <2>4. ~RevokedFor(server, doc.kind)
    BY <1>2, <1>5 DEF Refuses, RevokedFor, ServerInv
  <2>5. ~hist.lost /\ doc.kind = "trial" =>
           (end = server.trial.expires /\ end # 0) \/ end \in hist.signed
    BY <1>2 DEF DocOk
  <2>6. DocOk(d)'
    BY <1>1, <1>2, <2>1, <2>3, <2>4, <2>5 DEF DocOk
  <2>7. \A e \in Copies : e.kind \in Kind /\ DocOk(e) => DocOk(e)'
    BY <1>1, <2>1 DEF DocOk
  <2>8. /\ hist'.revokedAt = hist.revokedAt /\ hist'.lost = hist.lost /\ hist'.signed = hist.signed /\ hist' \in Hist
        /\ hist'.failed = hist.failed /\ hist'.refusedAt \in {hist.refusedAt, now}
    BY <1>2, <2>1
  <2> QED BY <1>1, <1>2, <1>3, <2>1, <2>3, <2>6, <2>7, <2>8, Answered DEF ServerRec
<1> QED BY <1>4, <1>5

\* The vendor's acts change the server's records only.
LEMMA ServerChanges ==
    ASSUME IInv, server' \in ServerRec, ServerInv', UNCHANGED <<now, store, mounted, rep, task>>,
           used' \in Used, hist' \in Hist, hist'.failed = hist.failed, hist'.refusedAt = hist.refusedAt,
           \A e \in Copies : e.kind \in Kind /\ DocOk(e) => DocOk(e)'
    PROVE  IInv'
<1>1. TypeOK'
  BY Types DEF IInv, TypeOK, Rep, Phase, Task, Pc, Used, Hist, Time, ServerRec
<1>2. CopyInv'
  <2>1. Copies' = Copies
    BY DEF Copies
  <2> QED BY <2>1 DEF IInv, CopyInv
<1>3. RepInv'
  BY DEF IInv, RepInv, RepOk
<1> QED BY <1>1, <1>2, <1>3 DEF IInv

\* The bounds count.
LEMMA Counted ==
    ASSUME used \in Used, Admin \/ Fault
    PROVE  used' \in Used
BY DEF Admin, Fault, Used

\* revoke, unrevoke and the loss of the trial's record keep the invariant.
LEMMA VendorSteps ==
    ASSUME IInv,
           \/ \E l \in Kind \cup {"*"} : revoke(l) \/ unrevoke({l})
           \/ unrevoke(Kind \cup {"*"})
           \/ LoseRecord
    PROVE  IInv'
<1>1. /\ now \in Nat /\ server \in ServerRec /\ hist \in Hist /\ used \in Used /\ ServerInv
      /\ server.trial.expires \in Nat
      /\ \A e \in Copies : e.kind \in Kind /\ DocOk(e) => e.issued <= now
  BY Types DEF IInv, ServerRec, DocOk
<1>2. ASSUME NEW l \in Kind \cup {"*"}, revoke(l) PROVE IInv'
  <2> DEFINE sw == [server EXCEPT !.revocations = @ \cup {l}, !.trial.revoked = server.trial.expires # 0]
  <2> PICK b \in BOOLEAN : b <=> server.trial.expires # 0
    OBVIOUS
  <2>0. server' = sw /\ hist' = Noted(sw) /\ UNCHANGED <<now, store, mounted, rep, task>>
    BY <1>2 DEF revoke
  <2>2. sw = [server EXCEPT !.revocations = server.revocations \cup {l},
                            !.trial = [server.trial EXCEPT !.revoked = b]]
    BY <1>1 DEF ServerRec
  <2>3. /\ sw \in ServerRec /\ sw.trial.expires = server.trial.expires
        /\ sw.trial.revoked <=> server.trial.expires # 0
    <3>1. sw.trial = [server.trial EXCEPT !.revoked = b] /\ sw \in ServerRec
      BY <1>1, <2>2 DEF ServerRec
    <3> QED BY <1>1, <3>1 DEF ServerRec
  <2> HIDE DEF sw
  <2> PICK sv : sv = sw
    OBVIOUS
  <2>1. /\ server' = sv /\ hist' = Noted(sv) /\ UNCHANGED <<now, store, mounted, rep, task>> /\ used' \in Used
    <3>1. used' \in Used
      BY <1>1, <1>2, Counted DEF revoke
    <3> QED BY <2>0, <3>1
  <2>4. [k \in Kind |-> IF RevokedFor(sv, k) /\ ~RevokedFor(server, k) THEN now ELSE hist.revokedAt[k]]
           \in [Kind -> Time]
    BY <1>1 DEF Hist, Time
  <2>5. hist' = [hist EXCEPT !.revokedAt =
           [k \in Kind |-> IF RevokedFor(sv, k) /\ ~RevokedFor(server, k) THEN now ELSE hist.revokedAt[k]]]
    BY <2>1 DEF Noted
  <2>6. /\ hist' \in Hist /\ hist'.failed = hist.failed /\ hist'.refusedAt = hist.refusedAt
        /\ hist'.lost = hist.lost /\ hist'.signed = hist.signed
        /\ \A k \in Kind : hist'.revokedAt[k] =
              IF RevokedFor(sv, k) /\ ~RevokedFor(server, k) THEN now ELSE hist.revokedAt[k]
    BY <1>1, <2>4, <2>5 DEF Hist
  <2>7. ASSUME NEW e \in Copies, e.kind \in Kind, DocOk(e) PROVE DocOk(e)'
    <3>1. e.issued <= now'
      BY <2>1, <2>7 DEF DocOk
    <3>2. e.requires_heartbeat /\ RevokedFor(sv, e.kind) => e.issued <= hist'.revokedAt[e.kind]
      BY <2>6, <2>7 DEF DocOk
    <3>3. ~hist'.lost /\ e.kind = "trial" =>
             (e.expires = sv.trial.expires /\ e.expires # 0) \/ e.expires \in hist'.signed
      BY <2>3, <2>6, <2>7 DEF DocOk
    <3> QED BY <2>1, <3>1, <3>2, <3>3 DEF DocOk
  <2>8. ServerInv'
    BY <2>1, <2>3 DEF ServerInv
  <2> QED BY <2>1, <2>3, <2>6, <2>7, <2>8, ServerChanges
<1>3. ASSUME NEW ls \in SUBSET (Kind \cup {"*"}), unrevoke(ls) PROVE IInv'
  <2>1. /\ server' = [server EXCEPT !.revocations = server.revocations \ ls,
                                    !.trial = [server.trial EXCEPT !.revoked = FALSE]]
        /\ hist' = hist /\ UNCHANGED <<now, store, mounted, rep, task>> /\ used' \in Used
    <3>1. used' \in Used
      BY <1>1, <1>3, Counted DEF unrevoke
    <3> QED BY <1>1, <1>3, <3>1 DEF unrevoke, ServerRec
  <2>2. /\ server' \in ServerRec /\ server'.trial.expires = server.trial.expires
        /\ ~server'.trial.revoked /\ server'.revocations \subseteq server.revocations
    BY <1>1, <2>1 DEF ServerRec
  <2>3. \A k \in Kind : RevokedFor(server, k)' => RevokedFor(server, k)
    BY <2>2 DEF RevokedFor
  <2>4. \A e \in Copies : e.kind \in Kind /\ DocOk(e) => DocOk(e)'
    BY <2>1, <2>2, <2>3 DEF DocOk
  <2>5. ServerInv'
    BY <2>2 DEF ServerInv
  <2> QED BY <1>1, <2>1, <2>2, <2>4, <2>5, ServerChanges
<1>4. ASSUME LoseRecord PROVE IInv'
  <2>1. /\ server' = [server EXCEPT !.trial = [expires |-> 0, revoked |-> FALSE]]
        /\ hist' = [hist EXCEPT !.lost = TRUE]
        /\ UNCHANGED <<now, store, mounted, rep, task>> /\ used' \in Used
    BY <1>1, <1>4 DEF LoseRecord, Fault, Used
  <2>2. server' \in ServerRec /\ ~server'.trial.revoked /\ server'.revocations = server.revocations
    BY <1>1, <2>1 DEF ServerRec
  <2>3. /\ hist' \in Hist /\ hist'.failed = hist.failed /\ hist'.refusedAt = hist.refusedAt
        /\ hist'.lost /\ hist'.revokedAt = hist.revokedAt
    BY <1>1, <2>1 DEF Hist
  <2>4. \A k \in Kind : RevokedFor(server, k)' => RevokedFor(server, k)
    BY <2>2 DEF RevokedFor
  <2>5. \A e \in Copies : e.kind \in Kind /\ DocOk(e) => DocOk(e)'
    BY <2>1, <2>3, <2>4 DEF DocOk
  <2>6. ServerInv'
    BY <2>2 DEF ServerInv
  <2> QED BY <2>1, <2>2, <2>3, <2>5, <2>6, ServerChanges
<1> QED BY <1>2, <1>3, <1>4

\* Time keeps the invariant: no call is under way when it passes.
LEMMA TimeStep ==
    ASSUME IInv, Tick
    PROVE  IInv'
<1>1. /\ now \in Nat /\ now' = now + 1 /\ UNCHANGED <<store, mounted, server, rep, task, used, hist>>
      /\ \A r \in Replica : task[r]["tick"].pc = "idle"
  BY Types DEF Tick, IInv, Quiet, Job
<1>2. TypeOK'
  BY <1>1, Types DEF IInv, TypeOK, Time
<1>3. CopyInv'
  <2>1. Copies' = Copies
    BY <1>1 DEF Copies
  <2> SUFFICES ASSUME NEW d \in Copies, d.kind \in Kind PROVE DocOk(d)'
    BY <2>1 DEF CopyInv
  <2>2. DocOk(d)
    BY DEF IInv, CopyInv
  <2>3. d.issued \in Nat
    <3>1. store \in Doc \cup {NoDoc, Rejected} /\ mounted \in Doc \cup {NoDoc}
      BY Types DEF IInv
    <3>2. \A r \in Replica : rep[r].doc \in Doc \cup {NoDoc} /\ \A j \in Job : task[r][j].doc \in Doc \cup {NoDoc}
      BY ReplicaTypes DEF Rep, Task
    <3>3. d \in Doc \cup {NoDoc, Rejected}
      BY <3>1, <3>2 DEF Copies
    <3> QED BY <3>3, DocKinds
  <2> QED BY <1>1, <2>2, <2>3 DEF DocOk
<1>4. RepInv'
  <2>1. ASSUME NEW r \in Replica PROVE RepOk(rep[r], task[r], hist.failed[r])'
    <3>1. RepOk(rep[r], task[r], hist.failed[r]) /\ rep[r].attempt \in Nat \cup {Never}
      BY ReplicaTypes
    <3> QED BY <1>1, <3>1 DEF RepOk, Never
  <2> QED BY <2>1 DEF RepInv
<1>5. ServerInv'
  BY <1>1 DEF IInv, ServerInv
<1> QED BY <1>2, <1>3, <1>4, <1>5 DEF IInv

\* The invariant holds before any replica starts.
LEMMA IInvInit == Init => IInv
<1> SUFFICES ASSUME Init PROVE IInv
  OBVIOUS
<1>1. \A r \in Replica : /\ rep[r] = Down /\ \A j \in Job : task[r][j] = Idle
                         /\ hist.failed[r] = FALSE
  BY DEF Init
<1>2. Idle \in Task /\ Idle.pc = "idle" /\ Idle.doc = NoDoc
  BY DEF Idle, Task, Pc
<1>3. /\ hist \in Hist /\ hist.refusedAt = 0 /\ used \in Used /\ server \in ServerRec
      /\ ~server.trial.revoked /\ server.revocations = {}
  BY DEF Init, Hist, Used, ServerRec, Time
<1>4. /\ mounted \in Doc \cup {NoDoc} /\ (mounted \in Doc => mounted.kind = "commercial" /\ mounted.issued = 0)
  <2> DEFINE m == [kind |-> "commercial", issued |-> 0, expires |-> SoldLength, requires_heartbeat |-> TRUE]
  <2>1. m \in Doc /\ m.kind = "commercial" /\ m.issued = 0
    BY LicenseAssumption DEF Doc, Kind, Time
  <2>2. NoDoc \notin Doc
    BY DocKinds
  <2>3. mounted \in {NoDoc, m}
    BY DEF Init
  <2> HIDE DEF m
  <2> QED BY <2>1, <2>2, <2>3
<1>5. TypeOK
  <2>1. rep \in [Replica -> Rep]
    BY DownIsRep DEF Init
  <2>2. task \in [Replica -> [Job -> Task]]
    BY <1>2 DEF Init
  <2> QED BY <1>3, <1>4, <2>1, <2>2, Types DEF Init, ServerRec
<1>6. CopyInv
  <2> SUFFICES ASSUME NEW d \in Copies, d.kind \in Kind PROVE DocOk(d)
    BY DEF CopyInv
  <2>1. d = mounted
    BY <1>1, <1>2, DocKinds, DownIsRep DEF Copies, Init
  <2>2. d.kind = "commercial" /\ d.issued = 0
    BY <1>4, <2>1, DocKinds
  <2>3. ~RevokedFor(server, "commercial")
    BY <1>3 DEF RevokedFor
  <2> QED BY <2>2, <2>3 DEF DocOk, Init
<1>7. RepInv
  <2>1. now = 0 /\ \A r \in Replica : rep[r].attempt = Never /\ ~rep[r].error /\ ~rep[r].revoked
    BY <1>1, DownIsRep DEF Init
  <2>2. \A r \in Replica, j \in Job : task[r][j].pc = "idle"
    BY <1>1, <1>2
  <2>3. ASSUME NEW r \in Replica PROVE RepOk(rep[r], task[r], hist.failed[r])
    <3>1. task[r]["tick"].pc = "idle" /\ rep[r].attempt <= 0
      BY <2>1, <2>2 DEF Job, Never
    <3> QED BY <1>3, <2>1, <2>2, <3>1 DEF RepOk
  <2> QED BY <2>3 DEF RepInv
<1>8. ServerInv
  BY <1>3 DEF ServerInv
<1> QED BY <1>5, <1>6, <1>7, <1>8 DEF IInv

\* Every step keeps the invariant.
LEMMA IInvNext == IInv /\ [Next]_vars => IInv'
<1> SUFFICES ASSUME IInv, [Next]_vars PROVE IInv'
  OBVIOUS
<1>1. CASE UNCHANGED vars
  <2>1. TypeOK' /\ ServerInv'
    BY <1>1 DEF vars, IInv, TypeOK, ServerInv
  <2>2. Copies' = Copies
    BY <1>1 DEF vars, Copies
  <2>3. CopyInv'
    BY <1>1, <2>2 DEF vars, IInv, CopyInv, DocOk
  <2>4. RepInv'
    BY <1>1 DEF vars, IInv, RepInv, RepOk
  <2> QED BY <2>1, <2>3, <2>4 DEF IInv
<1>2. CASE Tick
  BY <1>2, TimeStep
<1>3. ASSUME NEW r \in Replica, ReplicaStep(r) PROVE IInv'
  BY <1>3, BootStep, CrashStep, TickStep, TrialStep, PersistStep, CallSteps DEF ReplicaStep
<1>4. CASE ServerStep
  BY <1>4, TrialStartStep, HeartbeatStep, VendorSteps DEF ServerStep
<1>5. CASE (\E k \in Kind, hb \in BOOLEAN : Deliver(license_sign(k, hb))) \/ Deliver(Rejected)
  BY <1>5, DeliverStep
<1> QED BY <1>1, <1>2, <1>3, <1>4, <1>5 DEF Next

-----------------------------------------------------------------------------
(* The theorems. *)

\* The invariant of license.rs and license_server.rs holds throughout, for any
\* number of replicas, acts and faults and any clock.
THEOREM Invariance == Spec => []IInv
BY IInvInit, IInvNext, PTL DEF Spec

\* Nothing but a signed document is ever stored by a replica, sent or active in
\* license.rs.
THEOREM TypeCorrect == Spec => []TypeOK
<1>1. IInv => TypeOK
  BY DEF IInv
<1> QED BY <1>1, Invariance, PTL

\* The active license of a replica, as the properties look at it.
LEMMA ActiveLicense ==
    ASSUME IInv, NEW r \in Replica, NEW doc, doc = rep[r].doc, doc.requires_heartbeat
    PROVE  /\ doc \in Doc /\ doc # NoDoc /\ DocOk(doc) /\ doc.issued \in Nat /\ doc.kind \in Kind
           /\ now \in Nat /\ hist.refusedAt \in Nat /\ hist.revokedAt[doc.kind] \in Nat
           /\ RepOk(rep[r], task[r], hist.failed[r]) /\ rep[r].attempt \in Nat \cup {Never}
<1>1. rep[r] \in Rep /\ doc \in Copies /\ rep[r].attempt \in Nat \cup {Never}
      /\ RepOk(rep[r], task[r], hist.failed[r])
  BY ReplicaTypes
<1>2. doc \in Doc /\ doc # NoDoc /\ doc.kind \in Kind
  BY <1>1, DocKinds DEF Rep
<1>3. now \in Nat /\ hist \in Hist
  BY Types DEF IInv
<1> QED BY <1>1, <1>2, <1>3, DocKinds DEF IInv, CopyInv, Hist, Time

\* No replica works on a revoked heartbeat license for longer than
\* HEARTBEAT_GRACE after the revocation, whatever was in flight, stored or
\* mounted, and with the server out of reach.
THEOREM RevocationWithinGraceHolds == Spec => []RevocationWithinGrace
<1>1. ASSUME IInv PROVE RevocationWithinGrace
  <2> SUFFICES ASSUME NEW r \in Replica, NEW doc, doc = rep[r].doc,
                      require_licensed(r), doc.requires_heartbeat, RevokedFor(server, doc.kind)
               PROVE  now <= hist.revokedAt[doc.kind] + Grace
    BY DEF RevocationWithinGrace
  <2>1. now - doc.issued <= Grace
    BY DEF require_licensed, NoProblem, validity
  <2>2. doc.issued <= hist.revokedAt[doc.kind]
    BY <1>1, ActiveLicense DEF DocOk
  <2> QED BY <1>1, <2>1, <2>2, ActiveLicense, LicenseAssumption
<1> QED BY <1>1, Invariance, PTL

\* A replica whose last heartbeat did not fail stops working on a revoked
\* heartbeat license within HEARTBEAT_INTERVAL.
THEOREM RevocationTakesEffectHolds == Spec => []RevocationTakesEffect
<1>1. ASSUME IInv PROVE RevocationTakesEffect
  <2> SUFFICES ASSUME NEW r \in Replica, NEW doc, doc = rep[r].doc,
                      require_licensed(r), Quiet(r), ~hist.failed[r],
                      doc.requires_heartbeat, RevokedFor(server, doc.kind)
               PROVE  now < hist.revokedAt[doc.kind] + Interval
    BY DEF RevocationTakesEffect
  <2>1. doc # NoDoc /\ ~rep[r].revoked /\ ~heartbeat_due(rep[r])
    BY DEF require_licensed, NoProblem, Quiet, NeedsTick
  <2>2. ~rep[r].error
    BY <1>1, <2>1, ActiveLicense DEF RepOk
  <2>3. ~(now - doc.issued >= Interval)
    BY <2>1, <2>2 DEF heartbeat_due
  <2>4. doc.issued <= hist.revokedAt[doc.kind]
    BY <1>1, ActiveLicense DEF DocOk
  <2> QED BY <1>1, <2>3, <2>4, ActiveLicense, LicenseAssumption
<1> QED BY <1>1, Invariance, PTL

\* A replica with an unexpired heartbeat license whose last heartbeat did not
\* fail is blocked only while the server refuses, and for HEARTBEAT_RETRY after
\* that.  HEARTBEAT_INTERVAL <= HEARTBEAT_GRACE is needed here.
THEOREM BlockedOnlyIfRefusedHolds == Spec => []BlockedOnlyIfRefused
<1>1. ASSUME IInv PROVE BlockedOnlyIfRefused
  <2> SUFFICES ASSUME NEW r \in Replica, NEW doc, doc = rep[r].doc,
                      rep[r].phase = "up", Quiet(r), ~hist.failed[r],
                      doc.requires_heartbeat, doc.expires > now, now >= hist.refusedAt + Retry
               PROVE  require_licensed(r)
    BY DEF BlockedOnlyIfRefused
  <2>0. /\ doc # NoDoc /\ doc.issued \in Nat /\ now \in Nat /\ hist.refusedAt \in Nat
        /\ RepOk(rep[r], task[r], hist.failed[r]) /\ rep[r].attempt \in Nat \cup {Never}
    BY <1>1, ActiveLicense
  <2>1. ~heartbeat_due(rep[r]) /\ task[r]["tick"].pc = "idle"
    BY DEF Quiet, NeedsTick, Job
  <2>2. ~rep[r].revoked
    <3> SUFFICES ASSUME rep[r].revoked PROVE FALSE
      OBVIOUS
    <3>1. rep[r].attempt <= hist.refusedAt
      BY <2>0, <2>1 DEF RepOk
    <3>2. rep[r].attempt # Never /\ ~(now - rep[r].attempt >= Retry)
      BY <2>0, <2>1 DEF heartbeat_due
    <3> QED BY <2>0, <3>1, <3>2, LicenseAssumption DEF Never
  <2>3. ~rep[r].error
    BY <2>0, <2>2 DEF RepOk
  <2>4. ~(now - doc.issued >= Interval)
    BY <2>0, <2>1, <2>2, <2>3 DEF heartbeat_due
  <2>5. now - doc.issued <= Grace
    BY <2>0, <2>4, LicenseAssumption
  <2> QED BY <2>0, <2>2, <2>5 DEF require_licensed, NoProblem, validity
<1> QED BY <1>1, Invariance, PTL

\* Every copy of a trial license has the one end the server has on record, or one
\* that the vendor signed by hand, as long as the record is not lost.
THEOREM OneTrialOneEndHolds == Spec => []OneTrialOneEnd
<1>1. ASSUME IInv PROVE OneTrialOneEnd
  <2> SUFFICES ASSUME ~hist.lost,
                      NEW d \in {store} \cup {rep[r].doc : r \in Replica}
                                        \cup {task[r][j].doc : r \in Replica, j \in Job},
                      d.kind = "trial"
               PROVE  d.expires = server.trial.expires \/ d.expires \in hist.signed
    BY DEF OneTrialOneEnd
  <2>1. d \in Copies /\ d.kind \in Kind
    BY DEF Copies, Kind
  <2> QED BY <1>1, <2>1 DEF IInv, CopyInv, DocOk
<1> QED BY <1>1, Invariance, PTL
=============================================================================
