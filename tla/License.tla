------------------------------ MODULE License ------------------------------
(***************************************************************************)
(* Licensing: the API replicas of one installation, the license store file *)
(* they share, and the vendor's license server.  A replica keeps its       *)
(* license in memory, has it re-attested by the server (heartbeat), writes *)
(* the answer to the store and adopts what others wrote there.  An         *)
(* administrator may start a trial on a replica while its background tick  *)
(* is under way, an operator may put a commercial license in the store,    *)
(* and the vendor may revoke and reinstate.                                *)
(*                                                                         *)
(* Time counts in units of HEARTBEAT_RETRY or finer.  A call takes seconds *)
(* and a tick comes every minute, so time passes only when no call is in   *)
(* flight and every replica runs (a stopped one is restarted) and has done *)
(* the tick it needs.                                                      *)
(***************************************************************************)
EXTENDS Integers

CONSTANTS
    Replica,
    Interval,     \* HEARTBEAT_INTERVAL
    Grace,        \* HEARTBEAT_GRACE
    Retry,        \* HEARTBEAT_RETRY
    TrialLength,  \* trial_days of the license server
    SoldLength,   \* lifetime of the licenses the vendor signs
    MaxTime,      \* bound: the clock
    MaxAdmin,     \* bound: acts of administrators, operators and the vendor
    MaxFaults     \* bound: failed writes, crashes, lost records of the server

ASSUME LicenseAssumption ==
    /\ Interval \in Nat \ {0} /\ Retry \in Nat \ {0} /\ Grace \in Nat
    /\ TrialLength \in Nat \ {0} /\ SoldLength \in Nat \ {0}
    /\ MaxTime \in Nat /\ MaxAdmin \in Nat /\ MaxFaults \in Nat
    /\ Interval <= Grace

VARIABLES
    now,
    store,    \* the file at LICENSE_STORE_PATH
    mounted,  \* the file at LICENSE_FILE
    server,   \* tables revocations and trials, for this fingerprint
    rep,      \* LicenseState of each replica
    task,     \* the calls to the server a replica is making
    used,     \* how much of each bound is used
    hist      \* history: when kinds were revoked, when the server last refused,
              \* whether it lost the trial's record, which replicas' last
              \* heartbeat failed, and the ends of trials signed by hand

vars == <<now, store, mounted, server, rep, task, used, hist>>

Kind == {"trial", "commercial"}
Time == Nat

\* LicenseDoc: a signed license of this installation.  Its licensee is fixed
\* by its kind: the trial's e-mail address, or the customer.
Doc == [kind : Kind, issued : Time, expires : Time, requires_heartbeat : BOOLEAN]

NoDoc    == [kind |-> "none", issued |-> 0, expires |-> 0, requires_heartbeat |-> FALSE]
Rejected == [NoDoc EXCEPT !.kind = "rejected"]  \* wrong signature or fingerprint

Never == -1
Job   == {"tick", "trial"}
Idle  == [pc |-> "idle", doc |-> NoDoc]
Down  == [phase |-> "down", doc |-> NoDoc, revoked |-> FALSE, attempt |-> Never,
          error |-> FALSE, seen |-> FALSE]

\* Types of the store, the server's records, the replicas and their calls;
\* nothing but a signed document is ever sent, stored by a replica or active.
TypeOK ==
    /\ now \in Time
    /\ store \in Doc \cup {NoDoc, Rejected}
    /\ mounted \in Doc \cup {NoDoc}
    /\ server \in [revocations : SUBSET (Kind \cup {"*"}),
                   trial : [expires : Time, revoked : BOOLEAN]]
    /\ rep \in [Replica -> [phase : {"down", "booting", "up"}, doc : Doc \cup {NoDoc},
                            revoked : BOOLEAN, attempt : Time \cup {Never},
                            error : BOOLEAN, seen : BOOLEAN]]
    /\ task \in [Replica -> [Job -> [pc : {"idle", "asked", "granted", "denied",
                                           "persisted", "unpersisted"},
                                     doc : Doc \cup {NoDoc}]]]
    /\ used \in [admin : Nat, faults : Nat]
    /\ hist \in [revokedAt : [Kind -> Time], refusedAt : Time, lost : BOOLEAN,
                failed : [Replica -> BOOLEAN], signed : SUBSET Time]

-----------------------------------------------------------------------------
(* license.rs: which documents are good for work, and when to ask again. *)

\* Mutant: the grace period is counted from the end of the interval.
validityLate(doc) ==
    /\ doc.expires > now
    /\ doc.requires_heartbeat => now - doc.issued <= Interval + Grace

validity(doc) ==
    /\ doc.expires > now
    /\ doc.requires_heartbeat => now - doc.issued <= Grace

\* problem_for: none.
NoProblem(s) == ~s.revoked /\ (s.doc # NoDoc => validity(s.doc))

\* Mutant: the signature is not checked.
load_unverified(file) == file # NoDoc

\* verify_license and the fingerprint check of load_and_verify_path.
load_and_verify(file) == file.kind \in Kind /\ file.expires > now

\* Mutant: a denied license is not probed again.
heartbeat_due_once(s) ==
    /\ s.doc # NoDoc
    /\ s.doc.requires_heartbeat
    /\ ~s.revoked
    /\ now - s.doc.issued >= Interval
    /\ s.attempt # Never /\ s.error => now - s.attempt >= Retry

\* A denied license is probed at the retry cadence; a failed attempt backs off.
heartbeat_due(s) ==
    /\ s.doc # NoDoc
    /\ s.doc.requires_heartbeat
    /\ IF s.revoked
         THEN s.attempt # Never => now - s.attempt >= Retry
         ELSE /\ now - s.doc.issued >= Interval
              /\ s.attempt # Never /\ s.error => now - s.attempt >= Retry

\* The precedence of a verified store document over the active one.
should_adopt(s, doc) ==
    \/ s.doc = NoDoc
    \/ /\ s.doc # doc
       /\ validity(doc)
       /\ \/ ~NoProblem(s)
          \/ s.doc.kind = "trial" /\ doc.kind = "commercial"
          \/ s.doc.kind = doc.kind /\ doc.issued > s.doc.issued

activate(s, doc, seen) ==
    [s EXCEPT !.doc = doc, !.revoked = FALSE, !.error = FALSE, !.seen = seen]

\* reload_store_if_changed: a file that is not adopted is remembered as seen.
reload_store_if_changed(s) ==
    IF store = NoDoc \/ s.seen THEN s
    ELSE IF load_and_verify(store) /\ should_adopt(s, store) THEN activate(s, store, TRUE)
    ELSE [s EXCEPT !.seen = TRUE]

-----------------------------------------------------------------------------
Init ==
    /\ now = 0
    /\ store = NoDoc
    /\ mounted \in {NoDoc, [kind |-> "commercial", issued |-> 0, expires |-> SoldLength,
                            requires_heartbeat |-> TRUE]}
    /\ server = [revocations |-> {}, trial |-> [expires |-> 0, revoked |-> FALSE]]
    /\ rep = [r \in Replica |-> Down]
    /\ task = [r \in Replica |-> [j \in Job |-> Idle]]
    /\ used = [admin |-> 0, faults |-> 0]
    /\ hist = [revokedAt |-> [k \in Kind |-> 0], refusedAt |-> 0, lost |-> FALSE,
               failed |-> [r \in Replica |-> FALSE], signed |-> {}]

Admin == used.admin < MaxAdmin /\ used' = [used EXCEPT !.admin = @ + 1]
Fault == used.faults < MaxFaults /\ used' = [used EXCEPT !.faults = @ + 1]

\* A call's progress, and the store file being replaced by a replica: nobody
\* has seen the new file.
Step(r, j, pc, doc) == task' = [task EXCEPT ![r][j] = [pc |-> pc, doc |-> doc]]
Unseen == [s \in Replica |-> [rep[s] EXCEPT !.seen = FALSE]]

NeedsTick(r) ==
    rep[r].phase = "up" /\ (heartbeat_due(rep[r]) \/ (store # NoDoc /\ ~rep[r].seen))
Quiet(r) == ~NeedsTick(r) /\ \A j \in Job : task[r][j].pc = "idle"

Tick ==
    /\ now < MaxTime
    /\ \A r \in Replica : rep[r].phase = "up" /\ Quiet(r)
    /\ now' = now + 1
    /\ UNCHANGED <<store, mounted, server, rep, task, used, hist>>

-----------------------------------------------------------------------------
(* A replica. *)

\* enforce_at_startup: LICENSE_FILE, then the store, then a trial if
\* LICENSE_TRIAL_EMAIL is set; otherwise the gate stays closed.
Boot(r) ==
    /\ rep[r].phase = "down"
    /\ IF load_and_verify(mounted)
         THEN /\ rep' = [rep EXCEPT ![r] = activate([Down EXCEPT !.phase = "up"], mounted, FALSE)]
              /\ UNCHANGED task
       ELSE IF load_and_verify(store)
         THEN /\ rep' = [rep EXCEPT ![r] = activate([Down EXCEPT !.phase = "up"], store, TRUE)]
              /\ UNCHANGED task
       ELSE \/ /\ rep' = [rep EXCEPT ![r].phase = "up"]
               /\ UNCHANGED task
            \/ /\ rep' = [rep EXCEPT ![r].phase = "booting"]
               /\ Step(r, "trial", "asked", NoDoc)
    /\ hist' = [hist EXCEPT !.failed[r] = FALSE]
    /\ UNCHANGED <<now, store, mounted, server, used>>

\* The process ends at any point; the license store survives.
Crash(r) ==
    /\ rep[r].phase # "down"
    /\ Fault
    /\ rep' = [rep EXCEPT ![r] = Down]
    /\ task' = [task EXCEPT ![r] = [j \in Job |-> Idle]]
    /\ UNCHANGED <<now, store, mounted, server, hist>>

\* heartbeat_tick, up to the call: adopt a changed store, then ask if due.
heartbeat_tick(r) ==
    LET s == reload_store_if_changed(rep[r]) IN
    /\ NeedsTick(r)
    /\ task[r]["tick"].pc = "idle"
    /\ IF heartbeat_due(s)
         THEN /\ rep' = [rep EXCEPT ![r] = [s EXCEPT !.attempt = now]]
              /\ Step(r, "tick", "asked", s.doc)
         ELSE /\ rep' = [rep EXCEPT ![r] = s]
              /\ UNCHANGED task
    /\ UNCHANGED <<now, store, mounted, server, used, hist>>

\* POST /license/trial, refused while a commercial license is good for work.
start_trial(r) ==
    /\ rep[r].phase = "up"
    /\ task[r]["trial"].pc = "idle"
    /\ ~(rep[r].doc.kind = "commercial" /\ NoProblem(rep[r]))
    /\ Admin
    /\ Step(r, "trial", "asked", NoDoc)
    /\ UNCHANGED <<now, store, mounted, server, rep, hist>>

\* persist_license, for both calls.  A heartbeat goes on without the file.
persist_license(r, j) ==
    /\ task[r][j].pc = "granted"
    /\ \/ /\ store' = task[r][j].doc
          /\ rep' = Unseen
          /\ Step(r, j, "persisted", task[r][j].doc)
          /\ UNCHANGED used
       \/ /\ Fault
          /\ IF j = "tick" THEN Step(r, j, "unpersisted", task[r][j].doc)
                           ELSE Step(r, j, "denied", NoDoc)
          /\ UNCHANGED <<store, rep>>
    /\ UNCHANGED <<now, mounted, server, hist>>

\* The answer becomes the active license, whatever is active by now; the file
\* that is in the store by now counts as seen.
Activate(r, j) ==
    /\ task[r][j].pc \in {"persisted", "unpersisted"}
    /\ rep' = [rep EXCEPT ![r] =
                 [activate(@, task[r][j].doc, @.seen \/ task[r][j].pc = "persisted")
                    EXCEPT !.phase = "up"]]
    /\ Step(r, j, "idle", NoDoc)
    /\ hist' = [hist EXCEPT !.failed[r] = @ /\ j = "trial"]
    /\ UNCHANGED <<now, store, mounted, server, used>>

\* HeartbeatOutcome::Denied, or a trial that was refused.
Refused(r, j) ==
    /\ task[r][j].pc = "denied"
    /\ rep' = [rep EXCEPT ![r] =
                 IF j = "tick" THEN [@ EXCEPT !.revoked = TRUE, !.error = TRUE]
                               ELSE [@ EXCEPT !.phase = "up"]]
    /\ Step(r, j, "idle", NoDoc)
    /\ hist' = [hist EXCEPT !.failed[r] = @ /\ j = "trial"]
    /\ UNCHANGED <<now, store, mounted, server, used>>

\* HeartbeatOutcome::Unavailable: transport error, timeout before or after the
\* server acted, rate limit, 401, 5xx.
Unavailable(r, j) ==
    /\ task[r][j].pc \in {"asked", "granted", "denied"}
    /\ rep' = [rep EXCEPT ![r] = IF j = "tick" THEN [@ EXCEPT !.error = TRUE]
                                               ELSE [@ EXCEPT !.phase = "up"]]
    /\ Step(r, j, "idle", NoDoc)
    /\ hist' = [hist EXCEPT !.failed[r] = @ \/ j = "tick"]
    /\ UNCHANGED <<now, store, mounted, server, used>>

-----------------------------------------------------------------------------
(* The license server. *)

TrialDoc(expires) ==
    [kind |-> "trial", issued |-> now, expires |-> expires, requires_heartbeat |-> TRUE]

\* Mutant: starting a trial again renews it.
TrialEndRenewed(trial) == now + TrialLength

\* A trial is started once and keeps its end.
TrialEnd(trial) == IF trial.expires # 0 THEN trial.expires ELSE now + TrialLength

trial_start(r) ==
    LET trial == server.trial
        end   == TrialEnd(trial)
    IN
    /\ task[r]["trial"].pc = "asked"
    /\ IF trial.expires # 0 /\ (trial.revoked \/ trial.expires <= now)
         THEN /\ Step(r, "trial", "denied", NoDoc)
              /\ UNCHANGED server
         ELSE /\ server' = [server EXCEPT !.trial.expires = end]
              /\ Step(r, "trial", "granted", TrialDoc(end))
    /\ UNCHANGED <<now, store, mounted, rep, used, hist>>

\* Mutant: revocations by licensee are looked up, those of "*" are not.
RefusesByName(doc) ==
    \/ doc.expires <= now
    \/ doc.kind \in server.revocations
    \/ doc.kind = "trial" /\ server.trial.expires # 0
         /\ (server.trial.revoked \/ server.trial.expires <= now)

\* 402 and 403 of POST /v1/heartbeat.
Refuses(doc) ==
    \/ doc.expires <= now
    \/ server.revocations \cap {doc.kind, "*"} # {}
    \/ doc.kind = "trial" /\ server.trial.expires # 0
         /\ (server.trial.revoked \/ server.trial.expires <= now)

\* Otherwise the document is signed anew; the trial's record, if it is still
\* there, sets its end.
heartbeat(r) ==
    LET doc == task[r]["tick"].doc
        end == IF doc.kind = "trial" /\ server.trial.expires # 0
                 THEN server.trial.expires ELSE doc.expires
    IN
    /\ task[r]["tick"].pc = "asked"
    /\ IF Refuses(doc)
         THEN /\ Step(r, "tick", "denied", NoDoc)
              /\ hist' = [hist EXCEPT !.refusedAt = now]
         ELSE /\ Step(r, "tick", "granted", [doc EXCEPT !.issued = now, !.expires = end,
                                                        !.requires_heartbeat = TRUE])
              /\ UNCHANGED hist
    /\ UNCHANGED <<now, store, mounted, server, rep, used>>

\* The kinds whose re-attestation is refused for a revocation.  For trials it
\* is the flag of the record that both calls obey.
RevokedFor(sv, k) ==
    IF k = "trial" THEN sv.trial.revoked ELSE sv.revocations \cap {k, "*"} # {}

Noted(sv) == [hist EXCEPT !.revokedAt =
    [k \in Kind |-> IF RevokedFor(sv, k) /\ ~RevokedFor(server, k) THEN now ELSE @[k]]]

revoke(l) ==
    LET sv == [server EXCEPT !.revocations = @ \cup {l},
                             !.trial.revoked = server.trial.expires # 0]
    IN
    /\ Admin
    /\ server' = sv
    /\ hist' = Noted(sv)
    /\ UNCHANGED <<now, store, mounted, rep, task>>

\* With or without a licensee, the trial's flag is cleared.
unrevoke(ls) ==
    /\ server.revocations \cap ls # {}
    /\ Admin
    /\ server' = [server EXCEPT !.revocations = @ \ ls, !.trial.revoked = FALSE]
    /\ UNCHANGED <<now, store, mounted, rep, task, hist>>

\* The row of the trial is lost to a restore of the server's database.
LoseRecord ==
    /\ server.trial.expires # 0
    /\ Fault
    /\ server' = [server EXCEPT !.trial = [expires |-> 0, revoked |-> FALSE]]
    /\ hist' = [hist EXCEPT !.lost = TRUE]
    /\ UNCHANGED <<now, store, mounted, rep, task>>

\* license_sign: a commercial license, or a trial that no server has on record.
license_sign(kind, hb) ==
    [kind |-> kind, issued |-> now, expires |-> now + SoldLength, requires_heartbeat |-> hb]

\* A file is put in the store: one that the vendor signed, or one that the
\* replicas reject.  The vendor does not sign for a licensee it has revoked.
Deliver(file) ==
    /\ file.kind \in Kind => ~RevokedFor(server, file.kind)
    /\ Admin
    /\ store' = file
    /\ rep' = Unseen
    /\ hist' = IF file.kind = "trial" THEN [hist EXCEPT !.signed = @ \cup {file.expires}]
                                      ELSE hist
    /\ UNCHANGED <<now, mounted, server, task>>

-----------------------------------------------------------------------------
ReplicaStep(r) ==
    \/ Boot(r) \/ Crash(r) \/ heartbeat_tick(r) \/ start_trial(r)
    \/ \E j \in Job : persist_license(r, j) \/ Activate(r, j) \/ Refused(r, j) \/ Unavailable(r, j)

ServerStep ==
    \/ \E r \in Replica : trial_start(r) \/ heartbeat(r)
    \/ \E l \in Kind \cup {"*"} : revoke(l) \/ unrevoke({l})
    \/ unrevoke(Kind \cup {"*"})
    \/ LoseRecord

Next ==
    \/ Tick
    \/ \E r \in Replica : ReplicaStep(r)
    \/ ServerStep
    \/ \E k \in Kind, hb \in BOOLEAN : Deliver(license_sign(k, hb))
    \/ Deliver(Rejected)

Spec == Init /\ [][Next]_vars

-----------------------------------------------------------------------------
(* Properties. *)

\* require_licensed with LICENSE_ENFORCE.
require_licensed(r) == rep[r].phase = "up" /\ rep[r].doc # NoDoc /\ NoProblem(rep[r])

\* Offline grace limits a revocation's delay: whatever was in flight, in the
\* store, mounted or adopted from another replica, after restarts and with the
\* server out of reach, no replica works on a heartbeat license for longer
\* than HEARTBEAT_GRACE after the server revoked it.
RevocationWithinGrace ==
    \A r \in Replica :
        LET doc == rep[r].doc IN
        require_licensed(r) /\ doc.requires_heartbeat /\ RevokedFor(server, doc.kind) =>
            now <= hist.revokedAt[doc.kind] + Grace

\* Unless its last call failed, a replica stops working on a revoked heartbeat
\* license within one heartbeat interval, although it may be denied and then
\* adopt an older attestation from the store, or load one when it starts: a
\* restart does not lengthen the interval.  (It does not shorten it either: see
\* RevokedOnRestart.)
RevocationTakesEffect ==
    \A r \in Replica :
        LET doc == rep[r].doc IN
        /\ require_licensed(r) /\ Quiet(r) /\ ~hist.failed[r]
        /\ doc.requires_heartbeat /\ RevokedFor(server, doc.kind)
        => now < hist.revokedAt[doc.kind] + Interval

\* Unless its last call failed, a replica with an unexpired heartbeat license
\* is blocked only while the server keeps refusing, and for one retry after
\* that: an unrevoke, a denial meant for a license that was replaced meanwhile
\* and a stale file loaded at boot all heal by themselves.
BlockedOnlyIfRefused ==
    \A r \in Replica :
        LET doc == rep[r].doc IN
        /\ rep[r].phase = "up" /\ Quiet(r) /\ ~hist.failed[r]
        /\ doc.requires_heartbeat /\ doc.expires > now
        /\ now >= hist.refusedAt + Retry
        => require_licensed(r)

\* An installation gets one trial of the server: starting it again, on any
\* replica or after a lost answer, and heartbeats never invent another end.  As
\* long as the server keeps its record, every copy of a trial license ends when
\* the record says, or when a trial ends that the vendor signed by hand, until
\* a heartbeat gives that one the recorded end too.
OneTrialOneEnd ==
    LET docs == {store} \cup {rep[r].doc : r \in Replica}
                        \cup {task[r][j].doc : r \in Replica, j \in Job}
    IN  ~hist.lost => \A d \in docs : d.kind = "trial" =>
            d.expires = server.trial.expires \/ d.expires \in hist.signed

\* docs/install.md: "Revocations take effect at the next heartbeat (<= 24h,
\* immediately on restart)".  A replica that starts on a revoked heartbeat
\* license asks the server at once.
RevokedOnRestart ==
    [][\A r \in Replica :
          /\ rep[r].phase = "down" /\ rep'[r].phase = "up"
          /\ rep'[r].doc.requires_heartbeat
          /\ RevokedFor(server, rep'[r].doc.kind)
          => heartbeat_due(rep'[r])]_vars

\* should_adopt: "Never downgrade: a commercial license is not replaced by a
\* trial"; POST /license/trial: "a trial would not replace it".  A replica that
\* works on a commercial license never has it replaced by a trial.
NeverDowngraded ==
    [][\A r \in Replica :
          require_licensed(r) /\ rep[r].doc.kind = "commercial" => rep'[r].doc.kind # "trial"]_vars
=============================================================================
