--------------------------- MODULE OperationLedger ---------------------------
(***************************************************************************)
(* The operation ledger of the orchestrator: one operation, that is, one   *)
(* step of the template chain applied to one row of a job, and the         *)
(* CallEndpoint attempts made to deliver it to the destination.            *)
(*                                                                         *)
(* Operations are keyed by (job, row, step) and never touch each other, so *)
(* one is modelled.  What makes it hard is that attempts overlap: Temporal *)
(* starts the next attempt as soon as the previous one fails or times out, *)
(* while the worker of the timed out attempt may still be sending; a       *)
(* worker may die at any point; a response may be lost; the database may   *)
(* be unavailable when the outcome is to be recorded; and a retry of the   *)
(* row may come with another payload or with an operator's decision.       *)
(*                                                                         *)
(* The destination is the environment.  It honours the declared policy: in *)
(* mode idempotent it remembers a key for DestRetention, and in mode       *)
(* lookup the lookup request tells the truth about effects already there.  *)
(***************************************************************************)
EXTENDS Integers, FiniteSets

CONSTANTS
    Attempt,      \* identities of attempts (workflow run, activity, number)
    NoAttempt,    \* no attempt: lease_attempt IS NULL
    Payload,      \* payload digests; the idempotency key is a hash of one
    NoPayload,    \* the operation has no row in the ledger yet
    Modes,        \* delivery modes a template may declare
    MaxTries,     \* the activity's RetryPolicy.MaximumAttempts
    MaxCalls,     \* bound: activity executions for this operation
    Deadline,     \* how long after its start an attempt, or a request it
                  \* wrote, can still act (start-to-close timeout)
    Lease,        \* operationLease
    Retention,    \* idempotencyRetentionHours
    MaxTime       \* bound on the clock

Never == -1
DestRetention == Retention + Deadline

ASSUME LedgerAssumption ==
    /\ NoAttempt \notin Attempt
    /\ NoPayload \notin Payload
    /\ Modes \subseteq {"idempotent", "lookup", "manual"}
    /\ MaxTries \in Nat \ {0}
    /\ MaxCalls \in Nat
    /\ Deadline \in Nat
    /\ Lease \in Nat
    /\ Retention \in Nat
    /\ MaxTime \in Nat

VARIABLES
    mode,        \* the template's delivery mode
    now,         \* the database clock
    op,          \* the row of table operations
    call,        \* the CallEndpoint activity execution of the workflow
    cur,         \* the attempt Temporal is waiting for
    pc,          \* where each attempt is
    intent,      \* what each attempt was asked to do, and its deadline
    req,         \* what became of the request of each attempt
    appliedAt,   \* destination: when an effect of a payload was last created
    effects,     \* destination: effects created so far
    row,         \* status recorded for the row in job_rows
    decisions,   \* history: calls that carried a decision of the operator
    authorised   \* history: attempts that sent again on such a decision

vars == <<mode, now, op, call, cur, pc, intent, req, appliedAt, effects,
          row, decisions, authorised>>

OpState == {"pending", "sending", "succeeded", "failed", "unknown", "unresolved"}

\* An attempt that has decided what to record waits in one of these.
Outcome == {"not_sent", "responded", "rejected", "unknown", "lookup_failed", "found"}

\* An attempt with one of these holds, or held, the operation's lease.
Holding == {"lookup", "send", "wire"} \cup Outcome

Final     == {"succeeded", "failed", "unresolved"}
Retryable == {"err_unknown", "err_busy", "err_timeout", "err_plain"}

NoIntent == [payload |-> NoPayload, resend |-> FALSE, confirm |-> FALSE,
             deadline |-> 0, call |-> 0]

\* Types of the ledger row, the activity, its attempts and the destination; in
\* particular finish stores one of the six states of an operation.
TypeOK ==
    /\ mode \in Modes
    /\ now \in Nat
    /\ op \in [state : OpState, payload : Payload \cup {NoPayload},
               lease : Attempt \cup {NoAttempt}, leaseUntil : Nat,
               firstSentAt : Nat \cup {Never}]
    /\ call \in [active : BOOLEAN, n : Nat, tries : Nat,
                 payload : Payload \cup {NoPayload},
                 resend : BOOLEAN, confirm : BOOLEAN]
    /\ cur \in Attempt \cup {NoAttempt}
    /\ pc \in [Attempt -> {"idle", "started", "done"} \cup Holding]
    /\ intent \in [Attempt -> [payload : Payload \cup {NoPayload},
                               resend : BOOLEAN, confirm : BOOLEAN,
                               deadline : Nat, call : Nat]]
    /\ req \in [Attempt -> {"none", "inflight", "applied", "refused"}]
    /\ appliedAt \in [Payload -> Nat \cup {Never}]
    /\ effects \in Nat
    /\ row \in Final \cup {"none"}
    /\ decisions \in Nat
    /\ authorised \in SUBSET Attempt

Init ==
    /\ mode \in Modes
    /\ now = 0
    /\ op = [state |-> "pending", payload |-> NoPayload, lease |-> NoAttempt,
             leaseUntil |-> 0, firstSentAt |-> Never]
    /\ call = [active |-> FALSE, n |-> 0, tries |-> 0, payload |-> NoPayload,
               resend |-> FALSE, confirm |-> FALSE]
    /\ cur = NoAttempt
    /\ pc = [a \in Attempt |-> "idle"]
    /\ intent = [a \in Attempt |-> NoIntent]
    /\ req = [a \in Attempt |-> "none"]
    /\ appliedAt = [p \in Payload |-> Never]
    /\ effects = 0
    /\ row = "none"
    /\ decisions = 0
    /\ authorised = {}

-----------------------------------------------------------------------------
(* decideAttempt: the operation's state machine for one attempt. *)

\* Mutant: a sending operation is taken over without waiting for its lease.
EffectiveStateIgnoringLease ==
    IF op.state = "sending" THEN "unknown" ELSE op.state

\* A sending operation whose lease has run out has an unknown outcome.
EffectiveState ==
    IF op.state = "sending" /\ now >= op.leaseUntil THEN "unknown" ELSE op.state

\* Mutant: mode manual sends again after an unknown outcome.
UnknownPolicyResending ==
    IF mode = "lookup" THEN "lookup" ELSE "send"

\* What the delivery mode says of an unknown outcome with the same payload.
UnknownPolicy ==
    CASE mode = "idempotent" ->
            IF op.firstSentAt # Never /\ now - op.firstSentAt > Retention
              THEN "unresolved" ELSE "send"
      [] mode = "lookup" -> "lookup"
      [] OTHER -> "unresolved"

\* Mutant: an unresolved operation is sent again by any retry.
decideAttemptUnconfirmed(in) ==
    LET st == EffectiveState
    IN  CASE st \in {"pending", "failed", "unresolved"} -> "send"
          [] st = "sending" -> "busy"
          [] st = "succeeded" -> IF in.resend THEN "send"
                                 ELSE IF op.payload = in.payload THEN "replay"
                                 ELSE "unresolved"
          [] st = "unknown" -> IF in.confirm THEN "send"
                               ELSE IF op.payload = in.payload THEN UnknownPolicy
                               ELSE "unresolved"

\* in is the attempt's intent.  An operation without a row decides as pending.
decideAttempt(in) ==
    LET st   == EffectiveState
        same == op.payload = in.payload
    IN  CASE st \in {"pending", "failed"} -> "send"
          [] st = "sending" -> "busy"
          [] st = "succeeded" /\ in.resend -> "send"
          [] st = "succeeded" /\ ~in.resend -> IF same THEN "replay" ELSE "unresolved"
          [] st = "unresolved" -> IF in.confirm THEN "send" ELSE "unresolved"
          [] st = "unknown" /\ in.confirm -> "send"
          [] st = "unknown" /\ ~in.confirm -> IF same THEN UnknownPolicy ELSE "unresolved"

-----------------------------------------------------------------------------
(* The workflow's side: the activity execution and how it ends. *)

\* effectMayExist: the row is unresolved only if the last error says so.
effectMayExist(err) == err \in {"err_unknown", "err_busy", "err_timeout"}

RowStatus(reply) ==
    IF reply \in Final THEN reply
    ELSE IF effectMayExist(reply) THEN "unresolved" ELSE "failed"

\* Temporal receives the reply of attempt a: it retries an error while the
\* retry policy allows, and otherwise the workflow records the row.  A reply
\* of an attempt Temporal has timed out is dropped.
Report(a, reply) ==
    IF cur # a THEN UNCHANGED <<cur, call, row>>
    ELSE /\ cur' = NoAttempt
         /\ IF reply \in Retryable /\ call.tries < MaxTries
              THEN UNCHANGED <<call, row>>
              ELSE /\ call' = [call EXCEPT !.active = FALSE]
                   /\ row' = RowStatus(reply)

\* executeStep schedules CallEndpoint: first for the job itself, later for a
\* retry of the row.  retry_row refuses an unresolved row that the operator
\* has not confirmed; a row that was never recorded is not called again.
StartCall(p, resend, confirm) ==
    /\ ~call.active
    /\ call.n < MaxCalls
    /\ call.n = 0 => ~resend /\ ~confirm
    /\ call.n > 0 => row # "none" /\ (row = "unresolved" => confirm)
    /\ call' = [active |-> TRUE, n |-> call.n + 1, tries |-> 0, payload |-> p,
                resend |-> resend, confirm |-> confirm]
    /\ decisions' = IF resend \/ confirm THEN decisions + 1 ELSE decisions
    /\ UNCHANGED <<mode, now, op, cur, pc, intent, req, appliedAt, effects,
                   row, authorised>>

\* The workflow stops waiting without recording the row: it was cancelled, or
\* PersistOutcome failed and stopped the run.  A running attempt goes on.
AbandonCall ==
    /\ call.active
    /\ call' = [call EXCEPT !.active = FALSE]
    /\ cur' = NoAttempt
    /\ UNCHANGED <<mode, now, op, pc, intent, req, appliedAt, effects, row,
                   decisions, authorised>>

StartAttempt(a) ==
    /\ call.active /\ cur = NoAttempt /\ call.tries < MaxTries
    /\ pc[a] = "idle"
    /\ cur' = a
    /\ call' = [call EXCEPT !.tries = @ + 1]
    /\ pc' = [pc EXCEPT ![a] = "started"]
    /\ intent' = [intent EXCEPT ![a] =
                    [payload |-> call.payload, resend |-> call.resend,
                     confirm |-> call.confirm, deadline |-> now + Deadline,
                     call |-> call.n]]
    /\ UNCHANGED <<mode, now, op, req, appliedAt, effects, row, decisions, authorised>>

\* Heartbeat or start-to-close timeout: Temporal stops waiting for the
\* attempt.  CallEndpoint never heartbeats, so the worker does not notice.
TimeoutAttempt ==
    /\ cur # NoAttempt
    /\ Report(cur, "err_timeout")
    /\ UNCHANGED <<mode, now, op, pc, intent, req, appliedAt, effects,
                   decisions, authorised>>

-----------------------------------------------------------------------------
(* The attempt's side: CallEndpoint on a worker. *)

Alive(a) == now < intent[a].deadline

Done(a) == pc' = [pc EXCEPT ![a] = "done"]

\* resolveAuth: the secret is missing or revoked; not retryable, nothing sent.
SecretUnavailable(a) ==
    /\ pc[a] = "started" /\ Alive(a)
    /\ Done(a)
    /\ Report(a, "failed")
    /\ UNCHANGED <<mode, now, op, intent, req, appliedAt, effects, decisions,
                   authorised>>

\* The transaction of begin fails and is rolled back.
BeginFails(a) ==
    /\ pc[a] = "started" /\ Alive(a)
    /\ Done(a)
    /\ Report(a, "err_plain")
    /\ UNCHANGED <<mode, now, op, intent, req, appliedAt, effects, decisions,
                   authorised>>

\* begin takes the lease: the attempt may send, or look up before sending.
BeginSend(a) ==
    LET d == decideAttempt(intent[a]) IN
    /\ pc[a] = "started" /\ Alive(a)
    /\ d \in {"send", "lookup"}
    /\ op' = [state |-> "sending", payload |-> intent[a].payload, lease |-> a,
              leaseUntil |-> now + Lease,
              firstSentAt |-> IF op.firstSentAt = Never THEN now ELSE op.firstSentAt]
    /\ pc' = [pc EXCEPT ![a] = d]
    /\ authorised' = IF d = "send" /\ \/ EffectiveState = "succeeded"
                                      \/ EffectiveState = "unresolved"
                                      \/ EffectiveState = "unknown" /\ intent[a].confirm
                       THEN authorised \cup {a} ELSE authorised
    /\ UNCHANGED <<mode, now, call, cur, intent, req, appliedAt, effects, row,
                   decisions>>

\* begin refuses: the operation becomes unresolved and any lease is cleared.
BeginUnresolved(a) ==
    /\ pc[a] = "started" /\ Alive(a)
    /\ decideAttempt(intent[a]) = "unresolved"
    /\ op' = [op EXCEPT !.state = "unresolved", !.lease = NoAttempt, !.leaseUntil = 0]
    /\ Done(a)
    /\ Report(a, "unresolved")
    /\ UNCHANGED <<mode, now, intent, req, appliedAt, effects, decisions, authorised>>

\* begin changes nothing: another attempt is sending, or the receipt is stored.
BeginNoChange(a) ==
    LET d == decideAttempt(intent[a]) IN
    /\ pc[a] = "started" /\ Alive(a)
    /\ d \in {"busy", "replay"}
    /\ Done(a)
    /\ Report(a, IF d = "busy" THEN "err_busy" ELSE "succeeded")
    /\ UNCHANGED <<mode, now, op, intent, req, appliedAt, effects, decisions,
                   authorised>>

\* lookupEffect: an error, a record that proves the effect, or none.
LookupResult(a) ==
    IF appliedAt[intent[a].payload] # Never THEN {"found", "lookup_failed"}
                                            ELSE {"send", "lookup_failed"}

lookupEffect(a, result) ==
    /\ pc[a] = "lookup" /\ Alive(a)
    /\ result \in LookupResult(a)
    /\ pc' = [pc EXCEPT ![a] = result]
    /\ UNCHANGED <<mode, now, op, call, cur, intent, req, appliedAt, effects,
                   row, decisions, authorised>>

\* The request fails before its headers are written (rate limiter, dial, TLS).
SendNotWritten(a) ==
    /\ pc[a] = "send" /\ Alive(a)
    /\ pc' = [pc EXCEPT ![a] = "not_sent"]
    /\ UNCHANGED <<mode, now, op, call, cur, intent, req, appliedAt, effects,
                   row, decisions, authorised>>

SendWrite(a) ==
    /\ pc[a] = "send" /\ Alive(a)
    /\ pc' = [pc EXCEPT ![a] = "wire"]
    /\ req' = [req EXCEPT ![a] = "inflight"]
    /\ UNCHANGED <<mode, now, op, call, cur, intent, appliedAt, effects, row,
                   decisions, authorised>>

\* The destination applies a request it received.  In mode idempotent a key
\* it remembers creates no second effect.
Deduplicated(p) ==
    /\ mode = "idempotent"
    /\ appliedAt[p] # Never
    /\ now - appliedAt[p] <= DestRetention

DestApply(a) ==
    LET p == intent[a].payload IN
    /\ req[a] = "inflight" /\ Alive(a)
    /\ req' = [req EXCEPT ![a] = "applied"]
    /\ IF Deduplicated(p)
         THEN UNCHANGED <<appliedAt, effects>>
         ELSE /\ appliedAt' = [appliedAt EXCEPT ![p] = now]
              /\ effects' = effects + 1
    /\ UNCHANGED <<mode, now, op, call, cur, pc, intent, row, decisions, authorised>>

\* The response, classified: 2xx only after the effect; 4xx and 429 instead of
\* it; 408, 5xx or a lost response either way.  When the worker has stopped
\* waiting for the response the destination no longer acts on the request.
Response(a, outcome) ==
    /\ pc[a] = "wire" /\ Alive(a)
    /\ \/ outcome = "responded" /\ req[a] = "applied"
       \/ outcome \in {"rejected", "not_sent"} /\ req[a] = "inflight"
       \/ outcome = "unknown"
    /\ pc' = [pc EXCEPT ![a] = outcome]
    /\ req' = [req EXCEPT ![a] = IF @ = "inflight" THEN "refused" ELSE @]
    /\ UNCHANGED <<mode, now, op, call, cur, intent, appliedAt, effects, row,
                   decisions, authorised>>

\* The state finish records, and the reply the attempt then returns.
FinishState(outcome) ==
    CASE outcome = "not_sent" -> "pending"
      [] outcome \in {"responded", "found"} -> "succeeded"
      [] outcome = "rejected" -> "failed"
      [] outcome = "unknown" -> IF mode = "manual" THEN "unresolved" ELSE "unknown"
      [] outcome = "lookup_failed" -> "unknown"

FinishReply(outcome) ==
    CASE outcome = "not_sent" -> "err_plain"
      [] outcome \in {"responded", "found"} -> "succeeded"
      [] outcome = "rejected" -> "failed"
      [] outcome = "unknown" -> IF mode = "manual" THEN "unresolved" ELSE "err_unknown"
      [] outcome = "lookup_failed" -> "err_unknown"

\* Mutant: finish updates the row by its key alone.
FinishUnfenced(a) ==
    /\ pc[a] \in Outcome /\ Alive(a)
    /\ op' = [op EXCEPT !.state = FinishState(pc[a]), !.lease = NoAttempt,
                        !.leaseUntil = 0]
    /\ Done(a)
    /\ Report(a, FinishReply(pc[a]))
    /\ UNCHANGED <<mode, now, intent, req, appliedAt, effects, decisions, authorised>>

\* finish: conditional on still holding the lease.
Finish(a) ==
    /\ pc[a] \in Outcome /\ Alive(a)
    /\ op.lease = a
    /\ op' = [op EXCEPT !.state = FinishState(pc[a]), !.lease = NoAttempt,
                        !.leaseUntil = 0]
    /\ Done(a)
    /\ Report(a, FinishReply(pc[a]))
    /\ UNCHANGED <<mode, now, intent, req, appliedAt, effects, decisions, authorised>>

\* errLeaseLost: another attempt took the operation over.
FinishLeaseLost(a) ==
    /\ pc[a] \in Outcome /\ Alive(a)
    /\ op.lease # a
    /\ Done(a)
    /\ Report(a, "err_plain")
    /\ UNCHANGED <<mode, now, op, intent, req, appliedAt, effects, decisions,
                   authorised>>

\* finishWithRetry gives up: the database stayed unavailable.
FinishFails(a) ==
    /\ pc[a] \in Outcome /\ Alive(a)
    /\ Done(a)
    /\ Report(a, "err_plain")
    /\ UNCHANGED <<mode, now, op, intent, req, appliedAt, effects, decisions,
                   authorised>>

\* The worker dies, or the attempt's context has ended; nobody is told.
Die(a) ==
    /\ pc[a] \notin {"idle", "done"}
    /\ Done(a)
    /\ UNCHANGED <<mode, now, op, call, cur, intent, req, appliedAt, effects,
                   row, decisions, authorised>>

Tick ==
    /\ now < MaxTime
    /\ now' = now + 1
    /\ UNCHANGED <<mode, op, call, cur, pc, intent, req, appliedAt, effects,
                   row, decisions, authorised>>

-----------------------------------------------------------------------------

AttemptStep(a) ==
    \/ SecretUnavailable(a) \/ BeginFails(a)
    \/ BeginSend(a) \/ BeginUnresolved(a) \/ BeginNoChange(a)
    \/ \E r \in {"found", "lookup_failed", "send"} : lookupEffect(a, r)
    \/ SendNotWritten(a) \/ SendWrite(a)
    \/ \E o \in Outcome : Response(a, o)
    \/ Finish(a) \/ FinishLeaseLost(a) \/ FinishFails(a)
    \/ Die(a)

Next ==
    \/ \E p \in Payload, resend, confirm \in BOOLEAN : StartCall(p, resend, confirm)
    \/ AbandonCall
    \/ \E a \in Attempt : StartAttempt(a)
    \/ TimeoutAttempt
    \/ \E a \in Attempt : AttemptStep(a)
    \/ \E a \in Attempt : DestApply(a)
    \/ Tick

Spec == Init /\ [][Next]_vars
-----------------------------------------------------------------------------
(* Properties. *)

\* The attempt can still reach the destination: it is about to, or its request
\* is there and not yet decided.
CanReach(a) ==
    Alive(a) /\ (pc[a] \in {"lookup", "send", "wire"} \/ req[a] = "inflight")

\* The lease keeps two attempts from being at the destination together, as
\* long as it outlives them (operations.go: operationLease "outlives the
\* CallEndpoint start-to-close timeout"), whatever Temporal, the workers and
\* the database do: the lookup of one attempt never races the send of another.
OneLiveSender ==
    Deadline <= Lease =>
        \A a, b \in Attempt : CanReach(a) /\ CanReach(b) => a = b

\* Success is never invented: an operation the ledger calls succeeded has an
\* effect of exactly the payload it records, and a row reported succeeded has
\* an effect.  It holds even when an attempt outlives its lease, because
\* finish writes only while lease_attempt is still its own.
SuccessIsReal ==
    /\ op.state = "succeeded" => op.payload \in Payload /\ appliedAt[op.payload] # Never
    /\ row = "succeeded" => effects > 0

\* Without a deduplicating destination, an effect beyond the first is the work
\* of an attempt that sent again on an operator's decision (a from-start retry
\* of a succeeded operation, or a confirmation that nothing was applied), and
\* one decision covers the attempts of the one call that carries it.  So until
\* somebody decides, no timeout, crash, lost response or lost receipt write
\* repeats an effect; after a decision Temporal's own retries of that call may,
\* MaxTries of them (ManualNotRetriedAutomatically below is what ADR 0003 says).
EffectsAuthorised ==
    Deadline <= Lease /\ mode # "idempotent" =>
        /\ effects <= 1 + Cardinality(authorised)
        /\ Cardinality(authorised) <= MaxTries * decisions

\* Fencing: while a lease is live, only its holder changes the operation, and
\* only by recording its outcome.
LiveLeaseIsExclusive ==
    [][op.state = "sending" /\ now < op.leaseUntil /\ op' # op =>
          /\ pc[op.lease] \in Outcome
          /\ pc'[op.lease] = "done"]_vars

\* The policy bounds the effects: the destination does not deduplicate, and a
\* lease outlives its attempt.
Exact == Deadline <= Lease /\ mode # "idempotent"

Abstract == INSTANCE Delivery WITH
    Tries <- MaxTries, exact <- Exact, open <- call.active

\* What the owner of the row sees of the ledger is a behaviour of Delivery:
\* each call is answered at most once, an attempt that Temporal gave up on
\* reports nothing, a row that was left unresolved is asked for again only with
\* a confirmation, and an effect is repeated only after an operator decided so
\* in a retry of the row, at most once per attempt of that retry, however
\* attempts overlap.
ImplementsDelivery == Abstract!Spec

\* ADR 0003: in mode manual an operation of unknown outcome "is not retried
\* automatically": no two attempts of one activity execution both put a
\* request on the wire that may have been applied.
ManualNotRetriedAutomatically ==
    mode = "manual" =>
        \A a, b \in Attempt :
            /\ req[a] \in {"inflight", "applied"}
            /\ req[b] \in {"inflight", "applied"}
            /\ intent[a].call = intent[b].call
            => a = b

\* ADR 0003: "one effect when the declared policy holds, otherwise an explicit
\* unresolved row", for a destination that deduplicates as declared.
OneEffectPerDecision == effects <= 1 + decisions

\* ADR 0003, the other half: a row that is reported failed has no effect that
\* nobody decided on.
FailedRowHasNoEffect ==
    row = "failed" /\ ~call.active /\ decisions = 0 => effects = 0
=============================================================================
