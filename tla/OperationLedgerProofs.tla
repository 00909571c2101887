------------------------ MODULE OperationLedgerProofs ------------------------
(***************************************************************************)
(* Proofs that the operation ledger keeps its promises for every set of    *)
(* attempts and payloads, every retry policy and every clock.              *)
(*                                                                         *)
(* TypeOK and LedgerInv hold whatever the lease.  HolderInv and EffectsInv *)
(* are about a lease that outlives the attempt (Deadline <= Lease), the    *)
(* relation operations.go establishes between operationLease and the       *)
(* start-to-close timeout.                                                 *)
(***************************************************************************)
EXTENDS OperationLedger, FiniteSetTheorems, TLAPS

\* Where an attempt is tells what it was given and what became of its request.
AttemptInv ==
    \A a \in Attempt :
        /\ pc[a] # "idle" => /\ intent[a].payload \in Payload
                             /\ intent[a].deadline <= now + Deadline
        /\ pc[a] \in {"idle", "started", "lookup", "send"} => req[a] = "none"
        /\ pc[a] \in Outcome => req[a] # "inflight"
        /\ req[a] = "applied" => appliedAt[intent[a].payload] # Never
        /\ pc[a] \in {"responded", "found"} => appliedAt[intent[a].payload] # Never
        /\ pc[a] = "responded" => req[a] = "applied"

\* The operation's row: leased exactly while sending, with the payload of the
\* holder; succeeded only with an effect of its payload.
RowInv ==
    /\ call.active => call.payload \in Payload
    /\ op.state = "sending" <=> op.lease # NoAttempt
    /\ \A a \in Attempt : op.lease = a => /\ pc[a] \notin {"idle", "started"}
                                          /\ op.payload = intent[a].payload
    /\ op.state = "succeeded" => /\ op.payload \in Payload
                                 /\ appliedAt[op.payload] # Never
    /\ row = "succeeded" => effects > 0
    /\ \A p \in Payload : appliedAt[p] # Never => effects > 0

LedgerInv == TypeOK /\ AttemptInv /\ RowInv

\* An attempt that can still act holds the lease, and the lease outlives it.
HolderInv ==
    \A a \in Attempt :
        Alive(a) /\ (pc[a] \in Holding \/ req[a] = "inflight") =>
            /\ op.state = "sending"
            /\ op.lease = a
            /\ intent[a].deadline <= op.leaseUntil

\* Attempts that sent again on a decision of the operator.
Resends == Cardinality(authorised)

\* Where no effect may have been added since the last decision, none was.
EffectsInv ==
    /\ effects <= 1 + Resends
    /\ op.state \in {"pending", "failed"} => effects <= Resends
    /\ effects > Resends => /\ op.payload \in Payload
                            /\ appliedAt[op.payload] # Never
    /\ \A a \in Attempt :
          /\ Alive(a)
          /\ pc[a] \in {"send", "not_sent", "rejected"} \/ req[a] = "inflight"
          => effects <= Resends

\* An attempt that has not started carries no decision.
IdleInv ==
    \A a \in Attempt : pc[a] = "idle" => ~intent[a].resend /\ ~intent[a].confirm

\* The call, and the attempts, that carry a decision of the operator.
Carries  == call.resend \/ call.confirm
Carriers == {a \in Attempt : intent[a].resend \/ intent[a].confirm}

\* Only an attempt that carries a decision sends again on one, once; and a
\* decision is carried by the attempts of its call, MaxTries at most.
CarryInv ==
    /\ IdleInv
    /\ IsFiniteSet(Carriers)
    /\ authorised \subseteq Carriers
    /\ \A a \in authorised : pc[a] \notin {"idle", "started"}
    /\ call.tries <= MaxTries
    /\ Carries => /\ decisions > 0
                  /\ Cardinality(Carriers) <= MaxTries * (decisions - 1) + call.tries
    /\ ~Carries => Cardinality(Carriers) <= MaxTries * decisions

-----------------------------------------------------------------------------
(* Types. *)

\* Report touches only what Temporal and the workflow keep, and keeps its type.
LEMMA ReportType ==
    ASSUME TypeOK, NEW a \in Attempt, NEW r \in Final \cup Retryable, Report(a, r)
    PROVE  /\ cur' \in Attempt \cup {NoAttempt}
           /\ call' \in [active : BOOLEAN, n : Nat, tries : Nat,
                         payload : Payload \cup {NoPayload},
                         resend : BOOLEAN, confirm : BOOLEAN]
           /\ row' \in Final \cup {"none"}
           /\ call'.active => call.active
           /\ call'.payload = call.payload
           /\ row' = "succeeded" => row = "succeeded" \/ r = "succeeded"
  <1>1. CASE cur # a
    BY <1>1 DEF Report, TypeOK
  <1>2. CASE cur = a /\ r \in Retryable /\ call.tries < MaxTries
    BY <1>2 DEF Report, TypeOK
  <1>3. CASE cur = a /\ ~(r \in Retryable /\ call.tries < MaxTries)
    <2>1. /\ cur' = NoAttempt
          /\ call' = [call EXCEPT !.active = FALSE]
          /\ row' = RowStatus(r)
      BY <1>3 DEF Report
    <2>2. RowStatus(r) \in Final /\ (RowStatus(r) = "succeeded" => r = "succeeded")
      BY DEF RowStatus, effectMayExist, Final, Retryable
    <2> QED
      BY <2>1, <2>2 DEF TypeOK
  <1> QED
    BY <1>1, <1>2, <1>3

\* What finish records and replies are a state and a reply.
LEMMA FinishTypes ==
    ASSUME NEW o \in Outcome
    PROVE  /\ FinishState(o) \in OpState \ {"sending"}
           /\ FinishReply(o) \in Final \cup Retryable
           /\ FinishState(o) = "succeeded" => o \in {"responded", "found"}
           /\ FinishReply(o) = "succeeded" => o \in {"responded", "found"}
           /\ FinishState(o) \in {"pending", "failed"} => o \in {"not_sent", "rejected"}
  BY DEF FinishState, FinishReply, Outcome, OpState, Final, Retryable

LEMMA TypeInit == Init => TypeOK
  BY LedgerAssumption DEF Init, TypeOK, NoIntent, OpState, Final, Never

LEMMA TypeNext == TypeOK /\ [Next]_vars => TypeOK'
  <1> SUFFICES ASSUME TypeOK, [Next]_vars PROVE TypeOK'
    OBVIOUS
  <1> USE LedgerAssumption
  <1>1. ASSUME NEW p \in Payload, NEW resend \in BOOLEAN, NEW confirm \in BOOLEAN,
               StartCall(p, resend, confirm)
        PROVE  TypeOK'
    BY <1>1 DEF StartCall, TypeOK
  <1>2. CASE AbandonCall
    BY <1>2 DEF AbandonCall, TypeOK
  <1>3. ASSUME NEW a \in Attempt, StartAttempt(a) PROVE TypeOK'
    <2>1. intent' \in [Attempt -> [payload : Payload \cup {NoPayload},
                               resend : BOOLEAN, confirm : BOOLEAN,
                               deadline : Nat, call : Nat]]
      BY <1>3 DEF StartAttempt, TypeOK
    <2>2. call' \in [active : BOOLEAN, n : Nat, tries : Nat,
                 payload : Payload \cup {NoPayload},
                 resend : BOOLEAN, confirm : BOOLEAN]
      BY <1>3 DEF StartAttempt, TypeOK
    <2> QED
      BY <1>3, <2>1, <2>2 DEF StartAttempt, TypeOK
  <1>4. CASE TimeoutAttempt
    <2>1. cur \in Attempt /\ "err_timeout" \in Final \cup Retryable
      BY <1>4 DEF TimeoutAttempt, TypeOK, Retryable
    <2> QED
      BY <1>4, <2>1, ReportType DEF TimeoutAttempt, TypeOK
  <1>5. ASSUME NEW a \in Attempt, AttemptStep(a) PROVE TypeOK'
    <2>0. /\ "failed" \in Final \cup Retryable
          /\ "err_plain" \in Final \cup Retryable
          /\ "unresolved" \in Final \cup Retryable
          /\ "err_busy" \in Final \cup Retryable
          /\ "succeeded" \in Final \cup Retryable
      BY DEF Final, Retryable
    <2>1. CASE SecretUnavailable(a)
      BY <2>0, <2>1, ReportType DEF SecretUnavailable, Done, TypeOK
    <2>2. CASE BeginFails(a)
      BY <2>0, <2>2, ReportType DEF BeginFails, Done, TypeOK
    <2>3. CASE BeginSend(a)
      <3>1. op' \in [state : OpState, payload : Payload \cup {NoPayload},
               lease : Attempt \cup {NoAttempt}, leaseUntil : Nat,
               firstSentAt : Nat \cup {Never}]
        BY <2>3 DEF BeginSend, TypeOK, OpState
      <3>2. pc' \in [Attempt -> {"idle", "started", "done"} \cup Holding]
        BY <2>3 DEF BeginSend, TypeOK, Holding
      <3>3. authorised' \in SUBSET Attempt
        BY <2>3 DEF BeginSend, TypeOK
      <3> QED
        BY <2>3, <3>1, <3>2, <3>3 DEF BeginSend, TypeOK
    <2>4. CASE BeginUnresolved(a)
      BY <2>0, <2>4, ReportType DEF BeginUnresolved, Done, TypeOK, OpState
    <2>5. CASE BeginNoChange(a)
      <3>1. CASE decideAttempt(intent[a]) = "busy"
        BY <2>0, <2>5, <3>1, ReportType DEF BeginNoChange, Done, TypeOK
      <3>2. CASE decideAttempt(intent[a]) # "busy"
        BY <2>0, <2>5, <3>2, ReportType DEF BeginNoChange, Done, TypeOK
      <3> QED
        BY <3>1, <3>2
    <2>6. ASSUME NEW r \in {"found", "lookup_failed", "send"}, lookupEffect(a, r)
          PROVE  TypeOK'
      BY <2>6 DEF lookupEffect, TypeOK, Holding, Outcome
    <2>7. CASE SendNotWritten(a)
      BY <2>7 DEF SendNotWritten, TypeOK, Holding, Outcome
    <2>8. CASE SendWrite(a)
      BY <2>8 DEF SendWrite, TypeOK, Holding
    <2>9. ASSUME NEW o \in Outcome, Response(a, o) PROVE TypeOK'
      BY <2>9 DEF Response, TypeOK, Holding
    <2>10. CASE Finish(a)
      <3>1. op' \in [state : OpState, payload : Payload \cup {NoPayload},
               lease : Attempt \cup {NoAttempt}, leaseUntil : Nat,
               firstSentAt : Nat \cup {Never}]
        BY <2>10, FinishTypes DEF Finish, TypeOK
      <3> QED
        BY <2>10, <3>1, FinishTypes, ReportType DEF Finish, Done, TypeOK
    <2>11. CASE FinishLeaseLost(a)
      BY <2>0, <2>11, ReportType DEF FinishLeaseLost, Done, TypeOK
    <2>12. CASE FinishFails(a)
      BY <2>0, <2>12, ReportType DEF FinishFails, Done, TypeOK
    <2>13. CASE Die(a)
      BY <2>13 DEF Die, Done, TypeOK
    <2> QED
      BY <1>5, <2>1, <2>2, <2>3, <2>4, <2>5, <2>6, <2>7, <2>8, <2>9, <2>10,
         <2>11, <2>12, <2>13 DEF AttemptStep
  <1>6. ASSUME NEW a \in Attempt, DestApply(a) PROVE TypeOK'
    BY <1>6 DEF DestApply, TypeOK
  <1>7. CASE Tick
    BY <1>7 DEF Tick, TypeOK
  <1>8. CASE UNCHANGED vars
    BY <1>8 DEF vars, TypeOK
  <1> QED
    BY <1>1, <1>2, <1>3, <1>4, <1>5, <1>6, <1>7, <1>8 DEF Next

\* Every variable keeps its type: the ledger only ever holds the six states of
\* operations.state, and an attempt only the steps CallEndpoint has.
THEOREM TypeCorrect == Spec => []TypeOK
  BY TypeInit, TypeNext, PTL DEF Spec

-----------------------------------------------------------------------------
(* What each attempt and the operation's row say, whatever the lease. *)

\* What decideAttempt's answers say about the operation.
LEMMA DecideFacts ==
    ASSUME TypeOK, NEW in
    PROVE  /\ decideAttempt(in) = "replay" => op.state = "succeeded" /\ op.payload = in.payload
           /\ decideAttempt(in) = "lookup" => EffectiveState = "unknown" /\ op.payload = in.payload
           /\ EffectiveState = "sending" => decideAttempt(in) = "busy"
           /\ decideAttempt(in) = "send" /\ mode # "idempotent" =>
                \/ EffectiveState \in {"pending", "failed"}
                \/ EffectiveState \in {"succeeded", "unresolved"}
                \/ EffectiveState = "unknown" /\ in.confirm
  <1>1. EffectiveState \in OpState /\ mode \in {"idempotent", "lookup", "manual"}
    BY LedgerAssumption DEF EffectiveState, TypeOK, OpState
  <1>2. EffectiveState = "succeeded" => op.state = "succeeded"
    BY DEF EffectiveState
  <1>3. UnknownPolicy \in {"send", "lookup", "unresolved"}
        /\ (UnknownPolicy = "send" => mode = "idempotent")
    BY <1>1 DEF UnknownPolicy
  <1> QED
    BY <1>1, <1>2, <1>3 DEF decideAttempt, OpState

LEMMA LedgerInit == Init => LedgerInv
  <1> SUFFICES ASSUME Init PROVE LedgerInv
    OBVIOUS
  <1>1. TypeOK
    BY TypeInit
  <1>2. AttemptInv
    BY DEF Init, AttemptInv, Outcome
  <1>3. RowInv
    BY LedgerAssumption DEF Init, RowInv
  <1> QED
    BY <1>1, <1>2, <1>3 DEF LedgerInv

LEMMA AttemptNext == LedgerInv /\ [Next]_vars => AttemptInv'
  <1> SUFFICES ASSUME LedgerInv, [Next]_vars PROVE AttemptInv'
    OBVIOUS
  <1> USE LedgerAssumption DEF LedgerInv
  <1>1. ASSUME NEW p \in Payload, NEW resend \in BOOLEAN, NEW confirm \in BOOLEAN,
               StartCall(p, resend, confirm)
        PROVE  AttemptInv'
    BY <1>1 DEF StartCall, AttemptInv
  <1>2. CASE AbandonCall
    BY <1>2 DEF AbandonCall, AttemptInv
  <1>3. ASSUME NEW a \in Attempt, StartAttempt(a) PROVE AttemptInv'
    BY <1>3 DEF StartAttempt, AttemptInv, RowInv, TypeOK, Outcome
  <1>4. CASE TimeoutAttempt
    BY <1>4 DEF TimeoutAttempt, AttemptInv
  <1>5. ASSUME NEW a \in Attempt, AttemptStep(a) PROVE AttemptInv'
    <2>1. CASE SecretUnavailable(a)
      BY <2>1 DEF SecretUnavailable, Done, AttemptInv, TypeOK, Outcome
    <2>2. CASE BeginFails(a)
      BY <2>2 DEF BeginFails, Done, AttemptInv, TypeOK, Outcome
    <2>3. CASE BeginSend(a)
      BY <2>3 DEF BeginSend, AttemptInv, TypeOK, Outcome
    <2>4. CASE BeginUnresolved(a)
      BY <2>4 DEF BeginUnresolved, Done, AttemptInv, TypeOK, Outcome
    <2>5. CASE BeginNoChange(a)
      BY <2>5 DEF BeginNoChange, Done, AttemptInv, TypeOK, Outcome
    <2>6. ASSUME NEW r \in {"found", "lookup_failed", "send"}, lookupEffect(a, r)
          PROVE  AttemptInv'
      <3>1. r = "found" => appliedAt[intent[a].payload] # Never
        BY <2>6 DEF lookupEffect, LookupResult
      <3> QED
        BY <2>6, <3>1 DEF lookupEffect, AttemptInv, TypeOK, Outcome
    <2>7. CASE SendNotWritten(a)
      BY <2>7 DEF SendNotWritten, AttemptInv, TypeOK, Outcome
    <2>8. CASE SendWrite(a)
      BY <2>8 DEF SendWrite, AttemptInv, TypeOK, Outcome
    <2>9. ASSUME NEW o \in Outcome, Response(a, o) PROVE AttemptInv'
      BY <2>9 DEF Response, AttemptInv, TypeOK, Outcome
    <2>10. CASE Finish(a)
      BY <2>10 DEF Finish, Done, AttemptInv, TypeOK, Outcome
    <2>11. CASE FinishLeaseLost(a)
      BY <2>11 DEF FinishLeaseLost, Done, AttemptInv, TypeOK, Outcome
    <2>12. CASE FinishFails(a)
      BY <2>12 DEF FinishFails, Done, AttemptInv, TypeOK, Outcome
    <2>13. CASE Die(a)
      BY <2>13 DEF Die, Done, AttemptInv, TypeOK, Outcome
    <2> QED
      BY <1>5, <2>1, <2>2, <2>3, <2>4, <2>5, <2>6, <2>7, <2>8, <2>9, <2>10,
         <2>11, <2>12, <2>13 DEF AttemptStep
  <1>6. ASSUME NEW a \in Attempt, DestApply(a) PROVE AttemptInv'
    <2>1. intent[a].payload \in Payload
      BY <1>6 DEF DestApply, AttemptInv
    <2>2. \A p \in Payload : appliedAt[p] # Never => appliedAt'[p] # Never
      BY <1>6 DEF DestApply, TypeOK, Never
    <2>3. appliedAt'[intent[a].payload] # Never
      BY <1>6, <2>1 DEF DestApply, Deduplicated, TypeOK, Never
    <2>4. \A b \in Attempt : req'[b] = IF b = a THEN "applied" ELSE req[b]
      BY <1>6 DEF DestApply, TypeOK
    <2>5. \A b \in Attempt : pc[b] = "idle" => req[b] = "none"
      BY DEF AttemptInv
    <2> QED
      BY <1>6, <2>1, <2>2, <2>3, <2>4, <2>5 DEF DestApply, AttemptInv, Outcome
  <1>7. CASE Tick
    BY <1>7 DEF Tick, AttemptInv, TypeOK
  <1>8. CASE UNCHANGED vars
    BY <1>8 DEF vars, AttemptInv
  <1> QED
    BY <1>1, <1>2, <1>3, <1>4, <1>5, <1>6, <1>7, <1>8 DEF Next

LEMMA RowNext == LedgerInv /\ [Next]_vars => RowInv'
  <1> SUFFICES ASSUME LedgerInv, [Next]_vars PROVE RowInv'
    OBVIOUS
  <1> USE LedgerAssumption DEF LedgerInv
  <1>1. ASSUME NEW p \in Payload, NEW resend \in BOOLEAN, NEW confirm \in BOOLEAN,
               StartCall(p, resend, confirm)
        PROVE  RowInv'
    BY <1>1 DEF StartCall, RowInv
  <1>2. CASE AbandonCall
    BY <1>2 DEF AbandonCall, RowInv, TypeOK
  <1>3. ASSUME NEW a \in Attempt, StartAttempt(a) PROVE RowInv'
    BY <1>3 DEF StartAttempt, RowInv, TypeOK
  <1>4. CASE TimeoutAttempt
    <2>1. cur \in Attempt /\ "err_timeout" \in Final \cup Retryable
      BY <1>4 DEF TimeoutAttempt, TypeOK, Retryable
    <2> QED
      BY <1>4, <2>1, ReportType DEF TimeoutAttempt, RowInv
  <1>5. ASSUME NEW a \in Attempt, AttemptStep(a) PROVE RowInv'
    <2>0. /\ "failed" \in Final \cup Retryable
          /\ "err_plain" \in Final \cup Retryable
          /\ "unresolved" \in Final \cup Retryable
          /\ "err_busy" \in Final \cup Retryable
          /\ "succeeded" \in Final \cup Retryable
      BY DEF Final, Retryable
    <2>1. CASE SecretUnavailable(a)
      BY <2>0, <2>1, ReportType DEF SecretUnavailable, Done, RowInv, TypeOK
    <2>2. CASE BeginFails(a)
      BY <2>0, <2>2, ReportType DEF BeginFails, Done, RowInv, TypeOK
    <2>3. CASE BeginSend(a)
      <3>1. \A b \in Attempt : op'.lease = b <=> b = a
        BY <2>3 DEF BeginSend
      <3> QED
        BY <2>3, <3>1 DEF BeginSend, RowInv, TypeOK
    <2>4. CASE BeginUnresolved(a)
      <3>1. op'.state = "unresolved" /\ op'.lease = NoAttempt
        BY <2>4 DEF BeginUnresolved, TypeOK
      <3> QED
        BY <2>0, <2>4, <3>1, ReportType DEF BeginUnresolved, Done, RowInv, TypeOK
    <2>5. CASE BeginNoChange(a)
      <3>1. CASE decideAttempt(intent[a]) = "busy"
        BY <2>0, <2>5, <3>1, ReportType DEF BeginNoChange, Done, RowInv, TypeOK
      <3>2. CASE decideAttempt(intent[a]) # "busy"
        <4>1. decideAttempt(intent[a]) = "replay"
          BY <2>5, <3>2 DEF BeginNoChange
        <4>2. effects > 0
          BY <4>1, DecideFacts DEF RowInv
        <4> QED
          BY <2>0, <2>5, <3>2, <4>2, ReportType DEF BeginNoChange, Done, RowInv, TypeOK
      <3> QED
        BY <3>1, <3>2
    <2>6. ASSUME NEW r \in {"found", "lookup_failed", "send"}, lookupEffect(a, r)
          PROVE  RowInv'
      BY <2>6 DEF lookupEffect, RowInv, TypeOK
    <2>7. CASE SendNotWritten(a)
      BY <2>7 DEF SendNotWritten, RowInv, TypeOK
    <2>8. CASE SendWrite(a)
      BY <2>8 DEF SendWrite, RowInv, TypeOK
    <2>9. ASSUME NEW o \in Outcome, Response(a, o) PROVE RowInv'
      BY <2>9 DEF Response, RowInv, TypeOK, Outcome
    <2>10. CASE Finish(a)
      <3>1. /\ op'.state = FinishState(pc[a])
            /\ op'.lease = NoAttempt
            /\ op'.payload = op.payload
        BY <2>10 DEF Finish, TypeOK
      <3>2. op.payload = intent[a].payload /\ intent[a].payload \in Payload
        BY <2>10 DEF Finish, RowInv, AttemptInv
      <3>3. pc[a] \in {"responded", "found"} =>
              appliedAt[op.payload] # Never /\ effects > 0
        BY <3>2 DEF AttemptInv, RowInv
      <3>4. /\ FinishState(pc[a]) # "sending"
            /\ FinishState(pc[a]) = "succeeded" => appliedAt[op.payload] # Never
            /\ FinishReply(pc[a]) = "succeeded" => effects > 0
            /\ FinishReply(pc[a]) \in Final \cup Retryable
        BY <2>10, <3>3, FinishTypes DEF Finish
      <3>5. /\ call'.active => call.active
            /\ call'.payload = call.payload
            /\ row' = "succeeded" => row = "succeeded" \/ FinishReply(pc[a]) = "succeeded"
        BY <2>10, <3>4, ReportType DEF Finish
      <3> QED
        BY <2>10, <3>1, <3>2, <3>4, <3>5 DEF Finish, Done, RowInv, TypeOK
    <2>11. CASE FinishLeaseLost(a)
      BY <2>0, <2>11, ReportType DEF FinishLeaseLost, Done, RowInv, TypeOK
    <2>12. CASE FinishFails(a)
      BY <2>0, <2>12, ReportType DEF FinishFails, Done, RowInv, TypeOK
    <2>13. CASE Die(a)
      BY <2>13 DEF Die, Done, RowInv, TypeOK
    <2> QED
      BY <1>5, <2>1, <2>2, <2>3, <2>4, <2>5, <2>6, <2>7, <2>8, <2>9, <2>10,
         <2>11, <2>12, <2>13 DEF AttemptStep
  <1>6. ASSUME NEW a \in Attempt, DestApply(a) PROVE RowInv'
    <2>1. \A p \in Payload : appliedAt[p] # Never => appliedAt'[p] # Never
      BY <1>6 DEF DestApply, TypeOK, Never
    <2>2. effects' >= effects /\ (appliedAt' # appliedAt => effects' > 0)
      BY <1>6 DEF DestApply, TypeOK
    <2> QED
      BY <1>6, <2>1, <2>2 DEF DestApply, RowInv, TypeOK
  <1>7. CASE Tick
    BY <1>7 DEF Tick, RowInv
  <1>8. CASE UNCHANGED vars
    BY <1>8 DEF vars, RowInv
  <1> QED
    BY <1>1, <1>2, <1>3, <1>4, <1>5, <1>6, <1>7, <1>8 DEF Next

LEMMA LedgerInvariant == Spec => []LedgerInv
  <1>1. LedgerInv /\ [Next]_vars => LedgerInv'
    BY TypeNext, AttemptNext, RowNext DEF LedgerInv
  <1> QED
    BY <1>1, LedgerInit, PTL DEF Spec

\* The ledger and the row never claim a success the destination does not have,
\* for every lease and deadline.
THEOREM SuccessTheorem == Spec => []SuccessIsReal
  <1>1. LedgerInv => SuccessIsReal
    BY DEF LedgerInv, RowInv, SuccessIsReal
  <1> QED
    BY <1>1, LedgerInvariant, PTL

-----------------------------------------------------------------------------
(* The lease that outlives its attempt. *)

LEMMA HolderInit == Init => HolderInv
  BY DEF Init, HolderInv, Holding, Outcome

LEMMA HolderNext ==
    ASSUME Deadline <= Lease
    PROVE  LedgerInv /\ HolderInv /\ [Next]_vars => HolderInv'
  <1> SUFFICES ASSUME LedgerInv, HolderInv, [Next]_vars PROVE HolderInv'
    OBVIOUS
  <1> USE LedgerAssumption DEF LedgerInv
  <1>1. ASSUME NEW p \in Payload, NEW resend \in BOOLEAN, NEW confirm \in BOOLEAN,
               StartCall(p, resend, confirm)
        PROVE  HolderInv'
    BY <1>1 DEF StartCall, HolderInv, Alive
  <1>2. CASE AbandonCall
    BY <1>2 DEF AbandonCall, HolderInv, Alive
  <1>3. ASSUME NEW a \in Attempt, StartAttempt(a) PROVE HolderInv'
    <2>1. req[a] = "none"
      BY <1>3 DEF StartAttempt, AttemptInv
    <2> QED
      BY <1>3, <2>1 DEF StartAttempt, HolderInv, Alive, TypeOK, Holding, Outcome
  <1>4. CASE TimeoutAttempt
    BY <1>4 DEF TimeoutAttempt, HolderInv, Alive
  <1>5. ASSUME NEW a \in Attempt, AttemptStep(a) PROVE HolderInv'
    <2>1. CASE SecretUnavailable(a)
      BY <2>1 DEF SecretUnavailable, Done, HolderInv, Alive, TypeOK, Holding, Outcome
    <2>2. CASE BeginFails(a)
      BY <2>2 DEF BeginFails, Done, HolderInv, Alive, TypeOK, Holding, Outcome
    <2>3. CASE BeginSend(a)
      \* A live holder would have made the decision busy.
      <3>1. EffectiveState # "sending"
        BY <2>3, DecideFacts DEF BeginSend
      <3>2. \A b \in Attempt : ~(Alive(b) /\ (pc[b] \in Holding \/ req[b] = "inflight"))
        BY <3>1 DEF HolderInv, EffectiveState, Alive, TypeOK
      <3>3. intent[a].deadline <= now + Lease
        BY <2>3 DEF BeginSend, AttemptInv, TypeOK
      <3> QED
        BY <2>3, <3>2, <3>3 DEF BeginSend, HolderInv, Alive, TypeOK
    <2>4. CASE BeginUnresolved(a)
      <3>1. EffectiveState # "sending"
        BY <2>4, DecideFacts DEF BeginUnresolved
      <3>2. \A b \in Attempt : ~(Alive(b) /\ (pc[b] \in Holding \/ req[b] = "inflight"))
        BY <3>1 DEF HolderInv, EffectiveState, Alive, TypeOK
      <3> QED
        BY <2>4, <3>2 DEF BeginUnresolved, Done, HolderInv, Alive, TypeOK, Holding, Outcome
    <2>5. CASE BeginNoChange(a)
      BY <2>5 DEF BeginNoChange, Done, HolderInv, Alive, TypeOK, Holding, Outcome
    <2>6. ASSUME NEW r \in {"found", "lookup_failed", "send"}, lookupEffect(a, r)
          PROVE  HolderInv'
      BY <2>6 DEF lookupEffect, HolderInv, Alive, TypeOK, Holding, Outcome
    <2>7. CASE SendNotWritten(a)
      BY <2>7 DEF SendNotWritten, HolderInv, Alive, TypeOK, Holding, Outcome
    <2>8. CASE SendWrite(a)
      BY <2>8 DEF SendWrite, HolderInv, Alive, TypeOK, Holding, Outcome
    <2>9. ASSUME NEW o \in Outcome, Response(a, o) PROVE HolderInv'
      BY <2>9 DEF Response, HolderInv, Alive, TypeOK, Holding, Outcome
    <2>10. CASE Finish(a)
      <3>1. req[a] # "inflight"
        BY <2>10 DEF Finish, AttemptInv
      <3>2. \A b \in Attempt \ {a} : ~(Alive(b) /\ (pc[b] \in Holding \/ req[b] = "inflight"))
        BY <2>10 DEF Finish, HolderInv
      <3> QED
        BY <2>10, <3>1, <3>2 DEF Finish, Done, HolderInv, Alive, TypeOK, Holding, Outcome
    <2>11. CASE FinishLeaseLost(a)
      BY <2>11 DEF FinishLeaseLost, Done, HolderInv, Alive, TypeOK, Holding, Outcome
    <2>12. CASE FinishFails(a)
      BY <2>12 DEF FinishFails, Done, HolderInv, Alive, TypeOK, Holding, Outcome
    <2>13. CASE Die(a)
      BY <2>13 DEF Die, Done, HolderInv, Alive, TypeOK, Holding, Outcome
    <2> QED
      BY <1>5, <2>1, <2>2, <2>3, <2>4, <2>5, <2>6, <2>7, <2>8, <2>9, <2>10,
         <2>11, <2>12, <2>13 DEF AttemptStep
  <1>6. ASSUME NEW a \in Attempt, DestApply(a) PROVE HolderInv'
    BY <1>6 DEF DestApply, HolderInv, Alive, TypeOK
  <1>7. CASE Tick
    BY <1>7 DEF Tick, HolderInv, Alive, TypeOK
  <1>8. CASE UNCHANGED vars
    BY <1>8 DEF vars, HolderInv, Alive
  <1> QED
    BY <1>1, <1>2, <1>3, <1>4, <1>5, <1>6, <1>7, <1>8 DEF Next

LEMMA HolderInvariant ==
    ASSUME Deadline <= Lease
    PROVE  Spec => [](LedgerInv /\ HolderInv)
  <1>1. LedgerInv /\ HolderInv /\ [Next]_vars => HolderInv'
    BY HolderNext
  <1> QED
    BY <1>1, HolderInit, LedgerInvariant, PTL DEF Spec

\* A lease that outlives the attempt keeps two attempts from ever being at the
\* destination together, for any number of attempts, retries and row retries.
THEOREM OneLiveSenderTheorem == Spec => []OneLiveSender
  <1>1. CASE Deadline <= Lease
    <2>1. LedgerInv /\ HolderInv => OneLiveSender
      BY DEF HolderInv, OneLiveSender, CanReach, Holding
    <2> QED
      BY <1>1, <2>1, HolderInvariant, PTL
  <1>2. CASE ~(Deadline <= Lease)
    <2>1. OneLiveSender
      BY <1>2 DEF OneLiveSender
    <2> QED
      BY <2>1, PTL
  <1> QED
    BY <1>1, <1>2
-----------------------------------------------------------------------------
(* Decisions, and the attempts that carry them. *)

LEMMA IdleInit == Init => IdleInv
  BY DEF Init, IdleInv, NoIntent

LEMMA IdleNext == TypeOK /\ IdleInv /\ [Next]_vars => IdleInv'
  <1> SUFFICES ASSUME TypeOK, IdleInv, [Next]_vars PROVE IdleInv'
    OBVIOUS
  <1>1. ASSUME NEW a \in Attempt, StartAttempt(a) PROVE IdleInv'
    BY <1>1 DEF StartAttempt, IdleInv, TypeOK
  <1>2. ASSUME NEW a \in Attempt, AttemptStep(a) PROVE IdleInv'
    <2>1. intent' = intent /\ \A b \in Attempt : pc'[b] = "idle" => pc[b] = "idle"
      BY <1>2 DEF AttemptStep, SecretUnavailable, BeginFails, BeginSend, BeginUnresolved,
         BeginNoChange, lookupEffect, SendNotWritten, SendWrite, Response, Finish,
         FinishLeaseLost, FinishFails, Die, Done, TypeOK, Outcome
    <2> QED
      BY <2>1 DEF IdleInv
  <1>3. CASE UNCHANGED <<pc, intent>>
    BY <1>3 DEF IdleInv
  <1> QED
    BY <1>1, <1>2, <1>3
    DEF Next, vars, StartCall, AbandonCall, TimeoutAttempt, DestApply, Tick

\* A report leaves what the call carries, and its attempts.
LEMMA ReportCarries ==
    ASSUME TypeOK, NEW a \in Attempt, NEW r, Report(a, r)
    PROVE  /\ call'.resend = call.resend /\ call'.confirm = call.confirm
           /\ call'.tries = call.tries
  <1>1. call' = call \/ call' = [call EXCEPT !.active = FALSE]
    BY DEF Report
  <1> QED
    BY <1>1 DEF TypeOK

\* However many attempts carry a decision, each decision has at most MaxTries.
LEMMA CarriersBounded ==
    ASSUME TypeOK, CarryInv
    PROVE  /\ Cardinality(Carriers) \in Nat
           /\ Cardinality(Carriers) <= MaxTries * decisions
           /\ IsFiniteSet(authorised)
           /\ Resends \in Nat
           /\ Resends <= MaxTries * decisions
  <1>0. MaxTries \in Nat /\ decisions \in Nat /\ call.tries \in Nat
    BY LedgerAssumption DEF TypeOK
  <1>1. Cardinality(Carriers) \in Nat
    BY FS_CardinalityType DEF CarryInv
  <1>2. MaxTries * (decisions - 1) + MaxTries = MaxTries * decisions
    BY <1>0
  <1>3. MaxTries * (decisions - 1) \in Int /\ MaxTries * decisions \in Int
    BY <1>0
  <1>4. Cardinality(Carriers) <= MaxTries * decisions
    BY <1>0, <1>1, <1>2, <1>3 DEF CarryInv
  <1>5. IsFiniteSet(authorised) /\ Cardinality(authorised) <= Cardinality(Carriers)
    BY FS_Subset DEF CarryInv
  <1>6. Resends \in Nat
    BY <1>5, FS_CardinalityType DEF Resends
  <1> QED
    BY <1>1, <1>3, <1>4, <1>5, <1>6 DEF Resends

\* Steps that neither call nor start an attempt leave the bound.
LEMMA CarryUnchanged ==
    ASSUME TypeOK, CarryInv, IdleInv', intent' = intent, decisions' = decisions,
           call'.resend = call.resend, call'.confirm = call.confirm,
           call'.tries = call.tries,
           authorised' \subseteq Carriers,
           \A a \in authorised' : pc'[a] \notin {"idle", "started"}
    PROVE  CarryInv'
  <1>1. Carriers' = Carriers /\ Carries' = Carries
    BY DEF Carriers, Carries
  <1> QED
    BY <1>1 DEF CarryInv

LEMMA CarryInit == Init => CarryInv
  <1> SUFFICES ASSUME Init PROVE CarryInv
    OBVIOUS
  <1>1. Carriers = {}
    BY DEF Init, Carriers, NoIntent
  <1>2. IsFiniteSet(Carriers) /\ Cardinality(Carriers) = 0
    BY <1>1, FS_EmptySet
  <1>3. ~Carries /\ call.tries = 0 /\ decisions = 0 /\ authorised = {}
    BY DEF Init, Carries
  <1> QED
    BY <1>2, <1>3, IdleInit, LedgerAssumption DEF CarryInv

LEMMA CarryNext == TypeOK /\ CarryInv /\ [Next]_vars => CarryInv'
  <1> SUFFICES ASSUME TypeOK, CarryInv, [Next]_vars PROVE CarryInv'
    OBVIOUS
  <1> USE LedgerAssumption
  <1>0. IdleInv'
    BY IdleNext DEF CarryInv
  <1>1. ASSUME NEW p \in Payload, NEW resend \in BOOLEAN, NEW confirm \in BOOLEAN,
               StartCall(p, resend, confirm)
        PROVE  CarryInv'
    <2>1. /\ call'.tries = 0 /\ call'.resend = resend /\ call'.confirm = confirm
          /\ UNCHANGED <<intent, pc, authorised>>
          /\ decisions' = IF resend \/ confirm THEN decisions + 1 ELSE decisions
      BY <1>1 DEF StartCall
    <2>2. Carriers' = Carriers /\ (Carries' <=> resend \/ confirm)
      BY <2>1 DEF Carriers, Carries
    <2>3. Cardinality(Carriers) \in Nat /\ Cardinality(Carriers) <= MaxTries * decisions
      BY CarriersBounded
    <2>4. decisions \in Nat /\ (decisions + 1) - 1 = decisions /\ MaxTries * decisions \in Int
      BY DEF TypeOK
    <2>5. ASSUME Carries'
          PROVE  /\ decisions' > 0
                 /\ Cardinality(Carriers) <= MaxTries * (decisions' - 1) + call'.tries
      BY <2>1, <2>2, <2>3, <2>4, <2>5
    <2>6. ASSUME ~Carries' PROVE Cardinality(Carriers) <= MaxTries * decisions'
      BY <2>1, <2>2, <2>3, <2>6
    <2>7. call'.tries <= MaxTries
      BY <2>1
    <2> QED
      BY <1>0, <2>1, <2>2, <2>5, <2>6, <2>7 DEF CarryInv
  <1>2. CASE AbandonCall
    <2>1. /\ UNCHANGED <<intent, pc, decisions, authorised>>
          /\ call'.resend = call.resend /\ call'.confirm = call.confirm
          /\ call'.tries = call.tries
      BY <1>2 DEF AbandonCall, TypeOK
    <2> QED
      BY <1>0, <2>1, CarryUnchanged DEF CarryInv
  <1>3. ASSUME NEW a \in Attempt, StartAttempt(a) PROVE CarryInv'
    <2>1. /\ call'.resend = call.resend /\ call'.confirm = call.confirm
          /\ call'.tries = call.tries + 1 /\ call.tries < MaxTries
          /\ UNCHANGED <<decisions, authorised>>
          /\ intent'[a].resend = call.resend /\ intent'[a].confirm = call.confirm
          /\ \A b \in Attempt \ {a} : intent'[b] = intent[b] /\ pc'[b] = pc[b]
          /\ pc[a] = "idle"
      BY <1>3 DEF StartAttempt, TypeOK
    <2>2. a \notin Carriers /\ a \notin authorised
      BY <2>1 DEF CarryInv, IdleInv, Carriers
    <2>3. Carriers' = IF Carries THEN Carriers \cup {a} ELSE Carriers
      BY <2>1, <2>2 DEF Carriers, Carries
    <2>4. Carries' <=> Carries
      BY <2>1 DEF Carries
    <2>5. /\ IsFiniteSet(Carriers \cup {a})
          /\ Cardinality(Carriers \cup {a}) = Cardinality(Carriers) + 1
      BY <2>2, FS_AddElement DEF CarryInv
    <2>6. IsFiniteSet(Carriers') /\ authorised' \subseteq Carriers'
      BY <2>1, <2>3, <2>5 DEF CarryInv
    <2>7. \A b \in authorised' : pc'[b] \notin {"idle", "started"}
      BY <2>1, <2>2 DEF CarryInv, TypeOK
    <2>8. call.tries \in Nat /\ Cardinality(Carriers) \in Nat /\ decisions \in Nat
      BY CarriersBounded DEF TypeOK
    <2>9. MaxTries * (decisions - 1) \in Int
      BY <2>8
    <2>10. ASSUME Carries'
           PROVE  /\ decisions' > 0
                  /\ Cardinality(Carriers') <= MaxTries * (decisions' - 1) + call'.tries
      BY <2>1, <2>3, <2>4, <2>5, <2>8, <2>9, <2>10 DEF CarryInv
    <2>11. ASSUME ~Carries' PROVE Cardinality(Carriers') <= MaxTries * decisions'
      BY <2>1, <2>3, <2>4, <2>11 DEF CarryInv
    <2>12. call'.tries <= MaxTries
      BY <2>1, <2>8
    <2> QED
      BY <1>0, <2>6, <2>7, <2>10, <2>11, <2>12 DEF CarryInv
  <1>4. CASE TimeoutAttempt
    <2>1. UNCHANGED <<intent, pc, decisions, authorised>> /\ cur \in Attempt
      BY <1>4 DEF TimeoutAttempt, TypeOK
    <2> QED
      BY <1>0, <1>4, <2>1, ReportCarries, CarryUnchanged DEF TimeoutAttempt, CarryInv
  <1>5. ASSUME NEW a \in Attempt, AttemptStep(a), ~BeginSend(a) PROVE CarryInv'
    <2>1. /\ UNCHANGED <<intent, decisions, authorised>>
          /\ (\E r : Report(a, r)) \/ call' = call
          /\ \A b \in Attempt : pc'[b] \in {"idle", "started"} => pc[b] \in {"idle", "started"}
      BY <1>5 DEF AttemptStep, SecretUnavailable, BeginFails, BeginUnresolved,
         BeginNoChange, lookupEffect, SendNotWritten, SendWrite, Response, Finish,
         FinishLeaseLost, FinishFails, Die, Done, TypeOK, Outcome
    <2>2. /\ call'.resend = call.resend /\ call'.confirm = call.confirm
          /\ call'.tries = call.tries
      BY <2>1, ReportCarries
    <2>3. \A b \in authorised' : pc'[b] \notin {"idle", "started"}
      BY <2>1 DEF CarryInv, TypeOK
    <2> QED
      BY <1>0, <2>1, <2>2, <2>3, CarryUnchanged DEF CarryInv
  <1>6. ASSUME NEW a \in Attempt, BeginSend(a) PROVE CarryInv'
    \* Only an attempt that carries a decision is counted.
    <2>1. ASSUME decideAttempt(intent[a]) = "send", EffectiveState = "succeeded"
          PROVE  intent[a].resend
      BY <2>1 DEF decideAttempt, TypeOK
    <2>2. ASSUME decideAttempt(intent[a]) = "send", EffectiveState = "unresolved"
          PROVE  intent[a].confirm
      BY <2>2 DEF decideAttempt
    <2>3. authorised' = authorised \/ (authorised' = authorised \cup {a} /\ a \in Carriers)
      BY <1>6, <2>1, <2>2 DEF BeginSend, Carriers
    <2>4. /\ UNCHANGED <<intent, call, decisions>>
          /\ pc'[a] \in {"send", "lookup"}
          /\ \A b \in Attempt \ {a} : pc'[b] = pc[b]
      BY <1>6 DEF BeginSend, TypeOK
    <2>5. \A b \in authorised' : pc'[b] \notin {"idle", "started"}
      BY <2>3, <2>4 DEF CarryInv, TypeOK
    <2> QED
      BY <1>0, <2>3, <2>4, <2>5, CarryUnchanged DEF CarryInv
  <1>7. CASE (\E a \in Attempt : DestApply(a)) \/ Tick \/ UNCHANGED vars
    <2>1. UNCHANGED <<intent, pc, call, decisions, authorised>>
      BY <1>7 DEF DestApply, Tick, vars
    <2> QED
      BY <1>0, <2>1, CarryUnchanged DEF CarryInv
  <1> QED
    BY <1>1, <1>2, <1>3, <1>4, <1>5, <1>6, <1>7 DEF Next

LEMMA CarryInvariant == Spec => [](TypeOK /\ CarryInv)
  BY CarryInit, CarryNext, TypeInit, TypeNext, PTL DEF Spec

-----------------------------------------------------------------------------
(* No effect beyond the first without an operator's decision. *)

LEMMA EffectsInit == Init => EffectsInv
  <1> SUFFICES ASSUME Init PROVE EffectsInv
    OBVIOUS
  <1>1. Resends = 0
    BY FS_EmptySet DEF Init, Resends
  <1> QED
    BY <1>1 DEF Init, EffectsInv, OpState

LEMMA EffectsNext ==
    ASSUME Deadline <= Lease
    PROVE  /\ LedgerInv /\ HolderInv /\ CarryInv /\ CarryInv' /\ TypeOK'
           /\ mode # "idempotent" /\ EffectsInv /\ [Next]_vars
           => EffectsInv'
  <1> SUFFICES ASSUME LedgerInv, HolderInv, CarryInv, CarryInv', TypeOK',
                      mode # "idempotent", EffectsInv, [Next]_vars
               PROVE  EffectsInv'
    OBVIOUS
  <1>0. /\ Resends \in Nat
        /\ authorised' = authorised => Resends' = Resends
        /\ IsFiniteSet(authorised)
    BY CarriersBounded DEF LedgerInv, Resends
  <1> USE <1>0
  <1> USE LedgerAssumption DEF LedgerInv
  <1>1. ASSUME NEW p \in Payload, NEW resend \in BOOLEAN, NEW confirm \in BOOLEAN,
               StartCall(p, resend, confirm)
        PROVE  EffectsInv'
    BY <1>1 DEF StartCall, EffectsInv, Alive
  <1>2. CASE AbandonCall
    BY <1>2 DEF AbandonCall, EffectsInv, Alive
  <1>3. ASSUME NEW a \in Attempt, StartAttempt(a) PROVE EffectsInv'
    <2>1. req[a] = "none"
      BY <1>3 DEF StartAttempt, AttemptInv
    <2> QED
      BY <1>3, <2>1 DEF StartAttempt, EffectsInv, Alive, TypeOK
  <1>4. CASE TimeoutAttempt
    BY <1>4 DEF TimeoutAttempt, EffectsInv, Alive
  <1>5. ASSUME NEW a \in Attempt, AttemptStep(a) PROVE EffectsInv'
    <2>1. CASE SecretUnavailable(a)
      BY <2>1 DEF SecretUnavailable, Done, EffectsInv, Alive, TypeOK
    <2>2. CASE BeginFails(a)
      BY <2>2 DEF BeginFails, Done, EffectsInv, Alive, TypeOK
    <2>3. CASE BeginSend(a)
      <3>1. op'.state = "sending" /\ op'.payload = intent[a].payload
        BY <2>3 DEF BeginSend
      <3>2. /\ req[a] = "none" /\ Resends' >= Resends /\ Resends' \in Nat
            /\ authorised' = authorised \cup {a} => Resends' = Resends + 1
        <4>1. authorised' = authorised \/ authorised' = authorised \cup {a}
          BY <2>3 DEF BeginSend
        <4>2. a \notin authorised
          BY <2>3 DEF BeginSend, CarryInv
        <4>3. Cardinality(authorised \cup {a}) = Cardinality(authorised) + 1
          BY <4>2, FS_AddElement
        <4>4. authorised' = authorised \cup {a} => Resends' = Resends + 1
          BY <4>3 DEF Resends
        <4>5. req[a] = "none"
          BY <2>3 DEF BeginSend, AttemptInv, TypeOK
        <4> QED
          BY <4>1, <4>4, <4>5
      <3>3. CASE decideAttempt(intent[a]) = "lookup"
        \* The payload stays: what was known of its effect is still known.
        <4>1. op.payload = intent[a].payload
          BY <3>3, DecideFacts
        <4> QED
          BY <2>3, <3>1, <3>2, <3>3, <4>1 DEF BeginSend, EffectsInv, Alive, TypeOK
      <3>4. CASE decideAttempt(intent[a]) # "lookup"
        <4>0. decideAttempt(intent[a]) = "send"
          BY <2>3, <3>4 DEF BeginSend
        <4>1. ASSUME EffectiveState \in {"pending", "failed"} PROVE effects' <= Resends'
          <5>1. effects <= Resends
            BY <4>1 DEF EffectsInv, EffectiveState
          <5> QED
            BY <2>3, <3>2, <5>1 DEF BeginSend, TypeOK
        <4>2. ASSUME EffectiveState \notin {"pending", "failed"} PROVE effects' <= Resends'
          \* The operator's decision is counted.
          <5>1. Resends' = Resends + 1
            BY <2>3, <3>2, <4>0, <4>2, DecideFacts DEF BeginSend
          <5> QED
            BY <2>3, <5>1 DEF BeginSend, EffectsInv, TypeOK
        <4>3. effects' <= Resends'
          BY <4>1, <4>2
        <4>4. effects' \in Nat /\ Resends' \in Nat
          BY <2>3, <3>2 DEF BeginSend, TypeOK
        <4>5. effects' <= 1 + Resends' /\ ~(effects' > Resends')
          <5>1. \A x, y \in Nat : x <= y => x <= 1 + y /\ ~(x > y)
            OBVIOUS
          <5> QED
            BY <4>3, <4>4, <5>1
        <4> QED
          BY <3>1, <4>3, <4>5 DEF EffectsInv
      <3> QED
        BY <3>3, <3>4
    <2>4. CASE BeginUnresolved(a)
      BY <2>4 DEF BeginUnresolved, Done, EffectsInv, Alive, TypeOK
    <2>5. CASE BeginNoChange(a)
      BY <2>5 DEF BeginNoChange, Done, EffectsInv, Alive, TypeOK
    <2>6. ASSUME NEW r \in {"found", "lookup_failed", "send"}, lookupEffect(a, r)
          PROVE  EffectsInv'
      \* The lookup is truthful for the payload the lease was taken with.
      <3>1. op.payload = intent[a].payload
        BY <2>6 DEF lookupEffect, HolderInv, RowInv, Holding
      <3>2. r = "send" => effects <= Resends
        BY <2>6, <3>1 DEF lookupEffect, LookupResult, EffectsInv, TypeOK
      <3> QED
        BY <2>6, <3>2 DEF lookupEffect, EffectsInv, Alive, TypeOK
    <2>7. CASE SendNotWritten(a)
      BY <2>7 DEF SendNotWritten, EffectsInv, Alive, TypeOK
    <2>8. CASE SendWrite(a)
      BY <2>8 DEF SendWrite, EffectsInv, Alive, TypeOK
    <2>9. ASSUME NEW o \in Outcome, Response(a, o) PROVE EffectsInv'
      BY <2>9 DEF Response, EffectsInv, Alive, TypeOK, Outcome
    <2>10. CASE Finish(a)
      <3>1. op'.state = FinishState(pc[a]) /\ op'.payload = op.payload
        BY <2>10 DEF Finish, TypeOK
      <3>2. op'.state \in {"pending", "failed"} => effects <= Resends
        BY <2>10, <3>1, FinishTypes DEF Finish, EffectsInv
      <3> QED
        BY <2>10, <3>1, <3>2 DEF Finish, Done, EffectsInv, Alive, TypeOK
    <2>11. CASE FinishLeaseLost(a)
      BY <2>11 DEF FinishLeaseLost, Done, EffectsInv, Alive, TypeOK
    <2>12. CASE FinishFails(a)
      BY <2>12 DEF FinishFails, Done, EffectsInv, Alive, TypeOK
    <2>13. CASE Die(a)
      BY <2>13 DEF Die, Done, EffectsInv, Alive, TypeOK
    <2> QED
      BY <1>5, <2>1, <2>2, <2>3, <2>4, <2>5, <2>6, <2>7, <2>8, <2>9, <2>10,
         <2>11, <2>12, <2>13 DEF AttemptStep
  <1>6. ASSUME NEW a \in Attempt, DestApply(a) PROVE EffectsInv'
    \* The holder is alone at the destination, with the operation's payload.
    <2>1. op.state = "sending" /\ op.lease = a /\ op.payload = intent[a].payload
      BY <1>6 DEF DestApply, HolderInv, RowInv
    <2>2. \A b \in Attempt \ {a} : ~(Alive(b) /\ (pc[b] \in Holding \/ req[b] = "inflight"))
      BY <2>1 DEF HolderInv
    <2>3. pc[a] \notin {"send", "not_sent", "rejected"} /\ pc[a] # "idle"
      BY <1>6 DEF DestApply, AttemptInv, Outcome
    <2>4. intent[a].payload \in Payload
      BY <2>3 DEF AttemptInv
    <2>5. /\ appliedAt'[intent[a].payload] # Never
          /\ effects' = effects + 1
      BY <1>6, <2>4 DEF DestApply, Deduplicated, TypeOK, Never
    <2>6. effects <= Resends
      BY <1>6 DEF DestApply, EffectsInv
    <2>7. \A b \in Attempt :
             ~(/\ Alive(b)'
               /\ pc'[b] \in {"send", "not_sent", "rejected"} \/ req'[b] = "inflight")
      BY <1>6, <2>2, <2>3 DEF DestApply, Alive, TypeOK, Holding, Outcome
    <2> QED
      BY <1>6, <2>1, <2>4, <2>5, <2>6, <2>7 DEF DestApply, EffectsInv, TypeOK
  <1>7. CASE Tick
    BY <1>7 DEF Tick, EffectsInv, Alive, TypeOK
  <1>8. CASE UNCHANGED vars
    BY <1>8 DEF vars, EffectsInv, Alive
  <1> QED
    BY <1>1, <1>2, <1>3, <1>4, <1>5, <1>6, <1>7, <1>8 DEF Next

\* The delivery mode of a template is fixed.
LEMMA ModeFixed == [Next]_vars => mode' = mode
  BY DEF Next, vars, StartCall, AbandonCall, StartAttempt, TimeoutAttempt, AttemptStep,
         SecretUnavailable, BeginFails, BeginSend, BeginUnresolved, BeginNoChange,
         lookupEffect, SendNotWritten, SendWrite, Response, Finish, FinishLeaseLost,
         FinishFails, Die, DestApply, Tick

\* Without a deduplicating destination, an effect beyond the first is the work of
\* an attempt that carries an operator's decision, and a decision is carried by
\* at most MaxTries attempts: whatever times out, dies or is lost.
THEOREM EffectsTheorem == Spec => []EffectsAuthorised
  <1>1. CASE Deadline <= Lease
    <2> DEFINE Inv == mode # "idempotent" => EffectsInv
    <2>1. Init => Inv
      BY EffectsInit
    <2>2. /\ LedgerInv /\ HolderInv /\ CarryInv /\ Inv /\ [Next]_vars
          /\ TypeOK' /\ CarryInv'
          => Inv'
      BY <1>1, EffectsNext, ModeFixed
    <2>3. TypeOK /\ CarryInv /\ Inv => EffectsAuthorised
      <3> SUFFICES ASSUME TypeOK, CarryInv, Inv, mode # "idempotent"
                   PROVE  effects <= 1 + Resends /\ Resends <= MaxTries * decisions
        BY DEF EffectsAuthorised, Resends
      <3> QED
        BY CarriersBounded DEF EffectsInv
    <2> HIDE DEF Inv
    <2> QED
      BY <1>1, <2>1, <2>2, <2>3, HolderInvariant, CarryInvariant, PTL DEF Spec
  <1>2. CASE ~(Deadline <= Lease)
    <2>1. EffectsAuthorised
      BY <1>2 DEF EffectsAuthorised
    <2> QED
      BY <2>1, PTL
  <1> QED
    BY <1>1, <1>2

-----------------------------------------------------------------------------
(* Fencing. *)

LEMMA ExclusiveStep ==
    ASSUME LedgerInv, [Next]_vars,
           op.state = "sending", now < op.leaseUntil, op' # op
    PROVE  pc[op.lease] \in Outcome /\ pc'[op.lease] = "done"
  <1> USE DEF LedgerInv
  <1>1. EffectiveState = "sending"
    BY DEF EffectiveState, TypeOK
  <1>2. \A in : decideAttempt(in) = "busy"
    BY <1>1, DecideFacts
  <1>3. \E a \in Attempt : Finish(a)
    <2>1. \A a \in Attempt : ~BeginSend(a) /\ ~BeginUnresolved(a)
      BY <1>2 DEF BeginSend, BeginUnresolved
    <2> QED
      BY <2>1 DEF Next, vars, StartCall, AbandonCall, StartAttempt, TimeoutAttempt,
         AttemptStep, SecretUnavailable, BeginFails, BeginNoChange, lookupEffect,
         SendNotWritten, SendWrite, Response, FinishLeaseLost, FinishFails, Die,
         DestApply, Tick
  <1> QED
    BY <1>3 DEF Finish, Done, TypeOK

\* While a lease is live only its holder changes the operation, and only by
\* recording its outcome: for every lease and deadline.
THEOREM ExclusiveTheorem == Spec => LiveLeaseIsExclusive
  <1>1. LedgerInv /\ [Next]_vars =>
          [op.state = "sending" /\ now < op.leaseUntil /\ op' # op =>
              /\ pc[op.lease] \in Outcome
              /\ pc'[op.lease] = "done"]_vars
    BY ExclusiveStep
  <1> QED
    BY <1>1, LedgerInvariant, PTL DEF Spec, LiveLeaseIsExclusive

-----------------------------------------------------------------------------
(* The ledger implements Delivery. *)

\* Temporal waits only for an attempt of an open call, and before the first
\* call nothing was reported.
CallInv ==
    /\ cur # NoAttempt => call.active
    /\ call.n = 0 => ~call.active /\ row = "none"

LEMMA CallInit == Init => CallInv
  BY DEF Init, CallInv, NoIntent

\* A step of an attempt that reports to Temporal leaves CallInv.
LEMMA ReportCall ==
    ASSUME TypeOK, CallInv, NEW a \in Attempt, NEW r, Report(a, r), intent' = intent
    PROVE  CallInv'
  <1>1. CASE cur # a
    BY <1>1 DEF Report, CallInv
  <1>2. CASE cur = a /\ r \in Retryable /\ call.tries < MaxTries
    BY <1>2 DEF Report, CallInv
  <1>3. CASE cur = a /\ ~(r \in Retryable /\ call.tries < MaxTries)
    <2>1. cur' = NoAttempt /\ call' = [call EXCEPT !.active = FALSE]
      BY <1>3 DEF Report
    <2>2. call'.n # 0
      BY <1>3, <2>1, LedgerAssumption DEF CallInv, TypeOK
    <2> QED
      BY <2>1, <2>2 DEF CallInv
  <1> QED
    BY <1>1, <1>2, <1>3

LEMMA CallNext == TypeOK /\ CallInv /\ [Next]_vars => CallInv'
  <1> SUFFICES ASSUME TypeOK, CallInv, [Next]_vars PROVE CallInv'
    OBVIOUS
  <1> USE LedgerAssumption
  <1>1. ASSUME NEW p \in Payload, NEW resend \in BOOLEAN, NEW confirm \in BOOLEAN,
               StartCall(p, resend, confirm)
        PROVE  CallInv'
    <2>1. call'.n # 0 /\ call'.active
      BY <1>1 DEF StartCall, TypeOK
    <2> QED
      BY <2>1 DEF CallInv
  <1>2. CASE AbandonCall
    <2>1. cur' = NoAttempt /\ call'.n = call.n /\ call.active
      BY <1>2 DEF AbandonCall, TypeOK
    <2> QED
      BY <2>1 DEF CallInv
  <1>3. ASSUME NEW a \in Attempt, StartAttempt(a) PROVE CallInv'
    <2>1. call'.n = call.n /\ call'.active = call.active /\ call.active
      BY <1>3 DEF StartAttempt, TypeOK
    <2> QED
      BY <2>1 DEF CallInv
  <1>4. CASE TimeoutAttempt
    <2>1. cur \in Attempt
      BY <1>4 DEF TimeoutAttempt, TypeOK
    <2> QED
      BY <1>4, <2>1, ReportCall DEF TimeoutAttempt
  <1>5. ASSUME NEW a \in Attempt, AttemptStep(a) PROVE CallInv'
    <2>1. CASE \E r : Report(a, r) /\ intent' = intent
      BY <2>1, ReportCall
    <2>2. CASE UNCHANGED <<cur, call, row, intent>>
      BY <2>2 DEF CallInv
    <2>3. (\E r : Report(a, r) /\ intent' = intent) \/ UNCHANGED <<cur, call, row, intent>>
      BY <1>5 DEF AttemptStep, SecretUnavailable, BeginFails, BeginSend, BeginUnresolved,
         BeginNoChange, lookupEffect, SendNotWritten, SendWrite, Response, Finish,
         FinishLeaseLost, FinishFails, Die
    <2> QED
      BY <2>1, <2>2, <2>3
  <1>6. CASE (\E a \in Attempt : DestApply(a)) \/ Tick \/ UNCHANGED vars
    <2>1. UNCHANGED <<cur, call, row, intent>>
      BY <1>6 DEF DestApply, Tick, vars
    <2> QED
      BY <2>1 DEF CallInv
  <1> QED
    BY <1>1, <1>2, <1>3, <1>4, <1>5, <1>6 DEF Next

\* The owner sees nothing of a step, or the answer to a call.
SameView == UNCHANGED <<mode, call.active, row, effects, decisions>>

Answers ==
    /\ call.active /\ ~call'.active
    /\ row' \in Final
    /\ row' = "succeeded" => effects > 0
    /\ UNCHANGED <<mode, effects, decisions>>

\* A report is dropped, retried or the answer.
LEMMA ReportView ==
    ASSUME TypeOK, CallInv, NEW a \in Attempt, NEW r \in Final \cup Retryable, Report(a, r),
           row' = "succeeded" => effects > 0,
           UNCHANGED <<mode, effects, decisions>>
    PROVE  SameView \/ Answers
  <1>1. CASE cur # a
    BY <1>1 DEF Report, SameView
  <1>2. CASE cur = a /\ r \in Retryable /\ call.tries < MaxTries
    BY <1>2 DEF Report, SameView
  <1>3. CASE cur = a /\ ~(r \in Retryable /\ call.tries < MaxTries)
    <2>1. call' = [call EXCEPT !.active = FALSE] /\ row' = RowStatus(r)
      BY <1>3 DEF Report
    <2>2. RowStatus(r) \in Final
      BY DEF RowStatus, Final
    <2>3. call.active
      BY <1>3, LedgerAssumption DEF CallInv
    <2>4. ~call'.active
      BY <2>1 DEF TypeOK
    <2> QED
      BY <2>1, <2>2, <2>3, <2>4 DEF Answers
  <1> QED
    BY <1>1, <1>2, <1>3

DeliveryInv ==
    /\ LedgerInv /\ CarryInv /\ CallInv
    /\ Deadline <= Lease => HolderInv
    /\ Exact => EffectsInv

LEMMA DeliveryInvariant == Spec => []DeliveryInv
  <1>1. Init => DeliveryInv
    BY LedgerInit, CarryInit, CallInit, HolderInit, EffectsInit DEF DeliveryInv
  <1>2. DeliveryInv /\ [Next]_vars => DeliveryInv'
    <2> SUFFICES ASSUME DeliveryInv, [Next]_vars PROVE DeliveryInv'
      OBVIOUS
    <2>1. LedgerInv'
      BY TypeNext, AttemptNext, RowNext DEF DeliveryInv, LedgerInv
    <2>2. CallInv'
      BY CallNext DEF DeliveryInv, LedgerInv
    <2>5. CarryInv'
      BY CarryNext DEF DeliveryInv, LedgerInv
    <2>3. ASSUME Deadline <= Lease PROVE HolderInv'
      BY <2>3, HolderNext DEF DeliveryInv
    <2>4. ASSUME Exact' PROVE EffectsInv'
      BY <2>1, <2>4, <2>5, EffectsNext, ModeFixed DEF DeliveryInv, LedgerInv, Exact
    <2> QED
      BY <2>1, <2>2, <2>3, <2>4, <2>5 DEF DeliveryInv
  <1> QED
    BY <1>1, <1>2, PTL DEF Spec

\* Nothing was asked or decided at first.
LEMMA DeliveryInit == Init => Abstract!Init
  <1> SUFFICES ASSUME Init PROVE Abstract!Init
    OBVIOUS
  <1>1. Exact \in BOOLEAN
    BY DEF Exact
  <1> QED
    BY <1>1 DEF Init, Abstract!Init

\* A step that the owner sees nothing of, or an answer, is one of Delivery.
LEMMA ViewStep ==
    ASSUME SameView \/ Answers
    PROVE  [Abstract!Next]_(Abstract!vars)
  <1>1. Exact' = Exact
    BY DEF Exact, SameView, Answers
  <1>2. CASE SameView
    BY <1>1, <1>2 DEF SameView, Abstract!vars
  <1>3. CASE Answers
    BY <1>1, <1>3 DEF Answers, Final, Abstract!Next, Abstract!Tell
  <1> QED
    BY <1>2, <1>3

\* Every step of the ledger, of Temporal or of the destination is a step of
\* Delivery or none.
LEMMA DeliveryNext ==
    DeliveryInv /\ DeliveryInv' /\ [Next]_vars => [Abstract!Next]_(Abstract!vars)
  <1> SUFFICES ASSUME DeliveryInv, DeliveryInv', [Next]_vars
               PROVE  [Abstract!Next]_(Abstract!vars)
    OBVIOUS
  <1>0. /\ TypeOK /\ CarryInv /\ CallInv
        /\ row' = "succeeded" => effects' > 0
        /\ Exact' = Exact
    BY ModeFixed DEF DeliveryInv, LedgerInv, RowInv, Exact
  <1>1. ASSUME NEW p \in Payload, NEW resend \in BOOLEAN, NEW confirm \in BOOLEAN,
               StartCall(p, resend, confirm)
        PROVE  Abstract!Ask
    <2>1. /\ ~call.active /\ call'.active
          /\ decisions' = IF resend \/ confirm THEN decisions + 1 ELSE decisions
          /\ UNCHANGED <<row, effects>>
      BY <1>1 DEF StartCall
    <2>2. row = "none" => ~resend /\ ~confirm
      BY <1>1 DEF StartCall, TypeOK, DeliveryInv, LedgerInv
    <2>3. row = "unresolved" => confirm
      BY <1>0, <1>1 DEF StartCall, CallInv, TypeOK
    <2>4. call.active = FALSE /\ call'.active = TRUE
      BY <1>1, <1>0 DEF StartCall, TypeOK
    <2> QED
      BY <1>0, <2>1, <2>2, <2>3, <2>4 DEF Abstract!Ask
  <1>2. ASSUME AbandonCall PROVE Abstract!Withdraw
    <2>1. call.active /\ ~call'.active /\ UNCHANGED <<row, effects, decisions>>
      BY <1>0, <1>2 DEF AbandonCall, TypeOK
    <2> QED
      BY <1>0, <2>1 DEF Abstract!Withdraw
  <1>3. ASSUME NEW a \in Attempt, StartAttempt(a) PROVE SameView
    BY <1>0, <1>3 DEF StartAttempt, TypeOK, SameView
  <1>4. ASSUME TimeoutAttempt PROVE SameView \/ Answers
    <2>1. cur \in Attempt /\ "err_timeout" \in Final \cup Retryable
      BY <1>0, <1>4 DEF TimeoutAttempt, TypeOK, Retryable
    <2> QED
      BY <1>0, <1>4, <2>1, ReportView DEF TimeoutAttempt
  <1>5. ASSUME NEW a \in Attempt, AttemptStep(a) PROVE SameView \/ Answers
    <2>1. \/ UNCHANGED <<mode, call, row, effects, decisions>>
          \/ \E r \in Final \cup Retryable :
                Report(a, r) /\ UNCHANGED <<mode, effects, decisions>>
      BY <1>5, FinishTypes
      DEF AttemptStep, SecretUnavailable, BeginFails, BeginSend, BeginUnresolved,
          BeginNoChange, lookupEffect, SendNotWritten, SendWrite, Response, Finish,
          FinishLeaseLost, FinishFails, Die, Final, Retryable
    <2>2. CASE UNCHANGED <<mode, call, row, effects, decisions>>
      BY <2>2 DEF SameView
    <2>3. ASSUME NEW r \in Final \cup Retryable, Report(a, r),
                 UNCHANGED <<mode, effects, decisions>>
          PROVE  SameView \/ Answers
      BY <1>0, <2>3, ReportView
    <2> QED
      BY <2>1, <2>2, <2>3
  <1>6. ASSUME NEW a \in Attempt, DestApply(a) PROVE SameView \/ Abstract!Apply
    <2>1. UNCHANGED <<mode, call, row, decisions>>
      BY <1>6 DEF DestApply
    <2>2. Exact => effects <= Resends
      BY <1>6 DEF DestApply, DeliveryInv, EffectsInv
    <2>3. Resends \in Nat /\ Resends <= MaxTries * decisions
      BY <1>0, CarriersBounded
    <2>4. MaxTries * decisions \in Int /\ effects \in Int
      BY <1>0, LedgerAssumption DEF TypeOK
    <2>5. Exact => effects <= MaxTries * decisions
      BY <2>2, <2>3, <2>4
    <2>6. effects' = effects \/ effects' = effects + 1
      BY <1>6 DEF DestApply
    <2> QED
      BY <1>0, <2>1, <2>5, <2>6 DEF SameView, Abstract!Apply
  <1>7. CASE Tick \/ UNCHANGED vars
    <2>1. SameView
      BY <1>7 DEF Tick, vars, SameView
    <2> QED
      BY <2>1, ViewStep
  <1> QED
    BY <1>1, <1>2, <1>3, <1>4, <1>5, <1>6, <1>7, ViewStep DEF Next, Abstract!Next

\* Refinement: calls, attempts, timeouts, deaths and late effects together are
\* what Delivery lets the owner of the row see, for any number of attempts and
\* any timing: one effect, and as many more as attempts carry a decision.
THEOREM DeliveryTheorem == Spec => ImplementsDelivery
  BY DeliveryInit, DeliveryNext, DeliveryInvariant, PTL
  DEF Spec, ImplementsDelivery, Abstract!Spec
=============================================================================
