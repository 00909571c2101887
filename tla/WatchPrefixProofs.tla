------------------------- MODULE WatchPrefixProofs -------------------------
(***************************************************************************)
(* Proofs about module WatchPrefix: for any number of keys, overlapping    *)
(* fires, uploads and faults and any size of the cursor, no arrival is     *)
(* hidden before it was started, and what has been migrated is migrated    *)
(* again only for the reasons that MigratedAgainOnlyIf names.              *)
(***************************************************************************)
EXTENDS WatchPrefix, TLAPS, FiniteSetTheorems, WellFoundedInduction

-----------------------------------------------------------------------------
(* The inductive invariant. *)

\* What fires and the history refer to was written and, once a fire has
\* advanced past it or Temporal knows it, was started.
StartedInv ==
    /\ \A f \in Fire : fire[f].advanced \subseteq hist.started
    /\ \A o \in Object : run[o] # "none" => o \in hist.started
    /\ \A k \in Key : seen[k] # 0 => <<k, seen[k]>> \in hist.started
    /\ hist.done \subseteq hist.started
    /\ \A f \in Fire : fire[f].pc = "idle" => fire[f].todo = {} /\ fire[f].advanced = {}

\* No version is ahead of the bucket.
VersionInv ==
    /\ \A o \in hist.started : o[2] <= bucket[o[1]]
    /\ \A f \in Fire : \A o \in fire[f].todo : o[2] <= bucket[o[1]]

\* No fault yet, never evicted, never overwritten.
Clean(k) == faults = 0 /\ k \notin hist.evicted /\ bucket[k] <= 1

\* The first version of such a key: once started, it is in the cursor or a
\* fire is about to put it there; once migrated, Temporal remembers it until
\* the cursor has it and no fire works from an older cursor.
OnceInv ==
    \A k \in Key : Clean(k) =>
        /\ <<k, 1>> \in hist.started =>
              seen[k] = 1 \/ \E f \in Fire : <<k, 1>> \in fire[f].advanced
        /\ <<k, 1>> \in hist.done =>
              \/ run[<<k, 1>>] = "ok"
              \/ /\ run[<<k, 1>>] = "none" /\ seen[k] = 1
                 /\ \A f \in Fire : /\ fire[f].pc = "list" => fire[f].cursor[k] = 1
                                    /\ <<k, 1>> \notin fire[f].todo

IInv == TypeOK /\ StartedInv /\ VersionInv /\ OnceInv

-----------------------------------------------------------------------------
(* The bound of the cursor. *)

\* Every non-empty set of naturals has a least element.
LEMMA LeastNat ==
    ASSUME NEW S \in SUBSET Nat, S # {}
    PROVE  \E x \in S : \A y \in S : x <= y
  <1>1. PICK x \in S : \A y \in S : ~ (<<y, x>> \in OpToRel(<, Nat))
    BY NatLessThanWellFounded, WFMin, Zenon
  <1>2. \A y \in S : ~ (y < x)
    BY <1>1, Zenon DEF OpToRel
  <1> QED
    BY <1>2

\* trimCursor keeps at most maxCursorEntries keys: all but the smallest key
\* it keeps are larger than that one, which has fewer than that many above it.
LEMMA KeepsBound ==
    ASSUME NEW keys \in SUBSET Key
    PROVE  /\ Keeps(keys) \subseteq keys
           /\ Cardinality(Keeps(keys)) <= MaxCursor
  <1>0. K \in Nat /\ MaxCursor \in Nat
    BY WatchAssumption
  <1>1. Keeps(keys) \subseteq keys
    BY DEF Keeps
  <1>2. IsFiniteSet(Key) /\ Key \subseteq Nat
    BY <1>0, FS_Interval DEF Key
  <1>3. IsFiniteSet(keys) /\ IsFiniteSet(Keeps(keys))
    BY <1>1, <1>2, FS_Subset
  <1>4. CASE Keeps(keys) = {}
    BY <1>0, <1>4, FS_EmptySet
  <1>5. CASE Keeps(keys) # {}
    <2>1. PICK m \in Keeps(keys) : \A k \in Keeps(keys) : m <= k
      BY <1>1, <1>2, <1>5, LeastNat
    <2> DEFINE above == {j \in keys : j > m}
               rest == Keeps(keys) \ {m}
    <2>2. Cardinality(above) < MaxCursor
      BY <2>1 DEF Keeps
    <2>3. rest \subseteq above
      <3> SUFFICES ASSUME NEW k \in rest PROVE k \in above
        OBVIOUS
      <3>1. k \in keys /\ k \in Nat /\ m \in Nat /\ m <= k /\ k # m
        BY <1>1, <1>2, <2>1
      <3> QED
        BY <3>1
    <2>4. IsFiniteSet(above)
      BY <1>3, FS_Subset
    <2>5. Cardinality(rest) <= Cardinality(above) /\ Cardinality(above) \in Nat
      BY <2>3, <2>4, FS_Subset, FS_CardinalityType
    <2>6. Cardinality(rest) = Cardinality(Keeps(keys)) - 1 /\ Cardinality(Keeps(keys)) \in Nat
      BY <1>3, <2>1, FS_RemoveElement, FS_CardinalityType
    <2> HIDE DEF above, rest
    <2> QED
      BY <1>0, <1>1, <2>2, <2>5, <2>6
  <1> QED
    BY <1>1, <1>4, <1>5

-----------------------------------------------------------------------------
(* Steps. *)

FireRec == [pc : {"idle", "list", "start", "mark"}, cursor : [Key -> {0} \cup Version],
            todo : SUBSET Object, advanced : SUBSET Object]

\* An empty bucket with no fire under way satisfies the invariant.
LEMMA IInvInit == Init => IInv
  <1> SUFFICES ASSUME Init PROVE IInv
    OBVIOUS
  <1>1. {k \in Key : seen[k] # 0} = {}
    BY DEF Init
  <1>2. Cardinality({k \in Key : seen[k] # 0}) <= MaxCursor
    BY <1>1, FS_EmptySet, WatchAssumption
  <1>3. Idle \in FireRec
    BY DEF Idle, FireRec
  <1>4. TypeOK
    BY <1>2, <1>3, WatchAssumption DEF Init, TypeOK, FireRec
  <1> QED
    BY <1>4 DEF Init, IInv, StartedInv, VersionInv, OnceInv, Idle

\* What a fire's step leaves of the rest, for the steps that touch nothing
\* but the fire's own state.
LEMMA FireStep ==
    ASSUME IInv, NEW f \in Fire, NEW x \in FireRec, fire' = [fire EXCEPT ![f] = x],
           UNCHANGED <<bucket, seen, run, hist>>, faults' \in {faults, faults + 1} \cap 0 .. MaxFaults,
           x.advanced \subseteq hist.started,
           x.pc = "idle" => x.todo = {} /\ x.advanced = {},
           \A o \in x.todo : o[2] <= bucket[o[1]],
           \A k \in Key : Clean(k)' =>
              /\ <<k, 1>> \in fire[f].advanced => seen[k] = 1 \/ <<k, 1>> \in x.advanced
              /\ (<<k, 1>> \in hist.done /\ run[<<k, 1>>] = "none") =>
                    /\ x.pc = "list" => x.cursor[k] = 1
                    /\ <<k, 1>> \notin x.todo
    PROVE  IInv'
  <1>0. TypeOK /\ StartedInv /\ VersionInv /\ OnceInv /\ fire \in [Fire -> FireRec]
    BY DEF IInv, TypeOK, FireRec
  <1>1. fire' \in [Fire -> FireRec] /\ \A g \in Fire : fire'[g] = IF g = f THEN x ELSE fire[g]
    BY <1>0
  <1>2. TypeOK'
    BY <1>0, <1>1 DEF TypeOK, FireRec
  <1>3. StartedInv'
    BY <1>0, <1>1 DEF StartedInv
  <1>4. VersionInv'
    BY <1>0, <1>1 DEF VersionInv
  <1>5. \A k \in Key : Clean(k)' => Clean(k)
    BY <1>0, WatchAssumption DEF Clean, TypeOK
  <1>6. OnceInv'
    <2> SUFFICES ASSUME NEW k \in Key, Clean(k)'
        PROVE  /\ <<k, 1>> \in hist.started =>
                     seen[k] = 1 \/ \E g \in Fire : <<k, 1>> \in fire'[g].advanced
               /\ <<k, 1>> \in hist.done =>
                     \/ run[<<k, 1>>] = "ok"
                     \/ /\ run[<<k, 1>>] = "none" /\ seen[k] = 1
                        /\ \A g \in Fire : /\ fire'[g].pc = "list" => fire'[g].cursor[k] = 1
                                           /\ <<k, 1>> \notin fire'[g].todo
      BY DEF OnceInv
    <2> QED
      BY <1>0, <1>1, <1>5 DEF OnceInv
  <1> QED
    BY <1>2, <1>3, <1>4, <1>6 DEF IInv

\* LoadConnector, ListPrefixObjects, AlreadyStarted, StartFails, MarkRunning.
LEMMA FireSteps ==
    ASSUME IInv, NEW f \in Fire
    PROVE  /\ LoadConnector(f) => IInv'
           /\ ListPrefixObjects(f) => IInv'
           /\ \A o \in Object : AlreadyStarted(f, o) => IInv'
           /\ \A o \in Object : StartFails(f, o) => IInv'
           /\ MarkRunning(f) => IInv'
  <1>0. /\ TypeOK /\ StartedInv /\ VersionInv /\ OnceInv
        /\ fire \in [Fire -> FireRec] /\ fire[f] \in FireRec
        /\ faults \in 0 .. MaxFaults /\ MaxFaults \in Nat
    BY WatchAssumption DEF IInv, TypeOK, FireRec
  <1>f. ASSUME Fault PROVE faults' \in {faults, faults + 1} \cap 0 .. MaxFaults /\ faults' # 0
    BY <1>0, <1>f DEF Fault
  <1>i. Idle \in FireRec /\ Idle.pc = "idle" /\ Idle.todo = {} /\ Idle.advanced = {}
    BY DEF Idle, FireRec
  <1>1. ASSUME LoadConnector(f) PROVE IInv'
    <2>1. PICK x \in FireRec :
             /\ x = [Idle EXCEPT !.pc = "list", !.cursor = seen]
             /\ x.pc = "list" /\ x.cursor = seen /\ x.todo = {} /\ x.advanced = {}
      <3> DEFINE y == [Idle EXCEPT !.pc = "list", !.cursor = seen]
      <3>1. /\ y \in FireRec
            /\ y.pc = "list" /\ y.cursor = seen /\ y.todo = {} /\ y.advanced = {}
        BY <1>0, <1>i DEF FireRec, TypeOK
      <3> QED
        BY <3>1
    <2>2. fire[f].advanced = {}
      BY <1>0, <1>1 DEF LoadConnector, StartedInv
    <2>3. /\ fire' = [fire EXCEPT ![f] = x] /\ UNCHANGED <<bucket, seen, run, hist>>
          /\ faults' \in {faults, faults + 1} \cap 0 .. MaxFaults
      BY <1>0, <1>1, <2>1 DEF LoadConnector
    <2>4. \A k \in Key : Clean(k)' => Clean(k)
      BY <1>1 DEF LoadConnector, Clean
    <2>5. \A k \in Key : Clean(k)' /\ <<k, 1>> \in hist.done /\ run[<<k, 1>>] = "none" => seen[k] = 1
      BY <1>0, <2>4 DEF OnceInv
    <2> QED
      BY <2>1, <2>2, <2>3, <2>5, FireStep
  <1>2. ASSUME ListPrefixObjects(f) PROVE IInv'
    <2> DEFINE todo == {<<k, bucket[k]>> : k \in NewObjects(fire[f].cursor)}
    <2>1. /\ todo \subseteq Object
          /\ \A o \in todo : o[2] <= bucket[o[1]]
          /\ \A k \in Key : <<k, 1>> \in todo => bucket[k] = 1 /\ fire[f].cursor[k] # 1
      BY <1>0, WatchAssumption DEF NewObjects, Object, TypeOK, Version, Key
    <2> HIDE DEF todo
    <2>2. PICK x \in FireRec :
             /\ x = [fire[f] EXCEPT !.pc = "start", !.todo = todo]
             /\ x.pc = "start" /\ x.todo = todo /\ x.advanced = fire[f].advanced
      <3> DEFINE y == [fire[f] EXCEPT !.pc = "start", !.todo = todo]
      <3>1. /\ y \in FireRec
            /\ y.pc = "start" /\ y.todo = todo /\ y.advanced = fire[f].advanced
        BY <1>0, <2>1 DEF FireRec
      <3> QED
        BY <3>1
    <2>3. /\ fire' = [fire EXCEPT ![f] = x] /\ UNCHANGED <<bucket, seen, run, hist>>
          /\ faults' \in {faults, faults + 1} \cap 0 .. MaxFaults
      BY <1>0, <1>2, <2>2 DEF ListPrefixObjects, todo
    <2>4. \A k \in Key : Clean(k)' => Clean(k)
      BY <1>2 DEF ListPrefixObjects, Clean
    <2>5. \A k \in Key : Clean(k)' /\ <<k, 1>> \in hist.done /\ run[<<k, 1>>] = "none"
                           => fire[f].cursor[k] = 1
      BY <1>0, <1>2, <2>4 DEF OnceInv, ListPrefixObjects
    <2>6. x.advanced \subseteq hist.started
      BY <1>0, <2>2 DEF StartedInv
    <2> QED
      BY <2>1, <2>2, <2>3, <2>5, <2>6, FireStep
  <1>3. ASSUME NEW o \in Object, AlreadyStarted(f, o) PROVE IInv'
    <2>1. PICK x \in FireRec :
             /\ x = [fire[f] EXCEPT !.todo = @ \ {o}, !.advanced = @ \cup {o}]
             /\ x.pc = fire[f].pc /\ x.cursor = fire[f].cursor /\ x.todo = fire[f].todo \ {o}
             /\ x.advanced = fire[f].advanced \cup {o}
      <3> DEFINE y == [fire[f] EXCEPT !.todo = @ \ {o}, !.advanced = @ \cup {o}]
      <3>1. /\ y \in FireRec
            /\ y.pc = fire[f].pc /\ y.cursor = fire[f].cursor /\ y.todo = fire[f].todo \ {o}
            /\ y.advanced = fire[f].advanced \cup {o}
        BY <1>0 DEF FireRec
      <3> QED
        BY <3>1
    <2>2. /\ fire' = [fire EXCEPT ![f] = x] /\ UNCHANGED <<bucket, seen, run, hist>>
          /\ faults' \in {faults, faults + 1} \cap 0 .. MaxFaults
      BY <1>0, <1>3, <2>1 DEF AlreadyStarted
    <2>3. x.advanced \subseteq hist.started /\ x.pc # "idle"
      BY <1>0, <1>3, <2>1 DEF StartedInv, AlreadyStarted, CanStart, TypeOK
    <2>4. \A k \in Key : Clean(k)' => Clean(k)
      BY <1>3 DEF AlreadyStarted, Clean
    <2>5. \A k \in Key : Clean(k)' /\ <<k, 1>> \in hist.done /\ run[<<k, 1>>] = "none"
                           => /\ x.pc = "list" => x.cursor[k] = 1
                              /\ <<k, 1>> \notin x.todo
      BY <1>0, <2>1, <2>4 DEF OnceInv
    <2>6. \A p \in x.todo : p[2] <= bucket[p[1]]
      BY <1>0, <2>1 DEF VersionInv
    <2> QED
      BY <2>1, <2>2, <2>3, <2>5, <2>6, FireStep
  <1>4. ASSUME NEW o \in Object, StartFails(f, o) PROVE IInv'
    <2>1. PICK x \in FireRec :
             /\ x = [fire[f] EXCEPT !.todo = @ \ {o}]
             /\ x.pc = fire[f].pc /\ x.todo = fire[f].todo \ {o}
             /\ x.advanced = fire[f].advanced
      <3> DEFINE y == [fire[f] EXCEPT !.todo = @ \ {o}]
      <3>1. /\ y \in FireRec
            /\ y.pc = fire[f].pc /\ y.todo = fire[f].todo \ {o}
            /\ y.advanced = fire[f].advanced
        BY <1>0 DEF FireRec
      <3> QED
        BY <3>1
    <2>2. /\ fire' = [fire EXCEPT ![f] = x] /\ UNCHANGED <<bucket, seen, run, hist>>
          /\ faults' \in {faults, faults + 1} \cap 0 .. MaxFaults /\ faults' # 0
      BY <1>0, <1>4, <1>f, <2>1 DEF StartFails
    <2>3. x.advanced \subseteq hist.started /\ x.pc # "idle"
      BY <1>0, <1>4, <2>1 DEF StartedInv, StartFails
    <2>4. \A k \in Key : ~Clean(k)'
      BY <2>2 DEF Clean
    <2>5. \A p \in x.todo : p[2] <= bucket[p[1]]
      BY <1>0, <2>1 DEF VersionInv
    <2> QED
      BY <2>1, <2>2, <2>3, <2>4, <2>5, FireStep
  <1>5. ASSUME MarkRunning(f) PROVE IInv'
    <2>1. CASE fire' = [fire EXCEPT ![f].pc = "start"] /\ UNCHANGED faults
      <3>1. PICK x \in FireRec :
               /\ x = [fire[f] EXCEPT !.pc = "start"]
               /\ x.pc = "start" /\ x.todo = fire[f].todo /\ x.advanced = fire[f].advanced
        <4> DEFINE y == [fire[f] EXCEPT !.pc = "start"]
        <4>1. /\ y \in FireRec
              /\ y.pc = "start" /\ y.todo = fire[f].todo /\ y.advanced = fire[f].advanced
          BY <1>0 DEF FireRec
        <4> QED
          BY <4>1
      <3>2. /\ fire' = [fire EXCEPT ![f] = x] /\ UNCHANGED <<bucket, seen, run, hist>>
            /\ faults' \in {faults, faults + 1} \cap 0 .. MaxFaults
        BY <1>0, <1>5, <2>1, <3>1 DEF MarkRunning
      <3>3. \A k \in Key : Clean(k)' => Clean(k)
        BY <1>5, <2>1 DEF MarkRunning, Clean
      <3>4. \A k \in Key : Clean(k)' /\ <<k, 1>> \in hist.done /\ run[<<k, 1>>] = "none"
                             => <<k, 1>> \notin x.todo
        BY <1>0, <3>1, <3>3 DEF OnceInv
      <3>5. x.advanced \subseteq hist.started /\ \A p \in x.todo : p[2] <= bucket[p[1]]
        BY <1>0, <3>1 DEF StartedInv, VersionInv
      <3> QED
        BY <3>1, <3>2, <3>4, <3>5, FireStep
    <2>2. CASE fire' = [fire EXCEPT ![f] = Idle] /\ Fault
      <3>1. /\ UNCHANGED <<bucket, seen, run, hist>>
            /\ faults' \in {faults, faults + 1} \cap 0 .. MaxFaults /\ faults' # 0
        BY <1>5, <1>f, <2>2 DEF MarkRunning
      <3>2. \A k \in Key : ~Clean(k)'
        BY <3>1 DEF Clean
      <3>3. PICK x \in FireRec : x = Idle
        BY <1>i
      <3> QED
        BY <1>i, <2>2, <3>1, <3>2, <3>3, FireStep
    <2> QED
      BY <1>5, <2>1, <2>2 DEF MarkRunning
  <1> QED
    BY <1>1, <1>2, <1>3, <1>4, <1>5

HistRec == [started : SUBSET Object, done : SUBSET Object, evicted : SUBSET Key]

\* StartObject: what a fire starts and has not marked is on its way to the
\* cursor.
LEMMA StartObjectStep ==
    ASSUME IInv, NEW f \in Fire, NEW o \in Object, StartObject(f, o)
    PROVE  IInv'
  <1>0. /\ TypeOK /\ StartedInv /\ VersionInv /\ OnceInv
        /\ fire \in [Fire -> FireRec] /\ fire[f] \in FireRec /\ hist \in HistRec
    BY DEF IInv, TypeOK, FireRec, HistRec
  <1>1. /\ fire[f].pc = "start" /\ o \in fire[f].todo /\ run[o] \in {"none", "bad"}
        /\ run' = [run EXCEPT ![o] = "running"]
        /\ UNCHANGED <<bucket, seen, faults>>
    BY DEF StartObject, CanStart
  <1>2. PICK x \in FireRec :
           /\ x = [fire[f] EXCEPT !.pc = "mark", !.todo = @ \ {o}, !.advanced = @ \cup {o}]
           /\ x.pc = "mark" /\ x.todo = fire[f].todo \ {o} /\ x.advanced = fire[f].advanced \cup {o}
    <2> DEFINE y == [fire[f] EXCEPT !.pc = "mark", !.todo = @ \ {o}, !.advanced = @ \cup {o}]
    <2>1. /\ y \in FireRec /\ y.pc = "mark" /\ y.todo = fire[f].todo \ {o}
          /\ y.advanced = fire[f].advanced \cup {o}
      BY <1>0 DEF FireRec
    <2> QED
      BY <2>1
  <1>3. fire' \in [Fire -> FireRec] /\ \A g \in Fire : fire'[g] = IF g = f THEN x ELSE fire[g]
    BY <1>0, <1>2 DEF StartObject
  <1>4. /\ hist' \in HistRec /\ hist'.started = hist.started \cup {o}
        /\ hist'.done = hist.done /\ hist'.evicted = hist.evicted
    BY <1>0 DEF StartObject, HistRec
  <1>5. TypeOK'
    BY <1>0, <1>1, <1>3, <1>4 DEF TypeOK, FireRec, HistRec
  <1>6. StartedInv'
    BY <1>0, <1>1, <1>2, <1>3, <1>4 DEF StartedInv, TypeOK
  <1>7. VersionInv'
    BY <1>0, <1>1, <1>2, <1>3, <1>4 DEF VersionInv
  <1>8. OnceInv'
    <2> SUFFICES ASSUME NEW k \in Key, Clean(k)'
        PROVE  /\ <<k, 1>> \in hist'.started =>
                     seen[k] = 1 \/ \E g \in Fire : <<k, 1>> \in fire'[g].advanced
               /\ <<k, 1>> \in hist.done =>
                     \/ run'[<<k, 1>>] = "ok"
                     \/ /\ run'[<<k, 1>>] = "none" /\ seen[k] = 1
                        /\ \A g \in Fire : /\ fire'[g].pc = "list" => fire'[g].cursor[k] = 1
                                           /\ <<k, 1>> \notin fire'[g].todo
      BY <1>1, <1>4 DEF OnceInv
    <2>1. Clean(k)
      BY <1>1, <1>4 DEF Clean
    <2>2. <<k, 1>> \in hist'.started => seen[k] = 1 \/ \E g \in Fire : <<k, 1>> \in fire'[g].advanced
      <3>1. CASE <<k, 1>> = o
        BY <1>2, <1>3, <3>1
      <3>2. CASE <<k, 1>> # o
        BY <1>0, <1>2, <1>3, <1>4, <2>1, <3>2 DEF OnceInv
      <3> QED
        BY <3>1, <3>2
    <2>3. ASSUME <<k, 1>> \in hist.done
          PROVE  \/ run'[<<k, 1>>] = "ok"
                 \/ /\ run'[<<k, 1>>] = "none" /\ seen[k] = 1
                    /\ \A g \in Fire : /\ fire'[g].pc = "list" => fire'[g].cursor[k] = 1
                                       /\ <<k, 1>> \notin fire'[g].todo
      <3>1. <<k, 1>> # o
        BY <1>0, <1>1, <2>1, <2>3 DEF OnceInv
      <3>2. run'[<<k, 1>>] = run[<<k, 1>>]
        BY <1>0, <1>1, <2>3, <3>1 DEF TypeOK
      <3>3. \/ run[<<k, 1>>] = "ok"
            \/ /\ run[<<k, 1>>] = "none" /\ seen[k] = 1
               /\ \A g \in Fire : /\ fire[g].pc = "list" => fire[g].cursor[k] = 1
                                  /\ <<k, 1>> \notin fire[g].todo
        BY <1>0, <2>1, <2>3 DEF OnceInv
      <3> QED
        BY <1>2, <1>3, <3>2, <3>3
    <2> QED
      BY <2>2, <2>3
  <1> QED
    BY <1>5, <1>6, <1>7, <1>8 DEF IInv

\* AdvanceConnectorCursor: the merge keeps to what was started, and drops a
\* key only by evicting it.
LEMMA AdvanceStep ==
    ASSUME IInv, NEW f \in Fire, AdvanceConnectorCursor(f)
    PROVE  IInv'
  <1>0. /\ TypeOK /\ StartedInv /\ VersionInv /\ OnceInv
        /\ fire \in [Fire -> FireRec] /\ fire[f] \in FireRec /\ hist \in HistRec
        /\ faults \in 0 .. MaxFaults /\ MaxFaults \in Nat
    BY WatchAssumption DEF IInv, TypeOK, FireRec, HistRec
  <1>i. Idle \in FireRec /\ Idle.pc = "idle" /\ Idle.todo = {} /\ Idle.advanced = {}
    BY DEF Idle, FireRec
  <1>1. fire' = [fire EXCEPT ![f] = Idle] /\ UNCHANGED <<bucket, run>>
    BY DEF AdvanceConnectorCursor
  <1> DEFINE merged == [k \in Key |-> IF \E v \in Version : <<k, v>> \in fire[f].advanced
                                      THEN CHOOSE v \in Version : <<k, v>> \in fire[f].advanced
                                      ELSE seen[k]]
             keys == {k \in Key : merged[k] # 0}
  <1>2. CASE fire[f].advanced # {} /\ Fault /\ UNCHANGED <<seen, hist>>
    <2>1. faults' \in {faults, faults + 1} \cap 0 .. MaxFaults /\ faults' # 0
      BY <1>0, <1>2 DEF Fault
    <2>2. \A k \in Key : ~Clean(k)'
      BY <2>1 DEF Clean
    <2>3. PICK x \in FireRec : x = Idle
      BY <1>i
    <2> QED
      BY <1>1, <1>2, <1>i, <2>1, <2>2, <2>3, FireStep
  <1>3. CASE /\ seen' = [k \in Key |-> IF k \in Keeps(keys) THEN merged[k] ELSE 0]
             /\ hist' = [hist EXCEPT !.evicted = @ \cup (keys \ Keeps(keys))]
             /\ UNCHANGED faults
    <2>1. /\ merged \in [Key -> {0} \cup Version]
          /\ \A k \in Key : merged[k] # seen[k] => merged[k] \in Version /\ <<k, merged[k]>> \in fire[f].advanced
          /\ \A k \in Key : (\E v \in Version : <<k, v>> \in fire[f].advanced)
                               => merged[k] \in Version /\ <<k, merged[k]>> \in fire[f].advanced
      BY <1>0 DEF TypeOK
    <2> HIDE DEF merged
    <2>2. keys \in SUBSET Key
      OBVIOUS
    <2>3. Keeps(keys) \subseteq keys /\ Cardinality(Keeps(keys)) <= MaxCursor
      BY <2>2, KeepsBound
    <2>4. /\ seen' \in [Key -> {0} \cup Version]
          /\ {k \in Key : seen'[k] # 0} = Keeps(keys)
          /\ \A k \in Key : seen'[k] = IF k \in Keeps(keys) THEN merged[k] ELSE 0
      BY <1>3, <2>1, <2>3
    <2>5. /\ hist' \in HistRec /\ hist'.started = hist.started /\ hist'.done = hist.done
          /\ hist'.evicted = hist.evicted \cup (keys \ Keeps(keys))
      BY <1>0, <1>3, <2>2 DEF HistRec
    <2>6. fire' \in [Fire -> FireRec] /\ \A g \in Fire : fire'[g] = IF g = f THEN Idle ELSE fire[g]
      BY <1>0, <1>1, <1>i
    <2>7. TypeOK'
      BY <1>0, <1>1, <1>3, <2>3, <2>4, <2>5, <2>6 DEF TypeOK, FireRec, HistRec
    <2>8. StartedInv'
      <3>1. \A k \in Key : merged[k] # 0 => <<k, merged[k]>> \in hist.started
        BY <1>0, <2>1 DEF StartedInv
      <3> QED
        BY <1>0, <1>1, <1>i, <2>4, <2>5, <2>6, <3>1 DEF StartedInv
    <2>9. VersionInv'
      BY <1>0, <1>1, <1>i, <2>5, <2>6 DEF VersionInv
    <2>10. OnceInv'
      <3> SUFFICES ASSUME NEW k \in Key, Clean(k)'
          PROVE  /\ <<k, 1>> \in hist.started =>
                       seen'[k] = 1 \/ \E g \in Fire : <<k, 1>> \in fire'[g].advanced
                 /\ <<k, 1>> \in hist.done =>
                       \/ run[<<k, 1>>] = "ok"
                       \/ /\ run[<<k, 1>>] = "none" /\ seen'[k] = 1
                          /\ \A g \in Fire : /\ fire'[g].pc = "list" => fire'[g].cursor[k] = 1
                                             /\ <<k, 1>> \notin fire'[g].todo
        BY <1>1, <2>5 DEF OnceInv
      <3>1. Clean(k) /\ k \notin keys \ Keeps(keys) /\ bucket[k] <= 1
        BY <1>1, <1>3, <2>5 DEF Clean
      <3>2. \A v \in Version : <<k, v>> \in fire[f].advanced => v = 1
        <4> SUFFICES ASSUME NEW v \in Version, <<k, v>> \in fire[f].advanced PROVE v = 1
          OBVIOUS
        <4>1. v <= bucket[k]
          BY <1>0 DEF StartedInv, VersionInv
        <4>2. bucket[k] \in Nat /\ v \in Nat /\ v >= 1
          BY <1>0, WatchAssumption DEF TypeOK, Version
        <4> QED
          BY <3>1, <4>1, <4>2
      <3>3. seen[k] = 1 \/ <<k, 1>> \in fire[f].advanced => merged[k] = 1
        <4>1. CASE <<k, 1>> \in fire[f].advanced
          <5>1. 1 \in Version
            BY <1>0, <4>1 DEF FireRec, Object
          <5> QED
            BY <2>1, <3>2, <4>1, <5>1
        <4>2. CASE seen[k] = 1
          BY <2>1, <3>2, <4>2
        <4> QED
          BY <4>1, <4>2
      <3>4. seen[k] = 1 \/ <<k, 1>> \in fire[f].advanced => seen'[k] = 1
        BY <2>4, <3>1, <3>3
      <3> QED
        BY <1>0, <1>i, <2>6, <3>1, <3>4 DEF OnceInv
    <2> QED
      BY <2>7, <2>8, <2>9, <2>10 DEF IInv
  <1> QED
    BY <1>2, <1>3 DEF AdvanceConnectorCursor

\* Uploads, every step of every fire, ends of children and Temporal's retention
\* keep the invariant.
LEMMA IInvNext == IInv /\ [Next]_vars => IInv'
  <1> SUFFICES ASSUME IInv, [Next]_vars PROVE IInv'
    OBVIOUS
  <1>0. /\ TypeOK /\ StartedInv /\ VersionInv /\ OnceInv /\ hist \in HistRec
        /\ MaxPuts \in Nat /\ bucket \in [Key -> 0 .. MaxPuts]
    BY WatchAssumption DEF IInv, TypeOK, HistRec, Version
  <1>1. ASSUME NEW k \in Key, Put(k) PROVE IInv'
    <2>1. /\ bucket[k] < MaxPuts /\ bucket' = [bucket EXCEPT ![k] = @ + 1]
          /\ UNCHANGED <<seen, fire, run, hist, faults>>
      BY <1>1 DEF Put
    <2>2. /\ bucket' \in [Key -> 0 .. MaxPuts]
          /\ \A j \in Key : bucket[j] <= bucket'[j] /\ bucket'[j] \in Nat /\ bucket[j] \in Nat
      BY <1>0, <2>1
    <2>3. TypeOK'
      BY <1>0, <2>1, <2>2 DEF TypeOK, Version
    <2>4. StartedInv'
      BY <1>0, <2>1 DEF StartedInv
    <2>5. \A o \in Object : o[1] \in Key /\ o[2] \in Nat
      BY <1>0 DEF Object, Version
    <2>6. /\ hist.started \subseteq Object /\ \A f \in Fire : fire[f].todo \subseteq Object
      BY <1>0 DEF TypeOK
    <2>7. VersionInv'
      BY <1>0, <2>1, <2>2, <2>5, <2>6 DEF VersionInv
    <2>8. \A j \in Key : Clean(j)' => Clean(j)
      BY <2>1, <2>2 DEF Clean
    <2>9. OnceInv'
      BY <1>0, <2>1, <2>8 DEF OnceInv
    <2> QED
      BY <2>3, <2>4, <2>7, <2>9 DEF IInv
  <1>2. ASSUME NEW o \in Object, ChildEnds(o) PROVE IInv'
    <2>1. /\ run[o] = "running" /\ UNCHANGED <<bucket, seen, fire, faults>>
          /\ hist' \in HistRec /\ hist'.started = hist.started /\ hist'.evicted = hist.evicted
          /\ run' \in [Object -> {"none", "running", "ok", "bad"}]
          /\ \A p \in Object : p # o => run'[p] = run[p]
          /\ hist.done \subseteq hist'.done /\ hist'.done \subseteq hist.done \cup {o}
          /\ run'[o] \in {"ok", "bad"} /\ (o \in hist'.done \ hist.done => run'[o] = "ok")
      <3>1. CASE run' = [run EXCEPT ![o] = "ok"] /\ hist' = [hist EXCEPT !.done = @ \cup {o}]
        BY <1>0, <1>2, <3>1 DEF ChildEnds, HistRec, TypeOK
      <3>2. CASE run' = [run EXCEPT ![o] = "bad"] /\ UNCHANGED hist
        BY <1>0, <1>2, <3>2 DEF ChildEnds, HistRec, TypeOK
      <3> QED
        BY <1>2, <3>1, <3>2 DEF ChildEnds
    <2>2. TypeOK'
      BY <1>0, <2>1 DEF TypeOK, HistRec
    <2>3. StartedInv'
      BY <1>0, <2>1 DEF StartedInv
    <2>4. VersionInv'
      BY <1>0, <2>1 DEF VersionInv
    <2>5. \A j \in Key : Clean(j)' => Clean(j)
      BY <2>1 DEF Clean
    <2>6. OnceInv'
      <3> SUFFICES ASSUME NEW k \in Key, Clean(k)'
          PROVE  /\ <<k, 1>> \in hist.started =>
                       seen[k] = 1 \/ \E g \in Fire : <<k, 1>> \in fire[g].advanced
                 /\ <<k, 1>> \in hist'.done =>
                       \/ run'[<<k, 1>>] = "ok"
                       \/ /\ run'[<<k, 1>>] = "none" /\ seen[k] = 1
                          /\ \A g \in Fire : /\ fire[g].pc = "list" => fire[g].cursor[k] = 1
                                             /\ <<k, 1>> \notin fire[g].todo
        BY <2>1 DEF OnceInv
      <3>1. <<k, 1>> \in hist.done => <<k, 1>> # o
        BY <1>0, <2>1, <2>5 DEF OnceInv
      <3>2. hist'.done \subseteq Object
        BY <2>1 DEF HistRec
      <3> QED
        BY <1>0, <2>1, <2>5, <3>1, <3>2 DEF OnceInv
    <2> QED
      BY <2>2, <2>3, <2>4, <2>6 DEF IInv
  <1>3. ASSUME NEW o \in Object, Forget(o) PROVE IInv'
    <2>1. /\ run[o] \in {"ok", "bad"} /\ \A f \in Fire : fire[f].pc = "idle"
          /\ run' = [run EXCEPT ![o] = "none"]
          /\ UNCHANGED <<bucket, seen, fire, hist, faults>>
      BY <1>3 DEF Forget
    <2>2. TypeOK' /\ StartedInv' /\ VersionInv'
      BY <1>0, <2>1 DEF TypeOK, StartedInv, VersionInv
    <2>3. \A j \in Key : Clean(j)' => Clean(j)
      BY <2>1 DEF Clean
    <2>4. OnceInv'
      <3> SUFFICES ASSUME NEW k \in Key, Clean(k)'
          PROVE  /\ <<k, 1>> \in hist.started =>
                       seen[k] = 1 \/ \E g \in Fire : <<k, 1>> \in fire[g].advanced
                 /\ <<k, 1>> \in hist.done =>
                       \/ run'[<<k, 1>>] = "ok"
                       \/ /\ run'[<<k, 1>>] = "none" /\ seen[k] = 1
                          /\ \A g \in Fire : /\ fire[g].pc = "list" => fire[g].cursor[k] = 1
                                             /\ <<k, 1>> \notin fire[g].todo
        BY <2>1 DEF OnceInv
      <3>1. \A g \in Fire : fire[g].todo = {} /\ fire[g].advanced = {}
        BY <1>0, <2>1 DEF StartedInv
      <3>2. <<k, 1>> \in hist.done => <<k, 1>> \in hist.started /\ <<k, 1>> \in Object
        BY <1>0 DEF StartedInv, HistRec
      <3>3. <<k, 1>> \in hist.done => seen[k] = 1 /\ run[<<k, 1>>] \in {"ok", "none"}
        BY <1>0, <2>3, <3>1, <3>2 DEF OnceInv
      <3>4. <<k, 1>> \in hist.done => run'[<<k, 1>>] \in {"ok", "none"}
        BY <1>0, <2>1, <3>2, <3>3 DEF TypeOK
      <3> QED
        BY <1>0, <2>1, <2>3, <3>1, <3>3, <3>4 DEF OnceInv
    <2> QED
      BY <2>2, <2>4 DEF IInv
  <1>4. CASE UNCHANGED vars
    BY <1>0, <1>4 DEF vars, IInv, TypeOK, StartedInv, VersionInv, OnceInv, Clean
  <1> QED
    BY <1>1, <1>2, <1>3, <1>4, FireSteps, StartObjectStep, AdvanceStep DEF Next, Step

-----------------------------------------------------------------------------
(* The theorems. *)

\* The invariant holds in every reachable state.
THEOREM Invariance == Spec => []IInv
  BY IInvInit, IInvNext, PTL DEF Spec

\* The types hold; in particular AdvanceConnectorCursor never leaves more than
\* maxCursorEntries keys in the cursor, whatever it merges.
THEOREM TypeCorrect == Spec => []TypeOK
  <1>1. IInv => TypeOK
    BY DEF IInv
  <1> QED
    BY <1>1, Invariance, PTL

\* No arrival is lost: the cursor hides only what some fire started.
THEOREM SeenWasStartedHolds == Spec => []SeenWasStarted
  <1>1. IInv => SeenWasStarted
    BY DEF IInv, StartedInv, SeenWasStarted
  <1> QED
    BY <1>1, Invariance, PTL

\* A child is started for a version already migrated only once Temporal has
\* forgotten it and its key was evicted or overwritten or a fire failed.
THEOREM MigratedAgainOnlyIfHolds == Spec => MigratedAgainOnlyIf
  <1> DEFINE A == \A o \in hist.done : run[o] # "running" /\ run'[o] = "running" =>
                     /\ run[o] # "ok"
                     /\ o[1] \in hist.evicted \/ faults > 0 \/ bucket[o[1]] > 1
  <1>1. IInv /\ [Next]_vars => [A]_vars
    <2> SUFFICES ASSUME IInv, [Next]_vars, NEW o \in hist.done, run[o] # "running",
                        run'[o] = "running"
                 PROVE  /\ run[o] # "ok"
                        /\ o[1] \in hist.evicted \/ faults > 0 \/ bucket[o[1]] > 1
      OBVIOUS
    <2>1. /\ o \in Object /\ run \in [Object -> {"none", "running", "ok", "bad"}]
          /\ faults \in Nat /\ bucket \in [Key -> Nat]
      BY WatchAssumption DEF IInv, TypeOK, Version
    <2>2. PICK f \in Fire : StartObject(f, o)
      <3>1. CASE UNCHANGED run
        BY <3>1
      <3>2. ASSUME NEW f \in Fire, NEW p \in Object, StartObject(f, p)
            PROVE  StartObject(f, o)
        BY <2>1, <3>2 DEF StartObject
      <3>3. ASSUME NEW p \in Object, ChildEnds(p) \/ Forget(p) PROVE FALSE
        BY <2>1, <3>3 DEF ChildEnds, Forget
      <3> QED
        BY <3>1, <3>2, <3>3 DEF Next, Step, vars, Put, LoadConnector, ListPrefixObjects, MarkRunning,
           AdvanceConnectorCursor, AlreadyStarted, StartFails
    <2>3. run[o] \in {"none", "bad"} /\ o \in fire[f].todo
      BY <2>2 DEF StartObject, CanStart
    <2>4. PICK k \in Key, v \in Version : o = <<k, v>>
      BY <2>1 DEF Object
    <2>5. v <= bucket[k] /\ v \in Nat /\ v >= 1
      BY <2>1, <2>4, WatchAssumption DEF IInv, StartedInv, VersionInv, Version
    <2>6. ASSUME Clean(k) PROVE FALSE
      <3>1. v = 1
        BY <2>1, <2>5, <2>6 DEF Clean
      <3> QED
        BY <2>3, <2>4, <2>6, <3>1 DEF IInv, OnceInv
    <2> QED
      BY <2>1, <2>3, <2>4, <2>6 DEF Clean
  <1> QED
    BY <1>1, Invariance, PTL DEF Spec, MigratedAgainOnlyIf
=============================================================================
