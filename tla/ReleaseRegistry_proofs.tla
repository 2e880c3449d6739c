------------------------ MODULE ReleaseRegistry_proofs ------------------------
(***************************************************************************)
(* Theorems about ReleaseRegistry, for any number of releases, clients,    *)
(* operators and reasons, and whatever the faults.                         *)
(***************************************************************************)
EXTENDS ReleaseRegistry, TLAPS

ManifestNone == Manifest \cup {None}

Busy == [phase: {"loaded", "ready", "writing"}, kind: Event, rel: Release,
         next: Manifest, op: Operator, why: Reason,
         prev: Lifecycle \cup {None}, todo: SUBSET File, failed: BOOLEAN]

ClientStep(c) ==
  \/ Ask(c) \/ CheckBaseline(c) \/ GiveUp(c) \/ Admit(c) \/ Refuse(c)
  \/ WriteManifest(c) \/ WriteCanary(c) \/ WritePointer(c) \/ WriteAudit(c)
  \/ Unlock(c) \/ IoError(c) \/ Kill(c)

LEMMA NextSteps == ASSUME Next PROVE \E c \in Client : ClientStep(c)
BY DEF Next, Command, ClientStep

\* A release id is never the null of a missing manifest; manifests are records.
LEMMA BusyIsARecord ==
  ASSUME TypeOK, NEW c \in Client, job[c].phase # "idle"
  PROVE  job[c] \in Busy
BY DEF TypeOK, Job, Busy, Idle

LEMMA RequestTypeOK ==
  ASSUME TypeOK, NEW c \in Client, NEW r \in Release, NEW next \in Manifest,
         NEW op \in Operator, NEW why \in Reason, NEW kind \in Event,
         NEW phase \in {"loaded", "ready"}, Request(c, phase, kind, r, next, op, why)
  PROVE  TypeOK'
<1>1. [phase |-> phase, kind |-> kind, rel |-> r, next |-> next, op |-> op,
       why |-> why, prev |-> None, todo |-> {}, failed |-> FALSE] \in Job
  BY DEF Job
<1> QED
  BY <1>1 DEF Request, TypeOK

LEMMA AskTypeOK == ASSUME TypeOK, NEW c \in Client, Ask(c) PROVE TypeOK'
<1> PICK r \in Release, op \in Operator, why \in Reason :
      \/ Stage(c, r, op, why) \/ Provision(c, r, op, why)
      \/ StartCanary(c, r, op, why) \/ Activate(c, r, op, why)
      \/ Rollback(c, r, op, why)
  BY DEF Ask
<1>1. manifest[r] # None => manifest[r] \in Manifest
  BY DEF TypeOK
<1>2. CASE Stage(c, r, op, why)
  <2>1. PICK tag \in {c, None} :
          Request(c, "ready", "staged", r,
                  [state |-> "staged", base |-> pointer.id, by |-> None,
                   activated |-> FALSE, tag |-> tag], op, why)
    BY <1>2 DEF Stage
  <2>2. [state |-> "staged", base |-> pointer.id, by |-> None,
         activated |-> FALSE, tag |-> tag] \in Manifest
    BY DEF Manifest, Lifecycle, TypeOK, Pointer
  <2> QED
    BY <2>1, <2>2, RequestTypeOK DEF Event
<1>3. CASE Provision(c, r, op, why)
  <2>1. [state |-> "active", base |-> None, by |-> op, activated |-> TRUE,
         tag |-> None] \in Manifest
    BY DEF Manifest, Lifecycle
  <2> QED
    BY <1>3, <2>1, RequestTypeOK DEF Provision, Event
<1>4. CASE StartCanary(c, r, op, why)
  <2>1. [manifest[r] EXCEPT !.state = "canary", !.by = op, !.tag = c] \in Manifest
    BY <1>1, <1>4 DEF StartCanary, Manifest, Lifecycle
  <2> QED
    BY <1>1, <1>4, <2>1, RequestTypeOK DEF StartCanary, Event
<1>5. CASE Activate(c, r, op, why)
  <2>1. [manifest[r] EXCEPT !.state = "active", !.activated = TRUE, !.tag = c]
          \in Manifest
    BY <1>1, <1>5 DEF Activate, Manifest, Lifecycle
  <2> QED
    BY <1>1, <1>5, <2>1, RequestTypeOK DEF Activate, Event
<1>6. CASE Rollback(c, r, op, why)
  <2>1. [manifest[r] EXCEPT !.state = "rolled_back", !.tag = c] \in Manifest
    BY <1>1, <1>6 DEF Rollback, Manifest, Lifecycle
  <2> QED
    BY <1>1, <1>6, <2>1, RequestTypeOK DEF Rollback, Event
<1> QED
  BY <1>2, <1>3, <1>4, <1>5, <1>6

LEMMA AdmitTypeOK == ASSUME TypeOK, NEW c \in Client, Admit(c) PROVE TypeOK'
<1>1. job[c] \in Busy
  BY BusyIsARecord DEF Admit
<1>2. PreviousState(job[c]) \in Lifecycle \cup {None}
  <2>1. CASE job[c].kind \in {"staged", "baseline_provisioned"}
    BY <2>1 DEF PreviousState
  <2>2. CASE job[c].kind \notin {"staged", "baseline_provisioned"}
    <3>1. job[c].next.state \in Lifecycle
      BY <1>1 DEF Busy, Manifest
    <3>2. expectedPreviousState(job[c].next) \in Lifecycle
      BY <3>1 DEF expectedPreviousState, Lifecycle
    <3>3. manifest[job[c].rel].state \in Lifecycle
      BY <1>1, <2>2 DEF Admit, Allowed, TransitionAllowed, TypeOK, Busy, Manifest,
         Event
    <3> QED
      BY <2>2, <3>2, <3>3 DEF PreviousState
  <2> QED
    BY <2>1, <2>2
<1>3. Writes(job[c]) \in SUBSET File
  BY DEF Writes, File
<1>4. [job[c] EXCEPT !.phase = "writing", !.prev = PreviousState(job[c]),
                     !.todo = Writes(job[c])] \in Busy
  BY <1>1, <1>2, <1>3 DEF Busy
<1>5. job' \in [Client -> Job]
  BY <1>4 DEF Admit, TypeOK, Job, Busy
<1> QED
  BY <1>5 DEF Admit, TypeOK

LEMMA WriteTypeOK ==
  ASSUME TypeOK, NEW c \in Client,
         \/ WriteManifest(c) \/ WriteCanary(c) \/ WritePointer(c)
         \/ WriteAudit(c) \/ CheckBaseline(c)
  PROVE  TypeOK'
<1>1. job[c] \in Busy
  BY BusyIsARecord DEF WriteManifest, WriteCanary, WritePointer, WriteAudit, Holds,
     CheckBaseline
<1>2. ASSUME NEW f, Done(c, f) PROVE job' \in [Client -> Job]
  <2>1. [job[c] EXCEPT !.todo = @ \ {f}] \in Busy
    BY <1>1 DEF Busy
  <2> QED
    BY <1>2, <2>1 DEF Done, TypeOK, Job, Busy
<1>3. CASE WriteManifest(c)
  BY <1>1, <1>2, <1>3 DEF WriteManifest, TypeOK, Busy
<1>4. CASE WriteCanary(c)
  <2>1. CanaryTarget(job[c]) \in Release \cup {None}
    BY <1>1 DEF CanaryTarget, Busy
  <2> QED
    BY <1>2, <1>4, <2>1 DEF WriteCanary, TypeOK, Pointer
<1>5. CASE WritePointer(c)
  <2>1. PointerTarget(job[c]) \in Release \cup {None}
    BY <1>1 DEF PointerTarget, Busy, Manifest
  <2> QED
    BY <1>2, <1>5, <2>1 DEF WritePointer, TypeOK, Pointer
<1>6. CASE WriteAudit(c)
  <2> DEFINE row == AuditRowOf(job[c])
  <2>1. row \in AuditRow
    BY <1>1 DEF AuditRowOf, AuditRow, Busy, TypeOK, Pointer
  <2>2. <<job[c].rel, job[c].kind>> \in Release \X Event
    BY <1>1 DEF Busy
  <2>3. audit' \in [Release \X Event -> AuditRow \cup {None}]
    BY <1>6, <2>1, <2>2 DEF WriteAudit, TypeOK
  <2>4. ASSUME NEW b \in BOOLEAN
        PROVE  [job[c] EXCEPT !.todo = {}, !.failed = b] \in Busy
    BY <1>1 DEF Busy
  <2>5. job' \in [Client -> Job]
    BY <1>6, <2>4 DEF WriteAudit, TypeOK, Job, Busy
  <2> QED
    BY <1>6, <2>3, <2>5 DEF WriteAudit, TypeOK
<1>7. CASE CheckBaseline(c)
  <2>1. [job[c] EXCEPT !.phase = "ready"] \in Busy
    BY <1>1 DEF Busy
  <2> QED
    BY <1>7, <2>1 DEF CheckBaseline, TypeOK, Job, Busy
<1> QED
  BY <1>3, <1>4, <1>5, <1>6, <1>7

\* Every reachable registry and every command in progress is well typed.
THEOREM TypeCorrect == Spec => []TypeOK
<1>1. Init => TypeOK
  BY DEF Init, TypeOK, Pointer, Job
<1>2. TypeOK /\ [Next]_vars => TypeOK'
  <2> SUFFICES ASSUME TypeOK, [Next]_vars PROVE TypeOK'
    OBVIOUS
  <2>1. CASE UNCHANGED vars
    BY <2>1 DEF vars, TypeOK
  <2>2. CASE Next
    <3> PICK c \in Client : ClientStep(c)
      BY <2>2, NextSteps
    <3>1. CASE \/ GiveUp(c) \/ Refuse(c) \/ Unlock(c) \/ IoError(c) \/ Kill(c)
      BY <3>1 DEF GiveUp, Refuse, Unlock, IoError, Kill, TypeOK, Job
    <3> QED
      BY <3>1, AskTypeOK, AdmitTypeOK, WriteTypeOK DEF ClientStep
  <2> QED
    BY <2>1, <2>2
<1> QED
  BY <1>1, <1>2, PTL DEF Spec

-----------------------------------------------------------------------------
(* What a command holding the lock is about to write still fits the        *)
(* registry, because nobody else has written since it was admitted.        *)

ManifestWriteFits(c) ==
  LET j == job[c] IN
  Holds(c) /\ "manifest" \in j.todo =>
    \/ manifest[j.rel] = None
    \/ /\ manifest[j.rel] # None
       /\ <<manifest[j.rel].state, j.next.state>> \in RELEASE_TRANSITIONS
       /\ manifest[j.rel].base = j.next.base

ManifestWritten(c) ==
  Holds(c) /\ "manifest" \notin job[c].todo => manifest[job[c].rel] = job[c].next

PointerWriteFits(c) ==
  LET j == job[c] IN
  Holds(c) /\ "pointer" \in j.todo =>
    \/ /\ j.kind \in {"active", "baseline_provisioned"}
       /\ j.next.state = "active"
       /\ pointer.id = j.next.base
    \/ /\ j.kind = "rolled_back"
       /\ j.next.state = "rolled_back"
       /\ pointer.id = j.rel

CanaryWriteFits(c) ==
  LET j == job[c] IN
  Holds(c) /\ "canary" \in j.todo =>
    \/ j.kind = "canary" /\ canary.id = None
    \/ /\ j.kind \in {"active", "rolled_back"}
       /\ j.next.state \in {"active", "rolled_back"}
       /\ canary.id = j.rel

KindFits(c) ==
  LET j == job[c] IN
  /\ j.phase # "idle" /\ j.kind = "baseline_provisioned" =>
        j.next.state = "active" /\ j.next.base = None
  /\ j.phase # "idle" /\ j.kind # "baseline_provisioned" => j.next.state = j.kind

LockedInv ==
  \A c \in Client :
    /\ KindFits(c)
    /\ ManifestWriteFits(c)
    /\ ManifestWritten(c)
    /\ PointerWriteFits(c)
    /\ CanaryWriteFits(c)

\* A step that leaves c as it is and does not touch the files, or is taken by
\* another client while c does not hold the lock, keeps what c is about to do.
LEMMA OthersKeep ==
  ASSUME LockedInv, NEW d \in Client, job'[d] = job[d],
         ~Holds(d)' \/ (Holds(d) /\ UNCHANGED <<manifest, pointer, canary>>)
  PROVE  /\ KindFits(d)' /\ ManifestWriteFits(d)' /\ ManifestWritten(d)'
         /\ PointerWriteFits(d)' /\ CanaryWriteFits(d)'
BY DEF LockedInv, KindFits, ManifestWriteFits, ManifestWritten, PointerWriteFits,
   CanaryWriteFits, Holds

LEMMA AskKind ==
  ASSUME TypeOK, NEW c \in Client, Ask(c)
  PROVE  /\ KindFits(c)' /\ ~Holds(c)'
         /\ \A d \in Client \ {c} : job'[d] = job[d]
         /\ UNCHANGED <<manifest, pointer, canary, lock>>
<1> PICK r \in Release, op \in Operator, why \in Reason :
      \/ Stage(c, r, op, why) \/ Provision(c, r, op, why)
      \/ StartCanary(c, r, op, why) \/ Activate(c, r, op, why)
      \/ Rollback(c, r, op, why)
  BY DEF Ask
<1>1. ASSUME NEW phase \in {"loaded", "ready"}, NEW kind, NEW next,
             Request(c, phase, kind, r, next, op, why),
             IF kind = "baseline_provisioned"
             THEN next.state = "active" /\ next.base = None
             ELSE next.state = kind
      PROVE  /\ KindFits(c)' /\ ~Holds(c)'
             /\ \A d \in Client \ {c} : job'[d] = job[d]
             /\ UNCHANGED <<manifest, pointer, canary, lock>>
  BY <1>1 DEF Request, TypeOK, KindFits, Holds
<1>2. manifest[r] # None => manifest[r] \in Manifest
  BY DEF TypeOK
<1>3. CASE Stage(c, r, op, why)
  BY <1>1, <1>3 DEF Stage
<1>4. CASE Provision(c, r, op, why)
  BY <1>1, <1>4 DEF Provision
<1>5. CASE StartCanary(c, r, op, why)
  <2>1. [manifest[r] EXCEPT !.state = "canary", !.by = op, !.tag = c].state = "canary"
    BY <1>2, <1>5 DEF StartCanary, Manifest
  <2> QED
    BY <1>1, <1>5, <2>1 DEF StartCanary
<1>6. CASE Activate(c, r, op, why)
  <2>1. [manifest[r] EXCEPT !.state = "active", !.activated = TRUE,
                            !.tag = c].state = "active"
    BY <1>2, <1>6 DEF Activate, Manifest
  <2> QED
    BY <1>1, <1>6, <2>1 DEF Activate
<1>7. CASE Rollback(c, r, op, why)
  <2>1. [manifest[r] EXCEPT !.state = "rolled_back", !.tag = c].state = "rolled_back"
    BY <1>2, <1>7 DEF Rollback, Manifest
  <2> QED
    BY <1>1, <1>7, <2>1 DEF Rollback
<1> QED
  BY <1>3, <1>4, <1>5, <1>6, <1>7

LEMMA AdmitFits ==
  ASSUME TypeOK, LockedInv, NEW c \in Client, Admit(c)
  PROVE  /\ KindFits(c)' /\ ManifestWriteFits(c)' /\ ManifestWritten(c)'
         /\ PointerWriteFits(c)' /\ CanaryWriteFits(c)'
<1> DEFINE j == job[c]
<1>1. /\ job'[c] = [j EXCEPT !.phase = "writing", !.prev = PreviousState(j),
                             !.todo = Writes(j)]
      /\ UNCHANGED <<manifest, pointer, canary>>
      /\ Allowed(j)
      /\ j.phase = "ready"
  BY DEF Admit, TypeOK
<1>2. j \in Busy
  BY <1>1, BusyIsARecord
<1>3. /\ job'[c].kind = j.kind /\ job'[c].next = j.next /\ job'[c].rel = j.rel
      /\ job'[c].todo = Writes(j)
      /\ job'[c].phase = "writing"
  BY <1>1, <1>2 DEF Busy
<1>4. KindFits(c)
  BY DEF LockedInv
<1>5. KindFits(c)'
  BY <1>1, <1>3, <1>4 DEF KindFits
<1>6. "manifest" \in Writes(j) <=> manifest[j.rel] # j.next
  BY DEF Writes
<1>7. ManifestWritten(c)'
  BY <1>1, <1>3, <1>6 DEF ManifestWritten
<1>8. ManifestWriteFits(c)'
  BY <1>1, <1>2, <1>3, <1>6
  DEF ManifestWriteFits, Allowed, StageAllowed, ProvisionAllowed, TransitionAllowed,
      Busy, Event
<1>9. PointerWriteFits(c)'
  <2>1. SUFFICES ASSUME "pointer" \in Writes(j)
                 PROVE  \/ /\ j.kind \in {"active", "baseline_provisioned"}
                           /\ j.next.state = "active"
                           /\ pointer.id = j.next.base
                        \/ /\ j.kind = "rolled_back"
                           /\ j.next.state = "rolled_back"
                           /\ pointer.id = j.rel
    BY <1>1, <1>3 DEF PointerWriteFits
  <2>2. \/ j.kind \in {"active", "baseline_provisioned"} /\ pointer.id # j.rel
        \/ ActiveRollback(j) /\ pointer.id # j.next.base
    BY <2>1 DEF Writes
  <2>3. CASE j.kind = "baseline_provisioned"
    BY <1>1, <1>2, <1>4, <2>2, <2>3
    DEF KindFits, Allowed, ProvisionAllowed, ActiveRollback, Busy
  <2>4. CASE j.kind = "active"
    BY <1>1, <1>2, <1>4, <2>2, <2>4
    DEF KindFits, Allowed, TransitionAllowed, ActivationAllowed, ActiveRollback, Busy
  <2>5. CASE ActiveRollback(j)
    BY <1>1, <1>2, <1>4, <2>2, <2>5
    DEF KindFits, Allowed, TransitionAllowed, RollbackAllowed, ActiveRollback, Busy
  <2> QED
    BY <2>2, <2>3, <2>4, <2>5
<1>10. CanaryWriteFits(c)'
  <2>1. SUFFICES ASSUME "canary" \in Writes(j)
                 PROVE  \/ j.kind = "canary" /\ canary.id = None
                        \/ /\ j.kind \in {"active", "rolled_back"}
                           /\ j.next.state \in {"active", "rolled_back"}
                           /\ canary.id = j.rel
    BY <1>1, <1>3 DEF CanaryWriteFits
  <2>2. \/ j.kind = "canary" /\ canary.id # j.rel
        \/ j.kind \in {"active", "rolled_back"} /\ canary.id = j.rel
    BY <2>1 DEF Writes
  <2>3. CASE j.kind = "canary"
    BY <1>1, <1>2, <2>2, <2>3 DEF Allowed, TransitionAllowed, CanaryAllowed
  <2> QED
    BY <1>1, <1>4, <2>2, <2>3 DEF KindFits
<1> QED
  BY <1>5, <1>7, <1>8, <1>9, <1>10

LEMMA WriteFits ==
  ASSUME TypeOK, LockedInv, NEW c \in Client,
         \/ WriteManifest(c) \/ WriteCanary(c) \/ WritePointer(c) \/ WriteAudit(c)
  PROVE  /\ KindFits(c)' /\ ManifestWriteFits(c)' /\ ManifestWritten(c)'
         /\ PointerWriteFits(c)' /\ CanaryWriteFits(c)'
<1> DEFINE j == job[c]
<1>1. Holds(c) /\ j \in Busy
  BY BusyIsARecord DEF WriteManifest, WriteCanary, WritePointer, WriteAudit, Holds
<1>2. /\ KindFits(c) /\ ManifestWriteFits(c) /\ ManifestWritten(c)
      /\ PointerWriteFits(c) /\ CanaryWriteFits(c)
  BY DEF LockedInv
<1>3. ASSUME NEW f, Done(c, f)
      PROVE  /\ job'[c].kind = j.kind /\ job'[c].next = j.next
             /\ job'[c].rel = j.rel /\ job'[c].todo = j.todo \ {f}
             /\ job'[c].phase = j.phase
  BY <1>1, <1>3 DEF Done, TypeOK, Busy
<1>4. CASE WriteManifest(c)
  <2>1. /\ manifest'[j.rel] = j.next /\ UNCHANGED <<pointer, canary, lock>>
        /\ Done(c, "manifest")
    BY <1>1, <1>4 DEF WriteManifest, TypeOK, Busy
  <2> QED
    BY <1>1, <1>2, <1>3, <2>1 DEF KindFits, ManifestWriteFits, ManifestWritten,
       PointerWriteFits, CanaryWriteFits, Holds
<1>5. CASE WriteCanary(c)
  BY <1>1, <1>2, <1>3, <1>5 DEF WriteCanary, KindFits, ManifestWriteFits,
     ManifestWritten, PointerWriteFits, CanaryWriteFits, Holds
<1>6. CASE WritePointer(c)
  BY <1>1, <1>2, <1>3, <1>6 DEF WritePointer, KindFits, ManifestWriteFits,
     ManifestWritten, PointerWriteFits, CanaryWriteFits, Holds
<1>7. CASE WriteAudit(c)
  <2>1. /\ job'[c].kind = j.kind /\ job'[c].next = j.next
        /\ job'[c].rel = j.rel /\ job'[c].todo = {} /\ job'[c].phase = j.phase
    BY <1>1, <1>7 DEF WriteAudit, TypeOK, Busy
  <2> QED
    BY <1>1, <1>2, <1>7, <2>1 DEF WriteAudit, KindFits, ManifestWriteFits,
       ManifestWritten, PointerWriteFits, CanaryWriteFits, Holds
<1> QED
  BY <1>4, <1>5, <1>6, <1>7

LEMMA IdleFits ==
  ASSUME TypeOK, NEW c \in Client, job'[c] = Idle
  PROVE  /\ KindFits(c)' /\ ManifestWriteFits(c)' /\ ManifestWritten(c)'
         /\ PointerWriteFits(c)' /\ CanaryWriteFits(c)'
BY DEF Idle, KindFits, ManifestWriteFits, ManifestWritten, PointerWriteFits,
   CanaryWriteFits, Holds

LEMMA LockedInvStep ==
  ASSUME TypeOK, LockedInv, [Next]_vars
  PROVE  LockedInv'
<1>1. CASE UNCHANGED vars
  BY <1>1 DEF vars, LockedInv, KindFits, ManifestWriteFits, ManifestWritten,
     PointerWriteFits, CanaryWriteFits, Holds
<1>2. CASE Next
  <2> PICK c \in Client : ClientStep(c)
    BY <1>2, NextSteps
  <2> SUFFICES ASSUME NEW d \in Client
               PROVE  /\ KindFits(d)' /\ ManifestWriteFits(d)' /\ ManifestWritten(d)'
                      /\ PointerWriteFits(d)' /\ CanaryWriteFits(d)'
    BY DEF LockedInv
  <2>1. CASE Ask(c)
    <3>1. CASE d = c
      BY <2>1, <3>1, AskKind DEF ManifestWriteFits, ManifestWritten,
         PointerWriteFits, CanaryWriteFits
    <3>2. CASE d # c
      BY <2>1, <3>2, AskKind, OthersKeep DEF Holds
    <3> QED
      BY <3>1, <3>2
  <2>2. CASE CheckBaseline(c)
    <3>1. CASE d = c
      <4>1. /\ job'[c].kind = job[c].kind /\ job'[c].next = job[c].next
            /\ job'[c].phase = "ready" /\ job[c].phase # "idle"
        BY <2>2, BusyIsARecord DEF CheckBaseline, TypeOK, Busy
      <4>2. KindFits(c)
        BY DEF LockedInv
      <4> QED
        BY <3>1, <4>1, <4>2 DEF KindFits, ManifestWriteFits, ManifestWritten,
           PointerWriteFits, CanaryWriteFits, Holds
    <3>2. CASE d # c
      <4>1. job'[d] = job[d]
        BY <2>2, <3>2 DEF CheckBaseline, TypeOK
      <4> QED
        BY <2>2, <4>1, OthersKeep DEF CheckBaseline, Holds
    <3> QED
      BY <3>1, <3>2
  <2>3. CASE GiveUp(c) \/ Refuse(c) \/ Unlock(c) \/ IoError(c) \/ Kill(c)
    <3>1. /\ job' = [job EXCEPT ![c] = Idle]
          /\ UNCHANGED <<manifest, pointer, canary>>
          /\ lock' = lock \/ lock = c
      BY <2>3 DEF GiveUp, Refuse, Unlock, IoError, Kill, Holds
    <3>2. CASE d = c
      BY <3>1, <3>2, IdleFits DEF TypeOK
    <3>3. CASE d # c
      <4>1. job'[d] = job[d]
        BY <3>1, <3>3 DEF TypeOK
      <4>2. Holds(d)' => Holds(d)
        BY <2>3, <3>3, <4>1, LockAssumption
        DEF GiveUp, Refuse, Unlock, IoError, Kill, Holds
      <4> QED
        BY <3>1, <4>1, <4>2, OthersKeep
    <3> QED
      BY <3>2, <3>3
  <2>4. CASE Admit(c)
    <3>1. CASE d = c
      BY <2>4, <3>1, AdmitFits
    <3>2. CASE d # c
      <4>1. job'[d] = job[d] /\ ~Holds(d)'
        BY <2>4, <3>2 DEF Admit, TypeOK, Holds
      <4> QED
        BY <4>1, OthersKeep
    <3> QED
      BY <3>1, <3>2
  <2>5. CASE WriteManifest(c) \/ WriteCanary(c) \/ WritePointer(c) \/ WriteAudit(c)
    <3>1. CASE d = c
      BY <2>5, <3>1, WriteFits
    <3>2. CASE d # c
      <4>1. job'[d] = job[d] /\ ~Holds(d)'
        BY <2>5, <3>2 DEF WriteManifest, WriteCanary, WritePointer, WriteAudit,
           Done, TypeOK, Holds
      <4> QED
        BY <4>1, OthersKeep
    <3> QED
      BY <3>1, <3>2
  <2> QED
    BY <2>1, <2>2, <2>3, <2>4, <2>5 DEF ClientStep
<1> QED
  BY <1>1, <1>2

LEMMA Locked == Spec => []LockedInv
<1>1. Init => LockedInv
  BY DEF Init, Idle, LockedInv, KindFits, ManifestWriteFits, ManifestWritten,
     PointerWriteFits, CanaryWriteFits, Holds
<1>2. TypeOK /\ TypeOK' /\ LockedInv /\ [Next]_vars => LockedInv'
  BY LockedInvStep
<1> QED
  BY <1>1, <1>2, TypeCorrect, PTL DEF Spec

\* Whatever fails, a manifest only moves along the lifecycle and keeps its base:
\* the step that is checked under the lock is the step that is written.
THEOREM LifecycleMonotone == Spec => LifecycleIsMonotone
<1> DEFINE Moves(r) ==
      manifest[r] # None /\ manifest'[r] # manifest[r] =>
        /\ manifest'[r] # None
        /\ Age[manifest[r].state] < Age[manifest'[r].state]
        /\ manifest[r].state = "staged" => manifest'[r].state = "canary"
        /\ manifest'[r].base = manifest[r].base
<1>1. ASSUME TypeOK, LockedInv, [Next]_vars, NEW r \in Release PROVE Moves(r)
  <2> SUFFICES ASSUME manifest[r] # None, manifest'[r] # manifest[r]
               PROVE  /\ manifest'[r] # None
                      /\ Age[manifest[r].state] < Age[manifest'[r].state]
                      /\ manifest[r].state = "staged" => manifest'[r].state = "canary"
                      /\ manifest'[r].base = manifest[r].base
    OBVIOUS
  <2>1. PICK c \in Client : WriteManifest(c)
    <3>1. PICK c \in Client : ClientStep(c)
      BY <1>1, NextSteps DEF vars
    <3> QED
      BY <1>1, <3>1, AskKind DEF ClientStep, CheckBaseline, GiveUp, Admit, Refuse,
         WriteCanary, WritePointer, WriteAudit, Unlock, IoError, Kill
  <2>2. /\ job[c] \in Busy
        /\ manifest' = [manifest EXCEPT ![job[c].rel] = job[c].next]
    BY <1>1, <2>1, BusyIsARecord DEF WriteManifest, Holds
  <2>3. r = job[c].rel /\ manifest'[r] = job[c].next
    BY <1>1, <2>2 DEF TypeOK, Busy
  <2>4. /\ <<manifest[r].state, job[c].next.state>> \in RELEASE_TRANSITIONS
        /\ manifest[r].base = job[c].next.base
    BY <1>1, <2>1, <2>3 DEF LockedInv, ManifestWriteFits, WriteManifest
  <2>5. job[c].next # None
    BY <2>2, NoneIsNoManifest DEF Busy
  <2> QED
    BY <2>3, <2>4, <2>5 DEF RELEASE_TRANSITIONS, Age
<1>2. TypeOK /\ LockedInv /\ [Next]_vars => [\A r \in Release : Moves(r)]_vars
  BY <1>1
<1>3. QED
  BY <1>2, TypeCorrect, Locked, PTL DEF Spec, LifecycleIsMonotone

\* Whatever fails, the active pointer only moves between a release and its base:
\* the compare-and-swap base read under the lock is still the pointer when the
\* pointer file is replaced.
THEOREM PointerAlongLineage == Spec => PointerMovesAlongLineage
<1> DEFINE Moves ==
      pointer'.id # pointer.id =>
       \/ /\ pointer'.id # None
          /\ manifest[pointer'.id].state = "active"
          /\ manifest[pointer'.id].base = pointer.id
       \/ /\ pointer.id # None
          /\ manifest[pointer.id].state = "rolled_back"
          /\ manifest[pointer.id].base = pointer'.id
<1>1. ASSUME TypeOK, LockedInv, [Next]_vars, pointer'.id # pointer.id
      PROVE  \/ /\ pointer'.id # None
                /\ manifest[pointer'.id].state = "active"
                /\ manifest[pointer'.id].base = pointer.id
             \/ /\ pointer.id # None
                /\ manifest[pointer.id].state = "rolled_back"
                /\ manifest[pointer.id].base = pointer'.id
  <2>1. PICK c \in Client : WritePointer(c)
    <3>1. PICK c \in Client : ClientStep(c)
      BY <1>1, NextSteps DEF vars
    <3> QED
      BY <1>1, <3>1, AskKind DEF ClientStep, CheckBaseline, GiveUp, Admit, Refuse,
         WriteManifest, WriteCanary, WriteAudit, Unlock, IoError, Kill
  <2>2. job[c] \in Busy /\ Holds(c)
    BY <1>1, <2>1, BusyIsARecord DEF WritePointer, Holds
  <2>3. /\ manifest[job[c].rel] = job[c].next
        /\ PointerWriteFits(c)
        /\ pointer'.id = PointerTarget(job[c])
    BY <1>1, <2>1, <2>2 DEF LockedInv, ManifestWritten, WritePointer
  <2>4. job[c].rel # None
    BY <2>2, NoneAssumption DEF Busy
  <2> QED
    BY <2>1, <2>2, <2>3, <2>4 DEF PointerWriteFits, PointerTarget, WritePointer
<1>2. TypeOK /\ LockedInv /\ [Next]_vars => [Moves]_vars
  BY <1>1
<1>3. QED
  BY <1>2, TypeCorrect, Locked, PTL DEF Spec, PointerMovesAlongLineage

\* Whatever fails, a canary is never displaced by another one: the canary
\* pointer is set from null, and cleared only after its release has left canary.
THEOREM CanaryIsHandedOver == Spec => CanaryHandover
<1> DEFINE Moves ==
      canary.id # None /\ canary'.id # canary.id =>
        /\ canary'.id = None
        /\ StateOf(canary.id) \in {"active", "rolled_back"}
<1>1. ASSUME TypeOK, LockedInv, [Next]_vars, canary.id # None,
             canary'.id # canary.id
      PROVE  /\ canary'.id = None
             /\ StateOf(canary.id) \in {"active", "rolled_back"}
  <2>1. PICK c \in Client : WriteCanary(c)
    <3>1. PICK c \in Client : ClientStep(c)
      BY <1>1, NextSteps DEF vars
    <3> QED
      BY <1>1, <3>1, AskKind DEF ClientStep, CheckBaseline, GiveUp, Admit, Refuse,
         WriteManifest, WritePointer, WriteAudit, Unlock, IoError, Kill
  <2>2. job[c] \in Busy /\ Holds(c)
    BY <1>1, <2>1, BusyIsARecord DEF WriteCanary, Holds
  <2>3. /\ manifest[job[c].rel] = job[c].next
        /\ CanaryWriteFits(c)
        /\ canary'.id = CanaryTarget(job[c])
    BY <1>1, <2>1, <2>2 DEF LockedInv, ManifestWritten, WriteCanary
  <2>4. job[c].next # None
    BY <2>2, NoneIsNoManifest DEF Busy
  <2> QED
    BY <1>1, <2>1, <2>2, <2>3, <2>4
    DEF CanaryWriteFits, CanaryTarget, WriteCanary, StateOf
<1>2. TypeOK /\ LockedInv /\ [Next]_vars => [Moves]_vars
  BY <1>1
<1>3. QED
  BY <1>2, TypeCorrect, Locked, PTL DEF Spec, CanaryHandover

-----------------------------------------------------------------------------
(* The shape of a step: one client moves, and it writes a file only while  *)
(* it holds the lock.                                                      *)

WriterHoldsLock == \A c \in Client : job[c].phase = "writing" <=> lock = c

LEMMA AskShape ==
  ASSUME TypeOK, NEW c \in Client, Ask(c)
  PROVE  /\ job[c] = Idle
         /\ job'[c].phase \in {"loaded", "ready"}
         /\ \A d \in Client \ {c} : job'[d] = job[d]
         /\ UNCHANGED <<manifest, pointer, canary, audit, lock>>
<1>1. PICK r \in Release, op \in Operator, why \in Reason :
        \/ Stage(c, r, op, why) \/ Provision(c, r, op, why)
        \/ StartCanary(c, r, op, why) \/ Activate(c, r, op, why)
        \/ Rollback(c, r, op, why)
  BY DEF Ask
<1>2. PICK phase \in {"loaded", "ready"} : \E kind, next : Request(c, phase, kind, r, next, op, why)
  BY <1>1 DEF Stage, Provision, StartCanary, Activate, Rollback
<1>3. PICK kind, next : Request(c, phase, kind, r, next, op, why)
  BY <1>2
<1> QED
  BY <1>3 DEF Request, TypeOK

LEMMA StepShape ==
  ASSUME TypeOK, WriterHoldsLock, NEW c \in Client, ClientStep(c)
  PROVE  /\ \A d \in Client \ {c} : job'[d] = job[d]
         /\ \A d \in Client \ {c} :
              Holds(d)' => Holds(d) /\ UNCHANGED <<manifest, pointer, canary, audit>>
         /\ WriterHoldsLock'
<1>1. CASE Ask(c)
  BY <1>1, AskShape DEF WriterHoldsLock, Holds, Idle
<1>2. CASE CheckBaseline(c)
  <2>1. job[c] \in Busy
    BY <1>2, BusyIsARecord DEF CheckBaseline
  <2> QED
    BY <1>2, <2>1 DEF CheckBaseline, TypeOK, WriterHoldsLock, Holds, Busy
<1>3. CASE GiveUp(c) \/ Refuse(c)
  BY <1>3 DEF GiveUp, Refuse, TypeOK, WriterHoldsLock, Holds, Idle
<1>4. CASE Unlock(c) \/ IoError(c) \/ Kill(c)
  BY <1>4, LockAssumption DEF Unlock, IoError, Kill, TypeOK, WriterHoldsLock, Holds, Idle
<1>5. CASE Admit(c)
  <2>1. job[c] \in Busy
    BY <1>5, BusyIsARecord DEF Admit
  <2>2. job'[c].phase = "writing" /\ \A d \in Client \ {c} : job'[d] = job[d]
    BY <1>5, <2>1 DEF Admit, TypeOK, Busy
  <2> QED
    BY <1>5, <2>2, LockAssumption DEF Admit, WriterHoldsLock, Holds
<1>6. CASE WriteManifest(c) \/ WriteCanary(c) \/ WritePointer(c) \/ WriteAudit(c)
  <2>1. job[c] \in Busy
    BY <1>6, BusyIsARecord DEF WriteManifest, WriteCanary, WritePointer, WriteAudit, Holds
  <2>2. /\ job'[c].phase = "writing"
        /\ \A d \in Client \ {c} : job'[d] = job[d]
        /\ lock' = lock /\ lock = c
    BY <1>6, <2>1
    DEF WriteManifest, WriteCanary, WritePointer, WriteAudit, Done, Holds, TypeOK, Busy
  <2> QED
    BY <2>2 DEF WriterHoldsLock, Holds
<1> QED
  BY <1>1, <1>2, <1>3, <1>4, <1>5, <1>6 DEF ClientStep

\* The lock belongs to the one command that is writing, and to no other.
LEMMA LockIsExclusive == Spec => []WriterHoldsLock
<1>1. Init => WriterHoldsLock
  BY LockAssumption DEF Init, Idle, WriterHoldsLock
<1>2. TypeOK /\ WriterHoldsLock /\ [Next]_vars => WriterHoldsLock'
  <2> SUFFICES ASSUME TypeOK, WriterHoldsLock, [Next]_vars PROVE WriterHoldsLock'
    OBVIOUS
  <2>1. CASE UNCHANGED vars
    BY <2>1 DEF vars, WriterHoldsLock
  <2>2. CASE Next
    BY <2>2, NextSteps, StepShape
  <2> QED
    BY <2>1, <2>2
<1> QED
  BY <1>1, <1>2, TypeCorrect, PTL DEF Spec

-----------------------------------------------------------------------------
(* What is in the files, and what the commands in progress make of them,   *)
(* whatever fails.                                                         *)

IsServed(r) == manifest[r] # None /\ manifest[r].state \in {"active", "rolled_back"}

\* A manifest says it was activated exactly when it may have been, and its base
\* was live at some time.
Sound(m) ==
  /\ m.state \in {"staged", "canary"} => ~m.activated
  /\ m.state = "active" => m.activated
  /\ m.base # None => IsServed(m.base)

ManifestsSound ==
  \A r \in Release : manifest[r] # None => Sound(manifest[r]) /\ manifest[r].base # r

PointerServed == pointer.id # None => IsServed(pointer.id)

JobSound(c) ==
  LET j == job[c] IN
  j.phase # "idle" =>
    /\ Sound(j.next)
    /\ j.kind \notin {"staged", "baseline_provisioned"} => manifest[j.rel] # None
    /\ j.kind = "rolled_back" /\ j.next.activated => IsServed(j.rel)

AuditLast(c) == Holds(c) /\ job[c].todo # {} => "audit" \in job[c].todo

FilesInv ==
  /\ ManifestsSound
  /\ PointerServed
  /\ \A c \in Client : JobSound(c) /\ AuditLast(c)

LEMMA ManifestKept ==
  ASSUME TypeOK, NEW c \in Client, ClientStep(c), ~WriteManifest(c)
  PROVE  manifest' = manifest
BY AskShape DEF ClientStep, CheckBaseline, GiveUp, Admit, Refuse, WriteCanary,
   WritePointer, WriteAudit, Unlock, IoError, Kill

LEMMA PointerKept ==
  ASSUME TypeOK, NEW c \in Client, ClientStep(c), ~WritePointer(c)
  PROVE  pointer' = pointer
BY AskShape DEF ClientStep, CheckBaseline, GiveUp, Admit, Refuse, WriteCanary,
   WriteManifest, WriteAudit, Unlock, IoError, Kill

LEMMA CanaryKept ==
  ASSUME TypeOK, NEW c \in Client, ClientStep(c), ~WriteCanary(c)
  PROVE  canary' = canary
BY AskShape DEF ClientStep, CheckBaseline, GiveUp, Admit, Refuse, WritePointer,
   WriteManifest, WriteAudit, Unlock, IoError, Kill

LEMMA AuditKept ==
  ASSUME TypeOK, NEW c \in Client, ClientStep(c), ~WriteAudit(c)
  PROVE  audit' = audit
BY AskShape DEF ClientStep, CheckBaseline, GiveUp, Admit, Refuse, WritePointer,
   WriteManifest, WriteCanary, Unlock, IoError, Kill

\* The one step that changes a manifest.
LEMMA ManifestWrite ==
  ASSUME TypeOK, LockedInv, NEW c \in Client, WriteManifest(c)
  PROVE  LET j == job[c] IN
         /\ j \in Busy /\ Holds(c) /\ "manifest" \in j.todo
         /\ manifest'[j.rel] = j.next
         /\ \A r \in Release \ {j.rel} : manifest'[r] = manifest[r]
         /\ \/ manifest[j.rel] = None
            \/ /\ manifest[j.rel] # None
               /\ <<manifest[j.rel].state, j.next.state>> \in RELEASE_TRANSITIONS
               /\ manifest[j.rel].base = j.next.base
         /\ j.next # None
<1>1. job[c] \in Busy
  BY BusyIsARecord DEF WriteManifest, Holds
<1>2. job[c].next # None
  BY <1>1, NoneIsNoManifest DEF Busy
<1> QED
  BY <1>1, <1>2 DEF WriteManifest, LockedInv, ManifestWriteFits, TypeOK, Busy

\* A manifest is never deleted, and a release that was live has been so for good.
LEMMA ServedStays ==
  ASSUME TypeOK, LockedInv, NEW c \in Client, ClientStep(c), NEW r \in Release
  PROVE  /\ manifest[r] # None => manifest'[r] # None
         /\ IsServed(r) => IsServed(r)'
<1>1. CASE WriteManifest(c)
  <2>1. CASE r = job[c].rel
    BY <1>1, <2>1, ManifestWrite DEF IsServed, RELEASE_TRANSITIONS
  <2>2. CASE r # job[c].rel
    BY <1>1, <2>2, ManifestWrite DEF IsServed
  <2> QED
    BY <2>1, <2>2
<1>2. CASE ~WriteManifest(c)
  BY <1>2, ManifestKept DEF IsServed
<1> QED
  BY <1>1, <1>2

LEMMA AskSound ==
  ASSUME TypeOK, FilesInv, NEW c \in Client, Ask(c)
  PROVE  JobSound(c)'
<1> PICK r \in Release, op \in Operator, why \in Reason :
      \/ Stage(c, r, op, why) \/ Provision(c, r, op, why)
      \/ StartCanary(c, r, op, why) \/ Activate(c, r, op, why)
      \/ Rollback(c, r, op, why)
  BY DEF Ask
<1>1. ASSUME NEW phase \in {"loaded", "ready"}, NEW kind, NEW next,
             Request(c, phase, kind, r, next, op, why), Sound(next),
             kind \notin {"staged", "baseline_provisioned"} => manifest[r] # None,
             kind = "rolled_back" /\ next.activated => IsServed(r)
      PROVE  JobSound(c)'
  BY <1>1 DEF Request, TypeOK, JobSound, Sound, IsServed
<1>2. manifest[r] # None => manifest[r] \in Manifest /\ Sound(manifest[r])
  BY DEF TypeOK, FilesInv, ManifestsSound
<1>3. CASE Stage(c, r, op, why)
  BY <1>1, <1>3 DEF Stage, FilesInv, PointerServed, Sound
<1>4. CASE Provision(c, r, op, why)
  BY <1>1, <1>4 DEF Provision, Sound
<1>5. CASE StartCanary(c, r, op, why)
  <2> DEFINE m == [manifest[r] EXCEPT !.state = "canary", !.by = op, !.tag = c]
  <2>1. manifest[r] # None => /\ m.state = "canary" /\ m.base = manifest[r].base
                              /\ m.activated = manifest[r].activated
    BY <1>2 DEF Manifest
  <2>2. manifest[r].state = "staged" => Sound(m)
    BY <1>2, <1>5, <2>1 DEF StartCanary, Sound
  <2> QED
    BY <1>1, <1>2, <1>5, <2>2 DEF StartCanary
<1>6. CASE Activate(c, r, op, why)
  <2> DEFINE m == [manifest[r] EXCEPT !.state = "active", !.activated = TRUE, !.tag = c]
  <2>1. manifest[r] # None => /\ m.state = "active" /\ m.base = manifest[r].base
                              /\ m.activated = TRUE
    BY <1>2 DEF Manifest
  <2>2. Sound(m)
    BY <1>2, <1>6, <2>1 DEF Activate, Sound
  <2> QED
    BY <1>1, <1>2, <1>6, <2>2 DEF Activate
<1>7. CASE Rollback(c, r, op, why)
  <2> DEFINE m == [manifest[r] EXCEPT !.state = "rolled_back", !.tag = c]
  <2>1. manifest[r] # None => /\ m.state = "rolled_back" /\ m.base = manifest[r].base
                              /\ m.activated = manifest[r].activated
    BY <1>2 DEF Manifest
  <2>2. Sound(m)
    BY <1>2, <1>7, <2>1 DEF Rollback, Sound
  <2>3. m.activated => IsServed(r)
    BY <1>2, <1>7, <2>1 DEF Rollback, Sound, IsServed
  <2>4. manifest[r].state = "rolled_back" => IsServed(r)
    BY <1>7 DEF Rollback, IsServed
  <2> QED
    BY <1>1, <1>2, <1>7, <2>2, <2>3, <2>4 DEF Rollback
<1> QED
  BY <1>3, <1>4, <1>5, <1>6, <1>7

\* A write changes nothing of the command but what it has still to do.
LEMMA WriteJob ==
  ASSUME TypeOK, NEW c \in Client,
         \/ WriteManifest(c) \/ WriteCanary(c) \/ WritePointer(c) \/ WriteAudit(c)
  PROVE  /\ job[c] \in Busy /\ Holds(c) /\ lock' = lock
         /\ job'[c].phase = "writing" /\ job'[c].kind = job[c].kind
         /\ job'[c].rel = job[c].rel /\ job'[c].next = job[c].next
         /\ job'[c].prev = job[c].prev
         /\ WriteManifest(c) => job'[c].todo = job[c].todo \ {"manifest"}
         /\ WriteCanary(c) => job'[c].todo = job[c].todo \ {"canary"}
         /\ WritePointer(c) => job'[c].todo = job[c].todo \ {"pointer"}
         /\ WriteAudit(c) => job[c].todo = {"audit"} /\ job'[c].todo = {}
<1>1. job[c] \in Busy /\ Holds(c)
  BY BusyIsARecord DEF WriteManifest, WriteCanary, WritePointer, WriteAudit, Holds
<1>2. ASSUME NEW f, Done(c, f)
      PROVE  /\ job'[c].phase = job[c].phase /\ job'[c].kind = job[c].kind
             /\ job'[c].rel = job[c].rel /\ job'[c].next = job[c].next
             /\ job'[c].prev = job[c].prev /\ job'[c].todo = job[c].todo \ {f}
  BY <1>1, <1>2 DEF Done, TypeOK, Busy
<1>3. CASE WriteManifest(c)
  BY <1>1, <1>2, <1>3 DEF WriteManifest, WriteCanary, WritePointer, WriteAudit, Holds
<1>4. CASE WriteCanary(c)
  BY <1>1, <1>2, <1>4 DEF WriteManifest, WriteCanary, WritePointer, WriteAudit, Holds
<1>5. CASE WritePointer(c)
  BY <1>1, <1>2, <1>5 DEF WriteManifest, WriteCanary, WritePointer, WriteAudit, Holds
<1>6. CASE WriteAudit(c)
  <2>1. /\ job'[c].phase = job[c].phase /\ job'[c].kind = job[c].kind
        /\ job'[c].rel = job[c].rel /\ job'[c].next = job[c].next
        /\ job'[c].prev = job[c].prev /\ job'[c].todo = {}
    BY <1>1, <1>6 DEF WriteAudit, TypeOK, Busy
  <2> QED
    BY <1>1, <1>6, <2>1 DEF WriteManifest, WriteCanary, WritePointer, WriteAudit, Holds
<1> QED
  BY <1>3, <1>4, <1>5, <1>6

\* An admitted command is the one that asked, with its list of writes.
LEMMA AdmitJob ==
  ASSUME TypeOK, NEW c \in Client, Admit(c)
  PROVE  /\ job[c] \in Busy /\ lock = Free /\ lock' = c /\ Allowed(job[c])
         /\ job[c].phase = "ready" /\ job'[c].phase = "writing"
         /\ job'[c].kind = job[c].kind /\ job'[c].rel = job[c].rel
         /\ job'[c].next = job[c].next
         /\ job'[c].prev = PreviousState(job[c])
         /\ job'[c].todo = Writes(job[c])
         /\ UNCHANGED <<manifest, pointer, canary, audit>>
<1>1. job[c] \in Busy
  BY BusyIsARecord DEF Admit
<1> QED
  BY <1>1 DEF Admit, TypeOK, Busy

\* Every other step of a command ends it.
EndStep(c) == GiveUp(c) \/ Refuse(c) \/ Unlock(c) \/ IoError(c) \/ Kill(c)

LEMMA EndJob ==
  ASSUME TypeOK, NEW c \in Client, EndStep(c)
  PROVE  job'[c] = Idle /\ UNCHANGED <<manifest, pointer, canary, audit>>
BY DEF EndStep, GiveUp, Refuse, Unlock, IoError, Kill, TypeOK

LEMMA CheckJob ==
  ASSUME TypeOK, NEW c \in Client, CheckBaseline(c)
  PROVE  /\ job[c] \in Busy /\ job[c].phase = "loaded" /\ job'[c].phase = "ready"
         /\ job'[c].kind = job[c].kind /\ job'[c].rel = job[c].rel
         /\ job'[c].next = job[c].next
         /\ UNCHANGED <<manifest, pointer, canary, audit, lock>>
<1>1. job[c] \in Busy
  BY BusyIsARecord DEF CheckBaseline
<1> QED
  BY <1>1 DEF CheckBaseline, TypeOK, Busy

LEMMA JobSoundStep ==
  ASSUME TypeOK, WriterHoldsLock, LockedInv, FilesInv,
         NEW c \in Client, ClientStep(c), NEW d \in Client
  PROVE  JobSound(d)'
<1>1. ASSUME job[d].phase # "idle", job'[d].kind = job[d].kind,
             job'[d].rel = job[d].rel, job'[d].next = job[d].next
      PROVE  JobSound(d)'
  <2>1. job[d] \in Busy
    BY <1>1, BusyIsARecord
  <2>2. job[d].next \in Manifest /\ job[d].rel \in Release
    BY <2>1 DEF Busy
  <2>3. JobSound(d)
    BY DEF FilesInv
  <2>4. Sound(job[d].next)'
    BY <1>1, <2>2, <2>3, ServedStays DEF JobSound, Sound, Manifest
  <2> QED
    BY <1>1, <2>2, <2>3, <2>4, ServedStays DEF JobSound, IsServed
<1>2. CASE d # c
  <2>1. job'[d] = job[d]
    BY <1>2, StepShape
  <2>2. job[d].phase = "idle" => JobSound(d)'
    BY <2>1 DEF JobSound
  <2> QED
    BY <1>1, <2>1, <2>2
<1>3. CASE d = c
  <2>1. CASE Ask(c)
    BY <1>3, <2>1, AskSound
  <2>2. CASE EndStep(c)
    BY <1>3, <2>2, EndJob DEF JobSound, Idle
  <2>3. CASE CheckBaseline(c)
    BY <1>1, <1>3, <2>3, CheckJob
  <2>4. CASE Admit(c)
    BY <1>1, <1>3, <2>4, AdmitJob
  <2>5. CASE WriteManifest(c) \/ WriteCanary(c) \/ WritePointer(c) \/ WriteAudit(c)
    BY <1>1, <1>3, <2>5, WriteJob DEF Holds
  <2> QED
    BY <2>1, <2>2, <2>3, <2>4, <2>5 DEF ClientStep, EndStep
<1> QED
  BY <1>2, <1>3

LEMMA AuditLastStep ==
  ASSUME TypeOK, WriterHoldsLock, FilesInv, NEW c \in Client, ClientStep(c),
         NEW d \in Client
  PROVE  AuditLast(d)'
<1>1. AuditLast(d)
  BY DEF FilesInv
<1>2. CASE d # c
  BY <1>1, <1>2, StepShape DEF AuditLast
<1>3. CASE d = c
  <2>1. CASE Ask(c) \/ EndStep(c) \/ CheckBaseline(c)
    BY <1>3, <2>1, AskShape, EndJob, CheckJob DEF AuditLast, Holds, Idle
  <2>2. CASE Admit(c)
    BY <1>3, <2>2, AdmitJob DEF AuditLast, Writes
  <2>3. CASE WriteManifest(c) \/ WriteCanary(c) \/ WritePointer(c) \/ WriteAudit(c)
    BY <1>1, <1>3, <2>3, WriteJob DEF AuditLast
  <2> QED
    BY <2>1, <2>2, <2>3 DEF ClientStep, EndStep
<1> QED
  BY <1>2, <1>3

LEMMA ManifestsSoundStep ==
  ASSUME TypeOK, WriterHoldsLock, LockedInv, FilesInv, NEW c \in Client, ClientStep(c)
  PROVE  ManifestsSound'
<1> SUFFICES ASSUME NEW r \in Release, manifest'[r] # None
             PROVE  Sound(manifest[r])' /\ manifest'[r].base # r
  BY DEF ManifestsSound
<1>1. ASSUME manifest'[r] = manifest[r]
      PROVE  Sound(manifest[r])' /\ manifest'[r].base # r
  <2>1. manifest[r] \in Manifest /\ Sound(manifest[r]) /\ manifest[r].base # r
    BY <1>1 DEF FilesInv, ManifestsSound, TypeOK
  <2>2. Sound(manifest[r])'
    BY <1>1, <2>1, ServedStays DEF Sound, Manifest
  <2> QED
    BY <1>1, <2>1, <2>2
<1>2. CASE WriteManifest(c) /\ r = job[c].rel
  <2>1. job[c].next \in Manifest /\ JobSound(c) /\ job[c].phase # "idle"
    BY <1>2, ManifestWrite DEF Busy, FilesInv, Holds
  <2>2. Sound(manifest[r])'
    BY <1>2, <2>1, ManifestWrite, ServedStays DEF JobSound, Sound, Manifest
  <2>3. manifest[r] = None => job[c].next.base # r
    BY <2>1, NoneAssumption DEF JobSound, Sound, IsServed
  <2> QED
    BY <1>2, <2>2, <2>3, ManifestWrite DEF FilesInv, ManifestsSound
<1> QED
  BY <1>1, <1>2, ManifestWrite, ManifestKept

LEMMA PointerServedStep ==
  ASSUME TypeOK, WriterHoldsLock, LockedInv, FilesInv, NEW c \in Client, ClientStep(c)
  PROVE  PointerServed'
<1>1. CASE WritePointer(c)
  <2> DEFINE j == job[c]
  <2>1. /\ j \in Busy /\ Holds(c) /\ JobSound(c) /\ "pointer" \in j.todo
        /\ "manifest" \notin j.todo /\ pointer'.id = PointerTarget(j)
        /\ manifest' = manifest
    BY <1>1, WriteJob DEF FilesInv, WritePointer
  <2>2. manifest[j.rel] = j.next /\ PointerWriteFits(c) /\ j.next # None
    BY <2>1, NoneIsNoManifest DEF LockedInv, ManifestWritten, Busy
  <2>3. CASE j.kind = "rolled_back"
    BY <2>1, <2>3 DEF PointerServed, PointerTarget, JobSound, Sound, IsServed, Holds
  <2>4. CASE j.kind # "rolled_back"
    BY <2>1, <2>2, <2>4 DEF PointerServed, PointerTarget, PointerWriteFits, IsServed
  <2> QED
    BY <2>3, <2>4
<1>2. CASE ~WritePointer(c)
  <2>1. pointer.id # None => pointer.id \in Release
    BY DEF TypeOK, Pointer
  <2> QED
    BY <1>2, <2>1, PointerKept, ServedStays DEF FilesInv, PointerServed, IsServed
<1> QED
  BY <1>1, <1>2

\* Whatever fails: the manifests are sound, and the active pointer only ever
\* names a release whose manifest says it is or was active.
LEMMA Files == Spec => []FilesInv
<1>1. Init => FilesInv
  BY DEF Init, Idle, FilesInv, ManifestsSound, PointerServed, JobSound, AuditLast, Holds
<1>2. TypeOK /\ WriterHoldsLock /\ LockedInv /\ FilesInv /\ [Next]_vars => FilesInv'
  <2> SUFFICES ASSUME TypeOK, WriterHoldsLock, LockedInv, FilesInv, [Next]_vars
               PROVE  FilesInv'
    OBVIOUS
  <2>1. CASE UNCHANGED vars
    BY <2>1 DEF vars, FilesInv, ManifestsSound, PointerServed, JobSound, AuditLast,
       Holds, Sound, IsServed
  <2>2. CASE Next
    BY <2>2, NextSteps, JobSoundStep, AuditLastStep, ManifestsSoundStep,
       PointerServedStep DEF FilesInv
  <2> QED
    BY <2>1, <2>2
<1> QED
  BY <1>1, <1>2, TypeCorrect, LockIsExclusive, Locked, PTL DEF Spec

-----------------------------------------------------------------------------
(* The refinement.  The effective state is the abstract state of Promise:  *)
(* an operation counts as done when it is admitted, and the files it has   *)
(* still to replace count as replaced.                                     *)

effState ==
  [r \in Release |-> IF EffectiveManifest(r) = None THEN "absent"
                                                   ELSE EffectiveManifest(r).state]
effBase ==
  [r \in Release |-> IF EffectiveManifest(r) = None THEN None
                                                   ELSE EffectiveManifest(r).base]
effLive == IF Pending("pointer") THEN PointerTarget(job[lock]) ELSE pointer.id
effTrial == IF Pending("canary") THEN CanaryTarget(job[lock]) ELSE canary.id

\* The theorems about the abstract life cycle, for the effective state.
Abstract == INSTANCE ReleaseLifecycle_proofs WITH
  state <- effState, base <- effBase, live <- effLive, trial <- effTrial

LEMMA NoneIsNoReleaseHere == Abstract!NoneIsNoRelease
BY NoneAssumption DEF Abstract!NoneIsNoRelease

\* While nobody holds the lock the files are the effective state.
LEMMA AtRest ==
  ASSUME lock = Free
  PROVE  /\ effState = [r \in Release |-> IF manifest[r] = None THEN "absent"
                                                                ELSE manifest[r].state]
         /\ effBase = [r \in Release |-> IF manifest[r] = None THEN None
                                                               ELSE manifest[r].base]
         /\ effLive = pointer.id
         /\ effTrial = canary.id
BY LockAssumption DEF effState, effBase, effLive, effTrial, EffectiveManifest, Pending

\* When an operation is admitted, its release takes its next manifest at once.
LEMMA AdmitEffect ==
  ASSUME TypeOK, NEW c \in Client, Admit(c)
  PROVE  LET j == job[c] IN
         /\ effState' = [effState EXCEPT ![j.rel] = j.next.state]
         /\ effBase' = [effBase EXCEPT ![j.rel] = j.next.base]
         /\ effLive' = IF "pointer" \in Writes(j) THEN PointerTarget(j) ELSE effLive
         /\ effTrial' = IF "canary" \in Writes(j) THEN CanaryTarget(j) ELSE effTrial
<1> DEFINE j == job[c]
<1>1. /\ j \in Busy /\ lock = Free /\ lock' = c /\ job'[c].kind = j.kind
      /\ job'[c].rel = j.rel /\ job'[c].next = j.next /\ job'[c].todo = Writes(j)
      /\ UNCHANGED <<manifest, pointer, canary, audit>>
  BY AdmitJob
<1>2. j.next # None
  BY <1>1, NoneIsNoManifest DEF Busy
<1>3. "manifest" \in Writes(j) <=> manifest[j.rel] # j.next
  BY DEF Writes
<1>4. \A r \in Release : EffectiveManifest(r)' = IF r = j.rel THEN j.next ELSE manifest[r]
  BY <1>1, <1>3 DEF EffectiveManifest, Pending
<1>5. j.rel \in Release
  BY <1>1 DEF Busy
<1>6. /\ effState' = [effState EXCEPT ![j.rel] = j.next.state]
      /\ effBase' = [effBase EXCEPT ![j.rel] = j.next.base]
  <2>1. /\ effState' = [r \in Release |-> IF r = j.rel THEN j.next.state ELSE
                            IF manifest[r] = None THEN "absent" ELSE manifest[r].state]
        /\ effBase' = [r \in Release |-> IF r = j.rel THEN j.next.base ELSE
                           IF manifest[r] = None THEN None ELSE manifest[r].base]
    BY <1>2, <1>4 DEF effState, effBase
  <2>2. /\ effState = [r \in Release |-> IF manifest[r] = None THEN "absent"
                                                                ELSE manifest[r].state]
        /\ effBase = [r \in Release |-> IF manifest[r] = None THEN None
                                                               ELSE manifest[r].base]
    BY <1>1, AtRest
  <2> QED
    BY <1>5, <2>1, <2>2
<1>7. effLive' = IF "pointer" \in Writes(j) THEN PointerTarget(j) ELSE effLive
  BY <1>1, AtRest DEF effLive, Pending, PointerTarget
<1>8. effTrial' = IF "canary" \in Writes(j) THEN CanaryTarget(j) ELSE effTrial
  BY <1>1, AtRest DEF effTrial, Pending, CanaryTarget
<1> QED
  BY <1>6, <1>7, <1>8

\* Any other step of a command that is neither killed nor fails in a write is
\* not seen at all.
LEMMA OtherEffect ==
  ASSUME TypeOK, WriterHoldsLock, NEW c \in Client, ClientStep(c),
         ~Admit(c), ~IoError(c), ~Kill(c)
  PROVE  UNCHANGED <<effState, effBase, effLive, effTrial>>
<1>1. ASSUME UNCHANGED <<manifest, pointer, canary>>,
             lock' = lock, lock \in Client => job'[lock] = job[lock]
      PROVE  UNCHANGED <<effState, effBase, effLive, effTrial>>
  BY <1>1 DEF effState, effBase, effLive, effTrial, EffectiveManifest, Pending
<1>2. CASE Ask(c) \/ CheckBaseline(c) \/ GiveUp(c)
  BY <1>1, <1>2, AskShape, CheckJob, EndJob, StepShape
  DEF EndStep, WriterHoldsLock, GiveUp, Idle
<1>3. CASE Refuse(c)
  BY <1>1, <1>3, LockAssumption DEF Refuse
<1>4. CASE Unlock(c)
  BY <1>4, LockAssumption
  DEF Unlock, Holds, effState, effBase, effLive, effTrial, EffectiveManifest, Pending
<1>5. CASE WriteManifest(c) \/ WriteCanary(c) \/ WritePointer(c) \/ WriteAudit(c)
  <2> DEFINE j == job[c]
  <2>1. /\ j \in Busy /\ lock = c /\ lock' = c
        /\ job'[c].kind = j.kind /\ job'[c].rel = j.rel /\ job'[c].next = j.next
        /\ CanaryTarget(job'[c]) = CanaryTarget(j)
        /\ PointerTarget(job'[c]) = PointerTarget(j)
    BY <1>5, WriteJob DEF Holds, CanaryTarget, PointerTarget
  <2>2. CASE WriteManifest(c)
    <3>1. /\ manifest' = [manifest EXCEPT ![j.rel] = j.next]
          /\ j.rel \in Release /\ "manifest" \in j.todo
          /\ UNCHANGED <<pointer, canary>>
      BY <2>1, <2>2 DEF WriteManifest, Busy
    <3>2. job'[c].todo = j.todo \ {"manifest"}
      BY <2>2, WriteJob
    <3>3. \A r \in Release : EffectiveManifest(r)' = EffectiveManifest(r)
      BY <2>1, <3>1, <3>2 DEF EffectiveManifest, Pending, TypeOK
    <3> QED
      BY <2>1, <3>1, <3>2, <3>3 DEF effState, effBase, effLive, effTrial, Pending
  <2>3. CASE WriteCanary(c)
    <3>1. /\ canary'.id = CanaryTarget(j) /\ "canary" \in j.todo
          /\ job'[c].todo = j.todo \ {"canary"} /\ UNCHANGED <<manifest, pointer>>
      BY <2>3, WriteJob DEF WriteCanary
    <3> QED
      BY <2>1, <3>1 DEF effState, effBase, effLive, effTrial, EffectiveManifest, Pending
  <2>4. CASE WritePointer(c)
    <3>1. /\ pointer'.id = PointerTarget(j) /\ "pointer" \in j.todo
          /\ job'[c].todo = j.todo \ {"pointer"} /\ UNCHANGED <<manifest, canary>>
      BY <2>4, WriteJob DEF WritePointer
    <3> QED
      BY <2>1, <3>1 DEF effState, effBase, effLive, effTrial, EffectiveManifest, Pending
  <2>5. CASE WriteAudit(c)
    <3>1. /\ j.todo = {"audit"} /\ job'[c].todo = {} /\ UNCHANGED <<manifest, pointer, canary>>
      BY <2>5, WriteJob DEF WriteAudit
    <3> QED
      BY <2>1, <3>1 DEF effState, effBase, effLive, effTrial, EffectiveManifest, Pending
  <2> QED
    BY <1>5, <2>2, <2>3, <2>4, <2>5
<1> QED
  BY <1>2, <1>3, <1>4, <1>5 DEF ClientStep

\* What the abstract invariant says of the release an admitted command is about.
LEMMA AbstractFacts ==
  ASSUME TypeOK, lock = Free, Abstract!LInv, NEW r \in Release, manifest[r] # None
  PROVE  /\ manifest[r].state = "canary" <=> canary.id = r
         /\ manifest[r].state = "active" => pointer.id # None /\ pointer.id # manifest[r].base
         /\ pointer.id = r => manifest[r].state = "active"
<1>1. /\ effState[r] = manifest[r].state /\ effBase[r] = manifest[r].base
      /\ effLive = pointer.id /\ effTrial = canary.id
  BY AtRest
<1>2. r # None
  BY NoneAssumption
<1>3. Abstract!OneTrial /\ Abstract!Linked
  BY DEF Abstract!LInv
<1>4. manifest[r].state = "canary" <=> canary.id = r
  BY <1>1, <1>3 DEF Abstract!OneTrial
<1>5. manifest[r].state = "active" <=> r \in Abstract!Actives
  BY <1>1 DEF Abstract!Actives
<1> QED
  BY <1>1, <1>2, <1>3, <1>4, <1>5 DEF Abstract!Linked

\* A command admitted for what its manifest already says repairs nothing,
\* because without a failed write there is nothing to repair.
LEMMA RetryChangesNothing ==
  ASSUME TypeOK, LockedInv, lock = Free, Abstract!LInv, NEW c \in Client, Admit(c),
         manifest[job[c].rel] = job[c].next
  PROVE  "pointer" \notin Writes(job[c]) /\ "canary" \notin Writes(job[c])
<1> DEFINE j == job[c]
<1>1. /\ j \in Busy /\ Allowed(j) /\ j.phase = "ready"
      /\ j.rel \in Release /\ j.rel # None /\ manifest[j.rel] # None
  BY AdmitJob, NoneAssumption, NoneIsNoManifest DEF Busy
<1>2. KindFits(c)
  BY DEF LockedInv
<1>3. /\ j.next.state = "canary" <=> canary.id = j.rel
      /\ j.next.state = "active" => pointer.id # None /\ pointer.id # j.next.base
      /\ pointer.id = j.rel => j.next.state = "active"
  BY <1>1, AbstractFacts
<1>4. j.kind \in Event
  BY <1>1 DEF Busy
<1>5. CASE j.kind = "staged"
  BY <1>5 DEF Writes, ActiveRollback
<1>6. CASE j.kind = "baseline_provisioned"
  BY <1>1, <1>2, <1>3, <1>6 DEF KindFits, Allowed, ProvisionAllowed, Writes, ActiveRollback
<1>7. CASE j.kind = "canary"
  BY <1>1, <1>2, <1>3, <1>7 DEF KindFits, Writes, ActiveRollback
<1>8. CASE j.kind = "active"
  <2>1. pointer.id \in {j.rel, j.next.base}
    BY <1>1, <1>8 DEF Allowed, TransitionAllowed, ActivationAllowed
  <2> QED
    BY <1>1, <1>2, <1>3, <1>8, <2>1 DEF KindFits, Writes, ActiveRollback
<1>9. CASE j.kind = "rolled_back"
  <2>1. ActiveRollback(j) => pointer.id \in {j.rel, j.next.base}
    BY <1>1, <1>9 DEF Allowed, TransitionAllowed, RollbackAllowed
  <2> QED
    BY <1>1, <1>2, <1>3, <1>9, <2>1 DEF KindFits, Writes
<1> QED
  BY <1>4, <1>5, <1>6, <1>7, <1>8, <1>9 DEF Event

\* An admitted operation is one step of the abstract life cycle.
LEMMA AdmitRefines ==
  ASSUME TypeOK, LockedInv, FilesInv, Abstract!LInv, NEW c \in Client, Admit(c)
  PROVE  [Abstract!LNext]_<<effState, effBase, effLive, effTrial>>
<1> DEFINE j == job[c]
           r == job[c].rel
           m == manifest[job[c].rel]
<1>1. /\ j \in Busy /\ Allowed(j) /\ j.phase = "ready" /\ lock = Free
      /\ j.next \in Manifest /\ j.kind \in Event
      /\ r \in Release /\ r # None /\ j.next # None
  BY AdmitJob, NoneAssumption, NoneIsNoManifest DEF Busy
<1>2. KindFits(c) /\ JobSound(c)
  BY DEF LockedInv, FilesInv
<1>3. /\ effState' = [effState EXCEPT ![r] = j.next.state]
      /\ effBase' = [effBase EXCEPT ![r] = j.next.base]
      /\ effLive' = IF "pointer" \in Writes(j) THEN PointerTarget(j) ELSE effLive
      /\ effTrial' = IF "canary" \in Writes(j) THEN CanaryTarget(j) ELSE effTrial
  BY AdmitEffect
<1>4. /\ effState[r] = IF m = None THEN "absent" ELSE m.state
      /\ effBase[r] = IF m = None THEN None ELSE m.base
      /\ effLive = pointer.id /\ effTrial = canary.id
      /\ effState = [effState EXCEPT ![r] = effState[r]]
      /\ effBase = [effBase EXCEPT ![r] = effBase[r]]
  BY <1>1, AtRest
<1>5. m # None => /\ m.state = "canary" <=> canary.id = r
                  /\ m.state = "active" => pointer.id # None /\ pointer.id # m.base
                  /\ pointer.id = r => m.state = "active"
  BY <1>1, AbstractFacts
<1>6. CASE m = j.next
  <2>1. "pointer" \notin Writes(j) /\ "canary" \notin Writes(j)
    BY <1>1, <1>6, RetryChangesNothing
  <2> QED
    BY <1>1, <1>3, <1>4, <1>6, <2>1
<1>7. CASE m # j.next /\ j.kind = "staged"
  <2>1. m = None /\ j.next.state = "staged"
    BY <1>1, <1>2, <1>7 DEF Allowed, StageAllowed, KindFits
  <2>2. j.next.base \in Release \cup {None}
    BY <1>1 DEF Manifest
  <2>3. j.next.base # None => effState[j.next.base] \in {"active", "rolled_back"}
    BY <1>1, <1>2, <2>2, AtRest DEF JobSound, Sound, IsServed
  <2>4. "pointer" \notin Writes(j) /\ "canary" \notin Writes(j)
    BY <1>7 DEF Writes, ActiveRollback
  <2>5. Abstract!Stage(r, j.next.base)
    BY <1>3, <1>4, <2>1, <2>3, <2>4 DEF Abstract!Stage
  <2> QED
    BY <1>1, <2>2, <2>5 DEF Abstract!LNext
<1>8. CASE m # j.next /\ j.kind = "baseline_provisioned"
  <2>1. /\ m = None /\ j.next.state = "active" /\ j.next.base = None
        /\ pointer.id \in {None, r} /\ canary.id = None
    BY <1>1, <1>2, <1>8 DEF Allowed, ProvisionAllowed, KindFits
  <2>2. pointer.id = None
    BY <1>1, <2>1 DEF FilesInv, PointerServed, IsServed
  <2>3. effLive' = r /\ effTrial' = effTrial
    BY <1>1, <1>3, <1>8, <2>2 DEF Writes, PointerTarget
  <2>4. Abstract!Provision(r)
    BY <1>3, <1>4, <2>1, <2>2, <2>3 DEF Abstract!Provision
  <2> QED
    BY <1>1, <2>4 DEF Abstract!LNext
<1>9. CASE m # j.next /\ j.kind \notin {"staged", "baseline_provisioned"}
  <2>1. /\ m # None /\ <<m.state, j.next.state>> \in RELEASE_TRANSITIONS
        /\ m.base = j.next.base /\ j.next.state = j.kind
    BY <1>1, <1>2, <1>9 DEF Allowed, TransitionAllowed, KindFits
  <2>2. effBase' = effBase
    BY <1>3, <1>4, <2>1
  <2>3. CASE j.kind = "canary"
    <3>1. m.state = "staged"
      BY <2>1, <2>3 DEF RELEASE_TRANSITIONS
    <3>2. canary.id = None /\ pointer.id # None /\ pointer.id = m.base
      BY <1>1, <1>5, <1>9, <2>1, <2>3, <3>1 DEF Allowed, TransitionAllowed, CanaryAllowed
    <3>3. effTrial' = r /\ effLive' = effLive
      BY <1>1, <1>3, <2>3, <3>2 DEF Writes, ActiveRollback, CanaryTarget
    <3>4. Abstract!StartCanary(r)
      BY <1>3, <1>4, <2>1, <2>2, <2>3, <3>1, <3>2, <3>3 DEF Abstract!StartCanary
    <3> QED
      BY <1>1, <3>4 DEF Abstract!LNext
  <2>4. CASE j.kind = "active"
    <3>1. m.state = "canary"
      BY <2>1, <2>4 DEF RELEASE_TRANSITIONS
    <3>2. canary.id = r /\ pointer.id = m.base
      BY <1>1, <1>5, <1>9, <2>1, <2>4, <3>1 DEF Allowed, TransitionAllowed, ActivationAllowed
    <3>3. effTrial' = None /\ effLive' = r
      <4>1. pointer.id # r
        BY <1>5, <2>1, <3>1
      <4> QED
        BY <1>3, <2>4, <3>2, <4>1 DEF Writes, CanaryTarget, PointerTarget
    <3>4. Abstract!Activate(r)
      BY <1>3, <1>4, <2>1, <2>2, <2>4, <3>2, <3>3 DEF Abstract!Activate
    <3> QED
      BY <1>1, <3>4 DEF Abstract!LNext
  <2>5. CASE j.kind = "rolled_back" /\ m.state = "canary"
    <3>1. ~ActiveRollback(j) /\ canary.id = r
      BY <1>1, <1>2, <1>5, <2>1, <2>5 DEF ActiveRollback, JobSound, IsServed
    <3>2. effTrial' = None /\ effLive' = effLive
      BY <1>3, <2>5, <3>1 DEF Writes, CanaryTarget
    <3>3. Abstract!RollbackCanary(r)
      BY <1>3, <1>4, <2>1, <2>2, <2>5, <3>1, <3>2 DEF Abstract!RollbackCanary
    <3> QED
      BY <1>1, <3>3 DEF Abstract!LNext
  <2>6. CASE j.kind = "rolled_back" /\ m.state = "active"
    <3>1. ActiveRollback(j) /\ canary.id # r
      BY <1>5, <2>1, <2>6 DEF ActiveRollback
    <3>2. pointer.id = r /\ r # m.base
      BY <1>1, <1>5, <1>9, <2>1, <2>6, <3>1 DEF Allowed, TransitionAllowed, RollbackAllowed
    <3>3. effTrial' = effTrial /\ effLive' = effBase[r]
      BY <1>3, <1>4, <2>1, <2>6, <3>1, <3>2 DEF Writes, PointerTarget
    <3>4. Abstract!RollbackLive(r)
      BY <1>3, <1>4, <2>1, <2>2, <2>6, <3>2, <3>3 DEF Abstract!RollbackLive
    <3> QED
      BY <1>1, <3>4 DEF Abstract!LNext
  <2>7. \/ j.kind \in {"canary", "active"}
        \/ j.kind = "rolled_back" /\ m.state \in {"canary", "active"}
    BY <1>1, <1>9, <2>1 DEF Event, RELEASE_TRANSITIONS
  <2> QED
    BY <2>3, <2>4, <2>5, <2>6, <2>7
<1> QED
  BY <1>1, <1>6, <1>7, <1>8, <1>9

\* Until a command is killed, and as long as no write throws, the effective
\* state is one of the abstract life cycle's.
EffectiveInv == lock # Orphan => Abstract!LInv

LEMMA EffectiveStep ==
  ASSUME "io" \notin Faults, TypeOK, WriterHoldsLock, LockedInv, FilesInv, EffectiveInv,
         NEW c \in Client, ClientStep(c)
  PROVE  /\ lock # Orphan /\ ~Kill(c) =>
               [Abstract!LNext]_<<effState, effBase, effLive, effTrial>>
         /\ EffectiveInv'
<1>1. ~IoError(c)
  BY DEF IoError
<1>2. lock # Orphan /\ ~Kill(c) => [Abstract!LNext]_<<effState, effBase, effLive, effTrial>>
  BY <1>1, AdmitRefines, OtherEffect DEF EffectiveInv
<1>3. CASE Kill(c)
  BY <1>3 DEF Kill, EffectiveInv
<1>4. CASE ~Kill(c) /\ lock # Orphan
  <2>1. [Abstract!LNext]_Abstract!lvars
    BY <1>2, <1>4 DEF Abstract!lvars
  <2>2. Abstract!LInv'
    BY <1>4, <2>1, NoneIsNoReleaseHere, Abstract!StepLInv DEF EffectiveInv
  <2> QED
    BY <1>2, <2>2 DEF EffectiveInv
<1>5. CASE lock = Orphan
  <2>1. lock' = lock
    BY <1>5, AskShape, CheckJob, LockAssumption
    DEF ClientStep, GiveUp, Admit, Refuse, WriteManifest, WriteCanary, WritePointer,
        WriteAudit, Unlock, IoError, Kill, Holds, Free, Orphan
  <2> QED
    BY <1>5, <2>1 DEF EffectiveInv
<1> QED
  BY <1>2, <1>3, <1>4, <1>5

LEMMA InitEffective == ASSUME Init PROVE Abstract!LInit /\ EffectiveInv
<1>1. Abstract!LInit
  BY AtRest DEF Init, Abstract!LInit
<1> QED
  BY <1>1, NoneIsNoReleaseHere, Abstract!InitLInv DEF EffectiveInv

LEMMA EffectiveStutter ==
  ASSUME UNCHANGED vars
  PROVE  UNCHANGED <<effState, effBase, effLive, effTrial>>
BY DEF vars, effState, effBase, effLive, effTrial, EffectiveManifest, Pending,
   PointerTarget, CanaryTarget

LEMMA Effective == ASSUME "io" \notin Faults PROVE Spec => []EffectiveInv
<1>1. Init => EffectiveInv
  BY InitEffective
<1>2. TypeOK /\ WriterHoldsLock /\ LockedInv /\ FilesInv /\ EffectiveInv /\ [Next]_vars
        => EffectiveInv'
  <2> SUFFICES ASSUME TypeOK, WriterHoldsLock, LockedInv, FilesInv, EffectiveInv,
                      [Next]_vars
               PROVE  EffectiveInv'
    OBVIOUS
  <2>1. CASE UNCHANGED vars
    <3>1. [Abstract!LNext]_Abstract!lvars /\ lock' = lock
      BY <2>1, EffectiveStutter DEF Abstract!lvars, vars
    <3> QED
      BY <3>1, NoneIsNoReleaseHere, Abstract!StepLInv DEF EffectiveInv
  <2>2. CASE Next
    BY <2>2, NextSteps, EffectiveStep
  <2> QED
    BY <2>1, <2>2
<1> QED
  BY <1>1, <1>2, TypeCorrect, LockIsExclusive, Locked, Files, PTL DEF Spec

\* Nobody is ever killed where that cannot happen.
LEMMA NoOrphan == ASSUME Faults = {} PROVE Spec => [](lock # Orphan)
<1>1. Init => lock # Orphan
  BY DEF Init, Free, Orphan
<1>2. TypeOK /\ lock # Orphan /\ [Next]_vars => (lock # Orphan)'
  <2> SUFFICES ASSUME TypeOK, lock # Orphan, Next PROVE (lock # Orphan)'
    BY DEF vars
  <2> PICK c \in Client : ClientStep(c)
    BY NextSteps
  <2> QED
    BY AskShape, LockAssumption
    DEF ClientStep, CheckBaseline, GiveUp, Admit, Refuse, WriteManifest, WriteCanary,
        WritePointer, WriteAudit, Unlock, IoError, Kill, Free, Orphan
<1> QED
  BY <1>1, <1>2, TypeCorrect, PTL DEF Spec

\* Without faults, the four files and the lock implement the atomic life cycle,
\* for any number of clients and releases: every operation takes effect at one
\* instant, when it is admitted, whatever the manifests read before the lock and
\* however the steps of the clients interleave.
THEOREM RegistryImplementsLifecycle ==
  ASSUME Faults = {}
  PROVE  Spec => ImplementsLifecycle
<1>1. Init => Promise!LInit
  BY InitEffective
  DEF Abstract!LInit, Promise!LInit, effState, effBase, effLive, effTrial
<1>2. TypeOK /\ WriterHoldsLock /\ LockedInv /\ FilesInv /\ EffectiveInv
        /\ lock # Orphan /\ [Next]_vars => [Promise!LNext]_Promise!lvars
  <2> SUFFICES ASSUME TypeOK, WriterHoldsLock, LockedInv, FilesInv, EffectiveInv,
                      lock # Orphan, [Next]_vars
               PROVE  [Promise!LNext]_Promise!lvars
    OBVIOUS
  <2>1. [Abstract!LNext]_<<effState, effBase, effLive, effTrial>>
    <3>1. CASE UNCHANGED vars
      BY <3>1, EffectiveStutter
    <3>2. CASE Next
      <4> PICK c \in Client : ClientStep(c)
        BY <3>2, NextSteps
      <4>1. ~Kill(c)
        BY DEF Kill
      <4> QED
        BY <4>1, EffectiveStep
    <3> QED
      BY <3>1, <3>2
  <2> QED
    BY <2>1
    DEF Abstract!LNext, Promise!LNext, Promise!lvars, effState, effBase, effLive,
        effTrial, Abstract!Stage, Promise!Stage, Abstract!Provision, Promise!Provision,
        Abstract!StartCanary, Promise!StartCanary, Abstract!Activate, Promise!Activate,
        Abstract!RollbackCanary, Promise!RollbackCanary, Abstract!RollbackLive,
        Promise!RollbackLive
<1>3. Spec => []EffectiveInv
  BY Effective
<1>4. Spec => [](lock # Orphan)
  BY NoOrphan
<1> QED
  BY <1>1, <1>2, <1>3, <1>4, TypeCorrect, LockIsExclusive, Locked, Files, PTL
  DEF Spec, ImplementsLifecycle, Promise!LSpec

-----------------------------------------------------------------------------
(* The audit, and what an operation that returns has put in place.         *)

\* What a command no longer has to write is there already.
Written(c) ==
  LET j == job[c] IN
  Holds(c) =>
    /\ "canary" \notin j.todo =>
         /\ j.kind = "canary" => canary.id = j.rel
         /\ j.kind \in {"active", "rolled_back"} => canary.id # j.rel
    /\ "pointer" \notin j.todo =>
         /\ j.kind \in {"active", "baseline_provisioned"} => pointer.id = j.rel
         /\ j.kind = "rolled_back" /\ j.next.activated => pointer.id = j.next.base
    /\ "audit" \notin j.todo => audit[<<j.rel, j.kind>>] # None

\* Only a release with a base is put on trial.
TrialHasBase(c) ==
  Holds(c) /\ job[c].kind = "canary" => job[c].next.base # None

\* A row speaks of a state the release is in or has left behind.
HasLeft(r, e) ==
  LET m == manifest[r] IN
  /\ m # None
  /\ e = "staged" => ~IsBaseline(r)
  /\ e = "baseline_provisioned" => IsBaseline(r)
  /\ e = "canary" => m.base # None /\ m.state # "staged"
  /\ e = "active" => IsServed(r)
  /\ e = "rolled_back" => m.state = "rolled_back"

RowsAreTrue ==
  \A r \in Release, e \in Event : audit[<<r, e>>] # None => HasLeft(r, e)

AuditInv == RowsAreTrue /\ \A c \in Client : Written(c) /\ TrialHasBase(c)

\* The one step that adds a row.
LEMMA AuditWrite ==
  ASSUME TypeOK, NEW c \in Client, WriteAudit(c)
  PROVE  LET e == <<job[c].rel, job[c].kind>> IN
         /\ e \in Release \X Event
         /\ audit'[e] = IF audit[e] = None THEN AuditRowOf(job[c]) ELSE audit[e]
         /\ audit'[e] # None
         /\ \A f \in Release \X Event : f # e => audit'[f] = audit[f]
         /\ UNCHANGED <<manifest, pointer, canary>>
<1> DEFINE e == <<job[c].rel, job[c].kind>>
<1>1. job[c] \in Busy
  BY WriteJob
<1>2. e \in Release \X Event
  BY <1>1 DEF Busy
<1>3. AuditRowOf(job[c]) \in AuditRow
  BY <1>1 DEF AuditRowOf, AuditRow, Busy, TypeOK, Pointer
<1>4. AuditRowOf(job[c]) # None
  BY <1>3, NoneIsNoAuditRow
<1> QED
  BY <1>2, <1>4 DEF WriteAudit, TypeOK

LEMMA WrittenStep ==
  ASSUME TypeOK, WriterHoldsLock, LockedInv, AuditInv, NEW c \in Client, ClientStep(c),
         NEW d \in Client
  PROVE  Written(d)'
<1>1. Written(d)
  BY DEF AuditInv
<1>2. CASE d # c
  BY <1>1, <1>2, StepShape DEF Written
<1>3. CASE d = c
  <2> DEFINE j == job[c]
  <2>1. CASE Ask(c) \/ EndStep(c) \/ CheckBaseline(c)
    BY <1>3, <2>1, AskShape, EndJob, CheckJob DEF Written, Holds, Idle
  <2>2. CASE Admit(c)
    <3>1. "canary" \notin Writes(j) => /\ j.kind = "canary" => canary.id = j.rel
                                       /\ j.kind \in {"active", "rolled_back"} => canary.id # j.rel
      BY DEF Writes
    <3>2. "pointer" \notin Writes(j) =>
            /\ j.kind \in {"active", "baseline_provisioned"} => pointer.id = j.rel
            /\ j.kind = "rolled_back" /\ j.next.activated => pointer.id = j.next.base
      BY DEF Writes, ActiveRollback
    <3>3. "audit" \in Writes(j)
      BY DEF Writes
    <3> QED
      BY <1>3, <2>2, <3>1, <3>2, <3>3, AdmitJob DEF Written
  <2>3. CASE WriteManifest(c)
    <3>1. UNCHANGED <<pointer, canary, audit>>
      BY <2>3 DEF WriteManifest
    <3> QED
      BY <1>1, <1>3, <2>3, <3>1, WriteJob DEF Written
  <2>4. CASE WriteCanary(c)
    <3>1. canary'.id = CanaryTarget(j) /\ UNCHANGED <<pointer, audit>>
      BY <2>4 DEF WriteCanary
    <3>2. j.rel # None
      BY <2>4, WriteJob, NoneAssumption DEF Busy
    <3> QED
      BY <1>1, <1>3, <2>4, <3>1, <3>2, WriteJob DEF Written, CanaryTarget
  <2>5. CASE WritePointer(c)
    <3>1. pointer'.id = PointerTarget(j) /\ UNCHANGED <<canary, audit>>
      BY <2>5 DEF WritePointer
    <3> QED
      BY <1>1, <1>3, <2>5, <3>1, WriteJob DEF Written, PointerTarget
  <2>6. CASE WriteAudit(c)
    BY <1>1, <1>3, <2>6, WriteJob, AuditWrite DEF Written
  <2> QED
    BY <2>1, <2>2, <2>3, <2>4, <2>5, <2>6 DEF ClientStep, EndStep
<1> QED
  BY <1>2, <1>3

LEMMA TrialHasBaseStep ==
  ASSUME TypeOK, WriterHoldsLock, LockedInv, AuditInv, NEW c \in Client, ClientStep(c),
         NEW d \in Client
  PROVE  TrialHasBase(d)'
<1>1. TrialHasBase(d)
  BY DEF AuditInv
<1>2. CASE d # c
  BY <1>1, <1>2, StepShape DEF TrialHasBase
<1>3. CASE d = c
  <2>1. CASE Ask(c) \/ EndStep(c) \/ CheckBaseline(c)
    BY <1>3, <2>1, AskShape, EndJob, CheckJob DEF TrialHasBase, Holds, Idle
  <2>2. CASE Admit(c)
    BY <1>3, <2>2, AdmitJob DEF TrialHasBase, Allowed, TransitionAllowed, CanaryAllowed
  <2>3. CASE WriteManifest(c) \/ WriteCanary(c) \/ WritePointer(c) \/ WriteAudit(c)
    BY <1>1, <1>3, <2>3, WriteJob DEF TrialHasBase, Holds
  <2> QED
    BY <2>1, <2>2, <2>3 DEF ClientStep, EndStep
<1> QED
  BY <1>2, <1>3

\* What a manifest has left behind stays behind.
LEMMA LeftStays ==
  ASSUME TypeOK, WriterHoldsLock, LockedInv, AuditInv, NEW c \in Client, ClientStep(c),
         NEW r \in Release, NEW e \in Event, HasLeft(r, e)
  PROVE  HasLeft(r, e)'
<1>1. CASE WriteManifest(c) /\ r = job[c].rel
  <2> DEFINE j == job[c]
  <2>1. /\ Holds(c) /\ manifest'[r] = j.next /\ j.next # None /\ j \in Busy
        /\ <<manifest[r].state, j.next.state>> \in RELEASE_TRANSITIONS
        /\ manifest[r].base = j.next.base
    BY <1>1, ManifestWrite DEF HasLeft
  <2>2. j.next.state = "canary" => j.next.base # None
    BY <2>1 DEF AuditInv, TrialHasBase, LockedInv, KindFits, Holds
  <2> QED
    BY <2>1, <2>2 DEF HasLeft, IsBaseline, IsServed, RELEASE_TRANSITIONS
<1>2. CASE ~(WriteManifest(c) /\ r = job[c].rel)
  <2>1. manifest'[r] = manifest[r]
    BY <1>2, ManifestWrite, ManifestKept
  <2> QED
    BY <2>1 DEF HasLeft, IsBaseline, IsServed
<1> QED
  BY <1>1, <1>2

LEMMA RowsAreTrueStep ==
  ASSUME TypeOK, WriterHoldsLock, LockedInv, AuditInv, NEW c \in Client, ClientStep(c)
  PROVE  RowsAreTrue'
<1> SUFFICES ASSUME NEW r \in Release, NEW e \in Event, audit'[<<r, e>>] # None
             PROVE  HasLeft(r, e)'
  BY DEF RowsAreTrue
<1>1. CASE audit[<<r, e>>] # None
  BY <1>1, LeftStays DEF AuditInv, RowsAreTrue
<1>2. CASE audit[<<r, e>>] = None
  <2> DEFINE j == job[c]
  <2>1. WriteAudit(c)
    BY <1>2, AuditKept
  <2>2. /\ j \in Busy /\ Holds(c) /\ "manifest" \notin j.todo
        /\ manifest' = manifest /\ r = j.rel /\ e = j.kind
    <3>1. j \in Busy /\ Holds(c) /\ j.todo = {"audit"}
      BY <2>1, WriteJob
    <3>2. /\ manifest' = manifest
          /\ \A f \in Release \X Event : f # <<j.rel, j.kind>> => audit'[f] = audit[f]
      BY <2>1, AuditWrite
    <3>3. <<r, e>> = <<j.rel, j.kind>>
      BY <1>2, <3>2
    <3> QED
      BY <3>1, <3>2, <3>3
  <2>3. manifest[r] = j.next /\ KindFits(c) /\ j.next # None /\ TrialHasBase(c)
    BY <2>2, NoneIsNoManifest DEF LockedInv, ManifestWritten, AuditInv, Busy
  <2>4. HasLeft(r, e)
    BY <2>2, <2>3 DEF HasLeft, KindFits, TrialHasBase, IsBaseline, IsServed, Holds
  <2> QED
    BY <2>2, <2>4 DEF HasLeft, IsBaseline, IsServed
<1> QED
  BY <1>1, <1>2

LEMMA AuditHolds == Spec => []AuditInv
<1>1. Init => AuditInv
  BY DEF Init, Idle, Event, AuditInv, RowsAreTrue, Written, TrialHasBase, Holds
<1>2. TypeOK /\ WriterHoldsLock /\ LockedInv /\ AuditInv /\ [Next]_vars => AuditInv'
  <2> SUFFICES ASSUME TypeOK, WriterHoldsLock, LockedInv, AuditInv, [Next]_vars
               PROVE  AuditInv'
    OBVIOUS
  <2>1. CASE UNCHANGED vars
    BY <2>1 DEF vars, AuditInv, RowsAreTrue, Written, TrialHasBase, Holds, HasLeft,
       IsServed, IsBaseline
  <2>2. CASE Next
    BY <2>2, NextSteps, WrittenStep, TrialHasBaseStep, RowsAreTrueStep DEF AuditInv
  <2> QED
    BY <2>1, <2>2
<1> QED
  BY <1>1, <1>2, TypeCorrect, LockIsExclusive, Locked, PTL DEF Spec

\* A row that is there, or that the command holding the lock has yet to write.
Owed(r, e) ==
  \E c \in Client :
    Holds(c) /\ job[c].rel = r /\ job[c].kind = e /\ "audit" \in job[c].todo

Has(r, e) == audit[<<r, e>>] # None \/ Owed(r, e)

\* Every state a manifest has been in has its row, or is about to.
Accounted ==
  \A r \in Release :
    manifest[r] # None =>
      /\ ~IsBaseline(r) => Has(r, "staged")
      /\ IsBaseline(r) => Has(r, "baseline_provisioned")
      /\ ~IsBaseline(r) /\ manifest[r].state # "staged" => Has(r, "canary")
      /\ ~IsBaseline(r) /\ manifest[r].state = "active" => Has(r, "active")
      /\ manifest[r].state = "rolled_back" => Has(r, "rolled_back")

AccountedInv == lock # Orphan => Accounted

\* A rollback of a release with a base that is about to write its row says that it
\* came from the active state exactly when the activation has its row ...
FromFits(c) ==
  LET j == job[c] IN
  Holds(c) /\ j.kind = "rolled_back" /\ j.next.base # None
    /\ audit[<<j.rel, "rolled_back">>] = None =>
      (j.prev = "active" <=> audit[<<j.rel, "active">>] # None)

\* ... and so does the row it has written.
FromWritten(r) ==
  manifest[r] # None /\ manifest[r].base # None /\ audit[<<r, "rolled_back">>] # None =>
    (audit[<<r, "rolled_back">>].prev = "active" <=> audit[<<r, "active">>] # None)

RollbackRowsFit ==
  /\ \A c \in Client : FromFits(c)
  /\ \A r \in Release : FromWritten(r)

LEMMA HasStays ==
  ASSUME TypeOK, WriterHoldsLock, NEW c \in Client, ClientStep(c),
         ~IoError(c), ~Kill(c), NEW r \in Release, NEW e \in Event, Has(r, e)
  PROVE  Has(r, e)'
<1>1. CASE audit[<<r, e>>] # None
  <2>1. CASE WriteAudit(c)
    BY <1>1, <2>1, AuditWrite DEF Has
  <2>2. CASE ~WriteAudit(c)
    BY <1>1, <2>2, AuditKept DEF Has
  <2> QED
    BY <2>1, <2>2
<1>2. ASSUME NEW d \in Client, Holds(d), job[d].rel = r, job[d].kind = e,
             "audit" \in job[d].todo
      PROVE  Has(r, e)'
  <2>1. CASE d # c
    <3>1. job'[d] = job[d] /\ job'[d].phase = "writing" /\ Holds(d)'
      BY <1>2, <2>1, StepShape DEF Holds, WriterHoldsLock
    <3> QED
      BY <1>2, <3>1 DEF Has, Owed
  <2>2. CASE d = c
    <3>1. CASE WriteManifest(c) \/ WriteCanary(c) \/ WritePointer(c)
      <4>1. Holds(c)' /\ job'[c].rel = r /\ job'[c].kind = e /\ "audit" \in job'[c].todo
        BY <1>2, <2>2, <3>1, WriteJob DEF Holds
      <4> QED
        BY <4>1 DEF Has, Owed
    <3>2. CASE WriteAudit(c)
      BY <1>2, <2>2, <3>2, AuditWrite DEF Has
    <3>3. WriteManifest(c) \/ WriteCanary(c) \/ WritePointer(c) \/ WriteAudit(c)
      BY <1>2, <2>2, AskShape, CheckJob, AdmitJob
      DEF ClientStep, GiveUp, Refuse, Unlock, Holds, Idle
    <3> QED
      BY <3>1, <3>2, <3>3
  <2> QED
    BY <2>1, <2>2
<1> QED
  BY <1>1, <1>2 DEF Has, Owed

LEMMA AccountedStep ==
  ASSUME TypeOK, WriterHoldsLock, LockedInv, FilesInv, AuditInv, Accounted,
         NEW c \in Client, ClientStep(c), ~IoError(c), ~Kill(c)
  PROVE  Accounted'
<1> SUFFICES ASSUME NEW r \in Release, manifest'[r] # None
             PROVE  /\ ~IsBaseline(r)' => Has(r, "staged")'
                    /\ IsBaseline(r)' => Has(r, "baseline_provisioned")'
                    /\ ~IsBaseline(r)' /\ manifest'[r].state # "staged" => Has(r, "canary")'
                    /\ ~IsBaseline(r)' /\ manifest'[r].state = "active" => Has(r, "active")'
                    /\ manifest'[r].state = "rolled_back" => Has(r, "rolled_back")'
  BY DEF Accounted
<1>1. \A e \in Event : Has(r, e) => Has(r, e)'
  BY HasStays
<1>2. CASE manifest'[r] = manifest[r]
  <2>1. IsBaseline(r)' = IsBaseline(r)
    BY <1>2 DEF IsBaseline
  <2> QED
    BY <1>1, <1>2, <2>1 DEF Accounted, Event
<1>3. CASE WriteManifest(c) /\ r = job[c].rel
  <2> DEFINE j == job[c]
  <2>1. /\ j \in Busy /\ Holds(c) /\ "manifest" \in j.todo /\ manifest'[r] = j.next
        /\ \/ manifest[r] = None
           \/ /\ manifest[r] # None
              /\ <<manifest[r].state, j.next.state>> \in RELEASE_TRANSITIONS
              /\ manifest[r].base = j.next.base
    BY <1>3, ManifestWrite
  <2>2. /\ j.kind = "baseline_provisioned" => j.next.base = None /\ j.next.state = "active"
        /\ j.kind # "baseline_provisioned" => j.next.state = j.kind
        /\ j.kind = "canary" => j.next.base # None
        /\ manifest[r] = None => j.kind \in {"staged", "baseline_provisioned"}
        /\ "audit" \in j.todo
    BY <1>3, <2>1
    DEF LockedInv, KindFits, FilesInv, JobSound, AuditLast, AuditInv, TrialHasBase, Holds
  <2>3. PICK k \in Event : k = j.kind
    BY <2>1 DEF Busy
  <2>4. Has(r, k)'
    BY <1>3, <2>1, <2>2, <2>3, WriteJob DEF Has, Owed, Holds
  <2>5. IsBaseline(r)' <=> j.next.base = None /\ j.next.state # "staged"
    BY <2>1 DEF IsBaseline
  <2>6. CASE manifest[r] = None
    BY <2>1, <2>2, <2>3, <2>4, <2>5, <2>6
  <2>7. CASE manifest[r] # None
    <3>1. IsBaseline(r)' <=> IsBaseline(r)
      BY <2>1, <2>2, <2>5, <2>7 DEF IsBaseline, RELEASE_TRANSITIONS
    <3>2. j.next.state = k \/ (IsBaseline(r)' /\ j.next.state = "active")
      BY <2>1, <2>2, <2>3, <2>5
    <3>3. /\ ~IsBaseline(r) => Has(r, "staged")'
          /\ IsBaseline(r) => Has(r, "baseline_provisioned")'
          /\ ~IsBaseline(r) /\ manifest[r].state # "staged" => Has(r, "canary")'
      BY <1>1, <2>7 DEF Accounted, Event
    <3>4. manifest[r].state = "staged" => j.next.state = "canary"
      BY <2>1, <2>7 DEF RELEASE_TRANSITIONS
    <3>5. k = "canary" => Has(r, "canary")'
      BY <2>4
    <3>6. ~IsBaseline(r)' /\ j.next.state = "active" => Has(r, "active")'
      BY <2>4, <3>2
    <3>7. j.next.state = "rolled_back" => Has(r, "rolled_back")'
      BY <2>4, <3>2
    <3>8. ~IsBaseline(r)' /\ j.next.state # "staged" => Has(r, "canary")'
      BY <3>1, <3>2, <3>3, <3>4, <3>5
    <3> QED
      BY <2>1, <3>1, <3>3, <3>6, <3>7, <3>8
  <2> QED
    BY <2>6, <2>7
<1> QED
  BY <1>2, <1>3, ManifestWrite, ManifestKept

\* A rollback is admitted when nobody owes a row: its release is active and has
\* the row of that, or in canary and has none.
LEMMA AdmitFrom ==
  ASSUME TypeOK, LockedInv, FilesInv, AuditInv, AccountedInv, NEW c \in Client, Admit(c)
  PROVE  FromFits(c)'
<1> DEFINE j == job[c]
           m == manifest[job[c].rel]
<1>1. /\ j \in Busy /\ Allowed(j) /\ lock = Free /\ j.rel \in Release
      /\ job'[c].kind = j.kind /\ job'[c].next = j.next /\ job'[c].rel = j.rel
      /\ job'[c].prev = PreviousState(j) /\ audit' = audit
  BY AdmitJob DEF Busy
<1> SUFFICES ASSUME j.kind = "rolled_back", j.next.base # None,
                    audit[<<j.rel, "rolled_back">>] = None
             PROVE  PreviousState(j) = "active" <=> audit[<<j.rel, "active">>] # None
  BY <1>1 DEF FromFits
<1>2. /\ m # None /\ m.base = j.next.base /\ j.next.state = "rolled_back"
      /\ m.state = "rolled_back" \/ <<m.state, "rolled_back">> \in RELEASE_TRANSITIONS
  <2>1. j.next.state = "rolled_back"
    BY <1>1 DEF LockedInv, KindFits, Admit
  <2> QED
    BY <1>1, <2>1 DEF Allowed, TransitionAllowed
<1>3. Accounted /\ ~IsBaseline(j.rel) /\ \A e : Has(j.rel, e) => audit[<<j.rel, e>>] # None
  BY <1>1, <1>2, LockAssumption
  DEF AccountedInv, Has, Owed, Holds, IsBaseline, Free, Orphan
<1>4. /\ m.state = "active" => audit[<<j.rel, "active">>] # None
      /\ m.state # "rolled_back"
  BY <1>1, <1>2, <1>3 DEF Accounted
<1>5. audit[<<j.rel, "active">>] # None => m.state \in {"active", "rolled_back"}
  BY <1>1 DEF AuditInv, RowsAreTrue, HasLeft, IsServed, Event
<1>6. PreviousState(j) = m.state
  BY <1>2, <1>4 DEF PreviousState
<1> QED
  BY <1>4, <1>5, <1>6

LEMMA FromFitsStep ==
  ASSUME TypeOK, WriterHoldsLock, LockedInv, FilesInv, AuditInv, AccountedInv,
         RollbackRowsFit, NEW c \in Client, ClientStep(c), NEW d \in Client
  PROVE  FromFits(d)'
<1>1. FromFits(d)
  BY DEF RollbackRowsFit
<1>2. CASE d # c
  BY <1>1, <1>2, StepShape DEF FromFits
<1>3. CASE d = c
  <2>1. CASE Ask(c) \/ EndStep(c) \/ CheckBaseline(c)
    BY <1>3, <2>1, AskShape, EndJob, CheckJob DEF FromFits, Holds, Idle
  <2>2. CASE Admit(c)
    BY <1>3, <2>2, AdmitFrom
  <2>3. CASE WriteManifest(c) \/ WriteCanary(c) \/ WritePointer(c)
    <3>1. audit' = audit
      BY <2>3 DEF WriteManifest, WriteCanary, WritePointer
    <3> QED
      BY <1>1, <1>3, <2>3, <3>1, WriteJob DEF FromFits, Holds
  <2>4. CASE WriteAudit(c)
    BY <1>3, <2>4, WriteJob, AuditWrite DEF FromFits
  <2> QED
    BY <2>1, <2>2, <2>3, <2>4 DEF ClientStep, EndStep
<1> QED
  BY <1>2, <1>3

LEMMA FromWrittenStep ==
  ASSUME TypeOK, WriterHoldsLock, LockedInv, FilesInv, AuditInv, RollbackRowsFit,
         NEW c \in Client, ClientStep(c), NEW r \in Release
  PROVE  FromWritten(r)'
<1> DEFINE j == job[c]
           done == <<r, "rolled_back">>
           live == <<r, "active">>
<1>1. FromWritten(r) /\ done \in Release \X Event /\ live \in Release \X Event
  BY DEF RollbackRowsFit, Event
<1>2. audit[done] # None => manifest'[r] = manifest[r] /\ manifest[r].state = "rolled_back"
  <2> SUFFICES ASSUME audit[done] # None
               PROVE  manifest'[r] = manifest[r] /\ manifest[r].state = "rolled_back"
    OBVIOUS
  <2>1. manifest[r] # None /\ manifest[r].state = "rolled_back"
    BY DEF AuditInv, RowsAreTrue, HasLeft, Event
  <2>2. CASE WriteManifest(c)
    BY <2>1, <2>2, ManifestWrite DEF RELEASE_TRANSITIONS
  <2>3. CASE ~WriteManifest(c)
    BY <2>1, <2>3, ManifestKept
  <2> QED
    BY <2>2, <2>3
<1>3. CASE audit' = audit
  BY <1>1, <1>2, <1>3 DEF FromWritten
<1>4. CASE audit' # audit
  <2>1. WriteAudit(c)
    BY <1>4, AuditKept
  <2>2. /\ j \in Busy /\ Holds(c) /\ "manifest" \notin j.todo /\ manifest' = manifest
        /\ \A f \in Release \X Event : f # <<j.rel, j.kind>> => audit'[f] = audit[f]
        /\ audit'[<<j.rel, j.kind>>] =
             IF audit[<<j.rel, j.kind>>] = None THEN AuditRowOf(j)
                                                ELSE audit[<<j.rel, j.kind>>]
    BY <2>1, WriteJob, AuditWrite
  <2>3. manifest[j.rel] = j.next /\ KindFits(c) /\ FromFits(c)
    BY <2>2 DEF LockedInv, ManifestWritten, RollbackRowsFit
  <2>4. CASE j.rel = r /\ j.kind = "rolled_back"
    <3>1. audit'[live] = audit[live]
      BY <1>1, <2>2, <2>4
    <3>2. CASE audit[done] # None
      BY <1>1, <2>2, <2>4, <3>1, <3>2 DEF FromWritten
    <3>3. CASE audit[done] = None
      <4>1. audit'[done].prev = j.prev
        BY <2>2, <2>4, <3>3 DEF AuditRowOf
      <4> QED
        BY <2>2, <2>3, <2>4, <3>1, <3>3, <4>1 DEF FromWritten, FromFits
    <3> QED
      BY <3>2, <3>3
  <2>5. CASE j.rel = r /\ j.kind = "active"
    <3>1. audit'[done] = audit[done]
      BY <1>1, <2>2, <2>5
    <3>2. manifest[r].state = "active"
      BY <2>2, <2>3, <2>5 DEF KindFits, Holds
    <3> QED
      BY <1>2, <3>1, <3>2 DEF FromWritten
  <2>6. CASE ~(j.rel = r /\ j.kind \in {"rolled_back", "active"})
    <3>1. audit'[done] = audit[done] /\ audit'[live] = audit[live]
      BY <1>1, <2>2, <2>6
    <3> QED
      BY <1>1, <2>2, <3>1 DEF FromWritten
  <2> QED
    BY <2>4, <2>5, <2>6
<1> QED
  BY <1>3, <1>4

LEMMA AccountedHolds ==
  ASSUME "io" \notin Faults PROVE Spec => [](AccountedInv /\ RollbackRowsFit)
<1> DEFINE IInv == AccountedInv /\ RollbackRowsFit
<1>1. Init => IInv
  BY DEF Init, Idle, Event, AccountedInv, Accounted, RollbackRowsFit, FromFits, FromWritten,
     Holds
<1>2. TypeOK /\ WriterHoldsLock /\ LockedInv /\ FilesInv /\ AuditInv /\ IInv /\ [Next]_vars
        => IInv'
  <2> SUFFICES ASSUME TypeOK, WriterHoldsLock, LockedInv, FilesInv, AuditInv,
                      AccountedInv, RollbackRowsFit, [Next]_vars
               PROVE  AccountedInv' /\ RollbackRowsFit'
    OBVIOUS
  <2>1. CASE UNCHANGED vars
    BY <2>1 DEF vars, AccountedInv, Accounted, Has, Owed, Holds, IsBaseline,
       RollbackRowsFit, FromFits, FromWritten
  <2>2. CASE Next
    <3> PICK c \in Client : ClientStep(c)
      BY <2>2, NextSteps
    <3>1. ~IoError(c)
      BY DEF IoError
    <3>2. AccountedInv'
      <4>1. CASE Kill(c)
        BY <4>1 DEF Kill, AccountedInv
      <4>2. CASE lock = Orphan
        <5>1. lock' = lock
          BY <4>2, AskShape, CheckJob, LockAssumption
          DEF ClientStep, GiveUp, Admit, Refuse, WriteManifest, WriteCanary, WritePointer,
              WriteAudit, Unlock, IoError, Kill, Holds, Free, Orphan
        <5> QED
          BY <4>2, <5>1 DEF AccountedInv
      <4>3. CASE ~Kill(c) /\ lock # Orphan
        BY <3>1, <4>3, AccountedStep DEF AccountedInv
      <4> QED
        BY <4>1, <4>2, <4>3
    <3>3. RollbackRowsFit'
      BY FromFitsStep, FromWrittenStep DEF RollbackRowsFit
    <3> QED
      BY <3>2, <3>3
  <2> QED
    BY <2>1, <2>2
<1>3. Spec => []IInv
  BY <1>1, <1>2, TypeCorrect, LockIsExclusive, Locked, Files, AuditHolds, PTL DEF Spec
<1> QED
  BY <1>3

\* A row is true of its release, if the row of a rollback does not deny an
\* activation that has its row.
LEMMA RowsTellTruth ==
  ASSUME TypeOK, AuditInv, NEW r \in Release,
         ~IsBaseline(r) /\ audit[<<r, "active">>] # None => CameFromActive(r),
         NEW e \in Event, Recorded(r, e)
  PROVE  Passed(r, e)
<1>1. HasLeft(r, e) /\ manifest[r] # None
  BY DEF AuditInv, RowsAreTrue, Recorded, HasLeft
<1>2. manifest[r].base # None => ~IsBaseline(r)
  BY DEF IsBaseline
<1> QED
  BY <1>1, <1>2 DEF Passed, HasLeft, Recorded, IsServed, Event

LEMMA RollbackRowsTell ==
  ASSUME TypeOK, RollbackRowsFit, AuditInv, NEW r \in Release,
         ~IsBaseline(r), audit[<<r, "active">>] # None
  PROVE  CameFromActive(r)
<1>1. manifest[r] # None /\ manifest[r].state \in {"active", "rolled_back"}
  BY DEF AuditInv, RowsAreTrue, HasLeft, IsServed, Event
<1>2. manifest[r].base # None
  BY <1>1 DEF IsBaseline
<1> QED
  BY <1>1, <1>2 DEF RollbackRowsFit, FromWritten, CameFromActive

\* As long as no write throws (clients may be killed), whenever the lock is free
\* the audit has a row for exactly what every release has gone through, for any
\* number of clients and releases: staging or provisioning, trial, activation
\* also of a release rolled back since, rollback.
THEOREM AuditComplete ==
  ASSUME "io" \notin Faults
  PROVE  Spec => []AuditIsComplete
<1>1. TypeOK /\ AuditInv /\ AccountedInv /\ RollbackRowsFit => AuditIsComplete
  <2> SUFFICES ASSUME TypeOK, AuditInv, AccountedInv, RollbackRowsFit, lock = Free,
                      NEW r \in Release, NEW e \in Event
               PROVE  Recorded(r, e) <=> Passed(r, e)
    BY DEF AuditIsComplete
  <2>1. Recorded(r, e) => Passed(r, e)
    BY RowsTellTruth, RollbackRowsTell
  <2>2. ASSUME Passed(r, e) PROVE Recorded(r, e)
    <3>1. /\ manifest[r] # None /\ Accounted
          /\ \A k : Has(r, k) => audit[<<r, k>>] # None
      BY <2>2, LockAssumption DEF Passed, AccountedInv, Has, Owed, Holds, Free, Orphan
    <3>2. /\ ~IsBaseline(r) => audit[<<r, "staged">>] # None
          /\ IsBaseline(r) => audit[<<r, "baseline_provisioned">>] # None
          /\ ~IsBaseline(r) /\ manifest[r].state # "staged" => audit[<<r, "canary">>] # None
          /\ ~IsBaseline(r) /\ manifest[r].state = "active" => audit[<<r, "active">>] # None
          /\ manifest[r].state = "rolled_back" => audit[<<r, "rolled_back">>] # None
      BY <3>1 DEF Accounted
    <3>3. ~IsBaseline(r) /\ manifest[r].state = "rolled_back" /\ CameFromActive(r) =>
            audit[<<r, "active">>] # None
      BY <3>1, <3>2 DEF CameFromActive, RollbackRowsFit, FromWritten, IsBaseline
    <3> QED
      BY <2>2, <3>2, <3>3 DEF Passed, Recorded, Event
  <2> QED
    BY <2>1, <2>2
<1>2. Spec => [](AccountedInv /\ RollbackRowsFit)
  BY AccountedHolds
<1> QED
  BY <1>1, <1>2, TypeCorrect, AuditHolds, PTL

-----------------------------------------------------------------------------
(* One client alone: nothing changes between what it reads and what it     *)
(* writes, whatever fails in between.                                      *)

Alone == \A c, d \in Client : c = d

WasActivated(r) == manifest[r] # None /\ manifest[r].activated

\* A step leaves the mark of an activation on a release that has it, and sets it
\* on the one that is activated.
MarkFits(j) ==
  j.next.activated <=> (manifest[j.rel].activated \/ j.kind = "active")

Fresh(c) ==
  LET j == job[c] IN
  j.phase \in {"loaded", "ready"} /\ j.kind \in {"canary", "active", "rolled_back"} =>
    MarkFits(j)

KeepsMark(c) ==
  LET j == job[c] IN
  Holds(c) /\ "manifest" \in j.todo /\ manifest[j.rel] # None => MarkFits(j)

\* The previous state an operation puts in its row is the expected one.
PrevFits(c) ==
  LET j == job[c] IN
  Holds(c) /\ j.kind \in {"canary", "active", "rolled_back"} =>
    j.prev = expectedPreviousState(j.next)

BaseActivated(m) == m.base # None => WasActivated(m.base)

BasesActivated ==
  /\ \A r \in Release : manifest[r] # None => BaseActivated(manifest[r])
  /\ \A c \in Client : job[c].phase # "idle" => BaseActivated(job[c].next)

PointerActivated == pointer.id # None => WasActivated(pointer.id)

RowsFit ==
  \A r \in Release :
    /\ audit[<<r, "staged">>] # None => audit[<<r, "staged">>].prev = None
    /\ audit[<<r, "canary">>] # None => audit[<<r, "canary">>].prev = "staged"
    /\ audit[<<r, "active">>] # None => audit[<<r, "active">>].prev = "canary"
    /\ audit[<<r, "rolled_back">>] # None =>
         audit[<<r, "rolled_back">>].prev = expectedPreviousState(manifest[r])

ActiveRowsFit ==
  \A r \in Release : audit[<<r, "active">>] # None => WasActivated(r)

AloneInv ==
  /\ BasesActivated
  /\ PointerActivated
  /\ RowsFit
  /\ ActiveRowsFit
  /\ \A c \in Client : Fresh(c) /\ KeepsMark(c) /\ PrevFits(c)

LEMMA ActivatedStays ==
  ASSUME TypeOK, LockedInv, AloneInv, NEW c \in Client, ClientStep(c),
         NEW r \in Release, WasActivated(r)
  PROVE  WasActivated(r)'
<1>1. CASE WriteManifest(c) /\ r = job[c].rel
  BY <1>1, ManifestWrite DEF AloneInv, KeepsMark, MarkFits, WasActivated
<1> QED
  BY <1>1, ManifestWrite, ManifestKept DEF WasActivated

LEMMA AskFresh ==
  ASSUME TypeOK, FilesInv, AloneInv, NEW c \in Client, Ask(c)
  PROVE  Fresh(c)' /\ BaseActivated(job[c].next)'
<1> PICK r \in Release, op \in Operator, why \in Reason :
      \/ Stage(c, r, op, why) \/ Provision(c, r, op, why)
      \/ StartCanary(c, r, op, why) \/ Activate(c, r, op, why)
      \/ Rollback(c, r, op, why)
  BY DEF Ask
<1>1. ASSUME NEW phase \in {"loaded", "ready"}, NEW kind, NEW next,
             Request(c, phase, kind, r, next, op, why),
             BaseActivated(next),
             kind \in {"canary", "active", "rolled_back"} =>
               (next.activated <=> (manifest[r].activated \/ kind = "active"))
      PROVE  Fresh(c)' /\ BaseActivated(job[c].next)'
  <2>1. /\ job'[c].phase = phase /\ job'[c].kind = kind /\ job'[c].rel = r
        /\ job'[c].next = next /\ manifest' = manifest
    BY <1>1 DEF Request, TypeOK
  <2> QED
    BY <1>1, <2>1 DEF Fresh, MarkFits, BaseActivated, WasActivated
<1>2. manifest[r] # None =>
        /\ manifest[r] \in Manifest /\ Sound(manifest[r])
        /\ BaseActivated(manifest[r])
  BY DEF TypeOK, FilesInv, ManifestsSound, AloneInv, BasesActivated
<1>3. CASE Stage(c, r, op, why)
  BY <1>1, <1>3 DEF Stage, AloneInv, PointerActivated, BaseActivated
<1>4. CASE Provision(c, r, op, why)
  BY <1>1, <1>4 DEF Provision, BaseActivated
<1>5. CASE StartCanary(c, r, op, why)
  <2> DEFINE m == [manifest[r] EXCEPT !.state = "canary", !.by = op, !.tag = c]
  <2>1. manifest[r] # None => m.base = manifest[r].base /\ m.activated = manifest[r].activated
    BY <1>2 DEF Manifest
  <2> QED
    BY <1>1, <1>2, <1>5, <2>1 DEF StartCanary, BaseActivated
<1>6. CASE Activate(c, r, op, why)
  <2> DEFINE m == [manifest[r] EXCEPT !.state = "active", !.activated = TRUE, !.tag = c]
  <2>1. manifest[r] # None => m.base = manifest[r].base /\ m.activated = TRUE
    BY <1>2 DEF Manifest
  <2> QED
    BY <1>1, <1>2, <1>6, <2>1 DEF Activate, Sound, BaseActivated
<1>7. CASE Rollback(c, r, op, why)
  <2> DEFINE m == [manifest[r] EXCEPT !.state = "rolled_back", !.tag = c]
  <2>1. manifest[r] # None => m.base = manifest[r].base /\ m.activated = manifest[r].activated
    BY <1>2 DEF Manifest
  <2> QED
    BY <1>1, <1>2, <1>7, <2>1 DEF Rollback, BaseActivated
<1> QED
  BY <1>3, <1>4, <1>5, <1>6, <1>7

\* What the lone client admits is derived from the manifest as it still is.
LEMMA AdmitAlone ==
  ASSUME TypeOK, LockedInv, FilesInv, AloneInv, NEW c \in Client, Admit(c)
  PROVE  KeepsMark(c)' /\ PrevFits(c)'
<1> DEFINE j == job[c]
           m == manifest[job[c].rel]
<1>1. /\ j \in Busy /\ Allowed(j) /\ j.phase = "ready" /\ j.kind \in Event
      /\ job'[c].kind = j.kind /\ job'[c].next = j.next /\ job'[c].rel = j.rel
      /\ job'[c].prev = PreviousState(j) /\ job'[c].todo = Writes(j)
      /\ manifest' = manifest
  BY AdmitJob DEF Busy
<1>2. KindFits(c) /\ Fresh(c) /\ JobSound(c)
  BY DEF LockedInv, AloneInv, FilesInv
<1>3. KeepsMark(c)'
  <2>1. "manifest" \in Writes(j) /\ m # None => j.kind \in {"canary", "active", "rolled_back"}
    BY <1>1 DEF Writes, Allowed, StageAllowed, ProvisionAllowed, Event
  <2> QED
    BY <1>1, <1>2, <2>1 DEF KeepsMark, Fresh, MarkFits
<1>4. ASSUME j.kind \in {"canary", "active", "rolled_back"}
      PROVE  PreviousState(j) = expectedPreviousState(j.next)
  <2>1. /\ m # None /\ j.next.state = j.kind
        /\ m.state = j.next.state \/ <<m.state, j.next.state>> \in RELEASE_TRANSITIONS
    BY <1>1, <1>2, <1>4 DEF KindFits, Allowed, TransitionAllowed
  <2>2. CASE m.state = j.next.state
    BY <1>4, <2>2 DEF PreviousState
  <2>3. CASE m.state # j.next.state
    <3>1. PreviousState(j) = m.state
      BY <1>4, <2>3 DEF PreviousState
    <3>2. Sound(m)
      BY <1>1, <2>1 DEF FilesInv, ManifestsSound, Busy
    <3>3. j.kind = "rolled_back" =>
            m.state = IF j.next.activated THEN "active" ELSE "canary"
      BY <1>1, <1>2, <2>1, <2>3, <3>2 DEF Fresh, MarkFits, Sound, RELEASE_TRANSITIONS
    <3> QED
      BY <1>4, <2>1, <2>3, <3>1, <3>3 DEF expectedPreviousState, RELEASE_TRANSITIONS
  <2> QED
    BY <2>2, <2>3
<1>5. PrevFits(c)'
  BY <1>1, <1>4 DEF PrevFits
<1> QED
  BY <1>3, <1>5

LEMMA AloneJobStep ==
  ASSUME TypeOK, LockedInv, FilesInv, AloneInv, NEW c \in Client, ClientStep(c)
  PROVE  /\ Fresh(c)' /\ KeepsMark(c)' /\ PrevFits(c)'
         /\ job'[c].phase # "idle" => BaseActivated(job[c].next)'
<1> DEFINE j == job[c]
<1>1. Fresh(c) /\ KeepsMark(c) /\ PrevFits(c)
  BY DEF AloneInv
<1>2. ASSUME j \in Busy, job'[c].next = j.next
      PROVE  BaseActivated(job[c].next)'
  <2>1. j.phase # "idle" /\ j.next.base \in Release \cup {None}
    BY <1>2 DEF Busy, Manifest
  <2>2. BaseActivated(j.next)
    BY <2>1 DEF AloneInv, BasesActivated
  <2> QED
    BY <1>2, <2>1, <2>2, ActivatedStays DEF BaseActivated
<1>3. CASE Ask(c)
  BY <1>3, AskFresh, AskShape DEF KeepsMark, PrevFits, Holds
<1>4. CASE EndStep(c)
  BY <1>4, EndJob DEF Fresh, KeepsMark, PrevFits, Holds, Idle
<1>5. CASE CheckBaseline(c)
  BY <1>1, <1>2, <1>5, CheckJob DEF Fresh, KeepsMark, PrevFits, Holds, MarkFits
<1>6. CASE Admit(c)
  BY <1>2, <1>6, AdmitJob, AdmitAlone DEF Fresh
<1>7. CASE WriteManifest(c)
  BY <1>1, <1>2, <1>7, WriteJob DEF Fresh, KeepsMark, PrevFits, Holds
<1>8. CASE WriteCanary(c) \/ WritePointer(c) \/ WriteAudit(c)
  <2>1. manifest' = manifest
    BY <1>8 DEF WriteCanary, WritePointer, WriteAudit
  <2>2. "manifest" \in job'[c].todo => "manifest" \in j.todo
    BY <1>8, WriteJob
  <2> QED
    BY <1>1, <1>2, <1>8, <2>1, <2>2, WriteJob DEF Fresh, KeepsMark, PrevFits, Holds, MarkFits
<1> QED
  BY <1>3, <1>4, <1>5, <1>6, <1>7, <1>8 DEF ClientStep, EndStep

LEMMA AloneBasesStep ==
  ASSUME Alone, TypeOK, LockedInv, FilesInv, AloneInv, NEW c \in Client, ClientStep(c)
  PROVE  BasesActivated' /\ PointerActivated'
<1>1. ASSUME NEW d \in Client, job'[d].phase # "idle"
      PROVE  BaseActivated(job[d].next)'
  <2>1. d = c
    BY DEF Alone
  <2> QED
    BY <1>1, <2>1, AloneJobStep
<1>2. ASSUME NEW r \in Release, manifest'[r] # None
      PROVE  BaseActivated(manifest[r])'
  <2>1. ASSUME NEW m \in Manifest, BaseActivated(m), manifest'[r] = m
        PROVE  BaseActivated(manifest[r])'
    BY <2>1, ActivatedStays DEF BaseActivated, Manifest
  <2>2. CASE WriteManifest(c) /\ r = job[c].rel
    <3>1. job[c].next \in Manifest /\ job[c].phase # "idle" /\ manifest'[r] = job[c].next
      BY <2>2, ManifestWrite DEF Busy, Holds
    <3> QED
      BY <2>1, <3>1 DEF AloneInv, BasesActivated
  <2>3. CASE ~(WriteManifest(c) /\ r = job[c].rel)
    <3>1. manifest'[r] = manifest[r]
      BY <2>3, ManifestWrite, ManifestKept
    <3> QED
      BY <1>2, <2>1, <3>1 DEF AloneInv, BasesActivated, TypeOK
  <2> QED
    BY <2>2, <2>3
<1>3. PointerActivated'
  <2>1. CASE WritePointer(c)
    <3> DEFINE j == job[c]
    <3>1. /\ j \in Busy /\ Holds(c) /\ JobSound(c) /\ "pointer" \in j.todo
          /\ "manifest" \notin j.todo /\ pointer'.id = PointerTarget(j)
          /\ manifest' = manifest
      BY <2>1, WriteJob DEF FilesInv, WritePointer
    <3>2. manifest[j.rel] = j.next /\ PointerWriteFits(c) /\ j.next # None
      BY <3>1, NoneIsNoManifest DEF LockedInv, ManifestWritten, Busy
    <3>3. CASE j.kind = "rolled_back"
      <4>1. BaseActivated(j.next)
        BY <3>1 DEF AloneInv, BasesActivated, Holds
      <4> QED
        BY <3>1, <3>3, <4>1 DEF PointerActivated, PointerTarget, BaseActivated, WasActivated
    <3>4. CASE j.kind # "rolled_back"
      BY <3>1, <3>2, <3>4
      DEF PointerActivated, PointerTarget, PointerWriteFits, WasActivated, JobSound, Sound,
          Holds
    <3> QED
      BY <3>3, <3>4
  <2>2. CASE ~WritePointer(c)
    <3>1. pointer' = pointer /\ pointer.id \in Release \cup {None}
      BY <2>2, PointerKept DEF TypeOK, Pointer
    <3> QED
      BY <3>1, ActivatedStays DEF AloneInv, PointerActivated
  <2> QED
    BY <2>1, <2>2
<1> QED
  BY <1>1, <1>2, <1>3 DEF BasesActivated

LEMMA RowsFitStep ==
  ASSUME TypeOK, LockedInv, FilesInv, AuditInv, AloneInv, NEW c \in Client, ClientStep(c)
  PROVE  RowsFit'
<1> DEFINE j == job[c]
<1> SUFFICES ASSUME NEW r \in Release
             PROVE  /\ audit'[<<r, "staged">>] # None => audit'[<<r, "staged">>].prev = None
                    /\ audit'[<<r, "canary">>] # None => audit'[<<r, "canary">>].prev = "staged"
                    /\ audit'[<<r, "active">>] # None => audit'[<<r, "active">>].prev = "canary"
                    /\ audit'[<<r, "rolled_back">>] # None =>
                         audit'[<<r, "rolled_back">>].prev = expectedPreviousState(manifest'[r])
  BY DEF RowsFit, expectedPreviousState
<1>1. /\ audit[<<r, "staged">>] # None => audit[<<r, "staged">>].prev = None
      /\ audit[<<r, "canary">>] # None => audit[<<r, "canary">>].prev = "staged"
      /\ audit[<<r, "active">>] # None => audit[<<r, "active">>].prev = "canary"
      /\ audit[<<r, "rolled_back">>] # None =>
           audit[<<r, "rolled_back">>].prev = expectedPreviousState(manifest[r])
  BY DEF AloneInv, RowsFit
<1>2. CASE WriteAudit(c)
  <2>1. /\ j \in Busy /\ Holds(c) /\ "manifest" \notin j.todo /\ manifest' = manifest
    BY <1>2, WriteJob, AuditWrite
  <2>2. /\ manifest[j.rel] = j.next /\ j.next # None
        /\ j.kind \in {"canary", "active", "rolled_back"} =>
             j.next.state = j.kind /\ j.prev = expectedPreviousState(j.next)
    BY <2>1, NoneIsNoManifest
    DEF LockedInv, ManifestWritten, KindFits, AloneInv, PrevFits, Busy, Holds
  <2>3. AuditRowOf(j).prev = IF j.kind = "staged" THEN None ELSE j.prev
    BY DEF AuditRowOf
  <2>4. ASSUME NEW k \in {"staged", "canary", "active", "rolled_back"}
        PROVE  \/ audit'[<<r, k>>] = audit[<<r, k>>]
               \/ audit'[<<r, k>>] = AuditRowOf(j) /\ r = j.rel /\ k = j.kind
    <3>1. <<r, k>> \in Release \X Event
      BY DEF Event
    <3> QED
      BY <1>2, <3>1, AuditWrite
  <2>5. audit'[<<r, "staged">>] # None => audit'[<<r, "staged">>].prev = None
    BY <1>1, <2>3, <2>4
  <2>6. audit'[<<r, "canary">>] # None => audit'[<<r, "canary">>].prev = "staged"
    BY <1>1, <2>2, <2>3, <2>4 DEF expectedPreviousState
  <2>7. audit'[<<r, "active">>] # None => audit'[<<r, "active">>].prev = "canary"
    BY <1>1, <2>2, <2>3, <2>4 DEF expectedPreviousState
  <2>8. audit'[<<r, "rolled_back">>] # None =>
          audit'[<<r, "rolled_back">>].prev = expectedPreviousState(manifest'[r])
    BY <1>1, <2>1, <2>2, <2>3, <2>4
  <2> QED
    BY <2>5, <2>6, <2>7, <2>8
<1>3. CASE ~WriteAudit(c)
  <2>1. audit' = audit
    BY <1>3, AuditKept
  <2>2. audit[<<r, "rolled_back">>] # None => manifest'[r] = manifest[r]
    <3>1. CASE WriteManifest(c)
      <4>1. audit[<<r, "rolled_back">>] # None =>
              manifest[r] # None /\ manifest[r].state = "rolled_back"
        BY DEF AuditInv, RowsAreTrue, HasLeft, Event
      <4> QED
        BY <3>1, <4>1, ManifestWrite DEF RELEASE_TRANSITIONS
    <3>2. CASE ~WriteManifest(c)
      BY <3>2, ManifestKept
    <3> QED
      BY <3>1, <3>2
  <2> QED
    BY <1>1, <2>1, <2>2
<1> QED
  BY <1>2, <1>3

LEMMA ActiveRowsFitStep ==
  ASSUME TypeOK, LockedInv, FilesInv, AloneInv, NEW c \in Client, ClientStep(c)
  PROVE  ActiveRowsFit'
<1> DEFINE j == job[c]
<1> SUFFICES ASSUME NEW r \in Release, audit'[<<r, "active">>] # None
             PROVE  WasActivated(r)'
  BY DEF ActiveRowsFit
<1>1. CASE audit[<<r, "active">>] # None
  <2>1. WasActivated(r)
    BY <1>1 DEF AloneInv, ActiveRowsFit
  <2> QED
    BY <2>1, ActivatedStays
<1>2. CASE audit[<<r, "active">>] = None
  <2>1. WriteAudit(c)
    BY <1>2, AuditKept
  <2>2. j \in Busy /\ Holds(c) /\ "manifest" \notin j.todo
    BY <2>1, WriteJob
  <2>3. manifest' = manifest /\ <<r, "active">> = <<j.rel, j.kind>>
    BY <1>2, <2>1, AuditWrite DEF Event
  <2>4. /\ manifest[r] = j.next /\ j.next # None
        /\ j.next.state = "active" /\ Sound(j.next)
    BY <2>2, <2>3, NoneIsNoManifest
    DEF LockedInv, ManifestWritten, KindFits, FilesInv, JobSound, Busy, Holds
  <2> QED
    BY <2>3, <2>4 DEF WasActivated, Sound
<1> QED
  BY <1>1, <1>2

LEMMA AloneHolds == ASSUME Alone PROVE Spec => []AloneInv
<1>1. Init => AloneInv
  BY DEF Init, Idle, Event, AloneInv, BasesActivated, PointerActivated, RowsFit,
     ActiveRowsFit, Fresh, KeepsMark, PrevFits, Holds
<1>2. TypeOK /\ WriterHoldsLock /\ LockedInv /\ FilesInv /\ AuditInv /\ AloneInv
        /\ [Next]_vars => AloneInv'
  <2> SUFFICES ASSUME TypeOK, WriterHoldsLock, LockedInv, FilesInv, AuditInv, AloneInv,
                      [Next]_vars
               PROVE  AloneInv'
    OBVIOUS
  <2>1. CASE UNCHANGED vars
    BY <2>1 DEF vars, AloneInv, BasesActivated, PointerActivated, RowsFit,
       ActiveRowsFit, Fresh, KeepsMark, PrevFits, Holds, MarkFits, BaseActivated,
       WasActivated, expectedPreviousState
  <2>2. CASE Next
    <3> PICK c \in Client : ClientStep(c)
      BY <2>2, NextSteps
    <3>1. \A d \in Client : Fresh(d)' /\ KeepsMark(d)' /\ PrevFits(d)'
      BY AloneJobStep DEF Alone
    <3> QED
      BY <3>1, AloneBasesStep, RowsFitStep, ActiveRowsFitStep DEF AloneInv
  <2> QED
    BY <2>1, <2>2
<1> QED
  BY <1>1, <1>2, TypeCorrect, LockIsExclusive, Locked, Files, AuditHolds, PTL DEF Spec

\* One client alone, whatever fails: the row of a finished operation agrees with
\* what a retry of it computes, so an identical retry never conflicts.
THEOREM RetryAgrees ==
  ASSUME Alone
  PROVE  Spec => []RetryAgreesWithAudit
<1>1. TypeOK /\ AloneInv => RetryAgreesWithAudit
  <2> SUFFICES ASSUME TypeOK, AloneInv, NEW r \in Release, manifest[r] # None,
                      audit[<<r, manifest[r].state>>] # None,
                      audit[<<r, manifest[r].state>>].prev # None
               PROVE  audit[<<r, manifest[r].state>>].prev = expectedPreviousState(manifest[r])
    BY DEF RetryAgreesWithAudit
  <2>1. manifest[r].state \in Lifecycle
    BY DEF TypeOK, Manifest
  <2> QED
    BY <2>1 DEF Lifecycle, AloneInv, RowsFit, expectedPreviousState
<1>2. Spec => []AloneInv
  BY AloneHolds
<1> QED
  BY <1>1, <1>2, TypeCorrect, PTL

\* No row is there for anything a release has not gone through: for any number
\* of clients as long as no write throws, and whatever fails if one client works
\* alone.  (Of several clients and a failed write, a rollback retried after the
\* activation it raced with writes a row that denies that activation.)
THEOREM AuditTrue ==
  ASSUME "io" \notin Faults \/ Alone
  PROVE  Spec => []AuditIsTrue
<1>1. TypeOK /\ AuditInv /\ (RollbackRowsFit \/ AloneInv) => AuditIsTrue
  <2> SUFFICES ASSUME TypeOK, AuditInv, RollbackRowsFit \/ AloneInv,
                      NEW r \in Release, NEW e \in Event, Recorded(r, e)
               PROVE  Passed(r, e)
    BY DEF AuditIsTrue
  <2>1. ASSUME ~IsBaseline(r), audit[<<r, "active">>] # None
        PROVE  CameFromActive(r)
    <3>1. CASE RollbackRowsFit
      BY <2>1, <3>1, RollbackRowsTell
    <3>2. CASE AloneInv
      <4>1. audit[<<r, "rolled_back">>] # None =>
              manifest[r] # None /\ manifest[r].state = "rolled_back"
        BY DEF AuditInv, RowsAreTrue, HasLeft, Event
      <4> QED
        BY <2>1, <3>2, <4>1
        DEF AloneInv, RowsFit, ActiveRowsFit, WasActivated, CameFromActive,
            expectedPreviousState
    <3> QED
      BY <3>1, <3>2
  <2> QED
    BY <2>1, RowsTellTruth
<1>2. CASE "io" \notin Faults
  <2>1. Spec => [](AccountedInv /\ RollbackRowsFit)
    BY <1>2, AccountedHolds
  <2> QED
    BY <1>1, <2>1, TypeCorrect, AuditHolds, PTL
<1>3. CASE Alone
  <2>1. Spec => []AloneInv
    BY <1>3, AloneHolds
  <2> QED
    BY <1>1, <2>1, TypeCorrect, AuditHolds, PTL
<1> QED
  BY <1>2, <1>3

\* A rollback that has written everything has moved the pointer away: because no
\* write was lost, or because the client that lost one is the one that goes on.
LEMMA RollbackMoves ==
  ASSUME TypeOK, WriterHoldsLock, LockedInv, FilesInv, AuditInv,
         EffectiveInv \/ AloneInv,
         NEW c \in Client, Holds(c), job[c].todo = {}, job[c].kind = "rolled_back"
  PROVE  pointer.id # job[c].rel
<1> DEFINE j == job[c]
<1>1. j \in Busy /\ j.rel \in Release /\ j.rel # None /\ j.next # None
  BY BusyIsARecord, NoneAssumption, NoneIsNoManifest DEF Holds, Busy
<1>2. manifest[j.rel] = j.next /\ j.next.state = "rolled_back"
  BY DEF LockedInv, ManifestWritten, KindFits, Holds
<1>3. CASE EffectiveInv
  <2>1. Abstract!LInv
    BY <1>3, LockAssumption DEF EffectiveInv, Holds
  <2>2. effLive = pointer.id /\ effState[j.rel] = "rolled_back"
    BY <1>1, <1>2, LockAssumption
    DEF effLive, effState, EffectiveManifest, Pending, Holds
  <2> QED
    BY <1>1, <2>1, <2>2 DEF Abstract!LInv, Abstract!Linked, Abstract!Actives
<1>4. CASE AloneInv
  <2>1. CASE j.next.activated
    <3>1. pointer.id = j.next.base
      BY <2>1 DEF AuditInv, Written
    <3>2. manifest[j.rel].base # j.rel
      BY <1>1, <1>2 DEF FilesInv, ManifestsSound
    <3> QED
      BY <1>2, <3>1, <3>2
  <2>2. CASE ~j.next.activated
    BY <1>1, <1>2, <1>4, <2>2 DEF AloneInv, PointerActivated, WasActivated
  <2> QED
    BY <2>1, <2>2
<1> QED
  BY <1>3, <1>4

\* An operation that returns without an error has put everything in place, for
\* any number of clients as long as no write throws, and whatever fails if one
\* client works alone (several clients and a failed write lose it).
THEOREM SuccessComplete ==
  ASSUME "io" \notin Faults \/ Alone
  PROVE  Spec => []SuccessIsComplete
<1>1. TypeOK /\ WriterHoldsLock /\ LockedInv /\ FilesInv /\ AuditInv
        /\ (EffectiveInv \/ AloneInv) => SuccessIsComplete
  <2> SUFFICES ASSUME TypeOK, WriterHoldsLock, LockedInv, FilesInv, AuditInv,
                      EffectiveInv \/ AloneInv,
                      NEW c \in Client, Holds(c), job[c].todo = {}
               PROVE  LET r == job[c].rel IN
                      /\ audit[<<r, job[c].kind>>] # None
                      /\ manifest[r] = job[c].next
                      /\ CASE job[c].kind = "canary" -> canary.id = r
                           [] job[c].kind = "active" -> pointer.id = r /\ canary.id # r
                           [] job[c].kind = "rolled_back" ->
                                pointer.id # r /\ canary.id # r
                           [] job[c].kind = "baseline_provisioned" -> pointer.id = r
                           [] OTHER -> TRUE
    BY DEF SuccessIsComplete
  <2>1. Written(c) /\ ManifestWritten(c)
    BY DEF AuditInv, LockedInv
  <2> QED
    BY <2>1, RollbackMoves DEF Written, ManifestWritten
<1>2. CASE "io" \notin Faults
  <2>1. Spec => []EffectiveInv
    BY <1>2, Effective
  <2> QED
    BY <1>1, <2>1, TypeCorrect, LockIsExclusive, Locked, Files, AuditHolds, PTL
<1>3. CASE Alone
  <2>1. Spec => []AloneInv
    BY <1>3, AloneHolds
  <2> QED
    BY <1>1, <2>1, TypeCorrect, LockIsExclusive, Locked, Files, AuditHolds, PTL
<1> QED
  BY <1>2, <1>3

\* As long as no write throws, or one client works alone, a rollback that
\* returns without an error leaves the pointer elsewhere.  It takes a failed
\* write and a second client to lose the pointer.
THEOREM RollbackMovesThePointer ==
  ASSUME "io" \notin Faults \/ Alone
  PROVE  Spec => []RollbackMovesPointer
<1>1. SuccessIsComplete => RollbackMovesPointer
  <2> SUFFICES ASSUME SuccessIsComplete, NEW c \in Client, Holds(c),
                      job[c].kind = "rolled_back", job[c].todo = {}, ~job[c].failed
               PROVE  pointer.id # job[c].rel
    BY DEF RollbackMovesPointer
  <2> QED
    BY DEF SuccessIsComplete
<1>2. Spec => []SuccessIsComplete
  BY SuccessComplete
<1> QED
  BY <1>1, <1>2, PTL
=============================================================================
