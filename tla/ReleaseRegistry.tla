--------------------------- MODULE ReleaseRegistry ---------------------------
(***************************************************************************)
(* The file-backed prompt release registry and the operators who drive it: *)
(*   mosaic-ts/src/autoresearch/release_registry.ts                        *)
(*   mosaic-ts/src/autoresearch/prompt_release_manager.ts                  *)
(*   mosaic-ts/src/agents/prompts/prompt_release_contract.ts               *)
(*                                                                         *)
(* A release moves staged -> canary -> active -> rolled_back.  The whole   *)
(* registry is four files: one manifest per release, the active pointer,   *)
(* the canary pointer and an append-only audit.  Each file is replaced     *)
(* atomically, one operation replaces several of them one after the other  *)
(* under a lock file, and before it takes the lock it has read, without    *)
(* it, the manifest its own next manifest is derived from.  Several client *)
(* processes do this at once; a write may fail between two files, and a    *)
(* client may be killed with the lock file in place.                       *)
(*                                                                         *)
(* Simplifications.  Prompt contents, hashes and commits never change      *)
(* after staging and are left out.  All timestamps and measurements an     *)
(* attempt puts into a manifest are one "tag", the client that made it, so *)
(* that the code's JSON equality is equality of records here.  The Gate D  *)
(* check, the SLO rebuild and the git checks of the manager only refuse    *)
(* before the lock is taken: GiveUp covers them.  The canary's traffic     *)
(* share is not modelled.                                                  *)
(***************************************************************************)
EXTENDS Naturals

CONSTANTS
  Release,   \* release ids
  Client,    \* processes running a prompt-release command
  Operator,  \* authorised operators
  Reason,    \* reasons an operator may give for the audit
  None,      \* JSON null
  Faults     \* which of "io" (a write throws) and "kill" (SIGKILL) may happen

ASSUME FaultsAssumption == Faults \subseteq {"io", "kill"}

ASSUME NoneAssumption == None \notin Release \cup Client \cup Operator

Lifecycle == {"staged", "canary", "active", "rolled_back"}

Manifest == [state: Lifecycle, base: Release \cup {None},
             by: Operator \cup {None}, activated: BOOLEAN,
             tag: Client \cup {None}]

ASSUME NoneIsNoManifest == None \notin Manifest

\* The five kinds of audit event, which are also the five operations.
Event == {"staged", "baseline_provisioned", "canary", "active", "rolled_back"}

File == {"manifest", "pointer", "canary", "audit"}

Free == "free"
Orphan == "orphan"      \* the lock file of a client that no longer exists

ASSUME LockAssumption == {Free, Orphan} \cap Client = {}

VARIABLES
  manifest,  \* releases/<hash>.json by release, None when there is no file
  pointer,   \* active-pointer.json
  canary,    \* canary-pointer.json
  audit,     \* release-audit.jsonl: the row of each event, None when absent
  lock,      \* .release.lock: Free, Orphan or the client that holds it
  job        \* what each client is doing

vars == <<manifest, pointer, canary, audit, lock, job>>

Pointer == [id: Release \cup {None}, ver: Nat]
AuditRow == [prev: Lifecycle \cup {None}, ver: Nat \cup {None},
             op: Operator \cup {None}, why: Reason \cup {None}]

ASSUME NoneIsNoAuditRow == None \notin AuditRow

Idle == [phase |-> "idle"]

Job == {Idle} \cup
       [phase: {"loaded", "ready", "writing"}, kind: Event, rel: Release,
        next: Manifest, op: Operator, why: Reason,
        prev: Lifecycle \cup {None}, todo: SUBSET File, failed: BOOLEAN]

TypeOK ==
  /\ manifest \in [Release -> Manifest \cup {None}]
  /\ pointer \in Pointer
  /\ canary \in Pointer
  /\ audit \in [Release \X Event -> AuditRow \cup {None}]
  /\ lock \in Client \cup {Free, Orphan}
  /\ job \in [Client -> Job]

StateOf(r) == IF manifest[r] = None THEN None ELSE manifest[r].state

Init ==
  /\ manifest = [r \in Release |-> None]
  /\ pointer = [id |-> None, ver |-> 0]
  /\ canary = [id |-> None, ver |-> 0]
  /\ audit = [e \in Release \X Event |-> None]
  /\ lock = Free
  /\ job = [c \in Client |-> Idle]

-----------------------------------------------------------------------------
(* The manager, before the lock: read, check, build the next manifest.     *)

Request(c, phase, kind, r, next, op, why) ==
  /\ job[c] = Idle
  /\ job' = [job EXCEPT ![c] =
       [phase |-> phase, kind |-> kind, rel |-> r, next |-> next, op |-> op,
        why |-> why, prev |-> None, todo |-> {}, failed |-> FALSE]]
  /\ UNCHANGED <<manifest, pointer, canary, audit, lock>>

\* A freshly built release carries its own creation time (tag c); a reviewed
\* bootstrap manifest comes from a file, the same at each attempt (tag None),
\* and must name the active release as its base.
Stage(c, r, op, why) ==
  \E tag \in {c, None}:
    /\ tag = None => /\ pointer.id # None
                     /\ StateOf(pointer.id) = "active"
    /\ pointer.id # None => manifest[pointer.id] # None
    /\ Request(c, "ready", "staged", r,
               [state |-> "staged", base |-> pointer.id, by |-> None,
                activated |-> FALSE, tag |-> tag], op, why)

\* The baseline manifest also comes from a reviewed file, already active.
Provision(c, r, op, why) ==
  Request(c, "ready", "baseline_provisioned", r,
          [state |-> "active", base |-> None, by |-> op, activated |-> TRUE,
           tag |-> None], op, why)

StartCanary(c, r, op, why) ==
  /\ manifest[r] # None
  /\ manifest[r].base # None
  /\ \/ /\ manifest[r].state = "canary"          \* retry
        /\ manifest[r].by = op
        /\ Request(c, "loaded", "canary", r, manifest[r], op, why)
     \/ /\ manifest[r].state = "staged"
        /\ Request(c, "loaded", "canary", r,
                   [manifest[r] EXCEPT !.state = "canary", !.by = op,
                                       !.tag = c], op, why)

\* startPromptReleaseCanary resolves the active release after the load.
CheckBaseline(c) ==
  /\ job[c].phase = "loaded"
  /\ pointer.id = job[c].next.base
  /\ StateOf(pointer.id) = "active"
  /\ job' = [job EXCEPT ![c].phase = "ready"]
  /\ UNCHANGED <<manifest, pointer, canary, audit, lock>>

Activate(c, r, op, why) ==
  /\ manifest[r] # None
  /\ manifest[r].by = op
  /\ \/ /\ manifest[r].state = "active"          \* retry
        /\ Request(c, "ready", "active", r, manifest[r], op, why)
     \/ /\ manifest[r].state = "canary"
        /\ Request(c, "ready", "active", r,
                   [manifest[r] EXCEPT !.state = "active",
                                       !.activated = TRUE, !.tag = c],
                   op, why)

Rollback(c, r, op, why) ==
  /\ manifest[r] # None
  /\ \/ /\ manifest[r].state = "rolled_back"     \* retry
        /\ Request(c, "ready", "rolled_back", r, manifest[r], op, why)
     \/ /\ manifest[r].state \in {"canary", "active"}
        /\ Request(c, "ready", "rolled_back", r,
                   [manifest[r] EXCEPT !.state = "rolled_back", !.tag = c],
                   op, why)

Ask(c) ==
  \E r \in Release, op \in Operator, why \in Reason:
    \/ Stage(c, r, op, why)
    \/ Provision(c, r, op, why)
    \/ StartCanary(c, r, op, why)
    \/ Activate(c, r, op, why)
    \/ Rollback(c, r, op, why)

\* Any error before the lock: Gate D frozen, SLO evidence refused, checkout
\* dirty, baseline moved, lock timeout, the command interrupted.
GiveUp(c) ==
  /\ job[c].phase \in {"loaded", "ready"}
  /\ job' = [job EXCEPT ![c] = Idle]
  /\ UNCHANGED <<manifest, pointer, canary, audit, lock>>

-----------------------------------------------------------------------------
(* The registry, under the lock: re-read everything, admit or refuse.      *)

RELEASE_TRANSITIONS ==
  {<<"staged", "canary">>, <<"canary", "active">>,
   <<"canary", "rolled_back">>, <<"active", "rolled_back">>}

\* Mutation: staging replaces an existing manifest.
StageAllowed_Overwrite(j) == TRUE

StageAllowed(j) ==
  \/ manifest[j.rel] = None
  \/ manifest[j.rel] = j.next /\ j.next.tag = None

ProvisionAllowed(j) ==
  /\ pointer.id \in {None, j.rel}
  /\ canary.id = None
  /\ manifest[j.rel] \in {None, j.next}

\* Mutation: a second canary is not refused.
CanaryAllowed_Two(j) ==
  /\ j.next.base # None
  /\ StateOf(j.next.base) = "active"
  /\ pointer.id = j.next.base

CanaryAllowed(j) ==
  /\ canary.id \in {None, j.rel}
  /\ j.next.base # None
  /\ StateOf(j.next.base) = "active"
  /\ pointer.id = j.next.base

\* Mutation: activation without the compare-and-swap on the active pointer.
ActivationAllowed_NoCas(j) == j.next.activated

ActivationAllowed(j) ==
  /\ j.next.activated
  /\ pointer.id \in {j.rel, j.next.base}

\* A rollback of a release that was ever active also restores the pointer.
ActiveRollback(j) ==
  /\ j.kind = "rolled_back"
  /\ manifest[j.rel].state = "active" \/ j.next.activated

RollbackAllowed(j) ==
  ActiveRollback(j) =>
    /\ pointer.id \in {j.rel, j.next.base}
    /\ j.next.base # None => StateOf(j.next.base) = "active"

TransitionAllowed(j) ==
  LET previous == manifest[j.rel] IN
  /\ previous # None
  /\ IF previous.state = j.next.state
     THEN previous = j.next
     ELSE <<previous.state, j.next.state>> \in RELEASE_TRANSITIONS
  /\ previous.base = j.next.base
  /\ previous.state # "staged" => previous.by = j.next.by
  /\ j.kind \in {"canary", "active"} => j.op = j.next.by
  /\ CASE j.kind = "canary" -> CanaryAllowed(j)
       [] j.kind = "active" -> ActivationAllowed(j)
       [] j.kind = "rolled_back" -> RollbackAllowed(j)

Allowed(j) ==
  CASE j.kind = "staged" -> StageAllowed(j)
    [] j.kind = "baseline_provisioned" -> ProvisionAllowed(j)
    [] OTHER -> TransitionAllowed(j)

\* Mutation: a retry writes the audit row only.
Writes_NoRepair(j) ==
  {"audit"}
  \cup {f \in {"manifest", "canary", "pointer"} :
          /\ manifest[j.rel] # j.next
          /\ CASE f = "manifest" -> TRUE
               [] f = "canary" -> IF j.kind = "canary" THEN canary.id # j.rel
                                                       ELSE canary.id = j.rel
               [] OTHER -> \/ /\ j.kind \in {"active", "baseline_provisioned"}
                              /\ pointer.id # j.rel
                           \/ ActiveRollback(j) /\ pointer.id # j.next.base}

\* The files this operation has to replace, decided once under the lock.
Writes(j) ==
  {"audit"}
  \cup {f \in {"manifest"} : manifest[j.rel] # j.next}
  \cup {f \in {"canary"} :
          \/ j.kind = "canary" /\ canary.id # j.rel
          \/ j.kind \in {"active", "rolled_back"} /\ canary.id = j.rel}
  \cup {f \in {"pointer"} :
          \/ /\ j.kind \in {"active", "baseline_provisioned"}
             /\ pointer.id # j.rel
          \/ ActiveRollback(j) /\ pointer.id # j.next.base}

\* Mutation: whether the release had been activated is ignored.
expectedPreviousState_Canary(m) ==
  CASE m.state = "canary" -> "staged"
    [] m.state \in {"active", "rolled_back"} -> "canary"
    [] OTHER -> "staged"

expectedPreviousState(m) ==
  CASE m.state = "canary" -> "staged"
    [] m.state = "active" -> "canary"
    [] m.state = "rolled_back" -> IF m.activated THEN "active" ELSE "canary"
    [] OTHER -> "staged"

\* Mutation: told from the new manifest instead of the one on disk.
PreviousState_FromNext(j) ==
  IF j.kind \in {"staged", "baseline_provisioned"} THEN None
  ELSE expectedPreviousState(j.next)

PreviousState(j) ==
  IF j.kind \in {"staged", "baseline_provisioned"} THEN None
  ELSE IF manifest[j.rel].state = j.next.state
  THEN expectedPreviousState(j.next)
  ELSE manifest[j.rel].state

Admit(c) ==
  /\ job[c].phase = "ready"
  /\ lock = Free
  /\ Allowed(job[c])
  /\ lock' = c
  /\ job' = [job EXCEPT ![c].phase = "writing",
                        ![c].prev = PreviousState(job[c]),
                        ![c].todo = Writes(job[c])]
  /\ UNCHANGED <<manifest, pointer, canary, audit>>

\* The lock is taken and given back; nothing was written.
Refuse(c) ==
  /\ job[c].phase = "ready"
  /\ lock = Free
  /\ ~Allowed(job[c])
  /\ job' = [job EXCEPT ![c] = Idle]
  /\ UNCHANGED <<manifest, pointer, canary, audit, lock>>

-----------------------------------------------------------------------------
(* The writes, one file at a time, in the order of the code: manifest;     *)
(* then, for an activation, active pointer before canary pointer, for a    *)
(* rollback canary pointer before active pointer; the audit row last.      *)

Holds(c) == lock = c /\ job[c].phase = "writing"

Done(c, file) == job' = [job EXCEPT ![c].todo = @ \ {file}]

CanaryTarget(j) == IF j.kind = "canary" THEN j.rel ELSE None

\* Mutation: the pointer is given the manifest instead of the release id.
PointerTarget_Manifest(j) == IF j.kind = "rolled_back" THEN j.next ELSE j.rel

PointerTarget(j) == IF j.kind = "rolled_back" THEN j.next.base ELSE j.rel

WriteManifest(c) ==
  /\ Holds(c)
  /\ "manifest" \in job[c].todo
  /\ manifest' = [manifest EXCEPT ![job[c].rel] = job[c].next]
  /\ Done(c, "manifest")
  /\ UNCHANGED <<pointer, canary, audit, lock>>

WriteCanary(c) ==
  /\ Holds(c)
  /\ "canary" \in job[c].todo
  /\ "manifest" \notin job[c].todo
  /\ job[c].kind = "active" => "pointer" \notin job[c].todo
  /\ canary' = [id |-> CanaryTarget(job[c]), ver |-> canary.ver + 1]
  /\ Done(c, "canary")
  /\ UNCHANGED <<manifest, pointer, audit, lock>>

WritePointer(c) ==
  /\ Holds(c)
  /\ "pointer" \in job[c].todo
  /\ "manifest" \notin job[c].todo
  /\ job[c].kind = "rolled_back" => "canary" \notin job[c].todo
  /\ pointer' = [id |-> PointerTarget(job[c]), ver |-> pointer.ver + 1]
  /\ Done(c, "pointer")
  /\ UNCHANGED <<manifest, canary, audit, lock>>

AuditRowOf(j) ==
  IF j.kind = "staged"
  THEN [prev |-> None, ver |-> None, op |-> None, why |-> None]
  ELSE [prev |-> j.prev, ver |-> pointer.ver, op |-> j.op, why |-> j.why]

\* Mutation: the row is not kept for the end of the operation.
WriteAudit_Early(c) ==
  LET e == <<job[c].rel, job[c].kind>> IN
  /\ Holds(c)
  /\ "audit" \in job[c].todo
  /\ audit' = [audit EXCEPT ![e] = IF @ = None THEN AuditRowOf(job[c]) ELSE @]
  /\ Done(c, "audit")
  /\ UNCHANGED <<manifest, pointer, canary, lock>>

\* appendAudit: a row of the same event id is kept, and must be identical.
WriteAudit(c) ==
  LET e == <<job[c].rel, job[c].kind>> IN
  /\ Holds(c)
  /\ job[c].todo = {"audit"}
  /\ IF audit[e] = None
     THEN audit' = [audit EXCEPT ![e] = AuditRowOf(job[c])]
     ELSE UNCHANGED audit
  /\ job' = [job EXCEPT ![c].todo = {},
                        ![c].failed = audit[e] \notin {None, AuditRowOf(job[c])}]
  /\ UNCHANGED <<manifest, pointer, canary, lock>>

\* The finally block: the operation returns, or throws when it has failed.
Unlock(c) ==
  /\ Holds(c)
  /\ job[c].todo = {}
  /\ lock' = Free
  /\ job' = [job EXCEPT ![c] = Idle]
  /\ UNCHANGED <<manifest, pointer, canary, audit>>

\* Mutation: an error leaves the lock file behind.
IoError_KeepLock(c) ==
  /\ "io" \in Faults
  /\ Holds(c)
  /\ job[c].todo # {}
  /\ job' = [job EXCEPT ![c] = Idle]
  /\ UNCHANGED <<manifest, pointer, canary, audit, lock>>

\* A write throws: the finally block still removes the lock file.
IoError(c) ==
  /\ "io" \in Faults
  /\ Holds(c)
  /\ job[c].todo # {}
  /\ lock' = Free
  /\ job' = [job EXCEPT ![c] = Idle]
  /\ UNCHANGED <<manifest, pointer, canary, audit>>

\* The process dies with the lock file in place: nobody removes it.
Kill(c) ==
  /\ "kill" \in Faults
  /\ Holds(c)
  /\ lock' = Orphan
  /\ job' = [job EXCEPT ![c] = Idle]
  /\ UNCHANGED <<manifest, pointer, canary, audit>>

Command(c) ==
  \/ CheckBaseline(c) \/ GiveUp(c) \/ Admit(c) \/ Refuse(c)
  \/ WriteManifest(c) \/ WriteCanary(c) \/ WritePointer(c) \/ WriteAudit(c)
  \/ Unlock(c)

Next == \E c \in Client: Ask(c) \/ Command(c) \/ IoError(c) \/ Kill(c)

\* A command that was started runs on; no operator has to start one.
Fairness == \A c \in Client: WF_vars(Command(c))

Spec == Init /\ [][Next]_vars
FairSpec == Spec /\ Fairness

-----------------------------------------------------------------------------
(* What the registry promises.                                             *)

\* An operation that returns without an error has put in place everything it
\* is asked for, whatever failed attempts it was a retry of.
SuccessIsComplete ==
  \A c \in Client :
    LET r == job[c].rel IN
    Holds(c) /\ job[c].todo = {} /\ ~job[c].failed =>
      /\ audit[<<r, job[c].kind>>] # None
      /\ manifest[r] = job[c].next
      /\ CASE job[c].kind = "canary" -> canary.id = r
           [] job[c].kind = "active" -> pointer.id = r /\ canary.id # r
           [] job[c].kind = "rolled_back" -> pointer.id # r /\ canary.id # r
           [] job[c].kind = "baseline_provisioned" -> pointer.id = r
           [] OTHER -> TRUE

\* A release that was provisioned as the baseline.  It is active from the
\* start; activating it again is a retry that does no more than add a row.
IsBaseline(r) ==
  manifest[r] # None /\ manifest[r].base = None /\ manifest[r].state # "staged"

Recorded(r, e) == audit[<<r, e>>] # None /\ ~(e = "active" /\ IsBaseline(r))

\* What a release has gone through, told from its manifest.  Of a rolled back
\* release only the row of its rollback knows whether it had been active: its
\* manifest may have been prepared before the activation.
CameFromActive(r) ==
  audit[<<r, "rolled_back">>] # None => audit[<<r, "rolled_back">>].prev = "active"

Passed(r, e) ==
  LET m == manifest[r] IN
  /\ m # None
  /\ CASE e = "staged" -> ~IsBaseline(r)
       [] e = "baseline_provisioned" -> IsBaseline(r)
       [] e = "canary" -> ~IsBaseline(r) /\ m.state # "staged"
       [] e = "active" -> /\ ~IsBaseline(r)
                          /\ \/ m.state = "active"
                             \/ m.state = "rolled_back" /\ CameFromActive(r)
       [] e = "rolled_back" -> m.state = "rolled_back"

\* Whatever fails, there is no row for anything the release has not gone
\* through: the row is written after the files it is about, and the row of a
\* rollback does not deny an activation that has one (appendAudit comes last).
AuditIsTrue == \A r \in Release, e \in Event : Recorded(r, e) => Passed(r, e)

\* Without errors the audit is also complete whenever no operation is under
\* way: a row for everything the release has gone through and for nothing
\* else, among it the activation of a release that was rolled back since, even
\* by a rollback prepared before that activation.
AuditIsComplete ==
  lock = Free => \A r \in Release, e \in Event : Recorded(r, e) <=> Passed(r, e)

\* A rollback that returns without an error leaves the pointer on another
\* release than the one it rolled back.
RollbackMovesPointer ==
  \A c \in Client :
    Holds(c) /\ job[c].kind = "rolled_back" /\ job[c].todo = {}
      /\ ~job[c].failed => pointer.id # job[c].rel

\* The previous state in the row of a finished operation is the one a retry
\* of that operation computes: an identical retry does not conflict with it.
RetryAgreesWithAudit ==
  \A r \in Release :
    lock = Free /\ manifest[r] # None =>
      LET row == audit[<<r, manifest[r].state>>] IN
      row # None /\ row.prev # None => row.prev = expectedPreviousState(manifest[r])

Age == [staged |-> 0, canary |-> 1, active |-> 2, rolled_back |-> 3]

\* Whatever fails, a manifest file only moves along the lifecycle, and its
\* base never changes; a rolled back release is never served again.
LifecycleIsMonotone ==
  [][\A r \in Release :
       manifest[r] # None /\ manifest'[r] # manifest[r] =>
         /\ manifest'[r] # None
         /\ Age[manifest[r].state] < Age[manifest'[r].state]
         /\ manifest[r].state = "staged" => manifest'[r].state = "canary"
         /\ manifest'[r].base = manifest[r].base]_vars

\* Whatever fails, the active pointer moves one release along the lineage:
\* from a base to the active release built on it, or back to that base.
PointerMovesAlongLineage ==
  [][pointer'.id # pointer.id =>
       \/ /\ pointer'.id # None
          /\ manifest[pointer'.id].state = "active"
          /\ manifest[pointer'.id].base = pointer.id
       \/ /\ pointer.id # None
          /\ manifest[pointer.id].state = "rolled_back"
          /\ manifest[pointer.id].base = pointer'.id]_vars

\* Whatever fails, one canary never replaces another, and the canary pointer
\* is cleared only once its release has been activated or rolled back.
CanaryHandover ==
  [][canary.id # None /\ canary'.id # canary.id =>
       /\ canary'.id = None
       /\ StateOf(canary.id) \in {"active", "rolled_back"}]_vars

\* Without faults, the registry implements the atomic life cycle: an operation
\* takes effect when it is admitted, the files it has still to replace count
\* as replaced.
Pending(file) ==
  lock \in Client /\ file \in job[lock].todo

EffectiveManifest(r) ==
  IF Pending("manifest") /\ job[lock].rel = r THEN job[lock].next
                                              ELSE manifest[r]

Promise == INSTANCE ReleaseLifecycle WITH
  state <- [r \in Release |-> IF EffectiveManifest(r) = None
                             THEN "absent" ELSE EffectiveManifest(r).state],
  base <- [r \in Release |-> IF EffectiveManifest(r) = None
                            THEN None ELSE EffectiveManifest(r).base],
  live <- IF Pending("pointer") THEN PointerTarget(job[lock]) ELSE pointer.id,
  trial <- IF Pending("canary") THEN CanaryTarget(job[lock]) ELSE canary.id

ImplementsLifecycle == Promise!LSpec

\* A command that has the lock lets go of it, also when a write throws; a
\* killed one leaves the lock to nobody.
LockIsReleased == lock \in Client ~> lock \notin Client
=============================================================================
