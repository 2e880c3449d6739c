--------------------------- MODULE ReleaseLifecycle ---------------------------
(***************************************************************************)
(* What the prompt release registry promises, as if each operation were    *)
(* one atomic step: one live release at a time, one release on trial (the  *)
(* canary) beside it, and a rollback that restores the release it replaced.*)
(* ReleaseRegistry implements this with four files and a lock.             *)
(***************************************************************************)
EXTENDS Naturals

CONSTANTS Release, None

\* What the theorems ask of the constants.
NoneIsNoRelease == None \notin Release

VARIABLES
  state,  \* "absent" or the lifecycle state of each release
  base,   \* the release each one was built on
  live,   \* the release all runs use
  trial   \* the release a share of the runs tries instead

lvars == <<state, base, live, trial>>

State == {"absent", "staged", "canary", "active", "rolled_back"}

LTypeOK ==
  /\ state \in [Release -> State]
  /\ base \in [Release -> Release \cup {None}]
  /\ live \in Release \cup {None}
  /\ trial \in Release \cup {None}

LInit ==
  /\ state = [r \in Release |-> "absent"]
  /\ base = [r \in Release |-> None]
  /\ live = None
  /\ trial = None

\* A new release is built on one that is live, or was when it was read.
Stage(r, b) ==
  /\ state[r] = "absent"
  /\ b # None => state[b] \in {"active", "rolled_back"}
  /\ state' = [state EXCEPT ![r] = "staged"]
  /\ base' = [base EXCEPT ![r] = b]
  /\ UNCHANGED <<live, trial>>

Provision(r) ==
  /\ state[r] = "absent"
  /\ live = None
  /\ trial = None
  /\ state' = [state EXCEPT ![r] = "active"]
  /\ live' = r
  /\ UNCHANGED <<base, trial>>

StartCanary(r) ==
  /\ state[r] = "staged"
  /\ trial = None
  /\ live # None
  /\ live = base[r]
  /\ state' = [state EXCEPT ![r] = "canary"]
  /\ trial' = r
  /\ UNCHANGED <<base, live>>

Activate(r) ==
  /\ trial = r
  /\ live = base[r]
  /\ state' = [state EXCEPT ![r] = "active"]
  /\ live' = r
  /\ trial' = None
  /\ UNCHANGED base

RollbackCanary(r) ==
  /\ trial = r
  /\ state' = [state EXCEPT ![r] = "rolled_back"]
  /\ trial' = None
  /\ UNCHANGED <<base, live>>

RollbackLive(r) ==
  /\ live = r
  /\ state' = [state EXCEPT ![r] = "rolled_back"]
  /\ live' = base[r]
  /\ UNCHANGED <<base, trial>>

LNext ==
  \E r \in Release:
    \/ \E b \in Release \cup {None} : Stage(r, b)
    \/ Provision(r)
    \/ StartCanary(r)
    \/ Activate(r)
    \/ RollbackCanary(r)
    \/ RollbackLive(r)

LSpec == LInit /\ [][LNext]_lvars

-----------------------------------------------------------------------------
Actives == {r \in Release : state[r] = "active"}

\* The live release is an active one, each active release was built on an active
\* one, and each but the live one has exactly one active release built on it.
Linked ==
  /\ live = None => Actives = {}
  /\ live # None => live \in Actives
  /\ \A r \in Actives :
       /\ base[r] \in Actives \cup {None}
       /\ base[r] # live
       /\ r = live \/ \E s \in Actives : base[s] = r
       /\ \A s \in Actives : base[s] = base[r] => s = r

\* No set of active releases is closed under taking the base.
Acyclic == \A S \in SUBSET Actives : S # {} => \E r \in S : base[r] \notin S

\* The active releases are one chain of bases that ends in the live one, so that
\* a rollback of the live release always has an active release to restore.
LiveChain == Linked /\ Acyclic

\* There is never a second canary: the release on trial is the one in canary.
OneTrial == \A r \in Release : state[r] = "canary" <=> trial = r
=============================================================================
