------------------------ MODULE ReleaseLifecycle_proofs ------------------------
(* The chain of active releases and the single canary, for any releases.   *)
EXTENDS ReleaseLifecycle, TLAPS

\* A release that does not exist yet has no base.
AbsentHasNoBase == \A r \in Release : state[r] = "absent" => base[r] = None

LInv == LTypeOK /\ Linked /\ Acyclic /\ OneTrial /\ AbsentHasNoBase

LEMMA InitLInv ==
  ASSUME NoneIsNoRelease, LInit
  PROVE  LInv
BY DEF NoneIsNoRelease, LInit, LInv, LTypeOK, Linked, Acyclic, OneTrial,
   AbsentHasNoBase, Actives, State

LEMMA StageLInv ==
  ASSUME NoneIsNoRelease, LInv, NEW r \in Release, NEW b \in Release \cup {None}, Stage(r, b)
  PROVE  LInv'
<1>1. LTypeOK'
  BY DEF Stage, LInv, LTypeOK, State
<1>2. /\ Actives' = Actives
      /\ \A s \in Actives : base'[s] = base[s]
  BY DEF Stage, LInv, LTypeOK, Actives
<1>3. Linked'
  BY <1>2 DEF Stage, LInv, Linked
<1>4. Acyclic'
  BY <1>2 DEF LInv, Acyclic
<1>5. OneTrial' /\ AbsentHasNoBase'
  BY DEF Stage, LInv, LTypeOK, OneTrial, AbsentHasNoBase, State
<1>6. QED
  BY <1>1, <1>3, <1>4, <1>5 DEF LInv

LEMMA ProvisionLInv ==
  ASSUME NoneIsNoRelease, LInv, NEW r \in Release, Provision(r)
  PROVE  LInv'
<1>1. LTypeOK'
  BY DEF Provision, LInv, LTypeOK, State
<1>2. Actives' = {r} /\ base'[r] = None /\ live' = r
  BY DEF Provision, LInv, LTypeOK, Linked, Actives, AbsentHasNoBase
<1>3. Linked' /\ Acyclic'
  BY <1>2 DEF NoneIsNoRelease, Linked, Acyclic
<1>4. OneTrial' /\ AbsentHasNoBase'
  BY DEF NoneIsNoRelease, Provision, LInv, LTypeOK, OneTrial, AbsentHasNoBase, State
<1>5. QED
  BY <1>1, <1>3, <1>4 DEF LInv

LEMMA StartCanaryLInv ==
  ASSUME NoneIsNoRelease, LInv, NEW r \in Release, StartCanary(r)
  PROVE  LInv'
<1>1. LTypeOK'
  BY DEF StartCanary, LInv, LTypeOK, State
<1>2. Actives' = Actives /\ base' = base /\ live' = live
  BY DEF StartCanary, LInv, LTypeOK, Actives
<1>3. Linked' /\ Acyclic'
  BY <1>2 DEF LInv, Linked, Acyclic
<1>4. OneTrial' /\ AbsentHasNoBase'
  BY DEF NoneIsNoRelease, StartCanary, LInv, LTypeOK, OneTrial, AbsentHasNoBase, State
<1>5. QED
  BY <1>1, <1>3, <1>4 DEF LInv

LEMMA ActivateLInv ==
  ASSUME NoneIsNoRelease, LInv, NEW r \in Release, Activate(r)
  PROVE  LInv'
<1>1. LTypeOK'
  BY DEF Activate, LInv, LTypeOK, State
<1>2. state[r] = "canary"
  BY DEF Activate, LInv, OneTrial
<1>3. /\ Actives' = Actives \cup {r}
      /\ r \notin Actives
      /\ base' = base
      /\ live' = r
      /\ base[r] = live
  BY <1>2 DEF Activate, LInv, LTypeOK, Actives
<1>4. \A s \in Actives : base[s] # r
  BY <1>3 DEF NoneIsNoRelease, LInv, Linked
<1>5. base[r] # r
  BY <1>3 DEF NoneIsNoRelease, LInv, Linked
<1>6. Linked'
  BY <1>3, <1>4, <1>5 DEF NoneIsNoRelease, LInv, LTypeOK, Linked
<1>7. Acyclic'
  <2> SUFFICES ASSUME NEW S \in SUBSET (Actives \cup {r}), S # {}
               PROVE  \E s \in S : base[s] \notin S
    BY <1>3 DEF Acyclic
  <2>1. CASE S = {r}
    BY <2>1, <1>5
  <2>2. CASE S # {r}
    <3>1. S \ {r} \in SUBSET Actives /\ S \ {r} # {}
      BY <2>2
    <3>2. PICK s \in S \ {r} : base[s] \notin S \ {r}
      BY <3>1 DEF LInv, Acyclic
    <3>3. base[s] # r
      BY <3>1, <3>2, <1>4
    <3> QED
      BY <3>2, <3>3
  <2> QED
    BY <2>1, <2>2
<1>8. OneTrial' /\ AbsentHasNoBase'
  BY <1>2 DEF NoneIsNoRelease, Activate, LInv, LTypeOK, OneTrial, AbsentHasNoBase, State
<1>9. QED
  BY <1>1, <1>6, <1>7, <1>8 DEF LInv

LEMMA RollbackCanaryLInv ==
  ASSUME NoneIsNoRelease, LInv, NEW r \in Release, RollbackCanary(r)
  PROVE  LInv'
<1>1. LTypeOK'
  BY DEF RollbackCanary, LInv, LTypeOK, State
<1>2. state[r] = "canary"
  BY DEF RollbackCanary, LInv, OneTrial
<1>3. Actives' = Actives /\ base' = base /\ live' = live
  BY <1>2 DEF RollbackCanary, LInv, LTypeOK, Actives
<1>4. Linked' /\ Acyclic'
  BY <1>3 DEF LInv, Linked, Acyclic
<1>5. OneTrial' /\ AbsentHasNoBase'
  BY <1>2 DEF NoneIsNoRelease, RollbackCanary, LInv, LTypeOK, OneTrial, AbsentHasNoBase, State
<1>6. QED
  BY <1>1, <1>4, <1>5 DEF LInv

LEMMA RollbackLiveLInv ==
  ASSUME NoneIsNoRelease, LInv, NEW r \in Release, RollbackLive(r)
  PROVE  LInv'
<1>1. LTypeOK'
  BY DEF RollbackLive, LInv, LTypeOK, State
<1>2. r \in Actives
  BY DEF NoneIsNoRelease, RollbackLive, LInv, Linked
<1>3. /\ Actives' = Actives \ {r}
      /\ base' = base
      /\ live = r
      /\ live' = base[r]
  BY DEF RollbackLive, LInv, LTypeOK, Actives
<1>4. Acyclic'
  BY <1>3 DEF LInv, Acyclic
<1>5. ASSUME base[r] = None PROVE Actives \ {r} = {}
  <2> SUFFICES ASSUME Actives \ {r} # {} PROVE FALSE
    OBVIOUS
  <2>1. PICK s \in Actives \ {r} : base[s] \notin Actives \ {r}
    BY DEF LInv, Acyclic
  <2>2. base[s] = None
    BY <2>1, <1>3 DEF LInv, Linked
  <2> QED
    BY <2>1, <2>2, <1>2, <1>5 DEF LInv, Linked
<1>6. Linked'
  BY <1>2, <1>3, <1>5 DEF LInv, Linked
<1>7. OneTrial' /\ AbsentHasNoBase'
  BY <1>2 DEF NoneIsNoRelease, RollbackLive, LInv, LTypeOK, OneTrial, AbsentHasNoBase, State, Actives
<1>8. QED
  BY <1>1, <1>4, <1>6, <1>7 DEF LInv

LEMMA StepLInv ==
  ASSUME NoneIsNoRelease, LInv, [LNext]_lvars
  PROVE  LInv'
<1>1. CASE UNCHANGED lvars
  BY <1>1 DEF lvars, LInv, LTypeOK, Linked, Acyclic, OneTrial, AbsentHasNoBase, Actives
<1>2. ASSUME NEW r \in Release, NEW b \in Release \cup {None}, Stage(r, b)
      PROVE  LInv'
  BY <1>2, StageLInv
<1>3. ASSUME NEW r \in Release,
             \/ Provision(r) \/ StartCanary(r) \/ Activate(r)
             \/ RollbackCanary(r) \/ RollbackLive(r)
      PROVE  LInv'
  BY <1>3, ProvisionLInv, StartCanaryLInv, ActivateLInv, RollbackCanaryLInv,
     RollbackLiveLInv
<1> QED
  BY <1>1, <1>2, <1>3 DEF LNext

\* Any number of releases: the invariant holds in every reachable state.
THEOREM LifecycleInvariant ==
  ASSUME NoneIsNoRelease
  PROVE  LSpec => []LInv
<1>1. LInit => LInv
  BY InitLInv
<1>2. LInv /\ [LNext]_lvars => LInv'
  BY StepLInv
<1>3. QED
  BY <1>1, <1>2, PTL DEF LSpec

\* The active releases always form one unforked chain that ends in the live
\* release, so a rollback always finds an active release to restore.
THEOREM LiveChainHolds ==
  ASSUME NoneIsNoRelease
  PROVE  LSpec => []LiveChain
<1>1. LInv => LiveChain
  BY DEF LInv, LiveChain
<1> QED
  BY <1>1, LifecycleInvariant, PTL

\* At most one release is ever in canary, and it is the one on trial.
THEOREM OneTrialHolds ==
  ASSUME NoneIsNoRelease
  PROVE  LSpec => []OneTrial
<1>1. LInv => OneTrial
  BY DEF LInv
<1> QED
  BY <1>1, LifecycleInvariant, PTL
=============================================================================
