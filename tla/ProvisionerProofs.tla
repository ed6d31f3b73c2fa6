-------------------------- MODULE ProvisionerProofs --------------------------
(* What the provisioner guarantees for any number of claims and volumes. *)
EXTENDS ProvisionerHistory, TLAPS

\* What holds for the claim c alone: whose the volumes are that its PV and its
\* operation name, and what the operation may assume where it stands.
ClaimInv(c) ==
    /\ pv[c] # NoId => owner[pv[c]] = c /\ state[pv[c]] # "unused"
    /\ vol[c] # NoId => owner[vol[c]] = c /\ state[vol[c]] # "unused"
    /\ pv[c] = NoId <=> claim[c] \in {"pending", "gone"}
    /\ claim[c] = "bound" => pc[c] = "idle" /\ Live(pv[c])
    /\ pc[c] = "idle" => vol[c] = NoId
    /\ pc[c] \in {"idle", "parse", "create"} => polls[c] = 0
    /\ pc[c] \in {"parse", "create"} => claim[c] = "pending" /\ vol[c] = NoId
    /\ pc[c] \in {"read", "cleanup", "save"} =>
        claim[c] = "pending" /\ vol[c] # NoId /\ Live(vol[c]) /\ state[vol[c]] # "in-use"
    /\ pc[c] = "read" => polls[c] < MaxPolls
    /\ pc[c] = "save" => state[vol[c]] = "available" \/ polls[c] = MaxPolls
    /\ pc[c] \in {"client", "delete", "forget"} =>
        /\ vol[c] # NoId
        /\ \/ claim[c] = "released" /\ vol[c] = pv[c]
           \/ claim[c] = "pending" /\ "save" \in Faults
    /\ pc[c] = "forget" => state[vol[c]] = "deleted"

\* The inductive invariant of the provisioner.
IInv == TypeOK /\ \A c \in Claims : ClaimInv(c)

\* A claim whose own variables stay, and whose volumes stay as they are, keeps
\* its part of the invariant: what makes concurrent operations independent.
LEMMA Frame ==
    ASSUME TypeOK, NEW d \in Claims, ClaimInv(d),
           claim'[d] = claim[d], pv'[d] = pv[d],
           pc'[d] = pc[d], vol'[d] = vol[d], polls'[d] = polls[d],
           \A i \in Ids : owner[i] = d /\ state[i] # "unused" =>
                owner'[i] = d /\ state'[i] = state[i]
    PROVE  ClaimInv(d)'
BY ConstantsAssumption DEF TypeOK, ClaimInv, Live

\* The steps of one operation keep the invariant of its claim, and touch no
\* volume of another claim.
LEMMA StepInvariant ==
    ASSUME IInv, NEW c \in Claims, Provision(c) \/ Delete(c) \/ RequestFails(c) \/ Release(c)
    PROVE  IInv'
<1> USE ConstantsAssumption DEF IInv, States, Labels
<1> SUFFICES TypeOK' /\ ClaimInv(c)' /\ \A d \in Claims \ {c} : ClaimInv(d)'
    OBVIOUS
<1> DEFINE Others == \A d \in Claims \ {c} : ClaimInv(d)'
<1>a. ASSUME StartProvision(c) PROVE TypeOK' /\ ClaimInv(c)' /\ Others
  <2>1. TypeOK' /\ ClaimInv(c)'
    BY <1>a DEF TypeOK, ClaimInv, Live, StartProvision, Goto, cinder, kube
  <2>2. Others
    BY <1>a, Frame DEF TypeOK, StartProvision, Goto, cinder, kube
  <2> QED BY <2>1, <2>2
<1>b. ASSUME ParseOptions(c) PROVE TypeOK' /\ ClaimInv(c)' /\ Others
  <2>1. TypeOK' /\ ClaimInv(c)'
    BY <1>b DEF TypeOK, ClaimInv, Live, ParseOptions, Goto, End, cinder, kube
  <2>2. Others
    BY <1>b, Frame DEF TypeOK, ParseOptions, Goto, End, cinder, kube
  <2> QED BY <2>1, <2>2
<1>c. ASSUME Create(c) \/ CreateLost(c) PROVE TypeOK' /\ ClaimInv(c)' /\ Others
  <2>1. TypeOK' /\ ClaimInv(c)'
    BY <1>c DEF TypeOK, ClaimInv, Live, Create, CreateLost, Made, Goto, End, kube
  <2>2. Others
    BY <1>c, Frame DEF TypeOK, Create, CreateLost, Made, Goto, End, kube
  <2> QED BY <2>1, <2>2
<1>d. ASSUME QuotaExceeded(c) \/ ReadFails(c) \/ CleanupFails(c) \/ DeleteRefused(c)
             \/ RequestFails(c)
      PROVE  TypeOK' /\ ClaimInv(c)' /\ Others
  <2>1. TypeOK' /\ ClaimInv(c)'
    BY <1>d DEF TypeOK, ClaimInv, Live, QuotaExceeded, ReadFails, CleanupFails, DeleteRefused,
        RequestFails, Goto, End, cinder, kube
  <2>2. Others
    BY <1>d, Frame DEF TypeOK, QuotaExceeded, ReadFails, CleanupFails, DeleteRefused,
        RequestFails, Goto, End, cinder, kube
  <2> QED BY <2>1, <2>2
<1>e. ASSUME GetCinderVolume(c) PROVE TypeOK' /\ ClaimInv(c)' /\ Others
  <2>1. TypeOK' /\ ClaimInv(c)'
    <3>1. TypeOK'
      BY <1>e DEF TypeOK, ClaimInv, GetCinderVolume, Read, StillCreating, Goto, cinder, kube
    <3>2. polls'[c] = polls[c] + 1 /\ polls[c] \in Nat
      BY <1>e DEF TypeOK, GetCinderVolume, Read
    <3>3. CASE pc'[c] = "read"
      BY <1>e, <3>2, <3>3 DEF TypeOK, ClaimInv, Live, GetCinderVolume, Read, StillCreating, Goto,
          cinder, kube
    <3>4. CASE pc'[c] = "cleanup"
      BY <1>e, <3>4 DEF TypeOK, ClaimInv, Live, GetCinderVolume, Read, Goto, cinder, kube
    <3>5. CASE pc'[c] = "save"
      <4>1. state[vol[c]] = "available" \/ polls[c] + 1 = MaxPolls
        BY <1>e, <3>2, <3>5 DEF TypeOK, ClaimInv, Live, GetCinderVolume, Read, StillCreating, Goto
      <4> QED BY <1>e, <3>5, <4>1 DEF TypeOK, ClaimInv, Live, GetCinderVolume, Read, Goto, cinder, kube
    <3> QED BY <1>e, <3>1, <3>3, <3>4, <3>5 DEF TypeOK, GetCinderVolume, Read, Goto
  <2>2. Others
    BY <1>e, Frame DEF TypeOK, GetCinderVolume, Read, Goto, cinder, kube
  <2> QED BY <2>1, <2>2
<1>f. ASSUME Cleanup(c) PROVE TypeOK' /\ ClaimInv(c)' /\ Others
  <2>1. TypeOK' /\ ClaimInv(c)'
    BY <1>f DEF TypeOK, ClaimInv, Live, Cleanup, Goto, End, kube
  <2>2. Others
    BY <1>f, Frame DEF TypeOK, ClaimInv, Cleanup, Goto, End, kube
  <2> QED BY <2>1, <2>2
<1>g. ASSUME SavePV(c) PROVE TypeOK' /\ ClaimInv(c)' /\ Others
  <2>1. TypeOK' /\ ClaimInv(c)'
    BY <1>g DEF TypeOK, ClaimInv, Live, SavePV, Goto, End, cinder
  <2>2. Others
    BY <1>g, Frame DEF TypeOK, SavePV, Goto, End, cinder
  <2> QED BY <2>1, <2>2
<1>h. ASSUME SaveFails(c) \/ StartDelete(c) \/ DeleteClient(c) \/ Release(c)
      PROVE  TypeOK' /\ ClaimInv(c)' /\ Others
  <2>1. TypeOK' /\ ClaimInv(c)'
    BY <1>h DEF TypeOK, ClaimInv, Live, SaveFails, StartDelete, DeleteClient, Release,
        Goto, cinder, kube
  <2>2. Others
    BY <1>h, Frame DEF TypeOK, SaveFails, StartDelete, DeleteClient, Release, Goto, cinder, kube
  <2> QED BY <2>1, <2>2
<1>i. ASSUME DeleteVolume(c) \/ DeleteLost(c) PROVE TypeOK' /\ ClaimInv(c)' /\ Others
  <2>1. TypeOK' /\ ClaimInv(c)'
    BY <1>i DEF TypeOK, ClaimInv, Live, Deleted, DeleteVolume, DeleteLost, Goto, End, kube
  <2>2. Others
    BY <1>i, Frame DEF TypeOK, ClaimInv, Deleted, DeleteVolume, DeleteLost, Goto, End, kube
  <2> QED BY <2>1, <2>2
<1>j. ASSUME Forget(c) PROVE TypeOK' /\ ClaimInv(c)' /\ Others
  <2>1. TypeOK' /\ ClaimInv(c)'
    BY <1>j DEF TypeOK, ClaimInv, Live, Forget, Goto, End, cinder
  <2>2. Others
    BY <1>j, Frame DEF TypeOK, Forget, Goto, End, cinder
  <2> QED BY <2>1, <2>2
<1> QED
    BY <1>a, <1>b, <1>c, <1>d, <1>e, <1>f, <1>g, <1>h, <1>i, <1>j DEF Provision, Delete

\* No step breaks the invariant.
LEMMA NextInvariant ==
    ASSUME IInv, [Next]_vars
    PROVE  IInv'
<1>1. CASE \E c \in Claims : Provision(c) \/ Delete(c) \/ RequestFails(c) \/ Release(c)
    BY <1>1, StepInvariant
<1>2. ASSUME NEW i \in Ids, CinderCreates(i) PROVE IInv'
  <2>1. TypeOK'
    BY <1>2 DEF IInv, TypeOK, CinderCreates, kube, States
  <2>2. ASSUME NEW c \in Claims PROVE ClaimInv(c)'
    BY <1>2, <2>2, ConstantsAssumption DEF IInv, TypeOK, ClaimInv, Live, CinderCreates, kube
  <2> QED BY <2>1, <2>2 DEF IInv
<1>3. ASSUME NEW i \in Ids, Attach(i) \/ Detach(i) PROVE IInv'
  <2>1. TypeOK'
    BY <1>3 DEF IInv, TypeOK, Attach, Detach, kube, States
  <2>2. ASSUME NEW c \in Claims PROVE ClaimInv(c)'
    <3>1. CASE Attach(i)
      BY <3>1, <2>2, ConstantsAssumption DEF IInv, TypeOK, ClaimInv, Live, Attach, kube
    <3>2. CASE Detach(i)
      BY <3>2, <2>2, ConstantsAssumption DEF IInv, TypeOK, ClaimInv, Live, Detach, kube
    <3> QED BY <1>3, <3>1, <3>2
  <2> QED BY <2>1, <2>2 DEF IInv
<1>4. CASE Crash
    BY <1>4, ConstantsAssumption DEF IInv, TypeOK, ClaimInv, Live, Crash, cinder, kube, Labels
<1>5. CASE UNCHANGED vars
    BY <1>5 DEF IInv, TypeOK, ClaimInv, Live, vars
<1> QED BY <1>1, <1>2, <1>3, <1>4, <1>5 DEF Next

\* IInv holds in every reachable state.
THEOREM InductiveInvariant == Spec => []IInv
<1>1. Init => IInv
    BY ConstantsAssumption DEF Init, IInv, TypeOK, ClaimInv, Live, States, Labels
<1> QED BY <1>1, NextInvariant, PTL DEF Spec

\* Every variable keeps its type: in particular no read loop makes more reads
\* than it is allowed.
THEOREM TypeCorrect == Spec => []TypeOK
<1>1. IInv => TypeOK BY DEF IInv
<1> QED BY <1>1, InductiveInvariant, PTL

\* A PV stands for a volume made for its own claim, and no cleanup or delete
\* takes the volume of a bound claim, whatever fails or crashes.
THEOREM VolumesArePrivate == Spec => []PVBacked
<1>1. IInv => PVBacked BY DEF IInv, ClaimInv, PVBacked
<1> QED BY <1>1, InductiveInvariant, PTL

\* Provision answers a PV for an available volume or after its last read.
THEOREM ReadyOrTimedOut == Spec => []UnreadyOnlyAfterTimeout
<1>1. IInv => UnreadyOnlyAfterTimeout BY DEF IInv, ClaimInv, UnreadyOnlyAfterTimeout
<1> QED BY <1>1, InductiveInvariant, PTL

\* The history variables only watch: their steps are steps of Provisioner.
LEMMA HistoryIsNext ==
    ASSUME [NextH]_varsH
    PROVE  [Next]_vars
BY DEF NextH, varsH, Keep, AbandonAll, Abandon, Unhear, Next, Provision, Delete

\* No step of Keep leaves a volume to nobody.
LEMMA KeepLeavesNone ==
    ASSUME IInv, OrphanedForAReason, Keep
    PROVE  OrphanedForAReason'
<1> USE ConstantsAssumption DEF IInv, TypeOK, OrphanedForAReason, Live
<1>0. UNCHANGED abandoned
  BY DEF Keep
<1>1. ASSUME NEW c \in Claims, StartProvision(c) \/ ParseOptions(c) \/ QuotaExceeded(c)
      PROVE  OrphanedForAReason'
  BY <1>0, <1>1 DEF ClaimInv, StartProvision, ParseOptions, QuotaExceeded, Goto, End, cinder, kube
<1>2. ASSUME NEW c \in Claims, Create(c)
      PROVE  OrphanedForAReason'
  BY <1>0, <1>2 DEF ClaimInv, Create, Made, Goto, kube
<1>3. ASSUME NEW c \in Claims, GetCinderVolume(c) \/ SaveFails(c) \/ DeleteClient(c) \/ Release(c)
      PROVE  OrphanedForAReason'
  BY <1>0, <1>3 DEF GetCinderVolume, Read, SaveFails, DeleteClient, Release, Goto, cinder, kube
<1>4. ASSUME NEW c \in Claims, Cleanup(c) \/ DeleteVolume(c)
      PROVE  OrphanedForAReason'
  BY <1>0, <1>4 DEF ClaimInv, Cleanup, Deleted, DeleteVolume, Goto, End, kube
<1>5. ASSUME NEW c \in Claims, SavePV(c) \/ StartDelete(c) \/ Forget(c)
      PROVE  OrphanedForAReason'
  BY <1>0, <1>5 DEF ClaimInv, SavePV, StartDelete, Forget, Goto, End, cinder, kube
<1>6. ASSUME NEW c \in Claims, claim[c] # "pending", DeleteRefused(c) \/ RequestFails(c)
      PROVE  OrphanedForAReason'
  BY <1>0, <1>6 DEF ClaimInv, DeleteRefused, RequestFails, Goto, End, cinder, kube
<1>7. ASSUME NEW i \in Ids, CinderCreates(i) \/ Attach(i) \/ Detach(i)
      PROVE  OrphanedForAReason'
  BY <1>0, <1>7 DEF CinderCreates, Attach, Detach, kube
<1> QED
  BY <1>1, <1>2, <1>3, <1>4, <1>5, <1>6, <1>7 DEF Keep

\* The failures that leave volumes to nobody say which.
LEMMA AbandonTells ==
    ASSUME IInv, OrphanedForAReason, AbandonAll \/ \E c \in Claims : Abandon(c) \/ Unhear(c)
    PROVE  OrphanedForAReason'
<1> USE ConstantsAssumption DEF IInv, TypeOK, OrphanedForAReason, Live
<1>1. CASE AbandonAll
  BY <1>1 DEF AbandonAll, Crash, cinder, kube
<1>2. ASSUME NEW c \in Claims, Abandon(c)
      PROVE  OrphanedForAReason'
  <2>1. abandoned' = abandoned \cup {i \in Ids : vol[c] = i \/ state'[i] # state[i]}
    BY <1>2 DEF Abandon
  <2>2. CASE CreateLost(c)
    BY <2>1, <2>2 DEF CreateLost, Made, End, Goto, kube
  <2>3. CASE ReadFails(c) \/ CleanupFails(c) \/ DeleteRefused(c) \/ RequestFails(c)
    BY <2>1, <2>3 DEF ReadFails, CleanupFails, DeleteRefused, RequestFails, End, Goto, cinder, kube
  <2> QED
    BY <1>2, <2>2, <2>3 DEF Abandon
<1>3. ASSUME NEW c \in Claims, Unhear(c)
      PROVE  OrphanedForAReason'
  BY <1>3 DEF Unhear, DeleteLost, Deleted, End, Goto, kube
<1> QED
  BY <1>1, <1>2, <1>3

\* Under every fault and for any number of claims and volumes, a volume is orphaned
\* by one of the failures that ProvisionerHistory names, and by nothing else the
\* provisioner, Cinder or the users do.
THEOREM OrphansExplained == SpecH => []OrphanedForAReason
<1>1. InitH => IInv /\ OrphanedForAReason
  BY ConstantsAssumption
     DEF InitH, Init, IInv, TypeOK, ClaimInv, Live, States, Labels, OrphanedForAReason
<1>2. IInv /\ OrphanedForAReason /\ [NextH]_varsH => IInv' /\ OrphanedForAReason'
  <2> SUFFICES ASSUME IInv, OrphanedForAReason, [NextH]_varsH
               PROVE  IInv' /\ OrphanedForAReason'
    OBVIOUS
  <2>1. IInv'
    BY HistoryIsNext, NextInvariant
  <2>2. CASE UNCHANGED varsH
    <3>1. UNCHANGED <<state, owner, pv, vol, abandoned>>
      BY <2>2 DEF varsH, vars
    <3> QED
      BY <2>1, <3>1 DEF OrphanedForAReason, Live
  <2> QED
    BY <2>1, <2>2, KeepLeavesNone, AbandonTells DEF NextH
<1> QED
  BY <1>1, <1>2, PTL DEF SpecH

\* No two PVs name one volume: the bindings under which the flex driver finds a
\* volume by the name of its PV are one to one, whatever fails.
THEOREM PVsNameDistinctVolumes ==
    Spec => [](\A c, d \in Claims : pv[c] = pv[d] /\ pv[c] # NoId => c = d)
<1>1. IInv => \A c, d \in Claims : pv[c] = pv[d] /\ pv[c] # NoId => c = d
    BY DEF IInv, ClaimInv
<1> QED BY <1>1, InductiveInvariant, PTL

\* Every step of an operation is a step of the abstract store or a stutter.
LEMMA OperationRefines ==
    ASSUME IInv, IInv', NEW c \in Claims,
           Provision(c) \/ Delete(c) \/ RequestFails(c) \/ Release(c)
    PROVE  [Store!Next]_Store!vars
<1> USE DEF Store!vars
<1>1. CASE StartProvision(c) \/ ParseOptions(c) \/ QuotaExceeded(c) \/ ReadFails(c)
           \/ SaveFails(c) \/ StartDelete(c) \/ DeleteClient(c) \/ DeleteRefused(c)
           \/ RequestFails(c) \/ GetCinderVolume(c) \/ CleanupFails(c)
    BY <1>1 DEF StartProvision, ParseOptions, QuotaExceeded, ReadFails, SaveFails, StartDelete,
        CleanupFails, DeleteClient, DeleteRefused, RequestFails, GetCinderVolume, Read, Live, cinder, kube
<1>2. CASE Create(c) \/ CreateLost(c)
  <2>1. PICK i \in Ids, s \in {"creating", "available"} : Made(c, i, s)
    BY <1>2 DEF Create, CreateLost
  <2>2. Store!Make(i)
    BY <2>1 DEF Made, Store!Make, Live, IInv, TypeOK, kube
  <2> QED BY <2>2 DEF Store!Next
<1>3. CASE Cleanup(c) \/ DeleteVolume(c) \/ DeleteLost(c)
  <2>1. CASE UNCHANGED state
    BY <1>3, <2>1 DEF Cleanup, Deleted, DeleteVolume, DeleteLost, Live, kube
  <2>2. CASE state' = [state EXCEPT ![vol[c]] = "deleted"]
    <3>1. vol[c] \in Ids /\ Live(vol[c])
      BY <1>3 DEF Cleanup, Deleted, DeleteVolume, DeleteLost, Live, IInv, TypeOK, ClaimInv
    <3>2. \A d \in Claims : pv[d] = vol[c] => claim[d] # "bound"
      BY <1>3, <3>1, ConstantsAssumption
         DEF Cleanup, Deleted, DeleteVolume, DeleteLost, IInv, ClaimInv
    <3>3. Store!Drop(vol[c])
      BY <1>3, <2>2, <3>1, <3>2
         DEF Cleanup, Deleted, DeleteVolume, DeleteLost, Store!Drop, Live, IInv, TypeOK, kube
    <3> QED BY <3>1, <3>3 DEF Store!Next
  <2> QED BY <1>3, <2>1, <2>2 DEF Cleanup, Deleted, DeleteVolume, DeleteLost
<1>4. CASE SavePV(c)
  <2>1. vol[c] \in Ids /\ Live(vol[c]) /\ claim[c] = "pending"
    BY <1>4 DEF SavePV, IInv, TypeOK, ClaimInv
  <2>2. \A d \in Claims : pv[d] # vol[c]
    BY <1>4, <2>1, ConstantsAssumption DEF SavePV, IInv, ClaimInv
  <2>3. Store!Bind(c, vol[c])
    BY <1>4, <2>1, <2>2 DEF SavePV, Store!Bind, Live, cinder
  <2> QED BY <2>1, <2>3 DEF Store!Next
<1>5. CASE Forget(c)
  <2>1. CASE claim[c] = "released"
    <3>1. ~Live(pv[c])
      BY <1>5, <2>1 DEF Forget, IInv, ClaimInv, Live
    <3>2. Store!Forget(c)
      BY <1>5, <2>1, <3>1 DEF Forget, Store!Forget, Live, IInv, TypeOK, cinder
    <3> QED BY <3>2 DEF Store!Next
  <2>2. CASE claim[c] # "released"
    <3>1. pv[c] = NoId
      BY <1>5, <2>2 DEF Forget, IInv, ClaimInv
    <3>2. UNCHANGED <<state, claim, pv>>
      BY <1>5, <2>2, <3>1 DEF Forget, IInv, TypeOK, cinder
    <3> QED BY <3>2 DEF Live
  <2> QED BY <2>1, <2>2
<1>6. CASE Release(c)
    BY <1>6 DEF Release, Store!Next, Store!Release, Live, cinder
<1> QED BY <1>1, <1>2, <1>3, <1>4, <1>5, <1>6 DEF Provision, Delete

\* The request sequences implement the abstract store, for any number of claims
\* and volumes and under every fault.
THEOREM ProvisionerImplementsStore == Spec => ImplementsStore
<1>1. Init => Store!Init
    BY DEF Init, Store!Init, Live
<1>2. IInv /\ IInv' /\ [Next]_vars => [Store!Next]_Store!vars
  <2> SUFFICES ASSUME IInv, IInv', [Next]_vars PROVE [Store!Next]_Store!vars
      OBVIOUS
  <2>1. CASE \E c \in Claims : Provision(c) \/ Delete(c) \/ RequestFails(c) \/ Release(c)
      BY <2>1, OperationRefines
  <2>2. ASSUME NEW i \in Ids, CinderCreates(i) \/ Attach(i) \/ Detach(i)
        PROVE  [Store!Next]_Store!vars
      BY <2>2 DEF CinderCreates, Attach, Detach, Live, IInv, TypeOK, kube, Store!vars
  <2>3. CASE Crash
      BY <2>3 DEF Crash, Live, cinder, kube, Store!vars
  <2>4. CASE UNCHANGED vars
      BY <2>4 DEF vars, Live, Store!vars
  <2> QED BY <2>1, <2>2, <2>3, <2>4 DEF Next
<1> QED BY <1>1, <1>2, InductiveInvariant, PTL DEF Spec, ImplementsStore, Store!Spec

\* An operation leaves the others where they are.
LEMMA OthersStay ==
    ASSUME IInv, NEW c \in Claims, NEW d \in Claims \ {c},
           Provision(d) \/ Delete(d) \/ RequestFails(d) \/ Release(d)
    PROVE  pc'[c] = pc[c] /\ polls'[c] = polls[c]
<1> USE DEF IInv, TypeOK, Goto, End
<1>1. CASE StartProvision(d) \/ ParseOptions(d) \/ QuotaExceeded(d) \/ Create(d) \/ CreateLost(d)
    BY <1>1 DEF StartProvision, ParseOptions, QuotaExceeded, Create, CreateLost
<1>2. CASE GetCinderVolume(d) \/ ReadFails(d) \/ Cleanup(d) \/ CleanupFails(d)
    BY <1>2 DEF GetCinderVolume, Read, ReadFails, Cleanup, CleanupFails
<1>3. CASE SavePV(d) \/ SaveFails(d) \/ RequestFails(d) \/ Release(d)
    BY <1>3 DEF SavePV, SaveFails, RequestFails, Release
<1>4. CASE Delete(d)
    BY <1>4 DEF Delete, StartDelete, DeleteClient, Deleted, DeleteVolume, DeleteLost, DeleteRefused,
                Forget
<1> QED BY <1>1, <1>2, <1>3, <1>4 DEF Provision

\* The steps of an operation lead forward only.
LEMMA OperationGoesForward ==
    ASSUME IInv, NEW c \in Claims, pc[c] # "idle", Provision(c) \/ Delete(c) \/ RequestFails(c)
    PROVE  StepsLeft(c)' < StepsLeft(c)
<1> USE ConstantsAssumption DEF StepsLeft, Goto
<1>1. /\ polls[c] \in Nat /\ MaxPolls \in Nat \ {0} /\ pc[c] \in Labels
      /\ pc[c] = "read" => polls[c] < MaxPolls
      /\ pc[c] = "create" => polls[c] = 0
    BY DEF IInv, TypeOK, ClaimInv
<1>2. pc \in [Claims -> Labels] /\ polls \in [Claims -> 0 .. MaxPolls]
    BY DEF IInv, TypeOK
<1>3. CASE End(c)
  <2>1. pc'[c] = "idle"
    BY <1>2, <1>3 DEF End
  <2> QED BY <1>1, <2>1 DEF Labels
<1>4. ~StartProvision(c) /\ ~StartDelete(c)
    BY DEF StartProvision, StartDelete
<1>5. CASE ParseOptions(c) /\ ~End(c)
  <2>1. pc[c] = "parse" /\ pc'[c] = "create"
    BY <1>2, <1>5 DEF ParseOptions
  <2> QED BY <1>1, <2>1
<1>6. CASE Create(c) /\ ~End(c)
  <2>1. pc[c] = "create" /\ pc'[c] \in {"read", "save"} /\ polls'[c] = 0
    BY <1>1, <1>2, <1>6 DEF Create, Made
  <2> QED BY <1>1, <2>1
<1>7. CASE GetCinderVolume(c)
  <2>1. /\ pc[c] = "read" /\ pc'[c] \in {"read", "cleanup", "save"}
        /\ polls'[c] = polls[c] + 1
    BY <1>1, <1>2, <1>7 DEF GetCinderVolume, Read
  <2> QED BY <1>1, <2>1
<1>8. CASE SaveFails(c)
  <2>1. pc[c] = "save" /\ pc'[c] = "client"
    BY <1>2, <1>8 DEF SaveFails
  <2> QED BY <2>1
<1>9. CASE (DeleteClient(c) \/ DeleteVolume(c)) /\ ~End(c)
  <2>1. \/ pc[c] = "client" /\ pc'[c] = "delete"
        \/ pc[c] = "delete" /\ pc'[c] = "forget"
    BY <1>2, <1>9 DEF DeleteClient, Deleted, DeleteVolume
  <2> QED BY <2>1
<1> QED
    BY <1>3, <1>4, <1>5, <1>6, <1>7, <1>8, <1>9
       DEF Provision, Delete, CreateLost, QuotaExceeded, ReadFails, Cleanup, CleanupFails, SavePV,
           DeleteLost, DeleteRefused, Forget, RequestFails

\* No operation takes more than MaxPolls + 6 steps, under every fault and however
\* the operations interleave.
THEOREM OperationsAreBounded == Spec => OperationsRunOut
<1>1. IInv /\ [Next]_vars =>
        [\A c \in Claims :
            pc[c] # "idle" /\ (pc'[c] # pc[c] \/ polls'[c] # polls[c]) =>
                StepsLeft(c)' < StepsLeft(c)]_vars
  <2> SUFFICES ASSUME IInv, Next, NEW c \in Claims, pc[c] # "idle",
                      pc'[c] # pc[c] \/ polls'[c] # polls[c]
               PROVE  StepsLeft(c)' < StepsLeft(c)
      OBVIOUS
  <2>1. ASSUME NEW d \in Claims, Provision(d) \/ Delete(d) \/ RequestFails(d)
        PROVE  StepsLeft(c)' < StepsLeft(c)
    <3>1. d = c
      BY <2>1, OthersStay
    <3> QED BY <2>1, <3>1, OperationGoesForward
  <2>2. CASE Crash
    <3>1. StepsLeft(c)' = 0
      BY <2>2 DEF Crash, StepsLeft
    <3>2. StepsLeft(c) \in Nat \ {0}
      BY ConstantsAssumption DEF IInv, TypeOK, ClaimInv, Labels, StepsLeft
    <3> QED BY <3>1, <3>2
  <2>3. ~(\E d \in Claims : Release(d)) /\ ~(\E i \in Ids : CinderCreates(i) \/ Attach(i) \/ Detach(i))
    BY DEF Release, CinderCreates, Attach, Detach
  <2> QED BY <2>1, <2>2, <2>3 DEF Next
<1> QED BY <1>1, InductiveInvariant, PTL DEF Spec, OperationsRunOut
=============================================================================
