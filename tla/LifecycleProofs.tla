--------------------------- MODULE LifecycleProofs ---------------------------
(***************************************************************************)
(* Theorems of Lifecycle and of the promises it is made of: each promise   *)
(* holds in the composition, so what it implies by itself holds there too, *)
(* and together they give what no part can give alone.                     *)
(***************************************************************************)
EXTENDS Lifecycle, TLAPS

-----------------------------------------------------------------------------
\* The order that the node side keeps makes the layers stand on each other: any
\* program that implements MountService has this invariant, as NodeMount and
\* DeviceCleanup do (main.go:219-315, 374-422).
THEOREM OrderLayers == Node!Spec => []Node!Layered
<1> USE DEF Node!Layered
<1>1. Node!Init => Node!Layered
  BY DEF Node!Init
<1>2. Node!Layered /\ [Node!Next]_Node!vars => Node!Layered'
  <2> SUFFICES ASSUME Node!Layered, [Node!Next]_Node!vars
               PROVE  Node!Layered'
    OBVIOUS
  <2>1. ASSUME NEW x \in Items, Node!Attach(x) \/ Node!Detach(x) \/ Node!Appear(x)
        PROVE  Node!Layered'
    BY <2>1 DEF Node!Attach, Node!Detach, Node!Appear
  <2>2. ASSUME NEW x \in Items, Node!Mount(x) \/ Node!Bind(x) \/ Node!Unbind(x)
        PROVE  Node!Layered'
    BY <2>2 DEF Node!Mount, Node!Bind, Node!Unbind
  <2>3. ASSUME NEW x \in Items, Node!Unmount(x) \/ Node!Remove(x) \/ Node!End(x)
        PROVE  Node!Layered'
    BY <2>3 DEF Node!Unmount, Node!Remove, Node!End
  <2>4. CASE UNCHANGED Node!vars
    BY <2>4 DEF Node!vars
  <2> QED
    BY <2>1, <2>2, <2>3, <2>4 DEF Node!Next
<1> QED
  BY <1>1, <1>2, PTL DEF Node!Spec

\* What the provisioner promises gives every PV a volume of its own, that exists as
\* long as the claim is bound, and a PV as long as the volume may be needed.
StoreInv ==
    /\ exists \subseteq used /\ used \subseteq Ids
    /\ claim \in [Claims -> {"pending", "bound", "released", "gone"}]
    /\ pv \in [Claims -> Ids \cup {NoId}]
    /\ \A c, d \in Claims : pv[c] = pv[d] /\ pv[c] # NoId => c = d
    /\ \A c \in Claims :
        /\ pv[c] = NoId <=> claim[c] \in {"pending", "gone"}
        /\ claim[c] = "bound" => pv[c] \in exists
        /\ pv[c] # NoId => pv[c] \in used

\* Any program that implements VolumeStore has this invariant, as Provisioner does.
THEOREM StoreKeepsVolumes == Store!Spec => []StoreInv
<1> USE ConstantsAssumption DEF StoreInv
<1>1. Store!Init => StoreInv
  BY DEF Store!Init
<1>2. StoreInv /\ [Store!Next]_Store!vars => StoreInv'
  <2> SUFFICES ASSUME StoreInv, [Store!Next]_Store!vars
               PROVE  StoreInv'
    OBVIOUS
  <2>1. ASSUME NEW i \in Ids, Store!Make(i)
        PROVE  StoreInv'
    BY <2>1 DEF Store!Make
  <2>2. ASSUME NEW i \in Ids, Store!Drop(i)
        PROVE  StoreInv'
    BY <2>2 DEF Store!Drop
  <2>3. ASSUME NEW c \in Claims, NEW i \in Ids, Store!Bind(c, i)
        PROVE  StoreInv'
    BY <2>3 DEF Store!Bind
  <2>4. ASSUME NEW c \in Claims, Store!Release(c) \/ Store!Forget(c)
        PROVE  StoreInv'
    BY <2>4 DEF Store!Release, Store!Forget
  <2>5. CASE UNCHANGED Store!vars
    BY <2>5 DEF Store!vars
  <2> QED
    BY <2>1, <2>2, <2>3, <2>4, <2>5 DEF Store!Next
<1> QED
  BY <1>1, <1>2, PTL DEF Store!Spec

-----------------------------------------------------------------------------
\* In the composition the provisioner keeps its promise, and so does the node side.
THEOREM PartsKeepPromises == Spec => Store!Spec /\ Node!Spec
<1>1. Init => Store!Init /\ Node!Init
  BY DEF Init
<1>2. [Next]_vars => [Store!Next]_Store!vars /\ [Node!Next]_Node!vars
  <2> SUFFICES ASSUME [Next]_vars
               PROVE  [Store!Next]_Store!vars /\ [Node!Next]_Node!vars
    OBVIOUS
  <2> USE DEF store, node, Store!vars, Node!vars
  <2>1. CASE Provisioner
    BY <2>1 DEF Provisioner, Drop, Forget, Store!Next
  <2>2. ASSUME NEW c \in Claims, NameVolume(c)
        PROVE  [Store!Next]_Store!vars /\ [Node!Next]_Node!vars
    BY <2>2 DEF NameVolume
  <2>3. ASSUME NEW n \in Nodes, NEW c \in Claims, Detach(n, c)
        PROVE  [Store!Next]_Store!vars /\ [Node!Next]_Node!vars
    BY <2>3 DEF Detach, Node!Next, Items
  <2>4. ASSUME NEW n \in Nodes, NEW i \in Ids, Attach(n, i)
        PROVE  [Store!Next]_Store!vars /\ [Node!Next]_Node!vars
    BY <2>4 DEF Attach, Node!Next, Items
  <2>5. ASSUME NEW x \in Items, OnNode(x)
        PROVE  [Store!Next]_Store!vars /\ [Node!Next]_Node!vars
    BY <2>5 DEF OnNode, Node!Next
  <2>6. CASE UNCHANGED vars
    BY <2>6 DEF vars
  <2> QED
    BY <2>1, <2>2, <2>3, <2>4, <2>5, <2>6 DEF Next
<1> QED
  BY <1>1, <1>2, PTL DEF Spec, Store!Spec, Node!Spec

\* The link between the parts: a name in the metadata is that of the PV that stands
\* for the volume, and nothing is attached without one.
Linked ==
    /\ name \in [Ids -> Claims \cup {NoName}]
    /\ attached \subseteq Items
    /\ \A i \in Ids : name[i] # NoName => i \in exists /\ pv[name[i]] = i
    /\ \A n \in Nodes, i \in Ids : <<n, i>> \in attached => name[i] # NoName

LEMMA LinkedStep ==
    ASSUME StoreInv, Linked, [Next]_vars
    PROVE  Linked'
<1> USE ConstantsAssumption DEF StoreInv, Linked, store, node, Items
<1>1. ASSUME NEW i \in Ids, Drop(i)
      PROVE  Linked'
  BY <1>1 DEF Drop, AttachedAnywhere, Store!Drop
<1>2. ASSUME NEW c \in Claims, Forget(c)
      PROVE  Linked'
  BY <1>2 DEF Forget, Store!Forget
<1>3. ASSUME UNCHANGED <<name, node>>,
             \/ \E i \in Ids : Store!Make(i)
             \/ \E c \in Claims : Store!Release(c) \/ \E i \in Ids : Store!Bind(c, i)
      PROVE  Linked'
  <2>1. CASE \E i \in Ids : Store!Make(i)
    BY <1>3, <2>1 DEF Store!Make
  <2>2. CASE \E c \in Claims : Store!Release(c)
    BY <1>3, <2>2 DEF Store!Release
  <2>3. CASE \E c \in Claims, i \in Ids : Store!Bind(c, i)
    BY <1>3, <2>3 DEF Store!Bind
  <2> QED
    BY <1>3, <2>1, <2>2, <2>3
<1>4. ASSUME NEW c \in Claims, NameVolume(c)
      PROVE  Linked'
  BY <1>4 DEF NameVolume
<1>5. ASSUME NEW n \in Nodes, NEW i \in Ids, Attach(n, i)
      PROVE  Linked'
  BY <1>5 DEF Attach, Node!Attach
<1>6. ASSUME NEW n \in Nodes, NEW c \in Claims, Detach(n, c)
      PROVE  Linked'
  BY <1>6 DEF Detach, Node!Detach
<1>7. ASSUME NEW x \in Items, OnNode(x)
      PROVE  Linked'
  BY <1>7 DEF OnNode, Node!Appear, Node!Mount, Node!Bind, Node!Unbind, Node!Unmount,
              Node!Remove, Node!End
<1>8. CASE UNCHANGED vars
  BY <1>8 DEF vars
<1> QED
  BY <1>1, <1>2, <1>3, <1>4, <1>5, <1>6, <1>7, <1>8 DEF Next, Provisioner

\* Names and PVs agree in every reachable state of the composition.
THEOREM NamesAgree == Spec => []Linked
<1>1. Init => Linked
  BY DEF Init, Linked, Node!Init, Items
<1>2. StoreInv /\ Linked /\ [Next]_vars => Linked'
  BY LinkedStep
<1> QED
  BY <1>1, <1>2, PartsKeepPromises, StoreKeepsVolumes, PTL DEF Spec

\* detach finds what is attached by the name of its PV, with no assumption on how
\* names and volumes are paired: the provisioner pairs them (main.go:120-121, 330).
THEOREM DetachFindsWhatIsAttached == Spec => []AttachedIsFound
<1>1. StoreInv /\ Linked => AttachedIsFound
  <2> SUFFICES ASSUME StoreInv, Linked,
                      NEW n \in Nodes, NEW i \in Ids, <<n, i>> \in attached
               PROVE  \E c \in Claims : pv[c] = i /\ Matches(c) = {i}
    BY DEF AttachedIsFound
  <2>1. name[i] \in Claims /\ pv[name[i]] = i /\ i \in exists
    BY DEF Linked
  <2>2. Matches(name[i]) = {i}
    BY <2>1, ConstantsAssumption DEF Linked, StoreInv, Matches
  <2> QED
    BY <2>1, <2>2
<1> QED
  BY <1>1, NamesAgree, PartsKeepPromises, StoreKeepsVolumes, PTL

\* No volume vanishes under a mount or passes to another claim, for any number of
\* claims, volumes and nodes.
THEOREM PodsAreSafe == Spec => []PodsKeepVolumes
<1>1. StoreInv /\ Linked /\ Node!Layered => PodsKeepVolumes
  <2> SUFFICES ASSUME StoreInv, Linked, Node!Layered,
                      NEW n \in Nodes, NEW i \in Ids, <<n, i>> \in mounted \cup bound
               PROVE  i \in exists /\ \E c \in Claims : {d \in Claims : pv[d] = i} = {c}
    BY DEF PodsKeepVolumes
  <2>1. <<n, i>> \in attached
    BY DEF Node!Layered
  <2>2. name[i] \in Claims /\ pv[name[i]] = i /\ i \in exists
    BY <2>1 DEF Linked
  <2>3. {d \in Claims : pv[d] = i} = {name[i]}
    BY <2>2, ConstantsAssumption DEF StoreInv
  <2> QED
    BY <2>2, <2>3
<1> QED
  BY <1>1, NamesAgree, OrderLayers, PartsKeepPromises, StoreKeepsVolumes, PTL
=============================================================================
