--------------------------- MODULE ClusterProofs ---------------------------
(***************************************************************************)
(* The autoscaler never makes the cluster smaller than it was set up, for  *)
(* any number of nodes, executions and failures, and for one loop or two,  *)
(* waits for ever only over names of both, and never takes a busy cluster  *)
(* for an idle one; executions implement Execution also while nodes come   *)
(* and go.                                                                 *)
(***************************************************************************)
EXTENDS ClusterProperties, ExecutionProofs, WellFoundedInduction

\* The part of a loop's state that the count depends on.
Counts(s) ==
  /\ s.pc \in {"off", "info", "pick", "delete", "boot", "wait", "join"}
  /\ s.provision \in Nat
  /\ s.vm \in Nat
  /\ s.vm >= FirstVm
  /\ DOMAIN s = {"pc", "duration", "provision", "vm", "victim"}

\* A deletion is only on its way when a boot is left to make up for it.
Covered(s) ==
  /\ s.pc \in {"pick", "delete"} => s.provision > 0
  /\ s.pc = "boot" => s.vm <= LastVm

LoopOK(l) == Counts(scaler[l]) /\ Covered(scaler[l])

\* A VM that was booted has its name from a loop, and two VMs of a name have it
\* from both: the name a loop boots next is not its own already.
Names ==
  /\ \A n \in vms \ Seed : \E l \in Loops : Named(l, n)
  /\ \A n \in doubled : \A l \in Loops : Named(l, n)

Finite ==
  /\ vms \subseteq Nodes /\ IsFiniteSet(vms)
  /\ doubled \subseteq vms
  /\ scaler = [l \in Loops |-> scaler[l]]

SizeInv ==
  /\ Finite
  /\ \A l \in Loops : LoopOK(l)
  /\ Names
  /\ NeverBelowSeed

----------------------------------------------------------------------------
(* Counting. *)

\* doubled is finite, too, and all counts are numbers.
LEMMA CountsAreNumbers ==
  ASSUME Finite, \A l \in Loops : LoopOK(l)
  PROVE  /\ Cardinality(vms) \in Nat /\ Cardinality(Seed) \in Nat
         /\ IsFiniteSet(doubled) /\ Cardinality(doubled) \in Nat
         /\ \A l \in Loops : Owed(l) \in Nat
<1>1. IsFiniteSet(doubled)
  BY FS_Subset DEF Finite
<1>2. \A l \in Loops : Owed(l) \in Nat
  BY DEF LoopOK, Counts, Owed
<1> QED
  BY <1>1, <1>2, FS_CardinalityType, SwarmAssumption DEF Finite

\* The promise, seen from a loop and from the other.
LEMMA TwoLoops ==
  ASSUME NEW l \in Loops
  PROVE  /\ 3 - l \in Loops /\ 3 - l # l
         /\ \A k \in Loops : k = l \/ k = 3 - l
BY DEF Loops

\* What a loop owes after a step in which it goes on as s.
OwedBy(s) == s.provision + IF s.pc \in {"wait", "join"} THEN 1 ELSE 0

\* A step of loop l that changes the number of VMs by at least as much as what
\* the loop owes keeps the promise.
LEMMA PromiseKept ==
  ASSUME SizeInv, NEW l \in Loops, NEW s, Becomes(l, s), Counts(s), Covered(s),
         vms' \subseteq Nodes, IsFiniteSet(vms'), doubled' \subseteq vms',
         Cardinality(vms') + Cardinality(doubled') + Owed(l)
           >= Cardinality(vms) + Cardinality(doubled) + OwedBy(s)
  PROVE  /\ Finite' /\ (\A k \in Loops : LoopOK(k)') /\ NeverBelowSeed'
         /\ scaler'[l] = s /\ scaler'[3 - l] = scaler[3 - l]
<1> USE DEF SizeInv
<1>1. /\ scaler'[l] = s /\ scaler' = [k \in Loops |-> scaler'[k]]
      /\ \A k \in Loops \ {l} : scaler'[k] = scaler[k]
  BY DEF Becomes, Finite
<1>2. scaler'[3 - l] = scaler[3 - l]
  BY <1>1, TwoLoops
<1>3. Finite'
  BY <1>1 DEF Finite
<1>4. ASSUME NEW k \in Loops PROVE LoopOK(k)'
  <2>1. CASE k = l
    BY <1>1, <2>1 DEF LoopOK
  <2>2. CASE k # l
    BY <1>1, <2>2 DEF LoopOK
  <2> QED
    BY <2>1, <2>2
<1>5. Owed(l)' = OwedBy(s) /\ Owed(3 - l)' = Owed(3 - l)
  BY <1>1, <1>2 DEF Owed, OwedBy
<1>6. /\ Cardinality(vms) \in Nat /\ Cardinality(Seed) \in Nat
      /\ Cardinality(doubled) \in Nat
      /\ Owed(l) \in Nat /\ Owed(3 - l) \in Nat
  BY CountsAreNumbers, TwoLoops
<1>7. /\ Cardinality(vms') \in Nat /\ Cardinality(doubled') \in Nat
      /\ OwedBy(s) \in Nat
  <2>1. IsFiniteSet(doubled')
    BY FS_Subset
  <2> QED
    BY <2>1, FS_CardinalityType DEF Counts, OwedBy
<1>8. Owed(1) + Owed(2) = Owed(l) + Owed(3 - l)
  <2>1. CASE l = 1
    BY <2>1, <1>6
  <2>2. CASE l = 2
    BY <2>2, <1>6
  <2> QED
    BY <2>1, <2>2 DEF Loops
<1>9. Owed(1)' + Owed(2)' = OwedBy(s) + Owed(3 - l)
  <2>1. CASE l = 1
    BY <2>1, <1>5, <1>6, <1>7
  <2>2. CASE l = 2
    BY <2>2, <1>5, <1>6, <1>7
  <2> QED
    BY <2>1, <2>2 DEF Loops
<1>10. NeverBelowSeed'
  <2>1. Cardinality(vms) + Cardinality(doubled)
          >= Cardinality(Seed) + (Owed(l) + Owed(3 - l))
    <3>1. Owed(1) \in Nat /\ Owed(2) \in Nat
      BY CountsAreNumbers DEF Loops
    <3> QED
      BY <1>6, <1>8, <3>1 DEF NeverBelowSeed
  <2>2. Cardinality(vms') + Cardinality(doubled')
          >= Cardinality(Seed) + (OwedBy(s) + Owed(3 - l))
    BY <2>1, <1>6, <1>7
  <2>3. Owed(1)' \in Nat /\ Owed(2)' \in Nat
    BY <1>4 DEF LoopOK, Counts, Owed, Loops
  <2>4. /\ Cardinality(vms)' = Cardinality(vms')
        /\ Cardinality(doubled)' = Cardinality(doubled')
        /\ Cardinality(Seed)' = Cardinality(Seed)
    OBVIOUS
  <2> QED
    BY <1>6, <1>7, <1>9, <2>2, <2>3, <2>4 DEF NeverBelowSeed
<1> QED
  BY <1>1, <1>2, <1>3, <1>4, <1>10

\* No name is forgotten by a loop that goes on with a number as high.
LEMMA NamesKept ==
  ASSUME SizeInv, NEW l \in Loops, NEW s, Counts(s),
         scaler'[l] = s, scaler'[3 - l] = scaler[3 - l],
         \/ /\ s.vm = scaler[l].vm
            /\ scaler[l].pc \in {"wait", "join"} => s.pc \in {"wait", "join"}
         \/ s.vm > scaler[l].vm,
         vms' \subseteq vms, doubled' \subseteq doubled
  PROVE  Names'
<1> USE DEF SizeInv
<1>1. vms \subseteq Nat /\ doubled \subseteq Nat
  BY SwarmAssumption DEF Finite
<1>2. scaler[l].vm \in Nat /\ s.vm \in Nat
  BY DEF LoopOK, Counts
<1>3. ASSUME NEW n \in Nat, NEW k \in Loops, Named(k, n)
      PROVE  Named(k, n)'
  <2>1. CASE k = l
    BY <1>2, <1>3, <2>1 DEF Named
  <2>2. CASE k = 3 - l
    BY <1>3, <2>2 DEF Named
  <2> QED
    BY <2>1, <2>2, TwoLoops
<1> QED
  BY <1>1, <1>3 DEF Names

----------------------------------------------------------------------------
LEMMA SizeInvInit == ClusterInit => SizeInv
<1> SUFFICES ASSUME ClusterInit PROVE SizeInv
  OBVIOUS
<1>1. vms = Seed /\ Seed \subseteq Nodes /\ IsFiniteSet(Seed) /\ doubled = {}
  BY SwarmAssumption DEF ClusterInit, SwarmInit
<1>2. Cardinality(Seed) \in Nat /\ Cardinality(doubled) = 0
  BY <1>1, FS_CardinalityType, FS_EmptySet
<1>3. /\ scaler = [l \in Loops |-> scaler[l]]
      /\ \A l \in Loops : LoopOK(l) /\ Owed(l) = 0
  BY ScalerAssumption DEF ClusterInit, ScalerInit, LoopOK, Counts, Covered, Owed
<1>4. NeverBelowSeed
  <2>1. Owed(1) = 0 /\ Owed(2) = 0
    BY <1>3 DEF Loops
  <2> QED
    BY <1>1, <1>2, <2>1 DEF NeverBelowSeed
<1> QED
  BY <1>1, <1>3, <1>4 DEF SizeInv, Finite, Names

\* Neither the executions nor the discovery touch VMs or the loops.
LEMMA OthersLeaveVms ==
  ASSUME \/ \E e \in Runs, f \in FileNames, m \in Memories : Arrive(e, f, m)
         \/ ListenerStops
         \/ ExecNext
         \/ DiscoveryStep
  PROVE  vms' = vms /\ doubled' = doubled
<1>1. ASSUME NEW e \in Runs, ExecStep(e)
      PROVE  vms' = vms /\ doubled' = doubled
  BY <1>1 DEF ExecStep, ThreadStep, ScriptStep, ScriptCreates,
     ScriptInspects, ScriptCopies, ScriptWrites, ScriptStarts,
     ScriptExecutes, ScriptReturns, ScriptStops, ScriptRemoves, swarmVars,
     nodeVars
<1>2. CASE ExecNext
  BY <1>1, <1>2 DEF ExecNext
<1>3. CASE \E e \in Runs, f \in FileNames, m \in Memories : Arrive(e, f, m)
  BY <1>3 DEF Arrive, swarmVars, nodeVars
<1>4. CASE ListenerStops
  BY <1>4 DEF ListenerStops, swarmVars, nodeVars
<1>5. CASE DiscoveryStep
  BY <1>5 DEF DiscoveryStep, ListNode, UnlistNode
<1> QED
  BY <1>2, <1>3, <1>4, <1>5

\* A step of a loop that leaves its count, its number and the VMs alone.
LEMMA LookingStep ==
  ASSUME SizeInv, NEW l \in Loops,
         Observe(l) \/ Pick(l) \/ Address(l) \/ (l = 2 /\ StartAgain)
  PROVE  SizeInv'
<1> DEFINE o == scaler[l]
<1>1. Counts(o) /\ Covered(o)
  BY DEF SizeInv, LoopOK
<1>2. vms' = vms /\ doubled' = doubled
  BY DEF Observe, Pick, Address, StartAgain, swarmVars, nodeVars
<1>3. \E s : /\ Becomes(l, s) /\ Counts(s) /\ Covered(s)
             /\ s.vm = o.vm /\ s.provision = o.provision
             /\ o.pc \in {"wait", "join"} <=> s.pc \in {"wait", "join"}
  <2> USE DEF Counts, Covered
  <2>1. CASE Pick(l)
    <3>1. \E v : Becomes(l, [o EXCEPT !.pc = "delete", !.victim = v])
                 \/ Becomes(l, [o EXCEPT !.pc = "info"])
      BY <2>1 DEF Pick
    <3>2. PICK v : Becomes(l, [o EXCEPT !.pc = "delete", !.victim = v])
                   \/ Becomes(l, [o EXCEPT !.pc = "info"])
      BY <3>1
    <3>3. o.pc = "pick"
      BY <2>1 DEF Pick
    <3> HIDE DEF o
    <3>4. CASE Becomes(l, [o EXCEPT !.pc = "delete", !.victim = v])
      <4> DEFINE s == [o EXCEPT !.pc = "delete", !.victim = v]
      <4>1. /\ Counts(s) /\ Covered(s) /\ s.pc = "delete"
            /\ s.vm = o.vm /\ s.provision = o.provision
        BY <1>1, <3>3
      <4> QED
        BY <3>3, <3>4, <4>1
    <3>5. CASE Becomes(l, [o EXCEPT !.pc = "info"])
      <4> DEFINE s == [o EXCEPT !.pc = "info"]
      <4>1. /\ Counts(s) /\ Covered(s) /\ s.pc = "info"
            /\ s.vm = o.vm /\ s.provision = o.provision
        BY <1>1, <3>3
      <4> QED
        BY <3>3, <3>5, <4>1
    <3> QED
      BY <3>2, <3>4, <3>5
  <2>2. CASE Observe(l) /\ NothingListed
    <3>1. Becomes(l, o)
      BY <2>2 DEF NothingListed, Becomes, SizeInv, Finite
    <3> HIDE DEF o
    <3> QED
      BY <1>1, <3>1
  <2>3. CASE Observe(l) /\ SeesLow(l)
    <3>1. o.pc = "info"
      BY <2>3 DEF Observe
    <3>2. \/ Becomes(l, o)
          \/ o.provision > 0 /\ Becomes(l, [o EXCEPT !.pc = "pick"])
          \/ \E d : Becomes(l, [o EXCEPT !.duration = d])
      <4>1. CASE o.provision = 0
        BY <2>3, <4>1 DEF SeesLow
      <4>2. CASE o.provision > 0
        <5>1. Becomes(l, IF o.duration > LimitTime
                         THEN [o EXCEPT !.pc = "pick"]
                         ELSE [o EXCEPT !.duration = @ + 5])
          BY <2>3, <4>2 DEF SeesLow
        <5>2. CASE o.duration > LimitTime
          BY <4>2, <5>1, <5>2
        <5>3. CASE ~(o.duration > LimitTime)
          <6>1. Becomes(l, [o EXCEPT !.duration = @ + 5])
            BY <5>1, <5>3
          <6>2. Becomes(l, [o EXCEPT !.duration = o.duration + 5])
            BY <6>1
          <6> QED
            BY <6>2
        <5> QED
          BY <5>2, <5>3
      <4>3. o.provision = 0 \/ o.provision > 0
        BY <1>1
      <4> HIDE DEF o
      <4> QED
        BY <4>1, <4>2, <4>3
    <3> HIDE DEF o
    <3>3. CASE Becomes(l, o)
      BY <1>1, <3>3
    <3>4. CASE o.provision > 0 /\ Becomes(l, [o EXCEPT !.pc = "pick"])
      <4> DEFINE s == [o EXCEPT !.pc = "pick"]
      <4>1. /\ Counts(s) /\ Covered(s) /\ s.pc = "pick"
            /\ s.vm = o.vm /\ s.provision = o.provision
        BY <1>1, <3>4
      <4> QED
        BY <3>1, <3>4, <4>1
    <3>5. CASE \E d : Becomes(l, [o EXCEPT !.duration = d])
      <4>1. PICK d : Becomes(l, [o EXCEPT !.duration = d])
        BY <3>5
      <4> DEFINE s == [o EXCEPT !.duration = d]
      <4>2. /\ Counts(s) /\ Covered(s) /\ s.pc = "info"
            /\ s.vm = o.vm /\ s.provision = o.provision
        BY <1>1, <3>1
      <4> QED
        BY <3>1, <4>1, <4>2
    <3> QED
      BY <3>2, <3>3, <3>4, <3>5
  <2>4. CASE Observe(l) /\ SeesExceeded(l)
    <3>1. /\ o.pc = "info" /\ o.vm <= LastVm
          /\ Becomes(l, [o EXCEPT !.pc = "boot"])
      BY <2>4 DEF Observe, SeesExceeded
    <3> HIDE DEF o
    <3> DEFINE s == [o EXCEPT !.pc = "boot"]
    <3>2. /\ Counts(s) /\ Covered(s) /\ s.pc = "boot"
          /\ s.vm = o.vm /\ s.provision = o.provision
      BY <1>1, <3>1
    <3> QED
      BY <3>1, <3>2
  <2>5. CASE Address(l)
    <3>1. o.pc = "wait" /\ Becomes(l, [o EXCEPT !.pc = "join"])
      BY <2>5 DEF Address
    <3> HIDE DEF o
    <3> DEFINE s == [o EXCEPT !.pc = "join"]
    <3>2. /\ Counts(s) /\ Covered(s) /\ s.pc = "join"
          /\ s.vm = o.vm /\ s.provision = o.provision
      BY <1>1, <3>1
    <3> QED
      BY <3>1, <3>2
  <2>6. CASE l = 2 /\ StartAgain
    <3>1. o.pc = "off" /\ Becomes(l, [o EXCEPT !.pc = "info"])
      BY <2>6 DEF StartAgain
    <3> HIDE DEF o
    <3> DEFINE s == [o EXCEPT !.pc = "info"]
    <3>2. /\ Counts(s) /\ Covered(s) /\ s.pc = "info"
          /\ s.vm = o.vm /\ s.provision = o.provision
      BY <1>1, <3>1
    <3> QED
      BY <3>1, <3>2
  <2> QED
    BY <2>1, <2>2, <2>3, <2>4, <2>5, <2>6 DEF Observe
<1>4. PICK s : /\ Becomes(l, s) /\ Counts(s) /\ Covered(s)
               /\ s.vm = o.vm /\ s.provision = o.provision
               /\ o.pc \in {"wait", "join"} <=> s.pc \in {"wait", "join"}
  BY <1>3
<1>5. OwedBy(s) = Owed(l) /\ Owed(l) \in Nat
  BY <1>1, <1>4 DEF Owed, OwedBy, Counts
<1>6. /\ Cardinality(vms') = Cardinality(vms) /\ Cardinality(vms) \in Nat
      /\ Cardinality(doubled') = Cardinality(doubled)
      /\ Cardinality(doubled) \in Nat
  BY <1>2, CountsAreNumbers DEF SizeInv
<1>7. /\ Finite' /\ (\A k \in Loops : LoopOK(k)') /\ NeverBelowSeed'
      /\ scaler'[l] = s /\ scaler'[3 - l] = scaler[3 - l]
  <2>1. vms' \subseteq Nodes /\ IsFiniteSet(vms') /\ doubled' \subseteq vms'
    BY <1>2 DEF SizeInv, Finite
  <2>2. Cardinality(vms') + Cardinality(doubled') + Owed(l)
          >= Cardinality(vms) + Cardinality(doubled) + OwedBy(s)
    BY <1>5, <1>6
  <2> QED
    BY <1>4, <2>1, <2>2, PromiseKept
<1>8. Names'
  BY <1>2, <1>4, <1>7, NamesKept
<1> QED
  BY <1>7, <1>8 DEF SizeInv

\* nova delete takes at most one VM, none of those that have a double, and
\* PROVISION goes down by one.
LEMMA DeletionStep ==
  ASSUME SizeInv, NEW l \in Loops, Delete(l)
  PROVE  SizeInv'
<1> DEFINE o == scaler[l]
           gone == {o.victim} \ doubled
           s == [o EXCEPT !.pc = "info", !.duration = 0,
                          !.provision = @ - 1, !.victim = 0]
<1>1. /\ Counts(o) /\ Covered(o) /\ o.pc = "delete"
      /\ vms' = vms \ gone /\ doubled' = doubled /\ Becomes(l, s)
  BY DEF SizeInv, LoopOK, Delete, DeleteVm
<1>2. /\ Counts(s) /\ Covered(s) /\ s.pc = "info" /\ s.vm = o.vm
      /\ s.provision = o.provision - 1 /\ o.provision \in Nat
  <2> HIDE DEF o
  <2> QED
    BY <1>1 DEF Counts, Covered
<1>3. vms' \subseteq Nodes /\ IsFiniteSet(vms') /\ doubled' \subseteq vms'
  BY <1>1, FS_Subset DEF SizeInv, Finite
<1>4. /\ Cardinality(vms) \in Nat /\ Cardinality(vms') \in Nat
      /\ Cardinality(doubled) \in Nat
      /\ Cardinality(vms') >= Cardinality(vms) - 1
  <2>1. Cardinality(vms) \in Nat /\ Cardinality(doubled) \in Nat
    BY CountsAreNumbers DEF SizeInv
  <2>2. CASE vms' = vms
    BY <2>1, <2>2
  <2>3. CASE vms' # vms
    <3>1. o.victim \in vms /\ vms' = vms \ {o.victim}
      BY <1>1, <2>3
    <3>2. IsFiniteSet(vms') /\ Cardinality(vms') = Cardinality(vms) - 1
      BY <3>1, FS_RemoveElement DEF SizeInv, Finite
    <3>3. Cardinality(vms') \in Nat
      BY <3>2, FS_CardinalityType
    <3> QED
      BY <2>1, <3>2, <3>3
  <2> QED
    BY <2>2, <2>3
<1>5. OwedBy(s) = Owed(l) - 1 /\ Owed(l) \in Nat
  BY <1>1, <1>2 DEF Owed, OwedBy
<1> HIDE DEF s, gone, o
<1>6. Cardinality(vms') + Cardinality(doubled') + Owed(l)
        >= Cardinality(vms) + Cardinality(doubled) + OwedBy(s)
  BY <1>1, <1>4, <1>5
<1>7. /\ Finite' /\ (\A k \in Loops : LoopOK(k)') /\ NeverBelowSeed'
      /\ scaler'[l] = s /\ scaler'[3 - l] = scaler[3 - l]
  BY <1>1, <1>2, <1>3, <1>6, PromiseKept
<1>8. s.vm = scaler[l].vm /\ scaler[l].pc = "delete"
  BY <1>1, <1>2 DEF o
<1>9. Names'
  BY <1>1, <1>2, <1>7, <1>8, NamesKept
<1> QED
  BY <1>7, <1>9 DEF SizeInv

\* A boot adds a VM: its name is new, or had one VM so far.
LEMMA BootStep ==
  ASSUME SizeInv, NEW l \in Loops, Boot(l)
  PROVE  SizeInv'
<1> DEFINE o == scaler[l]
           s == [o EXCEPT !.pc = "wait"]
<1>0. PICK n : n = scaler[l].vm
  OBVIOUS
<1>1. /\ Counts(o) /\ Covered(o) /\ o.pc = "boot" /\ Becomes(l, s)
      /\ vms' = vms \union {n} /\ doubled' = doubled \union ({n} \intersect vms)
  BY <1>0 DEF SizeInv, LoopOK, Boot, BootVm
<1>2. /\ Counts(s) /\ Covered(s) /\ s.pc = "wait" /\ s.vm = n
      /\ s.provision = o.provision /\ o.provision \in Nat /\ n \in Nat
  <2>1. n = o.vm
    BY <1>0
  <2> HIDE DEF o
  <2> QED
    BY <1>1, <2>1 DEF Counts, Covered
<1>3. n \in Nodes \ Seed
  <2>1. n \in FirstVm..LastVm
    BY <1>0, <1>1, ScalerAssumption DEF Counts, Covered
  <2> QED
    BY <2>1, ScalerAssumption
<1>4. ~Named(l, n)
  BY <1>0, <1>1, <1>2 DEF Named
<1>5. n \notin doubled /\ (n \in vms => Named(3 - l, n))
  BY <1>3, <1>4, TwoLoops DEF SizeInv, Names
<1>6. /\ vms' \subseteq Nodes /\ IsFiniteSet(vms') /\ doubled' \subseteq vms'
  BY <1>1, <1>3, FS_AddElement DEF SizeInv, Finite
<1>7. /\ Cardinality(vms) \in Nat /\ Cardinality(doubled) \in Nat
      /\ IsFiniteSet(vms) /\ IsFiniteSet(doubled)
  BY CountsAreNumbers DEF SizeInv, Finite
<1>8. Cardinality(vms') + Cardinality(doubled')
        = Cardinality(vms) + Cardinality(doubled) + 1
  <2>1. CASE n \in vms
    <3>1. vms' = vms /\ doubled' = doubled \union {n}
      BY <1>1, <2>1
    <3>2. Cardinality(doubled') = Cardinality(doubled) + 1
      BY <1>5, <1>7, <3>1, FS_AddElement
    <3> QED
      BY <1>7, <3>1, <3>2
  <2>2. CASE n \notin vms
    <3>1. doubled' = doubled
      BY <1>1, <2>2
    <3>2. Cardinality(vms') = Cardinality(vms) + 1
      BY <1>1, <1>7, <2>2, FS_AddElement
    <3> QED
      BY <1>7, <3>1, <3>2
  <2> QED
    BY <2>1, <2>2
<1>9. OwedBy(s) = Owed(l) + 1 /\ Owed(l) \in Nat
  BY <1>1, <1>2 DEF Owed, OwedBy
<1>10. s.vm = scaler[l].vm /\ scaler[l].pc = "boot"
  BY <1>0, <1>1, <1>2
<1> HIDE DEF s, o
<1>11. Cardinality(vms') + Cardinality(doubled') + Owed(l)
         >= Cardinality(vms) + Cardinality(doubled) + OwedBy(s)
  BY <1>7, <1>8, <1>9
<1>12. /\ Finite' /\ (\A k \in Loops : LoopOK(k)') /\ NeverBelowSeed'
       /\ scaler'[l] = s /\ scaler'[3 - l] = scaler[3 - l]
  BY <1>1, <1>2, <1>6, <1>11, PromiseKept
<1>13. Named(l, n)'
  BY <1>2, <1>12 DEF Named
<1>14. ASSUME NEW k \in Loops, NEW m \in Nat, Named(k, m) PROVE Named(k, m)'
  <2>1. CASE k = l
    BY <1>2, <1>10, <1>12, <1>14, <2>1 DEF Named
  <2>2. CASE k = 3 - l
    BY <1>12, <1>14, <2>2 DEF Named
  <2> QED
    BY <2>1, <2>2, TwoLoops
<1>15. vms \subseteq Nat /\ doubled \subseteq vms
  BY SwarmAssumption DEF SizeInv, Finite
<1>16. \A m \in vms' \ Seed : \E k \in Loops : Named(k, m)'
  BY <1>1, <1>13, <1>14, <1>15 DEF SizeInv, Names
<1>17. ASSUME NEW m \in doubled', NEW k \in Loops PROVE Named(k, m)'
  <2>1. CASE m \in doubled
    BY <1>14, <1>15, <2>1 DEF SizeInv, Names
  <2>2. CASE m = n /\ n \in vms
    BY <1>2, <1>5, <1>13, <1>14, <2>2, TwoLoops
  <2> QED
    BY <1>1, <2>1, <2>2
<1>18. Names'
  BY <1>16, <1>17 DEF Names
<1> QED
  BY <1>12, <1>18 DEF SizeInv

\* Joining makes the VM count, whether it succeeds or not.
LEMMA JoinStep ==
  ASSUME SizeInv, NEW l \in Loops, Join(l)
  PROVE  SizeInv'
<1> DEFINE o == scaler[l]
           s == [o EXCEPT !.pc = "info", !.provision = @ + 1, !.vm = @ + 1]
<1>1. /\ Counts(o) /\ o.pc = "join" /\ Becomes(l, s)
      /\ vms' = vms /\ doubled' = doubled
  BY DEF SizeInv, LoopOK, Join, JoinSwarm, swarmVars, nodeVars
<1>2. /\ Counts(s) /\ Covered(s) /\ s.pc = "info" /\ s.vm > o.vm
      /\ s.provision = o.provision + 1 /\ o.provision \in Nat
  <2> HIDE DEF o
  <2> QED
    BY <1>1, ScalerAssumption DEF Counts, Covered
<1>3. OwedBy(s) = Owed(l) /\ Owed(l) \in Nat
  BY <1>1, <1>2 DEF Owed, OwedBy
<1>4. s.vm > scaler[l].vm
  BY <1>2
<1> HIDE DEF s, o
<1>5. /\ vms' \subseteq Nodes /\ IsFiniteSet(vms') /\ doubled' \subseteq vms'
  BY <1>1 DEF SizeInv, Finite
<1>6. Cardinality(vms) \in Nat /\ Cardinality(doubled) \in Nat
  BY CountsAreNumbers DEF SizeInv
<1>7. Cardinality(vms') + Cardinality(doubled') + Owed(l)
        >= Cardinality(vms) + Cardinality(doubled) + OwedBy(s)
  BY <1>1, <1>3, <1>6
<1>8. /\ Finite' /\ (\A k \in Loops : LoopOK(k)') /\ NeverBelowSeed'
      /\ scaler'[l] = s /\ scaler'[3 - l] = scaler[3 - l]
  BY <1>1, <1>2, <1>5, <1>7, PromiseKept
<1>9. Names'
  BY <1>1, <1>2, <1>4, <1>8, NamesKept
<1> QED
  BY <1>8, <1>9 DEF SizeInv

LEMMA SizeInvNext == SizeInv /\ [ClusterNext]_clusterVars => SizeInv'
<1> SUFFICES ASSUME SizeInv, [ClusterNext]_clusterVars PROVE SizeInv'
  OBVIOUS
<1>1. ASSUME vms' = vms, doubled' = doubled, scaler' = scaler PROVE SizeInv'
  BY <1>1 DEF SizeInv, Finite, LoopOK, Names, Named, NeverBelowSeed, Owed
<1>2. CASE UNCHANGED clusterVars
  BY <1>1, <1>2 DEF clusterVars, swarmVars, nodeVars
<1>3. CASE ClusterNext
  <2>1. CASE \E l \in Loops : LoopStep(l)
    BY <2>1, LookingStep, DeletionStep, BootStep, JoinStep DEF LoopStep
  <2>2. CASE StartAgain
    BY <2>2, LookingStep DEF Loops
  <2>3. CASE DiscoveryStep
    BY <1>1, <2>3, OthersLeaveVms DEF DiscoveryStep
  <2>4. CASE /\ \/ \E e \in Runs, f \in FileNames, m \in Memories :
                      Arrive(e, f, m)
                \/ ListenerStops
                \/ ExecNext
             /\ UNCHANGED scaler
    BY <1>1, <2>4, OthersLeaveVms
  <2> QED
    BY <1>3, <2>1, <2>2, <2>3, <2>4 DEF ClusterNext, ScalerNext
<1> QED
  BY <1>2, <1>3

\* provisionVM.sh and the deletions of awk_test.sh together never leave fewer VMs
\* than the set-up made plus PROVISION, whether a deletion finds its node gone,
\* takes a node of the set-up, or a join fails, and whether one loop runs or a
\* second beside it, which uses the same names.
THEOREM NeverBelowSeedCorrect == ClusterSpec => []NeverBelowSeed
<1>1. SizeInv => NeverBelowSeed
  BY DEF SizeInv
<1> QED
  BY <1>1, SizeInvInit, SizeInvNext, PTL DEF ClusterSpec

----------------------------------------------------------------------------
(* The executions on the cluster. *)

\* The autoscaler, Nova and the agents touch neither threads nor scripts.
LEMMA MovesOn ==
  ASSUME ExecInv, UNCHANGED <<execVars, disk>>, SwarmTypeOK',
         containers' \subseteq containers
  PROVE  ExecInv' /\ Implements
BY ClusterMovesOn DEF ExecInv, ExecTypeOK, HostTypeOK

\* What Nova, the agents and the discovery service do to the swarm.
LEMMA SwarmMovesOn ==
  ASSUME SwarmTypeOK, NEW n,
         \/ UNCHANGED swarmVars
         \/ DeleteVm(n)
         \/ n \in Nodes /\ (BootVm(n) \/ (n \in vms /\ JoinSwarm(n))
                            \/ ListNode(n) \/ UnlistNode(n))
  PROVE  SwarmTypeOK' /\ containers' \subseteq containers
<1> USE DEF SwarmTypeOK
<1>1. CASE UNCHANGED swarmVars
  BY <1>1 DEF swarmVars, nodeVars
<1>2. CASE DeleteVm(n)
  <2>1. [f \in FileNames |-> NoCode] \in [FileNames -> Code]
    BY DEF NoCode, Code
  <2>2. nodeFile' \in [Nodes -> [FileNames -> Code]]
    BY <1>2, <2>1 DEF DeleteVm
  <2> QED
    BY <1>2, <2>2 DEF DeleteVm
<1>3. CASE n \in Nodes /\ BootVm(n)
  BY <1>3 DEF BootVm
<1>4. CASE n \in vms /\ JoinSwarm(n)
  BY <1>4 DEF JoinSwarm
<1>5. CASE n \in Nodes /\ ListNode(n)
  BY <1>5 DEF ListNode
<1>6. CASE n \in Nodes /\ UnlistNode(n)
  BY <1>6 DEF UnlistNode
<1> QED
  BY <1>1, <1>2, <1>3, <1>4, <1>5, <1>6

\* A loop only boots VMs that the nodes have numbers for.
LEMMA ScalerStep ==
  ASSUME ExecInv, SizeInv, ScalerNext, UNCHANGED <<execVars, disk>>
  PROVE  ExecInv' /\ Implements
<1>1. SwarmTypeOK
  BY DEF ExecInv, ExecTypeOK
<1>2. CASE UNCHANGED swarmVars
  BY <1>1, <1>2, SwarmMovesOn, MovesOn
<1>3. CASE DiscoveryStep
  <2>1. PICK n \in Nodes : ListNode(n) \/ UnlistNode(n)
    BY <1>3 DEF DiscoveryStep
  <2> QED
    BY <1>1, <2>1, SwarmMovesOn, MovesOn
<1>4. ASSUME NEW l \in Loops, Boot(l)
      PROVE  ExecInv' /\ Implements
  <2>1. Counts(scaler[l]) /\ Covered(scaler[l]) /\ scaler[l].pc = "boot"
    BY <1>4 DEF SizeInv, LoopOK, Boot
  <2>2. scaler[l].vm \in FirstVm..LastVm
    BY <2>1, ScalerAssumption DEF Counts, Covered
  <2>3. scaler[l].vm \in Nodes /\ BootVm(scaler[l].vm)
    BY <1>4, <2>2, ScalerAssumption DEF Boot
  <2> QED
    BY <1>1, <2>3, SwarmMovesOn, MovesOn
<1>5. ASSUME NEW l \in Loops, Join(l)
      PROVE  ExecInv' /\ Implements
  <2>1. CASE scaler[l].vm \in vms \ listed /\ JoinSwarm(scaler[l].vm)
    <3>1. scaler[l].vm \in Nodes
      BY <1>1, <2>1 DEF SwarmTypeOK
    <3> QED
      BY <1>1, <2>1, <3>1, SwarmMovesOn, MovesOn
  <2> QED
    BY <1>2, <1>5, <2>1 DEF Join
<1>6. ASSUME NEW l \in Loops, Delete(l)
      PROVE  ExecInv' /\ Implements
  BY <1>1, <1>6, SwarmMovesOn, MovesOn DEF Delete
<1> QED
  BY <1>2, <1>3, <1>4, <1>5, <1>6
    DEF ScalerNext, LoopStep, Observe, Pick, Address, StartAgain

LEMMA ExecInvNext ==
  ExecInv /\ SizeInv /\ [ClusterNext]_clusterVars => ExecInv' /\ Implements
<1> SUFFICES ASSUME ExecInv, SizeInv, [ClusterNext]_clusterVars
             PROVE  ExecInv' /\ Implements
  OBVIOUS
<1>1. ASSUME NEW e \in Runs, NEW f \in FileNames, NEW m \in Memories,
             Arrive(e, f, m)
      PROVE  ExecInv' /\ Implements
  <2>1. /\ thr[e].pc = "none" /\ StartThread(e, f, m) /\ m \in Nat
        /\ UNCHANGED swarmVars
    BY <1>1, TypesAssumption DEF Arrive, NoThread
  <2>2. HostTypeOK'
    <3>1. [by |-> e, id |-> 1] \in Code
      BY TypesAssumption DEF Code, Ids
    <3> QED
      BY <1>1, <3>1 DEF Arrive, ExecInv, ExecTypeOK, HostTypeOK
  <2> QED
    BY <2>1, <2>2, ThreadStarts
<1>2. CASE ListenerStops
  BY <1>2, DieStep DEF ListenerStops, ExecInv, ExecTypeOK, HostTypeOK
<1>3. CASE ExecNext
  BY <1>3, ExecInvStep
<1>4. CASE ScalerNext /\ UNCHANGED <<execVars, disk>>
  BY <1>4, ScalerStep
<1>5. CASE UNCHANGED clusterVars
  <2>1. SwarmTypeOK
    BY DEF ExecInv, ExecTypeOK
  <2>2. UNCHANGED <<execVars, swarmVars, disk>>
    BY <1>5 DEF clusterVars
  <2> QED
    BY <2>1, <2>2, SwarmMovesOn, MovesOn
<1> QED
  BY <1>1, <1>2, <1>3, <1>4, <1>5 DEF ClusterNext

\* Both invariants together.
LEMMA ExecInvariant == ClusterSpec => [](ExecInv /\ SizeInv)
<1>1. ClusterInit => ExecInv /\ SizeInv
  BY ExecInvInit, SizeInvInit DEF ClusterInit
<1>2. ExecInv /\ SizeInv /\ [ClusterNext]_clusterVars => (ExecInv /\ SizeInv)'
  BY ExecInvNext, SizeInvNext
<1> QED
  BY <1>1, <1>2, PTL DEF ClusterSpec

\* Executions on a cluster that the autoscaler resizes, with any number of
\* retries, failing commands and killed listeners, are sequences of attempts
\* as Execution describes them.
THEOREM ImplementsExecutionCorrect == ClusterSpec => ImplementsExecution
<1>1. ClusterInit => X!ExecutionInit
  BY ExecInvInit DEF ClusterInit
<1>2. ExecInv /\ SizeInv /\ [ClusterNext]_clusterVars
        => [X!ExecutionNext]_(X!executionVars)
  BY ExecInvNext DEF Implements
<1> QED
  BY <1>1, <1>2, ExecInvariant, PTL
    DEF ClusterSpec, ImplementsExecution, X!ExecutionSpec

\* swarm_exec.sh runs a function at most once for an event, whatever fails and
\* however often it is started again.
THEOREM RunsOnceCorrect == ClusterSpec => []RunsOnce
BY RunsOnceFollows, ExecInvariant, PTL

\* __execute_lambda never has two scripts of an execution at work.
THEOREM OneScriptAtATimeCorrect == ClusterSpec => []OneScriptAtATime
BY OneScriptFollows, ExecInvariant, PTL

\* An execution has one container at most, and one that outlives its script has
\* made the script fail.
THEOREM LeaksAreReportedCorrect == ClusterSpec => []LeaksAreReported
BY LeaksReportedFollows, ExecInvariant, PTL

----------------------------------------------------------------------------
(* The names of the VMs. *)

\* A node of the set-up, or one that a loop has taken into the swarm.
Known(n) == n \in Seed \/ \E l \in Loops : n < scaler[l].vm

\* A loop waits in vain for a VM that is not there.
GoneToTwin ==
  \A l \in Loops :
    (scaler[l].pc = "wait" /\ scaler[l].vm \notin vms) =>
      \E k \in Loops \ {l} : Named(k, scaler[l].vm)

\* What the swarm lists, and what a loop deletes, has joined it before; the VM
\* that a loop waits for has not, unless the other loop's of that name has.
TwinInv ==
  /\ ScalerTypeOK
  /\ IsFiniteSet(listed) /\ listed \subseteq Nodes /\ joined \subseteq Nodes
  /\ \A n \in joined \union listed : Known(n)
  /\ \A l \in Loops :
       /\ scaler[l].pc = "delete" => Known(scaler[l].victim)
       /\ scaler[l].pc \in {"wait", "join"} => scaler[l].vm <= LastVm
  /\ GoneToTwin

LoopStates ==
  [pc : {"off", "info", "pick", "delete", "boot", "wait", "join"},
   duration : Nat, provision : Nat, vm : Nat, victim : Nodes \union {0}]

\* A set of numbers has a least one.
LEMMA LeastNumber ==
  ASSUME NEW T, T \subseteq Nat, T # {}
  PROVE  \E x \in T : \A y \in T : x <= y
<1>1. IsWellFoundedOn(OpToRel(<, Nat), Nat)
  BY NatLessThanWellFounded
<1>2. PICK x \in T : \A y \in T : ~(<<y, x>> \in OpToRel(<, Nat))
  BY <1>1, WFMin, Zenon
<1>3. ASSUME NEW y \in T
      PROVE  x <= y
  <2>1. <<y, x>> \in Nat \X Nat
    OBVIOUS
  <2>2. ~(y < x)
    BY <1>2, <2>1 DEF OpToRel
  <2>. QED
    BY <2>1, <2>2
<1>. QED
  BY <1>3

\* A finite one has a greatest, which awk finds at the end of the list.
LEMMA LargestNumber ==
  ASSUME NEW S, S \subseteq Nat, IsFiniteSet(S), S # {}
  PROVE  Max(S) \in S /\ \A y \in S : y <= Max(S)
<1>. DEFINE UpTo(x) == {y \in S : y <= x}
            Above(x) == Cardinality(S \ UpTo(x))
<1>1. ASSUME NEW x \in S
      PROVE  IsFiniteSet(S \ UpTo(x)) /\ Above(x) \in Nat
  BY FS_Subset, FS_CardinalityType
<1>2. PICK x \in S : \A y \in S : Above(x) <= Above(y)
  <2>. DEFINE T == {Above(x) : x \in S}
  <2>1. T \subseteq Nat /\ T # {}
    BY <1>1
  <2>2. PICK m \in T : \A k \in T : m <= k
    BY <2>1, LeastNumber
  <2>. QED
    BY <2>2
<1>3. ASSUME NEW y \in S, x < y
      PROVE  FALSE
  <2>1. S \ UpTo(y) \subseteq S \ UpTo(x)
    <3>1. \A z \in Nat : z <= x => z <= y
      BY <1>3
    <3>. QED
      BY <3>1
  <2>2. y \in S \ UpTo(x) /\ y \notin S \ UpTo(y)
    <3>1. x \in Nat /\ y \in Nat /\ ~(y <= x) /\ y <= y
      BY <1>3
    <3>. QED
      BY <1>3, <3>1
  <2>3. Above(y) < Above(x)
    BY <1>1, <2>1, <2>2, FS_Subset
  <2>. QED
    BY <1>1, <1>2, <2>3
<1>4. \A y \in S : x >= y
  BY <1>3
<1>. QED
  BY <1>4 DEF Max
\* A step of a loop, as the names see it.
LoopMoves(l, s) ==
  LET o == scaler[l]
  IN  /\ Becomes(l, s)
      /\ s.vm = o.vm \/ (o.pc = "join" /\ s.vm = o.vm + 1)
      /\ s.vm = o.vm /\ o.pc \in {"wait", "join"} => s.pc \in {"wait", "join"}
      /\ s.pc = "wait" => o.pc = "boot" /\ o.vm \in vms'
      /\ s.pc = "join" => o.pc = "wait"
      /\ s.pc = "delete" => s.victim \in listed
      /\ listed' = listed
      /\ joined' \subseteq joined
           \union (IF s.vm = o.vm + 1 THEN {o.vm} ELSE {})
      /\ vms \subseteq vms' \/ (o.pc = "delete" /\ vms \ {o.victim} \subseteq vms')

LEMMA LoopMovesOn ==
  ASSUME SizeInv, TwinInv, NEW l \in Loops,
         LoopStep(l) \/ (l = 2 /\ StartAgain)
  PROVE  \E s \in LoopStates : LoopMoves(l, s)
<1>. DEFINE o == scaler[l]
<1>1. /\ o \in LoopStates /\ Covered(o)
      /\ IsFiniteSet(listed) /\ listed \subseteq Nodes
  BY DEF SizeInv, LoopOK, TwinInv, ScalerTypeOK, LoopStates
<1>2. ASSUME NEW s \in LoopStates, Becomes(l, s), s.vm = o.vm,
             UNCHANGED swarmVars, s.pc \notin {"wait", "join", "delete"},
             o.pc \notin {"wait", "join"}
      PROVE  LoopMoves(l, s)
  BY <1>2 DEF LoopMoves, swarmVars, nodeVars
<1>3. CASE Observe(l)
  <2>0. o.pc = "info" /\ UNCHANGED swarmVars
    BY <1>3 DEF Observe
  <2>1. CASE NothingListed
    <3>1. Becomes(l, o)
      BY <2>1 DEF NothingListed, Becomes, TwinInv, ScalerTypeOK
    <3>. QED
      BY <1>1, <1>2, <2>0, <3>1
  <2>2. CASE SeesLow(l)
    <3>. DEFINE s == [o EXCEPT !.pc = "pick"]
                t == [o EXCEPT !.duration = @ + 5]
    <3>1. /\ s \in LoopStates /\ s.pc = "pick" /\ s.vm = o.vm
          /\ t \in LoopStates /\ t.pc = o.pc /\ t.vm = o.vm
      BY <1>1 DEF LoopStates
    <3>2. Becomes(l, o) \/ Becomes(l, s) \/ Becomes(l, t)
      BY <1>1, <2>2 DEF SeesLow, LoopStates
    <3>. HIDE DEF s, t
    <3>. QED
      BY <1>1, <1>2, <2>0, <3>1, <3>2
  <2>3. CASE SeesExceeded(l)
    <3>. DEFINE s == [o EXCEPT !.pc = "boot"]
    <3>1. s \in LoopStates /\ s.pc = "boot" /\ s.vm = o.vm
      BY <1>1 DEF LoopStates
    <3>2. Becomes(l, s)
      BY <2>3 DEF SeesExceeded
    <3>. HIDE DEF s
    <3>. QED
      BY <1>2, <2>0, <3>1, <3>2
  <2>. QED
    BY <1>3, <2>1, <2>2, <2>3 DEF Observe
<1>4. CASE Pick(l)
  <2>0. o.pc = "pick" /\ UNCHANGED swarmVars
    BY <1>4 DEF Pick
  <2>1. CASE Unused = {}
    <3>. DEFINE s == [o EXCEPT !.pc = "info"]
    <3>1. s \in LoopStates /\ s.pc = "info" /\ s.vm = o.vm
      BY <1>1 DEF LoopStates
    <3>2. Becomes(l, s)
      BY <1>4, <2>1 DEF Pick
    <3>. HIDE DEF s
    <3>. QED
      BY <1>2, <2>0, <3>1, <3>2
  <2>2. CASE Unused # {}
    <3>1. Max(Unused) \in listed
      <4>1. Unused \subseteq Nat /\ IsFiniteSet(Unused) /\ Unused \subseteq listed
        BY <1>1, FS_Subset, SwarmAssumption DEF Unused
      <4>. QED
        BY <2>2, <4>1, LargestNumber
    <3>. DEFINE s == [o EXCEPT !.pc = "delete", !.victim = Max(Unused)]
    <3>2. /\ s \in LoopStates /\ s.pc = "delete" /\ s.vm = o.vm
          /\ s.victim = Max(Unused)
      BY <1>1, <3>1 DEF LoopStates
    <3>3. Becomes(l, s)
      BY <1>4, <2>2 DEF Pick
    <3>. HIDE DEF s
    <3>4. UNCHANGED <<vms, joined, listed>>
      BY <2>0 DEF swarmVars, nodeVars
    <3>5. LoopMoves(l, s)
      BY <2>0, <3>1, <3>2, <3>3, <3>4 DEF LoopMoves
    <3>. QED
      BY <3>2, <3>5
  <2>. QED
    BY <2>1, <2>2
<1>5. CASE Delete(l)
  <2>. DEFINE s == [o EXCEPT !.pc = "info", !.duration = 0,
                             !.provision = @ - 1, !.victim = 0]
  <2>1. o.pc = "delete" /\ o.provision \in Nat /\ o.provision - 1 \in Nat
    <3>1. o.pc = "delete" /\ o.provision \in Nat /\ o.provision > 0
      BY <1>1, <1>5 DEF Delete, Covered, LoopStates
    <3>. QED
      BY <3>1
  <2>2. s \in LoopStates /\ s.pc = "info" /\ s.vm = o.vm
    BY <1>1, <2>1 DEF LoopStates
  <2>3. /\ Becomes(l, s) /\ listed' = listed /\ joined' \subseteq joined
        /\ vms \ {o.victim} \subseteq vms'
    BY <1>5 DEF Delete, DeleteVm
  <2>. HIDE DEF s
  <2>4. LoopMoves(l, s)
    BY <2>1, <2>2, <2>3 DEF LoopMoves
  <2>. QED
    BY <2>2, <2>4
<1>6. CASE Boot(l)
  <2>. DEFINE s == [o EXCEPT !.pc = "wait"]
  <2>1. s \in LoopStates /\ s.pc = "wait" /\ s.vm = o.vm
    BY <1>1 DEF LoopStates
  <2>2. /\ Becomes(l, s) /\ o.pc = "boot" /\ UNCHANGED <<listed, joined>>
        /\ vms \subseteq vms' /\ o.vm \in vms'
    BY <1>6 DEF Boot, BootVm
  <2>. HIDE DEF s
  <2>3. LoopMoves(l, s)
    BY <2>1, <2>2 DEF LoopMoves
  <2>. QED
    BY <2>1, <2>3
<1>7. CASE Address(l)
  <2>. DEFINE s == [o EXCEPT !.pc = "join"]
  <2>1. s \in LoopStates /\ s.pc = "join" /\ s.vm = o.vm
    BY <1>1 DEF LoopStates
  <2>2. Becomes(l, s) /\ o.pc = "wait" /\ UNCHANGED swarmVars
    BY <1>7 DEF Address
  <2>. HIDE DEF s
  <2>3. LoopMoves(l, s)
    BY <2>1, <2>2 DEF LoopMoves, swarmVars, nodeVars
  <2>. QED
    BY <2>1, <2>3
<1>8. CASE Join(l)
  <2>. DEFINE s == [o EXCEPT !.pc = "info", !.provision = @ + 1, !.vm = @ + 1]
  <2>0. /\ o.vm \in Nat /\ o.vm + 1 \in Nat /\ o.vm + 1 # o.vm
        /\ o.provision + 1 \in Nat
    BY <1>1 DEF LoopStates
  <2>1. s \in LoopStates /\ s.pc = "info" /\ s.vm = o.vm + 1 /\ s.vm # o.vm
    BY <1>1, <2>0 DEF LoopStates
  <2>2. /\ Becomes(l, s) /\ o.pc = "join" /\ UNCHANGED <<listed, vms>>
        /\ joined' \subseteq joined \union {o.vm}
    BY <1>8 DEF Join, JoinSwarm, swarmVars, nodeVars
  <2>. HIDE DEF s
  <2>3. LoopMoves(l, s)
    BY <2>1, <2>2 DEF LoopMoves
  <2>. QED
    BY <2>1, <2>3
<1>9. CASE l = 2 /\ StartAgain
  <2>. DEFINE s == [o EXCEPT !.pc = "info"]
  <2>1. s \in LoopStates /\ s.pc = "info" /\ s.vm = o.vm
    BY <1>1 DEF LoopStates
  <2>2. Becomes(l, s) /\ o.pc = "off" /\ UNCHANGED swarmVars
    BY <1>9 DEF StartAgain
  <2>. HIDE DEF s
  <2>. QED
    BY <1>2, <2>1, <2>2
<1>. QED
  BY <1>3, <1>4, <1>5, <1>6, <1>7, <1>8, <1>9 DEF LoopStep

LEMMA TwinLoopStep ==
  ASSUME SizeInv, TwinInv, NEW l \in Loops, NEW s \in LoopStates,
         LoopMoves(l, s)
  PROVE  TwinInv'
<1>. DEFINE o == scaler[l]
<1>1. /\ scaler \in [Loops -> LoopStates] /\ o \in LoopStates
      /\ scaler' = [scaler EXCEPT ![l] = s]
      /\ scaler' \in [Loops -> LoopStates]
      /\ scaler'[l] = s /\ \A k \in Loops \ {l} : scaler'[k] = scaler[k]
      /\ \A k \in Loops : scaler[k].vm \in Nat
  BY DEF TwinInv, ScalerTypeOK, LoopStates, LoopMoves, Becomes
<1>2. /\ s.vm = o.vm \/ (o.pc = "join" /\ s.vm = o.vm + 1)
      /\ s.vm = o.vm /\ o.pc \in {"wait", "join"} => s.pc \in {"wait", "join"}
      /\ s.pc = "wait" => o.pc = "boot" /\ o.vm \in vms'
      /\ s.pc = "join" => o.pc = "wait"
      /\ s.pc = "delete" => s.victim \in listed
      /\ listed' = listed
      /\ joined' \subseteq joined
           \union (IF s.vm = o.vm + 1 THEN {o.vm} ELSE {})
      /\ vms \subseteq vms' \/ (o.pc = "delete" /\ vms \ {o.victim} \subseteq vms')
      /\ o.vm \in Nat
  BY <1>1 DEF LoopMoves, LoopStates
<1>. HIDE DEF o
<1>3. \A k \in Loops : scaler'[k].vm \in Nat /\ scaler[k].vm <= scaler'[k].vm
  <2>1. o.vm <= s.vm /\ s.vm \in Nat
    BY <1>2
  <2>. QED
    BY <1>1, <2>1 DEF o
<1>4. ASSUME NEW n \in Nat, Known(n)
      PROVE  Known(n)'
  BY <1>1, <1>3, <1>4 DEF Known
<1>5. ASSUME NEW n \in Nat, NEW k \in Loops, Named(k, n)
      PROVE  Named(k, n)'
  <2>1. CASE k = l
    <3>1. n < o.vm \/ (n = o.vm /\ o.pc \in {"wait", "join"})
      BY <1>5, <2>1 DEF Named, o
    <3>2. n < s.vm \/ (n = s.vm /\ s.pc \in {"wait", "join"})
      BY <1>2, <3>1
    <3>. QED
      BY <1>1, <2>1, <3>2 DEF Named
  <2>2. CASE k # l
    BY <1>1, <1>5, <2>2 DEF Named
  <2>. QED
    BY <2>1, <2>2
<1>6. ASSUME NEW k \in Loops, scaler[k].pc \in {"boot", "wait", "join"}
      PROVE  scaler[k].vm \in FirstVm..LastVm
  <2>1. Counts(scaler[k]) /\ Covered(scaler[k])
    BY DEF SizeInv, LoopOK
  <2>2. scaler[k].vm >= FirstVm /\ scaler[k].vm <= LastVm
    BY <1>6, <2>1 DEF Counts, Covered, TwinInv
  <2>. QED
    BY <1>1, <2>2, ScalerAssumption
<1>7. ScalerTypeOK' /\ IsFiniteSet(listed') /\ listed' \subseteq Nodes
  BY <1>1, <1>2 DEF TwinInv, ScalerTypeOK, LoopStates
<1>8. joined' \subseteq Nodes
  <2>1. s.vm = o.vm + 1 => o.vm \in Nodes
    <3>1. s.vm = o.vm + 1 => o.pc = "join"
      BY <1>2
    <3>. QED
      BY <3>1, <1>6, ScalerAssumption DEF o
  <2>. QED
    BY <1>2, <2>1 DEF TwinInv
<1>9. ASSUME NEW n \in joined' \union listed'
      PROVE  Known(n)'
  <2>1. n \in Nat
    BY <1>7, <1>8, SwarmAssumption
  <2>2. CASE n \in joined \union listed
    BY <1>4, <2>1, <2>2 DEF TwinInv
  <2>3. CASE s.vm = o.vm + 1 /\ n = o.vm
    <3>1. n < scaler'[l].vm
      BY <1>1, <1>2, <2>3
    <3>. QED
      BY <3>1 DEF Known
  <2>. QED
    BY <1>2, <1>9, <2>2, <2>3
<1>10. ASSUME NEW k \in Loops
       PROVE  /\ scaler'[k].pc = "delete" => Known(scaler[k].victim)'
              /\ scaler'[k].pc \in {"wait", "join"} => scaler'[k].vm <= LastVm
  <2>1. CASE k = l
    <3>1. s.pc = "delete" => Known(scaler[l].victim)'
      <4>1. ASSUME s.pc = "delete"
            PROVE  scaler'[l].victim \in listed'
        BY <1>1, <1>2, <4>1
      <4>2. ASSUME s.pc = "delete"
            PROVE  Known(scaler[l].victim)'
        <5>1. PICK n \in listed' : n = scaler'[l].victim
          BY <4>1, <4>2
        <5>2. Known(n)'
          BY <1>9
        <5>. QED
          BY <5>1, <5>2 DEF Known
      <4>. QED
        BY <4>2
    <3>2. s.pc \in {"wait", "join"} => o.pc \in {"boot", "wait"} /\ s.vm = o.vm
      BY <1>2
    <3>3. s.pc \in {"wait", "join"} => s.vm <= LastVm
      BY <1>6, <3>2, ScalerAssumption DEF o
    <3>. QED
      BY <1>1, <2>1, <3>1, <3>3 DEF Known
  <2>2. CASE k # l
    <3>1. scaler'[k] = scaler[k] /\ scaler[k].victim \in Nat
      <4>1. scaler'[k] = scaler[k] /\ scaler[k] \in LoopStates
        BY <1>1, <2>2
      <4>2. scaler[k].victim \in Nodes \union {0}
        BY <4>1 DEF LoopStates
      <4>3. Nodes \union {0} \subseteq Nat
        BY SwarmAssumption
      <4>4. scaler[k].victim \in Nat
        BY <4>2, <4>3, Zenon
      <4>. QED
        BY <4>1, <4>4
    <3>2. /\ scaler[k].pc = "delete" => Known(scaler[k].victim)
          /\ scaler[k].pc \in {"wait", "join"} => scaler[k].vm <= LastVm
      BY DEF TwinInv
    <3>. QED
      BY <1>3, <3>1, <3>2, <1>1, <1>4 DEF Known
  <2>. QED
    BY <2>1, <2>2
<1>11. ASSUME NEW k \in Loops, scaler'[k].pc = "wait",
              scaler'[k].vm \notin vms'
       PROVE  \E j \in Loops \ {k} : Named(j, scaler[k].vm)'
  <2>1. k # l
    BY <1>1, <1>2, <1>11
  <2>2. /\ scaler'[k] = scaler[k] /\ scaler[k].vm \in FirstVm..LastVm
        /\ scaler[k].vm \in Nat
    BY <1>1, <1>6, <1>11, <2>1
  <2>3. \E j \in Loops \ {k} : Named(j, scaler[k].vm)
    <3>1. CASE scaler[k].vm \notin vms
      BY <1>11, <2>2, <3>1 DEF TwinInv, GoneToTwin
    <3>2. CASE scaler[k].vm \in vms
      <4>1. o.pc = "delete" /\ scaler[k].vm = o.victim
        BY <1>2, <1>11, <2>2, <3>2
      <4>2. Known(scaler[k].vm) /\ scaler[k].vm \notin Seed
        BY <2>2, <4>1, ScalerAssumption DEF TwinInv, o
      <4>3. PICK j \in Loops : scaler[k].vm < scaler[j].vm
        BY <4>2 DEF Known
      <4>. QED
        BY <2>2, <4>3 DEF Named
    <3>. QED
      BY <3>1, <3>2
  <2>4. PICK n \in Nat, j \in Loops \ {k} : n = scaler[k].vm /\ Named(j, n)
    BY <2>2, <2>3
  <2>5. Named(j, n)' /\ scaler'[k].vm = n
    BY <1>5, <2>2, <2>4
  <2>. QED
    BY <2>5 DEF Named
<1>12. GoneToTwin'
  BY <1>11 DEF GoneToTwin
<1>. QED
  BY <1>7, <1>8, <1>9, <1>10, <1>12 DEF TwinInv

\* The discovery service lists what has joined; executions touch no node.
LEMMA TwinsAside ==
  ASSUME TwinInv, UNCHANGED scaler, vms' = vms, joined' = joined,
         \/ listed' = listed
         \/ \E n \in Nodes : ListNode(n) \/ UnlistNode(n)
  PROVE  TwinInv'
<1>1. /\ IsFiniteSet(listed') /\ listed' \subseteq Nodes
      /\ listed' \subseteq joined \union listed
  <2>1. CASE listed' = listed
    BY <2>1 DEF TwinInv
  <2>2. ASSUME NEW n \in Nodes, ListNode(n) \/ UnlistNode(n)
        PROVE  /\ IsFiniteSet(listed') /\ listed' \subseteq Nodes
               /\ listed' \subseteq joined \union listed
    BY <2>2, FS_AddElement, FS_RemoveElement
      DEF TwinInv, ListNode, UnlistNode
  <2>. QED
    BY <2>1, <2>2
<1>. QED
  BY <1>1 DEF TwinInv, ScalerTypeOK, Known, GoneToTwin, Named

LEMMA TwinInvInit == ClusterInit => TwinInv
<1>. SUFFICES ASSUME ClusterInit PROVE TwinInv
  OBVIOUS
<1>1. joined = Seed /\ listed = Seed
  BY DEF ClusterInit, SwarmInit
<1>2. ScalerTypeOK /\ \A l \in Loops : scaler[l].pc \in {"info", "off"}
  BY ScalerAssumption DEF ClusterInit, ScalerInit, ScalerTypeOK
<1>. QED
  BY <1>1, <1>2, SwarmAssumption DEF TwinInv, Known, GoneToTwin

LEMMA TwinInvNext ==
  ASSUME SizeInv, TwinInv, [ClusterNext]_clusterVars
  PROVE  TwinInv'
<1>1. ASSUME NEW l \in Loops, LoopStep(l) \/ (l = 2 /\ StartAgain)
      PROVE  TwinInv'
  BY <1>1, LoopMovesOn, TwinLoopStep
<1>2. CASE DiscoveryStep
  <2>1. PICK n \in Nodes : ListNode(n) \/ UnlistNode(n)
    BY <1>2 DEF DiscoveryStep
  <2>2. vms' = vms /\ joined' = joined /\ UNCHANGED scaler
    BY <1>2, <2>1 DEF DiscoveryStep, ListNode, UnlistNode
  <2>. QED
    BY <2>1, <2>2, TwinsAside
<1>3. ASSUME UNCHANGED <<scaler, nodeVars>>
      PROVE  TwinInv'
  BY <1>3, TwinsAside DEF nodeVars
<1>4. CASE /\ \/ \E e \in Runs, f \in FileNames, m \in Memories :
                   Arrive(e, f, m)
             \/ ListenerStops
             \/ ExecNext
          /\ UNCHANGED scaler
  <2>1. ASSUME NEW e \in Runs, ExecStep(e)
        PROVE  UNCHANGED nodeVars
    BY <2>1 DEF ExecStep, ThreadStep, ScriptStep, ScriptCreates,
       ScriptInspects, ScriptCopies, ScriptWrites, ScriptStarts,
       ScriptExecutes, ScriptReturns, ScriptStops, ScriptRemoves, swarmVars
  <2>2. UNCHANGED nodeVars
    BY <1>4, <2>1 DEF Arrive, ListenerStops, ExecNext, swarmVars
  <2>. QED
    BY <1>3, <1>4, <2>2
<1>5. CASE UNCHANGED clusterVars
  BY <1>3, <1>5 DEF clusterVars, swarmVars
<1>6. CASE ClusterNext
  <2>1. CASE ScalerNext /\ UNCHANGED <<execVars, disk>>
    BY <1>1, <1>2, <2>1 DEF ScalerNext, Loops
  <2>. QED
    BY <1>4, <1>6, <2>1 DEF ClusterNext
<1>. QED
  BY <1>5, <1>6

LEMMA TwinInvariant == ClusterSpec => [](SizeInv /\ TwinInv)
<1>1. ClusterInit => SizeInv /\ TwinInv
  BY SizeInvInit, TwinInvInit
<1>2. SizeInv /\ TwinInv /\ [ClusterNext]_clusterVars => (SizeInv /\ TwinInv)'
  BY SizeInvNext, TwinInvNext
<1>. QED
  BY <1>1, <1>2, PTL DEF ClusterSpec

\* provisionVM.sh asks for ever for the address of a VM only when the other
\* loop has booted one of the same name: a loop alone never loses the VM it
\* waits for, although deleted nodes are still listed for a while.
THEOREM OnlyTwinsBlockCorrect == ClusterSpec => []OnlyTwinsBlock
<1>1. SizeInv /\ TwinInv => OnlyTwinsBlock
  <2>. SUFFICES ASSUME SizeInv, TwinInv, NEW l \in Loops,
                       scaler[l].pc = "wait", scaler[l].vm \notin vms \ doubled
                PROVE  \E k \in Loops \ {l} : Named(k, scaler[l].vm)
    BY DEF OnlyTwinsBlock
  <2>1. CASE scaler[l].vm \notin vms
    BY <2>1 DEF TwinInv, GoneToTwin
  <2>2. CASE scaler[l].vm \in doubled
    BY <2>2, TwoLoops DEF SizeInv, Names
  <2>. QED
    BY <2>1, <2>2
<1>. QED
  BY <1>1, TwinInvariant, PTL

\* Every thread, script, container, node and loop has the form the scripts
\* give it: PROVISION never gets negative, and a loop only deletes nodes.
THEOREM ClusterTypeCorrect == ClusterSpec => []ClusterTypeOK
<1>1. ExecInv /\ TwinInv => ClusterTypeOK
  BY DEF ExecInv, TwinInv, ClusterTypeOK
<1>. QED
  BY <1>1, ExecInvariant, TwinInvariant, PTL

----------------------------------------------------------------------------
(* Sums over finite sets. *)

\* Among finite sets there is one without a smaller one of them inside.
LEMMA LeastSet ==
  ASSUME NEW B, B # {}, \A s \in B : IsFiniteSet(s)
  PROVE  \E s \in B : \A t \in SUBSET s : t # s => t \notin B
<1>. DEFINE T == {Cardinality(s) : s \in B}
<1>1. T \subseteq Nat /\ T # {}
  BY FS_CardinalityType
<1>2. PICK m \in T : \A k \in T : m <= k
  BY <1>1, LeastNumber
<1>3. PICK s \in B : m = Cardinality(s)
  BY <1>2
<1>4. ASSUME NEW t \in SUBSET s, t # s, t \in B
      PROVE  FALSE
  <2>1. IsFiniteSet(s)
    OBVIOUS
  <2>2. /\ IsFiniteSet(t) /\ Cardinality(t) <= Cardinality(s)
        /\ Cardinality(t) # Cardinality(s)
    BY <1>4, <2>1, FS_Subset
  <2>3. Cardinality(t) \in Nat /\ Cardinality(s) \in Nat
    BY <2>1, <2>2, FS_CardinalityType
  <2>4. Cardinality(t) \in T
    BY <1>4
  <2>. QED
    BY <1>2, <1>3, <2>2, <2>3, <2>4
<1>. QED
  BY <1>4

One(s) == CHOOSE x \in s : TRUE

\* h adds up g over the subsets of S as MapThenSumSet does, element by element.
Adds(h, g, S) ==
  h = [s \in SUBSET S |->
         IF s = {} THEN 0 ELSE g[One(s)] + h[s \ {One(s)}]]

LEMMA AddsStep ==
  ASSUME NEW S, NEW g, NEW h, Adds(h, g, S), NEW s \in SUBSET S
  PROVE  /\ s = {} => h[s] = 0
         /\ s # {} => /\ One(s) \in s /\ s \ {One(s)} \in SUBSET S
                      /\ s \ {One(s)} # s
                      /\ h[s] = g[One(s)] + h[s \ {One(s)}]
<1>1. h[s] = IF s = {} THEN 0 ELSE g[One(s)] + h[s \ {One(s)}]
  BY Zenon DEF Adds
<1>2. s # {} => One(s) \in s
  BY DEF One
<1>. QED
  BY <1>1, <1>2

LEMMA AddsNothing ==
  ASSUME NEW S, NEW g, NEW h, Adds(h, g, S)
  PROVE  h[{}] = 0
BY Zenon DEF Adds

\* The sum is a number, and grows with what is added up.
LEMMA AddsGrows ==
  ASSUME NEW S, IsFiniteSet(S), NEW g, NEW f,
         \A x \in S : g[x] \in Nat /\ f[x] \in Nat /\ g[x] <= f[x],
         NEW h, NEW k, Adds(h, g, S), Adds(k, f, S)
  PROVE  h[S] \in Nat /\ k[S] \in Nat /\ h[S] <= k[S]
<1>. DEFINE Good(s) == h[s] \in Nat /\ k[s] \in Nat /\ h[s] <= k[s]
            B == {s \in SUBSET S : ~Good(s)}
<1>1. SUFFICES ASSUME B # {} PROVE FALSE
  OBVIOUS
<1>2. \A s \in B : IsFiniteSet(s)
  BY FS_Subset
<1>3. PICK s \in B : \A t \in SUBSET s : t # s => t \notin B
  BY <1>1, <1>2, LeastSet
<1>4. CASE s = {}
  <2>1. h[s] = 0
    BY <1>4, AddsNothing
  <2>2. k[s] = 0
    BY <1>4, AddsNothing
  <2>. QED
    BY <1>3, <2>1, <2>2
<1>5. CASE s # {}
  <2>. DEFINE x == One(s)
              t == s \ {x}
  <2>1. /\ x \in s /\ t \in SUBSET S /\ t # s
        /\ h[s] = g[x] + h[t] /\ k[s] = f[x] + k[t]
    BY <1>3, <1>5, AddsStep
  <2>2. Good(t)
    BY <1>3, <2>1
  <2>3. x \in S /\ g[x] \in Nat /\ f[x] \in Nat /\ g[x] <= f[x]
    BY <1>3, <2>1
  <2>. HIDE DEF x, t
  <2>4. Good(s)
    BY <2>1, <2>2, <2>3
  <2>. QED
    BY <1>3, <2>4
<1>. QED
  BY <1>4, <1>5

\* A sum over a subset is the same, wherever it is a part of.
LEMMA AddsSame ==
  ASSUME NEW S, NEW T \in SUBSET S, IsFiniteSet(T), NEW g,
         NEW h, NEW k, Adds(h, g, S), Adds(k, g, T)
  PROVE  h[T] = k[T]
<1>. DEFINE B == {s \in SUBSET T : h[s] # k[s]}
<1>1. SUFFICES ASSUME B # {} PROVE FALSE
  OBVIOUS
<1>2. \A s \in B : IsFiniteSet(s)
  BY FS_Subset
<1>3. PICK s \in B : \A t \in SUBSET s : t # s => t \notin B
  BY <1>1, <1>2, LeastSet
<1>4. s \in SUBSET S /\ s \in SUBSET T
  BY <1>3
<1>5. CASE s = {}
  <2>1. h[s] = 0
    BY <1>5, AddsNothing
  <2>2. k[s] = 0
    BY <1>5, AddsNothing
  <2>. QED
    BY <1>3, <2>1, <2>2
<1>6. CASE s # {}
  <2>1. /\ s \ {One(s)} \in SUBSET T /\ s \ {One(s)} # s
        /\ h[s] = g[One(s)] + h[s \ {One(s)}]
        /\ k[s] = g[One(s)] + k[s \ {One(s)}]
    BY <1>4, <1>6, AddsStep
  <2>2. h[s \ {One(s)}] = k[s \ {One(s)}]
    BY <1>3, <2>1
  <2>. QED
    BY <1>3, <2>1, <2>2
<1>. QED
  BY <1>5, <1>6

\* A finite set has a sum.
LEMMA AddsExists ==
  ASSUME NEW S, IsFiniteSet(S), NEW g
  PROVE  \E h : Adds(h, g, S)
<1>. DEFINE B == {s \in SUBSET S : ~\E h : Adds(h, g, s)}
            H(t) == CHOOSE h : Adds(h, g, t)
<1>1. SUFFICES ASSUME B # {} PROVE FALSE
  OBVIOUS
<1>2. \A s \in B : IsFiniteSet(s)
  BY FS_Subset
<1>3. PICK s \in B : \A t \in SUBSET s : t # s => t \notin B
  BY <1>1, <1>2, LeastSet
<1>. DEFINE k == [t \in SUBSET s |->
                    IF t = {} THEN 0
                    ELSE g[One(t)] + H(t \ {One(t)})[t \ {One(t)}]]
<1>4. ASSUME NEW t \in SUBSET s, t # s
      PROVE  Adds(H(t), g, t)
  <2>1. t \in SUBSET S /\ t \notin B
    BY <1>3, <1>4
  <2>2. \E h : Adds(h, g, t)
    BY <2>1
  <2>. QED
    BY <2>2
<1>5. ASSUME NEW t \in SUBSET s
      PROVE  IsFiniteSet(t)
  <2>1. IsFiniteSet(s)
    BY <1>2, <1>3
  <2>. QED
    BY <2>1, <1>5, FS_Subset
<1>. HIDE DEF H
<1>6. ASSUME NEW t \in SUBSET s, t # s
      PROVE  k[t] = H(t)[t]
  <2>1. Adds(H(t), g, t) /\ t \in SUBSET t
    BY <1>4, <1>6
  <2>2. CASE t = {}
    <3>1. H(t)[t] = 0
      BY <2>1, <2>2, AddsStep
    <3>. QED
      BY <2>2, <3>1
  <2>3. CASE t # {}
    <3>. DEFINE u == t \ {One(t)}
    <3>1. u \in SUBSET t /\ H(t)[t] = g[One(t)] + H(t)[u] /\ u # t
      BY <2>1, <2>3, AddsStep
    <3>2. u \in SUBSET s /\ u # s
      BY <1>6, <3>1
    <3>3. Adds(H(u), g, u) /\ IsFiniteSet(u)
      BY <1>4, <1>5, <3>2
    <3>4. H(t)[u] = H(u)[u]
      BY <2>1, <3>1, <3>3, AddsSame
    <3>5. k[t] = g[One(t)] + H(u)[u]
      BY <2>3
    <3>. QED
      BY <3>1, <3>4, <3>5
  <2>. QED
    BY <2>2, <2>3
<1>7. ASSUME NEW t \in SUBSET s, t # {}
      PROVE  k[t \ {One(t)}] = H(t \ {One(t)})[t \ {One(t)}]
  <2>1. One(t) \in t
    BY <1>7 DEF One
  <2>2. t \ {One(t)} \in SUBSET s /\ t \ {One(t)} # s
    BY <2>1
  <2>. QED
    BY <1>6, <2>2
<1>8. k = [t \in SUBSET s |-> IF t = {} THEN 0 ELSE g[One(t)] + k[t \ {One(t)}]]
  <2>. DEFINE F(t) == IF t = {} THEN 0
                      ELSE g[One(t)] + H(t \ {One(t)})[t \ {One(t)}]
              G(t) == IF t = {} THEN 0 ELSE g[One(t)] + k[t \ {One(t)}]
  <2>1. \A t \in SUBSET s : F(t) = G(t)
    BY <1>7
  <2>2. k = [t \in SUBSET s |-> F(t)]
    OBVIOUS
  <2>. HIDE DEF F, G, k
  <2>3. k = [t \in SUBSET s |-> G(t)]
    BY <2>1, <2>2
  <2>. QED
    BY <2>3 DEF G
<1>9. Adds(k, g, s)
  BY <1>8 DEF Adds
<1>. QED
  BY <1>3, <1>9

\* MapThenSumSet is such a sum: of the memory of containers, of what the nodes
\* have reserved, and of what docker info shows of that.
LEMMA SumOfMemory ==
  ASSUME NEW S, IsFiniteSet(S)
  PROVE  \E h : /\ Adds(h, [c \in S |-> c.memory], S)
                /\ MapThenSumSet(LAMBDA c : c.memory, S) = h[S]
<1>. DEFINE g == [c \in S |-> c.memory]
            P(h) == h = [s \in SUBSET S |->
                           IF s = {} THEN 0
                           ELSE One(s).memory + h[s \ {One(s)}]]
            k == CHOOSE h : P(h)
<1>1. ASSUME NEW h
      PROVE  Adds(h, g, S) <=> P(h)
  <2>1. \A s \in SUBSET S : s # {} => g[One(s)] = One(s).memory
    BY DEF One
  <2>. DEFINE F(s) == IF s = {} THEN 0 ELSE g[One(s)] + h[s \ {One(s)}]
              G(s) == IF s = {} THEN 0 ELSE One(s).memory + h[s \ {One(s)}]
  <2>2. \A s \in SUBSET S : F(s) = G(s)
    BY <2>1
  <2>. HIDE DEF F, G
  <2>3. [s \in SUBSET S |-> F(s)] = [s \in SUBSET S |-> G(s)]
    BY <2>2
  <2>. QED
    BY <2>3 DEF F, G, Adds
<1>2. P(k)
  <2>1. \E h : P(h)
    BY <1>1, AddsExists
  <2>. QED
    BY <2>1
<1>3. MapThenSumSet(LAMBDA c : c.memory, S) = k[S]
  BY DEF MapThenSumSet, MapThenFoldSet, One
<1>. QED
  BY <1>1, <1>2, <1>3

LEMMA SumOfReserved ==
  ASSUME NEW S, IsFiniteSet(S)
  PROVE  \E h : /\ Adds(h, [n \in S |-> Reserved(n)], S)
                /\ MapThenSumSet(LAMBDA n : Reserved(n), S) = h[S]
<1>. DEFINE g == [n \in S |-> Reserved(n)]
            P(h) == h = [s \in SUBSET S |->
                           IF s = {} THEN 0
                           ELSE Reserved(One(s)) + h[s \ {One(s)}]]
            k == CHOOSE h : P(h)
<1>1. ASSUME NEW h
      PROVE  Adds(h, g, S) <=> P(h)
  <2>1. \A s \in SUBSET S : s # {} => g[One(s)] = Reserved(One(s))
    BY DEF One
  <2>. DEFINE F(s) == IF s = {} THEN 0 ELSE g[One(s)] + h[s \ {One(s)}]
              G(s) == IF s = {} THEN 0 ELSE Reserved(One(s)) + h[s \ {One(s)}]
  <2>2. \A s \in SUBSET S : F(s) = G(s)
    BY <2>1
  <2>. HIDE DEF F, G
  <2>3. [s \in SUBSET S |-> F(s)] = [s \in SUBSET S |-> G(s)]
    BY <2>2
  <2>. QED
    BY <2>3 DEF F, G, Adds
<1>2. P(k)
  <2>1. \E h : P(h)
    BY <1>1, AddsExists
  <2>. QED
    BY <2>1
<1>3. MapThenSumSet(LAMBDA n : Reserved(n), S) = k[S]
  BY DEF MapThenSumSet, MapThenFoldSet, One
<1>. QED
  BY <1>1, <1>2, <1>3

LEMMA SumOfShown ==
  ASSUME NEW S, IsFiniteSet(S)
  PROVE  \E h : /\ Adds(h, [n \in S |-> Shown(Reserved(n))], S)
                /\ MapThenSumSet(LAMBDA n : Shown(Reserved(n)), S) = h[S]
<1>. DEFINE g == [n \in S |-> Shown(Reserved(n))]
            P(h) == h = [s \in SUBSET S |->
                           IF s = {} THEN 0
                           ELSE Shown(Reserved(One(s))) + h[s \ {One(s)}]]
            k == CHOOSE h : P(h)
<1>1. ASSUME NEW h
      PROVE  Adds(h, g, S) <=> P(h)
  <2>1. \A s \in SUBSET S : s # {} => g[One(s)] = Shown(Reserved(One(s)))
    BY DEF One
  <2>. DEFINE F(s) == IF s = {} THEN 0 ELSE g[One(s)] + h[s \ {One(s)}]
              G(s) == IF s = {} THEN 0 ELSE Shown(Reserved(One(s))) + h[s \ {One(s)}]
  <2>2. \A s \in SUBSET S : F(s) = G(s)
    BY <2>1
  <2>. HIDE DEF F, G
  <2>3. [s \in SUBSET S |-> F(s)] = [s \in SUBSET S |-> G(s)]
    BY <2>2
  <2>. QED
    BY <2>3 DEF F, G, Adds
<1>2. P(k)
  <2>1. \E h : P(h)
    BY <1>1, AddsExists
  <2>. QED
    BY <2>1
<1>3. MapThenSumSet(LAMBDA n : Shown(Reserved(n)), S) = k[S]
  BY DEF MapThenSumSet, MapThenFoldSet, One
<1>. QED
  BY <1>1, <1>2, <1>3

\* An execution has one container at most, so that there are finitely many.
LEMMA FewContainers ==
  ASSUME ExecInv
  PROVE  IsFiniteSet(containers)
<1>1. containers \subseteq Container /\ \A e \in Runs : Reserves(e)
  BY DEF ExecInv, ExecTypeOK, SwarmTypeOK
<1>2. ASSUME NEW e \in Runs
      PROVE  IsFiniteSet(ContainersOf(e))
  <2>1. CASE ContainersOf(e) = {}
    BY <2>1, FS_EmptySet
  <2>2. ASSUME NEW c \in ContainersOf(e)
        PROVE  IsFiniteSet(ContainersOf(e))
    <3>1. ContainersOf(e) = {c}
      BY <1>1 DEF Reserves
    <3>. QED
      BY <3>1, FS_Singleton
  <2>. QED
    BY <2>1, <2>2
<1>. DEFINE parts == {ContainersOf(e) : e \in Runs}
<1>3. IsFiniteSet(parts)
  <2>1. IsFiniteSet(Runs)
    BY TypesAssumption, FS_Interval DEF Runs
  <2>. DEFINE part == [e \in Runs |-> ContainersOf(e)]
  <2>2. part \in Surjection(Runs, parts)
    BY DEF Surjection
  <2>. HIDE DEF part, parts
  <2>. QED
    BY <2>1, <2>2, FS_Surjection
<1>4. IsFiniteSet(UNION parts)
  BY <1>2, <1>3, FS_UNION
<1>5. containers = UNION parts
  BY <1>1 DEF Container, ContainersOf
<1>. QED
  BY <1>4, <1>5

LEMMA ReservedIsNumber ==
  ASSUME ExecInv, NEW n
  PROVE  Reserved(n) \in Nat
<1>. DEFINE S == OnNode(n)
<1>1. IsFiniteSet(S)
  BY FewContainers, FS_Subset DEF OnNode
<1>2. \A c \in S : c.memory \in Nat
  BY DEF OnNode, ExecInv, ExecTypeOK, SwarmTypeOK, Container
<1>. HIDE DEF S
<1>3. PICK h : /\ Adds(h, [c \in S |-> c.memory], S)
               /\ MapThenSumSet(LAMBDA c : c.memory, S) = h[S]
  BY <1>1, SumOfMemory
<1>. DEFINE g == [c \in S |-> c.memory]
<1>4. \A c \in S : g[c] \in Nat /\ g[c] <= g[c]
  BY <1>2
<1>5. Adds(h, g, S)
  BY <1>3
<1>. HIDE DEF g
<1>6. h[S] \in Nat
  BY <1>1, <1>4, <1>5, AddsGrows
<1>. QED
  BY <1>3, <1>6 DEF Reserved, S

\* docker info never shows less than is reserved.
LEMMA ShownIsMore ==
  ASSUME ExecInv, IsFiniteSet(listed)
  PROVE  TrueUsed \in Nat /\ ShownUsed \in Nat /\ TrueUsed <= ShownUsed
<1>. DEFINE g == [n \in listed |-> Reserved(n)]
            f == [n \in listed |-> Shown(Reserved(n))]
<1>1. PICK h : Adds(h, g, listed) /\ TrueUsed = h[listed]
  BY SumOfReserved DEF TrueUsed
<1>2. PICK k : Adds(k, f, listed) /\ ShownUsed = k[listed]
  BY SumOfShown DEF ShownUsed
<1>3. ASSUME NEW n \in listed
      PROVE  g[n] \in Nat /\ f[n] \in Nat /\ g[n] <= f[n]
  <2>1. Reserved(n) \in Nat
    BY ReservedIsNumber
  <2>. DEFINE x == Reserved(n)
  <2>2. g[n] = x /\ f[n] = Shown(x)
    OBVIOUS
  <2>. HIDE DEF x, g, f
  <2>3. x \in Nat /\ Shown(x) \in Nat /\ x <= Shown(x)
    BY <2>1 DEF Shown, x
  <2>. QED
    BY <2>2, <2>3
<1>. HIDE DEF g, f
<1>4. h[listed] \in Nat /\ k[listed] \in Nat /\ h[listed] <= k[listed]
  BY <1>1, <1>2, <1>3, AddsGrows
<1>. QED
  BY <1>1, <1>2, <1>4

LEMMA LowNeverLies ==
  ASSUME ExecInv, IsFiniteSet(listed), NodeMemory >= 1024
  PROVE  LowIsTrue
<1>1. TrueUsed \in Nat /\ ShownUsed \in Nat /\ TrueUsed <= ShownUsed
  BY ShownIsMore
<1>2. ShownTotal = TrueTotal
  BY SwarmAssumption DEF ShownTotal, TrueTotal, Shown
<1>3. TrueTotal \in Nat
  <2>1. Cardinality(listed) \in Nat
    BY FS_CardinalityType
  <2>. QED
    BY <2>1, SwarmAssumption DEF TrueTotal
<1>4. ASSUME State(ShownUsed, ShownTotal) = "LOW"
      PROVE  10 * ShownUsed < 3 * ShownTotal
  BY <1>4 DEF State
<1>. QED
  BY <1>1, <1>2, <1>3, <1>4 DEF LowIsTrue

\* Where a node has a GiB or more (4 in setup.config), the sum without units
\* never makes a cluster look idle that is not (awk_test.sh), for any nodes and
\* any containers of any sizes.
THEOREM LowIsTrueCorrect ==
  ASSUME NodeMemory >= 1024
  PROVE  ClusterSpec => []LowIsTrue
<1>1. ExecInv /\ TwinInv => LowIsTrue
  BY LowNeverLies DEF TwinInv
<1>. QED
  BY <1>1, ExecInvariant, TwinInvariant, PTL
=============================================================================
