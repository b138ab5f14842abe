---------------------------- MODULE PetriVmProofs ----------------------------
(***************************************************************************)
(* That reaping spares the VMs of hosts that are alive, and that no host   *)
(* loses a VM of its own, for every number of hosts, pids and VMs.         *)
(***************************************************************************)
EXTENDS PetriVm, TLAPS

\* The attempt a host is in boots a VM of its own, and its slot is empty.
Attempts ==
    \A p \in Pids : ensure[p] # Idle =>
        /\ proc[p] = "host" /\ slot[p] = NoVm
        /\ ensure[p].id \in Ids
        /\ owner[ensure[p].id] = p /\ boots[ensure[p].id] = "waited"

\* A boot is waited for by the host that owns it, or was given up by it.
Boots ==
    \A i \in Ids : boots[i] # "none" =>
        /\ i \notin orphans /\ proc[owner[i]] = "host"
        /\ boots[i] = "waited" => i \notin killing /\ ensure[owner[i]].id = i
        /\ boots[i] = "abandoned" => i \in abandoned

\* What is in a slot is up, and nobody kills it.
Slots ==
    \A p \in Pids : slot[p] # NoVm =>
        /\ proc[p] = "host" /\ owner[slot[p]] = p
        /\ slot[p] \in listed /\ slot[p] \notin orphans \cup killing
        /\ boots[slot[p]] = "none"

\* A VM that is no orphan has its host.
Hosted == \A i \in listed \ orphans : proc[owner[i]] = "host"

IInv == NoneIsLost /\ Attempts /\ Boots /\ Slots /\ Hosted

\* A VM without its host is an orphan.
LEMMA Spared == IInv => \A i \in listed : proc[owner[i]] = "none" => i \in orphans
  BY DEF IInv, Hosted

LEMMA InitInv == Init => IInv
  BY PetriVmAssumption DEF Init, IInv, NoneIsLost, TypeOK, Attempts, Boots, Slots, Hosted, Idle, Done, Stages

-----------------------------------------------------------------------------
(* ensure_vm.                                                              *)

LEMMA EnsuresInv ==
    ASSUME IInv, NEW p \in Pids, Ensures(p)
    PROVE  IInv'
<1>1. TypeOK /\ Attempts /\ Boots /\ Slots /\ Hosted /\ NoneIsLost
  BY DEF IInv, NoneIsLost
<1>2. PICK i \in Ids : Creates(p, 1, i, boots) /\ abandoned' = abandoned \ {i}
  BY DEF Ensures
<1>3. /\ Up(p) /\ slot[p] = NoVm /\ ensure[p] = Idle
      /\ UNCHANGED <<faulty, proc, slot, listed, overlay, killing, reaper, deaths>>
  BY DEF Ensures
<1>4. /\ boots[i] = "none" /\ i \notin listed \cup killing /\ proc[p] = "host"
      /\ ensure' = [ensure EXCEPT ![p] = [attempt |-> 1, id |-> i]]
      /\ boots' = [boots EXCEPT ![i] = "waited"]
      /\ owner' = [owner EXCEPT ![i] = p] /\ orphans' = orphans \ {i}
  BY <1>2, <1>3 DEF Creates, Unused, Up
<1>5. TypeOK'
  BY <1>1, <1>2, <1>3, <1>4 DEF TypeOK
<1>6. Attempts'
  BY <1>1, <1>3, <1>4, PetriVmAssumption DEF TypeOK, Attempts, Idle
<1>7. Boots'
  BY <1>1, <1>2, <1>3, <1>4, PetriVmAssumption DEF TypeOK, Boots, Idle
<1>8. Slots'
  BY <1>1, <1>3, <1>4, PetriVmAssumption DEF TypeOK, Slots
<1>9. Hosted'
  BY <1>1, <1>3, <1>4 DEF TypeOK, Hosted
<1>10. NoneIsLost'
  BY <1>1, <1>2, <1>3, <1>4, <1>5 DEF TypeOK, NoneIsLost
<1> QED
  BY <1>6, <1>7, <1>8, <1>9, <1>10 DEF IInv

\* What petri does of itself.
LEMMA PetriInv ==
    ASSUME IInv, NEW i \in Ids, Petri(i)
    PROVE  IInv'
<1>1. TypeOK /\ Attempts /\ Boots /\ Slots /\ Hosted /\ NoneIsLost
  BY DEF IInv, NoneIsLost
<1>2. CASE OverlayMade(i)
  BY <1>1, <1>2 DEF OverlayMade, IInv, NoneIsLost, TypeOK, Attempts, Boots, Slots, Hosted
<1>3. CASE Listed(i)
  BY <1>1, <1>3 DEF Listed, IInv, NoneIsLost, TypeOK, Attempts, Boots, Slots, Hosted
<1>4. CASE CreateReturns(i)
  <2>1. /\ boots[i] # "none" /\ i \in listed /\ boots' = [boots EXCEPT ![i] = "none"]
        /\ UNCHANGED <<faulty, proc, owner, listed, overlay, orphans, abandoned,
                       killing, reaper, deaths>>
    BY <1>4 DEF CreateReturns
  <2>2. CASE boots[i] = "waited"
    <3>1. /\ slot' = [slot EXCEPT ![owner[i]] = i]
          /\ ensure' = [ensure EXCEPT ![owner[i]] = Idle]
      BY <1>4, <2>2 DEF CreateReturns
    <3>2. /\ owner[i] \in Pids /\ ensure[owner[i]].id = i /\ slot[owner[i]] = NoVm
          /\ proc[owner[i]] = "host" /\ i \notin orphans \cup killing
      BY <1>1, <2>2, PetriVmAssumption DEF TypeOK, Boots, Attempts, Idle
    <3>3. TypeOK'
      BY <1>1, <2>1, <3>1, <3>2 DEF TypeOK, Idle
    <3>4. Attempts'
      BY <1>1, <2>1, <3>1, <3>2 DEF TypeOK, Attempts
    <3>5. Boots'
      BY <1>1, <2>1, <3>1, <3>2, PetriVmAssumption DEF TypeOK, Boots, Attempts, Idle
    <3>6. Slots'
      BY <1>1, <2>1, <3>1, <3>2 DEF TypeOK, Slots
    <3>7. Hosted'
      BY <1>1, <2>1 DEF Hosted
    <3>8. NoneIsLost'
      BY <1>1, <2>1, <3>1, <3>2, <3>3, PetriVmAssumption DEF TypeOK, NoneIsLost
    <3> QED
      BY <3>4, <3>5, <3>6, <3>7, <3>8 DEF IInv
  <2>3. CASE boots[i] # "waited"
    <3>1. UNCHANGED <<slot, ensure>> /\ i \in abandoned
      BY <1>1, <1>4, <2>1, <2>3 DEF CreateReturns, TypeOK, Boots
    <3> QED
      BY <1>1, <2>1, <2>3, <3>1 DEF IInv, NoneIsLost, TypeOK, Attempts, Boots, Slots, Hosted
  <2> QED
    BY <2>2, <2>3
<1>5. CASE CreateFails(i)
  <2>1. /\ boots[i] # "none" /\ i \notin listed /\ boots' = [boots EXCEPT ![i] = "none"]
        /\ overlay' = overlay \ {i}
        /\ ensure' = IF boots[i] = "waited" THEN [ensure EXCEPT ![owner[i]] = Idle] ELSE ensure
        /\ UNCHANGED <<faulty, proc, slot, owner, listed, orphans, abandoned, killing,
                       reaper, deaths>>
    BY <1>5 DEF CreateFails
  <2>2. TypeOK'
    BY <1>1, <2>1 DEF TypeOK, Idle
  <2>3. Attempts'
    BY <1>1, <2>1 DEF TypeOK, Attempts
  <2>4. Boots'
    BY <1>1, <2>1 DEF TypeOK, Boots
  <2>5. Slots' /\ Hosted' /\ NoneIsLost'
    BY <1>1, <2>1, <2>2 DEF TypeOK, Slots, Hosted, NoneIsLost
  <2> QED
    BY <2>3, <2>4, <2>5 DEF IInv
<1> QED
  BY <1>2, <1>3, <1>4, <1>5 DEF Petri

LEMMA TimesOutInv ==
    ASSUME IInv, NEW p \in Pids, TimesOut(p)
    PROVE  IInv'
<1> DEFINE i == ensure[p].id
           given == [boots EXCEPT ![i] = "abandoned"]
<1>1. TypeOK /\ Attempts /\ Boots /\ Slots /\ Hosted /\ NoneIsLost
  BY DEF IInv, NoneIsLost
<1>2. /\ ensure[p] # Idle /\ killing' = killing \cup {i}
      /\ UNCHANGED <<faulty, proc, slot, listed, overlay, reaper, deaths>>
  BY DEF TimesOut
<1>3. /\ i \in Ids /\ owner[i] = p /\ boots[i] = "waited" /\ proc[p] = "host" /\ slot[p] = NoVm
      /\ i \notin orphans
  BY <1>1, <1>2 DEF Attempts, Boots
<1>4. CASE ensure[p].attempt = 1
  <2>1. PICK j \in Ids : Creates(p, 2, j, given) /\ abandoned' = (abandoned \ {j}) \cup {i}
    BY <1>4 DEF TimesOut
  <2>2. /\ boots[j] = "none" /\ j \notin listed \cup killing /\ j # i
        /\ ensure' = [ensure EXCEPT ![p] = [attempt |-> 2, id |-> j]]
        /\ boots' = [given EXCEPT ![j] = "waited"]
        /\ owner' = [owner EXCEPT ![j] = p] /\ orphans' = orphans \ {j}
    BY <1>3, <2>1 DEF Creates, Unused
  <2>3. TypeOK'
    BY <1>1, <1>2, <1>3, <2>1, <2>2 DEF TypeOK
  <2>4. Attempts'
    BY <1>1, <1>2, <1>3, <2>1, <2>2 DEF TypeOK, Attempts
  <2>5. Boots'
    BY <1>1, <1>2, <1>3, <2>1, <2>2 DEF TypeOK, Boots
  <2>6. Slots'
    BY <1>1, <1>2, <1>3, <2>1, <2>2 DEF TypeOK, Slots
  <2>7. Hosted'
    BY <1>1, <1>2, <1>3, <2>1, <2>2 DEF TypeOK, Hosted
  <2>8. NoneIsLost'
    BY <1>1, <1>2, <1>3, <2>1, <2>2, <2>3 DEF TypeOK, NoneIsLost
  <2> QED
    BY <2>4, <2>5, <2>6, <2>7, <2>8 DEF IInv
<1>5. CASE ensure[p].attempt # 1
  <2>1. /\ ensure' = [ensure EXCEPT ![p] = Idle] /\ boots' = given
        /\ abandoned' = abandoned \cup {i} /\ UNCHANGED <<owner, orphans>>
    BY <1>5 DEF TimesOut
  <2>2. TypeOK'
    BY <1>1, <1>2, <1>3, <2>1 DEF TypeOK, Idle
  <2>3. Attempts'
    BY <1>1, <1>2, <1>3, <2>1 DEF TypeOK, Attempts
  <2>4. Boots'
    BY <1>1, <1>2, <1>3, <2>1 DEF TypeOK, Boots
  <2>5. Slots' /\ Hosted' /\ NoneIsLost'
    BY <1>1, <1>2, <1>3, <2>1, <2>2 DEF TypeOK, Slots, Hosted, NoneIsLost
  <2> QED
    BY <2>3, <2>4, <2>5 DEF IInv
<1> QED
  BY <1>4, <1>5

LEMMA CancelledInv ==
    ASSUME IInv, NEW p \in Pids, Cancelled(p)
    PROVE  IInv'
<1>1. TypeOK /\ Attempts /\ Boots /\ Slots /\ Hosted /\ NoneIsLost
  BY DEF IInv, NoneIsLost
<1>2. PICK i : i = ensure[p].id
  OBVIOUS
<1>3. /\ i \in Ids /\ owner[i] = p /\ boots[i] = "waited" /\ i \notin orphans
      /\ proc[p] = "host"
  BY <1>1, <1>2 DEF Cancelled, Attempts, Boots
<1>4. /\ ensure' = [ensure EXCEPT ![p] = Idle] /\ boots' = [boots EXCEPT ![i] = "abandoned"]
      /\ abandoned' = abandoned \cup {i}
      /\ UNCHANGED <<faulty, proc, slot, owner, listed, overlay, orphans, killing, reaper, deaths>>
  BY <1>2 DEF Cancelled
<1>5. TypeOK'
  BY <1>1, <1>3, <1>4 DEF TypeOK, Idle
<1>6. Attempts' /\ Boots'
  BY <1>1, <1>3, <1>4 DEF TypeOK, Attempts, Boots
<1>7. Slots' /\ Hosted' /\ NoneIsLost'
  BY <1>1, <1>3, <1>4, <1>5 DEF TypeOK, Slots, Hosted, NoneIsLost
<1> QED
  BY <1>6, <1>7 DEF IInv

LEMMA ShutsDownInv ==
    ASSUME IInv, NEW p \in Pids, ShutsDown(p)
    PROVE  IInv'
<1>1. TypeOK /\ Attempts /\ Boots /\ Slots /\ Hosted /\ NoneIsLost
  BY DEF IInv, NoneIsLost
<1>2. /\ slot[p] # NoVm /\ ensure[p] = Idle
      /\ killing' = killing \cup {slot[p]} /\ slot' = [slot EXCEPT ![p] = NoVm]
      /\ UNCHANGED <<faulty, proc, ensure, boots, owner, listed, overlay, orphans,
                     abandoned, reaper, deaths>>
  BY DEF ShutsDown
<1>3. TypeOK'
  BY <1>1, <1>2 DEF TypeOK
<1>4. Attempts' /\ Boots' /\ Slots' /\ Hosted'
  BY <1>1, <1>2 DEF TypeOK, Attempts, Boots, Slots, Hosted
<1>5. NoneIsLost'
  BY <1>1, <1>2, <1>3 DEF TypeOK, NoneIsLost
<1> QED
  BY <1>4, <1>5 DEF IInv

LEMMA KillsInv ==
    ASSUME IInv, NEW i \in Ids, Kills(i)
    PROVE  IInv'
<1>1. TypeOK /\ Attempts /\ Boots /\ Slots /\ Hosted /\ NoneIsLost
  BY DEF IInv, NoneIsLost
<1>2. /\ i \in killing /\ killing' = killing \ {i}
      /\ UNCHANGED <<faulty, proc, slot, ensure, owner, orphans, abandoned, reaper, deaths>>
  BY DEF Kills
<1>3. CASE /\ listed' = listed \ {i} /\ overlay' = overlay \ {i}
           /\ boots' = [boots EXCEPT ![i] = "none"]
  <2>1. TypeOK'
    BY <1>1, <1>2, <1>3 DEF TypeOK
  <2>2. boots[i] # "waited"
    BY <1>1, <1>2 DEF Boots
  <2>3. Attempts' /\ Boots' /\ Slots' /\ Hosted'
    BY <1>1, <1>2, <1>3, <2>2 DEF TypeOK, Attempts, Boots, Slots, Hosted
  <2>4. NoneIsLost'
    BY <1>1, <1>2, <1>3, <2>1 DEF TypeOK, NoneIsLost
  <2> QED
    BY <2>3, <2>4 DEF IInv
<1>4. CASE (i \notin listed \/ faulty) /\ UNCHANGED <<listed, overlay, boots>>
  BY <1>1, <1>2, <1>4 DEF IInv, NoneIsLost, TypeOK, Attempts, Boots, Slots, Hosted
<1> QED
  BY <1>3, <1>4 DEF Kills

-----------------------------------------------------------------------------
(* Hosts come and go.                                                      *)

LEMMA DiesInv ==
    ASSUME IInv, NEW p \in Pids, Dies(p)
    PROVE  IInv'
<1>1. TypeOK /\ Attempts /\ Boots /\ Slots /\ Hosted /\ NoneIsLost
  BY DEF IInv, NoneIsLost
<1>2. /\ proc' = [proc EXCEPT ![p] = "none"] /\ slot' = [slot EXCEPT ![p] = NoVm]
      /\ ensure' = [ensure EXCEPT ![p] = Idle]
      /\ \A i \in Ids : boots'[i] = IF owner[i] = p /\ i \notin orphans THEN "none" ELSE boots[i]
      /\ \A i \in Ids : i \in killing' <=> i \in killing /\ ~ (owner[i] = p /\ i \notin orphans)
      /\ \A i \in Ids : i \in orphans' <=> i \in orphans \/ owner[i] = p
      /\ UNCHANGED <<faulty, owner, listed, overlay, abandoned>>
  BY DEF Dies, Owned
<1>3. TypeOK'
  <2>1. deaths' \in 0..MaxDeaths
    BY <1>1, PetriVmAssumption DEF Dies, TypeOK
  <2>2. boots' \in [Ids -> {"none", "waited", "abandoned"}]
    BY <1>1 DEF Dies, TypeOK
  <2>3. orphans' \subseteq Ids /\ killing' \subseteq Ids
    BY <1>1 DEF Dies, TypeOK, Owned
  <2>4. reaper' \in [Pids -> [at : Stages, ids : SUBSET Ids]]
    BY <1>1 DEF Dies, TypeOK, Done, Stages
  <2>5. ensure' \in [Pids -> [attempt : 0..2, id : Ids \cup {NoVm}]]
    BY <1>1, <1>2 DEF TypeOK, Idle
  <2>6. /\ proc' \in [Pids -> {"none", "host", "other"}]
        /\ slot' \in [Pids -> Ids \cup {NoVm}]
    BY <1>1, <1>2 DEF TypeOK
  <2> QED
    BY <1>1, <1>2, <2>1, <2>2, <2>3, <2>4, <2>5, <2>6 DEF TypeOK
<1>4. Attempts'
  BY <1>1, <1>2 DEF TypeOK, Attempts
<1>5. Boots'
  BY <1>1, <1>2 DEF TypeOK, Boots
<1>6. Slots'
  BY <1>1, <1>2 DEF TypeOK, Slots
<1>7. Hosted'
  BY <1>1, <1>2 DEF TypeOK, Hosted
<1>8. NoneIsLost'
  BY <1>1, <1>2, <1>3 DEF TypeOK, NoneIsLost
<1> QED
  BY <1>4, <1>5, <1>6, <1>7, <1>8 DEF IInv

\* A pid that nothing runs under is taken, by a host or by something else.
LEMMA TakenInv ==
    ASSUME IInv, NEW p \in Pids, Starts(p) \/ PidTaken(p)
    PROVE  IInv'
<1>1. TypeOK /\ Attempts /\ Boots /\ Slots /\ Hosted /\ NoneIsLost
  BY DEF IInv, NoneIsLost
<1>2. /\ proc[p] = "none"
      /\ \/ proc' = [proc EXCEPT ![p] = "host"]
         \/ proc' = [proc EXCEPT ![p] = "other"]
      /\ UNCHANGED <<faulty, slot, ensure, boots, owner, listed, overlay, orphans, abandoned,
                     killing, deaths>>
  BY DEF Starts, PidTaken, vms
<1>3. TypeOK'
  <2>1. reaper' \in [Pids -> [at : Stages, ids : SUBSET Ids]]
    <3>1. CASE Starts(p)
      BY <1>1, <3>1 DEF Starts, TypeOK, Stages
    <3>2. CASE PidTaken(p)
      BY <1>1, <3>2 DEF PidTaken, TypeOK
    <3> QED
      BY <3>1, <3>2
  <2> QED
    BY <1>1, <1>2, <2>1 DEF TypeOK
<1>4. Attempts' /\ Boots' /\ Slots' /\ Hosted'
  BY <1>1, <1>2 DEF TypeOK, Attempts, Boots, Slots, Hosted
<1>5. NoneIsLost'
  BY <1>1, <1>2, <1>3 DEF TypeOK, NoneIsLost
<1> QED
  BY <1>4, <1>5 DEF IInv

\* Reaping takes down VMs without a host, and overlays.
LEMMA ReapingInv ==
    ASSUME IInv, NEW p \in Pids, Reaping(p)
    PROVE  IInv' /\ listed \ listed' \subseteq orphans
<1>1. TypeOK /\ Attempts /\ Boots /\ Slots /\ Hosted /\ NoneIsLost
  BY DEF IInv, NoneIsLost
<1>2. /\ UNCHANGED <<faulty, proc, slot, ensure, boots, owner, orphans, abandoned, killing, deaths>>
      /\ reaper' \in [Pids -> [at : Stages, ids : SUBSET Ids]]
  <2>1. PICK at \in Stages, next \in Stages, ids \in SUBSET Ids : Reaps(p, at, next, ids)
    <3>1. reaper[p].ids \subseteq Ids /\ listed \subseteq Ids
      BY <1>1 DEF TypeOK
    <3>2. CASE ReapLists(p)
      BY <3>1, <3>2 DEF ReapLists, Stages
    <3>3. CASE ReapsVm(p)
      BY <3>1, <3>3 DEF ReapsVm, Stages
    <3>4. CASE ReapedVms(p)
      BY <3>4 DEF ReapedVms, Stages
    <3>5. CASE ScratchLists(p)
      BY <3>1, <3>5 DEF ScratchLists, Stages
    <3>6. CASE ScratchRemoved(p)
      BY <3>6 DEF ScratchRemoved, Stages
    <3> QED
      BY <3>2, <3>3, <3>4, <3>5, <3>6 DEF Reaping
  <2> QED
    BY <1>1, <2>1 DEF Reaps, TypeOK
<1>3. overlay' \subseteq overlay /\ listed' \subseteq listed /\ listed \ listed' \subseteq orphans
  <2>1. CASE ReapsVm(p)
    <3>1. PICK i \in reaper[p].ids :
             /\ \/ proc[owner[i]] = "none" /\ listed' = listed \ {i}
                \/ UNCHANGED listed
             /\ UNCHANGED overlay
      BY <2>1 DEF ReapsVm
    <3> QED
      BY <3>1, Spared
  <2>2. CASE ReapLists(p) \/ ReapedVms(p) \/ ScratchLists(p) \/ ScratchRemoved(p)
    BY <2>2 DEF ReapLists, ReapedVms, ScratchLists, ScratchRemoved
  <2> QED
    BY <2>1, <2>2 DEF Reaping
<1>4. TypeOK'
  BY <1>1, <1>2, <1>3 DEF TypeOK
<1>5. Attempts' /\ Boots' /\ Slots' /\ Hosted'
  BY <1>1, <1>2, <1>3 DEF TypeOK, Attempts, Boots, Slots, Hosted
<1>6. NoneIsLost'
  BY <1>1, <1>2, <1>3, <1>4 DEF TypeOK, NoneIsLost
<1> QED
  BY <1>3, <1>5, <1>6 DEF IInv

-----------------------------------------------------------------------------
(* The theorems.                                                           *)

\* Only a kill and a reaper take VMs down.
LEMMA NextInv ==
    ASSUME IInv, [Next]_vars
    PROVE  IInv' /\ listed \ listed' \subseteq killing \cup orphans
<1>1. ASSUME NEW p \in Pids, Ensures(p)
      PROVE  IInv' /\ listed' = listed
  BY <1>1, EnsuresInv DEF Ensures
<1>2. ASSUME NEW p \in Pids, TimesOut(p)
      PROVE  IInv' /\ listed' = listed
  BY <1>2, TimesOutInv DEF TimesOut
<1>3. ASSUME NEW p \in Pids, Cancelled(p)
      PROVE  IInv' /\ listed' = listed
  BY <1>3, CancelledInv DEF Cancelled
<1>4. ASSUME NEW p \in Pids, ShutsDown(p)
      PROVE  IInv' /\ listed' = listed
  BY <1>4, ShutsDownInv DEF ShutsDown
<1>5. ASSUME NEW p \in Pids, Starts(p) \/ PidTaken(p)
      PROVE  IInv' /\ listed' = listed
  BY <1>5, TakenInv DEF Starts, PidTaken, vms
<1>6. ASSUME NEW p \in Pids, Dies(p)
      PROVE  IInv' /\ listed' = listed
  BY <1>6, DiesInv DEF Dies
<1>7. ASSUME NEW p \in Pids, Reaping(p)
      PROVE  IInv' /\ listed \ listed' \subseteq orphans
  BY <1>7, ReapingInv
<1>8. ASSUME NEW i \in Ids, Petri(i)
      PROVE  IInv' /\ listed \subseteq listed'
  BY <1>8, PetriInv DEF Petri, OverlayMade, Listed, CreateReturns, CreateFails
<1>9. ASSUME NEW i \in Ids, Kills(i)
      PROVE  IInv' /\ listed \ listed' \subseteq killing
  BY <1>9, KillsInv DEF Kills
<1>10. ASSUME UNCHANGED vars
       PROVE  IInv' /\ listed' = listed
  BY <1>10 DEF vars, IInv, NoneIsLost, TypeOK, Attempts, Boots, Slots, Hosted
<1> QED
  BY <1>1, <1>2, <1>3, <1>4, <1>5, <1>6, <1>7, <1>8, <1>9, <1>10 DEF Next

LEMMA InvHolds == Spec => []IInv
<1>1. IInv /\ [Next]_vars => IInv'
  BY NextInv
<1> QED
  BY <1>1, InitInv, PTL DEF Spec

\* A VM of a host that is alive is in its slot, being booted or being killed, unless its
\* boot was given up: ensure_vm, its retry and the shutdown never lose one.
THEOREM NoVmIsLost == Spec => []NoneIsLost
<1>1. IInv => NoneIsLost
  BY DEF IInv
<1> QED
  BY <1>1, InvHolds, PTL

\* The check of the owner's pid is enough: no reaper takes a VM from a host that is
\* alive, for all that pids are given again.
THEOREM OwnedAreSpared == Spec => ReapSparesOwned
<1>1. IInv /\ [Next]_vars => [listed \ listed' \subseteq killing \cup orphans]_vars
  BY NextInv
<1> QED
  BY <1>1, InvHolds, PTL DEF Spec, ReapSparesOwned

=============================================================================
