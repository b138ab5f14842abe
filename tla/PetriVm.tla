------------------------------- MODULE PetriVm -------------------------------
(***************************************************************************)
(* The microVMs of spore-core (sandbox_petri.rs): each host process keeps  *)
(* one VM for its commands, boots it on first use with a timeout and one   *)
(* retry, and kills it on shutdown.  A host that dies takes nothing down;  *)
(* a host that starts reaps the VMs whose owner is gone, and then the      *)
(* scratch overlays of VMs that are not listed.                            *)
(*                                                                         *)
(* A VM is named by its id, which is never given twice: the name returns   *)
(* here when nothing is left of the VM.  The petri runtime is external: it *)
(* makes the overlay of a VM, then lists it, then the create returns.      *)
(***************************************************************************)
EXTENDS Integers, FiniteSets

CONSTANTS
    Pids, Ids,
    NoVm,
    MaxHosts,   \* bound: hosts up at one time
    MaxDeaths,  \* bound: hosts that die
    Faults      \* whether list and teardown may fail

ASSUME PetriVmAssumption ==
    /\ NoVm \notin Ids
    /\ {MaxHosts, MaxDeaths} \subseteq Nat
    /\ Faults \subseteq BOOLEAN

VARIABLES
    faulty,
    proc,       \* what runs under a pid: "none", a "host", or an "other" process
    slot,       \* the VM of a host
    ensure,     \* the attempt of ensure_vm a host is in, 0 for none, and its VM
    boots,      \* create calls in the blocking pool, waited for or abandoned
    owner,      \* the pid in the metadata
    listed,     \* the VMs there are
    overlay,    \* the scratch directories there are
    orphans,    \* VMs whose host has died
    abandoned,  \* VMs whose boot was given up
    killing,    \* kills and teardowns on a thread of the owner
    reaper,     \* where a host is with the reaping, and the ids it holds
    deaths

vars == <<faulty, proc, slot, ensure, boots, owner, listed, overlay, orphans,
          abandoned, killing, reaper, deaths>>

vms == <<boots, owner, listed, overlay, orphans, abandoned, killing>>

Stages == {"list", "vms", "list scratch", "scratch", "done"}

TypeOK ==
    /\ faulty \in Faults
    /\ proc \in [Pids -> {"none", "host", "other"}]
    /\ slot \in [Pids -> Ids \cup {NoVm}]
    /\ ensure \in [Pids -> [attempt : 0..2, id : Ids \cup {NoVm}]]
    /\ boots \in [Ids -> {"none", "waited", "abandoned"}]
    /\ owner \in [Ids -> Pids]
    /\ listed \subseteq Ids /\ overlay \subseteq Ids
    /\ orphans \subseteq Ids /\ abandoned \subseteq Ids /\ killing \subseteq Ids
    /\ reaper \in [Pids -> [at : Stages, ids : SUBSET Ids]]
    /\ deaths \in 0..MaxDeaths

Idle == [attempt |-> 0, id |-> NoVm]
Done == [at |-> "done", ids |-> {}]

Init ==
    /\ faulty \in Faults
    /\ proc = [p \in Pids |-> "none"]
    /\ slot = [p \in Pids |-> NoVm]
    /\ ensure = [p \in Pids |-> Idle]
    /\ boots = [i \in Ids |-> "none"]
    /\ owner \in {[i \in Ids |-> p] : p \in Pids}
    /\ listed = {} /\ overlay = {} /\ orphans = {} /\ abandoned = {} /\ killing = {}
    /\ reaper = [p \in Pids |-> Done]
    /\ deaths = 0

Up(p) == proc[p] = "host" /\ reaper[p] = Done

Owned(p) == {i \in Ids : owner[i] = p /\ i \notin orphans}

-----------------------------------------------------------------------------
(* ensure_vm, which holds the slot while it waits.                         *)

\* Nothing is left of a VM of this name.
Unused(i) ==
    /\ boots[i] = "none" /\ i \notin listed \cup overlay \cup killing
    /\ \A p \in Pids : i \notin reaper[p].ids

\* The create of a fresh VM goes to the blocking pool, tagged with the owner.
Creates(p, attempt, i, given) ==
    /\ Unused(i)
    /\ ensure' = [ensure EXCEPT ![p] = [attempt |-> attempt, id |-> i]]
    /\ boots' = [given EXCEPT ![i] = "waited"]
    /\ owner' = [owner EXCEPT ![i] = p]
    /\ orphans' = orphans \ {i}

\* Mistaken: the slot is not looked at.
EnsuresAnother(p) ==
    /\ Up(p) /\ ensure[p] = Idle
    /\ \E i \in Ids : Creates(p, 1, i, boots) /\ abandoned' = abandoned \ {i}
    /\ UNCHANGED <<faulty, proc, slot, listed, overlay, killing, reaper, deaths>>

Ensures(p) ==
    /\ Up(p) /\ slot[p] = NoVm /\ ensure[p] = Idle
    /\ \E i \in Ids : Creates(p, 1, i, boots) /\ abandoned' = abandoned \ {i}
    /\ UNCHANGED <<faulty, proc, slot, listed, overlay, killing, reaper, deaths>>

\* Petri makes progress, whether anyone waits or not.
OverlayMade(i) ==
    /\ boots[i] # "none" /\ i \notin overlay \cup listed
    /\ overlay' = overlay \cup {i}
    /\ UNCHANGED <<faulty, proc, slot, ensure, boots, owner, listed, orphans,
                   abandoned, killing, reaper, deaths>>

Listed(i) ==
    /\ boots[i] # "none" /\ i \in overlay \ listed
    /\ listed' = listed \cup {i}
    /\ UNCHANGED <<faulty, proc, slot, ensure, boots, owner, overlay, orphans,
                   abandoned, killing, reaper, deaths>>

\* What an abandoned create returns is dropped, and the VM is left running.
CreateReturns(i) ==
    /\ boots[i] # "none" /\ i \in listed
    /\ boots' = [boots EXCEPT ![i] = "none"]
    /\ IF boots[i] = "waited"
       THEN /\ slot' = [slot EXCEPT ![owner[i]] = i]
            /\ ensure' = [ensure EXCEPT ![owner[i]] = Idle]
       ELSE UNCHANGED <<slot, ensure>>
    /\ UNCHANGED <<faulty, proc, owner, listed, overlay, orphans, abandoned,
                   killing, reaper, deaths>>

\* An error, or a panic, is returned at once; petri takes back what it made.
CreateFails(i) ==
    /\ boots[i] # "none" /\ i \notin listed
    /\ boots' = [boots EXCEPT ![i] = "none"]
    /\ overlay' = overlay \ {i}
    /\ ensure' = IF boots[i] = "waited" THEN [ensure EXCEPT ![owner[i]] = Idle] ELSE ensure
    /\ UNCHANGED <<faulty, proc, slot, owner, listed, orphans, abandoned, killing,
                   reaper, deaths>>

\* The first boot that hangs is abandoned for another, the second for an error; a
\* teardown of it is sent to the pool.
TimesOut(p) ==
    /\ ensure[p] # Idle
    /\ LET i == ensure[p].id
           given == [boots EXCEPT ![i] = "abandoned"]
       IN  /\ killing' = killing \cup {i}
           /\ IF ensure[p].attempt = 1
              THEN \E j \in Ids : Creates(p, 2, j, given) /\ abandoned' = (abandoned \ {j}) \cup {i}
              ELSE /\ ensure' = [ensure EXCEPT ![p] = Idle] /\ boots' = given
                   /\ abandoned' = abandoned \cup {i}
                   /\ UNCHANGED <<owner, orphans>>
    /\ UNCHANGED <<faulty, proc, slot, listed, overlay, reaper, deaths>>

\* The caller of the command goes away in the middle of the boot: no teardown.
Cancelled(p) ==
    /\ ensure[p] # Idle
    /\ ensure' = [ensure EXCEPT ![p] = Idle]
    /\ boots' = [boots EXCEPT ![ensure[p].id] = "abandoned"]
    /\ abandoned' = abandoned \cup {ensure[p].id}
    /\ UNCHANGED <<faulty, proc, slot, owner, listed, overlay, orphans, killing,
                   reaper, deaths>>

\* shutdown, and the drop of the provider.
ShutsDown(p) ==
    /\ Up(p) /\ slot[p] # NoVm /\ ensure[p] = Idle
    /\ killing' = killing \cup {slot[p]}
    /\ slot' = [slot EXCEPT ![p] = NoVm]
    /\ UNCHANGED <<faulty, proc, ensure, boots, owner, listed, overlay, orphans,
                   abandoned, reaper, deaths>>

\* backend.teardown and Sandbox::kill, which end a boot too: nothing for a VM that
\* is not there yet; the error of one that cannot be taken down is dropped.
Kills(i) ==
    /\ i \in killing
    /\ killing' = killing \ {i}
    /\ \/ /\ i \in listed
          /\ listed' = listed \ {i} /\ overlay' = overlay \ {i}
          /\ boots' = [boots EXCEPT ![i] = "none"]
       \/ (i \notin listed \/ faulty) /\ UNCHANGED <<listed, overlay, boots>>
    /\ UNCHANGED <<faulty, proc, slot, ensure, owner, orphans, abandoned, reaper, deaths>>

-----------------------------------------------------------------------------
(* Hosts come and go.                                                      *)

Hosts == {p \in Pids : proc[p] = "host"}

\* Mistaken: a host does not reap.
StartsAtOnce(p) ==
    /\ proc[p] = "none" /\ Cardinality(Hosts) < MaxHosts
    /\ proc' = [proc EXCEPT ![p] = "host"]
    /\ UNCHANGED <<faulty, slot, ensure, vms, reaper, deaths>>

\* A host starts under any free pid, and reaps before it boots anything.
Starts(p) ==
    /\ proc[p] = "none" /\ Cardinality(Hosts) < MaxHosts
    /\ proc' = [proc EXCEPT ![p] = "host"]
    /\ reaper' = [reaper EXCEPT ![p] = [at |-> "list", ids |-> {}]]
    /\ UNCHANGED <<faulty, slot, ensure, vms, deaths>>

\* Its threads die with it, its VM does not.
Dies(p) ==
    /\ proc[p] = "host" /\ deaths < MaxDeaths /\ deaths' = deaths + 1
    /\ proc' = [proc EXCEPT ![p] = "none"]
    /\ slot' = [slot EXCEPT ![p] = NoVm]
    /\ ensure' = [ensure EXCEPT ![p] = Idle]
    /\ boots' = [i \in Ids |-> IF i \in Owned(p) THEN "none" ELSE boots[i]]
    /\ killing' = killing \ Owned(p)
    /\ orphans' = orphans \cup Owned(p)
    /\ reaper' = [reaper EXCEPT ![p] = Done]
    /\ UNCHANGED <<faulty, owner, listed, overlay, abandoned>>

\* Pids are given again, to processes of any kind (bound: the other ones stay).
PidTaken(p) ==
    /\ proc[p] = "none"
    /\ proc' = [proc EXCEPT ![p] = "other"]
    /\ UNCHANGED <<faulty, slot, ensure, vms, reaper, deaths>>

Reaps(p, at, next, ids) ==
    /\ reaper[p].at = at
    /\ reaper' = [reaper EXCEPT ![p] = [at |-> next, ids |-> ids]]
    /\ UNCHANGED <<faulty, proc, slot, ensure, boots, owner, orphans, abandoned,
                   killing, deaths>>

\* Nothing to reap when the list fails.
ReapLists(p) ==
    /\ \/ Reaps(p, "list", "vms", listed)
       \/ faulty /\ Reaps(p, "list", "vms", {})
    /\ UNCHANGED <<listed, overlay>>

\* Mistaken: whoever is listed goes.
ReapsAny(p) ==
    \E i \in reaper[p].ids :
        /\ Reaps(p, "vms", "vms", reaper[p].ids \ {i})
        /\ listed' = listed \ {i} /\ UNCHANGED overlay

\* One VM of the list: spared when a process with its owner's pid is alive.
ReapsVm(p) ==
    \E i \in reaper[p].ids :
        /\ Reaps(p, "vms", "vms", reaper[p].ids \ {i})
        /\ \/ proc[owner[i]] = "none" /\ listed' = listed \ {i}
           \/ proc[owner[i]] # "none" /\ UNCHANGED listed
           \/ faulty /\ UNCHANGED listed
        /\ UNCHANGED overlay

ReapedVms(p) ==
    /\ reaper[p].ids = {} /\ Reaps(p, "vms", "list scratch", {})
    /\ UNCHANGED <<listed, overlay>>

\* The live VMs; none when the list fails.
ScratchLists(p) ==
    /\ \/ Reaps(p, "list scratch", "scratch", listed)
       \/ faulty /\ Reaps(p, "list scratch", "scratch", {})
    /\ UNCHANGED <<listed, overlay>>

ScratchRemoved(p) ==
    /\ Reaps(p, "scratch", "done", {})
    /\ overlay' = overlay \cap reaper[p].ids
    /\ UNCHANGED listed

Reaping(p) ==
    ReapLists(p) \/ ReapsVm(p) \/ ReapedVms(p) \/ ScratchLists(p) \/ ScratchRemoved(p)

Petri(i) == OverlayMade(i) \/ Listed(i) \/ CreateReturns(i) \/ CreateFails(i)

Next ==
    \/ \E p \in Pids :
          \/ Ensures(p) \/ TimesOut(p) \/ Cancelled(p) \/ ShutsDown(p)
          \/ Starts(p) \/ Dies(p) \/ PidTaken(p) \/ Reaping(p)
    \/ \E i \in Ids : Petri(i) \/ Kills(i)

Spec == Init /\ [][Next]_vars

\* Someone starts a host when there is room for one; a host reaps to the end, and
\* what runs on its threads gets done.
FairSpec ==
    /\ Spec
    /\ WF_vars(\E p \in Pids : Starts(p))
    /\ \A p \in Pids : WF_vars(Reaping(p))
    /\ \A i \in Ids : WF_vars(Kills(i)) /\ WF_vars(Petri(i))

-----------------------------------------------------------------------------
(* What holds.                                                             *)

\* A VM whose host is alive goes away only because that host had it killed: no
\* host reaps another's, however pids are given again.
ReapSparesOwned == [][listed \ listed' \subseteq killing \cup orphans]_vars

\* A VM of a host that is alive is in its slot, being booted or being killed, or it
\* is one whose boot was given up: a shutdown, a retry, a second command never lose
\* one.
NoneIsLost ==
    /\ TypeOK
    /\ ~ faulty => \A i \in listed \ (orphans \cup abandoned) :
          i = slot[owner[i]] \/ boots[i] # "none" \/ i \in killing

\* What a dead host left, its VMs and their overlays, though a VM may never have been
\* listed, is collected by a later start, unless a process has got its pid.
OrphansAreCollected ==
    \A i \in Ids :
        /\ (~ faulty /\ i \in orphans \cap listed)
              ~> (i \notin orphans \cap listed \/ proc[owner[i]] # "none")
        /\ (~ faulty /\ i \in orphans \cap overlay)
              ~> (i \notin orphans \cap overlay \/ proc[owner[i]] # "none")

\* The overlay of a VM that is up and whose host is alive is never removed under it.
OverlaySpared ==
    [][\A i \in listed \cap listed' : i \in overlay \ overlay' => i \in orphans]_vars

=============================================================================
