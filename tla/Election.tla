------------------------------ MODULE Election ------------------------------
(***************************************************************************)
(* The election of the leading dash: etcd.Elect (src/lib/etcd/etcd.go),    *)
(* which every DashServer.Run starts, over etcd's leases.                  *)
(*                                                                         *)
(* Elect takes one lease for all its life.  Every 400 ms it renews the     *)
(* lease, ignoring the result, and tries to create the leader key with it. *)
(* Any error of that transaction ends Elect for good, and nobody starts it *)
(* again: the dash keeps serving but never competes again.                 *)
(*                                                                         *)
(* A dash is known by the address it listens on, so no two have one name.  *)
(***************************************************************************)
EXTENDS Naturals

CONSTANTS
    Dashes,         \* dash processes, by address (selfID)
    Lease,          \* bound: lease IDs in use at one time
    Nobody,
    MaxFaults       \* bound: failed requests, lost leases and crashes

ASSUME ElectionAssumption == Nobody \notin Dashes \cup Lease /\ MaxFaults \in Nat

VARIABLES
    elect,          \* where the Elect of a dash is
    leaseOf,        \* the lease it was granted
    live,           \* etcd: the leases that have not ended
    leader,         \* etcd: the leader key with the lease it is bound to
    faults

electionVars == <<elect, leaseOf, live, leader, faults>>

(* "off": the process is down; "loop": its Elect runs; "over": the process is
   up and its Elect has returned. *)
ElectPlace == {"off", "loop", "over"}

ElectionTypeOK ==
    /\ elect \in [Dashes -> ElectPlace]
    /\ leaseOf \in [Dashes -> Lease \cup {Nobody}]
    /\ live \in SUBSET Lease
    /\ leader \in [ElectorID : Dashes, LeaseID : Lease] \cup {Nobody}
    /\ faults \in 0..MaxFaults

Fault == faults < MaxFaults /\ faults' = faults + 1
ElectGoto(d, place) == elect' = [elect EXCEPT ![d] = place]

(* The leases somebody still refers to; an ID is not given out twice. *)
Referred == live \cup {leaseOf[d] : d \in Dashes}

-----------------------------------------------------------------------------

ElectionInit ==
    /\ elect = [d \in Dashes |-> "off"]
    /\ leaseOf = [d \in Dashes |-> Nobody]
    /\ live = {}
    /\ leader = Nobody
    /\ faults = 0

(* DashServer.Run: the address is free, Elect is started and granted a
   lease. *)
Elect(d) ==
    /\ elect[d] = "off"
    /\ Lease \ Referred # {}
    /\ LET i == CHOOSE i \in Lease \ Referred : TRUE IN
        /\ leaseOf' = [leaseOf EXCEPT ![d] = i]
        /\ live' = live \cup {i}
    /\ ElectGoto(d, "loop")
    /\ UNCHANGED <<leader, faults>>

GrantFails(d) ==
    /\ elect[d] = "off"
    /\ Fault
    /\ ElectGoto(d, "over")
    /\ UNCHANGED <<leaseOf, live, leader>>

Created_NoLease(d) ==           \* mutant: the key is put without WithLease
    leader' = [ElectorID |-> d, LeaseID |-> Nobody]

Created(d) == leader' = [ElectorID |-> d, LeaseID |-> leaseOf[d]]

Campaign_NoCompare(d) ==        \* mutant: the key is put unconditionally
    /\ elect[d] = "loop"
    /\ leaseOf[d] \in live
    /\ Created(d)
    /\ UNCHANGED <<elect, leaseOf, live, faults>>

(***************************************************************************)
(* Once round the loop: KeepAliveOnce, whose result is ignored (Renewed    *)
(* stands for its effect), then the transaction "if the leader key does    *)
(* not exist, put it with my lease".  While the key exists nothing is put  *)
(* and no error arises, even when the lease has ended, so there is no      *)
(* step; when it does not, the Put needs the lease.                        *)
(***************************************************************************)
Campaign(d) ==
    /\ elect[d] = "loop"
    /\ leader = Nobody
    /\ \/ /\ leaseOf[d] \in live
          /\ Created(d)
          /\ UNCHANGED elect
       \/ /\ leaseOf[d] \notin live
          /\ ElectGoto(d, "over")
          /\ UNCHANGED leader
    /\ UNCHANGED <<leaseOf, live, faults>>

(* The transaction fails on the way there or on the way back. *)
CampaignFails(d) ==
    /\ elect[d] = "loop"
    /\ Fault
    /\ \/ UNCHANGED leader
       \/ leader = Nobody /\ leaseOf[d] \in live /\ Created(d)
    /\ ElectGoto(d, "over")
    /\ UNCHANGED <<leaseOf, live>>

(***************************************************************************)
(* A lease ends with the key bound to it: because nobody renews it, or,    *)
(* while its Elect still runs, because three seconds of renewals did not   *)
(* reach etcd.                                                             *)
(***************************************************************************)
Renewed(i) == \E d \in Dashes : leaseOf[d] = i /\ elect[d] = "loop"

EndLease_KeyStays(i) ==         \* mutant: the key was put without its lease
    /\ i \in live
    /\ live' = live \ {i}
    /\ UNCHANGED <<elect, leaseOf, leader>>

EndLease(i) ==
    /\ i \in live
    /\ live' = live \ {i}
    /\ leader' = IF leader # Nobody /\ leader.LeaseID = i THEN Nobody ELSE leader
    /\ UNCHANGED <<elect, leaseOf>>

Expire(i) == ~Renewed(i) /\ EndLease(i) /\ UNCHANGED faults
LoseLease(i) == Renewed(i) /\ EndLease(i) /\ Fault

(* The process dies; etcd keeps its lease until it ends. *)
ElectCrash(d) ==
    /\ elect[d] # "off"
    /\ Fault
    /\ ElectGoto(d, "off")
    /\ leaseOf' = [leaseOf EXCEPT ![d] = Nobody]
    /\ UNCHANGED <<live, leader>>

-----------------------------------------------------------------------------

ElectionNext ==
    \/ \E d \in Dashes : Elect(d) \/ GrantFails(d) \/ Campaign(d) \/ CampaignFails(d)
    \/ \E i \in Lease : Expire(i) \/ LoseLease(i)

(* Elect's loop goes on and etcd ends leases that nobody renews. *)
ElectionFairness ==
    /\ \A d \in Dashes : WF_electionVars(Campaign(d))
    /\ WF_electionVars(\E i \in Lease : Expire(i))

-----------------------------------------------------------------------------

(***************************************************************************)
(* Leadership changes hands only through the end of the leader's lease:    *)
(* no campaign, lost answer, restart or second Elect of the same dash      *)
(* replaces a leader whose lease lives.                                    *)
(***************************************************************************)
LeadsUntilLeaseEnds ==
    [][leader # Nobody => leader' = leader \/ leader.LeaseID \notin live']_electionVars

(* In the race: Elect's loop runs with a lease that etcd still knows; and
   the one in the race that has the leader key, with that lease. *)
Competes(d) == elect[d] = "loop" /\ leaseOf[d] \in live
Leads(d) == Competes(d) /\ leader = [ElectorID |-> d, LeaseID |-> leaseOf[d]]

(***************************************************************************)
(* While dashes are in the race, one of them comes to lead, whoever has    *)
(* the leader key now: the key of a leader that crashed, of one whose      *)
(* Elect returned after an answer was lost, or of an earlier life under    *)
(* the same address makes way, and the next campaign takes it.             *)
(***************************************************************************)
LeaderFound ==
    (\E d \in Dashes : Competes(d))
        ~> \/ \E d \in Dashes : Leads(d)
           \/ \A d \in Dashes : ~Competes(d)

=============================================================================
