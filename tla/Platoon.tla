------------------------------ MODULE Platoon ------------------------------
(***************************************************************************)
(* The platoon service, internal/service/platoon.                          *)
(*                                                                         *)
(* Its operations are called by the executor (internal/core/executor) for  *)
(* the transactions of committed blocks, one after the other.  The only    *)
(* other goroutine that changes a platoon is the timeout checker; it       *)
(* looks at a platoon and dissolves it in two steps.  No lock guards a     *)
(* platoon's fields.  The checker writes no field but the status, and of   *)
(* the executor's operations only LeavePlatoon writes the status the       *)
(* checker may have written: it is taken apart into its look at the        *)
(* status, its write and its save, any other call is one action.  A call   *)
(* that returns an error before it changed anything is no step.            *)
(*                                                                         *)
(* A platoon is saved at the end of every operation.  If Put fails the     *)
(* call reports an error and memory is ahead of storage.  A Put that is    *)
(* overtaken by that of the other goroutine leaves in storage what it      *)
(* leaves when it fails.                                                   *)
(***************************************************************************)
EXTENDS Integers, Sequences, FiniteSets

CONSTANTS
    Vehicles,        \* vehicle addresses
    Ids,             \* platoon identifiers
    MaxVehicles,     \* PlatoonParams.MaxVehicles
    ConsensusSize,   \* members an active platoon needs: 4 in the code
    MaxValidators,   \* validators that joins fill up to: 7 in the code
    MaxRequests      \* bound: join requests in one run of the process

ASSUME PlatoonAssumption ==
    /\ MaxVehicles \in Nat
    /\ ConsensusSize \in Nat \ {0}
    /\ MaxValidators \in Nat
    /\ MaxVehicles >= ConsensusSize
    /\ MaxRequests \in Nat

Statuses == {"forming", "active", "understaffed", "dissolved"}
Roles == {"none", "follower", "validator", "leader"}
RequestStatuses == {"pending", "approved", "rejected"}

Platoons == [status: Statuses, leader: Vehicles, members: Seq(Vehicles),
             role: [Vehicles -> Roles], validators: Seq(Vehicles)]
JoinRequests == [platoon: Ids, vehicle: Vehicles, status: RequestStatuses]
Departures == [id: Ids, pc: {"test", "mark", "store"}]

VARIABLES
    platoons,   \* id -> platoon, in memory
    stored,     \* id -> platoon, in storage
    idle,       \* the platoons whose LastActivityAt is older than the timeout
    requests,   \* the join requests, in memory only
    expiring,   \* the platoons the timeout checker found timed out
    leaving     \* the departure the executor is at, if any

vars == <<platoons, stored, idle, requests, expiring, leaving>>

Elems(s) == {s[i] : i \in DOMAIN s}
IndexOf(s, x) == CHOOSE i \in DOMAIN s : s[i] = x

Put(f, k, v) == [x \in DOMAIN f \cup {k} |-> IF x = k THEN v ELSE f[x]]
EmptyMap == [x \in {} |-> 0]

HasMember(p, v) == v \in Elems(p.members)
IsValidator(p, v) == v \in Elems(p.validators)
IsActive(p) == p.status \in {"active", "understaffed"}
CanFormConsensus(p) == Len(p.validators) >= ConsensusSize

Init ==
    /\ platoons = EmptyMap
    /\ stored = EmptyMap
    /\ idle = {}
    /\ requests = <<>>
    /\ expiring = {}
    /\ leaving = {}

\* The platoon is changed in memory and then written; the write may fail, of
\* which the caller only learns.
Save(id, p) ==
    /\ platoons' = Put(platoons, id, p)
    /\ stored' \in {stored, Put(stored, id, p)}

----------------------------------------------------------------------------
\* MUTANT: the status is left at its zero value.
NewPlatoonInactive(v) ==
    [status |-> "inactive",
     leader |-> v,
     members |-> <<v>>,
     role |-> [x \in Vehicles |-> IF x = v THEN "validator" ELSE "none"],
     validators |-> <<v>>]

\* NewPlatoon, AddMember and AddValidator for the leader: the validator role
\* replaces the leader role AddMember was given.
NewPlatoon(v) ==
    [status |-> IF 1 < ConsensusSize THEN "forming" ELSE "active",
     leader |-> v,
     members |-> <<v>>,
     role |-> [x \in Vehicles |-> IF x = v THEN "validator" ELSE "none"],
     validators |-> <<v>>]

\* The validators a transaction names besides are appointed and refused, as
\* they are not members yet.
CreatePlatoon(id, v) ==
    /\ leaving = {}
    /\ id \notin DOMAIN platoons \cup DOMAIN stored
    /\ Save(id, NewPlatoon(v))
    /\ idle' = idle \ {id}
    /\ UNCHANGED <<requests, expiring, leaving>>

SubmitJoinRequest(id, v) ==
    /\ leaving = {}
    /\ id \in DOMAIN platoons
    /\ IsActive(platoons[id]) \/ platoons[id].status = "forming"
    /\ ~HasMember(platoons[id], v)
    /\ Len(platoons[id].members) < MaxVehicles
    /\ Len(requests) < MaxRequests
    /\ requests' = Append(requests, [platoon |-> id, vehicle |-> v, status |-> "pending"])
    /\ UNCHANGED <<platoons, stored, idle, expiring, leaving>>

\* MUTANT: the capacity is left to SubmitJoinRequest.
CanAddMemberUnbounded(p, v) == ~HasMember(p, v)

\* The checks of AddMember.  Nothing in the program blacklists a vehicle.
CanAddMember(p, v) ==
    /\ ~HasMember(p, v)
    /\ Len(p.members) < MaxVehicles

\* MUTANT: the status is recomputed whatever it was.
JoinedReactivates(p, v) ==
    LET validator == Len(p.validators) < MaxValidators
        q == [p EXCEPT
                !.members = Append(@, v),
                !.validators = IF validator THEN Append(@, v) ELSE @,
                !.role = [@ EXCEPT ![v] = IF validator THEN "validator" ELSE "follower"]]
    IN  [q EXCEPT !.status = IF CanFormConsensus(q) THEN "active" ELSE @]

\* The member is added, as a validator while there are few, and a forming
\* platoon with enough validators becomes active.
Joined(p, v) ==
    LET validator == Len(p.validators) < MaxValidators
        q == [p EXCEPT
                !.members = Append(@, v),
                !.validators = IF validator THEN Append(@, v) ELSE @,
                !.role = [@ EXCEPT ![v] = IF validator THEN "validator" ELSE "follower"]]
    IN  [q EXCEPT !.status = IF @ = "forming" /\ CanFormConsensus(q) THEN "active" ELSE @]

\* ProcessJoinRequest with approved = true.  The request is marked before
\* AddMember runs: when AddMember refuses, it stays approved without effect.
\* The platoon's status is not looked at again.
ApproveJoin(r, by) ==
    LET id == requests[r].platoon
        v  == requests[r].vehicle
    IN  /\ leaving = {}
        /\ requests[r].status = "pending"
        /\ id \in DOMAIN platoons
        /\ platoons[id].leader = by
        /\ requests' = [requests EXCEPT ![r].status = "approved"]
        /\ \/ /\ CanAddMember(platoons[id], v)
              /\ Save(id, Joined(platoons[id], v))
              /\ idle' = idle \ {id}
           \/ /\ ~CanAddMember(platoons[id], v)
              /\ UNCHANGED <<platoons, stored, idle>>
        /\ UNCHANGED <<expiring, leaving>>

\* ProcessJoinRequest with approved = false.
RejectJoin(r, by) ==
    /\ leaving = {}
    /\ requests[r].status = "pending"
    /\ requests[r].platoon \in DOMAIN platoons
    /\ platoons[requests[r].platoon].leader = by
    /\ requests' = [requests EXCEPT ![r].status = "rejected"]
    /\ UNCHANGED <<platoons, stored, idle, expiring, leaving>>

----------------------------------------------------------------------------
\* MUTANT: whoever comes first after the leader in the member list.
ReplacementMember(p) ==
    {v \in Elems(p.members) :
        v # p.leader /\ \A i \in 1..(IndexOf(p.members, v) - 1) : p.members[i] = p.leader}

\* handleLeaderLeaving: the first validator that is not the leader, provided
\* there are two validators.
Replacement(p) ==
    {v \in Elems(p.validators) :
        /\ Len(p.validators) > 1
        /\ v # p.leader
        /\ \A i \in 1..(IndexOf(p.validators, v) - 1) : p.validators[i] = p.leader}

HandOver(p, v) ==
    [p EXCEPT !.leader = v, !.role = [@ EXCEPT ![p.leader] = "validator", ![v] = "leader"]]

\* The last element takes the place of x.
SwapRemove(s, x) ==
    [i \in 1..(Len(s) - 1) |-> IF s[i] = x THEN s[Len(s)] ELSE s[i]]

\* x is taken out and the rest moves up.
Remove(s, x) ==
    IF x \in Elems(s)
    THEN [i \in 1..(Len(s) - 1) |-> IF i < IndexOf(s, x) THEN s[i] ELSE s[i + 1]]
    ELSE s

\* MUTANT: the member is removed and stays in the validator list.
DepartedStillValidator(p, v) ==
    [p EXCEPT !.members = SwapRemove(@, v), !.role = [@ EXCEPT ![v] = "none"]]

\* RemoveValidator if it is one, and RemoveMember.
Departed(p, v) ==
    [p EXCEPT !.validators = Remove(@, v),
              !.members = SwapRemove(@, v),
              !.role = [@ EXCEPT ![v] = "none"]]

Leaving(id, pc) == [id |-> id, pc |-> pc]

\* LeavePlatoon up to RemoveMember.  The auto-dissolve of an empty platoon is
\* not reached: the leader is a member and leaves only when a replacement
\* stays.
LeavePlatoon(id, v) ==
    /\ leaving = {}
    /\ id \in DOMAIN platoons
    /\ HasMember(platoons[id], v)
    /\ \/ /\ platoons[id].leader # v
          /\ platoons' = Put(platoons, id, Departed(platoons[id], v))
       \/ /\ platoons[id].leader = v
          /\ \E w \in Replacement(platoons[id]) :
                platoons' = Put(platoons, id, Departed(HandOver(platoons[id], w), v))
    /\ leaving' = {Leaving(id, "test")}
    /\ UNCHANGED <<stored, idle, requests, expiring>>

\* An active platoon that lost too many members ...
TooFew(p) == Len(p.members) < ConsensusSize /\ p.status = "active"

TestStaffing(id) ==
    /\ Leaving(id, "test") \in leaving
    /\ leaving' = {Leaving(id, IF TooFew(platoons[id]) THEN "mark" ELSE "store")}
    /\ UNCHANGED <<platoons, stored, idle, requests, expiring>>

\* ... is marked, whatever its status is by now, and saved.
MarkUnderStaffed(id) ==
    /\ Leaving(id, "mark") \in leaving
    /\ platoons' = Put(platoons, id, [platoons[id] EXCEPT !.status = "understaffed"])
    /\ leaving' = {Leaving(id, "store")}
    /\ UNCHANGED <<stored, idle, requests, expiring>>

StoreDeparture(id) ==
    /\ Leaving(id, "store") \in leaving
    /\ Save(id, platoons[id])
    /\ leaving' = {}
    /\ UNCHANGED <<idle, requests, expiring>>

\* DissolvePlatoon: the members are left in place.
DissolvePlatoon(id) ==
    /\ id \in DOMAIN platoons
    /\ platoons[id].status # "dissolved"
    /\ Save(id, [platoons[id] EXCEPT !.status = "dissolved"])

\* executeDissolvePlatoon, sent by the leader.
LeaderDissolves(id, by) ==
    /\ leaving = {}
    /\ id \in DOMAIN platoons
    /\ platoons[id].leader = by
    /\ DissolvePlatoon(id)
    /\ UNCHANGED <<idle, requests, expiring, leaving>>

\* There is no bound on appointed validators.
AppointValidator(id, v, by) ==
    /\ leaving = {}
    /\ id \in DOMAIN platoons
    /\ platoons[id].leader = by
    /\ HasMember(platoons[id], v)
    /\ ~IsValidator(platoons[id], v)
    /\ Save(id, [platoons[id] EXCEPT !.validators = Append(@, v),
                                     !.role = [@ EXCEPT ![v] = "validator"]])
    /\ UNCHANGED <<idle, requests, expiring, leaving>>

\* The leader may demote itself.
DemoteValidator(id, v, by) ==
    /\ leaving = {}
    /\ id \in DOMAIN platoons
    /\ platoons[id].leader = by
    /\ Len(platoons[id].validators) > 1
    /\ IsValidator(platoons[id], v)
    /\ Save(id, [platoons[id] EXCEPT !.validators = Remove(@, v),
                                     !.role = [@ EXCEPT ![v] = "follower"]])
    /\ UNCHANGED <<idle, requests, expiring, leaving>>

----------------------------------------------------------------------------
\* TimeoutSecs pass since the platoon's last activity.
TimePasses(id) ==
    /\ id \in DOMAIN platoons
    /\ idle' = idle \cup {id}
    /\ UNCHANGED <<platoons, stored, requests, expiring, leaving>>

\* MUTANT: only fully staffed platoons time out.
TimedOutActiveOnly(id) == platoons[id].status = "active" /\ id \in idle

TimedOut(id) == IsActive(platoons[id]) /\ id \in idle

\* checkTimeouts reads the platoon without a lock ...
FindTimedOut(id) ==
    /\ id \in DOMAIN platoons
    /\ TimedOut(id)
    /\ expiring' = expiring \cup {id}
    /\ UNCHANGED <<platoons, stored, idle, requests, leaving>>

\* ... and then calls DissolvePlatoon, whatever has happened in between.
DissolveTimedOut(id) ==
    /\ id \in expiring
    /\ expiring' = expiring \ {id}
    /\ \/ DissolvePlatoon(id)
       \/ platoons[id].status = "dissolved" /\ UNCHANGED <<platoons, stored>>
    /\ UNCHANGED <<idle, requests, leaving>>

\* A new process loads the platoons from storage; the join requests are gone.
\* A stored platoon's last activity is no later than the one in memory was.
Restart ==
    /\ platoons' = stored
    /\ \E S \in SUBSET DOMAIN stored : idle' = (idle \cup S) \cap DOMAIN stored
    /\ requests' = <<>>
    /\ expiring' = {}
    /\ leaving' = {}
    /\ UNCHANGED stored

Next ==
    \/ \E id \in Ids, v \in Vehicles :
          \/ CreatePlatoon(id, v)
          \/ SubmitJoinRequest(id, v)
          \/ LeavePlatoon(id, v)
          \/ LeaderDissolves(id, v)
          \/ \E by \in Vehicles : AppointValidator(id, v, by) \/ DemoteValidator(id, v, by)
    \/ \E r \in DOMAIN requests, by \in Vehicles : ApproveJoin(r, by) \/ RejectJoin(r, by)
    \/ \E id \in Ids :
          \/ TestStaffing(id) \/ MarkUnderStaffed(id) \/ StoreDeparture(id)
          \/ TimePasses(id) \/ FindTimedOut(id) \/ DissolveTimedOut(id)
    \/ Restart

Spec == Init /\ [][Next]_vars

\* The timeout checker's ticker fires for ever.
FairSpec ==
    /\ Spec
    /\ \A id \in Ids : WF_vars(FindTimedOut(id)) /\ WF_vars(DissolveTimedOut(id))

----------------------------------------------------------------------------
\* The variables have their types.
TypeOK ==
    /\ \A m \in {platoons, stored} :
          /\ DOMAIN m \subseteq Ids
          /\ \A id \in DOMAIN m : m[id] \in Platoons
    /\ idle \subseteq Ids
    /\ requests \in Seq(JoinRequests)
    /\ expiring \subseteq DOMAIN platoons
    /\ leaving \subseteq Departures

Distinct(s) == \A i, j \in DOMAIN s : s[i] = s[j] => i = j

\* The member list, the validator list, the roles and the leader agree.
Consistent(p) ==
    /\ Distinct(p.members)
    /\ Distinct(p.validators)
    /\ Elems(p.validators) \subseteq Elems(p.members)
    /\ p.leader \in Elems(p.members)
    /\ \A v \in Vehicles : (p.role[v] = "none") = (v \notin Elems(p.members))
    /\ \A v \in Vehicles : (p.role[v] \in {"validator", "leader"}) = IsValidator(p, v)

\* Whatever joins, departures, hand-overs, appointments and demotions have
\* happened, and after any restart: no vehicle is listed twice, the validators
\* are members, the leader is a member, and the role of every member says
\* whether it is a validator.
RosterConsistent ==
    /\ \A id \in DOMAIN platoons : Consistent(platoons[id])
    /\ \A id \in DOMAIN stored : Consistent(stored[id])

Staffed(p) == p.status = "active" => Len(p.members) >= ConsensusSize

\* A platoon never has more members than MaxVehicles, though the capacity is
\* checked when a request is submitted and requests are approved later
\* (SubmitJoinRequest, ProcessJoinRequest).  An active one never has fewer
\* than consensus needs, but while LeavePlatoon is about to mark it, and in
\* storage never, though departures and a restart may follow a failed save.
StaffingInBounds ==
    /\ \A m \in {platoons, stored} : \A id \in DOMAIN m : Len(m[id].members) <= MaxVehicles
    /\ \A id \in DOMAIN stored : Staffed(stored[id])
    /\ \A id \in DOMAIN platoons :
         Staffed(platoons[id]) \/ \E d \in leaving : d.id = id /\ d.pc # "store"

\* The leader changes only when the old one leaves: the new one was a
\* validator and the old one is out in the same step (handleLeaderLeaving).
LeaderHandsOver ==
    [][\A id \in DOMAIN platoons \cap DOMAIN platoons' :
          platoons'[id].leader # platoons[id].leader =>
             \/ /\ IsValidator(platoons[id], platoons'[id].leader)
                /\ ~HasMember(platoons'[id], platoons[id].leader)
             \/ platoons' = stored]_vars

\* A dissolved platoon is not revived (a join may be approved and members may
\* leave after that), but by a departure that had found it active before it was
\* dissolved, and by a restart when the dissolution was not saved.
DissolvedStays ==
    [][\A id \in DOMAIN platoons :
          platoons[id].status = "dissolved" =>
             \/ id \in DOMAIN platoons' /\ platoons'[id].status = "dissolved"
             \/ Leaving(id, "mark") \in leaving
             \/ platoons' = stored]_vars

\* A platoon that was dissolved stays so while the process runs.  The code
\* breaks it: LeavePlatoon looks at the status and writes it later, and the
\* timeout checker may dissolve the platoon in between.
DissolvedIsFinal ==
    [][\A id \in DOMAIN platoons :
          platoons[id].status = "dissolved" =>
             \/ id \in DOMAIN platoons' /\ platoons'[id].status = "dissolved"
             \/ platoons' = stored]_vars

\* The timeout checker dissolves a platoon that had no activity for the length
\* of the timeout.  The code breaks it: checkTimeouts looks at the platoon, and
\* somebody may join before it calls DissolvePlatoon.
OnlyIdleDissolved ==
    [][\A id \in Ids : DissolveTimedOut(id) /\ platoons' # platoons => id \in idle]_vars

Overdue(id) == id \in DOMAIN platoons /\ IsActive(platoons[id]) /\ id \in idle

\* If the process stops crashing, an active or understaffed platoon does not
\* stay without activity for ever: it is dissolved, by the timeout checker or
\* otherwise, or somebody joins it (checkTimeouts).
IdleEnds ==
    <>[][~Restart]_vars => \A id \in Ids : Overdue(id) ~> ~Overdue(id)

============================================================================
