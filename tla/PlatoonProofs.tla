--------------------------- MODULE PlatoonProofs ---------------------------
(***************************************************************************)
(* The rosters of the platoon service, for any vehicles and any sizes.     *)
(*                                                                         *)
(* The invariant is one predicate, Good, of a platoon; it holds of every   *)
(* platoon in memory and of every one in storage, because what is stored   *)
(* is always a platoon that memory held.  It is inductive: the capacity    *)
(* and the distinctness that joins need are re-checked by AddMember.  That *)
(* an active platoon has enough members is apart from it (AllStaffed): a   *)
(* departure under way breaks it in memory, and only there.                *)
(***************************************************************************)
EXTENDS Platoon, FiniteSetTheorems, SequenceTheorems, TLAPS

InBounds(p) == Len(p.members) <= MaxVehicles

Good(p) == p \in Platoons /\ Consistent(p) /\ InBounds(p)

GoodMap(m) == DOMAIN m \subseteq Ids /\ \A id \in DOMAIN m : Good(m[id])

\* At most one departure is under way, from a platoon there is.
DepartureOK ==
    /\ leaving \subseteq Departures
    /\ \A d, e \in leaving : d = e
    /\ \A d \in leaving : d.id \in DOMAIN platoons

IInv ==
    /\ GoodMap(platoons)
    /\ GoodMap(stored)
    /\ idle \subseteq Ids
    /\ requests \in Seq(JoinRequests)
    /\ expiring \subseteq DOMAIN platoons
    /\ DepartureOK

\* Platoon id has lost a member and its status is not looked at yet, or found
\* to be wrong and not written yet.
Unmarked(id) == \E d \in leaving : d.id = id /\ d.pc # "store"

AllStaffed ==
    /\ \A id \in DOMAIN stored : Staffed(stored[id])
    /\ \A id \in DOMAIN platoons : Staffed(platoons[id]) \/ Unmarked(id)

----------------------------------------------------------------------------
\* What Append does to the elements of a list without repetitions.
LEMMA AppendElems ==
    ASSUME NEW S, NEW s \in Seq(S), NEW x \in S, Distinct(s), x \notin Elems(s)
    PROVE  /\ Append(s, x) \in Seq(S)
           /\ Len(Append(s, x)) = Len(s) + 1
           /\ Elems(Append(s, x)) = Elems(s) \cup {x}
           /\ Distinct(Append(s, x))
<1> DEFINE t == Append(s, x)
<1>1. /\ t \in Seq(S) /\ Len(t) = Len(s) + 1 /\ Len(s) \in Nat
      /\ DOMAIN t = 1..(Len(s) + 1) /\ DOMAIN s = 1..Len(s)
      /\ \A i \in 1..Len(s) : t[i] = s[i]
      /\ t[Len(s) + 1] = x
  OBVIOUS
<1> HIDE DEF t
<1>2. \A i \in DOMAIN t : i \in DOMAIN s \/ i = Len(s) + 1
  BY <1>1
<1>3. Elems(t) = Elems(s) \cup {x}
  BY <1>1, <1>2 DEF Elems
<1>4. Distinct(t)
  BY <1>1, <1>2 DEF Elems, Distinct
<1>5. QED
  BY <1>1, <1>3, <1>4 DEF t

\* RemoveMember's swap with the last element takes out exactly one vehicle.
LEMMA SwapRemoveElems ==
    ASSUME NEW S, NEW s \in Seq(S), NEW x \in Elems(s), Distinct(s)
    PROVE  /\ SwapRemove(s, x) \in Seq(S)
           /\ Len(SwapRemove(s, x)) = Len(s) - 1
           /\ Elems(SwapRemove(s, x)) = Elems(s) \ {x}
           /\ Distinct(SwapRemove(s, x))
<1> DEFINE t == SwapRemove(s, x)
           n == Len(s)
<1>1. n \in Nat /\ DOMAIN s = 1..n
  OBVIOUS
<1>2. PICK k \in 1..n : s[k] = x
  BY <1>1 DEF Elems
<1>3. /\ DOMAIN t = 1..(n - 1)
      /\ \A i \in 1..(n - 1) : t[i] = IF s[i] = x THEN s[n] ELSE s[i]
  BY DEF SwapRemove
<1>4. \A i \in 1..n : s[i] \in S
  BY <1>1, ElementOfSeq
<1>5. \A i \in 1..(n - 1) : i \in 1..n /\ n \in 1..n
  BY <1>1
<1>6. t \in Seq(S) /\ Len(t) = n - 1
  <2>1. t \in [1..(n - 1) -> S]
    BY <1>3, <1>4, <1>5 DEF SwapRemove
  <2>2. n - 1 \in Nat
    BY <1>1, <1>2
  <2>3. QED
    BY <2>1, <2>2
<1>7. \A i \in 1..n : s[i] = x <=> i = k
  BY <1>1, <1>2 DEF Distinct
<1>8. \A i \in 1..(n - 1) : t[i] = IF i = k THEN s[n] ELSE s[i]
  BY <1>3, <1>5, <1>7
<1> HIDE DEF t, n
<1>9. Distinct(t)
  <2>1. SUFFICES ASSUME NEW i \in 1..(n - 1), NEW j \in 1..(n - 1), t[i] = t[j]
                 PROVE  i = j
    BY <1>3 DEF Distinct
  <2>2. \A a, b \in 1..n : s[a] = s[b] => a = b
    BY <1>1 DEF Distinct
  <2>3. QED
    BY <1>1, <1>5, <1>8, <2>1, <2>2
<1>10. Elems(t) = Elems(s) \ {x}
  <2>1. ASSUME NEW y \in Elems(t)
        PROVE  y \in Elems(s) \ {x}
    <3>1. PICK i \in 1..(n - 1) : y = t[i]
      BY <1>3, <2>1 DEF Elems
    <3>2. CASE i = k
      BY <1>1, <1>5, <1>7, <1>8, <3>1, <3>2 DEF Elems
    <3>3. CASE i # k
      BY <1>1, <1>5, <1>7, <1>8, <3>1, <3>3 DEF Elems
    <3>4. QED
      BY <3>2, <3>3
  <2>2. ASSUME NEW y \in Elems(s) \ {x}
        PROVE  y \in Elems(t)
    <3>1. PICK i \in 1..n : y = s[i] /\ i # k
      BY <1>1, <1>2 DEF Elems
    <3>2. CASE i = n
      <4>1. k \in 1..(n - 1)
        BY <1>1, <1>2, <3>1, <3>2
      <4>2. t[k] = y
        BY <1>8, <3>1, <3>2, <4>1
      <4>3. QED
        BY <1>3, <4>1, <4>2 DEF Elems
    <3>3. CASE i # n
      <4>1. i \in 1..(n - 1)
        BY <1>1, <3>1, <3>3
      <4>2. t[i] = y
        BY <1>8, <3>1, <4>1
      <4>3. QED
        BY <1>3, <4>1, <4>2 DEF Elems
    <3>4. QED
      BY <3>2, <3>3
  <2>3. QED
    BY <2>1, <2>2
<1>11. QED
  BY <1>6, <1>9, <1>10 DEF t, n

\* RemoveValidator takes out exactly one vehicle, or none that was not there.
LEMMA RemoveElems ==
    ASSUME NEW S, NEW s \in Seq(S), NEW x, Distinct(s)
    PROVE  /\ Remove(s, x) \in Seq(S)
           /\ Elems(Remove(s, x)) = Elems(s) \ {x}
           /\ Distinct(Remove(s, x))
<1>1. CASE x \notin Elems(s)
  BY <1>1 DEF Remove
<1>2. CASE x \in Elems(s)
  <2> DEFINE t == Remove(s, x)
             n == Len(s)
             k == IndexOf(s, x)
  <2>1. n \in Nat /\ DOMAIN s = 1..n
    OBVIOUS
  <2>2. k \in 1..n /\ s[k] = x
    BY <1>2, <2>1 DEF Elems, IndexOf
  <2>3. /\ DOMAIN t = 1..(n - 1)
        /\ \A i \in 1..(n - 1) : t[i] = IF i < k THEN s[i] ELSE s[i + 1]
    BY <1>2 DEF Remove
  <2>4. \A i \in 1..n : s[i] \in S
    BY <2>1, ElementOfSeq
  <2>5. \A i \in 1..(n - 1) : i \in 1..n /\ i + 1 \in 1..n
    BY <2>1
  <2>6. t \in Seq(S)
    <3>1. t \in [1..(n - 1) -> S]
      BY <1>2, <2>4, <2>5 DEF Remove
    <3>2. n - 1 \in Nat
      BY <2>1, <2>2
    <3>3. QED
      BY <3>1, <3>2
  <2> HIDE DEF t, k
  <2>7. \A a, b \in 1..n : s[a] = s[b] => a = b
    BY <2>1 DEF Distinct
  <2>8. Distinct(t)
    BY <2>1, <2>2, <2>3, <2>5, <2>7 DEF Distinct
  <2>9. ASSUME NEW y \in Elems(t)
        PROVE  y \in Elems(s) \ {x}
    <3>1. PICK i \in 1..(n - 1) : y = t[i]
      BY <2>3, <2>9 DEF Elems
    <3>2. PICK j \in 1..n : y = s[j] /\ j # k
      BY <2>1, <2>2, <2>3, <2>5, <3>1
    <3>3. QED
      BY <2>1, <2>2, <2>7, <3>2 DEF Elems
  <2>10. ASSUME NEW y \in Elems(s) \ {x}
         PROVE  y \in Elems(t)
    <3>1. PICK i \in 1..n : y = s[i] /\ i # k
      BY <2>1, <2>2 DEF Elems
    <3>2. PICK j \in 1..(n - 1) : y = t[j]
      <4>1. CASE i < k
        <5>1. i \in 1..(n - 1) /\ t[i] = y
          BY <2>1, <2>2, <2>3, <3>1, <4>1
        <5>2. QED
          BY <5>1
      <4>2. CASE i > k
        <5>1. i - 1 \in 1..(n - 1) /\ ~(i - 1 < k) /\ (i - 1) + 1 = i
          BY <2>1, <2>2, <3>1, <4>2
        <5>2. t[i - 1] = y
          BY <2>3, <3>1, <5>1
        <5>3. QED
          BY <5>1, <5>2
      <4>3. QED
        BY <2>1, <2>2, <3>1, <4>1, <4>2
    <3>3. QED
      BY <2>3, <3>2 DEF Elems
  <2>11. QED
    BY <2>6, <2>8, <2>9, <2>10 DEF t
<1>3. QED
  BY <1>1, <1>2

\* A list without repetitions is no longer than one that has its elements.
LEMMA DistinctLen ==
    ASSUME NEW S, NEW s \in Seq(S), NEW t \in Seq(S),
           Distinct(s), Elems(s) \subseteq Elems(t)
    PROVE  Len(s) <= Len(t)
<1>1. SUFFICES ASSUME Len(t) < Len(s)
               PROVE  FALSE
  OBVIOUS
<1> DEFINE f == [i \in 1..Len(s) |-> CHOOSE j \in 1..Len(t) : t[j] = s[i]]
<1>2. /\ Len(s) \in Nat /\ Len(t) \in Nat
      /\ DOMAIN s = 1..Len(s) /\ DOMAIN t = 1..Len(t)
  OBVIOUS
<1>3. \A i \in 1..Len(s) : \E j \in 1..Len(t) : t[j] = s[i]
  BY <1>2 DEF Elems
<1>4. \A i \in 1..Len(s) : f[i] \in 1..Len(t) /\ t[f[i]] = s[i]
  BY <1>3
<1>5. f \in [1..Len(s) -> 1..Len(t)]
  BY <1>4
<1>6. /\ IsFiniteSet(1..Len(s)) /\ IsFiniteSet(1..Len(t))
      /\ Cardinality(1..Len(t)) < Cardinality(1..Len(s))
  <2>1. ASSUME NEW m \in Nat
        PROVE  IsFiniteSet(1..m) /\ Cardinality(1..m) = m
    BY FS_Interval
  <2>2. QED
    BY <1>1, <1>2, <2>1
<1> HIDE DEF f
<1>7. \E x, y \in 1..Len(s) : x # y /\ f[x] = f[y]
  BY <1>5, <1>6, FS_PigeonHole
<1>8. QED
  BY <1>2, <1>4, <1>7 DEF Distinct

----------------------------------------------------------------------------
\* The fields of a platoon.
LEMMA Fields ==
    ASSUME NEW p \in Platoons
    PROVE  /\ p.status \in Statuses
           /\ p.leader \in Vehicles
           /\ p.members \in Seq(Vehicles)
           /\ p.role \in [Vehicles -> Roles]
           /\ p.validators \in Seq(Vehicles)
           /\ Len(p.members) \in Nat
           /\ Elems(p.members) \subseteq Vehicles
           /\ Elems(p.validators) \subseteq Vehicles
<1>1. /\ p.status \in Statuses
      /\ p.leader \in Vehicles
      /\ p.members \in Seq(Vehicles)
      /\ p.role \in [Vehicles -> Roles]
      /\ p.validators \in Seq(Vehicles)
  BY DEF Platoons
<1>2. QED
  BY <1>1 DEF Elems

\* CreatePlatoon makes a good platoon.
LEMMA GoodNew ==
    ASSUME NEW v \in Vehicles
    PROVE  Good(NewPlatoon(v)) /\ Staffed(NewPlatoon(v))
<1> DEFINE q == NewPlatoon(v)
<1>1. /\ q.status = IF 1 < ConsensusSize THEN "forming" ELSE "active"
      /\ q.leader = v
      /\ q.members = <<v>>
      /\ q.role = [x \in Vehicles |-> IF x = v THEN "validator" ELSE "none"]
      /\ q.validators = <<v>>
  BY DEF NewPlatoon
<1>2. q \in Platoons
  BY DEF NewPlatoon, Platoons, Statuses, Roles
<1> HIDE DEF q
<1>3. Elems(<<v>>) = {v} /\ Distinct(<<v>>) /\ Len(<<v>>) = 1
  BY DEF Elems, Distinct
<1>4. Consistent(q)
  BY <1>1, <1>3 DEF Consistent, IsValidator
<1>5. InBounds(q) /\ Staffed(q)
  BY <1>1, <1>3, PlatoonAssumption DEF InBounds, Staffed
<1>6. QED
  BY <1>2, <1>4, <1>5 DEF Good, q

\* An approved join that AddMember accepts keeps a platoon good.
LEMMA GoodJoined ==
    ASSUME NEW p, Good(p), NEW v \in Vehicles, CanAddMember(p, v)
    PROVE  /\ Good(Joined(p, v))
           /\ Staffed(p) => Staffed(Joined(p, v))
<1> DEFINE validator == Len(p.validators) < MaxValidators
           q == Joined(p, v)
<1>1. p \in Platoons /\ Consistent(p) /\ InBounds(p)
  BY DEF Good
<1>2. /\ p.status \in Statuses
      /\ p.leader \in Vehicles
      /\ p.members \in Seq(Vehicles)
      /\ p.role \in [Vehicles -> Roles]
      /\ p.validators \in Seq(Vehicles)
      /\ Len(p.members) \in Nat
  BY <1>1, Fields
<1>3. v \notin Elems(p.members) /\ Len(p.members) < MaxVehicles
  BY DEF CanAddMember, HasMember
<1>4. v \notin Elems(p.validators)
  BY <1>1, <1>3 DEF Consistent
<1>5. /\ q.leader = p.leader
      /\ q.members = Append(p.members, v)
      /\ q.validators = IF validator THEN Append(p.validators, v) ELSE p.validators
      /\ q.role = [p.role EXCEPT ![v] = IF validator THEN "validator" ELSE "follower"]
      /\ q.status = IF p.status = "forming" /\ Len(q.validators) >= ConsensusSize
                    THEN "active" ELSE p.status
  BY <1>1 DEF Joined, Platoons, CanFormConsensus
<1>11. q \in Platoons
  <2>1. /\ Append(p.members, v) \in Seq(Vehicles)
        /\ Append(p.validators, v) \in Seq(Vehicles)
        /\ \A r \in Roles : [p.role EXCEPT ![v] = r] \in [Vehicles -> Roles]
    BY <1>2
  <2>2. QED
    BY <1>1, <1>2, <2>1 DEF Joined, Platoons, Statuses, Roles
<1> HIDE DEF q
<1>6. /\ Elems(q.members) = Elems(p.members) \cup {v}
      /\ Distinct(q.members)
      /\ Len(q.members) = Len(p.members) + 1
  BY <1>1, <1>2, <1>3, <1>5, AppendElems DEF Consistent
<1>7. /\ Elems(q.validators) = IF validator THEN Elems(p.validators) \cup {v}
                                           ELSE Elems(p.validators)
      /\ Distinct(q.validators)
  <2>1. CASE validator
    BY <1>1, <1>2, <1>4, <1>5, <2>1, AppendElems DEF Consistent
  <2>2. CASE ~validator
    BY <1>1, <1>5, <2>2 DEF Consistent
  <2>3. QED
    BY <2>1, <2>2
<1>8. Consistent(q)
  BY <1>1, <1>2, <1>3, <1>4, <1>5, <1>6, <1>7 DEF Consistent, IsValidator
<1>9. InBounds(q) /\ (Staffed(p) => Staffed(q))
  <2>1. Len(q.validators) <= Len(q.members)
    <3>1. q.members \in Seq(Vehicles) /\ q.validators \in Seq(Vehicles)
      BY <1>11, Fields
    <3>2. QED
      BY <1>8, <3>1, DistinctLen DEF Consistent
  <2>2. Len(q.validators) \in Nat
    BY <1>11, Fields
  <2>3. QED
    BY <1>1, <1>2, <1>3, <1>5, <1>6, <2>1, <2>2, PlatoonAssumption DEF InBounds, Staffed
<1>10. QED
  BY <1>8, <1>9, <1>11 DEF Good, q

\* What a departure needs.  The role of the one who leaves need not match: a
\* leader that had demoted itself is made a validator on its way out.
Leavable(p, v) ==
    /\ v \in Elems(p.members)
    /\ p.leader # v
    /\ InBounds(p)
    /\ Distinct(p.members)
    /\ Distinct(p.validators)
    /\ Elems(p.validators) \subseteq Elems(p.members)
    /\ p.leader \in Elems(p.members)
    /\ \A x \in Vehicles \ {v} :
          /\ (p.role[x] = "none") = (x \notin Elems(p.members))
          /\ (p.role[x] \in {"validator", "leader"}) = IsValidator(p, x)

\* A departure leaves a good platoon behind.
LEMMA GoodDeparted ==
    ASSUME NEW p \in Platoons, NEW v, Leavable(p, v)
    PROVE  /\ Good(Departed(p, v))
           /\ Departed(p, v).leader = p.leader
           /\ v \notin Elems(Departed(p, v).members)
           /\ Departed(p, v).status = p.status
<1> DEFINE q == Departed(p, v)
<1>1. /\ p.status \in Statuses
      /\ p.leader \in Vehicles
      /\ p.members \in Seq(Vehicles)
      /\ p.role \in [Vehicles -> Roles]
      /\ p.validators \in Seq(Vehicles)
      /\ Len(p.members) \in Nat
      /\ v \in Vehicles
  BY Fields DEF Leavable
<1>2. /\ q.leader = p.leader
      /\ q.members = SwapRemove(p.members, v)
      /\ q.validators = Remove(p.validators, v)
      /\ q.role = [p.role EXCEPT ![v] = "none"]
      /\ q.status = p.status
  BY DEF Departed, Platoons
<1>3. /\ q.members \in Seq(Vehicles)
      /\ Len(q.members) = Len(p.members) - 1
      /\ Elems(q.members) = Elems(p.members) \ {v}
      /\ Distinct(q.members)
  BY <1>1, <1>2, SwapRemoveElems DEF Leavable
<1>4. /\ q.validators \in Seq(Vehicles)
      /\ Elems(q.validators) = Elems(p.validators) \ {v}
      /\ Distinct(q.validators)
  BY <1>1, <1>2, RemoveElems DEF Leavable
<1>5. q \in Platoons
  <2>1. /\ SwapRemove(p.members, v) \in Seq(Vehicles)
        /\ Remove(p.validators, v) \in Seq(Vehicles)
        /\ [p.role EXCEPT ![v] = "none"] \in [Vehicles -> Roles]
    BY <1>1, <1>2, <1>3, <1>4 DEF Roles
  <2>2. QED
    BY <1>1, <2>1 DEF Departed, Platoons
<1> HIDE DEF q
<1>6. Consistent(q)
  BY <1>1, <1>2, <1>3, <1>4 DEF Consistent, IsValidator, Leavable
<1>7. InBounds(q)
  BY <1>1, <1>3, PlatoonAssumption DEF InBounds, Leavable
<1>8. QED
  BY <1>2, <1>3, <1>5, <1>6, <1>7 DEF Good, q

\* A leader's departure, after the hand-over, keeps a platoon good.
LEMMA GoodHandedOver ==
    ASSUME NEW p, Good(p), NEW w \in Replacement(p)
    PROVE  LET q == Departed(HandOver(p, w), p.leader)
           IN  /\ Good(q)
               /\ q.leader = w
               /\ p.leader \notin Elems(q.members)
               /\ q.status = p.status
<1> DEFINE h == HandOver(p, w)
<1>1. p \in Platoons /\ Consistent(p) /\ InBounds(p)
  BY DEF Good
<1>2. w \in Elems(p.validators) /\ w # p.leader
  BY DEF Replacement
<1>3. /\ p.leader \in Vehicles
      /\ p.role \in [Vehicles -> Roles]
      /\ w \in Vehicles
  BY <1>1, <1>2, Fields
<1>4. /\ h.leader = w
      /\ h.members = p.members
      /\ h.validators = p.validators
      /\ h.status = p.status
      /\ h.role = [p.role EXCEPT ![p.leader] = "validator", ![w] = "leader"]
  BY <1>1 DEF HandOver, Platoons
<1>5. h.role \in [Vehicles -> Roles]
  BY <1>3, <1>4 DEF Roles
<1>6. h \in Platoons
  BY <1>1, <1>3, <1>4, <1>5 DEF HandOver, Platoons
<1> HIDE DEF h
<1>7. /\ h.role[w] = "leader"
      /\ \A x \in Vehicles \ {p.leader, w} : h.role[x] = p.role[x]
  BY <1>2, <1>3, <1>4
<1>8. \A x \in Vehicles \ {p.leader} :
        /\ (h.role[x] = "none") = (x \notin Elems(h.members))
        /\ (h.role[x] \in {"validator", "leader"}) = IsValidator(h, x)
  BY <1>1, <1>2, <1>4, <1>7 DEF Consistent, IsValidator
<1>9. Leavable(h, p.leader)
  BY <1>1, <1>2, <1>4, <1>8 DEF Consistent, InBounds, Leavable
<1>10. /\ Good(Departed(h, p.leader))
       /\ Departed(h, p.leader).leader = h.leader
       /\ p.leader \notin Elems(Departed(h, p.leader).members)
       /\ Departed(h, p.leader).status = h.status
  BY <1>6, <1>9, GoodDeparted
<1>11. QED
  BY <1>4, <1>10 DEF h

\* A member that is not the leader can leave a good platoon.
LEMMA GoodLeavable ==
    ASSUME NEW p, Good(p), NEW v, HasMember(p, v), p.leader # v
    PROVE  Leavable(p, v)
  BY DEF Good, Consistent, HasMember, Leavable

\* Appointing and demoting keep a platoon good.
LEMMA GoodAppointed ==
    ASSUME NEW p, Good(p), NEW v \in Vehicles, HasMember(p, v), ~IsValidator(p, v)
    PROVE  Good([p EXCEPT !.validators = Append(@, v), !.role = [@ EXCEPT ![v] = "validator"]])
<1> DEFINE q == [p EXCEPT !.validators = Append(@, v), !.role = [@ EXCEPT ![v] = "validator"]]
<1>1. p \in Platoons /\ Consistent(p) /\ InBounds(p)
  BY DEF Good
<1>2. /\ p.role \in [Vehicles -> Roles]
      /\ p.validators \in Seq(Vehicles)
      /\ Append(p.validators, v) \in Seq(Vehicles)
      /\ [p.role EXCEPT ![v] = "validator"] \in [Vehicles -> Roles]
  BY <1>1, Fields DEF Roles
<1>3. /\ q.leader = p.leader
      /\ q.members = p.members
      /\ q.status = p.status
      /\ q.validators = Append(p.validators, v)
      /\ q.role = [p.role EXCEPT ![v] = "validator"]
  BY <1>1 DEF Platoons
<1>4. q \in Platoons
  BY <1>1, <1>2 DEF Platoons
<1> HIDE DEF q
<1>5. Elems(q.validators) = Elems(p.validators) \cup {v} /\ Distinct(q.validators)
  BY <1>1, <1>2, <1>3, AppendElems DEF Consistent, IsValidator
<1>6. Consistent(q)
  BY <1>1, <1>2, <1>3, <1>5 DEF Consistent, IsValidator, HasMember
<1>7. InBounds(q)
  BY <1>1, <1>3 DEF InBounds
<1>8. QED
  BY <1>4, <1>6, <1>7 DEF Good, q

\* See GoodAppointed.
LEMMA GoodDemoted ==
    ASSUME NEW p, Good(p), NEW v \in Vehicles, IsValidator(p, v)
    PROVE  Good([p EXCEPT !.validators = Remove(@, v), !.role = [@ EXCEPT ![v] = "follower"]])
<1> DEFINE q == [p EXCEPT !.validators = Remove(@, v), !.role = [@ EXCEPT ![v] = "follower"]]
<1>1. p \in Platoons /\ Consistent(p) /\ InBounds(p)
  BY DEF Good
<1>2. /\ p.role \in [Vehicles -> Roles]
      /\ p.validators \in Seq(Vehicles)
      /\ Distinct(p.validators)
      /\ [p.role EXCEPT ![v] = "follower"] \in [Vehicles -> Roles]
  BY <1>1, Fields DEF Roles, Consistent
<1>3. /\ q.leader = p.leader
      /\ q.members = p.members
      /\ q.status = p.status
      /\ q.validators = Remove(p.validators, v)
      /\ q.role = [p.role EXCEPT ![v] = "follower"]
  BY <1>1 DEF Platoons
<1>4. /\ Remove(p.validators, v) \in Seq(Vehicles)
      /\ Elems(Remove(p.validators, v)) = Elems(p.validators) \ {v}
      /\ Distinct(Remove(p.validators, v))
  BY <1>2, RemoveElems
<1>5. q \in Platoons
  BY <1>1, <1>2, <1>4 DEF Platoons
<1> HIDE DEF q
<1>6. v \in Elems(p.members)
  BY <1>1 DEF Consistent, IsValidator
<1>7. Consistent(q)
  BY <1>1, <1>2, <1>3, <1>4, <1>6 DEF Consistent, IsValidator
<1>8. InBounds(q)
  BY <1>1, <1>3 DEF InBounds
<1>9. QED
  BY <1>5, <1>7, <1>8 DEF Good, q

\* So does a change of its status alone.
LEMMA GoodStatus ==
    ASSUME NEW p, Good(p), NEW st \in Statuses
    PROVE  Good([p EXCEPT !.status = st])
<1> DEFINE q == [p EXCEPT !.status = st]
<1>1. p \in Platoons /\ Consistent(p) /\ InBounds(p)
  BY DEF Good
<1>2. /\ q.leader = p.leader
      /\ q.members = p.members
      /\ q.validators = p.validators
      /\ q.role = p.role
      /\ q \in Platoons
  BY <1>1 DEF Platoons
<1> HIDE DEF q
<1>3. Consistent(q) /\ InBounds(q)
  BY <1>1, <1>2 DEF Consistent, InBounds, IsValidator
<1>4. QED
  BY <1>2, <1>3 DEF Good, q

----------------------------------------------------------------------------
\* Saving a good platoon, whether or not the write succeeds.
LEMMA SaveGood ==
    ASSUME GoodMap(platoons), GoodMap(stored), NEW id \in Ids, NEW p, Good(p), Save(id, p)
    PROVE  /\ GoodMap(platoons')
           /\ GoodMap(stored')
           /\ DOMAIN platoons' = DOMAIN platoons \cup {id}
           /\ platoons'[id] = p
           /\ \A x \in DOMAIN platoons \ {id} : platoons'[x] = platoons[x]
<1>1. ASSUME NEW m, GoodMap(m)
      PROVE  GoodMap(Put(m, id, p))
  BY <1>1 DEF GoodMap, Put
<1>2. platoons' = Put(platoons, id, p) /\ (stored' = stored \/ stored' = Put(stored, id, p))
  BY DEF Save
<1>3. GoodMap(platoons')
  BY <1>1, <1>2
<1>4. GoodMap(stored')
  BY <1>1, <1>2
<1>5. QED
  BY <1>2, <1>3, <1>4 DEF Put

\* What one step does to platoon id that becomes r: its leader changes only
\* when the old one leaves in favour of a validator, and a dissolved one stays
\* dissolved, but for a departure that is about to mark it.
Evolves(id, r) ==
    /\ r.leader # platoons[id].leader => /\ IsValidator(platoons[id], r.leader)
                                         /\ ~HasMember(r, platoons[id].leader)
    /\ platoons[id].status = "dissolved" =>
         r.status = "dissolved" \/ Leaving(id, "mark") \in leaving

\* What one step does to the platoons: it saves one that evolved, makes one,
\* loads all from storage, or leaves them alone.
LEMMA StepShape ==
    ASSUME IInv, [Next]_vars
    PROVE  \/ UNCHANGED <<platoons, stored>>
           \/ platoons' = stored /\ UNCHANGED stored
           \/ \E id \in Ids \ DOMAIN platoons, v \in Vehicles : Save(id, NewPlatoon(v))
           \/ \E id \in DOMAIN platoons : \E r :
                 Good(r) /\ Evolves(id, r) /\ Save(id, r)
<1> DEFINE Saved(id) == \E r : Good(r) /\ Evolves(id, r) /\ Save(id, r)
<1>1. \A id \in DOMAIN platoons : id \in Ids /\ Good(platoons[id])
  BY DEF IInv, GoodMap
<1>2. ASSUME NEW id \in Ids, NEW v \in Vehicles, LeavePlatoon(id, v)
      PROVE  id \in DOMAIN platoons /\ Saved(id)
  <2> DEFINE p == platoons[id]
  <2>1. id \in DOMAIN platoons /\ HasMember(p, v) /\ Good(p)
    BY <1>1, <1>2 DEF LeavePlatoon
  <2>2. CASE p.leader # v /\ platoons' = Put(platoons, id, Departed(p, v))
    <3>1. /\ Good(Departed(p, v))
          /\ Departed(p, v).leader = p.leader
          /\ Departed(p, v).status = p.status
      <4>1. Leavable(p, v) /\ p \in Platoons
        BY <2>1, <2>2, GoodLeavable DEF Good
      <4>2. QED
        BY <4>1, GoodDeparted
    <3>2. Evolves(id, Departed(p, v))
      BY <3>1 DEF Evolves
    <3>3. Save(id, Departed(p, v))
      BY <1>2, <2>2 DEF LeavePlatoon, Save
    <3>4. QED
      BY <2>1, <3>1, <3>2, <3>3
  <2>3. ASSUME p.leader = v, NEW w \in Replacement(p),
               platoons' = Put(platoons, id, Departed(HandOver(p, w), v))
        PROVE  Saved(id)
    <3> DEFINE r == Departed(HandOver(p, w), v)
    <3>1. /\ Good(r)
          /\ r.leader = w
          /\ p.leader \notin Elems(r.members)
          /\ r.status = p.status
      BY <2>1, <2>3, GoodHandedOver
    <3>2. IsValidator(p, w)
      BY DEF Replacement, IsValidator
    <3>3. Evolves(id, r)
      BY <3>1, <3>2 DEF Evolves, HasMember
    <3>4. Save(id, r)
      BY <1>2, <2>3 DEF LeavePlatoon, Save
    <3>5. QED
      BY <3>1, <3>3, <3>4
  <2>4. QED
    BY <1>2, <2>1, <2>2, <2>3 DEF LeavePlatoon
<1>3. ASSUME NEW id \in Ids, DissolvePlatoon(id)
      PROVE  id \in DOMAIN platoons /\ Saved(id)
  <2> DEFINE r == [platoons[id] EXCEPT !.status = "dissolved"]
  <2>1. id \in DOMAIN platoons /\ Save(id, r) /\ Good(platoons[id])
    BY <1>1, <1>3 DEF DissolvePlatoon
  <2>2. Good(r)
    BY <2>1, GoodStatus DEF Statuses
  <2>3. r.leader = platoons[id].leader /\ r.status = "dissolved"
    BY <2>1 DEF Good, Platoons
  <2>4. Evolves(id, r)
    BY <2>3 DEF Evolves
  <2>5. QED
    BY <2>1, <2>2, <2>4
<1>4. ASSUME NEW id \in Ids, NEW v \in Vehicles, NEW by \in Vehicles, AppointValidator(id, v, by)
      PROVE  id \in DOMAIN platoons /\ Saved(id)
  <2> DEFINE p == platoons[id]
             r == [p EXCEPT !.validators = Append(@, v), !.role = [@ EXCEPT ![v] = "validator"]]
  <2>1. id \in DOMAIN platoons /\ Save(id, r) /\ HasMember(p, v) /\ ~IsValidator(p, v) /\ Good(p)
    BY <1>1, <1>4 DEF AppointValidator
  <2>2. Good(r)
    BY <2>1, GoodAppointed
  <2>3. r.leader = p.leader /\ r.status = p.status
    BY <2>1 DEF Good, Platoons
  <2>4. Evolves(id, r)
    BY <2>3 DEF Evolves
  <2>5. QED
    BY <2>1, <2>2, <2>4
<1>5. ASSUME NEW id \in Ids, NEW v \in Vehicles, NEW by \in Vehicles, DemoteValidator(id, v, by)
      PROVE  id \in DOMAIN platoons /\ Saved(id)
  <2> DEFINE p == platoons[id]
             r == [p EXCEPT !.validators = Remove(@, v), !.role = [@ EXCEPT ![v] = "follower"]]
  <2>1. id \in DOMAIN platoons /\ Save(id, r) /\ IsValidator(p, v) /\ Good(p)
    BY <1>1, <1>5 DEF DemoteValidator
  <2>2. Good(r)
    BY <2>1, GoodDemoted
  <2>3. r.leader = p.leader /\ r.status = p.status
    BY <2>1 DEF Good, Platoons
  <2>4. Evolves(id, r)
    BY <2>3 DEF Evolves
  <2>5. QED
    BY <2>1, <2>2, <2>4
<1>6. ASSUME NEW k \in DOMAIN requests, NEW by \in Vehicles, ApproveJoin(k, by)
      PROVE  UNCHANGED <<platoons, stored>> \/ \E id \in DOMAIN platoons : Saved(id)
  <2> DEFINE id == requests[k].platoon
             v  == requests[k].vehicle
             p  == platoons[id]
             r  == Joined(p, v)
  <2>1. requests[k] \in JoinRequests
    BY DEF IInv
  <2>2. v \in Vehicles
    BY <2>1 DEF JoinRequests
  <2>3. CASE CanAddMember(p, v) /\ Save(id, r)
    <3>1. id \in DOMAIN platoons /\ Good(p)
      BY <1>1, <1>6 DEF ApproveJoin
    <3>2. Good(r)
      BY <2>2, <2>3, <3>1, GoodJoined
    <3>3. r.leader = p.leader /\ (p.status = "dissolved" => r.status = "dissolved")
      BY <3>1 DEF Good, Platoons, Joined
    <3>4. Evolves(id, r)
      BY <3>3 DEF Evolves
    <3>5. QED
      BY <2>3, <3>1, <3>2, <3>4
  <2>4. QED
    BY <1>6, <2>3 DEF ApproveJoin
<1>7. ASSUME NEW id \in Ids, NEW v \in Vehicles, CreatePlatoon(id, v)
      PROVE  \E x \in Ids \ DOMAIN platoons, w \in Vehicles : Save(x, NewPlatoon(w))
  BY <1>7 DEF CreatePlatoon
<1>8. ASSUME NEW id \in Ids, DissolveTimedOut(id)
      PROVE  UNCHANGED <<platoons, stored>> \/ (id \in DOMAIN platoons /\ Saved(id))
  BY <1>3, <1>8 DEF DissolveTimedOut
<1>9. CASE UNCHANGED <<platoons, stored>>
  BY <1>9
<1>10. ASSUME NEW id \in Ids, MarkUnderStaffed(id)
       PROVE  id \in DOMAIN platoons /\ Saved(id)
  <2> DEFINE r == [platoons[id] EXCEPT !.status = "understaffed"]
  <2>1. Leaving(id, "mark") \in leaving /\ Leaving(id, "mark").id = id
    BY <1>10 DEF MarkUnderStaffed, Leaving
  <2>2. id \in DOMAIN platoons
    BY <2>1 DEF IInv, DepartureOK
  <2>3. Good(r)
    BY <1>1, <2>2, GoodStatus DEF Statuses
  <2>4. r.leader = platoons[id].leader
    BY <1>1, <2>2 DEF Good, Platoons
  <2>5. Evolves(id, r)
    BY <2>1, <2>4 DEF Evolves
  <2>6. Save(id, r)
    BY <1>10 DEF MarkUnderStaffed, Save
  <2>7. QED
    BY <2>2, <2>3, <2>5, <2>6
<1>11. ASSUME NEW id \in Ids, StoreDeparture(id)
       PROVE  id \in DOMAIN platoons /\ Saved(id)
  <2>1. Leaving(id, "store") \in leaving /\ Leaving(id, "store").id = id
    BY <1>11 DEF StoreDeparture, Leaving
  <2>2. id \in DOMAIN platoons
    BY <2>1 DEF IInv, DepartureOK
  <2>3. Evolves(id, platoons[id])
    BY DEF Evolves
  <2>4. QED
    BY <1>1, <1>11, <2>2, <2>3 DEF StoreDeparture
<1>12. CASE Restart
  BY <1>12 DEF Restart
<1>13. CASE UNCHANGED vars
  BY <1>9, <1>13 DEF vars
<1>14. CASE \E id \in Ids, v \in Vehicles :
               \/ CreatePlatoon(id, v)
               \/ SubmitJoinRequest(id, v)
               \/ LeavePlatoon(id, v)
               \/ LeaderDissolves(id, v)
               \/ \E by \in Vehicles : AppointValidator(id, v, by) \/ DemoteValidator(id, v, by)
  BY <1>2, <1>3, <1>4, <1>5, <1>7, <1>9, <1>14 DEF SubmitJoinRequest, LeaderDissolves
<1>15. CASE \E r \in DOMAIN requests, by \in Vehicles : ApproveJoin(r, by) \/ RejectJoin(r, by)
  BY <1>6, <1>9, <1>15 DEF RejectJoin
<1>16. CASE \E id \in Ids :
               \/ TestStaffing(id) \/ MarkUnderStaffed(id) \/ StoreDeparture(id)
               \/ TimePasses(id) \/ FindTimedOut(id) \/ DissolveTimedOut(id)
  BY <1>8, <1>9, <1>16, <1>10, <1>11 DEF TestStaffing, TimePasses, FindTimedOut
<1>17. QED
  BY <1>12, <1>13, <1>14, <1>15, <1>16 DEF Next

\* A departure starts when none is under way and its platoon stays.
LEMMA StepKeepsDeparture ==
    ASSUME DepartureOK, [Next]_vars, Restart \/ DOMAIN platoons \subseteq DOMAIN platoons'
    PROVE  DepartureOK'
<1>1. CASE leaving' = {}
  BY <1>1 DEF DepartureOK
<1>2. CASE DOMAIN platoons \subseteq DOMAIN platoons' /\ leaving' = leaving
  BY <1>2 DEF DepartureOK
<1>3. ASSUME DOMAIN platoons \subseteq DOMAIN platoons', NEW id \in Ids, NEW pc,
             pc \in {"test", "mark", "store"}, id \in DOMAIN platoons,
             leaving' = {Leaving(id, pc)}
      PROVE  DepartureOK'
  BY <1>3 DEF DepartureOK, Leaving, Departures
<1>4. \A id \in Ids, pc \in {"test", "mark", "store"} :
        Leaving(id, pc) \in leaving => id \in DOMAIN platoons
  BY DEF DepartureOK, Leaving
<1>5. CASE Restart
  BY <1>1, <1>5 DEF Restart
<1>6. CASE DOMAIN platoons \subseteq DOMAIN platoons'
  BY <1>1, <1>2, <1>3, <1>4, <1>5, <1>6
  DEF Next, vars, CreatePlatoon, SubmitJoinRequest, LeavePlatoon, LeaderDissolves,
      AppointValidator, DemoteValidator, ApproveJoin, RejectJoin, TestStaffing,
      MarkUnderStaffed, StoreDeparture, TimePasses, FindTimedOut, DissolveTimedOut
<1>7. QED
  BY <1>5, <1>6

\* Every step keeps the inductive invariant.
LEMMA StepKeepsIInv ==
    ASSUME IInv, [Next]_vars
    PROVE  IInv'
<1>1. GoodMap(platoons') /\ GoodMap(stored')
  <2>1. GoodMap(platoons) /\ GoodMap(stored)
    BY DEF IInv
  <2>2. CASE UNCHANGED <<platoons, stored>>
    BY <2>1, <2>2
  <2>3. CASE platoons' = stored /\ UNCHANGED stored
    BY <2>1, <2>3
  <2>4. ASSUME NEW id \in Ids, NEW v \in Vehicles, Save(id, NewPlatoon(v))
        PROVE  GoodMap(platoons') /\ GoodMap(stored')
    BY <2>1, <2>4, GoodNew, SaveGood
  <2>5. ASSUME NEW id \in DOMAIN platoons, NEW r, Good(r), Save(id, r)
        PROVE  GoodMap(platoons') /\ GoodMap(stored')
    <3>1. id \in Ids
      BY <2>1 DEF GoodMap
    <3>2. QED
      BY <2>1, <2>5, <3>1, SaveGood
  <2>6. QED
    BY <2>2, <2>3, <2>4, <2>5, StepShape
<1>2. Restart \/ DOMAIN platoons \subseteq DOMAIN platoons'
  <2>1. ASSUME NEW id, NEW p, Save(id, p) \/ platoons' = Put(platoons, id, p)
        PROVE  DOMAIN platoons \subseteq DOMAIN platoons'
    BY <2>1 DEF Save, Put
  <2>2. CASE platoons' = platoons
    BY <2>2
  <2>3. QED
    BY <2>1, <2>2
    DEF Next, vars, CreatePlatoon, SubmitJoinRequest, LeavePlatoon, LeaderDissolves,
        DissolvePlatoon, AppointValidator, DemoteValidator, ApproveJoin, RejectJoin,
        TestStaffing, MarkUnderStaffed, StoreDeparture, TimePasses, FindTimedOut,
        DissolveTimedOut
<1>3. expiring' \subseteq DOMAIN platoons'
  <2>1. CASE Restart
    BY <2>1 DEF Restart
  <2>2. CASE DOMAIN platoons \subseteq DOMAIN platoons'
    BY <2>2 DEF IInv, Next, vars, CreatePlatoon, SubmitJoinRequest, LeavePlatoon,
         LeaderDissolves, AppointValidator, DemoteValidator, ApproveJoin,
         RejectJoin, TestStaffing, MarkUnderStaffed, StoreDeparture, TimePasses,
         FindTimedOut, DissolveTimedOut, Restart
  <2>3. QED
    BY <1>2, <2>1, <2>2
<1>4. idle' \subseteq Ids
  BY DEF IInv, GoodMap, Next, vars, CreatePlatoon, SubmitJoinRequest, LeavePlatoon,
         LeaderDissolves, AppointValidator, DemoteValidator, ApproveJoin,
         RejectJoin, TestStaffing, MarkUnderStaffed, StoreDeparture, TimePasses,
         FindTimedOut, DissolveTimedOut, Restart
<1>5. requests' \in Seq(JoinRequests)
  <2>1. requests \in Seq(JoinRequests)
    BY DEF IInv
  <2>2. CASE requests' = requests
    BY <2>1, <2>2
  <2>3. CASE requests' = <<>>
    BY <2>3
  <2>4. ASSUME NEW id \in Ids, NEW v \in Vehicles, SubmitJoinRequest(id, v)
        PROVE  requests' \in Seq(JoinRequests)
    <3>1. [platoon |-> id, vehicle |-> v, status |-> "pending"] \in JoinRequests
      BY DEF JoinRequests, RequestStatuses
    <3>2. QED
      BY <2>1, <2>4, <3>1 DEF SubmitJoinRequest
  <2>5. ASSUME NEW k \in DOMAIN requests, NEW st \in RequestStatuses
        PROVE  [requests EXCEPT ![k].status = st] \in Seq(JoinRequests)
    <3>1. k \in 1..Len(requests) /\ requests[k] \in JoinRequests
      BY <2>1
    <3>2. [requests[k] EXCEPT !.status = st] \in JoinRequests
      BY <3>1 DEF JoinRequests
    <3>3. QED
      BY <2>1, <3>1, <3>2, ExceptSeq
  <2>6. ASSUME NEW k \in DOMAIN requests, NEW by \in Vehicles,
               ApproveJoin(k, by) \/ RejectJoin(k, by)
        PROVE  requests' \in Seq(JoinRequests)
    <3>1. \E st \in RequestStatuses : requests' = [requests EXCEPT ![k].status = st]
      BY <2>6 DEF ApproveJoin, RejectJoin, RequestStatuses
    <3>2. QED
      BY <2>5, <3>1
  <2>7. QED
    BY <2>2, <2>3, <2>4, <2>6
    DEF Next, vars, CreatePlatoon, LeavePlatoon, LeaderDissolves, AppointValidator,
        DemoteValidator, TestStaffing, MarkUnderStaffed, StoreDeparture, TimePasses,
        FindTimedOut, DissolveTimedOut, Restart
<1>6. DepartureOK'
  BY <1>2, StepKeepsDeparture DEF IInv
<1>7. QED
  BY <1>1, <1>3, <1>4, <1>5, <1>6 DEF IInv

\* Saving a staffed platoon, whether or not the write succeeds, while nothing
\* is known of the departure under way but that it stays.
LEMMA SaveStaffed ==
    ASSUME AllStaffed, NEW id, NEW p, Staffed(p), Save(id, p),
           leaving' = leaving \/ \A x \in DOMAIN platoons \ {id} : Staffed(platoons[x])
    PROVE  AllStaffed'
<1>1. \A m : DOMAIN Put(m, id, p) = DOMAIN m \cup {id}
  BY DEF Put
<1>2. \A m : \A x \in DOMAIN m \cup {id} : Put(m, id, p)[x] = IF x = id THEN p ELSE m[x]
  BY DEF Put
<1>3. /\ platoons' = Put(platoons, id, p)
      /\ stored' = stored \/ stored' = Put(stored, id, p)
  BY DEF Save
<1>4. \A x \in DOMAIN stored' : Staffed(stored'[x])
  BY <1>1, <1>2, <1>3 DEF AllStaffed
<1>5. ASSUME NEW x \in DOMAIN platoons'
      PROVE  Staffed(platoons'[x]) \/ Unmarked(x)'
  <2>1. CASE x = id
    BY <1>1, <1>2, <1>3, <2>1
  <2>2. CASE x # id
    <3>1. x \in DOMAIN platoons /\ platoons'[x] = platoons[x]
      BY <1>1, <1>2, <1>3, <1>5, <2>2
    <3>2. CASE leaving' = leaving
      BY <3>1, <3>2 DEF AllStaffed, Unmarked
    <3>3. QED
      BY <2>2, <3>1, <3>2
  <2>3. QED
    BY <2>1, <2>2
<1>6. QED
  BY <1>4, <1>5 DEF AllStaffed

\* Every step leaves active platoons with enough members, but for the one that
\* somebody is leaving.
LEMMA StepKeepsStaffed ==
    ASSUME IInv, AllStaffed, [Next]_vars
    PROVE  AllStaffed'
<1>1. \A id \in DOMAIN platoons : id \in Ids /\ Good(platoons[id])
  BY DEF IInv, GoodMap
<1>2. ASSUME leaving = {}
      PROVE  \A id \in DOMAIN platoons : Staffed(platoons[id])
  BY <1>2 DEF AllStaffed, Unmarked
<1>3. CASE UNCHANGED <<platoons, stored, leaving>>
  BY <1>3 DEF AllStaffed, Unmarked
<1>4. ASSUME NEW id \in Ids, DissolvePlatoon(id), UNCHANGED leaving
      PROVE  AllStaffed'
  <2> DEFINE r == [platoons[id] EXCEPT !.status = "dissolved"]
  <2>1. Save(id, r) /\ platoons[id] \in Platoons
    BY <1>1, <1>4 DEF DissolvePlatoon, Good
  <2>2. Staffed(r)
    BY <2>1 DEF Staffed, Platoons
  <2>3. QED
    BY <1>4, <2>1, <2>2, SaveStaffed
<1>5. ASSUME NEW id \in Ids, NEW v \in Vehicles, CreatePlatoon(id, v)
      PROVE  AllStaffed'
  BY <1>5, GoodNew, SaveStaffed DEF CreatePlatoon
<1>6. ASSUME NEW id \in Ids, NEW v \in Vehicles, LeavePlatoon(id, v)
      PROVE  AllStaffed'
  <2>1. /\ leaving = {} /\ stored' = stored
        /\ leaving' = {Leaving(id, "test")}
        /\ \E q : platoons' = Put(platoons, id, q)
    BY <1>6 DEF LeavePlatoon
  <2>2. \A x \in DOMAIN platoons' \ {id} : x \in DOMAIN platoons /\ platoons'[x] = platoons[x]
    BY <2>1 DEF Put
  <2>3. Unmarked(id)'
    BY <2>1 DEF Unmarked, Leaving
  <2>4. QED
    BY <1>2, <2>1, <2>2, <2>3 DEF AllStaffed
<1>7. ASSUME NEW id \in Ids, NEW v \in Vehicles, NEW by \in Vehicles,
             AppointValidator(id, v, by) \/ DemoteValidator(id, v, by)
      PROVE  AllStaffed'
  <2>1. id \in DOMAIN platoons /\ leaving = {} /\ leaving' = leaving
    BY <1>7 DEF AppointValidator, DemoteValidator
  <2>2. PICK r : /\ Save(id, r)
                 /\ r.status = platoons[id].status
                 /\ r.members = platoons[id].members
    <3>1. platoons[id] \in Platoons
      BY <1>1, <2>1 DEF Good
    <3>2. CASE AppointValidator(id, v, by)
      <4> DEFINE r == [platoons[id] EXCEPT !.validators = Append(@, v),
                                           !.role = [@ EXCEPT ![v] = "validator"]]
      <4>1. Save(id, r)
        BY <3>2 DEF AppointValidator
      <4>2. r.status = platoons[id].status /\ r.members = platoons[id].members
        BY <3>1 DEF Platoons
      <4>3. QED
        BY <4>1, <4>2
    <3>3. CASE DemoteValidator(id, v, by)
      <4> DEFINE r == [platoons[id] EXCEPT !.validators = Remove(@, v),
                                           !.role = [@ EXCEPT ![v] = "follower"]]
      <4>1. Save(id, r)
        BY <3>3 DEF DemoteValidator
      <4>2. r.status = platoons[id].status /\ r.members = platoons[id].members
        BY <3>1 DEF Platoons
      <4>3. QED
        BY <4>1, <4>2
    <3>4. QED
      BY <1>7, <3>2, <3>3
  <2>3. Staffed(r)
    BY <1>2, <2>2, <2>1 DEF Staffed
  <2>4. QED
    BY <2>2, <2>1, <2>3, SaveStaffed
<1>8. ASSUME NEW k \in DOMAIN requests, NEW by \in Vehicles, ApproveJoin(k, by)
      PROVE  AllStaffed'
  <2> DEFINE id == requests[k].platoon
             v  == requests[k].vehicle
             p  == platoons[id]
  <2>1. requests[k] \in JoinRequests
    BY DEF IInv
  <2>2. v \in Vehicles /\ id \in DOMAIN platoons /\ leaving = {} /\ leaving' = leaving
    BY <1>8, <2>1 DEF ApproveJoin, JoinRequests
  <2>3. CASE CanAddMember(p, v) /\ Save(id, Joined(p, v))
    <3>1. Good(p) /\ Staffed(p)
      BY <1>1, <1>2, <2>2
    <3>2. Staffed(Joined(p, v))
      BY <2>2, <2>3, <3>1, GoodJoined
    <3>3. QED
      BY <2>2, <2>3, <3>2, SaveStaffed
  <2>4. CASE UNCHANGED <<platoons, stored>>
    BY <1>3, <2>2, <2>4
  <2>5. QED
    BY <1>8, <2>3, <2>4 DEF ApproveJoin
<1>9. ASSUME NEW id \in Ids, TestStaffing(id)
      PROVE  AllStaffed'
  <2>1. /\ Leaving(id, "test") \in leaving /\ UNCHANGED <<platoons, stored>>
        /\ leaving' = {Leaving(id, IF TooFew(platoons[id]) THEN "mark" ELSE "store")}
    BY <1>9 DEF TestStaffing
  <2>2. \A x \in DOMAIN platoons \ {id} : Staffed(platoons[x])
    BY <2>1 DEF IInv, DepartureOK, AllStaffed, Unmarked, Leaving
  <2>3. CASE TooFew(platoons[id])
    <3>1. Unmarked(id)'
      BY <2>1, <2>3 DEF Unmarked, Leaving
    <3>2. QED
      BY <2>1, <2>2, <3>1 DEF AllStaffed
  <2>4. CASE ~TooFew(platoons[id])
    <3>1. id \in DOMAIN platoons
      BY <2>1 DEF IInv, DepartureOK, Leaving
    <3>2. Len(platoons[id].members) \in Nat
      BY <1>1, <3>1, Fields DEF Good
    <3>3. Staffed(platoons[id])
      BY <2>4, <3>2, PlatoonAssumption DEF TooFew, Staffed
    <3>4. QED
      BY <2>1, <2>2, <3>3 DEF AllStaffed
  <2>5. QED
    BY <2>3, <2>4
<1>10. ASSUME NEW id \in Ids, MarkUnderStaffed(id)
       PROVE  AllStaffed'
  <2> DEFINE r == [platoons[id] EXCEPT !.status = "understaffed"]
  <2>1. Leaving(id, "mark") \in leaving /\ Save(id, r)
    BY <1>10 DEF MarkUnderStaffed, Save
  <2>2. id \in DOMAIN platoons /\ \A x \in DOMAIN platoons \ {id} : Staffed(platoons[x])
    BY <2>1 DEF IInv, DepartureOK, AllStaffed, Unmarked, Leaving
  <2>3. Staffed(r)
    BY <1>1, <2>2 DEF Staffed, Good, Platoons
  <2>4. QED
    BY <2>1, <2>2, <2>3, SaveStaffed
<1>11. ASSUME NEW id \in Ids, StoreDeparture(id)
       PROVE  AllStaffed'
  <2>1. Leaving(id, "store") \in leaving /\ Save(id, platoons[id])
    BY <1>11 DEF StoreDeparture
  <2>2. id \in DOMAIN platoons /\ \A x \in DOMAIN platoons : Staffed(platoons[x])
    BY <2>1 DEF IInv, DepartureOK, AllStaffed, Unmarked, Leaving
  <2>3. QED
    BY <2>1, <2>2, SaveStaffed
<1>12. CASE Restart
  BY <1>12 DEF Restart, AllStaffed
<1>13. ASSUME NEW id \in Ids, NEW v \in Vehicles,
              \/ CreatePlatoon(id, v)
              \/ SubmitJoinRequest(id, v)
              \/ LeavePlatoon(id, v)
              \/ LeaderDissolves(id, v)
              \/ \E by \in Vehicles : AppointValidator(id, v, by) \/ DemoteValidator(id, v, by)
       PROVE  AllStaffed'
  BY <1>3, <1>4, <1>5, <1>6, <1>7, <1>13 DEF SubmitJoinRequest, LeaderDissolves
<1>14. CASE \E r \in DOMAIN requests, by \in Vehicles : ApproveJoin(r, by) \/ RejectJoin(r, by)
  BY <1>3, <1>8, <1>14 DEF RejectJoin
<1>15. ASSUME NEW id \in Ids,
              \/ TestStaffing(id) \/ MarkUnderStaffed(id) \/ StoreDeparture(id)
              \/ TimePasses(id) \/ FindTimedOut(id) \/ DissolveTimedOut(id)
       PROVE  AllStaffed'
  BY <1>3, <1>4, <1>9, <1>10, <1>11, <1>15 DEF TimePasses, FindTimedOut, DissolveTimedOut
<1>16. QED
  BY <1>3, <1>12, <1>13, <1>14, <1>15 DEF Next, vars

\* The inductive invariant holds throughout.
THEOREM Inductive == Spec => []IInv
<1>1. Init => IInv
  BY DEF Init, EmptyMap, IInv, GoodMap, DepartureOK
<1>2. IInv /\ [Next]_vars => IInv'
  BY StepKeepsIInv
<1>3. QED
  BY <1>1, <1>2, PTL DEF Spec

\* The variables of the platoon service always have their types.
THEOREM TypeCorrect == Spec => []TypeOK
<1>1. IInv => TypeOK
  BY DEF IInv, GoodMap, Good, TypeOK, DepartureOK
<1>2. QED
  BY <1>1, Inductive, PTL

\* Members, validators, roles and leader always agree, in memory and in
\* storage, for any vehicles and any order of joins, departures, hand-overs,
\* appointments, demotions, failed saves and restarts.
THEOREM RosterCorrect == Spec => []RosterConsistent
<1>1. IInv => RosterConsistent
  BY DEF IInv, GoodMap, Good, RosterConsistent
<1>2. QED
  BY <1>1, Inductive, PTL

\* A platoon is never over capacity; an active one in storage is never below
\* what consensus needs, and one in memory only until the departure under way
\* has marked it; for any MaxVehicles and any sizes.
THEOREM StaffingCorrect == Spec => []StaffingInBounds
<1>1. Init => AllStaffed
  BY DEF Init, EmptyMap, AllStaffed
<1>2. IInv /\ AllStaffed /\ [Next]_vars => AllStaffed'
  BY StepKeepsStaffed
<1>3. IInv /\ AllStaffed => StaffingInBounds
  BY DEF IInv, GoodMap, Good, InBounds, AllStaffed, Unmarked, StaffingInBounds
<1>4. QED
  BY <1>1, <1>2, <1>3, Inductive, PTL DEF Spec

\* Every change of a leader is a hand-over to a validator by a leader that
\* leaves, or a reload from storage.
THEOREM HandOverCorrect == Spec => LeaderHandsOver
<1> DEFINE A == \A id \in DOMAIN platoons \cap DOMAIN platoons' :
                  platoons'[id].leader # platoons[id].leader =>
                     \/ /\ IsValidator(platoons[id], platoons'[id].leader)
                        /\ ~HasMember(platoons'[id], platoons[id].leader)
                     \/ platoons' = stored
<1>1. ASSUME IInv, [Next]_vars
      PROVE  A
  <2>1. CASE UNCHANGED <<platoons, stored>> \/ platoons' = stored
    BY <2>1
  <2>2. ASSUME NEW id \in Ids \ DOMAIN platoons, NEW v \in Vehicles, Save(id, NewPlatoon(v))
        PROVE  A
    BY <2>2 DEF Save, Put
  <2>3. ASSUME NEW id \in DOMAIN platoons, NEW r, Evolves(id, r), Save(id, r)
        PROVE  A
    <3>1. /\ platoons'[id] = r
          /\ \A x \in DOMAIN platoons \ {id} : platoons'[x] = platoons[x]
      BY <2>3 DEF Save, Put
    <3>2. QED
      BY <2>3, <3>1 DEF Evolves
  <2>4. QED
    BY <1>1, <2>1, <2>2, <2>3, StepShape
<1>2. QED
  BY <1>1, Inductive, PTL DEF Spec, LeaderHandsOver

\* A dissolved platoon is revived only by a reload from storage or by a
\* departure that had found it active.
THEOREM DissolvedCorrect == Spec => DissolvedStays
<1> DEFINE A == \A id \in DOMAIN platoons :
                  platoons[id].status = "dissolved" =>
                     \/ id \in DOMAIN platoons' /\ platoons'[id].status = "dissolved"
                     \/ Leaving(id, "mark") \in leaving
                     \/ platoons' = stored
<1>1. ASSUME IInv, [Next]_vars
      PROVE  A
  <2>1. CASE UNCHANGED <<platoons, stored>> \/ platoons' = stored
    BY <2>1
  <2>2. ASSUME NEW id \in Ids \ DOMAIN platoons, NEW v \in Vehicles, Save(id, NewPlatoon(v))
        PROVE  A
    BY <2>2 DEF Save, Put
  <2>3. ASSUME NEW id \in DOMAIN platoons, NEW r, Evolves(id, r), Save(id, r)
        PROVE  A
    <3>1. /\ platoons'[id] = r
          /\ DOMAIN platoons' = DOMAIN platoons
          /\ \A x \in DOMAIN platoons \ {id} : platoons'[x] = platoons[x]
      BY <2>3 DEF Save, Put
    <3>2. QED
      BY <2>3, <3>1 DEF Evolves
  <2>4. QED
    BY <1>1, <2>1, <2>2, <2>3, StepShape
<1>2. QED
  BY <1>1, Inductive, PTL DEF Spec, DissolvedStays
============================================================================
