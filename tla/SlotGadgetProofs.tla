-------------------------- MODULE SlotGadgetProofs --------------------------
(***************************************************************************)
(* Slot finalization is proved correct for every set of issuers, every     *)
(* number of slots and every assignment of seats.                          *)
(***************************************************************************)
EXTENDS SlotGadget, FiniteSetTheorems, TLAPS

(* What the trackers know of the confirmed blocks. *)
VotersVoted ==
    \A b, s \in Slot : \A a \in votersPerSlot[b][s] : castVotes[b][a] >= s

(* Above the last finalized slot a tracker holds, for every issuer, exactly *)
(* the slots up to the issuer's highest vote.                               *)
VotersNested ==
    \A b, s \in Slot : \A a \in Account :
        s > lastFinalizedSlot => (a \in votersPerSlot[b][s] <=> s <= votesPerIdentity[b][a])

(* Nothing is finalized, announced or lost above lastFinalizedSlot, and the *)
(* events still to come lie above the ones triggered.                       *)
EventsBelowLast ==
    /\ storedFinalized = lastFinalizedSlot
    /\ \A s \in toTrigger \cup triggered : s <= lastFinalizedSlot
    /\ \A s \in triggered, t \in toTrigger : s < t

IInv ==
    /\ TypeOK
    /\ VotersVoted
    /\ VotersNested
    /\ EventsBelowLast
    /\ FinalizedBySuperMajority
    /\ NoGapInFinalization
    /\ NoQuorumLeftBehind

USE AccountAssumption, MaxSlotAssumption, SeatCountAssumption, MaxRestartsAssumption

-----------------------------------------------------------------------------
(* More voters and no more seats: a reached threshold stays reached.  This *)
(* is all the proofs need to know of IsThresholdReached.                   *)
LEMMA ThresholdMonotone ==
    ASSUME NEW v \in SUBSET Account, NEW w \in SUBSET Account, v \subseteq w,
           NEW m \in Nat \ {0}, NEW n \in Nat \ {0}, m <= n,
           IsThresholdReached(Cardinality(v), n)
    PROVE  IsThresholdReached(Cardinality(w), m)
<1>1. IsFiniteSet(w) /\ IsFiniteSet(v)
  BY FS_Subset
<1>2. Cardinality(v) \in Nat /\ Cardinality(w) \in Nat /\ Cardinality(v) <= Cardinality(w)
  BY <1>1, FS_CardinalityType, FS_Subset
<1> QED
  BY <1>2 DEF IsThresholdReached

LEMMA TypeInit == Init => TypeOK
  BY DEF Init, TypeOK, Slot, NoVotes, NoVoters

LEMMA InitIInv == Init => IInv
<1> SUFFICES ASSUME Init PROVE IInv
  OBVIOUS
<1>1. TypeOK
  BY TypeInit
<1>2. VotersVoted /\ VotersNested /\ EventsBelowLast
  BY DEF Init, VotersVoted, VotersNested, EventsBelowLast, NoVotes, NoVoters, Slot
<1>3. FinalizedBySuperMajority /\ NoGapInFinalization
  BY DEF Init, FinalizedBySuperMajority, NoGapInFinalization
<1>4. NoQuorumLeftBehind
  <2> SUFFICES ASSUME NEW b \in Slot, NEW s \in Slot PROVE ~Reached(votersPerSlot[b], s)
    BY DEF NoQuorumLeftBehind
  <2>1. votersPerSlot[b][s] = {}
    BY DEF Init, NoVoters
  <2> QED
    BY <2>1, FS_EmptySet DEF Reached, IsThresholdReached
<1> QED
  BY <1>1, <1>2, <1>3, <1>4 DEF IInv

-----------------------------------------------------------------------------
(* trackVotes adds voters within the tracker's type and finalizes slots of *)
(* the range it walks.                                                     *)
LEMMA AddedVotersType ==
    ASSUME TypeOK, NEW b \in Slot, NEW a \in Account, NEW prev \in Slot, NEW c \in Slot
    PROVE  AddedVoters(b, a, prev, c) \in [Slot -> SUBSET Account]
<1>1. \A s \in Slot : votersPerSlot[b][s] \in SUBSET Account
  BY DEF TypeOK
<1> QED
  BY <1>1 DEF AddedVoters

LEMMA NewlyFinalizedType ==
    ASSUME NEW voters, NEW prev, NEW c
    PROVE  NewlyFinalized(voters, prev, c) \in SUBSET Slot
  BY DEF NewlyFinalized

(* The two outcomes of trackVotes. *)
LEMMA TrackVotesCases ==
    ASSUME NEW b \in Slot, NEW c \in Slot, NEW a \in Account, TrackVotes(b, c, a)
    PROVE  LET prev == votesPerIdentity[b][a]
               voters == AddedVoters(b, a, prev, c)
               new == NewlyFinalized(voters, prev, c)
           IN  /\ castVotes' = [castVotes EXCEPT ![b][a] = Max2(@, c)]
               /\ UNCHANGED <<latestCommitted, restarts, triggered, lost>>
               /\ toTrigger = {}
               /\ \/ UNCHANGED <<votesPerIdentity, votersPerSlot, lastFinalizedSlot, storedFinalized, toTrigger, finalized>>
                  \/ /\ c > prev
                     /\ votesPerIdentity' = [votesPerIdentity EXCEPT ![b][a] = c]
                     /\ votersPerSlot' = [votersPerSlot EXCEPT ![b] = voters]
                     /\ SetLastFinalizedSlot(new)
                     /\ toTrigger' = new
                     /\ finalized' = finalized \cup new
  BY Zenon DEF TrackVotes, trackers

LEMMA EmptyTracker ==
    /\ NoVotes \in [Account -> Slot] /\ \A a \in Account : NoVotes[a] = 0
    /\ NoVoters \in [Slot -> SUBSET Account] /\ \A s \in Slot : NoVoters[s] = {}
  BY DEF NoVotes, NoVoters, Slot

LEMMA TypeNext == TypeOK /\ [Next]_vars => TypeOK'
<1> SUFFICES ASSUME TypeOK, [Next]_vars PROVE TypeOK'
  OBVIOUS
<1>1. ASSUME NEW b \in Slot, NEW c \in Slot, NEW a \in Account, TrackVotes(b, c, a)
      PROVE  TypeOK'
  <2> DEFINE prev == votesPerIdentity[b][a]
             voters == AddedVoters(b, a, prev, c)
             new == NewlyFinalized(voters, prev, c)
  <2>1. prev \in Slot
    BY DEF TypeOK
  <2>2. voters \in [Slot -> SUBSET Account]
    BY <2>1, AddedVotersType
  <2>3. new \in SUBSET Slot
    BY NewlyFinalizedType
  <2>4. /\ castVotes' = [castVotes EXCEPT ![b][a] = Max2(@, c)]
        /\ UNCHANGED <<latestCommitted, restarts, triggered, lost>>
    BY <1>1, TrackVotesCases
  <2>5. (castVotes \in [Slot -> [Account -> Slot]])'
    <3>1. Max2(castVotes[b][a], c) \in Slot
      BY DEF TypeOK, Max2
    <3> QED
      BY <2>4, <3>1 DEF TypeOK
  <2>6. CASE UNCHANGED <<votesPerIdentity, votersPerSlot, lastFinalizedSlot, storedFinalized, toTrigger, finalized>>
    BY <2>4, <2>5, <2>6 DEF TypeOK
  <2>7. CASE /\ votesPerIdentity' = [votesPerIdentity EXCEPT ![b][a] = c]
             /\ votersPerSlot' = [votersPerSlot EXCEPT ![b] = voters]
             /\ SetLastFinalizedSlot(new)
             /\ toTrigger' = new
             /\ finalized' = finalized \cup new
    <3> HIDE DEF voters, new
    <3>1. (votesPerIdentity \in [Slot -> [Account -> Slot]])'
      BY <2>7 DEF TypeOK
    <3>2. (votersPerSlot \in [Slot -> [Slot -> SUBSET Account]])'
      BY <2>7, <2>2 DEF TypeOK
    <3>3. (lastFinalizedSlot \in Slot /\ storedFinalized \in Slot)'
      BY <2>7, <2>3 DEF TypeOK, SetLastFinalizedSlot
    <3> QED
      BY <2>3, <2>4, <2>5, <2>7, <3>1, <3>2, <3>3 DEF TypeOK
  <2> QED
    BY <1>1, <2>6, <2>7, TrackVotesCases
<1>2. ASSUME NEW s \in Slot, TriggerSlotFinalized(s) PROVE TypeOK'
  <2>1. (votesPerIdentity \in [Slot -> [Account -> Slot]])'
    BY <1>2, EmptyTracker DEF TypeOK, TriggerSlotFinalized
  <2>2. (votersPerSlot \in [Slot -> [Slot -> SUBSET Account]])'
    BY <1>2, EmptyTracker DEF TypeOK, TriggerSlotFinalized
  <2> QED
    BY <1>2, <2>1, <2>2 DEF TypeOK, TriggerSlotFinalized
<1>3. CASE Commit
  <2>1. latestCommitted' \in Slot
    BY <1>3 DEF TypeOK, Commit, Slot
  <2> QED
    BY <1>3, <2>1 DEF TypeOK, Commit, trackers, history
<1>4. CASE Reset
  <2>1. (votesPerIdentity \in [Slot -> [Account -> Slot]])'
    BY <1>4, EmptyTracker DEF TypeOK, Reset
  <2>2. (votersPerSlot \in [Slot -> [Slot -> SUBSET Account]])'
    BY <1>4, EmptyTracker DEF TypeOK, Reset
  <2> QED
    BY <1>4, <2>1, <2>2 DEF TypeOK, Reset, history
<1>5. CASE Restart
  <2>1. (votesPerIdentity \in [Slot -> [Account -> Slot]])'
    BY <1>5, EmptyTracker DEF Restart
  <2>2. (votersPerSlot \in [Slot -> [Slot -> SUBSET Account]])'
    BY <1>5, EmptyTracker DEF Restart
  <2> QED
    BY <1>5, <2>1, <2>2 DEF TypeOK, Restart
<1>6. CASE UNCHANGED vars
  BY <1>6 DEF TypeOK, vars, trackers, history
<1> QED
  BY <1>1, <1>2, <1>3, <1>4, <1>5, <1>6 DEF Next

(* Types of the gadget's state: Spec keeps the trackers, the finalized slot *)
(* and the settings on disk within their types.                             *)
THEOREM TypeCorrect == Spec => []TypeOK
  BY TypeInit, TypeNext, PTL DEF Spec

-----------------------------------------------------------------------------
(* The types of the tracker's and the history's entries. *)
Points ==
    /\ \A d \in Slot, x \in Account : castVotes[d][x] \in Nat /\ votesPerIdentity[d][x] \in Nat
    /\ \A d, s \in Slot : votersPerSlot[d][s] \in SUBSET Account
    /\ lastFinalizedSlot \in Nat

LEMMA SlotNat == \A s \in Slot : s \in Nat
  BY DEF Slot

LEMMA TypePoints == TypeOK => Points
  BY SlotNat DEF TypeOK, Points

LEMMA TypePointsPrime == TypeOK' => Points'
  BY TypePoints, PTL

(* A vote never lowers what an issuer voted for. *)
LEMMA CastVotesGrow ==
    ASSUME TypeOK, NEW b \in Slot, NEW c \in Slot, NEW a \in Account, TrackVotes(b, c, a)
    PROVE  /\ \A d \in Slot, x \in Account : castVotes'[d][x] >= castVotes[d][x]
           /\ castVotes'[b][a] >= c
<1>1. castVotes' = [castVotes EXCEPT ![b][a] = Max2(@, c)]
  BY TrackVotesCases
<1>2. Max2(castVotes[b][a], c) >= castVotes[b][a] /\ Max2(castVotes[b][a], c) >= c
  BY TypePoints, SlotNat DEF Points, Max2
<1>3. castVotes'[b][a] = Max2(castVotes[b][a], c)
  BY <1>1 DEF TypeOK
<1>4. \A d \in Slot, x \in Account : d # b \/ x # a => castVotes'[d][x] = castVotes[d][x]
  BY <1>1 DEF TypeOK
<1>5. \A d \in Slot, x \in Account : castVotes[d][x] >= castVotes[d][x]
  BY TypePoints DEF Points
<1> QED
  BY <1>2, <1>3, <1>4, <1>5

(* A slot backed by a super majority of votes stays backed as votes come. *)
LEMMA BackedStaysBacked ==
    ASSUME TypeOK, TypeOK', NEW d \in Slot, NEW s \in Slot,
           \A x \in Account : castVotes'[d][x] >= castVotes[d][x],
           IsThresholdReached(Cardinality({x \in Account : castVotes[d][x] >= s}), SeatCount[s])
    PROVE  IsThresholdReached(Cardinality({x \in Account : castVotes'[d][x] >= s}), SeatCount[s])
<1>1. {x \in Account : castVotes[d][x] >= s} \subseteq {x \in Account : castVotes'[d][x] >= s}
  BY TypePoints, TypePointsPrime, SlotNat DEF Points
<1> QED
  BY <1>1, ThresholdMonotone

LEMMA TrackVotesStep ==
    ASSUME IInv, TypeOK', NEW b \in Slot, NEW c \in Slot, NEW a \in Account, TrackVotes(b, c, a)
    PROVE  IInv'
<1> DEFINE prev == votesPerIdentity[b][a]
           voters == AddedVoters(b, a, prev, c)
           new == NewlyFinalized(voters, prev, c)
<1> USE DEF IInv
<1>1. prev \in Slot /\ voters \in [Slot -> SUBSET Account] /\ new \in SUBSET Slot
  <2>1. prev \in Slot
    BY DEF TypeOK
  <2> QED
    BY <2>1, AddedVotersType, NewlyFinalizedType
<1>p. Points /\ Points'
  BY TypePoints, TypePointsPrime
<1>2. CASE UNCHANGED <<votesPerIdentity, votersPerSlot, lastFinalizedSlot, storedFinalized, toTrigger, finalized>>
  <2>1. VotersVoted'
    <3> SUFFICES ASSUME NEW d \in Slot, NEW s \in Slot, NEW x \in votersPerSlot[d][s]
                 PROVE  castVotes'[d][x] >= s
      BY <1>2 DEF VotersVoted
    <3>1. x \in Account /\ castVotes'[d][x] \in Nat /\ castVotes[d][x] \in Nat /\ s \in Nat
      BY <1>p, SlotNat DEF Points
    <3>2. castVotes[d][x] >= s
      BY Zenon DEF VotersVoted
    <3>3. castVotes'[d][x] >= castVotes[d][x]
      BY <3>1, CastVotesGrow
    <3> QED
      BY <3>1, <3>2, <3>3
  <2>2. VotersNested' /\ NoGapInFinalization' /\ NoQuorumLeftBehind'
    BY <1>2 DEF VotersNested, NoGapInFinalization, NoQuorumLeftBehind, Reached, SeatCountNeverShrinks
  <2>3. EventsBelowLast'
    BY <1>2, TrackVotesCases DEF EventsBelowLast
  <2>4. FinalizedBySuperMajority'
    BY <1>2, CastVotesGrow, BackedStaysBacked DEF FinalizedBySuperMajority, TypeOK
  <2> QED
    BY <2>1, <2>2, <2>3, <2>4
<1>3. CASE /\ c > prev
           /\ votesPerIdentity' = [votesPerIdentity EXCEPT ![b][a] = c]
           /\ votersPerSlot' = [votersPerSlot EXCEPT ![b] = voters]
           /\ SetLastFinalizedSlot(new)
           /\ toTrigger' = new
           /\ finalized' = finalized \cup new
  <2> DEFINE from == Max2(lastFinalizedSlot, prev)
  <2>1. \A s \in Slot : voters[s] = IF from < s /\ s <= c THEN votersPerSlot[b][s] \cup {a} ELSE votersPerSlot[b][s]
    BY DEF AddedVoters
  <2>2. \A s \in Slot : s \in new <=> /\ from < s /\ s <= c
                                      /\ \A t \in Slot : from < t /\ t <= s => Reached(voters, t)
    BY DEF NewlyFinalized
  <2> HIDE DEF voters, new, prev
  <2>n. lastFinalizedSlot \in Nat /\ lastFinalizedSlot' \in Nat /\ prev \in Nat /\ c \in Nat /\ \A s \in new : s \in Nat
    BY <1>1, <1>p, SlotNat DEF Points
  <2>3. from \in Nat /\ lastFinalizedSlot <= from /\ prev <= from
        /\ (from = lastFinalizedSlot \/ from = prev)
    BY <2>n DEF Max2
  <2>v. /\ votersPerSlot'[b] = voters
        /\ \A d \in Slot : d # b => votersPerSlot'[d] = votersPerSlot[d]
        /\ votesPerIdentity'[b][a] = c
        /\ \A d \in Slot, x \in Account : d # b \/ x # a => votesPerIdentity'[d][x] = votesPerIdentity[d][x]
    BY <1>3 DEF TypeOK
  <2> HIDE DEF from
  <2>a. ASSUME NEW s \in new PROVE s \in Slot /\ s \in Nat /\ s > lastFinalizedSlot
    <3>1. s \in Slot /\ from < s
      BY <1>1, <2>2, Zenon
    <3>2. s \in Nat
      BY <2>n, Zenon
    <3> QED
      BY <2>n, <2>3, <3>1, <3>2
  <2>4. /\ lastFinalizedSlot' >= lastFinalizedSlot
        /\ new = {} => lastFinalizedSlot' = lastFinalizedSlot
        /\ new # {} => lastFinalizedSlot' \in new
        /\ \A s \in new : s <= lastFinalizedSlot'
        /\ storedFinalized' = lastFinalizedSlot'
    <3>1. CASE new = {}
      BY <1>3, <1>p, <3>1 DEF SetLastFinalizedSlot, EventsBelowLast, Points
    <3>2. CASE new # {}
      <4>1. PICK last \in new : /\ \A s \in new : s <= last
                                /\ lastFinalizedSlot' = last /\ storedFinalized' = last
        BY <1>3, <3>2 DEF SetLastFinalizedSlot
      <4>2. last > lastFinalizedSlot
        BY <2>a
      <4> QED
        BY <2>n, <3>2, <4>1, <4>2
    <3> QED
      BY <3>1, <3>2
  <2>5. VotersVoted'
    <3> SUFFICES ASSUME NEW d \in Slot, NEW s \in Slot, NEW x \in votersPerSlot'[d][s]
                 PROVE  castVotes'[d][x] >= s
      BY DEF VotersVoted
    <3>1. x \in Account /\ castVotes'[d][x] \in Nat /\ castVotes[d][x] \in Nat /\ s \in Nat /\ c \in Nat
      BY <1>p, SlotNat DEF Points
    <3>2. CASE x \in votersPerSlot[d][s]
      <4>1. castVotes[d][x] >= s
        BY <3>2 DEF VotersVoted
      <4>2. castVotes'[d][x] >= castVotes[d][x]
        BY <3>1, CastVotesGrow
      <4> QED
        BY <3>1, <4>1, <4>2
    <3>3. CASE x \notin votersPerSlot[d][s]
      <4>1. d = b /\ x = a /\ s <= c
        <5>1. d = b /\ x \in voters[s]
          BY <2>v, <3>3, Zenon
        <5>2. from < s /\ s <= c
          BY <2>1, <3>3, <5>1
        <5>3. voters[s] = votersPerSlot[b][s] \cup {a}
          BY <2>1, <5>2, Zenon
        <5> QED
          BY <3>3, <5>1, <5>2, <5>3
      <4> QED
        BY <3>1, <4>1, CastVotesGrow
    <3> QED
      BY <3>2, <3>3
  <2>6. VotersNested'
    <3> SUFFICES ASSUME NEW d \in Slot, NEW s \in Slot, NEW x \in Account, s > lastFinalizedSlot'
                 PROVE  x \in votersPerSlot'[d][s] <=> s <= votesPerIdentity'[d][x]
      BY DEF VotersNested
    <3>1. s > lastFinalizedSlot /\ s \in Nat /\ c \in Nat /\ prev \in Nat
      BY <2>n, <2>4, SlotNat
    <3>2. x \in votersPerSlot[d][s] <=> s <= votesPerIdentity[d][x]
      BY <3>1 DEF VotersNested
    <3>3. CASE d = b /\ x = a
      <4>1. a \in votersPerSlot[b][s] <=> s <= prev
        BY <3>2, <3>3 DEF prev
      <4>2. a \in voters[s] <=> (from < s /\ s <= c) \/ a \in votersPerSlot[b][s]
        BY <2>1
      <4>3. a \in voters[s] <=> s <= c
        BY <1>3, <2>n, <2>3, <3>1, <4>1, <4>2
      <4> QED
        BY <2>v, <3>3, <4>3
    <3>4. CASE d # b \/ x # a
      <4>1. votesPerIdentity'[d][x] = votesPerIdentity[d][x]
        BY <2>v, <3>4
      <4>2. x \in votersPerSlot'[d][s] <=> x \in votersPerSlot[d][s]
        <5>1. CASE d # b
          BY <2>v, <5>1
        <5>2. CASE d = b /\ x # a
          BY <2>1, <2>v, <5>2, ZenonT(60)
        <5> QED
          BY <3>4, <5>1, <5>2
      <4> QED
        BY <3>2, <4>1, <4>2
    <3> QED
      BY <3>3, <3>4
  <2>7. EventsBelowLast'
    <3>1. triggered' = triggered
      BY TrackVotesCases
    <3>2. \A s \in triggered : s \in Nat /\ s <= lastFinalizedSlot
      BY SlotNat DEF EventsBelowLast, TypeOK
    <3>3. \A s \in new : s \in Nat /\ s > lastFinalizedSlot
      BY <2>a, Zenon
    <3> QED
      BY <1>3, <1>p, <2>4, <3>1, <3>2, <3>3 DEF EventsBelowLast, Points
  <2>8. FinalizedBySuperMajority'
    <3> SUFFICES ASSUME NEW s \in Slot, s \in finalized \cup new
                 PROVE  \E d \in Slot : IsThresholdReached(Cardinality({x \in Account : castVotes'[d][x] >= s}), SeatCount[s])
      BY <1>3 DEF FinalizedBySuperMajority, TypeOK
    <3>1. CASE s \in finalized
      BY <3>1, CastVotesGrow, BackedStaysBacked DEF FinalizedBySuperMajority
    <3>2. CASE s \in new
      <4>1. Reached(voters, s)
        BY <3>2, <2>2, SlotNat
      <4> DEFINE backers == {x \in Account : castVotes'[b][x] >= s}
      <4>2. voters[s] \subseteq backers /\ backers \in SUBSET Account /\ voters[s] \in SUBSET Account
        BY <1>1, <2>5, <2>v DEF VotersVoted
      <4>s. SeatCount[s] \in Nat \ {0} /\ SeatCount[s] <= SeatCount[s]
        OBVIOUS
      <4> HIDE DEF backers
      <4>r. IsThresholdReached(Cardinality(voters[s]), SeatCount[s])
        BY <4>1, Zenon DEF Reached
      <4>b. IsThresholdReached(Cardinality(backers), SeatCount[s])
        BY <4>2, <4>s, <4>r, ThresholdMonotone, Zenon
      <4>3. IsThresholdReached(Cardinality({x \in Account : castVotes'[b][x] >= s}), SeatCount[s])
        BY <4>b, Zenon DEF backers
      <4> QED
        BY <4>3
    <3> QED
      BY <3>1, <3>2
  <2>9. ASSUME SeatCountNeverShrinks, NEW s \in Slot, NEW t \in Slot,
               lastFinalizedSlot < t, t <= s, Reached(voters, s)
        PROVE  Reached(voters, t)
    <3>1. voters[s] \subseteq voters[t]
      <4>1. s \in Nat /\ t \in Nat /\ c \in Nat /\ prev \in Nat /\ lastFinalizedSlot \in Nat
        BY <1>1, <1>p, SlotNat DEF Points
      <4>2. votersPerSlot[b][s] \subseteq votersPerSlot[b][t]
        <5> SUFFICES ASSUME NEW x \in votersPerSlot[b][s] PROVE x \in votersPerSlot[b][t]
          OBVIOUS
        <5>1. x \in Account /\ votesPerIdentity[b][x] \in Nat
          BY <1>p DEF Points
        <5>2. lastFinalizedSlot < s
          BY <2>9, <4>1
        <5>3. s <= votesPerIdentity[b][x]
          BY <5>1, <5>2 DEF VotersNested
        <5>4. t <= votesPerIdentity[b][x]
          BY <2>9, <4>1, <5>1, <5>3
        <5> QED
          BY <2>9, <5>1, <5>4 DEF VotersNested
      <4>3. a \in voters[s] => a \in voters[t]
        <5>1. /\ a \in votersPerSlot[b][s] => s <= prev
              /\ t <= prev => a \in votersPerSlot[b][t]
          <6>1. lastFinalizedSlot < s
            BY <2>9, <4>1
          <6> QED
            BY <2>9, <4>1, <6>1 DEF VotersNested, prev
        <5>2. CASE a \in votersPerSlot[b][s]
          <6>1. t <= prev
            BY <2>9, <4>1, <5>1, <5>2
          <6> QED
            BY <2>1, <5>1, <6>1
        <5>3. CASE a \notin votersPerSlot[b][s] /\ a \in voters[s]
          <6>0. s <= c
            BY <2>1, <5>3
          <6>1. t <= c
            BY <2>9, <4>1, <6>0
          <6>2. t <= prev \/ from < t
            BY <2>3, <2>9, <4>1
          <6>3. a \in votersPerSlot[b][t] \/ (from < t /\ t <= c)
            BY <5>1, <6>1, <6>2
          <6> QED
            BY <2>1, <6>3
        <5> QED
          BY <5>2, <5>3
      <4> QED
        BY <2>1, <4>2, <4>3
    <3> QED
      BY <1>1, <2>9, <3>1, ThresholdMonotone DEF Reached, SeatCountNeverShrinks
  <2>10. NoQuorumLeftBehind'
    <3> SUFFICES ASSUME SeatCountNeverShrinks, NEW d \in Slot, NEW s \in Slot,
                        s > lastFinalizedSlot', Reached(votersPerSlot[d], s)'
                 PROVE  FALSE
      BY DEF NoQuorumLeftBehind
    <3>1. s > lastFinalizedSlot
      BY <1>p, <2>4, SlotNat DEF Points
    <3>2. CASE d # b
      BY <2>v, <3>1, <3>2 DEF NoQuorumLeftBehind, Reached
    <3>3. CASE d = b
      <4>1. Reached(voters, s)
        BY <2>v, <3>3 DEF Reached
      <4>2. voters[s] # votersPerSlot[b][s]
        BY <3>1, <4>1 DEF NoQuorumLeftBehind, Reached
      <4>3. from < s /\ s <= c
        BY <4>2, <2>1
      <4>4. s \in new
        <5>1. \A t \in Slot : from < t /\ t <= s => Reached(voters, t)
          <6> SUFFICES ASSUME NEW t \in Slot, from < t, t <= s PROVE Reached(voters, t)
            OBVIOUS
          <6>1. lastFinalizedSlot < t
            BY <2>n, <2>3, SlotNat
          <6> QED
            BY <2>9, <4>1, <6>1, Zenon
        <5> QED
          BY <2>2, <4>3, <5>1
      <4> QED
        BY <1>p, <2>4, <4>4, SlotNat DEF Points
    <3> QED
      BY <3>2, <3>3
  <2>11. NoGapInFinalization'
    <3> SUFFICES ASSUME SeatCountNeverShrinks PROVE finalized' = 1 .. lastFinalizedSlot'
      BY DEF NoGapInFinalization
    <3>1. finalized = 1 .. lastFinalizedSlot
      BY DEF NoGapInFinalization
    <3>2. CASE new = {}
      BY <1>3, <2>4, <3>1, <3>2
    <3>3. CASE new # {}
      <4>1. from = lastFinalizedSlot
        <5> SUFFICES ASSUME from # lastFinalizedSlot PROVE FALSE
          OBVIOUS
        <5>1. from = prev /\ prev > lastFinalizedSlot
          BY <2>n, <2>3
        <5>2. PICK s \in new : from < s /\ Reached(voters, s)
          <6>1. PICK s \in new : TRUE
            BY <3>3
          <6>2. s \in Slot /\ from < s /\ s <= s
            BY <1>1, <2>n, <2>2, <6>1
          <6> QED
            BY <2>2, <6>1, <6>2
        <5>3. Reached(voters, prev)
          BY <1>1, <2>9, <5>1, <5>2, SlotNat
        <5>4. voters[prev] = votersPerSlot[b][prev]
          BY <1>1, <2>1, <5>1, SlotNat
        <5> QED
          BY <1>1, <5>1, <5>3, <5>4 DEF NoQuorumLeftBehind, Reached
      <4>2. new = (lastFinalizedSlot + 1) .. lastFinalizedSlot'
        <5>1. lastFinalizedSlot' \in new
          BY <2>4, <3>3
        <5>2. \A s \in new : lastFinalizedSlot + 1 <= s /\ s <= lastFinalizedSlot'
          BY <1>1, <2>n, <2>2, <2>4, <4>1
        <5>3. ASSUME NEW s \in (lastFinalizedSlot + 1) .. lastFinalizedSlot' PROVE s \in new
          <6>1. s \in Slot /\ s \in Nat /\ from < s /\ s <= lastFinalizedSlot' /\ lastFinalizedSlot' \in Slot
            BY <1>1, <2>n, <4>1, <5>1 DEF Slot
          <6>2. s <= c
            BY <2>n, <2>2, <5>1, <6>1
          <6>3. \A t \in Slot : from < t /\ t <= s => Reached(voters, t)
            BY <2>n, <2>2, <5>1, <6>1, SlotNat
          <6> QED
            BY <2>2, <6>1, <6>2, <6>3
        <5>4. new \subseteq (lastFinalizedSlot + 1) .. lastFinalizedSlot'
          BY <2>n, <5>2
        <5> QED
          BY <5>3, <5>4
      <4>3. lastFinalizedSlot <= lastFinalizedSlot'
        BY <2>4
      <4> QED
        BY <1>3, <2>n, <3>1, <4>2, <4>3
    <3> QED
      BY <3>2, <3>3
  <2> QED
    BY <2>5, <2>6, <2>7, <2>8, <2>10, <2>11
<1> QED
  BY <1>2, <1>3, TrackVotesCases

-----------------------------------------------------------------------------
(* The other actions touch few conjuncts. *)
LEMMA OtherSteps ==
    ASSUME IInv, TypeOK',
           \/ \E s \in Slot : TriggerSlotFinalized(s)
           \/ Commit \/ Reset \/ Restart \/ UNCHANGED vars
    PROVE  IInv'
<1> USE DEF IInv
<1>1. UNCHANGED <<lastFinalizedSlot, storedFinalized, castVotes, finalized>>
  BY DEF TriggerSlotFinalized, Commit, Reset, Restart, EventsBelowLast, vars, history
<1>2. \A d \in Slot : \/ votesPerIdentity'[d] = votesPerIdentity[d] /\ votersPerSlot'[d] = votersPerSlot[d]
                      \/ votesPerIdentity'[d] = NoVotes /\ votersPerSlot'[d] = NoVoters
  <2> SUFFICES ASSUME NEW d \in Slot
               PROVE  \/ votesPerIdentity'[d] = votesPerIdentity[d] /\ votersPerSlot'[d] = votersPerSlot[d]
                      \/ votesPerIdentity'[d] = NoVotes /\ votersPerSlot'[d] = NoVoters
    OBVIOUS
  <2>1. ASSUME NEW s \in Slot, TriggerSlotFinalized(s)
        PROVE  /\ votesPerIdentity'[s] = NoVotes /\ votersPerSlot'[s] = NoVoters
               /\ d # s => votesPerIdentity'[d] = votesPerIdentity[d] /\ votersPerSlot'[d] = votersPerSlot[d]
    BY <2>1 DEF TriggerSlotFinalized, TypeOK
  <2>2. CASE Commit \/ UNCHANGED vars
    BY <2>2, Zenon DEF Commit, vars, trackers
  <2>3. CASE Reset
    BY <2>3, Zenon DEF Reset
  <2>4. CASE Restart
    BY <2>4, Zenon DEF Restart
  <2> QED
    BY <2>1, <2>2, <2>3, <2>4
<1>3. \A d, s \in Slot : votersPerSlot'[d][s] = votersPerSlot[d][s] \/ votersPerSlot'[d][s] = {}
  BY <1>2, EmptyTracker
<1>4. VotersVoted'
  BY <1>1, <1>3 DEF VotersVoted
<1>5. VotersNested'
  <2> SUFFICES ASSUME NEW d \in Slot, NEW s \in Slot, NEW x \in Account, s > lastFinalizedSlot
               PROVE  x \in votersPerSlot'[d][s] <=> s <= votesPerIdentity'[d][x]
    BY <1>1 DEF VotersNested
  <2>1. x \in votersPerSlot[d][s] <=> s <= votesPerIdentity[d][x]
    BY DEF VotersNested
  <2>2. lastFinalizedSlot \in Nat /\ s \in Nat
    BY TypePoints, SlotNat DEF Points
  <2> QED
    BY <1>2, <2>1, <2>2, EmptyTracker
<1>6. EventsBelowLast'
  <2>1. \/ UNCHANGED <<toTrigger, triggered>>
        \/ toTrigger' = {} /\ UNCHANGED triggered
        \/ \E s \in Slot : /\ s \in toTrigger /\ \A t \in toTrigger : s <= t
                           /\ toTrigger' = toTrigger \ {s} /\ triggered' = triggered \cup {s}
    BY DEF TriggerSlotFinalized, Commit, Reset, Restart, vars, history
  <2>2. \A t \in toTrigger : t \in Nat
    BY SlotNat DEF TypeOK
  <2> QED
    BY <1>1, <2>1, <2>2, SlotNat DEF EventsBelowLast
<1>7. FinalizedBySuperMajority' /\ NoGapInFinalization'
  BY <1>1 DEF FinalizedBySuperMajority, NoGapInFinalization, SeatCountNeverShrinks
<1>8. NoQuorumLeftBehind'
  <2> SUFFICES ASSUME SeatCountNeverShrinks, NEW d \in Slot, NEW s \in Slot, s > lastFinalizedSlot
               PROVE  ~Reached(votersPerSlot'[d], s)
    BY <1>1 DEF NoQuorumLeftBehind, Reached
  <2>1. ~Reached(votersPerSlot[d], s)
    BY DEF NoQuorumLeftBehind
  <2>2. CASE votersPerSlot'[d][s] = {}
    BY <2>2, FS_EmptySet DEF Reached, IsThresholdReached
  <2> QED
    BY <1>3, <2>1, <2>2 DEF Reached
<1> QED
  BY <1>4, <1>5, <1>6, <1>7, <1>8

LEMMA IInvNext == IInv /\ [Next]_vars => IInv'
<1> SUFFICES ASSUME IInv, [Next]_vars PROVE IInv'
  OBVIOUS
<1>1. TypeOK'
  BY TypeNext DEF IInv
<1> QED
  BY <1>1, TrackVotesStep, OtherSteps DEF Next

THEOREM Invariance == Spec => []IInv
  BY InitIInv, IInvNext, PTL DEF Spec

(* Every slot the gadget finalizes is backed by the confirmed blocks of one *)
(* slot from enough distinct issuers.                                       *)
THEOREM FinalizationIsBacked == Spec => []FinalizedBySuperMajority
<1>1. IInv => FinalizedBySuperMajority
  BY DEF IInv
<1> QED
  BY <1>1, Invariance, PTL

(* Unless committees shrink, the gadget skips no slot and leaves none       *)
(* behind that has enough voters.                                           *)
THEOREM FinalizationIsComplete == Spec => [](NoGapInFinalization /\ NoQuorumLeftBehind)
<1>1. IInv => NoGapInFinalization /\ NoQuorumLeftBehind
  BY DEF IInv
<1> QED
  BY <1>1, Invariance, PTL

(* Finalization is never taken back and SlotFinalized is triggered in       *)
(* ascending order, once per slot, over resets and restarts.                *)
THEOREM FinalizationAdvances == Spec => FinalizationOnlyAdvances
<1> DEFINE A == /\ lastFinalizedSlot' >= lastFinalizedSlot
                /\ \A s \in triggered' \ triggered : \A t \in triggered : t < s
                /\ \A s \in triggered' \cap triggered : s \notin toTrigger'
<1>1. IInv /\ IInv' /\ [Next]_vars => [A]_vars
  <2> SUFFICES ASSUME IInv, IInv', Next PROVE A
    OBVIOUS
  <2>1. lastFinalizedSlot \in Nat /\ lastFinalizedSlot' \in Nat
    BY TypePoints, TypePointsPrime DEF IInv, Points
  <2>2. \A s \in triggered', t \in toTrigger' : s \in Nat /\ s < t
    BY SlotNat DEF IInv, EventsBelowLast, TypeOK
  <2>3. \A s \in triggered' \cap triggered : s \notin toTrigger'
    BY <2>2
  <2>4. ASSUME NEW b \in Slot, NEW c \in Slot, NEW a \in Account, TrackVotes(b, c, a)
        PROVE  lastFinalizedSlot' >= lastFinalizedSlot /\ triggered' = triggered
    <3> DEFINE prev == votesPerIdentity[b][a]
               voters == AddedVoters(b, a, prev, c)
               new == NewlyFinalized(voters, prev, c)
    <3>1. \A s \in new : s \in Nat /\ s > lastFinalizedSlot
      <4>1. prev \in Nat
        BY TypePoints DEF IInv, Points
      <4> DEFINE from == Max2(lastFinalizedSlot, prev)
      <4>2. \A s \in new : s \in Slot /\ from < s
        BY Zenon DEF NewlyFinalized
      <4> HIDE DEF prev, new
      <4>3. from >= lastFinalizedSlot /\ from \in Nat
        BY <2>1, <4>1 DEF Max2
      <4> HIDE DEF from
      <4> QED
        BY <2>1, <4>2, <4>3, SlotNat
    <3>2. triggered' = triggered /\ (lastFinalizedSlot' = lastFinalizedSlot \/ SetLastFinalizedSlot(new))
      BY <2>4, TrackVotesCases
    <3> HIDE DEF new
    <3> QED
      BY <2>1, <3>1, <3>2 DEF SetLastFinalizedSlot
  <2>5. ASSUME NEW s \in Slot, TriggerSlotFinalized(s)
        PROVE  lastFinalizedSlot' = lastFinalizedSlot /\ \A t \in triggered : t < s
    BY <2>5 DEF TriggerSlotFinalized, IInv, EventsBelowLast
  <2>6. ASSUME Commit \/ Reset \/ Restart
        PROVE  lastFinalizedSlot' = lastFinalizedSlot /\ triggered' = triggered
    BY <2>6 DEF Commit, Reset, Restart, history, IInv, EventsBelowLast
  <2> QED
    BY <2>1, <2>3, <2>4, <2>5, <2>6 DEF Next, TriggerSlotFinalized
<1> QED
  BY <1>1, Invariance, PTL DEF Spec, FinalizationOnlyAdvances
=============================================================================
