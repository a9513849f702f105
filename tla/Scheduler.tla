------------------------------ MODULE Scheduler ------------------------------
(***************************************************************************)
(* The deficit round robin scheduler: basic blocks wait in one queue per   *)
(* issuer, the queues stand in a ring, and a worker schedules the block of *)
(* the issuer that reaches the needed deficit first; validation blocks     *)
(* wait in one queue per validator, each with a worker of its own.  What   *)
(* bufferMutex guards, and the flags of the blocks, is the record s.       *)
(***************************************************************************)
EXTENDS Integers, FiniteSets, Sequences, SequencesExt

CONSTANTS
    Issuer, Validator,      \* accounts that issue basic and validation blocks
    Block, IssuerOf,        \* block objects and their issuers
    Parents,                \* the parents of a block that are in Block
    Time,                   \* the issuing times, which order the queues
    FutureBlock,            \* blocks issued ahead of the clock of this node
    Work,                   \* work scores
    MaxBlockWork, Quantum,  \* quantumFunc, where it does not fail
    MaxDeficit,             \* maxDeficit()
    SchedulerRate,          \* tokens per second
    MaxBufferSize, MaxValidationBufferSize,
    NewAccount,             \* accounts created during the run
    MaxQueues,              \* bound: issuer queues created
    MaxEvents               \* bound: events from the rest of the engine

ASSUME SchedulerAssumption ==
    /\ IssuerOf \in [Block -> Issuer \cup Validator] /\ Issuer \cap Validator = {}
    /\ Parents \in [Block -> SUBSET Block] /\ Time \in [Block -> Nat]
    /\ \A a, b \in Block : Time[a] = Time[b] => a = b
    /\ Work \in [Block -> 1 .. MaxBlockWork] /\ Quantum \in [Issuer -> 1 .. MaxDeficit]
    /\ MaxBlockWork \in Nat \ {0} /\ MaxDeficit \in Nat /\ MaxBlockWork <= MaxDeficit
    /\ {SchedulerRate, MaxBufferSize, MaxValidationBufferSize, MaxQueues} \subseteq Nat \ {0}
    /\ FutureBlock \subseteq Block /\ NewAccount \subseteq Issuer
    /\ MaxEvents \in Nat

VARIABLES
    s,                      \* the scheduler and the scheduling flags of the blocks
    worker,                 \* the loops: the block each holds and its next step
    tokens,                 \* tokenBucket
    account,                \* an account as the ledger and the sync manager see it
    booked,                 \* blocks BlockBooked was triggered for
    fate,                   \* what became of a block in the rest of the engine
    clock,                  \* whether the future blocks are due
    events                  \* bound: events from the rest of the engine so far

vars == <<s, worker, tokens, account, booked, fate, clock, events>>
outside == <<tokens, account, booked, fate, clock, events>>

Queue == 1 .. MaxQueues
NoQueue == 0
NoDeficit == -1
Worker == {"basic"} \cup Validator
BasicBlock == { b \in Block : IssuerOf[b] \in Issuer }
Children(b) == { c \in Block : b \in Parents[c] }

Idle == [step |-> "idle"]
At(step, b) == [step |-> step, block |-> b]

(* The blocks of a set by issuing time. *)
Oldest(bs) == CHOOSE b \in bs : \A c \in bs : Time[b] <= Time[c]
Newest(bs) == CHOOSE b \in bs : \A c \in bs : Time[c] <= Time[b]

(* The account is there at the slot of the sync manager, where quantumFunc *)
(* looks: one just created is not, one just destroyed still is.            *)
QuantumKnown(i) == account[i] \in {"live", "leaving"}

Accepted(b) == fate[b] \in {"accepted", "committed"}
InCache(b) == fate[b] # "orphaned"
Due(b) == b \in FutureBlock => clock

----------------------------------------------------------------------------
(* The ring of container/ring: next is a permutation of the queues, whose  *)
(* cycle through s.ring is the ring of the buffer.                         *)

Prev(next, q) == CHOOSE p \in Queue : next[p] = q

(* r.Link(q) *)
Link(next, r, q) == [next EXCEPT ![r] = q, ![Prev(next, q)] = next[r]]

Cycle(next, q) ==
    LET at[n \in 0 .. MaxQueues] == IF n = 0 THEN q ELSE next[at[n - 1]]
        len == CHOOSE n \in Queue : at[n] = q /\ \A m \in 1 .. n - 1 : at[m] # q
    IN  [k \in 1 .. len |-> at[k - 1]]

RingQueues(st) == IF st.ring = NoQueue THEN <<>> ELSE Cycle(st.next, st.ring)

(* A panic ends the node: what follows it in the code does not happen. *)
Panic(st, why) == [st EXCEPT !.panic = why]
AndThen(st, Op(_)) == IF st.panic = "" THEN Op(st) ELSE st

ringInsert(st, q) ==
    IF st.ring = NoQueue THEN [st EXCEPT !.ring = q]
    ELSE [st EXCEPT !.next = Link(@, q, st.ring)]

ringRemove(st, q) ==
    IF st.ring = NoQueue THEN Panic(st, "ring")
    ELSE LET n == st.next[st.ring] IN
         IF q = st.ring /\ n = st.ring THEN [st EXCEPT !.ring = NoQueue]
         ELSE [st EXCEPT !.ring = IF q = @ THEN n ELSE @,
                         !.next = Link(@, Prev(@, q), n)]

----------------------------------------------------------------------------
(* The buffer of the issuer queues.                                        *)

FrontOf(st, q) == IF st.ready[q] = {} THEN {} ELSE {Oldest(st.ready[q])}
Size(st, q) == Cardinality(st.nonReady[q] \cup st.ready[q])
QueueWork(st, q) == FoldLeft(LAMBDA n, b : n + Work[b], 0, SetToSeq(st.nonReady[q] \cup st.ready[q]))
TotalBlocksCount(st) == FoldLeft(LAMBDA n, q : n + Size(st, q), 0, [q \in Queue |-> q])

(* A queue is created with the deficit: the bound on queues is a guard of  *)
(* the actions.                                                            *)
CreateIssuerQueue(st, i) ==
    IF st.active[i] # NoQueue THEN Panic(st, "exists")
    ELSE LET q == st.created + 1
         IN  ringInsert([st EXCEPT !.created = q, !.owner[q] = i, !.active[i] = q], q)

getOrCreateIssuer(st, i) ==
    LET st1 == IF st.active[i] # NoQueue THEN st ELSE CreateIssuerQueue(st, i)
    IN  IF st1.deficit[i] # NoDeficit THEN st1 ELSE [st1 EXCEPT !.deficit[i] = 0]

createIssuer(st, i) ==
    LET st1 == CreateIssuerQueue(st, i)
    IN  IF st1.deficit[i] # NoDeficit THEN Panic(st1, "exists") ELSE [st1 EXCEPT !.deficit[i] = 0]

(* Mutant: the queue leaves the ring with its blocks. *)
RemoveIssuerQueueUncleared(st, i) ==
    LET q == st.active[i]
    IN  IF q = NoQueue THEN st ELSE ringRemove([st EXCEPT !.active[i] = NoQueue], q)

RemoveIssuerQueue(st, i) ==
    LET q == st.active[i]
    IN  IF q = NoQueue THEN st
        ELSE ringRemove([st EXCEPT !.nonReady[q] = {}, !.ready[q] = {}, !.active[i] = NoQueue], q)

RemoveIssuerQueueIfEmpty(st, i) ==
    LET q == st.active[i]
    IN  IF q # NoQueue /\ Size(st, q) = 0 THEN ringRemove([st EXCEPT !.active[i] = NoQueue], q) ELSE st

(* SetDropped, SetSkipped and SetScheduled change an enqueued block only. *)
SetDropped(st, bs) == [st EXCEPT !.dropped = @ \cup (bs \cap st.enqueued), !.enqueued = @ \ bs]
SetSkipped(st, b) ==
    IF b \in st.enqueued THEN [st EXCEPT !.skipped = @ \cup {b}, !.enqueued = @ \ {b}] ELSE st
SetScheduled(st, b) ==
    IF b \in st.enqueued THEN [st EXCEPT !.scheduled = @ \cup {b}, !.enqueued = @ \ {b}] ELSE st

(* The block RemoveTail takes out of a queue: the oldest block that is not *)
(* ready, unless every ready block is older; then the newest ready block.  *)
TailOf(nonReady, ready) ==
    IF nonReady # {} /\ (ready = {} \/ Time[Newest(ready)] > Time[Oldest(nonReady)])
    THEN Oldest(nonReady)
    ELSE Newest(ready)

(* The first queue, in the order of the ring, whose issuer has no quantum, *)
(* or else the first one that is longest relative to its quantum.          *)
LongestQueue(st) ==
    LET order == RingQueues(st)
        unfunded == SelectSeq(order, LAMBDA q : ~QuantumKnown(st.owner[q]) /\ Size(st, q) > 0)
        funded == SelectSeq(order, LAMBDA q : QuantumKnown(st.owner[q]))
        Longer(p, q) == IF QueueWork(st, q) * Quantum[st.owner[p]] > QueueWork(st, p) * Quantum[st.owner[q]]
                        THEN q ELSE p
    IN  CASE unfunded # <<>> -> Head(unfunded)
          [] unfunded = <<>> /\ funded # <<>> -> FoldLeft(Longer, Head(funded), Tail(funded))
          [] OTHER -> NoQueue

(* Mutant: the buffer is dropped from one block too late. *)
dropTailLate(st) ==
    LET q == st.active[st.owner[LongestQueue(st)]]
        b == TailOf(st.nonReady[q], st.ready[q])
    IN  IF TotalBlocksCount(st) <= MaxBufferSize + 1 THEN st
        ELSE SetDropped([st EXCEPT !.nonReady[q] = @ \ {b}, !.ready[q] = @ \ {b}], {b})

(* A submission exceeds the buffer by one block, which dropTail removes. *)
dropTail(st) ==
    LET longest == LongestQueue(st)
        q == IF longest = NoQueue THEN NoQueue ELSE st.active[st.owner[longest]]
    IN  IF TotalBlocksCount(st) <= MaxBufferSize THEN st
        ELSE IF q = NoQueue \/ Size(st, q) = 0 THEN Panic(st, "tail")
        ELSE LET b == TailOf(st.nonReady[q], st.ready[q])
             IN  SetDropped([st EXCEPT !.nonReady[q] = @ \ {b}, !.ready[q] = @ \ {b}], {b})

(* The blocks of bs whose parents were all scheduled, skipped or accepted  *)
(* move to the ready part of their queues.                                 *)
isEligible(st, b) == b \in st.skipped \cup st.scheduled \/ Accepted(b)

(* Mutant: a parent that is not in the cache does not count. *)
isReadyOrphaned(st, b) == \A p \in Parents[b] : InCache(p) => isEligible(st, p)

isReady(st, b) == \A p \in Parents[b] : InCache(p) /\ isEligible(st, p)

tryReady(st, bs) ==
    LET of(q) == { b \in bs : isReady(st, b) /\ b \in st.nonReady[q] /\ st.active[IssuerOf[b]] = q }
        vof(v) == { b \in bs : isReady(st, b) /\ b \in st.submitted[v] }
    IN  [st EXCEPT !.nonReady = [q \in Queue |-> @[q] \ of(q)],
                   !.ready = [q \in Queue |-> @[q] \cup of(q)],
                   !.submitted = [v \in Validator |-> @[v] \ vof(v)],
                   !.inbox = [v \in Validator |-> @[v] \cup vof(v)]]

updateChildren(st, b) == tryReady(st, { c \in Children(b) : InCache(c) /\ c \in st.enqueued })

SetEnqueued(st, b) == tryReady([st EXCEPT !.enqueued = @ \cup {b}], {b})

enqueueBasicBlock(st, b) ==
    LET st1 == getOrCreateIssuer(st, IssuerOf[b])
        st2 == dropTail([st1 EXCEPT !.nonReady[st1.active[IssuerOf[b]]] = @ \cup {b}])
    IN  AndThen(st2, LAMBDA st3 : SetEnqueued(st3, b))

enqueueValidationBlock(st, b) ==
    LET v == IssuerOf[b]
        submitted == st.submitted[v] \cup {b}
        tail == IF Cardinality(submitted \cup st.inbox[v]) > MaxValidationBufferSize
                THEN {TailOf(submitted, st.inbox[v])} ELSE {}
        st1 == [st EXCEPT !.submitted[v] = submitted \ tail, !.inbox[v] = @ \ tail,
                          !.validators = @ \cup {v}]
    IN  SetEnqueued(SetDropped(st1, tail), b)

----------------------------------------------------------------------------
(* The selection of the next block, under bufferMutex.                     *)

deficitFromWork(w) == w * (MaxDeficit \div MaxBlockWork)

updateDeficit(st, i, delta) ==
    LET new == st.deficit[i] + delta
    IN  IF st.deficit[i] = NoDeficit THEN Panic(st, "deficit")
        ELSE IF new < 0 THEN Panic(st, "negative")
        ELSE [st EXCEPT !.deficit[i] = IF new >= MaxDeficit THEN MaxDeficit ELSE new]

incrementDeficit(st, i, rounds) ==
    IF QuantumKnown(i) THEN updateDeficit(st, i, Quantum[i] * rounds) ELSE Panic(st, "quantum")

(* Committed blocks at the front of a queue are skipped. *)
SkipCommitted(st, q) ==
    LET Skip(st1, k) ==
            IF \E b \in FrontOf(st1, q) : fate[b] = "committed"
            THEN LET b == Oldest(st1.ready[q])
                     st2 == IF b \in st1.skipped THEN st1 ELSE updateChildren(SetSkipped(st1, b), b)
                 IN  [st2 EXCEPT !.ready[q] = @ \ {b}]
            ELSE st1
    IN  FoldLeft(Skip, st, [k \in 1 .. Cardinality(Block) |-> k])

(* Division of Go: truncated towards zero. *)
Quo(a, b) == IF a >= 0 THEN a \div b ELSE -((-a) \div b)

(* Mutant: the rounds are rounded down. *)
RoundsFloor(st, i, w) == Quo(deficitFromWork(w) - st.deficit[i], Quantum[i])

(* The rounds until the issuer i can afford the work w. *)
Rounds(st, i, w) == Quo(deficitFromWork(w) - st.deficit[i] + Quantum[i] - 1, Quantum[i])

(* One turn of the walk of selectIssuer, once the committed blocks of q    *)
(* are skipped: q is selected if its front needs fewer rounds so far.      *)
Consider(acc, st, q) ==
    LET i == st.owner[q]
        rounds == Rounds(st, i, Work[Oldest(st.ready[q])])
    IN  CASE ~\E b \in FrontOf(st, q) : Due(b) -> [acc EXCEPT !.st = st]
          [] (\E b \in FrontOf(st, q) : Due(b)) /\ st.deficit[i] = NoDeficit ->
               [acc EXCEPT !.st = Panic(st, "deficit")]
          [] (\E b \in FrontOf(st, q) : Due(b)) /\ st.deficit[i] # NoDeficit /\ ~QuantumKnown(i) ->
               [acc EXCEPT !.st = Panic(st, "quantum")]
          [] OTHER -> IF acc.queue = NoQueue \/ rounds < acc.rounds
                      THEN [st |-> st, queue |-> q, rounds |-> rounds]
                      ELSE [acc EXCEPT !.st = st]

(* The first queue of the ring that needs the fewest rounds. *)
selectIssuer(st) ==
    LET Visit(acc, q) == IF acc.st.panic # "" THEN acc ELSE Consider(acc, SkipCommitted(acc.st, q), q)
    IN  FoldLeft(Visit, [st |-> st, queue |-> NoQueue, rounds |-> 0], RingQueues(st))

(* Every queue of the ring receives the rounds needed, *)
AllRounds(st, rounds) ==
    LET Visit(st1, q) == AndThen(st1, LAMBDA st2 : incrementDeficit(st2, st.owner[q], rounds))
    IN  IF rounds > 0 THEN FoldLeft(Visit, st, RingQueues(st)) ELSE st

(* and those before the selected one a further one; empty queues with the *)
(* greatest deficit leave the ring on the way.                            *)
WalkTo(st, q) ==
    LET Leave(st1, i) == IF st1.deficit[i] = MaxDeficit THEN RemoveIssuerQueueIfEmpty(st1, i) ELSE st1
        Advance(st1) == IF st1.ring = NoQueue THEN Panic(st1, "ring") ELSE [st1 EXCEPT !.ring = st1.next[@]]
        Step(st1, i) == AndThen(AndThen(incrementDeficit(st1, i, 1), LAMBDA st2 : Leave(st2, i)), Advance)
        Visit(st1, k) == IF st1.panic # "" \/ st1.ring = q THEN st1 ELSE Step(st1, st1.owner[st1.ring])
    IN  FoldLeft(Visit, st, [k \in 1 .. MaxQueues * MaxQueues |-> k])

PopFront(st) ==
    LET b == Oldest(st.ready[st.ring])
        st1 == [st EXCEPT !.ready[st.ring] = @ \ {b}, !.blockChan = {b}]
    IN  updateDeficit(st1, IssuerOf[b], -deficitFromWork(Work[b]))

(* Mutant: no rounds are skipped, an issuer has the deficit or waits. *)
PopSelectedNow(selected) ==
    IF selected.queue = NoQueue \/ selected.rounds > 0 THEN selected.st
    ELSE AndThen(WalkTo(selected.st, selected.queue), PopFront)

PopSelected(selected) ==
    IF selected.queue = NoQueue THEN selected.st
    ELSE AndThen(WalkTo(AllRounds(selected.st, selected.rounds), selected.queue), PopFront)

selectBasicBlock(st) == IF st.blockChan # {} THEN st ELSE PopSelected(selectIssuer(st))

(* Every validator queue pushes its oldest ready block to its worker. *)
ScheduleNext(st) ==
    LET pushed == { v \in Validator : st.validatorChan[v] = {} /\ st.inbox[v] # {} }
    IN  [st EXCEPT !.inbox = [v \in Validator |->
                                IF v \in pushed THEN @[v] \ {Oldest(@[v])} ELSE @[v]],
                   !.validatorChan = [v \in Validator |->
                                IF v \in pushed THEN {Oldest(st.inbox[v])} ELSE @[v]]]

selectBlockToSchedule(st) == selectBasicBlock(ScheduleNext(st))

----------------------------------------------------------------------------
Init ==
    /\ s = [next |-> [q \in Queue |-> q], ring |-> NoQueue, created |-> 0,
            owner |-> [q \in Queue |-> NoQueue], active |-> [i \in Issuer |-> NoQueue],
            deficit |-> [i \in Issuer |-> NoDeficit],
            nonReady |-> [q \in Queue |-> {}], ready |-> [q \in Queue |-> {}], blockChan |-> {},
            validators |-> {}, submitted |-> [v \in Validator |-> {}],
            inbox |-> [v \in Validator |-> {}], validatorChan |-> [v \in Validator |-> {}],
            enqueued |-> {}, scheduled |-> {}, skipped |-> {}, dropped |-> {}, panic |-> ""]
    /\ worker = [w \in Worker |-> Idle]
    /\ tokens = 0
    /\ account = [i \in Issuer |-> IF i \in NewAccount THEN "none" ELSE "live"]
    /\ booked = {}
    /\ fate = [b \in Block |-> "pending"]
    /\ clock = FALSE /\ events = 0

Queued == UNION { s.nonReady[q] \cup s.ready[q] : q \in Queue }
          \cup UNION { s.submitted[v] \cup s.inbox[v] \cup s.validatorChan[v] : v \in Validator }
          \cup s.blockChan

Running == s.panic = ""
EngineEvent == Running /\ events < MaxEvents /\ events' = events + 1

(* AddBlock, the first half of the hook on BlockBooked.  A block passes    *)
(* the filter when its account exists at the commitment it refers to, so   *)
(* also after the account was destroyed.                                   *)
AddBlock(b) ==
    /\ Running /\ b \notin booked /\ Parents[b] \subseteq booked
    /\ IF b \in BasicBlock
       THEN /\ account[IssuerOf[b]] \in {"live", "leaving", "gone"}
            /\ s.active[IssuerOf[b]] # NoQueue \/ s.created < MaxQueues
            /\ s' = enqueueBasicBlock(s, b)
       ELSE /\ IssuerOf[b] \in s.validators \/ worker[IssuerOf[b]] = Idle
            /\ s' = enqueueValidationBlock(s, b)
    /\ booked' = booked \cup {b}
    /\ UNCHANGED <<worker, tokens, account, fate, clock, events>>

(* The second half of the hook.  Blocks of validators outside the model are *)
(* booked all the time, so it may run at any time.                         *)
SelectAfterBooking ==
    /\ Running
    /\ s' = selectBlockToSchedule(s)
    /\ UNCHANGED <<worker, outside>>

(* basicBlockLoop takes a block, when no token accrued or all did.  If     *)
(* the wait time is positive, which is a lack of a second's worth of       *)
(* tokens, it waits for as long as that variable, which the loop never     *)
(* assigns again, stays positive.                                          *)
TakeBlock ==
    /\ Running /\ worker["basic"] = Idle
    /\ \E b \in s.blockChan, accrued \in {tokens, MaxBlockWork} :
         IF Work[b] - accrued >= SchedulerRate
         THEN /\ worker' = [worker EXCEPT !["basic"] = At("wait", b)]
              /\ tokens' = tokens
         ELSE /\ worker' = [worker EXCEPT !["basic"] = At("schedule", b)]
              /\ tokens' = accrued
    /\ s' = [s EXCEPT !.blockChan = {}]
    /\ UNCHANGED <<account, booked, fate, clock, events>>

(* validatorLoop waits once. *)
TakeValidationBlock(v) ==
    /\ Running /\ worker[v] = Idle
    /\ \E b \in s.validatorChan[v] : worker' = [worker EXCEPT ![v] = At("schedule", b)]
    /\ s' = [s EXCEPT !.validatorChan[v] = {}]
    /\ UNCHANGED outside

(* scheduleBasicBlock and scheduleValidationBlock take bufferMutex twice   *)
(* after the flag of the block is set.                                     *)
ScheduleBlock(w) ==
    /\ Running /\ worker[w].step = "schedule"
    /\ LET b == worker[w].block
       IN  IF b \in s.scheduled
           THEN worker' = [worker EXCEPT ![w] = Idle] /\ UNCHANGED <<s, tokens>>
           ELSE /\ s' = SetScheduled(s, b)
                /\ tokens' = IF w = "basic" THEN tokens - Work[b] ELSE tokens
                /\ worker' = [worker EXCEPT ![w] = At("children", b)]
    /\ UNCHANGED <<account, booked, fate, clock, events>>

UpdateChildren(w) ==
    /\ Running /\ worker[w].step = "children"
    /\ s' = updateChildren(s, worker[w].block)
    /\ worker' = [worker EXCEPT ![w].step = "select"]
    /\ UNCHANGED outside

SelectNext(w) ==
    /\ Running /\ worker[w].step = "select"
    /\ s' = selectBlockToSchedule(s)
    /\ worker' = [worker EXCEPT ![w] = Idle]
    /\ UNCHANGED outside

(* The hook on AccountCreated, when the ledger has committed the slot and  *)
(* the sync manager has not seen the commitment yet.                       *)
AccountCreated(i) ==
    /\ EngineEvent /\ account[i] = "none" /\ s.created < MaxQueues
    /\ account' = [account EXCEPT ![i] = "new"]
    /\ s' = createIssuer(s, i)
    /\ UNCHANGED <<worker, tokens, booked, fate, clock>>

(* The hook on AccountDestroyed: removeIssuer. *)
AccountDestroyed(i) ==
    /\ EngineEvent /\ account[i] = "live"
    /\ account' = [account EXCEPT ![i] = "leaving"]
    /\ LET q == s.active[i]
           blocks == IF q = NoQueue THEN {} ELSE s.nonReady[q] \cup s.ready[q]
       IN  s' = RemoveIssuerQueue([SetDropped(s, blocks) EXCEPT !.deficit[i] = NoDeficit], i)
    /\ UNCHANGED <<worker, tokens, booked, fate, clock>>

(* SyncManager.LatestCommitment reaches the commitment of the ledger. *)
UpdateLatestCommitment ==
    /\ Running /\ \E i \in Issuer : account[i] \in {"new", "leaving"}
    /\ account' = [i \in Issuer |-> CASE account[i] = "new" -> "live"
                                     [] account[i] = "leaving" -> "gone"
                                     [] OTHER -> account[i]]
    /\ UNCHANGED <<s, worker, tokens, booked, fate, clock, events>>

WithoutValidators(st, vs) ==
    [st EXCEPT !.validators = @ \ vs,
               !.submitted = [v \in Validator |-> IF v \in vs THEN {} ELSE @[v]],
               !.inbox = [v \in Validator |-> IF v \in vs THEN {} ELSE @[v]],
               !.validatorChan = [v \in Validator |-> IF v \in vs THEN {} ELSE @[v]]]

(* The queue of a validator that left the committee is deleted.  Its loop  *)
(* may have taken the block of the channel before (TakeValidationBlock).   *)
RemoveValidatorQueue(v) ==
    /\ EngineEvent /\ v \in s.validators
    /\ s' = WithoutValidators(s, {v})
    /\ UNCHANGED <<worker, tokens, account, booked, fate, clock>>

(* Reset clears the buffers, the issuer queues in any order. *)
Reset ==
    /\ EngineEvent
    /\ \E order \in SetToSeqs({ i \in Issuer : s.active[i] # NoQueue }) :
         s' = FoldLeft(RemoveIssuerQueue, WithoutValidators([s EXCEPT !.blockChan = {}], Validator), order)
    /\ UNCHANGED <<worker, tokens, account, booked, fate, clock>>

(* The rest of the engine: a booked block is accepted, an accepted one     *)
(* gets older than the maximal committable age, one that is not accepted   *)
(* is evicted with its slot.                                               *)
AcceptBlock(b) ==
    /\ EngineEvent /\ b \in booked /\ fate[b] = "pending"
    /\ fate' = [fate EXCEPT ![b] = "accepted"]
    /\ UNCHANGED <<s, worker, tokens, account, booked, clock>>

BlockCommitted(b) ==
    /\ EngineEvent /\ fate[b] = "accepted" /\ Due(b)
    /\ fate' = [fate EXCEPT ![b] = "committed"]
    /\ UNCHANGED <<s, worker, tokens, account, booked, clock>>

BlockOrphaned(b) ==
    /\ EngineEvent /\ b \in booked /\ fate[b] = "pending"
    /\ fate' = [fate EXCEPT ![b] = "orphaned"]
    /\ UNCHANGED <<s, worker, tokens, account, booked, clock>>

ClockAdvances ==
    /\ EngineEvent /\ ~clock /\ FutureBlock \cap Queued # {}
    /\ clock' = TRUE
    /\ UNCHANGED <<s, worker, tokens, account, booked, fate>>

WorkerStep(w) == ScheduleBlock(w) \/ UpdateChildren(w) \/ SelectNext(w)

Next ==
    \/ \E b \in Block : AddBlock(b)
    \/ SelectAfterBooking
    \/ TakeBlock
    \/ \E v \in Validator : TakeValidationBlock(v) \/ RemoveValidatorQueue(v)
    \/ \E w \in Worker : WorkerStep(w)
    \/ \E i \in Issuer : AccountCreated(i) \/ AccountDestroyed(i)
    \/ UpdateLatestCommitment
    \/ Reset
    \/ \E b \in Block : AcceptBlock(b) \/ BlockCommitted(b) \/ BlockOrphaned(b)
    \/ ClockAdvances

(* The selection runs again and again, since blocks of validators are      *)
(* booked in every slot, and so does basicBlockLoop, a goroutine of its    *)
(* own.  As finitely many blocks are booked, weak fairness of the two is   *)
(* that neither can change the state for ever.                             *)
LoopMayStep ==
    \/ worker["basic"].step \in {"schedule", "children", "select"}
    \/ worker["basic"] = Idle /\ s.blockChan # {}

Fairness ==
    /\ []<>(Running => selectBlockToSchedule(s) = s)
    /\ []<>~(Running /\ LoopMayStep)

Spec == Init /\ [][Next]_vars /\ Fairness

----------------------------------------------------------------------------
RingSet == ToSet(RingQueues(s))
ActiveQueues == { s.active[i] : i \in Issuer } \ {NoQueue}

(* Every variable has its type, and the buffer stays within MaxBufferSize, *)
(* what dropTail of Submit is for.                                         *)
TypeOK ==
    /\ s.next \in [Queue -> Queue] /\ s.ring \in Queue \cup {NoQueue} /\ s.created \in 0 .. MaxQueues
    /\ s.owner \in [Queue -> Issuer \cup {NoQueue}] /\ s.active \in [Issuer -> Queue \cup {NoQueue}]
    /\ s.deficit \in [Issuer -> NoDeficit .. MaxDeficit]
    /\ s.nonReady \in [Queue -> SUBSET BasicBlock] /\ s.ready \in [Queue -> SUBSET BasicBlock]
    /\ s.blockChan \subseteq BasicBlock /\ s.validators \subseteq Validator
    /\ UNION {s.enqueued, s.scheduled, s.skipped, s.dropped, booked} \subseteq Block
    /\ tokens \in (-SchedulerRate) .. MaxBlockWork
    /\ TotalBlocksCount(s) <= MaxBufferSize

Held == { worker[w].block : w \in { v \in Worker : worker[v].step \in {"wait", "schedule"} } }
Selectable == UNION { s.ready[q] : q \in Queue }
              \cup UNION { s.inbox[v] \cup s.validatorChan[v] : v \in Validator }
              \cup s.blockChan \cup Held

(* A block is ready, selected or scheduled only when each of its parents   *)
(* was scheduled, skipped or accepted, however bookings, acceptance,       *)
(* skipping and the steps of the loops interleave (tryReady,               *)
(* updateChildrenWithLocking).                                             *)
CausalScheduling == \A b \in Selectable \cup s.scheduled : \A p \in Parents[b] : isEligible(s, p)

(* A block in a queue, in a channel or held by a loop still has the flag   *)
(* enqueued, so it was neither dropped nor skipped and is not scheduled    *)
(* twice, and no block is in a queue while a loop holds it.                *)
QueuedIsEnqueued == Queued \cup Held \subseteq s.enqueued /\ Queued \cap Held = {}

(* The rounds that selectIssuer computes and the walk to the selected      *)
(* issuer always give it the deficit for its block, the walk ends at that  *)
(* issuer, dropTail finds a block, and no queue is created twice: the      *)
(* panics of these places never happen.                                    *)
DeficitsSuffice == s.panic \notin {"negative", "tail", "ring", "exists"}

(* RemoveIssuerQueue "deletes the issuer queue" (basicbuffer.go:134), and  *)
(* no other: the ring the selection walks holds the active queues.         *)
RingHoldsActiveQueues == RingSet = ActiveQueues

(* "Created account event need to be triggered only after the              *)
(* AccountLedger and UTXO ledger are updated, so that components (like     *)
(* Scheduler) that listen to the event can access the consistent account   *)
(* state" (ledger.go:214): the selection never fails to read an account.   *)
AccountsAreReadable == s.panic # "quantum"

(* A block that is ready and due leaves its queue, unless its queue left   *)
(* the ring, the loop waits for tokens, or the node stopped.               *)
ReadyBlocksLeave ==
    \A b \in BasicBlock :
        (\E q \in RingSet : b \in s.ready[q]) /\ Due(b)
          ~> \/ ~\E q \in RingSet : b \in s.ready[q]
             \/ worker["basic"].step = "wait" \/ ~Running
=============================================================================
