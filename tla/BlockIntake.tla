----------------------------- MODULE BlockIntake -----------------------------
(***************************************************************************)
(* The way of a block from the network to the booker: BlockDAG.Append in a *)
(* pool of two workers, the block cache and its eviction, the buffer of    *)
(* blocks whose commitment this node has not reached, the requests for     *)
(* missing blocks, and the hooks by which a block becomes solid, passes    *)
(* the post-solid filter and is booked after its parents.  Commitments     *)
(* reach the parts at different times: the eviction state at once, the     *)
(* buffer through the pool of the workers, the cache and the sync manager  *)
(* through pools of their own.                                             *)
(***************************************************************************)
EXTENDS EvictionState, FiniteSets

CONSTANTS
    Parents,                \* the parents of a block
    CommitmentOf,           \* the slot of the commitment a block refers to
    TransactionBlock,       \* blocks with a transaction
    Kinds,                  \* the possible assignments of a kind to every block:
                            \*   "valid", or
                            \*   "foreign": its commitment is another chain's,
                            \*   "filtered": the post-solid filter rejects it,
                            \*   "badReference": its parents' spenders cannot be inherited
    BufferSize,             \* commitments the buffer holds
    Worker,                 \* the workers of the pool BlockDAG.Append
    MaxReceived             \* bound: how often a block is received

ASSUME IntakeAssumption ==
    /\ Parents \in [Block -> (SUBSET BlockID) \ {{}}] /\ \A b \in Block : b \notin Parents[b]
    /\ CommitmentOf \in [Block -> Nat]
    /\ \A b \in Block : CommitmentOf[b] < SlotOf[b]
    /\ TransactionBlock \subseteq Block
    /\ Kinds \subseteq [Block -> {"valid", "foreign", "filtered", "badReference"}]
    /\ BufferSize \in Nat \ {0} /\ MaxReceived \in [Block -> Nat]

VARIABLES
    kind,                   \* the kinds of the blocks, which never change
    received,               \* how often a block was received
    tasks,                  \* the queue of the pool BlockDAG.Append
    worker,                 \* what a worker of the pool is about to do
    cache,                  \* BlockCache: what is stored for a block
    tickers,                \* BlockRequester: the blocks that are requested
    stopQueue,              \* StopTicker calls waiting in their pool
    buffer,                 \* uncommittedSlotBlocks
    bufferOrder,            \* its commitments, the least recently used first
    lastEvictedSlot,        \* its lastEvictedSlot
    overtaken,              \* history: commitments released after a later one
    syncedSlot,             \* SyncManager.LatestCommitment
    cacheEvicted,           \* the last slot evicted from the cache
    setup,                  \* history: blocks setupBlock was called for
    linked,                 \* the parents whose invalid flag a block follows
    complete,               \* blocks set up with all of their parents
    allowed,                \* solid blocks the filter allowed, not yet at the booker
    queued,                 \* blocks the booker set up with all of their parents
    lost,                   \* history: blocks for which the booker missed a parent
    solid, invalid, booked

poolVars == <<kind, received, tasks, worker>>
requestVars == <<tickers, stopQueue>>
bufferVars == <<buffer, bufferOrder, lastEvictedSlot, overtaken>>
commitVars == <<syncedSlot, cacheEvicted>>
flagVars == <<setup, linked, complete, allowed, queued, lost, solid, invalid, booked>>
vars == <<evictionVars, poolVars, cache, requestVars, bufferVars, commitVars, flagVars>>

(* A commitment is its slot and whether it is on this node's chain. *)
CommitmentID(b) == <<CommitmentOf[b], kind[b] # "foreign">>

Task == [type : {"append"}, block : Block] \cup [type : {"release"}, slot : Slot]

Idle == [step |-> "idle"]
SettingUp(bs) == IF bs = {} THEN Idle ELSE [step |-> "setup", blocks |-> bs]

TypeOK ==
    /\ EvictionTypeOK /\ kind \in Kinds
    /\ \A b \in Block : received[b] \in 0 .. MaxReceived[b]
    /\ tasks \in Seq(Task)
    /\ \A w \in Worker :
         \/ worker[w] = Idle
         \/ worker[w].step \in {"parents", "store"} /\ worker[w].block \in Block
         \/ worker[w].step = "release" /\ worker[w].slot \in Slot
         \/ worker[w].step = "setup" /\ worker[w].blocks \subseteq Block
    /\ cache \in [Block -> {"none", "missing", "stored"}]
    /\ tickers \subseteq Block /\ stopQueue \subseteq Block
    /\ buffer \subseteq Block /\ Len(bufferOrder) <= BufferSize
    /\ lastEvictedSlot \in Slot /\ overtaken \subseteq Slot
    /\ syncedSlot \in 0 .. lastCommittedSlot /\ cacheEvicted \in 0 .. lastCommittedSlot
    /\ \A b \in Block : linked[b] \subseteq Parents[b]
    /\ setup \cup complete \cup allowed \cup queued \cup lost \cup invalid \subseteq Block
    /\ solid \cup booked \subseteq BlockID

Init ==
    /\ EvictionInit /\ kind \in Kinds
    /\ received = [b \in Block |-> 0] /\ tasks = <<>> /\ worker = [w \in Worker |-> Idle]
    /\ cache = [b \in Block |-> "none"]
    /\ tickers = {} /\ stopQueue = {}
    /\ buffer = {} /\ bufferOrder = <<>> /\ lastEvictedSlot = 0 /\ overtaken = {}
    /\ syncedSlot = 0 /\ cacheEvicted = 0
    /\ linked = [b \in Block |-> {}]
    /\ setup = {} /\ complete = {} /\ allowed = {} /\ queued = {} /\ lost = {}
    /\ solid = {Genesis} /\ invalid = {} /\ booked = {Genesis}

-----------------------------------------------------------------------------

(* Blocks.Block: a cached block, or a root block of the active window. *)
Exists(b) ==
    \/ b \in Block /\ cache[b] # "none"
    \/ InRange(b) /\ b \in rootBlocks

(* BlockPreAllowed hands the block to the pool; a block may come twice. *)
ReceiveBlock(b) ==
    /\ received[b] < MaxReceived[b]
    /\ received' = [received EXCEPT ![b] = @ + 1]
    /\ tasks' = Append(tasks, [type |-> "append", block |-> b])
    /\ UNCHANGED <<evictionVars, kind, worker, cache, requestVars, bufferVars, commitVars, flagVars>>

At(w, step) == worker[w].step = step
Becomes(w, state) == worker' = [worker EXCEPT ![w] = state]

(* A worker takes the next task of the pool's queue. *)
StartTask(w) ==
    /\ worker[w] = Idle /\ tasks # <<>>
    /\ tasks' = Tail(tasks)

StartRelease(w) ==
    /\ StartTask(w) /\ Head(tasks).type = "release"
    /\ Becomes(w, [step |-> "release", slot |-> Head(tasks).slot])
    /\ UNCHANGED <<evictionVars, kind, received, cache, requestVars, bufferVars, commitVars, flagVars>>

(* The first half of shouldAppend: too old, which stops the request, or    *)
(* already appended, or go on, keeping whether there is a missing entry.   *)
ShouldAppend(w) ==
    /\ StartTask(w) /\ Head(tasks).type = "append"
    /\ LET b == Head(tasks).block
           tooOld == BelowRange(b) \/ InRange(b)
       IN  \/ /\ tooOld
              /\ stopQueue' = stopQueue \cup {b}
              /\ UNCHANGED worker
           \/ /\ ~ tooOld /\ cache[b] = "stored"
              /\ UNCHANGED <<worker, stopQueue>>
           \/ /\ ~ tooOld /\ cache[b] # "stored"
              /\ Becomes(w, [step |-> "parents", block |-> b, known |-> cache[b] = "missing"])
              /\ UNCHANGED stopQueue
    /\ UNCHANGED <<evictionVars, kind, received, cache, tickers, bufferVars, commitVars, flagVars>>

(* A parent from before the window, or of the window and not a root block. *)
TooOld(p) == BelowRange(p) \/ (InRange(p) /\ ~ IsActiveRootBlock(p))

(* The second half: canAppendToParents.  A missing entry of a block with   *)
(* parents that are too old becomes invalid.                               *)
CanAppendToParents(w) ==
    /\ At(w, "parents")
    /\ LET b == worker[w].block
           tooOld == \E p \in Parents[b] : TooOld(p)
       IN  \/ /\ tooOld
              /\ invalid' = IF worker[w].known THEN invalid \cup {b} ELSE invalid
              /\ stopQueue' = stopQueue \cup {b}
              /\ Becomes(w, Idle)
           \/ /\ ~ tooOld
              /\ Becomes(w, [step |-> "store", block |-> b])
              /\ UNCHANGED <<invalid, stopQueue>>
    /\ UNCHANGED <<evictionVars, kind, received, tasks, cache, tickers, bufferVars, commitVars,
                   setup, linked, complete, allowed, queued, lost, solid, booked>>

(* registerChild: the parents that are neither root blocks, nor evicted,   *)
(* nor known.  They become missing entries and are requested, the request  *)
(* before the entry can be seen.                                           *)
UnknownParents(b) ==
    { p \in Parents[b] \ {Genesis} : /\ ~ IsActiveRootBlock(p)
                                     /\ SlotOf[p] > lastCommittedSlot
                                     /\ cache[p] = "none" }

(* Put of the commitment cache: the commitment becomes the most recently   *)
(* used one, and beyond the size the least recently used one goes.         *)
Touched(c) == Append(SelectSeq(bufferOrder, LAMBDA d : d # c), c)

BufferAdd(b) ==
    LET touched == Touched(CommitmentID(b))
        evicts == Len(touched) > BufferSize
    IN
    /\ bufferOrder' = IF evicts THEN Tail(touched) ELSE touched
    /\ buffer' = { d \in buffer \cup {b} : ~ (evicts /\ CommitmentID(d) = Head(touched)) }

(* Mutant: AddWithFunc asks the sync manager only. *)
MustWaitStale(b) == CommitmentOf[b] > syncedSlot

(* AddWithFunc: a block whose commitment was neither released nor reached  *)
(* by the sync manager waits; any other is set up at once.                 *)
MustWait(b) == CommitmentOf[b] > lastEvictedSlot /\ CommitmentOf[b] > syncedSlot

(* Mutant: filling a missing entry does not stop its request. *)
StopsRequestNever(b) == FALSE

(* MissingBlockAppended, which stops the request from a pool of its own. *)
StopsRequest(b) == cache[b] = "missing"

(* StoreOrUpdate, the parents, and the decision of Append to let the block *)
(* wait in the buffer.  A slot committed between these calls is one        *)
(* committed before them or after them.                                    *)
StoreBlock(w) ==
    /\ At(w, "store")
    /\ LET b == worker[w].block IN
       \/ /\ SlotOf[b] <= lastCommittedSlot
          /\ stopQueue' = stopQueue \cup {b}
          /\ Becomes(w, Idle)
          /\ UNCHANGED <<cache, tickers, buffer, bufferOrder>>
       \/ /\ SlotOf[b] > lastCommittedSlot
          /\ cache' = [p \in Block |-> IF p = b THEN "stored"
                                      ELSE IF p \in UnknownParents(b) THEN "missing" ELSE cache[p]]
          /\ tickers' = tickers \cup UnknownParents(b)
          /\ stopQueue' = IF StopsRequest(b) THEN stopQueue \cup {b} ELSE stopQueue
          /\ \/ /\ MustWait(b) /\ BufferAdd(b) /\ Becomes(w, Idle)
             \/ /\ ~ MustWait(b) /\ Becomes(w, SettingUp({b}))
                /\ UNCHANGED <<buffer, bufferOrder>>
    /\ UNCHANGED <<evictionVars, kind, received, tasks, lastEvictedSlot, overtaken, commitVars, flagVars>>

(* GetValuesAndEvict: the blocks of the commitment are set up, every other *)
(* block of a commitment up to its slot is dropped.  The two workers may   *)
(* release two commitments in either order.                                *)
ReleaseUncommitted(w) ==
    LET s == worker[w].slot IN
    /\ At(w, "release")
    /\ buffer' = { b \in buffer : CommitmentOf[b] <= lastEvictedSlot \/ CommitmentOf[b] > s }
    /\ lastEvictedSlot' = s
    /\ overtaken' = overtaken \cup (lastEvictedSlot + 1 .. s - 1) \cup (s + 1 .. lastEvictedSlot)
    /\ Becomes(w, SettingUp({ b \in buffer : CommitmentID(b) = <<s, TRUE>> }))
    /\ UNCHANGED <<evictionVars, kind, received, tasks, cache, requestVars, bufferOrder, commitVars, flagVars>>

(* setupBlock: the block follows the parents it finds, and only if it      *)
(* finds all of them can its count of unsolid parents reach zero.          *)
SetupBlock(w, b) ==
    LET found == { p \in Parents[b] : Exists(p) } IN
    /\ At(w, "setup") /\ b \in worker[w].blocks
    /\ setup' = setup \cup {b}
    /\ linked' = [linked EXCEPT ![b] = @ \cup found]
    /\ complete' = IF found = Parents[b] THEN complete \cup {b} ELSE complete
    /\ Becomes(w, SettingUp(worker[w].blocks \ {b}))
    /\ UNCHANGED <<evictionVars, kind, received, tasks, cache, requestVars, bufferVars, commitVars,
                   allowed, queued, lost, solid, invalid, booked>>

-----------------------------------------------------------------------------

(* The hooks on a parent's flags. *)
BecomeInvalid(b) ==
    /\ b \notin invalid /\ linked[b] \cap invalid # {}
    /\ invalid' = invalid \cup {b}
    /\ UNCHANGED <<evictionVars, poolVars, cache, requestVars, bufferVars, commitVars,
                   setup, linked, complete, allowed, queued, lost, solid, booked>>

(* Mutant: a rejected block is passed on as well. *)
BecomeSolidNoReturn(b) ==
    /\ b \in complete \ solid /\ Parents[b] \subseteq solid
    /\ solid' = solid \cup {b}
    /\ invalid' = IF kind[b] = "filtered" THEN invalid \cup {b} ELSE invalid
    /\ allowed' = allowed \cup {b}
    /\ UNCHANGED <<evictionVars, poolVars, cache, requestVars, bufferVars, commitVars,
                   setup, linked, complete, queued, lost, booked>>

(* The last parent became solid.  BlockSolid runs the post-solid filter,   *)
(* which looks the parents up again.                                       *)
BecomeSolid(b) ==
    /\ b \in complete \ solid /\ Parents[b] \subseteq solid
    /\ solid' = solid \cup {b}
    /\ IF kind[b] = "filtered" \/ \E p \in Parents[b] : ~ Exists(p)
       THEN invalid' = invalid \cup {b} /\ UNCHANGED allowed
       ELSE allowed' = allowed \cup {b} /\ UNCHANGED invalid
    /\ UNCHANGED <<evictionVars, poolVars, cache, requestVars, bufferVars, commitVars,
                   setup, linked, complete, queued, lost, booked>>

(* Mutant: a parent that is booked later is not noticed. *)
QueueBlockOnce(b) ==
    /\ b \in allowed
    /\ allowed' = allowed \ {b}
    /\ queued' = IF Parents[b] \subseteq booked THEN queued \cup {b} ELSE queued
    /\ UNCHANGED lost
    /\ UNCHANGED <<evictionVars, poolVars, cache, requestVars, bufferVars, commitVars,
                   setup, linked, complete, solid, invalid, booked>>

(* Booker.Queue and setupBlock; a block with a transaction gets there when *)
(* the mempool booked the transaction or found it invalid.                 *)
QueueBlock(b) ==
    /\ b \in allowed
    /\ allowed' = allowed \ {b}
    /\ IF \A p \in Parents[b] : Exists(p)
       THEN queued' = queued \cup {b} /\ UNCHANGED lost
       ELSE lost' = lost \cup {b} /\ UNCHANGED queued
    /\ UNCHANGED <<evictionVars, poolVars, cache, requestVars, bufferVars, commitVars,
                   setup, linked, complete, solid, invalid, booked>>

(* The transaction was orphaned before the block's commitment. *)
TransactionOrphaned(b) ==
    /\ b \in allowed \cap TransactionBlock
    /\ allowed' = allowed \ {b}
    /\ invalid' = invalid \cup {b}
    /\ UNCHANGED <<evictionVars, poolVars, cache, requestVars, bufferVars, commitVars,
                   setup, linked, complete, queued, lost, solid, booked>>

(* Mutant: the spenders are inherited before all parents are booked. *)
BookEarly(b) ==
    /\ b \in queued
    /\ queued' = queued \ {b}
    /\ booked' = booked \cup {b}
    /\ UNCHANGED <<evictionVars, poolVars, cache, requestVars, bufferVars, commitVars,
                   setup, linked, complete, allowed, lost, solid, invalid>>

(* The last parent was booked and the payload's dependencies are there.    *)
(* book looks the parents up a last time to inherit their spenders.        *)
Book(b) ==
    /\ b \in queued /\ Parents[b] \subseteq booked
    /\ queued' = queued \ {b}
    /\ IF kind[b] = "badReference" \/ \E p \in Parents[b] : ~ Exists(p)
       THEN invalid' = invalid \cup {b} /\ UNCHANGED booked
       ELSE booked' = booked \cup {b} /\ UNCHANGED invalid
    /\ UNCHANGED <<evictionVars, poolVars, cache, requestVars, bufferVars, commitVars,
                   setup, linked, complete, allowed, lost, solid>>

(* The block gadget accepts a booked block after its parents, possibly     *)
(* when its slot is already committed.                                     *)
AcceptBlock(b) ==
    /\ b \in booked \ accepted /\ Parents[b] \subseteq accepted
    /\ accepted' = accepted \cup {b}
    /\ QueueRootBlock(b)
    /\ UNCHANGED <<lastCommittedSlot, latestNonEmptySlot, rootBlocks,
                   poolVars, cache, requestVars, bufferVars, commitVars, flagVars>>

StoreRootBlock ==
    /\ AddRootBlock
    /\ UNCHANGED <<poolVars, cache, requestVars, bufferVars, commitVars, flagVars>>

(* Mutant: the requests of the next slot end too. *)
CommitSlotEvictsNext ==
    /\ AdvanceActiveWindow
    /\ tickers' = { b \in tickers : SlotOf[b] > lastCommittedSlot' + 1 }
    /\ tasks' = Append(tasks, [type |-> "release", slot |-> lastCommittedSlot'])
    /\ UNCHANGED <<kind, received, worker, cache, stopQueue, bufferVars, commitVars, flagVars>>

(* LatestCommitmentUpdated: the window and the requests follow at once,    *)
(* the buffer when a worker of the pool gets to it, the cache and the sync *)
(* manager in their own time.                                              *)
CommitSlot ==
    /\ AdvanceActiveWindow
    /\ tickers' = { b \in tickers : SlotOf[b] > lastCommittedSlot' }
    /\ tasks' = Append(tasks, [type |-> "release", slot |-> lastCommittedSlot'])
    /\ UNCHANGED <<kind, received, worker, cache, stopQueue, bufferVars, commitVars, flagVars>>

(* Mutant: the sync manager runs ahead of the commitments. *)
UpdateLatestCommitmentAhead ==
    /\ syncedSlot < MaxSlot
    /\ syncedSlot' = syncedSlot + 1
    /\ UNCHANGED <<evictionVars, poolVars, cache, requestVars, bufferVars, cacheEvicted, flagVars>>

UpdateLatestCommitment ==
    /\ syncedSlot < lastCommittedSlot
    /\ syncedSlot' = syncedSlot + 1
    /\ UNCHANGED <<evictionVars, poolVars, cache, requestVars, bufferVars, cacheEvicted, flagVars>>

EvictCache ==
    /\ cacheEvicted < lastCommittedSlot
    /\ cacheEvicted' = cacheEvicted + 1
    /\ cache' = [b \in Block |-> IF SlotOf[b] = cacheEvicted' THEN "none" ELSE cache[b]]
    /\ UNCHANGED <<evictionVars, poolVars, requestVars, bufferVars, syncedSlot, flagVars>>

StopTicker(b) ==
    /\ b \in stopQueue
    /\ stopQueue' = stopQueue \ {b}
    /\ tickers' = tickers \ {b}
    /\ UNCHANGED <<evictionVars, poolVars, cache, bufferVars, commitVars, flagVars>>

WorkerStep(w) ==
    \/ ShouldAppend(w)
    \/ CanAppendToParents(w)
    \/ StoreBlock(w)
    \/ StartRelease(w)
    \/ ReleaseUncommitted(w)
    \/ \E b \in Block : SetupBlock(w, b)

(* The steps of the pools and of the hooks. *)
Progress ==
    \/ \E w \in Worker : WorkerStep(w)
    \/ \E b \in Block :
         \/ BecomeInvalid(b)
         \/ BecomeSolid(b)
         \/ StopTicker(b)
    \/ \E b \in Block \ TransactionBlock : QueueBlock(b) \/ Book(b)
    \/ StoreRootBlock
    \/ UpdateLatestCommitment
    \/ EvictCache

Next ==
    \/ Progress
    \/ \E b \in Block : ReceiveBlock(b) \/ AcceptBlock(b)
    \/ \E b \in TransactionBlock : QueueBlock(b) \/ TransactionOrphaned(b) \/ Book(b)
    \/ CommitSlot

(* The workers of the pools run, and a hook runs in the goroutine that     *)
(* sets the flag; between two steps of the rest of the node these steps    *)
(* come to an end, so it is enough that some of them is taken.  Nothing    *)
(* makes a block arrive or be accepted, a slot be committed or a           *)
(* transaction be booked.                                                  *)
Fairness == WF_vars(Progress)

Spec == Init /\ [][Next]_vars /\ Fairness

-----------------------------------------------------------------------------

(* A worker still works on the block, or will. *)
InProgress(b) ==
    \E w \in Worker : At(w, "setup") /\ b \in worker[w].blocks

ReleaseIsPending(s) ==
    \/ s > lastCommittedSlot
    \/ [type |-> "release", slot |-> s] \in ToSet(tasks)
    \/ \E w \in Worker : At(w, "release") /\ worker[w].slot = s

IsForgotten(b) ==
    /\ cache[b] = "stored" /\ kind[b] # "foreign"
    /\ b \notin setup /\ ~ InProgress(b)
    /\ ~ (b \in buffer /\ ReleaseIsPending(CommitmentOf[b]))
    /\ CommitmentID(b) \in ToSet(bufferOrder)

(* A stored block whose commitment is on this chain is set up, is being    *)
(* worked on, or waits in the buffer for a release that is still to come,  *)
(* however Append, the sync manager and the releases interleave, unless    *)
(* the full buffer gave its commitment up or a later release overtook its  *)
(* own.                                                                    *)
NoBlockForgotten ==
    \A b \in Block : IsForgotten(b) => CommitmentOf[b] \in overtaken

(* The same without the exception: the workers release two commitments in  *)
(* order.                                                                  *)
NoBufferedBlockLost == \A b \in Block : ~ IsForgotten(b)

(* Solidity and booking are causal: whatever is evicted, received twice or *)
(* accepted meanwhile, a solid block has solid parents and a booked block  *)
(* booked ones.                                                            *)
CausalOrder ==
    /\ \A b \in solid \ {Genesis} : Parents[b] \subseteq solid
    /\ \A b \in booked \ {Genesis} : b \in solid /\ Parents[b] \subseteq booked

(* No block is both booked and invalid, except through a second copy of a  *)
(* block: the worker that appends it may mark the block invalid after the  *)
(* first copy was booked, and the children follow.                         *)
BookedIsValid ==
    \A b \in booked \cap invalid :
        received[b] > 1 \/ linked[b] \cap booked \cap invalid # {}

(* A block that others wait for is requested until it is stored, becomes   *)
(* invalid, is evicted, or has parents with which it can never be stored.  *)
MissingBlocksAreRequested ==
    \A b \in Block :
        cache[b] = "missing" /\ SlotOf[b] > lastCommittedSlot =>
            b \in tickers \/ b \in invalid \/ \E p \in Parents[b] : TooOld(p)

(* A stored block is not requested forever: its request has ended, or the  *)
(* call that ends it is still to come.                                     *)
RequestsEnd == \A b \in Block : cache[b] = "stored" => b \notin tickers \/ b \in stopQueue

(* A block that was set up with all of its parents is booked once they     *)
(* are, unless it turns out to be invalid or a parent was, when the booker *)
(* looked it up, neither in the cache any more nor a root block yet.       *)
BlocksAreBooked ==
    \A b \in Block \ TransactionBlock :
        (b \in complete /\ Parents[b] \subseteq booked) ~> b \in booked \cup invalid \cup lost
=============================================================================
