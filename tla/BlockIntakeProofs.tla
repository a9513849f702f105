-------------------------- MODULE BlockIntakeProofs --------------------------
(***************************************************************************)
(* Three properties of the intake of blocks, for every set of blocks and   *)
(* of workers: blocks become solid and booked in causal order, the active  *)
(* window of the eviction state always has a root block, and no stored     *)
(* block is requested forever.                                             *)
(***************************************************************************)
EXTENDS BlockIntake, SequenceTheorems, TLAPS

(* Every block on its way through the booker is solid. *)
BookerHasSolidBlocks == allowed \cup queued \subseteq solid

CausalInv == CausalOrder /\ BookerHasSolidBlocks

LEMMA CausalInit == Init => CausalInv
  BY BlockAssumption DEF Init, CausalInv, CausalOrder, BookerHasSolidBlocks

LEMMA CausalStep == CausalInv /\ [Next]_vars => CausalInv'
<1> SUFFICES ASSUME CausalInv, [Next]_vars PROVE CausalInv'
  OBVIOUS
<1> USE DEF CausalInv, CausalOrder, BookerHasSolidBlocks
<1>1. ASSUME UNCHANGED <<allowed, queued, solid, booked>> PROVE CausalInv'
  BY <1>1
<1>2. ASSUME NEW b \in Block, BecomeSolid(b) PROVE CausalInv'
  BY <1>2 DEF BecomeSolid
<1>3. ASSUME NEW b \in Block, QueueBlock(b) PROVE CausalInv'
  BY <1>3 DEF QueueBlock
<1>4. ASSUME NEW b \in Block, TransactionOrphaned(b) PROVE CausalInv'
  BY <1>4 DEF TransactionOrphaned
<1>5. ASSUME NEW b \in Block, Book(b) PROVE CausalInv'
  BY <1>5 DEF Book
<1>6. ASSUME NEW w \in Worker, WorkerStep(w) PROVE CausalInv'
  <2>1. UNCHANGED <<allowed, queued, solid, booked>>
    BY <1>6 DEF WorkerStep, ShouldAppend, CanAppendToParents, StoreBlock, StartRelease,
                ReleaseUncommitted, SetupBlock, flagVars
  <2> QED
    BY <2>1, <1>1
<1>7. ASSUME NEW b \in Block, BecomeInvalid(b) \/ StopTicker(b) \/ ReceiveBlock(b) \/ AcceptBlock(b)
      PROVE  CausalInv'
  <2>1. UNCHANGED <<allowed, queued, solid, booked>>
    BY <1>7 DEF BecomeInvalid, StopTicker, ReceiveBlock, AcceptBlock, flagVars
  <2> QED
    BY <2>1, <1>1
<1>8. ASSUME StoreRootBlock \/ UpdateLatestCommitment \/ EvictCache \/ CommitSlot \/ UNCHANGED vars
      PROVE  CausalInv'
  <2>1. UNCHANGED <<allowed, queued, solid, booked>>
    BY <1>8 DEF StoreRootBlock, UpdateLatestCommitment, EvictCache, CommitSlot, flagVars, vars
  <2> QED
    BY <2>1, <1>1
<1> HIDE DEF CausalInv, CausalOrder, BookerHasSolidBlocks
<1> QED
  BY <1>2, <1>3, <1>4, <1>5, <1>6, <1>7, <1>8, IntakeAssumption, Zenon
     DEF Next, Progress, IntakeAssumption

(* Whatever is evicted, received twice or accepted meanwhile, the hooks of *)
(* BlockDAG.setupBlock and Booker.setupBlock make blocks solid and booked  *)
(* after their parents.                                                    *)
THEOREM IntakeIsCausal == Spec => []CausalOrder
<1>1. CausalInv => CausalOrder
  BY DEF CausalInv
<1> QED
  BY <1>1, CausalInit, CausalStep, PTL DEF Spec

-----------------------------------------------------------------------------
(* The root block of the last slot with blocks is stored or about to be,   *)
(* and so is every accepted block of a slot that is still to be committed. *)
RootCandidates == rootBlocks \cup ToSet(rootQueue)

WindowInv ==
    /\ lastCommittedSlot \in Nat /\ latestNonEmptySlot \in 0 .. lastCommittedSlot
    /\ accepted \subseteq BlockID /\ rootQueue \in Seq(Block)
    /\ \E b \in RootCandidates : SlotOf[b] = latestNonEmptySlot
    /\ \A b \in accepted : SlotOf[b] > lastCommittedSlot => b \in RootCandidates

LEMMA SetOfSequence ==
    ASSUME NEW S, NEW q \in Seq(S)
    PROVE  \A x : x \in ToSet(q) <=> \E i \in 1 .. Len(q) : x = q[i]
  BY DEF ToSet

LEMMA AppendedSet ==
    ASSUME NEW S, NEW q \in Seq(S), NEW e \in S
    PROVE  Append(q, e) \in Seq(S) /\ ToSet(Append(q, e)) = ToSet(q) \cup {e}
<1> DEFINE r == Append(q, e)
<1>1. r \in Seq(S) /\ Len(q) \in Nat /\ Len(r) = Len(q) + 1
  OBVIOUS
<1>2. (\A i \in 1 .. Len(q) : r[i] = q[i]) /\ r[Len(q) + 1] = e
  OBVIOUS
<1> HIDE DEF r
<1>3. \A x : x \in ToSet(r) <=> x \in ToSet(q) \/ x = e
  BY <1>1, <1>2, SetOfSequence
<1> QED
  BY <1>1, <1>3 DEF r

LEMMA TailSet ==
    ASSUME NEW S, NEW q \in Seq(S), q # <<>>
    PROVE  Head(q) \in S /\ Tail(q) \in Seq(S) /\ ToSet(q) \subseteq ToSet(Tail(q)) \cup {Head(q)}
<1> DEFINE t == Tail(q)
<1>1. Head(q) \in S /\ Head(q) = q[1] /\ t \in Seq(S) /\ Len(q) \in Nat \ {0}
  OBVIOUS
<1>2. Len(t) = Len(q) - 1 /\ \A i \in 1 .. Len(q) - 1 : t[i] = q[i + 1]
  OBVIOUS
<1> HIDE DEF t
<1>3. \A i \in 2 .. Len(q) : i - 1 \in 1 .. Len(t) /\ q[i] = t[i - 1]
  BY <1>1, <1>2
<1>4. \A i \in 2 .. Len(q) : q[i] \in ToSet(t)
  BY <1>1, <1>3, SetOfSequence
<1>5. \A i \in 1 .. Len(q) : i = 1 \/ i \in 2 .. Len(q)
  BY <1>1
<1> QED
  BY <1>1, <1>4, <1>5, SetOfSequence DEF t

(* The window starts at or before the last slot with blocks. *)
LEMMA WindowReachesBack ==
    ASSUME WindowInv
    PROVE  /\ WindowStart(lastCommittedSlot) \in Nat
           /\ WindowStart(lastCommittedSlot) <= latestNonEmptySlot
  BY SlotAssumption DEF WindowInv, WindowStart

LEMMA WindowInit == Init => WindowInv
  BY SlotAssumption, BlockAssumption
     DEF Init, EvictionInit, WindowInv, RootCandidates, ToSet, BlockID

LEMMA WindowStep == WindowInv /\ [Next]_vars => WindowInv'
<1> SUFFICES ASSUME WindowInv, [Next]_vars PROVE WindowInv'
  OBVIOUS
<1>1. ASSUME UNCHANGED evictionVars PROVE WindowInv'
  BY <1>1 DEF evictionVars, WindowInv, RootCandidates
<1>2. ASSUME NEW b \in Block, AcceptBlock(b) PROVE WindowInv'
  <2>1. rootQueue' \in Seq(Block) /\ RootCandidates' = RootCandidates \cup {b}
    BY <1>2, AppendedSet DEF AcceptBlock, QueueRootBlock, WindowInv, RootCandidates
  <2> QED
    BY <1>2, <2>1 DEF AcceptBlock, WindowInv, BlockID
<1>3. ASSUME StoreRootBlock PROVE WindowInv'
  <2> DEFINE head == Head(rootQueue)
  <2>1. /\ head \in Block /\ rootQueue' \in Seq(Block)
        /\ ToSet(rootQueue) \subseteq ToSet(rootQueue') \cup {head}
    BY <1>3, TailSet DEF StoreRootBlock, AddRootBlock, WindowInv
  <2>2. \A b \in RootCandidates : b = head \/ b \in RootCandidates'
    BY <1>3, <2>1 DEF StoreRootBlock, AddRootBlock, RootCandidates
  <2>3. ~ BelowRange(head) => head \in RootCandidates'
    BY <1>3 DEF StoreRootBlock, AddRootBlock, RootCandidates
  <2>4. SlotOf[head] >= latestNonEmptySlot => ~ BelowRange(head)
    BY <2>1, WindowReachesBack, SlotAssumption DEF BelowRange, WindowInv, BlockID
  <2>5. \A b \in RootCandidates : SlotOf[b] >= latestNonEmptySlot => b \in RootCandidates'
    BY <2>2, <2>3, <2>4
  <2>6. UNCHANGED <<lastCommittedSlot, latestNonEmptySlot, accepted>>
    BY <1>3 DEF StoreRootBlock, AddRootBlock
  <2>7. \E b \in RootCandidates' : SlotOf[b] = latestNonEmptySlot
    BY <2>5 DEF WindowInv
  <2>8. \A b \in accepted : SlotOf[b] > lastCommittedSlot => b \in RootCandidates'
    BY <2>5, SlotAssumption DEF WindowInv
  <2> QED
    BY <2>1, <2>6, <2>7, <2>8 DEF WindowInv
<1>4. ASSUME CommitSlot PROVE WindowInv'
  <2>1. /\ lastCommittedSlot' = lastCommittedSlot + 1
        /\ latestNonEmptySlot' = IF \E b \in accepted : SlotOf[b] = lastCommittedSlot'
                                 THEN lastCommittedSlot' ELSE latestNonEmptySlot
        /\ UNCHANGED <<rootQueue, accepted, RootCandidates>>
    BY <1>4 DEF CommitSlot, AdvanceActiveWindow, RootCandidates
  <2>2. \E b \in RootCandidates : SlotOf[b] = latestNonEmptySlot'
    BY <2>1 DEF WindowInv
  <2> QED
    BY <2>1, <2>2, SlotAssumption DEF WindowInv
<1>5. ASSUME NEW w \in Worker, WorkerStep(w) PROVE WindowInv'
  <2>1. UNCHANGED evictionVars
    BY <1>5 DEF WorkerStep, ShouldAppend, CanAppendToParents, StoreBlock, StartRelease,
                ReleaseUncommitted, SetupBlock
  <2> QED
    BY <2>1, <1>1
<1>6. ASSUME NEW b \in Block,
             BecomeInvalid(b) \/ BecomeSolid(b) \/ StopTicker(b) \/ ReceiveBlock(b)
               \/ QueueBlock(b) \/ TransactionOrphaned(b) \/ Book(b)
      PROVE  WindowInv'
  <2>1. UNCHANGED evictionVars
    BY <1>6 DEF BecomeInvalid, BecomeSolid, StopTicker, ReceiveBlock, QueueBlock,
                TransactionOrphaned, Book
  <2> QED
    BY <2>1, <1>1
<1>7. ASSUME UpdateLatestCommitment \/ EvictCache \/ UNCHANGED vars PROVE WindowInv'
  <2>1. UNCHANGED evictionVars
    BY <1>7 DEF UpdateLatestCommitment, EvictCache, vars
  <2> QED
    BY <2>1, <1>1
<1> QED
  BY <1>2, <1>3, <1>4, <1>5, <1>6, <1>7, IntakeAssumption, Zenon
     DEF Next, Progress, IntakeAssumption

(* State.activeIndexRange never leaves the node without a root block to    *)
(* attach to, however long the run of empty slots and however late the     *)
(* pool stores the accepted blocks.                                        *)
THEOREM WindowHasRoot == Spec => []ActiveWindowHasRoot
<1>1. ASSUME WindowInv PROVE ActiveWindowHasRoot
  <2> PICK b \in RootCandidates : SlotOf[b] = latestNonEmptySlot
    BY <1>1 DEF WindowInv
  <2>1. InRange(b)
    BY <1>1, WindowReachesBack DEF WindowInv, InRange
  <2> QED
    BY <2>1 DEF ActiveWindowHasRoot, RootCandidates
<1> QED
  BY <1>1, WindowInit, WindowStep, PTL DEF Spec

-----------------------------------------------------------------------------
(* Only blocks are appended, and the cache is evicted after the window     *)
(* moved.                                                                  *)
AppendsBlocks ==
    /\ tasks \in Seq(Task)
    /\ worker = [w \in Worker |-> worker[w]]
    /\ \A w \in Worker : worker[w].step \in {"parents", "store"} => worker[w].block \in Block

CacheFollowsWindow ==
    /\ lastCommittedSlot \in Nat /\ cacheEvicted \in 0 .. lastCommittedSlot
    /\ cache \in [Block -> {"none", "missing", "stored"}]

(* A request is for a missing block of a slot still to be committed, or    *)
(* for a block that was just stored and whose request is about to end.     *)
Requestable(b) ==
    /\ b \in Block /\ SlotOf[b] > lastCommittedSlot
    /\ cache[b] = "missing" \/ (cache[b] = "stored" /\ b \in stopQueue)

RequestInv ==
    /\ AppendsBlocks
    /\ CacheFollowsWindow
    /\ \A b \in tickers : Requestable(b)

LEMMA RequestInit == Init => RequestInv
  BY DEF Init, EvictionInit, RequestInv, AppendsBlocks, CacheFollowsWindow, Idle

LEMMA IdleIsNoBlock ==
    /\ Idle.step \notin {"parents", "store"}
    /\ \A bs : SettingUp(bs).step \notin {"parents", "store"}
  BY DEF Idle, SettingUp

LEMMA WorkersAppendBlocks ==
    ASSUME AppendsBlocks, NEW w \in Worker, WorkerStep(w)
    PROVE  AppendsBlocks'
<1>1. ASSUME NEW st, Becomes(w, st), st.step \in {"parents", "store"} => st.block \in Block,
             tasks' \in Seq(Task)
      PROVE  AppendsBlocks'
  BY <1>1, Zenon DEF AppendsBlocks, Becomes
<1>2. ASSUME tasks # <<>> PROVE Tail(tasks) \in Seq(Task) /\ Head(tasks) \in Task
  BY <1>2 DEF AppendsBlocks
<1>3. CASE ShouldAppend(w)
  <2>1. Head(tasks) \in Task /\ tasks' \in Seq(Task) /\ Head(tasks).type = "append"
    BY <1>2, <1>3 DEF ShouldAppend, StartTask
  <2>2. Head(tasks).block \in Block
    BY <2>1 DEF Task
  <2>3. CASE UNCHANGED worker
    BY <2>1, <2>3 DEF AppendsBlocks
  <2>4. CASE Becomes(w, [step |-> "parents", block |-> Head(tasks).block,
                         known |-> cache[Head(tasks).block] = "missing"])
    BY <2>1, <2>2, <2>4, <1>1
  <2> QED
    BY <1>3, <2>3, <2>4, Zenon DEF ShouldAppend
<1>4. CASE CanAppendToParents(w)
  <2>1. tasks' \in Seq(Task) /\ worker[w].block \in Block
    BY <1>4 DEF CanAppendToParents, AppendsBlocks, At
  <2>2. Becomes(w, Idle) \/ Becomes(w, [step |-> "store", block |-> worker[w].block])
    BY <1>4, Zenon DEF CanAppendToParents
  <2> QED
    BY <2>1, <2>2, <1>1, IdleIsNoBlock
<1>5. CASE StoreBlock(w)
  <2>1. tasks' \in Seq(Task)
    BY <1>5 DEF StoreBlock, AppendsBlocks
  <2>2. Becomes(w, Idle) \/ Becomes(w, SettingUp({worker[w].block}))
    BY <1>5, Zenon DEF StoreBlock
  <2> QED
    BY <2>1, <2>2, <1>1, IdleIsNoBlock
<1>6. CASE StartRelease(w)
  <2>1. tasks' \in Seq(Task)
    BY <1>2, <1>6 DEF StartRelease, StartTask
  <2>2. Becomes(w, [step |-> "release", slot |-> Head(tasks).slot])
    BY <1>6 DEF StartRelease
  <2> QED
    BY <2>1, <2>2, <1>1
<1>7. CASE ReleaseUncommitted(w)
  BY <1>7, <1>1, IdleIsNoBlock DEF ReleaseUncommitted, AppendsBlocks
<1>8. CASE \E b \in Block : SetupBlock(w, b)
  BY <1>8, <1>1, IdleIsNoBlock DEF SetupBlock, AppendsBlocks
<1> QED
  BY <1>3, <1>4, <1>5, <1>6, <1>7, <1>8 DEF WorkerStep

(* StoreBlock is where requests start and stored blocks end theirs. *)
LEMMA StoreKeepsRequests ==
    ASSUME RequestInv, NEW w \in Worker, StoreBlock(w)
    PROVE  CacheFollowsWindow' /\ \A b \in tickers' : Requestable(b)'
<1> DEFINE a == worker[w].block
           U == UnknownParents(a)
<1>1. a \in Block
  BY DEF RequestInv, AppendsBlocks, StoreBlock, At
<1>2. UNCHANGED <<lastCommittedSlot, cacheEvicted>>
  BY DEF StoreBlock, evictionVars, commitVars
<1> DEFINE TooLate == stopQueue' = stopQueue \cup {a} /\ UNCHANGED <<cache, tickers>>
           Stored == /\ cache' = [p \in Block |-> IF p = a THEN "stored"
                                                  ELSE IF p \in U THEN "missing" ELSE cache[p]]
                     /\ tickers' = tickers \cup U
                     /\ stopQueue' = IF StopsRequest(a) THEN stopQueue \cup {a} ELSE stopQueue
<1>s. TooLate \/ Stored
  BY Zenon DEF StoreBlock
<1>3. CASE TooLate
  <2>1. UNCHANGED <<cache, tickers>> /\ stopQueue \subseteq stopQueue'
    BY <1>3
  <2> QED
    BY <1>2, <2>1 DEF RequestInv, CacheFollowsWindow, Requestable
<1>4. CASE Stored
  <2>1. /\ cache' = [p \in Block |-> IF p = a THEN "stored"
                                     ELSE IF p \in U THEN "missing" ELSE cache[p]]
        /\ tickers' = tickers \cup U
        /\ stopQueue' = IF StopsRequest(a) THEN stopQueue \cup {a} ELSE stopQueue
    BY <1>4, Zenon
  <2>2. a \notin U /\ U \subseteq Block /\ \A p \in U : SlotOf[p] > lastCommittedSlot
    BY <1>1, IntakeAssumption DEF UnknownParents, IntakeAssumption, BlockID
  <2>3. cache' \in [Block -> {"none", "missing", "stored"}]
    BY <2>1 DEF RequestInv, CacheFollowsWindow
  <2>4. ASSUME NEW b \in tickers PROVE Requestable(b)'
    <3>1. Requestable(b)
      BY DEF RequestInv
    <3> HIDE DEF U, a
    <3>2. CASE b = a
      BY <1>2, <2>1, <3>1, <3>2 DEF Requestable, StopsRequest
    <3>3. CASE b # a
      BY <1>2, <2>1, <3>1, <3>3 DEF Requestable
    <3> QED
      BY <3>2, <3>3
  <2>5. ASSUME NEW b \in U PROVE Requestable(b)'
    <3> HIDE DEF U, a, Stored, TooLate
    <3>1. b \in Block /\ b # a /\ SlotOf[b] > lastCommittedSlot
      BY <2>2, Zenon
    <3>2. cache'[b] = "missing"
      BY <2>1, <3>1
    <3>3. SlotOf[b] > lastCommittedSlot'
      BY <1>2, <3>1, Zenon
    <3> QED
      BY <3>1, <3>2, <3>3, Zenon DEF Requestable
  <2> QED
    BY <1>2, <2>1, <2>3, <2>4, <2>5 DEF RequestInv, CacheFollowsWindow
<1> QED
  BY <1>s, <1>3, <1>4, Zenon

LEMMA RequestStep == RequestInv /\ [Next]_vars => RequestInv'
<1> SUFFICES ASSUME RequestInv, [Next]_vars PROVE RequestInv'
  OBVIOUS
<1>1. ASSUME UNCHANGED <<lastCommittedSlot, cacheEvicted, cache, tickers>>,
             stopQueue \subseteq stopQueue', AppendsBlocks'
      PROVE  RequestInv'
  BY <1>1 DEF RequestInv, CacheFollowsWindow, Requestable
<1>2. ASSUME UNCHANGED <<evictionVars, poolVars, cacheEvicted, cache, requestVars>> PROVE RequestInv'
  BY <1>1, <1>2 DEF evictionVars, poolVars, requestVars, RequestInv, AppendsBlocks
<1>3. ASSUME NEW w \in Worker, WorkerStep(w) PROVE RequestInv'
  <2>1. AppendsBlocks'
    BY <1>3, WorkersAppendBlocks DEF RequestInv
  <2>2. CASE StoreBlock(w)
    BY <2>1, <2>2, StoreKeepsRequests DEF RequestInv
  <2>3. ASSUME ~ StoreBlock(w)
        PROVE  /\ UNCHANGED <<lastCommittedSlot, cacheEvicted, cache, tickers>>
               /\ stopQueue \subseteq stopQueue'
    BY <1>3, <2>3 DEF WorkerStep, ShouldAppend, CanAppendToParents, StartRelease,
                ReleaseUncommitted, SetupBlock, evictionVars, commitVars, requestVars
  <2> QED
    BY <1>1, <2>1, <2>2, <2>3
<1>4. ASSUME NEW b \in Block, ReceiveBlock(b) PROVE RequestInv'
  <2>1. [type |-> "append", block |-> b] \in Task
    BY DEF Task
  <2>2. AppendsBlocks'
    BY <1>4, <2>1 DEF ReceiveBlock, RequestInv, AppendsBlocks
  <2> QED
    BY <1>1, <1>4, <2>2 DEF ReceiveBlock, evictionVars, commitVars, requestVars
<1>5. ASSUME NEW b \in Block, StopTicker(b) PROVE RequestInv'
  <2>1. AppendsBlocks' /\ CacheFollowsWindow'
    BY <1>5 DEF StopTicker, RequestInv, AppendsBlocks, CacheFollowsWindow, evictionVars,
                poolVars, commitVars
  <2>2. \A c \in tickers' : Requestable(c)'
    BY <1>5 DEF StopTicker, RequestInv, Requestable, evictionVars
  <2> QED
    BY <2>1, <2>2 DEF RequestInv
<1>6. ASSUME CommitSlot PROVE RequestInv'
  <2>1. lastCommittedSlot' = lastCommittedSlot + 1 /\ lastCommittedSlot' \in Slot
    BY <1>6, SlotAssumption, SMTT(20) DEF CommitSlot, AdvanceActiveWindow, RequestInv, CacheFollowsWindow, Slot
  <2>2. [type |-> "release", slot |-> lastCommittedSlot'] \in Task
    BY <2>1 DEF Task
  <2>3. AppendsBlocks'
    BY <1>6, <2>2 DEF CommitSlot, RequestInv, AppendsBlocks
  <2>4. CacheFollowsWindow'
    BY <1>6, <2>1 DEF CommitSlot, RequestInv, CacheFollowsWindow, commitVars
  <2>5. \A b \in tickers' : Requestable(b)'
    BY <1>6 DEF CommitSlot, RequestInv, Requestable
  <2> QED
    BY <2>3, <2>4, <2>5 DEF RequestInv
<1>7. ASSUME EvictCache PROVE RequestInv'
  <2>1. /\ UNCHANGED <<lastCommittedSlot, tickers, stopQueue, tasks, worker>>
        /\ cacheEvicted < lastCommittedSlot /\ cacheEvicted' = cacheEvicted + 1
        /\ cache' = [b \in Block |-> IF SlotOf[b] = cacheEvicted' THEN "none" ELSE cache[b]]
    BY <1>7 DEF EvictCache, evictionVars, poolVars, requestVars
  <2>2. AppendsBlocks' /\ CacheFollowsWindow'
    BY <2>1 DEF RequestInv, AppendsBlocks, CacheFollowsWindow
  <2>3. \A b \in tickers : SlotOf[b] # cacheEvicted'
    BY <2>1 DEF RequestInv, Requestable, CacheFollowsWindow
  <2>4. \A b \in tickers' : Requestable(b)'
    BY <2>1, <2>3 DEF RequestInv, Requestable
  <2> QED
    BY <2>2, <2>4 DEF RequestInv
<1>8. ASSUME NEW b \in Block,
             BecomeInvalid(b) \/ BecomeSolid(b) \/ QueueBlock(b) \/ TransactionOrphaned(b) \/ Book(b)
      PROVE  RequestInv'
  <2>1. UNCHANGED <<evictionVars, poolVars, cacheEvicted, cache, requestVars>>
    BY <1>8 DEF BecomeInvalid, BecomeSolid, QueueBlock, TransactionOrphaned, Book, commitVars
  <2> QED
    BY <2>1, <1>2
<1>9. ASSUME NEW b \in Block, AcceptBlock(b) PROVE RequestInv'
  BY <1>1, <1>9 DEF AcceptBlock, RequestInv, AppendsBlocks, poolVars, commitVars, requestVars
<1>10. ASSUME StoreRootBlock PROVE RequestInv'
  BY <1>1, <1>10 DEF StoreRootBlock, AddRootBlock, RequestInv, AppendsBlocks, poolVars, commitVars,
                     requestVars
<1>11. ASSUME UpdateLatestCommitment \/ UNCHANGED vars PROVE RequestInv'
  BY <1>2, <1>11 DEF UpdateLatestCommitment, vars, commitVars
<1> QED
  BY <1>3, <1>4, <1>5, <1>6, <1>7, <1>8, <1>9, <1>10, <1>11, IntakeAssumption, ZenonT(60)
     DEF Next, Progress, IntakeAssumption

(* The request for a missing block ends once BlockDAG.append stored it:    *)
(* neither a second copy of the block, nor a commitment, nor the eviction  *)
(* of the cache leaves a ticker behind that nothing will stop.             *)
THEOREM StoredBlocksEndTheirRequests == Spec => []RequestsEnd
<1>1. RequestInv => RequestsEnd
  BY DEF RequestInv, Requestable, RequestsEnd
<1> QED
  BY <1>1, RequestInit, RequestStep, PTL DEF Spec
=============================================================================
