----------------------- MODULE TransactionOnceProofs ------------------------
(***************************************************************************)
(* What TLAPS proves about what happens once: a hold settles once and a    *)
(* settled row is final, one move per idempotency key, one reversal per    *)
(* transaction; and no move is lost: its row, a quarantined message or     *)
(* recoverable work stays behind.  Every theorem names the failures it     *)
(* excludes.                                                               *)
(***************************************************************************)
EXTENDS TransactionWriteProofs
-----------------------------------------------------------------------------
(***************************************************************************)
(* Settlements.                                                            *)
(***************************************************************************)
\* Settlements are not interrupted before they are visible to later requests.
SettlementsFinish ==
    /\ PromptConsumers
    /\ \A stage \in Settled : Uninterrupted(stage) /\ <<"written", stage>> \notin Faults

Settlements(t) == moved[t]["APPROVED"] + moved[t]["CANCELED"]

\* The lock admits one settler at a time, and none once the balances moved.
LocksSound ==
    /\ lock \in [Transactions -> BOOLEAN]
    /\ \A s \in Settlers :
         handler[s].at \in Holding =>
           /\ lock[handler[s].tx]
           /\ \A s2 \in Settlers : handler[s2].at \in Holding /\ handler[s2].tx = handler[s].tx => s2 = s
           /\ handler[s].at \in {"claimed", "seeded"} => Settlements(handler[s].tx) = 0
    /\ \A t \in Transactions : Settlements(t) <= 1 /\ (Settlements(t) > 0 => t \in Holds /\ Begun(t))

\* What a settlement leaves: the table or a message has it, and no later
\* request finds the transaction PENDING and its lock free.
SettlementsVisible ==
    \A t \in Transactions : Settlements(t) > 0 =>
      /\ \/ row[t] \in Settled
         \/ \E stage \in Settled : Persisting(t, stage)
         \/ \E s \in Settlers : handler[s].tx = t /\ handler[s].at \in {"moved", "built", "updated"}
      /\ cache[t] # "PENDING" \/ \E s \in Settlers : handler[s].tx = t /\ handler[s].at \in Applied
      /\ \/ lock[t]
         \/ /\ row[t] \in Settled
            /\ \A s \in Settlers : handler[s].at = "read" /\ handler[s].tx = t => handler[s].seen # "PENDING"

SettleInv == WorkInv /\ LocksSound /\ SettlementsVisible

LEMMA SettlementsTyped ==
  ASSUME WriteInv, NEW t \in Transactions
  PROVE  /\ Settlements(t) \in Nat /\ moved[t]["APPROVED"] \in Nat /\ moved[t]["CANCELED"] \in Nat
         /\ moved[t]["PENDING"] \in Nat /\ moved[t][StageOf(t)] \in Nat
  BY StagesAreTyped DEF WriteInv, WriteTypes, Settlements, Stages, Settled

\* Only a settler that runs the script settles.
LEMMA SettlementSteps ==
  ASSUME SettleInv, SeedsAreUsed, SettlementsFinish, [Next]_vars, NEW t \in Transactions,
         Settlements(t)' # Settlements(t)
  PROVE  /\ \E s \in Settlers : ProcessBalanceOperations(s) /\ handler[s].at = "seeded" /\ handler[s].tx = t
         /\ Settlements(t) = 0 /\ Settlements(t)' = 1 /\ t \in Holds /\ Begun(t)
<1>0. moved \in [Transactions -> [Stages -> Nat]] /\ {"APPROVED", "CANCELED"} \subseteq Stages
  BY DEF SettleInv, WorkInv, WriteInv, WriteTypes, Stages, Settled
<1>1. moved' # moved
  BY DEF Settlements
<1>2. PICK h \in Handlers : RejectSeeded(h) \/ ProcessBalanceOperations(h)
  BY <1>1, MovedSteps, Zenon
<1>3. handler[h].at = "seeded"
  BY <1>2 DEF RejectSeeded, ProcessBalanceOperations, At
<1> DEFINE u == handler[h].tx
           stage == handler[h].stage
<1>4. u \in Transactions /\ stage \in Stages /\ (h \in Settlers <=> stage \in Settled)
  BY <1>3, RequestKinds DEF SettleInv, WorkInv
<1>5. PICK n \in {0, 1} : /\ moved' = [moved EXCEPT ![u][stage] = @ + n]
                          /\ RejectSeeded(h) /\ stage \in Settled => n = 0
  <2>1. CASE RejectSeeded(h)
    BY <2>1, SettlementsFinish, Zenon DEF RejectSeeded, SettlementsFinish, Uninterrupted
  <2>2. CASE ProcessBalanceOperations(h) /\ ~RejectSeeded(h)
    BY <2>2 DEF ProcessBalanceOperations
  <2> QED BY <1>2, <2>1, <2>2
<1> HIDE DEF u, stage
<1>6. moved'[t]["APPROVED"] # moved[t]["APPROVED"] \/ moved'[t]["CANCELED"] # moved[t]["CANCELED"]
  BY DEF Settlements
<1>7. u = t /\ n = 1 /\ stage \in {"APPROVED", "CANCELED"}
  BY <1>0, <1>4, <1>5, <1>6
<1>8. h \in Settlers /\ ProcessBalanceOperations(h)
  BY <1>2, <1>4, <1>5, <1>7 DEF Settled
<1>9. Settlements(t) = 0
  BY <1>3, <1>7, <1>8 DEF SettleInv, WorkInv, LocksSound, Holding, u
<1>10. Settlements(t)' = Settlements(t) + 1
  BY <1>0, <1>4, <1>5, <1>7 DEF Settlements
<1>11. t \in Holds /\ Begun(t)
  BY <1>3, <1>7, <1>8 DEF SettleInv, WorkInv, WriteInv, RequestsSound, u
<1> QED BY <1>3, <1>7, <1>8, <1>9, <1>10, <1>11 DEF u

LEMMA SettlementGoesOn ==
  ASSUME WriteInv, SeedsAreUsed, SettlementsFinish, [Next]_vars, NEW s \in Settlers,
         handler[s].at \in Applied, handler'[s] # handler[s]
  PROVE  /\ handler'[s].tx = handler[s].tx
         /\ handler'[s].at \in Applied \/ FinishRequest(s) \/ (FinishWrite(s) /\ Writing(s))
         /\ handler[s].at \in {"moved", "built", "updated"} =>
              \/ handler'[s].at \in {"moved", "built", "updated"}
              \/ /\ handler'[s].at \in Applied
                 /\ \A t, stage : t = handler[s].tx /\ stage = handler[s].stage => Persisting(t, stage)'
<1>1. s \in Handlers /\ handler[s].stage \in Settled
  BY RequestKinds DEF Handlers, Applied
<1>2. Uninterrupted(handler[s].stage) /\ <<"written", handler[s].stage>> \notin Faults
  BY <1>1, SettlementsFinish DEF SettlementsFinish
<1> QED BY <1>1, <1>2, RequestGoesOn

\* A settler that has read the transaction goes on with the lock.
LEMMA ReadSteps ==
  ASSUME WriteInv, SeedsAreUsed, [Next]_vars, NEW s \in Settlers, handler[s].at = "read",
         handler'[s] # handler[s]
  PROVE  AcquireLock(s)
<1>0. s \in Handlers /\ handler \in [Handlers -> Requests]
  BY DEF Handlers, WriteInv, WriteTypes
<1>1. ASSUME NEW g \in Handlers, StartRequest(g) PROVE AcquireLock(s)
  <2>1. \E r : handler' = [handler EXCEPT ![g] = r]
    BY <1>1 DEF StartRequest, GetTransaction, AcquireLock, RevertTransaction,
                CreateOrCheckTransactionIdempotency, Goto
  <2>2. g = s
    BY <1>0, <2>1
  <2> QED BY <1>1, <2>2 DEF StartRequest, GetTransaction, RevertTransaction,
                            CreateOrCheckTransactionIdempotency, At
<1>2. ASSUME NEW g \in Handlers, RequestStep(g) PROVE FALSE
  <2>1. handler[g].at # "read" /\ \E r : handler' = [handler EXCEPT ![g] = r]
    BY <1>2, Zenon DEF RequestStep, RejectClaimed, Seed, RejectSeeded, ProcessBalanceOperations, Build,
                WriteTransactionAsync, WriteTransactionSync, FinishRequest, UpdateTransactionStatus,
                Ready, Goto, At
  <2> QED BY <1>0, <2>1
<1>3. ASSUME NEW g \in Handlers, FailBuild(g) \/ Crash(g) \/ WriteTransactionFallback(g) PROVE FALSE
  <2>1. \E r : handler' = [handler EXCEPT ![g] = r]
    BY <1>3 DEF FailBuild, Crash, WriteTransactionFallback, Goto
  <2>2. g = s
    BY <1>0, <2>1
  <2>3. <<"read", handler[s].stage>> \notin Faults
    BY RequestsAssumption DEF Places
  <2> QED BY <1>3, <2>2, <2>3 DEF FailBuild, Crash, Fault, WriteTransactionFallback, Ready, At
<1>4. ASSUME NEW w \in Writers, WriterStep(w) \/ HandleFailure(w) PROVE FALSE
  <2>1. FinishWrite(w) \/ HandleFailure(w)
    BY <1>4 DEF WriterStep, CreateOrUpdateTransaction, CreateOperations
  <2>2. /\ handler' = handler \/ \E r : handler' = [handler EXCEPT ![w] = r]
        /\ job[w].at # None
    BY <2>1, Zenon DEF FinishWrite, HandleFailure, Goto, None
  <2>3. w = s
    BY <1>0, <2>2, Zenon
  <2> QED BY <1>0, <2>2, <2>3 DEF WriteInv, MessagesSound, Writing
<1>5. \/ \E g \in Handlers : \/ StartRequest(g) \/ RequestStep(g)
                             \/ FailBuild(g) \/ Crash(g) \/ WriteTransactionFallback(g)
      \/ \E w \in Writers : WriterStep(w) \/ HandleFailure(w)
  BY Zenon DEF Next, vars, redis, BulkStep, CleanupStep, Deliver, CollectBatch, AtomicBulkInsert,
         PerformBulkStatusUpdate, ProcessMetadataAndEvents, ProcessIndividually, FailBulk, Redeliver,
         CompareBackup, RemoveBackup, DeleteWriteBehind, KeyExpires, LockExpires, ReadMessage,
         ProcessMessage, AbandonReplay, QuarantinePoisonRecord
<1> QED BY <1>1, <1>2, <1>3, <1>4, <1>5, Zenon

\* A settler comes to hold a free lock of a transaction it has seen PENDING.
LEMMA NewHolders ==
  ASSUME WriteInv, SeedsAreUsed, [Next]_vars, NEW s \in Settlers,
         handler'[s].at \in Holding, handler[s].at \notin Holding
  PROVE  /\ handler[s].at = "read" /\ handler'[s].at = "claimed" /\ handler'[s].tx = handler[s].tx
         /\ handler[s].tx \in Transactions
         /\ handler[s].seen = "PENDING" /\ ~lock[handler[s].tx]
         /\ lock' = [lock EXCEPT ![handler[s].tx] = TRUE]
         /\ moved' = moved
<1>0. /\ s \in Handlers /\ handler'[s] # handler[s] /\ handler \in [Handlers -> Requests]
      /\ s \notin Transactions
  BY RequestsAssumption DEF Handlers, WriteInv, WriteTypes
<1>1. ~GetTransaction(s)
  BY ReadsAreBegun DEF Holding, Applied
<1>2. Continues(s, handler'[s].at)
  BY <1>0, <1>1, RequestChanges
<1>3. handler[s].at = "read" /\ handler'[s].at = "claimed"
  BY <1>2 DEF Continues, Follows, Holding, Applied
<1>4. AcquireLock(s)
  BY <1>0, <1>3, ReadSteps
<1>5. handler'[s].tx = handler[s].tx /\ handler[s].tx \in Transactions
  BY <1>0, <1>1, <1>3, RequestChanges, RequestKinds
<1>6. ~Goto(s, "done")
  BY <1>0, <1>3 DEF Goto, Requests
<1> QED BY <1>3, <1>4, <1>5, <1>6 DEF AcquireLock

\* How a lock is given back.
LEMMA LockChanges ==
  ASSUME SettleInv, SeedsAreUsed, SettlementsFinish, [Next]_vars
  PROVE  /\ lock' \in [Transactions -> BOOLEAN]
         /\ \A t \in Transactions : lock[t] /\ ~lock'[t] =>
              \/ \E s \in Settlers : /\ handler[s].at \in {"claimed", "seeded"} /\ handler[s].tx = t
                                    /\ handler' = [handler EXCEPT ![s].at = "done"]
              \/ LockExpires(t)
<1>0. lock \in [Transactions -> BOOLEAN] /\ WriteInv
  BY DEF SettleInv, WorkInv, LocksSound
<1>1. CASE lock' = lock
  BY <1>0, <1>1
<1>2. CASE \E s \in Settlers : AcquireLock(s)
  <2>1. PICK s \in Settlers : AcquireLock(s)
    BY <1>2
  <2>2. lock' = lock \/ lock' = [lock EXCEPT ![handler[s].tx] = TRUE]
    BY <2>1 DEF AcquireLock
  <2> QED BY <1>0, <2>2, Zenon
<1>3. CASE \E h \in Handlers : RejectClaimed(h) \/ RejectSeeded(h)
  <2>1. PICK h \in Handlers : RejectClaimed(h) \/ RejectSeeded(h)
    BY <1>3
  <2>2. /\ handler[h].at \in {"claimed", "seeded"} /\ handler' = [handler EXCEPT ![h].at = "done"]
        /\ GiveBack(h)
    BY <2>1 DEF RejectClaimed, RejectSeeded, At, Goto
  <2>3. lock' = lock \/ (h \in Settlers /\ lock' = [lock EXCEPT ![handler[h].tx] = FALSE])
    BY <2>2 DEF GiveBack
  <2> QED BY <1>0, <2>2, <2>3, Zenon
<1>4. CASE \E h \in Handlers : FailBuild(h)
  <2>1. PICK h \in Handlers : FailBuild(h)
    BY <1>4
  <2>2. handler[h].at = "moved" /\ <<"build", handler[h].stage>> \in Faults /\ (h \notin Settlers => lock' = lock)
    BY <2>1 DEF FailBuild, Fault, At
  <2>3. handler[h].stage \notin Settled
    BY <2>2, SettlementsFinish, Zenon DEF SettlementsFinish, Uninterrupted
  <2>4. h \notin Settlers
    BY <1>0, <2>2, <2>3, RequestKinds
  <2> QED BY <1>0, <2>2, <2>4
<1>5. CASE \E t \in Transactions : LockExpires(t)
  <2>1. PICK t \in Transactions : LockExpires(t)
    BY <1>5
  <2>2. lock' = [lock EXCEPT ![t] = FALSE]
    BY <2>1 DEF LockExpires
  <2> QED BY <1>0, <2>1, <2>2
<1> QED BY <1>1, <1>2, <1>3, <1>4, <1>5, LockSteps, Zenon

\* A request stays with its transaction.
LEMMA HoldersStay ==
  ASSUME WriteInv, SeedsAreUsed, [Next]_vars, NEW s \in Settlers, handler[s].at \in Holding
  PROVE  /\ handler'[s].tx = handler[s].tx /\ handler[s].tx \in Transactions
         /\ handler'[s].at \in {"claimed", "seeded"} => handler[s].at \in {"claimed", "seeded"}
<1>0. s \in Handlers /\ s \notin Transactions
  BY RequestsAssumption DEF Handlers
<1>1. handler[s].at \notin {"idle", "done", "read"}
  BY DEF Holding, Applied
<1>2. handler[s].tx \in Transactions
  BY <1>0, <1>1, RequestKinds
<1>3. CASE handler'[s] = handler[s]
  BY <1>2, <1>3
<1>4. CASE handler'[s] # handler[s]
  <2>1. ~GetTransaction(s)
    BY <1>1 DEF GetTransaction, At
  <2>2. handler'[s].tx = handler[s].tx /\ Continues(s, handler'[s].at)
    BY <1>0, <1>4, <2>1, RequestChanges
  <2> QED BY <1>1, <1>2, <2>2 DEF Continues, Follows
<1> QED BY <1>3, <1>4

LEMMA LocksStep ==
  ASSUME SettleInv, SeedsAreUsed, SettlementsFinish, [Next]_vars
  PROVE  LocksSound'
<1>0. WriteInv /\ handler \in [Handlers -> Requests] /\ Settlers \subseteq Handlers
  BY DEF SettleInv, WorkInv, WriteInv, WriteTypes, Handlers
<1>1. ASSUME NEW s \in Settlers, handler'[s].at \in Holding, NEW t, t = handler'[s].tx
      PROVE  /\ t \in Transactions /\ lock'[t]
             /\ \A s2 \in Settlers : handler'[s2].at \in Holding /\ handler'[s2].tx = t => s2 = s
             /\ handler'[s].at \in {"claimed", "seeded"} => Settlements(t)' = 0
  <2>1. CASE handler[s].at \in Holding
    <3>1. /\ handler[s].tx = t /\ t \in Transactions
          /\ handler'[s].at \in {"claimed", "seeded"} => handler[s].at \in {"claimed", "seeded"}
      BY <1>0, <1>1, <2>1, HoldersStay
    <3>2. /\ lock[t] /\ \A s2 \in Settlers : handler[s2].at \in Holding /\ handler[s2].tx = t => s2 = s
          /\ handler[s].at \in {"claimed", "seeded"} => Settlements(t) = 0
      BY <2>1, <3>1 DEF SettleInv, WorkInv, LocksSound
    <3>3. lock'[t]
      <4>1. SUFFICES ASSUME ~lock'[t] PROVE FALSE
        OBVIOUS
      <4>2. ~LockExpires(t)
        BY <2>1, <3>1 DEF LockExpires, Settling, Holding, Applied
      <4>3. PICK r \in Settlers : /\ handler[r].at \in {"claimed", "seeded"} /\ handler[r].tx = t
                                  /\ handler' = [handler EXCEPT ![r].at = "done"]
        BY <3>1, <3>2, <4>1, <4>2, LockChanges, Zenon
      <4>4. r = s
        BY <3>2, <4>3 DEF Holding
      <4>5. handler'[s].at = "done"
        BY <1>0, <4>3, <4>4 DEF Requests
      <4> QED BY <1>1, <4>5 DEF Holding, Applied
    <3>4. ASSUME NEW s2 \in Settlers, handler'[s2].at \in Holding, handler'[s2].tx = t
          PROVE  s2 = s
      <4>1. CASE handler[s2].at \in Holding
        BY <1>0, <3>2, <3>4, <4>1, HoldersStay
      <4>2. CASE handler[s2].at \notin Holding
        BY <1>0, <3>2, <3>4, <4>2, NewHolders
      <4> QED BY <4>1, <4>2
    <3>5. ASSUME handler'[s].at \in {"claimed", "seeded"}
          PROVE  Settlements(t)' = 0
      <4>1. SUFFICES ASSUME Settlements(t)' # Settlements(t) PROVE FALSE
        BY <3>1, <3>2, <3>5
      <4>2. PICK r \in Settlers : ProcessBalanceOperations(r) /\ handler[r].at = "seeded" /\ handler[r].tx = t
        BY <3>1, <4>1, SettlementSteps
      <4>3. r = s
        BY <3>2, <4>2 DEF Holding
      <4>4. handler'[s].at = "moved"
        BY <1>0, <4>2, <4>3 DEF ProcessBalanceOperations, Goto, Requests
      <4> QED BY <3>5, <4>4
    <3> QED BY <3>1, <3>3, <3>4, <3>5
  <2>2. CASE handler[s].at \notin Holding
    <3>1. /\ handler[s].at = "read" /\ handler'[s].at = "claimed" /\ handler[s].tx = t /\ t \in Transactions
          /\ handler[s].seen = "PENDING" /\ ~lock[t] /\ lock' = [lock EXCEPT ![t] = TRUE]
          /\ moved' = moved
      BY <1>0, <1>1, <2>2, NewHolders
    <3>2. lock'[t]
      BY <3>1 DEF SettleInv, WorkInv, LocksSound
    <3>3. ASSUME NEW s2 \in Settlers, handler'[s2].at \in Holding, handler'[s2].tx = t
          PROVE  s2 = s
      <4>1. handler[s2].at \notin Holding
        <5>1. SUFFICES ASSUME handler[s2].at \in Holding PROVE FALSE
          OBVIOUS
        <5>2. handler[s2].tx = t
          BY <1>0, <3>3, <5>1, HoldersStay
        <5> QED BY <3>1, <5>1, <5>2 DEF SettleInv, WorkInv, LocksSound
      <4>2. handler'[s2] # handler[s2] /\ handler'[s] # handler[s]
        BY <1>1, <2>2, <3>3, <4>1
      <4>3. PICK g \in Handlers : Begins(g) \/ (g \in Settlers /\ GetTransaction(g)) \/ Continuing(g)
        BY <1>0, <4>2, HandlerSteps
      <4>4. \E r : handler' = [handler EXCEPT ![g] = r]
        BY <4>3 DEF Begins, GetTransaction, Continuing, Continues, Goto
      <4> QED BY <1>0, <4>2, <4>4
    <3>4. Settlements(t) = 0
      BY <1>0, <3>1, SettlementsTyped DEF SettleInv, SettlementsVisible
    <3>5. Settlements(t)' = 0
      BY <3>1, <3>4 DEF Settlements
    <3> QED BY <3>1, <3>2, <3>3, <3>5
  <2> QED BY <2>1, <2>2
<1>2. ASSUME NEW t \in Transactions
      PROVE  Settlements(t)' <= 1 /\ (Settlements(t)' > 0 => t \in Holds /\ Begun(t)')
  <2>1. Settlements(t) <= 1 /\ (Settlements(t) > 0 => t \in Holds /\ Begun(t))
    BY DEF SettleInv, WorkInv, LocksSound
  <2>2. Begun(t) => Begun(t)'
    BY <1>0, BegunStays
  <2>3. CASE Settlements(t)' = Settlements(t)
    BY <2>1, <2>2, <2>3
  <2>4. CASE Settlements(t)' # Settlements(t)
    BY <2>2, <2>4, SettlementSteps
  <2> QED BY <2>3, <2>4
<1>3. lock' \in [Transactions -> BOOLEAN]
  BY LockChanges
<1> QED BY <1>1, <1>2, <1>3 DEF LocksSound

LEMMA VisibleStep ==
  ASSUME SettleInv, SeedsAreUsed, SettlementsFinish, [Next]_vars
  PROVE  SettlementsVisible'
<1>0. /\ WriteInv /\ LocksSound /\ handler \in [Handlers -> Requests] /\ Settlers \subseteq Handlers
      /\ lock \in [Transactions -> BOOLEAN]
  BY Zenon DEF SettleInv, WorkInv, WriteInv, WriteTypes, Handlers, LocksSound
<1> SUFFICES ASSUME NEW t \in Transactions, Settlements(t)' > 0
             PROVE  /\ \/ row'[t] \in Settled
                       \/ \E stage \in Settled : Persisting(t, stage)'
                       \/ \E s \in Settlers : handler'[s].tx = t /\ handler'[s].at \in {"moved", "built", "updated"}
                    /\ cache'[t] # "PENDING" \/ \E s \in Settlers : handler'[s].tx = t /\ handler'[s].at \in Applied
                    /\ \/ lock'[t]
                       \/ /\ row'[t] \in Settled
                          /\ \A s \in Settlers : handler'[s].at = "read" /\ handler'[s].tx = t => handler'[s].seen # "PENDING"
  BY DEF SettlementsVisible
<1>1. CASE Settlements(t)' # Settlements(t)
  <2>1. PICK s \in Settlers : ProcessBalanceOperations(s) /\ handler[s].at = "seeded" /\ handler[s].tx = t
    BY <1>1, SettlementSteps
  <2>2. handler'[s].at = "moved" /\ handler'[s].tx = t /\ lock' = lock
    BY <1>0, <2>1 DEF ProcessBalanceOperations, Goto, Requests
  <2>3. lock[t]
    BY <1>0, <2>1 DEF LocksSound, Holding
  <2> QED BY <2>2, <2>3 DEF Applied
<1>2. CASE Settlements(t)' = Settlements(t)
  <2>0. /\ Settlements(t) > 0 /\ t \in Holds /\ Begun(t) /\ Settlements(t) # 0
    BY <1>0, <1>2, SettlementsTyped DEF LocksSound
  <2>1. /\ \/ row[t] \in Settled
           \/ \E stage \in Settled : Persisting(t, stage)
           \/ \E s \in Settlers : handler[s].tx = t /\ handler[s].at \in {"moved", "built", "updated"}
        /\ cache[t] # "PENDING" \/ \E s \in Settlers : handler[s].tx = t /\ handler[s].at \in Applied
        /\ \/ lock[t]
           \/ /\ row[t] \in Settled
              /\ \A s \in Settlers : handler[s].at = "read" /\ handler[s].tx = t => handler[s].seen # "PENDING"
    BY <2>0 DEF SettleInv, SettlementsVisible
  <2>2. row[t] \in Settled => row'[t] \in Settled
    BY <1>0, RowsStay
  <2>3. \/ row'[t] \in Settled
        \/ \E stage \in Settled : Persisting(t, stage)'
        \/ \E s \in Settlers : handler'[s].tx = t /\ handler'[s].at \in {"moved", "built", "updated"}
    <3>1. CASE row[t] \in Settled
      BY <2>2, <3>1, Zenon
    <3>2. ASSUME NEW stage \in Settled, Persisting(t, stage)
          PROVE  row'[t] \in Settled \/ Persisting(t, stage)'
      <4>1. <<"fallback", stage>> \notin Faults /\ <<"deadletter", stage>> \notin Faults
        BY SettlementsFinish, Zenon DEF SettlementsFinish, Uninterrupted
      <4>2. \/ Persisting(t, stage)'
            \/ \E w \in Writers : \E m \in job[w].batch : m.tx = t /\ m.stage = stage /\ Completed(job[w], m)
        BY <1>0, <3>2, <4>1, PersistingStays
      <4> QED BY <2>2, <4>2 DEF SettleInv, WorkInv, FinishedIsInTable, Finished
    <3>3. ASSUME NEW s \in Settlers, handler[s].tx = t, handler[s].at \in {"moved", "built", "updated"}
          PROVE  \/ handler'[s].tx = t /\ handler'[s].at \in {"moved", "built", "updated"}
                 \/ \E stage \in Settled : Persisting(t, stage)'
      <4>1. CASE handler'[s] = handler[s]
        BY <3>3, <4>1, Zenon
      <4>2. CASE handler'[s] # handler[s]
        <5>1. handler[s].stage \in Settled /\ handler[s].at \in Applied
          BY <1>0, <3>3, RequestKinds DEF Applied
        <5> QED BY <1>0, <3>3, <4>2, <5>1, SettlementGoesOn, Zenon
      <4> QED BY <4>1, <4>2
    <3> QED BY <2>1, <3>1, <3>2, <3>3
  <2>4. cache'[t] # "PENDING" \/ \E s \in Settlers : handler'[s].tx = t /\ handler'[s].at \in Applied
    <3>1. ASSUME NEW s \in Settlers, handler[s].tx = t, handler[s].at \in Applied
          PROVE  cache'[t] # "PENDING" \/ (handler'[s].tx = t /\ handler'[s].at \in Applied)
      <4>1. CASE handler'[s] = handler[s]
        BY <3>1, <4>1
      <4>2. CASE FinishRequest(s)
        <5>1. cache' = [cache EXCEPT ![t] = handler[s].stage]
          BY <3>1, <4>2 DEF FinishRequest
        <5>2. handler[s].stage \in Settled
          BY <1>0, <3>1, RequestKinds DEF Applied
        <5> QED BY <1>0, <5>1, <5>2, Zenon DEF WriteInv, WriteTypes, Settled
      <4>3. CASE FinishWrite(s)
        <5>1. job[s].message.tx = t /\ cache' = [cache EXCEPT ![job[s].message.tx] = None]
          BY <1>0, <3>1, <4>3, Zenon DEF FinishWrite, WriteInv, MessagesSound, Handlers, None
        <5> QED BY <1>0, <5>1, Zenon DEF WriteInv, WriteTypes, None
      <4> QED BY <1>0, <3>1, <4>1, <4>2, <4>3, SettlementGoesOn
    <3>2. ASSUME cache[t] # "PENDING"
          PROVE  cache'[t] # "PENDING"
      <4>1. ~Build(t)
        BY <2>0 DEF Build, At, Begun
      <4>2. ASSUME NEW s \in Settlers, handler[s].at = "written" PROVE handler[s].stage # "PENDING"
        BY <1>0, <4>2, RequestKinds DEF Settled
      <4>3. CASE cache' = cache
        BY <3>2, <4>3
      <4>4. CASE cache' # cache
        BY <1>0, <3>2, <4>1, <4>2, <4>4, CacheChanges DEF None
      <4> QED BY <4>3, <4>4
    <3> QED BY <2>1, <3>1, <3>2, Zenon
  <2>5. \/ lock'[t]
        \/ /\ row'[t] \in Settled
           /\ \A s \in Settlers : handler'[s].at = "read" /\ handler'[s].tx = t => handler'[s].seen # "PENDING"
    <3>1. CASE lock[t]
      <4>1. SUFFICES ASSUME ~lock'[t]
                     PROVE  /\ row'[t] \in Settled
                            /\ \A s \in Settlers : handler'[s].at = "read" => handler'[s].tx # t
        OBVIOUS
      <4>2. \A s \in Settlers : handler[s].tx = t => handler[s].at \notin {"claimed", "seeded"}
        BY <1>0, <2>0 DEF LocksSound, Holding
      <4>3. LockExpires(t)
        BY <3>1, <4>1, <4>2, LockChanges
      <4>4. handler' = handler /\ row' = row /\ ~Settling(t) /\ ~InFlight(t)
        BY <4>3, SettlementsFinish DEF LockExpires, postgres, SettlementsFinish
      <4>5. ~\E stage \in Settled : Persisting(t, stage)
        BY <4>4 DEF Persisting, InFlight
      <4>6. \A s \in Settlers : handler[s].tx = t => handler[s].at \in {"idle", "done"}
        BY <4>4 DEF Settling
      <4> QED BY <2>1, <4>4, <4>5, <4>6, Zenon
    <3>2. CASE ~lock[t]
      <4>1. /\ row[t] \in Settled
            /\ \A s \in Settlers : handler[s].at = "read" /\ handler[s].tx = t => handler[s].seen # "PENDING"
        BY <2>1, <3>2, Zenon
      <4>2. cache[t] # "PENDING"
        BY <1>0, <2>1, <3>2, Zenon DEF LocksSound, Holding
      <4>3. ASSUME NEW s \in Settlers, handler'[s].at = "read", handler'[s].tx = t, handler'[s] # handler[s]
            PROVE  handler'[s].seen # "PENDING"
        <5>1. s \in Handlers /\ s \notin Transactions
          BY RequestsAssumption DEF Handlers
        <5>2. ~Continues(s, handler'[s].at)
          BY <4>3, Zenon DEF Continues, Follows
        <5>3. GetTransaction(s)
          BY <1>0, <4>3, <5>1, <5>2, RequestChanges, Zenon
        <5>4. handler'[s].seen = IF cache[t] # None THEN cache[t] ELSE row[t]
          BY <1>0, <4>3, <5>3, ReadsAreBegun, Zenon
        <5> QED BY <4>1, <4>2, <5>4 DEF Settled
      <4> QED BY <2>2, <4>1, <4>3, Zenon
    <3> QED BY <3>1, <3>2, Zenon
  <2> QED BY <2>3, <2>4, <2>5, Zenon
<1> QED BY <1>1, <1>2, Zenon

LEMMA SettleInit == Init => SettleInv
<1> SUFFICES ASSUME Init PROVE SettleInv
  OBVIOUS
<1>1. \A t \in Transactions : Settlements(t) = 0
  BY DEF Init, Settlements, Stages, Settled
<1>2. \A s \in Settlers : handler[s].at \notin Holding
  BY DEF Init, Idle, Holding, Applied, Handlers
<1>3. lock \in [Transactions -> BOOLEAN]
  BY DEF Init
<1>4. LocksSound
  BY <1>1, <1>2, <1>3 DEF LocksSound
<1> QED BY <1>1, <1>4, WorkInit DEF SettleInv, SettlementsVisible

LEMMA SettleStep ==
  ASSUME SettleInv, SeedsAreUsed, SettlementsFinish, [Next]_vars
  PROVE  SettleInv'
<1>1. WorkInv'
  BY WorkStep DEF SettleInv
<1> QED BY <1>1, LocksStep, VisibleStep DEF SettleInv

LEMMA SettleInvariant ==
  ASSUME SeedsAreUsed, SettlementsFinish
  PROVE  Spec => []SettleInv
<1>1. SettleInv /\ [Next]_vars => SettleInv'
  BY SettleStep
<1> QED BY <1>1, SettleInit, PTL DEF Spec

\* The row of a settled hold is the one settlement that moved balances.
LEMMA OneSettlement ==
  ASSUME SettleInv, NEW t \in Holds, NEW a \in Settled, NEW b \in Settled, moved[t][a] > 0, moved[t][b] > 0
  PROVE  a = b
<1>1. t \in Transactions /\ WriteInv /\ Settlements(t) <= 1
  BY DEF SettleInv, WorkInv, LocksSound, Transactions
<1> QED BY <1>1, SettlementsTyped DEF Settlements, Settled
-----------------------------------------------------------------------------

\* However many commit and cancel requests race, on whatever view of the
\* transaction, the lock and the status check let one of them move its
\* balances, once, and only after the hold moved them.  What is assumed: the
\* lock outlives the messages of its transaction, and a settlement whose
\* balances moved is neither interrupted before it is published nor dropped
\* (a settlement that is gives the lock back, or lets it expire, while the
\* transaction still reads PENDING).
THEOREM HoldsSettleOnce == SeedsAreUsed /\ SettlementsFinish => (Spec => []SettledOnce)
<1> SUFFICES ASSUME SeedsAreUsed, SettlementsFinish PROVE Spec => []SettledOnce
  OBVIOUS
<1>1. SettleInv => SettledOnce
  <2> SUFFICES ASSUME SettleInv, NEW t \in Transactions
               PROVE  Settlements(t) <= 1 /\ (Settlements(t) = 1 => moved[t]["PENDING"] = 1)
    BY DEF SettledOnce, Settlements
  <2>1. /\ WriteInv /\ Settlements(t) <= 1 /\ (Settlements(t) > 0 => t \in Holds /\ Begun(t))
        /\ moved[t][StageOf(t)] <= 1
    BY SettlementsTyped DEF SettleInv, WorkInv, MovesOnce, LocksSound
  <2>2. t \in Holds => StageOf(t) = "PENDING"
    BY StagesAreTyped
  <2> QED BY <2>1, <2>2, SettlementsTyped DEF Begun
<1> QED BY <1>1, SettleInvariant, PTL

LEMMA SettledRowStays ==
  ASSUME SettleInv, [Next]_vars, NEW t \in Transactions, row[t] \in Settled
  PROVE  row'[t] = row[t]
<1> SUFFICES ASSUME row'[t] # row[t] PROVE FALSE
  OBVIOUS
<1>1. WriteInv /\ row[t] # None
  BY DEF SettleInv, WorkInv, Settled, None
<1>2. t \in Holds /\ row'[t] \in Settled /\ moved[t][row'[t]] > 0
  BY <1>1, RowChanges
<1>3. moved[t][row[t]] > 0
  BY <1>1, <1>2 DEF WriteInv, TablesSound
<1> QED BY <1>2, <1>3, OneSettlement

\* A row that says APPROVED or CANCELED never changes again, whatever messages
\* of whatever stage are late, repeated or replayed.
THEOREM SettledRowsAreFinal == SeedsAreUsed /\ SettlementsFinish => (Spec => SettledIsFinal)
<1> SUFFICES ASSUME SeedsAreUsed, SettlementsFinish PROVE Spec => SettledIsFinal
  OBVIOUS
<1>1. SettleInv /\ [Next]_vars => [\A t \in Transactions : row[t] \in Settled => row'[t] = row[t]]_vars
  BY SettledRowStays
<1> QED BY <1>1, SettleInvariant, PTL DEF Spec, SettledIsFinal
-----------------------------------------------------------------------------
(***************************************************************************)
(* Idempotency keys and reversals.                                         *)
(***************************************************************************)
\* A reversal whose balances moved is published, and before its key expires.
ReversalsFinish == Reverts # {} => PromptConsumers /\ Uninterrupted("REVERT")

\* Reversals of one transaction have the same content, and no other request
\* uses the key of a reversal.
ReversalKeys ==
    \A r \in Reverts, t \in Transactions :
      /\ t \in Reverts /\ Parent[t] = Parent[r] => Key[t] = Key[r]
      /\ t \notin Reverts => Key[t] # Key[r]

Claims(t) == handler[t].at \in Holding \/ moved[t][StageOf(t)] > 0

\* The parent lookup stops every other reversal from now on.
Past(r) ==
    /\ r \in Reverts /\ r \in parented /\ row[r] # None
    /\ \A r2 \in Reverts : Parent[r2] = Parent[r] => handler[r2].at # "checked"

\* A request that claimed its key keeps the others out, until the parent
\* lookup does.
KeysSound ==
    /\ idem \in [Keys -> {Free, Claimed} \cup Transactions]
    /\ \A t \in Transactions : Claims(t) => idem[Key[t]] # Free \/ Past(t)
    /\ \A t, u \in Transactions : Key[t] = Key[u] /\ Claims(t) /\ Claims(u) => t = u \/ Past(t) \/ Past(u)
    /\ \A k \in Keys : idem[k] \in Transactions => Key[idem[k]] = k /\ moved[idem[k]][StageOf(idem[k])] > 0
    /\ \A r1, r2 \in Reverts : Parent[r1] = Parent[r2] /\ Claims(r1) /\ Claims(r2) => r1 = r2

\* The row of a reversal has its parent: the message of the request inserts
\* it, never one of the cron.
ReversalsSound ==
    \A r \in Reverts :
      /\ row[r] # None => r \in parented
      /\ row[r] = None =>
           /\ \A m \in queue : m.tx = r => m.parent
           /\ \A w \in Writers : \A m \in job[w].batch : m.tx = r => m.parent
      /\ replay[r] # NoEntry => row[r] # None
      /\ moved[r]["REVERT"] > 0 => handler[r].at \in {"moved", "built"} \/ Persisting(r, "REVERT") \/ row[r] # None

KeyInv == WorkInv /\ KeysSound /\ ReversalsSound

\* How a create request starts.
LEMMA StartSteps ==
  ASSUME WriteInv, SeedsAreUsed, [Next]_vars, NEW t \in Transactions, handler[t].at \in {"idle", "checked"},
         handler'[t] # handler[t]
  PROVE  (t \in Reverts /\ RevertTransaction(t)) \/ CreateOrCheckTransactionIdempotency(t)
<1>0. t \in Handlers /\ t \notin Settlers /\ handler \in [Handlers -> Requests]
  BY RequestsAssumption, Zenon DEF Handlers, WriteInv, WriteTypes
<1>1. ASSUME NEW g \in Handlers, StartRequest(g)
      PROVE  (t \in Reverts /\ RevertTransaction(t)) \/ CreateOrCheckTransactionIdempotency(t)
  <2>1. \E r : handler' = [handler EXCEPT ![g] = r]
    BY <1>1 DEF StartRequest, GetTransaction, AcquireLock, RevertTransaction,
                CreateOrCheckTransactionIdempotency, Goto
  <2>2. g = t
    BY <1>0, <2>1
  <2> QED BY <1>0, <1>1, <2>2 DEF StartRequest
<1>2. ASSUME NEW g \in Handlers, RequestStep(g) PROVE FALSE
  <2>1. handler[g].at \notin {"idle", "checked"} /\ \E r : handler' = [handler EXCEPT ![g] = r]
    BY <1>2, Zenon DEF RequestStep, RejectClaimed, Seed, RejectSeeded, ProcessBalanceOperations, Build,
                WriteTransactionAsync, WriteTransactionSync, FinishRequest, UpdateTransactionStatus,
                Ready, Goto, At
  <2> QED BY <1>0, <2>1
<1>3. ASSUME NEW g \in Handlers, FailBuild(g) \/ Crash(g) \/ WriteTransactionFallback(g) PROVE FALSE
  <2>1. \E r : handler' = [handler EXCEPT ![g] = r]
    BY <1>3 DEF FailBuild, Crash, WriteTransactionFallback, Goto
  <2>2. g = t
    BY <1>0, <2>1, Zenon
  <2>3. <<handler[t].at, handler[t].stage>> \notin Faults
    BY RequestsAssumption, Zenon DEF Places
  <2> QED BY <1>3, <2>2, <2>3 DEF FailBuild, Crash, Fault, WriteTransactionFallback, Ready, At
<1>4. ASSUME NEW w \in Writers, WriterStep(w) \/ HandleFailure(w) PROVE FALSE
  <2>1. FinishWrite(w) \/ HandleFailure(w)
    BY <1>4 DEF WriterStep, CreateOrUpdateTransaction, CreateOperations
  <2>2. /\ handler' = handler \/ \E r : handler' = [handler EXCEPT ![w] = r]
        /\ job[w].at # None
    BY <2>1, Zenon DEF FinishWrite, HandleFailure, Goto, None
  <2>3. w = t
    BY <1>0, <2>2, Zenon
  <2> QED BY <1>0, <2>2, <2>3 DEF WriteInv, MessagesSound, Writing
<1>5. \/ \E g \in Handlers : \/ StartRequest(g) \/ RequestStep(g)
                             \/ FailBuild(g) \/ Crash(g) \/ WriteTransactionFallback(g)
      \/ \E w \in Writers : WriterStep(w) \/ HandleFailure(w)
  BY ZenonT(30) DEF Next, vars, redis, BulkStep, CleanupStep, Deliver, CollectBatch, AtomicBulkInsert,
         PerformBulkStatusUpdate, ProcessMetadataAndEvents, ProcessIndividually, FailBulk, Redeliver,
         CompareBackup, RemoveBackup, DeleteWriteBehind, KeyExpires, LockExpires, ReadMessage,
         ProcessMessage, AbandonReplay, QuarantinePoisonRecord
<1> QED BY <1>1, <1>2, <1>3, <1>4, <1>5, Zenon

LEMMA ParentedGrows ==
  ASSUME [Next]_vars
  PROVE  /\ parented \subseteq parented'
         /\ parented' # parented => \/ \E c \in Consumers : AtomicBulkInsert(c)
                                    \/ \E w \in Writers : CreateOrUpdateTransaction(w)
<1>1. parented' # parented => \/ \E c \in Consumers : AtomicBulkInsert(c)
                              \/ \E w \in Writers : CreateOrUpdateTransaction(w)
  BY ZenonT(30) DEF Next, vars, redis, postgres, StartRequest, RequestStep, WriterStep, BulkStep, CleanupStep,
         GetTransaction, AcquireLock, RevertTransaction, CreateOrCheckTransactionIdempotency,
         RejectClaimed, Seed, RejectSeeded, ProcessBalanceOperations, Build, WriteTransactionAsync,
         WriteTransactionSync, FinishRequest, UpdateTransactionStatus, FailBuild, Crash,
         WriteTransactionFallback, CreateOperations, FinishWrite, HandleFailure, Deliver,
         CollectBatch, PerformBulkStatusUpdate, ProcessMetadataAndEvents, ProcessIndividually,
         FailBulk, Redeliver, CompareBackup, RemoveBackup, DeleteWriteBehind, KeyExpires,
         LockExpires, ReadMessage, ProcessMessage, AbandonReplay, QuarantinePoisonRecord
<1>2. ASSUME NEW c \in Consumers, AtomicBulkInsert(c) PROVE parented \subseteq parented'
  BY <1>2 DEF AtomicBulkInsert
<1>3. ASSUME NEW w \in Writers, CreateOrUpdateTransaction(w) PROVE parented \subseteq parented'
  BY <1>3, Zenon DEF CreateOrUpdateTransaction
<1> QED BY <1>1, <1>2, <1>3, Zenon

\* Where messages come from.
LEMMA MessageOrigins ==
  ASSUME WriteInv, SeedsAreUsed, [Next]_vars, NEW m,
         m \in queue' \/ \E w \in Writers : m \in job'[w].batch
  PROVE  \/ \E n \in queue : n.tx = m.tx /\ n.stage = m.stage /\ n.parent = m.parent
         \/ \E w \in Writers : \E n \in job[w].batch : n.tx = m.tx /\ n.stage = m.stage /\ n.parent = m.parent
         \/ \E h \in Handlers : Sending(h) /\ m = Outgoing(h)
         \/ \E t \in Transactions : ProcessMessage(t) /\ m.tx = t /\ replay[t] # NoEntry
<1> job \in [Writers -> Jobs] /\ Consumers \subseteq Writers
  BY Zenon DEF WriteInv, WriteTypes, Writers
<1>1. CASE m \in queue'
  <2>1. CASE queue' = queue
    BY <1>1, <2>1, Zenon
  <2>2. CASE \E h \in Handlers : WriteTransactionAsync(h)
    BY <1>1, <2>2, Publishes, Zenon
  <2>3. CASE \E w \in Writers : HandleFailure(w)
    <3>1. PICK w \in Writers : HandleFailure(w)
      BY <2>3
    <3> DEFINE b == job[w].message
               n == [b EXCEPT !.tries = @ + 1]
    <3>2. job[w].at \in {"row", "operations"} /\ (queue' = queue \/ queue' = queue \cup {n})
      BY <3>1 DEF HandleFailure
    <3>3. b \in job[w].batch /\ b \in Messages
      BY <3>2, MessageIsSound, BatchIsSound
    <3> HIDE DEF b
    <3>4. n.tx = b.tx /\ n.stage = b.stage /\ n.parent = b.parent
      BY <3>3 DEF Messages
    <3> HIDE DEF n
    <3> QED BY <1>1, <3>2, <3>3, <3>4, Zenon
  <2>4. CASE \E c \in Consumers : Deliver(c) \/ CollectBatch(c) \/ Redeliver(c)
    <3>1. PICK c \in Consumers : Deliver(c) \/ CollectBatch(c) \/ Redeliver(c)
      BY <2>4, Zenon
    <3>2. queue' \subseteq queue \cup job[c].batch
      BY <3>1, Zenon DEF Deliver, CollectBatch, Redeliver
    <3> QED BY <1>1, <3>2, Zenon
  <2>5. CASE \E t \in Transactions : ProcessMessage(t)
    <3>1. PICK t \in Transactions : ProcessMessage(t)
      BY <2>5
    <3>2. PICK n : n = Message(t, replay[t].stage, ReplayedOperations(t), FALSE)
      BY Zenon
    <3>3. replay[t].valid /\ queue' = queue \cup {n}
      BY <3>1, <3>2 DEF ProcessMessage
    <3>4. n.tx = t
      BY <3>2, <3>3, ReplayedSound, Zenon
    <3>5. replay[t] # NoEntry
      BY <3>3 DEF NoEntry
    <3> QED BY <1>1, <3>1, <3>3, <3>4, <3>5, Zenon
  <2> QED BY <2>1, <2>2, <2>3, <2>4, <2>5, QueueSteps, Zenon
<1>2. ASSUME NEW w \in Writers, m \in job'[w].batch
      PROVE  \/ m \in queue
             \/ m \in job[w].batch
             \/ w \in Handlers /\ Sending(w) /\ m = Outgoing(w)
  <2>0. job[w] \in Jobs /\ JobShape(job[w])
    BY Zenon DEF WriteInv, MessagesSound
  <2>1. CASE job'[w] = job[w]
    BY <1>2, <2>1, Zenon
  <2>2. CASE w \in Handlers /\ (WriteTransactionSync(w) \/ WriteTransactionFallback(w))
    <3>1. Sending(w) /\ job'[w] = Individual(Outgoing(w))
      BY <2>2, HandsOver
    <3>2. Individual(Outgoing(w)).batch = {Outgoing(w)}
      BY JobFields, Zenon
    <3>3. m \in {Outgoing(w)}
      BY <1>2, <3>1, <3>2, Zenon
    <3> QED BY <2>2, <3>1, <3>3, Zenon
  <2>3. CASE CreateOrUpdateTransaction(w) \/ CreateOperations(w)
    <3>1. \E at : job' = [job EXCEPT ![w].at = at]
      BY <2>3 DEF CreateOrUpdateTransaction, CreateOperations
    <3>2. job'[w].batch = job[w].batch
      BY <2>0, <3>1 DEF Jobs
    <3> QED BY <1>2, <3>2
  <2>4. CASE FinishWrite(w) \/ HandleFailure(w)
    <3>1. PICK failed \in BOOLEAN : /\ job[w].at \in {"row", "operations", "cleanup"}
                                    /\ job' = [job EXCEPT ![w] = After(job[w], failed)]
      BY <2>4, Zenon DEF FinishWrite, HandleFailure
    <3>2. job'[w] = After(job[w], failed)
      BY <3>1
    <3> QED BY <1>2, <2>0, <3>1, <3>2, AfterShape
  <2>5. CASE Deliver(w)
    <3>1. PICK n \in queue : job' = [job EXCEPT ![w] = Individual(n)]
      BY <2>5, Zenon DEF Deliver
    <3> QED BY <1>2, <3>1 DEF Individual
  <2>6. CASE CollectBatch(w)
    <3>1. PICK ms \in SUBSET queue : job' = [job EXCEPT ![w] = Bulk(ms)]
      BY <2>6, Zenon DEF CollectBatch
    <3> QED BY <1>2, <3>1 DEF Bulk
  <2>7. CASE AtomicBulkInsert(w) \/ PerformBulkStatusUpdate(w) \/ FailBulk(w)
    <3>1. PICK at : job'[w] = [job[w] EXCEPT !.at = at] \/ job'[w] = Fallback(job[w])
      BY <2>7, Zenon DEF AtomicBulkInsert, PerformBulkStatusUpdate, FailBulk
    <3>2. [job[w] EXCEPT !.at = at].batch = job[w].batch
      BY <2>0, Zenon DEF Jobs
    <3> QED BY <1>2, <2>0, <3>1, <3>2, FallbackShape, Zenon
  <2>8. CASE ProcessMetadataAndEvents(w) \/ Redeliver(w)
    BY <1>2, <2>8 DEF ProcessMetadataAndEvents, Redeliver, NoJob
  <2>9. CASE ProcessIndividually(w)
    <3>1. PICK n \in job[w].rest : job' = [job EXCEPT ![w].message = n, ![w].rest = @ \ {n}, ![w].at = "row"]
      BY <2>9, Zenon DEF ProcessIndividually
    <3>2. job'[w].batch = job[w].batch
      BY <2>0, <3>1, Zenon DEF Jobs
    <3> QED BY <1>2, <3>2
  <2> QED BY <2>1, <2>2, <2>3, <2>4, <2>5, <2>6, <2>7, <2>8, <2>9, JobChanges, Zenon
<1> QED BY <1>1, <1>2, Zenon

LEMMA RevertStages ==
  ASSUME NEW r \in Reverts
  PROVE  r \in Transactions /\ r \notin Holds /\ StageOf(r) = "REVERT" /\ StagesOf(r) = {"REVERT"} /\ "REVERT" \in Stages
  BY RequestsAssumption DEF Transactions, StageOf, StagesOf, Stages

\* The message that inserts the row of a reversal carries its parent.
LEMMA ReversalRows ==
  ASSUME KeyInv, SeedsAreUsed, [Next]_vars, NEW r \in Reverts, row'[r] # None
  PROVE  r \in parented'
<1>0. /\ WriteInv /\ ReversalsSound /\ r \in Transactions /\ row \in [Transactions -> Statuses]
      /\ Consumers \subseteq Writers
  BY RevertStages, Zenon DEF KeyInv, WorkInv, WriteInv, WriteTypes, Writers
<1>1. CASE row[r] # None
  BY <1>0, <1>1, ParentedGrows DEF ReversalsSound
<1>2. CASE row[r] = None
  <2>1. \A w \in Writers : \A m \in job[w].batch : m.tx = r => m.parent
    BY <1>0, <1>2 DEF ReversalsSound
  <2>2. CASE \E s \in Settlers : UpdateTransactionStatus(s)
    <3>1. PICK s \in Settlers : UpdateTransactionStatus(s)
      BY <2>2
    <3>2. row' = [row EXCEPT ![handler[s].tx] = IF row[handler[s].tx] = None THEN row[handler[s].tx] ELSE handler[s].stage]
      BY <3>1, Zenon DEF UpdateTransactionStatus
    <3> QED BY <1>0, <1>2, <3>2
  <2>3. CASE \E c \in Consumers : AtomicBulkInsert(c)
    <3>1. PICK c \in Consumers : AtomicBulkInsert(c)
      BY <2>3
    <3> DEFINE ms == job[c].batch
    <3>2. /\ row' = Inserted(ms \ StatusTransitions(ms))
          /\ parented' = parented \cup {m.tx : m \in {n \in ms : n.parent /\ row[n.tx] = None}}
      BY <1>2, <3>1, Zenon DEF AtomicBulkInsert
    <3>3. PICK m \in ms : m.tx = r
      BY <1>0, <1>2, <3>2, Zenon DEF Inserted
    <3>4. m \in {n \in ms : n.parent /\ row[n.tx] = None}
      BY <1>0, <1>2, <2>1, <3>3
    <3> QED BY <3>2, <3>3, <3>4
  <2>4. CASE \E c \in Consumers : PerformBulkStatusUpdate(c)
    BY <1>0, <1>2, <2>4, Zenon DEF PerformBulkStatusUpdate, Updated
  <2>5. CASE \E w \in Writers : CreateOrUpdateTransaction(w)
    <3>1. PICK w \in Writers : CreateOrUpdateTransaction(w)
      BY <2>5
    <3> DEFINE m == job[w].message
    <3>2. /\ job[w].at = "row" /\ \E new : row' = [row EXCEPT ![m.tx] = new]
          /\ parented' = IF row[m.tx] = None /\ m.parent THEN parented \cup {m.tx} ELSE parented
      BY <3>1, Zenon DEF CreateOrUpdateTransaction
    <3>3. m \in job[w].batch
      BY <1>0, <3>2, MessageIsSound, Zenon
    <3> HIDE DEF m
    <3>4. m.tx = r
      BY <1>0, <1>2, <3>2, Zenon
    <3> QED BY <1>2, <2>1, <3>2, <3>3, <3>4, Zenon
  <2> QED BY <1>2, <2>2, <2>3, <2>4, <2>5, RowSteps, Zenon
<1> QED BY <1>1, <1>2, Zenon

LEMMA ReversalsStep ==
  ASSUME KeyInv, SeedsAreUsed, ReversalsFinish, [Next]_vars
  PROVE  ReversalsSound'
<1> SUFFICES ASSUME NEW r \in Reverts
             PROVE  /\ row'[r] # None => r \in parented'
                    /\ row'[r] = None =>
                         /\ \A m \in queue' : m.tx = r => m.parent
                         /\ \A w \in Writers : \A m \in job'[w].batch : m.tx = r => m.parent
                    /\ replay'[r] # NoEntry => row'[r] # None
                    /\ moved'[r]["REVERT"] > 0 =>
                         handler'[r].at \in {"moved", "built"} \/ Persisting(r, "REVERT")' \/ row'[r] # None
  BY Zenon DEF ReversalsSound
<1>0. /\ WriteInv /\ FinishedIsInTable /\ r \in Transactions /\ r \in Handlers /\ r \notin Settlers
      /\ handler \in [Handlers -> Requests] /\ moved \in [Transactions -> [Stages -> Nat]]
      /\ replay \in [Transactions -> Entries]
      /\ StageOf(r) = "REVERT" /\ r \notin Holds /\ "REVERT" \in Stages
      /\ PromptConsumers /\ Uninterrupted("REVERT")
  BY RevertStages, RequestsAssumption, ReversalsFinish, Zenon
     DEF KeyInv, WorkInv, WriteInv, WriteTypes, Handlers, ReversalsFinish
<1>1. /\ row[r] = None =>
           /\ \A m \in queue : m.tx = r => m.parent
           /\ \A w \in Writers : \A m \in job[w].batch : m.tx = r => m.parent
      /\ replay[r] # NoEntry => row[r] # None
      /\ moved[r]["REVERT"] > 0 => handler[r].at \in {"moved", "built"} \/ Persisting(r, "REVERT") \/ row[r] # None
  BY Zenon DEF KeyInv, ReversalsSound
<1>2. row[r] # None => row'[r] # None
  BY <1>0, RowsStay, Zenon
<1>3. ASSUME row'[r] = None, NEW m, m \in queue' \/ \E w \in Writers : m \in job'[w].batch, m.tx = r
      PROVE  m.parent
  <2>1. \/ \E n \in queue : n.tx = m.tx /\ n.parent = m.parent
        \/ \E w \in Writers : \E n \in job[w].batch : n.tx = m.tx /\ n.parent = m.parent
        \/ \E h \in Handlers : Sending(h) /\ m = Outgoing(h)
        \/ replay[r] # NoEntry
    BY <1>0, <1>3, MessageOrigins, Zenon
  <2>2. ASSUME NEW h \in Handlers, Sending(h), m = Outgoing(h)
        PROVE  m.parent
    <3>1. handler[h].tx = r
      BY <1>0, <1>3, <2>2, OutgoingSound, Zenon
    <3>2. handler[h].at \in {"built", "updated"}
      BY <2>2, Zenon DEF Sending
    <3>3. h \notin Settlers
      BY <1>0, <3>1, <3>2, Zenon DEF WriteInv, RequestsSound
    <3>4. h = r
      BY <1>0, <3>1, <3>2, <3>3, RequestKinds, Zenon
    <3> QED BY <2>2, <3>4, Zenon DEF Outgoing, Message
  <2> QED BY <1>1, <1>2, <1>3, <2>1, <2>2, Zenon
<1>4. ASSUME replay'[r] # NoEntry
      PROVE  row'[r] # None
  <2>1. CASE replay[r] # NoEntry
    BY <1>1, <1>2, <2>1, Zenon
  <2>2. CASE replay[r] = NoEntry
    <3>1. PICK t \in Transactions : \/ ReadMessage(t) \/ ProcessMessage(t) \/ AbandonReplay(t)
                                    \/ QuarantinePoisonRecord(t)
      BY <1>4, <2>2, ReplaySteps
    <3>2. \E e : replay' = [replay EXCEPT ![t] = e] /\ (e = NoEntry \/ ReadMessage(t))
      BY <3>1, Zenon DEF ReadMessage, ProcessMessage, AbandonReplay, QuarantinePoisonRecord
    <3>3. ReadMessage(r)
      BY <1>0, <1>4, <2>2, <3>2, Zenon
    <3>4. backup[r] # NoEntry /\ ~Live(r) /\ ~InFlight(r)
      BY <1>0, <3>3, Zenon DEF ReadMessage
    <3>5. handler[r].at \in {"idle", "done"}
      BY <1>0, <3>4, Zenon DEF Live, WriteInv, RequestsSound
    <3>6. moved[r]["REVERT"] > 0
      BY <1>0, <3>4, <3>5, Zenon DEF WriteInv, BackupSound, EntrySound, Begun
    <3>7. ~Persisting(r, "REVERT")
      BY <3>4 DEF InFlight, Persisting
    <3> QED BY <1>1, <1>2, <3>5, <3>6, <3>7, Zenon
  <2> QED BY <2>1, <2>2, Zenon
<1>5. ASSUME moved'[r]["REVERT"] > 0
      PROVE  handler'[r].at \in {"moved", "built"} \/ Persisting(r, "REVERT")' \/ row'[r] # None
  <2>1. CASE moved[r]["REVERT"] > 0
    <3>1. CASE handler[r].at \in {"moved", "built"}
      <4>1. handler[r].tx = r /\ handler[r].stage = "REVERT" /\ handler[r].at \in Applied
        BY <1>0, <3>1, RequestKinds, Zenon DEF Applied
      <4>2. CASE handler'[r] = handler[r]
        BY <3>1, <4>2
      <4>3. CASE handler'[r] # handler[r]
        <5>1. \/ handler'[r].at \in {"moved", "built", "updated"}
              \/ Persisting(r, "REVERT")'
          BY <1>0, <3>1, <4>1, <4>3, RequestGoesOn, Zenon
        <5>2. handler'[r].at # "updated"
          BY <1>0, RequestsStep, Zenon DEF RequestsSound, CreatePlaces
        <5> QED BY <5>1, <5>2
      <4> QED BY <4>2, <4>3, Zenon
    <3>2. CASE Persisting(r, "REVERT")
      <4>1. <<"fallback", "REVERT">> \notin Faults /\ <<"deadletter", "REVERT">> \notin Faults
        BY <1>0, Zenon DEF Uninterrupted
      <4>2. \/ Persisting(r, "REVERT")'
            \/ \E w \in Writers : \E m \in job[w].batch : m.tx = r /\ m.stage = "REVERT" /\ Completed(job[w], m)
        BY <1>0, <3>2, <4>1, PersistingStays
      <4> QED BY <1>0, <1>2, <4>2 DEF FinishedIsInTable, Finished
    <3> QED BY <1>1, <1>2, <2>1, <3>1, <3>2, Zenon
  <2>2. CASE ~(moved[r]["REVERT"] > 0)
    <3>1. moved' # moved
      BY <1>5, <2>2
    <3>2. PICK h \in Handlers : RejectSeeded(h) \/ ProcessBalanceOperations(h)
      BY <3>1, MovedSteps, Zenon
    <3>3. handler[h].at = "seeded"
      BY <3>2, Zenon DEF RejectSeeded, ProcessBalanceOperations, At
    <3>4. PICK n \in {0, 1} : /\ moved' = [moved EXCEPT ![handler[h].tx][handler[h].stage] = @ + n]
                              /\ RejectSeeded(h) /\ <<"reply", handler[h].stage>> \notin Faults => n = 0
      <4>1. CASE RejectSeeded(h)
        BY <4>1, Zenon DEF RejectSeeded
      <4>2. CASE ProcessBalanceOperations(h) /\ ~RejectSeeded(h)
        BY <4>2 DEF ProcessBalanceOperations
      <4> QED BY <3>2, <4>1, <4>2
    <3>5. PICK u \in Transactions, stage \in Stages : u = handler[h].tx /\ stage = handler[h].stage
      BY <1>0, <3>3, RequestKinds, Zenon
    <3>6. u = r /\ stage = "REVERT" /\ n # 0
      BY <1>0, <1>5, <2>2, <3>4, <3>5
    <3>7. h = r
      BY <1>0, <3>3, <3>5, <3>6, RequestKinds, Zenon DEF Settled
    <3>8. ProcessBalanceOperations(r)
      BY <1>0, <3>2, <3>4, <3>5, <3>6, <3>7, Zenon DEF Uninterrupted
    <3> QED BY <1>0, <3>8 DEF ProcessBalanceOperations, Goto, Requests
  <2> QED BY <2>1, <2>2, Zenon
<1>6. row'[r] # None => r \in parented'
  BY ReversalRows
<1> QED BY <1>3, <1>4, <1>5, <1>6, Zenon

LEMMA PastStays ==
  ASSUME KeyInv, SeedsAreUsed, [Next]_vars, NEW r \in Reverts, Past(r)
  PROVE  Past(r)'
<1>0. /\ WriteInv /\ r \in Transactions /\ handler \in [Handlers -> Requests] /\ Reverts \subseteq Transactions
      /\ Transactions \subseteq Handlers /\ Settlers \cap Transactions = {}
  BY RevertStages, RequestsAssumption, Zenon DEF KeyInv, WorkInv, WriteInv, WriteTypes, Handlers, Transactions
<1>1. r \in parented' /\ row'[r] # None
  BY <1>0, RowsStay, ParentedGrows, Zenon DEF Past
<1>2. ASSUME NEW r2 \in Reverts, Parent[r2] = Parent[r], handler'[r2].at = "checked"
      PROVE  FALSE
  <2>1. handler[r2].at # "checked" /\ handler'[r2] # handler[r2]
    BY <1>2 DEF Past
  <2>2. CASE handler[r2].at \in {"idle", "checked"}
    <3>1. RevertTransaction(r2) \/ CreateOrCheckTransactionIdempotency(r2)
      BY <1>0, <2>1, <2>2, StartSteps, Zenon
    <3>2. r \in Children(Parent[r2])
      BY <1>2 DEF Children, Past
    <3>3. handler' = [handler EXCEPT ![r2].at = "done"]
          \/ handler' = [handler EXCEPT ![r2] = [at |-> "claimed", tx |-> r2, stage |-> StageOf(r2), seen |-> None]]
      BY <3>1, <3>2 DEF RevertTransaction, CreateOrCheckTransactionIdempotency, Goto
    <3>4. r2 \in Handlers
      BY <1>0
    <3>5. handler'[r2].at # "checked"
      BY <1>0, <3>3, <3>4 DEF Requests
    <3> QED BY <1>2, <3>5, Zenon
  <2>3. CASE handler[r2].at \notin {"idle", "checked"}
    <3>1. Continues(r2, "checked")
      BY <1>0, <1>2, <2>1, <2>3, RequestChanges, Zenon
    <3> QED BY <3>1, Zenon DEF Continues, Follows
  <2> QED BY <2>2, <2>3, Zenon
<1> QED BY <1>1, <1>2, Zenon DEF Past

LEMMA NewClaims ==
  ASSUME KeyInv, SeedsAreUsed, [Next]_vars, NEW t \in Transactions, ~Claims(t), Claims(t)'
  PROVE  /\ CreateOrCheckTransactionIdempotency(t) /\ idem[Key[t]] = Free
         /\ idem' = [idem EXCEPT ![Key[t]] = Claimed]
         /\ \A u \in Transactions : u # t /\ Claims(u)' => Claims(u)
<1>0. /\ WriteInv /\ handler \in [Handlers -> Requests] /\ t \in Handlers /\ t \notin Settlers
      /\ moved \in [Transactions -> [Stages -> Nat]] /\ StageOf(t) \in Stages
  BY RequestsAssumption, StagesAreTyped, Zenon DEF KeyInv, WorkInv, WriteInv, WriteTypes, Handlers
<1>1. moved'[t][StageOf(t)] > 0 => moved[t][StageOf(t)] > 0
  <2> SUFFICES ASSUME moved'[t][StageOf(t)] > 0, ~(moved[t][StageOf(t)] > 0) PROVE FALSE
    BY Zenon
  <2>1. PICK h \in Handlers : RejectSeeded(h) \/ ProcessBalanceOperations(h)
    BY MovedSteps
  <2>2. PICK n \in {0, 1} : moved' = [moved EXCEPT ![handler[h].tx][handler[h].stage] = @ + n]
    BY <2>1, Zenon DEF RejectSeeded, ProcessBalanceOperations
  <2>3. handler[h].at = "seeded"
    BY <2>1, Zenon DEF RejectSeeded, ProcessBalanceOperations, At
  <2>4. PICK u \in Transactions, stage \in Stages : u = handler[h].tx /\ stage = handler[h].stage
    BY <1>0, <2>3, RequestKinds, Zenon
  <2>5. u = t /\ stage = StageOf(t)
    BY <1>0, <2>2, <2>4, Zenon
  <2>6. handler[h].stage \notin Settled
    BY <2>4, <2>5, StagesAreTyped
  <2>7. h = t
    BY <1>0, <2>3, <2>4, <2>5, <2>6, RequestKinds, Zenon
  <2> QED BY <2>3, <2>7, ZenonT(30) DEF Claims, Holding
<1>2. handler'[t].at \in Holding /\ handler[t].at \notin Holding
  BY <1>1, Zenon DEF Claims
<1>3. CASE handler[t].at \in {"idle", "checked"}
  <2>1. RevertTransaction(t) \/ CreateOrCheckTransactionIdempotency(t)
    BY <1>0, <1>2, <1>3, StartSteps, Zenon
  <2>2. ~RevertTransaction(t)
    <3> SUFFICES ASSUME RevertTransaction(t) PROVE FALSE
      OBVIOUS
    <3>1. \/ handler' = [handler EXCEPT ![t].at = "done"]
          \/ handler' = [handler EXCEPT ![t] = [at |-> "checked", tx |-> t, stage |-> "REVERT", seen |-> None]]
      BY DEF RevertTransaction, Goto
    <3>2. handler'[t].at \in {"checked", "done"}
      BY <1>0, <3>1 DEF Requests
    <3> QED BY <1>2, <3>2 DEF Holding, Applied
  <2>3. handler' # [handler EXCEPT ![t].at = "done"]
    BY <1>0, <1>2 DEF Holding, Applied, Requests
  <2>4. /\ CreateOrCheckTransactionIdempotency(t) /\ idem[Key[t]] = Free
        /\ idem' = [idem EXCEPT ![Key[t]] = Claimed]
        /\ handler' = [handler EXCEPT ![t] = [at |-> "claimed", tx |-> t, stage |-> StageOf(t), seen |-> None]]
        /\ moved' = moved
    BY <2>1, <2>2, <2>3, Zenon DEF CreateOrCheckTransactionIdempotency, Goto
  <2>5. \A u \in Transactions : u # t => handler'[u] = handler[u]
    BY <1>0, <2>4 DEF Handlers
  <2> QED BY <2>4, <2>5, Zenon DEF Claims
<1>4. CASE handler[t].at \notin {"idle", "checked"}
  <2>1. Continues(t, handler'[t].at)
    BY <1>0, <1>2, <1>4, RequestChanges, Zenon
  <2> QED BY <1>0, <1>2, <2>1, Zenon DEF Continues, Follows, Holding, Applied
<1> QED BY <1>3, <1>4, Zenon

\* A key that becomes free while a request that claimed it goes on.
LEMMA FreedKeys ==
  ASSUME KeyInv, SeedsAreUsed, RepliesArrive, ReversalsFinish, ReversalKeys, [Next]_vars,
         NEW t \in Transactions, Claims(t), Claims(t)', idem[Key[t]] # Free, idem'[Key[t]] = Free
  PROVE  Past(t)'
<1>0. /\ WriteInv /\ handler \in [Handlers -> Requests] /\ t \in Handlers /\ t \notin Settlers
      /\ moved \in [Transactions -> [Stages -> Nat]] /\ StageOf(t) \in Stages \ Settled
      /\ idem \in [Keys -> {Free, Claimed} \cup Transactions]
      /\ Key \in [Transactions -> Keys]
      /\ MovesOnce /\ ReversalsSound
  BY RequestsAssumption, StagesAreTyped, Zenon DEF KeyInv, WorkInv, WriteInv, WriteTypes, Handlers, KeysSound
<1>1. ASSUME NEW h \in Handlers, RejectClaimed(h) \/ RejectSeeded(h)
      PROVE  Past(t)
  <2>1. handler[h].at \in {"claimed", "seeded"} /\ GiveBack(h) /\ Goto(h, "done")
    BY <1>1, Zenon DEF RejectClaimed, RejectSeeded, At
  <2>2. h \notin Settlers /\ idem' = [idem EXCEPT ![Key[h]] = Free]
    BY <2>1, Zenon DEF GiveBack
  <2>3. h \in Transactions /\ Claims(h) /\ handler[h].tx = h /\ handler[h].stage = StageOf(h)
    BY <1>0, <2>1, <2>2, RequestKinds, Zenon DEF Handlers, Claims, Holding
  <2>4. Key[h] = Key[t]
    BY <1>0, <2>2, <2>3, Zenon
  <2>5. h # t
    <3> SUFFICES ASSUME h = t PROVE FALSE
      OBVIOUS
    <3>1. handler'[t].at = "done"
      BY <1>0, <2>1, Zenon DEF Goto, Requests
    <3>2. moved[t][StageOf(t)] = 0
      BY <1>0, <2>1 DEF MovesOnce, Applied
    <3>3. moved' = moved \/ moved' = [moved EXCEPT ![t][StageOf(t)] = @ + 0]
      BY <1>0, <1>1, <2>3, Zenon DEF RejectClaimed, RejectSeeded, RepliesArrive
    <3>4. moved'[t][StageOf(t)] = 0
      BY <1>0, <3>2, <3>3
    <3> QED BY <3>1, <3>4 DEF Claims, Holding, Applied
  <2>6. ~Past(h)
    BY <1>0, <2>1, <2>3, Zenon DEF Past, WriteInv, TablesSound, Begun
  <2> QED BY <2>3, <2>4, <2>5, <2>6, Zenon DEF KeyInv, KeysSound
<1>2. ASSUME NEW h \in Handlers, FinishRequest(h)
      PROVE  FALSE
  <2>1. CASE h \in Settlers
    BY <1>2, <2>1, Zenon DEF FinishRequest
  <2>2. CASE h \notin Settlers
    <3>1. h \in Transactions /\ idem' = [idem EXCEPT ![Key[h]] = h]
      BY <1>2, <2>2, Zenon DEF FinishRequest, Handlers
    <3>2. h # Free
      BY <3>1, RequestsAssumption, Zenon DEF Free
    <3> QED BY <1>0, <3>1, <3>2, Zenon
  <2> QED BY <2>1, <2>2, Zenon
<1>3. ASSUME NEW k \in Keys, KeyExpires(k)
      PROVE  Past(t)
  <2>1. /\ \E r \in Reverts : Key[r] = k
        /\ \A r \in Reverts : Key[r] = k => ~Live(r)
        /\ PromptConsumers => \A r \in Reverts : Key[r] = k => (moved[r]["REVERT"] > 0 => row[r] # None)
        /\ idem' = [idem EXCEPT ![k] = Free]
    BY <1>3, Zenon DEF KeyExpires
  <2>2. Key[t] = k
    BY <1>0, <2>1, Zenon
  <2>3. t \in Reverts /\ PromptConsumers
    BY <2>1, <2>2, Zenon DEF ReversalKeys, ReversalsFinish
  <2>4. \A r \in Reverts : Key[r] = k => handler[r].at \in {"idle", "done"}
    BY <1>0, <2>1, RevertStages, Zenon DEF Live, WriteInv, RequestsSound, Handlers
  <2>5. moved[t]["REVERT"] > 0
    BY <2>2, <2>3, <2>4, RevertStages, Zenon DEF Claims, Holding, Applied
  <2>6. row[t] # None /\ t \in parented
    BY <1>0, <2>1, <2>2, <2>3, <2>5, Zenon DEF ReversalsSound
  <2>7. ASSUME NEW r2 \in Reverts, Parent[r2] = Parent[t]
        PROVE  handler[r2].at # "checked"
    BY <2>2, <2>3, <2>4, <2>7, RevertStages, Zenon DEF ReversalKeys
  <2> QED BY <2>3, <2>6, <2>7, Zenon DEF Past
<1>4. ASSUME NEW h \in Handlers, FailBuild(h) PROVE FALSE
  BY <1>4, Zenon DEF FailBuild, GiveBack
<1>5. ASSUME NEW u \in Transactions, CreateOrCheckTransactionIdempotency(u) PROVE FALSE
  <2>1. idem' = idem \/ idem' = [idem EXCEPT ![Key[u]] = Claimed]
    BY <1>5, Zenon DEF CreateOrCheckTransactionIdempotency
  <2> QED BY <1>0, <2>1, Zenon DEF Claimed, Free
<1>6. Past(t)
  BY <1>1, <1>2, <1>3, <1>4, <1>5, KeySteps, Zenon
<1> QED BY <1>6, PastStays, Zenon DEF Past

LEMMA KeysStep ==
  ASSUME KeyInv, SeedsAreUsed, RepliesArrive, ReversalsFinish, ReversalKeys, [Next]_vars
  PROVE  KeysSound'
<1>0. /\ WriteInv /\ handler \in [Handlers -> Requests]
      /\ moved \in [Transactions -> [Stages -> Nat]]
      /\ idem \in [Keys -> {Free, Claimed} \cup Transactions]
      /\ Key \in [Transactions -> Keys]
      /\ Reverts \subseteq Transactions
  BY RequestsAssumption, Zenon DEF KeyInv, WorkInv, WriteInv, WriteTypes, KeysSound, Transactions
<1>1. /\ idem' \in [Keys -> {Free, Claimed} \cup Transactions]
      /\ \A k \in Keys : idem'[k] \in Transactions =>
           Key[idem'[k]] = k /\ moved'[idem'[k]][StageOf(idem'[k])] > 0
  <2>0. /\ \A k \in Keys : idem[k] \in Transactions => Key[idem[k]] = k /\ moved[idem[k]][StageOf(idem[k])] > 0
        /\ Free \notin Transactions /\ Claimed \notin Transactions
    BY RequestsAssumption, Zenon DEF KeyInv, KeysSound, Free, Claimed
  <2>1. ASSUME NEW u \in Transactions, moved[u][StageOf(u)] > 0
        PROVE  moved'[u][StageOf(u)] > 0
    BY <1>0, <2>1, MovedGrows, StagesAreTyped, Zenon
  <2>2. CASE idem' = idem
    BY <1>0, <2>0, <2>1, <2>2, Zenon
  <2>3. CASE \E k \in Keys, v \in {Free, Claimed} : idem' = [idem EXCEPT ![k] = v]
    BY <1>0, <2>0, <2>1, <2>3
  <2>4. CASE \E h \in Handlers : FinishRequest(h) /\ h \notin Settlers
    <3>1. PICK h \in Transactions : At(h, "written") /\ idem' = [idem EXCEPT ![Key[h]] = h]
      BY <2>4, Zenon DEF FinishRequest, Handlers
    <3>2. h \in Handlers /\ handler[h].at = "written" /\ handler[h].at \notin {"idle", "done"}
          /\ handler[h].at \in Applied /\ h \notin Settlers
      BY <3>1, RequestsAssumption, Zenon DEF At, Applied, Handlers
    <3>3. handler[h].tx = h /\ handler[h].stage = StageOf(h)
      BY <1>0, <3>2, RequestKinds, Zenon
    <3>4. moved[h][StageOf(h)] > 0
      BY <1>0, <3>2, <3>3, Zenon DEF WriteInv, RequestsSound
    <3> QED BY <1>0, <2>0, <2>1, <3>1, <3>4, Zenon
  <2>5. ASSUME idem' # idem
        PROVE  \/ \E k \in Keys, v \in {Free, Claimed} : idem' = [idem EXCEPT ![k] = v]
               \/ \E h \in Handlers : FinishRequest(h) /\ h \notin Settlers
    <3>1. ASSUME NEW u \in Transactions, CreateOrCheckTransactionIdempotency(u)
          PROVE  \E k \in Keys, v \in {Free, Claimed} : idem' = [idem EXCEPT ![k] = v]
      BY <1>0, <2>5, <3>1 DEF CreateOrCheckTransactionIdempotency
    <3>2. ASSUME NEW h \in Handlers, RejectClaimed(h) \/ RejectSeeded(h) \/ FailBuild(h)
          PROVE  \E k \in Keys, v \in {Free, Claimed} : idem' = [idem EXCEPT ![k] = v]
      <4>1. h \in Transactions /\ idem' = [idem EXCEPT ![Key[h]] = Free]
        BY <2>5, <3>2 DEF RejectClaimed, RejectSeeded, FailBuild, GiveBack, Handlers
      <4> QED BY <1>0, <4>1, Zenon
    <3>3. ASSUME NEW k \in Keys, KeyExpires(k)
          PROVE  \E l \in Keys, v \in {Free, Claimed} : idem' = [idem EXCEPT ![l] = v]
      BY <3>3, Zenon DEF KeyExpires
    <3>4. ASSUME NEW h \in Handlers, FinishRequest(h)
          PROVE  h \notin Settlers
      BY <2>5, <3>4, Zenon DEF FinishRequest
    <3> QED BY <2>5, <3>1, <3>2, <3>3, <3>4, KeySteps, Zenon
  <2> QED BY <2>2, <2>3, <2>4, <2>5, Zenon
<1>2. ASSUME NEW t \in Transactions, Past(t)
      PROVE  Past(t)'
  BY <1>2, PastStays, Zenon DEF Past
<1>3. ASSUME NEW t \in Transactions, Claims(t)'
      PROVE  idem'[Key[t]] # Free \/ Past(t)'
  <2>1. CASE Claims(t)
    <3>1. idem[Key[t]] # Free \/ Past(t)
      BY <2>1, Zenon DEF KeyInv, KeysSound
    <3> QED BY <1>2, <1>3, <2>1, <3>1, FreedKeys, Zenon
  <2>2. CASE ~Claims(t)
    BY <1>0, <1>3, <2>2, NewClaims, Zenon DEF Free, Claimed
  <2> QED BY <2>1, <2>2, Zenon
<1>4. ASSUME NEW t \in Transactions, NEW u \in Transactions, Key[t] = Key[u], Claims(t)', Claims(u)', ~Claims(t), t # u
      PROVE  Past(u)' /\ Claims(u) /\ (u \in Reverts => Past(u))
             /\ handler[t].at = IF t \in Reverts THEN "checked" ELSE "idle"
  <2>1. Claims(u) /\ idem[Key[t]] = Free /\ CreateOrCheckTransactionIdempotency(t)
    BY <1>4, NewClaims, Zenon
  <2>2. Past(u)
    BY <1>4, <2>1, Zenon DEF KeyInv, KeysSound
  <2> QED BY <1>2, <2>1, <2>2, Zenon DEF CreateOrCheckTransactionIdempotency, At
<1>5. ASSUME NEW t \in Transactions, NEW u \in Transactions, Key[t] = Key[u], Claims(t)', Claims(u)'
      PROVE  t = u \/ Past(t)' \/ Past(u)'
  <2>1. CASE Claims(t) /\ Claims(u)
    <3>1. t = u \/ Past(t) \/ Past(u)
      BY <1>5, <2>1, Zenon DEF KeyInv, KeysSound
    <3> QED BY <1>2, <3>1, Zenon
  <2> QED BY <1>4, <1>5, <2>1, Zenon
<1>6. ASSUME NEW r1 \in Reverts, NEW r2 \in Reverts, Parent[r1] = Parent[r2], Claims(r1)', Claims(r2)', ~Claims(r1),
             r1 # r2
      PROVE  FALSE
  <2>1. Key[r1] = Key[r2]
    BY <1>0, <1>6, Zenon DEF ReversalKeys
  <2>2. Past(r2) /\ handler[r1].at = "checked"
    BY <1>0, <1>4, <1>6, <2>1, Zenon
  <2> QED BY <1>6, <2>2, Zenon DEF Past
<1>7. ASSUME NEW r1 \in Reverts, NEW r2 \in Reverts, Parent[r1] = Parent[r2], Claims(r1)', Claims(r2)'
      PROVE  r1 = r2
  <2>1. CASE Claims(r1) /\ Claims(r2)
    BY <1>7, <2>1 DEF KeyInv, KeysSound
  <2> QED BY <1>6, <1>7, <2>1, Zenon
<1> QED BY <1>1, <1>3, <1>5, <1>7, Zenon DEF KeysSound

LEMMA KeyInit == Init => KeyInv
<1> SUFFICES ASSUME Init PROVE KeyInv
  OBVIOUS
<1>0. /\ idem = [k \in Keys |-> Free]
      /\ moved = [t \in Transactions |-> [s \in Stages |-> 0]]
      /\ queue = {} /\ job = [w \in Writers |-> NoJob] /\ replay = [t \in Transactions |-> NoEntry]
      /\ row = [t \in Transactions |-> None]
      /\ \A t \in Transactions : handler[t].at \in {"idle", "done"}
      /\ Key \in [Transactions -> Keys] /\ Reverts \subseteq Transactions
      /\ Free \notin Transactions
  BY RequestsAssumption DEF Init, Idle, Handlers, Transactions, Free
<1>1. \A t \in Transactions : ~Claims(t)
  BY <1>0, StagesAreTyped DEF Claims, Holding, Applied
<1>2. KeysSound
  BY <1>0, <1>1, Zenon DEF KeysSound
<1>3. ASSUME NEW r \in Reverts
      PROVE  row[r] = None /\ replay[r] = NoEntry /\ moved[r]["REVERT"] = 0
  BY <1>0, RevertStages, Zenon
<1>4. \A w \in Writers : job[w].batch = {}
  BY <1>0, Zenon DEF NoJob
<1>5. ReversalsSound
  BY <1>0, <1>3, <1>4 DEF ReversalsSound
<1> QED BY <1>2, <1>5, WorkInit DEF KeyInv

LEMMA KeyStep ==
  ASSUME KeyInv, SeedsAreUsed, RepliesArrive, ReversalsFinish, ReversalKeys, [Next]_vars
  PROVE  KeyInv'
<1>1. WorkInv'
  BY WorkStep DEF KeyInv
<1> QED BY <1>1, KeysStep, ReversalsStep DEF KeyInv

LEMMA KeyInvariant ==
  ASSUME SeedsAreUsed, RepliesArrive, ReversalsFinish, ReversalKeys
  PROVE  Spec => []KeyInv
<1>1. KeyInv /\ [Next]_vars => KeyInv'
  BY KeyStep
<1> QED BY <1>1, KeyInit, PTL DEF Spec

\* A transaction is reversed once.  The reversal check reads the table, which
\* an earlier reversal reaches only when its message is consumed; until then
\* the content key keeps a second one out, and the key must not expire sooner
\* (RevertTransaction, CreateOrCheckTransactionIdempotency).
THEOREM ReversalsAreUnique ==
  SeedsAreUsed /\ RepliesArrive /\ ReversalsFinish /\ ReversalKeys => (Spec => []RevertedOnce)
<1> SUFFICES ASSUME SeedsAreUsed, RepliesArrive, ReversalsFinish, ReversalKeys PROVE Spec => []RevertedOnce
  BY Zenon
<1>1. KeyInv => RevertedOnce
  <2> SUFFICES ASSUME KeyInv, NEW t \in Transactions
               PROVE  \A r, u \in {v \in Reverts : Parent[v] = t /\ moved[v]["REVERT"] > 0} : r = u
    BY Zenon DEF RevertedOnce
  <2>1. \A r \in Reverts : moved[r]["REVERT"] > 0 => Claims(r)
    BY RevertStages DEF Claims
  <2> QED BY <2>1, Zenon DEF KeyInv, KeysSound
<1> QED BY <1>1, KeyInvariant, PTL

\* Reversals of different transactions have different contents.
ReversalsDiffer == \A r1, r2 \in Reverts : Key[r1] = Key[r2] => Parent[r1] = Parent[r2]

\* Requests with one idempotency key move balances once between them, however
\* they interleave and wherever they fail, and the key answers only with the
\* request that did (CreateOrCheckTransactionIdempotency, GiveBack,
\* FinishRequest).  A lost reply of the script is excluded: the handler takes
\* it for a rejection and gives the key back although the balances moved.
THEOREM KeysAdmitOneMove ==
  SeedsAreUsed /\ RepliesArrive /\ ReversalsFinish /\ ReversalKeys /\ ReversalsDiffer
    => (Spec => []IdempotentMoves)
<1> SUFFICES ASSUME SeedsAreUsed, RepliesArrive, ReversalsFinish, ReversalKeys, ReversalsDiffer
             PROVE  Spec => []IdempotentMoves
  BY Zenon
<1>1. KeyInv => IdempotentMoves
  <2> SUFFICES ASSUME KeyInv PROVE IdempotentMoves
    BY Zenon
  <2> SUFFICES ASSUME NEW k \in Keys
               PROVE  LET movers == {t \in Transactions : Key[t] = k /\ moved[t][StageOf(t)] > 0} IN
                      /\ \A t, u \in movers : t = u
                      /\ \A t \in movers : moved[t][StageOf(t)] = 1
                      /\ idem[k] \in Transactions => idem[k] \in movers
    BY Zenon DEF IdempotentMoves
  <2> DEFINE movers == {t \in Transactions : Key[t] = k /\ moved[t][StageOf(t)] > 0}
  <2>1. ASSUME NEW t \in movers, NEW u \in movers PROVE t = u
    <3>1. Claims(t) /\ Claims(u) /\ Key[t] = Key[u]
      BY Zenon DEF Claims
    <3>2. CASE t \in Reverts \/ u \in Reverts
      <4>1. t \in Reverts /\ u \in Reverts
        BY <3>1, <3>2, Zenon DEF ReversalKeys
      <4>2. Parent[t] = Parent[u]
        BY <3>1, <4>1, Zenon DEF ReversalsDiffer
      <4> QED BY <3>1, <4>1, <4>2, Zenon DEF KeyInv, KeysSound
    <3>3. CASE t \notin Reverts /\ u \notin Reverts
      BY <3>1, <3>3, Zenon DEF KeyInv, KeysSound, Past
    <3> QED BY <3>2, <3>3, Zenon
  <2>2. ASSUME NEW t \in movers PROVE moved[t][StageOf(t)] = 1
    <3>1. moved[t][StageOf(t)] \in Nat /\ moved[t][StageOf(t)] > 0
      BY StagesAreTyped DEF KeyInv, WorkInv, WriteInv, WriteTypes
    <3>2. moved[t][StageOf(t)] <= IF handler[t].at \in Applied \cup {"done"} THEN 1 ELSE 0
      BY Zenon DEF KeyInv, WorkInv, MovesOnce
    <3> QED BY <3>1, <3>2
  <2>3. idem[k] \in Transactions => idem[k] \in movers
    BY DEF KeyInv, KeysSound
  <2> QED BY <2>1, <2>2, <2>3
<1> QED BY <1>1, KeyInvariant, PTL

-----------------------------------------------------------------------------
(***************************************************************************)
(* What keeps a stage whose balances moved.                                *)
(***************************************************************************)
\* A held transaction that commit and cancel requests can see is not dropped.
HoldsAreSafe == \A place \in {"built", "fallback", "deadletter"} : <<place, "PENDING">> \notin Faults

Stored(t, stage) == Persisted(t, stage) \/ <<t, stage>> \in quarantine

\* The operations of a message are in the table once its worker says so.
OperationsInTable ==
    \A w \in Writers : \A m \in job[w].batch :
      job[w].at = "status" \/ Completed(job[w], m) => \E o \in operations : o.tx = m.tx /\ o.stage = m.stage

\* Cleanup follows persistence.
CleaningSound ==
    /\ cleaning \subseteq [tx : Transactions, stage : Stages \cup {"writeBehind"}, matched : BOOLEAN]
    /\ \A g \in cleaning : /\ g.matched => g.stage # "writeBehind"
                           /\ g.stage # "writeBehind" => g.stage \in StagesOf(g.tx) /\ Persisted(g.tx, g.stage)

\* The entry a create request seeded is there when it runs the script; only a
\* held transaction can lose its entry to the cleanup of an earlier stage.
EntriesKept ==
    \A t \in Transactions :
      /\ handler[t].at = "seeded" => backup[t].stage = StageOf(t)
      /\ t \notin Holds => /\ backup[t] # NoEntry => backup[t].stage = StageOf(t)
                           /\ replay[t] # NoEntry => replay[t].stage = StageOf(t)

StagesMoved == \A t \in Transactions, stage \in Stages : moved[t][stage] > 0 => stage \in StagesOf(t)

\* A hold on its way to the tables, which no cleanup of its entry can lose.
Safe(t) == handler[t].at = "built" \/ Persisting(t, "PENDING") \/ Stored(t, "PENDING")

\* A hold that only its backup entry knows of: nobody can settle it yet.
Unseen(t) ==
    /\ backup[t].stage = "PENDING"
    /\ replay[t] # NoEntry => replay[t].stage = "PENDING"
    /\ row[t] = None /\ cache[t] = None /\ Settlements(t) = 0
    /\ \A s \in Settlers : handler[s].tx = t => handler[s].at \in {"idle", "done"}

MovesKept ==
    \A t \in Transactions :
      /\ t \notin Holds /\ moved[t][StageOf(t)] > 0 => backup[t].stage = StageOf(t) \/ Stored(t, StageOf(t))
      /\ t \in Holds /\ moved[t]["PENDING"] > 0 => Safe(t) \/ Unseen(t)
      /\ t \in Holds => \A stage \in Settled : moved[t][stage] > 0 =>
           \/ \E s \in Settlers : /\ handler[s].tx = t /\ handler[s].stage = stage
                                  /\ handler[s].at \in {"moved", "built", "updated"}
           \/ Persisting(t, stage) \/ Persisted(t, stage)

DurableInv == /\ SettleInv /\ OperationsInTable /\ CleaningSound /\ EntriesKept /\ StagesMoved /\ MovesKept

LEMMA PersistedStays ==
  ASSUME SettleInv, [Next]_vars, NEW t \in Transactions, NEW stage \in StagesOf(t), Persisted(t, stage)
  PROVE  Persisted(t, stage)'
<1>0. WriteInv
  BY DEF SettleInv, WorkInv
<1>1. \E o \in operations' : o.tx = t /\ o.stage = stage
  BY <1>0, OperationsGrow DEF Persisted
<1>2. CASE stage = "PENDING"
  BY <1>0, <1>1, <1>2, RowsStay DEF Persisted
<1>3. CASE stage # "PENDING"
  <2>1. row[t] = Promoted(stage) /\ Promoted(stage) \in Settled
    BY <1>3, StagesAreTyped DEF Persisted, Promoted, Stages, Settled
  <2>2. row'[t] = row[t]
    BY <2>1, SettledRowStays
  <2> QED BY <1>1, <1>3, <2>1, <2>2 DEF Persisted
<1> QED BY <1>2, <1>3

LEMMA PersistedIsBegun ==
  ASSUME WriteInv, NEW t \in Transactions, NEW stage \in StagesOf(t), Persisted(t, stage)
  PROVE  row[t] # None /\ Begun(t)
<1>1. row[t] # None
  BY DEF Persisted, Promoted, StagesOf, StageOf, Settled, None
<1> QED BY <1>1 DEF WriteInv, TablesSound

\* What a worker has completed is in both tables.
LEMMA CompletedIsPersisted ==
  ASSUME SettleInv, OperationsInTable, NEW w \in Writers, NEW m \in job[w].batch, Completed(job[w], m)
  PROVE  m.tx \in Transactions /\ m.stage \in StagesOf(m.tx) /\ Persisted(m.tx, m.stage)
<1>0. WriteInv /\ FinishedIsInTable
  BY DEF SettleInv, WorkInv
<1>1. m \in Messages /\ Sound(m)
  BY <1>0, BatchIsSound
<1>2. m.tx \in Transactions /\ m.stage \in StagesOf(m.tx) /\ moved[m.tx][m.stage] > 0
  BY <1>1 DEF Messages, Sound
<1>3. \E o \in operations : o.tx = m.tx /\ o.stage = m.stage
  BY DEF OperationsInTable
<1>4. row[m.tx] # None /\ (m.stage \in Settled => row[m.tx] \in Settled)
  BY <1>0 DEF FinishedIsInTable, Finished
<1>5. CASE m.tx \in Holds
  <2>1. CASE m.stage \in Settled
    <3>1. moved[m.tx][row[m.tx]] > 0
      BY <1>0, <1>2, <1>4, <1>5, <2>1, Zenon DEF WriteInv, TablesSound
    <3>2. row[m.tx] = m.stage
      BY <1>2, <1>4, <1>5, <2>1, <3>1, OneSettlement, Zenon
    <3> QED BY <1>2, <1>3, <2>1, <3>2, Zenon DEF Persisted, Promoted, Settled
  <2>2. CASE m.stage = "PENDING"
    BY <1>2, <1>3, <1>4, <2>2 DEF Persisted
  <2> QED BY <1>2, <1>5, <2>1, <2>2, StagesAreTyped
<1>6. CASE m.tx \notin Holds
  <2>1. m.stage = StageOf(m.tx) /\ m.stage # "PENDING"
    BY <1>2, <1>6, StagesAreTyped
  <2>2. row[m.tx] \in {None, Promoted(m.stage)}
    BY <1>0, <1>2, <1>6, <2>1, Zenon DEF WriteInv, TablesSound
  <2> QED BY <1>2, <1>3, <1>4, <2>1, <2>2, Zenon DEF Persisted
<1> QED BY <1>5, <1>6

LEMMA OperationsInTableStep ==
  ASSUME SettleInv, OperationsInTable, SeedsAreUsed, [Next]_vars
  PROVE  OperationsInTable'
<1>0. WriteInv /\ job \in [Writers -> Jobs]
  BY DEF SettleInv, WorkInv, WriteInv, WriteTypes
<1> SUFFICES ASSUME NEW w \in Writers, NEW m \in job'[w].batch, job'[w].at = "status" \/ Completed(job'[w], m)
             PROVE  \E o \in operations' : o.tx = m.tx /\ o.stage = m.stage
  BY DEF OperationsInTable
<1>1. m \in job[w].batch => (job[w].at = "status" \/ Completed(job[w], m) =>
                               \E o \in operations' : o.tx = m.tx /\ o.stage = m.stage)
  BY <1>0, OperationsGrow DEF OperationsInTable
<1>2. ASSUME m \in job[w].batch, m = job[w].message, CreateOperations(w)
      PROVE  \E o \in operations' : o.tx = m.tx /\ o.stage = m.stage
  <2>1. m.operations \subseteq operations' /\ Sound(m)
    BY <1>0, <1>2, BatchIsSound DEF CreateOperations
  <2> QED BY <2>1 DEF Sound, OperationsOf
<1>3. ASSUME m \in job[w].batch, AtomicBulkInsert(w), job'[w].at = "status"
      PROVE  \E o \in operations' : o.tx = m.tx /\ o.stage = m.stage
  <2>1. job' # [job EXCEPT ![w] = Fallback(job[w])]
    <3>1. Fallback(job[w]).at = "fallback"
      BY <1>0 DEF Fallback, Jobs
    <3> QED BY <1>0, <1>3, <3>1
  <2>2. operations' = InsertedOperations(job[w].batch)
    BY <1>3, <2>1 DEF AtomicBulkInsert
  <2>3. m.operations \subseteq operations' /\ Sound(m)
    BY <1>0, <1>3, <2>2, BatchIsSound DEF InsertedOperations
  <2> QED BY <2>3 DEF Sound, OperationsOf
<1>4. PerformBulkStatusUpdate(w) => job[w].at = "status"
  BY Zenon DEF PerformBulkStatusUpdate
<1> QED BY <1>0, <1>1, <1>2, <1>3, <1>4, FinishedGrows, Zenon

LEMMA CleaningSteps ==
  ASSUME [Next]_vars, cleaning' # cleaning
  PROVE  \/ \E w \in Writers : FinishWrite(w)
         \/ \E c \in Consumers : ProcessMetadataAndEvents(c)
         \/ \E g \in cleaning : CompareBackup(g) \/ RemoveBackup(g) \/ DeleteWriteBehind(g)
  BY ZenonT(30) DEF Next, vars, redis, postgres, StartRequest, RequestStep, WriterStep, BulkStep, CleanupStep,
         GetTransaction, AcquireLock, RevertTransaction, CreateOrCheckTransactionIdempotency,
         RejectClaimed, Seed, RejectSeeded, ProcessBalanceOperations, Build, WriteTransactionAsync,
         WriteTransactionSync, FinishRequest, UpdateTransactionStatus, FailBuild, Crash,
         WriteTransactionFallback, CreateOrUpdateTransaction, CreateOperations, HandleFailure, Deliver,
         CollectBatch, AtomicBulkInsert, PerformBulkStatusUpdate, ProcessIndividually,
         FailBulk, Redeliver, KeyExpires, LockExpires, ReadMessage, ProcessMessage, AbandonReplay,
         QuarantinePoisonRecord

LEMMA QuarantineGrows ==
  ASSUME [Next]_vars
  PROVE  quarantine \subseteq quarantine'
<1>1. quarantine' # quarantine => \E t \in Transactions : QuarantinePoisonRecord(t)
  BY Zenon DEF Next, vars, redis, postgres, StartRequest, RequestStep, WriterStep, BulkStep, CleanupStep,
         GetTransaction, AcquireLock, RevertTransaction, CreateOrCheckTransactionIdempotency,
         RejectClaimed, Seed, RejectSeeded, ProcessBalanceOperations, Build, WriteTransactionAsync,
         WriteTransactionSync, FinishRequest, UpdateTransactionStatus, FailBuild, Crash,
         WriteTransactionFallback, CreateOrUpdateTransaction, CreateOperations, FinishWrite,
         HandleFailure, Deliver, CollectBatch, AtomicBulkInsert, PerformBulkStatusUpdate,
         ProcessMetadataAndEvents, ProcessIndividually, FailBulk, Redeliver, CompareBackup,
         RemoveBackup, DeleteWriteBehind, KeyExpires, LockExpires, ReadMessage, ProcessMessage, AbandonReplay
<1>2. ASSUME NEW t \in Transactions, QuarantinePoisonRecord(t) PROVE quarantine \subseteq quarantine'
  BY <1>2 DEF QuarantinePoisonRecord
<1> QED BY <1>1, <1>2, Zenon

LEMMA StoredStays ==
  ASSUME SettleInv, [Next]_vars, NEW t \in Transactions, NEW stage \in StagesOf(t), Stored(t, stage)
  PROVE  Stored(t, stage)'
  BY PersistedStays, QuarantineGrows DEF Stored

LEMMA CleaningStep ==
  ASSUME SettleInv, OperationsInTable, CleaningSound, SeedsAreUsed, [Next]_vars
  PROVE  CleaningSound'
<1>0. WriteInv /\ job \in [Writers -> Jobs] /\ Consumers \subseteq Writers
  BY DEF SettleInv, WorkInv, WriteInv, WriteTypes, Writers
<1> DEFINE Good(g) == /\ g \in [tx : Transactions, stage : Stages \cup {"writeBehind"}, matched : BOOLEAN]
                      /\ g.matched => g.stage # "writeBehind"
                      /\ g.stage # "writeBehind" => g.stage \in StagesOf(g.tx) /\ Persisted(g.tx, g.stage)
           Record(t, stage) == [tx |-> t, stage |-> stage, matched |-> FALSE]
           Certain(t, stage) == [tx |-> t, stage |-> stage, matched |-> TRUE]
<1>1. \A g \in cleaning : Good(g)
  BY DEF CleaningSound
<1>2. ASSUME NEW w \in Writers, NEW m \in job[w].batch, Completed(job[w], m)
      PROVE  Good(Record(m.tx, m.stage)) /\ Good(Certain(m.tx, m.stage)) /\ Good(Record(m.tx, "writeBehind"))
  <2>1. m.tx \in Transactions /\ m.stage \in StagesOf(m.tx) /\ Persisted(m.tx, m.stage)
    BY <1>2, CompletedIsPersisted
  <2>2. m.stage \in Stages
    BY <2>1, StagesAreTyped
  <2>3. m.stage # "writeBehind"
    BY <2>2 DEF Stages, Settled
  <2> QED BY <2>1, <2>2, <2>3
<1>3. ASSUME NEW g \in cleaning, g.stage # "writeBehind"
      PROVE  Good([g EXCEPT !.matched = TRUE])
  <2> DEFINE h == [g EXCEPT !.matched = TRUE]
  <2>1. h \in [tx : Transactions, stage : Stages \cup {"writeBehind"}, matched : BOOLEAN]
        /\ h.tx = g.tx /\ h.stage = g.stage
    BY <1>1, Zenon
  <2> HIDE DEF h
  <2>2. Good(h)
    BY <1>1, <1>3, <2>1
  <2> QED BY <2>2 DEF h
<1> HIDE DEF Good
<1>4. \A g \in cleaning' : Good(g)
  <2>1. CASE cleaning' = cleaning
    BY <1>1, <2>1
  <2>2. ASSUME NEW w \in Writers, FinishWrite(w) PROVE \A g \in cleaning' : Good(g)
    <3>1. /\ job[w].at = "cleanup"
          /\ \/ cleaning' = cleaning \cup {Record(job[w].message.tx, job[w].message.stage)}
             \/ cleaning' = cleaning \cup {Certain(job[w].message.tx, job[w].message.stage)}
      <4>1. CASE Synchronous(w) = TRUE
        BY <2>2, <4>1, Zenon DEF FinishWrite
      <4>2. CASE Synchronous(w) = FALSE
        BY <2>2, <4>2, Zenon DEF FinishWrite
      <4>3. Synchronous(w) \in {TRUE, FALSE}
        BY Zenon DEF Synchronous, At
      <4> QED BY <4>1, <4>2, <4>3, Zenon
    <3>2. job[w].message \in job[w].batch /\ Completed(job[w], job[w].message)
      BY <1>0, <3>1, MessageIsSound DEF Completed
    <3>3. /\ Good(Record(job[w].message.tx, job[w].message.stage))
          /\ Good(Certain(job[w].message.tx, job[w].message.stage))
      BY <1>2, <3>2, Zenon
    <3> HIDE DEF Record, Certain
    <3> QED BY <1>1, <3>1, <3>3, Zenon
  <2>3. ASSUME NEW c \in Consumers, ProcessMetadataAndEvents(c) PROVE \A g \in cleaning' : Good(g)
    <3>1. /\ job[c].at = "events"
          /\ cleaning' = cleaning \cup {Record(m.tx, m.stage) : m \in job[c].batch}
                                  \cup {Record(m.tx, "writeBehind") : m \in job[c].batch}
      BY <2>3 DEF ProcessMetadataAndEvents
    <3>2. \A m \in job[c].batch : Completed(job[c], m)
      BY <3>1 DEF Completed
    <3>3. \A m \in job[c].batch : Good(Record(m.tx, m.stage)) /\ Good(Record(m.tx, "writeBehind"))
      BY <1>0, <1>2, <3>2, Zenon
    <3> QED BY <1>1, <3>1, <3>3, Zenon
  <2>4. ASSUME NEW g \in cleaning, CompareBackup(g) \/ RemoveBackup(g) \/ DeleteWriteBehind(g)
        PROVE  \A n \in cleaning' : Good(n)
    <3>1. \/ cleaning' \subseteq cleaning
          \/ g.stage # "writeBehind" /\ cleaning' \subseteq cleaning \cup {[g EXCEPT !.matched = TRUE]}
      BY <2>4 DEF CompareBackup, RemoveBackup, DeleteWriteBehind
    <3> QED BY <1>1, <1>3, <3>1
  <2> QED BY <2>1, <2>2, <2>3, <2>4, CleaningSteps, Zenon
<1>5. ASSUME NEW g \in cleaning'
      PROVE  /\ g \in [tx : Transactions, stage : Stages \cup {"writeBehind"}, matched : BOOLEAN]
             /\ g.matched => g.stage # "writeBehind"
             /\ g.stage # "writeBehind" => g.stage \in StagesOf(g.tx) /\ Persisted(g.tx, g.stage)
  BY <1>4 DEF Good
<1>6. ASSUME NEW g \in cleaning', g.stage # "writeBehind", NEW t, NEW stage, t = g.tx, stage = g.stage
      PROVE  Persisted(t, stage)'
  <2>1. t \in Transactions /\ stage \in StagesOf(t) /\ Persisted(t, stage)
    BY <1>5, <1>6
  <2> QED BY <2>1, PersistedStays
<1>7. \A g \in cleaning' : g.stage # "writeBehind" => Persisted(g.tx, g.stage)'
  BY <1>6, Zenon
<1> QED BY <1>5, <1>7 DEF CleaningSound

\* What a step makes of one backup entry.
LEMMA BackupChanges ==
  ASSUME SettleInv, SeedsAreUsed, [Next]_vars, NEW t \in Transactions, backup'[t] # backup[t]
  PROVE  \/ \E h \in Handlers : Seed(h) /\ handler[h].at = "claimed" /\ handler[h].tx = t
                                /\ backup'[t].stage = handler[h].stage
         \/ \E h \in Handlers : RejectSeeded(h) /\ handler[h].at = "seeded" /\ handler[h].tx = t
                                /\ backup'[t] = NoEntry
         \/ \E h \in Handlers : ProcessBalanceOperations(h) /\ handler[h].at = "seeded" /\ handler[h].tx = t
                                /\ backup'[t].stage = backup[t].stage
         \/ \E h \in Handlers : /\ Build(h) /\ handler[h].at = "moved" /\ handler[h].tx = t
                                /\ h \notin Settlers => backup[t] # NoEntry /\ backup'[t].stage = backup[t].stage
         \/ \E g \in cleaning : g.matched /\ g.tx = t /\ backup'[t] = NoEntry
         \/ /\ QuarantinePoisonRecord(t) /\ backup'[t] = NoEntry
            /\ replay[t] # NoEntry /\ <<t, replay[t].stage>> \in quarantine'
<1>0. /\ WriteInv /\ backup \in [Transactions -> Entries] /\ handler \in [Handlers -> Requests]
  BY DEF SettleInv, WorkInv, WriteInv, WriteTypes
<1>1. ASSUME NEW h \in Handlers, Seed(h)
      PROVE  handler[h].at = "claimed" /\ handler[h].tx = t /\ backup'[t].stage = handler[h].stage
  <2>1. handler[h].at = "claimed" /\ backup' = [backup EXCEPT ![handler[h].tx] = Entry(handler[h].stage)]
    BY <1>1 DEF Seed, At
  <2> QED BY <1>0, <2>1 DEF Entry
<1>2. ASSUME NEW h \in Handlers, RejectSeeded(h)
      PROVE  handler[h].at = "seeded" /\ handler[h].tx = t /\ backup'[t] = NoEntry
  <2>1. handler[h].at = "seeded" /\ backup' = [backup EXCEPT ![handler[h].tx] = NoEntry]
    BY <1>2 DEF RejectSeeded, At
  <2> QED BY <1>0, <2>1
<1>3. ASSUME NEW h \in Handlers, ProcessBalanceOperations(h)
      PROVE  handler[h].at = "seeded" /\ handler[h].tx = t /\ backup'[t].stage = backup[t].stage
  <2>1. /\ handler[h].at = "seeded"
        /\ backup' = [backup EXCEPT ![handler[h].tx] = IF @ = NoEntry THEN Orphan ELSE [@ EXCEPT !.ran = TRUE]]
    BY <1>3 DEF ProcessBalanceOperations, At
  <2>2. handler[h].tx = t
    BY <1>0, <2>1
  <2>3. backup'[t] = IF backup[t] = NoEntry THEN Orphan ELSE [backup[t] EXCEPT !.ran = TRUE]
    BY <1>0, <2>1, <2>2
  <2>4. Orphan.stage = NoEntry.stage
    BY DEF Orphan, NoEntry
  <2>5. [backup[t] EXCEPT !.ran = TRUE].stage = backup[t].stage
    BY <1>0 DEF Entries
  <2> QED BY <2>1, <2>2, <2>3, <2>4, <2>5, Zenon
<1>4. ASSUME NEW h \in Handlers, Build(h)
      PROVE  /\ handler[h].at = "moved" /\ handler[h].tx = t
             /\ h \notin Settlers => backup[t] # NoEntry /\ backup'[t].stage = backup[t].stage
  <2>1. /\ handler[h].at = "moved"
        /\ \E e : backup' = [backup EXCEPT ![handler[h].tx] = e]
        /\ h \notin Settlers =>
             \E ops : backup' = [backup EXCEPT ![handler[h].tx] = IF @ = NoEntry THEN @ ELSE [@ EXCEPT !.operations = ops]]
    BY <1>4, Zenon DEF Build, At
  <2>2. handler[h].tx = t
    BY <1>0, <2>1
  <2>3. ASSUME h \notin Settlers
        PROVE  backup[t] # NoEntry /\ backup'[t].stage = backup[t].stage
    <3>1. PICK ops : backup' = [backup EXCEPT ![t] = IF @ = NoEntry THEN @ ELSE [@ EXCEPT !.operations = ops]]
      BY <2>1, <2>2, <2>3, Zenon
    <3>2. backup'[t] = IF backup[t] = NoEntry THEN backup[t] ELSE [backup[t] EXCEPT !.operations = ops]
      BY <1>0, <3>1
    <3>3. [backup[t] EXCEPT !.operations = ops].stage = backup[t].stage
      BY <1>0 DEF Entries
    <3> QED BY <3>2, <3>3
  <2> QED BY <2>1, <2>2, <2>3
<1>5. ASSUME NEW g \in cleaning, RemoveBackup(g)
      PROVE  g.matched /\ g.tx = t /\ backup'[t] = NoEntry
  <2>1. g.matched /\ backup' = [backup EXCEPT ![g.tx] = NoEntry]
    BY <1>5 DEF RemoveBackup
  <2> QED BY <1>0, <2>1
<1>6. ASSUME NEW u \in Transactions, QuarantinePoisonRecord(u)
      PROVE  u = t /\ backup'[t] = NoEntry /\ replay[t] # NoEntry /\ <<t, replay[t].stage>> \in quarantine'
  <2>1. /\ replay[u] # NoEntry
        /\ \/ backup' = backup
           \/ /\ quarantine' = quarantine \cup {<<u, replay[u].stage>>}
              /\ backup' = [backup EXCEPT ![u] = NoEntry]
    BY <1>6 DEF QuarantinePoisonRecord
  <2> QED BY <1>0, <2>1
<1> QED BY <1>1, <1>2, <1>3, <1>4, <1>5, <1>6, BackupSteps, Zenon

\* Only the seed makes a request seeded.
LEMMA SeedSteps ==
  ASSUME WriteInv, SeedsAreUsed, [Next]_vars, NEW h \in Handlers,
         handler'[h].at = "seeded", handler[h].at # "seeded"
  PROVE  Seed(h)
<1>0. handler \in [Handlers -> Requests]
  BY DEF WriteInv, WriteTypes
<1>1. ASSUME NEW g, NEW to, Goto(g, to), to # "seeded" PROVE FALSE
  BY <1>0, <1>1 DEF Goto, Requests
<1>2. ASSUME NEW g \in Handlers, StartRequest(g) PROVE FALSE
  <2>1. \/ Goto(g, "done") \/ Goto(g, "claimed")
        \/ \E r : handler' = [handler EXCEPT ![g] = r] /\ r.at # "seeded"
    <3>1. CASE GetTransaction(g)
      BY <3>1 DEF GetTransaction
    <3>2. CASE AcquireLock(g)
      BY <3>2 DEF AcquireLock
    <3>3. CASE RevertTransaction(g)
      <4>1. [at |-> "checked", tx |-> g, stage |-> "REVERT", seen |-> None].at # "seeded"
        OBVIOUS
      <4> QED BY <3>3, <4>1 DEF RevertTransaction
    <3>4. CASE CreateOrCheckTransactionIdempotency(g)
      <4>1. [at |-> "claimed", tx |-> g, stage |-> StageOf(g), seen |-> None].at # "seeded"
        OBVIOUS
      <4> QED BY <3>4, <4>1, Zenon DEF CreateOrCheckTransactionIdempotency
    <3> QED BY <1>2, <3>1, <3>2, <3>3, <3>4, Zenon DEF StartRequest
  <2> QED BY <1>0, <1>1, <2>1, Zenon
<1>3. ASSUME NEW g \in Handlers,
             \/ RejectClaimed(g) \/ RejectSeeded(g) \/ ProcessBalanceOperations(g) \/ Build(g)
             \/ WriteTransactionAsync(g) \/ WriteTransactionSync(g) \/ FinishRequest(g)
             \/ UpdateTransactionStatus(g) \/ FailBuild(g) \/ Crash(g) \/ WriteTransactionFallback(g)
      PROVE  FALSE
  <2>1. CASE RejectClaimed(g) \/ RejectSeeded(g) \/ ProcessBalanceOperations(g) \/ Build(g)
    <3>1. \E to : Goto(g, to) /\ to # "seeded"
      BY <2>1 DEF RejectClaimed, RejectSeeded, ProcessBalanceOperations, Build
    <3> QED BY <1>1, <3>1, Zenon
  <2>2. CASE WriteTransactionAsync(g) \/ WriteTransactionSync(g) \/ WriteTransactionFallback(g)
    <3>1. \E to : Goto(g, to) /\ to # "seeded"
      BY <2>2 DEF WriteTransactionAsync, WriteTransactionSync, WriteTransactionFallback
    <3> QED BY <1>1, <3>1, Zenon
  <2>3. CASE FinishRequest(g) \/ UpdateTransactionStatus(g) \/ FailBuild(g) \/ Crash(g)
    <3>1. \E to : Goto(g, to) /\ to # "seeded"
      BY <2>3 DEF FinishRequest, UpdateTransactionStatus, FailBuild, Crash
    <3> QED BY <1>1, <3>1, Zenon
  <2> QED BY <1>3, <2>1, <2>2, <2>3, Zenon
<1>4. ASSUME NEW g \in Handlers, Seed(g) PROVE g = h
  BY <1>0, <1>4 DEF Seed, Goto
<1>5. ASSUME NEW w \in Writers, WriterStep(w) \/ HandleFailure(w) PROVE FALSE
  <2>1. FinishWrite(w) \/ HandleFailure(w)
    BY <1>5 DEF WriterStep, CreateOrUpdateTransaction, CreateOperations
  <2>2. handler' = handler \/ Goto(w, "written") \/ Goto(w, "done")
    BY <2>1, Zenon DEF FinishWrite, HandleFailure
  <2> QED BY <1>1, <2>2, Zenon
<1>6. \/ \E g \in Handlers : \/ StartRequest(g) \/ RequestStep(g)
                             \/ FailBuild(g) \/ Crash(g) \/ WriteTransactionFallback(g)
      \/ \E w \in Writers : WriterStep(w) \/ HandleFailure(w)
  BY Zenon DEF Next, vars, redis, BulkStep, CleanupStep, Deliver, CollectBatch, AtomicBulkInsert,
         PerformBulkStatusUpdate, ProcessMetadataAndEvents, ProcessIndividually, FailBulk, Redeliver,
         CompareBackup, RemoveBackup, DeleteWriteBehind, KeyExpires, LockExpires, ReadMessage,
         ProcessMessage, AbandonReplay, QuarantinePoisonRecord
<1>7. ASSUME NEW g \in Handlers, \/ StartRequest(g) \/ RequestStep(g)
                                 \/ FailBuild(g) \/ Crash(g) \/ WriteTransactionFallback(g)
      PROVE  Seed(h)
  <2>1. Seed(g)
    BY <1>2, <1>3, <1>7, Zenon DEF RequestStep
  <2> QED BY <1>4, <2>1, Zenon
<1> QED BY <1>5, <1>6, <1>7, Zenon

\* The requests that write the backup entry of a transaction before its hold
\* or creation is known are the create request itself.
LEMMA EarlyRequests ==
  ASSUME WriteInv, NEW t \in Transactions, NEW h \in Handlers, handler[h].tx = t,
         handler[h].at \notin {"idle", "done"}, t \notin Holds \/ ~Begun(t)
  PROVE  h = t /\ handler[h].stage = StageOf(t)
<1>1. h \notin Settlers
  BY DEF WriteInv, RequestsSound
<1> QED BY <1>1, RequestKinds, Zenon

LEMMA EntriesKeptStep ==
  ASSUME DurableInv, SeedsAreUsed, [Next]_vars
  PROVE  EntriesKept'
<1> SUFFICES ASSUME NEW t \in Transactions
             PROVE  /\ handler'[t].at = "seeded" => backup'[t].stage = StageOf(t)
                    /\ t \notin Holds => /\ backup'[t] # NoEntry => backup'[t].stage = StageOf(t)
                                         /\ replay'[t] # NoEntry => replay'[t].stage = StageOf(t)
  BY Zenon DEF EntriesKept
<1>0. /\ SettleInv /\ WriteInv /\ CleaningSound /\ handler \in [Handlers -> Requests] /\ t \in Handlers /\ t \notin Settlers
      /\ backup \in [Transactions -> Entries] /\ replay \in [Transactions -> Entries]
      /\ StageOf(t) # None /\ NoEntry.stage = None
  BY StagesAreTyped, RequestsAssumption, Zenon
     DEF DurableInv, SettleInv, WorkInv, WriteInv, WriteTypes, Handlers, Stages, Settled, None, NoEntry
<1>1. /\ handler[t].at = "seeded" => backup[t].stage = StageOf(t)
      /\ t \notin Holds => /\ backup[t] # NoEntry => backup[t].stage = StageOf(t)
                           /\ replay[t] # NoEntry => replay[t].stage = StageOf(t)
  BY DEF DurableInv, EntriesKept
<1>2. ASSUME handler[t].at = "seeded", handler'[t].at = "seeded"
      PROVE  backup'[t].stage = StageOf(t)
  <2> SUFFICES ASSUME backup'[t] # backup[t] PROVE FALSE
    BY <1>1, <1>2
  <2>1. ~Begun(t)
    BY <1>2 DEF Begun
  <2>2. ~\E g \in cleaning : g.matched /\ g.tx = t
    <3>1. ASSUME NEW g \in cleaning, g.matched, g.tx = t PROVE FALSE
      <4>1. g.stage \in StagesOf(t) /\ Persisted(t, g.stage)
        BY <1>0, <3>1, Zenon DEF CleaningSound
      <4> QED BY <1>0, <2>1, <4>1, PersistedIsBegun, Zenon
    <3> QED BY <3>1
  <2>3. replay[t] = NoEntry
    BY <1>0, <2>1 DEF WriteInv, ReplaySound
  <2>4. PICK h \in Handlers : /\ Seed(h) \/ RejectSeeded(h) \/ ProcessBalanceOperations(h) \/ Build(h)
                              /\ handler[h].at \in {"claimed", "seeded", "moved"} /\ handler[h].tx = t
    BY <1>0, <2>2, <2>3, BackupChanges, Zenon
  <2>5. h = t
    BY <1>0, <2>1, <2>4, EarlyRequests, Zenon
  <2>6. RejectSeeded(t) \/ ProcessBalanceOperations(t)
    BY <1>2, <2>4, <2>5, Zenon DEF Seed, Build, At
  <2>7. Goto(t, "done") \/ Goto(t, "moved")
    BY <2>6 DEF RejectSeeded, ProcessBalanceOperations
  <2>8. handler'[t].at # "seeded"
    BY <1>0, <2>7, Zenon DEF Goto, Requests
  <2> QED BY <1>2, <2>8, Zenon
<1>3. ASSUME handler[t].at # "seeded", handler'[t].at = "seeded"
      PROVE  backup'[t].stage = StageOf(t)
  <2>1. Seed(t)
    BY <1>0, <1>3, SeedSteps, Zenon
  <2>2. handler[t].at = "claimed" /\ backup' = [backup EXCEPT ![handler[t].tx] = Entry(handler[t].stage)]
    BY <2>1, Zenon DEF Seed, At
  <2>3. handler[t].tx = t /\ handler[t].stage = StageOf(t)
    BY <1>0, <2>2, RequestKinds, Zenon
  <2> QED BY <1>0, <2>2, <2>3, Zenon DEF Entry
<1>4. ASSUME t \notin Holds, backup'[t] # NoEntry
      PROVE  backup'[t].stage = StageOf(t)
  <2>1. CASE backup'[t] = backup[t]
    BY <1>1, <1>4, <2>1, Zenon
  <2>2. CASE backup'[t] # backup[t]
    <3>1. PICK h \in Handlers :
            /\ handler[h].tx = t /\ handler[h].at \in {"claimed", "seeded", "moved"}
            /\ \/ backup'[t].stage = handler[h].stage
               \/ handler[h].at = "seeded" /\ backup'[t].stage = backup[t].stage
               \/ h \notin Settlers => backup[t] # NoEntry /\ backup'[t].stage = backup[t].stage
      BY <1>0, <1>4, <2>2, BackupChanges, Zenon
    <3>2. h = t /\ handler[h].stage = StageOf(t)
      BY <1>0, <1>4, <3>1, EarlyRequests, Zenon
    <3> QED BY <1>0, <1>1, <1>4, <3>1, <3>2, Zenon
  <2> QED BY <2>1, <2>2
<1>5. ASSUME t \notin Holds, replay'[t] # NoEntry
      PROVE  replay'[t].stage = StageOf(t)
  <2>1. CASE replay' = replay
    BY <1>1, <1>5, <2>1, Zenon
  <2>2. CASE replay' # replay
    <3>1. PICK u \in Transactions : \E e : /\ replay' = [replay EXCEPT ![u] = e]
                                           /\ e = NoEntry \/ (e = backup[u] /\ e # NoEntry)
      BY <2>2, ReplaySteps, Zenon DEF ReadMessage, ProcessMessage, AbandonReplay, QuarantinePoisonRecord
    <3> QED BY <1>0, <1>1, <1>5, <3>1, Zenon
  <2> QED BY <2>1, <2>2, Zenon
<1> QED BY <1>2, <1>3, <1>4, <1>5, Zenon

LEMMA StagesMovedStep ==
  ASSUME DurableInv, [Next]_vars
  PROVE  StagesMoved'
<1>0. WriteInv /\ StagesMoved /\ moved \in [Transactions -> [Stages -> Nat]]
  BY DEF DurableInv, SettleInv, WorkInv, WriteInv, WriteTypes
<1>1. CASE moved' = moved
  BY <1>0, <1>1, Zenon DEF StagesMoved
<1>2. CASE moved' # moved
  <2>1. PICK h \in Handlers : RejectSeeded(h) \/ ProcessBalanceOperations(h)
    BY <1>2, MovedSteps
  <2>2. PICK n \in {0, 1} : moved' = [moved EXCEPT ![handler[h].tx][handler[h].stage] = @ + n]
    BY <2>1, Zenon DEF RejectSeeded, ProcessBalanceOperations
  <2>3. handler[h].at = "seeded"
    BY <2>1 DEF RejectSeeded, ProcessBalanceOperations, At
  <2>4. PICK u \in Transactions, place \in Stages : u = handler[h].tx /\ place = handler[h].stage /\ place \in StagesOf(u)
    BY <1>0, <2>3, RequestKinds, Zenon
  <2>5. moved' = [moved EXCEPT ![u][place] = @ + n]
    BY <2>2, <2>4
  <2> QED BY <1>0, <2>4, <2>5, Zenon DEF StagesMoved
<1> QED BY <1>1, <1>2

LEMMA ScriptKeepsStage ==
  ASSUME WriteInv, NEW h \in Handlers, ProcessBalanceOperations(h), NEW t \in Transactions, t = handler[h].tx
  PROVE  backup'[t].stage = backup[t].stage
<1>0. backup \in [Transactions -> Entries]
  BY DEF WriteInv, WriteTypes
<1>1. backup'[t] = IF backup[t] = NoEntry THEN Orphan ELSE [backup[t] EXCEPT !.ran = TRUE]
  BY <1>0, Zenon DEF ProcessBalanceOperations
<1>2. Orphan.stage = NoEntry.stage
  BY DEF Orphan, NoEntry
<1>3. [backup[t] EXCEPT !.ran = TRUE].stage = backup[t].stage
  BY <1>0 DEF Entries
<1> QED BY <1>1, <1>2, <1>3, Zenon

\* Balances move in the script of a request that hears of it.
LEMMA NewMoves ==
  ASSUME WriteInv, SeedsAreUsed, RepliesArrive, SettlementsFinish, [Next]_vars,
         NEW t \in Transactions, NEW stage \in Stages, moved'[t][stage] > 0, ~(moved[t][stage] > 0)
  PROVE  \E h \in Handlers : /\ ProcessBalanceOperations(h) /\ handler[h].at = "seeded"
                             /\ handler[h].tx = t /\ handler[h].stage = stage
                             /\ stage \notin Settled => h = t
                             /\ stage \in Settled => h \in Settlers
<1>0. moved \in [Transactions -> [Stages -> Nat]]
  BY DEF WriteInv, WriteTypes
<1>1. moved' # moved
  OBVIOUS
<1>2. PICK h \in Handlers : RejectSeeded(h) \/ ProcessBalanceOperations(h)
  BY <1>1, MovedSteps, Zenon
<1>3. handler[h].at = "seeded"
  BY <1>2, Zenon DEF RejectSeeded, ProcessBalanceOperations, At
<1>4. PICK n \in {0, 1} : /\ moved' = [moved EXCEPT ![handler[h].tx][handler[h].stage] = @ + n]
                          /\ <<"reply", handler[h].stage>> \notin Faults /\ ~ProcessBalanceOperations(h) => n = 0
  <2>1. CASE ProcessBalanceOperations(h)
    BY <2>1 DEF ProcessBalanceOperations
  <2>2. CASE RejectSeeded(h) /\ ~ProcessBalanceOperations(h)
    BY <2>2, Zenon DEF RejectSeeded
  <2> QED BY <1>2, <2>1, <2>2, Zenon
<1>5. PICK u \in Transactions, place \in Stages : u = handler[h].tx /\ place = handler[h].stage
  BY <1>3, RequestKinds, Zenon
<1>6. u = t /\ place = stage /\ n # 0
  BY <1>0, <1>4, <1>5
<1>7. <<"reply", stage>> \notin Faults
  BY Zenon DEF RepliesArrive, SettlementsFinish, Uninterrupted
<1>8. ProcessBalanceOperations(h)
  BY <1>4, <1>5, <1>6, <1>7, Zenon
<1>9. (stage \notin Settled => h = t) /\ (stage \in Settled => h \in Settlers)
  BY <1>3, <1>5, <1>6, RequestKinds, Zenon
<1> QED BY <1>3, <1>5, <1>6, <1>8, <1>9, Zenon

LEMMA CreatesKeptStep ==
  ASSUME DurableInv, SeedsAreUsed, RepliesArrive, SettlementsFinish, [Next]_vars,
         NEW t \in Transactions \ Holds, moved'[t][StageOf(t)] > 0
  PROVE  backup'[t].stage = StageOf(t) \/ Stored(t, StageOf(t))'
<1>0. /\ SettleInv /\ WriteInv /\ CleaningSound /\ MovesOnce
      /\ StageOf(t) \in Stages /\ StageOf(t) \in StagesOf(t) /\ StagesOf(t) = {StageOf(t)}
      /\ moved \in [Transactions -> [Stages -> Nat]]
  BY StagesAreTyped, Zenon DEF DurableInv, SettleInv, WorkInv, WriteInv, WriteTypes
<1>1. CASE moved[t][StageOf(t)] > 0
  <2>1. CASE Stored(t, StageOf(t))
    BY <1>0, <2>1, StoredStays
  <2>2. CASE backup[t].stage = StageOf(t) /\ backup'[t] # backup[t]
    <3>1. ASSUME NEW h \in Handlers, handler[h].tx = t, handler[h].at \in {"claimed", "seeded"} PROVE FALSE
      <4>1. h = t
        BY <1>0, <3>1, EarlyRequests, Zenon
      <4> QED BY <1>0, <1>1, <3>1, <4>1 DEF MovesOnce, Applied
    <3>2. ASSUME NEW g \in cleaning, g.matched, g.tx = t PROVE Stored(t, StageOf(t))'
      <4>1. Persisted(t, StageOf(t))
        BY <1>0, <3>2, Zenon DEF CleaningSound
      <4> QED BY <1>0, <4>1, StoredStays, Zenon DEF Stored
    <3>3. ASSUME NEW h \in Handlers, handler[h].tx = t, handler[h].at = "moved" PROVE h \notin Settlers
      BY <1>0, <3>3, RequestsAssumption, Zenon DEF WriteInv, RequestsSound
    <3>4. replay[t] # NoEntry => replay[t].stage = StageOf(t)
      BY DEF DurableInv, EntriesKept
    <3>5. <<t, StageOf(t)>> \in quarantine' => Stored(t, StageOf(t))'
      BY DEF Stored
    <3> QED BY <1>0, <2>2, <3>1, <3>2, <3>3, <3>4, <3>5, BackupChanges, Zenon
  <2> QED BY <1>1, <2>1, <2>2, Zenon DEF DurableInv, MovesKept
<1>2. CASE ~(moved[t][StageOf(t)] > 0)
  <2>1. PICK h \in Handlers : /\ ProcessBalanceOperations(h) /\ handler[h].at = "seeded" /\ handler[h].tx = t
                              /\ StageOf(t) \notin Settled => h = t
    BY <1>0, <1>2, NewMoves
  <2>2. h = t
    BY <2>1, StagesAreTyped, Zenon
  <2>3. backup[t].stage = StageOf(t)
    BY <2>1, <2>2, Zenon DEF DurableInv, EntriesKept
  <2> QED BY <1>0, <2>1, <2>3, ScriptKeepsStage, Zenon
<1> QED BY <1>1, <1>2, Zenon

LEMMA BuiltGoesOn ==
  ASSUME WriteInv, SeedsAreUsed, HoldsAreSafe, [Next]_vars, NEW t \in Holds,
         handler[t].at = "built", handler'[t] # handler[t]
  PROVE  Persisting(t, "PENDING")'
<1>0. /\ t \in Transactions /\ t \in Handlers /\ t \in Writers /\ t \notin Settlers /\ job \in [Writers -> Jobs]
      /\ handler[t].tx = t /\ handler[t].stage = "PENDING" /\ handler[t].at \in Applied
  BY RequestsAssumption, RequestKinds, StagesAreTyped, ZenonT(30)
     DEF WriteInv, WriteTypes, Handlers, Writers, Transactions, Applied
<1>1. WriteTransactionAsync(t) \/ WriteTransactionSync(t) \/ WriteTransactionFallback(t)
  <2>1. ~FinishWrite(t) /\ ~HandleFailure(t)
    <3>1. job[t].at = None
      BY <1>0 DEF WriteInv, MessagesSound, Writing
    <3> QED BY <3>1, Zenon DEF FinishWrite, HandleFailure, None
  <2>2. ~Crash(t)
    BY <1>0, Zenon DEF Crash, Fault, HoldsAreSafe
  <2>3. ~Build(t) /\ ~FailBuild(t) /\ ~FinishRequest(t)
    BY DEF Build, FailBuild, FinishRequest, At
  <2> QED BY <1>0, <2>1, <2>2, <2>3, AppliedSteps, Zenon
<1>2. Outgoing(t).tx = t /\ Outgoing(t).stage = "PENDING"
  BY <1>0, OutgoingSound, ZenonT(30) DEF Sending
<1>3. Outgoing(t) \in queue' \/ Outgoing(t) \in job'[t].batch
  <2>1. CASE WriteTransactionAsync(t)
    BY <2>1, Zenon DEF WriteTransactionAsync
  <2>2. CASE WriteTransactionSync(t) \/ WriteTransactionFallback(t)
    <3>1. job' = [job EXCEPT ![t] = Individual(Outgoing(t))]
      BY <2>2, ZenonT(30) DEF WriteTransactionSync, WriteTransactionFallback
    <3> QED BY <1>0, <3>1 DEF Individual
  <2> QED BY <1>1, <2>1, <2>2, Zenon
<1> QED BY <1>0, <1>2, <1>3, Zenon DEF Persisting

LEMMA SafeStays ==
  ASSUME DurableInv, SeedsAreUsed, HoldsAreSafe, [Next]_vars, NEW t \in Holds, Safe(t)
  PROVE  Safe(t)'
<1>0. SettleInv /\ WriteInv /\ OperationsInTable /\ t \in Transactions /\ "PENDING" \in StagesOf(t)
  BY StagesAreTyped, Zenon DEF DurableInv, SettleInv, WorkInv, Transactions
<1>1. CASE handler[t].at = "built"
  BY <1>0, <1>1, BuiltGoesOn, Zenon DEF Safe
<1>2. CASE Persisting(t, "PENDING")
  <2>1. \/ Persisting(t, "PENDING")'
        \/ \E w \in Writers : \E m \in job[w].batch : m.tx = t /\ m.stage = "PENDING" /\ Completed(job[w], m)
    BY <1>0, <1>2, PersistingStays DEF HoldsAreSafe
  <2>2. CASE \E w \in Writers : \E m \in job[w].batch : m.tx = t /\ m.stage = "PENDING" /\ Completed(job[w], m)
    <3>1. Persisted(t, "PENDING")
      BY <1>0, <2>2, CompletedIsPersisted, Zenon
    <3> QED BY <1>0, <3>1, PersistedStays, Zenon DEF Safe, Stored
  <2> QED BY <2>1, <2>2, Zenon DEF Safe
<1>3. CASE Stored(t, "PENDING")
  BY <1>0, <1>3, StoredStays, Zenon DEF Safe
<1> QED BY <1>1, <1>2, <1>3, Zenon DEF Safe

\* A hold that only its backup entry knows of stays so until it is safe.
LEMMA UnseenStays ==
  ASSUME DurableInv, SeedsAreUsed, SettlementsFinish, HoldsAreSafe, [Next]_vars, NEW t \in Holds,
         moved[t]["PENDING"] > 0, Unseen(t), ~Safe(t)'
  PROVE  Unseen(t)'
<1>0. /\ SettleInv /\ WriteInv /\ CleaningSound /\ MovesOnce /\ t \in Transactions /\ t \in Handlers /\ t \notin Settlers
      /\ StageOf(t) = "PENDING" /\ StagesOf(t) = {"PENDING"} \cup Settled
      /\ moved \in [Transactions -> [Stages -> Nat]] /\ handler \in [Handlers -> Requests]
      /\ backup \in [Transactions -> Entries] /\ replay \in [Transactions -> Entries]
      /\ row \in [Transactions -> Statuses] /\ Settlers \subseteq Handlers /\ Consumers \subseteq Writers
  BY StagesAreTyped, RequestsAssumption, ZenonT(30)
     DEF DurableInv, SettleInv, WorkInv, WriteInv, WriteTypes, Handlers, Transactions, Writers
<1>1. /\ backup[t].stage = "PENDING" /\ row[t] = None /\ cache[t] = None /\ Settlements(t) = 0
      /\ replay[t] # NoEntry => replay[t].stage = "PENDING"
      /\ \A s \in Settlers : handler[s].tx = t => handler[s].at \in {"idle", "done"}
  BY Zenon DEF Unseen
<1>2. ~Persisting(t, "PENDING") /\ handler'[t].at # "built"
  <2>1. ~Safe(t)
    BY SafeStays
  <2> QED BY <2>1, Zenon DEF Safe
<1>3. \A w \in Writers : \A m \in job[w].batch : m.tx # t
  <2>1. ASSUME NEW w \in Writers, NEW m \in job[w].batch, m.tx = t PROVE FALSE
    <3>1. m.stage \in StagesOf(t) /\ moved[t][m.stage] > 0
      BY <1>0, <2>1, BatchIsSound, ZenonT(30) DEF Sound
    <3>2. m.stage \in Settled
      BY <1>0, <1>2, <2>1, <3>1, ZenonT(30) DEF Persisting
    <3> QED BY <1>0, <1>1, <3>1, <3>2, SettlementsTyped DEF Settlements, Settled
  <2> QED BY <2>1, Zenon
<1>4. ASSUME NEW s \in Settlers, handler'[s].tx = t
      PROVE  handler'[s].at \in {"idle", "done"}
  <2>1. CASE handler'[s] = handler[s]
    BY <1>1, <1>4, <2>1, Zenon
  <2>2. CASE GetTransaction(s)
    <3>1. PICK u \in Holds, stage \in Settled :
            /\ (IF cache[u] # None THEN cache[u] ELSE row[u]) # None
            /\ handler' = [handler EXCEPT ![s] = [at |-> "read", tx |-> u, stage |-> stage,
                                                  seen |-> IF cache[u] # None THEN cache[u] ELSE row[u]]]
      BY <2>2, Zenon DEF GetTransaction
    <3>2. handler'[s].tx = u
      BY <1>0, <3>1, Zenon
    <3>3. u = t
      BY <1>4, <3>2
    <3> QED BY <1>1, <3>1, <3>3, Zenon
  <2>3. CASE handler'[s] # handler[s] /\ ~GetTransaction(s)
    <3>1. handler'[s].tx = handler[s].tx /\ Continues(s, handler'[s].at)
      BY <1>0, <2>3, RequestChanges, RequestsAssumption, ZenonT(30)
    <3>2. handler[s].at \in {"idle", "done"}
      BY <1>1, <1>4, <3>1, ZenonT(30)
    <3> QED BY <3>1, <3>2 DEF Continues, Follows
  <2> QED BY <2>1, <2>2, <2>3, Zenon
<1>5. Settlements(t)' = 0
  <2>1. CASE Settlements(t)' = Settlements(t)
    BY <1>1, <2>1, Zenon
  <2>2. CASE Settlements(t)' # Settlements(t)
    <3>1. \E s \in Settlers : handler[s].at = "seeded" /\ handler[s].tx = t
      BY <1>0, <2>2, SettlementSteps
    <3> QED BY <1>1, <3>1, Zenon
  <2> QED BY <2>1, <2>2, Zenon
<1>6. row'[t] = None
  <2>1. CASE row' = row
    BY <1>1, <2>1, Zenon
  <2>2. ASSUME NEW s \in Settlers, UpdateTransactionStatus(s) PROVE row'[t] = None
    <3>1. row' = [row EXCEPT ![handler[s].tx] = IF row[handler[s].tx] = None THEN row[handler[s].tx] ELSE handler[s].stage]
      BY <2>2, Zenon DEF UpdateTransactionStatus
    <3> QED BY <1>0, <1>1, <3>1, Zenon
  <2>3. ASSUME NEW c \in Consumers, AtomicBulkInsert(c) PROVE row'[t] = None
    <3>1. row' = row \/ row' = Inserted(job[c].batch \ StatusTransitions(job[c].batch))
      BY <2>3 DEF AtomicBulkInsert
    <3>2. \A m \in job[c].batch : m.tx # t
      BY <1>0, <1>3, Zenon
    <3> QED BY <1>0, <1>1, <3>1, <3>2, Zenon DEF Inserted
  <2>4. ASSUME NEW c \in Consumers, PerformBulkStatusUpdate(c) PROVE row'[t] = None
    BY <1>0, <1>1, <2>4, Zenon DEF PerformBulkStatusUpdate, Updated
  <2>5. ASSUME NEW w \in Writers, CreateOrUpdateTransaction(w) PROVE row'[t] = None
    <3>1. job[w].at = "row" /\ \E new : row' = [row EXCEPT ![job[w].message.tx] = new]
      BY <2>5, Zenon DEF CreateOrUpdateTransaction
    <3>2. job[w].message \in job[w].batch
      BY <1>0, <3>1, MessageIsSound, Zenon
    <3>3. job[w].message.tx # t
      BY <1>3, <3>2, Zenon
    <3> QED BY <1>0, <1>1, <3>1, <3>3, Zenon
  <2> QED BY <2>1, <2>2, <2>3, <2>4, <2>5, RowSteps, Zenon
<1>7. ~Build(t)
  <2> SUFFICES ASSUME Build(t) PROVE FALSE
    OBVIOUS
  <2>1. Goto(t, "built")
    BY DEF Build
  <2>2. handler'[t].at = "built"
    BY <1>0, <2>1, Zenon DEF Goto, Requests
  <2> QED BY <1>2, <2>2, Zenon
<1>8. cache'[t] = None
  <2>1. CASE cache' = cache
    BY <1>1, <2>1, Zenon
  <2>2. CASE cache' # cache
    <3>1. ~\E s \in Settlers : handler[s].at = "written" /\ handler[s].tx = t
      BY <1>1
    <3> QED BY <1>0, <1>1, <1>7, <2>2, <3>1, CacheChanges, Zenon
  <2> QED BY <2>1, <2>2, Zenon
<1>9. backup'[t].stage = "PENDING"
  <2> SUFFICES ASSUME backup'[t] # backup[t] PROVE FALSE
    BY <1>1, Zenon
  <2>1. ASSUME NEW h \in Handlers, handler[h].tx = t, handler[h].at \in {"claimed", "seeded", "moved"}
        PROVE  h = t /\ handler[h].at = "moved"
    <3>1. h = t
      BY <1>0, <1>1, <2>1, RequestKinds, Zenon
    <3>2. moved[t]["PENDING"] <= IF handler[t].at \in Applied \cup {"done"} THEN 1 ELSE 0
      BY <1>0, Zenon DEF MovesOnce
    <3>3. moved[t]["PENDING"] \in Nat
      BY <1>0, SettlementsTyped, Zenon
    <3>4. handler[t].at \notin {"claimed", "seeded"}
      BY <3>2, <3>3 DEF Applied
    <3> QED BY <2>1, <3>1, <3>4, Zenon
  <2>2. ASSUME NEW g \in cleaning, g.matched, g.tx = t PROVE FALSE
    <3>1. g.stage \in StagesOf(t) /\ Persisted(t, g.stage)
      BY <1>0, <2>2, Zenon DEF CleaningSound
    <3> QED BY <1>0, <1>1, <3>1, PersistedIsBegun, Zenon
  <2>3. <<t, "PENDING">> \notin quarantine'
    BY Zenon DEF Safe, Stored
  <2> QED BY <1>0, <1>1, <1>7, <2>1, <2>2, <2>3, BackupChanges, ZenonT(30)
<1>10. replay'[t] # NoEntry => replay'[t].stage = "PENDING"
  <2>1. CASE replay' = replay
    BY <1>1, <2>1, Zenon
  <2>2. CASE replay' # replay
    <3>1. PICK u \in Transactions : \E e : /\ replay' = [replay EXCEPT ![u] = e]
                                           /\ e = NoEntry \/ (e = backup[u] /\ e # NoEntry)
      BY <2>2, ReplaySteps, ZenonT(30) DEF ReadMessage, ProcessMessage, AbandonReplay, QuarantinePoisonRecord
    <3> QED BY <1>0, <1>1, <3>1, Zenon
  <2> QED BY <2>1, <2>2, Zenon
<1> QED BY <1>4, <1>5, <1>6, <1>8, <1>9, <1>10, Zenon DEF Unseen

LEMMA HoldsKeptStep ==
  ASSUME DurableInv, SeedsAreUsed, RepliesArrive, SettlementsFinish, HoldsAreSafe, [Next]_vars,
         NEW t \in Holds, moved'[t]["PENDING"] > 0
  PROVE  Safe(t)' \/ Unseen(t)'
<1>0. /\ SettleInv /\ WriteInv /\ t \in Transactions /\ t \in Handlers /\ t \notin Settlers
      /\ StageOf(t) = "PENDING" /\ "PENDING" \in Stages /\ "PENDING" \notin Settled /\ Settled \subseteq Stages
      /\ moved \in [Transactions -> [Stages -> Nat]] /\ handler \in [Handlers -> Requests]
      /\ Settlers \subseteq Handlers
  BY StagesAreTyped, RequestsAssumption, ZenonT(30)
     DEF DurableInv, SettleInv, WorkInv, WriteInv, WriteTypes, Handlers, Transactions, Stages, Settled
<1>1. CASE moved[t]["PENDING"] > 0
  <2>1. Safe(t) \/ Unseen(t)
    BY <1>0, <1>1, Zenon DEF DurableInv, MovesKept
  <2> QED BY <1>1, <2>1, SafeStays, UnseenStays, ZenonT(30)
<1>2. CASE ~(moved[t]["PENDING"] > 0)
  <2>1. ProcessBalanceOperations(t) /\ handler[t].at = "seeded"
    BY <1>0, <1>2, NewMoves
  <2>2. handler[t].tx = t /\ handler[t].stage = "PENDING" /\ ~Begun(t)
    BY <1>0, <2>1, RequestKinds, Zenon DEF Begun
  <2>3. /\ moved' = [moved EXCEPT ![t]["PENDING"] = @ + 1] /\ handler' = [handler EXCEPT ![t].at = "moved"]
        /\ row' = row /\ cache' = cache /\ replay' = replay
    BY <2>1, <2>2, Zenon DEF ProcessBalanceOperations, Goto, postgres
  <2>4. row[t] = None /\ cache[t] = None /\ replay[t] = NoEntry
    BY <1>0, <2>2 DEF WriteInv, TablesSound, ReplaySound
  <2>5. backup'[t].stage = "PENDING"
    BY <1>0, <2>1, <2>2, ScriptKeepsStage, Zenon DEF DurableInv, EntriesKept
  <2>6. Settlements(t)' = 0
    <3>1. Settlements(t) = 0
      BY <1>0, <2>2, SettlementsTyped DEF SettleInv, LocksSound
    <3>2. moved'[t]["APPROVED"] = moved[t]["APPROVED"] /\ moved'[t]["CANCELED"] = moved[t]["CANCELED"]
      BY <1>0, <2>3, Zenon DEF Settled
    <3> QED BY <3>1, <3>2, Zenon DEF Settlements
  <2>7. \A s \in Settlers : handler[s].tx = t => handler[s].at \in {"idle", "done"}
    BY <1>0, <2>2 DEF WriteInv, RequestsSound
  <2>8. \A s \in Settlers : handler'[s] = handler[s]
    BY <1>0, <2>3
  <2>9. Unseen(t)'
    BY <2>3, <2>4, <2>5, <2>6, <2>7, <2>8, ZenonT(30) DEF Unseen
  <2> QED BY <2>9, Zenon
<1> QED BY <1>1, <1>2, ZenonT(30)

LEMMA SettlementsKeptStep ==
  ASSUME DurableInv, SeedsAreUsed, RepliesArrive, SettlementsFinish, [Next]_vars,
         NEW t \in Holds, NEW stage \in Settled, moved'[t][stage] > 0
  PROVE  \/ \E s \in Settlers : /\ handler'[s].tx = t /\ handler'[s].stage = stage
                                /\ handler'[s].at \in {"moved", "built", "updated"}
         \/ Persisting(t, stage)' \/ Persisted(t, stage)'
<1>0. /\ SettleInv /\ WriteInv /\ OperationsInTable /\ t \in Transactions /\ stage \in StagesOf(t) /\ stage \in Stages
      /\ handler \in [Handlers -> Requests] /\ Settlers \subseteq Handlers /\ Uninterrupted(stage)
  BY StagesAreTyped, Zenon
     DEF DurableInv, SettleInv, WorkInv, WriteInv, WriteTypes, Handlers, Transactions, SettlementsFinish, Stages
<1>1. CASE moved[t][stage] > 0
  <2>1. ASSUME NEW s \in Settlers, handler[s].tx = t, handler[s].stage = stage,
               handler[s].at \in {"moved", "built", "updated"}
        PROVE  \/ /\ handler'[s].tx = t /\ handler'[s].stage = stage
                  /\ handler'[s].at \in {"moved", "built", "updated"}
               \/ Persisting(t, stage)'
    <3>1. handler[s].at \in Applied /\ s \in Handlers
      BY <1>0, <2>1 DEF Applied
    <3>2. CASE handler'[s] # handler[s]
      BY <1>0, <2>1, <3>1, <3>2, RequestGoesOn, Zenon
    <3> QED BY <2>1, <3>2
  <2>2. CASE Persisting(t, stage)
    <3>1. <<"fallback", stage>> \notin Faults /\ <<"deadletter", stage>> \notin Faults
      BY <1>0, Zenon DEF Uninterrupted
    <3>2. \/ Persisting(t, stage)'
          \/ \E w \in Writers : \E m \in job[w].batch : m.tx = t /\ m.stage = stage /\ Completed(job[w], m)
      BY <1>0, <2>2, <3>1, PersistingStays
    <3>3. CASE \E w \in Writers : \E m \in job[w].batch : m.tx = t /\ m.stage = stage /\ Completed(job[w], m)
      <4>1. Persisted(t, stage)
        BY <1>0, <3>3, CompletedIsPersisted, Zenon
      <4> QED BY <1>0, <4>1, PersistedStays, Zenon
    <3> QED BY <3>2, <3>3, Zenon
  <2>3. CASE Persisted(t, stage)
    BY <1>0, <2>3, PersistedStays, Zenon
  <2> QED BY <1>0, <1>1, <2>1, <2>2, <2>3, ZenonT(30) DEF DurableInv, MovesKept
<1>2. CASE ~(moved[t][stage] > 0)
  <2>1. PICK s \in Handlers : /\ ProcessBalanceOperations(s) /\ handler[s].at = "seeded"
                              /\ handler[s].tx = t /\ handler[s].stage = stage /\ s \in Settlers
    BY <1>0, <1>2, NewMoves
  <2>2. handler' = [handler EXCEPT ![s].at = "moved"]
    BY <2>1 DEF ProcessBalanceOperations, Goto
  <2>3. handler'[s].tx = t /\ handler'[s].stage = stage /\ handler'[s].at = "moved"
    BY <1>0, <2>1, <2>2, Zenon DEF Requests
  <2> QED BY <2>1, <2>3, Zenon
<1> QED BY <1>1, <1>2

LEMMA MovesKeptStep ==
  ASSUME DurableInv, SeedsAreUsed, RepliesArrive, SettlementsFinish, HoldsAreSafe, [Next]_vars
  PROVE  MovesKept'
<1>1. ASSUME NEW t \in Transactions, t \notin Holds, moved'[t][StageOf(t)] > 0
      PROVE  backup'[t].stage = StageOf(t) \/ Stored(t, StageOf(t))'
  BY <1>1, CreatesKeptStep, Zenon
<1>2. ASSUME NEW t \in Transactions, t \in Holds, moved'[t]["PENDING"] > 0
      PROVE  Safe(t)' \/ Unseen(t)'
  BY <1>2, HoldsKeptStep, Zenon
<1>3. ASSUME NEW t \in Transactions, t \in Holds, NEW stage \in Settled, moved'[t][stage] > 0
      PROVE  \/ \E s \in Settlers : /\ handler'[s].tx = t /\ handler'[s].stage = stage
                                    /\ handler'[s].at \in {"moved", "built", "updated"}
             \/ Persisting(t, stage)' \/ Persisted(t, stage)'
  BY <1>3, SettlementsKeptStep
<1> QED BY <1>1, <1>2, <1>3, Zenon DEF MovesKept

LEMMA DurableInit == Init => DurableInv
<1> SUFFICES ASSUME Init PROVE DurableInv
  OBVIOUS
<1>0. /\ moved = [t \in Transactions |-> [s \in Stages |-> 0]]
      /\ job = [w \in Writers |-> NoJob] /\ cleaning = {}
      /\ backup = [t \in Transactions |-> NoEntry] /\ replay = [t \in Transactions |-> NoEntry]
      /\ \A t \in Transactions : handler[t].at \in {"idle", "done"}
  BY DEF Init, Idle, Handlers
<1>1. \A t \in Transactions, stage \in Stages : ~(moved[t][stage] > 0)
  BY <1>0
<1>2. \A w \in Writers : job[w].batch = {}
  BY <1>0, Zenon DEF NoJob
<1>3. OperationsInTable /\ CleaningSound
  BY <1>0, <1>2, Zenon DEF OperationsInTable, CleaningSound
<1>4. EntriesKept
  BY <1>0 DEF EntriesKept
<1>5. StagesMoved
  BY <1>1 DEF StagesMoved
<1>6. "PENDING" \in Stages /\ Settled \subseteq Stages
  BY Zenon DEF Stages
<1>7. MovesKept
  BY <1>1, <1>6, StagesAreTyped, Zenon DEF MovesKept
<1> QED BY <1>3, <1>4, <1>5, <1>7, SettleInit, Zenon DEF DurableInv

LEMMA DurableStep ==
  ASSUME DurableInv, SeedsAreUsed, RepliesArrive, SettlementsFinish, HoldsAreSafe, [Next]_vars
  PROVE  DurableInv'
<1>1. SettleInv'
  BY SettleStep DEF DurableInv
<1>2. OperationsInTable' /\ CleaningSound'
  BY OperationsInTableStep, CleaningStep DEF DurableInv
<1> QED BY <1>1, <1>2, EntriesKeptStep, StagesMovedStep, MovesKeptStep, Zenon DEF DurableInv

LEMMA DurableInvariant ==
  ASSUME SeedsAreUsed, RepliesArrive, SettlementsFinish, HoldsAreSafe
  PROVE  Spec => []DurableInv
<1>1. DurableInv /\ [Next]_vars => DurableInv'
  BY DurableStep
<1> QED BY <1>1, DurableInit, PTL DEF Spec

\* No stage whose balances moved is lost, however often messages are repeated,
\* workers die, writes fail and the cron overtakes a message: at any time a
\* request, the backup queue, a message, the quarantine or the tables have it
\* (Seed, ProcessBalanceOperations, Build, FinishWrite, RemoveBackup,
\* QuarantinePoisonRecord).  A create or a reversal may fail anywhere between
\* the script and the acknowledgement; a hold before it is published; a commit
\* or a cancel nowhere, since its entry may be removed by the cleanup of the
\* hold.
THEOREM NoMoveIsLost ==
  SeedsAreUsed /\ RepliesArrive /\ SettlementsFinish /\ HoldsAreSafe => (Spec => []MovesAreDurable)
<1> SUFFICES ASSUME SeedsAreUsed, RepliesArrive, SettlementsFinish, HoldsAreSafe PROVE Spec => []MovesAreDurable
  BY Zenon
<1>1. DurableInv => MovesAreDurable
  <2> SUFFICES ASSUME DurableInv, NEW t \in Transactions, NEW stage \in Stages, moved[t][stage] > 0
               PROVE  \/ \E h \in Handlers : handler[h].at \in {"moved", "built", "updated"}
                                           /\ handler[h].tx = t /\ handler[h].stage = stage
                      \/ backup[t].stage = stage
                      \/ Persisting(t, stage)
                      \/ <<t, stage>> \in quarantine
                      \/ Persisted(t, stage)
    BY ZenonT(30) DEF MovesAreDurable, Persisting
  <2>0. WriteInv /\ stage \in StagesOf(t) /\ t \in Handlers /\ Settlers \subseteq Handlers /\ t \notin Settlers
    BY RequestsAssumption, ZenonT(30) DEF DurableInv, SettleInv, WorkInv, StagesMoved, Handlers
  <2>1. CASE t \notin Holds
    <3>1. stage = StageOf(t)
      BY <2>0, <2>1, StagesAreTyped, Zenon
    <3> QED BY <2>1, <3>1, Zenon DEF DurableInv, MovesKept, Stored
  <2>2. CASE t \in Holds /\ stage = "PENDING"
    <3>1. Safe(t) \/ Unseen(t)
      BY <2>2, Zenon DEF DurableInv, MovesKept
    <3>2. handler[t].at = "built" => handler[t].tx = t /\ handler[t].stage = "PENDING"
      BY <2>0, <2>2, RequestKinds, StagesAreTyped, Zenon
    <3> QED BY <2>0, <2>2, <3>1, <3>2, Zenon DEF Safe, Unseen, Stored
  <2>3. CASE t \in Holds /\ stage \in Settled
    BY <2>0, <2>3 DEF DurableInv, MovesKept
  <2> QED BY <2>0, <2>1, <2>2, <2>3, StagesAreTyped, Zenon
<1> QED BY <1>1, DurableInvariant, PTL
=============================================================================
