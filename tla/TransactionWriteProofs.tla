----------------------- MODULE TransactionWriteProofs -----------------------
(***************************************************************************)
(* What TLAPS proves about the write path, for any number of requests,     *)
(* keys, workers, failures, retries and replays, in either mode of the     *)
(* pods and of the consumers.  Every theorem names the failures it         *)
(* excludes.                                                               *)
(***************************************************************************)
EXTENDS TransactionWrite, TLAPS
-----------------------------------------------------------------------------
\* No request dies between the seed of its backup entry and the script.
SeedsAreUsed == \A stage \in Stages : <<"seeded", stage>> \notin Faults

CreatePlaces == {"idle", "checked", "claimed", "seeded", "moved", "built", "writing", "persisting", "written", "done"}
SettlePlaces == {"idle", "read", "claimed", "seeded", "moved", "built", "updated", "writing", "persisting",
                 "written", "done"}
Applied == {"moved", "built", "updated", "writing", "persisting", "written"}

\* A request persists its transaction itself, or is about to hand it over.
Writing(h) == handler[h].at \in {"writing", "persisting"}
Sending(h) == handler[h].at \in {"built", "updated"}

JobPlaces == {None, "bulk", "status", "events", "fallback", "row", "operations", "cleanup"}
Statuses == {None, "PENDING"} \cup Settled

\* The balances of the create request moved, and it will not write the
\* write-behind entry any more.
Begun(t) == moved[t][StageOf(t)] > 0 /\ handler[t].at \in {"built", "writing", "persisting", "written", "done"}

OperationsOf(t, stage) == [tx : {t}, stage : {stage}, build : Nat]

Entries == [stage : Stages \cup {None}, valid : BOOLEAN, ran : BOOLEAN,
            operations : SUBSET [tx : Transactions, stage : Stages, build : Nat]]

Messages == [tx : Transactions, stage : Stages, parent : BOOLEAN, tries : Nat,
             operations : SUBSET [tx : Transactions, stage : Stages, build : Nat]]

Requests == [at : CreatePlaces \cup SettlePlaces, tx : Transactions \cup {None},
             stage : Stages \cup {None}, seen : Statuses]

Jobs == [batch : SUBSET Messages, rest : SUBSET Messages, message : Messages \cup {NoMessage},
         pass : {None, "first", "failed", "second"}, at : JobPlaces]

\* The types of the variables the arguments below read.
WriteTypes ==
    /\ handler \in [Handlers -> Requests]
    /\ moved \in [Transactions -> [Stages -> Nat]]
    /\ backup \in [Transactions -> Entries]
    /\ cache \in [Transactions -> Statuses]
    /\ queue \in SUBSET Messages
    /\ job \in [Writers -> Jobs]
    /\ replay \in [Transactions -> Entries]
    /\ replays \in [Transactions -> Nat]
    /\ row \in [Transactions -> Statuses]
    /\ operations \in SUBSET [tx : Transactions, stage : Stages, build : Nat]

\* What a request stands for, and that its balances moved once it is past the script.
RequestsSound ==
    /\ \A t \in Transactions :
         /\ handler[t].at \in CreatePlaces
         /\ handler[t].at \notin {"idle", "done"} => handler[t].tx = t /\ handler[t].stage = StageOf(t)
    /\ \A s \in Settlers :
         /\ handler[s].at \in SettlePlaces
         /\ handler[s].at \notin {"idle", "done"} =>
              handler[s].tx \in Holds /\ handler[s].stage \in Settled /\ Begun(handler[s].tx)
    /\ \A h \in Handlers : handler[h].at \in Applied => moved[handler[h].tx][handler[h].stage] > 0

\* A backup entry that can be replayed is one of a script that ran, or its
\* request is about to run it.
EntrySound(t) ==
    /\ backup[t] # NoEntry => handler[t].at \in {"seeded", "moved"} \/ Begun(t)
    /\ backup[t].stage # None => backup[t].valid
    /\ backup[t].valid =>
         /\ backup[t].stage \in StagesOf(t)
         /\ backup[t].operations \subseteq OperationsOf(t, backup[t].stage)
         /\ handler[t].at \in {"seeded", "moved"} => backup[t].stage = StageOf(t)
         /\ \/ moved[t][backup[t].stage] > 0 /\ backup[t].ran
            \/ \E h \in Handlers : /\ handler[h].at = "seeded"
                                  /\ handler[h].tx = t /\ handler[h].stage = backup[t].stage

BackupSound == \A t \in Transactions : EntrySound(t)

ReplaySound ==
    \A t \in Transactions :
      /\ replay[t] # NoEntry => Begun(t)
      /\ replay[t].stage # None => replay[t].valid
      /\ replay[t].valid =>
           /\ replay[t].stage \in StagesOf(t) /\ replay[t].ran
           /\ replay[t].operations \subseteq OperationsOf(t, replay[t].stage)
           /\ moved[t][replay[t].stage] > 0

\* A message tells of a stage whose balances moved, with its operations.
Sound(m) ==
    /\ m.stage \in StagesOf(m.tx) /\ Begun(m.tx) /\ moved[m.tx][m.stage] > 0
    /\ m.operations # {} /\ m.operations \subseteq OperationsOf(m.tx, m.stage)

\* The batch of a worker, and the part of it that a pass has dealt with.
JobShape(j) ==
    /\ j.rest \subseteq j.batch
    /\ j.at = None => j = NoJob
    /\ j.at \in {"row", "operations", "cleanup"} => j.message \in j.batch /\ j.message \notin j.rest
    /\ j.at \in {"bulk", "status", "events", "fallback"} => j.message = NoMessage
    /\ j.at \in {"bulk", "status", "events"} => j.pass = None
    /\ j.at = "fallback" => j.pass # None
    /\ j.pass = None /\ j.at \in {"row", "operations", "cleanup"} => j.rest = {} /\ j.batch = {j.message}
    /\ j.pass = "second" => j.batch \subseteq j.rest \cup {j.message}

MessagesSound ==
    /\ \A m \in queue : Sound(m)
    /\ \A w \in Writers : JobShape(job[w]) /\ \A m \in job[w].batch : Sound(m)
    /\ \A h \in Handlers :
         job[h].at # None =>
           /\ job[h].pass = None /\ job[h].at \in {"row", "operations", "cleanup"}
           /\ Writing(h)
           /\ job[h].message.tx = handler[h].tx /\ job[h].message.stage = handler[h].stage

TablesSound ==
    /\ \A t \in Transactions :
         /\ cache[t] # None => Begun(t)
         /\ row[t] # None => Begun(t)
         /\ row[t] \in {None, Promoted(StageOf(t))} \cup (IF t \in Holds THEN Settled ELSE {})
         /\ t \in Holds /\ row[t] \in Settled => moved[t][row[t]] > 0
    /\ \A o \in operations : moved[o.tx][o.stage] > 0

WriteInv == WriteTypes /\ RequestsSound /\ BackupSound /\ ReplaySound /\ MessagesSound /\ TablesSound
-----------------------------------------------------------------------------
(***************************************************************************)
(* Which steps change which variable.                                      *)
(***************************************************************************)
LEMMA MovedSteps ==
  ASSUME [Next]_vars, moved' # moved
  PROVE  \E h \in Handlers : RejectSeeded(h) \/ ProcessBalanceOperations(h)
  BY ZenonT(30) DEF Next, vars, redis, postgres, StartRequest, RequestStep, WriterStep, BulkStep, CleanupStep,
         GetTransaction, AcquireLock, RevertTransaction, CreateOrCheckTransactionIdempotency,
         RejectClaimed, Seed, Build, WriteTransactionAsync, WriteTransactionSync, FinishRequest,
         UpdateTransactionStatus, FailBuild, Crash, WriteTransactionFallback,
         CreateOrUpdateTransaction, CreateOperations, FinishWrite, HandleFailure, Deliver,
         CollectBatch, AtomicBulkInsert, PerformBulkStatusUpdate, ProcessMetadataAndEvents,
         ProcessIndividually, FailBulk, Redeliver, CompareBackup, RemoveBackup, DeleteWriteBehind,
         KeyExpires, LockExpires, ReadMessage, ProcessMessage, AbandonReplay, QuarantinePoisonRecord

LEMMA RowSteps ==
  ASSUME [Next]_vars, row' # row
  PROVE  \/ \E s \in Settlers : UpdateTransactionStatus(s)
         \/ \E c \in Consumers : AtomicBulkInsert(c) \/ PerformBulkStatusUpdate(c)
         \/ \E w \in Writers : CreateOrUpdateTransaction(w)
  BY ZenonT(30) DEF Next, vars, redis, postgres, StartRequest, RequestStep, WriterStep, BulkStep, CleanupStep,
         GetTransaction, AcquireLock, RevertTransaction, CreateOrCheckTransactionIdempotency,
         RejectClaimed, Seed, RejectSeeded, ProcessBalanceOperations, Build, WriteTransactionAsync,
         WriteTransactionSync, FinishRequest, FailBuild, Crash, WriteTransactionFallback,
         CreateOperations, FinishWrite, HandleFailure, Deliver, CollectBatch,
         ProcessMetadataAndEvents, ProcessIndividually, FailBulk, Redeliver, CompareBackup,
         RemoveBackup, DeleteWriteBehind, KeyExpires, LockExpires, ReadMessage, ProcessMessage,
         AbandonReplay, QuarantinePoisonRecord

LEMMA OperationsSteps ==
  ASSUME [Next]_vars, operations' # operations
  PROVE  \/ \E c \in Consumers : AtomicBulkInsert(c)
         \/ \E w \in Writers : CreateOperations(w)
  BY ZenonT(30) DEF Next, vars, redis, postgres, StartRequest, RequestStep, WriterStep, BulkStep, CleanupStep,
         GetTransaction, AcquireLock, RevertTransaction, CreateOrCheckTransactionIdempotency,
         RejectClaimed, Seed, RejectSeeded, ProcessBalanceOperations, Build, WriteTransactionAsync,
         WriteTransactionSync, FinishRequest, UpdateTransactionStatus, FailBuild, Crash,
         WriteTransactionFallback, CreateOrUpdateTransaction, FinishWrite, HandleFailure, Deliver,
         CollectBatch, PerformBulkStatusUpdate, ProcessMetadataAndEvents, ProcessIndividually,
         FailBulk, Redeliver, CompareBackup, RemoveBackup, DeleteWriteBehind, KeyExpires,
         LockExpires, ReadMessage, ProcessMessage, AbandonReplay, QuarantinePoisonRecord

LEMMA CacheSteps ==
  ASSUME [Next]_vars, cache' # cache
  PROVE  \/ \E h \in Handlers : Build(h) \/ FinishRequest(h)
         \/ \E w \in Writers : FinishWrite(w)
         \/ \E g \in cleaning : DeleteWriteBehind(g)
  BY ZenonT(30) DEF Next, vars, redis, postgres, StartRequest, RequestStep, WriterStep, BulkStep, CleanupStep,
         GetTransaction, AcquireLock, RevertTransaction, CreateOrCheckTransactionIdempotency,
         RejectClaimed, Seed, RejectSeeded, ProcessBalanceOperations, WriteTransactionAsync,
         WriteTransactionSync, UpdateTransactionStatus, FailBuild, Crash, WriteTransactionFallback,
         CreateOrUpdateTransaction, CreateOperations, HandleFailure, Deliver, CollectBatch,
         AtomicBulkInsert, PerformBulkStatusUpdate, ProcessMetadataAndEvents, ProcessIndividually,
         FailBulk, Redeliver, CompareBackup, RemoveBackup, KeyExpires, LockExpires, ReadMessage,
         ProcessMessage, AbandonReplay, QuarantinePoisonRecord

LEMMA BackupSteps ==
  ASSUME [Next]_vars, backup' # backup
  PROVE  \/ \E h \in Handlers : \/ Seed(h) \/ RejectSeeded(h) \/ ProcessBalanceOperations(h)
                                \/ Build(h)
         \/ \E g \in cleaning : RemoveBackup(g)
         \/ \E t \in Transactions : QuarantinePoisonRecord(t)
  BY ZenonT(30) DEF Next, vars, redis, postgres, StartRequest, RequestStep, WriterStep, BulkStep, CleanupStep,
         GetTransaction, AcquireLock, RevertTransaction, CreateOrCheckTransactionIdempotency,
         RejectClaimed, WriteTransactionAsync, WriteTransactionSync, FinishRequest,
         UpdateTransactionStatus, FailBuild, Crash, WriteTransactionFallback,
         CreateOrUpdateTransaction, CreateOperations, FinishWrite, HandleFailure, Deliver,
         CollectBatch, AtomicBulkInsert, PerformBulkStatusUpdate, ProcessMetadataAndEvents,
         ProcessIndividually, FailBulk, Redeliver, CompareBackup, DeleteWriteBehind, KeyExpires,
         LockExpires, ReadMessage, ProcessMessage, AbandonReplay

LEMMA ReplaySteps ==
  ASSUME [Next]_vars, replay' # replay
  PROVE  \E t \in Transactions : \/ ReadMessage(t) \/ ProcessMessage(t) \/ AbandonReplay(t)
                                \/ QuarantinePoisonRecord(t)
  BY ZenonT(30) DEF Next, vars, redis, postgres, StartRequest, RequestStep, WriterStep, BulkStep, CleanupStep,
         GetTransaction, AcquireLock, RevertTransaction, CreateOrCheckTransactionIdempotency,
         RejectClaimed, Seed, RejectSeeded, ProcessBalanceOperations, Build, WriteTransactionAsync,
         WriteTransactionSync, FinishRequest, UpdateTransactionStatus, FailBuild, Crash,
         WriteTransactionFallback, CreateOrUpdateTransaction, CreateOperations, FinishWrite,
         HandleFailure, Deliver, CollectBatch, AtomicBulkInsert, PerformBulkStatusUpdate,
         ProcessMetadataAndEvents, ProcessIndividually, FailBulk, Redeliver, CompareBackup,
         RemoveBackup, DeleteWriteBehind, KeyExpires, LockExpires

LEMMA ReplaysSteps ==
  ASSUME [Next]_vars, replays' # replays
  PROVE  \E t \in Transactions : ReadMessage(t)
  BY ZenonT(30) DEF Next, vars, redis, postgres, StartRequest, RequestStep, WriterStep, BulkStep, CleanupStep,
         GetTransaction, AcquireLock, RevertTransaction, CreateOrCheckTransactionIdempotency,
         RejectClaimed, Seed, RejectSeeded, ProcessBalanceOperations, Build, WriteTransactionAsync,
         WriteTransactionSync, FinishRequest, UpdateTransactionStatus, FailBuild, Crash,
         WriteTransactionFallback, CreateOrUpdateTransaction, CreateOperations, FinishWrite,
         HandleFailure, Deliver, CollectBatch, AtomicBulkInsert, PerformBulkStatusUpdate,
         ProcessMetadataAndEvents, ProcessIndividually, FailBulk, Redeliver, CompareBackup,
         RemoveBackup, DeleteWriteBehind, KeyExpires, LockExpires, ProcessMessage, AbandonReplay,
         QuarantinePoisonRecord

LEMMA QueueSteps ==
  ASSUME [Next]_vars, queue' # queue
  PROVE  \/ \E h \in Handlers : WriteTransactionAsync(h)
         \/ \E w \in Writers : HandleFailure(w)
         \/ \E c \in Consumers : Deliver(c) \/ CollectBatch(c) \/ Redeliver(c)
         \/ \E t \in Transactions : ProcessMessage(t)
  BY ZenonT(30) DEF Next, vars, redis, postgres, StartRequest, RequestStep, WriterStep, BulkStep, CleanupStep,
         GetTransaction, AcquireLock, RevertTransaction, CreateOrCheckTransactionIdempotency,
         RejectClaimed, Seed, RejectSeeded, ProcessBalanceOperations, Build, WriteTransactionSync,
         FinishRequest, UpdateTransactionStatus, FailBuild, Crash, WriteTransactionFallback,
         CreateOrUpdateTransaction, CreateOperations, FinishWrite, AtomicBulkInsert,
         PerformBulkStatusUpdate, ProcessMetadataAndEvents, ProcessIndividually, FailBulk,
         CompareBackup, RemoveBackup, DeleteWriteBehind, KeyExpires, LockExpires, ReadMessage,
         AbandonReplay, QuarantinePoisonRecord

LEMMA JobSteps ==
  ASSUME [Next]_vars, job' # job
  PROVE  \/ \E h \in Handlers : WriteTransactionSync(h) \/ WriteTransactionFallback(h)
         \/ \E w \in Writers : \/ CreateOrUpdateTransaction(w) \/ CreateOperations(w)
                               \/ FinishWrite(w) \/ HandleFailure(w)
         \/ \E c \in Consumers : \/ Deliver(c) \/ CollectBatch(c) \/ AtomicBulkInsert(c)
                                 \/ PerformBulkStatusUpdate(c) \/ ProcessMetadataAndEvents(c)
                                 \/ ProcessIndividually(c) \/ FailBulk(c) \/ Redeliver(c)
  BY ZenonT(30) DEF Next, vars, redis, postgres, StartRequest, RequestStep, WriterStep, BulkStep, CleanupStep,
         GetTransaction, AcquireLock, RevertTransaction, CreateOrCheckTransactionIdempotency,
         RejectClaimed, Seed, RejectSeeded, ProcessBalanceOperations, Build, WriteTransactionAsync,
         FinishRequest, UpdateTransactionStatus, FailBuild, Crash, CompareBackup, RemoveBackup,
         DeleteWriteBehind, KeyExpires, LockExpires, ReadMessage, ProcessMessage, AbandonReplay,
         QuarantinePoisonRecord

LEMMA LockSteps ==
  ASSUME [Next]_vars, lock' # lock
  PROVE  \/ \E s \in Settlers : AcquireLock(s)
         \/ \E h \in Handlers : RejectClaimed(h) \/ RejectSeeded(h) \/ FailBuild(h)
         \/ \E t \in Transactions : LockExpires(t)
  BY ZenonT(30) DEF Next, vars, redis, postgres, StartRequest, RequestStep, WriterStep, BulkStep, CleanupStep,
         GetTransaction, RevertTransaction, CreateOrCheckTransactionIdempotency, Seed,
         ProcessBalanceOperations, Build, WriteTransactionAsync, WriteTransactionSync, FinishRequest,
         UpdateTransactionStatus, Crash, WriteTransactionFallback, CreateOrUpdateTransaction,
         CreateOperations, FinishWrite, HandleFailure, Deliver, CollectBatch, AtomicBulkInsert,
         PerformBulkStatusUpdate, ProcessMetadataAndEvents, ProcessIndividually, FailBulk, Redeliver,
         CompareBackup, RemoveBackup, DeleteWriteBehind, KeyExpires, ReadMessage, ProcessMessage,
         AbandonReplay, QuarantinePoisonRecord

LEMMA KeySteps ==
  ASSUME [Next]_vars, idem' # idem
  PROVE  \/ \E t \in Transactions : CreateOrCheckTransactionIdempotency(t)
         \/ \E h \in Handlers : \/ RejectClaimed(h) \/ RejectSeeded(h) \/ FailBuild(h)
                                \/ FinishRequest(h)
         \/ \E k \in Keys : KeyExpires(k)
  BY Zenon DEF Next, vars, redis, postgres, StartRequest, RequestStep, WriterStep, BulkStep, CleanupStep,
         GetTransaction, AcquireLock, RevertTransaction, Seed, ProcessBalanceOperations, Build,
         WriteTransactionAsync, WriteTransactionSync, UpdateTransactionStatus, Crash,
         WriteTransactionFallback, CreateOrUpdateTransaction, CreateOperations, FinishWrite,
         HandleFailure, Deliver, CollectBatch, AtomicBulkInsert, PerformBulkStatusUpdate,
         ProcessMetadataAndEvents, ProcessIndividually, FailBulk, Redeliver, CompareBackup,
         RemoveBackup, DeleteWriteBehind, LockExpires, ReadMessage, ProcessMessage, AbandonReplay,
         QuarantinePoisonRecord
-----------------------------------------------------------------------------
(***************************************************************************)
(* How a request advances.                                                 *)
(***************************************************************************)
Follows(from, to) ==
    \/ to = "done"
    \/ from = "read" /\ to = "claimed"
    \/ from = "claimed" /\ to = "seeded"
    \/ from = "seeded" /\ to = "moved"
    \/ from = "moved" /\ to = "built"
    \/ from \in {"built", "updated"} /\ to \in {"writing", "persisting", "written"}
    \/ from \in {"writing", "persisting"} /\ to = "written"

Begins(t) ==
    /\ t \in Transactions /\ handler[t].at \in {"idle", "checked"}
    /\ \E place \in {"checked", "claimed"} :
         handler' = [handler EXCEPT ![t] = [at |-> place, tx |-> t, stage |-> StageOf(t), seen |-> None]]

Continues(h, to) ==
    /\ handler' = [handler EXCEPT ![h].at = to]
    /\ \/ Follows(handler[h].at, to)
       \/ h \in Settlers /\ handler[h].at = "built" /\ to = "updated"
    /\ handler[h].at = "read" => h \in Settlers
    /\ to = "moved" => ProcessBalanceOperations(h)
    /\ handler[h].at = "seeded" => RejectSeeded(h) \/ ProcessBalanceOperations(h)
    /\ Writing(h) => FinishWrite(h) \/ HandleFailure(h)

Continuing(h) == \E to \in CreatePlaces \cup SettlePlaces : Continues(h, to)

LEMMA GotoContinues ==
  ASSUME NEW h \in Handlers, NEW to \in CreatePlaces \cup SettlePlaces, Goto(h, to),
         Follows(handler[h].at, to) \/ (h \in Settlers /\ handler[h].at = "built" /\ to = "updated"),
         handler[h].at = "read" => h \in Settlers,
         to = "moved" => ProcessBalanceOperations(h),
         handler[h].at = "seeded" => RejectSeeded(h) \/ ProcessBalanceOperations(h),
         Writing(h) => FinishWrite(h) \/ HandleFailure(h)
  PROVE  Continuing(h)
<1>1. Continues(h, to)
  BY DEF Continues, Goto
<1> QED BY <1>1 DEF Continuing

\* The fields of the jobs of a writer.
LEMMA JobFields ==
  /\ NoJob.batch = {} /\ NoJob.at = None
  /\ \A m : Individual(m).batch = {m} /\ Individual(m).message = m
  /\ \A ms : Bulk(ms).batch = ms
BY DEF NoJob, Individual, Bulk

LEMMA HandlerSteps ==
  ASSUME WriteInv, SeedsAreUsed, [Next]_vars, handler' # handler
  PROVE  \E h \in Handlers : \/ Begins(h)
                             \/ h \in Settlers /\ GetTransaction(h)
                             \/ Continuing(h)
<1>1. ASSUME NEW h \in Handlers, StartRequest(h)
      PROVE  Begins(h) \/ (h \in Settlers /\ GetTransaction(h)) \/ Continuing(h)
  <2>1. CASE h \in Settlers /\ AcquireLock(h)
    <3>1. At(h, "read") /\ (Goto(h, "claimed") \/ Goto(h, "done"))
      BY <2>1 DEF AcquireLock
    <3> QED BY <2>1, <3>1, GotoContinues DEF At, Follows, CreatePlaces, SettlePlaces, Writing
  <2>2. CASE h \in Reverts /\ RevertTransaction(h)
    <3>1. StageOf(h) = "REVERT" /\ h \in Transactions
      BY <2>2, RequestsAssumption DEF StageOf, Transactions
    <3>2. /\ At(h, "idle")
          /\ \/ handler' = [handler EXCEPT ![h] = [at |-> "checked", tx |-> h, stage |-> "REVERT", seen |-> None]]
             \/ Goto(h, "done")
      BY <2>2 DEF RevertTransaction
    <3>3. CASE Goto(h, "done")
      BY <3>2, <3>3, GotoContinues DEF At, Follows, CreatePlaces, Writing
    <3> QED
      BY <3>1, <3>2, <3>3 DEF At, Begins
  <2>3. CASE h \in Transactions /\ CreateOrCheckTransactionIdempotency(h)
    <3>1. /\ handler[h].at \in {"idle", "checked"}
          /\ \/ handler' = [handler EXCEPT ![h] = [at |-> "claimed", tx |-> h, stage |-> StageOf(h), seen |-> None]]
             \/ Goto(h, "done")
      BY <2>3 DEF CreateOrCheckTransactionIdempotency, At
    <3>2. CASE Goto(h, "done")
      BY <3>1, <3>2, GotoContinues DEF Follows, CreatePlaces, Writing
    <3> QED BY <2>3, <3>1, <3>2 DEF Begins
  <2> QED BY <1>1, <2>1, <2>2, <2>3 DEF StartRequest
<1>2. ASSUME NEW h \in Handlers, RequestStep(h)
      PROVE  Continuing(h)
  <2>1. CASE RejectClaimed(h)
    <3>1. At(h, "claimed") /\ Goto(h, "done")
      BY <2>1 DEF RejectClaimed
    <3> QED BY <3>1, GotoContinues DEF At, Follows, CreatePlaces, Writing
  <2>2. CASE Seed(h)
    <3>1. At(h, "claimed") /\ Goto(h, "seeded")
      BY <2>2 DEF Seed
    <3> QED BY <3>1, GotoContinues DEF At, Follows, CreatePlaces, Writing
  <2>3. CASE RejectSeeded(h)
    <3>1. At(h, "seeded") /\ Goto(h, "done")
      BY <2>3 DEF RejectSeeded
    <3> QED BY <2>3, <3>1, GotoContinues DEF At, Follows, CreatePlaces, Writing
  <2>4. CASE ProcessBalanceOperations(h)
    <3>1. At(h, "seeded") /\ Goto(h, "moved")
      BY <2>4 DEF ProcessBalanceOperations
    <3> QED BY <2>4, <3>1, GotoContinues DEF At, Follows, CreatePlaces, Writing
  <2>5. CASE Build(h)
    <3>1. At(h, "moved") /\ Goto(h, "built")
      BY <2>5 DEF Build
    <3> QED BY <3>1, GotoContinues DEF At, Follows, CreatePlaces, Writing
  <2>6. CASE WriteTransactionAsync(h) \/ WriteTransactionSync(h)
    <3>1. handler[h].at \in {"built", "updated"} /\ (Goto(h, "written") \/ Goto(h, "persisting"))
      BY <2>6 DEF WriteTransactionAsync, WriteTransactionSync, Ready, At
    <3> QED BY <3>1, GotoContinues DEF Follows, CreatePlaces, Writing
  <2>7. CASE FinishRequest(h)
    <3>1. At(h, "written") /\ Goto(h, "done")
      BY <2>7 DEF FinishRequest
    <3> QED BY <3>1, GotoContinues DEF At, Follows, CreatePlaces, Writing
  <2>8. CASE h \in Settlers /\ UpdateTransactionStatus(h)
    <3>1. At(h, "built") /\ Goto(h, "updated")
      BY <2>8 DEF UpdateTransactionStatus
    <3> QED BY <2>8, <3>1, GotoContinues DEF At, SettlePlaces, Writing
  <2> QED BY <1>2, <2>1, <2>2, <2>3, <2>4, <2>5, <2>6, <2>7, <2>8 DEF RequestStep
<1>3. ASSUME NEW h \in Handlers, FailBuild(h) \/ Crash(h) \/ WriteTransactionFallback(h)
      PROVE  Continuing(h)
  <2>1. CASE FailBuild(h)
    <3>1. At(h, "moved") /\ Goto(h, "done")
      BY <2>1 DEF FailBuild
    <3> QED BY <3>1, GotoContinues DEF At, Follows, CreatePlaces, Writing
  <2>2. CASE Crash(h)
    <3>1. Goto(h, "done") /\ <<handler[h].at, handler[h].stage>> \in Faults
      BY <2>2 DEF Crash, Fault
    <3>2. handler[h].stage \in Stages /\ handler[h].at \in Places
      BY <3>1, RequestsAssumption
    <3>3. handler[h].at \notin {"seeded", "read", "writing", "persisting"}
      BY <3>1, <3>2, SeedsAreUsed DEF SeedsAreUsed, Places
    <3> QED BY <3>1, <3>3, GotoContinues DEF Follows, CreatePlaces, Writing
  <2>3. CASE WriteTransactionFallback(h)
    <3>1. handler[h].at \in {"built", "updated"} /\ Goto(h, "writing")
      BY <2>3 DEF WriteTransactionFallback, Ready, At
    <3> QED BY <3>1, GotoContinues DEF Follows, CreatePlaces, Writing
  <2> QED BY <1>3, <2>1, <2>2, <2>3
<1>4. ASSUME NEW w \in Writers, WriterStep(w) \/ HandleFailure(w)
      PROVE  w \in Handlers /\ Continuing(w)
  <2>1. /\ w \in Handlers /\ job[w].at # None /\ (FinishWrite(w) \/ HandleFailure(w))
        /\ Goto(w, "written") \/ Goto(w, "done")
    <3>1. FinishWrite(w) \/ HandleFailure(w)
      BY <1>4 DEF WriterStep, CreateOrUpdateTransaction, CreateOperations
    <3> QED BY <3>1, Zenon DEF FinishWrite, HandleFailure, None
  <2>2. Writing(w)
    BY <2>1 DEF WriteInv, MessagesSound
  <2> QED BY <2>1, <2>2, GotoContinues DEF Follows, CreatePlaces, Writing
<1>5. \/ \E h \in Handlers : \/ StartRequest(h) \/ RequestStep(h)
                             \/ FailBuild(h) \/ Crash(h) \/ WriteTransactionFallback(h)
      \/ \E w \in Writers : WriterStep(w) \/ HandleFailure(w)
  BY Zenon DEF Next, vars, redis, BulkStep, CleanupStep, Deliver, CollectBatch, AtomicBulkInsert,
         PerformBulkStatusUpdate, ProcessMetadataAndEvents, ProcessIndividually, FailBulk, Redeliver,
         CompareBackup, RemoveBackup, DeleteWriteBehind, KeyExpires, LockExpires, ReadMessage,
         ProcessMessage, AbandonReplay, QuarantinePoisonRecord
<1> QED BY <1>1, <1>2, <1>3, <1>4, <1>5
-----------------------------------------------------------------------------
(***************************************************************************)
(* Nothing that happened is undone.                                        *)
(***************************************************************************)
LEMMA StagesAreTyped ==
  ASSUME NEW t \in Transactions
  PROVE  /\ StageOf(t) \in Stages /\ StagesOf(t) \subseteq Stages
         /\ StageOf(t) \in StagesOf(t)
         /\ StageOf(t) \notin Settled
         /\ t \in Holds => StageOf(t) = "PENDING" /\ StagesOf(t) = {"PENDING"} \cup Settled
         /\ t \notin Holds => StageOf(t) \in {"CREATED", "REVERT"} /\ StagesOf(t) = {StageOf(t)}
  BY DEF StageOf, StagesOf, Stages, Settled

LEMMA RequestKinds ==
  ASSUME WriteInv, NEW h \in Handlers, handler[h].at \notin {"idle", "done"}
  PROVE  /\ handler[h].tx \in Transactions /\ handler[h].stage \in StagesOf(handler[h].tx)
         /\ handler[h].stage \in Stages
         /\ h \in Settlers <=> handler[h].stage \in Settled
         /\ h \notin Settlers => h = handler[h].tx /\ handler[h].stage = StageOf(h)
<1>1. CASE h \in Settlers
  <2>1. handler[h].tx \in Holds /\ handler[h].stage \in Settled
    BY <1>1 DEF WriteInv, RequestsSound
  <2>2. handler[h].tx \in Transactions
    BY <2>1 DEF Transactions
  <2> QED BY <1>1, <2>1, <2>2, StagesAreTyped
<1>2. CASE h \in Transactions
  <2>1. handler[h].tx = h /\ handler[h].stage = StageOf(h)
    BY <1>2 DEF WriteInv, RequestsSound
  <2>2. h \notin Settlers
    BY <1>2, RequestsAssumption
  <2> QED BY <1>2, <2>1, <2>2, StagesAreTyped
<1> QED BY <1>1, <1>2 DEF Handlers

LEMMA MovedGrows ==
  ASSUME WriteInv, [Next]_vars
  PROVE  /\ moved' \in [Transactions -> [Stages -> Nat]]
         /\ \A t \in Transactions, stage \in Stages : moved[t][stage] > 0 => moved'[t][stage] > 0
<1> moved \in [Transactions -> [Stages -> Nat]]
  BY DEF WriteInv, WriteTypes
<1>1. CASE moved' = moved
  BY <1>1
<1>2. CASE moved' # moved
  <2>1. PICK h \in Handlers : RejectSeeded(h) \/ ProcessBalanceOperations(h)
    BY <1>2, MovedSteps
  <2>2. PICK n \in {0, 1} : moved' = [moved EXCEPT ![handler[h].tx][handler[h].stage] = @ + n]
    BY <2>1, Zenon DEF RejectSeeded, ProcessBalanceOperations
  <2>3. handler[h].at = "seeded"
    BY <2>1 DEF RejectSeeded, ProcessBalanceOperations, At
  <2>4. handler[h].tx \in Transactions /\ handler[h].stage \in Stages
    BY <2>3, RequestKinds
  <2> QED BY <2>2, <2>4
<1> QED BY <1>1, <1>2

LEMMA BegunStays ==
  ASSUME WriteInv, SeedsAreUsed, [Next]_vars, NEW t \in Transactions, Begun(t)
  PROVE  Begun(t)'
<1> /\ handler \in [Handlers -> Requests]
    /\ t \in Handlers
  BY DEF WriteInv, WriteTypes, Handlers
<1>1. moved'[t][StageOf(t)] > 0
  BY MovedGrows, StagesAreTyped DEF Begun
<1>2. handler'[t].at \in {"built", "writing", "persisting", "written", "done"}
  <2>1. CASE handler' = handler
    BY <2>1 DEF Begun
  <2>2. CASE handler' # handler
    <3>1. PICK h \in Handlers : Begins(h) \/ (h \in Settlers /\ GetTransaction(h)) \/ Continuing(h)
      BY <2>2, HandlerSteps
    <3>2. CASE h = t
      <4>1. Continuing(t)
        BY <3>1, <3>2, RequestsAssumption DEF Begins, Begun
      <4>2. PICK to \in CreatePlaces \cup SettlePlaces : Continues(t, to)
        BY <4>1 DEF Continuing
      <4>3. to \in {"written", "writing", "persisting", "done"} /\ handler' = [handler EXCEPT ![t].at = to]
        BY <4>2, RequestsAssumption DEF Continues, Follows, Goto, Begun
      <4> QED BY <4>3 DEF Requests
    <3>3. CASE h # t
      <4>1. \E r : handler' = [handler EXCEPT ![h] = r]
        BY <3>1 DEF Begins, GetTransaction, Continuing, Continues, Goto
      <4> QED BY <3>3, <4>1 DEF Begun
    <3> QED BY <3>2, <3>3
  <2> QED BY <2>1, <2>2
<1> QED BY <1>1, <1>2 DEF Begun
-----------------------------------------------------------------------------
(***************************************************************************)
(* The invariant, conjunct by conjunct.                                    *)
(***************************************************************************)
\* One request changes; the others stay where they are.
LEMMA RequestsTyped ==
  ASSUME WriteInv, SeedsAreUsed, [Next]_vars
  PROVE  handler' \in [Handlers -> Requests]
<1> /\ handler \in [Handlers -> Requests]
    /\ cache \in [Transactions -> Statuses] /\ row \in [Transactions -> Statuses]
  BY DEF WriteInv, WriteTypes
<1>1. CASE handler' = handler
  BY <1>1
<1>2. CASE handler' # handler
  <2>1. PICK h \in Handlers : Begins(h) \/ (h \in Settlers /\ GetTransaction(h)) \/ Continuing(h)
    BY <1>2, HandlerSteps
  <2>2. \E r \in Requests : handler' = [handler EXCEPT ![h] = r]
    <3>1. CASE Begins(h)
      <4>1. h \in Transactions /\ StageOf(h) \in Stages
        BY <3>1, StagesAreTyped DEF Begins
      <4>2. \A place \in {"checked", "claimed"} :
              [at |-> place, tx |-> h, stage |-> StageOf(h), seen |-> None] \in Requests
        BY <4>1 DEF Requests, CreatePlaces, Statuses
      <4> QED BY <3>1, <4>2, Zenon DEF Begins
    <3>2. CASE h \in Settlers /\ GetTransaction(h)
      <4>1. PICK t \in Holds, stage \in Settled, seen \in Statuses :
              handler' = [handler EXCEPT ![h] = [at |-> "read", tx |-> t, stage |-> stage, seen |-> seen]]
        BY <3>2, Zenon DEF GetTransaction, Transactions
      <4>2. [at |-> "read", tx |-> t, stage |-> stage, seen |-> seen] \in Requests
        BY DEF Requests, SettlePlaces, Transactions, Stages
      <4> QED BY <4>1, <4>2, Zenon
    <3>3. CASE Continuing(h)
      <4>1. PICK to \in CreatePlaces \cup SettlePlaces : handler' = [handler EXCEPT ![h].at = to]
        BY <3>3, Zenon DEF Continuing, Continues, Goto
      <4>2. [handler[h] EXCEPT !.at = to] \in Requests
        BY DEF Requests
      <4>3. handler' = [handler EXCEPT ![h] = [handler[h] EXCEPT !.at = to]]
        BY <4>1
      <4> QED BY <4>2, <4>3, Zenon
    <3> QED BY <2>1, <3>1, <3>2, <3>3
  <2> QED BY <2>2
<1> QED BY <1>1, <1>2

\* What a step makes of one request.
LEMMA RequestChanges ==
  ASSUME WriteInv, SeedsAreUsed, [Next]_vars, NEW h \in Handlers, handler'[h] # handler[h]
  PROVE  \/ /\ h \in Transactions /\ handler[h].at \in {"idle", "checked"}
            /\ handler'[h].at \in {"checked", "claimed"}
            /\ handler'[h].tx = h /\ handler'[h].stage = StageOf(h)
         \/ h \in Settlers /\ GetTransaction(h)
         \/ /\ Continuing(h)
            /\ handler'[h].tx = handler[h].tx /\ handler'[h].stage = handler[h].stage
            /\ handler'[h].seen = handler[h].seen
            /\ Continues(h, handler'[h].at)
<1> handler \in [Handlers -> Requests]
  BY DEF WriteInv, WriteTypes
<1>1. PICK g \in Handlers : Begins(g) \/ (g \in Settlers /\ GetTransaction(g)) \/ Continuing(g)
  BY HandlerSteps
<1>2. \E r : handler' = [handler EXCEPT ![g] = r]
  BY <1>1 DEF Begins, GetTransaction, Continuing, Continues, Goto
<1>3. g = h
  BY <1>2
<1>4. CASE Begins(h)
  BY <1>4 DEF Begins
<1>5. CASE Continuing(h)
  <2>1. PICK to \in CreatePlaces \cup SettlePlaces : Continues(h, to)
    BY <1>5 DEF Continuing
  <2>2. handler' = [handler EXCEPT ![h].at = to]
    BY <2>1 DEF Continues, Goto
  <2>3. /\ handler'[h].at = to /\ handler'[h].tx = handler[h].tx
        /\ handler'[h].stage = handler[h].stage /\ handler'[h].seen = handler[h].seen
    BY <2>2 DEF Requests
  <2> QED BY <1>5, <2>1, <2>3
<1> QED BY <1>1, <1>3, <1>4, <1>5

LEMMA ReadsAreBegun ==
  ASSUME WriteInv, SeedsAreUsed, [Next]_vars, NEW s \in Settlers, GetTransaction(s)
  PROVE  /\ handler'[s].at = "read" /\ handler'[s].tx \in Holds /\ handler'[s].stage \in Settled
         /\ Begun(handler'[s].tx)
         /\ handler'[s].seen = IF cache[handler'[s].tx] # None THEN cache[handler'[s].tx] ELSE row[handler'[s].tx]
<1> handler \in [Handlers -> Requests] /\ s \in Handlers
  BY DEF WriteInv, WriteTypes, Handlers
<1>1. PICK t \in Holds, stage \in Settled :
        /\ (IF cache[t] # None THEN cache[t] ELSE row[t]) # None
        /\ handler' = [handler EXCEPT ![s] = [at |-> "read", tx |-> t, stage |-> stage,
                                              seen |-> IF cache[t] # None THEN cache[t] ELSE row[t]]]
  BY Zenon DEF GetTransaction
<1>2. Begun(t)
  BY <1>1 DEF WriteInv, TablesSound, Transactions
<1> QED BY <1>1, <1>2

LEMMA RequestsStep ==
  ASSUME WriteInv, SeedsAreUsed, [Next]_vars
  PROVE  RequestsSound'
<1> /\ handler \in [Handlers -> Requests]
    /\ moved \in [Transactions -> [Stages -> Nat]]
  BY DEF WriteInv, WriteTypes
<1>1. ASSUME NEW t \in Transactions
      PROVE  /\ handler'[t].at \in CreatePlaces
             /\ handler'[t].at \notin {"idle", "done"} => handler'[t].tx = t /\ handler'[t].stage = StageOf(t)
  <2> t \in Handlers /\ t \notin Settlers
    BY RequestsAssumption DEF Handlers
  <2>1. /\ handler[t].at \in CreatePlaces
        /\ handler[t].at \notin {"idle", "done"} => handler[t].tx = t /\ handler[t].stage = StageOf(t)
    BY DEF WriteInv, RequestsSound
  <2>2. CASE handler'[t] = handler[t]
    BY <2>1, <2>2
  <2>3. CASE handler'[t] # handler[t]
    <3>1. CASE handler'[t].at \in {"checked", "claimed"} /\ handler'[t].tx = t /\ handler'[t].stage = StageOf(t)
      BY <3>1 DEF CreatePlaces
    <3>2. CASE /\ handler'[t].tx = handler[t].tx /\ handler'[t].stage = handler[t].stage
               /\ Continues(t, handler'[t].at)
      <4>1. Follows(handler[t].at, handler'[t].at)
        BY <3>2 DEF Continues
      <4> QED BY <2>1, <3>2, <4>1 DEF Follows, CreatePlaces
    <3> QED BY <2>3, <3>1, <3>2, RequestChanges
  <2> QED BY <2>2, <2>3
<1>2. ASSUME NEW s \in Settlers
      PROVE  /\ handler'[s].at \in SettlePlaces
             /\ handler'[s].at \notin {"idle", "done"} =>
                  handler'[s].tx \in Holds /\ handler'[s].stage \in Settled /\ Begun(handler[s].tx)'
  <2> s \in Handlers /\ s \notin Transactions
    BY RequestsAssumption DEF Handlers
  <2>1. /\ handler[s].at \in SettlePlaces
        /\ handler[s].at \notin {"idle", "done"} =>
             handler[s].tx \in Holds /\ handler[s].stage \in Settled /\ Begun(handler[s].tx)
    BY DEF WriteInv, RequestsSound
  <2>2. ASSUME NEW t \in Holds, Begun(t), handler'[s].tx = t
        PROVE  Begun(handler[s].tx)'
    <3>1. Begun(t)'
      BY <2>2, BegunStays DEF Transactions
    <3> QED BY <2>2, <3>1 DEF Begun
  <2>3. CASE handler'[s] = handler[s]
    BY <2>1, <2>2, <2>3
  <2>4. CASE handler'[s] # handler[s]
    <3>1. CASE GetTransaction(s)
      <4>1. /\ handler'[s].at = "read" /\ handler'[s].tx \in Holds /\ handler'[s].stage \in Settled
            /\ Begun(handler'[s].tx)
        BY <3>1, ReadsAreBegun
      <4> QED BY <2>2, <4>1 DEF SettlePlaces
    <3>2. CASE /\ handler'[s].tx = handler[s].tx /\ handler'[s].stage = handler[s].stage
               /\ Continues(s, handler'[s].at)
      <4>1. \/ Follows(handler[s].at, handler'[s].at)
            \/ handler[s].at = "built" /\ handler'[s].at = "updated"
        BY <3>2 DEF Continues
      <4>2. handler'[s].at \in SettlePlaces /\ (handler'[s].at # "done" => handler[s].at \notin {"idle", "done"})
        BY <2>1, <4>1 DEF Follows, SettlePlaces
      <4> QED BY <2>1, <2>2, <3>2, <4>2
    <3> QED BY <2>4, <3>1, <3>2, RequestChanges
  <2> QED BY <2>3, <2>4
<1>3. ASSUME NEW h \in Handlers, handler'[h].at \in Applied
      PROVE  moved'[handler'[h].tx][handler'[h].stage] > 0
  <2>1. CASE handler[h].at \in Applied /\ handler'[h].tx = handler[h].tx /\ handler'[h].stage = handler[h].stage
    <3>1. moved[handler[h].tx][handler[h].stage] > 0
      BY <2>1 DEF WriteInv, RequestsSound
    <3>2. handler[h].tx \in Transactions /\ handler[h].stage \in Stages
      BY <2>1, RequestKinds DEF Applied
    <3> QED BY <2>1, <3>1, <3>2, MovedGrows
  <2>2. CASE handler'[h] # handler[h]
    <3>1. /\ handler'[h].tx = handler[h].tx /\ handler'[h].stage = handler[h].stage
          /\ Continues(h, handler'[h].at)
      BY <1>3, <2>2, RequestChanges, ReadsAreBegun DEF Applied
    <3>2. CASE handler'[h].at = "moved"
      <4>1. ProcessBalanceOperations(h)
        BY <3>1, <3>2 DEF Continues
      <4>2. /\ handler[h].at = "seeded"
            /\ moved' = [moved EXCEPT ![handler[h].tx][handler[h].stage] = @ + 1]
        BY <4>1 DEF ProcessBalanceOperations, At
      <4>3. handler[h].tx \in Transactions /\ handler[h].stage \in Stages
        BY <4>2, RequestKinds
      <4> QED BY <3>1, <4>2, <4>3
    <3>3. CASE handler'[h].at # "moved"
      <4>1. handler[h].at \in Applied
        BY <1>3, <3>1, <3>3 DEF Continues, Follows, Applied
      <4> QED BY <2>1, <3>1, <4>1
    <3> QED BY <3>2, <3>3, Zenon
  <2> QED BY <1>3, <2>1, <2>2
<1> QED BY <1>1, <1>2, <1>3 DEF RequestsSound

\* Messages that a worker holds are sound.
LEMMA BatchIsSound ==
  ASSUME WriteInv, NEW w \in Writers, NEW m \in job[w].batch
  PROVE  /\ m \in Messages /\ Sound(m)
         /\ m.tx \in Transactions /\ m.stage \in StagesOf(m.tx) /\ m.stage \in Stages
         /\ m.stage \in Settled => m.tx \in Holds
         /\ m.stage \notin Settled => m.stage = StageOf(m.tx)
<1>1. m \in Messages
  BY DEF WriteInv, WriteTypes, Jobs
<1>2. Sound(m)
  BY DEF WriteInv, MessagesSound
<1>3. m.tx \in Transactions /\ m.stage \in StagesOf(m.tx)
  BY <1>1, <1>2 DEF Messages, Sound
<1> QED BY <1>1, <1>2, <1>3, StagesAreTyped

LEMMA MessageIsSound ==
  ASSUME WriteInv, NEW w \in Writers, job[w].at \in {"row", "operations", "cleanup"}
  PROVE  job[w].message \in job[w].batch
  BY DEF WriteInv, MessagesSound, JobShape

\* What a step makes of one row.
LEMMA RowChanges ==
  ASSUME WriteInv, [Next]_vars, row' # row
  PROVE  /\ row' = [t \in Transactions |-> row'[t]]
         /\ \A t \in Transactions :
              \/ row'[t] = row[t]
              \/ row[t] = None /\ row'[t] = Promoted(StageOf(t)) /\ Begun(t)
              \/ t \in Holds /\ row'[t] \in Settled /\ moved[t][row'[t]] > 0 /\ Begun(t)
<1> row \in [Transactions -> Statuses]
  BY DEF WriteInv, WriteTypes
<1>1. CASE \E s \in Settlers : UpdateTransactionStatus(s)
  <2>1. PICK s \in Settlers : UpdateTransactionStatus(s)
    BY <1>1, Zenon
  <2> DEFINE t == handler[s].tx
             new == IF row[t] = None THEN row[t] ELSE handler[s].stage
  <2>2. handler[s].at = "built" /\ row' = [row EXCEPT ![t] = new]
    BY <2>1, Zenon DEF UpdateTransactionStatus, At
  <2>3. t \in Holds /\ handler[s].stage \in Settled /\ Begun(t)
    BY <2>2, Zenon DEF WriteInv, RequestsSound
  <2>4. moved[t][handler[s].stage] > 0
    BY <2>2 DEF WriteInv, RequestsSound, Handlers, Applied
  <2>5. new = row[t] \/ new = handler[s].stage
    OBVIOUS
  <2>6. t \in Transactions
    BY <2>3 DEF Transactions
  <2> HIDE DEF new, t
  <2> QED BY <2>2, <2>3, <2>4, <2>5, <2>6, Zenon
<1>2. CASE \E c \in Consumers : AtomicBulkInsert(c)
  <2>1. PICK c \in Consumers : AtomicBulkInsert(c)
    BY <1>2
  <2> DEFINE ms == job[c].batch \ StatusTransitions(job[c].batch)
  <2>2. row' = Inserted(ms)
    BY <2>1, <1>2, Zenon DEF AtomicBulkInsert
  <2>3. \A m \in ms : Begun(m.tx)
    BY BatchIsSound DEF Sound, Writers
  <2> QED BY <2>2, <2>3 DEF Inserted
<1>3. CASE \E c \in Consumers : PerformBulkStatusUpdate(c)
  <2>1. PICK c \in Consumers : PerformBulkStatusUpdate(c)
    BY <1>3
  <2> DEFINE ms == StatusTransitions(job[c].batch)
  <2>2. row' = Updated(ms)
    BY <2>1 DEF PerformBulkStatusUpdate
  <2>3. \A m \in ms : /\ m.tx \in Holds /\ m.stage \in Settled /\ moved[m.tx][m.stage] > 0 /\ Begun(m.tx)
    BY BatchIsSound DEF Sound, Writers, StatusTransitions
  <2> HIDE DEF ms
  <2>4. ASSUME NEW t \in Transactions, row'[t] # row[t]
        PROVE  t \in Holds /\ row'[t] \in Settled /\ moved[t][row'[t]] > 0 /\ Begun(t)
    <3>1. \E m \in ms : m.tx = t
      BY <2>2, <2>4 DEF Updated
    <3>2. PICK m \in ms : m.tx = t /\ row'[t] = m.stage
      BY <2>2, <2>4, <3>1 DEF Updated
    <3> QED BY <2>3, <3>2
  <2> QED BY <2>2, <2>4, Zenon DEF Updated
<1>4. CASE \E w \in Writers : CreateOrUpdateTransaction(w)
  <2>1. PICK w \in Writers : CreateOrUpdateTransaction(w)
    BY <1>4
  <2> DEFINE m == job[w].message
             new == IF row[m.tx] = None \/ m.stage \in Settled THEN Promoted(m.stage) ELSE row[m.tx]
  <2>2. job[w].at = "row" /\ row' = [row EXCEPT ![m.tx] = new]
    BY <2>1 DEF CreateOrUpdateTransaction
  <2>3. m \in job[w].batch
    BY <2>2, MessageIsSound
  <2> HIDE DEF m
  <2>4. /\ m.tx \in Transactions /\ Begun(m.tx) /\ moved[m.tx][m.stage] > 0
        /\ m.stage \in Settled => m.tx \in Holds
        /\ m.stage \notin Settled => m.stage = StageOf(m.tx)
    BY <2>3, BatchIsSound DEF Sound
  <2>5. \/ new = row[m.tx]
        \/ m.stage \in Settled /\ new = m.stage
        \/ row[m.tx] = None /\ m.stage \notin Settled /\ new = Promoted(m.stage)
    BY DEF Promoted, Settled
  <2> HIDE DEF new
  <2> QED BY <2>2, <2>4, <2>5, Zenon
<1> QED BY <1>1, <1>2, <1>3, <1>4, RowSteps

\* What a step makes of one write-behind entry.
LEMMA CacheChanges ==
  ASSUME WriteInv, SeedsAreUsed, [Next]_vars, cache' # cache
  PROVE  /\ cache' = [t \in Transactions |-> cache'[t]]
         /\ \A t \in Transactions :
              \/ cache'[t] \in {cache[t], None}
              \/ cache'[t] = Promoted(StageOf(t)) /\ Build(t)
              \/ \E s \in Settlers : /\ FinishRequest(s) /\ handler[s].at = "written"
                                    /\ handler[s].tx = t /\ cache'[t] = handler[s].stage
<1> cache \in [Transactions -> Statuses] /\ None \in Statuses
  BY DEF WriteInv, WriteTypes, Statuses
<1>1. CASE \E h \in Handlers : Build(h)
  <2>1. PICK h \in Handlers : Build(h)
    BY <1>1
  <2>2. /\ handler[h].at = "moved" /\ h \notin Settlers
        /\ cache' = [cache EXCEPT ![handler[h].tx] = Promoted(handler[h].stage)]
    BY <2>1 DEF Build, At
  <2>3. h = handler[h].tx /\ handler[h].stage = StageOf(h)
    BY <2>2, RequestKinds
  <2> QED BY <2>1, <2>2, <2>3, Zenon
<1>2. CASE \E h \in Handlers : FinishRequest(h)
  <2>1. PICK h \in Handlers : FinishRequest(h)
    BY <1>2
  <2>2. /\ handler[h].at = "written" /\ h \in Settlers
        /\ cache' = [cache EXCEPT ![handler[h].tx] = handler[h].stage]
    BY <2>1 DEF FinishRequest, At
  <2> QED BY <2>1, <2>2, Zenon
<1>3. CASE \E w \in Writers : FinishWrite(w)
  <2>1. PICK w \in Writers : FinishWrite(w)
    BY <1>3
  <2>2. cache' = [cache EXCEPT ![job[w].message.tx] = None]
    BY <2>1 DEF FinishWrite
  <2> QED BY <2>2, Zenon
<1>4. CASE \E g \in cleaning : DeleteWriteBehind(g)
  BY <1>4, Zenon DEF DeleteWriteBehind
<1> QED BY <1>1, <1>2, <1>3, <1>4, CacheSteps

LEMMA OperationsGrow ==
  ASSUME WriteInv, [Next]_vars
  PROVE  /\ operations \subseteq operations'
         /\ \A o \in operations' \ operations :
              \E w \in Writers : \E m \in job[w].batch : o \in m.operations
<1>1. CASE operations' = operations
  BY <1>1
<1>2. CASE \E c \in Consumers : AtomicBulkInsert(c)
  BY <1>2 DEF AtomicBulkInsert, InsertedOperations, Writers
<1>3. CASE \E w \in Writers : CreateOperations(w)
  <2>1. PICK w \in Writers : CreateOperations(w)
    BY <1>3
  <2>2. job[w].at = "operations" /\ operations' = operations \cup job[w].message.operations
    BY <2>1 DEF CreateOperations
  <2>3. job[w].message \in job[w].batch
    BY <2>2, MessageIsSound
  <2> QED BY <2>2, <2>3
<1> QED BY <1>1, <1>2, <1>3, OperationsSteps

LEMMA TablesStep ==
  ASSUME WriteInv, SeedsAreUsed, [Next]_vars
  PROVE  /\ TablesSound'
         /\ row' \in [Transactions -> Statuses] /\ cache' \in [Transactions -> Statuses]
         /\ operations' \in SUBSET [tx : Transactions, stage : Stages, build : Nat]
<1> /\ row \in [Transactions -> Statuses] /\ cache \in [Transactions -> Statuses]
    /\ operations \in SUBSET [tx : Transactions, stage : Stages, build : Nat]
    /\ handler \in [Handlers -> Requests]
  BY Zenon DEF WriteInv, WriteTypes
<1>1. ASSUME NEW t \in Transactions
      PROVE  /\ row'[t] # None => Begun(t)'
             /\ row'[t] \in {None, Promoted(StageOf(t))} \cup (IF t \in Holds THEN Settled ELSE {})
             /\ t \in Holds /\ row'[t] \in Settled => moved'[t][row'[t]] > 0
             /\ row'[t] \in Statuses
  <2>1. /\ row[t] # None => Begun(t)
        /\ row[t] \in {None, Promoted(StageOf(t))} \cup (IF t \in Holds THEN Settled ELSE {})
        /\ t \in Holds /\ row[t] \in Settled => moved[t][row[t]] > 0
    BY DEF WriteInv, TablesSound
  <2>2. \/ row'[t] = row[t]
        \/ row[t] = None /\ row'[t] = Promoted(StageOf(t)) /\ Begun(t)
        \/ t \in Holds /\ row'[t] \in Settled /\ moved[t][row'[t]] > 0 /\ Begun(t)
    BY RowChanges, Zenon
  <2>3. row'[t] # None => Begun(t)'
    BY <2>1, <2>2, BegunStays
  <2>4. Promoted(StageOf(t)) \in {"PENDING", "APPROVED"} /\ (t \in Holds => Promoted(StageOf(t)) = "PENDING")
    BY StagesAreTyped, Zenon DEF Promoted
  <2>5. t \in Holds /\ row'[t] \in Settled => moved[t][row'[t]] > 0
    BY <2>1, <2>2, <2>4 DEF Settled
  <2>6. Settled \subseteq Stages
    BY DEF Stages
  <2> QED BY <2>1, <2>2, <2>3, <2>4, <2>5, <2>6, MovedGrows, Zenon DEF Statuses, Settled
<1>2. ASSUME NEW t \in Transactions
      PROVE  cache'[t] \in Statuses /\ (cache'[t] # None => Begun(t)')
  <2>1. cache[t] # None => Begun(t)
    BY DEF WriteInv, TablesSound
  <2>2. CASE cache'[t] \in {cache[t], None}
    BY <2>1, <2>2, BegunStays DEF Statuses
  <2>3. CASE cache'[t] = Promoted(StageOf(t)) /\ Build(t)
    <3> t \in Handlers
      BY DEF Handlers
    <3>1. handler[t].at = "moved" /\ handler' = [handler EXCEPT ![t].at = "built"]
      BY <2>3 DEF Build, At, Goto
    <3>2. handler'[t].at = "built"
      BY <3>1 DEF Requests
    <3>3. moved[t][StageOf(t)] > 0
      BY <3>1, RequestKinds, RequestsAssumption, Zenon DEF WriteInv, RequestsSound, Applied
    <3>4. Begun(t)'
      BY <3>2, <3>3, MovedGrows, StagesAreTyped DEF Begun
    <3> QED BY <2>3, <3>4, StagesAreTyped DEF Promoted, Statuses, Settled
  <2>4. CASE \E s \in Settlers : /\ handler[s].at = "written"
                                /\ handler[s].tx = t /\ cache'[t] = handler[s].stage
    <3>1. Begun(t) /\ cache'[t] \in Settled
      BY <2>4 DEF WriteInv, RequestsSound
    <3> QED BY <3>1, BegunStays, Zenon DEF Statuses
  <2> QED BY <2>2, <2>3, <2>4, CacheChanges, Zenon
<1>3. ASSUME NEW o \in operations'
      PROVE  o \in [tx : Transactions, stage : Stages, build : Nat] /\ moved'[o.tx][o.stage] > 0
  <2>1. o \in [tx : Transactions, stage : Stages, build : Nat] /\ moved[o.tx][o.stage] > 0
    <3>1. CASE o \in operations
      BY <3>1 DEF WriteInv, TablesSound
    <3>2. CASE o \notin operations
      <4>1. PICK w \in Writers : \E m \in job[w].batch : o \in m.operations
        BY <3>2, OperationsGrow
      <4>2. PICK m \in job[w].batch : o \in m.operations
        BY <4>1
      <4>3. Sound(m) /\ m.tx \in Transactions /\ m.stage \in Stages
        BY BatchIsSound
      <4> QED BY <4>2, <4>3 DEF Sound, OperationsOf
    <3> QED BY <3>1, <3>2
  <2> QED BY <2>1, MovedGrows
<1>4. row' = [t \in Transactions |-> row'[t]] /\ cache' = [t \in Transactions |-> cache'[t]]
  BY RowChanges, CacheChanges
<1> QED BY <1>1, <1>2, <1>3, <1>4 DEF TablesSound

\* Who has a seeded entry keeps it until the script runs or is refused.
LEMMA EntryKept ==
  ASSUME WriteInv, SeedsAreUsed, [Next]_vars, NEW t \in Transactions,
         backup'[t] = backup[t] \/ backup'[t] = NoEntry,
         \A h \in Handlers : handler[h].at = "seeded" /\ handler[h].tx = t => handler'[h] = handler[h]
  PROVE  EntrySound(t)'
<1> /\ handler \in [Handlers -> Requests] /\ t \in Handlers /\ t \notin Settlers
    /\ backup \in [Transactions -> Entries] /\ moved \in [Transactions -> [Stages -> Nat]]
  BY RequestsAssumption, Zenon DEF WriteInv, WriteTypes, Handlers
<1>1. CASE backup'[t] = NoEntry
  BY <1>1 DEF EntrySound, NoEntry
<1>2. CASE backup'[t] = backup[t] /\ backup[t] # NoEntry
  <2>1. EntrySound(t)
    BY Zenon DEF WriteInv, BackupSound
  <2>2. Begun(t) => Begun(t)'
    BY BegunStays, Zenon
  <2>3. ASSUME handler'[t] # handler[t]
        PROVE  handler'[t].at \notin {"seeded", "moved"} /\ Begun(t)'
    <3>1. handler[t].at # "seeded"
      BY <2>3, RequestKinds, Zenon
    <3>2. CASE handler[t].at = "moved"
      <4>1. Continues(t, handler'[t].at)
        BY <2>3, <3>2, RequestChanges
      <4>2. handler'[t].at \in {"built", "done"}
        BY <3>2, <4>1, Zenon DEF Continues, Follows
      <4>3. moved[t][StageOf(t)] > 0
        BY <3>2, RequestKinds, Zenon DEF WriteInv, RequestsSound, Applied
      <4> QED BY <4>2, <4>3, MovedGrows, StagesAreTyped, Zenon DEF Begun
    <3>3. CASE Begun(t)
      <4>1. Begun(t)'
        BY <3>3, <2>2, Zenon
      <4> QED BY <4>1 DEF Begun
    <3> QED BY <1>2, <2>1, <3>1, <3>2, <3>3, Zenon DEF EntrySound
  <2>4. backup'[t] # NoEntry => handler'[t].at \in {"seeded", "moved"} \/ Begun(t)'
    BY <1>2, <2>1, <2>2, <2>3, Zenon DEF EntrySound
  <2>5. ASSUME backup[t].valid
        PROVE  /\ backup[t].stage \in StagesOf(t)
               /\ backup[t].operations \subseteq OperationsOf(t, backup[t].stage)
               /\ handler'[t].at \in {"seeded", "moved"} => backup[t].stage = StageOf(t)
               /\ \/ moved'[t][backup[t].stage] > 0 /\ backup[t].ran
                  \/ \E h \in Handlers : /\ handler'[h].at = "seeded"
                                        /\ handler'[h].tx = t /\ handler'[h].stage = backup[t].stage
    <3>1. backup[t].stage \in Stages
      BY <2>1, <2>5, StagesAreTyped, Zenon DEF EntrySound
    <3>2. \/ moved[t][backup[t].stage] > 0 /\ backup[t].ran
          \/ \E h \in Handlers : /\ handler[h].at = "seeded"
                                /\ handler[h].tx = t /\ handler[h].stage = backup[t].stage
      BY <2>1, <2>5 DEF EntrySound
    <3> QED BY <2>1, <2>3, <2>5, <3>1, <3>2, MovedGrows, Zenon DEF EntrySound
  <2> QED BY <1>2, <2>1, <2>4, <2>5, Zenon DEF EntrySound
<1> QED BY <1>1, <1>2, Zenon

\* The entry of the request that advances: seeded, run, or given its operations.
LEMMA EntrySeeded ==
  ASSUME WriteInv, SeedsAreUsed, [Next]_vars, NEW h \in Handlers, Seed(h),
         NEW t \in Transactions, t = handler[h].tx
  PROVE  EntrySound(t)' /\ backup'[t] \in Entries
<1> /\ handler \in [Handlers -> Requests] /\ t \in Handlers /\ t \notin Settlers
    /\ backup \in [Transactions -> Entries]
  BY RequestsAssumption DEF WriteInv, WriteTypes, Handlers
<1> DEFINE stage == handler[h].stage
<1>1. /\ handler[h].at = "claimed" /\ handler' = [handler EXCEPT ![h].at = "seeded"]
      /\ backup' = [backup EXCEPT ![t] = Entry(stage)]
  BY DEF Seed, At, Goto
<1>2. stage \in StagesOf(t) /\ stage \in Stages /\ (h \notin Settlers => h = t /\ stage = StageOf(t))
  BY <1>1, RequestKinds
<1>3. /\ handler'[h].at = "seeded" /\ handler'[h].tx = t /\ handler'[h].stage = stage
  BY <1>1 DEF Requests
<1>4. backup'[t] = [stage |-> stage, valid |-> TRUE, ran |-> FALSE, operations |-> {}]
  BY <1>1, Zenon DEF Entry
<1>5. CASE h = t
  <2>1. stage = StageOf(t)
    BY <1>2, <1>5, Zenon
  <2> HIDE DEF stage
  <2> QED BY <1>2, <1>3, <1>4, <1>5, <2>1 DEF EntrySound, Entries
<1>6. CASE h # t
  <2>1. Begun(t)
    BY <1>1, <1>2, <1>6 DEF WriteInv, RequestsSound
  <2>2. Begun(t)'
    BY <2>1, BegunStays
  <2>3. handler'[t].at \notin {"seeded", "moved"}
    BY <2>2 DEF Begun
  <2> HIDE DEF stage
  <2> QED BY <1>2, <1>3, <1>4, <2>2, <2>3 DEF EntrySound, Entries
<1> QED BY <1>5, <1>6, Zenon

LEMMA EntryRan ==
  ASSUME WriteInv, SeedsAreUsed, [Next]_vars, NEW h \in Handlers, ProcessBalanceOperations(h),
         NEW t \in Transactions, t = handler[h].tx
  PROVE  EntrySound(t)' /\ backup'[t] \in Entries
<1> /\ handler \in [Handlers -> Requests] /\ t \in Handlers /\ t \notin Settlers
    /\ backup \in [Transactions -> Entries] /\ backup[t] \in Entries
    /\ moved \in [Transactions -> [Stages -> Nat]]
  BY RequestsAssumption DEF WriteInv, WriteTypes, Handlers
<1> DEFINE stage == handler[h].stage
           e == IF backup[t] = NoEntry THEN Orphan ELSE [backup[t] EXCEPT !.ran = TRUE]
<1>1. /\ handler[h].at = "seeded" /\ handler' = [handler EXCEPT ![h].at = "moved"]
      /\ moved' = [moved EXCEPT ![t][stage] = @ + 1]
      /\ backup' = [backup EXCEPT ![t] = e]
  BY DEF ProcessBalanceOperations, At, Goto
<1>2. stage \in Stages /\ (h \notin Settlers => h = t /\ stage = StageOf(t))
  BY <1>1, RequestKinds
<1>3. handler'[h].at = "moved" /\ \A g \in Handlers : g # h => handler'[g] = handler[g]
  BY <1>1 DEF Requests
<1>4. moved'[t][stage] > 0
  BY <1>1, <1>2
<1>5. backup'[t] = e
  BY <1>1, Zenon
<1>6. EntrySound(t)
  BY DEF WriteInv, BackupSound
<1>7. handler'[t].at \in {"seeded", "moved"} \/ Begun(t)'
  <2>1. CASE h = t
    BY <2>1, <1>3
  <2>2. CASE h # t
    <3>1. Begun(t)
      BY <1>1, <1>2, <2>2, Zenon DEF WriteInv, RequestsSound
    <3> QED BY <3>1, BegunStays
  <2> QED BY <2>1, <2>2
<1>8. CASE backup[t] = NoEntry
  <2>1. backup'[t] = [stage |-> None, valid |-> FALSE, ran |-> TRUE, operations |-> {}]
    BY <1>5, <1>8, Zenon DEF Orphan, NoEntry
  <2> HIDE DEF e
  <2> QED BY <1>7, <2>1 DEF EntrySound, Entries
<1>9. CASE backup[t] # NoEntry
  <2>1. /\ backup'[t] \in Entries /\ backup'[t].stage = backup[t].stage /\ backup'[t].valid = backup[t].valid
        /\ backup'[t].ran = TRUE /\ backup'[t].operations = backup[t].operations
    BY <1>5, <1>9, Zenon DEF Entries
  <2> HIDE DEF e
  <2>2. ASSUME backup[t].valid
        PROVE  /\ backup[t].stage \in StagesOf(t)
               /\ backup[t].operations \subseteq OperationsOf(t, backup[t].stage)
               /\ handler'[t].at \in {"seeded", "moved"} => backup[t].stage = StageOf(t)
               /\ \/ moved'[t][backup[t].stage] > 0
                  \/ \E g \in Handlers : /\ handler'[g].at = "seeded"
                                        /\ handler'[g].tx = t /\ handler'[g].stage = backup[t].stage
    <3>1. /\ backup[t].stage \in StagesOf(t) /\ backup[t].stage \in Stages
          /\ backup[t].operations \subseteq OperationsOf(t, backup[t].stage)
          /\ handler[t].at \in {"seeded", "moved"} => backup[t].stage = StageOf(t)
      BY <1>6, <2>2, StagesAreTyped DEF EntrySound
    <3>2. handler'[t].at \in {"seeded", "moved"} => handler[t].at \in {"seeded", "moved"}
      BY <1>1, <1>3, Zenon
    <3>3. CASE moved[t][backup[t].stage] > 0
      BY <3>1, <3>2, <3>3, MovedGrows, Zenon
    <3>4. CASE \E g \in Handlers : /\ handler[g].at = "seeded"
                                  /\ handler[g].tx = t /\ handler[g].stage = backup[t].stage
      <4>1. PICK g \in Handlers : /\ handler[g].at = "seeded"
                                  /\ handler[g].tx = t /\ handler[g].stage = backup[t].stage
        BY <3>4, Zenon
      <4>2. CASE g = h
        BY <1>4, <3>1, <3>2, <4>1, <4>2, Zenon
      <4>3. CASE g # h
        BY <1>3, <3>1, <3>2, <4>1, <4>3, Zenon
      <4> QED BY <4>2, <4>3
    <3> QED BY <1>6, <2>2, <3>3, <3>4, Zenon DEF EntrySound
  <2>3. backup[t].stage # None => backup[t].valid
    BY <1>6 DEF EntrySound
  <2> QED BY <1>7, <2>1, <2>2, <2>3 DEF EntrySound
<1> QED BY <1>8, <1>9, Zenon

LEMMA EntryBuilt ==
  ASSUME WriteInv, SeedsAreUsed, [Next]_vars, NEW h \in Handlers, Build(h),
         NEW t \in Transactions, t = handler[h].tx
  PROVE  EntrySound(t)' /\ backup'[t] \in Entries
<1> /\ handler \in [Handlers -> Requests] /\ t \in Handlers /\ t \notin Settlers
    /\ backup \in [Transactions -> Entries] /\ backup[t] \in Entries
    /\ moved \in [Transactions -> [Stages -> Nat]]
  BY RequestsAssumption DEF WriteInv, WriteTypes, Handlers
<1> DEFINE stage == handler[h].stage
           built == {Operation(t, stage, 0)}
<1>1. handler[h].at = "moved" /\ handler' = [handler EXCEPT ![h].at = "built"]
  BY DEF Build, At, Goto
<1>2. stage \in StagesOf(t) /\ stage \in Stages /\ (h \notin Settlers => h = t /\ stage = StageOf(t))
  BY <1>1, RequestKinds
<1>3. handler'[h].at = "built" /\ \A g \in Handlers : g # h => handler'[g] = handler[g]
  BY <1>1 DEF Requests
<1>4. moved[t][stage] > 0 /\ moved'[t][stage] > 0
  BY <1>1, <1>2, MovedGrows DEF WriteInv, RequestsSound, Applied
<1>5. built \subseteq OperationsOf(t, stage) /\ built \subseteq [tx : Transactions, stage : Stages, build : Nat]
  BY <1>2 DEF Operation, OperationsOf
<1>6. handler'[t].at \notin {"seeded", "moved"} /\ Begun(t)'
  <2>1. CASE h = t
    BY <1>2, <1>3, <1>4, <2>1, RequestsAssumption DEF Begun
  <2>2. CASE h # t
    <3>1. Begun(t)
      BY <1>1, <1>2, <2>2 DEF WriteInv, RequestsSound
    <3>2. Begun(t)'
      BY <3>1, BegunStays, Zenon
    <3> QED BY <3>2 DEF Begun
  <2> QED BY <2>1, <2>2, Zenon
<1>7. CASE h \in Settlers
  <2>1. backup' = [backup EXCEPT ![t] = [Entry(stage) EXCEPT !.ran = TRUE, !.operations = built]]
    BY <1>7 DEF Build
  <2>2. backup'[t] = [stage |-> stage, valid |-> TRUE, ran |-> TRUE, operations |-> built]
    BY <2>1, Zenon DEF Entry
  <2> HIDE DEF stage, built
  <2> QED BY <1>2, <1>4, <1>5, <1>6, <2>2 DEF EntrySound, Entries
<1>8. CASE h \notin Settlers
  <2> DEFINE e == IF backup[t] = NoEntry THEN backup[t] ELSE [backup[t] EXCEPT !.operations = built]
  <2>1. backup' = [backup EXCEPT ![t] = e]
    BY <1>8 DEF Build
  <2>2. backup'[t] = e
    BY <2>1, Zenon
  <2>3. CASE backup[t] = NoEntry
    BY <2>2, <2>3 DEF EntrySound, NoEntry
  <2>4. CASE backup[t] # NoEntry
    <3>1. /\ backup'[t].stage = backup[t].stage /\ backup'[t].valid = backup[t].valid
          /\ backup'[t].ran = backup[t].ran /\ backup'[t].operations = built
      BY <2>2, <2>4 DEF Entries
    <3>2. backup'[t] \in Entries
      <4>1. backup'[t] = [backup[t] EXCEPT !.operations = built]
        BY <2>2, <2>4
      <4> HIDE DEF built, e
      <4> QED BY <1>5, <4>1, Zenon DEF Entries
    <3>3. EntrySound(t)
      BY DEF WriteInv, BackupSound
    <3>4. h = t /\ stage = StageOf(t)
      BY <1>2, <1>8
    <3> HIDE DEF e, built
    <3>5. ASSUME backup[t].valid
          PROVE  /\ backup[t].stage = stage
                 /\ \/ moved'[t][stage] > 0 /\ backup[t].ran
                    \/ \E g \in Handlers : /\ handler'[g].at = "seeded"
                                          /\ handler'[g].tx = t /\ handler'[g].stage = stage
      <4>1. backup[t].stage = stage
        BY <1>1, <3>3, <3>4, <3>5, Zenon DEF EntrySound
      <4>2. \/ backup[t].ran
            \/ \E g \in Handlers : /\ handler[g].at = "seeded"
                                  /\ handler[g].tx = t /\ handler[g].stage = stage
        BY <3>3, <3>5, <4>1, Zenon DEF EntrySound
      <4> QED BY <1>1, <1>3, <1>4, <4>1, <4>2
    <3>6. backup[t].stage # None => backup[t].valid
      BY <3>3 DEF EntrySound
    <3> HIDE DEF stage
    <3> QED BY <1>2, <1>5, <1>6, <3>1, <3>2, <3>5, <3>6 DEF EntrySound
  <2> QED BY <2>3, <2>4
<1> QED BY <1>7, <1>8, Zenon

LEMMA BackupStep ==
  ASSUME WriteInv, SeedsAreUsed, [Next]_vars
  PROVE  BackupSound' /\ backup' \in [Transactions -> Entries]
<1> /\ handler \in [Handlers -> Requests] /\ backup \in [Transactions -> Entries] /\ NoEntry \in Entries
  BY DEF WriteInv, WriteTypes, Entries, NoEntry
<1> SUFFICES /\ backup' = [t \in Transactions |-> backup'[t]]
             /\ \A t \in Transactions : EntrySound(t)' /\ backup'[t] \in Entries
  BY DEF BackupSound
<1>1. ASSUME NEW h \in Handlers, Seed(h) \/ RejectSeeded(h) \/ ProcessBalanceOperations(h) \/ Build(h)
      PROVE  /\ backup' = [t \in Transactions |-> backup'[t]]
             /\ \A t \in Transactions : EntrySound(t)' /\ backup'[t] \in Entries
  <2>1. \E e : backup' = [backup EXCEPT ![handler[h].tx] = e]
    BY <1>1, Zenon DEF Seed, RejectSeeded, ProcessBalanceOperations, Build
  <2>2. \E to : handler' = [handler EXCEPT ![h].at = to]
    BY <1>1 DEF Seed, RejectSeeded, ProcessBalanceOperations, Build, Goto
  <2>3. ASSUME NEW t \in Transactions, t # handler[h].tx
        PROVE  EntrySound(t)' /\ backup'[t] \in Entries
    <3>1. \A g \in Handlers : handler[g].at = "seeded" /\ handler[g].tx = t => handler'[g] = handler[g]
      BY <2>2, <2>3
    <3>2. backup'[t] = backup[t]
      BY <2>1, <2>3, Zenon
    <3> QED BY <3>1, <3>2, EntryKept
  <2>4. ASSUME NEW t \in Transactions, t = handler[h].tx
        PROVE  EntrySound(t)' /\ backup'[t] \in Entries
    <3>1. CASE RejectSeeded(h)
      <4>1. backup'[t] = NoEntry
        BY <2>4, <3>1 DEF RejectSeeded
      <4> QED BY <4>1 DEF EntrySound, NoEntry
    <3> QED BY <1>1, <2>4, <3>1, EntrySeeded, EntryRan, EntryBuilt, Zenon
  <2> QED BY <2>1, <2>3, <2>4, Zenon
<1>2. ASSUME ~\E h \in Handlers : Seed(h) \/ RejectSeeded(h) \/ ProcessBalanceOperations(h) \/ Build(h)
      PROVE  /\ backup' = [t \in Transactions |-> backup'[t]]
             /\ \A t \in Transactions : EntrySound(t)' /\ backup'[t] \in Entries
  <2>1. \/ backup' = backup
        \/ \E g \in cleaning : backup' = [backup EXCEPT ![g.tx] = NoEntry]
        \/ \E t \in Transactions : backup' = [backup EXCEPT ![t] = NoEntry]
    BY <1>2, BackupSteps, Zenon DEF RemoveBackup, QuarantinePoisonRecord
  <2>2. /\ backup' = [t \in Transactions |-> backup'[t]]
        /\ \A t \in Transactions : backup'[t] = backup[t] \/ backup'[t] = NoEntry
    BY <2>1
  <2>3. \A h \in Handlers : handler[h].at = "seeded" => handler'[h] = handler[h]
    BY <1>2, RequestChanges, RequestsAssumption DEF Continues, GetTransaction, At
  <2> QED BY <2>2, <2>3, EntryKept
<1> QED BY <1>1, <1>2, Zenon

\* The cron replays entries of scripts that ran: it leaves live requests alone.
LEMMA ReplayStep ==
  ASSUME WriteInv, SeedsAreUsed, [Next]_vars
  PROVE  /\ ReplaySound'
         /\ replay' \in [Transactions -> Entries] /\ replays' \in [Transactions -> Nat]
<1> /\ handler \in [Handlers -> Requests] /\ backup \in [Transactions -> Entries]
    /\ replay \in [Transactions -> Entries] /\ replays \in [Transactions -> Nat] /\ NoEntry \in Entries
  BY DEF WriteInv, WriteTypes, Entries, NoEntry
<1>1. replays' \in [Transactions -> Nat]
  <2>1. CASE replays' = replays
    BY <2>1
  <2>2. CASE \E t \in Transactions : ReadMessage(t)
    <3>1. PICK t \in Transactions : ReadMessage(t)
      BY <2>2
    <3>2. \E n \in {replays[t], replays[t] + 1} : replays' = [replays EXCEPT ![t] = n]
      BY <3>1, Zenon DEF ReadMessage
    <3> QED BY <3>2
  <2> QED BY <2>1, <2>2, ReplaysSteps
<1>2. /\ replay' = [t \in Transactions |-> replay'[t]]
      /\ \A t \in Transactions : replay'[t] \in {replay[t], NoEntry} \/ (ReadMessage(t) /\ replay'[t] = backup[t])
  <2>1. CASE replay' = replay
    BY <2>1
  <2>2. CASE \E t \in Transactions : ReadMessage(t)
    BY <2>2, Zenon DEF ReadMessage
  <2>3. CASE \E t \in Transactions : ProcessMessage(t) \/ AbandonReplay(t) \/ QuarantinePoisonRecord(t)
    <3>1. \E t \in Transactions : replay' = [replay EXCEPT ![t] = NoEntry]
      BY <2>3, Zenon DEF ProcessMessage, AbandonReplay, QuarantinePoisonRecord
    <3> QED BY <3>1, Zenon
  <2> QED BY <2>1, <2>2, <2>3, ReplaySteps
<1>3. ASSUME NEW t \in Transactions
      PROVE  /\ replay'[t] # NoEntry => Begun(t)'
             /\ replay'[t].stage # None => replay'[t].valid
             /\ replay'[t].valid =>
                  /\ replay'[t].stage \in StagesOf(t) /\ replay'[t].ran
                  /\ replay'[t].operations \subseteq OperationsOf(t, replay'[t].stage)
                  /\ moved'[t][replay'[t].stage] > 0
  <2>1. CASE replay'[t] = NoEntry
    BY <2>1 DEF NoEntry
  <2>2. CASE replay'[t] = replay[t] /\ replay[t] # NoEntry
    <3>1. /\ Begun(t)
          /\ replay[t].stage # None => replay[t].valid
          /\ replay[t].valid =>
               /\ replay[t].stage \in StagesOf(t) /\ replay[t].ran
               /\ replay[t].operations \subseteq OperationsOf(t, replay[t].stage)
               /\ moved[t][replay[t].stage] > 0
      BY <2>2, Zenon DEF WriteInv, ReplaySound
    <3>2. Begun(t)'
      BY <3>1, BegunStays, Zenon
    <3>3. replay[t].valid => moved'[t][replay[t].stage] > 0
      BY <3>1, MovedGrows, StagesAreTyped, Zenon
    <3> QED BY <2>2, <3>1, <3>2, <3>3, Zenon
  <2>3. CASE ReadMessage(t) /\ replay'[t] = backup[t]
    <3>1. backup[t] # NoEntry /\ ~Live(t)
      BY <2>3 DEF ReadMessage
    <3>2. \A h \in Handlers : handler[h].tx = t => handler[h].at \in {"idle", "done"}
      BY <3>1, Zenon DEF Live
    <3>3. EntrySound(t) /\ t \in Handlers /\ t \notin Settlers
      BY RequestsAssumption DEF WriteInv, BackupSound, Handlers
    <3>4. handler[t].at \notin {"seeded", "moved"}
      BY <3>2, <3>3, RequestKinds, Zenon
    <3>5. Begun(t)
      BY <3>1, <3>3, <3>4 DEF EntrySound
    <3>6. Begun(t)'
      BY <3>5, BegunStays, Zenon
    <3>7. ASSUME backup[t].valid
          PROVE  /\ backup[t].stage \in StagesOf(t) /\ backup[t].ran
                 /\ backup[t].operations \subseteq OperationsOf(t, backup[t].stage)
                 /\ moved'[t][backup[t].stage] > 0
      <4>1. /\ backup[t].stage \in StagesOf(t) /\ backup[t].ran
            /\ backup[t].operations \subseteq OperationsOf(t, backup[t].stage)
            /\ moved[t][backup[t].stage] > 0
        BY <3>2, <3>3, <3>7, Zenon DEF EntrySound
      <4> QED BY <4>1, MovedGrows, StagesAreTyped, Zenon
    <3>8. backup[t].stage # None => backup[t].valid
      BY <3>3 DEF EntrySound
    <3> QED BY <2>3, <3>6, <3>7, <3>8
  <2> QED BY <1>2, <2>1, <2>2, <2>3, Zenon
<1>4. \A t \in Transactions : replay'[t] \in Entries
  BY <1>2, Zenon
<1> QED BY <1>1, <1>2, <1>3, <1>4, Zenon DEF ReplaySound
-----------------------------------------------------------------------------
(***************************************************************************)
(* Messages and the jobs of the workers.                                   *)
(***************************************************************************)
LEMMA NoMessageIsNone == NoMessage \notin Messages
  BY RequestsAssumption DEF NoMessage, Messages, None

LEMMA NoJobShape == NoJob \in Jobs /\ JobShape(NoJob)
  BY Zenon DEF NoJob, Jobs, JobShape, JobPlaces, None

LEMMA IndividualShape ==
  ASSUME NEW m \in Messages
  PROVE  Individual(m) \in Jobs /\ JobShape(Individual(m))
<1> DEFINE j == [batch |-> {m}, rest |-> {}, message |-> m, pass |-> None, at |-> "row"]
<1>1. j \in Jobs
  BY Zenon DEF Jobs, JobPlaces
<1>2. JobShape(j)
  BY DEF JobShape, None
<1> QED BY <1>1, <1>2, Zenon DEF Individual

LEMMA BulkShape ==
  ASSUME NEW ms \in SUBSET Messages
  PROVE  Bulk(ms) \in Jobs /\ JobShape(Bulk(ms))
<1> DEFINE j == [batch |-> ms, rest |-> ms, message |-> NoMessage, pass |-> None, at |-> "bulk"]
<1>1. j \in Jobs
  BY Zenon DEF Jobs, JobPlaces
<1>2. JobShape(j)
  BY DEF JobShape, None
<1> QED BY <1>1, <1>2 DEF Bulk

LEMMA FallbackShape ==
  ASSUME NEW j \in Jobs
  PROVE  Fallback(j) \in Jobs /\ JobShape(Fallback(j)) /\ Fallback(j).batch = j.batch
<1> DEFINE f == [j EXCEPT !.at = "fallback", !.rest = j.batch, !.message = NoMessage, !.pass = "first"]
<1>1. /\ f.batch = j.batch /\ f.message = NoMessage /\ f.at = "fallback" /\ f.rest = j.batch /\ f.pass = "first"
      /\ f \in Jobs
  BY Zenon DEF Jobs, JobPlaces
<1> HIDE DEF f
<1>2. JobShape(f)
  BY <1>1 DEF JobShape, None
<1> QED BY <1>1, <1>2 DEF Fallback, f

LEMMA PlaceShape ==
  ASSUME NEW j \in Jobs, JobShape(j), NEW at,
         <<j.at, at>> \in {<<"bulk", "status">>, <<"status", "events">>, <<"row", "operations">>, <<"operations", "cleanup">>}
  PROVE  /\ [j EXCEPT !.at = at] \in Jobs /\ JobShape([j EXCEPT !.at = at])
         /\ [j EXCEPT !.at = at].batch = j.batch /\ [j EXCEPT !.at = at].message = j.message
         /\ [j EXCEPT !.at = at].at = at
         /\ [j EXCEPT !.at = at].rest = j.rest /\ [j EXCEPT !.at = at].pass = j.pass
<1> DEFINE f == [j EXCEPT !.at = at]
<1>1. f \in Jobs /\ f.batch = j.batch /\ f.message = j.message /\ f.at = at /\ f.rest = j.rest /\ f.pass = j.pass
  BY Zenon DEF Jobs, JobPlaces
<1> HIDE DEF f
<1>2. JobShape(f)
  BY <1>1 DEF JobShape, None
<1> QED BY <1>1, <1>2 DEF f

LEMMA NextMessageShape ==
  ASSUME NEW j \in Jobs, JobShape(j), j.at = "fallback", NEW m \in j.rest, NEW f,
         f = [j EXCEPT !.message = m, !.rest = j.rest \ {m}, !.at = "row"]
  PROVE  f \in Jobs /\ JobShape(f) /\ f.batch = j.batch
<1> DEFINE r == j.rest \ {m}
<1>0. m \in Messages /\ r \in SUBSET Messages /\ f = [j EXCEPT !.message = m, !.rest = r, !.at = "row"]
  BY DEF Jobs
<1> HIDE DEF r
<1>1. /\ f.batch = j.batch /\ f.message = m /\ f.at = "row" /\ f.rest = r /\ f.pass = j.pass
      /\ f \in Jobs
  BY <1>0, Zenon DEF Jobs, JobPlaces
<1>2. j.rest \subseteq j.batch /\ j.message = NoMessage /\ j.pass # None
      /\ (j.pass = "second" => j.batch \subseteq j.rest \cup {j.message})
  BY DEF JobShape
<1>3. NoMessage \notin j.batch
  BY NoMessageIsNone DEF Jobs
<1> QED BY <1>1, <1>2, <1>3 DEF JobShape, None, r

LEMMA AfterShape ==
  ASSUME NEW j \in Jobs, JobShape(j), j.at \in {"row", "operations", "cleanup"}, NEW failed \in BOOLEAN
  PROVE  /\ After(j, failed) \in Jobs /\ JobShape(After(j, failed))
         /\ After(j, failed).batch \subseteq j.batch
         /\ j.pass = None => After(j, failed) = NoJob
<1> DEFINE pass == IF failed /\ j.pass = "first" THEN "failed" ELSE j.pass
           batch == IF pass \in {"first", "failed"} THEN j.batch ELSE j.batch \ {j.message}
           next == [batch |-> batch, rest |-> j.rest, message |-> NoMessage, pass |-> pass, at |-> "fallback"]
           again == [next EXCEPT !.rest = batch, !.pass = "second"]
<1>1. After(j, failed) = IF j.rest # {} THEN next ELSE IF pass = "failed" THEN again ELSE NoJob
  BY DEF After
<1>2. /\ j.message \in j.batch /\ j.message \notin j.rest /\ j.rest \subseteq j.batch
      /\ j.pass = None => j.rest = {}
      /\ j.pass = "second" => j.batch \subseteq j.rest \cup {j.message}
      /\ j.pass \in {None, "first", "failed", "second"} /\ j.batch \in SUBSET Messages /\ j.rest \in SUBSET Messages
  BY DEF JobShape, Jobs
<1>3. /\ pass \in {None, "first", "failed", "second"} /\ (j.pass = None => pass = None)
      /\ (pass = "second" <=> j.pass = "second") /\ (pass = None => j.pass = None)
  BY <1>2, Zenon DEF None
<1>4. batch \in SUBSET Messages /\ batch \subseteq j.batch /\ j.rest \subseteq batch
      /\ (pass = "second" => batch \subseteq j.rest)
  BY <1>2, <1>3, Zenon
<1> HIDE DEF pass, batch
<1>5. next \in Jobs
  BY <1>2, <1>3, <1>4 DEF Jobs, JobPlaces
<1>0. /\ again.batch = batch /\ again.rest = batch /\ again.message = NoMessage
      /\ again.pass = "second" /\ again.at = "fallback" /\ again \in Jobs
  <2>1. next.batch = batch /\ next.message = NoMessage /\ next.at = "fallback"
    OBVIOUS
  <2> HIDE DEF next
  <2> QED BY <1>4, <1>5, <2>1, ZenonT(30) DEF Jobs
<1> HIDE DEF again
<1>6. j.rest # {} => JobShape(next)
  BY <1>2, <1>3, <1>4, Zenon DEF JobShape, None
<1>7. JobShape(again)
  BY <1>0, <1>4, Zenon DEF JobShape, None
<1>8. next.batch = batch /\ again.batch = batch /\ NoJob.batch = {}
  BY <1>0, Zenon DEF NoJob
<1>9. CASE j.rest # {}
  <2>1. After(j, failed) = next /\ j.pass # None
    BY <1>1, <1>2, <1>9, Zenon
  <2> HIDE DEF next
  <2> QED BY <1>4, <1>5, <1>6, <1>8, <1>9, <2>1, Zenon
<1>10. CASE j.rest = {} /\ pass = "failed"
  <2>1. After(j, failed) = again /\ j.pass # None
    BY <1>1, <1>3, <1>10, Zenon DEF None
  <2> QED BY <1>0, <1>4, <1>7, <1>8, <2>1, Zenon
<1>11. CASE j.rest = {} /\ pass # "failed"
  <2>1. After(j, failed) = NoJob
    BY <1>1, <1>11, Zenon
  <2> QED BY <1>8, <2>1, NoJobShape, Zenon
<1> QED BY <1>9, <1>10, <1>11

LEMMA SoundStays ==
  ASSUME WriteInv, SeedsAreUsed, [Next]_vars, NEW m \in Messages, Sound(m)
  PROVE  Sound(m)'
<1>1. m.tx \in Transactions /\ m.stage \in Stages
  BY Zenon DEF Messages
<1>2. Begun(m.tx)'
  BY <1>1, BegunStays, Zenon DEF Sound
<1> QED BY <1>1, <1>2, MovedGrows DEF Sound

\* A request persists its own message.
LEMMA HandsOver ==
  ASSUME NEW h \in Handlers, WriteTransactionSync(h) \/ WriteTransactionFallback(h)
  PROVE  /\ Sending(h) /\ job' = [job EXCEPT ![h] = Individual(Outgoing(h))]
         /\ \E to \in {"writing", "persisting"} : Goto(h, to)
  BY DEF WriteTransactionSync, WriteTransactionFallback, Ready, At, Sending

LEMMA Publishes ==
  ASSUME NEW h \in Handlers, WriteTransactionAsync(h)
  PROVE  Sending(h) /\ queue' = queue \cup {Outgoing(h)} /\ Goto(h, "written")
  BY DEF WriteTransactionAsync, Ready, At, Sending

\* What a request publishes.
LEMMA OutgoingSound ==
  ASSUME WriteInv, NEW h \in Handlers, Sending(h)
  PROVE  /\ Outgoing(h) \in Messages /\ Sound(Outgoing(h))
         /\ Outgoing(h).tx = handler[h].tx /\ Outgoing(h).stage = handler[h].stage
<1> DEFINE t == handler[h].tx
           stage == handler[h].stage
           ops == {Operation(t, stage, 0)}
           m == [tx |-> t, stage |-> stage, operations |-> ops, parent |-> (h \in Reverts), tries |-> 0]
<1>1. handler[h].at \in {"built", "updated"} /\ (h \notin Settlers => handler[h].at = "built")
  <2>1. h \notin Settlers => h \in Transactions
    BY DEF Handlers
  <2>2. h \in Transactions => handler[h].at \in CreatePlaces
    BY DEF WriteInv, RequestsSound
  <2> QED BY <2>1, <2>2 DEF Sending, CreatePlaces
<1>2. /\ t \in Transactions /\ stage \in StagesOf(t) /\ stage \in Stages
      /\ h \notin Settlers => h = t /\ stage = StageOf(t)
  BY <1>1, RequestKinds, Zenon
<1>3. moved[t][stage] > 0
  BY <1>1 DEF WriteInv, RequestsSound, Applied
<1>4. Begun(t)
  <2>1. CASE h \in Settlers
    BY <1>1, <2>1, Zenon DEF WriteInv, RequestsSound
  <2>2. CASE h \notin Settlers
    BY <1>1, <1>2, <1>3, <2>2, Zenon DEF Begun
  <2> QED BY <2>1, <2>2, Zenon
<1>5. ops # {} /\ ops \subseteq OperationsOf(t, stage)
      /\ ops \in SUBSET [tx : Transactions, stage : Stages, build : Nat]
  BY <1>2 DEF Operation, OperationsOf
<1>6. Outgoing(h) = m
  BY Zenon DEF Outgoing, Message
<1> HIDE DEF ops, t, stage
<1>7. m \in Messages
  BY <1>2, <1>5 DEF Messages
<1>8. m.tx = t /\ m.stage = stage /\ m.operations = ops
  OBVIOUS
<1> HIDE DEF m
<1> QED BY <1>2, <1>3, <1>4, <1>5, <1>6, <1>7, <1>8 DEF Sound, t, stage

\* What the cron publishes.
LEMMA ReplayedSound ==
  ASSUME WriteInv, NEW t \in Transactions, replay[t].valid,
         NEW m, m = Message(t, replay[t].stage, ReplayedOperations(t), FALSE)
  PROVE  m \in Messages /\ Sound(m) /\ m.tx = t /\ m.stage = replay[t].stage
<1> DEFINE stage == replay[t].stage
           ops == ReplayedOperations(t)
<1>0. replay[t] # NoEntry
  BY DEF NoEntry
<1>1. /\ Begun(t)
      /\ stage \in StagesOf(t) /\ replay[t].ran /\ stage \in Stages
      /\ replay[t].operations \subseteq OperationsOf(t, stage)
      /\ moved[t][stage] > 0
  BY <1>0, StagesAreTyped DEF WriteInv, ReplaySound
<1>2. replays[t] \in Nat
  BY Zenon DEF WriteInv, WriteTypes
<1>3. ops # {} /\ ops \subseteq OperationsOf(t, stage)
  <2>1. CASE replay[t].operations # {}
    BY <1>1, <2>1, Zenon DEF ReplayedOperations
  <2>2. CASE replay[t].operations = {}
    <3>1. ops = {Operation(t, stage, replays[t])}
      BY <1>1, <2>2, Zenon DEF ReplayedOperations
    <3> HIDE DEF ops
    <3> QED BY <1>2, <3>1 DEF Operation, OperationsOf
  <2> QED BY <2>1, <2>2, Zenon
<1>4. ops \in SUBSET [tx : Transactions, stage : Stages, build : Nat]
  <2> HIDE DEF ops, stage
  <2> QED BY <1>1, <1>3 DEF OperationsOf
<1> DEFINE r == [tx |-> t, stage |-> stage, operations |-> ops, parent |-> FALSE, tries |-> 0]
<1>5. m = r
  BY Zenon DEF Message
<1> HIDE DEF ops, stage
<1>6. r \in Messages
  BY <1>1, <1>4 DEF Messages
<1>7. r.tx = t /\ r.stage = stage /\ r.operations = ops
  OBVIOUS
<1> HIDE DEF r
<1> QED BY <1>1, <1>3, <1>5, <1>6, <1>7, Zenon DEF Sound, stage

LEMMA QueueStep ==
  ASSUME WriteInv, SeedsAreUsed, [Next]_vars
  PROVE  \A m \in queue' : m \in Messages /\ Sound(m)
<1>1. /\ queue \in SUBSET Messages /\ \A m \in queue : Sound(m)
      /\ \A w \in Writers : \A m \in job[w].batch : m \in Messages /\ Sound(m)
  BY BatchIsSound DEF WriteInv, WriteTypes, MessagesSound
<1>2. CASE queue' = queue
  BY <1>1, <1>2, Zenon
<1>3. CASE \E h \in Handlers : WriteTransactionAsync(h)
  BY <1>1, <1>3, OutgoingSound, Publishes, Zenon
<1>4. CASE \E w \in Writers : HandleFailure(w)
  <2>1. PICK w \in Writers : HandleFailure(w)
    BY <1>4
  <2> DEFINE m == job[w].message
             n == [m EXCEPT !.tries = @ + 1]
  <2>2. job[w].at \in {"row", "operations"} /\ (queue' = queue \/ queue' = queue \cup {n})
    BY <2>1 DEF HandleFailure
  <2>3. m \in Messages /\ Sound(m)
    BY <2>2, MessageIsSound, BatchIsSound
  <2> HIDE DEF m
  <2>4. n \in Messages /\ n.tx = m.tx /\ n.stage = m.stage /\ n.operations = m.operations
    BY <2>3 DEF Messages
  <2> HIDE DEF n
  <2>5. Sound(n)
    BY <2>3, <2>4 DEF Sound
  <2> QED BY <1>1, <2>2, <2>4, <2>5
<1>5. CASE \E c \in Consumers : Deliver(c) \/ CollectBatch(c) \/ Redeliver(c)
  <2>1. PICK c \in Consumers : Deliver(c) \/ CollectBatch(c) \/ Redeliver(c)
    BY <1>5, Zenon
  <2>2. queue' \subseteq queue \cup job[c].batch
    BY <2>1 DEF Deliver, CollectBatch, Redeliver
  <2>3. c \in Writers
    BY DEF Writers
  <2> QED BY <1>1, <2>2, <2>3
<1>6. CASE \E t \in Transactions : ProcessMessage(t)
  BY <1>1, <1>6, ReplayedSound, Zenon DEF ProcessMessage
<1> QED BY <1>2, <1>3, <1>4, <1>5, <1>6, QueueSteps, Zenon

\* What a step makes of the job of one worker.
LEMMA JobChanges ==
  ASSUME WriteInv, [Next]_vars
  PROVE  /\ job' = [w \in Writers |-> job'[w]]
         /\ \A w \in Writers : job'[w] # job[w] =>
              \/ w \in Handlers /\ (WriteTransactionSync(w) \/ WriteTransactionFallback(w))
              \/ CreateOrUpdateTransaction(w) \/ CreateOperations(w) \/ FinishWrite(w) \/ HandleFailure(w)
              \/ /\ w \in Consumers
                 /\ \/ Deliver(w) \/ CollectBatch(w) \/ AtomicBulkInsert(w) \/ PerformBulkStatusUpdate(w)
                    \/ ProcessMetadataAndEvents(w) \/ ProcessIndividually(w) \/ FailBulk(w) \/ Redeliver(w)
<1> job \in [Writers -> Jobs] /\ Handlers \subseteq Writers /\ Consumers \subseteq Writers
  BY DEF WriteInv, WriteTypes, Writers
<1>1. CASE job' = job
  BY <1>1
<1>2. ASSUME NEW h \in Handlers, WriteTransactionSync(h) \/ WriteTransactionFallback(h)
      PROVE  \E j : job' = [job EXCEPT ![h] = j]
  BY <1>2 DEF WriteTransactionSync, WriteTransactionFallback
<1>3. ASSUME NEW w \in Writers,
             CreateOrUpdateTransaction(w) \/ CreateOperations(w) \/ FinishWrite(w) \/ HandleFailure(w)
      PROVE  \E j : job' = [job EXCEPT ![w] = j]
  <2>1. CASE CreateOrUpdateTransaction(w) \/ CreateOperations(w)
    <3>1. \E at : job' = [job EXCEPT ![w].at = at]
      BY <2>1 DEF CreateOrUpdateTransaction, CreateOperations
    <3> QED BY <3>1, Zenon
  <2>2. CASE FinishWrite(w) \/ HandleFailure(w)
    BY <2>2, ZenonT(30) DEF FinishWrite, HandleFailure
  <2> QED BY <1>3, <2>1, <2>2
<1>4. ASSUME NEW c \in Consumers,
             \/ Deliver(c) \/ CollectBatch(c) \/ AtomicBulkInsert(c) \/ PerformBulkStatusUpdate(c)
             \/ ProcessMetadataAndEvents(c) \/ ProcessIndividually(c) \/ FailBulk(c) \/ Redeliver(c)
      PROVE  \E j : job' = [job EXCEPT ![c] = j]
  <2>1. CASE Deliver(c) \/ CollectBatch(c) \/ ProcessMetadataAndEvents(c) \/ FailBulk(c) \/ Redeliver(c)
    BY <2>1 DEF Deliver, CollectBatch, ProcessMetadataAndEvents, FailBulk, Redeliver
  <2>2. CASE AtomicBulkInsert(c)
    <3>1. \/ job' = [job EXCEPT ![c].at = "status"]
          \/ job' = [job EXCEPT ![c] = Fallback(job[c])]
      BY <2>2 DEF AtomicBulkInsert
    <3> QED BY <3>1
  <2>3. CASE PerformBulkStatusUpdate(c)
    BY <2>3, Zenon DEF PerformBulkStatusUpdate
  <2>4. CASE ProcessIndividually(c)
    BY <2>4, Zenon DEF ProcessIndividually
  <2> QED BY <1>4, <2>1, <2>2, <2>3, <2>4, Zenon
<1>5. ASSUME NEW v \in Writers, \E j : job' = [job EXCEPT ![v] = j]
      PROVE  job' = [w \in Writers |-> job'[w]] /\ \A w \in Writers : job'[w] # job[w] => w = v
  BY <1>5, Zenon
<1>6. CASE \E h \in Handlers : WriteTransactionSync(h) \/ WriteTransactionFallback(h)
  BY <1>2, <1>5, <1>6, Zenon
<1>7. CASE \E w \in Writers : CreateOrUpdateTransaction(w) \/ CreateOperations(w) \/ FinishWrite(w) \/ HandleFailure(w)
  BY <1>3, <1>5, <1>7, Zenon
<1>8. CASE \E c \in Consumers :
             \/ Deliver(c) \/ CollectBatch(c) \/ AtomicBulkInsert(c) \/ PerformBulkStatusUpdate(c)
             \/ ProcessMetadataAndEvents(c) \/ ProcessIndividually(c) \/ FailBulk(c) \/ Redeliver(c)
  <2>1. PICK c \in Consumers :
             \/ Deliver(c) \/ CollectBatch(c) \/ AtomicBulkInsert(c) \/ PerformBulkStatusUpdate(c)
             \/ ProcessMetadataAndEvents(c) \/ ProcessIndividually(c) \/ FailBulk(c) \/ Redeliver(c)
    BY <1>8
  <2>2. job' = [w \in Writers |-> job'[w]] /\ \A w \in Writers : job'[w] # job[w] => w = c
    BY <1>4, <1>5, <2>1, Zenon
  <2> QED BY <2>1, <2>2
<1> QED BY <1>1, <1>6, <1>7, <1>8, JobSteps

LEMMA JobStep ==
  ASSUME WriteInv, SeedsAreUsed, [Next]_vars, NEW w \in Writers
  PROVE  /\ job'[w] \in Jobs /\ JobShape(job'[w])
         /\ \A m \in job'[w].batch : m \in Messages /\ Sound(m)
<1>0. job \in [Writers -> Jobs] /\ job[w] \in Jobs
  BY DEF WriteInv, WriteTypes
<1>1. /\ JobShape(job[w]) /\ \A m \in job[w].batch : m \in Messages /\ Sound(m)
      /\ \A m \in queue : m \in Messages /\ Sound(m)
  BY BatchIsSound, Zenon DEF WriteInv, WriteTypes, MessagesSound
<1>2. CASE job'[w] = job[w]
  BY <1>0, <1>1, <1>2, Zenon
<1>3. CASE w \in Handlers /\ (WriteTransactionSync(w) \/ WriteTransactionFallback(w))
  <2>1. Sending(w) /\ job' = [job EXCEPT ![w] = Individual(Outgoing(w))]
    BY <1>3, HandsOver, Zenon
  <2>2. Outgoing(w) \in Messages /\ Sound(Outgoing(w))
    BY <1>3, <2>1, OutgoingSound, Zenon
  <2>3. job'[w] = Individual(Outgoing(w)) /\ Individual(Outgoing(w)).batch = {Outgoing(w)}
    BY <1>0, <2>1, Zenon DEF Individual
  <2> QED BY <2>2, <2>3, IndividualShape
<1>4. CASE CreateOrUpdateTransaction(w) \/ CreateOperations(w)
  <2>1. PICK at : /\ <<job[w].at, at>> \in {<<"row", "operations">>, <<"operations", "cleanup">>}
                  /\ job' = [job EXCEPT ![w].at = at]
    BY <1>4 DEF CreateOrUpdateTransaction, CreateOperations
  <2>2. job'[w] = [job[w] EXCEPT !.at = at]
    BY <1>0, <2>1
  <2>3. job'[w] \in Jobs /\ JobShape(job'[w]) /\ job'[w].batch = job[w].batch
    BY <1>0, <1>1, <2>1, <2>2, PlaceShape
  <2> QED BY <1>1, <2>3
<1>5. CASE FinishWrite(w) \/ HandleFailure(w)
  <2>1. PICK failed \in BOOLEAN : /\ job[w].at \in {"row", "operations", "cleanup"}
                                  /\ job' = [job EXCEPT ![w] = After(job[w], failed)]
    BY <1>5, Zenon DEF FinishWrite, HandleFailure
  <2>2. job'[w] = After(job[w], failed)
    BY <1>0, <2>1, Zenon
  <2>3. job'[w] \in Jobs /\ JobShape(job'[w]) /\ job'[w].batch \subseteq job[w].batch
    BY <1>0, <1>1, <2>1, <2>2, AfterShape, Zenon
  <2> QED BY <1>1, <2>3
<1>6. CASE Deliver(w)
  <2>1. PICK m \in queue : job' = [job EXCEPT ![w] = Individual(m)]
    BY <1>6, Zenon DEF Deliver
  <2>2. job'[w] = Individual(m) /\ Individual(m).batch = {m}
    BY <1>0, <2>1, Zenon DEF Individual
  <2> QED BY <1>1, <2>2, IndividualShape
<1>7. CASE CollectBatch(w)
  <2>1. PICK ms \in SUBSET queue : job' = [job EXCEPT ![w] = Bulk(ms)]
    BY <1>7, Zenon DEF CollectBatch
  <2>2. job'[w] = Bulk(ms) /\ Bulk(ms).batch = ms /\ ms \in SUBSET Messages
    BY <1>0, <1>1, <2>1 DEF Bulk
  <2> QED BY <1>1, <2>1, <2>2, BulkShape
<1>8. CASE AtomicBulkInsert(w)
  <2>1. /\ job[w].at = "bulk"
        /\ \/ job' = [job EXCEPT ![w].at = "status"]
           \/ job' = [job EXCEPT ![w] = Fallback(job[w])]
    BY <1>8 DEF AtomicBulkInsert
  <2>2. job'[w] = [job[w] EXCEPT !.at = "status"] \/ job'[w] = Fallback(job[w])
    BY <1>0, <2>1, Zenon
  <2>3. CASE job'[w] = [job[w] EXCEPT !.at = "status"]
    <3>1. job'[w] \in Jobs /\ JobShape(job'[w]) /\ job'[w].batch = job[w].batch
      BY <1>0, <1>1, <2>1, <2>3, PlaceShape
    <3> QED BY <1>1, <3>1
  <2> QED BY <1>0, <1>1, <2>2, <2>3, FallbackShape
<1>9. CASE PerformBulkStatusUpdate(w)
  <2>1. /\ job[w].at = "status"
        /\ \E b \in BOOLEAN : job' = [job EXCEPT ![w] = IF b THEN Fallback(job[w]) ELSE [job[w] EXCEPT !.at = "events"]]
    BY <1>9, Zenon DEF PerformBulkStatusUpdate
  <2>0. job[w].at = "status"
    BY <2>1
  <2>2. job'[w] = [job[w] EXCEPT !.at = "events"] \/ job'[w] = Fallback(job[w])
    BY <1>0, <2>1, Zenon
  <2>3. CASE job'[w] = [job[w] EXCEPT !.at = "events"]
    <3>1. job'[w] \in Jobs /\ JobShape(job'[w]) /\ job'[w].batch = job[w].batch
      BY <1>0, <1>1, <2>0, <2>3, PlaceShape
    <3> QED BY <1>1, <3>1
  <2> QED BY <1>0, <1>1, <2>2, <2>3, FallbackShape
<1>10. CASE FailBulk(w)
  <2>1. job'[w] = Fallback(job[w])
    BY <1>0, <1>10 DEF FailBulk
  <2> QED BY <1>0, <1>1, <2>1, FallbackShape, Zenon
<1>11. CASE ProcessMetadataAndEvents(w) \/ Redeliver(w)
  <2>1. job'[w] = NoJob
    BY <1>0, <1>11 DEF ProcessMetadataAndEvents, Redeliver
  <2>2. NoJob.batch = {}
    BY Zenon DEF NoJob
  <2> QED BY <2>1, <2>2, NoJobShape, Zenon
<1>12. CASE ProcessIndividually(w)
  <2>1. PICK m \in job[w].rest : /\ job[w].at = "fallback"
                                 /\ job' = [job EXCEPT ![w].message = m, ![w].rest = @ \ {m}, ![w].at = "row"]
    BY <1>12, Zenon DEF ProcessIndividually
  <2>2. job'[w] = [job[w] EXCEPT !.message = m, !.rest = job[w].rest \ {m}, !.at = "row"]
    BY <1>0, <2>1 DEF Jobs
  <2>0. job[w].at = "fallback" /\ m \in job[w].rest /\ JobShape(job[w])
    BY <1>1, <2>1
  <2>3. job'[w] \in Jobs /\ JobShape(job'[w]) /\ job'[w].batch = job[w].batch
    BY <1>0, <2>0, <2>2, NextMessageShape, ZenonT(30)
  <2> QED BY <1>1, <2>3
<1> QED BY <1>2, <1>3, <1>4, <1>5, <1>6, <1>7, <1>8, <1>9, <1>10, <1>11, <1>12, JobChanges, Zenon

\* A request that persists its own message waits for nothing else.
LEMMA OwnJobStep ==
  ASSUME WriteInv, SeedsAreUsed, [Next]_vars, NEW h \in Handlers, job'[h].at # None
  PROVE  /\ job'[h].pass = None /\ job'[h].at \in {"row", "operations", "cleanup"}
         /\ Writing(h)'
         /\ job'[h].message.tx = handler'[h].tx /\ job'[h].message.stage = handler'[h].stage
<1> h \in Writers /\ h \notin Consumers
  BY RequestsAssumption DEF Writers
<1>0. /\ job \in [Writers -> Jobs] /\ job[h] \in Jobs /\ handler \in [Handlers -> Requests]
      /\ JobShape(job[h])
  BY Zenon DEF WriteInv, WriteTypes, MessagesSound
<1>1. job[h].at # None =>
        /\ job[h].pass = None /\ job[h].at \in {"row", "operations", "cleanup"}
        /\ Writing(h)
        /\ job[h].message.tx = handler[h].tx /\ job[h].message.stage = handler[h].stage
  BY Zenon DEF WriteInv, MessagesSound
<1>2. ~FinishWrite(h) /\ ~HandleFailure(h)
  <2>1. SUFFICES ASSUME FinishWrite(h) \/ HandleFailure(h) PROVE FALSE
    OBVIOUS
  <2>2. PICK failed \in BOOLEAN : /\ job[h].at \in {"row", "operations", "cleanup"}
                                  /\ job' = [job EXCEPT ![h] = After(job[h], failed)]
    BY <2>1, Zenon DEF FinishWrite, HandleFailure
  <2>3. job[h].pass = None
    BY <1>1, <2>2, Zenon DEF None
  <2>4. job'[h] = NoJob
    BY <1>0, <2>2, <2>3, AfterShape, Zenon
  <2> QED BY <2>4 DEF NoJob
<1>3. CASE job'[h] = job[h]
  <2>1. handler'[h] = handler[h]
    <3>1. SUFFICES ASSUME handler'[h] # handler[h] PROVE FALSE
      BY Zenon
    <3>2. ~GetTransaction(h)
      BY <1>1, <1>3 DEF GetTransaction, At, Writing
    <3>3. Continues(h, handler'[h].at)
      <4>1. handler[h].at \notin {"idle", "checked", "done"}
        BY <1>1, <1>3 DEF Writing
      <4> QED BY <3>1, <3>2, <4>1, RequestChanges, Zenon
    <3> QED BY <1>1, <1>2, <1>3, <3>3 DEF Continues
  <2>2. Writing(h)' <=> Writing(h)
    BY <2>1 DEF Writing
  <2> QED BY <1>1, <1>3, <2>1, <2>2
<1>4. CASE WriteTransactionSync(h) \/ WriteTransactionFallback(h)
  <2>1. Sending(h) /\ job' = [job EXCEPT ![h] = Individual(Outgoing(h))]
        /\ \E to \in {"writing", "persisting"} : Goto(h, to)
    BY <1>4, HandsOver, Zenon
  <2>2. job'[h] = Individual(Outgoing(h))
    BY <1>0, <2>1, Zenon
  <2>3. job'[h].pass = None /\ job'[h].at = "row" /\ job'[h].message = Outgoing(h)
    BY <2>2 DEF Individual
  <2>4. Outgoing(h).tx = handler[h].tx /\ Outgoing(h).stage = handler[h].stage
    BY <2>1, OutgoingSound
  <2>5. Writing(h)' /\ handler'[h].tx = handler[h].tx /\ handler'[h].stage = handler[h].stage
    BY <1>0, <2>1 DEF Requests, Writing, Goto
  <2> QED BY <2>3, <2>4, <2>5
<1>5. CASE CreateOrUpdateTransaction(h) \/ CreateOperations(h)
  <2>1. PICK at : /\ <<job[h].at, at>> \in {<<"row", "operations">>, <<"operations", "cleanup">>}
                  /\ job' = [job EXCEPT ![h].at = at] /\ handler' = handler
    BY <1>5 DEF CreateOrUpdateTransaction, CreateOperations
  <2>2. job'[h] = [job[h] EXCEPT !.at = at]
    BY <1>0, <2>1
  <2>3. job'[h].message = job[h].message /\ job'[h].pass = job[h].pass /\ job'[h].at = at
    BY <1>0, <2>1, <2>2, PlaceShape
  <2>4. Writing(h)' <=> Writing(h)
    BY <2>1 DEF Writing
  <2> QED BY <1>1, <2>1, <2>3, <2>4 DEF None
<1> QED BY <1>2, <1>3, <1>4, <1>5, JobChanges

LEMMA MessagesStep ==
  ASSUME WriteInv, SeedsAreUsed, [Next]_vars
  PROVE  MessagesSound' /\ queue' \in SUBSET Messages /\ job' \in [Writers -> Jobs]
<1>1. \A m \in queue' : m \in Messages /\ Sound(m)'
  BY QueueStep, SoundStays
<1>2. \A w \in Writers : job'[w] \in Jobs /\ JobShape(job'[w]) /\ \A m \in job'[w].batch : Sound(m)'
  BY JobStep, SoundStays
<1>3. job' \in [Writers -> Jobs]
  BY <1>2, JobChanges
<1> QED BY <1>1, <1>2, <1>3, OwnJobStep DEF MessagesSound

LEMMA WriteInit == Init => WriteInv
<1> SUFFICES ASSUME Init PROVE WriteInv
  BY Zenon
<1>0. NoEntry \in Entries /\ NoEntry.stage = None /\ NoEntry.valid = FALSE
  BY DEF NoEntry, Entries
<1>1. \A h \in Handlers : handler[h] \in Requests /\ handler[h].at \in {"idle", "done"}
  BY DEF Init, Idle, Requests, CreatePlaces, Statuses
<1>2. WriteTypes
  BY <1>0, <1>1, NoJobShape, Zenon DEF Init, WriteTypes, Statuses, Stages
<1>3. RequestsSound
  BY <1>1 DEF RequestsSound, Handlers, CreatePlaces, SettlePlaces, Applied
<1>4. BackupSound /\ ReplaySound
  BY <1>0 DEF Init, BackupSound, EntrySound, ReplaySound
<1>5. MessagesSound
  <2>1. NoJob.at = None /\ NoJob.batch = {}
    BY DEF NoJob
  <2>2. \A w \in Writers : job[w] = NoJob
    BY DEF Init
  <2>3. queue = {} /\ Handlers \subseteq Writers
    BY DEF Init, Writers
  <2> QED BY <2>1, <2>2, <2>3, NoJobShape, Zenon DEF MessagesSound
<1>6. TablesSound
  BY DEF Init, TablesSound, None, Settled
<1> QED BY <1>2, <1>3, <1>4, <1>5, <1>6 DEF WriteInv

LEMMA WriteStep ==
  ASSUME WriteInv, SeedsAreUsed, [Next]_vars
  PROVE  WriteInv'
<1>1. WriteTypes'
  BY RequestsTyped, MovedGrows, BackupStep, TablesStep, MessagesStep, ReplayStep DEF WriteTypes
<1> QED BY <1>1, RequestsStep, BackupStep, ReplayStep, MessagesStep, TablesStep, Zenon DEF WriteInv

LEMMA WriteInvariant ==
  ASSUME SeedsAreUsed
  PROVE  Spec => []WriteInv
<1>1. WriteInv /\ [Next]_vars => WriteInv'
  BY WriteStep
<1> QED BY <1>1, WriteInit, PTL DEF Spec
-----------------------------------------------------------------------------

\* Every row, settled status and operation goes back to balances that the
\* script moved, for any requests, workers, replays and failures, as long as
\* no request dies between the seed of its backup entry and the script.
THEOREM OnlyMovesArePersisted == SeedsAreUsed => (Spec => []PersistedWasMoved)
<1> SUFFICES ASSUME SeedsAreUsed PROVE Spec => []PersistedWasMoved
  BY Zenon
<1>1. WriteInv => PersistedWasMoved
  BY DEF WriteInv, TablesSound, PersistedWasMoved, Begun
<1> QED BY <1>1, WriteInvariant, PTL-----------------------------------------------------------------------------
(***************************************************************************)
(* What becomes of a message.                                              *)
(***************************************************************************)
\* A worker has persisted the message and may let go of it.
Completed(j, m) ==
    \/ j.at = "events"
    \/ j.at = "cleanup" /\ m = j.message
    \/ j.pass = "first" /\ m \notin j.rest /\ m # j.message

\* A worker has written the row of the message.
Finished(j, m) == Completed(j, m) \/ (j.at = "operations" /\ m = j.message)

Persisting(t, stage) ==
    \/ \E m \in queue : m.tx = t /\ m.stage = stage
    \/ \E w \in Writers : \E m \in job[w].batch : m.tx = t /\ m.stage = stage

\* What a worker still has after a message is dealt with.
LEMMA AfterKeeps ==
  ASSUME NEW j \in Jobs, JobShape(j), NEW failed \in BOOLEAN, j.at \in {"row", "operations", "cleanup"},
         NEW m \in j.batch
  PROVE  /\ \/ m \in After(j, failed).batch
            \/ m = j.message
            \/ Completed(j, m) /\ ~failed
         /\ failed /\ j.pass \in {"first", "failed"} => m \in After(j, failed).batch
         /\ m \in After(j, failed).batch /\ Finished(After(j, failed), m) =>
              Completed(j, m) \/ (m = j.message /\ ~failed)
<1> DEFINE pass == IF failed /\ j.pass = "first" THEN "failed" ELSE j.pass
           batch == IF pass \in {"first", "failed"} THEN j.batch ELSE j.batch \ {j.message}
           next == [batch |-> batch, rest |-> j.rest, message |-> NoMessage, pass |-> pass, at |-> "fallback"]
           again == [next EXCEPT !.rest = batch, !.pass = "second"]
<1>1. After(j, failed) = IF j.rest # {} THEN next ELSE IF pass = "failed" THEN again ELSE NoJob
  BY DEF After
<1>2. /\ j.message \in j.batch /\ j.message \notin j.rest /\ j.rest \subseteq j.batch
      /\ j.pass = None => j.rest = {} /\ j.batch = {j.message}
      /\ j.pass = "second" => j.batch \subseteq j.rest \cup {j.message}
      /\ j.pass \in {None, "first", "failed", "second"} /\ j.batch \in SUBSET Messages
  BY Zenon DEF JobShape, Jobs
<1>3. pass = "first" <=> j.pass = "first" /\ ~failed
  OBVIOUS
<1>4. pass \in {"first", "failed"} <=> j.pass \in {"first", "failed"}
  BY Zenon
<1>5. /\ j.pass \in {"first", "failed"} => batch = j.batch
      /\ m # j.message => m \in batch
  BY <1>4, Zenon
<1>6. next.batch = batch /\ next.rest = j.rest /\ next.pass = pass /\ next.at = "fallback" /\ next.message = NoMessage
  OBVIOUS
<1>7. again.batch = batch /\ again.pass = "second" /\ again.at = "fallback"
  BY Zenon
<1>8. NoJob.batch = {}
  BY Zenon DEF NoJob
<1>9. CASE j.rest # {}
  <2>1. After(j, failed) = next
    BY <1>1, <1>9, Zenon
  <2> HIDE DEF next, again, pass, batch
  <2> QED BY <1>2, <1>3, <1>5, <1>6, <2>1 DEF Completed, Finished
<1>10. CASE j.rest = {} /\ pass = "failed"
  <2>1. After(j, failed) = again
    BY <1>1, <1>10, Zenon
  <2> HIDE DEF next, again, pass, batch
  <2> QED BY <1>2, <1>4, <1>5, <1>7, <1>10, <2>1 DEF Completed, Finished
<1>11. CASE j.rest = {} /\ pass # "failed"
  <2>1. After(j, failed) = NoJob
    BY <1>1, <1>11
  <2>2. failed => j.pass \notin {"first", "failed"}
    BY <1>11
  <2>3. pass = j.pass /\ (j.pass = "first" => ~failed)
    BY <1>11, Zenon
  <2> HIDE DEF next, again, pass, batch
  <2> QED BY <1>2, <1>8, <1>11, <2>1, <2>2, <2>3 DEF Completed, Finished
<1> QED BY <1>9, <1>10, <1>11, Zenon

\* A message is kept until a worker has persisted it, unless the handler that
\* persists it itself fails or it is dead-lettered.
LEMMA NotDropped ==
  ASSUME WriteInv, SeedsAreUsed, [Next]_vars, NEW w \in Writers, NEW m \in job[w].batch
  PROVE  \/ Persisting(m.tx, m.stage)'
         \/ Completed(job[w], m)
         \/ <<"fallback", m.stage>> \in Faults \/ <<"deadletter", m.stage>> \in Faults
<1>0. job \in [Writers -> Jobs] /\ job[w] \in Jobs /\ JobShape(job[w]) /\ m \in Messages
  BY BatchIsSound, Zenon DEF WriteInv, WriteTypes, MessagesSound
<1>1. m \in job'[w].batch => Persisting(m.tx, m.stage)'
  BY Zenon DEF Persisting
<1>2. CASE job'[w] = job[w]
  BY <1>1, <1>2, Zenon
<1>3. CASE w \in Handlers /\ (WriteTransactionSync(w) \/ WriteTransactionFallback(w))
  <2>1. handler[w].at \in {"built", "updated"}
    BY <1>3, ZenonT(30) DEF WriteTransactionSync, WriteTransactionFallback, Ready, At
  <2>2. job[w].at = None
    BY <1>3, <2>1 DEF WriteInv, MessagesSound, Writing
  <2>3. job[w] = NoJob
    BY <1>0, <2>2, Zenon DEF JobShape
  <2> QED BY <2>3, JobFields, Zenon
<1>4. CASE CreateOrUpdateTransaction(w) \/ CreateOperations(w)
  <2>1. \E at : job' = [job EXCEPT ![w].at = at]
    BY <1>4 DEF CreateOrUpdateTransaction, CreateOperations
  <2>2. job'[w].batch = job[w].batch
    BY <1>0, <2>1 DEF Jobs
  <2> QED BY <1>1, <2>2
<1>5. CASE FinishWrite(w)
  <2>1. job'[w] = After(job[w], FALSE) /\ job[w].at = "cleanup"
    BY <1>0, <1>5 DEF FinishWrite
  <2>2. m \in After(job[w], FALSE).batch \/ m = job[w].message \/ Completed(job[w], m)
    BY <1>0, <2>1, AfterKeeps, Zenon
  <2> QED BY <1>1, <2>1, <2>2, Zenon DEF Completed
<1>6. CASE HandleFailure(w)
  <2>1. job'[w] = After(job[w], TRUE) /\ job[w].at \in {"row", "operations"}
    BY <1>0, <1>6 DEF HandleFailure
  <2>2. /\ m \in After(job[w], TRUE).batch \/ m = job[w].message
        /\ job[w].pass \in {"first", "failed"} => m \in After(job[w], TRUE).batch
    BY <1>0, <2>1, AfterKeeps, Zenon
  <2>3. ASSUME m = job[w].message, w \in Handlers
        PROVE  <<"fallback", m.stage>> \in Faults
    BY <1>6, <2>3 DEF HandleFailure, Fault
  <2>4. ASSUME m = job[w].message, w \notin Handlers, job[w].pass \notin {"first", "failed"}
        PROVE  queue' = queue \cup {[m EXCEPT !.tries = @ + 1]} \/ <<"deadletter", m.stage>> \in Faults
    BY <1>6, <2>4 DEF HandleFailure
  <2>5. [m EXCEPT !.tries = @ + 1].tx = m.tx /\ [m EXCEPT !.tries = @ + 1].stage = m.stage
    BY <1>0 DEF Messages
  <2>6. queue' = queue \cup {[m EXCEPT !.tries = @ + 1]} => Persisting(m.tx, m.stage)'
    BY <2>5, Zenon DEF Persisting
  <2> QED BY <1>1, <2>1, <2>2, <2>3, <2>4, <2>6, ZenonT(30)
<1>7. CASE Deliver(w) \/ CollectBatch(w)
  <2>1. job[w].at = None
    BY <1>7, Zenon DEF Deliver, CollectBatch
  <2>2. job[w] = NoJob
    BY <1>0, <2>1 DEF JobShape
  <2> QED BY <2>2, JobFields, Zenon
<1>8. CASE AtomicBulkInsert(w)
  <2>1. \/ job' = [job EXCEPT ![w].at = "status"]
        \/ job' = [job EXCEPT ![w] = Fallback(job[w])]
    BY <1>8 DEF AtomicBulkInsert
  <2>2. job'[w] = [job[w] EXCEPT !.at = "status"] \/ job'[w] = Fallback(job[w])
    BY <1>0, <2>1
  <2>3. [job[w] EXCEPT !.at = "status"].batch = job[w].batch
    BY <1>0 DEF Jobs
  <2> QED BY <1>0, <1>1, <2>2, <2>3, FallbackShape, Zenon
<1>9. CASE PerformBulkStatusUpdate(w)
  <2>1. \E b \in BOOLEAN : job' = [job EXCEPT ![w] = IF b THEN Fallback(job[w]) ELSE [job[w] EXCEPT !.at = "events"]]
    BY <1>9, Zenon DEF PerformBulkStatusUpdate
  <2>2. job'[w] = [job[w] EXCEPT !.at = "events"] \/ job'[w] = Fallback(job[w])
    BY <1>0, <2>1
  <2>3. [job[w] EXCEPT !.at = "events"].batch = job[w].batch
    BY <1>0, Zenon DEF Jobs
  <2> QED BY <1>0, <1>1, <2>2, <2>3, FallbackShape, Zenon
<1>10. CASE FailBulk(w)
  <2>1. job'[w] = Fallback(job[w])
    BY <1>0, <1>10, Zenon DEF FailBulk
  <2> QED BY <1>0, <1>1, <2>1, FallbackShape
<1>11. CASE ProcessMetadataAndEvents(w)
  BY <1>11, Zenon DEF ProcessMetadataAndEvents, Completed
<1>12. CASE Redeliver(w)
  <2>1. m \in queue'
    BY <1>12, Zenon DEF Redeliver
  <2> QED BY <2>1, Zenon DEF Persisting
<1>13. CASE ProcessIndividually(w)
  <2>1. PICK n \in job[w].rest :
          job' = [job EXCEPT ![w].message = n, ![w].rest = @ \ {n}, ![w].at = "row"]
    BY <1>13, Zenon DEF ProcessIndividually
  <2>2. job'[w].batch = job[w].batch
    BY <1>0, <2>1 DEF Jobs
  <2> QED BY <1>1, <2>2
<1> QED BY <1>2, <1>3, <1>4, <1>5, <1>6, <1>7, <1>8, <1>9, <1>10, <1>11, <1>12, <1>13, JobChanges, Zenon

\* A message leaves the queue only for the batch of a worker.
LEMMA QueuedNotDropped ==
  ASSUME WriteInv, SeedsAreUsed, [Next]_vars, NEW m \in queue
  PROVE  Persisting(m.tx, m.stage)'
<1> job \in [Writers -> Jobs] /\ Consumers \subseteq Writers
  BY Zenon DEF WriteInv, WriteTypes, Writers
<1>1. CASE m \in queue'
  BY <1>1, Zenon DEF Persisting
<1>2. CASE m \notin queue'
  <2>1. PICK c \in Consumers : Deliver(c) \/ CollectBatch(c)
    BY <1>2, QueueSteps, Zenon DEF WriteTransactionAsync, HandleFailure, Redeliver, ProcessMessage
  <2>2. m \in job'[c].batch
    <3>1. CASE Deliver(c)
      <4>1. PICK n \in queue : queue' = queue \ {n} /\ job' = [job EXCEPT ![c] = Individual(n)]
        BY <3>1, Zenon DEF Deliver
      <4>2. n = m /\ job'[c] = Individual(n)
        BY <1>2, <4>1
      <4> QED BY <4>2, JobFields, Zenon
    <3>2. CASE CollectBatch(c)
      <4>1. PICK ms \in SUBSET queue : queue' = queue \ ms /\ job' = [job EXCEPT ![c] = Bulk(ms)]
        BY <3>2, ZenonT(30) DEF CollectBatch
      <4>2. m \in ms /\ job'[c] = Bulk(ms)
        BY <1>2, <4>1
      <4> QED BY <4>2 DEF Bulk
    <3> QED BY <2>1, <3>1, <3>2, Zenon
  <2> QED BY <2>2 DEF Persisting
<1> QED BY <1>1, <1>2

LEMMA PersistingStays ==
  ASSUME WriteInv, SeedsAreUsed, [Next]_vars, NEW t, NEW stage, Persisting(t, stage),
         <<"fallback", stage>> \notin Faults, <<"deadletter", stage>> \notin Faults
  PROVE  \/ Persisting(t, stage)'
         \/ \E w \in Writers : \E m \in job[w].batch : m.tx = t /\ m.stage = stage /\ Completed(job[w], m)
  BY NotDropped, QueuedNotDropped DEF Persisting

\* How a message comes to be persisted by its worker.
LEMMA FinishedGrows ==
  ASSUME WriteInv, SeedsAreUsed, [Next]_vars, NEW w \in Writers, NEW m \in job'[w].batch
  PROVE  /\ Completed(job'[w], m) =>
              \/ m \in job[w].batch /\ Completed(job[w], m)
              \/ m \in job[w].batch /\ m = job[w].message /\ CreateOperations(w)
              \/ m \in job[w].batch /\ PerformBulkStatusUpdate(w) /\ w \in Consumers /\ job'[w].at = "events"
         /\ job'[w].at = "operations" /\ m = job'[w].message =>
              \/ m \in job[w].batch /\ job[w].at = "operations" /\ m = job[w].message
              \/ m \in job[w].batch /\ m = job[w].message /\ CreateOrUpdateTransaction(w)
         /\ job'[w].at = "status" =>
              \/ m \in job[w].batch /\ job[w].at = "status"
              \/ m \in job[w].batch /\ w \in Consumers /\ AtomicBulkInsert(w)
<1>0. job \in [Writers -> Jobs] /\ job[w] \in Jobs /\ JobShape(job[w])
  BY ZenonT(30) DEF WriteInv, WriteTypes, MessagesSound
<1>1. CASE job'[w] = job[w]
  BY <1>1, Zenon
<1>2. CASE (w \in Handlers /\ (WriteTransactionSync(w) \/ WriteTransactionFallback(w))) \/ Deliver(w)
  <2>1. PICK n : job' = [job EXCEPT ![w] = Individual(n)]
    BY <1>2, Zenon DEF WriteTransactionSync, WriteTransactionFallback, Deliver
  <2>2. job'[w].at = "row" /\ job'[w].pass = None
    BY <1>0, <2>1 DEF Individual
  <2> QED BY <2>2 DEF Completed, None
<1>3. CASE CreateOrUpdateTransaction(w) \/ CreateOperations(w)
  <2>1. PICK at : /\ <<job[w].at, at>> \in {<<"row", "operations">>, <<"operations", "cleanup">>}
                  /\ job' = [job EXCEPT ![w].at = at]
                  /\ at = "operations" => CreateOrUpdateTransaction(w)
                  /\ at = "cleanup" => CreateOperations(w)
    BY <1>3 DEF CreateOrUpdateTransaction, CreateOperations
  <2>2. job'[w] = [job[w] EXCEPT !.at = at]
    BY <1>0, <2>1
  <2>3. /\ job'[w].batch = job[w].batch /\ job'[w].message = job[w].message /\ job'[w].at = at
        /\ job'[w].rest = job[w].rest /\ job'[w].pass = job[w].pass
    BY <1>0, <2>1, <2>2, PlaceShape
  <2>4. at \in {"operations", "cleanup"}
    BY <2>1, Zenon
  <2> QED BY <2>1, <2>3, <2>4, Zenon DEF Completed
<1>4. CASE FinishWrite(w)
  <2>1. job'[w] = After(job[w], FALSE) /\ job[w].at = "cleanup"
    BY <1>0, <1>4 DEF FinishWrite
  <2>2. m \in job[w].batch
    BY <1>0, <2>1, AfterShape, Zenon
  <2>3. Finished(job'[w], m) => Completed(job[w], m) \/ m = job[w].message
    BY <1>0, <2>1, <2>2, AfterKeeps, ZenonT(30)
  <2>4. job'[w].at \in {None, "fallback"}
    <3>1. NoJob.at = None
      BY Zenon DEF NoJob
    <3> QED BY <2>1, <3>1 DEF After
  <2>5. m = job[w].message => Completed(job[w], m)
    BY <2>1, Zenon DEF Completed
  <2> QED BY <2>2, <2>3, <2>4, <2>5, Zenon DEF Finished, None
<1>5. CASE HandleFailure(w)
  <2>1. job'[w] = After(job[w], TRUE) /\ job[w].at \in {"row", "operations"}
    BY <1>0, <1>5 DEF HandleFailure
  <2>2. m \in job[w].batch
    BY <1>0, <2>1, AfterShape, Zenon
  <2>3. Finished(job'[w], m) => Completed(job[w], m)
    BY <1>0, <2>1, <2>2, AfterKeeps, ZenonT(30)
  <2>4. job'[w].at \in {None, "fallback"}
    <3>1. NoJob.at = None
      BY Zenon DEF NoJob
    <3> QED BY <2>1, <3>1 DEF After
  <2> QED BY <2>2, <2>3, <2>4 DEF Finished, None
<1>6. CASE CollectBatch(w)
  <2>1. PICK ms : job' = [job EXCEPT ![w] = Bulk(ms)]
    BY <1>6, Zenon DEF CollectBatch
  <2>2. job'[w].at = "bulk" /\ job'[w].pass = None
    BY <1>0, <2>1, Zenon DEF Bulk
  <2> QED BY <2>2 DEF Completed, None
<1>7. ASSUME job'[w] = Fallback(job[w])
      PROVE  job'[w].at = "fallback" /\ ~Completed(job'[w], m)
  <2>1. /\ job'[w].batch = job[w].batch /\ job'[w].at = "fallback" /\ job'[w].rest = job[w].batch
    BY <1>0, <1>7 DEF Fallback, Jobs
  <2> QED BY <2>1 DEF Completed
<1>8. CASE AtomicBulkInsert(w) /\ w \in Consumers
  <2>1. /\ job[w].at = "bulk"
        /\ \/ job' = [job EXCEPT ![w].at = "status"]
           \/ job' = [job EXCEPT ![w] = Fallback(job[w])]
    BY <1>8 DEF AtomicBulkInsert
  <2>2. job'[w] = [job[w] EXCEPT !.at = "status"] \/ job'[w] = Fallback(job[w])
    BY <1>0, <2>1, Zenon
  <2>3. CASE job'[w] = [job[w] EXCEPT !.at = "status"]
    <3>1. /\ job'[w].batch = job[w].batch /\ job'[w].message = job[w].message /\ job'[w].at = "status"
          /\ job'[w].pass = job[w].pass
      BY <1>0, <2>1, <2>3, PlaceShape
    <3>2. job[w].pass = None
      BY <1>0, <2>1 DEF JobShape
    <3> QED BY <1>8, <3>1, <3>2 DEF Completed, None
  <2> QED BY <1>7, <2>2, <2>3
<1>9. CASE PerformBulkStatusUpdate(w) /\ w \in Consumers
  <2>1. /\ job[w].at = "status"
        /\ \E b \in BOOLEAN : job' = [job EXCEPT ![w] = IF b THEN Fallback(job[w]) ELSE [job[w] EXCEPT !.at = "events"]]
    BY <1>9, Zenon DEF PerformBulkStatusUpdate
  <2>2. job'[w] = [job[w] EXCEPT !.at = "events"] \/ job'[w] = Fallback(job[w])
    BY <1>0, <2>1
  <2>0. job[w].at = "status"
    BY <2>1
  <2>3. CASE job'[w] = [job[w] EXCEPT !.at = "events"]
    <3>1. job'[w].batch = job[w].batch /\ job'[w].at = "events"
      BY <1>0, <2>0, <2>3, PlaceShape
    <3> QED BY <1>9, <3>1, Zenon
  <2> QED BY <1>7, <2>2, <2>3
<1>10. CASE FailBulk(w)
  <2>1. job'[w] = Fallback(job[w])
    BY <1>0, <1>10, Zenon DEF FailBulk
  <2> QED BY <1>7, <2>1, Zenon
<1>11. CASE ProcessMetadataAndEvents(w) \/ Redeliver(w)
  <2>1. job'[w] = NoJob
    BY <1>0, <1>11, Zenon DEF ProcessMetadataAndEvents, Redeliver
  <2>2. job'[w].batch = {}
    BY <2>1, JobFields, Zenon
  <2> QED BY <2>2, Zenon
<1>12. CASE ProcessIndividually(w)
  <2>1. PICK n \in job[w].rest : /\ job[w].at = "fallback"
                                 /\ job' = [job EXCEPT ![w].message = n, ![w].rest = @ \ {n}, ![w].at = "row"]
    BY <1>12, Zenon DEF ProcessIndividually
  <2>2. /\ job'[w].batch = job[w].batch /\ job'[w].message = n /\ job'[w].rest = job[w].rest \ {n}
        /\ job'[w].pass = job[w].pass /\ job'[w].at = "row"
    BY <1>0, <2>1 DEF Jobs
  <2>3. job[w].message = NoMessage /\ m # NoMessage /\ m \in job[w].batch
    BY <1>0, <2>1, <2>2, NoMessageIsNone, Zenon DEF JobShape, Jobs
  <2>4. n \in job[w].rest
    OBVIOUS
  <2> QED BY <2>2, <2>3, <2>4 DEF Completed
<1> QED BY <1>1, <1>2, <1>3, <1>4, <1>5, <1>6, <1>8, <1>9, <1>10, <1>11, <1>12, JobChanges, Zenon
-----------------------------------------------------------------------------
(***************************************************************************)
(* The work of requests and workers after the script.                      *)
(***************************************************************************)
\* A request whose balances moved in this stage is neither interrupted before
\* it is published nor dropped.
Uninterrupted(stage) ==
    \A place \in {"reply", "moved", "built", "updated", "build", "fallback", "deadletter"} : <<place, stage>> \notin Faults

\* The reply of the script reaches a create request.
RepliesArrive == \A stage \in Stages \ Settled : <<"reply", stage>> \notin Faults

Holding == {"claimed", "seeded"} \cup Applied

\* A create request moves its balances at most once, on its way past the script.
MovesOnce ==
    \A t \in Transactions : moved[t][StageOf(t)] <= IF handler[t].at \in Applied \cup {"done"} THEN 1 ELSE 0

\* The row that a worker has written is there, and settled if its message says so.
FinishedIsInTable ==
    \A w \in Writers : \A m \in job[w].batch :
      /\ job[w].at = "status" \/ Finished(job[w], m) => row[m.tx] # None
      /\ Finished(job[w], m) /\ m.stage \in Settled => row[m.tx] \in Settled

WorkInv == WriteInv /\ MovesOnce /\ FinishedIsInTable

\* A row stays, and a settled one stays settled.
LEMMA RowsStay ==
  ASSUME WriteInv, [Next]_vars, NEW t \in Transactions
  PROVE  /\ row[t] # None => row'[t] # None
         /\ row[t] \in Settled => row'[t] \in Settled
<1>1. Promoted(StageOf(t)) # None
  BY DEF Promoted, StageOf, None
<1>2. None \notin Settled
  BY DEF Settled, None
<1> QED BY <1>1, <1>2, RowChanges

\* How a request past the script goes on.
LEMMA AppliedSteps ==
  ASSUME WriteInv, SeedsAreUsed, [Next]_vars, NEW h \in Handlers, handler[h].at \in Applied,
         handler'[h] # handler[h]
  PROVE  \/ Build(h) \/ FailBuild(h) \/ Crash(h) \/ FinishRequest(h)
         \/ h \in Settlers /\ UpdateTransactionStatus(h)
         \/ WriteTransactionAsync(h) \/ WriteTransactionSync(h) \/ WriteTransactionFallback(h)
         \/ FinishWrite(h) \/ HandleFailure(h)
<1>1. handler[h].at \notin {"idle", "checked", "read", "claimed", "seeded"}
  BY DEF Applied
<1>2. ASSUME NEW g \in Handlers, StartRequest(g) PROVE FALSE
  <2>1. handler[g].at \in {"idle", "checked", "read"} /\ \E r : handler' = [handler EXCEPT ![g] = r]
    BY <1>2 DEF StartRequest, GetTransaction, AcquireLock, RevertTransaction,
                CreateOrCheckTransactionIdempotency, Goto, At
  <2> QED BY <1>1, <2>1 DEF WriteInv, WriteTypes
<1>3. ASSUME NEW g \in Handlers, RejectClaimed(g) \/ Seed(g) \/ RejectSeeded(g) \/ ProcessBalanceOperations(g)
      PROVE  FALSE
  <2>1. handler[g].at \in {"claimed", "seeded"} /\ \E r : handler' = [handler EXCEPT ![g] = r]
    BY <1>3 DEF RejectClaimed, Seed, RejectSeeded, ProcessBalanceOperations, Goto, At
  <2> QED BY <1>1, <2>1, Zenon DEF WriteInv, WriteTypes
<1>4. ASSUME NEW g \in Handlers,
             \/ Build(g) \/ FailBuild(g) \/ Crash(g) \/ FinishRequest(g) \/ UpdateTransactionStatus(g)
             \/ WriteTransactionAsync(g) \/ WriteTransactionSync(g) \/ WriteTransactionFallback(g)
      PROVE  g = h
  <2>1. \E r : handler' = [handler EXCEPT ![g] = r]
    BY <1>4, Zenon DEF Build, FailBuild, Crash, FinishRequest, UpdateTransactionStatus, WriteTransactionAsync,
                WriteTransactionSync, WriteTransactionFallback, Goto
  <2> QED BY <2>1, Zenon DEF WriteInv, WriteTypes
<1>5. ASSUME NEW w \in Writers, WriterStep(w) \/ HandleFailure(w)
      PROVE  w = h /\ (FinishWrite(w) \/ HandleFailure(w))
  <2>1. FinishWrite(w) \/ HandleFailure(w)
    BY <1>5 DEF WriterStep, CreateOrUpdateTransaction, CreateOperations
  <2>2. handler' = handler \/ \E r : handler' = [handler EXCEPT ![w] = r]
    BY <2>1, Zenon DEF FinishWrite, HandleFailure, Goto
  <2> QED BY <2>1, <2>2 DEF WriteInv, WriteTypes
<1>6. \/ \E g \in Handlers : \/ StartRequest(g) \/ RequestStep(g)
                             \/ FailBuild(g) \/ Crash(g) \/ WriteTransactionFallback(g)
      \/ \E w \in Writers : WriterStep(w) \/ HandleFailure(w)
  BY Zenon DEF Next, vars, redis, BulkStep, CleanupStep, Deliver, CollectBatch, AtomicBulkInsert,
         PerformBulkStatusUpdate, ProcessMetadataAndEvents, ProcessIndividually, FailBulk, Redeliver,
         CompareBackup, RemoveBackup, DeleteWriteBehind, KeyExpires, LockExpires, ReadMessage,
         ProcessMessage, AbandonReplay, QuarantinePoisonRecord
<1>7. CASE \E w \in Writers : WriterStep(w) \/ HandleFailure(w)
  BY <1>5, <1>7, Zenon
<1>8. CASE \E g \in Handlers : \/ StartRequest(g) \/ RequestStep(g)
                               \/ FailBuild(g) \/ Crash(g) \/ WriteTransactionFallback(g)
  <2>1. PICK g \in Handlers : \/ StartRequest(g) \/ RequestStep(g)
                              \/ FailBuild(g) \/ Crash(g) \/ WriteTransactionFallback(g)
    BY <1>8
  <2>2. \/ Build(g) \/ FailBuild(g) \/ Crash(g) \/ FinishRequest(g)
        \/ g \in Settlers /\ UpdateTransactionStatus(g)
        \/ WriteTransactionAsync(g) \/ WriteTransactionSync(g) \/ WriteTransactionFallback(g)
    BY <1>2, <1>3, <2>1, Zenon DEF RequestStep
  <2>3. g = h
    BY <1>4, <2>2, Zenon
  <2> QED BY <2>2, <2>3, Zenon
<1> QED BY <1>6, <1>7, <1>8, Zenon

\* A request goes on until a message has its stage.
LEMMA RequestGoesOn ==
  ASSUME WriteInv, SeedsAreUsed, [Next]_vars, NEW s \in Handlers,
         handler[s].at \in Applied, handler'[s] # handler[s], Uninterrupted(handler[s].stage)
  PROVE  /\ handler'[s].tx = handler[s].tx /\ handler'[s].stage = handler[s].stage
         /\ \/ handler'[s].at \in Applied
            \/ FinishRequest(s) /\ handler[s].at = "written"
            \/ s \in Settlers /\ FinishWrite(s) /\ Writing(s)
            \/ handler[s].at = "written" /\ <<"written", handler[s].stage>> \in Faults
         /\ handler[s].at \in {"moved", "built", "updated"} =>
              \/ handler'[s].at \in {"moved", "built", "updated"}
              \/ /\ handler'[s].at \in Applied
                 /\ \A t, stage : t = handler[s].tx /\ stage = handler[s].stage => Persisting(t, stage)'
<1> s \in Writers /\ handler \in [Handlers -> Requests] /\ job \in [Writers -> Jobs]
  BY DEF Writers, WriteInv, WriteTypes
<1>1. ~FailBuild(s) /\ ~HandleFailure(s)
  <2>1. ~FailBuild(s)
    BY Zenon DEF FailBuild, Fault, Uninterrupted
  <2>2. ~HandleFailure(s)
    <3>1. SUFFICES ASSUME job[s].at \in {"row", "operations"}, <<"fallback", job[s].message.stage>> \in Faults
                   PROVE  FALSE
      BY Zenon DEF HandleFailure, Fault
    <3>2. job[s].message.stage = handler[s].stage
      BY <3>1 DEF WriteInv, MessagesSound, None
    <3> QED BY <3>1, <3>2 DEF Uninterrupted
  <2> QED BY <2>1, <2>2, Zenon
<1>9. CASE Crash(s)
  <2>1. <<handler[s].at, handler[s].stage>> \in Faults /\ Goto(s, "done")
    BY <1>9 DEF Crash, Fault
  <2>2. handler[s].at \in Places
    BY <2>1, RequestsAssumption, Zenon
  <2>3. handler[s].at \in {"moved", "built", "updated", "written"}
    BY <2>2, Zenon DEF Applied, Places
  <2>4. handler[s].at = "written"
    BY <2>1, <2>3 DEF Uninterrupted
  <2>5. handler'[s].tx = handler[s].tx /\ handler'[s].stage = handler[s].stage
    BY <2>1 DEF Goto, Requests
  <2> QED BY <2>1, <2>4, <2>5, Zenon
<1>2. \A to : Goto(s, to) =>
        handler'[s].at = to /\ handler'[s].tx = handler[s].tx /\ handler'[s].stage = handler[s].stage
  BY DEF Goto, Requests
<1>3. CASE Build(s)
  BY <1>2, <1>3, Zenon DEF Build, Applied
<1>4. CASE UpdateTransactionStatus(s)
  BY <1>2, <1>4 DEF UpdateTransactionStatus, Applied
<1>5. CASE FinishRequest(s)
  BY <1>2, <1>5, ZenonT(30) DEF FinishRequest, At
<1>6. CASE FinishWrite(s)
  <2>1. Writing(s)
    BY <1>6, Zenon DEF FinishWrite, WriteInv, MessagesSound, None
  <2>2. Goto(s, "written") \/ (s \in Settlers /\ Goto(s, "done"))
    BY <1>6 DEF FinishWrite
  <2>3. handler[s].at \notin {"moved", "built", "updated"}
    BY <2>1 DEF Writing
  <2>4. CASE Goto(s, "written")
    BY <1>2, <2>3, <2>4, ZenonT(30) DEF Applied
  <2>5. CASE s \in Settlers /\ Goto(s, "done")
    BY <1>2, <1>6, <2>1, <2>3, <2>5, Zenon
  <2> QED BY <2>2, <2>4, <2>5, Zenon
<1>7. CASE WriteTransactionAsync(s)
  <2>1. Outgoing(s) \in queue' /\ Sending(s) /\ Goto(s, "written")
    BY <1>7, Publishes
  <2>2. ASSUME NEW t, NEW stage, t = handler[s].tx, stage = handler[s].stage
        PROVE  Persisting(t, stage)'
    BY <2>1, <2>2, OutgoingSound, ZenonT(30) DEF Persisting
  <2> QED BY <1>2, <2>1, <2>2, Zenon DEF Applied
<1>8. CASE WriteTransactionSync(s) \/ WriteTransactionFallback(s)
  <2>1. /\ Sending(s) /\ job' = [job EXCEPT ![s] = Individual(Outgoing(s))]
        /\ \E to \in {"writing", "persisting"} : Goto(s, to)
    BY <1>8, HandsOver, Zenon
  <2>2. Outgoing(s) \in job'[s].batch
    BY <2>1 DEF Individual
  <2>3. ASSUME NEW t, NEW stage, t = handler[s].tx, stage = handler[s].stage
        PROVE  Persisting(t, stage)'
    BY <2>1, <2>2, <2>3, OutgoingSound, Zenon DEF Persisting
  <2>4. handler'[s].at \in Applied /\ handler'[s].tx = handler[s].tx /\ handler'[s].stage = handler[s].stage
    BY <1>2, <2>1, Zenon DEF Applied
  <2> QED BY <2>3, <2>4, Zenon
<1>10. \/ Build(s) \/ Crash(s) \/ FinishRequest(s) \/ UpdateTransactionStatus(s)
       \/ WriteTransactionAsync(s) \/ WriteTransactionSync(s) \/ WriteTransactionFallback(s)
       \/ FinishWrite(s)
  BY <1>1, AppliedSteps, Zenon
<1> QED BY <1>3, <1>4, <1>5, <1>6, <1>7, <1>8, <1>9, <1>10, Zenon

LEMMA MovesOnceStep ==
  ASSUME WorkInv, SeedsAreUsed, [Next]_vars
  PROVE  MovesOnce'
<1> SUFFICES ASSUME NEW t \in Transactions
             PROVE  moved'[t][StageOf(t)] <= IF handler'[t].at \in Applied \cup {"done"} THEN 1 ELSE 0
  BY Zenon DEF MovesOnce
<1>a. WriteInv /\ handler \in [Handlers -> Requests] /\ Settlers \subseteq Handlers
  BY DEF WorkInv, WriteInv, WriteTypes, Handlers
<1>b. moved \in [Transactions -> [Stages -> Nat]]
  BY <1>a, Zenon DEF WriteInv, WriteTypes
<1>c. t \in Handlers /\ t \notin Settlers
  BY RequestsAssumption DEF Handlers
<1>d. StageOf(t) \in Stages /\ StageOf(t) \notin Settled
  BY StagesAreTyped
<1>0. /\ t \in Handlers /\ t \notin Settlers /\ moved[t][StageOf(t)] \in Nat
      /\ moved \in [Transactions -> [Stages -> Nat]] /\ StageOf(t) \in Stages /\ StageOf(t) \notin Settled
  BY <1>b, <1>c, <1>d, Zenon
<1>1. moved[t][StageOf(t)] <= IF handler[t].at \in Applied \cup {"done"} THEN 1 ELSE 0
  BY DEF WorkInv, MovesOnce
<1>2. handler[t].at \in Applied \cup {"done"} => handler'[t].at \in Applied \cup {"done"}
  <2>1. SUFFICES ASSUME handler[t].at \in Applied \cup {"done"}, handler'[t] # handler[t]
                 PROVE  handler'[t].at \in Applied \cup {"done"}
    OBVIOUS
  <2>2. handler[t].at \notin {"idle", "checked"}
    BY <2>1, Zenon DEF Applied
  <2>3. Continues(t, handler'[t].at)
    BY <1>a, <1>0, <2>1, <2>2, RequestChanges, Zenon
  <2> QED BY <2>1, <2>3 DEF Continues, Follows, Applied
<1>3. CASE moved'[t][StageOf(t)] = moved[t][StageOf(t)]
  BY <1>0, <1>1, <1>2, <1>3
<1>4. CASE moved'[t][StageOf(t)] # moved[t][StageOf(t)]
  <2>1. moved' # moved
    BY <1>4
  <2>2. PICK h \in Handlers : RejectSeeded(h) \/ ProcessBalanceOperations(h)
    BY <2>1, MovedSteps, Zenon
  <2>3. handler[h].at = "seeded"
    BY <2>2 DEF RejectSeeded, ProcessBalanceOperations, At
  <2>4. PICK n \in {0, 1} : moved' = [moved EXCEPT ![handler[h].tx][handler[h].stage] = @ + n]
    BY <2>2, Zenon DEF RejectSeeded, ProcessBalanceOperations
  <2>5. PICK u \in Transactions, stage \in Stages : u = handler[h].tx /\ stage = handler[h].stage
    BY <1>a, <2>3, RequestKinds, Zenon
  <2>6. u = t /\ stage = StageOf(t) /\ moved'[t][StageOf(t)] = moved[t][StageOf(t)] + n
    BY <1>0, <1>4, <2>4, <2>5
  <2>7. h = t
    BY <1>a, <1>0, <2>3, <2>5, <2>6, RequestKinds, ZenonT(30)
  <2>8. handler'[t].at \in {"moved", "done"}
    <3>1. Goto(h, "moved") \/ Goto(h, "done")
      BY <2>2 DEF RejectSeeded, ProcessBalanceOperations
    <3> QED BY <1>a, <2>7, <3>1 DEF Goto, Requests
  <2>9. moved[t][StageOf(t)] = 0
    BY <1>0, <1>1, <2>3, <2>7 DEF Applied
  <2> QED BY <2>6, <2>8, <2>9 DEF Applied
<1> QED BY <1>3, <1>4, Zenon

LEMMA FinishedStep ==
  ASSUME WorkInv, SeedsAreUsed, [Next]_vars
  PROVE  FinishedIsInTable'
<1>0. WriteInv /\ FinishedIsInTable /\ job \in [Writers -> Jobs] /\ row \in [Transactions -> Statuses]
  BY DEF WorkInv, WriteInv, WriteTypes
<1> SUFFICES ASSUME NEW w \in Writers, NEW m \in job'[w].batch
             PROVE  /\ job'[w].at = "status" \/ Finished(job'[w], m) => row'[m.tx] # None
                    /\ Finished(job'[w], m) /\ m.stage \in Settled => row'[m.tx] \in Settled
  BY Zenon DEF FinishedIsInTable
<1>1. m \in Messages /\ Sound(m) /\ m.tx \in Transactions
  BY <1>0, JobStep, Zenon DEF Messages
<1>2. /\ row[m.tx] # None => row'[m.tx] # None
      /\ row[m.tx] \in Settled => row'[m.tx] \in Settled
  BY <1>0, <1>1, RowsStay, Zenon
<1>3. /\ m \in job[w].batch /\ (job[w].at = "status" \/ Finished(job[w], m)) => row[m.tx] # None
      /\ m \in job[w].batch /\ Finished(job[w], m) /\ m.stage \in Settled => row[m.tx] \in Settled
  BY <1>0, Zenon DEF FinishedIsInTable
<1>4. ASSUME m \in job[w].batch, AtomicBulkInsert(w), job'[w].at = "status"
      PROVE  row'[m.tx] # None
  <2>1. job' # [job EXCEPT ![w] = Fallback(job[w])]
    <3>1. Fallback(job[w]).at = "fallback"
      BY <1>0 DEF Fallback, Jobs
    <3> QED BY <1>0, <1>4, <3>1
  <2>2. \E rows : row' = rows /\ ForeignKey(rows, job[w].batch)
    BY <1>4, <2>1, Zenon DEF AtomicBulkInsert
  <2> QED BY <1>1, <1>4, <2>2, Zenon DEF ForeignKey, Sound
<1>5. ASSUME m \in job[w].batch, PerformBulkStatusUpdate(w), m.stage \in Settled
      PROVE  row'[m.tx] \in Settled
  <2> DEFINE ms == StatusTransitions(job[w].batch)
  <2>1. job[w].at = "status" /\ row' = Updated(ms)
    BY <1>5, Zenon DEF PerformBulkStatusUpdate
  <2>2. m \in ms /\ \A n \in ms : n.stage \in Settled
    BY <1>5, Zenon DEF StatusTransitions
  <2>3. row[m.tx] # None
    BY <1>3, <1>5, <2>1, Zenon
  <2> HIDE DEF ms
  <2>4. row'[m.tx] = (CHOOSE n \in ms : n.tx = m.tx).stage
    BY <1>1, <2>1, <2>2, <2>3, Zenon DEF Updated
  <2>5. (CHOOSE n \in ms : n.tx = m.tx) \in ms
    BY <2>2, Zenon
  <2> QED BY <2>2, <2>4, <2>5
<1>6. ASSUME m = job[w].message, CreateOrUpdateTransaction(w)
      PROVE  row'[m.tx] # None /\ (m.stage \in Settled => row'[m.tx] \in Settled)
  <2>1. \/ row' = [row EXCEPT ![m.tx] = Promoted(m.stage)]
        \/ m.stage \notin Settled /\ row[m.tx] # None /\ row' = [row EXCEPT ![m.tx] = row[m.tx]]
    BY <1>6, ZenonT(30) DEF CreateOrUpdateTransaction
  <2>2. Promoted(m.stage) # None /\ (m.stage \in Settled => Promoted(m.stage) \in Settled)
    BY <1>1 DEF Promoted, Settled, Messages, Stages, None
  <2> QED BY <1>0, <1>1, <1>6, <2>1, <2>2
<1>7. ASSUME job'[w].at = "status" PROVE row'[m.tx] # None
  BY <1>0, <1>2, <1>3, <1>4, <1>7, FinishedGrows, Zenon
<1>8. ASSUME Completed(job'[w], m)
      PROVE  row'[m.tx] # None /\ (m.stage \in Settled => row'[m.tx] \in Settled)
  <2>1. \/ m \in job[w].batch /\ Completed(job[w], m)
        \/ m \in job[w].batch /\ m = job[w].message /\ CreateOperations(w)
        \/ m \in job[w].batch /\ PerformBulkStatusUpdate(w)
    BY <1>0, <1>8, FinishedGrows, Zenon
  <2>2. /\ CreateOperations(w) => job[w].at = "operations"
        /\ PerformBulkStatusUpdate(w) => job[w].at = "status"
    BY Zenon DEF CreateOperations, PerformBulkStatusUpdate
  <2> QED BY <1>2, <1>3, <1>5, <2>1, <2>2 DEF Finished
<1>9. ASSUME job'[w].at = "operations", m = job'[w].message
      PROVE  row'[m.tx] # None /\ (m.stage \in Settled => row'[m.tx] \in Settled)
  <2>1. \/ m \in job[w].batch /\ job[w].at = "operations" /\ m = job[w].message
        \/ m \in job[w].batch /\ m = job[w].message /\ CreateOrUpdateTransaction(w)
    BY <1>0, <1>9, FinishedGrows, Zenon
  <2> QED BY <1>2, <1>3, <1>6, <2>1 DEF Finished
<1> QED BY <1>7, <1>8, <1>9 DEF Finished

LEMMA WorkInit == Init => WorkInv
<1> SUFFICES ASSUME Init PROVE WorkInv
  OBVIOUS
<1>1. WriteInv
  BY WriteInit
<1>2. MovesOnce
  BY StagesAreTyped DEF Init, MovesOnce
<1>3. FinishedIsInTable
  BY DEF Init, FinishedIsInTable, NoJob
<1> QED BY <1>1, <1>2, <1>3 DEF WorkInv

LEMMA WorkStep ==
  ASSUME WorkInv, SeedsAreUsed, [Next]_vars
  PROVE  WorkInv'
  BY WriteStep, MovesOnceStep, FinishedStep DEF WorkInv
=============================================================================
