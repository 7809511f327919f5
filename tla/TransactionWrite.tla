--------------------------- MODULE TransactionWrite ---------------------------
(***************************************************************************)
(* The write path of one ledger in asynchronous mode: a create request     *)
(* claims its idempotency key, seeds the Redis backup queue, moves the     *)
(* balances, and hands the transaction to RabbitMQ; a commit or cancel     *)
(* request does the same for a PENDING transaction under a lock; consumers *)
(* persist rows and operations, one message or one batch at a time, and    *)
(* clean the backup entry up; the backup                                   *)
(* consumer (cron) replays entries that were left behind.                  *)
(*                                                                         *)
(* The balances are abstracted to how often each stage of a transaction    *)
(* has moved them.  A stage is the status under which the balances move.   *)
(***************************************************************************)
EXTENDS Naturals, FiniteSets

CONSTANTS
    Direct,         \* create requests for CREATED transactions
    Holds,          \* create requests for PENDING transactions
    Reverts,        \* requests to reverse an APPROVED transaction
    Parent,         \* the transaction each of them reverses
    Keys,           \* idempotency keys
    Key,            \* the key of each create request; for a reversal, the hash of its content
    Settlers,       \* commit and cancel requests
    SyncHandlers,   \* the requests a pod in synchronous mode may serve
    Clients,        \* the sets of requests that may arrive in one behaviour
    Consumers,      \* RabbitMQ consumer workers
    BulkSize,       \* messages a worker collects into one batch; 1 is the individual mode
    Faults,         \* what may go wrong, a set of <<where, stage>>
    MaxFaults,      \* how often, in one behaviour (unreadable settings are bounded by the quarantine)
    MaxRetries,     \* maxMessageRetries
    MaxReplays,     \* counted replays of a transaction
    QuarantineThreshold,
    PromptConsumers \* messages are consumed before a pending lock expires

Transactions == Direct \cup Holds \cup Reverts
Handlers == Transactions \cup Settlers
Writers == Handlers \cup Consumers

Settled == {"APPROVED", "CANCELED"}
Stages == {"CREATED", "REVERT", "PENDING"} \cup Settled \* REVERT: CREATED with the revert action
Places == {"claimed", "seeded", "moved", "built", "updated", "written",
           "reply", "build", "publish", "fallback", "write", "deadletter", "settings", "replay"}

ASSUME RequestsAssumption ==
    /\ IsFiniteSet(Handlers) /\ IsFiniteSet(Consumers)
    /\ Direct \cap Holds = {} /\ Reverts \cap (Direct \cup Holds) = {}
    /\ Settlers \cap Transactions = {} /\ Consumers \cap Handlers = {}
    /\ {"none", "free", "claimed"} \cap Transactions = {}
    /\ Parent \in [Reverts -> Direct \cup Holds]
    /\ Clients \subseteq SUBSET Handlers /\ SyncHandlers \subseteq Handlers
    /\ Key \in [Transactions -> Keys]
    /\ Faults \subseteq Places \X Stages
    /\ {BulkSize, MaxFaults, MaxRetries, MaxReplays, QuarantineThreshold} \subseteq Nat
    /\ PromptConsumers \in BOOLEAN

VARIABLES
    idem,       \* the idempotency slots
    handler,    \* where each request stands
    lock,       \* pending transaction locks
    moved,      \* how often the script moved the balances of a stage
    backup,     \* the backup_queue hash
    attempts,   \* its parallel attempts hash
    cache,      \* write-behind entries
    queue,      \* RabbitMQ messages
    job,        \* the batch a writer is persisting
    cleaning,   \* cleanup goroutines
    replay,     \* the entry the cron is processing
    replays,
    row,        \* transaction table: the status
    operations, \* operation table
    parented,   \* the reversals whose row has its parent_transaction_id
    quarantine,
    faults

redis == <<idem, lock, backup, attempts, cache>>
postgres == <<row, operations, parented, quarantine>>
vars == <<handler, redis, moved, queue, job, cleaning, replay, replays, postgres, faults>>

None == "none"
Free == "free"
Claimed == "claimed"

StageOf(t) == IF t \in Holds THEN "PENDING" ELSE IF t \in Reverts THEN "REVERT" ELSE "CREATED"

StagesOf(t) == {StageOf(t)} \cup (IF t \in Holds THEN Settled ELSE {})

\* The status a stage leaves in the transaction table: CREATED is promoted.
Promoted(stage) == IF stage \in {"CREATED", "REVERT"} THEN "APPROVED" ELSE stage

\* A backup entry.  ran: the script has stored the balances; valid: the
\* Validate field is there; operations: the materialized operation ids.
Entry(stage) == [stage |-> stage, valid |-> TRUE, ran |-> FALSE, operations |-> {}]
NoEntry == [stage |-> None, valid |-> FALSE, ran |-> FALSE, operations |-> {}]
Orphan == [NoEntry EXCEPT !.ran = TRUE]

\* An operation id: a stage of a transaction, and which build produced it
\* (0 the request handler, n the n-th replay; the last number is reused).
Operation(t, stage, build) == [tx |-> t, stage |-> stage, build |-> build]

\* A message.  parent: it carries the parent of a reversal; a replay does not.
Message(t, stage, ops, parent) ==
    [tx |-> t, stage |-> stage, operations |-> ops, parent |-> parent, tries |-> 0]

NoMessage == [tx |-> None, stage |-> None, operations |-> {}, parent |-> FALSE, tries |-> 0]

\* batch: the deliveries not acknowledged yet; rest: those the current pass of
\* a fallback has still to process one by one; message: the one being processed.
NoJob == [batch |-> {}, rest |-> {}, message |-> NoMessage, pass |-> None, at |-> None]
Individual(m) == [batch |-> {m}, rest |-> {}, message |-> m, pass |-> None, at |-> "row"]
Bulk(ms) == [batch |-> ms, rest |-> ms, message |-> NoMessage, pass |-> None, at |-> "bulk"]
Idle == [at |-> "idle", tx |-> None, stage |-> None, seen |-> None]

Fault(where, stage) == faults < MaxFaults /\ <<where, stage>> \in Faults /\ faults' = faults + 1

Live(t) == \E h \in Handlers : handler[h].tx = t /\ handler[h].at \notin {"idle", "done"}

Settling(t) == \E s \in Settlers : handler[s].tx = t /\ handler[s].at \notin {"idle", "done"}

InFlight(t) ==
    \/ \E m \in queue : m.tx = t
    \/ \E w \in Writers : \E m \in job[w].batch : m.tx = t
    \/ replay[t] # NoEntry

Init ==
    /\ idem = [k \in Keys |-> Free]
    /\ \E clients \in Clients :
         handler = [h \in Handlers |-> IF h \in clients THEN Idle ELSE [Idle EXCEPT !.at = "done"]]
    /\ lock = [t \in Transactions |-> FALSE]
    /\ moved = [t \in Transactions |-> [s \in Stages |-> 0]]
    /\ backup = [t \in Transactions |-> NoEntry]
    /\ attempts = [t \in Transactions |-> 0]
    /\ cache = [t \in Transactions |-> None]
    /\ queue = {}
    /\ job = [w \in Writers |-> NoJob]
    /\ cleaning = {}
    /\ replay = [t \in Transactions |-> NoEntry]
    /\ replays = [t \in Transactions |-> 0]
    /\ row = [t \in Transactions |-> None]
    /\ operations = {} /\ parented = {}
    /\ quarantine = {}
    /\ faults = 0

At(h, place) == handler[h].at = place

Goto(h, place) == handler' = [handler EXCEPT ![h].at = place]

(***************************************************************************)
(* Starting a request.                                                     *)
(***************************************************************************)
\* A seeded fault for TLC: the check and the claim are not one SETNX.
ClaimAlways(t) ==
    /\ At(t, IF t \in Reverts THEN "checked" ELSE "idle")
    /\ handler' = [handler EXCEPT ![t] = [at |-> "claimed", tx |-> t, stage |-> StageOf(t), seen |-> None]]
    /\ idem' = [idem EXCEPT ![Key[t]] = Claimed]
    /\ UNCHANGED <<lock, backup, attempts, cache, moved, queue, job, cleaning, replay, replays, postgres, faults>>

\* SETNX claims a free slot; a slot that holds a transaction is replayed and
\* one that is only claimed is a conflict: either way the request ends.
CreateOrCheckTransactionIdempotency(t) ==
    /\ At(t, IF t \in Reverts THEN "checked" ELSE "idle")
    /\ \/ /\ idem[Key[t]] = Free
          /\ idem' = [idem EXCEPT ![Key[t]] = Claimed]
          /\ handler' = [handler EXCEPT ![t] = [at |-> "claimed", tx |-> t, stage |-> StageOf(t), seen |-> None]]
       \/ /\ idem[Key[t]] # Free
          /\ Goto(t, "done")
          /\ UNCHANGED idem
    /\ UNCHANGED <<lock, backup, attempts, cache, moved, queue, job, cleaning, replay, replays, postgres, faults>>

Children(t) == {r \in parented : Parent[r] = t /\ row[r] # None}

\* A seeded fault for TLC: the reversals of the transaction are not looked up.
RevertUnchecked(r) ==
    /\ At(r, "idle")
    /\ IF row[Parent[r]] = "APPROVED" /\ \E o \in operations : o.tx = Parent[r]
       THEN handler' = [handler EXCEPT ![r] = [at |-> "checked", tx |-> r, stage |-> "REVERT", seen |-> None]]
       ELSE Goto(r, "done")
    /\ UNCHANGED <<redis, moved, queue, job, cleaning, replay, replays, postgres, faults>>

\* The table only: no reversal has this parent, the row is APPROVED and its
\* operations, of which the reversal is built, are there.
RevertTransaction(r) ==
    /\ At(r, "idle")
    /\ IF /\ Children(Parent[r]) = {}
          /\ row[Parent[r]] = "APPROVED" /\ \E o \in operations : o.tx = Parent[r]
       THEN handler' = [handler EXCEPT ![r] = [at |-> "checked", tx |-> r, stage |-> "REVERT", seen |-> None]]
       ELSE Goto(r, "done")
    /\ UNCHANGED <<redis, moved, queue, job, cleaning, replay, replays, postgres, faults>>

\* The write-behind entry first, the table as fallback; no entry is a 404.
GetTransaction(s) ==
    /\ At(s, "idle")
    /\ \E t \in Holds, stage \in Settled :
         LET seen == IF cache[t] # None THEN cache[t] ELSE row[t]
         IN  /\ seen # None
             /\ handler' = [handler EXCEPT ![s] = [at |-> "read", tx |-> t, stage |-> stage, seen |-> seen]]
    /\ UNCHANGED <<redis, moved, queue, job, cleaning, replay, replays, postgres, faults>>

\* A seeded fault for TLC: the lock is taken without looking at its holder.
AcquireLockAlways(s) ==
    /\ At(s, "read")
    /\ IF handler[s].seen = "PENDING"
       THEN lock' = [lock EXCEPT ![handler[s].tx] = TRUE] /\ Goto(s, "claimed")
       ELSE UNCHANGED lock /\ Goto(s, "done")
    /\ UNCHANGED <<idem, backup, attempts, cache, moved, queue, job, cleaning, replay, replays, postgres, faults>>

\* SETNX on the pending lock, then the status check on the transaction as it
\* was read before; a transaction that is not PENDING gives the lock back.
AcquireLock(s) ==
    LET t == handler[s].tx IN
    /\ At(s, "read")
    /\ IF ~lock[t] /\ handler[s].seen = "PENDING"
       THEN lock' = [lock EXCEPT ![t] = TRUE] /\ Goto(s, "claimed")
       ELSE UNCHANGED lock /\ Goto(s, "done")
    /\ UNCHANGED <<idem, backup, attempts, cache, moved, queue, job, cleaning, replay, replays, postgres, faults>>

(***************************************************************************)
(* The steps both kinds of request share.                                  *)
(***************************************************************************)
\* deleteIdempotencyKey for a create request, deleteLockOnError for the other.
GiveBack(h) ==
    IF h \in Settlers
    THEN lock' = [lock EXCEPT ![handler[h].tx] = FALSE] /\ UNCHANGED idem
    ELSE idem' = [idem EXCEPT ![Key[h]] = Free] /\ UNCHANGED lock

\* A check before the backup seed fails.
RejectClaimed(h) ==
    /\ At(h, "claimed")
    /\ GiveBack(h)
    /\ Goto(h, "done")
    /\ UNCHANGED <<backup, attempts, cache, moved, queue, job, cleaning, replay, replays, postgres, faults>>

\* SendTransactionToRedisQueue with no balances: it replaces the whole entry.
Seed(h) ==
    /\ At(h, "claimed")
    /\ backup' = [backup EXCEPT ![handler[h].tx] = Entry(handler[h].stage)]
    /\ Goto(h, "seeded")
    /\ UNCHANGED <<idem, lock, attempts, cache, moved, queue, job, cleaning, replay, replays, postgres, faults>>

\* A seeded fault for TLC: the rejected request keeps its backup entry.
RejectSeededKeepingBackup(h) ==
    /\ At(h, "seeded")
    /\ GiveBack(h)
    /\ Goto(h, "done")
    /\ UNCHANGED <<backup, attempts, cache, moved, queue, job, cleaning, replay, replays, postgres, faults>>

\* A check after the seed, the reservation or the script fails: the key or
\* lock is given back and the entry removed, whatever it holds by now.  A lost
\* reply is taken for a failure although the script has run.
RejectSeeded(h) ==
    LET t == handler[h].tx
        stage == handler[h].stage
    IN
    /\ At(h, "seeded")
    /\ GiveBack(h)
    /\ backup' = [backup EXCEPT ![t] = NoEntry]
    /\ Goto(h, "done")
    /\ \E ran \in IF faults < MaxFaults /\ <<"reply", stage>> \in Faults THEN {0, 1} ELSE {0} :
         /\ moved' = [moved EXCEPT ![t][stage] = @ + ran]
         /\ faults' = faults + ran
    /\ UNCHANGED <<attempts, cache, queue, job, cleaning, replay, replays, postgres>>

\* The script moves the balances and stores them in the backup entry; where
\* the entry is gone it leaves one that holds nothing but the balances.
ProcessBalanceOperations(h) ==
    LET t == handler[h].tx IN
    /\ At(h, "seeded")
    /\ moved' = [moved EXCEPT ![t][handler[h].stage] = @ + 1]
    /\ backup' = [backup EXCEPT ![t] = IF @ = NoEntry THEN Orphan ELSE [@ EXCEPT !.ran = TRUE]]
    /\ Goto(h, "moved")
    /\ UNCHANGED <<idem, lock, attempts, cache, queue, job, cleaning, replay, replays, postgres, faults>>

\* BuildOperations fails after the balances moved.  A create request keeps its
\* key and its entry; a commit or cancel keeps the entry and gives the lock back.
FailBuild(h) ==
    /\ At(h, "moved")
    /\ Fault("build", handler[h].stage)
    /\ IF h \in Settlers THEN GiveBack(h) ELSE UNCHANGED <<idem, lock>>
    /\ Goto(h, "done")
    /\ UNCHANGED <<backup, attempts, cache, moved, queue, job, cleaning, replay, replays, postgres>>

\* The process dies between two calls.  (One that dies while it persists the
\* transaction leaves what the failure of a statement leaves: HandleFailure.)
Crash(h) ==
    /\ Fault(handler[h].at, handler[h].stage)
    /\ Goto(h, "done")
    /\ UNCHANGED <<redis, moved, queue, job, cleaning, replay, replays, postgres>>

\* The operations are built and their ids stored in the entry.  A create
\* request updates its entry, if it is still there, and writes the
\* write-behind entry; a commit or cancel first replaces the whole entry.
Build(h) ==
    LET t == handler[h].tx
        stage == handler[h].stage
        built == {Operation(t, stage, 0)}
    IN
    /\ At(h, "moved")
    /\ IF h \in Settlers
       THEN /\ backup' = [backup EXCEPT ![t] = [Entry(stage) EXCEPT !.ran = TRUE, !.operations = built]]
            /\ UNCHANGED cache
       ELSE /\ backup' = [backup EXCEPT ![t] = IF @ = NoEntry THEN @ ELSE [@ EXCEPT !.operations = built]]
            /\ cache' = [cache EXCEPT ![t] = Promoted(stage)]
    /\ Goto(h, "built")
    /\ UNCHANGED <<idem, lock, attempts, moved, queue, job, cleaning, replay, replays, postgres, faults>>

\* The commit and cancel handlers of a pod in asynchronous mode update the row
\* themselves before they publish; a row that is not there yet is an error
\* they ignore.
UpdateTransactionStatus(s) ==
    LET t == handler[s].tx IN
    /\ At(s, "built")
    /\ row' = [row EXCEPT ![t] = IF @ = None THEN @ ELSE handler[s].stage]
    /\ Goto(s, "updated")
    /\ UNCHANGED <<redis, moved, queue, job, cleaning, replay, replays, operations, parented, quarantine, faults>>

Ready(h) == At(h, IF h \in Settlers THEN "updated" ELSE "built")

Outgoing(h) == Message(handler[h].tx, handler[h].stage,
                       {Operation(handler[h].tx, handler[h].stage, 0)}, h \in Reverts)

WriteTransactionAsync(h) ==
    /\ Ready(h)
    /\ queue' = queue \cup {Outgoing(h)}
    /\ Goto(h, "written")
    /\ UNCHANGED <<redis, moved, job, cleaning, replay, replays, postgres, faults>>

\* A pod without RABBITMQ_TRANSACTION_ASYNC persists in the request, and does
\* not update the row before.
WriteTransactionSync(h) ==
    /\ h \in SyncHandlers
    /\ At(h, "built")
    /\ job' = [job EXCEPT ![h] = Individual(Outgoing(h))]
    /\ Goto(h, "persisting")
    /\ UNCHANGED <<redis, moved, queue, cleaning, replay, replays, postgres, faults>>

\* RabbitMQ refuses the message: the handler persists it itself.
WriteTransactionFallback(h) ==
    /\ Ready(h)
    /\ Fault("publish", handler[h].stage)
    /\ job' = [job EXCEPT ![h] = Individual(Outgoing(h))]
    /\ Goto(h, "writing")
    /\ UNCHANGED <<redis, moved, queue, cleaning, replay, replays, postgres>>

\* SetTransactionIdempotencyValue after a create, UpdateWriteBehindTransaction
\* after a commit or cancel in asynchronous mode (which keeps its lock).
FinishRequest(h) ==
    /\ At(h, "written")
    /\ IF h \in Settlers
       THEN cache' = [cache EXCEPT ![handler[h].tx] = handler[h].stage] /\ UNCHANGED idem
       ELSE idem' = [idem EXCEPT ![Key[h]] = h] /\ UNCHANGED cache
    /\ Goto(h, "done")
    /\ UNCHANGED <<lock, backup, attempts, moved, queue, job, cleaning, replay, replays, postgres, faults>>

\* The pending lock lives 300 s, longer than any request.
LockExpires(t) ==
    /\ lock[t] /\ ~Settling(t)
    /\ PromptConsumers => ~InFlight(t)
    /\ lock' = [lock EXCEPT ![t] = FALSE]
    /\ UNCHANGED <<handler, idem, backup, attempts, cache, moved, queue, job, cleaning, replay, replays, postgres, faults>>

\* The idempotency key of a reversal is its content and expires (300 s).  The
\* key of a client expires as well, by its own TTL (300 s unless the request
\* names another), and a retry after that is a new transaction; a behaviour
\* here is what happens while the keys of its clients live.
KeyExpires(k) ==
    LET reverts == {r \in Reverts : Key[r] = k} IN
    /\ reverts # {} /\ idem[k] # Free
    /\ ~\E r \in reverts : Live(r)
    /\ PromptConsumers => \A r \in reverts : moved[r]["REVERT"] > 0 => row[r] # None
    /\ idem' = [idem EXCEPT ![k] = Free]
    /\ UNCHANGED <<handler, lock, backup, attempts, cache, moved, queue, job, cleaning, replay, replays, postgres, faults>>

(***************************************************************************)
(* Persisting a message: the work of a consumer, or of a handler whose     *)
(* publication failed.                                                     *)
(***************************************************************************)
Deliver(c) ==
    /\ BulkSize = 1
    /\ job[c].at = None
    /\ \E m \in queue :
         /\ queue' = queue \ {m}
         /\ job' = [job EXCEPT ![c] = Individual(m)]
    /\ UNCHANGED <<handler, redis, moved, cleaning, replay, replays, postgres, faults>>

\* The collector flushes at its size or at its timeout.
CollectBatch(c) ==
    /\ BulkSize > 1
    /\ job[c].at = None
    /\ \E ms \in (SUBSET queue) \ {{}} :
         /\ Cardinality(ms) <= BulkSize
         /\ queue' = queue \ ms
         /\ job' = [job EXCEPT ![c] = Bulk(ms)]
    /\ UNCHANGED <<handler, redis, moved, cleaning, replay, replays, postgres, faults>>

\* The batch is given to the individual path, message by message.
Fallback(j) == [j EXCEPT !.at = "fallback", !.rest = j.batch, !.message = NoMessage, !.pass = "first"]

\* A seeded fault for TLC: a conflict updates the row.
Inserted_Upsert(ms) ==
    [t \in Transactions |-> IF \E m \in ms : m.tx = t THEN Promoted(StageOf(t)) ELSE row[t]]

\* Rows inserted ON CONFLICT DO NOTHING.
Inserted(ms) ==
    [t \in Transactions |->
        IF row[t] = None /\ \E m \in ms : m.tx = t THEN Promoted(StageOf(t)) ELSE row[t]]

\* operation.transaction_id references transaction.id.
ForeignKey(rows, ms) == \A m \in ms : m.operations # {} => rows[m.tx] # None

\* The payloads of a batch that settle a transaction; the others insert one.
StatusTransitions(ms) == {m \in ms : m.stage \in Settled}

InsertedOperations(ms) == operations \cup UNION {m.operations : m \in ms}

\* One UPDATE ... FROM VALUES: the rows that exist take the status they are given.
Updated(ms) ==
    [t \in Transactions |->
        IF row[t] # None /\ \E m \in ms : m.tx = t
        THEN (CHOOSE m \in ms : m.tx = t).stage ELSE row[t]]

\* One database transaction inserts the new rows and all operations, those of
\* the status transitions included.
AtomicBulkInsert(c) ==
    LET ms == job[c].batch
        inserted == Inserted(ms \ StatusTransitions(ms))
    IN
    /\ job[c].at = "bulk"
    /\ IF ForeignKey(inserted, ms)
       THEN /\ row' = inserted
            /\ parented' = parented \cup {m.tx : m \in {n \in ms : n.parent /\ row[n.tx] = None}}
            /\ operations' = InsertedOperations(ms)
            /\ job' = [job EXCEPT ![c].at = "status"]
       ELSE /\ job' = [job EXCEPT ![c] = Fallback(@)]
            /\ UNCHANGED <<row, operations, parented>>
    /\ UNCHANGED <<handler, redis, moved, queue, cleaning, replay, replays, quarantine, faults>>

\* The status transitions.  Other transactions of the batch decide whether the
\* threshold is reached: then one statement skips rows that are not there,
\* else every row has its own statement and a missing one is an error.
PerformBulkStatusUpdate(c) ==
    LET updates == StatusTransitions(job[c].batch)
        missing == \E m \in updates : row[m.tx] = None
    IN
    /\ job[c].at = "status"
    /\ row' = Updated(updates)
    /\ \E bulkStatement \in BOOLEAN :
         job' = [job EXCEPT ![c] = IF missing /\ ~bulkStatement THEN Fallback(@) ELSE [@ EXCEPT !.at = "events"]]
    /\ UNCHANGED <<handler, redis, moved, queue, cleaning, replay, replays, operations, parented, quarantine, faults>>

\* A statement of the bulk path fails.
FailBulk(c) ==
    /\ job[c].at \in {"bulk", "status"}
    /\ \E m \in job[c].batch : Fault("write", m.stage)
    /\ job' = [job EXCEPT ![c] = Fallback(@)]
    /\ UNCHANGED <<handler, redis, moved, queue, cleaning, replay, replays, postgres>>

\* Two goroutines per payload, and the acknowledgement of all deliveries.
ProcessMetadataAndEvents(c) ==
    LET ms == job[c].batch IN
    /\ job[c].at = "events"
    /\ cleaning' = cleaning \cup {[tx |-> m.tx, stage |-> m.stage, matched |-> FALSE] : m \in ms}
                            \cup {[tx |-> m.tx, stage |-> "writeBehind", matched |-> FALSE] : m \in ms}
    /\ job' = [job EXCEPT ![c] = NoJob]
    /\ UNCHANGED <<handler, redis, moved, queue, replay, replays, postgres, faults>>

\* The next message of a fallback pass.
ProcessIndividually(c) ==
    /\ job[c].at = "fallback"
    /\ \E m \in job[c].rest :
         job' = [job EXCEPT ![c].message = m, ![c].rest = @ \ {m}, ![c].at = "row"]
    /\ UNCHANGED <<handler, redis, moved, queue, cleaning, replay, replays, postgres, faults>>

\* The job once its message is dealt with.  The first pass acknowledges
\* nothing until its end; if a message failed in it, the error handler of the
\* collector processes the whole batch again and acknowledges one by one.
After(j, failed) ==
    LET pass == IF failed /\ j.pass = "first" THEN "failed" ELSE j.pass
        batch == IF pass \in {"first", "failed"} THEN j.batch ELSE j.batch \ {j.message}
        next == [batch |-> batch, rest |-> j.rest, message |-> NoMessage, pass |-> pass, at |-> "fallback"]
    IN  IF j.rest # {} THEN next
        ELSE IF pass = "failed" THEN [next EXCEPT !.rest = batch, !.pass = "second"]
        ELSE NoJob

\* Insert; on a duplicate key only a message that settles a pending
\* transaction changes the row.
CreateOrUpdateTransaction(w) ==
    LET m == job[w].message IN
    /\ job[w].at = "row"
    /\ row' = [row EXCEPT ![m.tx] = IF @ = None \/ m.stage \in Settled THEN Promoted(m.stage) ELSE @]
    /\ parented' = IF row[m.tx] = None /\ m.parent THEN parented \cup {m.tx} ELSE parented
    /\ job' = [job EXCEPT ![w].at = "operations"]
    /\ UNCHANGED <<handler, redis, moved, queue, cleaning, replay, replays, operations, quarantine, faults>>

\* An operation that is already there is skipped.
CreateOperations(w) ==
    /\ job[w].at = "operations"
    /\ operations' = operations \cup job[w].message.operations
    /\ job' = [job EXCEPT ![w].at = "cleanup"]
    /\ UNCHANGED <<handler, redis, moved, queue, cleaning, replay, replays, row, parented, quarantine, faults>>

\* A handler of a pod in synchronous mode is persisting its transaction.
Synchronous(w) == w \in Handlers /\ At(w, "persisting")

\* The cleanup goroutine is started, the write-behind entry deleted, and the
\* delivery acknowledged (or the request goes on).  In synchronous mode the
\* goroutine removes the entry whatever its status, and a commit or cancel is
\* at its end: it does not write the write-behind entry again.
FinishWrite(w) ==
    LET m == job[w].message IN
    /\ job[w].at = "cleanup"
    /\ cleaning' = cleaning \cup {[tx |-> m.tx, stage |-> m.stage, matched |-> Synchronous(w)]}
    /\ cache' = [cache EXCEPT ![m.tx] = None]
    /\ job' = [job EXCEPT ![w] = After(@, FALSE)]
    /\ IF w \in Handlers
       THEN Goto(w, IF w \in Settlers /\ Synchronous(w) THEN "done" ELSE "written")
       ELSE UNCHANGED handler
    /\ UNCHANGED <<idem, lock, backup, attempts, moved, queue, replay, replays, postgres, faults>>

\* The database refuses.  A handler answers with an error; a consumer
\* publishes the message again with one more try, or dead-letters it when the
\* error is permanent or the tries are used up.
HandleFailure(w) ==
    LET m == job[w].message IN
    /\ job[w].at \in {"row", "operations"}
    /\ Fault(IF w \in Handlers THEN "fallback" ELSE "write", m.stage)
    /\ job' = [job EXCEPT ![w] = After(@, TRUE)]
    /\ IF w \in Handlers
       THEN Goto(w, "done") /\ UNCHANGED queue
       ELSE IF job[w].pass \in {"first", "failed"} THEN UNCHANGED <<handler, queue>>
       ELSE /\ UNCHANGED handler
            /\ queue' \in (IF m.tries < MaxRetries THEN {queue \cup {[m EXCEPT !.tries = @ + 1]}} ELSE {})
                          \cup (IF <<"deadletter", m.stage>> \in Faults THEN {queue} ELSE {})
    /\ UNCHANGED <<redis, moved, cleaning, replay, replays, postgres>>

\* The consumer dies or its channel closes before the acknowledgement.
Redeliver(c) ==
    /\ job[c].at # None /\ faults < MaxFaults
    /\ queue' = queue \cup job[c].batch
    /\ job' = [job EXCEPT ![c] = NoJob]
    /\ faults' = faults + 1
    /\ UNCHANGED <<handler, redis, moved, cleaning, replay, replays, postgres>>

\* RemoveTransactionFromRedisQueueIfStatus reads the entry ...
CompareBackup(g) ==
    /\ g \in cleaning /\ ~g.matched /\ g.stage # "writeBehind"
    /\ cleaning' = (cleaning \ {g}) \cup (IF backup[g.tx].stage = g.stage
                                         THEN {[g EXCEPT !.matched = TRUE]} ELSE {})
    /\ UNCHANGED <<handler, redis, moved, queue, job, replay, replays, postgres, faults>>

\* ... and removes it with a second command.
RemoveBackup(g) ==
    /\ g \in cleaning /\ g.matched
    /\ backup' = [backup EXCEPT ![g.tx] = NoEntry]
    /\ cleaning' = cleaning \ {g}
    /\ UNCHANGED <<handler, idem, lock, attempts, cache, moved, queue, job, replay, replays, postgres, faults>>

\* DeleteWriteBehindTransaction in a goroutine of the bulk consumer.
DeleteWriteBehind(g) ==
    /\ g \in cleaning /\ g.stage = "writeBehind"
    /\ cache' = [cache EXCEPT ![g.tx] = None]
    /\ cleaning' = cleaning \ {g}
    /\ UNCHANGED <<handler, idem, lock, backup, attempts, moved, queue, job, replay, replays, postgres, faults>>

(***************************************************************************)
(* The backup consumer.  One pod at a time holds the cycle lock.           *)
(***************************************************************************)
\* An entry older than MessageTimeOfLife (30 min, longer than any request).
\* MaxReplays bounds the replays that overtake a message in flight.
ReadMessage(t) ==
    /\ backup[t] # NoEntry /\ ~Live(t)
    /\ replay[t] = NoEntry
    /\ InFlight(t) => replays[t] < MaxReplays /\ (t \in Reverts => ~PromptConsumers)
    /\ replay' = [replay EXCEPT ![t] = backup[t]]
    /\ replays' = [replays EXCEPT ![t] = IF @ < MaxReplays THEN @ + 1 ELSE @]
    /\ UNCHANGED <<handler, redis, moved, queue, job, cleaning, postgres, faults>>

\* The materialized operations, or new ones built from the stored balances.
ReplayedOperations(t) ==
    IF replay[t].operations # {} THEN replay[t].operations
    ELSE IF replay[t].ran THEN {Operation(t, replay[t].stage, replays[t])} ELSE {}

ProcessMessage(t) ==
    /\ replay[t].valid
    /\ queue' = queue \cup {Message(t, replay[t].stage, ReplayedOperations(t), FALSE)}
    /\ attempts' = [attempts EXCEPT ![t] = 0]
    /\ replay' = [replay EXCEPT ![t] = NoEntry]
    /\ UNCHANGED <<handler, idem, lock, backup, cache, moved, job, cleaning, replays, postgres, faults>>

\* The operations cannot be rebuilt, or neither RabbitMQ nor PostgreSQL takes
\* the transaction: no attempt is counted and the next cycle tries again.
AbandonReplay(t) ==
    /\ replay[t].valid
    /\ Fault("replay", replay[t].stage)
    /\ replay' = [replay EXCEPT ![t] = NoEntry]
    /\ UNCHANGED <<handler, redis, moved, queue, job, cleaning, replays, postgres>>

\* A seeded fault for TLC: the record is removed at the first failure.
QuarantineEarly(t) ==
    /\ replay[t] # NoEntry
    /\ replay[t].valid => replay[t].operations = {} /\ <<"settings", replay[t].stage>> \in Faults
    /\ backup' = [backup EXCEPT ![t] = NoEntry]
    /\ UNCHANGED <<quarantine, attempts>>
    /\ replay' = [replay EXCEPT ![t] = NoEntry]
    /\ UNCHANGED <<handler, idem, lock, cache, moved, queue, job, cleaning, replays, row, operations, parented, faults>>

\* A record without Validate, or whose ledger settings cannot be read, counts
\* an attempt; at the threshold it is inserted into the quarantine table and
\* only then removed.
QuarantinePoisonRecord(t) ==
    /\ replay[t] # NoEntry
    /\ replay[t].valid => replay[t].operations = {} /\ <<"settings", replay[t].stage>> \in Faults
    /\ IF attempts[t] + 1 < QuarantineThreshold
       THEN /\ attempts' = [attempts EXCEPT ![t] = @ + 1]
            /\ UNCHANGED <<backup, quarantine>>
       ELSE /\ quarantine' = quarantine \cup {<<t, replay[t].stage>>}
            /\ backup' = [backup EXCEPT ![t] = NoEntry]
            /\ attempts' = [attempts EXCEPT ![t] = 0]
    /\ replay' = [replay EXCEPT ![t] = NoEntry]
    /\ UNCHANGED <<handler, idem, lock, cache, moved, queue, job, cleaning, replays, row, operations, parented, faults>>

StartRequest(h) ==
    \/ h \in Settlers /\ GetTransaction(h)
    \/ h \in Settlers /\ AcquireLock(h)
    \/ h \in Reverts /\ RevertTransaction(h)
    \/ h \in Transactions /\ CreateOrCheckTransactionIdempotency(h)

\* The steps of a request once it has claimed its key or lock.
RequestStep(h) ==
    \/ RejectClaimed(h) \/ Seed(h) \/ RejectSeeded(h) \/ ProcessBalanceOperations(h)
    \/ Build(h) \/ WriteTransactionAsync(h) \/ WriteTransactionSync(h) \/ FinishRequest(h)
    \/ h \in Settlers /\ UpdateTransactionStatus(h)

WriterStep(w) == CreateOrUpdateTransaction(w) \/ CreateOperations(w) \/ FinishWrite(w)

BulkStep(c) ==
    \/ AtomicBulkInsert(c) \/ PerformBulkStatusUpdate(c)
    \/ ProcessMetadataAndEvents(c) \/ ProcessIndividually(c)

CleanupStep(g) == CompareBackup(g) \/ RemoveBackup(g) \/ DeleteWriteBehind(g)

Next ==
    \/ \E h \in Handlers : \/ StartRequest(h) \/ RequestStep(h)
                          \/ FailBuild(h) \/ Crash(h) \/ WriteTransactionFallback(h)
    \/ \E w \in Writers : WriterStep(w) \/ HandleFailure(w)
    \/ \E c \in Consumers : Deliver(c) \/ CollectBatch(c) \/ BulkStep(c) \/ FailBulk(c) \/ Redeliver(c)
    \/ \E g \in cleaning : CleanupStep(g)
    \/ \E k \in Keys : KeyExpires(k)
    \/ \E t \in Transactions : \/ LockExpires(t) \/ ReadMessage(t)
                              \/ ProcessMessage(t) \/ AbandonReplay(t)
                              \/ QuarantinePoisonRecord(t)

Spec == Init /\ [][Next]_vars

\* A started request runs to its end, the workers and the cron keep running.
Fairness ==
    /\ \A h \in Handlers : WF_vars(RequestStep(h))
    /\ \A w \in Writers : WF_vars(WriterStep(w))
    /\ \A c \in Consumers : WF_vars(Deliver(c)) /\ WF_vars(CollectBatch(c)) /\ WF_vars(BulkStep(c))
    /\ \A t \in Transactions : WF_vars(ReadMessage(t)) /\ WF_vars(ProcessMessage(t))

FairSpec == Spec /\ Fairness

-----------------------------------------------------------------------------
\* The stage has reached the transaction and operation tables.
Persisted(t, stage) ==
    /\ \E o \in operations : o.tx = t /\ o.stage = stage
    /\ IF stage = "PENDING" THEN row[t] # None ELSE row[t] = Promoted(stage)

\* Idempotency: while a key lives, however requests under it interleave, and wherever
\* they fail, at most one of them moves balances, and the key only ever
\* answers with a transaction whose balances moved.
IdempotentMoves ==
    \A k \in Keys :
      LET movers == {t \in Transactions : Key[t] = k /\ moved[t][StageOf(t)] > 0} IN
      /\ \A t, u \in movers : t = u
      /\ \A t \in movers : moved[t][StageOf(t)] = 1
      /\ idem[k] \in Transactions => idem[k] \in movers

\* A transaction is reversed once: whoever checks first, the content key stops
\* a second reversal until it expires, and the parent lookup does from then on.
RevertedOnce ==
    \A t \in Transactions :
      \A r, u \in {v \in Reverts : Parent[v] = t /\ moved[v]["REVERT"] > 0} : r = u

\* A held transaction is settled once: concurrent commit and cancel requests
\* move its balances one time in all, and only after the hold moved them.
SettledOnce ==
    \A t \in Transactions :
      LET settlements == moved[t]["APPROVED"] + moved[t]["CANCELED"] IN
      /\ settlements <= 1
      /\ settlements = 1 => moved[t]["PENDING"] = 1

\* No stage whose balances moved is lost: a live request still carries it, or
\* the backup queue, a message, a replay, the quarantine or the tables do.
MovesAreDurable ==
    \A t \in Transactions, stage \in Stages :
      moved[t][stage] > 0 =>
        \/ \E h \in Handlers : handler[h].at \in {"moved", "built", "updated"}
                             /\ handler[h].tx = t /\ handler[h].stage = stage
        \/ backup[t].stage = stage \/ replay[t].stage = stage
        \/ \E m \in queue : m.tx = t /\ m.stage = stage
        \/ \E w \in Writers : \E m \in job[w].batch : m.tx = t /\ m.stage = stage
        \/ <<t, stage>> \in quarantine
        \/ Persisted(t, stage)

\* Nothing is persisted that never happened: a row, a settled status and an
\* operation all go back to balances that the script moved.
PersistedWasMoved ==
    /\ \A t \in Transactions :
         /\ row[t] # None => moved[t][StageOf(t)] > 0
         /\ t \in Holds /\ row[t] \in Settled => moved[t][row[t]] > 0
    /\ \A o \in operations : moved[o.tx][o.stage] > 0

\* A settled row is final: late, repeated or replayed messages of an earlier
\* stage never bring a transaction back or change its outcome.
SettledIsFinal ==
    [][\A t \in Transactions : row[t] \in Settled => row'[t] = row[t]]_vars

\* Every stage whose balances moved is eventually in the tables, or in the
\* quarantine, through crashes of handlers and consumers, failed writes and
\* dead-lettered messages.
MovesArePersisted ==
    \A t \in Transactions : \A stage \in StagesOf(t) :
      moved[t][stage] > 0 ~> Persisted(t, stage) \/ <<t, stage>> \in quarantine

\* Cleanup never removes the backup of a stage before it is persisted, even
\* when a late worker of the previous stage cleans up after itself.
CleanupKeepsNewerStage ==
    [][\A t \in Transactions :
         /\ backup[t] # NoEntry /\ backup'[t] = NoEntry
         /\ moved[t][backup[t].stage] > 0
         => Persisted(t, backup[t].stage) \/ <<t, backup[t].stage>> \in quarantine']_vars
=============================================================================
