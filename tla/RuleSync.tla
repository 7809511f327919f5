------------------------------ MODULE RuleSync ------------------------------
(***************************************************************************)
(* The tracer's rules: the rows of PostgreSQL, the in-memory cache one     *)
(* tracer process evaluates transactions against, and what keeps the two   *)
(* together.                                                               *)
(*                                                                         *)
(*   rows     the table of rules                                           *)
(*   cache    this process's RuleCache bucket: only ACTIVE rules           *)
(*   synced   the bucket's lastSyncTime, 0 when it was never written       *)
(*   cmd      rule commands in flight, on this process or on another one   *)
(*   worker   incarnations of the RuleSyncWorker of this bucket            *)
(*                                                                         *)
(* A command reads a rule, stamps the change with its clock, commits it    *)
(* and, when it is an activation or a deactivation, writes the cache of    *)
(* the process it runs on.  A worker polls the rows whose stamp is not     *)
(* older than its mark lastSync minus the overlap buffer, classifies them  *)
(* against the cache, applies the differences and moves the mark.  In      *)
(* single-tenant mode the bucket is loaded at boot (WarmUp); in            *)
(* multi-tenant mode the supervisor starts and stops the tenant's worker   *)
(* and the worker's first cycle is the load.                               *)
(*                                                                         *)
(* Time is in ticks.  Lag bounds how long a stamp may precede its commit   *)
(* and its cache write, how long a cycle takes, and the way from the       *)
(* warm-up to the worker's start; Skew bounds how far the clock of another *)
(* process is off.  The overlap buffer is there to cover them.             *)
(***************************************************************************)
EXTENDS Integers, FiniteSets

CONSTANTS
    Rules,
    Commands,   \* rule commands that may be in flight together
    Workers,    \* incarnations of the bucket's RuleSyncWorker
    Overlap,    \* RuleSyncWorkerConfig.OverlapBuffer
    Lag,
    Skew,
    Modes,      \* values of MULTI_TENANT_ENABLED: "single", "multi"
    NoWorker,   \* no entry in WorkerSupervisor.workers
    MaxTime,    \* bound on the clock, by mode
    MaxCommands \* bound on the commands executed, by mode

ASSUME TimingAssumption ==
    /\ Lag \in Nat /\ Skew \in Nat /\ MaxTime \in [Modes -> Nat] /\ MaxCommands \in [Modes -> Nat]
    /\ Overlap \in Nat
    /\ Overlap >= 3 * Lag + 2 * Skew

ASSUME NamesAssumption == NoWorker \notin Workers /\ Modes \subseteq {"single", "multi"}

VARIABLES
    mode, now, rows, cache, ready, synced, cmd, issued,
    boot,        \* single-tenant boot: "down", "loading", "up"
    load,        \* the warm-up query's time and result
    worker,
    registered,  \* WorkerSupervisor.workers[tenant]
    stopping,    \* the incarnation StopWorkers has removed and not yet evicted
    rewound,     \* for the properties: the rules whose row was put back under an old stamp
    unloaded     \* for the properties: the rules the registered worker never polled

history == <<rewound, unloaded>>
vars == <<mode, now, rows, cache, ready, synced, cmd, issued, boot, load,
          worker, registered, stopping, history>>

\* rows: status and updatedAt of each rule.  A rule's stamp stands for the version of
\* its name, expression, action and scopes; status "NONE" is a rule not created yet.
\* cache: the stamps of the rules in the bucket.  A command in flight has the step
\* "read" or "committed", its op, rule, the row it read, its server and the time.
Idle == [step |-> "idle"]

\* newest is the stamp updateLastSync will find.
Off == [step |-> "off", mark |-> 0, at |-> 0, fetched |-> <<>>,
        upserts |-> <<>>, removals |-> {}, newest |-> 0]

NoLoad == [at |-> 0, rules |-> <<>>]

-----------------------------------------------------------------------------
(* The rule commands.                                                      *)

\* validTransitions of rule_status.go.
CanTransitionTo(from, to) ==
    \/ from = "DRAFT" /\ to \in {"ACTIVE", "DELETED"}
    \/ from = "ACTIVE" /\ to = "INACTIVE"
    \/ from = "INACTIVE" /\ to \in {"DRAFT", "ACTIVE", "DELETED"}

Target == [activate |-> "ACTIVE", deactivate |-> "INACTIVE",
           draft |-> "DRAFT", delete |-> "DELETED"]

\* GetByID filters deleted_at IS NULL.
Found(r) == rows[r].status \notin {"NONE", "DELETED"}

\* What a command checks on the rule it read before it opens its transaction.
Accepts(op, status) ==
    CASE op = "create" -> status = "NONE"
      [] op \in {"update", "keep"} -> status \notin {"NONE", "DELETED"}
      [] OTHER -> CanTransitionTo(status, Target[op])

\* A command on this process needs the process up; other processes are always
\* there.  Where a command runs makes a difference only if it writes the cache.
Begin(c, op, r, local) ==
    /\ cmd[c] = Idle
    /\ issued < MaxCommands[mode]
    /\ local => boot = "up"
    /\ Accepts(op, rows[r].status)
    /\ cmd' = [cmd EXCEPT ![c] = [step |-> "read", op |-> op, rule |-> r, read |-> rows[r],
                                  local |-> local, at |-> now]]
    /\ issued' = issued + 1
    /\ UNCHANGED <<mode, now, rows, cache, ready, synced, boot, load, worker, registered, stopping, history>>

CreateRule(c, r) == Begin(c, "create", r, FALSE)

\* A PATCH; "keep" is one that names only the action the rule already has.
UpdateRule(c, r) == \E op \in {"update", "keep"} : Begin(c, op, r, FALSE)

DraftRule(c, r) == Begin(c, "draft", r, FALSE)
DeleteRule(c, r) == Begin(c, "delete", r, FALSE)
ActivateRule(c, r) == \E local \in BOOLEAN : Begin(c, "activate", r, local)
DeactivateRule(c, r) == \E local \in BOOLEAN : Begin(c, "deactivate", r, local)

\* The status a command writes.  The entity it read is written back whole, its
\* status included.
NewStatus(q) ==
    CASE q.op = "create" -> "DRAFT"
      [] q.op \in {"update", "keep"} -> q.read.status
      [] OTHER -> Target[q.op]

\* The stamps the command's clock may have given between its read and its commit.
\* SetAction does not stamp a rule that has the action: it is written back with the
\* stamp that was read.
StampsOf(q) ==
    IF q.op = "keep" THEN {q.read.updatedAt}
    ELSE IF q.local THEN {t \in q.at .. now : now - t <= Lag}
    ELSE {t \in q.at - Skew .. now + Skew : t >= now - Lag - Skew}

\* The deleted_at IS NULL guard of the UPDATE; an INSERT has a fresh id.
Writable(q) == IF q.op = "create" THEN rows[q.rule].status = "NONE" ELSE Found(q.rule)

\* The stamp tells a poll that the row was written now.
Fresh(t) == t >= now - Lag - Skew

\* executeInTx: the row and its audit event are committed together.
Persist(c) ==
    LET q == cmd[c] IN
    /\ q.step = "read"
    /\ Writable(q)
    /\ \E t \in StampsOf(q) :
          /\ rows' = [rows EXCEPT ![q.rule] = [status |-> NewStatus(q), updatedAt |-> t]]
          /\ cmd' = [cmd EXCEPT ![c] =
                        IF q.local THEN [q EXCEPT !.step = "committed", !.at = t] ELSE Idle]
          /\ rewound' = IF Fresh(t) THEN rewound \ {q.rule}
                        ELSE IF rows' = rows THEN rewound ELSE rewound \cup {q.rule}
          /\ unloaded' = IF Fresh(t) THEN unloaded \ {q.rule} ELSE unloaded
    /\ UNCHANGED <<mode, now, cache, ready, synced, issued, boot, load, worker, registered, stopping>>

\* The transaction fails, or the UPDATE matches no row: nothing is written.
Fail(c) ==
    /\ cmd[c].step = "read"
    /\ cmd' = [cmd EXCEPT ![c] = Idle]
    /\ UNCHANGED <<mode, now, rows, cache, ready, synced, issued, boot, load, worker, registered, stopping, history>>

Without(bucket, r) == [x \in DOMAIN bucket \ {r} |-> bucket[x]]

With(bucket, upserts, removals) ==
    [x \in (DOMAIN bucket \cup DOMAIN upserts) \ removals |->
        IF x \in DOMAIN upserts THEN upserts[x] ELSE bucket[x]]

\* After the commit: UpsertRule and MarkReady, or RemoveRule.
WriteCache(c) ==
    LET q == cmd[c] IN
    /\ q.step = "committed"
    /\ cache' = IF q.op = "activate" THEN With(cache, [x \in {q.rule} |-> q.at], {})
                ELSE Without(cache, q.rule)
    /\ ready' = (ready \/ q.op = "activate")
    /\ synced' = now
    /\ cmd' = [cmd EXCEPT ![c] = Idle]
    /\ UNCHANGED <<mode, now, rows, issued, boot, load, worker, registered, stopping, history>>

-----------------------------------------------------------------------------
(* The sync worker.                                                        *)

\* runLoop: the mark starts at the bucket's lastSyncTime.  A tenant's bucket that a
\* command has written by then has one, although nothing else was ever loaded.
RunLoop(w) ==
    /\ worker[w].step = "starting"
    /\ worker' = [worker EXCEPT ![w] = [Off EXCEPT !.step = "idle", !.mark = synced]]
    /\ unloaded' = IF mode = "single" \/ registered # w THEN unloaded
                   ELSE IF synced = 0 THEN {} ELSE Rules
    /\ UNCHANGED <<mode, now, rows, cache, ready, synced, cmd, issued, boot, load, registered, stopping, rewound>>

\* GetRulesUpdatedSince: rows of any status whose stamp is not before since.
UpdatedSince(since) ==
    [r \in {x \in Rules : rows[x].status # "NONE" /\ rows[x].updatedAt >= since} |-> rows[r]]

\* The poll without its overlap buffer.
Since_NoOverlap(w) == IF worker[w].mark = 0 THEN 0 - Skew ELSE worker[w].mark

\* A mark of 0 is the zero time: everything is newer.
Since(w) == IF worker[w].mark = 0 THEN 0 - Skew ELSE worker[w].mark - Overlap

\* A failed or refused query (database error, open circuit) skips the cycle and
\* changes nothing.
QueryDelta(w) ==
    /\ worker[w].step = "idle"
    /\ worker' = [worker EXCEPT ![w].step = "fetched", ![w].at = now,
                                ![w].fetched = UpdatedSince(Since(w))]
    /\ UNCHANGED <<mode, now, rows, cache, ready, synced, cmd, issued, boot, load, registered, stopping, history>>

\* Rules that are cached already are not compared.
Upserts_NewOnly(fetched) ==
    [r \in {x \in DOMAIN fetched : fetched[x].status = "ACTIVE" /\ x \notin DOMAIN cache} |->
        fetched[r].updatedAt]

\* ClassifyChanges: new and updated rules are upserts.
Upserts(fetched) ==
    [r \in {x \in DOMAIN fetched :
              /\ fetched[x].status = "ACTIVE"
              /\ x \in DOMAIN cache => fetched[x].updatedAt > cache[x]} |->
        fetched[r].updatedAt]

Removals(fetched) == {x \in DOMAIN fetched : fetched[x].status # "ACTIVE" /\ x \in DOMAIN cache}

\* updateLastSync: the newest stamp fetched, when it is past the mark.
Newest(mark, fetched) ==
    LET stamps == {mark} \cup {fetched[r].updatedAt : r \in DOMAIN fetched}
    IN CHOOSE t \in stamps : \A u \in stamps : u <= t

ClassifyChanges(w) ==
    LET f == worker[w].fetched IN
    /\ worker[w].step = "fetched"
    /\ worker' = [worker EXCEPT ![w].step = "classified", ![w].fetched = <<>>,
                                ![w].upserts = Upserts(f), ![w].removals = Removals(f),
                                ![w].newest = Newest(worker[w].mark, f)]
    /\ UNCHANGED <<mode, now, rows, cache, ready, synced, cmd, issued, boot, load, registered, stopping, history>>

ApplyChanges(w) ==
    /\ worker[w].step = "classified"
    /\ cache' = With(cache, worker[w].upserts, worker[w].removals)
    /\ synced' = now
    /\ worker' = [worker EXCEPT ![w].step = "applied", ![w].upserts = <<>>, ![w].removals = {}]
    /\ UNCHANGED <<mode, now, rows, ready, cmd, issued, boot, load, registered, stopping, history>>

\* ... and the clock when no row advanced it.
NewMark(w) == IF worker[w].newest = worker[w].mark THEN now ELSE worker[w].newest

\* MarkReady and the new mark end the cycle.
FinishCycle(w) ==
    /\ worker[w].step = "applied"
    /\ ready' = TRUE
    /\ worker' = [worker EXCEPT ![w] = [Off EXCEPT !.step = "idle", !.mark = NewMark(w)]]
    /\ UNCHANGED <<mode, now, rows, cache, synced, cmd, issued, boot, load, registered, stopping, history>>

-----------------------------------------------------------------------------
(* Boot, crash and the supervisor.                                         *)

\* WarmUp reads GetAllActiveRules ...
WarmUp ==
    /\ mode = "single" /\ boot = "down"
    /\ boot' = "loading"
    /\ load' = [at |-> now, rules |-> [r \in {x \in Rules : rows[x].status = "ACTIVE"} |-> rows[r].updatedAt]]
    /\ UNCHANGED <<mode, now, rows, cache, ready, synced, cmd, issued, worker, registered, stopping, history>>

\* ... and replaces the bucket (SetRules, MarkReady); the server and the worker start.
FinishWarmUp ==
    /\ boot = "loading"
    /\ boot' = "up"
    /\ cache' = load.rules /\ ready' = TRUE /\ synced' = now /\ load' = NoLoad
    /\ \E w \in Workers :
          /\ worker[w].step = "off"
          /\ worker' = [worker EXCEPT ![w] = [Off EXCEPT !.step = "starting", !.at = load.at]]
          /\ registered' = w
    /\ UNCHANGED <<mode, now, rows, cmd, issued, stopping, history>>

\* Multi-tenant boot: no warm-up, the bucket is empty.
BootTenants ==
    /\ mode = "multi" /\ boot = "down"
    /\ boot' = "up"
    /\ UNCHANGED <<mode, now, rows, cache, ready, synced, cmd, issued, load, worker, registered, stopping, history>>

\* EnsureWorkers, from a request, a tenant event or the initial tenant sync.
EnsureWorkers ==
    /\ mode = "multi" /\ boot = "up" /\ registered = NoWorker
    /\ \E w \in Workers :
          /\ worker[w].step = "off"
          /\ worker' = [worker EXCEPT ![w] = [Off EXCEPT !.step = "starting", !.at = now]]
          /\ registered' = w
    /\ UNCHANGED <<mode, now, rows, cache, ready, synced, cmd, issued, boot, load, stopping, history>>

\* StopWorkers: LoadAndDelete and cancel ...
StopWorkers ==
    /\ mode = "multi" /\ registered # NoWorker /\ stopping = NoWorker
    /\ stopping' = registered
    /\ registered' = NoWorker
    /\ UNCHANGED <<mode, now, rows, cache, ready, synced, cmd, issued, boot, load, worker, history>>

\* ... the cancelled incarnation returns from its loop at the select ...
Exit(w) ==
    /\ stopping = w
    /\ worker[w].step \in {"starting", "idle"}
    /\ worker' = [worker EXCEPT ![w] = [Off EXCEPT !.step = "exited"]]
    /\ UNCHANGED <<mode, now, rows, cache, ready, synced, cmd, issued, boot, load, registered, stopping, history>>

\* The registered worker is in its loop; its first poll is still to come.
Running(w) == worker[w].step \in {"idle", "fetched", "classified", "applied"} /\ registered = w
Unread(w) == worker[w].step = "idle" /\ worker[w].mark = 0

\* ... and the bucket is evicted, be it that a new incarnation has filled it meanwhile.
EvictTenant ==
    /\ stopping # NoWorker
    /\ worker[stopping].step = "exited"
    /\ cache' = <<>> /\ ready' = FALSE /\ synced' = 0
    /\ stopping' = NoWorker
    /\ unloaded' = IF \A w \in Workers : Running(w) => Unread(w) THEN unloaded ELSE Rules
    /\ UNCHANGED <<mode, now, rows, cmd, issued, boot, load, worker, registered, rewound>>

\* The process dies: bucket, workers and its own commands are gone; what they
\* committed stays.
Crash ==
    /\ boot # "down"
    /\ \E w \in Workers : worker[w].step = "off"
    /\ boot' = "down" /\ load' = NoLoad
    /\ cache' = <<>> /\ ready' = FALSE /\ synced' = 0
    /\ cmd' = [c \in Commands |-> IF cmd[c] # Idle /\ cmd[c].local THEN Idle ELSE cmd[c]]
    /\ worker' = [w \in Workers |-> IF worker[w].step = "off" THEN Off
                                    ELSE [Off EXCEPT !.step = "exited"]]
    /\ registered' = NoWorker /\ stopping' = NoWorker
    /\ rewound' = {} /\ unloaded' = {}
    /\ UNCHANGED <<mode, now, rows, issued>>

\* The clock advances while nothing that must be timely is overdue.
Tick ==
    /\ now < MaxTime[mode]
    /\ \A c \in Commands : cmd[c].step = "committed" => now - cmd[c].at < Lag
    /\ boot = "loading" => now - load.at < Lag
    /\ \A w \in Workers :
          worker[w].step \in {"starting", "fetched", "classified", "applied"} => now - worker[w].at < Lag
    /\ now' = now + 1
    /\ UNCHANGED <<mode, rows, cache, ready, synced, cmd, issued, boot, load, worker, registered, stopping, history>>

-----------------------------------------------------------------------------
Init ==
    /\ mode \in Modes
    /\ now = 1
    /\ rows \in [Rules -> {[status |-> s, updatedAt |-> 0] : s \in {"NONE", "ACTIVE", "INACTIVE"}}]
    /\ cache = <<>> /\ ready = FALSE /\ synced = 0
    /\ cmd = [c \in Commands |-> Idle] /\ issued = 0
    /\ boot = "down" /\ load = NoLoad
    /\ worker = [w \in Workers |-> Off]
    /\ registered = NoWorker /\ stopping = NoWorker
    /\ rewound = {} /\ unloaded = {}

Cycle(w) == RunLoop(w) \/ QueryDelta(w) \/ ClassifyChanges(w) \/ ApplyChanges(w) \/ FinishCycle(w)

Next ==
    \/ \E c \in Commands :
          \/ \E r \in Rules :
                \/ CreateRule(c, r) \/ UpdateRule(c, r) \/ DraftRule(c, r) \/ DeleteRule(c, r)
                \/ ActivateRule(c, r) \/ DeactivateRule(c, r)
          \/ Persist(c) \/ Fail(c) \/ WriteCache(c)
    \/ \E w \in Workers : Cycle(w) \/ Exit(w)
    \/ WarmUp \/ FinishWarmUp \/ BootTenants \/ EnsureWorkers \/ StopWorkers \/ EvictTenant
    \/ Crash \/ Tick

Spec == Init /\ [][Next]_vars

-----------------------------------------------------------------------------
Reflects(r) ==
    IF rows[r].status = "ACTIVE" THEN r \in DOMAIN cache /\ cache[r] = rows[r].updatedAt
    ELSE r \notin DOMAIN cache

\* The row was overwritten by a command that stamped it earlier than, or at the
\* same time as, the version the cache holds: ClassifyChanges keeps the cached one.
Regressed(r) ==
    rows[r].status = "ACTIVE" /\ r \in DOMAIN cache /\ cache[r] >= rows[r].updatedAt

WillBeFetched(w, r) == rows[r].updatedAt >= Since(w)

\* The rules a poll can be held to.  The others are wrong until their row is written
\* again: a PATCH that changed nothing put an earlier row back under its old stamp;
\* the tenant's worker took over a bucket that a command had marked as synchronised;
\* or the eviction of the previous incarnation emptied a bucket already loaded.
Polled == Rules \ (rewound \cup unloaded)

\* Whatever commands, polls, crashes and tenant events overlap, a polled rule the
\* cache shows wrongly is still inside the window of the next poll, so its change is
\* not lost: the mark of RuleSyncWorker never runs past it.
NothingMissed ==
    \A w \in Workers : Running(w) =>
        \A r \in Polled : Reflects(r) \/ WillBeFetched(w, r) \/ Regressed(r)

\* A cycle leaves the bucket current: once a RuleSyncWorker has applied what it
\* fetched, every polled rule that was settled when it polled (its stamp is older than
\* the longest a commit and a cache write can trail it) is the one rule_repository
\* holds, whatever other commands did to the bucket while the cycle ran.
CycleCatchesUp ==
    \A w \in Workers : worker[w].step = "applied" /\ registered = w =>
        \A r \in Polled : rows[r].updatedAt < worker[w].at - 2 * Lag - Skew => Reflects(r) \/ Regressed(r)
=============================================================================
