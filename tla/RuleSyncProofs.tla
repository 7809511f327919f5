--------------------------- MODULE RuleSyncProofs ---------------------------
(***************************************************************************)
(* What TLAPS proves about rule synchronisation for any number of rules,   *)
(* commands, crashes and worker incarnations, and for all delays and clock *)
(* skews that the overlap buffer covers.                                   *)
(***************************************************************************)
EXTENDS RuleSync, WellFoundedInduction, TLAPS

Statuses == {"NONE", "DRAFT", "ACTIVE", "INACTIVE", "DELETED"}

Row == [status : Statuses, updatedAt : Int]

Buckets == UNION {[S -> Int] : S \in SUBSET Rules}

Deltas == UNION {[S -> Row] : S \in SUBSET Rules}

Command == [step : {"read", "committed"},
            op : {"create", "update", "keep", "draft", "delete", "activate", "deactivate"},
            rule : Rules, read : Row, local : BOOLEAN, at : Int]

\* The steps that are over within Lag of the worker's time.
Timely == {"starting", "fetched", "classified", "applied"}

Polling == {"idle", "fetched", "classified", "applied"}

Worker == [step : Timely \cup {"off", "idle", "exited"}, mark : Int, at : Int,
           fetched : Deltas, upserts : Buckets, removals : SUBSET Rules, newest : Int]

Types ==
    /\ mode \in {"single", "multi"} /\ now \in Int /\ synced \in Int
    /\ rows \in [Rules -> Row]
    /\ cache \in Buckets
    /\ cmd \in [Commands -> {Idle} \cup Command]
    /\ boot \in {"down", "loading", "up"}
    /\ load \in [at : Int, rules : Buckets]
    /\ worker \in [Workers -> Worker]

\* Stamps come from clocks that are at most Skew off.  Only the tenant
\* supervisor evicts a bucket.
Clocks ==
    /\ now >= 1 /\ synced <= now
    /\ \A r \in Rules : 0 - Skew <= rows[r].updatedAt /\ rows[r].updatedAt <= now + Skew
    /\ mode = "single" => stopping = NoWorker

\* The row was written at time t or later: its stamp is not older than this, unless
\* an old one was put back.
WrittenSince(r, t) == r \in rewound \/ rows[r].updatedAt >= t - Lag - Skew

\* What a command is about to put into the bucket is the row, or the row has
\* been written since.
CommandOK(c) ==
    /\ cmd[c].step = "read" =>
         /\ 1 <= cmd[c].at /\ cmd[c].at <= now
         /\ cmd[c].local => cmd[c].op \in {"activate", "deactivate"}
         /\ cmd[c].op \in {"update", "keep"} => cmd[c].read.status # "NONE"
         /\ 0 - Skew <= cmd[c].read.updatedAt /\ cmd[c].read.updatedAt <= now + Skew
    /\ cmd[c].step = "committed" =>
         /\ cmd[c].local /\ cmd[c].op \in {"activate", "deactivate"}
         /\ cmd[c].at <= now /\ now <= cmd[c].at + Lag
         /\ \/ rows[cmd[c].rule] = [status |-> Target[cmd[c].op], updatedAt |-> cmd[c].at]
            \/ WrittenSince(cmd[c].rule, cmd[c].at)

\* The same for the result of the warm-up query, ...
LoadOK ==
    boot = "loading" =>
      /\ load.at <= now /\ now <= load.at + Lag
      /\ \A r \in Rules :
           \/ WrittenSince(r, load.at)
           \/ rows[r].status = "ACTIVE" /\ r \in DOMAIN load.rules /\ load.rules[r] = rows[r].updatedAt
           \/ rows[r].status # "ACTIVE" /\ r \notin DOMAIN load.rules

\* ... for what a worker has fetched, ...
FetchedOK(w) ==
    worker[w].step = "fetched" =>
      /\ \A r \in DOMAIN worker[w].fetched : worker[w].fetched[r].updatedAt <= worker[w].at + Skew
      /\ \A r \in Rules :
           \/ WrittenSince(r, worker[w].at)
           \/ r \in DOMAIN worker[w].fetched /\ worker[w].fetched[r] = rows[r]
           \/ r \notin DOMAIN worker[w].fetched /\ (rows[r].status = "NONE" \/ ~WillBeFetched(w, r))

\* ... and for what it is about to apply.
ClassifiedOK(w) ==
    worker[w].step = "classified" => \A r \in Rules :
      \/ WrittenSince(r, worker[w].at)
      \/ /\ r \in DOMAIN worker[w].upserts =>
               rows[r].status = "ACTIVE" /\ worker[w].upserts[r] = rows[r].updatedAt
         /\ r \in worker[w].removals => rows[r].status # "ACTIVE"

\* Nothing timely is overdue, and the mark is not past the clock.
WorkerClock(w) ==
    /\ worker[w].mark <= now + Skew
    /\ worker[w].step \in Timely => worker[w].at <= now /\ now <= worker[w].at + Lag
    /\ worker[w].step \in {"classified", "applied"} =>
         worker[w].newest = worker[w].mark \/ worker[w].newest <= worker[w].at + Skew

\* Only rules that exist are known outside the table.
KnownExist ==
    \A r \in Rules : rows[r].status = "NONE" =>
      /\ r \notin DOMAIN cache /\ r \notin DOMAIN load.rules
      /\ \A c \in Commands : cmd[c].step = "committed" => cmd[c].rule # r
      /\ \A w \in Workers : r \notin DOMAIN worker[w].fetched /\ r \notin DOMAIN worker[w].upserts

\* The bucket shows the rule as it is, or in a version ClassifyChanges keeps.
Shown(r) == Reflects(r) \/ Regressed(r)

\* Whatever wrote the bucket at time t carried a row that was current at most
\* Lag earlier, so a row it does not show was written since.
Recent(r, t) == r \in rewound \/ rows[r].updatedAt >= t - 2 * Lag - Skew

\* The bucket under a worker that has not begun to poll (it was loaded at the
\* worker's time), in the middle of a cycle, at its end, and at the next poll.
LoadedRecent(w) ==
    mode = "single" /\ worker[w].step = "starting" =>
      \A r \in Rules : Shown(r) \/ Recent(r, worker[w].at)

ClassifiedRecent(w) ==
    registered = w /\ worker[w].step = "classified" => \A r \in Polled :
      Shown(r) \/ Recent(r, worker[w].at) \/ r \in DOMAIN worker[w].upserts \/ r \in worker[w].removals

AppliedRecent(w) ==
    registered = w /\ worker[w].step = "applied" =>
      \A r \in Polled : Shown(r) \/ Recent(r, worker[w].at)

MarkOK(w) ==
    registered = w /\ worker[w].step \in Polling =>
      \A r \in Polled : Shown(r) \/ WillBeFetched(w, r)

WorkerOK(w) ==
    /\ WorkerClock(w) /\ FetchedOK(w) /\ ClassifiedOK(w)
    /\ LoadedRecent(w) /\ ClassifiedRecent(w) /\ AppliedRecent(w) /\ MarkOK(w)

\* The inductive invariant: every copy of a row that may still be written into
\* the bucket is current or recent, and so is the bucket under a running worker.
RuleInv ==
    /\ Types /\ Clocks /\ KnownExist /\ LoadOK
    /\ \A c \in Commands : CommandOK(c)
    /\ \A w \in Workers : WorkerOK(w)
-----------------------------------------------------------------------------
(* Buckets *)

LEMMA EmptyBucket == <<>> \in Buckets /\ <<>> \in Deltas /\ DOMAIN <<>> = {}
  <1>1. <<>> \in [{} -> Int] /\ <<>> \in [{} -> Row]
    OBVIOUS
  <1> QED BY <1>1, Zenon DEF Buckets, Deltas

LEMMA BucketType ==
  ASSUME NEW S \in SUBSET Rules, NEW f, f = [r \in S |-> f[r]]
  PROVE  /\ (\A r \in S : f[r] \in Int) => f \in Buckets
         /\ (\A r \in S : f[r] \in Row) => f \in Deltas
  <1>1. ASSUME \A r \in S : f[r] \in Int PROVE f \in [S -> Int] BY <1>1
  <1>2. ASSUME \A r \in S : f[r] \in Row PROVE f \in [S -> Row] BY <1>2
  <1> QED BY <1>1, <1>2 DEF Buckets, Deltas

LEMMA BucketFacts ==
  /\ \A f \in Buckets : DOMAIN f \subseteq Rules /\ \A r \in DOMAIN f : f[r] \in Int
  /\ \A f \in Deltas : DOMAIN f \subseteq Rules /\ \A r \in DOMAIN f : f[r] \in Row
  BY DEF Buckets, Deltas

LEMMA WithSound ==
  ASSUME NEW f \in Buckets, NEW g \in Buckets, NEW S
  PROVE  /\ With(f, g, S) \in Buckets
         /\ DOMAIN With(f, g, S) = (DOMAIN f \cup DOMAIN g) \ S
         /\ \A r \in DOMAIN With(f, g, S) :
              With(f, g, S)[r] = IF r \in DOMAIN g THEN g[r] ELSE f[r]
  <1> DEFINE h == With(f, g, S)
  <1>1. /\ DOMAIN h = (DOMAIN f \cup DOMAIN g) \ S
        /\ \A r \in DOMAIN h : h[r] = IF r \in DOMAIN g THEN g[r] ELSE f[r]
        /\ h = [r \in DOMAIN h |-> h[r]]
    BY DEF With
  <1>2. DOMAIN h \subseteq Rules /\ \A r \in DOMAIN h : h[r] \in Int
    <2> HIDE DEF h
    <2> QED BY <1>1, BucketFacts
  <1> HIDE DEF h
  <1>3. h \in Buckets BY <1>1, <1>2, BucketType
  <1> QED BY <1>1, <1>3 DEF h

LEMMA WithoutSound ==
  ASSUME NEW f \in Buckets, NEW r
  PROVE  /\ Without(f, r) \in Buckets
         /\ DOMAIN Without(f, r) = DOMAIN f \ {r}
         /\ \A x \in DOMAIN f \ {r} : Without(f, r)[x] = f[x]
  <1> DEFINE h == Without(f, r)
  <1>1. /\ DOMAIN h = DOMAIN f \ {r}
        /\ \A x \in DOMAIN h : h[x] = f[x]
        /\ h = [x \in DOMAIN h |-> h[x]]
    BY DEF Without
  <1>2. DOMAIN h \subseteq Rules /\ \A x \in DOMAIN h : h[x] \in Int
    <2> HIDE DEF h
    <2> QED BY <1>1, BucketFacts
  <1> HIDE DEF h
  <1>3. h \in Buckets BY <1>1, <1>2, BucketType
  <1> QED BY <1>1, <1>3 DEF h
-----------------------------------------------------------------------------
\* A worker that does not move keeps what it relies on, when the clock
\* advances within its deadline, rows are written with current stamps, and
\* whatever changes in the bucket is shown or recent.
LEMMA Unmoved ==
  ASSUME RuleInv, Types', NEW w \in Workers, worker'[w] = worker[w], mode' = mode, now' >= now,
         worker[w].step \in Timely => now' <= worker[w].at + Lag,
         \A r \in Rules : \/ rows'[r] = rows[r] /\ (r \in rewound => r \in rewound')
                          \/ rows'[r].updatedAt >= now - Lag - Skew
                          \/ r \in rewound',
         \A r \in Rules : \/ /\ rows'[r] = rows[r] /\ (Shown(r) => Shown(r)')
                             /\ r \in rewound => r \in rewound'
                          \/ rows'[r].updatedAt >= now - 2 * Lag - Skew
                          \/ Shown(r)' \/ r \in rewound',
         registered' = w => registered = w /\ \A r \in unloaded :
             r \in unloaded' \/ rows'[r].updatedAt >= now - 2 * Lag - Skew,
         \A r \in Rules : 0 - Skew <= rows'[r].updatedAt
  PROVE  WorkerOK(w)'
  <1>0. /\ Lag \in Nat /\ Skew \in Nat /\ Overlap \in Nat /\ Overlap >= 3 * Lag + 2 * Skew
        /\ now \in Int /\ now' \in Int
        /\ worker[w] \in Worker
        /\ \A r \in Rules : rows[r] \in Row /\ rows'[r] \in Row
        /\ WorkerOK(w)
    BY TimingAssumption DEF RuleInv, Types
  <1>1. /\ worker[w].mark \in Int /\ worker[w].at \in Int
        /\ \A r \in Rules : rows[r].updatedAt \in Int /\ rows'[r].updatedAt \in Int
    BY <1>0 DEF Worker, Row
  <1>2. Since(w)' = Since(w) /\ Since(w) \in Int
    BY <1>0, <1>1 DEF Since
  <1>3. WorkerClock(w)'
    BY <1>0, <1>1 DEF WorkerOK, WorkerClock
  <1>4. FetchedOK(w)'
    BY <1>0, <1>1, <1>2 DEF WorkerOK, WorkerClock, FetchedOK, WrittenSince, WillBeFetched, Timely
  <1>5. ClassifiedOK(w)'
    BY <1>0, <1>1 DEF WorkerOK, WorkerClock, ClassifiedOK, WrittenSince, Timely
  <1>6. LoadedRecent(w)'
    BY <1>0, <1>1 DEF WorkerOK, WorkerClock, LoadedRecent, Recent, Timely
  <1>7. ClassifiedRecent(w)' /\ AppliedRecent(w)'
    BY <1>0, <1>1 DEF WorkerOK, WorkerClock, ClassifiedRecent, AppliedRecent, Recent, Timely, Polled
  <1>8. MarkOK(w)'
    <2>1. \A r \in Rules : rows'[r].updatedAt >= now - 2 * Lag - Skew => rows'[r].updatedAt >= Since(w)
      BY <1>0, <1>1 DEF WorkerOK, WorkerClock, Since
    <2> QED BY <1>0, <1>1, <1>2, <2>1 DEF WorkerOK, MarkOK, WillBeFetched, Polled
  <1> QED BY <1>3, <1>4, <1>5, <1>6, <1>7, <1>8 DEF WorkerOK

LEMMA CommandUnmoved ==
  ASSUME RuleInv, Types', NEW c \in Commands, cmd'[c] = cmd[c], now' >= now,
         cmd[c].step = "committed" => now' <= cmd[c].at + Lag,
         \A r \in Rules : \/ rows'[r] = rows[r] /\ (r \in rewound => r \in rewound')
                          \/ rows'[r].updatedAt >= now - Lag - Skew
                          \/ r \in rewound'
  PROVE  CommandOK(c)'
  <1>1. /\ Lag \in Nat /\ Skew \in Nat /\ now \in Int /\ now' \in Int
        /\ cmd[c] \in {Idle} \cup Command /\ CommandOK(c)
        /\ \A r \in Rules : rows[r] \in Row /\ rows'[r] \in Row
    BY TimingAssumption DEF RuleInv, Types
  <1>2. CASE cmd[c] = Idle
    BY <1>2 DEF CommandOK, Idle
  <1>3. CASE cmd[c] \in Command
    <2>1. cmd[c].at \in Int /\ cmd[c].rule \in Rules
      BY <1>3 DEF Command
    <2>2. \A r \in Rules : rows[r].updatedAt \in Int /\ rows'[r].updatedAt \in Int
      BY <1>1 DEF Row
    <2>3. cmd[c].read.updatedAt \in Int
      BY <1>3 DEF Command, Row
    <2> QED BY <1>1, <2>1, <2>2, <2>3 DEF CommandOK, WrittenSince
  <1> QED BY <1>1, <1>2, <1>3

LEMMA LoadUnmoved ==
  ASSUME RuleInv, Types', UNCHANGED <<boot, load>>, now' >= now,
         boot = "loading" => now' <= load.at + Lag,
         \A r \in Rules : \/ rows'[r] = rows[r] /\ (r \in rewound => r \in rewound')
                          \/ rows'[r].updatedAt >= now - Lag - Skew
                          \/ r \in rewound'
  PROVE  LoadOK'
  <1>1. /\ Lag \in Nat /\ Skew \in Nat /\ now \in Int /\ now' \in Int
        /\ load.at \in Int /\ LoadOK
        /\ \A r \in Rules : rows[r].updatedAt \in Int /\ rows'[r].updatedAt \in Int
    BY TimingAssumption DEF RuleInv, Types, Row
  <1> QED BY <1>1 DEF RuleInv, LoadOK, WrittenSince
-----------------------------------------------------------------------------
(* The commands *)

LEMMA BeginSound ==
  ASSUME RuleInv, NEW c \in Commands, NEW r \in Rules, NEW local \in BOOLEAN,
         NEW op \in {"create", "update", "keep", "draft", "delete", "activate", "deactivate"},
         local => op \in {"activate", "deactivate"}, Begin(c, op, r, local)
  PROVE  RuleInv'
  <1> DEFINE q == [step |-> "read", op |-> op, rule |-> r, read |-> rows[r],
                   local |-> local, at |-> now]
  <1>1. /\ cmd' = [cmd EXCEPT ![c] = q]
        /\ UNCHANGED <<mode, now, rows, cache, ready, synced, boot, load, worker, registered, stopping,
                       rewound, unloaded>>
    BY DEF Begin, history
  <1>2. rows[r] \in Row /\ now \in Int
    BY DEF RuleInv, Types
  <1>3. /\ q \in Command /\ q.step = "read" /\ q.at = now /\ q.local = local /\ q.op = op
        /\ q.read = rows[r]
    BY <1>2 DEF Command
  <1>9. op \in {"update", "keep"} => rows[r].status # "NONE"
    BY DEF Begin, Accepts
  <1> HIDE DEF q
  <1>4. Types'
    BY <1>1, <1>3 DEF RuleInv, Types
  <1>5. Clocks' /\ LoadOK'
    BY <1>1 DEF RuleInv, Clocks, LoadOK, WrittenSince
  <1>6. KnownExist'
    BY <1>1, <1>3 DEF RuleInv, KnownExist, Types
  <1>7. ASSUME NEW d \in Commands PROVE CommandOK(d)'
    <2>1. CASE d = c BY <1>1, <1>2, <1>3, <1>9, <2>1 DEF RuleInv, CommandOK, Types, Clocks
    <2>2. CASE d # c BY <1>1, <2>2, Zenon DEF RuleInv, CommandOK, Types, WrittenSince
    <2> QED BY <2>1, <2>2
  <1>8. ASSUME NEW w \in Workers PROVE WorkerOK(w)'
    <2>1. WorkerOK(w) BY DEF RuleInv
    <2> QED
      BY <1>1, <2>1 DEF WorkerOK, WorkerClock, FetchedOK, ClassifiedOK, LoadedRecent, ClassifiedRecent,
         AppliedRecent, MarkOK, Shown, Reflects, Regressed, WrittenSince, Recent, WillBeFetched, Since, Polled
  <1> QED BY <1>4, <1>5, <1>6, <1>7, <1>8 DEF RuleInv

LEMMA PersistSound ==
  ASSUME RuleInv, NEW c \in Commands, Persist(c)
  PROVE  RuleInv'
  <1> DEFINE q == cmd[c]
  <1>1. /\ q.step = "read" /\ q \in Command
        /\ UNCHANGED <<mode, now, cache, ready, synced, issued, boot, load, worker, registered, stopping>>
    BY DEF RuleInv, Persist, Types, Idle
  <1>2. PICK t \in StampsOf(q) :
          /\ rows' = [rows EXCEPT ![q.rule] = [status |-> NewStatus(q), updatedAt |-> t]]
          /\ cmd' = [cmd EXCEPT ![c] = IF q.local THEN [q EXCEPT !.step = "committed", !.at = t] ELSE Idle]
          /\ rewound' = IF Fresh(t) THEN rewound \ {q.rule}
                        ELSE IF rows' = rows THEN rewound ELSE rewound \cup {q.rule}
          /\ unloaded' = IF Fresh(t) THEN unloaded \ {q.rule} ELSE unloaded
    BY Zenon DEF Persist
  <1>3. /\ Lag \in Nat /\ Skew \in Nat /\ now \in Int /\ q.at \in Int /\ q.rule \in Rules
        /\ q.op \in {"create", "update", "keep", "draft", "delete", "activate", "deactivate"}
        /\ q.read.status \in Statuses /\ q.read.updatedAt \in Int /\ q.local \in BOOLEAN
        /\ 1 <= q.at /\ q.at <= now
        /\ q.local => q.op \in {"activate", "deactivate"}
        /\ q.op \in {"update", "keep"} => q.read.status # "NONE"
        /\ 0 - Skew <= q.read.updatedAt /\ q.read.updatedAt <= now + Skew
    <2>1. CommandOK(c) BY DEF RuleInv
    <2> QED BY <1>1, <2>1, TimingAssumption DEF RuleInv, Types, Command, CommandOK, Row
  <1>4. /\ t \in Int /\ 0 - Skew <= t /\ t <= now + Skew
        /\ q.local => t <= now /\ now <= t + Lag
    BY <1>3 DEF StampsOf
  <1>5. NewStatus(q) \in Statuses /\ NewStatus(q) # "NONE"
        /\ (q.local => NewStatus(q) = Target[q.op])
    BY <1>3 DEF NewStatus, Target, Statuses
  <1> DEFINE p == [q EXCEPT !.step = "committed", !.at = t]
  <1>6. /\ p \in Command /\ p.step = "committed" /\ p.at = t /\ p.rule = q.rule /\ p.op = q.op
        /\ p.local = q.local
    BY <1>1, <1>3, <1>4, Zenon DEF Command
  <1>7. /\ cmd'[c] = IF q.local THEN p ELSE Idle
        /\ \A d \in Commands : d # c => cmd'[d] = cmd[d]
        /\ cmd' \in [Commands -> {Idle} \cup Command]
    BY <1>2, <1>6 DEF RuleInv, Types
  <1>8. /\ rows'[q.rule] = [status |-> NewStatus(q), updatedAt |-> t]
        /\ \A r \in Rules : r # q.rule => rows'[r] = rows[r]
        /\ rows' \in [Rules -> Row]
    BY <1>2, <1>3, <1>4, <1>5 DEF RuleInv, Types, Row
  <1> HIDE DEF q, p
  <1>9. Types'
    BY <1>1, <1>7, <1>8 DEF RuleInv, Types
  <1>10. rows'[q.rule].updatedAt = t /\ rows'[q.rule].status = NewStatus(q)
    BY <1>8 DEF RuleInv
  <1>11. Clocks'
    BY <1>1, <1>3, <1>4, <1>8, <1>10, Zenon DEF RuleInv, Clocks
  <1>12. KnownExist'
    BY <1>1, <1>5, <1>6, <1>7, <1>8, <1>10 DEF RuleInv, KnownExist, Idle
  <1>13. /\ \A r \in Rules : \/ rows'[r] = rows[r] /\ (r \in rewound => r \in rewound')
                             \/ rows'[r].updatedAt >= now - Lag - Skew
                             \/ r \in rewound'
         /\ \A r \in unloaded : r \in unloaded' \/ (r = q.rule /\ t >= now - Lag - Skew)
    <2>1. CASE Fresh(t) BY <1>2, <1>8, <1>10, <2>1 DEF Fresh
    <2>2. CASE ~Fresh(t) BY <1>2, <1>8, <2>2
    <2> QED BY <2>1, <2>2
  <1>14. LoadOK'
    BY <1>1, <1>3, <1>9, <1>13, LoadUnmoved DEF RuleInv, LoadOK
  <1>15. ASSUME NEW d \in Commands PROVE CommandOK(d)'
    <2>1. CASE d # c
      <3>1. cmd[d].step = "committed" => now' <= cmd[d].at + Lag
        BY <1>1, Zenon DEF RuleInv, CommandOK
      <3> QED BY <1>1, <1>3, <1>7, <1>9, <1>13, <2>1, <3>1, CommandUnmoved
    <2>2. CASE d = c /\ q.local
      <3>1. cmd'[d] = p /\ now' = now BY <1>1, <1>7, <2>2, Zenon
      <3>2. rows'[p.rule] = [status |-> Target[p.op], updatedAt |-> p.at]
        BY <1>5, <1>6, <1>8, <2>2, Zenon
      <3> QED BY <1>3, <1>4, <1>6, <2>2, <3>1, <3>2 DEF CommandOK
    <2>3. CASE d = c /\ ~q.local
      BY <1>7, <2>3 DEF CommandOK, Idle
    <2> QED BY <2>1, <2>2, <2>3, Zenon
  <1>16. ASSUME NEW w \in Workers PROVE WorkerOK(w)'
    <2>1. worker[w].step \in Timely => now' <= worker[w].at + Lag
      BY <1>1, Zenon DEF RuleInv, WorkerOK, WorkerClock
    <2>2. ASSUME NEW r \in Rules
          PROVE  /\ \/ /\ rows'[r] = rows[r] /\ (Shown(r) => Shown(r)')
                       /\ r \in rewound => r \in rewound'
                    \/ rows'[r].updatedAt >= now - 2 * Lag - Skew
                    \/ Shown(r)' \/ r \in rewound'
                 /\ 0 - Skew <= rows'[r].updatedAt
      <3>1. rows'[r] = rows[r] => (Shown(r)' <=> Shown(r))
        BY <1>1, Zenon DEF Shown, Reflects, Regressed
      <3>2. rows'[r].updatedAt \in Int BY <1>8, Zenon DEF Row
      <3>3. 0 - Skew <= rows'[r].updatedAt BY <1>4, <1>8, <1>10, Zenon DEF RuleInv, Clocks
      <3> QED BY <1>3, <1>13, <3>1, <3>2, <3>3
    <2>3. \A r \in unloaded : r \in unloaded' \/ rows'[r].updatedAt >= now - 2 * Lag - Skew
      BY <1>3, <1>4, <1>10, <1>13
    <2> QED BY <1>1, <1>3, <1>9, <1>13, <2>1, <2>2, <2>3, Unmoved
  <1> QED BY <1>9, <1>11, <1>12, <1>14, <1>15, <1>16 DEF RuleInv

LEMMA FailSound ==
  ASSUME RuleInv, NEW c \in Commands, Fail(c)
  PROVE  RuleInv'
  <1>1. /\ cmd' = [cmd EXCEPT ![c] = Idle]
        /\ UNCHANGED <<mode, now, rows, cache, ready, synced, issued, boot, load, worker, registered, stopping,
                       rewound, unloaded>>
    BY DEF Fail, history
  <1>2. Types' /\ Clocks' /\ LoadOK'
    BY <1>1, Zenon DEF RuleInv, Types, Clocks, LoadOK, WrittenSince
  <1>3. KnownExist'
    BY <1>1, Zenon DEF RuleInv, KnownExist, Types, Idle
  <1>4. ASSUME NEW d \in Commands PROVE CommandOK(d)'
    BY <1>1, Zenon DEF RuleInv, CommandOK, Types, WrittenSince, Idle
  <1>5. ASSUME NEW w \in Workers PROVE WorkerOK(w)'
    <2>1. WorkerOK(w) BY Zenon DEF RuleInv
    <2> QED
      BY <1>1, <2>1 DEF WorkerOK, WorkerClock, FetchedOK, ClassifiedOK, LoadedRecent, ClassifiedRecent,
         AppliedRecent, MarkOK, Shown, Reflects, Regressed, WrittenSince, Recent, WillBeFetched, Since, Polled
  <1> QED BY <1>2, <1>3, <1>4, <1>5 DEF RuleInv

\* A step that writes the bucket and moves no worker.
LEMMA BucketWritten ==
  ASSUME RuleInv, Types', UNCHANGED <<mode, now, rows, rewound>>,
         NEW w \in Workers, worker'[w] = worker[w],
         registered' = w => registered = w /\ unloaded \subseteq unloaded',
         \A r \in Rules : (Shown(r) => Shown(r)') \/ Shown(r)' \/ Recent(r, now)
  PROVE  WorkerOK(w)'
  <1>1. now \in Int /\ Lag \in Nat /\ Skew \in Nat
    BY TimingAssumption, Zenon DEF RuleInv, Types
  <1>2. worker[w].step \in Timely => now' <= worker[w].at + Lag
    BY Zenon DEF RuleInv, WorkerOK, WorkerClock
  <1>3. \A r \in Rules : /\ \/ /\ rows'[r] = rows[r] /\ (Shown(r) => Shown(r)')
                               /\ r \in rewound => r \in rewound'
                            \/ rows'[r].updatedAt >= now - 2 * Lag - Skew
                            \/ Shown(r)' \/ r \in rewound'
                         /\ 0 - Skew <= rows'[r].updatedAt
                         /\ rows'[r] = rows[r]
    BY DEF Recent, RuleInv, Clocks
  <1> QED BY <1>1, <1>2, <1>3, Unmoved

LEMMA WriteCacheSound ==
  ASSUME RuleInv, NEW c \in Commands, WriteCache(c)
  PROVE  RuleInv'
  <1> DEFINE q == cmd[c]
             one == [x \in {q.rule} |-> q.at]
  <1>1. /\ q.step = "committed" /\ q \in Command
        /\ cmd' = [cmd EXCEPT ![c] = Idle] /\ synced' = now
        /\ UNCHANGED <<mode, now, rows, issued, boot, load, worker, registered, stopping, rewound, unloaded>>
        /\ cache' = IF q.op = "activate" THEN With(cache, one, {}) ELSE Without(cache, q.rule)
    BY DEF RuleInv, WriteCache, Types, Idle, history
  <1>2. /\ Lag \in Nat /\ Skew \in Nat /\ now \in Int /\ q.at \in Int /\ q.rule \in Rules
        /\ q.op \in {"activate", "deactivate"} /\ q.at <= now /\ now <= q.at + Lag
        /\ \/ rows[q.rule] = [status |-> Target[q.op], updatedAt |-> q.at]
           \/ WrittenSince(q.rule, q.at)
    <2>1. CommandOK(c) BY DEF RuleInv
    <2> QED BY <1>1, <2>1, TimingAssumption DEF RuleInv, Types, Command, CommandOK
  <1>3. one \in Buckets /\ DOMAIN one = {q.rule} /\ one[q.rule] = q.at
    <2>1. one \in [{q.rule} -> Int] BY <1>2, Zenon
    <2> QED BY <1>2, <2>1, Zenon DEF Buckets
  <1>4. rows[q.rule].status # "NONE"
    BY <1>1, <1>2, Zenon DEF RuleInv, KnownExist
  <1> HIDE DEF q, one
  <1>5. /\ cache' \in Buckets
        /\ \A r \in Rules : r # q.rule =>
             (r \in DOMAIN cache' <=> r \in DOMAIN cache) /\ (r \in DOMAIN cache => cache'[r] = cache[r])
        /\ IF q.op = "activate" THEN q.rule \in DOMAIN cache' /\ cache'[q.rule] = q.at
           ELSE q.rule \notin DOMAIN cache'
    <2>1. cache \in Buckets BY Zenon DEF RuleInv, Types
    <2>2. CASE q.op = "activate"
      <3>1. cache' = With(cache, one, {}) BY <1>1, <2>2
      <3>2. /\ cache' \in Buckets /\ DOMAIN cache' = DOMAIN cache \cup {q.rule}
            /\ \A r \in DOMAIN cache' : cache'[r] = IF r \in {q.rule} THEN one[r] ELSE cache[r]
        <4>1. /\ With(cache, one, {}) \in Buckets
              /\ DOMAIN With(cache, one, {}) = (DOMAIN cache \cup DOMAIN one) \ {}
              /\ \A r \in DOMAIN With(cache, one, {}) :
                   With(cache, one, {})[r] = IF r \in DOMAIN one THEN one[r] ELSE cache[r]
          BY <1>3, <2>1, WithSound, Zenon
        <4> QED BY <1>3, <3>1, <4>1
      <3> QED BY <1>3, <2>2, <3>2
    <2>3. CASE q.op # "activate"
      <3>1. cache' = Without(cache, q.rule) BY <1>1, <2>3
      <3>2. /\ cache' \in Buckets /\ DOMAIN cache' = DOMAIN cache \ {q.rule}
            /\ \A r \in DOMAIN cache \ {q.rule} : cache'[r] = cache[r]
        BY <2>1, <3>1, WithoutSound, Zenon
      <3> QED BY <2>3, <3>2
    <2> QED BY <2>2, <2>3
  <1>6. Types'
    BY <1>1, <1>2, <1>5, Zenon DEF RuleInv, Types
  <1>7. Clocks' /\ LoadOK'
    BY <1>1, <1>2 DEF RuleInv, Clocks, LoadOK, WrittenSince
  <1>8. KnownExist'
    BY <1>1, <1>4, <1>5, Zenon DEF RuleInv, KnownExist, Types, Idle
  <1>9. ASSUME NEW d \in Commands PROVE CommandOK(d)'
    BY <1>1, Zenon DEF RuleInv, CommandOK, Types, WrittenSince, Idle
  <1>10. ASSUME NEW r \in Rules PROVE (Shown(r) => Shown(r)') \/ Shown(r)' \/ Recent(r, now)
    <2>1. CASE r # q.rule
      BY <1>1, <1>5, <2>1, Zenon DEF Shown, Reflects, Regressed
    <2>2. CASE r = q.rule /\ WrittenSince(q.rule, q.at)
      <3>1. rows[r].updatedAt \in Int BY Zenon DEF RuleInv, Types, Row
      <3> QED BY <1>2, <2>2, <3>1 DEF WrittenSince, Recent
    <2>3. CASE r = q.rule /\ rows[q.rule] = [status |-> Target[q.op], updatedAt |-> q.at]
      BY <1>1, <1>2, <1>5, <2>3 DEF Shown, Reflects, Target
    <2> QED BY <1>2, <2>1, <2>2, <2>3, Zenon
  <1>11. ASSUME NEW w \in Workers PROVE WorkerOK(w)'
    BY <1>1, <1>6, <1>10, BucketWritten
  <1> QED BY <1>6, <1>7, <1>8, <1>9, <1>11, Zenon DEF RuleInv
-----------------------------------------------------------------------------
(* The worker *)

\* A set of stamps that do not pass a bound has a newest one.
LEMMA NewestExists ==
  ASSUME NEW S \in SUBSET Int, S # {}, NEW b \in Int, \A s \in S : s <= b
  PROVE  \E t \in S : \A u \in S : u <= t
  <1> DEFINE T == {b - s : s \in S}
             R == OpToRel(<, Nat)
  <1>1. T \subseteq Nat /\ T # {}
    <2>1. \A s \in S : b - s \in Nat OBVIOUS
    <2>2. PICK s \in S : TRUE BY Zenon
    <2>3. b - s \in T OBVIOUS
    <2> QED BY <2>1, <2>3
  <1>2. PICK x \in T : \A y \in T : ~(<<y, x>> \in R)
    BY <1>1, NatLessThanWellFounded, WFMin, Zenon
  <1>3. \A y \in T : ~(y < x)
    BY <1>1, <1>2, Zenon DEF OpToRel
  <1>4. PICK t \in S : x = b - t
    BY <1>2, Zenon
  <1>5. ASSUME NEW u \in S PROVE u <= t
    BY <1>3, <1>4
  <1> QED BY <1>5

LEMMA OffType == Off \in Worker /\ NoLoad \in [at : Int, rules : Buckets]
  BY EmptyBucket DEF Off, NoLoad, Worker, Timely

\* A step of one worker that leaves the bucket alone.
LEMMA WorkerMoved ==
  ASSUME RuleInv, NEW w \in Workers, NEW n \in Worker, worker' = [worker EXCEPT ![w] = n],
         UNCHANGED <<mode, now, rows, cache, synced, cmd, boot, load, stopping, rewound>>,
         registered' # w => registered' = registered /\ unloaded' = unloaded,
         \A r \in Rules : rows[r].status = "NONE" => r \notin DOMAIN n.fetched /\ r \notin DOMAIN n.upserts,
         WorkerOK(w)'
  PROVE  RuleInv'
  <1>1. worker'[w] = n /\ \A x \in Workers : x # w => worker'[x] = worker[x]
    BY Zenon DEF RuleInv, Types
  <1>2. Types' /\ Clocks' /\ LoadOK' /\ \A c \in Commands : CommandOK(c)'
    BY Zenon DEF RuleInv, Types, Clocks, LoadOK, CommandOK, WrittenSince
  <1>3. KnownExist'
    BY <1>1, Zenon DEF RuleInv, KnownExist
  <1>4. ASSUME NEW x \in Workers PROVE WorkerOK(x)'
    <2>1. \A r \in Rules : Shown(r)' <=> Shown(r)
      BY DEF Shown, Reflects, Regressed
    <2>2. CASE x # w BY <1>1, <1>2, <2>1, <2>2, BucketWritten, Zenon
    <2> QED BY <2>2
  <1> QED BY <1>2, <1>3, <1>4, Zenon DEF RuleInv

\* A worker that is not in a cycle and has nothing to vouch for.
LEMMA Quiet ==
  ASSUME NEW w \in Workers, worker'[w].step \notin Polling,
         worker'[w].step = "starting" => mode' # "single", WorkerClock(w)'
  PROVE  WorkerOK(w)'
  BY DEF WorkerOK, FetchedOK, ClassifiedOK, LoadedRecent, ClassifiedRecent, AppliedRecent, MarkOK, Polling

LEMMA RunLoopSound ==
  ASSUME RuleInv, NEW w \in Workers, RunLoop(w)
  PROVE  RuleInv'
  <1> DEFINE n == [Off EXCEPT !.step = "idle", !.mark = synced]
  <1>1. /\ worker[w].step = "starting" /\ worker' = [worker EXCEPT ![w] = n]
        /\ UNCHANGED <<mode, now, rows, cache, synced, cmd, boot, load, registered, stopping, rewound>>
        /\ unloaded' = IF mode = "single" \/ registered # w THEN unloaded
                       ELSE IF synced = 0 THEN {} ELSE Rules
    BY DEF RunLoop
  <1>2. /\ Lag \in Nat /\ Skew \in Nat /\ Overlap \in Nat /\ Overlap >= 3 * Lag + 2 * Skew
        /\ now \in Int /\ synced \in Int /\ synced <= now /\ worker[w].at \in Int
        /\ \A r \in Rules : rows[r].updatedAt \in Int /\ 0 - Skew <= rows[r].updatedAt
    BY TimingAssumption DEF RuleInv, Types, Clocks, Row, Worker
  <1>3. n \in Worker /\ n.step = "idle" /\ n.mark = synced
        /\ n.fetched = <<>> /\ n.upserts = <<>>
    BY <1>2, OffType, Zenon DEF Off, Worker
  <1> HIDE DEF n
  <1>4. worker'[w] = n BY <1>1, <1>3 DEF RuleInv, Types
  <1>5. ASSUME registered' = w, NEW r \in Polled' PROVE Shown(r)' \/ WillBeFetched(w, r)'
    <2>0. r \in Rules /\ r \notin rewound /\ r \notin unloaded'
      BY <1>1, <1>5 DEF Polled
    <2>1. Shown(r)' <=> Shown(r)
      BY <1>1, Zenon DEF Shown, Reflects, Regressed
    <2>2. CASE synced = 0
      BY <1>1, <1>2, <1>3, <1>4, <2>0, <2>2, Zenon DEF WillBeFetched, Since
    <2>3. CASE mode = "single" /\ synced # 0
      <3>1. Shown(r) \/ Recent(r, worker[w].at)
        BY <1>1, <2>0, <2>3 DEF RuleInv, WorkerOK, LoadedRecent
      <3>2. now <= worker[w].at + Lag
        BY <1>1 DEF RuleInv, WorkerOK, WorkerClock, Timely
      <3> QED BY <1>1, <1>2, <1>3, <1>4, <2>0, <2>1, <2>3, <3>1, <3>2 DEF Recent, WillBeFetched, Since
    <2> QED BY <1>1, <1>5, <2>0, <2>2, <2>3, Zenon
  <1>6. WorkerOK(w)'
    <2>1. WorkerClock(w)'
      BY <1>1, <1>2, <1>3, <1>4 DEF WorkerClock, Timely
    <2>2. MarkOK(w)'
      BY <1>4, <1>5 DEF MarkOK
    <2>3. FetchedOK(w)' /\ ClassifiedOK(w)' /\ LoadedRecent(w)' /\ ClassifiedRecent(w)' /\ AppliedRecent(w)'
      BY <1>3, <1>4 DEF FetchedOK, ClassifiedOK, LoadedRecent, ClassifiedRecent, AppliedRecent
    <2> QED BY <2>1, <2>2, <2>3 DEF WorkerOK
  <1> QED BY <1>1, <1>3, <1>6, EmptyBucket, WorkerMoved, Zenon

LEMMA QueryDeltaSound ==
  ASSUME RuleInv, NEW w \in Workers, QueryDelta(w)
  PROVE  RuleInv'
  <1> DEFINE f == UpdatedSince(Since(w))
             n == [worker[w] EXCEPT !.step = "fetched", !.at = now, !.fetched = f]
  <1>1. /\ worker[w].step = "idle" /\ worker' = [worker EXCEPT ![w] = n]
        /\ UNCHANGED <<mode, now, rows, cache, synced, cmd, boot, load, registered, stopping, rewound, unloaded>>
    BY Zenon DEF QueryDelta, Types, history
  <1>2. /\ Lag \in Nat /\ Skew \in Nat /\ now \in Int /\ worker[w] \in Worker
        /\ \A r \in Rules : rows[r] \in Row /\ rows[r].updatedAt <= now + Skew
    BY TimingAssumption DEF RuleInv, Types, Clocks
  <1>3. /\ f \in Deltas
        /\ DOMAIN f = {r \in Rules : rows[r].status # "NONE" /\ rows[r].updatedAt >= Since(w)}
        /\ \A r \in DOMAIN f : f[r] = rows[r]
    <2>1. /\ DOMAIN f = {r \in Rules : rows[r].status # "NONE" /\ rows[r].updatedAt >= Since(w)}
          /\ \A r \in DOMAIN f : f[r] = rows[r]
          /\ f = [r \in DOMAIN f |-> f[r]]
      BY DEF UpdatedSince
    <2> HIDE DEF f
    <2>2. DOMAIN f \in SUBSET Rules /\ \A r \in DOMAIN f : f[r] \in Row
      BY <1>2, <2>1
    <2> QED BY <2>1, <2>2, BucketType, Zenon
  <1> HIDE DEF f
  <1>4. /\ n \in Worker /\ n.step = "fetched" /\ n.at = now /\ n.fetched = f
        /\ n.mark = worker[w].mark /\ n.upserts = worker[w].upserts
    BY <1>2, <1>3, Zenon DEF Worker, Timely
  <1> HIDE DEF n
  <1>5. worker'[w] = n BY <1>1, <1>4 DEF RuleInv, Types
  <1>6. Since(w)' = Since(w)
    BY <1>4, <1>5, Zenon DEF Since
  <1>7. FetchedOK(w)'
    BY <1>1, <1>2, <1>3, <1>4, <1>5, <1>6, Zenon DEF FetchedOK, WillBeFetched
  <1>8. MarkOK(w)'
    <2>1. \A r \in Rules : Shown(r)' <=> Shown(r)
      BY <1>1 DEF Shown, Reflects, Regressed
    <2>2. MarkOK(w) BY Zenon DEF RuleInv, WorkerOK
    <2> QED BY <1>1, <1>4, <1>5, <1>6, <2>1, <2>2, Zenon DEF MarkOK, Polling, WillBeFetched, Polled
  <1>9. WorkerClock(w)'
    <2>1. WorkerClock(w) BY Zenon DEF RuleInv, WorkerOK
    <2> QED BY <1>1, <1>2, <1>4, <1>5, <2>1 DEF WorkerClock
  <1>10. WorkerOK(w)'
    BY <1>4, <1>5, <1>7, <1>8, <1>9, Zenon DEF WorkerOK, ClassifiedOK, LoadedRecent, ClassifiedRecent, AppliedRecent
  <1>11. \A r \in Rules : rows[r].status = "NONE" => r \notin DOMAIN n.fetched /\ r \notin DOMAIN n.upserts
    BY <1>3, <1>4 DEF RuleInv, KnownExist
  <1> QED BY <1>1, <1>4, <1>10, <1>11, WorkerMoved, Zenon

LEMMA ClassifySound ==
  ASSUME RuleInv, NEW w \in Workers, ClassifyChanges(w)
  PROVE  RuleInv'
  <1> DEFINE f == worker[w].fetched
             u == Upserts(f)
             m == Removals(f)
             t == Newest(worker[w].mark, f)
             n == [worker[w] EXCEPT !.step = "classified", !.fetched = <<>>,
                                    !.upserts = u, !.removals = m, !.newest = t]
  <1>1. /\ worker[w].step = "fetched" /\ worker' = [worker EXCEPT ![w] = n]
        /\ UNCHANGED <<mode, now, rows, cache, synced, cmd, boot, load, registered, stopping, rewound, unloaded>>
    BY Zenon DEF ClassifyChanges, Types, history
  <1>2. /\ Lag \in Nat /\ Skew \in Nat /\ worker[w] \in Worker /\ worker[w].at \in Int
        /\ worker[w].mark \in Int /\ f \in Deltas
        /\ DOMAIN f \subseteq Rules /\ \A r \in DOMAIN f : f[r] \in Row
        /\ \A r \in Rules : rows[r] \in Row
    BY TimingAssumption, BucketFacts DEF RuleInv, Types, Worker
  <1>3. FetchedOK(w) /\ WorkerClock(w) /\ MarkOK(w)
    BY DEF RuleInv, WorkerOK
  <1> HIDE DEF f
  <1>4. /\ u \in Buckets
        /\ DOMAIN u = {r \in DOMAIN f : f[r].status = "ACTIVE"
                                        /\ (r \in DOMAIN cache => f[r].updatedAt > cache[r])}
        /\ \A r \in DOMAIN u : u[r] = f[r].updatedAt
    <2>1. /\ DOMAIN u = {r \in DOMAIN f : f[r].status = "ACTIVE"
                                          /\ (r \in DOMAIN cache => f[r].updatedAt > cache[r])}
          /\ \A r \in DOMAIN u : u[r] = f[r].updatedAt
          /\ u = [r \in DOMAIN u |-> u[r]]
      BY DEF Upserts
    <2> HIDE DEF u
    <2>2. DOMAIN u \in SUBSET Rules /\ \A r \in DOMAIN u : u[r] \in Int
      BY <1>2, <2>1, Zenon DEF Row
    <2> QED BY <2>1, <2>2, BucketType, Zenon
  <1>5. m \in SUBSET Rules /\ m = {r \in DOMAIN f : f[r].status # "ACTIVE" /\ r \in DOMAIN cache}
    BY <1>2, Zenon DEF Removals
  <1>6. t \in Int /\ (t = worker[w].mark \/ t <= worker[w].at + Skew)
    <2> DEFINE S == {worker[w].mark} \cup {f[r].updatedAt : r \in DOMAIN f}
               b == IF worker[w].mark > worker[w].at + Skew THEN worker[w].mark ELSE worker[w].at + Skew
    <2>1. \A r \in DOMAIN f : f[r].updatedAt \in Int /\ f[r].updatedAt <= worker[w].at + Skew
      BY <1>1, <1>2, <1>3, Zenon DEF FetchedOK, Row, f
    <2>2. S \in SUBSET Int /\ S # {} /\ b \in Int
      BY <1>2, <2>1
    <2>3. \A s \in S : s = worker[w].mark \/ s <= worker[w].at + Skew
      BY <2>1
    <2>4. ASSUME NEW s \in S PROVE s <= b
      <3>1. s \in Int /\ (s = worker[w].mark \/ s <= worker[w].at + Skew) BY <2>2, <2>3
      <3> QED BY <1>2, <3>1
    <2>5. t \in S
      <3> HIDE DEF S, b
      <3>1. \E x \in S : \A y \in S : y <= x
        BY <2>2, <2>4, NewestExists, Zenon
      <3>2. t = CHOOSE x \in S : \A y \in S : y <= x
        BY DEF Newest, S
      <3> QED BY <3>1, <3>2
    <2> QED BY <2>2, <2>3, <2>5
  <1> HIDE DEF u, m, t
  <1>7. /\ n \in Worker /\ n.step = "classified" /\ n.at = worker[w].at /\ n.fetched = <<>>
        /\ n.upserts = u /\ n.removals = m /\ n.newest = t
        /\ n.mark = worker[w].mark
    BY <1>2, <1>4, <1>5, <1>6, EmptyBucket, Zenon DEF Worker, Timely
  <1> HIDE DEF n
  <1>8. worker'[w] = n BY <1>1, <1>7 DEF RuleInv, Types
  <1>9. Since(w)' = Since(w)
    BY <1>7, <1>8, Zenon DEF Since
  <1>10. \A r \in Rules : Shown(r)' <=> Shown(r)
    BY <1>1, Zenon DEF Shown, Reflects, Regressed
  <1>11. ClassifiedOK(w)'
    BY <1>1, <1>3, <1>4, <1>5, <1>7, <1>8, Zenon DEF ClassifiedOK, FetchedOK, WrittenSince, f
  <1>12. ClassifiedRecent(w)'
    <2> SUFFICES ASSUME registered = w, NEW r \in Polled, ~Shown(r), ~Recent(r, worker[w].at)
                 PROVE  r \in DOMAIN u \/ r \in m
      BY <1>1, <1>7, <1>8, <1>10, Zenon DEF ClassifiedRecent, Recent, Polled
    <2>0. r \in Rules BY DEF Polled
    <2>1. rows[r].updatedAt \in Int BY <1>2, <2>0, Zenon DEF Row
    <2>2. ~WrittenSince(r, worker[w].at)
      BY <1>2, <2>1 DEF WrittenSince, Recent
    <2>3. WillBeFetched(w, r)
      BY <1>1, <1>3, Zenon DEF MarkOK, Polling
    <2>4. rows[r].status # "NONE"
      BY <2>0, Zenon DEF RuleInv, Shown, Reflects, KnownExist
    <2>5. r \in DOMAIN f /\ f[r] = rows[r]
      BY <1>1, <1>3, <2>0, <2>2, <2>3, <2>4, Zenon DEF FetchedOK, f
    <2>6. r \in DOMAIN cache => cache[r] \in Int
      BY BucketFacts, Zenon DEF RuleInv, Types
    <2> QED BY <1>4, <1>5, <2>1, <2>5, <2>6 DEF Shown, Reflects, Regressed
  <1>13. MarkOK(w)'
    BY <1>1, <1>3, <1>7, <1>8, <1>9, <1>10, Zenon DEF MarkOK, Polling, WillBeFetched, Polled
  <1>14. WorkerClock(w)'
    BY <1>1, <1>3, <1>6, <1>7, <1>8, Zenon DEF WorkerClock, Timely
  <1>15. WorkerOK(w)'
    BY <1>7, <1>8, <1>11, <1>12, <1>13, <1>14, Zenon DEF WorkerOK, FetchedOK, LoadedRecent, AppliedRecent
  <1>16. \A r \in Rules : rows[r].status = "NONE" => r \notin DOMAIN n.fetched /\ r \notin DOMAIN n.upserts
    BY <1>4, <1>7, EmptyBucket DEF RuleInv, KnownExist, f
  <1> QED BY <1>1, <1>7, <1>15, <1>16, WorkerMoved, Zenon

LEMMA ApplySound ==
  ASSUME RuleInv, NEW w \in Workers, ApplyChanges(w)
  PROVE  RuleInv'
  <1> DEFINE u == worker[w].upserts
             m == worker[w].removals
             n == [worker[w] EXCEPT !.step = "applied", !.upserts = <<>>, !.removals = {}]
  <1>1. /\ worker[w].step = "classified" /\ worker' = [worker EXCEPT ![w] = n]
        /\ cache' = With(cache, u, m) /\ synced' = now
        /\ UNCHANGED <<mode, now, rows, cmd, boot, load, registered, stopping, rewound, unloaded>>
    BY Zenon DEF ApplyChanges, Types, history
  <1>2. /\ Lag \in Nat /\ Skew \in Nat /\ now \in Int /\ worker[w] \in Worker /\ worker[w].at \in Int
        /\ u \in Buckets /\ m \in SUBSET Rules /\ cache \in Buckets
        /\ \A r \in Rules : rows[r].updatedAt \in Int /\ 0 - Skew <= rows[r].updatedAt
    BY TimingAssumption DEF RuleInv, Types, Worker, Row, Clocks
  <1>3. /\ WorkerClock(w) /\ ClassifiedOK(w) /\ ClassifiedRecent(w) /\ MarkOK(w)
    BY DEF RuleInv, WorkerOK
  <1>4. /\ n \in Worker /\ n.step = "applied" /\ n.at = worker[w].at /\ n.fetched = worker[w].fetched
        /\ n.upserts = <<>> /\ n.newest = worker[w].newest
        /\ n.mark = worker[w].mark
    BY <1>2, EmptyBucket, Zenon DEF Worker, Timely
  <1> HIDE DEF n
  <1>5. worker'[w] = n /\ (\A x \in Workers : x # w => worker'[x] = worker[x])
        /\ worker' \in [Workers -> Worker]
    BY <1>1, <1>4, Zenon DEF RuleInv, Types
  <1>6. /\ cache' \in Buckets
        /\ DOMAIN cache' = (DOMAIN cache \cup DOMAIN u) \ m
        /\ \A r \in DOMAIN cache' : cache'[r] = IF r \in DOMAIN u THEN u[r] ELSE cache[r]
    <2> HIDE DEF u, m
    <2>1. /\ With(cache, u, m) \in Buckets
          /\ DOMAIN With(cache, u, m) = (DOMAIN cache \cup DOMAIN u) \ m
          /\ \A r \in DOMAIN With(cache, u, m) :
               With(cache, u, m)[r] = IF r \in DOMAIN u THEN u[r] ELSE cache[r]
      <3>1. cache \in Buckets /\ u \in Buckets BY <1>2
      <3>2. With(cache, u, m) \in Buckets BY <3>1, WithSound, ZenonT(30)
      <3>3. DOMAIN With(cache, u, m) = (DOMAIN cache \cup DOMAIN u) \ m BY DEF With
      <3>4. ASSUME NEW r \in DOMAIN With(cache, u, m)
            PROVE  With(cache, u, m)[r] = IF r \in DOMAIN u THEN u[r] ELSE cache[r]
        BY DEF With
      <3> QED BY <3>2, <3>3, <3>4
    <2> QED BY <1>1, <2>1, Zenon
  <1>7. worker[w].at <= now /\ now <= worker[w].at + Lag
    BY <1>1, <1>3, Zenon DEF WorkerClock, Timely
  <1>8. Types'
    BY <1>1, <1>5, <1>6, Zenon DEF RuleInv, Types
  <1>9. Clocks' /\ LoadOK' /\ \A c \in Commands : CommandOK(c)'
    BY <1>1, <1>2 DEF RuleInv, Clocks, LoadOK, CommandOK, WrittenSince
  <1>10. KnownExist'
    BY <1>1, <1>4, <1>5, <1>6, EmptyBucket, ZenonT(30) DEF RuleInv, KnownExist
  <1>11. ASSUME NEW r \in Rules
         PROVE  /\ r \in DOMAIN u \/ r \in m => Shown(r)' \/ Recent(r, now)
                /\ ~(r \in DOMAIN u \/ r \in m) => (Shown(r)' <=> Shown(r))
    <2>1. WrittenSince(r, worker[w].at) => Recent(r, now)
      BY <1>2, <1>7 DEF WrittenSince, Recent
    <2>2. CASE ~(r \in DOMAIN u \/ r \in m)
      BY <1>1, <1>6, <2>2 DEF Shown, Reflects, Regressed
    <2>3. CASE r \in DOMAIN u \/ r \in m
      BY <1>1, <1>3, <1>6, <2>1, <2>3, Zenon DEF ClassifiedOK, Shown, Reflects
    <2> QED BY <2>2, <2>3
  <1>12. ASSUME NEW x \in Workers, x # w PROVE WorkerOK(x)'
    BY <1>1, <1>5, <1>8, <1>11, <1>12, BucketWritten, Zenon
  <1>13. WorkerOK(w)'
    <2>1. WorkerClock(w)'
      BY <1>1, <1>3, <1>4, <1>5, Zenon DEF WorkerClock, Timely
    <2>2. AppliedRecent(w)'
      <3>1. \A r \in Rules : Recent(r, now) => Recent(r, worker[w].at)
        BY <1>2, <1>7 DEF Recent
      <3>2. \A r \in Rules : Recent(r, worker[w].at)' <=> Recent(r, worker[w].at)
        BY <1>1, <1>4, <1>5, Zenon DEF Recent
      <3> QED BY <1>1, <1>3, <1>4, <1>5, <1>11, <3>1, <3>2, Zenon DEF AppliedRecent, ClassifiedRecent, Polled
    <2>3. MarkOK(w)'
      <3>1. Since(w)' = Since(w)
        BY <1>4, <1>5, Zenon DEF Since
      <3>2. \A r \in Polled : Recent(r, now) => WillBeFetched(w, r)
        <4>1. Overlap \in Nat /\ Overlap >= 3 * Lag + 2 * Skew /\ worker[w].mark \in Int
              /\ worker[w].mark <= now + Skew
          BY <1>2, <1>3, TimingAssumption, Zenon DEF WorkerClock, Worker
        <4> QED BY <1>2, <4>1 DEF Recent, WillBeFetched, Since, Polled
      <3>3. \A r \in Rules : WillBeFetched(w, r)' <=> WillBeFetched(w, r)
        BY <1>1, <3>1 DEF WillBeFetched
      <3> QED BY <1>1, <1>3, <1>4, <1>5, <1>11, <3>2, <3>3, Zenon DEF MarkOK, Polling, Polled
    <2> QED BY <1>4, <1>5, <2>1, <2>2, <2>3, Zenon
            DEF WorkerOK, FetchedOK, ClassifiedOK, LoadedRecent, ClassifiedRecent
  <1> QED BY <1>8, <1>9, <1>10, <1>12, <1>13 DEF RuleInv

LEMMA FinishCycleSound ==
  ASSUME RuleInv, NEW w \in Workers, FinishCycle(w)
  PROVE  RuleInv'
  <1> DEFINE k == NewMark(w)
             n == [Off EXCEPT !.step = "idle", !.mark = k]
  <1>1. /\ worker[w].step = "applied" /\ worker' = [worker EXCEPT ![w] = n]
        /\ UNCHANGED <<mode, now, rows, cache, synced, cmd, boot, load, registered, stopping, rewound, unloaded>>
    BY Zenon DEF FinishCycle, history
  <1>2. /\ Lag \in Nat /\ Skew \in Nat /\ Overlap \in Nat /\ Overlap >= 3 * Lag + 2 * Skew
        /\ now \in Int /\ worker[w] \in Worker /\ worker[w].at \in Int /\ worker[w].newest \in Int
        /\ \A r \in Rules : rows[r].updatedAt \in Int /\ 0 - Skew <= rows[r].updatedAt
    BY TimingAssumption DEF RuleInv, Types, Worker, Row, Clocks
  <1>3. WorkerClock(w) /\ AppliedRecent(w)
    BY DEF RuleInv, WorkerOK
  <1>4. k \in Int /\ k <= worker[w].at + Lag + Skew /\ k <= now + Skew
    BY <1>1, <1>2, <1>3 DEF NewMark, WorkerClock, Timely
  <1> HIDE DEF k
  <1>5. /\ n \in Worker /\ n.step = "idle" /\ n.mark = k
        /\ n.fetched = <<>> /\ n.upserts = <<>>
    BY <1>2, <1>4, OffType, Zenon DEF Off, Worker
  <1> HIDE DEF n
  <1>6. worker'[w] = n BY <1>1, <1>5, Zenon DEF RuleInv, Types
  <1>7. MarkOK(w)'
    <2>1. \A r \in Rules : Shown(r)' <=> Shown(r)
      BY <1>1, Zenon DEF Shown, Reflects, Regressed
    <2>2. \A r \in Polled : Recent(r, worker[w].at) => WillBeFetched(w, r)'
      BY <1>1, <1>2, <1>4, <1>5, <1>6 DEF Recent, WillBeFetched, Since, Polled
    <2> QED BY <1>1, <1>3, <1>5, <1>6, <2>1, <2>2, Zenon DEF AppliedRecent, MarkOK, Polled
  <1>8. WorkerOK(w)'
    BY <1>1, <1>2, <1>4, <1>5, <1>6, <1>7, Zenon DEF WorkerOK, WorkerClock, FetchedOK, ClassifiedOK,
       LoadedRecent, ClassifiedRecent, AppliedRecent, Timely
  <1> QED BY <1>1, <1>5, <1>8, EmptyBucket, WorkerMoved, Zenon
-----------------------------------------------------------------------------
(* Boot, crash, the supervisor and the clock *)

LEMMA WarmUpSound ==
  ASSUME RuleInv, WarmUp
  PROVE  RuleInv'
  <1> DEFINE f == [r \in {x \in Rules : rows[x].status = "ACTIVE"} |-> rows[r].updatedAt]
  <1>1. /\ boot' = "loading" /\ load' = [at |-> now, rules |-> f]
        /\ UNCHANGED <<mode, now, rows, cache, synced, cmd, worker, registered, stopping, rewound, unloaded>>
    BY DEF WarmUp, history
  <1>2. Lag \in Nat /\ Skew \in Nat /\ now \in Int /\ \A r \in Rules : rows[r].updatedAt \in Int
    BY TimingAssumption DEF RuleInv, Types, Row
  <1>3. /\ f \in Buckets /\ DOMAIN f = {x \in Rules : rows[x].status = "ACTIVE"}
        /\ \A r \in DOMAIN f : f[r] = rows[r].updatedAt
    <2>1. f \in [{x \in Rules : rows[x].status = "ACTIVE"} -> Int] BY <1>2, Zenon
    <2> QED BY <2>1, Zenon DEF Buckets
  <1> HIDE DEF f
  <1>4. load' \in [at : Int, rules : Buckets] /\ load'.at = now /\ load'.rules = f
    BY <1>1, <1>2, <1>3, Zenon
  <1>5. Types' /\ Clocks'
    BY <1>1, <1>4, Zenon DEF RuleInv, Types, Clocks
  <1>6. LoadOK'
    BY <1>1, <1>2, <1>3, <1>4 DEF LoadOK
  <1>7. KnownExist'
    BY <1>1, <1>3, <1>4, Zenon DEF RuleInv, KnownExist
  <1>8. \A c \in Commands : CommandOK(c)'
    BY <1>1, Zenon DEF RuleInv, CommandOK, WrittenSince
  <1>9. ASSUME NEW w \in Workers PROVE WorkerOK(w)'
    BY <1>1, <1>5, BucketWritten DEF Shown, Reflects, Regressed
  <1> QED BY <1>5, <1>6, <1>7, <1>8, <1>9 DEF RuleInv

LEMMA FinishWarmUpSound ==
  ASSUME RuleInv, FinishWarmUp
  PROVE  RuleInv'
  <1> DEFINE n == [Off EXCEPT !.step = "starting", !.at = load.at]
  <1>1. PICK w \in Workers : worker' = [worker EXCEPT ![w] = n] /\ registered' = w
    BY Zenon DEF FinishWarmUp
  <1>2. /\ boot = "loading" /\ boot' = "up" /\ cache' = load.rules /\ synced' = now /\ load' = NoLoad
        /\ UNCHANGED <<mode, now, rows, cmd, stopping, rewound, unloaded>>
    BY DEF FinishWarmUp, history
  <1>3. /\ Lag \in Nat /\ Skew \in Nat /\ now \in Int /\ load.at \in Int /\ load.rules \in Buckets
        /\ \A r \in Rules : rows[r].updatedAt \in Int
    BY TimingAssumption, Zenon DEF RuleInv, Types, Row
  <1>4. LoadOK /\ load.at <= now /\ now <= load.at + Lag
    BY <1>2 DEF RuleInv, LoadOK
  <1>5. /\ n \in Worker /\ n.step = "starting" /\ n.at = load.at /\ n.mark = 0
        /\ n.fetched = <<>> /\ n.upserts = <<>>
    BY <1>3, OffType, Zenon DEF Off, Worker, Timely
  <1> HIDE DEF n
  <1>6. /\ worker'[w] = n /\ \A x \in Workers : x # w => worker'[x] = worker[x]
        /\ worker' \in [Workers -> Worker]
    BY <1>1, <1>5, Zenon DEF RuleInv, Types
  <1>7. Types' /\ Clocks' /\ LoadOK' /\ \A c \in Commands : CommandOK(c)'
    BY <1>2, <1>3, <1>6, OffType DEF RuleInv, Types, Clocks, LoadOK, CommandOK, WrittenSince
  <1>8. KnownExist'
    <2>1. load'.rules = <<>> BY <1>2, Zenon DEF NoLoad
    <2> QED BY <1>2, <1>5, <1>6, <2>1, EmptyBucket, Zenon DEF RuleInv, KnownExist
  <1>9. ASSUME NEW r \in Rules PROVE Shown(r)' \/ Recent(r, now)
    <2>1. WrittenSince(r, load.at) => Recent(r, now)
      BY <1>3, <1>4 DEF WrittenSince, Recent
    <2> QED BY <1>2, <1>4, <2>1 DEF LoadOK, Shown, Reflects
  <1>10. ASSUME NEW x \in Workers, x # w PROVE WorkerOK(x)'
    BY <1>1, <1>2, <1>6, <1>7, <1>9, <1>10, BucketWritten, Zenon
  <1>11. WorkerOK(w)'
    <2>1. \A r \in Rules : Shown(r)' \/ r \in rewound' \/ rows'[r].updatedAt >= load.at - 2 * Lag - Skew
      BY <1>2, <1>3, <1>4, <1>9 DEF Recent
    <2>2. WorkerClock(w)'
      BY <1>2, <1>3, <1>4, <1>5, <1>6 DEF RuleInv, WorkerClock, Clocks
    <2>3. LoadedRecent(w)'
      BY <1>5, <1>6, <2>1 DEF LoadedRecent, Recent
    <2> QED BY <1>5, <1>6, <2>2, <2>3, Zenon DEF WorkerOK, FetchedOK, ClassifiedOK, ClassifiedRecent,
            AppliedRecent, MarkOK, Polling
  <1> QED BY <1>7, <1>8, <1>10, <1>11 DEF RuleInv

LEMMA BootTenantsSound ==
  ASSUME RuleInv, BootTenants
  PROVE  RuleInv'
  <1>1. boot' = "up" /\ UNCHANGED <<mode, now, rows, cache, synced, cmd, load, worker, registered, stopping,
                                        rewound, unloaded>>
    BY DEF BootTenants, history
  <1>2. Types' /\ Clocks' /\ LoadOK' /\ KnownExist' /\ \A c \in Commands : CommandOK(c)'
    BY <1>1, Zenon DEF RuleInv, Types, Clocks, LoadOK, KnownExist, CommandOK, WrittenSince
  <1>3. ASSUME NEW w \in Workers PROVE WorkerOK(w)'
    BY <1>1, <1>2, BucketWritten DEF Shown, Reflects, Regressed
  <1> QED BY <1>2, <1>3 DEF RuleInv

LEMMA EnsureWorkersSound ==
  ASSUME RuleInv, EnsureWorkers
  PROVE  RuleInv'
  <1> DEFINE n == [Off EXCEPT !.step = "starting", !.at = now]
  <1>1. PICK w \in Workers : worker' = [worker EXCEPT ![w] = n] /\ registered' = w
    BY Zenon DEF EnsureWorkers
  <1>2. mode = "multi" /\ UNCHANGED <<mode, now, rows, cache, synced, cmd, boot, load, stopping, rewound, unloaded>>
    BY DEF EnsureWorkers, history
  <1>3. Lag \in Nat /\ Skew \in Nat /\ now \in Int /\ now >= 1
    BY TimingAssumption DEF RuleInv, Types, Clocks
  <1>4. /\ n \in Worker /\ n.step = "starting" /\ n.at = now /\ n.mark = 0
        /\ n.fetched = <<>> /\ n.upserts = <<>>
    BY <1>3, OffType, Zenon DEF Off, Worker, Timely
  <1> HIDE DEF n
  <1>5. worker'[w] = n BY <1>1, <1>4 DEF RuleInv, Types
  <1>6. WorkerOK(w)'
    <2>1. WorkerClock(w)' BY <1>2, <1>3, <1>4, <1>5 DEF WorkerClock, Timely
    <2> QED BY <1>2, <1>4, <1>5, <2>1, Quiet, Zenon DEF Polling
  <1> QED BY <1>1, <1>2, <1>4, <1>6, EmptyBucket, WorkerMoved, Zenon

LEMMA StopWorkersSound ==
  ASSUME RuleInv, StopWorkers
  PROVE  RuleInv'
  <1>1. /\ mode = "multi" /\ registered' = NoWorker
        /\ UNCHANGED <<mode, now, rows, cache, synced, cmd, boot, load, worker, rewound, unloaded>>
    BY DEF StopWorkers, history
  <1>2. Types' /\ Clocks' /\ LoadOK' /\ KnownExist' /\ \A c \in Commands : CommandOK(c)'
    BY <1>1, Zenon DEF RuleInv, Types, Clocks, LoadOK, KnownExist, CommandOK, WrittenSince
  <1>3. ASSUME NEW w \in Workers PROVE WorkerOK(w)'
    BY <1>1, <1>2, BucketWritten, NamesAssumption DEF Shown, Reflects, Regressed
  <1> QED BY <1>2, <1>3 DEF RuleInv

LEMMA ExitSound ==
  ASSUME RuleInv, NEW w \in Workers, Exit(w)
  PROVE  RuleInv'
  <1> DEFINE n == [Off EXCEPT !.step = "exited"]
  <1>1. worker' = [worker EXCEPT ![w] = n]
        /\ UNCHANGED <<mode, now, rows, cache, synced, cmd, boot, load, registered, stopping, rewound, unloaded>>
    BY DEF Exit, history
  <1>2. /\ n \in Worker /\ n.step = "exited" /\ n.mark = 0
        /\ n.fetched = <<>> /\ n.upserts = <<>>
    BY OffType, Zenon DEF Off, Worker
  <1> HIDE DEF n
  <1>3. worker'[w] = n /\ Skew \in Nat /\ now \in Int /\ now >= 1
    BY <1>1, <1>2, TimingAssumption DEF RuleInv, Types, Clocks
  <1>4. WorkerOK(w)'
    <2>1. WorkerClock(w)' BY <1>1, <1>2, <1>3 DEF WorkerClock, Timely
    <2> QED BY <1>2, <1>3, <2>1, Quiet, ZenonT(30) DEF Polling
  <1> QED BY <1>1, <1>2, <1>4, EmptyBucket, WorkerMoved, Zenon

LEMMA EvictTenantSound ==
  ASSUME RuleInv, EvictTenant
  PROVE  RuleInv'
  <1>1. /\ stopping # NoWorker /\ stopping' = NoWorker /\ cache' = <<>> /\ synced' = 0
        /\ unloaded' = IF \A w \in Workers : Running(w) => Unread(w) THEN unloaded ELSE Rules
        /\ UNCHANGED <<mode, now, rows, cmd, boot, load, worker, registered, rewound>>
    BY DEF EvictTenant
  <1>2. Types'
    BY <1>1, EmptyBucket DEF RuleInv, Types
  <1>3. mode # "single" /\ Clocks' /\ LoadOK' /\ \A c \in Commands : CommandOK(c)'
    BY <1>1 DEF RuleInv, Clocks, LoadOK, CommandOK, WrittenSince, Types
  <1>4. KnownExist'
    BY <1>1, EmptyBucket, Zenon DEF RuleInv, KnownExist
  <1>5. ASSUME NEW w \in Workers PROVE WorkerOK(w)'
    <2>1. Since(w)' = Since(w)
      BY <1>1, Zenon DEF Since
    <2>2. WorkerClock(w)' /\ FetchedOK(w)' /\ ClassifiedOK(w)'
      <3>1. WorkerClock(w) /\ FetchedOK(w) /\ ClassifiedOK(w) BY Zenon DEF RuleInv, WorkerOK
      <3>2. WorkerClock(w)' BY <1>1, <3>1, Zenon DEF WorkerClock
      <3>3. FetchedOK(w)'
        BY <1>1, <2>1, <3>1, Zenon DEF FetchedOK, WrittenSince, WillBeFetched
      <3>4. ClassifiedOK(w)'
        BY <1>1, <3>1 DEF ClassifiedOK, WrittenSince
      <3> QED BY <3>2, <3>3, <3>4
    <2>3. LoadedRecent(w)'
      BY <1>1, <1>3, Zenon DEF LoadedRecent
    <2>4. CASE Running(w) /\ ~Unread(w)
      <3>1. Polled' = {} BY <1>1, <2>4, Zenon DEF Polled
      <3> QED BY <2>2, <2>3, <3>1, Zenon DEF WorkerOK, ClassifiedRecent, AppliedRecent, MarkOK
    <2>5. CASE Running(w) /\ Unread(w)
      <3>1. \A r \in Rules : WillBeFetched(w, r)'
        BY <1>1, <2>1, <2>5 DEF RuleInv, WillBeFetched, Since, Clocks, Unread
      <3>2. worker'[w].step = "idle" BY <1>1, <2>5 DEF Unread
      <3> QED BY <2>2, <2>3, <3>1, <3>2, Zenon DEF WorkerOK, ClassifiedRecent, AppliedRecent, MarkOK, Polled
    <2>6. CASE ~Running(w)
      BY <1>1, <2>2, <2>3, <2>6, Zenon
         DEF WorkerOK, ClassifiedRecent, AppliedRecent, MarkOK, Running, Polling
    <2> QED BY <2>4, <2>5, <2>6, Zenon
  <1> QED BY <1>2, <1>3, <1>4, <1>5 DEF RuleInv

LEMMA CrashSound ==
  ASSUME RuleInv, Crash
  PROVE  RuleInv'
  <1> DEFINE exited == [Off EXCEPT !.step = "exited"]
  <1>1. /\ boot' = "down" /\ load' = NoLoad /\ cache' = <<>> /\ synced' = 0 /\ stopping' = NoWorker
        /\ UNCHANGED <<mode, now, rows>>
        /\ cmd' = [c \in Commands |-> IF cmd[c] # Idle /\ cmd[c].local THEN Idle ELSE cmd[c]]
        /\ worker' = [w \in Workers |-> IF worker[w].step = "off" THEN Off ELSE exited]
    BY DEF Crash
  <1>2. exited \in Worker /\ exited.mark = 0 /\ exited.step = "exited"
        /\ exited.fetched = <<>> /\ exited.upserts = <<>>
    BY OffType, Zenon DEF Off, Worker
  <1>3. Off \in Worker /\ Off.mark = 0 /\ Off.step = "off"
        /\ Off.fetched = <<>> /\ Off.upserts = <<>>
    BY OffType, Zenon DEF Off
  <1> HIDE DEF exited
  <1>4. Types'
    BY <1>1, <1>2, <1>3, OffType, EmptyBucket DEF RuleInv, Types
  <1>5. Clocks' /\ LoadOK'
    BY <1>1 DEF RuleInv, Clocks, LoadOK, Types
  <1>6. \A c \in Commands : cmd'[c] = Idle \/ cmd'[c] = cmd[c]
    BY <1>1
  <1>7. ASSUME NEW c \in Commands PROVE CommandOK(c)'
    <2>1. CASE cmd'[c] = Idle BY <2>1 DEF CommandOK, Idle
    <2>2. CASE cmd'[c] # Idle
      <3>1. CommandOK(c) BY Zenon DEF RuleInv
      <3>2. cmd'[c] = cmd[c] /\ ~cmd[c].local BY <1>1, <2>2, Zenon
      <3> QED BY <1>1, <3>1, <3>2, Zenon DEF CommandOK
    <2> QED BY <2>1, <2>2
  <1>8. KnownExist'
    <2>1. load'.rules = <<>> BY <1>1, Zenon DEF NoLoad
    <2>2. \A w \in Workers : worker'[w].fetched = <<>> /\ worker'[w].upserts = <<>>
      BY <1>1, <1>2, <1>3
    <2> QED BY <1>1, <1>6, <2>1, <2>2, EmptyBucket, Zenon DEF RuleInv, KnownExist, Idle
  <1>9. ASSUME NEW w \in Workers PROVE WorkerOK(w)'
    <2>1. worker'[w].step \in {"off", "exited"} /\ worker'[w].mark = 0
      BY <1>1, <1>2, <1>3, Zenon
    <2>2. Skew \in Nat /\ now \in Int /\ now >= 1
      BY TimingAssumption, Zenon DEF RuleInv, Types, Clocks
    <2>3. WorkerClock(w)' BY <1>1, <2>1, <2>2 DEF WorkerClock, Timely
    <2> QED BY <2>1, <2>3, Quiet, Zenon DEF Polling
  <1> QED BY <1>4, <1>5, <1>7, <1>8, <1>9 DEF RuleInv

LEMMA TickSound ==
  ASSUME RuleInv, Tick
  PROVE  RuleInv'
  <1>1. now' = now + 1 /\ UNCHANGED <<mode, rows, cache, synced, cmd, boot, load, worker, registered, stopping,
                                      rewound, unloaded>>
    BY DEF Tick, history
  <1>2. Lag \in Nat /\ Skew \in Nat /\ now \in Int
    BY TimingAssumption, Zenon DEF RuleInv, Types
  <1>3. Types'
    BY <1>1, <1>2 DEF RuleInv, Types
  <1>4. Clocks'
    BY <1>1, <1>2 DEF RuleInv, Clocks, Types, Row
  <1>5. KnownExist'
    BY <1>1, Zenon DEF RuleInv, KnownExist
  <1>6. LoadOK'
    <2>1. boot = "loading" => now' <= load.at + Lag
      BY <1>1, <1>2 DEF RuleInv, Tick, Types
    <2> QED BY <1>1, <1>2, <1>3, <2>1, LoadUnmoved
  <1>7. ASSUME NEW c \in Commands PROVE CommandOK(c)'
    <2>1. cmd[c].step = "committed" => now' <= cmd[c].at + Lag
      <3>1. cmd[c].step = "committed" => cmd[c].at \in Int
        BY DEF RuleInv, Types, Command, Idle
      <3>2. cmd[c].step = "committed" => now - cmd[c].at < Lag BY Zenon DEF Tick
      <3> QED BY <1>1, <1>2, <3>1, <3>2
    <2> QED BY <1>1, <1>2, <1>3, <2>1, CommandUnmoved
  <1>8. ASSUME NEW w \in Workers PROVE WorkerOK(w)'
    <2>1. worker[w].step \in Timely => now' <= worker[w].at + Lag
      <3>1. worker[w].at \in Int BY Zenon DEF RuleInv, Types, Worker
      <3>2. worker[w].step \in Timely => now - worker[w].at < Lag BY Zenon DEF Tick, Timely
      <3> QED BY <1>1, <1>2, <3>1, <3>2
    <2>2. \A r \in Rules : rows'[r] = rows[r] /\ (Shown(r) => Shown(r)') /\ 0 - Skew <= rows'[r].updatedAt
      BY <1>1 DEF RuleInv, Shown, Reflects, Regressed, Clocks
    <2> QED BY <1>1, <1>2, <1>3, <2>1, <2>2, Unmoved
  <1> QED BY <1>3, <1>4, <1>5, <1>6, <1>7, <1>8, Zenon DEF RuleInv
-----------------------------------------------------------------------------
LEMMA InitialRules == Init => RuleInv
  <1> SUFFICES ASSUME Init PROVE RuleInv
    BY Zenon
  <1>1. /\ Off \in Worker /\ Off.mark = 0 /\ Off.step = "off" /\ Off.at = 0
        /\ Off.fetched = <<>> /\ Off.upserts = <<>>
        /\ NoLoad.rules = <<>>
    BY OffType, Zenon DEF Off, NoLoad
  <1>2. \A r \in Rules : rows[r] \in Row /\ rows[r].updatedAt = 0
    BY DEF Init, Row, Statuses
  <1>3. Types
    <2>1. rows \in [Rules -> Row] BY <1>2, Zenon DEF Init
    <2>2. mode \in {"single", "multi"} BY NamesAssumption, Zenon DEF Init
    <2> QED BY <1>1, <2>1, <2>2, OffType, EmptyBucket DEF Init, Types
  <1>4. Clocks /\ LoadOK /\ \A c \in Commands : CommandOK(c)
    BY <1>2, TimingAssumption DEF Init, Clocks, LoadOK, CommandOK, Idle
  <1>5. KnownExist
    BY <1>1, EmptyBucket, Zenon DEF Init, KnownExist, Idle
  <1>6. ASSUME NEW w \in Workers PROVE WorkerOK(w)
    <2>1. worker[w] = Off /\ now = 1 BY DEF Init
    <2> QED BY <1>1, <2>1, TimingAssumption DEF WorkerOK, WorkerClock, FetchedOK, ClassifiedOK,
            LoadedRecent, ClassifiedRecent, AppliedRecent, MarkOK, Timely, Polling
  <1> QED BY <1>3, <1>4, <1>5, <1>6 DEF RuleInv

LEMMA StutterSound ==
  ASSUME RuleInv, UNCHANGED vars
  PROVE  RuleInv'
  <1>1. UNCHANGED <<mode, now, rows, cache, synced, cmd, boot, load, worker, registered, stopping,
                    rewound, unloaded>>
    BY DEF vars, history
  <1>2. Types' /\ Clocks' /\ LoadOK' /\ KnownExist' /\ \A c \in Commands : CommandOK(c)'
    BY <1>1, ZenonT(30) DEF RuleInv, Types, Clocks, LoadOK, KnownExist, CommandOK, WrittenSince
  <1>3. ASSUME NEW w \in Workers PROVE WorkerOK(w)'
    BY <1>1, <1>2, BucketWritten, Zenon DEF Shown, Reflects, Regressed
  <1> QED BY <1>2, <1>3 DEF RuleInv

LEMMA RulesPreserved == RuleInv /\ [Next]_vars => RuleInv'
  <1> SUFFICES ASSUME RuleInv, [Next]_vars PROVE RuleInv'
    OBVIOUS
  <1>1. ASSUME NEW c \in Commands, NEW r \in Rules,
               CreateRule(c, r) \/ UpdateRule(c, r) \/ DraftRule(c, r) \/ DeleteRule(c, r)
        PROVE  RuleInv'
    BY <1>1, BeginSound, Zenon DEF CreateRule, UpdateRule, DraftRule, DeleteRule
  <1>2. ASSUME NEW c \in Commands, NEW r \in Rules, ActivateRule(c, r) \/ DeactivateRule(c, r)
        PROVE  RuleInv'
    BY <1>2, BeginSound DEF ActivateRule, DeactivateRule
  <1>3. ASSUME NEW c \in Commands, Persist(c) \/ Fail(c) \/ WriteCache(c) PROVE RuleInv'
    BY <1>3, PersistSound, FailSound, WriteCacheSound
  <1>4. ASSUME NEW w \in Workers, Cycle(w) \/ Exit(w) PROVE RuleInv'
    BY <1>4, RunLoopSound, QueryDeltaSound, ClassifySound, ApplySound, FinishCycleSound, ExitSound DEF Cycle
  <1>5. ASSUME WarmUp \/ FinishWarmUp \/ BootTenants \/ EnsureWorkers \/ StopWorkers \/ EvictTenant
               \/ Crash \/ Tick
        PROVE  RuleInv'
    BY <1>5, WarmUpSound, FinishWarmUpSound, BootTenantsSound, EnsureWorkersSound, StopWorkersSound,
       EvictTenantSound, CrashSound, TickSound
  <1>6. CASE UNCHANGED vars BY <1>6, StutterSound
  <1> QED BY <1>1, <1>2, <1>3, <1>4, <1>5, <1>6 DEF Next

\* The mark of RuleSyncWorker never runs past a change of a polled rule that the
\* bucket does not show, as long as the overlap buffer is three lags and two skews.
THEOREM NoChangeIsMissed == Spec => []NothingMissed
  <1>1. RuleInv => NothingMissed
    BY Zenon DEF RuleInv, WorkerOK, MarkOK, NothingMissed, Running, Polling, Shown
  <1> QED BY <1>1, InitialRules, RulesPreserved, PTL DEF Spec

\* When a cycle of RuleSyncWorker has been applied, every polled rule that was
\* settled when it polled is in the bucket as it is in the table.
THEOREM CyclesCatchUp == Spec => []CycleCatchesUp
  <1>1. RuleInv => CycleCatchesUp
    <2> SUFFICES ASSUME RuleInv, NEW w \in Workers, worker[w].step = "applied", registered = w,
                        NEW r \in Polled, rows[r].updatedAt < worker[w].at - 2 * Lag - Skew
                 PROVE  Reflects(r) \/ Regressed(r)
      BY Zenon DEF CycleCatchesUp
    <2>1. /\ rows[r].updatedAt \in Int /\ worker[w].at \in Int /\ Lag \in Nat /\ Skew \in Nat
          /\ AppliedRecent(w) /\ r \notin rewound
      BY TimingAssumption DEF RuleInv, Types, Row, Worker, WorkerOK, Polled
    <2> QED BY <2>1 DEF AppliedRecent, Shown, Recent
  <1> QED BY <1>1, InitialRules, RulesPreserved, PTL DEF Spec
=============================================================================
